----------------------------- MODULE JointProofs -----------------------------
(***************************************************************************)
(* What the joint post-optimization keeps, for every plan it is given,     *)
(* every choice of its searches and every answer of the crew solver.       *)
(***************************************************************************)
EXTENDS PostOptimization, FoldTheorems

-------------------------------------------------------------------------------
(* Blocks that hold trips.                                                     *)

(* A block can be driven if the given ones can.                                *)
Runs(q) == GivenDrivable => Feasible(q)
Block == {b \in [id : Nat, trips : Seq(TripIds(problem))] : Runs(b.trips)}

(* The trips of a list of blocks. *)
Driven(s) == UNION {Range(s[i].trips) : i \in DOMAIN s}

(* The blocks s hold the trips S, each of them once. *)
Holds(s, S) ==
    /\ s \in Seq(Block)
    /\ \A i \in DOMAIN s : IsInjective(s[i].trips)
    /\ \A i, j \in DOMAIN s : i # j => Range(s[i].trips) \cap Range(s[j].trips) = {}
    /\ Driven(s) = S

Filled(s) == \A i \in DOMAIN s : s[i].trips # <<>>

(* No two blocks have one number. *)
NamedApart(s) == \A i, j \in DOMAIN s : s[i].id = s[j].id => i = j

(* Both: a plan of the trips S, by whose numbers its blocks can be told apart. *)
Numbers(s, S) == Holds(s, S) /\ NamedApart(s)

LEMMA HeldList ==
  ASSUME NEW s, NEW S, Holds(s, S)
  PROVE  /\ IsList(s) /\ Len(s) \in Nat /\ DOMAIN s = 1..Len(s)
         /\ \A i \in DOMAIN s : /\ s[i] \in Block /\ s[i].id \in Nat
                                /\ s[i].trips \in Seq(TripIds(problem))
                                /\ Range(s[i].trips) \subseteq S
<1>1. s \in Seq(Block) /\ Len(s) \in Nat /\ DOMAIN s = 1..Len(s)
  BY DEF Holds
<1>2. IsList(s)
  BY <1>1, MadeList
<1>3. \A i \in DOMAIN s : s[i] \in Block
  BY <1>1
<1>4. \A i \in DOMAIN s : Range(s[i].trips) \subseteq S
  BY DEF Holds, Driven
<1>5. \A i \in DOMAIN s : s[i].id \in Nat /\ s[i].trips \in Seq(TripIds(problem))
  BY <1>3 DEF Block
<1> QED
  BY <1>1, <1>2, <1>3, <1>4, <1>5

(* u has the blocks of s in some order and under some numbers; only empty      *)
(* blocks are missing.                                                         *)
Rearranges(u, s, at) ==
    /\ \E n \in Nat : at \in [1..n -> DOMAIN s] /\ u = [k \in 1..n |-> u[k]]
    /\ IsInjective(at)
    /\ \A i \in DOMAIN s : i \in Range(at) \/ s[i].trips = <<>>
    /\ \A k \in DOMAIN at : u[k] \in Block /\ u[k].trips = s[at[k]].trips

LEMMA Rearranged ==
  ASSUME NEW s, NEW S, Holds(s, S), NEW u, NEW at, Rearranges(u, s, at)
  PROVE  /\ Holds(u, S)
         /\ Filled(s) => Filled(u)
<1>1. PICK n \in Nat : at \in [1..n -> DOMAIN s] /\ u = [k \in 1..n |-> u[k]]
  BY DEF Rearranges
<1>2. DOMAIN at = 1..n /\ DOMAIN u = 1..n /\ \A k \in 1..n : at[k] \in DOMAIN s
  BY <1>1
<1>3. \A k \in 1..n : u[k] \in Block /\ u[k].trips = s[at[k]].trips
  BY <1>2 DEF Rearranges
<1>4. u \in Seq(Block)
  <2>1. u \in [1..n -> Block]
    BY <1>1, <1>3
  <2> QED
    BY <2>1
<1>5. \A k \in DOMAIN u : IsInjective(u[k].trips)
  BY <1>2, <1>3 DEF Holds
<1>6. ASSUME NEW k \in DOMAIN u, NEW l \in DOMAIN u, k # l
      PROVE  Range(u[k].trips) \cap Range(u[l].trips) = {}
  <2>1. at[k] # at[l]
    BY <1>2, <1>6 DEF Rearranges, IsInjective
  <2> QED
    BY <1>2, <1>3, <2>1 DEF Holds
<1>7. Driven(u) = S
  <2>1. ASSUME NEW t \in Driven(u) PROVE t \in Driven(s)
    BY <1>2, <1>3, <2>1 DEF Driven
  <2>2. ASSUME NEW t \in Driven(s) PROVE t \in Driven(u)
    <3>1. PICK i \in DOMAIN s : t \in Range(s[i].trips)
      BY <2>2 DEF Driven
    <3>2. s[i].trips # <<>>
      BY <3>1 DEF Range
    <3>3. i \in Range(at)
      BY <3>2 DEF Rearranges
    <3>4. PICK k \in DOMAIN at : at[k] = i
      BY <3>3 DEF Range
    <3> QED
      BY <1>2, <1>3, <3>1, <3>4 DEF Driven
  <2> QED
    BY <2>1, <2>2 DEF Holds
<1>8. Filled(s) => Filled(u)
  BY <1>2, <1>3 DEF Filled
<1> QED
  BY <1>4, <1>5, <1>6, <1>7, <1>8 DEF Holds

(* Trips pass between two blocks. *)
LEMMA Exchanged ==
  ASSUME NEW s, NEW S, Holds(s, S), NEW u \in Seq(Block), DOMAIN u = DOMAIN s,
         NEW r \in DOMAIN s, NEW d \in DOMAIN s, r # d,
         \A i \in DOMAIN s \ {r, d} : u[i].trips = s[i].trips,
         IsInjective(u[r].trips), IsInjective(u[d].trips),
         Range(u[r].trips) \cap Range(u[d].trips) = {},
         Range(u[r].trips) \cup Range(u[d].trips) = Range(s[r].trips) \cup Range(s[d].trips)
  PROVE  Holds(u, S)
<1>1. \A i \in DOMAIN u : IsInjective(u[i].trips)
  BY DEF Holds
<1>2. ASSUME NEW i \in DOMAIN s, NEW j \in DOMAIN s, i # j
      PROVE  Range(u[i].trips) \cap Range(u[j].trips) = {}
  <2> DEFINE A(k) == Range(s[k].trips)
             B(k) == Range(u[k].trips)
  <2>1. \A k, l \in DOMAIN s : k # l => A(k) \cap A(l) = {}
    BY DEF Holds
  <2>2. \A k \in DOMAIN s \ {r, d} : B(k) = A(k)
    OBVIOUS
  <2>3. B(r) \cap B(d) = {} /\ B(r) \cup B(d) = A(r) \cup A(d)
    OBVIOUS
  <2> HIDE DEF A, B
  <2>4. B(i) \cap B(j) = {}
    <3>1. CASE i \in {r, d} /\ j \in {r, d}
      BY <1>2, <2>3, <3>1
    <3>2. CASE i \in {r, d} /\ j \notin {r, d}
      <4>1. B(j) = A(j) /\ A(j) \cap A(r) = {} /\ A(j) \cap A(d) = {}
        BY <2>1, <2>2, <3>2
      <4> QED
        BY <2>3, <3>2, <4>1
    <3>3. CASE i \notin {r, d} /\ j \in {r, d}
      <4>1. B(i) = A(i) /\ A(i) \cap A(r) = {} /\ A(i) \cap A(d) = {}
        BY <2>1, <2>2, <3>3
      <4> QED
        BY <2>3, <3>3, <4>1
    <3>4. CASE i \notin {r, d} /\ j \notin {r, d}
      BY <1>2, <2>1, <2>2, <3>4
    <3> QED
      BY <3>1, <3>2, <3>3, <3>4
  <2> QED
    BY <2>4 DEF B
<1>3. Driven(u) = Driven(s)
  <2>1. ASSUME NEW t \in Driven(u) PROVE t \in Driven(s)
    <3>1. PICK i \in DOMAIN s : t \in Range(u[i].trips)
      BY <2>1 DEF Driven
    <3>2. CASE i \in {r, d}
      <4>1. t \in Range(s[r].trips) \cup Range(s[d].trips)
        BY <3>1, <3>2
      <4> QED
        BY <4>1 DEF Driven
    <3>3. CASE i \notin {r, d}
      BY <3>1, <3>3 DEF Driven
    <3> QED
      BY <3>2, <3>3
  <2>2. ASSUME NEW t \in Driven(s) PROVE t \in Driven(u)
    <3>1. PICK i \in DOMAIN s : t \in Range(s[i].trips)
      BY <2>2 DEF Driven
    <3>2. CASE i \in {r, d}
      <4>1. t \in Range(u[r].trips) \cup Range(u[d].trips)
        BY <3>1, <3>2
      <4> QED
        BY <4>1 DEF Driven
    <3>3. CASE i \notin {r, d}
      BY <3>1, <3>3 DEF Driven
    <3> QED
      BY <3>2, <3>3
  <2> QED
    BY <2>1, <2>2
<1> QED
  BY <1>1, <1>2, <1>3 DEF Holds

-------------------------------------------------------------------------------
(* Numbering, sorting, picking and removing.                                   *)

LEMMA NumberedHolds ==
  ASSUME NEW s, NEW S, Holds(s, S)
  PROVE  /\ Holds(Numbered(s), S) /\ NamedApart(Numbered(s))
         /\ Filled(s) => Filled(Numbered(s))
         /\ DOMAIN Numbered(s) = DOMAIN s
<1> DEFINE u == Numbered(s)
           at == [i \in 1..Len(s) |-> i]
<1>1. Len(s) \in Nat /\ DOMAIN s = 1..Len(s) /\ \A i \in DOMAIN s : s[i] \in Block
  BY HeldList
<1>2. u = [i \in 1..Len(s) |-> [s[i] EXCEPT !.id = i]]
  BY <1>1 DEF Numbered
<1>3. \A i \in 1..Len(s) : u[i] \in Block /\ u[i].trips = s[i].trips /\ u[i].id = i
  <2> SUFFICES ASSUME NEW i \in 1..Len(s)
               PROVE  u[i] \in Block /\ u[i].trips = s[i].trips /\ u[i].id = i
    OBVIOUS
  <2>1. u[i] = [s[i] EXCEPT !.id = i]
    BY <1>2
  <2>2. i \in Nat /\ s[i] \in Block /\ <<>> \in Seq(TripIds(problem))
    BY <1>1
  <2> HIDE DEF u
  <2> QED
    BY <2>1, <2>2 DEF Block
<1>4. u = [i \in 1..Len(s) |-> u[i]]
  BY <1>2
<1> HIDE DEF u
<1>5. Rearranges(u, s, at)
  BY <1>1, <1>3, <1>4 DEF Rearranges, IsInjective, Range
<1>6. NamedApart(u) /\ DOMAIN u = DOMAIN s
  BY <1>1, <1>3, <1>4 DEF NamedApart
<1>7. Holds(u, S) /\ (Filled(s) => Filled(u))
  BY <1>5, Rearranged
<1> QED
  BY <1>6, <1>7 DEF u

LEMMA PickedHolds ==
  ASSUME NEW s, NEW S, Holds(s, S), NEW I, I \subseteq DOMAIN s,
         \A i \in DOMAIN s \ I : s[i].trips = <<>>
  PROVE  /\ Holds(Picked(s, I), S)
         /\ (\A i \in I : s[i].trips # <<>>) => Filled(Picked(s, I))
<1> DEFINE n == Cardinality(I)
           u == Picked(s, I)
<1>1. s \in Seq(Block) /\ \A i \in DOMAIN s : s[i] \in Block
  BY HeldList DEF Holds
<1>2. PICK at \in [1..n -> I] :
        Range(at) = I /\ IsInjective(at) /\ u = [k \in 1..n |-> s[at[k]]] /\ n \in Nat
  BY <1>1, PickedLists
<1> HIDE DEF n, u
<1>3. DOMAIN at = 1..n /\ \A k \in 1..n : at[k] \in I /\ u[k] = s[at[k]]
  BY <1>2
<1>4. u = [k \in 1..n |-> u[k]] /\ DOMAIN u = 1..n
  BY <1>2
<1>5. Rearranges(u, s, at)
  <2>1. at \in [1..n -> DOMAIN s]
    BY <1>2
  <2>2. \A k \in DOMAIN at : u[k] \in Block /\ u[k].trips = s[at[k]].trips
    BY <1>1, <1>3
  <2> QED
    BY <1>2, <1>4, <2>1, <2>2 DEF Rearranges
<1>6. Holds(u, S)
  BY <1>5, Rearranged
<1>7. (\A i \in I : s[i].trips # <<>>) => Filled(u)
  BY <1>3, <1>4 DEF Filled
<1> QED
  BY <1>6, <1>7 DEF u

LEMMA NoEmptyHolds ==
  ASSUME NEW s, NEW S, Holds(s, S)
  PROVE  Holds(NoEmpty(s), S) /\ Filled(NoEmpty(s))
<1> DEFINE I == {i \in DOMAIN s : s[i].trips # <<>>}
<1>1. NoEmpty(s) = Picked(s, I)
  BY DEF NoEmpty
<1>2. /\ I \subseteq DOMAIN s /\ \A i \in DOMAIN s \ I : s[i].trips = <<>>
      /\ \A i \in I : s[i].trips # <<>>
  OBVIOUS
<1> HIDE DEF I
<1> QED
  BY <1>1, <1>2, PickedHolds

LEMMA TimesTyped ==
  ASSUME problem \in Problems
  PROVE  /\ TripIds(problem) \subseteq Nat /\ IsFiniteSet(TripIds(problem))
         /\ \A t \in TripIds(problem) : Trip(t).st \in Int /\ Trip(t).en \in Int
         /\ \A t, v \in TripIds(problem) : TripGap(problem, t, v) \in Int
<1> DEFINE T == [st : Int, en : Int, from : Int, to : Int, line : Int,
                 group : Int, depot : Int, kwh : Int, after : Int]
<1>1. problem.trips \in Seq(T)
  BY ProblemsAssumption
<1>2. \A t \in T : t.st \in Int /\ t.en \in Int
  OBVIOUS
<1> HIDE DEF T
<1>3. /\ TripIds(problem) = 1..Len(problem.trips) /\ Len(problem.trips) \in Nat
      /\ \A t \in TripIds(problem) : problem.trips[t] \in T
  BY <1>1 DEF TripIds
<1>4. IsFiniteSet(TripIds(problem)) /\ TripIds(problem) \subseteq Nat
  BY <1>3, FS_Interval
<1> QED
  BY <1>2, <1>3, <1>4 DEF Trip, TripGap

(* A block that has trips begins with one and ends with one. *)
LEMMA BlockEnds ==
  ASSUME problem \in Problems, NEW q \in Seq(TripIds(problem)), q # <<>>
  PROVE  /\ Len(q) \in Nat \ {0} /\ q[1] \in TripIds(problem) /\ q[1] \in Range(q)
         /\ Last(q) \in TripIds(problem) /\ Last(q) \in Range(q)
<1>1. Len(q) \in Nat \ {0} /\ 1 \in DOMAIN q /\ Len(q) \in DOMAIN q
  OBVIOUS
<1> QED
  BY <1>1 DEF Last, Range

-------------------------------------------------------------------------------
(* Blocks that can be driven.                                                  *)

(* A connection that can be made takes no time back. *)
LEMMA LinkForward ==
  ASSUME problem \in Problems, NEW a \in TripIds(problem), NEW b \in TripIds(problem),
         IsConnectionFeasible(problem, View, a, b)
  PROVE  Trip(a).en <= Trip(b).st
<1>1. TripGap(problem, a, b) \in Int /\ Trip(a).en \in Int /\ Trip(b).st \in Int
  BY TimesTyped
<1>2. TripGap(problem, a, b) = 0 \/ TripGap(problem, a, b) > 0
  BY DEF IsConnectionFeasible
<1> QED
  BY <1>1, <1>2 DEF TripGap, Trip

(* On a chain of trips that take time, each ends before any later one starts.  *)
LEMMA ChainClimbs ==
  ASSUME problem \in Problems, GivenDrivable, NEW q \in Seq(TripIds(problem)),
         Chain(problem, View, q)
  PROVE  \A i, j \in 1..Len(q) : i < j => Trip(q[i]).en <= Trip(q[j]).st
<1> DEFINE n == Len(q)
           st(i) == Trip(q[i]).st
           en(i) == Trip(q[i]).en
           Good == {k \in Nat : \A i \in 1..n : i + k + 1 \in 1..n => en(i) <= st(i + k + 1)}
<1>1. n \in Nat /\ \A i \in 1..n : q[i] \in TripIds(problem)
  OBVIOUS
<1>2. \A i \in 1..n : st(i) \in Int /\ en(i) \in Int /\ st(i) < en(i)
  BY <1>1, TimesTyped DEF GivenDrivable
<1>3. \A i \in 1..n : i + 1 \in 1..n => en(i) <= st(i + 1)
  <2> SUFFICES ASSUME NEW i \in 1..n, i + 1 \in 1..n PROVE en(i) <= st(i + 1)
    OBVIOUS
  <2>1. i \in 1..(n - 1)
    BY <1>1
  <2>2. IsConnectionFeasible(problem, View, q[i], q[i + 1])
    BY <2>1 DEF Chain
  <2> QED
    BY <1>1, <2>2, LinkForward
<1> HIDE DEF st, en, n
<1>4. 0 \in Good
  BY <1>1, <1>3
<1>5. ASSUME NEW k \in Nat, k \in Good PROVE k + 1 \in Good
  <2> SUFFICES ASSUME NEW i \in 1..n, i + (k + 1) + 1 \in 1..n
               PROVE  en(i) <= st(i + (k + 1) + 1)
    OBVIOUS
  <2> DEFINE m == i + k + 1
  <2>1. m \in 1..n /\ m + 1 \in 1..n /\ i + (k + 1) + 1 = m + 1
    BY <1>1
  <2>2. en(i) <= st(m)
    BY <1>5, <2>1
  <2> HIDE DEF m
  <2>3. st(m) < en(m) /\ en(m) <= st(m + 1)
    BY <1>2, <1>3, <2>1
  <2>4. en(i) <= st(m + 1)
    BY <1>2, <2>1, <2>2, <2>3
  <2> QED
    BY <2>1, <2>4
<1> HIDE DEF Good
<1>6. \A k \in Nat : k \in Good
  BY <1>4, <1>5, NumberInduction
<1>7. ASSUME NEW i \in 1..n, NEW j \in 1..n, i < j PROVE en(i) <= st(j)
  <2> DEFINE k == j - i - 1
  <2>1. k \in Nat /\ i + k + 1 = j
    BY <1>1, <1>7
  <2> HIDE DEF k
  <2>2. k \in Good
    BY <1>6, <2>1
  <2> QED
    BY <2>1, <2>2 DEF Good
<1> QED
  BY <1>7 DEF st, en, n

(* A block that may be driven keeps to one line unless lines may be mixed.     *)
OneLine(q) == prm.multiLine \/ Cardinality(Lines(q)) = 1

LEMMA LinesFinite ==
  ASSUME NEW q \in Seq(TripIds(problem))
  PROVE  IsFiniteSet(Lines(q))
<1> DEFINE f == [i \in DOMAIN q |-> Trip(q[i]).line]
<1>1. IsFiniteSet(DOMAIN q)
  <2>1. DOMAIN q = 1..Len(q) /\ Len(q) \in Nat
    OBVIOUS
  <2> QED
    BY <2>1, FS_Interval
<1>2. Lines(q) = {f[i] : i \in DOMAIN q}
  BY DEF Lines
<1> HIDE DEF f
<1> QED
  BY <1>1, <1>2, ImagesFinite

LEMMA RunsOneLine ==
  ASSUME NEW q \in Seq(TripIds(problem)), q # <<>>, Feasible(q)
  PROVE  OneLine(q)
<1>1. CASE Len(q) <= 1
  <2>1. DOMAIN q = {1}
    <3>1. Len(q) \in Nat /\ Len(q) # 0 /\ DOMAIN q = 1..Len(q)
      OBVIOUS
    <3>2. Len(q) = 1
      BY <1>1, <3>1
    <3> QED
      BY <3>1, <3>2
  <2>2. Lines(q) = {Trip(q[1]).line}
    BY <2>1 DEF Lines
  <2> QED
    BY <2>2, FS_Singleton DEF OneLine
<1>2. CASE ~(Len(q) <= 1)
  BY <1>2 DEF Feasible, OneLine
<1> QED
  BY <1>1, <1>2

(* A part of a block that can be driven can be driven. *)
LEMMA WindowRuns ==
  ASSUME problem \in Problems, NEW q \in Seq(TripIds(problem)), Runs(q),
         NEW p \in Seq(TripIds(problem)), NEW off \in Nat, off + Len(p) <= Len(q),
         \A k \in 1..Len(p) : p[k] = q[off + k]
  PROVE  Runs(p)
<1> SUFFICES ASSUME GivenDrivable, Len(p) > 1 PROVE Feasible(p)
  BY DEF Runs, Feasible
<1> DEFINE m == Len(p)
           n == Len(q)
<1>1. m \in Nat /\ n \in Nat /\ m > 1 /\ n > 1 /\ off + m <= n
  OBVIOUS
<1>2. SpanOk(q) /\ (prm.multiLine \/ Cardinality(Lines(q)) = 1) /\ Chain(problem, View, q)
  BY <1>1 DEF Runs, Feasible
<1>3. \A k \in 1..m : off + k \in 1..n /\ p[k] = q[off + k] /\ q[off + k] \in TripIds(problem)
  BY <1>1
<1>4. Chain(problem, View, p)
  <2> SUFFICES ASSUME NEW k \in 1..(m - 1) PROVE IsConnectionFeasible(problem, View, p[k], p[k + 1])
    BY DEF Chain
  <2> DEFINE l == off + k
  <2>1. l \in 1..(n - 1) /\ p[k] = q[l] /\ p[k + 1] = q[l + 1]
    <3>1. k \in 1..m /\ k + 1 \in 1..m /\ off + (k + 1) = l + 1
      BY <1>1
    <3> QED
      BY <1>1, <1>3, <3>1
  <2> HIDE DEF l
  <2>2. IsConnectionFeasible(problem, View, q[l], q[l + 1])
    BY <1>2, <2>1 DEF Chain
  <2> QED
    BY <2>1, <2>2
<1>5. prm.multiLine \/ Cardinality(Lines(p)) = 1
  <2> SUFFICES ASSUME Cardinality(Lines(q)) = 1 PROVE Cardinality(Lines(p)) = 1
    BY <1>2
  <2>1. PICK x : Lines(q) = {x}
    BY LinesFinite, FS_Singleton
  <2>2. \A k \in 1..m : Trip(p[k]).line \in Lines(q)
    BY <1>3 DEF Lines
  <2>3. Lines(p) = {x}
    <3>1. DOMAIN p = 1..m /\ 1 \in 1..m
      BY <1>1
    <3> HIDE DEF m
    <3> QED
      BY <2>1, <2>2, <3>1 DEF Lines
  <2> QED
    BY <2>3, FS_Singleton
<1>6. SpanOk(p)
  <2> SUFFICES ASSUME prm.span # 0, SpreadOf(problem, q) <= prm.span
               PROVE  SpreadOf(problem, p) <= prm.span
    BY <1>2 DEF SpanOk
  <2> DEFINE st(i) == Trip(q[i]).st
             en(i) == Trip(q[i]).en
             lo == off + 1
             hi == off + m
  <2>1. \A i \in 1..n : st(i) \in Int /\ en(i) \in Int /\ st(i) < en(i)
    <3>1. \A i \in 1..n : q[i] \in TripIds(problem)
      OBVIOUS
    <3> QED
      BY <3>1, TimesTyped DEF GivenDrivable
  <2>2. \A i, j \in 1..n : i < j => en(i) <= st(j)
    BY <1>2, ChainClimbs
  <2>3. lo \in 1..n /\ hi \in 1..n /\ 1 \in 1..n /\ n \in 1..n /\ prm.span \in Int
    <3>1. prm.span \in Int
      <4>1. problem.prm.span \in Nat
        BY ONLY problem \in Problems, ProblemsAssumption
      <4> QED
        BY ONLY <4>1 DEF prm
    <3>2. off \in Nat
      OBVIOUS
    <3> HIDE DEF m, n
    <3> QED
      BY <1>1, <3>1, <3>2
  <2>4. SpreadOf(problem, q) = en(n) - st(1)
    BY DEF SpreadOf, Last, Trip
  <2>5. SpreadOf(problem, p) = en(hi) - st(lo)
    <3>1. p[m] = q[hi] /\ p[1] = q[lo]
      BY <1>1, <1>3
    <3> QED
      BY <3>1 DEF SpreadOf, Last, Trip
  <2>6. en(hi) <= en(n)
    <3>1. CASE hi = n
      <4> HIDE DEF st, en, hi, n
      <4> QED
        BY <2>1, <2>3, <3>1
    <3>2. CASE hi # n
      <4>1. hi < n
        BY <1>1, <3>2
      <4>2. en(hi) <= st(n) /\ st(n) < en(n)
        BY <2>1, <2>2, <2>3, <4>1
      <4> HIDE DEF st, en, hi, n
      <4> QED
        BY <2>1, <2>3, <4>2
    <3> QED
      BY <3>1, <3>2
  <2>7. st(1) <= st(lo)
    <3>1. CASE lo = 1
      <4> HIDE DEF st, en, lo, n
      <4> QED
        BY <2>1, <2>3, <3>1
    <3>2. CASE lo # 1
      <4>1. 1 < lo
        BY <1>1, <3>2
      <4>2. st(1) < en(1) /\ en(1) <= st(lo)
        BY <2>1, <2>2, <2>3, <4>1
      <4> HIDE DEF st, en, lo, n
      <4> QED
        BY <2>1, <2>3, <4>2
    <3> QED
      BY <3>1, <3>2
  <2> HIDE DEF st, en, lo, hi, m, n
  <2> QED
    BY <2>1, <2>3, <2>4, <2>5, <2>6, <2>7
<1> QED
  BY <1>4, <1>5, <1>6 DEF Feasible

LEMMA ShortRuns ==
  ASSUME NEW q, Len(q) <= 1
  PROVE  Runs(q)
BY DEF Runs, Feasible

(* What is left of such a block behind its first trip, and its two parts. *)
LEMMA TailRuns ==
  ASSUME problem \in Problems, NEW q \in Seq(TripIds(problem)), q # <<>>, Runs(q)
  PROVE  Runs(Tail(q))
<1> DEFINE p == Tail(q)
<1>1. /\ p \in Seq(TripIds(problem)) /\ 1 + Len(p) <= Len(q)
      /\ \A k \in 1..Len(p) : p[k] = q[k + 1]
  OBVIOUS
<1>2. \A k \in 1..Len(p) : p[k] = q[1 + k]
  <2>1. Len(p) \in Nat
    OBVIOUS
  <2> HIDE DEF p
  <2>2. \A k \in 1..Len(p) : 1 + k = k + 1
    BY <2>1
  <2> QED
    BY <1>1, <2>2
<1> HIDE DEF p
<1>3. Runs(p)
  BY <1>1, <1>2, WindowRuns
<1> QED
  BY <1>3 DEF p

LEMMA PartsRun ==
  ASSUME problem \in Problems, NEW q \in Seq(TripIds(problem)), Runs(q),
         NEW k \in 0..Len(q), NEW next, next = k + 1
  PROVE  Runs(SubSeq(q, 1, k)) /\ Runs(SubSeq(q, next, Len(q)))
<1> DEFINE n == Len(q)
           p == SubSeq(q, 1, k)
           r == SubSeq(q, next, n)
<1>1. n \in Nat /\ k \in Nat /\ k <= n /\ \A i \in 1..n : q[i] \in TripIds(problem)
  OBVIOUS
<1>2. p \in Seq(TripIds(problem)) /\ Len(p) = k /\ \A i \in 1..k : p[i] = q[i]
  <2>1. \A i \in 1..k : q[i] \in TripIds(problem)
    BY <1>1
  <2> QED
    BY <1>1, <2>1
<1>3. /\ r \in Seq(TripIds(problem)) /\ Len(r) = n - k
      /\ \A i \in 1..(n - k) : r[i] = q[k + i]
  <2>1. \A i \in next..n : q[i] \in TripIds(problem)
    BY <1>1
  <2>2. next \in Int /\ n \in Int /\ n - next + 1 = n - k
    BY <1>1
  <2> HIDE DEF n
  <2>3. /\ r \in Seq(TripIds(problem))
        /\ Len(r) = IF next <= n THEN n - next + 1 ELSE 0
        /\ \A i \in 1..(n - next + 1) : r[i] = q[next + i - 1]
    BY ONLY <2>1, <2>2, SubSeqProperties
  <2>4. Len(r) = n - k
    BY <1>1, <2>2, <2>3
  <2>5. \A i \in 1..(n - k) : next + i - 1 = k + i
    BY <1>1
  <2> QED
    BY <2>2, <2>3, <2>4, <2>5
<1> HIDE DEF n, p, r
<1>4. Runs(p)
  <2>1. 0 + Len(p) <= Len(q) /\ 0 \in Nat /\ \A i \in 1..Len(p) : p[i] = q[0 + i]
    <3>1. \A i \in 1..k : 0 + i = i
      BY <1>1
    <3> QED
      BY <1>1, <1>2, <3>1 DEF n
  <2> QED
    BY <1>2, <2>1, WindowRuns
<1>5. Runs(r)
  <2>1. k + Len(r) <= Len(q) /\ \A i \in 1..Len(r) : r[i] = q[k + i]
    BY <1>1, <1>3 DEF n
  <2> QED
    BY <1>1, <1>3, <2>1, WindowRuns
<1> QED
  BY <1>4, <1>5 DEF p, r, n

(* Sorting a chain of trips that take time by their start changes nothing.     *)
LEMMA ChainSorted ==
  ASSUME problem \in Problems, GivenDrivable, NEW q \in Seq(TripIds(problem)),
         Chain(problem, View, q)
  PROVE  ByTime(Range(q)) = q
<1> DEFINE n == Len(q)
           S == Range(q)
           st(t) == Trip(t).st
           before(a, b) == st(a) < st(b) \/ (st(a) = st(b) /\ a < b)
           rank(x) == Cardinality({y \in S : before(y, x)})
<1>1. /\ n \in Nat /\ DOMAIN q = 1..n /\ \A i \in 1..n : q[i] \in TripIds(problem)
      /\ q = [i \in 1..n |-> q[i]]
  OBVIOUS
<1>2. \A i \in 1..n : st(q[i]) \in Int
  BY <1>1, TimesTyped
<1>3. ASSUME NEW i \in 1..n, NEW j \in 1..n, i < j PROVE st(q[i]) < st(q[j])
  <2>1. Trip(q[i]).en <= Trip(q[j]).st
    BY <1>3, ChainClimbs
  <2>2. Trip(q[i]).st < Trip(q[i]).en /\ Trip(q[i]).en \in Int
    BY <1>1, TimesTyped DEF GivenDrivable
  <2> QED
    BY <1>2, <2>1, <2>2
<1>4. \A x \in S : \E i \in 1..n : x = q[i]
  BY <1>1 DEF Range
<1>5. \A i \in 1..n : q[i] \in S
  BY <1>1 DEF Range
<1>6. ASSUME NEW i \in 1..n, NEW j \in 1..n PROVE before(q[i], q[j]) <=> i < j
  <2> DEFINE a == st(q[i])
             b == st(q[j])
  <2>1. a \in Int /\ b \in Int /\ i \in Int /\ j \in Int /\ q[i] \in Int
    <3>1. q[i] \in TripIds(problem) /\ TripIds(problem) \subseteq Nat
      BY <1>1, TimesTyped
    <3>2. a \in Int /\ b \in Int
      BY <1>2
    <3> HIDE DEF n, a, b
    <3> QED
      BY <1>1, <3>1, <3>2
  <2>2. (i < j => a < b) /\ (j < i => b < a) /\ (i = j => q[i] = q[j] /\ a = b)
    BY <1>3
  <2>3. before(q[i], q[j]) <=> a < b \/ (a = b /\ q[i] < q[j])
    OBVIOUS
  <2> HIDE DEF a, b, before, n
  <2>4. i < j \/ j < i \/ i = j
    BY <2>1
  <2> QED
    BY <2>1, <2>2, <2>3, <2>4
<1>7. ListsOnce(q, S)
  <2>1. IsInjective(q)
    <3> SUFFICES ASSUME NEW i \in 1..n, NEW j \in 1..n, q[i] = q[j] PROVE i = j
      BY <1>1 DEF IsInjective
    <3>1. ~(i < j) /\ ~(j < i)
      <4>1. st(q[i]) = st(q[j])
        OBVIOUS
      <4> HIDE DEF st, n
      <4> QED
        BY <1>2, <1>3, <4>1
    <3>2. i \in Int /\ j \in Int
      BY <1>1
    <3> QED
      BY <3>1, <3>2
  <2> QED
    BY <2>1, TypedOnce
<1>8. Cardinality(S) = n
  BY <1>7, OnceCounted
<1> HIDE DEF before, n, S
<1>9. ASSUME NEW i \in 1..n PROVE rank(q[i]) = i - 1
  <2> DEFINE k == i - 1
             next == k + 1
             B == {q[l] : l \in 1..k}
  <2>1. k \in 0..Len(q) /\ k \in Nat
    BY <1>1 DEF n
  <2>2. {y \in S : before(y, q[i])} = B
    <3>1. ASSUME NEW y \in S, before(y, q[i]) PROVE y \in B
      <4>1. PICK l \in 1..n : y = q[l]
        BY <1>4
      <4>2. l < i
        BY <1>6, <3>1, <4>1
      <4>3. l \in 1..k
        BY <1>1, <4>2
      <4> QED
        BY <4>1, <4>3
    <3>2. ASSUME NEW l \in 1..k PROVE q[l] \in S /\ before(q[l], q[i])
      <4>1. l \in 1..n /\ l < i
        BY <1>1
      <4> QED
        BY <1>5, <1>6, <4>1
    <3> HIDE DEF k
    <3> QED
      BY <3>1, <3>2
  <2>3. ListsOnce(SubSeq(q, 1, k), B)
    <3>1. next = k + 1 /\ B = {q[l] : l \in 1..k}
      OBVIOUS
    <3> HIDE DEF k, B, next
    <3> QED
      BY <1>7, <2>1, <3>1, CutOnce
  <2>4. Len(SubSeq(q, 1, k)) = k
    <3>1. \A l \in 1..k : q[l] \in TripIds(problem)
      BY <1>1
    <3> HIDE DEF k
    <3> QED
      BY <2>1, <3>1
  <2> HIDE DEF B, k
  <2>5. Cardinality(B) = k
    BY <2>3, <2>4, OnceCounted
  <2> QED
    BY <2>2, <2>5 DEF k
<1>10. ByTime(S) = [i \in 1..Cardinality(S) |-> CHOOSE x \in S : rank(x) = i - 1]
  BY DEF ByTime, Sorted, before
<1> HIDE DEF rank
<1>11. \A i \in 1..n : (CHOOSE x \in S : rank(x) = i - 1) = q[i]
  <2> SUFFICES ASSUME NEW i \in 1..n PROVE (CHOOSE x \in S : rank(x) = i - 1) = q[i]
    OBVIOUS
  <2>1. \A x \in S : rank(x) = i - 1 <=> x = q[i]
    <3> SUFFICES ASSUME NEW x \in S PROVE rank(x) = i - 1 <=> x = q[i]
      OBVIOUS
    <3>1. PICK l \in 1..n : x = q[l]
      BY <1>4
    <3>2. rank(x) = l - 1 /\ rank(q[i]) = i - 1 /\ l \in Int /\ i \in Int
      BY <1>1, <1>9, <3>1
    <3>3. l - 1 = i - 1 => l = i
      BY <3>2
    <3> QED
      BY <3>1, <3>2, <3>3
  <2> QED
    BY <1>5, <2>1
<1>12. ByTime(S) = q
  BY <1>1, <1>8, <1>10, <1>11
<1> QED
  BY <1>12 DEF S

(* A block to whose end a suffix can be appended can still be driven, and      *)
(* sorting it does not disturb it.                                             *)
LEMMA AppendedRuns ==
  ASSUME problem \in Problems, NEW b \in Seq(TripIds(problem)), b # <<>>, Runs(b),
         NEW s \in Seq(TripIds(problem)), s # <<>>, Runs(s), CanAppend(b, s)
  PROVE  Runs(ByTime(Range(b \o s)))
<1> SUFFICES ASSUME GivenDrivable PROVE Feasible(ByTime(Range(b \o s)))
  BY DEF Runs
<1> DEFINE q == b \o s
           m == Len(b)
           n == Len(s)
<1>1. Feasible(b) /\ Feasible(s)
  BY DEF Runs
<1>2. m \in Nat \ {0} /\ n \in Nat \ {0} /\ DOMAIN b = 1..m /\ DOMAIN s = 1..n
  OBVIOUS
<1>3. /\ q \in Seq(TripIds(problem)) /\ Len(q) = m + n /\ DOMAIN q = 1..(m + n)
      /\ \A i \in 1..(m + n) : q[i] = IF i <= m THEN b[i] ELSE s[i - m]
  BY ConcatProperties
<1> HIDE DEF q, m, n
<1>4. \A i \in 1..m : q[i] = b[i]
  BY <1>2, <1>3
<1>5. \A i \in 1..n : q[m + i] = s[i] /\ m + i \in 1..(m + n)
  <2> SUFFICES ASSUME NEW i \in 1..n PROVE q[m + i] = s[i] /\ m + i \in 1..(m + n)
    OBVIOUS
  <2>1. m + i \in 1..(m + n) /\ ~(m + i <= m) /\ (m + i) - m = i
    BY <1>2
  <2> QED
    BY <1>3, <2>1
<1>6. Chain(problem, View, q)
  <2> SUFFICES ASSUME NEW i \in 1..(m + n - 1)
               PROVE  IsConnectionFeasible(problem, View, q[i], q[i + 1])
    <3>1. Len(q) - 1 = m + n - 1
      BY <1>2, <1>3
    <3> QED
      BY <3>1 DEF Chain
  <2>1. CASE i < m
    <3>1. i \in 1..m /\ i + 1 \in 1..m /\ i \in 1..(m - 1) /\ ~(m <= 1)
      BY <1>2, <2>1
    <3>2. IsConnectionFeasible(problem, View, b[i], b[i + 1])
      BY <1>1, <3>1 DEF Feasible, Chain, m
    <3> QED
      BY <1>4, <3>1, <3>2
  <2>2. CASE i = m
    <3>1. q[i] = Last(b) /\ q[i + 1] = s[1]
      <4>1. m \in 1..m /\ 1 \in 1..n
        BY <1>2
      <4> QED
        BY <1>4, <1>5, <2>2, <4>1 DEF Last, m
    <3> QED
      BY <3>1 DEF CanAppend
  <2>3. CASE i > m
    <3> DEFINE k == i - m
    <3>1. k \in 1..(n - 1) /\ k \in 1..n /\ k + 1 \in 1..n /\ i = m + k /\ i + 1 = m + (k + 1) /\ ~(n <= 1)
      BY <1>2, <2>3
    <3> HIDE DEF k
    <3>2. IsConnectionFeasible(problem, View, s[k], s[k + 1])
      BY <1>1, <3>1 DEF Feasible, Chain, n
    <3> QED
      BY <1>5, <3>1, <3>2
  <2>4. i \in Int /\ m \in Int
    BY <1>2
  <2> QED
    BY <2>1, <2>2, <2>3, <2>4
<1>7. OneLine(q)
  <2> SUFFICES ASSUME ~prm.multiLine PROVE Cardinality(Lines(q)) = 1
    BY DEF OneLine
  <2>1. Lines(b) = Lines(s) /\ Cardinality(Lines(b)) = 1
    BY <1>1, RunsOneLine DEF OneLine, CanAppend
  <2>2. Lines(q) = Lines(b)
    <3>1. ASSUME NEW i \in 1..(m + n) PROVE Trip(q[i]).line \in Lines(b)
      <4>1. CASE i <= m
        <5>1. i \in 1..m
          BY <1>2, <4>1
        <5> QED
          BY <1>2, <1>4, <5>1 DEF Lines
      <4>2. CASE ~(i <= m)
        <5>1. i - m \in 1..n /\ q[i] = s[i - m]
          BY <1>2, <1>3, <4>2
        <5>2. Trip(q[i]).line \in Lines(s)
          BY <1>2, <5>1 DEF Lines
        <5> QED
          BY <2>1, <5>2
      <4> QED
        BY <4>1, <4>2
    <3>2. ASSUME NEW i \in 1..m PROVE Trip(b[i]).line \in Lines(q)
      <4>1. i \in 1..(m + n)
        BY <1>2
      <4> QED
        BY <1>3, <1>4, <4>1 DEF Lines
    <3> QED
      BY <1>2, <1>3, <3>1, <3>2 DEF Lines
  <2> QED
    BY <2>1, <2>2
<1>8. SpanOk(q)
  <2>1. q[1] = b[1] /\ Last(q) = Last(s)
    <3>1. 1 \in 1..m /\ n \in 1..n
      BY <1>2
    <3> QED
      BY <1>3, <1>4, <1>5, <3>1 DEF Last, n
  <2> QED
    BY <2>1 DEF CanAppend, SpanOk, SpreadOf, Trip
<1>9. Feasible(q)
  BY <1>6, <1>7, <1>8 DEF Feasible, OneLine
<1>10. ByTime(Range(q)) = q
  BY <1>3, <1>6, ChainSorted
<1> QED
  BY <1>9, <1>10 DEF q

-------------------------------------------------------------------------------
(* Sorting and renumbering.                                                    *)

LEMMA SortedHolds ==
  ASSUME problem \in Problems, NEW s, NEW S, Holds(s, S), Filled(s), NEW tied \in BOOLEAN
  PROVE  LET u == ByStart(s, tied)
         IN  /\ Holds(u, S) /\ Filled(u)
             /\ NamedApart(s) => NamedApart(u)
             /\ \E at \in [1..Len(s) -> DOMAIN s] :
                  Range(at) = DOMAIN s /\ u = [k \in 1..Len(s) |-> s[at[k]]]
<1> DEFINE start(i) == Trip(s[i].trips[1]).st
           before(i, j) == \/ start(i) < start(j)
                           \/ start(i) = start(j) /\ tied /\ s[i].id < s[j].id
                           \/ start(i) = start(j) /\ (~tied \/ s[i].id = s[j].id) /\ i < j
           D == DOMAIN s
           order == Sorted(D, before)
           R == {p \in D \X D : before(p[1], p[2])}
           n == Cardinality(D)
           nth(i) == CHOOSE x \in D : Rank(R, D, x) = i - 1
           u == ByStart(s, tied)
<1>1. /\ Len(s) \in Nat /\ D = 1..Len(s) /\ IsFiniteSet(D) /\ n = Len(s)
      /\ \A i \in D : s[i] \in Block /\ s[i].id \in Nat /\ s[i].trips \in Seq(TripIds(problem))
  BY HeldList, ListDomain
<1>2. \A i \in D : start(i) \in Int
  BY <1>1, BlockEnds, TimesTyped DEF Filled
<1>3. Orders(R, D)
  <2> DEFINE id(i) == s[i].id
  <2>1. \A i \in D : start(i) \in Int /\ id(i) \in Int /\ i \in Int
    BY <1>1, <1>2
  <2>2. \A i, j : before(i, j) <=> (\/ start(i) < start(j)
                                   \/ (start(i) = start(j) /\ tied /\ id(i) < id(j))
                                   \/ (start(i) = start(j) /\ (~tied \/ id(i) = id(j)) /\ i < j))
    OBVIOUS
  <2> HIDE DEF start, id, before, D
  <2>3. \A i \in D : ~before(i, i)
    BY <2>1, <2>2
  <2>4. \A i, j \in D : i # j => before(i, j) \/ before(j, i)
    BY <2>1, <2>2
  <2>5. \A i, j, k \in D : before(i, j) /\ before(j, k) => before(i, k)
    BY <2>1, <2>2
  <2>6. \A i, j \in D : <<i, j>> \in R <=> before(i, j)
    OBVIOUS
  <2> HIDE DEF R
  <2> QED
    BY <2>3, <2>4, <2>5, <2>6 DEF Orders
<1>4. u = [k \in DOMAIN order |-> s[order[k]]]
  BY DEF ByStart
<1> HIDE DEF before
<1>5. order = [i \in 1..n |-> nth(i)]
  <2>1. \A x \in D : Rank(R, D, x) = Cardinality({y \in D : before(y, x)})
    <3>1. \A x \in D : {y \in D : <<y, x>> \in R} = {y \in D : before(y, x)}
      OBVIOUS
    <3> QED
      BY <3>1 DEF Rank
  <2> DEFINE direct(i) == CHOOSE x \in D : Cardinality({y \in D : before(y, x)}) = i - 1
  <2>2. \A i : direct(i) = nth(i)
    BY <2>1
  <2>3. order = [i \in 1..n |-> direct(i)]
    BY DEF Sorted
  <2> HIDE DEF direct, nth, order, n
  <2> QED
    BY <2>2, <2>3
<1> HIDE DEF order, R, D, n, nth, u, start
<1>6. order \in Seq(D) /\ Len(order) = n /\ Range(order) = D /\ IsInjective(order)
  <2>1. order = [i \in 1..Cardinality(D) |-> CHOOSE x \in D : Rank(R, D, x) = i - 1]
    BY <1>5 DEF n, nth
  <2>2. IsFiniteSet(D) /\ n = Cardinality(D)
    BY <1>1 DEF n
  <2>3. order \in Seq(D) /\ Len(order) = Cardinality(D) /\ Range(order) = D /\ IsInjective(order)
    BY ONLY <1>3, <2>1, <2>2, SortedLists
  <2> QED
    BY <2>2, <2>3
<1>7. order \in [1..n -> D] /\ DOMAIN order = 1..n
  BY <1>1, <1>6
<1>8. u = [k \in 1..n |-> s[order[k]]]
  BY <1>4, <1>7
<1>9. Rearranges(u, s, order)
  <2>1. u = [k \in 1..n |-> u[k]] /\ n \in Nat /\ order \in [1..n -> DOMAIN s]
    BY <1>1, <1>7, <1>8 DEF D
  <2>2. \A k \in DOMAIN order : u[k] \in Block /\ u[k].trips = s[order[k]].trips
    BY <1>1, <1>7, <1>8
  <2> QED
    BY <1>6, <2>1, <2>2 DEF Rearranges, D
<1>10. Holds(u, S) /\ Filled(u)
  BY <1>9, Rearranged
<1>11. ASSUME NamedApart(s) PROVE NamedApart(u)
  BY <1>6, <1>7, <1>8, <1>11 DEF NamedApart, IsInjective, D
<1> QED
  BY <1>1, <1>6, <1>7, <1>8, <1>10, <1>11 DEF u, D

LEMMA RenumberedHolds ==
  ASSUME problem \in Problems, NEW s, NEW S, Holds(s, S)
  PROVE  Holds(Renumber(s), S) /\ Filled(Renumber(s)) /\ NamedApart(Renumber(s))
<1>1. Holds(NoEmpty(s), S) /\ Filled(NoEmpty(s))
  BY NoEmptyHolds
<1>2. Holds(ByStart(NoEmpty(s), TRUE), S) /\ Filled(ByStart(NoEmpty(s), TRUE))
  BY <1>1, SortedHolds
<1> QED
  BY <1>2, NumberedHolds DEF Renumber

(* Removing a block without trips. *)
LEMMA RemovedHolds ==
  ASSUME NEW s, NEW S, Holds(s, S), NEW i \in DOMAIN s, s[i].trips = <<>>
  PROVE  /\ Holds(RemoveAt(s, i), S)
         /\ (\A k \in DOMAIN s \ {i} : s[k].trips # <<>>) => Filled(RemoveAt(s, i))
<1> DEFINE n == Len(s)
           u == RemoveAt(s, i)
           at == [k \in 1..(n - 1) |-> IF k < i THEN k ELSE k + 1]
<1>1. /\ s \in Seq(Block) /\ n \in Nat /\ DOMAIN s = 1..n /\ i \in 1..n
      /\ \A k \in 1..n : s[k] \in Block
  BY HeldList DEF Holds
<1>2. /\ u = [k \in 1..(n - 1) |-> u[k]]
      /\ \A k \in 1..(n - 1) : u[k] = s[at[k]]
  BY <1>1, RemovedAt
<1> HIDE DEF u, n
<1>3. /\ at \in [1..(n - 1) -> 1..n] /\ DOMAIN at = 1..(n - 1) /\ n - 1 \in Nat
      /\ IsInjective(at) /\ \A k \in 1..n : k \in Range(at) \/ k = i
  <2>1. at \in [1..(n - 1) -> 1..n] /\ DOMAIN at = 1..(n - 1) /\ n - 1 \in Nat
    BY <1>1
  <2>2. IsInjective(at)
    BY <1>1 DEF IsInjective
  <2>3. ASSUME NEW k \in 1..n, k # i PROVE k \in Range(at)
    <3> DEFINE l == IF k < i THEN k ELSE k - 1
    <3>1. l \in 1..(n - 1) /\ at[l] = k
      BY <1>1, <2>3
    <3> QED
      BY <2>1, <3>1 DEF Range
  <2> QED
    BY <2>1, <2>2, <2>3
<1> HIDE DEF at
<1>4. \A k \in DOMAIN at : u[k] \in Block /\ u[k].trips = s[at[k]].trips
  BY <1>1, <1>2, <1>3
<1>5. Rearranges(u, s, at)
  BY <1>1, <1>2, <1>3, <1>4 DEF Rearranges
<1>6. Holds(u, S)
  BY <1>5, Rearranged
<1>7. ASSUME \A k \in DOMAIN s \ {i} : s[k].trips # <<>> PROVE Filled(u)
  <2>1. \A k \in 1..(n - 1) : at[k] # i
    BY <1>1, <1>3 DEF at
  <2> QED
    BY <1>1, <1>2, <1>3, <1>7, <2>1 DEF Filled
<1> QED
  BY <1>6, <1>7 DEF u


-------------------------------------------------------------------------------
(* Joining and flattening.                                                     *)

(* The trips of a plan, one after the other, are its trips, each of them once. *)
LEMMA HeldOnce ==
  ASSUME NEW s, NEW S, Holds(s, S)
  PROVE  ListsOnce(TripsOf(s), S)
<1> DEFINE q == [i \in DOMAIN s |-> s[i].trips]
           f == [i \in DOMAIN s |-> Range(s[i].trips)]
<1>1. IsList(s) /\ DOMAIN q = DOMAIN s /\ q = [i \in DOMAIN q |-> q[i]]
  BY HeldList
<1>2. \A i \in DOMAIN q : q[i] = s[i].trips /\ f[i] = Range(s[i].trips)
  OBVIOUS
<1>3. S = UNION {f[i] : i \in DOMAIN q}
  <2>1. {f[i] : i \in DOMAIN q} = {Range(s[i].trips) : i \in DOMAIN s}
    OBVIOUS
  <2> QED
    BY <2>1 DEF Holds, Driven
<1>4. TripsOf(s) = FlattenSeq(q)
  BY DEF TripsOf
<1> HIDE DEF q, f
<1>5. IsList(q)
  BY <1>1, ChangedPlaces
<1>6. \A i \in DOMAIN q : ListsOnce(q[i], f[i])
  <2>1. SUFFICES ASSUME NEW i \in DOMAIN q PROVE ListsOnce(s[i].trips, Range(s[i].trips))
    BY <1>2
  <2>2. s[i].trips \in Seq(TripIds(problem)) /\ IsInjective(s[i].trips)
    BY <1>1, HeldList DEF Holds
  <2> DEFINE t == s[i].trips
  <2>3. Len(t) \in Nat /\ t = [k \in 1..Len(t) |-> t[k]]
    BY <2>2
  <2> HIDE DEF t
  <2>4. IsList(t)
    BY <2>3, MadeList
  <2> QED
    BY <2>2, <2>4 DEF ListsOnce, t
<1>7. \A i, j \in DOMAIN q : i # j => f[i] \cap f[j] = {}
  BY <1>1, <1>2 DEF Holds
<1> QED
  BY <1>3, <1>4, <1>5, <1>6, <1>7, FlatOnce

(* Two plans that hold the same trips agree in what is compared. *)
LEMMA HeldAlike ==
  ASSUME NEW s, NEW S, Holds(s, S), Holds(plan.blocks, S)
  PROVE  SameTrips(s)
<1>1. ListsOnce(TripsOf(s), S) /\ ListsOnce(TripsOf(plan.blocks), S)
  BY HeldOnce
<1> QED
  BY <1>1, OnceCounted DEF SameTrips, ListsOnce

LEMMA JoinedHolds ==
  ASSUME NEW A, NEW B, A \cap B = {}, NEW s, Holds(s, A), NEW t, Holds(t, B)
  PROVE  Holds(s \o t, A \cup B)
<1> DEFINE u == s \o t
           m == Len(s)
           n == Len(t)
<1>1. /\ s \in Seq(Block) /\ t \in Seq(Block) /\ m \in Nat /\ n \in Nat
      /\ DOMAIN s = 1..m /\ DOMAIN t = 1..n
  BY DEF Holds
<1>2. /\ u \in Seq(Block) /\ Len(u) = m + n
      /\ \A i \in 1..(m + n) : u[i] = IF i <= m THEN s[i] ELSE t[i - m]
  BY <1>1, ConcatProperties
<1>3. DOMAIN u = 1..(m + n)
  BY <1>2
<1> HIDE DEF u, m, n
<1>4. \A i \in DOMAIN u : \/ (i \in DOMAIN s /\ u[i] = s[i])
                         \/ (i \notin DOMAIN s /\ i - m \in DOMAIN t /\ u[i] = t[i - m])
  BY <1>1, <1>2, <1>3
<1>5. /\ \A i \in DOMAIN s : i \in DOMAIN u /\ u[i] = s[i]
      /\ \A i \in DOMAIN t : m + i \in DOMAIN u /\ u[m + i] = t[i]
  BY <1>1, <1>2, <1>3
<1>6. /\ \A i \in DOMAIN s : Range(s[i].trips) \subseteq A /\ IsInjective(s[i].trips)
      /\ \A i \in DOMAIN t : Range(t[i].trips) \subseteq B /\ IsInjective(t[i].trips)
  BY DEF Holds, Driven
<1>7. \A i \in DOMAIN u : IsInjective(u[i].trips)
  BY <1>4, <1>6
<1>8. ASSUME NEW i \in DOMAIN u, NEW j \in DOMAIN u, i # j
      PROVE  Range(u[i].trips) \cap Range(u[j].trips) = {}
  <2>1. CASE i \in DOMAIN s /\ j \in DOMAIN s
    BY <1>4, <1>8, <2>1 DEF Holds
  <2>2. CASE i \in DOMAIN s /\ j \notin DOMAIN s
    BY <1>4, <1>6, <2>2
  <2>3. CASE i \notin DOMAIN s /\ j \in DOMAIN s
    BY <1>4, <1>6, <2>3
  <2>4. CASE i \notin DOMAIN s /\ j \notin DOMAIN s
    <3>1. i - m \in DOMAIN t /\ j - m \in DOMAIN t /\ u[i] = t[i - m] /\ u[j] = t[j - m]
      BY <1>4, <2>4
    <3>2. i - m # j - m
      BY <1>1, <1>3, <1>8
    <3> QED
      BY <3>1, <3>2 DEF Holds
  <2> QED
    BY <2>1, <2>2, <2>3, <2>4
<1>9. Driven(u) = A \cup B
  <2>1. ASSUME NEW x \in Driven(u) PROVE x \in A \cup B
    <3>1. PICK i \in DOMAIN u : x \in Range(u[i].trips)
      BY <2>1 DEF Driven
    <3> QED
      BY <1>4, <1>6, <3>1
  <2>2. ASSUME NEW x \in A PROVE x \in Driven(u)
    <3>1. PICK i \in DOMAIN s : x \in Range(s[i].trips)
      BY <2>2 DEF Holds, Driven
    <3> QED
      BY <1>5, <3>1 DEF Driven
  <2>3. ASSUME NEW x \in B PROVE x \in Driven(u)
    <3>1. PICK i \in DOMAIN t : x \in Range(t[i].trips)
      BY <2>3 DEF Holds, Driven
    <3>2. m + i \in DOMAIN u /\ u[m + i] = t[i]
      BY <1>5
    <3>3. x \in Range(u[m + i].trips)
      BY <3>1, <3>2
    <3> QED
      BY <3>2, <3>3 DEF Driven
  <2> QED
    BY <2>1, <2>2, <2>3
<1>10. u \in Seq(Block)
  BY <1>2
<1> QED
  BY <1>7, <1>8, <1>9, <1>10 DEF Holds, u

(* Plans of disjoint trips, put one after the other. *)
LEMMA FlatHolds ==
  ASSUME NEW s, IsList(s), NEW f, \A i \in DOMAIN s : Holds(s[i], f[i]),
         \A i, j \in DOMAIN s : i # j => f[i] \cap f[j] = {}
  PROVE  Holds(FlattenSeq(s), UNION {f[i] : i \in DOMAIN s})
<1> DEFINE n == Len(s)
           Upto(k) == UNION {f[i] : i \in 1..k}
           R == UNION {f[i] : i \in DOMAIN s}
<1>1. n \in Nat /\ DOMAIN s = 1..n
  BY ListDomain
<1>2. CASE s = <<>>
  <2>1. FlattenSeq(s) = <<>> /\ R = {}
    BY <1>2 DEF FlattenSeq
  <2>2. Holds(<<>>, {})
    BY DEF Holds, Driven
  <2> HIDE DEF R
  <2> QED
    BY <2>1, <2>2 DEF R
<1>3. CASE s # <<>>
  <2>1. \A i \in DOMAIN s : s[i] \in Seq(Block)
    BY DEF Holds
  <2> HIDE DEF R
  <2>2. PICK g : /\ FlattenSeq(s) = g[n] /\ g[1] = s[1]
                 /\ \A k \in 1..(n - 1) : g[k + 1] = g[k] \o s[k + 1]
    BY <1>3, <2>1, FlatSteps
  <2>3. n # 0
    BY <1>3 DEF IsList
  <2> HIDE DEF n
  <2> DEFINE Good == {k \in Nat : k \in 1..n => Holds(g[k], Upto(k))}
  <2>4. ASSUME NEW k \in Nat, k \in Good PROVE k + 1 \in Good
    <3>1. SUFFICES ASSUME k + 1 \in 1..n PROVE Holds(g[k + 1], Upto(k + 1))
      <4>1. k + 1 \in Nat
        OBVIOUS
      <4> HIDE DEF Upto
      <4> QED
        BY <4>1
    <3>2. Holds(s[k + 1], f[k + 1])
      BY <1>1, <3>1
    <3>3. CASE k = 0
      <4>1. Upto(k + 1) = f[k + 1]
        <5>1. 1..(k + 1) = {k + 1}
          BY <3>3
        <5> QED
          BY <5>1
      <4>2. g[k + 1] = s[k + 1]
        BY <2>2, <3>3
      <4> HIDE DEF Upto
      <4> QED
        BY <3>2, <4>1, <4>2
    <3>4. CASE k # 0
      <4> DEFINE joined == g[k] \o s[k + 1]
      <4>1. k \in 1..n /\ k \in 1..(n - 1)
        BY <1>1, <3>1, <3>4
      <4>2. Holds(g[k], Upto(k))
        BY <2>4, <4>1
      <4>3. Upto(k) \cap f[k + 1] = {}
        <5>1. ASSUME NEW i \in 1..k PROVE f[i] \cap f[k + 1] = {}
          <6>1. i \in DOMAIN s /\ k + 1 \in DOMAIN s /\ i # k + 1
            BY <1>1, <3>1
          <6> QED
            BY <6>1
        <5> QED
          BY <5>1
      <4>4. Upto(k + 1) = Upto(k) \cup f[k + 1]
        <5>1. 1..(k + 1) = (1..k) \cup {k + 1}
          OBVIOUS
        <5> QED
          BY <5>1
      <4> HIDE DEF Upto
      <4>5. Holds(joined, Upto(k + 1))
        BY <3>2, <4>2, <4>3, <4>4, JoinedHolds
      <4>6. g[k + 1] = joined
        BY <2>2, <4>1, Zenon
      <4> HIDE DEF joined
      <4> QED
        BY <4>5, <4>6
    <3> QED
      BY <3>3, <3>4
  <2>5. n \in Good
    <3>1. 0 \in Good
      OBVIOUS
    <3> HIDE DEF Good
    <3> QED
      BY <1>1, <2>4, <3>1, NumberInduction
  <2>6. Holds(g[n], Upto(n)) /\ Upto(n) = R
    BY <1>1, <2>3, <2>5 DEF R
  <2> HIDE DEF Upto
  <2> QED
    BY <2>2, <2>6 DEF R
<1> QED
  BY <1>2, <1>3

(* Short plans. *)
LEMMA OneHolds ==
  ASSUME NEW b \in Block, IsInjective(b.trips)
  PROVE  Holds(<<b>>, Range(b.trips))
<1> DEFINE s == <<b>>
<1>1. s \in Seq(Block) /\ DOMAIN s = {1} /\ s[1] = b
  OBVIOUS
<1> HIDE DEF s
<1>2. Holds(s, Range(b.trips))
  BY <1>1 DEF Holds, Driven
<1> QED
  BY <1>2 DEF s

LEMMA TwoHold ==
  ASSUME NEW b \in Block, IsInjective(b.trips), NEW c \in Block, IsInjective(c.trips),
         Range(b.trips) \cap Range(c.trips) = {}
  PROVE  Holds(<<b, c>>, Range(b.trips) \cup Range(c.trips))
<1> DEFINE s == <<b, c>>
<1>1. s \in Seq(Block) /\ DOMAIN s = {1, 2} /\ s[1] = b /\ s[2] = c
  OBVIOUS
<1> HIDE DEF s
<1>2. Driven(s) = Range(b.trips) \cup Range(c.trips)
  BY <1>1 DEF Driven
<1>3. /\ \A i \in DOMAIN s : IsInjective(s[i].trips)
      /\ \A i, j \in DOMAIN s : i # j => Range(s[i].trips) \cap Range(s[j].trips) = {}
  BY <1>1
<1>4. Holds(s, Range(b.trips) \cup Range(c.trips))
  BY <1>1, <1>2, <1>3 DEF Holds
<1> QED
  BY <1>4 DEF s

-------------------------------------------------------------------------------
(* Moving trips between blocks.                                                *)

(* The trips of two blocks are dealt out anew. *)
LEMMA MovedHolds ==
  ASSUME NEW s, NEW S, Holds(s, S), NEW r \in DOMAIN s, NEW d \in DOMAIN s, r # d,
         NEW p, NEW q, NEW A, NEW B, ListsOnce(p, A), ListsOnce(q, B), A \cap B = {},
         Runs(p), Runs(q),
         A \cup B = Range(s[r].trips) \cup Range(s[d].trips),
         NEW u, DOMAIN u = DOMAIN s, u = [i \in DOMAIN u |-> u[i]],
         u[r] = [s[r] EXCEPT !.trips = p], u[d] = [s[d] EXCEPT !.trips = q],
         \A i \in DOMAIN s \ {r, d} : u[i] = s[i]
  PROVE  Holds(u, S)
<1>1. /\ IsList(s) /\ Len(s) \in Nat /\ DOMAIN s = 1..Len(s)
      /\ \A i \in DOMAIN s : s[i] \in Block /\ s[i].trips \in Seq(TripIds(problem))
  BY HeldList
<1>2. Range(s[r].trips) \cup Range(s[d].trips) \subseteq TripIds(problem)
  <2>1. \A x \in Seq(TripIds(problem)) : Range(x) \subseteq TripIds(problem)
    BY DEF Range
  <2> QED
    BY <1>1, <2>1
<1>3. p \in Seq(TripIds(problem)) /\ q \in Seq(TripIds(problem))
  <2>1. Range(p) \subseteq TripIds(problem) /\ Range(q) \subseteq TripIds(problem)
    BY <1>2 DEF ListsOnce
  <2> QED
    BY <2>1, ListTyped DEF ListsOnce
<1>4. u[r] \in Block /\ u[r].trips = p /\ u[d] \in Block /\ u[d].trips = q
  BY <1>1, <1>3 DEF Block
<1>5. u \in Seq(Block)
  <2>1. \A i \in 1..Len(s) : u[i] \in Block
    BY <1>1, <1>4
  <2>2. u \in [1..Len(s) -> Block]
    BY <1>1, <2>1
  <2> QED
    BY <1>1, <2>2
<1>6. /\ IsInjective(u[r].trips) /\ IsInjective(u[d].trips)
      /\ Range(u[r].trips) = A /\ Range(u[d].trips) = B
  BY <1>4 DEF ListsOnce
<1>7. \A i \in DOMAIN s \ {r, d} : u[i].trips = s[i].trips
  OBVIOUS
<1> QED
  BY <1>5, <1>6, <1>7, Exchanged

(* The trips of a held block. *)
LEMMA HeldBlock ==
  ASSUME NEW s, NEW S, Holds(s, S), NEW i \in DOMAIN s
  PROVE  ListsOnce(s[i].trips, Range(s[i].trips))
<1>1. s[i].trips \in Seq(TripIds(problem)) /\ IsInjective(s[i].trips)
  BY HeldList DEF Holds
<1> QED
  BY <1>1, TypedOnce

LEMMA SwappedHolds ==
  ASSUME problem \in Problems, NEW s, NEW S, Holds(s, S), NEW c, c[1] \in DOMAIN s, c[2] \in DOMAIN s, c[1] # c[2]
  PROVE  Holds(Swapped(s, c), S) /\ DOMAIN Swapped(s, c) = DOMAIN s
<1> DEFINE r == c[1]
           d == c[2]
           b1 == s[r].trips
           b2 == s[d].trips
           u == [s EXCEPT ![r].trips = Append(@, b2[1]), ![d].trips = Tail(@)]
<1>1. CASE Swapped(s, c) = s
  BY <1>1
<1>2. CASE Swapped(s, c) # s
  <2>1. b2 # <<>> /\ Swapped(s, c) = u /\ Feasible(Append(b1, b2[1]))
    BY <1>2 DEF Swapped
  <2> DEFINE A == Range(b1)
             B == Range(b2)
             x == b2[1]
  <2>2. ListsOnce(b1, A) /\ ListsOnce(b2, B) /\ A \cap B = {}
    BY HeldBlock DEF Holds
  <2>3. u[r] = [s[r] EXCEPT !.trips = Append(b1, x)] /\ u[d] = [s[d] EXCEPT !.trips = Tail(b2)]
    OBVIOUS
  <2>4. /\ DOMAIN u = DOMAIN s /\ u = [i \in DOMAIN u |-> u[i]]
        /\ \A i \in DOMAIN s \ {r, d} : u[i] = s[i]
    OBVIOUS
  <2> DEFINE p == Append(b1, x)
             q == Tail(b2)
  <2> HIDE DEF b1, b2, u, A, B
  <2>5. x \in B /\ ListsOnce(q, B \ {x})
    BY <2>1, <2>2, HeadOff
  <2>6. ListsOnce(p, A \cup {x})
    BY <2>2, <2>5, AppendedOnce
  <2>7. /\ (A \cup {x}) \cap (B \ {x}) = {}
        /\ (A \cup {x}) \cup (B \ {x}) = Range(s[r].trips) \cup Range(s[d].trips)
    BY <2>2, <2>5 DEF A, B, b1, b2
  <2>8. u[r] = [s[r] EXCEPT !.trips = p] /\ u[d] = [s[d] EXCEPT !.trips = q]
    BY <2>3
  <2>9. r \in DOMAIN s /\ d \in DOMAIN s /\ r # d
    OBVIOUS
  <2>10. Runs(p) /\ Runs(q)
    <3>1. b2 \in Seq(TripIds(problem)) /\ Runs(b2)
      BY <2>9, HeldList DEF b2, Block
    <3> QED
      BY <2>1, <3>1, TailRuns DEF Runs
  <2> HIDE DEF p, q, x, r, d
  <2>11. Holds(u, S)
    BY <2>4, <2>5, <2>6, <2>7, <2>8, <2>9, <2>10, MovedHolds
  <2> QED
    BY <2>1, <2>4, <2>11
<1> QED
  BY <1>1, <1>2

(* A pass over pairs of blocks. *)
LEMMA PassHolds ==
  ASSUME problem \in Problems, NEW w, NEW S, Holds(w, S), NEW ps, IsList(ps),
         \A k \in DOMAIN ps : ps[k][1] \in DOMAIN w /\ ps[k][2] \in DOMAIN w /\ ps[k][1] # ps[k][2]
  PROVE  Holds(FoldLeft(Swapped, w, ps), S)
<1> DEFINE D == DOMAIN ps
           V == {v \in Seq(Block) : Holds(v, S) /\ DOMAIN v = DOMAIN w}
           After(v, k) == Swapped(v, ps[k])
           Once(g) == [s \in SUBSET D |-> IF s = {} THEN w ELSE After(g[Lower(s)], Max(s))]
           pick == [s \in SUBSET D |-> Max(s)]
           step == [x \in D \X V |-> After(x[2], x[1])]
           f == CHOOSE u : u = Once(u)
<1>1. IsFiniteSet(D) /\ D \subseteq Int
  <2>1. IsFiniteSet(D) /\ D = 1..Len(ps) /\ Len(ps) \in Nat
    BY ListDomain
  <2> QED
    BY <2>1
<1>2. w \in V
  BY DEF Holds
<1>3. \A v \in V, k \in D : After(v, k) \in V
  <2> SUFFICES ASSUME NEW v \in V, NEW k \in D PROVE After(v, k) \in V
    OBVIOUS
  <2>1. Holds(Swapped(v, ps[k]), S) /\ DOMAIN Swapped(v, ps[k]) = DOMAIN v
    BY SwappedHolds
  <2>2. Swapped(v, ps[k]) \in Seq(Block)
    BY <2>1 DEF Holds
  <2> QED
    BY <2>1, <2>2
<1>4. FoldLeft(Swapped, w, ps) = f[D]
  BY DEF FoldLeft, MapThenFoldSet, Lower
<1>5. \A v \in V : Holds(v, S)
  OBVIOUS
<1> HIDE DEF V, After, D
<1>6. \A s \in SUBSET D : s # {} => Max(s) \in s /\ Lower(s) = s \ {Max(s)} /\ Lower(s) \in SUBSET D
  <2>1. \A s \in SUBSET D : s # {} => Max(s) \in s
    BY <1>1, HighestIs, FS_Subset
  <2> QED
    BY <2>1 DEF Lower
<1>7. PICK g \in [SUBSET D -> V] : FoldsTo(g, D, w, pick, step)
  <2>1. \A s \in SUBSET D : s # {} => pick[s] \in s
    BY <1>6
  <2>2. step \in [D \X V -> V]
    BY <1>3
  <2> HIDE DEF pick, step
  <2> QED
    BY <1>1, <1>2, <2>1, <2>2, FoldExists
<1>8. g = Once(g)
  <2>1. ASSUME NEW s \in SUBSET D PROVE g[s] = Once(g)[s]
    <3>1. CASE s = {}
      BY <1>7, <3>1 DEF FoldsTo
    <3>2. CASE s # {}
      <4>1. g[s] = step[<<pick[s], g[s \ {pick[s]}]>>] /\ pick[s] = Max(s)
        BY <1>7, <3>2 DEF FoldsTo
      <4>2. Max(s) \in D /\ g[Lower(s)] \in V /\ Lower(s) = s \ {Max(s)}
        BY <1>6, <1>7, <3>2
      <4>3. step[<<Max(s), g[Lower(s)]>>] = After(g[Lower(s)], Max(s))
        BY <4>2
      <4> HIDE DEF step, pick
      <4> QED
        BY <3>2, <4>1, <4>2, <4>3
    <3> QED
      BY <3>1, <3>2
  <2>2. g = [s \in SUBSET D |-> g[s]] /\ Once(g) = [s \in SUBSET D |-> Once(g)[s]]
    BY <1>7
  <2> HIDE DEF Once
  <2> QED
    BY <2>1, <2>2
<1>9. f = Once(f)
  BY <1>8
<1> HIDE DEF f
<1> DEFINE Fine == {s \in SUBSET D : f[s] \in V}
<1>10. {} \in Fine
  BY <1>2, <1>9
<1>11. ASSUME NEW T \in SUBSET D, T # {}, \A x \in T : T \ {x} \in Fine PROVE T \in Fine
  <2>1. Max(T) \in D /\ f[Lower(T)] \in V
    BY <1>6, <1>11
  <2>2. f[T] = After(f[Lower(T)], Max(T))
    BY <1>9, <1>11
  <2> QED
    BY <1>3, <2>1, <2>2
<1>12. D \in Fine
  <2> HIDE DEF Fine
  <2>1. \A T \in SUBSET D : T \in Fine
    BY <1>1, <1>10, <1>11, SubsetInduction
  <2> QED
    BY <2>1
<1> QED
  BY <1>4, <1>5, <1>12

(* The pairs of a pass. *)
LEMMA PairsListed ==
  ASSUME NEW n \in Nat
  PROVE  /\ IsList(PairsOf(n))
         /\ \A k \in DOMAIN PairsOf(n) :
              PairsOf(n)[k][1] \in 1..n /\ PairsOf(n)[k][2] \in 1..n /\ PairsOf(n)[k][1] # PairsOf(n)[k][2]
<1> DEFINE P == {p \in (1..n) \X (1..n) : p[1] < p[2]}
           before(p, q) == p[1] < q[1] \/ (p[1] = q[1] /\ p[2] < q[2])
           R == {x \in P \X P : before(x[1], x[2])}
           s == PairsOf(n)
           m == Cardinality(P)
           nth(i) == CHOOSE x \in P : Rank(R, P, x) = i - 1
<1>1. IsFiniteSet(P)
  <2>1. IsFiniteSet(1..n)
    BY FS_Interval
  <2>2. IsFiniteSet((1..n) \X (1..n))
    BY <2>1, FS_Product
  <2> QED
    BY <2>2, FS_Subset
<1>2. \A p \in P : p[1] \in 1..n /\ p[2] \in 1..n /\ p[1] # p[2] /\ p = <<p[1], p[2]>>
  OBVIOUS
<1>3. Orders(R, P)
  <2>1. \A p, q \in P : <<p, q>> \in R <=> before(p, q)
    OBVIOUS
  <2> HIDE DEF P, R
  <2>2. \A p \in P : p[1] \in Int /\ p[2] \in Int
    BY <1>2
  <2>3. \A p \in P : ~before(p, p)
    BY <2>2
  <2>4. \A p, q \in P : p # q => before(p, q) \/ before(q, p)
    <3> SUFFICES ASSUME NEW p \in P, NEW q \in P, ~before(p, q), ~before(q, p) PROVE p = q
      OBVIOUS
    <3>1. p[1] = q[1] /\ p[2] = q[2]
      BY <2>2
    <3> QED
      BY <1>2, <3>1
  <2>5. \A p, q, r \in P : before(p, q) /\ before(q, r) => before(p, r)
    BY <2>2
  <2> HIDE DEF before
  <2> QED
    BY <2>1, <2>3, <2>4, <2>5 DEF Orders
<1>4. s = [i \in 1..m |-> nth(i)]
  <2>1. \A x \in P : Rank(R, P, x) = Cardinality({y \in P : before(y, x)})
    <3>1. \A x \in P : {y \in P : <<y, x>> \in R} = {y \in P : before(y, x)}
      OBVIOUS
    <3> QED
      BY <3>1 DEF Rank
  <2> DEFINE direct(i) == CHOOSE x \in P : Cardinality({y \in P : before(y, x)}) = i - 1
  <2>2. \A i : direct(i) = nth(i)
    BY <2>1
  <2>3. s = [i \in 1..m |-> direct(i)]
    BY DEF PairsOf, Sorted
  <2> HIDE DEF direct, nth, s, m
  <2> QED
    BY <2>2, <2>3
<1> HIDE DEF s, R, P
<1>5. s \in Seq(P)
  <2>1. s = [i \in 1..Cardinality(P) |-> CHOOSE x \in P : Rank(R, P, x) = i - 1]
    BY <1>4
  <2> QED
    BY ONLY <1>1, <1>3, <2>1, SortedLists
<1>6. IsList(s) /\ \A k \in DOMAIN s : s[k] \in P
  <2>1. Len(s) \in Nat /\ s = [k \in 1..Len(s) |-> s[k]] /\ \A k \in DOMAIN s : s[k] \in P
    BY <1>5
  <2> QED
    BY <2>1, MadeList
<1> QED
  BY <1>2, <1>6 DEF s

-------------------------------------------------------------------------------
(* Lists in the order of time, and candidates in the order of their keys.      *)

LEMMA ByTimeOnce ==
  ASSUME problem \in Problems, NEW S, S \subseteq TripIds(problem)
  PROVE  ListsOnce(ByTime(S), S)
<1> DEFINE before(a, b) == Trip(a).st < Trip(b).st \/ (Trip(a).st = Trip(b).st /\ a < b)
           R == {x \in S \X S : before(x[1], x[2])}
           s == ByTime(S)
           m == Cardinality(S)
           nth(i) == CHOOSE x \in S : Rank(R, S, x) = i - 1
<1>1. IsFiniteSet(S) /\ S \subseteq Nat /\ \A t \in S : Trip(t).st \in Int
  BY TimesTyped, FS_Subset
<1>2. Orders(R, S)
  <2> DEFINE st(a) == Trip(a).st
  <2>1. \A p, q \in S : <<p, q>> \in R <=> before(p, q)
    OBVIOUS
  <2>2. \A p, q : before(p, q) <=> (st(p) < st(q) \/ (st(p) = st(q) /\ p < q))
    OBVIOUS
  <2>3. \A p \in S : st(p) \in Int /\ p \in Int
    BY <1>1
  <2> HIDE DEF R, before, st
  <2>4. \A p \in S : ~before(p, p)
    BY <2>2, <2>3
  <2>5. \A p, q \in S : p # q => before(p, q) \/ before(q, p)
    BY <2>2, <2>3
  <2>6. \A p, q, r \in S : before(p, q) /\ before(q, r) => before(p, r)
    BY <2>2, <2>3
  <2> QED
    BY <2>1, <2>4, <2>5, <2>6 DEF Orders
<1>3. s = [i \in 1..m |-> nth(i)]
  <2>1. \A x \in S : Rank(R, S, x) = Cardinality({y \in S : before(y, x)})
    <3>1. \A x \in S : {y \in S : <<y, x>> \in R} = {y \in S : before(y, x)}
      OBVIOUS
    <3> QED
      BY <3>1 DEF Rank
  <2> DEFINE direct(i) == CHOOSE x \in S : Cardinality({y \in S : before(y, x)}) = i - 1
  <2>2. \A i : direct(i) = nth(i)
    BY <2>1
  <2>3. s = [i \in 1..m |-> direct(i)]
    BY DEF ByTime, Sorted
  <2> HIDE DEF direct, nth, s, m
  <2> QED
    BY <2>2, <2>3
<1> HIDE DEF s, R
<1>4. s \in Seq(S) /\ Range(s) = S /\ IsInjective(s)
  <2>1. s = [i \in 1..Cardinality(S) |-> CHOOSE x \in S : Rank(R, S, x) = i - 1]
    BY <1>3
  <2> QED
    BY ONLY <1>1, <1>2, <2>1, SortedLists
<1> QED
  BY <1>4, TypedOnce DEF s

(* Keys of n numbers that tell the members of S apart. *)
Keyed(S, n) ==
    /\ IsFiniteSet(S)
    /\ \A c \in S : c.key \in [1..n -> Int]
    /\ \A c, d \in S : c.key = d.key => c = d

LEMMA KeysOrder ==
  ASSUME NEW n \in Nat, NEW S, Keyed(S, n)
  PROVE  Orders({x \in S \X S : LessKey(x[1], x[2])}, S)
<1> DEFINE R == {x \in S \X S : LessKey(x[1], x[2])}
           At(p, q, i) == p.key[i] < q.key[i] /\ \A j \in 1..(i - 1) : p.key[j] = q.key[j]
<1>1. \A p, q \in S : <<p, q>> \in R <=> LessKey(p, q)
  OBVIOUS
<1>2. \A p \in S : p.key \in [1..n -> Int]
  BY DEF Keyed
<1>3. \A p, q \in S : LessKey(p, q) <=> \E i \in 1..n : At(p, q, i)
  BY <1>2 DEF LessKey
<1>4. \A p \in S : ~LessKey(p, p)
  BY <1>2, <1>3
<1>5. ASSUME NEW p \in S, NEW q \in S, p # q PROVE LessKey(p, q) \/ LessKey(q, p)
  <2> DEFINE Apart == {i \in 1..n : p.key[i] # q.key[i]}
  <2>1. Apart # {}
    <3>1. p.key # q.key
      BY <1>5 DEF Keyed
    <3>2. p.key \in [1..n -> Int] /\ q.key \in [1..n -> Int]
      BY <1>2
    <3>3. ASSUME Apart = {} PROVE p.key = q.key
      <4>1. \A i \in 1..n : p.key[i] = q.key[i]
        BY <3>3
      <4> QED
        BY <3>2, <4>1
    <3> QED
      BY <3>1, <3>3
  <2>2. PICK i \in Apart : \A j \in Apart : i <= j
    <3>1. Apart \subseteq Nat
      OBVIOUS
    <3> HIDE DEF Apart
    <3> QED
      BY <2>1, <3>1, LowestIs
  <2>3. \A j \in 1..(i - 1) : p.key[j] = q.key[j]
    <3> SUFFICES ASSUME NEW j \in 1..(i - 1) PROVE p.key[j] = q.key[j]
      OBVIOUS
    <3>1. j \in 1..n /\ ~(i <= j)
      OBVIOUS
    <3> QED
      BY <2>2, <3>1
  <2>4. p.key[i] < q.key[i] \/ q.key[i] < p.key[i]
    BY <1>2
  <2>5. At(p, q, i) \/ At(q, p, i)
    BY <2>3, <2>4
  <2> HIDE DEF At, Apart
  <2>6. i \in 1..n
    BY DEF Apart
  <2> QED
    BY <1>3, <2>5, <2>6
<1>6. ASSUME NEW p \in S, NEW q \in S, NEW r \in S, LessKey(p, q), LessKey(q, r)
      PROVE  LessKey(p, r)
  <2>1. PICK i \in 1..n : At(p, q, i)
    BY <1>3, <1>6
  <2>2. PICK k \in 1..n : At(q, r, k)
    BY <1>3, <1>6
  <2>3. \A l \in 1..n : p.key[l] \in Int /\ q.key[l] \in Int /\ r.key[l] \in Int
    BY <1>2
  <2>4. CASE i < k
    <3>1. i \in 1..(k - 1) /\ \A j \in 1..(i - 1) : j \in 1..(k - 1)
      BY <2>4
    <3>2. At(p, r, i)
      BY <2>1, <2>2, <3>1
    <3> QED
      BY <1>3, <3>2
  <2>5. CASE k < i
    <3>1. k \in 1..(i - 1) /\ \A j \in 1..(k - 1) : j \in 1..(i - 1)
      BY <2>5
    <3>2. At(p, r, k)
      BY <2>1, <2>2, <3>1
    <3> QED
      BY <1>3, <3>2
  <2>6. CASE i = k
    <3>1. At(p, r, i)
      BY <2>1, <2>2, <2>3, <2>6
    <3> QED
      BY <1>3, <3>1
  <2>7. i \in Int /\ k \in Int
    OBVIOUS
  <2> QED
    BY <2>4, <2>5, <2>6, <2>7
<1> HIDE DEF R
<1>7. Orders(R, S)
  BY <1>1, <1>4, <1>5, <1>6 DEF Orders
<1> QED
  BY <1>7 DEF R

(* The first of them are members of S. *)
LEMMA FirstListed ==
  ASSUME NEW n \in Nat, NEW S, Keyed(S, n), NEW phase
  PROVE  /\ IsList(FirstOf(S, phase))
         /\ \A x \in Range(FirstOf(S, phase)) : \E c \in S : x = Candidate(phase, c.blocks)
<1> DEFINE before(p, q) == LessKey(p, q)
           R == {x \in S \X S : before(x[1], x[2])}
           order == Sorted(S, before)
           m == Cardinality(S)
           nth(i) == CHOOSE x \in S : Rank(R, S, x) = i - 1
           s == FirstOf(S, phase)
<1>1. IsFiniteSet(S) /\ Orders(R, S)
  BY KeysOrder DEF Keyed
<1>2. s = [i \in 1..Min2(TailLimit, Len(order)) |-> Candidate(phase, order[i].blocks)]
  BY DEF FirstOf
<1>3. order = [i \in 1..m |-> nth(i)]
  <2> HIDE DEF before
  <2>1. \A x \in S : Rank(R, S, x) = Cardinality({y \in S : before(y, x)})
    <3>1. \A x \in S : {y \in S : <<y, x>> \in R} = {y \in S : before(y, x)}
      OBVIOUS
    <3> QED
      BY <3>1 DEF Rank
  <2> DEFINE direct(i) == CHOOSE x \in S : Cardinality({y \in S : before(y, x)}) = i - 1
  <2>2. \A i : direct(i) = nth(i)
    BY <2>1
  <2>3. order = [i \in 1..m |-> direct(i)]
    BY DEF Sorted
  <2> HIDE DEF direct, nth, order, m
  <2> QED
    BY <2>2, <2>3
<1> HIDE DEF s, R, order
<1>4. order \in Seq(S)
  <2>1. order = [i \in 1..Cardinality(S) |-> CHOOSE x \in S : Rank(R, S, x) = i - 1]
    BY <1>3
  <2> QED
    BY ONLY <1>1, <2>1, SortedLists
<1> DEFINE k == Min2(TailLimit, Len(order))
<1>5. Len(order) \in Nat /\ k \in Nat /\ k <= Len(order) /\ \A i \in 1..Len(order) : order[i] \in S
  BY <1>4, LimitsAssumption DEF Min2
<1>6. s = [i \in 1..k |-> Candidate(phase, order[i].blocks)]
  BY <1>2
<1> HIDE DEF k
<1>7. s = [i \in 1..k |-> s[i]] /\ DOMAIN s = 1..k
  BY <1>6
<1>8. IsList(s)
  BY <1>5, <1>7, MadeList
<1>9. ASSUME NEW i \in DOMAIN s PROVE \E c \in S : s[i] = Candidate(phase, c.blocks)
  <2>1. i \in 1..Len(order) /\ s[i] = Candidate(phase, order[i].blocks)
    BY <1>5, <1>6, <1>7
  <2> QED
    BY <1>5, <2>1
<1>10. \A x \in Range(s) : \E i \in DOMAIN s : x = s[i]
  BY DEF Range
<1> QED
  BY <1>8, <1>9, <1>10 DEF s

-------------------------------------------------------------------------------
(* Relocated tails.                                                            *)

(* What the generators are given: a plan without empty blocks, whose blocks    *)
(* have numbers of their own.                                                  *)
Seed(seed, S) ==
    seed[1] \in Int /\ Holds(seed[2], S) /\ Filled(seed[2]) /\ NamedApart(seed[2])

(* What they make: plans of the same trips, with keys that end in the number   *)
(* of the seed.                                                                *)
Makes(M, n, seed, S) ==
    Keyed(M, n) /\ \A c \in M : Numbers(c.blocks, S) /\ c.key[n] = seed[1]

LEMMA TailHolds ==
  ASSUME problem \in Problems, NEW base, NEW S, Holds(base, S),
         Filled(base), NEW r \in DOMAIN base, NEW d \in DOMAIN base, r # d, NEW k \in Nat \ {0},
         k <= Len(base[d].trips), NEW suffix,
         suffix = SubSeq(base[d].trips, Len(base[d].trips) - k + 1, Len(base[d].trips)),
         CanAppend(base[r].trips, suffix),
         NEW u, u = [base EXCEPT ![r].trips = ByTime(Range(@ \o suffix)),
                                 ![d].trips = SubSeq(@, 1, Len(@) - k)]
  PROVE  Holds(u, S)
<1> DEFINE b1 == base[r].trips
           b2 == base[d].trips
           A == Range(b1)
           B == Range(b2)
           lo == Len(b2) - k
           next == Len(b2) - k + 1
           p == ByTime(Range(b1 \o suffix))
           q == SubSeq(b2, 1, lo)
<1>1. ListsOnce(b1, A) /\ ListsOnce(b2, B) /\ A \cap B = {}
  BY HeldBlock DEF Holds
<1>2. Len(b2) \in Nat /\ lo \in 0..Len(b2) /\ next = lo + 1
  <2>1. Len(b2) \in Nat
    BY <1>1, ListDomain DEF ListsOnce
  <2> QED
    BY <2>1
<1>3. A \subseteq TripIds(problem) /\ B \subseteq TripIds(problem)
  <2>1. \A x \in Seq(TripIds(problem)) : Range(x) \subseteq TripIds(problem)
    BY DEF Range
  <2> QED
    BY <2>1, HeldList
<1>4. suffix = SubSeq(b2, next, Len(b2))
  OBVIOUS
<1>5. u[r] = [base[r] EXCEPT !.trips = p] /\ u[d] = [base[d] EXCEPT !.trips = q]
  <2> DEFINE P(x) == ByTime(Range(x \o suffix))
             Q(x) == SubSeq(x, 1, Len(x) - k)
  <2>1. u = [base EXCEPT ![r].trips = P(@), ![d].trips = Q(@)]
    OBVIOUS
  <2>2. p = P(b1) /\ q = Q(b2)
    OBVIOUS
  <2> HIDE DEF P, Q, p, q
  <2> QED
    BY <2>1, <2>2
<1>6. /\ DOMAIN u = DOMAIN base /\ u = [i \in DOMAIN u |-> u[i]]
      /\ \A i \in DOMAIN base \ {r, d} : u[i] = base[i]
  OBVIOUS
<1>7. PICK C \in SUBSET B : ListsOnce(q, C) /\ ListsOnce(suffix, B \ C)
  <2> HIDE DEF b2, lo, next, B
  <2>1. \E C \in SUBSET B : /\ ListsOnce(SubSeq(b2, 1, lo), C)
                            /\ ListsOnce(SubSeq(b2, next, Len(b2)), B \ C)
    BY <1>1, <1>2, CutInTwo
  <2> QED
    BY <1>4, <2>1
<1>8. Range(b1 \o suffix) = A \cup (B \ C)
  <2> HIDE DEF b1, A, B
  <2> QED
    BY <1>1, <1>7, JoinedLists DEF ListsOnce
<1>9. ListsOnce(p, A \cup (B \ C))
  <2>1. A \cup (B \ C) \subseteq TripIds(problem)
    BY <1>3
  <2> HIDE DEF A, B, b1
  <2> QED
    BY <1>8, <2>1, ByTimeOnce
<1>10. /\ (A \cup (B \ C)) \cap C = {}
       /\ (A \cup (B \ C)) \cup C = Range(base[r].trips) \cup Range(base[d].trips)
  <2>1. Range(base[r].trips) = A /\ Range(base[d].trips) = B
    OBVIOUS
  <2> HIDE DEF A, B
  <2> QED
    BY <1>1, <1>7, <2>1
<1>11. r \in DOMAIN base /\ d \in DOMAIN base /\ r # d /\ Holds(base, S)
  OBVIOUS
<1>12. /\ b1 \in Seq(TripIds(problem)) /\ b1 # <<>> /\ Runs(b1)
       /\ b2 \in Seq(TripIds(problem)) /\ Runs(b2)
  BY HeldList DEF Block, Filled
<1>13. Runs(q) /\ Runs(suffix)
  <2> HIDE DEF b1, b2, lo, next
  <2> QED
    BY <1>2, <1>4, <1>12, PartsRun
<1>14. suffix \in Seq(TripIds(problem)) /\ suffix # <<>>
  <2>1. suffix \in Seq(TripIds(problem))
    <3>1. IsList(suffix) /\ Range(suffix) \subseteq TripIds(problem)
      BY <1>3, <1>7 DEF ListsOnce
    <3> QED
      BY <3>1, ListTyped
  <2>2. Len(suffix) # 0
    <3>1. next <= Len(b2) /\ next \in Int /\ Len(b2) \in Int
      BY <1>2
    <3>2. \A i \in next..Len(b2) : b2[i] \in TripIds(problem)
      BY <1>2, <1>12
    <3> HIDE DEF b2, next
    <3>3. Len(suffix) = Len(b2) - next + 1
      BY <1>4, <3>1, <3>2, SubSeqProperties
    <3> QED
      BY <3>1, <3>3
  <2> QED
    BY <2>1, <2>2
<1>15. Runs(p)
  <2>1. CanAppend(b1, suffix)
    OBVIOUS
  <2> HIDE DEF b1
  <2> QED
    BY <1>12, <1>13, <1>14, <2>1, AppendedRuns
<1> HIDE DEF A, B, p, q
<1> QED
  BY ONLY <1>5, <1>6, <1>7, <1>9, <1>10, <1>11, <1>13, <1>15, MovedHolds

LEMMA TailsMade ==
  ASSUME problem \in Problems, NEW S, NEW seed, Seed(seed, S)
  PROVE  Makes(Tails(seed), 5, seed, S)
<1> DEFINE base == ByStart(seed[2], TRUE)
           Size(d) == 1..Min2(4, Len(base[d].trips) - 1)
           suffix(d, k) == SubSeq(base[d].trips, Len(base[d].trips) - k + 1, Len(base[d].trips))
           left(r, d, k) == [base EXCEPT ![r].trips = ByTime(Range(@ \o suffix(d, k))),
                                         ![d].trips = SubSeq(@, 1, Len(@) - k)]
           I == {c \in (DOMAIN base) \X (DOMAIN base) \X (1..4) :
                    /\ c[1] # c[2] /\ c[3] \in Size(c[2])
                    /\ CanAppend(base[c[1]].trips, suffix(c[2], c[3]))}
           gap(c) == TripGap(problem, Last(base[c[1]].trips), suffix(c[2], c[3])[1])
           key(c) == <<gap(c), 0 - c[3], base[c[1]].id, base[c[2]].id, seed[1]>>
           made(c) == Renumber(left(c[1], c[2], c[3]))
           item == [c \in I |-> [key |-> key(c), blocks |-> made(c)]]
           M == {item[c] : c \in I}
<1>1. Holds(base, S) /\ Filled(base) /\ NamedApart(base)
  BY SortedHolds DEF Seed
<1>2. Tails(seed) = M
  BY DEF Tails
<1> HIDE DEF base
<1>3. /\ IsList(base) /\ IsFiniteSet(DOMAIN base)
      /\ \A i \in DOMAIN base : /\ base[i].id \in Nat
                               /\ base[i].trips \in Seq(TripIds(problem)) /\ base[i].trips # <<>>
  BY <1>1, HeldList, ListDomain DEF Filled
<1>4. IsFiniteSet(I)
  <2>1. IsFiniteSet(1..4)
    <3>1. 1 \in Int /\ 4 \in Int
      OBVIOUS
    <3> QED
      BY ONLY <3>1, FS_Interval
  <2>2. IsFiniteSet((DOMAIN base) \X (DOMAIN base) \X (1..4))
    BY <1>3, <2>1, TriplesFinite
  <2> QED
    BY <2>2, FS_Subset
<1>5. ASSUME NEW c \in I
      PROVE  /\ c[1] \in DOMAIN base /\ c[2] \in DOMAIN base /\ c[1] # c[2]
             /\ c[3] \in Nat \ {0} /\ c[3] <= Len(base[c[2]].trips)
             /\ Len(base[c[2]].trips) \in Nat /\ c = <<c[1], c[2], c[3]>>
             /\ CanAppend(base[c[1]].trips, suffix(c[2], c[3]))
  <2>1. /\ c[1] \in DOMAIN base /\ c[2] \in DOMAIN base /\ c[1] # c[2] /\ c[3] \in 1..4
        /\ c[3] \in Size(c[2]) /\ c = <<c[1], c[2], c[3]>>
        /\ CanAppend(base[c[1]].trips, suffix(c[2], c[3]))
    OBVIOUS
  <2>2. Len(base[c[2]].trips) \in Nat
    BY <1>3, <2>1
  <2> HIDE DEF I
  <2> QED
    BY <2>1, <2>2 DEF Min2
<1>6. ASSUME NEW c \in I PROVE Numbers(made(c), S)
  <2> DEFINE r == c[1]
             d == c[2]
             k == c[3]
             u == left(c[1], c[2], c[3])
             tail == suffix(c[2], c[3])
  <2>1. /\ r \in DOMAIN base /\ d \in DOMAIN base /\ r # d
        /\ k \in Nat \ {0} /\ k <= Len(base[d].trips) /\ CanAppend(base[r].trips, tail)
    BY <1>5
  <2>2. /\ tail = SubSeq(base[d].trips, Len(base[d].trips) - k + 1, Len(base[d].trips))
        /\ u = [base EXCEPT ![r].trips = ByTime(Range(@ \o tail)),
                            ![d].trips = SubSeq(@, 1, Len(@) - k)]
    OBVIOUS
  <2>3. made(c) = Renumber(u)
    OBVIOUS
  <2> HIDE DEF I, r, d, k, u, tail, made
  <2>4. Holds(u, S)
    BY <1>1, <2>1, <2>2, TailHolds
  <2> QED
    BY <2>3, <2>4, RenumberedHolds DEF Numbers
<1>7. ASSUME NEW c \in I PROVE key(c) \in [1..5 -> Int]
  <2>1. gap(c) \in Int
    <3> DEFINE b == base[c[2]].trips
               n == Len(b)
               tail == SubSeq(b, n - c[3] + 1, n)
    <3>1. Last(base[c[1]].trips) \in TripIds(problem)
      BY <1>3, <1>5, BlockEnds
    <3>2. tail[1] \in TripIds(problem)
      <4>1. b \in Seq(TripIds(problem)) /\ n \in Nat /\ c[3] \in Nat \ {0} /\ c[3] <= n
        BY <1>3, <1>5
      <4> DEFINE lo == n - c[3] + 1
      <4>2. lo \in Int /\ n \in Int /\ \A i \in lo..n : b[i] \in TripIds(problem)
        BY <4>1
      <4>3. /\ tail = SubSeq(b, lo, n) /\ 1 \in 1..(n - lo + 1) /\ lo + 1 - 1 = lo
            /\ lo \in lo..n
        BY <4>1
      <4> HIDE DEF lo, tail, n, b, I
      <4>4. \A i \in 1..(n - lo + 1) : SubSeq(b, lo, n)[i] = b[lo + i - 1]
        BY <4>2, SubSeqProperties
      <4> QED
        BY <4>2, <4>3, <4>4
    <3>3. gap(c) = TripGap(problem, Last(base[c[1]].trips), tail[1])
      OBVIOUS
    <3> HIDE DEF gap, tail, I
    <3> QED
      BY <3>1, <3>2, <3>3, TimesTyped
  <2>2. 0 - c[3] \in Int /\ base[c[1]].id \in Int /\ base[c[2]].id \in Int /\ seed[1] \in Int
    BY <1>3, <1>5 DEF Seed
  <2> HIDE DEF gap, I
  <2> QED
    BY <2>1, <2>2
<1> HIDE DEF made
<1>8. ASSUME NEW c \in I, NEW e \in I, key(c) = key(e) PROVE c = e
  <2>1. 0 - c[3] = 0 - e[3] /\ base[c[1]].id = base[e[1]].id /\ base[c[2]].id = base[e[2]].id
    <3> HIDE DEF gap, I
    <3> QED
      BY <1>8
  <2>2. c[1] = e[1] /\ c[2] = e[2]
    <3>1. /\ c[1] \in DOMAIN base /\ e[1] \in DOMAIN base
          /\ c[2] \in DOMAIN base /\ e[2] \in DOMAIN base
      BY <1>5
    <3> HIDE DEF I, gap
    <3> QED
      BY <1>1, <2>1, <3>1 DEF NamedApart
  <2>3. c[3] = e[3]
    <3>1. c[3] \in Nat /\ e[3] \in Nat
      BY <1>5
    <3> HIDE DEF I, gap
    <3> QED
      BY <2>1, <3>1
  <2>4. c = <<c[1], c[2], c[3]>> /\ e = <<e[1], e[2], e[3]>>
    BY <1>5
  <2> HIDE DEF I, gap
  <2> QED
    BY <2>2, <2>3, <2>4
<1>9. \A c \in I : item[c].key = key(c) /\ item[c].blocks = made(c) /\ key(c)[5] = seed[1]
  <2> HIDE DEF I, gap
  <2> QED
    OBVIOUS
<1> HIDE DEF item, I, key
<1>10. IsFiniteSet(M)
  BY <1>4, ImagesFinite
<1>11. Keyed(M, 5)
  BY <1>7, <1>8, <1>9, <1>10 DEF Keyed
<1>12. \A c \in M : Numbers(c.blocks, S) /\ c.key[5] = seed[1]
  BY <1>6, <1>9
<1> QED
  BY <1>2, <1>11, <1>12 DEF Makes

-------------------------------------------------------------------------------
(* Repaired pairs.                                                             *)

LEMMA TypedBlock ==
  ASSUME problem \in Problems, NEW A, A \subseteq TripIds(problem), NEW q, ListsOnce(q, A),
         Runs(q), NEW n \in Nat
  PROVE  [id |-> n, trips |-> q] \in Block /\ IsInjective(q) /\ Range(q) = A
<1>1. q \in Seq(TripIds(problem))
  BY ListTyped DEF ListsOnce
<1> QED
  BY <1>1 DEF Block, ListsOnce

(* What the guard of a repair asks of the three blocks it makes. *)
Repairable(src, dst) ==
    Runs(Front(src)) /\ Runs(<<Last(src), dst[1]>>) /\ Runs(Tail(dst))

(* What comes of each block when a pair across r and d is repaired. *)
IsRepair(parts, base, r, d) ==
    LET src == base[r].trips
        dst == base[d].trips
    IN  /\ Repairable(src, dst)
        /\ parts[r] = << [id |-> 0, trips |-> Front(src)], [id |-> 0, trips |-> <<Last(src), dst[1]>>] >>
        /\ parts[d] = << [id |-> 0, trips |-> Tail(dst)] >>
        /\ \A i \in DOMAIN base \ {r, d} : parts[i] = <<base[i]>>

LEMMA RepairHolds ==
  ASSUME problem \in Problems, NEW base, NEW S, Holds(base, S), Filled(base),
         NEW r \in DOMAIN base, NEW d \in DOMAIN base, r # d,
         NEW parts, DOMAIN parts = DOMAIN base, parts = [i \in DOMAIN parts |-> parts[i]],
         IsRepair(parts, base, r, d)
  PROVE  Holds(FlattenSeq(parts), S)
<1> DEFINE src == base[r].trips
           dst == base[d].trips
           A(i) == Range(base[i].trips)
           x == Last(src)
           y == dst[1]
           f == [i \in DOMAIN base |-> IF i = r THEN A(r) \cup {y}
                                       ELSE IF i = d THEN A(d) \ {y} ELSE A(i)]
<1>1. /\ IsList(base)
      /\ \A i \in DOMAIN base : /\ base[i] \in Block /\ A(i) \subseteq TripIds(problem)
                               /\ ListsOnce(base[i].trips, A(i)) /\ base[i].trips # <<>>
      /\ \A i, j \in DOMAIN base : i # j => A(i) \cap A(j) = {}
  <2>1. \A q \in Seq(TripIds(problem)) : Range(q) \subseteq TripIds(problem)
    BY DEF Range
  <2>2. \A i \in DOMAIN base : ListsOnce(base[i].trips, A(i))
    BY HeldBlock
  <2> QED
    BY <2>1, <2>2, HeldList DEF Holds, Filled
<1>0. /\ Repairable(src, dst)
      /\ parts[r] = << [id |-> 0, trips |-> Front(src)], [id |-> 0, trips |-> <<Last(src), dst[1]>>] >>
      /\ parts[d] = << [id |-> 0, trips |-> Tail(dst)] >>
      /\ \A i \in DOMAIN base \ {r, d} : parts[i] = <<base[i]>>
  BY DEF IsRepair
<1>2. IsList(parts)
  BY <1>1, ChangedPlaces
<1>3. x \in A(r) /\ ListsOnce(Front(src), A(r) \ {x})
  <2> HIDE DEF A
  <2> QED
    BY <1>1, LastOff
<1>4. y \in A(d) /\ ListsOnce(Tail(dst), A(d) \ {y})
  <2> HIDE DEF A
  <2> QED
    BY <1>1, HeadOff
<1>5. Holds(parts[r], A(r) \cup {y})
  <2> DEFINE b == [id |-> 0, trips |-> Front(src)]
             c == [id |-> 0, trips |-> <<x, y>>]
  <2>1. /\ A(r) \ {x} \subseteq TripIds(problem) /\ {x, y} \subseteq TripIds(problem) /\ 0 \in Nat /\ x # y
        /\ Runs(<<x, y>>) /\ Runs(Front(src))
    BY <1>0, <1>1, <1>3, <1>4 DEF Repairable
  <2>2. b \in Block /\ IsInjective(Front(src)) /\ Range(Front(src)) = A(r) \ {x}
    <3> HIDE DEF A, x
    <3> QED
      BY <1>3, <2>1, TypedBlock
  <2>3. c \in Block /\ IsInjective(<<x, y>>) /\ Range(<<x, y>>) = {x, y}
    <3> HIDE DEF A, x, y
    <3>1. ListsOnce(<<x, y>>, {x, y})
      <4>1. IsList(<<x, y>>)
        BY ShortLists
      <4> QED
        BY <2>1, <4>1 DEF ListsOnce, IsInjective, Range
    <3> QED
      BY <2>1, <3>1, TypedBlock
  <2>4. b.trips = Front(src) /\ c.trips = <<x, y>> /\ parts[r] = <<b, c>>
    BY <1>0
  <2>5. (A(r) \ {x}) \cap {x, y} = {} /\ (A(r) \ {x}) \cup {x, y} = A(r) \cup {y}
    BY <1>1, <1>3, <1>4
  <2> HIDE DEF A, x, y, b, c
  <2>6. Holds(<<b, c>>, Range(b.trips) \cup Range(c.trips))
    BY <2>2, <2>3, <2>4, <2>5, TwoHold
  <2> QED
    BY <2>2, <2>3, <2>4, <2>5, <2>6
<1>6. Holds(parts[d], A(d) \ {y})
  <2> DEFINE b == [id |-> 0, trips |-> Tail(dst)]
  <2>1. A(d) \ {y} \subseteq TripIds(problem) /\ 0 \in Nat /\ Runs(Tail(dst))
    BY <1>0, <1>1 DEF Repairable
  <2>2. b \in Block /\ IsInjective(Tail(dst)) /\ Range(Tail(dst)) = A(d) \ {y}
    <3> HIDE DEF A, y
    <3> QED
      BY <1>4, <2>1, TypedBlock
  <2>3. b.trips = Tail(dst) /\ parts[d] = <<b>>
    BY <1>0
  <2> HIDE DEF A, y, b
  <2> QED
    BY <2>2, <2>3, OneHolds
<1>7. \A i \in DOMAIN base \ {r, d} : Holds(parts[i], A(i))
  <2> SUFFICES ASSUME NEW i \in DOMAIN base \ {r, d} PROVE Holds(parts[i], A(i))
    OBVIOUS
  <2>1. parts[i] = <<base[i]>> /\ base[i] \in Block /\ IsInjective(base[i].trips)
    BY <1>0, <1>1 DEF ListsOnce
  <2> QED
    BY <2>1, OneHolds
<1> HIDE DEF A, x, y
<1>8. f[r] = A(r) \cup {y} /\ f[d] = A(d) \ {y} /\ \A i \in DOMAIN base \ {r, d} : f[i] = A(i)
  OBVIOUS
<1> HIDE DEF f
<1>9. \A i \in DOMAIN parts : Holds(parts[i], f[i])
  <2> SUFFICES ASSUME NEW i \in DOMAIN base PROVE Holds(parts[i], f[i])
    OBVIOUS
  <2>1. CASE i = r
    BY <1>5, <1>8, <2>1
  <2>2. CASE i = d
    BY <1>6, <1>8, <2>2
  <2>3. CASE i \notin {r, d}
    BY <1>7, <1>8, <2>3
  <2> QED
    BY <2>1, <2>2, <2>3
<1>10. \A i, j \in DOMAIN parts : i # j => f[i] \cap f[j] = {}
  <2> SUFFICES ASSUME NEW i \in DOMAIN base, NEW j \in DOMAIN base, i # j PROVE f[i] \cap f[j] = {}
    OBVIOUS
  <2>2. /\ f[i] \subseteq A(i) \cup (IF i = r THEN {y} ELSE {}) /\ (i = d => f[i] = A(d) \ {y})
        /\ f[j] \subseteq A(j) \cup (IF j = r THEN {y} ELSE {}) /\ (j = d => f[j] = A(d) \ {y})
    BY <1>8
  <2>3. \A k \in DOMAIN base : k # d => y \notin A(k)
    BY <1>1, <1>4
  <2>4. A(i) \cap A(j) = {}
    BY <1>1
  <2> QED
    BY <2>2, <2>3, <2>4
<1>11. S = UNION {f[i] : i \in DOMAIN parts}
  <2>1. S = UNION {A(i) : i \in DOMAIN base}
    BY DEF Holds, Driven, A
  <2>2. ASSUME NEW t \in S PROVE t \in UNION {f[i] : i \in DOMAIN parts}
    <3>1. PICK i \in DOMAIN base : t \in A(i)
      BY <2>1
    <3>2. t \in f[i] \/ t \in f[r]
      BY <1>8, <3>1
    <3> QED
      BY <3>2
  <2>3. ASSUME NEW i \in DOMAIN parts, NEW t \in f[i] PROVE t \in S
    <3>1. t \in A(i) \/ t \in A(d)
      BY <1>4, <1>8, <2>3
    <3> QED
      BY <2>1, <3>1
  <2> QED
    BY <2>2, <2>3
<1> QED
  BY <1>2, <1>9, <1>10, <1>11, FlatHolds

LEMMA RepairsMade ==
  ASSUME problem \in Problems, NEW S, NEW seed, Seed(seed, S)
  PROVE  Makes(PairRepairs(seed), 4, seed, S)
<1> DEFINE base == ByStart(seed[2], TRUE)
           I == {c \in (DOMAIN base) \X (DOMAIN base) :
                     LET a == Last(base[c[1]].trips)
                         b == base[c[2]].trips[1]
                     IN  /\ base[c[1]].id # base[c[2]].id
                         /\ Pairs[a] = b /\ Trip(a).st <= Trip(b).st
                         /\ Len(base[c[1]].trips) >= 2
                         /\ Feasible(Front(base[c[1]].trips)) /\ Feasible(<<a, b>>)
                         /\ Feasible(Tail(base[c[2]].trips))}
           Part(c, i) == IF i = c[1] THEN << [id |-> 0, trips |-> Front(base[c[1]].trips)],
                                             [id |-> 0, trips |-> <<Last(base[c[1]].trips), base[c[2]].trips[1]>>] >>
                         ELSE IF i = c[2] THEN << [id |-> 0, trips |-> Tail(base[i].trips)] >>
                         ELSE << base[i] >>
           parts(c) == [i \in DOMAIN base |-> Part(c, i)]
           key(c) == <<1 - Len(base[c[1]].trips), base[c[1]].id, base[c[2]].id, seed[1]>>
           made(c) == Renumber(FlattenSeq(parts(c)))
           item == [c \in I |-> [key |-> key(c), blocks |-> made(c)]]
           M == {item[c] : c \in I}
<1>1. Holds(base, S) /\ Filled(base) /\ NamedApart(base)
  BY SortedHolds DEF Seed
<1>2. PairRepairs(seed) = M
  <2>1. PairRepairs(seed) = {[key |-> key(c), blocks |-> made(c)] : c \in I}
    BY DEF PairRepairs, PairRepairsNumbered
  <2> HIDE DEF key, made, I
  <2> QED
    BY <2>1
<1> HIDE DEF base
<1>3. /\ IsList(base) /\ IsFiniteSet(DOMAIN base)
      /\ \A i \in DOMAIN base : base[i].id \in Nat /\ base[i].trips \in Seq(TripIds(problem))
  BY <1>1, HeldList, ListDomain
<1>4. IsFiniteSet(I)
  <2>1. IsFiniteSet((DOMAIN base) \X (DOMAIN base))
    BY <1>3, FS_Product
  <2> QED
    BY <2>1, FS_Subset
<1>5. ASSUME NEW c \in I
      PROVE  /\ c[1] \in DOMAIN base /\ c[2] \in DOMAIN base /\ c[1] # c[2] /\ c = <<c[1], c[2]>>
             /\ Repairable(base[c[1]].trips, base[c[2]].trips)
  BY DEF Repairable, Runs
<1> HIDE DEF I
<1>6. ASSUME NEW c \in I PROVE Numbers(made(c), S)
  <2> DEFINE r == c[1]
             d == c[2]
             src == base[r].trips
             dst == base[d].trips
             u == parts(c)
  <2>1. r \in DOMAIN base /\ d \in DOMAIN base /\ r # d
    BY <1>5
  <2>2. u = [i \in DOMAIN base |-> Part(c, i)]
    OBVIOUS
  <2>3. /\ Part(c, r) = << [id |-> 0, trips |-> Front(src)], [id |-> 0, trips |-> <<Last(src), dst[1]>>] >>
        /\ Part(c, d) = << [id |-> 0, trips |-> Tail(dst)] >>
        /\ \A i \in DOMAIN base \ {r, d} : Part(c, i) = <<base[i]>>
    BY <2>1
  <2>4. made(c) = Renumber(FlattenSeq(u))
    OBVIOUS
  <2> HIDE DEF Part, u, made
  <2>5. DOMAIN u = DOMAIN base /\ u = [i \in DOMAIN u |-> u[i]] /\ \A i \in DOMAIN base : u[i] = Part(c, i)
    BY <2>2
  <2>6. /\ u[r] = << [id |-> 0, trips |-> Front(src)], [id |-> 0, trips |-> <<Last(src), dst[1]>>] >>
        /\ u[d] = << [id |-> 0, trips |-> Tail(dst)] >>
        /\ \A i \in DOMAIN base \ {r, d} : u[i] = <<base[i]>>
    BY <2>1, <2>3, <2>5
  <2>7. src = base[r].trips /\ dst = base[d].trips /\ Repairable(src, dst)
    BY <1>5
  <2> HIDE DEF r, d, src, dst
  <2>8. DOMAIN u = DOMAIN base /\ u = [i \in DOMAIN u |-> u[i]] /\ IsRepair(u, base, r, d)
    BY <2>5, <2>6, <2>7 DEF IsRepair
  <2>9. Holds(FlattenSeq(u), S)
    BY <1>1, <2>1, <2>8, RepairHolds
  <2> QED
    BY <2>4, <2>9, RenumberedHolds DEF Numbers
<1> HIDE DEF made
<1>7. ASSUME NEW c \in I PROVE key(c) \in [1..4 -> Int]
  <2>1. Len(base[c[1]].trips) \in Nat /\ base[c[1]].id \in Int /\ base[c[2]].id \in Int /\ seed[1] \in Int
    <3>1. c[1] \in DOMAIN base /\ c[2] \in DOMAIN base
      BY <1>5
    <3>2. base[c[1]].trips \in Seq(TripIds(problem))
      BY <1>3, <3>1
    <3> QED
      BY <1>3, <3>1, <3>2 DEF Seed
  <2>2. 1 - Len(base[c[1]].trips) \in Int
    BY <2>1
  <2> QED
    BY <2>1, <2>2
<1>8. ASSUME NEW c \in I, NEW e \in I, key(c) = key(e) PROVE c = e
  <2>1. base[c[1]].id = base[e[1]].id /\ base[c[2]].id = base[e[2]].id
    BY <1>8
  <2>2. c[1] = e[1] /\ c[2] = e[2]
    <3>1. /\ c[1] \in DOMAIN base /\ e[1] \in DOMAIN base
          /\ c[2] \in DOMAIN base /\ e[2] \in DOMAIN base
      BY <1>5
    <3> QED
      BY <1>1, <2>1, <3>1 DEF NamedApart
  <2>3. c = <<c[1], c[2]>> /\ e = <<e[1], e[2]>>
    BY <1>5
  <2> QED
    BY <2>2, <2>3
<1>9. \A c \in I : item[c].key = key(c) /\ item[c].blocks = made(c) /\ key(c)[4] = seed[1]
  OBVIOUS
<1> HIDE DEF item, key
<1>10. IsFiniteSet(M)
  BY <1>4, ImagesFinite
<1>11. Keyed(M, 4)
  BY <1>7, <1>8, <1>9, <1>10 DEF Keyed
<1>12. \A c \in M : Numbers(c.blocks, S) /\ c.key[4] = seed[1]
  BY <1>6, <1>9
<1> QED
  BY <1>2, <1>11, <1>12 DEF Makes

-------------------------------------------------------------------------------
(* Merging two blocks, taking blocks out and putting trips in.                 *)

LEMMA NothingOnce == ListsOnce(<<>>, {})
BY DEF ListsOnce, IsList, IsInjective, Range

LEMMA MergedHolds ==
  ASSUME NEW s, NEW S, Holds(s, S), Filled(s), NEW i \in DOMAIN s, NEW j \in DOMAIN s, j = i + 1,
         Runs(s[i].trips \o s[j].trips),
         NEW longer, longer = [s EXCEPT ![i].trips = @ \o s[j].trips]
  PROVE  Holds(RemoveAt(longer, j), S) /\ Filled(RemoveAt(longer, j))
<1> DEFINE A == Range(s[i].trips)
           B == Range(s[j].trips)
           p == s[i].trips \o s[j].trips
           u == [s EXCEPT ![i].trips = p, ![j].trips = <<>>]
           n == Len(s)
<1>1. /\ ListsOnce(s[i].trips, A) /\ ListsOnce(s[j].trips, B) /\ A \cap B = {} /\ i # j
      /\ n \in Nat /\ DOMAIN s = 1..n /\ i \in 1..n /\ j \in 1..n
      /\ s \in Seq(Block) /\ \A k \in 1..n : s[k] \in Block
  <2>1. n \in Nat /\ DOMAIN s = 1..n /\ \A k \in 1..n : s[k] \in Block
    BY HeldList
  <2>2. i # j
    BY <2>1
  <2> QED
    BY <2>1, <2>2, HeldBlock DEF Holds
<1>2. p \in Seq(TripIds(problem))
  <2>1. s[i].trips \in Seq(TripIds(problem)) /\ s[j].trips \in Seq(TripIds(problem))
    BY HeldList
  <2> QED
    BY <2>1, ConcatProperties
<1>3. ListsOnce(p, A \cup B)
  <2> HIDE DEF A, B
  <2> QED
    BY <1>1, JoinedOnce
<1>4. p # <<>>
  <2>1. s[i].trips # <<>>
    BY DEF Filled
  <2>2. PICK x : x \in A
    BY <1>1, <2>1, HeadOff
  <2>3. Range(<<>>) = {}
    BY DEF Range
  <2> HIDE DEF p
  <2> QED
    BY <1>3, <2>2, <2>3 DEF ListsOnce
<1>0. Runs(p) /\ Runs(<<>>)
  BY ShortRuns
<1> HIDE DEF p
<1>5. /\ DOMAIN u = DOMAIN s /\ u = [k \in DOMAIN u |-> u[k]]
      /\ u[i] = [s[i] EXCEPT !.trips = p] /\ u[j] = [s[j] EXCEPT !.trips = <<>>]
      /\ \A k \in DOMAIN s \ {i, j} : u[k] = s[k]
  BY <1>1
<1>6. /\ longer \in Seq(Block) /\ Len(longer) = n /\ longer[i] = u[i]
      /\ \A k \in 1..n : k # j => longer[k] = u[k]
  <2>1. longer[i] = [s[i] EXCEPT !.trips = p] /\ \A k \in 1..n \ {i} : longer[k] = s[k]
    BY <1>1 DEF p
  <2>2. [s[i] EXCEPT !.trips = p] \in Block
    BY <1>0, <1>1, <1>2 DEF Block
  <2>3. DOMAIN longer = 1..n /\ longer = [k \in DOMAIN longer |-> longer[k]]
    BY <1>1
  <2>4. \A k \in 1..n : longer[k] \in Block
    BY <1>1, <2>1, <2>2
  <2>5. longer \in [1..n -> Block]
    BY ONLY <2>3, <2>4
  <2>6. longer \in Seq(Block) /\ Len(longer) = n
    BY ONLY <1>1, <2>5
  <2>7. longer[i] = u[i]
    BY ONLY <1>5, <2>1
  <2>8. \A k \in 1..n : k # j => longer[k] = u[k]
    BY ONLY <1>1, <1>5, <2>1, <2>7
  <2> QED
    BY ONLY <2>6, <2>7, <2>8
<1> HIDE DEF u
<1>7. Holds(u, S)
  <2>1. (A \cup B) \cap {} = {} /\ (A \cup B) \cup {} = Range(s[i].trips) \cup Range(s[j].trips)
    OBVIOUS
  <2>2. i \in DOMAIN s /\ j \in DOMAIN s /\ i # j /\ Holds(s, S)
    BY <1>1
  <2> HIDE DEF A, B
  <2> QED
    BY ONLY <1>0, <1>3, <1>5, <2>1, <2>2, NothingOnce, MovedHolds
<1>8. u[j].trips = <<>> /\ j \in DOMAIN u /\ \A k \in DOMAIN u \ {j} : u[k].trips # <<>>
  <2>1. u[j].trips = <<>> /\ u[i].trips = p
    BY <1>1, <1>5 DEF Block
  <2> QED
    BY <1>4, <1>5, <2>1 DEF Filled
<1>9. Holds(RemoveAt(u, j), S) /\ Filled(RemoveAt(u, j))
  BY <1>7, <1>8, RemovedHolds
<1>10. RemoveAt(u, j) = RemoveAt(longer, j)
  <2> DEFINE v == RemoveAt(u, j)
             w == RemoveAt(longer, j)
  <2>1. u \in Seq(Block) /\ Len(u) = n
    BY <1>1, <1>5, <1>7 DEF Holds
  <2>2. j \in DOMAIN u /\ j \in DOMAIN longer
    BY <1>1, <1>5, <1>6
  <2> HIDE DEF n
  <2>3. /\ v = [k \in 1..(n - 1) |-> v[k]]
        /\ \A k \in 1..(n - 1) : v[k] = IF k < j THEN u[k] ELSE u[k + 1]
    BY ONLY <2>1, <2>2, RemovedAt
  <2>4. /\ w = [k \in 1..(n - 1) |-> w[k]]
        /\ \A k \in 1..(n - 1) : w[k] = IF k < j THEN longer[k] ELSE longer[k + 1]
    BY ONLY <1>6, <2>2, RemovedAt
  <2> HIDE DEF v, w
  <2>5. \A k \in 1..(n - 1) : v[k] = w[k]
    <3> SUFFICES ASSUME NEW k \in 1..(n - 1) PROVE v[k] = w[k]
      OBVIOUS
    <3>1. CASE k < j
      <4>1. k \in 1..n /\ k # j
        BY <1>1, <3>1
      <4>2. v[k] = u[k] /\ w[k] = longer[k]
        BY <2>3, <2>4, <3>1
      <4> QED
        BY <1>6, <4>1, <4>2
    <3>2. CASE ~(k < j)
      <4>1. k + 1 \in 1..n /\ k + 1 # j
        BY <1>1, <3>2
      <4>2. v[k] = u[k + 1] /\ w[k] = longer[k + 1]
        BY <2>3, <2>4, <3>2
      <4> QED
        BY <1>6, <4>1, <4>2
    <3> QED
      BY <3>1, <3>2
  <2> QED
    BY <2>3, <2>4, <2>5 DEF v, w
<1> QED
  BY <1>9, <1>10

(* The blocks at the places I hold what the others do not. *)
LEMMA KeptHolds ==
  ASSUME NEW s, NEW S, Holds(s, S), Filled(s), NEW I, I \subseteq DOMAIN s,
         NEW G, \A x : x \in G <=> \E i \in DOMAIN s \ I : x \in Range(s[i].trips)
  PROVE  Holds(Picked(s, I), S \ G) /\ Filled(Picked(s, I)) /\ G \subseteq S
<1> DEFINE n == Cardinality(I)
           u == Picked(s, I)
<1>1. s \in Seq(Block) /\ \A i \in DOMAIN s : s[i] \in Block
  BY HeldList DEF Holds
<1>2. PICK at \in [1..n -> I] :
        Range(at) = I /\ IsInjective(at) /\ u = [k \in 1..n |-> s[at[k]]] /\ n \in Nat
  BY <1>1, PickedLists
<1> HIDE DEF n, u
<1>3. DOMAIN at = 1..n /\ DOMAIN u = 1..n /\ \A k \in 1..n : at[k] \in I /\ u[k] = s[at[k]]
  BY <1>2
<1>4. u \in Seq(Block)
  <2>1. u \in [1..n -> Block]
    BY <1>1, <1>2, <1>3
  <2> QED
    BY <1>2, <2>1
<1>5. \A k \in DOMAIN u : IsInjective(u[k].trips)
  BY <1>3 DEF Holds
<1>6. \A k, l \in DOMAIN u : k # l => Range(u[k].trips) \cap Range(u[l].trips) = {}
  <2> SUFFICES ASSUME NEW k \in DOMAIN u, NEW l \in DOMAIN u, k # l
               PROVE  Range(u[k].trips) \cap Range(u[l].trips) = {}
    OBVIOUS
  <2>1. at[k] # at[l] /\ at[k] \in DOMAIN s /\ at[l] \in DOMAIN s
    BY <1>2, <1>3 DEF IsInjective
  <2>2. u[k] = s[at[k]] /\ u[l] = s[at[l]]
    BY <1>3
  <2>3. Range(s[at[k]].trips) \cap Range(s[at[l]].trips) = {}
    BY <2>1 DEF Holds
  <2> QED
    BY <2>2, <2>3
<1>7. Driven(u) = S \ G
  <2>1. ASSUME NEW x \in Driven(u) PROVE x \in S \ G
    <3>1. PICK k \in DOMAIN u : x \in Range(u[k].trips)
      BY <2>1 DEF Driven
    <3>2. at[k] \in I /\ x \in Range(s[at[k]].trips)
      BY <1>3, <3>1
    <3>3. \A i \in DOMAIN s \ I : x \notin Range(s[i].trips)
      BY <3>2 DEF Holds
    <3>4. x \in S
      BY <3>2 DEF Holds, Driven
    <3> QED
      BY <3>3, <3>4
  <2>2. ASSUME NEW x \in S \ G PROVE x \in Driven(u)
    <3>1. PICK i \in DOMAIN s : x \in Range(s[i].trips)
      BY <2>2 DEF Holds, Driven
    <3>2. i \in I
      BY <2>2, <3>1
    <3>3. PICK k \in DOMAIN at : at[k] = i
      BY <1>2, <3>2 DEF Range
    <3>4. x \in Range(u[k].trips) /\ k \in DOMAIN u
      BY <1>3, <3>1, <3>3
    <3> QED
      BY <3>4 DEF Driven
  <2> QED
    BY <2>1, <2>2
<1>8. Filled(u)
  BY <1>3 DEF Filled
<1>9. G \subseteq S
  BY DEF Holds, Driven
<1> QED
  BY <1>4, <1>5, <1>6, <1>7, <1>8, <1>9 DEF Holds, u

(* A trip put into a block, and a block put at the end. *)
LEMMA PutInHolds ==
  ASSUME NEW s, NEW S, Holds(s, S), Filled(s), NEW i \in DOMAIN s, NEW t \in TripIds(problem), t \notin S,
         NEW q, ListsOnce(q, Range(s[i].trips) \cup {t}), Runs(q),
         NEW u, u = [s EXCEPT ![i].trips = q]
  PROVE  Holds(u, S \cup {t}) /\ Filled(u)
<1> DEFINE A == Range(s[i].trips)
<1>1. /\ Len(s) \in Nat /\ DOMAIN s = 1..Len(s) /\ \A k \in DOMAIN s : s[k] \in Block
      /\ \A k \in DOMAIN s : Range(s[k].trips) \subseteq S
  BY HeldList
<1>2. q \in Seq(TripIds(problem)) /\ q # <<>>
  <2>1. A \subseteq TripIds(problem)
    <3>1. s[i].trips \in Seq(TripIds(problem))
      BY HeldList
    <3>2. \A x \in Seq(TripIds(problem)) : Range(x) \subseteq TripIds(problem)
      BY DEF Range
    <3> QED
      BY <3>1, <3>2
  <2>2. Range(<<>>) = {}
    BY DEF Range
  <2> QED
    BY <2>1, <2>2, ListTyped DEF ListsOnce
<1>3. /\ u[i] \in Block /\ u[i].trips = q /\ DOMAIN u = DOMAIN s
      /\ \A k \in DOMAIN s \ {i} : u[k] = s[k]
  BY <1>1, <1>2 DEF Block
<1>4. u \in Seq(Block)
  <2>1. u \in [1..Len(s) -> Block]
    BY <1>1, <1>3
  <2> QED
    BY <1>1, <2>1
<1>5. IsInjective(q) /\ Range(q) = A \cup {t}
  BY DEF ListsOnce
<1>6. \A k \in DOMAIN u : IsInjective(u[k].trips)
  BY <1>3, <1>5 DEF Holds
<1>7. ASSUME NEW k \in DOMAIN u, NEW l \in DOMAIN u, k # l
      PROVE  Range(u[k].trips) \cap Range(u[l].trips) = {}
  <2>1. Range(s[k].trips) \cap Range(s[l].trips) = {}
    BY <1>3, <1>7 DEF Holds
  <2>2. t \notin Range(s[k].trips) /\ t \notin Range(s[l].trips)
    BY <1>1, <1>3
  <2>3. CASE k = i
    BY <1>3, <1>5, <1>7, <2>1, <2>2, <2>3
  <2>4. CASE l = i
    BY <1>3, <1>5, <1>7, <2>1, <2>2, <2>4
  <2>5. CASE k # i /\ l # i
    BY <1>3, <2>1, <2>5
  <2> QED
    BY <2>3, <2>4, <2>5
<1>8. Driven(u) = S \cup {t}
  <2>1. ASSUME NEW x \in Driven(u) PROVE x \in S \cup {t}
    <3>1. PICK k \in DOMAIN u : x \in Range(u[k].trips)
      BY <2>1 DEF Driven
    <3>2. x \in Range(s[k].trips) \cup {t}
      BY <1>3, <1>5, <3>1
    <3> QED
      BY <1>1, <1>3, <3>2
  <2>2. ASSUME NEW x \in S PROVE x \in Driven(u)
    <3>1. PICK k \in DOMAIN s : x \in Range(s[k].trips)
      BY <2>2 DEF Holds, Driven
    <3>2. x \in Range(u[k].trips) /\ k \in DOMAIN u
      BY <1>3, <1>5, <3>1
    <3> QED
      BY <3>2 DEF Driven
  <2>3. t \in Driven(u)
    <3>1. t \in Range(u[i].trips) /\ i \in DOMAIN u
      BY <1>3, <1>5
    <3> QED
      BY <3>1 DEF Driven
  <2> QED
    BY <2>1, <2>2, <2>3
<1>9. Filled(u)
  BY <1>2, <1>3 DEF Filled
<1> QED
  BY <1>4, <1>6, <1>7, <1>8, <1>9 DEF Holds

LEMMA PutLastHolds ==
  ASSUME problem \in Problems, NEW s, NEW S, Holds(s, S), Filled(s),
         NEW t \in TripIds(problem), t \notin S, NEW n \in Nat
  PROVE  LET u == Append(s, [id |-> n, trips |-> <<t>>])
         IN  Holds(u, S \cup {t}) /\ Filled(u)
<1> DEFINE b == [id |-> n, trips |-> <<t>>]
           u == Append(s, b)
           v == s \o <<b>>
<1>1. b \in Block /\ b.trips = <<t>> /\ IsInjective(b.trips) /\ Range(b.trips) = {t}
  <2>1. Runs(<<t>>)
    <3>1. Len(<<t>>) <= 1
      OBVIOUS
    <3> QED
      BY <3>1, ShortRuns
  <2> QED
    BY <2>1 DEF Block, IsInjective, Range
<1>2. Holds(<<b>>, {t})
  <2> HIDE DEF b
  <2> QED
    BY <1>1, OneHolds
<1>3. Holds(v, S \cup {t})
  <2> HIDE DEF b
  <2>1. S \cap {t} = {}
    OBVIOUS
  <2> QED
    BY <1>2, <2>1, JoinedHolds
<1>4. s \in Seq(Block) /\ Len(s) \in Nat /\ DOMAIN s = 1..Len(s)
  BY DEF Holds
<1>5. u = v
  <2> HIDE DEF b
  <2> QED
    BY <1>1, <1>4
<1>6. Filled(u)
  <2> HIDE DEF b
  <2>1. DOMAIN u = 1..(Len(s) + 1) /\ u[Len(s) + 1] = b /\ \A i \in 1..Len(s) : u[i] = s[i]
    BY <1>1, <1>4
  <2>2. b.trips # <<>>
    BY <1>1
  <2> HIDE DEF u
  <2> QED
    BY <1>4, <2>1, <2>2 DEF Filled
<1> QED
  BY <1>3, <1>5, <1>6

-------------------------------------------------------------------------------
(* Where a trip is put, and where a block is split.                            *)

LEMMA BestPlaceIs ==
  ASSUME problem \in Problems, NEW b \in Seq(TripIds(problem)), b # <<>>,
         NEW t \in TripIds(problem), Places(b, t) # {}
  PROVE  BestPlace(b, t) \in 1..(Len(b) + 1) /\ BestPlace(b, t) \in Places(b, t)
<1> DEFINE P == Places(b, t)
           f == [k \in P |-> AddedIdle(b, t, k)]
<1>1. Len(b) \in Nat \ {0} /\ \A k \in 1..Len(b) : b[k] \in TripIds(problem)
  OBVIOUS
<1>2. P \subseteq 1..(Len(b) + 1) /\ IsFiniteSet(P) /\ P \subseteq Int
  <2>1. P \subseteq 1..(Len(b) + 1)
    <3>1. Tried(b) \subseteq 1..(Len(b) + 1)
      BY <1>1 DEF Tried
    <3> QED
      BY <3>1 DEF Places
  <2>2. IsFiniteSet(1..(Len(b) + 1))
    BY <1>1, FS_Interval
  <2> HIDE DEF P
  <2>3. IsFiniteSet(P)
    BY <2>1, <2>2, FS_Subset
  <2>4. P \subseteq Int
    BY <1>1, <2>1
  <2> QED
    BY <2>1, <2>3, <2>4
<1>3. ASSUME NEW k \in P PROVE AddedIdle(b, t, k) \in Int
  <2>1. k \in 1..(Len(b) + 1)
    BY <1>2
  <2>2. \A x, y \in TripIds(problem) : TripGap(problem, x, y) \in Int
    BY TimesTyped
  <2>3. CASE k = 1
    <3>1. TripGap(problem, t, b[k]) \in Int
      BY <1>1, <2>2, <2>3
    <3> QED
      BY <2>3, <3>1 DEF AddedIdle, Max2
  <2>4. CASE k = Len(b) + 1
    <3>1. k # 1 /\ b[k - 1] \in TripIds(problem)
      BY <1>1, <2>4
    <3>2. TripGap(problem, b[k - 1], t) \in Int
      BY <2>2, <3>1
    <3> QED
      BY <2>4, <3>1, <3>2 DEF AddedIdle, Max2
  <2>5. CASE k # 1 /\ k # Len(b) + 1
    <3>1. k - 1 \in 1..Len(b) /\ k \in 1..Len(b)
      BY <1>1, <2>1, <2>5
    <3>2. /\ TripGap(problem, b[k - 1], t) \in Int /\ TripGap(problem, t, b[k]) \in Int
          /\ TripGap(problem, b[k - 1], b[k]) \in Int
      BY <1>1, <2>2, <3>1
    <3> QED
      BY <2>5, <3>2 DEF AddedIdle, Max2
  <2> QED
    BY <2>3, <2>4, <2>5
<1>4. \A k \in P : f[k] = AddedIdle(b, t, k)
  OBVIOUS
<1>5. IntsOn(f, P)
  BY <1>3, <1>4 DEF IntsOn
<1>6. BestPlace(b, t) = CHOOSE i \in P : \A j \in P :
        \/ AddedIdle(b, t, i) < AddedIdle(b, t, j)
        \/ AddedIdle(b, t, i) = AddedIdle(b, t, j) /\ i <= j
  BY DEF BestPlace, FirstLeast
<1>7. P # {}
  OBVIOUS
<1> HIDE DEF P, f
<1>8. \E i \in P : \A j \in P : f[i] < f[j] \/ (f[i] = f[j] /\ i <= j)
  BY <1>2, <1>5, <1>7, LeastExists
<1>9. \E i \in P : \A j \in P :
        \/ AddedIdle(b, t, i) < AddedIdle(b, t, j)
        \/ AddedIdle(b, t, i) = AddedIdle(b, t, j) /\ i <= j
  BY <1>4, <1>8
<1>10. BestPlace(b, t) \in P
  BY <1>6, <1>9
<1> QED
  BY <1>2, <1>10 DEF P

LEMMA SplitPointIs ==
  ASSUME problem \in Problems, NEW b \in Seq(TripIds(problem)), Len(b) >= 4
  PROVE  SplitPoint(b) \in 0..Len(b)
<1> DEFINE P == 2..Len(b) - 2
           gap(k) == TripGap(problem, b[k], b[k + 1])
           f == [k \in P |-> 0 - gap(k)]
<1>1. Len(b) \in Nat /\ \A k \in 1..Len(b) : b[k] \in TripIds(problem)
  OBVIOUS
<1>2. IsFiniteSet(P) /\ P \subseteq Int /\ P # {} /\ \A k \in P : k \in 0..Len(b)
  <2>1. 2 \in P /\ P \subseteq Int /\ \A k \in P : k \in 0..Len(b)
    BY <1>1
  <2>2. IsFiniteSet(P)
    BY <1>1, FS_Interval
  <2> QED
    BY <2>1, <2>2
<1>3. ASSUME NEW k \in P PROVE gap(k) \in Int
  <2>1. k \in 1..Len(b) /\ k + 1 \in 1..Len(b)
    BY <1>1
  <2> QED
    BY <1>1, <2>1, TimesTyped
<1>4. \A k \in P : f[k] = 0 - gap(k)
  OBVIOUS
<1>5. SplitPoint(b) = IF \A k \in P : gap(k) < 0 THEN Len(b) \div 2
                      ELSE CHOOSE i \in P : \A j \in P :
                             0 - gap(i) < 0 - gap(j) \/ (0 - gap(i) = 0 - gap(j) /\ i <= j)
  BY DEF SplitPoint, FirstLeast
<1> HIDE DEF P, gap, f
<1>6. IntsOn(f, P)
  BY <1>3, <1>4 DEF IntsOn
<1>7. \E i \in P : \A j \in P : f[i] < f[j] \/ (f[i] = f[j] /\ i <= j)
  BY <1>2, <1>6, LeastExists
<1>8. \E i \in P : \A j \in P :
        0 - gap(i) < 0 - gap(j) \/ (0 - gap(i) = 0 - gap(j) /\ i <= j)
  BY <1>4, <1>7
<1>9. CASE \A k \in P : gap(k) < 0
  <2>1. Len(b) \div 2 \in 0..Len(b)
    BY <1>1
  <2> QED
    BY <1>5, <1>9, <2>1
<1>10. CASE ~(\A k \in P : gap(k) < 0)
  <2>1. SplitPoint(b) \in P
    BY <1>5, <1>8, <1>10
  <2> QED
    BY <1>2, <2>1
<1> QED
  BY <1>9, <1>10

(* Blocks under other numbers. *)
LEMMA RelabelledHolds ==
  ASSUME NEW s, NEW S, Holds(s, S), NEW u, u = [i \in DOMAIN s |-> u[i]],
         \A i \in DOMAIN s : u[i] \in Block /\ u[i].trips = s[i].trips
  PROVE  Holds(u, S)
<1> DEFINE n == Len(s)
           at == [i \in 1..n |-> i]
<1>1. n \in Nat /\ DOMAIN s = 1..n
  BY HeldList
<1> HIDE DEF n
<1>2. at \in [1..n -> DOMAIN s] /\ u = [k \in 1..n |-> u[k]] /\ \A k \in 1..n : at[k] = k
  BY <1>1
<1>3. DOMAIN at = 1..n
  OBVIOUS
<1> HIDE DEF at
<1>4. IsInjective(at) /\ \A i \in DOMAIN s : i \in Range(at)
  BY <1>1, <1>2, <1>3 DEF IsInjective, Range
<1>5. \A k \in DOMAIN at : u[k] \in Block /\ u[k].trips = s[at[k]].trips
  BY <1>1, <1>2, <1>3
<1>6. Rearranges(u, s, at)
  BY <1>1, <1>2, <1>4, <1>5 DEF Rearranges
<1> QED
  BY <1>6, Rearranged

(* A block or the two parts of it hold its trips. *)
LEMMA PartsHold ==
  ASSUME problem \in Problems, NEW b \in Block, IsInjective(b.trips), NEW next \in Nat, Len(b.trips) >= 4
  PROVE  Holds(<< [b EXCEPT !.trips = SubSeq(@, 1, SplitPoint(b.trips))],
                  [id |-> next, trips |-> SubSeq(b.trips, SplitPoint(b.trips) + 1, Len(b.trips))] >>,
               Range(b.trips))
<1> DEFINE q == b.trips
           k == SplitPoint(b.trips)
           from == k + 1
           A == Range(q)
           p == SubSeq(q, 1, k)
           r == SubSeq(q, from, Len(q))
           x == [b EXCEPT !.trips = SubSeq(@, 1, k)]
           y == [id |-> next, trips |-> r]
<1>1. q \in Seq(TripIds(problem)) /\ b.id \in Nat /\ Runs(q)
  BY DEF Block
<1>2. k \in 0..Len(q)
  BY <1>1, SplitPointIs
<1>3. ListsOnce(q, A) /\ A \subseteq TripIds(problem)
  <2>1. ListsOnce(q, A)
    BY <1>1, TypedOnce
  <2> QED
    BY <1>1, <2>1 DEF Range
<1>4. from = k + 1
  OBVIOUS
<1> HIDE DEF q, k, from, A
<1>5. PICK B \in SUBSET A : ListsOnce(p, B) /\ ListsOnce(r, A \ B)
  BY <1>2, <1>3, <1>4, CutInTwo
<1>6. x = [b EXCEPT !.trips = p] /\ x.trips = p /\ y.trips = r
  BY DEF Block, q
<1>7. /\ p \in Seq(TripIds(problem)) /\ IsInjective(p) /\ Range(p) = B
      /\ r \in Seq(TripIds(problem)) /\ IsInjective(r) /\ Range(r) = A \ B
  <2>1. B \subseteq TripIds(problem) /\ A \ B \subseteq TripIds(problem)
    BY <1>3
  <2> HIDE DEF p, r
  <2> QED
    BY <1>5, <2>1, ListTyped DEF ListsOnce
<1>8. x \in Block /\ y \in Block
  <2>1. Runs(p) /\ Runs(r)
    BY <1>1, <1>2, <1>4, PartsRun
  <2> HIDE DEF p, r
  <2> QED
    BY <1>6, <1>7, <2>1 DEF Block
<1> HIDE DEF p, r, x, y
<1>9. Range(x.trips) \cap Range(y.trips) = {} /\ Range(x.trips) \cup Range(y.trips) = A
  BY <1>6, <1>7
<1>10. IsInjective(x.trips) /\ IsInjective(y.trips)
  BY <1>6, <1>7
<1>11. Holds(<<x, y>>, Range(x.trips) \cup Range(y.trips))
  BY <1>8, <1>9, <1>10, TwoHold
<1>12. Holds(<<x, y>>, A)
  BY <1>9, <1>11
<1> QED
  BY <1>12 DEF A, q, k, from, x, y, p, r

-------------------------------------------------------------------------------
(* Splitting blocks, one after another.                                        *)

(* What the splits work on: the plan's own blocks and the plans made so far.   *)
Splits(a, S) ==
    /\ a = [own |-> a.own, top |-> a.top, plans |-> a.plans] /\ a.top \in Nat
    /\ Holds(a.own, S)
    /\ IsList(a.plans) /\ \A p \in Range(a.plans) : Holds(p, S)

(* The block of new with the trips of b, if there is one. *)
NowIn(new, b) ==
    IF \E n \in Range(new) : n.trips = b.trips
    THEN CHOOSE n \in Range(new) : n.trips = b.trips ELSE b

LEMMA NowAlike ==
  ASSUME NEW new, NEW S, Holds(new, S), NEW b \in Block
  PROVE  NowIn(new, b) \in Block /\ NowIn(new, b).trips = b.trips
<1>1. \A n \in Range(new) : n \in Block
  BY HeldList DEF Range
<1> QED
  BY <1>1 DEF NowIn

LEMMA NowHolds ==
  ASSUME NEW new, NEW S, Holds(new, S), NEW s, Holds(s, S)
  PROVE  Holds([i \in DOMAIN s |-> NowIn(new, s[i])], S)
<1> DEFINE u == [i \in DOMAIN s |-> NowIn(new, s[i])]
<1>1. \A i \in DOMAIN s : s[i] \in Block
  BY HeldList
<1>2. \A i \in DOMAIN s : u[i] \in Block /\ u[i].trips = s[i].trips
  BY <1>1, NowAlike
<1>3. u = [i \in DOMAIN s |-> u[i]]
  OBVIOUS
<1> HIDE DEF u
<1>4. Holds(u, S)
  BY <1>2, <1>3, RelabelledHolds
<1> QED
  BY <1>4 DEF u

LEMMA SplitHolds ==
  ASSUME problem \in Problems, NEW a, NEW S, Splits(a, S), NEW id
  PROVE  Splits(SplitBlock(a, id), S)
<1> DEFINE next == a.top + 1
           two(b) == << [b EXCEPT !.trips = SubSeq(@, 1, SplitPoint(b.trips))],
                        [id |-> next, trips |-> SubSeq(b.trips, SplitPoint(b.trips) + 1, Len(b.trips))] >>
           Part(b) == IF b.id = id /\ Len(b.trips) >= 4 THEN two(b) ELSE <<b>>
           parts == [i \in DOMAIN a.own |-> Part(a.own[i])]
           new == Renumber(FlattenSeq(parts))
           f == [i \in DOMAIN a.own |-> Range(a.own[i].trips)]
           own == [i \in DOMAIN a.own |-> NowIn(new, a.own[i])]
           plans == Append(a.plans, new)
<1>1. Holds(a.own, S) /\ a.top \in Nat /\ next \in Nat /\ IsList(a.own)
  BY HeldList DEF Splits
<1>2. ASSUME NEW i \in DOMAIN a.own PROVE Holds(Part(a.own[i]), Range(a.own[i].trips))
  <2>1. a.own[i] \in Block /\ IsInjective(a.own[i].trips)
    BY <1>1, HeldList DEF Holds
  <2> DEFINE b == a.own[i]
  <2> HIDE DEF b, next
  <2>2. b \in Block /\ IsInjective(b.trips)
    BY <2>1 DEF b
  <2>3. Holds(<<b>>, Range(b.trips))
    BY <2>2, OneHolds
  <2>4. Len(b.trips) >= 4 => Holds(two(b), Range(b.trips))
    BY <1>1, <2>2, PartsHold
  <2> HIDE DEF two
  <2>5. Holds(Part(b), Range(b.trips))
    BY <2>3, <2>4
  <2> QED
    BY <2>5 DEF b
<1>3. SplitBlock(a, id) = IF Len(new) = Len(a.own) THEN a
                          ELSE [own |-> own, top |-> a.top, plans |-> plans]
  BY DEF SplitBlock, NowIn
<1>4. \A i \in DOMAIN a.own : parts[i] = Part(a.own[i]) /\ f[i] = Range(a.own[i].trips)
  OBVIOUS
<1>5. DOMAIN parts = DOMAIN a.own /\ parts = [i \in DOMAIN parts |-> parts[i]]
  OBVIOUS
<1> HIDE DEF Part, parts, f
<1>6. IsList(parts)
  BY <1>1, <1>5, ChangedPlaces
<1>7. \A i, j \in DOMAIN parts : i # j => f[i] \cap f[j] = {}
  <2> SUFFICES ASSUME NEW i \in DOMAIN parts, NEW j \in DOMAIN parts, i # j
               PROVE  f[i] \cap f[j] = {}
    OBVIOUS
  <2>1. i \in DOMAIN a.own /\ j \in DOMAIN a.own
    BY <1>5
  <2>2. Range(a.own[i].trips) \cap Range(a.own[j].trips) = {}
    BY <1>1, <2>1 DEF Holds
  <2> QED
    BY <1>4, <2>1, <2>2
<1>8. Holds(FlattenSeq(parts), UNION {f[i] : i \in DOMAIN parts})
  BY <1>2, <1>4, <1>5, <1>6, <1>7, FlatHolds
<1>9. UNION {f[i] : i \in DOMAIN parts} = S
  <2>1. {f[i] : i \in DOMAIN parts} = {Range(a.own[i].trips) : i \in DOMAIN a.own}
    BY <1>4, <1>5
  <2> QED
    BY <1>1, <2>1 DEF Holds, Driven
<1>10. Holds(new, S)
  BY <1>8, <1>9, RenumberedHolds
<1> HIDE DEF new
<1>11. Holds(own, S)
  BY <1>1, <1>10, NowHolds
<1>12. IsList(plans) /\ \A p \in Range(plans) : Holds(p, S)
  BY <1>10, AppendedList DEF Splits
<1> HIDE DEF own, plans
<1>13. Splits([own |-> own, top |-> a.top, plans |-> plans], S)
  BY <1>1, <1>11, <1>12 DEF Splits
<1> QED
  BY <1>3, <1>13

LEMMA SplitsHold ==
  ASSUME problem \in Problems, NEW a, NEW S, Splits(a, S), NEW ids, IsList(ids)
  PROVE  Splits(FoldLeft(SplitBlock, a, ids), S)
<1> DEFINE D == DOMAIN ids
           V == {v \in [own : Seq(Block), top : Nat, plans : Seq(Seq(Block))] : Splits(v, S)}
           After(v, k) == SplitBlock(v, ids[k])
           Once(g) == [s \in SUBSET D |-> IF s = {} THEN a ELSE After(g[Lower(s)], Max(s))]
           pick == [s \in SUBSET D |-> Max(s)]
           step == [x \in D \X V |-> After(x[2], x[1])]
           f == CHOOSE u : u = Once(u)
<1>1. IsFiniteSet(D) /\ D \subseteq Int
  <2>1. IsFiniteSet(D) /\ D = 1..Len(ids) /\ Len(ids) \in Nat
    BY ListDomain
  <2> QED
    BY <2>1
<1>2. \A v : Splits(v, S) => v \in V
  <2> SUFFICES ASSUME NEW v, Splits(v, S) PROVE v \in V
    OBVIOUS
  <2>1. v.own \in Seq(Block) /\ v.top \in Nat
    BY DEF Splits, Holds
  <2>2. Range(v.plans) \subseteq Seq(Block)
    BY DEF Splits, Holds
  <2>3. v.plans \in Seq(Seq(Block))
    BY <2>2, ListTyped DEF Splits
  <2>4. v = [own |-> v.own, top |-> v.top, plans |-> v.plans]
    BY DEF Splits
  <2>5. v \in [own : Seq(Block), top : Nat, plans : Seq(Seq(Block))]
    BY <2>1, <2>3, <2>4
  <2> QED
    BY <2>5
<1>3. \A v \in V : Splits(v, S)
  OBVIOUS
<1>4. a \in V /\ \A v \in V, k \in D : After(v, k) \in V
  <2> HIDE DEF V, D
  <2> QED
    BY <1>2, <1>3, SplitHolds
<1>5. FoldLeft(SplitBlock, a, ids) = f[D]
  BY DEF FoldLeft, MapThenFoldSet, Lower
<1> HIDE DEF V, After, D
<1>6. \A s \in SUBSET D : s # {} => Max(s) \in s /\ Lower(s) = s \ {Max(s)} /\ Lower(s) \in SUBSET D
  <2>1. \A s \in SUBSET D : s # {} => Max(s) \in s
    BY <1>1, HighestIs, FS_Subset
  <2> QED
    BY <2>1 DEF Lower
<1>7. PICK g \in [SUBSET D -> V] : FoldsTo(g, D, a, pick, step)
  <2>1. \A s \in SUBSET D : s # {} => pick[s] \in s
    BY <1>6
  <2>2. step \in [D \X V -> V]
    BY <1>4
  <2> HIDE DEF pick, step
  <2> QED
    BY <1>1, <1>4, <2>1, <2>2, FoldExists
<1>8. g = Once(g)
  <2>1. ASSUME NEW s \in SUBSET D PROVE g[s] = Once(g)[s]
    <3>1. CASE s = {}
      BY <1>7, <3>1 DEF FoldsTo
    <3>2. CASE s # {}
      <4>1. g[s] = step[<<pick[s], g[s \ {pick[s]}]>>] /\ pick[s] = Max(s)
        BY <1>7, <3>2 DEF FoldsTo
      <4>2. Max(s) \in D /\ g[Lower(s)] \in V /\ Lower(s) = s \ {Max(s)}
        BY <1>6, <1>7, <3>2
      <4>3. step[<<Max(s), g[Lower(s)]>>] = After(g[Lower(s)], Max(s))
        BY <4>2
      <4> HIDE DEF step, pick
      <4> QED
        BY <3>2, <4>1, <4>2, <4>3
    <3> QED
      BY <3>1, <3>2
  <2>2. g = [s \in SUBSET D |-> g[s]] /\ Once(g) = [s \in SUBSET D |-> Once(g)[s]]
    BY <1>7
  <2> HIDE DEF Once
  <2> QED
    BY <2>1, <2>2
<1>9. f = Once(f)
  BY <1>8
<1> HIDE DEF f
<1> DEFINE Fine == {s \in SUBSET D : f[s] \in V}
<1>10. {} \in Fine
  BY <1>4, <1>9
<1>11. ASSUME NEW T \in SUBSET D, T # {}, \A x \in T : T \ {x} \in Fine PROVE T \in Fine
  <2>1. Max(T) \in D /\ f[Lower(T)] \in V
    BY <1>6, <1>11
  <2>2. f[T] = After(f[Lower(T)], Max(T))
    BY <1>9, <1>11
  <2> QED
    BY <1>4, <2>1, <2>2
<1>12. D \in Fine
  <2> HIDE DEF Fine
  <2>1. \A T \in SUBSET D : T \in Fine
    BY <1>1, <1>10, <1>11, SubsetInduction
  <2> QED
    BY <2>1
<1> QED
  BY <1>3, <1>5, <1>12

-------------------------------------------------------------------------------
(* The invariant.                                                              *)

(* The trips the given plan drives; each of them is a trip of the problem.     *)
Given == Driven(plan.blocks)

(* The given plan, whose trips without a vehicle a plan leaves out as well,    *)
(* or which leaves out none.                                                   *)
GivenPlan ==
    /\ problem \in Problems
    /\ Holds(plan.blocks, Given) /\ Filled(plan.blocks) /\ NamedApart(plan.blocks)
    /\ plan.left = problem.left
Without == {plan.left, {}}

Fields == {"phase", "blocks", "left", "crew", "refs"}
NotWorse(b) ==
    /\ b.crew.violations <= problem.crew.violations
    /\ Cardinality(b.left) <= Cardinality(plan.left)
    /\ prm.hardPairs => b.crew.split <= problem.crew.split

(* The best plan so far: a crew plan the solver gave, for the given trips.     *)
(* The crew plan names the plan's blocks, and they have numbers of their own,  *)
(* unless a search gave them theirs or the feedback round took the plan, for   *)
(* its violations, and numbered its blocks anew.                               *)
Chosen(b) ==
    /\ DOMAIN b = Fields /\ b.crew \in Crews \cup {problem.crew}
    /\ b.left \in Without /\ Holds(b.blocks, Given) /\ NotWorse(b)
    /\ \/ b.refs = b.blocks /\ (b.phase \notin {"lns", "feedback"} => NamedApart(b.blocks))
       \/ b.crew.violations > 0 /\ b.phase # "feedback"

(* The candidates.                                                             *)
Proposed(cs) ==
    IsList(cs) /\ \A c \in Range(cs) :
        /\ c.left \in Without /\ Holds(c.blocks, Given)
        /\ c.phase \notin {"lns", "feedback"} => NamedApart(c.blocks)

(* What the feedback round makes is neither proposed nor chosen before it.     *)
NoFeedbackYet(stg, b, cs) ==
    stg \notin {"feedback", "done"} =>
        b.phase # "feedback" /\ \A c \in Range(cs) : c.phase # "feedback"

(* The trips to insert and the blocks under repair make up the given trips.    *)
Repairing(out, wk) ==
    \E G \in SUBSET Given : ListsOnce(out, G) /\ Holds(wk, Given \ G) /\ Filled(wk)

(* What is at work, stage by stage. *)
LnsFields == {"blocks", "left", "violations", "out"}
Working(stg, wk, l) ==
    /\ DOMAIN l = LnsFields /\ l.left \in Without
    /\ stg \in {"merge", "swap"} => Holds(wk, Given) /\ Filled(wk)
    /\ stg = "swap" => NamedApart(wk)
    /\ stg \in {"destroy", "repair"} => Holds(l.blocks, Given) /\ Filled(l.blocks)
    /\ stg = "repair" => Repairing(l.out, wk)

JointInv ==
    /\ GivenPlan /\ Chosen(best) /\ Proposed(cands) /\ Working(stage, work, lns)
    /\ NoFeedbackYet(stage, best, cands)

(* What blocks there are follows from the problem and the given plan. *)
LEMMA BlocksStay ==
  ASSUME UNCHANGED <<problem, plan>>
  PROVE  Block' = Block
<1>1. problem' = problem /\ plan' = plan
  OBVIOUS
<1>2. \A q : Lines(q)' = Lines(q)
  BY <1>1 DEF Lines, Trip
<1>3. \A q : Chain(problem, View, q)' = Chain(problem, View, q)
  BY <1>1 DEF Chain, View, prm, IsConnectionFeasible, TripGap, Deadhead
<1>4. \A q : SpanOk(q)' = SpanOk(q)
  BY <1>1 DEF SpanOk, prm, SpreadOf
<1>5. \A q : Feasible(q)' = Feasible(q)
  BY <1>1, <1>2, <1>3, <1>4 DEF Feasible, prm
<1>6. GivenDrivable' = GivenDrivable
  BY <1>1, <1>5 DEF GivenDrivable, Trip
<1>7. \A q : Runs(q)' = Runs(q)
  BY <1>5, <1>6 DEF Runs
<1> QED
  BY <1>1, <1>7 DEF Block

(* A step that leaves the problem and the given plan alone. *)
LEMMA StepKeeps ==
  ASSUME JointInv, UNCHANGED <<problem, plan>>,
         Chosen(best'), Proposed(cands'), Working(stage', work', lns'),
         NoFeedbackYet(stage', best', cands')
  PROVE  JointInv'
<1>0. Block' = Block
  BY BlocksStay
<1>1. problem' = problem /\ plan' = plan
  OBVIOUS
<1>2. GivenPlan'
  BY <1>0, <1>1 DEF JointInv, GivenPlan, Given, Holds, Filled, NamedApart, Driven
<1>3. Chosen(best)'
  <2>1. (Holds(best.blocks, Given) /\ NotWorse(best))'
    BY <1>0, <1>1 DEF Chosen, NotWorse, prm, Given, Holds, Driven
  <2>2. (DOMAIN best = Fields /\ best.crew \in Crews \cup {problem.crew} /\ best.left \in Without)'
    BY <1>1 DEF Chosen, Fields, Without
  <2>3. (\/ best.refs = best.blocks
           /\ (best.phase \notin {"lns", "feedback"} => NamedApart(best.blocks))
         \/ best.crew.violations > 0 /\ best.phase # "feedback")'
    BY DEF Chosen, NamedApart
  <2> QED
    BY <2>1, <2>2, <2>3 DEF Chosen
<1>4. Proposed(cands)'
  <2>1. \A b : Holds(b, Given) <=> Holds(b, Given)'
    BY <1>0, <1>1 DEF Given, Holds, Driven
  <2>2. Without' = Without
    BY <1>1 DEF Without
  <2>3. ASSUME NEW c \in Range(cands')
        PROVE  /\ c.left \in Without' /\ Holds(c.blocks, Given)'
               /\ c.phase \notin {"lns", "feedback"} => NamedApart(c.blocks)
    BY <2>1, <2>2 DEF Proposed
  <2> QED
    BY <2>3 DEF Proposed, NamedApart
<1>5. Working(stage, work, lns)'
  <2>1. (DOMAIN lns = LnsFields /\ lns.left \in Without)'
    BY <1>0, <1>1 DEF Working, Without, LnsFields
  <2>2. (stage \in {"merge", "swap"} => Holds(work, Given) /\ Filled(work))'
    BY <1>0, <1>1 DEF Working, Given, Holds, Filled, Driven
  <2>3. (stage = "swap" => NamedApart(work))'
    BY <1>0, <1>1 DEF Working, NamedApart
  <2>4. (stage \in {"destroy", "repair"} => Holds(lns.blocks, Given) /\ Filled(lns.blocks))'
    BY <1>0, <1>1 DEF Working, Given, Holds, Filled, Driven
  <2>5. (stage = "repair" => Repairing(lns.out, work))'
    <3> SUFFICES ASSUME stage' = "repair" PROVE Repairing(lns.out, work)'
      OBVIOUS
    <3>1. Repairing(lns'.out, work')
      BY DEF Working
    <3>2. PICK G \in SUBSET Given : ListsOnce(lns'.out, G) /\ Holds(work', Given \ G) /\ Filled(work')
      BY <3>1 DEF Repairing
    <3>3. G \in SUBSET Given'
      BY <1>0, <1>1 DEF Given, Driven
    <3>4. Holds(work, Given \ G)'
      BY <1>0, <1>1, <3>2 DEF Given, Holds, Driven
    <3>5. Filled(work)' /\ ListsOnce(lns'.out, G)
      BY <3>2 DEF Filled
    <3> QED
      BY <3>3, <3>4, <3>5 DEF Repairing
  <2> QED
    BY <2>1, <2>2, <2>3, <2>4, <2>5 DEF Working
<1>6. NoFeedbackYet(stage, best, cands)'
  BY DEF NoFeedbackYet
<1> QED
  BY <1>2, <1>3, <1>4, <1>5, <1>6 DEF JointInv

LEMMA GivenTrips ==
  ASSUME GivenPlan
  PROVE  Given \subseteq TripIds(problem)
<1>1. \A i \in DOMAIN plan.blocks : plan.blocks[i].trips \in Seq(TripIds(problem))
  BY HeldList DEF GivenPlan
<1>2. \A q \in Seq(TripIds(problem)) : Range(q) \subseteq TripIds(problem)
  BY DEF Range
<1> QED
  BY <1>1, <1>2 DEF Given, Driven

(* What counts: vehicles' trips left out, violations and split groups. *)
LEMMA CountsLeft ==
  ASSUME GivenPlan, NEW S \in Without
  PROVE  Cardinality(S) \in Nat /\ Cardinality(plan.left) \in Nat
<1>1. IsFiniteSet(plan.left)
  BY ProblemsAssumption DEF GivenPlan
<1> QED
  BY <1>1, FS_EmptySet, FS_CardinalityType DEF Without

LEMMA CrewCounts ==
  ASSUME GivenPlan, NEW c \in Crews \cup {problem.crew}
  PROVE  c.violations \in Nat /\ c.split \in Nat
BY ProblemsAssumption, CrewsAssumption DEF GivenPlan

(* What replaces the best is no worse than the given plan. *)
LEMMA BetterIsNoWorse ==
  ASSUME GivenPlan, Chosen(best), NEW p, p.left \in Without, p.crew \in Crews, IsBetter(best, p)
  PROVE  NotWorse(p)
<1>1. /\ Cardinality(p.left) <= Cardinality(best.left)
      /\ p.crew.violations <= best.crew.violations
      /\ prm.hardPairs => p.crew.split <= best.crew.split
  BY DEF IsBetter
<1>2. /\ best.crew.violations <= problem.crew.violations
      /\ Cardinality(best.left) <= Cardinality(plan.left)
      /\ prm.hardPairs => best.crew.split <= problem.crew.split
  BY DEF Chosen, NotWorse
<1>3. best.left \in Without /\ best.crew \in Crews \cup {problem.crew}
  BY DEF Chosen
<1>4. /\ Cardinality(p.left) \in Nat /\ Cardinality(best.left) \in Nat
      /\ Cardinality(plan.left) \in Nat
  BY <1>3, CountsLeft
<1>5. /\ p.crew.violations \in Nat /\ p.crew.split \in Nat
      /\ best.crew.violations \in Nat /\ best.crew.split \in Nat
      /\ problem.crew.violations \in Nat /\ problem.crew.split \in Nat
  BY <1>3, CrewCounts
<1>6. p.crew.violations <= problem.crew.violations
  BY <1>1, <1>2, <1>5
<1>7. Cardinality(p.left) <= Cardinality(plan.left)
  BY <1>1, <1>2, <1>4
<1>8. ASSUME prm.hardPairs PROVE p.crew.split <= problem.crew.split
  <2>1. p.crew.split <= best.crew.split /\ best.crew.split <= problem.crew.split
    BY <1>1, <1>2, <1>8
  <2> QED
    BY <1>5, <2>1
<1> QED
  BY <1>6, <1>7, <1>8 DEF NotWorse

LEMMA GivenIsChosen ==
  ASSUME GivenPlan
  PROVE  Chosen(Plan([phase |-> "given", blocks |-> plan.blocks, left |-> plan.left], problem.crew))
<1> DEFINE p == Plan([phase |-> "given", blocks |-> plan.blocks, left |-> plan.left], problem.crew)
<1>1. /\ DOMAIN p = Fields /\ p.crew = problem.crew /\ p.left = plan.left /\ p.blocks = plan.blocks
      /\ p.refs = p.blocks
  BY DEF Plan, Fields
<1> HIDE DEF p
<1>2. /\ Cardinality(plan.left) \in Nat
      /\ problem.crew.violations \in Nat /\ problem.crew.split \in Nat
  BY CountsLeft, CrewCounts DEF Without
<1>3. NotWorse(p)
  BY <1>1, <1>2 DEF NotWorse
<1>4. Chosen(p)
  BY <1>1, <1>3 DEF Chosen, Without, GivenPlan
<1> QED
  BY <1>4 DEF p

LEMMA NothingProposed == Proposed(<<>>)
BY DEF Proposed, IsList, Range

LEMMA JointStarts == Init => JointInv
<1> SUFFICES ASSUME Init PROVE JointInv
  OBVIOUS
<1> DEFINE blocks == problem.blocks
           given == [i \in DOMAIN blocks |-> [id |-> 0, trips |-> blocks[i]]]
           T == TripIds(problem)
<1>1. problem \in Problems /\ IsFiniteSet(problem.left)
  BY ProblemsAssumption DEF Init
<1>2. /\ blocks \in Seq(Seq(T) \ {<<>>}) /\ Len(blocks) \in Nat /\ DOMAIN blocks = 1..Len(blocks)
      /\ \A i \in DOMAIN blocks : blocks[i] \in Seq(T) /\ blocks[i] # <<>>
      /\ \A i, j \in DOMAIN blocks : \A k \in DOMAIN blocks[i], l \in DOMAIN blocks[j] :
            blocks[i][k] = blocks[j][l] => i = j /\ k = l
  <2>1. blocks \in Seq(Seq(T) \ {<<>>})
    BY <1>1, ProblemsAssumption
  <2>2. \A i, j \in DOMAIN blocks : \A k \in DOMAIN blocks[i], l \in DOMAIN blocks[j] :
            blocks[i][k] = blocks[j][l] => i = j /\ k = l
    BY <1>1, ProblemsAssumption
  <2> HIDE DEF T, blocks
  <2> QED
    BY <2>1, <2>2
<1>3. /\ DOMAIN given = DOMAIN blocks /\ given = [i \in DOMAIN given |-> given[i]]
      /\ \A i \in DOMAIN blocks : given[i] \in Block /\ given[i].trips = blocks[i]
  <2>1. ASSUME NEW i \in DOMAIN blocks PROVE Runs(blocks[i])
    <3>1. plan.blocks[i].trips = blocks[i] /\ i \in DOMAIN plan.blocks
      BY DEF Init, Numbered
    <3>2. plan.blocks[i] \in Range(plan.blocks)
      BY <3>1 DEF Range
    <3> QED
      BY <3>1, <3>2 DEF Runs, GivenDrivable
  <2> QED
    BY <1>2, <2>1 DEF Block
<1> HIDE DEF given, blocks, T
<1>4. given \in Seq(Block)
  <2>1. given \in [1..Len(blocks) -> Block]
    BY <1>2, <1>3
  <2>2. Len(blocks) \in Nat
    BY <1>2
  <2> QED
    BY ONLY <2>1, <2>2
<1>5. Holds(given, Driven(given)) /\ Filled(given)
  <2>1. \A i \in DOMAIN given : IsInjective(given[i].trips)
    BY <1>2, <1>3 DEF IsInjective
  <2>2. \A i, j \in DOMAIN given : i # j => Range(given[i].trips) \cap Range(given[j].trips) = {}
    <3> SUFFICES ASSUME NEW i \in DOMAIN given, NEW j \in DOMAIN given, i # j,
                        NEW x \in Range(given[i].trips), x \in Range(given[j].trips)
                 PROVE  FALSE
      OBVIOUS
    <3>1. PICK k \in DOMAIN blocks[i] : blocks[i][k] = x
      BY <1>3 DEF Range
    <3>2. PICK l \in DOMAIN blocks[j] : blocks[j][l] = x
      BY <1>3 DEF Range
    <3> QED
      BY <1>2, <1>3, <3>1, <3>2
  <2>3. Filled(given)
    BY <1>2, <1>3 DEF Filled
  <2> QED
    BY <1>4, <2>1, <2>2, <2>3 DEF Holds
<1>6. plan.blocks = Numbered(given) /\ plan.left = problem.left
  BY DEF Init, given, blocks
<1>7. /\ Holds(plan.blocks, Driven(given)) /\ Filled(plan.blocks) /\ NamedApart(plan.blocks)
  BY <1>5, <1>6, NumberedHolds
<1>8. Given = Driven(given)
  BY <1>7 DEF Holds, Given
<1>9. GivenPlan
  BY <1>1, <1>6, <1>7, <1>8 DEF GivenPlan
<1>10. Chosen(best)
  BY <1>9, GivenIsChosen DEF Init
<1>11. Proposed(cands)
  BY NothingProposed DEF Init
<1>12. Holds(work, Given) /\ Filled(work)
  <2>1. work = ByStart(plan.blocks, FALSE)
    BY DEF Init
  <2> QED
    BY <1>9, <2>1, SortedHolds DEF GivenPlan
<1>13. stage = "merge" /\ lns.left = {} /\ DOMAIN lns = LnsFields
  BY DEF Init, LnsFields
<1>14. Working(stage, work, lns)
  BY <1>12, <1>13 DEF Working, Without
<1>15. NoFeedbackYet(stage, best, cands)
  <2>1. best.phase = "given" /\ cands = <<>>
    BY DEF Init, Plan
  <2> QED
    BY <2>1 DEF NoFeedbackYet, Range
<1> QED
  BY <1>9, <1>10, <1>11, <1>14, <1>15 DEF JointInv

-------------------------------------------------------------------------------
(* Merging and swapping.                                                       *)

LEMMA MergeKeeps == JointInv /\ MergeBlocks => JointInv'
<1> SUFFICES ASSUME JointInv, MergeBlocks PROVE JointInv'
  OBVIOUS
<1> DEFINE i == CHOOSE i \in Joins(work) : \A j \in Joins(work) : i <= j
           longer == [work EXCEPT ![i].trips = @ \o work[i + 1].trips]
           next == i + 1
<1>1. UNCHANGED <<problem, plan, best, cands, lns, stage>> /\ stage = "merge"
  BY DEF MergeBlocks, Going
<1>2. Holds(work, Given) /\ Filled(work)
  BY <1>1 DEF JointInv, Working
<1>3. Len(work) \in Nat /\ DOMAIN work = 1..Len(work)
  BY <1>2, HeldList
<1>4. i \in 1..(Len(work) - 1) /\ Feasible(work[i].trips \o work[next].trips)
  <2>1. Joins(work) # {} /\ Joins(work) \subseteq 1..(Len(work) - 1)
    BY DEF MergeBlocks, Joins
  <2>2. Joins(work) \subseteq Nat
    BY <1>3, <2>1
  <2>3. \E k \in Joins(work) : \A j \in Joins(work) : k <= j
    BY <2>1, <2>2, LowestIs
  <2>4. i \in Joins(work)
    BY <2>3
  <2>5. Feasible(work[i].trips \o work[i + 1].trips)
    BY <2>4 DEF Joins
  <2> QED
    BY <2>1, <2>4, <2>5
<1>5. work' = RemoveAt(longer, next)
  BY DEF MergeBlocks
<1> HIDE DEF i
<1>6. /\ i \in DOMAIN work /\ next \in DOMAIN work /\ next = i + 1
      /\ Runs(work[i].trips \o work[next].trips)
  BY <1>3, <1>4 DEF Runs
<1>7. longer = [work EXCEPT ![i].trips = @ \o work[next].trips]
  OBVIOUS
<1> HIDE DEF longer, next
<1>8. Holds(work', Given) /\ Filled(work')
  BY <1>2, <1>5, <1>6, <1>7, MergedHolds
<1>9. Working(stage', work', lns')
  BY <1>1, <1>8 DEF JointInv, Working
<1> QED
  BY <1>1, <1>9, StepKeeps DEF JointInv, NoFeedbackYet

LEMMA MergesEndKeeps == JointInv /\ MergesEnd => JointInv'
<1> SUFFICES ASSUME JointInv, MergesEnd PROVE JointInv'
  OBVIOUS
<1> DEFINE merged == IF Len(work) < Len(plan.blocks) THEN Numbered(work) ELSE plan.blocks
<1>1. UNCHANGED <<problem, plan, best, cands, lns>> /\ stage = "merge" /\ stage' = "swap"
  BY DEF MergesEnd, Going
<1>2. Holds(work, Given) /\ Filled(work)
  BY <1>1 DEF JointInv, Working
<1>3. Holds(merged, Given) /\ Filled(merged) /\ NamedApart(merged)
  BY <1>2, NumberedHolds DEF JointInv, GivenPlan
<1>4. work' = ByStart(merged, FALSE) /\ problem \in Problems
  BY DEF MergesEnd, JointInv, GivenPlan
<1> HIDE DEF merged
<1>5. Holds(work', Given) /\ Filled(work') /\ NamedApart(work')
  BY <1>3, <1>4, SortedHolds
<1>6. Working(stage', work', lns')
  BY <1>1, <1>5 DEF JointInv, Working
<1> QED
  BY <1>1, <1>6, StepKeeps DEF JointInv, NoFeedbackYet

LEMMA SwapKeeps == JointInv /\ SwapPass => JointInv'
<1> SUFFICES ASSUME JointInv, SwapPass PROVE JointInv'
  OBVIOUS
<1> DEFINE after == FoldLeft(Swapped, work, PairsOf(Len(work)))
<1>1. UNCHANGED <<problem, plan, best, cands, lns, stage>> /\ stage = "swap"
  BY DEF SwapPass, Going
<1>2. Holds(work, Given) /\ problem \in Problems
  BY <1>1 DEF JointInv, Working, GivenPlan
<1>3. Len(work) \in Nat /\ DOMAIN work = 1..Len(work)
  BY <1>2, HeldList
<1>4. Holds(after, Given)
  BY <1>2, <1>3, PairsListed, PassHolds
<1>5. work' = Numbered(NoEmpty(after))
  BY DEF SwapPass
<1> HIDE DEF after
<1>6. Holds(work', Given) /\ Filled(work') /\ NamedApart(work')
  BY <1>4, <1>5, NoEmptyHolds, NumberedHolds
<1>7. Working(stage', work', lns')
  BY <1>1, <1>6 DEF JointInv, Working
<1> QED
  BY <1>1, <1>7, StepKeeps DEF JointInv, NoFeedbackYet

-------------------------------------------------------------------------------
(* Proposing candidates.                                                       *)

(* The swapped or merged plan is a seed like the given plan, and one at most.  *)
LEMMA BaseHolds ==
  ASSUME JointInv, stage = "swap"
  PROVE  /\ \A b \in BasePlan : Holds(b, Given) /\ Filled(b) /\ NamedApart(b)
         /\ BasePlan = {} \/ \E b : BasePlan = {b}
<1>1. Holds(work, Given) /\ Filled(work) /\ NamedApart(work) /\ problem \in Problems
  BY DEF JointInv, Working, GivenPlan
<1>2. Holds(Renumber(work), Given) /\ Filled(Renumber(work)) /\ NamedApart(Renumber(work))
  BY <1>1, RenumberedHolds
<1> QED
  BY <1>1, <1>2 DEF BasePlan

(* What is made from two seeds. *)
LEMMA BothMade ==
  ASSUME NEW n \in Nat \ {0}, NEW S, NEW M, NEW N, NEW s, NEW t,
         Makes(M, n, s, S), Makes(N, n, t, S), s[1] # t[1]
  PROVE  Keyed(M \cup N, n) /\ \A c \in M \cup N : Numbers(c.blocks, S)
<1>1. /\ IsFiniteSet(M) /\ IsFiniteSet(N)
      /\ \A c \in M \cup N : c.key \in [1..n -> Int] /\ Numbers(c.blocks, S)
      /\ \A c \in M : c.key[n] = s[1]
      /\ \A c \in N : c.key[n] = t[1]
  BY DEF Makes, Keyed
<1>2. IsFiniteSet(M \cup N)
  BY <1>1, FS_Union
<1>3. ASSUME NEW c \in M \cup N, NEW d \in M \cup N, c.key = d.key PROVE c = d
  <2>1. c \in M /\ d \in N => c.key[n] # d.key[n]
    BY <1>1
  <2>2. c \in N /\ d \in M => c.key[n] # d.key[n]
    BY <1>1
  <2>3. (c \in M /\ d \in M) \/ (c \in N /\ d \in N)
    BY <1>3, <2>1, <2>2
  <2> QED
    BY <1>3, <2>3 DEF Makes, Keyed
<1> QED
  BY <1>1, <1>2, <1>3 DEF Keyed

LEMMA SeedsMake ==
  ASSUME JointInv, stage = "swap"
  PROVE  LET T == UNION {Tails(s) : s \in Seeds}
             P == UNION {PairRepairs(s) : s \in Seeds}
         IN  /\ Keyed(T, 5) /\ \A c \in T : Numbers(c.blocks, Given)
             /\ Keyed(P, 4) /\ \A c \in P : Numbers(c.blocks, Given)
<1> DEFINE s == <<1, plan.blocks>>
           T == UNION {Tails(x) : x \in Seeds}
           P == UNION {PairRepairs(x) : x \in Seeds}
<1>1. problem \in Problems /\ Seed(s, Given)
  BY DEF JointInv, GivenPlan, Seed
<1>2. Makes(Tails(s), 5, s, Given) /\ Makes(PairRepairs(s), 4, s, Given)
  <2> HIDE DEF s
  <2> QED
    BY <1>1, TailsMade, RepairsMade
<1>3. ASSUME BasePlan = {} PROVE /\ Keyed(T, 5) /\ \A c \in T : Numbers(c.blocks, Given)
                                 /\ Keyed(P, 4) /\ \A c \in P : Numbers(c.blocks, Given)
  <2>1. Seeds = {s}
    BY <1>3 DEF Seeds
  <2> HIDE DEF s
  <2>2. T = Tails(s) /\ P = PairRepairs(s)
    BY <2>1
  <2> QED
    BY <1>2, <2>2 DEF Makes
<1>4. ASSUME NEW b, BasePlan = {b} PROVE /\ Keyed(T, 5) /\ \A c \in T : Numbers(c.blocks, Given)
                                         /\ Keyed(P, 4) /\ \A c \in P : Numbers(c.blocks, Given)
  <2> DEFINE t == <<2, b>>
  <2>1. Seeds = {s, t}
    BY <1>4 DEF Seeds
  <2>2. Holds(b, Given) /\ Filled(b) /\ NamedApart(b)
    BY <1>4, BaseHolds
  <2>3. Seed(t, Given) /\ s[1] # t[1]
    BY <2>2 DEF Seed
  <2> HIDE DEF s, t
  <2>4. Makes(Tails(t), 5, t, Given) /\ Makes(PairRepairs(t), 4, t, Given)
    BY <1>1, <2>3, TailsMade, RepairsMade
  <2>5. T = Tails(s) \cup Tails(t) /\ P = PairRepairs(s) \cup PairRepairs(t)
    BY <2>1
  <2> HIDE DEF T, P
  <2>6. Keyed(T, 5) /\ \A c \in T : Numbers(c.blocks, Given)
    <3>1. 5 \in Nat \ {0}
      OBVIOUS
    <3> QED
      BY ONLY <1>2, <2>3, <2>4, <2>5, <3>1, BothMade
  <2>7. Keyed(P, 4) /\ \A c \in P : Numbers(c.blocks, Given)
    <3>1. 4 \in Nat \ {0}
      OBVIOUS
    <3> QED
      BY ONLY <1>2, <2>3, <2>4, <2>5, <3>1, BothMade
  <2> QED
    BY <2>6, <2>7
<1> HIDE DEF T, P
<1>5. /\ Keyed(T, 5) /\ \A c \in T : Numbers(c.blocks, Given)
      /\ Keyed(P, 4) /\ \A c \in P : Numbers(c.blocks, Given)
  <2>1. BasePlan = {} \/ \E b : BasePlan = {b}
    BY BaseHolds
  <2>2. CASE \E b : BasePlan = {b}
    <3>1. PICK b : BasePlan = {b}
      BY <2>2
    <3> QED
      BY <1>4, <3>1
  <2> QED
    BY <1>3, <2>1, <2>2
<1> QED
  BY <1>5 DEF T, P

(* The first of the plans made are candidates. *)
LEMMA FirstProposed ==
  ASSUME NEW n \in Nat, NEW M, Keyed(M, n), \A c \in M : Numbers(c.blocks, Given), NEW phase
  PROVE  Proposed(FirstOf(M, phase)) /\ \A c \in Range(FirstOf(M, phase)) : c.phase = phase
<1>1. /\ IsList(FirstOf(M, phase))
      /\ \A x \in Range(FirstOf(M, phase)) : \E c \in M : x = Candidate(phase, c.blocks)
  BY FirstListed
<1>2. \A c \in M : /\ Candidate(phase, c.blocks).blocks = c.blocks
                   /\ Candidate(phase, c.blocks).left \in Without
                   /\ Candidate(phase, c.blocks).phase = phase
  BY DEF Candidate, Without
<1> QED
  BY <1>1, <1>2 DEF Proposed, Numbers

LEMMA BothProposed ==
  ASSUME NEW s, Proposed(s), NEW t, Proposed(t)
  PROVE  Proposed(s \o t)
BY JoinedLists DEF Proposed

LEMMA ProposeKeeps == JointInv /\ Propose => JointInv'
<1> SUFFICES ASSUME JointInv, Propose PROVE JointInv'
  OBVIOUS
<1> DEFINE B == {Candidate("swap", b) : b \in BasePlan}
           T == UNION {Tails(s) : s \in Seeds}
           P == UNION {PairRepairs(s) : s \in Seeds}
           swaps == SetToSeq(B)
           tails == FirstOf(T, "tail")
           pairs == FirstOf(P, "pair")
           repairs == IF prm.keepPairs THEN pairs ELSE <<>>
<1>1. UNCHANGED <<problem, plan, best, work>> /\ stage = "swap"
  BY DEF Propose, Going
<1>2. cands' = swaps \o tails \o repairs
  BY DEF Propose
<1>3. Proposed(swaps) /\ \A c \in Range(swaps) : c.phase = "swap"
  <2>1. IsFiniteSet(B)
    <3>1. BasePlan = {} \/ \E b : BasePlan = {b}
      BY <1>1, BaseHolds
    <3>2. B = {} \/ \E x : B = {x}
      BY <3>1
    <3> HIDE DEF B
    <3> QED
      BY <3>2, FS_EmptySet, FS_Singleton
  <2>2. \A x \in B : /\ x.left \in Without /\ Holds(x.blocks, Given)
                     /\ NamedApart(x.blocks) /\ x.phase = "swap"
    <3>1. \A b \in BasePlan : Holds(b, Given) /\ NamedApart(b)
      BY <1>1, BaseHolds
    <3>2. \A b : /\ Candidate("swap", b).blocks = b
                 /\ Candidate("swap", b).left \in Without
                 /\ Candidate("swap", b).phase = "swap"
      BY DEF Candidate, Without
    <3> QED
      BY <3>1, <3>2
  <2> HIDE DEF B
  <2>3. IsList(swaps) /\ Range(swaps) \subseteq B
    BY <2>1, SetListed
  <2> QED
    BY <2>2, <2>3 DEF Proposed
<1>4. /\ Keyed(T, 5) /\ \A c \in T : Numbers(c.blocks, Given)
      /\ Keyed(P, 4) /\ \A c \in P : Numbers(c.blocks, Given)
  BY <1>1, SeedsMake
<1> HIDE DEF T, P, swaps
<1>5. /\ Proposed(tails) /\ \A c \in Range(tails) : c.phase = "tail"
      /\ Proposed(pairs) /\ \A c \in Range(pairs) : c.phase = "pair"
  BY <1>4, FirstProposed
<1> HIDE DEF tails, pairs
<1>6. Proposed(repairs) /\ \A c \in Range(repairs) : c.phase = "pair"
  <2>1. Range(<<>>) = {}
    BY DEF Range
  <2> QED
    BY <1>5, <2>1, NothingProposed
<1> HIDE DEF repairs
<1>7. Proposed(cands')
  <2>1. Proposed(swaps \o tails)
    BY <1>3, <1>5, BothProposed
  <2>2. Proposed((swaps \o tails) \o repairs)
    BY <1>6, <2>1, BothProposed
  <2> QED
    BY <1>2, <2>2
<1>8. Working(stage', work', lns')
  <2>1. CASE stage' = "judge" /\ lns' = lns
    BY <2>1 DEF JointInv, Working
  <2>2. ASSUME stage' = "destroy", lns'.blocks = plan.blocks, lns'.left = plan.left,
               DOMAIN lns' = LnsFields
        PROVE  Working(stage', work', lns')
    BY <2>2 DEF JointInv, Working, GivenPlan, Without
  <2>3. \/ stage' = "judge" /\ lns' = lns
        \/ /\ stage' = "destroy" /\ lns'.blocks = plan.blocks /\ lns'.left = plan.left
           /\ DOMAIN lns' = LnsFields
    BY DEF Propose, LnsFields
  <2> QED
    BY <2>1, <2>2, <2>3
<1>9. \A c \in Range(cands') : c.phase # "feedback"
  <2>1. IsList(swaps) /\ IsList(tails) /\ IsList(repairs)
    BY <1>3, <1>5, <1>6 DEF Proposed
  <2>2. IsList(swaps \o tails) /\ Range(swaps \o tails) = Range(swaps) \cup Range(tails)
    BY <2>1, JoinedLists
  <2>3. Range((swaps \o tails) \o repairs) = Range(swaps \o tails) \cup Range(repairs)
    BY <2>1, <2>2, JoinedLists
  <2> QED
    BY <1>2, <1>3, <1>5, <1>6, <2>2, <2>3
<1>10. NoFeedbackYet(stage', best', cands')
  BY <1>1, <1>9 DEF JointInv, NoFeedbackYet
<1> QED
  BY <1>1, <1>7, <1>8, <1>10, StepKeeps DEF JointInv

-------------------------------------------------------------------------------
(* The neighbourhood search.                                                   *)

LEMMA DestroyKeeps == JointInv /\ Destroy => JointInv'
<1> SUFFICES ASSUME JointInv, Destroy PROVE JointInv'
  OBVIOUS
<1> DEFINE s == lns.blocks
<1>1. UNCHANGED <<problem, plan, best, cands>> /\ stage = "destroy" /\ stage' = "repair"
  BY DEF Destroy, Going
<1>2. Holds(s, Given) /\ Filled(s)
  BY <1>1 DEF JointInv, Working
<1>3. PICK D : LET gone == {b \in Range(s) : \E i \in D : s[i].id = b.id}
               IN  /\ work' = Picked(s, {i \in DOMAIN s : s[i] \notin gone})
                   /\ lns' = [lns EXCEPT !.out = ByTime(UNION {Range(b.trips) : b \in gone})]
  BY DEF Destroy
<1> DEFINE gone == {b \in Range(s) : \E i \in D : s[i].id = b.id}
           I == {i \in DOMAIN s : s[i] \notin gone}
           G == UNION {Range(b.trips) : b \in gone}
           out == ByTime(G)
<1>4. work' = Picked(s, I) /\ lns' = [lns EXCEPT !.out = out]
  BY <1>3
<1>5. I \subseteq DOMAIN s /\ \A x : x \in G <=> \E i \in DOMAIN s \ I : x \in Range(s[i].trips)
  <2>1. I \subseteq DOMAIN s /\ \A i \in DOMAIN s : i \notin I <=> s[i] \in gone
    OBVIOUS
  <2>2. \A b \in gone : \E i \in DOMAIN s : b = s[i]
    BY DEF Range
  <2> HIDE DEF gone, I
  <2> QED
    BY <2>1, <2>2
<1> HIDE DEF I, G
<1>6. Holds(work', Given \ G) /\ Filled(work') /\ G \subseteq Given
  <2> HIDE DEF s
  <2>1. Holds(Picked(s, I), Given \ G) /\ Filled(Picked(s, I)) /\ G \subseteq Given
    BY ONLY <1>2, <1>5, KeptHolds
  <2> QED
    BY <1>4, <2>1
<1>7. ListsOnce(out, G)
  <2>1. G \subseteq TripIds(problem) /\ problem \in Problems
    BY <1>6, GivenTrips DEF JointInv, GivenPlan
  <2> QED
    BY <2>1, ByTimeOnce
<1>8. Repairing(out, work')
  BY <1>6, <1>7 DEF Repairing
<1>9. /\ DOMAIN lns' = LnsFields /\ lns'.blocks = lns.blocks /\ lns'.left = lns.left
      /\ lns'.out = out
  BY <1>4 DEF JointInv, Working, LnsFields
<1> HIDE DEF out
<1>10. Working(stage', work', lns')
  BY <1>1, <1>2, <1>8, <1>9 DEF JointInv, Working, LnsFields
<1> QED
  BY <1>1, <1>10, StepKeeps DEF JointInv, NoFeedbackYet

LEMMA RepairKeeps == JointInv /\ Repair => JointInv'
<1> SUFFICES ASSUME JointInv, Repair PROVE JointInv'
  OBVIOUS
<1> DEFINE t == lns.out[1]
           costs == {HostCost(i, t) : i \in Hosts(t)}
<1>1. UNCHANGED <<problem, plan, best, cands, stage>> /\ stage = "repair" /\ lns.out # <<>>
  BY DEF Repair, Going
<1>2. PICK G \in SUBSET Given : ListsOnce(lns.out, G) /\ Holds(work, Given \ G) /\ Filled(work)
  BY <1>1 DEF JointInv, Working, Repairing
<1> DEFINE R == Given \ G
           H == G \ {t}
<1>3. t \in G /\ ListsOnce(Tail(lns.out), H)
  BY <1>1, <1>2, HeadOff
<1>4. problem \in Problems /\ t \in TripIds(problem) /\ t \notin R
  BY <1>3, GivenTrips DEF JointInv, GivenPlan
<1>5. lns' = [lns EXCEPT !.out = Tail(@)]
  BY DEF Repair
<1>6. \/ work' = Append(work, [id |-> Len(work) + 1, trips |-> <<t>>])
      \/ \E i \in Hosts(t) : work' = [work EXCEPT ![i].trips = InsertAt(@, BestPlace(@, t), t)]
  BY DEF Repair
<1>7. Holds(work, R) /\ Filled(work) /\ Len(work) \in Nat
  BY <1>2, HeldList
<1>8. R \cup {t} = Given \ H /\ H \in SUBSET Given
  BY <1>2, <1>3
<1> HIDE DEF t, R, H
<1>9. ASSUME work' = Append(work, [id |-> Len(work) + 1, trips |-> <<t>>])
       PROVE  Holds(work', R \cup {t}) /\ Filled(work')
  <2> DEFINE n == Len(work) + 1
  <2>1. n \in Nat /\ work' = Append(work, [id |-> n, trips |-> <<t>>])
    BY <1>7, <1>9
  <2> HIDE DEF n
  <2>2. /\ Holds(Append(work, [id |-> n, trips |-> <<t>>]), R \cup {t})
        /\ Filled(Append(work, [id |-> n, trips |-> <<t>>]))
    BY <1>4, <1>7, <2>1, PutLastHolds
  <2> QED
    BY <2>1, <2>2
<1>10. ASSUME NEW i \in Hosts(t), work' = [work EXCEPT ![i].trips = InsertAt(@, BestPlace(@, t), t)]
       PROVE  Holds(work', R \cup {t}) /\ Filled(work')
  <2> DEFINE b == work[i].trips
             at == BestPlace(b, t)
             q == InsertAt(b, at, t)
  <2>1. i \in DOMAIN work /\ Places(b, t) # {}
    BY <1>10 DEF Hosts
  <2>2. b \in Seq(TripIds(problem)) /\ b # <<>> /\ ListsOnce(b, Range(b)) /\ Range(b) \subseteq R
    BY <1>7, <2>1, HeldList, HeldBlock DEF Filled
  <2>3. at \in 1..(Len(b) + 1) /\ Runs(q)
    <3> HIDE DEF b
    <3>1. at \in 1..(Len(b) + 1) /\ at \in Places(b, t)
      BY <1>4, <2>1, <2>2, BestPlaceIs
    <3> HIDE DEF at
    <3> QED
      BY <3>1 DEF Places, Runs
  <2>4. work' = [work EXCEPT ![i].trips = q]
    BY <1>10
  <2>5. ListsOnce(q, Range(b) \cup {t})
    <3> HIDE DEF b, at
    <3>1. t \notin Range(b)
      BY <1>4, <2>2
    <3> QED
      BY <2>2, <2>3, <3>1, InsertedOnce
  <2>6. ListsOnce(q, Range(work[i].trips) \cup {t})
    BY <2>5
  <2> HIDE DEF b, at, q
  <2> QED
    BY <1>4, <1>7, <2>1, <2>3, <2>4, <2>6, PutInHolds
<1>11. Holds(work', Given \ H) /\ Filled(work')
  BY <1>6, <1>8, <1>9, <1>10
<1>12. /\ DOMAIN lns' = LnsFields /\ lns'.blocks = lns.blocks /\ lns'.left = lns.left
       /\ lns'.out = Tail(lns.out)
  BY <1>5 DEF JointInv, Working, LnsFields
<1>13. Repairing(lns'.out, work')
  BY <1>3, <1>8, <1>11, <1>12 DEF Repairing
<1>14. Working(stage', work', lns')
  BY <1>1, <1>12, <1>13 DEF JointInv, Working, LnsFields
<1> QED
  BY <1>1, <1>14, StepKeeps DEF JointInv, NoFeedbackYet

LEMMA LnsJudgeKeeps == JointInv /\ LnsJudge => JointInv'
<1> SUFFICES ASSUME JointInv, LnsJudge PROVE JointInv'
  OBVIOUS
<1>1. /\ UNCHANGED <<problem, plan, best, cands, work>> /\ stage = "repair" /\ stage' = "destroy"
      /\ lns.out = <<>>
  BY DEF LnsJudge, Going
<1>2. PICK G \in SUBSET Given : ListsOnce(lns.out, G) /\ Holds(work, Given \ G) /\ Filled(work)
  BY <1>1 DEF JointInv, Working, Repairing
<1>3. Holds(work, Given)
  <2>1. Range(<<>>) = {}
    BY DEF Range
  <2>2. G = {}
    BY <1>1, <1>2, <2>1 DEF ListsOnce
  <2>3. Given \ G = Given
    BY <2>2
  <2> QED
    BY <1>2, <2>3
<1>4. \/ lns' = lns
      \/ DOMAIN lns' = LnsFields /\ lns'.blocks = work /\ lns'.left = {}
  BY DEF LnsJudge, LnsFields
<1>5. Working(stage', work', lns')
  BY <1>1, <1>2, <1>3, <1>4 DEF JointInv, Working, Without
<1> QED
  BY <1>1, <1>5, StepKeeps DEF JointInv, NoFeedbackYet

LEMMA LnsEndKeeps == JointInv /\ LnsEnd => JointInv'
<1> SUFFICES ASSUME JointInv, LnsEnd PROVE JointInv'
  OBVIOUS
<1> DEFINE c == [phase |-> "lns", blocks |-> lns.blocks, left |-> lns.left]
<1>1. /\ UNCHANGED <<problem, plan, best, work, lns>> /\ stage = "destroy" /\ stage' = "judge"
      /\ cands' = Append(cands, c)
  BY DEF LnsEnd, Going
<1>2. c.blocks = lns.blocks /\ c.left = lns.left /\ c.phase = "lns"
  OBVIOUS
<1> HIDE DEF c
<1>3. c.left \in Without /\ Holds(c.blocks, Given)
  BY <1>1, <1>2 DEF JointInv, Working
<1>4. Proposed(cands')
  BY <1>1, <1>2, <1>3, AppendedList DEF JointInv, Proposed
<1>5. Working(stage', work', lns')
  BY <1>1 DEF JointInv, Working
<1>6. NoFeedbackYet(stage', best', cands')
  <2>1. Range(cands') = Range(cands) \cup {c}
    BY <1>1, AppendedList DEF JointInv, Proposed
  <2> QED
    BY <1>1, <1>2, <2>1 DEF JointInv, NoFeedbackYet
<1> QED
  BY <1>1, <1>4, <1>5, <1>6, StepKeeps DEF JointInv

-------------------------------------------------------------------------------
(* Judging, splitting blocks for the crew, and the end.                        *)

LEMMA JudgedKeeps ==
  ASSUME JointInv, NEW roomy \in BOOLEAN, JudgeFrom(roomy), UNCHANGED <<problem, plan>>,
         stage \in {"judge", "feedback"}
  PROVE  JointInv'
<1>1. UNCHANGED <<stage, work, lns>> /\ cands # <<>> /\ cands' = Tail(cands)
  BY DEF JudgeFrom
<1>2. /\ Proposed(cands') /\ cands[1].left \in Without /\ Holds(cands[1].blocks, Given)
      /\ cands[1].phase \notin {"lns", "feedback"} => NamedApart(cands[1].blocks)
      /\ cands[1] \in Range(cands) /\ Range(cands') \subseteq Range(cands)
  BY <1>1, ShorterList DEF JointInv, Proposed
<1>3. GivenPlan /\ Chosen(best)
  BY DEF JointInv
<1>4. ASSUME NEW crew \in Crews, IsBetter(best, Plan(cands[1], crew)) PROVE Chosen(Plan(cands[1], crew))
  <2> DEFINE p == Plan(cands[1], crew)
  <2>1. /\ DOMAIN p = Fields /\ p.crew \in Crews /\ p.left = cands[1].left
        /\ p.blocks = cands[1].blocks /\ p.refs = p.blocks /\ p.phase = cands[1].phase
    BY DEF Plan, Fields
  <2>2. IsBetter(best, p)
    BY <1>4
  <2> HIDE DEF p
  <2>3. NotWorse(p)
    BY <1>2, <1>3, <2>1, <2>2, BetterIsNoWorse
  <2>4. Chosen(p)
    BY <1>2, <2>1, <2>3 DEF Chosen
  <2> QED
    BY <2>4 DEF p
<1>5. Chosen(best') /\ (best'.phase = best.phase \/ best'.phase = cands[1].phase)
  <2>1. \/ best' = best
        \/ \E crew \in Crews : best' = IF IsBetter(best, Plan(cands[1], crew))
                                       THEN Plan(cands[1], crew) ELSE best
    BY DEF JudgeFrom
  <2>2. \A crew : Plan(cands[1], crew).phase = cands[1].phase
    BY DEF Plan
  <2> QED
    BY <1>3, <1>4, <2>1, <2>2
<1>6. Working(stage', work', lns')
  BY <1>1 DEF JointInv, Working
<1>7. NoFeedbackYet(stage', best', cands')
  BY <1>1, <1>2, <1>5 DEF JointInv, NoFeedbackYet
<1> QED
  BY <1>2, <1>5, <1>6, <1>7, StepKeeps

(* A plan's blocks have finitely many numbers; the highest is a number. *)
LEMMA BlockNumbers ==
  ASSUME NEW s, NEW S, Holds(s, S), NEW I, I = {b.id : b \in Range(s)}
  PROVE  IsFiniteSet(I) /\ (I # {} => Max(I) \in Nat)
<1> DEFINE f == [i \in DOMAIN s |-> s[i].id]
<1>1. IsList(s) /\ IsFiniteSet(DOMAIN s) /\ \A i \in DOMAIN s : s[i].id \in Nat
  BY HeldList, ListDomain
<1>2. I = {f[i] : i \in DOMAIN s} /\ I \subseteq Nat
  BY <1>1 DEF Range
<1>3. IsFiniteSet(I)
  <2>1. IsFiniteSet(DOMAIN s)
    BY <1>1
  <2> HIDE DEF f
  <2>2. IsFiniteSet({f[i] : i \in DOMAIN s})
    BY ONLY <2>1, ImagesFinite
  <2> QED
    BY ONLY <1>2, <2>2
<1>4. I \subseteq Int
  BY <1>2
<1> QED
  BY <1>2, <1>3, <1>4, HighestIs

LEMMA FeedbackKeeps == JointInv /\ Feedback => JointInv'
<1> SUFFICES ASSUME JointInv, Feedback PROVE JointInv'
  OBVIOUS
<1> DEFINE top == Max({b.id : b \in Range(best.blocks)})
           start == [own |-> best.blocks, top |-> top, plans |-> <<>>]
           made(q) == FoldLeft(SplitBlock, start, q)
           now(q, b) == NowIn(made(q).own, b)
           plans(q) == [i \in DOMAIN made(q).plans |->
                          [phase |-> "feedback", left |-> best.left,
                           blocks |-> [k \in DOMAIN made(q).plans[i] |-> now(q, made(q).plans[i][k])]]]
<1>1. UNCHANGED <<problem, plan, work, lns>> /\ stage = "judge" /\ stage' = "feedback"
  BY DEF Feedback, Going
<1>2. PICK ids \in (SUBSET {b.id : b \in Range(best.blocks)}) \ {{}} :
        \E q \in {x \in [1..Cardinality(ids) -> ids] : IsInjective(x)} :
           cands' = plans(q) /\ best' = [best EXCEPT !.blocks = made(q).own]
  BY DEF Feedback, NowIn
<1>3. PICK q \in [1..Cardinality(ids) -> ids] :
        cands' = plans(q) /\ best' = [best EXCEPT !.blocks = made(q).own]
  BY <1>2
<1>4. problem \in Problems /\ Chosen(best) /\ Holds(best.blocks, Given)
  BY DEF JointInv, GivenPlan, Chosen
<1> DEFINE I == {b.id : b \in Range(best.blocks)}
<1>5. IsFiniteSet(I) /\ IsFiniteSet(ids) /\ top \in Nat
  <2>1. ids \in (SUBSET I) \ {{}} /\ top = Max(I) /\ I = {b.id : b \in Range(best.blocks)}
    OBVIOUS
  <2> HIDE DEF I
  <2>2. ids \subseteq I /\ I # {}
    BY <2>1
  <2>3. IsFiniteSet(I) /\ Max(I) \in Nat
    BY <1>4, <2>1, <2>2, BlockNumbers
  <2>4. IsFiniteSet(ids)
    BY <2>2, <2>3, FS_Subset
  <2> QED
    BY <2>1, <2>3, <2>4
<1> HIDE DEF top
<1>6. Splits(start, Given)
  <2>1. IsList(<<>>) /\ Range(<<>>) = {}
    BY DEF IsList, Range
  <2> QED
    BY <1>4, <1>5, <2>1 DEF Splits
<1>7. IsList(q)
  <2>1. Cardinality(ids) \in Nat
    BY <1>5, FS_CardinalityType
  <2>2. q = [i \in 1..Cardinality(ids) |-> q[i]]
    BY <1>3
  <2> QED
    BY <2>1, <2>2, MadeList
<1> HIDE DEF start
<1>8. Splits(made(q), Given)
  BY <1>4, <1>6, <1>7, SplitsHold
<1> DEFINE m == made(q)
           cs == plans(q)
<1>9. Splits(m, Given)
  BY <1>8
<1>10. cands' = cs /\ best' = [best EXCEPT !.blocks = m.own]
  BY <1>3
<1>11. cs = [i \in DOMAIN m.plans |->
               [phase |-> "feedback", left |-> best.left,
                blocks |-> [k \in DOMAIN m.plans[i] |-> NowIn(m.own, m.plans[i][k])]]]
  OBVIOUS
<1> HIDE DEF m, cs, made, now, plans
<1>12. Holds(m.own, Given) /\ IsList(m.plans) /\ \A i \in DOMAIN m.plans : Holds(m.plans[i], Given)
  BY <1>9 DEF Splits, Range
<1>13. Chosen(best')
  <2>1. /\ DOMAIN best' = Fields /\ best'.blocks = m.own /\ best'.crew = best.crew
        /\ best'.left = best.left /\ best'.phase = best.phase
    BY <1>4, <1>10 DEF Chosen, Fields
  <2>2. best.crew.violations > 0 /\ best.phase # "feedback"
    BY <1>1 DEF Feedback, NeedsFeedback, JointInv, NoFeedbackYet
  <2> QED
    BY <1>4, <1>12, <2>1, <2>2 DEF Chosen, NotWorse
<1>14. Proposed(cs)
  <2>1. DOMAIN cs = DOMAIN m.plans /\ cs = [i \in DOMAIN cs |-> cs[i]]
    BY <1>11
  <2>2. IsList(cs)
    BY <1>12, <2>1, ChangedPlaces
  <2>3. ASSUME NEW i \in DOMAIN cs PROVE /\ cs[i].left \in Without /\ Holds(cs[i].blocks, Given)
                                           /\ cs[i].phase = "feedback"
    <3> DEFINE u == [k \in DOMAIN m.plans[i] |-> NowIn(m.own, m.plans[i][k])]
    <3>1. i \in DOMAIN m.plans
      BY <2>1
    <3>2. cs[i].left = best.left /\ cs[i].blocks = u /\ cs[i].phase = "feedback"
      BY <1>11, <3>1
    <3>3. Holds(u, Given)
      BY <1>12, <3>1, NowHolds
    <3> QED
      BY <1>4, <3>2, <3>3 DEF Chosen
  <2> QED
    BY <2>2, <2>3 DEF Proposed, Range
<1>15. Working(stage', work', lns')
  BY <1>1 DEF JointInv, Working
<1>16. NoFeedbackYet(stage', best', cands')
  BY <1>1 DEF NoFeedbackYet
<1> QED
  BY <1>1, <1>10, <1>13, <1>14, <1>15, <1>16, StepKeeps

LEMMA FailKeeps == JointInv /\ Fail => JointInv'
<1> SUFFICES ASSUME JointInv, Fail PROVE JointInv'
  OBVIOUS
<1>1. /\ UNCHANGED <<problem, plan, work, cands, lns>> /\ stage' = "done"
      /\ best' = Plan([phase |-> "given", blocks |-> plan.blocks, left |-> plan.left], problem.crew)
  BY DEF Fail
<1>2. Chosen(best')
  BY <1>1, GivenIsChosen DEF JointInv
<1>3. Working(stage', work', lns')
  BY <1>1 DEF JointInv, Working
<1> QED
  BY <1>1, <1>2, <1>3, StepKeeps DEF JointInv, NoFeedbackYet

(* The step ends, or has nothing to do. *)
LEMMA EndKeeps == JointInv /\ (Finish \/ Skip) => JointInv'
<1> SUFFICES ASSUME JointInv, Finish \/ Skip PROVE JointInv'
  OBVIOUS
<1>1. UNCHANGED <<problem, plan, work, cands, best, lns>> /\ stage' = "done"
  BY DEF Finish, Skip, Going
<1>2. Working(stage', work', lns')
  BY <1>1 DEF JointInv, Working
<1> QED
  BY <1>1, <1>2, StepKeeps DEF JointInv, NoFeedbackYet

-------------------------------------------------------------------------------
(* The results.                                                                *)

LEMMA JointSteps == JointInv /\ [Next]_vars => JointInv'
<1> SUFFICES ASSUME JointInv, [Next]_vars PROVE JointInv'
  OBVIOUS
<1>1. CASE MergeBlocks
  BY <1>1, MergeKeeps
<1>2. CASE MergesEnd
  BY <1>2, MergesEndKeeps
<1>3. CASE SwapPass
  BY <1>3, SwapKeeps
<1>4. CASE Propose
  BY <1>4, ProposeKeeps
<1>5. CASE Destroy
  BY <1>5, DestroyKeeps
<1>6. CASE Repair
  BY <1>6, RepairKeeps
<1>7. CASE LnsJudge
  BY <1>7, LnsJudgeKeeps
<1>8. CASE LnsEnd
  BY <1>8, LnsEndKeeps
<1>9. CASE Judge
  BY <1>9, JudgedKeeps DEF Judge, Going
<1>10. CASE JudgeFeedback
  BY <1>10, JudgedKeeps DEF JudgeFeedback, Going
<1>11. CASE Feedback
  BY <1>11, FeedbackKeeps
<1>12. CASE Finish \/ Skip
  BY <1>12, EndKeeps
<1>13. CASE Fail
  BY <1>13, FailKeeps
<1>14. CASE UNCHANGED vars
  <2>1. UNCHANGED <<problem, plan, stage, work, cands, best, lns>>
    BY <1>14 DEF vars
  <2> QED
    BY <2>1, StepKeeps DEF JointInv, NoFeedbackYet
<1> QED
  BY <1>1, <1>2, <1>3, <1>4, <1>5, <1>6, <1>7, <1>8, <1>9, <1>10, <1>11, <1>12, <1>13, <1>14
     DEF Next

(* Through all of its stages, the step works on plans that drive the trips of  *)
(* the given plan (joint_duty_vehicle_swap and what it calls).                 *)
THEOREM JointInvariant == Spec => []JointInv
<1>1. Init => JointInv
  BY JointStarts
<1>2. JointInv /\ [Next]_vars => JointInv'
  BY JointSteps
<1> QED
  BY <1>1, <1>2, PTL DEF Spec

(* Whatever blocks are merged, exchanged, destroyed, repaired and split, and   *)
(* whatever the crew solver answers, every plan that is compared drives the    *)
(* given plan's trips, each of them once.                                      *)
THEOREM TripsStayKept == Spec => []TripsKept
<1>1. JointInv => TripsKept
  <2> SUFFICES ASSUME JointInv PROVE TripsKept
    OBVIOUS
  <2>1. Holds(plan.blocks, Given) /\ Holds(best.blocks, Given)
    BY DEF JointInv, GivenPlan, Chosen
  <2>2. \A c \in Range(cands) : Holds(c.blocks, Given)
    BY DEF JointInv, Proposed
  <2>3. stage = "destroy" => Holds(lns.blocks, Given)
    BY DEF JointInv, Working
  <2> QED
    BY <2>1, <2>2, <2>3, HeldAlike DEF TripsKept
<1> QED
  BY <1>1, JointInvariant, PTL

(* However many plans replace one another, and at whatever price in vehicles   *)
(* a pair is repaired, the last has no more violations, no more trips without  *)
(* a vehicle and, where groups are mandatory, no more split groups than the    *)
(* given plan (_is_better_post_opt_candidate).                                 *)
THEOREM PlanNeverWorse == Spec => []PlanNoWorse
<1>1. JointInv => PlanNoWorse
  BY DEF JointInv, Chosen, NotWorse, PlanNoWorse
<1> QED
  BY <1>1, JointInvariant, PTL

(* Whatever moves and exchanges the blocks went through, they can be driven if *)
(* the given ones can, though most of the moves look at one joint only; and at *)
(* the end each number stands for one block of the plan, and the crew's duties *)
(* for its blocks, outside of the neighbourhood search and the feedback round  *)
(* (joint_duty_vehicle_swap, _renumber_blocks).                                *)
THEOREM BlocksStaySound == Spec => []BlocksSound
<1>1. JointInv => BlocksStayDrivable
  <2> SUFFICES ASSUME JointInv, GivenDrivable, NEW p \in {best} \cup Range(cands),
                      NEW b \in Range(p.blocks)
               PROVE  Feasible(b.trips)
    BY DEF BlocksStayDrivable
  <2>1. Holds(p.blocks, Given)
    BY DEF JointInv, Chosen, Proposed
  <2>2. b \in Block
    BY <2>1, HeldList DEF Range
  <2> QED
    BY <2>2 DEF Block, Runs
<1>2. JointInv => BlocksNamedApart
  <2> SUFFICES ASSUME JointInv PROVE BlocksNamedApart
    OBVIOUS
  <2>1. \/ best.refs = best.blocks /\ (best.phase \notin {"lns", "feedback"} => NamedApart(best.blocks))
        \/ best.crew.violations > 0 /\ best.phase # "feedback"
    BY DEF JointInv, Chosen
  <2>2. best.crew.violations > 0 => best.crew.violations # 0
    OBVIOUS
  <2> QED
    BY <2>1, <2>2 DEF BlocksNamedApart, NamedApart
<1> QED
  BY <1>1, <1>2, JointInvariant, PTL DEF BlocksSound
=============================================================================
