---------------------------- MODULE VehicleProofs ----------------------------
(***************************************************************************)
(* What the greedy's blocks keep, for every request.                       *)
(***************************************************************************)
EXTENDS VehicleSearch, FoldTheorems

-------------------------------------------------------------------------------
(* Requests.                                                                   *)

TripType(P) ==
  [st : Int, en : Int, from : DOMAIN P.dead, to : DOMAIN P.dead, line : Int,
   group : Int, depot : Int, kwh : Int, after : Int]

LEMMA TripTyped ==
  ASSUME problem \in Problems, NEW t \in TripIds(problem)
  PROVE  Trip(t) \in TripType(problem)
<1>1. problem.trips \in Seq(TripType(problem))
  BY RequestsAssumption DEF TripType
<1> HIDE DEF TripType
<1>2. t \in 1..Len(problem.trips)
  BY <1>1 DEF TripIds
<1> QED
  BY <1>1, <1>2 DEF Trip

LEMMA TripsFinite ==
  ASSUME problem \in Problems
  PROVE  /\ IsFiniteSet(TripIds(problem))
         /\ TripIds(problem) \subseteq Int
<1>1. problem.trips \in Seq(TripType(problem))
  BY RequestsAssumption DEF TripType
<1> HIDE DEF TripType
<1>2. TripIds(problem) = 1..Len(problem.trips) /\ Len(problem.trips) \in Nat
  BY <1>1 DEF TripIds
<1> QED
  BY <1>2, FS_Interval

PrmType ==
  [layover : Int, break : Int, enforce : BOOLEAN, tol : Int, zeroGap : BOOLEAN, strict : BOOLEAN,
   maxIdle : Int, span : Int, sameDepot : BOOLEAN, multiLine : BOOLEAN, window : Int,
   hardPairs : BOOLEAN, limit : Int, splits : BOOLEAN, splitMin : Int, splitMax : Int,
   garage : {"always", "never", "smart"}, garageCost : Int, fixed : Int,
   compact : BOOLEAN, stitch : BOOLEAN, stitchGap : Int]

LEMMA PrmTyped ==
  ASSUME problem \in Problems
  PROVE  /\ prm \in PrmType
         /\ prm.limit \in Int /\ prm.span \in Int /\ Span \in Int /\ prm.fixed \in Int
         /\ prm.layover \in Int /\ prm.break \in Int /\ problem.depot \in Int
<1>1. prm \in PrmType /\ problem.depot \in Int
  BY RequestsAssumption DEF prm, PrmType
<1>2. /\ prm.limit \in Int /\ prm.span \in Int /\ prm.fixed \in Int
      /\ prm.layover \in Int /\ prm.break \in Int
  BY <1>1 DEF PrmType
<1>3. Span \in Int
  BY <1>2 DEF Span, Unlimited
<1> QED
  BY <1>1, <1>2, <1>3

VehicleType ==
  [fixed : Int, depot : Int, electric : BOOLEAN, cap : Int, min : Int, rate : Int, price : Int]

(* The type of a new block is one of the fleet. *)
LEMMA TypeSelected ==
  ASSUME NEW fleet \in Seq(VehicleType), fleet # <<>>, NEW depot
  PROVE  SelectVehicleType(fleet, depot) \in Range(fleet)
<1> DEFINE fits == {i \in DOMAIN fleet : depot = 0 \/ fleet[i].depot \in {0, depot}}
           from == IF fits = {} THEN DOMAIN fleet ELSE fits
           f == [i \in DOMAIN fleet |-> fleet[i].fixed]
<1>1. DOMAIN fleet = 1..Len(fleet) /\ Len(fleet) \in Nat /\ Len(fleet) # 0
  OBVIOUS
<1>2. from \in SUBSET (1..Len(fleet)) /\ from # {}
  BY <1>1
<1>3. IsFiniteSet(from) /\ from \subseteq Int
  <2>1. IsFiniteSet(1..Len(fleet))
    BY <1>1, FS_Interval
  <2> HIDE DEF from
  <2> QED
    <3>1. IsFiniteSet(from)
      BY <1>2, <2>1, FS_Subset
    <3>2. from \subseteq Int
      BY <1>1, <1>2
    <3> QED
      BY <3>1, <3>2
<1>4. IntsOn(f, from)
  <2>1. \A i \in 1..Len(fleet) : fleet[i] \in VehicleType
    OBVIOUS
  <2> QED
    BY <1>1, <1>2, <2>1 DEF IntsOn, VehicleType
<1>5. \A i \in from : f[i] = fleet[i].fixed
  BY <1>1, <1>2
<1>6. SelectVehicleType(fleet, depot) =
        fleet[CHOOSE i \in from : \A j \in from :
                fleet[i].fixed < fleet[j].fixed \/ (fleet[i].fixed = fleet[j].fixed /\ i <= j)]
  BY DEF SelectVehicleType, FirstLeast
<1> HIDE DEF from, f, fits
<1>7. \E i \in from : \A j \in from : f[i] < f[j] \/ (f[i] = f[j] /\ i <= j)
  BY <1>2, <1>3, <1>4, LeastExists
<1>8. \E i \in from : SelectVehicleType(fleet, depot) = fleet[i]
  BY <1>5, <1>6, <1>7
<1> QED
  BY <1>1, <1>2, <1>8 DEF Range

LEMMA VehicleTyped ==
  ASSUME problem \in Problems
  PROVE  /\ problem.fleet \in Seq(VehicleType) /\ problem.fleet # <<>>
         /\ Range(problem.fleet) \subseteq VehicleType
         /\ Vehicle \in Range(problem.fleet)
         /\ \A t : TypeFor(t) \in Range(problem.fleet)
<1>1. problem.fleet \in Seq(VehicleType) /\ problem.fleet # <<>>
  BY RequestsAssumption DEF VehicleType
<1>2. Range(problem.fleet) \subseteq VehicleType
  BY <1>1, RangeOfSeq
<1> QED
  BY <1>1, <1>2, TypeSelected DEF Vehicle, TypeFor

-------------------------------------------------------------------------------
(* Lists of blocks: no two blocks of one list have the same number.            *)
Numbered(s) == \A i, j \in DOMAIN s : s[i].id = s[j].id => i = j

LEMMA NumberedConcat ==
  ASSUME NEW V, NEW s \in Seq(V), NEW t \in Seq(V)
  PROVE  Numbered(s \o t) <=> /\ Numbered(s) /\ Numbered(t)
                              /\ \A i \in DOMAIN s, j \in DOMAIN t : s[i].id # t[j].id
<1>1. /\ s \o t \in Seq(V) /\ Len(s \o t) = Len(s) + Len(t)
      /\ \A i \in 1..(Len(s) + Len(t)) : (s \o t)[i] = IF i <= Len(s) THEN s[i] ELSE t[i - Len(s)]
  BY ConcatProperties
<1>2. /\ DOMAIN s = 1..Len(s) /\ DOMAIN t = 1..Len(t) /\ Len(s) \in Nat /\ Len(t) \in Nat
      /\ DOMAIN (s \o t) = 1..(Len(s) + Len(t))
  BY <1>1, LenProperties
<1>3. \A i \in DOMAIN s : i \in DOMAIN (s \o t) /\ (s \o t)[i] = s[i]
  BY <1>1, <1>2
<1>4. \A j \in DOMAIN t : /\ Len(s) + j \in DOMAIN (s \o t)
                          /\ (s \o t)[Len(s) + j] = t[j]
  <2>1. SUFFICES ASSUME NEW j \in 1..Len(t)
                 PROVE  Len(s) + j \in DOMAIN (s \o t) /\ (s \o t)[Len(s) + j] = t[j]
    BY <1>2
  <2>2. /\ Len(s) + j \in 1..(Len(s) + Len(t))
        /\ ~(Len(s) + j <= Len(s)) /\ (Len(s) + j) - Len(s) = j
    BY <1>2
  <2> QED
    BY <1>1, <1>2, <2>2
<1>5. ASSUME Numbered(s \o t)
      PROVE  /\ Numbered(s) /\ Numbered(t)
             /\ \A i \in DOMAIN s, j \in DOMAIN t : s[i].id # t[j].id
  <2>1. Numbered(s)
    BY <1>3, <1>5 DEF Numbered
  <2>2. Numbered(t)
    <3>1. SUFFICES ASSUME NEW i \in DOMAIN t, NEW j \in DOMAIN t, t[i].id = t[j].id PROVE i = j
      BY DEF Numbered
    <3>2. Len(s) + i = Len(s) + j
      BY <1>4, <1>5, <3>1 DEF Numbered
    <3> QED
      BY <1>2, <3>2
  <2>3. ASSUME NEW i \in DOMAIN s, NEW j \in DOMAIN t, s[i].id = t[j].id PROVE FALSE
    <3>1. i = Len(s) + j
      BY <1>3, <1>4, <1>5, <2>3 DEF Numbered
    <3> QED
      BY <1>2, <3>1
  <2> QED
    BY <2>1, <2>2, <2>3
<1>6. ASSUME Numbered(s), Numbered(t),
             \A i \in DOMAIN s, j \in DOMAIN t : s[i].id # t[j].id
      PROVE  Numbered(s \o t)
  <2>1. SUFFICES ASSUME NEW i \in DOMAIN (s \o t), NEW j \in DOMAIN (s \o t),
                        (s \o t)[i].id = (s \o t)[j].id
                 PROVE  i = j
    BY DEF Numbered
  <2>2. \A k \in DOMAIN (s \o t) :
          \/ k \in DOMAIN s /\ (s \o t)[k] = s[k]
          \/ k - Len(s) \in DOMAIN t /\ (s \o t)[k] = t[k - Len(s)]
    BY <1>1, <1>2
  <2>3. i \in Int /\ j \in Int /\ Len(s) \in Int
    BY <1>2
  <2>4. CASE i \in DOMAIN s /\ (s \o t)[i] = s[i]
    BY <1>6, <2>1, <2>2, <2>4 DEF Numbered
  <2>5. CASE i - Len(s) \in DOMAIN t /\ (s \o t)[i] = t[i - Len(s)]
    <3>1. j - Len(s) \in DOMAIN t /\ (s \o t)[j] = t[j - Len(s)]
      BY <1>6, <2>1, <2>2, <2>5
    <3>2. i - Len(s) = j - Len(s)
      BY <1>6, <2>1, <2>5, <3>1 DEF Numbered
    <3> QED
      BY <2>3, <3>2
  <2> QED
    BY <2>2, <2>4, <2>5
<1> QED
  BY <1>5, <1>6

(* A block of the list is known by its number. *)
LEMMA NumberedRange ==
  ASSUME NEW s, Numbered(s), NEW b \in Range(s), NEW c \in Range(s), b.id = c.id
  PROVE  b = c
BY DEF Numbered, Range

LEMMA PickedBlocks ==
  ASSUME NEW V, NEW s \in Seq(V), NEW I, I \subseteq DOMAIN s
  PROVE  /\ Picked(s, I) \in Seq(V) /\ Len(Picked(s, I)) = Cardinality(I)
         /\ Range(Picked(s, I)) = {s[i] : i \in I}
         /\ Numbered(s) => Numbered(Picked(s, I))
<1>1. PICK at \in [1..Cardinality(I) -> I] :
        /\ Range(at) = I /\ IsInjective(at)
        /\ Picked(s, I) = [k \in 1..Cardinality(I) |-> s[at[k]]]
        /\ Cardinality(I) \in Nat
  BY PickedLists
<1> DEFINE n == Cardinality(I)
           p == Picked(s, I)
<1> HIDE DEF n, p
<1>2. n \in Nat /\ at \in [1..n -> I] /\ Range(at) = I /\ IsInjective(at)
      /\ p = [k \in 1..n |-> s[at[k]]]
  BY <1>1 DEF n, p
<1>3. \A i \in I : s[i] \in V
  OBVIOUS
<1>4. p \in Seq(V) /\ Len(p) = n /\ DOMAIN p = 1..n
  <2>1. \A k \in 1..n : at[k] \in I /\ s[at[k]] \in V
    BY <1>2, <1>3
  <2>2. p \in [1..n -> V]
    BY <1>2, <2>1
  <2> QED
    BY ONLY <1>2, <2>2
<1>5. Range(p) = {s[i] : i \in I}
  BY <1>2, <1>4 DEF Range
<1>6. ASSUME Numbered(s) PROVE Numbered(p)
  <2>1. SUFFICES ASSUME NEW k \in 1..n, NEW l \in 1..n, p[k].id = p[l].id PROVE k = l
    BY <1>4 DEF Numbered
  <2>2. at[k] \in DOMAIN s /\ at[l] \in DOMAIN s /\ s[at[k]].id = s[at[l]].id
    BY <1>2, <2>1
  <2>3. at[k] = at[l]
    BY <1>6, <2>2 DEF Numbered
  <2>4. DOMAIN at = 1..n
    BY <1>2
  <2> QED
    BY <1>2, <2>3, <2>4 DEF IsInjective
<1> QED
  BY <1>4, <1>5, <1>6 DEF n, p

(* Blocks changed one by one, numbers kept. *)
Mapped(f, s) == [i \in DOMAIN s |-> f[s[i]]]
Mapping(f, V, W) == f \in [V -> W] /\ \A v \in V : f[v].id = v.id
Images(f, S) == {f[x] : x \in S}

LEMMA MappedBlocks ==
  ASSUME NEW V, NEW W, NEW s \in Seq(V), NEW f, Mapping(f, V, W), NEW m, m = Mapped(f, s)
  PROVE  /\ m \in Seq(W) /\ Len(m) = Len(s) /\ DOMAIN m = DOMAIN s
         /\ Range(m) = Images(f, Range(s))
         /\ \A i \in DOMAIN s : m[i].id = s[i].id
<1> USE DEF Mapping
<1> DEFINE n == Len(s)
<1>1. n \in Nat /\ DOMAIN s = 1..n /\ \A i \in 1..n : s[i] \in V
  OBVIOUS
<1> HIDE DEF n
<1>0. m = [i \in 1..n |-> f[s[i]]]
  BY <1>1 DEF Mapped
<1>2. m \in [1..n -> W] /\ DOMAIN m = 1..n
  BY <1>0, <1>1
<1>3. m \in Seq(W) /\ Len(m) = n
  BY ONLY <1>1, <1>2
<1>4. Range(m) = Images(f, Range(s))
  BY <1>0, <1>1 DEF Range, Images
<1>5. \A i \in DOMAIN s : m[i].id = s[i].id
  BY <1>0, <1>1
<1> QED
  BY <1>1, <1>2, <1>3, <1>4, <1>5 DEF n

LEMMA RemovedBlock ==
  ASSUME NEW V, NEW s \in Seq(V), NEW i \in DOMAIN s, Numbered(s)
  PROVE  /\ RemoveAt(s, i) \in Seq(V) /\ Len(RemoveAt(s, i)) = Len(s) - 1
         /\ Numbered(RemoveAt(s, i)) /\ Range(RemoveAt(s, i)) = Range(s) \ {s[i]}
<1> DEFINE n == Len(s)
           r == RemoveAt(s, i)
<1>1. n \in Nat /\ DOMAIN s = 1..n /\ i \in 1..n /\ \A k \in 1..n : s[k] \in V
  OBVIOUS
<1>2. /\ SubSeq(s, 1, i - 1) \in Seq(V) /\ Len(SubSeq(s, 1, i - 1)) = i - 1
      /\ \A k \in 1..(i - 1) : SubSeq(s, 1, i - 1)[k] = s[k]
  <2>1. i - 1 \in Int /\ 1 \in Int /\ \A k \in 1..(i - 1) : s[k] \in V
    BY <1>1
  <2>2. /\ SubSeq(s, 1, i - 1) \in Seq(V)
        /\ Len(SubSeq(s, 1, i - 1)) = IF 1 <= i - 1 THEN (i - 1) - 1 + 1 ELSE 0
        /\ \A k \in 1..((i - 1) - 1 + 1) : SubSeq(s, 1, i - 1)[k] = s[1 + k - 1]
    BY <2>1, SubSeqProperties
  <2> QED
    BY <1>1, <2>2
<1>3. /\ SubSeq(s, i + 1, n) \in Seq(V) /\ Len(SubSeq(s, i + 1, n)) = n - i
      /\ \A k \in 1..(n - i) : SubSeq(s, i + 1, n)[k] = s[i + k]
  <2>1. i + 1 \in Int /\ n \in Int /\ \A k \in (i + 1)..n : s[k] \in V
    BY <1>1
  <2> HIDE DEF n
  <2>2. /\ SubSeq(s, i + 1, n) \in Seq(V)
        /\ Len(SubSeq(s, i + 1, n)) = IF i + 1 <= n THEN n - (i + 1) + 1 ELSE 0
        /\ \A k \in 1..(n - (i + 1) + 1) : SubSeq(s, i + 1, n)[k] = s[(i + 1) + k - 1]
    BY <2>1, SubSeqProperties
  <2> QED
    BY <1>1, <2>2
<1>4. r = SubSeq(s, 1, i - 1) \o SubSeq(s, i + 1, n)
  BY DEF RemoveAt
<1> HIDE DEF n, r
<1>5. /\ r \in Seq(V) /\ Len(r) = n - 1 /\ DOMAIN r = 1..(n - 1)
      /\ \A k \in 1..(n - 1) : r[k] = IF k < i THEN s[k] ELSE s[k + 1]
  <2> DEFINE u == SubSeq(s, 1, i - 1)
             v == SubSeq(s, i + 1, n)
  <2>1. u \in Seq(V) /\ Len(u) = i - 1 /\ \A k \in 1..(i - 1) : u[k] = s[k]
    BY <1>2
  <2>2. v \in Seq(V) /\ Len(v) = n - i /\ \A k \in 1..(n - i) : v[k] = s[i + k]
    BY <1>3
  <2>3. r = u \o v
    BY <1>4
  <2> HIDE DEF u, v
  <2>4. /\ r \in Seq(V) /\ Len(r) = Len(u) + Len(v)
        /\ \A k \in 1..(Len(u) + Len(v)) : r[k] = IF k <= Len(u) THEN u[k] ELSE v[k - Len(u)]
    BY <2>1, <2>2, <2>3, ConcatProperties
  <2>5. Len(r) = n - 1 /\ DOMAIN r = 1..(n - 1)
    BY <1>1, <2>1, <2>2, <2>4, LenProperties
  <2>6. ASSUME NEW k \in 1..(n - 1) PROVE r[k] = IF k < i THEN s[k] ELSE s[k + 1]
    <3>1. k \in 1..(Len(u) + Len(v))
      BY <1>1, <2>1, <2>2
    <3>2. CASE k < i
      BY <1>1, <2>1, <2>4, <3>1, <3>2
    <3>3. CASE ~(k < i)
      <4>1. ~(k <= Len(u)) /\ k - Len(u) \in 1..(n - i) /\ i + (k - Len(u)) = k + 1
        BY <1>1, <2>1, <3>3
      <4> QED
        BY <2>2, <2>4, <3>1, <3>3, <4>1
    <3> QED
      BY <3>2, <3>3
  <2> QED
    BY <2>4, <2>5, <2>6
<1>6. Numbered(r)
  <2>1. SUFFICES ASSUME NEW k \in 1..(n - 1), NEW l \in 1..(n - 1), r[k].id = r[l].id
                 PROVE  k = l
    BY <1>5 DEF Numbered
  <2> DEFINE x(k_1) == IF k_1 < i THEN k_1 ELSE k_1 + 1
  <2>2. x(k) \in 1..n /\ x(l) \in 1..n /\ r[k] = s[x(k)] /\ r[l] = s[x(l)]
    BY <1>1, <1>5
  <2>3. x(k) = x(l)
    BY <1>1, <2>1, <2>2 DEF Numbered
  <2> QED
    BY <1>1, <2>3
<1>7. Range(r) = Range(s) \ {s[i]}
  <2>1. ASSUME NEW k \in 1..(n - 1) PROVE r[k] \in Range(s) \ {s[i]}
    <3> DEFINE x == IF k < i THEN k ELSE k + 1
    <3>1. x \in 1..n /\ x # i /\ r[k] = s[x]
      BY <1>1, <1>5
    <3>2. s[x] # s[i]
      BY <1>1, <3>1 DEF Numbered
    <3> QED
      BY <1>1, <3>1, <3>2 DEF Range
  <2>2. ASSUME NEW k \in 1..n, s[k] # s[i] PROVE s[k] \in Range(r)
    <3> DEFINE x == IF k < i THEN k ELSE k - 1
    <3>1. k # i
      BY <2>2
    <3>2. x \in 1..(n - 1) /\ r[x] = s[k]
      <4>1. CASE k < i
        BY <1>1, <1>5, <4>1
      <4>2. CASE k > i
        <5>1. x = k - 1 /\ x \in 1..(n - 1) /\ ~(x < i) /\ x + 1 = k
          BY <1>1, <4>2
        <5> QED
          BY <1>5, <5>1
      <4> QED
        BY <1>1, <3>1, <4>1, <4>2
    <3> HIDE DEF x
    <3> QED
      BY <1>5, <3>2 DEF Range
  <2> QED
    BY <1>1, <1>5, <2>1, <2>2 DEF Range
<1> QED
  BY <1>5, <1>6, <1>7 DEF n, r

(* Closing some of the blocks only moves them to the other list. *)
Within(I, s) == I \subseteq DOMAIN s

LEMMA ClosedBlocks ==
  ASSUME NEW V, NEW c \in Seq(V), NEW s \in Seq(V), NEW I, Within(I, s),
         Numbered(c \o s)
  PROVE  LET p == Picked(s, I)
             q == Picked(s, DOMAIN s \ I)
         IN  /\ p \in Seq(V) /\ q \in Seq(V)
             /\ Numbered((c \o p) \o q)
             /\ Range((c \o p) \o q) = Range(c \o s)
             /\ Len(c \o p) + Len(q) = Len(c) + Len(s)
<1> USE DEF Within
<1> DEFINE J == DOMAIN s \ I
           p == Picked(s, I)
           q == Picked(s, J)
<1>1. Numbered(c) /\ Numbered(s) /\ \A i \in DOMAIN c, j \in DOMAIN s : c[i].id # s[j].id
  BY NumberedConcat
<1>2. /\ p \in Seq(V) /\ Len(p) = Cardinality(I) /\ Range(p) = {s[i] : i \in I} /\ Numbered(p)
  BY <1>1, PickedBlocks
<1>3. /\ q \in Seq(V) /\ Len(q) = Cardinality(J) /\ Range(q) = {s[i] : i \in J} /\ Numbered(q)
  <2>1. J \subseteq DOMAIN s
    OBVIOUS
  <2> HIDE DEF J
  <2> QED
    BY <1>1, <2>1, PickedBlocks
<1>4. Cardinality(I) + Cardinality(J) = Len(s)
  <2>1. DOMAIN s = 1..Len(s) /\ Len(s) \in Nat
    OBVIOUS
  <2>2. IsFiniteSet(DOMAIN s) /\ Cardinality(DOMAIN s) = Len(s)
    <3>1. \A n \in Nat : IsFiniteSet(1..n) /\ Cardinality(1..n) = n
      BY FS_Interval
    <3> QED
      BY <2>1, <3>1
  <2>3. DOMAIN s \cap I = I
    OBVIOUS
  <2>4. Cardinality(J) = Cardinality(DOMAIN s) - Cardinality(I)
    BY <2>2, <2>3, FS_Difference
  <2>5. IsFiniteSet(I) /\ Cardinality(I) \in Nat
    BY <2>2, FS_Subset, FS_CardinalityType
  <2> QED
    BY <2>1, <2>2, <2>4, <2>5
<1> HIDE DEF p, q
<1>5. /\ c \o p \in Seq(V) /\ Len(c \o p) = Len(c) + Len(p)
      /\ Range(c \o p) = Range(c) \cup Range(p)
      /\ Range((c \o p) \o q) = Range(c \o p) \cup Range(q)
      /\ Range(c \o s) = Range(c) \cup Range(s)
  <2>0. p \in Seq(V) /\ q \in Seq(V)
    BY <1>2, <1>3
  <2>1. /\ c \o p \in Seq(V) /\ Len(c \o p) = Len(c) + Len(p)
        /\ Range(c \o p) = Range(c) \cup Range(p)
    BY <2>0, ConcatProperties, RangeConcatenation
  <2>2. Range((c \o p) \o q) = Range(c \o p) \cup Range(q)
    <3> DEFINE u == c \o p
    <3>1. u \in Seq(V)
      BY <2>1
    <3> HIDE DEF u
    <3>2. Range(u \o q) = Range(u) \cup Range(q)
      BY <2>0, <3>1, RangeConcatenation
    <3> QED
      BY <3>2 DEF u
  <2>3. Range(c \o s) = Range(c) \cup Range(s)
    BY RangeConcatenation
  <2> QED
    BY <2>1, <2>2, <2>3
<1>6. Range((c \o p) \o q) = Range(c \o s)
  <2>1. Range(s) = {s[i] : i \in I} \cup {s[i] : i \in J}
    BY DEF Range
  <2> QED
    BY <1>2, <1>3, <1>5, <2>1
<1>7. Numbered(c \o p)
  <2>1. \A i \in DOMAIN c, k \in DOMAIN p : c[i].id # p[k].id
    <3>1. \A k \in DOMAIN p : p[k] \in {s[i] : i \in I}
      BY <1>2 DEF Range
    <3> QED
      BY <1>1, <3>1
  <2> QED
    BY <1>1, <1>2, <2>1, NumberedConcat
<1>8. Numbered((c \o p) \o q)
  <2>1. \A i \in DOMAIN (c \o p), k \in DOMAIN q : (c \o p)[i].id # q[k].id
    <3>1. \A i \in DOMAIN (c \o p) : (c \o p)[i] \in Range(c) \cup {s[j] : j \in I}
      BY <1>2, <1>5 DEF Range
    <3>2. \A k \in DOMAIN q : q[k] \in {s[j] : j \in J}
      BY <1>3 DEF Range
    <3>3. \A x \in Range(c), j \in J : x.id # s[j].id
      BY <1>1 DEF Range
    <3>4. \A i \in I, j \in J : s[i].id # s[j].id
      BY <1>1 DEF Numbered
    <3> HIDE DEF J
    <3> QED
      BY <3>1, <3>2, <3>3, <3>4
  <2> QED
    BY <1>3, <1>5, <1>7, <2>1, NumberedConcat
<1>9. Len(c \o p) + Len(q) = Len(c) + Len(s)
  <2>1. Len(c) \in Nat /\ Len(p) \in Nat /\ Len(q) \in Nat
    BY <1>2, <1>3
  <2>2. Len(p) + Len(q) = Len(s)
    BY <1>2, <1>3, <1>4
  <2> QED
    BY <1>5, <2>1, <2>2
<1> QED
  BY <1>2, <1>3, <1>6, <1>8, <1>9 DEF p, q

-------------------------------------------------------------------------------
(* The inductive invariant.                                                    *)

BlockType ==
  [id : Nat, trips : Seq(TripIds(problem)), start : Int, end : Int, soc : Int \cup {NoSoc}]

All == Range(AllBlocks)
TripsOf(B) == UNION {Range(b.trips) : b \in B}

(* Every block has a number of its own and a trip; no block stays closed after *)
(* the placing.                                                                *)
Listed ==
  /\ problem \in Problems /\ nextId \in Nat
  /\ closed \in Seq(BlockType) /\ blocks \in Seq(BlockType)
  /\ Numbered(AllBlocks)
  /\ \A b \in All : b.trips # <<>> /\ b.id < nextId
  /\ stage # "placing" => closed = <<>>

Apart(B) == \A b, c \in B : b # c => Range(b.trips) \cap Range(c.trips) = {}

(* Trips that wait, trips left out and the trips of the blocks.  After the     *)
(* placing todo holds numbers of blocks.                                       *)
Waiting == IF stage = "placing" THEN Range(todo) ELSE {}
Parted ==
  /\ stage = "placing" => todo \in Seq(TripIds(problem)) /\ IsInjective(todo)
  /\ \A b \in All : IsInjective(b.trips)
  /\ Apart(All)
  /\ Waiting \cup unassigned \cup TripsOf(All) = TripIds(problem)
  /\ Waiting \cap unassigned = {}
  /\ (Waiting \cup unassigned) \cap TripsOf(All) = {}

Runs(b) ==
  /\ \A i \in 1..Len(b.trips) - 1 : Follows(b.trips[i], b.trips[i + 1])
  /\ Len(b.trips) > 1 => SpreadOf(problem, b.trips) <= Span

(* Where blocks keep to a depot, both ends of a block are there too: the       *)
(* loops compare trips with the ends.  A block with a trip put in its middle   *)
(* keeps neither to its depot nor to its charge.                               *)
DepotsBind == prm.sameDepot /\ (problem.depot # 0 \/ \A t \in TripIds(problem) : Trip(t).depot # 0)
AtHome(b) == Untouched(b) =>
  /\ b.start # 0 /\ b.end = b.start
  /\ \A t \in Range(b.trips) : Trip(t).depot \in {0, b.start}

BatteriesBind == Vehicle.electric /\ Range(problem.fleet) = {Vehicle}
Charged(b) == Untouched(b) =>
  /\ \A i \in DOMAIN b.trips : Replay(b)[i] >= Vehicle.min
  /\ b.soc = Replay(b)[Len(b.trips)]

(* A block is good if it has its trips once each and keeps every limit.        *)
Good(b) ==
  /\ b \in BlockType /\ b.trips # <<>> /\ IsInjective(b.trips)
  /\ Runs(b)
  /\ DepotsBind => AtHome(b)
  /\ BatteriesBind => Charged(b)

(* Electric blocks are not rearranged after the placing. *)
Sound ==
  /\ \A b \in All : Runs(b)
  /\ DepotsBind => \A b \in All : AtHome(b)
  /\ BatteriesBind => \A b \in All : Charged(b)
  /\ Vehicle.electric /\ stage # "placing" => todo = <<>>
  /\ FleetWithinLimit

VehicleInv == Listed /\ Parted /\ Sound

-------------------------------------------------------------------------------
(* The initial state: every trip waits once.                                   *)

LEMMA EarlierOrders ==
  ASSUME problem \in Problems
  PROVE  LET E(a, b) == Earlier(problem, a, b)
         IN  /\ \A a \in TripIds(problem) : ~E(a, a)
             /\ \A a, b \in TripIds(problem) : a # b => E(a, b) \/ E(b, a)
             /\ \A a, b, c \in TripIds(problem) : E(a, b) /\ E(b, c) => E(a, c)
<1>1. \A t \in TripIds(problem) : /\ problem.trips[t].st \in Int /\ problem.trips[t].en \in Int
                                  /\ t \in Int
  BY TripTyped, TripsFinite DEF Trip, TripType
<1>2. \A a, b, c \in TripIds(problem) :
        Earlier(problem, a, b) /\ Earlier(problem, b, c) => Earlier(problem, a, c)
  <2>1. SUFFICES ASSUME NEW a \in TripIds(problem), NEW b \in TripIds(problem),
                        NEW c \in TripIds(problem),
                        Earlier(problem, a, b), Earlier(problem, b, c)
                 PROVE  Earlier(problem, a, c)
    OBVIOUS
  <2> QED
    BY <1>1, <2>1 DEF Earlier
<1> QED
  BY <1>1, <1>2 DEF Earlier

LEMMA TripsSorted ==
  ASSUME problem \in Problems
  PROVE  /\ SortTrips(problem) \in Seq(TripIds(problem))
         /\ IsInjective(SortTrips(problem))
         /\ Range(SortTrips(problem)) = TripIds(problem)
<1> DEFINE S == TripIds(problem)
           outbound(t) == {a \in S : IsVolta(problem, a, t)}
           lead(t) == IF outbound(t) = {} THEN t ELSE CHOOSE a \in outbound(t) : TRUE
           before(a, b) == \/ Earlier(problem, lead(a), lead(b))
                           \/ lead(a) = lead(b) /\ Earlier(problem, a, b)
           R == {p \in S \X S : before(p[1], p[2])}
           s == [i \in 1..Cardinality(S) |-> CHOOSE x \in S : Rank(R, S, x) = i - 1]
<1>1. \A t \in S : lead(t) \in S
  OBVIOUS
<1> HIDE DEF lead
<1>2. Orders(R, S)
  <2>1. \A x, y \in S : <<x, y>> \in R <=> before(x, y)
    OBVIOUS
  <2> HIDE DEF R
  <2>2. \A x \in S : ~before(x, x)
    BY <1>1, EarlierOrders
  <2>3. \A x, y \in S : x # y => before(x, y) \/ before(y, x)
    BY <1>1, EarlierOrders
  <2>4. ASSUME NEW x \in S, NEW y \in S, NEW z \in S, before(x, y), before(y, z)
        PROVE  before(x, z)
    <3>1. lead(x) \in S /\ lead(y) \in S /\ lead(z) \in S
      BY <1>1
    <3> QED
      BY <2>4, <3>1, EarlierOrders
  <2> HIDE DEF before, S
  <2> QED
    BY <2>1, <2>2, <2>3, <2>4 DEF Orders
<1>3. s \in Seq(S) /\ Range(s) = S /\ IsInjective(s)
  <2> DEFINE q == s
  <2>1. q = [i \in 1..Cardinality(S) |-> CHOOSE x \in S : Rank(R, S, x) = i - 1]
    OBVIOUS
  <2>2. IsFiniteSet(S)
    BY TripsFinite
  <2> HIDE DEF q, R, S
  <2>3. q \in Seq(S) /\ Range(q) = S /\ IsInjective(q)
    BY <1>2, <2>1, <2>2, SortedLists
  <2> QED
    BY <2>3 DEF q
<1>4. SortTrips(problem) = s
  <2> DEFINE left(i) == CHOOSE x \in S : Cardinality({y \in S : before(y, x)}) = i - 1
             right(i) == CHOOSE x \in S : Rank(R, S, x) = i - 1
  <2>1. \A x \in S : Cardinality({y \in S : before(y, x)}) = Rank(R, S, x)
    <3>1. \A x \in S : {y \in S : before(y, x)} = {y \in S : <<y, x>> \in R}
      OBVIOUS
    <3> QED
      BY <3>1 DEF Rank
  <2>2. \A i \in 1..Cardinality(S) : left(i) = right(i)
    <3> HIDE DEF before, R
    <3> QED
      BY <2>1
  <2>3. SortTrips(problem) = [i \in 1..Cardinality(S) |-> left(i)]
    BY DEF SortTrips, Sorted, lead
  <2> HIDE DEF left, right
  <2>4. [i \in 1..Cardinality(S) |-> left(i)] = [i \in 1..Cardinality(S) |-> right(i)]
    BY <2>2
  <2> QED
    BY <2>3, <2>4 DEF right
<1> QED
  BY <1>3, <1>4

LEMMA VehicleInit == GreedyInit => VehicleInv
<1> SUFFICES ASSUME GreedyInit PROVE VehicleInv
  OBVIOUS
<1> USE DEF GreedyInit
<1>1. AllBlocks = <<>> /\ All = {}
  BY DEF AllBlocks, All, Range
<1>2. Listed
  BY <1>1 DEF Listed, Numbered, BlockType
<1>3. Parted
  <2>1. TripsOf(All) = {}
    BY <1>1 DEF TripsOf
  <2> QED
    BY <1>1, <2>1, TripsSorted DEF Parted, Waiting, Apart
<1>4. Sound
  <2>1. Len(AllBlocks) = 0
    BY <1>1
  <2> QED
    BY <1>1, <2>1, PrmTyped DEF Sound, FleetWithinLimit
<1> QED
  BY <1>2, <1>3, <1>4 DEF VehicleInv

-------------------------------------------------------------------------------
(* The request does not change, so nothing that is said of one block does, nor *)
(* when one more trip is put in the middle of some block.                      *)
LEMMA SameRequest ==
  ASSUME UNCHANGED problem, inserted \subseteq inserted'
  PROVE  /\ UNCHANGED <<prm, Span, Vehicle, BlockType, DepotsBind, BatteriesBind, GreedyView>>
         /\ \A t : Trip(t)' = Trip(t)
         /\ \A a, b : Follows(a, b) => Follows(a, b)'
         /\ \A a, b : /\ IsConnectionFeasible(problem, GreedyView, a, b) /\ IdleOk(a, b)
                      /\ {a, b} \cap inserted' # {}
                      => Follows(a, b)'
         /\ \A b : Runs(b) => Runs(b)'
         /\ \A b : AtHome(b) => AtHome(b)'
         /\ \A b : Charged(b) => Charged(b)'
         /\ \A b : Good(b) => Good(b)'
<1>1. UNCHANGED <<prm, Span, Vehicle, BlockType>> /\ \A t : Trip(t)' = Trip(t)
  BY DEF prm, Span, Vehicle, BlockType, Trip
<1>2. UNCHANGED <<DepotsBind, BatteriesBind>>
  BY <1>1 DEF DepotsBind, BatteriesBind
<1>3. UNCHANGED GreedyView
  BY <1>1 DEF GreedyView, Layover
<1>4. \A a, b : Follows(a, b) => Follows(a, b)'
  BY <1>1, <1>3 DEF Follows, LineOk, IdleOk
<1>11. \A a, b : /\ IsConnectionFeasible(problem, GreedyView, a, b) /\ IdleOk(a, b)
                 /\ {a, b} \cap inserted' # {}
                 => Follows(a, b)'
  BY <1>1, <1>3 DEF Follows, IdleOk
<1>5. \A b : Replay(b)' = Replay(b)
  <2> SUFFICES ASSUME NEW b PROVE Replay(b)' = Replay(b)
    OBVIOUS
  <2> DEFINE charges(P, i) == /\ TripGap(P, b.trips[i - 1], b.trips[i]) > 0
                              /\ P.trips[b.trips[i]].depot \in {b.start} \ {0}
             gained(P, V, i) == V.rate * TripGap(P, b.trips[i - 1], b.trips[i])
             OneReplay(P, V, level) ==
               level = [i \in DOMAIN b.trips |->
                          (IF i = 1 THEN V.cap
                           ELSE IF charges(P, i) THEN Min2(V.cap, level[i - 1] + gained(P, V, i))
                                ELSE level[i - 1])
                            - P.trips[b.trips[i]].kwh]
             TheReplay(P, V) == CHOOSE level : OneReplay(P, V, level)
  <2>1. Replay(b) = TheReplay(problem, Vehicle)
    BY DEF Replay, Trip
  <2>2. Replay(b)' = TheReplay(problem', Vehicle')
    BY DEF Replay, Trip
  <2> HIDE DEF TheReplay
  <2> QED
    BY <1>1, <2>1, <2>2
<1>6. \A b : Runs(b) => Runs(b)'
  BY <1>1, <1>4 DEF Runs
<1>7. \A b : Untouched(b)' => Untouched(b)
  BY DEF Untouched
<1>8. \A b : AtHome(b) => AtHome(b)'
  BY <1>1, <1>7 DEF AtHome
<1>9. \A b : Charged(b) => Charged(b)'
  BY <1>1, <1>5, <1>7 DEF Charged
<1>10. \A b : Good(b) => Good(b)'
  BY <1>1, <1>2, <1>6, <1>8, <1>9 DEF Good
<1> QED
  BY <1>1, <1>2, <1>3, <1>4, <1>6, <1>8, <1>9, <1>10, <1>11

-------------------------------------------------------------------------------
(* The replay of a battery.                                                    *)

Recurses(g, n, a, step) == \A i \in 1..n : g[i] = IF i = 1 THEN a ELSE step[<<i, g[i - 1]>>]

(* A recursion along 1..n has a solution. *)
LEMMA RecursionExists ==
  ASSUME NEW V, NEW a \in V, NEW step \in [Nat \X V -> V], NEW n \in Nat
  PROVE  \E g \in [1..n -> V] : Recurses(g, n, a, step)
<1> DEFINE Solves(g, k) == \A i \in 1..k : g[i] = IF i = 1 THEN a ELSE step[<<i, g[i - 1]>>]
           Solved == {k \in Nat : \E g \in [1..k -> V] : Solves(g, k)}
<1>1. 0 \in Solved
  <2>1. [i \in 1..0 |-> a] \in [1..0 -> V] /\ Solves([i \in 1..0 |-> a], 0)
    OBVIOUS
  <2> QED
    BY <2>1
<1>2. ASSUME NEW k \in Nat, k \in Solved PROVE k + 1 \in Solved
  <2>1. PICK g \in [1..k -> V] : Solves(g, k)
    BY <1>2
  <2> DEFINE last == IF k = 0 THEN a ELSE step[<<k + 1, g[k]>>]
             h == [i \in 1..(k + 1) |-> IF i <= k THEN g[i] ELSE last]
  <2>2. last \in V
    <3>1. CASE k = 0
      BY <3>1
    <3>2. CASE k # 0
      <4>1. k + 1 \in Nat /\ g[k] \in V
        BY <3>2
      <4>2. <<k + 1, g[k]>> \in Nat \X V
        BY <4>1
      <4> QED
        BY <3>2, <4>2
    <3> QED
      BY <3>1, <3>2
  <2>3. h \in [1..(k + 1) -> V]
    <3> HIDE DEF last
    <3> QED
      BY <2>2
  <2>4. \A i \in 1..k : h[i] = g[i] /\ (i # 1 => h[i - 1] = g[i - 1])
    <3> HIDE DEF last
    <3> QED
      OBVIOUS
  <2>5. h[k + 1] = IF k + 1 = 1 THEN a ELSE step[<<k + 1, h[k + 1 - 1]>>]
    <3>1. h[k + 1] = last
      <4> HIDE DEF last
      <4> QED
        OBVIOUS
    <3>2. k # 0 => h[k + 1 - 1] = g[k]
      <4>1. k + 1 - 1 = k
        OBVIOUS
      <4> HIDE DEF last, h
      <4> QED
        BY <2>4, <4>1
    <3>3. CASE k = 0
      <4>1. last = a /\ k + 1 = 1
        BY <3>3
      <4> HIDE DEF h, last
      <4> QED
        BY <3>1, <4>1
    <3>4. CASE k # 0
      <4>1. last = step[<<k + 1, g[k]>>] /\ k + 1 # 1
        BY <3>4
      <4> HIDE DEF h, last
      <4> QED
        BY <3>1, <3>2, <3>4, <4>1
    <3> QED
      BY <3>3, <3>4
  <2> HIDE DEF h, last
  <2>6. Solves(h, k + 1)
    <3>1. SUFFICES ASSUME NEW i \in 1..(k + 1)
                   PROVE  h[i] = IF i = 1 THEN a ELSE step[<<i, h[i - 1]>>]
      OBVIOUS
    <3>2. CASE i \in 1..k
      BY <2>1, <2>4, <3>2
    <3>3. CASE i = k + 1
      BY <2>5, <3>3
    <3> QED
      BY <3>2, <3>3
  <2> HIDE DEF Solves
  <2> QED
    BY <2>3, <2>6
<1>3. n \in Solved
  <2> HIDE DEF Solved
  <2> QED
    BY <1>1, <1>2, NumberInduction
<1> QED
  BY <1>3 DEF Recurses

(* The charge before the block's trip i, with the charge c after the one before. *)
Before(b, i, c) ==
  IF /\ TripGap(problem, b.trips[i - 1], b.trips[i]) > 0
     /\ Trip(b.trips[i]).depot \in {b.start} \ {0}
  THEN Min2(Vehicle.cap, c + Vehicle.rate * TripGap(problem, b.trips[i - 1], b.trips[i]))
  ELSE c

LEMMA ReplayStep ==
  ASSUME problem \in Problems, NEW b \in BlockType
  PROVE  \A i \in DOMAIN b.trips :
           /\ Replay(b)[i] \in Int
           /\ Replay(b)[i] = (IF i = 1 THEN Vehicle.cap ELSE Before(b, i, Replay(b)[i - 1]))
                               - Trip(b.trips[i]).kwh
<1> DEFINE n == Len(b.trips)
           kwh(i) == Trip(b.trips[i]).kwh
<1>1. n \in Nat /\ DOMAIN b.trips = 1..n /\ \A i \in 1..n : b.trips[i] \in TripIds(problem)
  BY DEF BlockType
<1>2. /\ Vehicle.cap \in Int /\ Vehicle.rate \in Int
      /\ \A i \in 1..n : kwh(i) \in Int
  BY <1>1, VehicleTyped, TripTyped DEF VehicleType, TripType
<1>3. \A i \in 1..n : i # 1 => TripGap(problem, b.trips[i - 1], b.trips[i]) \in Int
  <2>1. \A t \in TripIds(problem) : problem.trips[t].st \in Int /\ problem.trips[t].en \in Int
    BY TripTyped DEF Trip, TripType
  <2>2. \A i \in 1..n : i # 1 => b.trips[i - 1] \in TripIds(problem) /\ b.trips[i] \in TripIds(problem)
    BY <1>1
  <2> QED
    BY <2>1, <2>2 DEF TripGap
<1>4. \A i \in 1..n, c \in Int : i # 1 => Before(b, i, c) \in Int
  <2>1. SUFFICES ASSUME NEW i \in 1..n, NEW c \in Int, i # 1 PROVE Before(b, i, c) \in Int
    OBVIOUS
  <2> DEFINE g == TripGap(problem, b.trips[i - 1], b.trips[i])
             m == Vehicle.rate * g
  <2>2. m \in Int
    <3>1. g \in Int
      BY <1>3, <2>1
    <3>2. \A x, y \in Int : x * y \in Int
      OBVIOUS
    <3> HIDE DEF g
    <3> QED
      BY <1>2, <3>1, <3>2
  <2>3. Before(b, i, c) \in {Min2(Vehicle.cap, c + m), c}
    BY DEF Before
  <2> HIDE DEF m
  <2>4. Min2(Vehicle.cap, c + m) \in Int
    BY <1>2, <2>2 DEF Min2
  <2> QED
    BY <2>3, <2>4
<1> DEFINE step == [p \in Nat \X Int |-> IF p[1] \in 2..n THEN Before(b, p[1], p[2]) - kwh(p[1]) ELSE 0]
           one == IF n = 0 THEN 0 ELSE Vehicle.cap - kwh(1)
<1>5. \A i \in Nat, c \in Int : step[<<i, c>>] = IF i \in 2..n THEN Before(b, i, c) - kwh(i) ELSE 0
  OBVIOUS
<1>6. step \in [Nat \X Int -> Int]
  <2>1. \A i \in 2..n, c \in Int : Before(b, i, c) \in Int /\ kwh(i) \in Int
    BY <1>1, <1>2, <1>4
  <2> HIDE DEF kwh, n
  <2> QED
    BY <2>1
<1>7. one \in Int
  BY <1>1, <1>2
<1> HIDE DEF step, one, kwh, n
<1>8. PICK g \in [1..n -> Int] : \A i \in 1..n : g[i] = IF i = 1 THEN one ELSE step[<<i, g[i - 1]>>]
  <2>1. n \in Nat
    BY <1>1
  <2>2. \E g \in [1..n -> Int] : Recurses(g, n, one, step)
    BY ONLY <1>6, <1>7, <2>1, RecursionExists
  <2> QED
    BY ONLY <2>2 DEF Recurses
<1> DEFINE OneReplay(level) ==
             level = [i \in DOMAIN b.trips |->
                        (IF i = 1 THEN Vehicle.cap
                         ELSE IF /\ TripGap(problem, b.trips[i - 1], b.trips[i]) > 0
                                 /\ Trip(b.trips[i]).depot \in {b.start} \ {0}
                         THEN Min2(Vehicle.cap,
                                   level[i - 1] + Vehicle.rate * TripGap(problem, b.trips[i - 1], b.trips[i]))
                         ELSE level[i - 1])
                          - Trip(b.trips[i]).kwh]
           Levels(level) ==
             /\ DOMAIN level = 1..n
             /\ \A i \in 1..n : level[i] = (IF i = 1 THEN Vehicle.cap ELSE Before(b, i, level[i - 1])) - kwh(i)
<1>9. Levels(g)
  <2>1. SUFFICES ASSUME NEW i \in 1..n
                 PROVE  g[i] = (IF i = 1 THEN Vehicle.cap ELSE Before(b, i, g[i - 1])) - kwh(i)
    OBVIOUS
  <2>2. CASE i = 1
    <3>1. g[i] = one
      BY ONLY <1>8, <2>2
    <3>2. n # 0
      BY <1>1, <2>2
    <3> QED
      BY <2>2, <3>1, <3>2 DEF one
  <2>3. CASE i # 1
    <3>1. i \in 2..n /\ i \in Nat /\ g[i - 1] \in Int
      BY <1>1, <2>3
    <3> QED
      BY <1>5, <1>8, <2>3, <3>1
  <2> QED
    BY <2>2, <2>3
<1>10. OneReplay(g)
  <2>1. g = [i \in DOMAIN b.trips |-> (IF i = 1 THEN Vehicle.cap ELSE Before(b, i, g[i - 1])) - kwh(i)]
    BY <1>1, <1>9
  <2> QED
    BY <2>1 DEF Before, kwh
<1>11. Replay(b) = CHOOSE level : OneReplay(level)
  BY DEF Replay
<1>12. OneReplay(Replay(b))
  <2> HIDE DEF OneReplay
  <2> QED
    BY <1>10, <1>11
<1> DEFINE r == Replay(b)
<1> HIDE DEF r
<1>13. Levels(r)
  <2>1. r = [i \in DOMAIN b.trips |-> (IF i = 1 THEN Vehicle.cap ELSE Before(b, i, r[i - 1])) - kwh(i)]
    BY <1>12 DEF Before, kwh, r
  <2> QED
    BY <1>1, <2>1
<1>14. \A i \in 1..n : r[i] \in Int
  <2> DEFINE Solved == {k \in Nat : k \in 1..n => r[k] \in Int}
  <2>1. 0 \in Solved
    OBVIOUS
  <2>2. ASSUME NEW k \in Nat, k \in Solved PROVE k + 1 \in Solved
    <3>1. SUFFICES ASSUME k + 1 \in 1..n PROVE r[k + 1] \in Int
      OBVIOUS
    <3>2. CASE k = 0
      BY <1>2, <1>13, <3>1, <3>2 DEF kwh
    <3>3. CASE k # 0
      <4>1. k \in 1..n /\ k + 1 # 1 /\ k + 1 - 1 = k
        BY <1>1, <3>1, <3>3
      <4>2. r[k] \in Int /\ r[k + 1] = Before(b, k + 1, r[k]) - kwh(k + 1)
        BY <1>13, <2>2, <3>1, <4>1
      <4>3. Before(b, k + 1, r[k]) \in Int /\ kwh(k + 1) \in Int
        BY <1>2, <1>4, <3>1, <4>1, <4>2 DEF kwh
      <4> QED
        BY <4>2, <4>3
    <3> QED
      BY <3>2, <3>3
  <2> HIDE DEF Solved
  <2>3. \A k \in Nat : k \in Solved
    BY <2>1, <2>2, NumberInduction
  <2> QED
    BY <1>1, <2>3 DEF Solved
<1> QED
  BY <1>1, <1>13, <1>14 DEF r, kwh

-------------------------------------------------------------------------------
(* Trips one after the other.                                                  *)
Linked(u) == \A i \in 1..Len(u) - 1 : Follows(u[i], u[i + 1])

LEMMA JoinedTrips ==
  ASSUME NEW V, NEW u \in Seq(V), NEW v \in Seq(V), u # <<>>, v # <<>>
  PROVE  /\ u \o v \in Seq(V) /\ u \o v # <<>> /\ Len(u \o v) = Len(u) + Len(v)
         /\ Range(u \o v) = Range(u) \cup Range(v)
         /\ (u \o v)[1] = u[1] /\ Last(u \o v) = Last(v)
         /\ IsInjective(u) /\ IsInjective(v) /\ Range(u) \cap Range(v) = {}
              => IsInjective(u \o v)
         /\ Linked(u) /\ Linked(v) /\ Follows(Last(u), v[1]) => Linked(u \o v)
<1> DEFINE m == Len(u)
           n == Len(v)
           w == u \o v
<1>1. /\ m \in Nat /\ n \in Nat /\ m >= 1 /\ n >= 1
      /\ DOMAIN u = 1..m /\ DOMAIN v = 1..n
  BY LenProperties, EmptySeq
<1>2. /\ w \in Seq(V) /\ Len(w) = m + n
      /\ \A i \in 1..(m + n) : w[i] = IF i <= m THEN u[i] ELSE v[i - m]
  BY ConcatProperties
<1>3. DOMAIN w = 1..(m + n) /\ w # <<>>
  BY <1>1, <1>2, LenProperties, EmptySeq
<1>4. Range(w) = Range(u) \cup Range(v)
  BY RangeConcatenation
<1> HIDE DEF m, n, w
<1>5. w[1] = u[1] /\ w[m + n] = v[n]
  <2>1. 1 \in 1..(m + n) /\ 1 <= m /\ m + n \in 1..(m + n) /\ ~(m + n <= m) /\ (m + n) - m = n
    BY <1>1
  <2> QED
    BY <1>2, <2>1
<1>6. ASSUME IsInjective(u), IsInjective(v), Range(u) \cap Range(v) = {}
      PROVE  IsInjective(w)
  <2>1. SUFFICES ASSUME NEW i \in 1..(m + n), NEW j \in 1..(m + n), w[i] = w[j] PROVE i = j
    BY <1>3 DEF IsInjective
  <2>2. \A k \in 1..(m + n) : \/ k \in 1..m /\ w[k] = u[k]
                              \/ k - m \in 1..n /\ w[k] = v[k - m]
    BY <1>1, <1>2
  <2>3. \A k \in 1..m, l \in 1..n : u[k] # v[l]
    BY <1>1, <1>6 DEF Range
  <2>4. CASE i \in 1..m /\ w[i] = u[i]
    <3>1. j \in 1..m /\ w[j] = u[j]
      BY <2>1, <2>2, <2>3, <2>4
    <3> QED
      BY <1>1, <1>6, <2>1, <2>4, <3>1 DEF IsInjective
  <2>5. CASE i - m \in 1..n /\ w[i] = v[i - m]
    <3>1. j - m \in 1..n /\ w[j] = v[j - m]
      BY <2>1, <2>2, <2>3, <2>5
    <3>2. i - m = j - m
      BY <1>1, <1>6, <2>1, <2>5, <3>1 DEF IsInjective
    <3> QED
      BY <1>1, <3>2
  <2> QED
    BY <2>2, <2>4, <2>5
<1>7. ASSUME Linked(u), Linked(v), Follows(u[m], v[1])
      PROVE  Linked(w)
  <2>1. SUFFICES ASSUME NEW i \in 1..(m + n) - 1 PROVE Follows(w[i], w[i + 1])
    BY <1>2 DEF Linked
  <2>2. i \in 1..(m + n) /\ i + 1 \in 1..(m + n)
    BY <1>1
  <2>3. CASE i < m
    <3>1. i \in 1..m - 1 /\ w[i] = u[i] /\ w[i + 1] = u[i + 1]
      BY <1>1, <1>2, <2>2, <2>3
    <3> QED
      BY <1>7, <3>1 DEF Linked, m
  <2>4. CASE i = m
    <3>1. w[i] = u[m] /\ w[i + 1] = v[1]
      BY <1>1, <1>2, <2>2, <2>4
    <3> QED
      BY <1>7, <3>1
  <2>5. CASE i > m
    <3>1. /\ i - m \in 1..n - 1 /\ (i + 1) - m = (i - m) + 1
          /\ ~(i <= m) /\ ~(i + 1 <= m)
      BY <1>1, <2>5
    <3>2. w[i] = v[i - m] /\ w[i + 1] = v[(i - m) + 1]
      BY <1>2, <2>2, <3>1
    <3>3. Follows(v[i - m], v[(i - m) + 1])
      BY <1>7, <3>1 DEF Linked, n
    <3> QED
      BY <3>2, <3>3
  <2> QED
    BY <1>1, <2>3, <2>4, <2>5
<1> QED
  BY <1>1, <1>2, <1>3, <1>4, <1>5, <1>6, <1>7 DEF m, n, w, Last

-------------------------------------------------------------------------------
(* What the costs are made of are numbers.                                     *)

LEMMA CostsTyped ==
  ASSUME problem \in Problems
  PROVE  /\ Bonus \in Int /\ Broken \in Int
         /\ \A a, b \in TripIds(problem) :
              TripGap(problem, a, b) \in Int /\ LinkCost(a, b) \in Int
         /\ \A t \in TripIds(problem) : EnergyCost(t) \in Int
<1>1. Vehicle \in VehicleType
  BY VehicleTyped
<1>2. Bonus \in Int /\ Broken \in Int
  <2>1. Fixed \in Int
    BY <1>1, PrmTyped DEF Fixed, OrElse, VehicleType
  <2>2. \A x \in Int : x \div 20 \in Int /\ (x * 5) \div 4 \in Int
    OBVIOUS
  <2> QED
    BY <2>1, <2>2 DEF Bonus, Broken
<1>3. \A t \in TripIds(problem) : /\ problem.trips[t].st \in Int /\ problem.trips[t].en \in Int
                                  /\ problem.trips[t].kwh \in Int
                                  /\ problem.trips[t].from \in DOMAIN problem.dead
                                  /\ problem.trips[t].to \in DOMAIN problem.dead
  BY TripTyped DEF Trip, TripType
<1>4. \A t \in TripIds(problem) : EnergyCost(t) \in Int
  <2>1. SUFFICES ASSUME NEW t \in TripIds(problem) PROVE EnergyCost(t) \in Int
    OBVIOUS
  <2>2. Trip(t).kwh \in Int /\ Vehicle.price \in Int
    BY <1>1, <1>3 DEF Trip, VehicleType
  <2>3. \A x, y \in Int : x * y \in Int
    OBVIOUS
  <2>4. Trip(t).kwh * Vehicle.price \in Int
    BY <2>2, <2>3
  <2> QED
    BY <2>4 DEF EnergyCost
<1>5. ASSUME NEW a \in TripIds(problem), NEW b \in TripIds(problem)
      PROVE  TripGap(problem, a, b) \in Int /\ LinkCost(a, b) \in Int
  <2>1. TripGap(problem, a, b) \in Int
    BY <1>3 DEF TripGap
  <2>2. Deadhead(problem, a, b) \in Int
    <3>1. problem.dead \in [DOMAIN problem.dead -> [DOMAIN problem.dead -> Int]]
      BY RequestsAssumption
    <3> QED
      BY <1>3, <3>1 DEF Deadhead
  <2>3. Layover \in Int
    BY PrmTyped DEF Layover, GreedyLayover, Max2, prm
  <2>4. Needed(a, b) \in Int
    BY <2>2, <2>3 DEF Needed, Max2
  <2> QED
    BY <2>1, <2>4 DEF LinkCost, Max2
<1> QED
  BY <1>2, <1>4, <1>5

LEMMA PairingTyped ==
  ASSUME problem \in Problems, NEW b, NEW t
  PROVE  PairingDelta(b, t) \in Int
<1>1. Bonus \in Int /\ Broken \in Int
  BY CostsTyped
<1>2. PairingDelta(b, t) \in {(-3) * Bonus, -Bonus, 0, Broken, (-2) * Bonus, -(Bonus \div 2)}
  BY DEF PairingDelta
<1>3. \A x \in Int : (-3) * x \in Int /\ -x \in Int /\ (-2) * x \in Int /\ -(x \div 2) \in Int
  OBVIOUS
<1> QED
  BY <1>1, <1>2, <1>3

-------------------------------------------------------------------------------
(* The blocks of the two lists.                                                *)

LEMMA AllListed ==
  ASSUME Listed
  PROVE  /\ AllBlocks \in Seq(BlockType) /\ Len(AllBlocks) = Len(closed) + Len(blocks)
         /\ Len(closed) \in Nat /\ Len(blocks) \in Nat
         /\ DOMAIN blocks = 1..Len(blocks)
         /\ All = Range(closed) \cup Range(blocks) /\ All \subseteq BlockType
         /\ Numbered(blocks)
         /\ stage # "placing" => AllBlocks = blocks
<1>1. closed \in Seq(BlockType) /\ blocks \in Seq(BlockType)
  BY DEF Listed
<1> HIDE DEF BlockType
<1>2. AllBlocks \in Seq(BlockType) /\ Len(AllBlocks) = Len(closed) + Len(blocks)
  BY <1>1, ConcatProperties DEF AllBlocks
<1>3. Len(closed) \in Nat /\ Len(blocks) \in Nat /\ DOMAIN blocks = 1..Len(blocks)
  BY <1>1, LenProperties
<1>4. All = Range(closed) \cup Range(blocks) /\ All \subseteq BlockType
  <2>1. Range(closed \o blocks) = Range(closed) \cup Range(blocks)
    BY <1>1, RangeConcatenation
  <2>2. Range(AllBlocks) \in SUBSET BlockType
    BY <1>2, RangeOfSeq
  <2> QED
    BY <2>1, <2>2 DEF All, AllBlocks
<1>5. Numbered(blocks)
  BY <1>1, NumberedConcat DEF Listed, AllBlocks
<1>6. stage # "placing" => AllBlocks = blocks
  BY <1>1, ConcatEmptySeq DEF Listed, AllBlocks
<1> QED
  BY <1>2, <1>3, <1>4, <1>5, <1>6

LEMMA BlockTyped ==
  ASSUME Listed, NEW b \in All
  PROVE  /\ b \in BlockType /\ b.id \in Nat /\ b.start \in Int /\ b.end \in Int
         /\ b.trips \in Seq(TripIds(problem)) /\ b.trips # <<>>
         /\ Len(b.trips) \in Nat /\ Len(b.trips) >= 1 /\ DOMAIN b.trips = 1..Len(b.trips)
         /\ b.trips[1] \in TripIds(problem) /\ Last(b.trips) \in TripIds(problem)
         /\ b.trips[1] \in Range(b.trips) /\ Last(b.trips) \in Range(b.trips)
<1>1. b \in BlockType /\ b.trips # <<>>
  BY AllListed DEF Listed
<1>2. b.id \in Nat /\ b.start \in Int /\ b.end \in Int /\ b.trips \in Seq(TripIds(problem))
  BY <1>1 DEF BlockType
<1> DEFINE u == b.trips
<1>3. u \in Seq(TripIds(problem)) /\ u # <<>>
  BY <1>1, <1>2
<1> HIDE DEF u
<1>4. Len(u) \in Nat /\ DOMAIN u = 1..Len(u) /\ Len(u) >= 1
  BY <1>3, LenProperties, EmptySeq
<1>5. 1 \in 1..Len(u) /\ Len(u) \in 1..Len(u)
  BY <1>4
<1>6. u[1] \in TripIds(problem) /\ u[Len(u)] \in TripIds(problem)
  BY <1>3, <1>5, ElementOfSeq
<1>7. u[1] \in Range(u) /\ u[Len(u)] \in Range(u)
  BY <1>4, <1>5 DEF Range
<1> QED
  BY <1>1, <1>2, <1>4, <1>6, <1>7 DEF u, Last

-------------------------------------------------------------------------------
(* A candidate is a block the trip fits behind, or can be put in the middle of. *)

Takes(b, t, k) == IF k = 0 THEN Fits(b, t) ELSE Squeezes(b, t, k)

LEMMA GroupFits ==
  ASSUME Listed, NEW t \in TripIds(problem), NEW c \in GroupCandidates(t)
  PROVE  \E b \in All : b.id = c.id /\ Takes(b, t, c.behind)
<1> DEFINE order == SortTrips(problem)
           mates == {i \in DOMAIN order : Trip(order[i]).group = Trip(t).group /\ order[i] # t}
           placed == {i \in mates : BlockOf(order[i]) # {}}
           target == CHOOSE b \in BlockOf(order[Min(placed)]) : TRUE
<1>1. /\ placed # {}
      /\ \/ Fits(target, t) /\ c = Candidate(target, t, (-3) * Bonus, TRUE)
         \/ \E k \in DOMAIN target.trips :
               /\ Squeezes(target, t, k)
               /\ c = [id |-> target.id, cost |-> (-3) * Bonus, keeps |-> FALSE, behind |-> k]
  BY DEF GroupCandidates
<1>2. IsFiniteSet(placed) /\ placed \subseteq Int
  <2>1. order \in Seq(TripIds(problem))
    BY TripsSorted DEF Listed
  <2>2. Len(order) \in Nat /\ DOMAIN order = 1..Len(order)
    BY <2>1, LenProperties
  <2>3. IsFiniteSet(1..Len(order))
    BY <2>2, FS_Interval
  <2>4. placed \in SUBSET (1..Len(order))
    BY <2>2
  <2> HIDE DEF placed
  <2> QED
    <3>1. IsFiniteSet(placed)
      BY <2>3, <2>4, FS_Subset
    <3> QED
      BY <2>2, <2>4, <3>1
<1> DEFINE f == [i \in placed |-> i]
<1>3. Min(placed) \in placed
  <2>1. IntsOn(f, placed) /\ \A i \in placed : f[i] = i
    BY <1>2 DEF IntsOn
  <2> HIDE DEF f, placed
  <2>2. \E i \in placed : \A j \in placed : f[i] < f[j] \/ (f[i] = f[j] /\ i <= j)
    BY <1>1, <1>2, <2>1, LeastExists
  <2>3. \E i \in placed : \A j \in placed : i <= j
    BY <1>2, <2>1, <2>2
  <2> QED
    BY <2>3 DEF Min
<1>4. target \in BlockOf(order[Min(placed)])
  BY <1>3
<1> HIDE DEF target
<1>5. target \in All /\ target.id = c.id
  BY <1>1, <1>4 DEF BlockOf, All, Candidate
<1>6. Takes(target, t, c.behind)
  <2>1. CASE Fits(target, t) /\ c = Candidate(target, t, (-3) * Bonus, TRUE)
    BY <2>1 DEF Takes, Candidate
  <2>2. ASSUME NEW k \in DOMAIN target.trips, Squeezes(target, t, k),
               c = [id |-> target.id, cost |-> (-3) * Bonus, keeps |-> FALSE, behind |-> k]
        PROVE  Takes(target, t, c.behind)
    <3>1. c.behind = k /\ k # 0
      BY <2>2 DEF Squeezes
    <3> QED
      BY <2>2, <3>1 DEF Takes
  <2> QED
    BY <1>1, <2>1, <2>2
<1> QED
  BY <1>5, <1>6

LEMMA BestFits ==
  ASSUME Listed, NEW t \in TripIds(problem), NEW c \in BestCandidates(t)
  PROVE  \E b \in All : b.id = c.id /\ Takes(b, t, c.behind)
<1> DEFINE open == {i \in DOMAIN blocks : /\ ~Reserved(blocks[i], t)
                                          /\ Fits(blocks[i], t)
                                          /\ GroupSpanFits(blocks[i], t)}
           key(i) == LinkCost(Last(blocks[i].trips), t) + EnergyCost(t) + PairingDelta(blocks[i], t)
           at == CHOOSE i \in open :
                   \A j \in open : key(i) < key(j) \/ (key(i) = key(j) /\ i <= j)
           f == [i \in open |-> key(i)]
<1>1. /\ open # {}
      /\ c.id = blocks[at].id /\ c.behind = 0
  BY DEF BestCandidates, Candidate, FirstLeast
<1>2. open \in SUBSET (1..Len(blocks)) /\ Len(blocks) \in Nat
  BY AllListed
<1>3. \A i \in open : key(i) \in Int
  <2>1. SUFFICES ASSUME NEW i \in open PROVE key(i) \in Int
    OBVIOUS
  <2>2. blocks[i] \in All
    BY AllListed DEF Range
  <2>3. Last(blocks[i].trips) \in TripIds(problem)
    BY <2>2, BlockTyped
  <2>4. problem \in Problems
    BY DEF Listed
  <2>5. LinkCost(Last(blocks[i].trips), t) \in Int /\ EnergyCost(t) \in Int
    BY <2>3, <2>4, CostsTyped
  <2>6. PairingDelta(blocks[i], t) \in Int
    BY <2>4, PairingTyped
  <2> QED
    BY <2>5, <2>6
<1>4. IsFiniteSet(open) /\ open \subseteq Int
  <2> HIDE DEF open
  <2>1. IsFiniteSet(1..Len(blocks))
    BY <1>2, FS_Interval
  <2>2. IsFiniteSet(open)
    BY <1>2, <2>1, FS_Subset
  <2> QED
    BY <1>2, <2>2
<1> HIDE DEF key
<1>5. IntsOn(f, open) /\ \A i \in open : f[i] = key(i)
  BY <1>3 DEF IntsOn
<1>6. \E i \in open : \A j \in open : f[i] < f[j] \/ (f[i] = f[j] /\ i <= j)
  <2> HIDE DEF f, open
  <2> QED
    BY <1>1, <1>4, <1>5, LeastExists
<1>7. at \in open
  <2> HIDE DEF f, open
  <2> QED
    BY <1>5, <1>6
<1> HIDE DEF at
<1>8. blocks[at] \in All /\ Fits(blocks[at], t)
  BY <1>7, AllListed DEF Range
<1> QED
  BY <1>1, <1>8 DEF Takes

LEMMA CandidateFits ==
  ASSUME Listed, NEW t \in TripIds(problem), NEW c \in Candidates(t)
  PROVE  \E b \in All : b.id = c.id /\ Takes(b, t, c.behind)
<1>1. CASE c \in GroupCandidates(t)
  BY <1>1, GroupFits
<1>2. CASE c \in PairCandidates(t)
  BY <1>2 DEF PairCandidates, Candidate, Takes, All
<1>3. CASE c \in BestCandidates(t)
  BY <1>3, BestFits
<1> QED
  BY <1>1, <1>2, <1>3 DEF Candidates

-------------------------------------------------------------------------------
(* The replay of a block with one more trip behind it.                         *)
LEMMA ReplayExtends ==
  ASSUME problem \in Problems, NEW b \in BlockType, NEW c \in BlockType,
         NEW t \in TripIds(problem), c.start = b.start, c.trips = Append(b.trips, t)
  PROVE  LET n == Len(b.trips)
         IN  /\ \A i \in 1..n : Replay(c)[i] = Replay(b)[i]
             /\ n = 0 => Replay(c)[1] = Vehicle.cap - Trip(t).kwh
             /\ n > 0 => Replay(c)[n + 1] = Before(c, n + 1, Replay(b)[n]) - Trip(t).kwh
<1> DEFINE n == Len(b.trips)
           u == b.trips
           v == c.trips
           r == Replay(b)
           q == Replay(c)
<1>1. u \in Seq(TripIds(problem)) /\ v = Append(u, t) /\ n = Len(u)
  BY DEF BlockType
<1> HIDE DEF u, v, n, r, q
<1>2. /\ n \in Nat /\ DOMAIN u = 1..n /\ DOMAIN v = 1..(n + 1)
      /\ \A i \in 1..n : v[i] = u[i]
      /\ v[n + 1] = t
  <2>1. v \in Seq(TripIds(problem)) /\ Len(v) = n + 1
    BY <1>1, AppendProperties
  <2>2. (\A i \in 1..n : v[i] = u[i]) /\ v[n + 1] = t
    BY <1>1, AppendProperties
  <2>3. n \in Nat /\ DOMAIN u = 1..n /\ DOMAIN v = 1..(n + 1)
    BY <1>1, <2>1, LenProperties
  <2> QED
    BY <2>2, <2>3
<1>3. \A i \in 1..n : /\ r[i] \in Int
                      /\ r[i] = (IF i = 1 THEN Vehicle.cap ELSE Before(b, i, r[i - 1])) - Trip(u[i]).kwh
  <2>1. \A i \in DOMAIN b.trips :
          /\ Replay(b)[i] \in Int
          /\ Replay(b)[i] = (IF i = 1 THEN Vehicle.cap ELSE Before(b, i, Replay(b)[i - 1]))
                              - Trip(b.trips[i]).kwh
    BY ReplayStep
  <2> QED
    BY <1>2, <2>1 DEF u, r
<1>4. \A i \in 1..(n + 1) :
        q[i] = (IF i = 1 THEN Vehicle.cap ELSE Before(c, i, q[i - 1])) - Trip(v[i]).kwh
  <2>1. \A i \in DOMAIN c.trips :
          /\ Replay(c)[i] \in Int
          /\ Replay(c)[i] = (IF i = 1 THEN Vehicle.cap ELSE Before(c, i, Replay(c)[i - 1]))
                              - Trip(c.trips[i]).kwh
    BY ReplayStep
  <2> QED
    BY <1>2, <2>1 DEF v, q
<1>5. ASSUME NEW i \in 2..n, NEW x PROVE Before(c, i, x) = Before(b, i, x)
  <2>1. v[i] = u[i] /\ v[i - 1] = u[i - 1]
    <3>1. i \in 1..n /\ i - 1 \in 1..n
      BY <1>2
    <3> QED
      BY <1>2, <3>1
  <2> QED
    BY <2>1 DEF Before, u, v
<1>6. \A i \in 1..n : q[i] = r[i]
  <2> DEFINE Same == {k \in Nat : k \in 1..n => q[k] = r[k]}
  <2>1. 0 \in Same
    OBVIOUS
  <2>2. ASSUME NEW k \in Nat, k \in Same PROVE k + 1 \in Same
    <3>1. SUFFICES ASSUME k + 1 \in 1..n PROVE q[k + 1] = r[k + 1]
      OBVIOUS
    <3>2. k + 1 \in 1..(n + 1) /\ v[k + 1] = u[k + 1] /\ k + 1 - 1 = k
      BY <1>2, <3>1
    <3>3. CASE k = 0
      <4>1. k + 1 = 1
        BY <3>3
      <4> QED
        BY <1>3, <1>4, <3>1, <3>2, <4>1
    <3>4. CASE k # 0
      <4>1. k + 1 \in 2..n /\ k \in 1..n /\ k + 1 # 1
        BY <1>2, <3>1, <3>4
      <4>2. q[k] = r[k]
        BY <2>2, <4>1
      <4>3. q[k + 1] = Before(c, k + 1, q[k]) - Trip(v[k + 1]).kwh
        BY <1>4, <3>2, <4>1
      <4>4. r[k + 1] = Before(b, k + 1, r[k]) - Trip(u[k + 1]).kwh
        BY <1>3, <3>1, <3>2, <4>1
      <4> QED
        BY <1>5, <3>2, <4>1, <4>2, <4>3, <4>4
    <3> QED
      BY <3>3, <3>4
  <2> HIDE DEF Same
  <2>3. \A k \in Nat : k \in Same
    BY <2>1, <2>2, NumberInduction
  <2> QED
    BY <1>2, <2>3 DEF Same
<1>7. n = 0 => q[1] = Vehicle.cap - Trip(t).kwh
  <2>1. SUFFICES ASSUME n = 0 PROVE q[1] = Vehicle.cap - Trip(t).kwh
    OBVIOUS
  <2>2. 1 \in 1..(n + 1) /\ v[1] = t
    BY <1>2, <2>1
  <2> QED
    BY <1>4, <2>2
<1>8. n > 0 => q[n + 1] = Before(c, n + 1, r[n]) - Trip(t).kwh
  <2>1. SUFFICES ASSUME n > 0 PROVE q[n + 1] = Before(c, n + 1, r[n]) - Trip(t).kwh
    OBVIOUS
  <2>2. n + 1 \in 1..(n + 1) /\ n + 1 # 1 /\ n + 1 - 1 = n /\ n \in 1..n
    BY <1>2, <2>1
  <2> QED
    BY <1>2, <1>4, <1>6, <2>2
<1> QED
  BY <1>6, <1>7, <1>8 DEF n, q, r

-------------------------------------------------------------------------------
LEMMA AllGood ==
  ASSUME VehicleInv, NEW b \in All
  PROVE  Good(b)
BY AllListed DEF VehicleInv, Listed, Parted, Sound, Good

(* A new block of one trip. *)
LEMMA NewBlockGood ==
  ASSUME Listed, NEW t \in TripIds(problem), Powered(t), NEW n,
         n = [id |-> nextId, trips |-> <<t>>, start |-> StartDepot(t), end |-> StartDepot(t),
              soc |-> SocOfNew(t)]
  PROVE  Good(n) /\ Range(n.trips) = {t} /\ n.id = nextId
<1>1. /\ problem \in Problems /\ nextId \in Nat
  BY DEF Listed
<1>2. Trip(t) \in TripType(problem) /\ Trip(t).depot \in Int /\ Trip(t).kwh \in Int
  BY <1>1, TripTyped DEF TripType
<1>3. StartDepot(t) \in Int
  BY <1>1, <1>2, PrmTyped DEF StartDepot, OrElse
<1>4. TypeFor(t) \in VehicleType
  BY <1>1, VehicleTyped
<1>5. SocOfNew(t) \in Int \cup {NoSoc}
  BY <1>2, <1>4 DEF SocOfNew, VehicleType
<1>6. <<t>> \in Seq(TripIds(problem)) /\ Len(<<t>>) = 1 /\ <<t>>[1] = t /\ <<t>> # <<>>
  OBVIOUS
<1>7. n \in BlockType /\ n.trips = <<t>> /\ n.id = nextId
  BY <1>1, <1>3, <1>5, <1>6 DEF BlockType
<1>8. IsInjective(n.trips) /\ Range(n.trips) = {t}
  BY <1>7 DEF IsInjective, Range
<1>9. Runs(n)
  BY <1>6, <1>7 DEF Runs
<1>10. ASSUME DepotsBind PROVE AtHome(n)
  <2>1. StartDepot(t) # 0 /\ Trip(t).depot \in {0, StartDepot(t)}
    BY <1>10 DEF DepotsBind, StartDepot, OrElse
  <2> QED
    BY <1>8, <2>1 DEF AtHome
<1>11. ASSUME BatteriesBind PROVE Charged(n)
  <2>1. TypeFor(t) = Vehicle /\ Vehicle.electric
    BY <1>1, <1>11, VehicleTyped DEF BatteriesBind
  <2>2. n.soc = Vehicle.cap - Trip(t).kwh /\ n.soc >= Vehicle.min
    BY <2>1 DEF SocOfNew, Powered
  <2>3. Replay(n)[1] = Vehicle.cap - Trip(t).kwh
    <3>1. \A i \in DOMAIN n.trips :
            Replay(n)[i] = (IF i = 1 THEN Vehicle.cap ELSE Before(n, i, Replay(n)[i - 1]))
                             - Trip(n.trips[i]).kwh
      BY <1>1, <1>7, ReplayStep
    <3> QED
      BY <1>6, <1>7, <3>1
  <2>4. DOMAIN n.trips = {1} /\ Len(n.trips) = 1
    BY <1>6, <1>7
  <2> QED
    BY <2>2, <2>3, <2>4 DEF Charged
<1> QED
  BY <1>6, <1>7, <1>8, <1>9, <1>10, <1>11 DEF Good

(* Trips put together from two parts that run run, if the parts connect and    *)
(* the whole is not too long.                                                  *)
LEMMA JoinedRuns ==
  ASSUME NEW u \in Seq(TripIds(problem)), NEW v \in Seq(TripIds(problem)), u # <<>>, v # <<>>,
         Linked(u), Linked(v), Follows(Last(u), v[1]),
         Trip(Last(v)).en - Trip(u[1]).st <= Span,
         NEW n, n.trips = u \o v
  PROVE  Runs(n)
<1> DEFINE w == u \o v
<1>1. Linked(w) /\ w[1] = u[1] /\ Last(w) = Last(v)
  BY JoinedTrips
<1>2. SpreadOf(problem, w) <= Span
  BY <1>1 DEF SpreadOf, Trip
<1> HIDE DEF w
<1>3. n.trips = w
  BY DEF w
<1> QED
  BY <1>1, <1>2, <1>3 DEF Runs, Linked

LEMMA SingleLinked == \A t : Linked(<<t>>)
BY DEF Linked

(* A block with one more trip behind it. *)
LEMMA WithTripGood ==
  ASSUME VehicleInv, NEW b \in All, NEW t \in TripIds(problem), t \notin Range(b.trips), Fits(b, t)
  PROVE  LET c == WithTrip(b, t)
         IN  Good(c) /\ c.id = b.id /\ Range(c.trips) = Range(b.trips) \cup {t}
<1> DEFINE c == WithTrip(b, t)
           end == OrElse(Trip(t).depot, b.start)
           soc == IF Vehicle.electric THEN SocAfter(b, t) ELSE b.soc
<1>0. Listed /\ problem \in Problems /\ Good(b)
  BY AllGood DEF VehicleInv, Listed
<1>1. /\ b \in BlockType /\ b.start \in Int /\ b.trips \in Seq(TripIds(problem)) /\ b.trips # <<>>
      /\ Last(b.trips) \in TripIds(problem) /\ Len(b.trips) \in Nat /\ Len(b.trips) >= 1
  BY <1>0, BlockTyped
<1>2. Trip(t).depot \in Int /\ Trip(t).kwh \in Int
  BY <1>0, TripTyped DEF TripType
<1>3. Vehicle \in VehicleType
  BY <1>0, VehicleTyped
<1>4. TripGap(problem, Last(b.trips), t) \in Int
  BY <1>0, <1>1, CostsTyped
<1>5. Recharged(b, t) \in Int
  <2>1. SocAt(b) \in Int
    BY <1>1, <1>3 DEF SocAt, BlockType, VehicleType
  <2>2. Vehicle.rate * TripGap(problem, Last(b.trips), t) \in Int
    <3>1. \A x, y \in Int : x * y \in Int
      OBVIOUS
    <3>2. Vehicle.rate \in Int
      BY <1>3 DEF VehicleType
    <3> QED
      BY <1>4, <3>1, <3>2
  <2>3. Vehicle.cap \in Int
    BY <1>3 DEF VehicleType
  <2> QED
    BY <2>1, <2>2, <2>3 DEF Recharged, Min2
<1>6. soc \in Int \cup {NoSoc}
  BY <1>1, <1>2, <1>5 DEF SocAfter, BlockType
<1>7. end \in Int
  BY <1>1, <1>2 DEF OrElse
<1>8. /\ c.id = b.id /\ c.start = b.start /\ c.trips = Append(b.trips, t) /\ c.end = end /\ c.soc = soc
      /\ c = [id |-> b.id, trips |-> Append(b.trips, t), start |-> b.start, end |-> end, soc |-> soc]
  <2>1. c = [[[b EXCEPT !.trips = Append(b.trips, t)] EXCEPT !.end = end] EXCEPT !.soc = soc]
    BY <1>1 DEF WithTrip, BlockType
  <2> DEFINE u == Append(b.trips, t)
  <2>2. /\ b = [id |-> b.id, trips |-> b.trips, start |-> b.start, end |-> b.end, soc |-> b.soc]
        /\ c = [[[b EXCEPT !.trips = u] EXCEPT !.end = end] EXCEPT !.soc = soc]
    BY <1>1, <2>1 DEF BlockType
  <2> HIDE DEF c, end, soc, u
  <2>3. c = [id |-> b.id, trips |-> u, start |-> b.start, end |-> end, soc |-> soc]
    BY ONLY <2>2
  <2> QED
    BY <2>3 DEF u
<1>9. Append(b.trips, t) = b.trips \o <<t>> /\ Append(b.trips, t) \in Seq(TripIds(problem))
  BY <1>1, AppendIsConcat, AppendProperties
<1>10. c \in BlockType
  BY <1>1, <1>6, <1>7, <1>8, <1>9 DEF BlockType
<1> HIDE DEF c, end, soc
<1>11. /\ <<t>> \in Seq(TripIds(problem)) /\ <<t>> # <<>> /\ <<t>>[1] = t /\ Last(<<t>>) = t
       /\ IsInjective(<<t>>) /\ Range(<<t>>) = {t}
  BY DEF Last, IsInjective, Range
<1>12. c.trips # <<>> /\ IsInjective(c.trips) /\ Range(c.trips) = Range(b.trips) \cup {t}
  <2> DEFINE u == b.trips
             v == <<t>>
  <2>1. u \in Seq(TripIds(problem)) /\ u # <<>> /\ IsInjective(u) /\ Range(u) \cap Range(v) = {}
    BY <1>0, <1>1, <1>11 DEF Good
  <2>2. v \in Seq(TripIds(problem)) /\ v # <<>> /\ IsInjective(v)
    BY <1>11
  <2>3. c.trips = u \o v
    BY <1>8, <1>9
  <2> HIDE DEF u, v
  <2>4. c.trips # <<>> /\ IsInjective(c.trips) /\ Range(c.trips) = Range(u) \cup Range(v)
    BY <2>1, <2>2, <2>3, JoinedTrips
  <2> QED
    BY <1>11, <2>4 DEF u, v
<1>13. Runs(c)
  <2>1. Linked(b.trips) /\ Linked(<<t>>)
    BY <1>0, SingleLinked DEF Good, Runs, Linked
  <2>2. Follows(Last(b.trips), t) /\ Trip(t).en - Trip(b.trips[1]).st <= Span
    BY DEF Fits, LinkOk, Follows
  <2>3. c.trips = b.trips \o <<t>>
    BY <1>8, <1>9
  <2> QED
    BY <1>1, <1>11, <2>1, <2>2, <2>3, JoinedRuns
<1>16. Untouched(c) => Untouched(b)
  BY <1>12 DEF Untouched
<1>14. ASSUME DepotsBind PROVE AtHome(c)
  <2>0. SUFFICES ASSUME Untouched(b)
                 PROVE  /\ c.start # 0 /\ c.end = c.start
                        /\ \A x \in Range(c.trips) : Trip(x).depot \in {0, c.start}
    BY <1>16 DEF AtHome
  <2>1. b.start # 0 /\ \A u \in Range(b.trips) : Trip(u).depot \in {0, b.start}
    BY <1>0, <1>14, <2>0 DEF Good, AtHome
  <2>2. Trip(t).depot \in {0, b.start}
    BY <1>14, <2>1 DEF Fits, DepotOk, DepotsBind
  <2>3. end = b.start
    BY <2>2 DEF end, OrElse
  <2> QED
    BY <1>8, <1>12, <2>1, <2>2, <2>3
<1>15. ASSUME BatteriesBind PROVE Charged(c)
  <2>0. SUFFICES ASSUME Untouched(b)
                 PROVE  /\ \A i \in DOMAIN c.trips : Replay(c)[i] >= Vehicle.min
                        /\ c.soc = Replay(c)[Len(c.trips)]
    BY <1>16 DEF Charged
  <2> DEFINE n == Len(b.trips)
  <2>1. n \in Nat /\ n > 0 /\ n \in DOMAIN b.trips /\ DOMAIN b.trips = 1..n
    BY <1>0, <1>1, BlockTyped
  <2>2. (\A i \in 1..n : Replay(b)[i] >= Vehicle.min) /\ b.soc = Replay(b)[n] /\ Replay(b)[n] \in Int
    BY <1>0, <1>1, <1>15, <2>0, <2>1, ReplayStep DEF Good, Charged
  <2>3. soc = SocAfter(b, t) /\ soc >= Vehicle.min
    BY <1>15 DEF soc, BatteriesBind, Fits
  <2>4. /\ \A i \in 1..n : Replay(c)[i] = Replay(b)[i]
        /\ Replay(c)[n + 1] = Before(c, n + 1, Replay(b)[n]) - Trip(t).kwh
    BY <1>0, <1>1, <1>8, <1>10, <2>1, ReplayExtends
  <2>5. Before(c, n + 1, Replay(b)[n]) = Recharged(b, t)
    <3>1. c.trips[n + 1] = t /\ c.trips[n + 1 - 1] = Last(b.trips)
      <4>1. n + 1 - 1 = n /\ n \in 1..n
        BY <2>1
      <4>2. Append(b.trips, t)[n + 1] = t /\ \A i \in 1..n : Append(b.trips, t)[i] = b.trips[i]
        BY <1>1, AppendProperties
      <4> QED
        BY <1>8, <4>1, <4>2 DEF Last
    <3>2. SocAt(b) = Replay(b)[n]
      BY <2>2, ChargeAssumption DEF SocAt
    <3> DEFINE gap == TripGap(problem, Last(b.trips), t)
               charge == Replay(b)[n]
               more == Min2(Vehicle.cap, charge + Vehicle.rate * gap)
    <3>3. Before(c, n + 1, charge) =
            IF gap > 0 /\ Trip(t).depot \in {b.start} \ {0} THEN more ELSE charge
      <4> DEFINE x == c.trips[n + 1 - 1]
                 y == c.trips[n + 1]
                 z == c.start
      <4>1. Before(c, n + 1, charge) =
              IF TripGap(problem, x, y) > 0 /\ Trip(y).depot \in {z} \ {0}
              THEN Min2(Vehicle.cap, charge + Vehicle.rate * TripGap(problem, x, y)) ELSE charge
        BY DEF Before
      <4>2. x = Last(b.trips) /\ y = t /\ z = b.start
        BY <1>8, <3>1
      <4> HIDE DEF x, y, z, charge, n
      <4> QED
        BY <4>1, <4>2
    <3>4. Recharged(b, t) =
            IF gap > 0 /\ Trip(t).depot # 0 /\ Trip(t).depot = b.start THEN more ELSE charge
      <4>1. Recharged(b, t) =
              IF gap > 0 /\ Trip(t).depot # 0 /\ Trip(t).depot = b.start
              THEN Min2(Vehicle.cap, SocAt(b) + Vehicle.rate * gap) ELSE SocAt(b)
        BY DEF Recharged
      <4> QED
        BY <3>2, <4>1
    <3> HIDE DEF n, charge, gap, more
    <3> QED
      BY <3>3, <3>4 DEF charge
  <2>6. Replay(c)[n + 1] = soc
    BY <2>3, <2>4, <2>5 DEF SocAfter
  <2>7. Len(c.trips) = n + 1 /\ DOMAIN c.trips = 1..(n + 1)
    <3>1. Len(c.trips) = n + 1
      BY <1>1, <1>8, AppendProperties
    <3>2. c.trips \in Seq(TripIds(problem))
      BY <1>8, <1>9
    <3> QED
      BY <3>1, <3>2, LenProperties
  <2> HIDE DEF n
  <2>8. \A i \in 1..(n + 1) : i \in 1..n \/ i = n + 1
    BY <2>1
  <2> QED
    BY <1>8, <2>2, <2>3, <2>4, <2>6, <2>7, <2>8
<1> QED
  BY <1>8, <1>10, <1>12, <1>13, <1>14, <1>15 DEF Good, c

(* A list with an element put behind the k-th one. *)
IsPutBehind(V, u, k, t, w) ==
    /\ w \in Seq(V) /\ Len(w) = Len(u) + 1 /\ DOMAIN w = 1..(Len(u) + 1)
    /\ \A i \in 1..k : w[i] = u[i]
    /\ w[k + 1] = t
    /\ \A i \in (k + 2)..(Len(u) + 1) : w[i] = u[i - 1]
    /\ Range(w) = Range(u) \cup {t}
    /\ IsInjective(u) /\ t \notin Range(u) => IsInjective(w)

LEMMA InsertedSeq ==
  ASSUME NEW V, NEW u \in Seq(V), NEW k \in 1..Len(u) - 1, NEW t \in V,
         NEW w, w = InsertAt(u, k + 1, t)
  PROVE  IsPutBehind(V, u, k, t, w)
<1> DEFINE n == Len(u)
<1> DEFINE x == SubSeq(u, 1, k)
           y == SubSeq(u, k + 1, n)
           h == x \o <<t>>
<1>1. n \in Nat /\ k \in Nat /\ k >= 1 /\ k + 1 <= n /\ \A i \in 1..n : u[i] \in V
  OBVIOUS
<1>2. w = h \o y
  <2>1. (k + 1) - 1 = k
    BY <1>1
  <2> QED
    BY <2>1 DEF InsertAt
<1>3. x \in Seq(V) /\ Len(x) = k /\ \A i \in 1..k : x[i] = u[i]
  <2>1. 1 \in Int /\ k \in Int /\ \A i \in 1..k : u[i] \in V
    BY <1>1
  <2>2. /\ SubSeq(u, 1, k) \in Seq(V)
        /\ Len(SubSeq(u, 1, k)) = IF 1 <= k THEN k - 1 + 1 ELSE 0
        /\ \A i \in 1..(k - 1 + 1) : SubSeq(u, 1, k)[i] = u[1 + i - 1]
    BY <2>1, SubSeqProperties
  <2> QED
    BY <1>1, <2>2
<1>4. y \in Seq(V) /\ Len(y) = n - k /\ \A i \in 1..(n - k) : y[i] = u[k + i]
  <2>1. k + 1 \in Int /\ n \in Int /\ \A i \in (k + 1)..n : u[i] \in V
    BY <1>1
  <2>2. /\ SubSeq(u, k + 1, n) \in Seq(V)
        /\ Len(SubSeq(u, k + 1, n)) = IF k + 1 <= n THEN n - (k + 1) + 1 ELSE 0
        /\ \A i \in 1..(n - (k + 1) + 1) : SubSeq(u, k + 1, n)[i] = u[(k + 1) + i - 1]
    BY <2>1, SubSeqProperties
  <2> QED
    BY <1>1, <2>2
<1>5. <<t>> \in Seq(V) /\ Len(<<t>>) = 1 /\ <<t>>[1] = t
  OBVIOUS
<1> HIDE DEF x, y
<1>6. h \in Seq(V) /\ Len(h) = k + 1 /\ (\A i \in 1..k : h[i] = u[i]) /\ h[k + 1] = t
  <2> DEFINE z == <<t>>
  <2>1. z \in Seq(V) /\ Len(z) = 1 /\ z[1] = t
    BY <1>5
  <2> HIDE DEF z
  <2>2. /\ x \o z \in Seq(V) /\ Len(x \o z) = Len(x) + Len(z)
        /\ \A i \in 1..(Len(x) + Len(z)) : (x \o z)[i] = IF i <= Len(x) THEN x[i] ELSE z[i - Len(x)]
    BY <1>3, <2>1, ConcatProperties
  <2>3. h = x \o z
    BY DEF z
  <2>4. (k + 1) - k = 1
    BY <1>1
  <2> QED
    BY <1>1, <1>3, <2>1, <2>2, <2>3, <2>4
<1> HIDE DEF h
<1>7. /\ w \in Seq(V) /\ Len(w) = Len(h) + Len(y)
      /\ \A i \in 1..(Len(h) + Len(y)) : w[i] = IF i <= Len(h) THEN h[i] ELSE y[i - Len(h)]
  <2>1. /\ h \o y \in Seq(V) /\ Len(h \o y) = Len(h) + Len(y)
        /\ \A i \in 1..(Len(h) + Len(y)) : (h \o y)[i] = IF i <= Len(h) THEN h[i] ELSE y[i - Len(h)]
    BY ONLY <1>4, <1>6, ConcatProperties
  <2> QED
    BY ONLY <1>2, <2>1
<1>8. Len(w) = n + 1 /\ DOMAIN w = 1..(n + 1)
  BY <1>1, <1>4, <1>6, <1>7, LenProperties
<1>9. (\A i \in 1..k : w[i] = u[i]) /\ w[k + 1] = t
  <2>1. \A i \in 1..(k + 1) : w[i] = h[i]
    <3>1. \A i \in 1..(k + 1) : i \in 1..(Len(h) + Len(y)) /\ i <= Len(h)
      BY <1>1, <1>4, <1>6
    <3> QED
      BY ONLY <1>7, <3>1
  <2>2. k + 1 \in 1..(k + 1) /\ \A i \in 1..k : i \in 1..(k + 1)
    BY <1>1
  <2> QED
    BY ONLY <1>6, <2>1, <2>2
<1>10. ASSUME NEW i \in (k + 2)..(n + 1) PROVE w[i] = u[i - 1]
  <2>1. i \in 1..(Len(h) + Len(y)) /\ ~(i <= Len(h)) /\ i - Len(h) \in 1..(n - k)
        /\ k + (i - Len(h)) = i - 1
    BY <1>1, <1>4, <1>6
  <2> QED
    BY <1>4, <1>7, <2>1
<1>11. \A i \in 1..n : u[i] \in V
  BY <1>1
<1> DEFINE p(i) == IF i <= k THEN i ELSE i - 1
<1>12. ASSUME NEW i \in 1..(n + 1), i # k + 1 PROVE p(i) \in 1..n /\ w[i] = u[p(i)]
  <2>1. CASE i <= k
    BY <1>1, <1>9, <1>12, <2>1
  <2>2. CASE i > k
    <3>1. i \in (k + 2)..(n + 1) /\ i - 1 \in 1..n /\ p(i) = i - 1
      BY <1>1, <1>12, <2>2
    <3> QED
      BY <1>10, <3>1
  <2> QED
    BY <1>1, <2>1, <2>2
<1>13. ASSUME NEW j \in 1..n
       PROVE  \E i \in 1..(n + 1) : w[i] = u[j]
  <2>1. CASE j <= k
    BY <1>1, <1>9, <2>1
  <2>2. CASE j > k
    <3>1. j + 1 \in (k + 2)..(n + 1) /\ j + 1 \in 1..(n + 1) /\ (j + 1) - 1 = j
      BY <1>1, <2>2
    <3> QED
      BY <1>10, <3>1
  <2> QED
    BY <1>1, <2>1, <2>2
<1>14. DOMAIN u = 1..n /\ k + 1 \in 1..(n + 1)
  BY <1>1
<1>15. Range(w) = Range(u) \cup {t}
  <2>1. \A i \in 1..(n + 1) : w[i] = t \/ \E j \in 1..n : w[i] = u[j]
    BY <1>9, <1>12
  <2>2. Range(w) = {w[i] : i \in 1..(n + 1)} /\ Range(u) = {u[j] : j \in 1..n}
    BY <1>8, <1>14 DEF Range
  <2>3. Range(w) \subseteq Range(u) \cup {t}
    BY ONLY <2>1, <2>2
  <2>4. Range(u) \subseteq Range(w)
    BY ONLY <1>13, <2>2
  <2>5. t \in Range(w)
    BY ONLY <1>9, <1>14, <2>2
  <2> QED
    BY ONLY <2>3, <2>4, <2>5
<1>16. ASSUME IsInjective(u), t \notin Range(u)
       PROVE  IsInjective(w)
  <2>1. \A j \in 1..n : u[j] # t
    BY <1>14, <1>16 DEF Range
  <2>2. \A i, j \in 1..n : u[i] = u[j] => i = j
    BY <1>14, <1>16 DEF IsInjective
  <2>3. SUFFICES ASSUME NEW i \in 1..(n + 1), NEW j \in 1..(n + 1), w[i] = w[j] PROVE i = j
    BY <1>8 DEF IsInjective
  <2>4. CASE i = k + 1 \/ j = k + 1
    BY <1>9, <1>12, <2>1, <2>3, <2>4
  <2>5. CASE i # k + 1 /\ j # k + 1
    <3>1. p(i) \in 1..n /\ p(j) \in 1..n /\ u[p(i)] = u[p(j)]
      BY <1>12, <2>3, <2>5
    <3>2. p(i) = p(j)
      BY <2>2, <3>1
    <3> QED
      BY <1>1, <2>5, <3>2
  <2> QED
    BY <2>4, <2>5
<1> QED
  BY <1>7, <1>8, <1>9, <1>10, <1>15, <1>16 DEF IsPutBehind

(* A block with a trip put behind its k-th one. *)
LEMMA InsertedGood ==
  ASSUME VehicleInv, UNCHANGED problem, NEW b \in All, NEW t \in TripIds(problem),
         t \notin Range(b.trips), NEW k, Squeezes(b, t, k), inserted' = inserted \cup {t},
         NEW c, c = WithTripBehind(b, t, k)
  PROVE  Good(c)' /\ c.id = b.id /\ c \in BlockType /\ Range(c.trips) = Range(b.trips) \cup {t}
<1> DEFINE u == b.trips
           w == InsertAt(u, k + 1, t)
           n == Len(u)
           end == OrElse(Trip(t).depot, b.start)
           soc == IF Vehicle.electric THEN 0 ELSE b.soc
<1>0. Listed /\ problem \in Problems /\ Good(b)
  BY AllGood DEF VehicleInv, Listed
<1>1. /\ b \in BlockType /\ b.start \in Int /\ u \in Seq(TripIds(problem)) /\ u # <<>>
      /\ n \in Nat /\ n >= 1 /\ DOMAIN u = 1..n
  BY <1>0, BlockTyped
<1>2. k \in 1..n - 1 /\ k \in 1..n /\ k + 1 \in 1..n
  BY <1>1 DEF Squeezes
<1>3. u[k] \in TripIds(problem) /\ u[k + 1] \in TripIds(problem)
  BY <1>1, <1>2, ElementOfSeq
<1>4. /\ Trip(t) \in TripType(problem) /\ Trip(u[k]) \in TripType(problem)
      /\ Trip(u[k + 1]) \in TripType(problem)
  BY <1>0, <1>3, TripTyped
<1>5. end \in Int /\ soc \in Int \cup {NoSoc}
  BY <1>1, <1>4 DEF OrElse, BlockType, TripType
<1>6. c = [id |-> b.id, trips |-> w, start |-> b.start, end |-> end, soc |-> soc]
  <2>1. c = [[[b EXCEPT !.trips = w] EXCEPT !.end = end] EXCEPT !.soc = soc]
    BY <1>1 DEF WithTripBehind, BlockType
  <2>2. /\ b = [id |-> b.id, trips |-> b.trips, start |-> b.start, end |-> b.end, soc |-> b.soc]
    BY <1>1 DEF BlockType
  <2> HIDE DEF end, soc, w
  <2> QED
    BY ONLY <2>1, <2>2
<1> HIDE DEF u, w, n, end, soc
<1>7. /\ w \in Seq(TripIds(problem)) /\ Len(w) = n + 1 /\ DOMAIN w = 1..(n + 1)
      /\ \A i \in 1..k : w[i] = u[i]
      /\ w[k + 1] = t
      /\ \A i \in (k + 2)..(n + 1) : w[i] = u[i - 1]
      /\ Range(w) = Range(u) \cup {t}
      /\ IsInjective(u) /\ t \notin Range(u) => IsInjective(w)
  <2>1. u \in Seq(TripIds(problem)) /\ n = Len(u) /\ k \in 1..Len(u) - 1
        /\ w = InsertAt(u, k + 1, t) /\ t \in TripIds(problem)
    BY <1>1, <1>2 DEF n, w
  <2>2. IsPutBehind(TripIds(problem), u, k, t, w)
    BY ONLY <2>1, InsertedSeq
  <2> QED
    BY ONLY <2>1, <2>2 DEF IsPutBehind
<1>8. c \in BlockType /\ c.id = b.id /\ c.trips = w
  BY <1>1, <1>5, <1>6, <1>7 DEF BlockType
<1>9. IsInjective(u) /\ t \notin Range(u) /\ Runs(b)
  BY <1>0 DEF Good, u
<1>10. w # <<>> /\ IsInjective(w)
  BY <1>1, <1>7, <1>9
<1>11. Range(w) = Range(u) \cup {t}
  BY <1>7
<1>12. \A i \in 1..n - 1 : Follows(u[i], u[i + 1]) /\ Follows(u[i], u[i + 1])'
  <2>1. inserted \subseteq inserted'
    OBVIOUS
  <2>2. \A x, y : Follows(x, y) => Follows(x, y)'
    BY <2>1, SameRequest
  <2> QED
    BY <1>9, <2>2 DEF Runs, u, n
<1>13. /\ Trip(u[k]).group = Trip(t).group /\ Trip(t).group # 0 /\ Trip(u[k]).en = Trip(t).st
       /\ IsConnectionFeasible(problem, GreedyView, t, u[k + 1])
  BY DEF Squeezes, u
<1>14. /\ Trip(t).st \in Int /\ Trip(t).en \in Int /\ Trip(u[k]).en \in Int
       /\ Trip(u[k + 1]).st \in Int /\ Trip(t).st <= Trip(t).en
       /\ TripGap(problem, u[k], t) = Trip(t).st - Trip(u[k]).en
       /\ TripGap(problem, t, u[k + 1]) = Trip(u[k + 1]).st - Trip(t).en
       /\ TripGap(problem, u[k], u[k + 1]) = Trip(u[k + 1]).st - Trip(u[k]).en
  BY <1>0, <1>4, DurationAssumption DEF TripType, TripGap, Trip
<1>15. prm.maxIdle \in Int
  BY <1>0, PrmTyped DEF PrmType
<1>16. Follows(u[k], t)'
  <2>1. IsConnectionFeasible(problem, GreedyView, u[k], t)
    <3>1. TripGap(problem, u[k], t) = 0
      BY <1>13, <1>14
    <3> QED
      BY <1>13, <3>1 DEF IsConnectionFeasible, GreedyView, Trip
  <2>2. IdleOk(u[k], t)
    BY <1>13, <1>14, <1>15 DEF IdleOk
  <2> QED
    BY <2>1, <2>2, SameRequest
<1>17. Follows(t, u[k + 1])'
  <2>1. IdleOk(u[k], u[k + 1])
    BY <1>2, <1>12 DEF Follows
  <2>2. IdleOk(t, u[k + 1])
    BY <1>13, <1>14, <1>15, <2>1 DEF IdleOk
  <2> QED
    BY <1>13, <2>2, SameRequest
<1>18. Runs(c)'
  <2>1. ASSUME NEW i \in 1..(n + 1) - 1 PROVE Follows(w[i], w[i + 1])'
    <3>1. CASE i < k
      <4>1. i \in 1..k /\ i + 1 \in 1..k /\ i \in 1..n - 1
        BY <1>1, <1>2, <2>1, <3>1
      <4>2. w[i] = u[i] /\ w[i + 1] = u[i + 1]
        BY <1>7, <4>1
      <4>3. Follows(u[i], u[i + 1])'
        BY <1>12, <4>1
      <4> QED
        BY <4>2, <4>3
    <3>2. CASE i = k
      <4>1. w[i] = u[k] /\ w[i + 1] = t
        BY <1>1, <1>2, <1>7, <3>2
      <4> QED
        BY <1>16, <4>1
    <3>3. CASE i = k + 1
      <4>1. k + 2 \in (k + 2)..(n + 1) /\ (k + 2) - 1 = k + 1 /\ i + 1 = k + 2
        BY <1>1, <1>2, <3>3
      <4>2. w[i] = t /\ w[i + 1] = u[k + 1]
        BY <1>7, <3>3, <4>1
      <4> QED
        BY <1>17, <4>2
    <3>4. CASE i > k + 1
      <4>1. /\ i \in (k + 2)..(n + 1) /\ i + 1 \in (k + 2)..(n + 1) /\ i - 1 \in 1..n - 1
            /\ (i + 1) - 1 = (i - 1) + 1
        BY <1>1, <1>2, <2>1, <3>4
      <4>2. w[i] = u[i - 1] /\ w[i + 1] = u[(i - 1) + 1]
        BY <1>7, <4>1
      <4>3. Follows(u[i - 1], u[(i - 1) + 1])'
        BY <1>12, <4>1
      <4> QED
        BY <4>2, <4>3
    <3> QED
      BY <1>1, <1>2, <2>1, <3>1, <3>2, <3>3, <3>4
  <2>2. SpreadOf(problem, w) <= Span
    <3>1. n > 1
      BY <1>1, <1>2
    <3>2. SpreadOf(problem, u) <= Span
      BY <1>9, <3>1 DEF Runs, u, n
    <3>3. w[1] = u[1] /\ Last(w) = Last(u)
      <4>1. 1 \in 1..k /\ n + 1 \in (k + 2)..(n + 1) /\ (n + 1) - 1 = n
        BY <1>1, <1>2
      <4>2. Last(w) = w[n + 1] /\ Last(u) = u[n]
        BY <1>7 DEF Last, n
      <4> QED
        BY <1>7, <4>1, <4>2
    <3> QED
      BY <3>2, <3>3 DEF SpreadOf
  <2>3. UNCHANGED <<Span, problem>>
    BY SameRequest
  <2>4. Len(w) = n + 1
    BY <1>7
  <2> DEFINE x == w
  <2>5. c.trips = x /\ Len(x) = n + 1
    BY <1>8, <2>4
  <2> QED
    BY <1>8, <2>1, <2>2, <2>3, <2>4 DEF Runs
<1>19. ~Untouched(c)'
  BY <1>8, <1>11 DEF Untouched
<1>20. Good(c)'
  <2>1. BlockType' = BlockType
    BY SameRequest
  <2> QED
    BY <1>8, <1>10, <1>18, <1>19, <2>1 DEF Good, AtHome, Charged
<1> QED
  BY <1>8, <1>11, <1>20 DEF u

-------------------------------------------------------------------------------
(* Two blocks become one.                                                      *)

Replaced(s, i, c) == [s EXCEPT ![i] = c]

LEMMA JoinedBlocks ==
  ASSUME NEW V, NEW s \in Seq(V), Numbered(s), NEW i \in DOMAIN s, NEW k \in DOMAIN s, i # k,
         NEW c \in V, c.id = s[i].id, NEW r, r = RemoveAt(Replaced(s, i, c), k)
  PROVE  /\ r \in Seq(V) /\ Len(r) = Len(s) - 1 /\ Numbered(r)
         /\ Range(r) = (Range(s) \ {s[i], s[k]}) \cup {c}
<1> DEFINE q == [s EXCEPT ![i] = c]
           n == Len(s)
<1>1. n \in Nat /\ DOMAIN s = 1..n
  BY LenProperties
<1>2. q \in Seq(V) /\ Len(q) = n /\ \A j \in 1..n : q[j] = IF j = i THEN c ELSE s[j]
  BY <1>1, ExceptSeq
<1> HIDE DEF q, n
<1>3. DOMAIN q = 1..n
  BY <1>2, LenProperties
<1>4. Numbered(q)
  BY <1>1, <1>2, <1>3 DEF Numbered
<1>5. Range(q) = (Range(s) \ {s[i]}) \cup {c}
  <2>1. \A j \in 1..n : q[j] \in (Range(s) \ {s[i]}) \cup {c}
    BY <1>1, <1>2 DEF Range, Numbered
  <2>2. \A j \in 1..n : s[j] # s[i] => s[j] \in Range(q)
    <3>1. \A j \in 1..n : j # i => q[j] = s[j]
      BY <1>2
    <3> QED
      BY <1>3, <3>1 DEF Range
  <2>3. c \in Range(q)
    <3>1. i \in DOMAIN q /\ q[i] = c
      BY <1>1, <1>2, <1>3
    <3> QED
      BY <3>1 DEF Range
  <2>4. \A x \in Range(q) : x \in (Range(s) \ {s[i]}) \cup {c}
    BY <1>3, <2>1 DEF Range
  <2>5. \A x \in Range(s) : x # s[i] => x \in Range(q)
    BY <1>1, <2>2 DEF Range
  <2> QED
    BY <2>3, <2>4, <2>5
<1>6. q[k] = s[k] /\ k \in DOMAIN q
  BY <1>1, <1>2, <1>3
<1>7. r = RemoveAt(q, k)
  BY DEF q, Replaced
<1>8. /\ r \in Seq(V) /\ Len(r) = Len(q) - 1
      /\ Numbered(r) /\ Range(r) = Range(q) \ {q[k]}
  <2>1. /\ RemoveAt(q, k) \in Seq(V) /\ Len(RemoveAt(q, k)) = Len(q) - 1
        /\ Numbered(RemoveAt(q, k)) /\ Range(RemoveAt(q, k)) = Range(q) \ {q[k]}
    BY ONLY <1>2, <1>4, <1>6, RemovedBlock
  <2> QED
    BY ONLY <1>7, <2>1
<1>9. s[k] # c
  BY <1>1 DEF Numbered
<1> QED
  BY <1>2, <1>5, <1>6, <1>8, <1>9 DEF n

LEMMA JoinedGood ==
  ASSUME VehicleInv, ~Vehicle.electric,
         NEW u \in Seq(TripIds(problem)), NEW v \in Seq(TripIds(problem)), u # <<>>, v # <<>>,
         IsInjective(u), IsInjective(v), Range(u) \cap Range(v) = {},
         Linked(u), Linked(v), Follows(Last(u), v[1]),
         Trip(Last(v)).en - Trip(u[1]).st <= Span,
         NEW c, c.trips = u \o v, c \in BlockType, DepotsBind => AtHome(c)
  PROVE  Good(c) /\ Range(c.trips) = Range(u) \cup Range(v)
<1> DEFINE w == u \o v
<1>1. w # <<>> /\ IsInjective(w) /\ Range(w) = Range(u) \cup Range(v)
  BY JoinedTrips
<1>2. Runs(c)
  BY JoinedRuns
<1>3. c.trips = w
  OBVIOUS
<1> HIDE DEF w
<1> QED
  BY <1>1, <1>2, <1>3 DEF Good, BatteriesBind

(* A single trip moved to a block. *)
MovedBlock(b, trips) ==
  [id |-> b.id, trips |-> trips, start |-> OrElse(Trip(trips[1]).depot, b.start),
   end |-> OrElse(Trip(Last(trips)).depot, b.end), soc |-> b.soc]

LEMMA MovedTyped ==
  ASSUME Listed, NEW b \in BlockType, NEW trips \in Seq(TripIds(problem)), trips # <<>>
  PROVE  MovedBlock(b, trips) \in BlockType
<1>1. Len(trips) \in Nat /\ 1 \in 1..Len(trips) /\ Len(trips) \in 1..Len(trips)
  BY LenProperties, EmptySeq
<1>2. trips[1] \in TripIds(problem) /\ Last(trips) \in TripIds(problem)
  BY <1>1, ElementOfSeq DEF Last
<1>3. Trip(trips[1]).depot \in Int /\ Trip(Last(trips)).depot \in Int
  BY <1>2, TripTyped DEF TripType, Listed
<1> QED
  BY <1>3 DEF MovedBlock, BlockType, OrElse

LEMMA MovedGood ==
  ASSUME VehicleInv, ~Vehicle.electric, NEW b \in All, NEW t \in TripIds(problem),
         t \notin Range(b.trips), NEW trips,
         \/ trips = Append(b.trips, t) /\ Fits(b, t)
         \/ trips = <<t>> \o b.trips /\ FitsBefore(b, t)
  PROVE  LET c == MovedBlock(b, trips)
         IN  c.id = b.id /\ Good(c) /\ Range(c.trips) = Range(b.trips) \cup {t}
<1> DEFINE c == MovedBlock(b, trips)
<1>1. Listed /\ problem \in Problems /\ Good(b)
  BY AllGood DEF VehicleInv, Listed
<1>2. /\ b \in BlockType /\ b.trips \in Seq(TripIds(problem)) /\ b.trips # <<>>
      /\ b.trips[1] \in Range(b.trips) /\ Last(b.trips) \in Range(b.trips)
  BY <1>1, BlockTyped
<1>3. IsInjective(b.trips) /\ Linked(b.trips)
  BY <1>1 DEF Good, Runs, Linked
<1>4. /\ <<t>> \in Seq(TripIds(problem)) /\ <<t>> # <<>> /\ <<t>>[1] = t /\ Last(<<t>>) = t
      /\ IsInjective(<<t>>) /\ Range(<<t>>) = {t} /\ Linked(<<t>>)
  BY SingleLinked DEF Last, IsInjective, Range
<1>5. c.id = b.id /\ c.trips = trips
      /\ c.start = OrElse(Trip(trips[1]).depot, b.start)
      /\ c.end = OrElse(Trip(Last(trips)).depot, b.end)
  BY DEF MovedBlock
<1> DEFINE u == b.trips
           v == <<t>>
<1>6. /\ u \in Seq(TripIds(problem)) /\ u # <<>> /\ IsInjective(u) /\ Linked(u)
      /\ v \in Seq(TripIds(problem)) /\ v # <<>> /\ IsInjective(v) /\ Linked(v)
      /\ v[1] = t /\ Last(v) = t /\ Range(v) = {t} /\ t \notin Range(u)
      /\ u[1] \in Range(u) /\ Last(u) \in Range(u)
  BY <1>2, <1>3, <1>4
<1>7. DepotsBind /\ Untouched(b) => /\ b.start # 0 /\ b.end = b.start
                                   /\ \A x \in Range(u) : Trip(x).depot \in {0, b.start}
  BY <1>1 DEF Good, AtHome
<1>8. \/ trips = u \o v /\ Fits(b, t)
      \/ trips = v \o u /\ FitsBefore(b, t)
  BY <1>2, AppendIsConcat
<1>9. u = b.trips
  OBVIOUS
<1> HIDE DEF u, v, c
<1>10. ASSUME trips \in Seq(TripIds(problem)), trips # <<>>,
              trips[1] \in Range(u) \cup {t}, Last(trips) \in Range(u) \cup {t},
              Range(trips) = Range(u) \cup {t},
              DepotsBind /\ Untouched(b) => Trip(t).depot \in {0, b.start}
       PROVE  c \in BlockType /\ (DepotsBind => AtHome(c))
  <2>1. c \in BlockType
    BY <1>1, <1>2, <1>10, MovedTyped DEF c
  <2>2. ASSUME DepotsBind, Untouched(c)
        PROVE  /\ c.start # 0 /\ c.end = c.start
               /\ \A x \in Range(c.trips) : Trip(x).depot \in {0, c.start}
    <3>0. Untouched(b)
      BY <1>5, <1>9, <1>10, <2>2 DEF Untouched
    <3>1. \A x \in Range(u) \cup {t} : Trip(x).depot \in {0, b.start}
      BY <1>7, <1>10, <2>2, <3>0
    <3>2. c.start = b.start /\ c.end = b.start
      BY <1>5, <1>7, <1>10, <2>2, <3>0, <3>1 DEF OrElse
    <3> QED
      BY <1>5, <1>7, <1>10, <2>2, <3>0, <3>1, <3>2
  <2> QED
    BY <2>1, <2>2 DEF AtHome
<1>11. CASE trips = u \o v /\ Fits(b, t)
  <2>1. /\ trips \in Seq(TripIds(problem)) /\ trips # <<>>
        /\ trips[1] = u[1] /\ Last(trips) = t /\ Range(trips) = Range(u) \cup {t}
    BY <1>6, <1>11, JoinedTrips
  <2>2. DepotsBind /\ Untouched(b) => Trip(t).depot \in {0, b.start}
    BY <1>7, <1>11 DEF Fits, DepotOk, DepotsBind
  <2>3. c \in BlockType /\ (DepotsBind => AtHome(c))
    BY <1>6, <1>10, <2>1, <2>2
  <2>4. Follows(Last(u), v[1]) /\ Trip(Last(v)).en - Trip(u[1]).st <= Span
    BY <1>6, <1>9, <1>11 DEF Fits, LinkOk, Follows
  <2>5. Range(u) \cap Range(v) = {} /\ c.trips = u \o v
    BY <1>5, <1>6, <1>11
  <2>6. Good(c) /\ Range(c.trips) = Range(u) \cup Range(v)
    BY <1>6, <2>3, <2>4, <2>5, JoinedGood
  <2> QED
    BY <1>5, <1>6, <1>9, <2>6 DEF c
<1>12. CASE trips = v \o u /\ FitsBefore(b, t)
  <2>1. /\ trips \in Seq(TripIds(problem)) /\ trips # <<>>
        /\ trips[1] = t /\ Last(trips) = Last(u) /\ Range(trips) = Range(u) \cup {t}
    BY <1>6, <1>12, JoinedTrips
  <2>2. DepotsBind /\ Untouched(b) => Trip(t).depot \in {0, b.start}
    BY <1>7, <1>12 DEF FitsBefore, DepotOk, DepotsBind
  <2>3. c \in BlockType /\ (DepotsBind => AtHome(c))
    BY <1>6, <1>10, <2>1, <2>2
  <2>4. Follows(Last(v), u[1]) /\ Trip(Last(u)).en - Trip(v[1]).st <= Span
    BY <1>6, <1>9, <1>12 DEF FitsBefore, LinkOk, Follows
  <2>5. Range(v) \cap Range(u) = {} /\ c.trips = v \o u
    BY <1>5, <1>6, <1>12
  <2>6. Good(c) /\ Range(c.trips) = Range(v) \cup Range(u)
    BY <1>6, <2>3, <2>4, <2>5, JoinedGood
  <2> QED
    BY <1>5, <1>6, <1>9, <2>6 DEF c
<1> QED
  BY <1>8, <1>11, <1>12

(* A block that runs behind another one. *)
JoinedBlock(a, b) ==
  [id |-> a.id, trips |-> a.trips \o b.trips, start |-> a.start, end |-> b.end, soc |-> a.soc]

LEMMA StitchedGood ==
  ASSUME VehicleInv, ~Vehicle.electric, NEW a \in All, NEW b \in All, Stitches(a, b)
  PROVE  LET c == JoinedBlock(a, b)
         IN  a # b /\ c.id = a.id /\ Good(c) /\ Range(c.trips) = Range(a.trips) \cup Range(b.trips)
<1> DEFINE c == JoinedBlock(a, b)
           u == a.trips
           v == b.trips
<1>1. Listed /\ problem \in Problems /\ Good(a) /\ Good(b)
  BY AllGood DEF VehicleInv, Listed
<1>2. a # b
  BY DEF Stitches
<1>3. /\ u \in Seq(TripIds(problem)) /\ u # <<>> /\ v \in Seq(TripIds(problem)) /\ v # <<>>
      /\ a \in BlockType /\ b \in BlockType
      /\ u[1] \in TripIds(problem) /\ Last(v) \in TripIds(problem)
  BY <1>1, BlockTyped
<1>4. /\ IsInjective(u) /\ Linked(u) /\ IsInjective(v) /\ Linked(v)
  BY <1>1 DEF Good, Runs, Linked
<1>5. Range(u) \cap Range(v) = {}
  BY <1>2 DEF VehicleInv, Parted, Apart
<1>6. /\ c.id = a.id /\ c.trips = u \o v /\ c.start = a.start /\ c.end = b.end
      /\ Range(c.trips) = Range(u) \cup Range(v)
  <2>1. Range(u \o v) = Range(u) \cup Range(v)
    <3> HIDE DEF u, v
    <3> QED
      BY <1>3, RangeConcatenation
  <2> QED
    BY <2>1 DEF JoinedBlock
<1>7. c \in BlockType
  <2>1. u \o v \in Seq(TripIds(problem))
    <3> HIDE DEF u, v
    <3> QED
      BY <1>3, ConcatProperties
  <2> QED
    BY <1>3, <2>1 DEF JoinedBlock, BlockType
<1>8. Follows(Last(u), v[1]) /\ Trip(Last(v)).en - Trip(u[1]).st <= Span
  <2>1. Follows(Last(u), v[1]) /\ Trip(Last(v)).en - Trip(u[1]).st <= prm.span
    BY DEF Stitches, LinkOk, Follows
  <2>2. Trip(Last(v)).en \in Int /\ Trip(u[1]).st \in Int /\ prm.span \in Int
    BY <1>1, <1>3, TripTyped, PrmTyped DEF TripType
  <2> QED
    BY <2>1, <2>2 DEF Span, Unlimited
<1>9. ASSUME DepotsBind PROVE AtHome(c)
  <2>0. SUFFICES ASSUME Untouched(c)
                 PROVE  /\ c.start # 0 /\ c.end = c.start
                        /\ \A x \in Range(c.trips) : Trip(x).depot \in {0, c.start}
    BY DEF AtHome
  <2>1. /\ AtHome(a) /\ AtHome(b) /\ prm.sameDepot /\ Untouched(a) /\ Untouched(b)
    BY <1>1, <1>6, <1>9, <2>0 DEF Good, DepotsBind, Untouched
  <2>2. b.start = a.start
    BY <2>1 DEF Stitches, AtHome
  <2> QED
    BY <1>6, <2>1, <2>2 DEF AtHome
<1> HIDE DEF c, u, v
<1>10. Good(c)
  BY <1>3, <1>4, <1>5, <1>6, <1>7, <1>8, <1>9, JoinedGood
<1> QED
  BY <1>2, <1>6, <1>10 DEF c, u, v

-------------------------------------------------------------------------------
(* What a step does to the blocks as a whole.                                  *)

(* Some blocks, O, make way for one with their trips and the trips X, which no *)
(* block had.                                                                  *)
Exchange(B, O, c, X, D) ==
  /\ O \subseteq B /\ D = (B \ O) \cup {c}
  /\ X \cap TripsOf(B) = {} /\ Range(c.trips) = TripsOf(O) \cup X

LEMMA Exchanged ==
  ASSUME NEW B, Apart(B), NEW O, NEW c, NEW X, NEW D, Exchange(B, O, c, X, D)
  PROVE  Apart(D) /\ TripsOf(D) = TripsOf(B) \cup X
<1> USE DEF Exchange
<1>1. \A b \in B \ O : Range(b.trips) \cap TripsOf(O) = {} /\ Range(b.trips) \subseteq TripsOf(B)
  BY DEF Apart, TripsOf
<1>2. \A b \in B \ O : Range(b.trips) \cap Range(c.trips) = {}
  BY <1>1
<1>3. Apart(D)
  BY <1>2 DEF Apart
<1>4. TripsOf(B) = TripsOf(B \ O) \cup TripsOf(O)
  BY DEF TripsOf
<1>5. TripsOf(D) = TripsOf(B \ O) \cup Range(c.trips)
  BY DEF TripsOf
<1> QED
  BY <1>3, <1>4, <1>5

LEMMA ExchangeKeeps ==
  ASSUME VehicleInv, UNCHANGED <<problem, unassigned>>, inserted \subseteq inserted', Listed',
         NEW O, O \subseteq All, NEW c, Good(c)', NEW X, X \subseteq Waiting,
         Range(c.trips) = TripsOf(O) \cup X,
         All' = (All \ O) \cup {c}, Waiting' = Waiting \ X,
         stage' = "placing" => todo' \in Seq(TripIds(problem)) /\ IsInjective(todo'),
         Vehicle.electric /\ stage' # "placing" => todo' = <<>>,
         prm.limit > 0 => Len(AllBlocks') <= prm.limit
  PROVE  VehicleInv'
<1>1. /\ Parted /\ Apart(All) /\ X \cap TripsOf(All) = {}
  BY DEF VehicleInv, Parted
<1>2. Apart(All') /\ TripsOf(All') = TripsOf(All) \cup X
  <2>1. Exchange(All, O, c, X, All')
    BY <1>1 DEF Exchange
  <2> QED
    BY ONLY <1>1, <2>1, Exchanged
<1>3. /\ UNCHANGED <<prm, Span, Vehicle, DepotsBind, BatteriesBind>>
      /\ \A b : Good(b) => Good(b)'
      /\ TripIds(problem)' = TripIds(problem)
  BY SameRequest
<1>4. \A b \in All' : Good(b)'
  BY <1>3, AllGood
<1>5. Parted'
  <2>1. \A b \in All' : IsInjective(b.trips)
    BY <1>4 DEF Good
  <2>2. /\ Waiting' \cup unassigned' \cup TripsOf(All') = TripIds(problem)
        /\ Waiting' \cap unassigned' = {}
        /\ (Waiting' \cup unassigned') \cap TripsOf(All') = {}
    BY <1>1, <1>2 DEF Parted
  <2>3. Apart(All)' /\ TripsOf(All)' = TripsOf(All')
    BY <1>2 DEF Apart, TripsOf
  <2> QED
    BY <1>3, <2>1, <2>2, <2>3 DEF Parted
<1>6. Sound'
  <2>1. \A b \in All' : Runs(b)' /\ (DepotsBind' => AtHome(b)') /\ (BatteriesBind' => Charged(b)')
    BY <1>4 DEF Good
  <2>2. FleetWithinLimit'
    BY <1>3 DEF FleetWithinLimit
  <2> QED
    BY <1>3, <2>1, <2>2 DEF Sound
<1> QED
  BY <1>5, <1>6 DEF VehicleInv

-------------------------------------------------------------------------------
(* Placing.                                                                    *)

LEMMA NextTripWaits ==
  ASSUME VehicleInv, NEW t, Placing(t), NextTrip
  PROVE  /\ t \in TripIds(problem) /\ t \in Waiting /\ t \notin TripsOf(All) /\ t \notin unassigned
         /\ Waiting' = Waiting \ {t} /\ stage' = "placing" /\ UNCHANGED problem
         /\ todo' \in Seq(TripIds(problem)) /\ IsInjective(todo')
<1> DEFINE T == TripIds(problem)
           n == Len(todo)
<1>1. /\ todo \in Seq(T) /\ IsInjective(todo) /\ todo # <<>> /\ t = Head(todo)
      /\ stage = "placing" /\ todo' = Tail(todo) /\ UNCHANGED <<problem, stage>>
  BY DEF VehicleInv, Parted, Placing, NextTrip
<1> HIDE DEF T, n
<1>2. /\ n \in Nat /\ n >= 1 /\ DOMAIN todo = 1..n /\ t = todo[1]
  BY <1>1, LenProperties, EmptySeq DEF n
<1>3. /\ t \in T /\ todo' \in Seq(T) /\ Len(todo') = n - 1
      /\ \A i \in 1..(n - 1) : todo'[i] = todo[i + 1]
  BY <1>1, HeadTailProperties DEF n
<1>4. DOMAIN todo' = 1..(n - 1)
  BY <1>3, LenProperties
<1>5. IsInjective(todo')
  <2>1. SUFFICES ASSUME NEW i \in 1..(n - 1), NEW j \in 1..(n - 1), todo'[i] = todo'[j] PROVE i = j
    BY <1>4 DEF IsInjective
  <2>2. i + 1 \in 1..n /\ j + 1 \in 1..n /\ todo[i + 1] = todo[j + 1]
    BY <1>2, <1>3, <2>1
  <2>3. i + 1 = j + 1
    BY <1>1, <1>2, <2>2 DEF IsInjective
  <2> QED
    BY <1>2, <2>3
<1>6. Range(todo') = Range(todo) \ {t}
  <2>1. \A i \in 1..(n - 1) : todo'[i] \in Range(todo) /\ todo'[i] # t
    <3>1. SUFFICES ASSUME NEW i \in 1..(n - 1) PROVE todo'[i] \in Range(todo) /\ todo'[i] # t
      OBVIOUS
    <3>2. i + 1 \in 1..n /\ 1 \in 1..n /\ i + 1 # 1 /\ todo'[i] = todo[i + 1]
      BY <1>2, <1>3
    <3> QED
      BY <1>1, <1>2, <3>2 DEF Range, IsInjective
  <2>2. \A i \in 1..n : todo[i] # t => todo[i] \in Range(todo')
    <3>1. SUFFICES ASSUME NEW i \in 1..n, todo[i] # t PROVE todo[i] \in Range(todo')
      OBVIOUS
    <3>2. i # 1
      BY <1>2, <3>1
    <3>3. i - 1 \in 1..(n - 1) /\ (i - 1) + 1 = i
      BY <1>2, <3>2
    <3>4. todo'[i - 1] = todo[i]
      BY <1>3, <3>3
    <3> QED
      BY <1>4, <3>3, <3>4 DEF Range
  <2>3. \A x \in Range(todo') : x \in Range(todo) \ {t}
    BY <1>4, <2>1 DEF Range
  <2>4. \A x \in Range(todo) \ {t} : x \in Range(todo')
    BY <1>2, <2>2 DEF Range
  <2> QED
    BY <2>3, <2>4
<1>7. t \in Range(todo)
  BY <1>2 DEF Range
<1>8. Waiting = Range(todo) /\ Waiting' = Range(todo')
  BY <1>1 DEF Waiting
<1>9. t \notin TripsOf(All) /\ t \notin unassigned
  BY <1>7, <1>8 DEF VehicleInv, Parted
<1> QED
  BY <1>1, <1>3, <1>5, <1>6, <1>7, <1>8, <1>9 DEF T

LEMMA OpenBlockKeeps ==
  ASSUME VehicleInv, NEW t, OpenBlock(t)
  PROVE  VehicleInv'
<1>0. PICK n : n = [id |-> nextId, trips |-> <<t>>, start |-> StartDepot(t), end |-> StartDepot(t),
                    soc |-> SocOfNew(t)]
  OBVIOUS
<1>1. /\ Placing(t) /\ NextTrip /\ Powered(t) /\ ~FleetFull
      /\ blocks' = Append(blocks, n) /\ nextId' = nextId + 1
      /\ UNCHANGED <<closed, unassigned, inserted>>
  BY <1>0 DEF OpenBlock
<1>2. /\ t \in TripIds(problem) /\ t \in Waiting
      /\ Waiting' = Waiting \ {t} /\ stage' = "placing" /\ UNCHANGED problem
      /\ todo' \in Seq(TripIds(problem)) /\ IsInjective(todo')
  BY <1>1, NextTripWaits
<1>3. Listed /\ nextId \in Nat
  BY DEF VehicleInv, Listed
<1>4. Good(n) /\ Range(n.trips) = {t} /\ n.id = nextId
  BY <1>0, <1>1, <1>2, <1>3, NewBlockGood
<1>5. /\ closed \in Seq(BlockType) /\ blocks \in Seq(BlockType) /\ n \in BlockType
      /\ AllBlocks \in Seq(BlockType)
      /\ Len(AllBlocks) = Len(closed) + Len(blocks) /\ Len(closed) \in Nat /\ Len(blocks) \in Nat
  BY <1>3, <1>4, AllListed DEF Listed, Good
<1>6. AllBlocks' = AllBlocks \o <<n>> /\ blocks' \in Seq(BlockType)
  <2> HIDE DEF BlockType
  <2>1. <<n>> \in Seq(BlockType)
    BY <1>5
  <2>2. blocks' = blocks \o <<n>> /\ blocks' \in Seq(BlockType)
    BY <1>1, <1>5, AppendIsConcat, AppendProperties
  <2>3. (closed \o blocks) \o <<n>> = closed \o (blocks \o <<n>>)
    BY <1>5, <2>1, ConcatAssociative
  <2> QED
    BY <1>1, <2>2, <2>3 DEF AllBlocks
<1>7. Len(AllBlocks') = Len(AllBlocks) + 1 /\ All' = All \cup {n}
  <2> DEFINE s == <<n>>
  <2>1. s \in Seq(BlockType) /\ Len(s) = 1 /\ Range(s) = {n}
    BY <1>5 DEF Range
  <2> HIDE DEF s, BlockType
  <2>2. Len(AllBlocks \o s) = Len(AllBlocks) + Len(s) /\ Range(AllBlocks \o s) = Range(AllBlocks) \cup Range(s)
    BY <1>5, <2>1, ConcatProperties, RangeConcatenation
  <2> QED
    BY <1>6, <2>1, <2>2 DEF s, All
<1>8. Numbered(AllBlocks')
  <2> DEFINE s == <<n>>
  <2>1. s \in Seq(BlockType) /\ Numbered(s) /\ \A i \in DOMAIN s : s[i] = n
    BY <1>5 DEF Numbered
  <2>2. \A i \in DOMAIN AllBlocks : AllBlocks[i].id < nextId /\ AllBlocks[i].id \in Nat
    <3>1. \A b \in All : b.id < nextId /\ b.id \in Nat
      BY <1>3, BlockTyped DEF Listed
    <3> QED
      BY <3>1 DEF All, Range
  <2> HIDE DEF s, BlockType
  <2>3. \A i \in DOMAIN AllBlocks, j \in DOMAIN s : AllBlocks[i].id # s[j].id
    BY <1>3, <1>4, <2>1, <2>2
  <2>4. Numbered(AllBlocks \o s)
    BY <1>3, <1>5, <2>1, <2>3, NumberedConcat DEF Listed
  <2> QED
    BY <1>6, <2>4 DEF s
<1>9. Listed'
  <2>1. \A b \in All' : b.trips # <<>> /\ b.id < nextId'
    <3>1. \A b \in All : b.trips # <<>> /\ b.id < nextId /\ b.id \in Nat
      BY <1>3, BlockTyped DEF Listed
    <3> QED
      BY <1>1, <1>3, <1>4, <1>7, <3>1 DEF Good
  <2>2. BlockType' = BlockType
    BY <1>1, <1>2, SameRequest
  <2> HIDE DEF BlockType
  <2> QED
    BY <1>1, <1>2, <1>3, <1>5, <1>6, <1>8, <2>1, <2>2 DEF Listed
<1>10. prm.limit > 0 => Len(AllBlocks') <= prm.limit
  BY <1>1, <1>3, <1>5, <1>7, PrmTyped DEF FleetFull, Listed
<1>11. TripsOf({}) = {} /\ All \ {} = All
  BY DEF TripsOf
<1> QED
  <2>1. /\ {} \subseteq All /\ {t} \subseteq Waiting
        /\ Range(n.trips) = TripsOf({}) \cup {t}
        /\ All' = (All \ {}) \cup {n}
    BY <1>2, <1>4, <1>7, <1>11
  <2> QED
    <3>1. inserted \subseteq inserted' /\ Good(n)'
      BY <1>1, <1>2, <1>4, SameRequest
    <3> QED
      BY <1>1, <1>2, <1>9, <1>10, <2>1, <3>1, ExchangeKeeps

(* A step that leaves the blocks as they are, in whichever list. *)
LEMMA SameBlocksKeep ==
  ASSUME VehicleInv, UNCHANGED <<problem, inserted>>, Listed', All' = All, Len(AllBlocks') = Len(AllBlocks),
         Waiting' \cup unassigned' = Waiting \cup unassigned, Waiting' \cap unassigned' = {},
         stage' = "placing" => todo' \in Seq(TripIds(problem)) /\ IsInjective(todo'),
         Vehicle.electric /\ stage' # "placing" => todo' = <<>>
  PROVE  VehicleInv'
<1>1. /\ UNCHANGED <<prm, Span, Vehicle, DepotsBind, BatteriesBind>>
      /\ \A b : Runs(b) => Runs(b)'
      /\ \A b : AtHome(b) => AtHome(b)'
      /\ \A b : Charged(b) => Charged(b)'
      /\ TripIds(problem)' = TripIds(problem)
  BY SameRequest
<1>2. Parted'
  <2>1. Apart(All)' /\ TripsOf(All)' = TripsOf(All) /\ \A b \in All' : IsInjective(b.trips)
    BY DEF VehicleInv, Parted, Apart, TripsOf
  <2> QED
    BY <1>1, <2>1 DEF VehicleInv, Parted
<1>3. Sound'
  <2>1. \A b \in All' : Runs(b)' /\ (DepotsBind' => AtHome(b)') /\ (BatteriesBind' => Charged(b)')
    BY <1>1 DEF VehicleInv, Sound
  <2>2. FleetWithinLimit'
    BY <1>1 DEF VehicleInv, Sound, FleetWithinLimit
  <2> QED
    BY <1>1, <2>1, <2>2 DEF Sound
<1> QED
  BY <1>2, <1>3 DEF VehicleInv

LEMMA LeaveTripKeeps ==
  ASSUME VehicleInv, NEW t, LeaveTrip(t)
  PROVE  VehicleInv'
<1>1. /\ Placing(t) /\ NextTrip /\ UNCHANGED <<blocks, closed, inserted>>
      /\ unassigned' = unassigned \cup {t} /\ nextId' \in {nextId, nextId + 1}
  BY DEF LeaveTrip
<1>2. /\ t \in Waiting /\ t \notin unassigned
      /\ Waiting' = Waiting \ {t} /\ stage' = "placing" /\ UNCHANGED problem
      /\ todo' \in Seq(TripIds(problem)) /\ IsInjective(todo')
  BY <1>1, NextTripWaits
<1>3. AllBlocks' = AllBlocks /\ All' = All /\ Len(AllBlocks') = Len(AllBlocks)
  BY <1>1 DEF AllBlocks, All
<1>4. Listed'
  <2>1. \A b \in All : b.id \in Nat
    BY BlockTyped DEF VehicleInv
  <2>2. BlockType' = BlockType
    BY <1>1, <1>2, SameRequest
  <2> HIDE DEF BlockType
  <2> QED
    BY <1>1, <1>2, <1>3, <2>1, <2>2 DEF VehicleInv, Listed
<1>5. /\ Waiting' \cup unassigned' = Waiting \cup unassigned
      /\ Waiting' \cap unassigned' = {}
  BY <1>1, <1>2 DEF VehicleInv, Parted
<1> QED
  BY <1>1, <1>2, <1>3, <1>4, <1>5, SameBlocksKeep

LEMMA EndPlacingKeeps ==
  ASSUME VehicleInv, EndPlacing
  PROVE  VehicleInv'
<1>1. /\ stage = "placing" /\ todo = <<>> /\ stage' = "compacting"
      /\ blocks' = AllBlocks /\ closed' = <<>>
      /\ UNCHANGED <<problem, unassigned, inserted, nextId>>
      /\ Vehicle.electric => todo' = <<>>
  BY DEF EndPlacing
<1>2. AllBlocks \in Seq(BlockType) /\ Listed
  BY AllListed DEF VehicleInv
<1>3. AllBlocks' = AllBlocks /\ All' = All /\ Len(AllBlocks') = Len(AllBlocks)
  <2>1. AllBlocks' = <<>> \o AllBlocks
    BY <1>1 DEF AllBlocks
  <2> QED
    BY <1>2, <2>1, ConcatEmptySeq DEF All
<1>4. Listed'
  <2>1. BlockType' = BlockType
    BY <1>1, SameRequest
  <2>2. <<>> \in Seq(BlockType)
    OBVIOUS
  <2> HIDE DEF BlockType
  <2> QED
    BY <1>1, <1>2, <1>3, <2>1, <2>2 DEF Listed
<1>5. Waiting = {} /\ Waiting' = {}
  BY <1>1 DEF Waiting, Range
<1> QED
  BY <1>1, <1>3, <1>4, <1>5, SameBlocksKeep

(* Some of the active blocks are closed, and one of them all takes the trip. *)
LEMMA AppendTripKeeps ==
  ASSUME VehicleInv, NEW t, AppendTrip(t)
  PROVE  VehicleInv'
<1>1. Placing(t) /\ NextTrip /\ UNCHANGED <<unassigned, nextId>>
  BY DEF AppendTrip
<1>2. /\ t \in TripIds(problem) /\ t \in Waiting /\ t \notin TripsOf(All)
      /\ Waiting' = Waiting \ {t} /\ stage' = "placing" /\ UNCHANGED problem
      /\ todo' \in Seq(TripIds(problem)) /\ IsInjective(todo')
  BY <1>1, NextTripWaits
<1>3. PICK c \in Candidates(t) :
        LET Put(b) == IF b.id # c.id THEN b
                      ELSE IF c.behind = 0 THEN WithTrip(b, t) ELSE WithTripBehind(b, t, c.behind)
            open == [i \in DOMAIN blocks |-> Put(blocks[i])]
            over == {i \in DOMAIN open : IsOver(open[i], t)}
        IN  /\ blocks' = Picked(open, DOMAIN open \ over)
            /\ closed' = [i \in DOMAIN closed |-> Put(closed[i])] \o Picked(open, over)
            /\ inserted' = IF c.behind = 0 THEN inserted ELSE inserted \cup {t}
  BY DEF AppendTrip
<1>4. Listed /\ problem \in Problems /\ nextId \in Nat /\ Numbered(AllBlocks)
  BY DEF VehicleInv, Listed
<1>5. PICK b \in All : b.id = c.id /\ Takes(b, t, c.behind)
  BY <1>2, <1>4, CandidateFits
<1>6. t \notin Range(b.trips)
  BY <1>2 DEF TripsOf
<1>25. PICK w : w = IF c.behind = 0 THEN WithTrip(b, t) ELSE WithTripBehind(b, t, c.behind)
  OBVIOUS
<1>26. inserted \subseteq inserted'
  BY <1>3
<1>7. /\ Good(w)' /\ w \in BlockType
      /\ w.id = b.id /\ Range(w.trips) = Range(b.trips) \cup {t}
  <2>1. CASE c.behind = 0
    <3>1. Good(w) /\ w.id = b.id /\ Range(w.trips) = Range(b.trips) \cup {t}
      BY <1>2, <1>5, <1>6, <1>25, <2>1, WithTripGood DEF Takes
    <3> QED
      BY <1>2, <1>26, <3>1, SameRequest DEF Good
  <2>2. CASE c.behind # 0
    <3>1. w = WithTripBehind(b, t, c.behind) /\ Squeezes(b, t, c.behind)
      BY <1>5, <1>25, <2>2 DEF Takes
    <3>2. inserted' = inserted \cup {t}
      BY <1>3, <2>2
    <3> QED
      BY <1>2, <1>6, <3>1, <3>2, InsertedGood
  <2> QED
    BY <2>1, <2>2
<1> DEFINE Put(x) == IF x.id # c.id THEN x
                     ELSE IF c.behind = 0 THEN WithTrip(x, t) ELSE WithTripBehind(x, t, c.behind)
           f == [x \in All |-> Put(x)]
<1>8. \A x \in All : Put(x) = IF x = b THEN w ELSE x
  <2>1. \A x \in All : x.id = b.id => x = b
    BY <1>4, <1>5, NumberedRange DEF All
  <2> QED
    BY <1>5, <1>25, <2>1
<1>9. f \in [All -> BlockType] /\ (\A x \in All : f[x].id = x.id) /\ \A x \in All : f[x] = Put(x)
  <2>1. w \in BlockType /\ All \subseteq BlockType
    BY <1>4, <1>7, AllListed
  <2> HIDE DEF Put
  <2> QED
    BY <1>7, <1>8, <2>1
<1>10. closed \in Seq(All) /\ blocks \in Seq(All)
  <2>1. closed \in Seq(BlockType) /\ blocks \in Seq(BlockType) /\ All = Range(closed) \cup Range(blocks)
    BY <1>4, AllListed DEF Listed
  <2> HIDE DEF BlockType
  <2>2. closed \in Seq(Range(closed)) /\ blocks \in Seq(Range(blocks))
    BY <2>1, SeqOfRange
  <2> QED
    BY <2>1, <2>2, SeqMonotonic
<1> DEFINE open == [i \in DOMAIN blocks |-> Put(blocks[i])]
           shut == [i \in DOMAIN closed |-> Put(closed[i])]
           over == {i \in DOMAIN open : IsOver(open[i], t)}
<1>11. blocks' = Picked(open, DOMAIN open \ over) /\ closed' = shut \o Picked(open, over)
  BY <1>3
<1> HIDE DEF f, Put
<1>12. open = Mapped(f, blocks) /\ shut = Mapped(f, closed)
  <2>1. (\A i \in DOMAIN blocks : blocks[i] \in All) /\ (\A i \in DOMAIN closed : closed[i] \in All)
    BY <1>4, AllListed DEF Range
  <2> QED
    BY <1>9, <2>1 DEF Mapped
<1> HIDE DEF BlockType
<1>13. /\ open \in Seq(BlockType) /\ Len(open) = Len(blocks) /\ DOMAIN open = DOMAIN blocks
       /\ Range(open) = Images(f, Range(blocks))
       /\ \A i \in DOMAIN blocks : open[i].id = blocks[i].id
  <2> HIDE DEF open
  <2>1. Mapping(f, All, BlockType)
    BY <1>9 DEF Mapping
  <2>2. blocks \in Seq(All) /\ open = Mapped(f, blocks)
    BY <1>10, <1>12
  <2> QED
    BY ONLY <2>1, <2>2, MappedBlocks
<1>14. /\ shut \in Seq(BlockType) /\ Len(shut) = Len(closed) /\ DOMAIN shut = DOMAIN closed
       /\ Range(shut) = Images(f, Range(closed))
       /\ \A i \in DOMAIN closed : shut[i].id = closed[i].id
  <2> HIDE DEF shut
  <2>1. Mapping(f, All, BlockType)
    BY <1>9 DEF Mapping
  <2>2. closed \in Seq(All) /\ shut = Mapped(f, closed)
    BY <1>10, <1>12
  <2> QED
    BY ONLY <2>1, <2>2, MappedBlocks
<1>15. Within(over, open)
  BY DEF Within
<1> HIDE DEF open, shut, over
<1>16. Numbered(shut \o open)
  <2>1. /\ Numbered(closed) /\ Numbered(blocks)
        /\ \A i \in DOMAIN closed, j \in DOMAIN blocks : closed[i].id # blocks[j].id
    BY <1>4, <1>10, NumberedConcat DEF AllBlocks
  <2>2. Numbered(shut) /\ Numbered(open)
    BY <1>13, <1>14, <2>1 DEF Numbered
  <2>3. \A i \in DOMAIN shut, j \in DOMAIN open : shut[i].id # open[j].id
    BY <1>13, <1>14, <2>1
  <2> QED
    BY <1>13, <1>14, <2>2, <2>3, NumberedConcat
<1> DEFINE p == Picked(open, over)
           q == Picked(open, DOMAIN open \ over)
<1>17. /\ p \in Seq(BlockType) /\ q \in Seq(BlockType)
       /\ Numbered((shut \o p) \o q)
       /\ Range((shut \o p) \o q) = Range(shut \o open)
       /\ Len(shut \o p) + Len(q) = Len(shut) + Len(open)
  <2>1. open \in Seq(BlockType) /\ shut \in Seq(BlockType)
    BY <1>13, <1>14
  <2> QED
    BY ONLY <1>15, <1>16, <2>1, ClosedBlocks
<1>18. blocks' = q /\ closed' = shut \o p
  BY <1>11
<1> HIDE DEF p, q
<1>19. closed' \in Seq(BlockType) /\ blocks' \in Seq(BlockType) /\ AllBlocks' = (shut \o p) \o q
  BY <1>14, <1>17, <1>18, ConcatProperties DEF AllBlocks
<1>20. All' = (All \ {b}) \cup {w}
  <2>1. Range(shut \o open) = Range(shut) \cup Range(open)
    BY <1>13, <1>14, RangeConcatenation
  <2>2. All' = {f[x] : x \in All}
    <3>1. All = Range(closed) \cup Range(blocks)
      BY <1>4, AllListed
    <3> QED
      BY <1>13, <1>14, <1>17, <1>19, <2>1, <3>1 DEF All, Images
  <2>3. \A x \in All : f[x] = IF x = b THEN w ELSE x
    BY <1>8, <1>9
  <2> QED
    BY <2>2, <2>3
<1>21. Len(AllBlocks') = Len(AllBlocks)
  <2>1. Len((shut \o p) \o q) = Len(shut \o p) + Len(q)
    <3>1. shut \o p \in Seq(BlockType)
      BY <1>18, <1>19
    <3> DEFINE u == shut \o p
    <3> HIDE DEF u
    <3>2. Len(u \o q) = Len(u) + Len(q)
      BY <1>17, <3>1, ConcatProperties DEF u
    <3> QED
      BY <3>2 DEF u
  <2> QED
    BY <1>4, <1>13, <1>14, <1>17, <1>19, <2>1, AllListed
<1>22. Listed'
  <2>1. BlockType' = BlockType
    BY <1>2, <1>26, SameRequest
  <2>2. \A x \in All' : x.trips # <<>> /\ x.id < nextId
    <3>1. w.trips # <<>>
      BY <1>7 DEF Good
    <3> QED
      BY <1>4, <1>5, <1>7, <1>20, <3>1 DEF Listed
  <2> QED
    BY <1>1, <1>2, <1>4, <1>17, <1>19, <2>1, <2>2 DEF Listed
<1>23. prm.limit > 0 => Len(AllBlocks') <= prm.limit
  BY <1>21 DEF VehicleInv, Sound, FleetWithinLimit
<1>24. TripsOf({b}) = Range(b.trips)
  BY DEF TripsOf
<1> QED
  <2>1. /\ {b} \subseteq All /\ {t} \subseteq Waiting
        /\ Range(w.trips) = TripsOf({b}) \cup {t}
    BY <1>2, <1>7, <1>24
  <2> QED
    BY <1>1, <1>2, <1>7, <1>20, <1>22, <1>23, <1>26, <2>1, ExchangeKeeps

-------------------------------------------------------------------------------
(* Moving and joining.                                                         *)

LEMMA AtBlock ==
  ASSUME Numbered(blocks)
  PROVE  /\ \A j \in DOMAIN blocks : At(blocks[j].id) = j
         /\ \A id : Exists(id) => At(id) \in DOMAIN blocks /\ blocks[At(id)].id = id
<1>1. \A id : Exists(id) => At(id) \in DOMAIN blocks /\ blocks[At(id)].id = id
  BY DEF Exists, At
<1>2. ASSUME NEW j \in DOMAIN blocks PROVE At(blocks[j].id) = j
  <2>1. Exists(blocks[j].id)
    BY DEF Exists
  <2>2. At(blocks[j].id) \in DOMAIN blocks /\ blocks[At(blocks[j].id)].id = blocks[j].id
    BY <1>1, <2>1
  <2> QED
    BY <2>2 DEF Numbered
<1> QED
  BY <1>1, <1>2

(* The loops visit blocks that exist. *)
LEMMA OrderListed ==
  ASSUME Listed
  PROVE  /\ DOMAIN BlockOrder(blocks) = 1..Len(blocks)
         /\ \A k \in 1..Len(blocks) : \E j \in DOMAIN blocks : BlockOrder(blocks)[k] = blocks[j].id
<1> DEFINE S == DOMAIN blocks
           before(i, j) ==
             \/ Trip(blocks[i].trips[1]).st < Trip(blocks[j].trips[1]).st
             \/ Trip(blocks[i].trips[1]).st = Trip(blocks[j].trips[1]).st /\ blocks[i].id < blocks[j].id
           R == {p \in S \X S : before(p[1], p[2])}
           s == [i \in 1..Cardinality(S) |-> CHOOSE x \in S : Rank(R, S, x) = i - 1]
<1>1. /\ S = 1..Len(blocks) /\ Len(blocks) \in Nat /\ Numbered(blocks)
  BY AllListed
<1>2. IsFiniteSet(S) /\ Cardinality(S) = Len(blocks)
  <2>1. \A n \in Nat : IsFiniteSet(1..n) /\ Cardinality(1..n) = n
    BY FS_Interval
  <2> HIDE DEF S
  <2> QED
    BY <1>1, <2>1
<1>3. \A i \in S : Trip(blocks[i].trips[1]).st \in Int /\ blocks[i].id \in Int
  <2>1. \A i \in S : blocks[i] \in All
    BY AllListed DEF Range
  <2>2. \A i \in S : blocks[i].trips[1] \in TripIds(problem) /\ blocks[i].id \in Nat
    BY <2>1, BlockTyped
  <2> QED
    BY <2>2, TripTyped DEF TripType, Listed
<1>4. Orders(R, S)
  <2>1. \A x, y \in S : <<x, y>> \in R <=> before(x, y)
    OBVIOUS
  <2> HIDE DEF R
  <2>2. \A x \in S : ~before(x, x)
    BY <1>3
  <2>3. \A x, y \in S : x # y => before(x, y) \/ before(y, x)
    BY <1>1, <1>3 DEF Numbered
  <2>4. ASSUME NEW x \in S, NEW y \in S, NEW z \in S, before(x, y), before(y, z)
        PROVE  before(x, z)
    BY <1>3, <2>4
  <2> HIDE DEF before, S
  <2> QED
    BY <2>1, <2>2, <2>3, <2>4 DEF Orders
<1>5. s \in Seq(S) /\ Len(s) = Len(blocks)
  <2> DEFINE q == s
  <2>1. q = [i \in 1..Cardinality(S) |-> CHOOSE x \in S : Rank(R, S, x) = i - 1]
    OBVIOUS
  <2> HIDE DEF q, R, S
  <2>2. IsFiniteSet(S) /\ Orders(R, S)
    BY <1>2, <1>4
  <2>3. q \in Seq(S) /\ Len(q) = Cardinality(S) /\ Range(q) = S /\ IsInjective(q)
    BY ONLY <2>1, <2>2, SortedLists
  <2> QED
    BY <1>2, <2>3 DEF q
<1>6. Sorted(S, before) = s
  <2> DEFINE left(i) == CHOOSE x \in S : Cardinality({y \in S : before(y, x)}) = i - 1
             right(i) == CHOOSE x \in S : Rank(R, S, x) = i - 1
  <2>1. \A x \in S : Cardinality({y \in S : before(y, x)}) = Rank(R, S, x)
    <3>1. \A x \in S : {y \in S : before(y, x)} = {y \in S : <<y, x>> \in R}
      OBVIOUS
    <3> QED
      BY <3>1 DEF Rank
  <2>2. \A i \in 1..Cardinality(S) : left(i) = right(i)
    <3> HIDE DEF before, R
    <3> QED
      BY <2>1
  <2>3. Sorted(S, before) = [i \in 1..Cardinality(S) |-> left(i)]
    BY DEF Sorted
  <2> HIDE DEF left, right
  <2>4. [i \in 1..Cardinality(S) |-> left(i)] = [i \in 1..Cardinality(S) |-> right(i)]
    BY <2>2
  <2> QED
    BY <2>3, <2>4 DEF right
<1>7. BlockOrder(blocks) = [i \in DOMAIN Sorted(S, before) |-> blocks[Sorted(S, before)[i]].id]
  BY DEF BlockOrder
<1> DEFINE q == Sorted(S, before)
<1>8. q \in Seq(S) /\ Len(q) = Len(blocks) /\ BlockOrder(blocks) = [i \in DOMAIN q |-> blocks[q[i]].id]
  BY <1>5, <1>6, <1>7
<1> HIDE DEF q
<1>9. DOMAIN q = 1..Len(blocks) /\ \A i \in 1..Len(blocks) : q[i] \in S
  <2> HIDE DEF S
  <2> QED
    BY <1>8, LenProperties, ElementOfSeq
<1> QED
  BY <1>8, <1>9

LEMMA MovesTyped ==
  ASSUME Listed, NEW id, NEW t \in TripIds(problem)
  PROVE  /\ IsFiniteSet(Moves(id, t)) /\ Moves(id, t) \subseteq Int
         /\ \A m \in Moves(id, t) :
              LET i == (m + 1) \div 2
              IN  /\ i \in DOMAIN blocks /\ blocks[i].id # id /\ MoveCost(m, t) \in Int
                  /\ \/ m % 2 = 1 /\ Fits(blocks[i], t)
                     \/ m % 2 # 1 /\ FitsBefore(blocks[i], t)
<1> DEFINE n == Len(blocks)
           M == Moves(id, t)
<1>1. /\ n \in Nat /\ DOMAIN blocks = 1..n /\ problem \in Problems
  BY AllListed DEF Listed
<1>2. \A i \in 1..n : blocks[i].trips[1] \in TripIds(problem) /\ Last(blocks[i].trips) \in TripIds(problem)
  <2>1. \A i \in 1..n : blocks[i] \in All
    BY <1>1, AllListed DEF Range
  <2> QED
    BY <2>1, BlockTyped
<1>3. \A i \in Int : /\ (2 * i - 1) % 2 = 1 /\ ((2 * i - 1) + 1) \div 2 = i
                     /\ (2 * i) % 2 # 1 /\ (2 * i + 1) \div 2 = i /\ (2 * i) \div 2 = i
  OBVIOUS
<1>4. \A m \in M : \E i \in 1..n : /\ m \in Int /\ m \in 1..(2 * n) /\ blocks[i].id # id
                                    /\ \/ m = 2 * i - 1 /\ Fits(blocks[i], t)
                                       \/ m = 2 * i /\ FitsBefore(blocks[i], t)
  BY <1>1 DEF Moves
<1> HIDE DEF M, n
<1>5. IsFiniteSet(M) /\ M \subseteq Int
  <2>1. IsFiniteSet(1..(2 * n))
    <3>1. 1 \in Int /\ 2 * n \in Int
      BY <1>1
    <3> QED
      BY <3>1, FS_Interval
  <2>2. M \in SUBSET (1..(2 * n))
    BY <1>4
  <2>3. IsFiniteSet(M)
    BY <2>1, <2>2, FS_Subset
  <2> QED
    BY <1>4, <2>3
<1>6. ASSUME NEW m \in M
      PROVE  /\ (m + 1) \div 2 \in 1..n /\ blocks[(m + 1) \div 2].id # id /\ MoveCost(m, t) \in Int
             /\ \/ m % 2 = 1 /\ Fits(blocks[(m + 1) \div 2], t)
                \/ m % 2 # 1 /\ FitsBefore(blocks[(m + 1) \div 2], t)
  <2>1. PICK i \in 1..n : /\ m \in Int /\ blocks[i].id # id
                          /\ \/ m = 2 * i - 1 /\ Fits(blocks[i], t)
                             \/ m = 2 * i /\ FitsBefore(blocks[i], t)
    BY <1>4
  <2>2. i \in Int
    BY <1>1
  <2>3. CASE m = 2 * i - 1 /\ Fits(blocks[i], t)
    <3>1. m % 2 = 1 /\ (m + 1) \div 2 = i
      BY <1>3, <2>2, <2>3
    <3>2. MoveCost(m, t) = LinkCost(Last(blocks[i].trips), t)
      BY <3>1 DEF MoveCost
    <3>3. MoveCost(m, t) \in Int
      BY <1>1, <1>2, <3>2, CostsTyped
    <3> QED
      BY <2>1, <2>3, <3>1, <3>3
  <2>4. CASE m = 2 * i /\ FitsBefore(blocks[i], t)
    <3>1. m % 2 # 1 /\ (m + 1) \div 2 = i /\ m \div 2 = i
      BY <1>3, <2>2, <2>4
    <3>2. MoveCost(m, t) = LinkCost(t, blocks[i].trips[1])
      BY <3>1 DEF MoveCost
    <3>3. MoveCost(m, t) \in Int
      BY <1>1, <1>2, <3>2, CostsTyped
    <3> QED
      BY <2>1, <2>4, <3>1, <3>3
  <2> QED
    BY <2>1, <2>3, <2>4
<1> QED
  BY <1>1, <1>5, <1>6 DEF M

(* Blocks that differ from b in some fields. *)
WithRoute(b, x, y, z) == [[[b EXCEPT !.trips = x] EXCEPT !.start = y] EXCEPT !.end = z]
WithTail(b, x, z) == [[b EXCEPT !.trips = x] EXCEPT !.end = z]

LEMMA ChangedFields ==
  ASSUME NEW b \in BlockType, NEW x, NEW y, NEW z
  PROVE  /\ WithRoute(b, x, y, z) = [id |-> b.id, trips |-> x, start |-> y, end |-> z, soc |-> b.soc]
         /\ WithTail(b, x, z) = [id |-> b.id, trips |-> x, start |-> b.start, end |-> z, soc |-> b.soc]
<1> DEFINE c == [b EXCEPT !.trips = x]
           d == [c EXCEPT !.start = y]
<1>1. b = [id |-> b.id, trips |-> b.trips, start |-> b.start, end |-> b.end, soc |-> b.soc]
  BY DEF BlockType
<1>2. c = [id |-> b.id, trips |-> x, start |-> b.start, end |-> b.end, soc |-> b.soc]
  BY ONLY <1>1
<1> HIDE DEF c
<1>3. [c EXCEPT !.end = z] = [id |-> b.id, trips |-> x, start |-> b.start, end |-> z, soc |-> b.soc]
  BY ONLY <1>2
<1>4. d = [id |-> b.id, trips |-> x, start |-> y, end |-> b.end, soc |-> b.soc]
  BY ONLY <1>2
<1> HIDE DEF d
<1>5. [d EXCEPT !.end = z] = [id |-> b.id, trips |-> x, start |-> y, end |-> z, soc |-> b.soc]
  BY ONLY <1>4
<1> QED
  BY <1>3, <1>5 DEF c, d, WithRoute, WithTail

(* Block i takes over the trips of block k, which is taken off the list.       *)
LEMMA TakeOverKeeps ==
  ASSUME VehicleInv, stage # "placing", ~Vehicle.electric,
         UNCHANGED <<problem, stage, closed, unassigned, inserted, nextId>>,
         NEW i \in DOMAIN blocks, NEW k \in DOMAIN blocks, i # k,
         NEW c, Good(c), c.id = blocks[i].id,
         Range(c.trips) = Range(blocks[i].trips) \cup Range(blocks[k].trips),
         blocks' = RemoveAt([blocks EXCEPT ![i] = c], k)
  PROVE  VehicleInv'
<1>1. /\ Listed /\ problem \in Problems /\ nextId \in Nat /\ closed = <<>>
      /\ blocks \in Seq(BlockType) /\ c \in BlockType
  BY DEF VehicleInv, Listed, Good
<1>2. Numbered(blocks) /\ AllBlocks = blocks /\ All = Range(blocks) /\ Len(blocks) \in Nat
  BY <1>1, AllListed DEF All
<1>3. BlockType' = BlockType
  BY SameRequest
<1> HIDE DEF BlockType
<1>4. /\ blocks' \in Seq(BlockType) /\ Len(blocks') = Len(blocks) - 1 /\ Numbered(blocks')
      /\ Range(blocks') = (Range(blocks) \ {blocks[i], blocks[k]}) \cup {c}
  <2> DEFINE r == blocks'
  <2>1. r = RemoveAt(Replaced(blocks, i, c), k)
    BY DEF Replaced
  <2>2. /\ blocks \in Seq(BlockType) /\ Numbered(blocks) /\ c \in BlockType
        /\ i \in DOMAIN blocks /\ k \in DOMAIN blocks /\ i # k /\ c.id = blocks[i].id
    BY <1>1, <1>2
  <2> HIDE DEF r
  <2>3. /\ r \in Seq(BlockType) /\ Len(r) = Len(blocks) - 1 /\ Numbered(r)
        /\ Range(r) = (Range(blocks) \ {blocks[i], blocks[k]}) \cup {c}
    BY ONLY <2>1, <2>2, JoinedBlocks
  <2> QED
    BY <2>3 DEF r
<1>5. AllBlocks' = blocks'
  BY <1>1, <1>4, ConcatEmptySeq DEF AllBlocks
<1> DEFINE O == {blocks[i], blocks[k]}
<1>6. O \subseteq All /\ All' = (All \ O) \cup {c}
  <2>1. O \subseteq Range(blocks)
    BY DEF Range
  <2>2. All' = Range(blocks')
    BY <1>5 DEF All
  <2> QED
    BY <1>2, <1>4, <2>1, <2>2
<1>7. Listed'
  <2>1. \A b \in All' : b.trips # <<>> /\ b.id < nextId
    BY <1>1, <1>6 DEF Listed, Good
  <2> QED
    BY <1>1, <1>3, <1>4, <1>5, <2>1 DEF Listed
<1> DEFINE X == {}
<1>8. Range(c.trips) = TripsOf(O) \cup X /\ X \subseteq Waiting
  BY DEF TripsOf
<1>9. Waiting' = Waiting \ X
  BY DEF Waiting
<1>10. prm.limit > 0 => Len(AllBlocks') <= prm.limit
  <2>1. prm.limit > 0 => Len(blocks) <= prm.limit
    BY <1>2 DEF VehicleInv, Sound, FleetWithinLimit
  <2> QED
    BY <1>1, <1>2, <1>4, <1>5, <2>1, PrmTyped
<1>11. /\ VehicleInv /\ UNCHANGED <<problem, unassigned>> /\ Good(c)' /\ inserted \subseteq inserted'
       /\ stage' = "placing" => todo' \in Seq(TripIds(problem)) /\ IsInjective(todo')
       /\ Vehicle.electric /\ stage' # "placing" => todo' = <<>>
  BY SameRequest
<1> HIDE DEF O, X
<1> QED
  BY ONLY <1>6, <1>7, <1>8, <1>9, <1>10, <1>11, ExchangeKeeps

(* A step that leaves the blocks in their list, while no trip is waiting. *)
LEMMA SameListKeeps ==
  ASSUME VehicleInv, UNCHANGED <<problem, blocks, closed, unassigned, inserted, nextId>>,
         stage # "placing", stage' # "placing", Vehicle.electric => todo' = <<>>
  PROVE  VehicleInv'
<1>1. AllBlocks' = AllBlocks /\ All' = All /\ Len(AllBlocks') = Len(AllBlocks)
  BY DEF AllBlocks, All
<1>2. Waiting = {} /\ Waiting' = {}
  BY DEF Waiting
<1>3. Listed'
  BY <1>1, SameRequest DEF VehicleInv, Listed
<1> QED
  BY <1>1, <1>2, <1>3, SameBlocksKeep

LEMMA MoveChosen ==
  ASSUME Listed, NEW id, NEW t \in TripIds(problem), Moves(id, t) # {}, NEW m,
         m = CHOOSE i \in Moves(id, t) :
               \A j \in Moves(id, t) : \/ MoveCost(i, t) < MoveCost(j, t)
                                       \/ MoveCost(i, t) = MoveCost(j, t) /\ i <= j
  PROVE  m \in Moves(id, t)
<1> DEFINE M == Moves(id, t)
           f == [i \in M |-> MoveCost(i, t)]
<1>1. IsFiniteSet(M) /\ M \subseteq Int /\ \A i \in M : MoveCost(i, t) \in Int
  BY MovesTyped
<1> HIDE DEF M
<1>2. IntsOn(f, M) /\ \A i \in M : f[i] = MoveCost(i, t)
  BY <1>1 DEF IntsOn
<1>3. \E i \in M : \A j \in M : f[i] < f[j] \/ (f[i] = f[j] /\ i <= j)
  <2> HIDE DEF f
  <2> QED
    BY <1>1, <1>2, LeastExists DEF M
<1> HIDE DEF f
<1>4. \E i \in M : \A j \in M : \/ MoveCost(i, t) < MoveCost(j, t)
                                \/ MoveCost(i, t) = MoveCost(j, t) /\ i <= j
  BY <1>2, <1>3
<1> QED
  BY <1>4 DEF M

LEMMA CompactKeeps ==
  ASSUME VehicleInv, NEW id, Compact(id)
  PROVE  VehicleInv'
<1>1. /\ stage # "placing" /\ todo # <<>> /\ stage' # "placing"
      /\ UNCHANGED <<problem, stage, closed, unassigned, inserted, nextId>>
  BY DEF Compact
<1>2. /\ ~Vehicle.electric /\ Listed
  BY <1>1 DEF VehicleInv, Sound
<1>3. CASE UNCHANGED blocks
  BY <1>1, <1>2, <1>3, SameListKeeps
<1> DEFINE k == At(id)
           t == blocks[k].trips[1]
           m == CHOOSE i \in Moves(id, t) :
                  \A j \in Moves(id, t) : \/ MoveCost(i, t) < MoveCost(j, t)
                                          \/ MoveCost(i, t) = MoveCost(j, t) /\ i <= j
<1>4. CASE ~UNCHANGED blocks
  <2>1. /\ Exists(id) /\ Len(blocks[k].trips) = 1 /\ Moves(id, t) # {}
        /\ blocks' = RemoveAt(Moved(m, t), k)
    BY <1>4 DEF Compact, FirstLeast
  <2>2. k \in DOMAIN blocks /\ blocks[k].id = id
    BY <1>2, <2>1, AllListed, AtBlock
  <2> HIDE DEF k
  <2>3. blocks[k] \in All
    BY <1>2, <2>2, AllListed DEF Range
  <2>4. t \in TripIds(problem) /\ Range(blocks[k].trips) = {t}
    <3>1. DOMAIN blocks[k].trips = {1}
      BY <1>2, <2>1, <2>3, BlockTyped
    <3> QED
      BY <1>2, <2>3, <3>1, BlockTyped DEF Range
  <2>5. m \in Moves(id, t)
    <3> HIDE DEF t
    <3> QED
      BY <1>2, <2>1, <2>4, MoveChosen
  <2> HIDE DEF m, t
  <2> DEFINE i == (m + 1) \div 2
             b == blocks[i]
             trips == IF m % 2 = 1 THEN Append(b.trips, t) ELSE <<t>> \o b.trips
             c == MovedBlock(b, trips)
  <2>6. /\ i \in DOMAIN blocks /\ blocks[i].id # id
        /\ \/ m % 2 = 1 /\ Fits(blocks[i], t)
           \/ m % 2 # 1 /\ FitsBefore(blocks[i], t)
    BY <1>2, <2>4, <2>5, MovesTyped
  <2>7. Moved(m, t) = [blocks EXCEPT ![i] = c]
    <3> DEFINE start == OrElse(Trip(trips[1]).depot, b.start)
               end == OrElse(Trip(Last(trips)).depot, b.end)
    <3>1. Moved(m, t) = [blocks EXCEPT ![i].trips = trips, ![i].start = start, ![i].end = end]
      BY DEF Moved
    <3>2. blocks \in [DOMAIN blocks -> BlockType] /\ blocks[i] \in BlockType /\ i \in DOMAIN blocks
      BY <1>2, <2>6, AllListed DEF Listed
    <3>3. b \in BlockType /\ c = [id |-> b.id, trips |-> trips, start |-> start, end |-> end, soc |-> b.soc]
      BY <3>2 DEF MovedBlock
    <3> HIDE DEF trips, start, end, c, i
    <3>4. [blocks EXCEPT ![i].trips = trips, ![i].start = start, ![i].end = end]
            = [blocks EXCEPT ![i] = [[[b EXCEPT !.trips = trips] EXCEPT !.start = start] EXCEPT !.end = end]]
      BY ONLY <3>2
    <3> HIDE DEF b
    <3>5. [[[b EXCEPT !.trips = trips] EXCEPT !.start = start] EXCEPT !.end = end] = c
      <4>1. WithRoute(b, trips, start, end) = c
        BY <3>3, ChangedFields
      <4> QED
        BY <4>1 DEF WithRoute
    <3> QED
      BY <3>1, <3>4, <3>5
  <2>8. b \in All
    BY <1>2, <2>6, AllListed DEF Range
  <2>9. t \notin Range(b.trips)
    BY <2>2, <2>3, <2>4, <2>6, <2>8 DEF VehicleInv, Parted, Apart
  <2>10. \/ trips = Append(b.trips, t) /\ Fits(b, t)
         \/ trips = <<t>> \o b.trips /\ FitsBefore(b, t)
    BY <2>6
  <2> HIDE DEF trips, i, b
  <2>11. c.id = b.id /\ Good(c) /\ Range(c.trips) = Range(b.trips) \cup {t}
    BY <1>2, <2>4, <2>8, <2>9, <2>10, MovedGood
  <2> HIDE DEF c
  <2>12. i # k /\ b = blocks[i] /\ i \in DOMAIN blocks
    BY <2>2, <2>6 DEF b, i
  <2>13. blocks' = RemoveAt([blocks EXCEPT ![i] = c], k)
    BY <2>1, <2>7
  <2> QED
    BY <1>1, <1>2, <2>2, <2>4, <2>11, <2>12, <2>13, TakeOverKeeps
<1> QED
  BY <1>3, <1>4

LEMMA StitchKeeps ==
  ASSUME VehicleInv, NEW id, Stitch(id)
  PROVE  VehicleInv'
<1>1. /\ stage # "placing" /\ todo # <<>> /\ stage' # "placing"
      /\ UNCHANGED <<problem, stage, closed, unassigned, inserted, nextId>>
  BY DEF Stitch
<1>2. /\ ~Vehicle.electric /\ Listed
  BY <1>1 DEF VehicleInv, Sound
<1>3. CASE UNCHANGED blocks
  BY <1>1, <1>2, <1>3, SameListKeeps
<1> DEFINE a == blocks[At(id)]
           order == BlockOrder(blocks)
           targets == {k \in DOMAIN order : Stitches(a, blocks[At(order[k])])}
           gap(k) == TripGap(problem, Last(a.trips), blocks[At(order[k])].trips[1])
           at == CHOOSE i \in targets :
                   \A j \in targets : gap(i) < gap(j) \/ (gap(i) = gap(j) /\ i <= j)
           b == blocks[At(order[at])]
           f == [i \in targets |-> gap(i)]
<1>4. CASE ~UNCHANGED blocks
  <2>1. /\ Exists(id) /\ targets # {}
        /\ blocks' = RemoveAt([blocks EXCEPT ![At(id)].trips = @ \o b.trips,
                                             ![At(id)].end = b.end], At(b.id))
    BY <1>4 DEF Stitch, FirstLeast
  <2> HIDE DEF order
  <2>2. /\ DOMAIN order = 1..Len(blocks) /\ Len(blocks) \in Nat
        /\ \A k \in 1..Len(blocks) : \E j \in DOMAIN blocks : order[k] = blocks[j].id
    BY <1>2, OrderListed, AllListed DEF order
  <2>3. At(id) \in DOMAIN blocks /\ blocks[At(id)].id = id /\ a \in All
    BY <1>2, <2>1, AllListed, AtBlock DEF Range
  <2>4. \A k \in DOMAIN order : /\ At(order[k]) \in DOMAIN blocks /\ blocks[At(order[k])] \in All
                                /\ At(blocks[At(order[k])].id) = At(order[k])
    BY <1>2, <2>2, AllListed, AtBlock DEF Range
  <2>5. IsFiniteSet(targets) /\ targets \subseteq Int
    <3>1. IsFiniteSet(1..Len(blocks))
      BY <2>2, FS_Interval
    <3>2. targets \in SUBSET (1..Len(blocks))
      BY <2>2
    <3> HIDE DEF targets
    <3>3. IsFiniteSet(targets)
      BY <3>1, <3>2, FS_Subset
    <3> QED
      BY <2>2, <3>2, <3>3
  <2>6. \A k \in targets : gap(k) \in Int
    <3>1. SUFFICES ASSUME NEW k \in targets PROVE gap(k) \in Int
      OBVIOUS
    <3>2. Last(a.trips) \in TripIds(problem) /\ blocks[At(order[k])].trips[1] \in TripIds(problem)
      BY <1>2, <2>3, <2>4, BlockTyped
    <3>3. problem \in Problems
      BY <1>2 DEF Listed
    <3> QED
      BY <3>2, <3>3, CostsTyped
  <2> HIDE DEF gap
  <2>7. IntsOn(f, targets) /\ \A i \in targets : f[i] = gap(i)
    BY <2>6 DEF IntsOn
  <2>8. \E i \in targets : \A j \in targets : f[i] < f[j] \/ (f[i] = f[j] /\ i <= j)
    <3> HIDE DEF f, targets
    <3> QED
      BY <2>1, <2>5, <2>7, LeastExists
  <2>9. at \in targets
    <3> HIDE DEF f, targets
    <3> QED
      BY <2>7, <2>8
  <2> HIDE DEF at, f
  <2>10. b \in All /\ At(order[at]) \in DOMAIN blocks /\ At(b.id) = At(order[at]) /\ Stitches(a, b)
    BY <2>4, <2>9
  <2> DEFINE c == JoinedBlock(a, b)
             i == At(id)
             k == At(b.id)
  <2>11. /\ i \in DOMAIN blocks /\ a = blocks[i]
         /\ k \in DOMAIN blocks /\ b = blocks[k]
    BY <2>3, <2>10
  <2>12. blocks' = RemoveAt([blocks EXCEPT ![i].trips = a.trips \o b.trips, ![i].end = b.end], k)
    BY <2>1
  <2> HIDE DEF targets, a, b, i, k
  <2>13. a # b /\ c.id = a.id /\ Good(c) /\ Range(c.trips) = Range(a.trips) \cup Range(b.trips)
    BY <1>2, <2>3, <2>10, StitchedGood
  <2>14. [blocks EXCEPT ![i].trips = a.trips \o b.trips, ![i].end = b.end] = [blocks EXCEPT ![i] = c]
    <3> DEFINE trips == a.trips \o b.trips
               end == b.end
    <3>1. blocks \in [DOMAIN blocks -> BlockType] /\ a \in BlockType
      BY <1>2, <2>3, AllListed DEF Listed
    <3>2. c = [id |-> a.id, trips |-> trips, start |-> a.start, end |-> end, soc |-> a.soc]
      BY DEF JoinedBlock
    <3> HIDE DEF trips, end, c
    <3>3. [blocks EXCEPT ![i].trips = trips, ![i].end = end]
            = [blocks EXCEPT ![i] = [[a EXCEPT !.trips = trips] EXCEPT !.end = end]]
      BY ONLY <2>11, <3>1
    <3>4. [[a EXCEPT !.trips = trips] EXCEPT !.end = end] = c
      <4>1. WithTail(a, trips, end) = c
        BY <3>1, <3>2, ChangedFields
      <4> QED
        BY <4>1 DEF WithTail
    <3> QED
      BY <3>3, <3>4 DEF trips, end
  <2> HIDE DEF c
  <2>15. /\ blocks' = RemoveAt([blocks EXCEPT ![i] = c], k) /\ i # k /\ c.id = blocks[i].id
         /\ Range(c.trips) = Range(blocks[i].trips) \cup Range(blocks[k].trips)
    BY <2>11, <2>12, <2>13, <2>14
  <2> QED
    BY <1>1, <1>2, <2>11, <2>13, <2>15, TakeOverKeeps
<1> QED
  BY <1>3, <1>4

-------------------------------------------------------------------------------
(* Every step.                                                                 *)

LEMMA SearchKeeps ==
  ASSUME VehicleInv, stage # "placing", stage' # "placing",
         UNCHANGED <<problem, todo, blocks, closed, unassigned, inserted, nextId>>
  PROVE  VehicleInv'
<1>1. Vehicle.electric => todo' = <<>>
  BY DEF VehicleInv, Sound
<1> QED
  BY <1>1, SameListKeeps

LEMMA StutterKeeps ==
  ASSUME VehicleInv, UNCHANGED greedyVars
  PROVE  VehicleInv'
<1>1. UNCHANGED <<problem, stage, todo, blocks, closed, unassigned, inserted, nextId>>
  BY DEF greedyVars
<1>2. AllBlocks' = AllBlocks /\ All' = All /\ Len(AllBlocks') = Len(AllBlocks)
  BY <1>1 DEF AllBlocks, All
<1>3. Waiting' = Waiting
  BY <1>1 DEF Waiting
<1>4. Listed'
  BY <1>1, <1>2, SameRequest DEF VehicleInv, Listed
<1>5. /\ Waiting' \cap unassigned' = {}
      /\ stage' = "placing" => todo' \in Seq(TripIds(problem)) /\ IsInjective(todo')
      /\ Vehicle.electric /\ stage' # "placing" => todo' = <<>>
  BY <1>1, <1>3 DEF VehicleInv, Parted, Sound
<1> QED
  BY <1>1, <1>2, <1>3, <1>4, <1>5, SameBlocksKeep

LEMMA GreedyKeeps ==
  ASSUME VehicleInv, GreedyNext
  PROVE  VehicleInv'
<1>1. CASE \E t \in TripIds(problem) : OpenBlock(t) \/ LeaveTrip(t) \/ AppendTrip(t)
  BY <1>1, OpenBlockKeeps, LeaveTripKeeps, AppendTripKeeps
<1>2. CASE EndPlacing
  BY <1>2, EndPlacingKeeps
<1>3. CASE \E id \in 1..nextId : Compact(id) \/ Stitch(id)
  BY <1>3, CompactKeeps, StitchKeeps
<1>4. CASE BeginRound
  <2>1. /\ stage # "placing" /\ stage' # "placing" /\ ~Vehicle.electric
        /\ UNCHANGED <<problem, blocks, closed, unassigned, inserted, nextId>>
    BY <1>4 DEF BeginRound
  <2> QED
    BY <2>1, SameListKeeps
<1>5. CASE Planned
  <2>1. /\ stage # "placing" /\ stage' # "placing"
        /\ UNCHANGED <<problem, todo, blocks, closed, unassigned, inserted, nextId>>
    BY <1>5 DEF Planned
  <2> QED
    BY <2>1, SearchKeeps
<1> QED
  BY <1>1, <1>2, <1>3, <1>4, <1>5 DEF GreedyNext

LEMMA VehicleNext == VehicleInv /\ [Next]_vars => VehicleInv'
<1> SUFFICES ASSUME VehicleInv, [Next]_vars PROVE VehicleInv'
  OBVIOUS
<1>1. CASE GreedyNext
  BY <1>1, GreedyKeeps
<1>2. CASE Start \/ Publish
  <2>1. /\ stage # "placing" /\ stage' # "placing"
        /\ UNCHANGED <<problem, todo, blocks, closed, unassigned, inserted, nextId>>
    BY <1>2 DEF Start, Publish
  <2> QED
    BY <2>1, SearchKeeps
<1>3. CASE \/ SaTurn \/ SaRestart \/ SaPerturb \/ TabuTurn \/ TabuBlank \/ AlnsTurn
           \/ GaPopulate \/ GaElite \/ GaBreed \/ GaGeneration
  <2>1. UNCHANGED greedyVars
    BY <1>3 DEF SaTurn, SaRestart, SaPerturb, TabuTurn, TabuBlank, AlnsTurn,
                GaPopulate, GaElite, GaBreed, GaGeneration, Searching
  <2> QED
    BY <2>1, StutterKeeps
<1>4. CASE UNCHANGED vars
  BY <1>4, StutterKeeps DEF vars
<1> QED
  BY <1>1, <1>2, <1>3, <1>4 DEF Next

(* Trips, blocks and limits as the inductive invariant describes them: of the  *)
(* greedy's loops and whatever search comes after them.                        *)
THEOREM VehicleInvariant == Spec => []VehicleInv
<1>1. Init => VehicleInv
  BY VehicleInit DEF Init
<1> QED
  BY <1>1, VehicleNext, PTL DEF Spec

-------------------------------------------------------------------------------
(* What the invariant says of a trip, of a block and of the fleet.             *)

LEMMA PlacedOnce ==
  ASSUME VehicleInv, NEW t \in TripIds(problem)
  PROVE  /\ Cardinality(Places(t, AllBlocks)) = (IF t \in TripsOf(All) THEN 1 ELSE 0)
         /\ t \in TripsOf(All) \/ t \in unassigned \/ t \in Waiting
         /\ ~(t \in TripsOf(All) /\ t \in unassigned)
         /\ ~(t \in TripsOf(All) /\ t \in Waiting)
         /\ ~(t \in unassigned /\ t \in Waiting)
<1> DEFINE s == AllBlocks
           P == Places(t, s)
<1>1. \A p : p \in P <=> \E i \in DOMAIN s : \E k \in DOMAIN s[i].trips : p = <<i, k>> /\ s[i].trips[k] = t
  BY DEF Places
<1>2. /\ Numbered(s) /\ Apart(All) /\ All = {s[i] : i \in DOMAIN s}
      /\ \A b \in All : IsInjective(b.trips)
  BY DEF VehicleInv, Listed, Parted, All, Range
<1> HIDE DEF P, s
<1>3. CASE t \in TripsOf(All)
  <2>1. PICK i \in DOMAIN s : \E k \in DOMAIN s[i].trips : s[i].trips[k] = t
    BY <1>2, <1>3 DEF TripsOf, Range
  <2>2. PICK k \in DOMAIN s[i].trips : s[i].trips[k] = t
    BY <2>1
  <2>3. ASSUME NEW j \in DOMAIN s, NEW l \in DOMAIN s[j].trips, s[j].trips[l] = t
        PROVE  j = i /\ l = k
    <3>1. t \in Range(s[i].trips) /\ t \in Range(s[j].trips)
      BY <2>2, <2>3 DEF Range
    <3>2. s[i] \in All /\ s[j] \in All
      BY <1>2
    <3>3. s[i] = s[j]
      BY <1>2, <3>1, <3>2 DEF Apart
    <3>4. j = i
      BY <1>2, <3>3 DEF Numbered
    <3>5. IsInjective(s[i].trips)
      BY <1>2, <3>2
    <3> QED
      BY <2>2, <2>3, <3>4, <3>5 DEF IsInjective
  <2>4. P = {<<i, k>>}
    BY <1>1, <2>2, <2>3
  <2>5. Cardinality(P) = 1
    BY <2>4, FS_Singleton
  <2> QED
    BY <1>3, <2>5 DEF VehicleInv, Parted, P, s
<1>4. CASE t \notin TripsOf(All)
  <2>1. P = {}
    BY <1>1, <1>2, <1>4 DEF TripsOf, Range
  <2>2. Cardinality(P) = 0
    BY <2>1, FS_EmptySet
  <2> QED
    BY <1>4, <2>2 DEF VehicleInv, Parted, P, s
<1> QED
  BY <1>3, <1>4

LEMMA InvTripsOnce == VehicleInv => TripsOnce
<1> SUFFICES ASSUME VehicleInv, NEW t \in TripIds(problem)
             PROVE  Cardinality(Places(t, AllBlocks)) + (IF t \in unassigned THEN 1 ELSE 0)
                      + (IF stage = "placing" /\ t \in Range(todo) THEN 1 ELSE 0) = 1
  BY DEF TripsOnce
<1>1. stage = "placing" /\ t \in Range(todo) <=> t \in Waiting
  BY DEF Waiting
<1> QED
  BY <1>1, PlacedOnce

(* A trip waits, or is in exactly one block and once, or is reported as left   *)
(* out: placing, moving single trips and joining blocks lose and double none.  *)
THEOREM TripsStayOnce == Spec => []TripsOnce
BY VehicleInvariant, InvTripsOnce, PTL

(* Every block can be driven as the request demands, whichever loops made it:  *)
(* no link is broken by a trip put in front, behind or between two others, and *)
(* the span holds for the whole.                                               *)
THEOREM BlocksAlwaysRun == Spec => []BlocksRun
<1>1. VehicleInv => BlocksRun
  BY DEF VehicleInv, Sound, Runs, BlocksRun, All
<1> QED
  BY <1>1, VehicleInvariant, PTL

(* The fleet limit holds through placing, compaction and stitching, and so do  *)
(* the depots and the charge of the batteries of the blocks no trip was put    *)
(* into the middle of.                                                         *)
THEOREM LimitsAlwaysHold == Spec => []LimitsHold
<1>1. VehicleInv => OneDepot
  BY DEF VehicleInv, Sound, AtHome, DepotsBind, OneDepot, All
<1>2. VehicleInv => BatteryLasts
  BY DEF VehicleInv, Sound, Charged, BatteriesBind, BatteryLasts, All
<1>3. VehicleInv => LimitsHold
  BY <1>1, <1>2 DEF VehicleInv, Sound, LimitsHold
<1> QED
  BY <1>3, VehicleInvariant, PTL

===============================================================================
