----------------------------- MODULE FoldTheorems -----------------------------
(***************************************************************************)
(* What the folds, sorts and lists the models are built from compute:      *)
(* induction without a predicate as a parameter, the function a fold       *)
(* chooses, sums over sets, choosing and sorting, and lists.               *)
(***************************************************************************)
EXTENDS TripLinks, FiniteSetTheorems, SequenceTheorems, WellFoundedInduction, TLAPS

(* The values of f on S are numbers. *)
IntsOn(f, S) == \A y \in S : f[y] \in Int

(* The sum of f[x] for the members x of a finite set. *)
Sum(f, S) == MapThenSumSet(LAMBDA x : f[x], S)

-------------------------------------------------------------------------------
(* Induction.  A set of good things takes the place of the predicate.          *)

(* A smallest bad subset is not empty, and good without any of its members. *)
LEMMA SubsetInduction ==
  ASSUME NEW S, IsFiniteSet(S), NEW Good,
         {} \in Good,
         \A T \in SUBSET S : T # {} /\ (\A x \in T : T \ {x} \in Good) => T \in Good
  PROVE  \A T \in SUBSET S : T \in Good
<1> DEFINE Bad == {T \in SUBSET S : T \notin Good}
<1> SUFFICES ASSUME Bad # {} PROVE FALSE
  OBVIOUS
<1>1. PICK T \in Bad : \A U \in Bad : <<U, T>> \notin StrictSubsetOrdering(S)
  <2>1. IsWellFoundedOn(StrictSubsetOrdering(S), SUBSET S)
    BY FS_StrictSubsetOrderingWellFounded, FS_FiniteSubsetsOfFinite
  <2>2. Bad \subseteq SUBSET S
    OBVIOUS
  <2> HIDE DEF Bad
  <2> QED
    BY <2>1, <2>2, WFMin
<1>2. ASSUME NEW x \in T PROVE T \ {x} \in Good
  <2>1. <<T \ {x}, T>> \in StrictSubsetOrdering(S)
    BY DEF StrictSubsetOrdering
  <2> QED
    BY <1>1, <2>1
<1> QED
  BY <1>1, <1>2

LEMMA NumberInduction ==
  ASSUME NEW Good, 0 \in Good, \A n \in Nat : n \in Good => n + 1 \in Good
  PROVE  \A n \in Nat : n \in Good
<1> DEFINE Bad == {n \in Nat : n \notin Good}
<1> SUFFICES ASSUME Bad # {} PROVE FALSE
  OBVIOUS
<1>1. PICK n \in Bad : \A m \in Bad : <<m, n>> \notin OpToRel(<, Nat)
  <2> HIDE DEF Bad
  <2>1. Bad \subseteq Nat
    BY DEF Bad
  <2> QED
    BY <2>1, NatLessThanWellFounded, WFMin
<1>2. n \in Nat /\ n # 0 /\ n - 1 \in Nat
  OBVIOUS
<1>3. <<n - 1, n>> \in OpToRel(<, Nat)
  BY <1>2 DEF OpToRel
<1>4. n - 1 \in Good
  BY <1>1, <1>2, <1>3
<1> QED
  BY <1>2, <1>4

-------------------------------------------------------------------------------
(* Folds.  pick[s] is the member a fold takes first, step what it does with    *)
(* that member and the value of the rest.                                      *)
FoldsTo(g, S, base, pick, step) ==
  \A s \in SUBSET S :
    g[s] = IF s = {} THEN base ELSE step[<<pick[s], g[s \ {pick[s]}]>>]

(* The recursion has a solution: iterate it as often as S has members. *)
LEMMA FoldExists ==
  ASSUME NEW S, IsFiniteSet(S), NEW V, NEW base \in V,
         NEW pick, \A s \in SUBSET S : s # {} => pick[s] \in s,
         NEW step \in [S \X V -> V]
  PROVE  \E g \in [SUBSET S -> V] : FoldsTo(g, S, base, pick, step)
<1> DEFINE Once(g) == [s \in SUBSET S |-> IF s = {} THEN base
                                         ELSE step[<<pick[s], g[s \ {pick[s]}]>>]]
           Upto(g, n) == \A s \in SUBSET S : Cardinality(s) <= n => g[s] = Once(g)[s]
           Good == {n \in Nat : \E g \in [SUBSET S -> V] : Upto(g, n)}
<1>1. \A s \in SUBSET S : Cardinality(s) \in Nat
  BY FS_Subset, FS_CardinalityType
<1>2. 0 \in Good
  <2>1. \A s \in SUBSET S : Cardinality(s) <= 0 => s = {}
    BY <1>1, FS_Subset, FS_EmptySet
  <2>2. Upto([s \in SUBSET S |-> base], 0)
    BY <2>1
  <2> QED
    BY <2>2
<1>3. ASSUME NEW n \in Nat, n \in Good PROVE n + 1 \in Good
  <2>1. PICK g \in [SUBSET S -> V] : Upto(g, n)
    BY <1>3
  <2>2. Once(g) \in [SUBSET S -> V]
    OBVIOUS
  <2>3. ASSUME NEW s \in SUBSET S, Cardinality(s) <= n + 1, s # {}
        PROVE  g[s \ {pick[s]}] = Once(g)[s \ {pick[s]}]
    <3>1. pick[s] \in s /\ s \ {pick[s]} \in SUBSET S /\ IsFiniteSet(s)
      BY <2>3, FS_Subset
    <3>2. Cardinality(s \ {pick[s]}) = Cardinality(s) - 1
      <4>1. \A x \in s : Cardinality(s \ {x}) = Cardinality(s) - 1
        BY <3>1, FS_RemoveElement
      <4> QED
        BY <3>1, <4>1
    <3>3. Cardinality(s \ {pick[s]}) <= n
      BY <1>1, <2>3, <3>1, <3>2
    <3> QED
      BY <2>1, <3>1, <3>3
  <2>4. Upto(Once(g), n + 1)
    BY <2>3
  <2> HIDE DEF Once, Upto
  <2> QED
    BY <2>2, <2>4
<1>4. Cardinality(S) \in Nat /\ \A s \in SUBSET S : Cardinality(s) <= Cardinality(S)
  BY <1>1, FS_Subset
<1>5. Cardinality(S) \in Good
  <2> HIDE DEF Good
  <2> QED
    BY <1>2, <1>3, <1>4, NumberInduction
<1>6. PICK g \in [SUBSET S -> V] : Upto(g, Cardinality(S))
  BY <1>5
<1>7. FoldsTo(g, S, base, pick, step)
  BY <1>4, <1>6 DEF FoldsTo
<1> QED
  BY <1>7

-------------------------------------------------------------------------------
(* Sums.                                                                       *)
Summand(g, f, S) ==
  g = [s \in SUBSET S |-> IF s = {} THEN 0
                          ELSE f[CHOOSE x \in s : TRUE] + g[s \ {CHOOSE x \in s : TRUE}]]

(* A sum is what a function that adds up every subset gives for S. *)
LEMMA SumOpened ==
  ASSUME NEW S, IsFiniteSet(S), NEW f, IntsOn(f, S)
  PROVE  \E g \in [SUBSET S -> Int] : Summand(g, f, S) /\ Sum(f, S) = g[S]
<1> DEFINE pick == [s \in SUBSET S |-> CHOOSE x \in s : TRUE]
           step == [p \in S \X Int |-> f[p[1]] + p[2]]
<1>1. step \in [S \X Int -> Int]
  BY DEF IntsOn
<1>2. \A s \in SUBSET S : s # {} => pick[s] \in s
  OBVIOUS
<1>3. PICK h \in [SUBSET S -> Int] : FoldsTo(h, S, 0, pick, step)
  <2>1. 0 \in Int
    OBVIOUS
  <2> HIDE DEF pick, step
  <2> QED
    BY <1>1, <1>2, <2>1, FoldExists
<1>4. Summand(h, f, S)
  <2>1. \A s \in SUBSET S : s # {} =>
          step[<<pick[s], h[s \ {pick[s]}]>>]
            = f[CHOOSE x \in s : TRUE] + h[s \ {CHOOSE x \in s : TRUE}]
    <3>1. \A x \in S, k \in Int : step[<<x, k>>] = f[x] + k
      OBVIOUS
    <3>2. \A s \in SUBSET S : s # {} =>
            pick[s] = (CHOOSE x \in s : TRUE) /\ pick[s] \in S /\ h[s \ {pick[s]}] \in Int
      BY <1>2
    <3> SUFFICES ASSUME NEW s \in SUBSET S, s # {}
                 PROVE  step[<<pick[s], h[s \ {pick[s]}]>>]
                          = f[pick[s]] + h[s \ {pick[s]}]
      BY <3>2
    <3> HIDE DEF pick, step
    <3> QED
      BY <3>1, <3>2
  <2> HIDE DEF step
  <2> QED
    BY <1>3, <2>1 DEF FoldsTo, Summand
<1> DEFINE g == CHOOSE u : Summand(u, f, S)
<1>5. Summand(g, f, S)
  BY <1>4
<1>6. Sum(f, S) = g[S]
  BY DEF Sum, MapThenSumSet, MapThenFoldSet, Summand
<1>7. \A s \in SUBSET S : g[s] \in Int
  <2> DEFINE Good == {s \in SUBSET S : g[s] \in Int}
  <2> HIDE DEF g
  <2>1. {} \in Good
    BY <1>5 DEF Summand
  <2>2. ASSUME NEW T \in SUBSET S, T # {}, \A x \in T : T \ {x} \in Good
        PROVE  T \in Good
    BY <1>5, <2>2 DEF Summand, IntsOn
  <2> HIDE DEF Good
  <2>3. \A T \in SUBSET S : T \in Good
    BY <2>1, <2>2, SubsetInduction
  <2> QED
    BY <2>3 DEF Good
<1>8. g \in [SUBSET S -> Int]
  <2> HIDE DEF g
  <2> QED
    BY <1>5, <1>7 DEF Summand
<1> QED
  BY <1>5, <1>6, <1>8

(* It does not matter which member is added last. *)
LEMMA AnyLast ==
  ASSUME NEW S, IsFiniteSet(S), NEW f, IntsOn(f, S),
         NEW g \in [SUBSET S -> Int], Summand(g, f, S),
         NEW U \in SUBSET S, NEW z \in U
  PROVE  g[U] = f[z] + g[U \ {z}]
<1> DEFINE Good == {T \in SUBSET S : \A x \in T : g[T] = f[x] + g[T \ {x}]}
<1>1. {} \in Good
  OBVIOUS
<1>2. ASSUME NEW T \in SUBSET S, T # {}, \A x \in T : T \ {x} \in Good
      PROVE  T \in Good
  <2> DEFINE c == CHOOSE x \in T : TRUE
  <2>1. c \in T /\ g[T] = f[c] + g[T \ {c}]
    BY <1>2 DEF Summand
  <2>2. ASSUME NEW x \in T PROVE g[T] = f[x] + g[T \ {x}]
    <3> HIDE DEF c
    <3>1. CASE x = c
      BY <2>1, <3>1
    <3>2. CASE x # c
      <4>1. /\ T \ {c} \in Good /\ T \ {x} \in Good
            /\ x \in T \ {c} /\ c \in T \ {x}
        BY <1>2, <2>1, <3>2
      <4>2. /\ g[T \ {c}] = f[x] + g[(T \ {c}) \ {x}]
            /\ g[T \ {x}] = f[c] + g[(T \ {x}) \ {c}]
        BY <4>1
      <4>3. (T \ {c}) \ {x} = (T \ {x}) \ {c} /\ (T \ {c}) \ {x} \in SUBSET S
        OBVIOUS
      <4>4. g[(T \ {c}) \ {x}] \in Int /\ f[x] \in Int /\ f[c] \in Int
        BY <2>1, <4>3 DEF IntsOn
      <4> DEFINE r == g[(T \ {c}) \ {x}]
      <4>5. g[T] = f[c] + (f[x] + r) /\ g[T \ {x}] = f[c] + r
        BY <2>1, <4>2, <4>3
      <4>6. r \in Int /\ f[x] \in Int /\ f[c] \in Int
        BY <4>4
      <4> HIDE DEF r
      <4>7. f[c] + (f[x] + r) = f[x] + (f[c] + r)
        BY <4>6
      <4> QED
        BY <4>5, <4>7
    <3> QED
      BY <3>1, <3>2
  <2> QED
    BY <2>2
<1>3. \A T \in SUBSET S : T \in Good
  <2> HIDE DEF Good
  <2> QED
    BY <1>1, <1>2, SubsetInduction
<1> QED
  BY <1>3

(* Two functions that add up the subsets of S agree on them. *)
LEMMA SummandUnique ==
  ASSUME NEW S, NEW T, IsFiniteSet(S), T \subseteq S, NEW f, NEW g, NEW h,
         Summand(g, f, S), Summand(h, f, T)
  PROVE  h[T] = g[T]
<1> DEFINE Good == {U \in SUBSET T : g[U] = h[U]}
<1>1. {} \in Good
  BY DEF Summand
<1>2. ASSUME NEW U \in SUBSET T, U # {}, \A x \in U : U \ {x} \in Good
      PROVE  U \in Good
  <2>1. PICK c \in U : c = CHOOSE x \in U : TRUE
    BY <1>2
  <2>2. g[U] = f[c] + g[U \ {c}] /\ h[U] = f[c] + h[U \ {c}]
    BY <1>2, <2>1 DEF Summand
  <2> QED
    BY <1>2, <2>2
<1>3. \A U \in SUBSET T : U \in Good
  <2> HIDE DEF Good
  <2> QED
    BY <1>1, <1>2, SubsetInduction, FS_Subset
<1> QED
  BY <1>3

LEMMA SumEmpty == \A f : Sum(f, {}) = 0
<1> SUFFICES ASSUME NEW f PROVE Sum(f, {}) = 0
  OBVIOUS
<1>1. PICK g \in [SUBSET {} -> Int] : Summand(g, f, {}) /\ Sum(f, {}) = g[{}]
  <2>1. IntsOn(f, {})
    BY DEF IntsOn
  <2> QED
    BY <2>1, SumOpened, FS_EmptySet
<1> QED
  BY <1>1 DEF Summand

LEMMA SumIsInt ==
  ASSUME NEW S, IsFiniteSet(S), NEW f, IntsOn(f, S)
  PROVE  Sum(f, S) \in Int
<1>1. PICK g \in [SUBSET S -> Int] : Sum(f, S) = g[S]
  BY SumOpened
<1> QED
  BY <1>1

(* The sum without one of the members. *)
LEMMA SumWithout ==
  ASSUME NEW S, IsFiniteSet(S), NEW f, IntsOn(f, S), NEW x \in S
  PROVE  Sum(f, S) = f[x] + Sum(f, S \ {x})
<1> DEFINE R == S \ {x}
<1>1. IsFiniteSet(R) /\ R \subseteq S /\ IntsOn(f, R)
  BY FS_RemoveElement DEF IntsOn
<1>2. PICK g \in [SUBSET S -> Int] : Summand(g, f, S) /\ Sum(f, S) = g[S]
  BY SumOpened
<1>3. \A z \in S : g[S] = f[z] + g[S \ {z}]
  <2>1. SUFFICES ASSUME NEW z \in S PROVE g[S] = f[z] + g[S \ {z}]
    OBVIOUS
  <2>2. Summand(g, f, S) /\ S \in SUBSET S
    BY <1>2
  <2> QED
    BY <2>2, AnyLast
<1> HIDE DEF R
<1>4. PICK h \in [SUBSET R -> Int] : Summand(h, f, R) /\ Sum(f, R) = h[R]
  BY <1>1, SumOpened
<1>5. h[R] = g[R]
  BY <1>1, <1>2, <1>4, SummandUnique
<1> QED
  BY <1>2, <1>3, <1>4, <1>5 DEF R

LEMMA SumWith ==
  ASSUME NEW S, IsFiniteSet(S), NEW f, IntsOn(f, S),
         NEW x, x \notin S, f[x] \in Int
  PROVE  Sum(f, S \cup {x}) = Sum(f, S) + f[x]
<1> DEFINE T == S \cup {x}
<1>1. IsFiniteSet(T) /\ x \in T /\ T \ {x} = S /\ IntsOn(f, T)
  BY FS_AddElement DEF IntsOn
<1>2. Sum(f, T) = f[x] + Sum(f, T \ {x})
  <2> HIDE DEF T
  <2> QED
    BY <1>1, SumWithout
<1>3. Sum(f, S) \in Int
  BY SumIsInt
<1>4. Sum(f, T) = f[x] + Sum(f, S)
  BY <1>1, <1>2
<1> HIDE DEF T
<1>5. f[x] + Sum(f, S) = Sum(f, S) + f[x]
  BY <1>3
<1> QED
  BY <1>4, <1>5 DEF T

(* Sums of functions that agree on the set. *)
LEMMA SumSame ==
  ASSUME NEW S, IsFiniteSet(S), NEW f, NEW h,
         IntsOn(f, S), \A x \in S : f[x] = h[x]
  PROVE  Sum(f, S) = Sum(h, S)
<1> DEFINE Good == {T \in SUBSET S : Sum(f, T) = Sum(h, T)}
<1>1. {} \in Good
  BY SumEmpty
<1>2. ASSUME NEW T \in SUBSET S, T # {}, \A x \in T : T \ {x} \in Good
      PROVE  T \in Good
  <2>1. PICK x \in T : TRUE
    BY <1>2
  <2>2. IsFiniteSet(T) /\ IntsOn(f, T) /\ IntsOn(h, T)
    BY FS_Subset DEF IntsOn
  <2>3. Sum(f, T) = f[x] + Sum(f, T \ {x}) /\ Sum(h, T) = h[x] + Sum(h, T \ {x})
    BY <2>2, SumWithout
  <2> QED
    BY <1>2, <2>3
<1>3. \A T \in SUBSET S : T \in Good
  <2> HIDE DEF Good
  <2> QED
    BY <1>1, <1>2, SubsetInduction
<1> QED
  BY <1>3

(* A sum of numbers that are not negative is not negative. *)
LEMMA SumIsNat ==
  ASSUME NEW S, IsFiniteSet(S), NEW f, \A x \in S : f[x] \in Nat
  PROVE  Sum(f, S) \in Nat
<1> DEFINE Good == {T \in SUBSET S : Sum(f, T) \in Nat}
<1>1. {} \in Good
  BY SumEmpty
<1>2. ASSUME NEW T \in SUBSET S, T # {}, \A x \in T : T \ {x} \in Good
      PROVE  T \in Good
  <2>1. PICK x \in T : TRUE
    BY <1>2
  <2>2. IsFiniteSet(T) /\ IntsOn(f, T)
    BY FS_Subset DEF IntsOn
  <2>3. Sum(f, T) = f[x] + Sum(f, T \ {x})
    BY <2>2, SumWithout
  <2>4. f[x] \in Nat /\ Sum(f, T \ {x}) \in Nat
    BY <1>2
  <2> QED
    BY <2>3, <2>4
<1>3. \A T \in SUBSET S : T \in Good
  <2> HIDE DEF Good
  <2> QED
    BY <1>1, <1>2, SubsetInduction
<1> QED
  BY <1>3

-------------------------------------------------------------------------------
(* Choosing and sorting.                                                       *)

(* R orders S strictly and totally. *)
Orders(R, S) ==
  /\ \A x \in S : <<x, x>> \notin R
  /\ \A x, y \in S : x # y => <<x, y>> \in R \/ <<y, x>> \in R
  /\ \A x, y, z \in S : <<x, y>> \in R /\ <<y, z>> \in R => <<x, z>> \in R

(* How many elements are below x. *)
Rank(R, S, x) == Cardinality({y \in S : <<y, x>> \in R})

(* In a finite set one element has no other below it, one has one, and so on. *)
LEMMA RankExists ==
  ASSUME NEW S, IsFiniteSet(S), NEW R, Orders(R, S),
         NEW n \in 0..(Cardinality(S) - 1)
  PROVE  \E x \in S : Rank(R, S, x) = n
<1> DEFINE below(x) == {y \in S : <<y, x>> \in R}
           rank == [x \in S |-> Cardinality(below(x))]
           m == Cardinality(S)
<1>1. m \in Nat
  BY FS_CardinalityType
<1>2. \A x \in S : IsFiniteSet(below(x)) /\ Cardinality(below(x)) \in Nat
  BY FS_Subset, FS_CardinalityType
<1>3. \A x \in S : rank[x] \in 0..(m - 1)
  <2>1. SUFFICES ASSUME NEW x \in S PROVE rank[x] \in 0..(m - 1)
    OBVIOUS
  <2>2. below(x) \in SUBSET S /\ below(x) # S
    BY DEF Orders
  <2>3. Cardinality(below(x)) <= m /\ Cardinality(below(x)) # m
    BY <2>2, FS_Subset
  <2> QED
    BY <1>1, <1>2, <2>3
<1>4. ASSUME NEW x \in S, NEW y \in S, <<x, y>> \in R PROVE rank[x] # rank[y]
  <2>1. below(x) \in SUBSET below(y)
    BY <1>4 DEF Orders
  <2>2. x \in below(y) /\ x \notin below(x)
    BY <1>4 DEF Orders
  <2>3. IsFiniteSet(below(y))
    BY <1>2
  <2>4. Cardinality(below(x)) # Cardinality(below(y))
    <3> HIDE DEF below
    <3> QED
      BY <2>1, <2>2, <2>3, FS_Subset
  <2> QED
    BY <2>4
<1>5. rank \in Injection(S, 0..(m - 1))
  <2>1. \A x, y \in S : rank[x] = rank[y] => x = y
    BY <1>4 DEF Orders
  <2>2. rank \in [S -> 0..(m - 1)]
    BY <1>3
  <2> HIDE DEF rank
  <2> QED
    BY <2>1, <2>2 DEF Injection, IsInjective
<1>6. IsFiniteSet(0..(m - 1)) /\ Cardinality(0..(m - 1)) = m
  BY <1>1, FS_Interval
<1> HIDE DEF rank
<1>7. rank \in Surjection(S, 0..(m - 1))
  BY <1>5, <1>6, FS_Injection
<1>8. \E x \in S : rank[x] = n
  BY <1>7 DEF Surjection
<1> QED
  BY <1>8 DEF rank, Rank

(* Sorting a finite set lists every element once. *)
LEMMA SortedLists ==
  ASSUME NEW S, IsFiniteSet(S), NEW R, Orders(R, S), NEW s,
         s = [i \in 1..Cardinality(S) |-> CHOOSE x \in S : Rank(R, S, x) = i - 1]
  PROVE  s \in Seq(S) /\ Len(s) = Cardinality(S) /\ Range(s) = S /\ IsInjective(s)
<1> DEFINE m == Cardinality(S)
<1>1. m \in Nat
  BY FS_CardinalityType
<1>2. \A i \in 1..m : s[i] \in S /\ Rank(R, S, s[i]) = i - 1
  <2>1. SUFFICES ASSUME NEW i \in 1..m PROVE s[i] \in S /\ Rank(R, S, s[i]) = i - 1
    OBVIOUS
  <2>2. i - 1 \in 0..(m - 1)
    BY <1>1
  <2>3. \E x \in S : Rank(R, S, x) = i - 1
    BY <2>2, RankExists
  <2> QED
    BY <2>3
<1>3. s \in [1..m -> S]
  BY <1>2
<1> HIDE DEF m
<1>4. s \in Seq(S) /\ Len(s) = m /\ DOMAIN s = 1..m
  BY ONLY <1>1, <1>3
<1>5. IsInjective(s)
  BY ONLY <1>1, <1>2, <1>4 DEF IsInjective
<1>6. s \in Injection(1..m, S)
  BY <1>3, <1>5 DEF Injection
<1>7. s \in Surjection(1..m, S)
  <2>1. IsFiniteSet(1..m) /\ Cardinality(1..m) = m
    BY <1>1, FS_Interval
  <2> QED
    BY <1>6, <2>1, FS_Injection DEF m
<1>8. Range(s) = S
  BY ONLY <1>3, <1>4, <1>7 DEF Surjection, Range
<1> QED
  BY <1>4, <1>5, <1>8 DEF m

(* Elements picked from a sequence, each position once. *)
LEMMA PickedLists ==
  ASSUME NEW V, NEW s \in Seq(V), NEW I, I \subseteq DOMAIN s
  PROVE  \E at \in [1..Cardinality(I) -> I] :
           /\ Range(at) = I /\ IsInjective(at)
           /\ Picked(s, I) = [k \in 1..Cardinality(I) |-> s[at[k]]]
           /\ Cardinality(I) \in Nat
<1> DEFINE R == {p \in I \X I : p[1] < p[2]}
           at == [i \in 1..Cardinality(I) |->
                    CHOOSE x \in I : Rank(R, I, x) = i - 1]
<1>1. I \subseteq Int /\ IsFiniteSet(I) /\ Cardinality(I) \in Nat
  <2>1. DOMAIN s = 1..Len(s) /\ Len(s) \in Nat
    OBVIOUS
  <2>2. IsFiniteSet(I)
    <3>1. I \in SUBSET (1..Len(s)) /\ IsFiniteSet(1..Len(s))
      BY <2>1, FS_Interval
    <3> QED
      BY <3>1, FS_Subset
  <2> QED
    BY <2>1, <2>2, FS_CardinalityType
<1>2. \A x, y \in I : <<x, y>> \in R <=> x < y
  OBVIOUS
<1> HIDE DEF R
<1>3. Orders(R, I)
  BY <1>1, <1>2 DEF Orders
<1>4. at \in Seq(I) /\ Len(at) = Cardinality(I) /\ Range(at) = I /\ IsInjective(at)
  <2> DEFINE a == at
  <2>1. a = [i \in 1..Cardinality(I) |->
                    CHOOSE x \in I : Rank(R, I, x) = i - 1]
    OBVIOUS
  <2> HIDE DEF a
  <2>2. a \in Seq(I) /\ Len(a) = Cardinality(I) /\ Range(a) = I /\ IsInjective(a)
    BY <1>1, <1>3, <2>1, SortedLists
  <2> QED
    BY <2>2 DEF a
<1>5. \A x \in I : Rank(R, I, x) = Cardinality({y \in I : y < x})
  <2>1. \A x \in I : {y \in I : <<y, x>> \in R} = {y \in I : y < x}
    BY <1>2
  <2> QED
    BY <2>1 DEF Rank
<1>6. Sorted(I, LAMBDA i, j : i < j) = at
  <2>1. \A i \in 1..Cardinality(I) :
          (CHOOSE x \in I : Cardinality({y \in I : y < x}) = i - 1)
            = (CHOOSE x \in I : Rank(R, I, x) = i - 1)
    BY <1>5
  <2> DEFINE a == [i \in 1..Cardinality(I) |->
                     CHOOSE x \in I : Cardinality({y \in I : y < x}) = i - 1]
  <2>2. Sorted(I, LAMBDA i, j : i < j) = a
    BY DEF Sorted
  <2>3. a = at
    <3> DEFINE left(i) == CHOOSE x \in I : Cardinality({y \in I : y < x}) = i - 1
               right(i) == CHOOSE x \in I : Rank(R, I, x) = i - 1
    <3>1. \A i \in 1..Cardinality(I) : left(i) = right(i)
      BY <2>1
    <3> HIDE DEF left, right
    <3>2. [i \in 1..Cardinality(I) |-> left(i)] = [i \in 1..Cardinality(I) |-> right(i)]
      BY <3>1
    <3> QED
      BY <3>2 DEF left, right
  <2> QED
    BY <2>2, <2>3
<1> HIDE DEF at
<1>7. DOMAIN at = 1..Cardinality(I)
  BY <1>4
<1>8. Picked(s, I) = [k \in 1..Cardinality(I) |-> s[at[k]]]
  BY <1>6, <1>7 DEF Picked
<1> QED
  BY <1>1, <1>4, <1>7, <1>8

(* In a finite set of numbers some element has the least key, the first such. *)
LEMMA LeastExists ==
  ASSUME NEW S, IsFiniteSet(S), S # {}, S \subseteq Int, NEW f, IntsOn(f, S)
  PROVE  \E i \in S : \A j \in S : f[i] < f[j] \/ (f[i] = f[j] /\ i <= j)
<1> DEFINE Least(T, i) == \A j \in T : f[i] < f[j] \/ (f[i] = f[j] /\ i <= j)
           Good == {T \in SUBSET S : T = {} \/ \E i \in T : Least(T, i)}
<1>1. {} \in Good
  OBVIOUS
<1>2. ASSUME NEW T \in SUBSET S, T # {}, \A x \in T : T \ {x} \in Good
      PROVE  T \in Good
  <2>1. PICK x \in T : TRUE
    BY <1>2
  <2>2. CASE T \ {x} = {}
    <3>1. \A j \in T : j = x
      BY <2>2
    <3>2. Least(T, x)
      BY <2>1, <3>1 DEF IntsOn
    <3> QED
      BY <2>1, <3>2
  <2>3. CASE T \ {x} # {}
    <3>1. PICK i \in T \ {x} : Least(T \ {x}, i)
      BY <1>2, <2>1, <2>3
    <3>2. /\ \A j \in T : j \in Int /\ f[j] \in Int
          /\ i \in T
      BY <3>1 DEF IntsOn
    <3>3. Least(T, i) \/ Least(T, x)
      BY <2>1, <3>1, <3>2
    <3> QED
      BY <2>1, <3>1, <3>3
  <2> QED
    BY <2>2, <2>3
<1>3. \A T \in SUBSET S : T \in Good
  <2> HIDE DEF Good
  <2> QED
    BY <1>1, <1>2, SubsetInduction
<1> QED
  BY <1>3

-------------------------------------------------------------------------------
(* Lists, whatever they hold.                                                  *)

IsList(s) == s \in Seq(Range(s))

LEMMA ListIs ==
  ASSUME NEW s
  PROVE  IsList(s) <=> \E n \in Nat : s = [i \in 1..n |-> s[i]]
<1>1. ASSUME IsList(s) PROVE \E n \in Nat : s = [i \in 1..n |-> s[i]]
  BY <1>1 DEF IsList
<1>2. ASSUME NEW n \in Nat, s = [i \in 1..n |-> s[i]] PROVE IsList(s)
  <2>1. DOMAIN s = 1..n
    BY <1>2
  <2>2. \A i \in 1..n : s[i] \in Range(s)
    BY <2>1 DEF Range
  <2>3. s \in [1..n -> Range(s)]
    BY <1>2, <2>2
  <2> QED
    BY <2>3 DEF IsList
<1> QED
  BY <1>1, <1>2

LEMMA ListDomain ==
  ASSUME NEW s, IsList(s)
  PROVE  /\ Len(s) \in Nat /\ DOMAIN s = 1..Len(s) /\ IsFiniteSet(DOMAIN s)
         /\ Cardinality(DOMAIN s) = Len(s)
<1>1. Len(s) \in Nat /\ DOMAIN s = 1..Len(s)
  BY DEF IsList
<1> DEFINE n == Len(s)
<1> HIDE DEF n
<1>2. n \in Nat /\ DOMAIN s = 1..n
  BY <1>1 DEF n
<1>3. IsFiniteSet(1..n) /\ Cardinality(1..n) = n
  BY <1>2, FS_Interval
<1> QED
  BY <1>2, <1>3 DEF n

(* A function on the places of a list is a list. *)
LEMMA MadeList ==
  ASSUME NEW n \in Nat, NEW s, s = [i \in 1..n |-> s[i]]
  PROVE  IsList(s) /\ Len(s) = n
<1>1. IsList(s)
  BY ListIs
<1>2. DOMAIN s = 1..n
  BY ONLY s = [i \in 1..n |-> s[i]]
<1> QED
  BY <1>1, <1>2 DEF IsList

LEMMA AppendedList ==
  ASSUME NEW s, IsList(s), NEW e
  PROVE  IsList(Append(s, e)) /\ Range(Append(s, e)) = Range(s) \cup {e}
<1> DEFINE R == Range(s) \cup {e}
           t == Append(s, e)
<1>1. s \in Seq(R)
  BY SeqMonotonic DEF IsList
<1>2. e \in R
  OBVIOUS
<1> HIDE DEF R
<1>3. /\ t \in Seq(R) /\ Len(t) = Len(s) + 1 /\ Len(s) \in Nat
      /\ \A i \in 1..Len(s) : t[i] = s[i]
      /\ t[Len(s) + 1] = e
      /\ DOMAIN s = 1..Len(s) /\ DOMAIN t = 1..(Len(s) + 1)
  BY <1>1, <1>2
<1>4. Range(t) = Range(s) \cup {e}
  <2> HIDE DEF t
  <2> QED
    BY <1>3 DEF Range
<1>5. IsList(t)
  <2> HIDE DEF t
  <2> QED
    BY <1>3, <1>4 DEF IsList, R
<1> QED
  BY <1>4, <1>5 DEF t

LEMMA ShorterList ==
  ASSUME NEW s, IsList(s), s # <<>>
  PROVE  IsList(Tail(s)) /\ Range(Tail(s)) \subseteq Range(s) /\ s[1] \in Range(s)
<1> DEFINE t == Tail(s)
<1>1. /\ Len(s) \in Nat \ {0} /\ DOMAIN s = 1..Len(s) /\ t \in Seq(Range(s))
      /\ DOMAIN t = 1..(Len(s) - 1) /\ Len(t) = Len(s) - 1
      /\ \A i \in 1..(Len(s) - 1) : t[i] = s[i + 1]
  BY DEF IsList
<1> HIDE DEF t
<1>2. Range(t) \subseteq Range(s) /\ s[1] \in Range(s)
  BY <1>1 DEF Range
<1>3. IsList(t)
  <2>1. t = [i \in 1..(Len(s) - 1) |-> t[i]] /\ Len(s) - 1 \in Nat
    BY <1>1
  <2> QED
    BY <2>1, MadeList
<1> QED
  BY <1>2, <1>3 DEF t

LEMMA JoinedLists ==
  ASSUME NEW s, NEW t, IsList(s), IsList(t)
  PROVE  IsList(s \o t) /\ Range(s \o t) = Range(s) \cup Range(t)
<1> DEFINE R == Range(s) \cup Range(t)
           u == s \o t
<1>1. s \in Seq(R) /\ t \in Seq(R)
  BY SeqMonotonic DEF IsList
<1> HIDE DEF R
<1>2. /\ u \in Seq(R) /\ Len(u) = Len(s) + Len(t)
      /\ \A i \in 1..(Len(s) + Len(t)) : u[i] = IF i <= Len(s) THEN s[i] ELSE t[i - Len(s)]
  BY <1>1, ConcatProperties
<1>3. /\ Len(s) \in Nat /\ Len(t) \in Nat /\ DOMAIN s = 1..Len(s) /\ DOMAIN t = 1..Len(t)
      /\ DOMAIN u = 1..(Len(s) + Len(t))
  BY <1>1, <1>2
<1> HIDE DEF u
<1>4. Range(u) = Range(s) \cup Range(t)
  <2>1. Range(u) \subseteq Range(s) \cup Range(t)
    BY <1>2, <1>3 DEF Range
  <2>2. Range(s) \subseteq Range(u)
    BY <1>2, <1>3 DEF Range
  <2>3. ASSUME NEW i \in 1..Len(t) PROVE t[i] \in Range(u)
    <3>1. Len(s) + i \in DOMAIN u /\ u[Len(s) + i] = t[i]
      BY <1>2, <1>3
    <3> QED
      BY <3>1 DEF Range
  <2> QED
    BY <1>3, <2>1, <2>2, <2>3 DEF Range
<1>5. IsList(u)
  BY <1>2, <1>4 DEF IsList, R
<1> QED
  BY <1>4, <1>5 DEF u

LEMMA HighestIs ==
  ASSUME NEW S, IsFiniteSet(S), S # {}, S \subseteq Int
  PROVE  Max(S) \in S
<1> DEFINE Good == {T \in SUBSET S : T # {} => \E x \in T : \A y \in T : x >= y}
<1>1. {} \in Good
  OBVIOUS
<1>2. ASSUME NEW T \in SUBSET S, T # {}, \A x \in T : T \ {x} \in Good PROVE T \in Good
  <2>1. PICK x \in T : TRUE
    BY <1>2
  <2>2. CASE T = {x}
    BY <2>2
  <2>3. CASE T # {x}
    <3>1. PICK z \in T \ {x} : \A y \in T \ {x} : z >= y
      BY <1>2, <2>1, <2>3
    <3> DEFINE top == IF x >= z THEN x ELSE z
    <3>2. top \in T /\ \A y \in T : top >= y
      BY <2>1, <3>1
    <3> QED
      BY <3>2
  <2> QED
    BY <2>2, <2>3
<1>3. S \in Good
  <2> HIDE DEF Good
  <2>1. \A T \in SUBSET S : T \in Good
    BY <1>1, <1>2, SubsetInduction
  <2> QED
    BY <2>1
<1> QED
  BY <1>3 DEF Max

(* Flattening a list of lists puts them one after the other. *)
LEMMA FlatSteps ==
  ASSUME NEW s, IsList(s), s # <<>>, NEW R, \A i \in DOMAIN s : s[i] \in Seq(R)
  PROVE  \E f : /\ FlattenSeq(s) = f[Len(s)] /\ f[1] = s[1]
               /\ \A k \in 1..(Len(s) - 1) : f[k + 1] = f[k] \o s[k + 1]
<1> DEFINE n == Len(s)
           Flat(g, k) == \A i \in 1..k : g[i] = IF i = 1 THEN s[i] ELSE g[i - 1] \o s[i]
           Good == {k \in Nat : k <= n => \E g \in [1..k -> Seq(R)] : Flat(g, k)}
<1>1. n \in Nat /\ DOMAIN s = 1..n /\ n # 0
  <2>1. n \in Nat /\ DOMAIN s = 1..n
    BY ListDomain
  <2> QED
    BY <2>1 DEF IsList
<1>2. \A i \in 1..n : s[i] \in Seq(R)
  BY <1>1
<1> HIDE DEF n
<1>3. 0 \in Good
  <2>1. [i \in 1..0 |-> <<>>] \in [1..0 -> Seq(R)] /\ Flat([i \in 1..0 |-> <<>>], 0)
    OBVIOUS
  <2> QED
    BY <2>1
<1>4. ASSUME NEW k \in Nat, k \in Good PROVE k + 1 \in Good
  <2>1. SUFFICES ASSUME k + 1 <= n PROVE \E g \in [1..(k + 1) -> Seq(R)] : Flat(g, k + 1)
    <3>1. k + 1 \in Nat
      OBVIOUS
    <3> HIDE DEF Flat
    <3> QED
      BY <3>1
  <2>2. PICK g \in [1..k -> Seq(R)] : Flat(g, k)
    BY <1>1, <1>4, <2>1
  <2> DEFINE last == IF k = 0 THEN s[k + 1] ELSE g[k] \o s[k + 1]
             h == [i \in 1..(k + 1) |-> IF i <= k THEN g[i] ELSE last]
  <2>3. last \in Seq(R)
    BY <1>1, <1>2, <2>1
  <2>4. h \in [1..(k + 1) -> Seq(R)]
    <3> HIDE DEF last
    <3> QED
      BY <2>3
  <2>5. \A i \in 1..k : h[i] = g[i] /\ (i # 1 => h[i - 1] = g[i - 1])
    <3> HIDE DEF last
    <3> QED
      OBVIOUS
  <2>6. h[k + 1] = last /\ (k # 0 => h[k + 1 - 1] = g[k])
    <3> HIDE DEF last
    <3>1. h[k + 1] = last
      OBVIOUS
    <3>2. k + 1 - 1 = k /\ (k # 0 => k \in 1..k)
      OBVIOUS
    <3> HIDE DEF h
    <3> QED
      BY <2>5, <3>1, <3>2
  <2>7. last = IF k + 1 = 1 THEN s[k + 1] ELSE g[k] \o s[k + 1]
    OBVIOUS
  <2> HIDE DEF h, last
  <2>8. ASSUME NEW i \in 1..(k + 1) PROVE h[i] = IF i = 1 THEN s[i] ELSE h[i - 1] \o s[i]
    <3>1. CASE i \in 1..k
      BY <2>2, <2>5, <3>1
    <3>2. CASE i = k + 1
      <4>1. CASE k = 0
        BY <2>6, <2>7, <3>2, <4>1
      <4>2. CASE k # 0
        BY <2>6, <2>7, <3>2, <4>2
      <4> QED
        BY <4>1, <4>2
    <3> QED
      BY <3>1, <3>2
  <2> QED
    BY <2>4, <2>8
<1>5. PICK g \in [1..n -> Seq(R)] : Flat(g, n)
  <2>1. n \in Good
    <3> HIDE DEF Good
    <3> QED
      BY <1>1, <1>3, <1>4, NumberInduction
  <2> QED
    BY <1>1, <2>1
<1> DEFINE Def(f) == f = [i \in 1..n |-> IF i = 1 THEN s[i] ELSE f[i - 1] \o s[i]]
           f0 == CHOOSE f : Def(f)
<1>6. Def(g)
  BY <1>5
<1>7. Def(f0)
  BY <1>6
<1>8. FlattenSeq(s) = f0[n]
  BY <1>1 DEF FlattenSeq, n
<1> HIDE DEF f0
<1>9. \A i \in 1..n : f0[i] = IF i = 1 THEN s[i] ELSE f0[i - 1] \o s[i]
  BY <1>7
<1>10. f0[1] = s[1] /\ \A k \in 1..(n - 1) : f0[k + 1] = f0[k] \o s[k + 1]
  <2> DEFINE join(a, b) == a \o b
  <2>1. \A i \in 1..n : f0[i] = IF i = 1 THEN s[i] ELSE join(f0[i - 1], s[i])
    BY <1>9, Zenon
  <2>2. SUFFICES f0[1] = s[1] /\ \A k \in 1..(n - 1) : f0[k + 1] = join(f0[k], s[k + 1])
    BY Zenon
  <2> HIDE DEF join
  <2>3. f0[1] = s[1]
    BY <1>1, <2>1
  <2>4. ASSUME NEW k \in 1..(n - 1) PROVE f0[k + 1] = join(f0[k], s[k + 1])
    <3>1. k + 1 \in 1..n /\ k + 1 # 1 /\ k + 1 - 1 = k
      BY <1>1
    <3>2. f0[k + 1] = join(f0[k + 1 - 1], s[k + 1])
      BY <2>1, <3>1
    <3> QED
      BY <3>1, <3>2
  <2> QED
    BY <2>3, <2>4
<1> QED
  BY <1>8, <1>10 DEF n

LEMMA FlatList ==
  ASSUME NEW s, IsList(s), \A i \in DOMAIN s : IsList(s[i])
  PROVE  /\ IsList(FlattenSeq(s)) /\ FlattenSeq(s) \in Seq(UNION {Range(s[i]) : i \in DOMAIN s})
         /\ \A i \in DOMAIN s : Range(s[i]) \subseteq Range(FlattenSeq(s))
<1> DEFINE R == UNION {Range(s[i]) : i \in DOMAIN s}
           n == Len(s)
<1>1. n \in Nat /\ DOMAIN s = 1..n
  BY ListDomain
<1>2. \A i \in 1..n : s[i] \in Seq(R)
  <2>1. SUFFICES ASSUME NEW i \in 1..n PROVE s[i] \in Seq(R)
    OBVIOUS
  <2>2. Range(s[i]) \subseteq R /\ s[i] \in Seq(Range(s[i]))
    BY <1>1 DEF IsList
  <2> HIDE DEF R
  <2> QED
    BY <2>2, SeqMonotonic
<1> HIDE DEF R
<1>3. CASE s = <<>>
  <2>1. FlattenSeq(s) = s
    BY <1>3 DEF FlattenSeq
  <2>2. DOMAIN s = {}
    BY <1>3
  <2>3. FlattenSeq(s) = <<>> /\ <<>> \in Seq(R)
    BY <1>3, <2>1
  <2> QED
    BY <2>1, <2>2, <2>3 DEF R
<1>4. CASE s # <<>>
  <2>1. PICK f : /\ FlattenSeq(s) = f[n] /\ f[1] = s[1]
                 /\ \A k \in 1..(n - 1) : f[k + 1] = f[k] \o s[k + 1]
    <3>1. \A i \in DOMAIN s : s[i] \in Seq(R)
      BY <1>1, <1>2
    <3> QED
      BY <1>4, <3>1, FlatSteps
  <2>2. n # 0
    BY <1>4 DEF IsList
  <2> HIDE DEF n
  <2> DEFINE Good == {k \in Nat : k \in 1..n => f[k] \in Seq(R) /\ \A j \in 1..k : Range(s[j]) \subseteq Range(f[k])}
  <2>3. ASSUME NEW k \in Nat, k \in Good PROVE k + 1 \in Good
    <3>1. CASE k = 0
      <4>1. f[1] = s[1] /\ \A j \in 1..1 : j = 1
        BY <2>1
      <4>2. k + 1 = 1 /\ (1 \in 1..n => f[1] \in Seq(R))
        BY <1>2, <3>1, <4>1
      <4>3. \A j \in 1..1 : Range(s[j]) \subseteq Range(f[1])
        BY <4>1
      <4> QED
        BY <4>2, <4>3
    <3>2. CASE k # 0 /\ k + 1 <= n
      <4> DEFINE joined == f[k] \o s[k + 1]
      <4>1. f[k] \in Seq(R) /\ s[k + 1] \in Seq(R)
        BY <1>1, <1>2, <2>3, <3>2
      <4>2. joined \in Seq(R)
        BY <4>1, ConcatProperties
      <4>3. k \in 1..(n - 1)
        BY <1>1, <3>2
      <4>4. f[k + 1] = joined
        BY <2>1, <4>3, Zenon
      <4>5. IsList(f[k]) /\ IsList(s[k + 1])
        <5>1. \A v \in Seq(R) : v = [i \in 1..Len(v) |-> v[i]] /\ Len(v) \in Nat
          OBVIOUS
        <5> QED
          BY <4>1, <5>1, MadeList
      <4>6. Range(joined) = Range(f[k]) \cup Range(s[k + 1])
        BY <4>5, JoinedLists
      <4>7. \A j \in 1..(k + 1) : j = k + 1 \/ j \in 1..k
        OBVIOUS
      <4>8. \A j \in 1..k : Range(s[j]) \subseteq Range(f[k])
        BY <1>1, <2>3, <3>2, <4>3
      <4> HIDE DEF joined
      <4> QED
        BY <4>2, <4>4, <4>6, <4>7, <4>8
    <3> QED
      BY <1>1, <3>1, <3>2
  <2>4. n \in Good
    <3>1. 0 \in Good
      OBVIOUS
    <3> HIDE DEF Good
    <3> QED
      BY <1>1, <2>3, <3>1, NumberInduction
  <2> DEFINE v == FlattenSeq(s)
  <2>5. v \in Seq(R)
    BY <1>1, <2>1, <2>2, <2>4
  <2>6. Len(v) \in Nat /\ v = [i \in 1..Len(v) |-> v[i]]
    BY <2>5
  <2> HIDE DEF v
  <2>7. IsList(v)
    BY <2>6, MadeList
  <2>8. \A j \in DOMAIN s : Range(s[j]) \subseteq Range(v)
    BY <1>1, <2>1, <2>2, <2>4 DEF v
  <2> QED
    BY <2>5, <2>7, <2>8 DEF v, R
<1> QED
  BY <1>3, <1>4

LEMMA RemovedAt ==
  ASSUME NEW V, NEW s \in Seq(V), NEW i \in DOMAIN s
  PROVE  /\ RemoveAt(s, i) \in Seq(V) /\ Len(RemoveAt(s, i)) = Len(s) - 1
         /\ RemoveAt(s, i) = [k \in 1..(Len(s) - 1) |-> RemoveAt(s, i)[k]]
         /\ \A k \in 1..(Len(s) - 1) : RemoveAt(s, i)[k] = IF k < i THEN s[k] ELSE s[k + 1]
<1> DEFINE n == Len(s)
           r == RemoveAt(s, i)
           u == SubSeq(s, 1, i - 1)
           v == SubSeq(s, i + 1, n)
<1>1. n \in Nat /\ DOMAIN s = 1..n /\ i \in 1..n /\ \A k \in 1..n : s[k] \in V
  OBVIOUS
<1>2. u \in Seq(V) /\ Len(u) = i - 1 /\ \A k \in 1..(i - 1) : u[k] = s[k]
  <2>1. i - 1 \in Int /\ 1 \in Int /\ \A k \in 1..(i - 1) : s[k] \in V
    BY <1>1
  <2>2. /\ u \in Seq(V)
        /\ Len(u) = IF 1 <= i - 1 THEN (i - 1) - 1 + 1 ELSE 0
        /\ \A k \in 1..((i - 1) - 1 + 1) : u[k] = s[1 + k - 1]
    BY <2>1, SubSeqProperties
  <2> HIDE DEF u
  <2> QED
    BY <1>1, <2>2
<1>3. v \in Seq(V) /\ Len(v) = n - i /\ \A k \in 1..(n - i) : v[k] = s[i + k]
  <2>1. i + 1 \in Int /\ n \in Int /\ \A k \in (i + 1)..n : s[k] \in V
    BY <1>1
  <2> HIDE DEF n
  <2>2. /\ v \in Seq(V)
        /\ Len(v) = IF i + 1 <= n THEN n - (i + 1) + 1 ELSE 0
        /\ \A k \in 1..(n - (i + 1) + 1) : v[k] = s[(i + 1) + k - 1]
    BY <2>1, SubSeqProperties
  <2> HIDE DEF v
  <2>3. Len(v) = n - i
    BY <1>1, <2>2
  <2>4. n - (i + 1) + 1 = n - i /\ \A k \in 1..(n - i) : (i + 1) + k - 1 = i + k
    BY <1>1
  <2>5. \A k \in 1..(n - i) : v[k] = s[(i + 1) + k - 1]
    BY <2>2, <2>4
  <2> QED
    BY <2>2, <2>3, <2>4, <2>5
<1>4. r = u \o v
  BY DEF RemoveAt
<1> HIDE DEF n, u, v, r
<1>5. /\ r \in Seq(V) /\ Len(r) = Len(u) + Len(v)
      /\ \A k \in 1..(Len(u) + Len(v)) : r[k] = IF k <= Len(u) THEN u[k] ELSE v[k - Len(u)]
  BY <1>2, <1>3, <1>4, ConcatProperties
<1>6. Len(r) = n - 1 /\ r = [k \in 1..(n - 1) |-> r[k]]
  BY <1>1, <1>2, <1>3, <1>5
<1>7. ASSUME NEW k \in 1..(n - 1) PROVE r[k] = IF k < i THEN s[k] ELSE s[k + 1]
  <2>1. k \in 1..(Len(u) + Len(v))
    BY <1>1, <1>2, <1>3
  <2>2. CASE k < i
    BY <1>1, <1>2, <1>5, <2>1, <2>2
  <2>3. CASE ~(k < i)
    <3>1. ~(k <= Len(u)) /\ k - Len(u) \in 1..(n - i) /\ i + (k - Len(u)) = k + 1
      BY <1>1, <1>2, <2>3
    <3> QED
      BY <1>3, <1>5, <2>1, <2>3, <3>1
  <2> QED
    BY <2>2, <2>3
<1> QED
  BY <1>5, <1>6, <1>7 DEF n, r

LEMMA LowestIs ==
  ASSUME NEW S, S # {}, S \subseteq Nat
  PROVE  \E x \in S : \A y \in S : x <= y
<1>1. PICK x \in S : \A y \in S : <<y, x>> \notin OpToRel(<, Nat)
  BY NatLessThanWellFounded, WFMin
<1>2. \A y \in S : y < x => <<y, x>> \in OpToRel(<, Nat)
  BY DEF OpToRel
<1>3. \A y \in S : x <= y
  <2>1. \A y \in S : ~(y < x)
    BY <1>1, <1>2
  <2> QED
    BY <2>1
<1> QED
  BY <1>3

LEMMA ChangedPlaces ==
  ASSUME NEW s, IsList(s), NEW u, DOMAIN u = DOMAIN s, u = [i \in DOMAIN u |-> u[i]]
  PROVE  IsList(u)
<1>1. Len(s) \in Nat /\ DOMAIN s = 1..Len(s)
  BY ListDomain
<1> QED
  BY <1>1, MadeList

LEMMA ImagesFinite ==
  ASSUME NEW I, IsFiniteSet(I), NEW f
  PROVE  IsFiniteSet({f[c] : c \in I})
<1> DEFINE T == {f[c] : c \in I}
           g == [c \in I |-> f[c]]
<1>1. g \in Surjection(I, T)
  BY DEF Surjection
<1> HIDE DEF g, T
<1>2. IsFiniteSet(T)
  BY <1>1, FS_Surjection
<1> QED
  BY <1>2 DEF T

LEMMA TriplesFinite ==
  ASSUME NEW A, IsFiniteSet(A), NEW B, IsFiniteSet(B)
  PROVE  IsFiniteSet(A \X A \X B)
<1> DEFINE P == (A \X A) \X B
           f == [p \in P |-> <<p[1][1], p[1][2], p[2]>>]
<1>1. IsFiniteSet(P)
  <2>1. IsFiniteSet(A \X A)
    BY FS_Product
  <2> QED
    BY <2>1, FS_Product
<1>2. IsFiniteSet({f[p] : p \in P})
  <2> HIDE DEF f, P
  <2> QED
    BY <1>1, ImagesFinite
<1>3. A \X A \X B = {f[p] : p \in P}
  <2>1. ASSUME NEW t \in A \X A \X B PROVE t \in {f[p] : p \in P}
    <3>1. <<<<t[1], t[2]>>, t[3]>> \in P /\ f[<<<<t[1], t[2]>>, t[3]>>] = t
      OBVIOUS
    <3> HIDE DEF f, P
    <3> QED
      BY <3>1
  <2>2. ASSUME NEW p \in P PROVE f[p] \in A \X A \X B
    OBVIOUS
  <2> HIDE DEF f, P
  <2> QED
    BY <2>1, <2>2
<1> QED
  BY <1>2, <1>3

LEMMA ShortLists == \A a, b : /\ IsList(<<a>>) /\ Range(<<a>>) = {a}
                              /\ IsList(<<a, b>>)
<1> TAKE a, b
<1>1. <<a>> = [i \in 1..1 |-> <<a>>[i]] /\ <<a, b>> = [i \in 1..2 |-> <<a, b>>[i]]
  OBVIOUS
<1>2. Range(<<a>>) = {a}
  BY DEF Range
<1> QED
  BY <1>1, <1>2, MadeList

(* A set of places without the highest of them. *)
Lower(s) == s \ {Max(s)}

LEMMA HighestOut ==
  ASSUME NEW D, IsFiniteSet(D), D \subseteq Int, NEW s \in SUBSET D
  PROVE  /\ Cardinality(s) \in Nat
         /\ (Cardinality(s) <= 0 => s = {})
         /\ (s # {} => Lower(s) \in SUBSET D /\ Cardinality(Lower(s)) = Cardinality(s) - 1)
         /\ (s # {} => \E x \in s : Lower(s) = s \ {x})
<1>1. IsFiniteSet(s) /\ s \subseteq Int
  BY FS_Subset
<1>2. Cardinality(s) \in Nat
  BY <1>1, FS_CardinalityType
<1>3. Cardinality(s) = 0 <=> s = {}
  BY <1>1, FS_EmptySet
<1>4. ASSUME s # {} PROVE /\ Lower(s) \in SUBSET D /\ Cardinality(Lower(s)) = Cardinality(s) - 1
                         /\ \E x \in s : Lower(s) = s \ {x}
  <2>1. Max(s) \in s
    BY <1>1, <1>4, HighestIs
  <2>2. \A x \in s : Cardinality(s \ {x}) = Cardinality(s) - 1
    BY <1>1, FS_RemoveElement
  <2> QED
    BY <2>1, <2>2 DEF Lower
<1>5. Cardinality(s) <= 0 => s = {}
  BY <1>2, <1>3
<1> QED
  BY <1>2, <1>4, <1>5

-------------------------------------------------------------------------------
(* Joining lists.                                                              *)

(* q is a list of the members of A, each of them once. *)
ListsOnce(q, A) == IsList(q) /\ IsInjective(q) /\ Range(q) = A

LEMMA JoinedOnce ==
  ASSUME NEW A, NEW B, A \cap B = {}, NEW p, ListsOnce(p, A), NEW q, ListsOnce(q, B)
  PROVE  ListsOnce(p \o q, A \cup B)
<1> DEFINE u == p \o q
<1>1. IsList(u) /\ Range(u) = A \cup B
  BY JoinedLists DEF ListsOnce
<1>2. /\ p \in Seq(A) /\ q \in Seq(B) /\ Len(p) \in Nat /\ Len(q) \in Nat
      /\ DOMAIN p = 1..Len(p) /\ DOMAIN q = 1..Len(q)
  BY ListDomain DEF ListsOnce, IsList
<1>3. /\ \A i \in DOMAIN p : p[i] \in A
      /\ \A i \in DOMAIN q : q[i] \in B
  BY <1>2
<1>4. /\ Len(u) = Len(p) + Len(q)
      /\ \A i \in 1..(Len(p) + Len(q)) : u[i] = IF i <= Len(p) THEN p[i] ELSE q[i - Len(p)]
  <2>1. p \in Seq(A \cup B) /\ q \in Seq(A \cup B)
    BY <1>2, SeqMonotonic
  <2> QED
    BY <2>1, ConcatProperties
<1>5. DOMAIN u = 1..(Len(p) + Len(q))
  BY <1>1, <1>4, ListDomain
<1> HIDE DEF u
<1>6. ASSUME NEW i \in DOMAIN u, NEW j \in DOMAIN u, u[i] = u[j] PROVE i = j
  <2>1. i \in 1..(Len(p) + Len(q)) /\ j \in 1..(Len(p) + Len(q))
    BY <1>5
  <2> DEFINE m == Len(p)
  <2>2. /\ \A k \in 1..m : p[k] \in A
        /\ \A k \in 1..Len(q) : q[k] \in B
        /\ \A k, l \in 1..m : p[k] = p[l] => k = l
        /\ \A k, l \in 1..Len(q) : q[k] = q[l] => k = l
    BY <1>2, <1>3 DEF ListsOnce, IsInjective
  <2>3. m \in Nat /\ Len(q) \in Nat
    BY <1>2
  <2>4. \A k \in 1..(m + Len(q)) : u[k] = IF k <= m THEN p[k] ELSE q[k - m]
    BY <1>4
  <2> HIDE DEF m
  <2>5. CASE i <= m /\ j <= m
    <3>1. i \in 1..m /\ j \in 1..m /\ u[i] = p[i] /\ u[j] = p[j]
      BY <2>1, <2>3, <2>4, <2>5 DEF m
    <3> QED
      BY <1>6, <2>2, <3>1
  <2>6. CASE i <= m /\ ~(j <= m)
    <3>1. i \in 1..m /\ j - m \in 1..Len(q) /\ u[i] = p[i] /\ u[j] = q[j - m]
      BY <2>1, <2>3, <2>4, <2>6 DEF m
    <3> QED
      BY <1>6, <2>2, <3>1
  <2>7. CASE ~(i <= m) /\ j <= m
    <3>1. j \in 1..m /\ i - m \in 1..Len(q) /\ u[j] = p[j] /\ u[i] = q[i - m]
      BY <2>1, <2>3, <2>4, <2>7 DEF m
    <3> QED
      BY <1>6, <2>2, <3>1
  <2>8. CASE ~(i <= m) /\ ~(j <= m)
    <3>1. i - m \in 1..Len(q) /\ j - m \in 1..Len(q) /\ u[i] = q[i - m] /\ u[j] = q[j - m]
      BY <2>1, <2>3, <2>4, <2>8 DEF m
    <3>2. i - m = j - m
      BY <1>6, <2>2, <3>1
    <3> QED
      BY <2>1, <2>3, <3>2 DEF m
  <2> QED
    BY <2>5, <2>6, <2>7, <2>8
<1>7. IsInjective(u)
  BY <1>6 DEF IsInjective
<1> QED
  BY <1>1, <1>7 DEF ListsOnce, u

(* As many places as members. *)
LEMMA OnceCounted ==
  ASSUME NEW A, NEW q, ListsOnce(q, A)
  PROVE  IsFiniteSet(A) /\ Len(q) = Cardinality(A)
<1>1. /\ Len(q) \in Nat /\ DOMAIN q = 1..Len(q) /\ IsFiniteSet(DOMAIN q)
      /\ Cardinality(DOMAIN q) = Len(q)
  BY ListDomain DEF ListsOnce
<1>2. q \in Bijection(DOMAIN q, A)
  <2>1. q \in [DOMAIN q -> A]
    BY DEF ListsOnce, IsList
  <2>2. \A t \in A : \E k \in DOMAIN q : q[k] = t
    BY DEF ListsOnce, Range
  <2> QED
    BY <2>1, <2>2 DEF ListsOnce, IsInjective, Bijection, Injection, Surjection
<1> QED
  BY <1>1, <1>2, FS_Bijection DEF ExistsBijection

(* Lists of disjoint sets, put one after the other. *)
LEMMA FlatOnce ==
  ASSUME NEW s, IsList(s), NEW f, \A i \in DOMAIN s : ListsOnce(s[i], f[i]),
         \A i, j \in DOMAIN s : i # j => f[i] \cap f[j] = {}
  PROVE  ListsOnce(FlattenSeq(s), UNION {f[i] : i \in DOMAIN s})
<1> DEFINE n == Len(s)
           Upto(k) == UNION {f[i] : i \in 1..k}
           R == UNION {f[i] : i \in DOMAIN s}
<1>1. n \in Nat /\ DOMAIN s = 1..n
  BY ListDomain
<1>2. CASE s = <<>>
  <2>1. FlattenSeq(s) = <<>> /\ R = {}
    BY <1>2 DEF FlattenSeq
  <2>2. ListsOnce(<<>>, {})
    BY DEF ListsOnce, IsList, IsInjective, Range
  <2> HIDE DEF R
  <2> QED
    BY <2>1, <2>2 DEF R
<1>3. CASE s # <<>>
  <2>1. \A i \in DOMAIN s : s[i] \in Seq(R)
    <3>1. SUFFICES ASSUME NEW i \in DOMAIN s PROVE s[i] \in Seq(R)
      OBVIOUS
    <3>2. s[i] \in Seq(f[i]) /\ f[i] \subseteq R
      BY DEF ListsOnce, IsList
    <3> HIDE DEF R
    <3> QED
      BY <3>2, SeqMonotonic
  <2> HIDE DEF R
  <2>2. PICK g : /\ FlattenSeq(s) = g[n] /\ g[1] = s[1]
                 /\ \A k \in 1..(n - 1) : g[k + 1] = g[k] \o s[k + 1]
    BY <1>3, <2>1, FlatSteps
  <2>3. n # 0
    BY <1>3 DEF IsList
  <2> HIDE DEF n
  <2> DEFINE Good == {k \in Nat : k \in 1..n => ListsOnce(g[k], Upto(k))}
  <2>4. ASSUME NEW k \in Nat, k \in Good PROVE k + 1 \in Good
    <3>1. SUFFICES ASSUME k + 1 \in 1..n PROVE ListsOnce(g[k + 1], Upto(k + 1))
      <4>1. k + 1 \in Nat
        OBVIOUS
      <4> HIDE DEF Upto
      <4> QED
        BY <4>1
    <3>2. ListsOnce(s[k + 1], f[k + 1])
      BY <1>1, <3>1
    <3>3. CASE k = 0
      <4>1. Upto(k + 1) = f[k + 1]
        <5>1. 1..(k + 1) = {k + 1}
          BY <3>3
        <5> QED
          BY <5>1
      <4>2. g[k + 1] = s[k + 1]
        BY <2>2, <3>3
      <4> HIDE DEF Upto
      <4> QED
        BY <3>2, <4>1, <4>2
    <3>4. CASE k # 0
      <4> DEFINE joined == g[k] \o s[k + 1]
      <4>1. k \in 1..n /\ k \in 1..(n - 1)
        BY <1>1, <3>1, <3>4
      <4>2. ListsOnce(g[k], Upto(k))
        BY <2>4, <4>1
      <4>3. Upto(k) \cap f[k + 1] = {}
        <5>1. ASSUME NEW i \in 1..k PROVE f[i] \cap f[k + 1] = {}
          <6>1. i \in DOMAIN s /\ k + 1 \in DOMAIN s /\ i # k + 1
            BY <1>1, <3>1
          <6> QED
            BY <6>1
        <5> QED
          BY <5>1
      <4>4. Upto(k + 1) = Upto(k) \cup f[k + 1]
        <5>1. 1..(k + 1) = (1..k) \cup {k + 1}
          OBVIOUS
        <5> QED
          BY <5>1
      <4> HIDE DEF Upto
      <4>5. ListsOnce(joined, Upto(k + 1))
        BY <3>2, <4>2, <4>3, <4>4, JoinedOnce
      <4>6. g[k + 1] = joined
        BY <2>2, <4>1, Zenon
      <4> HIDE DEF joined
      <4> QED
        BY <4>5, <4>6
    <3> QED
      BY <3>3, <3>4
  <2>5. n \in Good
    <3>1. 0 \in Good
      OBVIOUS
    <3> HIDE DEF Good
    <3> QED
      BY <1>1, <2>4, <3>1, NumberInduction
  <2>6. ListsOnce(g[n], Upto(n)) /\ Upto(n) = R
    BY <1>1, <2>3, <2>5 DEF R
  <2> HIDE DEF Upto
  <2> QED
    BY <2>2, <2>6 DEF R
<1> QED
  BY <1>2, <1>3

(* Cutting a list, and putting a member in. *)
LEMMA ListTyped ==
  ASSUME NEW q, IsList(q), NEW V, Range(q) \subseteq V
  PROVE  q \in Seq(V)
BY SeqMonotonic DEF IsList

LEMMA TypedOnce ==
  ASSUME NEW V, NEW q \in Seq(V), IsInjective(q)
  PROVE  ListsOnce(q, Range(q))
<1>1. Len(q) \in Nat /\ q = [k \in 1..Len(q) |-> q[k]]
  OBVIOUS
<1>2. IsList(q)
  BY <1>1, MadeList
<1> QED
  BY <1>2 DEF ListsOnce

LEMMA CutOnce ==
  ASSUME NEW A, NEW q, ListsOnce(q, A), NEW k \in 0..Len(q), NEW next, next = k + 1,
         NEW B, B = {q[i] : i \in 1..k}
  PROVE  /\ B \subseteq A
         /\ ListsOnce(SubSeq(q, 1, k), B)
         /\ ListsOnce(SubSeq(q, next, Len(q)), A \ B)
<1> DEFINE n == Len(q)
           p == SubSeq(q, 1, k)
           r == SubSeq(q, next, n)
<1>1. n \in Nat /\ DOMAIN q = 1..n /\ \A i \in 1..n : q[i] \in A
  <2>1. n \in Nat /\ DOMAIN q = 1..n
    BY ListDomain DEF ListsOnce
  <2> QED
    BY <2>1 DEF ListsOnce, Range
<1>2. k \in Nat /\ k <= n
  BY <1>1
<1>3. /\ \A i, j \in 1..n : q[i] = q[j] => i = j
      /\ \A x \in A : \E i \in 1..n : q[i] = x
  BY <1>1 DEF ListsOnce, IsInjective, Range
<1>4. p \in Seq(A) /\ Len(p) = k /\ \A i \in 1..k : p[i] = q[i]
  <2>1. k \in Int /\ 1 \in Int /\ \A i \in 1..k : q[i] \in A
    BY <1>1, <1>2
  <2>2. /\ p \in Seq(A)
        /\ Len(p) = IF 1 <= k THEN k - 1 + 1 ELSE 0
        /\ \A i \in 1..(k - 1 + 1) : p[i] = q[1 + i - 1]
    BY <2>1, SubSeqProperties
  <2>3. k - 1 + 1 = k /\ \A i \in 1..k : 1 + i - 1 = i
    BY <1>2
  <2> HIDE DEF p
  <2> QED
    BY <1>2, <2>2, <2>3
<1>5. r \in Seq(A) /\ Len(r) = n - k /\ \A i \in 1..(n - k) : r[i] = q[k + i]
  <2>1. next \in Int /\ next = k + 1 /\ n \in Int /\ \A i \in next..n : q[i] \in A
    BY <1>1, <1>2
  <2> HIDE DEF n
  <2>2. /\ r \in Seq(A)
        /\ Len(r) = IF next <= n THEN n - next + 1 ELSE 0
        /\ \A i \in 1..(n - next + 1) : r[i] = q[next + i - 1]
    BY <2>1, SubSeqProperties
  <2>3. n - next + 1 = n - k /\ \A i \in 1..(n - k) : next + i - 1 = k + i
    BY <1>1, <1>2, <2>1
  <2> HIDE DEF r
  <2>4. Len(r) = n - k
    BY <1>1, <1>2, <2>1, <2>2
  <2>5. \A i \in 1..(n - k) : r[i] = q[next + i - 1]
    BY <2>2, <2>3
  <2> QED
    BY <2>2, <2>3, <2>4, <2>5
<1> HIDE DEF n, p, r
<1>6. DOMAIN p = 1..k /\ DOMAIN r = 1..(n - k) /\ n - k \in Nat
  BY <1>1, <1>2, <1>4, <1>5
<1>7. B \subseteq A
  BY <1>1, <1>2
<1>8. ListsOnce(p, B)
  <2>1. p = [i \in 1..k |-> p[i]] /\ Range(p) = B
    BY <1>4, <1>6 DEF Range
  <2>2. IsInjective(p)
    BY <1>1, <1>2, <1>3, <1>4, <1>6 DEF IsInjective
  <2> QED
    BY <1>2, <2>1, <2>2, MadeList DEF ListsOnce
<1>9. ListsOnce(r, A \ B)
  <2>1. r = [i \in 1..(n - k) |-> r[i]]
    BY <1>5, <1>6
  <2>2. IsInjective(r)
    BY <1>1, <1>2, <1>3, <1>5, <1>6 DEF IsInjective
  <2>3. ASSUME NEW i \in 1..(n - k) PROVE r[i] \in A \ B
    <3>1. k + i \in 1..n /\ \A j \in 1..k : j \in 1..n /\ j # k + i
      BY <1>1, <1>2
    <3> QED
      BY <1>1, <1>3, <1>5, <3>1
  <2>4. ASSUME NEW x \in A \ B PROVE x \in Range(r)
    <3>1. PICK i \in 1..n : q[i] = x
      BY <1>3
    <3>2. i \notin 1..k
      BY <2>4, <3>1
    <3>3. i - k \in 1..(n - k) /\ k + (i - k) = i
      BY <1>1, <1>2, <3>2
    <3>4. r[i - k] = x
      BY <1>5, <3>1, <3>3
    <3> QED
      BY <1>6, <3>3, <3>4 DEF Range
  <2>5. Range(r) = A \ B
    BY <1>6, <2>3, <2>4 DEF Range
  <2> QED
    BY <1>6, <2>1, <2>2, <2>5, MadeList DEF ListsOnce
<1> QED
  BY <1>7, <1>8, <1>9 DEF p, r, n

LEMMA CutInTwo ==
  ASSUME NEW A, NEW q, ListsOnce(q, A), NEW k \in 0..Len(q), NEW next, next = k + 1
  PROVE  \E B \in SUBSET A : /\ ListsOnce(SubSeq(q, 1, k), B)
                            /\ ListsOnce(SubSeq(q, next, Len(q)), A \ B)
<1> DEFINE B == {q[i] : i \in 1..k}
<1>1. B = {q[i] : i \in 1..k}
  OBVIOUS
<1> HIDE DEF B
<1>2. ListsOnce(SubSeq(q, 1, k), B) /\ ListsOnce(SubSeq(q, next, Len(q)), A \ B)
  BY <1>1, CutOnce
<1>3. B \subseteq A
  <2>1. \A i \in 1..k : i \in DOMAIN q
    BY ListDomain DEF ListsOnce
  <2>2. \A i \in DOMAIN q : q[i] \in A
    BY DEF ListsOnce, Range
  <2> QED
    BY <1>1, <2>1, <2>2
<1> QED
  BY <1>2, <1>3

LEMMA HeadOff ==
  ASSUME NEW A, NEW q, ListsOnce(q, A), q # <<>>
  PROVE  q[1] \in A /\ ListsOnce(Tail(q), A \ {q[1]})
<1>1. Len(q) \in Nat \ {0} /\ DOMAIN q = 1..Len(q) /\ q \in Seq(A)
  BY DEF ListsOnce, IsList
<1> DEFINE B == {q[1]}
<1>2. B = {q[i] : i \in 1..1} /\ 1 \in 0..Len(q) /\ 2 = 1 + 1
  BY <1>1
<1>3. ListsOnce(SubSeq(q, 2, Len(q)), A \ {q[1]}) /\ {q[1]} \subseteq A
  <2> HIDE DEF B
  <2>1. ListsOnce(SubSeq(q, 2, Len(q)), A \ B)
    BY <1>2, CutOnce
  <2> QED
    BY <1>1, <2>1 DEF B
<1> DEFINE r == SubSeq(q, 2, Len(q))
<1>4. Tail(q) = r
  BY <1>1
<1>5. ListsOnce(r, A \ {q[1]})
  BY <1>3
<1> HIDE DEF r
<1> QED
  BY <1>3, <1>4, <1>5

LEMMA LastOff ==
  ASSUME NEW A, NEW q, ListsOnce(q, A), q # <<>>
  PROVE  Last(q) \in A /\ ListsOnce(Front(q), A \ {Last(q)})
<1> DEFINE n == Len(q)
           B == {q[i] : i \in 1..(n - 1)}
<1>1. /\ n \in Nat \ {0} /\ DOMAIN q = 1..n
      /\ \A i, j \in 1..n : q[i] = q[j] => i = j
      /\ \A i \in 1..n : q[i] \in A
      /\ \A x \in A : \E i \in 1..n : q[i] = x
  <2>1. n \in Nat \ {0} /\ DOMAIN q = 1..n
    BY DEF ListsOnce, IsList
  <2> QED
    BY <2>1 DEF ListsOnce, IsInjective, Range
<1> DEFINE k == n - 1
<1>2. k \in 0..Len(q) /\ n = k + 1 /\ B = {q[i] : i \in 1..k}
  BY <1>1
<1>3. ListsOnce(SubSeq(q, 1, n - 1), B)
  <2> HIDE DEF k, B, n
  <2>1. ListsOnce(SubSeq(q, 1, k), B)
    BY <1>2, CutOnce
  <2> QED
    BY <2>1 DEF k
<1> HIDE DEF n
<1>4. B = A \ {q[n]}
  <2>1. ASSUME NEW x \in B PROVE x \in A \ {q[n]}
    <3>1. PICK i \in 1..(n - 1) : x = q[i]
      OBVIOUS
    <3>2. i \in 1..n /\ n \in 1..n /\ i # n
      BY <1>1
    <3> QED
      BY <1>1, <3>1, <3>2
  <2>2. ASSUME NEW x \in A \ {q[n]} PROVE x \in B
    <3>1. PICK i \in 1..n : q[i] = x
      BY <1>1
    <3>2. i \in 1..(n - 1)
      BY <1>1, <3>1
    <3> QED
      BY <3>1, <3>2
  <2> HIDE DEF B
  <2> QED
    BY <2>1, <2>2
<1>5. n \in 1..n /\ q[n] \in A
  BY <1>1
<1> HIDE DEF B
<1> QED
  BY <1>3, <1>4, <1>5 DEF Last, Front, n

LEMMA AppendedOnce ==
  ASSUME NEW A, NEW q, ListsOnce(q, A), NEW x, x \notin A
  PROVE  ListsOnce(Append(q, x), A \cup {x})
<1> DEFINE t == Append(q, x)
           R == A \cup {x}
<1>1. IsList(t) /\ Range(t) = R
  BY AppendedList DEF ListsOnce
<1>2. q \in Seq(R) /\ x \in R
  <2>1. A \subseteq R /\ IsList(q) /\ Range(q) = A
    BY DEF ListsOnce
  <2> QED
    BY <2>1, ListTyped
<1> HIDE DEF R
<1>3. /\ Len(q) \in Nat /\ DOMAIN q = 1..Len(q) /\ DOMAIN t = 1..(Len(q) + 1)
      /\ \A i \in 1..Len(q) : t[i] = q[i]
      /\ t[Len(q) + 1] = x
  BY <1>2
<1> HIDE DEF t
<1>4. /\ \A i \in 1..Len(q) : q[i] \in A
      /\ \A i, j \in 1..Len(q) : q[i] = q[j] => i = j
  BY <1>3 DEF ListsOnce, IsInjective, Range
<1>5. IsInjective(t)
  BY <1>3, <1>4 DEF IsInjective
<1> QED
  BY <1>1, <1>5 DEF ListsOnce, t, R

LEMMA InsertedOnce ==
  ASSUME NEW A, NEW q, ListsOnce(q, A), NEW x, x \notin A, NEW at \in 1..(Len(q) + 1)
  PROVE  ListsOnce(InsertAt(q, at, x), A \cup {x})
<1> DEFINE B == {q[i] : i \in 1..(at - 1)}
           u == SubSeq(q, 1, at - 1)
           v == SubSeq(q, at, Len(q))
<1>1. Len(q) \in Nat
  BY ListDomain DEF ListsOnce
<1> DEFINE j == at - 1
           next == at
<1>2. /\ j \in 0..Len(q) /\ next = j + 1 /\ B = {q[i] : i \in 1..j}
      /\ u = SubSeq(q, 1, j) /\ v = SubSeq(q, next, Len(q))
  BY <1>1
<1>3. B \subseteq A /\ ListsOnce(u, B) /\ ListsOnce(v, A \ B)
  <2> HIDE DEF j, next, B, u, v
  <2>0. j \in 0..Len(q) /\ next = j + 1 /\ B = {q[i] : i \in 1..j}
    BY <1>2
  <2>1. ListsOnce(q, A)
    OBVIOUS
  <2>2. ListsOnce(SubSeq(q, 1, j), B)
    BY ONLY <2>1, <2>0, CutOnce
  <2>3. ListsOnce(SubSeq(q, next, Len(q)), A \ B)
    BY ONLY <2>1, <2>0, CutOnce
  <2>4. B \subseteq A
    <3>1. \A i \in 1..(at - 1) : i \in DOMAIN q
      BY <1>1, ListDomain DEF ListsOnce
    <3>2. \A i \in DOMAIN q : q[i] \in A
      BY DEF ListsOnce, Range
    <3> QED
      BY <3>1, <3>2 DEF B
  <2> QED
    BY <1>2, <2>2, <2>3, <2>4
<1>4. ListsOnce(<<x>>, {x})
  <2>1. IsList(<<x>>) /\ Range(<<x>>) = {x}
    BY ShortLists
  <2> QED
    BY <2>1 DEF ListsOnce, IsInjective
<1>5. InsertAt(q, at, x) = u \o <<x>> \o v
  BY DEF InsertAt
<1> HIDE DEF B, u, v
<1>6. ListsOnce(u \o <<x>>, B \cup {x})
  BY <1>3, <1>4, JoinedOnce
<1>7. ListsOnce((u \o <<x>>) \o v, (B \cup {x}) \cup (A \ B))
  BY <1>3, <1>6, JoinedOnce
<1>8. (B \cup {x}) \cup (A \ B) = A \cup {x}
  BY <1>3
<1> QED
  BY <1>5, <1>7, <1>8
-------------------------------------------------------------------------------
(* A list of a finite set lists nothing else. *)
LEMMA SetListed ==
  ASSUME NEW S, IsFiniteSet(S)
  PROVE  IsList(SetToSeq(S)) /\ Range(SetToSeq(S)) \subseteq S
<1> DEFINE n == Cardinality(S)
           q == SetToSeq(S)
<1>1. n \in Nat
  BY FS_CardinalityType
<1>2. IsFiniteSet(1..n) /\ Cardinality(1..n) = n
  BY <1>1, FS_Interval
<1>3. \E f \in [1..n -> S] : IsInjective(f)
  <2>1. ExistsBijection(1..n, S)
    BY <1>2, FS_SameCardinalityBij
  <2> QED
    BY <2>1 DEF ExistsBijection, Bijection, Injection, IsInjective
<1>4. q \in [1..n -> S]
  BY <1>3 DEF SetToSeq
<1> HIDE DEF q, n
<1>5. q = [i \in 1..n |-> q[i]]
  BY <1>4
<1> QED
  BY <1>1, <1>4, <1>5, MadeList DEF q, Range

(* A fold over a list, with what it does as a function: there is a value for   *)
(* every set of the list's places.                                             *)
FoldsBy(g, D, w, step) ==
  \A s \in SUBSET D : g[s] = IF s = {} THEN w ELSE step[<<Max(s), g[Lower(s)]>>]

LEMMA FoldsList ==
  ASSUME NEW D, IsFiniteSet(D), D \subseteq Int, NEW V, NEW w \in V, NEW step \in [D \X V -> V]
  PROVE  /\ \A s \in SUBSET D : s # {} => Max(s) \in s /\ Lower(s) = s \ {Max(s)} /\ Lower(s) \in SUBSET D
         /\ \E g \in [SUBSET D -> V] : FoldsBy(g, D, w, step)
<1> DEFINE pick == [s \in SUBSET D |-> Max(s)]
<1>1. \A s \in SUBSET D : s # {} => Max(s) \in s /\ Lower(s) = s \ {Max(s)} /\ Lower(s) \in SUBSET D
  <2>1. \A s \in SUBSET D : s # {} => Max(s) \in s
    BY HighestIs, FS_Subset
  <2> QED
    BY <2>1 DEF Lower
<1>2. \A s \in SUBSET D : s # {} => pick[s] \in s
  BY <1>1
<1>3. PICK g \in [SUBSET D -> V] : FoldsTo(g, D, w, pick, step)
  <2> HIDE DEF pick
  <2> QED
    BY <1>2, FoldExists
<1>4. \A s \in SUBSET D : g[s] = IF s = {} THEN w ELSE step[<<Max(s), g[Lower(s)]>>]
  BY <1>1, <1>3 DEF FoldsTo
<1> QED
  BY <1>1, <1>3, <1>4 DEF FoldsBy

(* What holds of the start and is kept by every step holds of a fold.          *)
LEMMA FoldsKeep ==
  ASSUME NEW D, IsFiniteSet(D), D \subseteq Int, NEW f, NEW G, <<{}, f[{}]>> \in G,
         \A s \in SUBSET D : s # {} /\ <<Lower(s), f[Lower(s)]>> \in G => <<s, f[s]>> \in G
  PROVE  <<D, f[D]>> \in G
<1> DEFINE Good == {s \in SUBSET D : <<s, f[s]>> \in G}
<1>1. {} \in Good
  OBVIOUS
<1>2. ASSUME NEW s \in SUBSET D, s # {}, \A x \in s : s \ {x} \in Good PROVE s \in Good
  <2>1. Max(s) \in s
    BY <1>2, HighestIs, FS_Subset
  <2> QED
    BY <1>2, <2>1 DEF Lower
<1> HIDE DEF Good
<1>3. \A s \in SUBSET D : s \in Good
  BY <1>1, <1>2, SubsetInduction
<1> QED
  BY <1>3 DEF Good
=============================================================================
