---------------------------- MODULE DivisionProofs -----------------------------
(***************************************************************************)
(* What the optimizer promises when it divides work, for every request.    *)
(*                                                                         *)
(* The week: the minutes, the days off and the rest from day to day.  None *)
(* of them is inductive: the loop checks counters and op_last_end, and the *)
(* invariant ties both to the duties placed so far.                        *)
(*                                                                         *)
(* The names on the duties of a day: whatever the greedy loop has passed   *)
(* is matched or blocked by something that comes before it.                *)
(*                                                                         *)
(* The chunks of a large request: the trips of a group stay together,      *)
(* although the runs of the chunks number more of them.                    *)
(*                                                                         *)
(* Its answer: a plan fits the trips of its chunk after the solvers, the   *)
(* repair and the fallback; the merge and the joining of vehicles keep     *)
(* what refers to what, and what is published drives every trip once.      *)
(*                                                                         *)
(* The parts of a solver's job: they leave nothing out and share nothing,  *)
(* and the duties of the parts solved so far fit all blocks but the bare.  *)
(***************************************************************************)
EXTENDS WeeklyRosters, NominalRosters, ProblemParts, FoldTheorems

Duties == 1..Len(week.work)

(* op_days_worked bounds the days an operator is given. *)
DaysCounted ==
  \A o \in Operators :
    /\ Cardinality(DaysOf(taker, o)) <= worked[o]
    /\ worked[o] = 0 => DutiesOf(taker, o) = {}
    /\ worked[o] > 0 => worked[o] <= MaxDaysWorked

(* op_minutes is what the duties of an operator add up to. *)
MinutesCounted ==
  /\ minutes \in [Operators -> Int]
  /\ \A o \in Operators :
       /\ minutes[o] = MinutesOf(taker, o)
       /\ DutiesOf(taker, o) # {} => minutes[o] <= week.limit

NoneAhead == \A i \in Duties : i > placed => taker[i] = NoOperator

(* op_last_end names the duty given last on its day. *)
LastIsGiven ==
  \A o \in Operators : \A d \in week.days :
    lastDuty[o][d] # 0 =>
      /\ taker[lastDuty[o][d]] = o
      /\ week.work[lastDuty[o][d]].day = d

LastIsLatest ==
  \A i \in Duties :
    taker[i] # NoOperator => lastDuty[taker[i]][week.work[i].day] >= i

EndsLast(i) ==
  \A k \in (i + 1)..Len(week.work) :
    taker[k] = taker[i] /\ week.work[k].day = week.work[i].day =>
      week.work[k].end >= week.work[i].end

RestSoFar ==
  \A i, j \in Duties :
    /\ taker[i] # NoOperator /\ taker[i] = taker[j]
    /\ NextDay(i, j)
    /\ EndsLast(i)
    => Gap(i, j) >= week.rest

Placing ==
  weekStage \in {"asked", "placing"} =>
    /\ DaysCounted /\ MinutesCounted /\ NoneAhead
    /\ LastIsGiven /\ LastIsLatest /\ RestSoFar

MinutesKept ==
  \A o \in Operators :
    DutiesOf(taker, o) # {} => MinutesOf(taker, o) <= week.limit

Answer == weekStage = "answered" => DaysOffKept /\ MinutesKept /\ RestSoFar

WeekInv == WeekTypeOK /\ Placing /\ Answer

-------------------------------------------------------------------------------
(* An element of a sequence over S is in S. *)
LEMMA ElementIn ==
  ASSUME NEW S, NEW s \in Seq(S), NEW i \in 1..Len(s)
  PROVE  s[i] \in S
  OBVIOUS

(* The facts about a request the steps use *)
LEMMA WeekFacts ==
  ASSUME week \in Weeks
  PROVE  /\ week.days \subseteq Int /\ IsFiniteSet(week.days)
         /\ Len(week.work) \in Nat
         /\ \A i \in Duties :
              /\ week.work[i].day \in week.days
              /\ week.work[i].start \in Int /\ week.work[i].end \in Int
              /\ week.work[i].minutes \in Int
              /\ \A j \in 1..i : week.work[j].day <= week.work[i].day
         /\ \A k \in 1..Len(week.order) : week.order[k] \in Operators
         /\ week.off \in Int /\ week.rest \in Int /\ week.limit \in Int
         /\ MaxDaysWorked \in Int
<1>1. /\ week.work \in Seq([day : Int, start : Int, end : Int, minutes : Nat])
      /\ week.order \in Seq(Operators)
      /\ week.days \subseteq Int /\ IsFiniteSet(week.days)
      /\ week.off \in Int /\ week.rest \in Int /\ week.limit \in Int
  BY WeeksWellFormed
<1>2. Cardinality(week.days) \in Nat
  BY <1>1, FS_CardinalityType
<1>3. \A i \in Duties : week.work[i] \in [day : Int, start : Int, end : Int, minutes : Nat]
  <2> DEFINE Work == [day : Int, start : Int, end : Int, minutes : Nat]
  <2>1. week.work \in Seq(Work)
    BY <1>1
  <2> HIDE DEF Work
  <2>2. \A i \in Duties : week.work[i] \in Work
    BY <2>1, ElementIn DEF Duties
  <2> QED
    BY <2>2 DEF Work
<1>4. Len(week.work) \in Nat /\ Len(week.order) \in Nat
  BY <1>1
<1>5. \A k \in 1..Len(week.order) : week.order[k] \in Operators
  BY <1>1
<1>6. MaxDaysWorked \in Int
  BY <1>1, <1>2 DEF MaxDaysWorked
<1>7. \A i \in Duties :
        /\ week.work[i].day \in week.days
        /\ \A j \in 1..i : week.work[j].day <= week.work[i].day
  BY WeeksWellFormed DEF Duties
<1>8. \A i \in Duties : /\ week.work[i].start \in Int /\ week.work[i].end \in Int
                          /\ week.work[i].minutes \in Int
  BY <1>3
<1> QED
  BY <1>1, <1>4, <1>5, <1>6, <1>7, <1>8

(* An operator's days are finitely many days of the week. *)
LEMMA DaysFinite ==
  ASSUME week \in Weeks, NEW t, NEW o
  PROVE  /\ IsFiniteSet(DaysOf(t, o))
         /\ Cardinality(DaysOf(t, o)) \in Nat
<1>1. DaysOf(t, o) \subseteq week.days
  BY WeekFacts DEF DaysOf, DutiesOf, Duties
<1> QED
  BY <1>1, WeekFacts, FS_Subset, FS_CardinalityType

(* The minutes of an operator are a sum over a function of its duties. *)
DutyMinutes == [i \in Duties |-> week.work[i].minutes]

LEMMA MinutesAreASum ==
  ASSUME NEW t, NEW o
  PROVE  MinutesOf(t, o) = Sum(DutyMinutes, DutiesOf(t, o))
<1> DEFINE D == DutiesOf(t, o)
           Adds(g) == g = [s \in SUBSET D |->
                             IF s = {} THEN 0
                             ELSE week.work[CHOOSE x \in s : TRUE].minutes
                                  + g[s \ {CHOOSE x \in s : TRUE}]]
<1>1. \A s \in SUBSET D :
        s # {} => DutyMinutes[CHOOSE x \in s : TRUE] = week.work[CHOOSE x \in s : TRUE].minutes
  BY DEF DutyMinutes, DutiesOf, Duties
<1>2. \A g : Adds(g) <=> Summand(g, DutyMinutes, D)
  BY <1>1 DEF Summand
<1>3. (CHOOSE g : Adds(g)) = CHOOSE g : Summand(g, DutyMinutes, D)
  <2> HIDE DEF Adds
  <2> QED
    BY <1>2
<1>4. MinutesOf(t, o) = (CHOOSE g : Adds(g))[D]
  BY DEF MinutesOf, MapThenSumSet, MapThenFoldSet
<1>5. Sum(DutyMinutes, D) = (CHOOSE g : Summand(g, DutyMinutes, D))[D]
  BY DEF Sum, MapThenSumSet, MapThenFoldSet, Summand
<1> QED
  BY <1>3, <1>4, <1>5

(* The request does not change, and with it what a duty counts. *)
LEMMA SameMinutes ==
  ASSUME week' = week
  PROVE  \A t, o : /\ DutiesOf(t, o)' = DutiesOf(t, o)
                  /\ MinutesOf(t, o)' = MinutesOf(t, o)
<1> SUFFICES ASSUME NEW t, NEW o
             PROVE  /\ DutiesOf(t, o)' = DutiesOf(t, o)
                    /\ MinutesOf(t, o)' = MinutesOf(t, o)
  OBVIOUS
<1> DEFINE D(w) == {i \in 1..Len(w.work) : t[i] = o}
           Adds(g, w) == g = [s \in SUBSET D(w) |->
                                IF s = {} THEN 0
                                ELSE w.work[CHOOSE x \in s : TRUE].minutes
                                     + g[s \ {CHOOSE x \in s : TRUE}]]
           M(w) == (CHOOSE g : Adds(g, w))[D(w)]
<1>1. MinutesOf(t, o) = M(week) /\ DutiesOf(t, o) = D(week)
  BY DEF MinutesOf, DutiesOf, MapThenSumSet, MapThenFoldSet
<1>2. MinutesOf(t, o)' = M(week') /\ DutiesOf(t, o)' = D(week')
  BY DEF MinutesOf, DutiesOf, MapThenSumSet, MapThenFoldSet
<1> HIDE DEF D, M
<1> QED
  BY <1>1, <1>2

(* Without duties there are no minutes; one duty more adds its minutes. *)
LEMMA NoMinutes ==
  ASSUME NEW t, NEW o, DutiesOf(t, o) = {}
  PROVE  MinutesOf(t, o) = 0
  BY MinutesAreASum, SumEmpty

LEMMA MinutesAdd ==
  ASSUME week \in Weeks, NEW t, NEW u, NEW o, NEW i \in Duties,
         DutiesOf(u, o) = DutiesOf(t, o) \cup {i}, i \notin DutiesOf(t, o)
  PROVE  MinutesOf(u, o) = MinutesOf(t, o) + week.work[i].minutes
<1> DEFINE D == DutiesOf(t, o)
<1>1. IsFiniteSet(D) /\ D \subseteq Duties
  <2>1. D \subseteq Duties
    BY DEF DutiesOf, Duties
  <2>2. IsFiniteSet(Duties)
    BY WeekFacts, FS_Interval DEF Duties
  <2> QED
    BY <2>1, <2>2, FS_Subset
<1>2. IntsOn(DutyMinutes, D) /\ DutyMinutes[i] = week.work[i].minutes
      /\ DutyMinutes[i] \in Int
  BY <1>1, WeekFacts DEF IntsOn, DutyMinutes
<1>3. MinutesOf(t, o) = Sum(DutyMinutes, D) /\ MinutesOf(u, o) = Sum(DutyMinutes, D \cup {i})
  BY MinutesAreASum
<1> HIDE DEF D
<1>4. i \notin D
  BY DEF D
<1> QED
  BY <1>1, <1>2, <1>3, <1>4, SumWith

LEMMA Starts == WeekInit => WeekInv
<1> SUFFICES ASSUME WeekInit PROVE WeekInv
  OBVIOUS
<1>1. week \in Weeks
  BY DEF WeekInit
<1>2. WeekTypeOK
  BY <1>1, WeekFacts DEF WeekInit, WeekTypeOK
<1>3. \A o \in Operators : DutiesOf(taker, o) = {} /\ DaysOf(taker, o) = {}
  BY OperatorsKnown DEF WeekInit, DutiesOf, DaysOf
<1>4. DaysCounted
  <2>1. \A o \in Operators : worked[o] = 0
    BY DEF WeekInit
  <2>2. \A o \in Operators : Cardinality(DaysOf(taker, o)) = 0
    BY <1>3, FS_EmptySet
  <2> QED
    BY <1>3, <2>1, <2>2 DEF DaysCounted
<1>5. NoneAhead /\ LastIsGiven /\ LastIsLatest /\ RestSoFar
  BY DEF WeekInit, NoneAhead, LastIsGiven, LastIsLatest, RestSoFar, Duties
<1>6. MinutesCounted
  <2>1. \A o \in Operators : MinutesOf(taker, o) = 0
    BY <1>3, NoMinutes
  <2>2. minutes = [o \in Operators |-> 0]
    BY DEF WeekInit
  <2> QED
    BY <1>3, <2>1, <2>2 DEF MinutesCounted
<1> QED
  BY <1>2, <1>4, <1>5, <1>6 DEF WeekInv, Placing, Answer, WeekInit

-------------------------------------------------------------------------------
(* CP-SAT's answer: what Feasible demands is what the properties ask. *)
LEMMA SolverKeeps == WeekInv /\ SolverAnswers => WeekInv'
<1> SUFFICES ASSUME WeekInv, SolverAnswers PROVE WeekInv'
  OBVIOUS
<1> USE DEF WeekInv, SolverAnswers
<1>0. PICK t \in [Duties -> {week.order[k] : k \in 1..Len(week.order)}] :
      /\ Feasible(t)
      /\ taker' = t
      /\ worked' = [o \in Operators |-> Cardinality(DutiesOf(t, o))]
  BY DEF Duties
<1>1. week \in Weeks /\ week' = week
  BY DEF WeekTypeOK
<1>2. t \in [Duties -> Operators]
  <2>1. {week.order[k] : k \in 1..Len(week.order)} \subseteq Operators
    BY <1>1, WeekFacts
  <2> QED
    BY <2>1
<1>3. WeekTypeOK'
  <2>1. \A o \in Operators : Cardinality(DutiesOf(t, o)) \in Nat
    <3> TAKE o \in Operators
    <3>1. DutiesOf(t, o) \subseteq 1..Len(week.work)
      BY DEF DutiesOf
    <3>2. IsFiniteSet(1..Len(week.work))
      BY <1>1, WeekFacts, FS_Interval
    <3> QED
      BY <3>1, <3>2, FS_Subset, FS_CardinalityType
  <2> QED
    BY <1>0, <1>1, <1>2, <2>1 DEF WeekTypeOK, Duties
<1>4. DaysOffKept'
  <2> SUFFICES ASSUME NEW o \in Operators, DutiesOf(t, o) # {}
               PROVE  Cardinality(DaysOf(t, o)) <= MaxDaysWorked
    <3> HIDE DEF SolverAnswers, WeekInv
    <3>1. \A o : DutiesOf(taker, o)' = DutiesOf(t, o) /\ DaysOf(taker, o)' = DaysOf(t, o)
      BY <1>0, <1>1 DEF DutiesOf, DaysOf
    <3>2. MaxDaysWorked' = MaxDaysWorked
      BY <1>1 DEF MaxDaysWorked
    <3> QED
      BY <3>1, <3>2 DEF DaysOffKept
  <2>1. PICK i \in Duties : t[i] = o
    BY DEF DutiesOf, Duties
  <2>2. PICK k \in 1..Len(week.order) : o = week.order[k]
    BY <2>1
  <2> QED
    BY <1>0, <2>2 DEF Feasible
<1>5. RestSoFar'
  <2>1. \A i, j \in Duties : t[i] = t[j] /\ NextDay(i, j) => Gap(i, j) >= week.rest
    BY <1>0 DEF Feasible, Duties
  <2> HIDE DEF SolverAnswers, WeekInv
  <2>2. Duties' = Duties /\ \A i, j : NextDay(i, j)' = NextDay(i, j) /\ Gap(i, j)' = Gap(i, j)
    BY <1>1 DEF Duties, NextDay, Gap
  <2> QED
    BY <1>0, <1>1, <2>1, <2>2 DEF RestSoFar
<1>6. MinutesKept'
  <2> SUFFICES ASSUME NEW o \in Operators, DutiesOf(t, o) # {}
               PROVE  MinutesOf(t, o) <= week.limit
    BY <1>0, <1>1, SameMinutes DEF MinutesKept
  <2>1. PICK i \in Duties : t[i] = o
    BY DEF DutiesOf, Duties
  <2>2. PICK k \in 1..Len(week.order) : o = week.order[k]
    BY <2>1
  <2> QED
    BY <1>0, <2>2 DEF Feasible
<1> QED
  BY <1>1, <1>3, <1>4, <1>5, <1>6 DEF Placing, Answer

(* A step that only moves the loop on. *)
LEMMA QuietKeeps ==
  WeekInv /\ (EmptyInput \/ SolverGivesUp \/ LeaveDuty \/ AllPlaced) => WeekInv'
<1> SUFFICES ASSUME WeekInv, EmptyInput \/ SolverGivesUp \/ LeaveDuty \/ AllPlaced
             PROVE  WeekInv'
  OBVIOUS
<1> USE DEF WeekInv
<1>1. /\ week' = week /\ taker' = taker /\ worked' = worked /\ lastDuty' = lastDuty
      /\ minutes' = minutes
      /\ weekStage \in {"asked", "placing"}
  BY DEF EmptyInput, SolverGivesUp, LeaveDuty, AllPlaced
<1>2. week \in Weeks
  BY DEF WeekTypeOK
<1>3. WeekTypeOK'
  BY <1>1, <1>2, WeekFacts
  DEF WeekTypeOK, EmptyInput, SolverGivesUp, LeaveDuty, AllPlaced
<1>4. DaysCounted' /\ LastIsGiven' /\ LastIsLatest' /\ RestSoFar'
  <2>1. DaysCounted'
    BY <1>1 DEF Placing, DaysCounted, DaysOf, DutiesOf, MaxDaysWorked
  <2>2. LastIsGiven' /\ LastIsLatest'
    BY <1>1 DEF Placing, LastIsGiven, LastIsLatest, Duties
  <2>3. RestSoFar'
    BY <1>1 DEF Placing, RestSoFar, Duties, NextDay, Gap, EndsLast
  <2> QED
    BY <2>1, <2>2, <2>3
<1>5. NoneAhead'
  BY <1>1, <1>2, WeekFacts
  DEF Placing, NoneAhead, Duties, WeekTypeOK, EmptyInput, SolverGivesUp, LeaveDuty, AllPlaced
<1>6. DaysOffKept'
  <2> SUFFICES ASSUME NEW o \in Operators, DutiesOf(taker, o) # {}
               PROVE  Cardinality(DaysOf(taker, o)) <= MaxDaysWorked
    BY <1>1 DEF DaysOffKept, DutiesOf, DaysOf, MaxDaysWorked
  <2>1. worked[o] > 0 /\ worked[o] <= MaxDaysWorked /\ Cardinality(DaysOf(taker, o)) <= worked[o]
    BY <1>1 DEF Placing, DaysCounted, WeekTypeOK
  <2>2. Cardinality(DaysOf(taker, o)) \in Int /\ MaxDaysWorked \in Int /\ worked[o] \in Int
    BY <1>2, WeekFacts, DaysFinite DEF WeekTypeOK
  <2> QED
    BY <2>1, <2>2
<1>7. MinutesCounted'
  BY <1>1, SameMinutes DEF Placing, MinutesCounted
<1>8. MinutesKept'
  BY <1>1, SameMinutes DEF Placing, MinutesCounted, MinutesKept
<1> QED
  BY <1>3, <1>4, <1>5, <1>6, <1>7, <1>8 DEF Placing, Answer

(* The step that gives a duty: only the taker's counters change, and the   *)
(* days before the duty's are closed because the work is sorted by day.    *)
LEMMA PlaceKeeps == WeekInv /\ PlaceDuty => WeekInv'
<1> SUFFICES ASSUME WeekInv, PlaceDuty PROVE WeekInv'
  OBVIOUS
<1> DEFINE i == placed + 1
<1> DEFINE day == week.work[i].day
<1>1. week \in Weeks /\ week' = week /\ weekStage = "placing" /\ weekStage' = "placing"
      /\ placed' = i
  BY DEF WeekInv, WeekTypeOK, PlaceDuty
<1>2. /\ WeekTypeOK /\ DaysCounted /\ MinutesCounted /\ NoneAhead
      /\ LastIsGiven /\ LastIsLatest /\ RestSoFar
  BY <1>1 DEF WeekInv, Placing
<1>3. PICK o \in Operators :
        /\ MayTake(o, i)
        /\ taker' = [taker EXCEPT ![i] = o]
        /\ minutes' = [minutes EXCEPT ![o] = @ + week.work[i].minutes]
        /\ worked' = [worked EXCEPT ![o] = @ + 1]
        /\ lastDuty' = [lastDuty EXCEPT ![o] = [@ EXCEPT ![day] = i]]
  BY <1>1, WeekFacts DEF PlaceDuty
<1>W. /\ Len(week.work) \in Nat /\ placed \in Nat
      /\ \A j \in Duties : week.work[j].day \in week.days /\ week.work[j].day \in Int
      /\ \A j \in Duties, k \in Duties : j <= k => week.work[j].day <= week.work[k].day
  <2>1. Len(week.work) \in Nat /\ placed \in Nat
    BY <1>1, <1>2, WeekFacts DEF WeekTypeOK
  <2>2. \A j \in Duties : week.work[j].day \in week.days /\ week.work[j].day \in Int
    BY <1>1, WeekFacts
  <2>3. ASSUME NEW j \in Duties, NEW k \in Duties, j <= k
        PROVE  week.work[j].day <= week.work[k].day
    <3>1. j \in 1..k
      BY <2>1, <2>3 DEF Duties
    <3> QED
      BY <1>1, <3>1, WeekFacts
  <2> QED
    BY <2>1, <2>2, <2>3
<1>4. i \in Duties /\ day \in week.days /\ taker[i] = NoOperator
  <2>1. i \in Duties /\ i > placed
    BY <1>W DEF PlaceDuty, Duties
  <2> QED
    BY <1>2, <1>W, <2>1 DEF NoneAhead
<1>5. WeekTypeOK'
  <2>1. taker' \in [1..Len(week.work) -> Operators \cup {NoOperator}]
    BY <1>2, <1>3 DEF WeekTypeOK
  <2>2. worked' \in [Operators -> Nat]
    BY <1>2, <1>3 DEF WeekTypeOK
  <2>3. lastDuty' \in [Operators -> [week.days -> 0..Len(week.work)]]
    BY <1>1, <1>2, <1>3, <1>4, WeekFacts DEF WeekTypeOK, Duties
  <2> QED
    BY <1>1, <1>4, <2>1, <2>2, <2>3, WeekFacts DEF WeekTypeOK, Duties
<1>6. \A j \in Duties : taker'[j] = IF j = i THEN o ELSE taker[j]
  BY <1>2, <1>3 DEF WeekTypeOK, Duties
<1>7. \A p \in Operators : \A d \in week.days :
        lastDuty'[p][d] = IF p = o /\ d = day THEN i ELSE lastDuty[p][d]
  BY <1>2, <1>3 DEF WeekTypeOK
<1>8. DaysCounted'
  <2> SUFFICES ASSUME NEW p \in Operators
               PROVE  /\ Cardinality(DaysOf(taker', p)) <= worked'[p]
                      /\ worked'[p] = 0 => DutiesOf(taker', p) = {}
                      /\ worked'[p] > 0 => worked'[p] <= MaxDaysWorked
    BY <1>1 DEF DaysCounted, DaysOf, DutiesOf, MaxDaysWorked
  <2>1. CASE p # o
    <3>1. DutiesOf(taker', p) = DutiesOf(taker, p)
      BY <1>4, <1>6, <2>1, OperatorsKnown DEF DutiesOf, Duties
    <3>2. worked'[p] = worked[p]
      BY <1>2, <1>3, <2>1 DEF WeekTypeOK
    <3>3. DaysOf(taker', p) = DaysOf(taker, p)
      BY <3>1 DEF DaysOf
    <3> QED
      BY <1>2, <3>1, <3>2, <3>3 DEF DaysCounted
  <2>2. CASE p = o
    <3>1. DutiesOf(taker', o) = DutiesOf(taker, o) \cup {i}
      BY <1>4, <1>6 DEF DutiesOf, Duties
    <3>2. DaysOf(taker', o) = DaysOf(taker, o) \cup {day}
      BY <3>1 DEF DaysOf
    <3>3. worked'[o] = worked[o] + 1 /\ worked[o] \in Nat /\ worked[o] < MaxDaysWorked
      BY <1>2, <1>3 DEF WeekTypeOK, MayTake
    <3>4. /\ IsFiniteSet(DaysOf(taker, o))
          /\ Cardinality(DaysOf(taker, o)) \in Nat
      BY <1>1, DaysFinite
    <3>5. Cardinality(DaysOf(taker', o)) <= Cardinality(DaysOf(taker, o)) + 1
      <4>1. \/ Cardinality(DaysOf(taker', o)) = Cardinality(DaysOf(taker, o))
            \/ Cardinality(DaysOf(taker', o)) = Cardinality(DaysOf(taker, o)) + 1
        BY <3>2, <3>4, FS_AddElement
      <4> QED
        BY <3>4, <4>1
    <3>6. Cardinality(DaysOf(taker', o)) \in Nat /\ MaxDaysWorked \in Int
      BY <1>1, DaysFinite, WeekFacts
    <3>7. Cardinality(DaysOf(taker, o)) <= worked[o]
      BY <1>2 DEF DaysCounted
    <3> QED
      BY <2>2, <3>3, <3>4, <3>5, <3>6, <3>7
  <2> QED
    BY <2>1, <2>2
<1>9. NoneAhead'
  <2>1. Duties' = Duties
    BY <1>1 DEF Duties
  <2>2. \A j \in Duties : j \in Int /\ (j > placed => taker[j] = NoOperator)
    BY <1>2 DEF NoneAhead, Duties
  <2> SUFFICES ASSUME NEW j \in Duties, j > placed' PROVE taker'[j] = NoOperator
    BY <2>1 DEF NoneAhead
  <2>3. j > placed /\ j # i
    BY <1>1, <1>2, <1>W, <2>2
  <2> QED
    BY <1>6, <2>2, <2>3
<1>10. LastIsGiven'
  <2> SUFFICES ASSUME NEW p \in Operators, NEW d \in week.days, lastDuty'[p][d] # 0
               PROVE  /\ taker'[lastDuty'[p][d]] = p
                      /\ week.work[lastDuty'[p][d]].day = d
    BY <1>1 DEF LastIsGiven
  <2>1. CASE p = o /\ d = day
    BY <1>4, <1>6, <1>7, <2>1
  <2>2. CASE ~(p = o /\ d = day)
    <3> DEFINE l == lastDuty[p][d]
    <3>1. lastDuty'[p][d] = l /\ l # 0
      BY <1>7, <2>2
    <3>2. l \in Duties /\ taker[l] = p /\ week.work[l].day = d
      <4>1. l \in 0..Len(week.work)
        BY <1>2 DEF WeekTypeOK
      <4> QED
        BY <1>2, <1>W, <3>1, <4>1 DEF LastIsGiven, Duties
    <3> QED
      BY <1>4, <1>6, <3>1, <3>2, OperatorsKnown
  <2> QED
    BY <2>1, <2>2
<1>11. LastIsLatest'
  <2> SUFFICES ASSUME NEW j \in Duties, taker'[j] # NoOperator
               PROVE  lastDuty'[taker'[j]][week.work[j].day] >= j
    BY <1>1 DEF LastIsLatest, Duties
  <2>1. week.work[j].day \in week.days
    BY <1>1, WeekFacts
  <2>2. CASE j = i
    BY <1>1, <1>4, <1>6, <1>7, <2>2, WeekFacts DEF Duties
  <2>3. CASE j # i
    <3>1. taker'[j] = taker[j] /\ taker[j] \in Operators
      BY <1>2, <1>6, <2>3 DEF WeekTypeOK, Duties
    <3>2. j < i
      BY <1>1, <1>2, <2>3, <3>1, OperatorsKnown, WeekFacts DEF NoneAhead, Duties, WeekTypeOK
    <3>3. lastDuty[taker[j]][week.work[j].day] >= j
      BY <1>2, <3>1, OperatorsKnown DEF LastIsLatest
    <3> QED
      <4>1. CASE taker[j] = o /\ week.work[j].day = day
        <5>1. lastDuty'[taker'[j]][week.work[j].day] = i
          BY <1>7, <2>1, <3>1, <4>1
        <5> QED
          BY <1>W, <3>2, <5>1 DEF Duties
      <4>2. CASE ~(taker[j] = o /\ week.work[j].day = day)
        <5>1. lastDuty'[taker'[j]][week.work[j].day] = lastDuty[taker[j]][week.work[j].day]
          BY <1>7, <2>1, <3>1, <4>2
        <5> QED
          BY <3>3, <5>1
      <4> QED
        BY <4>1, <4>2
  <2> QED
    BY <2>2, <2>3
<1>12. RestSoFar'
  <2> SUFFICES ASSUME NEW a \in Duties, NEW b \in Duties,
                      taker'[a] # NoOperator, taker'[a] = taker'[b], NextDay(a, b),
                      \A k \in (a + 1)..Len(week.work) :
                        taker'[k] = taker'[a] /\ week.work[k].day = week.work[a].day =>
                          week.work[k].end >= week.work[a].end
               PROVE  Gap(a, b) >= week.rest
    BY <1>1 DEF RestSoFar, Duties, NextDay, Gap, EndsLast
  <2>1. /\ a < b
        /\ week.work[b].day = week.work[a].day + 1
        /\ week.work[a].day \in week.days /\ week.work[b].day \in week.days
    <3>1. week.work[b].day = week.work[a].day + 1
      BY DEF NextDay
    <3>2. ~(b <= a)
      BY <1>W, <3>1
    <3> QED
      BY <1>W, <3>1, <3>2 DEF Duties
  <2>2. b <= i
    <3> SUFFICES ASSUME b > i PROVE FALSE
      BY <1>W DEF Duties
    <3>1. b # i /\ b > placed
      BY <1>W DEF Duties
    <3>2. taker'[b] = NoOperator
      BY <1>2, <1>6, <3>1 DEF NoneAhead
    <3> QED
      BY <3>2
  <2>3. a # i /\ taker[a] = taker'[a] /\ taker[a] \in Operators
    <3>1. a # i
      BY <1>W, <2>1, <2>2 DEF Duties
    <3>2. taker[a] \in Operators \cup {NoOperator}
      BY <1>2 DEF WeekTypeOK, Duties
    <3> QED
      BY <1>6, <3>1, <3>2
  <2>4. CASE b # i
    <3>1. taker[b] = taker[a]
      BY <1>6, <2>3, <2>4
    <3>2. EndsLast(a)
      <4> SUFFICES ASSUME NEW k \in (a + 1)..Len(week.work), taker[k] = taker[a],
                          week.work[k].day = week.work[a].day
                   PROVE  week.work[k].end >= week.work[a].end
        BY DEF EndsLast
      <4>1. k \in Duties
        BY <1>1, WeekFacts DEF Duties
      <4>2. taker'[k] = taker[k]
        BY <1>4, <1>6, <2>3, <4>1, OperatorsKnown
      <4> QED
        BY <2>3, <4>2
    <3> QED
      BY <1>2, <2>3, <3>1, <3>2, OperatorsKnown DEF RestSoFar
  <2>5. CASE b = i
    <3>1. taker[a] = o
      BY <1>6, <2>3, <2>5
    <3> DEFINE p == lastDuty[o][week.work[a].day]
    <3>2. p >= a /\ p \in 0..Len(week.work)
      BY <1>2, <2>1, <3>1, OperatorsKnown DEF LastIsLatest, WeekTypeOK
    <3>3. p \in Duties /\ p # 0
      BY <1>1, <3>2, WeekFacts DEF Duties
    <3>4. taker[p] = o /\ week.work[p].day = week.work[a].day
      BY <1>2, <2>1, <3>3 DEF LastIsGiven
    <3>5. taker'[p] = taker'[a]
      BY <1>4, <1>6, <2>3, <3>1, <3>3, <3>4, OperatorsKnown
    <3>6. week.work[p].end >= week.work[a].end
      <4>1. p = a \/ p \in (a + 1)..Len(week.work)
        BY <1>W, <3>2, <3>3 DEF Duties
      <4>2. CASE p = a
        <5>1. week.work[a].end \in Int
          BY <1>1, WeekFacts DEF Duties
        <5> QED
          BY <4>2, <5>1
      <4> QED
        BY <3>4, <3>5, <4>1, <4>2
    <3>7. NextDay(p, b) /\ lastDuty[o][week.work[p].day] = p
      BY <2>1, <3>4 DEF NextDay
    <3>8. Gap(p, b) >= week.rest
      BY <1>3, <2>5, <3>3, <3>7 DEF MayTake, RestedFor, Duties
    <3>9. /\ week.work[a].end \in Int /\ week.work[p].end \in Int
          /\ week.work[b].start \in Int /\ week.rest \in Int
      BY <1>1, <3>3, WeekFacts DEF Duties
    <3> HIDE DEF p, i, day
    <3>10. Gap(a, b) >= Gap(p, b) /\ Gap(a, b) \in Int /\ Gap(p, b) \in Int
      BY ONLY <3>6, <3>9 DEF Gap
    <3> QED
      BY ONLY <3>8, <3>9, <3>10
  <2> QED
    BY <2>4, <2>5
<1>13. MinutesCounted'
  <2>1. minutes' \in [Operators -> Int]
    <3>1. week.work[i].minutes \in Int
      BY <1>1, <1>4, WeekFacts
    <3> QED
      BY <1>2, <1>3, <3>1 DEF MinutesCounted
  <2> SUFFICES ASSUME NEW p \in Operators
               PROVE  /\ minutes'[p] = MinutesOf(taker', p)
                      /\ DutiesOf(taker', p) # {} => minutes'[p] <= week.limit
    BY <1>1, <2>1, SameMinutes DEF MinutesCounted
  <2>2. CASE p # o
    <3>1. DutiesOf(taker', p) = DutiesOf(taker, p)
      BY <1>4, <1>6, <2>2, OperatorsKnown DEF DutiesOf, Duties
    <3>2. minutes'[p] = minutes[p]
      BY <1>2, <1>3, <2>2 DEF MinutesCounted
    <3>3. MinutesOf(taker', p) = MinutesOf(taker, p)
      BY <3>1, MinutesAreASum
    <3> QED
      BY <1>2, <3>1, <3>2, <3>3 DEF MinutesCounted
  <2>3. CASE p = o
    <3>1. DutiesOf(taker', o) = DutiesOf(taker, o) \cup {i} /\ i \notin DutiesOf(taker, o)
      BY <1>4, <1>6, OperatorsKnown DEF DutiesOf, Duties
    <3>2. MinutesOf(taker', o) = MinutesOf(taker, o) + week.work[i].minutes
      BY <1>1, <1>4, <3>1, MinutesAdd
    <3>3. minutes'[o] = minutes[o] + week.work[i].minutes
      BY <1>2, <1>3 DEF MinutesCounted
    <3>4. minutes[o] + week.work[i].minutes <= week.limit
      BY <1>3 DEF MayTake
    <3> QED
      BY <1>2, <2>3, <3>2, <3>3, <3>4 DEF MinutesCounted
  <2> QED
    BY <2>2, <2>3
<1> QED
  BY <1>1, <1>5, <1>8, <1>9, <1>10, <1>11, <1>12, <1>13
  DEF WeekInv, Placing, Answer, WeekTypeOK

-------------------------------------------------------------------------------
(* WeekInv is an invariant of every week. *)
THEOREM WeekInvariant == WeekSpec => []WeekInv
<1>1. WeekInit => WeekInv
  BY Starts
<1>2. WeekInv /\ [WeekNext]_weekly => WeekInv'
  <2> SUFFICES ASSUME WeekInv, [WeekNext]_weekly PROVE WeekInv'
    OBVIOUS
  <2>1. CASE EmptyInput \/ SolverGivesUp \/ LeaveDuty \/ AllPlaced
    BY <2>1, QuietKeeps
  <2>2. CASE SolverAnswers
    BY <2>2, SolverKeeps
  <2>3. CASE PlaceDuty
    BY <2>3, PlaceKeeps
  <2>4. CASE UNCHANGED weekly
    <3>1. /\ week' = week /\ weekStage' = weekStage /\ placed' = placed
          /\ taker' = taker /\ minutes' = minutes /\ worked' = worked
          /\ lastDuty' = lastDuty
      BY <2>4 DEF weekly
    <3>2. WeekTypeOK' = WeekTypeOK
      BY <3>1 DEF WeekTypeOK
    <3>3. DaysCounted' = DaysCounted /\ DaysOffKept' = DaysOffKept
      BY <3>1 DEF DaysCounted, DaysOffKept, DutiesOf, DaysOf, MaxDaysWorked
    <3>4. /\ NoneAhead' = NoneAhead /\ LastIsGiven' = LastIsGiven
          /\ LastIsLatest' = LastIsLatest
      BY <3>1 DEF NoneAhead, LastIsGiven, LastIsLatest, Duties
    <3>5. RestSoFar' = RestSoFar
      BY <3>1 DEF RestSoFar, NextDay, Gap, EndsLast, Duties
    <3>6. MinutesCounted' = MinutesCounted /\ MinutesKept' = MinutesKept
      BY <3>1, SameMinutes DEF MinutesCounted, MinutesKept
    <3> QED
      BY <3>1, <3>2, <3>3, <3>4, <3>5, <3>6 DEF WeekInv, Placing, Answer
  <2> QED
    BY <2>1, <2>2, <2>3, <2>4 DEF WeekNext
<1> QED
  BY <1>1, <1>2, PTL DEF WeekSpec

(* solve: everyone who drives keeps the days off of the week and drives no *)
(* more minutes than the limit allows, whichever solver answered.          *)
THEOREM WeekLimits == WeekSpec => []WeekLimitsKept
<1>1. WeekInv => WeekLimitsKept
  BY DEF WeekInv, Answer, MinutesKept, DaysOffKept, WeekLimitsKept
<1> QED
  BY <1>1, WeekInvariant, PTL

(* solve: the rest between consecutive days is kept, whichever solver      *)
(* answered and however many duties of a day it gave to one operator, but  *)
(* after a duty that ends later than one given after it.                   *)
THEOREM RestIsKept == WeekSpec => []RestKept
<1>1. WeekInv => RestKept
  BY DEF WeekInv, Answer, RestKept, RestSoFar, EndsLast, Duties
<1> QED
  BY <1>1, WeekInvariant, PTL

-------------------------------------------------------------------------------
(* What the loop has passed is matched or blocked by a match that comes    *)
(* before it, and every match comes before what is left.                   *)
Blocked(p) == \E q \in matched : (q[1] = p[1] \/ q[2] = p[2]) /\ Before(q, p)

NamesInv ==
  /\ call \in Calls
  /\ Apart(matched)
  /\ matched \subseteq ValidPairs
  /\ callStage \in {"asked", "empty", "matched", "greedy", "fallback"}
  /\ callStage = "asked" => matched = {}
  /\ callStage \in {"greedy", "fallback"} =>
       /\ \A p \in ValidPairs : p \notin pairs => Blocked(p)
       /\ \A p \in pairs : p \in ValidPairs /\ \A q \in matched : Before(q, p)
  /\ callStage = "fallback" => pairs = {}

(* No step changes the request, and with it the pairs and their order. *)
LEMMA SameCall ==
  ASSUME call' = call
  PROVE  /\ ValidPairs' = ValidPairs
         /\ \A p, q : Before(p, q)' <=> Before(p, q)
<1>1. \A i, j : Rested(i, j)' <=> Rested(i, j)
  BY DEF Rested
<1>2. ASSUME NEW i, NEW j PROVE Score(i, j)' = Score(i, j)
  <2> DEFINE Adds(g) == g = [s \in SUBSET call.rules |->
                               IF s = {} THEN 0
                               ELSE Boost(CHOOSE x \in s : TRUE, i, j)
                                    + g[s \ {CHOOSE x \in s : TRUE}]]
  <2>1. \A r : Boost(r, i, j)' = Boost(r, i, j)
    BY DEF Boost, Shift
  <2>2. \A g : Adds(g)' <=> Adds(g)
    <3>1. \A s : Boost(CHOOSE x \in s : TRUE, i, j)' = Boost(CHOOSE x \in s : TRUE, i, j)
      BY <2>1
    <3> QED
      BY <3>1
  <2>3. /\ Score(i, j) = 100 + (CHOOSE g : Adds(g))[call.rules]
        /\ Score(i, j)' = 100 + (CHOOSE g : Adds(g)')[call'.rules]
    BY DEF Score, MapThenSumSet, MapThenFoldSet
  <2>4. (CHOOSE g : Adds(g)') = CHOOSE g : Adds(g)
    <3> HIDE DEF Adds
    <3> QED
      BY <2>2
  <2> QED
    BY <2>3, <2>4
<1> QED
  BY <1>1, <1>2 DEF ValidPairs, Before, Prohibitive

(* A pair comes before itself: the duties are numbered. *)
LEMMA BeforeItself ==
  ASSUME call \in Calls, NEW p \in ValidPairs
  PROVE  Before(p, p)
<1>1. p[2] \in Int
  BY CallsNumbered DEF ValidPairs
<1> QED
  BY <1>1 DEF Before

LEMMA TakeKeeps == NamesInv /\ TakePair => NamesInv'
<1> SUFFICES ASSUME NamesInv, TakePair PROVE NamesInv'
  OBVIOUS
<1>1. /\ call' = call /\ callStage = "greedy" /\ callStage' = "greedy"
  BY DEF TakePair
<1>2. PICK p \in pairs : /\ \A q \in pairs : Before(p, q)
                         /\ pairs' = pairs \ {p}
                         /\ matched' = IF Free(p) THEN matched \cup {p} ELSE matched
  BY DEF TakePair
<1>3. /\ ValidPairs' = ValidPairs
      /\ \A q, r : Before(q, r)' <=> Before(q, r)
  BY <1>1, SameCall
<1>4. p \in ValidPairs /\ Before(p, p)
  BY <1>1, BeforeItself DEF NamesInv
<1>5. matched \subseteq matched' /\ matched' \subseteq matched \cup {p}
  BY <1>2
<1>6. Apart(matched)'
  BY <1>2 DEF NamesInv, Apart, Free
<1>7. \E q \in matched' : (q[1] = p[1] \/ q[2] = p[2]) /\ Before(q, p)
  <2>1. CASE Free(p)
    BY <1>2, <1>4, <2>1
  <2>2. CASE ~Free(p)
    BY <1>1, <1>2, <2>2 DEF NamesInv, Free
  <2> QED
    BY <2>1, <2>2
<1>8. \A r \in ValidPairs : r \notin pairs' =>
        \E q \in matched' : (q[1] = r[1] \/ q[2] = r[2]) /\ Before(q, r)
  BY <1>1, <1>2, <1>5, <1>7 DEF NamesInv, Blocked
<1>9. \A r \in pairs' : r \in ValidPairs /\ \A q \in matched' : Before(q, r)
  BY <1>1, <1>2, <1>5 DEF NamesInv
<1> QED
  BY <1>1, <1>3, <1>4, <1>5, <1>6, <1>8, <1>9 DEF NamesInv, Blocked

(* NamesInv is an invariant of every call. *)
THEOREM NamesInvariant == CallSpec => []NamesInv
<1>1. CallInit => NamesInv
  BY DEF CallInit, NamesInv, Apart
<1>2. NamesInv /\ [CallNext]_nominal => NamesInv'
  <2> SUFFICES ASSUME NamesInv, [CallNext]_nominal PROVE NamesInv'
    OBVIOUS
  <2>1. call' = call
    BY DEF CallNext, nominal, NoValidPair, ProgramAnswers, ProgramFails, NotOptimal,
           TakePair, PairsDone
  <2>2. /\ ValidPairs' = ValidPairs
        /\ \A p, q : Before(p, q)' <=> Before(p, q)
    BY <2>1, SameCall
  <2>3. CASE NoValidPair \/ ProgramFails
    BY <2>1, <2>2, <2>3 DEF NoValidPair, ProgramFails, NamesInv, Apart
  <2>4. CASE ProgramAnswers
    BY <2>1, <2>2, <2>4 DEF ProgramAnswers, NamesInv, Apart
  <2>5. CASE NotOptimal
    BY <2>1, <2>2, <2>5 DEF NotOptimal, NamesInv, Apart, Blocked
  <2>6. CASE TakePair
    BY <2>6, TakeKeeps
  <2>7. CASE PairsDone
    BY <2>1, <2>2, <2>7 DEF PairsDone, NamesInv, Apart, Blocked
  <2>8. CASE UNCHANGED nominal
    BY <2>1, <2>2, <2>8 DEF nominal, NamesInv, Apart, Blocked
  <2> QED
    BY <2>3, <2>4, <2>5, <2>6, <2>7, <2>8 DEF CallNext
<1> QED
  BY <1>1, <1>2, PTL DEF CallSpec

(* solve: whichever solver answered, nobody has two duties, no duty two    *)
(* operators, the rest is kept, and the fallback blocks no pair but by one *)
(* that comes before it.                                                   *)
THEOREM Matching == CallSpec => []MatchingHolds
<1>1. NamesInv => MatchingHolds
  BY DEF NamesInv, MatchingHolds, Blocked, ValidPairs
<1> QED
  BY <1>1, NamesInvariant, PTL

-------------------------------------------------------------------------------
(* The numbers of the trips.                                                   *)

TripType == [st : Int, en : Int, from : Int, to : Int, line : Int, group : Int,
             depot : Int, kwh : Int, after : Int, hand : BOOLEAN]
Num(P, t) == P.trips[t].group

(* The request P with other trips, and no other number of trips.               *)
Like(P) == [trips : [TripIds(P) -> TripType], dead : {P.dead}, prm : {P.prm}]

(* From P to Q trips get a number, and nothing else changes.                   *)
OnlyNumbers(P, Q) ==
  \A t \in TripIds(P) :
    /\ Q.trips[t] = [P.trips[t] EXCEPT !.group = Num(Q, t)]
    /\ Num(P, t) # 0 => Num(Q, t) = Num(P, t)

(* The trips of S have numbers of D.                                           *)
NumbersIn(P, S, D) == \A t \in S \cap TripIds(P) : Num(P, t) \in D
AllNumbered(P, S) == \A t \in S \cap TripIds(P) : Num(P, t) # 0

LEMMA RequestTyped ==
  ASSUME NEW P, IsRequest(P)
  PROVE  /\ P \in Like(P) /\ OnlyNumbers(P, P)
         /\ TripIds(P) = 1..Len(P.trips) /\ Len(P.trips) \in Nat /\ IsFiniteSet(TripIds(P))
         /\ \A t \in TripIds(P) : P.trips[t] \in TripType
<1>1. P.trips \in Seq(TripType)
  BY DEF IsRequest, TripType
<1>2. \A x \in TripType : x = [x EXCEPT !.group = x.group]
  BY DEF TripType
<1> HIDE DEF TripType
<1>3. TripIds(P) = 1..Len(P.trips) /\ Len(P.trips) \in Nat /\ P.trips \in [TripIds(P) -> TripType]
  BY <1>1 DEF TripIds
<1>4. IsFiniteSet(TripIds(P))
  BY <1>3, FS_Interval
<1>5. P \in Like(P)
  BY <1>3 DEF Like, IsRequest
<1> QED
  BY <1>2, <1>3, <1>4, <1>5 DEF OnlyNumbers, Num

(* One group is numbered.                                                      *)
LEMMA GroupNumbers ==
  ASSUME NEW P, NEW Q \in Like(P), NEW g, NEW n \in Int
  PROVE  LET R == GroupNumbered(Q, g, n) IN
         /\ R \in Like(P) /\ OnlyNumbers(Q, R)
         /\ \A t \in TripIds(P) : t \notin g => Num(R, t) = Num(Q, t)
         /\ n # 0 => AllNumbered(R, g)
         /\ \A S, D : g \cap TripIds(P) \subseteq S /\ NumbersIn(Q, S, D) /\ n \in D => NumbersIn(R, S, D)
<1> DEFINE ids == TripIds(P)
           known == {Q.trips[t].group : t \in g \cap ids} \ {0}
           number == IF Cardinality(known) = 1 THEN CHOOSE k \in known : TRUE ELSE n
           R == GroupNumbered(Q, g, n)
           new == [t \in ids |-> IF t \in g /\ Q.trips[t].group = 0
                                   THEN [Q.trips[t] EXCEPT !.group = number] ELSE Q.trips[t]]
<1>1. TripIds(Q) = ids /\ DOMAIN Q.trips = ids /\ Q.trips \in [ids -> TripType]
  BY DEF Like, TripIds
<1>2. R = [Q EXCEPT !.trips = new]
  BY <1>1 DEF GroupNumbered
<1>3. number \in known \/ number = n
  <2>1. CASE known = {}
    <3>1. Cardinality(known) = 0
      BY <2>1, FS_EmptySet
    <3> QED
      BY <3>1
  <2>2. CASE known # {}
    BY <2>2
  <2> QED
    BY <2>1, <2>2
<1>4. \A x \in TripType : x.group \in Int /\ \A m \in Int : [x EXCEPT !.group = m] \in TripType
                                            /\ [x EXCEPT !.group = m].group = m
                          /\ x = [x EXCEPT !.group = x.group]
  BY DEF TripType
<1> HIDE DEF TripType
<1>5. \A k \in known : k \in Int /\ k # 0
  BY <1>1, <1>4
<1>6. number \in Int /\ (n # 0 => number # 0)
  BY <1>3, <1>5
<1>7. \A S, D : g \cap ids \subseteq S /\ NumbersIn(Q, S, D) /\ n \in D => number \in D
  <2> SUFFICES ASSUME NEW S, NEW D, g \cap ids \subseteq S, NumbersIn(Q, S, D), n \in D
               PROVE  number \in D
    OBVIOUS
  <2>1. \A k \in known : k \in D
    BY <1>1 DEF NumbersIn, Num
  <2> QED
    BY <1>3, <2>1
<1> HIDE DEF number, known
<1>8. new \in [ids -> TripType] /\ R.trips = new /\ R \in Like(P)
  <2>1. new \in [ids -> TripType]
    BY <1>1, <1>4, <1>6
  <2> HIDE DEF new, R
  <2> QED
    BY <1>2, <2>1 DEF Like
<1>9. TripIds(R) = ids
  BY <1>8 DEF TripIds
<1>10. \A t \in ids : Num(R, t) = IF t \in g /\ Num(Q, t) = 0 THEN number ELSE Num(Q, t)
  BY <1>1, <1>4, <1>6, <1>8 DEF Num
<1>11. OnlyNumbers(Q, R)
  <2> SUFFICES ASSUME NEW t \in ids
               PROVE  R.trips[t] = [Q.trips[t] EXCEPT !.group = Num(R, t)] /\ (Num(Q, t) # 0 => Num(R, t) = Num(Q, t))
    BY <1>1 DEF OnlyNumbers
  <2>1. R.trips[t] = IF t \in g /\ Q.trips[t].group = 0 THEN [Q.trips[t] EXCEPT !.group = number] ELSE Q.trips[t]
    BY <1>8
  <2>2. Q.trips[t] \in TripType
    BY <1>1
  <2> QED
    BY <1>4, <1>10, <2>1, <2>2 DEF Num
<1>12. \A S, D : g \cap ids \subseteq S /\ NumbersIn(Q, S, D) /\ n \in D => NumbersIn(R, S, D)
  BY <1>1, <1>7, <1>9, <1>10 DEF NumbersIn
<1>13. n # 0 => AllNumbered(R, g)
  BY <1>6, <1>9, <1>10 DEF AllNumbered
<1> HIDE DEF R
<1> QED
  BY <1>8, <1>10, <1>11, <1>12, <1>13 DEF R

(* Numbers that are only added are only added in two steps.                    *)
LEMMA NumbersAgain ==
  ASSUME NEW P, NEW A \in Like(P), NEW B \in Like(P), NEW C \in Like(P),
         OnlyNumbers(A, B), OnlyNumbers(B, C)
  PROVE  OnlyNumbers(A, C) /\ \A S : AllNumbered(B, S) => AllNumbered(C, S)
<1>1. \A Q \in Like(P) : TripIds(Q) = TripIds(P) /\ \A t \in TripIds(P) : Q.trips[t] \in TripType
  BY DEF Like, TripIds
<1>2. \A x \in TripType : \A m, n : [[x EXCEPT !.group = m] EXCEPT !.group = n] = [x EXCEPT !.group = n]
  BY DEF TripType
<1> HIDE DEF TripType
<1>3. OnlyNumbers(A, C)
  <2> SUFFICES ASSUME NEW t \in TripIds(P)
               PROVE  /\ C.trips[t] = [A.trips[t] EXCEPT !.group = Num(C, t)]
                      /\ Num(A, t) # 0 => Num(C, t) = Num(A, t)
    BY <1>1 DEF OnlyNumbers
  <2>1. B.trips[t] = [A.trips[t] EXCEPT !.group = Num(B, t)] /\ (Num(A, t) # 0 => Num(B, t) = Num(A, t))
    BY <1>1 DEF OnlyNumbers
  <2>2. C.trips[t] = [B.trips[t] EXCEPT !.group = Num(C, t)] /\ (Num(B, t) # 0 => Num(C, t) = Num(B, t))
    BY <1>1 DEF OnlyNumbers
  <2>3. A.trips[t] \in TripType
    BY <1>1
  <2>4. C.trips[t] = [[A.trips[t] EXCEPT !.group = Num(B, t)] EXCEPT !.group = Num(C, t)]
    BY <2>1, <2>2
  <2> QED
    BY <1>2, <2>1, <2>2, <2>3, <2>4
<1>4. \A S : AllNumbered(B, S) => AllNumbered(C, S)
  BY <1>1 DEF OnlyNumbers, AllNumbered
<1> QED
  BY <1>3, <1>4

(* A list of groups is numbered.                                               *)
LEMMA GroupsNumber ==
  ASSUME NEW P, NEW Q \in Like(P), NEW gs, IsList(gs), NEW seed \in Int
  PROVE  LET R == GroupsNumbered(Q, gs, seed) IN
         /\ R \in Like(P) /\ OnlyNumbers(Q, R)
         /\ \A t \in TripIds(P) : (\A i \in DOMAIN gs : t \notin gs[i]) => Num(R, t) = Num(Q, t)
         /\ seed < 0 => \A i \in DOMAIN gs : AllNumbered(R, gs[i])
         /\ \A S, D : (\A i \in DOMAIN gs : gs[i] \cap TripIds(P) \subseteq S /\ seed + 1 - i \in D) /\ NumbersIn(Q, S, D)
               => NumbersIn(R, S, D)
<1> DEFINE places == [i \in DOMAIN gs |-> i]
           D == DOMAIN places
           V == Like(P)
           After(v, k) == GroupNumbered(v, gs[places[k]], seed + 1 - places[k])
           Once(g) == [s \in SUBSET D |-> IF s = {} THEN Q ELSE After(g[Lower(s)], Max(s))]
           step == [x \in D \X V |-> After(x[2], x[1])]
           f == CHOOSE u : u = Once(u)
           Good(s, R) ==
             /\ OnlyNumbers(Q, R)
             /\ \A t \in TripIds(P) : (\A i \in s : t \notin gs[i]) => Num(R, t) = Num(Q, t)
             /\ seed < 0 => \A i \in s : AllNumbered(R, gs[i])
             /\ \A S, E : (\A i \in DOMAIN gs : gs[i] \cap TripIds(P) \subseteq S /\ seed + 1 - i \in E) /\ NumbersIn(Q, S, E)
                  => NumbersIn(R, S, E)
           G == {x \in (SUBSET D) \X V : Good(x[1], x[2])}
<1>1. GroupsNumbered(Q, gs, seed) = f[D]
  BY DEF GroupsNumbered, FoldLeft, MapThenFoldSet, Lower
<1>2. IsFiniteSet(D) /\ D \subseteq Int /\ D = DOMAIN gs /\ \A k \in D : places[k] = k /\ seed + 1 - k \in Int /\ k >= 1
  <2>1. DOMAIN gs = 1..Len(gs) /\ Len(gs) \in Nat /\ IsFiniteSet(DOMAIN gs)
    BY ListDomain
  <2> QED
    BY <2>1
<1> HIDE DEF places
<1>3. ASSUME NEW v \in V, NEW k \in D PROVE After(v, k) \in V
  BY <1>2, GroupNumbers
<1> HIDE DEF D, After
<1>4. step \in [D \X V -> V] /\ Q \in V
  BY <1>3
<1>5. /\ \A s \in SUBSET D : s # {} => Max(s) \in s /\ Lower(s) = s \ {Max(s)} /\ Lower(s) \in SUBSET D
      /\ \E g \in [SUBSET D -> V] : FoldsBy(g, D, Q, step)
  <2>1. IsFiniteSet(D) /\ D \subseteq Int
    BY <1>2
  <2> HIDE DEF step, V
  <2> QED
    BY ONLY <2>1, <1>4, FoldsList
<1>6. PICK g \in [SUBSET D -> V] : FoldsBy(g, D, Q, step)
  BY <1>5
<1>7. g = Once(g)
  <2>1. ASSUME NEW s \in SUBSET D, s # {} PROVE step[<<Max(s), g[Lower(s)]>>] = After(g[Lower(s)], Max(s))
    <3>1. Max(s) \in D /\ g[Lower(s)] \in V
      BY <1>5, <1>6, <2>1
    <3> QED
      BY <3>1
  <2>2. \A s \in SUBSET D : g[s] = IF s = {} THEN Q ELSE After(g[Lower(s)], Max(s))
    BY <1>6, <2>1 DEF FoldsBy
  <2> HIDE DEF step
  <2> QED
    BY <1>6, <2>2
<1>8. f = Once(f)
  BY <1>7
<1> HIDE DEF f
<1>9. Good({}, Q)
  <2>1. \A x \in TripType : x = [x EXCEPT !.group = x.group]
    BY DEF TripType
  <2>2. TripIds(Q) = TripIds(P) /\ \A t \in TripIds(P) : Q.trips[t] \in TripType
    BY DEF Like, TripIds
  <2> HIDE DEF TripType
  <2>3. OnlyNumbers(Q, Q)
    BY <2>1, <2>2 DEF OnlyNumbers, Num
  <2> QED
    BY <2>3
<1>10. ASSUME NEW s \in SUBSET D, s # {}, <<Lower(s), f[Lower(s)]>> \in G PROVE <<s, f[s]>> \in G
  <2> DEFINE A == f[Lower(s)]
             k == Max(s)
  <2>1. f[s] = After(A, k) /\ k \in s /\ s = Lower(s) \cup {k} /\ k \in D
    BY <1>5, <1>8, <1>10
  <2>2. A \in V /\ Good(Lower(s), A)
    BY <1>10
  <2> HIDE DEF A, k, Good
  <2>3. After(A, k) = GroupNumbered(A, gs[k], seed + 1 - k) /\ seed + 1 - k \in Int /\ k >= 1 /\ k \in Int
    BY <1>2, <2>1 DEF After
  <2> DEFINE B == f[s]
  <2>4. /\ B \in Like(P) /\ OnlyNumbers(A, B)
        /\ \A t \in TripIds(P) : t \notin gs[k] => Num(B, t) = Num(A, t)
        /\ seed + 1 - k # 0 => AllNumbered(B, gs[k])
        /\ \A S, E : gs[k] \cap TripIds(P) \subseteq S /\ NumbersIn(A, S, E) /\ seed + 1 - k \in E => NumbersIn(B, S, E)
    BY <2>1, <2>2, <2>3, GroupNumbers
  <2> HIDE DEF B
  <2>5. OnlyNumbers(Q, B) /\ \A S : AllNumbered(A, S) => AllNumbered(B, S)
    BY <2>2, <2>4, NumbersAgain DEF Good
  <2>6. Good(s, B)
    <3>1. \A t \in TripIds(P) : (\A i \in s : t \notin gs[i]) => Num(B, t) = Num(Q, t)
      BY <2>1, <2>2, <2>4 DEF Good
    <3>2. seed < 0 => \A i \in s : AllNumbered(B, gs[i])
      <4>1. seed < 0 => AllNumbered(B, gs[k])
        BY <2>3, <2>4
      <4>2. seed < 0 => \A i \in Lower(s) : AllNumbered(B, gs[i])
        BY <2>2, <2>5 DEF Good
      <4> QED
        BY <2>1, <4>1, <4>2
    <3>3. \A S, E : (\A i \in DOMAIN gs : gs[i] \cap TripIds(P) \subseteq S /\ seed + 1 - i \in E) /\ NumbersIn(Q, S, E)
                  => NumbersIn(B, S, E)
      BY <1>2, <2>1, <2>2, <2>4 DEF Good
    <3> QED
      BY <2>5, <3>1, <3>2, <3>3 DEF Good
  <2> QED
    BY <2>4, <2>6 DEF B
<1>11. <<{}, f[{}]>> \in G
  BY <1>8, <1>9
<1> HIDE DEF G, V
<1>12. <<D, f[D]>> \in G
  BY <1>2, <1>10, <1>11, FoldsKeep
<1>13. f[D] \in V /\ Good(D, f[D])
  BY <1>12 DEF G
<1> QED
  BY <1>1, <1>2, <1>13 DEF V

-------------------------------------------------------------------------------
(* The groups a run finds.                                                     *)

LEMMA LikeTyped ==
  ASSUME NEW P, IsRequest(P), NEW Q \in Like(P)
  PROVE  /\ TripIds(Q) = TripIds(P) /\ Q.prm = P.prm
         /\ \A t \in TripIds(P) :
              /\ Q.trips[t] \in TripType
              /\ Q.trips[t].st \in Int /\ Q.trips[t].en \in Int /\ Q.trips[t].line \in Int
              /\ Q.trips[t].from \in Int /\ Q.trips[t].to \in Int
              /\ Num(Q, t) \in Int
         /\ \A S \in SUBSET TripIds(P) : IsFiniteSet(S) /\ S \subseteq Nat
<1>1. /\ \A x \in TripType : x.st \in Int /\ x.en \in Int /\ x.line \in Int /\ x.group \in Int
                             /\ x.from \in Int /\ x.to \in Int
  BY DEF TripType
<1> HIDE DEF TripType
<1>2. TripIds(Q) = TripIds(P) /\ Q.prm = P.prm /\ \A t \in TripIds(P) : Q.trips[t] \in TripType
  BY DEF Like, TripIds
<1>3. IsFiniteSet(TripIds(P)) /\ TripIds(P) = 1..Len(P.trips) /\ Len(P.trips) \in Nat
  BY RequestTyped
<1>4. \A S \in SUBSET TripIds(P) : IsFiniteSet(S) /\ S \subseteq Nat
  BY <1>3, FS_Subset
<1> QED
  BY <1>1, <1>2, <1>4 DEF Num

(* Trips with a time they start, of a request or of a solver's job.            *)
Timed(P, S) == IsFiniteSet(S) /\ S \subseteq Nat /\ \A t \in S : P.trips[t].st \in Int

(* Trips by the time they start.                                               *)
LEMMA ByStartListed ==
  ASSUME NEW Q, NEW S, Timed(Q, S)
  PROVE  LET s == ByStart(Q, S) IN
         /\ s \in Seq(S) /\ Len(s) = Cardinality(S) /\ Range(s) = S /\ IsInjective(s)
         /\ S # {} => s[1] \in S
<1> DEFINE before(a, b) == Q.trips[a].st < Q.trips[b].st \/ (Q.trips[a].st = Q.trips[b].st /\ a < b)
           R == {x \in S \X S : before(x[1], x[2])}
           s == ByStart(Q, S)
           m == Cardinality(S)
           nth(i) == CHOOSE x \in S : Rank(R, S, x) = i - 1
<1>1. IsFiniteSet(S) /\ S \subseteq Nat /\ \A t \in S : Q.trips[t].st \in Int
  BY DEF Timed
<1>2. Orders(R, S)
  <2> DEFINE st(a) == Q.trips[a].st
  <2>1. \A p, q \in S : <<p, q>> \in R <=> before(p, q)
    OBVIOUS
  <2>2. \A p, q : before(p, q) <=> (st(p) < st(q) \/ (st(p) = st(q) /\ p < q))
    OBVIOUS
  <2>3. \A p \in S : st(p) \in Int /\ p \in Int
    BY <1>1
  <2> HIDE DEF R, before, st
  <2>4. \A p \in S : ~before(p, p)
    BY <2>2, <2>3
  <2>5. \A p, q \in S : p # q => before(p, q) \/ before(q, p)
    BY <2>2, <2>3
  <2>6. \A p, q, r \in S : before(p, q) /\ before(q, r) => before(p, r)
    BY <2>2, <2>3
  <2> QED
    BY <2>1, <2>4, <2>5, <2>6 DEF Orders
<1>3. s = [i \in 1..m |-> nth(i)]
  <2>1. \A x \in S : Rank(R, S, x) = Cardinality({y \in S : before(y, x)})
    <3>1. \A x \in S : {y \in S : <<y, x>> \in R} = {y \in S : before(y, x)}
      OBVIOUS
    <3> QED
      BY <3>1 DEF Rank
  <2> DEFINE direct(i) == CHOOSE x \in S : Cardinality({y \in S : before(y, x)}) = i - 1
  <2>2. \A i : direct(i) = nth(i)
    BY <2>1
  <2>3. s = [i \in 1..m |-> direct(i)]
    BY DEF ByStart, Sorted
  <2> HIDE DEF direct, nth, s, m
  <2> QED
    BY <2>2, <2>3
<1> HIDE DEF s, R
<1>4. s \in Seq(S) /\ Len(s) = m /\ Range(s) = S /\ IsInjective(s)
  <2>1. s = [i \in 1..Cardinality(S) |-> CHOOSE x \in S : Rank(R, S, x) = i - 1]
    BY <1>3
  <2> QED
    BY ONLY <1>1, <1>2, <2>1, SortedLists
<1>5. ASSUME S # {} PROVE s[1] \in S
  <2>1. s # <<>>
    BY <1>4, <1>5 DEF Range
  <2> QED
    BY <1>4, <2>1
<1> QED
  BY <1>4, <1>5 DEF s

LEMMA ByStartOnce ==
  ASSUME NEW P, IsRequest(P), NEW Q \in Like(P), NEW S \in SUBSET TripIds(P)
  PROVE  LET s == ByStart(Q, S) IN
         /\ s \in Seq(S) /\ Len(s) = Cardinality(S) /\ Range(s) = S /\ IsInjective(s)
         /\ S # {} => s[1] \in S
<1>1. Timed(Q, S)
  BY LikeTyped DEF Timed
<1> QED
  BY ONLY <1>1, ByStartListed

LEMMA RequestTimed ==
  ASSUME NEW P, IsRequest(P), NEW S \in SUBSET TripIds(P)
  PROVE  Timed(P, S)
  BY RequestTyped, LikeTyped DEF Timed

(* The first return a pair may have is one of those that may follow.           *)
LEMMA FirstFree ==
  ASSUME NEW P, IsRequest(P), NEW Q \in Like(P), NEW F \in SUBSET TripIds(P), F # {}
  PROVE  ByStart(Q, {u \in F : \A w \in F : Q.trips[u].st <= Q.trips[w].st})[1] \in F
<1> DEFINE X == {u \in F : \A w \in F : Q.trips[u].st <= Q.trips[w].st}
           f == [u \in F |-> Q.trips[u].st]
<1>1. IsFiniteSet(F) /\ F \subseteq Int /\ \A u \in F : f[u] = Q.trips[u].st /\ Q.trips[u].st \in Int
  <2>1. IsFiniteSet(F) /\ F \subseteq Nat /\ \A u \in F : Q.trips[u].st \in Int
    BY LikeTyped
  <2>2. \A u \in F : f[u] = Q.trips[u].st
    OBVIOUS
  <2> HIDE DEF f
  <2> QED
    BY <2>1, <2>2
<1>2. IntsOn(f, F)
  BY <1>1 DEF IntsOn
<1> HIDE DEF f
<1>3. X # {}
  <2>1. PICK i \in F : \A j \in F : f[i] < f[j] \/ (f[i] = f[j] /\ i <= j)
    BY <1>1, <1>2, LeastExists
  <2>2. \A w \in F : Q.trips[i].st <= Q.trips[w].st
    <3> SUFFICES ASSUME NEW w \in F PROVE Q.trips[i].st <= Q.trips[w].st
      OBVIOUS
    <3>1. f[i] <= f[w] /\ f[i] = Q.trips[i].st /\ f[w] = Q.trips[w].st
      BY <1>1, <2>1
    <3> QED
      BY <3>1
  <2>3. i \in X
    BY <2>2
  <2> QED
    BY <2>3
<1>4. X \in SUBSET TripIds(P) /\ X \subseteq F
  OBVIOUS
<1> HIDE DEF X
<1>5. ByStart(Q, X)[1] \in X
  BY <1>3, <1>4, ByStartOnce
<1> QED
  BY <1>4, <1>5 DEF X

(* Pairs are found one at a time among the trips of the run.                   *)
LEMMA PairsIn ==
  ASSUME NEW P, IsRequest(P), NEW Q \in Like(P), NEW S \in SUBSET TripIds(P)
  PROVE  LET ps == PairsFound(Q, S) IN
         IsList(ps) /\ Len(ps) <= Cardinality(S) /\ \A i \in DOMAIN ps : ps[i] \subseteq S
<1> DEFINE line(t) == Q.trips[t].line
           st(t) == Q.trips[t].st
           before(t, u) == \/ line(t) < line(u)
                           \/ line(t) = line(u) /\ st(t) < st(u)
                           \/ line(t) = line(u) /\ st(t) = st(u) /\ t < u
           R == {x \in S \X S : before(x[1], x[2])}
           m == Cardinality(S)
           nth(i) == CHOOSE x \in S : Rank(R, S, x) = i - 1
           order == Sorted(S, LAMBDA t, u : before(t, u))
<1>1. IsFiniteSet(S) /\ S \subseteq Nat /\ m \in Nat /\ \A t \in S : line(t) \in Int /\ st(t) \in Int
  BY LikeTyped, FS_CardinalityType
<1>2. Orders(R, S)
  <2>1. \A p, q \in S : <<p, q>> \in R <=> before(p, q)
    OBVIOUS
  <2>2. \A p, q : before(p, q) <=> \/ line(p) < line(q)
                                   \/ line(p) = line(q) /\ st(p) < st(q)
                                   \/ line(p) = line(q) /\ st(p) = st(q) /\ p < q
    OBVIOUS
  <2>3. \A p \in S : st(p) \in Int /\ p \in Int /\ line(p) \in Int
    BY <1>1
  <2> HIDE DEF R, before, st, line
  <2>4. \A p \in S : ~before(p, p)
    BY <2>2, <2>3
  <2>5. \A p, q \in S : p # q => before(p, q) \/ before(q, p)
    BY <2>2, <2>3
  <2>6. \A p, q, r \in S : before(p, q) /\ before(q, r) => before(p, r)
    BY <2>2, <2>3
  <2> QED
    BY <2>1, <2>4, <2>5, <2>6 DEF Orders
<1>3. order = [i \in 1..m |-> nth(i)]
  <2>1. \A x \in S : Rank(R, S, x) = Cardinality({y \in S : before(y, x)})
    <3>1. \A x \in S : {y \in S : <<y, x>> \in R} = {y \in S : before(y, x)}
      OBVIOUS
    <3> QED
      BY <3>1 DEF Rank
  <2> DEFINE direct(i) == CHOOSE x \in S : Cardinality({y \in S : before(y, x)}) = i - 1
  <2>2. \A i : direct(i) = nth(i)
    BY <2>1
  <2>3. order = [i \in 1..m |-> direct(i)]
    BY DEF Sorted
  <2> HIDE DEF direct, nth, order, m
  <2> QED
    BY <2>2, <2>3
<1> DEFINE D == DOMAIN order
           V == [used : SUBSET TripIds(P), pairs : Seq(SUBSET S)]
           start == [used |-> {}, pairs |-> <<>>]
           After(v, k) == PairUp(Q, S, v, order[k])
           Once(g) == [s \in SUBSET D |-> IF s = {} THEN start ELSE After(g[Lower(s)], Max(s))]
           step == [x \in D \X V |-> After(x[2], x[1])]
           f == CHOOSE u : u = Once(u)
           size(v) == Len(v.pairs)
           G == {x \in (SUBSET D) \X V : size(x[2]) <= Cardinality(x[1])}
<1>4. PairsFound(Q, S) = f[D].pairs
  BY DEF PairsFound, FoldLeft, MapThenFoldSet, Lower
<1> HIDE DEF order, R, before, nth
<1>5. order \in Seq(S) /\ D = 1..m
  <2>1. order = [i \in 1..Cardinality(S) |-> CHOOSE x \in S : Rank(R, S, x) = i - 1]
    BY <1>3 DEF nth
  <2>2. order \in Seq(S) /\ Len(order) = Cardinality(S)
    BY ONLY <1>1, <1>2, <2>1, SortedLists
  <2> QED
    BY <2>2
<1>6. IsFiniteSet(D) /\ D \subseteq Int /\ Cardinality(D) = m /\ \A k \in D : order[k] \in S
  <2>1. IsFiniteSet(1..m) /\ Cardinality(1..m) = m
    BY <1>1, FS_Interval
  <2>2. 1..m \subseteq Int /\ \A k \in DOMAIN order : order[k] \in S
    BY <1>1, <1>5
  <2> HIDE DEF m
  <2>3. IsFiniteSet(D) /\ Cardinality(D) = m /\ D \subseteq Int
    BY <1>5, <2>1, <2>2
  <2> QED
    BY <2>2, <2>3
<1>7. ASSUME NEW v \in V, NEW t \in S
      PROVE  /\ PairUp(Q, S, v, t) \in V
             /\ Len(PairUp(Q, S, v, t).pairs) <= Len(v.pairs) + 1
             /\ Len(v.pairs) \in Nat
  <2> DEFINE free == Returns(Q, S, v.used, t)
             best == ByStart(Q, {u \in free : \A w \in free : Q.trips[u].st <= Q.trips[w].st})[1]
  <2>1. free \subseteq S
    BY DEF Returns
  <2>2. free # {} => best \in S
    <3> HIDE DEF free
    <3> QED
      BY <2>1, FirstFree
  <2>3. Len(v.pairs) \in Nat /\ v.pairs \in Seq(SUBSET S) /\ v.used \subseteq TripIds(P)
    OBVIOUS
  <2>4. ASSUME free # {}
        PROVE  /\ Append(v.pairs, {t, best}) \in Seq(SUBSET S)
               /\ Len(Append(v.pairs, {t, best})) = Len(v.pairs) + 1
               /\ v.used \cup {t, best} \in SUBSET TripIds(P)
    <3>1. {t, best} \in SUBSET S
      BY <2>2, <2>4
    <3> HIDE DEF best
    <3> QED
      BY <2>3, <3>1
  <2> HIDE DEF free, best
  <2>5. PairUp(Q, S, v, t) = IF t \in v.used \/ free = {} THEN v
        ELSE [used |-> v.used \cup {t, best},
              pairs |-> IF Q.trips[t].group = 0 /\ Q.trips[best].group = 0
                          THEN Append(v.pairs, {t, best}) ELSE v.pairs]
    BY DEF PairUp, free, best
  <2> QED
    BY <2>3, <2>4, <2>5
<1> HIDE DEF D
<1>8. \A v \in V, k \in D : After(v, k) \in V
  BY <1>6, <1>7
<1>9. start \in V
  OBVIOUS
<1>10. step \in [D \X V -> V]
  <2> HIDE DEF After, V
  <2> QED
    BY <1>8
<1>11. /\ \A s \in SUBSET D : s # {} => Max(s) \in s /\ Lower(s) = s \ {Max(s)} /\ Lower(s) \in SUBSET D
       /\ \E g \in [SUBSET D -> V] : FoldsBy(g, D, start, step)
  <2>1. IsFiniteSet(D) /\ D \subseteq Int
    BY <1>6
  <2> HIDE DEF step, V, start
  <2> QED
    BY ONLY <2>1, <1>9, <1>10, FoldsList
<1>12. PICK g \in [SUBSET D -> V] : FoldsBy(g, D, start, step)
  BY <1>11
<1>13. f = Once(f)
  <2> HIDE DEF V, start, After
  <2>1. ASSUME NEW s \in SUBSET D, s # {} PROVE step[<<Max(s), g[Lower(s)]>>] = After(g[Lower(s)], Max(s))
    <3>1. Max(s) \in D /\ g[Lower(s)] \in V
      BY <1>11, <1>12, <2>1
    <3> QED
      BY <3>1
  <2>2. \A s \in SUBSET D : g[s] = IF s = {} THEN start ELSE After(g[Lower(s)], Max(s))
    BY <1>12, <2>1 DEF FoldsBy
  <2>3. g = Once(g)
    BY <1>12, <2>2
  <2> QED
    BY <2>3
<1> HIDE DEF f
<1>14. <<{}, f[{}]>> \in G
  <2>1. f[{}] = start
    <3> HIDE DEF start, V, After
    <3> QED
      BY <1>13
  <2>2. Cardinality({}) = 0 /\ size(start) = 0
    BY FS_EmptySet
  <2> HIDE DEF start, V, size
  <2>3. <<{}, f[{}]>> \in (SUBSET D) \X V
    BY <1>9, <2>1
  <2>4. size(f[{}]) <= Cardinality({})
    BY <2>1, <2>2
  <2> QED
    BY <2>3, <2>4
<1>15. ASSUME NEW s \in SUBSET D, s # {}, <<Lower(s), f[Lower(s)]>> \in G PROVE <<s, f[s]>> \in G
  <2> DEFINE A == f[Lower(s)]
             t == order[Max(s)]
  <2>1. f[s] = PairUp(Q, S, A, t) /\ A \in V /\ t \in S
    <3>1. Max(s) \in D /\ t \in S
      BY <1>6, <1>11, <1>15
    <3>2. A \in V
      BY <1>15
    <3>3. f[s] = After(f[Lower(s)], Max(s))
      <4> HIDE DEF start, V, After
      <4> QED
        BY <1>13, <1>15
    <3> QED
      BY <3>1, <3>2, <3>3
  <2>2. Len(A.pairs) <= Cardinality(Lower(s))
    <3>1. size(A) <= Cardinality(Lower(s))
      <4> HIDE DEF size, V
      <4> QED
        BY <1>15
    <3> QED
      BY <3>1
  <2>3. IsFiniteSet(s) /\ Cardinality(s) = Cardinality(Lower(s)) + 1 /\ Cardinality(Lower(s)) \in Nat
    <3>1. IsFiniteSet(s) /\ IsFiniteSet(Lower(s)) /\ Max(s) \in s /\ Lower(s) = s \ {Max(s)}
      BY <1>6, <1>11, <1>15, FS_Subset
    <3>2. Cardinality(s \ {Max(s)}) = Cardinality(s) - 1
      BY <3>1, FS_RemoveElement
    <3> QED
      BY <3>1, <3>2, FS_CardinalityType
  <2>4. f[s] \in V /\ Len(f[s].pairs) <= Len(A.pairs) + 1 /\ Len(A.pairs) \in Nat /\ Len(f[s].pairs) \in Nat
    <3> HIDE DEF A, t
    <3>1. f[s] \in V /\ Len(f[s].pairs) <= Len(A.pairs) + 1 /\ Len(A.pairs) \in Nat
      BY <1>7, <2>1
    <3>2. \A v \in V : Len(v.pairs) \in Nat
      OBVIOUS
    <3> HIDE DEF V
    <3> QED
      BY <3>1, <3>2
  <2> HIDE DEF V, A
  <2> QED
    BY <2>2, <2>3, <2>4
<1>16. <<D, f[D]>> \in G
  <2>1. IsFiniteSet(D) /\ D \subseteq Int
    BY <1>6
  <2> HIDE DEF G
  <2> QED
    BY ONLY <2>1, <1>14, <1>15, FoldsKeep
<1>17. f[D].pairs \in Seq(SUBSET S) /\ Len(f[D].pairs) <= m
  BY <1>6, <1>16
<1>18. \A q \in Seq(SUBSET S) : IsList(q) /\ \A i \in DOMAIN q : q[i] \subseteq S
  <2> TAKE q \in Seq(SUBSET S)
  <2>1. q = [i \in 1..Len(q) |-> q[i]] /\ Len(q) \in Nat /\ \A i \in DOMAIN q : q[i] \subseteq S
    OBVIOUS
  <2> QED
    BY <2>1, MadeList
<1> QED
  BY <1>4, <1>17, <1>18

(* The groups of a run: pairs it found, or groups that were numbered.          *)
LEMMA FoundGroups ==
  ASSUME NEW P, IsRequest(P), NEW Q \in Like(P), NEW S \in SUBSET TripIds(P)
  PROVE  LET gs == GroupsFound(Q, S) IN
         /\ IsList(gs) /\ \A i \in DOMAIN gs : gs[i] \subseteq S
         /\ Len(gs) <= Cardinality(S) \/ \A i \in DOMAIN gs : AllNumbered(Q, gs[i])
<1> DEFINE E == Explicit(Q, S)
           bare == {u \in S : Q.trips[u].group # 0}
           mate(t) == {u \in S : /\ Q.trips[u].group = Q.trips[t].group
                                 /\ StrictGroups(Q, S) \/ Q.trips[u].line = Q.trips[t].line}
           mates == [t \in S |-> mate(t)]
           all == {mates[t] : t \in bare}
           gs == GroupsFound(Q, S)
<1>1. IsFiniteSet(S) /\ IsFiniteSet(bare) /\ TripIds(Q) = TripIds(P)
  BY LikeTyped, FS_Subset
<1>2. E = {g \in all : Cardinality(g) > 1}
  <2>1. E = {g \in {mate(t) : t \in bare} : Cardinality(g) > 1}
    BY DEF Explicit
  <2> HIDE DEF E, mate
  <2>2. \A t \in bare : mates[t] = mate(t)
    OBVIOUS
  <2> HIDE DEF mates, bare
  <2>3. all = {mate(t) : t \in bare}
    BY <2>2
  <2> QED
    BY <2>1, <2>3
<1>3. \A g \in E : g \subseteq S /\ AllNumbered(Q, g)
  <2>1. \A t \in bare : mates[t] \subseteq S /\ \A u \in mates[t] : Q.trips[u].group # 0
    OBVIOUS
  <2> HIDE DEF E, mates, bare
  <2> QED
    BY <1>2, <2>1 DEF AllNumbered, Num
<1>4. IsFiniteSet(E)
  <2>1. IsFiniteSet(all)
    <3> HIDE DEF mates, bare
    <3> QED
      BY <1>1, ImagesFinite
  <2> HIDE DEF all, E
  <2> QED
    BY <1>2, <2>1, FS_Subset
<1>5. gs = IF E = {} THEN PairsFound(Q, S) ELSE SetToSeq(E)
  BY DEF GroupsFound
<1> HIDE DEF E, gs
<1> DEFINE Right == /\ IsList(gs) /\ \A i \in DOMAIN gs : gs[i] \subseteq S
                    /\ Len(gs) <= Cardinality(S) \/ \A i \in DOMAIN gs : AllNumbered(Q, gs[i])
<1>6. ASSUME E = {} PROVE Right
  BY <1>5, <1>6, PairsIn
<1>7. ASSUME E # {} PROVE Right
  <2>1. IsList(gs) /\ Range(gs) \subseteq E
    BY <1>4, <1>5, <1>7, SetListed
  <2>2. \A i \in DOMAIN gs : gs[i] \in E
    BY <2>1 DEF Range
  <2> QED
    BY <1>3, <2>1, <2>2
<1> QED
  BY <1>6, <1>7 DEF gs

(* Groups all of whose trips have numbers change none.                         *)
LEMMA NumberedSame ==
  ASSUME NEW P, IsRequest(P), NEW Q \in Like(P), NEW R \in Like(P), OnlyNumbers(Q, R), NEW gs,
         \A t \in TripIds(P) : (\A i \in DOMAIN gs : t \notin gs[i]) => Num(R, t) = Num(Q, t),
         \A i \in DOMAIN gs : AllNumbered(Q, gs[i])
  PROVE  \A t \in TripIds(P) : Num(R, t) = Num(Q, t)
<1> TAKE t \in TripIds(P)
<1>1. TripIds(Q) = TripIds(P)
  BY LikeTyped
<1>2. CASE \A i \in DOMAIN gs : t \notin gs[i]
  BY <1>2
<1>3. CASE \E i \in DOMAIN gs : t \in gs[i]
  <2>1. Num(Q, t) # 0
    BY <1>1, <1>3 DEF AllNumbered
  <2> QED
    BY ONLY <1>1, <2>1, OnlyNumbers(Q, R), t \in TripIds(P) DEF OnlyNumbers
<1> QED
  BY <1>2, <1>3

(* What a run does to the numbers of the trips S it is given.                  *)
LEMMA RunNumbers ==
  ASSUME NEW P, IsRequest(P), NEW Q \in Like(P), NEW S \in SUBSET TripIds(P), NEW groups, IsList(groups)
  PROVE  LET R == Injected(Q, S, groups)
             gs == Mandatory(Q, S, groups) IN
         /\ R \in Like(P) /\ OnlyNumbers(Q, R)
         /\ IsList(gs) /\ \A i \in DOMAIN gs : AllNumbered(R, gs[i])
         /\ groups = <<>> =>
              /\ \A i \in DOMAIN gs : gs[i] \subseteq S
              /\ \A t \in TripIds(P) : t \notin S => Num(R, t) = Num(Q, t)
              /\ \A D : NumbersIn(Q, S, D) /\ (0 - Cardinality(S))..(-1) \subseteq D => NumbersIn(R, S, D)
<1> DEFINE R == Injected(Q, S, groups)
           gs == Mandatory(Q, S, groups)
           seed == IF groups # <<>> THEN 0 - 9000000 ELSE -1
           inferred == GroupsFound(Q, S)
<1>1. gs = IF groups # <<>> THEN groups ELSE IF HardPairing(Q, S) THEN inferred ELSE <<>>
  BY DEF Mandatory
<1>2. R = GroupsNumbered(Q, gs, seed) /\ seed \in Int /\ seed < 0
  BY DEF Injected
<1> HIDE DEF R, gs
<1>3. IsList(inferred) /\ \A i \in DOMAIN inferred : inferred[i] \subseteq S
  BY FoundGroups
<1>4. Len(inferred) <= Cardinality(S) \/ \A i \in DOMAIN inferred : AllNumbered(Q, inferred[i])
  BY FoundGroups
<1> HIDE DEF inferred
<1>5. IsList(<<>>) /\ DOMAIN <<>> = {}
  BY DEF IsList
<1>6. IsList(gs)
  BY <1>1, <1>3, <1>5
<1>7. /\ R \in Like(P) /\ OnlyNumbers(Q, R)
      /\ \A t \in TripIds(P) : (\A i \in DOMAIN gs : t \notin gs[i]) => Num(R, t) = Num(Q, t)
      /\ \A i \in DOMAIN gs : AllNumbered(R, gs[i])
      /\ \A T, D : (\A i \in DOMAIN gs : gs[i] \cap TripIds(P) \subseteq T /\ seed + 1 - i \in D) /\ NumbersIn(Q, T, D)
            => NumbersIn(R, T, D)
  <2> HIDE DEF seed
  <2> QED
    BY <1>2, <1>6, GroupsNumber
<1>8. ASSUME groups = <<>>
      PROVE  /\ \A i \in DOMAIN gs : gs[i] \subseteq S
             /\ \A t \in TripIds(P) : t \notin S => Num(R, t) = Num(Q, t)
             /\ \A D : NumbersIn(Q, S, D) /\ (0 - Cardinality(S))..(-1) \subseteq D => NumbersIn(R, S, D)
  <2>1. \A i \in DOMAIN gs : gs[i] \subseteq S
    BY <1>1, <1>3, <1>5, <1>8
  <2>2. \A t \in TripIds(P) : t \notin S => Num(R, t) = Num(Q, t)
    BY <1>7, <2>1
  <2>3. Cardinality(S) \in Nat /\ seed = -1
    BY <1>8, LikeTyped, FS_CardinalityType
  <2>4. Len(gs) \in Nat /\ DOMAIN gs = 1..Len(gs)
    BY <1>6, ListDomain
  <2>5. CASE Len(gs) <= Cardinality(S)
    <3>1. \A i \in DOMAIN gs : seed + 1 - i \in (0 - Cardinality(S))..(-1)
      BY <2>3, <2>4, <2>5
    <3>2. \A i \in DOMAIN gs : gs[i] \cap TripIds(P) \subseteq S
      BY <2>1
    <3> HIDE DEF seed
    <3>3. ASSUME NEW D, NumbersIn(Q, S, D), (0 - Cardinality(S))..(-1) \subseteq D PROVE NumbersIn(R, S, D)
      <4>1. \A i \in DOMAIN gs : gs[i] \cap TripIds(P) \subseteq S /\ seed + 1 - i \in D
        BY <3>1, <3>2, <3>3
      <4> QED
        BY ONLY <1>7, <3>3, <4>1
    <3> QED
      BY <2>1, <2>2, <3>3
  <2>6. CASE ~(Len(gs) <= Cardinality(S))
    <3>1. Len(<<>>) = 0 /\ gs # <<>>
      BY <2>3, <2>6
    <3>2. gs = inferred
      BY <1>1, <1>8, <3>1
    <3>3. \A i \in DOMAIN gs : AllNumbered(Q, gs[i])
      BY <1>4, <2>6, <3>2
    <3>4. TripIds(Q) = TripIds(P) /\ TripIds(R) = TripIds(P)
      BY <1>7, LikeTyped
    <3>5. \A t \in TripIds(P) : Num(R, t) = Num(Q, t)
      BY <1>7, <3>3, NumberedSame
    <3>6. \A D : NumbersIn(Q, S, D) => NumbersIn(R, S, D)
      BY <3>4, <3>5 DEF NumbersIn
    <3> QED
      BY <2>1, <2>2, <3>6
  <2> QED
    BY <2>5, <2>6
<1> QED
  BY <1>6, <1>7, <1>8 DEF R, gs

(* A request whose mandatory groups have numbers.                              *)
Settled(P) == IsRequest(P) /\ \A i \in DOMAIN P.prm.groups : AllNumbered(P, P.prm.groups[i])

LEMMA LikeRequest ==
  ASSUME NEW P, IsRequest(P), NEW Q \in Like(P)
  PROVE  IsRequest(Q)
<1>1. TripIds(P) = 1..Len(P.trips) /\ Len(P.trips) \in Nat
  BY RequestTyped
<1>2. Q.trips \in [TripIds(P) -> TripType] /\ Q = [trips |-> Q.trips, dead |-> Q.dead, prm |-> Q.prm] /\ Q.prm = P.prm
  BY DEF Like
<1> DEFINE n == Len(P.trips)
<1>3. n \in Nat /\ Q.trips \in [1..n -> TripType]
  BY <1>1, <1>2
<1> HIDE DEF n
<1>4. Q.trips \in Seq(TripType)
  <2> HIDE DEF TripType
  <2> QED
    BY <1>3
<1> QED
  BY <1>2, <1>4 DEF IsRequest, TripType

(* What is cut is settled.                                                     *)
LEMMA AskedSettled ==
  ASSUME NEW P, IsRequest(P)
  PROVE  Settled(Asked(P))
<1> DEFINE ids == TripIds(P)
           groups == P.prm.groups
           R == Injected(P, ids, groups)
           gs == Mandatory(P, ids, groups)
           kept == IF groups # <<>> \/ ~P.prm.hardGroups THEN groups ELSE GroupsFound(P, ids)
           A == [R EXCEPT !.prm = [@ EXCEPT !.groups = kept]]
<1>1. Asked(P) = A
  BY DEF Asked
<1>2. P \in Like(P) /\ groups \in Seq(SUBSET Int) /\ ids \subseteq Int
  <2>1. P \in Like(P) /\ ids = 1..Len(P.trips) /\ Len(P.trips) \in Nat
    BY RequestTyped
  <2>2. 1..Len(P.trips) \subseteq Int
    OBVIOUS
  <2> HIDE DEF ids
  <2> QED
    BY <2>1, <2>2 DEF IsRequest
<1>3. IsList(groups)
  BY <1>2 DEF IsList, Range
<1>4. R \in Like(P) /\ \A i \in DOMAIN gs : AllNumbered(R, gs[i])
  BY <1>2, <1>3, RunNumbers
<1>5. kept = gs \/ kept = <<>>
  BY DEF Mandatory, HardPairing
<1>6. \A i \in DOMAIN kept : AllNumbered(R, kept[i])
  <2>1. DOMAIN <<>> = {}
    OBVIOUS
  <2> HIDE DEF kept, gs, R
  <2> QED
    BY <1>4, <1>5, <2>1
<1>7. kept \in Seq(SUBSET Int)
  <2> DEFINE inferred == GroupsFound(P, ids)
  <2>1. IsList(inferred) /\ \A i \in DOMAIN inferred : inferred[i] \subseteq ids
    BY <1>2, FoundGroups
  <2> HIDE DEF inferred, ids, groups
  <2>2. inferred \in Seq(SUBSET Int)
    <3>1. \A x \in Range(inferred) : x \in SUBSET Int
      BY <1>2, <2>1 DEF Range
    <3> QED
      BY <2>1, <3>1, SeqMonotonic DEF IsList
  <2> QED
    BY <1>2, <2>2 DEF inferred
<1> HIDE DEF kept, R
<1>8. IsRequest(R) /\ R.prm = P.prm
  BY <1>4, LikeRequest DEF Like
<1>9. A.trips = R.trips /\ A.dead = R.dead /\ A.prm = [R.prm EXCEPT !.groups = kept]
      /\ A = [trips |-> A.trips, dead |-> A.dead, prm |-> A.prm]
  <2>1. R = [trips |-> R.trips, dead |-> R.dead, prm |-> R.prm]
    BY <1>8 DEF IsRequest
  <2>2. A = [trips |-> R.trips, dead |-> R.dead, prm |-> [R.prm EXCEPT !.groups = kept]]
    BY <2>1
  <2> HIDE DEF A
  <2> QED
    BY <2>2
<1>10. /\ A.prm.groups = kept /\ DOMAIN A.prm = DOMAIN R.prm /\ A.prm = [x \in DOMAIN A.prm |-> A.prm[x]]
       /\ A.prm.target = R.prm.target /\ A.prm.most = R.prm.most /\ A.prm.window = R.prm.window
      /\ A.prm.softSpan = R.prm.softSpan
  <2> DEFINE B == A.prm
  <2>1. B = [R.prm EXCEPT !.groups = kept] /\ R.prm = [x \in DOMAIN R.prm |-> R.prm[x]]
        /\ {"groups", "target", "most", "window", "softSpan"} \subseteq DOMAIN R.prm
    BY <1>8, <1>9 DEF IsRequest
  <2> HIDE DEF B
  <2> QED
    BY <2>1 DEF B
<1> HIDE DEF A
<1>11. IsRequest(A)
  BY <1>7, <1>8, <1>9, <1>10 DEF IsRequest
<1>12. \A T : AllNumbered(R, T) => AllNumbered(A, T)
  BY <1>9 DEF AllNumbered, Num, TripIds
<1> QED
  BY <1>1, <1>6, <1>10, <1>11, <1>12 DEF Settled

(* A run of a chunk gives numbers to trips of the chunk alone; they are new    *)
(* only if they are those of pairs.                                            *)
LEMMA RunKeeps ==
  ASSUME NEW P, Settled(P), NEW S \in SUBSET TripIds(P), NEW c \in Int
  PROVE  LET R == Run(P, S, c) IN
         /\ R \in Like(P) /\ OnlyNumbers(P, R) /\ Settled(R)
         /\ \A t \in TripIds(P) : t \notin S => Num(R, t) = Num(P, t)
         /\ \A D : NumbersIn(P, S, D) /\ (0 - Cardinality(S))..(-1) \subseteq D => NumbersIn(R, S, D)
<1> DEFINE groups == P.prm.groups
           I == {i \in DOMAIN groups : groups[i] \subseteq S}
           own == Inside(P, S)
           Q == Restricted(P, S, c)
           R == Run(P, S, c)
           seed == 0 - (10000000 + 100000 * (c - 1))
<1>1. IsRequest(P) /\ P \in Like(P) /\ OnlyNumbers(P, P)
  BY RequestTyped DEF Settled
<1>2. \A i \in DOMAIN groups : AllNumbered(P, groups[i])
  BY DEF Settled
<1>3. IsList(own) /\ \A k \in DOMAIN own : \E i \in I : own[k] = groups[i]
  <2>1. own = Picked(groups, I) /\ I \subseteq DOMAIN groups /\ groups \in Seq(SUBSET Int)
    BY <1>1 DEF Inside, IsRequest
  <2> HIDE DEF own, groups, I
  <2>2. PICK place \in [1..Cardinality(I) -> I] :
          own = [k \in 1..Cardinality(I) |-> groups[place[k]]] /\ Cardinality(I) \in Nat
    BY <2>1, PickedLists
  <2>3. own = [k \in 1..Cardinality(I) |-> own[k]]
    BY <2>2
  <2> QED
    BY <2>2, <2>3, MadeList
<1>4. \A k \in DOMAIN own : AllNumbered(P, own[k])
  <2> HIDE DEF own, groups
  <2> QED
    BY <1>2, <1>3
<1>5. Q = GroupsNumbered(P, own, seed) /\ R = Injected(Q, S, own) /\ seed \in Int
  BY DEF Run, Restricted
<1> HIDE DEF own, Q, R, seed, groups, I
<1>6. /\ Q \in Like(P) /\ OnlyNumbers(P, Q)
      /\ \A t \in TripIds(P) : (\A i \in DOMAIN own : t \notin own[i]) => Num(Q, t) = Num(P, t)
  BY <1>1, <1>3, <1>5, GroupsNumber
<1>7. \A t \in TripIds(P) : Num(Q, t) = Num(P, t)
  BY <1>1, <1>4, <1>6, NumberedSame
<1>8. TripIds(Q) = TripIds(P)
  BY <1>1, <1>6, LikeTyped
<1>9. \A D, T : (NumbersIn(Q, T, D) <=> NumbersIn(P, T, D)) /\ (AllNumbered(Q, T) <=> AllNumbered(P, T))
  BY <1>7, <1>8 DEF NumbersIn, AllNumbered
<1>10. R \in Like(P) /\ OnlyNumbers(Q, R)
  BY <1>1, <1>3, <1>5, <1>6, RunNumbers
<1>11. TripIds(R) = TripIds(P)
  BY <1>1, <1>10, LikeTyped
<1>12. OnlyNumbers(P, R) /\ \A T : AllNumbered(P, T) => AllNumbered(R, T)
  <2>1. OnlyNumbers(P, R) /\ \A T : AllNumbered(Q, T) => AllNumbered(R, T)
    BY <1>1, <1>6, <1>10, NumbersAgain
  <2> QED
    BY <1>9, <2>1
<1>13. Settled(R)
  <2>1. IsRequest(R) /\ R.prm = P.prm
    BY <1>1, <1>10, LikeRequest DEF Like
  <2> QED
    BY <1>2, <1>12, <2>1 DEF Settled, groups
<1>14. /\ \A t \in TripIds(P) : t \notin S => Num(R, t) = Num(P, t)
       /\ \A D : NumbersIn(P, S, D) /\ (0 - Cardinality(S))..(-1) \subseteq D => NumbersIn(R, S, D)
  <2>1. CASE own = <<>>
    <3>1. /\ \A t \in TripIds(P) : t \notin S => Num(R, t) = Num(Q, t)
          /\ \A D : NumbersIn(Q, S, D) /\ (0 - Cardinality(S))..(-1) \subseteq D => NumbersIn(R, S, D)
      BY <1>1, <1>3, <1>5, <1>6, <2>1, RunNumbers
    <3> QED
      BY <1>7, <1>9, <3>1
  <2>2. CASE own # <<>>
    <3>1. R = GroupsNumbered(Q, own, 0 - 9000000)
      BY <1>5, <2>2 DEF Injected, Mandatory
    <3>2. \A t \in TripIds(P) : (\A i \in DOMAIN own : t \notin own[i]) => Num(R, t) = Num(Q, t)
      BY <1>1, <1>3, <1>6, <3>1, GroupsNumber
    <3>3. \A t \in TripIds(P) : Num(R, t) = Num(Q, t)
      BY <1>1, <1>4, <1>6, <1>9, <1>10, <3>2, NumberedSame
    <3> QED
      BY <1>7, <1>11, <3>3 DEF NumbersIn
  <2> QED
    BY <2>1, <2>2
<1> QED
  BY <1>10, <1>12, <1>13, <1>14 DEF R

-------------------------------------------------------------------------------
(* The units of a request, and the order they are loaded in.                   *)

(* Keys of one length order what they tell apart.                              *)
ByKey(key, S) == {x \in S \X S : KeyBefore(key[x[1]], key[x[2]])}
LEMMA KeysRank ==
  ASSUME NEW n \in Nat, NEW S, NEW key \in [S -> [1..n -> Int]],
         \A p, q \in S : key[p] = key[q] => p = q
  PROVE  Orders(ByKey(key, S), S)
<1> DEFINE R == ByKey(key, S)
           lies(p, q, i) == key[p][i] < key[q][i] /\ \A j \in 1..i - 1 : key[p][j] = key[q][j]
           less(p, q) == \E i \in 1..n : lies(p, q, i)
<1>1. \A p \in S : DOMAIN key[p] = 1..n /\ \A i \in 1..n : key[p][i] \in Int
  OBVIOUS
<1>2. \A p, q \in S : <<p, q>> \in R <=> less(p, q)
  <2>1. \A p, q \in S : <<p, q>> \in R <=> KeyBefore(key[p], key[q])
    BY DEF ByKey
  <2>2. \A p, q \in S : KeyBefore(key[p], key[q]) <=> less(p, q)
    BY <1>1 DEF KeyBefore
  <2> HIDE DEF R, less
  <2> QED
    BY <2>1, <2>2
<1> HIDE DEF R
<1>3. \A p \in S : ~less(p, p)
  BY <1>1
<1>4. ASSUME NEW p \in S, NEW q \in S, p # q PROVE less(p, q) \/ less(q, p)
  <2> DEFINE apart == {i \in 1..n : key[p][i] # key[q][i]}
  <2>1. apart # {}
    <3>1. key[p] # key[q] /\ key[p] \in [1..n -> Int] /\ key[q] \in [1..n -> Int]
      BY <1>4
    <3>2. ASSUME apart = {} PROVE key[p] = key[q]
      <4>1. \A i \in 1..n : key[p][i] = key[q][i]
        BY <3>2
      <4> QED
        BY <3>1, <4>1
    <3> QED
      BY <3>1, <3>2
  <2>2. PICK i \in apart : \A j \in apart : i <= j
    <3>1. apart \subseteq Nat
      OBVIOUS
    <3> HIDE DEF apart
    <3> QED
      BY <2>1, <3>1, LowestIs
  <2>3. \A j \in 1..i - 1 : key[p][j] = key[q][j]
    <3> SUFFICES ASSUME NEW j \in 1..i - 1 PROVE key[p][j] = key[q][j]
      OBVIOUS
    <3>1. j \in 1..n /\ ~(i <= j)
      OBVIOUS
    <3> QED
      BY <2>2, <3>1
  <2>4. i \in 1..n /\ (key[p][i] < key[q][i] \/ key[q][i] < key[p][i])
    BY <1>1
  <2>5. lies(p, q, i) \/ lies(q, p, i)
    BY <2>3, <2>4
  <2> HIDE DEF lies
  <2> QED
    BY <2>4, <2>5
<1>5. ASSUME NEW p \in S, NEW q \in S, NEW r \in S, less(p, q), less(q, r) PROVE less(p, r)
  <2>1. PICK i \in 1..n : lies(p, q, i)
    BY <1>5
  <2>2. PICK k \in 1..n : lies(q, r, k)
    BY <1>5
  <2>3. \A l \in 1..n : key[p][l] \in Int /\ key[q][l] \in Int /\ key[r][l] \in Int
    BY <1>1
  <2>4. CASE i < k
    <3>1. i \in 1..(k - 1) /\ \A j \in 1..(i - 1) : j \in 1..(k - 1)
      BY <2>4
    <3> QED
      BY <2>1, <2>2, <3>1
  <2>5. CASE k < i
    <3>1. k \in 1..(i - 1) /\ \A j \in 1..(k - 1) : j \in 1..(i - 1)
      BY <2>5
    <3>2. lies(p, r, k)
      BY <2>1, <2>2, <3>1
    <3> HIDE DEF lies
    <3> QED
      BY <3>2
  <2>6. CASE i = k
    <3>1. lies(p, r, i)
      BY <2>1, <2>2, <2>3, <2>6
    <3> HIDE DEF lies
    <3> QED
      BY <3>1
  <2>7. i \in Int /\ k \in Int
    OBVIOUS
  <2> QED
    BY <2>4, <2>5, <2>6, <2>7
<1> HIDE DEF less
<1>6. Orders(R, S)
  BY <1>2, <1>3, <1>4, <1>5 DEF Orders
<1> QED
  BY <1>6 DEF R

(* Every trip is in one unit: its group, or itself.                            *)
LEMMA UnitsSplit ==
  ASSUME NEW P, IsRequest(P)
  PROVE  /\ IsFiniteSet(Units(P)) /\ UNION Units(P) = TripIds(P)
         /\ \A u \in Units(P) : u # {} /\ u \subseteq TripIds(P) /\ IsFiniteSet(u)
         /\ \A u, w \in Units(P) : u = w \/ u \cap w = {}
         /\ \A u \in Units(P) : \A t \in u : u = IF Num(P, t) = 0 THEN {t} ELSE GroupOf(P, t)
<1> DEFINE ids == TripIds(P)
           unit == [t \in ids |-> IF Num(P, t) = 0 THEN {t} ELSE GroupOf(P, t)]
           U == Units(P)
<1>1. U = {unit[t] : t \in ids}
  BY DEF Units, Num
<1>2. IsFiniteSet(ids)
  BY RequestTyped
<1>3. IsFiniteSet(U)
  <2> HIDE DEF unit, ids, U
  <2> QED
    BY <1>1, <1>2, ImagesFinite
<1>4. \A t \in ids : t \in unit[t] /\ unit[t] \subseteq ids /\ \A v \in unit[t] : unit[v] = unit[t]
  BY DEF GroupOf, Num
<1>5. \A t \in ids : unit[t] = IF Num(P, t) = 0 THEN {t} ELSE GroupOf(P, t)
  OBVIOUS
<1> HIDE DEF unit, U
<1>6. \A u \in U : u # {} /\ u \subseteq ids /\ IsFiniteSet(u)
  BY <1>1, <1>2, <1>4, FS_Subset
<1>7. \A u \in U : \A t \in u : u = unit[t]
  BY <1>1, <1>4
<1>8. UNION U = ids
  BY <1>1, <1>4
<1>9. \A u, w \in U : u = w \/ u \cap w = {}
  BY <1>7
<1>10. \A u \in U : \A t \in u : u = IF Num(P, t) = 0 THEN {t} ELSE GroupOf(P, t)
  BY <1>5, <1>6, <1>7
<1> QED
  BY <1>3, <1>6, <1>8, <1>9, <1>10 DEF U

(* A unit's key is seven numbers, the last its last trip.                      *)
LEMMA FullKeys ==
  ASSUME NEW P, IsRequest(P), NEW u \in Units(P)
  PROVE  FullKey(P, u) \in [1..7 -> Int] /\ FullKey(P, u)[7] \in u
<1> DEFINE order == ByStart(P, u)
           f == [i \in DOMAIN order |-> 0 - Cardinality({t \in u : P.trips[t].line = P.trips[order[i]].line})]
           best == CHOOSE i \in DOMAIN order : \A j \in DOMAIN order : f[i] < f[j] \/ (f[i] = f[j] /\ i <= j)
           last == CHOOSE t \in u : \A w \in u : t <= w
<1>1. u # {} /\ u \subseteq TripIds(P) /\ IsFiniteSet(u)
  BY UnitsSplit
<1>2. P \in Like(P) /\ u \subseteq Nat
  BY <1>1, RequestTyped, LikeTyped
<1>3. order \in Seq(u) /\ Range(order) = u /\ order[1] \in u
  BY <1>1, <1>2, ByStartOnce
<1>4. \A t \in TripIds(P) : /\ P.trips[t].st \in Int /\ P.trips[t].line \in Int
                            /\ P.trips[t].from \in Int /\ P.trips[t].to \in Int
  BY <1>2, LikeTyped
<1>5. LineOf(P, u) = P.trips[order[best]].line
  <2> DEFINE n(i) == 0 - Cardinality({t \in u : P.trips[t].line = P.trips[order[i]].line})
             direct == CHOOSE i \in DOMAIN order : \A j \in DOMAIN order : n(i) < n(j) \/ (n(i) = n(j) /\ i <= j)
  <2>1. \A i \in DOMAIN order : f[i] = n(i)
    OBVIOUS
  <2>2. LineOf(P, u) = P.trips[order[direct]].line
    BY DEF LineOf, FirstLeast
  <2> HIDE DEF f, n, order
  <2>3. best = direct
    BY <2>1
  <2> QED
    BY <2>2, <2>3
<1>6. best \in DOMAIN order
  <2>1. \A i \in DOMAIN order : f[i] \in Int
    <3> SUFFICES ASSUME NEW i \in DOMAIN order PROVE f[i] \in Int
      OBVIOUS
    <3>1. IsFiniteSet({t \in u : P.trips[t].line = P.trips[order[i]].line})
      BY <1>1, FS_Subset
    <3>2. Cardinality({t \in u : P.trips[t].line = P.trips[order[i]].line}) \in Nat
      BY <3>1, FS_CardinalityType
    <3> QED
      BY <3>2
  <2>2. IsFiniteSet(DOMAIN order) /\ DOMAIN order # {} /\ DOMAIN order \subseteq Int
    <3>1. DOMAIN order = 1..Len(order) /\ Len(order) \in Nat
      BY <1>3
    <3>2. DOMAIN order # {}
      BY <1>1, <1>3 DEF Range
    <3>3. IsFiniteSet(DOMAIN order)
      <4> DEFINE m == Len(order)
      <4>1. m \in Nat /\ DOMAIN order = 1..m
        BY <3>1
      <4> HIDE DEF m, order
      <4> QED
        BY <4>1, FS_Interval
    <3> HIDE DEF order
    <3> QED
      BY <3>1, <3>2, <3>3
  <2>3. IntsOn(f, DOMAIN order)
    <3> HIDE DEF f
    <3> QED
      BY <2>1 DEF IntsOn
  <2> HIDE DEF f, order
  <2>4. \E i \in DOMAIN order : \A j \in DOMAIN order : f[i] < f[j] \/ (f[i] = f[j] /\ i <= j)
    BY <2>2, <2>3, LeastExists
  <2> QED
    BY <2>4
<1>7. order[best] \in u
  <2> HIDE DEF order, best
  <2> QED
    BY <1>3, <1>6
<1> HIDE DEF best, order
<1>8. LineOf(P, u) \in Int
  BY <1>1, <1>4, <1>5, <1>7
<1>9. last \in u
  BY <1>1, <1>2, LowestIs
<1> DEFINE first == P.trips[order[1]]
<1>10. first.st \in Int /\ first.from \in Int /\ first.to \in Int
  BY <1>1, <1>3, <1>4
<1>11. Max2(60, P.prm.window) \in Nat \ {0}
  BY DEF IsRequest, Max2
<1> DEFINE wide == Max2(60, P.prm.window)
           line == LineOf(P, u)
<1> HIDE DEF last, line, wide, first
<1> DEFINE day == first.st \div 1440
           slot == first.st \div wide
           front == <<line, day, slot, first.from, first.to>>
           back == <<first.st, last>>
<1>12. FullKey(P, u) = front \o back
  BY DEF FullKey, UnitKey, first, order, wide, line, last
<1>13. day \in Int /\ slot \in Int
  BY <1>10, <1>11 DEF wide
<1>14. last \in Int /\ line \in Int
  BY <1>2, <1>8, <1>9 DEF line
<1> HIDE DEF day, slot
<1>15. front \in Seq(Int) /\ Len(front) = 5 /\ back \in Seq(Int) /\ Len(back) = 2 /\ back[2] = last
  BY <1>10, <1>13, <1>14
<1> DEFINE key == front \o back
<1> HIDE DEF front, back
<1>16. key \in Seq(Int) /\ Len(key) = 7 /\ key[7] = last
  <2>1. /\ key \in Seq(Int) /\ Len(key) = Len(front) + Len(back)
        /\ \A i \in 1..Len(front) + Len(back) : key[i] = IF i <= Len(front) THEN front[i] ELSE back[i - Len(front)]
    BY <1>15, ConcatProperties
  <2> HIDE DEF key
  <2>2. Len(front) + Len(back) = 7 /\ 7 \in 1..7 /\ ~(7 <= Len(front)) /\ 7 - Len(front) = 2
    BY <1>15
  <2>3. key[7] = back[2]
    BY <2>1, <2>2
  <2> QED
    BY <1>15, <2>1, <2>2, <2>3
<1> HIDE DEF key
<1>17. key \in [1..7 -> Int]
  <2>1. \A s \in Seq(Int) : s \in [1..Len(s) -> Int]
    OBVIOUS
  <2> QED
    BY <1>16, <2>1
<1> QED
  BY <1>9, <1>12, <1>16, <1>17 DEF last, key

(* The units are loaded once each.                                             *)
LEMMA UnitsOrdered ==
  ASSUME NEW P, IsRequest(P)
  PROVE  LET s == UnitOrder(P) IN s \in Seq(Units(P)) /\ Range(s) = Units(P) /\ IsInjective(s)
<1> DEFINE U == Units(P)
           key == [u \in U |-> FullKey(P, u)]
           before(u, w) == KeyBefore(FullKey(P, u), FullKey(P, w))
           R == ByKey(key, U)
           m == Cardinality(U)
           nth(i) == CHOOSE x \in U : Rank(R, U, x) = i - 1
           direct(i) == CHOOSE x \in U : Cardinality({y \in U : before(y, x)}) = i - 1
           s == UnitOrder(P)
<1>1. IsFiniteSet(U) /\ \A u, w \in U : u = w \/ u \cap w = {}
  BY UnitsSplit
<1>2. \A u \in U : key[u] \in [1..7 -> Int] /\ key[u][7] \in u
  BY FullKeys
<1>3. key \in [U -> [1..7 -> Int]]
  <2>1. key = [u \in U |-> key[u]]
    OBVIOUS
  <2> HIDE DEF key
  <2> QED
    BY <1>2, <2>1
<1>4. Orders(R, U)
  <2>1. \A p, q \in U : key[p] = key[q] => p = q
    <3> HIDE DEF key
    <3> QED
      BY <1>1, <1>2
  <2> HIDE DEF key, U
  <2> QED
    BY <1>3, <2>1, KeysRank
<1>5. s = [i \in 1..m |-> nth(i)]
  <2>1. \A x, y \in U : <<y, x>> \in R <=> before(y, x)
    <3> HIDE DEF before
    <3>1. \A x, y \in U : KeyBefore(key[y], key[x]) <=> before(y, x)
      BY DEF before
    <3> HIDE DEF key
    <3> QED
      BY <3>1 DEF ByKey
  <2> HIDE DEF R, before
  <2>2. \A x \in U : Rank(R, U, x) = Cardinality({y \in U : before(y, x)})
    <3>1. \A x \in U : {y \in U : <<y, x>> \in R} = {y \in U : before(y, x)}
      BY <2>1
    <3> QED
      BY <3>1 DEF Rank
  <2>3. \A i : direct(i) = nth(i)
    <3> HIDE DEF U
    <3> QED
      BY <2>2
  <2>4. s = [i \in 1..m |-> direct(i)]
    BY DEF UnitOrder, Sorted, before
  <2> HIDE DEF direct, nth, s, m
  <2> QED
    BY <2>3, <2>4
<1> HIDE DEF s, R, U
<1>6. s = [i \in 1..Cardinality(U) |-> CHOOSE x \in U : Rank(R, U, x) = i - 1]
  BY <1>5
<1>7. s \in Seq(U) /\ Range(s) = U /\ IsInjective(s)
  BY ONLY <1>1, <1>4, <1>6, SortedLists
<1> QED
  BY <1>7 DEF s, U

-------------------------------------------------------------------------------
(* Loading the units.                                                          *)

Cargo(P) == [trips : SUBSET TripIds(P), groups : SUBSET Int]
Loads(P) == [out : Seq(Cargo(P)), cur : SUBSET TripIds(P), key : {<<>>} \cup {UnitKey(P, u) : u \in Units(P)}]

Whole(P, X) == \A u \in Units(P) : u \subseteq X \/ u \cap X = {}
InLimit(P, X) == Cardinality(X) <= Most(P) \/ X \in Units(P)

(* The trips of W are loaded, each once and with the rest of its unit.         *)
Packed(P, W, out, cur) ==
  /\ \A t : t \in W <=> t \in cur \/ \E i \in DOMAIN out : t \in out[i].trips
  /\ \A i \in DOMAIN out :
       /\ out[i] = ChunkOf(P, out[i].trips)
       /\ Whole(P, out[i].trips) /\ InLimit(P, out[i].trips) /\ out[i].trips \cap cur = {}
       /\ \A j \in DOMAIN out : i # j => out[i].trips \cap out[j].trips = {}
  /\ Whole(P, cur) /\ InLimit(P, cur)

LEMMA MostPositive ==
  ASSUME NEW P, IsRequest(P)
  PROVE  Most(P) \in Nat \ {0} /\ Whole(P, {}) /\ InLimit(P, {})
<1>1. Most(P) \in Nat \ {0}
  BY DEF IsRequest, Most, Max2
<1>2. Cardinality({}) = 0
  BY FS_EmptySet
<1> QED
  BY <1>1, <1>2 DEF Whole, InLimit

LEMMA FlushPacks ==
  ASSUME NEW P, IsRequest(P), NEW W, NEW acc \in Loads(P), Packed(P, W, acc.out, acc.cur)
  PROVE  LET new == Flush(P, acc) IN
         new \in Loads(P) /\ Packed(P, W, new.out, new.cur) /\ new.cur = {}
<1> DEFINE new == Flush(P, acc)
           load == ChunkOf(P, acc.cur)
           out == Append(acc.out, load)
<1>1. CASE acc.cur = {}
  <2>1. new = acc
    BY <1>1 DEF Flush
  <2> QED
    BY <1>1, <2>1
<1>2. CASE acc.cur # {}
  <2>1. new = [out |-> out, cur |-> {}, key |-> <<>>]
    BY <1>2 DEF Flush
  <2>2. acc.out \in Seq(Cargo(P)) /\ acc.cur \subseteq TripIds(P)
    BY DEF Loads
  <2>3. load \in Cargo(P) /\ load.trips = acc.cur
    <3>1. \A t \in acc.cur : P.trips[t].group \in Int
      BY <2>2, RequestTyped, LikeTyped DEF Num
    <3> QED
      BY <2>2, <3>1 DEF ChunkOf, Cargo
  <2>4. load = ChunkOf(P, acc.cur)
    OBVIOUS
  <2> HIDE DEF load
  <2>5. /\ out \in Seq(Cargo(P)) /\ DOMAIN acc.out = 1..Len(acc.out) /\ Len(acc.out) \in Nat
        /\ DOMAIN out = 1..Len(acc.out) + 1 /\ out[Len(acc.out) + 1] = load
        /\ \A i \in DOMAIN acc.out : out[i] = acc.out[i]
    BY <2>2, <2>3
  <2> HIDE DEF out, new
  <2>6. new \in Loads(P) /\ new.out = out /\ new.cur = {}
    BY <2>1, <2>5 DEF Loads
  <2> DEFINE n == Len(acc.out) + 1
  <2>7. /\ n \in DOMAIN out /\ out[n] = load
        /\ \A i \in DOMAIN out : (i = n \/ (i \in DOMAIN acc.out /\ out[i] = acc.out[i]))
        /\ DOMAIN acc.out \subseteq DOMAIN out /\ n \notin DOMAIN acc.out
    BY <2>5
  <2> HIDE DEF n
  <2>8. Packed(P, W, out, {})
    <3> USE DEF Packed
    <3>1. \A t : t \in W <=> \E i \in DOMAIN out : t \in out[i].trips
      BY <2>3, <2>5, <2>7
    <3>2. \A i \in DOMAIN out :
            /\ out[i] = ChunkOf(P, out[i].trips) /\ Whole(P, out[i].trips) /\ InLimit(P, out[i].trips)
            /\ \A j \in DOMAIN out : i # j => out[i].trips \cap out[j].trips = {}
      BY <2>3, <2>4, <2>7
    <3> QED
      BY <3>1, <3>2, MostPositive
  <2> QED
    BY <2>6, <2>8 DEF new
<1> QED
  BY <1>1, <1>2

LEMMA LoadPacks ==
  ASSUME NEW P, IsRequest(P), NEW W, NEW acc \in Loads(P), Packed(P, W, acc.out, acc.cur),
         NEW u \in Units(P), u \cap W = {},
         acc.cur = {} \/ Cardinality(acc.cur) + Cardinality(u) <= Most(P)
  PROVE  LET new == Loaded(acc, u, UnitKey(P, u)) IN
         new \in Loads(P) /\ Packed(P, W \cup u, new.out, new.cur)
<1> DEFINE new == Loaded(acc, u, UnitKey(P, u))
           cur == acc.cur \cup u
<1>1. u \subseteq TripIds(P) /\ IsFiniteSet(u) /\ \A w \in Units(P) : w = u \/ w \cap u = {}
  BY UnitsSplit
<1>2. acc.cur \subseteq TripIds(P) /\ acc.out \in Seq(Cargo(P))
  BY DEF Loads
<1>3. new \in Loads(P) /\ new.out = acc.out /\ new.cur = cur
  BY <1>1 DEF Loaded, Loads
<1> HIDE DEF new
<1>4. Whole(P, cur)
  BY <1>1 DEF Whole, Packed
<1>5. InLimit(P, cur)
  <2>1. CASE acc.cur = {}
    BY <2>1 DEF InLimit
  <2>2. CASE Cardinality(acc.cur) + Cardinality(u) <= Most(P)
    <3>1. IsFiniteSet(acc.cur)
      BY <1>2, RequestTyped, FS_Subset
    <3>2. acc.cur \cap u = {}
      BY DEF Packed
    <3>3. /\ Cardinality(cur) = Cardinality(acc.cur) + Cardinality(u) - Cardinality(acc.cur \cap u)
          /\ Cardinality(acc.cur) \in Nat /\ Cardinality(u) \in Nat
      BY <1>1, <3>1, FS_Union, FS_CardinalityType
    <3>4. Cardinality(acc.cur \cap u) = 0
      BY <3>2, FS_EmptySet
    <3> HIDE DEF cur
    <3> QED
      BY <2>2, <3>3, <3>4 DEF InLimit
  <2> QED
    BY <2>1, <2>2
<1>6. \A t : t \in W \cup u <=> t \in cur \/ \E i \in DOMAIN acc.out : t \in acc.out[i].trips
  BY DEF Packed
<1>7. \A i \in DOMAIN acc.out : acc.out[i].trips \cap cur = {}
  BY DEF Packed
<1> HIDE DEF cur
<1>8. Packed(P, W \cup u, acc.out, cur)
  BY <1>4, <1>5, <1>6, <1>7 DEF Packed
<1> QED
  BY <1>3, <1>8 DEF new

(* A unit is loaded.                                                           *)
LEMMA UnitPacks ==
  ASSUME NEW P, IsRequest(P), NEW W, NEW acc \in Loads(P), Packed(P, W, acc.out, acc.cur),
         NEW u \in Units(P), u \cap W = {}
  PROVE  LET new == AddUnit(P, acc, u) IN
         new \in Loads(P) /\ Packed(P, W \cup u, new.out, new.cur)
<1> DEFINE key == UnitKey(P, u)
           flushed == Flush(P, acc)
           room == Room(P, acc, u, key)
<1>1. flushed \in Loads(P) /\ Packed(P, W, flushed.out, flushed.cur) /\ flushed.cur = {}
  BY FlushPacks
<1>2. CASE Cardinality(u) > Most(P)
  <2>1. AddUnit(P, acc, u) = Flush(P, Loaded(flushed, u, key))
    BY <1>2 DEF AddUnit
  <2> HIDE DEF flushed
  <2>2. Loaded(flushed, u, key) \in Loads(P)
        /\ Packed(P, W \cup u, Loaded(flushed, u, key).out, Loaded(flushed, u, key).cur)
    BY <1>1, LoadPacks
  <2> QED
    BY <2>1, <2>2, FlushPacks
<1>3. CASE ~(Cardinality(u) > Most(P))
  <2>1. AddUnit(P, acc, u) = Loaded(room, u, key)
    BY <1>3 DEF AddUnit
  <2>2. IsFiniteSet(u) /\ IsFiniteSet(acc.cur)
    <3>1. acc.cur \subseteq TripIds(P)
      BY DEF Loads
    <3> QED
      BY <3>1, UnitsSplit, RequestTyped, FS_Subset
  <2>3. Cardinality(u) \in Nat /\ Cardinality(acc.cur) \in Nat /\ Most(P) \in Int
    BY <2>2, MostPositive, FS_CardinalityType
  <2>4. room = flushed \/ (room = acc /\ Cardinality(acc.cur) + Cardinality(u) <= Most(P))
    BY <2>3 DEF Room
  <2> HIDE DEF flushed, room
  <2>5. /\ room \in Loads(P) /\ Packed(P, W, room.out, room.cur)
        /\ room.cur = {} \/ Cardinality(room.cur) + Cardinality(u) <= Most(P)
    BY <1>1, <2>4
  <2> QED
    BY <2>1, <2>5, LoadPacks
<1> QED
  BY <1>2, <1>3

(* The chunks of a request.                                                    *)
LEMMA Partitioned ==
  ASSUME NEW P, IsRequest(P)
  PROVE  LET cs == Partition(P) IN cs \in Seq(Cargo(P)) /\ Packed(P, TripIds(P), cs, {})
<1> DEFINE s == UnitOrder(P)
           D == DOMAIN s
           V == Loads(P)
           After(v, k) == AddUnit(P, v, s[k])
           Once(g) == [T \in SUBSET D |-> IF T = {} THEN NoChunk ELSE After(g[Lower(T)], Max(T))]
           step == [x \in D \X V |-> AddUnit(P, x[2], s[x[1]])]
           f == CHOOSE h : h = Once(h)
           seen(T) == UNION {s[k] : k \in T}
           Good(T, v) == v \in V /\ Packed(P, seen(T), v.out, v.cur)
           G == {x \in (SUBSET D) \X V : Good(x[1], x[2])}
<1>1. Partition(P) = Flush(P, f[D]).out
  BY DEF Partition, FoldLeft, MapThenFoldSet, Lower
<1>2. s \in Seq(Units(P)) /\ Range(s) = Units(P) /\ IsInjective(s)
  BY UnitsOrdered
<1> HIDE DEF s
<1>3. IsFiniteSet(D) /\ D \subseteq Int /\ \A k \in D : s[k] \in Units(P)
  <2>1. IsList(s)
    BY <1>2 DEF IsList
  <2>2. IsFiniteSet(D) /\ D = 1..Len(s) /\ Len(s) \in Nat
    BY <2>1, ListDomain
  <2> QED
    BY <1>2, <2>2
<1>4. \A k, l \in D : k # l => s[k] \cap s[l] = {}
  BY <1>2, <1>3, UnitsSplit DEF IsInjective
<1>5. seen(D) = TripIds(P)
  <2>1. seen(D) = UNION Range(s)
    BY DEF Range
  <2> QED
    BY <1>2, <2>1, UnitsSplit
<1> HIDE DEF D
<1>6. NoChunk \in V /\ Good({}, NoChunk)
  <2>1. NoChunk \in V /\ NoChunk.out = <<>> /\ NoChunk.cur = {}
    BY DEF NoChunk, Loads
  <2>2. DOMAIN <<>> = {} /\ seen({}) = {}
    OBVIOUS
  <2>3. Packed(P, {}, <<>>, {})
    BY <2>2, MostPositive DEF Packed
  <2> QED
    BY <2>1, <2>2, <2>3
<1>7. ASSUME NEW v \in V, NEW k \in D PROVE After(v, k) \in V
  <2>1. AddUnit(P, v, s[k]) \in V
    <3>1. \A a \in V : Flush(P, a) \in V
      <4> TAKE a \in V
      <4>1. a.out \in Seq(Cargo(P)) /\ a.cur \subseteq TripIds(P)
        BY DEF Loads
      <4>2. ChunkOf(P, a.cur) \in Cargo(P)
        <5>1. \A t \in a.cur : P.trips[t].group \in Int
          BY <4>1, RequestTyped, LikeTyped DEF Num
        <5> QED
          BY <4>1, <5>1 DEF ChunkOf, Cargo
      <4>3. Append(a.out, ChunkOf(P, a.cur)) \in Seq(Cargo(P))
        BY <4>1, <4>2
      <4> QED
        BY <4>3 DEF Flush, Loads
    <3>2. \A a \in V, u \in Units(P) : Loaded(a, u, UnitKey(P, u)) \in V
      <4>1. \A u \in Units(P) : u \subseteq TripIds(P)
        BY UnitsSplit
      <4> QED
        BY <4>1 DEF Loaded, Loads
    <3> HIDE DEF V
    <3>3. \A a \in V, u \in Units(P) : Room(P, a, u, UnitKey(P, u)) \in V
      BY <3>1 DEF Room
    <3>4. s[k] \in Units(P)
      BY <1>3
    <3> QED
      BY <3>1, <3>2, <3>3, <3>4 DEF AddUnit
  <2> QED
    BY <2>1
<1>8. step \in [D \X V -> V]
  <2>1. \A x \in D \X V : AddUnit(P, x[2], s[x[1]]) \in V
    BY <1>7
  <2> QED
    BY <2>1
<1>9. /\ \A T \in SUBSET D : T # {} => Max(T) \in T /\ Lower(T) = T \ {Max(T)} /\ Lower(T) \in SUBSET D
      /\ \E g \in [SUBSET D -> V] : FoldsBy(g, D, NoChunk, step)
  <2>1. IsFiniteSet(D) /\ D \subseteq Int
    BY <1>3
  <2>2. NoChunk \in V
    BY <1>6
  <2> HIDE DEF step, V
  <2> QED
    BY ONLY <2>1, <2>2, <1>8, FoldsList
<1>10. PICK g \in [SUBSET D -> V] : FoldsBy(g, D, NoChunk, step)
  BY <1>9
<1>11. f = Once(f)
  <2> HIDE DEF V
  <2>1. ASSUME NEW T \in SUBSET D, T # {} PROVE step[<<Max(T), g[Lower(T)]>>] = After(g[Lower(T)], Max(T))
    <3>1. Max(T) \in D /\ g[Lower(T)] \in V
      BY <1>9, <1>10, <2>1
    <3> QED
      BY <3>1
  <2> HIDE DEF After
  <2>2. \A T \in SUBSET D : g[T] = IF T = {} THEN NoChunk ELSE After(g[Lower(T)], Max(T))
    BY <1>10, <2>1 DEF FoldsBy
  <2>3. g = Once(g)
    BY <1>10, <2>2
  <2> QED
    BY <2>3
<1> HIDE DEF f
<1>12. <<{}, f[{}]>> \in G
  <2>1. f[{}] = NoChunk
    <3> HIDE DEF V, After
    <3> QED
      BY <1>11
  <2> HIDE DEF Good, V
  <2> QED
    BY <1>6, <2>1
<1>13. ASSUME NEW T \in SUBSET D, T # {}, <<Lower(T), f[Lower(T)]>> \in G PROVE <<T, f[T]>> \in G
  <2> DEFINE A == f[Lower(T)]
             k == Max(T)
  <2>1. k \in T /\ k \in D /\ Lower(T) = T \ {k}
    BY <1>9, <1>13
  <2>2. Good(Lower(T), A)
    <3> HIDE DEF Good, V
    <3> QED
      BY <1>13
  <2>3. f[T] = AddUnit(P, A, s[k])
    <3>1. f[T] = After(f[Lower(T)], Max(T))
      <4> HIDE DEF V, After
      <4> QED
        BY <1>11, <1>13
    <3> QED
      BY <3>1
  <2> HIDE DEF A, k
  <2>4. seen(T) = seen(Lower(T)) \cup s[k] /\ s[k] \cap seen(Lower(T)) = {}
    BY <1>4, <2>1
  <2> HIDE DEF seen
  <2> DEFINE W == seen(Lower(T))
             B == AddUnit(P, A, s[k])
  <2>5. Good(T, f[T])
    <3>1. A \in Loads(P) /\ Packed(P, W, A.out, A.cur) /\ s[k] \in Units(P) /\ s[k] \cap W = {}
      BY <1>3, <2>1, <2>2, <2>4
    <3> HIDE DEF W
    <3>2. B \in Loads(P) /\ Packed(P, W \cup s[k], B.out, B.cur)
      BY <3>1, UnitPacks
    <3> HIDE DEF B
    <3>3. f[T] = B /\ seen(T) = W \cup s[k]
      BY <2>3, <2>4 DEF W, B
    <3> QED
      BY <3>2, <3>3
  <2>6. f[T] \in V
    BY <2>5
  <2> HIDE DEF Good, V
  <2> QED
    BY <2>5, <2>6
<1>14. <<D, f[D]>> \in G
  <2>1. IsFiniteSet(D) /\ D \subseteq Int
    BY <1>3
  <2> HIDE DEF G
  <2> QED
    BY ONLY <2>1, <1>12, <1>13, FoldsKeep
<1>15. f[D] \in Loads(P) /\ Packed(P, TripIds(P), f[D].out, f[D].cur)
  <2>1. Good(D, f[D])
    <3> HIDE DEF Good, V
    <3> QED
      BY <1>14
  <2> QED
    BY <1>5, <2>1
<1>16. /\ Flush(P, f[D]) \in Loads(P) /\ Flush(P, f[D]).cur = {}
       /\ Packed(P, TripIds(P), Flush(P, f[D]).out, Flush(P, f[D]).cur)
  BY <1>15, FlushPacks
<1> QED
  BY <1>1, <1>16 DEF Loads

-------------------------------------------------------------------------------
(* The chunks while they are solved.                                           *)

(* The chunks cs have every trip of the request once, and share no group.      *)
Divides(P, cs) ==
  /\ cs \in Seq(Cargo(P))
  /\ \A t \in TripIds(P) : \E i \in DOMAIN cs : t \in cs[i].trips
  /\ \A i \in DOMAIN cs : 0 \notin cs[i].groups
  /\ \A i, j \in DOMAIN cs : i # j => cs[i].trips \cap cs[j].trips = {} /\ cs[i].groups \cap cs[j].groups = {}

(* The numbers of a chunk's trips are its groups, and those of the pairs that  *)
(* its run finds; if it has more trips than the limit, it is one group.        *)
Keeps(P, c, begun) ==
  /\ \A t \in c.trips : \/ Num(P, t) \in {0} \cup c.groups
                        \/ begun /\ Num(P, t) \in (0 - Len(P.trips))..(-1)
  /\ Cardinality(c.trips) <= Most(P) \/ \E n \in c.groups : \A t \in c.trips : Num(P, t) = n

LEMMA CutKeeps ==
  ASSUME NEW P, IsRequest(P)
  PROVE  LET cs == Partition(P) IN Divides(P, cs) /\ \A i \in DOMAIN cs : Keeps(P, cs[i], FALSE)
<1> DEFINE cs == Partition(P)
<1>1. cs \in Seq(Cargo(P)) /\ Packed(P, TripIds(P), cs, {})
  BY Partitioned
<1> HIDE DEF cs
<1>2. ASSUME NEW i \in DOMAIN cs
      PROVE  /\ cs[i].trips \subseteq TripIds(P) /\ cs[i].groups = {Num(P, t) : t \in cs[i].trips} \ {0}
             /\ Whole(P, cs[i].trips) /\ InLimit(P, cs[i].trips)
  <2>1. cs[i] = ChunkOf(P, cs[i].trips) /\ Whole(P, cs[i].trips) /\ InLimit(P, cs[i].trips)
    BY <1>1 DEF Packed
  <2>2. cs[i] \in Cargo(P)
    BY <1>1
  <2>3. cs[i].groups = ChunkOf(P, cs[i].trips).groups
    BY <2>1
  <2>4. cs[i].groups = {Num(P, t) : t \in cs[i].trips} \ {0}
    BY <2>3 DEF ChunkOf, Num
  <2> QED
    BY <2>1, <2>2, <2>4 DEF Cargo
<1>3. \A i, j \in DOMAIN cs : i # j => cs[i].trips \cap cs[j].trips = {}
  BY <1>1 DEF Packed
<1>4. ASSUME NEW i \in DOMAIN cs, NEW j \in DOMAIN cs, i # j PROVE cs[i].groups \cap cs[j].groups = {}
  <2> SUFFICES ASSUME NEW n \in cs[i].groups, n \in cs[j].groups PROVE FALSE
    OBVIOUS
  <2>1. PICK t \in cs[i].trips : Num(P, t) = n /\ n # 0
    BY <1>2
  <2>2. PICK w \in cs[j].trips : Num(P, w) = n
    BY <1>2
  <2>3. t \in TripIds(P) /\ w \in TripIds(P)
    BY <1>2
  <2>4. PICK u \in Units(P) : t \in u
    BY <2>3, UnitsSplit
  <2>5. u = GroupOf(P, t)
    BY <2>1, <2>4, UnitsSplit
  <2>6. w \in u
    BY <2>1, <2>2, <2>3, <2>5 DEF GroupOf, Num
  <2>7. w \in cs[i].trips
    BY <1>2, <2>4, <2>6 DEF Whole
  <2> QED
    BY <1>3, <1>4, <2>2, <2>7
<1>5. \A t \in TripIds(P) : \E i \in DOMAIN cs : t \in cs[i].trips
  BY <1>1 DEF Packed
<1>6. ASSUME NEW i \in DOMAIN cs PROVE Keeps(P, cs[i], FALSE)
  <2>1. \A t \in cs[i].trips : Num(P, t) \in {0} \cup cs[i].groups
    BY <1>2
  <2>2. CASE cs[i].trips \in Units(P)
    <3>1. PICK t \in cs[i].trips : TRUE
      BY <2>2, UnitsSplit
    <3>2. CASE Num(P, t) = 0
      <4>1. cs[i].trips = {t}
        BY <2>2, <3>2, UnitsSplit
      <4>2. Cardinality(cs[i].trips) = 1
        BY <4>1, FS_Singleton
      <4> QED
        BY <2>1, <4>2, MostPositive DEF Keeps
    <3>3. CASE Num(P, t) # 0
      <4>1. cs[i].trips = GroupOf(P, t)
        BY <2>2, <3>3, UnitsSplit
      <4>2. Num(P, t) \in cs[i].groups /\ \A w \in cs[i].trips : Num(P, w) = Num(P, t)
        BY <1>2, <3>3, <4>1 DEF GroupOf, Num
      <4> QED
        BY <2>1, <4>2 DEF Keeps
    <3> QED
      BY <3>2, <3>3
  <2> QED
    BY <1>2, <2>1, <2>2 DEF InLimit, Keeps
<1>7. \A i \in DOMAIN cs : 0 \notin cs[i].groups
  BY <1>2
<1> QED
  BY <1>1, <1>3, <1>4, <1>5, <1>6, <1>7 DEF Divides, cs

(* Solving chunk c leaves the chunks as they were.                             *)
LEMMA SolvingKeeps ==
  ASSUME NEW P, Settled(P), NEW cs, Divides(P, cs), NEW B, NEW c \in DOMAIN cs, c \notin B,
         \A i \in DOMAIN cs : Keeps(P, cs[i], i \in B)
  PROVE  LET R == Run(P, cs[c].trips, c) IN
         /\ Settled(R) /\ Divides(R, cs) /\ TripIds(R) = TripIds(P)
         /\ \A i \in DOMAIN cs : Keeps(R, cs[i], i \in B \cup {c})
<1> DEFINE S == cs[c].trips
           R == Run(P, S, c)
<1>1. IsRequest(P) /\ cs \in Seq(Cargo(P))
  BY DEF Settled, Divides
<1>2. \A i \in DOMAIN cs : cs[i].trips \subseteq TripIds(P) /\ cs[i] \in Cargo(P)
  <2>1. \A i \in DOMAIN cs : cs[i] \in Cargo(P)
    BY <1>1
  <2> QED
    BY <2>1 DEF Cargo
<1>3. c \in Int /\ S \subseteq TripIds(P)
  BY <1>1, <1>2
<1>4. /\ R \in Like(P) /\ OnlyNumbers(P, R) /\ Settled(R)
      /\ \A t \in TripIds(P) : t \notin S => Num(R, t) = Num(P, t)
      /\ \A D : NumbersIn(P, S, D) /\ (0 - Cardinality(S))..(-1) \subseteq D => NumbersIn(R, S, D)
  BY <1>3, RunKeeps
<1> HIDE DEF R
<1>5. TripIds(R) = TripIds(P) /\ R.prm = P.prm
  BY <1>1, <1>4, LikeTyped
<1>6. Len(R.trips) = Len(P.trips) /\ Len(P.trips) \in Nat /\ Cardinality(S) \in Nat /\ Cardinality(S) <= Len(P.trips)
  <2>1. TripIds(P) = 1..Len(P.trips) /\ Len(P.trips) \in Nat /\ IsFiniteSet(TripIds(P))
    BY <1>1, RequestTyped
  <2>2. TripIds(R) = 1..Len(R.trips) /\ Len(R.trips) \in Nat
    BY <1>4, RequestTyped DEF Settled
  <2> DEFINE m == Len(P.trips)
             n == Len(R.trips)
  <2>3. m \in Nat /\ n \in Nat /\ TripIds(P) = 1..m /\ TripIds(R) = 1..n
    BY <2>1, <2>2
  <2> HIDE DEF m, n
  <2>4. Cardinality(1..m) = m /\ Cardinality(1..n) = n /\ 1..m = 1..n
    <3>1. \A k \in Nat : Cardinality(1..k) = k
      BY FS_Interval
    <3> QED
      BY <1>5, <2>3, <3>1
  <2>5. Cardinality(S) <= Cardinality(TripIds(P)) /\ IsFiniteSet(S)
    BY <1>3, <2>1, FS_Subset
  <2> QED
    BY <2>1, <2>4, <2>5, FS_CardinalityType DEF m, n
<1>7. Divides(R, cs)
  BY <1>5 DEF Divides, Cargo
<1>8. Most(R) = Most(P)
  BY <1>5 DEF Most
<1>9. \A t \in TripIds(P) : Num(P, t) # 0 => Num(R, t) = Num(P, t)
  BY <1>4 DEF OnlyNumbers
<1>10. ASSUME NEW i \in DOMAIN cs PROVE Keeps(R, cs[i], i \in B \cup {c})
  <2>1. Keeps(P, cs[i], i \in B) /\ 0 \notin cs[i].groups
    BY DEF Divides
  <2>2. Cardinality(cs[i].trips) <= Most(R) \/ \E n \in cs[i].groups : \A t \in cs[i].trips : Num(R, t) = n
    <3>1. CASE Cardinality(cs[i].trips) <= Most(P)
      BY <1>8, <3>1
    <3>2. CASE \E n \in cs[i].groups : \A t \in cs[i].trips : Num(P, t) = n
      BY <1>2, <1>9, <2>1, <3>2
    <3> QED
      BY <2>1, <3>1, <3>2 DEF Keeps
  <2>3. \A t \in cs[i].trips : \/ Num(R, t) \in {0} \cup cs[i].groups
                               \/ i \in B \cup {c} /\ Num(R, t) \in (0 - Len(R.trips))..(-1)
    <3>1. CASE i = c
      <4> DEFINE D == {0} \cup cs[c].groups \cup (0 - Cardinality(S))..(-1)
      <4>1. NumbersIn(P, S, D)
        <5>1. \A t \in S : Num(P, t) \in {0} \cup cs[c].groups
          BY <2>1, <3>1 DEF Keeps
        <5> QED
          BY <5>1 DEF NumbersIn
      <4>2. NumbersIn(R, S, D)
        BY <1>4, <4>1
      <4>3. (0 - Cardinality(S))..(-1) \subseteq (0 - Len(R.trips))..(-1)
        BY <1>6
      <4>4. \A t \in S : Num(R, t) \in D
        BY <1>3, <1>5, <4>2 DEF NumbersIn
      <4> QED
        BY <3>1, <4>3, <4>4
    <3>2. CASE i # c
      <4>1. cs[i].trips \cap S = {}
        BY <3>2 DEF Divides
      <4>2. \A t \in cs[i].trips : Num(R, t) = Num(P, t)
        BY <1>2, <1>4, <4>1
      <4> QED
        BY <1>6, <2>1, <4>2 DEF Keeps
    <3> QED
      BY <3>1, <3>2
  <2> QED
    BY <2>2, <2>3 DEF Keeps
<1> QED
  BY <1>4, <1>5, <1>7, <1>10 DEF R

-------------------------------------------------------------------------------
(* The invariant.                                                              *)

BegunOnes == {i \in DOMAIN chunks : Begun(i)}
ChunksKept ==
  /\ at \in Nat \ {0}
  /\ phase = "asked" => Settled(problem)
  /\ chunks # <<>> =>
       /\ Settled(problem) /\ Divides(problem, chunks)
       /\ \A i \in DOMAIN chunks : Keeps(problem, chunks[i], i \in BegunOnes)

LEMMA ChunksKeptStay ==
  ASSUME ChunksKept, problem' = problem, chunks' = chunks, phase' = "asked" => phase = "asked",
         \/ at' = at /\ (phase = "chunk" \/ phase' = phase \/ phase' # "chunk")
         \/ at' = at + 1
  PROVE  ChunksKept'
<1>1. at' \in Nat \ {0}
  BY DEF ChunksKept
<1>2. BegunOnes \subseteq BegunOnes'
  <2>1. SUFFICES ASSUME NEW i \in DOMAIN chunks, Begun(i) PROVE Begun(i)'
    BY DEF BegunOnes
  <2>2. i < at \/ (i = at /\ phase # "chunk")
    BY <2>1 DEF Begun
  <2>3. CASE at' = at + 1
    <3>1. CASE i = at
      BY <2>3, <3>1 DEF ChunksKept, Begun
    <3>2. CASE i < at
      <4>1. CASE chunks = <<>>
        BY <4>1
      <4>2. CASE chunks # <<>>
        <5>1. chunks \in Seq(Cargo(problem))
          BY <4>2 DEF ChunksKept, Divides
        <5>2. i \in Int
          BY <5>1
        <5> QED
          BY <2>3, <3>2, <5>2 DEF ChunksKept, Begun
      <4> QED
        BY <4>1, <4>2
    <3> QED
      BY <2>2, <3>1, <3>2
  <2>4. CASE at' = at /\ (phase = "chunk" \/ phase' = phase \/ phase' # "chunk")
    BY <2>2, <2>4 DEF Begun
  <2> QED
    BY <2>3, <2>4
<1>3. ASSUME chunks # <<>>
      PROVE  \A i \in DOMAIN chunks : Keeps(problem, chunks[i], i \in BegunOnes')
  <2> TAKE i \in DOMAIN chunks
  <2>1. Keeps(problem, chunks[i], i \in BegunOnes)
    BY <1>3 DEF ChunksKept
  <2>2. i \in BegunOnes => i \in BegunOnes'
    BY <1>2
  <2> QED
    BY <2>1, <2>2 DEF Keeps
<1> QED
  BY <1>1, <1>3 DEF ChunksKept

LEMMA CutStarts ==
  ASSUME ChunksKept, Cut
  PROVE  ChunksKept'
<1>1. phase = "asked" /\ chunks' = Partition(problem) /\ phase' = "chunk" /\ problem' = problem /\ at' = at
  BY DEF Cut, In
<1>2. Settled(problem) /\ at \in Nat \ {0}
  BY <1>1 DEF ChunksKept
<1>3. Divides(problem, Partition(problem)) /\ \A i \in DOMAIN Partition(problem) : Keeps(problem, Partition(problem)[i], FALSE)
  BY <1>2, CutKeeps DEF Settled
<1>4. \A P, c, b : Keeps(P, c, FALSE) => Keeps(P, c, b)
  BY DEF Keeps
<1> QED
  BY <1>1, <1>2, <1>3, <1>4 DEF ChunksKept

LEMMA BeginKeeps ==
  ASSUME ChunksKept, BeginChunk
  PROVE  ChunksKept'
<1>1. /\ phase = "chunk" /\ at <= Len(chunks) /\ phase' = "solve" /\ chunks' = chunks /\ at' = at
      /\ problem' = Run(problem, chunks[at].trips, at)
  BY DEF BeginChunk, In, Trips
<1>2. at \in Nat \ {0}
  BY DEF ChunksKept
<1>3. CASE chunks = <<>>
  BY <1>1, <1>2, <1>3 DEF ChunksKept
<1>4. CASE chunks # <<>>
  <2>1. /\ Settled(problem) /\ Divides(problem, chunks)
        /\ \A i \in DOMAIN chunks : Keeps(problem, chunks[i], i \in BegunOnes)
    BY <1>4 DEF ChunksKept
  <2>2. chunks \in Seq(Cargo(problem))
    BY <2>1 DEF Divides
  <2>3. at \in DOMAIN chunks /\ DOMAIN chunks \subseteq Int
    BY <1>1, <1>2, <2>2
  <2>4. at \notin BegunOnes
    BY <1>1, <1>2 DEF BegunOnes, Begun
  <2>5. BegunOnes' = BegunOnes \cup {at}
    BY <1>1, <1>2, <2>3 DEF BegunOnes, Begun
  <2>6. /\ Settled(problem') /\ Divides(problem', chunks)
        /\ \A i \in DOMAIN chunks : Keeps(problem', chunks[i], i \in BegunOnes \cup {at})
    BY <1>1, <2>1, <2>3, <2>4, SolvingKeeps
  <2> QED
    BY <1>1, <1>2, <2>5, <2>6 DEF ChunksKept
<1> QED
  BY <1>3, <1>4

LEMMA ChunksKeptStep ==
  ASSUME ChunksKept, [PartsNext]_<<scale, solver>>
  PROVE  ChunksKept'
<1>1. CASE UNCHANGED scale
  <2>1. problem' = problem /\ chunks' = chunks /\ phase' = phase /\ at' = at
    BY <1>1 DEF scale
  <2> QED
    BY <2>1, ChunksKeptStay
<1>2. CASE ScaleNext
  <2>1. CASE Cut
    BY <2>1, CutStarts
  <2>2. CASE BeginChunk
    BY <2>2, BeginKeeps
  <2> DEFINE stays ==
        /\ problem' = problem /\ chunks' = chunks /\ phase' # "asked"
        /\ \/ at' = at /\ (phase = "chunk" \/ phase' # "chunk")
           \/ at' = at + 1
  <2>3. CASE RefuseInput
    BY <2>3, ChunksKeptStay DEF RefuseInput, Enter, In
  <2>4. CASE GroupCut
    BY <2>4, ChunksKeptStay DEF GroupCut, Enter, In
  <2>5. CASE Primary
    BY <2>5, ChunksKeptStay DEF Primary, Found, In
  <2>6. CASE PrimaryFails
    BY <2>6, ChunksKeptStay DEF PrimaryFails, Enter, In
  <2>7. CASE Accept
    BY <2>7, ChunksKeptStay DEF Accept, Record, NextChunk, In
  <2>8. CASE RepairChunk
    BY <2>8, ChunksKeptStay DEF RepairChunk, Record, NextChunk, In
  <2>9. CASE RepairInVain
    BY <2>9, ChunksKeptStay DEF RepairInVain, TurnOrFail, Enter, Fail, NextChunk, In
  <2>10. CASE FallbackRuns
    BY <2>10, ChunksKeptStay DEF FallbackRuns, Found, In
  <2>11. CASE FallbackRaises
    BY <2>11, ChunksKeptStay DEF FallbackRaises, In
  <2>12. CASE RelaxedPasses
    BY <2>12, ChunksKeptStay DEF RelaxedPasses, Found, In
  <2>13. CASE RelaxedRepaired
    BY <2>13, ChunksKeptStay DEF RelaxedRepaired, Found, In
  <2>14. CASE RelaxedFails
    BY <2>14, ChunksKeptStay DEF RelaxedFails, Fail, NextChunk, In
  <2>15. CASE RelaxedCrashes
    BY <2>15, ChunksKeptStay DEF RelaxedCrashes, Enter, In
  <2>16. CASE SomeFailed
    BY <2>16, ChunksKeptStay DEF SomeFailed, Enter, In
  <2>17. CASE Merge
    BY <2>17, ChunksKeptStay DEF Merge, In
  <2>18. CASE Stitch
    BY <2>18, ChunksKeptStay DEF Stitch, In
  <2> QED
    BY <1>2, <2>1, <2>2, <2>3, <2>4, <2>5, <2>6, <2>7, <2>8, <2>9, <2>10, <2>11, <2>12, <2>13, <2>14,
       <2>15, <2>16, <2>17, <2>18 DEF ScaleNext
<1> QED
  BY <1>1, <1>2 DEF PartsNext, scale

LEMMA ChunksKeptInit == PartsInit => ChunksKept
<1> SUFFICES ASSUME PartsInit PROVE ChunksKept
  OBVIOUS
<1>1. chunks = <<>> /\ at = 1
  BY DEF PartsInit, ScaleInit, ScaleAtRest
<1>2. CASE ScaleInit
  <2>1. PICK P \in Problems : problem = Asked(P)
    BY <1>2 DEF ScaleInit
  <2>2. Settled(problem)
    BY <2>1, RequestsAssumption, AskedSettled
  <2> QED
    BY <1>1, <2>2 DEF ChunksKept
<1>3. CASE phase = "rest"
  BY <1>1, <1>3 DEF ChunksKept
<1> QED
  BY <1>2, <1>3 DEF PartsInit, ScaleAtRest, SolverAtRest

LEMMA ChunksKeptSays == ChunksKept => GroupsStayTogether
<1> SUFFICES ASSUME ChunksKept, chunks # <<>> PROVE GroupsStayTogether
  BY DEF GroupsStayTogether
<1>1. /\ Settled(problem) /\ Divides(problem, chunks)
      /\ \A i \in DOMAIN chunks : Keeps(problem, chunks[i], i \in BegunOnes)
  BY DEF ChunksKept
<1>2. ASSUME NEW t \in TripIds(problem) PROVE Cardinality({i \in DOMAIN chunks : t \in chunks[i].trips}) = 1
  <2>1. PICK i \in DOMAIN chunks : t \in chunks[i].trips
    BY <1>1 DEF Divides
  <2>2. {j \in DOMAIN chunks : t \in chunks[j].trips} = {i}
    BY <1>1, <2>1 DEF Divides
  <2> QED
    BY <2>2, FS_Singleton
<1>3. \A i, j \in DOMAIN chunks : i # j => chunks[i].groups \cap chunks[j].groups = {}
  BY <1>1 DEF Divides
<1>4. Len(problem.trips) \in Nat
  BY <1>1, RequestTyped DEF Settled
<1>5. \A n \in (0 - Len(problem.trips))..(-1) : PairNumber(n)
  BY <1>4 DEF PairNumber
<1>6. ASSUME NEW i \in DOMAIN chunks, NEW t \in chunks[i].trips
      PROVE  LET n == problem.trips[t].group
             IN  n = 0 \/ n \in chunks[i].groups \/ (Begun(i) /\ PairNumber(n))
  <2>1. Keeps(problem, chunks[i], i \in BegunOnes)
    BY <1>1
  <2>2. i \in BegunOnes <=> Begun(i)
    BY DEF BegunOnes
  <2> QED
    BY <1>5, <2>1, <2>2 DEF Keeps, Num
<1>7. \A i \in DOMAIN chunks :
        \/ Cardinality(chunks[i].trips) <= Most(problem)
        \/ \E n \in chunks[i].groups : \A t \in chunks[i].trips : problem.trips[t].group = n
  BY <1>1 DEF Keeps, Num
<1> QED
  BY <1>2, <1>3, <1>6, <1>7 DEF GroupsStayTogether

(* Whatever the request, and whatever the runs of its chunks return: every     *)
(* trip is in one chunk, no group is in two, and the numbers a chunk's run     *)
(* gives belong to pairs of its own trips (_partition_scale_chunks,            *)
(* inject_trip_group_constraints).                                             *)
THEOREM GroupsStay == PartsSpec => []GroupsStayTogether
<1>1. PartsSpec => []ChunksKept
  BY ChunksKeptInit, ChunksKeptStep, PTL DEF PartsSpec
<1> QED
  BY <1>1, ChunksKeptSays, PTL

-------------------------------------------------------------------------------
(* Sets of disjoint parts, as the answers of the solvers are made of.          *)

Disjoint(Q) == \A u, w \in Q : u = w \/ u \cap w = {}
SomeOf(Q, S) == \A u \in Q : u # {} /\ u \subseteq S

LEMMA PartsOf ==
  ASSUME NEW S, IsFiniteSet(S), S \subseteq Nat, NEW q \in Partitions(S)
  PROVE  IsFiniteSet(q) /\ UNION q = S /\ Disjoint(q) /\ SomeOf(q, S)
<1>1. PICK f \in [S -> S] : q = {{x \in S : f[x] = y} : y \in Range(f)}
  BY DEF Partitions
<1>2. IsFiniteSet(Range(f)) /\ Range(f) = {f[x] : x \in S} /\ Range(f) \subseteq S
  <2>1. Range(f) = {f[x] : x \in S} /\ Range(f) \subseteq S
    BY DEF Range
  <2> QED
    BY <2>1, FS_Subset
<1> DEFINE g == [y \in Range(f) |-> {x \in S : f[x] = y}]
<1>3. /\ q = {g[y] : y \in Range(f)}
      /\ \A y \in Range(f) : \A x : x \in g[y] <=> x \in S /\ f[x] = y
  BY <1>1
<1> HIDE DEF g
<1>4. IsFiniteSet(q)
  BY <1>2, <1>3, ImagesFinite
<1>5. \A u \in q : u # {} /\ u \subseteq S
  BY <1>2, <1>3
<1>6. Disjoint(q)
  <2> SUFFICES ASSUME NEW u \in q, NEW w \in q PROVE u = w \/ u \cap w = {}
    BY DEF Disjoint
  <2>1. PICK y \in Range(f), z \in Range(f) : u = g[y] /\ w = g[z]
    BY <1>3
  <2> QED
    BY <1>3, <2>1
<1>7. \A x \in S : \E u \in q : x \in u
  <2> TAKE x \in S
  <2>1. f[x] \in Range(f) /\ x \in g[f[x]]
    BY <1>2, <1>3
  <2> QED
    BY <1>3, <2>1
<1>8. UNION q = S
  BY <1>5, <1>7
<1> QED
  BY <1>4, <1>5, <1>6, <1>8 DEF SomeOf

LEMMA FirstIs ==
  ASSUME NEW u, u # {}, u \subseteq Nat
  PROVE  First(u) \in u /\ First(u) \in Nat
<1>1. \E x \in u : \A y \in u : x <= y
  BY LowestIs
<1> QED
  BY <1>1 DEF First

(* Parts in the order of their first members.                                  *)
LEMMA PartsOrdered ==
  ASSUME NEW Q, IsFiniteSet(Q), Disjoint(Q), \A u \in Q : u # {} /\ u \subseteq Nat
  PROVE  ListsOnce(Sorted(Q, LAMBDA a, b : First(a) < First(b)), Q)
<1> DEFINE before(a, b) == First(a) < First(b)
           R == {x \in Q \X Q : before(x[1], x[2])}
           m == Cardinality(Q)
           s == Sorted(Q, LAMBDA a, b : First(a) < First(b))
           nth(i) == CHOOSE x \in Q : Rank(R, Q, x) = i - 1
           direct(i) == CHOOSE x \in Q : Cardinality({y \in Q : before(y, x)}) = i - 1
<1>1. \A u \in Q : First(u) \in u /\ First(u) \in Nat
  BY FirstIs
<1>2. Orders(R, Q)
  <2>1. \A u, w \in Q : u # w => First(u) # First(w)
    BY <1>1 DEF Disjoint
  <2>2. \A u, w \in Q : <<u, w>> \in R <=> First(u) < First(w)
    OBVIOUS
  <2> HIDE DEF R
  <2> QED
    BY <1>1, <2>1, <2>2 DEF Orders
<1>3. s = [i \in 1..m |-> nth(i)]
  <2>1. \A x \in Q : Rank(R, Q, x) = Cardinality({y \in Q : before(y, x)})
    <3>1. \A x \in Q : {y \in Q : <<y, x>> \in R} = {y \in Q : before(y, x)}
      OBVIOUS
    <3> QED
      BY <3>1 DEF Rank
  <2>2. \A i : direct(i) = nth(i)
    BY <2>1
  <2>3. s = [i \in 1..m |-> direct(i)]
    BY DEF Sorted
  <2> HIDE DEF direct, nth, s, m
  <2> QED
    BY <2>2, <2>3
<1> HIDE DEF s, R
<1>4. s = [i \in 1..Cardinality(Q) |-> CHOOSE x \in Q : Rank(R, Q, x) = i - 1]
  BY <1>3
<1>5. s \in Seq(Q) /\ Len(s) = Cardinality(Q) /\ Range(s) = Q /\ IsInjective(s)
  <2>1. IsFiniteSet(Q)
    OBVIOUS
  <2> QED
    BY ONLY <1>2, <1>4, <2>1, SortedLists
<1> QED
  BY <1>5, TypedOnce DEF s

-------------------------------------------------------------------------------
(* Blocks and tasks.                                                           *)

Drives(x) == Range(x.trips)
BlockType(S) == [id : Nat \ {0}, trips : Seq(S)]
TaskType(S) == [trips : Seq(S), src : Nat \ {0}]

(* Some trips, each once.                                                      *)
NoTwice(x) == x.trips # <<>> /\ IsInjective(x.trips)

(* Blocks that no two share a trip or a number.                                *)
BlocksApart(bs, S) ==
  /\ bs \in Seq(BlockType(S))
  /\ \A i \in DOMAIN bs : NoTwice(bs[i])
  /\ \A i, j \in DOMAIN bs : i # j => bs[i].id # bs[j].id /\ Drives(bs[i]) \cap Drives(bs[j]) = {}

(* A task is of one of the blocks.                                             *)
IsOf(x, bs) == \E i \in DOMAIN bs : bs[i].id = x.src /\ Drives(x) \subseteq Drives(bs[i])

(* Tasks that cover the blocks except the bare ones.                           *)
TasksFit(bs, ts, bare, S) ==
  /\ ts \in Seq(TaskType(S))
  /\ \A k \in DOMAIN ts : NoTwice(ts[k]) /\ IsOf(ts[k], bs)
  /\ \A k, l \in DOMAIN ts : k # l => Drives(ts[k]) \cap Drives(ts[l]) = {}
  /\ \A i \in DOMAIN bs :
       bs[i].id \in bare \/ \A t \in Drives(bs[i]) : \E k \in DOMAIN ts : t \in Drives(ts[k])

(* The tasks one block is cut into.                                            *)
LEMMA CutBlockFits ==
  ASSUME NEW S, NEW b \in BlockType(S), NoTwice(b), NEW cut, b.id # cut \/ Len(b.trips) > 1
  PROVE  LET s == CutBlock(b, cut) IN
         /\ ListsOnce(s, Range(s))
         /\ \A x \in Range(s) : x \in TaskType(S) /\ NoTwice(x) /\ x.src = b.id /\ Drives(x) \subseteq Drives(b)
         /\ \A x, y \in Range(s) : x = y \/ Drives(x) \cap Drives(y) = {}
         /\ \A t \in Drives(b) : \E x \in Range(s) : t \in Drives(x)
<1> DEFINE q == b.trips
           s == CutBlock(b, cut)
<1>1. q \in Seq(S) /\ q # <<>> /\ IsInjective(q) /\ b.id \in Nat \ {0}
  BY DEF BlockType, NoTwice
<1>2. ListsOnce(q, Drives(b)) /\ Len(q) \in Nat
  BY <1>1, TypedOnce DEF Drives
<1>3. CASE b.id # cut
  <2> DEFINE x == Task(b)
  <2>1. s = <<x>> /\ x = [trips |-> q, src |-> b.id]
    BY <1>3 DEF CutBlock, Task
  <2>2. x.trips = q /\ x.src = b.id /\ x \in TaskType(S) /\ Drives(x) = Drives(b) /\ NoTwice(x)
    BY <1>1, <2>1 DEF TaskType, Drives, NoTwice
  <2> HIDE DEF x
  <2>3. Range(s) = {x} /\ IsList(s)
    BY <2>1, ShortLists
  <2>4. IsInjective(s)
    BY <2>1 DEF IsInjective
  <2> HIDE DEF s
  <2> QED
    BY <2>2, <2>3, <2>4 DEF ListsOnce, s
<1>4. CASE b.id = cut
  <2> DEFINE x == [trips |-> <<q[1]>>, src |-> cut]
             y == [trips |-> Tail(q), src |-> cut]
  <2>1. s = <<x, y>>
    BY <1>4 DEF CutBlock
  <2>2. q[1] \in Drives(b) /\ ListsOnce(Tail(q), Drives(b) \ {q[1]})
    BY <1>1, <1>2, HeadOff
  <2>3. q[1] \in S /\ Tail(q) \in Seq(S) /\ Tail(q) # <<>>
    <3>1. Len(q) > 1 /\ Len(q) \in Nat
      BY <1>2, <1>4
    <3> HIDE DEF q
    <3>2. Tail(q) \in Seq(S) /\ Len(Tail(q)) = Len(q) - 1
      <4>1. \A r \in Seq(S) : r # <<>> => Tail(r) \in Seq(S) /\ Len(Tail(r)) = Len(r) - 1
        OBVIOUS
      <4> QED
        BY <1>1, <4>1
    <3>3. q[1] \in S
      BY <1>1, <3>1
    <3>4. Tail(q) # <<>>
      <4>1. Len(Tail(q)) # 0
        BY ONLY <3>1, <3>2
      <4>2. Len(<<>>) = 0
        OBVIOUS
      <4> QED
        BY ONLY <4>1, <4>2
    <3> QED
      BY <3>2, <3>3, <3>4
  <2>4. x.trips = <<q[1]>> /\ y.trips = Tail(q) /\ x.src = cut /\ y.src = cut
    OBVIOUS
  <2>5. Drives(x) = {q[1]} /\ Drives(y) = Drives(b) \ {q[1]}
    BY <2>2, <2>4, ShortLists DEF ListsOnce, Drives
  <2>6. NoTwice(x) /\ NoTwice(y)
    <3>1. IsInjective(<<q[1]>>) /\ <<q[1]>> # <<>>
      BY DEF IsInjective
    <3> QED
      BY <2>2, <2>3, <2>4, <3>1 DEF NoTwice, ListsOnce
  <2>7. x \in TaskType(S) /\ y \in TaskType(S)
    <3>1. <<q[1]>> \in Seq(S)
      BY <2>3
    <3> QED
      BY <1>1, <1>4, <2>3, <3>1 DEF TaskType
  <2>8. x # y
    BY <2>5
  <2> HIDE DEF x, y
  <2>9. IsList(s) /\ Range(s) = {x, y} /\ IsInjective(s)
    <3>1. Range(s) = {x, y}
      BY <2>1 DEF Range
    <3>2. IsInjective(<<x, y>>)
      <4> DEFINE w == <<x, y>>
      <4>1. DOMAIN w = {1, 2} /\ w[1] = x /\ w[2] = y
        OBVIOUS
      <4> HIDE DEF w
      <4>2. IsInjective(w)
        BY <2>8, <4>1 DEF IsInjective
      <4> QED
        BY <4>2 DEF w
    <3>3. IsList(<<x, y>>)
      BY ShortLists
    <3> HIDE DEF s
    <3> QED
      BY <2>1, <3>1, <3>2, <3>3
  <2> HIDE DEF s
  <2>10. ListsOnce(s, Range(s))
    BY <2>9 DEF ListsOnce
  <2>11. \A z \in Range(s) : z \in TaskType(S) /\ NoTwice(z) /\ z.src = b.id /\ Drives(z) \subseteq Drives(b)
    BY <1>4, <2>2, <2>4, <2>5, <2>6, <2>7, <2>9
  <2>12. \A z, w \in Range(s) : z = w \/ Drives(z) \cap Drives(w) = {}
    BY <2>5, <2>9
  <2>13. \A t \in Drives(b) : \E z \in Range(s) : t \in Drives(z)
    BY <2>5, <2>9
  <2> QED
    BY <2>10, <2>11, <2>12, <2>13 DEF s
<1> QED
  BY <1>3, <1>4

(* The tasks the blocks are cut into.                                          *)
LEMMA TasksOfFit ==
  ASSUME NEW S, NEW bs, BlocksApart(bs, S), NEW bare, NEW cut,
         \A i \in DOMAIN bs : bs[i].id = cut => Len(bs[i].trips) > 1
  PROVE  LET ts == TasksOf(bs, bare, cut) IN
         TasksFit(bs, ts, bare, S) /\ \A k \in DOMAIN ts : ts[k].src \notin bare
<1> DEFINE s == [i \in DOMAIN bs |-> IF bs[i].id \in bare THEN <<>> ELSE CutBlock(bs[i], cut)]
           f == [i \in DOMAIN bs |-> Range(s[i])]
           ts == TasksOf(bs, bare, cut)
<1>1. ts = FlattenSeq(s)
  BY DEF TasksOf
<1>2. bs \in Seq(BlockType(S)) /\ IsList(bs) /\ \A i \in DOMAIN bs : bs[i] \in BlockType(S) /\ NoTwice(bs[i])
  <2>1. bs \in Seq(BlockType(S))
    BY DEF BlocksApart
  <2>2. bs = [i \in 1..Len(bs) |-> bs[i]] /\ Len(bs) \in Nat /\ \A i \in DOMAIN bs : bs[i] \in BlockType(S)
    BY <2>1
  <2> QED
    BY <2>1, <2>2, MadeList DEF BlocksApart
<1>3. ASSUME NEW i \in DOMAIN bs
      PROVE  /\ ListsOnce(s[i], f[i])
             /\ \A x \in f[i] : x \in TaskType(S) /\ NoTwice(x) /\ x.src = bs[i].id /\ Drives(x) \subseteq Drives(bs[i])
             /\ \A x, y \in f[i] : x = y \/ Drives(x) \cap Drives(y) = {}
             /\ bs[i].id \in bare => f[i] = {}
             /\ bs[i].id \in bare \/ \A t \in Drives(bs[i]) : \E x \in f[i] : t \in Drives(x)
  <2>1. CASE bs[i].id \in bare
    <3>1. s[i] = <<>> /\ f[i] = {}
      BY <2>1 DEF Range
    <3>2. ListsOnce(<<>>, {})
      <4>1. IsList(<<>>) /\ Range(<<>>) = {} /\ IsInjective(<<>>)
        BY DEF IsList, Range, IsInjective
      <4> QED
        BY <4>1 DEF ListsOnce
    <3> QED
      BY <2>1, <3>1, <3>2
  <2>2. CASE bs[i].id \notin bare
    <3>1. s[i] = CutBlock(bs[i], cut) /\ f[i] = Range(s[i])
      BY <2>2
    <3>2. bs[i] \in BlockType(S) /\ NoTwice(bs[i]) /\ (bs[i].id # cut \/ Len(bs[i].trips) > 1)
      BY <1>2
    <3> HIDE DEF s, f
    <3> QED
      BY <2>2, <3>1, <3>2, CutBlockFits
  <2> QED
    BY <2>1, <2>2
<1>4. IsList(s) /\ DOMAIN s = DOMAIN bs
  BY <1>2, ChangedPlaces
<1> HIDE DEF s, f
<1>5. \A i, j \in DOMAIN bs : i # j =>
         /\ \A x \in f[i], y \in f[j] : x.src # y.src /\ Drives(x) \cap Drives(y) = {}
         /\ f[i] \cap f[j] = {}
  <2> SUFFICES ASSUME NEW i \in DOMAIN bs, NEW j \in DOMAIN bs, i # j
               PROVE  \A x \in f[i], y \in f[j] : x.src # y.src /\ Drives(x) \cap Drives(y) = {}
    OBVIOUS
  <2>1. bs[i].id # bs[j].id /\ Drives(bs[i]) \cap Drives(bs[j]) = {}
    BY DEF BlocksApart
  <2> QED
    BY <1>3, <2>1
<1> DEFINE K == UNION {f[i] : i \in DOMAIN bs}
<1>6. ListsOnce(ts, K)
  <2>1. \A i \in DOMAIN s : ListsOnce(s[i], f[i])
    BY <1>3, <1>4
  <2>2. \A i, j \in DOMAIN s : i # j => f[i] \cap f[j] = {}
    BY <1>4, <1>5
  <2> QED
    BY <1>1, <1>4, <2>1, <2>2, FlatOnce
<1> HIDE DEF ts
<1>7. ts \in Seq(TaskType(S))
  <2>1. K \subseteq TaskType(S)
    BY <1>3
  <2> HIDE DEF K
  <2> QED
    BY <1>6, <2>1, ListTyped DEF ListsOnce
<1>8. \A k \in DOMAIN ts : \E i \in DOMAIN bs : ts[k] \in f[i]
  <2>1. \A k \in DOMAIN ts : ts[k] \in K
    <3> HIDE DEF K
    <3> QED
      BY <1>6 DEF ListsOnce, Range
  <2> QED
    BY <2>1
<1>9. \A i \in DOMAIN bs : \A x \in f[i] : \E k \in DOMAIN ts : ts[k] = x
  <2>1. \A x \in K : \E k \in DOMAIN ts : ts[k] = x
    <3> HIDE DEF K
    <3> QED
      BY <1>6 DEF ListsOnce, Range
  <2> QED
    BY <2>1
<1>10. \A k \in DOMAIN ts : NoTwice(ts[k]) /\ IsOf(ts[k], bs)
  BY <1>3, <1>8 DEF IsOf
<1>11. \A k, l \in DOMAIN ts : k # l => Drives(ts[k]) \cap Drives(ts[l]) = {}
  <2> SUFFICES ASSUME NEW k \in DOMAIN ts, NEW l \in DOMAIN ts, k # l PROVE Drives(ts[k]) \cap Drives(ts[l]) = {}
    OBVIOUS
  <2>1. ts[k] # ts[l]
    BY <1>6 DEF ListsOnce, IsInjective
  <2>2. PICK i \in DOMAIN bs, j \in DOMAIN bs : ts[k] \in f[i] /\ ts[l] \in f[j]
    BY <1>8
  <2> QED
    BY <1>3, <1>5, <2>1, <2>2
<1>12. \A i \in DOMAIN bs :
         bs[i].id \in bare \/ \A t \in Drives(bs[i]) : \E k \in DOMAIN ts : t \in Drives(ts[k])
  BY <1>3, <1>9
<1>13. TasksFit(bs, ts, bare, S)
  BY <1>7, <1>10, <1>11, <1>12 DEF TasksFit
<1>14. \A k \in DOMAIN ts : ts[k].src \notin bare
  BY <1>3, <1>8
<1> QED
  BY <1>13, <1>14 DEF ts

-------------------------------------------------------------------------------
(* Duties.                                                                     *)

(* Duties of tasks that fit the blocks.                                        *)
DutiesFit(bs, ds, bare, S) ==
  /\ IsList(ds)
  /\ \A d \in DOMAIN ds :
       /\ ds[d].tasks \in Seq(TaskType(S)) /\ ds[d].roster \in Int
       /\ \A k \in DOMAIN ds[d].tasks : NoTwice(ds[d].tasks[k]) /\ IsOf(ds[d].tasks[k], bs)
  /\ \A d, e \in DOMAIN ds : \A k \in DOMAIN ds[d].tasks, l \in DOMAIN ds[e].tasks :
       (d = e /\ k = l) \/ Drives(ds[d].tasks[k]) \cap Drives(ds[e].tasks[l]) = {}
  /\ \A i \in DOMAIN bs :
       bs[i].id \in bare \/
       \A t \in Drives(bs[i]) : \E d \in DOMAIN ds : \E k \in DOMAIN ds[d].tasks : t \in Drives(ds[d].tasks[k])

(* The tasks that a list of places names.                                      *)
Chosen(ts, o) == [i \in DOMAIN o |-> ts[o[i]]]

(* A duty is made of the tasks it is given.                                    *)
LEMMA DutyTasks ==
  ASSUME NEW P, NEW S, Timed(P, S), NEW ts \in Seq(TaskType(S)),
         \A k \in DOMAIN ts : NoTwice(ts[k]), NEW ks \in SUBSET DOMAIN ts, NEW id, NEW r
  PROVE  LET d == Duty(P, ts, id, ks, r) IN
         /\ d.roster = r /\ DOMAIN d = {"id", "tasks", "roster", "drive"}
         /\ \E o : ListsOnce(o, ks) /\ d.tasks = Chosen(ts, o)
<1> DEFINE st(k) == StartOf(P, ts[k].trips)
           before(k, l) == st(k) < st(l) \/ (st(k) = st(l) /\ k < l)
           R == {x \in ks \X ks : before(x[1], x[2])}
           m == Cardinality(ks)
           o == Sorted(ks, LAMBDA k, l : StartOf(P, ts[k].trips) < StartOf(P, ts[l].trips)
                                          \/ (StartOf(P, ts[k].trips) = StartOf(P, ts[l].trips) /\ k < l))
           nth(i) == CHOOSE x \in ks : Rank(R, ks, x) = i - 1
           direct(i) == CHOOSE x \in ks : Cardinality({y \in ks : before(y, x)}) = i - 1
<1>1. IsFiniteSet(ks) /\ ks \subseteq Nat
  <2>1. DOMAIN ts = 1..Len(ts) /\ Len(ts) \in Nat
    OBVIOUS
  <2>2. IsFiniteSet(DOMAIN ts)
    BY <2>1, FS_Interval
  <2>3. ks \subseteq Nat
    BY <2>1
  <2> QED
    BY <2>2, <2>3, FS_Subset
<1>2. \A k \in ks : st(k) \in Int
  <2> SUFFICES ASSUME NEW k \in ks PROVE st(k) \in Int
    OBVIOUS
  <2>0. k \in DOMAIN ts /\ ts[k] \in TaskType(S)
    OBVIOUS
  <2>1. ts[k].trips \in Seq(S) /\ ts[k].trips # <<>>
    BY <2>0 DEF TaskType, NoTwice
  <2>2. ts[k].trips[1] \in S
    BY <2>1
  <2> QED
    BY <2>2 DEF StartOf, Timed
<1>3. Orders(R, ks)
  <2>1. \A p, q \in ks : <<p, q>> \in R <=> before(p, q)
    OBVIOUS
  <2>2. \A p, q : before(p, q) <=> st(p) < st(q) \/ (st(p) = st(q) /\ p < q)
    OBVIOUS
  <2>3. \A p \in ks : st(p) \in Int /\ p \in Int
    BY <1>1, <1>2
  <2> HIDE DEF R, before, st
  <2>4. \A p \in ks : ~before(p, p)
    BY <2>2, <2>3
  <2>5. \A p, q \in ks : p # q => before(p, q) \/ before(q, p)
    BY <2>2, <2>3
  <2>6. \A p, q, w \in ks : before(p, q) /\ before(q, w) => before(p, w)
    BY <2>2, <2>3
  <2> QED
    BY <2>1, <2>4, <2>5, <2>6 DEF Orders
<1>4. o = [i \in 1..m |-> nth(i)]
  <2>1. \A x \in ks : Rank(R, ks, x) = Cardinality({y \in ks : before(y, x)})
    <3>1. \A x \in ks : {y \in ks : <<y, x>> \in R} = {y \in ks : before(y, x)}
      OBVIOUS
    <3> QED
      BY <3>1 DEF Rank
  <2>2. \A i : direct(i) = nth(i)
    BY <2>1
  <2>3. o = [i \in 1..m |-> direct(i)]
    BY DEF Sorted
  <2> HIDE DEF direct, nth, o, m
  <2> QED
    BY <2>2, <2>3
<1>5. /\ Duty(P, ts, id, ks, r).roster = r /\ DOMAIN Duty(P, ts, id, ks, r) = {"id", "tasks", "roster", "drive"}
      /\ Duty(P, ts, id, ks, r).tasks = Chosen(ts, o)
  BY DEF Duty, Chosen
<1> HIDE DEF o, R
<1>6. o = [i \in 1..Cardinality(ks) |-> CHOOSE x \in ks : Rank(R, ks, x) = i - 1]
  BY <1>4
<1>7. o \in Seq(ks) /\ Len(o) = Cardinality(ks) /\ Range(o) = ks /\ IsInjective(o)
  BY ONLY <1>1, <1>3, <1>6, SortedLists
<1>8. ListsOnce(o, ks)
  BY <1>7, TypedOnce
<1> QED
  BY <1>5, <1>8

(* The duties a solver makes of tasks.                                         *)
LEMMA DutiesOverFit ==
  ASSUME NEW P, NEW S, Timed(P, S), NEW bs, NEW bare, NEW ts,
         TasksFit(bs, ts, bare, S), NEW one, NEW ds \in DutiesOver(P, ts, one)
  PROVE  /\ DutiesFit(bs, ds, bare, S)
         /\ \A d \in DOMAIN ds :
              /\ DOMAIN ds[d] = {"id", "tasks", "roster", "drive"}
              /\ \A k \in DOMAIN ds[d].tasks : \E x \in DOMAIN ts : ds[d].tasks[k] = ts[x]
<1>1. /\ ts \in Seq(TaskType(S)) /\ \A k \in DOMAIN ts : NoTwice(ts[k]) /\ IsOf(ts[k], bs) /\ ts[k] \in TaskType(S)
      /\ \A k, l \in DOMAIN ts : k # l => Drives(ts[k]) \cap Drives(ts[l]) = {}
  BY DEF TasksFit
<1>2. IsFiniteSet(DOMAIN ts) /\ DOMAIN ts \subseteq Nat
  <2>1. DOMAIN ts = 1..Len(ts) /\ Len(ts) \in Nat
    BY <1>1
  <2> QED
    BY <2>1, FS_Interval
<1>3. PICK q \in Partitions(DOMAIN ts) :
        LET order == Sorted(q, LAMBDA a, b : First(a) < First(b))
        IN  ds = [i \in DOMAIN order |-> Duty(P, ts, i, order[i], IF one THEN 1 ELSE i)]
  BY DEF DutiesOver
<1> DEFINE order == Sorted(q, LAMBDA a, b : First(a) < First(b))
<1>4. ds = [i \in DOMAIN order |-> Duty(P, ts, i, order[i], IF one THEN 1 ELSE i)]
  BY <1>3
<1>5. /\ IsFiniteSet(q) /\ UNION q = DOMAIN ts /\ Disjoint(q)
      /\ \A u \in q : u # {} /\ u \subseteq DOMAIN ts
  BY <1>2, PartsOf DEF SomeOf
<1>6. ListsOnce(order, q)
  BY <1>2, <1>5, PartsOrdered
<1> HIDE DEF order
<1>7. /\ IsList(order) /\ \A i \in DOMAIN order : order[i] \in q /\ i \in Int
      /\ \A i, j \in DOMAIN order : i # j => order[i] \cap order[j] = {}
      /\ \A k \in DOMAIN ts : \E i \in DOMAIN order : k \in order[i]
  <2>1. IsList(order) /\ \A i \in DOMAIN order : order[i] \in q
    BY <1>6 DEF ListsOnce, Range
  <2>2. DOMAIN order = 1..Len(order) /\ Len(order) \in Nat
    BY <2>1, ListDomain
  <2>3. \A i, j \in DOMAIN order : i # j => order[i] # order[j]
    BY <1>6 DEF ListsOnce, IsInjective
  <2>4. \A u \in q : \E i \in DOMAIN order : order[i] = u
    BY <1>6 DEF ListsOnce, Range
  <2> QED
    BY <1>5, <2>1, <2>2, <2>3, <2>4 DEF Disjoint
<1>8. IsList(ds) /\ DOMAIN ds = DOMAIN order
  <2>1. DOMAIN ds = DOMAIN order /\ ds = [i \in DOMAIN ds |-> ds[i]]
    BY <1>4
  <2> QED
    BY <1>7, <2>1, ChangedPlaces
<1> DEFINE Of(d, o) == ListsOnce(o, order[d]) /\ ds[d].tasks = Chosen(ts, o)
<1>9. ASSUME NEW d \in DOMAIN ds
      PROVE  ds[d].roster \in Int /\ DOMAIN ds[d] = {"id", "tasks", "roster", "drive"} /\ \E o : Of(d, o)
  <2>1. order[d] \in SUBSET DOMAIN ts /\ d \in Int
    BY <1>5, <1>7, <1>8
  <2>2. ds[d] = Duty(P, ts, d, order[d], IF one THEN 1 ELSE d)
    BY <1>4
  <2> DEFINE r == IF one THEN 1 ELSE d
  <2>3. r \in Int
    BY <2>1
  <2> HIDE DEF r
  <2>4. ds[d] = Duty(P, ts, d, order[d], r)
    BY <2>2 DEF r
  <2>5. Timed(P, S) /\ \A k \in DOMAIN ts : NoTwice(ts[k])
    BY <1>1
  <2> DEFINE Made(x) == \E o : ListsOnce(o, order[d]) /\ x.tasks = Chosen(ts, o)
  <2> DEFINE Drawn(x) == x.roster = r /\ DOMAIN x = {"id", "tasks", "roster", "drive"} /\ Made(x)
  <2>6. Drawn(Duty(P, ts, d, order[d], r))
    <3>1. ts \in Seq(TaskType(S)) /\ order[d] \in SUBSET DOMAIN ts
      BY <1>1, <2>1
    <3> QED
      BY ONLY <2>5, <3>1, DutyTasks
  <2>7. Drawn(ds[d])
    <3> HIDE DEF Drawn
    <3> QED
      BY <2>4, <2>6
  <2> QED
    BY <2>3, <2>7
<1>10. ASSUME NEW d \in DOMAIN ds, NEW o, Of(d, o)
       PROVE  /\ ds[d].tasks \in Seq(TaskType(S)) /\ DOMAIN ds[d].tasks = DOMAIN o
              /\ \A k \in DOMAIN o : o[k] \in order[d] /\ o[k] \in DOMAIN ts /\ ds[d].tasks[k] = ts[o[k]]
              /\ \A k, l \in DOMAIN o : k # l => o[k] # o[l]
              /\ \A x \in order[d] : \E k \in DOMAIN o : o[k] = x
  <2>1. /\ IsList(o) /\ \A k \in DOMAIN o : o[k] \in order[d]
        /\ \A k, l \in DOMAIN o : k # l => o[k] # o[l]
        /\ \A x \in order[d] : \E k \in DOMAIN o : o[k] = x
    BY <1>10 DEF ListsOnce, IsInjective, Range
  <2>2. DOMAIN o = 1..Len(o) /\ Len(o) \in Nat
    BY <2>1, ListDomain
  <2>3. order[d] \subseteq DOMAIN ts
    BY <1>5, <1>7, <1>8
  <2>4. ds[d].tasks = [i \in DOMAIN o |-> ts[o[i]]]
    BY <1>10 DEF Chosen
  <2>5. \A k \in DOMAIN o : ts[o[k]] \in TaskType(S)
    BY <1>1, <2>1, <2>3
  <2>6. ds[d].tasks \in Seq(TaskType(S))
    <3> DEFINE n == Len(o)
    <3>1. ds[d].tasks = [i \in 1..n |-> ts[o[i]]] /\ \A k \in 1..n : ts[o[k]] \in TaskType(S)
      BY <2>2, <2>4, <2>5
    <3>2. n \in Nat
      BY <2>2
    <3> HIDE DEF n
    <3> QED
      BY <3>1, <3>2
  <2> QED
    BY <2>1, <2>3, <2>4, <2>6
<1> HIDE DEF Of
<1>11. \A d \in DOMAIN ds :
         /\ ds[d].tasks \in Seq(TaskType(S)) /\ ds[d].roster \in Int
         /\ \A k \in DOMAIN ds[d].tasks : NoTwice(ds[d].tasks[k]) /\ IsOf(ds[d].tasks[k], bs)
  BY <1>1, <1>9, <1>10
<1>12. ASSUME NEW d \in DOMAIN ds, NEW e \in DOMAIN ds,
              NEW k \in DOMAIN ds[d].tasks, NEW l \in DOMAIN ds[e].tasks, ~(d = e /\ k = l)
       PROVE  Drives(ds[d].tasks[k]) \cap Drives(ds[e].tasks[l]) = {}
  <2>1. PICK o : Of(d, o)
    BY <1>9
  <2>2. PICK p : Of(e, p) /\ (d = e => p = o)
    BY <1>9, <2>1
  <2>3. o[k] # p[l]
    <3>1. CASE d = e
      BY <1>10, <1>12, <2>1, <2>2, <3>1
    <3>2. CASE d # e
      BY <1>7, <1>8, <1>10, <2>1, <2>2, <3>2
    <3> QED
      BY <3>1, <3>2
  <2> QED
    BY <1>1, <1>10, <2>1, <2>2, <2>3
<1>13. \A i \in DOMAIN bs :
         bs[i].id \in bare \/
         \A t \in Drives(bs[i]) : \E d \in DOMAIN ds : \E k \in DOMAIN ds[d].tasks : t \in Drives(ds[d].tasks[k])
  <2>1. \A x \in DOMAIN ts : \E d \in DOMAIN ds : \E k \in DOMAIN ds[d].tasks : ds[d].tasks[k] = ts[x]
    <3> TAKE x \in DOMAIN ts
    <3>1. PICK d \in DOMAIN ds : x \in order[d]
      BY <1>7, <1>8
    <3>2. PICK o : Of(d, o)
      BY <1>9
    <3> QED
      BY <1>10, <3>1, <3>2
  <2>2. \A i \in DOMAIN bs :
          bs[i].id \in bare \/ \A t \in Drives(bs[i]) : \E k \in DOMAIN ts : t \in Drives(ts[k])
    BY DEF TasksFit
  <2> QED
    BY <2>1, <2>2
<1>14. DutiesFit(bs, ds, bare, S)
  BY <1>8, <1>11, <1>12, <1>13 DEF DutiesFit
<1> QED
  BY <1>9, <1>10, <1>14

-------------------------------------------------------------------------------
(* Plans.                                                                      *)

PlanFits(p, S) == BlocksApart(p.blocks, S) /\ DutiesFit(p.blocks, p.duties, p.bare, S)

(* What the crew solver makes of blocks fits them.                             *)
LEMMA CrewFits ==
  ASSUME NEW P, IsRequest(P), NEW S \in SUBSET TripIds(P), NEW bs, BlocksApart(bs, S), NEW lost,
         NEW p \in CrewAnswers(P, bs, lost)
  PROVE  PlanFits(p, S)
<1> DEFINE long == {bs[i].id : i \in {j \in DOMAIN bs : Len(bs[j].trips) > 1}}
           made(bare, cut, one) ==
             {[blocks |-> bs, duties |-> ds, left |-> lost, bare |-> bare] :
                ds \in DutiesOver(P, TasksOf(bs, bare, cut), one)}
           firsts == {bs[i].id : i \in DOMAIN bs \cap {1}}
<1>1. \/ p \in made({}, 0, TRUE)
      \/ \E cut \in long \cup {0} : p \in made({}, cut, FALSE)
      \/ \E b \in firsts : p \in made({b}, 0, FALSE)
  BY DEF CrewAnswers
<1>2. PICK bare, cut, one : cut \in long \cup {0} /\ p \in made(bare, cut, one)
  <2> HIDE DEF made, long, firsts
  <2>1. 0 \in long \cup {0}
    OBVIOUS
  <2> QED
    BY <1>1, <2>1
<1>3. PICK ds \in DutiesOver(P, TasksOf(bs, bare, cut), one) :
        p = [blocks |-> bs, duties |-> ds, left |-> lost, bare |-> bare]
  BY <1>2
<1>4. p.blocks = bs /\ p.duties = ds /\ p.bare = bare
  BY <1>3
<1>5. \A i \in DOMAIN bs : bs[i].id = cut => Len(bs[i].trips) > 1
  <2> SUFFICES ASSUME NEW i \in DOMAIN bs, bs[i].id = cut PROVE Len(bs[i].trips) > 1
    OBVIOUS
  <2>1. bs[i] \in BlockType(S)
    BY DEF BlocksApart
  <2>2. cut # 0
    BY <2>1 DEF BlockType
  <2>3. PICK j \in DOMAIN bs : Len(bs[j].trips) > 1 /\ cut = bs[j].id
    BY <1>2, <2>2
  <2> QED
    BY <2>3 DEF BlocksApart
<1> DEFINE ts == TasksOf(bs, bare, cut)
<1>6. TasksFit(bs, ts, bare, S)
  BY ONLY <1>5, BlocksApart(bs, S), TasksOfFit
<1>7. ds \in DutiesOver(P, ts, one)
  BY <1>3
<1> HIDE DEF ts
<1>8. DutiesFit(bs, ds, bare, S)
  <2>1. Timed(P, S)
    BY RequestTimed
  <2> QED
    BY ONLY <1>6, <1>7, <2>1, DutiesOverFit
<1> QED
  BY <1>4, <1>8 DEF PlanFits

(* Parts of the trips, numbered as blocks.                                     *)
LEMMA NumberedApart ==
  ASSUME NEW P, NEW T, Timed(P, T), NEW q,
         IsFiniteSet(q), Disjoint(q), \A u \in q : u # {} /\ u \subseteq T
  PROVE  LET bs == Numbered(P, q) IN
         BlocksApart(bs, T) /\ \A t : t \in UNION q <=> \E i \in DOMAIN bs : t \in Drives(bs[i])
<1> DEFINE order == Sorted(q, LAMBDA a, b : First(a) < First(b))
           bs == Numbered(P, q)
<1>1. bs = [i \in DOMAIN order |-> [id |-> i, trips |-> ByStart(P, order[i])]]
  BY DEF Numbered
<1>2. \A S \in SUBSET T : Timed(P, S) /\ S \subseteq Nat /\ IsFiniteSet(S)
  BY FS_Subset DEF Timed
<1>3. ListsOnce(order, q)
  BY <1>2, PartsOrdered
<1> HIDE DEF order, bs
<1>4. IsList(order) /\ \A i \in DOMAIN order : order[i] \in q
  BY <1>3 DEF ListsOnce, Range
<1>5. DOMAIN order = 1..Len(order) /\ Len(order) \in Nat
  BY <1>4, ListDomain
<1>6. DOMAIN bs = DOMAIN order /\ \A i \in DOMAIN bs : bs[i].id = i /\ bs[i].trips = ByStart(P, order[i])
  BY <1>1
<1>7. ASSUME NEW i \in DOMAIN bs
      PROVE  /\ bs[i] \in BlockType(T) /\ NoTwice(bs[i]) /\ Drives(bs[i]) = order[i]
  <2>1. Timed(P, order[i]) /\ order[i] # {} /\ order[i] \subseteq T
    BY <1>2, <1>4, <1>6
  <2> DEFINE w == ByStart(P, order[i])
  <2>2. w \in Seq(order[i]) /\ Range(w) = order[i] /\ IsInjective(w)
    BY ONLY <2>1, ByStartListed
  <2>3. w # <<>>
    BY <2>1, <2>2 DEF Range
  <2>4. w \in Seq(T)
    <3>1. IsList(w)
      BY <2>2 DEF IsList
    <3> HIDE DEF w
    <3> QED
      BY <2>1, <2>2, <3>1, ListTyped
  <2>5. bs[i] = [id |-> i, trips |-> w] /\ i \in Nat \ {0}
    BY <1>1, <1>5, <1>6
  <2> HIDE DEF w
  <2> QED
    BY <2>2, <2>3, <2>4, <2>5 DEF BlockType, NoTwice, Drives
<1>8. bs \in Seq(BlockType(T))
  <2> DEFINE n == Len(order)
  <2>1. n \in Nat /\ bs = [i \in 1..n |-> bs[i]] /\ \A i \in 1..n : bs[i] \in BlockType(T)
    BY <1>1, <1>5, <1>6, <1>7
  <2> HIDE DEF n
  <2> QED
    BY <2>1
<1>9. \A i, j \in DOMAIN bs : i # j => bs[i].id # bs[j].id /\ Drives(bs[i]) \cap Drives(bs[j]) = {}
  <2> SUFFICES ASSUME NEW i \in DOMAIN bs, NEW j \in DOMAIN bs, i # j
               PROVE  bs[i].id # bs[j].id /\ Drives(bs[i]) \cap Drives(bs[j]) = {}
    OBVIOUS
  <2>1. order[i] # order[j] /\ order[i] \in q /\ order[j] \in q
    BY <1>3, <1>4, <1>6 DEF ListsOnce, IsInjective
  <2>2. order[i] \cap order[j] = {}
    BY <2>1 DEF Disjoint
  <2> QED
    BY <1>6, <1>7, <2>2
<1>10. BlocksApart(bs, T)
  BY <1>7, <1>8, <1>9 DEF BlocksApart
<1>11. \A t : t \in UNION q <=> \E i \in DOMAIN bs : t \in Drives(bs[i])
  <2>1. \A u \in q : \E i \in DOMAIN bs : order[i] = u
    BY <1>3, <1>6 DEF ListsOnce, Range
  <2> QED
    BY <1>4, <1>6, <1>7, <2>1
<1> QED
  BY <1>10, <1>11 DEF bs

LEMMA SolvedFits ==
  ASSUME NEW P, IsRequest(P), NEW T \in SUBSET TripIds(P), NEW S \in SUBSET T, NEW lost,
         NEW p \in Solved(P, S, lost)
  PROVE  PlanFits(p, T)
<1>1. PICK bs \in VehicleAnswers(P, S) : p \in CrewAnswers(P, bs, lost)
  BY DEF Solved
<1>2. PICK q \in Partitions(S) : bs = Numbered(P, q)
  BY DEF VehicleAnswers
<1>3. S \subseteq Nat /\ IsFiniteSet(S)
  <2>1. S \in SUBSET TripIds(P)
    OBVIOUS
  <2> QED
    BY <2>1, RequestTyped, LikeTyped
<1>4. IsFiniteSet(q) /\ Disjoint(q) /\ \A u \in q : u # {} /\ u \subseteq T
  <2>1. IsFiniteSet(q) /\ Disjoint(q) /\ \A u \in q : u # {} /\ u \subseteq S
    <3>1. IsFiniteSet(S) /\ S \subseteq Nat /\ q \in Partitions(S)
      BY <1>3
    <3>2. IsFiniteSet(q) /\ Disjoint(q)
      BY ONLY <3>1, PartsOf
    <3>3. SomeOf(q, S)
      BY ONLY <3>1, PartsOf
    <3> QED
      BY <3>2, <3>3 DEF SomeOf
  <2> QED
    BY <2>1
<1>5. IsRequest(P) /\ T \in SUBSET TripIds(P)
  OBVIOUS
<1>6. BlocksApart(bs, T)
  <2>1. Timed(P, T)
    BY RequestTimed
  <2> QED
    BY ONLY <1>2, <1>4, <2>1, NumberedApart
<1> QED
  BY ONLY <1>1, <1>5, <1>6, CrewFits

(* Whatever a solver answers to a chunk fits its trips.                        *)
LEMMA AnswersFit ==
  ASSUME NEW P, IsRequest(P), NEW S \in SUBSET TripIds(P), NEW p \in Answers(P, S)
  PROVE  PlanFits(p, S)
<1>1. \E R \in SUBSET S : \E lost : p \in Solved(P, R, lost)
  BY DEF Answers
<1> QED
  BY <1>1, SolvedFits


-------------------------------------------------------------------------------
(* The repair of a chunk: blocks cut into pieces, and blocks of their own.     *)

(* What a block consists of: some trips, each once, and no two blocks share one.*)
Runs(K, S) ==
  /\ \A u \in K : u \in Seq(S) /\ u # <<>> /\ IsInjective(u)
  /\ \A u, w \in K : u = w \/ Range(u) \cap Range(w) = {}

Scraps(S) == [out : Seq(Seq(S)), cur : Seq(S)]
(* Pieces of the trips X so far, the last one not complete.                    *)
ScrapsOf(acc, X) ==
  /\ IsInjective(acc.cur) /\ Range(acc.cur) \subseteq X
  /\ \A i \in DOMAIN acc.out :
       /\ acc.out[i] # <<>> /\ IsInjective(acc.out[i])
       /\ Range(acc.out[i]) \subseteq X /\ Range(acc.out[i]) \cap Range(acc.cur) = {}
  /\ \A i, j \in DOMAIN acc.out : i # j => Range(acc.out[i]) \cap Range(acc.out[j]) = {}

Closed(acc) == IF acc.cur = <<>> THEN acc ELSE [out |-> Append(acc.out, acc.cur), cur |-> <<>>]
Cutting(acc, t, out) == IF t \in out THEN Closed(acc) ELSE [acc EXCEPT !.cur = Append(@, t)]

LEMMA EmptyList ==
  /\ \A S : <<>> \in Seq(S)
  /\ Range(<<>>) = {} /\ IsInjective(<<>>) /\ DOMAIN <<>> = {}
BY DEF Range, IsInjective

LEMMA ClosedScraps ==
  ASSUME NEW S, NEW acc \in Scraps(S), NEW X, ScrapsOf(acc, X)
  PROVE  Closed(acc) \in Scraps(S) /\ ScrapsOf(Closed(acc), X) /\ Closed(acc).cur = <<>>
<1>1. acc.out \in Seq(Seq(S)) /\ acc.cur \in Seq(S)
  BY DEF Scraps
<1>2. CASE acc.cur = <<>>
  BY <1>2 DEF Closed
<1>3. CASE acc.cur # <<>>
  <2> DEFINE out == Append(acc.out, acc.cur)
             c == Closed(acc)
  <2>1. out \in Seq(Seq(S)) /\ c = [out |-> out, cur |-> <<>>]
    BY <1>1, <1>3 DEF Closed
  <2>2. c \in Scraps(S)
    BY <2>1, EmptyList DEF Scraps
  <2>3. /\ DOMAIN out = DOMAIN acc.out \cup {Len(acc.out) + 1} /\ Len(acc.out) + 1 \notin DOMAIN acc.out
        /\ out[Len(acc.out) + 1] = acc.cur /\ \A i \in DOMAIN acc.out : out[i] = acc.out[i]
    BY <1>1
  <2> HIDE DEF out
  <2>4. /\ \A i \in DOMAIN out : out[i] # <<>> /\ IsInjective(out[i]) /\ Range(out[i]) \subseteq X
        /\ \A i, j \in DOMAIN out : i # j => Range(out[i]) \cap Range(out[j]) = {}
    BY <1>3, <2>3 DEF ScrapsOf
  <2>5. c.out = out /\ c.cur = <<>>
    BY <2>1
  <2> HIDE DEF c
  <2>6. ScrapsOf(c, X)
    BY <2>4, <2>5, EmptyList DEF ScrapsOf
  <2> QED
    BY <2>2, <2>5, <2>6 DEF c
<1> QED
  BY <1>2, <1>3

LEMMA CuttingScraps ==
  ASSUME NEW S, NEW acc \in Scraps(S), NEW X, ScrapsOf(acc, X), NEW t \in S, t \notin X, NEW out
  PROVE  /\ Cutting(acc, t, out) \in Scraps(S)
         /\ ScrapsOf(Cutting(acc, t, out), X \cup ({t} \ out))
<1>1. acc.out \in Seq(Seq(S)) /\ acc.cur \in Seq(S)
  BY DEF Scraps
<1>2. CASE t \in out
  <2>1. X \cup ({t} \ out) = X
    BY <1>2
  <2> QED
    BY <1>2, <2>1, ClosedScraps DEF Cutting
<1>3. CASE t \notin out
  <2> DEFINE cur == Append(acc.cur, t)
             c == Cutting(acc, t, out)
             Y == X \cup ({t} \ out)
  <2>1. c \in Scraps(S) /\ c.out = acc.out /\ c.cur = cur
    <3>1. cur \in Seq(S)
      BY <1>1
    <3>2. c = [acc EXCEPT !.cur = cur]
      BY <1>3 DEF Cutting
    <3> QED
      BY <1>1, <3>1, <3>2 DEF Scraps
  <2>2. ListsOnce(acc.cur, Range(acc.cur))
    BY <1>1, TypedOnce DEF ScrapsOf
  <2>3. t \notin Range(acc.cur)
    BY DEF ScrapsOf
  <2>4. ListsOnce(cur, Range(acc.cur) \cup {t})
    BY <2>2, <2>3, AppendedOnce
  <2>5. IsInjective(cur) /\ Range(cur) = Range(acc.cur) \cup {t}
    BY <2>4 DEF ListsOnce
  <2>6. Y = X \cup {t}
    BY <1>3
  <2> HIDE DEF cur, c, Y
  <2>7. ScrapsOf(c, Y)
    BY <2>1, <2>5, <2>6 DEF ScrapsOf
  <2> QED
    BY <2>1, <2>7 DEF c, Y
<1> QED
  BY <1>2, <1>3

(* The pieces of a block.                                                      *)
LEMMA PiecesList ==
  ASSUME NEW P, NEW S, NEW b \in BlockType(S), NoTwice(b), NEW out
  PROVE  LET s == Pieces(P, b, out) IN
         /\ ListsOnce(s, Range(s)) /\ Runs(Range(s), S)
         /\ \A u \in Range(s) : Range(u) \subseteq Drives(b) \ out
<1> DEFINE q == b.trips
           D == DOMAIN q
           V == Scraps(S)
           none == [out |-> <<>>, cur |-> <<>>]
           After(v, k) == Cutting(v, q[k], out)
           Once(g) == [T \in SUBSET D |-> IF T = {} THEN none ELSE After(g[Lower(T)], Max(T))]
           step == [x \in D \X V |-> Cutting(x[2], q[x[1]], out)]
           f == CHOOSE h : h = Once(h)
           seen(T) == {q[k] : k \in T} \ out
           Good(T, v) == v \in V /\ ScrapsOf(v, seen(T))
           G == {x \in (SUBSET D) \X V : Good(x[1], x[2])}
<1>1. Pieces(P, b, out) = Closed(f[D]).out
  BY DEF Pieces, FoldLeft, MapThenFoldSet, Lower, Closed, Cutting
<1>2. q \in Seq(S) /\ IsInjective(q)
  BY DEF BlockType, NoTwice
<1>3. IsFiniteSet(D) /\ D \subseteq Int /\ \A k \in D : q[k] \in S
  <2>1. IsList(q)
    BY <1>2, TypedOnce DEF ListsOnce
  <2>2. IsFiniteSet(D) /\ D = 1..Len(q) /\ Len(q) \in Nat
    BY <2>1, ListDomain
  <2> QED
    BY <1>2, <2>2
<1>4. \A k, l \in D : k # l => q[k] # q[l]
  BY <1>2 DEF IsInjective
<1>5. Drives(b) = {q[k] : k \in D}
  BY DEF Drives, Range
<1> HIDE DEF q, D
<1>6. none \in V /\ Good({}, none)
  <2>1. none \in V /\ none.out = <<>> /\ none.cur = <<>>
    BY EmptyList DEF Scraps
  <2> QED
    BY <2>1, EmptyList DEF ScrapsOf
<1>7. ASSUME NEW v \in V, NEW k \in D PROVE After(v, k) \in V
  <2>1. v.out \in Seq(Seq(S)) /\ v.cur \in Seq(S)
    BY DEF Scraps
  <2>2. Append(v.out, v.cur) \in Seq(Seq(S)) /\ Append(v.cur, q[k]) \in Seq(S) /\ <<>> \in Seq(S)
    BY <1>3, <2>1
  <2>3. [out |-> Append(v.out, v.cur), cur |-> <<>>] \in V /\ [v EXCEPT !.cur = Append(v.cur, q[k])] \in V
    BY <2>1, <2>2 DEF Scraps
  <2> QED
    BY <2>3 DEF Cutting, Closed
<1>8. step \in [D \X V -> V]
  <2>1. \A x \in D \X V : Cutting(x[2], q[x[1]], out) \in V
    BY <1>7
  <2> QED
    BY <2>1
<1>9. /\ \A T \in SUBSET D : T # {} => Max(T) \in T /\ Lower(T) = T \ {Max(T)} /\ Lower(T) \in SUBSET D
      /\ \E g \in [SUBSET D -> V] : FoldsBy(g, D, none, step)
  <2>1. IsFiniteSet(D) /\ D \subseteq Int
    BY <1>3
  <2>2. none \in V
    BY <1>6
  <2> HIDE DEF step, V, none
  <2> QED
    BY ONLY <2>1, <2>2, <1>8, FoldsList
<1>10. PICK g \in [SUBSET D -> V] : FoldsBy(g, D, none, step)
  BY <1>9
<1>11. f = Once(f)
  <2> HIDE DEF V, none
  <2>1. ASSUME NEW T \in SUBSET D, T # {} PROVE step[<<Max(T), g[Lower(T)]>>] = After(g[Lower(T)], Max(T))
    <3>1. Max(T) \in D /\ g[Lower(T)] \in V
      BY <1>9, <1>10, <2>1
    <3> QED
      BY <3>1
  <2> HIDE DEF After
  <2>2. \A T \in SUBSET D : g[T] = IF T = {} THEN none ELSE After(g[Lower(T)], Max(T))
    BY <1>10, <2>1 DEF FoldsBy
  <2>3. g = Once(g)
    BY <1>10, <2>2
  <2> QED
    BY <2>3
<1> HIDE DEF f
<1>12. <<{}, f[{}]>> \in G
  <2>1. f[{}] = none
    <3> HIDE DEF V, After, none
    <3> QED
      BY <1>11
  <2> HIDE DEF Good, V, none
  <2> QED
    BY <1>6, <2>1
<1>13. ASSUME NEW T \in SUBSET D, T # {}, <<Lower(T), f[Lower(T)]>> \in G PROVE <<T, f[T]>> \in G
  <2> DEFINE A == f[Lower(T)]
             k == Max(T)
             X == seen(Lower(T))
             t == q[k]
  <2>1. k \in T /\ k \in D /\ Lower(T) = T \ {k}
    BY <1>9, <1>13
  <2>2. A \in V /\ ScrapsOf(A, X)
    <3>1. Good(Lower(T), A)
      <4> HIDE DEF Good, V
      <4> QED
        BY <1>13
    <3> QED
      BY <3>1
  <2>3. f[T] = Cutting(A, t, out)
    <3>1. f[T] = After(f[Lower(T)], Max(T))
      <4> HIDE DEF V, After
      <4> QED
        BY <1>11, <1>13
    <3> QED
      BY <3>1
  <2>4. seen(T) = X \cup ({t} \ out) /\ t \in S /\ t \notin X
    BY <1>3, <1>4, <2>1
  <2> HIDE DEF A, k, t, X, seen
  <2> DEFINE B == Cutting(A, t, out)
  <2>5. B \in Scraps(S) /\ ScrapsOf(B, X \cup ({t} \ out))
    BY <2>2, <2>4, CuttingScraps
  <2> HIDE DEF B
  <2>6. f[T] = B /\ f[T] \in V /\ ScrapsOf(f[T], seen(T))
    BY <2>3, <2>4, <2>5 DEF B
  <2>7. Good(T, f[T])
    BY <2>6
  <2> HIDE DEF Good, V
  <2> QED
    BY <2>6, <2>7
<1>14. <<D, f[D]>> \in G
  <2>1. IsFiniteSet(D) /\ D \subseteq Int
    BY <1>3
  <2> HIDE DEF G
  <2> QED
    BY ONLY <2>1, <1>12, <1>13, FoldsKeep
<1>15. f[D] \in Scraps(S) /\ ScrapsOf(f[D], Drives(b) \ out)
  <2>1. Good(D, f[D])
    <3> HIDE DEF Good, V
    <3> QED
      BY <1>14
  <2> QED
    BY <1>5, <2>1
<1> DEFINE c == Closed(f[D])
           s == Pieces(P, b, out)
<1>16. c \in Scraps(S) /\ ScrapsOf(c, Drives(b) \ out) /\ s = c.out
  BY <1>1, <1>15, ClosedScraps
<1> HIDE DEF c, s
<1>17. /\ s \in Seq(Seq(S))
       /\ \A i \in DOMAIN s : s[i] # <<>> /\ IsInjective(s[i]) /\ Range(s[i]) \subseteq Drives(b) \ out /\ s[i] \in Seq(S)
       /\ \A i, j \in DOMAIN s : i # j => Range(s[i]) \cap Range(s[j]) = {}
  <2>1. s \in Seq(Seq(S))
    BY <1>16 DEF Scraps
  <2>2. \A i \in DOMAIN s : s[i] \in Seq(S)
    BY <2>1
  <2>3. /\ \A i \in DOMAIN s : s[i] # <<>> /\ IsInjective(s[i]) /\ Range(s[i]) \subseteq Drives(b) \ out
        /\ \A i, j \in DOMAIN s : i # j => Range(s[i]) \cap Range(s[j]) = {}
    BY <1>16 DEF ScrapsOf
  <2> QED
    BY <2>1, <2>2, <2>3
<1>18. \A u \in Seq(S) : u # <<>> => Range(u) # {}
  <2> SUFFICES ASSUME NEW u \in Seq(S), u # <<>> PROVE Range(u) # {}
    OBVIOUS
  <2>1. 1 \in DOMAIN u
    OBVIOUS
  <2> QED
    BY <2>1 DEF Range
<1>19. IsInjective(s)
  <2>1. \A i, j \in DOMAIN s : i # j => s[i] # s[j]
    BY <1>17, <1>18
  <2> QED
    BY <2>1 DEF IsInjective
<1>20. ListsOnce(s, Range(s))
  BY <1>17, <1>19, TypedOnce
<1>21. \A u \in Range(s) : \E i \in DOMAIN s : u = s[i]
  BY DEF Range
<1>22. Runs(Range(s), S) /\ \A u \in Range(s) : Range(u) \subseteq Drives(b) \ out
  BY <1>17, <1>21 DEF Runs
<1> QED
  BY <1>20, <1>22 DEF s

LEMMA RunsOf ==
  ASSUME NEW S, NEW u \in Seq(S), u # <<>>
  PROVE  Range(u) # {} /\ u[1] \in S /\ u[1] \in Range(u) /\ Range(u) \subseteq S
<1>1. 1 \in DOMAIN u /\ \A i \in DOMAIN u : u[i] \in S
  OBVIOUS
<1> QED
  BY <1>1 DEF Range

(* The least of some numbers.                                                  *)
LEMMA LeastNumber ==
  ASSUME NEW N, IsFiniteSet(N), N # {}, N \subseteq Int
  PROVE  First(N) \in N /\ \A x \in N : First(N) <= x
<1> DEFINE same == [x \in N |-> x]
<1>1. IntsOn(same, N) /\ \A x \in N : same[x] = x
  BY DEF IntsOn
<1> HIDE DEF same
<1>2. PICK i \in N : \A j \in N : same[i] < same[j] \/ (same[i] = same[j] /\ i <= j)
  BY <1>1, LeastExists
<1>3. \A j \in N : i <= j
  BY <1>1, <1>2
<1>4. \E x \in N : \A y \in N : x <= y
  BY <1>3
<1> QED
  BY <1>4 DEF First

(* The pieces of all the blocks, and a block for every group.                  *)
LEMMA RegroupedRuns ==
  ASSUME NEW P, IsRequest(P), NEW S \in SUBSET TripIds(P), NEW bs, BlocksApart(bs, S),
         NEW split, IsFiniteSet(split), Disjoint(split), SomeOf(split, S)
  PROVE  LET kept == FlattenSeq([i \in DOMAIN bs |-> Pieces(P, bs[i], UNION split)])
             own == Sorted(split, LAMBDA a, b : First(a) < First(b))
             all == kept \o [i \in DOMAIN own |-> ByStart(P, own[i])]
         IN  ListsOnce(all, Range(all)) /\ Runs(Range(all), S)
<1> DEFINE out == UNION split
           pieces == [i \in DOMAIN bs |-> Pieces(P, bs[i], out)]
           f == [i \in DOMAIN bs |-> Range(pieces[i])]
           kept == FlattenSeq(pieces)
           K == UNION {f[i] : i \in DOMAIN bs}
           own == Sorted(split, LAMBDA a, b : First(a) < First(b))
           tails == [i \in DOMAIN own |-> ByStart(P, own[i])]
<1>1. ASSUME NEW i \in DOMAIN bs
      PROVE  /\ ListsOnce(pieces[i], f[i]) /\ Runs(f[i], S)
             /\ \A u \in f[i] : Range(u) \subseteq Drives(bs[i]) \ out
  <2>1. bs[i] \in BlockType(S) /\ NoTwice(bs[i])
    BY DEF BlocksApart
  <2>2. pieces[i] = Pieces(P, bs[i], out) /\ f[i] = Range(Pieces(P, bs[i], out))
    OBVIOUS
  <2> HIDE DEF pieces, f, out
  <2> QED
    BY <2>1, <2>2, PiecesList
<1>2. IsList(pieces) /\ DOMAIN pieces = DOMAIN bs
  <2>1. IsList(bs)
    <3>1. bs \in Seq(BlockType(S))
      BY DEF BlocksApart
    <3>2. bs = [i \in 1..Len(bs) |-> bs[i]] /\ Len(bs) \in Nat
      BY <3>1
    <3> QED
      BY <3>2, MadeList
  <2> QED
    BY <2>1, ChangedPlaces
<1>3. \A i, j \in DOMAIN bs : i # j => Drives(bs[i]) \cap Drives(bs[j]) = {}
  BY DEF BlocksApart
<1> HIDE DEF pieces, f
<1>4. \A i \in DOMAIN bs : \A u \in f[i] : Range(u) # {}
  BY <1>1, RunsOf DEF Runs
<1>5. \A i, j \in DOMAIN bs : i # j => f[i] \cap f[j] = {}
  BY <1>1, <1>3, <1>4
<1>6. ListsOnce(kept, K)
  BY <1>1, <1>2, <1>5, FlatOnce
<1>7. /\ \A u \in K : u \in Seq(S) /\ u # <<>> /\ IsInjective(u) /\ Range(u) \cap out = {}
      /\ \A u, w \in K : u = w \/ Range(u) \cap Range(w) = {}
  <2>1. \A u \in K : \E i \in DOMAIN bs : u \in f[i]
    OBVIOUS
  <2> HIDE DEF K
  <2>2. \A u \in K : u \in Seq(S) /\ u # <<>> /\ IsInjective(u) /\ Range(u) \cap out = {}
    BY <1>1, <2>1 DEF Runs
  <2>3. ASSUME NEW u \in K, NEW w \in K PROVE u = w \/ Range(u) \cap Range(w) = {}
    <3>1. PICK i \in DOMAIN bs, j \in DOMAIN bs : u \in f[i] /\ w \in f[j]
      BY <2>1
    <3>2. CASE i = j
      BY <1>1, <3>1, <3>2 DEF Runs
    <3>3. CASE i # j
      BY <1>1, <1>3, <3>1, <3>3
    <3> QED
      BY <3>2, <3>3
  <2> QED
    BY <2>2, <2>3
<1>8. \A u \in split : u \in SUBSET TripIds(P) /\ u # {} /\ u \subseteq S /\ u \subseteq out
  BY DEF SomeOf
<1>9. ListsOnce(own, split)
  <2>1. \A u \in split : u # {} /\ u \subseteq Nat
    BY <1>8, RequestTyped, LikeTyped
  <2> QED
    BY <2>1, PartsOrdered
<1> HIDE DEF own, out, K, kept
<1>10. /\ IsList(own) /\ IsList(tails) /\ \A i \in DOMAIN own : own[i] \in split
       /\ \A i, j \in DOMAIN own : i # j => own[i] # own[j]
  <2>1. IsList(own) /\ \A i \in DOMAIN own : own[i] \in split
    BY <1>9 DEF ListsOnce, Range
  <2>2. \A i, j \in DOMAIN own : i # j => own[i] # own[j]
    BY <1>9 DEF ListsOnce, IsInjective
  <2>3. IsList(tails)
    BY <2>1, ChangedPlaces
  <2> QED
    BY <2>1, <2>2, <2>3
<1>11. ASSUME NEW i \in DOMAIN own
       PROVE  tails[i] \in Seq(S) /\ tails[i] # <<>> /\ IsInjective(tails[i]) /\ Range(tails[i]) = own[i]
  <2>1. own[i] \in SUBSET TripIds(P) /\ own[i] # {} /\ own[i] \subseteq S
    BY <1>8, <1>10
  <2> DEFINE w == ByStart(P, own[i])
  <2>2. w \in Seq(own[i]) /\ Range(w) = own[i] /\ IsInjective(w)
    BY <2>1, RequestTyped, ByStartOnce
  <2>3. tails[i] = w
    OBVIOUS
  <2> HIDE DEF w, tails
  <2>4. w # <<>>
    BY <2>1, <2>2, EmptyList
  <2>5. w \in Seq(S)
    BY <2>1, <2>2, SeqMonotonic
  <2> QED
    BY <2>2, <2>3, <2>4, <2>5
<1>12. DOMAIN tails = DOMAIN own
  OBVIOUS
<1> HIDE DEF tails
<1>13. \A i, j \in DOMAIN tails : i # j => Range(tails[i]) \cap Range(tails[j]) = {} /\ tails[i] # tails[j]
  <2> SUFFICES ASSUME NEW i \in DOMAIN tails, NEW j \in DOMAIN tails, i # j
               PROVE  Range(tails[i]) \cap Range(tails[j]) = {} /\ tails[i] # tails[j]
    OBVIOUS
  <2>1. own[i] # own[j] /\ own[i] \in split /\ own[j] \in split
    BY <1>10, <1>12
  <2>2. own[i] \cap own[j] = {} /\ own[i] # {}
    BY <1>8, <2>1 DEF Disjoint
  <2>3. Range(tails[i]) = own[i] /\ Range(tails[j]) = own[j]
    BY <1>11, <1>12
  <2> QED
    BY <2>2, <2>3
<1> DEFINE O == Range(tails)
<1>14. ListsOnce(tails, O)
  BY <1>10, <1>13 DEF ListsOnce, IsInjective
<1>15. \A u \in O : \E i \in DOMAIN tails : u = tails[i]
  BY DEF Range
<1> HIDE DEF O
<1>16. /\ \A u \in O : u \in Seq(S) /\ u # <<>> /\ IsInjective(u) /\ Range(u) \subseteq out /\ Range(u) # {}
       /\ \A u, w \in O : u = w \/ Range(u) \cap Range(w) = {}
  <2>1. \A u \in O : u \in Seq(S) /\ u # <<>> /\ IsInjective(u) /\ Range(u) \subseteq out /\ Range(u) # {}
    BY <1>8, <1>10, <1>11, <1>12, <1>15
  <2>2. \A u, w \in O : u = w \/ Range(u) \cap Range(w) = {}
    BY <1>13, <1>15
  <2> QED
    BY <2>1, <2>2
<1>17. K \cap O = {}
  BY <1>7, <1>16
<1> DEFINE all == kept \o tails
<1>18. ListsOnce(all, K \cup O)
  BY <1>6, <1>14, <1>17, JoinedOnce
<1> HIDE DEF all
<1>19. Runs(K \cup O, S)
  BY <1>7, <1>16 DEF Runs
<1>20. Range(all) = K \cup O
  BY <1>18 DEF ListsOnce
<1>21. ListsOnce(all, Range(all)) /\ Runs(Range(all), S)
  BY <1>18, <1>19, <1>20
<1> QED
  BY <1>21 DEF all, kept, pieces, tails, own, out

(* What the repair makes of the blocks.                                        *)
LEMMA RegroupedApart ==
  ASSUME NEW P, IsRequest(P), NEW S \in SUBSET TripIds(P), NEW p, BlocksApart(p.blocks, S),
         NEW split, IsFiniteSet(split), Disjoint(split), SomeOf(split, S)
  PROVE  BlocksApart(Regrouped(P, p, split), S)
<1> DEFINE N == {0 - p.blocks[i].id : i \in DOMAIN p.blocks} \cup {0}
           top == First(N)
           kept == FlattenSeq([i \in DOMAIN p.blocks |-> Pieces(P, p.blocks[i], UNION split)])
           own == Sorted(split, LAMBDA a, b : First(a) < First(b))
           all == kept \o [i \in DOMAIN own |-> ByStart(P, own[i])]
           named == {[id |-> i - top, trips |-> all[i]] : i \in DOMAIN all}
           start(b) == StartOf(P, b.trips)
           before(b, c) == start(b) < start(c) \/ (start(b) = start(c) /\ b.id < c.id)
           R == {x \in named \X named : before(x[1], x[2])}
           bs == Sorted(named, LAMBDA b, c : start(b) < start(c) \/ (start(b) = start(c) /\ b.id < c.id))
           direct(i) == CHOOSE x \in named : Cardinality({y \in named : before(y, x)}) = i - 1
           nth(i) == CHOOSE x \in named : Rank(R, named, x) = i - 1
           m == Cardinality(named)
<1>1. Regrouped(P, p, split) = bs
  BY DEF Regrouped
<1>2. top \in Int /\ top <= 0
  <2> DEFINE I == DOMAIN p.blocks
             g == [i \in I |-> 0 - p.blocks[i].id]
  <2>1. /\ p.blocks \in Seq(BlockType(S)) /\ I = 1..Len(p.blocks) /\ Len(p.blocks) \in Nat
        /\ \A i \in I : p.blocks[i].id \in Nat \ {0}
    <3>1. p.blocks \in Seq(BlockType(S))
      BY DEF BlocksApart
    <3>2. \A i \in I : p.blocks[i] \in BlockType(S)
      BY <3>1
    <3> QED
      BY <3>1, <3>2 DEF BlockType
  <2>2. IsFiniteSet(I)
    BY <2>1, FS_Interval
  <2>3. N = {g[i] : i \in I} \cup {0}
    OBVIOUS
  <2>4. IsFiniteSet({g[i] : i \in I})
    <3> HIDE DEF g, I
    <3> QED
      BY <2>2, ImagesFinite
  <2>5. IsFiniteSet(N)
    BY <2>3, <2>4, FS_AddElement
  <2>6. N \subseteq Int /\ 0 \in N
    BY <2>1
  <2> HIDE DEF N
  <2> QED
    BY <2>5, <2>6, LeastNumber
<1>3. ListsOnce(all, Range(all)) /\ Runs(Range(all), S)
  <2>1. IsRequest(P) /\ S \in SUBSET TripIds(P) /\ BlocksApart(p.blocks, S)
        /\ IsFiniteSet(split) /\ Disjoint(split) /\ SomeOf(split, S)
    OBVIOUS
  <2> QED
    BY ONLY <2>1, RegroupedRuns
<1> HIDE DEF all, top
<1>4. DOMAIN all = 1..Len(all) /\ Len(all) \in Nat /\ IsFiniteSet(DOMAIN all)
  BY <1>3, ListDomain DEF ListsOnce
<1>5. /\ \A i \in DOMAIN all : all[i] \in Seq(S) /\ all[i] # <<>> /\ IsInjective(all[i])
      /\ \A i, j \in DOMAIN all : i # j => Range(all[i]) \cap Range(all[j]) = {}
  <2>1. \A i \in DOMAIN all : all[i] \in Range(all)
    BY DEF Range
  <2>2. \A i, j \in DOMAIN all : i # j => all[i] # all[j]
    BY <1>3 DEF ListsOnce, IsInjective
  <2> QED
    BY <1>3, <2>1, <2>2 DEF Runs
<1>6. /\ \A b \in named : b \in BlockType(S) /\ NoTwice(b) /\ start(b) \in Int /\ b.id \in Int
      /\ \A b, c \in named : b # c => b.id # c.id /\ Drives(b) \cap Drives(c) = {}
  <2>1. ASSUME NEW b \in named
        PROVE  \E i \in DOMAIN all : b = [id |-> i - top, trips |-> all[i]] /\ b.id = i - top /\ b.trips = all[i]
    OBVIOUS
  <2> HIDE DEF named
  <2>2. ASSUME NEW b \in named
        PROVE  b \in BlockType(S) /\ NoTwice(b) /\ start(b) \in Int /\ b.id \in Int
    <3>1. PICK i \in DOMAIN all : b = [id |-> i - top, trips |-> all[i]] /\ b.id = i - top /\ b.trips = all[i]
      BY <2>1
    <3>2. i \in Nat \ {0} /\ i - top \in Nat \ {0}
      BY <1>2, <1>4
    <3>3. all[i] \in Seq(S) /\ all[i] # <<>> /\ IsInjective(all[i])
      BY <1>5
    <3>4. b \in BlockType(S) /\ NoTwice(b)
      BY <3>1, <3>2, <3>3 DEF BlockType, NoTwice
    <3>5. b.trips[1] \in S
      BY <3>1, <3>3, RunsOf
    <3>6. start(b) \in Int
      BY <3>5, RequestTyped, LikeTyped DEF StartOf
    <3> QED
      BY <3>1, <3>2, <3>4, <3>6
  <2>3. ASSUME NEW b \in named, NEW c \in named, b # c
        PROVE  b.id # c.id /\ Drives(b) \cap Drives(c) = {}
    <3>1. PICK i \in DOMAIN all : b = [id |-> i - top, trips |-> all[i]] /\ b.id = i - top /\ b.trips = all[i]
      BY <2>1
    <3>2. PICK j \in DOMAIN all : c = [id |-> j - top, trips |-> all[j]] /\ c.id = j - top /\ c.trips = all[j]
      BY <2>1
    <3>3. i # j /\ i \in Int /\ j \in Int
      BY <1>4, <2>3, <3>1, <3>2
    <3> QED
      BY <1>2, <1>5, <3>1, <3>2, <3>3 DEF Drives
  <2> QED
    BY <2>2, <2>3
<1>7. IsFiniteSet(named)
  <2> DEFINE g == [i \in DOMAIN all |-> [id |-> i - top, trips |-> all[i]]]
  <2>1. named = {g[i] : i \in DOMAIN all}
    OBVIOUS
  <2> HIDE DEF g, named
  <2> QED
    BY <1>4, <2>1, ImagesFinite
<1> HIDE DEF named
<1>8. Orders(R, named)
  <2>1. \A b, c \in named : <<b, c>> \in R <=> before(b, c)
    OBVIOUS
  <2>2. \A b, c : before(b, c) <=> start(b) < start(c) \/ (start(b) = start(c) /\ b.id < c.id)
    OBVIOUS
  <2>3. \A b \in named : start(b) \in Int /\ b.id \in Int
    BY <1>6
  <2>4. \A b, c \in named : b # c => b.id # c.id
    BY <1>6
  <2> HIDE DEF R, before, start
  <2>5. \A b \in named : ~before(b, b)
    BY <2>2, <2>3
  <2>6. \A b, c \in named : b # c => before(b, c) \/ before(c, b)
    BY <2>2, <2>3, <2>4
  <2>7. \A b, c, d \in named : before(b, c) /\ before(c, d) => before(b, d)
    BY <2>2, <2>3
  <2> QED
    BY <2>1, <2>5, <2>6, <2>7 DEF Orders
<1>9. bs = [i \in 1..m |-> nth(i)]
  <2>1. \A x \in named : Rank(R, named, x) = Cardinality({y \in named : before(y, x)})
    <3>1. \A x \in named : {y \in named : <<y, x>> \in R} = {y \in named : before(y, x)}
      OBVIOUS
    <3> QED
      BY <3>1 DEF Rank
  <2>2. \A i : direct(i) = nth(i)
    BY <2>1
  <2>3. bs = [i \in 1..m |-> direct(i)]
    BY DEF Sorted
  <2> HIDE DEF direct, nth, bs, m
  <2> QED
    BY <2>2, <2>3
<1> HIDE DEF bs, R
<1>10. bs = [i \in 1..Cardinality(named) |-> CHOOSE x \in named : Rank(R, named, x) = i - 1]
  BY <1>9
<1>11. bs \in Seq(named) /\ IsInjective(bs)
  BY ONLY <1>7, <1>8, <1>10, SortedLists
<1>12. bs \in Seq(BlockType(S))
  <2>1. named \subseteq BlockType(S)
    BY <1>6
  <2> QED
    BY <1>11, <2>1, SeqMonotonic
<1>13. /\ \A i \in DOMAIN bs : bs[i] \in named
       /\ \A i, j \in DOMAIN bs : i # j => bs[i] # bs[j]
  BY <1>11 DEF IsInjective
<1>14. BlocksApart(bs, S)
  BY <1>6, <1>12, <1>13 DEF BlocksApart
<1> QED
  BY <1>1, <1>14

(* A plan that passes reports nothing left out.                                *)
LEMMA PassesWhole ==
  ASSUME NEW P, NEW p, NEW S, Passes(P, p, S)
  PROVE  p.left = {} /\ p.bare = {}
<1>1. HardIssues(P, p, GroupsIn(P, S)) = {}
  BY DEF Passes
<1>2. \A t \in p.left : <<"UNCOVERED_TRIP", t>> \in HardIssues(P, p, GroupsIn(P, S))
  BY DEF HardIssues
<1>3. \A b \in p.bare : <<"UNCOVERED_BLOCK", b>> \in HardIssues(P, p, GroupsIn(P, S))
  BY DEF HardIssues
<1> QED
  BY <1>1, <1>2, <1>3

(* A repaired plan fits the chunk.                                             *)
LEMMA RepairedFits ==
  ASSUME NEW P, IsRequest(P), NEW S \in SUBSET TripIds(P), NEW p, PlanFits(p, S), NEW r \in Repaired(P, p, S)
  PROVE  PlanFits(r, S)
<1> DEFINE split == SplitGroups(P, p, S)
<1>1. r \in CrewAnswers(P, Regrouped(P, p, split), p.left)
  BY DEF Repaired
<1>2. \A g \in split : \E t \in S : P.trips[t].group # 0 /\ g = GroupOf(P, t) \cap S
  BY DEF SplitGroups
<1>3. SomeOf(split, S)
  <2> SUFFICES ASSUME NEW g \in split PROVE g # {} /\ g \subseteq S
    BY DEF SomeOf
  <2>1. PICK t \in S : P.trips[t].group # 0 /\ g = GroupOf(P, t) \cap S
    BY <1>2
  <2>2. t \in GroupOf(P, t)
    BY <2>1 DEF GroupOf
  <2> QED
    BY <2>1, <2>2
<1>4. Disjoint(split)
  <2> SUFFICES ASSUME NEW g \in split, NEW h \in split, NEW x \in g, x \in h PROVE g = h
    BY DEF Disjoint
  <2>1. PICK t \in S : P.trips[t].group # 0 /\ g = GroupOf(P, t) \cap S
    BY <1>2
  <2>2. PICK u \in S : P.trips[u].group # 0 /\ h = GroupOf(P, u) \cap S
    BY <1>2
  <2>3. P.trips[x].group = P.trips[t].group /\ P.trips[x].group = P.trips[u].group
    BY <2>1, <2>2 DEF GroupOf
  <2> QED
    BY <2>1, <2>2, <2>3 DEF GroupOf
<1>5. IsFiniteSet(split)
  <2>1. split \subseteq SUBSET S
    BY <1>3 DEF SomeOf
  <2>2. IsFiniteSet(S)
    BY RequestTyped, LikeTyped
  <2> QED
    BY <2>1, <2>2, FS_SUBSET, FS_Subset
<1> HIDE DEF split
<1>6. BlocksApart(Regrouped(P, p, split), S)
  BY <1>3, <1>4, <1>5, RegroupedApart DEF PlanFits
<1> QED
  BY <1>1, <1>6, CrewFits

-------------------------------------------------------------------------------
(* Counting.                                                                   *)

LEMMA SumNothing ==
  ASSUME NEW D, IsFiniteSet(D), NEW f, \A x \in D : f[x] = 0
  PROVE  Sum(f, D) = 0
<1>1. IntsOn(f, D)
  BY DEF IntsOn
<1>2. PICK g \in [SUBSET D -> Int] : Summand(g, f, D) /\ Sum(f, D) = g[D]
  BY <1>1, SumOpened
<1> DEFINE Good == {T \in SUBSET D : g[T] = 0}
<1>3. {} \in Good
  BY <1>2 DEF Summand
<1>4. ASSUME NEW T \in SUBSET D, T # {}, \A x \in T : T \ {x} \in Good PROVE T \in Good
  <2>1. PICK c \in T : c = CHOOSE x \in T : TRUE
    BY <1>4
  <2>2. g[T] = f[c] + g[T \ {c}]
    BY <1>2, <1>4, <2>1 DEF Summand
  <2> QED
    BY <1>4, <2>2
<1>5. \A T \in SUBSET D : T \in Good
  <2> HIDE DEF Good
  <2> QED
    BY <1>3, <1>4, SubsetInduction
<1> QED
  BY <1>2, <1>5

LEMMA SumOne ==
  ASSUME NEW D, IsFiniteSet(D), NEW f, NEW x \in D, f[x] = 1, \A y \in D \ {x} : f[y] = 0
  PROVE  Sum(f, D) = 1
<1>1. IntsOn(f, D)
  BY DEF IntsOn
<1>2. Sum(f, D) = f[x] + Sum(f, D \ {x})
  BY <1>1, SumWithout
<1>3. Sum(f, D \ {x}) = 0
  BY SumNothing, FS_Subset
<1> QED
  BY <1>2, <1>3

(* How often a trip is in one of some blocks or tasks.                         *)
Places(x, t) == {k \in DOMAIN x.trips : x.trips[k] = t}

LEMMA TimesAreASum ==
  ASSUME NEW bs, NEW t
  PROVE  Times(bs, t) = Sum([i \in DOMAIN bs |-> Cardinality(Places(bs[i], t))], DOMAIN bs)
<1> DEFINE D == DOMAIN bs
           f == [i \in D |-> Cardinality(Places(bs[i], t))]
           Adds(g) == g = [s \in SUBSET D |->
                             IF s = {} THEN 0
                             ELSE Cardinality({k \in DOMAIN bs[CHOOSE x \in s : TRUE].trips :
                                                 bs[CHOOSE x \in s : TRUE].trips[k] = t})
                                  + g[s \ {CHOOSE x \in s : TRUE}]]
<1>1. \A s \in SUBSET D :
        s # {} => f[CHOOSE x \in s : TRUE] = Cardinality({k \in DOMAIN bs[CHOOSE x \in s : TRUE].trips :
                                                 bs[CHOOSE x \in s : TRUE].trips[k] = t})
  BY DEF Places
<1>2. \A g : Adds(g) <=> Summand(g, f, D)
  <2> HIDE DEF f, D
  <2> QED
    BY <1>1 DEF Summand
<1>3. (CHOOSE g : Adds(g)) = CHOOSE g : Summand(g, f, D)
  <2> HIDE DEF Adds
  <2> QED
    BY <1>2
<1>4. Times(bs, t) = (CHOOSE g : Adds(g))[D]
  BY DEF Times, SumOver, MapThenSumSet, MapThenFoldSet
<1>5. Sum(f, D) = (CHOOSE g : Summand(g, f, D))[D]
  BY DEF Sum, MapThenSumSet, MapThenFoldSet, Summand
<1> QED
  BY <1>3, <1>4, <1>5

LEMMA NoTimes ==
  ASSUME NEW bs, IsList(bs), NEW t, \A i \in DOMAIN bs : t \notin Drives(bs[i])
  PROVE  Times(bs, t) = 0
<1> DEFINE f == [i \in DOMAIN bs |-> Cardinality(Places(bs[i], t))]
<1>1. \A i \in DOMAIN bs : Places(bs[i], t) = {}
  BY DEF Places, Drives, Range
<1>2. \A i \in DOMAIN bs : f[i] = 0
  BY <1>1, FS_EmptySet
<1>3. IsFiniteSet(DOMAIN bs)
  BY ListDomain
<1> HIDE DEF f
<1>4. Sum(f, DOMAIN bs) = 0
  BY <1>2, <1>3, SumNothing
<1> QED
  BY <1>4, TimesAreASum DEF f

LEMMA OneTime ==
  ASSUME NEW bs, IsList(bs), NEW t, NEW i \in DOMAIN bs, t \in Drives(bs[i]), IsInjective(bs[i].trips),
         \A j \in DOMAIN bs \ {i} : t \notin Drives(bs[j])
  PROVE  Times(bs, t) = 1
<1> DEFINE f == [j \in DOMAIN bs |-> Cardinality(Places(bs[j], t))]
<1>1. \A j \in DOMAIN bs \ {i} : Places(bs[j], t) = {}
  BY DEF Places, Drives, Range
<1>2. PICK k \in DOMAIN bs[i].trips : bs[i].trips[k] = t
  BY DEF Drives, Range
<1>3. Places(bs[i], t) = {k}
  BY <1>2 DEF Places, IsInjective
<1>4. f[i] = 1 /\ \A j \in DOMAIN bs \ {i} : f[j] = 0
  BY <1>1, <1>3, FS_EmptySet, FS_Singleton
<1>5. IsFiniteSet(DOMAIN bs)
  BY ListDomain
<1> HIDE DEF f
<1>6. Sum(f, DOMAIN bs) = 1
  BY <1>4, <1>5, SumOne
<1> QED
  BY <1>6, TimesAreASum DEF f

(* How often a trip is in a task of one of the duties.                         *)
DutyTimes(ds, t) == SumOver(DOMAIN ds, LAMBDA d : Times(ds[d].tasks, t))

LEMMA DutyTimesAreASum ==
  ASSUME NEW ds, NEW t
  PROVE  DutyTimes(ds, t) = Sum([d \in DOMAIN ds |-> Times(ds[d].tasks, t)], DOMAIN ds)
<1> DEFINE D == DOMAIN ds
           f == [d \in D |-> Times(ds[d].tasks, t)]
           Adds(g) == g = [s \in SUBSET D |->
                             IF s = {} THEN 0
                             ELSE Times(ds[CHOOSE x \in s : TRUE].tasks, t)
                                  + g[s \ {CHOOSE x \in s : TRUE}]]
<1>1. \A s \in SUBSET D :
        s # {} => f[CHOOSE x \in s : TRUE] = Times(ds[CHOOSE x \in s : TRUE].tasks, t)
  OBVIOUS
<1>2. \A g : Adds(g) <=> Summand(g, f, D)
  <2> HIDE DEF f, D
  <2> QED
    BY <1>1 DEF Summand
<1>3. (CHOOSE g : Adds(g)) = CHOOSE g : Summand(g, f, D)
  <2> HIDE DEF Adds
  <2> QED
    BY <1>2
<1>4. DutyTimes(ds, t) = (CHOOSE g : Adds(g))[D]
  BY DEF DutyTimes, SumOver, MapThenSumSet, MapThenFoldSet
<1>5. Sum(f, D) = (CHOOSE g : Summand(g, f, D))[D]
  BY DEF Sum, MapThenSumSet, MapThenFoldSet, Summand
<1> QED
  BY <1>3, <1>4, <1>5

(* Duties that fit blocks without bare ones drive their trips once.            *)
LEMMA FittingDutiesDriveOnce ==
  ASSUME NEW S, NEW bs, NEW ds, NEW bare, DutiesFit(bs, ds, bare, S),
         NEW i \in DOMAIN bs, bs[i].id \notin bare, NEW t \in Drives(bs[i])
  PROVE  DutyTimes(ds, t) = 1
<1>1. PICK d \in DOMAIN ds : \E k \in DOMAIN ds[d].tasks : t \in Drives(ds[d].tasks[k])
  BY DEF DutiesFit
<1>2. PICK k \in DOMAIN ds[d].tasks : t \in Drives(ds[d].tasks[k])
  BY <1>1
<1>3. IsList(ds) /\ \A e \in DOMAIN ds : IsList(ds[e].tasks)
  <2>1. \A e \in DOMAIN ds : ds[e].tasks \in Seq(TaskType(S))
    BY DEF DutiesFit
  <2>2. \A s \in Seq(TaskType(S)) : IsList(s)
    <3> SUFFICES ASSUME NEW s \in Seq(TaskType(S)) PROVE IsList(s)
      OBVIOUS
    <3>1. s = [j \in 1..Len(s) |-> s[j]] /\ Len(s) \in Nat
      OBVIOUS
    <3> QED
      BY <3>1, MadeList
  <2> QED
    BY <2>1, <2>2 DEF DutiesFit
<1>4. \A e \in DOMAIN ds : \A l \in DOMAIN ds[e].tasks : (d = e /\ k = l) \/ t \notin Drives(ds[e].tasks[l])
  BY <1>2 DEF DutiesFit
<1>5. IsInjective(ds[d].tasks[k].trips)
  BY <1>2 DEF DutiesFit, NoTwice
<1>6. Times(ds[d].tasks, t) = 1
  BY <1>2, <1>3, <1>4, <1>5, OneTime
<1>7. \A e \in DOMAIN ds \ {d} : Times(ds[e].tasks, t) = 0
  BY <1>3, <1>4, NoTimes
<1> DEFINE f == [e \in DOMAIN ds |-> Times(ds[e].tasks, t)]
<1>8. f[d] = 1 /\ \A e \in DOMAIN ds \ {d} : f[e] = 0
  BY <1>6, <1>7
<1>9. IsFiniteSet(DOMAIN ds)
  BY <1>3, ListDomain
<1> HIDE DEF f
<1>10. Sum(f, DOMAIN ds) = 1
  BY <1>8, <1>9, SumOne
<1> QED
  BY <1>10, DutyTimesAreASum DEF f

-------------------------------------------------------------------------------
(* The merge.                                                                  *)

LEMMA PositionIs ==
  ASSUME NEW s, NEW x \in Range(s)
  PROVE  Position(s, x) \in DOMAIN s /\ s[Position(s, x)] = x
<1>1. \E i \in DOMAIN s : s[i] = x
  BY DEF Range
<1> QED
  BY <1>1 DEF Position

(* The rosters of a plan, each once.                                           *)
LEMMA RostersListed ==
  ASSUME NEW p, IsList(p.duties)
  PROVE  ListsOnce(RosterOrder(p), {p.duties[d].roster : d \in DOMAIN p.duties})
<1> DEFINE I == DOMAIN p.duties
           ros == {p.duties[d].roster : d \in I}
           named(r) == First({d \in I : p.duties[d].roster = r})
           before(r, q) == named(r) < named(q)
           R == {x \in ros \X ros : before(x[1], x[2])}
           s == Sorted(ros, LAMBDA r, q : named(r) < named(q))
           direct(i) == CHOOSE x \in ros : Cardinality({y \in ros : before(y, x)}) = i - 1
           nth(i) == CHOOSE x \in ros : Rank(R, ros, x) = i - 1
           m == Cardinality(ros)
<1>1. RosterOrder(p) = s
  BY DEF RosterOrder
<1>2. IsFiniteSet(I) /\ I \subseteq Nat
  <2>1. IsFiniteSet(I) /\ I = 1..Len(p.duties) /\ Len(p.duties) \in Nat
    BY ListDomain
  <2> QED
    BY <2>1
<1>3. IsFiniteSet(ros)
  <2> DEFINE g == [d \in I |-> p.duties[d].roster]
  <2>1. ros = {g[d] : d \in I}
    OBVIOUS
  <2> HIDE DEF g, ros, I
  <2> QED
    BY <1>2, <2>1, ImagesFinite
<1>4. \A r \in ros : named(r) \in Nat /\ p.duties[named(r)].roster = r
  <2> TAKE r \in ros
  <2> DEFINE T == {d \in I : p.duties[d].roster = r}
  <2>1. T # {} /\ T \subseteq Nat
    BY <1>2
  <2>2. First(T) \in T /\ First(T) \in Nat
    <3> HIDE DEF T
    <3> QED
      BY <2>1, FirstIs
  <2> QED
    BY <2>2
<1> HIDE DEF ros, named
<1>5. Orders(R, ros)
  <2>1. \A r, q \in ros : <<r, q>> \in R <=> named(r) < named(q)
    OBVIOUS
  <2>2. \A r, q \in ros : r # q => named(r) # named(q)
    BY <1>4
  <2> HIDE DEF R
  <2> QED
    BY <1>4, <2>1, <2>2 DEF Orders
<1>6. s = [i \in 1..m |-> nth(i)]
  <2>1. \A x \in ros : Rank(R, ros, x) = Cardinality({y \in ros : before(y, x)})
    <3>1. \A x \in ros : {y \in ros : <<y, x>> \in R} = {y \in ros : before(y, x)}
      OBVIOUS
    <3> QED
      BY <3>1 DEF Rank
  <2>2. \A i : direct(i) = nth(i)
    BY <2>1
  <2>3. s = [i \in 1..m |-> direct(i)]
    BY DEF Sorted
  <2> HIDE DEF direct, nth, s, m
  <2> QED
    BY <2>2, <2>3
<1> HIDE DEF s, R
<1>7. s = [i \in 1..Cardinality(ros) |-> CHOOSE x \in ros : Rank(R, ros, x) = i - 1]
  BY <1>6
<1>8. s \in Seq(ros) /\ Range(s) = ros /\ IsInjective(s)
  BY ONLY <1>3, <1>5, <1>7, SortedLists
<1>9. ListsOnce(s, ros)
  BY <1>8, TypedOnce
<1> QED
  BY <1>1, <1>9 DEF ros

DutyType(S) == [tasks : Seq(TaskType(S)), roster : Int, was : Int, chunk : Int]
Merging(S) == [blocks : Seq(BlockType(S)), duties : Seq(DutyType(S)), next : Nat \ {0}]

(* A task of the merged answer is the task of a record, and names its block.   *)
Renumbers(new, old, base, bs) ==
  /\ new.trips = old.trips
  /\ \E i \in DOMAIN bs : bs[i].id = old.src /\ new.src = base + i

RenumberedDuty(new, old, acc, r) ==
  /\ new.chunk = r.chunk /\ new.was = old.roster
  /\ new.roster = acc.next + Position(RosterOrder(r.plan), old.roster) - 1
  /\ DOMAIN new.tasks = DOMAIN old.tasks
  /\ \A k \in DOMAIN old.tasks : Renumbers(new.tasks[k], old.tasks[k], Len(acc.blocks), r.plan.blocks)

(* What one record adds.                                                       *)
MergesTo(acc, r, n) ==
  LET base == Len(acc.blocks)   e == Len(acc.duties) IN
  /\ Len(n.blocks) = base + Len(r.plan.blocks)
  /\ \A i \in 1..base : n.blocks[i] = acc.blocks[i]
  /\ \A i \in DOMAIN r.plan.blocks :
       n.blocks[base + i].id = base + i /\ n.blocks[base + i].trips = r.plan.blocks[i].trips
  /\ Len(n.duties) = e + Len(r.plan.duties)
  /\ \A d \in 1..e : n.duties[d] = acc.duties[d]
  /\ \A d \in DOMAIN r.plan.duties : RenumberedDuty(n.duties[e + d], r.plan.duties[d], acc, r)
  /\ n.next = acc.next + Len(RosterOrder(r.plan))

LEMMA JoinedSeqs ==
  ASSUME NEW V, NEW s \in Seq(V), NEW t \in Seq(V)
  PROVE  /\ s \o t \in Seq(V) /\ Len(s \o t) = Len(s) + Len(t)
         /\ \A i \in 1..Len(s) : (s \o t)[i] = s[i]
         /\ \A i \in 1..Len(t) : (s \o t)[Len(s) + i] = t[i]
OBVIOUS

LEMMA MergeOne ==
  ASSUME NEW S, NEW acc \in Merging(S), NEW r, PlanFits(r.plan, S), r.chunk \in Int
  PROVE  MergeRecord(acc, r) \in Merging(S) /\ MergesTo(acc, r, MergeRecord(acc, r))
<1> DEFINE base == Len(acc.blocks)
           bs == r.plan.blocks
           ds == r.plan.duties
           ids == [i \in DOMAIN bs |-> bs[i].id]
           Global(src) == base + Position(ids, src)
           rosters == RosterOrder(r.plan)
           Afresh(d) ==
             [tasks |-> [k \in DOMAIN d.tasks |-> [d.tasks[k] EXCEPT !.src = Global(@)]],
              roster |-> acc.next + Position(rosters, d.roster) - 1, was |-> d.roster, chunk |-> r.chunk]
           newBlocks == [i \in DOMAIN ids |-> [id |-> base + i, trips |-> bs[i].trips]]
           newDuties == [i \in DOMAIN ds |-> Afresh(ds[i])]
           n == MergeRecord(acc, r)
<1>1. n = [blocks |-> acc.blocks \o newBlocks, duties |-> acc.duties \o newDuties, next |-> acc.next + Len(rosters)]
  BY DEF MergeRecord, NextRoster
<1>2. /\ acc.blocks \in Seq(BlockType(S)) /\ acc.duties \in Seq(DutyType(S)) /\ acc.next \in Nat \ {0} /\ base \in Nat
  <2>1. acc.blocks \in Seq(BlockType(S)) /\ acc.duties \in Seq(DutyType(S)) /\ acc.next \in Nat \ {0}
    BY DEF Merging
  <2> QED
    BY <2>1
<1>3. /\ bs \in Seq(BlockType(S)) /\ DOMAIN bs = 1..Len(bs) /\ Len(bs) \in Nat /\ DOMAIN ids = DOMAIN bs
      /\ \A i \in DOMAIN bs : bs[i].trips \in Seq(S)
  <2>1. bs \in Seq(BlockType(S))
    BY DEF PlanFits, BlocksApart
  <2>2. \A i \in DOMAIN bs : bs[i] \in BlockType(S)
    BY <2>1
  <2> QED
    BY <2>1, <2>2 DEF BlockType
<1>4. /\ IsList(ds) /\ DOMAIN ds = 1..Len(ds) /\ Len(ds) \in Nat
      /\ \A d \in DOMAIN ds :
           /\ ds[d].tasks \in Seq(TaskType(S)) /\ ds[d].roster \in Int
           /\ \A k \in DOMAIN ds[d].tasks : IsOf(ds[d].tasks[k], bs)
  <2>1. IsList(ds)
    BY DEF PlanFits, DutiesFit
  <2> QED
    BY <2>1, ListDomain DEF PlanFits, DutiesFit
<1>5. IsList(rosters) /\ Len(rosters) \in Nat /\ DOMAIN rosters = 1..Len(rosters)
      /\ \A d \in DOMAIN ds : ds[d].roster \in Range(rosters)
  <2>1. ListsOnce(rosters, {ds[d].roster : d \in DOMAIN ds})
    BY <1>4, RostersListed
  <2>2. IsList(rosters) /\ \A d \in DOMAIN ds : ds[d].roster \in Range(rosters)
    BY <2>1 DEF ListsOnce
  <2> QED
    BY <2>2, ListDomain
<1> HIDE DEF bs, ds, rosters, base
<1>6. newBlocks \in Seq(BlockType(S)) /\ Len(newBlocks) = Len(bs)
      /\ \A i \in DOMAIN bs : newBlocks[i].id = base + i /\ newBlocks[i].trips = bs[i].trips
  <2>1. \A i \in DOMAIN bs : [id |-> base + i, trips |-> bs[i].trips] \in BlockType(S)
    BY <1>2, <1>3 DEF BlockType
  <2>2. newBlocks = [i \in 1..Len(bs) |-> [id |-> base + i, trips |-> bs[i].trips]]
    BY <1>3
  <2> QED
    BY <1>3, <2>1, <2>2
<1>7. ASSUME NEW d \in DOMAIN ds, NEW k \in DOMAIN ds[d].tasks
      PROVE  \E i \in DOMAIN bs : bs[i].id = ds[d].tasks[k].src /\ Global(ds[d].tasks[k].src) = base + i
  <2> DEFINE src == ds[d].tasks[k].src
  <2>1. \E i \in DOMAIN bs : bs[i].id = src
    BY <1>4 DEF IsOf
  <2>2. src \in Range(ids)
    BY <1>3, <2>1 DEF Range
  <2>3. Position(ids, src) \in DOMAIN ids /\ ids[Position(ids, src)] = src
    <3> HIDE DEF ids, src
    <3> QED
      BY <2>2, PositionIs
  <2> QED
    BY <1>3, <2>3
<1>8. ASSUME NEW d \in DOMAIN ds
      PROVE  Afresh(ds[d]) \in DutyType(S) /\ RenumberedDuty(Afresh(ds[d]), ds[d], acc, r)
  <2> DEFINE old == ds[d].tasks
             new == [k \in DOMAIN old |-> [old[k] EXCEPT !.src = Global(@)]]
             x == Afresh(ds[d])
  <2>1. x = [tasks |-> new, roster |-> acc.next + Position(rosters, ds[d].roster) - 1,
             was |-> ds[d].roster, chunk |-> r.chunk]
    OBVIOUS
  <2>2. old \in Seq(TaskType(S)) /\ DOMAIN old = 1..Len(old) /\ Len(old) \in Nat /\ ds[d].roster \in Int
    <3>1. old \in Seq(TaskType(S)) /\ ds[d].roster \in Int
      BY <1>4
    <3> HIDE DEF old
    <3> QED
      BY <3>1
  <2>3. Position(rosters, ds[d].roster) \in 1..Len(rosters)
    BY <1>5, PositionIs
  <2>4. \A k \in DOMAIN old : \E i \in DOMAIN bs : bs[i].id = old[k].src /\ Global(old[k].src) = base + i
    BY <1>7
  <2> HIDE DEF old, Global, x
  <2>5. ASSUME NEW k \in DOMAIN old
        PROVE  new[k] \in TaskType(S) /\ new[k].trips = old[k].trips /\ new[k].src = Global(old[k].src)
    <3>1. old[k] \in TaskType(S)
      BY <2>2
    <3>2. Global(old[k].src) \in Nat \ {0}
      BY <1>2, <1>3, <2>4
    <3>3. new[k] = [old[k] EXCEPT !.src = Global(old[k].src)]
      OBVIOUS
    <3> DEFINE y == old[k]
               z == Global(old[k].src)
    <3> HIDE DEF y, z, new
    <3>4. new[k] = [y EXCEPT !.src = z] /\ y \in TaskType(S) /\ z \in Nat \ {0}
      BY <3>1, <3>2, <3>3 DEF y, z
    <3>5. new[k] \in TaskType(S) /\ new[k].trips = y.trips /\ new[k].src = z
      BY <3>4 DEF TaskType
    <3> QED
      BY <3>5 DEF y, z
  <2>6. DOMAIN new = DOMAIN old /\ new = [k \in 1..Len(old) |-> new[k]]
    BY <2>2
  <2> HIDE DEF new
  <2>7. new \in Seq(TaskType(S))
    BY <2>2, <2>5, <2>6
  <2>8. x \in DutyType(S)
    <3>1. acc.next + Position(rosters, ds[d].roster) - 1 \in Int
      BY <1>2, <1>5, <2>3
    <3> QED
      BY <2>1, <2>2, <2>7, <3>1 DEF DutyType
  <2>9. /\ x.tasks = new /\ x.chunk = r.chunk /\ x.was = ds[d].roster
        /\ x.roster = acc.next + Position(rosters, ds[d].roster) - 1
    BY <2>1
  <2>10. \A k \in DOMAIN old : Renumbers(new[k], old[k], base, bs)
    BY <2>4, <2>5 DEF Renumbers
  <2>11. RenumberedDuty(x, ds[d], acc, r)
    BY <2>6, <2>9, <2>10 DEF RenumberedDuty, old, base, bs, rosters
  <2> QED
    BY <2>8, <2>11 DEF x
<1>9. DOMAIN newDuties = DOMAIN ds /\ \A d \in DOMAIN ds : newDuties[d] = Afresh(ds[d])
  OBVIOUS
<1> HIDE DEF Afresh, newBlocks
<1>10. newDuties \in Seq(DutyType(S)) /\ Len(newDuties) = Len(ds)
  <2>1. newDuties = [d \in 1..Len(ds) |-> Afresh(ds[d])]
    BY <1>4
  <2>2. \A d \in 1..Len(ds) : Afresh(ds[d]) \in DutyType(S)
    BY <1>4, <1>8
  <2> QED
    BY <1>4, <2>1, <2>2
<1> HIDE DEF newDuties
<1> DEFINE e == Len(acc.duties)
           blocks == acc.blocks \o newBlocks
           duties == acc.duties \o newDuties
<1>11. /\ blocks \in Seq(BlockType(S)) /\ Len(blocks) = base + Len(bs)
       /\ \A i \in 1..base : blocks[i] = acc.blocks[i]
       /\ \A i \in DOMAIN bs : blocks[base + i] = newBlocks[i]
  <2> DEFINE u == acc.blocks
             w == newBlocks
  <2>1. u \in Seq(BlockType(S)) /\ w \in Seq(BlockType(S))
    BY <1>2, <1>6
  <2> HIDE DEF u, w
  <2>2. /\ u \o w \in Seq(BlockType(S)) /\ Len(u \o w) = Len(u) + Len(w)
        /\ \A i \in 1..Len(u) : (u \o w)[i] = u[i]
        /\ \A i \in 1..Len(w) : (u \o w)[Len(u) + i] = w[i]
    BY ONLY <2>1, JoinedSeqs
  <2>3. blocks = u \o w /\ base = Len(u) /\ Len(bs) = Len(w) /\ DOMAIN bs = 1..Len(w)
    BY <1>3, <1>6 DEF base, u, w
  <2> HIDE DEF blocks
  <2> QED
    BY <2>2, <2>3 DEF u, w
<1>12. /\ duties \in Seq(DutyType(S)) /\ Len(duties) = e + Len(ds)
       /\ \A d \in 1..e : duties[d] = acc.duties[d]
       /\ \A d \in DOMAIN ds : duties[e + d] = newDuties[d]
  <2> DEFINE u == acc.duties
             w == newDuties
  <2>1. u \in Seq(DutyType(S)) /\ w \in Seq(DutyType(S))
    BY <1>2, <1>10
  <2> HIDE DEF u, w
  <2>2. /\ u \o w \in Seq(DutyType(S)) /\ Len(u \o w) = Len(u) + Len(w)
        /\ \A i \in 1..Len(u) : (u \o w)[i] = u[i]
        /\ \A i \in 1..Len(w) : (u \o w)[Len(u) + i] = w[i]
    BY ONLY <2>1, JoinedSeqs
  <2>3. duties = u \o w /\ e = Len(u) /\ Len(ds) = Len(w) /\ DOMAIN ds = 1..Len(w)
    BY <1>4, <1>10 DEF u, w
  <2> HIDE DEF duties, e
  <2> QED
    BY <2>2, <2>3 DEF u, w
<1>13. n.blocks = blocks /\ n.duties = duties /\ n.next = acc.next + Len(rosters)
       /\ n = [blocks |-> blocks, duties |-> duties, next |-> n.next]
  BY <1>1
<1> HIDE DEF n, blocks, duties
<1>14. n \in Merging(S)
  <2>1. n.next \in Nat \ {0}
    BY <1>2, <1>5, <1>13
  <2> QED
    BY <1>11, <1>12, <1>13, <2>1 DEF Merging
<1>15. MergesTo(acc, r, n)
  <2>1. \A i \in DOMAIN bs : n.blocks[base + i].id = base + i /\ n.blocks[base + i].trips = bs[i].trips
    BY <1>6, <1>11, <1>13
  <2>2. \A d \in DOMAIN ds : RenumberedDuty(n.duties[e + d], ds[d], acc, r)
    BY <1>8, <1>9, <1>12, <1>13 DEF newDuties
  <2> QED
    BY <1>11, <1>12, <1>13, <2>1, <2>2 DEF MergesTo, base, bs, ds, rosters
<1> QED
  BY <1>14, <1>15 DEF n

(* Rosters are shared where the duties' rosters were shared in one chunk.      *)
RostersKeep(ds) ==
  \A d, e \in DOMAIN ds : ds[d].roster = ds[e].roster <=> (ds[d].chunk = ds[e].chunk /\ ds[d].was = ds[e].was)

(* What the merge has made of the chunks C with the trips X.                   *)
BlocksMerged(blocks, S, X) ==
  BlocksApart(blocks, S) /\ \A i \in DOMAIN blocks : blocks[i].id = i /\ Drives(blocks[i]) \subseteq X
MergedKept(acc, S, X, C) ==
  /\ BlocksMerged(acc.blocks, S, X)
  /\ DutiesFit(acc.blocks, acc.duties, {}, S)
  /\ RostersKeep(acc.duties)
  /\ \A d \in DOMAIN acc.duties : acc.duties[d].chunk \in C /\ acc.duties[d].roster < acc.next

(* The blocks of a record follow those there are.                              *)
BlocksAdded(acc, r, n) ==
  /\ DOMAIN acc.blocks \subseteq DOMAIN n.blocks /\ \A i \in DOMAIN acc.blocks : n.blocks[i] = acc.blocks[i]
  /\ \A j \in DOMAIN r.plan.blocks :
       /\ Len(acc.blocks) + j \in DOMAIN n.blocks /\ n.blocks[Len(acc.blocks) + j].id = Len(acc.blocks) + j
       /\ Drives(n.blocks[Len(acc.blocks) + j]) = Drives(r.plan.blocks[j])
  /\ \A i \in DOMAIN n.blocks : i \in DOMAIN acc.blocks \/ \E j \in DOMAIN r.plan.blocks : i = Len(acc.blocks) + j

LEMMA MergeBlocks ==
  ASSUME NEW S, NEW X, NEW Y, X \cap Y = {}, NEW acc \in Merging(S), BlocksMerged(acc.blocks, S, X),
         NEW r, PlanFits(r.plan, S), \A i \in DOMAIN r.plan.blocks : Drives(r.plan.blocks[i]) \subseteq Y,
         NEW n \in Merging(S), MergesTo(acc, r, n)
  PROVE  BlocksMerged(n.blocks, S, X \cup Y) /\ BlocksAdded(acc, r, n)
<1> DEFINE base == Len(acc.blocks)
           old == acc.blocks
           bs == r.plan.blocks
           new == n.blocks
           m == Len(bs)
<1>1. /\ old \in Seq(BlockType(S)) /\ new \in Seq(BlockType(S)) /\ base \in Nat /\ DOMAIN old = 1..base
      /\ bs \in Seq(BlockType(S)) /\ m \in Nat /\ DOMAIN bs = 1..m /\ DOMAIN new = 1..Len(new) /\ Len(new) = base + m
  <2>1. old \in Seq(BlockType(S)) /\ new \in Seq(BlockType(S))
    BY DEF Merging
  <2>2. bs \in Seq(BlockType(S))
    BY DEF PlanFits, BlocksApart
  <2>3. Len(new) = base + m
    BY DEF MergesTo
  <2> HIDE DEF new, bs, old
  <2> QED
    BY <2>1, <2>2, <2>3 DEF old
<1>2. /\ \A i \in 1..base : new[i] = old[i]
      /\ \A j \in 1..m : new[base + j].id = base + j /\ new[base + j].trips = bs[j].trips
  BY <1>1 DEF MergesTo
<1>3. /\ \A i \in 1..base : old[i].id = i /\ NoTwice(old[i]) /\ Drives(old[i]) \subseteq X
      /\ \A i, j \in 1..base : i # j => Drives(old[i]) \cap Drives(old[j]) = {}
  BY <1>1 DEF BlocksMerged, BlocksApart
<1>4. /\ \A j \in 1..m : NoTwice(bs[j]) /\ Drives(bs[j]) \subseteq Y
      /\ \A i, j \in 1..m : i # j => Drives(bs[i]) \cap Drives(bs[j]) = {}
  BY <1>1 DEF PlanFits, BlocksApart
<1> HIDE DEF base, m, new, old, bs
<1>5. \A i \in 1..(base + m) : i \in 1..base \/ \E j \in 1..m : i = base + j
  <2> TAKE i \in 1..(base + m)
  <2>1. i \in 1..base \/ i - base \in 1..m
    BY <1>1
  <2>2. i = base + (i - base)
    BY <1>1
  <2> QED
    BY <2>1, <2>2
<1>6. \A j \in 1..m : base + j \in 1..(base + m) /\ base + j \notin 1..base
  BY <1>1
<1>7. \A j \in 1..m : NoTwice(new[base + j]) /\ Drives(new[base + j]) = Drives(bs[j])
  BY <1>2, <1>4 DEF NoTwice, Drives
<1>8. \A i \in 1..(base + m) : new[i].id = i /\ NoTwice(new[i]) /\ Drives(new[i]) \subseteq X \cup Y
  BY <1>2, <1>3, <1>4, <1>5, <1>7
<1>9. ASSUME NEW i \in 1..(base + m), NEW j \in 1..(base + m), i # j PROVE Drives(new[i]) \cap Drives(new[j]) = {}
  <2>1. CASE i \in 1..base /\ j \in 1..base
    BY <1>2, <1>3, <1>9, <2>1
  <2>2. CASE i \in 1..base /\ j \notin 1..base
    <3>1. PICK l \in 1..m : j = base + l
      BY <1>5, <2>2
    <3> QED
      BY <1>2, <1>3, <1>4, <1>7, <2>2, <3>1
  <2>3. CASE i \notin 1..base /\ j \in 1..base
    <3>1. PICK l \in 1..m : i = base + l
      BY <1>5, <2>3
    <3> QED
      BY <1>2, <1>3, <1>4, <1>7, <2>3, <3>1
  <2>4. CASE i \notin 1..base /\ j \notin 1..base
    <3>1. PICK l \in 1..m, k \in 1..m : i = base + l /\ j = base + k
      BY <1>5, <2>4
    <3>2. l # k
      BY <1>9, <3>1
    <3> QED
      BY <1>4, <1>7, <3>1, <3>2
  <2> QED
    BY <2>1, <2>2, <2>3, <2>4
<1>10. BlocksMerged(new, S, X \cup Y)
  <2>1. BlocksApart(new, S)
    BY <1>1, <1>8, <1>9 DEF BlocksApart
  <2> QED
    BY <1>1, <1>8, <2>1 DEF BlocksMerged
<1>11. /\ DOMAIN old \subseteq DOMAIN new /\ \A i \in DOMAIN old : new[i] = old[i]
  BY <1>1, <1>2
<1>12. \A j \in DOMAIN bs : base + j \in DOMAIN new /\ new[base + j].id = base + j
         /\ Drives(new[base + j]) = Drives(bs[j])
  BY <1>1, <1>2, <1>6, <1>7
<1>13. \A i \in DOMAIN new : i \in DOMAIN old \/ \E j \in DOMAIN bs : i = base + j
  BY <1>1, <1>5
<1> QED
  BY <1>10, <1>11, <1>12, <1>13 DEF BlocksAdded, new, old, bs, base

LEMMA MergeDuties ==
  ASSUME NEW S, NEW X, NEW Y, X \cap Y = {}, NEW C, NEW acc \in Merging(S), MergedKept(acc, S, X, C),
         NEW r, PlanFits(r.plan, S), r.plan.bare = {}, r.chunk \notin C,
         \A i \in DOMAIN r.plan.blocks : Drives(r.plan.blocks[i]) \subseteq Y,
         NEW n \in Merging(S), MergesTo(acc, r, n)
  PROVE  MergedKept(n, S, X \cup Y, C \cup {r.chunk})
<1> DEFINE base == Len(acc.blocks)
           e == Len(acc.duties)
           old == acc.duties
           ds == r.plan.duties
           new == n.duties
           bs == r.plan.blocks
           m == Len(ds)
<1>1. /\ BlocksMerged(n.blocks, S, X \cup Y)
      /\ DOMAIN acc.blocks \subseteq DOMAIN n.blocks /\ \A i \in DOMAIN acc.blocks : n.blocks[i] = acc.blocks[i]
      /\ \A j \in DOMAIN bs : base + j \in DOMAIN n.blocks /\ n.blocks[base + j].id = base + j
           /\ Drives(n.blocks[base + j]) = Drives(bs[j])
      /\ \A i \in DOMAIN n.blocks : i \in DOMAIN acc.blocks \/ \E j \in DOMAIN bs : i = base + j
  <2>1. /\ X \cap Y = {} /\ acc \in Merging(S) /\ BlocksMerged(acc.blocks, S, X) /\ PlanFits(r.plan, S)
        /\ \A i \in DOMAIN r.plan.blocks : Drives(r.plan.blocks[i]) \subseteq Y
        /\ n \in Merging(S) /\ MergesTo(acc, r, n)
    BY DEF MergedKept
  <2>2. BlocksMerged(n.blocks, S, X \cup Y)
    BY ONLY <2>1, MergeBlocks
  <2>3. BlocksAdded(acc, r, n)
    BY ONLY <2>1, MergeBlocks
  <2> QED
    BY ONLY <2>2, <2>3 DEF BlocksAdded, bs, base
<1>2. /\ old \in Seq(DutyType(S)) /\ new \in Seq(DutyType(S)) /\ e \in Nat /\ DOMAIN old = 1..e
      /\ IsList(ds) /\ m \in Nat /\ DOMAIN ds = 1..m /\ DOMAIN new = 1..Len(new) /\ Len(new) = e + m
      /\ IsList(new)
  <2>1. old \in Seq(DutyType(S)) /\ new \in Seq(DutyType(S))
    BY DEF Merging
  <2>2. IsList(ds)
    BY DEF PlanFits, DutiesFit
  <2>3. Len(new) = e + m
    BY DEF MergesTo
  <2>4. m \in Nat /\ DOMAIN ds = 1..m
    BY <2>2, ListDomain
  <2> HIDE DEF new, ds, old, m
  <2>5. new = [i \in 1..Len(new) |-> new[i]] /\ Len(new) \in Nat
    BY <2>1
  <2>6. IsList(new)
    BY <2>5, MadeList
  <2> QED
    BY <2>1, <2>2, <2>3, <2>4, <2>6 DEF old
<1>3. /\ \A d \in 1..e : new[d] = old[d]
      /\ \A d \in 1..m : RenumberedDuty(new[e + d], ds[d], acc, r)
  BY <1>2 DEF MergesTo
<1>4. DutiesFit(acc.blocks, old, {}, S) /\ DutiesFit(bs, ds, {}, S)
  BY DEF MergedKept, PlanFits
<1>5. /\ \A i, j \in DOMAIN bs : i # j => bs[i].id # bs[j].id
      /\ \A i \in DOMAIN bs : Drives(bs[i]) \subseteq Y
  BY DEF PlanFits, BlocksApart
<1>6. \A i \in DOMAIN acc.blocks : Drives(acc.blocks[i]) \subseteq X
  BY DEF MergedKept, BlocksMerged
<1>7. RostersKeep(old) /\ \A d \in 1..e : old[d].chunk \in C /\ old[d].roster < acc.next
  BY <1>2 DEF MergedKept
<1>8. acc.next \in Nat \ {0} /\ n.next = acc.next + Len(RosterOrder(r.plan))
  <2>1. acc.next \in Nat \ {0}
    BY DEF Merging
  <2> QED
    BY <2>1 DEF MergesTo
<1>9. /\ ListsOnce(RosterOrder(r.plan), {ds[d].roster : d \in DOMAIN ds})
  BY <1>2, RostersListed
<1>10. /\ \A d \in 1..(e + m) : new[d].roster \in Int /\ new[d].tasks \in Seq(TaskType(S))
  <2>1. \A d \in DOMAIN new : new[d] \in DutyType(S)
    <3>1. new \in Seq(DutyType(S))
      BY <1>2
    <3> HIDE DEF new
    <3> QED
      BY ONLY <3>1
  <2>2. \A x \in DutyType(S) : x.roster \in Int /\ x.tasks \in Seq(TaskType(S))
    BY DEF DutyType
  <2>3. DOMAIN new = 1..(e + m)
    BY <1>2
  <2> HIDE DEF new, e, m
  <2> QED
    BY <2>1, <2>2, <2>3
<1> HIDE DEF base, e, old, ds, new, bs, m
<1>11. \A d \in 1..(e + m) : d \in 1..e \/ \E c \in 1..m : d = e + c
  <2> TAKE d \in 1..(e + m)
  <2>1. d \in 1..e \/ d - e \in 1..m
    BY <1>2
  <2>2. d = e + (d - e)
    BY <1>2
  <2> QED
    BY <2>1, <2>2
<1>12. \A d \in 1..m : e + d \in 1..(e + m) /\ e + d \notin 1..e
  BY <1>2
(* A task of the new duties. *)
<1>13. ASSUME NEW d \in 1..e
       PROVE  \A k \in DOMAIN new[d].tasks :
                /\ NoTwice(new[d].tasks[k]) /\ IsOf(new[d].tasks[k], n.blocks)
                /\ Drives(new[d].tasks[k]) \subseteq X
  <2> TAKE k \in DOMAIN new[d].tasks
  <2> DEFINE x == new[d].tasks[k]
  <2>1. NoTwice(x) /\ IsOf(x, acc.blocks)
    BY <1>2, <1>3, <1>4 DEF DutiesFit
  <2> HIDE DEF x
  <2>2. PICK i \in DOMAIN acc.blocks : acc.blocks[i].id = x.src /\ Drives(x) \subseteq Drives(acc.blocks[i])
    BY <2>1 DEF IsOf
  <2>3. IsOf(x, n.blocks) /\ Drives(x) \subseteq X
    BY <1>1, <1>6, <2>2 DEF IsOf
  <2> QED
    BY <2>1, <2>3 DEF x
<1>14. ASSUME NEW d \in 1..m
       PROVE  /\ DOMAIN new[e + d].tasks = DOMAIN ds[d].tasks
              /\ \A k \in DOMAIN ds[d].tasks :
                   /\ NoTwice(new[e + d].tasks[k]) /\ IsOf(new[e + d].tasks[k], n.blocks)
                   /\ Drives(new[e + d].tasks[k]) = Drives(ds[d].tasks[k])
                   /\ Drives(ds[d].tasks[k]) \subseteq Y
  <2>1. RenumberedDuty(new[e + d], ds[d], acc, r)
    BY <1>3
  <2>2. /\ DOMAIN new[e + d].tasks = DOMAIN ds[d].tasks
        /\ \A k \in DOMAIN ds[d].tasks : Renumbers(new[e + d].tasks[k], ds[d].tasks[k], base, bs)
    BY <2>1 DEF RenumberedDuty, base, bs
  <2>3. ASSUME NEW k \in DOMAIN ds[d].tasks
        PROVE  /\ NoTwice(new[e + d].tasks[k]) /\ IsOf(new[e + d].tasks[k], n.blocks)
               /\ Drives(new[e + d].tasks[k]) = Drives(ds[d].tasks[k])
               /\ Drives(ds[d].tasks[k]) \subseteq Y
    <3> DEFINE x == new[e + d].tasks[k]
               y == ds[d].tasks[k]
    <3>1. NoTwice(y) /\ IsOf(y, bs)
      BY <1>2, <1>4 DEF DutiesFit
    <3>2. Renumbers(x, y, base, bs)
      BY <2>2
    <3> HIDE DEF x, y
    <3>3. x.trips = y.trips
      BY <3>2 DEF Renumbers
    <3>4. NoTwice(x) /\ Drives(x) = Drives(y)
      BY <3>1, <3>3 DEF NoTwice, Drives
    <3>5. PICK i \in DOMAIN bs : bs[i].id = y.src /\ x.src = base + i
      BY <3>2 DEF Renumbers
    <3>6. PICK j \in DOMAIN bs : bs[j].id = y.src /\ Drives(y) \subseteq Drives(bs[j])
      BY <3>1 DEF IsOf
    <3>7. i = j
      BY <1>5, <3>5, <3>6
    <3>8. IsOf(x, n.blocks) /\ Drives(y) \subseteq Y
      BY <1>1, <1>5, <3>4, <3>5, <3>6, <3>7 DEF IsOf
    <3> QED
      BY <3>1, <3>4, <3>8 DEF x, y
  <2> QED
    BY <2>2, <2>3
<1>15. ASSUME NEW d \in 1..(e + m), NEW k \in DOMAIN new[d].tasks
       PROVE  NoTwice(new[d].tasks[k]) /\ IsOf(new[d].tasks[k], n.blocks)
  BY <1>11, <1>13, <1>14
<1>16. ASSUME NEW d \in 1..(e + m), NEW c \in 1..(e + m),
              NEW k \in DOMAIN new[d].tasks, NEW l \in DOMAIN new[c].tasks, ~(d = c /\ k = l)
       PROVE  Drives(new[d].tasks[k]) \cap Drives(new[c].tasks[l]) = {}
  <2>1. CASE d \in 1..e /\ c \in 1..e
    BY <1>2, <1>3, <1>4, <1>16, <2>1 DEF DutiesFit
  <2>2. CASE d \in 1..e /\ c \notin 1..e
    <3>1. PICK b \in 1..m : c = e + b
      BY <1>11, <2>2
    <3>2. Drives(new[d].tasks[k]) \subseteq X /\ Drives(new[c].tasks[l]) \subseteq Y
      BY <1>13, <1>14, <2>2, <3>1
    <3> QED
      BY <3>2
  <2>3. CASE d \notin 1..e /\ c \in 1..e
    <3>1. PICK b \in 1..m : d = e + b
      BY <1>11, <2>3
    <3>2. Drives(new[c].tasks[l]) \subseteq X /\ Drives(new[d].tasks[k]) \subseteq Y
      BY <1>13, <1>14, <2>3, <3>1
    <3> QED
      BY <3>2
  <2>4. CASE d \notin 1..e /\ c \notin 1..e
    <3>1. PICK b \in 1..m, a \in 1..m : d = e + b /\ c = e + a
      BY <1>11, <2>4
    <3>2. b # a \/ k # l
      BY <1>16, <3>1
    <3>3. /\ Drives(new[d].tasks[k]) = Drives(ds[b].tasks[k]) /\ k \in DOMAIN ds[b].tasks
          /\ Drives(new[c].tasks[l]) = Drives(ds[a].tasks[l]) /\ l \in DOMAIN ds[a].tasks
      BY <1>14, <3>1
    <3>4. Drives(ds[b].tasks[k]) \cap Drives(ds[a].tasks[l]) = {}
      BY <1>2, <1>4, <3>2, <3>3 DEF DutiesFit
    <3> QED
      BY <3>3, <3>4
  <2> QED
    BY <2>1, <2>2, <2>3, <2>4
<1>17. ASSUME NEW i \in DOMAIN n.blocks, NEW t \in Drives(n.blocks[i])
       PROVE  \E d \in 1..(e + m) : \E k \in DOMAIN new[d].tasks : t \in Drives(new[d].tasks[k])
  <2>1. CASE i \in DOMAIN acc.blocks
    <3>1. t \in Drives(acc.blocks[i])
      BY <1>1, <2>1
    <3>2. PICK d \in DOMAIN old : \E k \in DOMAIN old[d].tasks : t \in Drives(old[d].tasks[k])
      BY <1>4, <2>1, <3>1 DEF DutiesFit
    <3>3. d \in 1..(e + m) /\ new[d] = old[d]
      BY <1>2, <1>3, <3>2
    <3> QED
      BY <3>2, <3>3
  <2>2. CASE \E j \in DOMAIN bs : i = base + j
    <3>1. PICK j \in DOMAIN bs : i = base + j
      BY <2>2
    <3>2. t \in Drives(bs[j])
      BY <1>1, <3>1
    <3>3. PICK d \in DOMAIN ds : \E k \in DOMAIN ds[d].tasks : t \in Drives(ds[d].tasks[k])
      BY <1>4, <3>1, <3>2 DEF DutiesFit
    <3>4. PICK k \in DOMAIN ds[d].tasks : t \in Drives(ds[d].tasks[k])
      BY <3>3
    <3>5. d \in 1..m /\ e + d \in 1..(e + m)
      BY <1>2, <1>12, <3>3
    <3> QED
      BY <1>14, <3>4, <3>5
  <2> QED
    BY <1>1, <2>1, <2>2
<1>18. DutiesFit(n.blocks, new, {}, S)
  BY <1>2, <1>10, <1>15, <1>16, <1>17 DEF DutiesFit
(* Rosters. *)
<1> DEFINE q == RosterOrder(r.plan)
<1>19. /\ \A d \in 1..m : Position(q, ds[d].roster) \in 1..Len(q) /\ q[Position(q, ds[d].roster)] = ds[d].roster
       /\ Len(q) \in Nat
  <2>1. IsList(q) /\ Range(q) = {ds[d].roster : d \in DOMAIN ds}
    BY <1>9 DEF ListsOnce
  <2>2. DOMAIN q = 1..Len(q) /\ Len(q) \in Nat
    BY <2>1, ListDomain
  <2> QED
    BY <1>2, <2>1, <2>2, PositionIs
<1>20. \A d \in 1..m : /\ new[e + d].chunk = r.chunk /\ new[e + d].was = ds[d].roster
                       /\ new[e + d].roster = acc.next + Position(q, ds[d].roster) - 1
  BY <1>3 DEF RenumberedDuty
<1> HIDE DEF q
<1>21. n.next = acc.next + Len(q)
  BY <1>8 DEF q
<1>22. ASSUME NEW d \in 1..(e + m)
       PROVE  new[d].chunk \in C \cup {r.chunk} /\ new[d].roster < n.next
  <2>1. CASE d \in 1..e
    <3>1. new[d].chunk \in C /\ new[d].roster < acc.next /\ new[d].roster \in Int
      BY <1>3, <1>7, <1>10, <2>1
    <3> QED
      BY <1>8, <1>19, <1>21, <3>1
  <2>2. CASE d \notin 1..e
    <3>1. PICK c \in 1..m : d = e + c
      BY <1>11, <2>2
    <3>2. new[d].chunk = r.chunk /\ new[d].roster = acc.next + Position(q, ds[c].roster) - 1
          /\ Position(q, ds[c].roster) \in 1..Len(q)
      BY <1>19, <1>20, <3>1
    <3> QED
      BY <1>8, <1>19, <1>21, <3>2
  <2> QED
    BY <2>1, <2>2
<1>23. \A d \in 1..m : new[e + d].roster >= acc.next
  BY <1>8, <1>19, <1>20
<1>24. ASSUME NEW d \in 1..(e + m), NEW c \in 1..(e + m)
       PROVE  new[d].roster = new[c].roster <=> (new[d].chunk = new[c].chunk /\ new[d].was = new[c].was)
  <2>1. CASE d \in 1..e /\ c \in 1..e
    BY <1>2, <1>3, <1>7, <2>1 DEF RostersKeep
  <2>2. ASSUME NEW a \in 1..e, NEW b \in 1..m
        PROVE  new[a].roster # new[e + b].roster /\ new[a].chunk # new[e + b].chunk
    <3>1. new[a].chunk \in C /\ new[a].roster < acc.next /\ new[a].roster \in Int
      BY <1>2, <1>3, <1>7, <1>10
    <3>2. new[e + b].roster >= acc.next /\ new[e + b].chunk = r.chunk /\ new[e + b].roster \in Int
      BY <1>10, <1>12, <1>20, <1>23
    <3> QED
      BY <1>8, <3>1, <3>2
  <2>3. CASE ~(d \in 1..e /\ c \in 1..e) /\ (d \in 1..e \/ c \in 1..e)
    BY <1>11, <2>2, <2>3
  <2>4. CASE d \notin 1..e /\ c \notin 1..e
    <3>1. PICK b \in 1..m, a \in 1..m : d = e + b /\ c = e + a
      BY <1>11, <2>4
    <3>2. /\ new[d].roster = acc.next + Position(q, ds[b].roster) - 1
          /\ new[c].roster = acc.next + Position(q, ds[a].roster) - 1
          /\ Position(q, ds[b].roster) \in Int /\ Position(q, ds[a].roster) \in Int
          /\ new[d].chunk = new[c].chunk /\ new[d].was = ds[b].roster /\ new[c].was = ds[a].roster
          /\ q[Position(q, ds[b].roster)] = ds[b].roster /\ q[Position(q, ds[a].roster)] = ds[a].roster
      BY <1>19, <1>20, <3>1
    <3>3. new[d].roster = new[c].roster => Position(q, ds[b].roster) = Position(q, ds[a].roster)
      <4> DEFINE x == Position(q, ds[b].roster)
                 y == Position(q, ds[a].roster)
                 z == acc.next
                 v == new[d].roster
                 w == new[c].roster
      <4>1. x \in Int /\ y \in Int /\ z \in Int /\ v = z + x - 1 /\ w = z + y - 1
        BY <1>8, <3>2
      <4> HIDE DEF x, y, z, v, w
      <4>2. v = w => x = y
        BY ONLY <4>1
      <4> QED
        BY ONLY <4>2 DEF x, y, v, w
    <3> QED
      BY <3>2, <3>3
  <2> QED
    BY <2>1, <2>3, <2>4
<1>25. RostersKeep(new)
  BY <1>2, <1>24 DEF RostersKeep
<1> QED
  BY <1>1, <1>2, <1>18, <1>22, <1>25 DEF MergedKept, new

-------------------------------------------------------------------------------
(* What fits some trips fits more.                                             *)
LEMMA PlanWider ==
  ASSUME NEW Y, NEW S, Y \subseteq S, NEW p, PlanFits(p, Y)
  PROVE  PlanFits(p, S) /\ \A i \in DOMAIN p.blocks : Drives(p.blocks[i]) \subseteq Y
<1>1. Seq(Y) \subseteq Seq(S)
  BY SeqMonotonic
<1>2. BlockType(Y) \subseteq BlockType(S) /\ TaskType(Y) \subseteq TaskType(S)
  BY <1>1 DEF BlockType, TaskType
<1>3. Seq(BlockType(Y)) \subseteq Seq(BlockType(S)) /\ Seq(TaskType(Y)) \subseteq Seq(TaskType(S))
  BY <1>2, SeqMonotonic
<1>4. BlocksApart(p.blocks, S)
  BY <1>3 DEF PlanFits, BlocksApart
<1>5. DutiesFit(p.blocks, p.duties, p.bare, S)
  BY <1>3 DEF PlanFits, DutiesFit
<1>6. ASSUME NEW i \in DOMAIN p.blocks PROVE Drives(p.blocks[i]) \subseteq Y
  <2>1. p.blocks \in Seq(BlockType(Y))
    BY DEF PlanFits, BlocksApart
  <2>2. p.blocks[i] \in BlockType(Y)
    BY <2>1
  <2>3. p.blocks[i].trips \in Seq(Y)
    BY <2>2 DEF BlockType
  <2>4. Range(p.blocks[i].trips) \subseteq Y
    BY <2>3 DEF Range
  <2> QED
    BY <2>4 DEF Drives
<1> QED
  BY <1>4, <1>5, <1>6 DEF PlanFits

(* Accepted results: each fits the trips of its chunk, no chunk has two.       *)
ChunksApart(cs, S) ==
  \A i, j \in DOMAIN cs : cs[i].trips \subseteq S /\ (i # j => cs[i].trips \cap cs[j].trips = {})
RecordFits(r, cs) ==
  r.chunk \in Int /\ r.chunk \in DOMAIN cs /\ PlanFits(r.plan, cs[r.chunk].trips) /\ r.plan.bare = {}
RecordsFit(rs, cs) ==
  /\ IsList(rs) /\ \A k \in DOMAIN rs : RecordFits(rs[k], cs)
  /\ \A k, l \in DOMAIN rs : k # l => rs[k].chunk # rs[l].chunk

Empty == [blocks |-> <<>>, duties |-> <<>>, next |-> 1]

LEMMA EmptyMerge ==
  ASSUME NEW S
  PROVE  Empty \in Merging(S) /\ MergedKept(Empty, S, {}, {})
<1>1. Empty \in Merging(S)
  BY EmptyList DEF Empty, Merging
<1>2. Empty.blocks = <<>> /\ Empty.duties = <<>>
  BY DEF Empty
<1>3. IsList(<<>>)
  BY EmptyList DEF IsList
<1>4. BlocksMerged(<<>>, S, {})
  BY EmptyList DEF BlocksMerged, BlocksApart
<1>5. DutiesFit(<<>>, <<>>, {}, S)
  BY <1>3, EmptyList DEF DutiesFit
<1>6. RostersKeep(<<>>)
  BY EmptyList DEF RostersKeep
<1> QED
  BY <1>1, <1>2, <1>4, <1>5, <1>6, EmptyList DEF MergedKept

(* The merge of accepted results.                                              *)
LEMMA MergeStep ==
  ASSUME NEW S, NEW cs, ChunksApart(cs, S), NEW r, RecordFits(r, cs), NEW acc \in Merging(S)
  PROVE  /\ MergeRecord(acc, r) \in Merging(S)
         /\ \A X, C : /\ X \cap cs[r.chunk].trips = {} /\ r.chunk \notin C /\ MergedKept(acc, S, X, C)
                      => MergedKept(MergeRecord(acc, r), S, X \cup cs[r.chunk].trips, C \cup {r.chunk})
<1> DEFINE Y == cs[r.chunk].trips
           n == MergeRecord(acc, r)
<1>1. PlanFits(r.plan, S) /\ r.chunk \in Int /\ r.plan.bare = {}
      /\ \A i \in DOMAIN r.plan.blocks : Drives(r.plan.blocks[i]) \subseteq Y
  <2>1. PlanFits(r.plan, Y) /\ Y \subseteq S
    BY DEF RecordFits, ChunksApart
  <2> HIDE DEF Y
  <2> QED
    BY <2>1, PlanWider DEF RecordFits
<1>2. n \in Merging(S) /\ MergesTo(acc, r, n)
  BY <1>1, MergeOne
<1> HIDE DEF n, Y
<1>3. ASSUME NEW X, NEW C, X \cap Y = {}, r.chunk \notin C, MergedKept(acc, S, X, C)
      PROVE  MergedKept(n, S, X \cup Y, C \cup {r.chunk})
  <2>1. acc \in Merging(S)
    OBVIOUS
  <2> QED
    BY ONLY <1>1, <1>2, <1>3, <2>1, MergeDuties
<1> QED
  BY <1>2, <1>3 DEF n, Y

LEMMA MergedFit ==
  ASSUME NEW S, NEW cs, ChunksApart(cs, S), NEW rs, RecordsFit(rs, cs)
  PROVE  LET all == FoldLeft(MergeRecord, [blocks |-> <<>>, duties |-> <<>>, next |-> 1], rs) IN
         /\ BlocksMerged(all.blocks, S, S) /\ all.duties \in Seq(DutyType(S))
         /\ DutiesFit(all.blocks, all.duties, {}, S) /\ RostersKeep(all.duties)
<1> DEFINE D == DOMAIN rs
           V == Merging(S)
           After(v, k) == MergeRecord(v, rs[k])
           Once(g) == [T \in SUBSET D |-> IF T = {} THEN Empty ELSE After(g[Lower(T)], Max(T))]
           step == [x \in D \X V |-> MergeRecord(x[2], rs[x[1]])]
           f == CHOOSE h : h = Once(h)
           X(T) == UNION {cs[rs[k].chunk].trips : k \in T}
           C(T) == {rs[k].chunk : k \in T}
           Good(T, v) == v \in V /\ MergedKept(v, S, X(T), C(T))
           G == {x \in (SUBSET D) \X V : Good(x[1], x[2])}
<1>1. FoldLeft(MergeRecord, Empty, rs) = f[D]
  BY DEF FoldLeft, MapThenFoldSet, Lower
<1>2. IsFiniteSet(D) /\ D \subseteq Int /\ \A k \in D : RecordFits(rs[k], cs)
  <2>1. IsFiniteSet(D) /\ D = 1..Len(rs) /\ Len(rs) \in Nat
    BY ListDomain DEF RecordsFit
  <2> QED
    BY <2>1 DEF RecordsFit
<1>3. \A k, l \in D : k # l => rs[k].chunk # rs[l].chunk /\ cs[rs[k].chunk].trips \cap cs[rs[l].chunk].trips = {}
  BY <1>2 DEF RecordsFit, RecordFits, ChunksApart
<1>4. X(D) \subseteq S
  BY <1>2 DEF RecordFits, ChunksApart
<1> HIDE DEF D
<1>6. Empty \in V /\ Good({}, Empty)
  <2>1. X({}) = {} /\ C({}) = {}
    OBVIOUS
  <2> QED
    BY <2>1, EmptyMerge
<1>7. ASSUME NEW v \in V, NEW k \in D PROVE After(v, k) \in V
  BY <1>2, MergeStep
<1>8. step \in [D \X V -> V]
  <2>1. \A x \in D \X V : MergeRecord(x[2], rs[x[1]]) \in V
    BY <1>7
  <2> QED
    BY <2>1
<1>9. /\ \A T \in SUBSET D : T # {} => Max(T) \in T /\ Lower(T) = T \ {Max(T)} /\ Lower(T) \in SUBSET D
      /\ \E g \in [SUBSET D -> V] : FoldsBy(g, D, Empty, step)
  <2>1. IsFiniteSet(D) /\ D \subseteq Int
    BY <1>2
  <2>2. Empty \in V
    BY <1>6
  <2> HIDE DEF step, V
  <2> QED
    BY ONLY <2>1, <2>2, <1>8, FoldsList
<1>10. PICK g \in [SUBSET D -> V] : FoldsBy(g, D, Empty, step)
  BY <1>9
<1>11. f = Once(f)
  <2> HIDE DEF V
  <2>1. ASSUME NEW T \in SUBSET D, T # {} PROVE step[<<Max(T), g[Lower(T)]>>] = After(g[Lower(T)], Max(T))
    <3>1. Max(T) \in D /\ g[Lower(T)] \in V
      BY <1>9, <1>10, <2>1
    <3> QED
      BY <3>1
  <2> HIDE DEF After
  <2>2. \A T \in SUBSET D : g[T] = IF T = {} THEN Empty ELSE After(g[Lower(T)], Max(T))
    BY <1>10, <2>1 DEF FoldsBy
  <2>3. g = Once(g)
    BY <1>10, <2>2
  <2> QED
    BY <2>3
<1> HIDE DEF f
<1>12. <<{}, f[{}]>> \in G
  <2>1. f[{}] = Empty
    <3> HIDE DEF V, After
    <3> QED
      BY <1>11
  <2> HIDE DEF Good, V
  <2> QED
    BY <1>6, <2>1
<1>13. ASSUME NEW T \in SUBSET D, T # {}, <<Lower(T), f[Lower(T)]>> \in G PROVE <<T, f[T]>> \in G
  <2> DEFINE A == f[Lower(T)]
             k == Max(T)
             W == X(Lower(T))
             E == C(Lower(T))
             Y == cs[rs[k].chunk].trips
             B == MergeRecord(A, rs[k])
  <2>1. k \in T /\ k \in D /\ Lower(T) = T \ {k}
    BY <1>9, <1>13
  <2>2. A \in V /\ MergedKept(A, S, W, E)
    <3>1. Good(Lower(T), A)
      <4> HIDE DEF Good, V
      <4> QED
        BY <1>13
    <3> QED
      BY <3>1
  <2>3. f[T] = B
    <3>1. f[T] = After(f[Lower(T)], Max(T))
      <4> HIDE DEF V, After
      <4> QED
        BY <1>11, <1>13
    <3> QED
      BY <3>1
  <2>4. X(T) = W \cup Y /\ W \cap Y = {} /\ C(T) = E \cup {rs[k].chunk} /\ rs[k].chunk \notin E
    <3> HIDE DEF k
    <3> QED
      BY <1>3, <2>1
  <2>5. RecordFits(rs[k], cs)
    BY <1>2, <2>1
  <2> HIDE DEF A, k, W, E, Y, X, C
  <2>6. B \in V /\ MergedKept(B, S, W \cup cs[rs[k].chunk].trips, E \cup {rs[k].chunk})
    BY <2>2, <2>4, <2>5, MergeStep DEF Y
  <2> HIDE DEF B
  <2>7. Good(T, f[T])
    BY <2>3, <2>4, <2>6 DEF Y
  <2>8. f[T] \in V
    BY <2>3, <2>6
  <2> HIDE DEF Good, V
  <2> QED
    BY <2>7, <2>8
<1>14. <<D, f[D]>> \in G
  <2>1. IsFiniteSet(D) /\ D \subseteq Int
    BY <1>2
  <2> HIDE DEF G
  <2> QED
    BY ONLY <2>1, <1>12, <1>13, FoldsKeep
<1>15. MergedKept(f[D], S, X(D), C(D)) /\ f[D].duties \in Seq(DutyType(S))
  <2>1. Good(D, f[D])
    <3> HIDE DEF Good, V
    <3> QED
      BY <1>14
  <2> QED
    BY <2>1 DEF Merging
<1> HIDE DEF X, C
<1>16. BlocksMerged(f[D].blocks, S, S) /\ DutiesFit(f[D].blocks, f[D].duties, {}, S) /\ RostersKeep(f[D].duties)
  BY <1>4, <1>15 DEF MergedKept, BlocksMerged
<1> QED
  BY <1>1, <1>15, <1>16 DEF Empty

-------------------------------------------------------------------------------
(* Joining vehicles.                                                           *)

(* A vehicle has a start and an end.                                           *)
LEMMA RunTimes ==
  ASSUME NEW P, IsRequest(P), NEW s \in Seq(TripIds(P)), s # <<>>
  PROVE  StartOf(P, s) \in Int /\ EndOf(P, s) \in Int
<1>1. s[1] \in TripIds(P) /\ s[Len(s)] \in TripIds(P)
  <2>1. Len(s) \in Nat /\ Len(s) # 0
    OBVIOUS
  <2>2. 1 \in 1..Len(s) /\ Len(s) \in 1..Len(s)
    BY <2>1
  <2> QED
    BY <2>2
<1>2. \A t \in TripIds(P) : P.trips[t].st \in Int /\ P.trips[t].en \in Int
  BY RequestTyped, LikeTyped
<1> QED
  BY <1>1, <1>2 DEF StartOf, EndOf, Last

(* What the merge hands to the stitching.                                      *)
VehicleOf(b, P) == b.trips \in Seq(TripIds(P)) /\ b.trips # <<>> /\ b.id \in Nat \ {0}
Vehicles(P, B) == IsFiniteSet(B) /\ (\A b \in B : VehicleOf(b, P)) /\ (\A b, c \in B : b.id = c.id => b = c)

LEMMA MergedVehicles ==
  ASSUME NEW P, NEW bs, BlocksMerged(bs, TripIds(P), TripIds(P))
  PROVE  /\ Vehicles(P, Range(bs)) /\ DOMAIN bs \subseteq Nat \ {0}
         /\ \A b \in Range(bs) : b.id \in DOMAIN bs /\ b = bs[b.id]
         /\ \A i \in DOMAIN bs : bs[i].id = i /\ bs[i] \in Range(bs)
<1> DEFINE S == TripIds(P)
<1>1. bs \in Seq(BlockType(S)) /\ \A i \in DOMAIN bs : bs[i].id = i /\ NoTwice(bs[i])
  BY DEF BlocksMerged, BlocksApart
<1>2. DOMAIN bs = 1..Len(bs) /\ Len(bs) \in Nat /\ \A i \in DOMAIN bs : bs[i] \in BlockType(S)
  <2> HIDE DEF S
  <2> QED
    BY <1>1
<1>3. IsFiniteSet(Range(bs))
  <2>1. IsFiniteSet(DOMAIN bs)
    BY <1>2, FS_Interval
  <2>2. Range(bs) = {bs[i] : i \in DOMAIN bs}
    BY DEF Range
  <2> QED
    BY <2>1, <2>2, ImagesFinite
<1>4. \A b \in Range(bs) : b.id \in DOMAIN bs /\ b = bs[b.id]
  BY <1>1 DEF Range
<1>5. \A b \in Range(bs) : VehicleOf(b, P)
  BY <1>1, <1>2, <1>4 DEF VehicleOf, BlockType, NoTwice
<1>6. \A b, c \in Range(bs) : b.id = c.id => b = c
  BY <1>4
<1>7. DOMAIN bs \subseteq Nat \ {0} /\ \A i \in DOMAIN bs : bs[i] \in Range(bs)
  BY <1>2 DEF Range
<1> QED
  BY <1>1, <1>3, <1>4, <1>5, <1>6, <1>7 DEF Vehicles

LEMMA StitchListed ==
  ASSUME NEW P, IsRequest(P), NEW bs, Vehicles(P, Range(bs))
  PROVE  ListsOnce(StitchOrder(P, bs), Range(bs))
<1> DEFINE U == Range(bs)
           key == [b \in U |-> StitchKey(P, b)]
           before(u, w) == KeyBefore(StitchKey(P, u), StitchKey(P, w))
           R == ByKey(key, U)
           m == Cardinality(U)
           nth(i) == CHOOSE x \in U : Rank(R, U, x) = i - 1
           direct(i) == CHOOSE x \in U : Cardinality({y \in U : before(y, x)}) = i - 1
           s == StitchOrder(P, bs)
<1>1. IsFiniteSet(U) /\ (\A b \in U : VehicleOf(b, P)) /\ (\A b, c \in U : b.id = c.id => b = c)
  BY DEF Vehicles
<1> HIDE DEF U
<1>2. \A b \in U : StitchKey(P, b) \in [1..3 -> Int] /\ StitchKey(P, b)[3] = b.id
  <2> TAKE b \in U
  <2>1. StartOf(P, b.trips) \in Int /\ EndOf(P, b.trips) \in Int /\ b.id \in Int
    BY <1>1, RunTimes DEF VehicleOf
  <2> QED
    BY <2>1 DEF StitchKey
<1>3. key \in [U -> [1..3 -> Int]] /\ \A p, q \in U : key[p] = key[q] => p = q
  BY <1>1, <1>2
<1>4. Orders(R, U)
  <2> HIDE DEF key
  <2> QED
    BY <1>3, KeysRank
<1>5. s = [i \in 1..m |-> nth(i)]
  <2>1. \A x, y \in U : <<y, x>> \in R <=> before(y, x)
    <3> HIDE DEF before
    <3>1. \A x, y \in U : KeyBefore(key[y], key[x]) <=> before(y, x)
      BY DEF before
    <3> HIDE DEF key
    <3> QED
      BY <3>1 DEF ByKey
  <2> HIDE DEF R, before
  <2>2. \A x \in U : Rank(R, U, x) = Cardinality({y \in U : before(y, x)})
    <3>1. \A x \in U : {y \in U : <<y, x>> \in R} = {y \in U : before(y, x)}
      BY <2>1
    <3> QED
      BY <3>1 DEF Rank
  <2>3. \A i : direct(i) = nth(i)
    BY <2>2
  <2>4. s = [i \in 1..m |-> direct(i)]
    BY DEF StitchOrder, Sorted, before, U
  <2> HIDE DEF direct, nth, s, m
  <2> QED
    BY <2>3, <2>4
<1> HIDE DEF s, R
<1>6. s = [i \in 1..Cardinality(U) |-> CHOOSE x \in U : Rank(R, U, x) = i - 1]
  BY <1>5
<1>7. s \in Seq(U) /\ Range(s) = U /\ IsInjective(s)
  BY ONLY <1>1, <1>4, <1>6, SortedLists
<1>8. ListsOnce(s, U)
  BY <1>7, TypedOnce
<1> QED
  BY <1>8 DEF s, U

(* The first in an order.                                                      *)
LEMMA FirstInOrder ==
  ASSUME NEW S, IsFiniteSet(S), S # {}, NEW R, Orders(R, S)
  PROVE  \E x \in S : \A y \in S : x = y \/ <<x, y>> \in R
<1>1. Cardinality(S) \in Nat /\ Cardinality(S) # 0
  BY FS_CardinalityType, FS_EmptySet
<1>2. PICK x \in S : Rank(R, S, x) = 0
  <2>1. 0 \in 0..(Cardinality(S) - 1)
    BY <1>1
  <2> QED
    BY <2>1, RankExists
<1>3. {y \in S : <<y, x>> \in R} = {}
  <2> DEFINE T == {y \in S : <<y, x>> \in R}
  <2>1. IsFiniteSet(T) /\ Cardinality(T) = 0
    BY <1>2, FS_Subset DEF Rank
  <2> HIDE DEF T
  <2>2. T = {}
    BY <2>1, FS_EmptySet
  <2> QED
    BY <2>2 DEF T
<1> QED
  BY <1>3 DEF Orders

(* The vehicle that a growing one takes next is one of those it may.           *)
LEMMA BestIsOpen ==
  ASSUME NEW P, IsRequest(P), NEW s \in Seq(TripIds(P)), s # <<>>,
         NEW open, open # {}, Vehicles(P, open)
  PROVE  (CHOOSE b \in open : \A c \in open : c = b \/ KeyBefore(JoinKey(P, s, b), JoinKey(P, s, c))) \in open
<1> DEFINE key == [b \in open |-> JoinKey(P, s, b)]
           R == ByKey(key, open)
<1>1. IsFiniteSet(open) /\ (\A b \in open : VehicleOf(b, P)) /\ (\A b, c \in open : b.id = c.id => b = c)
  BY DEF Vehicles
<1>2. \A b \in open : JoinKey(P, s, b) \in [1..4 -> Int] /\ JoinKey(P, s, b)[4] = b.id
  <2> TAKE b \in open
  <2> DEFINE gap == StartOf(P, b.trips) - EndOf(P, s)
             long == EndOf(P, b.trips) - StartOf(P, s)
  <2>1. gap \in Int /\ long \in Int /\ b.id \in Int /\ P.prm.softSpan \in Int
    <3>1. StartOf(P, b.trips) \in Int /\ EndOf(P, b.trips) \in Int /\ b.id \in Int
      BY <1>1, RunTimes DEF VehicleOf
    <3>2. StartOf(P, s) \in Int /\ EndOf(P, s) \in Int
      BY RunTimes
    <3>3. P.prm.softSpan \in Int
      BY DEF IsRequest
    <3> QED
      BY <3>1, <3>2, <3>3
  <2>2. JoinKey(P, s, b) = <<4 * gap + Max2(0, long - P.prm.softSpan), gap, long, b.id>>
    BY DEF JoinKey
  <2> HIDE DEF gap, long
  <2>3. 4 * gap + Max2(0, long - P.prm.softSpan) \in Int
    BY <2>1 DEF Max2
  <2> QED
    BY <2>1, <2>2, <2>3
<1>3. key \in [open -> [1..4 -> Int]] /\ \A p, q \in open : key[p] = key[q] => p = q
  BY <1>1, <1>2
<1>4. Orders(R, open)
  <2>1. 4 \in Nat
    OBVIOUS
  <2> HIDE DEF key
  <2> QED
    BY ONLY <1>3, <2>1, KeysRank
<1>5. \E b \in open : \A c \in open : b = c \/ <<b, c>> \in R
  <2> HIDE DEF R
  <2> QED
    BY <1>1, <1>4, FirstInOrder
<1>6. \A b, c \in open : <<b, c>> \in R => KeyBefore(JoinKey(P, s, b), JoinKey(P, s, c))
  BY DEF ByKey
<1> HIDE DEF R, key
<1>7. \E b \in open : \A c \in open : c = b \/ KeyBefore(JoinKey(P, s, b), JoinKey(P, s, c))
  BY <1>5, <1>6
<1> QED
  BY <1>7

(* A vehicle that grows out of number a of bs: from names those it took, U     *)
(* what was taken before it.                                                   *)
Grown(bs, S, U, a) ==
  {x \in [trips : Seq(S), from : Seq(Nat), used : SUBSET Nat] :
     /\ x.trips # <<>> /\ Range(x.from) \subseteq DOMAIN bs /\ a \in Range(x.from)
     /\ Range(x.trips) = UNION {Drives(bs[i]) : i \in Range(x.from)}
     /\ x.used = U \cup Range(x.from)}

LEMMA GrowKeeps ==
  ASSUME NEW P, IsRequest(P), NEW bs, BlocksMerged(bs, TripIds(P), TripIds(P)), NEW ordered, Range(ordered) = Range(bs),
         NEW U \in SUBSET Nat, NEW a, NEW acc \in Grown(bs, TripIds(P), U, a)
  PROVE  Grow(P, ordered, acc) \in Grown(bs, TripIds(P), U, a)
<1> DEFINE S == TripIds(P)
           open == {b \in Range(ordered) : b.id \notin acc.used /\ MayJoin(P, acc.trips, b)}
           best == CHOOSE b \in open : \A c \in open : c = b \/ KeyBefore(JoinKey(P, acc.trips, b), JoinKey(P, acc.trips, c))
           more == [acc EXCEPT !.trips = @ \o best.trips, !.from = Append(@, best.id), !.used = @ \cup {best.id}]
<1>1. Grow(P, ordered, acc) = IF open = {} THEN acc ELSE more
  BY DEF Grow
<1>2. /\ acc \in [trips : Seq(S), from : Seq(Nat), used : SUBSET Nat]
      /\ acc.trips # <<>> /\ Range(acc.from) \subseteq DOMAIN bs /\ a \in Range(acc.from)
      /\ Range(acc.trips) = UNION {Drives(bs[i]) : i \in Range(acc.from)}
      /\ acc.used = U \cup Range(acc.from)
  BY DEF Grown
<1>3. Vehicles(P, Range(bs)) /\ DOMAIN bs \subseteq Nat \ {0}
      /\ \A b \in Range(bs) : b.id \in DOMAIN bs /\ b = bs[b.id]
  BY MergedVehicles
<1>4. CASE open = {}
  BY <1>1, <1>4
<1>5. CASE open # {}
  <2>1. open \subseteq Range(bs)
    OBVIOUS
  <2>2. Vehicles(P, open)
    BY <1>3, <2>1, FS_Subset DEF Vehicles
  <2>3. acc.trips \in Seq(S) /\ acc.from \in Seq(Nat) /\ acc.used \in SUBSET Nat
    BY <1>2
  <2>4. best \in open
    <3> HIDE DEF open
    <3> QED
      BY <1>2, <1>5, <2>2, <2>3, BestIsOpen
  <2> HIDE DEF best, open
  <2>5. best.id \in DOMAIN bs /\ best = bs[best.id] /\ VehicleOf(best, P)
    BY <1>3, <2>1, <2>4 DEF Vehicles
  <2> DEFINE trips == acc.trips \o best.trips
             from == Append(acc.from, best.id)
  <2>6. trips \in Seq(S) /\ trips # <<>>
    <3>1. best.trips \in Seq(S) /\ best.trips # <<>>
      BY <2>5 DEF VehicleOf
    <3> DEFINE u == acc.trips
               w == best.trips
    <3>2. u \in Seq(S) /\ w \in Seq(S) /\ w # <<>>
      BY <2>3, <3>1
    <3> HIDE DEF u, w
    <3>3. u \o w \in Seq(S) /\ u \o w # <<>>
      BY ONLY <3>2
    <3> QED
      BY <3>3 DEF u, w
  <2>7. from \in Seq(Nat) /\ best.id \in Nat
    BY <1>3, <2>3, <2>5
  <2>8. \A V : \A x \in Seq(V) : IsList(x)
    <3> SUFFICES ASSUME NEW V, NEW x \in Seq(V) PROVE IsList(x)
      OBVIOUS
    <3>1. Len(x) \in Nat /\ x = [k \in 1..Len(x) |-> x[k]]
      OBVIOUS
    <3> QED
      BY <3>1, MadeList
  <2>9. Range(trips) = Range(acc.trips) \cup Drives(best)
    <3>1. IsList(acc.trips) /\ IsList(best.trips)
      BY <2>3, <2>5, <2>8 DEF VehicleOf
    <3> QED
      BY <3>1, JoinedLists DEF Drives
  <2>10. Range(from) = Range(acc.from) \cup {best.id}
    <3>1. IsList(acc.from)
      BY <2>3, <2>8
    <3> QED
      BY <3>1, AppendedList
  <2>11. more = [trips |-> trips, from |-> from, used |-> acc.used \cup {best.id}]
    <3>1. ASSUME NEW V, NEW W, NEW X, NEW y \in [trips : V, from : W, used : X], NEW t, NEW q, NEW u
          PROVE  [y EXCEPT !.trips = t, !.from = q, !.used = u] = [trips |-> t, from |-> q, used |-> u]
      <4>1. [y EXCEPT !.trips = t, !.from = q, !.used = u] \in [trips : {t}, from : {q}, used : {u}]
        BY ONLY y \in [trips : V, from : W, used : X]
      <4>2. \A b \in [trips : {t}, from : {q}, used : {u}] : b = [trips |-> t, from |-> q, used |-> u]
        BY ONLY TRUE
      <4> QED
        BY ONLY <4>1, <4>2
    <3>2. more = [acc EXCEPT !.trips = trips, !.from = from, !.used = acc.used \cup {best.id}]
      OBVIOUS
    <3> HIDE DEF more, trips, from
    <3> QED
      BY <1>2, <3>1, <3>2
  <2> HIDE DEF trips, from
  <2>12. more.trips = trips /\ more.from = from /\ more.used = acc.used \cup {best.id}
    BY <2>11
  <2>13. more \in [trips : Seq(S), from : Seq(Nat), used : SUBSET Nat]
    BY <2>3, <2>6, <2>7, <2>11
  <2> HIDE DEF more
  <2>14. Range(trips) = UNION {Drives(bs[i]) : i \in Range(from)}
    BY <1>2, <2>5, <2>9, <2>10
  <2>15. more \in Grown(bs, S, U, a)
    BY <1>2, <2>5, <2>6, <2>10, <2>12, <2>13, <2>14 DEF Grown
  <2> QED
    BY <1>1, <1>5, <2>15
<1> QED
  BY <1>4, <1>5

LEMMA GrownKept ==
  ASSUME NEW P, IsRequest(P), NEW bs, BlocksMerged(bs, TripIds(P), TripIds(P)), NEW s, ListsOnce(s, Range(bs)),
         NEW U \in SUBSET Nat, NEW a, NEW begun \in Grown(bs, TripIds(P), U, a)
  PROVE  FoldLeft(LAMBDA g, x : Grow(P, s, g), begun, s) \in Grown(bs, TripIds(P), U, a)
<1> DEFINE D == DOMAIN s
           V == Grown(bs, TripIds(P), U, a)
           After(v, k) == Grow(P, s, v)
           Once(g) == [T \in SUBSET D |-> IF T = {} THEN begun ELSE After(g[Lower(T)], Max(T))]
           step == [x \in D \X V |-> Grow(P, s, x[2])]
           f == CHOOSE h : h = Once(h)
           G == {x \in (SUBSET D) \X V : TRUE}
<1>1. FoldLeft(LAMBDA g, x : Grow(P, s, g), begun, s) = f[D]
  BY DEF FoldLeft, MapThenFoldSet, Lower
<1>2. IsFiniteSet(D) /\ D \subseteq Int
  <2>1. IsFiniteSet(D) /\ D = 1..Len(s) /\ Len(s) \in Nat
    BY ListDomain DEF ListsOnce
  <2> QED
    BY <2>1
<1>3. Range(s) = Range(bs)
  BY DEF ListsOnce
<1> HIDE DEF D
<1>7. ASSUME NEW v \in V PROVE Grow(P, s, v) \in V
  BY <1>3, GrowKeeps
<1> HIDE DEF V
<1>8. step \in [D \X V -> V]
  <2>1. \A x \in D \X V : Grow(P, s, x[2]) \in V
    BY <1>7
  <2> QED
    BY <2>1
<1>6. begun \in V
  BY DEF V
<1>9. /\ \A T \in SUBSET D : T # {} => Max(T) \in T /\ Lower(T) = T \ {Max(T)} /\ Lower(T) \in SUBSET D
      /\ \E g \in [SUBSET D -> V] : FoldsBy(g, D, begun, step)
  <2> HIDE DEF step
  <2> QED
    BY ONLY <1>2, <1>6, <1>8, FoldsList
<1>10. PICK g \in [SUBSET D -> V] : FoldsBy(g, D, begun, step)
  BY <1>9
<1>11. f = Once(f)
  <2>1. ASSUME NEW T \in SUBSET D, T # {} PROVE step[<<Max(T), g[Lower(T)]>>] = After(g[Lower(T)], Max(T))
    <3>1. Max(T) \in D /\ g[Lower(T)] \in V
      BY <1>9, <1>10, <2>1
    <3> QED
      BY <3>1
  <2> HIDE DEF After
  <2>2. \A T \in SUBSET D : g[T] = IF T = {} THEN begun ELSE After(g[Lower(T)], Max(T))
    BY <1>10, <2>1 DEF FoldsBy
  <2>3. g = Once(g)
    BY <1>10, <2>2
  <2> QED
    BY <2>3
<1> HIDE DEF f
<1>12. <<{}, f[{}]>> \in G
  <2>1. f[{}] = begun
    <3> HIDE DEF After
    <3> QED
      BY <1>11
  <2> QED
    BY <1>6, <2>1
<1>13. ASSUME NEW T \in SUBSET D, T # {}, <<Lower(T), f[Lower(T)]>> \in G PROVE <<T, f[T]>> \in G
  <2>1. f[T] = Grow(P, s, f[Lower(T)])
    <3>1. f[T] = After(f[Lower(T)], Max(T))
      <4> HIDE DEF After
      <4> QED
        BY <1>11, <1>13
    <3> QED
      BY <3>1
  <2> QED
    BY <1>7, <1>13, <2>1
<1>14. <<D, f[D]>> \in G
  <2> HIDE DEF G
  <2> QED
    BY ONLY <1>2, <1>12, <1>13, FoldsKeep
<1>15. f[D] \in V
  BY <1>14
<1> QED
  BY <1>1, <1>15 DEF V

(* Vehicles joined from those of bs, and the numbers of those joined so far.   *)
JoinedType(S) == [id : Nat \ {0}, trips : Seq(S), from : SUBSET Nat]
Joins(x, bs) == x.from \subseteq DOMAIN bs /\ Drives(x) = UNION {Drives(bs[j]) : j \in x.from}
Joined(bs, S) ==
  {x \in [out : Seq(JoinedType(S)), used : SUBSET Nat] :
     /\ \A i \in DOMAIN x.out : x.out[i].id = i /\ Joins(x.out[i], bs)
     /\ \A j \in x.used : \E i \in DOMAIN x.out : j \in x.out[i].from}

LEMMA StitchStepKeeps ==
  ASSUME NEW P, IsRequest(P), NEW bs, BlocksMerged(bs, TripIds(P), TripIds(P)), NEW s, ListsOnce(s, Range(bs)),
         NEW acc \in Joined(bs, TripIds(P)), NEW b \in Range(bs)
  PROVE  /\ StitchStep(P, s, acc, b) \in Joined(bs, TripIds(P))
         /\ acc.used \cup {b.id} \subseteq StitchStep(P, s, acc, b).used
<1> DEFINE S == TripIds(P)
           begun == [trips |-> b.trips, from |-> <<b.id>>, used |-> acc.used \cup {b.id}]
           grown == FoldLeft(LAMBDA g, x : Grow(P, s, g), begun, s)
           joined == [id |-> Len(acc.out) + 1, trips |-> ByStart(P, Range(grown.trips)), from |-> Range(grown.from)]
           out == Append(acc.out, joined)
           n == [out |-> out, used |-> grown.used]
<1>1. StitchStep(P, s, acc, b) = IF b.id \in acc.used THEN acc ELSE n
  BY DEF StitchStep
<1>2. /\ acc.out \in Seq(JoinedType(S)) /\ acc.used \in SUBSET Nat
      /\ \A i \in DOMAIN acc.out : acc.out[i].id = i /\ Joins(acc.out[i], bs)
      /\ \A j \in acc.used : \E i \in DOMAIN acc.out : j \in acc.out[i].from
  BY DEF Joined
<1>3. /\ b.id \in DOMAIN bs /\ b = bs[b.id] /\ DOMAIN bs \subseteq Nat \ {0} /\ VehicleOf(b, P)
  BY MergedVehicles DEF Vehicles
<1>4. begun \in Grown(bs, S, acc.used, b.id)
  <2>1. Range(<<b.id>>) = {b.id} /\ <<b.id>> \in Seq(Nat)
    <3>1. b.id \in Nat
      BY <1>3
    <3> QED
      BY <3>1 DEF Range
  <2>2. begun.trips = b.trips /\ begun.from = <<b.id>> /\ begun.used = acc.used \cup {b.id}
    OBVIOUS
  <2>3. begun \in [trips : Seq(S), from : Seq(Nat), used : SUBSET Nat]
    BY <1>2, <1>3, <2>1 DEF VehicleOf
  <2> HIDE DEF begun
  <2>4. Range(begun.trips) = UNION {Drives(bs[i]) : i \in Range(begun.from)}
    BY <1>3, <2>1, <2>2 DEF Drives
  <2> QED
    BY <1>3, <2>1, <2>2, <2>3, <2>4 DEF Grown, VehicleOf
<1> HIDE DEF begun
<1>5. grown \in Grown(bs, S, acc.used, b.id)
  BY <1>2, <1>4, GrownKept
<1> HIDE DEF grown
<1>6. /\ grown.trips \in Seq(S) /\ Range(grown.from) \subseteq DOMAIN bs /\ b.id \in Range(grown.from)
      /\ Range(grown.trips) = UNION {Drives(bs[i]) : i \in Range(grown.from)}
      /\ grown.used = acc.used \cup Range(grown.from) /\ grown.used \in SUBSET Nat
  BY <1>5 DEF Grown
<1>7. Range(grown.trips) \in SUBSET S
  BY <1>6 DEF Range
<1>8. ByStart(P, Range(grown.trips)) \in Seq(S) /\ Range(ByStart(P, Range(grown.trips))) = Range(grown.trips)
  <2> DEFINE W == Range(grown.trips)
  <2> HIDE DEF W
  <2>1. W \in SUBSET S /\ P \in Like(P)
    BY <1>7, RequestTyped DEF W
  <2>2. ByStart(P, W) \in Seq(W) /\ Range(ByStart(P, W)) = W
    BY <2>1, ByStartOnce
  <2>3. Seq(W) \subseteq Seq(S)
    BY <2>1, SeqMonotonic
  <2> QED
    BY <2>2, <2>3 DEF W
<1>9. joined \in JoinedType(S) /\ Joins(joined, bs) /\ joined.id = Len(acc.out) + 1 /\ joined.from = Range(grown.from)
  <2>1. Len(acc.out) \in Nat
    BY <1>2
  <2>2. joined \in JoinedType(S)
    BY <1>3, <1>6, <1>8, <2>1 DEF JoinedType
  <2>3. joined.trips = ByStart(P, Range(grown.trips)) /\ joined.from = Range(grown.from) /\ joined.id = Len(acc.out) + 1
    OBVIOUS
  <2> HIDE DEF joined
  <2> QED
    BY <1>6, <1>8, <2>2, <2>3 DEF Joins, Drives
<1> HIDE DEF joined
<1>10. /\ out \in Seq(JoinedType(S)) /\ Len(acc.out) + 1 \in DOMAIN out /\ out[Len(acc.out) + 1] = joined
       /\ \A i \in DOMAIN acc.out : i \in DOMAIN out /\ out[i] = acc.out[i]
       /\ \A i \in DOMAIN out : i \in DOMAIN acc.out \/ i = Len(acc.out) + 1
  <2> DEFINE q == acc.out
             T == JoinedType(S)
  <2>1. q \in Seq(T) /\ joined \in T
    BY <1>2, <1>9
  <2> HIDE DEF q, T
  <2>2. /\ Append(q, joined) \in Seq(T) /\ DOMAIN Append(q, joined) = 1..(Len(q) + 1) /\ DOMAIN q = 1..Len(q) /\ Len(q) \in Nat
        /\ \A i \in 1..Len(q) : Append(q, joined)[i] = q[i]
        /\ Append(q, joined)[Len(q) + 1] = joined
    BY ONLY <2>1
  <2>3. \A i \in 1..(Len(q) + 1) : i \in 1..Len(q) \/ i = Len(q) + 1
    BY <2>2
  <2>4. Len(q) + 1 \in 1..(Len(q) + 1) /\ \A i \in 1..Len(q) : i \in 1..(Len(q) + 1)
    BY <2>2
  <2>5. out = Append(q, joined)
    BY DEF q
  <2> HIDE DEF out
  <2> QED
    BY <2>2, <2>3, <2>4, <2>5 DEF q, T
<1>11. n.out = out /\ n.used = grown.used /\ n \in [out : Seq(JoinedType(S)), used : SUBSET Nat]
  BY <1>6, <1>10
<1> HIDE DEF n, out
<1>12. \A i \in DOMAIN out : out[i].id = i /\ Joins(out[i], bs)
  BY <1>2, <1>9, <1>10
<1>13. \A j \in grown.used : \E i \in DOMAIN out : j \in out[i].from
  <2>1. \A j \in acc.used : \E i \in DOMAIN out : j \in out[i].from
    BY <1>2, <1>10
  <2>2. \A j \in Range(grown.from) : j \in out[Len(acc.out) + 1].from
    BY <1>9, <1>10
  <2> QED
    BY <1>6, <1>10, <2>1, <2>2
<1>14. n \in Joined(bs, S)
  BY <1>11, <1>12, <1>13 DEF Joined
<1> QED
  BY <1>1, <1>6, <1>11, <1>14

(* Every vehicle is joined once.                                               *)
LEMMA StitchedJoins ==
  ASSUME NEW P, IsRequest(P), NEW bs, BlocksMerged(bs, TripIds(P), TripIds(P))
  PROVE  \E x \in Joined(bs, TripIds(P)) : x.out = Stitched(P, bs) /\ DOMAIN bs \subseteq x.used
<1> DEFINE S == TripIds(P)
           s == StitchOrder(P, bs)
           D == DOMAIN s
           V == Joined(bs, S)
           none == [out |-> <<>>, used |-> {}]
           After(v, k) == StitchStep(P, s, v, s[k])
           Once(g) == [T \in SUBSET D |-> IF T = {} THEN none ELSE After(g[Lower(T)], Max(T))]
           step == [x \in D \X V |-> StitchStep(P, s, x[2], s[x[1]])]
           f == CHOOSE h : h = Once(h)
           Good(T, v) == \A k \in T : s[k].id \in v.used
           G == {x \in (SUBSET D) \X V : Good(x[1], x[2])}
<1>1. Stitched(P, bs) = f[D].out
  BY DEF Stitched, FoldLeft, MapThenFoldSet, Lower
<1>2. ListsOnce(s, Range(bs))
  BY MergedVehicles, StitchListed
<1> HIDE DEF s
<1>3. IsFiniteSet(D) /\ D \subseteq Int /\ \A k \in D : s[k] \in Range(bs)
  <2>1. IsFiniteSet(D) /\ D = 1..Len(s) /\ Len(s) \in Nat
    BY <1>2, ListDomain DEF ListsOnce
  <2>2. \A k \in D : s[k] \in Range(s)
    BY DEF Range
  <2>3. Range(s) = Range(bs)
    BY <1>2 DEF ListsOnce
  <2>4. D \subseteq Int
    BY <2>1
  <2> HIDE DEF D
  <2> QED
    BY <2>1, <2>2, <2>3, <2>4
<1>4. \A i \in DOMAIN bs : \E k \in D : s[k].id = i
  <2> TAKE i \in DOMAIN bs
  <2>1. bs[i] \in Range(s) /\ bs[i].id = i
    BY <1>2, MergedVehicles DEF ListsOnce
  <2> QED
    BY <2>1 DEF Range
<1> HIDE DEF D
<1>6. none \in V
  <2>1. <<>> \in Seq(JoinedType(S)) /\ DOMAIN <<>> = {}
    BY EmptyList
  <2>2. none.out = <<>> /\ none.used = {} /\ none \in [out : Seq(JoinedType(S)), used : SUBSET Nat]
    BY <2>1
  <2> HIDE DEF none
  <2> QED
    BY <2>1, <2>2 DEF Joined
<1>7. ASSUME NEW v \in V, NEW k \in D PROVE After(v, k) \in V /\ v.used \cup {s[k].id} \subseteq After(v, k).used
  BY <1>2, <1>3, StitchStepKeeps
<1> HIDE DEF V, none
<1>8. step \in [D \X V -> V]
  <2>1. \A x \in D \X V : StitchStep(P, s, x[2], s[x[1]]) \in V
    BY <1>7
  <2> QED
    BY <2>1
<1>9. /\ \A T \in SUBSET D : T # {} => Max(T) \in T /\ Lower(T) = T \ {Max(T)} /\ Lower(T) \in SUBSET D
      /\ \E g \in [SUBSET D -> V] : FoldsBy(g, D, none, step)
  <2>1. IsFiniteSet(D) /\ D \subseteq Int
    BY <1>3
  <2> HIDE DEF step
  <2> QED
    BY ONLY <2>1, <1>6, <1>8, FoldsList
<1>10. PICK g \in [SUBSET D -> V] : FoldsBy(g, D, none, step)
  BY <1>9
<1>11. f = Once(f)
  <2>1. ASSUME NEW T \in SUBSET D, T # {} PROVE step[<<Max(T), g[Lower(T)]>>] = After(g[Lower(T)], Max(T))
    <3>1. Max(T) \in D /\ g[Lower(T)] \in V
      BY <1>9, <1>10, <2>1
    <3> QED
      BY <3>1
  <2> HIDE DEF After
  <2>2. \A T \in SUBSET D : g[T] = IF T = {} THEN none ELSE After(g[Lower(T)], Max(T))
    BY <1>10, <2>1 DEF FoldsBy
  <2>3. g = Once(g)
    BY <1>10, <2>2
  <2> QED
    BY <2>3
<1> HIDE DEF f
<1>12. <<{}, f[{}]>> \in G
  <2>1. f[{}] = none
    <3> HIDE DEF After
    <3> QED
      BY <1>11
  <2> QED
    BY <1>6, <2>1
<1>13. ASSUME NEW T \in SUBSET D, T # {}, <<Lower(T), f[Lower(T)]>> \in G PROVE <<T, f[T]>> \in G
  <2> DEFINE A == f[Lower(T)]
             k == Max(T)
             B == After(A, k)
  <2>1. k \in T /\ k \in D /\ Lower(T) = T \ {k}
    BY <1>9, <1>13
  <2>2. A \in V /\ Good(Lower(T), A)
    BY <1>13
  <2>3. f[T] = B
    <3> HIDE DEF After
    <3> QED
      BY <1>11, <1>13
  <2> HIDE DEF A, k
  <2>4. B \in V /\ A.used \cup {s[k].id} \subseteq B.used
    BY <1>7, <2>1, <2>2
  <2> HIDE DEF B
  <2>5. \A l \in T : s[l].id \in B.used
    BY <2>1, <2>2, <2>4
  <2> QED
    BY <2>3, <2>4, <2>5
<1>14. <<D, f[D]>> \in G
  <2>1. IsFiniteSet(D) /\ D \subseteq Int
    BY <1>3
  <2> HIDE DEF G
  <2> QED
    BY ONLY <2>1, <1>12, <1>13, FoldsKeep
<1>15. f[D] \in V /\ \A k \in D : s[k].id \in f[D].used
  BY <1>14
<1>16. DOMAIN bs \subseteq f[D].used
  BY <1>4, <1>15
<1> QED
  BY <1>1, <1>15, <1>16 DEF V

(* A duty of the joined vehicles.                                              *)
RemappedTask(x, y, new) == x.trips = y.trips /\ x.src = NewId(new, y.src)

LEMMA RemappedDuty ==
  ASSUME NEW S, NEW new, NEW d \in DutyType(S)
  PROVE  LET x == Remapped(new, d) IN
         /\ x.roster = d.roster /\ x.was = d.was /\ x.chunk = d.chunk /\ DOMAIN x.tasks = DOMAIN d.tasks
         /\ IsList(x.tasks)
         /\ \A k \in DOMAIN d.tasks : RemappedTask(x.tasks[k], d.tasks[k], new)
         /\ \A k \in DOMAIN d.tasks : NewId(new, d.tasks[k].src) \in Nat \ {0} => x.tasks[k] \in TaskType(S)
<1> DEFINE x == Remapped(new, d)
           old == d.tasks
           q == [k \in DOMAIN old |-> [old[k] EXCEPT !.src = NewId(new, @)]]
<1>1. x = [d EXCEPT !.tasks = q]
  BY Zenon DEF Remapped
<1> HIDE DEF q
<1>2. x.tasks = q /\ x.roster = d.roster /\ x.was = d.was /\ x.chunk = d.chunk
  <2>1. ASSUME NEW A, NEW B, NEW C, NEW E, NEW y \in [tasks : A, roster : B, was : C, chunk : E], NEW t
        PROVE  /\ [y EXCEPT !.tasks = t].tasks = t /\ [y EXCEPT !.tasks = t].roster = y.roster
               /\ [y EXCEPT !.tasks = t].was = y.was /\ [y EXCEPT !.tasks = t].chunk = y.chunk
    OBVIOUS
  <2>2. d \in [tasks : Seq(TaskType(S)), roster : Int, was : Int, chunk : Int]
    BY DEF DutyType
  <2>3. /\ [d EXCEPT !.tasks = q].tasks = q /\ [d EXCEPT !.tasks = q].roster = d.roster
        /\ [d EXCEPT !.tasks = q].was = d.was /\ [d EXCEPT !.tasks = q].chunk = d.chunk
    BY ONLY <2>1, <2>2
  <2> HIDE DEF x
  <2> QED
    BY ONLY <1>1, <2>3
<1>3. old \in Seq(TaskType(S)) /\ \A k \in DOMAIN old : old[k] \in TaskType(S)
  <2>1. old \in Seq(TaskType(S))
    BY DEF DutyType
  <2> HIDE DEF old
  <2> QED
    BY <2>1
<1>4. DOMAIN q = DOMAIN old /\ IsList(q)
  <2>1. Len(old) \in Nat /\ DOMAIN old = 1..Len(old)
    BY <1>3
  <2>2. DOMAIN q = DOMAIN old /\ q = [k \in 1..Len(old) |-> q[k]]
    BY <2>1 DEF q
  <2> HIDE DEF old
  <2> QED
    BY <2>1, <2>2, MadeList
<1>5. ASSUME NEW k \in DOMAIN old
      PROVE  RemappedTask(q[k], old[k], new) /\ (NewId(new, old[k].src) \in Nat \ {0} => q[k] \in TaskType(S))
  <2> DEFINE y == old[k]
             z == NewId(new, y.src)
  <2>1. q[k] = [y EXCEPT !.src = z] /\ y \in TaskType(S)
    BY <1>3 DEF q
  <2> HIDE DEF y, z
  <2>2. q[k].trips = y.trips /\ q[k].src = z /\ (z \in Nat \ {0} => q[k] \in TaskType(S))
    BY <2>1 DEF TaskType
  <2> QED
    BY <2>2 DEF y, z, RemappedTask
<1> HIDE DEF x
<1> QED
  BY <1>2, <1>4, <1>5 DEF x, old

(* Joining the vehicles leaves the duties as they were.                        *)
LEMMA StitchedFits ==
  ASSUME NEW P, IsRequest(P), NEW bs, BlocksMerged(bs, TripIds(P), TripIds(P)),
         NEW ds \in Seq(DutyType(TripIds(P))), DutiesFit(bs, ds, {}, TripIds(P)), RostersKeep(ds)
  PROVE  LET new == Stitched(P, bs)
             all == [i \in DOMAIN ds |-> Remapped(new, ds[i])]
         IN  IsList(new) /\ DutiesFit(new, all, {}, TripIds(P)) /\ RostersKeep(all)
<1> DEFINE S == TripIds(P)
           new == Stitched(P, bs)
           all == [i \in DOMAIN ds |-> Remapped(new, ds[i])]
<1>1. PICK x \in Joined(bs, S) : x.out = new /\ DOMAIN bs \subseteq x.used
  BY StitchedJoins
<1>2. /\ new \in Seq(JoinedType(S)) /\ \A i \in DOMAIN new : new[i].id = i /\ Joins(new[i], bs)
      /\ \A j \in DOMAIN bs : \E i \in DOMAIN new : j \in new[i].from
  BY <1>1 DEF Joined
<1> HIDE DEF new
<1>3. IsList(new) /\ DOMAIN new \subseteq Nat \ {0}
  <2>1. Len(new) \in Nat /\ DOMAIN new = 1..Len(new) /\ new = [k \in 1..Len(new) |-> new[k]]
    BY <1>2
  <2> QED
    BY <2>1, MadeList
<1>4. ASSUME NEW j \in DOMAIN bs
      PROVE  NewId(new, j) \in DOMAIN new /\ j \in new[NewId(new, j)].from
  BY <1>2 DEF NewId
<1>5. \A j \in DOMAIN bs : bs[j].id = j
  BY DEF BlocksMerged
<1>6. ASSUME NEW y, IsOf(y, bs), NEW z, RemappedTask(z, y, new)
      PROVE  IsOf(z, new) /\ Drives(z) = Drives(y) /\ NewId(new, y.src) \in Nat \ {0}
  <2>1. PICK j \in DOMAIN bs : bs[j].id = y.src /\ Drives(y) \subseteq Drives(bs[j])
    BY <1>6 DEF IsOf
  <2>2. y.src = j
    BY <1>5, <2>1
  <2> DEFINE i == NewId(new, j)
  <2>3. i \in DOMAIN new /\ j \in new[i].from
    BY <1>4
  <2> HIDE DEF i
  <2>4. z.trips = y.trips /\ z.src = i
    BY <1>6, <2>2 DEF RemappedTask, i
  <2>5. Drives(z) = Drives(y)
    BY <2>4 DEF Drives
  <2>6. Drives(bs[j]) \subseteq Drives(new[i]) /\ new[i].id = i
    BY <1>2, <2>3 DEF Joins
  <2> QED
    BY <1>3, <2>1, <2>2, <2>3, <2>4, <2>5, <2>6 DEF IsOf, i
<1>7. DOMAIN ds = 1..Len(ds) /\ Len(ds) \in Nat /\ \A d \in DOMAIN ds : ds[d] \in DutyType(S)
  <2>1. ds \in Seq(DutyType(S))
    OBVIOUS
  <2> QED
    BY ONLY <2>1
<1>8. DOMAIN all = DOMAIN ds /\ \A d \in DOMAIN ds : all[d] = Remapped(new, ds[d])
  OBVIOUS
<1>9. IsList(all)
  <2>1. all = [d \in 1..Len(ds) |-> all[d]]
    BY <1>7
  <2> HIDE DEF all
  <2> QED
    BY <1>7, <2>1, MadeList
<1> HIDE DEF all
<1>10. ASSUME NEW d \in DOMAIN ds
       PROVE  /\ all[d].roster = ds[d].roster /\ all[d].was = ds[d].was /\ all[d].chunk = ds[d].chunk
              /\ DOMAIN all[d].tasks = DOMAIN ds[d].tasks /\ all[d].roster \in Int
              /\ all[d].tasks \in Seq(TaskType(S))
              /\ \A k \in DOMAIN ds[d].tasks :
                   /\ NoTwice(all[d].tasks[k]) /\ IsOf(all[d].tasks[k], new)
                   /\ Drives(all[d].tasks[k]) = Drives(ds[d].tasks[k])
  <2> DEFINE v == all[d]
             u == ds[d]
  <2>1. /\ v.roster = u.roster /\ v.was = u.was /\ v.chunk = u.chunk /\ DOMAIN v.tasks = DOMAIN u.tasks
        /\ IsList(v.tasks)
        /\ \A k \in DOMAIN u.tasks : RemappedTask(v.tasks[k], u.tasks[k], new)
        /\ \A k \in DOMAIN u.tasks : NewId(new, u.tasks[k].src) \in Nat \ {0} => v.tasks[k] \in TaskType(S)
    BY <1>7, <1>8, RemappedDuty
  <2>2. u.roster \in Int /\ \A k \in DOMAIN u.tasks : NoTwice(u.tasks[k]) /\ IsOf(u.tasks[k], bs)
    BY DEF DutiesFit
  <2> HIDE DEF u, v
  <2>3. \A k \in DOMAIN u.tasks :
          /\ IsOf(v.tasks[k], new) /\ Drives(v.tasks[k]) = Drives(u.tasks[k]) /\ v.tasks[k] \in TaskType(S)
    BY <1>6, <2>1, <2>2
  <2>4. \A k \in DOMAIN u.tasks : NoTwice(v.tasks[k])
    BY <2>1, <2>2 DEF RemappedTask, NoTwice
  <2>5. v.tasks \in Seq(TaskType(S))
    <3>1. Range(v.tasks) \subseteq TaskType(S)
      BY <2>1, <2>3 DEF Range
    <3> QED
      BY <2>1, <3>1, ListTyped
  <2> QED
    BY <2>1, <2>2, <2>3, <2>4, <2>5 DEF u, v
<1>11. ASSUME NEW d \in DOMAIN ds, NEW e \in DOMAIN ds, NEW k \in DOMAIN ds[d].tasks, NEW l \in DOMAIN ds[e].tasks,
              ~(d = e /\ k = l)
       PROVE  Drives(all[d].tasks[k]) \cap Drives(all[e].tasks[l]) = {}
  <2>1. Drives(ds[d].tasks[k]) \cap Drives(ds[e].tasks[l]) = {}
    BY <1>11 DEF DutiesFit
  <2> QED
    BY <1>10, <2>1
<1>12. ASSUME NEW i \in DOMAIN new, NEW t \in Drives(new[i])
       PROVE  \E d \in DOMAIN ds : \E k \in DOMAIN ds[d].tasks : t \in Drives(all[d].tasks[k])
  <2>1. PICK j \in DOMAIN bs : t \in Drives(bs[j])
    BY <1>2 DEF Joins
  <2>2. PICK d \in DOMAIN ds : \E k \in DOMAIN ds[d].tasks : t \in Drives(ds[d].tasks[k])
    BY <2>1 DEF DutiesFit
  <2> QED
    BY <1>10, <2>2
<1>13. DutiesFit(new, all, {}, S)
  <2>1. \A d \in DOMAIN all :
          /\ all[d].tasks \in Seq(TaskType(S)) /\ all[d].roster \in Int
          /\ \A k \in DOMAIN all[d].tasks : NoTwice(all[d].tasks[k]) /\ IsOf(all[d].tasks[k], new)
    BY <1>8, <1>10
  <2>2. \A d, e \in DOMAIN all : \A k \in DOMAIN all[d].tasks, l \in DOMAIN all[e].tasks :
          (d = e /\ k = l) \/ Drives(all[d].tasks[k]) \cap Drives(all[e].tasks[l]) = {}
    BY <1>8, <1>10, <1>11
  <2>3. \A i \in DOMAIN new : \A t \in Drives(new[i]) :
          \E d \in DOMAIN all : \E k \in DOMAIN all[d].tasks : t \in Drives(all[d].tasks[k])
    BY <1>8, <1>10, <1>12
  <2> QED
    BY ONLY <1>9, <2>1, <2>2, <2>3 DEF DutiesFit
<1>14. RostersKeep(all)
  BY <1>8, <1>10 DEF RostersKeep
<1> QED
  BY <1>3, <1>13, <1>14 DEF all, new

-------------------------------------------------------------------------------
(* The invariant.                                                              *)

AtChunk == phase \in {"solve", "fallback", "check", "relaxed"} => at \in DOMAIN chunks
PlanKept == phase \in {"check", "relaxed"} => PlanFits(plan, chunks[at].trips)
RecordsKept ==
  /\ RecordsFit(records, chunks) /\ \A k \in DOMAIN records : records[k].chunk < at
  /\ phase = "asked" => records = <<>>
(* The answer in the making: its duties fit its vehicles, before and after     *)
(* these are joined.                                                           *)
MergeMade(m, S) == BlocksMerged(m.blocks, S, S) /\ m.duties \in Seq(DutyType(S)) /\ DutiesFit(m.blocks, m.duties, {}, S)
MergeKept ==
  /\ DOMAIN merged = DOMAIN NoMerge /\ IsList(merged.blocks)
  /\ \E S : DutiesFit(merged.blocks, merged.duties, {}, S)
  /\ RostersKeep(merged.duties)
  /\ phase = "stitch" => MergeMade(merged, TripIds(problem))
  /\ phase = "done" => CoverageHolds(problem, merged.blocks)
RequestKept == phase # "rest" => Settled(problem)
PublishInv == ChunksKept /\ RequestKept /\ AtChunk /\ PlanKept /\ RecordsKept /\ MergeKept

LEMMA ChunksAre ==
  ASSUME ChunksKept
  PROVE  /\ ChunksApart(chunks, TripIds(problem)) /\ at \in Nat \ {0}
         /\ at <= Len(chunks) => chunks # <<>> /\ at \in DOMAIN chunks /\ at \in Int
<1>1. at \in Nat \ {0}
  BY DEF ChunksKept
<1>2. CASE chunks = <<>>
  <2>1. DOMAIN chunks = {} /\ Len(chunks) = 0
    BY <1>2, EmptyList
  <2> QED
    BY <1>1, <2>1 DEF ChunksApart
<1>3. CASE chunks # <<>>
  <2>1. Divides(problem, chunks)
    BY <1>3 DEF ChunksKept
  <2>2. chunks \in Seq(Cargo(problem))
    BY <2>1 DEF Divides
  <2>3. (\A i \in DOMAIN chunks : chunks[i] \in Cargo(problem)) /\ DOMAIN chunks = 1..Len(chunks) /\ Len(chunks) \in Nat
    BY <2>2
  <2>4. ChunksApart(chunks, TripIds(problem))
    BY <2>1, <2>3 DEF Divides, Cargo, ChunksApart
  <2> QED
    BY <1>1, <1>3, <2>3, <2>4
<1> QED
  BY <1>2, <1>3

(* A step that keeps the request, its chunks and the results so far.           *)
LEMMA QuietPublish ==
  ASSUME PublishInv, ChunksKept', UNCHANGED <<problem, chunks, at, records, merged>>,
         phase # "rest", phase' \notin {"asked", "stitch", "done", "rest"}, AtChunk', PlanKept'
  PROVE  PublishInv'
<1>1. RecordsKept'
  BY DEF PublishInv, RecordsKept
<1>2. MergeKept'
  BY DEF PublishInv, MergeKept
<1>3. RequestKept'
  BY DEF PublishInv, RequestKept
<1> QED
  BY <1>1, <1>2, <1>3 DEF PublishInv

(* The plan of a chunk that a solver or the repair returns.                    *)
LEMMA PlansFit ==
  ASSUME PublishInv, phase # "rest", at \in DOMAIN chunks
  PROVE  /\ \A p \in Answers(problem, chunks[at].trips) : PlanFits(p, chunks[at].trips)
         /\ PlanFits(plan, chunks[at].trips) =>
              \A p \in Repaired(problem, plan, chunks[at].trips) : PlanFits(p, chunks[at].trips)
<1>1. IsRequest(problem)
  BY DEF PublishInv, RequestKept, Settled
<1>2. chunks[at].trips \in SUBSET TripIds(problem)
  BY ChunksAre DEF PublishInv, ChunksApart
<1> QED
  BY <1>1, <1>2, AnswersFit, RepairedFits

(* The turn of the next chunk.                                                 *)
LEMMA NextPublish ==
  ASSUME PublishInv, ChunksKept', UNCHANGED <<problem, chunks, merged>>, phase # "rest", phase' = "chunk", at' = at + 1,
         \/ records' = records
         \/ /\ at \in DOMAIN chunks
            /\ \E p, how : /\ records' = Append(records, [chunk |-> at, plan |-> p, status |-> how])
                           /\ PlanFits(p, chunks[at].trips) /\ p.bare = {}
  PROVE  PublishInv'
<1>1. AtChunk' /\ PlanKept' /\ RequestKept'
  BY DEF PublishInv, AtChunk, PlanKept, RequestKept
<1>2. MergeKept'
  BY DEF PublishInv, MergeKept
<1>3. at \in Nat /\ IsList(records) /\ (\A k \in DOMAIN records : RecordFits(records[k], chunks) /\ records[k].chunk < at)
      /\ \A k, l \in DOMAIN records : k # l => records[k].chunk # records[l].chunk
  BY ChunksAre DEF PublishInv, RecordsKept, RecordsFit
<1>4. \A k \in DOMAIN records : records[k].chunk \in Int
  BY <1>3 DEF RecordFits
<1>5. CASE records' = records
  <2>1. \A k \in DOMAIN records : records[k].chunk < at + 1
    BY <1>3, <1>4
  <2>2. RecordsKept'
    BY <1>3, <1>5, <2>1 DEF RecordsKept, RecordsFit
  <2> QED
    BY <1>1, <1>2, <2>2 DEF PublishInv
<1>6. ASSUME at \in DOMAIN chunks, NEW p, NEW how, records' = Append(records, [chunk |-> at, plan |-> p, status |-> how]),
             PlanFits(p, chunks[at].trips), p.bare = {}
      PROVE  PublishInv'
  <2> DEFINE r == [chunk |-> at, plan |-> p, status |-> how]
             q == records
             m == Len(q)
  <2>1. RecordFits(r, chunks) /\ r.chunk = at
    <3>1. r.chunk = at /\ r.plan = p
      OBVIOUS
    <3> HIDE DEF r
    <3> QED
      BY <1>3, <1>6, <3>1 DEF RecordFits
  <2>2. records' = Append(q, r)
    BY <1>6
  <2> HIDE DEF r
  <2>3. IsList(records') /\ DOMAIN q = 1..m /\ m \in Nat
    BY <1>3, <2>2, AppendedList, ListDomain
  <2>4. q \in Seq(Range(q) \cup {r})
    BY <1>3, SeqMonotonic DEF IsList
  <2> HIDE DEF q
  <2>5. DOMAIN records' = 1..(m + 1) /\ (\A k \in 1..m : records'[k] = q[k]) /\ records'[m + 1] = r
    BY <2>2, <2>3, <2>4
  <2>6. \A k \in 1..(m + 1) : k \in 1..m \/ k = m + 1
    BY <2>3
  <2>7. \A k \in 1..m : RecordFits(q[k], chunks) /\ q[k].chunk < at /\ q[k].chunk \in Int
    BY <1>3, <1>4, <2>3 DEF q
  <2>8. \A k \in DOMAIN records' : RecordFits(records'[k], chunks) /\ records'[k].chunk < at + 1
    BY <1>3, <2>1, <2>5, <2>6, <2>7
  <2>9. \A k, l \in DOMAIN records' : k # l => records'[k].chunk # records'[l].chunk
    <3>1. \A k, l \in 1..m : k # l => q[k].chunk # q[l].chunk
      BY <1>3, <2>3 DEF q
    <3>2. \A k \in 1..m : q[k].chunk # r.chunk
      BY <1>3, <2>1, <2>7
    <3> QED
      BY <2>5, <2>6, <3>1, <3>2
  <2>10. RecordsKept'
    BY <2>3, <2>8, <2>9 DEF RecordsKept, RecordsFit
  <2> QED
    BY <1>1, <1>2, <2>10 DEF PublishInv
<1> QED
  BY <1>5, <1>6

LEMMA SolvePublish ==
  ASSUME PublishInv, ChunksKept', Primary \/ PrimaryFails \/ FallbackRuns \/ FallbackRaises
  PROVE  PublishInv'
<1>1. phase \in {"solve", "fallback"}
  BY DEF Primary, PrimaryFails, FallbackRuns, FallbackRaises, In
<1>2. at \in DOMAIN chunks
  BY <1>1 DEF PublishInv, AtChunk
<1>3. CASE PrimaryFails
  <2>1. phase' = "fallback" /\ UNCHANGED <<problem, chunks, at, plan, status, records, failed, merged>>
    BY <1>3 DEF PrimaryFails, Enter
  <2>2. AtChunk' /\ PlanKept'
    BY <1>2, <2>1 DEF AtChunk, PlanKept
  <2> QED
    BY <1>1, <2>1, <2>2, QuietPublish
<1>4. ASSUME NEW p \in Answers(problem, Trips), plan' = p, phase' \in {"check", "relaxed"},
             UNCHANGED <<problem, chunks, at, records, merged>>
      PROVE  PublishInv'
  <2>1. PlanFits(p, chunks[at].trips)
    BY <1>1, <1>2, <1>4, PlansFit DEF Trips
  <2>2. AtChunk' /\ PlanKept'
    BY <1>2, <1>4, <2>1 DEF AtChunk, PlanKept
  <2> QED
    BY <1>1, <1>4, <2>2, QuietPublish
<1> QED
  BY <1>3, <1>4 DEF Primary, FallbackRuns, FallbackRaises, Found

LEMMA AcceptPublish ==
  ASSUME PublishInv, ChunksKept', Accept \/ RepairChunk
  PROVE  PublishInv'
<1>1. phase = "check" /\ at \in DOMAIN chunks /\ PlanFits(plan, chunks[at].trips)
  BY DEF Accept, RepairChunk, In, PublishInv, AtChunk, PlanKept
<1>2. ASSUME NEW p, NEW how, Record(p, how), PlanFits(p, chunks[at].trips), Passes(problem, p, Trips)
      PROVE  PublishInv'
  <2>1. p.bare = {}
    BY <1>2, PassesWhole
  <2>2. /\ UNCHANGED <<problem, chunks, merged>> /\ phase' = "chunk" /\ at' = at + 1
        /\ records' = Append(records, [chunk |-> at, plan |-> p, status |-> how])
    BY <1>2 DEF Record, NextChunk
  <2> QED
    BY <1>1, <1>2, <2>1, <2>2, NextPublish
<1>3. CASE Accept
  BY <1>1, <1>2, <1>3 DEF Accept
<1>4. CASE RepairChunk
  <2>1. PICK p \in Repaired(problem, plan, Trips) : Passes(problem, p, Trips) /\ Record(p, RepairedName)
    BY <1>4 DEF RepairChunk
  <2>2. PlanFits(p, chunks[at].trips)
    BY <1>1, <2>1, PlansFit DEF Trips
  <2> QED
    BY <1>2, <2>1, <2>2
<1> QED
  BY <1>3, <1>4

LEMMA VainPublish ==
  ASSUME PublishInv, ChunksKept', RepairInVain \/ RelaxedFails
  PROVE  PublishInv'
<1>1. phase \in {"check", "relaxed"} /\ at \in DOMAIN chunks
  BY DEF RepairInVain, RelaxedFails, In, PublishInv, AtChunk
<1>2. CASE Fail
  <2>1. UNCHANGED <<problem, chunks, merged>> /\ phase' = "chunk" /\ at' = at + 1 /\ records' = records
    BY <1>2 DEF Fail, NextChunk
  <2> QED
    BY <1>1, <2>1, NextPublish
<1>3. CASE Enter("fallback")
  <2>1. phase' = "fallback" /\ UNCHANGED <<problem, chunks, at, plan, status, records, failed, merged>>
    BY <1>3 DEF Enter
  <2>2. AtChunk' /\ PlanKept'
    BY <1>1, <2>1 DEF AtChunk, PlanKept
  <2> QED
    BY <1>1, <2>1, <2>2, QuietPublish
<1> QED
  BY <1>2, <1>3 DEF RepairInVain, RelaxedFails, TurnOrFail

LEMMA RelaxedPublish ==
  ASSUME PublishInv, ChunksKept', RelaxedPasses \/ RelaxedRepaired
  PROVE  PublishInv'
<1>1. phase = "relaxed" /\ at \in DOMAIN chunks /\ PlanFits(plan, chunks[at].trips)
  BY DEF RelaxedPasses, RelaxedRepaired, In, PublishInv, AtChunk, PlanKept
<1>2. ASSUME NEW p, PlanFits(p, chunks[at].trips), Found(p, "fallback_completed") PROVE PublishInv'
  <2>1. plan' = p /\ phase' = "check" /\ UNCHANGED <<problem, chunks, at, records, failed, merged>>
    BY <1>2 DEF Found
  <2>2. AtChunk' /\ PlanKept'
    BY <1>1, <1>2, <2>1 DEF AtChunk, PlanKept
  <2> QED
    BY <1>1, <2>1, <2>2, QuietPublish
<1>3. CASE RelaxedPasses
  BY <1>1, <1>2, <1>3 DEF RelaxedPasses
<1>4. CASE RelaxedRepaired
  <2>1. PICK p \in Repaired(problem, plan, Trips) : Found(p, "fallback_completed")
    BY <1>4 DEF RelaxedRepaired
  <2>2. PlanFits(p, chunks[at].trips)
    BY <1>1, <2>1, PlansFit DEF Trips
  <2> QED
    BY <1>2, <2>1, <2>2
<1> QED
  BY <1>3, <1>4

LEMMA EndPublish ==
  ASSUME PublishInv, ChunksKept', RefuseInput \/ GroupCut \/ RelaxedCrashes \/ SomeFailed
  PROVE  PublishInv'
<1>1. /\ phase # "rest" /\ phase' \in {"refused", "crashed", "failed"}
      /\ UNCHANGED <<problem, chunks, at, plan, status, records, failed, merged>>
  BY DEF RefuseInput, GroupCut, RelaxedCrashes, SomeFailed, Enter, In
<1>2. AtChunk' /\ PlanKept'
  BY <1>1 DEF AtChunk, PlanKept
<1> QED
  BY <1>1, <1>2, QuietPublish

LEMMA CutPublish ==
  ASSUME PublishInv, ChunksKept', Cut \/ BeginChunk
  PROVE  PublishInv'
<1>1. CASE Cut
  <2>1. phase = "asked" /\ phase' = "chunk" /\ UNCHANGED <<problem, at, plan, status, records, failed, merged>>
    BY <1>1 DEF Cut, In
  <2>2. records = <<>> /\ IsList(records)
    BY <2>1 DEF PublishInv, RecordsKept, RecordsFit
  <2>3. AtChunk' /\ PlanKept' /\ RequestKept'
    BY <2>1 DEF PublishInv, AtChunk, PlanKept, RequestKept
  <2>4. RecordsKept'
    <3>1. DOMAIN records = {}
      BY <2>2, EmptyList
    <3> QED
      BY <2>1, <2>2, <3>1 DEF RecordsKept, RecordsFit
  <2>5. MergeKept'
    BY <2>1 DEF PublishInv, MergeKept
  <2> QED
    BY <2>3, <2>4, <2>5 DEF PublishInv
<1>2. CASE BeginChunk
  <2>1. /\ phase = "chunk" /\ at <= Len(chunks) /\ phase' = "solve"
        /\ UNCHANGED <<chunks, at, plan, records, failed, merged>>
    BY <1>2 DEF BeginChunk, In
  <2>2. chunks # <<>> /\ at \in DOMAIN chunks
    BY <2>1, ChunksAre DEF PublishInv
  <2>3. AtChunk' /\ PlanKept'
    BY <2>1, <2>2 DEF AtChunk, PlanKept
  <2>4. RequestKept'
    BY <2>1, <2>2 DEF RequestKept, ChunksKept
  <2>5. RecordsKept'
    BY <2>1 DEF PublishInv, RecordsKept
  <2>6. MergeKept'
    BY <2>1 DEF PublishInv, MergeKept
  <2> QED
    BY <2>3, <2>4, <2>5, <2>6 DEF PublishInv
<1> QED
  BY <1>1, <1>2

LEMMA MergePublish ==
  ASSUME PublishInv, ChunksKept', Merge
  PROVE  PublishInv'
<1> DEFINE all == FoldLeft(MergeRecord, [blocks |-> <<>>, duties |-> <<>>, next |-> 1], records)
           S == TripIds(problem)
<1>1. /\ phase = "chunk" /\ phase' = "stitch" /\ UNCHANGED <<problem, chunks, at, plan, status, records, failed>>
      /\ merged'.blocks = all.blocks /\ merged'.duties = all.duties /\ DOMAIN merged' = DOMAIN NoMerge
  <2> HIDE DEF all
  <2> QED
    BY DEF Merge, In, NoMerge, all
<1>2. ChunksApart(chunks, S) /\ RecordsFit(records, chunks)
  BY ChunksAre DEF PublishInv, RecordsKept
<1>3. /\ BlocksMerged(all.blocks, S, S) /\ all.duties \in Seq(DutyType(S))
      /\ DutiesFit(all.blocks, all.duties, {}, S) /\ RostersKeep(all.duties)
  BY <1>2, MergedFit
<1> HIDE DEF all
<1>4. IsList(all.blocks)
  <2> DEFINE bs == all.blocks
  <2>1. bs \in Seq(BlockType(S))
    BY <1>3 DEF BlocksMerged, BlocksApart
  <2> HIDE DEF bs
  <2>2. Len(bs) \in Nat /\ bs = [k \in 1..Len(bs) |-> bs[k]]
    BY <2>1
  <2> QED
    BY <2>2, MadeList DEF bs
<1>5. MergeKept'
  BY <1>1, <1>3, <1>4 DEF MergeKept, MergeMade
<1>6. AtChunk' /\ PlanKept' /\ RequestKept' /\ RecordsKept'
  BY <1>1 DEF PublishInv, AtChunk, PlanKept, RequestKept, RecordsKept
<1> QED
  BY <1>5, <1>6 DEF PublishInv

LEMMA StitchPublish ==
  ASSUME PublishInv, ChunksKept', Stitch
  PROVE  PublishInv'
<1> DEFINE new == Stitched(problem, merged.blocks)
           all == [i \in DOMAIN merged.duties |-> Remapped(new, merged.duties[i])]
           S == TripIds(problem)
<1>1. phase = "stitch" /\ IsRequest(problem) /\ MergeMade(merged, S) /\ RostersKeep(merged.duties)
  BY DEF Stitch, In, PublishInv, RequestKept, Settled, MergeKept
<1>2. /\ UNCHANGED <<problem, chunks, at, plan, status, records, failed>>
      /\ phase' = IF CoverageHolds(problem, new) THEN "done" ELSE "mismatch"
      /\ merged' = [merged EXCEPT !.blocks = new, !.duties = all]
  BY DEF Stitch
<1>3. merged'.blocks = new /\ merged'.duties = all /\ DOMAIN merged' = DOMAIN NoMerge
  <2>1. DOMAIN merged = DOMAIN NoMerge /\ {"blocks", "duties"} \subseteq DOMAIN NoMerge
    BY DEF PublishInv, MergeKept, NoMerge
  <2> HIDE DEF new, all
  <2> QED
    BY <1>2, <2>1
<1>4. IsList(new) /\ DutiesFit(new, all, {}, S) /\ RostersKeep(all)
  BY <1>1, StitchedFits DEF MergeMade
<1> HIDE DEF new, all
<1>5. MergeKept'
  BY <1>2, <1>3, <1>4 DEF MergeKept
<1>6. AtChunk' /\ PlanKept' /\ RequestKept' /\ RecordsKept'
  BY <1>1, <1>2 DEF PublishInv, AtChunk, PlanKept, RequestKept, RecordsKept
<1> QED
  BY <1>5, <1>6 DEF PublishInv

LEMMA PublishStep ==
  ASSUME PublishInv, [PartsNext]_<<scale, solver>>
  PROVE  PublishInv'
<1>1. ChunksKept'
  BY ChunksKeptStep DEF PublishInv
<1>2. CASE UNCHANGED scale
  <2>1. UNCHANGED <<problem, chunks, at, phase, plan, status, records, failed, merged>>
    BY <1>2 DEF scale
  <2>2. AtChunk' /\ PlanKept' /\ RecordsKept' /\ MergeKept' /\ RequestKept'
    BY <2>1 DEF PublishInv, AtChunk, PlanKept, RecordsKept, MergeKept, RequestKept
  <2> QED
    BY <1>1, <2>2 DEF PublishInv
<1>3. CASE ScaleNext
  <2>1. CASE Cut \/ BeginChunk
    BY <1>1, <2>1, CutPublish
  <2>2. CASE RefuseInput \/ GroupCut \/ RelaxedCrashes \/ SomeFailed
    BY <1>1, <2>2, EndPublish
  <2>3. CASE Primary \/ PrimaryFails \/ FallbackRuns \/ FallbackRaises
    BY <1>1, <2>3, SolvePublish
  <2>4. CASE Accept \/ RepairChunk
    BY <1>1, <2>4, AcceptPublish
  <2>5. CASE RepairInVain \/ RelaxedFails
    BY <1>1, <2>5, VainPublish
  <2>6. CASE RelaxedPasses \/ RelaxedRepaired
    BY <1>1, <2>6, RelaxedPublish
  <2>7. CASE Merge
    BY <1>1, <2>7, MergePublish
  <2>8. CASE Stitch
    BY <1>1, <2>8, StitchPublish
  <2> QED
    BY <1>3, <2>1, <2>2, <2>3, <2>4, <2>5, <2>6, <2>7, <2>8 DEF ScaleNext
<1> QED
  BY <1>2, <1>3 DEF PartsNext, scale

LEMMA PublishInit == PartsInit => PublishInv
<1> SUFFICES ASSUME PartsInit PROVE PublishInv
  OBVIOUS
<1>1. /\ chunks = <<>> /\ at = 1 /\ phase \in {"asked", "rest"} /\ records = <<>> /\ merged = NoMerge
      /\ phase = "rest" \/ ScaleInit
  BY DEF PartsInit, ScaleInit, ScaleAtRest
<1>2. ChunksKept
  BY ChunksKeptInit
<1>3. RequestKept
  BY <1>1, <1>2 DEF RequestKept, ChunksKept
<1>4. IsList(<<>>)
  BY EmptyList DEF IsList
<1>5. RecordsKept
  BY <1>1, <1>4, EmptyList DEF RecordsKept, RecordsFit
<1>6. MergeKept
  <2>1. merged.blocks = <<>> /\ merged.duties = <<>>
    BY <1>1 DEF NoMerge
  <2>2. DutiesFit(<<>>, <<>>, {}, {}) /\ RostersKeep(<<>>)
    BY <1>4, EmptyList DEF DutiesFit, RostersKeep
  <2> QED
    BY <1>1, <1>4, <2>1, <2>2 DEF MergeKept
<1> QED
  BY <1>1, <1>2, <1>3, <1>5, <1>6 DEF PublishInv, AtChunk, PlanKept

LEMMA PublishSays == PublishInv => PublishedWhole
<1> SUFFICES ASSUME PublishInv PROVE PublishedWhole
  OBVIOUS
<1>1. PICK S : DutiesFit(merged.blocks, merged.duties, {}, S)
  BY DEF PublishInv, MergeKept
<1>2. TasksKnowTheirVehicle
  BY <1>1 DEF TasksKnowTheirVehicle, DutiesFit, IsOf, Drives
<1>3. RostersApart
  BY DEF RostersApart, PublishInv, MergeKept, RostersKeep
<1>4. ASSUME phase = "done", NEW t \in TripIds(problem)
      PROVE  Times(merged.blocks, t) = 1 /\ DutyTimes(merged.duties, t) = 1
  <2>1. Times(merged.blocks, t) = 1 /\ IsList(merged.blocks)
    BY <1>4 DEF PublishInv, MergeKept, CoverageHolds
  <2>2. PICK i \in DOMAIN merged.blocks : t \in Drives(merged.blocks[i])
    BY <2>1, NoTimes
  <2>3. merged.blocks[i].id \notin {}
    OBVIOUS
  <2> QED
    BY <1>1, <2>1, <2>2, <2>3, FittingDutiesDriveOnce
<1>5. PublishedCoversOnce
  BY <1>4 DEF PublishedCoversOnce, DutyTimes
<1> QED
  BY <1>2, <1>3, <1>5 DEF PublishedWhole

(* Whatever the request, and whatever the solvers answer to its chunks: what   *)
(* is published drives every trip once, in one block and in one duty, and its  *)
(* tasks, vehicles and rosters refer to each other as they did in the chunks   *)
(* (_merge_scale_chunk_results, _stitch_scale_blocks).                         *)
THEOREM PublishedStaysWhole == PartsSpec => []PublishedWhole
<1>1. PartsSpec => []PublishInv
  BY PublishInit, PublishStep, PTL DEF PartsSpec
<1> QED
  BY <1>1, PublishSays, PTL

-------------------------------------------------------------------------------
(* The parts a solver cuts its job into: regions.                              *)

LEMMA JobTimed ==
  ASSUME NEW J, IsJob(J), NEW S \in SUBSET TripIds(J)
  PROVE  Timed(J, S) /\ Timed(Sent(J), S)
<1>1. J.trips \in Seq(TripType) /\ "trips" \in DOMAIN J
  BY DEF IsJob, TripType
<1>2. TripIds(J) = 1..Len(J.trips) /\ Len(J.trips) \in Nat
  BY <1>1 DEF TripIds
<1>3. \A t \in TripIds(J) : J.trips[t].st \in Int
  <2>1. \A t \in TripIds(J) : J.trips[t] \in TripType
    BY <1>1, <1>2
  <2> QED
    BY <2>1 DEF TripType
<1>4. IsFiniteSet(S) /\ S \subseteq Nat
  <2>1. IsFiniteSet(TripIds(J)) /\ TripIds(J) \subseteq Nat
    BY <1>2, FS_Interval
  <2> QED
    BY <2>1, FS_Subset
<1>5. Sent(J).trips = J.trips
  BY <1>1 DEF Sent
<1> QED
  BY <1>3, <1>4, <1>5 DEF Timed

LEMMA NumbersSorted ==
  ASSUME NEW Q, IsFiniteSet(Q), Q \subseteq Int
  PROVE  ListsOnce(Sorted(Q, LAMBDA v, w : v < w), Q)
<1> DEFINE R == {x \in Q \X Q : x[1] < x[2]}
           m == Cardinality(Q)
           s == Sorted(Q, LAMBDA v, w : v < w)
           nth(i) == CHOOSE x \in Q : Rank(R, Q, x) = i - 1
           direct(i) == CHOOSE x \in Q : Cardinality({y \in Q : y < x}) = i - 1
<1>1. Orders(R, Q)
  <2>1. \A u, w \in Q : <<u, w>> \in R <=> u < w
    OBVIOUS
  <2> HIDE DEF R
  <2> QED
    BY <2>1 DEF Orders
<1>2. s = [i \in 1..m |-> nth(i)]
  <2>1. \A x \in Q : Rank(R, Q, x) = Cardinality({y \in Q : y < x})
    <3>1. \A x \in Q : {y \in Q : <<y, x>> \in R} = {y \in Q : y < x}
      OBVIOUS
    <3> QED
      BY <3>1 DEF Rank
  <2>2. \A i : direct(i) = nth(i)
    BY <2>1
  <2>3. s = [i \in 1..m |-> direct(i)]
    BY DEF Sorted
  <2> HIDE DEF direct, nth, s, m
  <2> QED
    BY <2>2, <2>3
<1> HIDE DEF s, R
<1>3. s = [i \in 1..Cardinality(Q) |-> CHOOSE x \in Q : Rank(R, Q, x) = i - 1]
  BY <1>2
<1>4. s \in Seq(Q) /\ Len(s) = Cardinality(Q) /\ Range(s) = Q /\ IsInjective(s)
  <2>1. IsFiniteSet(Q)
    OBVIOUS
  <2> QED
    BY ONLY <1>1, <1>3, <2>1, SortedLists
<1> QED
  BY <1>4, TypedOnce DEF s

(* Parts of the trips S that leave none out, and parts that share none.        *)
Covers(ps, S) ==
  /\ IsList(ps) /\ \A i \in DOMAIN ps : ps[i] # {} /\ ps[i] \subseteq S
  /\ \A t \in S : \E i \in DOMAIN ps : t \in ps[i]
Separate(ps) == \A i, j \in DOMAIN ps : i # j => ps[i] \cap ps[j] = {}

(* Every trip starts in a window of its own length.                            *)
LEMMA WindowOfTrip ==
  ASSUME NEW a \in Int, NEW w \in Nat \ {0}
  PROVE  LET k == a \div w IN
         /\ k \in Int /\ k * w \in Int /\ k * w <= a /\ a < k * w + w
         /\ \A b \in Int : (a <= b => k <= b \div w) /\ (b <= a => b \div w <= k)
<1>1. (a \div w) \in Int /\ (a \div w) * w <= a /\ a < (a \div w) * w + w
  OBVIOUS
<1>2. \A b \in Int : (a <= b => (a \div w) <= (b \div w)) /\ (b <= a => (b \div w) <= (a \div w))
  OBVIOUS
<1> QED
  BY <1>1, <1>2

LEMMA WindowsReach ==
  ASSUME NEW J, IsJob(J), TripIds(J) # {}
  PROVE  /\ IsList(Windows(J))
         /\ \A t \in TripIds(J) : \E i \in DOMAIN Windows(J) : t \in Window(J, Windows(J)[i])
<1> DEFINE w == J.prm.window
           starts == {J.trips[t].st : t \in TripIds(J)}
           neg == {0 - m : m \in starts}
           a == First(starts)
           b == 0 - First(neg)
           k == (a \div w)..(b \div w)
           Q == {i * w : i \in k}
<1>1. w \in Nat \ {0} /\ IsFiniteSet(TripIds(J)) /\ \A t \in TripIds(J) : J.trips[t].st \in Int
  BY JobTimed DEF IsJob, Timed
<1>2. IsFiniteSet(starts) /\ starts # {} /\ starts \subseteq Int
  <2> DEFINE f == [t \in TripIds(J) |-> J.trips[t].st]
  <2>1. starts = {f[t] : t \in TripIds(J)}
    OBVIOUS
  <2>2. IsFiniteSet({f[t] : t \in TripIds(J)})
    <3> HIDE DEF f
    <3> QED
      BY <1>1, ImagesFinite
  <2> QED
    BY <1>1, <2>1, <2>2
<1>3. IsFiniteSet(neg) /\ neg # {} /\ neg \subseteq Int
  <2> DEFINE f == [m \in starts |-> 0 - m]
  <2>1. neg = {f[m] : m \in starts}
    OBVIOUS
  <2>2. IsFiniteSet({f[m] : m \in starts})
    <3> HIDE DEF f, starts
    <3> QED
      BY <1>2, ImagesFinite
  <2>3. neg # {} /\ neg \subseteq Int
    <3> HIDE DEF starts
    <3> QED
      BY <1>2
  <2> HIDE DEF neg, f
  <2> QED
    BY <2>1, <2>2, <2>3
<1>4. a \in Int /\ \A m \in starts : a <= m
  <2> HIDE DEF starts
  <2> QED
    BY <1>2, LeastNumber
<1>5. b \in Int /\ \A m \in starts : m <= b
  <2>1. First(neg) \in neg /\ \A x \in neg : First(neg) <= x
    <3> HIDE DEF neg
    <3> QED
      BY <1>3, LeastNumber
  <2>2. First(neg) \in Int
    BY <1>3, <2>1
  <2>3. ASSUME NEW m \in starts PROVE m <= b
    <3>1. 0 - m \in neg /\ m \in Int
      BY <1>2
    <3>2. First(neg) <= 0 - m
      BY <2>1, <3>1
    <3> HIDE DEF neg
    <3> QED
      BY <2>2, <3>1, <3>2
  <2> HIDE DEF neg
  <2> QED
    BY <2>2, <2>3
<1> HIDE DEF w, a, b
<1>6. (a \div w) \in Int /\ (b \div w) \in Int
  BY <1>1, <1>4, <1>5, WindowOfTrip
<1>7. IsFiniteSet(Q) /\ Q \subseteq Int
  <2>1. IsFiniteSet(k) /\ k \subseteq Int
    BY <1>6, FS_Interval
  <2> DEFINE f == [i \in k |-> i * w]
  <2>2. Q = {f[i] : i \in k}
    OBVIOUS
  <2>3. IsFiniteSet({f[i] : i \in k})
    <3> HIDE DEF f, k
    <3> QED
      BY <2>1, ImagesFinite
  <2>4. \A i \in k : i * w \in Int
    <3>1. \A i \in Int : i * w \in Int
      BY <1>1
    <3> HIDE DEF k
    <3> QED
      BY <2>1, <3>1
  <2> QED
    BY <2>2, <2>3, <2>4
<1>8. Windows(J) = Sorted(Q, LAMBDA v, x : v < x)
  BY DEF Windows, a, b, w
<1>9. ListsOnce(Windows(J), Q)
  <2> HIDE DEF Q
  <2> QED
    BY <1>7, <1>8, NumbersSorted
<1>10. ASSUME NEW t \in TripIds(J) PROVE \E i \in DOMAIN Windows(J) : t \in Window(J, Windows(J)[i])
  <2> DEFINE st == J.trips[t].st
             n == st \div w
  <2>1. st \in Int /\ a <= st /\ st <= b
    BY <1>1, <1>4, <1>5
  <2> HIDE DEF st
  <2>2. n \in Int /\ (a \div w) <= n /\ n <= (b \div w) /\ n * w \in Int /\ n * w <= st /\ st < n * w + w
    BY <1>1, <1>4, <1>5, <2>1, WindowOfTrip
  <2>3. n * w \in Q
    <3>1. n \in k
      BY <1>6, <2>2
    <3> HIDE DEF n, k
    <3> QED
      BY <3>1
  <2> HIDE DEF n, Q
  <2>4. PICK i \in DOMAIN Windows(J) : Windows(J)[i] = n * w
    BY <1>9, <2>3 DEF ListsOnce, Range
  <2>5. n * w - Overlapping <= st
    <3> DEFINE v == n * w
    <3> HIDE DEF v
    <3>1. v \in Int /\ v <= st
      BY <2>2 DEF v
    <3>2. v - 30 <= st
      BY <2>1, <3>1
    <3> QED
      BY <3>2 DEF v, Overlapping
  <2>6. t \in Window(J, n * w)
    BY <2>2, <2>5 DEF Window, st, w
  <2> QED
    BY <2>4, <2>6
<1> QED
  BY <1>9, <1>10 DEF ListsOnce

(* By depots the regions part the trips, by windows they leave none out.       *)
LEMMA RegionsCover ==
  ASSUME NEW J, IsJob(J)
  PROVE  LET ps == Regions(J) IN
         Covers(ps, TripIds(J)) /\ ((\E t \in TripIds(J) : J.trips[t].depot # 0) => Separate(ps))
<1> DEFINE T == TripIds(J)
           depots == {J.trips[t].depot : t \in T}
           Of(d) == {t \in T : J.trips[t].depot = d}
           byDepot == {Of(d) : d \in depots}
           ps == Regions(J)
<1>1. IsFiniteSet(T) /\ T \subseteq Nat
  BY JobTimed DEF Timed
<1>2. ASSUME depots # {0} PROVE Covers(ps, T) /\ Separate(ps)
  <2>1. ps = Sorted(byDepot, LAMBDA a, b : First(a) < First(b))
    BY <1>2 DEF Regions
  <2>2. IsFiniteSet(byDepot)
    <3> DEFINE f == [t \in T |-> J.trips[t].depot]
               g == [d \in depots |-> Of(d)]
    <3>1. depots = {f[t] : t \in T}
      OBVIOUS
    <3>2. IsFiniteSet({f[t] : t \in T})
      <4> HIDE DEF f, T
      <4> QED
        BY <1>1, ImagesFinite
    <3>3. byDepot = {g[d] : d \in depots}
      <4> HIDE DEF Of, depots
      <4> QED
        OBVIOUS
    <3>4. IsFiniteSet(depots)
      <4> HIDE DEF depots, f
      <4> QED
        BY <3>1, <3>2
    <3>5. IsFiniteSet({g[d] : d \in depots})
      <4> HIDE DEF depots, g
      <4> QED
        BY <3>4, ImagesFinite
    <3> HIDE DEF byDepot, g
    <3> QED
      BY <3>3, <3>5
  <2>3. \A u \in byDepot : u # {} /\ u \subseteq T
    OBVIOUS
  <2>4. Disjoint(byDepot)
    BY DEF Disjoint
  <2>5. \A t \in T : \E u \in byDepot : t \in u
    <3> TAKE t \in T
    <3>1. J.trips[t].depot \in depots /\ t \in Of(J.trips[t].depot)
      OBVIOUS
    <3> HIDE DEF depots, Of
    <3> QED
      BY <3>1
  <2> HIDE DEF byDepot, ps
  <2>6. ListsOnce(ps, byDepot)
    <3>1. \A u \in byDepot : u # {} /\ u \subseteq Nat
      BY <1>1, <2>3
    <3> QED
      BY <2>1, <2>2, <2>4, <3>1, PartsOrdered
  <2>7. IsList(ps) /\ \A i \in DOMAIN ps : ps[i] \in byDepot
    BY <2>6 DEF ListsOnce, Range
  <2>8. \A u \in byDepot : \E i \in DOMAIN ps : ps[i] = u
    BY <2>6 DEF ListsOnce, Range
  <2>9. \A i, j \in DOMAIN ps : i # j => ps[i] # ps[j]
    BY <2>6 DEF ListsOnce, IsInjective
  <2> QED
    BY <2>3, <2>4, <2>5, <2>7, <2>8, <2>9 DEF Covers, Separate, Disjoint
<1>3. ASSUME depots = {0} PROVE Covers(ps, T)
  <2> DEFINE ws == Windows(J)
             all == [i \in DOMAIN ws |-> Window(J, ws[i])]
             I == {i \in DOMAIN all : all[i] # {}}
             n == Cardinality(I)
  <2>1. ps = Picked(all, I)
    BY <1>3 DEF Regions
  <2>2. T # {}
    BY <1>3
  <2>3. IsList(ws) /\ \A t \in T : \E i \in DOMAIN ws : t \in Window(J, ws[i])
    BY <2>2, WindowsReach
  <2>4. \A v : Window(J, v) \subseteq T
    BY DEF Window
  <2> HIDE DEF ws, T
  <2>5. all \in Seq(SUBSET T) /\ DOMAIN all = DOMAIN ws /\ \A i \in DOMAIN ws : all[i] = Window(J, ws[i])
    <3>1. DOMAIN ws = 1..Len(ws) /\ Len(ws) \in Nat
      BY <2>3, ListDomain
    <3> DEFINE m == Len(ws)
    <3>2. m \in Nat /\ all = [i \in 1..m |-> Window(J, ws[i])] /\ \A i \in 1..m : Window(J, ws[i]) \in SUBSET T
      BY <2>4, <3>1
    <3> HIDE DEF m
    <3>3. all \in Seq(SUBSET T)
      BY <3>2
    <3> QED
      BY <3>3
  <2> HIDE DEF all, ps
  <2>6. PICK pos \in [1..n -> I] : /\ Range(pos) = I /\ n \in Nat
                                   /\ Picked(all, I) = [k \in 1..n |-> all[pos[k]]]
    <3>1. I \subseteq DOMAIN all
      OBVIOUS
    <3> HIDE DEF I
    <3> QED
      BY <2>5, <3>1, PickedLists
  <2> HIDE DEF n
  <2>7. IsList(ps) /\ DOMAIN ps = 1..n /\ \A k \in 1..n : pos[k] \in I /\ ps[k] = all[pos[k]]
    <3>1. ps = [k \in 1..n |-> ps[k]]
      BY <2>1, <2>6
    <3>2. IsList(ps)
      BY <2>6, <3>1, MadeList
    <3> QED
      BY <2>1, <2>6, <3>2
  <2>8. \A i \in DOMAIN ps : ps[i] # {} /\ ps[i] \subseteq T
    <3>1. \A i \in DOMAIN all : all[i] \subseteq T
      BY <2>4, <2>5
    <3> QED
      BY <2>7, <3>1
  <2>9. \A t \in T : \E i \in DOMAIN ps : t \in ps[i]
    <3> SUFFICES ASSUME NEW t \in T PROVE \E i \in DOMAIN ps : t \in ps[i]
      OBVIOUS
    <3>1. PICK i \in DOMAIN all : t \in all[i]
      BY <2>3, <2>5
    <3>2. i \in Range(pos)
      BY <2>6, <3>1
    <3>3. PICK k \in 1..n : pos[k] = i
      BY <3>2 DEF Range
    <3> QED
      BY <2>7, <3>1, <3>3
  <2> QED
    BY <2>7, <2>8, <2>9 DEF Covers
<1>4. (\E t \in T : J.trips[t].depot # 0) => depots # {0}
  OBVIOUS
<1> QED
  BY <1>2, <1>3, <1>4

(* What comes back for a part: its trips on blocks, each once, but those left. *)
RegionFits(x, S) ==
  /\ BlocksApart(x.blocks, S) /\ x.left \subseteq S
  /\ \A t : t \in S \ x.left <=> \E i \in DOMAIN x.blocks : t \in Drives(x.blocks[i])

LEMMA RegionAnswered ==
  ASSUME NEW J, IsJob(J), NEW S \in SUBSET TripIds(J), NEW rest \in SUBSET S,
         NEW b \in VehicleAnswers(Sent(J), S \ rest)
  PROVE  RegionFits([blocks |-> b, left |-> rest], S)
<1>1. PICK q \in Partitions(S \ rest) : b = Numbered(Sent(J), q)
  BY DEF VehicleAnswers
<1>2. Timed(Sent(J), S)
  BY JobTimed
<1> DEFINE R == S \ rest
<1>3. IsFiniteSet(R) /\ R \subseteq Nat /\ R \subseteq S
  BY <1>2, FS_Subset DEF Timed
<1> HIDE DEF R
<1>4. IsFiniteSet(q) /\ UNION q = R /\ Disjoint(q) /\ SomeOf(q, R)
  BY <1>1, <1>3, PartsOf DEF R
<1>5. \A u \in q : u # {} /\ u \subseteq S
  BY <1>3, <1>4 DEF SomeOf
<1>6. BlocksApart(b, S) /\ \A t : t \in UNION q <=> \E i \in DOMAIN b : t \in Drives(b[i])
  <2>1. LET bs == Numbered(Sent(J), q) IN
        BlocksApart(bs, S) /\ \A t : t \in UNION q <=> \E i \in DOMAIN bs : t \in Drives(bs[i])
    BY ONLY <1>2, <1>4, <1>5, NumberedApart
  <2> QED
    BY <1>1, <2>1
<1> QED
  BY <1>4, <1>6 DEF RegionFits, R

LEMMA OwnVehiclesFit ==
  ASSUME NEW J, IsJob(J), NEW S \in SUBSET TripIds(J)
  PROVE  RegionFits([blocks |-> OwnVehicles(S), left |-> {}], S)
<1> DEFINE o == Sorted(S, LAMBDA t, u : t < u)
           bs == OwnVehicles(S)
<1>1. IsFiniteSet(S) /\ S \subseteq Int
  BY JobTimed DEF Timed
<1>2. ListsOnce(o, S)
  BY <1>1, NumbersSorted
<1>3. bs = [i \in DOMAIN o |-> [id |-> i, trips |-> <<o[i]>>]]
  <2> DEFINE own == [i \in DOMAIN o |-> <<o[i]>>]
  <2>1. bs = FleetOf(own)
    BY DEF OwnVehicles
  <2>2. DOMAIN own = DOMAIN o /\ \A i \in DOMAIN o : own[i] = <<o[i]>>
    OBVIOUS
  <2> HIDE DEF o, own, bs
  <2> QED
    BY <2>1, <2>2 DEF FleetOf
<1> HIDE DEF o, bs
<1>4. IsList(o) /\ (\A i \in DOMAIN o : o[i] \in S) /\ \A i, j \in DOMAIN o : i # j => o[i] # o[j]
  BY <1>2 DEF ListsOnce, Range, IsInjective
<1>5. DOMAIN o = 1..Len(o) /\ Len(o) \in Nat
  BY <1>4, ListDomain
<1>6. \A i \in DOMAIN o : bs[i].id = i /\ bs[i].trips = <<o[i]>> /\ bs[i] \in BlockType(S) /\ NoTwice(bs[i])
  <2> SUFFICES ASSUME NEW i \in DOMAIN o
               PROVE  bs[i].id = i /\ bs[i].trips = <<o[i]>> /\ bs[i] \in BlockType(S) /\ NoTwice(bs[i])
    OBVIOUS
  <2>1. bs[i] = [id |-> i, trips |-> <<o[i]>>]
    BY <1>3
  <2>2. <<o[i]>> \in Seq(S) /\ <<o[i]>> # <<>> /\ i \in Nat \ {0}
    BY <1>4, <1>5
  <2>3. IsInjective(<<o[i]>>)
    BY DEF IsInjective
  <2> QED
    BY <2>1, <2>2, <2>3 DEF BlockType, NoTwice
<1>7. \A i \in DOMAIN o : Drives(bs[i]) = {o[i]}
  BY <1>6 DEF Drives, Range
<1>8. bs \in Seq(BlockType(S)) /\ DOMAIN bs = DOMAIN o
  <2> DEFINE n == Len(o)
  <2>1. n \in Nat /\ bs = [i \in 1..n |-> bs[i]] /\ \A i \in 1..n : bs[i] \in BlockType(S)
    BY <1>3, <1>5, <1>6
  <2> HIDE DEF n
  <2> QED
    BY <1>3, <2>1
<1>9. BlocksApart(bs, S)
  BY <1>4, <1>6, <1>7, <1>8 DEF BlocksApart
<1>10. \A t : t \in S <=> \E i \in DOMAIN bs : t \in Drives(bs[i])
  BY <1>2, <1>4, <1>7, <1>8 DEF ListsOnce, Range
<1> QED
  BY <1>9, <1>10 DEF RegionFits, bs

-------------------------------------------------------------------------------
(* The regions merged.                                                         *)

LEMMA SomeTimes ==
  ASSUME NEW bs, IsList(bs), NEW t, NEW i \in DOMAIN bs, t \in Drives(bs[i]),
         \A j \in DOMAIN bs : IsList(bs[j].trips)
  PROVE  Times(bs, t) \in Nat /\ Times(bs, t) >= 1
<1> DEFINE f == [j \in DOMAIN bs |-> Cardinality(Places(bs[j], t))]
<1>1. \A j \in DOMAIN bs : IsFiniteSet(Places(bs[j], t))
  <2> SUFFICES ASSUME NEW j \in DOMAIN bs PROVE IsFiniteSet(Places(bs[j], t))
    OBVIOUS
  <2>1. IsFiniteSet(DOMAIN bs[j].trips)
    BY ListDomain
  <2> QED
    BY <2>1, FS_Subset DEF Places
<1>2. \A j \in DOMAIN bs : f[j] \in Nat
  BY <1>1, FS_CardinalityType
<1>3. f[i] >= 1
  <2>1. Places(bs[i], t) # {}
    BY DEF Places, Drives, Range
  <2> QED
    BY <1>1, <1>2, <2>1, FS_EmptySet
<1>4. IsFiniteSet(DOMAIN bs) /\ IsFiniteSet(DOMAIN bs \ {i})
  BY ListDomain, FS_Subset
<1> HIDE DEF f
<1>5. Sum(f, DOMAIN bs) = f[i] + Sum(f, DOMAIN bs \ {i})
  <2>1. IntsOn(f, DOMAIN bs)
    BY <1>2 DEF IntsOn
  <2> QED
    BY <1>4, <2>1, SumWithout
<1>6. Sum(f, DOMAIN bs \ {i}) \in Nat
  BY <1>2, <1>4, SumIsNat
<1>7. Times(bs, t) = Sum(f, DOMAIN bs)
  BY TimesAreASum DEF f
<1> QED
  BY <1>2, <1>3, <1>5, <1>6, <1>7

LEMMA RidesAreTimes == \A bs, t : Rides(bs, t) = Times(bs, t)
  BY DEF Rides, Times

(* The answers of the regions in one.                                          *)
AllBlocks(fs) == FlattenSeq([i \in DOMAIN fs |-> fs[i].blocks])
AllFleet(fs) == FleetOf([i \in DOMAIN AllBlocks(fs) |-> AllBlocks(fs)[i].trips])
AllLeft(fs) == UNION {fs[i].left : i \in DOMAIN fs}

LEMMA RegionsMerged ==
  ASSUME NEW S, NEW ps, Covers(ps, S), NEW fs, IsList(fs), DOMAIN fs = DOMAIN ps,
         \A i \in DOMAIN fs : RegionFits(fs[i], ps[i]), NEW t \in S
  PROVE  /\ Rides(AllFleet(fs), t) >= 1 \/ t \in AllLeft(fs)
         /\ Separate(ps) => Rides(AllFleet(fs), t) = IF t \in AllLeft(fs) THEN 0 ELSE 1
<1> DEFINE s == [i \in DOMAIN fs |-> fs[i].blocks]
           K(i) == Range(s[i])
           all == AllBlocks(fs)
           fl == AllFleet(fs)
           lost == AllLeft(fs)
<1>0. /\ all = FlattenSeq(s) /\ fl = FleetOf([i \in DOMAIN all |-> all[i].trips])
      /\ lost = UNION {fs[i].left : i \in DOMAIN fs}
  BY DEF AllBlocks, AllFleet, AllLeft
<1> HIDE DEF all, fl, lost
<1>1. ASSUME NEW i \in DOMAIN fs
      PROVE  /\ IsList(s[i]) /\ \A k \in DOMAIN s[i] : s[i][k] \in BlockType(ps[i]) /\ NoTwice(s[i][k])
             /\ \A k, l \in DOMAIN s[i] : k # l => Drives(s[i][k]) \cap Drives(s[i][l]) = {}
  <2>1. s[i] \in Seq(BlockType(ps[i]))
    BY <1>1 DEF RegionFits, BlocksApart
  <2>2. s[i] = [k \in 1..Len(s[i]) |-> s[i][k]] /\ Len(s[i]) \in Nat /\ \A k \in DOMAIN s[i] : s[i][k] \in BlockType(ps[i])
    BY <2>1
  <2>3. IsList(s[i])
    BY <2>2, MadeList
  <2>4. s[i] = fs[i].blocks
    BY <1>1
  <2>5. /\ \A k \in DOMAIN fs[i].blocks : NoTwice(fs[i].blocks[k])
        /\ \A k, l \in DOMAIN fs[i].blocks : k # l => Drives(fs[i].blocks[k]) \cap Drives(fs[i].blocks[l]) = {}
    BY <1>1 DEF RegionFits, BlocksApart
  <2> HIDE DEF s
  <2> QED
    BY <2>2, <2>3, <2>4, <2>5
<1>2. ASSUME NEW i \in DOMAIN fs
      PROVE  /\ \A b \in K(i) : IsList(b.trips) /\ NoTwice(b) /\ Drives(b) # {} /\ Drives(b) \subseteq ps[i]
             /\ \A b, c \in K(i) : b = c \/ Drives(b) \cap Drives(c) = {}
             /\ \A u : u \in ps[i] \ fs[i].left <=> \E b \in K(i) : u \in Drives(b)
  <2>1. \A b \in K(i) : \E k \in DOMAIN s[i] : b = s[i][k]
    BY DEF Range
  <2>2. \A b \in K(i) : b \in BlockType(ps[i]) /\ NoTwice(b)
    BY <1>1, <1>2, <2>1
  <2>3. \A b \in K(i) : b.trips \in Seq(ps[i]) /\ b.trips # <<>>
    BY <2>2 DEF BlockType, NoTwice
  <2>4. \A v \in Seq(ps[i]) : v # <<>> => IsList(v) /\ Range(v) # {} /\ Range(v) \subseteq ps[i]
    <3> SUFFICES ASSUME NEW v \in Seq(ps[i]), v # <<>> PROVE IsList(v) /\ Range(v) # {} /\ Range(v) \subseteq ps[i]
      OBVIOUS
    <3>1. v = [k \in 1..Len(v) |-> v[k]] /\ Len(v) \in Nat
      OBVIOUS
    <3> QED
      BY <3>1, MadeList, RunsOf
  <2>5. \A b, c \in K(i) : b = c \/ Drives(b) \cap Drives(c) = {}
    <3>1. \A k, l \in DOMAIN s[i] : k # l => Drives(s[i][k]) \cap Drives(s[i][l]) = {}
      BY <1>1, <1>2
    <3> HIDE DEF s, K
    <3> QED
      BY <2>1, <3>1
  <2>6. \A u : u \in ps[i] \ fs[i].left <=> \E b \in K(i) : u \in Drives(b)
    <3>1. \A k \in DOMAIN s[i] : s[i][k] \in K(i)
      BY DEF Range
    <3>2. \A u : u \in ps[i] \ fs[i].left <=> \E k \in DOMAIN s[i] : u \in Drives(s[i][k])
      BY <1>2 DEF RegionFits
    <3> HIDE DEF s, K
    <3> QED
      BY <2>1, <3>1, <3>2
  <2> QED
    BY <2>2, <2>3, <2>4, <2>5, <2>6 DEF Drives
<1>3. IsList(s) /\ DOMAIN s = DOMAIN fs
  BY ChangedPlaces
<1> HIDE DEF s
<1>4. all = FlattenSeq(s)
  BY <1>0
<1>5. /\ IsList(all) /\ \A b \in Range(all) : \E i \in DOMAIN fs : b \in K(i)
      /\ \A i \in DOMAIN fs : K(i) \subseteq Range(all)
  <2>1. \A i \in DOMAIN s : IsList(s[i])
    BY <1>1, <1>3
  <2> DEFINE U == UNION {Range(s[i]) : i \in DOMAIN s}
  <2>2. IsList(all) /\ all \in Seq(U) /\ \A i \in DOMAIN s : Range(s[i]) \subseteq Range(all)
    BY <1>3, <1>4, <2>1, FlatList
  <2>3. \A b \in Range(all) : b \in U
    <3> HIDE DEF U
    <3> QED
      BY <2>2 DEF Range
  <2> QED
    BY <1>3, <2>2, <2>3
<1>6. /\ IsList(fl) /\ DOMAIN fl = DOMAIN all
      /\ \A k \in DOMAIN fl : fl[k].trips = all[k].trips /\ Drives(fl[k]) = Drives(all[k]) /\ all[k] \in Range(all)
  <2>1. fl = [k \in DOMAIN all |-> [id |-> k, trips |-> all[k].trips]]
    <3> DEFINE own == [k \in DOMAIN all |-> all[k].trips]
    <3>1. fl = FleetOf(own) /\ DOMAIN own = DOMAIN all /\ \A k \in DOMAIN own : own[k] = all[k].trips
      BY <1>0
    <3> HIDE DEF own
    <3> QED
      BY <3>1 DEF FleetOf
  <2>2. DOMAIN fl = DOMAIN all /\ fl = [k \in DOMAIN fl |-> fl[k]] /\ \A k \in DOMAIN fl : fl[k].trips = all[k].trips
    BY <2>1
  <2>3. IsList(fl)
    BY <1>5, <2>2, ChangedPlaces
  <2>4. \A k \in DOMAIN fl : Drives(fl[k]) = Drives(all[k])
    BY <2>2 DEF Drives
  <2>5. \A k \in DOMAIN fl : all[k] \in Range(all)
    BY <2>2 DEF Range
  <2> QED
    BY <2>2, <2>3, <2>4, <2>5
<1> HIDE DEF K
<1>7. \A k \in DOMAIN fl : IsList(fl[k].trips) /\ IsInjective(fl[k].trips)
  <2>1. \A b \in Range(all) : IsList(b.trips) /\ IsInjective(b.trips)
    BY <1>2, <1>5 DEF NoTwice
  <2> QED
    BY <1>6, <2>1
<1>8. \A b \in Range(all) : \E k \in DOMAIN fl : all[k] = b
  BY <1>6 DEF Range
<1>9. PICK i \in DOMAIN fs : t \in ps[i]
  BY DEF Covers
<1>10. ASSUME t \notin lost PROVE \E b \in K(i) : \E k \in DOMAIN fl : b = all[k] /\ t \in Drives(b)
  <2>1. t \in ps[i] \ fs[i].left
    BY <1>0, <1>9, <1>10
  <2>2. PICK b \in K(i) : t \in Drives(b)
    BY <1>2, <2>1
  <2> QED
    BY <1>5, <1>8, <2>2
<1>11. Rides(fl, t) >= 1 \/ t \in lost
  <2> SUFFICES ASSUME t \notin lost PROVE Rides(fl, t) >= 1
    OBVIOUS
  <2>1. PICK k \in DOMAIN fl : t \in Drives(fl[k])
    BY <1>6, <1>10
  <2>2. IsList(fl) /\ \A j \in DOMAIN fl : IsList(fl[j].trips)
    BY <1>6, <1>7
  <2>3. Times(fl, t) >= 1
    BY ONLY <2>1, <2>2, SomeTimes
  <2> QED
    BY <2>3, RidesAreTimes
<1>12. ASSUME Separate(ps) PROVE Rides(fl, t) = IF t \in lost THEN 0 ELSE 1
  <2>1. \A j \in DOMAIN fs : t \in ps[j] => j = i
    BY <1>9, <1>12 DEF Separate
  <2>2. \A b \in Range(all) : t \in Drives(b) => b \in K(i)
    BY <1>2, <1>5, <2>1
  <2>3. CASE t \in lost
    <3>1. t \in fs[i].left
      <4>1. PICK j \in DOMAIN fs : t \in fs[j].left
        BY <1>0, <2>3
      <4>2. t \in ps[j]
        BY <4>1 DEF RegionFits
      <4> QED
        BY <2>1, <4>1, <4>2
    <3>2. \A k \in DOMAIN fl : t \notin Drives(fl[k])
      BY <1>2, <1>6, <2>2, <3>1
    <3>3. Times(fl, t) = 0
      BY <1>6, <3>2, NoTimes
    <3> QED
      BY <2>3, <3>3, RidesAreTimes
  <2>4. CASE t \notin lost
    <3>1. PICK k \in DOMAIN fl : all[k] \in K(i) /\ t \in Drives(fl[k])
      BY <1>6, <1>10, <2>4
    <3>2. \A l \in DOMAIN fl : t \in Drives(fl[l]) => all[l] = all[k]
      BY <1>2, <1>6, <2>2, <3>1
    <3>3. \A l, m \in DOMAIN fl : all[l] = all[m] => l = m
      <4> DEFINE f == [j \in DOMAIN s |-> K(j)]
      <4>1. \A j \in DOMAIN s : ListsOnce(s[j], f[j])
        <5> SUFFICES ASSUME NEW j \in DOMAIN s PROVE ListsOnce(s[j], Range(s[j]))
          BY DEF K
        <5>0. j \in DOMAIN fs
          BY <1>3
        <5>1. IsList(s[j])
          BY <1>1, <5>0
        <5>2. \A k1, k2 \in DOMAIN s[j] : k1 # k2 => s[j][k1] # s[j][k2]
          <6>1. \A k1 \in DOMAIN s[j] : s[j][k1] \in K(j)
            BY DEF K, Range
          <6>2. \A k1 \in DOMAIN s[j] : Drives(s[j][k1]) # {}
            BY <1>2, <5>0, <6>1
          <6> QED
            BY <1>1, <5>0, <6>2
        <5> QED
          BY <5>1, <5>2 DEF ListsOnce, IsInjective
      <4>2. \A j, h \in DOMAIN s : j # h => f[j] \cap f[h] = {}
        <5>1. \A j, h \in DOMAIN fs : j # h => K(j) \cap K(h) = {}
          <6> SUFFICES ASSUME NEW j \in DOMAIN fs, NEW h \in DOMAIN fs, j # h, NEW b \in K(j), b \in K(h) PROVE FALSE
            OBVIOUS
          <6>1. Drives(b) # {} /\ Drives(b) \subseteq ps[j] /\ Drives(b) \subseteq ps[h]
            BY <1>2
          <6>2. ps[j] \cap ps[h] = {}
            BY <1>12 DEF Separate
          <6> QED
            BY <6>1, <6>2
        <5> QED
          BY <1>3, <5>1
      <4>3. ListsOnce(FlattenSeq(s), UNION {f[j] : j \in DOMAIN s})
        <5> HIDE DEF f
        <5> QED
          BY <1>3, <4>1, <4>2, FlatOnce
      <4>4. IsInjective(all)
        BY <1>4, <4>3 DEF ListsOnce
      <4> QED
        BY <1>6, <4>4 DEF IsInjective
    <3>4. \A l \in DOMAIN fl \ {k} : t \notin Drives(fl[l])
      BY <3>2, <3>3
    <3>5. IsList(fl) /\ t \in Drives(fl[k]) /\ IsInjective(fl[k].trips)
      BY <1>6, <1>7, <3>1
    <3>6. Times(fl, t) = 1
      BY ONLY <3>4, <3>5, OneTime
    <3> QED
      BY <2>4, <3>6, RidesAreTimes
  <2> QED
    BY <2>3, <2>4
<1> QED
  BY <1>11, <1>12 DEF all, fl, lost

-------------------------------------------------------------------------------
(* The parts a solver cuts its job into: blocks by depot and window.           *)

(* Lists of the blocks B, none empty, with every block in one of them, once.   *)
Shares(ps, B) ==
  /\ IsList(ps) /\ \A i \in DOMAIN ps : ps[i] # <<>> /\ ListsOnce(ps[i], Range(ps[i])) /\ Range(ps[i]) \subseteq B
  /\ \A i, j \in DOMAIN ps : i # j => Range(ps[i]) \cap Range(ps[j]) = {}
  /\ \A b \in B : \E i \in DOMAIN ps : b \in Range(ps[i])

LEMMA OnceNotEmpty ==
  ASSUME NEW A, NEW q, ListsOnce(q, A)
  PROVE  (q # <<>> <=> A # {}) /\ (q # <<>> => 1 \in DOMAIN q /\ q[1] \in A)
<1>1. IsList(q) /\ Range(q) = A
  BY DEF ListsOnce
<1>2. DOMAIN q = 1..Len(q) /\ Len(q) \in Nat
  BY <1>1, ListDomain
<1>3. q # <<>> => 1 \in DOMAIN q
  <2>1. q \in Seq(Range(q))
    BY <1>1 DEF IsList
  <2> QED
    BY <2>1
<1>4. q = <<>> => Range(q) = {}
  BY DEF Range
<1> QED
  BY <1>1, <1>3, <1>4 DEF Range

LEMMA SharesListed ==
  ASSUME NEW B, NEW ps, Shares(ps, B)
  PROVE  /\ ListsOnce(ps, Range(ps))
         /\ \A b \in B : Cardinality({i \in DOMAIN ps : b \in Range(ps[i])}) = 1
<1>1. \A i, j \in DOMAIN ps : i # j => ps[i] # ps[j]
  <2> SUFFICES ASSUME NEW i \in DOMAIN ps, NEW j \in DOMAIN ps, i # j PROVE ps[i] # ps[j]
    OBVIOUS
  <2>1. Range(ps[i]) # {}
    BY OnceNotEmpty DEF Shares
  <2>2. Range(ps[i]) \cap Range(ps[j]) = {}
    BY DEF Shares
  <2> QED
    BY <2>1, <2>2
<1>2. ListsOnce(ps, Range(ps))
  BY <1>1 DEF Shares, ListsOnce, IsInjective
<1>3. \A b \in B : Cardinality({i \in DOMAIN ps : b \in Range(ps[i])}) = 1
  <2> SUFFICES ASSUME NEW b \in B PROVE Cardinality({i \in DOMAIN ps : b \in Range(ps[i])}) = 1
    OBVIOUS
  <2>1. PICK i \in DOMAIN ps : b \in Range(ps[i])
    BY DEF Shares
  <2>2. \A j \in DOMAIN ps : b \in Range(ps[j]) => j = i
    BY <2>1 DEF Shares
  <2>3. {j \in DOMAIN ps : b \in Range(ps[j])} = {i}
    BY <2>1, <2>2
  <2> QED
    BY <2>3, FS_Singleton
<1> QED
  BY <1>2, <1>3

(* Shares of shares.                                                           *)
LEMMA SharesJoined ==
  ASSUME NEW s, IsList(s), NEW f, \A g \in DOMAIN s : Shares(s[g], f[g]),
         \A g, h \in DOMAIN s : g # h => f[g] \cap f[h] = {}
  PROVE  Shares(FlattenSeq(s), UNION {f[g] : g \in DOMAIN s})
<1> DEFINE K == [g \in DOMAIN s |-> Range(s[g])]
           ps == FlattenSeq(s)
           B == UNION {f[g] : g \in DOMAIN s}
<1>1. \A g \in DOMAIN s : ListsOnce(s[g], K[g])
  BY SharesListed
<1>2. \A g \in DOMAIN s : \A u \in K[g] :
         u # <<>> /\ ListsOnce(u, Range(u)) /\ Range(u) # {} /\ Range(u) \subseteq f[g]
  <2> TAKE g \in DOMAIN s
  <2> TAKE u \in K[g]
  <2>1. PICK i \in DOMAIN s[g] : u = s[g][i]
    BY DEF Range
  <2>2. u # <<>> /\ ListsOnce(u, Range(u)) /\ Range(u) \subseteq f[g]
    BY <2>1 DEF Shares
  <2> QED
    BY <2>2, OnceNotEmpty
<1>3. \A g \in DOMAIN s : \A u, w \in K[g] : u = w \/ Range(u) \cap Range(w) = {}
  <2> TAKE g \in DOMAIN s
  <2> TAKE u, w \in K[g]
  <2>1. PICK i \in DOMAIN s[g], j \in DOMAIN s[g] : u = s[g][i] /\ w = s[g][j]
    BY DEF Range
  <2> QED
    BY <2>1 DEF Shares
<1>4. \A g \in DOMAIN s : \A b \in f[g] : \E u \in K[g] : b \in Range(u)
  <2> TAKE g \in DOMAIN s
  <2> TAKE b \in f[g]
  <2>1. PICK i \in DOMAIN s[g] : b \in Range(s[g][i])
    BY DEF Shares
  <2>2. s[g][i] \in K[g]
    BY DEF Range
  <2> QED
    BY <2>1, <2>2
<1> HIDE DEF K, ps
<1>5. \A g, h \in DOMAIN s : g # h => \A u \in K[g], w \in K[h] : Range(u) \cap Range(w) = {}
  BY <1>2
<1>6. \A g, h \in DOMAIN s : g # h => K[g] \cap K[h] = {}
  BY <1>2, <1>5
<1> DEFINE U == UNION {K[g] : g \in DOMAIN s}
<1>7. ListsOnce(ps, U)
  BY <1>1, <1>6, FlatOnce DEF ps
<1>8. \A i \in DOMAIN ps : \E g \in DOMAIN s : ps[i] \in K[g]
  <2>1. \A i \in DOMAIN ps : ps[i] \in U
    <3> HIDE DEF U
    <3> QED
      BY <1>7 DEF ListsOnce, Range
  <2> QED
    BY <2>1
<1>9. \A g \in DOMAIN s : \A u \in K[g] : \E i \in DOMAIN ps : ps[i] = u
  <2>1. \A u \in U : \E i \in DOMAIN ps : ps[i] = u
    <3> HIDE DEF U
    <3> QED
      BY <1>7 DEF ListsOnce, Range
  <2> QED
    BY <2>1
<1>10. \A i \in DOMAIN ps : ps[i] # <<>> /\ ListsOnce(ps[i], Range(ps[i])) /\ Range(ps[i]) \subseteq B
  BY <1>2, <1>8
<1>11. \A i, j \in DOMAIN ps : i # j => Range(ps[i]) \cap Range(ps[j]) = {}
  <2> SUFFICES ASSUME NEW i \in DOMAIN ps, NEW j \in DOMAIN ps, i # j PROVE Range(ps[i]) \cap Range(ps[j]) = {}
    OBVIOUS
  <2>1. ps[i] # ps[j]
    BY <1>7 DEF ListsOnce, IsInjective
  <2>2. PICK g \in DOMAIN s, h \in DOMAIN s : ps[i] \in K[g] /\ ps[j] \in K[h]
    BY <1>8
  <2> QED
    BY <1>3, <1>5, <2>1, <2>2
<1>12. \A b \in B : \E i \in DOMAIN ps : b \in Range(ps[i])
  BY <1>4, <1>9
<1>13. IsList(ps)
  BY <1>7 DEF ListsOnce
<1> HIDE DEF B
<1>14. Shares(ps, B)
  BY <1>10, <1>11, <1>12, <1>13 DEF Shares
<1> QED
  BY <1>14 DEF ps, B

LEMMA PickedOnce ==
  ASSUME NEW A, NEW s, ListsOnce(s, A), NEW I, I \subseteq DOMAIN s
  PROVE  ListsOnce(Picked(s, I), {s[i] : i \in I})
<1>1. s \in Seq(Range(s)) /\ \A i, j \in DOMAIN s : i # j => s[i] # s[j]
  BY DEF ListsOnce, IsList, IsInjective
<1> DEFINE n == Cardinality(I)
           ps == Picked(s, I)
<1>2. PICK pos \in [1..n -> I] : /\ Range(pos) = I /\ IsInjective(pos) /\ n \in Nat
                                 /\ ps = [k \in 1..n |-> s[pos[k]]]
  BY <1>1, PickedLists
<1> HIDE DEF n, ps
<1>3. DOMAIN ps = 1..n /\ \A k \in 1..n : pos[k] \in I /\ ps[k] = s[pos[k]]
  BY <1>2
<1>4. IsList(ps)
  <2>1. ps = [k \in 1..n |-> ps[k]]
    BY <1>2
  <2> QED
    BY <1>2, <2>1, MadeList
<1>5. IsInjective(ps)
  <2>1. \A k, l \in 1..n : k # l => pos[k] # pos[l]
    BY <1>2 DEF IsInjective
  <2> QED
    BY <1>1, <1>3, <2>1 DEF IsInjective
<1>6. Range(ps) = {s[i] : i \in I}
  <2>1. \A i \in I : \E k \in 1..n : pos[k] = i
    BY <1>2 DEF Range
  <2> QED
    BY <1>3, <2>1 DEF Range
<1> QED
  BY <1>4, <1>5, <1>6 DEF ListsOnce, ps

LEMMA GroupsShare ==
  ASSUME NEW P, NEW A, NEW blocks, ListsOnce(blocks, A)
  PROVE  Shares(ByDepot(P, blocks), A)
<1> DEFINE D == DOMAIN blocks
           same(i) == {j \in D : DepotKey(P, blocks[j]) = DepotKey(P, blocks[i])}
           Q == {same(i) : i \in D}
           groups == Sorted(Q, LAMBDA I, J : First(I) < First(J))
           gs == ByDepot(P, blocks)
<1>1. IsList(blocks) /\ Range(blocks) = A /\ \A i, j \in D : i # j => blocks[i] # blocks[j]
  BY DEF ListsOnce, IsInjective
<1>2. IsFiniteSet(D) /\ D \subseteq Nat
  <2>1. IsFiniteSet(D) /\ D = 1..Len(blocks) /\ Len(blocks) \in Nat
    BY <1>1, ListDomain
  <2> QED
    BY <2>1
<1>3. gs = [g \in DOMAIN groups |-> Picked(blocks, groups[g])]
  BY DEF ByDepot
<1>4. \A u \in Q : u # {} /\ u \subseteq D
  OBVIOUS
<1>5. Disjoint(Q)
  BY DEF Disjoint
<1>6. \A i \in D : \E u \in Q : i \in u
  <2> TAKE i \in D
  <2>1. i \in same(i) /\ same(i) \in Q
    OBVIOUS
  <2> HIDE DEF same, Q
  <2> QED
    BY <2>1
<1>7. IsFiniteSet(Q)
  <2> DEFINE f == [i \in D |-> same(i)]
  <2>1. Q = {f[i] : i \in D}
    <3> HIDE DEF same, D
    <3> QED
      OBVIOUS
  <2>2. IsFiniteSet({f[i] : i \in D})
    <3> HIDE DEF f, D
    <3> QED
      BY <1>2, ImagesFinite
  <2> HIDE DEF f, Q
  <2> QED
    BY <2>1, <2>2
<1> HIDE DEF Q
<1>8. ListsOnce(groups, Q)
  <2>1. \A u \in Q : u # {} /\ u \subseteq Nat
    BY <1>2, <1>4
  <2> HIDE DEF D
  <2> QED
    BY <1>5, <1>7, <2>1, PartsOrdered
<1> HIDE DEF groups, gs
<1>9. /\ IsList(groups) /\ \A g \in DOMAIN groups : groups[g] \in Q
      /\ \A g, h \in DOMAIN groups : g # h => groups[g] # groups[h]
      /\ \A u \in Q : \E g \in DOMAIN groups : groups[g] = u
  BY <1>8 DEF ListsOnce, Range, IsInjective
<1>10. IsList(gs) /\ DOMAIN gs = DOMAIN groups /\ \A g \in DOMAIN gs : gs[g] = Picked(blocks, groups[g])
  <2>1. DOMAIN gs = DOMAIN groups /\ gs = [g \in DOMAIN gs |-> gs[g]] /\ \A g \in DOMAIN gs : gs[g] = Picked(blocks, groups[g])
    BY <1>3
  <2> QED
    BY <1>9, <2>1, ChangedPlaces
<1>11. ASSUME NEW g \in DOMAIN gs
       PROVE  /\ gs[g] # <<>> /\ ListsOnce(gs[g], Range(gs[g]))
              /\ Range(gs[g]) = {blocks[i] : i \in groups[g]} /\ Range(gs[g]) \subseteq A
  <2>1. groups[g] # {} /\ groups[g] \subseteq D
    BY <1>4, <1>9, <1>10
  <2>2. ListsOnce(gs[g], {blocks[i] : i \in groups[g]})
    BY <1>10, <2>1, PickedOnce
  <2>3. Range(gs[g]) = {blocks[i] : i \in groups[g]}
    BY <2>2 DEF ListsOnce
  <2>4. Range(gs[g]) # {} /\ Range(gs[g]) \subseteq A
    <3>1. \A i \in D : blocks[i] \in A
      BY <1>1 DEF Range
    <3> QED
      BY <2>1, <2>3, <3>1
  <2>5. ListsOnce(gs[g], Range(gs[g]))
    BY <2>2, <2>3
  <2> QED
    BY <2>3, <2>4, <2>5, OnceNotEmpty
<1>12. \A g, h \in DOMAIN gs : g # h => Range(gs[g]) \cap Range(gs[h]) = {}
  <2> SUFFICES ASSUME NEW g \in DOMAIN gs, NEW h \in DOMAIN gs, g # h PROVE Range(gs[g]) \cap Range(gs[h]) = {}
    OBVIOUS
  <2>1. groups[g] \cap groups[h] = {} /\ groups[g] \subseteq D /\ groups[h] \subseteq D
    BY <1>4, <1>5, <1>9, <1>10 DEF Disjoint
  <2> QED
    BY <1>1, <1>11, <2>1
<1>13. \A b \in A : \E g \in DOMAIN gs : b \in Range(gs[g])
  <2> SUFFICES ASSUME NEW b \in A PROVE \E g \in DOMAIN gs : b \in Range(gs[g])
    OBVIOUS
  <2>1. PICK i \in D : blocks[i] = b
    BY <1>1 DEF Range
  <2>2. PICK g \in DOMAIN groups : i \in groups[g]
    BY <1>6, <1>9
  <2> QED
    BY <1>10, <1>11, <2>1, <2>2
<1> QED
  BY <1>10, <1>11, <1>12, <1>13 DEF Shares, gs

(* Blocks by the time they start.                                              *)
LEMMA StableOnce ==
  ASSUME NEW P, NEW A, NEW s, ListsOnce(s, A), \A b \in A : StartOf(P, b.trips) \in Int
  PROVE  ListsOnce(StableBy(s, LAMBDA b : StartOf(P, b.trips)), A)
<1> DEFINE D == DOMAIN s
           st(i) == StartOf(P, s[i].trips)
           before(i, j) == st(i) < st(j) \/ (st(i) = st(j) /\ i < j)
           R == {x \in D \X D : before(x[1], x[2])}
           m == Cardinality(D)
           o == Sorted(D, LAMBDA i, j : StartOf(P, s[i].trips) < StartOf(P, s[j].trips)
                                        \/ (StartOf(P, s[i].trips) = StartOf(P, s[j].trips) /\ i < j))
           nth(i) == CHOOSE x \in D : Rank(R, D, x) = i - 1
           direct(i) == CHOOSE x \in D : Cardinality({y \in D : before(y, x)}) = i - 1
           ss == StableBy(s, LAMBDA b : StartOf(P, b.trips))
<1>1. IsList(s) /\ Range(s) = A /\ \A i, j \in D : i # j => s[i] # s[j]
  BY DEF ListsOnce, IsInjective
<1>2. IsFiniteSet(D) /\ D \subseteq Nat /\ D = 1..Len(s) /\ Len(s) \in Nat /\ \A i \in D : s[i] \in A /\ st(i) \in Int
  <2>1. IsFiniteSet(D) /\ D = 1..Len(s) /\ Len(s) \in Nat
    BY <1>1, ListDomain
  <2>2. \A i \in D : s[i] \in A
    BY <1>1 DEF Range
  <2> QED
    BY <2>1, <2>2
<1>3. ss = [i \in DOMAIN o |-> s[o[i]]]
  BY DEF StableBy
<1>4. Orders(R, D)
  <2>1. \A p, q \in D : <<p, q>> \in R <=> before(p, q)
    OBVIOUS
  <2>2. \A p, q : before(p, q) <=> st(p) < st(q) \/ (st(p) = st(q) /\ p < q)
    OBVIOUS
  <2>3. \A p \in D : st(p) \in Int /\ p \in Int
    BY <1>2
  <2> HIDE DEF R, before, st, D
  <2>4. \A p \in D : ~before(p, p)
    BY <2>2, <2>3
  <2>5. \A p, q \in D : p # q => before(p, q) \/ before(q, p)
    BY <2>2, <2>3
  <2>6. \A p, q, w \in D : before(p, q) /\ before(q, w) => before(p, w)
    BY <2>2, <2>3
  <2> QED
    BY <2>1, <2>4, <2>5, <2>6 DEF Orders
<1>5. o = [i \in 1..m |-> nth(i)]
  <2>1. \A x \in D : Rank(R, D, x) = Cardinality({y \in D : before(y, x)})
    <3>1. \A x \in D : {y \in D : <<y, x>> \in R} = {y \in D : before(y, x)}
      OBVIOUS
    <3> QED
      BY <3>1 DEF Rank
  <2>2. \A i : direct(i) = nth(i)
    BY <2>1
  <2>3. o = [i \in 1..m |-> direct(i)]
    BY DEF Sorted
  <2> HIDE DEF direct, nth, o, m
  <2> QED
    BY <2>2, <2>3
<1> HIDE DEF o, R, ss
<1>6. o \in Seq(D) /\ Range(o) = D /\ IsInjective(o)
  <2>1. o = [i \in 1..Cardinality(D) |-> CHOOSE x \in D : Rank(R, D, x) = i - 1]
    BY <1>5
  <2>2. IsFiniteSet(D)
    BY <1>2
  <2> HIDE DEF D
  <2> QED
    BY ONLY <1>4, <2>1, <2>2, SortedLists
<1>7. DOMAIN ss = DOMAIN o /\ \A i \in DOMAIN o : o[i] \in D /\ ss[i] = s[o[i]]
  BY <1>3, <1>6
<1>8. IsList(ss)
  <2>1. DOMAIN o = 1..Len(o) /\ Len(o) \in Nat
    BY <1>6
  <2>2. ss = [i \in 1..Len(o) |-> ss[i]]
    BY <1>3, <2>1
  <2> QED
    BY <2>1, <2>2, MadeList
<1>9. IsInjective(ss)
  <2>1. \A i, j \in DOMAIN o : i # j => o[i] # o[j]
    BY <1>6 DEF IsInjective
  <2> QED
    BY <1>1, <1>7, <2>1 DEF IsInjective
<1>10. Range(ss) = A
  <2>1. \A i \in D : \E k \in DOMAIN o : o[k] = i
    BY <1>6 DEF Range
  <2>2. \A b \in A : \E i \in D : s[i] = b
    BY <1>1 DEF Range
  <2> QED
    BY <1>2, <1>7, <2>1, <2>2 DEF Range
<1> QED
  BY <1>8, <1>9, <1>10 DEF ListsOnce, ss

(* Blocks dealt to parts so far, the last part not complete.                   *)
Deals(S) == [out : Seq(Seq(S)), cur : Seq(S), from : Int]
Dealt(acc, X) ==
  /\ ScrapsOf(acc, X) /\ (X # {} => acc.cur # <<>>)
  /\ \A b \in X : b \in Range(acc.cur) \/ \E i \in DOMAIN acc.out : b \in Range(acc.out[i])

LEMMA PartStepDeals ==
  ASSUME NEW P, NEW S, NEW acc \in Deals(S), NEW X, Dealt(acc, X),
         NEW b \in S, b \notin X, StartOf(P, b.trips) \in Int
  PROVE  PartStep(P, acc, b) \in Deals(S) /\ Dealt(PartStep(P, acc, b), X \cup {b})
<1> DEFINE d == [out |-> acc.out, cur |-> acc.cur]
           Y == X \cup {b}
           r == PartStep(P, acc, b)
<1>1. /\ acc.out \in Seq(Seq(S)) /\ acc.cur \in Seq(S) /\ acc.from \in Int
      /\ acc = [out |-> acc.out, cur |-> acc.cur, from |-> acc.from]
  BY DEF Deals
<1>2. d \in Scraps(S) /\ ScrapsOf(d, X) /\ d.out = acc.out /\ d.cur = acc.cur
  BY <1>1 DEF Scraps, Dealt, ScrapsOf
<1> HIDE DEF d
<1>3. CASE BeginsPart(P, acc, b)
  <2> DEFINE c == Closed(d)
             own == <<b>>
  <2>1. c \in Scraps(S) /\ ScrapsOf(c, X) /\ c.cur = <<>>
    BY <1>2, ClosedScraps
  <2>2. c.out = IF acc.cur = <<>> THEN acc.out ELSE Append(acc.out, acc.cur)
    BY <1>2 DEF Closed
  <2> HIDE DEF c
  <2>3. r = [out |-> c.out, cur |-> own, from |-> StartOf(P, b.trips)]
    BY <1>3, <2>2 DEF PartStep
  <2>4. own \in Seq(S) /\ own # <<>> /\ IsInjective(own) /\ Range(own) = {b}
    BY ShortLists DEF IsInjective
  <2> HIDE DEF own
  <2>5. r.out = c.out /\ r.cur = own /\ r \in Deals(S)
    BY <2>1, <2>3, <2>4 DEF Deals, Scraps
  <2> HIDE DEF r
  <2>6. ScrapsOf(r, Y)
    <3>1. \A i \in DOMAIN c.out : Range(c.out[i]) \subseteq X
      BY <2>1 DEF ScrapsOf
    <3>2. \A i \in DOMAIN c.out : Range(c.out[i]) \cap Range(own) = {}
      BY <2>4, <3>1
    <3> QED
      BY <2>1, <2>4, <2>5, <3>2 DEF ScrapsOf
  <2>7. \A x \in X : \E i \in DOMAIN c.out : x \in Range(c.out[i])
    <3> TAKE x \in X
    <3>1. CASE acc.cur = <<>>
      <4>1. x \notin Range(acc.cur)
        BY <3>1, EmptyList
      <4> QED
        BY <2>2, <3>1, <4>1 DEF Dealt
    <3>2. CASE acc.cur # <<>>
      <4> DEFINE n == Len(acc.out) + 1
      <4>1. /\ DOMAIN c.out = DOMAIN acc.out \cup {n} /\ n \in DOMAIN c.out
            /\ c.out[n] = acc.cur /\ \A i \in DOMAIN acc.out : c.out[i] = acc.out[i]
        <5>1. c.out = Append(acc.out, acc.cur)
          BY <2>2, <3>2
        <5> QED
          BY <1>1, <5>1
      <4> HIDE DEF n
      <4> QED
        BY <4>1 DEF Dealt
    <3> QED
      BY <3>1, <3>2
  <2>8. Dealt(r, Y)
    BY <2>4, <2>5, <2>6, <2>7 DEF Dealt
  <2> QED
    BY <2>5, <2>8 DEF r
<1>4. CASE ~BeginsPart(P, acc, b)
  <2> DEFINE cur == Append(acc.cur, b)
  <2>1. r.out = acc.out /\ r.cur = cur /\ r \in Deals(S)
    <3>1. cur \in Seq(S)
      BY <1>1
    <3>2. r = [acc EXCEPT !.cur = cur]
      BY <1>4 DEF PartStep
    <3> QED
      BY <1>1, <3>1, <3>2 DEF Deals
  <2>2. ListsOnce(acc.cur, Range(acc.cur)) /\ b \notin Range(acc.cur)
    BY <1>1, TypedOnce DEF Dealt, ScrapsOf
  <2>3. ListsOnce(cur, Range(acc.cur) \cup {b})
    BY <2>2, AppendedOnce
  <2>4. IsInjective(cur) /\ Range(cur) = Range(acc.cur) \cup {b}
    BY <2>3 DEF ListsOnce
  <2>5. cur # <<>>
    BY <2>4, EmptyList
  <2> HIDE DEF cur, r
  <2>6. ScrapsOf(r, Y)
    <3>1. ScrapsOf(acc, X)
      BY DEF Dealt
    <3>2. \A i \in DOMAIN acc.out : acc.out[i] # <<>> /\ IsInjective(acc.out[i]) /\ Range(acc.out[i]) \subseteq X
      BY <3>1 DEF ScrapsOf
    <3>3. \A i \in DOMAIN acc.out : Range(acc.out[i]) \cap Range(r.cur) = {}
      BY <2>1, <2>4, <3>1, <3>2 DEF ScrapsOf
    <3>4. Range(r.cur) \subseteq Y
      BY <2>1, <2>4, <3>1 DEF ScrapsOf
    <3>5. \A i, j \in DOMAIN acc.out : i # j => Range(acc.out[i]) \cap Range(acc.out[j]) = {}
      BY <3>1 DEF ScrapsOf
    <3> QED
      BY <2>1, <2>4, <3>2, <3>3, <3>4, <3>5 DEF ScrapsOf
  <2>7. Dealt(r, Y)
    BY <2>1, <2>4, <2>5, <2>6 DEF Dealt
  <2> QED
    BY <2>1, <2>7 DEF r
<1> QED
  BY <1>3, <1>4

LEMMA OneShare ==
  ASSUME NEW A, NEW q, ListsOnce(q, A), q # <<>>
  PROVE  Shares(<<q>>, A)
<1> DEFINE w == <<q>>
<1>1. DOMAIN w = {1} /\ w[1] = q
  OBVIOUS
<1>2. IsList(w)
  BY ShortLists
<1> HIDE DEF w
<1>3. Range(q) = A
  BY DEF ListsOnce
<1>4. Shares(w, A)
  BY <1>1, <1>2, <1>3 DEF Shares
<1> QED
  BY <1>4 DEF w

LEMMA WindowsShare ==
  ASSUME NEW P, NEW A, NEW group, ListsOnce(group, A), group # <<>>, \A b \in A : StartOf(P, b.trips) \in Int
  PROVE  Shares(WindowsOf(P, group), A)
<1> DEFINE q == StableBy(group, LAMBDA b : StartOf(P, b.trips))
           D == DOMAIN q
           V == Deals(A)
           none == [out |-> <<>>, cur |-> <<>>, from |-> StartOf(P, q[1].trips)]
           After(v, k) == PartStep(P, v, q[k])
           Once(g) == [T \in SUBSET D |-> IF T = {} THEN none ELSE After(g[Lower(T)], Max(T))]
           step == [x \in D \X V |-> PartStep(P, x[2], q[x[1]])]
           f == CHOOSE h : h = Once(h)
           seen(T) == {q[k] : k \in T}
           Good(T, v) == v \in V /\ Dealt(v, seen(T))
           G == {x \in (SUBSET D) \X V : Good(x[1], x[2])}
<1>1. WindowsOf(P, group) = IF Len(group) <= P.prm.partBlocks THEN <<group>> ELSE Append(f[D].out, f[D].cur)
  BY DEF WindowsOf, FoldLeft, MapThenFoldSet, Lower
<1>2. ListsOnce(q, A)
  BY StableOnce
<1> HIDE DEF q
<1>3. IsFiniteSet(D) /\ D \subseteq Int /\ (\A k \in D : q[k] \in A) /\ \A k, l \in D : k # l => q[k] # q[l]
  <2>1. IsList(q) /\ (\A k \in D : q[k] \in A) /\ \A k, l \in D : k # l => q[k] # q[l]
    BY <1>2 DEF ListsOnce, IsInjective, Range
  <2>2. IsFiniteSet(D) /\ D = 1..Len(q) /\ Len(q) \in Nat
    BY <2>1, ListDomain
  <2> QED
    BY <2>1, <2>2
<1>4. seen(D) = A /\ A # {}
  BY <1>2, OnceNotEmpty DEF Range, ListsOnce
<1>5. none \in V /\ none.out = <<>> /\ none.cur = <<>>
  <2>1. q[1] \in A
    BY <1>2, <1>4, OnceNotEmpty
  <2> QED
    BY <2>1, EmptyList DEF Deals
<1> HIDE DEF D, none
<1>6. Good({}, none)
  <2>1. seen({}) = {}
    OBVIOUS
  <2>2. Dealt(none, {})
    BY <1>5, EmptyList DEF Dealt, ScrapsOf
  <2> QED
    BY <1>5, <2>1, <2>2
<1>7. ASSUME NEW v \in V, NEW k \in D PROVE After(v, k) \in V
  <2>1. q[k] \in A /\ StartOf(P, q[k].trips) \in Int
    BY <1>3
  <2>2. /\ v.out \in Seq(Seq(A)) /\ v.cur \in Seq(A) /\ v = [out |-> v.out, cur |-> v.cur, from |-> v.from]
        /\ Append(v.out, v.cur) \in Seq(Seq(A)) /\ Append(v.cur, q[k]) \in Seq(A) /\ <<q[k]>> \in Seq(A) /\ v.from \in Int
    BY <2>1 DEF Deals
  <2> QED
    BY <2>1, <2>2 DEF PartStep, Deals
<1>8. step \in [D \X V -> V]
  <2>1. \A x \in D \X V : PartStep(P, x[2], q[x[1]]) \in V
    BY <1>7
  <2> QED
    BY <2>1
<1>9. /\ \A T \in SUBSET D : T # {} => Max(T) \in T /\ Lower(T) = T \ {Max(T)} /\ Lower(T) \in SUBSET D
      /\ \E g \in [SUBSET D -> V] : FoldsBy(g, D, none, step)
  <2>1. IsFiniteSet(D) /\ D \subseteq Int
    BY <1>3
  <2>2. none \in V
    BY <1>5
  <2> HIDE DEF step, V
  <2> QED
    BY ONLY <2>1, <2>2, <1>8, FoldsList
<1>10. PICK g \in [SUBSET D -> V] : FoldsBy(g, D, none, step)
  BY <1>9
<1>11. f = Once(f)
  <2> HIDE DEF V
  <2>1. ASSUME NEW T \in SUBSET D, T # {} PROVE step[<<Max(T), g[Lower(T)]>>] = After(g[Lower(T)], Max(T))
    <3>1. Max(T) \in D /\ g[Lower(T)] \in V
      BY <1>9, <1>10, <2>1
    <3> QED
      BY <3>1
  <2> HIDE DEF After
  <2>2. \A T \in SUBSET D : g[T] = IF T = {} THEN none ELSE After(g[Lower(T)], Max(T))
    BY <1>10, <2>1 DEF FoldsBy
  <2>3. g = Once(g)
    BY <1>10, <2>2
  <2> QED
    BY <2>3
<1> HIDE DEF f
<1>12. <<{}, f[{}]>> \in G
  <2>1. f[{}] = none
    <3> HIDE DEF V, After
    <3> QED
      BY <1>11
  <2> HIDE DEF Good, V
  <2> QED
    BY <1>5, <1>6, <2>1
<1>13. ASSUME NEW T \in SUBSET D, T # {}, <<Lower(T), f[Lower(T)]>> \in G PROVE <<T, f[T]>> \in G
  <2> DEFINE B == f[Lower(T)]
             k == Max(T)
             X == seen(Lower(T))
  <2>1. k \in T /\ k \in D /\ Lower(T) = T \ {k}
    BY <1>9, <1>13
  <2>2. Good(Lower(T), B)
    <3> HIDE DEF Good, V
    <3> QED
      BY <1>13
  <2>3. f[T] = PartStep(P, B, q[k])
    <3>1. f[T] = After(f[Lower(T)], Max(T))
      <4> HIDE DEF V, After
      <4> QED
        BY <1>11, <1>13
    <3> QED
      BY <3>1
  <2> HIDE DEF B, k
  <2>4. seen(T) = X \cup {q[k]} /\ q[k] \notin X /\ q[k] \in A
    BY <1>3, <2>1
  <2> HIDE DEF seen
  <2>5. B \in Deals(A) /\ Dealt(B, X) /\ StartOf(P, q[k].trips) \in Int
    BY <2>2, <2>4
  <2> HIDE DEF X
  <2>6. f[T] \in Deals(A) /\ Dealt(f[T], seen(T))
    BY <2>3, <2>4, <2>5, PartStepDeals
  <2>7. Good(T, f[T]) /\ f[T] \in V
    BY <2>6
  <2> HIDE DEF Good, V
  <2> QED
    BY <2>7
<1>14. <<D, f[D]>> \in G
  <2>1. IsFiniteSet(D) /\ D \subseteq Int
    BY <1>3
  <2> HIDE DEF G
  <2> QED
    BY ONLY <2>1, <1>12, <1>13, FoldsKeep
<1> DEFINE a == f[D]
           w == Append(a.out, a.cur)
<1>15. a \in Deals(A) /\ Dealt(a, A)
  <2>1. Good(D, f[D])
    <3> HIDE DEF Good, V
    <3> QED
      BY <1>14
  <2> QED
    BY <1>4, <2>1
<1> HIDE DEF a, f
<1>16. Shares(w, A)
  <2> DEFINE n == Len(a.out) + 1
  <2>1. a.out \in Seq(Seq(A)) /\ a.cur \in Seq(A) /\ a.cur # <<>>
    BY <1>4, <1>15 DEF Deals, Dealt
  <2>2. /\ DOMAIN w = DOMAIN a.out \cup {n} /\ n \in DOMAIN w /\ n \notin DOMAIN a.out
        /\ w[n] = a.cur /\ \A i \in DOMAIN a.out : w[i] = a.out[i]
    BY <2>1
  <2>3. IsList(w) /\ \A i \in DOMAIN w : w[i] \in Seq(A)
    <3>1. w \in Seq(Seq(A))
      BY <2>1
    <3>2. w = [i \in 1..Len(w) |-> w[i]] /\ Len(w) \in Nat /\ \A i \in DOMAIN w : w[i] \in Seq(A)
      BY <3>1
    <3> QED
      BY <3>2, MadeList
  <2> HIDE DEF n, w
  <2>4. \A i \in DOMAIN w : w[i] # <<>> /\ IsInjective(w[i]) /\ Range(w[i]) \subseteq A
    BY <1>15, <2>1, <2>2 DEF Dealt, ScrapsOf
  <2>5. \A i \in DOMAIN w : ListsOnce(w[i], Range(w[i]))
    BY <2>3, <2>4, TypedOnce
  <2>6. \A i, j \in DOMAIN w : i # j => Range(w[i]) \cap Range(w[j]) = {}
    BY <1>15, <2>2 DEF Dealt, ScrapsOf
  <2>7. \A b \in A : \E i \in DOMAIN w : b \in Range(w[i])
    BY <1>15, <2>2 DEF Dealt
  <2> QED
    BY <2>3, <2>4, <2>5, <2>6, <2>7 DEF Shares
<1>17. Shares(<<group>>, A)
  BY OneShare
<1> QED
  BY <1>1, <1>16, <1>17 DEF a

LEMMA CrewPartsShare ==
  ASSUME NEW P, NEW A, NEW blocks, ListsOnce(blocks, A), \A b \in A : StartOf(P, b.trips) \in Int
  PROVE  Shares(CrewParts(P, blocks), A)
<1>1. CASE blocks = <<>>
  <2>1. CrewParts(P, blocks) = <<>> /\ A = {}
    BY <1>1, OnceNotEmpty DEF CrewParts
  <2>2. IsList(<<>>) /\ DOMAIN <<>> = {}
    BY DEF IsList
  <2> QED
    BY <2>1, <2>2 DEF Shares
<1>2. CASE blocks # <<>> /\ Len(blocks) <= P.prm.partBlocks
  BY <1>2, OneShare DEF CrewParts
<1>3. CASE blocks # <<>> /\ ~(Len(blocks) <= P.prm.partBlocks)
  <2> DEFINE gs == ByDepot(P, blocks)
             s == [i \in DOMAIN gs |-> WindowsOf(P, gs[i])]
             f == [i \in DOMAIN gs |-> Range(gs[i])]
  <2>1. CrewParts(P, blocks) = FlattenSeq(s)
    BY <1>3 DEF CrewParts
  <2>2. Shares(gs, A)
    BY GroupsShare
  <2> HIDE DEF gs
  <2>3. IsList(s) /\ DOMAIN s = DOMAIN gs /\ \A i \in DOMAIN gs : s[i] = WindowsOf(P, gs[i])
    BY <2>2, ChangedPlaces DEF Shares
  <2>4. \A i \in DOMAIN s : Shares(s[i], f[i])
    <3> SUFFICES ASSUME NEW i \in DOMAIN gs PROVE Shares(WindowsOf(P, gs[i]), Range(gs[i]))
      BY <2>3
    <3>1. ListsOnce(gs[i], Range(gs[i])) /\ gs[i] # <<>> /\ Range(gs[i]) \subseteq A
      BY <2>2 DEF Shares
    <3> QED
      BY <3>1, WindowsShare
  <2>5. \A i, j \in DOMAIN s : i # j => f[i] \cap f[j] = {}
    BY <2>2, <2>3 DEF Shares
  <2>6. UNION {f[i] : i \in DOMAIN s} = A
    <3>1. \A i \in DOMAIN s : f[i] \subseteq A
      BY <2>2, <2>3 DEF Shares
    <3>2. \A b \in A : \E i \in DOMAIN s : b \in f[i]
      BY <2>2, <2>3 DEF Shares
    <3> HIDE DEF f
    <3> QED
      BY <3>1, <3>2
  <2> HIDE DEF s, f
  <2>7. Shares(FlattenSeq(s), UNION {f[i] : i \in DOMAIN s})
    BY <2>3, <2>4, <2>5, SharesJoined
  <2> QED
    BY <2>1, <2>6, <2>7
<1> QED
  BY <1>1, <1>2, <1>3

-------------------------------------------------------------------------------
(* The duties of the parts, one part after the other.                          *)

LEMMA FleetApart ==
  ASSUME NEW J, IsJob(J)
  PROVE  LET bs == FleetOf(J.blocks) IN
         /\ BlocksApart(bs, TripIds(J)) /\ ListsOnce(bs, Range(bs))
         /\ \A b \in Range(bs) : StartOf(J, b.trips) \in Int
         /\ \A i \in DOMAIN bs : bs[i].id = i
<1> DEFINE S == TripIds(J)
           bs == FleetOf(J.blocks)
           n == Len(J.blocks)
<1>1. J.blocks \in Seq(Seq(S)) /\ DOMAIN J.blocks = 1..n /\ n \in Nat
  BY DEF IsJob
<1>2. \A i \in DOMAIN J.blocks : J.blocks[i] \in Seq(S) /\ J.blocks[i] # <<>> /\ IsInjective(J.blocks[i])
  BY <1>1 DEF IsJob
<1>3. \A i, j \in DOMAIN J.blocks : i # j => Range(J.blocks[i]) \cap Range(J.blocks[j]) = {}
  BY DEF IsJob
<1>4. DOMAIN bs = 1..n /\ bs = [i \in 1..n |-> bs[i]] /\ \A i \in 1..n : bs[i] = [id |-> i, trips |-> J.blocks[i]]
  BY <1>1 DEF FleetOf
<1> HIDE DEF bs, n, S
<1>5. \A i \in 1..n : /\ bs[i].id = i /\ bs[i].trips = J.blocks[i] /\ Drives(bs[i]) = Range(J.blocks[i])
                      /\ bs[i] \in BlockType(S) /\ NoTwice(bs[i])
  BY <1>1, <1>2, <1>4 DEF Drives, BlockType, NoTwice
<1>6. bs \in Seq(BlockType(S)) /\ IsList(bs)
  <2>1. bs \in Seq(BlockType(S))
    <3>1. n \in Nat /\ bs = [i \in 1..n |-> bs[i]] /\ \A i \in 1..n : bs[i] \in BlockType(S)
      BY <1>1, <1>4, <1>5
    <3> QED
      BY ONLY <3>1
  <2>2. IsList(bs)
    BY <1>1, <1>4, MadeList
  <2> QED
    BY <2>1, <2>2
<1>7. BlocksApart(bs, S)
  <2>1. \A i, j \in 1..n : i # j => bs[i].id # bs[j].id /\ Drives(bs[i]) \cap Drives(bs[j]) = {}
    <3>1. \A i, j \in 1..n : i # j => Range(J.blocks[i]) \cap Range(J.blocks[j]) = {}
      BY <1>1, <1>3
    <3>2. \A i \in 1..n : bs[i].id = i /\ Drives(bs[i]) = Range(J.blocks[i])
      BY <1>5
    <3> QED
      BY ONLY <3>1, <3>2
  <2>2. \A i \in 1..n : NoTwice(bs[i])
    BY <1>5
  <2> QED
    BY <1>4, <1>6, <2>1, <2>2 DEF BlocksApart
<1>8. ListsOnce(bs, Range(bs))
  <2>1. \A i, j \in DOMAIN bs : i # j => bs[i] # bs[j]
    BY <1>7 DEF BlocksApart
  <2> QED
    BY <1>6, <2>1 DEF ListsOnce, IsInjective
<1>9. \A b \in Range(bs) : StartOf(J, b.trips) \in Int
  <2> SUFFICES ASSUME NEW i \in 1..n PROVE StartOf(J, bs[i].trips) \in Int
    BY <1>4 DEF Range
  <2>1. J.blocks[i][1] \in S
    BY <1>1, <1>2, RunsOf
  <2>2. J.trips[J.blocks[i][1]].st \in Int
    BY <2>1, JobTimed DEF Timed, S
  <2> QED
    BY <1>5, <2>2 DEF StartOf
<1> QED
  BY <1>4, <1>5, <1>7, <1>8, <1>9 DEF S, bs

(* No task is of a block of B.                                                 *)
TasksAvoid(ds, B) == \A d \in DOMAIN ds : \A k \in DOMAIN ds[d].tasks : ds[d].tasks[k].src \notin B

(* The duties fs of a part's blocks join those of the other blocks.            *)
LEMMA DutiesJoined ==
  ASSUME NEW S, NEW bs, BlocksApart(bs, S), NEW ds, NEW B, DutiesFit(bs, ds, B, S), TasksAvoid(ds, B),
         NEW p, \A j \in DOMAIN p : p[j].id \in B /\ \E i \in DOMAIN bs : p[j] = bs[i],
         NEW fs, NEW bare, DutiesFit(p, fs, bare, S), TasksAvoid(fs, bare),
         NEW C, C \subseteq B,
         \A i \in DOMAIN bs : bs[i].id \in C <=> bs[i].id \in IF bs[i] \in Range(p) THEN bare ELSE B
  PROVE  DutiesFit(bs, ds \o fs, C, S) /\ TasksAvoid(ds \o fs, C)
<1> DEFINE q == ds \o fs
           m == Len(ds)
           n == Len(fs)
<1>1. IsList(ds) /\ IsList(fs)
  BY DEF DutiesFit
<1>2. DOMAIN ds = 1..m /\ m \in Nat /\ DOMAIN fs = 1..n /\ n \in Nat
  BY <1>1, ListDomain
<1>3. IsList(q) /\ DOMAIN q = 1..(m + n) /\ (\A d \in 1..m : q[d] = ds[d]) /\ \A d \in 1..n : q[m + d] = fs[d]
  <2> DEFINE V == Range(ds) \cup Range(fs)
  <2>1. ds \in Seq(V) /\ fs \in Seq(V)
    BY <1>1, ListTyped
  <2> HIDE DEF V
  <2>2. q \in Seq(V) /\ Len(q) = m + n /\ (\A d \in 1..m : q[d] = ds[d]) /\ \A d \in 1..n : q[m + d] = fs[d]
    BY <2>1, JoinedSeqs
  <2>3. DOMAIN q = 1..Len(q)
    BY <2>2
  <2> QED
    BY <1>1, <2>2, <2>3, JoinedLists
<1> HIDE DEF q, m, n
<1>4. \A d \in DOMAIN q : (d \in DOMAIN ds /\ q[d] = ds[d]) \/ (\E e \in DOMAIN fs : d = m + e /\ q[d] = fs[e])
  <2> SUFFICES ASSUME NEW d \in 1..(m + n), d \notin 1..m PROVE \E e \in DOMAIN fs : d = m + e /\ q[d] = fs[e]
    BY <1>2, <1>3
  <2>1. d - m \in 1..n /\ d = m + (d - m)
    BY <1>2
  <2> QED
    BY <1>2, <1>3, <2>1
<1>5. /\ \A d \in DOMAIN ds : d \in DOMAIN q /\ q[d] = ds[d]
      /\ \A e \in DOMAIN fs : m + e \in DOMAIN q /\ q[m + e] = fs[e]
  BY <1>2, <1>3
<1>6. /\ \A i, j \in DOMAIN bs : i # j => bs[i].id # bs[j].id /\ Drives(bs[i]) \cap Drives(bs[j]) = {}
  BY DEF BlocksApart
<1> DEFINE Of(x, i) == bs[i].id = x.src /\ Drives(x) \subseteq Drives(bs[i])
<1>7. ASSUME NEW d \in DOMAIN ds, NEW k \in DOMAIN ds[d].tasks
      PROVE  /\ ds[d].tasks \in Seq(TaskType(S)) /\ ds[d].roster \in Int /\ NoTwice(ds[d].tasks[k])
             /\ \E i \in DOMAIN bs : Of(ds[d].tasks[k], i)
             /\ ds[d].tasks[k].src \notin B /\ ds[d].tasks[k].src \notin C
  BY DEF DutiesFit, IsOf, TasksAvoid
<1>8. ASSUME NEW d \in DOMAIN fs, NEW k \in DOMAIN fs[d].tasks
      PROVE  /\ fs[d].tasks \in Seq(TaskType(S)) /\ fs[d].roster \in Int /\ NoTwice(fs[d].tasks[k])
             /\ \E i \in DOMAIN bs : Of(fs[d].tasks[k], i)
             /\ fs[d].tasks[k].src \in B /\ fs[d].tasks[k].src \notin C
  <2> DEFINE x == fs[d].tasks[k]
  <2>1. fs[d].tasks \in Seq(TaskType(S)) /\ fs[d].roster \in Int /\ NoTwice(x) /\ IsOf(x, p) /\ x.src \notin bare
    BY DEF DutiesFit, TasksAvoid
  <2> HIDE DEF x
  <2>2. PICK j \in DOMAIN p : p[j].id = x.src /\ Drives(x) \subseteq Drives(p[j])
    BY <2>1 DEF IsOf
  <2>3. PICK i \in DOMAIN bs : p[j] = bs[i]
    OBVIOUS
  <2>4. bs[i] \in Range(p)
    BY <2>3 DEF Range
  <2> QED
    BY <2>1, <2>2, <2>3, <2>4 DEF x
<1>9. \A d \in DOMAIN ds, e \in DOMAIN fs : \A k \in DOMAIN ds[d].tasks, l \in DOMAIN fs[e].tasks :
         Drives(ds[d].tasks[k]) \cap Drives(fs[e].tasks[l]) = {}
  <2> TAKE d \in DOMAIN ds, e \in DOMAIN fs
  <2> TAKE k \in DOMAIN ds[d].tasks, l \in DOMAIN fs[e].tasks
  <2>1. PICK i \in DOMAIN bs : Of(ds[d].tasks[k], i)
    BY <1>7
  <2>2. PICK j \in DOMAIN bs : Of(fs[e].tasks[l], j)
    BY <1>8
  <2>3. i # j
    BY <1>7, <1>8, <2>1, <2>2
  <2> QED
    BY <1>6, <2>1, <2>2, <2>3
<1>10. \A d \in DOMAIN q :
         /\ q[d].tasks \in Seq(TaskType(S)) /\ q[d].roster \in Int
         /\ \A k \in DOMAIN q[d].tasks : NoTwice(q[d].tasks[k]) /\ IsOf(q[d].tasks[k], bs) /\ q[d].tasks[k].src \notin C
  <2>1. \A d \in DOMAIN ds : ds[d].tasks \in Seq(TaskType(S)) /\ ds[d].roster \in Int
    BY DEF DutiesFit
  <2>2. \A d \in DOMAIN fs : fs[d].tasks \in Seq(TaskType(S)) /\ fs[d].roster \in Int
    BY DEF DutiesFit
  <2>3. \A d \in DOMAIN ds : \A k \in DOMAIN ds[d].tasks :
          NoTwice(ds[d].tasks[k]) /\ IsOf(ds[d].tasks[k], bs) /\ ds[d].tasks[k].src \notin C
    BY <1>7 DEF IsOf
  <2>4. \A d \in DOMAIN fs : \A k \in DOMAIN fs[d].tasks :
          NoTwice(fs[d].tasks[k]) /\ IsOf(fs[d].tasks[k], bs) /\ fs[d].tasks[k].src \notin C
    BY <1>8 DEF IsOf
  <2> QED
    BY <1>4, <2>1, <2>2, <2>3, <2>4
<1>11. \A d, e \in DOMAIN q : \A k \in DOMAIN q[d].tasks, l \in DOMAIN q[e].tasks :
         (d = e /\ k = l) \/ Drives(q[d].tasks[k]) \cap Drives(q[e].tasks[l]) = {}
  <2> TAKE d, e \in DOMAIN q
  <2> TAKE k \in DOMAIN q[d].tasks, l \in DOMAIN q[e].tasks
  <2>1. CASE d \in DOMAIN ds /\ e \in DOMAIN ds
    <3>1. \A u, w \in DOMAIN ds : \A i \in DOMAIN ds[u].tasks, j \in DOMAIN ds[w].tasks :
            (u = w /\ i = j) \/ Drives(ds[u].tasks[i]) \cap Drives(ds[w].tasks[j]) = {}
      BY DEF DutiesFit
    <3>2. q[d] = ds[d] /\ q[e] = ds[e]
      BY <1>5, <2>1
    <3> QED
      BY <2>1, <3>1, <3>2
  <2>2. CASE d \in DOMAIN ds /\ e \notin DOMAIN ds
    <3>1. PICK f \in DOMAIN fs : q[e] = fs[f]
      BY <1>4, <2>2
    <3> QED
      BY <1>5, <1>9, <2>2, <3>1
  <2>3. CASE d \notin DOMAIN ds /\ e \in DOMAIN ds
    <3>1. PICK f \in DOMAIN fs : q[d] = fs[f]
      BY <1>4, <2>3
    <3> QED
      BY <1>5, <1>9, <2>3, <3>1
  <2>4. CASE d \notin DOMAIN ds /\ e \notin DOMAIN ds
    <3>1. PICK f \in DOMAIN fs : d = m + f /\ q[d] = fs[f]
      BY <1>4, <2>4
    <3>2. PICK g \in DOMAIN fs : e = m + g /\ q[e] = fs[g]
      BY <1>4, <2>4
    <3>3. (f = g /\ k = l) \/ Drives(fs[f].tasks[k]) \cap Drives(fs[g].tasks[l]) = {}
      BY <3>1, <3>2 DEF DutiesFit
    <3> QED
      BY <3>1, <3>2, <3>3
  <2> QED
    BY <2>1, <2>2, <2>3, <2>4
<1>12. \A i \in DOMAIN bs : bs[i].id \in C \/
         \A t \in Drives(bs[i]) : \E d \in DOMAIN q : \E k \in DOMAIN q[d].tasks : t \in Drives(q[d].tasks[k])
  <2> SUFFICES ASSUME NEW i \in DOMAIN bs, bs[i].id \notin C, NEW t \in Drives(bs[i])
               PROVE  \E d \in DOMAIN q : \E k \in DOMAIN q[d].tasks : t \in Drives(q[d].tasks[k])
    OBVIOUS
  <2>1. CASE bs[i] \in Range(p)
    <3>1. PICK j \in DOMAIN p : p[j] = bs[i]
      BY <2>1 DEF Range
    <3>2. p[j].id \notin bare
      BY <2>1, <3>1
    <3>3. \E d \in DOMAIN fs : \E k \in DOMAIN fs[d].tasks : t \in Drives(fs[d].tasks[k])
      BY <3>1, <3>2 DEF DutiesFit
    <3> QED
      BY <1>5, <3>3
  <2>2. CASE bs[i] \notin Range(p)
    <3>1. bs[i].id \notin B
      BY <2>2
    <3>2. \E d \in DOMAIN ds : \E k \in DOMAIN ds[d].tasks : t \in Drives(ds[d].tasks[k])
      BY <3>1 DEF DutiesFit
    <3> QED
      BY <1>5, <3>2
  <2> QED
    BY <2>1, <2>2
<1>13. DutiesFit(bs, q, C, S)
  BY <1>3, <1>10, <1>11, <1>12 DEF DutiesFit
<1>14. TasksAvoid(q, C)
  BY <1>10 DEF TasksAvoid
<1> QED
  BY <1>13, <1>14 DEF q

(* New numbers leave the tasks as they are.                                    *)
LEMMA RenamedFit ==
  ASSUME NEW S, NEW bs, NEW ds, NEW bare, DutiesFit(bs, ds, bare, S), TasksAvoid(ds, bare),
         \A d \in DOMAIN ds : DOMAIN ds[d] = {"id", "tasks", "roster", "drive"}, NEW before
  PROVE  DutiesFit(bs, Renamed(before, ds), bare, S) /\ TasksAvoid(Renamed(before, ds), bare)
<1> DEFINE fs == Renamed(before, ds)
<1>1. fs = [i \in DOMAIN ds |-> [ds[i] EXCEPT !.id = Len(before) + i]]
  BY DEF Renamed
<1>2. \A i \in DOMAIN ds : fs[i].tasks = ds[i].tasks /\ fs[i].roster = ds[i].roster
  <2> TAKE i \in DOMAIN ds
  <2>1. fs[i] = [ds[i] EXCEPT !.id = Len(before) + i] /\ "tasks" \in DOMAIN ds[i] /\ "roster" \in DOMAIN ds[i]
    BY <1>1
  <2> QED
    BY <2>1
<1>3. DOMAIN fs = DOMAIN ds /\ fs = [i \in DOMAIN ds |-> fs[i]]
  BY <1>1
<1> HIDE DEF fs
<1>4. IsList(fs)
  BY <1>3, ChangedPlaces DEF DutiesFit
<1>5. DutiesFit(bs, fs, bare, S)
  <2>1. \A d \in DOMAIN ds :
          /\ fs[d].tasks \in Seq(TaskType(S)) /\ fs[d].roster \in Int
          /\ \A k \in DOMAIN fs[d].tasks : NoTwice(fs[d].tasks[k]) /\ IsOf(fs[d].tasks[k], bs)
    BY <1>2 DEF DutiesFit
  <2>2. \A d, e \in DOMAIN ds : \A k \in DOMAIN ds[d].tasks, l \in DOMAIN ds[e].tasks :
          (d = e /\ k = l) \/ Drives(ds[d].tasks[k]) \cap Drives(ds[e].tasks[l]) = {}
    BY DEF DutiesFit
  <2>3. \A d, e \in DOMAIN ds : \A k \in DOMAIN fs[d].tasks, l \in DOMAIN fs[e].tasks :
          (d = e /\ k = l) \/ Drives(fs[d].tasks[k]) \cap Drives(fs[e].tasks[l]) = {}
    BY <1>2, <2>2
  <2>4. \A i \in DOMAIN bs : bs[i].id \in bare \/
          \A t \in Drives(bs[i]) : \E d \in DOMAIN ds : \E k \in DOMAIN ds[d].tasks : t \in Drives(ds[d].tasks[k])
    BY DEF DutiesFit
  <2>5. \A i \in DOMAIN bs : bs[i].id \in bare \/
          \A t \in Drives(bs[i]) : \E d \in DOMAIN ds : \E k \in DOMAIN fs[d].tasks : t \in Drives(fs[d].tasks[k])
    BY <1>2, <2>4
  <2> QED
    BY <1>3, <1>4, <2>1, <2>3, <2>5 DEF DutiesFit
<1>6. TasksAvoid(fs, bare)
  BY <1>2, <1>3 DEF TasksAvoid
<1> QED
  BY <1>5, <1>6 DEF fs

(* The tasks of a bare block are nobody's, those of another are driven once.   *)
LEMMA DutiesDriveParts ==
  ASSUME NEW S, NEW bs, BlocksApart(bs, S), NEW ds, NEW bare, DutiesFit(bs, ds, bare, S), TasksAvoid(ds, bare),
         NEW i \in DOMAIN bs, NEW t \in Drives(bs[i])
  PROVE  DutyTimes(ds, t) = IF bs[i].id \in bare THEN 0 ELSE 1
<1>1. CASE bs[i].id \notin bare
  BY <1>1, FittingDutiesDriveOnce
<1>2. CASE bs[i].id \in bare
  <2>1. ASSUME NEW d \in DOMAIN ds, NEW k \in DOMAIN ds[d].tasks PROVE t \notin Drives(ds[d].tasks[k])
    <3>1. PICK j \in DOMAIN bs : bs[j].id = ds[d].tasks[k].src /\ Drives(ds[d].tasks[k]) \subseteq Drives(bs[j])
      BY DEF DutiesFit, IsOf
    <3>2. i # j
      BY <1>2, <3>1 DEF TasksAvoid
    <3> QED
      BY <3>1, <3>2 DEF BlocksApart
  <2>2. IsList(ds) /\ \A e \in DOMAIN ds : IsList(ds[e].tasks)
    <3>1. \A e \in DOMAIN ds : ds[e].tasks \in Seq(TaskType(S))
      BY DEF DutiesFit
    <3>2. \A s \in Seq(TaskType(S)) : IsList(s)
      <4> SUFFICES ASSUME NEW s \in Seq(TaskType(S)) PROVE IsList(s)
        OBVIOUS
      <4>1. s = [j \in 1..Len(s) |-> s[j]] /\ Len(s) \in Nat
        OBVIOUS
      <4> QED
        BY <4>1, MadeList
    <3> QED
      BY <3>1, <3>2 DEF DutiesFit
  <2> DEFINE f == [e \in DOMAIN ds |-> Times(ds[e].tasks, t)]
  <2>3. \A e \in DOMAIN ds : f[e] = 0
    BY <2>1, <2>2, NoTimes
  <2>4. IsFiniteSet(DOMAIN ds)
    BY <2>2, ListDomain
  <2> HIDE DEF f
  <2>5. Sum(f, DOMAIN ds) = 0
    BY <2>3, <2>4, SumNothing
  <2> QED
    BY <1>2, <2>5, DutyTimesAreASum DEF f
<1> QED
  BY <1>1, <1>2

LEMMA DutyRidesAreTimes == \A t : DutyRides(t) = DutyTimes(crew.duties, t)
  BY DEF DutyRides, DutyTimes, Rides, Times

(* The numbers of the blocks in a part, and in the parts after the first n.    *)
Ids(p) == {b.id : b \in Range(p)}
Waiting(ps, n) == UNION {Ids(ps[i]) : i \in (n + 1)..Len(ps)}

LEMMA NextPart ==
  ASSUME NEW S, NEW bs, BlocksApart(bs, S), NEW ps, Shares(ps, Range(bs)), NEW n \in Nat, n < Len(ps)
  PROVE  LET p == ps[n + 1] IN
         /\ BlocksApart(p, S) /\ p[1] \in Range(p) /\ \A j \in DOMAIN p : \E i \in DOMAIN bs : p[j] = bs[i]
         /\ \A i \in DOMAIN bs : bs[i].id \in Ids(p) <=> bs[i] \in Range(p)
         /\ Waiting(ps, n) = Ids(p) \cup Waiting(ps, n + 1) /\ Ids(p) \cap Waiting(ps, n + 1) = {}
<1> DEFINE p == ps[n + 1]
           m == Len(ps)
<1>1. DOMAIN ps = 1..m /\ m \in Nat /\ n + 1 \in 1..m
  BY ListDomain DEF Shares
<1> HIDE DEF m
<1>2. \A i \in 1..m : /\ ps[i] # <<>> /\ ListsOnce(ps[i], Range(ps[i])) /\ Range(ps[i]) \subseteq Range(bs)
                      /\ \A j \in 1..m : i # j => Range(ps[i]) \cap Range(ps[j]) = {}
  BY <1>1 DEF Shares
<1>3. /\ bs \in Seq(BlockType(S)) /\ \A i \in DOMAIN bs : bs[i] \in BlockType(S) /\ NoTwice(bs[i])
      /\ \A i, j \in DOMAIN bs : i # j => bs[i].id # bs[j].id /\ Drives(bs[i]) \cap Drives(bs[j]) = {}
  BY DEF BlocksApart
<1>4. \A b \in Range(bs) : \E i \in DOMAIN bs : b = bs[i]
  BY DEF Range
<1>5. \A b, c \in Range(bs) : b = c \/ (b.id # c.id /\ Drives(b) \cap Drives(c) = {})
  BY <1>3, <1>4
<1>6. p # <<>> /\ ListsOnce(p, Range(p)) /\ Range(p) \subseteq Range(bs)
  BY <1>1, <1>2
<1>7. BlocksApart(p, S) /\ p[1] \in Range(p)
  <2> HIDE DEF p
  <2>1. IsList(p) /\ (\A j \in DOMAIN p : p[j] \in Range(p)) /\ \A i, j \in DOMAIN p : i # j => p[i] # p[j]
    BY <1>6 DEF ListsOnce, IsInjective, Range
  <2>2. \A b \in Range(p) : b \in BlockType(S) /\ NoTwice(b)
    BY <1>3, <1>4, <1>6
  <2>3. p \in Seq(BlockType(S))
    BY <2>1, <2>2, ListTyped
  <2>4. \A i, j \in DOMAIN p : i # j => p[i].id # p[j].id /\ Drives(p[i]) \cap Drives(p[j]) = {}
    BY <1>5, <1>6, <2>1
  <2>5. p[1] \in Range(p)
    BY <1>6, OnceNotEmpty
  <2> QED
    BY <2>1, <2>2, <2>3, <2>4, <2>5 DEF BlocksApart
<1>8. \A j \in DOMAIN p : \E i \in DOMAIN bs : p[j] = bs[i]
  BY <1>4, <1>6 DEF Range
<1>9. \A i \in DOMAIN bs : bs[i].id \in Ids(p) <=> bs[i] \in Range(p)
  <2>1. \A i \in DOMAIN bs : bs[i] \in Range(bs)
    BY DEF Range
  <2> QED
    BY <1>5, <1>6, <2>1 DEF Ids
<1>10. Waiting(ps, n) = Ids(p) \cup Waiting(ps, n + 1)
  <2>1. \A i : i \in (n + 1)..m <=> i = n + 1 \/ i \in (n + 1 + 1)..m
    BY <1>1
  <2>2. \A x : x \in Waiting(ps, n) <=> \E i \in (n + 1)..m : x \in Ids(ps[i])
    BY DEF Waiting, m
  <2>3. \A x : x \in Waiting(ps, n + 1) <=> \E i \in (n + 1 + 1)..m : x \in Ids(ps[i])
    BY DEF Waiting, m
  <2> QED
    BY <2>1, <2>2, <2>3
<1>11. Ids(p) \cap Waiting(ps, n + 1) = {}
  <2>1. ASSUME NEW i \in (n + 1 + 1)..m, NEW b \in Range(p), NEW c \in Range(ps[i]) PROVE b.id # c.id
    <3>1. i \in 1..m /\ i # n + 1
      BY <1>1
    <3>2. b \in Range(bs) /\ c \in Range(bs) /\ b # c
      BY <1>1, <1>2, <1>6, <3>1
    <3> QED
      BY <1>5, <3>2
  <2> QED
    BY <2>1 DEF Waiting, Ids, m
<1> QED
  BY <1>7, <1>8, <1>9, <1>10, <1>11

-------------------------------------------------------------------------------
(* The solver: what it keeps while it solves its parts.                        *)

JobKept == IF stage = "rest" THEN job.kind = "none" ELSE job \in Jobs
RegionsKept ==
  job.kind = "regional" =>
    /\ stage \in {"start", "regions", "done"}
    /\ stage = "regions" =>
         /\ parts = Regions(job) /\ IsList(found) /\ DOMAIN found = DOMAIN parts
         /\ \A i \in DOMAIN found : found[i] = Open \/ RegionFits(found[i], parts[i])
    /\ stage = "done" =>
         \A t \in TripIds(job) :
            /\ Rides(fleet, t) >= 1 \/ t \in left
            /\ job.trips[t].depot # 0 => Rides(fleet, t) = IF t \in left THEN 0 ELSE 1
(* The blocks without a duty so far: reported, or in a part still to be solved. *)
Bare == crew.bare \cup Waiting(parts, Len(found))
CrewKept ==
  job.kind = "crew" =>
    /\ stage \in {"start", "crew", "done"} /\ fleet = FleetOf(job.blocks)
    /\ stage = "start" => parts = <<>> /\ found = <<>> /\ crew = NoCrewYet
    /\ stage # "start" =>
         /\ Shares(parts, Range(fleet)) /\ IsList(found) /\ Len(found) <= Len(parts)
         /\ crew = [duties |-> crew.duties, bare |-> crew.bare]
         /\ crew.bare \cap Waiting(parts, Len(found)) = {}
         /\ DutiesFit(fleet, crew.duties, Bare, TripIds(job)) /\ TasksAvoid(crew.duties, Bare)
    /\ stage = "done" => Len(found) = Len(parts)
SolverInv == JobKept /\ RegionsKept /\ CrewKept

LEMMA SolverStarts == PartsInit => SolverInv
<1> SUFFICES ASSUME PartsInit PROVE SolverInv
  OBVIOUS
<1>1. CASE SolverInit
  BY <1>1 DEF SolverInit, SolverInv, JobKept, RegionsKept, CrewKept
<1>2. CASE job = AtRest /\ stage = "rest"
  <2>1. job.kind = "none"
    BY <1>2 DEF AtRest
  <2> QED
    BY <1>2, <2>1 DEF SolverInv, JobKept, RegionsKept, CrewKept
<1> QED
  BY <1>1, <1>2 DEF PartsInit, ScaleAtRest, SolverAtRest

LEMMA SolverJob ==
  ASSUME SolverInv, stage # "rest"
  PROVE  job \in Jobs /\ IsJob(job)
BY JobsAssumption DEF SolverInv, JobKept

LEMMA RegionsKeep ==
  ASSUME SolverInv, SplitRegions \/ SolveRegion \/ RegionFails \/ PoolBreaks
  PROVE  SolverInv'
<1>1. /\ stage \in {"start", "regions"} /\ stage' = "regions" /\ job' = job /\ IsJob(job) /\ job \in Jobs
  BY SolverJob DEF SplitRegions, SolveRegion, RegionFails, PoolBreaks, Answered
<1>2. JobKept'
  BY <1>1 DEF JobKept
<1>3. CrewKept'
  <2>1. job.kind # "crew"
    BY <1>1 DEF SolverInv, CrewKept, SplitRegions, SolveRegion, RegionFails, PoolBreaks
  <2> QED
    BY <1>1, <2>1 DEF CrewKept
<1>4. Covers(Regions(job), TripIds(job))
  BY <1>1, RegionsCover
<1>5. ASSUME job.kind = "regional"
      PROVE  /\ parts' = Regions(job) /\ IsList(found') /\ DOMAIN found' = DOMAIN parts'
             /\ \A i \in DOMAIN found' : found'[i] = Open \/ RegionFits(found'[i], parts'[i])
  <2>1. CASE SplitRegions
    <3>1. parts' = Regions(job) /\ found' = [i \in DOMAIN Regions(job) |-> Open]
      BY <2>1 DEF SplitRegions
    <3>2. /\ DOMAIN found' = DOMAIN Regions(job) /\ found' = [i \in DOMAIN Regions(job) |-> found'[i]]
          /\ \A i \in DOMAIN found' : found'[i] = Open
      BY <3>1
    <3>3. IsList(found')
      BY <1>4, <3>2, ChangedPlaces DEF Covers
    <3> QED
      BY <3>1, <3>2, <3>3
  <2>2. ASSUME stage = "regions"
        PROVE  /\ parts = Regions(job) /\ IsList(found) /\ DOMAIN found = DOMAIN parts
               /\ \A i \in DOMAIN found : found[i] = Open \/ RegionFits(found[i], parts[i])
    BY <1>5, <2>2 DEF SolverInv, RegionsKept
  <2>3. ASSUME stage = "regions", NEW i \in DOMAIN found, NEW bs, NEW rest, Answered(i, bs, rest),
               RegionFits([blocks |-> bs, left |-> rest], parts[i])
        PROVE  /\ parts' = Regions(job) /\ IsList(found') /\ DOMAIN found' = DOMAIN parts'
               /\ \A j \in DOMAIN found' : found'[j] = Open \/ RegionFits(found'[j], parts'[j])
    <3> DEFINE x == [blocks |-> bs, left |-> rest]
    <3>1. found' = [found EXCEPT ![i] = x] /\ parts' = parts
      BY <2>3 DEF Answered
    <3> HIDE DEF x
    <3>2. /\ DOMAIN found' = DOMAIN found /\ found' = [j \in DOMAIN found |-> found'[j]]
          /\ \A j \in DOMAIN found : found'[j] = IF j = i THEN x ELSE found[j]
      BY <3>1
    <3>3. IsList(found')
      BY <2>2, <2>3, <3>2, ChangedPlaces
    <3>4. RegionFits(x, parts[i])
      BY <2>3 DEF x
    <3>5. /\ parts = Regions(job) /\ DOMAIN found = DOMAIN parts
          /\ \A j \in DOMAIN found : found[j] = Open \/ RegionFits(found[j], parts[j])
      BY <2>2, <2>3
    <3> QED
      BY <3>1, <3>2, <3>3, <3>4, <3>5
  <2>4. ASSUME stage = "regions", NEW i \in DOMAIN found
        PROVE  parts[i] # {} /\ parts[i] \in SUBSET TripIds(job) /\ First(parts[i]) \in parts[i]
    <3>1. parts[i] # {} /\ parts[i] \in SUBSET TripIds(job)
      BY <1>4, <2>2, <2>4 DEF Covers
    <3>2. IsFiniteSet(parts[i]) /\ parts[i] \subseteq Int
      BY <1>1, <3>1, JobTimed DEF Timed
    <3> QED
      BY <3>1, <3>2, LeastNumber
  <2>5. CASE SolveRegion
    <3>0. PICK i \in DOMAIN found :
            stage = "regions" /\ \E rest \in {{}, {First(parts[i])}} :
              \E b \in VehicleAnswers(Sent(job), parts[i] \ rest) : Answered(i, b, rest)
      BY <2>5 DEF SolveRegion
    <3>1. stage = "regions"
      BY <3>0
    <3>2. PICK rest \in {{}, {First(parts[i])}} :
            \E b \in VehicleAnswers(Sent(job), parts[i] \ rest) : Answered(i, b, rest)
      BY <3>0
    <3>5. PICK b \in VehicleAnswers(Sent(job), parts[i] \ rest) : Answered(i, b, rest)
      BY <3>2
    <3>3. rest \in SUBSET parts[i] /\ parts[i] \in SUBSET TripIds(job)
      BY <2>4, <3>1, <3>2
    <3>4. RegionFits([blocks |-> b, left |-> rest], parts[i])
      BY <1>1, <3>3, RegionAnswered
    <3> QED
      BY <2>3, <3>1, <3>4, <3>5
  <2>6. CASE RegionFails
    <3>1. PICK i \in DOMAIN found : stage = "regions" /\ Answered(i, OwnVehicles(parts[i]), {})
      BY <2>6 DEF RegionFails
    <3>2. parts[i] \in SUBSET TripIds(job)
      BY <2>4, <3>1
    <3>3. RegionFits([blocks |-> OwnVehicles(parts[i]), left |-> {}], parts[i])
      BY <1>1, <3>2, OwnVehiclesFit
    <3> QED
      BY <2>3, <3>1, <3>3
  <2>7. CASE PoolBreaks
    <3>1. stage = "regions" /\ parts' = parts /\ found' = [i \in DOMAIN found |-> Open]
      BY <2>7 DEF PoolBreaks
    <3>2. DOMAIN found' = DOMAIN found /\ found' = [i \in DOMAIN found |-> found'[i]] /\ \A i \in DOMAIN found' : found'[i] = Open
      BY <3>1
    <3>3. IsList(found')
      BY <2>2, <3>1, <3>2, ChangedPlaces
    <3> QED
      BY <2>2, <3>1, <3>2, <3>3
  <2> QED
    BY <2>1, <2>5, <2>6, <2>7
<1>6. RegionsKept'
  <2>1. job'.kind = job.kind /\ Regions(job)' = Regions(job)
    BY <1>1
  <2> QED
    BY <1>1, <1>5, <2>1 DEF RegionsKept
<1> QED
  BY <1>2, <1>3, <1>6 DEF SolverInv

LEMMA RegionsEnd ==
  ASSUME SolverInv, MergeRegions
  PROVE  SolverInv'
<1>1. /\ stage = "regions" /\ stage' = "done" /\ job' = job /\ IsJob(job) /\ job \in Jobs
  BY SolverJob DEF MergeRegions
<1>2. JobKept'
  BY <1>1 DEF JobKept
<1>3. CrewKept'
  BY <1>1 DEF SolverInv, CrewKept
<1>4. ASSUME job.kind = "regional", NEW t \in TripIds(job)
      PROVE  /\ Rides(fleet', t) >= 1 \/ t \in left'
             /\ job.trips[t].depot # 0 => Rides(fleet', t) = IF t \in left' THEN 0 ELSE 1
  <2> DEFINE ps == Regions(job)
  <2>1. IsList(found) /\ DOMAIN found = DOMAIN ps /\ \A i \in DOMAIN found : RegionFits(found[i], ps[i])
    BY <1>1, <1>4 DEF SolverInv, RegionsKept, MergeRegions
  <2>2. Covers(ps, TripIds(job)) /\ (job.trips[t].depot # 0 => Separate(ps))
    BY <1>1, <1>4, RegionsCover
  <2>3. fleet' = AllFleet(found) /\ left' = AllLeft(found)
    BY DEF MergeRegions, AllFleet, AllBlocks, AllLeft
  <2> HIDE DEF ps
  <2>4. t \in TripIds(job) /\ Covers(ps, TripIds(job))
    BY <1>4, <2>2
  <2>5. /\ Rides(AllFleet(found), t) >= 1 \/ t \in AllLeft(found)
        /\ Separate(ps) => Rides(AllFleet(found), t) = IF t \in AllLeft(found) THEN 0 ELSE 1
    BY ONLY <2>1, <2>4, RegionsMerged
  <2> QED
    BY <2>2, <2>3, <2>5
<1>5. RegionsKept'
  <2>1. TripIds(job)' = TripIds(job) /\ \A t : Rides(fleet, t)' = Rides(fleet', t)
    BY <1>1
  <2> QED
    BY <1>1, <1>4, <2>1 DEF RegionsKept
<1> QED
  BY <1>2, <1>3, <1>5 DEF SolverInv

LEMMA CrewSplits ==
  ASSUME SolverInv, SplitCrew
  PROVE  SolverInv'
<1>1. /\ stage = "start" /\ stage' = "crew" /\ job' = job /\ fleet' = fleet /\ found' = found /\ crew' = crew
      /\ IsJob(job) /\ job \in Jobs /\ job.kind = "crew" /\ parts' = CrewParts(job, fleet)
  BY SolverJob DEF SplitCrew
<1>2. fleet = FleetOf(job.blocks) /\ found = <<>> /\ crew = NoCrewYet
  BY <1>1 DEF SolverInv, CrewKept
<1> DEFINE S == TripIds(job)
           ps == CrewParts(job, fleet)
<1>3. /\ BlocksApart(fleet, S) /\ ListsOnce(fleet, Range(fleet))
      /\ \A b \in Range(fleet) : StartOf(job, b.trips) \in Int
  BY <1>1, <1>2, FleetApart
<1>4. Shares(ps, Range(fleet))
  BY <1>3, CrewPartsShare
<1> HIDE DEF ps, S
<1>5. crew.duties = <<>> /\ crew.bare = {} /\ crew = [duties |-> crew.duties, bare |-> crew.bare]
  BY <1>2 DEF NoCrewYet
<1>6. Len(found) = 0 /\ IsList(found) /\ Len(found) <= Len(ps)
  <2>1. Len(<<>>) = 0 /\ IsList(<<>>)
    BY EmptyList DEF IsList
  <2>2. Len(ps) \in Nat
    BY <1>4, ListDomain DEF Shares
  <2> QED
    BY <1>2, <2>1, <2>2
<1> DEFINE W == Waiting(ps, 0)
<1>7. \A i \in DOMAIN fleet : fleet[i].id \in W
  <2> SUFFICES ASSUME NEW i \in DOMAIN fleet PROVE fleet[i].id \in W
    OBVIOUS
  <2>1. PICK j \in DOMAIN ps : fleet[i] \in Range(ps[j])
    BY <1>4 DEF Shares, Range
  <2>2. j \in (0 + 1)..Len(ps)
    BY <1>4, <2>1, ListDomain DEF Shares
  <2> QED
    BY <2>1, <2>2 DEF Waiting, Ids
<1> HIDE DEF W
<1>8. DutiesFit(fleet, <<>>, W, S) /\ TasksAvoid(<<>>, W)
  <2>1. IsList(<<>>)
    BY EmptyList DEF IsList
  <2> QED
    BY <1>7, <2>1, EmptyList DEF DutiesFit, TasksAvoid
<1>9. Bare' = W /\ Waiting(parts, Len(found))' = W
  BY <1>1, <1>5, <1>6 DEF Bare, W, ps
<1>10. CrewKept'
  <2>1. Shares(parts', Range(fleet'))
    BY <1>1, <1>4 DEF ps
  <2>2. IsList(found') /\ Len(found') <= Len(parts')
    BY <1>1, <1>6 DEF ps
  <2>3. crew' = [duties |-> crew'.duties, bare |-> crew'.bare] /\ crew'.bare \cap Waiting(parts, Len(found))' = {}
    BY <1>1, <1>5
  <2>4. DutiesFit(fleet', crew'.duties, Bare', TripIds(job')) /\ TasksAvoid(crew'.duties, Bare')
    BY <1>1, <1>5, <1>8, <1>9 DEF S
  <2> QED
    BY <1>1, <1>2, <2>1, <2>2, <2>3, <2>4 DEF CrewKept
<1>11. JobKept' /\ RegionsKept'
  BY <1>1 DEF JobKept, RegionsKept
<1> QED
  BY <1>10, <1>11 DEF SolverInv

(* A part is solved, or fails.                                                 *)
LEMMA CrewKeeps ==
  ASSUME SolverInv, SolveCrewPart \/ CrewPartFails
  PROVE  SolverInv'
<1> DEFINE S == TripIds(job)
           n == Len(found)
           p == parts[n + 1]
           B == crew.bare \cup Waiting(parts, n)
           W == Waiting(parts, n + 1)
<1>1. /\ stage = "crew" /\ stage' = "crew" /\ job' = job /\ fleet' = fleet /\ parts' = parts /\ left' = left
      /\ IsJob(job) /\ job \in Jobs /\ n < Len(parts)
  BY SolverJob DEF SolveCrewPart, CrewPartFails
<1>2. JobKept' /\ RegionsKept'
  BY <1>1 DEF SolverInv, JobKept, RegionsKept
<1>3. CASE job.kind # "crew"
  BY <1>1, <1>2, <1>3 DEF SolverInv, CrewKept
<1>4. CASE job.kind = "crew"
  <2>1. /\ fleet = FleetOf(job.blocks) /\ Shares(parts, Range(fleet)) /\ IsList(found)
        /\ crew = [duties |-> crew.duties, bare |-> crew.bare] /\ crew.bare \cap Waiting(parts, n) = {}
        /\ DutiesFit(fleet, crew.duties, B, S) /\ TasksAvoid(crew.duties, B)
    BY <1>1, <1>4 DEF SolverInv, CrewKept, Bare
  <2>2. n \in Nat /\ Len(parts) \in Nat
    BY <2>1, ListDomain DEF Shares
  <2>3. BlocksApart(fleet, S)
    BY <1>1, <2>1, FleetApart
  <2>4. /\ BlocksApart(p, S) /\ p[1] \in Range(p) /\ \A j \in DOMAIN p : \E i \in DOMAIN fleet : p[j] = fleet[i]
        /\ \A i \in DOMAIN fleet : fleet[i].id \in Ids(p) <=> fleet[i] \in Range(p)
        /\ Waiting(parts, n) = Ids(p) \cup W /\ Ids(p) \cap W = {}
    BY <1>1, <2>1, <2>2, <2>3, NextPart
  <2> HIDE DEF p, W
  <2>5. ASSUME NEW x, found' = Append(found, x), NEW ds, NEW bare, crew' = [duties |-> ds, bare |-> crew.bare \cup bare],
               bare \subseteq Ids(p), NEW C, C = crew.bare \cup bare \cup W,
               DutiesFit(fleet, ds, C, S), TasksAvoid(ds, C)
        PROVE  CrewKept'
    <3>1. IsList(found') /\ Len(found') = n + 1
      <4> DEFINE V == Range(found) \cup {x}
      <4>1. found \in Seq(V) /\ x \in V
        BY <2>1, ListTyped
      <4> HIDE DEF V
      <4>2. Len(found') = n + 1
        BY <2>5, <4>1
      <4>3. IsList(found')
        BY <2>1, <2>5, AppendedList
      <4> QED
        BY <4>2, <4>3
    <3>2. Len(found') <= Len(parts')
      BY <1>1, <2>2, <3>1
    <3>3. crew'.duties = ds /\ crew'.bare = crew.bare \cup bare /\ crew' = [duties |-> crew'.duties, bare |-> crew'.bare]
      BY <2>5
    <3>4. Waiting(parts, Len(found))' = W
      BY <1>1, <3>1 DEF W
    <3>5. Bare' = C
      BY <2>5, <3>3, <3>4 DEF Bare
    <3>6. crew'.bare \cap W = {}
      BY <2>1, <2>4, <2>5, <3>3
    <3>7. DutiesFit(fleet', crew'.duties, Bare', TripIds(job')) /\ TasksAvoid(crew'.duties, Bare')
      BY <1>1, <2>5, <3>3, <3>5
    <3>8. Shares(parts', Range(fleet')) /\ fleet' = FleetOf(job'.blocks)
      BY <1>1, <2>1
    <3> QED
      BY <1>1, <3>1, <3>2, <3>3, <3>4, <3>6, <3>7, <3>8 DEF CrewKept
  <2>6. CASE SolveCrewPart
    <3>1. PICK bare \in {{}, {p[1].id}} :
            \E ds \in DutiesOver(job, TasksOf(p, bare, 0), FALSE) :
              /\ crew' = [duties |-> crew.duties \o Renamed(crew.duties, ds), bare |-> crew.bare \cup bare]
              /\ found' = Append(found, ds)
      BY <2>6 DEF SolveCrewPart, p
    <3>2. PICK ds \in DutiesOver(job, TasksOf(p, bare, 0), FALSE) :
              /\ crew' = [duties |-> crew.duties \o Renamed(crew.duties, ds), bare |-> crew.bare \cup bare]
              /\ found' = Append(found, ds)
      BY <3>1
    <3> DEFINE ts == TasksOf(p, bare, 0)
               fs == Renamed(crew.duties, ds)
               C == crew.bare \cup bare \cup W
    <3>3. bare \subseteq Ids(p)
      BY <2>4, <3>1 DEF Ids
    <3>4. TasksFit(p, ts, bare, S) /\ \A k \in DOMAIN ts : ts[k].src \notin bare
      <4>1. \A i \in DOMAIN p : p[i].id = 0 => Len(p[i].trips) > 1
        <5>1. \A i \in DOMAIN p : p[i] \in BlockType(S)
          BY <2>4 DEF BlocksApart
        <5> QED
          BY <5>1 DEF BlockType
      <4> QED
        BY <2>4, <4>1, TasksOfFit
    <3>5. /\ DutiesFit(p, ds, bare, S)
          /\ \A d \in DOMAIN ds : /\ DOMAIN ds[d] = {"id", "tasks", "roster", "drive"}
                                  /\ \A k \in DOMAIN ds[d].tasks : \E x \in DOMAIN ts : ds[d].tasks[k] = ts[x]
      <4>1. Timed(job, S)
        BY <1>1, JobTimed
      <4> DEFINE one == FALSE
      <4>2. ds \in DutiesOver(job, ts, one)
        OBVIOUS
      <4>3. TasksFit(p, ts, bare, S)
        BY <3>4
      <4> HIDE DEF ts, S, one
      <4> QED
        BY ONLY <4>1, <4>2, <4>3, DutiesOverFit
    <3>6. TasksAvoid(ds, bare)
      BY <3>4, <3>5 DEF TasksAvoid
    <3>7. DutiesFit(p, fs, bare, S) /\ TasksAvoid(fs, bare)
      BY <3>5, <3>6, RenamedFit
    <3>8. \A j \in DOMAIN p : p[j].id \in B /\ \E i \in DOMAIN fleet : p[j] = fleet[i]
      BY <2>4 DEF Ids, Range
    <3>9. C \subseteq B
      BY <2>4, <3>3
    <3>10. \A i \in DOMAIN fleet : fleet[i].id \in C <=> fleet[i].id \in IF fleet[i] \in Range(p) THEN bare ELSE B
      BY <2>1, <2>4, <3>3
    <3> HIDE DEF fs, ts, C, B, S
    <3>11. DutiesFit(fleet, crew.duties \o fs, C, S) /\ TasksAvoid(crew.duties \o fs, C)
      BY <2>1, <2>3, <3>7, <3>8, <3>9, <3>10, DutiesJoined
    <3>12. CrewKept'
      BY <2>5, <3>2, <3>3, <3>11 DEF fs, C
    <3> QED
      BY <1>2, <3>12 DEF SolverInv
  <2>7. CASE CrewPartFails
    <3>1. crew' = [crew EXCEPT !.bare = @ \cup Ids(p)] /\ found' = Append(found, <<>>)
      BY <2>7 DEF CrewPartFails, p, Ids
    <3>2. crew' = [duties |-> crew.duties, bare |-> crew.bare \cup Ids(p)]
      BY <2>1, <3>1
    <3>3. B = crew.bare \cup Ids(p) \cup W
      BY <2>4
    <3> HIDE DEF B
    <3>4. CrewKept'
      BY <2>1, <2>5, <3>1, <3>2, <3>3
    <3> QED
      BY <1>2, <3>4 DEF SolverInv
  <2> QED
    BY <2>6, <2>7
<1> QED
  BY <1>3, <1>4

LEMMA CrewEnds ==
  ASSUME SolverInv, MergeCrew
  PROVE  SolverInv'
<1>1. /\ stage = "crew" /\ stage' = "done" /\ Len(found) = Len(parts) /\ job \in Jobs
      /\ UNCHANGED <<job, parts, found, fleet, crew, left>>
  BY SolverJob DEF MergeCrew
<1>2. JobKept' /\ RegionsKept'
  BY <1>1 DEF SolverInv, JobKept, RegionsKept
<1>3. Bare' = Bare
  BY <1>1 DEF Bare
<1>4. CrewKept'
  BY <1>1, <1>3 DEF SolverInv, CrewKept
<1> QED
  BY <1>2, <1>4 DEF SolverInv

(* Boundaries are no concern of the parts.                                     *)
LEMMA EdgesKeep ==
  ASSUME SolverInv, FindEdges \/ RelocateTail \/ EndTails \/ MovePairs
  PROVE  SolverInv'
<1>1. /\ stage \notin {"rest", "regions", "crew", "done"} /\ stage' # "rest" /\ job' = job
      /\ stage = "start" => job.kind = "boundary"
  BY DEF FindEdges, RelocateTail, EndTails, MovePairs
<1>2. job.kind # "regional" /\ job.kind # "crew"
  BY <1>1 DEF SolverInv, RegionsKept, CrewKept
<1> QED
  BY <1>1, <1>2 DEF SolverInv, JobKept, RegionsKept, CrewKept

LEMMA SolverStep ==
  ASSUME SolverInv, [PartsNext]_<<scale, solver>>
  PROVE  SolverInv'
<1>1. CASE UNCHANGED solver
  <2>1. UNCHANGED <<job, stage, parts, found, fleet, crew, left>>
    BY <1>1 DEF solver
  <2>2. JobKept'
    BY <2>1 DEF SolverInv, JobKept
  <2>3. RegionsKept'
    BY <2>1 DEF SolverInv, RegionsKept
  <2>4. CrewKept'
    <3>1. Bare' = Bare
      BY <2>1 DEF Bare
    <3> QED
      BY <2>1, <3>1 DEF SolverInv, CrewKept
  <2> QED
    BY <2>2, <2>3, <2>4 DEF SolverInv
<1>2. CASE SolverNext
  BY <1>2, RegionsKeep, RegionsEnd, CrewSplits, CrewKeeps, CrewEnds, EdgesKeep DEF SolverNext
<1> QED
  BY <1>1, <1>2 DEF PartsNext, solver

LEMMA SolverSays == SolverInv => PartsCoverOnce
<1> SUFFICES ASSUME SolverInv PROVE PartsCoverOnce
  OBVIOUS
<1>1. ASSUME job.kind = "regional", stage = "done", NEW t \in TripIds(job)
      PROVE  IF job.trips[t].depot # 0 THEN Rides(fleet, t) = IF t \in left THEN 0 ELSE 1
             ELSE Rides(fleet, t) >= 1 \/ t \in left
  BY <1>1 DEF SolverInv, RegionsKept
<1>2. ASSUME job.kind = "crew", parts # <<>>, NEW b \in Range(fleet)
      PROVE  Cardinality({i \in DOMAIN parts : b \in Range(parts[i])}) = 1
  <2>1. Shares(parts, Range(fleet))
    BY <1>2 DEF SolverInv, CrewKept
  <2> QED
    BY <2>1, SharesListed
<1>3. ASSUME job.kind = "crew", stage = "done", NEW b \in Range(fleet), NEW t \in Range(b.trips)
      PROVE  DutyRides(t) = IF b.id \in crew.bare THEN 0 ELSE 1
  <2>1. /\ Len(found) = Len(parts) /\ IsList(found) /\ fleet = FleetOf(job.blocks)
        /\ DutiesFit(fleet, crew.duties, Bare, TripIds(job)) /\ TasksAvoid(crew.duties, Bare)
    BY <1>3 DEF SolverInv, CrewKept
  <2>2. Bare = crew.bare
    <3>1. Len(parts) \in Nat
      BY <2>1, ListDomain
    <3>2. Waiting(parts, Len(found)) = {}
      BY <2>1, <3>1 DEF Waiting
    <3> QED
      BY <3>2 DEF Bare
  <2>3. BlocksApart(fleet, TripIds(job))
    <3>1. IsJob(job)
      BY <1>3, SolverJob
    <3> QED
      BY <2>1, <3>1, FleetApart
  <2>4. PICK i \in DOMAIN fleet : b = fleet[i]
    BY <1>3 DEF Range
  <2>5. t \in Drives(fleet[i])
    BY <1>3, <2>4 DEF Drives
  <2>6. DutyTimes(crew.duties, t) = IF fleet[i].id \in crew.bare THEN 0 ELSE 1
    BY <2>1, <2>2, <2>3, <2>5, DutiesDriveParts
  <2> QED
    BY <2>4, <2>6, DutyRidesAreTimes
<1> QED
  BY <1>1, <1>2, <1>3 DEF PartsCoverOnce

(* Whatever the job and whatever the solvers answer: regions by depot leave    *)
(* every trip driven once unless it is reported, windows at least once; every  *)
(* block is in one part of the crew's work, and its trips have one duty unless *)
(* the block is reported (_group_by_depot, _group_by_time_window, _partition,  *)
(* _merge).                                                                    *)
THEOREM PartsStayCovered == PartsSpec => []PartsCoverOnce
<1>1. PartsSpec => []SolverInv
  BY SolverStarts, SolverStep, PTL DEF PartsSpec
<1> QED
  BY <1>1, SolverSays, PTL

===============================================================================
