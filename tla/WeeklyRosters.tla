----------------------------- MODULE WeeklyRosters -----------------------------
(***************************************************************************)
(* WeeklyRosteringSolver (services/rostering/weekly_solver.py): the duties *)
(* of the days of a week are given to operators.  CP-SAT is asked first;   *)
(* when it has no answer in its time a greedy loop places duty after duty  *)
(* with the first operator whose minutes, days and rest allow it.          *)
(*                                                                         *)
(* A request holds its duties in the order both solvers walk them: by day, *)
(* and within a day as they were sent.  The minutes of a duty are sent     *)
(* with it and need not be its end less its start.                         *)
(***************************************************************************)
EXTENDS Integers, Sequences, FiniteSets, FiniteSetsExt

CONSTANTS
  Weeks,      \* the requests
  Operators,  \* ids of operators
  NoOperator  \* the duty is in unassigned_by_day

ASSUME OperatorsKnown == NoOperator \notin Operators

ASSUME WeeksWellFormed ==
  \A w \in Weeks :
    /\ w.days \subseteq Int /\ IsFiniteSet(w.days)
    /\ w.work \in Seq([day : Int, start : Int, end : Int, minutes : Nat])
    /\ \A i \in 1..Len(w.work) :
         /\ w.work[i].day \in w.days
         /\ \A j \in 1..i : w.work[j].day <= w.work[i].day
    /\ w.order \in Seq(Operators)
    /\ w.limit \in Int /\ w.off \in Int /\ w.rest \in Int

VARIABLES
  week,      \* the request being answered
  weekStage, \* how far solve has come
  placed,    \* duties the greedy loop has passed
  taker,     \* the operator of each duty
  minutes,   \* op_minutes
  worked,    \* op_days_worked
  lastDuty   \* op_last_end: by operator and day, the duty it was set by; 0: unset

weekly == <<week, weekStage, placed, taker, minutes, worked, lastDuty>>

WeekInit ==
  /\ week \in Weeks
  /\ weekStage = "asked"
  /\ placed = 0
  /\ taker = [i \in 1..Len(week.work) |-> NoOperator]
  /\ minutes = [o \in Operators |-> 0]
  /\ worked = [o \in Operators |-> 0]
  /\ lastDuty = [o \in Operators |-> [d \in week.days |-> 0]]

-------------------------------------------------------------------------------
(* Minutes from the end of duty i to the start of duty j a day later *)
Gap(i, j) == (1440 - week.work[i].end) + week.work[j].start

NextDay(i, j) == week.work[j].day = week.work[i].day + 1

MaxDaysWorked == Cardinality(week.days) - week.off

DutiesOf(t, o) == {i \in 1..Len(week.work) : t[i] = o}
DaysOf(t, o) == {week.work[i].day : i \in DutiesOf(t, o)}
MinutesOf(t, o) == MapThenSumSet(LAMBDA i : week.work[i].minutes, DutiesOf(t, o))

(* solve: without days or operators the answer is "empty_input" *)
EmptyInput ==
  /\ weekStage = "asked"
  /\ week.days = {} \/ week.order = <<>>
  /\ weekStage' = "empty"
  /\ UNCHANGED <<week, placed, taker, minutes, worked, lastDuty>>

(* What the model of CP-SAT demands of an assignment: every duty one       *)
(* operator, no operator two duties of a day, the days off, the minutes    *)
(* of the week and the rest between days that follow each other.           *)
Feasible(t) ==
  /\ \A i, j \in 1..Len(week.work) :
       t[i] = t[j] => /\ i # j => week.work[i].day # week.work[j].day
                      /\ NextDay(i, j) => Gap(i, j) >= week.rest
  /\ \A k \in 1..Len(week.order) :
       /\ Cardinality(DaysOf(t, week.order[k])) <= MaxDaysWorked
       /\ MinutesOf(t, week.order[k]) <= week.limit

(* The objective is the same for all assignments: any of them is optimal. *)
SolverAnswers ==
  /\ weekStage = "asked"
  /\ week.days # {} /\ week.order # <<>>
  /\ \E t \in [1..Len(week.work) -> {week.order[k] : k \in 1..Len(week.order)}] :
       /\ Feasible(t)
       /\ taker' = t
       /\ minutes' = [o \in Operators |-> MinutesOf(t, o)]
       /\ worked' = [o \in Operators |-> Cardinality(DutiesOf(t, o))]
  /\ weekStage' = "answered"
  /\ UNCHANGED <<week, placed, lastDuty>>

(* CP-SAT proves the week infeasible, runs out of time or is not installed *)
SolverGivesUp ==
  /\ weekStage = "asked"
  /\ week.days # {} /\ week.order # <<>>
  /\ weekStage' = "placing"
  /\ UNCHANGED <<week, placed, taker, minutes, worked, lastDuty>>

\* A variant that counts from the start of the earlier duty.
RestedFromStart(o, i) ==
  \A p \in 1..Len(week.work) :
    /\ NextDay(p, i)
    /\ lastDuty[o][week.work[p].day] = p
    => (1440 - week.work[p].start) + week.work[i].start >= week.rest

(* Rest is counted from the duty the loop gave last for the day before. *)
RestedFor(o, i) ==
  \A p \in 1..Len(week.work) :
    /\ NextDay(p, i)
    /\ lastDuty[o][week.work[p].day] = p
    => Gap(p, i) >= week.rest

\* A variant that allows a day too many.
MayTakeOneMore(o, i) ==
  /\ minutes[o] + week.work[i].minutes <= week.limit
  /\ worked[o] <= MaxDaysWorked
  /\ RestedFor(o, i)

MayTake(o, i) ==
  /\ minutes[o] + week.work[i].minutes <= week.limit
  /\ worked[o] < MaxDaysWorked
  /\ RestedFor(o, i)

PlaceDuty ==
  LET i == placed + 1 IN
  /\ weekStage = "placing" /\ placed < Len(week.work)
  /\ \E k \in 1..Len(week.order) :
       LET o == week.order[k] IN
       /\ MayTake(o, i)
       /\ \A n \in 1..(k - 1) : ~MayTake(week.order[n], i)
       /\ taker' = [taker EXCEPT ![i] = o]
       /\ minutes' = [minutes EXCEPT ![o] = @ + week.work[i].minutes]
       /\ worked' = [worked EXCEPT ![o] = @ + 1]
       /\ lastDuty' = [lastDuty EXCEPT ![o] = [@ EXCEPT ![week.work[i].day] = i]]
  /\ placed' = i
  /\ UNCHANGED <<week, weekStage>>

LeaveDuty ==
  /\ weekStage = "placing" /\ placed < Len(week.work)
  /\ \A k \in 1..Len(week.order) : ~MayTake(week.order[k], placed + 1)
  /\ placed' = placed + 1
  /\ UNCHANGED <<week, weekStage, taker, minutes, worked, lastDuty>>

AllPlaced ==
  /\ weekStage = "placing" /\ placed = Len(week.work)
  /\ weekStage' = "answered"
  /\ UNCHANGED <<week, placed, taker, minutes, worked, lastDuty>>

WeekNext ==
  EmptyInput \/ SolverAnswers \/ SolverGivesUp \/ PlaceDuty \/ LeaveDuty \/ AllPlaced

WeekSpec == WeekInit /\ [][WeekNext]_weekly

-------------------------------------------------------------------------------
WeekTypeOK ==
  /\ week \in Weeks
  /\ weekStage \in {"asked", "placing", "answered", "empty"}
  /\ placed \in 0..Len(week.work)
  /\ taker \in [1..Len(week.work) -> Operators \cup {NoOperator}]
  /\ worked \in [Operators -> Nat]
  /\ lastDuty \in [Operators -> [week.days -> 0..Len(week.work)]]

(* Everyone keeps the days off of the week: the loop counts duties, not     *)
(* days, and may give one operator several on a day.                       *)
DaysOffKept ==
  weekStage = "answered" =>
    \A o \in Operators :
      DutiesOf(taker, o) # {} => Cardinality(DaysOf(taker, o)) <= MaxDaysWorked

(* Whichever solver answered, no operator drives more minutes in the week  *)
(* than its limit allows, and all keep their days off.                     *)
WeekLimitsKept ==
  /\ DaysOffKept
  /\ weekStage = "answered" =>
       \A o \in Operators :
         DutiesOf(taker, o) # {} => MinutesOf(taker, o) <= week.limit

(* Between two days that follow each other an operator rests as long as    *)
(* the request asks for, however many duties the loop gives it on a day,   *)
(* unless a duty it was given later that day ended before the one in       *)
(* question: op_last_end keeps the end of the last one given, not the      *)
(* latest end (RestBetweenDays).                                           *)
RestKept ==
  weekStage = "answered" =>
    \A i, j \in 1..Len(week.work) :
      /\ taker[i] # NoOperator /\ taker[i] = taker[j]
      /\ NextDay(i, j)
      /\ \A k \in (i + 1)..Len(week.work) :
           taker[k] = taker[i] /\ week.work[k].day = week.work[i].day =>
             week.work[k].end >= week.work[i].end
      => Gap(i, j) >= week.rest

(* What weekly_solver.py:7 and :65-66 and rostering.py:133-135 promise: the *)
(* rest lies between the duties of an operator on consecutive days.  The    *)
(* greedy loop breaks it when the later of two duties of a day is sent      *)
(* first.                                                                   *)
RestBetweenDays ==
  weekStage = "answered" =>
    \A i, j \in 1..Len(week.work) :
      taker[i] # NoOperator /\ taker[i] = taker[j] /\ NextDay(i, j) =>
        Gap(i, j) >= week.rest

===============================================================================
