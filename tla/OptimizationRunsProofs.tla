------------------------ MODULE OptimizationRunsProofs ------------------------
(* Theorems about OptimizationRuns, for any set of requests and any bounds.  *)
EXTENDS OptimizationRuns, TLAPS

-----------------------------------------------------------------------------
(* The inductive invariant. *)

\* Where the code goes on counting, the counters are below their limits.
CountersBelowLimits ==
    \A r \in Requests :
        /\ pc[r] \in {"idle"} \cup Starting =>
              attempts[r] = 0 /\ errors[r] = 0 /\ tries[r] = 0
        /\ pc[r] \in Polling => errors[r] < MaxErrors /\ tries[r] = 0
        /\ pc[r] = "waiting" => attempts[r] < MaxAttempts
        /\ pc[r] = "failing" => tries[r] < MaxTries
        /\ pc[r] = "gaveUp" => tries[r] = MaxTries
        /\ tries[r] <= faults

TypeInv == TypeOK /\ CountersBelowLimits

\* While the process is away or reconciling, no code of a request runs.
MemoryGone ==
    backend # "up" =>
        /\ crashes > 0
        /\ \A r \in Requests : pc[r] \notin Live /\ finalizing[r] = "none"

\* Between the two updates of onModuleInit no schedule is open.
SchedulesReconciled ==
    backend = "reconciling" =>
        \A r \in Requests : schedule[r] # "processing"

\* What the rows say at each place of the code.
ScheduleAtPlace ==
    \A r \in Requests :
        /\ pc[r] \in {"idle", "admitted"} => schedule[r] = "none"
        /\ pc[r] \in {"created", "recorded", "aborting", "asking", "waiting",
                      "persisting"} => schedule[r] = "processing"
        /\ pc[r] = "stored" => schedule[r] = "completed"
        /\ pc[r] \in {"storedBad", "failStored"} => schedule[r] = "failed"
        /\ pc[r] \in {"failing", "gaveUp"} =>
              schedule[r] \in {"processing", "failed"}

RunAtPlace ==
    \A r \in Requests :
        /\ pc[r] \in {"idle", "admitted", "created", "rejected"} =>
              run[r] = "none"
        /\ pc[r] = "aborting" => run[r] \in {"none", "running"}
        /\ pc[r] \in {"recorded"} \cup Polling \cup Settling =>
              run[r] = "running"
        /\ schedule[r] = "none" => run[r] = "none"

\* A finalization in flight agrees with a schedule that is settled.
FinalizationAgrees ==
    \A r \in Requests :
        finalizing[r] # "none" =>
            /\ pc[r] = "done"
            /\ run[r] = "running"
            /\ finalizing[r] = schedule[r]

IInv ==
    /\ TypeInv
    /\ MemoryGone
    /\ SchedulesReconciled
    /\ ScheduleAtPlace
    /\ RunAtPlace
    /\ FinalizationAgrees
    /\ FinishedIsReadable
    /\ CompletedRunHasSchedule
    /\ RowsAgreeWithoutCrash
    /\ ProcessingHasOwner
    /\ RunningHasOwner
-----------------------------------------------------------------------------
(* Type correctness. *)

USE LimitsAssumption

LEMMA InitTypeInv == Init => TypeInv
  BY DEF Init, TypeInv, TypeOK, CountersBelowLimits, Live, Starting, Polling, RowStatus, RunStatus, Settled, Places

LEMMA NextTypeInv == TypeInv /\ [Next]_vars => TypeInv'
  <1> SUFFICES ASSUME TypeInv, [Next]_vars
               PROVE  TypeInv'
    OBVIOUS
  <1> USE DEF TypeInv, TypeOK, CountersBelowLimits, RowStatus, RunStatus, Settled, Notices, Places, Live,
              Ended, Starting, Polling, Settling, tables, poll, env, At, GoTo,
              Tell, DbOk, DbFault, SetSchedule, SetRun, Unsure
  <1>1. ASSUME NEW r \in Requests, BeginRun(r)
        PROVE  TypeInv'
    BY <1>1 DEF BeginRun
  <1>2. ASSUME NEW r \in Requests, RejectRun(r)
        PROVE  TypeInv'
    BY <1>2 DEF RejectRun
  <1>3. ASSUME NEW r \in Requests, CreateSchedule(r)
        PROVE  TypeInv'
    BY <1>3 DEF CreateSchedule
  <1>4. ASSUME NEW r \in Requests, RejectInput(r)
        PROVE  TypeInv'
    BY <1>4 DEF RejectInput
  <1>5. ASSUME NEW r \in Requests, RecordRun(r)
        PROVE  TypeInv'
    BY <1>5 DEF RecordRun
  <1>6. ASSUME NEW r \in Requests, SubmitFails(r)
        PROVE  TypeInv'
    BY <1>6 DEF SubmitFails
  <1>7. ASSUME NEW r \in Requests, SubmitAccepted(r)
        PROVE  TypeInv'
    BY <1>7 DEF SubmitAccepted
  <1>8. ASSUME NEW r \in Requests, AbortStart(r)
        PROVE  TypeInv'
    BY <1>8 DEF AbortStart
  <1>9. ASSUME NEW r \in Requests, PollAgain(r)
        PROVE  TypeInv'
    BY <1>9 DEF PollAgain, ErrorsAfterPoll
  <1>10. ASSUME NEW r \in Requests, PollTimeout(r)
        PROVE  TypeInv'
    BY <1>10 DEF PollTimeout, ErrorsAfterPoll
  <1>11. ASSUME NEW r \in Requests, PollFails(r)
        PROVE  TypeInv'
    BY <1>11 DEF PollFails
  <1>12. ASSUME NEW r \in Requests, PollCompletes(r)
        PROVE  TypeInv'
    BY <1>12 DEF PollCompletes
  <1>13. ASSUME NEW r \in Requests, PollTimer(r)
        PROVE  TypeInv'
    BY <1>13 DEF PollTimer
  <1>14. ASSUME NEW r \in Requests, PersistResults(r)
        PROVE  TypeInv'
    BY <1>14 DEF PersistResults
  <1>15. ASSUME NEW r \in Requests, AnnounceResults(r)
        PROVE  TypeInv'
    BY <1>15 DEF AnnounceResults
  <1>16. ASSUME NEW r \in Requests, PersistFailure(r)
        PROVE  TypeInv'
    BY <1>16 DEF PersistFailure
  <1>17. ASSUME NEW r \in Requests, PersistFailureFaults(r)
        PROVE  TypeInv'
    BY <1>17 DEF PersistFailureFaults
  <1>18. ASSUME NEW r \in Requests, AnnounceFailure(r)
        PROVE  TypeInv'
    BY <1>18 DEF AnnounceFailure
  <1>19. ASSUME NEW r \in Requests, FinalizeRun(r)
        PROVE  TypeInv'
    BY <1>19 DEF FinalizeRun
  <1>20. CASE Crash
    BY <1>20 DEF Crash
  <1>21. CASE ReconcileSchedules
    BY <1>21 DEF ReconcileSchedules
  <1>22. CASE ReconcileRuns
    BY <1>22 DEF ReconcileRuns
  <1>23. CASE HourPasses
    BY <1>23 DEF HourPasses
  <1>24. CASE UNCHANGED vars
    BY <1>24 DEF vars
  <1> QED
    BY <1>1, <1>2, <1>3, <1>4, <1>5, <1>6, <1>7, <1>8, <1>9, <1>10, <1>11, <1>12, <1>13, <1>14, <1>15, <1>16, <1>17, <1>18, <1>19, <1>20, <1>21, <1>22, <1>23, <1>24 DEF Next, Start, Poll, Settle

\* Every variable keeps its type: in particular attempts, errors and tries
\* never pass the limits at which pollOptimizerTask and persistFailure stop.
THEOREM TypeCorrect == Spec => []TypeOK
  BY InitTypeInv, NextTypeInv, PTL DEF Spec, TypeInv

-----------------------------------------------------------------------------
(* The inductive invariant holds. *)

LEMMA InitIInv == Init => IInv
  <1> SUFFICES ASSUME Init
               PROVE  IInv
    OBVIOUS
  <1>1. TypeInv
    BY InitTypeInv
  <1> QED
    BY <1>1 DEF Init, IInv, MemoryGone, SchedulesReconciled, ScheduleAtPlace,
                RunAtPlace, FinalizationAgrees, FinishedIsReadable,
                CompletedRunHasSchedule, RowsAgreeWithoutCrash,
                ProcessingHasOwner, RunningHasOwner, Live, Starting, Polling,
                Settling, Settled

LEMMA NextIInv == IInv /\ [Next]_vars => IInv'
  <1> SUFFICES ASSUME IInv, [Next]_vars
               PROVE  IInv'
    OBVIOUS
  <1>0. TypeInv'
    BY NextTypeInv DEF IInv
  <1> USE <1>0 DEF IInv, TypeInv, TypeOK, CountersBelowLimits, MemoryGone,
          SchedulesReconciled, ScheduleAtPlace, RunAtPlace, FinalizationAgrees,
          FinishedIsReadable, CompletedRunHasSchedule, RowsAgreeWithoutCrash,
          ProcessingHasOwner, RunningHasOwner, Settled, Live, Starting,
          Polling, Settling, Places, Ended, RowStatus, RunStatus, Notices,
          tables, poll, env, At, GoTo, Tell, DbOk, DbFault, SetSchedule,
          SetRun, Unsure
  <1>1. ASSUME NEW r \in Requests, BeginRun(r)
        PROVE  IInv'
    BY <1>1 DEF BeginRun
  <1>2. ASSUME NEW r \in Requests, RejectRun(r)
        PROVE  IInv'
    BY <1>2 DEF RejectRun
  <1>3. ASSUME NEW r \in Requests, CreateSchedule(r)
        PROVE  IInv'
    BY <1>3 DEF CreateSchedule
  <1>4. ASSUME NEW r \in Requests, RejectInput(r)
        PROVE  IInv'
    BY <1>4 DEF RejectInput
  <1>5. ASSUME NEW r \in Requests, RecordRun(r)
        PROVE  IInv'
    BY <1>5 DEF RecordRun
  <1>6. ASSUME NEW r \in Requests, SubmitFails(r)
        PROVE  IInv'
    BY <1>6 DEF SubmitFails
  <1>7. ASSUME NEW r \in Requests, SubmitAccepted(r)
        PROVE  IInv'
    BY <1>7 DEF SubmitAccepted
  <1>8. ASSUME NEW r \in Requests, AbortStart(r)
        PROVE  IInv'
    BY <1>8 DEF AbortStart
  <1>9. ASSUME NEW r \in Requests, PollAgain(r)
        PROVE  IInv'
    BY <1>9 DEF PollAgain, ErrorsAfterPoll
  <1>10. ASSUME NEW r \in Requests, PollTimeout(r)
        PROVE  IInv'
    BY <1>10 DEF PollTimeout, ErrorsAfterPoll
  <1>11. ASSUME NEW r \in Requests, PollFails(r)
        PROVE  IInv'
    BY <1>11 DEF PollFails
  <1>12. ASSUME NEW r \in Requests, PollCompletes(r)
        PROVE  IInv'
    BY <1>12 DEF PollCompletes
  <1>13. ASSUME NEW r \in Requests, PollTimer(r)
        PROVE  IInv'
    BY <1>13 DEF PollTimer
  <1>14. ASSUME NEW r \in Requests, PersistResults(r)
        PROVE  IInv'
    BY <1>14 DEF PersistResults
  <1>15. ASSUME NEW r \in Requests, AnnounceResults(r)
        PROVE  IInv'
    BY <1>15 DEF AnnounceResults
  <1>16. ASSUME NEW r \in Requests, PersistFailure(r)
        PROVE  IInv'
    BY <1>16 DEF PersistFailure
  <1>17. ASSUME NEW r \in Requests, PersistFailureFaults(r)
        PROVE  IInv'
    BY <1>17 DEF PersistFailureFaults
  <1>18. ASSUME NEW r \in Requests, AnnounceFailure(r)
        PROVE  IInv'
    BY <1>18 DEF AnnounceFailure
  <1>19. ASSUME NEW r \in Requests, FinalizeRun(r)
        PROVE  IInv'
    BY <1>19 DEF FinalizeRun
  <1>20. CASE Crash
    BY <1>20 DEF Crash
  <1>21. CASE ReconcileSchedules
    BY <1>21 DEF ReconcileSchedules
  <1>22. CASE ReconcileRuns
    BY <1>22 DEF ReconcileRuns
  <1>23. CASE HourPasses
    BY <1>23 DEF HourPasses
  <1>24. CASE UNCHANGED vars
    BY <1>24 DEF vars
  <1> QED
    BY <1>1, <1>2, <1>3, <1>4, <1>5, <1>6, <1>7, <1>8, <1>9, <1>10, <1>11, <1>12, <1>13, <1>14, <1>15, <1>16, <1>17, <1>18, <1>19, <1>20, <1>21, <1>22, <1>23, <1>24
    DEF Next, Start, Poll, Settle

THEOREM Invariance == Spec => []IInv
  BY InitIInv, NextIInv, PTL DEF Spec

-----------------------------------------------------------------------------
(* Consequences. *)

\* Whenever the company's room has been told that a run finished, its schedule
\* is completed (FinishedIsReadable), for every number of requests.
THEOREM FinishedReadable == Spec => []FinishedIsReadable
  BY Invariance, PTL DEF IInv

\* No run is recorded as completed without a completed schedule.
THEOREM CompletedRunBacked == Spec => []CompletedRunHasSchedule
  BY Invariance, PTL DEF IInv

\* The two rows of a request differ only after a crash.
THEOREM RowsAgree == Spec => []RowsAgreeWithoutCrash
  BY Invariance, PTL DEF IInv

\* Every row that locks the company has an owner, save after failed statements.
THEOREM ProcessingOwned == Spec => []ProcessingHasOwner
  BY Invariance, PTL DEF IInv

\* Every RUNNING run has an owner, save after failed statements or submissions.
THEOREM RunningOwned == Spec => []RunningHasOwner
  BY Invariance, PTL DEF IInv

\* Rows and notifications agree on the outcome of a run (RowsTellOutcome).
THEOREM OutcomeTold == Spec => []RowsTellOutcome
  <1>1. IInv => RowsTellOutcome
    BY DEF IInv, RowsTellOutcome
  <1> QED
    BY <1>1, Invariance, PTL

\* Rows in progress have owners (RowsHaveOwners), save after failed statements.
THEOREM RowsOwned == Spec => []RowsHaveOwners
  <1>1. IInv => RowsHaveOwners
    BY DEF IInv, RowsHaveOwners
  <1> QED
    BY <1>1, Invariance, PTL

-----------------------------------------------------------------------------
(* Every step is a step of the contract. *)

LEMMA InitContract == Init => Contract!Init
  BY DEF Init, Contract!Init

LEMMA StepContract ==
    IInv /\ [Next]_vars => [Contract!Next]_Contract!contractVars
  <1> SUFFICES ASSUME IInv, [Next]_vars
               PROVE  Contract!Next \/ UNCHANGED Contract!contractVars
    OBVIOUS
  <1> DEFINE announced == {r \in Requests : "finished" \in told[r]}
  <1> USE DEF IInv, TypeInv, TypeOK, MemoryGone, SchedulesReconciled,
          ScheduleAtPlace, RunAtPlace, FinalizationAgrees, RowStatus, RunStatus,
          Settled, Live, Starting, Polling, Settling, tables, poll, env, At,
          GoTo, Tell, DbOk, DbFault, SetSchedule, SetRun, Unsure,
          Contract!contractVars, Contract!Outcomes
  \* Steps that write no row and announce no success.
  <1>1. ASSUME NEW r \in Requests,
               \/ BeginRun(r) \/ RejectRun(r) \/ RejectInput(r)
               \/ SubmitFails(r) \/ PollAgain(r) \/ PollFails(r)
               \/ PollCompletes(r) \/ PollTimer(r)
        PROVE  UNCHANGED Contract!contractVars
    BY <1>1 DEF BeginRun, RejectRun, RejectInput, SubmitFails, PollAgain,
                PollFails, PollCompletes, PollTimer
  <1>2. ASSUME NEW r \in Requests,
               SubmitAccepted(r) \/ PollTimeout(r) \/ AnnounceFailure(r)
        PROVE  UNCHANGED Contract!contractVars
    <2>1. schedule' = schedule /\ run' = run
      BY <1>2 DEF SubmitAccepted, PollTimeout, AnnounceFailure
    <2>2. \A q \in Requests : "finished" \in told'[q] <=> "finished" \in told[q]
      BY <1>2 DEF SubmitAccepted, PollTimeout, AnnounceFailure, Notices
    <2> QED
      BY <2>1, <2>2
  <1>3. ASSUME NEW r \in Requests, CreateSchedule(r)
        PROVE  Contract!Open(r) \/ UNCHANGED Contract!contractVars
    BY <1>3 DEF CreateSchedule, Contract!Open
  <1>4. ASSUME NEW r \in Requests, RecordRun(r)
        PROVE  Contract!Register(r) \/ UNCHANGED Contract!contractVars
    BY <1>4 DEF RecordRun, Contract!Register
  <1>5. ASSUME NEW r \in Requests,
               \/ AbortStart(r) \/ PersistResults(r)
               \/ PersistFailure(r) \/ PersistFailureFaults(r)
        PROVE  Contract!Settle(r) \/ UNCHANGED Contract!contractVars
    BY <1>5 DEF AbortStart, PersistResults, PersistFailure,
                PersistFailureFaults, Contract!Settle
  <1>6. ASSUME NEW r \in Requests, AnnounceResults(r)
        PROVE  Contract!Announce(r) \/ UNCHANGED Contract!contractVars
    <2>1. schedule' = schedule /\ run' = run
      BY <1>6 DEF AnnounceResults
    <2>2. CASE At(r, "stored")
      <3>1. announced' = announced \cup {r}
        BY <1>6, <2>2 DEF AnnounceResults, Notices
      <3>2. schedule[r] = "completed"
        BY <2>2
      <3> QED
        BY <2>1, <3>1, <3>2 DEF Contract!Announce
    <2>3. CASE At(r, "storedBad")
      <3>1. announced' = announced
        BY <1>6, <2>3 DEF AnnounceResults, Notices
      <3> QED
        BY <2>1, <3>1
    <2> QED
      BY <1>6, <2>2, <2>3 DEF AnnounceResults
  <1>7. ASSUME NEW r \in Requests, FinalizeRun(r)
        PROVE  Contract!Close(r) \/ UNCHANGED Contract!contractVars
    BY <1>7 DEF FinalizeRun, Contract!Close
  <1>8. CASE Crash \/ HourPasses \/ UNCHANGED vars
    BY <1>8 DEF Crash, HourPasses, vars
  <1>9. CASE ReconcileSchedules
    <2>1. schedule' = Contract!FailOpen(schedule)
      BY <1>9 DEF ReconcileSchedules, Contract!FailOpen
    <2> QED
      BY <1>9, <2>1 DEF ReconcileSchedules, Contract!RestartSchedules,
                        Contract!Next
  <1>10. CASE ReconcileRuns
    <2>1. run' = Contract!FailOpen(run)
      BY <1>10 DEF ReconcileRuns, Contract!FailOpen
    <2> QED
      BY <1>10, <2>1 DEF ReconcileRuns, Contract!RestartRecords, Contract!Next
  <1> QED
    BY <1>1, <1>2, <1>3, <1>4, <1>5, <1>6, <1>7, <1>8, <1>9, <1>10
    DEF Next, Start, Poll, Settle, Contract!Next

\* The backend's rows and announcements implement the contract of a run.
THEOREM ImplementsRunContract == Spec => ImplementsContract
  BY InitContract, StepContract, Invariance, PTL
     DEF Spec, ImplementsContract, Contract!Spec

\* A settled schedule is never written with another status again.
THEOREM SettledStays == Spec => SettledIsFinal
  <1>1. IInv /\ [Next]_vars =>
           [\A r \in Requests :
               schedule[r] \in Settled => schedule'[r] = schedule[r]]_vars
    <2> SUFFICES ASSUME IInv, Next, NEW q \in Requests, schedule[q] \in Settled
                 PROVE  schedule'[q] = schedule[q]
      OBVIOUS
    <2>1. Contract!Next \/ UNCHANGED Contract!contractVars
      BY StepContract
    <2> QED
      BY <2>1 DEF Contract!Next, Contract!contractVars, Contract!Open,
                  Contract!Register, Contract!Settle, Contract!Close,
                  Contract!Announce, Contract!RestartSchedules,
                  Contract!RestartRecords, Contract!FailOpen, Settled,
                  IInv, TypeInv, TypeOK, RowStatus
  <1> QED
    BY <1>1, Invariance, PTL DEF Spec, SettledIsFinal
=============================================================================
