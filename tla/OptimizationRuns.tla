--------------------------- MODULE OptimizationRuns ---------------------------
(***************************************************************************)
(* The life of an optimization run in the NestJS backend                   *)
(* (backend/src/modules/operations/optimization.service.ts): the request   *)
(* handler that admits and submits it, the background poller that follows  *)
(* the optimizer task, the writes that settle it, and the reconciliation   *)
(* done when the backend process starts again.                             *)
(*                                                                         *)
(* A request that gets as far as creating rows owns one row of the table   *)
(* schedules and one of optimization_runs, so both tables are indexed by   *)
(* the request.  All requests belong to one company: the tenant lock, the  *)
(* rows and the Socket.io room of another company are separate.  The code  *)
(* between two awaits is one step of Node's event loop, hence one action.  *)
(***************************************************************************)
EXTENDS Naturals

CONSTANTS
    Requests,     \* calls of runOptimization
    Guarded,      \* those made without skipTenantLock
    LockHours,    \* ageing steps after which a PROCESSING row stops locking
    MaxAttempts,  \* polls before the controlled timeout
    MaxErrors,    \* consecutive failed polls before giving up
    MaxTries,     \* attempts of persistFailure to write the failure
    MaxCrashes,   \* bound: backend crashes in one behaviour
    MaxFaults     \* bound: database statements that fail in one behaviour

ASSUME GuardedAssumption == Guarded \subseteq Requests
ASSUME LimitsAssumption ==
    /\ LockHours \in Nat \ {0}
    /\ MaxAttempts \in Nat \ {0}
    /\ MaxErrors \in Nat \ {0}
    /\ MaxTries \in Nat \ {0}
    /\ MaxCrashes \in Nat
    /\ MaxFaults \in Nat

VARIABLES
    schedule,    \* ScheduleStatus of the request's row, "none" before it exists
    run,         \* OptimizationRunStatus of the request's run
    age,         \* ageing steps since createdAt, up to LockHours
    pc,          \* where the request's code stands
    attempts,    \* polls made
    errors,      \* consecutive polls that failed
    tries,       \* failed attempts of persistFailure
    finalizing,  \* status that a finalizeOptimizationRun in flight will write
    told,        \* kinds of notification the company's room was sent
    backend,     \* the backend process
    crashes,     \* backend crashes so far
    faults       \* failed database statements so far

tables == <<schedule, run, age>>
poll == <<attempts, errors, tries>>
env == <<backend, crashes, faults>>
vars == <<tables, pc, poll, finalizing, told, env>>

RowStatus == {"none", "processing", "completed", "failed"}
RunStatus == {"none", "running", "completed", "failed"}
Settled == {"completed", "failed"}
Notices == {"queued", "finished", "failed", "stale"}

\* Places where code of the request is still to run.
Starting == {"admitted", "created", "recorded", "aborting"}
Polling == {"asking", "waiting"}
Settling == {"persisting", "stored", "storedBad", "failing", "failStored",
             "gaveUp"}
Live == Starting \cup Polling \cup Settling
\* Places where no code of the request will run again.
Ended == {"rejected", "aborted", "done", "swallowed", "abandoned", "lost"}
Places == {"idle"} \cup Live \cup Ended

TypeOK ==
    /\ schedule \in [Requests -> RowStatus]
    /\ run \in [Requests -> RunStatus]
    /\ age \in [Requests -> 0..LockHours]
    /\ pc \in [Requests -> Places]
    /\ attempts \in [Requests -> 0..MaxAttempts]
    /\ errors \in [Requests -> 0..MaxErrors]
    /\ tries \in [Requests -> 0..MaxTries]
    /\ finalizing \in [Requests -> {"none"} \cup Settled]
    /\ told \in [Requests -> SUBSET Notices]
    /\ backend \in {"up", "down", "reconciling"}
    /\ crashes \in 0..MaxCrashes
    /\ faults \in 0..MaxFaults

Init ==
    /\ schedule = [r \in Requests |-> "none"]
    /\ run = [r \in Requests |-> "none"]
    /\ age = [r \in Requests |-> 0]
    /\ pc = [r \in Requests |-> "idle"]
    /\ attempts = [r \in Requests |-> 0]
    /\ errors = [r \in Requests |-> 0]
    /\ tries = [r \in Requests |-> 0]
    /\ finalizing = [r \in Requests |-> "none"]
    /\ told = [r \in Requests |-> {}]
    /\ backend = "up"
    /\ crashes = 0
    /\ faults = 0

-----------------------------------------------------------------------------
(* Building blocks. *)

At(r, place) == backend = "up" /\ pc[r] = place
GoTo(r, place) == pc' = [pc EXCEPT ![r] = place]
Tell(r, notices) == told' = [told EXCEPT ![r] = @ \cup notices]

\* A statement that succeeds, and one whose caller sees an error: the latter
\* may have been applied or not (the connection can be lost before or after).
DbOk == UNCHANGED faults
DbFault == faults < MaxFaults /\ faults' = faults + 1
SetSchedule(r, status) == schedule' = [schedule EXCEPT ![r] = status]
SetRun(r, status) == run' = [run EXCEPT ![r] = status]
Unsure(table, written) == UNCHANGED table \/ written

\* Mutant of TenantLocked: the lock never ages.
LockedForever == \E r \in Requests : schedule[r] = "processing"

\* The newest PROCESSING row is younger than one hour exactly when some
\* PROCESSING row is.
TenantLocked ==
    \E r \in Requests : schedule[r] = "processing" /\ age[r] < LockHours

-----------------------------------------------------------------------------
(* runOptimization *)

\* The lock is read here; the row that takes it is written only later, by
\* CreateSchedule, after the read's await.
BeginRun(r) ==
    /\ At(r, "idle")
    /\ r \in Guarded => ~TenantLocked
    /\ GoTo(r, "admitted")
    /\ UNCHANGED <<tables, poll, finalizing, told, env>>

RejectRun(r) ==
    /\ At(r, "idle")
    /\ r \in Guarded /\ TenantLocked
    /\ GoTo(r, "rejected")
    /\ UNCHANGED <<tables, poll, finalizing, told, env>>

\* scheduleRepo.save stands before the try: its error reaches the caller.
CreateSchedule(r) ==
    /\ At(r, "admitted")
    /\ \/ DbOk /\ SetSchedule(r, "processing") /\ GoTo(r, "created")
       \/ /\ DbFault
          /\ Unsure(schedule, SetSchedule(r, "processing"))
          /\ GoTo(r, "rejected")
    /\ UNCHANGED <<run, age, poll, finalizing, told, backend, crashes>>

\* No trips, no valid trips or an invalid quality mode.
RejectInput(r) ==
    /\ At(r, "created")
    /\ GoTo(r, "aborting")
    /\ UNCHANGED <<tables, poll, finalizing, told, env>>

RecordRun(r) ==
    /\ At(r, "created")
    /\ \/ DbOk /\ SetRun(r, "running") /\ GoTo(r, "recorded")
       \/ DbFault /\ Unsure(run, SetRun(r, "running")) /\ GoTo(r, "aborting")
    /\ UNCHANGED <<schedule, age, poll, finalizing, told, backend, crashes>>

SubmitFails(r) ==
    /\ At(r, "recorded")
    /\ GoTo(r, "aborting")
    /\ UNCHANGED <<tables, poll, finalizing, told, env>>

\* The optimizer returned a task id: the room is told and the first poll is
\* sent in the same turn of the event loop.
SubmitAccepted(r) ==
    /\ At(r, "recorded")
    /\ Tell(r, {"queued"})
    /\ attempts' = [attempts EXCEPT ![r] = 1]
    /\ GoTo(r, "asking")
    /\ UNCHANGED <<tables, errors, tries, finalizing, env>>

\* Mutant of AbortStart: the catch only rethrows.
AbortStartSilently(r) ==
    /\ At(r, "aborting")
    /\ GoTo(r, "aborted")
    /\ UNCHANGED <<tables, poll, finalizing, told, env>>

\* The catch of runOptimization fails the schedule and nothing else.
AbortStart(r) ==
    /\ At(r, "aborting")
    /\ \/ DbOk /\ SetSchedule(r, "failed")
       \/ DbFault /\ Unsure(schedule, SetSchedule(r, "failed"))
    /\ GoTo(r, "aborted")
    /\ UNCHANGED <<run, age, poll, finalizing, told, backend, crashes>>

-----------------------------------------------------------------------------
(* pollOptimizerTask *)

\* Error counts with which the loop goes on: reset by an answer that says
\* "processing", one more after a failed request.
ErrorsAfterPoll(r) == {0} \cup ({errors[r] + 1} \ {MaxErrors})

\* Mutant of PollAgain: attempts are compared with > instead of >=.
PollAgainOffByOne(r) ==
    /\ At(r, "asking")
    /\ attempts[r] <= MaxAttempts
    /\ GoTo(r, "waiting")
    /\ UNCHANGED <<tables, poll, finalizing, told, env>>

PollAgain(r) ==
    /\ At(r, "asking")
    /\ attempts[r] < MaxAttempts
    /\ \E e \in ErrorsAfterPoll(r) : errors' = [errors EXCEPT ![r] = e]
    /\ GoTo(r, "waiting")
    /\ UNCHANGED <<tables, attempts, tries, finalizing, told, env>>

\* The room is told before persistFailure, which is not awaited, has written.
PollTimeout(r) ==
    /\ At(r, "asking")
    /\ attempts[r] >= MaxAttempts
    /\ \E e \in ErrorsAfterPoll(r) : errors' = [errors EXCEPT ![r] = e]
    /\ Tell(r, {"stale", "failed"})
    /\ GoTo(r, "failing")
    /\ UNCHANGED <<tables, attempts, tries, finalizing, env>>

\* The answer "failed", a business error, or the last error allowed.
PollFails(r) ==
    /\ At(r, "asking")
    /\ \E e \in {0, errors[r]} \cup ({errors[r] + 1} \cap {MaxErrors}) :
          errors' = [errors EXCEPT ![r] = e]
    /\ GoTo(r, "failing")
    /\ UNCHANGED <<tables, attempts, tries, finalizing, told, env>>

PollCompletes(r) ==
    /\ At(r, "asking")
    /\ errors' = [errors EXCEPT ![r] = 0]
    /\ GoTo(r, "persisting")
    /\ UNCHANGED <<tables, attempts, tries, finalizing, told, env>>

\* Mutant of PollTimer: the attempt is not counted.
PollTimerUncounted(r) ==
    /\ At(r, "waiting")
    /\ GoTo(r, "asking")
    /\ UNCHANGED <<tables, poll, finalizing, told, env>>

PollTimer(r) ==
    /\ At(r, "waiting")
    /\ attempts' = [attempts EXCEPT ![r] = @ + 1]
    /\ GoTo(r, "asking")
    /\ UNCHANGED <<tables, errors, tries, finalizing, told, env>>

-----------------------------------------------------------------------------
(* persistResults, persistFailure, finalizeOptimizationRun *)

\* One transaction; a result with hard violations settles as FAILED.  When it
\* throws, `done` is already set and the catch of runPoll returns in silence.
PersistResults(r) ==
    /\ At(r, "persisting")
    /\ \/ DbOk /\ SetSchedule(r, "completed") /\ GoTo(r, "stored")
       \/ DbOk /\ SetSchedule(r, "failed") /\ GoTo(r, "storedBad")
       \/ /\ DbFault
          /\ \E status \in Settled : Unsure(schedule, SetSchedule(r, status))
          /\ GoTo(r, "swallowed")
    /\ UNCHANGED <<run, age, poll, finalizing, told, backend, crashes>>

\* Mutant of AnnounceResults: the persisted status is not looked at.
AnnounceAsCompleted(r) ==
    /\ At(r, "stored") \/ At(r, "storedBad")
    /\ finalizing' = [finalizing EXCEPT ![r] = "completed"]
    /\ Tell(r, {"failed"})
    /\ GoTo(r, "done")
    /\ UNCHANGED <<tables, poll, env>>

AnnounceResults(r) ==
    /\ \/ /\ At(r, "stored")
          /\ finalizing' = [finalizing EXCEPT ![r] = "completed"]
          /\ Tell(r, {"finished"})
       \/ /\ At(r, "storedBad")
          /\ finalizing' = [finalizing EXCEPT ![r] = "failed"]
          /\ Tell(r, {"failed"})
    /\ GoTo(r, "done")
    /\ UNCHANGED <<tables, poll, env>>

PersistFailure(r) ==
    /\ At(r, "failing")
    /\ DbOk
    /\ SetSchedule(r, "failed")
    /\ GoTo(r, "failStored")
    /\ UNCHANGED <<run, age, poll, finalizing, told, backend, crashes>>

PersistFailureFaults(r) ==
    /\ At(r, "failing")
    /\ DbFault
    /\ Unsure(schedule, SetSchedule(r, "failed"))
    /\ tries' = [tries EXCEPT ![r] = @ + 1]
    /\ GoTo(r, IF tries[r] + 1 < MaxTries THEN "failing" ELSE "gaveUp")
    /\ UNCHANGED <<run, age, attempts, errors, finalizing, told, backend,
                   crashes>>

\* persistFailure returns normally also after its last attempt failed.  The
\* room is told by its caller, runPoll, once it has returned.
AnnounceFailure(r) ==
    /\ \/ /\ At(r, "failStored")
          /\ finalizing' = [finalizing EXCEPT ![r] = "failed"]
          /\ GoTo(r, "done")
       \/ /\ At(r, "gaveUp")
          /\ GoTo(r, "abandoned")
          /\ UNCHANGED finalizing
    /\ Tell(r, {"failed"})
    /\ UNCHANGED <<tables, poll, env>>

\* Started without await; its own error is only logged.
FinalizeRun(r) ==
    /\ backend = "up"
    /\ finalizing[r] # "none"
    /\ \/ DbOk /\ SetRun(r, finalizing[r])
       \/ DbFault /\ Unsure(run, SetRun(r, finalizing[r]))
    /\ finalizing' = [finalizing EXCEPT ![r] = "none"]
    /\ UNCHANGED <<schedule, age, pc, poll, told, backend, crashes>>

-----------------------------------------------------------------------------
(* The process, and time. *)

\* Requests, pollers and unfinished writes live in memory.  The process may
\* also stop between the two updates of onModuleInit.
Crash ==
    /\ backend # "down"
    /\ crashes < MaxCrashes
    /\ crashes' = crashes + 1
    /\ backend' = "down"
    /\ pc' = [r \in Requests |-> IF pc[r] \in Live THEN "lost" ELSE pc[r]]
    /\ finalizing' = [r \in Requests |-> "none"]
    /\ UNCHANGED <<tables, poll, told, faults>>

\* Mutant of ReconcileSchedules: the update has no filter on the status.
FailAllSchedules ==
    /\ backend = "down"
    /\ backend' = "reconciling"
    /\ schedule' = [r \in Requests |->
                      IF schedule[r] = "none" THEN "none" ELSE "failed"]
    /\ UNCHANGED <<run, age, pc, poll, finalizing, told, crashes, faults>>

\* onModuleInit, awaited before the server listens: first the schedules...
ReconcileSchedules ==
    /\ backend = "down"
    /\ backend' = "reconciling"
    /\ schedule' = [r \in Requests |->
                      IF schedule[r] = "processing" THEN "failed"
                                                    ELSE schedule[r]]
    /\ UNCHANGED <<run, age, pc, poll, finalizing, told, crashes, faults>>

\* Mutant of ReconcileRuns: the update has no filter on the status.
FailAllRuns ==
    /\ backend = "reconciling"
    /\ backend' = "up"
    /\ run' = [r \in Requests |-> IF run[r] = "none" THEN "none" ELSE "failed"]
    /\ UNCHANGED <<schedule, age, pc, poll, finalizing, told, crashes, faults>>

\* ...then the runs.
ReconcileRuns ==
    /\ backend = "reconciling"
    /\ backend' = "up"
    /\ run' = [r \in Requests |->
                 IF run[r] = "running" THEN "failed" ELSE run[r]]
    /\ UNCHANGED <<schedule, age, pc, poll, finalizing, told, crashes, faults>>

HourPasses ==
    /\ \E r \in Requests : schedule[r] = "processing" /\ age[r] < LockHours
    /\ age' = [r \in Requests |->
                 IF schedule[r] = "processing" /\ age[r] < LockHours
                 THEN age[r] + 1 ELSE age[r]]
    /\ UNCHANGED <<schedule, run, pc, poll, finalizing, told, env>>

-----------------------------------------------------------------------------

Start(r) ==
    \/ CreateSchedule(r) \/ RejectInput(r) \/ RecordRun(r)
    \/ SubmitFails(r) \/ SubmitAccepted(r) \/ AbortStart(r)

Poll(r) ==
    \/ PollAgain(r) \/ PollTimeout(r) \/ PollFails(r)
    \/ PollCompletes(r) \/ PollTimer(r)

Settle(r) ==
    \/ PersistResults(r) \/ AnnounceResults(r)
    \/ PersistFailure(r) \/ PersistFailureFaults(r) \/ AnnounceFailure(r)

Next ==
    \/ \E r \in Requests : BeginRun(r) \/ RejectRun(r)
    \/ \E r \in Requests : Start(r) \/ Poll(r) \/ Settle(r) \/ FinalizeRun(r)
    \/ Crash \/ ReconcileSchedules \/ ReconcileRuns \/ HourPasses

Spec == Init /\ [][Next]_vars

\* The event loop runs what is ready, a request to the optimizer is answered
\* or fails (the polls have a timeout of 10 s; the submission has none and is
\* assumed to end), and the container is restarted (`restart:
\* unless-stopped`).  Nothing makes users send requests.
Fairness ==
    /\ \A r \in Requests : /\ WF_vars(Start(r) \/ Poll(r) \/ Settle(r))
                           /\ WF_vars(FinalizeRun(r))
    /\ WF_vars(ReconcileSchedules)
    /\ WF_vars(ReconcileRuns)
    /\ WF_vars(HourPasses)

FairSpec == Spec /\ Fairness
-----------------------------------------------------------------------------
(* Properties *)

\* The success notification makes the frontend fetch the schedule: when the
\* room is told "finished" the row says completed, and it still does at any
\* later time (a restart, a late failure or a retry must not take it back).
FinishedIsReadable ==
    \A r \in Requests : "finished" \in told[r] => schedule[r] = "completed"

\* A run that scenario comparison and reuse take as COMPLETED has a completed
\* schedule behind it, although the two rows are written by unsynchronised
\* statements and a result with hard violations settles as FAILED.
CompletedRunHasSchedule ==
    \A r \in Requests : run[r] = "completed" => schedule[r] = "completed"

\* Once both rows are settled they say the same, unless the backend stopped
\* between the two writes: onModuleInit fails every RUNNING run without
\* looking at the schedule it belongs to.
RowsAgreeWithoutCrash ==
    \A r \in Requests :
        schedule[r] \in Settled /\ run[r] \in Settled =>
            run[r] = schedule[r] \/ crashes > 0

\* A PROCESSING row locks the company, so while the backend serves requests
\* some code must still own it.  Rows without an owner exist only where a
\* database statement failed: at creation, in the catch of runOptimization, in
\* persistResults (its error is swallowed because `done` is set), or in every
\* attempt of persistFailure.
ProcessingHasOwner ==
    backend # "down" =>
        \A r \in Requests :
            schedule[r] = "processing" =>
                \/ pc[r] \in Live
                \/ pc[r] \in {"rejected", "aborted", "swallowed"} /\ faults > 0
                \/ pc[r] = "abandoned" /\ faults >= MaxTries

\* A RUNNING run keeps ensureScenarioRun from starting another.  Without a
\* database failure the only run left RUNNING while nobody will close it is one
\* whose submission failed: the catch of runOptimization does not know it.
RunningHasOwner ==
    backend = "up" =>
        \A r \in Requests :
            run[r] = "running" =>
                \/ pc[r] \in Live
                \/ finalizing[r] # "none"
                \/ pc[r] = "aborted"
                \/ faults > 0

\* What the two rows and the notifications say of a run never contradicts: each
\* is written by a statement or a callback of its own.
RowsTellOutcome ==
    FinishedIsReadable /\ CompletedRunHasSchedule /\ RowsAgreeWithoutCrash

\* No row is left in progress by code that went on as if it had settled it.
RowsHaveOwners == ProcessingHasOwner /\ RunningHasOwner

\* A settled schedule never changes status again: no late answer after a
\* timeout, no second writer and no restart overwrites it.
SettledIsFinal ==
    [][\A r \in Requests :
          schedule[r] \in Settled => schedule'[r] = schedule[r]]_vars

\* The answer to a second request of the company, "Otimizacao ja em andamento",
\* promises that two locked optimizations are not in progress together.
OneRunPerCompany ==
    \A r, s \in Guarded :
        /\ schedule[r] = "processing" /\ age[r] < LockHours
        /\ schedule[s] = "processing" /\ age[s] < LockHours
        => r = s

\* The pair of rows and the announcements implement the contract of a run.
Contract == INSTANCE RunContract WITH
    outcome <- schedule,
    record <- run,
    announced <- {r \in Requests : "finished" \in told[r]}

ImplementsContract == Contract!Spec

\* Unless a statement fails, every schedule settles, however the optimizer
\* answers and even if the backend crashes: attempts and errors are bounded and
\* a restart reconciles.
EveryScheduleSettles ==
    \A r \in Requests :
        schedule[r] = "processing" ~> schedule[r] \in Settled \/ faults > 0

\* A company that was told its run is queued is told how it ended, unless the
\* process that followed the run is gone or the statement that was to store
\* the result failed.
QueuedIsAnswered ==
    \A r \in Requests :
        "queued" \in told[r] ~>
            \/ told[r] \cap {"finished", "failed"} # {}
            \/ pc[r] \in {"lost", "swallowed"}

\* Each request comes to an end, in the tables and for the company's room.
EveryRequestSettles == EveryScheduleSettles /\ QueuedIsAnswered

\* Whatever statements fail, the company is not locked out for ever: the lock
\* of a row nobody owns any more is ignored after one hour.
LockIsReleased == TenantLocked ~> ~TenantLocked
=============================================================================
