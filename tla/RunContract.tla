----------------------------- MODULE RunContract -----------------------------
(***************************************************************************)
(* What an optimization run promises to whoever looks at its two rows and  *)
(* listens to its company's room, whatever the processes behind them do:   *)
(* a schedule settles once, by its own outcome or because the backend      *)
(* restarted; the run record is closed once, as completed only behind a    *)
(* completed schedule; and success is announced only when it can be read.  *)
(***************************************************************************)
CONSTANT Requests

VARIABLES
    outcome,    \* status of the schedule row
    record,     \* status of the run row
    announced   \* requests whose success the room was told

contractVars == <<outcome, record, announced>>

Outcomes == {"completed", "failed"}

Init ==
    /\ outcome = [r \in Requests |-> "none"]
    /\ record = [r \in Requests |-> "none"]
    /\ announced = {}

Open(r) ==
    /\ outcome[r] = "none"
    /\ outcome' = [outcome EXCEPT ![r] = "processing"]
    /\ UNCHANGED <<record, announced>>

Register(r) ==
    /\ outcome[r] = "processing" /\ record[r] = "none"
    /\ record' = [record EXCEPT ![r] = "running"]
    /\ UNCHANGED <<outcome, announced>>

Settle(r) ==
    /\ outcome[r] = "processing"
    /\ \E o \in Outcomes : outcome' = [outcome EXCEPT ![r] = o]
    /\ UNCHANGED <<record, announced>>

Close(r) ==
    /\ record[r] = "running" /\ outcome[r] \in Outcomes
    /\ record' = [record EXCEPT ![r] = outcome[r]]
    /\ UNCHANGED <<outcome, announced>>

Announce(r) ==
    /\ outcome[r] = "completed"
    /\ announced' = announced \cup {r}
    /\ UNCHANGED <<outcome, record>>

\* A restart settles whatever is open as failed, first the schedules, then
\* the records: a record may then say failed behind a completed schedule.
FailOpen(table) ==
    [r \in Requests |-> IF table[r] \in {"processing", "running"}
                        THEN "failed" ELSE table[r]]

RestartSchedules ==
    /\ outcome' = FailOpen(outcome)
    /\ UNCHANGED <<record, announced>>

RestartRecords ==
    /\ \A r \in Requests : outcome[r] # "processing"
    /\ record' = FailOpen(record)
    /\ UNCHANGED <<outcome, announced>>

Next ==
    \/ \E r \in Requests :
          Open(r) \/ Register(r) \/ Settle(r) \/ Close(r) \/ Announce(r)
    \/ RestartSchedules
    \/ RestartRecords

Spec == Init /\ [][Next]_contractVars
=============================================================================
