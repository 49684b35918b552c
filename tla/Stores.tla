-------------------------------- MODULE Stores --------------------------------
(* Two things the backend keeps that are written without one transaction:  *)
(* the answers about schedules it caches, and the runs it records for the  *)
(* scenario options of a request.  They share nothing, so a behaviour is   *)
(* one of them at work and the other at rest.                              *)
EXTENDS ScheduleCache, ScenarioRuns

VARIABLE atWork  \* which of the two

storeVars == <<vars, scenarioVars, atWork>>

StoresInit ==
    /\ atWork \in {"schedules", "scenarios"}
    /\ Init /\ ScenarioInit
    /\ atWork = "schedules" => scenario = [q \in Requests |-> CHOOSE s \in Scenarios : TRUE]

AtSchedules == atWork = "schedules"
AtScenarios == atWork = "scenarios"

StoresNext ==
    \/ AtSchedules /\ Next /\ UNCHANGED <<scenarioVars, atWork>>
    \/ AtScenarios /\ ScenarioNext /\ UNCHANGED <<vars, atWork>>

\* The fairness of the store at work: Fairness and ScenarioFairness.
StoresFairness ==
    /\ \A r \in Readers : WF_vars(AtSchedules /\ Read(r))
    /\ \A i \in Ids : WF_vars(AtSchedules /\ Invalidate(i))
    /\ WF_vars(AtSchedules /\ Tick)
    /\ \A q \in Requests : WF_scenarioVars(AtScenarios /\ Ensure(q))
    /\ \A r \in Runs : WF_scenarioVars(AtScenarios /\ (Finish(r) \/ PollerEnds(r)))

StoresSpec == StoresInit /\ [][StoresNext]_storeVars /\ StoresFairness
===============================================================================
