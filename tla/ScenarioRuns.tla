----------------------------- MODULE ScenarioRuns -----------------------------
(***************************************************************************)
(* ScenarioEvaluatorService.ensureScenarioRun: each what-if scenario of a  *)
(* baseline schedule reuses a recent COMPLETED run or one in flight, else  *)
(* runOptimization records and submits a new one, without the tenant lock. *)
(* One baseline schedule of one company.  The iterations of                *)
(* generateScenarios touch rows of different scenarios, so a request here  *)
(* is one call of ensureScenarioRun.  What happens to a submitted run is   *)
(* the subject of OptimizationRuns; here it is completed, fails, or loses  *)
(* its poller while it is RUNNING.                                         *)
(***************************************************************************)
EXTENDS Naturals, FiniteSets

CONSTANTS
    Requests, Scenarios, Runs,
    NoRun,
    MaxLost,            \* bound: RUNNING runs without a poller at one time
    MaxBackendRestarts  \* bound: backend restarts

ASSUME NoRunAssumption == NoRun \notin Runs
ASSUME ScenariosAssumption == Scenarios # {}
ASSUME ScenarioBounds == MaxLost \in Nat /\ MaxBackendRestarts \in Nat

VARIABLES
    pc,        \* where the request stands
    scenario,  \* the scenario it asks for
    option,    \* the run it was answered with; NoRun is a placeholder
    recorded,  \* the run it recorded
    run,       \* scenario and status of the optimization_runs rows
    live,      \* submitted runs whose poller is alive
    lost,      \* runs that a failure left RUNNING without a poller
    before,    \* statuses of the runs when the request began (history)
    backendRestarts

requests == <<pc, scenario, option, recorded>>
failures == <<lost, backendRestarts>>
scenarioVars == <<requests, run, live, before, failures>>

\* "STALE" is a COMPLETED run older than reuseTtlMs.
Statuses == {"unused", "RUNNING", "COMPLETED", "STALE", "FAILED"}
Reusable == {"RUNNING", "COMPLETED"}

ScenarioTypeOK ==
    /\ pc \in [Requests -> {"idle", "completed?", "running?", "recording",
                            "posting", "reading", "answered"}]
    /\ scenario \in [Requests -> Scenarios]
    /\ option \in [Requests -> Runs \cup {NoRun}]
    /\ recorded \in [Requests -> Runs \cup {NoRun}]
    /\ run \in [Runs -> [scenario : Scenarios, status : Statuses]]
    /\ live \subseteq Runs
    /\ before \in [Requests -> [Runs -> Statuses]]
    /\ lost \subseteq Runs
    /\ backendRestarts \in 0..MaxBackendRestarts

ScenarioInit ==
    /\ pc = [q \in Requests |-> "idle"]
    /\ scenario \in [Requests -> Scenarios]
    /\ option = [q \in Requests |-> NoRun]
    /\ recorded = [q \in Requests |-> NoRun]
    /\ run = [r \in Runs |-> [scenario |-> CHOOSE c \in Scenarios : TRUE,
                              status |-> "unused"]]
    /\ live = {}
    /\ before = [q \in Requests |-> [r \in Runs |-> "unused"]]
    /\ lost = {}
    /\ backendRestarts = 0

With(c, statuses) ==
    {r \in Runs : run[r].scenario = c /\ run[r].status \in statuses}

GoTo(q, place) == pc' = [pc EXCEPT ![q] = place]
\* The locals of the call, and its history, end with it.
Forget(q) ==
    /\ recorded' = [recorded EXCEPT ![q] = NoRun]
    /\ before' = [before EXCEPT ![q] = [r \in Runs |-> "unused"]]
Answer(q, r) ==
    /\ GoTo(q, "answered") /\ option' = [option EXCEPT ![q] = r]
    /\ Forget(q)
Continue(q, place) ==
    /\ GoTo(q, place) /\ UNCHANGED <<option, recorded, before>>

-----------------------------------------------------------------------------
(* ensureScenarioRun *)

Begin(q) ==
    /\ pc[q] \in {"idle", "answered"}
    /\ GoTo(q, "completed?")
    /\ before' = [before EXCEPT ![q] = [r \in Runs |-> run[r].status]]
    /\ UNCHANGED <<scenario, option, recorded, run, live, failures>>

FindCompleted(q) ==
    /\ pc[q] = "completed?"
    /\ LET found == With(scenario[q], {"COMPLETED"})
       IN \/ \E r \in found : Answer(q, r)
          \/ found = {} /\ Continue(q, "running?")
    /\ UNCHANGED <<scenario, run, live, failures>>

\* Mutant of FindInFlight: only PENDING, which no run ever is, counts.
FindPending(q) ==
    /\ pc[q] = "running?"
    /\ Continue(q, "recording")
    /\ UNCHANGED <<scenario, run, live, failures>>

FindInFlight(q) ==
    /\ pc[q] = "running?"
    /\ LET found == With(scenario[q], {"RUNNING"})
       IN \/ \E r \in found : Answer(q, r)
          \/ found = {} /\ Continue(q, "recording")
    /\ UNCHANGED <<scenario, run, live, failures>>

\* runOptimization records the run before it posts it.
Record(q) ==
    /\ pc[q] = "recording"
    /\ \E r \in Runs :
          /\ run[r].status = "unused"
          /\ run' = [run EXCEPT ![r] = [scenario |-> scenario[q],
                                        status |-> "RUNNING"]]
          /\ recorded' = [recorded EXCEPT ![q] = r]
    /\ GoTo(q, "posting")
    /\ UNCHANGED <<scenario, option, live, before, failures>>

\* runOptimization throws before it records a run: a placeholder.
RefuseInput(q) ==
    /\ pc[q] = "recording"
    /\ Answer(q, NoRun)
    /\ UNCHANGED <<scenario, run, live, failures>>

\* Mutant of Posted: no poller is started.
PostedUnpolled(q) ==
    /\ pc[q] = "posting"
    /\ GoTo(q, "reading")
    /\ UNCHANGED <<scenario, option, recorded, run, live, before, failures>>

Posted(q) ==
    /\ pc[q] = "posting"
    /\ live' = live \cup {recorded[q]}
    /\ GoTo(q, "reading")
    /\ UNCHANGED <<scenario, option, recorded, run, before, failures>>

Lose(r) == Cardinality(lost) < MaxLost /\ lost' = lost \cup {r}

\* The catch of runOptimization fails the schedule and leaves the run RUNNING.
PostFails(q) ==
    /\ pc[q] = "posting"
    /\ Lose(recorded[q])
    /\ Answer(q, NoRun)
    /\ UNCHANGED <<scenario, run, live, backendRestarts>>

ReadRun(q) ==
    /\ pc[q] = "reading"
    /\ Answer(q, recorded[q])
    /\ UNCHANGED <<scenario, run, live, failures>>

-----------------------------------------------------------------------------

Finish(r) ==
    /\ r \in live
    /\ \E status \in {"COMPLETED", "FAILED"} :
          run' = [run EXCEPT ![r].status = status]
    /\ live' = live \ {r}
    /\ UNCHANGED <<requests, before, failures>>

\* The poller ends and the run stays RUNNING: persistResults throws after `done`
\* is set, persistFailure gives up, or finalizeOptimizationRun only logs that its
\* write failed.
PollerEnds(r) ==
    /\ r \in live
    /\ Lose(r)
    /\ live' = live \ {r}
    /\ UNCHANGED <<requests, run, before, backendRestarts>>

Age(r) ==
    /\ run[r].status = "COMPLETED"
    /\ run' = [run EXCEPT ![r].status = "STALE"]
    /\ UNCHANGED <<requests, live, before, failures>>

\* onModuleInit fails the runs the lost process was polling.
BackendRestart ==
    /\ backendRestarts < MaxBackendRestarts
    /\ backendRestarts' = backendRestarts + 1
    /\ run' = [r \in Runs |-> IF run[r].status = "RUNNING"
                              THEN [run[r] EXCEPT !.status = "FAILED"]
                              ELSE run[r]]
    /\ live' = {} /\ lost' = {}
    /\ pc' = [q \in Requests |-> "idle"]
    /\ recorded' = [q \in Requests |-> NoRun]
    /\ before' = [q \in Requests |-> [r \in Runs |-> "unused"]]
    /\ UNCHANGED <<scenario, option>>

Ensure(q) ==
    \/ FindCompleted(q) \/ FindInFlight(q) \/ Record(q) \/ RefuseInput(q)
    \/ Posted(q) \/ PostFails(q) \/ ReadRun(q)

ScenarioNext ==
    \/ \E q \in Requests : Begin(q) \/ Ensure(q)
    \/ \E r \in Runs : Finish(r) \/ PollerEnds(r) \/ Age(r)
    \/ BackendRestart

ScenarioSpec == ScenarioInit /\ [][ScenarioNext]_scenarioVars

\* A call runs to its end, and so does a poller, whose attempts are limited
\* (OptimizationRuns).
ScenarioFairness ==
    /\ \A q \in Requests : WF_scenarioVars(Ensure(q))
    /\ \A r \in Runs : WF_scenarioVars(Finish(r) \/ PollerEnds(r))

FairScenarios == ScenarioSpec /\ ScenarioFairness

-----------------------------------------------------------------------------
(* Properties *)

\* A request is answered with a run of the scenario it asked for, although
\* several requests record and finish runs between its queries.
OptionIsOwn ==
    \A q \in Requests :
        option[q] # NoRun => run[option[q]].scenario = scenario[q]

\* A run that was in flight, or completed and recent, when a request began and
\* stayed so is found by one of the two queries: the request records no other.
SteadyRunIsReused ==
    \A q \in Requests, r \in Runs :
        /\ pc[q] = "recording"
        /\ run[r].scenario = scenario[q] /\ run[r].status \in Reusable
        => before[q][r] # run[r].status

\* A run that is RUNNING, and that a request may be answered with, has a poller,
\* is about to be posted, or was lost to a failure: no step drops one silently.
RunningIsAccounted ==
    \A r \in Runs :
        run[r].status = "RUNNING" =>
            r \in live \cup lost \/ \E q \in Requests : pc[q] = "posting" /\ recorded[q] = r

\* Requests that interleave neither mix their scenarios nor enqueue a run beside
\* one they could have found.
OptionsHold ==
    ScenarioTypeOK /\ OptionIsOwn /\ SteadyRunIsReused /\ RunningIsAccounted

\* A scenario that is answered with a run in flight leaves that state, for the
\* poller of the run or the restart that loses it settles it; the frontend
\* polls until then.  Only the run whose own submission failed, or whose own poller
\* could not write the outcome, stays RUNNING until the next restart, and
\* FindInFlight hands it out until then.
OptionSettles ==
    \A r \in Runs : run[r].status = "RUNNING" ~> run[r].status # "RUNNING" \/ r \in lost

=============================================================================
