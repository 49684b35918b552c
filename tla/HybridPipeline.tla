---------------------------- MODULE HybridPipeline ----------------------------
(***************************************************************************)
(* The hybrid pipeline of the optimizer (algorithms/hybrid/pipeline.py):   *)
(* one vehicle plan is taken from the flow solver, then a ladder of        *)
(* metaheuristics may replace it, then a crew plan is built on what was    *)
(* kept, polished by an exact solver, changed together with the vehicle    *)
(* plan by the joint passes, and compared with the plan before the polish. *)
(*                                                                         *)
(* A solver is an arbitrary choice from the plans it may return: what a    *)
(* solver does inside is modelled in VehicleSearch, CrewPlans and          *)
(* PostOptimization.  This module is about what the pipeline keeps.        *)
(***************************************************************************)
EXTENDS Integers

CONSTANTS
  Requests,      \* what one call of solve is given: sizes, limits, switches
  VehiclePlans,  \* vehicle plans a solver may return, as the pipeline measures
                 \* them: hard issues, vehicles, heuristic cost, unassigned trips
  CrewPlans,     \* crew plans a solver may return, with the counts compared
  NoCrew,        \* no crew plan yet
  Price(_, _)    \* CostEvaluator.total_cost of a vehicle and a crew plan,
                 \* in thousandths of the currency

ASSUME PlansMeasured ==
  /\ \A p \in VehiclePlans :
       p.issues \in Nat /\ p.vehicles \in Nat /\ p.cost \in Int /\ p.left \in Nat
  /\ \A c \in CrewPlans : c.violations \in Nat /\ c.uncovered \in Nat /\ c.crew \in Nat
  /\ \A p \in VehiclePlans, c \in CrewPlans : Price(p, c) \in Int
  /\ NoCrew \notin CrewPlans

VARIABLES
  request,   \* the call in progress
  pipeStage,     \* how far solve and _finalize have come
  bestVsp,      \* best_vsp with best_issues, best_vehicles, best_cost
  base,      \* the plan the flow solver returned
  runs,      \* annealing runs still to do
  first,     \* baseline_result: the plans before the polish
  answer     \* vsp_sol and csp_final

pipe == <<request, pipeStage, bestVsp, base, runs, first, answer>>

NoVsp == [issues |-> 0, vehicles |-> 0, cost |-> 0, left |-> 0]
NoPair == [plan |-> NoVsp, crew |-> NoCrew]

(* round(x, 2): a price to the nearest cent *)
Cents(p) == 10 * ((p + 5) \div 10)

AbsValue(x) == IF x < 0 THEN -x ELSE x

PipelineInit ==
  /\ request \in Requests
  /\ pipeStage = "idle"
  /\ bestVsp = NoVsp /\ base = NoVsp
  /\ runs = 0
  /\ first = NoPair /\ answer = NoPair

-------------------------------------------------------------------------------
(* The ladder of vehicle plans *)

Keep(p) == bestVsp' = p
Rest == UNCHANGED <<request, base, first, answer>>

(* A plan the request's strictness lets the pipeline switch to. *)
Acceptable(p) == IF request.strict THEN p.issues = 0 ELSE p.issues <= bestVsp.issues

(* fewer hard issues, then fewer vehicles, then a lower cost *)
IsBetter(p) ==
  /\ Acceptable(p)
  /\ \/ p.issues < bestVsp.issues
     \/ p.issues = bestVsp.issues /\ p.vehicles < bestVsp.vehicles
     \/ p.issues = bestVsp.issues /\ p.vehicles = bestVsp.vehicles /\ p.cost < bestVsp.cost

(* The scale greedy is never preferred for its cost alone. *)
IsSmaller(p) ==
  /\ Acceptable(p)
  /\ \/ p.issues < bestVsp.issues
     \/ p.issues = bestVsp.issues /\ p.vehicles < bestVsp.vehicles

Assignment ==
  /\ pipeStage = "solving"
  /\ request.assignment \/ request.trips > 5000
  /\ \E p \in VehiclePlans : bestVsp' = p /\ base' = p
  /\ pipeStage' = "crew"
  /\ UNCHANGED <<request, runs, first, answer>>

TooLarge(p) ==
  /\ ~request.force
  /\ request.trips > request.maxTrips \/ p.vehicles > request.maxBlocks

MinCostFlow ==
  /\ pipeStage = "solving"
  /\ ~(request.assignment \/ request.trips > 5000)
  /\ \E p \in VehiclePlans :
       /\ bestVsp' = p /\ base' = p
       /\ pipeStage' = IF request.trips <= 10 /\ p.issues = 0 THEN "crew"
                       ELSE IF ~TooLarge(p) THEN "anneal"
                       ELSE IF request.trips >= 500 THEN "scale" ELSE "crew"
  /\ runs' = IF request.pairs /\ request.trips >= 100 THEN 2 ELSE 1
  /\ UNCHANGED <<request, first, answer>>

ScaleGreedy ==
  /\ pipeStage = "scale"
  /\ \E p \in VehiclePlans : Keep(IF IsSmaller(p) THEN p ELSE bestVsp)
  /\ pipeStage' = "crew"
  /\ Rest /\ UNCHANGED runs

(* One annealing run; after the last one the clock decides whether the     *)
(* tabu search still runs.                                                 *)
Anneal ==
  /\ pipeStage = "anneal"
  /\ \E p \in VehiclePlans : Keep(IF IsBetter(p) THEN p ELSE bestVsp)
  /\ runs' = runs - 1
  /\ IF runs = 1 THEN pipeStage' \in {"tabu", "crew"} ELSE pipeStage' = "anneal"
  /\ Rest

(* The genetic search is left out when tabu confirms a clean plan to 1 %. *)
Stable(p, kept) ==
  /\ kept.issues = 0 /\ p.issues = 0
  /\ 100 * AbsValue(p.cost - kept.cost) < IF kept.cost > 1 THEN kept.cost ELSE 1

Tabu ==
  /\ pipeStage = "tabu"
  /\ \E p \in VehiclePlans :
       /\ Keep(IF IsBetter(p) THEN p ELSE bestVsp)
       /\ pipeStage' \in {"crew"} \cup IF Stable(p, bestVsp') THEN {} ELSE {"genetic"}
  /\ Rest /\ UNCHANGED runs

Genetic ==
  /\ pipeStage = "genetic"
  /\ IF request.trips > 50
     THEN \E p \in VehiclePlans : Keep(IF IsBetter(p) THEN p ELSE bestVsp)
     ELSE UNCHANGED bestVsp
  /\ pipeStage' = "crew"
  /\ Rest /\ UNCHANGED runs

(* solve catches nothing of its vehicle solvers, nor of the greedy crew    *)
(* scheduler: what they raise leaves the pipeline.                         *)
Raise ==
  /\ pipeStage \in {"solving", "scale", "anneal", "tabu", "genetic", "crew"}
  /\ pipeStage' = "failed"
  /\ UNCHANGED <<request, bestVsp, base, runs, first, answer>>

-------------------------------------------------------------------------------
(* _finalize: the crew plan *)

Finish(c) ==
  /\ answer' = [plan |-> bestVsp, crew |-> c]
  /\ UNCHANGED <<request, bestVsp, base, runs>>

NoVehicles ==
  /\ pipeStage = "crew" /\ bestVsp.vehicles = 0
  /\ \E c \in CrewPlans : ~c.some /\ Finish(c)
  /\ pipeStage' = "done"
  /\ UNCHANGED first

(* (cct_violations, uncovered blocks, crew), compared as tuples *)
LowerKey(c, d) ==
  \/ c.violations < d.violations
  \/ c.violations = d.violations /\ c.uncovered < d.uncovered
  \/ c.violations = d.violations /\ c.uncovered = d.uncovered /\ c.crew < d.crew

SameKey(c, d) == c.violations = d.violations /\ c.uncovered = d.uncovered /\ c.crew = d.crew

ChunkedWins(chunked, greedy) ==
  \/ LowerKey(chunked, greedy)
  \/ SameKey(chunked, greedy) /\ Price(bestVsp, chunked) <= Price(bestVsp, greedy)

CrewLarge ==
  /\ pipeStage = "crew" /\ bestVsp.vehicles > 1500
  /\ \E chunked, greedy \in CrewPlans :
       \E c \in {IF ChunkedWins(chunked, greedy) THEN chunked ELSE greedy} :
         Finish(c) /\ first' = [plan |-> bestVsp, crew |-> c]
  /\ pipeStage' = "polish"

CrewSmall ==
  /\ pipeStage = "crew" /\ bestVsp.vehicles \in 1..1500
  /\ \E c \in CrewPlans : Finish(c) /\ first' = [plan |-> bestVsp, crew |-> c]
  /\ pipeStage' = "polish"

MayPolish ==
  /\ request.trips <= request.ilpTrips
  /\ bestVsp.vehicles <= request.ilpBlocks

(* Above 1,500 vehicles: CP-SAT, else CBC, else the baseline itself. *)
TieNotWorse(c, d) ==
  /\ c.violations = d.violations
  /\ c.uncovered <= d.uncovered
  /\ c.crew <= d.crew

PolishLarge ==
  /\ pipeStage = "polish" /\ bestVsp.vehicles > 1500 /\ MayPolish
  /\ \E c \in CrewPlans \cup {first.crew} :
       Finish(IF /\ c.some
                 /\ LowerKey(c, first.crew) \/ TieNotWorse(c, first.crew)
                 /\ request.minWork => c.shorts <= first.crew.shorts
              THEN c ELSE first.crew)
  /\ pipeStage' = "joint"
  /\ UNCHANGED first

PolishSmall ==
  /\ pipeStage = "polish" /\ bestVsp.vehicles <= 1500 /\ MayPolish
  /\ \E c \in CrewPlans \cup {first.crew} :   \* first.crew: the solver raised
       Finish(IF c.some /\ (LowerKey(c, first.crew) \/ SameKey(c, first.crew))
              THEN c ELSE first.crew)
  /\ pipeStage' = "joint"
  /\ UNCHANGED first

(* out of time, or the instance is above the limits of the exact solver *)
SkipPolish ==
  /\ pipeStage = "polish"
  /\ pipeStage' = "joint"
  /\ UNCHANGED <<request, bestVsp, base, runs, first, answer>>

(* joint_duty_vehicle_swap (module PostOptimization) may change both plans; *)
(* an IndexError or KeyError in it keeps them.  Its promise is what         *)
(* PlanNoWorse of that module states: no more unassigned trips and no more  *)
(* violations, and with the hard pair weight no more split groups.          *)
JointPromise(p, c) ==
  /\ p.left <= answer.plan.left
  /\ c.violations <= answer.crew.violations
  /\ request.hardPairs => c.splits <= answer.crew.splits

Joint ==
  /\ pipeStage = "joint"
  /\ \E p \in VehiclePlans \cup {answer.plan}, c \in CrewPlans \cup {answer.crew} :
       /\ p.vehicles > 0
       /\ JointPromise(p, c)
       /\ answer' = [plan |-> p, crew |-> c]
  /\ pipeStage' = "check"
  /\ UNCHANGED <<request, bestVsp, base, runs, first>>

(* compared with the polished plan instead of the first one *)
WorseThanPolished(pair) == Price(pair.plan, pair.crew) > Cents(Price(bestVsp, answer.crew))

(* The final cost is compared with the baseline's cost rounded to cents.   *)
Worse(pair) == Price(pair.plan, pair.crew) > Cents(Price(first.plan, first.crew))

Check ==
  /\ pipeStage = "check"
  /\ answer' = IF Worse(answer) THEN first ELSE answer
  /\ pipeStage' = "done"
  /\ UNCHANGED <<request, bestVsp, base, runs, first>>

Start ==
  /\ pipeStage = "idle"
  /\ pipeStage' = "solving"
  /\ UNCHANGED <<request, bestVsp, base, runs, first, answer>>

PipelineStep ==
  \/ Assignment \/ MinCostFlow \/ ScaleGreedy \/ Anneal \/ Tabu \/ Genetic \/ Raise
  \/ NoVehicles \/ CrewLarge \/ CrewSmall \/ PolishLarge \/ PolishSmall \/ SkipPolish
  \/ Joint \/ Check

PipelineNext == Start \/ PipelineStep

PipelineSpec == PipelineInit /\ [][PipelineNext]_pipe

-------------------------------------------------------------------------------
(* No later than the joint passes the vehicle plan is the best seen: it    *)
(* never has more hard issues than what the flow solver returned, for the  *)
(* same number of issues never more vehicles, and for the same vehicles    *)
(* never a higher cost, whatever order the metaheuristics answered in; and *)
(* a strict request only leaves the flow plan for one without issues.      *)
NotBehind(p, q) ==
  \/ p.issues < q.issues
  \/ p.issues = q.issues /\ p.vehicles < q.vehicles
  \/ p.issues = q.issues /\ p.vehicles = q.vehicles /\ p.cost <= q.cost

BestVehiclePlan ==
  /\ NotBehind(bestVsp, base)
  /\ request.strict /\ bestVsp # base => bestVsp.issues = 0

(* What is handed back has no more violations than the first crew plan,    *)
(* leaves no more trips out, and is not dearer by more than the half cent  *)
(* the baseline's rounding hides.                                          *)
PipelineNoWorse ==
  pipeStage = "done" /\ answer.plan.vehicles > 0 =>
    /\ answer.crew.violations <= first.crew.violations
    /\ answer.plan.left <= first.plan.left
    /\ Price(answer.plan, answer.crew) <= Price(first.plan, first.crew) + 5

(* The ladder of vehicle solvers and the crew stages after it.             *)
PipelineKept == BestVehiclePlan /\ PipelineNoWorse
===============================================================================
