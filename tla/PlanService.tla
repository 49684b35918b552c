------------------------------ MODULE PlanService ------------------------------
(***************************************************************************)
(* OptimizerService.run (services/optimizer_service.py) around the hybrid  *)
(* pipeline: a request is checked, solved by the pipeline, by another      *)
(* algorithm or in chunks, its trip groups are audited and, when they are  *)
(* split, solved again and repaired, the result is audited against the     *)
(* hard constraints, and the quality stage may still exchange its crew     *)
(* plan before it is returned.                                             *)
(*                                                                         *)
(* A result is the pair of a vehicle and a crew plan with the cost the     *)
(* solver left on it.  Beyond what the pipeline compares, a vehicle plan   *)
(* has `faults`, the issues the validator finds in its blocks, and a crew  *)
(* plan has `splits` (groups not in one roster), `faults` (issues of       *)
(* duties, rosters and handoffs), `profile` (issues of operator profiles)  *)
(* and the KPIs of the quality stage.                                      *)
(***************************************************************************)
EXTENDS HybridPipeline, FiniteSets

ASSUME PlansAudited ==
  /\ \A p \in VehiclePlans : p.faults \in Nat
  /\ \A c \in CrewPlans :
       /\ c.splits \in Nat /\ c.faults \in Nat /\ c.profile \in Nat
       /\ c.critical \in Nat /\ c.low \in Nat

VARIABLES
  servicePhase,    \* how far run has come
  result,   \* the result run would return now
  primary,  \* the result the first solve returned
  best,     \* best_fallback_result
  tries,    \* fallback attempts still to do
  handled   \* meta.group_infeasibility_handling is set: groups were relaxed

service == <<servicePhase, result, primary, best, tries, handled>>

NoResult == [plan |-> NoVsp, crew |-> NoCrew, cost |-> 0]

Results(p, c, cost) == [plan |-> p, crew |-> c, cost |-> cost]

ServiceInit ==
  /\ PipelineInit
  /\ servicePhase = "submitted"
  /\ result = NoResult /\ primary = NoResult /\ best = NoResult
  /\ tries = 0
  /\ handled = FALSE

(* the first position where two tuples differ decides *)
LexLess(s, t) ==
  \E i \in DOMAIN s : s[i] < t[i] /\ \A j \in 1..(i - 1) : s[j] = t[j]

-------------------------------------------------------------------------------
(* What the service derives from the parameters *)

(* is_strict_trip_group_mode *)
StrictGroupMode == request.strictGroups /\ request.grouped

(* Groups are made mandatory when the pairing is hard, and taken back      *)
(* before the solve unless they were explicit or the hard switch is on:    *)
(* neither strict groups nor operator_pairing_hard keeps them.             *)
PairingIsHard == StrictGroupMode \/ request.groupsHard \/ request.operatorHard
GroupsMandatory == \/ request.explicit
                   \/ PairingIsHard /\ request.grouped /\ request.groupsHard

ScaleDecomposition ==
  /\ ~request.noScale
  /\ request.algorithm = "hybrid"
  /\ request.forceScale \/ request.trips >= 2000

-------------------------------------------------------------------------------
(* The audits *)

GroupsSplit(r) == IF request.grouped THEN r.crew.splits ELSE 0

GroupIssues(r) == IF GroupsMandatory THEN r.crew.splits ELSE 0
HardGroupIssues(r) ==
  IF request.groupsHard \/ request.operatorHard THEN GroupIssues(r) ELSE 0
ProfileIssues(r) == IF request.profiles THEN r.crew.profile ELSE 0

(* issues of a result that do not come from its trip groups *)
OtherIssues(r) ==
  r.plan.left + r.crew.uncovered + r.plan.faults + r.crew.faults + ProfileIssues(r)

(* what audit_result counts as hard *)
HardFaults(r) == OtherIssues(r) + HardGroupIssues(r)

(* the crew's violations decide before the groups do *)
RankByViolations(r) == <<r.crew.violations, GroupsSplit(r), r.crew.low, r.cost,
                         r.plan.vehicles, r.crew.crew>>

(* _group_audit_rank; `low` stands for the utilisation counts of the       *)
(* quality summary.  Only the pipeline's results carry a cost here.        *)
Rank(r) == <<GroupsSplit(r), r.crew.violations, r.crew.low, r.cost,
             r.plan.vehicles, r.crew.crew>>

-------------------------------------------------------------------------------
(* Submission and the first solve *)

Leave(next) ==
  /\ servicePhase' = next
  /\ UNCHANGED <<pipe, result, primary, best, tries, handled>>

Reject ==
  /\ servicePhase = "submitted"
  /\ ~request.valid \/ (StrictGroupMode /\ request.algorithm = "assignment")
  /\ Leave("refused")

AcceptResult ==
  /\ servicePhase = "submitted"
  /\ request.valid
  /\ ~(StrictGroupMode /\ request.algorithm = "assignment")
  /\ servicePhase' = "solving"
  /\ IF request.algorithm = "hybrid" /\ ~ScaleDecomposition
     THEN Start
     ELSE UNCHANGED pipe
  /\ UNCHANGED <<result, primary, best, tries, handled>>

(* what the pipeline left behind is gone once it has returned *)
Forget ==
  /\ pipeStage' = "idle"
  /\ bestVsp' = NoVsp /\ base' = NoVsp
  /\ runs' = 0
  /\ first' = NoPair /\ answer' = NoPair
  /\ UNCHANGED request

PipelineRuns ==
  /\ servicePhase = "solving"
  /\ PipelineStep
  /\ UNCHANGED service

SolvedPlan(r) ==
  /\ servicePhase' = "grouping"
  /\ result' = r /\ primary' = r
  /\ UNCHANGED <<best, tries, handled>>

(* the pipeline sets total_cost, except when there are no vehicles *)
Collect ==
  /\ servicePhase = "solving" /\ pipeStage = "done"
  /\ SolvedPlan(Results(answer.plan, answer.crew,
                        IF answer.plan.vehicles = 0 THEN 0 ELSE Price(answer.plan, answer.crew)))
  /\ Forget

PipelineFails ==
  /\ servicePhase = "solving" /\ pipeStage = "failed"
  /\ servicePhase' = "failed"
  /\ Forget
  /\ UNCHANGED <<result, primary, best, tries, handled>>

(* any other algorithm: a vehicle solver and a crew scheduler, no cost *)
AnyResult == {Results(p, c, 0) : p \in VehiclePlans, c \in CrewPlans}

Dispatch ==
  /\ servicePhase = "solving" /\ pipeStage = "idle" /\ ~ScaleDecomposition
  /\ \E r \in AnyResult : SolvedPlan(r)
  /\ UNCHANGED pipe

(* in chunks (module ScaleChunks): the merged plan leaves nothing out *)
Decompose ==
  /\ servicePhase = "solving" /\ pipeStage = "idle" /\ ScaleDecomposition
  /\ \E r \in AnyResult :
       r.plan.left = 0 /\ r.crew.uncovered = 0 /\ r.crew.profile = 0 /\ SolvedPlan(r)
  /\ UNCHANGED pipe

SolveFails ==
  /\ servicePhase = "solving" /\ pipeStage = "idle"
  /\ Leave("failed")

-------------------------------------------------------------------------------
(* Split groups: another solve, then a repair *)

FallbackAllowed ==
  \/ request.trips <= 220 /\ result.plan.vehicles <= 160
  \/ StrictGroupMode /\ request.trips <= 1000 /\ result.plan.vehicles <= 1000

NeedsGroups == request.algorithm = "hybrid" /\ GroupsSplit(result) > 0 /\ FallbackAllowed

MayRepair == NeedsGroups /\ StrictGroupMode

Audit ==
  /\ servicePhase = "grouping"
  /\ IF NeedsGroups /\ ~request.noFallback
     THEN servicePhase' = "fallback" /\ tries' = (IF StrictGroupMode THEN 1 ELSE 2)
     ELSE servicePhase' = (IF MayRepair THEN "repair" ELSE "audit") /\ UNCHANGED tries
  /\ UNCHANGED <<pipe, result, primary, best, handled>>

(* One attempt: greedy for strict groups, annealing with another seed      *)
(* otherwise.                                                              *)
Attempt ==
  /\ servicePhase = "fallback" /\ tries > 0
  /\ \E r \in AnyResult :
       best' = IF best = NoResult \/ LexLess(Rank(r), Rank(best)) THEN r ELSE best
  /\ tries' = tries - 1
  /\ UNCHANGED <<pipe, servicePhase, result, primary, handled>>

(* what an attempt raises is not caught: the first result is lost *)
AttemptFails ==
  /\ servicePhase = "fallback" /\ tries > 0
  /\ Leave("failed")

Choose ==
  /\ servicePhase = "fallback" /\ tries = 0
  /\ result' = IF LexLess(Rank(best), Rank(result)) THEN best ELSE result
  /\ servicePhase' = IF GroupsSplit(result') > 0 /\ StrictGroupMode THEN "repair" ELSE "audit"
  /\ best' = NoResult
  /\ UNCHANGED <<pipe, primary, tries, handled>>

(* Dedicated blocks for the split groups; the repaired result keeps the    *)
(* unassigned trips and the cost of the one it was made from.              *)
Repair ==
  /\ servicePhase = "repair"
  /\ \E p \in VehiclePlans, c \in CrewPlans :
       /\ p.left = result.plan.left
       /\ result' = IF LexLess(Rank(Results(p, c, result.cost)), Rank(result))
                    THEN Results(p, c, result.cost) ELSE result
  /\ servicePhase' = "audit"
  /\ UNCHANGED <<pipe, primary, best, tries, handled>>

(* A group that fits in no block: production keeps the result as it is,    *)
(* every other mode fails.                                                 *)
GroupInfeasible ==
  /\ servicePhase = "repair"
  /\ IF request.mode = "production"
     THEN handled' = TRUE /\ servicePhase' = "audit"
     ELSE servicePhase' = "failed" /\ UNCHANGED handled
  /\ UNCHANGED <<pipe, result, primary, best, tries>>

RepairRaises ==
  /\ servicePhase = "repair"
  /\ Leave("failed")

-------------------------------------------------------------------------------
(* The gate *)

(* a relaxation nobody asked for *)
AnyGroupRelaxation(r) == request.mode = "production" /\ OtherIssues(r) = 0

(* _is_controlled_group_relaxation *)
ControlledRelaxation(r) ==
  /\ request.mode = "production"
  /\ handled
  /\ HardFaults(r) > 0 /\ OtherIssues(r) = 0

PassesGate(r) ==
  IF request.strict
  THEN HardFaults(r) = 0 \/ ControlledRelaxation(r)
  ELSE ProfileIssues(r) = 0

Gate ==
  /\ servicePhase = "audit"
  /\ servicePhase' = IF PassesGate(result) THEN "quality" ELSE "failed"
  /\ result' = [result EXCEPT !.cost = Price(result.plan, result.crew)]
  /\ UNCHANGED <<pipe, primary, best, tries, handled>>

-------------------------------------------------------------------------------
(* The quality stage: the plan against the plan with one more duty *)

Cost(r) == Price(r.plan, r.crew)

CheapestKey(r) == <<HardFaults(r), Cost(r), r.crew.crew>>
BalancedKey(r) == <<HardFaults(r), r.crew.critical, r.crew.low, Cost(r), r.crew.crew>>
StrictClean(r) == HardFaults(r) = 0 /\ r.crew.critical = 0 /\ r.crew.low = 0

Indicators == {"low", "long", "idle", "restMissing", "overtime"}
Improved(r, q) == {k \in Indicators : q.crew[k] < r.crew[k]}

(* compare_scenarios: nothing that blocks, and two indicators improve *)
MateriallyBetter(r, q) ==
  /\ q.plan.left <= r.plan.left
  /\ q.crew.uncovered <= r.crew.uncovered
  /\ HardFaults(q) <= HardFaults(r)
  /\ Cardinality(Improved(r, q)) >= 2

(* _select_operational_quality_scenario: a plan that is materially better  *)
(* wins over the choice of the mode; the current plan wins every tie.      *)
ModePrefers(r, q) ==
  \/ request.quality = "optimized" /\ LexLess(CheapestKey(q), CheapestKey(r))
  \/ /\ request.quality = "strict" /\ StrictClean(q)
     /\ ~StrictClean(r) \/ LexLess(<<Cost(q), q.crew.crew>>, <<Cost(r), r.crew.crew>>)
  \/ /\ request.quality = "strict" /\ ~StrictClean(q) /\ ~StrictClean(r)
     /\ LexLess(BalancedKey(q), BalancedKey(r))
  \/ request.quality = "balanced" /\ LexLess(BalancedKey(q), BalancedKey(r))

Chooses(r, q) == MateriallyBetter(r, q) \/ ModePrefers(r, q)

(* The candidate is a crew plan of the same vehicles with one of the worst *)
(* duties cut in two; it is dropped if it leaves anything uncovered, and   *)
(* there may be none.                                                      *)
Candidates(r) ==
  {r} \cup {[r EXCEPT !.crew = c] :
              c \in {d \in CrewPlans : /\ r.crew.some /\ r.plan.left = 0
                                       /\ d.some /\ d.uncovered = 0}}

Quality ==
  /\ servicePhase = "quality"
  /\ \E q \in Candidates(result) :
       result' = IF q # result /\ Chooses(result, q)
                 THEN [q EXCEPT !.cost = Cost(q)] ELSE result
  /\ servicePhase' = "published"
  /\ UNCHANGED <<pipe, primary, best, tries, handled>>

ServiceNext ==
  \/ Reject \/ AcceptResult \/ PipelineRuns \/ Collect \/ PipelineFails
  \/ Dispatch \/ Decompose \/ SolveFails
  \/ Audit \/ Attempt \/ AttemptFails \/ Choose
  \/ Repair \/ GroupInfeasible \/ RepairRaises
  \/ Gate \/ Quality

ServiceSpec == ServiceInit /\ [][ServiceNext]_<<pipe, service>>

-------------------------------------------------------------------------------
(* A result published under strict_hard_validation has no hard issue, even *)
(* though the quality stage replaces the crew plan after the gate has      *)
(* looked at it; the one exception is a production request whose groups    *)
(* were found infeasible and relaxed.                                      *)
StrictMeansClean ==
  servicePhase = "published" /\ request.strict => HardFaults(result) = 0 \/ handled

(* The fallback and the repair only help the groups: what reaches the      *)
(* audit never splits more groups than the first solve, and for the same   *)
(* number of split groups never violates more rules.                       *)
GroupRepairOnlyHelps ==
  servicePhase \in {"repair", "audit"} =>
    ~LexLess(<<GroupsSplit(primary), primary.crew.violations>>,
             <<GroupsSplit(result), result.crew.violations>>)
===============================================================================
