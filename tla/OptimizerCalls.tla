----------------------------- MODULE OptimizerCalls ----------------------------
(***************************************************************************)
(* What the optimizer does for one call of its API: make a plan            *)
(* (PlanService), cut a large request, or the work of a solver, into parts *)
(* (ProblemParts), roster a week (WeeklyRosters) or put names on the       *)
(* duties of a day (NominalRosters, api/routes/rostering.py).  None reads  *)
(* the state of another: a behaviour is a call of one kind, and the other  *)
(* kinds are absent.  The plan of a large request is cut within PlanCall,  *)
(* which takes any answer of the parts.                                    *)
(***************************************************************************)
EXTENDS PlanService, ProblemParts, WeeklyRosters, NominalRosters

NoWeek ==
  /\ week = {} /\ weekStage = "absent" /\ placed = 0
  /\ taker = <<>> /\ minutes = <<>> /\ worked = <<>> /\ lastDuty = <<>>

NoNames == call = {} /\ callStage = "absent" /\ pairs = {} /\ matched = {}

NoParts == ScaleAtRest /\ SolverAtRest

OtherCall == request = CHOOSE r \in Requests : TRUE

OptimizerInit ==
  /\ ServiceInit
  /\ \/ NoWeek /\ NoNames /\ NoParts
     \/ OtherCall /\ WeekInit /\ NoNames /\ NoParts
     \/ OtherCall /\ NoWeek /\ CallInit /\ NoParts
     \/ OtherCall /\ NoWeek /\ NoNames /\ PartsInit

PlanCall ==
  /\ weekStage = "absent" /\ callStage = "absent"
  /\ phase = "rest" /\ stage = "rest"
  /\ ServiceNext
  /\ UNCHANGED <<weekly, nominal, scale, solver>>

WeekCall == WeekNext /\ UNCHANGED <<pipe, service, nominal, scale, solver>>

NamesCall == CallNext /\ UNCHANGED <<pipe, service, weekly, scale, solver>>

PartsCall == PartsNext /\ UNCHANGED <<pipe, service, weekly, nominal>>

OptimizerNext == PlanCall \/ WeekCall \/ NamesCall \/ PartsCall

OptimizerSpec ==
  OptimizerInit /\ [][OptimizerNext]_<<pipe, service, weekly, nominal, scale, solver>>

===============================================================================
