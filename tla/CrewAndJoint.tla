----------------------------- MODULE CrewAndJoint -----------------------------
(* The two searches over whole plans: the crew solver, which forms duties  *)
(* for given blocks and improves them, and joint_duty_vehicle_swap, which  *)
(* changes the blocks and asks the crew solver about each candidate.  Only *)
(* answers pass between them, and PostOptimization takes any of Crews, so  *)
(* a behaviour is one of the two at work and the other waiting.            *)
EXTENDS CrewPlans, PostOptimization

VARIABLE atWork  \* which of the two

searchVars == <<crewVars, vars, atWork>>

SearchInit ==
    /\ atWork \in {"crew", "joint"}
    /\ CrewInit /\ Init
    /\ atWork = "joint" => request = CHOOSE r \in CrewRequests : TRUE
    /\ atWork = "crew" => problem = CHOOSE p \in Problems : TRUE

SearchNext ==
    \/ atWork = "crew" /\ CrewNext /\ UNCHANGED <<vars, atWork>>
    \/ atWork = "joint" /\ Next /\ UNCHANGED <<crewVars, atWork>>

SearchSpec == SearchInit /\ [][SearchNext]_searchVars
=============================================================================
