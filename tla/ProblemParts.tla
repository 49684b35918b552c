----------------------------- MODULE ProblemParts -----------------------------
(* A request cut by the service, or work cut by a solver: one of the two   *)
(* at a time, and the other at rest.                                       *)
EXTENDS ScaleChunks, SolverChunks

AtRest == [kind |-> "none", prm |-> NoPlan]
SolverAtRest ==
    /\ job = AtRest /\ stage = "rest" /\ parts = <<>> /\ found = <<>>
    /\ fleet = <<>> /\ crew = NoCrewYet /\ left = {}
ScaleAtRest ==
    /\ problem = NoPlan /\ chunks = <<>> /\ at = 1 /\ phase = "rest" /\ plan = NoPlan
    /\ status = "none" /\ records = <<>> /\ failed = {} /\ merged = NoMerge
PartsInit == (ScaleInit /\ SolverAtRest) \/ (SolverInit /\ ScaleAtRest)
PartsNext == (ScaleNext /\ UNCHANGED solver) \/ (SolverNext /\ UNCHANGED scale)
PartsSpec == PartsInit /\ [][PartsNext]_<<scale, solver>>

\* Vehicles joined across chunks, or across windows, can be driven.
JointsHold == JoinedBlocksRun /\ BoundaryKeepsBlocks
=============================================================================
