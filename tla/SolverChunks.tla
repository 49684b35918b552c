----------------------------- MODULE SolverChunks -----------------------------
(***************************************************************************)
(* Where the solvers cut the work themselves:                              *)
(*   regional  the vehicle schedule of each depot, or of each window of    *)
(*             four hours, solved in parallel processes                    *)
(*             (vsp/regional_decomposition.py)                             *)
(*   crew      the duties of a fleet too large for one solve, depot by     *)
(*             depot and window by window (csp/chunked_orchestrator.py)    *)
(*   boundary  vehicles whose day begins or ends near the edge of a        *)
(*             window are joined afterwards (joint_opt_boundary.py)        *)
(* A job is a problem as in PlanAudit with kind and blocks; prm has        *)
(* partBlocks (1500 in the program) and window (240).                      *)
(***************************************************************************)
EXTENDS SolverAnswers

CONSTANT Jobs

\* The blocks of a job are the vehicles it is given: each of at least one trip,
\* and no trip is driven twice.
IsJob(J) ==
    /\ J = [kind |-> J.kind, trips |-> J.trips, dead |-> J.dead, prm |-> J.prm, blocks |-> J.blocks]
    /\ J.trips \in Seq([st : Int, en : Int, from : Int, to : Int, line : Int, group : Int,
                        depot : Int, kwh : Int, after : Int, hand : BOOLEAN])
    /\ J.blocks \in Seq(Seq(TripIds(J)))
    /\ \A i \in DOMAIN J.blocks : J.blocks[i] # <<>> /\ IsInjective(J.blocks[i])
    /\ \A i, j \in DOMAIN J.blocks : i # j => Range(J.blocks[i]) \cap Range(J.blocks[j]) = {}
    /\ J.prm.window \in Nat \ {0}
ASSUME JobsAssumption == \A J \in Jobs : IsJob(J)

VARIABLES
    job,       \* what is solved
    stage,     \* how far it is
    parts,     \* regional: sets of trips; crew: sequences of blocks
    found,     \* the answer for each part, <<>> while it is open
    fleet,     \* the blocks, of [id, trips]
    crew,      \* the duties and the blocks without one: [duties, bare]
    left       \* the trips reported without a vehicle
solver == <<job, stage, parts, found, fleet, crew, left>>

NoCrewYet == [duties |-> <<>>, bare |-> {}]
FleetOf(blocks) == [i \in DOMAIN blocks |-> [id |-> i, trips |-> blocks[i]]]

SolverInit ==
    /\ job \in Jobs /\ stage = "start" /\ parts = <<>> /\ found = <<>>
    /\ fleet = FleetOf(job.blocks) /\ crew = NoCrewYet /\ left = {}

----------------------------------------------------------------------------
\* RegionalDecompositionSolver.

Overlapping == 30
Window(P, w) == {t \in TripIds(P) : w - Overlapping <= P.trips[t].st /\ P.trips[t].st < w + P.prm.window}
Windows(P) ==
    LET starts == {P.trips[t].st : t \in TripIds(P)}
        last == 0 - First({0 - m : m \in starts})
        k == (First(starts) \div P.prm.window)..(last \div P.prm.window)
    IN  Sorted({i * P.prm.window : i \in k}, LAMBDA v, w : v < w)
Regions(P) ==
    LET depots == {P.trips[t].depot : t \in TripIds(P)}
        byDepot == {{t \in TripIds(P) : P.trips[t].depot = d} : d \in depots}
    IN  IF depots # {0} THEN Sorted(byDepot, LAMBDA a, b : First(a) < First(b))
        ELSE LET all == [i \in DOMAIN Windows(P) |-> Window(P, Windows(P)[i])]
             IN  Picked(all, {i \in DOMAIN all : all[i] # {}})

\* The trips travel to the processes without their deadhead times.
Sent(P) == [P EXCEPT !.dead = [x \in DOMAIN @ |-> [y \in DOMAIN @[x] |-> 0]]]
Open == [blocks |-> <<>>, left |-> {}]
SplitRegions ==
    /\ stage = "start" /\ job.kind = "regional"
    /\ parts' = Regions(job) /\ found' = [i \in DOMAIN Regions(job) |-> Open] /\ stage' = "regions"
    /\ UNCHANGED <<job, fleet, crew, left>>
Answered(i, blocks, rest) ==
    /\ found[i] = Open /\ found' = [found EXCEPT ![i] = [blocks |-> blocks, left |-> rest]]
    /\ UNCHANGED <<job, stage, parts, fleet, crew, left>>
\* The processes finish in any order; one that fails gives a vehicle to each trip.
SolveRegion ==
    stage = "regions" /\ \E i \in DOMAIN found : \E rest \in {{}, {First(parts[i])}} :
        \E b \in VehicleAnswers(Sent(job), parts[i] \ rest) : Answered(i, b, rest)
OwnVehicles(S) == LET order == Sorted(S, LAMBDA t, u : t < u) IN FleetOf([i \in DOMAIN order |-> <<order[i]>>])
RegionFails == stage = "regions" /\ \E i \in DOMAIN found : Answered(i, OwnVehicles(parts[i]), {})
\* Without a process pool everything is solved again, one region after the other.
PoolBreaks ==
    /\ stage = "regions" /\ Len(parts) > 1 /\ \E i \in DOMAIN found : found[i] # Open
    /\ found' = [i \in DOMAIN found |-> Open]
    /\ UNCHANGED <<job, stage, parts, fleet, crew, left>>
MergeRegions ==
    /\ stage = "regions" /\ \A i \in DOMAIN found : found[i] # Open
    /\ LET all == FlattenSeq([i \in DOMAIN found |-> found[i].blocks]) IN fleet' = FleetOf([i \in DOMAIN all |-> all[i].trips])
    /\ left' = UNION {found[i].left : i \in DOMAIN found} /\ stage' = "done"
    /\ UNCHANGED <<job, parts, found, crew>>

----------------------------------------------------------------------------
\* ChunkedCSPOrchestrator.

DepotKey(P, b) ==
    LET t == P.trips[b.trips[1]] IN IF t.depot # 0 THEN <<1, t.depot>> ELSE <<0, t.from>>
StableBy(s, key(_)) ==
    LET order == Sorted(DOMAIN s, LAMBDA i, j : key(s[i]) < key(s[j]) \/ (key(s[i]) = key(s[j]) /\ i < j))
    IN  [i \in DOMAIN order |-> s[order[i]]]
ByDepot(P, blocks) ==
    LET same(i) == {j \in DOMAIN blocks : DepotKey(P, blocks[j]) = DepotKey(P, blocks[i])}
        groups == Sorted({same(i) : i \in DOMAIN blocks}, LAMBDA I, J : First(I) < First(J))
    IN  [g \in DOMAIN groups |-> Picked(blocks, groups[g])]
BeginsPart(P, acc, b) ==
    \/ StartOf(P, b.trips) - acc.from > Max2(60, P.prm.window)
    \/ Len(acc.cur) >= P.prm.partBlocks
\* A variant that starts the new part without the block that did not fit.
PartStepDropping(P, acc, b) ==
    IF BeginsPart(P, acc, b)
      THEN [out |-> IF acc.cur = <<>> THEN acc.out ELSE Append(acc.out, acc.cur),
            cur |-> <<>>, from |-> StartOf(P, b.trips)]
      ELSE [acc EXCEPT !.cur = Append(@, b)]
PartStep(P, acc, b) ==
    IF BeginsPart(P, acc, b)
      THEN [out |-> IF acc.cur = <<>> THEN acc.out ELSE Append(acc.out, acc.cur),
            cur |-> <<b>>, from |-> StartOf(P, b.trips)]
      ELSE [acc EXCEPT !.cur = Append(@, b)]
WindowsOf(P, group) ==
    LET order == StableBy(group, LAMBDA b : StartOf(P, b.trips))
        last == FoldLeft(LAMBDA acc, b : PartStep(P, acc, b),
                         [out |-> <<>>, cur |-> <<>>, from |-> StartOf(P, order[1].trips)], order)
    IN  IF Len(group) <= P.prm.partBlocks THEN <<group>> ELSE Append(last.out, last.cur)
CrewParts(P, blocks) ==
    IF blocks = <<>> THEN <<>> ELSE IF Len(blocks) <= P.prm.partBlocks THEN <<blocks>>
    ELSE LET groups == ByDepot(P, blocks) IN FlattenSeq([i \in DOMAIN groups |-> WindowsOf(P, groups[i])])

SplitCrew ==
    /\ stage = "start" /\ job.kind = "crew"
    /\ parts' = CrewParts(job, fleet) /\ stage' = "crew"
    /\ UNCHANGED <<job, found, fleet, crew, left>>
\* The duties get new numbers as they are merged; their rosters do not.
Renamed(duties, ds) == [i \in DOMAIN ds |-> [ds[i] EXCEPT !.id = Len(duties) + i]]
SolveCrewPart ==
    /\ stage = "crew" /\ Len(found) < Len(parts)
    /\ \E bare \in {{}, {parts[Len(found) + 1][1].id}} :
         \E ds \in DutiesOver(job, TasksOf(parts[Len(found) + 1], bare, 0), FALSE) :
            /\ crew' = [duties |-> crew.duties \o Renamed(crew.duties, ds), bare |-> crew.bare \cup bare]
            /\ found' = Append(found, ds)
    /\ UNCHANGED <<job, stage, parts, fleet, left>>
CrewPartFails ==
    /\ stage = "crew" /\ Len(found) < Len(parts) /\ Len(fleet) > job.prm.partBlocks
    /\ crew' = [crew EXCEPT !.bare = @ \cup {b.id : b \in Range(parts[Len(found) + 1])}]
    /\ found' = Append(found, <<>>)
    /\ UNCHANGED <<job, stage, parts, fleet, left>>
MergeCrew ==
    /\ stage = "crew" /\ Len(found) = Len(parts) /\ stage' = "done"
    /\ UNCHANGED <<job, parts, found, fleet, crew, left>>

----------------------------------------------------------------------------
\* stitch_chunk_boundaries.

BoundaryView(P) == [View(P) EXCEPT !.zeroGap = FALSE, !.strict = FALSE]
AtEdge(P, base, m) ==
    LET win == Max2(60, P.prm.window)   off == (m - base) % win IN off <= 15 \/ off >= win - 15
BoundaryBlocks(P, blocks) ==
    LET base == First({StartOf(P, b.trips) : b \in Range(blocks)})
    IN  {b.id : b \in {c \in Range(blocks) : AtEdge(P, base, StartOf(P, c.trips)) \/ AtEdge(P, base, EndOf(P, c.trips))}}
Fits(P, s, t, end) ==
    /\ IsConnectionFeasible(P, BoundaryView(P), Last(s), t)
    /\ P.prm.span > 0 => end - StartOf(P, s) <= P.prm.span

\* boundary_tail_relocation: a short block moves whole behind another.
Relocations(P, blocks, edge) ==
    {p \in (DOMAIN blocks) \X (DOMAIN blocks) :
        LET short == blocks[p[1]]   other == blocks[p[2]] IN
        /\ p[1] # p[2] /\ short.id \in edge /\ Len(short.trips) <= 3
        /\ Fits(P, other.trips, short.trips[1], EndOf(P, short.trips))}
FirstPair(S) == CHOOSE p \in S : \A q \in S : p[1] < q[1] \/ (p[1] = q[1] /\ p[2] <= q[2])
Relocated(blocks, p) ==
    LET grown == [blocks EXCEPT ![p[2]].trips = @ \o blocks[p[1]].trips] IN RemoveAt(grown, p[1])
InDayOrder(blocks) == StableBy(blocks, LAMBDA b : StartOf(job, b.trips))
Renumbered(blocks) == [i \in DOMAIN blocks |-> [blocks[i] EXCEPT !.id = i]]

\* The edge blocks are named once, before anything moves.
FindEdges ==
    /\ stage = "start" /\ job.kind = "boundary"
    /\ IF Len(fleet) < 2 THEN parts' = <<>> /\ stage' = "done"
       ELSE parts' = <<BoundaryBlocks(job, fleet)>> /\ stage' = "tails"
    /\ UNCHANGED <<job, found, fleet, crew, left>>
RelocateTail ==
    /\ stage = "tails"
    /\ LET S == Relocations(job, InDayOrder(fleet), parts[1])
       IN  S # {} /\ fleet' = Relocated(InDayOrder(fleet), FirstPair(S))
    /\ UNCHANGED <<job, stage, parts, found, crew, left>>
\* New numbers after a relocation; the edge blocks keep the old ones.
EndTails ==
    /\ stage = "tails" /\ Relocations(job, InDayOrder(fleet), parts[1]) = {}
    /\ fleet' = (IF Len(fleet) = Len(job.blocks) THEN fleet ELSE Renumbered(InDayOrder(fleet))) /\ stage' = "pairs"
    /\ UNCHANGED <<job, parts, found, crew, left>>

\* boundary_two_opt: the first trip of a later block moves behind an earlier one.
MayMove(P, b, c, edge) ==
    /\ {b.id, c.id} \cap edge # {} /\ b.trips # <<>> /\ c.trips # <<>>
    /\ Fits(P, b.trips, c.trips[1], P.trips[c.trips[1]].en)
    /\ P.prm.multiLine \/ P.trips[Last(b.trips)].line = P.trips[c.trips[1]].line
Take(P, blocks, p, edge) ==
    IF ~MayMove(P, blocks[p[1]], blocks[p[2]], edge) THEN blocks
    ELSE [blocks EXCEPT ![p[1]].trips = Append(@, blocks[p[2]].trips[1]), ![p[2]].trips = Tail(@)]
TwoOpt(P, blocks, edge) ==
    LET pairs == Sorted({p \in (DOMAIN blocks) \X (DOMAIN blocks) : p[1] < p[2]},
                        LAMBDA p, q : p[1] < q[1] \/ (p[1] = q[1] /\ p[2] < q[2]))
        moved == FoldLeft(LAMBDA bs, p : Take(P, bs, p, edge), blocks, pairs)
    IN  IF moved = blocks THEN fleet ELSE Renumbered(Picked(moved, {i \in DOMAIN moved : moved[i].trips # <<>>}))
MovePairs ==
    /\ stage = "pairs" /\ stage' = "done"
    /\ fleet' = TwoOpt(job, InDayOrder(fleet), parts[1])
    /\ UNCHANGED <<job, parts, found, crew, left>>

SolverNext ==
    \/ SplitRegions \/ SolveRegion \/ RegionFails \/ PoolBreaks \/ MergeRegions
    \/ SplitCrew \/ SolveCrewPart \/ CrewPartFails \/ MergeCrew
    \/ FindEdges \/ RelocateTail \/ EndTails \/ MovePairs
SolverSpec == SolverInit /\ [][SolverNext]_solver

----------------------------------------------------------------------------

Rides(blocks, t) == SumOver(DOMAIN blocks, LAMBDA i : Cardinality({k \in DOMAIN blocks[i].trips : blocks[i].trips[k] = t}))
DutyRides(t) == SumOver(DOMAIN crew.duties, LAMBDA d : Rides(crew.duties[d].tasks, t))

\* Cutting the work loses nothing and does nothing twice: by depots every trip
\* is driven once, by windows at least once (the windows overlap); each block
\* is in one part, and has a duty or is reported without.
PartsCoverOnce ==
    /\ job.kind = "regional" /\ stage = "done" =>
          \A t \in TripIds(job) :
             IF job.trips[t].depot # 0 THEN Rides(fleet, t) = IF t \in left THEN 0 ELSE 1
             ELSE Rides(fleet, t) >= 1 \/ t \in left
    /\ job.kind = "crew" /\ parts # <<>> =>
          \A b \in Range(fleet) : Cardinality({i \in DOMAIN parts : b \in Range(parts[i])}) = 1
    /\ job.kind = "crew" /\ stage = "done" =>
          \A b \in Range(fleet) : \A t \in Range(b.trips) : DutyRides(t) = IF b.id \in crew.bare THEN 0 ELSE 1

\* Joining blocks at the edges of the windows keeps every trip, leaves chains
\* of feasible connections within the shift limit, and never adds a vehicle.
BoundaryKeepsBlocks ==
    job.kind = "boundary" =>
        /\ \A t \in Range(FlattenSeq(job.blocks)) : Rides(fleet, t) = 1
        /\ \A b \in Range(fleet) : Chain(job, BoundaryView(job), b.trips)
        /\ \A b \in Range(fleet) : job.prm.span > 0 => SpreadOf(job, b.trips) <= job.prm.span
        /\ Len(fleet) <= Len(job.blocks)
=============================================================================
