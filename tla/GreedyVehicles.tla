--------------------------- MODULE GreedyVehicles ---------------------------
(***************************************************************************)
(* The greedy vehicle scheduler (algorithms/vsp/greedy.py), the seed of    *)
(* every metaheuristic: it places the trips one by one, then moves single  *)
(* trips to other blocks ("compacting") and joins whole blocks             *)
(* ("stitching") until nothing changes.  One step is one turn of a loop.   *)
(*                                                                         *)
(* A block is a record [id, trips, start, end, soc]: the depots the loops  *)
(* compare and the battery charge they maintain (NoSoc: the block's type   *)
(* has none).  The sums kept for reports are left out.                     *)
(*                                                                         *)
(* Parameters, in problem.prm (0 stands for "not given"): layover, break,  *)
(* enforce, tol, zeroGap, strict (connections); maxIdle (vehicle idle      *)
(* gap), span (max_block_span_minutes), sameDepot, multiLine, window       *)
(* (preferred pairs, 0: not preserved), hardPairs, limit (max_vehicles),   *)
(* splits, splitMin, splitMax (split shifts), garage ("always", "never",   *)
(* "smart"), garageCost, fixed, compact, stitch, stitchGap.                *)
(* problem.fleet is a sequence of types                                    *)
(*   [fixed, depot, electric, cap, min, rate, price]                       *)
(* with energy in kWh, rate in kWh per minute, price in cost units.        *)
(***************************************************************************)
EXTENDS TripLinks

CONSTANTS Problems,   \* the requests
          NoSoc       \* the charge of a block whose type has no battery

\* A request: numbers, distances between its terminals, a fleet of some type.
ASSUME RequestsAssumption ==
    \A P \in Problems :
        /\ P.dead \in [DOMAIN P.dead -> [DOMAIN P.dead -> Int]]
        /\ P.trips \in Seq([st : Int, en : Int, from : DOMAIN P.dead, to : DOMAIN P.dead, line : Int,
                            group : Int, depot : Int, kwh : Int, after : Int])
        /\ P.fleet \in Seq([fixed : Int, depot : Int, electric : BOOLEAN, cap : Int, min : Int,
                            rate : Int, price : Int]) \ {<<>>}
        /\ P.depot \in Int
        /\ P.prm \in [layover : Int, break : Int, enforce : BOOLEAN, tol : Int, zeroGap : BOOLEAN,
                      strict : BOOLEAN, maxIdle : Int, span : Int, sameDepot : BOOLEAN,
                      multiLine : BOOLEAN, window : Int, hardPairs : BOOLEAN, limit : Int,
                      splits : BOOLEAN, splitMin : Int, splitMax : Int,
                      garage : {"always", "never", "smart"}, garageCost : Int, fixed : Int,
                      compact : BOOLEAN, stitch : BOOLEAN, stitchGap : Int]

\* A trip ends after it starts (the input audit, hard_constraint_validator.py,
\* reports any other).
ASSUME DurationAssumption ==
    \A P \in Problems : \A t \in TripIds(P) : P.trips[t].st <= P.trips[t].en

\* A charge is a number.
ASSUME ChargeAssumption == NoSoc \notin Int

VARIABLES problem,    \* the request
          pairs,      \* preferred pairs: partner of each trip, or 0
          stage,      \* "placing", "compacting", "stitching", "planned", ...
          todo,       \* what the current loop has still to visit
          blocks,     \* the active blocks; after placing, all of them
          closed,     \* blocks whose last trip is further back than the span
          unassigned, \* trips without a vehicle
          inserted,   \* history: trips that were put in the middle of a block
          nextId,     \* the next block id
          rounds,     \* rounds of stitching begun
          changed     \* did this round of stitching join anything?

greedyVars == <<problem, pairs, stage, todo, blocks, closed, unassigned, inserted, nextId, rounds,
                changed>>

Unlimited == 1000000000
prm == problem.prm
Trip(t) == problem.trips[t]

\* select_vehicle_type: the cheapest type that may leave the depot.
SelectVehicleType(fleet, depot) ==
    LET fits == {i \in DOMAIN fleet : depot = 0 \/ fleet[i].depot \in {0, depot}}
        from == IF fits = {} THEN DOMAIN fleet ELSE fits
    IN  fleet[FirstLeast(from, LAMBDA i : fleet[i].fixed)]
Vehicle == SelectVehicleType(problem.fleet, 0)

Fixed == OrElse(prm.fixed, Vehicle.fixed)
Bonus == Fixed \div 20
Broken == (Fixed * 5) \div 4
ReuseLimit == (Fixed * 6) \div 5
GreedyLayover(P) == IF P.prm.enforce THEN Max2(P.prm.layover, P.prm.break) ELSE P.prm.layover
Layover == GreedyLayover(problem)
Span == IF prm.span <= 0 THEN Unlimited ELSE prm.span
SplitMin == Max2(Layover, prm.splitMin)
SplitMax == Max2(SplitMin, prm.splitMax)
InSplitWindow(gap) == SplitMin <= gap /\ gap <= SplitMax
\* Strict flags and the zero-gap check are not handed to the greedy's calls.
GreedyView == [layover |-> Layover, break |-> prm.break, enforce |-> prm.enforce,
               tol |-> prm.tol, zeroGap |-> FALSE, strict |-> FALSE]

AllBlocks == closed \o blocks
BlockOf(t) == {b \in Range(AllBlocks) : t \in Range(b.trips)}

----------------------------------------------------------------------------
\* What a connection needs and costs.

Needed(a, b) == Max2(Layover, Deadhead(problem, a, b))
LinkCost(a, b) == 4 * Needed(a, b) + Max2(0, TripGap(problem, a, b) - Needed(a, b))
IdleOk(a, b) == prm.maxIdle <= 0 \/ TripGap(problem, a, b) <= prm.maxIdle
LineOk(a, b) == prm.multiLine \/ Trip(a).line = Trip(b).line
DepotOk(depot, t) == ~prm.sameDepot \/ depot = 0 \/ Trip(t).depot \in {0, depot}
LinkOk(a, b) ==
    LineOk(a, b) /\ IdleOk(a, b) /\ IsConnectionFeasible(problem, GreedyView, a, b)

\* _maybe_recharge: a gap at the block's own depot charges, up to the capacity.
SocAt(block) == IF block.soc = NoSoc THEN Vehicle.cap ELSE block.soc
RechargedFreely(block, t) ==
    LET gap == TripGap(problem, Last(block.trips), t)
    IN  SocAt(block) + IF gap > 0 /\ Trip(t).depot # 0 /\ Trip(t).depot = block.start
                       THEN Vehicle.rate * gap ELSE 0
Recharged(block, t) ==
    LET gap == TripGap(problem, Last(block.trips), t)
    IN  IF gap > 0 /\ Trip(t).depot # 0 /\ Trip(t).depot = block.start
        THEN Min2(Vehicle.cap, SocAt(block) + Vehicle.rate * gap)
        ELSE SocAt(block)
SocAfter(block, t) == Recharged(block, t) - Trip(t).kwh
EnergyCost(t) == IF Vehicle.electric THEN Trip(t).kwh * Vehicle.price ELSE 0

\* Trip t may be appended to the block.
Fits(block, t) ==
    /\ LinkOk(Last(block.trips), t)
    /\ Trip(t).en - Trip(block.trips[1]).st <= Span
    /\ DepotOk(block.start, t)
    /\ Vehicle.electric => SocAfter(block, t) >= Vehicle.min

\* A candidate's cost; inside the split-shift window the vehicle may return
\* to the garage instead of waiting.
IsSplitShift(block, t) == prm.splits /\ InSplitWindow(TripGap(problem, Last(block.trips), t))
CostWith(block, t, delta) ==
    LET stay == LinkCost(Last(block.trips), t) + EnergyCost(t) + delta
        home == prm.garageCost + delta
    IN  IF ~IsSplitShift(block, t) \/ prm.garage = "never" THEN stay
        ELSE IF prm.garage = "always" THEN home ELSE Min2(stay, home)
Candidate(block, t, delta, follows) ==
    [id |-> block.id, cost |-> CostWith(block, t, delta),
     keeps |-> follows \/ IsSplitShift(block, t), behind |-> 0]

SqueezesBlindly(block, t, k) ==
    /\ k \in 1..Len(block.trips) - 1
    /\ Trip(block.trips[k]).group = Trip(t).group /\ Trip(t).group # 0
    /\ Trip(block.trips[k]).en = Trip(t).st
\* Trip t, which starts when its mate ends, may be put right behind it, between
\* it and the trip that follows it in the block.  Only the connection to that
\* trip is looked at: neither line, depot nor battery is.
Squeezes(block, t, k) ==
    /\ k \in 1..Len(block.trips) - 1
    /\ Trip(block.trips[k]).group = Trip(t).group /\ Trip(t).group # 0
    /\ Trip(block.trips[k]).en = Trip(t).st
    /\ IsConnectionFeasible(problem, GreedyView, t, block.trips[k + 1])

\* _forced_trip_group_candidate: the block that holds another trip of the
\* group.  Where t would come too late behind that block's last trip - the
\* return of another group was placed there first - it may be put behind the
\* first trip of its own group.
GroupCandidates(t) ==
    LET order == SortTrips(problem)
        mates == {i \in DOMAIN order : Trip(order[i]).group = Trip(t).group /\ order[i] # t}
        placed == {i \in mates : BlockOf(order[i]) # {}}
        target == CHOOSE b \in BlockOf(order[Min(placed)]) : TRUE
        gaps == {k \in DOMAIN target.trips :
                   target.trips[k] = order[Min(mates)] /\ Squeezes(target, t, k)}
    IN  IF Trip(t).group = 0 \/ placed = {} THEN {}
        ELSE IF Fits(target, t) THEN {Candidate(target, t, (-3) * Bonus, TRUE)}
        ELSE IF TripGap(problem, Last(target.trips), t) >= 0 THEN {}
        ELSE {[id |-> target.id, cost |-> (-3) * Bonus, keeps |-> FALSE, behind |-> k] : k \in gaps}

\* _forced_preferred_pair_candidate: the block whose last trip is the partner.
PairCandidates(t) ==
    {Candidate(b, t, -Bonus, TRUE) : b \in {b \in Range(AllBlocks) :
        pairs[t] # 0 /\ Last(b.trips) = pairs[t] /\ Fits(b, t)}}

\* _best_candidate: the cheapest active block that is not reserved for the
\* partner of its last trip.
GroupSpanFits(block, t) ==
    \/ ~prm.hardPairs \/ Trip(t).group = 0
    \/ \A u \in GroupOf(problem, t) : Trip(u).en - Trip(block.trips[1]).st <= Span
Reserved(block, t) ==
    LET partner == pairs[Last(block.trips)]
    IN  partner \notin {0, t} /\ Trip(t).st <= Trip(partner).st
SharesGroup(block, t) ==
    Trip(t).group # 0 /\ \E u \in Range(block.trips) : Trip(u).group = Trip(t).group
PairingDelta(block, t) ==
    LET last == Last(block.trips)
    IN  IF SharesGroup(block, t) THEN (-3) * Bonus
        ELSE IF pairs[last] = t THEN -Bonus
        ELSE IF pairs[last] # 0 THEN IF pairs[last] \in Range(block.trips) THEN 0 ELSE Broken
        ELSE IF Trip(last).line # Trip(t).line THEN 0
        ELSE IF IsRoundTrip(problem, last, t) THEN (-2) * Bonus ELSE -(Bonus \div 2)
BestCandidates(t) ==
    LET open == {i \in DOMAIN blocks : /\ ~Reserved(blocks[i], t)
                                       /\ Fits(blocks[i], t)
                                       /\ GroupSpanFits(blocks[i], t)}
        key(i) == LinkCost(Last(blocks[i].trips), t) + EnergyCost(t) + PairingDelta(blocks[i], t)
        best == blocks[FirstLeast(open, key)]
        follows == pairs[Last(best.trips)] = t /\ ~SharesGroup(best, t)
    IN  IF open = {} THEN {} ELSE {Candidate(best, t, PairingDelta(best, t), follows)}

\* What the three searches, tried in this order, find: none or one.
Candidates(t) ==
    IF GroupCandidates(t) # {} THEN GroupCandidates(t)
    ELSE IF PairCandidates(t) # {} THEN PairCandidates(t) ELSE BestCandidates(t)

----------------------------------------------------------------------------
\* Placing the trips.

GreedyInit ==
    /\ problem \in Problems
    /\ pairs = IF problem.prm.window = 0 THEN [t \in TripIds(problem) |-> 0]
               ELSE PreferredPairs(problem, GreedyLayover(problem), problem.prm.window)
    /\ stage = "placing" /\ todo = SortTrips(problem)
    /\ blocks = <<>> /\ closed = <<>> /\ unassigned = {} /\ inserted = {}
    /\ nextId = 1 /\ rounds = 0 /\ changed = FALSE

\* A candidate dearer than a new vehicle is passed over, unless it keeps a
\* pair together or is a split shift.
WantsNew(t) == \A c \in Candidates(t) : c.cost >= ReuseLimit /\ ~c.keeps
FleetFull == prm.limit > 0 /\ Len(blocks) + Len(closed) >= prm.limit

Placing(t) == stage = "placing" /\ todo # <<>> /\ t = Head(todo)
NextTrip == todo' = Tail(todo) /\ UNCHANGED <<problem, pairs, stage, rounds, changed>>

StartDepot(t) == OrElse(Trip(t).depot, problem.depot)
TypeFor(t) == SelectVehicleType(problem.fleet, StartDepot(t))
SocOfNew(t) == IF TypeFor(t).electric THEN TypeFor(t).cap - Trip(t).kwh ELSE NoSoc
Powered(t) == TypeFor(t).electric => SocOfNew(t) >= TypeFor(t).min

OpenBlock(t) ==
    /\ Placing(t) /\ WantsNew(t) /\ ~FleetFull /\ Powered(t)
    /\ blocks' = Append(blocks, [id |-> nextId, trips |-> <<t>>, start |-> StartDepot(t),
                                 end |-> StartDepot(t), soc |-> SocOfNew(t)])
    /\ nextId' = nextId + 1
    /\ UNCHANGED <<closed, unassigned, inserted>> /\ NextTrip

\* No vehicle may take the trip: the fleet is exhausted, or a full battery is
\* not enough (the id of the block that was begun is used up).
LeaveTrip(t) ==
    /\ Placing(t) /\ WantsNew(t)
    /\ \/ FleetFull /\ Candidates(t) = {} /\ nextId' = nextId
       \/ ~FleetFull /\ ~Powered(t) /\ nextId' = nextId + 1
    /\ unassigned' = unassigned \cup {t}
    /\ UNCHANGED <<blocks, closed, inserted>> /\ NextTrip

\* The block with t behind its last trip.
WithTrip(block, t) ==
    [block EXCEPT !.trips = Append(@, t), !.end = OrElse(Trip(t).depot, block.start),
                  !.soc = IF Vehicle.electric THEN SocAfter(block, t) ELSE @]
\* The block with t behind its k-th trip; what is left in its battery is not
\* computed but taken for nothing.
WithTripBehind(block, t, k) ==
    [block EXCEPT !.trips = InsertAt(@, k + 1, t), !.end = OrElse(Trip(t).depot, block.start),
                  !.soc = IF Vehicle.electric THEN 0 ELSE @]
IsOver(block, t) == TripGap(problem, Last(block.trips), t) > Span

\* The trip joins the candidate's block; blocks that ended longer ago than the
\* span are closed.
AppendTrip(t) ==
    /\ Placing(t) /\ Candidates(t) # {}
    /\ WantsNew(t) => FleetFull
    /\ \E c \in Candidates(t) :
         LET Put(b) == IF b.id # c.id THEN b
                       ELSE IF c.behind = 0 THEN WithTrip(b, t) ELSE WithTripBehind(b, t, c.behind)
             open == [i \in DOMAIN blocks |-> Put(blocks[i])]
             over == {i \in DOMAIN open : IsOver(open[i], t)}
         IN  /\ blocks' = Picked(open, DOMAIN open \ over)
             /\ closed' = [i \in DOMAIN closed |-> Put(closed[i])] \o Picked(open, over)
             /\ inserted' = IF c.behind = 0 THEN inserted ELSE inserted \cup {t}
    /\ UNCHANGED <<unassigned, nextId>> /\ NextTrip

----------------------------------------------------------------------------
\* Single trips move to other blocks.

BlockOrder(bs) ==
    LET before(i, j) == \/ Trip(bs[i].trips[1]).st < Trip(bs[j].trips[1]).st
                        \/ Trip(bs[i].trips[1]).st = Trip(bs[j].trips[1]).st /\ bs[i].id < bs[j].id
        order == Sorted(DOMAIN bs, before)
    IN  [i \in DOMAIN order |-> bs[order[i]].id]
\* The blocks of a single trip.
Singles(bs) == Picked(bs, {i \in DOMAIN bs : Len(bs[i].trips) = 1})
At(id) == CHOOSE i \in DOMAIN blocks : blocks[i].id = id
Exists(id) == \E i \in DOMAIN blocks : blocks[i].id = id

EndPlacingOpen ==
    /\ stage = "placing" /\ todo = <<>>
    /\ stage' = "compacting"
    /\ closed' = <<>>
    /\ todo' = IF prm.compact /\ ~Vehicle.electric
               THEN BlockOrder(Singles(blocks)) ELSE <<>>
    /\ UNCHANGED <<problem, pairs, blocks, unassigned, inserted, nextId, rounds, changed>>
EndPlacing ==
    /\ stage = "placing" /\ todo = <<>>
    /\ stage' = "compacting"
    /\ blocks' = AllBlocks /\ closed' = <<>>
    /\ todo' = IF prm.compact /\ ~Vehicle.electric
               THEN BlockOrder(Singles(AllBlocks)) ELSE <<>>
    /\ UNCHANGED <<problem, pairs, unassigned, inserted, nextId, rounds, changed>>

FitsBefore(block, t) ==
    /\ LinkOk(t, block.trips[1])
    /\ Trip(Last(block.trips)).en - Trip(t).st <= Span
    /\ DepotOk(block.end, t)

\* Ways to move trip t: 2 * i - 1 appends it to block i, 2 * i puts it in front.
Moves(id, t) ==
    {2 * i - 1 : i \in {i \in DOMAIN blocks : blocks[i].id # id /\ Fits(blocks[i], t)}}
    \cup {2 * i : i \in {i \in DOMAIN blocks : blocks[i].id # id /\ FitsBefore(blocks[i], t)}}
MoveCost(m, t) ==
    IF m % 2 = 1 THEN LinkCost(Last(blocks[(m + 1) \div 2].trips), t)
    ELSE LinkCost(t, blocks[m \div 2].trips[1])
Moved(m, t) ==
    LET i == (m + 1) \div 2
        b == blocks[i]
        trips == IF m % 2 = 1 THEN Append(b.trips, t) ELSE <<t>> \o b.trips
    IN  [blocks EXCEPT ![i].trips = trips, ![i].start = OrElse(Trip(trips[1]).depot, b.start),
                       ![i].end = OrElse(Trip(Last(trips)).depot, b.end)]

Compact(id) ==
    /\ stage = "compacting" /\ todo # <<>> /\ id = Head(todo)
    /\ todo' = Tail(todo)
    /\ IF Exists(id) /\ Len(blocks[At(id)].trips) = 1 /\ Moves(id, blocks[At(id)].trips[1]) # {}
       THEN LET t == blocks[At(id)].trips[1]
                m == FirstLeast(Moves(id, t), LAMBDA k : MoveCost(k, t))
            IN  blocks' = RemoveAt(Moved(m, t), At(id))
       ELSE UNCHANGED blocks
    /\ UNCHANGED <<problem, pairs, stage, closed, unassigned, inserted, nextId, rounds, changed>>

----------------------------------------------------------------------------
\* Whole blocks are joined, for at most MaxRounds rounds.

MaxRounds == 8

BeginRound ==
    /\ \/ stage = "compacting"
       \/ stage = "stitching" /\ changed /\ rounds < MaxRounds
    /\ todo = <<>> /\ prm.stitch /\ ~Vehicle.electric
    /\ stage' = "stitching" /\ todo' = BlockOrder(blocks)
    /\ rounds' = rounds + 1 /\ changed' = FALSE
    /\ UNCHANGED <<problem, pairs, blocks, closed, unassigned, inserted, nextId>>

\* Block b may run behind block a.  (The span is read again here, without the
\* rule that makes a non-positive one unlimited.)
Stitches(a, b) ==
    LET last == Last(a.trips)
        first == b.trips[1]
        gap == TripGap(problem, last, first)
    IN  /\ a.id # b.id
        /\ gap >= 0 /\ gap <= prm.stitchGap
        /\ Trip(Last(b.trips)).en - Trip(a.trips[1]).st <= prm.span
        /\ LinkOk(last, first)
        /\ prm.sameDepot => a.start = 0 \/ b.start \in {0, a.start}
        /\ IF InSplitWindow(gap) THEN prm.splits
           ELSE LinkCost(last, first) < ReuseLimit

Stitch(id) ==
    /\ stage = "stitching" /\ todo # <<>> /\ id = Head(todo)
    /\ todo' = Tail(todo)
    /\ LET a == blocks[At(id)]
           order == BlockOrder(blocks)
           targets == {k \in DOMAIN order : Stitches(a, blocks[At(order[k])])}
           gap(k) == TripGap(problem, Last(a.trips), blocks[At(order[k])].trips[1])
           b == blocks[At(order[FirstLeast(targets, gap)])]
       IN  IF Exists(id) /\ targets # {}
           THEN /\ blocks' = RemoveAt([blocks EXCEPT ![At(id)].trips = @ \o b.trips,
                                                     ![At(id)].end = b.end], At(b.id))
                /\ changed' = TRUE
           ELSE UNCHANGED <<blocks, changed>>
    /\ UNCHANGED <<problem, pairs, stage, closed, unassigned, inserted, nextId, rounds>>

Planned ==
    /\ todo = <<>>
    /\ \/ stage = "compacting" /\ (~prm.stitch \/ Vehicle.electric)
       \/ stage = "stitching" /\ (~changed \/ rounds = MaxRounds)
    /\ stage' = "planned"
    /\ UNCHANGED <<problem, pairs, todo, blocks, closed, unassigned, inserted, nextId, rounds, changed>>

GreedyNext ==
    \/ \E t \in TripIds(problem) : OpenBlock(t) \/ LeaveTrip(t) \/ AppendTrip(t)
    \/ EndPlacing
    \/ \E id \in 1..nextId : Compact(id) \/ Stitch(id)
    \/ BeginRound
    \/ Planned

----------------------------------------------------------------------------
\* Properties.

\* Where trip t is: the block's place and the place in the block.
Places(t, bs) ==
    UNION {{<<i, k>> : k \in {k \in DOMAIN bs[i].trips : bs[i].trips[k] = t}} : i \in DOMAIN bs}

\* Whatever loop is at work, a trip waits to be placed, or is in exactly one
\* block and once, or is reported as unassigned: moving single trips and
\* joining blocks neither loses nor doubles one.
TripsOnce ==
    \A t \in TripIds(problem) :
        Cardinality(Places(t, AllBlocks)) + (IF t \in unassigned THEN 1 ELSE 0)
          + (IF stage = "placing" /\ t \in Range(todo) THEN 1 ELSE 0) = 1

\* Trip b may directly follow trip a.  Around a trip that was put in the middle
\* of a block nobody compared the lines.
Follows(a, b) ==
    /\ IsConnectionFeasible(problem, GreedyView, a, b) /\ IdleOk(a, b)
    /\ LineOk(a, b) \/ {a, b} \cap inserted # {}

\* Every block can be driven as the request demands: each trip follows the
\* one before it within its time, line and idle limits, and the block as a
\* whole stays within the span - also after trips were put in front of it or
\* in its middle and other blocks behind it.  (A trip in the middle is held to
\* every limit but the one on lines, which the code does not look at there.)
BlocksRun ==
    \A b \in Range(AllBlocks) :
        /\ \A i \in 1..Len(b.trips) - 1 : Follows(b.trips[i], b.trips[i + 1])
        /\ Len(b.trips) > 1 => SpreadOf(problem, b.trips) <= Span

\* No trip was put in the middle of the block.
Untouched(block) == Range(block.trips) \cap inserted = {}

\* The fleet limit holds although closed blocks no longer take part in the
\* search for a candidate.
FleetWithinLimit == prm.limit > 0 => Len(AllBlocks) <= prm.limit

\* Under same_depot_required no block mixes depots, whichever loop put its
\* trips together.  (A block that began at an unknown depot may, and so may one
\* with a trip put in its middle: that trip's depot is not looked at, and moves
\* the end of the block that later trips are compared with.)
OneDepot ==
    prm.sameDepot /\ (problem.depot # 0 \/ \A t \in TripIds(problem) : Trip(t).depot # 0) =>
        \A b \in Range(AllBlocks) :
            Untouched(b) => \A t \in Range(b.trips) : Trip(t).depot \in {0, b.start}

\* In an electric fleet of one type the charge a block records is the charge
\* a replay of its trips from a full battery arrives at, and the replay never
\* falls below the minimum (of a block with a trip in its middle the code
\* forgets the charge).
Replay(block) ==
    LET charges(i) == /\ TripGap(problem, block.trips[i - 1], block.trips[i]) > 0
                      /\ Trip(block.trips[i]).depot \in {block.start} \ {0}
        gained(i) == Vehicle.rate * TripGap(problem, block.trips[i - 1], block.trips[i])
        level[i \in DOMAIN block.trips] ==
          (IF i = 1 THEN Vehicle.cap
           ELSE IF charges(i) THEN Min2(Vehicle.cap, level[i - 1] + gained(i)) ELSE level[i - 1])
            - Trip(block.trips[i]).kwh
    IN  level
BatteryLasts ==
    Vehicle.electric /\ Range(problem.fleet) = {Vehicle} =>
        \A b \in Range(AllBlocks) : Untouched(b) =>
            /\ \A i \in DOMAIN b.trips : Replay(b)[i] >= Vehicle.min
            /\ b.soc = Replay(b)[Len(b.trips)]

\* Fleet limit, depots and batteries, the limits no single connection shows,
\* hold through placing, compaction and stitching.
LimitsHold == FleetWithinLimit /\ OneDepot /\ BatteryLasts
=============================================================================
