----------------------------- MODULE ScaleChunks -----------------------------
(***************************************************************************)
(* How the optimizer service solves a request too large for one run        *)
(* (services/optimizer_service.py, _run_decomposed_hybrid): the trips are  *)
(* cut into chunks; each chunk is solved, audited, repaired, solved again  *)
(* with the greedy fallback; if every chunk passed, the results are merged *)
(* under new numbers and the vehicles of different chunks are joined.      *)
(*                                                                         *)
(* A problem is a record as in TripLinks and PlanAudit; beside the audit's *)
(* parameters prm has target, most (trips of a chunk), window, groups (the *)
(* mandatory groups of the request, in its order), pairWindow, strictRun   *)
(* (strict_hard_validation; strict being strict_hard_constraints), and the *)
(* stitching limits stitchGap, span, softSpan.                             *)
(*                                                                         *)
(* Every run, of the request and of a chunk, first gives numbers to the    *)
(* groups it is told to keep or finds (services/trip_group_inference.py);  *)
(* the trips are shared, so the numbers a chunk gives stay.                *)
(***************************************************************************)
EXTENDS SolverAnswers

CONSTANTS Problems, NoPlan

\* Requests as the schemas accept them; a chunk is meant to have a trip at least
\* (_partition_scale_chunks takes max(1, target)).
IsRequest(P) ==
    /\ P = [trips |-> P.trips, dead |-> P.dead, prm |-> P.prm]
    /\ P.trips \in Seq([st : Int, en : Int, from : Int, to : Int, line : Int, group : Int,
                        depot : Int, kwh : Int, after : Int, hand : BOOLEAN])
    /\ P.prm = [x \in DOMAIN P.prm |-> P.prm[x]]
    /\ {"groups", "target", "most", "window", "softSpan"} \subseteq DOMAIN P.prm
    /\ P.prm.groups \in Seq(SUBSET Int)
    /\ P.prm.target \in Nat \ {0} /\ P.prm.most \in Int /\ P.prm.window \in Int
    /\ P.prm.softSpan \in Int
ASSUME RequestsAssumption == \A P \in Problems : IsRequest(P)

VARIABLES
    problem,   \* the request; solving a chunk may give trips a group
    chunks,    \* the chunks: [trips, groups], groups the numbers of the trips
    at,        \* the chunk in turn
    phase,     \* where the service is
    plan,      \* the result of the chunk in turn
    status,    \* how that result came about
    records,   \* the accepted results: [chunk, plan, status]
    failed,    \* the chunks nothing worked for
    merged     \* the answer in the making

scale == <<problem, chunks, at, phase, plan, status, records, failed, merged>>

----------------------------------------------------------------------------
\* inject_trip_group_constraints: what a run of the trips S does to them.

\* materialize_mandatory_trip_groups: a group's trips without a number get the
\* only one its other trips have, or a new one.
GroupNumbered(P, g, n) ==
    LET known == {P.trips[t].group : t \in g \cap TripIds(P)} \ {0}
        number == IF Cardinality(known) = 1 THEN CHOOSE k \in known : TRUE ELSE n
    IN  [P EXCEPT !.trips = [t \in DOMAIN @ |->
            IF t \in g /\ @[t].group = 0 THEN [@[t] EXCEPT !.group = number] ELSE @[t]]]
GroupsNumbered(P, groups, seed) ==
    FoldLeft(LAMBDA Q, i : GroupNumbered(Q, groups[i], seed + 1 - i), P, [i \in DOMAIN groups |-> i])

StrictGroups(P, S) == P.prm.strict /\ \E t \in S : P.trips[t].group # 0
Explicit(P, S) ==
    LET mates(t) == {u \in S : /\ P.trips[u].group = P.trips[t].group
                               /\ StrictGroups(P, S) \/ P.trips[u].line = P.trips[t].line}
    IN  {g \in {mates(t) : t \in {u \in S : P.trips[u].group # 0}} : Cardinality(g) > 1}

\* infer_round_trip_pairs: each trip with the nearest free return of its line.
PairWindow(P) == Max2(5, Min2(OrElse(P.prm.pairWindow, 30), 90))
Returns(P, S, used, t) ==
    {u \in S \ (used \cup {t}) : /\ P.trips[u].line = P.trips[t].line /\ IsRoundTrip(P, t, u)
                                 /\ TripGap(P, t, u) >= 0 /\ TripGap(P, t, u) <= PairWindow(P)}
PairUp(P, S, acc, t) ==
    LET free == Returns(P, S, acc.used, t)
        best == ByStart(P, {u \in free : \A w \in free : P.trips[u].st <= P.trips[w].st})[1]
        bare == P.trips[t].group = 0 /\ P.trips[best].group = 0
    IN  IF t \in acc.used \/ free = {} THEN acc
        ELSE [used |-> acc.used \cup {t, best},
              pairs |-> IF bare THEN Append(acc.pairs, {t, best}) ELSE acc.pairs]
PairsFound(P, S) ==
    LET lineFirst(t, u) == \/ P.trips[t].line < P.trips[u].line
                           \/ P.trips[t].line = P.trips[u].line /\ P.trips[t].st < P.trips[u].st
                           \/ P.trips[t].line = P.trips[u].line /\ P.trips[t].st = P.trips[u].st /\ t < u
    IN  FoldLeft(LAMBDA acc, t : PairUp(P, S, acc, t), [used |-> {}, pairs |-> <<>>], Sorted(S, lineFirst)).pairs

GroupsFound(P, S) ==
    IF Explicit(P, S) = {} THEN PairsFound(P, S) ELSE SetToSeq(Explicit(P, S))
HardPairing(P, S) == P.prm.hardGroups \/ StrictGroups(P, S)
\* The mandatory groups of the run of S, and its trips with their numbers.
Mandatory(P, S, groups) ==
    IF groups # <<>> THEN groups ELSE IF HardPairing(P, S) THEN GroupsFound(P, S) ELSE <<>>
Injected(P, S, groups) == GroupsNumbered(P, Mandatory(P, S, groups), IF groups # <<>> THEN 0 - 9000000 ELSE -1)

\* The request as it is cut.  Groups it only found are kept if they are enforced.
Asked(P) ==
    LET groups == P.prm.groups
        kept == IF groups # <<>> \/ ~P.prm.hardGroups THEN groups ELSE GroupsFound(P, TripIds(P))
    IN  [Injected(P, TripIds(P), groups) EXCEPT !.prm = [@ EXCEPT !.groups = kept]]

----------------------------------------------------------------------------
\* _partition_scale_chunks.

Units(P) == {IF P.trips[t].group = 0 THEN {t} ELSE GroupOf(P, t) : t \in TripIds(P)}

\* The line most of the unit's trips are on, the earliest such.
LineOf(P, u) ==
    LET order == ByStart(P, u)
        times(i) == 0 - Cardinality({t \in u : P.trips[t].line = P.trips[order[i]].line})
    IN  P.trips[order[FirstLeast(DOMAIN order, times)]].line
UnitKey(P, u) ==
    LET first == P.trips[ByStart(P, u)[1]]
    IN  <<LineOf(P, u), first.st \div 1440, first.st \div Max2(60, P.prm.window), first.from, first.to>>
FullKey(P, u) == UnitKey(P, u) \o <<P.trips[ByStart(P, u)[1]].st, CHOOSE t \in u : \A w \in u : t <= w>>
KeyBefore(k, l) == \E i \in DOMAIN k : k[i] < l[i] /\ \A j \in 1..i - 1 : k[j] = l[j]

Most(P) == Max2(P.prm.target, P.prm.most)
ChunkOf(P, S) == [trips |-> S, groups |-> {P.trips[t].group : t \in S} \ {0}]
NoChunk == [out |-> <<>>, cur |-> {}, key |-> <<>>]
Flush(P, acc) ==
    IF acc.cur = {} THEN acc ELSE [out |-> Append(acc.out, ChunkOf(P, acc.cur)), cur |-> {}, key |-> <<>>]
\* A variant: the unit is counted only after it was loaded.
RoomLate(P, acc, u, key) ==
    LET n == Cardinality(acc.cur)
    IN  IF n >= Most(P) \/ (key # acc.key /\ n >= P.prm.target) THEN Flush(P, acc) ELSE acc
Room(P, acc, u, key) ==
    LET n == Cardinality(acc.cur)
    IN  IF n + Cardinality(u) > Most(P) \/ (key # acc.key /\ n >= P.prm.target) THEN Flush(P, acc) ELSE acc
Loaded(acc, u, key) ==
    [acc EXCEPT !.cur = @ \cup u, !.key = IF @ = <<>> THEN key ELSE @]
AddUnit(P, acc, u) ==
    IF Cardinality(u) > Most(P)
      THEN Flush(P, Loaded(Flush(P, acc), u, UnitKey(P, u)))
      ELSE Loaded(Room(P, acc, u, UnitKey(P, u)), u, UnitKey(P, u))

UnitOrder(P) == Sorted(Units(P), LAMBDA u, w : KeyBefore(FullKey(P, u), FullKey(P, w)))
Partition(P) == Flush(P, FoldLeft(LAMBDA acc, u : AddUnit(P, acc, u), NoChunk, UnitOrder(P))).out

\* _restrict_mandatory_groups_to_chunk: the groups of chunk c with the trips S,
\* and the numbers they would still need.
Inside(P, S) == Picked(P.prm.groups, {i \in DOMAIN P.prm.groups : P.prm.groups[i] \subseteq S})
GroupsIn(P, S) == Range(Inside(P, S))
CutsAGroup(P, S) == \E g \in Range(P.prm.groups) : g \cap S # {} /\ ~(g \subseteq S)
Restricted(P, S, c) == GroupsNumbered(P, Inside(P, S), 0 - (10000000 + 100000 * (c - 1)))
\* What a run of chunk c leaves the trips with.
Run(P, S, c) == Injected(Restricted(P, S, c), S, Inside(P, S))

----------------------------------------------------------------------------
\* _repair_split_trip_groups_with_dedicated_blocks: every split group gets a
\* block of its own, the others keep what is left of theirs, in pieces.

GroupRuns(P, g) == Chain(P, View(P), ByStart(P, g))
Pieces(P, block, out) ==
    LET close(acc) == IF acc.cur = <<>> THEN acc ELSE [out |-> Append(acc.out, acc.cur), cur |-> <<>>]
        step(acc, t) == IF t \in out THEN close(acc) ELSE [acc EXCEPT !.cur = Append(@, t)]
    IN  close(FoldLeft(step, [out |-> <<>>, cur |-> <<>>], block.trips)).out
Regrouped(P, p, split) ==
    LET top == First({0 - p.blocks[i].id : i \in DOMAIN p.blocks} \cup {0})
        kept == FlattenSeq([i \in DOMAIN p.blocks |-> Pieces(P, p.blocks[i], UNION split)])
        own == Sorted(split, LAMBDA a, b : First(a) < First(b))
        all == kept \o [i \in DOMAIN own |-> ByStart(P, own[i])]
        named == {[id |-> i - top, trips |-> all[i]] : i \in DOMAIN all}
        start(b) == StartOf(P, b.trips)
    IN  Sorted(named, LAMBDA b, c : start(b) < start(c) \/ (start(b) = start(c) /\ b.id < c.id))
Repairable(P, p, S) == SplitGroups(P, p, S) # {} /\ \A g \in SplitGroups(P, p, S) : GroupRuns(P, g)
Repaired(P, p, S) ==
    IF Repairable(P, p, S) THEN CrewAnswers(P, Regrouped(P, p, SplitGroups(P, p, S)), p.left) ELSE {}

\* A variant that does not look at the blocks without a duty.
PassesDriven(P, p, S) == HardIssues(P, [p EXCEPT !.bare = {}], GroupsIn(P, S)) = {} /\ SplitGroups(P, p, S) = {}
\* _validate_scale_chunk_result.
Passes(P, p, S) == HardIssues(P, p, GroupsIn(P, S)) = {} /\ SplitGroups(P, p, S) = {}
\* A strict run refuses a result with hard issues itself.
Returned(P, p, S) ==
    P.prm.strictRun \/ P.prm.strict => HardIssues(P, p, Range(Mandatory(P, S, Inside(P, S)))) = {}

----------------------------------------------------------------------------
\* _run_decomposed_hybrid.

NoMerge == [blocks |-> <<>>, duties |-> <<>>, partial |-> FALSE]

ScaleInit ==
    /\ problem \in {Asked(P) : P \in Problems}
    /\ chunks = <<>> /\ at = 1 /\ phase = "asked" /\ plan = NoPlan /\ status = "none"
    /\ records = <<>> /\ failed = {} /\ merged = NoMerge

In(p) == phase = p
Trips == chunks[at].trips
Enter(p) == phase' = p /\ UNCHANGED <<problem, chunks, at, plan, status, records, failed, merged>>

\* The run refuses bad input before it cuts the request.
Cut ==
    /\ In("asked") /\ InputIssues(problem) = {}
    /\ chunks' = Partition(problem) /\ phase' = "chunk"
    /\ UNCHANGED <<problem, at, plan, status, records, failed, merged>>
RefuseInput == In("asked") /\ InputIssues(problem) # {} /\ Enter("refused")

\* A mandatory group whose trips are in several chunks ends the whole run.
BeginChunk ==
    /\ In("chunk") /\ at <= Len(chunks) /\ ~CutsAGroup(problem, Trips)
    /\ problem' = Run(problem, Trips, at) /\ phase' = "solve" /\ status' = "completed"
    /\ UNCHANGED <<chunks, at, plan, records, failed, merged>>
GroupCut == In("chunk") /\ at <= Len(chunks) /\ CutsAGroup(problem, Trips) /\ Enter("refused")

Found(p, how) ==
    /\ plan' = p /\ status' = how /\ phase' = "check"
    /\ UNCHANGED <<problem, chunks, at, records, failed, merged>>
Primary ==
    /\ In("solve")
    /\ \E p \in Answers(problem, Trips) : Returned(problem, p, Trips) /\ Found(p, "completed")
PrimaryFails == In("solve") /\ Enter("fallback")

NextChunk == at' = at + 1 /\ phase' = "chunk" /\ plan' = NoPlan /\ status' = "none"
Record(p, how) ==
    /\ records' = Append(records, [chunk |-> at, plan |-> p, status |-> how])
    /\ NextChunk /\ UNCHANGED <<problem, chunks, failed, merged>>
Fail ==
    /\ failed' = failed \cup {at}
    /\ NextChunk /\ UNCHANGED <<problem, chunks, records, merged>>

Accept == In("check") /\ Passes(problem, plan, Trips) /\ Record(plan, status)
RepairedName == IF status = "completed" THEN "completed_repaired" ELSE "fallback_completed_repaired"
RepairChunk ==
    /\ In("check") /\ ~Passes(problem, plan, Trips)
    /\ \E p \in Repaired(problem, plan, Trips) : Passes(problem, p, Trips) /\ Record(p, RepairedName)
RepairFails ==
    \/ ~Repairable(problem, plan, Trips)
    \/ \E p \in Repaired(problem, plan, Trips) : ~Passes(problem, p, Trips)
\* No repair, or one that does not pass either: the fallback, or the end of the chunk.
TurnOrFail == IF status = "completed" THEN Enter("fallback") ELSE Fail
RepairInVain ==
    /\ In("check") /\ ~Passes(problem, plan, Trips)
    /\ RepairFails
    /\ TurnOrFail

\* run_fallback: the greedy run; if it raises, a relaxed greedy solve.
FallbackRuns ==
    /\ In("fallback")
    /\ \E p \in Answers(problem, Trips) : Returned(problem, p, Trips) /\ Found(p, "fallback_completed")
FallbackRaises ==
    /\ In("fallback")
    /\ \E p \in Answers(problem, Trips) :
          /\ plan' = p /\ phase' = "relaxed"
          /\ UNCHANGED <<problem, chunks, at, status, records, failed, merged>>
RelaxedPasses == In("relaxed") /\ Passes(problem, plan, Trips) /\ Found(plan, "fallback_completed")
RelaxedRepaired ==
    /\ In("relaxed") /\ ~Passes(problem, plan, Trips)
    /\ \E p \in Repaired(problem, plan, Trips) : Passes(problem, p, Trips) /\ Found(p, "fallback_completed")
RelaxedFails ==
    /\ In("relaxed") /\ ~Passes(problem, plan, Trips) /\ SplitGroups(problem, plan, Trips) # {}
    /\ RepairFails
    /\ Fail
\* A relaxed result that fails without a split group has no repair: the
\* validation of "no result" raises an error the ladder does not catch.
RelaxedCrashes ==
    /\ In("relaxed") /\ ~Passes(problem, plan, Trips) /\ SplitGroups(problem, plan, Trips) = {}
    /\ Enter("crashed")

SomeFailed == In("chunk") /\ at > Len(chunks) /\ failed # {} /\ Enter("failed")

----------------------------------------------------------------------------
\* _merge_scale_chunk_results.

\* The rosters of a plan in the order its duties name them.
RosterOrder(p) ==
    LET rosters == {p.duties[d].roster : d \in DOMAIN p.duties}
        named(r) == First({d \in DOMAIN p.duties : p.duties[d].roster = r})
    IN  Sorted(rosters, LAMBDA r, s : named(r) < named(s))
Position(s, x) == CHOOSE i \in DOMAIN s : s[i] = x
NextRoster(acc, rosters) == acc.next + Len(rosters)
MergeRecord(acc, r) ==
    LET base == Len(acc.blocks)
        ids == [i \in DOMAIN r.plan.blocks |-> r.plan.blocks[i].id]
        Global(src) == base + Position(ids, src)
        rosters == RosterOrder(r.plan)
        Renumbered(d) ==
            [tasks |-> [k \in DOMAIN d.tasks |-> [d.tasks[k] EXCEPT !.src = Global(@)]],
             roster |-> acc.next + Position(rosters, d.roster) - 1, was |-> d.roster, chunk |-> r.chunk]
    IN  [blocks |-> acc.blocks \o [i \in DOMAIN ids |-> [id |-> base + i, trips |-> r.plan.blocks[i].trips]],
         duties |-> acc.duties \o [i \in DOMAIN r.plan.duties |-> Renumbered(r.plan.duties[i])],
         next |-> NextRoster(acc, rosters)]
Merge ==
    /\ In("chunk") /\ at > Len(chunks) /\ failed = {}
    /\ LET all == FoldLeft(MergeRecord, [blocks |-> <<>>, duties |-> <<>>, next |-> 1], records)
       IN  merged' = [blocks |-> all.blocks, duties |-> all.duties,
                      partial |-> \E i \in DOMAIN records : records[i].status = "fallback_completed"]
    /\ phase' = "stitch"
    /\ UNCHANGED <<problem, chunks, at, plan, status, records, failed>>

----------------------------------------------------------------------------
\* _stitch_scale_blocks.

StitchKey(P, b) == <<StartOf(P, b.trips), EndOf(P, b.trips), b.id>>
StitchOrder(P, blocks) == Sorted(Range(blocks), LAMBDA b, c : KeyBefore(StitchKey(P, b), StitchKey(P, c)))
\* A variant that looks at the gap and the span alone.
MayJoinByTime(P, trips, b) ==
    LET gap == StartOf(P, b.trips) - EndOf(P, trips) IN
    gap \in 0..P.prm.stitchGap /\ (P.prm.span > 0 => EndOf(P, b.trips) - StartOf(P, trips) <= P.prm.span)
MayJoin(P, trips, b) ==
    LET gap == StartOf(P, b.trips) - EndOf(P, trips) IN
    /\ gap >= 0 /\ gap <= P.prm.stitchGap
    /\ P.prm.span > 0 => EndOf(P, b.trips) - StartOf(P, trips) <= P.prm.span
    /\ IsConnectionFeasible(P, View(P), Last(trips), b.trips[1])
\* The gap, and a quarter of what the joined block is over the soft span.
JoinKey(P, trips, b) ==
    LET gap == StartOf(P, b.trips) - EndOf(P, trips)
        long == EndOf(P, b.trips) - StartOf(P, trips)
    IN  <<4 * gap + Max2(0, long - P.prm.softSpan), gap, long, b.id>>
Grow(P, ordered, acc) ==
    LET open == {b \in Range(ordered) : b.id \notin acc.used /\ MayJoin(P, acc.trips, b)}
        best == CHOOSE b \in open : \A c \in open : c = b \/ KeyBefore(JoinKey(P, acc.trips, b), JoinKey(P, acc.trips, c))
    IN  IF open = {} THEN acc
        ELSE [acc EXCEPT !.trips = @ \o best.trips, !.from = Append(@, best.id), !.used = @ \cup {best.id}]
StitchStep(P, ordered, acc, b) ==
    LET begun == [trips |-> b.trips, from |-> <<b.id>>, used |-> acc.used \cup {b.id}]
        grown == FoldLeft(LAMBDA g, x : Grow(P, ordered, g), begun, ordered)
        joined == [id |-> Len(acc.out) + 1, trips |-> ByStart(P, Range(grown.trips)), from |-> Range(grown.from)]
    IN  IF b.id \in acc.used THEN acc ELSE [out |-> Append(acc.out, joined), used |-> grown.used]
Stitched(P, blocks) ==
    LET ordered == StitchOrder(P, blocks)
    IN  FoldLeft(LAMBDA acc, b : StitchStep(P, ordered, acc, b), [out |-> <<>>, used |-> {}], ordered).out

NewId(blocks, old) == CHOOSE i \in DOMAIN blocks : old \in blocks[i].from
Remapped(blocks, d) == [d EXCEPT !.tasks = [k \in DOMAIN d.tasks |-> [d.tasks[k] EXCEPT !.src = NewId(blocks, @)]]]
Times(blocks, t) == SumOver(DOMAIN blocks, LAMBDA i : Cardinality({k \in DOMAIN blocks[i].trips : blocks[i].trips[k] = t}))
CoverageHolds(P, blocks) == \A t \in TripIds(P) : Times(blocks, t) = 1
Stitch ==
    /\ In("stitch")
    /\ LET blocks == Stitched(problem, merged.blocks)
       IN  /\ merged' = [merged EXCEPT !.blocks = blocks,
                           !.duties = [i \in DOMAIN @ |-> Remapped(blocks, @[i])]]
           /\ phase' = IF CoverageHolds(problem, blocks) THEN "done" ELSE "mismatch"
    /\ UNCHANGED <<problem, chunks, at, plan, status, records, failed>>

ScaleNext ==
    \/ Cut \/ RefuseInput \/ BeginChunk \/ GroupCut \/ Primary \/ PrimaryFails
    \/ Accept \/ RepairChunk \/ RepairInVain
    \/ FallbackRuns \/ FallbackRaises \/ RelaxedPasses \/ RelaxedRepaired \/ RelaxedFails \/ RelaxedCrashes
    \/ SomeFailed \/ Merge \/ Stitch
ScaleSpec == ScaleInit /\ [][ScaleNext]_scale

----------------------------------------------------------------------------

\* A number that the run of a chunk gives to a pair it finds.
PairNumber(n) == n < 0 /\ n >= 0 - Len(problem.trips)
Begun(i) == i < at \/ (i = at /\ phase # "chunk")

\* Cutting the request: every trip is in one chunk; no group is in two, and
\* what a chunk's trips are numbered later are its groups or pairs that its
\* own run found; only one group larger than the limit makes a chunk exceed it.
GroupsStayTogether ==
    chunks # <<>> =>
        /\ \A t \in TripIds(problem) : Cardinality({i \in DOMAIN chunks : t \in chunks[i].trips}) = 1
        /\ \A i, j \in DOMAIN chunks : i # j => chunks[i].groups \cap chunks[j].groups = {}
        /\ \A i \in DOMAIN chunks : \A t \in chunks[i].trips :
              LET n == problem.trips[t].group
              IN  n = 0 \/ n \in chunks[i].groups \/ (Begun(i) /\ PairNumber(n))
        /\ \A i \in DOMAIN chunks :
              \/ Cardinality(chunks[i].trips) <= Most(problem)
              \/ \E n \in chunks[i].groups : \A t \in chunks[i].trips : problem.trips[t].group = n

\* What is published drives every trip of the request once, in one block and
\* in one duty, although the merge states that nothing was left out.
PublishedCoversOnce ==
    phase = "done" =>
        \A t \in TripIds(problem) :
            /\ Times(merged.blocks, t) = 1
            /\ SumOver(DOMAIN merged.duties, LAMBDA d : Times(merged.duties[d].tasks, t)) = 1

\* Through both renumberings a task still names the block that holds its trips.
TasksKnowTheirVehicle ==
    \A d \in DOMAIN merged.duties : \A k \in DOMAIN merged.duties[d].tasks :
        LET task == merged.duties[d].tasks[k]
        IN  \E i \in DOMAIN merged.blocks :
               merged.blocks[i].id = task.src /\ Range(task.trips) \subseteq Range(merged.blocks[i].trips)

\* Two duties share a roster after the merge when they did in one chunk's result.
RostersApart ==
    \A d, e \in DOMAIN merged.duties :
        LET x == merged.duties[d]   y == merged.duties[e]
        IN  x.roster = y.roster <=> (x.chunk = y.chunk /\ x.was = y.was)

\* Two computations of one rule: where breaks are enforced, the scheduler takes
\* the tolerance off the layover before it asks for the break, and the audit asks
\* for both in full.
RulesAgree(P) == P.prm.enforce => P.prm.tol = 0 \/ P.prm.layover <= P.prm.break
OfScheduler(P, a, b) ==
    LET gap == TripGap(P, a, b) IN gap >= P.prm.break /\ gap + P.prm.tol >= Max2(P.prm.layover, Deadhead(P, a, b))

\* Joining vehicles of different chunks makes no vehicle drive two trips at once
\* and keeps the limit of its shift.  The audit of the answer finds no connection
\* too short in what the audits of the chunks did not see; where it and the
\* scheduler disagree about the rule, none but those the scheduler takes.
JoinedBlocksRun ==
    phase = "done" =>
        \A i \in DOMAIN merged.blocks :
            LET s == merged.blocks[i].trips IN
            /\ \A l \in Links(s) :
                 \/ ContiguousPair(problem, l[1], l[2])
                 \/ ~TooTight(problem, l[1], l[2])
                 \/ ~RulesAgree(problem) /\ OfScheduler(problem, l[1], l[2])
            /\ \A l \in Links(s) : ~Overlap(problem, l[1], l[2])
            /\ Cardinality(merged.blocks[i].from) > 1 /\ problem.prm.span > 0 => SpreadOf(problem, s) <= problem.prm.span

\* What is published is whole: covered once, and its tasks, vehicles and
\* rosters refer to each other as they did in the chunks.
PublishedWhole == PublishedCoversOnce /\ TasksKnowTheirVehicle /\ RostersApart
=============================================================================
