--------------------------- MODULE PostOptimization ---------------------------
(***************************************************************************)
(* The joint post-optimization of vehicles and crews                       *)
(* (src/optimizer/src/algorithms/joint_opt.py).  From a vehicle plan and   *)
(* its crew plan it derives other vehicle plans (merged blocks, moved      *)
(* trips, relocated tails, repaired pairs, a large neighbourhood search,   *)
(* and blocks split where the crew plan has violations), has the greedy    *)
(* crew solver judge each, and keeps the best.                             *)
(*                                                                         *)
(* A plan is [blocks, left]: blocks is a sequence of [id, trips], left the *)
(* trips without a vehicle.  What the crew solver answers for a plan is a  *)
(* choice among Crews: [violations, people, split, rest], split being the  *)
(* trip groups spread over several rosters.  The cost filters that only save    *)
(* time may reject any candidate.                                          *)
(***************************************************************************)
EXTENDS TripLinks

CONSTANTS Problems,     \* [trips, dead, prm, blocks, left, crew]: what the step is given
          Crews,        \* answers of the crew solver
          TailLimit,    \* candidates kept of each kind (16 by default)
          LnsRounds,    \* rounds of the neighbourhood search (5 by default)
          TriedTrips,   \* trips of a block up to which every place in it is tried (10)
          TriedGaps     \* gaps of a longer block that are tried (5)

\* The given plan drives a trip once; its blocks are not empty.
ASSUME ProblemsAssumption ==
    \A p \in Problems :
        /\ p.trips \in Seq([st : Int, en : Int, from : Int, to : Int, line : Int,
                            group : Int, depot : Int, kwh : Int, after : Int])
        /\ p.blocks \in Seq(Seq(TripIds(p)) \ {<<>>})
        /\ \A i, j \in DOMAIN p.blocks : \A k \in DOMAIN p.blocks[i], l \in DOMAIN p.blocks[j] :
              p.blocks[i][k] = p.blocks[j][l] => i = j /\ k = l
        /\ IsFiniteSet(p.left)
        /\ p.crew.violations \in Nat /\ p.crew.split \in Nat
        /\ p.prm.span \in Nat
ASSUME CrewsAssumption == \A c \in Crews : c.violations \in Nat /\ c.split \in Nat
ASSUME LimitsAssumption == TailLimit \in Nat /\ LnsRounds \in Nat

VARIABLES problem,
          stage,     \* where joint_duty_vehicle_swap is
          plan,      \* the plan it was given, and the trips' preferred partners
          work,      \* the blocks at work: merging, swapping, repairing
          count,     \* swaps of a pass, or rounds left
          cands,     \* candidates not yet judged: [phase, blocks, left]
          seen,      \* signatures of the plans judged
          best,      \* [phase, blocks, left, crew, refs]
          lns        \* the search's own best and the trips it has to insert

vars == <<problem, stage, plan, work, count, cands, seen, best, lns>>

prm == problem.prm
Trip(t) == problem.trips[t]
TripsOf(blocks) == FlattenSeq([i \in DOMAIN blocks |-> blocks[i].trips])
NoEmpty(blocks) == Picked(blocks, {i \in DOMAIN blocks : blocks[i].trips # <<>>})
Numbered(blocks) == [i \in DOMAIN blocks |-> [blocks[i] EXCEPT !.id = i]]

ByTime(S) == Sorted(S, LAMBDA a, b : Trip(a).st < Trip(b).st \/ (Trip(a).st = Trip(b).st /\ a < b))
\* A stable sort of blocks by start, and by id among equals if tied is set.
ByStart(blocks, tied) ==
    LET start(i) == Trip(blocks[i].trips[1]).st
        before(i, j) == \/ start(i) < start(j)
                        \/ start(i) = start(j) /\ tied /\ blocks[i].id < blocks[j].id
                        \/ start(i) = start(j) /\ (~tied \/ blocks[i].id = blocks[j].id) /\ i < j
        order == Sorted(DOMAIN blocks, before)
    IN  [i \in DOMAIN order |-> blocks[order[i]]]
NotRenumbered(blocks) == ByStart(NoEmpty(blocks), TRUE)
Renumber(blocks) == Numbered(ByStart(NoEmpty(blocks), TRUE))
Signature(blocks) == [i \in DOMAIN blocks |-> ByStart(blocks, TRUE)[i].trips]

View == [layover |-> prm.layover, break |-> prm.break, enforce |-> prm.enforce,
         tol |-> prm.tol, zeroGap |-> prm.zeroGap, strict |-> prm.strict]
Lines(block) == {Trip(block[i]).line : i \in DOMAIN block}
SpanOk(block) == prm.span = 0 \/ SpreadOf(problem, block) <= prm.span
\* is_block_feasible with the request's own span and line rule.
Feasible(block) ==
    \/ Len(block) <= 1
    \/ /\ SpanOk(block)
       /\ prm.multiLine \/ Cardinality(Lines(block)) = 1
       /\ Chain(problem, View, block)

----------------------------------------------------------------------------
\* What candidates are compared by.

Pairs == plan.pairs
Adjacent(blocks, a, b) ==
    \E i \in DOMAIN blocks : \E k \in 1..Len(blocks[i].trips) - 1 :
        {blocks[i].trips[k], blocks[i].trips[k + 1]} = {a, b}
PairBreaks(blocks) ==
    Cardinality({a \in TripIds(problem) : a < Pairs[a] /\ ~Adjacent(blocks, a, Pairs[a])})

\* _compute_global_score in units of 50000; crew.rest is what crew members,
\* duties, fragmentation and idle time add to it.
Score(p) == 200 * Cardinality(p.left) + 20 * Len(p.blocks) + 10 * p.crew.violations + p.crew.rest

EasyWin(old, new, worth(_)) ==
    worth(new) < worth(old) /\ Len(new.blocks) <= Len(old.blocks) + 1 /\ new.crew.people <= old.crew.people

\* _is_better_post_opt_candidate
BetterAtAnyPrice(old, new) ==
    \/ EasyWin(old, new, LAMBDA p : p.crew.split)
    \/ EasyWin(old, new, LAMBDA p : PairBreaks(p.blocks))
    \/ Score(new) < Score(old)
IsBetter(old, new) ==
    /\ Cardinality(new.left) <= Cardinality(old.left)
    /\ new.crew.violations <= old.crew.violations
    /\ prm.hardPairs => new.crew.split <= old.crew.split
    /\ BetterAtAnyPrice(old, new)

----------------------------------------------------------------------------
\* Merging adjacent blocks, and moving first trips to the end of others.

Going(s) == stage = s /\ UNCHANGED <<problem, plan>>

Joins(blocks) ==
    {i \in 1..Len(blocks) - 1 : Feasible(blocks[i].trips \o blocks[i + 1].trips)}

\* _try_merge_vsp_blocks.  A pair that does not fit never fits later, so the
\* scan is a sequence of merges of the first pair that fits.
MergeBlocks ==
    /\ Going("merge") /\ Joins(work) # {}
    /\ LET i == CHOOSE i \in Joins(work) : \A j \in Joins(work) : i <= j
       IN  work' = RemoveAt([work EXCEPT ![i].trips = @ \o work[i + 1].trips], i + 1)
    /\ UNCHANGED <<stage, count, cands, seen, best, lns>>

MergesEnd ==
    /\ Going("merge") /\ Joins(work) = {} /\ Len(plan.blocks) >= 2
    /\ work' = ByStart(IF Len(work) < Len(plan.blocks) THEN Numbered(work) ELSE plan.blocks, FALSE)
    /\ stage' = "swap" /\ count' = 0
    /\ UNCHANGED <<cands, seen, best, lns>>

SwappedTwice(acc, p) ==
    IF acc[p[1]].trips = <<>> \/ acc[p[2]].trips = <<>> THEN acc
    ELSE IF ~Feasible(Append(acc[p[1]].trips, acc[p[2]].trips[1])) THEN acc
    ELSE [acc EXCEPT ![p[1]].trips = Append(@, acc[p[2]].trips[1])]
\* One pass over all pairs of blocks; a gap the crew may not have is left.
Swapped(acc, p) ==
    LET b1 == acc[p[1]].trips
        b2 == acc[p[2]].trips
    IN  IF b1 = <<>> \/ b2 = <<>> THEN acc
        ELSE IF ~Feasible(Append(b1, b2[1])) \/ TripGap(problem, Last(b1), b2[1]) > prm.maxUnpaid THEN acc
        ELSE [acc EXCEPT ![p[1]].trips = Append(@, b2[1]), ![p[2]].trips = Tail(@)]
PairsOf(n) == Sorted({p \in (1..n) \X (1..n) : p[1] < p[2]},
                           LAMBDA p, q : p[1] < q[1] \/ (p[1] = q[1] /\ p[2] < q[2]))
SwapPass ==
    /\ Going("swap") /\ count < 5
    /\ LET after == FoldLeft(Swapped, work, PairsOf(Len(work)))
       IN  /\ after # work
           /\ work' = Numbered(NoEmpty(after))
    /\ count' = count + 1
    /\ UNCHANGED <<stage, cands, seen, best, lns>>

----------------------------------------------------------------------------
\* Candidates.

\* _can_append_suffix
CanAppend(block, suffix) ==
    /\ TripGap(problem, Last(block), suffix[1]) >= 0
    /\ IsConnectionFeasible(problem, View, Last(block), suffix[1])
    /\ prm.multiLine \/ Lines(block) = Lines(suffix)
    /\ prm.span = 0 \/ Trip(Last(suffix)).en - Trip(block[1]).st <= prm.span

Candidate(phase, blocks) == [phase |-> phase, blocks |-> blocks, left |-> plan.left]

\* The first TailLimit of a set of [key, blocks], by key.
LessKey(p, q) ==
    \E i \in DOMAIN p.key : p.key[i] < q.key[i] /\ \A j \in 1..i - 1 : p.key[j] = q.key[j]
FirstOf(S, phase) ==
    LET order == Sorted(S, LAMBDA p, q : LessKey(p, q))
    IN  [i \in 1..Min2(TailLimit, Len(order)) |-> Candidate(phase, order[i].blocks)]

\* _generate_tail_relocation_candidates: the last trips of one block move to
\* the end of another.
Tails(seed) ==
    LET base == ByStart(seed[2], TRUE)
        Size(d) == 1..Min2(4, Len(base[d].trips) - 1)
        suffix(d, k) == SubSeq(base[d].trips, Len(base[d].trips) - k + 1, Len(base[d].trips))
        moved(r, d, k) ==
            Renumber([base EXCEPT ![r].trips = ByTime(Range(@ \o suffix(d, k))),
                                  ![d].trips = SubSeq(@, 1, Len(@) - k)])
    IN  {[key |-> <<TripGap(problem, Last(base[c[1]].trips), suffix(c[2], c[3])[1]), 0 - c[3],
                    base[c[1]].id, base[c[2]].id, seed[1]>>,
          blocks |-> moved(c[1], c[2], c[3])]
         : c \in {c \in (DOMAIN base) \X (DOMAIN base) \X (1..4) :
                    /\ c[1] # c[2] /\ c[3] \in Size(c[2])
                    /\ CanAppend(base[c[1]].trips, suffix(c[2], c[3]))}}

\* _generate_split_pair_repair_candidates: a pair broken between the end of one
\* block and the start of another gets a block of its own.
PairRepairsNumbered(seed, number(_)) ==
    LET base == ByStart(seed[2], TRUE)
        Broken == {c \in (DOMAIN base) \X (DOMAIN base) :
                     LET a == Last(base[c[1]].trips)
                         b == base[c[2]].trips[1]
                     IN  /\ base[c[1]].id # base[c[2]].id
                         /\ Pairs[a] = b /\ Trip(a).st <= Trip(b).st
                         /\ Len(base[c[1]].trips) >= 2
                         /\ Feasible(Front(base[c[1]].trips)) /\ Feasible(<<a, b>>)
                         /\ Feasible(Tail(base[c[2]].trips))}
        repaired(c) ==
            LET src == base[c[1]].trips
                Part(i) == IF i = c[1] THEN << [id |-> 0, trips |-> Front(src)],
                                               [id |-> 0, trips |-> <<Last(src), base[c[2]].trips[1]>>] >>
                           ELSE IF i = c[2] THEN << [id |-> 0, trips |-> Tail(base[i].trips)] >>
                           ELSE << base[i] >>
            IN  number(FlattenSeq([i \in DOMAIN base |-> Part(i)]))
    IN  {[key |-> <<1 - Len(base[c[1]].trips), base[c[1]].id, base[c[2]].id, seed[1]>>, blocks |-> repaired(c)]
         : c \in Broken}
PairRepairsUnnumbered(seed) == PairRepairsNumbered(seed, NotRenumbered)
PairRepairs(seed) == PairRepairsNumbered(seed, Renumber)

\* The swapped or merged plan if there is one; it seeds more candidates.
BasePlan == IF count > 0 THEN {Renumber(work)}
            ELSE IF Len(work) < Len(plan.blocks) THEN {work} ELSE {}
Seeds == {<<1, plan.blocks>>} \cup {<<2, b>> : b \in BasePlan}

Propose ==
    /\ Going("swap")
    /\ count < 5 => FoldLeft(Swapped, work, PairsOf(Len(work))) = work
    /\ cands' = SetToSeq({Candidate("swap", b) : b \in BasePlan})
                  \o FirstOf(UNION {Tails(s) : s \in Seeds}, "tail")
                  \o (IF prm.keepPairs THEN FirstOf(UNION {PairRepairs(s) : s \in Seeds}, "pair") ELSE <<>>)
    /\ IF Len(plan.blocks) > 2
       THEN stage' = "destroy" /\ count' = LnsRounds
            /\ lns' = [blocks |-> plan.blocks, left |-> plan.left,
                       violations |-> best.crew.violations, out |-> <<>>]
       ELSE stage' = "judge" /\ count' = 0 /\ UNCHANGED lns
    /\ UNCHANGED <<work, seen, best>>

----------------------------------------------------------------------------
\* _enhanced_large_neighborhood_search: lns.blocks is its best plan, work the
\* one under repair, lns.out the trips still to insert.

\* The dearest blocks go; which they are is a choice, and blocks that share an
\* id go together.
Destroy ==
    /\ Going("destroy") /\ count > 0 /\ count' = count - 1
    /\ \E D \in kSubset(Min2(Len(lns.blocks), Max2(2, (3 * Len(lns.blocks)) \div 10)), DOMAIN lns.blocks) :
         LET gone == {b \in Range(lns.blocks) : \E i \in D : lns.blocks[i].id = b.id}
         IN  /\ work' = Picked(lns.blocks, {i \in DOMAIN lns.blocks : lns.blocks[i] \notin gone})
             /\ lns' = [lns EXCEPT !.out = ByTime(UNION {Range(b.trips) : b \in gone})]
    /\ stage' = "repair" /\ UNCHANGED <<cands, seen, best>>

Nearby(block, t) ==
    \/ TripGap(problem, Last(block), t) >= 0
    \/ LET d == Trip(block[1]).st - Trip(t).en
       IN  Max2(d, 0 - d) <= OrElse(prm.span, 960)
\* _feasible_insertion: what idle time an insertion adds, at the first best place.
AddedIdle(block, t, k) ==
    LET before == TripGap(problem, block[k - 1], t)
        after == TripGap(problem, t, block[k])
    IN  Max2(0, IF k = 1 THEN after
                ELSE IF k = Len(block) + 1 THEN before
                ELSE Max2(0, before) + Max2(0, after) - Max2(0, TripGap(problem, block[k - 1], block[k])))
\* In a long block the ends and the shortest gaps are tried.
Tried(block) ==
    LET gap(k) == TripGap(problem, block[k - 1], block[k])
        shorter(k) == {j \in 2..Len(block) : gap(j) < gap(k) \/ (gap(j) = gap(k) /\ j < k)}
    IN  IF Len(block) <= TriedTrips THEN 1..Len(block) + 1
        ELSE {1, Len(block) + 1} \cup {k \in 2..Len(block) : Cardinality(shorter(k)) < TriedGaps}
Places(block, t) == {k \in Tried(block) : Feasible(InsertAt(block, k, t))}
BestPlace(block, t) == FirstLeast(Places(block, t), LAMBDA k : AddedIdle(block, t, k))
Hosts(t) == {i \in DOMAIN work : Nearby(work[i].trips, t) /\ Places(work[i].trips, t) # {}}
HostCost(i, t) == AddedIdle(work[i].trips, t, BestPlace(work[i].trips, t))

\* _grasp_repair: any host among the cheapest third of the range of costs.
Repair ==
    /\ Going("repair") /\ lns.out # <<>>
    /\ LET t == lns.out[1]
           costs == {HostCost(i, t) : i \in Hosts(t)}
       IN  IF costs = {}
           THEN work' = Append(work, [id |-> Len(work) + 1, trips |-> <<t>>])
           ELSE \E i \in Hosts(t) :
                  /\ 10 * (HostCost(i, t) - Min(costs)) <= 3 * (Max(costs) - Min(costs))
                  /\ work' = [work EXCEPT ![i].trips = InsertAt(@, BestPlace(@, t), t)]
    /\ lns' = [lns EXCEPT !.out = Tail(@)]
    /\ UNCHANGED <<stage, count, cands, seen, best>>

\* What follows in the code, _local_search_2opt, changes nothing: exchanging two
\* tails leaves the sum of the two gaps as it is, and only a smaller sum counts.

\* A plan with more blocks or violations never passes; a dearer one may.  The
\* candidate is built without the trips that had no vehicle.
LnsJudge ==
    /\ Going("repair") /\ lns.out = <<>> /\ stage' = "destroy"
    /\ \/ UNCHANGED lns
       \/ /\ Len(work) <= Len(lns.blocks)
          /\ \E c \in Crews :
               /\ c.violations <= lns.violations
               /\ lns' = [blocks |-> work, left |-> {}, violations |-> c.violations, out |-> <<>>]
    /\ UNCHANGED <<work, count, cands, seen, best>>

LnsEnd ==
    /\ Going("destroy") /\ count = 0
    /\ cands' = Append(cands, [phase |-> "lns", blocks |-> lns.blocks, left |-> lns.left])
    /\ stage' = "judge" /\ UNCHANGED <<work, count, seen, best, lns>>

----------------------------------------------------------------------------
\* Judging, the round of feedback, and the end.

Plan(c, crew) == [phase |-> c.phase, blocks |-> c.blocks, left |-> c.left, crew |-> crew, refs |-> c.blocks]

\* One candidate: judged before, dearer by more than the filters allow, or
\* given to the crew solver and compared with the best.
JudgeFrom(roomy) ==
    /\ cands # <<>> /\ cands' = Tail(cands)
    /\ LET c == cands[1]
           old == Signature(c.blocks) \in seen
       IN  /\ seen' = seen \cup {Signature(c.blocks)}
           /\ \/ UNCHANGED best /\ (old \/ roomy)
              \/ /\ ~old
                 /\ roomy => Len(c.blocks) <= Len(best.blocks) + 1
                 /\ \E crew \in Crews : best' = IF IsBetter(best, Plan(c, crew)) THEN Plan(c, crew) ELSE best
    /\ UNCHANGED <<stage, work, count, lns>>
Judge == Going("judge") /\ JudgeFrom(TRUE)
JudgeFeedback == Going("feedback") /\ JudgeFrom(FALSE)

NeedsFeedback == best.crew.violations > 0

\* The widest inner gap that leaves two trips on both sides.
SplitPoint(block) ==
    LET Inner == 2..Len(block) - 2
        gap(k) == TripGap(problem, block[k], block[k + 1])
    IN  IF \A k \in Inner : gap(k) < 0 THEN Len(block) \div 2
        ELSE FirstLeast(Inner, LAMBDA k : 0 - gap(k))
\* Splits the block named id; all other blocks are the plan's own objects and
\* take their new numbers in the plan as well.
SplitBlock(acc, id) ==
    LET next == acc.top + 1
        Part(b) == IF b.id = id /\ Len(b.trips) >= 4
                   THEN << [b EXCEPT !.trips = SubSeq(@, 1, SplitPoint(b.trips))],
                           [id |-> next, trips |-> SubSeq(b.trips, SplitPoint(b.trips) + 1, Len(b.trips))] >>
                   ELSE <<b>>
        new == Renumber(FlattenSeq([i \in DOMAIN acc.own |-> Part(acc.own[i])]))
        Now(b) == IF \E n \in Range(new) : n.trips = b.trips
                  THEN CHOOSE n \in Range(new) : n.trips = b.trips ELSE b
    IN  IF Len(new) = Len(acc.own) THEN acc
        ELSE [own |-> [i \in DOMAIN acc.own |-> Now(acc.own[i])], top |-> acc.top,
              plans |-> Append(acc.plans, new)]

\* _csp_feedback_candidates, for the blocks of the duties that break rules or
\* work overtime.
Feedback ==
    /\ Going("judge") /\ cands = <<>> /\ NeedsFeedback
    /\ \E ids \in (SUBSET {b.id : b \in Range(best.blocks)}) \ {{}} :
       \E targets \in {q \in [1..Cardinality(ids) -> ids] : IsInjective(q)} :
         LET made == FoldLeft(SplitBlock,
                       [own |-> best.blocks, top |-> Max({b.id : b \in Range(best.blocks)}), plans |-> <<>>],
                       targets)
             Now(b) == IF \E n \in Range(made.own) : n.trips = b.trips
                       THEN CHOOSE n \in Range(made.own) : n.trips = b.trips ELSE b
         IN  /\ cands' = [i \in DOMAIN made.plans |->
                            [phase |-> "feedback", left |-> best.left,
                             blocks |-> [k \in DOMAIN made.plans[i] |-> Now(made.plans[i][k])]]]
             /\ best' = [best EXCEPT !.blocks = made.own]
    /\ stage' = "feedback" /\ UNCHANGED <<work, count, seen, lns>>

Finish ==
    /\ stage \in {"judge", "feedback"} /\ cands = <<>> /\ (stage = "judge" => ~NeedsFeedback)
    /\ stage' = "done" /\ UNCHANGED <<problem, plan, work, count, cands, seen, best, lns>>

\* Fewer than two blocks: there is nothing to do.
Skip ==
    /\ Going("merge") /\ Len(plan.blocks) < 2 /\ work = ByStart(plan.blocks, FALSE)
    /\ stage' = "done" /\ UNCHANGED <<work, count, cands, seen, best, lns>>

\* An exception anywhere: the given plans are handed back.
Fail ==
    /\ stage # "done" /\ Len(plan.blocks) >= 2
    /\ stage' = "done"
    /\ best' = Plan([phase |-> "given", blocks |-> plan.blocks, left |-> plan.left], problem.crew)
    /\ UNCHANGED <<problem, plan, work, count, cands, seen, lns>>

Init ==
    /\ problem \in Problems
    /\ stage = "merge"
    /\ plan = [blocks |-> Numbered([i \in DOMAIN problem.blocks |-> [id |-> 0, trips |-> problem.blocks[i]]]),
               left |-> problem.left,
               pairs |-> IF prm.keepPairs THEN PreferredPairs(problem, prm.layover, prm.window)
                         ELSE [t \in TripIds(problem) |-> 0]]
    /\ work = ByStart(plan.blocks, FALSE)
    /\ count = 0 /\ cands = <<>> /\ seen = {Signature(plan.blocks)}
    /\ best = Plan([phase |-> "given", blocks |-> plan.blocks, left |-> plan.left], problem.crew)
    /\ lns = [blocks |-> <<>>, left |-> {}, violations |-> 0, out |-> <<>>]

Next ==
    \/ Skip \/ MergeBlocks \/ MergesEnd \/ SwapPass \/ Propose
    \/ Destroy \/ Repair \/ LnsJudge \/ LnsEnd
    \/ Judge \/ Feedback \/ JudgeFeedback \/ Finish \/ Fail

Spec == Init /\ [][Next]_vars

----------------------------------------------------------------------------
\* Properties.

SameTrips(blocks) ==
    /\ Range(TripsOf(blocks)) = Range(TripsOf(plan.blocks))
    /\ Len(TripsOf(blocks)) = Len(TripsOf(plan.blocks))

\* Every plan that is compared drives the trips of the given plan, each of them
\* once: merging, swapping, relocating tails, repairing pairs, destroying and
\* repairing blocks and splitting them all move trips between lists.
TripsKept ==
    /\ SameTrips(best.blocks)
    /\ \A c \in Range(cands) : SameTrips(c.blocks)
    /\ stage = "destroy" => SameTrips(lns.blocks)

\* If every trip takes time, a plan whose blocks can be driven is never replaced
\* by one whose blocks cannot, though most of the moves only look at the joint
\* they make.  (audit_input refuses a trip that takes no time: sorting by start
\* would put it behind the one it precedes.)
GivenDrivable ==
    /\ \A t \in TripIds(problem) : Trip(t).st < Trip(t).en
    /\ \A b \in Range(plan.blocks) : Feasible(b.trips)
BlocksStayDrivable ==
    GivenDrivable => \A p \in {best} \cup Range(cands) : \A b \in Range(p.blocks) : Feasible(b.trips)

\* Over the whole sequence of replacements, in which a plan may cost a vehicle
\* more to repair a pair, the crew's violations and the trips without a vehicle
\* never become more, nor do, if groups are mandatory, the groups split over
\* rosters.  (src/optimizer/tests/unit/test_stress_and_postopt.py:199)
PlanNoWorse ==
    /\ best.crew.violations <= problem.crew.violations
    /\ Cardinality(best.left) <= Cardinality(plan.left)
    /\ prm.hardPairs => best.crew.split <= problem.crew.split

\* No two blocks of the answer have one number, by which the answer names
\* vehicles and costs, and the crew's duties name the blocks they were made
\* for.  Left out are a search that rebuilt blocks under numbers in use, and the
\* feedback round: its candidates share the blocks they do not split, with each
\* other and with the best plan, and each numbers them anew, so that in the end
\* two blocks of one plan may have one number.
BlocksNamedApart ==
    stage = "done" =>
        /\ best.phase \notin {"lns", "feedback"} /\ best.crew.violations = 0 =>
             \A i, j \in DOMAIN best.blocks : best.blocks[i].id = best.blocks[j].id => i = j
        /\ best.phase = "feedback" \/ best.crew.violations = 0 => best.refs = best.blocks

\* What a plan's blocks must be for the crew and the costs to be about them:
\* they can be driven, and each number stands for one of them.
BlocksSound == BlocksStayDrivable /\ BlocksNamedApart
=============================================================================
