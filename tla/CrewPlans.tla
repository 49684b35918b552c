------------------------------ MODULE CrewPlans ------------------------------
(***************************************************************************)
(* The crew solvers of the optimizer: the greedy solver                    *)
(* (src/optimizer/src/algorithms/csp/greedy.py) and the two set-           *)
(* partitioning solvers (csp/set_partitioning.py and                       *)
(* csp/set_partitioning_optimized.py).  Each cuts the blocks into tasks    *)
(* and forms duties; the duties are then merged, tasks are moved between   *)
(* them in passes, and the result is audited and given to drivers.         *)
(*                                                                         *)
(* Scores only rank what is feasible, so which feasible duty a task joins  *)
(* and which columns the integer program selects are choices.  Passes      *)
(* compare plans by a rank whose first components are modelled; its tail   *)
(* (utilisation, idle time, fragmentation...) is a choice.                 *)
(***************************************************************************)
EXTENDS CrewDuties

CONSTANTS CrewRequests,
          Passes      \* moves each improvement pass may make (4 and 5 by default)

VARIABLES phase,      \* "cut", "build", "relief", "soft", "done"
          solver,     \* "greedy", "plain" or "priced": who forms the duties
          todo,       \* tasks not yet in a duty, in order
          duties,
          moves,      \* moves made in the current phase
          rosters

crewVars == <<request, tasks, phase, solver, todo, duties, moves, rosters>>

Has(d) == d.tasks # <<>>
Put(ds, d) == [i \in DOMAIN ds |-> IF ds[i].id = d.id THEN d ELSE ds[i]]
Drop(ds, ids) == SelectSeq(ds, LAMBDA d : d.id \notin ids)
ById(ds, id) == ds[CHOOSE i \in DOMAIN ds : ds[i].id = id]
Ids(ds) == {ds[i].id : i \in DOMAIN ds}
ByFirstStart(ds) == SortBy(ds, FirstStart)
IdsOf(ds) == [i \in DOMAIN ds |-> ds[i].id]

----------------------------------------------------------------------------
\* Merging: acc is [ds, gone], the plan and the duties absorbed so far.

Started(ds) == [ds |-> ds, gone |-> {}]
Remaining(acc) == Drop(acc.ds, acc.gone)
Absorbed(acc, id, both) ==
    IF both = NoDuty THEN acc ELSE [ds |-> Put(acc.ds, both), gone |-> acc.gone \cup {id}]
\* A quick check of b's tasks, and their work, with a.
MayMerge(a, b, work) ==
    /\ Spread(a.tasks \o b.tasks) <= law.maxShift
    /\ Overtime(a.work + work) <= law.overtime

\* _merge_small_duties: consecutive duties of one vehicle, in pairs; a duty
\* that was absorbed is passed over, and so is its pair with the next.
Merged(a, b) == IF MayMerge(a, b, SumOver(DOMAIN b.tasks, LAMBDA i : TaskWork(b.tasks[i]))) THEN AppendAll(a, b.tasks) ELSE NoDuty
MergePair(acc, pair) ==
    IF Range(pair) \cap acc.gone # {} THEN acc
    ELSE Absorbed(acc, pair[2], Merged(ById(acc.ds, pair[1]), ById(acc.ds, pair[2])))
Neighbours(ds) == [i \in 1..Max2(0, Len(ds) - 1) |-> <<ds[i].id, ds[i + 1].id>>]
OfVehicle(ds, b) == ByFirstStart(SelectSeq(ds, LAMBDA d : Sources(d) = {b}))
MergeSameVehicle(ds) ==
    Remaining(FoldLeft(MergePair, Started(ds),
                       FlattenSeq([b \in DOMAIN request.blocks |-> Neighbours(OfVehicle(ds, b))])))

\* _cross_vehicle_merge: a short duty joins the duty nearest in time, after
\* its tasks or before them.  The duty it goes before takes over its tasks and
\* counters but keeps its own list of segments.
Behind(nd, both) ==
    IF both = NoDuty THEN NoDuty ELSE [both EXCEPT !.id = nd.id, !.segs = nd.segs, !.faults = nd.faults]
Joined(nd, sd) ==
    IF FirstStart(sd) >= LastEnd(nd) THEN AppendAll(nd, SortTasks(sd.tasks))
    ELSE IF FirstStart(nd) >= LastEnd(sd) THEN Behind(nd, AppendAll(sd, SortTasks(nd.tasks)))
    ELSE NoDuty
Between(nd, sd) ==
    IF FirstStart(sd) >= LastEnd(nd) THEN FirstStart(sd) - LastEnd(nd) ELSE FirstStart(nd) - LastEnd(sd)
\* The ways to join sd: the host's place among hosts, what they would be, and
\* the time between them.
Ways(acc, sd, hosts) ==
    LET way(i, nd) == [at |-> i, gap |-> Between(nd, sd), both |-> IF MayMerge(nd, sd, sd.work) THEN Joined(nd, sd) ELSE NoDuty]
    IN  {way(i, ById(acc.ds, hosts[i])) : i \in {i \in DOMAIN hosts : hosts[i] \notin acc.gone \cup {sd.id}}}
Nearest(acc, sd, ways) ==
    IF ways = {} THEN acc
    ELSE Absorbed(acc, sd.id, (CHOOSE w \in ways : \A v \in ways :
                                 w.gap < v.gap \/ (w.gap = v.gap /\ w.at <= v.at)).both)
Absorb(hosts, acc, id) ==
    IF id \in acc.gone THEN acc
    ELSE Nearest(acc, ById(acc.ds, id), {w \in Ways(acc, ById(acc.ds, id), hosts) : w.both # NoDuty})
MergeAcrossVehicles(ds) ==
    LET short == SelectSeq(ds, LAMBDA d : d.work < law.minWork)
        normal == SelectSeq(ds, LAMBDA d : d.work >= law.minWork)
    IN  Remaining(FoldLeft(LAMBDA acc, id : Absorb(IdsOf(normal \o short), acc, id),
                           Started(ds), IdsOf(ByFirstStart(short))))
MergeShort(ds) == IF law.minWork > 0 THEN MergeAcrossVehicles(ds) ELSE ds
MergeSmall(ds) == MergeShort(MergeSameVehicle(ds))

----------------------------------------------------------------------------
\* How plans are compared.

\* The known head of _relief_reassignment_rank; the better of two plans is
\* the lower in the order of Components.
SplitOver(S, groups(_)) ==
    LET Split(g) == Cardinality({x \in S : g \in groups(x)}) > 1
    IN  Cardinality({g \in UNION {groups(x) : x \in S} : Split(g)})
RankWith(ds, rs) ==
    [violations |-> Violations(ds), uncovered |-> Cardinality(Uncovered(ds)),
     rest |-> Cardinality({i \in DOMAIN ds : RestMissing(ds[i])}),
     split |-> SplitOver(DOMAIN ds, LAMBDA i : Groups(ds[i])),
     apart |-> SplitOver(DOMAIN rs, LAMBDA r : rs[r].groups),
     extreme |-> Cardinality({i \in DOMAIN ds : Extreme(ds[i])}),
     crew |-> Len(rs), duties |-> Len(ds)]
Rank(ds) == RankWith(ds, RostersOf(ds))
Components == <<"violations", "uncovered", "rest", "split", "apart", "extreme", "crew", "duties">>
Lower(r, s) ==
    \E i \in DOMAIN Components : /\ r[Components[i]] < s[Components[i]]
                                 /\ \A j \in 1..i - 1 : r[Components[j]] = s[Components[j]]

\* _evaluate_relief_candidate_duties: a copy of the plan is sorted by what its
\* segments say, merged and audited.
Normal(ds) ==
    Audited(MergeSmall(SortBy(SortBy(SelectSeq(ds, Has), LAMBDA d : d.id), LAMBDA d : TaskStart(d.segs[1]))))

----------------------------------------------------------------------------
\* Candidates: task i of duty s goes to the end or the start of another duty.

Rest(d, i) == RemoveAt(d.tasks, i)
NoTasks == [id |-> -1, tasks |-> <<>>]
\* What is left of the source: nothing, a duty, or NoDuty if it cannot be one.
Left(d, i) == IF Len(d.tasks) = 1 THEN NoTasks ELSE Rebuild(d.id, Rest(d, i))
Replace(ds, d, new) == SelectSeq([i \in DOMAIN ds |-> IF ds[i].id = d.id THEN new ELSE ds[i]], Has)

Clear(d, k) == LastEnd(d) <= TaskStart(k) \/ TaskEnd(k) <= FirstStart(d)
Handed(ds, s, k, left) ==
    LET hosts == {t \in Range(ds) : t.id # s.id /\ Clear(t, k)}
    IN  IF left = NoDuty THEN {}
        ELSE {Replace(Put(ds, new), s, left) : new \in {Rebuild(t.id, Append(t.tasks, k)) : t \in hosts} \ {NoDuty}}
Moved(ds, s, i) == Handed(ds, s, s.tasks[i], Left(s, i))
Positions(ds) == {p \in Range(ds) \X (1..Len(tasks)) : p[2] <= Len(p[1].tasks)}

\* _task_is_relief_reassignment_candidate
HasHalf(k) == \E i \in DOMAIN tasks[k].pieces : tasks[k].pieces[i].part # 0
ReliefCandidates(ds) == UNION {Moved(ds, p[1], p[2]) : p \in {p \in Positions(ds) : HasHalf(p[1].tasks[p[2]])}}

----------------------------------------------------------------------------
\* Candidates of the soft-issue pass.

GroupsOf(ks) == Over(ks, TaskGroups)
SplitGroups(ds) ==
    {g \in UNION {Groups(d) : d \in Range(ds)} : Cardinality({i \in DOMAIN ds : g \in Groups(ds[i])}) > 1}
AtEdge(d, i) == Len(d.tasks) > 1 /\ i \in {1, Len(d.tasks)}
\* _mandatory_rest_repairable_task_indexes
Rests(left) == left # NoDuty /\ ~RestMissing(left)
Repairable(d, i) ==
    /\ i \in 2..Len(d.tasks) - 1 /\ RestMissing(d)
    /\ Rests(Left(d, i)) /\ ~RestMissing(Seed(d.id, d.tasks[i]))
\* A mutation of SoftSources: a group may stay behind.
SoftSourcesAnyGroup(ds) ==
    {p \in Positions(ds) : TaskGroups(p[1].tasks[p[2]]) \cap SplitGroups(ds) # {} \/ AtEdge(p[1], p[2])}
\* _soft_issue_candidate_sources; whether an edge task is the worse for its
\* duty's utilisation, spread or fragmentation is a choice.  The group of a
\* task must not stay behind.
SoftSources(ds) ==
    {p \in Positions(ds) :
       /\ TaskGroups(p[1].tasks[p[2]]) \cap SplitGroups(ds) # {} \/ AtEdge(p[1], p[2]) \/ Repairable(p[1], p[2])
       /\ TaskGroups(p[1].tasks[p[2]]) \cap GroupsOf(Rest(p[1], p[2])) = {}}

NewId(ds) == 1 + CHOOSE n \in Ids(ds) : \A m \in Ids(ds) : m <= n
Alone(ds, s, k, left) == IF left = NoDuty THEN {} ELSE {Append(Put(ds, left), Seed(NewId(ds), k))}
Dedicated(ds, s, i) ==
    IF Len(s.tasks) > 1 /\ (Extreme(s) \/ Repairable(s, i)) THEN Alone(ds, s, s.tasks[i], Left(s, i)) ELSE {}

\* _soft_issue_reconstruction_bundles: tasks tied by a group stay together;
\* what is neither with the first nor with the last task is one bundle, unless
\* the request names the duty (soft_issue_reconstruction_focus_duty_ids).
Tied(ks, i) ==
    LET grow(S, n) == S \cup {j \in DOMAIN ks : \E l \in S : TaskGroups(ks[j]) \cap TaskGroups(ks[l]) # {}}
    IN  FoldLeft(grow, {i}, ks)
Pick(ks, S) == [n \in 1..Cardinality(S) |-> ks[Sorted(S, LAMBDA i, j : i < j)[n]]]
Focused(d) == d.id \in law.focus
Ties(ks) ==
    LET firsts == Sorted({i \in DOMAIN ks : \A j \in Tied(ks, i) : i <= j}, LAMBDA i, j : i < j)
    IN  [n \in DOMAIN firsts |-> Pick(ks, Tied(ks, firsts[n]))]
BundlesOf(ks, first, last) ==
    LET middle == DOMAIN ks \ (first \cup last)
    IN  IF first = last THEN <<Pick(ks, first)>>
        ELSE <<Pick(ks, first)>> \o (IF middle = {} THEN <<>> ELSE <<Pick(ks, middle)>>) \o <<Pick(ks, last)>>
Bundles(d) ==
    IF Focused(d) THEN Ties(d.tasks) ELSE BundlesOf(d.tasks, Tied(d.tasks, 1), Tied(d.tasks, Len(d.tasks)))

\* _soft_issue_allocate_reconstruction_bundles and ..._build_compact_dedicated_duties:
\* a bundle goes into a duty that can take it, else with others into new duties.
Larger(ds, bundle) == {Rebuild(d.id, d.tasks \o bundle) : d \in Range(ds)} \ {NoDuty}
Shelve(c, bundle, larger) ==
    IF larger = {} THEN {[c EXCEPT !.wait = Append(@, bundle)]} ELSE {[c EXCEPT !.ds = Put(@, d)] : d \in larger}
Allocate(S, bundle) == UNION {Shelve(c, bundle, Larger(c.ds, bundle)) : c \in S}
Hire(c, own, larger) ==
    IF own = NoDuty THEN {}
    ELSE {[c EXCEPT !.new = Put(@, d)] : d \in larger} \cup {[c EXCEPT !.new = Append(@, own), !.next = @ + 1]}
Employ(S, bundle) == UNION {Hire(c, Rebuild(c.next, bundle), Larger(c.new, bundle)) : c \in S}
Staffed(c) ==
    {c.ds \o e.new : e \in FoldLeft(Employ, {[new |-> <<>>, next |-> c.next]}, c.wait)}
Settled(ds, bundles, next) ==
    UNION {Staffed(c) : c \in FoldLeft(Allocate, {[ds |-> ds, wait |-> <<>>, next |-> next]}, bundles)}
\* _soft_issue_extreme_reconstruction_candidate: all bundles go elsewhere.
Reconstructed(ds, s) ==
    IF Extreme(s) THEN Settled(Drop(ds, {s.id}), Bundles(s), NewId(ds)) ELSE {}
\* _soft_issue_trimmed_reconstruction_candidate: a named duty keeps some in the
\* middle, and at least two go elsewhere.
Trim(ds, s, bundles, l, r) ==
    LET kept == Rebuild(s.id, FlattenSeq(SubSeq(bundles, l + 1, Len(bundles) - r)))
        gone == SubSeq(bundles, 1, l) \o SubSeq(bundles, Len(bundles) - r + 1, Len(bundles))
    IN  IF kept = NoDuty THEN {} ELSE {Append(new, kept) : new \in Settled(Drop(ds, {s.id}), gone, NewId(ds))}
Trimmed(ds, s) ==
    LET n == Len(Bundles(s))
    IN  IF ~Extreme(s) \/ ~Focused(s) THEN {}
        ELSE UNION {Trim(ds, s, Bundles(s), cut[1], cut[2]) :
                      cut \in {c \in (0..n) \X (0..n) : c[1] + c[2] \in 2..n - 1}}

----------------------------------------------------------------------------
\* Forming duties.

CrewInit ==
    /\ request \in CrewRequests
    /\ tasks = <<>> /\ phase = "cut" /\ solver = request.solver
    /\ todo = <<>> /\ duties = <<>> /\ moves = 0 /\ rosters = <<>>

\* prepare_tasks
PrepareTasks ==
    /\ phase = "cut" /\ phase' = "build"
    /\ tasks' = Cut
    /\ todo' = [k \in DOMAIN tasks' |-> k]
    /\ UNCHANGED <<request, solver, duties, moves, rosters>>

Building(s) == phase = "build" /\ solver \in s /\ todo # <<>> /\ UNCHANGED <<request, tasks, phase, moves, rosters>>
Driven(ds) == UNION {Over(ds[i].tasks, TaskTrips) : i \in DOMAIN ds}
Takers(k) == {d \in Range(duties) : CanExtend(d, k)}

\* GreedyCSP.solve: a task with a trip already driven is skipped, ...
SkipTask ==
    /\ Building({"greedy"}) /\ TaskTrips(Head(todo)) \cap Driven(duties) # {}
    /\ todo' = Tail(todo) /\ UNCHANGED <<solver, duties>>
\* ... another joins a duty it can extend, whichever scores best, ...
AssignTask ==
    /\ Building({"greedy"}) /\ TaskTrips(Head(todo)) \cap Driven(duties) = {}
    /\ \E d \in Takers(Head(todo)) : duties' = Put(duties, Extend(d, Head(todo)))
    /\ todo' = Tail(todo) /\ UNCHANGED solver
\* ... and begins a new one if there is none.
OpenDuty ==
    /\ Building({"greedy"}) /\ TaskTrips(Head(todo)) \cap Driven(duties) = {} /\ Takers(Head(todo)) = {}
    /\ duties' = Append(duties, Begin(Len(duties) + 1, Head(todo), TaskWork(Head(todo))))
    /\ todo' = Tail(todo) /\ UNCHANGED solver

\* Columns: sequences of tasks in order of start.  _feasible_combo checks each
\* prefix by the greedy rules and its driving by the limits on a piece, ...
Up(ks, n) == SubSeq(ks, 1, n)
FitsPiece(work) == law.minPiece <= work /\ work <= law.maxPiece
FeasibleCombo(ks) ==
    /\ Rebuild(0, ks) # NoDuty
    /\ \A n \in 2..Len(ks) : FitsPiece(SumOver(1..n, LAMBDA i : TaskDrive(ks[i])))
\* ... _feasible_combo_with_tracking its work, night minutes included, and takes
\* what _can_extend says from a cache, where the answer may be that for another
\* duty with the same last task, spread, work and driving since the break.
Straight(ks) == FoldLeft(Extend, Seed(0, ks[1]), Tail(ks))
Key(d) == <<Last(d.tasks), Spread(d.tasks), d.work, d.cont>>
Cached(d, k) ==
    \/ CanExtend(d, k)
    \/ \E S \in SUBSET (1..Last(d.tasks) - 1) :
          LET e == InTurn(0, Append(Sorted(S, Before), Last(d.tasks)))
          IN  e # NoDuty /\ Key(e) = Key(d) /\ CanExtend(e, k)
TrackedCombo(ks) ==
    \A n \in 2..Len(ks) : Cached(Straight(Up(ks, n - 1)), ks[n]) /\ FitsPiece(Straight(Up(ks, n)).work)
\* _jit_fast_feasibility, which is all _spprc_pricing asks of neighbours
FastFeasible(k, l) ==
    LET a == Last(tasks[k].pieces)
        b == tasks[l].pieces[1]
        gap == TaskStart(l) - TaskEnd(k)
    IN  /\ gap >= 0 /\ gap <= law.maxShift /\ gap >= Transfer(k, l)
        /\ TaskDay(l) >= TaskDay(k)
        /\ law.terminalsOnly => To(a) = From(b) \/ (Ride(a).depot # 0 /\ Ride(a).depot = Ride(b).depot)
PricedPath(ks) ==
    LET run(acc, i) == TaskDrive(ks[i]) + IF i > 1 /\ TaskStart(ks[i]) - TaskEnd(ks[i - 1]) >= law.minBreak THEN 0 ELSE acc
        n == Len(ks)
        work == SumOver(DOMAIN ks, LAMBDA i : TaskDrive(ks[i]))
    IN  /\ \A i \in 1..n - 1 : FastFeasible(ks[i], ks[i + 1])
        /\ work <= law.maxPiece /\ work >= law.minPiece
        /\ TaskEnd(ks[n]) + law.pullback - (TaskStart(ks[1]) - law.pullout) <= law.maxShift
        /\ \A m \in 1..n : FoldLeft(run, 0, [i \in 1..m |-> i]) <= law.maxDriving
\* A single task is always a column.
IsColumn(ks) ==
    \/ Len(ks) = 1
    \/ solver = "plain" /\ Len(ks) <= law.maxTasks /\ FeasibleCombo(ks)
    \/ solver = "priced" /\ Len(ks) <= law.maxTasks /\ TrackedCombo(ks)
    \/ solver = "priced" /\ PricedPath(ks)

\* A selected column becomes a duty, split where it cannot be driven; what
\* was before the split is audited at once.
ColumnDuties(ds, ks) ==
    LET grow(acc, k) ==
            LET d == Last(acc) IN
            IF CanExtend(d, k) THEN Append(Front(acc), Extend(d, k))
            ELSE Append(Front(acc) \o Audited(<<d>>), Seed(d.id + 1, k))
    IN  FoldLeft(grow, Append(ds, Seed(Len(ds) + 1, ks[1])), Tail(ks))

\* The integer program covers every task once; its columns are taken one by one.
TakeColumn ==
    /\ Building({"plain", "priced"})
    /\ \E S \in SUBSET Range(todo) :
         LET ks == Sorted(S, Before) IN
         /\ S # {} /\ IsColumn(ks)
         /\ duties' = ColumnDuties(duties, ks)
         /\ todo' = SelectSeq(todo, LAMBDA k : k \notin S)
    /\ UNCHANGED solver
\* No optimal answer, or a task only the slack covers: the greedy solver.
FallBack ==
    /\ Building({"plain", "priced"}) /\ duties = <<>>
    /\ solver' = "greedy" /\ UNCHANGED <<todo, duties>>

----------------------------------------------------------------------------
\* Improving them.

Enter(s, ds) == phase' = s /\ duties' = ds /\ moves' = 0 /\ UNCHANGED <<request, tasks, solver, todo>>

StartRelief ==
    /\ phase = "build" /\ todo = <<>>
    /\ Enter("relief", Normal(MergeSmall(duties))) /\ UNCHANGED rosters

Adopt(s, ds) ==
    /\ phase = s /\ moves < Passes /\ moves' = moves + 1
    /\ duties' = ds /\ UNCHANGED <<request, tasks, phase, solver, todo, rosters>>
\* _relief_reassignment_postopt: a half goes to another duty if the plan is
\* the better for it.  Which of the better plans is taken, and whether a tie
\* in the known head of the rank is better, are choices.
ReliefMove ==
    \E ds \in ReliefCandidates(duties) : \E new \in {Normal(ds)} :
        Adopt("relief", new) /\ ~Lower(Rank(duties), Rank(new))
EndRelief ==
    /\ phase = "relief"
    /\ Enter("soft", Normal(IF moves > 0 THEN MergeSmall(duties) ELSE duties)) /\ UNCHANGED rosters

\* _soft_issue_candidate_accepted: better by rank, or no worse in what is
\* guarded.
Guarded == {"violations", "uncovered", "rest", "split", "apart", "extreme", "crew"}
NoWorse(r, s) == (\A key \in Guarded : r[key] <= s[key]) /\ r.duties <= s.duties + 1
\* A mutation of Acceptable: no more drivers is enough.
AcceptableByCrew(r, s) == ~Lower(s, r) \/ r.crew <= s.crew
Acceptable(r, s) == ~Lower(s, r) \/ NoWorse(r, s)
SoftAdopt(ds) ==
    \E new \in {Normal(ds)} : Adopt("soft", new) /\ Acceptable(Rank(new), Rank(duties))
\* _soft_issue_postopt: a task goes to another duty, ...
SoftMove ==
    \E p \in SoftSources(duties) : \E ds \in Moved(duties, p[1], p[2]) : SoftAdopt(ds)
\* ... to a duty of its own, ...
SoftSplit ==
    \E p \in SoftSources(duties) : \E ds \in Dedicated(duties, p[1], p[2]) : SoftAdopt(ds)
\* ... or its whole duty is taken apart, or all but its middle when no plan
\* without it is accepted (the model may take either).
SoftRebuild ==
    \E p \in SoftSources(duties) :
        /\ AtEdge(p[1], p[2]) /\ Left(p[1], p[2]) # NoDuty
        /\ \E ds \in Reconstructed(duties, p[1]) \cup Trimmed(duties, p[1]) : SoftAdopt(ds)
\* The last audit, and drivers for the duties.
GiveDuties ==
    /\ phase = "soft"
    /\ Enter("done", Audited(duties)) /\ rosters' = RostersOf(duties)

CrewNext ==
    \/ PrepareTasks
    \/ SkipTask \/ AssignTask \/ OpenDuty
    \/ TakeColumn \/ FallBack
    \/ StartRelief \/ ReliefMove \/ EndRelief
    \/ SoftMove \/ SoftSplit \/ SoftRebuild \/ GiveDuties

CrewSpec == CrewInit /\ [][CrewNext]_crewVars

----------------------------------------------------------------------------
\* Properties.

\* Who drives a trip: the duties and places whose pieces are its part.
Rides(t, parts) ==
    {<<i, j>> \in (DOMAIN duties) \X (1..Len(tasks)) :
       /\ j <= Len(duties[i].tasks)
       /\ \E p \in TaskTrips(duties[i].tasks[j]) : p.t = t /\ p.part \in parts}
TimesInBlocks(t) == Cardinality({b \in DOMAIN request.blocks : t \in Range(request.blocks[b])})

\* However blocks are cut, columns split, duties merged and tasks moved or
\* rebuilt, each half of each trip of a vehicle plan that has no trip twice is
\* driven by one duty, and by one only.  Where it has a trip twice, the greedy
\* solver leaves tasks out rather than drive it twice; the set-partitioning
\* solvers, whose columns cover tasks and not trips, drive it once per block.
TripsDrivenOnce ==
    LET apart == \A t \in DOMAIN request.trips : TimesInBlocks(t) <= 1
    IN  phase \notin {"cut", "build"} => \A t \in DOMAIN request.trips : \A parts \in {{0, 1}, {0, 2}} :
            LET n == Cardinality(Rides(t, parts))
            IN  /\ apart => n = TimesInBlocks(t)
                /\ solver = "greedy" => n <= 1

\* The counters of _can_extend and the audit are two computations of the same
\* rules.  Where a break is what both call a break, a duty put together from
\* tasks that are each within the rules is within them.
SameBreaks == law.meal <= law.minBreak /\ law.minBreak <= law.split2 /\ law.minBreak > 0 /\ law.totalUnpaid < 0
AcceptedDutiesPass ==
    SameBreaks => \A i \in DOMAIN duties :
        (\A k \in Range(duties[i].tasks) : Broken(Begin(1, k, TaskWork(k))) = {}) => Broken(duties[i]) = {}

\* A driver's duties, pull-out and pull-in included, are apart by the rest
\* between shifts, and by the weekly rest when a week begins between them.
RostersRest ==
    law.cct => \A r \in DOMAIN rosters : \A i, j \in DOMAIN rosters[r].duties :
        i < j => LET a == duties[rosters[r].duties[i]].tasks
                     b == duties[rosters[r].duties[j]].tasks
                     gap == SpanStart(b) - SpanEnd(a)
                 IN  gap >= law.rest /\ (WeekOf(SpanStart(b)) > WeekOf(SpanStart(a)) => gap >= law.weeklyRest)

\* No accepted move, with the merges that go with it, makes a plan break more
\* rules or leave more blocks without a driver, nor do the merges between the
\* passes where the two computations agree (they ignore totalUnpaid).
PlansNeverWorsen ==
    [][(phase \in {"relief", "soft"} /\ (SameBreaks \/ moves' > moves)) =>
         /\ Violations(duties') <= Violations(duties)
         /\ Uncovered(duties') \subseteq Uncovered(duties)]_crewVars
=============================================================================
