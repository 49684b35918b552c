----------------------------- MODULE CrewDuties -----------------------------
(***************************************************************************)
(* What the crew solvers of the optimizer share                            *)
(* (src/optimizer/src/algorithms/csp/greedy.py): vehicle blocks are cut    *)
(* into tasks, a duty is extended by a task when the labour rules allow    *)
(* it, a finished duty is audited, and duties are given to drivers.        *)
(*                                                                         *)
(* A request is [trips, dead, prm, blocks, solver].  A trip is             *)
(* [st, en, from, to, line, group, depot, mid, midAt, hand, point, lead,   *)
(* trail] (0 for none): mid minutes after its start the driver can be      *)
(* relieved at terminal midAt; hand and point mark its ends as relief      *)
(* points; lead and trail are its own pull-out and pull-in minutes.        *)
(* Blocks are sequences of trips, named by their index.                    *)
(*                                                                         *)
(* A piece is [t, part]: a whole trip (part 0) or one of its halves (1,    *)
(* 2).  A task is [src, pieces, head, tail], named by its index in tasks;  *)
(* head and tail are the pull-out and pull-in minutes counted with it.     *)
(***************************************************************************)
EXTENDS TripLinks

VARIABLES request, tasks

law == request.prm
Unlimited == 100000

Ride(p) == request.trips[p.t]
Start(p) == Ride(p).st + IF p.part = 2 THEN Ride(p).mid ELSE 0
End(p) == IF p.part = 1 THEN Ride(p).st + Ride(p).mid ELSE Ride(p).en
From(p) == IF p.part = 2 THEN Ride(p).midAt ELSE Ride(p).from
To(p) == IF p.part = 1 THEN Ride(p).midAt ELSE Ride(p).to
\* The first half forgets the group of its trip.
Group(p) == IF p.part = 1 THEN 0 ELSE Ride(p).group
Minutes(p) == End(p) - Start(p)
\* The second half carries on from the first (is_continuation_of).
Continues(a, b) == a.t = b.t /\ a.part = 1 /\ b.part = 2

DriveOf(pieces) == SumOver(DOMAIN pieces, LAMBDA i : Minutes(pieces[i]))
NightMinutes(p) == Cardinality({m \in Start(p)..End(p) - 1 : m % 1440 >= 1320 \/ m % 1440 < 300})
\* _block_regulatory_work: night minutes count nightExtra per cent more.
WorkOfPieces(pieces) ==
    DriveOf(pieces) + IF law.nightExtra = 0 THEN 0
                      ELSE (law.nightExtra * SumOver(DOMAIN pieces, LAMBDA i : NightMinutes(pieces[i]))) \div 100

----------------------------------------------------------------------------
\* Cutting blocks into tasks.

\* _split_trip_for_relief
Halves(t) ==
    LET trip == request.trips[t]
    IN  IF law.reliefs /\ trip.mid > 0 /\ trip.mid < trip.en - trip.st
        THEN <<[t |-> t, part |-> 1], [t |-> t, part |-> 2]>>
        ELSE <<[t |-> t, part |-> 0]>>
InOrder(block) == Sorted(Range(block), LAMBDA a, b : request.trips[a].st < request.trips[b].st
                                                     \/ (request.trips[a].st = request.trips[b].st /\ a < b))
Expand(block) == FlattenSeq([i \in DOMAIN block |-> Halves(InOrder(block)[i])])

Allowed(terminal) == law.terminals = {} \/ terminal \in law.terminals
Hands(p) == p.part = 0 /\ Ride(p).hand
Point(p) == IF p.part = 0 THEN Ride(p).point ELSE 0
\* _is_relief_boundary and _valid_operator_change_boundary
Boundary(a, b) ==
    \/ To(a) = From(b) /\ Allowed(To(a))
    \/ Ride(a).depot # 0 /\ Ride(a).depot = Ride(b).depot
    \/ /\ law.reliefs
       /\ \/ Hands(a) \/ Hands(b)
          \/ Point(a) # 0 /\ Point(a) \in {To(a), From(b)}
          \/ Point(b) # 0 /\ Point(b) \in {To(a), From(b)}

ChunkLimit ==
    IF law.cct THEN Max2(60, Min2(law.maxWork, Min2(law.breakAfter, law.dailyDrive))) ELSE Unlimited
MealTrigger ==
    IF ~law.cct THEN Unlimited
    ELSE IF law.meal > 0 THEN Max2(240, law.breakAfter - law.meal) ELSE law.breakAfter
ShortPause(gap) == law.cct /\ law.enforce /\ gap > 0 /\ gap < law.minBreak
TooMuchWith(drive, next) ==
    drive + next > ChunkLimit \/ (law.meal > 0 /\ drive + next > MealTrigger)

Pair(p, q) == Group(p) # 0 /\ Group(p) = Group(q) /\ Ride(p).line = Ride(q).line
\* prepare_tasks, one block: acc.cur is the task under construction, q the
\* next piece.  A pair that will not fit any more begins a task of its own, ...
Part(acc, q) ==
    IF /\ Pair(Last(acc.cur), q) /\ Boundary(Last(acc.cur), q) /\ Len(acc.cur) > 1
       /\ TooMuchWith(DriveOf(acc.cur), Minutes(q))
    THEN [cur |-> <<Last(acc.cur)>>, out |-> Append(acc.out, Front(acc.cur))] ELSE acc
\* ... and a task ends where the driver may, or must, be relieved.
CutBefore(p, q, drive) ==
    \/ ShortPause(Start(q) - End(p))
    \/ /\ ~Pair(p, q)
       /\ \/ Continues(p, q)
          \/ /\ Boundary(p, q)
             /\ \/ Start(q) - End(p) >= law.minBreak
                \/ drive >= Min2(ChunkLimit, Min2(MealTrigger, law.maxWork))
                \/ TooMuchWith(drive, Minutes(q))
Close(acc, q) ==
    IF CutBefore(Last(acc.cur), q, DriveOf(acc.cur)) THEN [cur |-> <<q>>, out |-> Append(acc.out, acc.cur)]
    ELSE [acc EXCEPT !.cur = Append(@, q)]
CutStep(acc, q) == Close(Part(acc, q), q)
Closed(acc) == Append(acc.out, acc.cur)
CutBlock(ps) == Closed(FoldLeft(CutStep, [cur |-> <<ps[1]>>, out |-> <<>>], Tail(ps)))

\* _make_task.  The buffers go with the pieces that bear the identifier of
\* the vehicle's first and last trip; a second half bears a new one.
TaskOf(b, pieces) ==
    LET block == InOrder(request.blocks[b])
        first == block[1]
        last == block[Len(block)]
        Bears(p, t) == p.t = t /\ p.part # 2
    IN  [src |-> b, pieces |-> pieces,
         head |-> IF Bears(pieces[1], first) THEN OrElse(request.trips[first].lead, law.pullout) ELSE 0,
         tail |-> IF Bears(Last(pieces), last) THEN OrElse(request.trips[last].trail, law.pullback) ELSE 0]

\* The members of s, those with a lower key first.
InOrderOf(s, order) == [i \in DOMAIN order |-> s[order[i]]]
SortBy(s, key(_)) ==
    InOrderOf(s, Sorted(DOMAIN s, LAMBDA i, j : key(s[i]) < key(s[j]) \/ (key(s[i]) = key(s[j]) /\ i < j)))
\* prepare_tasks; tasks are numbered as the solvers take them, by start.
TasksOf(b, cuts) == [i \in DOMAIN cuts |-> TaskOf(b, cuts[i])]
Cut ==
    LET order == SortBy([b \in DOMAIN request.blocks |-> b], LAMBDA b : request.trips[InOrder(request.blocks[b])[1]].st)
    IN  SortBy(FlattenSeq([i \in DOMAIN order |-> TasksOf(order[i], CutBlock(Expand(request.blocks[order[i]])))]),
               LAMBDA task : Start(task.pieces[1]))

----------------------------------------------------------------------------
\* Duties: [id, tasks, segs, work, cont, since, drive, ext, credit, long,
\* faults].  segs are the tasks its trip list was made of; cont and since are
\* the driving and the work since the last break, drive the day's driving,
\* ext the times the daily limit was passed, credit and long the pauses that
\* may add up to a break, faults the violations counted in it so far.

TaskStart(k) == Start(tasks[k].pieces[1])
TaskEnd(k) == End(Last(tasks[k].pieces))
TaskDrive(k) == DriveOf(tasks[k].pieces)
TaskWork(k) == WorkOfPieces(tasks[k].pieces)
TaskDay(k) == TaskStart(k) \div 1440
TaskGroups(k) == {Group(tasks[k].pieces[i]) : i \in DOMAIN tasks[k].pieces} \ {0}
TaskLines(k) == {Ride(tasks[k].pieces[i]).line : i \in DOMAIN tasks[k].pieces}
TaskTrips(k) == Range(tasks[k].pieces)
Before(k, l) == k < l
SortTasks(ks) == Sorted(Range(ks), Before)

Over(ks, f(_)) == UNION {f(ks[i]) : i \in DOMAIN ks}
Groups(d) == Over(d.tasks, TaskGroups)
Sources(d) == {tasks[d.tasks[i]].src : i \in DOMAIN d.tasks}

\* _duty_span_bounds
FullStart(k) == TaskStart(k) - tasks[k].head
FullEnd(k) == TaskEnd(k) + tasks[k].tail
SpanStart(ks) == FullStart(SortTasks(ks)[1])
SpanEnd(ks) == FullEnd(Last(SortTasks(ks)))
Spread(ks) == SpanEnd(ks) - SpanStart(ks)
Overtime(work) == IF law.maxWork <= 0 THEN 0 ELSE Max2(0, work - law.maxWork)

\* A duty begins with task k.  The greedy solver counts the night extension
\* of its first task, the set-partitioning solvers and rebuilt duties do not.
Begin(id, k, work) ==
    [id |-> id, tasks |-> <<k>>, segs |-> <<k>>, work |-> work, cont |-> TaskDrive(k),
     since |-> TaskWork(k), drive |-> work, ext |-> IF work > law.dailyDrive THEN 1 ELSE 0,
     credit |-> 0, long |-> FALSE, faults |-> 0]
Seed(id, k) == Begin(id, k, TaskDrive(k))
FirstStart(d) == TaskStart(d.tasks[1])
LastEnd(d) == TaskEnd(Last(d.tasks))

\* A mutation of Pause: the shorter part of a split break is a break.
PauseShort(d, gap) == [full |-> gap + law.tol >= law.split1, credit |-> 0, long |-> FALSE]
\* _break_resets: what a pause does to the counters.
Pause(d, gap) ==
    LET felt == gap + law.tol
        credit == d.credit + IF felt >= law.split1 THEN felt ELSE 0
        long == d.long \/ felt >= law.split2
        full == felt >= Max2(law.minBreak, law.meal) \/ (credit >= law.split1 + law.split2 /\ long)
    IN  [full |-> full, credit |-> IF full THEN 0 ELSE credit, long |-> ~full /\ long]

\* An interval that is enforced is also the least layover (GreedyCSP.__init__).
Layover == IF law.cct /\ law.enforce THEN Max2(law.layover, law.minBreak) ELSE law.layover
\* A half keeps the deadhead times of its whole trip's destination.
Transfer(k, l) ==
    LET a == Last(tasks[k].pieces)
        b == tasks[l].pieces[1]
    IN  IF Continues(a, b) THEN 0 ELSE Max2(Layover, request.dead[Ride(a).to][From(b)])

\* _apply_block, with the data of _can_extend.
Extended(d, k, pause, drive, work) ==
    [d EXCEPT !.tasks = Append(@, k), !.segs = Append(@, k),
              !.work = @ + work,
              !.cont = drive + IF pause.full THEN 0 ELSE @,
              !.since = work + IF pause.full THEN 0 ELSE @,
              !.drive = @ + work, !.ext = @ + IF d.drive + work > law.dailyDrive THEN 1 ELSE 0,
              !.credit = pause.credit, !.long = pause.long]
Extend(d, k) == Extended(d, k, Pause(d, TaskStart(k) - LastEnd(d)), TaskDrive(k), TaskWork(k))

\* _can_extend: time and place.
Follows(d, k) ==
    LET last == Last(d.tasks)
        a == Last(tasks[last].pieces)
        b == tasks[k].pieces[1]
        gap == TaskStart(k) - TaskEnd(last)
    IN  /\ Over(d.tasks, TaskTrips) \cap TaskTrips(k) = {}
        /\ gap >= 0 /\ ~ShortPause(gap)
        /\ (a.part = 1 \/ b.part = 2) => Continues(a, b) \/ To(a) = From(b)
        /\ TaskDay(k) \in {TaskDay(last), TaskDay(last) + 1}
        /\ law.cct /\ law.maxUnpaid >= 0 => gap <= law.maxUnpaid
        /\ gap + law.tol >= Transfer(last, k)
        /\ law.terminalsOnly => Boundary(a, b)
        /\ ~law.reliefs /\ To(a) # From(b) => Transfer(last, k) <= Layover
        /\ law.singleLine => TaskLines(k) \subseteq Over(d.tasks, TaskLines)
        /\ law.singleVehicle => tasks[k].src \in Sources(d)

\* _can_extend: the labour limits of the duty d would become.
WithinLimits(d, longer) ==
    /\ Spread(longer.tasks) <= law.maxShift
    /\ Overtime(longer.work) <= law.overtime
    /\ longer.cont <= law.maxDriving /\ longer.since <= law.breakAfter
    /\ longer.drive <= law.extDrive
    /\ longer.drive > law.dailyDrive => d.ext < law.extDays

StartDepot(d) == Ride(tasks[d.tasks[1]].pieces[1]).depot
EndDepot(ks) == Ride(Last(tasks[Last(ks)].pieces)).depot
CanExtend(d, k) ==
    /\ Follows(d, k)
    /\ law.cct => WithinLimits(d, Extend(d, k))
    /\ law.sameDepot /\ StartDepot(d) # 0 /\ EndDepot(<<k>>) # 0 => EndDepot(<<k>>) = StartDepot(d)

NoDuty == [id |-> 0]
\* d and then the tasks ks, or NoDuty.
AppendAll(d, ks) ==
    FoldLeft(LAMBDA acc, k : IF acc # NoDuty /\ CanExtend(acc, k) THEN Extend(acc, k) ELSE NoDuty, d, ks)
\* _rebuild_duty_from_tasks
InTurn(id, order) == AppendAll(Seed(id, order[1]), Tail(order))
Rebuild(id, ks) == InTurn(id, SortTasks(ks))

----------------------------------------------------------------------------
\* The audit of a finished duty.

AllPieces(d) == FlattenSeq([i \in DOMAIN d.tasks |-> tasks[d.tasks[i]].pieces])
\* _continuous_drive_stats: only pauses of minBreak interrupt driving.
Longest(all) ==
    LET step(acc, p) == LET run == Minutes(p) + IF Start(p) - acc.last + law.tol >= law.minBreak THEN 0 ELSE acc.run
                        IN  [run |-> run, most |-> Max2(acc.most, run), last |-> End(p)]
    IN  FoldLeft(step, [run |-> 0, most |-> 0, last |-> Start(all[1])], all).most
MaxContinuous(d) == Longest(SortBy(AllPieces(d), Start))

\* build_duty_operational_time_report: a pause counts as the mandatory rest
\* when enough driving precedes it since the last one and some follows.
RestIn(ks) ==
    LET Counts(acc, i) == /\ TaskStart(ks[i + 1]) - TaskEnd(ks[i]) >= Max2(law.minBreak, law.meal)
                          /\ acc.before + TaskDrive(ks[i]) >= law.breakAfter
        step(acc, i) == IF Counts(acc, i) THEN [before |-> 0, found |-> TRUE]
                        ELSE [acc EXCEPT !.before = @ + TaskDrive(ks[i])]
    IN  FoldLeft(step, [before |-> 0, found |-> FALSE], [i \in 1..Len(ks) - 1 |-> i]).found
HasRest(d) == RestIn(SortTasks(d.tasks))
RestMissing(d) == Max2(law.minBreak, law.meal) > 0 /\ ~HasRest(d) /\ MaxContinuous(d) > law.breakAfter

\* finalize_selected_duties, one duty: the rules it breaks.
Broken(d) ==
    LET rule(name, broken) == IF broken THEN {name} ELSE {}
    IN  (IF law.cct
         THEN UNION {rule("spread", Spread(d.tasks) > law.maxShift),
                     rule("driving", MaxContinuous(d) > Min2(law.maxDriving, law.breakAfter)),
                     rule("rest", RestMissing(d)),
                     rule("overtime", Overtime(d.work) > law.overtime),
                     rule("unpaid", law.totalUnpaid >= 0 /\ Spread(d.tasks) - d.work > law.totalUnpaid)}
         ELSE {})
        \cup rule("depot", /\ law.sameDepot /\ StartDepot(d) # 0 /\ EndDepot(d.tasks) # 0
                           /\ StartDepot(d) # EndDepot(d.tasks))
Violations(ds) == SumOver(DOMAIN ds, LAMBDA i : Cardinality(Broken(ds[i])))
\* Each audit adds what it finds to what earlier audits counted in the duty.
Audited(ds) == [i \in DOMAIN ds |-> [ds[i] EXCEPT !.faults = @ + Cardinality(Broken(ds[i]))]]

\* _is_extreme_duty: less than a quarter of a long spread is work.
Extreme(d) == 4 * d.work < Spread(d.tasks) /\ Spread(d.tasks) > 720
Uncovered(ds) == DOMAIN request.blocks \ UNION {Sources(ds[i]) : i \in DOMAIN ds}

----------------------------------------------------------------------------
\* Rosters: [duties, end, week, drive, groups], one driver each.  duties are
\* positions in the plan, drive the driving minutes booked by day of start.

WeekOf(minute) == minute \div 10080
DriveIn(r, days, from) == SumOver({i \in DOMAIN r.drive : r.drive[i][1] \div days = from}, LAMBDA i : r.drive[i][2])

\* A mutation of Compatible: the pull-out is not part of the shift.
CompatibleOnRoad(r, d) ==
    law.cct => LET start == TaskStart(SortTasks(d.tasks)[1])
                   gap == start - r.end
               IN  gap >= law.rest /\ (WeekOf(start) > r.week => gap >= law.weeklyRest)
\* roster_is_compatible
Compatible(r, d) ==
    LET start == SpanStart(d.tasks)
        gap == start - r.end
    IN  law.cct => /\ gap >= law.rest
                   /\ WeekOf(start) > r.week => gap >= law.weeklyRest
                   /\ DriveIn(r, 7, start \div 10080) + d.drive <= law.weekDrive
                   /\ DriveIn(r, 14, start \div 20160) + d.drive <= law.fortDrive

\* The known groups of a duty, and its roster: that of its first known group,
\* else, unless groups are hard, the compatible one that shares most groups
\* and ended last, else a new one.
KnownGroups(acc, d) ==
    SelectSeq([i \in DOMAIN AllPieces(d) |-> Group(AllPieces(d)[i])], LAMBDA g : g \in DOMAIN acc.home)
Shared(acc, d, r) == Cardinality(Groups(d) \cap acc.rosters[r].groups)
Closer(acc, d, r, s) ==
    \/ Shared(acc, d, r) > Shared(acc, d, s)
    \/ /\ Shared(acc, d, r) = Shared(acc, d, s)
       /\ acc.rosters[r].end > acc.rosters[s].end \/ (acc.rosters[r].end = acc.rosters[s].end /\ r < s)
Place(acc, d, known, fits) ==
    IF known # <<>> /\ acc.home[known[1]] \in fits THEN acc.home[known[1]]
    ELSE IF fits = {} \/ (known # <<>> /\ law.hardGroups) THEN Len(acc.rosters) + 1
    ELSE CHOOSE r \in fits : \A s \in fits \ {r} : Closer(acc, d, r, s)
NoRoster == [duties |-> <<>>, end |-> 0, week |-> 0, drive |-> <<>>, groups |-> {}]
Booked(r, n, d, start) ==
    [duties |-> Append(r.duties, n), end |-> SpanEnd(d.tasks), week |-> WeekOf(start),
     drive |-> Append(r.drive, <<start \div 1440, d.drive>>), groups |-> r.groups \cup Groups(d)]
Given(acc, n, d, place) ==
    LET rosters == IF place <= Len(acc.rosters) THEN acc.rosters ELSE Append(acc.rosters, NoRoster)
    IN  [rosters |-> [rosters EXCEPT ![place] = Booked(@, n, d, SpanStart(d.tasks))],
         home |-> acc.home @@ [g \in Groups(d) |-> place]]
Enrol(ds, acc, n) ==
    Given(acc, n, ds[n], Place(acc, ds[n], KnownGroups(acc, ds[n]),
                               {r \in DOMAIN acc.rosters : Compatible(acc.rosters[r], ds[n])}))
RostersOf(ds) ==
    FoldLeft(LAMBDA acc, n : Enrol(ds, acc, n), [rosters |-> <<>>, home |-> <<>>],
             Sorted(DOMAIN ds, LAMBDA i, j : \/ FirstStart(ds[i]) < FirstStart(ds[j])
                                             \/ FirstStart(ds[i]) = FirstStart(ds[j]) /\ ds[i].id < ds[j].id)).rosters
=============================================================================
