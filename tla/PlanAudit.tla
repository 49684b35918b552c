------------------------------ MODULE PlanAudit ------------------------------
(***************************************************************************)
(* The audit of a plan (services/hard_constraint_validator.py): the issues *)
(* a request and a solved plan can have.  Issues the validator counts as   *)
(* soft whatever the request (a missing or misplaced rest) are left out.   *)
(*                                                                         *)
(* A plan is [blocks, duties, left, bare]:                                 *)
(*   blocks  sequence of [id, trips]                                       *)
(*   duties  sequence of [id, tasks, roster, drive], a task being          *)
(*           [trips, src] with the id of the block it was cut from, drive  *)
(*           the longest driving without a break that the crew solver noted*)
(*   left    the trips the plan reports as unassigned                      *)
(*   bare    the blocks it reports as not covered by a duty                *)
(* Trips have, beside what TripLinks reads, hand (a relief point).         *)
(***************************************************************************)
EXTENDS TripLinks

Links(s) == {<<s[i], s[i + 1]>> : i \in 1..Len(s) - 1}
StartOf(P, s) == P.trips[s[1]].st
EndOf(P, s) == P.trips[Last(s)].en
LinesOf(P, s) == {P.trips[t].line : t \in Range(s)}
DepotsDiffer(P, s) ==
    LET a == P.trips[s[1]].depot   b == P.trips[Last(s)].depot IN a # 0 /\ b # 0 /\ a # b
ByStart(P, S) ==
    Sorted(S, LAMBDA a, b : P.trips[a].st < P.trips[b].st \/ (P.trips[a].st = P.trips[b].st /\ a < b))

TripsOfDuty(d) == UNION {Range(d.tasks[i].trips) : i \in DOMAIN d.tasks}

(* audit_input, without the coordinates and the relief points inside trips *)
InputIssues(P) ==
    {<<"INVALID_TIME_WINDOW", t>> : t \in {u \in TripIds(P) : P.trips[u].en <= P.trips[u].st}}
    \cup {<<"INVALID_TERMINAL_LOOP", t>> : t \in {u \in TripIds(P) : P.trips[u].from = P.trips[u].to}}
    \cup (IF P.prm.cct /\ (P.prm.maxShift > 1440 \/ P.prm.maxDriving > 600 \/ P.prm.rest < 660) THEN {<<"LEGAL">>} ELSE {})

----------------------------------------------------------------------------
\* Vehicles.

Layover(P) == IF P.prm.cct /\ P.prm.enforce THEN Max2(P.prm.layover, P.prm.break) ELSE P.prm.layover
ContiguousPair(P, a, b) ==
    TripGap(P, a, b) = 0 /\ P.trips[a].group # 0 /\ P.trips[a].group = P.trips[b].group

Overlap(P, a, b) == TripGap(P, a, b) < 0
IdleTooLong(P, a, b) == P.prm.maxIdle > 0 /\ TripGap(P, a, b) > P.prm.maxIdle
TooTight(P, a, b) ==
    LET gap == TripGap(P, a, b) IN
    \/ P.prm.enforce /\ 0 < gap /\ gap < Layover(P)
    \/ gap >= 0 /\ gap + P.prm.tol < Max2(Layover(P), Deadhead(P, a, b))
LinkFails(P, a, b) ==
    ~ContiguousPair(P, a, b) /\ (Overlap(P, a, b) \/ IdleTooLong(P, a, b) \/ TooTight(P, a, b))

BlockIssues(P, s) ==
    {<<"LINK", l>> : l \in {k \in Links(s) : LinkFails(P, k[1], k[2])}}
    \cup (IF ~P.prm.multiLine /\ Cardinality(LinesOf(P, s)) > 1 THEN {<<"BLOCK_MULTI_LINE", s>>} ELSE {})
    \cup (IF P.prm.sameDepot /\ DepotsDiffer(P, s) THEN {<<"BLOCK_SAME_DEPOT", s>>} ELSE {})

----------------------------------------------------------------------------
\* Duties and rosters.

DutyTrips(P, d) == ByStart(P, TripsOfDuty(d))
DutyStart(P, d) == StartOf(P, d.tasks[1].trips)
DutyEnd(P, d) == EndOf(P, Last(d.tasks).trips)

\* Where one driver may take over from another.
ChangeAllowed(P, a, b) ==
    \/ /\ P.trips[a].to = P.trips[b].from
       /\ P.prm.terminals = {} \/ P.trips[a].to \in P.prm.terminals
    \/ P.trips[a].depot # 0 /\ P.trips[a].depot = P.trips[b].depot
    \/ P.prm.reliefs /\ (P.trips[a].hand \/ P.trips[b].hand)

TaskGap(P, k, l) == StartOf(P, l.trips) - EndOf(P, k.trips)
BadChange(P, k, l) == P.prm.terminalsOnly /\ ~ChangeAllowed(P, Last(k.trips), l.trips[1])

DutyIssues(P, d) ==
    LET all == DutyTrips(P, d)
        tight == {l \in Links(all) : TripGap(P, l[1], l[2]) \in 1..P.prm.break - 1}
    IN  (IF P.prm.cct /\ DutyEnd(P, d) - DutyStart(P, d) > P.prm.maxShift
           THEN {<<"SPREAD_EXCEEDED", d.id>>} ELSE {})
        \cup (IF P.prm.cct /\ d.drive > P.prm.maxDriving THEN {<<"MAX_DRIVING_EXCEEDED", d.id>>} ELSE {})
        \cup (IF P.prm.cct /\ P.prm.enforce THEN {<<"DUTY_MIN_INTERVAL", l>> : l \in tight} ELSE {})
        \cup (IF P.prm.sameDepot /\ DepotsDiffer(P, all) THEN {<<"DUTY_SAME_DEPOT", d.id>>} ELSE {})
        \cup (IF P.prm.singleLine /\ Cardinality(LinesOf(P, all)) > 1 THEN {<<"DUTY_MULTI_LINE", d.id>>} ELSE {})
        \cup {<<"DUTY_OVERLAP", l>> : l \in {k \in Links(d.tasks) : TaskGap(P, k[1], k[2]) < 0}}
        \cup {<<"OPERATOR_CHANGE", l>> : l \in {k \in Links(d.tasks) : BadChange(P, k[1], k[2])}}

\* Two duties that share a block: the driver changes between them.
Entries(plan, src) ==
    {e \in (DOMAIN plan.duties) \X (1..3) :
        e[2] \in DOMAIN plan.duties[e[1]].tasks /\ plan.duties[e[1]].tasks[e[2]].src = src}
HandoffIssues(P, plan) ==
    LET task(e) == plan.duties[e[1]].tasks[e[2]]
        begins(e) == StartOf(P, task(e).trips)
        order(src) == Sorted(Entries(plan, src),
                             LAMBDA e, f : begins(e) < begins(f) \/ (begins(e) = begins(f) /\ e[1] < f[1]))
        bad(l) == /\ l[1][1] # l[2][1]
                  /\ TaskGap(P, task(l[1]), task(l[2])) < 0 \/ BadChange(P, task(l[1]), task(l[2]))
        sources == UNION {{plan.duties[d].tasks[k].src : k \in DOMAIN plan.duties[d].tasks} : d \in DOMAIN plan.duties}
    IN  IF ~P.prm.terminalsOnly THEN {}
        ELSE {<<"HANDOFF", src>> : src \in {s \in sources : \E l \in Links(order(s)) : bad(l)}}

\* The rest between the duties of one roster.
RosterIssues(P, plan) ==
    LET duties(r) == {d \in DOMAIN plan.duties : plan.duties[d].roster = r}
        start(d) == DutyStart(P, plan.duties[d])
        order(r) == Sorted(duties(r), LAMBDA d, e : start(d) < start(e) \/ (start(d) = start(e) /\ d < e))
        rest(l) == start(l[2]) - DutyEnd(P, plan.duties[l[1]])
        week(m) == m \div 10080
        short(l) == \/ rest(l) < Max2(P.prm.rest, 660)
                    \/ /\ week(start(l[2])) > week(DutyEnd(P, plan.duties[l[1]]))
                       /\ rest(l) < P.prm.weeklyRest
    IN  IF ~P.prm.cct THEN {}
        ELSE {<<"REST", r>> : r \in {q \in {plan.duties[d].roster : d \in DOMAIN plan.duties} :
                                       \E l \in Links(order(q)) : short(l)}}

RostersOfTrip(plan, t) ==
    {plan.duties[d].roster : d \in {e \in DOMAIN plan.duties : t \in TripsOfDuty(plan.duties[e])}}
\* A group is split unless one roster drives every member.
Divided(plan, g) ==
    (\E t \in g : RostersOfTrip(plan, t) = {}) \/ Cardinality(UNION {RostersOfTrip(plan, t) : t \in g}) > 1

MandatorySplit(P, plan, groups) ==
    IF P.prm.hardGroups THEN {<<"MANDATORY_GROUP_SPLIT", g>> : g \in {h \in groups : Divided(plan, h)}} ELSE {}

\* _build_trip_group_audit: the groups of the trips S the plan does not keep together.
SplitGroups(P, plan, S) ==
    {g \in {GroupOf(P, t) \cap S : t \in {u \in S : P.trips[u].group # 0}} :
        Cardinality(g) > 1 /\ Divided(plan, g)}

\* audit_result: the hard issues.
HardIssues(P, plan, groups) ==
    {<<"UNCOVERED_TRIP", t>> : t \in plan.left}
    \cup {<<"UNCOVERED_BLOCK", b>> : b \in plan.bare}
    \cup (UNION {BlockIssues(P, plan.blocks[i].trips) : i \in DOMAIN plan.blocks})
    \cup (UNION {DutyIssues(P, plan.duties[i]) : i \in DOMAIN plan.duties})
    \cup RosterIssues(P, plan) \cup MandatorySplit(P, plan, groups) \cup HandoffIssues(P, plan)
=============================================================================
