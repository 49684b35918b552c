---------------------------- MODULE SolverAnswers ----------------------------
(***************************************************************************)
(* What a solver may answer when it is given a set of trips: chains of     *)
(* trips as blocks; whole blocks, or one block cut in two, as tasks; and   *)
(* duties of tasks that do not overlap.  It may report a trip or a block   *)
(* it could not place, and it may forget a trip.                           *)
(***************************************************************************)
EXTENDS PlanAudit

View(P) == [layover |-> P.prm.layover, break |-> P.prm.break, enforce |-> P.prm.enforce,
            tol |-> P.prm.tol, zeroGap |-> P.prm.zeroGap, strict |-> P.prm.strict]

Partitions(S) ==
    {{{x \in S : f[x] = y} : y \in Range(f)} :
        f \in {h \in [S -> S] : \A x \in S : h[x] <= x /\ h[h[x]] = h[x]}}
First(S) == CHOOSE x \in S : \A y \in S : x <= y
Numbered(P, parts) ==
    LET order == Sorted(parts, LAMBDA a, b : First(a) < First(b))
    IN  [i \in DOMAIN order |-> [id |-> i, trips |-> ByStart(P, order[i])]]
VehicleAnswers(P, S) ==
    {Numbered(P, parts) : parts \in {q \in Partitions(S) : \A u \in q : Chain(P, View(P), ByStart(P, u))}}

Task(block) == [trips |-> block.trips, src |-> block.id]
CutBlock(block, cut) ==
    IF block.id # cut THEN <<Task(block)>>
    ELSE <<[trips |-> <<block.trips[1]>>, src |-> cut], [trips |-> Tail(block.trips), src |-> cut]>>
TasksOf(blocks, bare, cut) ==
    FlattenSeq([i \in DOMAIN blocks |-> IF blocks[i].id \in bare THEN <<>> ELSE CutBlock(blocks[i], cut)])
LongestDrive(P, s) ==
    LET runs == {r \in (DOMAIN s) \X (DOMAIN s) :
                   r[1] <= r[2] /\ \A i \in r[1]..r[2] - 1 : TripGap(P, s[i], s[i + 1]) < P.prm.break}
        drive(r) == WorkOf(P, SubSeq(s, r[1], r[2]))
    IN  CHOOSE d \in {drive(r) : r \in runs} : \A r \in runs : drive(r) <= d
Duty(P, tasks, id, ks, roster) ==
    LET order == Sorted(ks, LAMBDA k, l : StartOf(P, tasks[k].trips) < StartOf(P, tasks[l].trips)
                                          \/ (StartOf(P, tasks[k].trips) = StartOf(P, tasks[l].trips) /\ k < l))
        mine == [i \in DOMAIN order |-> tasks[order[i]]]
    IN  [id |-> id, tasks |-> mine, roster |-> roster,
         drive |-> LongestDrive(P, ByStart(P, UNION {Range(mine[i].trips) : i \in DOMAIN mine}))]
Clash(P, tasks, ks) ==
    \E k, l \in ks : /\ k # l
                     /\ StartOf(P, tasks[k].trips) < EndOf(P, tasks[l].trips)
                     /\ StartOf(P, tasks[l].trips) < EndOf(P, tasks[k].trips)
DutiesOver(P, tasks, one) ==
    {LET order == Sorted(q, LAMBDA a, b : First(a) < First(b))
     IN  [i \in DOMAIN order |-> Duty(P, tasks, i, order[i], IF one THEN 1 ELSE i)] :
        q \in {r \in Partitions(DOMAIN tasks) : \A ks \in r : ~Clash(P, tasks, ks)}}
CrewAnswers(P, blocks, left) ==
    LET plans(bare, cut, one) ==
            {[blocks |-> blocks, duties |-> ds, left |-> left, bare |-> bare] :
               ds \in DutiesOver(P, TasksOf(blocks, bare, cut), one)}
        long == {blocks[i].id : i \in {j \in DOMAIN blocks : Len(blocks[j].trips) > 1}}
        firsts == {blocks[i].id : i \in DOMAIN blocks \cap {1}}
    IN  UNION ({plans({}, 0, TRUE)} \cup {plans({}, cut, FALSE) : cut \in long \cup {0}}
               \cup {plans({b}, 0, FALSE) : b \in firsts})
Solved(P, S, left) == UNION {CrewAnswers(P, blocks, left) : blocks \in VehicleAnswers(P, S)}
Answers(P, S) ==
    Solved(P, S, {}) \cup Solved(P, S \ {First(S)}, {First(S)}) \cup Solved(P, S \ {First(S)}, {})
=============================================================================
