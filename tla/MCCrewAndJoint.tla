---------------------------- MODULE MCCrewAndJoint ----------------------------
(* Requests of both searches. *)
EXTENDS CrewAndJoint

T(st, en, from, to, line, group) ==
    [st |-> st, en |-> en, from |-> from, to |-> to, line |-> line, group |-> group, depot |-> 0,
     mid |-> 0, midAt |-> 0, hand |-> FALSE, point |-> 0, lead |-> 0, trail |-> 0]
Base == [reliefs |-> TRUE, terminals |-> {}, cct |-> TRUE, maxWork |-> 480, breakAfter |-> 270,
         dailyDrive |-> 480, meal |-> 30, enforce |-> TRUE, minBreak |-> 30, pullout |-> 10, pullback |-> 10,
         nightExtra |-> 0, overtime |-> 60, split1 |-> 15, split2 |-> 30, tol |-> 0, layover |-> 0,
         maxUnpaid |-> -1, terminalsOnly |-> FALSE, singleLine |-> FALSE, singleVehicle |-> FALSE,
         maxShift |-> 560, maxDriving |-> 270, extDrive |-> 540, extDays |-> 2, sameDepot |-> FALSE,
         totalUnpaid |-> -1, rest |-> 660, weeklyRest |-> 1440, weekDrive |-> 3360, fortDrive |-> 5400,
         hardGroups |-> FALSE, minWork |-> 0, minPiece |-> 0, maxPiece |-> 480, maxTasks |-> 5, focus |-> {}]
Dead == << <<0, 20>>, <<20, 0>> >>
Request(trips, blocks, p, s) == [trips |-> trips, dead |-> Dead, prm |-> p, blocks |-> blocks, solver |-> s]
Solvers == {"greedy", "plain", "priced"}

\* A long ride on which the driver can be relieved, and short ones around it.
Relieved == << T(0, 240, 1, 2, 1, 0), [T(280, 460, 2, 1, 1, 0) EXCEPT !.mid = 90, !.midAt = 1],
               T(380, 440, 1, 2, 1, 0), T(470, 520, 2, 1, 1, 0) >>
\* Outbound and return rides of two groups, which two vehicles share.
Paired == << T(0, 60, 1, 2, 1, 1), T(100, 160, 2, 1, 1, 2), T(200, 260, 1, 2, 1, 3),
             T(300, 360, 2, 1, 1, 1), T(60, 100, 1, 2, 1, 2), T(420, 480, 1, 2, 1, 1) >>
\* Two short duties of different vehicles, and a ride both plans hold.
Short == << T(0, 60, 1, 2, 1, 0), T(100, 340, 2, 1, 1, 0), T(20, 80, 1, 1, 1, 0), T(430, 470, 1, 2, 1, 0) >>
\* Two rides that need a break between them and have none.
Tight == << T(0, 150, 1, 2, 1, 0), T(170, 320, 2, 1, 1, 0) >>
\* A morning and an evening ride and what lies between.
LongDay == << T(0, 60, 1, 2, 1, 1), T(800, 860, 1, 2, 1, 1), T(300, 360, 2, 1, 1, 0), T(380, 410, 1, 1, 1, 0) >>
\* Nights of several days.
Days == << T(100, 300, 1, 2, 1, 0), T(1600, 1800, 2, 1, 1, 1), T(965, 1060, 1, 2, 1, 0), T(10200, 10400, 1, 2, 1, 1) >>

RelievedRides ==
    {Request(Relieved, << <<1, 2, 4>>, <<3>> >>, p[1], p[2]) :
       p \in {<<[Base EXCEPT !.enforce = FALSE], "plain">>, <<Base, "greedy">>, <<Base, "priced">>,
              <<[Base EXCEPT !.breakAfter = 200, !.tol = 5], "greedy">>, <<[Base EXCEPT !.reliefs = FALSE], "greedy">>}}
PairedRides ==
    {Request(Paired, << <<1, 2, 3, 4>>, <<5, 6>> >>, p, "greedy") :
       p \in {Base, [Base EXCEPT !.minBreak = 40], [Base EXCEPT !.hardGroups = TRUE, !.maxShift = 400],
              [Base EXCEPT !.enforce = FALSE]}}
    \cup {Request(Paired, << <<1, 2, 3, 4>>, <<5, 6>> >>, [Base EXCEPT !.maxTasks = 2, !.minBreak = 40], "plain")}
ShortRides ==
    {Request(Short, b, p, s) :
       b \in { << <<1, 2>>, <<3, 4>> >>, << <<1, 2>>, <<1, 4>>, <<3>> >> },
       p \in {[Base EXCEPT !.minWork = 120],
              [Base EXCEPT !.minWork = 120, !.nightExtra = 50, !.breakAfter = 240, !.enforce = FALSE]},
       s \in Solvers}
    \cup {Request(Tight, << <<1>>, <<2>> >>, [Base EXCEPT !.breakAfter = 240, !.enforce = FALSE], "greedy")}
\* Five rides of one vehicle, which are joined in pairs.
Chained == [i \in 1..5 |-> T(100 * i, 100 * i + 60, 1, 1, 1, 0)]
ChainedRides ==
    {Request(Chained, << <<1, 2, 3, 4, 5>> >>, p, "plain") :
       p \in {[Base EXCEPT !.maxTasks = 1], [Base EXCEPT !.maxTasks = 1, !.totalUnpaid = 170]}}
LongDays ==
    {Request(t, << <<1, 3>>, <<4, 2>> >>, p, s) :
       t \in {LongDay, [LongDay EXCEPT ![1].group = 0]},
       p \in {[Base EXCEPT !.maxShift = 900], [Base EXCEPT !.maxShift = 900, !.maxUnpaid = 300]}, s \in {"greedy", "plain"}}    \cup {Request(LongDay, << <<1>>, <<3>>, <<4, 2>> >>, [Base EXCEPT !.maxShift = 900, !.totalUnpaid = 100], "plain")}
\* Two rides at noon between a morning and an evening one, in a duty the request names.
Named == << T(0, 60, 1, 2, 1, 0), T(300, 330, 2, 1, 1, 0), T(400, 430, 1, 2, 1, 0), T(800, 860, 2, 1, 1, 0), T(500, 530, 1, 1, 1, 0) >>
NamedDuties ==
    {Request(Named, << <<1, 2, 3, 4>>, <<5>> >>, [Base EXCEPT !.maxShift = 900, !.focus = {1}, !.singleVehicle = one], "greedy") :
       one \in BOOLEAN}
\* Two rides alike but for their depots, which the key of the cache leaves out.
Alike ==
    LET at(t, depot) == [t EXCEPT !.depot = depot]
    IN  << at(T(600, 700, 1, 1, 1, 0), 1), at(T(600, 700, 1, 1, 1, 0), 2), T(740, 800, 1, 1, 1, 0), at(T(840, 900, 1, 1, 1, 0), 1) >>
AlikeRides == {Request(Alike, << <<1>>, <<2>>, <<3>>, <<4>> >>, [Base EXCEPT !.sameDepot = TRUE], "priced")}
Nights ==
    {Request(Days, << <<1, 2>>, <<3>>, <<4>> >>, p, "greedy") :
       p \in {Base, [Base EXCEPT !.weeklyRest = 9000], [Base EXCEPT !.weekDrive = 300]}}
MCCrewRequests == RelievedRides \cup PairedRides \cup ShortRides \cup ChainedRides \cup LongDays \cup NamedDuties \cup AlikeRides \cup Nights

-------------------------------------------------------------------------------
Leg(st, en, from, to, line, group) ==
    [st |-> st, en |-> en, from |-> from, to |-> to, line |-> line,
     group |-> group, depot |-> 1, kwh |-> 0, after |-> 0]
\* Rides to and fro, two of them pairs, and one on another line.
Day == << Leg(0, 60, 1, 2, 1, 1), Leg(70, 130, 2, 1, 1, 1), Leg(140, 200, 1, 2, 1, 2),
          Leg(212, 270, 2, 1, 1, 2), Leg(75, 120, 2, 1, 2, 0), Leg(150, 190, 1, 1, 2, 0), Leg(280, 330, 1, 2, 1, 0) >>
EmptyRuns == << <<0, 25>>, <<25, 0>> >>
Rules == [layover |-> 8, break |-> 30, enforce |-> FALSE, tol |-> 0, zeroGap |-> FALSE, strict |-> FALSE,
         span |-> 960, multiLine |-> TRUE, keepPairs |-> TRUE, window |-> 120, hardPairs |-> FALSE,
         maxUnpaid |-> 180]
Fine == [violations |-> 0, people |-> 2, split |-> 0, rest |-> 80]
Poor == [violations |-> 1, people |-> 3, split |-> 1, rest |-> 120]
MCCrews == {Fine, Poor, [Fine EXCEPT !.violations = 1], [Fine EXCEPT !.split = 1, !.rest = 60]}
Asked(blocks, left, p, crew) ==
    [trips |-> Day, dead |-> EmptyRuns, prm |-> p, blocks |-> blocks, left |-> left, crew |-> crew]
Narrow == [Rules EXCEPT !.span = 200, !.multiLine = FALSE, !.keepPairs = FALSE]
MCProblems ==
    {Asked(b, TripIds([trips |-> Day]) \ Range(FlattenSeq(b)), p, c) :
       b \in { << <<1, 2, 3, 4>>, <<5, 6>> >>, << <<1, 5>>, <<2, 3>>, <<4, 7>> >>,
               << <<5, 3>>, <<1, 2>>, <<6, 4, 7>> >>, << <<1, 2, 3, 4, 7>> >>,
               << <<1>>, <<2>>, <<3>>, <<4>> >>, << <<1, 2, 3, 4>>, <<7>> >> },
       p \in {Rules, Narrow, [Rules EXCEPT !.hardPairs = TRUE, !.maxUnpaid = 15, !.span = 200]}, c \in {Fine, Poor}}
===============================================================================
