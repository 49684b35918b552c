---------------------------- MODULE MCOptimizerCalls ---------------------------
(* Requests of every size class the pipeline distinguishes, and plans that *)
(* differ in each count it and the service compare; large requests and the *)
(* jobs of the solvers that cut their work; weeks and days whose duties    *)
(* crowd, cross midnight or ask for more operators than there are.         *)
EXTENDS OptimizerCalls

Plain == [trips |-> 120, assignment |-> FALSE, strict |-> FALSE, pairs |-> TRUE,
          force |-> FALSE, maxTrips |-> 400, maxBlocks |-> 2000,
          ilpTrips |-> 1000, ilpBlocks |-> 2000, minWork |-> FALSE, hardPairs |-> FALSE,
          valid |-> TRUE, algorithm |-> "hybrid", noScale |-> FALSE, forceScale |-> FALSE,
          grouped |-> TRUE, strictGroups |-> FALSE, groupsHard |-> FALSE,
          operatorHard |-> FALSE, explicit |-> FALSE, profiles |-> FALSE,
          noFallback |-> FALSE, mode |-> "strict", quality |-> "balanced"]

MCRequests ==
  {Plain,
   [Plain EXCEPT !.trips = 8, !.quality = "optimized"],
   [Plain EXCEPT !.trips = 40, !.pairs = FALSE, !.strict = TRUE, !.quality = "strict"],
   [Plain EXCEPT !.trips = 600, !.minWork = TRUE, !.strict = TRUE, !.noFallback = TRUE],
   [Plain EXCEPT !.trips = 600, !.ilpTrips = 500, !.hardPairs = TRUE, !.strictGroups = TRUE,
                 !.groupsHard = TRUE, !.strict = TRUE, !.mode = "production"],
   [Plain EXCEPT !.trips = 450, !.force = TRUE, !.profiles = TRUE],
   [Plain EXCEPT !.trips = 6000, !.noScale = TRUE, !.grouped = FALSE],
   [Plain EXCEPT !.trips = 2500, !.strictGroups = TRUE, !.groupsHard = TRUE],
   [Plain EXCEPT !.strictGroups = TRUE, !.groupsHard = TRUE, !.strict = TRUE,
                 !.mode = "assisted", !.assignment = TRUE],
   [Plain EXCEPT !.strictGroups = TRUE, !.groupsHard = TRUE, !.strict = TRUE,
                 !.mode = "production", !.trips = 8],
   [Plain EXCEPT !.algorithm = "greedy", !.explicit = TRUE, !.operatorHard = TRUE,
                 !.strict = TRUE, !.quality = "optimized"],
   [Plain EXCEPT !.algorithm = "assignment", !.strictGroups = TRUE],
   [Plain EXCEPT !.valid = FALSE]}

MCVehiclePlans ==
  {[issues |-> 0, vehicles |-> 2, cost |-> 100, left |-> 0, faults |-> 0],
   [issues |-> 0, vehicles |-> 2, cost |-> 101, left |-> 0, faults |-> 1],
   [issues |-> 0, vehicles |-> 3, cost |-> 90, left |-> 1, faults |-> 0],
   [issues |-> 1, vehicles |-> 1, cost |-> 80, left |-> 0, faults |-> 0],
   [issues |-> 0, vehicles |-> 1600, cost |-> 70, left |-> 0, faults |-> 0],
   [issues |-> 0, vehicles |-> 0, cost |-> 0, left |-> 1, faults |-> 0]}

Good == [violations |-> 0, uncovered |-> 0, crew |-> 2, shorts |-> 0, some |-> TRUE,
         price |-> 104, splits |-> 0, faults |-> 0, profile |-> 0, critical |-> 0,
         low |-> 1, long |-> 1, idle |-> 20, restMissing |-> 0, overtime |-> 0]

MCCrewPlans ==
  {Good,
   [Good EXCEPT !.price = 106, !.crew = 3, !.low = 0, !.long = 0, !.shorts = 1, !.faults = 1],
   [Good EXCEPT !.splits = 2, !.crew = 1, !.price = 100, !.critical = 1, !.idle = 30],
   [Good EXCEPT !.violations = 1, !.splits = 1, !.profile = 1, !.price = 90],
   [Good EXCEPT !.uncovered = 1, !.some = FALSE, !.crew = 0, !.price = 0]}

(* the two half-cent prices let the rounding of the baseline show *)
MCPrice(p, c) == 10 * (p.cost + 10 * p.left + 50 * p.faults) + c.price

CONSTANTS Ana, Bia, Caio

Drive(d, from, to) == [day |-> d, start |-> from, end |-> to, minutes |-> to - from]

Week == [days |-> {0, 1, 2}, order |-> <<Ana, Bia>>, limit |-> 2640, off |-> 1, rest |-> 660,
         work |-> <<Drive(0, 300, 780), Drive(0, 840, 1320), Drive(1, 360, 800),
                    Drive(1, 900, 1300), Drive(2, 380, 820)>>]

Late == Drive(0, 840, 1380)
Early == Drive(0, 300, 700)
Morning == Drive(1, 360, 780)
Noon == Drive(1, 640, 1100)

MCWeeks ==
  {Week,
   [Week EXCEPT !.off = 0],
   [Week EXCEPT !.order = <<Ana, Bia, Caio>>],
   [Week EXCEPT !.limit = 920, !.off = 0],
   [Week EXCEPT !.order = <<Ana>>, !.off = 0, !.rest = 400],
   [Week EXCEPT !.days = 0..6, !.off = 5, !.rest = 960],
   [Week EXCEPT !.days = {0, 1}, !.off = 0, !.order = <<Ana>>, !.work = <<Late, Early, Morning>>],
   [Week EXCEPT !.days = {0, 1}, !.off = 0, !.work = <<Early, Late, Morning, Noon>>],
   [Week EXCEPT !.off = 0, !.order = <<Ana>>, !.work = <<Late, Early, Morning, Drive(2, 300, 500)>>],
   [Week EXCEPT !.off = 0, !.order = <<Ana, Bia>>, !.work = <<Early, Late, Morning, Noon, Drive(2, 300, 500)>>],
   [Week EXCEPT !.days = {0, 1}, !.work = <<Late, Drive(0, 1200, 1500), Morning, Noon>>],
   [Week EXCEPT !.days = {0, 2, 3}, !.order = <<Bia, Ana>>,
                !.work = <<Late, Drive(2, 200, 600), Drive(2, 1000, 1430), Drive(3, 650, 900)>>],
   [Week EXCEPT !.days = {0}, !.work = <<Late>>],
   [Week EXCEPT !.days = {}, !.work = <<>>],
   [Week EXCEPT !.order = <<>>]}

Op(end, tags, lines, shifts) ==
  [shiftEnd |-> end, tags |-> tags, lines |-> lines, shifts |-> shifts]
Job(start, lines, vehicles) == [start |-> start, lines |-> lines, vehicles |-> vehicles]
Rule(id, weight) == [id |-> id, weight |-> weight]

Names == [crew |-> <<Op(-300, {"senior"}, {1}, {"morning"}), Op(0, {}, {1, 2}, {}),
                     Op(-120, {"line_affinity"}, {2}, {"afternoon"})>>,
          duties |-> <<Job(360, {1}, {1}), Job(700, {2}, {1, 2}), Job(800, {1, 2}, {2})>>,
          rules |-> {Rule("senior", 50), Rule("line_affinity", 30), Rule("shift_affinity", 20)},
          rest |-> 660, oneVehicle |-> FALSE]

MCCalls ==
  {Names,
   [Names EXCEPT !.oneVehicle = TRUE, !.rules = {Rule("shift_affinity", 40)}],
   [Names EXCEPT !.rules = {}, !.rest = 300],
   [Names EXCEPT !.rules = {Rule("senior", -2000000), Rule("line_affinity", 500)}],
   [Names EXCEPT !.rest = 1500]}

-------------------------------------------------------------------------------
T(st, en, from, to, line, group) ==
    [st |-> st, en |-> en, from |-> from, to |-> to, line |-> line, group |-> group, depot |-> 1,
     kwh |-> 0, after |-> 0, hand |-> FALSE]
Dead == << <<0, 25>>, <<25, 0>> >>
Base == [layover |-> 8, break |-> 30, enforce |-> FALSE, tol |-> 0, zeroGap |-> FALSE, strict |-> FALSE,
         cct |-> TRUE, maxShift |-> 480, maxDriving |-> 270, maxIdle |-> 0, rest |-> 660, weeklyRest |-> 2700,
         sameDepot |-> FALSE, singleLine |-> FALSE, terminalsOnly |-> TRUE, reliefs |-> FALSE, terminals |-> {},
         multiLine |-> TRUE, hardGroups |-> FALSE, groups |-> <<>>, pairWindow |-> 30, strictRun |-> FALSE,
         partBlocks |-> 2, target |-> 2, most |-> 3, window |-> 360, stitchGap |-> 240, span |-> 960, softSpan |-> 720]
Request(trips, p) == [trips |-> trips, dead |-> Dead, prm |-> p]
\* Two outbound-return pairs and a ride between them.
Pairs == << T(0, 60, 1, 2, 1, 1), T(60, 130, 2, 1, 1, 1), T(140, 200, 1, 2, 2, 0), T(212, 270, 2, 1, 2, 2),
            T(300, 340, 1, 2, 2, 2) >>
\* Two days, so that one driver may take both of a chunk's duties.
TwoDays == << T(600, 700, 1, 2, 1, 0), T(1500, 1560, 2, 1, 1, 0), T(710, 800, 2, 1, 2, 0), T(1570, 1700, 1, 2, 2, 0) >>
Line == << T(0, 100, 1, 2, 1, 0), T(108, 200, 2, 1, 1, 0), T(210, 400, 1, 2, 1, 0), [T(410, 500, 2, 1, 2, 0) EXCEPT !.depot = 2] >>
\* A group of three overlapping rides: it cannot be repaired.
Crossed == << T(0, 60, 1, 2, 1, 1), T(30, 90, 1, 2, 1, 1), T(100, 160, 2, 1, 1, 1), T(200, 260, 2, 1, 1, 0) >>
\* Two outbound-return pairs of one line in one window.
Twins == << T(0, 60, 1, 2, 1, 1), T(70, 130, 2, 1, 1, 1), T(140, 200, 1, 2, 1, 2), T(212, 270, 2, 1, 1, 2) >>
\* A pair with a number, and pairs of two lines the request does not number.
Twos == << T(0, 60, 1, 2, 1, 1), T(60, 130, 2, 1, 1, 1), T(140, 200, 1, 2, 2, 0), T(212, 270, 2, 1, 2, 0),
           T(300, 340, 1, 2, 3, 0), T(350, 390, 2, 1, 3, 0) >>
Loop == << T(0, 60, 1, 1, 1, 0) >>
MCLargeRequests ==
    {Request(Pairs, Base), Request(TwoDays, Base), Request(Twins, Base), Request(Crossed, [Base EXCEPT !.most = 2]),
     Request(Line, [Base EXCEPT !.groups = <<{1, 2}>>, !.hardGroups = TRUE, !.strictRun = TRUE]),
     Request(Line, [Base EXCEPT !.groups = <<{1, 4}>>]), Request(Pairs, [Base EXCEPT !.groups = <<{1, 4}>>]),
     Request(Twos, [Base EXCEPT !.hardGroups = TRUE]),
     Request(Line, [Base EXCEPT !.target = 1, !.most = 1, !.span = 300, !.softSpan = 150, !.stitchGap = 20]),
     Request(Line, [Base EXCEPT !.enforce = TRUE, !.break = 10, !.tol = 5, !.maxIdle = 60, !.multiLine = FALSE,
                                !.sameDepot = TRUE, !.singleLine = TRUE, !.terminals = {2}, !.reliefs = TRUE]),
     Request(Loop, Base)}
    \cup {Request(Line, [Base EXCEPT !.target = 1, !.most = 1, !.enforce = TRUE, !.layover = 10, !.break = b, !.tol = 5]) :
             b \in {4, 30}}

Work(kind, trips, blocks, p) == [kind |-> kind, trips |-> trips, dead |-> Dead, prm |-> p, blocks |-> blocks]
\* Rides of two depots; the same without depots; single rides through the day.
Depots == << T(0, 60, 1, 2, 1, 0), [T(70, 100, 2, 1, 1, 0) EXCEPT !.depot = 2], T(110, 150, 2, 1, 2, 0), [T(260, 300, 1, 2, 1, 0) EXCEPT !.depot = 2] >>
NoDepot(trips) == [t \in DOMAIN trips |-> [trips[t] EXCEPT !.depot = 0]]
Rolling == NoDepot(<< T(0, 60, 1, 2, 1, 0), T(215, 230, 2, 1, 1, 0), T(240, 300, 1, 2, 1, 0), T(500, 560, 2, 1, 1, 0) >>)
Fleet == << T(0, 60, 1, 2, 1, 0), T(100, 160, 1, 2, 1, 0), T(241, 300, 2, 1, 1, 0), T(470, 520, 1, 2, 1, 0), T(130, 160, 2, 1, 1, 0) >>
Singles == << <<1>>, <<2>>, <<3>>, <<4>>, <<5>> >>
Edges == << T(0, 60, 1, 2, 1, 0), T(100, 160, 1, 2, 1, 0), T(200, 240, 2, 1, 2, 0), T(250, 300, 1, 2, 1, 0), T(310, 340, 2, 1, 1, 0), T(350, 400, 1, 2, 1, 0) >>
FarApart == << T(0, 60, 1, 2, 1, 0), T(70, 120, 1, 2, 1, 0), T(230, 300, 2, 1, 1, 0), T(310, 370, 2, 1, 1, 0) >>
WideWindow == [Base EXCEPT !.window = 240]
\* Jobs as the greedy solver leaves them: each block within the limit on its span.
Within(J) == \A i \in DOMAIN J.blocks : SpreadOf(J, J.blocks[i]) <= J.prm.span
MCJobs ==
    {Work("regional", t, <<>>, WideWindow) : t \in {Depots, Rolling}}
    \cup {Work("crew", t, Singles, p) : t \in {Fleet, NoDepot(Fleet)}, p \in {WideWindow, [WideWindow EXCEPT !.partBlocks = 5]}}
    \cup {Work("crew", Fleet, <<>>, WideWindow)}
    \cup {Work("boundary", FarApart, << <<1>>, <<2, 3>>, <<4>> >>, WideWindow)}
    \cup {J \in {Work("boundary", Edges, b, p) :
             b \in { << <<1, 2>>, <<3, 4, 5, 6>> >>, << <<1, 3, 5>>, <<2>>, <<4, 6>> >>, << <<1>>, <<2, 4, 5, 6>>, <<3>> >>,
                     << <<1, 2, 3>> >>, << <<2, 4, 5, 6>>, <<1, 3>> >>, << <<1, 2>>, <<3>>, <<4, 5>>, <<6>> >>,
                     << <<1>>, <<2>>, <<3, 4>>, <<5>>, <<6>> >> },
             p \in {WideWindow, [WideWindow EXCEPT !.multiLine = FALSE, !.span = 260], [WideWindow EXCEPT !.span = 310]}} :
           Within(J)}
===============================================================================
