--------------------------- MODULE MCVehicleSearch ---------------------------
EXTENDS VehicleSearch

T(st, en, from, to, line, group, depot, kwh) ==
    [st |-> st, en |-> en, from |-> from, to |-> to, line |-> line,
     group |-> group, depot |-> depot, kwh |-> kwh, after |-> 0]
Catalogue == <<
    T(0, 60, 1, 2, 1, 1, 1, 30), T(60, 120, 2, 1, 1, 1, 1, 30), T(70, 130, 2, 1, 1, 0, 2, 30),
    T(75, 140, 1, 2, 1, 2, 1, 40), T(140, 200, 1, 2, 2, 0, 1, 50), T(165, 210, 2, 1, 1, 2, 0, 20),
    T(0, 50, 2, 1, 2, 0, 2, 20), T(340, 400, 1, 2, 1, 0, 1, 60), T(30, 90, 1, 2, 1, 0, 1, 30),
    T(408, 450, 2, 1, 1, 0, 1, 10) >>
\* Two blocks that can only be joined after the trips were placed: the partner
\* of the first one's last trip is too far away, and reserves it.
Joinable == <<
    T(0, 50, 1, 2, 2, 0, 1, 10), T(60, 110, 2, 1, 1, 0, 1, 10), T(125, 140, 1, 1, 2, 0, 1, 10),
    T(150, 200, 1, 2, 1, 0, 1, 10), T(150, 190, 1, 1, 2, 0, 1, 10) >>
\* The first block is closed before the last trip asks for a third one.
Spaced == <<
    T(0, 60, 1, 2, 1, 0, 1, 10), T(340, 400, 1, 2, 1, 0, 1, 10), T(408, 450, 2, 1, 1, 0, 1, 10),
    T(452, 500, 2, 1, 1, 0, 1, 10) >>
\* A group of three and the return of another group: the return cannot follow its
\* own outbound trip (other depot, other line) and is placed behind the first
\* trip of the three before the second one, which is then put between them.
Squeezed(depot, line, end) == <<
    T(0, 60, 1, 2, 1, 1, 1, 30), T(60, end, 2, 1, line, 1, depot, 20), T(10, 95, 1, 1, 2, 2, 2, 10),
    T(95, 150, 1, 2, 1, 2, 1, 20), T(170, 200, 2, 1, 1, 1, 1, 10), T(150, 165, 1, 1, 2, 0, 2, 5) >>
Dead == << <<0, 25>>, <<25, 0>> >>
Base == [layover |-> 8, break |-> 30, enforce |-> FALSE, tol |-> 0, zeroGap |-> FALSE, strict |-> FALSE,
         maxIdle |-> 0, span |-> 1440, sameDepot |-> FALSE, multiLine |-> TRUE, window |-> 120,
         hardPairs |-> FALSE, limit |-> 0, splits |-> TRUE, splitMin |-> 120, splitMax |-> 540,
         garage |-> "smart", garageCost |-> 80, fixed |-> 3200, compact |-> TRUE, stitch |-> TRUE,
         stitchGap |-> 240]
Diesel == [fixed |-> 3200, depot |-> 0, electric |-> FALSE, cap |-> 0, min |-> 0, rate |-> 0, price |-> 0]
Bus == [fixed |-> 3200, depot |-> 0, electric |-> TRUE, cap |-> 100, min |-> 15, rate |-> 1, price |-> 2]
Requests == {
    <<Base, Diesel>>,
    <<[Base EXCEPT !.limit = 1], Diesel>>,
    <<[Base EXCEPT !.limit = 2, !.enforce = TRUE, !.tol = 5, !.fixed = 100], Diesel>>,
    <<[Base EXCEPT !.fixed = 100], Diesel>>,
    <<[Base EXCEPT !.multiLine = FALSE, !.splits = FALSE, !.fixed = 200], Diesel>>,
    <<[Base EXCEPT !.sameDepot = TRUE, !.fixed = 100, !.garage = "always"], Diesel>>,
    <<[Base EXCEPT !.span = 200, !.hardPairs = TRUE, !.garage = "never"], Diesel>>,
    <<[Base EXCEPT !.span = 100, !.fixed = 100, !.window = 0], Diesel>>,
    <<[Base EXCEPT !.span = 120, !.limit = 2, !.window = 0], Diesel>>,
    <<[Base EXCEPT !.maxIdle = 30, !.fixed = 100, !.splitMin = 10, !.limit = 3], Diesel>>,
    <<Base, Bus>>, <<Base, [Bus EXCEPT !.cap = 70]>>, <<[Base EXCEPT !.limit = 2, !.sameDepot = TRUE], Bus>> }
GreedyProblems ==
    {[trips |-> [i \in 1..4 |-> Catalogue[SetToSortSeq(S, <)[i]]], dead |-> Dead, prm |-> r[1],
      fleet |-> <<r[2]>>, depot |-> 1,
      penalized |-> {}, algos |-> {"greedy"}] : S \in kSubset(4, 1..10), r \in Requests}
    \cup {[trips |-> s, dead |-> Dead, prm |-> r[1], fleet |-> <<r[2]>>, depot |-> 1,
      penalized |-> {}, algos |-> {"greedy"}] : s \in {Joinable, Spaced}, r \in Requests}
    \cup {[trips |-> s, dead |-> Dead, prm |-> p, fleet |-> <<f>>, depot |-> 1,
      penalized |-> {}, algos |-> {"greedy"}] : s \in {Squeezed(d, l, e) : d \in 0..2, l \in {1, 2}, e \in {80, 92}},
        p \in {[Base EXCEPT !.sameDepot = d, !.multiLine = l, !.maxIdle = i, !.window = w] :
                  d, l \in BOOLEAN, i \in {0, 40}, w \in {0, 120}},
        f \in {Diesel, Bus}}

\* The searches: a chain of three rides and one that overlaps two of them, and a
\* group whose return starts when the outbound ride ends.
Chained == <<
    T(0, 60, 1, 2, 1, 0, 1, 0), T(68, 128, 2, 1, 1, 0, 1, 0), T(120, 180, 1, 2, 1, 0, 1, 0),
    T(190, 250, 1, 2, 1, 0, 1, 0), T(255, 300, 2, 1, 1, 0, 1, 0) >>
Grouped == <<
    T(0, 60, 1, 2, 1, 1, 1, 0), T(60, 120, 2, 1, 1, 1, 1, 0), T(65, 100, 2, 2, 1, 0, 1, 0),
    T(130, 190, 1, 2, 1, 0, 1, 0), T(150, 190, 2, 1, 1, 0, 1, 0) >>
\* Chained without a layover by the greedy; the searches read 0 as 8 minutes.
Tight == << T(0, 60, 1, 2, 1, 0, 1, 0), T(63, 120, 2, 1, 1, 0, 1, 0), T(125, 180, 1, 2, 1, 0, 1, 0) >>
Search(trips, n, p, algos, pen) ==
    [trips |-> SubSeq(trips, 1, n), dead |-> Dead, prm |-> p, fleet |-> <<Diesel>>, depot |-> 1,
     penalized |-> pen, algos |-> algos]
\* A greedy that joins nothing, which leaves the searches something to gain.
Loose == [Base EXCEPT !.fixed = 24, !.compact = FALSE, !.stitch = FALSE, !.window = 0]
SearchProblems ==
    {Search(Chained, 3, p, {"sa"}, {}) : p \in {Base, Loose}}
    \cup {Search(s, 4, p, {"tabu", "alns"}, pen) :
            s \in {Chained, Grouped}, pen \in {{}, {1, 4}},
            p \in {Base, Loose, [Base EXCEPT !.hardPairs = TRUE, !.zeroGap = TRUE],
                   [Loose EXCEPT !.enforce = TRUE, !.tol = 25]}}
    \cup {Search(Chained, 5, Loose, {"tabu"}, {1, 4}), Search(Grouped, 5, Loose, {"tabu", "alns"}, {})}
    \cup {Search(s, 3, p, {"genetic"}, {}) : s \in {Chained, Grouped}, p \in {Base, Loose}}
    \cup {Search(s, 4, Base, {"genetic"}, {}) : s \in {Chained, Grouped}}
    \cup {Search(Tight, 3, [Loose EXCEPT !.layover = 0, !.fixed = f], {"genetic", "tabu", "alns"}, {}) :
            f \in {6, 24}}
MCProblems == GreedyProblems \cup SearchProblems
============================================================================
