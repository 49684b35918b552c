----------------------------- MODULE TripLinks -----------------------------
(***************************************************************************)
(* What the vehicle schedulers of the optimizer share                      *)
(* (src/optimizer/src/algorithms/utils.py): when one trip may follow       *)
(* another on a vehicle, what a set of blocks costs, and which trips are   *)
(* preferred as outbound-return pairs.                                     *)
(*                                                                         *)
(* A problem P is a record: P.trips is a sequence of trips, each           *)
(*   [st, en, from, to, line, group, depot, kwh, after]                    *)
(* (0 stands for "no group", "no depot"; "after" is the trip this one is   *)
(* the next segment of, or 0), P.dead[x][y] the deadhead minutes from      *)
(* terminal x to terminal y, P.prm the request's parameters.  A trip is    *)
(* named by its index.  Costs are integers: one unit is a quarter of the   *)
(* program's cost unit, so that an idle minute at 0.25 costs 1.            *)
(***************************************************************************)
EXTENDS Integers, SequencesExt

Max2(a, b) == IF a > b THEN a ELSE b
Min2(a, b) == IF a < b THEN a ELSE b
CeilDiv(a, b) == (a + b - 1) \div b
\* Python's `x or d`.
OrElse(x, d) == IF x = 0 THEN d ELSE x

TripIds(P) == DOMAIN P.trips
TripGap(P, a, b) == P.trips[b].st - P.trips[a].en
Deadhead(P, a, b) == P.dead[P.trips[a].to][P.trips[b].from]
SumOver(S, f(_)) == MapThenSumSet(f, S)

\* The position with the least key, the first of them (the loops of the
\* source replace their best candidate only for a strictly smaller key).
FirstLeast(Positions, key(_)) ==
    CHOOSE i \in Positions :
        \A j \in Positions : key(i) < key(j) \/ (key(i) = key(j) /\ i <= j)

\* The members of S in the order of less, a strict total order on S.
Sorted(S, less(_, _)) ==
    LET rank(x) == Cardinality({y \in S : less(y, x)})
    IN  [i \in 1..Cardinality(S) |-> CHOOSE x \in S : rank(x) = i - 1]

\* The elements of s at the positions I, in the order of s.
Picked(s, I) ==
    LET at == Sorted(I, LAMBDA i, j : i < j) IN [k \in DOMAIN at |-> s[at[k]]]

\* A view V names the parameters a scheduler looks at:
\* [layover, break, enforce, tol, zeroGap, strict].
IsConnectionFeasible(P, V, a, b) ==
    LET gap == TripGap(P, a, b) IN
    \/ /\ gap = 0
       /\ \/ P.trips[a].group # 0 /\ P.trips[a].group = P.trips[b].group
          \/ P.trips[b].after = a
       /\ V.zeroGap => P.trips[a].to = P.trips[b].from
    \/ /\ gap > 0
       /\ V.enforce => gap >= V.break
       /\ gap + (IF V.strict THEN 0 ELSE V.tol) >= Max2(V.layover, Deadhead(P, a, b))

Chain(P, V, block) ==
    \A i \in 1..Len(block) - 1 : IsConnectionFeasible(P, V, block[i], block[i + 1])

SpreadOf(P, block) == P.trips[Last(block)].en - P.trips[block[1]].st
WorkOf(P, block) == SumOver(DOMAIN block, LAMBDA i : P.trips[block[i]].en - P.trips[block[i]].st)

\* is_block_feasible, for the default of 960 minutes and any line.
IsBlockFeasible(P, V, block) ==
    Len(block) <= 1 \/ (SpreadOf(P, block) <= 960 /\ Chain(P, V, block))

\* quick_cost_from_trips.  C = [fixed, idle, work, crew].
BlockCost(P, C, block) ==
    LET crew == Max2(CeilDiv(WorkOf(P, block), C.work), CeilDiv(SpreadOf(P, block), C.work + 80))
        link(i) == LET gap == TripGap(P, block[i], block[i + 1])
                   IN  IF gap < 0 THEN 200 * (0 - gap) ELSE C.idle * gap
    IN  C.fixed + C.crew * Max2(0, crew - 1) + SumOver(1..Len(block) - 1, link)

QuickCost(P, C, state) ==
    SumOver({i \in DOMAIN state : state[i] # <<>>}, LAMBDA i : BlockCost(P, C, state[i]))

\* preferred_pair_penalty_from_trips: a pair kept together earns the bonus, a
\* broken one is punished, harder when its trips are in different blocks.
PairPenalty(P, pairs, W, state) ==
    LET Together(a, b) == \E i \in DOMAIN state : \E k \in 1..Len(state[i]) - 1 :
                              {state[i][k], state[i][k + 1]} = {a, b}
        SameBlock(a, b) == \E i \in DOMAIN state : {a, b} \subseteq Range(state[i])
        penalty(a) == IF Together(a, pairs[a]) THEN 0 - W.bonus
                      ELSE IF SameBlock(a, pairs[a]) \/ W.hard = 0 THEN W.broken ELSE W.hard
    IN  SumOver({a \in TripIds(P) : a < pairs[a]}, penalty)

----------------------------------------------------------------------------
\* Orders and pairs (vsp/greedy.py).

GroupOf(P, t) == {u \in TripIds(P) : P.trips[u].group = P.trips[t].group}
Earlier(P, a, b) ==
    \/ P.trips[a].st < P.trips[b].st
    \/ P.trips[a].st = P.trips[b].st /\ P.trips[a].en < P.trips[b].en
    \/ P.trips[a].st = P.trips[b].st /\ P.trips[a].en = P.trips[b].en /\ a < b

\* b is the return that starts when a, the earlier of the two trips of its
\* group, ends.
IsVolta(P, a, b) ==
    /\ P.trips[a].group # 0 /\ GroupOf(P, a) = {a, b}
    /\ Earlier(P, a, b)
    /\ P.trips[a].en = P.trips[b].st

\* _sort_trips: by start, a contiguous return right behind its outbound trip.
SortTrips(P) ==
    LET outbound(t) == {a \in TripIds(P) : IsVolta(P, a, t)}
        lead(t) == IF outbound(t) = {} THEN t ELSE CHOOSE a \in outbound(t) : TRUE
    IN  Sorted(TripIds(P), LAMBDA a, b :
            Earlier(P, lead(a), lead(b)) \/ (lead(a) = lead(b) /\ Earlier(P, a, b)))

IsRoundTrip(P, a, b) ==
    P.trips[a].to = P.trips[b].from /\ P.trips[a].from = P.trips[b].to

\* build_preferred_pairs: the trip each trip is paired with, or 0.
PreferredPairs(P, layover, window) ==
    LET order == SortTrips(P)
        n == Len(order)
        Members(t) == {u \in GroupOf(P, t) : P.trips[u].line = P.trips[t].line}
        IsGroupPair(a, b) ==
            /\ P.trips[a].group # 0 /\ a # b /\ Members(a) = {a, b}
            /\ P.trips[a].st < P.trips[b].st \/ (P.trips[a].st = P.trips[b].st /\ a < b)
            /\ IsRoundTrip(P, a, b)
            /\ TripGap(P, a, b) = 0 \/ TripGap(P, a, b) >= layover
        grouped == [t \in TripIds(P) |->
                      LET mates == {u \in TripIds(P) : IsGroupPair(t, u) \/ IsGroupPair(u, t)}
                      IN  IF mates = {} THEN 0 ELSE CHOOSE u \in mates : TRUE]
        \* The nearest free return within the window; the scan ends at the
        \* first free trip beyond it.
        Pair(paired, i) ==
            LET t == order[i]
                free == {j \in i + 1..n : paired[order[j]] = 0}
                gap(j) == TripGap(P, t, order[j])
                inside == {j \in free : \A k \in free : k <= j => gap(k) <= window}
                returns == {j \in inside :
                              /\ gap(j) >= layover
                              /\ P.trips[t].line = P.trips[order[j]].line
                              /\ IsRoundTrip(P, t, order[j])}
                best == order[FirstLeast(returns, gap)]
            IN  IF paired[t] # 0 \/ returns = {} THEN paired
                ELSE [paired EXCEPT ![t] = best, ![best] = t]
    IN  FoldLeft(Pair, grouped, [i \in 1..n |-> i])
=============================================================================
