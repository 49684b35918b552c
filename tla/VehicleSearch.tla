---------------------------- MODULE VehicleSearch ----------------------------
(***************************************************************************)
(* The metaheuristics of the vehicle problem (algorithms/vsp/): simulated  *)
(* annealing, tabu search, adaptive large neighbourhood search and the     *)
(* genetic algorithm.  Each starts from the greedy's blocks, keeps a       *)
(* current and a best solution, and answers with the best when its time is *)
(* over, which may be after any turn.                                      *)
(*                                                                         *)
(* A solution is a sequence of blocks, a block a sequence of trips.        *)
(* Random draws are choices; so are the acceptance of a worse solution,    *)
(* the operator a roulette picks and the neighbours a tabu turn samples.   *)
(* A sample may consist of any one neighbour, and then that one is taken   *)
(* whatever the tabu list holds: the list is left out.                     *)
(***************************************************************************)
EXTENDS GreedyVehicles

CONSTANTS MaxLists,    \* bound: blocks (empty ones too) of an annealing state
          MaxPerturbs, \* bound: perturbations after a restart (10 to 50 in the code)
          StaleLimit,  \* bound: tabu turns without progress (25 in the code)
          PopSize      \* individuals of the genetic algorithm

VARIABLES algo,      \* the algorithm at work
          current, cost,      \* where it is, and the cost it has recorded for it
          best, bestCost,     \* the best solution so far
          memory,    \* perturbations left; stale turns; the populations
          answer     \* the schedule handed to the caller: [blocks, left]

searchVars == <<algo, current, cost, best, bestCost, memory, answer>>
vars == <<greedyVars, searchVars>>

Seed == [i \in DOMAIN blocks |-> blocks[i].trips]
SeedTrips == UNION {Range(b.trips) : b \in Range(blocks)}
NotEmpty(state) == SelectSeq(state, LAMBDA b : b # <<>>)
AllFeasible(V, state) == \A i \in DOMAIN state : Chain(problem, V, state[i])

\* A stable sort by start time.
ByStart(block) ==
    LET before(i, j) == \/ Trip(block[i]).st < Trip(block[j]).st
                        \/ Trip(block[i]).st = Trip(block[j]).st /\ i < j
        order == SetToSortSeq(DOMAIN block, before)
    IN  [i \in DOMAIN order |-> block[order[i]]]

----------------------------------------------------------------------------
\* What each algorithm looks at, and what it minimises.

SearchLayover == OrElse(prm.layover, 8)
FullView == [layover |-> SearchLayover, break |-> prm.break, enforce |-> prm.enforce,
             tol |-> prm.tol, zeroGap |-> prm.zeroGap, strict |-> prm.strict]
GaView == [FullView EXCEPT !.zeroGap = FALSE, !.strict = FALSE]
AlnsView == [GaView EXCEPT !.break = SearchLayover]
ViewOf(a) == CASE a = "alns" -> AlnsView [] a = "genetic" -> GaView [] OTHER -> FullView

Fvc == OrElse(prm.fixed, 3200)
SearchCosts == [fixed |-> Fvc, idle |-> 2, work |-> 480, crew |-> Fvc \div 2]
AlnsCosts == [fixed |-> OrElse(prm.fixed, 3600), idle |-> 1, work |-> 480, crew |-> 1600]
PairWeights == [bonus |-> Fvc \div 20, broken |-> (Fvc * 5) \div 4,
                hard |-> IF prm.hardPairs THEN Max2(((Fvc * 5) \div 4) * 10, Fvc * 25) ELSE 0]
SearchPairs(P) == IF P.prm.window = 0 THEN [t \in TripIds(P) |-> 0]
                  ELSE PreferredPairs(P, OrElse(P.prm.layover, 8), P.prm.window)

Expense(state) ==
    QuickCost(problem, SearchCosts, state) + PairPenalty(problem, pairs, PairWeights, state)

\* Tabu search also keeps trips apart that broke crew rules before.
CctPenalty(state) ==
    SumOver(DOMAIN state, LAMBDA i :
        3 * Fvc * Max2(0, Cardinality(Range(state[i]) \cap problem.penalized) - 1))

\* The genetic algorithm punishes missing, doubled and infeasible trips.
BigM == Max2(4000000, Len(problem.trips) * Fvc * 10)
Fitness(chrom) ==
    LET state == [i \in DOMAIN chrom |-> ByStart(chrom[i])]
        covered == UNION {Range(state[i]) : i \in DOMAIN state}
        genes == SumOver(DOMAIN state, LAMBDA i : Len(state[i]))
        broken == {i \in DOMAIN state : ~IsBlockFeasible(problem, GaView, state[i])}
    IN  Expense(state) + BigM * Cardinality(broken)
          + 10 * BigM * ((Len(problem.trips) - Cardinality(covered)) + (genes - Cardinality(covered)))

CostOf(a, state) ==
    CASE a = "alns" -> QuickCost(problem, AlnsCosts, state)
      [] a = "tabu" -> Expense(state) + CctPenalty(state)
      [] a = "genetic" -> Fitness(state)
      [] OTHER -> Expense(state)

----------------------------------------------------------------------------
\* Simulated annealing.  An operator gives the candidate and leaves its
\* argument changed ("kept") even if the candidate is the old solution.

Outcome(kept, tried, old) ==
    [kept |-> kept, cand |-> IF AllFeasible(FullView, tried) THEN tried ELSE old]

Reloc(s) ==
    {LET i == d[1] k == d[2] j == d[3]
         moved == [s EXCEPT ![i] = RemoveAt(@, k), ![j] = ByStart(Append(@, s[i][k]))]
     IN  Outcome(moved, NotEmpty(moved), s)
     : d \in {d \in (DOMAIN s) \X TripIds(problem) \X (DOMAIN s) :
                d[1] # d[3] /\ d[2] \in DOMAIN s[d[1]]}}

Swap2(s) ==
    {LET i == d[1] ii == d[2] j == d[3] jj == d[4]
         moved == [s EXCEPT ![i] = ByStart([@ EXCEPT ![ii] = s[j][jj]]),
                            ![j] = ByStart([@ EXCEPT ![jj] = s[i][ii]])]
     IN  Outcome(moved, moved, s)
     : d \in {d \in (DOMAIN s) \X TripIds(problem) \X (DOMAIN s) \X TripIds(problem) :
                d[1] < d[3] /\ d[2] \in DOMAIN s[d[1]] /\ d[4] \in DOMAIN s[d[3]]}}

\* The only operator that works on a copy.
SplitBlock(s) ==
    {Outcome(s, Append([s EXCEPT ![d[1]] = SubSeq(@, 1, d[2])],
                       SubSeq(s[d[1]], d[2] + 1, Len(s[d[1]]))), s)
     : d \in {d \in (DOMAIN s) \X TripIds(problem) : d[2] < Len(s[d[1]])}}

MergeBlocks(s) ==
    {LET moved == RemoveAt([s EXCEPT ![d[1]] = ByStart(@ \o s[d[2]])], d[2])
     IN  Outcome(moved, moved, s)
     : d \in {d \in (DOMAIN s) \X (DOMAIN s) : d[1] < d[2]}}

SaMoves(s) == {m \in Reloc(s) \cup Swap2(s) \cup SplitBlock(s) \cup MergeBlocks(s) :
                 Len(m.kept) <= MaxLists /\ Len(m.cand) <= MaxLists}

KeepBest == IF cost' < bestCost THEN best' = current' /\ bestCost' = cost'
            ELSE UNCHANGED <<best, bestCost>>

Searching(a) == stage = "searching" /\ algo = a /\ UNCHANGED <<greedyVars, algo, answer>>

\* A rejected candidate is dropped, but its operator has already changed the
\* current solution, whose recorded cost stays.
SaTurn ==
    /\ Searching("sa") /\ memory = 0
    /\ \E m \in SaMoves(current) :
         LET c == CostOf("sa", m.cand)
         IN  \/ current' = m.cand /\ cost' = c
             \/ c > cost /\ current' = m.kept /\ cost' = cost
    /\ KeepBest /\ UNCHANGED memory

SaRestart ==
    /\ Searching("sa") /\ memory = 0
    /\ current' = best /\ cost' = bestCost /\ memory' = MaxPerturbs
    /\ UNCHANGED <<best, bestCost>>

\* An operator that finds nothing to do leaves everything as it is.
SaPerturb ==
    /\ Searching("sa") /\ memory > 0 /\ memory' = memory - 1
    /\ \/ UNCHANGED <<current, cost>>
       \/ \E m \in SaMoves(current) : current' = m.cand /\ cost' = CostOf("sa", m.cand)
    /\ UNCHANGED <<best, bestCost>>

----------------------------------------------------------------------------
\* Tabu search.

TabuNeighbours(s) ==
    {n \in {NotEmpty(m.kept) : m \in Reloc(s)}
           \cup {RemoveAt([s EXCEPT ![d[1]] = ByStart(@ \o s[d[2]])], d[2])
                 : d \in {d \in (DOMAIN s) \X (DOMAIN s) : d[1] # d[2]}} : AllFeasible(FullView, n)}

TabuTurn ==
    /\ Searching("tabu")
    /\ \E n \in TabuNeighbours(current) :
         LET c == CostOf("tabu", n)
             stale == IF c < bestCost THEN 0 ELSE memory + 1
         IN  /\ IF c < bestCost THEN best' = n /\ bestCost' = c ELSE UNCHANGED <<best, bestCost>>
             /\ IF stale > StaleLimit
                THEN current' = best /\ cost' = bestCost /\ memory' = 0
                ELSE current' = n /\ cost' = c /\ memory' = stale

\* The sample held no feasible neighbour.
TabuBlank ==
    /\ Searching("tabu") /\ memory < StaleLimit /\ memory' = memory + 1
    /\ UNCHANGED <<current, cost, best, bestCost>>

----------------------------------------------------------------------------
\* Adaptive large neighbourhood search.

Positions(s, t) ==
    {p \in (DOMAIN s) \X (0..Len(problem.trips)) :
        p[2] <= Len(s[p[1]]) /\ Chain(problem, AlnsView, InsertAt(s[p[1]], p[2] + 1, t))}
InsertCost(s, t, p) ==
    LET b == s[p[1]]
        before == TripGap(problem, b[p[2]], t)
    IN  IF p[2] = 0 THEN 0
        ELSE IF p[2] = Len(b) THEN before ELSE before + TripGap(problem, t, b[p[2] + 1])
\* options.sort(): by cost, block and position.
Options(s, t) ==
    LET less(p, q) == \/ InsertCost(s, t, p) < InsertCost(s, t, q)
                      \/ /\ InsertCost(s, t, p) = InsertCost(s, t, q)
                         /\ p[1] < q[1] \/ (p[1] = q[1] /\ p[2] < q[2])
    IN  SetToSortSeq(Positions(s, t), less)
Inserted(s, t) ==
    LET o == Options(s, t)
    IN  IF o = <<>> THEN Append(s, <<t>>)
        ELSE [s EXCEPT ![o[1][1]] = InsertAt(@, o[1][2] + 1, t)]
GreedyInsertion(s, removed) == FoldLeft(Inserted, s, removed)

\* The trip that would regret its second choice most goes first.
Regret(s, t) ==
    LET o == Options(s, t)
    IN  CASE Len(o) = 0 -> 1000000000
          [] Len(o) = 1 -> 1000000
          [] OTHER -> InsertCost(s, t, o[2]) - InsertCost(s, t, o[1])
RegretInsertion(s, removed) ==
    LET Turn(acc, i) ==
          LET k == FirstLeast(DOMAIN acc.pending, LAMBDA j : -Regret(acc.state, acc.pending[j]))
          IN  [state |-> Inserted(acc.state, acc.pending[k]), pending |-> RemoveAt(acc.pending, k)]
    IN  FoldLeft(Turn, [state |-> s, pending |-> removed], removed).state

\* Any trips in any order: the random removal halves its number if the
\* solution has no more trips than it was told to remove, the two others
\* then remove them all.
Removals(s) ==
    LET all == UNION {Range(s[i]) : i \in DOMAIN s}
        least == Max2(2, Len(problem.trips) \div 10)
        most == Max2(least + 1, Len(problem.trips) \div 4)
        n == Cardinality(all)
        Sizes == {IF k < n THEN k ELSE Max2(1, n \div 2) : k \in least..most}
                   \cup {Min2(k, n) : k \in least..most}
    IN  UNION {{q \in [1..k -> all] : IsInjective(q)} : k \in Sizes}
Without(s, removed) ==
    NotEmpty([i \in DOMAIN s |-> SelectSeq(s[i], LAMBDA t : t \notin Range(removed))])

AlnsTurn ==
    /\ Searching("alns") /\ UNCHANGED memory
    /\ \E removed \in Removals(current) :
       \E new \in {GreedyInsertion(Without(current, removed), removed),
                   RegretInsertion(Without(current, removed), removed)} :
         LET c == CostOf("alns", new)
         IN  \/ current' = new /\ cost' = c
             \/ c > cost /\ UNCHANGED <<current, cost>>
    /\ KeepBest

----------------------------------------------------------------------------
\* The genetic algorithm: memory.pop is the population, memory.next the one
\* being bred.

\* _repair_chromosome: the first occurrence of a trip stays; missing trips go
\* behind the first block whose last trip they can follow.
Repair(chrom, wanted) ==
    LET Seen(i, k) == \E j \in 1..i : \E l \in DOMAIN chrom[j] :
                          chrom[j][l] = chrom[i][k] /\ (j < i \/ l < k)
        Firsts(i) == LET keep == SetToSortSeq({k \in DOMAIN chrom[i] : ~Seen(i, k)}, <)
                     IN  [k \in DOMAIN keep |-> chrom[i][keep[k]]]
        kept == NotEmpty([i \in DOMAIN chrom |-> Firsts(i)])
        missing == SetToSortSeq(wanted \ UNION {Range(kept[i]) : i \in DOMAIN kept},
                                LAMBDA a, b : Trip(a).st < Trip(b).st \/ (Trip(a).st = Trip(b).st /\ a < b))
        Place(c, t) ==
          LET hosts == {i \in DOMAIN c : /\ DepotOk(Trip(c[i][1]).depot, t)
                                         /\ IsConnectionFeasible(problem, GaView, Last(c[i]), t)}
          IN  IF hosts = {} THEN Append(c, <<t>>) ELSE [c EXCEPT ![Min(hosts)] = Append(@, t)]
    IN  IF kept = <<>> THEN <<missing>> ELSE FoldLeft(Place, kept, missing)

SplitOnly(c) == {<<SubSeq(c[1], 1, k), SubSeq(c[1], k + 1, Len(c[1]))>> : k \in 1..Len(c[1]) - 1}
\* A trip moves behind another block; with `any', possibly behind its own.
MoveGene(c, any) ==
    {LET out == [c EXCEPT ![d[1]] = RemoveAt(@, d[2])]
     IN  [out EXCEPT ![d[3]] = Append(@, c[d[1]][d[2]])]
     : d \in {d \in (DOMAIN c) \X TripIds(problem) \X (DOMAIN c) :
                d[2] \in DOMAIN c[d[1]] /\ (any \/ d[1] # d[3])}}

\* Variants of the seed: up to n moves, the number growing along the population.
Variants(n) ==
    LET step(c) == IF Len(c) = 1 THEN SplitOnly(c) \cup {c} ELSE MoveGene(c, FALSE) \cup {c}
        after[k \in 0..n] == IF k = 0 THEN {Seed} ELSE UNION {step(c) : c \in after[k - 1]}
    IN  {Repair(NotEmpty(c), SeedTrips) : c \in after[n]}

Crossovers(a, b) ==
    {<<Repair([a EXCEPT ![d[1]] = b[d[2]]], TripIds(problem)),
       Repair([b EXCEPT ![d[2]] = a[d[1]]], TripIds(problem))>> : d \in (DOMAIN a) \X (DOMAIN b)}

MergeGenes(c) ==
    {LET joined == c[d[1]] \o c[d[2]]
     IN  IF IsBlockFeasible(problem, GaView, ByStart(joined))
         THEN RemoveAt([c EXCEPT ![d[1]] = joined], d[2]) ELSE c
     : d \in {d \in (DOMAIN c) \X (DOMAIN c) : d[1] < d[2]}}
Mutations(c) ==
    {c} \cup IF Len(c) = 1 /\ Len(c[1]) <= 1 THEN {}
             ELSE {Repair(NotEmpty(m), TripIds(problem)) :
                     m \in IF Len(c) = 1 THEN SplitOnly(c) ELSE MoveGene(c, TRUE) \cup MergeGenes(c)}

FitnessOf(pop) == [i \in DOMAIN pop |-> Fitness(pop[i])]
Fittest(pop) == FirstLeast(DOMAIN pop, LAMBDA i : FitnessOf(pop)[i])
\* _tournament: the best of three, or of all when there are fewer.
Winners(pop) ==
    {i \in DOMAIN pop : \E K \in kSubset(Min2(3, Len(pop)), DOMAIN pop) :
        i \in K /\ \A j \in K : FitnessOf(pop)[i] <= FitnessOf(pop)[j]}

GaPopulate ==
    /\ Searching("genetic") /\ Len(memory.pop) < PopSize
    /\ \E v \in Variants(Min2(Len(memory.pop), Len(problem.trips) \div 3)) :
         memory' = [memory EXCEPT !.pop = Append(@, v)]
    /\ UNCHANGED <<current, cost, best, bestCost>>

\* Elitism keeps the fittest (a tenth of the population, at least one).
GaElite ==
    /\ Searching("genetic") /\ Len(memory.pop) = PopSize /\ memory.next = <<>>
    /\ LET order == SetToSortSeq(1..PopSize, LAMBDA i, j :
                       \/ FitnessOf(memory.pop)[i] < FitnessOf(memory.pop)[j]
                       \/ FitnessOf(memory.pop)[i] = FitnessOf(memory.pop)[j] /\ i < j)
       IN  memory' = [memory EXCEPT !.next =
                        [i \in 1..Max2(1, PopSize \div 10) |-> memory.pop[order[i]]]]
    /\ UNCHANGED <<current, cost, best, bestCost>>

GaBreed ==
    /\ Searching("genetic") /\ memory.next # <<>> /\ Len(memory.next) < PopSize
    /\ \E i, j \in Winners(memory.pop) : \E c \in Crossovers(memory.pop[i], memory.pop[j]) :
       \E m1 \in Mutations(c[1]), m2 \in Mutations(c[2]) :
         memory' = [memory EXCEPT !.next =
                      Append(@, m1) \o IF Len(@) + 1 < PopSize THEN <<m2>> ELSE <<>>]
    /\ UNCHANGED <<current, cost, best, bestCost>>

GaGeneration ==
    /\ Searching("genetic") /\ Len(memory.next) = PopSize
    /\ LET i == Fittest(memory.next) IN
       IF Fitness(memory.next[i]) < bestCost
       THEN best' = memory.next[i] /\ bestCost' = Fitness(memory.next[i])
       ELSE UNCHANGED <<best, bestCost>>
    /\ memory' = [pop |-> memory.next, next |-> <<>>]
    /\ UNCHANGED <<current, cost>>

\* A block is cut where a connection does not hold.
CutChains(block) ==
    LET Step(pieces, t) ==
          IF pieces # <<>> /\ IsConnectionFeasible(problem, GaView, Last(Last(pieces)), t)
          THEN Front(pieces) \o <<Append(Last(pieces), t)>> ELSE Append(pieces, <<t>>)
    IN  FoldLeft(Step, <<>>, block)
\* The greedy's blocks replace an answer that costs more.
GaAnswerUnchecked == FlattenSeq([i \in DOMAIN best |-> CutChains(ByStart(best[i]))])
GaAnswer ==
    LET cut == FlattenSeq([i \in DOMAIN best |-> CutChains(ByStart(best[i]))])
    IN  IF Expense(cut) > Expense(Seed) THEN Seed ELSE cut

----------------------------------------------------------------------------
\* From the greedy's blocks to the search, and to the answer.  (With no block
\* to draw from, the genetic algorithm raises.)

SearchInit ==
    /\ algo \in problem.algos
    /\ current = <<>> /\ cost = 0 /\ best = <<>> /\ bestCost = 0 /\ memory = 0
    /\ answer = [blocks |-> <<>>, left |-> {}]

Start ==
    /\ stage = "planned" /\ algo # "greedy"
    /\ algo \in {"alns", "genetic"} => blocks # <<>>
    /\ stage' = "searching"
    /\ pairs' = SearchPairs(problem)
    /\ current' = Seed /\ best' = Seed
    /\ memory' = IF algo = "genetic" THEN [pop |-> <<Seed>>, next |-> <<>>] ELSE 0
    /\ UNCHANGED <<problem, todo, blocks, closed, unassigned, inserted, nextId, rounds, changed,
                   algo, answer>>
    /\ cost' = CostOf(algo, current)' /\ bestCost' = cost'

\* Only the greedy's own answer reports the trips it left out.
Publish ==
    /\ stage \in {"planned", "searching"}
    /\ stage = "planned" => algo = "greedy" \/ (algo = "alns" /\ blocks = <<>>)
    /\ stage' = "answered"
    /\ answer' = IF stage = "planned" THEN [blocks |-> Seed, left |-> unassigned]
                 ELSE [blocks |-> IF algo = "genetic" THEN GaAnswer ELSE NotEmpty(best), left |-> {}]
    /\ UNCHANGED <<problem, pairs, todo, blocks, closed, unassigned, inserted, nextId, rounds, changed,
                   algo, current, cost, best, bestCost, memory>>

Init == GreedyInit /\ SearchInit
Next ==
    \/ GreedyNext /\ UNCHANGED searchVars
    \/ Start \/ Publish
    \/ SaTurn \/ SaRestart \/ SaPerturb
    \/ TabuTurn \/ TabuBlank
    \/ AlnsTurn
    \/ GaPopulate \/ GaElite \/ GaBreed \/ GaGeneration
Spec == Init /\ [][Next]_vars

----------------------------------------------------------------------------
\* Properties.

\* A search neither loses nor doubles a trip of its seed, in the best solution
\* and in the one it changes in place; only the genetic algorithm, whose repair
\* adds what the greedy left out, may have more trips than the seed.
SeedIsKept ==
    stage = "searching" =>
        \A s \in {current, best} :
            LET all == FlattenSeq(s)
            IN  IsInjective(all) /\ IF algo = "genetic" THEN SeedTrips \subseteq Range(all)
                                    ELSE SeedTrips = Range(all)

\* The cost recorded for the best solution is the cost of that solution, and not
\* of a neighbour or of the state it was found from.  (Annealing may record the
\* cost of another one: a perturbed solution that beats the best one is copied
\* only after the next operator has changed it.)
BestCostIsReal == stage = "searching" /\ algo # "sa" => bestCost = CostOf(algo, best)

\* Whatever tabu search, ALNS and the genetic algorithm do to the blocks on the
\* way, and whatever is cut from them at the end, the answer costs no more than
\* the seed the search was given.
AnswerNoWorse ==
    stage = "answered" /\ algo \notin {"greedy", "sa"} =>
        IF algo = "genetic" THEN Expense(answer.blocks) <= Expense(Seed)
        ELSE CostOf(algo, answer.blocks) <= CostOf(algo, Seed)

\* What tabu search, ALNS and the genetic algorithm answer can be driven as
\* they see the request - unless it is the greedy's plan itself, or ALNS, which
\* keeps the chains it does not touch, started from one that cannot be driven.
\* ALNS takes trips out of chains without looking at the gap it leaves, and the
\* genetic algorithm evolves solutions that cannot be driven.
AnswerRuns ==
    stage = "answered" /\ algo \notin {"greedy", "sa"} =>
        \/ answer.blocks = Seed
        \/ algo = "alns" /\ ~AllFeasible(AlnsView, Seed)
        \/ AllFeasible(ViewOf(algo), answer.blocks)

\* The metaheuristics on their way and in their answer.
SearchSound == SeedIsKept /\ BestCostIsReal /\ AnswerNoWorse /\ AnswerRuns
==============================================================================
