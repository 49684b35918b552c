# OTIMIZ: specification and verification

TLA+ models of the OTIMIZ transit scheduling system, the TLC runs that check
them on small instances, and theorems checked by the TLA+ proof system.
Line numbers are those of `src/`; `PROJECT.json` maps each definition to the
lines it stands for.

Abbreviations: **OPT** is
`backend/src/modules/operations/optimization.service.ts`, **SE** is
`.../operations/optimization/scenario-evaluator.service.ts`.

## 1. The system

OTIMIZ assigns trips to vehicles (blocks) and blocks to drivers (duties). A
browser talks to a NestJS backend; the backend stores companies, trips,
parameters, schedules and runs in PostgreSQL and submits problems over HTTP to
a FastAPI optimizer; the optimizer queues them as Celery tasks in Redis, and
worker processes solve them. nginx stands in front, and docker-compose restarts
what stops.

    browser --HTTP/Socket.io--> backend --SQL--> PostgreSQL
                                   |
                                   +--HTTP (submit, poll)--> optimizer API
                                                                |
                              feed files --> inbox loop         +--> Redis --> workers

### Components

| component | state it keeps | operations | what is hard about it | what makes it correct |
|---|---|---|---|---|
| run lifecycle (OPT) | rows of `schedules` and `optimization_runs`; pollers, timers and unfinished writes in memory | `runOptimization`, `pollOptimizerTask`, `persistResults`, `persistFailure`, `finalizeOptimizationRun`, `onModuleInit` | lock read before an await and taken after it; three writers that are not awaited; retries; a crash loses the pollers | success is announced only when readable; a settled row stays; the two rows agree; each open row has an owner; everything settles |
| notifications (`optimization.gateway.ts`) | rooms of sockets | queued, progress, finished, failed, stale | sent before or after the writes they speak of | part of the run lifecycle |
| schedule cache (OPT 2127-2456) | one entry per company for 30 s | `getLatestSchedule`, deletes by the writers | entry set after three queries without a transaction; writers that never delete, or delete before they commit | no status ahead of its assignments; a stale entry goes away |
| what-if scenarios (SE) | `optimization_runs` rows | `generateScenarios`, `ensureScenarioRun` | two queries that are not one; concurrent requests | a request gets a run of its scenario; a steady run is reused |
| trip reassignment (OPT 1413-1537) | blocks and duties of a schedule | `reassignTrip` | its delete of the cache entry precedes its commit | part of the cache |
| tenant requests (`rls-tenant.interceptor.ts`, `base.repository.ts`) | a pooled connection per request, the company set on it | interceptor, repositories, pool | release on every path; a second connection needed while the first is held | no leak; a company's setting never outlives its transaction; nobody starves |
| optimizer API and smart cache (`api/routes/optimize.py`) | task ids by fingerprint in Redis | `POST /optimize/`, `GET /optimize/status` | check of the cached task, then use; evictions; what the fingerprint leaves out | a submission gets a task of its own work and rules; what it wished beside them may be another's |
| Celery tasks and workers (`core/celery_app.py`, `services/optimizer_tasks.py`) | broker queue, results | deliver, progress, acknowledge, time limit, requeue | a result and its acknowledgement are two steps; workers killed by the kernel | no task is lost or held twice; an answer stays |
| strategic feedback worker (`main.py` 110-257, `strategy_persistence_service.py`, `routes/strategy.py`) | inbox and archive on disk; scenarios, snapshots and reports in memory | inbox poll, reconcile, retention, routes | crash between storing and archiving; a move that fails, and the move of the failed one; a record that raises; ids that start again | a file is stored once, unless it can be moved nowhere; the latest snapshot is reconciled; the inbox drains |
| greedy vehicles (`algorithms/vsp/greedy.py`, `algorithms/utils.py`) | blocks in the making, of one call | placing, compaction, stitching | four loops, each with its own checks, over one list of blocks; a trip put into the middle of one | each trip in one block or reported; blocks drivable; fleet, depot and battery limits |
| metaheuristics (`algorithms/vsp/{simulated_annealing,tabu,alns,genetic}*.py`) | current and best solution, populations | moves, repairs, crossover, acceptance | moves that break blocks, repairs that pay for it, shared lists | the seed is not changed; the recorded cost is real; the answer can be driven and is no worse than the seed |
| joint post-optimization (`algorithms/joint_opt.py`) | candidates and the best plan | merge, swap, tails, pair repairs, neighbourhood search, feedback | blocks renumbered while duties name them; a plan rebuilt trip by trip | the trips stay the same; blocks stay drivable and named apart; the plan gets no worse |
| crew solvers (`algorithms/csp`) | tasks, duties, rosters | cut, extend, columns, merge, relief and soft passes, audit | the same labour rules computed twice; passes that rebuild duties | each half of each trip has one driver; accepted duties pass the audit; rosters rest |
| hybrid pipeline (`algorithms/hybrid/pipeline.py`) | best vehicle plan, first and final pair | `solve`, `_finalize` | stages that replace one of the two plans; a rounded baseline | never behind the flow plan, never worse than the first crew plan |
| service (`services/optimizer_service.py`) | the result that would be returned | dispatch, group fallback, repair, gate, quality stage | a stage after the gate replaces what the gate saw | a strict result has no hard issue; repair only helps |
| scale decomposition (`optimizer_service.py` `_run_decomposed_hybrid`) | chunks and their accepted results | partition, primary, repair, fallback, relaxed fallback, merge, stitch | three families of numbers rewritten on merge; a chunk that fails | groups stay together; what is published is covered once and refers to itself correctly |
| splitting solvers (`vsp/regional_decomposition.py`, `csp/chunked_orchestrator.py`, `joint_opt_boundary.py`) | parts and their answers | partition, parallel solve, merge, boundary joins | parts finish in any order or fail; windows overlap | nothing lost, nothing done twice where windows do not overlap |
| validator (`services/hard_constraint_validator.py`) | none | `audit_input`, `audit_result` | - | the yardstick of the service's decisions |
| rostering (`services/rostering`) | counters per operator, pairs | weekly and nominal solvers and their greedy fallbacks | counters overwritten by whichever duty comes last; a program without an optimum | days off, minutes, rest; a matching nobody would leave |
| exact and integrated solvers (`vsp/mcnf.py`, `large_scale`, `integrated`, `csp/cp_sat_csp.py`) | none | linear and integer programs | numerics | any answer is admitted (section 7) |
| validators, parameters, vehicles, lines, GTFS, users, auth, audit, e-mail, reports (backend) | their own tables | CRUD, refresh tokens | little runs concurrently | not modelled |
| state of charge, rule engine, input conversion, forecasts, assistant, routing client (optimizer) | none | pure functions, calls of other services | - | not modelled |
| frontend | page state | fetches, socket handlers | refetch on a notification | reason for `RowsTellOutcome` and `StaleAnswersEnd` |
| deployment, scripts | none | - | restart policy, Redis eviction | assumptions of the models |

`PROJECT.json` lists them all with their files, status and what is left out.

### Interactions

- The request handler and the poller of a run share the two rows and nothing
  else; the poller's promise, its timer and `finalizeOptimizationRun` run
  without being awaited.
- The backend and the optimizer share the task id. The backend polls
  `GET /optimize/status`; nothing is pushed to it.
- Submissions share tasks by way of the cache in Redis.
- Scenario requests call `runOptimization` without the tenant lock and share
  runs through the table.
- Readers of the latest schedule and its writers share the in-memory cache.
- Routes of the optimizer and the inbox loop share one in-memory store and one
  event loop; the loop does not await between two sleeps.
- All requests of the backend share one connection pool.
- Inside a worker one call runs: `OptimizerService.run` dispatches to the hybrid
  pipeline, another algorithm or the chunks; the pipeline asks vehicle solvers
  (each seeded by the greedy), then crew solvers, then the joint passes, which
  call the greedy crew solver again; the service audits the result with the
  validator. They hand plans to each other by value and share no other state,
  save that the feedback round of the joint passes renumbers blocks in place.

## 2. Modules

| module | models | extends / instantiates |
|---|---|---|
| `RunContract` | abstract: what a run promises to whoever sees its rows and its room | - |
| `OptimizationRuns` | run lifecycle, crash and restart of the backend, failing statements | instantiates `RunContract` |
| `OptimizerTasks` | POST and GET of the optimizer, cache, Celery queue, workers, Redis eviction | - |
| `ScheduleCache` | `getLatestSchedule` against every writer of schedules | - |
| `ScenarioRuns` | `ensureScenarioRun` and the runs it shares | - |
| `Stores` | the cache and the scenario runs, one of them at work | `ScheduleCache`, `ScenarioRuns` |
| `StrategyFeed` | inbox loop, routes, retention, crash of the process | - |
| `TenantRequests` | row-level-security interceptor and the connection pool | - |
| `TripLinks` | when a trip may follow another, what blocks cost, preferred pairs | - |
| `GreedyVehicles` | `GreedyVSP.solve`: placing, compaction, stitching | `TripLinks` |
| `VehicleSearch` | the four metaheuristics, from the greedy's plan to their answer | `GreedyVehicles` |
| `PostOptimization` | `joint_duty_vehicle_swap` | `TripLinks` |
| `CrewDuties` | tasks, `_can_extend`, the audit of a duty, rosters | `TripLinks` |
| `CrewPlans` | the greedy and the two set-partitioning crew solvers, merges and passes | `CrewDuties` |
| `CrewAndJoint` | the crew solver and the post-optimization, one of them at work | `CrewPlans`, `PostOptimization` |
| `HybridPipeline` | the ladder of vehicle solvers and the crew stages | - |
| `PlanService` | `OptimizerService.run` around the pipeline | `HybridPipeline` |
| `PlanAudit` | the hard-constraint validator | `TripLinks` |
| `SolverAnswers` | the answers, good and bad, a solver may give for a set of trips | `PlanAudit` |
| `ScaleChunks` | `_run_decomposed_hybrid` | `SolverAnswers` |
| `SolverChunks` | regional decomposition, crew chunks, boundary joins | `SolverAnswers` |
| `ProblemParts` | a request cut by the service or by a solver | `ScaleChunks`, `SolverChunks` |
| `WeeklyRosters`, `NominalRosters` | the two rostering solvers | - |
| `OptimizerCalls` | a call of one kind: plan, parts of a plan, week or names | `PlanService`, `ProblemParts` and the two |
| `OptimizationRunsProofs`, `TenantRequestsProofs` | inductive invariants and theorems | the module of that name, `TLAPS` |
| `OptimizerProofs` | the same for the optimizer's queue and for its service | `OptimizerTasks`, `PlanService` |
| `StoreProofs` | the same for cache, scenario runs and feed | `ScheduleCache`, `ScenarioRuns`, `StrategyFeed` |
| `DivisionProofs`, `VehicleProofs`, `JointProofs` | the same for the two rosters, the chunks and the parts of a problem, for the greedy under every search, and for the post-optimization | the two roster modules and `ProblemParts`, `VehicleSearch`, `PostOptimization`; `FoldTheorems` |
| `FoldTheorems` | induction, folds, sums, lists and sorting, for the three before | `TripLinks`, `TLAPS` |
| `MC...` | constants for TLC | the module of that name |

Granularity. In the backend a step is the code between two awaits, because
nothing else runs on Node's event loop meanwhile. A database statement that
fails may or may not have been applied. In the optimizer's API a handler's
steps are its Redis and Celery calls. The inbox loop runs no route within an
iteration, so routes are guarded by `at = "asleep"`; a crash is not. In the
algorithms nothing runs concurrently, and a step is one turn of a loop or one
stage: what is hard there is the long sequence of replacements, whose order is
that of the code, and whose data-dependent and random decisions are choices.

Two levels. `VehicleSearch`, `CrewPlans` and `PostOptimization` look inside the
solvers on small requests; `HybridPipeline`, `PlanService` and `ScaleChunks` take
a solver as a choice among the plans it may return, bad ones included, and say
what the stages around it keep.

### OptimizationRuns

Each request owns one row of each table, so `schedule`, `run` and `age` are
functions of the request. `pc` is the place in the code: `admitted` to
`aborting` in `runOptimization`; `asking` (HTTP poll in flight) and `waiting`
(timer) in `pollOptimizerTask`; `persisting`, `stored`, `storedBad` in
`persistResults` and after it; `failing`, `failStored`, `gaveUp` in
`persistFailure`. `finalizing` holds the value that a
`finalizeOptimizationRun` in flight will write. `told` is what the room was
sent. `backend` is `up`, `down` or `reconciling` (between the two updates of
`onModuleInit`, which Nest awaits before the server listens).

The optimizer is a choice: any answer at any poll. `OptimizerTasks` says which
answers it gives.

### RunContract

Six actions: open, register, settle, close, announce, restart. The refinement
maps `outcome` to `schedule`, `record` to `run` and `announced` to the requests
whose room was told "finished".

### OptimizerTasks

`pc` of a submission runs through the handler (read the cache, read the state of
the task found, decide, enqueue, write the cache) and then polls. `queue` and
`running` are the broker's messages; a message stays with its worker until the
task is done (`acks_late`) and returns to the queue if the worker dies
(`reject_on_worker_lost`). Storing a result (`FinishTask`, `TimeLimit`) and
acknowledging the message (`Acknowledge`) are two steps, and the worker may die
between them (`stored`): the task is then executed again, and Celery keeps the
success it has. A problem is its `work` (trips, vehicles, depots), its `rules`
(algorithm and parameters) and its `wish` (`algorithm_preference`, `depot_id`,
`time_budget_s`, which reach the solver and not the fingerprint). `state` is what
Celery's backend says, `PENDING` also of an id it does not know. `Killers` are
problems that exhaust the worker's memory. An eviction removes the queue, a result or a cache entry.
One of the `SUCCESS` kinds carries an error, and one a result that the status
handler cannot serialise.

### ScheduleCache

Content is a commit number, so an answer with parts of different commits is a
record of different numbers. A reader is at the row query, or at the two
assignment queries (started together, so they finish in either order). Writers:
create, settle (then the delete, after the await), the catch of
`runOptimization`, reassignment (delete, then commit) and restart.

### ScenarioRuns

A request is one call of `ensureScenarioRun`: query for a recent COMPLETED run,
query for one in flight, else record, submit and read the row back. A run that was
submitted is settled by its poller (`Finish`), or its poller ends without having
settled it (`PollerEnds`: `persistResults` throws, `persistFailure` gives up, or the
last write fails); such runs, and those whose submission failed, are in `lost`.
`Stores` puts this module and `ScheduleCache` into one run: they share nothing, and
one of them is at work.

### StrategyFeed

`inbox` and `archive` are the disk and survive a crash. `at` is the place in the
loop. A file is good, invalid (moved to the archive with the prefix `error-`) or
poison: it can be stored but not reconciled. Reading a file and moving it can fail
(`faults`): the error path moves it instead (`Refuse`), and if that fails too the
failure is suppressed and the file stays in the inbox (`again`, if it was stored).

### TenantRequests

`own` is the connection of the interceptor's query runner, `other` one taken by
a statement through a repository that was injected directly. `company` is
`app.current_company_id` of a connection, `line` the pool's waiters.

### TripLinks, GreedyVehicles, VehicleSearch

A problem holds its trips (named by index), the deadhead matrix, the parameters
and one or more vehicle types; costs are integers in quarters of the program's
unit, so that a minute at 0.25 costs 1. `GreedyVehicles` keeps the open and
closed blocks, the trips to place and those left out; `OpenBlock`, `AppendTrip`
and `LeaveTrip` are the outcomes of a turn of the placing loop (`Squeezes`: the trip
of a group may go into the middle of a block, right behind its mate; `inserted`
remembers which did), `Compact` and
`Stitch` turns of the later loops. `VehicleSearch` continues from `planned`: its
`current`, `best` and `memory` are those of the chosen algorithm, with the
algorithm's own view of the request (`ViewOf`: the searches read a layover of 0
as 8 minutes, and some ignore the break rules). Random draws are choices; an
answer may be asked for after any turn, as the time limit does.

### PostOptimization

The stages of `joint_duty_vehicle_swap` in order: merge, swap passes, candidates
(tails, pair repairs), neighbourhood search (`Destroy`, `Repair`, `LnsJudge`; of a
long block the code tries some places only, `Tried`),
judging one candidate after the other, and the feedback round for plans with
violations. The crew solver's answer for a candidate is any of `Crews`. `best`
carries `refs`, the blocks as the crew's duties know them.

### CrewDuties, CrewPlans

A trip may be cut in two at a mid-trip relief, so a piece is a trip or one of
its halves, a task a run of pieces, a duty a sequence of tasks with the counters
of `_can_extend` (work, driving since the last break, spread, unpaid time).
`Broken` is the audit, computed from the tasks and not from those counters.
The law a request is solved under is what `__init__` makes of it: with breaks
enforced the layover is at least the break. The priced solver reads `_can_extend`
from its cache, so the answer may be that for another duty with the same key
(`Cached`). `CrewPlans` forms duties greedily or from columns, merges them and runs the
relief and soft passes; each pass takes any move whose result the code's
comparison admits (`Rank`: the components that are compared first), and ends at
any point. `CrewAndJoint` puts it and `PostOptimization` into one run.

### HybridPipeline, PlanService

A plan is the counts that are compared: issues, vehicles, cost, trips left out;
violations, uncovered blocks, crew, price. The pipeline takes the flow plan,
lets annealing, tabu search and the genetic algorithm replace it where
`IsBetter` or `IsSmaller` holds, builds a crew plan, polishes it, runs the joint
passes and compares prices with the baseline, which `Cents` rounds. `PlanService`
wraps it: refusal, dispatch, group audit, fallback attempts, repair, gate,
quality stage.

### PlanAudit, SolverAnswers, ScaleChunks, SolverChunks

`PlanAudit` gives the issues of a request and of a plan as a set. `SolverAnswers`
enumerates plans of a set of trips: chains that may be driven, whole or with a
block cut in two, duties without overlaps, a trip left out or forgotten.
`ScaleChunks` follows a request through partition, solve, repair, fallback and
relaxed fallback of each chunk to merge and stitching. A chunk is the set of its
trips and of their group numbers at the cut; `Injected` is what every run, of the
request or of a chunk, does to the numbers first, and `BeginChunk` keeps it in
`problem`, since the runs share the trips. `SolverChunks` holds the
three places where a solver cuts its own work; parts are solved in any order,
fail one by one or with the whole process pool.

### WeeklyRosters, NominalRosters, OptimizerCalls

`taker` says who drives each duty, `minutes`, `worked` and `lastDuty` are the
counters of the loop. CP-SAT may give any assignment that satisfies its
constraints, or nothing, upon which the loop places duty after duty. In
`NominalRosters` the linear program may give any matching of valid pairs; with
any other status the pairs are taken in order. `OptimizerCalls` lets TLC check
the kinds of call in one run: none reads the state of another.

## 3. Runs

| run | question | shows | instance |
|---|---|---|---|
| `runs_safety` | do rows, notifications and contract stay consistent, does each schedule settle, does the lock open? | holds | 2 requests (1 locked), 2 attempts, 2 errors, 2 tries, 1 crash, 2 faults |
| `runs_lock_race` | does the lock admit one run of a company at a time? | violated, see 5 | 2 locked requests |
| `tasks_safety` | are tasks lost, held twice or mixed up, is each submission answered? | holds | 3 submissions, 2 problems of one key and 1 that kills its worker, 2 task ids, 2 workers, 1 loss or eviction |
| `tasks_wishes` | is a scenario that is new enqueued? | violated, see 5 | the same |
| `tasks_killer` | does the loop end when a worker dies of its task? | violated, see 5 | the same |
| `stores_safety` | are torn reads of schedules harmless and stale ones temporary? is the right run reused, does a run in flight settle? | holds | 2 readers, 2 schedules, 3 commits, 1 reassignment, 1 restart; or 2 requests, 2 scenarios, 2 runs, 1 run without a poller at a time, 1 restart |
| `feed_safety` | are files stored and reported once, does the loop get everything done? | holds | a good, a poison and an invalid file, 1 route call, 1 crash, 2 failing reads or moves |
| `tenant_safety` | do connections leak, mix companies or starve requests? | holds | 3 requests with and 1 without a company, 2 connections, 1 fault |
| `vehicles_safety` | do greedy plans and search answers hold? | holds | each choice of 4 of 10 trips and two chosen sequences under 13 requests; 12 sequences in which a group's vehicle has gone on, under 32; searches over 3 to 5 trips |
| `search_safety` | does each trip have one driver, do duties pass the audit, does post-optimization keep trips, blocks and quality, do plans get worse? | holds | some 30 crew requests of 2 to 6 trips, 3 solvers, 2 moves of a pass; 6 plans of 7 trips, 3 parameter sets, 2 first crew answers, 4 crew answers, 3 candidates of a kind, 2 rounds |
| `calls_safety` | what is a published plan, week or matching worth? is anything lost or doubled where work is cut? | holds | 13 planning requests with 6 vehicle and 5 crew plans; 13 large requests of 1 to 6 trips with every answer of `SolverAnswers`; jobs of 4 to 6 trips; 15 weeks; 5 matchings |
| `calls_rest` | is the rest kept between the duties of consecutive days? | violated, see 5 | the same |

Why the bounds are enough.

- Two requests: every property of `OptimizationRuns` speaks of one request or of
  a pair; requests interact only by the lock. Two attempts, errors and tries
  give each counter a value below its limit, at it, and a reset in between. With
  two faults and two tries `persistFailure` can exhaust its retries.
- `LockHours = 1`: a row is either younger than the limit or not; the model ages
  it in one step.
- Three submissions: two differ in nothing but their wish and share a task, while
  the third kills its worker. Two workers let a message come back to another one;
  with one fault a worker dies before or after it stored its result, or a key goes.
- In the cache model a stale entry needs a reader that began before a commit and
  set the entry after the delete, and a second reader that is served by it.
  Three commits allow a result, a reassignment and a newer schedule.
- Two runs of two scenarios: a query can find none, the right one, or one of the
  other scenario. `MaxLost` bounds the runs that stay RUNNING at one time: one is
  enough to be handed out beside one that has a poller.
- In the feed model one snapshot and one report are retained, so that with
  three files and a route call retention has something to remove. Two faults are a
  move that fails and the move to the error name that fails too.
- Two connections and three requests of companies: two interceptors can hold
  the pool and wait for each other, and one is left over in the line.
- Vehicles: a stitch needs two blocks of two trips, a compaction a block from
  which one trip leaves; the twelve sequences squeeze the second trip of a group between its mate and the trip
  that took its place; the ten trips hold pairs that touch, pairs that need a
  deadhead, overlaps, two lines, two depots, and rides that empty a battery. The
  fleet limit takes the values 0 (none) to 3. The bounds on lists and stale turns let each branch be
  taken and end the search; one perturbation follows a restart of the annealing
  where the code makes ten to fifty, so that longer runs of them are not covered.
- Crew: a relief move needs two duties with two tasks, a rebuild three; the
  requests are chosen so that each rule of `_can_extend` refuses something, and
  so that each pass has a move to make. Days of the second week are among them.
- Plans of `calls_safety` differ in each count that is compared, in both
  directions, and two prices are half a cent apart around the rounding.
- Chunks: two to three trips of a chunk, two chunks at least, a group larger
  than a chunk, pairs that two chunks find and number alike, two blocks that may be joined across chunks and two that may
  not; windows with a trip in the overlap, a block at the edge, a part that is
  full; connections on which the audit and the scheduler disagree (an enforced layover
  of 10, a tolerance of 5, a break of 4).

`CHECK_DEADLOCK FALSE` stands where requests are finite and the system rests
when they are served. `feed_safety` checks deadlock: the loop never rests.

A property named by a run may be a conjunction of properties that hold together;
each part is stated, with its own comment, above it (`LimitsHold` is the fleet
limit, one depot and the battery).

Each property also has a mutant: a definition of the module, changed as a
plausible bug would change it, under which TLC finds the property violated. They
stand next to the definition they replace.

## 4. Fairness

| module | fair | because |
|---|---|---|
| `OptimizationRuns` | code of a request that has started, `FinalizeRun`, the two steps of the restart, time | the event loop runs what is ready; polls have a timeout of 10 s; `restart: unless-stopped`. The submission POST has no timeout: that it ends is an assumption |
| `OptimizerTasks` | handlers, polls, the end of a held message and its acknowledgement; strongly, delivery of a waiting message | `task_time_limit` ends what hangs. The queue is a list served from its head and a message that comes back goes to its end, so each is taken in its turn |
| `ScheduleCache` | started reads, pending deletes, time | awaits of queries end |
| `ScenarioRuns` | started calls; the end of a poller, settled or not | attempts and retries of a poller are limited (`OptimizationRuns`) |
| `Stores` | the fairness of the store at work | as above |
| `StrategyFeed` | the loop, the clock; the bound on failing reads and moves | one asyncio task, never cancelled before shutdown. A disk that refuses every move for ever keeps its file in the inbox and stores it at every poll: that this ends is an assumption |
| `TenantRequests` | steps of requests, the pool serving its line | statements end, the pool is first come first served |

The modules of the algorithms (`VehicleSearch`, `PostOptimization`, `CrewPlans`,
`CrewAndJoint`, `OptimizerCalls`, `ProblemParts`) state no fairness and no liveness: their loops
are bounded by counters or by the clock, and every property is about what may
have been done when they stop, at whatever turn.

No fairness makes users send requests, producers drop files, anything fail, or
an administrator restart a backend that is up.

## 5. Where the code and its words differ

With a run and a counterexample:

- **Two optimizations of one company** (`runs_lock_race`). The lock is read at
  OPT 201 and taken by the save at OPT 222, with an await between. Two requests
  are both admitted, although the second should be told (OPT 213) that one is
  in progress.

- **A new scenario that is not solved** (`tasks_wishes`). `optimize.py` 146 says a
  submission is enqueued "caso seja um cenário inédito". The fingerprint (54-65)
  leaves out `algorithm_preference`, `depot_id` and `time_budget_s`, which the task
  hands to the solver: a request that differs from a cached one only in them is
  answered with the other's task.
- **A loop that was to be avoided** (`tasks_killer`). `celery_app.py` 54 says of
  `task_reject_on_worker_lost` that it "evita loop infinito se worker morrer por
  OOM". It returns the message to the queue, nothing counts deliveries, and the
  submission is never answered. `SubmissionsAnswered` excepts the submissions that
  were handed such a task; the others are answered all the same.
- **A rest that is not kept** (`calls_rest`). `weekly_solver.py` 7 and 65-66 and
  `api/routes/rostering.py` 133-135 promise the rest between consecutive days. The
  fallback remembers, per day, the end of the duty it placed last (361): of two duties
  of one day, the later one sent first, the earlier one decides, and the next day may
  begin 420 minutes after the operator's day ended. `RestKept` says when the rest
  holds. `tests/unit/test_weekly_rostering.py` 172-190 has one duty a day, and
  106-116 expects no second one; the tests are answered by CP-SAT.

Met while modelling, and part of the models without a run of their own. In the
backend:

- A failed submission leaves its run RUNNING until the next restart, because the
  catch at OPT 465 writes the schedule only. `RunningHasOwner` and
  `OptionSettles` name it as their exception. `ensureScenarioRun` meanwhile goes on
  answering with that run.
- When `persistResults` throws, `done` is already set and the catch of the
  poll returns in silence (OPT 989): the schedule stays PROCESSING, the room
  is told nothing, and the company is locked for an hour. `ProcessingHasOwner`
  names it, and `OptionSettles` the run that stays RUNNING with it.
- A read that was in flight when a result was stored sets its old content after
  the delete that was to remove it (OPT 2450); it is served until it expires.
  `StaleAnswersEnd` shows that it does expire.
- A run that completes between the query for completed runs (SE 263) and the one
  for runs in flight (SE 284) is found by neither, and a new one is enqueued;
  `SteadyRunIsReused` speaks of runs that stay as they are. Nothing keeps two
  runs of a scenario from being active together.
- `reassignTrip` deletes the cache entry before its transaction commits. It also
  builds its request from `metadata.trips`, which `persistResults` never writes
  (OPT 1256-1270): evaluate-delta is asked about blocks without trips and without
  vehicle types, moves nothing, and the schedule's total cost becomes 0.
- With as many concurrent requests of companies as the pool has connections,
  each of which needs one more, all wait for ever: the pool has no timeout.
  `RequestsAnswered` names this state (`Exhausted`), and it is reachable.
- A commit that fails in the interceptor leaves its callback before the
  release; the rejection is unhandled and ends the process.

In the optimizer's API and workers:

- Two submissions of one problem that both miss the cache both enqueue it.
- Celery's FAILURE is answered with HTTP 500, where the docstring of the status
  route (`optimize.py` 335) says `{status: "failed"}`. The backend counts it as
  a failed poll and gives up after `MaxErrors`.
- Redis is configured to evict any key, the queue included; `TasksKept` and
  `SubmissionsAnswered` speak of behaviours without an eviction.
- A feed file that was stored and can be moved neither to the archive nor to the
  error name (`main.py` 207, 223-224, where the failure is suppressed) is stored again
  at the next poll. `SnapshotsOnce` excepts the files of `again`.
- A feed record that cannot be reconciled ends each iteration before its
  cleanup: `LatestIsReconciled` excepts it.

In the algorithms:

- What the greedy leaves out because of the fleet limit is in no list of the
  answers of annealing, tabu search and ALNS (`simulated_annealing.py` 324).
  `SeedIsKept` therefore compares with the seed, not with the request.
- Annealing may record, as the cost of the best solution, that of another one: a
  perturbed solution is copied after the next operator has changed it.
  `BestCostIsReal` and `AnswerNoWorse` except annealing.
- The candidates of the feedback round share the blocks they do not split, with one
  another and with the best plan, and each numbers them anew in place
  (`joint_opt.py` 72, 76-154): the last to do so decides, and with two blocks split
  in a row of three, two blocks of one plan end with one number. The search numbers
  new blocks by count (1002), with the same effect. `BlocksNamedApart` says of which
  plans the numbers can be relied on: all that neither of the two made, if the crew
  has no violations, and the proof shows that there are no other exceptions.
- A trip that takes no time passes `api/schemas.py` 193-195 and would be sorted, by
  its start, behind the one it has to precede; `audit_input` refuses it, in every
  mode (`optimizer_service.py` 367-388). `BlocksStayDrivable` is about trips that take
  time.
- The run of a chunk looks for pairs among the trips that have no number and counts
  them from -1 again (`trip_group_inference.py` 170): pairs of different chunks get one
  number, and the final group audit (`optimizer_service.py` 421) takes them for one
  group, which it finds split. `GroupsStayTogether` says that no chunk gets such a
  number unless its own run found the pair.
- `_can_extend` takes two short pauses for a break, the audit does not; and the
  merges between the passes ignore the limit on unpaid time. `SameBreaks` says
  under which parameters the two computations agree.
- A duty that is put before another takes over its tasks but keeps its own
  segments (`csp/greedy.py` 2079). The model orders duties by their tasks.
- A trip that is put into the middle of a block is checked against its two
  neighbours' times only: not its line, its depot or the battery, whose charge the
  block forgets (`vsp/greedy.py` 376-404). `BlocksRun` holds of such blocks; `OneDepot`
  and `BatteryLasts` except them.
- The scheduler takes the tolerance off an enforced layover before it asks for the
  break, the audit asks for both in full. `RulesAgree` says when the two agree; of
  requests for which they do not, `JoinedBlocksRun` says that a connection the audit
  finds too tight is one the scheduler takes.
- `set_partitioning.py` 8-10 and 311-313 say that each trip is covered once. The
  partition is over tasks: of a vehicle plan that has one trip in two blocks both
  tasks are covered, and the trip is driven and paid twice. `TripsDrivenOnce` says
  "once" of plans that have no trip twice, and "at most once" of all plans of the
  greedy crew solver, which does leave the second task out.
- The weekly fallback counts duties, not days; `DaysOffKept` is proved although it
  may give an operator several duties on a day.
- By windows, the regional decomposition may drive a trip of the overlap twice;
  `PartsCoverOnce` says "at least once" there.

## 6. Proofs

Eight modules of proofs, with no bound on any constant.

**`OptimizationRunsProofs`**, for every set of requests, every subset that
takes the lock, and all positive limits and bounds (`GuardedAssumption`,
`LimitsAssumption`):

| theorem | states |
|---|---|
| `TypeCorrect` | `Spec => []TypeOK` |
| `OutcomeTold` | `Spec => []RowsTellOutcome`, from `FinishedReadable`, `CompletedRunBacked`, `RowsAgree` |
| `RowsOwned` | `Spec => []RowsHaveOwners`, from `ProcessingOwned`, `RunningOwned` |
| `SettledStays` | `Spec => SettledIsFinal` |
| `ImplementsRunContract` | `Spec => ImplementsContract` |

Argument. `TypeOK` is not inductive: it bounds the counters, and a step may
count beyond the bound unless it is known where the code goes on counting.
`TypeInv` adds `CountersBelowLimits` (an error count below its limit while
polling, failed tries below theirs while `persistFailure` repeats, and never more
tries than failed statements). The safety properties need what the code knows
at each place:

- `ScheduleAtPlace`, `RunAtPlace`: the rows at each `pc`; `persistResults` can
  only find its row PROCESSING, for instance, so nothing settled is overwritten.
- `FinalizationAgrees`: a finalization in flight belongs to a run that is still
  RUNNING and writes what the schedule says.
- `MemoryGone`: while the backend is not up no code of a request runs, so a
  restart does not race with a poller it has lost.
- `SchedulesReconciled`: when the runs are failed no schedule is PROCESSING.

`IInv` is their conjunction with the properties. `InitIInv` and `NextIInv` prove
it inductive, one step per action; the safety theorems follow from
`Invariance`. For the refinement, `InitContract` maps the initial states, and
`StepContract` maps each step under `IInv` to a step of the contract or to a
stutter.

**`OptimizerProofs`, the service**, for every set of plans a solver may return, every
price function and every request (`PlansMeasured`: counts are numbers; `PlansAudited`).
Of the pipeline: `BestPlanKept` (the kept vehicle plan is never behind the flow
plan) and `AnswerNoWorse` (`PipelineNoWorse`). `LadderInv` ties the plan at work to
the flow plan through the stages; a plan that wins by `IsBetter` or `IsSmaller` is
not behind one that was not behind (`BetterKeeps`). `AnswerInv` says how the pair at
each stage compares with the first crew plan: the joint passes only lower
violations and trips left out, and the price is compared with a baseline that
`CentsBound` says is at most half a cent too high. Of the service:
`ServicePipeline` (`PipelineKept` in every call the service makes), `StrictIsClean`
(`StrictMeansClean`) and `GroupsOnlyHelped` (`GroupRepairOnlyHelps`). `LexFirst` and
`LexSecond` say what an order of tuples keeps; `ChosenNoHarder` concludes that no
candidate the quality stage chooses has more hard issues, so the gate's verdict
survives the stage after it; `RankedNoWorse` does the same for the fallback
attempts and groups.

**`FoldTheorems`** holds what the other modules need of data of any size. An
induction theorem with a predicate as a parameter cannot be instantiated, but a
set can take the predicate's place: a smallest set, or number, outside it is
contradicted by the minimum of a well-founded order. `SubsetInduction` and
`NumberInduction` are the result. With them `FoldExists` shows that the recursion a
fold over a set stands for has a solution, `AnyLast` that the element taken last
does not matter, and `SumWith`, `SumWithout`, `SumSame` what a sum gains and loses.
`SortedLists`, `PickedLists` and `LeastExists` say that sorting, picking and choosing
the cheapest do what their names promise, whatever the set. `ListsOnce(q, A)` says
that a list has the members of `A`, each once; `JoinedOnce`, `FlatOnce`, `CutInTwo`,
`HeadOff`, `AppendedOnce` and `InsertedOnce` say what joining, flattening, cutting and
inserting make of it.

**`VehicleProofs`**, for every request with any number of trips, terminals, vehicle
types and parameters (`RequestsAssumption` gives the numbers their type and the
fleet at least one vehicle type, `ChargeAssumption` says that "no charge" is not a
number), and for every search that follows the greedy: `TripsStayOnce`
(`TripsOnce`), `BlocksAlwaysRun` (`BlocksRun`) and `LimitsAlwaysHold` (`LimitsHold`),
from `VehicleInvariant`. `VehicleInv` has three parts (TLC found no state of
`vehicles_safety` outside it before it was proved):

- `Listed`: two blocks never have one number, and no number is ahead of the
  counter. The loops find blocks by number (`At`); with a number used twice an
  append, a move or a stitch would change one block and drop another. No block
  stays closed after the placing, so later loops see all of them.
- `Parted`: blocks have no trip in common and no trip twice, and waiting, left
  out and placed are a partition of the request. `TripsOnce` counts places; that a
  step replaces blocks by one with their trips (`ExchangeKeeps`) is a statement
  about sets, which is what a step preserves.
- `Sound`: what `BlocksRun` and `LimitsHold` say of each block, and more. Under one
  depot both ends of a block are at it (`AtHome`): `FitsBefore` and `Stitches` compare
  with the ends, so `OneDepot` alone would not survive a step. An electric fleet
  has nothing to do after the placing, since a move would not recompute a charge.

A step changes one block (`NewBlockGood`, `WithTripGood`, `MovedGood`,
`StitchedGood`: the block that results is as good as those it came from) and the
two lists (`ClosedBlocks`, `JoinedBlocks`, `RemovedBlock`: numbers stay apart and the
blocks are those there were but for the exchange). A trip put in the middle of a
block changes two links; `InsertedSeq` and `InsertedGood` show that the block stays
linked, since the code checks both. It does not check their
line, the depot or the charge, so those conclusions except such blocks (`Untouched`,
`inserted`; section 5). `ReplayStep` and `ReplayExtends` open the recursive
replay of a battery (`RecursionExists`): a trip put behind a block leaves the
charges before it as they were. `BlocksRun` measures the span of blocks with two
trips or more, as the code does: no loop compares a single trip with it.

**`JointProofs`**, for every plan the post-optimization is given and every answer of
the crew solver (`ProblemsAssumption`: the given plan drives a trip once and has no
empty block, which is what the schedulers before it return, and a limit on the span
is a number; `CrewsAssumption`, `LimitsAssumption`): `TripsStayKept` (`TripsKept`),
`PlanNeverWorse` (`PlanNoWorse`) and `BlocksStaySound` (`BlocksSound`), from
`JointInvariant`. `TripsKept` counts trips of candidates; what makes it inductive is
`Holds(s, S)`, that blocks have no trip in common, none twice and together exactly
`S`, and that each can be driven if the given ones can (`Runs`):

- `Working`: by stage, which blocks hold the given trips. During a repair neither
  the blocks nor the list of trips to insert does, only both together
  (`Repairing`), and the search's own best must hold them all the while, since it
  is what a rejected repair goes back to. Blocks are not empty, without which the
  gap to a last trip would mean nothing and the cheapest place need not exist;
  before the candidates are made their numbers are apart, since candidates are
  sorted by keys that name blocks, and a list of equal keys would lose some.
- `Proposed` and `Chosen`: the candidates and the best hold the given trips and
  leave out what the given plan left out, or nothing; the best is no worse than
  the given plan, which each comparison extends by one step (`BetterIsNoWorse`).
  Numbers are apart in candidates that neither the search nor the feedback round
  made, and in a best plan of that kind; a plan the feedback round has renumbered
  in place has violations, and no plan of the round is chosen before it
  (`NoFeedbackYet`).
- `Runs` is where a block is judged by less than the whole of it. A tail is taken
  over if its first trip fits the last one of the other block, and the code then
  sorts the trips: `ChainClimbs` (along a block that can be driven trips start
  later and later, if they take time), `ChainSorted` (so sorting puts the tail
  where it was judged) and `AppendedRuns` make that enough, and `WindowRuns` lets
  what is cut off be driven too. Lines are compared as sets (`RunsOneLine`), and
  blocks of one trip are not judged (`ShortRuns`).

Each way to rebuild a plan has its lemma: `SortedHolds`, `RenumberedHolds`,
`MergedHolds`, `PassHolds` (a fold over all pairs of blocks), `TailsMade`, `RepairsMade`,
`KeptHolds`, `PutInHolds`, `PutLastHolds`, and `SplitsHold` for the feedback round, a
fold that changes the plan its next turn reads. `KeysOrder` and `FirstListed` show
that the first candidates by key are candidates.

**`DivisionProofs`, rosters**, for every set of requests and operators (`WeeksWellFormed`,
`OperatorsKnown`, `CallsNumbered`). Weeks: `WeekLimits` (`WeekLimitsKept`) and
`RestIsKept` (`RestKept`), from `WeekInvariant`. The loop checks counters, the
properties speak of assignments: `WeekInv` ties the counters to the duties placed
so far (`DaysCounted`: an operator has no more days than counted duties;
`MinutesCounted`: the minutes of an operator are the sum over the duties given;
`LastIsGiven`, `LastIsLatest`: `op_last_end` is the end of the duty placed last on
each day; `NoneAhead`: nothing ahead of the loop is placed; `RestSoFar`: the rest
to the next day holds for a duty that no later one of its day ends before). Names: `Matching`
(`MatchingHolds`), from `NamesInv`: a pair the loop has passed is matched or blocked
by a match that comes before it (`Blocked`), and each match comes before what is
left, so that at the end no two would rather have each other.

**`DivisionProofs`, chunks**, for every set of requests (`RequestsAssumption`):
`GroupsStay` (`GroupsStayTogether`). The property is about the cut and about every
number given later, so the invariant `ChunksKept` has three parts: the request is
settled (`Settled`: what it enforces has its numbers already, which `AskedSettled`
shows of the injection, so that a chunk's run can only add pairs of its own), the
chunks divide the trips by whole units (`Divides`, from `Partitioned`: a fold over
the ordered units, `UnitsOrdered`), and the chunks that have begun keep what the
others have (`BegunOnes`). `GroupsNumber` says what a row of numberings leaves
unchanged, `PairsIn` that pairs are found among the trips of the run, `RunNumbers`
which numbers a run may give.

`PublishedStaysWhole` (`PublishedWhole`), for the same requests and whatever the
solvers of `SolverAnswers` answer to a chunk, flawed plans included. The property
speaks of the merged answer only; between a chunk's plan and that answer lie the
repair, the fallback, the acceptance, a renumbering of blocks and rosters, the
joining of vehicles with a second renumbering, and the check of the coverage. The
invariant `PublishInv` follows the plan through them:

- `PlanKept`: while a chunk is judged, its plan fits the chunk's trips (`PlanFits`):
  no two blocks share a number or a trip (`BlocksApart`), each duty has tasks of
  those blocks, and the tasks together cut the blocks that have a duty, each trip
  in one task (`DutiesFit`). It is shown of every answer a solver may give
  (`PartsOf`, `PartsOrdered`, `CutBlockFits`) and of the repair, a fold
  that cuts blocks and adds others (`ScrapsOf`: the pieces and what is still open
  are the trips read so far).
- `RecordsKept`: accepted results fit different chunks that the loop has passed,
  and no block in them is bare: this is what acceptance checks. Chunks share no
  trip (`Divides`, from `ChunksKept`), so neither do the results.
- `MergeKept`: tasks of the merged answer name blocks of it by their new numbers
  (`Renumbers`, `MergesTo`: by induction along the records), duties share a roster
  only where they did in one chunk (`RostersKeep`), and both survive the joining
  (`Joined`: every old vehicle is in one new one, `NewId` finds it; `RemappedTask`).
  The coverage of the blocks is checked by the code before it publishes; that of
  the duties is not, and is what the invariant is for
  (`FittingDutiesDriveOnce`: a trip that is once in the blocks is once in the duties).
- `AtChunk` and `RequestKept`: where the loop is, and for which request.

**`DivisionProofs`, parts**, for every set of jobs (`JobsAssumption`: a job's blocks
are not empty and share no trip, as vehicle solvers leave them; windows have a
positive length): `PartsStayCovered` (`PartsCoverOnce`), whatever the solvers of
`SolverAnswers` answer and in whatever order the regions come back, fail, or are
solved again. The property speaks of the end; what holds on the way is `SolverInv`:

- `RegionsKept`: the parts are the regions (`RegionsCover`: none is empty and none
  of the trips is left out; groups by depot share no trip, windows may), and what
  came back for a region has its trips on blocks, each once, but the reported ones
  (`RegionFits`, of every answer and of the vehicle per trip that a failed process
  leaves). `RegionsMerged` counts: once if the regions share no trip
  (`Separate`), at least once if they do.
- `CrewKept`: the parts share out the blocks (`Shares`: `GroupsShare` for the groups by
  depot, `WindowsShare` for the fold that deals blocks to windows, `SharesJoined`),
  and the duties merged so far fit all blocks except the bare ones: those
  reported, and those of parts still to be solved (`Bare`, `Waiting`). The property
  itself says nothing about duties before the end, so it is not inductive.
  `DutiesJoined` is the step: the next part's duties take its blocks out of `Waiting`,
  and a part that fails moves them to the reported ones.

**`TenantRequestsProofs`**, for any number of requests, companies, connections,
statements and faults (`CompanyAssumption`, `BoundsAssumption`): `ConnectionsKept`
(`ConnectionsHold`). The property counts who holds what; it is not inductive,
because what a request may take or return depends on where it stands. `TenantInv`
says so: `HoldsAtPlace` (a request holds its own connection exactly between the
grant and the end of its transaction, and a second one exactly while a statement
that left the transaction runs), `LineHolds` (the pool's line holds each waiter,
once; without it a grant could overwrite a connection), `HeldOnce` (a held
connection is not free and has one holder), `NoneLost` and `CompanyIsOwn`.
`Joined` and `Served` say what the line is after a request joins it and after its
head is served.

**`OptimizerProofs`, the queue**, for any submissions, problems, fingerprints, tasks and
workers (`ProblemsAssumption`, `BoundsAssumption`): `TasksStand` (`TasksKept`) and
`AnswersOwn` (`AnswerIsOwn`). `TaskInv` adds `AboutIsUsed` (what is queued or held
was created, and an id nobody created is PENDING), `StoredIsDone` (a worker that has
stored a result and not yet acknowledged has a final state behind it), `FoundIsOwn`
(an id carries the fingerprint it is found under, in the cache and in what a
handler has read), `CompletedStands` (a submission that reads COMPLETED has a
SUCCESS behind it: Celery keeps a success, so a message delivered again after the
result was stored takes no answer back) and `PlacesFit`. `StoredIsDone` and
`CompletedStands` hold while the backend has evicted nothing. `AnswerIsOwn` compares
the answered problem with the asked one in what the fingerprint covers; what
it does not cover is the violation run `tasks_wishes`.

**`StoreProofs`**, three stores:

- The cache (`BoundsAssumption`): `CoherentAnswers` (`AnswersCohere`). The argument is
  the order of commits: `RowFirst` says the row a reader has read is no newer than
  its schedule, which every commit preserves (`CommitMoves`, `RowsStayBehind`), so
  what it reads later cannot be older.
- Scenario runs (`NoRunAssumption`, `ScenariosAssumption`, `ScenarioBounds`):
  `OptionsKept` (`OptionsHold`), of which `RunningIsAccounted` says that a run left
RUNNING has a poller, or a fault or a failing write to answer for it. `RuledOut` says what each of the two queries excludes
  and stays excluded, because statuses only move forward (`Forward`) and only runs
  with a poller become COMPLETED (`PollersRun`, `PostedOnce`): a run cannot pass from
  the set of the second query to that of the first unseen and have been COMPLETED
  before.
- The feed (`FilesAssumption`: finitely many files; `FeedBounds`): `FeedOnce`
  (`SnapshotsOnce`). `FeedInv` adds `OnDisk` (a file is in the inbox or in the archive,
  and the one being archived still in the inbox), `Numbered` (ids grow up to the
  last one given, and a snapshot's file is in the archive, on its way there, or
  among those that could not be moved: only the last are found again by a
  later poll), `Marked` (reports name snapshots up to the mark) and `Counted` (no
  more ids than stored files, posts and faults), which keeps the ids within
  `SnapshotIds`.

Model-checked only: the liveness properties (fairness and ENABLED are beyond the
prover), and these safety properties: `SearchSound` (of it, `AnswerNoWorse` rests
on folds that repair or insert, `BestCostIsReal` on costs that are sums of sums),
those of `CrewPlans`, whose passes rebuild duties by
folds over sequences, and one of the parts (`JointsHold`).
None is out of reach in principle; section 7 says what comes next. What the
inductions above cannot do is take a property as a parameter, so each needs a
set of its own. No module declares a recursive operator.

## 7. Not modelled, and what is left

- Linear, integer and constraint programs (`vsp/mcnf.py`, `large_scale`,
  `integrated`, `csp/cp_sat_csp.py`, the exact part of both roster solvers):
  numeric search is beyond TLC. The models admit every answer that satisfies the
  constraints handed to the solver (rosters), any plan (pipeline), or a bounded
  set of plans with flaws (chunks). What is proved or checked about the stages
  around them does not rest on their answers being good.
- Scores, weights and probabilities that only rank what is feasible are
  choices, so no property says that a plan is cheap; where a comparison decides
  what is kept, its leading components are modelled.
- The content of a result in the backend, replay comparison, benchmark and
  reporting queries: no state of another part depends on them. What
  `reassignTrip` writes (section 5).
- The memo table of `is_block_feasible` (`utils.py` 359) is keyed by less than the
  answer depends on; the models evaluate the predicate itself. The one of
  `_can_extend` (`set_partitioning_optimized.py` 368) is modelled (`CrewPlans.Cached`).
- CRUD modules, sessions, parameters, GTFS, reports, mails, monitoring, exports,
  forecasts, the assistant, the frontend and deployment: pure I/O, or state that
  no other part of this path relies on.

Left to do: `SeedIsKept` (moves of the searches as exchanges of trips, with
`ExchangeKeeps` as the pattern), then `TripsDrivenOnce` of the crew passes.
