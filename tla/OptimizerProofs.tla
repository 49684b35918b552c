--------------------------- MODULE OptimizerProofs ---------------------------
(***************************************************************************)
(* The optimizer's tasks and the service that does them: tasks of its      *)
(* queue are neither lost nor doubled and answer the problem they were     *)
(* created for, for any number of submissions, problems, tasks and         *)
(* workers, and any losses and evictions; and what a published result is   *)
(* worth, for every request, every set of plans the solvers may return and *)
(* every price, first for the pipeline alone, then for the service around  *)
(* it.                                                                     *)
(***************************************************************************)
EXTENDS OptimizerTasks, PlanService, TLAPS

-------------------------------------------------------------------------------
(* Tasks of the queue.                                                     *)

Used(t) == t \in Tasks /\ problem[t] # NoProblem

(* What a submission has at each place, and errors below the limit until it    *)
(* gives up.                                                                   *)
PlacesFit == \A s \in Submissions :
    /\ pc[s] \in {"looking", "deciding"} => seen[s] # NoTask
    /\ pc[s] \in {"caching", "polling", "completed"} => handed[s] # NoTask
    /\ pc[s] # "unreachable" => errors[s] < MaxErrors

(* Task ids that are about were created; the others are still PENDING.         *)
AboutIsUsed ==
    /\ \A t \in queue : Used(t)
    /\ \A w \in Workers : Busy(w) => Used(running[w])
    /\ \A t \in Tasks : ~Used(t) => state[t] = "PENDING"

(* A result is stored before its message is acknowledged.                      *)
StoredIsDone == evictions = 0 => \A w \in stored : state[running[w]] \in Final

(* Every task id carries the fingerprint it is found under.                    *)
Finger(t, f) == Used(t) /\ Fingerprint(problem[t]) = f
FoundIsOwn ==
    /\ \A f \in Keys : cache[f] # NoTask => Finger(cache[f], f)
    /\ \A s \in Submissions :
          /\ seen[s] # NoTask => Finger(seen[s], CacheKey(s))
          /\ handed[s] # NoTask => Finger(handed[s], CacheKey(s))

CompletedStands == evictions = 0 =>
    \A s \in Submissions : pc[s] = "completed" => state[handed[s]] = "SUCCESS"

TaskInv ==
    /\ TypeOK /\ PlacesFit /\ AboutIsUsed /\ StoredIsDone /\ FoundIsOwn
    /\ CompletedStands /\ NoTaskVanishes /\ OneHolder

-------------------------------------------------------------------------------
LEMMA InitTask == Init => TaskInv
<1> SUFFICES ASSUME Init PROVE TaskInv
  OBVIOUS
<1> USE BoundsAssumption, ProblemsAssumption
<1>1. TypeOK
  BY DEF Init, TypeOK, Places, Answered, CeleryStates, Final, Successes
<1>2. PlacesFit /\ FoundIsOwn /\ CompletedStands
  BY DEF Init, PlacesFit, FoundIsOwn, CompletedStands
<1>3. AboutIsUsed /\ StoredIsDone
  BY DEF Init, AboutIsUsed, StoredIsDone, Used, Busy
<1>4. NoTaskVanishes /\ OneHolder
  BY DEF Init, NoTaskVanishes, Reachable, OneHolder, Busy
<1> QED
  BY <1>1, <1>2, <1>3, <1>4 DEF TaskInv

(* Steps that only move a submission along: what it has seen or was handed is  *)
(* a task that somebody could have been handed before.                         *)
LEMMA Moves ==
  ASSUME TaskInv, NEW s \in Submissions, NEW place \in Places, GoTo(s, place),
         UNCHANGED <<cache, problem, broker, state, budget>>,
         TypeOK', PlacesFit',
         \A u \in Submissions : u # s => seen'[u] = seen[u] /\ handed'[u] = handed[u],
         seen'[s] \in {seen[s], cache[CacheKey(s)], NoTask},
         handed'[s] \in {handed[s], seen[s]},
         place = "completed" => state[handed'[s]] = "SUCCESS",
         pc[s] # "completed"
  PROVE  TaskInv'
<1> USE DEF broker, budget, GoTo
<1>0. /\ TypeOK /\ FoundIsOwn /\ CompletedStands /\ NoTaskVanishes /\ OneHolder
      /\ AboutIsUsed /\ StoredIsDone
  BY DEF TaskInv
<1>1. CacheKey(s) \in Keys
  BY ProblemsAssumption DEF CacheKey, Keys
<1>2. AboutIsUsed' /\ StoredIsDone' /\ OneHolder'
  BY <1>0 DEF AboutIsUsed, StoredIsDone, OneHolder, Used, Busy
<1>3. \A t \in Tasks : Reachable(t)' => Reachable(t)
  <2> SUFFICES ASSUME NEW t \in Tasks, Reachable(t)' PROVE Reachable(t)
    OBVIOUS
  <2>1. CASE \E u \in Submissions : handed'[u] = t \/ seen'[u] = t
    <3>1. PICK u \in Submissions : handed'[u] = t \/ seen'[u] = t
      BY <2>1
    <3>2. CASE u # s
      BY <3>1, <3>2 DEF Reachable
    <3>3. CASE u = s
      BY <3>1, <3>3, <1>1, ProblemsAssumption DEF Reachable
    <3> QED
      BY <3>2, <3>3
  <2>2. CASE \E f \in Keys : cache'[f] = t
    BY <2>2 DEF Reachable
  <2> QED
    BY <2>1, <2>2 DEF Reachable
<1>4. NoTaskVanishes'
  BY <1>0, <1>3 DEF NoTaskVanishes, Stands, Waiting, Held
<1>5. FoundIsOwn'
  <2>1. \A f \in Keys : cache'[f] # NoTask => Finger(cache[f], f)
    BY <1>0 DEF FoundIsOwn
  <2>2. \A u \in Submissions :
          /\ seen'[u] # NoTask => Finger(seen'[u], CacheKey(u))
          /\ handed'[u] # NoTask => Finger(handed'[u], CacheKey(u))
    BY <1>0, <1>1 DEF FoundIsOwn
  <2> QED
    BY <2>1, <2>2 DEF FoundIsOwn, Finger, Used
<1>6. CompletedStands'
  BY <1>0 DEF CompletedStands, TypeOK
<1> QED
  BY <1>2, <1>4, <1>5, <1>6 DEF TaskInv

LEMMA SubmissionStep ==
  ASSUME TaskInv, NEW s \in Submissions,
         ReadCache(s) \/ ReadState(s) \/ Decide(s) \/ Refuse(s) \/ Poll(s)
  PROVE  TaskInv'
<1> USE BoundsAssumption DEF Places, Answered
<1>0. TypeOK /\ PlacesFit
  BY DEF TaskInv
<1>01. CacheKey(s) \in Keys
  BY ProblemsAssumption DEF CacheKey, Keys
<1>02. \A t \in Tasks : state[t] \in CeleryStates
  BY <1>0 DEF TypeOK
<1>1. CASE ReadCache(s)
  <2>1. PICK found \in {cache[CacheKey(s)], NoTask} :
          /\ seen' = [seen EXCEPT ![s] = found]
          /\ GoTo(s, IF found = NoTask THEN "enqueuing" ELSE "looking")
    BY <1>1 DEF ReadCache
  <2>2. found \in Tasks \cup {NoTask}
    BY <1>0, <1>01 DEF TypeOK
  <2>3. TypeOK' /\ PlacesFit'
    BY <1>0, <1>1, <2>1, <2>2 DEF ReadCache, TypeOK, PlacesFit, GoTo, broker, budget
  <2> QED
    BY <1>0, <1>1, <2>1, <2>3, Moves DEF ReadCache, TypeOK
<1>2. CASE ReadState(s)
  <2>1. TypeOK' /\ PlacesFit'
    BY <1>0, <1>2, <1>02 DEF ReadState, TypeOK, PlacesFit, GoTo, broker, budget
  <2> QED
    BY <1>0, <1>2, <2>1, Moves DEF ReadState, TypeOK
<1>3. CASE Decide(s)
  <2>1. TypeOK' /\ PlacesFit'
    BY <1>0, <1>3 DEF Decide, CeleryStates, TypeOK, PlacesFit, GoTo, broker, budget
  <2>4. seen'[s] = NoTask /\ \A u \in Submissions : u # s => seen'[u] = seen[u]
    BY <1>0, <1>3 DEF Decide, TypeOK
  <2>2. CASE handed' = [handed EXCEPT ![s] = seen[s]] /\ GoTo(s, "polling")
    <3>1. handed'[s] = seen[s] /\ \A u \in Submissions : u # s => handed'[u] = handed[u]
      BY <1>0, <2>2 DEF TypeOK
    <3> QED
      BY <1>3, <2>1, <2>2, <2>4, <3>1, Moves DEF Decide
  <2>3. CASE UNCHANGED handed /\ GoTo(s, "enqueuing")
    BY <1>0, <1>3, <2>1, <2>3, <2>4, Moves DEF Decide, TypeOK
  <2> QED
    BY <1>3, <2>2, <2>3 DEF Decide
<1>4. CASE Refuse(s)
  <2>1. TypeOK' /\ PlacesFit'
    BY <1>0, <1>4 DEF Refuse, TypeOK, PlacesFit, GoTo, broker, budget
  <2> QED
    BY <1>0, <1>4, <2>1, Moves DEF Refuse, TypeOK
<1>5. CASE PollAnswer(s)
  <2>1. handed[s] \in Tasks
    BY <1>0, <1>5 DEF PollAnswer, TypeOK, PlacesFit
  <2>2. Reply(handed[s]) = "completed" => state[handed[s]] = "SUCCESS"
    BY <2>1, <1>02 DEF Reply, CeleryStates, Final, Successes
  <2>3. TypeOK' /\ PlacesFit'
    BY <1>0, <1>5 DEF PollAnswer, TypeOK, PlacesFit, GoTo, broker, budget
  <2> QED
    BY <1>0, <1>5, <2>2, <2>3, Moves DEF PollAnswer, TypeOK
<1>6. CASE PollProcessing(s)
  <2>1. TypeOK' /\ PlacesFit'
    BY <1>0, <1>6 DEF PollProcessing, TypeOK, PlacesFit, broker, budget
  <2>2. GoTo(s, "polling")
    BY <1>0, <1>6 DEF PollProcessing, TypeOK, GoTo
  <2> QED
    BY <1>0, <1>6, <2>1, <2>2, Moves DEF PollProcessing, TypeOK
<1>7. CASE PollError(s)
  <2>1. TypeOK' /\ PlacesFit'
    <3>1. errors[s] \in Nat /\ errors[s] < MaxErrors /\ errors[s] + 1 \in 0..MaxErrors
      <4>1. errors[s] \in 0..MaxErrors
        BY <1>0 DEF TypeOK
      <4>2. errors[s] < MaxErrors
        BY <1>0, <1>7 DEF PollError, PlacesFit
      <4> QED
        BY <4>1, <4>2
    <3>2. TypeOK'
      BY <1>0, <1>7, <3>1 DEF PollError, TypeOK, GoTo, broker, budget
    <3>3. \A u \in Submissions : /\ u # s => pc'[u] = pc[u] /\ errors'[u] = errors[u]
                                 /\ errors'[s] = errors[s] + 1
                                 /\ pc'[s] = IF errors[s] + 1 < MaxErrors
                                             THEN "polling" ELSE "unreachable"
      BY <1>0, <1>7 DEF PollError, TypeOK, GoTo
    <3>4. PlacesFit'
      BY <1>0, <1>7, <3>1, <3>3 DEF PollError, PlacesFit
    <3> QED
      BY <3>2, <3>4
  <2> QED
    BY <1>0, <1>7, <2>1, Moves DEF PollError, TypeOK
<1> QED
  BY <1>1, <1>2, <1>3, <1>4, <1>5, <1>6, <1>7 DEF Poll

(* A new task is one nobody knows, and it waits in the queue. *)
LEMMA EnqueueStep ==
  ASSUME TaskInv, NEW s \in Submissions, Enqueue(s)
  PROVE  TaskInv'
<1>0. /\ TypeOK /\ PlacesFit /\ FoundIsOwn /\ CompletedStands /\ NoTaskVanishes
      /\ OneHolder /\ AboutIsUsed /\ StoredIsDone
  BY DEF TaskInv
<1>1. PICK t \in Tasks :
        /\ problem[t] = NoProblem
        /\ problem' = [problem EXCEPT ![t] = ProblemOf(s)]
        /\ queue' = queue \cup {t}
        /\ handed' = [handed EXCEPT ![s] = t]
  BY DEF Enqueue, Unused
<1>2. /\ pc[s] = "enqueuing" /\ GoTo(s, "caching")
      /\ UNCHANGED <<seen, observed, errors, cache, running, stored, state, losses, evictions>>
  BY DEF Enqueue, budget
<1>3. ProblemOf(s) \in Problems /\ ProblemOf(s) # NoProblem /\ t # NoTask
  BY ProblemsAssumption
<1>4. ~Used(t) /\ t \notin queue /\ \A w \in Workers : running[w] # t
  BY <1>0, <1>1, <1>3 DEF Used, AboutIsUsed, Busy
<1>5. TypeOK' /\ PlacesFit'
  BY <1>0, <1>1, <1>2, <1>3 DEF TypeOK, PlacesFit, GoTo, Places
<1>6. \A u \in Tasks : /\ Used(u)' <=> Used(u) \/ u = t
                       /\ u # t => problem'[u] = problem[u]
  BY <1>0, <1>1, <1>3 DEF Used, TypeOK
<1>7. AboutIsUsed'
  BY <1>0, <1>1, <1>2, <1>6 DEF AboutIsUsed, Busy, TypeOK, Used
<1>8. StoredIsDone'
  BY <1>0, <1>2 DEF StoredIsDone
<1>9. FoundIsOwn'
  <2>1. \A u, f : Finger(u, f) => u # t /\ Finger(u, f)'
    BY <1>4, <1>6 DEF Finger, Used
  <2>2. Finger(t, CacheKey(s))'
    BY <1>0, <1>1, <1>3 DEF Finger, Used, CacheKey, TypeOK
  <2>3. \A u \in Submissions : handed'[u] = IF u = s THEN t ELSE handed[u]
    BY <1>0, <1>1 DEF TypeOK
  <2> QED
    BY <1>0, <1>2, <2>1, <2>2, <2>3 DEF FoundIsOwn, CacheKey
<1>10. CompletedStands'
  BY <1>0, <1>1, <1>2 DEF CompletedStands, GoTo, TypeOK
<1>11. NoTaskVanishes'
  <2>1. \A u \in Tasks : Reachable(u)' => Reachable(u) \/ u = t
    BY <1>0, <1>1, <1>2 DEF Reachable, TypeOK
  <2> QED
    BY <1>0, <1>1, <1>2, <2>1 DEF NoTaskVanishes, Stands, Waiting, Held
<1>12. OneHolder'
  BY <1>0, <1>1, <1>2, <1>4 DEF OneHolder, Busy
<1> QED
  BY <1>5, <1>7, <1>8, <1>9, <1>10, <1>11, <1>12 DEF TaskInv

LEMMA StoreStep ==
  ASSUME TaskInv, NEW s \in Submissions, StoreInCache(s)
  PROVE  TaskInv'
<1> USE DEF broker, budget
<1>0. /\ TypeOK /\ PlacesFit /\ FoundIsOwn /\ CompletedStands /\ NoTaskVanishes
      /\ OneHolder /\ AboutIsUsed /\ StoredIsDone
  BY DEF TaskInv
<1>1. CacheKey(s) \in Keys
  BY ProblemsAssumption DEF CacheKey, Keys
<1>2. TypeOK' /\ PlacesFit'
  BY <1>0, <1>1 DEF StoreInCache, TypeOK, PlacesFit, GoTo, Places
<1>3. AboutIsUsed' /\ StoredIsDone' /\ OneHolder'
  BY <1>0 DEF StoreInCache, AboutIsUsed, StoredIsDone, OneHolder, Used, Busy
<1>4. \A f \in Keys : cache'[f] = cache[f] \/ (f = CacheKey(s) /\ cache'[f] = handed[s])
  BY <1>0, <1>1 DEF StoreInCache, TypeOK
<1>5. FoundIsOwn'
  BY <1>0, <1>4 DEF StoreInCache, FoundIsOwn, Finger, Used, CacheKey
<1>6. CompletedStands'
  BY <1>0 DEF StoreInCache, CompletedStands, GoTo, TypeOK
<1>7. NoTaskVanishes'
  <2>1. \A t \in Tasks : Reachable(t)' => Reachable(t)
    BY <1>4 DEF StoreInCache, Reachable
  <2> QED
    BY <1>0, <2>1 DEF StoreInCache, NoTaskVanishes, Stands, Waiting, Held
<1> QED
  BY <1>2, <1>3, <1>5, <1>6, <1>7 DEF TaskInv

(* A worker takes, reports, acknowledges or gives back its message. *)
LEMMA WorkStep ==
  ASSUME TaskInv, NEW w \in Workers, Work(w)
  PROVE  TaskInv'
<1> USE DEF client, broker, budget
<1>0. /\ TypeOK /\ PlacesFit /\ FoundIsOwn /\ CompletedStands /\ NoTaskVanishes
      /\ OneHolder /\ AboutIsUsed /\ StoredIsDone
  BY DEF TaskInv
<1>1. UNCHANGED <<pc, seen, observed, handed, errors, cache, problem, evictions>>
  BY DEF Work, Deliver, ReportProgress, FinishTask, TimeLimit, StoreResult, Acknowledge, LoseWorker
<1>2. PlacesFit' /\ FoundIsOwn'
  BY <1>0, <1>1 DEF PlacesFit, FoundIsOwn, Finger, Used, CacheKey
<1>3. \A t \in Tasks : (Reachable(t)' <=> Reachable(t)) /\ (Used(t)' <=> Used(t))
  BY <1>1 DEF Reachable, Used
<1>4. CASE \E t \in Tasks : Deliver(w, t)
  <2>1. PICK t \in queue : /\ running[w] = NoTask
                           /\ running' = [running EXCEPT ![w] = t]
                           /\ queue' = queue \ {t}
                           /\ UNCHANGED <<stored, state, losses>>
    BY <1>4 DEF Deliver
  <2>2. /\ running'[w] = t /\ \A v \in Workers \ {w} : running'[v] = running[v]
        /\ t \in Tasks /\ t # NoTask
    BY <1>0, <2>1, ProblemsAssumption DEF TypeOK
  <2>3. TypeOK'
    BY <1>0, <1>1, <2>1, <2>2 DEF TypeOK
  <2>4. AboutIsUsed'
    BY <1>0, <1>1, <2>1, <2>2 DEF AboutIsUsed, Busy, Used
  <2>5. \A u \in Tasks : Waiting(u) \/ Held(u) <=> Waiting(u)' \/ Held(u)'
    BY <2>1, <2>2, ProblemsAssumption DEF Waiting, Held
  <2>6. NoTaskVanishes' /\ CompletedStands'
    BY <1>0, <1>1, <1>3, <2>1, <2>5 DEF NoTaskVanishes, Stands, CompletedStands
  <2>8. StoredIsDone'
    BY <1>0, <1>1, <2>1, <2>2 DEF StoredIsDone, TypeOK
  <2>7. OneHolder'
    BY <1>0, <2>1, <2>2 DEF OneHolder, Busy
  <2> QED
    BY <1>2, <2>3, <2>4, <2>6, <2>7, <2>8 DEF TaskInv
<1>5. ASSUME AtWork(w), NEW new \in CeleryStates, Report(running[w], new),
             UNCHANGED <<queue, running, losses>>,
             stored' = stored \/ (stored' = stored \cup {w} /\ new \in Final)
      PROVE  TaskInv'
  <2>1. PICK held \in Tasks : held = running[w] /\ held # NoTask /\ Used(held) /\ Held(held)
    BY <1>0, <1>5 DEF TypeOK, AtWork, Busy, AboutIsUsed, Used, Held
  <2>2. /\ \A u \in Tasks \ {held} : state'[u] = state[u]
        /\ state[held] \in Successes => state'[held] = state[held]
        /\ state[held] \notin Successes => state'[held] = new
        /\ state' \in [Tasks -> CeleryStates]
    BY <1>0, <1>5, <2>1 DEF TypeOK, Report
  <2>3. TypeOK'
    BY <1>0, <1>1, <1>5, <2>2 DEF TypeOK, AtWork, Busy
  <2>4. AboutIsUsed'
    BY <1>0, <1>1, <1>5, <2>1, <2>2 DEF AboutIsUsed, Busy, Used
  <2>5. \A v \in stored : running[v] \in Tasks /\ running[v] # held
    BY <1>0, <1>5, <2>1 DEF OneHolder, Busy, AtWork, TypeOK
  <2>6. StoredIsDone'
    BY <1>0, <1>1, <1>5, <2>1, <2>2, <2>5 DEF StoredIsDone, Final
  <2>7. NoTaskVanishes'
    BY <1>0, <1>1, <1>3, <1>5, <2>1, <2>2 DEF NoTaskVanishes, Stands, Waiting, Held
  <2>8. CompletedStands'
    <3>1. \A s \in Submissions : pc[s] = "completed" => handed[s] \in Tasks
      BY <1>0, ProblemsAssumption DEF TypeOK, PlacesFit
    <3> QED
      BY <1>0, <1>1, <2>2, <3>1 DEF CompletedStands, Successes
  <2>9. OneHolder'
    BY <1>0, <1>5 DEF OneHolder, Busy
  <2> QED
    BY <1>2, <2>3, <2>4, <2>6, <2>7, <2>8, <2>9 DEF TaskInv
<1>6. CASE ReportProgress(w)
  BY <1>5, <1>6 DEF ReportProgress, CeleryStates, Final, Successes
<1>7. CASE FinishTask(w) \/ TimeLimit(w)
  <2>1. PICK final \in Final : StoreResult(w, final)
    BY <1>7 DEF FinishTask, TimeLimit, Final
  <2> QED
    BY <1>5, <2>1 DEF StoreResult, CeleryStates
<1>9. CASE Acknowledge(w)
  <2>1. /\ w \in stored /\ stored' = stored \ {w}
        /\ running' = [running EXCEPT ![w] = NoTask]
        /\ UNCHANGED <<queue, state, losses>>
    BY <1>9 DEF Acknowledge
  <2>2. PICK held \in Tasks : held = running[w] /\ held # NoTask
    BY <1>0, <2>1 DEF TypeOK
  <2>3. running'[w] = NoTask /\ \A v \in Workers \ {w} : running'[v] = running[v]
    BY <1>0, <2>1 DEF TypeOK
  <2>4. TypeOK'
    BY <1>0, <1>1, <2>1, <2>3 DEF TypeOK
  <2>5. AboutIsUsed'
    BY <1>0, <1>1, <2>1, <2>3 DEF AboutIsUsed, Busy, Used
  <2>6. StoredIsDone' /\ CompletedStands'
    BY <1>0, <1>1, <2>1, <2>3 DEF StoredIsDone, CompletedStands, TypeOK
  <2>7. \A u \in Tasks : u # held => (Waiting(u)' \/ Held(u)' <=> Waiting(u) \/ Held(u))
    BY <2>1, <2>2, <2>3, ProblemsAssumption DEF Waiting, Held
  <2>8. evictions = 0 => state[held] \in Final
    BY <1>0, <2>1, <2>2 DEF StoredIsDone
  <2>9. NoTaskVanishes'
    BY <1>0, <1>1, <1>3, <2>1, <2>7, <2>8 DEF NoTaskVanishes, Stands
  <2>10. OneHolder'
    BY <1>0, <2>1, <2>3 DEF OneHolder, Busy
  <2> QED
    BY <1>2, <2>4, <2>5, <2>6, <2>9, <2>10 DEF TaskInv
<1>8. CASE LoseWorker(w)
  <2> DEFINE held == running[w]
  <2>1. held \in Tasks /\ held # NoTask /\ Used(held)
    BY <1>0, <1>8 DEF LoseWorker, TypeOK, Busy, AboutIsUsed, Used
  <2>2. /\ queue' = queue \cup {held} /\ stored' = stored \ {w} /\ UNCHANGED state
        /\ running' = [running EXCEPT ![w] = NoTask]
    BY <1>8 DEF LoseWorker
  <2>3. running'[w] = NoTask /\ \A v \in Workers \ {w} : running'[v] = running[v]
    BY <1>0, <2>2 DEF TypeOK
  <2>4. held \notin queue /\ \A v \in Workers \ {w} : running[v] # held
    BY <1>0, <2>1 DEF OneHolder, Busy
  <2>5. TypeOK'
    <3>1. losses' \in Nat /\ losses' + evictions <= MaxFaults
      BY <1>0, <1>8, BoundsAssumption DEF LoseWorker, TypeOK
    <3> QED
      BY <1>0, <1>1, <2>1, <2>2, <2>3, <3>1 DEF TypeOK
  <2>6. AboutIsUsed'
    BY <1>0, <1>1, <2>1, <2>2, <2>3 DEF AboutIsUsed, Busy, Used
  <2>7. \A u \in Tasks : Waiting(u)' \/ Held(u)' <=> Waiting(u) \/ Held(u)
    BY <2>1, <2>2, <2>3, ProblemsAssumption DEF Waiting, Held
  <2>8. StoredIsDone' /\ NoTaskVanishes' /\ CompletedStands'
    BY <1>0, <1>1, <1>3, <2>2, <2>3, <2>7
    DEF StoredIsDone, NoTaskVanishes, Stands, CompletedStands, TypeOK
  <2>9. OneHolder'
    BY <1>0, <2>2, <2>3, <2>4 DEF OneHolder, Busy
  <2> QED
    BY <1>2, <2>5, <2>6, <2>8, <2>9 DEF TaskInv
<1> QED
  BY <1>4, <1>6, <1>7, <1>8, <1>9 DEF Work

(* An eviction can make a task vanish, never double it or mix problems. *)
LEMMA EvictStep == TaskInv /\ Evict => TaskInv'
<1> SUFFICES ASSUME TaskInv, Evict PROVE TaskInv'
  OBVIOUS
<1> USE DEF client, broker, budget
<1>0. TypeOK /\ PlacesFit /\ FoundIsOwn /\ OneHolder /\ AboutIsUsed /\ StoredIsDone
  BY DEF TaskInv
<1>1. /\ UNCHANGED <<pc, seen, observed, handed, errors, problem, running, stored, losses>>
      /\ evictions' = evictions + 1 /\ losses + evictions < MaxFaults
      /\ queue' \in {queue, {}}
      /\ \/ UNCHANGED state
         \/ \E t \in Tasks : state' = [state EXCEPT ![t] = "PENDING"]
      /\ \/ UNCHANGED cache
         \/ \E f \in Keys : cache' = [cache EXCEPT ![f] = NoTask]
  BY DEF Evict
<1>2. \A f \in Keys : cache'[f] \in {cache[f], NoTask}
  BY <1>0, <1>1 DEF TypeOK
<1>3. \A t \in Tasks : state'[t] \in {state[t], "PENDING"}
  BY <1>0, <1>1 DEF TypeOK
<1>4. TypeOK'
  BY <1>0, <1>1, BoundsAssumption DEF TypeOK, CeleryStates
<1>5. PlacesFit' /\ FoundIsOwn'
  BY <1>0, <1>1, <1>2 DEF PlacesFit, FoundIsOwn, Finger, Used, CacheKey
<1>6. AboutIsUsed' /\ OneHolder'
  BY <1>0, <1>1, <1>3
  DEF AboutIsUsed, OneHolder, Used, Busy
<1>7. evictions' # 0
  BY <1>0, <1>1, BoundsAssumption DEF TypeOK
<1> QED
  BY <1>4, <1>5, <1>6, <1>7 DEF TaskInv, CompletedStands, NoTaskVanishes, StoredIsDone

LEMMA NextTask == TaskInv /\ [Next]_vars => TaskInv'
<1>1. TaskInv /\ UNCHANGED vars => TaskInv'
  BY DEF vars, client, broker, budget, TaskInv, TypeOK, PlacesFit, AboutIsUsed,
     StoredIsDone, FoundIsOwn, Finger, CompletedStands, NoTaskVanishes, Reachable,
     OneHolder, Used, Busy, Stands, Waiting, Held, CacheKey
<1> QED
  BY <1>1, SubmissionStep, EnqueueStep, StoreStep, WorkStep, EvictStep
  DEF Next, Submit

(* A task id that is handed out or cached stands for work waiting, held or     *)
(* done, and its message is in one place, although acknowledgements come late, *)
(* workers die and tasks are shared (run_optimization_task, POST /optimize/).  *)
THEOREM TasksStand == Spec => []TasksKept
<1>1. TaskInv => TasksKept
  BY DEF TaskInv, TasksKept
<1> QED
  BY <1>1, InitTask, NextTask, PTL DEF Spec

(* A submission is handed a task that does its work under its rules, whatever  *)
(* is cached, and reads "completed" only while that task's result is a         *)
(* success, however often the message comes again, unless something was        *)
(* evicted (GET /optimize/status).                                             *)
THEOREM AnswersOwn == Spec => []AnswerIsOwn
<1>1. TaskInv => AnswerIsOwn
  BY DEF TaskInv, FoundIsOwn, Finger, CacheKey, Fingerprint, SameTask,
     CompletedStands, AnswerIsOwn
<1> QED
  BY <1>1, InitTask, NextTask, PTL DEF Spec

-------------------------------------------------------------------------------
(* The pipeline and the service around it.                                 *)

(* rounding to the cent adds at most half a cent *)
LEMMA CentsBound == \A p \in Int : Cents(p) \in Int /\ Cents(p) <= p + 5
  BY DEF Cents

LEMMA NotBehindRefl == \A p \in VehiclePlans \cup {NoVsp} : NotBehind(p, p)
  BY PlansMeasured DEF NotBehind, NoVsp

-------------------------------------------------------------------------------
(* The vehicle plan: its fields are numbers, it exists from the first      *)
(* solver on, and it is not behind the flow plan.                          *)
Planned == {"scale", "anneal", "tabu", "genetic", "crew", "polish", "joint", "check"}

LadderInv ==
  /\ bestVsp \in VehiclePlans \cup {NoVsp}
  /\ base \in VehiclePlans \cup {NoVsp}
  /\ pipeStage \in Planned => bestVsp \in VehiclePlans
  /\ BestVehiclePlan

(* Whatever a metaheuristic answers, the plan kept is not behind the flow  *)
(* plan if the plan before it was not.                                     *)
LEMMA BetterKeeps ==
  ASSUME LadderInv, NEW p \in VehiclePlans, IsBetter(p) \/ IsSmaller(p),
         bestVsp \in VehiclePlans, UNCHANGED <<request, base>>, bestVsp' = p
  PROVE  BestVehiclePlan'
  <1>1. /\ base.issues \in Nat /\ base.vehicles \in Nat /\ base.cost \in Int
        /\ bestVsp.issues \in Nat /\ bestVsp.vehicles \in Nat /\ bestVsp.cost \in Int
        /\ p.issues \in Nat /\ p.vehicles \in Nat /\ p.cost \in Int
    BY PlansMeasured DEF LadderInv, NoVsp
  <1>2. NotBehind(bestVsp, base)
    BY DEF LadderInv, BestVehiclePlan
  <1>3. NotBehind(p, base)
    BY <1>1, <1>2 DEF NotBehind, IsBetter, IsSmaller
  <1>4. request.strict => p.issues = 0
    BY DEF IsBetter, IsSmaller, Acceptable
  <1> QED BY <1>3, <1>4 DEF BestVehiclePlan, NotBehind

LEMMA LadderInit == PipelineInit => LadderInv
  BY NotBehindRefl DEF PipelineInit, LadderInv, BestVehiclePlan, Planned

LEMMA LadderStep == LadderInv /\ [PipelineNext]_pipe => LadderInv'
  <1> SUFFICES ASSUME LadderInv, [PipelineNext]_pipe PROVE LadderInv'
    OBVIOUS
  <1> USE DEF LadderInv
  <1>1. ASSUME NEW p \in VehiclePlans, bestVsp' = p, base' = p, UNCHANGED request
        PROVE  LadderInv'
    BY <1>1, NotBehindRefl DEF BestVehiclePlan
  <1>2. CASE Assignment
    BY <1>1, <1>2 DEF Assignment
  <1>3. CASE MinCostFlow
    BY <1>1, <1>3 DEF MinCostFlow
  <1>4. ASSUME UNCHANGED <<request, bestVsp, base>>, pipeStage' \in Planned => bestVsp \in VehiclePlans
        PROVE  LadderInv'
    BY <1>4 DEF BestVehiclePlan, NotBehind
  <1>5. CASE ScaleGreedy
    <2>1. /\ bestVsp \in VehiclePlans /\ UNCHANGED <<request, base>>
          /\ \/ UNCHANGED bestVsp
             \/ \E p \in VehiclePlans : IsSmaller(p) /\ bestVsp' = p
      BY <1>5 DEF ScaleGreedy, Keep, Rest, Planned
    <2> QED BY <2>1, <1>4, BetterKeeps DEF Planned
  <1>6. CASE Anneal
    <2>1. /\ bestVsp \in VehiclePlans /\ UNCHANGED <<request, base>>
          /\ \/ UNCHANGED bestVsp
             \/ \E p \in VehiclePlans : IsBetter(p) /\ bestVsp' = p
      BY <1>6 DEF Anneal, Keep, Rest, Planned
    <2> QED BY <2>1, <1>4, BetterKeeps DEF Planned
  <1>7. CASE Tabu
    <2>1. /\ bestVsp \in VehiclePlans /\ UNCHANGED <<request, base>>
          /\ \/ UNCHANGED bestVsp
             \/ \E p \in VehiclePlans : IsBetter(p) /\ bestVsp' = p
      BY <1>7 DEF Tabu, Keep, Rest, Planned
    <2> QED BY <2>1, <1>4, BetterKeeps DEF Planned
  <1>8. CASE Genetic
    <2>1. /\ bestVsp \in VehiclePlans /\ UNCHANGED <<request, base>>
          /\ \/ UNCHANGED bestVsp
             \/ \E p \in VehiclePlans : IsBetter(p) /\ bestVsp' = p
      BY <1>8 DEF Genetic, Keep, Rest, Planned
    <2> QED BY <2>1, <1>4, BetterKeeps DEF Planned
  <1>9. CASE Start \/ Raise
    BY <1>9, <1>4 DEF Start, Raise, Planned
  <1>10. CASE NoVehicles \/ CrewLarge \/ CrewSmall
    BY <1>10, <1>4 DEF NoVehicles, CrewLarge, CrewSmall, Finish, Planned
  <1>11. CASE PolishLarge \/ PolishSmall \/ SkipPolish \/ Joint \/ Check
    BY <1>11, <1>4 DEF PolishLarge, PolishSmall, SkipPolish, Joint, Check, Finish, Planned
  <1>12. CASE UNCHANGED pipe
    BY <1>12, <1>4 DEF pipe
  <1> QED BY <1>2, <1>3, <1>5, <1>6, <1>7, <1>8, <1>9, <1>10, <1>11, <1>12
          DEF PipelineNext, PipelineStep

(* The best vehicle plan is kept through every order in which the          *)
(* metaheuristics may answer (pipeline.py:207-310).                        *)
THEOREM BestPlanKept == PipelineSpec => []BestVehiclePlan
  <1>1. LadderInv => BestVehiclePlan
    BY DEF LadderInv
  <1> QED BY LadderInit, LadderStep, <1>1, PTL DEF PipelineSpec

-------------------------------------------------------------------------------
(* The answer: from the first crew plan on it has no more violations and   *)
(* leaves no more trips out than the plans it started from.                *)
Formed == first.plan \in VehiclePlans /\ first.crew \in CrewPlans
            /\ answer.plan \in VehiclePlans /\ answer.crew \in CrewPlans

NotWorse == /\ answer.crew.violations <= first.crew.violations
            /\ answer.plan.left <= first.plan.left

AnswerInv ==
  /\ pipeStage \in Planned => bestVsp \in VehiclePlans
  /\ pipeStage = "polish" => Formed /\ NotWorse /\ answer = first /\ first.plan = bestVsp
  /\ pipeStage \in {"joint", "check"} => Formed /\ NotWorse
  /\ pipeStage = "done" => answer.plan \in VehiclePlans /\ answer.crew \in CrewPlans
  /\ PipelineNoWorse

LEMMA AnswerInit == PipelineInit => AnswerInv
  BY DEF PipelineInit, AnswerInv, PipelineNoWorse, Planned

LEMMA AnswerStep == LadderInv' /\ AnswerInv /\ [PipelineNext]_pipe => AnswerInv'
  <1> SUFFICES ASSUME LadderInv', AnswerInv, [PipelineNext]_pipe PROVE AnswerInv'
    OBVIOUS
  <1>0. pipeStage' \in Planned => bestVsp' \in VehiclePlans
    BY DEF LadderInv
  <1>1. CASE Assignment \/ MinCostFlow \/ ScaleGreedy \/ Anneal \/ Tabu \/ Genetic
             \/ Raise \/ Start
    <2>1. pipeStage' \notin {"polish", "joint", "check", "done"}
      BY <1>1 DEF Assignment, MinCostFlow, ScaleGreedy, Anneal, Tabu, Genetic, Raise, Start
    <2> QED BY <1>0, <2>1 DEF AnswerInv, PipelineNoWorse
  <1>2. CASE NoVehicles
    <2>1. /\ pipeStage' = "done" /\ answer'.plan.vehicles = 0
          /\ answer'.plan \in VehiclePlans /\ answer'.crew \in CrewPlans
      BY <1>2 DEF NoVehicles, Finish, AnswerInv, Planned
    <2> QED BY <1>0, <2>1 DEF AnswerInv, PipelineNoWorse
  <1>3. CASE CrewLarge \/ CrewSmall
    <2>1. /\ pipeStage' = "polish" /\ bestVsp \in VehiclePlans /\ bestVsp' = bestVsp
          /\ \E c \in CrewPlans : first' = [plan |-> bestVsp, crew |-> c] /\ answer' = first'
      BY <1>3 DEF CrewLarge, CrewSmall, Finish, AnswerInv, Planned
    <2> QED BY <1>0, <2>1, PlansMeasured DEF AnswerInv, PipelineNoWorse, Formed, NotWorse
  <1>4. CASE PolishLarge \/ PolishSmall
    <2>1. /\ pipeStage' = "joint" /\ UNCHANGED <<first, bestVsp>> /\ Formed /\ first.plan = bestVsp
          /\ \E c \in CrewPlans : /\ answer' = [plan |-> bestVsp, crew |-> c]
                                  /\ c.violations <= first.crew.violations
      BY <1>4, PlansMeasured
         DEF PolishLarge, PolishSmall, Finish, AnswerInv, Formed, LowerKey, SameKey, TieNotWorse
    <2> QED BY <1>0, <2>1, PlansMeasured DEF AnswerInv, PipelineNoWorse, Formed, NotWorse
  <1>5. CASE SkipPolish
    BY <1>0, <1>5 DEF SkipPolish, AnswerInv, PipelineNoWorse, Formed, NotWorse
  <1>6. CASE Joint
    <2>1. PICK p \in VehiclePlans, c \in CrewPlans :
            /\ p.left <= answer.plan.left /\ c.violations <= answer.crew.violations
            /\ answer' = [plan |-> p, crew |-> c]
      BY <1>6 DEF Joint, JointPromise, AnswerInv, Formed
    <2>2. pipeStage = "joint" /\ pipeStage' = "check" /\ UNCHANGED first
      BY <1>6 DEF Joint
    <2>3. Formed' /\ NotWorse'
      BY <2>1, <2>2, PlansMeasured DEF AnswerInv, Formed, NotWorse
    <2> QED BY <1>0, <2>2, <2>3 DEF AnswerInv, PipelineNoWorse
  <1>7. CASE Check
    <2>1. pipeStage' = "done" /\ UNCHANGED first /\ Formed /\ NotWorse
      BY <1>7 DEF Check, AnswerInv
    <2>2. Price(first.plan, first.crew) \in Int /\ Price(answer.plan, answer.crew) \in Int
      BY <2>1, PlansMeasured DEF Formed
    <2>3. /\ answer' = first \/ answer' = answer
          /\ Price(answer'.plan, answer'.crew) <= Price(first.plan, first.crew) + 5
      BY <1>7, <2>2, CentsBound DEF Check, Worse
    <2>4. NotWorse'
      BY <2>1, <2>3, PlansMeasured DEF NotWorse, Formed
    <2> QED BY <1>0, <2>1, <2>3, <2>4 DEF AnswerInv, PipelineNoWorse, NotWorse, Formed
  <1>8. CASE UNCHANGED pipe
    BY <1>8 DEF pipe, AnswerInv, PipelineNoWorse, Formed, NotWorse
  <1> QED BY <1>1, <1>2, <1>3, <1>4, <1>5, <1>6, <1>7, <1>8 DEF PipelineNext, PipelineStep

(* The polish, the joint passes and the comparison of prices never hand    *)
(* back something worse than the first crew plan (pipeline.py:402-596).    *)
THEOREM AnswerNoWorse == PipelineSpec => []PipelineNoWorse
  <1>1. AnswerInv => PipelineNoWorse
    BY DEF AnswerInv
  <1>2. PipelineInit => LadderInv /\ AnswerInv
    BY LadderInit, AnswerInit
  <1>3. LadderInv /\ AnswerInv /\ [PipelineNext]_pipe => LadderInv' /\ AnswerInv'
    BY LadderStep, AnswerStep
  <1> QED BY <1>1, <1>2, <1>3, PTL DEF PipelineSpec

-------------------------------------------------------------------------------
(* The service: the pipeline is one of its parts.                          *)
serviceVars == <<pipe, service>>

ResultSet == [plan : VehiclePlans, crew : CrewPlans, cost : Int]

(* Tuples compared by their first difference: the first component never    *)
(* grows, and for an equal first component neither does the second.        *)
LEMMA LexFirst ==
  ASSUME NEW s, NEW t, DOMAIN s \subseteq Nat \ {0}, s[1] \in Int, t[1] \in Int, LexLess(s, t)
  PROVE  s[1] <= t[1]
  <1>1. PICK i \in DOMAIN s : s[i] < t[i] /\ \A j \in 1..(i - 1) : s[j] = t[j]
    BY DEF LexLess
  <1>2. CASE i = 1
    BY <1>1, <1>2
  <1>3. CASE i > 1
    <2>1. 1 \in 1..(i - 1)
      BY <1>3
    <2> QED BY <1>1, <2>1
  <1> QED BY <1>2, <1>3

LEMMA LexSecond ==
  ASSUME NEW s, NEW t, DOMAIN s \subseteq Nat \ {0},
         s[1] \in Int, t[1] \in Int, s[2] \in Int, t[2] \in Int, LexLess(s, t)
  PROVE  s[1] < t[1] \/ (s[1] = t[1] /\ s[2] <= t[2])
  <1>1. PICK i \in DOMAIN s : s[i] < t[i] /\ \A j \in 1..(i - 1) : s[j] = t[j]
    BY DEF LexLess
  <1>2. CASE i = 1
    BY <1>1, <1>2
  <1>3. CASE i = 2
    <2>1. 1 \in 1..(i - 1)
      BY <1>3
    <2> QED BY <1>1, <1>3, <2>1
  <1>4. CASE i > 2
    <2>1. 1 \in 1..(i - 1) /\ 2 \in 1..(i - 1)
      BY <1>4
    <2> QED BY <1>1, <2>1
  <1> QED BY <1>2, <1>3, <1>4

(* the counts of a result are numbers *)
LEMMA Counted ==
  ASSUME NEW r \in ResultSet
  PROVE  /\ HardFaults(r) \in Nat /\ GroupsSplit(r) \in Nat
         /\ r.crew.violations \in Nat /\ r.crew.uncovered \in Nat
  <1>1. /\ r.plan.left \in Nat /\ r.plan.faults \in Nat
        /\ r.crew.uncovered \in Nat /\ r.crew.violations \in Nat /\ r.crew.splits \in Nat
        /\ r.crew.faults \in Nat /\ r.crew.profile \in Nat
    BY PlansMeasured, PlansAudited DEF ResultSet
  <1>2. ProfileIssues(r) \in Nat /\ HardGroupIssues(r) \in Nat
    BY <1>1 DEF ProfileIssues, HardGroupIssues, GroupIssues
  <1> QED BY <1>1, <1>2 DEF HardFaults, OtherIssues, GroupsSplit

(* The quality stage never prefers a plan with more hard issues, in        *)
(* whichever mode it runs.                                                 *)
LEMMA ChosenNoHarder ==
  ASSUME NEW r \in ResultSet, NEW q \in ResultSet, Chooses(r, q)
  PROVE  HardFaults(q) <= HardFaults(r)
  <1>1. HardFaults(r) \in Nat /\ HardFaults(q) \in Nat
    BY Counted
  <1>2. CASE MateriallyBetter(r, q)
    BY <1>2 DEF MateriallyBetter
  <1>3. CASE LexLess(CheapestKey(q), CheapestKey(r))
    <2>1. CheapestKey(q)[1] = HardFaults(q) /\ CheapestKey(r)[1] = HardFaults(r)
      BY DEF CheapestKey
    <2>2. DOMAIN CheapestKey(q) \subseteq Nat \ {0}
      BY DEF CheapestKey
    <2> QED BY <1>1, <1>3, <2>1, <2>2, LexFirst
  <1>4. CASE LexLess(BalancedKey(q), BalancedKey(r))
    <2>1. BalancedKey(q)[1] = HardFaults(q) /\ BalancedKey(r)[1] = HardFaults(r)
      BY DEF BalancedKey
    <2>2. DOMAIN BalancedKey(q) \subseteq Nat \ {0}
      BY DEF BalancedKey
    <2> QED BY <1>1, <1>4, <2>1, <2>2, LexFirst
  <1>5. CASE StrictClean(q)
    BY <1>1, <1>5 DEF StrictClean
  <1> QED BY <1>2, <1>3, <1>4, <1>5 DEF Chooses, ModePrefers

LEMMA RankedNoWorse ==
  ASSUME NEW r \in ResultSet, NEW q \in ResultSet, LexLess(Rank(q), Rank(r))
  PROVE  \/ GroupsSplit(q) < GroupsSplit(r)
         \/ GroupsSplit(q) = GroupsSplit(r) /\ q.crew.violations <= r.crew.violations
  <1>1. /\ Rank(q)[1] = GroupsSplit(q) /\ Rank(q)[2] = q.crew.violations
        /\ Rank(r)[1] = GroupsSplit(r) /\ Rank(r)[2] = r.crew.violations
        /\ DOMAIN Rank(q) \subseteq Nat \ {0}
    BY DEF Rank
  <1> QED BY <1>1, Counted, LexSecond

-------------------------------------------------------------------------------
(* The pipeline inside the service *)

PipelineInv == LadderInv /\ AnswerInv

LEMMA PipelineInsideInit == ServiceInit => PipelineInv
  BY LadderInit, AnswerInit DEF ServiceInit, PipelineInv

(* a call that has returned leaves nothing behind *)
LEMMA ForgetKeeps == Forget => PipelineInv'
  BY NotBehindRefl DEF Forget, PipelineInv, LadderInv, AnswerInv, BestVehiclePlan,
     PipelineNoWorse, Planned

LEMMA PipelineInsideStep == PipelineInv /\ [ServiceNext]_serviceVars => PipelineInv'
  <1> SUFFICES ASSUME PipelineInv, [ServiceNext]_serviceVars PROVE PipelineInv'
    OBVIOUS
  <1>1. ASSUME [PipelineNext]_pipe PROVE PipelineInv'
    BY <1>1, LadderStep, AnswerStep DEF PipelineInv
  <1>2. CASE PipelineRuns
    BY <1>1, <1>2 DEF PipelineRuns, PipelineNext
  <1>3. CASE AcceptResult
    BY <1>1, <1>3 DEF AcceptResult, PipelineNext
  <1>4. CASE Collect \/ PipelineFails
    BY <1>4, ForgetKeeps DEF Collect, PipelineFails
  <1>5. ASSUME UNCHANGED pipe PROVE PipelineInv'
    BY <1>1, <1>5
  <1>6. CASE Reject \/ SolveFails \/ AttemptFails \/ RepairRaises
    BY <1>5, <1>6 DEF Reject, SolveFails, AttemptFails, RepairRaises, Leave
  <1>7. CASE Dispatch \/ Decompose \/ Audit \/ Attempt \/ Choose
    BY <1>5, <1>7 DEF Dispatch, Decompose, Audit, Attempt, Choose
  <1>8. CASE Repair \/ GroupInfeasible \/ Gate \/ Quality
    BY <1>5, <1>8 DEF Repair, GroupInfeasible, Gate, Quality
  <1>9. CASE UNCHANGED serviceVars
    BY <1>5, <1>9 DEF serviceVars
  <1> QED BY <1>2, <1>3, <1>4, <1>6, <1>7, <1>8, <1>9 DEF ServiceNext

(* The best vehicle plan and the comparison with the first crew plan hold  *)
(* for every call the service makes (pipeline.py:207-310, 402-596).        *)
THEOREM ServicePipeline == ServiceSpec => []PipelineKept
  <1>1. PipelineInv => PipelineKept
    BY DEF PipelineInv, LadderInv, AnswerInv, PipelineKept
  <1> QED BY PipelineInsideInit, PipelineInsideStep, <1>1, PTL DEF ServiceSpec, serviceVars

-------------------------------------------------------------------------------
(* From the first solve on there is a result; until the audit its groups   *)
(* are no worse than the first solve's; behind the gate of a strict        *)
(* request it is clean or relaxed.                                         *)
NoWorseGroups ==
  \/ GroupsSplit(result) < GroupsSplit(primary)
  \/ /\ GroupsSplit(result) = GroupsSplit(primary)
     /\ result.crew.violations <= primary.crew.violations

Grouping == {"grouping", "fallback", "repair", "audit"}

ServiceInv ==
  /\ servicePhase \in Grouping \cup {"quality", "published"} =>
       result \in ResultSet /\ primary \in ResultSet
  /\ best = NoResult \/ best \in ResultSet
  /\ tries \in Nat
  /\ servicePhase = "fallback" /\ best = NoResult => tries > 0
  /\ servicePhase \in Grouping => NoWorseGroups
  /\ servicePhase \in {"quality", "published"} /\ request.strict => HardFaults(result) = 0 \/ handled

LEMMA ServiceInvInit == ServiceInit => ServiceInv
  BY DEF ServiceInit, ServiceInv, Grouping

LEMMA ServiceInvStep == PipelineInv /\ ServiceInv /\ [ServiceNext]_serviceVars => ServiceInv'
  <1> SUFFICES ASSUME PipelineInv, ServiceInv, [ServiceNext]_serviceVars PROVE ServiceInv'
    OBVIOUS
  <1>1. ASSUME NEW r \in ResultSet, SolvedPlan(r) PROVE ServiceInv'
    <2>1. NoWorseGroups'
      BY <1>1, Counted DEF SolvedPlan, NoWorseGroups, GroupsSplit
    <2> QED BY <1>1, <2>1 DEF SolvedPlan, ServiceInv, Grouping
  <1>2. CASE Collect
    <2>1. answer.plan \in VehiclePlans /\ answer.crew \in CrewPlans
      BY <1>2 DEF Collect, PipelineInv, AnswerInv
    <2>2. Results(answer.plan, answer.crew,
                  IF answer.plan.vehicles = 0 THEN 0 ELSE Price(answer.plan, answer.crew))
            \in ResultSet
      BY <2>1, PlansMeasured DEF Results, ResultSet
    <2> QED BY <1>1, <1>2, <2>2 DEF Collect
  <1>3. AnyResult \subseteq ResultSet
    BY DEF AnyResult, Results, ResultSet
  <1>4. CASE Dispatch \/ Decompose
    BY <1>1, <1>3, <1>4 DEF Dispatch, Decompose
  <1>5. ASSUME servicePhase' \in {"submitted", "solving", "refused", "failed"},
               UNCHANGED <<best, tries>>
        PROVE  ServiceInv'
    BY <1>5 DEF ServiceInv, Grouping
  <1>6. CASE Reject \/ AcceptResult \/ PipelineFails \/ SolveFails \/ AttemptFails \/ RepairRaises
    BY <1>5, <1>6 DEF Reject, AcceptResult, PipelineFails, SolveFails, AttemptFails, RepairRaises, Leave
  <1>7. CASE PipelineRuns
    BY <1>7, <1>5 DEF PipelineRuns, service
  <1>8. CASE Audit
    BY <1>8 DEF Audit, ServiceInv, Grouping, pipe, NoWorseGroups, GroupsSplit
  <1>9. CASE Attempt
    BY <1>9, <1>3, PlansMeasured
       DEF Attempt, ServiceInv, Grouping, pipe, NoWorseGroups, GroupsSplit, NoResult, ResultSet
  <1>10. CASE Choose
    <2>1. best \in ResultSet /\ result \in ResultSet /\ primary \in ResultSet /\ NoWorseGroups
      BY <1>10 DEF Choose, ServiceInv, Grouping
    <2>2. result' \in ResultSet /\ UNCHANGED <<pipe, primary, tries>> /\ servicePhase' \in {"repair", "audit"}
      BY <1>10, <2>1 DEF Choose
    <2>3. NoWorseGroups'
      BY <1>10, <2>1, <2>2, RankedNoWorse, Counted DEF Choose, NoWorseGroups, GroupsSplit, pipe
    <2> QED BY <1>10, <2>2, <2>3, <2>1 DEF Choose, ServiceInv, Grouping
  <1>11. CASE Repair
    <2>1. result \in ResultSet /\ primary \in ResultSet /\ NoWorseGroups
      BY <1>11 DEF Repair, ServiceInv, Grouping
    <2>2. PICK q \in ResultSet : result' = IF LexLess(Rank(q), Rank(result)) THEN q ELSE result
      BY <1>11, <2>1 DEF Repair, Results, ResultSet
    <2>3. NoWorseGroups'
      BY <1>11, <2>1, <2>2, RankedNoWorse, Counted DEF Repair, NoWorseGroups, GroupsSplit, pipe
    <2> QED BY <1>11, <2>1, <2>2, <2>3 DEF Repair, ServiceInv, Grouping
  <1>12. CASE GroupInfeasible
    BY <1>12 DEF GroupInfeasible, ServiceInv, Grouping, pipe, NoWorseGroups, GroupsSplit
  <1>13. CASE Gate
    <2>1. result \in ResultSet /\ primary \in ResultSet
      BY <1>13 DEF Gate, ServiceInv, Grouping
    <2>2. /\ result' \in ResultSet
          /\ result'.plan = result.plan /\ result'.crew = result.crew
      BY <1>13, <2>1, PlansMeasured DEF Gate, ResultSet
    <2>3. HardFaults(result)' = HardFaults(result)
      BY <1>13, <2>2 DEF Gate, pipe, HardFaults, OtherIssues, HardGroupIssues, GroupIssues,
         ProfileIssues, GroupsMandatory, PairingIsHard, StrictGroupMode
    <2>4. servicePhase' = "quality" /\ request'.strict => HardFaults(result)' = 0 \/ handled'
      BY <1>13, <2>3 DEF Gate, pipe, PassesGate, ControlledRelaxation
    <2> QED BY <1>13, <2>1, <2>2, <2>4 DEF Gate, ServiceInv, Grouping
  <1>14. CASE Quality
    <2>1. result \in ResultSet /\ primary \in ResultSet
      BY <1>14 DEF Quality, ServiceInv, Grouping
    <2>2. PICK q \in Candidates(result) :
            result' = IF q # result /\ Chooses(result, q) THEN [q EXCEPT !.cost = Cost(q)] ELSE result
      BY <1>14 DEF Quality
    <2>3. q \in ResultSet
      BY <2>1, <2>2 DEF Candidates, ResultSet
    <2>4. result' \in ResultSet
      BY <2>1, <2>2, <2>3, PlansMeasured DEF Cost, ResultSet
    <2>5. HardFaults(result') <= HardFaults(result)
      <3>1. CASE q # result /\ Chooses(result, q)
        <4>1. result'.plan = q.plan /\ result'.crew = q.crew
          BY <2>2, <2>3, <3>1 DEF ResultSet
        <4>2. HardFaults(result') = HardFaults(q)
          BY <4>1 DEF HardFaults, OtherIssues, HardGroupIssues, GroupIssues, ProfileIssues
        <4> QED BY <2>1, <2>3, <3>1, <4>2, ChosenNoHarder
      <3>2. CASE ~(q # result /\ Chooses(result, q))
        BY <2>1, <2>2, <3>2, Counted
      <3> QED BY <3>1, <3>2
    <2>6. HardFaults(result)' = HardFaults(result')
      BY <1>14 DEF Quality, pipe, HardFaults, OtherIssues, HardGroupIssues, GroupIssues,
         ProfileIssues, GroupsMandatory, PairingIsHard, StrictGroupMode
    <2>7. HardFaults(result) \in Nat /\ HardFaults(result') \in Nat
      BY <2>1, <2>4, Counted
    <2>8. request'.strict => HardFaults(result)' = 0 \/ handled'
      BY <1>14, <2>5, <2>6, <2>7 DEF Quality, pipe, ServiceInv
    <2> QED BY <1>14, <2>1, <2>4, <2>8 DEF Quality, ServiceInv, Grouping
  <1>15. CASE UNCHANGED serviceVars
    BY <1>15 DEF serviceVars, pipe, service, ServiceInv, Grouping, NoWorseGroups, GroupsSplit,
       HardFaults, OtherIssues, HardGroupIssues, GroupIssues, ProfileIssues, GroupsMandatory,
       PairingIsHard, StrictGroupMode
  <1> QED BY <1>2, <1>4, <1>6, <1>7, <1>8, <1>9, <1>10, <1>11, <1>12, <1>13, <1>14, <1>15
          DEF ServiceNext

(* Published under strict_hard_validation means no hard issue, or groups   *)
(* relaxed in production (optimizer_service.py:595-651, 746-761): the plan *)
(* that the quality stage prefers never has more of them.                  *)
THEOREM StrictIsClean == ServiceSpec => []StrictMeansClean
  <1>1. ServiceInv => StrictMeansClean
    BY DEF ServiceInv, StrictMeansClean
  <1>2. ServiceInit => PipelineInv /\ ServiceInv
    BY PipelineInsideInit, ServiceInvInit
  <1>3. PipelineInv /\ ServiceInv /\ [ServiceNext]_serviceVars => PipelineInv' /\ ServiceInv'
    BY PipelineInsideStep, ServiceInvStep
  <1> QED BY <1>1, <1>2, <1>3, PTL DEF ServiceSpec, serviceVars

(* Neither the fallback nor the repair splits more groups than the first   *)
(* solve, or violates more for as many (optimizer_service.py:444-583).     *)
THEOREM GroupsOnlyHelped == ServiceSpec => []GroupRepairOnlyHelps
  <1>1. ServiceInv => GroupRepairOnlyHelps
    <2> SUFFICES ASSUME ServiceInv, servicePhase \in {"repair", "audit"} PROVE GroupRepairOnlyHelps
      BY DEF GroupRepairOnlyHelps
    <2> DEFINE s == <<GroupsSplit(primary), primary.crew.violations>>
               t == <<GroupsSplit(result), result.crew.violations>>
    <2>1. result \in ResultSet /\ primary \in ResultSet /\ NoWorseGroups
      BY DEF ServiceInv, Grouping
    <2>2. /\ s[1] = GroupsSplit(primary) /\ s[2] = primary.crew.violations
          /\ t[1] = GroupsSplit(result) /\ t[2] = result.crew.violations
          /\ DOMAIN s = 1..2
      OBVIOUS
    <2>3. ASSUME LexLess(s, t) PROVE FALSE
      <3>1. PICK i \in DOMAIN s : s[i] < t[i] /\ \A j \in 1..(i - 1) : s[j] = t[j]
        BY <2>3 DEF LexLess
      <3>2. CASE i = 1
        BY <2>1, <2>2, <3>1, <3>2, Counted DEF NoWorseGroups
      <3>3. CASE i = 2
        <4>1. s[1] = t[1]
          BY <3>1, <3>3
        <4> QED BY <2>1, <2>2, <3>1, <3>3, <4>1, Counted DEF NoWorseGroups
      <3> QED BY <2>2, <3>1, <3>2, <3>3
    <2> QED BY <2>3 DEF GroupRepairOnlyHelps
  <1>2. ServiceInit => PipelineInv /\ ServiceInv
    BY PipelineInsideInit, ServiceInvInit
  <1>3. PipelineInv /\ ServiceInv /\ [ServiceNext]_serviceVars => PipelineInv' /\ ServiceInv'
    BY PipelineInsideStep, ServiceInvStep
  <1> QED BY <1>1, <1>2, <1>3, PTL DEF ServiceSpec, serviceVars
==============================================================================
