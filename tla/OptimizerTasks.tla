---------------------------- MODULE OptimizerTasks ----------------------------
(***************************************************************************)
(* The optimizer service as its clients see it: POST /optimize/ with its   *)
(* smart cache in Redis and GET /optimize/status                           *)
(* (optimizer/src/api/routes/optimize.py), the Celery task                 *)
(* (services/optimizer_tasks.py) and the queue and workers configured by   *)
(* core/celery_app.py and start.sh.  Redis holds the cache, the queue and  *)
(* the results, and may evict any key (docker-compose.yml:                 *)
(* maxmemory-policy allkeys-lru).  wait_for_completion runs the task       *)
(* inside the request, touches none of this and is left out.               *)
(***************************************************************************)
EXTENDS Naturals, FiniteSets

CONSTANTS
    Submissions,     \* calls of POST /optimize/
    Problems,        \* what the task depends on: [work, rules, wish]
    ProblemOf(_),    \* the problem a submission carries
    Killers,         \* problems whose solution exhausts the worker's memory
    Tasks,           \* Celery task ids
    Workers,         \* worker processes of the queue "optimizer"
    NoTask,
    NoProblem,       \* of a task id nobody created
    MaxErrors,       \* failed polls in a row before the client gives up
    MaxFaults        \* bound: workers lost for other reasons and keys evicted by
                     \* Redis, together

ASSUME ProblemsAssumption ==
    /\ \A s \in Submissions : ProblemOf(s) \in Problems
    /\ \A p \in Problems : DOMAIN p = {"work", "rules", "wish"}
    /\ Killers \subseteq Problems
    /\ NoTask \notin Tasks
    /\ NoProblem \notin Problems
ASSUME BoundsAssumption ==
    MaxErrors \in Nat \ {0} /\ MaxFaults \in Nat

VARIABLES
    pc,        \* where the submission's handler or its poller stands
    seen,      \* cached task id read by the handler
    observed,  \* Celery state of that task read by the handler
    handed,    \* task id the submission was answered with
    errors,    \* polls of the submission that failed in a row
    cache,     \* optimizer:cache:<fingerprint>
    problem,   \* problem a task id was created for
    queue,     \* messages waiting in the broker
    running,   \* message a worker holds, unacknowledged until it is done
    stored,    \* workers that stored a result and have not acknowledged yet
    state,     \* Celery state of a task
    losses, evictions

\* Mutant of Fingerprint: the rules are left out.
WorkOnly(p) == <<p.work, "any rules">>

\* The work of a problem is its trips, vehicle types and depot_ids, its rules
\* are the algorithm and the parameters, and its wish is what reaches the solver
\* beside them: algorithm_preference, depot_id and time_budget_s.
\* _build_cache_fingerprint_payload hashes the first two.
Fingerprint(p) == <<p.work, p.rules>>
Keys == {Fingerprint(p) : p \in Problems}

client == <<pc, seen, observed, handed, errors>>
broker == <<queue, running, stored>>
budget == <<losses, evictions>>
vars == <<client, cache, problem, broker, state, budget>>

\* run_optimization_task never raises: an error is a SUCCESS that carries
\* _is_error, and a result the status handler cannot serialise is one too.
\* task_track_started is off: a running task is still PENDING.
Successes == {"SUCCESS", "SUCCESS_ERROR", "SUCCESS_UNREADABLE"}
Final == Successes \cup {"FAILURE"}
CeleryStates == {"PENDING", "PROGRESS"} \cup Final
Answered == {"completed", "failed", "unreachable", "refused"}
Places == {"idle", "looking", "deciding", "enqueuing", "caching", "polling"}
          \cup Answered

TypeOK ==
    /\ pc \in [Submissions -> Places]
    /\ seen \in [Submissions -> Tasks \cup {NoTask}]
    /\ observed \in [Submissions -> CeleryStates]
    /\ handed \in [Submissions -> Tasks \cup {NoTask}]
    /\ errors \in [Submissions -> 0..MaxErrors]
    /\ cache \in [Keys -> Tasks \cup {NoTask}]
    /\ problem \in [Tasks -> Problems \cup {NoProblem}]
    /\ queue \subseteq Tasks
    /\ running \in [Workers -> Tasks \cup {NoTask}]
    /\ stored \subseteq {w \in Workers : running[w] # NoTask}
    /\ state \in [Tasks -> CeleryStates]
    /\ losses \in Nat /\ evictions \in Nat
    /\ losses + evictions <= MaxFaults

Init ==
    /\ pc = [s \in Submissions |-> "idle"]
    /\ seen = [s \in Submissions |-> NoTask]
    /\ observed = [s \in Submissions |-> "PENDING"]
    /\ handed = [s \in Submissions |-> NoTask]
    /\ errors = [s \in Submissions |-> 0]
    /\ cache = [k \in Keys |-> NoTask]
    /\ problem = [t \in Tasks |-> NoProblem]
    /\ queue = {}
    /\ running = [w \in Workers |-> NoTask]
    /\ stored = {}
    /\ state = [t \in Tasks |-> "PENDING"]
    /\ losses = 0
    /\ evictions = 0

GoTo(s, place) == pc' = [pc EXCEPT ![s] = place]

CacheKey(s) == Fingerprint(ProblemOf(s))

-----------------------------------------------------------------------------
(* POST /optimize/: every await lets other submissions in. *)

\* A Redis that does not answer is a miss.
ReadCache(s) ==
    /\ pc[s] = "idle"
    /\ \E found \in {cache[CacheKey(s)], NoTask} :
          /\ seen' = [seen EXCEPT ![s] = found]
          /\ GoTo(s, IF found = NoTask THEN "enqueuing" ELSE "looking")
    /\ UNCHANGED <<observed, handed, errors, cache, problem, broker, state,
                   budget>>

ReadState(s) ==
    /\ pc[s] = "looking"
    /\ observed' = [observed EXCEPT ![s] = state[seen[s]]]
    /\ GoTo(s, "deciding")
    /\ UNCHANGED <<seen, handed, errors, cache, problem, broker, state, budget>>

\* States in which the cached task is handed out.  The age test before them
\* never fires: the timestamp it reads expires with the cache entry.
Reusable == {"PENDING"} \cup Successes

\* What the handler has read ends with its decision.
Decide(s) ==
    /\ pc[s] = "deciding"
    /\ seen' = [seen EXCEPT ![s] = NoTask]
    /\ observed' = [observed EXCEPT ![s] = "PENDING"]
    /\ \/ /\ observed[s] \in Reusable
          /\ handed' = [handed EXCEPT ![s] = seen[s]]
          /\ GoTo(s, "polling")
       \/ /\ observed[s] \notin Reusable
          /\ GoTo(s, "enqueuing")
          /\ UNCHANGED handed
    /\ UNCHANGED <<errors, cache, problem, broker, state, budget>>

\* Celery's ids are new; which of the unused ones it is makes no difference.
Unused == {t \in Tasks : problem[t] = NoProblem}

Enqueue(s) ==
    /\ pc[s] = "enqueuing"
    /\ Unused # {}
    /\ LET t == CHOOSE u \in Unused : TRUE IN
          /\ problem' = [problem EXCEPT ![t] = ProblemOf(s)]
          /\ queue' = queue \cup {t}
          /\ handed' = [handed EXCEPT ![s] = t]
    /\ GoTo(s, "caching")
    /\ UNCHANGED <<seen, observed, errors, cache, running, stored, state, budget>>

\* The broker does not take the task: HTTP 503.
Refuse(s) ==
    /\ pc[s] = "enqueuing"
    /\ GoTo(s, "refused")
    /\ UNCHANGED <<seen, observed, handed, errors, cache, problem, broker, state,
                   budget>>

\* A failed setex is logged and the answer is the same.
StoreInCache(s) ==
    /\ pc[s] = "caching"
    /\ \/ cache' = [cache EXCEPT ![CacheKey(s)] = handed[s]]
       \/ UNCHANGED cache
    /\ GoTo(s, "polling")
    /\ UNCHANGED <<seen, observed, handed, errors, problem, broker, state,
                   budget>>

-----------------------------------------------------------------------------
(* GET /optimize/status/{task_id}, polled by the client. *)

Reply(t) ==
    CASE state[t] \in {"PENDING", "PROGRESS"} -> "processing"
      [] state[t] = "SUCCESS" -> "completed"
      [] state[t] = "SUCCESS_ERROR" -> "failed"
      [] state[t] \in {"SUCCESS_UNREADABLE", "FAILURE"} -> "HTTP 500"

PollAnswer(s) ==
    /\ pc[s] = "polling"
    /\ Reply(handed[s]) \in {"completed", "failed"}
    /\ GoTo(s, Reply(handed[s]))
    /\ errors' = [errors EXCEPT ![s] = 0]
    /\ UNCHANGED <<seen, observed, handed, cache, problem, broker, state,
                   budget>>

PollProcessing(s) ==
    /\ pc[s] = "polling"
    /\ Reply(handed[s]) = "processing"
    /\ errors' = [errors EXCEPT ![s] = 0]
    /\ UNCHANGED <<pc, seen, observed, handed, cache, problem, broker, state,
                   budget>>

\* Mutant of PollError: errors are never counted.
PollErrorUncounted(s) ==
    /\ pc[s] = "polling" /\ Reply(handed[s]) = "HTTP 500"
    /\ UNCHANGED vars

PollError(s) ==
    /\ pc[s] = "polling"
    /\ Reply(handed[s]) = "HTTP 500"
    /\ errors' = [errors EXCEPT ![s] = @ + 1]
    /\ GoTo(s, IF errors[s] + 1 < MaxErrors THEN "polling" ELSE "unreachable")
    /\ UNCHANGED <<seen, observed, handed, cache, problem, broker, state,
                   budget>>

-----------------------------------------------------------------------------
(* Celery workers: late acknowledgement, one message each. *)

Deliver(w, t) ==
    /\ running[w] = NoTask
    /\ t \in queue
    /\ running' = [running EXCEPT ![w] = t]
    /\ queue' = queue \ {t}
    /\ UNCHANGED <<client, cache, problem, stored, state, budget>>

\* A worker at its task: it has not stored a result yet.
Busy(w) == running[w] # NoTask
AtWork(w) == Busy(w) /\ w \notin stored
Kills(w) == AtWork(w) /\ problem[running[w]] \in Killers

\* Celery keeps a success whatever is stored after it, so that a message that
\* comes again does not take an answer back.
Report(t, new) ==
    state' = IF state[t] \in Successes THEN state ELSE [state EXCEPT ![t] = new]

ReportProgress(w) ==
    /\ AtWork(w) /\ ~Kills(w)
    /\ Report(running[w], "PROGRESS")
    /\ UNCHANGED <<client, cache, problem, broker, budget>>

StoreResult(w, final) ==
    /\ AtWork(w) /\ ~Kills(w)
    /\ Report(running[w], final)
    /\ stored' = stored \cup {w}
    /\ UNCHANGED <<client, cache, problem, queue, running, budget>>

\* The soft limit raises in the task, whose `except Exception` returns an
\* error like any other.
FinishTask(w) == \E success \in Successes : StoreResult(w, success)

\* The hard limit kills the process, and the worker stores a failure.
TimeLimit(w) == StoreResult(w, "FAILURE")

\* task_acks_late: the message goes when its result is stored.
Acknowledge(w) ==
    /\ w \in stored
    /\ stored' = stored \ {w}
    /\ running' = [running EXCEPT ![w] = NoTask]
    /\ UNCHANGED <<client, cache, problem, queue, state, budget>>

\* Mutant of LoseWorker: messages are acknowledged on delivery.
LoseWorkerAndMessage(w) ==
    /\ Busy(w) /\ losses + evictions < MaxFaults
    /\ losses' = losses + 1
    /\ running' = [running EXCEPT ![w] = NoTask]
    /\ stored' = stored \ {w}
    /\ UNCHANGED <<client, cache, problem, queue, state, evictions>>

\* reject_on_worker_lost: the message of a worker that died is requeued, also
\* when its result is stored and only the acknowledgement was missing.
LoseWorker(w) ==
    /\ Busy(w)
    /\ \/ Kills(w) /\ UNCHANGED losses
       \/ ~Kills(w) /\ losses + evictions < MaxFaults /\ losses' = losses + 1
    /\ queue' = queue \cup {running[w]}
    /\ running' = [running EXCEPT ![w] = NoTask]
    /\ stored' = stored \ {w}
    /\ UNCHANGED <<client, cache, problem, state, evictions>>

-----------------------------------------------------------------------------
(* Redis under memory pressure, and expiry after 12 hours. *)

Evict ==
    /\ losses + evictions < MaxFaults
    /\ evictions' = evictions + 1
    /\ \/ /\ \E k \in Keys : cache[k] # NoTask /\ cache' = [cache EXCEPT ![k] = NoTask]
          /\ UNCHANGED <<queue, state>>
       \/ /\ \E t \in Tasks : state[t] # "PENDING" /\ state' = [state EXCEPT ![t] = "PENDING"]
          /\ UNCHANGED <<queue, cache>>
       \/ /\ queue # {} /\ queue' = {}
          /\ UNCHANGED <<cache, state>>
    /\ UNCHANGED <<client, problem, running, stored, losses>>

-----------------------------------------------------------------------------

Submit(s) ==
    ReadState(s) \/ Decide(s) \/ Enqueue(s) \/ Refuse(s) \/ StoreInCache(s)
Poll(s) == PollAnswer(s) \/ PollProcessing(s) \/ PollError(s)
Work(w) ==
    \/ \E t \in Tasks : Deliver(w, t)
    \/ ReportProgress(w) \/ FinishTask(w) \/ TimeLimit(w) \/ Acknowledge(w)
    \/ LoseWorker(w)

Next ==
    \/ \E s \in Submissions : ReadCache(s) \/ Submit(s) \/ Poll(s)
    \/ \E w \in Workers : Work(w)
    \/ Evict

Spec == Init /\ [][Next]_vars

\* Handlers run, clients poll, and a message held comes to an end: the task
\* returns, or its hard limit or the death of its worker ends it.  The queue is
\* a list served from its head, and a requeued message goes to its end: one that
\* waits is taken in its turn, whatever comes back behind it.
Fairness ==
    /\ \A s \in Submissions :
          WF_vars(Submit(s)) /\ WF_vars(PollAnswer(s)) /\ WF_vars(PollError(s))
    /\ \A t \in Tasks : SF_vars(\E w \in Workers : Deliver(w, t))
    /\ \A w \in Workers :
          /\ WF_vars(FinishTask(w) \/ TimeLimit(w) \/ LoseWorker(w))
          /\ WF_vars(Acknowledge(w))

FairSpec == Spec /\ Fairness

-----------------------------------------------------------------------------
(* Properties *)

Waiting(t) == t \in queue
Held(t) == \E w \in Workers : running[w] = t
Reachable(t) ==
    \/ \E s \in Submissions : handed[s] = t \/ seen[s] = t
    \/ \E k \in Keys : cache[k] = t

\* A task id stands for work that is still to be done or was done.
Stands(t) == Waiting(t) \/ Held(t) \/ state[t] \in Final

\* A task id somebody holds or could be handed stands for something: losing a
\* worker loses no task.  Only an eviction makes one stand for nothing; GET
\* /status then answers "processing" for ever, and the cache keeps handing the
\* id out, because PENDING is also what Celery says of an id it does not know.
NoTaskVanishes == evictions = 0 => \A t \in Tasks : Reachable(t) => Stands(t)

\* A message is with one worker or in the queue, never in two places, although
\* it is acknowledged late and comes back when its worker dies.
OneHolder ==
    /\ \A w \in Workers : Busy(w) => running[w] \notin queue
    /\ \A v, w \in Workers : Busy(v) /\ running[v] = running[w] => v = w

\* A task stands for one execution at a time: it is not lost, and its message
\* is in one place.
TasksKept == TypeOK /\ NoTaskVanishes /\ OneHolder

SameTask(p, q) == p.work = q.work /\ p.rules = q.rules

\* The task a submission is handed does the submission's own work under its own
\* rules, although the cache shares tasks; what it wished beside them may be
\* another's (NewScenariosAreSolved).  It reads "completed" only while that task
\* has succeeded: a message that comes again after its result was stored, with
\* the acknowledgement lost, takes no answer back.  An eviction may.
AnswerIsOwn ==
    \A s \in Submissions :
        /\ handed[s] # NoTask => SameTask(problem[handed[s]], ProblemOf(s))
        /\ pc[s] = "completed" /\ evictions = 0 => state[handed[s]] = "SUCCESS"

\* A submission is answered: late acknowledgement retries lost work, the hard
\* limit ends what hangs, a client that only gets errors gives up, and tasks
\* that kill their workers hold up nobody else.  Left without an answer are the
\* submissions that were handed such a task, for it is requeued for ever
\* (KilledTasksEnd), and those whose task an eviction made stand for nothing.
SubmissionsAnswered ==
    \A s \in Submissions :
        pc[s] # "idle" ~>
            \/ pc[s] \in Answered
            \/ handed[s] # NoTask /\ ~Stands(handed[s])
            \/ handed[s] # NoTask /\ problem[handed[s]] \in Killers

\* What optimize says of its cache (optimize.py:146): a scenario is enqueued if it
\* is new.  A problem that differs from a cached one only in the algorithm it
\* prefers, its depot_id or its time budget has the key of the other, and is
\* answered with the other's task.
NewScenariosAreSolved ==
    \A s \in Submissions :
        handed[s] # NoTask => problem[handed[s]] = ProblemOf(s)

\* What celery_app.py:54 says of task_reject_on_worker_lost: it avoids an infinite
\* loop when a worker dies out of memory.  It is what makes the loop: the message
\* goes back to the queue, kills the next worker and comes back again, and its
\* submission polls "processing" for ever.
KilledTasksEnd ==
    \A s \in Submissions :
        pc[s] # "idle" ~>
            pc[s] \in Answered \/ (handed[s] # NoTask /\ ~Stands(handed[s]))
=============================================================================
