------------------------------ MODULE StoreProofs ------------------------------
(***************************************************************************)
(* What the parts keep that hold data between requests:                    *)
(*                                                                         *)
(* - the schedule cache: what getLatestSchedule reads and caches fits      *)
(*   together, for any number of readers, schedules, commits,              *)
(*   reassignments and restarts;                                           *)
(* - the runs of what-if scenarios: each request gets a run of its own     *)
(*   scenario, and none records a run beside one it could have found;      *)
(* - the strategic feed: ids, files and reports are used once, for any     *)
(*   number of files, retention steps, posts and crashes.                  *)
(***************************************************************************)
EXTENDS ScheduleCache, ScenarioRuns, StrategyFeed, FiniteSetTheorems, TLAPS

-------------------------------------------------------------------------------
(* ScheduleCache                                                               *)

(* Commits are numbered in order, and no transaction was forgotten. *)
CommitsCounted ==
    /\ \A i \in Ids : stamp[i] <= commits
    /\ reassigning <= reassigns

(* A reader that has not read the row has read nothing. *)
NothingYet == \A r \in Readers :
    reader[r].at # "assignments" => /\ reader[r].row = Unread
                                    /\ reader[r].blocks = Unread
                                    /\ reader[r].duties = Unread

(* The row it has read is no newer than the schedule, and the assignments are  *)
(* no older than the row.                                                      *)
RowFirst == \A r \in Readers :
    reader[r].at = "assignments" =>
        /\ reader[r].id \in Ids
        /\ reader[r].row \in Stamps
        /\ reader[r].row <= stamp[reader[r].id]
        /\ reader[r].row <= reader[r].blocks
        /\ reader[r].row <= reader[r].duties

CacheFits == cache # NoEntry => cache.row <= cache.blocks /\ cache.row <= cache.duties

CacheInv == TypeOK /\ CommitsCounted /\ NothingYet /\ RowFirst /\ CacheFits

-------------------------------------------------------------------------------
LEMMA InitCache == Init => CacheInv
<1> SUFFICES ASSUME Init PROVE CacheInv
  OBVIOUS
<1> USE BoundsAssumption
<1>1. TypeOK
  BY DEF Init, TypeOK, Ids, Stamps, Unread, Contents, NoEntry, Idle
<1>2. CommitsCounted
  BY DEF Init, CommitsCounted, Ids
<1>3. NothingYet /\ RowFirst
  BY DEF Init, NothingYet, RowFirst, Idle, Unread
<1>4. CacheFits
  BY DEF Init, CacheFits
<1> QED
  BY <1>1, <1>2, <1>3, <1>4 DEF CacheInv

LEMMA MissTyped ==
  ASSUME TypeOK, NEW r \in Readers
  PROVE  [reader EXCEPT ![r].at = "row"]
           \in [Readers -> [at : {"idle", "row", "assignments"},
                            id : Ids \cup {0}, row : Stamps \cup {Unread},
                            blocks : Stamps \cup {Unread},
                            duties : Stamps \cup {Unread}]]
  BY DEF TypeOK

(* A reader's own steps. *)
LEMMA ReaderStep ==
  ASSUME CacheInv, NEW r \in Readers, Hit(r) \/ Miss(r) \/ Read(r)
  PROVE  CacheInv'
<1> USE BoundsAssumption DEF CacheInv, TypeOK, CommitsCounted, NothingYet, RowFirst,
      CacheFits, db, writers, store, Ids, Stamps, Unread, Contents
<1>1. CASE Hit(r)
  BY <1>1 DEF Hit
<1>2. CASE Miss(r)
  <2>1. TypeOK'
    <3>1. reader' = [reader EXCEPT ![r].at = "row"] /\ cache' = NoEntry /\ age' = 0
      BY <1>2 DEF Miss
    <3>2. UNCHANGED <<db, writers, restarts>>
      BY <1>2 DEF Miss
    <3>3. reader' \in [Readers -> [at : {"idle", "row", "assignments"},
                                  id : Ids \cup {0}, row : Stamps \cup {Unread},
                                  blocks : Stamps \cup {Unread},
                                  duties : Stamps \cup {Unread}]]
      BY <3>1, MissTyped
    <3>4. age' \in 0..Ttl /\ cache' \in Contents \cup {NoEntry}
      BY <3>1
    <3> QED
      BY <3>2, <3>3, <3>4
  <2>2. CommitsCounted' /\ CacheFits'
    BY <1>2 DEF Miss
  <2>3. NothingYet' /\ RowFirst'
    BY <1>2 DEF Miss
  <2> QED
    BY <2>1, <2>2, <2>3
<1>3. CASE ReadRow(r)
  BY <1>3 DEF ReadRow
<1>4. CASE ReadBlocks(r)
  BY <1>4 DEF ReadBlocks
<1>5. CASE ReadDuties(r)
  BY <1>5 DEF ReadDuties
<1>6. CASE Remember(r)
  <2>1. /\ ContentRead(r).row = reader[r].row
        /\ ContentRead(r).blocks = reader[r].blocks
        /\ ContentRead(r).duties = reader[r].duties
        /\ ContentRead(r) \in Contents
    BY <1>6 DEF Remember, ContentRead
  <2>2. TypeOK'
    BY <1>6, <2>1 DEF Remember, Idle
  <2>3. CommitsCounted' /\ CacheFits'
    BY <1>6, <2>1 DEF Remember
  <2>4. NothingYet' /\ RowFirst'
    BY <1>6 DEF Remember, Idle
  <2> QED
    BY <2>2, <2>3, <2>4
<1> QED
  BY <1>1, <1>2, <1>3, <1>4, <1>5, <1>6 DEF Read

(* A commit leaves every reader's row behind or level with its schedule. *)
LEMMA CommitMoves ==
  ASSUME CacheInv, NEW i \in Ids, Commit(i)
  PROVE  /\ commits' \in Stamps
         /\ stamp' \in [Ids -> Stamps]
         /\ \A j \in Ids : stamp'[j] <= commits' /\ stamp[j] <= stamp'[j]
  BY BoundsAssumption DEF CacheInv, TypeOK, CommitsCounted, Commit, Ids, Stamps

LEMMA RowsStayBehind ==
  ASSUME CacheInv, UNCHANGED reader,
         stamp' \in [Ids -> Stamps], \A j \in Ids : stamp[j] <= stamp'[j]
  PROVE  NothingYet' /\ RowFirst'
<1>1. NothingYet'
  BY DEF CacheInv, NothingYet
<1>2. ASSUME NEW r \in Readers, reader[r].at = "assignments"
      PROVE  /\ reader[r].id \in Ids
             /\ reader[r].row \in Stamps
             /\ reader[r].row <= stamp'[reader[r].id]
             /\ reader[r].row <= reader[r].blocks
             /\ reader[r].row <= reader[r].duties
  <2>1. /\ reader[r].row \in Nat /\ stamp[reader[r].id] \in Nat
        /\ stamp'[reader[r].id] \in Nat
    BY <1>2, BoundsAssumption DEF CacheInv, RowFirst, TypeOK, Stamps
  <2> QED
    BY <1>2, <2>1 DEF CacheInv, RowFirst
<1> QED
  BY <1>1, <1>2 DEF RowFirst

LEMMA WriterStep == CacheInv /\ (Write \/ Restart) => CacheInv'
<1> SUFFICES ASSUME CacheInv, Write \/ Restart PROVE CacheInv'
  OBVIOUS
<1> USE BoundsAssumption
<1>1. CASE Create
  <2>1. latest + 1 \in Ids /\ Commit(latest + 1) /\ UNCHANGED reader
    BY <1>1 DEF Create, CacheInv, TypeOK, Ids
  <2>2. NothingYet' /\ RowFirst'
    BY <2>1, CommitMoves, RowsStayBehind
  <2>3. TypeOK' /\ CommitsCounted' /\ CacheFits'
    BY <1>1, <2>1, CommitMoves
    DEF Create, CacheInv, TypeOK, CommitsCounted, CacheFits, writers, store
  <2> QED
    BY <2>2, <2>3 DEF CacheInv
<1>2. ASSUME NEW i \in Ids, Abort(i) \/ Settle(i)
      PROVE  CacheInv'
  <2>1. Commit(i) /\ UNCHANGED reader
    BY <1>2 DEF Abort, Settle
  <2>2. NothingYet' /\ RowFirst'
    BY <2>1, CommitMoves, RowsStayBehind
  <2>3. TypeOK' /\ CommitsCounted' /\ CacheFits'
    BY <1>2, <2>1, CommitMoves
    DEF Abort, Settle, CacheInv, TypeOK, CommitsCounted, CacheFits, writers, store
  <2> QED
    BY <2>2, <2>3 DEF CacheInv
<1>3. ASSUME NEW i \in Ids, ReassignCommit(i)
      PROVE  CacheInv'
  <2>1. Commit(i) /\ UNCHANGED reader
    BY <1>3 DEF ReassignCommit
  <2>2. NothingYet' /\ RowFirst'
    BY <2>1, CommitMoves, RowsStayBehind
  <2>3. TypeOK' /\ CommitsCounted' /\ CacheFits'
    BY <1>3, <2>1, CommitMoves
    DEF ReassignCommit, CacheInv, TypeOK, CommitsCounted, CacheFits, store
  <2> QED
    BY <2>2, <2>3 DEF CacheInv
<1>4. ASSUME NEW i \in Ids, Invalidate(i)
      PROVE  CacheInv'
  BY <1>4 DEF Invalidate, Evict, CacheInv, TypeOK, CommitsCounted, NothingYet,
     RowFirst, CacheFits, db
<1>5. CASE ReassignEvict \/ ReassignNothing
  BY <1>5 DEF ReassignEvict, ReassignNothing, Evict, CacheInv, TypeOK,
     CommitsCounted, NothingYet, RowFirst, CacheFits, db, store
<1>6. CASE Restart
  <2>1. /\ NothingYet' /\ RowFirst' /\ CacheFits'
    BY <1>6 DEF Restart, Evict, NothingYet, RowFirst, CacheFits, Idle
  <2>2. commits' \in Stamps /\ stamp' \in [Ids -> Stamps]
    BY <1>6 DEF Restart, CacheInv, TypeOK, Stamps
  <2>3. CommitsCounted'
    BY <1>6 DEF Restart, CacheInv, TypeOK, CommitsCounted, Stamps
  <2>4. TypeOK'
    BY <1>6, <2>2 DEF Restart, Evict, CacheInv, TypeOK, Idle, Unread
  <2> QED
    BY <2>1, <2>3, <2>4 DEF CacheInv
<1> QED
  BY <1>1, <1>2, <1>3, <1>4, <1>5, <1>6 DEF Write

LEMMA NextCache == CacheInv /\ [Next]_vars => CacheInv'
<1> SUFFICES ASSUME CacheInv, [Next]_vars PROVE CacheInv'
  OBVIOUS
<1>1. CASE Tick
  BY <1>1, BoundsAssumption DEF Tick, CacheInv, TypeOK, CommitsCounted, NothingYet,
     RowFirst, CacheFits, db, writers
<1>2. CASE UNCHANGED vars
  BY <1>2 DEF vars, CacheInv, TypeOK, CommitsCounted, NothingYet, RowFirst,
     CacheFits, db, writers, store
<1> QED
  BY <1>1, <1>2, ReaderStep, WriterStep DEF Next

(* What is cached, and what a reader has read whole, fits together. *)
LEMMA CacheCoheres == CacheInv => AnswersCohere
<1> SUFFICES ASSUME CacheInv PROVE NoStatusAheadOfAssignments
  BY DEF CacheInv, AnswersCohere
<1>1. Unread \notin {cache.row, cache.blocks, cache.duties} =>
        cache.row <= cache.blocks /\ cache.row <= cache.duties
  BY DEF CacheInv, CacheFits, NoEntry
<1>2. ASSUME NEW r \in Readers,
             Unread \notin {ContentRead(r).row, ContentRead(r).blocks, ContentRead(r).duties}
      PROVE  /\ ContentRead(r).row <= ContentRead(r).blocks
             /\ ContentRead(r).row <= ContentRead(r).duties
  BY <1>2 DEF CacheInv, NothingYet, RowFirst, ContentRead
<1> QED
  BY <1>1, <1>2 DEF NoStatusAheadOfAssignments

(* Three queries without a transaction straddle a commit only one way: neither *)
(* the cache nor a reader that has read everything pairs a status with the     *)
(* assignments of an earlier commit (getLatestSchedule).                       *)
THEOREM CoherentAnswers == Spec => []AnswersCohere
  BY InitCache, NextCache, CacheCoheres, PTL DEF Spec
-------------------------------------------------------------------------------
(* ScenarioRuns                                                                *)

(* A run whose poller is alive is RUNNING, and so is one about to be posted,   *)
(* which has no poller yet and belongs to one request.                         *)
PollersRun == \A r \in live : run[r].status = "RUNNING"
PostedOnce == \A q \in Requests : pc[q] = "posting" =>
    /\ recorded[q] \in Runs \ live
    /\ run[recorded[q]].status = "RUNNING"
    /\ \A p \in Requests : pc[p] = "posting" /\ recorded[p] = recorded[q] => p = q

(* A run that was recorded or answered is a run of the request's scenario, and *)
(* is not free to be recorded again.                                           *)
Owned(q, r) == run[r].scenario = scenario[q] /\ run[r].status # "unused"
RunsAreOwn == \A q \in Requests :
    /\ pc[q] \in {"posting", "reading"} => recorded[q] \in Runs /\ Owned(q, recorded[q])
    /\ option[q] # NoRun => Owned(q, option[q])

(* Statuses only move forward. *)
Forward == \A q \in Requests, r \in Runs :
    /\ before[q][r] # "unused" => run[r].status # "unused"
    /\ before[q][r] = "COMPLETED" => run[r].status \in {"COMPLETED", "STALE"}

(* What each query of a request has ruled out. *)
NotSince(q, r, status) ==
    run[r].scenario = scenario[q] /\ run[r].status = status => before[q][r] # status
RuledOut == \A q \in Requests, r \in Runs :
    /\ pc[q] \in {"running?", "recording"} => NotSince(q, r, "COMPLETED")
    /\ pc[q] = "recording" => NotSince(q, r, "RUNNING")

ScenarioInv ==
    /\ ScenarioTypeOK /\ PollersRun /\ PostedOnce /\ RunsAreOwn /\ Forward /\ RuledOut
    /\ RunningIsAccounted

-------------------------------------------------------------------------------
LEMMA InitScenario == ScenarioInit => ScenarioInv
<1> SUFFICES ASSUME ScenarioInit PROVE ScenarioInv
  OBVIOUS
<1>1. ScenarioTypeOK
  <2>1. (CHOOSE c \in Scenarios : TRUE) \in Scenarios
    BY ScenariosAssumption
  <2> QED
    BY <2>1, ScenarioBounds DEF ScenarioInit, ScenarioTypeOK, Statuses
<1>2. PollersRun /\ PostedOnce /\ RunsAreOwn
  BY DEF ScenarioInit, PollersRun, PostedOnce, RunsAreOwn
<1>3. Forward /\ RuledOut /\ RunningIsAccounted
  BY DEF ScenarioInit, Forward, RuledOut, RunningIsAccounted
<1> QED
  BY <1>1, <1>2, <1>3 DEF ScenarioInv

(* A request that only moves, or is answered, keeps the rest. *)
LEMMA RequestStep ==
  ASSUME ScenarioInv, NEW q \in Requests, Begin(q) \/ Ensure(q)
  PROVE  ScenarioInv'
<1> USE ScenarioBounds, NoRunAssumption DEF ScenarioTypeOK, requests, failures, Statuses, GoTo
<1>0. /\ ScenarioTypeOK /\ PollersRun /\ PostedOnce /\ RunsAreOwn /\ Forward /\ RuledOut
      /\ RunningIsAccounted
  BY DEF ScenarioInv
<1>1. CASE Begin(q)
  <2>1. ScenarioTypeOK' /\ PollersRun' /\ PostedOnce' /\ RunsAreOwn'
    BY <1>0, <1>1 DEF Begin, PollersRun, PostedOnce, RunsAreOwn, Owned
  <2>3. RunningIsAccounted'
    BY <1>0, <1>1 DEF Begin, RunningIsAccounted
  <2>2. Forward' /\ RuledOut'
    BY <1>0, <1>1 DEF Begin, Forward, RuledOut, NotSince
  <2> QED
    BY <2>1, <2>2, <2>3 DEF ScenarioInv
<1>2. ASSUME NEW r \in Runs \cup {NoRun}, r # NoRun => Owned(q, r),
             Answer(q, r), UNCHANGED <<scenario, run, live>>,
             lost' \in SUBSET Runs, lost \subseteq lost',
             pc[q] = "posting" => recorded[q] \in lost',
             backendRestarts' \in 0..MaxBackendRestarts
      PROVE  ScenarioInv'
  <2>1. ScenarioTypeOK'
    BY <1>0, <1>2 DEF Answer, Forget
  <2>2. PollersRun' /\ PostedOnce'
    BY <1>0, <1>2 DEF Answer, Forget, PollersRun, PostedOnce
  <2>3. RunsAreOwn'
    BY <1>0, <1>2 DEF Answer, Forget, RunsAreOwn, Owned
  <2>4. Forward' /\ RuledOut'
    BY <1>0, <1>2 DEF Answer, Forget, Forward, RuledOut, NotSince
  <2>5. RunningIsAccounted'
    BY <1>0, <1>2 DEF Answer, Forget, RunningIsAccounted
  <2> QED
    BY <2>1, <2>2, <2>3, <2>4, <2>5 DEF ScenarioInv
<1>3. CASE FindCompleted(q)
  <2>1. CASE \E r \in With(scenario[q], {"COMPLETED"}) : Answer(q, r)
    BY <1>0, <1>2, <1>3, <2>1 DEF FindCompleted, With, Owned
  <2>2. CASE With(scenario[q], {"COMPLETED"}) = {} /\ Continue(q, "running?")
    <3>1. ScenarioTypeOK' /\ PollersRun' /\ PostedOnce' /\ RunsAreOwn' /\ Forward'
      BY <1>0, <1>3, <2>2
      DEF FindCompleted, Continue, PollersRun, PostedOnce, RunsAreOwn, Owned, Forward
    <3>2. RuledOut'
      BY <1>0, <1>3, <2>2 DEF FindCompleted, Continue, RuledOut, NotSince, With
    <3>3. RunningIsAccounted'
      BY <1>0, <1>3, <2>2 DEF FindCompleted, Continue, RunningIsAccounted
    <3> QED
      BY <3>1, <3>2, <3>3 DEF ScenarioInv
  <2> QED
    BY <1>3, <2>1, <2>2 DEF FindCompleted
<1>4. CASE FindInFlight(q)
  <2>1. CASE \E r \in With(scenario[q], {"RUNNING"}) : Answer(q, r)
    BY <1>0, <1>2, <1>4, <2>1 DEF FindInFlight, With, Owned
  <2>2. CASE With(scenario[q], {"RUNNING"}) = {} /\ Continue(q, "recording")
    <3>1. ScenarioTypeOK' /\ PollersRun' /\ PostedOnce' /\ RunsAreOwn' /\ Forward'
      BY <1>0, <1>4, <2>2
      DEF FindInFlight, Continue, PollersRun, PostedOnce, RunsAreOwn, Owned, Forward
    <3>2. RuledOut'
      BY <1>0, <1>4, <2>2 DEF FindInFlight, Continue, RuledOut, NotSince, With
    <3>3. RunningIsAccounted'
      BY <1>0, <1>4, <2>2 DEF FindInFlight, Continue, RunningIsAccounted
    <3> QED
      BY <3>1, <3>2, <3>3 DEF ScenarioInv
  <2> QED
    BY <1>4, <2>1, <2>2 DEF FindInFlight
<1>5. CASE Record(q)
  <2>1. PICK r \in Runs :
          /\ run[r].status = "unused"
          /\ run' = [run EXCEPT ![r] = [scenario |-> scenario[q], status |-> "RUNNING"]]
          /\ recorded' = [recorded EXCEPT ![q] = r]
    BY <1>5 DEF Record
  <2>2. ScenarioTypeOK'
    BY <1>0, <1>5, <2>1 DEF Record
  <2>3. /\ run'[r].scenario = scenario[q] /\ run'[r].status = "RUNNING"
        /\ \A u \in Runs \ {r} : run'[u] = run[u]
    BY <1>0, <2>1
  <2>4. r \notin live /\ \A p \in Requests :
          /\ pc[p] \in {"posting", "reading"} => recorded[p] # r
          /\ option[p] # r
    BY <1>0, <2>1 DEF PollersRun, RunsAreOwn, Owned
  <2>5. PollersRun' /\ PostedOnce'
    BY <1>0, <1>5, <2>1, <2>3, <2>4 DEF Record, PollersRun, PostedOnce
  <2>6. RunsAreOwn'
    BY <1>0, <1>5, <2>1, <2>3, <2>4 DEF Record, RunsAreOwn, Owned
  <2>7. \A p \in Requests : before[p][r] = "unused"
    BY <1>0, <2>1 DEF Forward
  <2>8. Forward' /\ RuledOut'
    BY <1>0, <1>5, <2>1, <2>3, <2>7 DEF Record, Forward, RuledOut, NotSince
  <2>9. RunningIsAccounted'
    BY <1>0, <1>5, <2>1, <2>3 DEF Record, RunningIsAccounted
  <2> QED
    BY <2>2, <2>5, <2>6, <2>8, <2>9 DEF ScenarioInv
<1>6. CASE RefuseInput(q)
  BY <1>0, <1>2, <1>6 DEF RefuseInput
<1>7. CASE Posted(q)
  <2>1. ScenarioTypeOK' /\ PollersRun' /\ RunsAreOwn'
    BY <1>0, <1>7 DEF Posted, PollersRun, PostedOnce, RunsAreOwn, Owned
  <2>2. PostedOnce'
    BY <1>0, <1>7 DEF Posted, PostedOnce
  <2>3. Forward' /\ RuledOut'
    BY <1>0, <1>7 DEF Posted, Forward, RuledOut, NotSince
  <2>4. RunningIsAccounted'
    BY <1>0, <1>7 DEF Posted, RunningIsAccounted
  <2> QED
    BY <2>1, <2>2, <2>3, <2>4 DEF ScenarioInv
<1>8. CASE PostFails(q)
  BY <1>0, <1>2, <1>8 DEF PostFails, Lose, PostedOnce
<1>9. CASE ReadRun(q)
  BY <1>0, <1>2, <1>9 DEF ReadRun, RunsAreOwn
<1> QED
  BY <1>1, <1>3, <1>4, <1>5, <1>6, <1>7, <1>8, <1>9 DEF Ensure

(* Runs settle, grow old, or are failed by a restart. *)
LEMMA RunStep ==
  ScenarioInv /\ ((\E r \in Runs : Finish(r) \/ PollerEnds(r) \/ Age(r)) \/ BackendRestart)
    => ScenarioInv'
<1> SUFFICES ASSUME ScenarioInv, (\E r \in Runs : Finish(r) \/ PollerEnds(r) \/ Age(r)) \/ BackendRestart
             PROVE  ScenarioInv'
  OBVIOUS
<1> USE ScenarioBounds, NoRunAssumption DEF ScenarioTypeOK, requests, failures, Statuses
<1>0. /\ ScenarioTypeOK /\ PollersRun /\ PostedOnce /\ RunsAreOwn /\ Forward /\ RuledOut
      /\ RunningIsAccounted
  BY DEF ScenarioInv
<1>1. ASSUME NEW r \in Runs, Finish(r)
      PROVE  ScenarioInv'
  <2>1. PICK status \in {"COMPLETED", "FAILED"} : run' = [run EXCEPT ![r].status = status]
    BY <1>1 DEF Finish
  <2>2. /\ run'[r].scenario = run[r].scenario /\ run'[r].status = status
        /\ run[r].status = "RUNNING"
        /\ \A u \in Runs \ {r} : run'[u] = run[u]
    BY <1>0, <1>1, <2>1 DEF Finish, PollersRun
  <2>3. ScenarioTypeOK' /\ PollersRun' /\ PostedOnce'
    BY <1>0, <1>1, <2>1, <2>2 DEF Finish, PollersRun, PostedOnce
  <2>4. RunsAreOwn'
    BY <1>0, <1>1, <2>2 DEF Finish, RunsAreOwn, Owned
  <2>5. Forward' /\ RuledOut'
    BY <1>0, <1>1, <2>2 DEF Finish, Forward, RuledOut, NotSince
  <2>6. RunningIsAccounted'
    BY <1>0, <1>1, <2>2 DEF Finish, RunningIsAccounted
  <2> QED
    BY <2>3, <2>4, <2>5, <2>6 DEF ScenarioInv
<1>4. ASSUME NEW r \in Runs, PollerEnds(r)
      PROVE  ScenarioInv'
  <2>1. ScenarioTypeOK' /\ PollersRun' /\ PostedOnce' /\ RunsAreOwn'
    BY <1>0, <1>4 DEF PollerEnds, Lose, PollersRun, PostedOnce, RunsAreOwn, Owned
  <2>2. Forward' /\ RuledOut' /\ RunningIsAccounted'
    BY <1>0, <1>4
    DEF PollerEnds, Lose, Forward, RuledOut, NotSince, RunningIsAccounted
  <2> QED
    BY <2>1, <2>2 DEF ScenarioInv
<1>2. ASSUME NEW r \in Runs, Age(r)
      PROVE  ScenarioInv'
  <2>1. /\ run'[r].scenario = run[r].scenario /\ run'[r].status = "STALE"
        /\ run[r].status = "COMPLETED"
        /\ \A u \in Runs \ {r} : run'[u] = run[u]
    BY <1>0, <1>2 DEF Age
  <2>2. ScenarioTypeOK' /\ PollersRun' /\ PostedOnce'
    BY <1>0, <1>2, <2>1 DEF Age, PollersRun, PostedOnce
  <2>3. RunsAreOwn'
    BY <1>0, <1>2, <2>1 DEF Age, RunsAreOwn, Owned
  <2>4. Forward' /\ RuledOut'
    BY <1>0, <1>2, <2>1 DEF Age, Forward, RuledOut, NotSince
  <2>5. RunningIsAccounted'
    BY <1>0, <1>2, <2>1 DEF Age, RunningIsAccounted
  <2> QED
    BY <2>2, <2>3, <2>4, <2>5 DEF ScenarioInv
<1>3. CASE BackendRestart
  <2>1. \A r \in Runs : /\ run'[r].scenario = run[r].scenario
                        /\ run'[r].status = "unused" <=> run[r].status = "unused"
                        /\ run'[r] \in [scenario : Scenarios, status : Statuses]
    BY <1>0, <1>3 DEF BackendRestart
  <2>2. ScenarioTypeOK'
    BY <1>0, <1>3, <2>1 DEF BackendRestart
  <2>3. PollersRun' /\ PostedOnce' /\ Forward' /\ RuledOut'
    BY <1>3 DEF BackendRestart, PollersRun, PostedOnce, Forward, RuledOut
  <2>4. RunsAreOwn'
    BY <1>0, <1>3, <2>1 DEF BackendRestart, RunsAreOwn, Owned
  <2>5. RunningIsAccounted'
    BY <1>0, <1>3 DEF BackendRestart, RunningIsAccounted
  <2> QED
    BY <2>2, <2>3, <2>4, <2>5 DEF ScenarioInv
<1> QED
  BY <1>1, <1>2, <1>3, <1>4

LEMMA NextScenario == ScenarioInv /\ [ScenarioNext]_scenarioVars => ScenarioInv'
<1>1. ScenarioInv /\ UNCHANGED scenarioVars => ScenarioInv'
  BY DEF scenarioVars, requests, failures, ScenarioInv, ScenarioTypeOK, PollersRun, PostedOnce,
     RunsAreOwn, Owned, Forward, RuledOut, NotSince, RunningIsAccounted
<1> QED
  BY <1>1, RequestStep, RunStep DEF ScenarioNext

LEMMA ScenarioHolds == ScenarioInv => OptionsHold
<1> SUFFICES ASSUME ScenarioInv PROVE OptionIsOwn /\ SteadyRunIsReused
  BY DEF ScenarioInv, OptionsHold
<1>1. OptionIsOwn
  BY DEF ScenarioInv, RunsAreOwn, Owned, OptionIsOwn
<1>2. SteadyRunIsReused
  BY DEF ScenarioInv, RuledOut, NotSince, SteadyRunIsReused, Reusable
<1> QED
  BY <1>1, <1>2

(* A request is answered with a run of its own scenario, and records a run     *)
(* only when none that it could have found was there all along; and no run is  *)
(* RUNNING without a poller but those that a failure left so                   *)
(* (ensureScenarioRun).                                                        *)
THEOREM OptionsKept == ScenarioSpec => []OptionsHold
  BY InitScenario, NextScenario, ScenarioHolds, PTL DEF ScenarioSpec
-------------------------------------------------------------------------------
(* StrategyFeed                                                                *)

(* What has been stored since the process started and moved: its file is in    *)
(* the archive, or on its way there.                                           *)
Stored == archive \cup (IF at = "archiving" THEN {current} ELSE {})

OnDisk ==
    /\ inbox \cap archive = {}
    /\ batch \subseteq inbox
    /\ at = "archiving" => current \in inbox \ batch

(* Ids count what was stored and posted, reports what was marked and posted.   *)
Counted ==
    /\ lastSnapshot <= Cardinality(Stored) + posts + faults
    /\ reconciled <= lastSnapshot
    /\ lastReport <= reconciled + posts

(* Ids grow to the last one given out, which the newest snapshot has.          *)
Numbered ==
    /\ \A i \in 1..Len(snapshots) :
         /\ snapshots[i].id <= lastSnapshot
         /\ snapshots[i].file \in Files => snapshots[i].file \in Stored \cup again
    /\ snapshots # <<>> => Latest.id = lastSnapshot

(* Reports name snapshots up to the mark.                                      *)
Marked == \A i \in 1..Len(reports) : reports[i] <= reconciled

(* The list of snapshots, the list of reports, and the rest of the types.      *)
Snapshots == [id : SnapshotIds, file : Files \cup {NoFile}]
SnapshotsKept ==
    /\ snapshots \in Seq(Snapshots) /\ lastSnapshot \in Nat
    /\ SnapshotIdsNeverReused /\ FileStoredOnce /\ Numbered
ReportsKept ==
    /\ reports \in Seq(SnapshotIds) /\ lastReport \in Nat /\ reconciled \in Nat
    /\ SnapshotReportedOnce /\ Marked
LoopTyped ==
    /\ inbox \subseteq Files /\ archive \subseteq Files
    /\ at \in {"asleep", "inbox", "archiving", "reconciling", "reconcile",
               "cleanup"}
    /\ batch \subseteq Files
    /\ current \in Files \cup {NoFile}
    /\ saved \in BOOLEAN /\ due \in BOOLEAN /\ again \subseteq Files
    /\ posts \in 0..MaxPosts /\ crashes \in 0..MaxCrashes /\ faults \in 0..MaxFaults

FeedInv == LoopTyped /\ OnDisk /\ SnapshotsKept /\ ReportsKept /\ Counted

(* What is counted stays within the files and the posts there are.             *)
LEMMA CountsBounded ==
  ASSUME NEW S \in SUBSET Files, NEW p \in 0..MaxPosts, NEW q \in 0..MaxFaults,
         NEW l \in Nat, l <= Cardinality(S) + p + q
  PROVE  /\ l \in SnapshotIds
         /\ \A r \in Nat : r <= l => r \in SnapshotIds
         /\ \A r \in Nat, n \in Nat : r <= l /\ n <= r + p
              => n \in 0..(Cardinality(Files) + 2 * MaxPosts + MaxFaults)
<1>1. /\ Cardinality(S) \in Nat /\ Cardinality(Files) \in Nat
      /\ Cardinality(S) <= Cardinality(Files)
  BY FilesAssumption, FS_Subset, FS_CardinalityType
<1>2. MaxPosts \in Nat /\ MaxFaults \in Nat
  BY FeedBounds
<1> QED
  BY <1>1, <1>2 DEF SnapshotIds

(* Files, and how many have been stored                                        *)
LEMMA StoredFiles ==
  ASSUME LoopTyped, OnDisk
  PROVE  Stored \in SUBSET Files
  BY DEF LoopTyped, OnDisk, Stored

LEMMA OneMoreStored ==
  ASSUME NEW S \in SUBSET Files, NEW f \in Files, f \notin S
  PROVE  /\ Cardinality(S) \in Nat
         /\ Cardinality(S \cup {f}) = Cardinality(S) + 1
<1>1. IsFiniteSet(S)
  BY FilesAssumption, FS_Subset
<1> QED
  BY <1>1, FS_AddElement, FS_CardinalityType

(* _apply_retention drops a first part of the list.                            *)
IsSuffix(r, s) ==
    \E d \in Nat : /\ Len(r) + d = Len(s)
                   /\ \A i \in 1..Len(r) : i + d \in 1..Len(s) /\ r[i] = s[i + d]

LEMMA RetainedIsSuffix ==
  ASSUME NEW T, NEW s \in Seq(T), NEW max \in Nat \ {0}, NEW r \in Retained(s, max)
  PROVE  r \in Seq(T) /\ IsSuffix(r, s)
<1> DEFINE newest == IF Len(s) > max THEN Len(s) - max + 1 ELSE 1
<1>1. PICK k \in newest..(Len(s) + 1) : r = SubSeq(s, k, Len(s))
  BY DEF Retained
<1>2. k \in 1..(Len(s) + 1) /\ Len(s) \in Nat
  OBVIOUS
<1>3. r \in Seq(T)
  BY <1>1, <1>2
<1>4. Len(r) = Len(s) - k + 1
  BY <1>1, <1>2
<1>5. \A i \in 1..Len(r) : i + (k - 1) \in 1..Len(s) /\ r[i] = s[i + (k - 1)]
  BY <1>1, <1>2, <1>4
<1>6. k - 1 \in Nat /\ Len(r) + (k - 1) = Len(s)
  BY <1>2, <1>4
<1> QED
  BY <1>3, <1>5, <1>6 DEF IsSuffix

LEMMA FeedStarts == FeedInit => FeedInv
<1> SUFFICES ASSUME FeedInit PROVE FeedInv
  OBVIOUS
<1> USE DEF FeedInit
<1>1. LoopTyped /\ OnDisk
  <2>1. 0 \in 0..MaxPosts /\ 0 \in 0..MaxCrashes /\ 0 \in 0..MaxFaults
    BY FeedBounds
  <2> QED
    BY <2>1 DEF LoopTyped, OnDisk
<1>2. Counted
  <2>1. Stored = {} /\ Cardinality({}) = 0
    BY FS_EmptySet DEF Stored
  <2> QED
    BY <2>1 DEF Counted
<1>3. SnapshotsKept
  BY DEF SnapshotsKept, SnapshotIdsNeverReused, FileStoredOnce, Numbered
<1>4. ReportsKept
  BY DEF ReportsKept, SnapshotReportedOnce, Marked
<1> QED
  BY <1>1, <1>2, <1>3, <1>4 DEF FeedInv

(* A snapshot more: its id is above all others, its file new.                  *)
LEMMA AddKeeps ==
  ASSUME FeedInv, NEW f \in Files \cup {NoFile}, AddSnapshot(f),
         NextId \in SnapshotIds, Stored \subseteq Stored', again' = again,
         f \in Files => f \in Stored' \ Stored
  PROVE  SnapshotsKept'
<1> DEFINE n == Len(snapshots)
<1>1. /\ snapshots \in Seq(Snapshots) /\ lastSnapshot \in Nat
      /\ SnapshotIdsNeverReused /\ FileStoredOnce /\ Numbered
  BY DEF FeedInv, SnapshotsKept
<1>2. [id |-> NextId, file |-> f] \in Snapshots
  BY DEF Snapshots
<1>3. /\ snapshots' \in Seq(Snapshots) /\ Len(snapshots') = n + 1 /\ n \in Nat
      /\ \A i \in 1..n : snapshots'[i] = snapshots[i]
      /\ snapshots'[n + 1] = [id |-> NextId, file |-> f]
      /\ lastSnapshot' = lastSnapshot + 1
  <2> HIDE DEF Snapshots
  <2> QED
    BY <1>1, <1>2 DEF AddSnapshot, NextId
<1>4. \A i \in 1..n : /\ snapshots[i].id \in Nat /\ snapshots[i].id <= lastSnapshot
                      /\ snapshots[i].file \in Files => snapshots[i].file \in Stored \cup again
  <2>1. \A i \in 1..n : snapshots[i] \in Snapshots
    BY <1>1
  <2>2. \A i \in 1..n : snapshots[i].id \in Nat
    BY <2>1, FS_CardinalityType, FilesAssumption, FeedBounds DEF Snapshots, SnapshotIds
  <2> QED
    BY <1>1, <2>2 DEF Numbered
<1>5. SnapshotIdsNeverReused'
  <2>1. \A i \in 1..n : snapshots'[i].id = snapshots[i].id /\ snapshots[i].id <= lastSnapshot
    BY <1>3, <1>4
  <2>2. snapshots'[n + 1].id = lastSnapshot + 1 /\ \A i \in 1..n : snapshots[i].id \in Nat
    BY <1>3, <1>4 DEF NextId
  <2> SUFFICES ASSUME NEW i \in 1..(n + 1), NEW j \in 1..(n + 1), i < j
               PROVE  snapshots'[i].id < snapshots'[j].id
    BY <1>3 DEF SnapshotIdsNeverReused
  <2>3. i \in 1..n /\ (j \in 1..n \/ j = n + 1)
    BY <1>3
  <2>4. n = Len(snapshots) /\ SnapshotIdsNeverReused /\ lastSnapshot \in Nat
    BY <1>1
  <2>5. CASE j \in 1..n
    BY <2>1, <2>3, <2>4, <2>5 DEF SnapshotIdsNeverReused
  <2>6. CASE j = n + 1
    BY <2>1, <2>2, <2>3, <2>4, <2>6
  <2> QED
    BY <2>3, <2>5, <2>6
<1>6. FileStoredOnce'
  <2> SUFFICES ASSUME NEW i \in 1..(n + 1), NEW j \in 1..(n + 1),
                      snapshots'[i].file = snapshots'[j].file,
                      snapshots'[i].file \notin again \cup {NoFile}
               PROVE  i = j
    BY <1>3 DEF FileStoredOnce
  <2>1. CASE i \in 1..n /\ j \in 1..n
    BY <1>1, <1>3, <2>1 DEF FileStoredOnce
  <2>2. CASE i = n + 1 /\ j \in 1..n
    BY <1>3, <1>4, <2>2
  <2>3. CASE i \in 1..n /\ j = n + 1
    BY <1>3, <1>4, <2>3
  <2> QED
    BY <1>3, <2>1, <2>2, <2>3
<1>7. Numbered'
  <2>1. \A i \in 1..(n + 1) :
          /\ snapshots'[i].id <= lastSnapshot'
          /\ snapshots'[i].file \in Files => snapshots'[i].file \in Stored' \cup again'
    BY <1>1, <1>3, <1>4 DEF NextId
  <2>2. Latest'.id = lastSnapshot'
    BY <1>1, <1>3 DEF Latest, NextId
  <2> QED
    BY <1>3, <2>1, <2>2 DEF Numbered
<1>8. lastSnapshot' \in Nat
  BY <1>1, <1>3
<1> QED
  BY <1>3, <1>5, <1>6, <1>7, <1>8 DEF SnapshotsKept, Snapshots, SnapshotIds

LEMMA SnapshotsStay ==
  ASSUME FeedInv, UNCHANGED <<snapshots, lastSnapshot>>, again \subseteq again',
         Stored \cup again \subseteq Stored' \cup again'
  PROVE  SnapshotsKept'
  BY DEF FeedInv, SnapshotsKept, SnapshotIdsNeverReused, FileStoredOnce, Numbered, Latest,
         Snapshots, SnapshotIds

(* A report more: it names no snapshot, or one beyond the mark, which then     *)
(* names it too.                                                               *)
LEMMA ReportKeeps ==
  ASSUME FeedInv, NEW n \in SnapshotIds, AddReport(n),
         \/ n = 0 /\ reconciled' = reconciled
         \/ n > reconciled /\ reconciled' = n
  PROVE  ReportsKept'
<1> DEFINE k == Len(reports)
<1>1. /\ reports \in Seq(SnapshotIds) /\ lastReport \in Nat /\ reconciled \in Nat
      /\ SnapshotReportedOnce /\ Marked
  BY DEF FeedInv, ReportsKept
<1>2. /\ reports' \in Seq(SnapshotIds) /\ Len(reports') = k + 1 /\ k \in Nat
      /\ \A i \in 1..k : reports'[i] = reports[i]
      /\ reports'[k + 1] = n
      /\ lastReport' = lastReport + 1
  BY <1>1 DEF AddReport
<1>3. n \in Nat /\ \A i \in 1..k : reports[i] \in Nat /\ reports[i] <= reconciled
  <2>1. \A m \in SnapshotIds : m \in Nat
    BY FS_CardinalityType, FilesAssumption, FeedBounds DEF SnapshotIds
  <2>2. \A i \in 1..k : reports[i] \in SnapshotIds
    BY <1>1
  <2> QED
    BY <1>1, <2>1, <2>2 DEF Marked
<1>4. SnapshotReportedOnce'
  <2> SUFFICES ASSUME NEW i \in 1..(k + 1), NEW j \in 1..(k + 1),
                      reports'[i] = reports'[j], reports'[i] # 0
               PROVE  i = j
    BY <1>2 DEF SnapshotReportedOnce
  <2>1. CASE i \in 1..k /\ j \in 1..k
    BY <1>1, <1>2, <2>1 DEF SnapshotReportedOnce
  <2>2. CASE i = k + 1 /\ j \in 1..k
    BY <1>1, <1>2, <1>3, <2>2
  <2>3. CASE i \in 1..k /\ j = k + 1
    BY <1>1, <1>2, <1>3, <2>3
  <2> QED
    BY <1>2, <2>1, <2>2, <2>3
<1>5. Marked'
  BY <1>1, <1>2, <1>3 DEF Marked
<1> QED
  BY <1>1, <1>2, <1>3, <1>4, <1>5 DEF ReportsKept, SnapshotIds

LEMMA ReportsStay ==
  ASSUME FeedInv, UNCHANGED <<reports, lastReport, reconciled>>
  PROVE  ReportsKept'
  BY DEF FeedInv, ReportsKept, SnapshotReportedOnce, Marked, SnapshotIds

(* Retention takes the oldest away and leaves the rest as it was.              *)
LEMMA PruneKeeps ==
  ASSUME FeedInv, Prune, UNCHANGED <<lastSnapshot, lastReport, reconciled>>,
         Stored' = Stored, again' = again
  PROVE  SnapshotsKept' /\ ReportsKept'
<1>1. /\ snapshots \in Seq(Snapshots) /\ lastSnapshot \in Nat
      /\ SnapshotIdsNeverReused /\ FileStoredOnce /\ Numbered
      /\ reports \in Seq(SnapshotIds) /\ lastReport \in Nat /\ reconciled \in Nat
      /\ SnapshotReportedOnce /\ Marked
  BY DEF FeedInv, SnapshotsKept, ReportsKept
<1>2. /\ MaxSnapshots \in Nat \ {0} /\ MaxReports \in Nat \ {0}
      /\ snapshots' \in Retained(snapshots, MaxSnapshots)
      /\ reports' \in Retained(reports, MaxReports)
  BY FeedBounds DEF Prune
<1>3. snapshots' \in Seq(Snapshots) /\ IsSuffix(snapshots', snapshots)
  <2> HIDE DEF Snapshots
  <2> QED
    BY <1>1, <1>2, RetainedIsSuffix
<1>4. PICK d \in Nat :
        \A i \in 1..Len(snapshots') :
          i + d \in 1..Len(snapshots) /\ snapshots'[i] = snapshots[i + d]
  BY <1>3 DEF IsSuffix
<1>5. reports' \in Seq(SnapshotIds) /\ IsSuffix(reports', reports)
  BY <1>1, <1>2, RetainedIsSuffix
<1>6. PICK e \in Nat :
        \A i \in 1..Len(reports') :
          i + e \in 1..Len(reports) /\ reports'[i] = reports[i + e]
  BY <1>5 DEF IsSuffix
<1>7. Len(snapshots') \in Nat /\ Len(snapshots) \in Nat
      /\ Len(reports') \in Nat /\ Len(reports) \in Nat
  BY <1>1, <1>3, <1>5
<1>8. SnapshotIdsNeverReused'
  <2> SUFFICES ASSUME NEW i \in 1..Len(snapshots'), NEW j \in 1..Len(snapshots'), i < j
               PROVE  snapshots'[i].id < snapshots'[j].id
    BY DEF SnapshotIdsNeverReused
  <2>1. i + d < j + d
    BY <1>7
  <2> QED
    BY <1>1, <1>4, <2>1 DEF SnapshotIdsNeverReused
<1>9. FileStoredOnce'
  <2> SUFFICES ASSUME NEW i \in 1..Len(snapshots'), NEW j \in 1..Len(snapshots'),
                      snapshots'[i].file = snapshots'[j].file,
                      snapshots'[i].file \notin again \cup {NoFile}
               PROVE  i = j
    BY DEF FileStoredOnce
  <2>1. i + d = j + d
    BY <1>1, <1>4 DEF FileStoredOnce
  <2> QED
    BY <1>7, <2>1
<1>10. Numbered'
  <2>1. snapshots' # <<>> => Latest'.id = lastSnapshot'
    <3> SUFFICES ASSUME snapshots' # <<>> PROVE Latest'.id = lastSnapshot
      OBVIOUS
    <3>1. Len(snapshots') \in 1..Len(snapshots')
      BY <1>3, <1>7
    <3>2. snapshots'[Len(snapshots')] = snapshots[Len(snapshots)] /\ snapshots # <<>>
      <4>1. PICK k \in Nat : /\ Len(snapshots') + k = Len(snapshots)
                             /\ \A i \in 1..Len(snapshots') : snapshots'[i] = snapshots[i + k]
        BY <1>3 DEF IsSuffix
      <4> QED
        BY <1>7, <3>1, <4>1
    <3> QED
      BY <1>1, <3>2 DEF Numbered, Latest
  <2> QED
    BY <1>1, <1>4, <1>7, <2>1 DEF Numbered
<1>11. SnapshotReportedOnce'
  <2> SUFFICES ASSUME NEW i \in 1..Len(reports'), NEW j \in 1..Len(reports'),
                      reports'[i] = reports'[j], reports'[i] # 0
               PROVE  i = j
    BY DEF SnapshotReportedOnce
  <2>1. i + e = j + e
    BY <1>1, <1>6 DEF SnapshotReportedOnce
  <2> QED
    BY <1>7, <2>1
<1>12. Marked'
  BY <1>1, <1>6, <1>7 DEF Marked
<1> QED
  BY <1>1, <1>3, <1>5, <1>8, <1>9, <1>10, <1>11, <1>12
  DEF SnapshotsKept, ReportsKept, Snapshots, SnapshotIds

(* What is stored grows by what a step stores and by nothing else.             *)
LEMMA StoredStays ==
  ASSUME UNCHANGED archive, UNCHANGED current,
         at = at' \/ ("archiving" \notin {at, at'})
  PROVE  Stored' = Stored
  BY DEF Stored

(* The routes and the clock                                                    *)
LEMMA RouteKeeps ==
  ASSUME FeedInv, SaveScenario \/ IngestFeed \/ RunReconciliation \/ RunCleanup \/ IntervalPasses
  PROVE  FeedInv'
<1> USE FeedBounds DEF disk, loop, memory, bounds
<1>0. LoopTyped /\ OnDisk /\ SnapshotsKept /\ ReportsKept /\ Counted
  BY DEF FeedInv
<1>1. /\ UNCHANGED <<inbox, archive, at, batch, current, again, faults>>
      /\ LoopTyped' /\ OnDisk' /\ Stored' = Stored
  <2>1. UNCHANGED <<inbox, archive, at, batch, current, again, faults>>
    BY DEF SaveScenario, IngestFeed, RunReconciliation, RunCleanup, IntervalPasses
  <2>2. saved' \in BOOLEAN /\ due' \in BOOLEAN /\ posts' \in 0..MaxPosts /\ crashes' = crashes
    <3>1. saved \in BOOLEAN /\ due \in BOOLEAN /\ posts \in 0..MaxPosts
      BY <1>0 DEF LoopTyped
    <3>2. /\ crashes' = crashes /\ due' \in {due, TRUE}
          /\ saved' \in {saved, TRUE, FALSE}
      BY DEF SaveScenario, IngestFeed, RunReconciliation, RunCleanup, IntervalPasses, Prune
    <3>3. posts' = posts \/ (posts < MaxPosts /\ posts' = posts + 1)
      BY DEF SaveScenario, IngestFeed, RunReconciliation, RunCleanup, IntervalPasses, Post
    <3>4. posts' \in 0..MaxPosts
      BY <3>1, <3>3
    <3> QED
      BY <3>1, <3>2, <3>4
  <2> QED
    BY <1>0, <2>1, <2>2 DEF LoopTyped, OnDisk, Stored
<1>2. /\ Stored \in SUBSET Files /\ Cardinality(Stored) \in Nat
      /\ lastSnapshot \in Nat /\ reconciled \in Nat /\ lastReport \in Nat
      /\ posts \in Nat /\ posts' \in 0..MaxPosts
      /\ faults \in Nat /\ faults \in 0..MaxFaults
  <2>1. Stored \in SUBSET Files
    BY <1>0, StoredFiles
  <2>2. Cardinality(Stored) \in Nat
    BY <2>1, FilesAssumption, FS_Subset, FS_CardinalityType
  <2> QED
    BY <1>0, <1>1, <2>1, <2>2 DEF SnapshotsKept, ReportsKept, LoopTyped
<1>3. CASE SaveScenario \/ IntervalPasses
  <2>1. UNCHANGED <<snapshots, lastSnapshot, reports, lastReport, reconciled, posts>>
    BY <1>3 DEF SaveScenario, IntervalPasses
  <2>2. Counted'
    BY <1>0, <1>1, <2>1 DEF Counted
  <2> QED
    BY <1>1, <2>1, <2>2, SnapshotsStay, ReportsStay DEF FeedInv
<1>4. CASE IngestFeed
  <2>1. /\ posts' = posts + 1 /\ AddSnapshot(NoFile) /\ reconciled' = reconciled
        /\ AddReport(0) \/ UNCHANGED <<reports, lastReport>>
    BY <1>4 DEF IngestFeed, Post
  <2>2. Counted'
    BY <1>0, <1>1, <1>2, <2>1 DEF Counted, AddSnapshot, AddReport, NextId
  <2>3. NextId \in SnapshotIds
    <3>1. NextId \in Nat /\ NextId <= Cardinality(Stored) + posts' + faults
      BY <1>0, <1>2, <2>1 DEF Counted, NextId
    <3> QED
      BY <1>2, <3>1, CountsBounded
  <2>4. SnapshotsKept'
    <3>1. NoFile \notin Files
      BY FilesAssumption
    <3> QED
      BY <1>1, <2>1, <2>3, <3>1, AddKeeps
  <2>5. ReportsKept'
    <3>1. 0 \in SnapshotIds
      BY FilesAssumption, FS_CardinalityType DEF SnapshotIds
    <3>2. CASE AddReport(0)
      BY <2>1, <3>1, <3>2, ReportKeeps
    <3>3. CASE UNCHANGED <<reports, lastReport>>
      BY <2>1, <3>3, ReportsStay
    <3> QED
      BY <2>1, <3>2, <3>3
  <2> QED
    BY <1>1, <2>2, <2>4, <2>5 DEF FeedInv
<1>5. CASE RunReconciliation
  <2>1. /\ posts' = posts + 1 /\ AddReport(0)
        /\ UNCHANGED <<snapshots, lastSnapshot, reconciled>>
    BY <1>5 DEF RunReconciliation, Post
  <2>2. Counted'
    BY <1>0, <1>1, <1>2, <2>1 DEF Counted, AddReport
  <2>3. 0 \in SnapshotIds
    BY FilesAssumption, FS_CardinalityType DEF SnapshotIds
  <2>4. SnapshotsKept'
    BY <1>1, <2>1, SnapshotsStay
  <2>5. ReportsKept'
    BY <2>1, <2>3, ReportKeeps
  <2> QED
    BY <1>1, <2>2, <2>4, <2>5 DEF FeedInv
<1>6. CASE RunCleanup
  <2>1. /\ posts' = posts + 1 /\ Prune
        /\ UNCHANGED <<lastSnapshot, lastReport, reconciled>>
    BY <1>6 DEF RunCleanup, Post
  <2>2. Counted'
    BY <1>0, <1>1, <1>2, <2>1 DEF Counted
  <2> QED
    BY <1>1, <2>1, <2>2, PruneKeeps DEF FeedInv
<1> QED
  BY <1>3, <1>4, <1>5, <1>6

(* Files arrive and are found, refused or put away.                            *)
LEMMA FileKeeps ==
  ASSUME FeedInv, (\E f \in Files : Drop(f)) \/ Wake \/ RejectFile \/ ArchiveFile \/ PollDone
  PROVE  FeedInv'
<1> USE DEF disk, loop, memory, bounds
<1>0. LoopTyped /\ OnDisk /\ SnapshotsKept /\ ReportsKept /\ Counted
  BY DEF FeedInv
<1>1. UNCHANGED <<snapshots, lastSnapshot, reports, lastReport, reconciled, saved, due,
                  posts, crashes>>
  BY DEF Drop, Wake, RejectFile, ArchiveFile, PollDone
<1>2. CASE (\E f \in Files : Drop(f)) \/ Wake \/ PollDone
  <2>1. UNCHANGED <<again, faults>>
    BY <1>2 DEF Drop, Wake, PollDone
  <2>2. LoopTyped' /\ OnDisk' /\ Stored' = Stored
    <3>1. ASSUME NEW f \in Files, Drop(f)
          PROVE  LoopTyped' /\ OnDisk' /\ Stored' = Stored
      BY <1>0, <1>1, <2>1, <3>1 DEF Drop, LoopTyped, OnDisk, Stored
    <3>2. CASE Wake \/ PollDone
      BY <1>0, <1>1, <2>1, <3>2 DEF Wake, PollDone, LoopTyped, OnDisk, Stored
    <3> QED
      BY <1>2, <3>1, <3>2
  <2>3. Counted'
    BY <1>0, <1>1, <2>1, <2>2 DEF Counted
  <2> QED
    BY <1>1, <2>1, <2>2, <2>3, SnapshotsStay, ReportsStay DEF FeedInv
<1>3. /\ IsFiniteSet(Files) /\ faults \in Nat /\ lastSnapshot \in Nat /\ posts \in Nat
      /\ MaxFaults \in Nat
  BY <1>0, FilesAssumption, FeedBounds DEF LoopTyped, SnapshotsKept
<1>4. ASSUME NEW n \in Nat, Fail(n)
      PROVE  faults' \in 0..MaxFaults /\ faults' = faults + n
  BY <1>3, <1>4 DEF Fail
<1>5. CASE RejectFile
  <2>1. PICK f \in batch : /\ Refuse(f, IF KindOf(f) = "invalid" THEN 0 ELSE 1)
                          /\ batch' = batch \ {f}
    BY <1>5 DEF RejectFile
  <2>2. at = "inbox" /\ at' = "inbox" /\ UNCHANGED <<current, again>>
    BY <1>5 DEF RejectFile
  <2>3. PICK n \in {0, 1} : Refuse(f, n)
    BY <2>1
  <2>4. faults' \in 0..MaxFaults /\ faults' >= faults
    <3>1. Fail(n) \/ Fail(n + 1)
      BY <2>3 DEF Refuse
    <3>2. n \in Nat /\ n + 1 \in Nat
      OBVIOUS
    <3> QED
      BY <1>3, <1>4, <3>1, <3>2
  <2>5. LoopTyped' /\ OnDisk' /\ Stored \subseteq Stored'
    <3>1. Archive(f) \/ UNCHANGED <<inbox, archive>>
      BY <2>3 DEF Refuse
    <3> QED
      BY <1>0, <1>1, <2>1, <2>2, <2>4, <3>1 DEF Archive, LoopTyped, OnDisk, Stored
  <2>6. Counted'
    <3>1. /\ Stored' \in SUBSET Files /\ Cardinality(Stored) <= Cardinality(Stored')
          /\ Cardinality(Stored) \in Nat /\ Cardinality(Stored') \in Nat
      <4>1. Stored' \in SUBSET Files
        BY <2>5 DEF LoopTyped, OnDisk, Stored
      <4> QED
        BY <1>3, <2>5, <4>1, FS_Subset, FS_CardinalityType
    <3>2. faults' \in Nat
      BY <1>3, <2>4
    <3> QED
      BY <1>0, <1>1, <1>3, <2>4, <3>1, <3>2 DEF Counted
  <2> QED
    BY <1>1, <2>2, <2>5, <2>6, SnapshotsStay, ReportsStay DEF FeedInv
<1>6. CASE ArchiveFile
  <2>1. /\ at = "archiving" /\ at' \in {"reconciling", "inbox"} /\ current' = NoFile
        /\ again' = again \cup ({current} \cap inbox') /\ batch' = batch
    BY <1>6 DEF ArchiveFile
  <2>2. /\ current \in Files /\ current \in inbox /\ current \notin archive
        /\ Stored = archive \cup {current} /\ Stored' = archive'
    BY <1>0, <2>1 DEF LoopTyped, OnDisk, Stored
  <2>3. CASE Archive(current)
    <3>1. faults' \in 0..MaxFaults /\ faults' >= faults /\ faults' \in Nat
      <4>1. Fail(0) \/ Fail(1) \/ Fail(1 + 1)
        BY <1>6 DEF ArchiveFile, Refuse
      <4> QED
        BY <1>3, <1>4, <4>1
    <3>2. Stored' = Stored /\ again' = again
      BY <2>1, <2>2, <2>3 DEF Archive
    <3>3. LoopTyped' /\ OnDisk'
      BY <1>0, <1>1, <2>1, <2>2, <2>3, <3>1, <3>2 DEF Archive, LoopTyped, OnDisk
    <3>4. Counted'
      <4>1. Cardinality(Stored) \in Nat
        BY <1>0, <1>3, StoredFiles, FS_Subset, FS_CardinalityType
      <4> QED
        BY <1>0, <1>1, <1>3, <3>1, <3>2, <4>1 DEF Counted
    <3> QED
      BY <1>1, <3>2, <3>3, <3>4, SnapshotsStay, ReportsStay DEF FeedInv
  <2>4. CASE UNCHANGED <<inbox, archive>> /\ Fail(1 + 1)
    <3>1. faults' \in 0..MaxFaults /\ faults' = faults + 2 /\ faults' \in Nat
      BY <1>3, <1>4, <2>4
    <3>2. Stored' = archive /\ again' = again \cup {current}
      BY <2>1, <2>2, <2>4
    <3>3. LoopTyped' /\ OnDisk'
      BY <1>0, <1>1, <2>1, <2>2, <2>4, <3>1, <3>2 DEF LoopTyped, OnDisk
    <3>4. Counted'
      <4>1. Cardinality(archive) \in Nat /\ Cardinality(Stored) = Cardinality(archive) + 1
        <5>1. archive \in SUBSET Files
          BY <1>0 DEF LoopTyped
        <5> QED
          BY <2>2, <5>1, OneMoreStored
      <4> QED
        BY <1>0, <1>1, <1>3, <3>1, <3>2, <4>1 DEF Counted
    <3>5. again \subseteq again' /\ Stored \cup again \subseteq Stored' \cup again'
      BY <2>2, <3>2
    <3> QED
      BY <1>1, <3>3, <3>4, <3>5, SnapshotsStay, ReportsStay DEF FeedInv
  <2> QED
    BY <1>6, <2>3, <2>4 DEF ArchiveFile, Refuse
<1> QED
  BY <1>2, <1>5, <1>6

(* A file is stored: the loop has it from the inbox, where nothing stored is.  *)
LEMMA IngestKeeps ==
  ASSUME FeedInv, IngestFile
  PROVE  FeedInv'
<1>0. LoopTyped /\ OnDisk /\ SnapshotsKept /\ ReportsKept /\ Counted
  BY DEF FeedInv
<1>1. PICK f \in batch : AddSnapshot(f) /\ current' = f /\ batch' = batch \ {f}
  BY DEF IngestFile
<1>2. /\ at = "inbox" /\ at' = "archiving"
      /\ UNCHANGED <<inbox, archive, saved, reports, lastReport, reconciled, due, posts, crashes,
                   again, faults>>
  BY DEF IngestFile, disk, bounds
<1>3. /\ f \in Files /\ f \notin Stored /\ Stored' = Stored \cup {f}
      /\ Stored \in SUBSET Files /\ Stored' \in SUBSET Files
  BY <1>0, <1>1, <1>2 DEF LoopTyped, OnDisk, Stored
<1>4. LoopTyped' /\ OnDisk'
  BY <1>0, <1>1, <1>2, <1>3 DEF LoopTyped, OnDisk
<1>5. /\ lastSnapshot \in Nat /\ reconciled \in Nat /\ lastReport \in Nat
      /\ posts \in Nat /\ posts \in 0..MaxPosts
      /\ faults \in Nat /\ faults \in 0..MaxFaults
  BY <1>0, FeedBounds DEF LoopTyped, SnapshotsKept, ReportsKept
<1>6. Cardinality(Stored) \in Nat /\ Cardinality(Stored') = Cardinality(Stored) + 1
  BY <1>3, OneMoreStored
<1>7. Counted'
  BY <1>0, <1>1, <1>2, <1>5, <1>6 DEF Counted, AddSnapshot, NextId
<1>8. NextId \in SnapshotIds
  <2>1. NextId \in Nat /\ NextId <= Cardinality(Stored') + posts + faults
    BY <1>0, <1>5, <1>6 DEF Counted, NextId
  <2> QED
    BY <1>3, <1>5, <2>1, CountsBounded
<1>9. SnapshotsKept'
  BY <1>1, <1>2, <1>3, <1>8, AddKeeps
<1> QED
  BY <1>2, <1>4, <1>7, <1>9, ReportsStay DEF FeedInv

(* The latest snapshot is reported: the last id, which is beyond the mark.     *)
LEMMA ReconcileKeeps ==
  ASSUME FeedInv, ReconcileFile \/ Reconcile
  PROVE  FeedInv'
<1>0. LoopTyped /\ OnDisk /\ SnapshotsKept /\ ReportsKept /\ Counted
  BY DEF FeedInv
<1>1. /\ UNCHANGED <<inbox, archive, batch, current, saved, snapshots, lastSnapshot, due,
                     again, posts, crashes, faults>>
      /\ ReconcileLatest
      /\ at \in {"reconciling", "reconcile"} /\ at' \in {"inbox", "cleanup", "asleep"}
  BY DEF ReconcileFile, Reconcile, disk, bounds
<1>2. LoopTyped' /\ OnDisk' /\ Stored' = Stored
  BY <1>0, <1>1 DEF LoopTyped, OnDisk, Stored
<1>3. SnapshotsKept'
  BY <1>1, <1>2, SnapshotsStay
<1>4. CASE UNCHANGED <<reports, lastReport, reconciled>>
  <2>1. Counted'
    BY <1>0, <1>1, <1>2, <1>4 DEF Counted
  <2> QED
    BY <1>2, <1>3, <1>4, <2>1, ReportsStay DEF FeedInv
<1>5. CASE Needed /\ AddReport(Latest.id) /\ reconciled' = Latest.id
  <2>1. Latest.id = lastSnapshot /\ Latest.id # reconciled
    BY <1>0, <1>5 DEF Needed, SnapshotsKept, Numbered
  <2>2. /\ lastSnapshot \in Nat /\ reconciled \in Nat /\ lastReport \in Nat
        /\ posts \in Nat /\ posts \in 0..MaxPosts
        /\ faults \in Nat /\ faults \in 0..MaxFaults
    BY <1>0, FeedBounds DEF LoopTyped, SnapshotsKept, ReportsKept
  <2>3. Latest.id > reconciled
    BY <1>0, <2>1, <2>2 DEF Counted
  <2>4. Counted'
    BY <1>0, <1>1, <1>2, <1>5, <2>1, <2>2, <2>3 DEF Counted, AddReport
  <2>5. Latest.id \in SnapshotIds
    <3>1. Stored \in SUBSET Files /\ lastSnapshot <= Cardinality(Stored) + posts + faults
      BY <1>0, StoredFiles DEF Counted
    <3> QED
      BY <2>1, <2>2, <3>1, CountsBounded
  <2>6. ReportsKept'
    BY <1>5, <2>3, <2>5, ReportKeeps
  <2> QED
    BY <1>2, <1>3, <2>4, <2>6 DEF FeedInv
<1> QED
  BY <1>1, <1>4, <1>5 DEF ReconcileLatest

LEMMA CleanupKeeps ==
  ASSUME FeedInv, Cleanup
  PROVE  FeedInv'
<1>0. LoopTyped /\ OnDisk /\ SnapshotsKept /\ ReportsKept /\ Counted
  BY DEF FeedInv
<1>1. /\ UNCHANGED <<inbox, archive, batch, current, lastSnapshot, lastReport, reconciled,
                     again, posts, crashes, faults>>
      /\ at = "cleanup" /\ at' = "asleep"
      /\ Prune \/ UNCHANGED <<saved, snapshots, reports>>
      /\ due' \in {due, FALSE}
  BY DEF Cleanup, disk, bounds
<1>2. Stored' = Stored
  BY <1>1 DEF Stored
<1>3. LoopTyped' /\ OnDisk' /\ Counted'
  BY <1>0, <1>1, <1>2 DEF LoopTyped, OnDisk, Counted, Prune
<1>4. SnapshotsKept' /\ ReportsKept'
  BY <1>1, <1>2, PruneKeeps, SnapshotsStay, ReportsStay
<1> QED
  BY <1>3, <1>4 DEF FeedInv

(* A crash takes the memory, the ids and the mark together.                    *)
LEMMA CrashKeeps ==
  ASSUME FeedInv, Crash
  PROVE  FeedInv'
<1> USE DEF Crash, disk
<1>0. LoopTyped /\ OnDisk
  BY DEF FeedInv
<1>1. LoopTyped' /\ OnDisk'
  <2>1. crashes' \in 0..MaxCrashes
    BY <1>0, FeedBounds DEF LoopTyped
  <2> QED
    BY <1>0, <2>1 DEF LoopTyped, OnDisk
<1>2. Counted'
  <2>1. Stored' \in SUBSET Files
    BY <1>1 DEF LoopTyped, OnDisk, Stored
  <2>2. Cardinality(Stored') \in Nat /\ posts' \in Nat /\ faults' \in Nat
    BY <1>1, <2>1, FilesAssumption, FeedBounds, FS_Subset, FS_CardinalityType DEF LoopTyped
  <2> QED
    BY <2>2 DEF Counted
<1>3. SnapshotsKept'
  BY DEF SnapshotsKept, SnapshotIdsNeverReused, FileStoredOnce, Numbered
<1>4. ReportsKept'
  BY DEF ReportsKept, SnapshotReportedOnce, Marked
<1> QED
  BY <1>1, <1>2, <1>3, <1>4 DEF FeedInv

LEMMA FeedKeeps == FeedInv /\ [FeedNext]_feedVars => FeedInv'
<1> SUFFICES ASSUME FeedInv, [FeedNext]_feedVars PROVE FeedInv'
  OBVIOUS
<1>1. CASE UNCHANGED feedVars
  <2>1. /\ UNCHANGED <<inbox, archive, at, batch, current, saved, due, again, posts, crashes, faults>>
        /\ UNCHANGED <<snapshots, lastSnapshot, reports, lastReport, reconciled>>
    BY <1>1 DEF feedVars, disk, loop, memory, bounds
  <2>2. LoopTyped' /\ OnDisk' /\ Stored' = Stored
    BY <2>1 DEF FeedInv, LoopTyped, OnDisk, Stored
  <2>3. Counted'
    BY <2>1, <2>2 DEF FeedInv, Counted
  <2> QED
    BY <2>1, <2>2, <2>3, SnapshotsStay, ReportsStay DEF FeedInv
<1> QED
  BY <1>1, RouteKeeps, FileKeeps, IngestKeeps, ReconcileKeeps, CleanupKeeps, CrashKeeps
  DEF FeedNext, Iterate

LEMMA FeedHolds == FeedInv => SnapshotsOnce
<1> SUFFICES ASSUME FeedInv PROVE SnapshotsOnce
  OBVIOUS
<1>0. LoopTyped /\ OnDisk /\ SnapshotsKept /\ ReportsKept /\ Counted
  BY DEF FeedInv
<1>1. /\ lastSnapshot \in SnapshotIds /\ reconciled \in SnapshotIds
      /\ lastReport \in 0..(Cardinality(Files) + 2 * MaxPosts + MaxFaults)
  <2>1. /\ Stored \in SUBSET Files /\ posts \in 0..MaxPosts /\ faults \in 0..MaxFaults
        /\ lastSnapshot \in Nat /\ reconciled \in Nat /\ lastReport \in Nat
    BY <1>0, StoredFiles DEF LoopTyped, SnapshotsKept, ReportsKept
  <2>2. /\ lastSnapshot <= Cardinality(Stored) + posts + faults
        /\ reconciled <= lastSnapshot /\ lastReport <= reconciled + posts
    BY <1>0 DEF Counted
  <2> QED
    BY <2>1, <2>2, CountsBounded
<1>2. FeedTypeOK
  BY <1>0, <1>1 DEF FeedTypeOK, LoopTyped, SnapshotsKept, ReportsKept, Snapshots
<1> QED
  BY <1>0, <1>2 DEF SnapshotsOnce, SnapshotsKept, ReportsKept

(* An id names one snapshot, a file becomes one snapshot unless both moves of  *)
(* it failed, and a snapshot gets                                              *)
(* at most one report of the loop, whatever retention, the routes and crashes  *)
(* do in between (_auto_reconcile_loop, StrategyPersistenceService).           *)
THEOREM FeedOnce == FeedSpec => []SnapshotsOnce
  BY FeedStarts, FeedKeeps, FeedHolds, PTL DEF FeedSpec
===============================================================================
