---------------------------- MODULE ScheduleCache ----------------------------
(***************************************************************************)
(* getLatestSchedule of OptimizationService and its in-memory cache        *)
(* (scheduleCache, one entry per company, CACHE_TTL_MS), against the code  *)
(* that writes schedules: runOptimization, persistResults, persistFailure, *)
(* reassignTrip and onModuleInit.  One company: no key is shared.          *)
(* Content is a commit number: a transaction gives its schedule a new one, *)
(* and what a query returns is the number it found.                        *)
(***************************************************************************)
EXTENDS Naturals, FiniteSets

CONSTANTS
    Readers,       \* requests to GET the latest schedule, in flight together
    Ttl,           \* ticks an entry is served
    MaxSchedules,  \* bound: schedules created
    MaxCommits,    \* bound: commits of writers
    MaxReassigns,  \* bound: trips reassigned
    MaxRestarts    \* bound: backend restarts

ASSUME BoundsAssumption ==
    /\ Ttl \in Nat \ {0} /\ MaxSchedules \in Nat \ {0}
    /\ MaxCommits \in Nat /\ MaxReassigns \in Nat /\ MaxRestarts \in Nat

VARIABLES
    latest,      \* schedule with the greatest createdAt
    stamp,       \* stamp[i]: last commit that changed schedule i
    commits,     \* commits so far
    open,        \* schedules still PROCESSING
    evicting,    \* settled schedules whose cache delete has yet to run
    reassigning, \* transactions that deleted the entry and have yet to commit
    reassigns, restarts,
    cache,       \* entry of the company, or NoEntry
    age,         \* ticks since the entry was set
    reader       \* what each request has read

db == <<latest, stamp, commits, open>>
writers == <<evicting, reassigning, reassigns>>
store == <<cache, age>>
vars == <<db, writers, restarts, store, reader>>

Ids == 1..MaxSchedules
Stamps == 0..MaxCommits
Unread == MaxCommits + 1
Contents == [row : Stamps, blocks : Stamps, duties : Stamps]
NoEntry == [row |-> Unread, blocks |-> Unread, duties |-> Unread]
Idle == [at |-> "idle", id |-> 0, row |-> Unread, blocks |-> Unread,
         duties |-> Unread]

TypeOK ==
    /\ latest \in Ids
    /\ stamp \in [Ids -> Stamps]
    /\ commits \in Stamps
    /\ open \subseteq Ids /\ evicting \subseteq Ids
    /\ reassigning \in 0..MaxReassigns /\ reassigns \in 0..MaxReassigns
    /\ restarts \in 0..MaxRestarts
    /\ cache \in Contents \cup {NoEntry}
    /\ age \in 0..Ttl
    /\ reader \in [Readers -> [at : {"idle", "row", "assignments"},
                               id : Ids \cup {0}, row : Stamps \cup {Unread},
                               blocks : Stamps \cup {Unread},
                               duties : Stamps \cup {Unread}]]

Init ==
    /\ latest = 1
    /\ stamp = [i \in Ids |-> 0]
    /\ commits = 0
    /\ open = {1}
    /\ evicting = {} /\ reassigning = 0 /\ reassigns = 0 /\ restarts = 0
    /\ cache = NoEntry /\ age = 0
    /\ reader = [r \in Readers |-> Idle]

-----------------------------------------------------------------------------
(* getLatestSchedule *)

\* Mutant of Hit: a hit renews the entry.
HitRenews(r) ==
    /\ reader[r].at = "idle" /\ cache # NoEntry /\ age < Ttl
    /\ age' = 0
    /\ UNCHANGED <<db, writers, restarts, cache, reader>>

Hit(r) ==
    /\ reader[r].at = "idle" /\ cache # NoEntry /\ age < Ttl
    /\ UNCHANGED <<db, writers, restarts, store, reader>>

\* An expired entry is deleted.
Miss(r) ==
    /\ reader[r].at = "idle" /\ (cache = NoEntry \/ age >= Ttl)
    /\ cache' = NoEntry /\ age' = 0
    /\ reader' = [reader EXCEPT ![r].at = "row"]
    /\ UNCHANGED <<db, writers, restarts>>

ReadRow(r) ==
    /\ reader[r].at = "row"
    /\ reader' = [reader EXCEPT ![r].at = "assignments", ![r].id = latest,
                                ![r].row = stamp[latest]]
    /\ UNCHANGED <<db, writers, restarts, store>>

\* Mutant of ReadBlocks: all queries are sent at once.
ReadBlocksAtOnce(r) ==
    /\ reader[r].at \in {"row", "assignments"} /\ reader[r].blocks = Unread
    /\ reader' = [reader EXCEPT ![r].blocks = stamp[latest]]
    /\ UNCHANGED <<db, writers, restarts, store>>

\* The two queries of the Promise.all, in either order.
ReadBlocks(r) ==
    /\ reader[r].at = "assignments" /\ reader[r].blocks = Unread
    /\ reader' = [reader EXCEPT ![r].blocks = stamp[reader[r].id]]
    /\ UNCHANGED <<db, writers, restarts, store>>

ReadDuties(r) ==
    /\ reader[r].at = "assignments" /\ reader[r].duties = Unread
    /\ reader' = [reader EXCEPT ![r].duties = stamp[reader[r].id]]
    /\ UNCHANGED <<db, writers, restarts, store>>

ContentRead(r) == [row |-> reader[r].row, blocks |-> reader[r].blocks,
                   duties |-> reader[r].duties]

\* Hydration done, the entry is set whatever happened since the row was read.
Remember(r) ==
    /\ reader[r].blocks # Unread /\ reader[r].duties # Unread
    /\ reader[r].at = "assignments"
    /\ cache' = ContentRead(r) /\ age' = 0
    /\ reader' = [reader EXCEPT ![r] = Idle]
    /\ UNCHANGED <<db, writers, restarts>>

-----------------------------------------------------------------------------
(* The writers *)

\* The next commit, to schedule i.
Commit(i) ==
    /\ commits < MaxCommits
    /\ commits' = commits + 1
    /\ stamp' = [stamp EXCEPT ![i] = commits + 1]

Evict == cache' = NoEntry /\ age' = 0

\* runOptimization saves a PROCESSING row: the cache is not told.
Create ==
    /\ latest < MaxSchedules
    /\ latest' = latest + 1
    /\ open' = open \cup {latest + 1}
    /\ Commit(latest + 1)
    /\ UNCHANGED <<writers, restarts, store, reader>>

\* The catch of runOptimization sets FAILED: the cache is not told.
Abort(i) ==
    /\ i \in open
    /\ open' = open \ {i}
    /\ Commit(i)
    /\ UNCHANGED <<latest, writers, restarts, store, reader>>

\* persistResults or persistFailure commits; the delete follows its await.
Settle(i) ==
    /\ i \in open
    /\ open' = open \ {i}
    /\ Commit(i)
    /\ evicting' = evicting \cup {i}
    /\ UNCHANGED <<latest, reassigning, reassigns, restarts, store, reader>>

Invalidate(i) ==
    /\ i \in evicting
    /\ evicting' = evicting \ {i}
    /\ Evict
    /\ UNCHANGED <<db, reassigning, reassigns, restarts, reader>>

\* reassignTrip deletes the entry inside its transaction.
ReassignEvict ==
    /\ reassigns < MaxReassigns
    /\ reassigns' = reassigns + 1
    /\ reassigning' = reassigning + 1
    /\ Evict
    /\ UNCHANGED <<db, evicting, restarts, reader>>

ReassignCommit(i) ==
    /\ reassigning > 0
    /\ i \notin open /\ i <= latest
    /\ reassigning' = reassigning - 1
    /\ Commit(i)
    /\ UNCHANGED <<latest, open, evicting, reassigns, restarts, store, reader>>

\* The transaction is rolled back, or evaluate-delta changed nothing.
ReassignNothing ==
    /\ reassigning > 0
    /\ reassigning' = reassigning - 1
    /\ UNCHANGED <<db, evicting, reassigns, restarts, store, reader>>

\* The process is lost with its cache; onModuleInit fails the open schedules
\* in one statement before the service answers again.
Restart ==
    /\ restarts < MaxRestarts /\ commits < MaxCommits
    /\ restarts' = restarts + 1
    /\ commits' = commits + 1
    /\ stamp' = [i \in Ids |-> IF i \in open THEN commits + 1 ELSE stamp[i]]
    /\ open' = {}
    /\ evicting' = {} /\ reassigning' = 0
    /\ Evict
    /\ reader' = [r \in Readers |-> Idle]
    /\ UNCHANGED <<latest, reassigns>>

Tick ==
    /\ cache # NoEntry /\ age < Ttl
    /\ age' = age + 1
    /\ UNCHANGED <<db, writers, restarts, cache, reader>>

-----------------------------------------------------------------------------

Read(r) == ReadRow(r) \/ ReadBlocks(r) \/ ReadDuties(r) \/ Remember(r)

Write ==
    \/ Create \/ ReassignEvict \/ ReassignNothing
    \/ \E i \in Ids : \/ Abort(i) \/ Settle(i) \/ Invalidate(i)
                      \/ ReassignCommit(i)

Next ==
    \/ \E r \in Readers : Hit(r) \/ Miss(r) \/ Read(r)
    \/ Write
    \/ Restart
    \/ Tick

Spec == Init /\ [][Next]_vars

\* Started reads and pending deletes run to their end, and time passes.
Fairness ==
    /\ \A r \in Readers : WF_vars(Read(r))
    /\ \A i \in Ids : WF_vars(Invalidate(i))
    /\ WF_vars(Tick)

FairSpec == Spec /\ Fairness

-----------------------------------------------------------------------------
(* Properties *)

Current == [row |-> stamp[latest], blocks |-> stamp[latest],
            duties |-> stamp[latest]]
Served == cache # NoEntry /\ age < Ttl

\* Three queries without a transaction may straddle a commit, but only one way:
\* an answer may show blocks and duties newer than its status, never a
\* completed status over the assignments of before.
NoStatusAheadOfAssignments ==
    \A e \in {cache} \cup {ContentRead(r) : r \in Readers} :
        Unread \notin {e.row, e.blocks, e.duties} =>
            e.row <= e.blocks /\ e.row <= e.duties

\* What a reader holds, or left in the cache, fits together.
AnswersCohere == TypeOK /\ NoStatusAheadOfAssignments

\* Whatever race put an old or torn entry into the cache, and although two of
\* the writers never invalidate it, the entry is not served for ever: when the
\* writers are done, answers become and stay current.
StaleAnswersEnd == <>[](Served => cache = Current)

=============================================================================
