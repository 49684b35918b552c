----------------------------- MODULE StrategyFeed -----------------------------
(***************************************************************************)
(* The strategic feedback worker of the optimizer service: the inbox poll, *)
(* reconciliation and retention of _auto_reconcile_loop (main.py), the     *)
(* in-memory StrategyPersistenceService it shares with the routes of       *)
(* api/routes/strategy.py, and a crash of the process, which loses memory  *)
(* but not the inbox.  The loop never awaits between two sleeps, so no     *)
(* route runs inside an iteration; a crash may.  Reading a file and moving *)
(* it to the archive can fail: then the poll moves it as an error, and a   *)
(* file that cannot be moved at all stays for the next poll.               *)
(***************************************************************************)
EXTENDS Naturals, FiniteSets, Sequences

CONSTANTS
    Files,          \* files a feed producer drops into the inbox
    KindOf(_),      \* "good", "poison" (a record whose time int() rejects)
                    \* or "invalid" (no usable record, or not JSON)
    NoFile,
    MaxSnapshots,   \* strategy_retention_max_feed_snapshots
    MaxReports,     \* strategy_retention_max_reports
    MaxPosts,       \* bound: calls of the routes that add a snapshot or report
    MaxCrashes,     \* bound: crashes of the process
    MaxFaults     \* bound: reads and moves of files that fail

ASSUME FilesAssumption ==
    /\ IsFiniteSet(Files) /\ NoFile \notin Files
    /\ \A f \in Files : KindOf(f) \in {"good", "poison", "invalid"}
ASSUME FeedBounds ==
    /\ MaxSnapshots \in Nat \ {0} /\ MaxReports \in Nat \ {0}
    /\ MaxPosts \in Nat /\ MaxCrashes \in Nat /\ MaxFaults \in Nat

VARIABLES
    inbox, archive,   \* files on disk; the rest of Files has yet to arrive
    at,               \* where the loop stands
    batch,            \* files of this poll still to be processed
    current,          \* file being processed
    saved,            \* a scenario has been saved
    snapshots,        \* feed snapshots in memory, oldest first
    lastSnapshot,     \* last_id of the feeds
    reports,          \* reports in memory: the snapshot each names, 0 for none
    lastReport,       \* last_id of the reports
    reconciled,       \* last_reconciled_snapshot_id
    due,              \* the cleanup interval has passed
    again,            \* files of this process that were stored and could not be moved
    posts, crashes, faults

disk == <<inbox, archive>>
loop == <<at, batch, current>>
memory == <<saved, snapshots, lastSnapshot, reports, lastReport>>
bounds == <<posts, crashes, faults>>
feedVars == <<disk, loop, memory, reconciled, due, again, bounds>>

SnapshotIds == 0..(Cardinality(Files) + MaxPosts + MaxFaults)

FeedTypeOK ==
    /\ inbox \subseteq Files /\ archive \subseteq Files
    /\ at \in {"asleep", "inbox", "archiving", "reconciling", "reconcile",
               "cleanup"}
    /\ batch \subseteq Files
    /\ current \in Files \cup {NoFile}
    /\ saved \in BOOLEAN /\ due \in BOOLEAN
    /\ snapshots \in Seq([id : SnapshotIds, file : Files \cup {NoFile}])
    /\ lastSnapshot \in SnapshotIds /\ reconciled \in SnapshotIds
    /\ reports \in Seq(SnapshotIds)
    /\ lastReport \in 0..(Cardinality(Files) + 2 * MaxPosts + MaxFaults)
    /\ again \subseteq Files
    /\ posts \in 0..MaxPosts /\ crashes \in 0..MaxCrashes /\ faults \in 0..MaxFaults

FeedInit ==
    /\ inbox = {} /\ archive = {}
    /\ at = "asleep" /\ batch = {} /\ current = NoFile
    /\ saved = FALSE /\ snapshots = <<>> /\ lastSnapshot = 0
    /\ reports = <<>> /\ lastReport = 0 /\ reconciled = 0
    /\ due = TRUE
    /\ again = {}
    /\ posts = 0 /\ crashes = 0 /\ faults = 0

-----------------------------------------------------------------------------
(* StrategyPersistenceService *)

NextId == lastSnapshot + 1

AddSnapshot(f) ==
    /\ snapshots' = Append(snapshots, [id |-> NextId, file |-> f])
    /\ lastSnapshot' = NextId

\* save_reconciliation_report
AddReport(n) ==
    /\ reports' = Append(reports, n)
    /\ lastReport' = lastReport + 1

Latest == snapshots[Len(snapshots)]

\* _apply_retention: the newest `max` items, less those that are too old; the stored order is the
\* order of creation, so age drops a prefix.
Retained(items, max) ==
    LET newest == IF Len(items) > max THEN Len(items) - max + 1 ELSE 1
    IN {SubSeq(items, k, Len(items)) : k \in newest..(Len(items) + 1)}

Prune ==
    /\ snapshots' \in Retained(snapshots, MaxSnapshots)
    /\ reports' \in Retained(reports, MaxReports)
    /\ saved' \in {saved, FALSE}

-----------------------------------------------------------------------------
(* The routes: they run while the loop is asleep. *)

SaveScenario ==
    /\ at = "asleep" /\ ~saved
    /\ saved' = TRUE
    /\ UNCHANGED <<disk, loop, snapshots, lastSnapshot, reports, lastReport,
                   reconciled, due, again, bounds>>

Post == at = "asleep" /\ posts < MaxPosts /\ posts' = posts + 1

\* /feeds/ingest, followed by a report when a scenario is there and the caller
\* asked for one; it names no snapshot and the loop is not told.
IngestFeed ==
    /\ Post
    /\ AddSnapshot(NoFile)
    /\ \/ saved /\ AddReport(0)
       \/ UNCHANGED <<reports, lastReport>>
    /\ UNCHANGED <<disk, loop, saved, reconciled, due, again, crashes, faults>>

\* plan_vs_real of a poison snapshot raises: HTTP 500 and no report.
RunReconciliation ==
    /\ Post
    /\ saved /\ snapshots # <<>>
    /\ Latest.file \in Files => KindOf(Latest.file) # "poison"
    /\ AddReport(0)
    /\ UNCHANGED <<disk, loop, saved, snapshots, lastSnapshot, reconciled,
                   due, again, crashes, faults>>

RunCleanup ==
    /\ Post
    /\ Prune
    /\ UNCHANGED <<disk, loop, lastSnapshot, lastReport, reconciled, due,
                   again, crashes, faults>>

-----------------------------------------------------------------------------
(* _auto_reconcile_loop *)

Drop(f) ==
    /\ f \notin inbox \cup archive
    /\ inbox' = inbox \cup {f}
    /\ UNCHANGED <<archive, loop, memory, reconciled, due, again, bounds>>

Wake ==
    /\ at = "asleep"
    /\ at' = "inbox" /\ batch' = inbox
    /\ UNCHANGED <<disk, current, memory, reconciled, due, again, bounds>>

\* Mutant of Archive: the file is copied.
ArchiveCopy(f) == archive' = archive \cup {f} /\ UNCHANGED inbox

Archive(f) ==
    /\ archive' = archive \cup {f}
    /\ inbox' = inbox \ {f}

Fail(n) == faults + n <= MaxFaults /\ faults' = faults + n

\* After n failures the file is moved, or that fails too, which is suppressed.
Refuse(f, n) ==
    \/ Archive(f) /\ Fail(n)
    \/ UNCHANGED disk /\ Fail(n + 1)

\* Mutant of RejectFile: it stays where it is.
SkipFile ==
    /\ at = "inbox"
    /\ \E f \in batch : KindOf(f) = "invalid" /\ batch' = batch \ {f}
    /\ UNCHANGED <<disk, at, current, memory, reconciled, due, again, bounds>>

\* A file with nothing to store, or one that cannot be read.
RejectFile ==
    /\ at = "inbox"
    /\ \E f \in batch : /\ Refuse(f, IF KindOf(f) = "invalid" THEN 0 ELSE 1)
                        /\ batch' = batch \ {f}
    /\ UNCHANGED <<at, current, memory, reconciled, due, again, posts, crashes>>

IngestFile ==
    /\ at = "inbox"
    /\ \E f \in batch :
          /\ KindOf(f) # "invalid"
          /\ AddSnapshot(f)
          /\ current' = f /\ batch' = batch \ {f}
    /\ at' = "archiving"
    /\ UNCHANGED <<disk, saved, reports, lastReport, reconciled, due,
                   again, bounds>>

\* The move of a stored file.  When it fails the file is not reconciled here.
ArchiveFile ==
    /\ at = "archiving"
    /\ \/ Archive(current) /\ Fail(0) /\ at' = "reconciling"
       \/ Refuse(current, 1) /\ at' = "inbox"
    /\ again' = again \cup ({current} \cap inbox')
    /\ current' = NoFile
    /\ UNCHANGED <<batch, memory, reconciled, due, posts, crashes>>

\* _reconcile_latest_if_needed
Needed == saved /\ snapshots # <<>> /\ Latest.id # reconciled
Raises == Needed /\ Latest.file \in Files /\ KindOf(Latest.file) = "poison"

ReconcileLatest ==
    \/ /\ Needed /\ ~Raises
       /\ AddReport(Latest.id)
       /\ reconciled' = Latest.id
    \/ /\ ~Needed \/ Raises
       /\ UNCHANGED <<reports, lastReport, reconciled>>

\* After each file; what it raises is caught, the poll goes on.  The file is in
\* the archive, so moving it again fails and is suppressed.
ReconcileFile ==
    /\ at = "reconciling"
    /\ ReconcileLatest
    /\ at' = "inbox"
    /\ UNCHANGED <<disk, batch, current, saved, snapshots, lastSnapshot, due,
                   again, bounds>>

PollDone ==
    /\ at = "inbox" /\ batch = {}
    /\ at' = "reconcile"
    /\ UNCHANGED <<disk, batch, current, memory, reconciled, due, again, bounds>>

\* Once more in the iteration; what it raises here skips the cleanup.
Reconcile ==
    /\ at = "reconcile"
    /\ ReconcileLatest
    /\ at' = IF Raises THEN "asleep" ELSE "cleanup"
    /\ UNCHANGED <<disk, batch, current, saved, snapshots, lastSnapshot, due,
                   again, bounds>>

Cleanup ==
    /\ at = "cleanup"
    /\ IF due THEN Prune /\ due' = FALSE
              ELSE UNCHANGED <<saved, snapshots, reports, due>>
    /\ at' = "asleep"
    /\ UNCHANGED <<disk, batch, current, lastSnapshot, lastReport, reconciled,
                   again, bounds>>

IntervalPasses ==
    /\ ~due
    /\ due' = TRUE
    /\ UNCHANGED <<disk, loop, memory, reconciled, again, bounds>>

\* Mutant of Crash: the mark survives the memory it refers to.
CrashKeepsMark ==
    /\ crashes < MaxCrashes
    /\ crashes' = crashes + 1
    /\ at' = "asleep" /\ batch' = {} /\ current' = NoFile
    /\ saved' = FALSE /\ snapshots' = <<>> /\ lastSnapshot' = 0
    /\ reports' = <<>> /\ lastReport' = 0 /\ due' = TRUE
    /\ again' = {}
    /\ UNCHANGED <<disk, reconciled, posts, faults>>

Crash ==
    /\ crashes < MaxCrashes
    /\ crashes' = crashes + 1
    /\ at' = "asleep" /\ batch' = {} /\ current' = NoFile
    /\ saved' = FALSE /\ snapshots' = <<>> /\ lastSnapshot' = 0
    /\ reports' = <<>> /\ lastReport' = 0
    /\ reconciled' = 0 /\ due' = TRUE /\ again' = {}
    /\ UNCHANGED <<disk, posts, faults>>

-----------------------------------------------------------------------------

Iterate ==
    \/ Wake \/ RejectFile \/ IngestFile \/ ArchiveFile \/ ReconcileFile
    \/ PollDone \/ Reconcile \/ Cleanup

FeedNext ==
    \/ SaveScenario \/ IngestFeed \/ RunReconciliation \/ RunCleanup
    \/ \E f \in Files : Drop(f)
    \/ Iterate
    \/ IntervalPasses
    \/ Crash

FeedSpec == FeedInit /\ [][FeedNext]_feedVars

\* The loop is scheduled and the clock runs.
FeedFairness == WF_feedVars(Iterate) /\ WF_feedVars(IntervalPasses)
FairFeed == FeedSpec /\ FeedFairness

-----------------------------------------------------------------------------
(* Properties *)

\* An id names one snapshot for as long as the process lives, although
\* retention removes snapshots while others are added.
SnapshotIdsNeverReused ==
    \A i, j \in 1..Len(snapshots) :
        i < j => snapshots[i].id < snapshots[j].id

\* A file becomes one snapshot, unless both moves of it failed after it was
\* stored: that file is found again by the next poll and stored once more, and
\* no other is.
FileStoredOnce ==
    \A i, j \in 1..Len(snapshots) :
        snapshots[i].file = snapshots[j].file =>
            i = j \/ snapshots[i].file \in again \cup {NoFile}

\* The loop writes at most one report on a snapshot, although it looks at the
\* latest one after every file and in every iteration.
SnapshotReportedOnce ==
    \A i, j \in 1..Len(reports) : reports[i] = reports[j] => i = j \/ reports[i] = 0

\* Storing, reporting and retention each look at the list again: none of them
\* repeats what was done.
SnapshotsOnce ==
    FeedTypeOK /\ SnapshotIdsNeverReused /\ FileStoredOnce /\ SnapshotReportedOnce

\* A file leaves the inbox, whatever it holds, across crashes and after moves of
\* it have failed: it is tried again in every poll.  MaxFaults is what is
\* assumed: a file whose moves fail for ever stays, and is stored every time.
InboxIsDrained == \A f \in Files : f \in inbox ~> f \notin inbox

Reported == reconciled = Latest.id /\ lastReport > 0
Pending == saved /\ snapshots # <<>> /\ ~Reported /\ ~Raises

\* When a scenario is saved, the loop comes to a latest snapshot it has
\* reconciled, with a report of this process, unless the records of the latest
\* cannot be, or a cleanup or a crash takes it away.  Ids start again after a
\* crash: a mark that did not would pass the first snapshots off as reconciled.
LatestIsReconciled == Pending ~> ~Pending

=============================================================================
