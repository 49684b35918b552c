\* A good, a poison and an invalid file, a call of the routes, a crash, and two failing file operations.
SPECIFICATION FairFeed
CONSTANTS
    good = good
    poison = poison
    invalid = invalid
    NoFile = NoFile
    Files <- AllKinds
    KindOf <- Kind
    MaxSnapshots = 1
    MaxReports = 1
    MaxPosts = 1
    MaxCrashes = 1
    MaxFaults = 2
INVARIANTS
    SnapshotsOnce
PROPERTIES
    InboxIsDrained
    LatestIsReconciled
