\* A locked request and a scenario run, one crash and two failing statements;
\* persistFailure tries twice.
SPECIFICATION FairSpec
CONSTANTS
    r1 = r1
    r2 = r2
    Requests <- TwoRequests
    Guarded <- OneLocked
    LockHours = 1
    MaxAttempts = 2
    MaxErrors = 2
    MaxTries = 2
    MaxCrashes = 1
    MaxFaults = 2
INVARIANTS
    TypeOK
    RowsTellOutcome
    RowsHaveOwners
PROPERTIES
    SettledIsFinal
    ImplementsContract
    EveryRequestSettles
    LockIsReleased
CHECK_DEADLOCK FALSE
