\* Nothing fails and nothing crashes: two locked requests of one company.
SPECIFICATION Spec
CONSTANTS
    r1 = r1
    r2 = r2
    Requests <- TwoRequests
    Guarded <- TwoRequests
    LockHours = 1
    MaxAttempts = 1
    MaxErrors = 1
    MaxTries = 1
    MaxCrashes = 0
    MaxFaults = 0
INVARIANTS
    OneRunPerCompany
CHECK_DEADLOCK FALSE
