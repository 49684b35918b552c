\* Greedy plans of 4 trips under 13 requests; searches over 3 to 5 trips.
SPECIFICATION Spec
CONSTANTS
    NoSoc = NoSoc
    Problems <- MCProblems
    MaxLists = 4
    MaxPerturbs = 1
    StaleLimit = 2
    PopSize = 2
INVARIANTS
    TripsOnce
    BlocksRun
    LimitsHold
    SearchSound
CHECK_DEADLOCK FALSE
