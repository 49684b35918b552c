\* Two readers, two schedules, three commits, a reassignment and a restart;
\* two requests, two scenarios, two runs, a run lost at a time, a restart.
SPECIFICATION StoresSpec
CONSTANTS
    r1 = r1
    r2 = r2
    Readers <- TwoReaders
    Ttl = 2
    MaxSchedules = 2
    MaxCommits = 3
    MaxReassigns = 1
    MaxRestarts = 1
    q1 = q1
    q2 = q2
    cost = cost
    service = service
    u1 = u1
    u2 = u2
    NoRun = NoRun
    Requests <- TwoRequests
    Scenarios <- TwoScenarios
    Runs <- TwoRuns
    MaxLost = 1
    MaxBackendRestarts = 1
INVARIANTS
    AnswersCohere
    OptionsHold
PROPERTIES
    StaleAnswersEnd
    OptionSettles
CHECK_DEADLOCK FALSE
