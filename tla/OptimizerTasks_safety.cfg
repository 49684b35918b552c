\* Three submissions of two problems, one of which kills its worker; two workers,
\* a worker lost for another reason, an eviction. Two task ids for three.
SPECIFICATION FairSpec
CONSTANTS
    s1 = s1
    s2 = s2
    s3 = s3
    t1 = t1
    t2 = t2
    w1 = w1
    w2 = w2
    NoTask = NoTask
    NoProblem = NoProblem
    Submissions <- ThreeSubmissions
    Problems <- AllProblems
    ProblemOf <- OneEach
    Killers <- LooseOnly
    Tasks <- TwoTasks
    Workers <- TwoWorkers
    MaxErrors = 1
    MaxFaults = 1
INVARIANTS
    TasksKept
    AnswerIsOwn
PROPERTIES
    SubmissionsAnswered
CHECK_DEADLOCK FALSE
