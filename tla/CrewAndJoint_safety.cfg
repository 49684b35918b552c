\* Every duty the crew solvers may choose, on requests of four to six trips;
\* every plan from a handful of seeds, with every answer of the crew solver.
SPECIFICATION SearchSpec
CONSTANTS
    CrewRequests <- MCCrewRequests
    Passes = 2
    Problems <- MCProblems
    Crews <- MCCrews
    TailLimit = 3
    LnsRounds = 2
    TriedTrips = 2
    TriedGaps = 1
INVARIANTS
    TripsDrivenOnce
    AcceptedDutiesPass
    RostersRest
    TripsKept
    BlocksSound
    PlanNoWorse
PROPERTIES
    PlansNeverWorsen
CHECK_DEADLOCK FALSE
