\* Every answer of the solvers to thirteen requests; large requests and jobs
\* of four to six trips; weeks of up to five duties, days of three.
SPECIFICATION OptimizerSpec
CONSTANTS
    Requests <- MCRequests
    VehiclePlans <- MCVehiclePlans
    CrewPlans <- MCCrewPlans
    Price <- MCPrice
    NoCrew = NoCrew
    Problems <- MCLargeRequests
    Jobs <- MCJobs
    NoPlan = NoPlan
    Weeks <- MCWeeks
    Ana = Ana
    Bia = Bia
    Caio = Caio
    Operators = {Ana, Bia, Caio}
    NoOperator = NoOperator
    Calls <- MCCalls
INVARIANTS
    PipelineKept
    StrictMeansClean
    GroupRepairOnlyHelps
    GroupsStayTogether
    PublishedWhole
    PartsCoverOnce
    JointsHold
    WeekLimitsKept
    RestKept
    MatchingHolds
CHECK_DEADLOCK FALSE
