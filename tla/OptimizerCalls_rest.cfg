\* Every answer of the solvers to weeks of up to five duties; other calls as in
\* the safety run.
SPECIFICATION OptimizerSpec
CONSTANTS
    Requests <- MCRequests
    VehiclePlans <- MCVehiclePlans
    CrewPlans <- MCCrewPlans
    Price <- MCPrice
    NoCrew = NoCrew
    Problems <- MCLargeRequests
    Jobs <- MCJobs
    NoPlan = NoPlan
    Weeks <- MCWeeks
    Ana = Ana
    Bia = Bia
    Caio = Caio
    Operators = {Ana, Bia, Caio}
    NoOperator = NoOperator
    Calls <- MCCalls
INVARIANTS
    RestBetweenDays
CHECK_DEADLOCK FALSE
