\* Three requests of two companies and one of none share two connections.
SPECIFICATION FairSpec
CONSTANTS
    q1 = q1
    q2 = q2
    q3 = q3
    q4 = q4
    acme = acme
    rival = rival
    c1 = c1
    c2 = c2
    NoCompany = NoCompany
    NoConnection = NoConnection
    Requests <- FourRequests
    Companies <- TwoCompanies
    Connections <- TwoConnections
    CompanyOf <- Tenant
    MaxQueries = 1
    MaxFaults = 1
INVARIANTS
    ConnectionsHold
PROPERTIES
    RequestsAnswered
CHECK_DEADLOCK FALSE
