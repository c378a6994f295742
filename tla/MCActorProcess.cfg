\* Two servers and a worker, a job without faults and one with all of them.
SPECIFICATION FairSpec
CONSTANTS
    Nodes = {"c", "s1", "s2", "w1"}
    RoleOf <- MCRoleOf
    Coord = "c"
    Host <- MCHost
    Port <- MCPort
    FaultSets <- NoneOrAll
    MaxRequests = 2
    NoCall = NoCall
    NoStore = NoStore
INVARIANTS
    RoutesAgree
    ReadyConnected
    AnsweredByOwner
    OnlyEarlyRequestsKill
PROPERTIES
    EveryoneStops
CHECK_DEADLOCK FALSE
