\* Two threads, pipes of one message.
SPECIFICATION FairSpec
CONSTANTS
    s1 = s1
    s2 = s2
    p = p
    Threads = {t1, t2}
    Servers = {s1, s2}
    Peers = {p}
    Shapes <- MixedShapes
    Capacity = 1
    MaxCalls = 3
    MaxRequests = 2
    Nobody = Nobody
    None = None
INVARIANTS
    ReceiverSurvives
    ExactResponses
PROPERTY
    EveryTensorCallEnds
CHECK_DEADLOCK FALSE
