CONSTANTS
    Keys = {k1}
    Versions = {v1, v2}
    Bad = Bad
    MaxPuts = 3
    MaxPosts = 4
    FaultSets <- MCFaultSets
SPECIFICATION FairSpec
INVARIANTS
    ServedIsWhole
    KnownIsServed
PROPERTIES
    NeverBack
    PublishedIsServed
CHECK_DEADLOCK FALSE
