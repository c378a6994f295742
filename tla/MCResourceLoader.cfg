CONSTANTS
    Files = {f1, f2, f3}
    Root = f1
    Names = {n1, n2, n3}
SPECIFICATION FairLoaderSpec
INVARIANTS
    LoadsReachable
    FailsForAReason
PROPERTIES
    LoadEnds
CHECK_DEADLOCK FALSE
