SPECIFICATION FairSpec
CONSTANTS
    Keys <- MCKeys
    Values = {u, v}
    Puts <- MCPuts
    Predicates = {{u}}
    Prime = 7
    BucketCounts <- MCBucketCounts
    InitialCapacity = 8
    AllocFails = TRUE
    TornKeys = 3
    Nil = Nil
    None = None
INVARIANTS
    IInv
PROPERTIES
    ImplementsMap
    WalksEnd
