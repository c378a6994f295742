SPECIFICATION MCSpec
CONSTANTS
    WorkerCount = 2
    ServerCounts = {2, 3}
    MaxJobs = 2
    StartsAfresh = FALSE
    Minibatches <- FewMinibatches
    NoGrad = {{1, 3}}
    Batches <- OneBatch
    DenseRows = 3
    NameHash = 1
    Modulus = 64
    MaxAge = 1
    KeepMeta = FALSE
    TextMode = TRUE
    HasState = FALSE
    None = None
INVARIANT
    SavedTextIsRead
