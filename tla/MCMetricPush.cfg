CONSTANTS
    w1 = w1
    w2 = w2
    b1 = b1
    b2 = b2
    b3 = b3
    Workers = {w1, w2}
    Batches = {b1, b2, b3}
    Coord = coord
    NoWorker = none
    Examples <- MCExamples
    BufferSize = 3
    Scale = 4
    Epochs = 2
    Interval = 2
    Faults = {"format"}
SPECIFICATION FairSpec
INVARIANTS
    ExactlyOnce
    FinalMetricExact
    AUCOfPairs
PROPERTIES
    RunEnds
CHECK_DEADLOCK FALSE
