CONSTANTS
    Tasks = {t1, t2, t3}
    MaxRuns = 2
    MaxRetries = 1
SPECIFICATION FlowSpec
INVARIANTS
    AfterDependencies
    EndedRanAll
CHECK_DEADLOCK FALSE
