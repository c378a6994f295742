CONSTANTS
    Runners = {r1, r2}
    None = None
    Minutes = 2
    CliCalls = 2
    Faults = {"die", "fail"}
SPECIFICATION FairSceneSpec
INVARIANTS
    ScheduledHasConfig
    DeployedIsTrained
    LocksAreAlive
PROPERTIES
    RunnersEnd
CHECK_DEADLOCK FALSE
