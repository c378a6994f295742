CONSTANTS
    WorkerCount = 2
    ServerCount = 1
    NJobs = 3
    Distributions = 1
    FeedTasks = 2
    LaunchFaults = {"hook"}
SPECIFICATION FairLaunchSpec
INVARIANTS
    OwnAgent
PROPERTIES
    JobsEnd
