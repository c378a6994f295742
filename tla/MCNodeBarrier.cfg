\* Worker and worker+coordinator barriers mixed; messages may be dropped.
CONSTANTS
    c = c
    w1 = w1
    w2 = w2
    Nodes <- MCNodes
    RoleOf <- RolesOfNodes
    CallGroups <- MixedGroups
    Dropping = TRUE
    MaxCalls = 2
    NoGroup = NoGroup
SPECIFICATION MCSpec
INVARIANTS
    NoEarlyLeave
PROPERTIES
    ImplementsBarrier
    ReleasedUnlessLossy
CHECK_DEADLOCK FALSE
