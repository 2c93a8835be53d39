SPECIFICATION FairSpec
CONSTANTS
    l1 = l1
    l2 = l2
    l3 = l3
    o1 = o1
    LwipTasks = {l1, l2, l3}
    OtherTasks = {}
    Prio <- MCPrio
    NULL = NULL
    MaxNest = 2
    MaxCalls = 3
INVARIANTS OwnerExact
PROPERTIES ImplementsMonitor ProtectReturns
CHECK_DEADLOCK FALSE
