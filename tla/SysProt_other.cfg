SPECIFICATION Spec
CONSTANTS
    l1 = l1
    l2 = l2
    l3 = l3
    o1 = o1
    LwipTasks = {l1}
    OtherTasks = {o1}
    Prio <- MCPrio
    NULL = NULL
    MaxNest = 1
    MaxCalls = 1
INVARIANTS RegionsExclusive
CHECK_DEADLOCK FALSE
