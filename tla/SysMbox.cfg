SPECIFICATION FairSpec
CONSTANTS
    p1 = p1
    p2 = p2
    p3 = p3
    f1 = f1
    Posters = {p1, p2, p3}
    Fetchers = {f1}
    Prio <- MCPrio
    PostOps <- MCPostOps
    FetchOps = {"fetch", "fetch_tmo", "tryfetch"}
    SYS_MBOX_SIZE = 3
    MaxCalls = 2
    NoMsg = NoMsg
INVARIANTS TypeOK MutualExclusion WaitSendExact NoStrandedPoster NoSleepingFetcher
PROPERTIES ImplementsFairFifo PostReturns
CHECK_DEADLOCK FALSE
