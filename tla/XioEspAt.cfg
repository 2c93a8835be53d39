SPECIFICATION FairSpec
CONSTANTS
    RETRIES = 2
    MaxSends = 4
    MaxOpens = 3
    MaxData = 3
INVARIANTS LiveSocket
PROPERTIES ImplementsPipe ReportedOnce SendSettles DoWorkReturns
CHECK_DEADLOCK FALSE
