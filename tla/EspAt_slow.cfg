SPECIFICATION FairSpec
CONSTANTS
    Links = {0}
    TxMax = 2
    LineMax = 2
    MaxUnsolicited = 1
    DTQ_SIZE = 2
    RX_SIZE = 1
    Prompt = FALSE
    Quiet = FALSE
    MaxGen = 2
    MaxSends = 2
    MaxPreps = 2
INVARIANTS ConnectedReal SendBacked
PROPERTY CallReturns
CHECK_DEADLOCK FALSE
