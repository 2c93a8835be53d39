SPECIFICATION Spec
CONSTANTS
    Links = {0, 1}
    TxMax = 2
    LineMax = 2
    MaxUnsolicited = 0
    DTQ_SIZE = 2
    RX_SIZE = 1
    Prompt = TRUE
    Quiet = TRUE
    MaxGen = 2
    MaxSends = 1
    MaxPreps = 0
INVARIANT NoError
CHECK_DEADLOCK FALSE
