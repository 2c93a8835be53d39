SPECIFICATION Spec
CONSTANTS
    Links = {0}
    TxMax = 2
    LineMax = 2
    MaxUnsolicited = 4
    DTQ_SIZE = 4
    RX_SIZE = 1
    Prompt = TRUE
    Quiet = TRUE
    MaxGen = 4
    MaxSends = 3
    MaxPreps = 0
INVARIANTS TypeOK CommandsStayCommands OwnData NoError SendSound
CHECK_DEADLOCK FALSE
