SPECIFICATION Spec
CONSTANTS
    SIZE = 4
    SplitWrap = TRUE
    MaxBytes = 12
INVARIANT TypeOK
PROPERTIES ImplementsFifo InOrder
CHECK_DEADLOCK FALSE
