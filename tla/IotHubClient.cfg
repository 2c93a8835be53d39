SPECIFICATION FairSpec
CONSTANTS
    MESSAGE_COUNT = 2
    DOWORK_LOOP_NUM = 1
    PERIOD = 2
    FIRST = 1
    MaxMsgs = 4
    MaxDesired = 2
INVARIANTS DestroyedOnce NothingLeft
PROPERTIES TwinSettles QuitEnds
CHECK_DEADLOCK FALSE
