SPECIFICATION Spec
CONSTANTS
    u1 = u1
    u2 = u2
    Users = {u1, u2}
    NUM_SEM0 = 5
    NUM_LOCK = 2
    NoSem = NoSem
INVARIANT SemsDistinct
CHECK_DEADLOCK FALSE
