SPECIFICATION Spec
CONSTANTS
    u1 = u1
    u2 = u2
    Users = {u1}
    NUM_SEM0 = 5
    NUM_LOCK = 2
    NoSem = NoSem
INVARIANTS PoolExact LocksRestored
CHECK_DEADLOCK FALSE
