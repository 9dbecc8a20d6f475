SPECIFICATION Spec
CONSTANTS
    MaxCall = 2
    MaxConn = 2
    Idle = 2
    Grace = 1
    Connect = 1
CHECK_DEADLOCK FALSE
INVARIANTS
    NothingIsForgotten
PROPERTIES
    NoEarlyTimeout
    EveryCallSettles
