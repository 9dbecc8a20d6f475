SPECIFICATION Spec
CONSTANTS
    MaxSession = 2
    MaxStop = 2
    MaxCrash = 1
    JobConfined = TRUE
CHECK_DEADLOCK FALSE
INVARIANTS
    KeepsItsCore
    ConfirmedIsGone
PROPERTIES
    EveryRequestAnswered
