SPECIFICATION MacSpec
CONSTANTS
    MaxAppChanges = 2
    MaxGenerated = 2
CHECK_DEADLOCK FALSE
INVARIANTS
    AcceptedIsCovered
    LimitsAreTrue
    PreparedIsAccepted
