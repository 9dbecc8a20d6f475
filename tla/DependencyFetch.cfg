SPECIFICATION Spec
CONSTANTS
    Attempts = 2
    AttemptTimeout = 2
    TotalTimeout = 4
    FirstDelay = 1
    LaterDelay = 1
    CleanupTimeout = 1
    MaxEdits = 2
CHECK_DEADLOCK FALSE
INVARIANTS
    RetriesAreSafe
    ReportIsTrue
PROPERTIES
    Ends
