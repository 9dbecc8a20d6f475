SPECIFICATION Spec
CONSTANTS
    Builds = {b1, b2}
    Batches = {d1, d2}
    Configured = TRUE
    None = None
    Torn = Torn
    MaxRuns = 3
    MaxEdits = 1
    MaxStops = 1
SYMMETRY Interchangeable
CHECK_DEADLOCK FALSE
INVARIANTS
    PromotedIsPinned
    NumberOnce
    UserFilesAreBack
