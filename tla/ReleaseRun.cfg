SPECIFICATION Spec
CONSTANTS
    Runs = {r1,r2}
    MaxTroubles = 2
CHECK_DEADLOCK FALSE
SYMMETRY InterchangeableRuns
INVARIANTS
    NumberIsConsumed
    AssetsAreAudited
PROPERTIES
    BranchOnlyGrows
