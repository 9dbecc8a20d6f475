SPECIFICATION SymbolsSpec
CONSTANTS
    Packages = {1, 2}
    Abis = {arm64, x64}
    Desktop = linux64
    MaxRuns = 2
    MaxChanges = 2
CHECK_DEADLOCK FALSE
SYMMETRY InterchangeableAbis
INVARIANTS
    AuditedIsCovered
    NothingIsStale
