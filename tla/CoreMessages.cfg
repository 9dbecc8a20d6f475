SPECIFICATION Spec
CONSTANTS
    MaxMessage = 3
    QueueSize = 1
    BatchSize = 2
    Burst = 1
    EvictAttempts = 2
CHECK_DEADLOCK FALSE
INVARIANTS
    EvictsOwnQueueOnly
    BulkNotStarved
    TimerIsOfThisBatch
PROPERTIES
    AcceptedLeaves
