SPECIFICATION Spec
CONSTANTS
    MaxPeer = 2
    MaxFrame = 3
    MaxStream = 2
    Budget = 2
CHECK_DEADLOCK FALSE
INVARIANTS
    FrameReachesItsPeer
    OutboxIsSound
PROPERTIES
    LinkMovesOn
