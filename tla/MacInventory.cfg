SPECIFICATION InventorySpec
CHECK_DEADLOCK FALSE
INVARIANTS
    EverySourceIsHosted
    OwnershipIsTrue
    WrittenIsAccepted
