SPECIFICATION SyncSpec
CONSTANTS
    Kinds = {"channel", "dm"}
    MaxClock = 4
    Counts = {1, 4}
    MaxUp = 1
INVARIANTS
    SyncInv
    RowsAreMissedOnlyBehind
    UpdatesAreMissedOnlyInTransit
PROPERTY
    StoreOnlyGrows
CHECK_DEADLOCK FALSE
