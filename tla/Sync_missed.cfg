SPECIFICATION SyncSpec
CONSTANTS
    Kinds = {"channel"}
    MaxClock = 4
    Counts = {4}
    MaxUp = 1
INVARIANT
    NoUpdateIsMissed
CHECK_DEADLOCK FALSE
