\* Two calls, overlapping or not.
SPECIFICATION FairSpec
CONSTANTS
    Calls = {c1, c2}
    NoCall = NoCall
    Overlap = TRUE
    WireBound = 3
INVARIANTS
    PauseIsTold
    SubscriptionAgrees
    SInv
PROPERTIES
    FuturesSettleOnce
    CallReturns
CHECK_DEADLOCK FALSE
