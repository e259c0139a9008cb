SPECIFICATION FairSpec
CONSTANTS
    MaxClients = 5
    MaxQueue = 3
INVARIANTS
    UiInv
    WindowsAreAwaited
PROPERTIES
    ReconnectingEnds
    LossIsHandled
CHECK_DEADLOCK FALSE
