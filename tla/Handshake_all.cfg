SPECIFICATION HandshakeFairSpec
CONSTANTS
    Steps <- TwoSteps
    MaxText = 4
    MaxChunk = 2
    MaxQueue = 2
INVARIANTS
    HandshakeInv
    FramesAreTheSplit
PROPERTY
    WaitersAreTold
CHECK_DEADLOCK FALSE
