\* Three streams: the current one and two that old tasks may still refer to.
SPECIFICATION IdleSpec
CONSTANTS
    Streams = {s1, s2, s3}
    NoStream = NoStream
    AutoReconnect = TRUE
    MaxRetries = 3
    InitialBackoff = 2
    MaxBackoff = 6
    HasScript = TRUE
    InjectsCallsign = FALSE
    SilenceGuard = TRUE
    AttemptBound = 4
INVARIANTS
    RetrySchedule
    IInv
PROPERTIES
    ImplementsContract
    LossIsSettled
    QuietLinkIsHungUp
    CloseReturns
