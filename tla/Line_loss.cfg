\* The smallest instance: one attempt.
SPECIFICATION FairSpec
CONSTANTS
    MaxAttempts = 1
    MaxPending = 1
    MaxUnread = 0
    MaxStale = 1
PROPERTIES LossEndsRun
CHECK_DEADLOCK FALSE
