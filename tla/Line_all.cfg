\* Two attempts, three events held back, two sessions; the program ends.
SPECIFICATION FairSpec
CONSTANTS
    MaxAttempts = 2
    MaxPending = 3
    MaxUnread = 3
    MaxStale = 2
INVARIANTS LineInv UnreadCounted
PROPERTIES StopEndsPrompt
CHECK_DEADLOCK FALSE
