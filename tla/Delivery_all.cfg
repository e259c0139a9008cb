\* One row, two edits and a resend, three timer tasks.
SPECIFICATION FairSpec
CONSTANTS
    Timers = {t1, t2, t3}
    NoTimer = NoTimer
    MaxEdits = 2
    MaxResends = 1
    QueueBound = 2
INVARIANT
    DInv
PROPERTIES
    NoticeIsDeserved
    DeliveredIsNotReported
    UnackedIsSettled
CHECK_DEADLOCK FALSE
