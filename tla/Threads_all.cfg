SPECIFICATION Spec
CONSTANTS
    MaxRows = 2
    Page = 1
    MaxEvents = 2
    MaxChanges = 1
    MaxBadge = 1
INVARIANTS ThreadsInv ActiveIsRead NoHiddenUnread PanesShowStore
CHECK_DEADLOCK FALSE
