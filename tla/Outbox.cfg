\* Two messages, two workers with overlapping runs, one of which dies, two readers.
CONSTANTS
    Notice = {1, 2}
    Worker = {w1, w2}
    MaxCrashes = 1
    Reader = {q1, q2}
    None = None
SPECIFICATION InboxFairSpec
CHECK_DEADLOCK FALSE
INVARIANTS
    InboxTypeOK
    DuplicatesNeedCrashes
    SentIsTrue
    ReadTimeSettles
PROPERTIES
    PendingIsAttempted
    ImplementsDelivery
