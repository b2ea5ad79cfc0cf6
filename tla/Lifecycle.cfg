\* One project, two overlapping requests, overlapping runs of the closing job.
CONSTANTS
    Project = {1}
    Client = {c1, c2}
    Publisher = {b1}
    Closer = {k1, k2}
    Asked = {"schedule_publish", "schedule_close", "cancel_publish", "cancel_close",
             "close", "reopen", "update", "delete"}
    MaxTime = 2
    MaxCrashes = 1
    None = None
SPECIFICATION Spec
SYMMETRY Symmetry
CHECK_DEADLOCK FALSE
INVARIANTS
    TypeOK
    ScheduleOrder
PROPERTIES
    JobsActOnDueProjectsOnly
    OwnerCannotTouchDeleted
    ImplementsSchedules
