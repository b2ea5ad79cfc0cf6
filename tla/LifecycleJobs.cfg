\* Two projects that compete for the runs of one worker of each job.
CONSTANTS
    Project = {1, 2}
    Client = {c1}
    Publisher = {b1}
    Closer = {k1}
    Asked = {"schedule_publish", "schedule_close", "reopen"}
    MaxTime = 2
    MaxCrashes = 1
    None = None
SPECIFICATION FairSpec
CHECK_DEADLOCK FALSE
PROPERTIES
    DueProjectsArePublished
    DueProjectsAreClosed
