\* A project behind one that the job cannot close again.
CONSTANTS
    Project = {1, 2}
    Client = {c1}
    Publisher = {}
    Closer = {k1}
    Asked = {"schedule_close", "reopen"}
    MaxTime = 2
    MaxCrashes = 0
    None = None
SPECIFICATION FairSpec
CHECK_DEADLOCK FALSE
PROPERTIES
    FirstCloseIsCarriedOut
