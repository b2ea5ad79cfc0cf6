\* A task that changes in every way, and a worker that may die.
CONSTANTS
    Task = {1}
    User = {u1, u2}
    Runner = {r1}
    Edits = {"assignee", "due", "done", "deleted", "open"}
    Window = 1
    MaxTime = 2
    MaxCrashes = 1
    None = None
SPECIFICATION FairSpec
CHECK_DEADLOCK FALSE
INVARIANTS
    TypeOK
    NotTooEarly
PROPERTIES
    DueTasksAreReminded
