\* Two overlapping requests on one task while members come and go.
CONSTANTS
    User = {u1, u2}
    NoUser = NoUser
    Task = {t1}
    Comment = {k1}
    Client = {c1, c2}
    AskedRoles = {"member", "viewer"}
    AskedOps = {"create_task", "update_task", "transition_task", "delete_task"}
    Settings = {"open"}
    None = None
SPECIFICATION Spec
SYMMETRY Symmetry
INVARIANTS
    TypeOK
PROPERTIES
    WritersOnly
    AssignedWhileMember
    WorkflowRespected
    DeletedTasksAreFinal
