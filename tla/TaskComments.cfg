\* Comments and watchers of one task while the project opens up and members leave.
CONSTANTS
    User = {u1, u2}
    NoUser = NoUser
    Task = {t1}
    Comment = {k1}
    Client = {c1, c2}
    AskedRoles = {"member", "viewer"}
    AskedOps = {"create_task", "create_comment", "update_comment", "delete_comment",
                "watch_task", "unwatch_task"}
    Settings = {"public", "policy"}
    None = None
SPECIFICATION Spec
SYMMETRY Symmetry
INVARIANTS
    NoticesGoToMembers
PROPERTIES
    CommentAuthority
