\* One request at a time while the project, its members and its objects change.
CONSTANTS
    User = {u1}
    Project = {p1}
    Slot = {s1, s2}
    Client = {c1}
    AskedRoles = {"member", "viewer"}
    Settings = {"open", "public", "policy", "task", "comment", "members", "live"}
    AskedOps = {"upload", "delete"}
    AskedSizes = {1}
    MaxFile = 1
    MaxProject = 1
    MaxTotal = 2
    None = None
SPECIFICATION Spec
SYMMETRY Symmetry
CHECK_DEADLOCK FALSE
PROPERTIES
    LateUploadsWereUnderWay
