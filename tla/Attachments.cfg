\* Overlapping uploads and deletions in two projects.
CONSTANTS
    User = {u1}
    Project = {p1, p2}
    Slot = {s1, s2, s3}
    Client = {c1, c2}
    AskedRoles = {"member"}
    Settings = {}
    AskedOps = {"upload", "delete"}
    AskedSizes = {1, 2, 3}
    MaxFile = 2
    MaxProject = 3
    MaxTotal = 4
    None = None
SPECIFICATION Spec
SYMMETRY Symmetry
CHECK_DEADLOCK FALSE
INVARIANTS
    TypeOK
    ExcessIsBounded
