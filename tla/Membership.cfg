CONSTANTS
    User = {u1, u2, u3}
    Row = {r1, r2, r3, r4}
    Client = {c1, c2}
    AskedRoles = {"owner", "viewer"}
    NoUser = NoUser
    NoRequest = NoRequest
SPECIFICATION Spec
SYMMETRY Symmetry
INVARIANTS
    TypeOK
    OneRowPerUser
    OwnerMatchesMembership
    NoMembersAfterDelete
    DefensiveBranchesUnreachable
PROPERTIES
    CommittedByCurrentOwner
    RemovedRowsAreFrozen
    ImplementsOwnership
