----------------------------- MODULE Membership -----------------------------
(***************************************************************************)
(* One project, its owner and its membership rows, under concurrent HTTP   *)
(* requests (src/apps/projects: api/views.py, services.py, selectors.py).  *)
(*                                                                         *)
(* A request has two steps.  The view looks the project (and for the       *)
(* member endpoints the membership row) up without a lock and answers 404  *)
(* when the caller cannot see it.  The service then opens a transaction,   *)
(* takes the project row lock, decides again on what it reads under the    *)
(* lock, and commits.  Every writer of these tables takes that lock, so a  *)
(* service transaction is one step, and any number of other requests may   *)
(* commit between a view and its service.                                  *)
(*                                                                         *)
(* Rows are kept with their identity: removing a member only marks the     *)
(* row, adding the user again restores it.  The database refuses two       *)
(* active rows of one user and two active owner rows at every statement.   *)
(* Audit rows, names and timestamps are left out; "the latest by           *)
(* updated_at" is any of the candidates.                                   *)
(***************************************************************************)
EXTENDS Policies

CONSTANTS
    User,       \* active user accounts
    Row,        \* primary keys the membership table can hand out
    Client,     \* request workers of the web process
    AskedRoles, \* the roles that requests ask for
    NoUser,     \* owner of a project that does not exist yet
    NoRequest   \* a worker that is not serving a request

ASSUME NoUserAssumption == NoUser \notin User
ASSUME AskedRolesAssumption == AskedRoles \subseteq Roles

VARIABLES
    phase,      \* "absent", "live" or "deleted" (Project.deleted_at)
    owner,      \* Project.owner
    public,     \* Project.visibility = PUBLIC
    rows,       \* the rows of projects_projectmembership
    request,    \* worker -> the request its view let through
    reply       \* worker -> how its last request ended

db   == <<phase, owner, public, rows>>
vars == <<phase, owner, public, rows, request, reply>>

Membership == [id: Row, user: User, role: Roles, active: BOOLEAN]

Request ==
    [op: {"update_project"}, actor: User, public: BOOLEAN]
        \cup [op: {"delete_project"}, actor: User]
        \cup [op: {"transfer"}, actor: User, user: User]
        \cup [op: {"add_member"}, actor: User, user: User, role: AskedRoles]
        \cup [op: {"update_member"}, actor: User, row: Row, role: AskedRoles]
        \cup [op: {"remove_member"}, actor: User, row: Row]

ASSUME NoRequestAssumption == NoRequest \notin Request

Replies == {"none", "ok", "not_found", "permission_denied", "invalid_role",
            "duplicate_membership", "owner_required", "conflict",
            "inconsistent", "integrity_error"}

TypeOK ==
    /\ phase \in {"absent", "live", "deleted"}
    /\ owner \in User \cup {NoUser}
    /\ public \in BOOLEAN
    /\ rows \subseteq Membership
    /\ request \in [Client -> Request \cup {NoRequest}]
    /\ reply \in [Client -> Replies]

Init ==
    /\ phase = "absent"
    /\ owner = NoUser
    /\ public = FALSE
    /\ rows = {}
    /\ request = [c \in Client |-> NoRequest]
    /\ reply = [c \in Client |-> "none"]

-----------------------------------------------------------------------------
(* What the selectors read.                                                *)

ActiveRows(u)  == {m \in rows : m.user = u /\ m.active}
DeletedRows(u) == {m \in rows : m.user = u /\ ~m.active}

(* The role of a user's active row, if he has one.                         *)
RoleIn(rs, u) ==
    IF \E m \in rs : m.user = u /\ m.active
    THEN (CHOOSE m \in rs : m.user = u /\ m.active).role
    ELSE NoRole

(* membership_for_user: the active membership in a project that is not     *)
(* deleted.                                                                *)
RoleOf(u) == IF phase = "live" THEN RoleIn(rows, u) ELSE NoRole

Visible(u) == phase = "live" /\ (public \/ ActiveRows(u) # {})

(* Mutant of EnsureOwner: being able to see the project is enough. *)
EnsureVisible(u) == Visible(u)

EnsureOwner(u) == IsProjectOwner(u, owner, RoleOf(u))

(* Mutant of LockedActiveMembership: the row is locked, but not looked at again. *)
LockedMembership(id) == {m \in rows : m.id = id}

(* locked_active_membership: the row the view found, if it is still active. *)
LockedActiveMembership(id) == {m \in rows : m.id = id /\ m.active}

OwnerRows == {m \in rows : m.active /\ m.role = "owner"}

(* Both partial unique constraints of the table.                           *)
UniqueActive(rs) ==
    \A m, n \in {r \in rs : r.active} :
        (m.user = n.user \/ (m.role = "owner" /\ n.role = "owner")) => m = n

Rewrite(rs, m, n) == (rs \ {m}) \cup {n}
(* Mutant of Demoted: a transfer leaves the previous owner a plain member. *)
DemotedToMember(m) == [m EXCEPT !.role = "member"]

Demoted(m) == [m EXCEPT !.role = "manager"]
Granted(m, role) == [m EXCEPT !.role = role, !.active = TRUE]
(* Mutant of Removed: the role is cleared along with the row. *)
RemovedWithRole(m) == [m EXCEPT !.active = FALSE, !.role = NoRole]

Removed(m) == [m EXCEPT !.active = FALSE]

(* A row about to be inserted for a user, under an unused primary key.     *)
NewRows(u) ==
    {[id |-> i, user |-> u, role |-> "viewer", active |-> FALSE] :
        i \in Row \ {m.id : m \in rows}}

(* Mutant of RowsToRestore: removed rows are not looked for. *)
AlwaysNewRows(u) == NewRows(u)

(* add_project_member restores a soft-deleted row before it inserts one;   *)
(* transfer_project_ownership promotes any row of the user before it does. *)
RowsToRestore(u) == IF DeletedRows(u) # {} THEN DeletedRows(u) ELSE NewRows(u)
RowsToPromote(u) ==
    LET known == ActiveRows(u) \cup DeletedRows(u)
    IN  IF known # {} THEN known ELSE NewRows(u)

-----------------------------------------------------------------------------
(* The view step.                                                          *)

Reachable(q) ==
    /\ Visible(q.actor)
    /\ q.op \in {"update_member", "remove_member"}
        => LockedActiveMembership(q.row) # {}

Receive(c, q) ==
    /\ request[c] = NoRequest
    /\ phase # "absent"
    /\ IF Reachable(q)
       THEN /\ request' = [request EXCEPT ![c] = q]
            /\ reply' = [reply EXCEPT ![c] = "none"]
       ELSE /\ reply' = [reply EXCEPT ![c] = "not_found"]
            /\ UNCHANGED request
    /\ UNCHANGED db

(* POST /projects/ needs no lookup: project and owner row in one transaction. *)
CreateProject(c, u, visibility) ==
    /\ request[c] = NoRequest
    /\ phase = "absent"
    /\ phase' = "live"
    /\ owner' = u
    /\ public' = visibility
    /\ \E m \in NewRows(u) : rows' = {Granted(m, "owner")}
    /\ reply' = [reply EXCEPT ![c] = "ok"]
    /\ UNCHANGED request

-----------------------------------------------------------------------------
(* The service step, under the project row lock.                           *)

Answer(c, r) ==
    /\ request' = [request EXCEPT ![c] = NoRequest]
    /\ reply' = [reply EXCEPT ![c] = r]

Refuse(c, r) == Answer(c, r) /\ UNCHANGED db

(* All six services start with ensure_owner.                               *)
Forbid(c) ==
    /\ request[c] # NoRequest
    /\ ~EnsureOwner(request[c].actor)
    /\ Refuse(c, "permission_denied")

Authorised(c, op) ==
    /\ request[c] # NoRequest
    /\ request[c].op = op
    /\ EnsureOwner(request[c].actor)

(* One INSERT or UPDATE of a membership row.  (What the database refuses,  *)
(* add_project_member would report as a duplicate membership.)             *)
SaveRow(c, m, n) ==
    IF UniqueActive(Rewrite(rows, m, n))
    THEN rows' = Rewrite(rows, m, n) /\ UNCHANGED <<phase, owner, public>> /\ Answer(c, "ok")
    ELSE Refuse(c, "integrity_error")

UpdateProject(c) ==
    /\ Authorised(c, "update_project")
    /\ public' = request[c].public
    /\ UNCHANGED <<phase, owner, rows>>
    /\ Answer(c, "ok")

(* Mutant of DeleteProject: the memberships are left as they are. *)
DeleteProjectOnly(c) ==
    /\ Authorised(c, "delete_project")
    /\ phase' = "deleted"
    /\ UNCHANGED <<owner, public, rows>>
    /\ Answer(c, "ok")

DeleteProject(c) ==
    /\ Authorised(c, "delete_project")
    /\ phase' = "deleted"
    /\ rows' = {Removed(m) : m \in rows}
    /\ UNCHANGED <<owner, public>>
    /\ Answer(c, "ok")

AddMember(c) ==
    /\ Authorised(c, "add_member")
    /\ LET q == request[c] IN
        \/ q.role = "owner" /\ Refuse(c, "invalid_role")
        \/ /\ q.role # "owner"
           /\ RoleOf(q.user) # NoRole
           /\ Refuse(c, "duplicate_membership")
        \/ /\ q.role # "owner"
           /\ RoleOf(q.user) = NoRole
           /\ \E m \in RowsToRestore(q.user) : SaveRow(c, m, Granted(m, q.role))

UpdateMember(c) ==
    /\ Authorised(c, "update_member")
    /\ LET q == request[c] IN
        \/ LockedActiveMembership(q.row) = {} /\ Refuse(c, "not_found")
        \/ \E m \in LockedActiveMembership(q.row) :
            \/ q.role = "owner" /\ Refuse(c, "invalid_role")
            \/ q.role # "owner" /\ m.role = "owner" /\ Refuse(c, "owner_required")
            \/ /\ q.role # "owner"
               /\ m.role # "owner"
               /\ SaveRow(c, m, [m EXCEPT !.role = q.role])

(* Mutant of RemoveMember: the owner's row is not protected. *)
RemoveAnyMember(c) ==
    /\ Authorised(c, "remove_member")
    /\ LET q == request[c] IN
        \/ LockedActiveMembership(q.row) = {} /\ Refuse(c, "not_found")
        \/ \E m \in LockedActiveMembership(q.row) : SaveRow(c, m, Removed(m))

RemoveMember(c) ==
    /\ Authorised(c, "remove_member")
    /\ LET q == request[c] IN
        \/ LockedActiveMembership(q.row) = {} /\ Refuse(c, "not_found")
        \/ \E m \in LockedActiveMembership(q.row) :
            \/ m.role = "owner" /\ Refuse(c, "owner_required")
            \/ m.role # "owner" /\ SaveRow(c, m, Removed(m))

(* Mutant of MoveOwnership: the new owner is promoted first. *)
PromoteThenDemote(c, old, new) ==
    LET promoted == Rewrite(rows, new, Granted(new, "owner"))
        demoted  == Rewrite(promoted, old, Demoted(old))
    IN  IF UniqueActive(promoted) /\ UniqueActive(demoted)
        THEN /\ rows' = demoted
             /\ owner' = new.user
             /\ UNCHANGED <<phase, public>>
             /\ Answer(c, "ok")
        ELSE Refuse(c, "integrity_error")

(* Two UPDATEs, each checked by the database: the old owner is demoted     *)
(* before the new one is promoted.                                         *)
MoveOwnership(c, old, new) ==
    LET demoted  == Rewrite(rows, old, Demoted(old))
        promoted == Rewrite(demoted, new, Granted(new, "owner"))
    IN  IF UniqueActive(demoted) /\ UniqueActive(promoted)
        THEN /\ rows' = promoted
             /\ owner' = new.user
             /\ UNCHANGED <<phase, public>>
             /\ Answer(c, "ok")
        ELSE Refuse(c, "integrity_error")

TransferOwnership(c) ==
    /\ Authorised(c, "transfer")
    /\ LET q == request[c] IN
        \/ q.user = owner /\ Refuse(c, "conflict")
        \/ /\ q.user # owner
           /\ IF \E old \in OwnerRows : old.user = owner
              THEN \E old \in OwnerRows, new \in RowsToPromote(q.user) :
                        MoveOwnership(c, old, new)
              ELSE Refuse(c, "inconsistent")

Serve(c) ==
    \/ Forbid(c) \/ UpdateProject(c) \/ DeleteProject(c) \/ AddMember(c)
    \/ UpdateMember(c) \/ RemoveMember(c) \/ TransferOwnership(c)

Next ==
    \E c \in Client :
        \/ \E u \in User, visibility \in BOOLEAN : CreateProject(c, u, visibility)
        \/ \E q \in Request : Receive(c, q)
        \/ Serve(c)

Spec == Init /\ [][Next]_vars

-----------------------------------------------------------------------------
(* Removing and adding members, transferring back and forth and deleting   *)
(* never leave two rows of one user: add_project_member and                *)
(* transfer_project_ownership find the old row again.  With two rows the   *)
(* "latest row" a transfer promotes could be the wrong one.                *)
OneRowPerUser == \A m, n \in rows : m.user = n.user => m = n

(* Project.clean: the owner of a live project and its one active owner     *)
(* membership are the same user, after any order of transfers, role        *)
(* changes and removals.                                                   *)
OwnerMatchesMembership ==
    phase = "live" => {m.user : m \in OwnerRows} = {owner}

(* A request whose view saw the live project cannot add or restore a       *)
(* member once the project is deleted.                                     *)
NoMembersAfterDelete == phase = "deleted" => \A m \in rows : ~m.active

(* The branches the services keep for a broken database are dead code:     *)
(* "Project owner membership is inconsistent." and the IntegrityError of a *)
(* unique constraint are never what a request gets.                        *)
DefensiveBranchesUnreachable ==
    \A c \in Client : reply[c] \notin {"inconsistent", "integrity_error"}

(* Whatever the view saw, a request changes an existing project only when  *)
(* its caller owns the live project at the moment it commits.              *)
CommittedByCurrentOwner ==
    [][db' # db /\ phase # "absent" =>
        \E c \in Client :
            /\ request[c] # NoRequest
            /\ request'[c] = NoRequest
            /\ request[c].actor = owner
            /\ phase = "live"]_vars

(* A removed membership stays exactly as it was removed until the user is  *)
(* added again or made owner: a role change or a second removal whose view *)
(* saw the row before it was removed has no effect.                        *)
RemovedRowsAreFrozen ==
    [][\A m \in rows : (~m.active /\ m \notin rows') =>
        \E c \in Client :
            /\ request[c] # NoRequest
            /\ request'[c] = NoRequest
            /\ request[c].op \in {"add_member", "transfer"}
            /\ request[c].user = m.user]_vars

(* The abstract project: who is a member in which role.                    *)
Members == [u \in User |-> RoleIn(rows, u)]

Abstract == INSTANCE Ownership WITH members <- Members

(* The services implement the promise of Ownership.                        *)
ImplementsOwnership == Abstract!AbsSpec
=============================================================================
