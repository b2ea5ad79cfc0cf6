-------------------------- MODULE MembershipProofs --------------------------
(***************************************************************************)
(* What the runs of MCMembership show for three users and two workers,     *)
(* proved for every set of users, rows and workers.                        *)
(*                                                                         *)
(* The inductive invariant is the type invariant, one row per user, the    *)
(* owner's membership, and that only a live project has active members.    *)
(***************************************************************************)
EXTENDS Membership, TLAPS

(* A project that is deleted has no active member, and one that does not   *)
(* exist yet has no row.                                                   *)
OnlyLiveHasMembers ==
    /\ phase # "live" => \A m \in rows : ~m.active
    /\ phase = "absent" => rows = {}

IInv ==
    /\ TypeOK
    /\ OneRowPerUser
    /\ OwnerMatchesMembership
    /\ OnlyLiveHasMembers

-----------------------------------------------------------------------------
(* The services' guard: a caller that passes ensure_owner owns a live      *)
(* project.                                                                *)
LEMMA OwnerIsCurrent ==
    ASSUME NEW u, EnsureOwner(u)
    PROVE  phase = "live" /\ u = owner
BY DEF EnsureOwner, IsProjectOwner, RoleOf, NoRole

(* Somebody without a role in a live project has no active row.            *)
LEMMA NoRoleNoRow ==
    ASSUME TypeOK, phase = "live", NEW u, RoleOf(u) = NoRole
    PROVE  ActiveRows(u) = {}
<1>1. SUFFICES ASSUME ActiveRows(u) # {} PROVE FALSE
    OBVIOUS
<1>2. DEFINE m == CHOOSE n \in rows : n.user = u /\ n.active
<1>3. \E n \in rows : n.user = u /\ n.active
    BY <1>1 DEF ActiveRows
<1>4. m.role \in Roles
    BY <1>3 DEF TypeOK, Membership
<1>5. RoleOf(u) = m.role
    BY <1>3 DEF RoleOf, RoleIn
<1>6. QED
    BY <1>4, <1>5 DEF Roles, NoRole

(* A row to insert is typed, inactive and belongs to the user.             *)
LEMMA NewRow ==
    ASSUME TypeOK, NEW u \in User, NEW m \in NewRows(u)
    PROVE  m \in Membership /\ m.user = u /\ ~m.active
<1>1. PICK i \in Row :
        m = [id |-> i, user |-> u, role |-> "viewer", active |-> FALSE]
    BY DEF NewRows
<1>2. "viewer" \in Roles
    BY DEF Roles
<1>3. QED
    BY <1>1, <1>2 DEF Membership

(* The rows that are restored or promoted for a user: all are typed rows   *)
(* of that user, and one that is not in the table means the user has none. *)
LEMMA RestoredRow ==
    ASSUME TypeOK, NEW u \in User, NEW m \in RowsToRestore(u), ActiveRows(u) = {}
    PROVE  /\ m \in Membership
           /\ m.user = u
           /\ ~m.active
           /\ m \notin rows => \A n \in rows : n.user # u
<1>1. CASE DeletedRows(u) # {}
    BY <1>1 DEF RowsToRestore, DeletedRows, TypeOK, Membership
<1>2. CASE DeletedRows(u) = {}
    <2>1. m \in NewRows(u)
        BY <1>2 DEF RowsToRestore
    <2>2. m \in Membership /\ m.user = u /\ ~m.active
        BY <2>1, NewRow
    <2>3. ASSUME NEW n \in rows PROVE n.user # u
        BY <1>2, <2>3 DEF ActiveRows, DeletedRows
    <2>4. QED
        BY <2>2, <2>3
<1>3. QED
    BY <1>1, <1>2

LEMMA PromotedRow ==
    ASSUME TypeOK, NEW u \in User, NEW m \in RowsToPromote(u)
    PROVE  /\ m \in Membership
           /\ m.user = u
           /\ m \notin rows => \A n \in rows : n.user # u
<1>1. CASE ActiveRows(u) \cup DeletedRows(u) # {}
    BY <1>1 DEF RowsToPromote, ActiveRows, DeletedRows, TypeOK, Membership
<1>2. CASE ActiveRows(u) \cup DeletedRows(u) = {}
    <2>1. m \in NewRows(u)
        BY <1>2 DEF RowsToPromote
    <2>2. m \in Membership /\ m.user = u
        BY <2>1, NewRow
    <2>3. ASSUME NEW n \in rows PROVE n.user # u
        BY <1>2, <2>3 DEF ActiveRows, DeletedRows
    <2>4. QED
        BY <2>2, <2>3
<1>3. QED
    BY <1>1, <1>2

(* Rewriting a row of a user, or inserting the user's only row, keeps one  *)
(* row per user.                                                           *)
LEMMA RewriteKeepsOneRow ==
    ASSUME NEW rs, NEW m, NEW n,
           \A x, y \in rs : x.user = y.user => x = y,
           n.user = m.user,
           m \notin rs => \A x \in rs : x.user # m.user
    PROVE  \A x, y \in Rewrite(rs, m, n) : x.user = y.user => x = y
BY DEF Rewrite

(* One row per user and owner rows of one user only satisfy both unique    *)
(* constraints, so the database refuses no statement.                      *)
LEMMA NoConflict ==
    ASSUME NEW rs,
           \A x, y \in rs : x.user = y.user => x = y,
           \A x, y \in rs : (x.active /\ y.active /\ x.role = "owner" /\ y.role = "owner")
                                => x.user = y.user
    PROVE  UniqueActive(rs)
BY DEF UniqueActive

-----------------------------------------------------------------------------
(* What a request that reached its service carries.                        *)
LEMMA RequestFields ==
    ASSUME TypeOK, NEW c \in Client, request[c] # NoRequest
    PROVE  /\ request[c].op = "update_project" => request[c].public \in BOOLEAN
           /\ request[c].op \in {"transfer", "add_member"} => request[c].user \in User
           /\ request[c].op \in {"add_member", "update_member"} => request[c].role \in Roles
<1>1. request[c] \in Request
    BY DEF TypeOK
<1>2. QED
    BY <1>1, AskedRolesAssumption DEF Request

LEMMA AnswerTyped ==
    ASSUME TypeOK, NEW c \in Client, NEW r \in Replies, Answer(c, r)
    PROVE  /\ request' \in [Client -> Request \cup {NoRequest}]
           /\ reply' \in [Client -> Replies]
BY DEF TypeOK, Answer

LEMMA RefuseTyped ==
    ASSUME TypeOK, NEW c \in Client, NEW r \in Replies, Refuse(c, r)
    PROVE  TypeOK'
BY AnswerTyped DEF TypeOK, Refuse, db

LEMMA SaveRowTyped ==
    ASSUME TypeOK, NEW c \in Client, NEW m, NEW n \in Membership, SaveRow(c, m, n)
    PROVE  TypeOK'
<1>0. "ok" \in Replies /\ "integrity_error" \in Replies
    BY DEF Replies
<1>1. CASE Refuse(c, "integrity_error")
    BY <1>0, <1>1, RefuseTyped
<1>2. CASE /\ rows' = Rewrite(rows, m, n)
           /\ UNCHANGED <<phase, owner, public>>
           /\ Answer(c, "ok")
    <2>1. rows' \subseteq Membership
        BY <1>2 DEF TypeOK, Rewrite
    <2>2. QED
        BY <1>0, <1>2, <2>1, AnswerTyped DEF TypeOK
<1>3. QED
    BY <1>1, <1>2 DEF SaveRow

(* The rewritten forms of a row are rows of the same user.                 *)
LEMMA GrantedRow ==
    ASSUME NEW m \in Membership, NEW role \in Roles
    PROVE  /\ Granted(m, role) \in Membership
           /\ Granted(m, role).user = m.user
           /\ Granted(m, role).active
           /\ Granted(m, role).role = role
BY DEF Membership, Granted

LEMMA DemotedRow ==
    ASSUME NEW m \in Membership
    PROVE  /\ Demoted(m) \in Membership
           /\ Demoted(m).user = m.user
           /\ Demoted(m).role = "manager"
           /\ Demoted(m).active = m.active
BY DEF Membership, Demoted, Roles

LEMMA RemovedRow ==
    ASSUME NEW m \in Membership
    PROVE  /\ Removed(m) \in Membership
           /\ Removed(m).user = m.user
           /\ Removed(m).role = m.role
           /\ ~Removed(m).active
           /\ ~m.active => Removed(m) = m
BY DEF Membership, Removed

LEMMA ReroledRow ==
    ASSUME NEW m \in Membership, NEW role \in Roles
    PROVE  /\ [m EXCEPT !.role = role] \in Membership
           /\ [m EXCEPT !.role = role].user = m.user
           /\ [m EXCEPT !.role = role].role = role
           /\ [m EXCEPT !.role = role].active = m.active
BY DEF Membership

-----------------------------------------------------------------------------
(* What a service step can amount to.  It refuses and changes nothing but  *)
(* the answer; or it rewrites one row of a user who is not the owner; or   *)
(* it moves the ownership.                                                 *)

Refused(c) == \E r \in Replies \ {"inconsistent", "integrity_error"} : Refuse(c, r)

NotOwnersRow(m, n) ==
    /\ m \in Membership /\ n \in Membership
    /\ n.user = m.user
    /\ m.user # owner
    /\ n.role # "owner"
    /\ m \notin rows => \A x \in rows : x.user # m.user

RowChanged(c, m, n) ==
    /\ phase = "live"
    /\ NotOwnersRow(m, n)
    /\ rows' = Rewrite(rows, m, n)
    /\ UNCHANGED <<phase, owner, public>>
    /\ Answer(c, "ok")

OwnerMoved(c, old, new) ==
    /\ phase = "live"
    /\ old \in OwnerRows /\ old.user = owner
    /\ new \in Membership /\ new.user # owner
    /\ new \notin rows => \A x \in rows : x.user # new.user
    /\ rows' = Rewrite(Rewrite(rows, old, Demoted(old)), new, Granted(new, "owner"))
    /\ owner' = new.user
    /\ UNCHANGED <<phase, public>>
    /\ Answer(c, "ok")

(* The owner of a live project has an active row, and only he has one with *)
(* the owner role.                                                         *)
LEMMA OwnersRow ==
    ASSUME IInv, phase = "live"
    PROVE  /\ \E m \in rows : m.active /\ m.role = "owner" /\ m.user = owner
           /\ \A m \in rows : (m.active /\ m.role = "owner") => m.user = owner
<1>1. {m.user : m \in OwnerRows} = {owner}
    BY DEF IInv, OwnerMatchesMembership
<1>2. \A m \in OwnerRows : m.user = owner
    BY <1>1
<1>3. \E m \in OwnerRows : m.user = owner
    BY <1>1
<1>4. QED
    BY <1>2, <1>3 DEF OwnerRows

(* Such a row change never meets a unique constraint.                      *)
LEMMA RowChangeCommits ==
    ASSUME IInv, phase = "live", NEW c \in Client, NEW m, NEW n,
           NotOwnersRow(m, n), SaveRow(c, m, n)
    PROVE  RowChanged(c, m, n)
<1> DEFINE rs == Rewrite(rows, m, n)
<1>1. \A x, y \in rs : x.user = y.user => x = y
    BY RewriteKeepsOneRow DEF IInv, OneRowPerUser, NotOwnersRow
<1>2. \A x \in rs : (x.active /\ x.role = "owner") => x.user = owner
    BY OwnersRow DEF NotOwnersRow, Rewrite
<1>3. UniqueActive(rs)
    BY <1>1, <1>2, NoConflict
<1>4. QED
    BY <1>3 DEF SaveRow, RowChanged

LEMMA AddMemberStep ==
    ASSUME IInv, NEW c \in Client, AddMember(c)
    PROVE  \/ Refused(c)
           \/ \E m, n : RowChanged(c, m, n)
<1> DEFINE q == request[c]
<1>1. phase = "live" /\ TypeOK
    BY OwnerIsCurrent DEF IInv, AddMember, Authorised
<1>2. q.user \in User /\ q.role \in Roles
    BY <1>1, RequestFields DEF AddMember, Authorised
<1>3. CASE Refuse(c, "invalid_role") \/ Refuse(c, "duplicate_membership")
    BY <1>3 DEF Refused, Replies
<1>4. ASSUME q.role # "owner", RoleOf(q.user) = NoRole,
             NEW m \in RowsToRestore(q.user), SaveRow(c, m, Granted(m, q.role))
      PROVE  RowChanged(c, m, Granted(m, q.role))
    <2>1. ActiveRows(q.user) = {}
        BY <1>1, <1>4, NoRoleNoRow
    <2>2. q.user # owner
        BY <1>1, <2>1, OwnersRow DEF ActiveRows
    <2>3. /\ m \in Membership /\ m.user = q.user
          /\ m \notin rows => \A x \in rows : x.user # q.user
        BY <1>1, <1>2, <1>4, <2>1, RestoredRow
    <2>4. NotOwnersRow(m, Granted(m, q.role))
        BY <1>2, <1>4, <2>2, <2>3, GrantedRow DEF NotOwnersRow
    <2>5. QED
        BY <1>1, <1>4, <2>4, RowChangeCommits
<1>5. QED
    BY <1>3, <1>4 DEF AddMember

(* A row that is active and not the owner's row belongs to somebody else.  *)
LEMMA OthersRow ==
    ASSUME IInv, phase = "live", NEW m \in rows, m.role # "owner"
    PROVE  m \in Membership /\ m.user # owner
BY OwnersRow DEF IInv, TypeOK, OneRowPerUser

LEMMA UpdateMemberStep ==
    ASSUME IInv, NEW c \in Client, UpdateMember(c)
    PROVE  \/ Refused(c)
           \/ \E m, n : RowChanged(c, m, n)
<1> DEFINE q == request[c]
<1>1. phase = "live" /\ TypeOK
    BY OwnerIsCurrent DEF IInv, UpdateMember, Authorised
<1>2. q.role \in Roles
    BY <1>1, RequestFields DEF UpdateMember, Authorised
<1>3. CASE \/ Refuse(c, "not_found") \/ Refuse(c, "invalid_role")
           \/ Refuse(c, "owner_required")
    BY <1>3 DEF Refused, Replies
<1>4. ASSUME q.role # "owner", NEW m \in LockedActiveMembership(q.row), m.role # "owner",
             SaveRow(c, m, [m EXCEPT !.role = q.role])
      PROVE  RowChanged(c, m, [m EXCEPT !.role = q.role])
    <2>1. m \in rows /\ m \in Membership /\ m.user # owner
        BY <1>1, <1>4, OthersRow DEF LockedActiveMembership
    <2>2. NotOwnersRow(m, [m EXCEPT !.role = q.role])
        BY <1>2, <1>4, <2>1, ReroledRow DEF NotOwnersRow
    <2>3. QED
        BY <1>1, <1>4, <2>2, RowChangeCommits
<1>5. QED
    BY <1>3, <1>4 DEF UpdateMember

LEMMA RemoveMemberStep ==
    ASSUME IInv, NEW c \in Client, RemoveMember(c)
    PROVE  \/ Refused(c)
           \/ \E m, n : RowChanged(c, m, n)
<1> DEFINE q == request[c]
<1>1. phase = "live" /\ TypeOK
    BY OwnerIsCurrent DEF IInv, RemoveMember, Authorised
<1>2. CASE Refuse(c, "not_found") \/ Refuse(c, "owner_required")
    BY <1>2 DEF Refused, Replies
<1>3. ASSUME NEW m \in LockedActiveMembership(q.row), m.role # "owner",
             SaveRow(c, m, Removed(m))
      PROVE  RowChanged(c, m, Removed(m))
    <2>1. m \in rows /\ m \in Membership /\ m.user # owner
        BY <1>1, <1>3, OthersRow DEF LockedActiveMembership
    <2>2. Removed(m).role # "owner" /\ Removed(m) \in Membership /\ Removed(m).user = m.user
        BY <1>3, <2>1, RemovedRow
    <2>3. NotOwnersRow(m, Removed(m))
        BY <2>1, <2>2 DEF NotOwnersRow
    <2>4. QED
        BY <1>1, <1>3, <2>3, RowChangeCommits
<1>4. QED
    BY <1>2, <1>3 DEF RemoveMember

(* Demoting the old owner first leaves no owner row, so promoting the new  *)
(* one meets no constraint either.                                         *)
LEMMA MoveOwnershipCommits ==
    ASSUME IInv, phase = "live", NEW c \in Client,
           NEW old \in OwnerRows, old.user = owner,
           NEW new \in Membership, new.user # owner,
           new \notin rows => \A x \in rows : x.user # new.user,
           MoveOwnership(c, old, new)
    PROVE  OwnerMoved(c, old, new)
<1> DEFINE demoted  == Rewrite(rows, old, Demoted(old))
           promoted == Rewrite(demoted, new, Granted(new, "owner"))
<1>1. old \in rows /\ old \in Membership
    BY DEF OwnerRows, IInv, TypeOK
<1>2. \A x, y \in rows : x.user = y.user => x = y
    BY DEF IInv, OneRowPerUser
<1>3. Demoted(old).user = old.user /\ Demoted(old).role = "manager"
    BY <1>1, DemotedRow
<1>4. "owner" \in Roles
    BY DEF Roles
<1>5. Granted(new, "owner").user = new.user
    BY <1>4, GrantedRow
<1>6. \A x, y \in demoted : x.user = y.user => x = y
    BY <1>1, <1>2, <1>3, RewriteKeepsOneRow
<1>7. \A x \in demoted : ~(x.active /\ x.role = "owner")
    BY <1>1, <1>2, <1>3, OwnersRow DEF Rewrite
<1>8. UniqueActive(demoted)
    BY <1>6, <1>7, NoConflict
<1>9. new \notin demoted => \A x \in demoted : x.user # new.user
    BY <1>3 DEF Rewrite
<1>10. \A x, y \in promoted : x.user = y.user => x = y
    BY <1>5, <1>6, <1>9, RewriteKeepsOneRow
<1>11. \A x \in promoted : (x.active /\ x.role = "owner") => x.user = new.user
    BY <1>5, <1>7 DEF Rewrite
<1>12. UniqueActive(promoted)
    BY <1>10, <1>11, NoConflict
<1>13. QED
    BY <1>8, <1>12 DEF MoveOwnership, OwnerMoved

LEMMA TransferStep ==
    ASSUME IInv, NEW c \in Client, TransferOwnership(c)
    PROVE  \/ Refused(c)
           \/ \E old, new : OwnerMoved(c, old, new)
<1> DEFINE q == request[c]
<1>1. phase = "live" /\ TypeOK
    BY OwnerIsCurrent DEF IInv, TransferOwnership, Authorised
<1>2. q.user \in User
    BY <1>1, RequestFields DEF TransferOwnership, Authorised
<1>3. CASE Refuse(c, "conflict")
    BY <1>3 DEF Refused, Replies
<1>4. ASSUME q.user # owner, NEW old \in OwnerRows, NEW new \in RowsToPromote(q.user),
             MoveOwnership(c, old, new)
      PROVE  OwnerMoved(c, old, new)
    <2>1. old.user = owner
        BY <1>1, OwnersRow DEF OwnerRows
    <2>2. /\ new \in Membership /\ new.user = q.user
          /\ new \notin rows => \A x \in rows : x.user # q.user
        BY <1>1, <1>2, <1>4, PromotedRow
    <2>3. QED
        BY <1>1, <1>4, <2>1, <2>2, MoveOwnershipCommits
<1>5. \E old \in OwnerRows : old.user = owner
    BY <1>1, OwnersRow DEF OwnerRows
<1>6. QED
    BY <1>3, <1>4, <1>5 DEF TransferOwnership

-----------------------------------------------------------------------------
(* The invariant survives each kind of step.                               *)

LEMMA RefusedKeepsInv ==
    ASSUME IInv, NEW c \in Client, Refused(c)
    PROVE  IInv'
<1>1. TypeOK'
    BY RefuseTyped DEF IInv, Refused
<1>2. UNCHANGED db
    BY DEF Refused, Refuse
<1>3. QED
    BY <1>1, <1>2
    DEF IInv, db, OneRowPerUser, OwnerMatchesMembership, OwnerRows, OnlyLiveHasMembers

LEMMA RowChangedKeepsInv ==
    ASSUME IInv, NEW c \in Client, NEW m, NEW n, RowChanged(c, m, n)
    PROVE  IInv'
<1>1. TypeOK'
    <2>1. rows' \subseteq Membership
        BY DEF RowChanged, NotOwnersRow, Rewrite, IInv, TypeOK
    <2>2. "ok" \in Replies
        BY DEF Replies
    <2>3. QED
        BY <2>1, <2>2, AnswerTyped DEF RowChanged, IInv, TypeOK
<1>2. OneRowPerUser'
    BY RewriteKeepsOneRow DEF IInv, OneRowPerUser, RowChanged, NotOwnersRow
<1>3. OwnerRows' = OwnerRows
    BY OwnersRow DEF RowChanged, NotOwnersRow, OwnerRows, Rewrite
<1>4. OwnerMatchesMembership'
    BY <1>3 DEF IInv, OwnerMatchesMembership, RowChanged
<1>5. OnlyLiveHasMembers'
    BY DEF RowChanged, OnlyLiveHasMembers
<1>6. QED
    BY <1>1, <1>2, <1>4, <1>5 DEF IInv

LEMMA OwnerMovedKeepsInv ==
    ASSUME IInv, NEW c \in Client, NEW old, NEW new, OwnerMoved(c, old, new)
    PROVE  IInv'
<1> DEFINE demoted == Rewrite(rows, old, Demoted(old))
<1>0. "owner" \in Roles /\ "ok" \in Replies
    BY DEF Roles, Replies
<1>1. old \in rows /\ old \in Membership /\ new \in Membership
    BY DEF OwnerMoved, OwnerRows, IInv, TypeOK
<1>2. /\ Demoted(old) \in Membership
      /\ Demoted(old).user = old.user /\ Demoted(old).role = "manager"
    BY <1>1, DemotedRow
<1>3. /\ Granted(new, "owner") \in Membership
      /\ Granted(new, "owner").user = new.user
      /\ Granted(new, "owner").active
      /\ Granted(new, "owner").role = "owner"
    BY <1>0, <1>1, GrantedRow
<1>4. TypeOK'
    <2>1. rows' \subseteq Membership
        BY <1>2, <1>3 DEF OwnerMoved, Rewrite, IInv, TypeOK
    <2>2. new.user \in User
        BY <1>1 DEF Membership
    <2>3. QED
        BY <1>0, <2>1, <2>2, AnswerTyped DEF OwnerMoved, IInv, TypeOK
<1>5. \A x, y \in demoted : x.user = y.user => x = y
    BY <1>1, <1>2, RewriteKeepsOneRow DEF IInv, OneRowPerUser
<1>6. \A x \in demoted : ~(x.active /\ x.role = "owner")
    BY <1>1, <1>2, OwnersRow DEF Rewrite, OwnerMoved, IInv, OneRowPerUser
<1>7. new \notin demoted => \A x \in demoted : x.user # new.user
    BY <1>2 DEF Rewrite, OwnerMoved
<1>8. OneRowPerUser'
    BY <1>3, <1>5, <1>7, RewriteKeepsOneRow DEF OneRowPerUser, OwnerMoved
<1>9. OwnerRows' = {Granted(new, "owner")}
    BY <1>3, <1>6 DEF OwnerRows, OwnerMoved, Rewrite
<1>10. OwnerMatchesMembership'
    BY <1>3, <1>9 DEF OwnerMatchesMembership, OwnerMoved
<1>11. OnlyLiveHasMembers'
    BY DEF OwnerMoved, OnlyLiveHasMembers
<1>12. QED
    BY <1>4, <1>8, <1>10, <1>11 DEF IInv

LEMMA UpdateProjectKeepsInv ==
    ASSUME IInv, NEW c \in Client, UpdateProject(c)
    PROVE  IInv'
<1>1. public' \in BOOLEAN
    BY RequestFields DEF UpdateProject, Authorised, IInv
<1>2. "ok" \in Replies
    BY DEF Replies
<1>3. TypeOK'
    BY <1>1, <1>2, AnswerTyped DEF UpdateProject, IInv, TypeOK
<1>4. QED
    BY <1>3 DEF IInv, UpdateProject, OneRowPerUser, OwnerMatchesMembership, OwnerRows,
                OnlyLiveHasMembers

LEMMA DeleteProjectKeepsInv ==
    ASSUME IInv, NEW c \in Client, DeleteProject(c)
    PROVE  IInv'
<1>1. \A m \in rows : /\ m \in Membership
                      /\ Removed(m) \in Membership
                      /\ Removed(m).user = m.user
                      /\ ~Removed(m).active
    BY RemovedRow DEF IInv, TypeOK
<1>2. "ok" \in Replies
    BY DEF Replies
<1>3. TypeOK'
    BY <1>1, <1>2, AnswerTyped DEF DeleteProject, IInv, TypeOK
<1>4. OneRowPerUser'
    BY <1>1 DEF IInv, DeleteProject, OneRowPerUser
<1>5. QED
    BY <1>1, <1>3, <1>4 DEF IInv, DeleteProject, OwnerMatchesMembership, OnlyLiveHasMembers

LEMMA CreateProjectKeepsInv ==
    ASSUME IInv, NEW c \in Client, NEW u \in User, NEW visibility \in BOOLEAN,
           CreateProject(c, u, visibility)
    PROVE  IInv'
<1>1. PICK m \in NewRows(u) : rows' = {Granted(m, "owner")}
    BY DEF CreateProject
<1>2. "owner" \in Roles /\ "ok" \in Replies
    BY DEF Roles, Replies
<1>3. m \in Membership /\ m.user = u
    BY NewRow DEF IInv
<1>4. /\ Granted(m, "owner") \in Membership
      /\ Granted(m, "owner").user = u
      /\ Granted(m, "owner").active
      /\ Granted(m, "owner").role = "owner"
    BY <1>2, <1>3, GrantedRow
<1>5. TypeOK'
    BY <1>1, <1>2, <1>4 DEF CreateProject, IInv, TypeOK
<1>6. OneRowPerUser'
    BY <1>1 DEF OneRowPerUser
<1>7. OwnerRows' = {Granted(m, "owner")}
    BY <1>1, <1>4 DEF OwnerRows
<1>8. OwnerMatchesMembership'
    BY <1>4, <1>7 DEF OwnerMatchesMembership, CreateProject
<1>9. OnlyLiveHasMembers'
    BY DEF OnlyLiveHasMembers, CreateProject
<1>10. QED
    BY <1>5, <1>6, <1>8, <1>9 DEF IInv

LEMMA ReceiveKeepsInv ==
    ASSUME IInv, NEW c \in Client, NEW q \in Request, Receive(c, q)
    PROVE  IInv'
<1>1. "none" \in Replies /\ "not_found" \in Replies
    BY DEF Replies
<1>2. TypeOK'
    BY <1>1 DEF Receive, IInv, TypeOK, db
<1>3. QED
    BY <1>2 DEF Receive, IInv, db, OneRowPerUser, OwnerMatchesMembership, OwnerRows,
                OnlyLiveHasMembers

(* Every service step is one of the kinds above.                           *)
LEMMA ServeSteps ==
    ASSUME IInv, NEW c \in Client, Serve(c)
    PROVE  \/ Refused(c)
           \/ UpdateProject(c)
           \/ DeleteProject(c)
           \/ \E m, n : RowChanged(c, m, n)
           \/ \E old, new : OwnerMoved(c, old, new)
<1>1. CASE Forbid(c)
    BY <1>1 DEF Forbid, Refused, Replies
<1>2. QED
    BY <1>1, AddMemberStep, UpdateMemberStep, RemoveMemberStep, TransferStep DEF Serve

LEMMA InvInit == Init => IInv
<1> SUFFICES ASSUME Init PROVE IInv
    OBVIOUS
<1>1. TypeOK
    BY DEF Init, TypeOK, Replies
<1>2. QED
    BY <1>1 DEF Init, IInv, OneRowPerUser, OwnerMatchesMembership, OnlyLiveHasMembers

LEMMA InvNext == IInv /\ [Next]_vars => IInv'
<1> SUFFICES ASSUME IInv, [Next]_vars PROVE IInv'
    OBVIOUS
<1>1. CASE UNCHANGED vars
    BY <1>1 DEF vars, IInv, TypeOK, OneRowPerUser, OwnerMatchesMembership, OwnerRows,
                OnlyLiveHasMembers
<1>2. ASSUME NEW c \in Client, NEW u \in User, NEW visibility \in BOOLEAN,
             CreateProject(c, u, visibility)
      PROVE  IInv'
    BY <1>2, CreateProjectKeepsInv
<1>3. ASSUME NEW c \in Client, NEW q \in Request, Receive(c, q)
      PROVE  IInv'
    BY <1>3, ReceiveKeepsInv
<1>4. ASSUME NEW c \in Client, Serve(c)
      PROVE  IInv'
    BY <1>4, ServeSteps, RefusedKeepsInv, UpdateProjectKeepsInv, DeleteProjectKeepsInv,
       RowChangedKeepsInv, OwnerMovedKeepsInv
<1>5. QED
    BY <1>1, <1>2, <1>3, <1>4 DEF Next

(* The state of a project and its requests is well typed in every          *)
(* reachable state.                                                        *)
THEOREM TypeCorrect == Spec => []TypeOK
<1>1. IInv => TypeOK
    BY DEF IInv
<1>2. QED
    BY <1>1, InvInit, InvNext, PTL DEF Spec

(* However the requests interleave, a user never gets two rows: adding a   *)
(* member again restores the row that removing him left behind.            *)
THEOREM RowsAreUnique == Spec => []OneRowPerUser
<1>1. IInv => OneRowPerUser
    BY DEF IInv
<1>2. QED
    BY <1>1, InvInit, InvNext, PTL DEF Spec

(* A live project has exactly one owner row, and it is the row of the user *)
(* in its owner column, after every transfer, removal and role change.     *)
THEOREM OwnerAndRowsAgree == Spec => []OwnerMatchesMembership
<1>1. IInv => OwnerMatchesMembership
    BY DEF IInv
<1>2. QED
    BY <1>1, InvInit, InvNext, PTL DEF Spec

(* A deleted project has no active member, although a request that saw it  *)
(* alive may be waiting for its lock.                                      *)
THEOREM DeletedProjectsAreEmpty == Spec => []NoMembersAfterDelete
<1>1. IInv => NoMembersAfterDelete
    BY DEF IInv, OnlyLiveHasMembers, NoMembersAfterDelete
<1>2. QED
    BY <1>1, InvInit, InvNext, PTL DEF Spec

-----------------------------------------------------------------------------
(* A finished request has given its worker back.                           *)
LEMMA AnswerEnds ==
    ASSUME TypeOK, NEW c \in Client, NEW r, Answer(c, r)
    PROVE  request'[c] = NoRequest /\ reply'[c] = r
           /\ \A d \in Client \ {c} : reply'[d] = reply[d]
BY DEF Answer, TypeOK

LEMMA DefensiveStep ==
    IInv /\ DefensiveBranchesUnreachable /\ [Next]_vars => DefensiveBranchesUnreachable'
<1> SUFFICES ASSUME IInv, DefensiveBranchesUnreachable, [Next]_vars
             PROVE  DefensiveBranchesUnreachable'
    OBVIOUS
<1> USE DEF DefensiveBranchesUnreachable
<1>1. CASE UNCHANGED vars
    BY <1>1 DEF vars
<1>2. ASSUME NEW c \in Client, NEW u \in User, NEW visibility \in BOOLEAN,
             CreateProject(c, u, visibility)
      PROVE  DefensiveBranchesUnreachable'
    BY <1>2 DEF CreateProject, IInv, TypeOK
<1>3. ASSUME NEW c \in Client, NEW q \in Request, Receive(c, q)
      PROVE  DefensiveBranchesUnreachable'
    BY <1>3 DEF Receive, IInv, TypeOK
<1>4. ASSUME NEW c \in Client, Serve(c)
      PROVE  DefensiveBranchesUnreachable'
    <2>1. \E r \in Replies \ {"inconsistent", "integrity_error"} : Answer(c, r)
        <3>1. "ok" \in Replies \ {"inconsistent", "integrity_error"}
            BY DEF Replies
        <3>2. QED
            BY <1>4, <3>1, ServeSteps
            DEF Refused, Refuse, UpdateProject, DeleteProject, RowChanged, OwnerMoved
    <2>2. QED
        BY <2>1, AnswerEnds DEF IInv
<1>5. QED
    BY <1>1, <1>2, <1>3, <1>4 DEF Next

(* No request is ever answered from the branches that handle an            *)
(* inconsistent owner row or a violated unique constraint.                 *)
THEOREM DefensiveBranchesDead == Spec => []DefensiveBranchesUnreachable
<1>1. Init => DefensiveBranchesUnreachable
    BY DEF Init, DefensiveBranchesUnreachable
<1>2. QED
    BY <1>1, InvInit, InvNext, DefensiveStep, PTL DEF Spec

(* Every change of an existing project is committed by its owner at that   *)
(* moment, whatever its view saw.                                          *)
THEOREM CommitsByCurrentOwner == Spec => CommittedByCurrentOwner
<1> DEFINE OwnerCommits ==
        (db' # db /\ phase # "absent") =>
            \E c \in Client :
                /\ request[c] # NoRequest
                /\ request'[c] = NoRequest
                /\ request[c].actor = owner
                /\ phase = "live"
<1>1. IInv /\ [Next]_vars => [OwnerCommits]_vars
    <2> SUFFICES ASSUME IInv, Next, db' # db, phase # "absent"
                 PROVE  OwnerCommits
        OBVIOUS
    <2>1. PICK c \in Client : Serve(c)
        BY DEF Next, CreateProject, Receive
    <2>2. ~Forbid(c)
        BY DEF Forbid, Refuse
    <2>3. request[c] # NoRequest /\ EnsureOwner(request[c].actor)
        BY <2>1, <2>2 DEF Serve, UpdateProject, DeleteProject, AddMember, UpdateMember,
                          RemoveMember, TransferOwnership, Authorised
    <2>4. request[c].actor = owner /\ phase = "live"
        BY <2>3, OwnerIsCurrent
    <2>5. \E r : Answer(c, r)
        BY <2>1, ServeSteps
        DEF Refused, Refuse, UpdateProject, DeleteProject, RowChanged, OwnerMoved
    <2>6. request'[c] = NoRequest
        BY <2>5, AnswerEnds DEF IInv
    <2>7. QED
        BY <2>3, <2>4, <2>6
<1>2. QED
    BY <1>1, InvInit, InvNext, PTL DEF Spec, CommittedByCurrentOwner

(* A saved statement touches no row but its own.                           *)
LEMMA OneRowSaved ==
    ASSUME NEW c, NEW x, NEW n, SaveRow(c, x, n), NEW m \in rows, m \notin rows'
    PROVE  m = x
BY DEF SaveRow, Refuse, db, Rewrite

(* A removed membership is only ever brought back, or touched at all, by   *)
(* adding its user or making him owner.                                    *)
THEOREM RemovedRowsStayFrozen == Spec => RemovedRowsAreFrozen
<1> DEFINE ReviverOf(m, c) ==
        /\ request[c] # NoRequest
        /\ request'[c] = NoRequest
        /\ request[c].op \in {"add_member", "transfer"}
        /\ request[c].user = m.user
           Frozen == \A m \in rows : (~m.active /\ m \notin rows') =>
                        \E c \in Client : ReviverOf(m, c)
<1>1. IInv /\ [Next]_vars => [Frozen]_vars
    <2> SUFFICES ASSUME IInv, Next, NEW m \in rows, ~m.active, m \notin rows'
                 PROVE  \E c \in Client : ReviverOf(m, c)
        OBVIOUS
    <2>1. PICK c \in Client : Serve(c)
        BY DEF Next, CreateProject, Receive, db, IInv, OnlyLiveHasMembers
    <2>2. m \in Membership
        BY DEF IInv, TypeOK
    <2>3. \E r : Answer(c, r)
        BY <2>1, ServeSteps
        DEF Refused, Refuse, UpdateProject, DeleteProject, RowChanged, OwnerMoved
    <2>4. request'[c] = NoRequest
        BY <2>3, AnswerEnds DEF IInv
    <2>5. \A r : ~Refuse(c, r)
        BY DEF Refuse, db
    <2>6. ~UpdateProject(c) /\ ~Forbid(c)
        BY <2>5 DEF UpdateProject, Forbid
    <2>7. ~DeleteProject(c)
        BY <2>2, RemovedRow DEF DeleteProject
    <2>8. ~UpdateMember(c) /\ ~RemoveMember(c)
        BY <2>5, OneRowSaved DEF UpdateMember, RemoveMember, LockedActiveMembership
    <2>9. CASE AddMember(c)
        <3>1. request[c].user \in User
            BY <2>9, RequestFields DEF AddMember, Authorised, IInv
        <3>2. RoleOf(request[c].user) = NoRole
            BY <2>5, <2>9 DEF AddMember
        <3>3. ActiveRows(request[c].user) = {}
            BY <2>9, <3>2, OwnerIsCurrent, NoRoleNoRow DEF AddMember, Authorised, IInv
        <3>4. m \in RowsToRestore(request[c].user)
            BY <2>5, <2>9, OneRowSaved DEF AddMember
        <3>5. m.user = request[c].user
            BY <3>1, <3>3, <3>4, RestoredRow DEF IInv
        <3>6. QED
            BY <2>4, <2>9, <3>5 DEF AddMember, Authorised
    <2>10. CASE TransferOwnership(c)
        <3>1. request[c].user \in User
            BY <2>10, RequestFields DEF TransferOwnership, Authorised, IInv
        <3>2. PICK old \in OwnerRows, new \in RowsToPromote(request[c].user) :
                MoveOwnership(c, old, new)
            BY <2>5, <2>10 DEF TransferOwnership
        <3>3. m = new
            BY <2>5, <3>2 DEF MoveOwnership, Rewrite, OwnerRows
        <3>4. m.user = request[c].user
            BY <3>1, <3>2, <3>3, PromotedRow DEF IInv
        <3>5. QED
            BY <2>4, <2>10, <3>4 DEF TransferOwnership, Authorised
    <2>11. QED
        BY <2>1, <2>6, <2>7, <2>8, <2>9, <2>10 DEF Serve
<1>2. QED
    BY <1>1, InvInit, InvNext, PTL DEF Spec, RemovedRowsAreFrozen

-----------------------------------------------------------------------------
(* The refinement of Ownership.                                            *)

OneRow(rs) == \A x, y \in rs : x.user = y.user => x = y

LEMMA RoleOfRow ==
    ASSUME NEW rs, OneRow(rs), NEW m \in rs
    PROVE  RoleIn(rs, m.user) = IF m.active THEN m.role ELSE NoRole
BY DEF RoleIn, OneRow

LEMMA RoleOfNobody ==
    ASSUME NEW rs, NEW u, \A m \in rs : m.user # u
    PROVE  RoleIn(rs, u) = NoRole
BY DEF RoleIn

(* Rewriting one user's row changes nobody else's role.                    *)
LEMMA RoleAfterRewrite ==
    ASSUME NEW rs, OneRow(rs), NEW m, NEW n, n.user = m.user,
           m \notin rs => \A x \in rs : x.user # m.user
    PROVE  /\ OneRow(Rewrite(rs, m, n))
           /\ RoleIn(Rewrite(rs, m, n), m.user) = IF n.active THEN n.role ELSE NoRole
           /\ \A u : u # m.user => RoleIn(Rewrite(rs, m, n), u) = RoleIn(rs, u)
<1> DEFINE new == Rewrite(rs, m, n)
<1>1. OneRow(new)
    BY RewriteKeepsOneRow DEF OneRow
<1>2. n \in new
    BY DEF Rewrite
<1>3. RoleIn(new, m.user) = IF n.active THEN n.role ELSE NoRole
    BY <1>1, <1>2, RoleOfRow
<1>4. ASSUME NEW u, u # m.user PROVE RoleIn(new, u) = RoleIn(rs, u)
    <2>1. \A x : x.user = u => (x \in new <=> x \in rs)
        BY <1>4 DEF Rewrite
    <2>2. CASE \E x \in rs : x.user = u
        <3>1. PICK x \in rs : x.user = u
            BY <2>2
        <3>2. x \in new
            BY <2>1, <3>1
        <3>3. QED
            BY <1>1, <3>1, <3>2, RoleOfRow
    <2>3. CASE \A x \in rs : x.user # u
        BY <2>1, <2>3, RoleOfNobody
    <2>4. QED
        BY <2>2, <2>3
<1>5. QED
    BY <1>1, <1>3, <1>4

(* Ownership's copy of the role table is this module's.                    *)
LEMMA SameRoles == Abstract!NoRole = NoRole /\ Abstract!Roles = Roles
BY DEF NoRole, Roles, Abstract!NoRole, Abstract!Roles

LEMMA RowChangedImplements ==
    ASSUME IInv, NEW c, NEW m, NEW n, RowChanged(c, m, n)
    PROVE  Abstract!AbsNext
<1> DEFINE role == IF n.active THEN n.role ELSE NoRole
<1>1. m.user \in User /\ role \in (Roles \ {"owner"}) \cup {NoRole}
    BY DEF RowChanged, NotOwnersRow, Membership
<1>2. \A u \in User : RoleIn(rows', u) = IF u = m.user THEN role ELSE RoleIn(rows, u)
    BY RoleAfterRewrite DEF RowChanged, NotOwnersRow, IInv, OneRowPerUser, OneRow
<1>3. Members' = [Members EXCEPT ![m.user] = role]
    BY <1>1, <1>2 DEF Members
<1>4. Abstract!SetRole(m.user, role)
    BY <1>1, <1>3, SameRoles DEF Abstract!SetRole, RowChanged, NotOwnersRow
<1>5. QED
    BY <1>1, <1>4, SameRoles DEF Abstract!AbsNext, Roles, NoRole

LEMMA OwnerMovedImplements ==
    ASSUME IInv, NEW c, NEW old, NEW new, OwnerMoved(c, old, new)
    PROVE  Abstract!AbsNext
<1> DEFINE demoted == Rewrite(rows, old, Demoted(old))
           granted == Granted(new, "owner")
<1>1. /\ old \in rows /\ old \in Membership /\ old.active /\ old.user = owner
      /\ new \in Membership /\ new.user \in User /\ new.user # owner
      /\ owner \in User
    BY DEF OwnerMoved, OwnerRows, IInv, TypeOK, Membership
<1>2. "owner" \in Roles
    BY DEF Roles
<1>3. /\ Demoted(old).user = owner
      /\ Demoted(old).role = "manager"
      /\ Demoted(old).active
    BY <1>1, DemotedRow
<1>4. granted.user = new.user /\ granted.active /\ granted.role = "owner"
    BY <1>1, <1>2, GrantedRow
<1>5. /\ OneRow(demoted)
      /\ RoleIn(demoted, owner) = "manager"
      /\ \A u : u # owner => RoleIn(demoted, u) = RoleIn(rows, u)
    BY <1>1, <1>3, RoleAfterRewrite DEF IInv, OneRowPerUser, OneRow
<1>6. new \notin demoted => \A x \in demoted : x.user # new.user
    BY <1>1, <1>3 DEF Rewrite, OwnerMoved
<1>7. /\ RoleIn(rows', new.user) = "owner"
      /\ \A u : u # new.user => RoleIn(rows', u) = RoleIn(demoted, u)
    BY <1>4, <1>5, <1>6, RoleAfterRewrite DEF OwnerMoved
<1>8. \A u \in User : RoleIn(rows', u) = IF u = new.user THEN "owner"
                                        ELSE IF u = owner THEN "manager"
                                        ELSE RoleIn(rows, u)
    BY <1>5, <1>7
<1>9. Members' = [Members EXCEPT ![owner] = "manager", ![new.user] = "owner"]
    BY <1>1, <1>8 DEF Members
<1>10. Abstract!Transfer(new.user)
    BY <1>1, <1>9 DEF Abstract!Transfer, OwnerMoved
<1>11. QED
    BY <1>1, <1>10 DEF Abstract!AbsNext

LEMMA DeleteImplements ==
    ASSUME IInv, NEW c \in Client, DeleteProject(c)
    PROVE  Abstract!AbsNext
<1>1. \A m \in rows' : ~m.active
    BY RemovedRow DEF DeleteProject, IInv, TypeOK
<1>2. Members' = [u \in User |-> NoRole]
    BY <1>1 DEF Members, RoleIn
<1>3. Abstract!Delete
    BY <1>2, OwnerIsCurrent, SameRoles DEF Abstract!Delete, DeleteProject, Authorised
<1>4. QED
    BY <1>3 DEF Abstract!AbsNext

LEMMA CreateImplements ==
    ASSUME IInv, NEW c, NEW u \in User, NEW visibility, CreateProject(c, u, visibility)
    PROVE  Abstract!AbsNext
<1>1. PICK m \in NewRows(u) : rows' = {Granted(m, "owner")}
    BY DEF CreateProject
<1>2. m \in Membership /\ m.user = u /\ "owner" \in Roles
    BY NewRow DEF IInv, Roles
<1>3. /\ Granted(m, "owner").user = u
      /\ Granted(m, "owner").active
      /\ Granted(m, "owner").role = "owner"
    BY <1>2, GrantedRow
<1>4. rows = {}
    BY DEF IInv, OnlyLiveHasMembers, CreateProject
<1>5. \A v \in User : RoleIn(rows, v) = NoRole
    BY <1>4, RoleOfNobody
<1>6. OneRow(rows')
    BY <1>1 DEF OneRow
<1>7. RoleIn(rows', u) = "owner"
    BY <1>1, <1>3, <1>6, RoleOfRow
<1>8. \A v \in User : v # u => RoleIn(rows', v) = NoRole
    BY <1>1, <1>3, RoleOfNobody
<1>9. Members' = [Members EXCEPT ![u] = "owner"]
    BY <1>5, <1>7, <1>8 DEF Members
<1>10. Abstract!Create(u)
    BY <1>9 DEF Abstract!Create, CreateProject
<1>11. QED
    BY <1>10 DEF Abstract!AbsNext

(* Every behaviour of the row-level services under concurrent requests is, *)
(* seen through the active memberships, a behaviour of Ownership.          *)
THEOREM MembershipImplementsOwnership == Spec => ImplementsOwnership
<1>1. Init => Abstract!AbsInit
    <2> SUFFICES ASSUME Init PROVE Abstract!AbsInit
        OBVIOUS
    <2>1. Members = [u \in User |-> NoRole]
        BY DEF Init, Members, RoleIn
    <2>2. QED
        BY <2>1, SameRoles DEF Init, Abstract!AbsInit
<1>2. IInv /\ [Next]_vars => [Abstract!AbsNext]_(Abstract!absVars)
    <2> SUFFICES ASSUME IInv, [Next]_vars
                 PROVE  Abstract!AbsNext \/ UNCHANGED Abstract!absVars
        OBVIOUS
    <2>1. CASE UNCHANGED vars
        BY <2>1 DEF vars, Abstract!absVars, Members
    <2>2. ASSUME NEW c \in Client, NEW u \in User, NEW visibility \in BOOLEAN,
                 CreateProject(c, u, visibility)
          PROVE  Abstract!AbsNext
        BY <2>2, CreateImplements
    <2>3. ASSUME NEW c \in Client, NEW q \in Request, Receive(c, q)
          PROVE  UNCHANGED Abstract!absVars
        BY <2>3 DEF Receive, db, Abstract!absVars, Members
    <2>4. ASSUME NEW c \in Client, Refused(c) \/ UpdateProject(c)
          PROVE  UNCHANGED Abstract!absVars
        BY <2>4 DEF Refused, Refuse, UpdateProject, db, Abstract!absVars, Members
    <2>5. ASSUME NEW c \in Client, Serve(c)
          PROVE  Abstract!AbsNext \/ UNCHANGED Abstract!absVars
        BY <2>4, <2>5, ServeSteps, DeleteImplements, RowChangedImplements, OwnerMovedImplements
    <2>6. QED
        BY <2>1, <2>2, <2>3, <2>5 DEF Next
<1>3. QED
    BY <1>1, <1>2, InvInit, InvNext, PTL DEF Spec, ImplementsOwnership, Abstract!AbsSpec
=============================================================================
