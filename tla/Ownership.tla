----------------------------- MODULE Ownership -----------------------------
(***************************************************************************)
(* What the membership services promise of one project, without rows,      *)
(* locks or requests: a project is created by its owner, has exactly one   *)
(* owner as long as it lives, ownership moves in one step that leaves the  *)
(* previous owner a manager, every other membership comes and goes one at  *)
(* a time, and deletion ends all of them for good.                         *)
(*                                                                         *)
(* Membership implements this specification.                               *)
(***************************************************************************)
EXTENDS Policies

CONSTANTS
    User,       \* the user accounts
    NoUser      \* the owner of a project that does not exist yet

VARIABLES
    phase,      \* "absent", then "live", then "deleted"
    owner,      \* Project.owner
    members     \* user -> role of the active membership, or NoRole

absVars == <<phase, owner, members>>

AbsInit ==
    /\ phase = "absent"
    /\ owner = NoUser
    /\ members = [u \in User |-> NoRole]

Create(u) ==
    /\ phase = "absent"
    /\ phase' = "live"
    /\ owner' = u
    /\ members' = [members EXCEPT ![u] = "owner"]

(* Add, change or remove the membership of somebody who is not the owner.  *)
SetRole(u, role) ==
    /\ phase = "live"
    /\ u # owner
    /\ role \in (Roles \ {"owner"}) \cup {NoRole}
    /\ members' = [members EXCEPT ![u] = role]
    /\ UNCHANGED <<phase, owner>>

Transfer(u) ==
    /\ phase = "live"
    /\ u # owner
    /\ owner' = u
    /\ members' = [members EXCEPT ![owner] = "manager", ![u] = "owner"]
    /\ UNCHANGED phase

Delete ==
    /\ phase = "live"
    /\ phase' = "deleted"
    /\ members' = [u \in User |-> NoRole]
    /\ UNCHANGED owner

AbsNext ==
    \/ \E u \in User : Create(u) \/ Transfer(u)
    \/ \E u \in User, role \in Roles \cup {NoRole} : SetRole(u, role)
    \/ Delete

AbsSpec == AbsInit /\ [][AbsNext]_absVars
=============================================================================
