------------------------------ MODULE Policies ------------------------------
(***************************************************************************)
(* The permission tables of the ticketing backend: which project role      *)
(* allows which action, what staff may do without a membership, which      *)
(* roles may write tasks, comment, and delete other people's comments, and *)
(* the task workflow.  Everything here is a pure operator; the components  *)
(* evaluate it on the state they read under the project row lock.          *)
(*                                                                         *)
(* A membership is represented by its role, and a missing one (the None    *)
(* that membership_for_user returns) by NoRole.                            *)
(***************************************************************************)
Roles  == {"owner", "manager", "member", "viewer"}
NoRole == "none"

OwnerActions == {"read", "manage_members", "delete", "schedule",
                 "transfer", "audit", "close", "reopen"}
StaffActions == {"schedule", "close", "reopen"}
RoleActions  == [r \in Roles |-> IF r = "owner" THEN OwnerActions ELSE {"read"}]

RoleAllowsAction(role, action) == role \in Roles /\ action \in RoleActions[role]
StaffAllowsAction(action) == action \in StaffActions

CanReadProject(role) == RoleAllowsAction(role, "read")

(* Ownership is decided twice: by the project row and by the membership.   *)
IsProjectOwner(actor, owner, role) == actor = owner /\ role = "owner"

(* Scheduling, closing and reopening: active staff need no membership.     *)
CanLifecycle(isStaff, isOwner, action) ==
    IF isStaff THEN StaffAllowsAction(action) ELSE isOwner

-----------------------------------------------------------------------------
WritableTaskRoles == {"owner", "manager", "member"}
CommentRoles      == Roles

CanReadTask(role, public) == role \in Roles \/ public

CanWriteTask(role, open) == open /\ role \in WritableTaskRoles

CanCommentTask(role, public, anyoneComments) ==
    role \in CommentRoles \/ (public /\ anyoneComments)

(* Mutant of CanDeleteComment: any member may. *)
AnyMemberDeletes(actor, role, author) == actor = author \/ role \in Roles

CanDeleteComment(actor, role, author) ==
    actor = author \/ role \in {"owner", "manager"}

CanDeleteAttachment(actor, role, uploader) ==
    actor = uploader \/ role \in {"owner", "manager"}

-----------------------------------------------------------------------------
Statuses == {"new", "accepted", "in_progress", "on_hold", "completed", "cancelled"}

AllowedTransitions ==
    [s \in Statuses |->
        CASE s = "new"         -> {"accepted", "cancelled"}
          [] s = "accepted"    -> {"in_progress", "on_hold", "cancelled"}
          [] s = "in_progress" -> {"on_hold", "completed", "cancelled"}
          [] s = "on_hold"     -> {"in_progress", "cancelled"}
          [] OTHER             -> {"accepted"}]

(* Mutant of IsTransitionAllowed: any other status may follow. *)
AnyOtherStatus(current, target) == target # current

IsTransitionAllowed(current, target) == target \in AllowedTransitions[current]
=============================================================================
