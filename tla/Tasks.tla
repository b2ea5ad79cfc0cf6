------------------------------- MODULE Tasks -------------------------------
(***************************************************************************)
(* Tasks, comments and watchers of one project (src/apps/tasks) while its  *)
(* members change under them.                                              *)
(*                                                                         *)
(* The project is the environment: Ownership says how members come and go, *)
(* and its state, visibility and comment policy change at any time.  A     *)
(* request is a view step, which looks the objects up without a lock, and  *)
(* a service step in one transaction.  lock_task and lock_comment join the *)
(* project into their SELECT ... FOR UPDATE, so that every service below   *)
(* holds the project row when it reads the role of its caller, and is one  *)
(* step.                                                                   *)
(*                                                                         *)
(* Titles, texts, priorities and due dates are left out, and so are audit  *)
(* rows.  Whether a watcher row is restored or inserted makes no           *)
(* difference here; watching is the set of active ones.                    *)
(***************************************************************************)
EXTENDS Ownership

CONSTANTS
    Task,       \* task ids the database can hand out
    Comment,    \* comment ids
    Client,     \* request workers
    AskedRoles, \* bound: the roles that members are given
    AskedOps,   \* bound: the operations that requests ask for
    Settings,   \* bound: the project fields that change
    None        \* no task, comment, request, or no assignee in a request

VARIABLES
    open,           \* Project.state = ACTIVE
    public,         \* Project.visibility = PUBLIC
    anyoneComments, \* Project.public_comment_policy = AUTHENTICATED_USERS
    tasks,          \* task id -> its row, or None
    comments,       \* comment id -> its row, or None
    watching,       \* the active watcher rows
    notices,        \* the users that the last step sent a notification
    request         \* worker -> the request its view let through, or None

project == <<phase, owner, members, open, public, anyoneComments>>
objects == <<tasks, comments, watching>>
vars    == <<project, objects, notices, request>>

TaskRow    == [status: Statuses, assignee: User, deleted: BOOLEAN]
CommentRow == [task: Task, author: User, deleted: BOOLEAN]

Request ==
    [op: {"create_task"}, actor: User, assignee: User]
        \cup [op: {"update_task"}, actor: User, task: Task, assignee: User \cup {None}]
        \cup [op: {"transition_task"}, actor: User, task: Task, target: Statuses]
        \cup [op: {"delete_task", "create_comment", "watch_task", "unwatch_task"},
              actor: User, task: Task]
        \cup [op: {"update_comment", "delete_comment"}, actor: User, comment: Comment]

ASSUME NoneAssumption ==
    /\ None \notin User
    /\ None \notin TaskRow
    /\ None \notin CommentRow
    /\ None \notin Request
ASSUME AskedRolesAssumption == AskedRoles \subseteq Roles

TypeOK ==
    /\ phase \in {"absent", "live", "deleted"}
    /\ owner \in User \cup {NoUser}
    /\ members \in [User -> Roles \cup {NoRole}]
    /\ open \in BOOLEAN /\ public \in BOOLEAN /\ anyoneComments \in BOOLEAN
    /\ tasks \in [Task -> TaskRow \cup {None}]
    /\ comments \in [Comment -> CommentRow \cup {None}]
    /\ watching \subseteq Task \X User
    /\ notices \subseteq User
    /\ request \in [Client -> Request \cup {None}]

Init ==
    /\ AbsInit
    /\ open = TRUE
    /\ public \in BOOLEAN
    /\ anyoneComments \in BOOLEAN
    /\ tasks = [t \in Task |-> None]
    /\ comments = [k \in Comment |-> None]
    /\ watching = {}
    /\ notices = {}
    /\ request = [c \in Client |-> None]

-----------------------------------------------------------------------------
(* The project changes.  Staff requests and jobs that were under way can   *)
(* still close or publish it after it was deleted (module Lifecycle).      *)

MembersChange ==
    /\ \/ \E u \in User : Create(u) \/ Transfer(u)
       \/ \E u \in User, role \in AskedRoles \cup {NoRole} : SetRole(u, role)
       \/ Delete
    /\ UNCHANGED <<open, public, anyoneComments, objects, request>>
    /\ notices' = {}

SettingsChange ==
    /\ phase # "absent"
    /\ open' \in IF "open" \in Settings THEN BOOLEAN ELSE {open}
    /\ public' \in IF "public" \in Settings THEN BOOLEAN ELSE {public}
    /\ anyoneComments' \in IF "policy" \in Settings THEN BOOLEAN ELSE {anyoneComments}
    /\ UNCHANGED <<phase, owner, members, objects, request>>
    /\ notices' = {}

-----------------------------------------------------------------------------
(* The view step.                                                          *)

TaskExists(t)    == tasks[t] # None /\ ~tasks[t].deleted
CommentExists(k) == comments[k] # None /\ ~comments[k].deleted

(* project_for_user_or_404, then task_for_user_or_404 and comment_for_task. *)
Reachable(q) ==
    /\ phase = "live"
    /\ CanReadTask(members[q.actor], public)
    /\ CASE q.op = "create_task" -> TRUE
         [] q.op \in {"update_comment", "delete_comment"} ->
                CommentExists(q.comment) /\ TaskExists(comments[q.comment].task)
         [] OTHER -> TaskExists(q.task)

Receive(c, q) ==
    /\ request[c] = None
    /\ Reachable(q)
    /\ request' = [request EXCEPT ![c] = q]
    /\ notices' = {}
    /\ UNCHANGED <<project, objects>>

-----------------------------------------------------------------------------
(* The service step.                                                       *)

(* Mutant of CanWrite: the role alone decides. *)
CanWriteClosed(u) == members[u] \in WritableTaskRoles

CanWrite(u)   == CanWriteTask(members[u], open)
CanComment(u) == CanCommentTask(members[u], public, anyoneComments)
IsMember(u)   == members[u] # NoRole

(* Mutant of ActiveWatchers: former members are not left out. *)
AllWatchers(t) == {u \in User : <<t, u>> \in watching}

(* active_watchers_for_task: watchers who still are members. *)
ActiveWatchers(t) == {u \in User : <<t, u>> \in watching /\ IsMember(u)}

(* Mutant of LockTask: the row is locked whatever became of it. *)
LockAnyTask(t) == tasks[t] # None

(* lock_task and lock_comment: the row is read again under the lock, and   *)
(* DoesNotExist is raised for one that was deleted in the meantime.        *)
LockTask(t)    == TaskExists(t)
LockComment(k) == CommentExists(k)

(* Mutant of ValidAssignee: any account will do. *)
AnyAssignee(u) == TRUE

ValidAssignee(u) == IsMember(u)

(* Everything a service checks before it writes. *)
Permitted(q) ==
    CASE q.op = "create_task" -> CanWrite(q.actor) /\ ValidAssignee(q.assignee)
      [] q.op = "update_task" ->
            /\ LockTask(q.task)
            /\ CanWrite(q.actor)
            /\ q.assignee # None => ValidAssignee(q.assignee)
      [] q.op = "transition_task" ->
            /\ LockTask(q.task)
            /\ CanWrite(q.actor)
            /\ IsTransitionAllowed(tasks[q.task].status, q.target)
      [] q.op = "delete_task" -> LockTask(q.task) /\ CanWrite(q.actor)
      [] q.op = "create_comment" -> LockTask(q.task) /\ CanComment(q.actor)
      [] q.op = "update_comment" ->
            LockComment(q.comment) /\ comments[q.comment].author = q.actor
      [] q.op = "delete_comment" ->
            /\ LockComment(q.comment)
            /\ CanDeleteComment(q.actor, members[q.actor], comments[q.comment].author)
      [] OTHER -> LockTask(q.task) /\ IsMember(q.actor)

Answer(c, op) ==
    /\ request[c] # None
    /\ request[c].op = op
    /\ Permitted(request[c])
    /\ request' = [request EXCEPT ![c] = None]
    /\ UNCHANGED project

Refuse(c) ==
    /\ request[c] # None
    /\ ~Permitted(request[c])
    /\ request' = [request EXCEPT ![c] = None]
    /\ notices' = {}
    /\ UNCHANGED <<project, objects>>

NotifyWatchers(q, t) == notices' = ActiveWatchers(t) \ {q.actor}

CreateTask(c) ==
    /\ Answer(c, "create_task")
    /\ LET q == request[c] IN
        \E t \in {x \in Task : tasks[x] = None} :
            /\ tasks' = [tasks EXCEPT ![t] =
                    [status |-> "new", assignee |-> q.assignee, deleted |-> FALSE]]
            /\ watching' = watching \cup {<<t, q.actor>>, <<t, q.assignee>>}
            /\ notices' = {q.assignee} \ {q.actor}
            /\ UNCHANGED comments

(* Mutant of Reassigns: a request that names no assignee clears it. *)
ReassignsToNobody(q, t) == q.assignee # tasks[t].assignee

Reassigns(q, t) == q.assignee \notin {None, tasks[t].assignee}

(* A new assignee watches the task and is told of the assignment, the      *)
(* other watchers of the update.  An update that names no field at all     *)
(* changes nothing and is left out.                                        *)
UpdateTask(c) ==
    /\ Answer(c, "update_task")
    /\ UNCHANGED comments
    /\ LET q == request[c]
           t == q.task
       IN  \/ /\ ~Reassigns(q, t)
              /\ NotifyWatchers(q, t)
              /\ UNCHANGED <<tasks, watching>>
           \/ /\ Reassigns(q, t)
              /\ tasks' = [tasks EXCEPT ![t].assignee = q.assignee]
              /\ watching' = watching \cup {<<t, q.assignee>>}
              /\ notices' = (ActiveWatchers(t) \cup {q.assignee}) \ {q.actor}

TransitionTask(c) ==
    /\ Answer(c, "transition_task")
    /\ LET q == request[c] IN
        /\ tasks' = [tasks EXCEPT ![q.task].status = q.target]
        /\ NotifyWatchers(q, q.task)
    /\ UNCHANGED <<comments, watching>>

SoftDeleteTask(c) ==
    /\ Answer(c, "delete_task")
    /\ LET q == request[c] IN
        /\ tasks' = [tasks EXCEPT ![q.task].deleted = TRUE]
        /\ NotifyWatchers(q, q.task)
    /\ UNCHANGED <<comments, watching>>

CreateComment(c) ==
    /\ Answer(c, "create_comment")
    /\ LET q == request[c] IN
        \E k \in {x \in Comment : comments[x] = None} :
            /\ comments' = [comments EXCEPT ![k] =
                    [task |-> q.task, author |-> q.actor, deleted |-> FALSE]]
            /\ NotifyWatchers(q, q.task)
    /\ UNCHANGED <<tasks, watching>>

UpdateComment(c) ==
    /\ Answer(c, "update_comment")
    /\ NotifyWatchers(request[c], comments[request[c].comment].task)
    /\ UNCHANGED objects

SoftDeleteComment(c) ==
    /\ Answer(c, "delete_comment")
    /\ LET q == request[c] IN
        /\ comments' = [comments EXCEPT ![q.comment].deleted = TRUE]
        /\ NotifyWatchers(q, comments[q.comment].task)
    /\ UNCHANGED <<tasks, watching>>

WatchTask(c) ==
    /\ Answer(c, "watch_task")
    /\ watching' = watching \cup {<<request[c].task, request[c].actor>>}
    /\ notices' = {}
    /\ UNCHANGED <<tasks, comments>>

UnwatchTask(c) ==
    /\ Answer(c, "unwatch_task")
    /\ watching' = watching \ {<<request[c].task, request[c].actor>>}
    /\ notices' = {}
    /\ UNCHANGED <<tasks, comments>>

Serve(c) ==
    \/ Refuse(c) \/ CreateTask(c) \/ UpdateTask(c) \/ TransitionTask(c)
    \/ SoftDeleteTask(c) \/ CreateComment(c) \/ UpdateComment(c)
    \/ SoftDeleteComment(c) \/ WatchTask(c) \/ UnwatchTask(c)

Next ==
    \/ MembersChange
    \/ SettingsChange
    \/ \E c \in Client, q \in {x \in Request : x.op \in AskedOps} : Receive(c, q)
    \/ \E c \in Client : Serve(c)

Spec == Init /\ [][Next]_vars

-----------------------------------------------------------------------------
(* The request that the step of a worker answers.                          *)
Answered(c) == request[c] # None /\ request'[c] = None

(* Whatever its view saw, a request changes a task only if its caller may  *)
(* write tasks when it commits: the project is live and open, and the      *)
(* caller's role has not been taken away or lowered.                       *)
WritersOnly ==
    [][tasks' # tasks =>
        \E c \in Client :
            /\ Answered(c)
            /\ phase = "live"
            /\ open
            /\ members[request[c].actor] \in {"owner", "manager", "member"}]_vars

(* A task is only ever given to somebody who is a member at that moment,   *)
(* also when the removal overtakes the assignment.                         *)
AssignedWhileMember ==
    [][\A t \in Task :
        (tasks'[t] # None /\ (tasks[t] = None \/ tasks'[t].assignee # tasks[t].assignee))
            => members[tasks'[t].assignee] # NoRole]_vars

(* Two requests that both saw the task in the same status cannot take it   *)
(* along two transitions of that status: the second starts from the first. *)
WorkflowRespected ==
    [][\A t \in Task :
        (tasks[t] # None /\ tasks'[t].status # tasks[t].status)
            => tasks'[t].status \in AllowedTransitions[tasks[t].status]]_vars

(* Nothing brings a deleted task back or changes it, not even a request    *)
(* whose view saw it before.                                               *)
DeletedTasksAreFinal ==
    [][\A t \in Task : (tasks[t] # None /\ tasks[t].deleted) => tasks'[t] = tasks[t]]_vars

(* A comment is written by a member or where the project lets everybody    *)
(* comment, and deleted by its author, a manager or the owner, all as they *)
(* are when it happens.                                                    *)
CommentAuthority ==
    [][\A k \in Comment : comments'[k] # comments[k] =>
        \E c \in Client :
            LET actor == request[c].actor IN
                /\ Answered(c)
                /\ IF comments[k] = None
                   THEN members[actor] # NoRole \/ (public /\ anyoneComments)
                   ELSE \/ actor = comments[k].author
                        \/ members[actor] \in {"owner", "manager"}]_vars

(* Somebody who was removed from the project gets no more notifications    *)
(* of its tasks, although he may still watch or be assigned to them.       *)
NoticesGoToMembers == \A u \in notices : members[u] # NoRole

=============================================================================
