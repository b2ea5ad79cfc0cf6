----------------------------- MODULE TaskProofs -----------------------------
(***************************************************************************)
(* The safety properties of Tasks for every number of users, tasks,        *)
(* comments and requests, and for everything the membership services may   *)
(* do to the project (module Ownership).                                   *)
(*                                                                         *)
(* A service asks for the role of its caller only.  That this is enough    *)
(* for "only in a live project" needs that nobody has a role in a project  *)
(* that is not live.                                                       *)
(***************************************************************************)
EXTENDS Tasks, TLAPS

MembersOnlyWhileLive == phase # "live" => \A u \in User : members[u] = NoRole

IInv == TypeOK /\ MembersOnlyWhileLive /\ NoticesGoToMembers

-----------------------------------------------------------------------------
(* What the request of each operation carries.                             *)
LEMMA RequestFields ==
    ASSUME NEW q \in Request
    PROVE  /\ q.actor \in User
           /\ q.op = "create_task" => q.assignee \in User
           /\ q.op = "update_task" => q.task \in Task /\ q.assignee \in User \cup {None}
           /\ q.op = "transition_task" => q.task \in Task /\ q.target \in Statuses
           /\ q.op \in {"delete_task", "create_comment", "watch_task", "unwatch_task"}
                => q.task \in Task
           /\ q.op \in {"update_comment", "delete_comment"} => q.comment \in Comment
BY DEF Request

LEMMA IInvInit == Init => IInv
<1> SUFFICES ASSUME Init PROVE IInv
    OBVIOUS
<1>1. TypeOK
    BY DEF Init, AbsInit, TypeOK
<1>2. QED
    BY <1>1 DEF Init, AbsInit, IInv, MembersOnlyWhileLive, NoticesGoToMembers

(* The environment: members and settings change, requests arrive.          *)
LEMMA MembersKeepIInv == ASSUME IInv, MembersChange PROVE IInv'
<1>1. /\ phase' \in {"absent", "live", "deleted"}
      /\ owner' \in User \cup {NoUser}
      /\ members' \in [User -> Roles \cup {NoRole}]
      /\ MembersOnlyWhileLive'
    <2>1. ASSUME NEW u \in User, Create(u) PROVE <1>1!:
        BY <2>1 DEF Create, IInv, TypeOK, MembersOnlyWhileLive, Roles
    <2>2. ASSUME NEW u \in User, Transfer(u) PROVE <1>1!:
        BY <2>2 DEF Transfer, IInv, TypeOK, MembersOnlyWhileLive, Roles
    <2>3. ASSUME NEW u \in User, NEW role \in AskedRoles \cup {NoRole}, SetRole(u, role)
          PROVE  <1>1!:
        BY <2>3, AskedRolesAssumption DEF SetRole, IInv, TypeOK, MembersOnlyWhileLive
    <2>4. CASE Delete
        BY <2>4 DEF Delete, IInv, TypeOK, MembersOnlyWhileLive
    <2>5. QED
        BY <2>1, <2>2, <2>3, <2>4 DEF MembersChange
<1>2. TypeOK'
    BY <1>1 DEF MembersChange, objects, IInv, TypeOK
<1>3. QED
    BY <1>1, <1>2 DEF MembersChange, IInv, NoticesGoToMembers

LEMMA SettingsKeepIInv == ASSUME IInv, SettingsChange PROVE IInv'
BY DEF SettingsChange, objects, IInv, TypeOK, MembersOnlyWhileLive, NoticesGoToMembers

LEMMA ReceiveKeepsIInv ==
    ASSUME IInv, NEW c \in Client, NEW q \in Request, Receive(c, q)
    PROVE  IInv'
BY DEF Receive, project, objects, IInv, TypeOK, MembersOnlyWhileLive, NoticesGoToMembers

-----------------------------------------------------------------------------
(* The services.                                                           *)

(* An answered request was permitted, and leaves the project as it is.     *)
LEMMA AnswerSteps ==
    ASSUME IInv, NEW c \in Client, NEW op, Answer(c, op)
    PROVE  /\ request[c] \in Request /\ request[c].op = op /\ Permitted(request[c])
           /\ request[c].actor \in User
           /\ Answered(c)
           /\ request' \in [Client -> Request \cup {None}]
           /\ UNCHANGED project
BY RequestFields DEF Answer, Answered, IInv, TypeOK

(* What a service writes as notices goes to members.                       *)
LEMMA WatchersAreMembers ==
    ASSUME NEW q, NEW t, NotifyWatchers(q, t)
    PROVE  notices' \subseteq {u \in User : IsMember(u)}
BY DEF NotifyWatchers, ActiveWatchers

(* What is left to show of a service once its objects are typed.           *)
LEMMA ServedKeepsIInv ==
    ASSUME IInv, NEW c \in Client, NEW op, Answer(c, op),
           tasks' \in [Task -> TaskRow \cup {None}],
           comments' \in [Comment -> CommentRow \cup {None}],
           watching' \subseteq Task \X User,
           notices' \subseteq {u \in User : IsMember(u)}
    PROVE  IInv'
<1>1. UNCHANGED project /\ request' \in [Client -> Request \cup {None}]
    BY AnswerSteps
<1>2. TypeOK'
    BY <1>1 DEF project, IInv, TypeOK
<1>3. QED
    BY <1>1, <1>2 DEF project, IInv, MembersOnlyWhileLive, NoticesGoToMembers, IsMember

LEMMA CreateTaskKeepsIInv ==
    ASSUME IInv, NEW c \in Client, CreateTask(c)
    PROVE  IInv'
<1> DEFINE q == request[c]
<1>1. Answer(c, "create_task")
    BY DEF CreateTask
<1>2. q.actor \in User /\ q.assignee \in User /\ IsMember(q.assignee)
    BY <1>1, AnswerSteps, RequestFields DEF Permitted, ValidAssignee
<1>3. PICK t \in Task :
        /\ tasks' = [tasks EXCEPT ![t] =
                [status |-> "new", assignee |-> q.assignee, deleted |-> FALSE]]
        /\ watching' = watching \cup {<<t, q.actor>>, <<t, q.assignee>>}
        /\ notices' = {q.assignee} \ {q.actor}
        /\ UNCHANGED comments
    BY DEF CreateTask
<1>4. [status |-> "new", assignee |-> q.assignee, deleted |-> FALSE] \in TaskRow
    BY <1>2 DEF TaskRow, Statuses
<1>5. tasks' \in [Task -> TaskRow \cup {None}]
    BY <1>3, <1>4 DEF IInv, TypeOK
<1>6. watching' \subseteq Task \X User /\ comments' \in [Comment -> CommentRow \cup {None}]
    BY <1>2, <1>3 DEF IInv, TypeOK
<1>7. QED
    BY <1>1, <1>2, <1>3, <1>5, <1>6, ServedKeepsIInv

LEMMA UpdateTaskKeepsIInv ==
    ASSUME IInv, NEW c \in Client, UpdateTask(c)
    PROVE  IInv'
<1> DEFINE q == request[c]
           t == q.task
<1>1. Answer(c, "update_task")
    BY DEF UpdateTask
<1>2. /\ q.actor \in User /\ t \in Task /\ TaskExists(t)
      /\ q.assignee # None => q.assignee \in User /\ IsMember(q.assignee)
    BY <1>1, AnswerSteps, RequestFields DEF Permitted, ValidAssignee, LockTask
<1>3. tasks[t] \in TaskRow
    BY <1>2 DEF IInv, TypeOK, TaskExists
<1>4. comments' \in [Comment -> CommentRow \cup {None}]
    BY DEF UpdateTask, IInv, TypeOK
<1>5. CASE ~Reassigns(q, t)
    <2>1. NotifyWatchers(q, t) /\ UNCHANGED <<tasks, watching>>
        BY <1>5 DEF UpdateTask
    <2>2. QED
        BY <1>1, <1>4, <2>1, WatchersAreMembers, ServedKeepsIInv DEF IInv, TypeOK
<1>6. CASE Reassigns(q, t)
    <2>1. /\ tasks' = [tasks EXCEPT ![t].assignee = q.assignee]
          /\ watching' = watching \cup {<<t, q.assignee>>}
          /\ notices' = (ActiveWatchers(t) \cup {q.assignee}) \ {q.actor}
        BY <1>6 DEF UpdateTask
    <2>2. q.assignee \in User /\ IsMember(q.assignee)
        BY <1>2, <1>6 DEF Reassigns
    <2>3. tasks' \in [Task -> TaskRow \cup {None}]
        BY <1>2, <1>3, <2>1, <2>2 DEF IInv, TypeOK, TaskRow
    <2>4. watching' \subseteq Task \X User
        BY <1>2, <2>1, <2>2 DEF IInv, TypeOK
    <2>5. notices' \subseteq {u \in User : IsMember(u)}
        BY <2>1, <2>2 DEF ActiveWatchers
    <2>6. QED
        BY <1>1, <1>4, <2>3, <2>4, <2>5, ServedKeepsIInv
<1>7. QED
    BY <1>5, <1>6

LEMMA TransitionTaskKeepsIInv ==
    ASSUME IInv, NEW c \in Client, TransitionTask(c)
    PROVE  IInv'
<1> DEFINE q == request[c]
<1>1. Answer(c, "transition_task") /\ NotifyWatchers(q, q.task)
    BY DEF TransitionTask
<1>2. q.task \in Task /\ q.target \in Statuses /\ TaskExists(q.task)
    BY <1>1, AnswerSteps, RequestFields DEF Permitted, LockTask
<1>3. tasks[q.task] \in TaskRow
    BY <1>2 DEF IInv, TypeOK, TaskExists
<1>4. tasks' \in [Task -> TaskRow \cup {None}]
    BY <1>2, <1>3 DEF TransitionTask, IInv, TypeOK, TaskRow
<1>5. QED
    BY <1>1, <1>4, WatchersAreMembers, ServedKeepsIInv DEF TransitionTask, IInv, TypeOK

LEMMA DeleteTaskKeepsIInv ==
    ASSUME IInv, NEW c \in Client, SoftDeleteTask(c)
    PROVE  IInv'
<1> DEFINE q == request[c]
<1>1. Answer(c, "delete_task") /\ NotifyWatchers(q, q.task)
    BY DEF SoftDeleteTask
<1>2. q.task \in Task /\ TaskExists(q.task)
    BY <1>1, AnswerSteps, RequestFields DEF Permitted, LockTask
<1>3. tasks[q.task] \in TaskRow
    BY <1>2 DEF IInv, TypeOK, TaskExists
<1>4. tasks' \in [Task -> TaskRow \cup {None}]
    BY <1>2, <1>3 DEF SoftDeleteTask, IInv, TypeOK, TaskRow
<1>5. QED
    BY <1>1, <1>4, WatchersAreMembers, ServedKeepsIInv DEF SoftDeleteTask, IInv, TypeOK

LEMMA CreateCommentKeepsIInv ==
    ASSUME IInv, NEW c \in Client, CreateComment(c)
    PROVE  IInv'
<1> DEFINE q == request[c]
<1>1. Answer(c, "create_comment")
    BY DEF CreateComment
<1>2. q.actor \in User /\ q.task \in Task
    BY <1>1, AnswerSteps, RequestFields
<1>3. PICK k \in Comment :
        /\ comments' = [comments EXCEPT ![k] =
                [task |-> q.task, author |-> q.actor, deleted |-> FALSE]]
        /\ NotifyWatchers(q, q.task)
    BY DEF CreateComment
<1>4. comments' \in [Comment -> CommentRow \cup {None}]
    BY <1>2, <1>3 DEF IInv, TypeOK, CommentRow
<1>5. QED
    BY <1>1, <1>3, <1>4, WatchersAreMembers, ServedKeepsIInv
    DEF CreateComment, IInv, TypeOK

LEMMA UpdateCommentKeepsIInv ==
    ASSUME IInv, NEW c \in Client, UpdateComment(c)
    PROVE  IInv'
BY WatchersAreMembers, ServedKeepsIInv DEF UpdateComment, objects, IInv, TypeOK

LEMMA DeleteCommentKeepsIInv ==
    ASSUME IInv, NEW c \in Client, SoftDeleteComment(c)
    PROVE  IInv'
<1> DEFINE k == request[c].comment
<1>1. Answer(c, "delete_comment") /\ NotifyWatchers(request[c], comments[k].task)
    BY DEF SoftDeleteComment
<1>2. k \in Comment /\ CommentExists(k)
    BY <1>1, AnswerSteps, RequestFields DEF Permitted, LockComment
<1>3. comments[k] \in CommentRow
    BY <1>2 DEF IInv, TypeOK, CommentExists
<1>4. comments' \in [Comment -> CommentRow \cup {None}]
    BY <1>2, <1>3 DEF SoftDeleteComment, IInv, TypeOK, CommentRow
<1>5. QED
    BY <1>1, <1>4, WatchersAreMembers, ServedKeepsIInv DEF SoftDeleteComment, IInv, TypeOK

LEMMA WatchKeepsIInv ==
    ASSUME IInv, NEW c \in Client, WatchTask(c) \/ UnwatchTask(c)
    PROVE  IInv'
<1>1. PICK op \in {"watch_task", "unwatch_task"} : Answer(c, op)
    BY DEF WatchTask, UnwatchTask
<1>2. request[c].actor \in User /\ request[c].task \in Task
    BY <1>1, AnswerSteps, RequestFields
<1>3. watching' \subseteq Task \X User
    BY <1>2 DEF WatchTask, UnwatchTask, IInv, TypeOK
<1>4. QED
    BY <1>1, <1>3, ServedKeepsIInv DEF WatchTask, UnwatchTask, IInv, TypeOK

LEMMA RefuseKeepsIInv ==
    ASSUME IInv, NEW c \in Client, Refuse(c)
    PROVE  IInv'
BY DEF Refuse, project, objects, IInv, TypeOK, MembersOnlyWhileLive, NoticesGoToMembers

LEMMA IInvNext == IInv /\ [Next]_vars => IInv'
<1> SUFFICES ASSUME IInv, [Next]_vars PROVE IInv'
    OBVIOUS
<1>1. CASE MembersChange
    BY <1>1, MembersKeepIInv
<1>2. CASE SettingsChange
    BY <1>2, SettingsKeepIInv
<1>3. ASSUME NEW c \in Client, NEW q \in Request, Receive(c, q) PROVE IInv'
    BY <1>3, ReceiveKeepsIInv
<1>4. ASSUME NEW c \in Client, Serve(c) PROVE IInv'
    BY <1>4, CreateTaskKeepsIInv, UpdateTaskKeepsIInv, TransitionTaskKeepsIInv,
       DeleteTaskKeepsIInv, CreateCommentKeepsIInv, UpdateCommentKeepsIInv,
       DeleteCommentKeepsIInv, WatchKeepsIInv, RefuseKeepsIInv DEF Serve
<1>5. CASE UNCHANGED vars
    BY <1>5 DEF vars, project, objects, IInv, TypeOK, MembersOnlyWhileLive,
                NoticesGoToMembers
<1>6. QED
    BY <1>1, <1>2, <1>3, <1>4, <1>5 DEF Next

-----------------------------------------------------------------------------
(* Type correctness, for any number of users, tasks, comments, requests.   *)
THEOREM TypeCorrect == Spec => []TypeOK
<1>1. IInv => TypeOK
    BY DEF IInv
<1>2. QED
    BY <1>1, IInvInit, IInvNext, PTL DEF Spec

(* No notification of a task goes to somebody who is not a member when it  *)
(* is sent, whatever he still watches or is assigned to.                   *)
THEOREM FormerMembersAreNotTold == Spec => []NoticesGoToMembers
<1>1. IInv => NoticesGoToMembers
    BY DEF IInv
<1>2. QED
    BY <1>1, IInvInit, IInvNext, PTL DEF Spec

-----------------------------------------------------------------------------
(* The four ways a task row changes: what each of them has checked, and    *)
(* what it leaves behind.                                                  *)
Created(t, q) ==
    tasks[t] = None /\ tasks'[t].assignee = q.assignee /\ ValidAssignee(q.assignee)

Reassigned(t, q) ==
    /\ TaskExists(t)
    /\ ValidAssignee(q.assignee)
    /\ tasks'[t] = [tasks[t] EXCEPT !.assignee = q.assignee]

Moved(t, q) ==
    /\ TaskExists(t)
    /\ q.target \in AllowedTransitions[tasks[t].status]
    /\ tasks'[t] = [tasks[t] EXCEPT !.status = q.target]

Discarded(t) ==
    TaskExists(t) /\ tasks'[t] = [tasks[t] EXCEPT !.deleted = TRUE]

TaskChange(t, c) ==
    /\ Answered(c)
    /\ request[c].actor \in User
    /\ CanWrite(request[c].actor)
    /\ \/ Created(t, request[c])
       \/ Reassigned(t, request[c])
       \/ Moved(t, request[c])
       \/ Discarded(t)

LEMMA HowTasksChange ==
    ASSUME IInv, Next, NEW t \in Task, tasks'[t] # tasks[t]
    PROVE  \E c \in Client : TaskChange(t, c)
<1>1. PICK c \in Client : CreateTask(c) \/ UpdateTask(c) \/ TransitionTask(c) \/ SoftDeleteTask(c)
    BY DEF Next, MembersChange, SettingsChange, Receive, Serve, Refuse, CreateComment,
           UpdateComment, SoftDeleteComment, WatchTask, UnwatchTask, objects
<1> DEFINE q == request[c]
<1>2. CASE CreateTask(c)
    <2>1. Answer(c, "create_task")
        BY <1>2 DEF CreateTask
    <2>2. Answered(c) /\ q.actor \in User /\ CanWrite(q.actor) /\ ValidAssignee(q.assignee)
        BY <2>1, AnswerSteps DEF Permitted
    <2>3. tasks[t] = None /\ tasks'[t].assignee = q.assignee
        BY <1>2 DEF CreateTask, IInv, TypeOK
    <2>4. QED
        BY <2>2, <2>3 DEF TaskChange, Created
<1>3. CASE UpdateTask(c)
    <2>1. Answer(c, "update_task")
        BY <1>3 DEF UpdateTask
    <2>2. Reassigns(q, q.task) /\ tasks' = [tasks EXCEPT ![q.task].assignee = q.assignee]
        BY <1>3 DEF UpdateTask
    <2>3. /\ Answered(c) /\ q.actor \in User /\ CanWrite(q.actor)
          /\ ValidAssignee(q.assignee) /\ TaskExists(q.task)
        BY <2>1, <2>2, AnswerSteps DEF Permitted, LockTask, Reassigns
    <2>4. q.task = t /\ tasks'[t] = [tasks[t] EXCEPT !.assignee = q.assignee]
        BY <2>2 DEF IInv, TypeOK
    <2>5. QED
        BY <2>3, <2>4 DEF TaskChange, Reassigned
<1>4. CASE TransitionTask(c)
    <2>1. Answer(c, "transition_task")
        BY <1>4 DEF TransitionTask
    <2>2. /\ Answered(c) /\ q.actor \in User /\ CanWrite(q.actor) /\ TaskExists(q.task)
          /\ q.target \in AllowedTransitions[tasks[q.task].status]
        BY <2>1, AnswerSteps DEF Permitted, LockTask, IsTransitionAllowed
    <2>3. q.task = t /\ tasks'[t] = [tasks[t] EXCEPT !.status = q.target]
        BY <1>4 DEF TransitionTask, IInv, TypeOK
    <2>4. QED
        BY <2>2, <2>3 DEF TaskChange, Moved
<1>5. CASE SoftDeleteTask(c)
    <2>1. Answer(c, "delete_task")
        BY <1>5 DEF SoftDeleteTask
    <2>2. Answered(c) /\ q.actor \in User /\ CanWrite(q.actor) /\ TaskExists(q.task)
        BY <2>1, AnswerSteps DEF Permitted, LockTask
    <2>3. q.task = t /\ tasks'[t] = [tasks[t] EXCEPT !.deleted = TRUE]
        BY <1>5 DEF SoftDeleteTask, IInv, TypeOK
    <2>4. QED
        BY <2>2, <2>3 DEF TaskChange, Discarded
<1>6. QED
    BY <1>1, <1>2, <1>3, <1>4, <1>5

(* Only who may write tasks in a live, open project when he commits        *)
(* changes one.                                                            *)
THEOREM TasksChangedByWriters == Spec => WritersOnly
<1> DEFINE ByWriter ==
        tasks' # tasks =>
            \E c \in Client :
                /\ Answered(c)
                /\ phase = "live"
                /\ open
                /\ members[request[c].actor] \in {"owner", "manager", "member"}
<1>1. IInv /\ [Next]_vars => [ByWriter]_vars
    <2> SUFFICES ASSUME IInv, Next, tasks' # tasks PROVE ByWriter
        OBVIOUS
    <2>1. PICK t \in Task : tasks'[t] # tasks[t]
        <3>1. IInv'
            BY IInvNext
        <3>2. QED
            BY <3>1 DEF IInv, TypeOK
    <2>2. PICK c \in Client : TaskChange(t, c)
        BY <2>1, HowTasksChange
    <2>3. Answered(c) /\ open /\ members[request[c].actor] \in {"owner", "manager", "member"}
        BY <2>2 DEF TaskChange, CanWrite, CanWriteTask, WritableTaskRoles
    <2>4. phase = "live"
        BY <2>2, <2>3 DEF TaskChange, IInv, MembersOnlyWhileLive, NoRole
    <2>5. QED
        BY <2>3, <2>4
<1>2. QED
    BY <1>1, IInvInit, IInvNext, PTL DEF Spec, WritersOnly

(* A task is given to members only.                                        *)
THEOREM AssignedToMembers == Spec => AssignedWhileMember
<1> DEFINE ToMembers ==
        \A t \in Task :
            (tasks'[t] # None
                /\ (tasks[t] = None \/ tasks'[t].assignee # tasks[t].assignee))
                => members[tasks'[t].assignee] # NoRole
<1>1. IInv /\ [Next]_vars => [ToMembers]_vars
    <2> SUFFICES ASSUME IInv, Next, NEW t \in Task, tasks'[t] # None,
                        tasks[t] = None \/ tasks'[t].assignee # tasks[t].assignee
                 PROVE  members[tasks'[t].assignee] # NoRole
        OBVIOUS
    <2>1. PICK c \in Client : TaskChange(t, c)
        BY HowTasksChange
    <2>2. TaskExists(t) => tasks[t] \in TaskRow
        BY DEF TaskExists, IInv, TypeOK
    <2>3. QED
        BY <2>1, <2>2 DEF TaskChange, Created, Reassigned, Moved, Discarded, TaskExists,
                          ValidAssignee, IsMember, TaskRow
<1>2. QED
    BY <1>1, IInvInit, IInvNext, PTL DEF Spec, AssignedWhileMember

(* Every change of a status is a transition of the workflow.               *)
THEOREM WorkflowIsKept == Spec => WorkflowRespected
<1> DEFINE Kept ==
        \A t \in Task :
            (tasks[t] # None /\ tasks'[t].status # tasks[t].status)
                => tasks'[t].status \in AllowedTransitions[tasks[t].status]
<1>1. IInv /\ [Next]_vars => [Kept]_vars
    <2> SUFFICES ASSUME IInv, Next, NEW t \in Task, tasks[t] # None,
                        tasks'[t].status # tasks[t].status
                 PROVE  tasks'[t].status \in AllowedTransitions[tasks[t].status]
        OBVIOUS
    <2>1. PICK c \in Client : TaskChange(t, c)
        BY HowTasksChange
    <2>2. tasks[t] \in TaskRow
        BY DEF IInv, TypeOK
    <2>3. QED
        BY <2>1, <2>2 DEF TaskChange, Created, Reassigned, Moved, Discarded, TaskRow
<1>2. QED
    BY <1>1, IInvInit, IInvNext, PTL DEF Spec, WorkflowRespected

(* A deleted task never changes again.                                     *)
THEOREM DeletedTasksStay == Spec => DeletedTasksAreFinal
<1> DEFINE Final ==
        \A t \in Task : (tasks[t] # None /\ tasks[t].deleted) => tasks'[t] = tasks[t]
<1>1. IInv /\ [Next]_vars => [Final]_vars
    BY HowTasksChange DEF TaskChange, Created, Reassigned, Moved, Discarded, TaskExists
<1>2. QED
    BY <1>1, IInvInit, IInvNext, PTL DEF Spec, DeletedTasksAreFinal

(* A comment is written by who may comment, and deleted by its author, a   *)
(* manager or the owner.                                                   *)
THEOREM CommentsByAuthority == Spec => CommentAuthority
<1> DEFINE May(k, c) ==
        /\ Answered(c)
        /\ IF comments[k] = None
           THEN members[request[c].actor] # NoRole \/ (public /\ anyoneComments)
           ELSE \/ request[c].actor = comments[k].author
                \/ members[request[c].actor] \in {"owner", "manager"}
           ByAuthority ==
        \A k \in Comment : comments'[k] # comments[k] => \E c \in Client : May(k, c)
<1>1. IInv /\ [Next]_vars => [ByAuthority]_vars
    <2> SUFFICES ASSUME IInv, Next, NEW k \in Comment, comments'[k] # comments[k]
                 PROVE  \E c \in Client : May(k, c)
        OBVIOUS
    <2>1. PICK c \in Client : CreateComment(c) \/ SoftDeleteComment(c)
        BY DEF Next, MembersChange, SettingsChange, Receive, Serve, Refuse, CreateTask,
               UpdateTask, TransitionTask, SoftDeleteTask, UpdateComment, WatchTask,
               UnwatchTask, objects
    <2>2. CASE CreateComment(c)
        <3>1. Answer(c, "create_comment") /\ comments[k] = None
            BY <2>2 DEF CreateComment, IInv, TypeOK
        <3>2. Answered(c) /\ CanComment(request[c].actor)
            BY <3>1, AnswerSteps DEF Permitted
        <3>3. QED
            BY <3>1, <3>2 DEF CanComment, CanCommentTask, CommentRoles, Roles, NoRole
    <2>3. CASE SoftDeleteComment(c)
        <3>1. Answer(c, "delete_comment") /\ request[c].comment = k
            BY <2>3 DEF SoftDeleteComment, IInv, TypeOK
        <3>2. /\ Answered(c) /\ CommentExists(k)
              /\ CanDeleteComment(request[c].actor, members[request[c].actor],
                                  comments[k].author)
            BY <3>1, AnswerSteps DEF Permitted, LockComment
        <3>3. QED
            BY <3>2 DEF CommentExists, CanDeleteComment
    <2>4. QED
        BY <2>1, <2>2, <2>3
<1>2. QED
    BY <1>1, IInvInit, IInvNext, PTL DEF Spec, CommentAuthority
=============================================================================
