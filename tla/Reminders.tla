----------------------------- MODULE Reminders -----------------------------
(***************************************************************************)
(* send_deadline_reminders (src/apps/notifications/tasks.py) against the   *)
(* requests that change the tasks of one project.                          *)
(*                                                                         *)
(* A run lists the open tasks that are due within the window, with their   *)
(* assignees, and then files one notification for each of them without     *)
(* looking at the task again.  The notification is unique per user and     *)
(* dedupe key, so that runs may overlap and be repeated; module Outbox     *)
(* says what becomes of its email.                                         *)
(*                                                                         *)
(* Requests are one step here: what they may do is the subject of Tasks,   *)
(* and any of their effects may come between two steps of a run.           *)
(***************************************************************************)
EXTENDS Naturals

CONSTANTS
    Task,       \* task ids
    User,       \* user accounts
    Runner,     \* Celery processes that run send_deadline_reminders
    Edits,      \* bound: what requests change
    Window,     \* how long before its due time a task is reminded of
    MaxTime,    \* bound: the clock stops here
    MaxCrashes, \* bound: how many runs die
    None        \* a task without a due time

ASSUME TaskAssumption == Task \subseteq Nat
ASSUME BoundsAssumption == Window \in Nat /\ MaxTime \in Nat /\ MaxCrashes \in Nat
ASSUME NoneAssumption == None \notin Nat

Time == 0..MaxTime

VARIABLES
    task,       \* task id -> its row
    open,       \* Project.state = ACTIVE
    clock,      \* timezone.now()
    notices,    \* the reminders filed: <<user, dedupe key>>
    todo,       \* runner -> the rows its run has left, as it read them
    crashes     \* how many runs have died

vars == <<task, open, clock, notices, todo, crashes>>

TaskRow == [assignee: User, due: Time \cup {None}, done: BOOLEAN, deleted: BOOLEAN]
Listed  == [id: Task, due: Time, assignee: User]

TypeOK ==
    /\ task \in [Task -> TaskRow]
    /\ open \in BOOLEAN
    /\ clock \in Time
    /\ notices \subseteq User \X (Task \X Time)
    /\ todo \in [Runner -> SUBSET Listed]
    /\ crashes \in 0..MaxCrashes

(* Tasks as create_task leaves them: a due time need not lie ahead. *)
Init ==
    /\ task \in [Task -> [assignee: User, due: Time \cup {None},
                          done: {FALSE}, deleted: {FALSE}]]
    /\ open = TRUE
    /\ clock = 0
    /\ notices = {}
    /\ todo = [r \in Runner |-> {}]
    /\ crashes = 0

Tick ==
    /\ clock < MaxTime
    /\ clock' = clock + 1
    /\ UNCHANGED <<task, open, notices, todo, crashes>>

(* update_task, transition_task, soft_delete_task; a closed project takes  *)
(* none of them.                                                           *)
EditTask(t) ==
    /\ open
    /\ ~task[t].deleted
    /\ \/ /\ "assignee" \in Edits
          /\ \E u \in User : task' = [task EXCEPT ![t].assignee = u]
       \/ /\ "due" \in Edits
          /\ \E d \in Time \cup {None} : task' = [task EXCEPT ![t].due = d]
       \/ /\ "done" \in Edits
          /\ task' = [task EXCEPT ![t].done = ~task[t].done]
       \/ /\ "deleted" \in Edits
          /\ task' = [task EXCEPT ![t].deleted = TRUE]
    /\ UNCHANGED <<open, clock, notices, todo, crashes>>

(* Closing, reopening. *)
EditProject ==
    /\ "open" \in Edits
    /\ open' = ~open
    /\ UNCHANGED <<task, clock, notices, todo, crashes>>

-----------------------------------------------------------------------------
(* Mutant of Wanted: the end of the window is not looked at. *)
WantedAnyTime(t) ==
    /\ ~task[t].deleted
    /\ open
    /\ task[t].due # None
    /\ task[t].due >= clock
    /\ ~task[t].done

Wanted(t) ==
    /\ ~task[t].deleted
    /\ open
    /\ task[t].due # None
    /\ task[t].due >= clock
    /\ task[t].due <= clock + Window
    /\ ~task[t].done

AsListed(t) == [id |-> t, due |-> task[t].due, assignee |-> task[t].assignee]

(* A run that finds no task changes nothing and is left out. *)
StartRun(r) ==
    /\ todo[r] = {}
    /\ \E t \in Task : Wanted(t)
    /\ todo' = [todo EXCEPT ![r] = {AsListed(t) : t \in {x \in Task : Wanted(x)}}]
    /\ UNCHANGED <<task, open, clock, notices, crashes>>

(* order_by("due_at", "id"). *)
Precedes(x, y) == x.due < y.due \/ (x.due = y.due /\ x.id <= y.id)
FirstOf(rows) == CHOOSE x \in rows : \A y \in rows : Precedes(x, y)

(* Mutants of DedupeKey: the due time does not belong to it; it is built   *)
(* from the task alone, with a time that no task has.                      *)
KeyOfTask(x) == <<x.id, 0>>
KeyWithoutTime(x) == <<x.id, None>>

DedupeKey(x) == <<x.id, x.due>>

(* The lookup and get_or_create come to the same as adding the pair to a   *)
(* set, whatever other runs do between them.                               *)
Remind(r) ==
    /\ todo[r] # {}
    /\ LET x == FirstOf(todo[r]) IN
        /\ notices' = notices \cup {<<x.assignee, DedupeKey(x)>>}
        /\ todo' = [todo EXCEPT ![r] = @ \ {x}]
    /\ UNCHANGED <<task, open, clock, crashes>>

Crash(r) ==
    /\ todo[r] # {}
    /\ crashes < MaxCrashes
    /\ crashes' = crashes + 1
    /\ todo' = [todo EXCEPT ![r] = {}]
    /\ UNCHANGED <<task, open, clock, notices>>

Next ==
    \/ Tick
    \/ EditProject
    \/ \E t \in Task : EditTask(t)
    \/ \E r \in Runner : StartRun(r) \/ Remind(r) \/ Crash(r)

Spec == Init /\ [][Next]_vars

(* Celery beat starts a run every 15 minutes, and a worker that does not   *)
(* die gets on with it.  The time between two runs is not zero: the clock  *)
(* may move before one starts.                                             *)
FairSpec == Spec /\ \A r \in Runner : WF_vars(StartRun(r)) /\ WF_vars(Remind(r))

-----------------------------------------------------------------------------
(* Nobody is reminded earlier than the window allows, also when the due    *)
(* time has been moved since the run listed the task.                      *)
NotTooEarly == \A n \in notices : n[2][2] <= clock + Window

(* The task as it is now is due soon for this user at this time. *)
DueSoon(t, u, d) == Wanted(t) /\ task[t].assignee = u /\ task[t].due = d

(* As long as a task is due soon, its assignee gets to know: also one that *)
(* takes the task over from somebody who was reminded, and again when the  *)
(* due time is moved to another one.                                       *)
DueTasksAreReminded ==
    \A t \in Task, u \in User, d \in Time :
        DueSoon(t, u, d) ~> (<<u, <<t, d>>>> \in notices \/ ~DueSoon(t, u, d))

=============================================================================
