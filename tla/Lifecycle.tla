----------------------------- MODULE Lifecycle -----------------------------
(***************************************************************************)
(* Publishing and closing projects: the manual operations and schedules of *)
(* src/apps/projects/services.py, and the two Celery jobs of               *)
(* src/apps/notifications/tasks.py that carry due schedules out.           *)
(*                                                                         *)
(* A request is a view step (the project is looked up without a lock, a    *)
(* requested time must lie in the future) and a service step under the     *)
(* project row lock.  A job run lists the due projects once and then takes *)
(* them one by one, each in a transaction of its own that locks the row    *)
(* and looks again.  Runs of one job may overlap, and a worker may die     *)
(* between two transactions.                                               *)
(*                                                                         *)
(* A job writes an audit row under the idempotency key                     *)
(* "project:<id>:<kind>", which the database keeps unique, and notifies    *)
(* the members under the same key.  announced holds those keys.  The rows  *)
(* that manual operations audit have no key and are left out, and so is    *)
(* who the owner is (module Membership): a request comes from the owner or *)
(* from a staff account.  The timestamps published_at and closed_at are    *)
(* reduced to whether they are set.                                        *)
(***************************************************************************)
EXTENDS Naturals, Policies

CONSTANTS
    Project,    \* project ids
    Client,     \* request workers
    Publisher,  \* Celery processes that run publish_due_projects
    Closer,     \* Celery processes that run close_due_projects
    Asked,      \* bound: the operations that requests ask for
    MaxTime,    \* bound: the clock stops here
    MaxCrashes, \* bound: how many runs die between two projects
    None        \* an empty time, or a worker without a request

ASSUME ProjectAssumption == Project \subseteq Nat
ASSUME BoundsAssumption == MaxTime \in Nat /\ MaxCrashes \in Nat
ASSUME RunnersAssumption == Publisher \cap Closer = {}

Time   == 1..MaxTime
Runner == Publisher \cup Closer
Kind(r) == IF r \in Publisher THEN "published" ELSE "closed"

ASSUME NoneAssumption == None \notin Nat

ProjectRow == [public: BOOLEAN, open: BOOLEAN, published: BOOLEAN,
               publishAt: Time \cup {None}, closeAt: Time \cup {None},
               deleted: BOOLEAN]

Request ==
    [op: {"schedule_publish", "schedule_close"}, project: Project,
     staff: BOOLEAN, at: Time]
        \cup [op: {"cancel_publish", "cancel_close", "close", "reopen"},
              project: Project, staff: BOOLEAN]
        \cup [op: {"update"}, project: Project, staff: {FALSE}, public: BOOLEAN]
        \cup [op: {"delete"}, project: Project, staff: {FALSE}]

ASSUME NoRequestAssumption == None \notin Request

VARIABLES
    row,        \* project -> its row
    clock,      \* timezone.now()
    announced,  \* the idempotency keys in audit_auditlog
    request,    \* worker -> the request its view let through, or None
    job,        \* runner -> its run: the time it started, the rows it has left
    crashes     \* how many runs have died

vars == <<row, clock, announced, request, job, crashes>>

(* What a run keeps of a listed project: the time it is ordered by, its id. *)
Listed == [at: Time, id: Project]
Idle   == [now |-> 0, todo |-> {}]

TypeOK ==
    /\ row \in [Project -> ProjectRow]
    /\ clock \in 0..MaxTime
    /\ announced \subseteq Project \X {"published", "closed"}
    /\ request \in [Client -> Request \cup {None}]
    /\ job \in [Runner -> [now: 0..MaxTime, todo: SUBSET Listed]]
    /\ crashes \in 0..MaxCrashes

(* Projects as create_project leaves them. *)
Init ==
    /\ row \in [Project -> [public: BOOLEAN, open: {TRUE}, published: {FALSE},
                            publishAt: {None}, closeAt: {None}, deleted: {FALSE}]]
    /\ clock = 0
    /\ announced = {}
    /\ request = [c \in Client |-> None]
    /\ job = [r \in Runner |-> Idle]
    /\ crashes = 0

Tick ==
    /\ clock < MaxTime
    /\ clock' = clock + 1
    /\ UNCHANGED <<row, announced, request, job, crashes>>

-----------------------------------------------------------------------------
(* Requests.                                                               *)

InFuture(q) == q.op \in {"schedule_publish", "schedule_close"} => q.at > clock

(* The view, and validate_future_aware, which runs before the lock. *)
Receive(c, q) ==
    /\ request[c] = None
    /\ ~row[q.project].deleted
    /\ InFuture(q)
    /\ request' = [request EXCEPT ![c] = q]
    /\ UNCHANGED <<row, clock, announced, job, crashes>>

CloseAfterPublish(publishAt, closeAt) ==
    (publishAt # None /\ closeAt # None) => closeAt > publishAt

PolicyAction(op) ==
    CASE op \in {"close", "reopen"} -> op
      [] op \in {"update", "delete"} -> "manage_members"
      [] OTHER -> "schedule"

(* Mutant of MayPerform: the owner column alone decides, members or not. *)
MayPerformAsOwner(q) == CanLifecycle(q.staff, TRUE, PolicyAction(q.op))

(* ensure_owner and ensure_lifecycle on the locked row: a deleted project  *)
(* has no members left, so nobody is its owner, but staff need not be.     *)
MayPerform(q) ==
    CanLifecycle(q.staff, ~row[q.project].deleted, PolicyAction(q.op))

Authorised(c, op) ==
    /\ request[c] # None
    /\ request[c].op = op
    /\ MayPerform(request[c])

Answer(c) ==
    /\ request' = [request EXCEPT ![c] = None]
    /\ UNCHANGED <<clock, announced, job, crashes>>

Save(c, new) ==
    /\ row' = [row EXCEPT ![request[c].project] = new]
    /\ Answer(c)

Refuse(c) == Answer(c) /\ UNCHANGED row

Forbid(c) == request[c] # None /\ ~MayPerform(request[c]) /\ Refuse(c)

SchedulePublish(c) ==
    /\ Authorised(c, "schedule_publish")
    /\ LET q == request[c]
           p == row[q.project]
       IN  IF CloseAfterPublish(q.at, p.closeAt)
           THEN Save(c, [p EXCEPT !.publishAt = q.at])
           ELSE Refuse(c)

(* Mutant of ScheduleClose: not compared with the publish schedule. *)
ScheduleCloseUnchecked(c) ==
    /\ Authorised(c, "schedule_close")
    /\ Save(c, [row[request[c].project] EXCEPT !.closeAt = request[c].at])

ScheduleClose(c) ==
    /\ Authorised(c, "schedule_close")
    /\ LET q == request[c]
           p == row[q.project]
       IN  IF CloseAfterPublish(p.publishAt, q.at)
           THEN Save(c, [p EXCEPT !.closeAt = q.at])
           ELSE Refuse(c)

CancelPublish(c) ==
    /\ Authorised(c, "cancel_publish")
    /\ Save(c, [row[request[c].project] EXCEPT !.publishAt = None])

CancelClose(c) ==
    /\ Authorised(c, "cancel_close")
    /\ Save(c, [row[request[c].project] EXCEPT !.closeAt = None])

(* Closing a closed project and reopening an open one is a conflict. *)
Close(c) ==
    /\ Authorised(c, "close")
    /\ LET p == row[request[c].project]
       IN  IF p.open THEN Save(c, [p EXCEPT !.open = FALSE, !.closeAt = None])
                     ELSE Refuse(c)

Reopen(c) ==
    /\ Authorised(c, "reopen")
    /\ LET p == row[request[c].project]
       IN  IF ~p.open THEN Save(c, [p EXCEPT !.open = TRUE, !.closeAt = None])
                      ELSE Refuse(c)

Update(c) ==
    /\ Authorised(c, "update")
    /\ Save(c, [row[request[c].project] EXCEPT !.public = request[c].public])

Delete(c) ==
    /\ Authorised(c, "delete")
    /\ Save(c, [row[request[c].project] EXCEPT !.deleted = TRUE])

Serve(c) ==
    \/ Forbid(c) \/ SchedulePublish(c) \/ ScheduleClose(c) \/ CancelPublish(c)
    \/ CancelClose(c) \/ Close(c) \/ Reopen(c) \/ Update(c) \/ Delete(c)

-----------------------------------------------------------------------------
(* The jobs.                                                               *)

PublishIsDue(p, now) ==
    ~p.public /\ p.publishAt # None /\ p.publishAt <= now /\ ~p.published

CloseIsDue(p, now) ==
    p.open /\ p.closeAt # None /\ p.closeAt <= now

IsDue(kind, p, now) ==
    IF kind = "published" THEN PublishIsDue(p, now) ELSE CloseIsDue(p, now)

Deadline(kind, p) == IF kind = "published" THEN p.publishAt ELSE p.closeAt

(* Mutants of CarriedOut: published_at is not set; an empty schedule is     *)
(* written as time zero.                                                   *)
CarriedOutUnmarked(kind, p) ==
    IF kind = "published"
    THEN [p EXCEPT !.public = TRUE, !.publishAt = None]
    ELSE [p EXCEPT !.open = FALSE, !.closeAt = None]

CarriedOutZeroed(kind, p) ==
    IF kind = "published"
    THEN [p EXCEPT !.public = TRUE, !.published = TRUE, !.publishAt = 0]
    ELSE [p EXCEPT !.open = FALSE, !.closeAt = 0]

CarriedOut(kind, p) ==
    IF kind = "published"
    THEN [p EXCEPT !.public = TRUE, !.published = TRUE, !.publishAt = None]
    ELSE [p EXCEPT !.open = FALSE, !.closeAt = None]

DueProjects(kind) == {i \in Project : ~row[i].deleted /\ IsDue(kind, row[i], clock)}

(* A run that finds nothing due changes nothing and is left out. *)
StartRun(r) ==
    /\ job[r] = Idle
    /\ DueProjects(Kind(r)) # {}
    /\ job' = [job EXCEPT ![r] =
                [now  |-> clock,
                 todo |-> {[at |-> Deadline(Kind(r), row[i]), id |-> i] :
                              i \in DueProjects(Kind(r))}]]
    /\ UNCHANGED <<row, clock, announced, request, crashes>>

(* order_by(<deadline>, "id"). *)
Precedes(x, y) == x.at < y.at \/ (x.at = y.at /\ x.id <= y.id)
FirstOf(todo) == CHOOSE x \in todo : \A y \in todo : Precedes(x, y)

(* The run goes on with the next project, or ends. *)
Advance(r) ==
    LET left == job[r].todo \ {FirstOf(job[r].todo)}
    IN  job' = [job EXCEPT ![r] = IF left = {} THEN Idle
                                  ELSE [job[r] EXCEPT !.todo = left]]

(* Mutants of StillDue: the row is not looked at again; it is due only     *)
(* when its time lies before the start of the run.                         *)
NotLookedAtAgain(r, p) == TRUE
DueBeforeRun(r, p) == IsDue(Kind(r), p, job[r].now - 1)

(* The locked row, as it is now, against the time the run started. *)
StillDue(r, p) == IsDue(Kind(r), p, job[r].now)

(* Mutant of IdempotencyKey: one key for all projects. *)
SharedKey(i, kind) == <<0, kind>>

IdempotencyKey(i, kind) == <<i, kind>>

(* One transaction.  When the key is already taken the INSERT of the audit *)
(* row raises IntegrityError: the change of the project is rolled back and *)
(* the exception leaves the loop, so the run ends there.                   *)
TakeProject(r) ==
    /\ job[r].todo # {}
    /\ LET i   == FirstOf(job[r].todo).id
           key == IdempotencyKey(i, Kind(r))
       IN  \/ /\ ~StillDue(r, row[i])
              /\ Advance(r)
              /\ UNCHANGED <<row, announced>>
           \/ /\ StillDue(r, row[i])
              /\ key \notin announced
              /\ row' = [row EXCEPT ![i] = CarriedOut(Kind(r), row[i])]
              /\ announced' = announced \cup {key}
              /\ Advance(r)
           \/ /\ StillDue(r, row[i])
              /\ key \in announced
              /\ job' = [job EXCEPT ![r] = Idle]
              /\ UNCHANGED <<row, announced>>
    /\ UNCHANGED <<clock, request, crashes>>

(* The worker dies, or the database connection does. *)
Crash(r) ==
    /\ job[r].todo # {}
    /\ crashes < MaxCrashes
    /\ crashes' = crashes + 1
    /\ job' = [job EXCEPT ![r] = Idle]
    /\ UNCHANGED <<row, clock, announced, request>>

Next ==
    \/ Tick
    \/ \E c \in Client, q \in {x \in Request : x.op \in Asked} : Receive(c, q)
    \/ \E c \in Client : Serve(c)
    \/ \E r \in Runner : StartRun(r) \/ TakeProject(r) \/ Crash(r)

Spec == Init /\ [][Next]_vars

(* Celery beat starts every job once a minute, and a worker that does not  *)
(* die gets on with its run.  Users owe nothing, and time may stand still. *)
Fairness == \A r \in Runner : WF_vars(StartRun(r)) /\ WF_vars(TakeProject(r))

FairSpec == Spec /\ Fairness

-----------------------------------------------------------------------------
(* However schedule requests, cancellations, jobs and manual closes        *)
(* interleave, a project never has a close schedule that is not after its  *)
(* publish schedule: the check is made on the locked row, not on what the  *)
(* view read.                                                              *)
ScheduleOrder == \A i \in Project : CloseAfterPublish(row[i].publishAt, row[i].closeAt)

(* Publishing by the job is all or nothing: the project is marked as       *)
(* published exactly when its audit row and the members' notifications     *)
(* exist, after overlapping runs, crashes and retries.                     *)
PublishedIffAnnounced ==
    \A i \in Project : row[i].published <=> <<i, "published">> \in announced

(* A project is only changed by a request that is answered in that step,   *)
(* or because it is due now: a schedule that was cancelled, postponed or   *)
(* carried out after a run had listed the project does not fire.           *)
JobsActOnDueProjectsOnly ==
    [][\A i \in Project :
        (row'[i] # row[i] /\ request' = request) =>
            \E kind \in {"published", "closed"} :
                IsDue(kind, row[i], clock) /\ row'[i] = CarriedOut(kind, row[i])]_vars

(* What still touches a deleted project was under way when it was deleted: *)
(* a staff request past its view, or a run that had listed it.  Its owner, *)
(* whose request may have passed the view too, can do nothing any more.    *)
OwnerCannotTouchDeleted ==
    [][\A i \in Project :
        (row[i].deleted /\ row'[i] # row[i]) =>
            \/ \E c \in Client :
                /\ request[c] # None
                /\ request'[c] = None
                /\ request[c].project = i
                /\ request[c].staff
            \/ \E r \in Runner : \E x \in job[r].todo : x.id = i /\ job'[r] # job[r]]_vars

Abstract == INSTANCE Schedules

(* Views, requests, overlapping runs and their deaths keep the promise of  *)
(* Schedules to every project.                                             *)
ImplementsSchedules == Abstract!SchedulesSpec

Overdue(kind, i) == ~row[i].deleted /\ IsDue(kind, row[i], clock)

(* A due publish schedule is carried out or withdrawn, whatever the        *)
(* schedules of the other projects and however many runs die.              *)
DueProjectsArePublished ==
    \A i \in Project : Overdue("published", i) ~> ~Overdue("published", i)

(* A project whose next automatic close can only fail: its key is used up. *)
CannotClose(i) == Overdue("closed", i) /\ <<i, "closed">> \in announced

(* The same for close schedules, as long as no project is due to be closed *)
(* by the job for a second time.                                           *)
DueProjectsAreClosed ==
    \A i \in Project :
        Overdue("closed", i) ~> (~Overdue("closed", i) \/ \E k \in Project : CannotClose(k))

(* docs/decisions/celery-scheduling.md:26-28: "If a worker is down, due    *)
(* projects are still present in the database and will be processed on the *)
(* next run."  This is asked for projects that the job has never closed    *)
(* before; the failure of another project in the same run keeps one        *)
(* waiting.                                                                *)
FirstCloseIsCarriedOut ==
    \A i \in Project :
        (Overdue("closed", i) /\ <<i, "closed">> \notin announced)
            ~> (~Overdue("closed", i) \/ <<i, "closed">> \in announced)
=============================================================================
