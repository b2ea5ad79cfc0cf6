-------------------------- MODULE LifecycleProofs --------------------------
(***************************************************************************)
(* The safety properties of Lifecycle for every number of projects,        *)
(* request workers, job runners and crashes.                               *)
(*                                                                         *)
(* The inductive invariant adds to the order of the schedules, and to the  *)
(* audit rows of publications, that a run started no later than now: what  *)
(* was due when it started is still due.  Lifecycle implements Schedules.  *)
(***************************************************************************)
EXTENDS Lifecycle, WellFoundedInduction, TLAPS

RunsStartedBefore == \A r \in Runner : job[r].now <= clock

IInv ==
    /\ TypeOK
    /\ ScheduleOrder
    /\ PublishedIffAnnounced
    /\ RunsStartedBefore

-----------------------------------------------------------------------------
(* The order of a run.                                                     *)

(* A non-empty set of naturals has a least element.                        *)
LEMMA LeastNat ==
    ASSUME NEW S, S \subseteq Nat, S # {}
    PROVE  \E x \in S : \A y \in S : x <= y
<1> DEFINE R == OpToRel(<, Nat)
<1>1. PICK x \in S : \A y \in S : <<y, x>> \notin R
    <2> HIDE DEF R
    <2>1. IsWellFoundedOn(R, Nat)
        BY NatLessThanWellFounded DEF R
    <2>2. QED
        BY <2>1, WFMin
<1>2. \A y \in S : ~(y < x)
    BY <1>1 DEF OpToRel
<1>3. QED
    BY <1>2

(* The next project of a run is one it has listed.                         *)
LEMMA FirstIsListed ==
    ASSUME NEW todo, todo \subseteq Listed, todo # {}
    PROVE  FirstOf(todo) \in todo
<1>1. \A x \in todo : x.at \in Nat /\ x.id \in Nat
    <2> TAKE x \in todo
    <2>1. x \in [at: Time, id: Project]
        BY DEF Listed
    <2>2. x.at \in Time /\ x.id \in Project
        BY <2>1
    <2>3. Time \subseteq Nat
        BY BoundsAssumption DEF Time
    <2>4. QED
        BY <2>2, <2>3, ProjectAssumption
<1>2. PICK a \in {x.at : x \in todo} : \A b \in {x.at : x \in todo} : a <= b
    <2> DEFINE S == {x.at : x \in todo}
    <2>1. S \subseteq Nat /\ S # {}
        BY <1>1
    <2> HIDE DEF S
    <2>2. \E x \in S : \A y \in S : x <= y
        BY <2>1, LeastNat
    <2>3. QED
        BY <2>2 DEF S
<1>3. PICK i \in {x.id : x \in {y \in todo : y.at = a}} :
            \A j \in {x.id : x \in {y \in todo : y.at = a}} : i <= j
    <2> DEFINE S == {x.id : x \in {y \in todo : y.at = a}}
    <2>1. S \subseteq Nat /\ S # {}
        BY <1>1, <1>2
    <2> HIDE DEF S
    <2>2. \E x \in S : \A y \in S : x <= y
        BY <2>1, LeastNat
    <2>3. QED
        BY <2>2 DEF S
<1>4. PICK x \in todo : x.at = a /\ x.id = i
    BY <1>3
<1>5. \A y \in todo : Precedes(x, y)
    <2> TAKE y \in todo
    <2>1. x.at <= y.at
        BY <1>2, <1>4
    <2>2. x.at = y.at => x.id <= y.id
        BY <1>3, <1>4
    <2>3. QED
        BY <1>1, <2>1, <2>2 DEF Precedes
<1>6. QED
    BY <1>4, <1>5 DEF FirstOf

-----------------------------------------------------------------------------
(* What each step does to the rows.                                        *)

(* A request that a view let through.                                      *)
LEMMA RequestFields ==
    ASSUME TypeOK, NEW c \in Client, request[c] # None
    PROVE  /\ request[c] \in Request
           /\ request[c].project \in Project
           /\ request[c].staff \in BOOLEAN
           /\ request[c].op \in {"schedule_publish", "schedule_close"}
                => request[c].at \in Time
           /\ request[c].op = "update" => request[c].public \in BOOLEAN
BY DEF TypeOK, Request

(* Carrying a schedule out keeps the type and the order of the schedules,  *)
(* and does not depend on the clock once it is due.                        *)
LEMMA CarriedOutRow ==
    ASSUME NEW p \in ProjectRow, NEW kind \in {"published", "closed"}
    PROVE  /\ CarriedOut(kind, p) \in ProjectRow
           /\ CloseAfterPublish(CarriedOut(kind, p).publishAt, CarriedOut(kind, p).closeAt)
                \/ ~CloseAfterPublish(p.publishAt, p.closeAt)
           /\ CarriedOut(kind, p).published = (p.published \/ kind = "published")
           /\ CarriedOut(kind, p).deleted = p.deleted
BY DEF CarriedOut, ProjectRow, CloseAfterPublish

LEMMA DueStaysDue ==
    ASSUME NEW p \in ProjectRow, NEW kind, NEW now \in Nat, NEW later \in Nat,
           now <= later, IsDue(kind, p, now)
    PROVE  IsDue(kind, p, later)
BY BoundsAssumption DEF IsDue, PublishIsDue, CloseIsDue, ProjectRow, Time

LEMMA KindType == \A r : Kind(r) \in {"published", "closed"}
BY DEF Kind

(* A service changes at most the row of its request, and that only as      *)
(* Schedules allows it.                                                    *)
RowServed(c) ==
    /\ request[c] # None
    /\ MayPerform(request[c])
    /\ Answer(c)
    /\ \E new \in ProjectRow :
        /\ row' = [row EXCEPT ![request[c].project] = new]
        /\ Abstract!Allowed(row[request[c].project], new)

LEMMA RowType == ProjectRow = Abstract!Row
BY DEF ProjectRow, Time, Abstract!Row

LEMMA OrderOfSchedules ==
    ASSUME NEW p \in ProjectRow
    PROVE  Abstract!InOrder(p) <=> CloseAfterPublish(p.publishAt, p.closeAt)
BY BoundsAssumption DEF ProjectRow, Time, Abstract!InOrder, CloseAfterPublish

LEMMA ServeSteps ==
    ASSUME IInv, NEW c \in Client, Serve(c)
    PROVE  RowServed(c) \/ Refuse(c)
<1> DEFINE i == request[c].project
           p == row[i]
<1>1. CASE Forbid(c)
    BY <1>1 DEF Forbid
<1> SUFFICES ASSUME request[c] # None, MayPerform(request[c])
             PROVE  RowServed(c) \/ Refuse(c)
    BY <1>1 DEF Serve, SchedulePublish, ScheduleClose, CancelPublish, CancelClose,
                Close, Reopen, Update, Delete, Authorised
<1>2. /\ i \in Project
      /\ p \in ProjectRow
      /\ CloseAfterPublish(p.publishAt, p.closeAt)
    BY RequestFields DEF IInv, TypeOK, ScheduleOrder
<1>3. ASSUME NEW new \in ProjectRow, Save(c, new), new.published = p.published,
             CloseAfterPublish(new.publishAt, new.closeAt),
             new.open # p.open => new.closeAt = None,
             p.deleted => new.deleted /\ new.public = p.public
      PROVE  RowServed(c)
    <2>1. Abstract!Allowed(p, new)
        BY <1>3, OrderOfSchedules DEF Abstract!Allowed
    <2>2. QED
        BY <1>3, <2>1 DEF RowServed, Save
<1>4. CASE SchedulePublish(c)
    <2>1. request[c].at \in Time
        BY <1>4, RequestFields DEF SchedulePublish, Authorised, IInv
    <2> DEFINE new == [p EXCEPT !.publishAt = request[c].at]
    <2>2. /\ new \in ProjectRow /\ new.published = p.published
          /\ new.open = p.open /\ new.deleted = p.deleted /\ new.public = p.public
        BY <1>2, <2>1 DEF ProjectRow
    <2>3. new.publishAt = request[c].at /\ new.closeAt = p.closeAt
        BY <1>2 DEF ProjectRow
    <2>4. QED
        BY <1>3, <1>4, <2>2, <2>3 DEF SchedulePublish
<1>5. CASE ScheduleClose(c)
    <2>1. request[c].at \in Time
        BY <1>5, RequestFields DEF ScheduleClose, Authorised, IInv
    <2> DEFINE new == [p EXCEPT !.closeAt = request[c].at]
    <2>2. /\ new \in ProjectRow /\ new.published = p.published
          /\ new.open = p.open /\ new.deleted = p.deleted /\ new.public = p.public
        BY <1>2, <2>1 DEF ProjectRow
    <2>3. new.publishAt = p.publishAt /\ new.closeAt = request[c].at
        BY <1>2 DEF ProjectRow
    <2>4. QED
        BY <1>3, <1>5, <2>2, <2>3 DEF ScheduleClose
<1>6. CASE CancelPublish(c)
    <2> DEFINE new == [p EXCEPT !.publishAt = None]
    <2>1. /\ new \in ProjectRow /\ new.published = p.published
          /\ new.open = p.open /\ new.deleted = p.deleted /\ new.public = p.public
          /\ CloseAfterPublish(new.publishAt, new.closeAt)
        BY <1>2 DEF ProjectRow, CloseAfterPublish
    <2>2. QED
        BY <1>3, <1>6, <2>1 DEF CancelPublish
<1>7. CASE CancelClose(c)
    <2> DEFINE new == [p EXCEPT !.closeAt = None]
    <2>1. /\ new \in ProjectRow /\ new.published = p.published
          /\ new.open = p.open /\ new.deleted = p.deleted /\ new.public = p.public
          /\ CloseAfterPublish(new.publishAt, new.closeAt)
        BY <1>2 DEF ProjectRow, CloseAfterPublish
    <2>2. QED
        BY <1>3, <1>7, <2>1 DEF CancelClose
<1>8. CASE Close(c) \/ Reopen(c)
    <2>1. ASSUME NEW open \in BOOLEAN,
                 Save(c, [p EXCEPT !.open = open, !.closeAt = None])
          PROVE  RowServed(c)
        <3> DEFINE new == [p EXCEPT !.open = open, !.closeAt = None]
        <3>1. /\ new \in ProjectRow /\ new.published = p.published
              /\ new.closeAt = None /\ new.deleted = p.deleted /\ new.public = p.public
              /\ CloseAfterPublish(new.publishAt, new.closeAt)
            BY <1>2 DEF ProjectRow, CloseAfterPublish
        <3>2. QED
            BY <1>3, <2>1, <3>1
    <2>2. QED
        BY <1>8, <2>1 DEF Close, Reopen
<1>9. CASE Update(c)
    <2>1. request[c].public \in BOOLEAN
        BY <1>9, RequestFields DEF Update, Authorised, IInv
    <2>3. ~p.deleted
        BY <1>9 DEF Update, Authorised, IInv, TypeOK, Request, MayPerform, CanLifecycle
    <2> DEFINE new == [p EXCEPT !.public = request[c].public]
    <2>2. /\ new \in ProjectRow /\ new.published = p.published
          /\ new.open = p.open
          /\ CloseAfterPublish(new.publishAt, new.closeAt)
        BY <1>2, <2>1 DEF ProjectRow
    <2>4. QED
        BY <1>3, <1>9, <2>2, <2>3 DEF Update
<1>10. CASE Delete(c)
    <2> DEFINE new == [p EXCEPT !.deleted = TRUE]
    <2>1. /\ new \in ProjectRow /\ new.published = p.published
          /\ new.open = p.open /\ new.deleted /\ new.public = p.public
          /\ CloseAfterPublish(new.publishAt, new.closeAt)
        BY <1>2 DEF ProjectRow
    <2>2. QED
        BY <1>3, <1>10, <2>1 DEF Delete
<1>11. QED
    BY <1>1, <1>4, <1>5, <1>6, <1>7, <1>8, <1>9, <1>10 DEF Serve

(* A transaction of a job either changes no row, or carries out the        *)
(* schedule of one listed project that is due now.                         *)
ProjectTaken(r) ==
    \E x \in job[r].todo :
        /\ x.id \in Project
        /\ IsDue(Kind(r), row[x.id], clock)
        /\ row' = [row EXCEPT ![x.id] = CarriedOut(Kind(r), row[x.id])]
        /\ <<x.id, Kind(r)>> \notin announced
        /\ announced' = announced \cup {<<x.id, Kind(r)>>}

LEMMA TakeSteps ==
    ASSUME IInv, NEW r \in Runner, TakeProject(r)
    PROVE  /\ \/ ProjectTaken(r)
              \/ UNCHANGED <<row, announced>>
           /\ UNCHANGED <<clock, request, crashes>>
           /\ job' \in [Runner -> [now: 0..MaxTime, todo: SUBSET Listed]]
           /\ \A s \in Runner : job'[s].now <= job[s].now
           /\ job'[r] # job[r]
<1> DEFINE x == FirstOf(job[r].todo)
           left == job[r].todo \ {x}
<1>1. /\ job \in [Runner -> [now: 0..MaxTime, todo: SUBSET Listed]]
      /\ job[r].todo \subseteq Listed /\ job[r].todo # {}
      /\ clock \in Nat /\ job[r].now \in Nat /\ job[r].now <= clock
    BY BoundsAssumption DEF IInv, TypeOK, RunsStartedBefore, TakeProject
<1>2. x \in job[r].todo /\ x.id \in Project
    BY <1>1, FirstIsListed DEF Listed
<1>3. row[x.id] \in ProjectRow
    BY <1>2 DEF IInv, TypeOK
<1>4. \/ ProjectTaken(r)
      \/ UNCHANGED <<row, announced>>
    <2>1. CASE StillDue(r, row[x.id]) /\ <<x.id, Kind(r)>> \notin announced
        <3>1. IsDue(Kind(r), row[x.id], clock)
            BY <1>1, <1>3, <2>1, DueStaysDue DEF StillDue
        <3>2. QED
            BY <1>2, <2>1, <3>1 DEF TakeProject, ProjectTaken, IdempotencyKey
    <2>2. CASE ~(StillDue(r, row[x.id]) /\ <<x.id, Kind(r)>> \notin announced)
        BY <2>2 DEF TakeProject, IdempotencyKey
    <2>3. QED
        BY <2>1, <2>2
<1>5. job' = [job EXCEPT ![r] = Idle] \/ job' = [job EXCEPT ![r] = [job[r] EXCEPT !.todo = left]]
    BY DEF TakeProject, Advance
<1>6. Idle \in [now: 0..MaxTime, todo: SUBSET Listed] /\ Idle.todo = {} /\ Idle.now = 0
    BY BoundsAssumption DEF Idle
<1>7. /\ [job[r] EXCEPT !.todo = left] \in [now: 0..MaxTime, todo: SUBSET Listed]
      /\ [job[r] EXCEPT !.todo = left].now = job[r].now
      /\ [job[r] EXCEPT !.todo = left].todo = left
    BY <1>1
<1>8. job' \in [Runner -> [now: 0..MaxTime, todo: SUBSET Listed]]
    BY <1>1, <1>5, <1>6, <1>7
<1>9. \A s \in Runner : job[s].now \in Nat
    BY <1>1, BoundsAssumption
<1>10. \A s \in Runner : job'[s].now <= job[s].now
    BY <1>1, <1>5, <1>6, <1>7, <1>9
<1>11. job'[r] # job[r]
    BY <1>1, <1>2, <1>5, <1>6, <1>7
<1>12. QED
    BY <1>4, <1>8, <1>10, <1>11 DEF TakeProject

-----------------------------------------------------------------------------
(* The inductive invariant.                                                *)

LEMMA InvInit == Init => IInv
<1> SUFFICES ASSUME Init PROVE IInv
    OBVIOUS
<1>1. Idle \in [now: 0..MaxTime, todo: SUBSET Listed] /\ Idle.now = 0
    BY BoundsAssumption DEF Idle
<1>2. TypeOK
    <2>1. row \in [Project -> ProjectRow]
        BY DEF Init, ProjectRow
    <2>2. /\ clock \in 0..MaxTime
          /\ crashes \in 0..MaxCrashes
        BY BoundsAssumption DEF Init
    <2>3. /\ announced \subseteq Project \X {"published", "closed"}
          /\ request \in [Client -> Request \cup {None}]
          /\ job \in [Runner -> [now: 0..MaxTime, todo: SUBSET Listed]]
        BY <1>1 DEF Init
    <2>4. QED
        BY <2>1, <2>2, <2>3 DEF TypeOK
<1>3. ScheduleOrder
    BY DEF Init, ScheduleOrder, CloseAfterPublish
<1>4. PublishedIffAnnounced
    BY DEF Init, PublishedIffAnnounced
<1>5. RunsStartedBefore
    BY <1>1 DEF Init, RunsStartedBefore
<1>6. QED
    BY <1>2, <1>3, <1>4, <1>5 DEF IInv

LEMMA InvServe ==
    ASSUME IInv, NEW c \in Client, Serve(c)
    PROVE  IInv'
<1>1. RowServed(c) \/ Refuse(c)
    BY ServeSteps
<1>2. /\ request' \in [Client -> Request \cup {None}]
      /\ UNCHANGED <<clock, announced, job, crashes>>
    BY <1>1 DEF RowServed, Refuse, Answer, IInv, TypeOK
<1>3. row' \in [Project -> ProjectRow] /\ ScheduleOrder' /\ PublishedIffAnnounced'
    <2>1. CASE Refuse(c)
        BY <2>1 DEF Refuse, Answer, IInv, TypeOK, ScheduleOrder, PublishedIffAnnounced
    <2>2. CASE RowServed(c)
        <3>1. PICK new \in ProjectRow :
                /\ row' = [row EXCEPT ![request[c].project] = new]
                /\ new.published = row[request[c].project].published
                /\ CloseAfterPublish(new.publishAt, new.closeAt)
            BY <2>2, OrderOfSchedules DEF RowServed, Abstract!Allowed
        <3>2. QED
            BY <1>2, <3>1 DEF IInv, TypeOK, ScheduleOrder, PublishedIffAnnounced
    <2>3. QED
        BY <1>1, <2>1, <2>2
<1>4. RunsStartedBefore'
    BY <1>2 DEF IInv, RunsStartedBefore
<1>5. TypeOK'
    BY <1>2, <1>3 DEF IInv, TypeOK
<1>6. QED
    BY <1>3, <1>4, <1>5 DEF IInv

LEMMA InvTake ==
    ASSUME IInv, NEW r \in Runner, TakeProject(r)
    PROVE  IInv'
<1>1. /\ \/ ProjectTaken(r)
         \/ UNCHANGED <<row, announced>>
      /\ UNCHANGED <<clock, request, crashes>>
      /\ job' \in [Runner -> [now: 0..MaxTime, todo: SUBSET Listed]]
      /\ \A s \in Runner : job'[s].now <= job[s].now
    BY TakeSteps
<1>2. /\ row' \in [Project -> ProjectRow]
      /\ announced' \subseteq Project \X {"published", "closed"}
      /\ ScheduleOrder'
      /\ PublishedIffAnnounced'
    <2>1. CASE UNCHANGED <<row, announced>>
        BY <2>1 DEF IInv, TypeOK, ScheduleOrder, PublishedIffAnnounced
    <2>2. CASE ProjectTaken(r)
        <3>1. PICK i \in Project :
                /\ row' = [row EXCEPT ![i] = CarriedOut(Kind(r), row[i])]
                /\ announced' = announced \cup {<<i, Kind(r)>>}
            BY <2>2 DEF ProjectTaken
        <3>2. row[i] \in ProjectRow /\ Kind(r) \in {"published", "closed"}
            BY KindType DEF IInv, TypeOK
        <3>3. /\ CarriedOut(Kind(r), row[i]) \in ProjectRow
              /\ CloseAfterPublish(CarriedOut(Kind(r), row[i]).publishAt,
                                   CarriedOut(Kind(r), row[i]).closeAt)
              /\ CarriedOut(Kind(r), row[i]).published
                    = (row[i].published \/ Kind(r) = "published")
            BY <3>2, CarriedOutRow DEF IInv, ScheduleOrder
        <3>4. row' \in [Project -> ProjectRow] /\ ScheduleOrder'
            BY <3>1, <3>3 DEF IInv, TypeOK, ScheduleOrder
        <3>5. PublishedIffAnnounced'
            BY <3>1, <3>2, <3>3 DEF IInv, TypeOK, PublishedIffAnnounced
        <3>6. QED
            BY <3>1, <3>2, <3>4, <3>5 DEF IInv, TypeOK
    <2>3. QED
        BY <1>1, <2>1, <2>2
<1>3. RunsStartedBefore'
    <2> SUFFICES ASSUME NEW s \in Runner PROVE job'[s].now <= clock
        BY <1>1 DEF RunsStartedBefore
    <2>1. job'[s].now \in Nat /\ job[s].now \in Nat /\ clock \in Nat
        BY <1>1, BoundsAssumption DEF IInv, TypeOK
    <2>2. QED
        BY <1>1, <2>1 DEF IInv, RunsStartedBefore
<1>4. TypeOK'
    BY <1>1, <1>2 DEF IInv, TypeOK
<1>5. QED
    BY <1>2, <1>3, <1>4 DEF IInv

LEMMA InvNext == IInv /\ [Next]_vars => IInv'
<1> SUFFICES ASSUME IInv, [Next]_vars PROVE IInv'
    OBVIOUS
<1> USE DEF IInv
<1>1. CASE Tick
    <2>1. clock' \in 0..MaxTime /\ \A n \in 0..MaxTime : n <= clock => n <= clock'
        BY <1>1, BoundsAssumption DEF Tick, TypeOK
    <2>2. TypeOK'
        BY <1>1, <2>1 DEF Tick, TypeOK
    <2>3. RunsStartedBefore'
        BY <1>1, <2>1 DEF Tick, TypeOK, RunsStartedBefore
    <2>4. QED
        BY <1>1, <2>2, <2>3 DEF Tick, ScheduleOrder, PublishedIffAnnounced
<1>2. ASSUME NEW c \in Client, NEW q \in Request, Receive(c, q) PROVE IInv'
    BY <1>2 DEF Receive, TypeOK, ScheduleOrder, PublishedIffAnnounced, RunsStartedBefore
<1>3. ASSUME NEW c \in Client, Serve(c) PROVE IInv'
    BY <1>3, InvServe
<1>4. ASSUME NEW r \in Runner, StartRun(r) PROVE IInv'
    <2> DEFINE todo == {[at |-> Deadline(Kind(r), row[i]), id |-> i] : i \in DueProjects(Kind(r))}
               run == [now |-> clock, todo |-> todo]
    <2>1. \A i \in DueProjects(Kind(r)) : i \in Project /\ Deadline(Kind(r), row[i]) \in Time
        BY DEF DueProjects, Deadline, IsDue, PublishIsDue, CloseIsDue, TypeOK, ProjectRow
    <2>2. todo \subseteq Listed
        BY <2>1 DEF Listed
    <2>3. run \in [now: 0..MaxTime, todo: SUBSET Listed] /\ run.now = clock
        BY <2>2 DEF TypeOK
    <2>4. job' = [job EXCEPT ![r] = run]
        BY <1>4 DEF StartRun
    <2>5. TypeOK'
        BY <1>4, <2>3, <2>4 DEF StartRun, TypeOK
    <2>6. RunsStartedBefore'
        BY <1>4, <2>3, <2>4, BoundsAssumption DEF StartRun, TypeOK, RunsStartedBefore
    <2>7. QED
        BY <1>4, <2>5, <2>6 DEF StartRun, ScheduleOrder, PublishedIffAnnounced
<1>5. ASSUME NEW r \in Runner, TakeProject(r) PROVE IInv'
    BY <1>5, InvTake
<1>6. ASSUME NEW r \in Runner, Crash(r) PROVE IInv'
    <2>1. /\ Idle \in [now: 0..MaxTime, todo: SUBSET Listed]
          /\ Idle.now <= clock
          /\ crashes' \in 0..MaxCrashes
        BY <1>6, BoundsAssumption DEF Idle, Crash, TypeOK
    <2>2. TypeOK'
        BY <1>6, <2>1 DEF Crash, TypeOK
    <2>3. RunsStartedBefore'
        BY <1>6, <2>1 DEF Crash, TypeOK, RunsStartedBefore
    <2>4. QED
        BY <1>6, <2>2, <2>3 DEF Crash, ScheduleOrder, PublishedIffAnnounced
<1>7. CASE UNCHANGED vars
    BY <1>7 DEF vars, TypeOK, ScheduleOrder, PublishedIffAnnounced, RunsStartedBefore
<1>8. QED
    BY <1>1, <1>2, <1>3, <1>4, <1>5, <1>6, <1>7 DEF Next

-----------------------------------------------------------------------------
(* Type correctness, for any number of projects, workers and crashes.      *)
THEOREM TypeCorrect == Spec => []TypeOK
<1>1. IInv => TypeOK
    BY DEF IInv
<1>2. QED
    BY <1>1, InvInit, InvNext, PTL DEF Spec

(* The close schedule of a project lies after its publish schedule,        *)
(* whichever of the two a request has seen before it sets the other.       *)
THEOREM SchedulesInOrder == Spec => []ScheduleOrder
<1>1. IInv => ScheduleOrder
    BY DEF IInv
<1>2. QED
    BY <1>1, InvInit, InvNext, PTL DEF Spec

(* Publishing by the job is all or nothing: a project is marked exactly    *)
(* when the audit row of its publication is there.                         *)
THEOREM PublishedOnceAnnounced == Spec => []PublishedIffAnnounced
<1>1. IInv => PublishedIffAnnounced
    BY DEF IInv
<1>2. QED
    BY <1>1, InvInit, InvNext, PTL DEF Spec

(* A job never acts on a schedule that is not due at that very moment.     *)
THEOREM JobsAreCurrent == Spec => JobsActOnDueProjectsOnly
<1> DEFINE OnDueOnly ==
        \A i \in Project :
            (row'[i] # row[i] /\ request' = request) =>
                \E kind \in {"published", "closed"} :
                    IsDue(kind, row[i], clock) /\ row'[i] = CarriedOut(kind, row[i])
<1>1. IInv /\ [Next]_vars => [OnDueOnly]_vars
    <2> SUFFICES ASSUME IInv, Next, NEW i \in Project, row'[i] # row[i], request' = request
                 PROVE  \E kind \in {"published", "closed"} :
                            IsDue(kind, row[i], clock) /\ row'[i] = CarriedOut(kind, row[i])
        OBVIOUS
    <2>1. ASSUME NEW c \in Client, Serve(c) PROVE FALSE
        <3>1. RowServed(c) \/ Refuse(c)
            BY <2>1, ServeSteps
        <3>2. request[c] # None
            BY <2>1 DEF Serve, Forbid, SchedulePublish, ScheduleClose, CancelPublish,
                        CancelClose, Close, Reopen, Update, Delete, Authorised
        <3>3. request'[c] = None
            BY <3>1 DEF RowServed, Refuse, Answer, IInv, TypeOK
        <3>4. QED
            BY <3>2, <3>3
    <2>2. PICK r \in Runner : TakeProject(r)
        BY <2>1 DEF Next, Tick, Receive, StartRun, Crash
    <2>3. ProjectTaken(r)
        BY <2>2, TakeSteps
    <2>4. PICK k \in Project : /\ IsDue(Kind(r), row[k], clock)
                               /\ row' = [row EXCEPT ![k] = CarriedOut(Kind(r), row[k])]
        BY <2>3 DEF ProjectTaken
    <2>5. i = k /\ row'[i] = CarriedOut(Kind(r), row[i])
        BY <2>4 DEF IInv, TypeOK
    <2>6. QED
        BY <2>4, <2>5, KindType
<1>2. QED
    BY <1>1, InvInit, InvNext, PTL DEF Spec, JobsActOnDueProjectsOnly

(* Only a staff request or a run that were under way when a project was    *)
(* deleted can still change it.                                            *)
THEOREM DeletedIsOutOfReach == Spec => OwnerCannotTouchDeleted
<1> DEFINE ByStaff(i) == \E c \in Client :
                            /\ request[c] # None
                            /\ request'[c] = None
                            /\ request[c].project = i
                            /\ request[c].staff
           ByRun(i) == \E r \in Runner : \E x \in job[r].todo : x.id = i /\ job'[r] # job[r]
           OutOfReach ==
                \A i \in Project :
                    (row[i].deleted /\ row'[i] # row[i]) =>
                        \/ \E c \in Client :
                            /\ request[c] # None
                            /\ request'[c] = None
                            /\ request[c].project = i
                            /\ request[c].staff
                        \/ \E r \in Runner : \E x \in job[r].todo : x.id = i /\ job'[r] # job[r]
<1>1. IInv /\ [Next]_vars => [OutOfReach]_vars
    <2> SUFFICES ASSUME IInv, Next, NEW i \in Project, row[i].deleted, row'[i] # row[i]
                 PROVE  ByStaff(i) \/ ByRun(i)
        OBVIOUS
    <2>1. ASSUME NEW c \in Client, Serve(c) PROVE ByStaff(i)
        <3>1. RowServed(c)
            BY <2>1, ServeSteps DEF Refuse
        <3>2. request'[c] = None /\ request[c] # None
            BY <3>1 DEF RowServed, Answer, IInv, TypeOK
        <3>3. request[c].project = i
            BY <3>1 DEF RowServed, IInv, TypeOK
        <3>4. request[c].staff
            BY <3>1, <3>3 DEF RowServed, MayPerform, CanLifecycle
        <3>5. QED
            BY <3>2, <3>3, <3>4
    <2>2. ASSUME NEW r \in Runner, TakeProject(r) PROVE ByRun(i)
        <3>1. ProjectTaken(r) /\ job'[r] # job[r]
            BY <2>2, TakeSteps
        <3>2. PICK x \in job[r].todo :
                x.id \in Project /\ row' = [row EXCEPT ![x.id] = CarriedOut(Kind(r), row[x.id])]
            BY <3>1 DEF ProjectTaken
        <3>3. x.id = i
            BY <3>2 DEF IInv, TypeOK
        <3>4. QED
            BY <3>1, <3>3
    <2>3. QED
        BY <2>1, <2>2 DEF Next, Tick, Receive, StartRun, Crash
<1>2. QED
    BY <1>1, InvInit, InvNext, PTL DEF Spec, OwnerCannotTouchDeleted

-----------------------------------------------------------------------------
(* Lifecycle implements Schedules: a service is an edit of one project or  *)
(* nothing, and a transaction of a job carries out the schedule of one     *)
(* project, whose key it is the first to use, or does nothing.             *)
LEMMA ServeIsEdit ==
    ASSUME IInv, NEW c \in Client, Serve(c)
    PROVE  (\E i \in Project : Abstract!Edit(i)) \/ UNCHANGED Abstract!scheduleVars
<1>1. CASE Refuse(c)
    BY <1>1 DEF Refuse, Answer, Abstract!scheduleVars
<1>2. CASE RowServed(c)
    <2>1. request[c].project \in Project
        BY <1>2, RequestFields DEF RowServed, IInv
    <2>2. Abstract!Edit(request[c].project)
        BY <1>2, RowType DEF RowServed, Answer, Abstract!Edit
    <2>3. QED
        BY <2>1, <2>2
<1>3. QED
    BY <1>1, <1>2, ServeSteps

LEMMA TakeIsCarryOut ==
    ASSUME IInv, NEW r \in Runner, TakeProject(r)
    PROVE  \/ \E i \in Project : Abstract!Publish(i) \/ Abstract!AutoClose(i)
           \/ UNCHANGED Abstract!scheduleVars
<1>1. UNCHANGED clock /\ (ProjectTaken(r) \/ UNCHANGED <<row, announced>>)
    BY TakeSteps
<1>2. CASE UNCHANGED <<row, announced>>
    BY <1>1, <1>2 DEF Abstract!scheduleVars
<1>3. CASE ProjectTaken(r)
    <2>1. PICK i \in Project :
            /\ IsDue(Kind(r), row[i], clock)
            /\ row' = [row EXCEPT ![i] = CarriedOut(Kind(r), row[i])]
            /\ <<i, Kind(r)>> \notin announced
            /\ announced' = announced \cup {<<i, Kind(r)>>}
        BY <1>3 DEF ProjectTaken
    <2>2. CASE Kind(r) = "published"
        <3>1. /\ Abstract!IsPast(row[i].publishAt) /\ ~row[i].public /\ ~row[i].published
              /\ row' = [row EXCEPT ![i].public = TRUE, ![i].published = TRUE,
                                    ![i].publishAt = None]
            BY <2>1, <2>2 DEF IsDue, PublishIsDue, CarriedOut, Abstract!IsPast, IInv, TypeOK
        <3>2. Abstract!Publish(i)
            BY <1>1, <2>1, <2>2, <3>1 DEF Abstract!Publish, Abstract!Announce
        <3>3. QED
            BY <3>2
    <2>3. CASE Kind(r) = "closed"
        <3>1. /\ Abstract!IsPast(row[i].closeAt) /\ row[i].open
              /\ row' = [row EXCEPT ![i].open = FALSE, ![i].closeAt = None]
            BY <2>1, <2>3 DEF IsDue, CloseIsDue, CarriedOut, Abstract!IsPast, IInv, TypeOK
        <3>2. Abstract!AutoClose(i)
            BY <1>1, <2>1, <2>3, <3>1 DEF Abstract!AutoClose, Abstract!Announce
        <3>3. QED
            BY <3>2
    <2>4. QED
        BY <2>2, <2>3, KindType
<1>4. QED
    BY <1>1, <1>2, <1>3

(* Whatever requests are under way and however the runs of the jobs        *)
(* overlap and die, what a reader of the project rows and of the audit     *)
(* table sees is what Schedules allows.                                    *)
THEOREM LifecycleImplementsSchedules == Spec => ImplementsSchedules
<1>1. Init => Abstract!SchedulesInit
    BY DEF Init, Abstract!SchedulesInit, Abstract!Row, Abstract!Unscheduled
<1>2. IInv /\ [Next]_vars => [Abstract!SchedulesNext]_(Abstract!scheduleVars)
    <2> SUFFICES ASSUME IInv, [Next]_vars
                 PROVE  Abstract!SchedulesNext \/ UNCHANGED Abstract!scheduleVars
        OBVIOUS
    <2> USE DEF Abstract!SchedulesNext
    <2>1. CASE Tick
        BY <2>1 DEF Tick, Abstract!PassTime
    <2>2. ASSUME NEW c \in Client, Serve(c)
          PROVE  Abstract!SchedulesNext \/ UNCHANGED Abstract!scheduleVars
        BY <2>2, ServeIsEdit
    <2>3. ASSUME NEW r \in Runner, TakeProject(r)
          PROVE  Abstract!SchedulesNext \/ UNCHANGED Abstract!scheduleVars
        BY <2>3, TakeIsCarryOut
    <2>4. QED
        BY <2>1, <2>2, <2>3
        DEF Next, vars, Receive, StartRun, Crash, Abstract!scheduleVars
<1>3. QED
    BY <1>1, <1>2, InvInit, InvNext, PTL
    DEF Spec, ImplementsSchedules, Abstract!SchedulesSpec
=============================================================================
