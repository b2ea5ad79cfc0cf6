---------------------------- MODULE OutboxProofs ----------------------------
(***************************************************************************)
(* The safety properties of Outbox for every number of messages, workers   *)
(* and crashes.                                                            *)
(*                                                                         *)
(* The bound on copies is not inductive by itself: that a run finds a row  *)
(* pending must mean that no copy is out but those that died with a run.   *)
(* This in turn needs that a row is held by one worker at a time, and      *)
(* stays pending as long as it is held.                                    *)
(*                                                                         *)
(* The outbox implements Delivery: what happens to a message is told by    *)
(* the worker that holds its row.  The Inbox adds readers to the Outbox    *)
(* and implements it, so that what holds of the deliveries holds with      *)
(* readers, too.                                                           *)
(***************************************************************************)
EXTENDS Inbox, FiniteSetTheorems, WellFoundedInduction, TLAPS

(* A worker holds a row exactly while it is busy with it. *)
BusyWithARow == \A w \in Worker : run[w].row = None <=> run[w].step = "next"

(* Two workers never hold the same row. *)
ExclusiveRows ==
    \A v, w \in Worker : (run[v].row # None /\ run[v].row = run[w].row) => v = w

HeldRowsArePending ==
    \A w \in Worker : run[w].row # None => status[run[w].row] = "pending"

(* Some worker has handed n over and not recorded it yet. *)
InFlight(n) == \E w \in Worker : run[w].row = n /\ run[w].step \in Handed

(* Copies of a pending row that are not in flight died with a run. *)
PendingCopiesAreLost ==
    \A n \in Notice : (status[n] = "pending" /\ ~InFlight(n)) => mails[n] <= lost[n]

AcceptedIsMailed ==
    \A w \in Worker : run[w].step = "accepted" => mails[run[w].row] > 0

IInv ==
    /\ TypeOK
    /\ BusyWithARow
    /\ ExclusiveRows
    /\ HeldRowsArePending
    /\ PendingCopiesAreLost
    /\ AcceptedIsMailed
    /\ DuplicatesNeedCrashes
    /\ SentIsTrue

USE DEF BusyWithARow, ExclusiveRows, HeldRowsArePending, PendingCopiesAreLost,
        AcceptedIsMailed, DuplicatesNeedCrashes, SentIsTrue

-----------------------------------------------------------------------------
(* A non-empty set of rows has an oldest one.                              *)
LEMMA OldestIsListed ==
    ASSUME NEW rows, rows \subseteq Notice, rows # {}
    PROVE  Oldest(rows) \in rows
<1> DEFINE R == OpToRel(<, Nat)
<1>1. rows \subseteq Nat
    BY NoticeAssumption
<1>2. PICK n \in rows : \A m \in rows : <<m, n>> \notin R
    <2> HIDE DEF R
    <2>1. IsWellFoundedOn(R, Nat)
        BY NatLessThanWellFounded DEF R
    <2>2. QED
        BY <1>1, <2>1, WFMin
<1>3. \A m \in rows : ~(m < n)
    BY <1>1, <1>2 DEF OpToRel
<1>4. \A m \in rows : n <= m
    BY <1>1, <1>3
<1>5. QED
    BY <1>4 DEF Oldest

LEMMA IInvInit == Init => IInv
<1> SUFFICES ASSUME Init PROVE IInv
    OBVIOUS
<1>1. TypeOK
    BY MaxCrashesAssumption DEF Init, TypeOK, Run, Idle
<1>2. QED
    BY <1>1, NoticeAssumption DEF Init, IInv, Idle, InFlight, Handed

LEMMA CreateKeepsIInv ==
    ASSUME IInv, NEW n \in Notice, CreateNotification(n)
    PROVE  IInv'
<1>1. TypeOK'
    BY DEF IInv, TypeOK, CreateNotification
<1>2. QED
    BY <1>1 DEF IInv, CreateNotification, InFlight

LEMMA StartKeepsIInv ==
    ASSUME IInv, NEW w \in Worker, StartRun(w)
    PROVE  IInv'
<1>1. TypeOK'
    BY DEF IInv, TypeOK, StartRun, Run, Pending
<1>2. \A v \in Worker : run'[v].row = run[v].row /\ run'[v].step = run[v].step
    BY DEF IInv, TypeOK, StartRun, Run
<1>3. \A n \in Notice : InFlight(n) <=> InFlight(n)'
    BY <1>2 DEF InFlight
<1>4. QED
    BY <1>1, <1>2, <1>3 DEF IInv, StartRun

LEMMA LockKeepsIInv ==
    ASSUME IInv, NEW w \in Worker, LockRow(w)
    PROVE  IInv'
<1> DEFINE n == Oldest(run[w].todo)
<1>1. run[w] \in Run /\ run[w].todo \subseteq Notice
    BY DEF IInv, TypeOK, Run
<1>2. n \in run[w].todo /\ n \in Notice /\ n # None
    BY <1>1, OldestIsListed, NoticeAssumption DEF LockRow
<1> HIDE DEF n
<1>3. run[w].row = None /\ run[w].step = "next"
    BY DEF IInv, LockRow
<1>4. /\ \A v \in Worker \ {w} : run'[v] = run[v]
      /\ \/ run'[w].row = n /\ run'[w].step = "sending" /\ status[n] = "pending"
         \/ run'[w].row = None /\ run'[w].step = "next"
      /\ ~Locked(n)
    BY DEF IInv, TypeOK, LockRow, StillPending, n
<1>5. TypeOK'
    BY <1>1, <1>2 DEF IInv, TypeOK, LockRow, Run, Handed, n
<1>6. \A m \in Notice : InFlight(m)' <=> InFlight(m)
    BY <1>3, <1>4 DEF InFlight, Handed
<1>7. UNCHANGED <<status, mails, lost>>
    BY DEF LockRow
<1>8. BusyWithARow' /\ AcceptedIsMailed'
    BY <1>2, <1>4, <1>7 DEF IInv
<1>9. ExclusiveRows' /\ HeldRowsArePending'
    BY <1>2, <1>4, <1>7 DEF IInv, Locked
<1>10. QED
    BY <1>5, <1>6, <1>7, <1>8, <1>9 DEF IInv

LEMMA SendKeepsIInv ==
    ASSUME IInv, NEW w \in Worker, Send(w)
    PROVE  IInv'
<1> DEFINE n == run[w].row
<1>1. run[w] \in Run /\ run[w].step = "sending" /\ n \in Notice /\ n # None
    BY DEF IInv, TypeOK, Run, Send
<1>2. ~InFlight(n) /\ status[n] = "pending"
    BY <1>1 DEF IInv, InFlight, Handed
<1>3. mails[n] <= lost[n] /\ mails[n] \in Nat /\ lost[n] \in Nat
    BY <1>1, <1>2 DEF IInv, TypeOK
<1>4. /\ \A v \in Worker : run'[v].row = run[v].row
      /\ \A v \in Worker \ {w} : run'[v] = run[v]
      /\ run'[w].step \in Handed
      /\ run'[w].todo = run[w].todo
      /\ UNCHANGED <<status, lost>>
    BY DEF IInv, TypeOK, Send, Report, Run, Handed
<1>5. /\ \A m \in Notice \ {n} : mails'[m] = mails[m]
      /\ mails'[n] \in {mails[n], mails[n] + 1}
      /\ run'[w].step = "accepted" => mails'[n] = mails[n] + 1
    BY <1>1 DEF IInv, TypeOK, Send, Report, Run
<1>6. TypeOK'
    BY <1>1, <1>3 DEF IInv, TypeOK, Send, Report, Run, Handed
<1>7. \A m \in Notice : InFlight(m)' <=> (InFlight(m) \/ m = n)
    BY <1>1, <1>4 DEF InFlight, Handed
<1>8. BusyWithARow' /\ ExclusiveRows' /\ HeldRowsArePending'
    BY <1>1, <1>4 DEF IInv, Handed
<1>9. PendingCopiesAreLost' /\ DuplicatesNeedCrashes' /\ SentIsTrue'
    BY <1>1, <1>3, <1>4, <1>5, <1>7, <1>2 DEF IInv, TypeOK
<1>10. AcceptedIsMailed'
    <2> SUFFICES ASSUME NEW v \in Worker, run'[v].step = "accepted"
                 PROVE  mails'[run'[v].row] > 0
        OBVIOUS
    <2>1. CASE v = w
        BY <2>1, <1>3, <1>4, <1>5
    <2>2. CASE v # w
        <3>1. run[v].row \in Notice /\ mails[run[v].row] > 0
            BY <2>2, <1>4 DEF IInv, TypeOK, Run
        <3>2. run[v].row # n
            BY <2>2, <1>1 DEF IInv
        <3>3. QED
            BY <3>1, <3>2, <1>4, <1>5
    <2>3. QED
        BY <2>1, <2>2
<1>11. QED
    BY <1>6, <1>8, <1>9, <1>10 DEF IInv

LEMMA RecordKeepsIInv ==
    ASSUME IInv, NEW w \in Worker, Record(w)
    PROVE  IInv'
<1> DEFINE n == run[w].row
<1>1. run[w] \in Run /\ run[w].step \in Handed /\ n \in Notice /\ n # None
    BY DEF IInv, TypeOK, Run, Record, Handed
<1>2. /\ \A v \in Worker \ {w} : run'[v] = run[v] /\ run[v].row # n
      /\ run'[w].row = None /\ run'[w].step = "next" /\ run'[w].todo = run[w].todo
      /\ \A m \in Notice \ {n} : status'[m] = status[m]
      /\ status'[n] = Outcome(run[w].step)
      /\ UNCHANGED <<mails, lost>>
    BY <1>1 DEF IInv, TypeOK, Record, Run
<1>3. TypeOK'
    BY <1>1 DEF IInv, TypeOK, Record, Run, Handed, Outcome
<1>4. BusyWithARow' /\ ExclusiveRows' /\ AcceptedIsMailed' /\ DuplicatesNeedCrashes'
    BY <1>2 DEF IInv
<1>5. HeldRowsArePending'
    BY <1>2 DEF IInv, TypeOK, Run
<1>6. \A m \in Notice \ {n} : InFlight(m)' <=> InFlight(m)
    <2> SUFFICES ASSUME NEW m \in Notice, m # n, NEW v \in Worker
                 PROVE  (run'[v].row = m /\ run'[v].step \in Handed)
                            <=> (run[v].row = m /\ run[v].step \in Handed)
        BY DEF InFlight
    <2>1. m # None
        BY NoticeAssumption
    <2>2. QED
        BY <1>2, <2>1
<1>7. PendingCopiesAreLost'
    BY <1>2, <1>6 DEF IInv, Outcome
<1>8. SentIsTrue'
    BY <1>1, <1>2 DEF IInv, Outcome, Handed
<1>9. QED
    BY <1>3, <1>4, <1>5, <1>7, <1>8 DEF IInv

LEMMA CrashKeepsIInv ==
    ASSUME IInv, NEW w \in Worker, Crash(w)
    PROVE  IInv'
<1> DEFINE n == run[w].row
<1>1. /\ \A v \in Worker \ {w} : run'[v] = run[v]
      /\ run'[w] = Idle
      /\ UNCHANGED <<status, mails>>
    BY DEF IInv, TypeOK, Crash
<1>2. /\ lost' \in [Notice -> Nat]
      /\ \A m \in Notice : lost'[m] >= lost[m]
      /\ run[w].step \in Handed => n \in Notice /\ lost'[n] = lost[n] + 1
    BY DEF IInv, TypeOK, Crash, Run, Handed
<1>3. TypeOK'
    BY <1>2, MaxCrashesAssumption DEF IInv, TypeOK, Crash, Idle, Run
<1>4. BusyWithARow' /\ ExclusiveRows' /\ HeldRowsArePending' /\ AcceptedIsMailed'
      /\ SentIsTrue'
    BY <1>1 DEF IInv, Idle
<1>5. DuplicatesNeedCrashes'
    BY <1>1, <1>2 DEF IInv, TypeOK
<1>6. PendingCopiesAreLost'
    <2> SUFFICES ASSUME NEW m \in Notice, status[m] = "pending", ~InFlight(m)'
                 PROVE  mails[m] <= lost'[m]
        BY <1>1
    <2>1. mails[m] \in Nat /\ lost[m] \in Nat /\ lost'[m] \in Nat
        BY <1>2 DEF IInv, TypeOK
    <2>2. CASE InFlight(m)
        <3>1. run[w].row = m /\ run[w].step \in Handed
            BY <2>2, <1>1 DEF InFlight
        <3>2. QED
            BY <3>1, <2>1, <1>2 DEF IInv
    <2>3. CASE ~InFlight(m)
        BY <2>1, <2>3, <1>2 DEF IInv
    <2>4. QED
        BY <2>2, <2>3
<1>7. QED
    BY <1>3, <1>4, <1>5, <1>6 DEF IInv

LEMMA IInvNext == IInv /\ [Next]_vars => IInv'
<1> SUFFICES ASSUME IInv, [Next]_vars PROVE IInv'
    OBVIOUS
<1>1. CASE UNCHANGED vars
    BY <1>1 DEF vars, IInv, TypeOK, InFlight
<1>2. ASSUME NEW n \in Notice, CreateNotification(n) PROVE IInv'
    BY <1>2, CreateKeepsIInv
<1>3. ASSUME NEW w \in Worker, StartRun(w) PROVE IInv'
    BY <1>3, StartKeepsIInv
<1>4. ASSUME NEW w \in Worker, LockRow(w) PROVE IInv'
    BY <1>4, LockKeepsIInv
<1>5. ASSUME NEW w \in Worker, Send(w) PROVE IInv'
    BY <1>5, SendKeepsIInv
<1>6. ASSUME NEW w \in Worker, Record(w) PROVE IInv'
    BY <1>6, RecordKeepsIInv
<1>7. ASSUME NEW w \in Worker, Crash(w) PROVE IInv'
    BY <1>7, CrashKeepsIInv
<1>8. QED
    BY <1>1, <1>2, <1>3, <1>4, <1>5, <1>6, <1>7 DEF Next, Work

LEMMA IInvAlways == Spec => []IInv
BY IInvInit, IInvNext, PTL DEF Spec

-----------------------------------------------------------------------------
(* Every variable of the outbox keeps its type.                            *)
THEOREM TypeCorrect == Spec => []TypeOK
<1>1. IInv => TypeOK
    BY DEF IInv
<1>2. QED
    BY <1>1, IInvAlways, PTL

(* However runs overlap and die, a message goes out once and then once     *)
(* more for every run that died after handing it over.                     *)
THEOREM OneCopyPerAttempt == Spec => []DuplicatesNeedCrashes
<1>1. IInv => DuplicatesNeedCrashes
    BY DEF IInv
<1>2. QED
    BY <1>1, IInvAlways, PTL

(* Without a death nothing is lost, whatever else goes wrong.              *)
LossesNeedCrashes == \A n \in Notice : lost[n] <= crashes

LEMMA LossesNext == TypeOK /\ LossesNeedCrashes /\ [Next]_vars => LossesNeedCrashes'
<1> SUFFICES ASSUME TypeOK, LossesNeedCrashes, [Next]_vars
             PROVE  LossesNeedCrashes'
    OBVIOUS
<1>1. lost \in [Notice -> Nat] /\ crashes \in Nat
    BY MaxCrashesAssumption DEF TypeOK
<1>2. CASE UNCHANGED <<lost, crashes>>
    BY <1>2 DEF LossesNeedCrashes
<1>3. ASSUME NEW w \in Worker, Crash(w) PROVE LossesNeedCrashes'
    <2>1. /\ crashes' = crashes + 1
          /\ \A n \in Notice : lost'[n] <= lost[n] + 1
        BY <1>1, <1>3 DEF Crash
    <2>2. \A n \in Notice : lost'[n] \in Nat
        BY <1>1, <1>3 DEF Crash
    <2>3. QED
        BY <1>1, <2>1, <2>2 DEF LossesNeedCrashes
<1>4. QED
    BY <1>2, <1>3
    DEF Next, Work, vars, CreateNotification, StartRun, LockRow, Send, Record

(* What the recipient of a message may see in the worst case: one copy,    *)
(* and one for every worker that died.  Where none dies a message is       *)
(* never sent twice, however runs overlap and the mail server errs.        *)
CrashesBoundCopies == \A n \in Notice : mails[n] <= 1 + crashes

THEOREM CopiesAreBounded == Spec => []CrashesBoundCopies
<1>1. Init => LossesNeedCrashes
    <2> SUFFICES ASSUME Init, NEW n \in Notice PROVE lost[n] <= crashes
        BY DEF LossesNeedCrashes
    <2>1. lost[n] = 0 /\ crashes = 0
        BY DEF Init
    <2>2. QED
        BY <2>1
<1>2. IInv => TypeOK
    BY DEF IInv
<1>3. IInv /\ LossesNeedCrashes => CrashesBoundCopies
    <2> SUFFICES ASSUME IInv, LossesNeedCrashes, NEW n \in Notice
                 PROVE  mails[n] <= 1 + crashes
        BY DEF CrashesBoundCopies
    <2>1. mails[n] \in Nat /\ lost[n] \in Nat /\ crashes \in Nat
        BY MaxCrashesAssumption DEF IInv, TypeOK
    <2>2. mails[n] <= 1 + lost[n] /\ lost[n] <= crashes
        BY DEF IInv, LossesNeedCrashes
    <2>3. QED
        BY <2>1, <2>2
<1>4. QED
    BY <1>1, <1>2, <1>3, IInvAlways, LossesNext, PTL DEF Spec

(* What send_pending_emails has marked as sent was accepted by the server. *)
THEOREM SentRowsTellTheTruth == Spec => []SentIsTrue
<1>1. IInv => SentIsTrue
    BY DEF IInv
<1>2. QED
    BY <1>1, IInvAlways, PTL

-----------------------------------------------------------------------------
(* The outbox implements Delivery.  A row is listed, and so locked, only   *)
(* when it is there.                                                       *)
RowsAreFiled ==
    /\ \A w \in Worker : /\ run[w].todo \subseteq filed
                         /\ run[w].row \in filed \cup {None}
    /\ \A n \in Notice \ filed : status[n] = "pending"

FiledInv == IInv /\ RowsAreFiled

LEMMA FiledInvInit == Init => FiledInv
BY IInvInit DEF Init, FiledInv, RowsAreFiled, Idle

LEMMA FiledInvNext == FiledInv /\ [Next]_vars => FiledInv'
<1> SUFFICES ASSUME FiledInv, [Next]_vars PROVE RowsAreFiled'
    BY IInvNext DEF FiledInv
<1> USE DEF FiledInv, RowsAreFiled
<1>0. TypeOK /\ run \in [Worker -> Run] /\ filed \subseteq Notice
    BY DEF IInv, TypeOK
<1>1. CASE UNCHANGED vars
    BY <1>1 DEF vars
<1>2. ASSUME NEW n \in Notice, CreateNotification(n) PROVE RowsAreFiled'
    BY <1>2 DEF CreateNotification
<1>3. ASSUME NEW w \in Worker, StartRun(w) PROVE RowsAreFiled'
    BY <1>0, <1>3 DEF StartRun, Pending, Run
<1>4. ASSUME NEW w \in Worker, LockRow(w) PROVE RowsAreFiled'
    <2>1. run[w].todo \subseteq Notice
        BY <1>0
    <2>2. Oldest(run[w].todo) \in filed
        BY <1>4, <2>1, OldestIsListed DEF LockRow
    <2>3. /\ \A v \in Worker \ {w} : run'[v] = run[v]
          /\ run'[w].todo \subseteq run[w].todo
          /\ run'[w].row \in filed \cup {None}
          /\ UNCHANGED <<filed, status>>
        BY <1>0, <1>4, <2>2 DEF LockRow
    <2>4. QED
        BY <2>3
<1>5. ASSUME NEW w \in Worker, Send(w) PROVE RowsAreFiled'
    <2>1. \A v \in Worker : run'[v].todo = run[v].todo /\ run'[v].row = run[v].row
        BY <1>0, <1>5 DEF Send, Report, Run
    <2>2. QED
        BY <1>5, <2>1 DEF Send
<1>6. ASSUME NEW w \in Worker, Record(w) PROVE RowsAreFiled'
    <2>1. run[w].row \in filed
        BY <1>6 DEF IInv, Record, Handed
    <2>2. \A v \in Worker : run'[v].todo = run[v].todo /\ run'[v].row \in {run[v].row, None}
        BY <1>0, <1>6 DEF Record, Run
    <2>3. \A n \in Notice \ filed : status'[n] = status[n]
        BY <1>0, <1>6, <2>1 DEF Record, TypeOK
    <2>4. QED
        BY <1>6, <2>2, <2>3 DEF Record
<1>7. ASSUME NEW w \in Worker, Crash(w) PROVE RowsAreFiled'
    BY <1>0, <1>7 DEF Crash, Idle
<1>8. QED
    BY <1>1, <1>2, <1>3, <1>4, <1>5, <1>6, <1>7 DEF Next, Work

(* Where a message is, told by the worker that holds its row.              *)
PhasesAreClear ==
    \A n \in Notice :
        /\ n \notin filed => Phase(n) = "absent"
        /\ \A w \in Worker : run[w].row = n => Phase(n) = run[w].step
        /\ (n \in filed /\ \A w \in Worker : run[w].row # n) => Phase(n) = status[n]

LEMMA PhaseMeaning == FiledInv => PhasesAreClear
<1> SUFFICES ASSUME FiledInv, NEW n \in Notice
             PROVE  /\ n \notin filed => Phase(n) = "absent"
                    /\ \A w \in Worker : run[w].row = n => Phase(n) = run[w].step
                    /\ (n \in filed /\ \A w \in Worker : run[w].row # n)
                            => Phase(n) = status[n]
    BY DEF PhasesAreClear
<1> DEFINE holders == {w \in Worker : run[w].row = n}
<1>1. ASSUME NEW w \in Worker, run[w].row = n PROVE Phase(n) = run[w].step
    <2>1. n \in filed /\ n # None
        BY <1>1, NoticeAssumption DEF FiledInv, RowsAreFiled
    <2>2. holders = {w}
        BY <1>1, <2>1 DEF FiledInv, IInv
    <2>3. (CHOOSE v \in holders : TRUE) = w
        BY <2>2
    <2>4. QED
        BY <2>1, <2>2, <2>3 DEF Phase
<1>2. QED
    BY <1>1 DEF Phase

(* A step that moves one message in its phase.                             *)
Phases == [n \in Notice |-> Phase(n)]

LEMMA PhaseMoves ==
    ASSUME NEW n \in Notice, NEW from, NEW to, Phase(n) = from, Phase(n)' = to,
           \A m \in Notice \ {n} : Phase(m)' = Phase(m)
    PROVE  Abstract!Move(n, from, to)
<1>1. Phases[n] = from
    BY DEF Phases
<1>2. Phases' = [Phases EXCEPT ![n] = to]
    BY DEF Phases
<1>3. QED
    BY <1>1, <1>2 DEF Abstract!Move, Phases

LEMMA PhasesStay ==
    ASSUME \A m \in Notice : Phase(m)' = Phase(m), UNCHANGED <<mails, lost>>
    PROVE  UNCHANGED Abstract!deliveryVars
<1>1. [n \in Notice |-> Phase(n)]' = [n \in Notice |-> Phase(n)]
    OBVIOUS
<1>2. QED
    BY <1>1 DEF Abstract!deliveryVars

(* One step of the outbox is a step of one message, or none.               *)
LEMMA StepsOfMessages ==
    ASSUME FiledInv, FiledInv', PhasesAreClear, PhasesAreClear', Next
    PROVE  Abstract!DeliveryNext \/ UNCHANGED Abstract!deliveryVars
<1>0. /\ TypeOK /\ run \in [Worker -> Run] /\ filed \subseteq Notice /\ None \notin Notice
      /\ RowsAreFiled
    BY NoticeAssumption DEF FiledInv, IInv, TypeOK
<1> USE DEF PhasesAreClear
<1>1. ASSUME NEW n \in Notice, CreateNotification(n)
      PROVE  Abstract!DeliveryNext \/ UNCHANGED Abstract!deliveryVars
    <2>1. \A m \in Notice \ {n} : Phase(m)' = Phase(m)
        BY <1>1 DEF CreateNotification, Phase
    <2>2. CASE n \in filed
        <3>1. Phase(n)' = Phase(n)
            BY <1>1, <2>2 DEF CreateNotification, Phase
        <3>2. QED
            BY <1>1, <2>1, <3>1, PhasesStay DEF CreateNotification
    <2>3. CASE n \notin filed
        <3>1. \A w \in Worker : run[w].row # n
            BY <1>0, <2>3 DEF RowsAreFiled
        <3>2. Phase(n) = "absent" /\ Phase(n)' = "pending"
            BY <1>0, <1>1, <2>3, <3>1 DEF CreateNotification, RowsAreFiled
        <3>3. Abstract!File(n)
            BY <1>1, <2>1, <3>2, PhaseMoves DEF Abstract!File, CreateNotification
        <3>4. QED
            BY <3>3 DEF Abstract!DeliveryNext
    <2>4. QED
        BY <2>2, <2>3
<1>2. ASSUME NEW w \in Worker, StartRun(w)
      PROVE  UNCHANGED Abstract!deliveryVars
    <2>1. \A v \in Worker : run'[v].row = run[v].row /\ run'[v].step = run[v].step
        BY <1>0, <1>2 DEF StartRun, Run
    <2>2. ASSUME NEW m \in Notice PROVE Phase(m)' = Phase(m)
        BY <1>2, <2>1 DEF StartRun
    <2>3. QED
        BY <1>2, <2>2, PhasesStay DEF StartRun
<1>3. ASSUME NEW w \in Worker, LockRow(w)
      PROVE  Abstract!DeliveryNext \/ UNCHANGED Abstract!deliveryVars
    <2>0. PICK n : n = Oldest(run[w].todo)
        OBVIOUS
    <2>1. n \in filed /\ n \in Notice
        BY <1>0, <1>3, <2>0, OldestIsListed DEF LockRow, RowsAreFiled, Run
    <2>2. run[w].row = None
        BY <1>3 DEF LockRow, FiledInv, IInv
    <2>3. /\ \A v \in Worker \ {w} : run'[v] = run[v]
          /\ UNCHANGED <<filed, status, mails, lost>>
          /\ \A v \in Worker : run[v].row # n
          /\ \/ run'[w].row = n /\ run'[w].step = "sending" /\ status[n] = "pending"
             \/ run'[w].row = None
        BY <1>0, <1>3, <2>0 DEF LockRow, Locked, StillPending
    <2>4. \A m \in Notice \ {n} : Phase(m)' = Phase(m)
        <3> SUFFICES ASSUME NEW m \in Notice, m # n PROVE Phase(m)' = Phase(m)
            OBVIOUS
        <3>1. \A v \in Worker : run'[v].row = m <=> run[v].row = m
            BY <1>0, <2>2, <2>3
        <3>2. \A v \in Worker : run[v].row = m => run'[v].step = run[v].step
            BY <1>0, <2>2, <2>3
        <3>3. QED
            BY <2>3, <3>1, <3>2
    <2>5. CASE run'[w].row = n /\ run'[w].step = "sending" /\ status[n] = "pending"
        <3>1. Phase(n) = "pending" /\ Phase(n)' = "sending"
            BY <2>1, <2>3, <2>5
        <3>2. Abstract!Attempt(n)
            BY <2>1, <2>3, <2>4, <3>1, PhaseMoves DEF Abstract!Attempt
        <3>3. QED
            BY <2>1, <3>2 DEF Abstract!DeliveryNext
    <2>6. CASE run'[w].row = None
        <3>1. \A v \in Worker : run'[v].row # n
            BY <1>0, <2>1, <2>3, <2>6
        <3>2. Phase(n)' = Phase(n)
            BY <2>1, <2>3, <3>1
        <3>3. QED
            BY <2>3, <2>4, <3>2, PhasesStay
    <2>7. QED
        BY <2>3, <2>5, <2>6
<1>4. ASSUME NEW w \in Worker, Send(w)
      PROVE  Abstract!DeliveryNext
    <2>0. PICK n : n = run[w].row
        OBVIOUS
    <2>1. n \in Notice /\ Phase(n) = "sending"
        BY <1>0, <1>4, <2>0 DEF Send, FiledInv, IInv, Run
    <2>2. /\ \A v \in Worker : run'[v].row = run[v].row
          /\ \A v \in Worker \ {w} : run'[v].step = run[v].step
          /\ UNCHANGED <<filed, status, lost>>
        BY <1>0, <1>4 DEF Send, Report, Run
    <2>3. \A m \in Notice \ {n} : Phase(m)' = Phase(m)
        <3> SUFFICES ASSUME NEW m \in Notice, m # n PROVE Phase(m)' = Phase(m)
            OBVIOUS
        <3>1. \A v \in Worker : run'[v].row = m => run'[v].step = run[v].step
            BY <2>0, <2>2
        <3>2. QED
            BY <2>2, <3>1
    <2>4. Phase(n)' = run'[w].step
        BY <2>0, <2>1, <2>2
    <2>5. \/ /\ run'[w].step = "accepted" \/ run'[w].step = "raised"
             /\ mails' = [mails EXCEPT ![n] = @ + 1]
          \/ /\ run'[w].step = "raised"
             /\ UNCHANGED mails
        BY <1>0, <1>4, <2>0 DEF Send, Report, Run
    <2>6. \/ Abstract!Move(n, "sending", "accepted") /\ run'[w].step = "accepted"
          \/ Abstract!Move(n, "sending", "raised") /\ run'[w].step = "raised"
        BY <2>1, <2>3, <2>4, <2>5, PhaseMoves
    <2>7. Abstract!HandOver(n)
        BY <2>2, <2>5, <2>6 DEF Abstract!HandOver
    <2>8. QED
        BY <2>1, <2>7 DEF Abstract!DeliveryNext
<1>5. ASSUME NEW w \in Worker, Record(w)
      PROVE  Abstract!DeliveryNext
    <2>0. PICK n : n = run[w].row
        OBVIOUS
    <2>1. n \in Notice /\ n \in filed /\ Phase(n) = run[w].step /\ run[w].step \in Handed
        BY <1>0, <1>5, <2>0 DEF Record, Handed, FiledInv, IInv, RowsAreFiled
    <2>2. /\ \A v \in Worker \ {w} : run'[v] = run[v] /\ run[v].row # n
          /\ run'[w].row = None
          /\ \A m \in Notice \ {n} : status'[m] = status[m]
          /\ status'[n] = Outcome(run[w].step)
          /\ UNCHANGED <<filed, mails, lost>>
        BY <1>0, <1>5, <2>0, <2>1 DEF Record, Run, FiledInv, IInv, TypeOK
    <2>3. ASSUME NEW m \in Notice, m # n PROVE Phase(m)' = Phase(m)
        <3>1. \A v \in Worker : run'[v].row = m <=> run[v].row = m
            BY <1>0, <2>0, <2>2, <2>3
        <3>2. \A v \in Worker : run[v].row = m => run'[v].step = run[v].step
            BY <2>0, <2>2, <2>3
        <3>3. QED
            BY <2>2, <2>3, <3>1, <3>2
    <2>4. Phase(n)' = Outcome(run[w].step)
        <3>1. \A v \in Worker : run'[v].row # n
            BY <1>0, <2>1, <2>2
        <3>2. QED
            BY <2>1, <2>2, <3>1
    <2>5. \/ Abstract!Move(n, "accepted", "sent")
          \/ Abstract!Move(n, "raised", "failed")
        BY <2>1, <2>3, <2>4, PhaseMoves DEF Handed, Outcome
    <2>6. Abstract!Settle(n)
        BY <2>2, <2>5 DEF Abstract!Settle
    <2>7. QED
        BY <2>1, <2>6 DEF Abstract!DeliveryNext
<1>6. ASSUME NEW w \in Worker, Crash(w)
      PROVE  Abstract!DeliveryNext \/ UNCHANGED Abstract!deliveryVars
    <2>0. PICK n : n = run[w].row
        OBVIOUS
    <2>1. /\ \A v \in Worker \ {w} : run'[v] = run[v]
          /\ run'[w].row = None
          /\ UNCHANGED <<filed, status, mails>>
        BY <1>0, <1>6 DEF Crash, Idle
    <2>2. \A m \in Notice \ {n} : Phase(m)' = Phase(m)
        <3> SUFFICES ASSUME NEW m \in Notice, m # n PROVE Phase(m)' = Phase(m)
            OBVIOUS
        <3>1. \A v \in Worker : run'[v].row = m <=> run[v].row = m
            BY <1>0, <2>0, <2>1
        <3>2. \A v \in Worker : run[v].row = m => run'[v].step = run[v].step
            BY <2>0, <2>1
        <3>3. QED
            BY <2>1, <3>1, <3>2
    <2>3. CASE n = None
        <3>1. UNCHANGED lost
            BY <1>6, <2>0, <2>3 DEF Crash, Handed, FiledInv, IInv
        <3>2. QED
            BY <1>0, <2>1, <2>2, <2>3, <3>1, PhasesStay
    <2>4. CASE n # None
        <3>1. /\ n \in Notice /\ n \in filed /\ status[n] = "pending"
              /\ Phase(n) = run[w].step /\ run[w].step \in {"sending"} \cup Handed
              /\ \A v \in Worker \ {w} : run[v].row # n
            BY <1>0, <2>0, <2>4 DEF FiledInv, IInv, RowsAreFiled, Run
        <3>2. Phase(n)' = "pending"
            BY <1>0, <2>1, <3>1
        <3>3. lost' = IF run[w].step \in Handed THEN [lost EXCEPT ![n] = @ + 1] ELSE lost
            BY <1>6, <2>0 DEF Crash
        <3>4. Abstract!Move(n, run[w].step, "pending")
            BY <2>2, <3>1, <3>2, PhaseMoves
        <3>5. Abstract!Lose(n)
            BY <2>1, <3>1, <3>3, <3>4 DEF Abstract!Lose, Handed
        <3>6. QED
            BY <3>1, <3>5 DEF Abstract!DeliveryNext
    <2>5. QED
        BY <2>3, <2>4
<1>7. QED
    BY <1>1, <1>2, <1>3, <1>4, <1>5, <1>6 DEF Next, Work

(* Overlapping runs, their lists and their deaths are hidden: to every     *)
(* message the outbox is what Delivery promises.                           *)
THEOREM OutboxImplementsDelivery == Spec => ImplementsDelivery
<1>1. Init => Abstract!DeliveryInit
    <2> SUFFICES ASSUME Init PROVE Abstract!DeliveryInit
        OBVIOUS
    <2>1. \A n \in Notice : Phase(n) = "absent"
        BY DEF Init, Phase
    <2>2. QED
        BY <2>1 DEF Init, Abstract!DeliveryInit
<1>2. UNCHANGED vars => UNCHANGED Abstract!deliveryVars
    BY DEF vars, Abstract!deliveryVars, Phase
<1>3. FiledInv /\ FiledInv' /\ PhasesAreClear /\ PhasesAreClear' /\ [Next]_vars
        => [Abstract!DeliveryNext]_(Abstract!deliveryVars)
    BY <1>2, StepsOfMessages
<1>4. QED
    BY <1>1, <1>3, FiledInvInit, FiledInvNext, PhaseMeaning, PTL
    DEF Spec, ImplementsDelivery, Abstract!DeliverySpec

-----------------------------------------------------------------------------
(* To the outbox, whatever a user reads is a stutter.                      *)
LEMMA InboxStepIsOutboxStep == [InboxNext]_inboxVars => [Next]_vars
BY DEF InboxNext, Deliver, Open, MarkRead, MarkAllRead, Fail, inboxVars

(* Reading notifications never gets in the way of delivering them.         *)
THEOREM InboxImplementsOutbox == InboxSpec => Spec
<1>1. InboxInit => Init
    BY DEF InboxInit
<1>2. QED
    BY <1>1, InboxStepIsOutboxStep, PTL DEF InboxSpec, Spec

(* Nor does it change what becomes of a message.                           *)
THEOREM InboxImplementsDelivery == InboxSpec => ImplementsDelivery
BY InboxImplementsOutbox, OutboxImplementsDelivery

InboxIInv == IInv /\ InboxTypeOK /\ ReadTimeSettles

LEMMA InboxInitTyped == InboxInit => InboxIInv
<1> SUFFICES ASSUME InboxInit PROVE InboxIInv
    OBVIOUS
<1>1. IInv
    BY IInvInit DEF InboxInit
<1>2. InboxTypeOK
    BY <1>1 DEF InboxInit, InboxTypeOK, IInv
<1>3. ReadTimeSettles
    BY DEF InboxInit, ReadTimeSettles
<1>4. QED
    BY <1>1, <1>2, <1>3 DEF InboxIInv

LEMMA InboxTyped ==
    ASSUME IInv, IInv', InboxTypeOK, [InboxNext]_inboxVars
    PROVE  InboxTypeOK'
<1>1. TypeOK /\ TypeOK'
    BY DEF IInv
<1>2. filed \subseteq filed' /\ filed' \subseteq Notice
    BY <1>1, InboxStepIsOutboxStep
    DEF Next, Work, vars, CreateNotification, StartRun, LockRow, Send, Record, Crash, TypeOK
<1>3. /\ reads \in [Notice -> Nat]
      /\ opened \in [Reader -> filed \cup {None}]
      /\ filed \subseteq Notice
    BY <1>1 DEF InboxTypeOK, TypeOK
<1>4. CASE UNCHANGED inboxVars
    BY <1>1, <1>3, <1>4 DEF inboxVars, InboxTypeOK, vars
<1>5. ASSUME NEW r \in Reader, MarkRead(r) PROVE InboxTypeOK'
    <2>1. opened[r] \in Notice
        BY <1>3, <1>5 DEF MarkRead
    <2>2. QED
        BY <1>1, <1>2, <1>3, <1>5, <2>1 DEF MarkRead, InboxTypeOK
<1>6. ASSUME NEW r \in Reader, Fail(r) PROVE InboxTypeOK'
    BY <1>1, <1>2, <1>3, <1>6 DEF Fail, InboxTypeOK
<1>7. ASSUME NEW r \in Reader, NEW n \in Notice, Open(r, n) PROVE InboxTypeOK'
    BY <1>1, <1>2, <1>3, <1>7 DEF Open, Unread, InboxTypeOK
<1>8. CASE MarkAllRead
    BY <1>1, <1>2, <1>3, <1>8 DEF MarkAllRead, InboxTypeOK
<1>9. CASE Deliver
    BY <1>1, <1>2, <1>3, <1>9 DEF Deliver, InboxTypeOK
<1>10. QED
    BY <1>4, <1>5, <1>6, <1>7, <1>8, <1>9 DEF InboxNext

(* What a step may do to the bound of one notification. *)
LEMMA ReadsKept ==
    ASSUME NEW S \in SUBSET Reader, NEW T \in SUBSET Reader, NEW r \in Reader,
           NEW before \in Nat, NEW after \in Nat,
           before > 0 => before + Cardinality(S) <= Cardinality(Reader) + 1,
           \/ after = 0
           \/ after = 1
           \/ after = before /\ T \subseteq S
           \/ after = before + 1 /\ before > 0 /\ r \in S /\ T = S \ {r}
    PROVE  after > 0 => after + Cardinality(T) <= Cardinality(Reader) + 1
<1>1. /\ IsFiniteSet(S) /\ IsFiniteSet(T)
      /\ Cardinality(S) \in Nat /\ Cardinality(T) \in Nat /\ Cardinality(Reader) \in Nat
      /\ Cardinality(T) <= Cardinality(Reader)
    BY ReaderAssumption, FS_Subset, FS_CardinalityType
<1>2. CASE T \subseteq S /\ after = before
    <2>1. Cardinality(T) <= Cardinality(S)
        BY <1>1, <1>2, FS_Subset
    <2>2. QED
        BY <1>1, <1>2, <2>1
<1>3. CASE after = before + 1 /\ before > 0 /\ r \in S /\ T = S \ {r}
    <2>1. Cardinality(T) = Cardinality(S) - 1
        BY <1>1, <1>3, FS_RemoveElement
    <2>2. QED
        BY <1>1, <1>3, <2>1
<1>4. QED
    BY <1>1, <1>2, <1>3

LEMMA ReadsSettleOn ==
    ASSUME InboxIInv, InboxTypeOK', [InboxNext]_inboxVars
    PROVE  ReadTimeSettles'
<1>1. /\ reads \in [Notice -> Nat] /\ reads' \in [Notice -> Nat]
      /\ opened \in [Reader -> filed \cup {None}]
      /\ filed \subseteq Notice
    BY DEF InboxIInv, IInv, InboxTypeOK, TypeOK
<1> SUFFICES ASSUME NEW n \in Notice
             PROVE  reads'[n] > 0 =>
                      reads'[n] + Cardinality(Opening(n)') <= Cardinality(Reader) + 1
    BY DEF ReadTimeSettles
<1>2. Opening(n) \in SUBSET Reader /\ Opening(n)' \in SUBSET Reader
    BY DEF Opening
<1>3. /\ reads[n] \in Nat /\ reads'[n] \in Nat
      /\ reads[n] > 0 => reads[n] + Cardinality(Opening(n)) <= Cardinality(Reader) + 1
    BY <1>1 DEF InboxIInv, ReadTimeSettles
<1>a. ASSUME UNCHANGED <<reads, opened>>
      PROVE  reads'[n] > 0 =>
                  reads'[n] + Cardinality(Opening(n)') <= Cardinality(Reader) + 1
    BY <1>3, <1>a DEF Opening
<1>4. CASE UNCHANGED inboxVars \/ Deliver
    BY <1>a, <1>4 DEF inboxVars, Deliver
<1>5. CASE MarkAllRead
    <2>1. Opening(n)' = Opening(n)
        BY <1>5 DEF MarkAllRead, Opening
    <2>2. reads'[n] = reads[n] \/ reads'[n] = 1
        BY <1>1, <1>5 DEF MarkAllRead, Unread
    <2>3. CASE Reader = {}
        <3>1. Opening(n) = {} /\ Cardinality(Reader) = 0
            BY <2>3, FS_EmptySet DEF Opening
        <3>2. Cardinality(Opening(n)) = 0
            BY <3>1, FS_EmptySet
        <3>3. QED
            BY <1>3, <2>1, <2>2, <3>1, <3>2
    <2>4. CASE Reader # {}
        <3>1. PICK r \in Reader : TRUE
            BY <2>4
        <3>2. QED
            BY <1>2, <1>3, <2>1, <2>2, <3>1, ReadsKept
    <2>5. QED
        BY <2>3, <2>4
<1>6. ASSUME NEW r \in Reader, MarkRead(r)
      PROVE  reads'[n] > 0 =>
                  reads'[n] + Cardinality(Opening(n)') <= Cardinality(Reader) + 1
    <2>1. Opening(n)' = Opening(n) \ {r}
        BY <1>1, <1>6, NoticeAssumption DEF MarkRead, Opening
    <2>2. CASE opened[r] = n
        <3>1. r \in Opening(n) /\ reads'[n] = reads[n] + 1
            BY <1>1, <1>6, <2>2 DEF MarkRead, Opening
        <3>2. QED
            BY <1>2, <1>3, <2>1, <3>1, ReadsKept
    <2>3. CASE opened[r] # n
        <3>1. reads'[n] = reads[n]
            BY <1>1, <1>6, <2>3 DEF MarkRead
        <3>2. QED
            BY <1>2, <1>3, <2>1, <3>1, ReadsKept
    <2>4. QED
        BY <2>2, <2>3
<1>7. ASSUME NEW r \in Reader, Fail(r)
      PROVE  reads'[n] > 0 =>
                  reads'[n] + Cardinality(Opening(n)') <= Cardinality(Reader) + 1
    <2>1. Opening(n)' \subseteq Opening(n) /\ reads'[n] = reads[n]
        BY <1>1, <1>7, NoticeAssumption DEF Fail, Opening
    <2>2. QED
        BY <1>2, <1>3, <1>7, <2>1, ReadsKept
<1>8. ASSUME NEW r \in Reader, NEW m \in Notice, Open(r, m)
      PROVE  reads'[n] > 0 =>
                  reads'[n] + Cardinality(Opening(n)') <= Cardinality(Reader) + 1
    <2>1. CASE m = n
        BY <1>1, <1>8, <2>1 DEF Open, Unread
    <2>2. CASE m # n
        <3>1. Opening(n)' \subseteq Opening(n) /\ reads'[n] = reads[n]
            BY <1>1, <1>8, <2>2 DEF Open, Opening
        <3>2. QED
            BY <1>2, <1>3, <1>8, <3>1, ReadsKept
    <2>3. QED
        BY <2>1, <2>2
<1>9. QED
    BY <1>4, <1>5, <1>6, <1>7, <1>8 DEF InboxNext

LEMMA InboxIInvNext == InboxIInv /\ [InboxNext]_inboxVars => InboxIInv'
<1> SUFFICES ASSUME InboxIInv, [InboxNext]_inboxVars PROVE InboxIInv'
    OBVIOUS
<1>1. IInv'
    BY InboxStepIsOutboxStep, IInvNext DEF InboxIInv
<1>2. InboxTypeOK'
    BY <1>1, InboxTyped DEF InboxIInv
<1>3. QED
    BY <1>1, <1>2, ReadsSettleOn DEF InboxIInv

(* Readers open what is filed, and every row keeps its type.               *)
THEOREM InboxTypeCorrect == InboxSpec => []InboxTypeOK
<1>1. InboxIInv => InboxTypeOK
    BY DEF InboxIInv
<1>2. QED
    BY <1>1, InboxInitTyped, InboxIInvNext, PTL DEF InboxSpec

(* Only requests that had found a notification unread write the time at    *)
(* which it was read over.                                                 *)
THEOREM ReadTimeIsSettled == InboxSpec => []ReadTimeSettles
<1>1. InboxIInv => ReadTimeSettles
    BY DEF InboxIInv
<1>2. QED
    BY <1>1, InboxInitTyped, InboxIInvNext, PTL DEF InboxSpec
=============================================================================
