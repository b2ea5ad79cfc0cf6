------------------------------- MODULE Outbox -------------------------------
(***************************************************************************)
(* The email outbox: create_notification files one delivery row with every *)
(* notification, and send_pending_emails (src/apps/notifications) hands    *)
(* the pending rows to the mail server.                                    *)
(*                                                                         *)
(* A run lists the pending rows once, oldest first.  For each of them it   *)
(* opens a transaction, locks the row, looks at its status again, calls    *)
(* the mail server while it holds the lock, and records how that went.     *)
(* Runs overlap, a worker may die at any point, and the mail server may    *)
(* report an error for a message that it has accepted all the same.        *)
(*                                                                         *)
(* A notification and its delivery row are created together under a        *)
(* unique key, so that one number stands for both; creating them again     *)
(* changes nothing.  Numbers are handed out before the transaction that    *)
(* uses them commits, so that rows appear in any order.                    *)
(***************************************************************************)
EXTENDS Naturals

CONSTANTS
    Notice,     \* the notifications that may be filed, by their row id
    Worker,     \* Celery processes that run send_pending_emails
    MaxCrashes, \* bound: how many runs die
    None        \* a worker that holds no row

ASSUME NoticeAssumption == Notice \subseteq Nat /\ None \notin Notice
ASSUME MaxCrashesAssumption == MaxCrashes \in Nat

VARIABLES
    filed,      \* the notices whose rows exist
    status,     \* notice -> EmailDelivery.status
    mails,      \* notice -> how many copies the mail server has accepted
    run,        \* worker -> its run: the rows it has left, the row it has
                \* locked, and how far it is with that one
    lost,       \* notice -> how many runs died after handing it over, before
                \* recording it
    crashes     \* how many runs have died

vars == <<filed, status, mails, run, lost, crashes>>

Handed == {"accepted", "raised"}
Run    == [todo: SUBSET Notice, row: Notice \cup {None},
           step: {"next", "sending"} \cup Handed]
Idle   == [todo |-> {}, row |-> None, step |-> "next"]

TypeOK ==
    /\ filed \subseteq Notice
    /\ status \in [Notice -> {"pending", "sent", "failed"}]
    /\ mails \in [Notice -> Nat]
    /\ run \in [Worker -> Run]
    /\ lost \in [Notice -> Nat]
    /\ crashes \in 0..MaxCrashes

Init ==
    /\ filed = {}
    /\ status = [n \in Notice |-> "pending"]
    /\ mails = [n \in Notice |-> 0]
    /\ run = [w \in Worker |-> Idle]
    /\ lost = [n \in Notice |-> 0]
    /\ crashes = 0

Pending == {n \in filed : status[n] = "pending"}

(* Mutant of Locked: the rows are read without FOR UPDATE. *)
NotLocked(n) == FALSE

Locked(n) == \E w \in Worker : run[w].row = n

(* Mutant of StillPending: the status is taken as the run has listed it. *)
PendingWhenListed(n) == TRUE

StillPending(n) == status[n] = "pending"

CreateNotification(n) ==
    /\ filed' = filed \cup {n}
    /\ UNCHANGED <<status, mails, run, lost, crashes>>

(* A run that finds no pending row ends at once and is left out. *)
StartRun(w) ==
    /\ run[w] = Idle
    /\ Pending # {}
    /\ run' = [run EXCEPT ![w].todo = Pending]
    /\ UNCHANGED <<filed, status, mails, lost, crashes>>

Oldest(rows) == CHOOSE n \in rows : \A m \in rows : n <= m

(* A row that is not pending any more is passed over. *)
LockRow(w) ==
    /\ run[w].todo # {}
    /\ run[w].step = "next"
    /\ LET n == Oldest(run[w].todo) IN
        /\ ~Locked(n)
        /\ run' = [run EXCEPT ![w] =
                IF StillPending(n)
                THEN [todo |-> @.todo \ {n}, row |-> n, step |-> "sending"]
                ELSE [todo |-> @.todo \ {n}, row |-> None, step |-> "next"]]
    /\ UNCHANGED <<filed, status, mails, lost, crashes>>

(* send_mail returns or raises. *)
Report(w, step) == run' = [run EXCEPT ![w].step = step]

Send(w) ==
    /\ run[w].step = "sending"
    /\ \/ /\ mails' = [mails EXCEPT ![run[w].row] = @ + 1]
          /\ Report(w, "accepted") \/ Report(w, "raised")
       \/ /\ Report(w, "raised")
          /\ UNCHANGED mails
    /\ UNCHANGED <<filed, status, lost, crashes>>

(* Mutants of Outcome: an error leaves the row as it is, or is taken for   *)
(* success, or is written as an empty status.                              *)
RetryLater(step) == IF step = "accepted" THEN "sent" ELSE "pending"
SentAnyway(step) == "sent"
NoStatus(step)   == IF step = "accepted" THEN "sent" ELSE ""

Outcome(step) == IF step = "accepted" THEN "sent" ELSE "failed"

Record(w) ==
    /\ run[w].step \in Handed
    /\ status' = [status EXCEPT ![run[w].row] = Outcome(run[w].step)]
    /\ run' = [run EXCEPT ![w].row = None, ![w].step = "next"]
    /\ UNCHANGED <<filed, mails, lost, crashes>>

(* The transaction in progress is rolled back, and its lock released. *)
Crash(w) ==
    /\ run[w] # Idle
    /\ crashes < MaxCrashes
    /\ crashes' = crashes + 1
    /\ lost' = IF run[w].step \in Handed
               THEN [lost EXCEPT ![run[w].row] = @ + 1]
               ELSE lost
    /\ run' = [run EXCEPT ![w] = Idle]
    /\ UNCHANGED <<filed, status, mails>>

Work(w) == StartRun(w) \/ LockRow(w) \/ Send(w) \/ Record(w)

Next ==
    \/ \E n \in Notice : CreateNotification(n)
    \/ \E w \in Worker : Work(w) \/ Crash(w)

Spec == Init /\ [][Next]_vars

(* Celery beat starts a run every minute, and a worker that does not die   *)
(* gets on with it: send_mail returns or raises.                           *)
FairSpec == Spec /\ \A w \in Worker : WF_vars(Work(w))

-----------------------------------------------------------------------------
(* A message goes out again only when a worker died between handing that   *)
(* very message over and recording it: overlapping runs, errors of the     *)
(* mail server and other crashes never duplicate it                        *)
(* (docs/decisions/celery-scheduling.md:66-68).                            *)
DuplicatesNeedCrashes == \A n \in Notice : mails[n] <= 1 + lost[n]

(* A row says "sent" only when the mail server has the message, after any  *)
(* crash and retry.                                                        *)
SentIsTrue == \A n \in Notice : status[n] = "sent" => mails[n] > 0

(* Every filed message is attempted until one attempt is recorded, whoever *)
(* dies on the way and however the messages before it fare.                *)
PendingIsAttempted == \A n \in Notice : n \in Pending ~> n \notin Pending

(* To a message, its attempt is the step of the worker that holds its row. *)
Phase(n) ==
    LET holders == {w \in Worker : run[w].row = n}
    IN  IF n \notin filed THEN "absent"
        ELSE IF holders # {} THEN run[CHOOSE w \in holders : TRUE].step
        ELSE status[n]

Abstract == INSTANCE Delivery WITH phase <- [n \in Notice |-> Phase(n)]

(* Overlapping runs, their lists and their deaths keep the promise of      *)
(* Delivery to every message.                                              *)
ImplementsDelivery == Abstract!DeliverySpec
=============================================================================
