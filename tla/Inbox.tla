------------------------------- MODULE Inbox --------------------------------
(***************************************************************************)
(* The notifications that the Outbox has filed, as their user reads them   *)
(* (src/apps/notifications): one, or all at once, in requests that overlap *)
(* each other and the delivery of the same notifications by email.         *)
(*                                                                         *)
(* Reading one fetches the row and then saves the time of reading into it, *)
(* if it had none; reading all is one UPDATE.  A row is never deleted.     *)
(***************************************************************************)
EXTENDS Outbox, FiniteSets

CONSTANT Reader     \* requests of the user that are served at the same time

ASSUME ReaderAssumption == IsFiniteSet(Reader)

VARIABLES
    reads,      \* notice -> how often read_at was written
    opened      \* reader -> the notice it found unread, or None

inboxVars == <<vars, reads, opened>>

InboxTypeOK ==
    /\ TypeOK
    /\ reads \in [Notice -> Nat]
    /\ opened \in [Reader -> filed \cup {None}]

InboxInit ==
    /\ Init
    /\ reads = [n \in Notice |-> 0]
    /\ opened = [r \in Reader |-> None]

(* Mutant of Unread: the time of reading is written whatever the row says. *)
AnyFiled == filed

Unread == {n \in filed : reads[n] = 0}

(* NotificationReadView.post fetches the row; mark_notification_read goes  *)
(* by what the fetched object says.                                        *)
Open(r, n) ==
    /\ opened[r] = None
    /\ n \in Unread
    /\ opened' = [opened EXCEPT ![r] = n]
    /\ UNCHANGED <<vars, reads>>

MarkRead(r) ==
    /\ opened[r] # None
    /\ reads' = [reads EXCEPT ![opened[r]] = @ + 1]
    /\ opened' = [opened EXCEPT ![r] = None]
    /\ UNCHANGED vars

MarkAllRead ==
    /\ reads' = [n \in Notice |-> IF n \in Unread THEN reads[n] + 1 ELSE reads[n]]
    /\ UNCHANGED <<vars, opened>>

(* The worker that serves the reader dies. *)
Fail(r) ==
    /\ opened[r] # None
    /\ opened' = [opened EXCEPT ![r] = None]
    /\ UNCHANGED <<vars, reads>>

Deliver == Next /\ UNCHANGED <<reads, opened>>

InboxNext ==
    \/ \E r \in Reader : MarkRead(r) \/ Fail(r)
    \/ \E r \in Reader, n \in Notice : Open(r, n)
    \/ MarkAllRead
    \/ Deliver

InboxSpec == InboxInit /\ [][InboxNext]_inboxVars

(* The outbox is as fair as without readers. *)
InboxFairSpec ==
    /\ InboxSpec
    /\ \A w \in Worker : WF_inboxVars(Work(w) /\ UNCHANGED <<reads, opened>>)

-----------------------------------------------------------------------------
Opening(n) == {r \in Reader : opened[r] = n}

(* The time at which a notification was read is written over only by       *)
(* requests that had found it unread: it is written no more often than     *)
(* there are requests at one time, whatever else is read in between.       *)
ReadTimeSettles ==
    \A n \in Notice :
        reads[n] > 0 => reads[n] + Cardinality(Opening(n)) <= Cardinality(Reader) + 1
=============================================================================
