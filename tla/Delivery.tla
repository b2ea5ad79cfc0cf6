------------------------------ MODULE Delivery ------------------------------
(***************************************************************************)
(* What the outbox promises of each message, without runs, lists, row      *)
(* locks or workers: it is attempted by one at a time, an attempt is       *)
(* recorded or lost, one that is recorded is the last, and one that is     *)
(* lost leaves the message to be attempted again, although the mail server *)
(* may have it.  No message waits for another, whatever their order.       *)
(*                                                                         *)
(* Outbox implements this specification.                                   *)
(***************************************************************************)
EXTENDS Naturals

CONSTANT Notice     \* the messages

VARIABLES
    phase,      \* message -> where it is between "absent" and "sent" or "failed"
    mails,      \* message -> how many copies the mail server has accepted
    lost        \* message -> how many attempts were lost after they had
                \* called the mail server

deliveryVars == <<phase, mails, lost>>

DeliveryInit ==
    /\ phase = [n \in Notice |-> "absent"]
    /\ mails = [n \in Notice |-> 0]
    /\ lost = [n \in Notice |-> 0]

Move(n, from, to) ==
    /\ phase[n] = from
    /\ phase' = [phase EXCEPT ![n] = to]

File(n) ==
    /\ Move(n, "absent", "pending")
    /\ UNCHANGED <<mails, lost>>

Attempt(n) ==
    /\ Move(n, "pending", "sending")
    /\ UNCHANGED <<mails, lost>>

(* The server takes the message, or reports an error and may have taken it.*)
HandOver(n) ==
    /\ \/ /\ Move(n, "sending", "accepted") \/ Move(n, "sending", "raised")
          /\ mails' = [mails EXCEPT ![n] = @ + 1]
       \/ /\ Move(n, "sending", "raised")
          /\ UNCHANGED mails
    /\ UNCHANGED lost

Settle(n) ==
    /\ Move(n, "accepted", "sent") \/ Move(n, "raised", "failed")
    /\ UNCHANGED <<mails, lost>>

Lose(n) ==
    /\ \/ /\ Move(n, "sending", "pending")
          /\ UNCHANGED lost
       \/ /\ Move(n, "accepted", "pending") \/ Move(n, "raised", "pending")
          /\ lost' = [lost EXCEPT ![n] = @ + 1]
    /\ UNCHANGED mails

DeliveryNext ==
    \E n \in Notice : File(n) \/ Attempt(n) \/ HandOver(n) \/ Settle(n) \/ Lose(n)

DeliverySpec == DeliveryInit /\ [][DeliveryNext]_deliveryVars
=============================================================================
