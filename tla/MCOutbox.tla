------------------------------ MODULE MCOutbox ------------------------------
(* The instances of Outbox that TLC checks.                                *)
EXTENDS Inbox, TLC

(* Workers are interchangeable; rows are ordered by id. *)
Symmetry == Permutations(Worker)
=============================================================================
