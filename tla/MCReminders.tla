---------------------------- MODULE MCReminders ----------------------------
(* The instances of Reminders that TLC checks.                             *)
EXTENDS Reminders, TLC

(* Users and workers are interchangeable; tasks are ordered by id. *)
Symmetry == Permutations(User) \cup Permutations(Runner)
=============================================================================
