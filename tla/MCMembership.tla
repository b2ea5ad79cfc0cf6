---------------------------- MODULE MCMembership ----------------------------
(* The instance of Membership that TLC checks.                             *)
EXTENDS Membership, TLC

(* Users, rows and workers are interchangeable. *)
Symmetry == Permutations(User) \cup Permutations(Row) \cup Permutations(Client)
=============================================================================
