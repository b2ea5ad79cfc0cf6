---------------------------- MODULE MCLifecycle ----------------------------
(* The instances of Lifecycle that TLC checks.                             *)
EXTENDS Lifecycle, TLC

(* Workers of one kind are interchangeable; projects are ordered by id.    *)
Symmetry == Permutations(Client) \cup Permutations(Publisher) \cup Permutations(Closer)
=============================================================================
