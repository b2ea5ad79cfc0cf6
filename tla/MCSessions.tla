----------------------------- MODULE MCSessions -----------------------------
(* The instances of Sessions that TLC checks.                              *)
EXTENDS Sessions, TLC

Symmetry == Permutations(Refresh) \cup Permutations(Worker)
=============================================================================
