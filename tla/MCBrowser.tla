----------------------------- MODULE MCBrowser ------------------------------
(* The instances of Browser that TLC checks.                               *)
EXTENDS Browser, TLC

(* Tokens and workers are interchangeable. *)
Symmetry == Permutations(Refresh) \cup Permutations(Worker)
=============================================================================
