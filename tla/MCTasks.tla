------------------------------ MODULE MCTasks ------------------------------
(* The instances of Tasks that TLC checks.                                 *)
EXTENDS Tasks, TLC

(* Users, objects and workers are interchangeable. *)
Symmetry ==
    Permutations(User) \cup Permutations(Task) \cup Permutations(Comment)
        \cup Permutations(Client)
=============================================================================
