--------------------------- MODULE MCAttachments ---------------------------
(* The instances of Attachments that TLC checks.                           *)
EXTENDS Attachments, TLC

(* Users, projects, rows and workers are interchangeable. *)
Symmetry ==
    Permutations(User) \cup Permutations(Project) \cup Permutations(Slot)
        \cup Permutations(Client)
=============================================================================
