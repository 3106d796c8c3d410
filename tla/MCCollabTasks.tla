--------------------------- MODULE MCCollabTasks ---------------------------
(* Instances of CollabTasks.                                                 *)
EXTENDS CollabTasks, TLC

TaskSymmetry == Permutations(Tasks)
=============================================================================
