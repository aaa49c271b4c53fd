------------------------------ MODULE MCDelta ------------------------------
(* Instances of Delta for TLC: the tasks are interchangeable. *)
EXTENDS Delta, TLC

TaskSymmetry == Permutations(Tasks)
=============================================================================
