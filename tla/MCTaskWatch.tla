---------------------------- MODULE MCTaskWatch -----------------------------
(* TaskWatch for TLC: the other tasks are interchangeable. *)
EXTENDS TaskWatch
CONSTANTS t1, t2, t3
Symmetry == Permutations(Task)
=============================================================================
