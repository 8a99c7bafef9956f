---------------------------- MODULE MC_SchedRnd ----------------------------
(* Model-checking instance of SchedRnd. *)
EXTENDS SchedRnd

\* The tasks that are not write-backs are interchangeable.
TaskSymmetry == Permutations(Tasks \ WriteBacks)
=============================================================================
