------------------------- MODULE MC_ProfilingTrace -------------------------
(* Instantiation of ProfilingTrace for TLC. *)
EXTENDS ProfilingTrace, TLC

\* Threads are interchangeable: no action names a particular one.
ThreadSymmetry == Permutations(Threads)

=============================================================================
