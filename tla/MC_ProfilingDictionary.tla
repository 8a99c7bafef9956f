------------------------ MODULE MC_ProfilingDictionary ------------------------
EXTENDS ProfilingDictionary, TLC

NameSymmetry == Permutations(Names)
=============================================================================
