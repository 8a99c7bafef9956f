---------------------------- MODULE MC_ProfilingDump ----------------------------
EXTENDS ProfilingDump, TLC
====
