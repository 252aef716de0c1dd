----------------------------- MODULE MC_Threads -----------------------------
EXTENDS MonitorThreads, TLC

Symmetry == Permutations(Threads)
=============================================================================
