------------------------------ MODULE MC_Signals ------------------------------
\* The instance of MonitorSignals for TLC.
EXTENDS MonitorSignals, TLC

\* Threads are interchangeable.
Symmetry == Permutations(Threads)
=============================================================================
