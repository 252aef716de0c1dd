------------------------------- MODULE MC_Fork -------------------------------
\* The instance of MonitorFork for TLC.
EXTENDS MonitorFork
=============================================================================
