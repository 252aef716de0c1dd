------------------------------- MODULE MC_Mpi -------------------------------
EXTENDS MonitorMpi, TLC
CONSTANTS main, worker
MCThreads == {main, worker}
MCComms == {"world", "part"}
=============================================================================
