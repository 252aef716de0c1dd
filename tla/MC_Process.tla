---------------------------- MODULE MC_Process ----------------------------
EXTENDS PapiexProcess, TLC
CONSTANTS main, t1, t2
MCThreads == {main, t1, t2}
Kind(job, inherited, trouble) == [job |-> job, inherited |-> inherited, trouble |-> trouble]
\* Fork children, jobs and trouble; and one quiet process without MPI.
MCSetups == {Kind("alone", 0, FALSE), Kind("mpi", 0, FALSE), Kind("classic", 0, FALSE), Kind("alone", 1, FALSE),
             Kind("alone", 0, TRUE), Kind("classic", 0, TRUE), Kind("alone", 1, TRUE)}
MCQuiet == {Kind("alone", 0, FALSE)}
Symmetry == Permutations({t1, t2})
=============================================================================
