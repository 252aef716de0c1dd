---------------------------- MODULE MC_Options ----------------------------
EXTENDS PapiexOptions
Plain(o) == [opt |-> o, arg |-> ""]
With(o, a) == [opt |-> o, arg |-> a]
MCArguments ==
  {Plain(o) : o \in {"d", "q", "r", "x", "n", "w", "U", "K", "I", "p", "f", "o", "m", "a", "G", "Q", "print", "unknown"}}
    \cup {With("e", e) : e \in {"A", "B", "C", "X", "unknown"}}
    \cup {With("flag", f) : f \in {"classic", "csv", "skip", "nocheck", "no_mpi_prof", "no_threadsync_prof", "test", "shell"}}
    \cup {With("Q", "loops"), With("m", "100"), With("m", "bad"), With("E", "spec"), With("E", "FILE"), With("E", "missing")}
MCConflicts == {{"A", "B"}}
MCUseful == <<"A", "unknown", "C", "B">>
MCDefault == <<"C", "D">>
=============================================================================
