SPECIFICATION FairSpec
CONSTANTS
  Threads = {m, t1}
  Main = m
  Moves = {"threads", "exec", "system"}
INVARIANTS TypeOK OneInitProcess FiniBeforeEnd AbandonedOnlyLate NoGhostThreads LibraryFinished StatusKept
PROPERTY OverridesReturn
CHECK_DEADLOCK FALSE
