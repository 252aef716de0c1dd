SPECIFICATION FairSpec
CONSTANTS
  Threads = {t1}
  Main = main
  NoThread = none
  ArraySize = 1
  MaxArrays = 2
  Moves = {"cancel", "block", "ignore", "early", "sigwait"}
  Exiters = {main, t1}
PROPERTY ExitCompletes
CHECK_DEADLOCK FALSE
