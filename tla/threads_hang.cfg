SPECIFICATION FairSpec
CONSTANTS
  Threads = {t1}
  Main = main
  NoThread = none
  ArraySize = 1
  MaxArrays = 2
  Moves = {"crash", "ignore", "cancel"}
  Exiters = {main, t1}
INVARIANTS OneFiniProcess CallbacksBeforeExit
PROPERTIES ExitCompletesOrStuck ClientPromise
CHECK_DEADLOCK FALSE
