CONSTANTS
  main = main
  t1 = t1
  t2 = t2
  Threads <- MCThreads
  Main = main
  NoThread = none
  Parent = parent
  InitSize = 2
  Setups <- MCQuiet
SPECIFICATION Spec
INVARIANT OnlyMainComes
CHECK_DEADLOCK FALSE
