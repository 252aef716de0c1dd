CONSTANTS
  main = main
  t1 = t1
  t2 = t2
  Threads <- MCThreads
  Main = main
  NoThread = none
  Parent = parent
  InitSize = 2
  Setups <- MCSetups
SPECIFICATION Spec
SYMMETRY Symmetry
INVARIANTS OwnEntries KilledOnlyKnown ReportBeforeEnd
PROPERTY FilesAreFinal
CHECK_DEADLOCK FALSE
