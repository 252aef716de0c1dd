CONSTANTS
  main = main
  worker = worker
  Threads <- MCThreads
  Functions = {"f", "g", "h"}
  u = u
  v = v
  w = w
  Units <- MCUnits
  MaxCalipers = 3
  MaxStack = 2
  Second = 1
  Programs <- MCPrograms
SPECIFICATION Spec
SYMMETRY Symmetry
INVARIANTS Accounted TimeCountedOnce SeparatePoints KilledOnlyKnown
CHECK_DEADLOCK FALSE
