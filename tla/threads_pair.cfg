SPECIFICATION Spec
CONSTANTS
  Threads = {t1, t2}
  Main = main
  NoThread = none
  ArraySize = 1
  MaxArrays = 2
  Moves = {"cancel"}
  Exiters = {main}
SYMMETRY Symmetry
INVARIANTS TypeOK NodesNotShared ShootdownComplete
PROPERTY ListFrozen
