SPECIFICATION Spec
CONSTANTS
  Threads = {t1}
  Main = main
  NoThread = none
  ArraySize = 1
  MaxArrays = 2
  Moves = {}
  Exiters = {main}
INVARIANT FiniThreadOnce
