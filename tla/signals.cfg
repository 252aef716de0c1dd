SPECIFICATION Spec
CONSTANTS
  Threads = {t1, t2}
  Signals = {1, 2}
  Candidates = {1}
  LastResort = 2
  OpenList = {}
  NoTerm = {2}
  Stop = {}
  EnvSignal = 0
  Caught = {1}
  Masks = {{1}, {1, 2}}
  Moves = {"client", "catch", "exit", "fatal"}
  MaxCalls = 3
SYMMETRY Symmetry
INVARIANTS TypeOK OpenUntilChosen ReservedStaysOpen
PROPERTY ChosenIsOpen
CHECK_DEADLOCK FALSE
