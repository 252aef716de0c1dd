CONSTANTS
  Size = 3
  Child = child
  Setups <- MCSetups
SPECIFICATION FairSpec
INVARIANT ScriptSeesAll
PROPERTY JobEnds
CHECK_DEADLOCK FALSE
