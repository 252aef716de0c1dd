CONSTANTS
  main = main
  worker = worker
  Threads <- MCThreads
  MpiThread = main
  Comms <- MCComms
SPECIFICATION Spec
INVARIANTS NoInternalRank
PROPERTIES OncePerApplicationCall AnswerStays
CHECK_DEADLOCK FALSE
