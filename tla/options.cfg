CONSTANTS
  Arguments <- MCArguments
  MaxArgs = 3
  Known = {"A", "B", "C", "D", "X"}
  Countable = {"A", "B", "C", "D"}
  Conflicts <- MCConflicts
  UsefulEvents <- MCUseful
  DefaultEvents <- MCDefault
  Unsupported = {"OTHER"}
  MaxCounters = 4
SPECIFICATION Spec
INVARIANTS Delivered CompatibleOnly EventsKept CheckedEventsRun
CHECK_DEADLOCK FALSE
