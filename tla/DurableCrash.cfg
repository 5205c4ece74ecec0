\* A crash in the middle of anything, and another in the recovery from it.
SPECIFICATION Spec
CONSTANTS
  Kinds = {"small", "large", "flush"}
  MaxCalls = 3
  MaxCrashes = 2
  MaxErrs = 1
  FailIn = {"open"}
  InitialSize = 2
  MemTableSize = 4
  StopWrites = 1
  MaxRecyclable = 1
INVARIANTS NeededLogsKept NumbersFresh OpenSucceeds
PROPERTIES ImplementsStore
CHECK_DEADLOCK FALSE
