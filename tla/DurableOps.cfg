\* Every kind of call, a failing flush and a crash.
SPECIFICATION Spec
CONSTANTS
  Kinds = {"small", "large", "flush", "ingest"}
  MaxCalls = 3
  MaxCrashes = 1
  MaxErrs = 1
  FailIn = {"open"}
  InitialSize = 4
  MemTableSize = 4
  StopWrites = 2
  MaxRecyclable = 1
INVARIANTS NoPanic AppliesLand
PROPERTIES ImplementsStore StallsEnd FlushesEnd RecoveryEnds
CHECK_DEADLOCK FALSE
