\* Two units for a commit that waits, one with SyncWait, and a directWrite with
\* the mutex held: every call has to come back.
SPECIFICATION SyncSpec
CONSTANTS
  b1 = b1
  b2 = b2
  b3 = b3
  Batches <- ThreeBatches
  NoBatch = NoBatch
  Ops <- SyncOps
  SyncConcurrency = 3
  IndexMod = 6
  StartIndex = 4
  StartSeqNum = 5
  MaxCalls = 3
  Faults = {}
INVARIANTS
  NoPanic
  UnitsAccounted
PROPERTIES
  CallsReturn
\* A call that is stuck is reported by CallsReturn.
CHECK_DEADLOCK FALSE
