\* Two records over the boundaries of blocks, with every fault.
SPECIFICATION FairSpec
CONSTANTS
  BlockSize = 5
  Header = 2
  Legacy = 1
  Lengths <- RecordLengths
  MaxBlocks = 5
  QueueUnits = 1
  Modes = {"queue", "index"}
  Faults = {"write","sync","close"}
  MinSyncInterval = TRUE
INVARIANTS ReadBack CleanClose
PROPERTIES WaitersHear ImplementsWal
CHECK_DEADLOCK FALSE
