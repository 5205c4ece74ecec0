\* Two calls of every kind, with every fault, or three goroutines that publish,
\* from an empty store, through a queue of four slots whose indexes wrap.
SPECIFICATION MixedSpec
CONSTANTS
  b1 = b1
  b2 = b2
  b3 = b3
  Batches <- ThreeBatches
  NoBatch = NoBatch
  Ops <- MixedOps
  SyncConcurrency = 4
  IndexMod = 8
  StartIndex = 6
  StartSeqNum = 0
  MaxCalls = 3
  Faults = {"write", "apply", "log"}
SYMMETRY BatchSymmetry
INVARIANTS
  TypeOK
  ReadPrefix
  ReturnedVisible
  IngestSeesAll
  WalOrder
  AckDurable
PROPERTIES
  ImplementsContract
