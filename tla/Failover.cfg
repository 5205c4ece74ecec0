\* Two batches over three logs, or three and one of LogData over two; each of the
\* logs may fail or hang.
SPECIFICATION BoundedSpec
CONSTANTS
  Counts <- BatchesAndLogData
  MaxLogs = 3
  Units = 2
  Faults = {"create", "sync", "close"}
INVARIANTS ReadBack StrictRead UnitsAccounted
PROPERTIES ImplementsWal CloseReturns
CHECK_DEADLOCK FALSE
