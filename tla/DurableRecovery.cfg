\* Open flushes what it replayed in turns, of which one may fail.  With MaxErrs = 0
\* it is a flushable ingest that is lost.
SPECIFICATION Spec
CONSTANTS
  Kinds = {"small", "ingest"}
  MaxCalls = 2
  MaxCrashes = 2
  MaxErrs = 1
  FailIn = {"replayed"}
  InitialSize = 1
  MemTableSize = 4
  StopWrites = 2
  MaxRecyclable = 1
PROPERTIES ImplementsStore
CHECK_DEADLOCK FALSE
