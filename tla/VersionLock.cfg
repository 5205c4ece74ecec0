\* A flush and an excise whose reading of a table fails.
SPECIFICATION FairSpec
CONSTANTS
  Kinds = {"flush", "excise"}
  Spans = {{2}}
  MaxJobs = 2
  MaxReads = 0
  MaxCrashes = 1
  MaxManifest = 2
  MaxFails = 1
PROPERTY EveryJobEnds
CHECK_DEADLOCK FALSE
