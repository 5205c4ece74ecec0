\* Every kind of job, with a reader, failures, a crash, and a second one in Open.
SPECIFICATION FairSpec
CONSTANTS
  Kinds = {"flush", "compact", "move", "deleteonly", "excise", "external",
           "checkpoint"}
  Spans = {{2}, {2, 3}}
  MaxJobs = 2
  MaxReads = 1
  MaxCrashes = 2
  MaxManifest = 2
  MaxFails = 1
INVARIANTS
  NoPanic
  NeededFilesKept
  ManifestRecovers
PROPERTIES
  ImplementsTables
  JobsEnd
  Collected
\* A behaviour stops when its jobs have run.
CHECK_DEADLOCK FALSE
