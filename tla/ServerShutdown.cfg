\* A client that pipelines commands of any kind, or two clients; all hang up sooner
\* or later, perhaps within a command, and a shutdown may come at any time.
SPECIFICATION BoundedSpec
CONSTANTS
  c1 = c1
  Conns = {c1, c2}
  Commands <- MixedCommands
  MaxRequests = 3
  MaxSlice = 4
  Programs = {"with return", "without return"}
INVARIANTS
  ExecutedAsSent
  GracefulDurable
PROPERTIES
  ShutdownCompletes
\* A server with nothing to do stops until a client or a signal comes.
CHECK_DEADLOCK FALSE
