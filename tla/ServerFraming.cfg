\* A value with a line end in it.
SPECIFICATION Spec
CONSTANTS
  c1 = c1
  Conns = {c1}
  Commands <- MixedCommands
  MaxRequests = 1
  MaxSlice = 4
  Programs = {"without return"}
INVARIANTS
  ExecutedOnce
\* A server with nothing to do stops until a client or a signal comes.
CHECK_DEADLOCK FALSE
