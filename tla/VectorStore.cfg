\* Two goroutines, one key written by both, a crash.
SPECIFICATION Spec
CONSTANTS
  Callers = {g1, g2}
  Keys = {"1"}
  Vectors <- SomeVectors
  RawValues <- SomeRawValues
  Radix = 3
  Width = 2
  Inputs = {"float64 array", "other object", "other array"}
  MaxWrites = 3
  MaxCrashes = 1
INVARIANTS
  RoundTrip
  AckedInsertsSurvive
\* A store nobody calls does nothing.
CHECK_DEADLOCK FALSE
