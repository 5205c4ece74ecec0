---------------------------- MODULE MCLogWriter ----------------------------
(* LogWriter for TLC: the first record leaves room for a header and nothing  *)
(* more; the second spans three blocks and leaves less than that.           *)
EXTENDS LogWriter

RecordLengths == <<1, 5>>
=============================================================================
