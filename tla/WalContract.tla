---------------------------- MODULE WalContract ----------------------------
(***************************************************************************)
(* What a write-ahead log promises those who write to it, whether it is    *)
(* one file (record.LogWriter) or several that take over from each other   *)
(* (wal.failoverWriter): records become durable in the order they were     *)
(* written, a sync is acknowledged only for durable records, and a log     *)
(* that closes without an error has lost nothing.                          *)
(***************************************************************************)
EXTENDS Integers

VARIABLES
  written,   \* how many records have been handed to the log
  durable,   \* how many of them, the first ones, a crash leaves
  acked,     \* the records whose sync was acknowledged
  status     \* "open", "closed" or "failed"

vars == <<written, durable, acked, status>>

Init == written = 0 /\ durable = 0 /\ acked = {} /\ status = "open"

WriteRecord ==
  /\ status = "open"
  /\ written' = written + 1
  /\ UNCHANGED <<durable, acked, status>>

Persist ==
  /\ durable' \in durable + 1 .. written
  /\ UNCHANGED <<written, acked, status>>

Acknowledge ==
  /\ \E S \in SUBSET (1 .. durable) : acked' = acked \cup S
  /\ UNCHANGED <<written, durable, status>>

\* Closing makes durable what is not yet; it says so, or fails.
Close ==
  /\ status = "open"
  /\ durable' \in durable .. written
  /\ \E S \in SUBSET (1 .. durable') : acked' = acked \cup S
  /\ status' \in {"failed"} \cup (IF durable' = written THEN {"closed"} ELSE {})
  /\ UNCHANGED written

Next == WriteRecord \/ Persist \/ Acknowledge \/ Close

Spec == Init /\ [][Next]_vars
=============================================================================
