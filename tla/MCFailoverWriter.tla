-------------------------- MODULE MCFailoverWriter --------------------------
(* FailoverWriter for TLC. *)
EXTENDS FailoverWriter

\* A batch of LogData shares the sequence number of the batch after it.
BatchesAndLogData == <<1, 1, 0, 1>>

\* Two batches over three logs, or all four over two.
BoundedStep == Next /\ (next' <= 2 \/ Head1' <= 2)

BoundedSpec == Init /\ [][BoundedStep]_vars /\ Fairness
=============================================================================
