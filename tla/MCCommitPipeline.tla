-------------------------- MODULE MCCommitPipeline --------------------------
(***************************************************************************)
(* Instances of CommitPipeline for TLC.                                    *)
(***************************************************************************)
EXTENDS CommitPipeline, TLC

CONSTANTS b1, b2, b3

ThreeBatches == {b1, b2, b3}
TwoBatches == {b1, b2}
BatchSymmetry == Permutations(Batches)

Call(k, n, s) == [kind |-> k, n |-> n, sync |-> s]

\* Unsynced commits of two entries and of LogData only, which takes no
\* sequence number: interleavings of publish.
WriteOps == {Call("commit", 0, "none"), Call("commit", 2, "none")}

\* One call of every kind, LogData and a refused batch included.
AllOps ==
  {Call("commit", 0, "wait"), Call("commit", 2, "nowait"),
   Call("large", 2, "none"), Call("invalid", 0, "wait"),
   Call("ingest", 1, "none"), Call("ingestFlushable", 2, "none")}

MixedOps == AllOps \cup WriteOps

Under(ops) == \A b \in Batches : InCall(b) => op[b] \in ops
Quiet == \A b \in Batches : ~InCall(b)

\* Two calls of any kind, on two batches or one, with any fault, or three calls
\* of WriteOps, without one, of which one is of LogData at a time.
TwoCalls == calls <= 2 /\ Under(AllOps)
ThreeWrites ==
  /\ Under(WriteOps)
  /\ ~walErr /\ \A b \in Batches : pc[b] # "failed"
  /\ \A b, c \in Batches : InCall(b) /\ InCall(c) /\ op[b].n + op[c].n = 0 => b = c

MixedStep ==
  \/ Next /\ (TwoCalls' \/ ThreeWrites')
  \/ calls = 2 /\ Quiet /\ UNCHANGED vars

MixedSpec == Init /\ [][MixedStep]_vars

\* The calls that contend for logSyncQSem, one for every way to take a unit: b1
\* takes it in directWrite with the mutex held, while b2 and b3 wait for that
\* mutex with a unit in hand.
SyncOp(b) ==
  CASE b = b1 -> Call("ingestFlushable", 1, "none")
    [] b = b2 -> Call("commit", 1, "wait")
    [] b = b3 -> Call("commit", 1, "nowait")
SyncOps == {SyncOp(b) : b \in ThreeBatches}

\* One call of each.
SyncStep ==
  /\ Next
  /\ \A b \in Batches : pc'[b] # "idle" => op'[b] = SyncOp(b)
  /\ \A b \in Batches : pc[b] = "returned" => pc'[b] = "returned"

SyncSpec == Init /\ [][SyncStep]_vars /\ Fairness
=============================================================================
