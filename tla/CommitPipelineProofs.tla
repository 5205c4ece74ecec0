------------------------ MODULE CommitPipelineProofs ------------------------
(***************************************************************************)
(* Proofs about CommitPipeline for any number of goroutines, any queue     *)
(* size and any calls.  First type correctness and the order of the WAL;   *)
(* then the inductive invariant of the commit queue and publish: a read at *)
(* visibleSeqNum sees whole applied batches only, and a call that has come *)
(* back is visible.  Last the WAL and the semaphores: what a call that     *)
(* asked for a sync may rely on, what an ingestion sees, that no unit is   *)
(* lost or given back twice, and that none of the panics is reached.       *)
(***************************************************************************)
EXTENDS CommitPipeline, FiniteSetTheorems, TLAPS

-----------------------------------------------------------------------------
(***************************************************************************)
(* What types rest on.                                                     *)
(***************************************************************************)

\* A goroutine that has taken a batch off the queue and not yet announced it.
HolderPCs == {"clear", "visible", "ratchet", "done"}

\* A goroutine that has loaded a batch pointer holds a batch.
LoadedInv ==
  \A b \in Batches : pc[b] \in {"check", "cas"} \cup HolderPCs => lBatch[b] \in Batches

-----------------------------------------------------------------------------
(***************************************************************************)
(* Type correctness.                                                       *)
(***************************************************************************)

Typed == TypeOK /\ LoadedInv

\* A slot number is within the array of the commit queue.
LEMMA SlotType == \A i \in Nat : Slot(i) \in 0 .. SyncConcurrency - 1
BY PipelineAssumption DEF Slot

\* The parts of a call have their types.
LEMMA OpFacts == \A o \in OpType : o.n \in Nat /\ o.sync \in SyncModes
BY DEF OpType

\* The sequence numbers of a batch are naturals and end after it begins.
LEMMA EntriesFacts ==
  BatchType => \A b \in Batches : /\ Entries(b) \subseteq Nat
                                 /\ End(b) \in Nat /\ seq[b] <= End(b)
BY OpFacts DEF BatchType, Entries, End

\* A new pipeline (newCommitPipeline) is well typed.
LEMMA InitTyped == Init => Typed
<1> SUFFICES ASSUME Init PROVE Typed
  OBVIOUS
<1> USE PipelineAssumption DEF Init
<1>1. QueueType /\ SemType
  BY DEF QueueType, SemType
<1>2. SeqNumType /\ LocalType
  BY DEF SeqNumType, LocalType
<1>6. LogType
  <2>1. wal \in Seq(WalRecord)
    OBVIOUS
  <2>2. syncQ \in Seq(SyncWaiter)
    OBVIOUS
  <2> QED
    BY <2>1, <2>2 DEF LogType
<1>3. [kind |-> "commit", n |-> 0, sync |-> "none"] \in OpType
  BY DEF OpType, Kinds, SyncModes
<1>4. BatchType
  BY <1>3 DEF BatchType, PCs
<1>5. LoadedInv
  BY DEF LoadedInv, HolderPCs
<1> QED
  BY <1>1, <1>2, <1>4, <1>5, <1>6 DEF Typed, TypeOK

\* Writing a record, with or without a waiter, keeps the log well typed.
LEMMA LogWriteTyped ==
  ASSUME LogType, BatchType, NEW b \in Batches, NEW sync \in BOOLEAN,
         LogWrite(b, sync)
  PROVE  LogType'
<1> DEFINE r == [batch |-> b, seq |-> seq[b], n |-> op[b].n]
           w == [at |-> Len(wal) + 1, batch |-> b]
<1>1. r \in WalRecord
  BY OpFacts DEF BatchType, WalRecord
<1>2. w \in SyncWaiter
  BY DEF LogType, SyncWaiter
<1>3. wal' = Append(wal, r)
  BY DEF LogWrite
<1>4. syncQ' = Append(syncQ, w) \/ syncQ' = syncQ
  BY DEF LogWrite
<1>5. wal' \in Seq(WalRecord)
  BY <1>1, <1>3 DEF LogType
<1>6. syncQ' \in Seq(SyncWaiter)
  BY <1>2, <1>4 DEF LogType
<1> QED
  BY <1>5, <1>6 DEF LogWrite, LogType

\* One step per action, and under it one per group of variables it changes.
LEMMA NextTyped == Typed /\ [Next]_vars => Typed'
<1> SUFFICES ASSUME Typed, [Next]_vars PROVE Typed'
  OBVIOUS
<1> USE DEF Typed, TypeOK
<1>1. ASSUME NEW b \in Batches, NEW o \in Ops, Begin(b, o) PROVE Typed'
  <2>1. BatchType'
    BY <1>1, PipelineAssumption DEF Begin, BatchType, batchVars, PCs
  <2>2. QueueType' /\ SemType' /\ SeqNumType' /\ LogType' /\ LocalType'
    BY <1>1 DEF Begin, QueueType, SemType, SeqNumType, LogType, LocalType,
       queueVars, semVars, seqVars, walVars, localVars
  <2>3. LoadedInv'
    BY <1>1 DEF Begin, LoadedInv, HolderPCs, BatchType, LocalType, localVars
  <2>4. calls' \in 0 .. MaxCalls /\ dead' \in {"no", "panic", "fatal"}
    BY <1>1, PipelineAssumption DEF Begin
  <2> QED
    BY <2>1, <2>2, <2>3, <2>4
<1>2. ASSUME NEW b \in Batches, AcquireIngestSem(b) PROVE Typed'
  <2>1. SemType'
    BY <1>2 DEF AcquireIngestSem, Goto, SemType, semVars
  <2>2. BatchType'
    BY <1>2 DEF AcquireIngestSem, Goto, BatchType, batchVars, PCs
  <2>3. QueueType' /\ SeqNumType' /\ LogType' /\ LocalType'
    BY <1>2 DEF AcquireIngestSem, Goto, QueueType, SeqNumType, LogType,
       LocalType, queueVars, seqVars, walVars, localVars
  <2>4. LoadedInv'
    BY <1>2 DEF AcquireIngestSem, Goto, LoadedInv, HolderPCs, BatchType,
       LocalType, localVars
  <2>5. calls' \in 0 .. MaxCalls /\ dead' \in {"no", "panic", "fatal"}
    BY <1>2, PipelineAssumption DEF AcquireIngestSem, Goto
  <2> QED
    BY <2>1, <2>2, <2>3, <2>4, <2>5
<1>3. ASSUME NEW b \in Batches, AcquireCommitQueueSem(b) PROVE Typed'
  <2>1. SemType'
    BY <1>3 DEF AcquireCommitQueueSem, Goto, SemType, semVars
  <2>2. BatchType'
    BY <1>3 DEF AcquireCommitQueueSem, Goto, BatchType, batchVars, PCs
  <2>3. QueueType' /\ SeqNumType' /\ LogType' /\ LocalType'
    BY <1>3 DEF AcquireCommitQueueSem, Goto, QueueType, SeqNumType, LogType,
       LocalType, queueVars, seqVars, walVars, localVars
  <2>4. LoadedInv'
    BY <1>3 DEF AcquireCommitQueueSem, Goto, LoadedInv, HolderPCs, BatchType,
       LocalType, localVars
  <2>5. calls' \in 0 .. MaxCalls /\ dead' \in {"no", "panic", "fatal"}
    BY <1>3, PipelineAssumption DEF AcquireCommitQueueSem, Goto
  <2> QED
    BY <2>1, <2>2, <2>3, <2>4, <2>5
<1>4. ASSUME NEW b \in Batches, AcquireLogSyncQSem(b) PROVE Typed'
  <2>1. SemType'
    BY <1>4 DEF AcquireLogSyncQSem, Goto, SemType, semVars
  <2>2. BatchType'
    BY <1>4 DEF AcquireLogSyncQSem, Goto, BatchType, batchVars, PCs
  <2>3. QueueType' /\ SeqNumType' /\ LogType' /\ LocalType'
    BY <1>4 DEF AcquireLogSyncQSem, Goto, QueueType, SeqNumType, LogType,
       LocalType, queueVars, seqVars, walVars, localVars
  <2>4. LoadedInv'
    BY <1>4 DEF AcquireLogSyncQSem, Goto, LoadedInv, HolderPCs, BatchType,
       LocalType, localVars
  <2>5. calls' \in 0 .. MaxCalls /\ dead' \in {"no", "panic", "fatal"}
    BY <1>4, PipelineAssumption DEF AcquireLogSyncQSem, Goto
  <2> QED
    BY <2>1, <2>2, <2>3, <2>4, <2>5
<1>5. ASSUME NEW b \in Batches, RefuseInvalidBatch(b) PROVE Typed'
  <2>1. BatchType'
    BY <1>5 DEF RefuseInvalidBatch, Goto, BatchType, batchVars, PCs
  <2>2. QueueType' /\ SemType' /\ SeqNumType' /\ LogType' /\ LocalType'
    BY <1>5 DEF RefuseInvalidBatch, Goto, QueueType, SemType, SeqNumType,
       LogType, LocalType, queueVars, semVars, seqVars, walVars, localVars
  <2>3. LoadedInv'
    BY <1>5 DEF RefuseInvalidBatch, Goto, LoadedInv, HolderPCs, BatchType,
       LocalType, localVars
  <2>4. calls' \in 0 .. MaxCalls /\ dead' \in {"no", "panic", "fatal"}
    BY <1>5, PipelineAssumption DEF RefuseInvalidBatch, Goto
  <2> QED
    BY <2>1, <2>2, <2>3, <2>4
<1>6. ASSUME NEW b \in Batches, Lock(b) PROVE Typed'
  <2>1. QueueType'
    BY <1>6 DEF Lock, Goto, QueueType, queueVars
  <2>2. BatchType'
    BY <1>6 DEF Lock, Goto, BatchType, batchVars, PCs
  <2>3. SemType' /\ SeqNumType' /\ LogType' /\ LocalType'
    BY <1>6 DEF Lock, Goto, SemType, SeqNumType, LogType, LocalType, semVars,
       seqVars, walVars, localVars
  <2>4. LoadedInv'
    BY <1>6 DEF Lock, Goto, LoadedInv, HolderPCs, BatchType, LocalType,
       localVars
  <2>5. calls' \in 0 .. MaxCalls /\ dead' \in {"no", "panic", "fatal"}
    BY <1>6, PipelineAssumption DEF Lock, Goto
  <2> QED
    BY <2>1, <2>2, <2>3, <2>4, <2>5
<1>7. ASSUME NEW b \in Batches, EnqueueCheck(b) PROVE Typed'
  <2>1. BatchType'
    BY <1>7 DEF EnqueueCheck, BatchType, batchVars, PCs
  <2>2. QueueType' /\ SemType' /\ SeqNumType' /\ LogType' /\ LocalType'
    BY <1>7 DEF EnqueueCheck, QueueType, SemType, SeqNumType, LogType,
       LocalType, queueVars, semVars, seqVars, walVars, localVars
  <2>3. LoadedInv'
    BY <1>7 DEF EnqueueCheck, LoadedInv, HolderPCs, BatchType, LocalType,
       localVars
  <2>4. calls' \in 0 .. MaxCalls /\ dead' \in {"no", "panic", "fatal"}
    BY <1>7, PipelineAssumption DEF EnqueueCheck
  <2> QED
    BY <2>1, <2>2, <2>3, <2>4
<1>8. ASSUME NEW b \in Batches, EnqueueStore(b) PROVE Typed'
  <2>1. QueueType'
    BY <1>8, SlotType DEF EnqueueStore, Goto, QueueType, queueVars
  <2>2. BatchType'
    BY <1>8 DEF EnqueueStore, Goto, BatchType, batchVars, PCs
  <2>3. SemType' /\ SeqNumType' /\ LogType' /\ LocalType'
    BY <1>8 DEF EnqueueStore, Goto, SemType, SeqNumType, LogType, LocalType,
       semVars, seqVars, walVars, localVars
  <2>4. LoadedInv'
    BY <1>8 DEF EnqueueStore, Goto, LoadedInv, HolderPCs, BatchType,
       LocalType, localVars
  <2>5. calls' \in 0 .. MaxCalls /\ dead' \in {"no", "panic", "fatal"}
    BY <1>8, PipelineAssumption DEF EnqueueStore, Goto
  <2> QED
    BY <2>1, <2>2, <2>3, <2>4, <2>5
<1>9. ASSUME NEW b \in Batches, EnqueueBump(b) PROVE Typed'
  <2>1. QueueType'
    BY <1>9 DEF EnqueueBump, Goto, QueueType, queueVars
  <2>2. BatchType'
    BY <1>9 DEF EnqueueBump, Goto, BatchType, batchVars, PCs
  <2>3. SemType' /\ SeqNumType' /\ LogType' /\ LocalType'
    BY <1>9 DEF EnqueueBump, Goto, SemType, SeqNumType, LogType, LocalType,
       semVars, seqVars, walVars, localVars
  <2>4. LoadedInv'
    BY <1>9 DEF EnqueueBump, Goto, LoadedInv, HolderPCs, BatchType, LocalType,
       localVars
  <2>5. calls' \in 0 .. MaxCalls /\ dead' \in {"no", "panic", "fatal"}
    BY <1>9, PipelineAssumption DEF EnqueueBump, Goto
  <2> QED
    BY <2>1, <2>2, <2>3, <2>4, <2>5
<1>10. ASSUME NEW b \in Batches, AssignSeqNum(b) PROVE Typed'
  <2>1. SeqNumType'
    <3>1. op[b].n \in Nat
      BY OpFacts DEF BatchType
    <3>2. PICK first \in Nat : /\ logSeqNum' = first + op[b].n
                              /\ ends' = ends \cup {first + op[b].n}
                              /\ mem' = mem \cup (logSeqNum .. first - 1)
      BY <1>10 DEF AssignSeqNum, SeqNumType
    <3>3. logSeqNum .. first - 1 \subseteq Nat
      BY DEF SeqNumType
    <3>4. first + op[b].n \in Nat
      BY <3>1
    <3>5. logSeqNum' \in Nat /\ ends' \subseteq Nat /\ mem' \subseteq Nat
      BY <3>2, <3>3, <3>4, Zenon DEF SeqNumType
    <3> QED
      BY <1>10, <3>5 DEF AssignSeqNum, SeqNumType
  <2>2. BatchType'
    BY <1>10 DEF AssignSeqNum, Goto, BatchType, batchVars, PCs, SeqNumType
  <2>3. LocalType'
    BY <1>10 DEF AssignSeqNum, Goto, LocalType, localVars, SeqNumType
  <2>4. QueueType' /\ SemType' /\ LogType'
    BY <1>10 DEF AssignSeqNum, Goto, QueueType, SemType, LogType, queueVars,
       semVars, walVars
  <2>5. LoadedInv'
    BY <1>10 DEF AssignSeqNum, Goto, LoadedInv, HolderPCs, BatchType,
       LocalType, localVars
  <2>6. calls' \in 0 .. MaxCalls /\ dead' \in {"no", "panic", "fatal"}
    BY <1>10, PipelineAssumption DEF AssignSeqNum, Goto
  <2> QED
    BY <2>1, <2>2, <2>3, <2>4, <2>5, <2>6
<1>11. ASSUME NEW b \in Batches, Write(b) PROVE Typed'
  <2>1. QueueType'
    BY <1>11 DEF Write, Goto, LogWrite, QueueType, queueVars
  <2>2. SeqNumType'
    BY <1>11, EntriesFacts DEF Write, SeqNumType
  <2>3. LogType'
    BY <1>11, LogWriteTyped DEF Write
  <2>4. BatchType'
    BY <1>11 DEF Write, Goto, LogWrite, BatchType, batchVars, PCs
  <2>5. SemType' /\ LocalType'
    BY <1>11 DEF Write, Goto, LogWrite, SemType, LocalType, semVars, localVars
  <2>6. LoadedInv'
    BY <1>11 DEF Write, Goto, LogWrite, LoadedInv, HolderPCs, BatchType,
       LocalType, localVars
  <2>7. calls' \in 0 .. MaxCalls /\ dead' \in {"no", "panic", "fatal"}
    BY <1>11, PipelineAssumption DEF Write, Goto, LogWrite
  <2> QED
    BY <2>1, <2>2, <2>3, <2>4, <2>5, <2>6, <2>7
<1>12. ASSUME NEW b \in Batches, Drain(b) PROVE Typed'
  <2>1. BatchType'
    BY <1>12 DEF Drain, Goto, BatchType, batchVars, PCs
  <2>2. QueueType' /\ SemType' /\ SeqNumType' /\ LogType' /\ LocalType'
    BY <1>12 DEF Drain, Goto, QueueType, SemType, SeqNumType, LogType,
       LocalType, queueVars, semVars, seqVars, walVars, localVars
  <2>3. LoadedInv'
    BY <1>12 DEF Drain, Goto, LoadedInv, HolderPCs, BatchType, LocalType,
       localVars
  <2>4. calls' \in 0 .. MaxCalls /\ dead' \in {"no", "panic", "fatal"}
    BY <1>12, PipelineAssumption DEF Drain, Goto
  <2> QED
    BY <2>1, <2>2, <2>3, <2>4
<1>13. ASSUME NEW b \in Batches, IngestPrepare(b) PROVE Typed'
  <2>1. QueueType'
    BY <1>13 DEF IngestPrepare, QueueType, queueVars
  <2>2. BatchType'
    BY <1>13 DEF IngestPrepare, BatchType, batchVars, PCs
  <2>3. SemType' /\ SeqNumType' /\ LogType' /\ LocalType'
    BY <1>13 DEF IngestPrepare, SemType, SeqNumType, LogType, LocalType,
       semVars, seqVars, walVars, localVars
  <2>4. LoadedInv'
    BY <1>13 DEF IngestPrepare, LoadedInv, HolderPCs, BatchType, LocalType,
       localVars
  <2>5. calls' \in 0 .. MaxCalls /\ dead' \in {"no", "panic", "fatal"}
    BY <1>13, PipelineAssumption DEF IngestPrepare
  <2> QED
    BY <2>1, <2>2, <2>3, <2>4, <2>5
<1>14. ASSUME NEW b \in Batches, DirectAcquire(b) PROVE Typed'
  <2>1. SemType'
    BY <1>14 DEF DirectAcquire, Goto, SemType, semVars
  <2>2. BatchType'
    BY <1>14 DEF DirectAcquire, Goto, BatchType, batchVars, PCs
  <2>3. QueueType' /\ SeqNumType' /\ LogType' /\ LocalType'
    BY <1>14 DEF DirectAcquire, Goto, QueueType, SeqNumType, LogType,
       LocalType, queueVars, seqVars, walVars, localVars
  <2>4. LoadedInv'
    BY <1>14 DEF DirectAcquire, Goto, LoadedInv, HolderPCs, BatchType,
       LocalType, localVars
  <2>5. calls' \in 0 .. MaxCalls /\ dead' \in {"no", "panic", "fatal"}
    BY <1>14, PipelineAssumption DEF DirectAcquire, Goto
  <2> QED
    BY <2>1, <2>2, <2>3, <2>4, <2>5
<1>15. ASSUME NEW b \in Batches, DirectWrite(b) PROVE Typed'
  <2>1. LogType'
    BY <1>15, LogWriteTyped DEF DirectWrite
  <2>2. BatchType'
    BY <1>15 DEF DirectWrite, Goto, LogWrite, BatchType, batchVars, PCs
  <2>3. QueueType' /\ SemType' /\ SeqNumType' /\ LocalType'
    BY <1>15 DEF DirectWrite, Goto, LogWrite, QueueType, SemType, SeqNumType,
       LocalType, queueVars, semVars, seqVars, localVars
  <2>4. LoadedInv'
    BY <1>15 DEF DirectWrite, Goto, LogWrite, LoadedInv, HolderPCs, BatchType,
       LocalType, localVars
  <2>5. calls' \in 0 .. MaxCalls /\ dead' \in {"no", "panic", "fatal"}
    BY <1>15, PipelineAssumption DEF DirectWrite, Goto, LogWrite
  <2> QED
    BY <2>1, <2>2, <2>3, <2>4, <2>5
<1>16. ASSUME NEW b \in Batches, DirectWait(b) PROVE Typed'
  <2>1. QueueType'
    BY <1>16 DEF DirectWait, Goto, QueueType, queueVars
  <2>2. SeqNumType'
    BY <1>16, EntriesFacts DEF DirectWait, SeqNumType
  <2>3. BatchType'
    BY <1>16 DEF DirectWait, Goto, BatchType, batchVars, PCs
  <2>4. SemType' /\ LogType' /\ LocalType'
    BY <1>16 DEF DirectWait, Goto, SemType, LogType, LocalType, semVars,
       walVars, localVars
  <2>5. LoadedInv'
    BY <1>16 DEF DirectWait, Goto, LoadedInv, HolderPCs, BatchType, LocalType,
       localVars
  <2>6. calls' \in 0 .. MaxCalls /\ dead' \in {"no", "panic", "fatal"}
    BY <1>16, PipelineAssumption DEF DirectWait, Goto
  <2> QED
    BY <2>1, <2>2, <2>3, <2>4, <2>5, <2>6
<1>17. ASSUME NEW b \in Batches, Apply(b) PROVE Typed'
  <2>1. SeqNumType'
    BY <1>17, EntriesFacts DEF Apply, SeqNumType
  <2>2. QueueType' /\ SemType' /\ LogType' /\ BatchType' /\ LocalType'
    BY <1>17 DEF Apply, QueueType, SemType, LogType, BatchType, LocalType,
       queueVars, semVars, walVars, batchVars, localVars
  <2>3. LoadedInv'
    BY <1>17 DEF Apply, LoadedInv, HolderPCs, BatchType, LocalType, localVars
  <2>4. calls' \in 0 .. MaxCalls /\ dead' \in {"no", "panic", "fatal"}
    BY <1>17, PipelineAssumption DEF Apply
  <2> QED
    BY <2>1, <2>2, <2>3, <2>4
<1>18. ASSUME NEW b \in Batches, MarkApplied(b) PROVE Typed'
  <2>1. BatchType'
    BY <1>18 DEF MarkApplied, Goto, BatchType, batchVars, PCs
  <2>2. QueueType' /\ SemType' /\ SeqNumType' /\ LogType' /\ LocalType'
    BY <1>18 DEF MarkApplied, Goto, QueueType, SemType, SeqNumType, LogType,
       LocalType, queueVars, semVars, seqVars, walVars, localVars
  <2>3. LoadedInv'
    BY <1>18 DEF MarkApplied, Goto, LoadedInv, HolderPCs, BatchType,
       LocalType, localVars
  <2>4. calls' \in 0 .. MaxCalls /\ dead' \in {"no", "panic", "fatal"}
    BY <1>18, PipelineAssumption DEF MarkApplied, Goto
  <2> QED
    BY <2>1, <2>2, <2>3, <2>4
<1>19. ASSUME NEW b \in Batches, LoadHeadTail(b) PROVE Typed'
  <2>1. BatchType'
    BY <1>19 DEF LoadHeadTail, Goto, BatchType, batchVars, PCs
  <2>2. LocalType'
    BY <1>19 DEF LoadHeadTail, Goto, LocalType, localVars, QueueType
  <2>3. QueueType' /\ SemType' /\ SeqNumType' /\ LogType'
    BY <1>19 DEF LoadHeadTail, Goto, QueueType, SemType, SeqNumType, LogType,
       queueVars, semVars, seqVars, walVars
  <2>4. LoadedInv'
    BY <1>19 DEF LoadHeadTail, Goto, LoadedInv, HolderPCs, BatchType,
       LocalType, localVars
  <2>5. calls' \in 0 .. MaxCalls /\ dead' \in {"no", "panic", "fatal"}
    BY <1>19, PipelineAssumption DEF LoadHeadTail, Goto
  <2> QED
    BY <2>1, <2>2, <2>3, <2>4, <2>5
<1>20. ASSUME NEW b \in Batches, LoadSlot(b) PROVE Typed'
  <2>1. BatchType'
    BY <1>20 DEF LoadSlot, Goto, BatchType, batchVars, PCs
  <2>2. LocalType'
    BY <1>20, SlotType DEF LoadSlot, Goto, LocalType, localVars, QueueType
  <2>3. QueueType' /\ SemType' /\ SeqNumType' /\ LogType'
    BY <1>20 DEF LoadSlot, Goto, QueueType, SemType, SeqNumType, LogType,
       queueVars, semVars, seqVars, walVars
  <2>4. LoadedInv'
    BY <1>20, SlotType DEF LoadSlot, Goto, LoadedInv, HolderPCs, BatchType,
       LocalType, localVars, QueueType
  <2>5. calls' \in 0 .. MaxCalls /\ dead' \in {"no", "panic", "fatal"}
    BY <1>20, PipelineAssumption DEF LoadSlot, Goto
  <2> QED
    BY <2>1, <2>2, <2>3, <2>4, <2>5
<1>21. ASSUME NEW b \in Batches, LoadApplied(b) PROVE Typed'
  <2>1. BatchType'
    BY <1>21 DEF LoadApplied, Goto, BatchType, batchVars, PCs
  <2>2. QueueType' /\ SemType' /\ SeqNumType' /\ LogType' /\ LocalType'
    BY <1>21 DEF LoadApplied, Goto, QueueType, SemType, SeqNumType, LogType,
       LocalType, queueVars, semVars, seqVars, walVars, localVars
  <2>3. LoadedInv'
    BY <1>21 DEF LoadApplied, Goto, LoadedInv, HolderPCs, BatchType,
       LocalType, localVars
  <2>4. calls' \in 0 .. MaxCalls /\ dead' \in {"no", "panic", "fatal"}
    BY <1>21, PipelineAssumption DEF LoadApplied, Goto
  <2> QED
    BY <2>1, <2>2, <2>3, <2>4
<1>22. ASSUME NEW b \in Batches, CompareAndSwapTail(b) PROVE Typed'
  <2>1. QueueType'
    BY <1>22 DEF CompareAndSwapTail, Goto, QueueType, queueVars
  <2>2. BatchType'
    BY <1>22 DEF CompareAndSwapTail, Goto, BatchType, batchVars, PCs
  <2>3. SemType' /\ SeqNumType' /\ LogType' /\ LocalType'
    BY <1>22 DEF CompareAndSwapTail, Goto, SemType, SeqNumType, LogType,
       LocalType, semVars, seqVars, walVars, localVars
  <2>4. LoadedInv'
    BY <1>22 DEF CompareAndSwapTail, Goto, LoadedInv, HolderPCs, BatchType,
       LocalType, localVars
  <2>5. calls' \in 0 .. MaxCalls /\ dead' \in {"no", "panic", "fatal"}
    BY <1>22, PipelineAssumption DEF CompareAndSwapTail, Goto
  <2> QED
    BY <2>1, <2>2, <2>3, <2>4, <2>5
<1>23. ASSUME NEW b \in Batches, ClearSlot(b) PROVE Typed'
  <2>1. QueueType'
    BY <1>23, SlotType DEF ClearSlot, Goto, QueueType, queueVars
  <2>2. BatchType'
    BY <1>23 DEF ClearSlot, Goto, BatchType, batchVars, PCs
  <2>3. SemType' /\ SeqNumType' /\ LogType' /\ LocalType'
    BY <1>23 DEF ClearSlot, Goto, SemType, SeqNumType, LogType, LocalType,
       semVars, seqVars, walVars, localVars
  <2>4. LoadedInv'
    BY <1>23 DEF ClearSlot, Goto, LoadedInv, HolderPCs, BatchType, LocalType,
       localVars
  <2>5. calls' \in 0 .. MaxCalls /\ dead' \in {"no", "panic", "fatal"}
    BY <1>23, PipelineAssumption DEF ClearSlot, Goto
  <2> QED
    BY <2>1, <2>2, <2>3, <2>4, <2>5
<1>24. ASSUME NEW b \in Batches, LoadVisible(b) PROVE Typed'
  <2>1. BatchType'
    BY <1>24 DEF LoadVisible, Goto, BatchType, batchVars, PCs
  <2>2. LocalType'
    BY <1>24 DEF LoadVisible, Goto, LocalType, localVars, SeqNumType
  <2>3. QueueType' /\ SemType' /\ SeqNumType' /\ LogType'
    BY <1>24 DEF LoadVisible, Goto, QueueType, SemType, SeqNumType, LogType,
       queueVars, semVars, seqVars, walVars
  <2>4. LoadedInv'
    BY <1>24 DEF LoadVisible, Goto, LoadedInv, HolderPCs, BatchType,
       LocalType, localVars
  <2>5. calls' \in 0 .. MaxCalls /\ dead' \in {"no", "panic", "fatal"}
    BY <1>24, PipelineAssumption DEF LoadVisible, Goto
  <2> QED
    BY <2>1, <2>2, <2>3, <2>4, <2>5
<1>25. ASSUME NEW b \in Batches, Ratchet(b) PROVE Typed'
  <2>1. SeqNumType'
    BY <1>25, OpFacts DEF Ratchet, Goto, SeqNumType, seqVars, End, BatchType,
       LocalType, LoadedInv, HolderPCs
  <2>2. BatchType'
    BY <1>25 DEF Ratchet, Goto, BatchType, batchVars, PCs
  <2>3. QueueType' /\ SemType' /\ LogType' /\ LocalType'
    BY <1>25 DEF Ratchet, Goto, QueueType, SemType, LogType, LocalType,
       queueVars, semVars, walVars, localVars
  <2>4. LoadedInv'
    BY <1>25 DEF Ratchet, Goto, LoadedInv, HolderPCs, BatchType, LocalType,
       localVars
  <2>5. calls' \in 0 .. MaxCalls /\ dead' \in {"no", "panic", "fatal"}
    BY <1>25, PipelineAssumption DEF Ratchet, Goto
  <2> QED
    BY <2>1, <2>2, <2>3, <2>4, <2>5
<1>26. ASSUME NEW b \in Batches, CommitDone(b) PROVE Typed'
  <2>1. BatchType'
    BY <1>26 DEF CommitDone, Goto, BatchType, batchVars, PCs, LocalType,
       LoadedInv, HolderPCs
  <2>2. QueueType' /\ SemType' /\ SeqNumType' /\ LogType' /\ LocalType'
    BY <1>26 DEF CommitDone, Goto, QueueType, SemType, SeqNumType, LogType,
       LocalType, queueVars, semVars, seqVars, walVars, localVars
  <2>3. LoadedInv'
    BY <1>26 DEF CommitDone, Goto, LoadedInv, HolderPCs, BatchType, LocalType,
       localVars
  <2>4. calls' \in 0 .. MaxCalls /\ dead' \in {"no", "panic", "fatal"}
    BY <1>26, PipelineAssumption DEF CommitDone, Goto
  <2> QED
    BY <2>1, <2>2, <2>3, <2>4
<1>27. ASSUME NEW b \in Batches, Return(b) PROVE Typed'
  <2>1. SemType'
    BY <1>27 DEF Return, Goto, SemType, semVars
  <2>2. BatchType'
    BY <1>27 DEF Return, Goto, BatchType, batchVars, PCs
  <2>3. LocalType'
    BY <1>27 DEF Return, Goto, LocalType, localVars
  <2>4. QueueType' /\ SeqNumType' /\ LogType'
    BY <1>27 DEF Return, Goto, QueueType, SeqNumType, LogType, queueVars,
       seqVars, walVars
  <2>5. LoadedInv'
    BY <1>27 DEF Return, Goto, LoadedInv, HolderPCs, BatchType, LocalType,
       localVars
  <2>6. calls' \in 0 .. MaxCalls /\ dead' \in {"no", "panic", "fatal"}
    BY <1>27, PipelineAssumption DEF Return, Goto
  <2> QED
    BY <2>1, <2>2, <2>3, <2>4, <2>5, <2>6
<1>28. ASSUME NEW b \in Batches, SyncWait(b) PROVE Typed'
  <2>1. BatchType'
    BY <1>28 DEF SyncWait, Goto, BatchType, batchVars, PCs
  <2>2. QueueType' /\ SemType' /\ SeqNumType' /\ LogType' /\ LocalType'
    BY <1>28 DEF SyncWait, Goto, QueueType, SemType, SeqNumType, LogType,
       LocalType, queueVars, semVars, seqVars, walVars, localVars
  <2>3. LoadedInv'
    BY <1>28 DEF SyncWait, Goto, LoadedInv, HolderPCs, BatchType, LocalType,
       localVars
  <2>4. calls' \in 0 .. MaxCalls /\ dead' \in {"no", "panic", "fatal"}
    BY <1>28, PipelineAssumption DEF SyncWait, Goto
  <2> QED
    BY <2>1, <2>2, <2>3, <2>4
<1>29. ASSUME NEW b \in Batches, Fatal(b) PROVE Typed'
  <2>1. QueueType' /\ SemType' /\ SeqNumType' /\ LogType' /\ BatchType' /\ LocalType'
    BY <1>29 DEF Fatal, QueueType, SemType, SeqNumType, LogType, BatchType,
       LocalType, queueVars, semVars, seqVars, walVars, batchVars, localVars
  <2>2. LoadedInv'
    BY <1>29 DEF Fatal, LoadedInv, HolderPCs, BatchType, LocalType, localVars
  <2>3. calls' \in 0 .. MaxCalls /\ dead' \in {"no", "panic", "fatal"}
    BY <1>29, PipelineAssumption DEF Fatal
  <2> QED
    BY <2>1, <2>2, <2>3
<1>30. ASSUME NEW b \in Batches, WriteFails(b) PROVE Typed'
  <2>1. QueueType'
    BY <1>30 DEF WriteFails, Goto, QueueType, queueVars
  <2>2. BatchType'
    BY <1>30 DEF WriteFails, Goto, BatchType, batchVars, PCs
  <2>3. SemType' /\ SeqNumType' /\ LogType' /\ LocalType'
    BY <1>30 DEF WriteFails, Goto, SemType, SeqNumType, LogType, LocalType,
       semVars, seqVars, walVars, localVars
  <2>4. LoadedInv'
    BY <1>30 DEF WriteFails, Goto, LoadedInv, HolderPCs, BatchType, LocalType,
       localVars
  <2>5. calls' \in 0 .. MaxCalls /\ dead' \in {"no", "panic", "fatal"}
    BY <1>30, PipelineAssumption DEF WriteFails, Goto
  <2> QED
    BY <2>1, <2>2, <2>3, <2>4, <2>5
<1>31. ASSUME NEW b \in Batches, ApplyFails(b) PROVE Typed'
  <2>1. BatchType'
    BY <1>31 DEF ApplyFails, Goto, BatchType, batchVars, PCs
  <2>2. QueueType' /\ SemType' /\ SeqNumType' /\ LogType' /\ LocalType'
    BY <1>31 DEF ApplyFails, Goto, QueueType, SemType, SeqNumType, LogType,
       LocalType, queueVars, semVars, seqVars, walVars, localVars
  <2>3. LoadedInv'
    BY <1>31 DEF ApplyFails, Goto, LoadedInv, HolderPCs, BatchType, LocalType,
       localVars
  <2>4. calls' \in 0 .. MaxCalls /\ dead' \in {"no", "panic", "fatal"}
    BY <1>31, PipelineAssumption DEF ApplyFails, Goto
  <2> QED
    BY <2>1, <2>2, <2>3, <2>4
<1>32. CASE LogSync
  <2>1. LogType'
    <3>1. PICK k \in Head(syncQ).at .. Len(wal) : synced' = k
      BY <1>32 DEF LogSync
    <3>2. Head(syncQ).at \in Nat
      <4>1. Head(syncQ) \in SyncWaiter
        BY <1>32 DEF LogSync, LogType
      <4> QED
        BY <4>1 DEF SyncWaiter
    <3>3. Len(wal) \in Nat
      BY DEF LogType
    <3>4. synced' \in Nat
      BY <3>1, <3>2, <3>3
    <3> QED
      BY <1>32, <3>4 DEF LogSync, LogType
  <2>2. QueueType' /\ SemType' /\ SeqNumType' /\ BatchType' /\ LocalType'
    BY <1>32 DEF LogSync, QueueType, SemType, SeqNumType, BatchType,
       LocalType, queueVars, semVars, seqVars, batchVars, localVars
  <2>3. LoadedInv'
    BY <1>32 DEF LogSync, LoadedInv, HolderPCs, BatchType, LocalType,
       localVars
  <2>4. calls' \in 0 .. MaxCalls /\ dead' \in {"no", "panic", "fatal"}
    BY <1>32, PipelineAssumption DEF LogSync
  <2> QED
    BY <2>1, <2>2, <2>3, <2>4
<1>33. CASE LogPop
  <2>1. LogType'
    BY <1>33, OpFacts DEF LogPop, LogType, walVars, BatchType
  <2>2. BatchType'
    <3> DEFINE h == Head(syncQ).batch
    <3>1. h \in Batches
      <4>1. Head(syncQ) \in SyncWaiter
        BY <1>33 DEF LogPop, LogType
      <4> QED
        BY <4>1 DEF SyncWaiter
    <3>2. commitErr' \in [Batches -> BOOLEAN]
      BY <1>33 DEF LogPop, BatchType, LogType
    <3>3. commitWG' \in [Batches -> Int] /\ fsyncWG' \in [Batches -> Int]
      <4>1. /\ commitWG' = commitWG \/ commitWG' = [commitWG EXCEPT ![h] = @ - 1]
            /\ fsyncWG' = fsyncWG \/ fsyncWG' = [fsyncWG EXCEPT ![h] = @ - 1]
        BY <1>33 DEF LogPop
      <4> QED
        BY <3>1, <4>1 DEF BatchType
    <3> QED
      BY <1>33, <3>2, <3>3 DEF LogPop, BatchType
  <2>3. QueueType' /\ SemType' /\ SeqNumType' /\ LocalType'
    BY <1>33 DEF LogPop, QueueType, SemType, SeqNumType, LocalType, queueVars,
       semVars, seqVars, localVars
  <2>4. LoadedInv'
    BY <1>33 DEF LogPop, LoadedInv, HolderPCs, BatchType, LocalType, localVars
  <2>5. calls' \in 0 .. MaxCalls /\ dead' \in {"no", "panic", "fatal"}
    BY <1>33, PipelineAssumption DEF LogPop
  <2> QED
    BY <2>1, <2>2, <2>3, <2>4, <2>5
<1>34. CASE LogRelease
  <2>1. SemType'
    BY <1>34 DEF LogRelease, SemType, semVars
  <2>2. LogType'
    BY <1>34, OpFacts DEF LogRelease, LogType, walVars, BatchType
  <2>3. QueueType' /\ SeqNumType' /\ BatchType' /\ LocalType'
    BY <1>34 DEF LogRelease, QueueType, SeqNumType, BatchType, LocalType,
       queueVars, seqVars, batchVars, localVars
  <2>4. LoadedInv'
    BY <1>34 DEF LogRelease, LoadedInv, HolderPCs, BatchType, LocalType,
       localVars
  <2>5. calls' \in 0 .. MaxCalls /\ dead' \in {"no", "panic", "fatal"}
    BY <1>34, PipelineAssumption DEF LogRelease
  <2> QED
    BY <2>1, <2>2, <2>3, <2>4, <2>5
<1>35. CASE LogFail
  <2>1. LogType'
    BY <1>35, OpFacts DEF LogFail, LogType, walVars, BatchType
  <2>2. QueueType' /\ SemType' /\ SeqNumType' /\ BatchType' /\ LocalType'
    BY <1>35 DEF LogFail, QueueType, SemType, SeqNumType, BatchType,
       LocalType, queueVars, semVars, seqVars, batchVars, localVars
  <2>3. LoadedInv'
    BY <1>35 DEF LogFail, LoadedInv, HolderPCs, BatchType, LocalType,
       localVars
  <2>4. calls' \in 0 .. MaxCalls /\ dead' \in {"no", "panic", "fatal"}
    BY <1>35, PipelineAssumption DEF LogFail
  <2> QED
    BY <2>1, <2>2, <2>3, <2>4
<1>36. CASE UNCHANGED vars
  BY <1>36 DEF vars, QueueType, SemType, SeqNumType, LogType, BatchType,
     LocalType, LoadedInv, queueVars, semVars, seqVars, walVars, batchVars,
     localVars
<1> QED
  BY <1>1, <1>2, <1>3, <1>4, <1>5, <1>6, <1>7, <1>8, <1>9, <1>10, <1>11,
     <1>12, <1>13, <1>14, <1>15, <1>16, <1>17, <1>18, <1>19, <1>20, <1>21,
     <1>22, <1>23, <1>24, <1>25, <1>26, <1>27, <1>28, <1>29, <1>30, <1>31,
     <1>32, <1>33, <1>34, <1>35, <1>36
  DEF Next, CommitStep, PublishStep, Fault, LogStep, Finished

\* Every variable of the pipeline keeps its type, for any number of goroutines,
\* any queue size and any calls.
THEOREM TypeCorrect == Spec => []TypeOK
<1>1. Init => Typed
  BY InitTyped
<1>2. Typed /\ [Next]_vars => Typed'
  BY NextTyped
<1>3. Typed => TypeOK
  BY DEF Typed
<1> QED
  BY <1>1, <1>2, <1>3, PTL DEF Spec

-----------------------------------------------------------------------------
(***************************************************************************)
(* The WAL: whatever the calls and however many goroutines make them, its  *)
(* records are in the order of their sequence numbers.                     *)
(***************************************************************************)

\* Between Lock and Unlock of commitPipeline.mu.
MuPCs == {"enqueue", "store", "bump", "seq", "write", "drain", "prepare",
          "directsem", "directwrite", "directwait"}

\* Sequenced, and the record, if there is to be one, not yet written.
UnwrittenPCs == {"write", "drain", "prepare", "directsem", "directwrite"}

\* commitPipeline.mu is a mutex.
MutexInv == \A b \in Batches : pc[b] \in MuPCs => mu = b

RecordEnd(i) == wal[i].seq + wal[i].n

\* No record reaches past the next sequence number to be given out.
LogBelow == \A i \in 1 .. Len(wal) : RecordEnd(i) <= logSeqNum

\* A batch that may still be written comes after all records.
UnwrittenAfter ==
  \A b \in Batches : pc[b] \in UnwrittenPCs =>
    /\ End(b) <= logSeqNum
    /\ \A i \in 1 .. Len(wal) : RecordEnd(i) <= seq[b]

WalInv == Typed /\ MutexInv /\ LogBelow /\ UnwrittenAfter /\ WalOrder

-----------------------------------------------------------------------------
(***************************************************************************)
(* Steps that neither sequence nor write.                                  *)
(***************************************************************************)

\* A step that moves no goroutine into a critical region preserves the
\* invariant if it leaves the log and the sequence numbers alone.
LEMMA LogFrame ==
  ASSUME WalInv, Typed',
         wal' = wal, logSeqNum' = logSeqNum,
         \A c \in Batches : pc'[c] \in MuPCs => pc[c] \in MuPCs /\ mu' = mu,
         \A c \in Batches : pc'[c] \in UnwrittenPCs =>
            pc[c] \in UnwrittenPCs /\ seq'[c] = seq[c] /\ op'[c] = op[c]
  PROVE  WalInv'
<1>1. MutexInv'
  BY DEF WalInv, MutexInv
<1>2. LogBelow'
  BY DEF WalInv, LogBelow, RecordEnd
<1>3. UnwrittenAfter'
  BY DEF WalInv, UnwrittenAfter, RecordEnd, End
<1>4. WalOrder'
  BY DEF WalInv, WalOrder
<1> QED
  BY <1>1, <1>2, <1>3, <1>4 DEF WalInv

\* Under the mutex a goroutine is alone.
LEMMA OneInMutex ==
  ASSUME WalInv, NEW b \in Batches, NEW c \in Batches,
         pc[b] \in MuPCs, pc[c] \in MuPCs
  PROVE  b = c
BY DEF WalInv, MutexInv

\* What a written record does to the log, for Write and for directWrite.
LEMMA LogWriteOrder ==
  ASSUME WalInv, NEW b \in Batches, NEW sync \in BOOLEAN, LogWrite(b, sync),
         pc[b] \in UnwrittenPCs, logSeqNum' = logSeqNum
  PROVE  LogBelow' /\ WalOrder'
<1> DEFINE r == [batch |-> b, seq |-> seq[b], n |-> op[b].n]
<1>1. wal \in Seq(WalRecord) /\ r \in WalRecord
  BY OpFacts DEF WalInv, Typed, TypeOK, LogType, BatchType, WalRecord
<1>2. wal' = Append(wal, r)
  BY DEF LogWrite
<1> DEFINE n == Len(wal)
<1>3. /\ n \in Nat /\ Len(wal') = n + 1
      /\ \A i \in 1 .. n : wal'[i] = wal[i]
      /\ wal'[n + 1] = r
  BY <1>1, <1>2
<1>4. seq[b] \in Nat /\ op[b].n \in Nat /\ logSeqNum \in Nat
  BY OpFacts DEF WalInv, Typed, TypeOK, BatchType, SeqNumType
<1>5. /\ seq[b] + op[b].n <= logSeqNum
      /\ \A i \in 1 .. n : wal[i].seq + wal[i].n <= seq[b]
  BY DEF WalInv, UnwrittenAfter, RecordEnd, End
<1>6. wal'[n + 1].seq = seq[b] /\ wal'[n + 1].n = op[b].n
  BY <1>3
<1>7. \A i \in 1 .. n : wal[i].seq + wal[i].n <= logSeqNum
  BY DEF WalInv, LogBelow, RecordEnd
<1>8. LogBelow'
  <2> SUFFICES ASSUME NEW i \in 1 .. n + 1
               PROVE  wal'[i].seq + wal'[i].n <= logSeqNum
    BY <1>3 DEF LogBelow, RecordEnd
  <2>1. CASE i = n + 1
    BY <2>1, <1>5, <1>6
  <2>2. CASE i # n + 1
    <3>1. i \in 1 .. n
      BY <2>2, <1>3
    <3> QED
      BY <3>1, <1>3, <1>7
  <2> QED
    BY <2>1, <2>2
<1>9. WalOrder'
  <2> SUFFICES ASSUME NEW i \in 1 .. n + 1, NEW j \in 1 .. n + 1, i < j
               PROVE  wal'[i].seq + wal'[i].n <= wal'[j].seq
    BY <1>3 DEF WalOrder
  <2>1. i \in 1 .. n
    BY <1>3
  <2>2. CASE j = n + 1
    BY <2>1, <2>2, <1>3, <1>5, <1>6
  <2>3. CASE j # n + 1
    <3>1. j \in 1 .. n
      BY <2>3, <1>3
    <3>2. wal[i].seq + wal[i].n <= wal[j].seq
      BY <2>1, <3>1 DEF WalInv, WalOrder
    <3> QED
      BY <2>1, <3>1, <3>2, <1>3
  <2> QED
    BY <2>2, <2>3
<1> QED
  BY <1>8, <1>9

\* The log is empty before the first Commit.
LEMMA InitWal == Init => WalInv
<1> SUFFICES ASSUME Init PROVE WalInv
  OBVIOUS
<1>1. Typed
  BY InitTyped
<1>2. Len(wal) = 0
  BY DEF Init
<1>3. LogBelow /\ WalOrder
  BY <1>2 DEF LogBelow, WalOrder
<1>4. MutexInv /\ UnwrittenAfter
  BY DEF Init, MutexInv, UnwrittenAfter, MuPCs, UnwrittenPCs
<1> QED
  BY <1>1, <1>3, <1>4 DEF WalInv

\* One step per action; those that do not touch the log are LogFrame.
LEMMA NextWal == WalInv /\ [Next]_vars => WalInv'
<1> SUFFICES ASSUME WalInv, [Next]_vars PROVE WalInv'
  OBVIOUS
<1>0. Typed'
  BY NextTyped DEF WalInv
<1>t. BatchType /\ pc \in [Batches -> PCs]
  BY DEF WalInv, Typed, TypeOK, BatchType
<1>1. ASSUME NEW b \in Batches, NEW o \in Ops, Begin(b, o) PROVE WalInv'
  BY <1>0, <1>t, <1>1, LogFrame DEF Begin, seqVars, walVars, MuPCs, UnwrittenPCs,
     BatchType
<1>2. ASSUME NEW b \in Batches, AcquireIngestSem(b) PROVE WalInv'
  BY <1>0, <1>t, <1>2, LogFrame DEF AcquireIngestSem, Goto, seqVars, walVars,
     batchVars, MuPCs, UnwrittenPCs
<1>3. ASSUME NEW b \in Batches, AcquireCommitQueueSem(b) PROVE WalInv'
  BY <1>0, <1>t, <1>3, LogFrame DEF AcquireCommitQueueSem, Goto, seqVars, walVars,
     batchVars, MuPCs, UnwrittenPCs
<1>4. ASSUME NEW b \in Batches, AcquireLogSyncQSem(b) PROVE WalInv'
  BY <1>0, <1>t, <1>4, LogFrame DEF AcquireLogSyncQSem, Goto, seqVars, walVars,
     batchVars, MuPCs, UnwrittenPCs
<1>5. ASSUME NEW b \in Batches, RefuseInvalidBatch(b) PROVE WalInv'
  BY <1>0, <1>t, <1>5, LogFrame DEF RefuseInvalidBatch, Goto, seqVars, walVars,
     batchVars, MuPCs, UnwrittenPCs
<1>6. ASSUME NEW b \in Batches, EnqueueCheck(b) PROVE WalInv'
  BY <1>0, <1>t, <1>6, LogFrame DEF EnqueueCheck, seqVars, walVars,
     batchVars, MuPCs, UnwrittenPCs
<1>7. ASSUME NEW b \in Batches, EnqueueStore(b) PROVE WalInv'
  BY <1>0, <1>t, <1>7, LogFrame DEF EnqueueStore, Goto, seqVars, walVars,
     batchVars, MuPCs, UnwrittenPCs
<1>8. ASSUME NEW b \in Batches, EnqueueBump(b) PROVE WalInv'
  BY <1>0, <1>t, <1>8, LogFrame DEF EnqueueBump, Goto, seqVars, walVars,
     batchVars, MuPCs, UnwrittenPCs
<1>9. ASSUME NEW b \in Batches, Drain(b) PROVE WalInv'
  BY <1>0, <1>t, <1>9, LogFrame DEF Drain, Goto, seqVars, walVars,
     batchVars, MuPCs, UnwrittenPCs
<1>10. ASSUME NEW b \in Batches, DirectAcquire(b) PROVE WalInv'
  BY <1>0, <1>t, <1>10, LogFrame DEF DirectAcquire, Goto, seqVars, walVars,
     batchVars, MuPCs, UnwrittenPCs
<1>11. ASSUME NEW b \in Batches, Apply(b) PROVE WalInv'
  BY <1>0, <1>t, <1>11, LogFrame DEF Apply, seqVars, walVars,
     batchVars, MuPCs, UnwrittenPCs
<1>12. ASSUME NEW b \in Batches, MarkApplied(b) PROVE WalInv'
  BY <1>0, <1>t, <1>12, LogFrame DEF MarkApplied, Goto, seqVars, walVars,
     batchVars, MuPCs, UnwrittenPCs
<1>13. ASSUME NEW b \in Batches, LoadHeadTail(b) PROVE WalInv'
  BY <1>0, <1>t, <1>13, LogFrame DEF LoadHeadTail, Goto, seqVars, walVars,
     batchVars, MuPCs, UnwrittenPCs
<1>14. ASSUME NEW b \in Batches, LoadSlot(b) PROVE WalInv'
  BY <1>0, <1>t, <1>14, LogFrame DEF LoadSlot, Goto, seqVars, walVars,
     batchVars, MuPCs, UnwrittenPCs
<1>15. ASSUME NEW b \in Batches, LoadApplied(b) PROVE WalInv'
  BY <1>0, <1>t, <1>15, LogFrame DEF LoadApplied, Goto, seqVars, walVars,
     batchVars, MuPCs, UnwrittenPCs
<1>16. ASSUME NEW b \in Batches, CompareAndSwapTail(b) PROVE WalInv'
  BY <1>0, <1>t, <1>16, LogFrame DEF CompareAndSwapTail, Goto, seqVars, walVars,
     batchVars, MuPCs, UnwrittenPCs
<1>17. ASSUME NEW b \in Batches, ClearSlot(b) PROVE WalInv'
  BY <1>0, <1>t, <1>17, LogFrame DEF ClearSlot, Goto, seqVars, walVars,
     batchVars, MuPCs, UnwrittenPCs
<1>18. ASSUME NEW b \in Batches, LoadVisible(b) PROVE WalInv'
  BY <1>0, <1>t, <1>18, LogFrame DEF LoadVisible, Goto, seqVars, walVars,
     batchVars, MuPCs, UnwrittenPCs
<1>19. ASSUME NEW b \in Batches, Ratchet(b) PROVE WalInv'
  BY <1>0, <1>t, <1>19, LogFrame DEF Ratchet, Goto, seqVars, walVars,
     batchVars, MuPCs, UnwrittenPCs
<1>20. ASSUME NEW b \in Batches, CommitDone(b) PROVE WalInv'
  BY <1>0, <1>t, <1>20, LogFrame DEF CommitDone, Goto, seqVars, walVars,
     batchVars, MuPCs, UnwrittenPCs
<1>21. ASSUME NEW b \in Batches, Return(b) PROVE WalInv'
  BY <1>0, <1>t, <1>21, LogFrame DEF Return, Goto, seqVars, walVars,
     batchVars, MuPCs, UnwrittenPCs
<1>22. ASSUME NEW b \in Batches, SyncWait(b) PROVE WalInv'
  BY <1>0, <1>t, <1>22, LogFrame DEF SyncWait, Goto, seqVars, walVars,
     batchVars, MuPCs, UnwrittenPCs
<1>23. ASSUME NEW b \in Batches, Fatal(b) PROVE WalInv'
  BY <1>0, <1>t, <1>23, LogFrame DEF Fatal, seqVars, walVars,
     batchVars, MuPCs, UnwrittenPCs
<1>24. ASSUME NEW b \in Batches, ApplyFails(b) PROVE WalInv'
  BY <1>0, <1>t, <1>24, LogFrame DEF ApplyFails, Goto, seqVars, walVars,
     batchVars, MuPCs, UnwrittenPCs
<1>25. ASSUME NEW b \in Batches, IngestPrepare(b) PROVE WalInv'
  <2>1. \A c \in Batches : pc[c] \in MuPCs => c = b
    BY <1>25, OneInMutex DEF IngestPrepare, MuPCs
  <2>2. wal' = wal /\ logSeqNum' = logSeqNum /\ seq' = seq /\ op' = op
    BY <1>25 DEF IngestPrepare, seqVars, walVars, batchVars
  <2>3. \A c \in Batches : pc'[c] \in MuPCs => pc[c] \in MuPCs /\ mu' = mu
    BY <1>25, <1>t, <2>1 DEF IngestPrepare, MuPCs
  <2>4. \A c \in Batches : pc'[c] \in UnwrittenPCs => pc[c] \in UnwrittenPCs
    BY <1>25, <1>t DEF IngestPrepare, UnwrittenPCs
  <2> QED
    BY <1>0, <2>2, <2>3, <2>4, LogFrame
<1>26. ASSUME NEW b \in Batches, DirectWait(b) PROVE WalInv'
  <2>1. \A c \in Batches : pc[c] \in MuPCs => c = b
    BY <1>26, OneInMutex DEF DirectWait, Goto, MuPCs
  <2>2. wal' = wal /\ logSeqNum' = logSeqNum /\ seq' = seq /\ op' = op
    BY <1>26 DEF DirectWait, seqVars, walVars, batchVars
  <2>3. \A c \in Batches : pc'[c] \in MuPCs => pc[c] \in MuPCs /\ mu' = mu
    BY <1>26, <1>t, <2>1 DEF DirectWait, Goto, MuPCs
  <2>4. \A c \in Batches : pc'[c] \in UnwrittenPCs => pc[c] \in UnwrittenPCs
    BY <1>26, <1>t DEF DirectWait, Goto, UnwrittenPCs
  <2> QED
    BY <1>0, <2>2, <2>3, <2>4, LogFrame
<1>27. ASSUME NEW b \in Batches, WriteFails(b) PROVE WalInv'
  <2>1. \A c \in Batches : pc[c] \in MuPCs => c = b
    BY <1>27, OneInMutex DEF WriteFails, Goto, MuPCs
  <2>2. wal' = wal /\ logSeqNum' = logSeqNum /\ seq' = seq /\ op' = op
    BY <1>27 DEF WriteFails, seqVars, walVars, batchVars
  <2>3. \A c \in Batches : pc'[c] \in MuPCs => pc[c] \in MuPCs /\ mu' = mu
    BY <1>27, <1>t, <2>1 DEF WriteFails, Goto, MuPCs
  <2>4. \A c \in Batches : pc'[c] \in UnwrittenPCs => pc[c] \in UnwrittenPCs
    BY <1>27, <1>t DEF WriteFails, Goto, UnwrittenPCs
  <2> QED
    BY <1>0, <2>2, <2>3, <2>4, LogFrame
<1>28. ASSUME NEW b \in Batches, Lock(b) PROVE WalInv'
  <2>1. /\ wal' = wal /\ logSeqNum' = logSeqNum /\ seq' = seq /\ op' = op
        /\ mu = NoBatch /\ mu' = b
    BY <1>28 DEF Lock, seqVars, walVars
  <2>2. MutexInv'
    BY <1>28, <1>t, <2>1, PipelineAssumption DEF WalInv, MutexInv, Lock, Goto
  <2>3. UnwrittenAfter'
    BY <1>28, <1>t, <2>1 DEF WalInv, UnwrittenAfter, RecordEnd, End, Lock, Goto,
       UnwrittenPCs
  <2>4. LogBelow' /\ WalOrder'
    BY <2>1 DEF WalInv, LogBelow, RecordEnd, WalOrder
  <2> QED
    BY <1>0, <2>2, <2>3, <2>4 DEF WalInv
<1>29. ASSUME NEW b \in Batches, AssignSeqNum(b) PROVE WalInv'
  <2>1. \A c \in Batches : pc[c] \in MuPCs => c = b
    BY <1>29, OneInMutex DEF AssignSeqNum, Goto, MuPCs
  <2>2. /\ wal' = wal /\ mu' = mu /\ op' = op
        /\ \A c \in Batches : c # b => pc'[c] = pc[c]
        /\ pc[b] \in MuPCs
    BY <1>29, <1>t DEF AssignSeqNum, Goto, walVars, MuPCs
  <2>3. /\ logSeqNum \in Nat /\ op[b].n \in Nat
        /\ \A i \in 1 .. Len(wal) : wal[i].seq \in Nat /\ wal[i].n \in Nat
    <3>1. wal \in Seq(WalRecord)
      BY DEF WalInv, Typed, TypeOK, LogType
    <3>2. \A i \in 1 .. Len(wal) : wal[i] \in WalRecord
      BY <3>1
    <3>3. \A i \in 1 .. Len(wal) : wal[i].seq \in Nat /\ wal[i].n \in Nat
      BY <3>2 DEF WalRecord
    <3>4. logSeqNum \in Nat /\ op[b].n \in Nat
      BY OpFacts DEF WalInv, Typed, TypeOK, BatchType, SeqNumType
    <3> QED
      BY <3>3, <3>4
  <2>4. PICK first \in Nat : /\ first >= logSeqNum
                            /\ logSeqNum' = first + op[b].n
                            /\ seq' = [seq EXCEPT ![b] = first]
    <3> DEFINE f == IF IsIngest(b) /\ logSeqNum = 0 THEN 1 ELSE logSeqNum
    <3>1. f \in Nat /\ f >= logSeqNum
      BY <2>3
    <3>2. logSeqNum' = f + op[b].n /\ seq' = [seq EXCEPT ![b] = f]
      BY <1>29 DEF AssignSeqNum
    <3> QED
      BY <3>1, <3>2
  <2>5. MutexInv'
    BY <2>1, <2>2 DEF WalInv, MutexInv
  <2>6. \A i \in 1 .. Len(wal) : wal[i].seq + wal[i].n <= logSeqNum
    BY DEF WalInv, LogBelow, RecordEnd
  <2>7. LogBelow'
    <3>1. logSeqNum <= logSeqNum' /\ logSeqNum' \in Nat /\ wal' = wal
      BY <2>2, <2>3, <2>4
    <3>2. ASSUME NEW i \in 1 .. Len(wal) PROVE wal[i].seq + wal[i].n <= logSeqNum'
      <4>1. wal[i].seq \in Nat /\ wal[i].n \in Nat /\ wal[i].seq + wal[i].n <= logSeqNum
        BY <2>3, <2>6
      <4> QED
        BY <2>3, <3>1, <4>1
    <3> QED
      BY <3>1, <3>2 DEF LogBelow, RecordEnd
  <2>8. UnwrittenAfter'
    <3> SUFFICES ASSUME NEW c \in Batches, pc'[c] \in UnwrittenPCs
                 PROVE  /\ seq'[c] + op'[c].n <= logSeqNum'
                        /\ \A i \in 1 .. Len(wal') : wal'[i].seq + wal'[i].n <= seq'[c]
      BY DEF UnwrittenAfter, End, RecordEnd
    <3>1. c = b
      BY <2>1, <2>2 DEF MuPCs, UnwrittenPCs
    <3>2. seq'[c] = first
      BY <3>1, <2>4, <1>t DEF BatchType
    <3> QED
      BY <3>1, <3>2, <2>2, <2>3, <2>4, <2>6
  <2>9. WalOrder'
    BY <2>2 DEF WalInv, WalOrder
  <2> QED
    BY <1>0, <2>5, <2>7, <2>8, <2>9 DEF WalInv
<1>30. ASSUME NEW b \in Batches, Write(b) PROVE WalInv'
  <2>1. \A c \in Batches : pc[c] \in MuPCs => c = b
    BY <1>30, OneInMutex DEF Write, Goto, MuPCs
  <2>2. /\ logSeqNum' = logSeqNum
        /\ \A c \in Batches : c # b => pc'[c] = pc[c]
        /\ pc[b] = "write" /\ pc'[b] = "apply"
        /\ LogWrite(b, op[b].sync # "none")
    BY <1>30, <1>t DEF Write, Goto, seqVars
  <2>3. LogBelow' /\ WalOrder'
    BY <2>2, LogWriteOrder DEF UnwrittenPCs
  <2>4. MutexInv'
    BY <1>30, <2>1, <2>2 DEF WalInv, MutexInv, MuPCs, Write
  <2>5. UnwrittenAfter'
    BY <2>1, <2>2 DEF UnwrittenAfter, UnwrittenPCs, MuPCs
  <2> QED
    BY <1>0, <2>3, <2>4, <2>5 DEF WalInv
<1>31. ASSUME NEW b \in Batches, DirectWrite(b) PROVE WalInv'
  <2>1. \A c \in Batches : pc[c] \in MuPCs => c = b
    BY <1>31, OneInMutex DEF DirectWrite, Goto, MuPCs
  <2>2. /\ logSeqNum' = logSeqNum
        /\ \A c \in Batches : c # b => pc'[c] = pc[c]
        /\ pc[b] = "directwrite" /\ pc'[b] = "directwait"
        /\ LogWrite(b, TRUE)
    BY <1>31, <1>t DEF DirectWrite, Goto, seqVars
  <2>3. LogBelow' /\ WalOrder'
    BY <2>2, LogWriteOrder DEF UnwrittenPCs
  <2>4. MutexInv'
    BY <1>31, <2>1, <2>2 DEF WalInv, MutexInv, MuPCs, DirectWrite
  <2>5. UnwrittenAfter'
    BY <2>1, <2>2 DEF UnwrittenAfter, UnwrittenPCs, MuPCs
  <2> QED
    BY <1>0, <2>3, <2>4, <2>5 DEF WalInv
<1>32. CASE LogSync
  BY <1>0, <1>32, LogFrame DEF LogSync, seqVars, batchVars
<1>33. CASE LogPop
  BY <1>0, <1>33, LogFrame DEF LogPop, seqVars, batchVars
<1>34. CASE LogRelease
  BY <1>0, <1>34, LogFrame DEF LogRelease, seqVars, batchVars
<1>35. CASE LogFail
  BY <1>0, <1>35, LogFrame DEF LogFail, seqVars, batchVars
<1>36. CASE UNCHANGED vars
  BY <1>0, <1>36, LogFrame DEF vars, seqVars, walVars, batchVars
<1> QED
  BY <1>1, <1>2, <1>3, <1>4, <1>5, <1>6, <1>7, <1>8, <1>9, <1>10, <1>11,
     <1>12, <1>13, <1>14, <1>15, <1>16, <1>17, <1>18, <1>19, <1>20, <1>21,
     <1>22, <1>23, <1>24, <1>25, <1>26, <1>27, <1>28, <1>29, <1>30, <1>31,
     <1>32, <1>33, <1>34, <1>35, <1>36
  DEF Next, CommitStep, PublishStep, Fault, LogStep, Finished

\* The records of the WAL are in the order of their sequence numbers, so that
\* what a crash leaves of it is a prefix of the history: invariant 1 of the
\* comment on commitPipeline, for any number of goroutines and calls.
THEOREM WalOrdered == Spec => []WalOrder
<1>1. Init => WalInv
  BY InitWal
<1>2. WalInv /\ [Next]_vars => WalInv'
  BY NextWal
<1>3. WalInv => WalOrder
  BY DEF WalInv
<1> QED
  BY <1>1, <1>2, <1>3, PTL DEF Spec

-----------------------------------------------------------------------------
(***************************************************************************)
(* The inductive invariant.                                                *)
(***************************************************************************)

\* Where a goroutine is in its call: before its batch is in the queue, before
\* its batch is applied, and in publish.
UnboundPCs == {"ingestsem", "sem", "syncsem", "lock", "enqueue", "store",
               "bump"}
UnappliedPCs == {"seq", "write", "drain", "prepare", "directsem",
                 "directwrite", "directwait", "apply"}
PublishPCs == {"load", "slot", "check", "cas", "wait"} \cup HolderPCs
QueuedPCs == UnappliedPCs \cup PublishPCs \cup {"failed"}
IngestPCs == {"drain", "prepare", "directsem", "directwrite", "directwait"}
UnsyncedPCs == {"enqueue", "store", "bump", "seq", "write"}
AwaitingPCs == {"directwait", "apply", "syncwait", "failed"} \cup PublishPCs

\* The batch at index i of the commit queue; a batch waiting in the queue; a
\* batch that goroutine c has taken off the queue and not yet announced.
At(i) == slots[Slot(i)]
Window == tail .. head - 1
InWindow(b) == \E i \in Window : At(i) = b
Held(b) == \E c \in Batches : pc[c] \in HolderPCs /\ lBatch[c] = b
InSyncQ(b) == \E i \in 1 .. Len(syncQ) : syncQ[i].batch = b

\* No index has come back since a goroutine loaded it.
Unbound == {b \in Batches : pc[b] \in UnboundPCs}
CallsInv ==
  /\ StartIndex <= tail
  /\ head + Cardinality(Unbound) <= StartIndex + calls

\* The ring buffer: [tail, head) holds distinct batches whose calls are under
\* way; the slot being filled is outside.
RingInv ==
  /\ tail <= head /\ head <= tail + SyncConcurrency
  /\ \A i \in Window : At(i) \in Batches /\ pc[At(i)] \in QueuedPCs
  /\ \A i, j \in Window : At(i) = At(j) => i = j
  /\ \A b \in Batches : pc[b] \in {"store", "bump"} => head < tail + SyncConcurrency
  /\ \A b \in Batches : pc[b] = "bump" => At(head) = b

\* A consumer that has moved the tail owns its slot until it clears it.
ClearInv ==
  \A c \in Batches : pc[c] = "clear" =>
    /\ lTail[c] < tail /\ head <= lTail[c] + SyncConcurrency
    /\ At(lTail[c]) = lBatch[c]
    /\ \A b \in Batches : pc[b] = "bump" => head < lTail[c] + SyncConcurrency

\* What a consumer has loaded is true as long as the tail has not moved.
LocalsInv ==
  \A c \in Batches : pc[c] \in {"slot", "check", "cas"} =>
    /\ StartIndex <= lTail[c] /\ lTail[c] <= tail
    /\ lTail[c] = tail => tail < head
    /\ lTail[c] = tail /\ pc[c] # "slot" => lBatch[c] = At(tail)
    /\ lTail[c] = tail /\ pc[c] = "cas" => applied[lBatch[c]]

\* A batch is held by one consumer, is out of the queue, and cannot return.
HeldInv ==
  /\ \A c \in Batches : pc[c] \in HolderPCs =>
       /\ pc[lBatch[c]] \in QueuedPCs
       /\ ~InWindow(lBatch[c])
       /\ applied[lBatch[c]]
  /\ \A c, d \in Batches : pc[c] \in HolderPCs /\ pc[d] \in HolderPCs
                             /\ lBatch[c] = lBatch[d] => c = d

\* Only what has been applied is marked.
AppliedInv ==
  \A b \in Batches : applied[b] =>
    /\ Entries(b) \subseteq mem
    /\ pc[b] \notin UnboundPCs \cup UnappliedPCs

SyncPending(b) == op[b].sync = "wait" /\ (pc[b] \in UnsyncedPCs \/ InSyncQ(b))
PublishPending(b) == pc[b] \in {"enqueue", "store", "bump"} \/ InWindow(b) \/ Held(b)

\* The wait group counts what a call has yet to wait for.
WaitInv ==
  \A b \in Batches :
    /\ PublishPending(b) => commitWG[b] >= 1
    /\ SyncPending(b) => commitWG[b] >= 1
    /\ PublishPending(b) /\ SyncPending(b) => commitWG[b] >= 2

\* The sync queue holds distinct batches whose calls are under way.
SyncInv ==
  /\ \A i \in 1 .. Len(syncQ) :
       /\ pc[syncQ[i].batch] \in AwaitingPCs
       /\ op[syncQ[i].batch].sync # "wait" => fsyncWG[syncQ[i].batch] >= 1
       /\ op[syncQ[i].batch].sync = "none" => pc[syncQ[i].batch] = "directwait"
  /\ \A i, j \in 1 .. Len(syncQ) : syncQ[i].batch = syncQ[j].batch => i = j
  /\ \A b \in Batches :
       /\ pc[b] \in IngestPCs => op[b].sync = "none"
       /\ pc[b] = "directwrite" => fsyncWG[b] >= 1
       /\ pc[b] = "syncwait" => op[b].sync = "nowait"
       /\ pc[b] \in UnsyncedPCs /\ op[b].sync = "nowait" => fsyncWG[b] >= 1

\* The first sequence number at or above index i of the queue.
Bound(i) == IF i < head /\ pc[At(i)] # "seq" THEN seq[At(i)] ELSE logSeqNum

\* The queue is in sequence number order without gaps, everything before its
\* first batch has been applied, and the ratchet only moves up.
OrderInv ==
  /\ \A i \in Window : pc[At(i)] # "seq" =>
       /\ End(At(i)) <= Bound(i + 1)
       /\ End(At(i)) .. Bound(i + 1) - 1 \subseteq mem
       /\ End(At(i)) \in ends
  /\ \A b \in Batches : pc[b] = "seq" => tail < head /\ At(head - 1) = b
  /\ StartSeqNum .. Bound(tail) - 1 \subseteq mem
  /\ visibleSeqNum <= Bound(tail) /\ visibleSeqNum \in ends
  /\ \A c \in Batches : pc[c] \in HolderPCs =>
       /\ End(lBatch[c]) <= Bound(tail)
       /\ End(lBatch[c]) \in ends
  /\ \A c \in Batches : pc[c] = "ratchet" => lSeq[c] <= End(lBatch[c])
  /\ \A c \in Batches : pc[c] = "done" => End(lBatch[c]) <= visibleSeqNum

\* A sequenced call is in the queue, in a consumer's hands, or visible.
PlaceInv ==
  \A b \in Batches :
    /\ pc[b] \in UnappliedPCs => InWindow(b)
    /\ pc[b] \in PublishPCs =>
         applied[b] /\ (InWindow(b) \/ Held(b) \/ End(b) <= visibleSeqNum)
    /\ pc[b] \in {"syncwait", "returned"} => End(b) <= visibleSeqNum

IInv ==
  /\ WalInv /\ CallsInv /\ RingInv /\ ClearInv /\ LocalsInv /\ HeldInv
  /\ AppliedInv /\ WaitInv /\ SyncInv /\ OrderInv /\ PlaceInv

-----------------------------------------------------------------------------
(***************************************************************************)
(* Indexes modulo a number.                                                *)
(***************************************************************************)

\* Division with remainder.
LEMMA DivMod ==
  ASSUME NEW m \in Int, m > 0, NEW a \in Int
  PROVE  a \div m \in Int /\ a = (a \div m) * m + (a % m)
<1>1. a \div m \in Int
  OBVIOUS
<1>2. a = (a \div m) * m + (a % m)
  OBVIOUS
<1> QED
  BY <1>1, <1>2

\* Numbers that are closer than m differ modulo m.
LEMMA ModUnique ==
  ASSUME NEW m \in Nat \ {0}, NEW a \in Nat, NEW b \in Nat,
         a <= b, b - a < m, a % m = b % m
  PROVE  a = b
<1> DEFINE qa == a \div m
           qb == b \div m
<1>1. m \in Int /\ m > 0 /\ a \in Int /\ b \in Int
  OBVIOUS
<1>2. qa \in Int /\ a = qa * m + (a % m)
  BY <1>1, DivMod, Zenon
<1>3. qb \in Int /\ b = qb * m + (b % m)
  BY <1>1, DivMod, Zenon
<1>4. b - a = (qb - qa) * m
  BY <1>2, <1>3
<1>5. qb - qa < 1
  <2> SUFFICES ASSUME qb - qa >= 1 PROVE FALSE
    BY <1>2, <1>3
  <2>1. (qb - qa) * m >= m
    BY <1>2, <1>3
  <2> QED
    BY <1>4, <2>1
<1>6. qb - qa > -1
  <2> SUFFICES ASSUME qb - qa <= -1 PROVE FALSE
    BY <1>2, <1>3
  <2>1. (qb - qa) * m <= -m
    BY <1>2, <1>3
  <2> QED
    BY <1>4, <2>1
<1>7. qb - qa = 0
  BY <1>2, <1>3, <1>5, <1>6
<1> QED
  BY <1>4, <1>7

\* Indexes less than the size of the queue apart use different slots.
LEMMA SlotDiffers ==
  ASSUME NEW i \in Nat, NEW j \in Nat, i < j, j < i + SyncConcurrency
  PROVE  Slot(i) # Slot(j)
<1>1. SyncConcurrency \in Nat \ {0} /\ i <= j /\ j - i < SyncConcurrency /\ i # j
  BY PipelineAssumption
<1>2. i % SyncConcurrency # j % SyncConcurrency
  BY <1>1, ModUnique, Zenon
<1> QED
  BY <1>2 DEF Slot

\* An index and the one a whole turn later use the same slot.
LEMMA SlotWraps ==
  ASSUME NEW i \in Nat
  PROVE  Slot(i + SyncConcurrency) = Slot(i)
<1> DEFINE m == SyncConcurrency
           j == i + m
           d == (j \div m) - (i \div m)
<1>1. m \in Int /\ m > 0 /\ i \in Int /\ j \in Int /\ j - i = m
  BY PipelineAssumption
<1>2. i \div m \in Int /\ i = (i \div m) * m + (i % m)
  BY <1>1, DivMod, Zenon
<1>3. j \div m \in Int /\ j = (j \div m) * m + (j % m)
  BY <1>1, DivMod, Zenon
<1>4. i % m \in 0 .. m - 1 /\ j % m \in 0 .. m - 1
  BY <1>1
<1> HIDE DEF m, j
<1>5. d \in Int /\ d * m + (j % m) - (i % m) = m
  BY <1>1, <1>2, <1>3
<1>6. d < 2
  <2> SUFFICES ASSUME d >= 2 PROVE FALSE
    BY <1>5
  <2>1. d * m >= 2 * m
    BY <1>1, <1>5
  <2> QED
    BY <1>1, <1>4, <1>5, <2>1
<1>7. d > 0
  <2> SUFFICES ASSUME d <= 0 PROVE FALSE
    BY <1>5
  <2>1. d * m <= 0
    BY <1>1, <1>5
  <2> QED
    BY <1>1, <1>4, <1>5, <2>1
<1>8. d = 1
  BY <1>5, <1>6, <1>7
<1>9. j % m = i % m
  BY <1>1, <1>4, <1>5, <1>8
<1> QED
  BY <1>9 DEF Slot, m, j

\* Indexes less than IndexMod apart are equal if the code finds them equal.
LEMMA IndexSame ==
  ASSUME NEW i \in Nat, NEW j \in Nat, i <= j, j < i + IndexMod,
         Index(i) = Index(j)
  PROVE  i = j
<1>1. IndexMod \in Nat \ {0} /\ j - i < IndexMod
  BY PipelineAssumption
<1>2. i % IndexMod = j % IndexMod
  BY DEF Index
<1> QED
  BY <1>1, <1>2, ModUnique, Zenon

-----------------------------------------------------------------------------
(***************************************************************************)
(* What every proof below uses: the types, and what the batches in the     *)
(* queue, in a consumer's hands and in the sync queue are.                 *)
(***************************************************************************)

\* The types, in the form the steps use.
LEMMA TypeFacts ==
  ASSUME Typed
  PROVE  /\ head \in Nat /\ tail \in Nat
         /\ slots \in [0 .. SyncConcurrency - 1 -> Batches \cup {NoBatch}]
         /\ pc \in [Batches -> PCs] /\ op \in [Batches -> OpType]
         /\ seq \in [Batches -> Nat] /\ applied \in [Batches -> BOOLEAN]
         /\ commitWG \in [Batches -> Int] /\ fsyncWG \in [Batches -> Int]
         /\ lTail \in [Batches -> Nat] /\ lHead \in [Batches -> Nat]
         /\ lBatch \in [Batches -> Batches \cup {NoBatch}]
         /\ \A b \in Batches : pc[b] \in HolderPCs => lBatch[b] \in Batches
         /\ logSeqNum \in Nat /\ visibleSeqNum \in Nat
         /\ mem \subseteq Nat /\ ends \subseteq Nat
         /\ calls \in Nat /\ calls <= MaxCalls
BY PipelineAssumption DEF Typed, TypeOK, QueueType, BatchType, LocalType,
   SeqNumType, LoadedInv

\* Every waiter in the sync queue names a batch.
LEMMA SyncQFacts ==
  ASSUME Typed
  PROVE  /\ syncQ \in Seq(SyncWaiter) /\ Len(syncQ) \in Nat
         /\ \A i \in 1 .. Len(syncQ) : syncQ[i].batch \in Batches
<1>1. syncQ \in Seq(SyncWaiter)
  BY DEF Typed, TypeOK, LogType
<1>2. \A i \in 1 .. Len(syncQ) : syncQ[i] \in SyncWaiter
  BY <1>1
<1>3. \A i \in 1 .. Len(syncQ) : syncQ[i].batch \in Batches
  BY <1>2 DEF SyncWaiter
<1> QED
  BY <1>1, <1>3

\* Where the owner of a batch is while the batch is queued, held or awaited.
LEMMA WindowFacts ==
  ASSUME IInv
  PROVE  /\ \A b \in Batches : InWindow(b) => pc[b] \in QueuedPCs
         /\ \A b \in Batches : Held(b) => pc[b] \in QueuedPCs
         /\ \A b \in Batches : InSyncQ(b) => pc[b] \in AwaitingPCs
         /\ \A b \in Batches : Held(b) => ~InWindow(b)
<1>1. \A b \in Batches : InWindow(b) => pc[b] \in QueuedPCs
  BY DEF IInv, RingInv, InWindow
<1>2. \A b \in Batches : Held(b) => pc[b] \in QueuedPCs /\ ~InWindow(b)
  BY DEF IInv, HeldInv, Held
<1>3. \A b \in Batches : InSyncQ(b) => pc[b] \in AwaitingPCs
  BY DEF IInv, SyncInv, InSyncQ
<1> QED
  BY <1>1, <1>2, <1>3

\* A batch whose wait group is at zero has left the queue, is in nobody's
\* hands and awaits no sync.
LEMMA WaitedFor ==
  ASSUME IInv, NEW b \in Batches, commitWG[b] = 0
  PROVE  /\ ~InWindow(b) /\ ~Held(b)
         /\ op[b].sync = "wait" => ~InSyncQ(b)
BY DEF IInv, WaitInv, PublishPending, SyncPending

\* Clearing a slot leaves the window and the other slots being cleared alone.
LEMMA ClearSafe ==
  ASSUME IInv, NEW b \in Batches, pc[b] = "clear"
  PROVE  /\ \A i \in Window : Slot(i) # Slot(lTail[b])
         /\ \A c \in Batches : pc[c] = "clear" /\ c # b => Slot(lTail[c]) # Slot(lTail[b])
         /\ \A c \in Batches : pc[c] = "bump" => Slot(head) # Slot(lTail[b])
<1>1. /\ head \in Nat /\ tail \in Nat /\ \A c \in Batches : lTail[c] \in Nat
      /\ SyncConcurrency \in Nat
  BY TypeFacts, PipelineAssumption DEF IInv, WalInv
<1>2. tail <= head /\ lTail[b] < tail /\ head <= lTail[b] + SyncConcurrency
  BY DEF IInv, RingInv, ClearInv
<1>3. \A i \in Window : Slot(i) # Slot(lTail[b])
  <2> TAKE i \in Window
  <2>1. i \in Nat /\ lTail[b] < i /\ i < lTail[b] + SyncConcurrency
    BY <1>1, <1>2 DEF Window
  <2> QED
    BY <1>1, <2>1, SlotDiffers
<1>4. ASSUME NEW c \in Batches, pc[c] = "clear", c # b
      PROVE  Slot(lTail[c]) # Slot(lTail[b])
  BY <1>4 DEF IInv, ClearInv, HeldInv, HolderPCs, At
<1>5. ASSUME NEW c \in Batches, pc[c] = "bump"
      PROVE  Slot(head) # Slot(lTail[b])
  <2>1. head < lTail[b] + SyncConcurrency
    BY <1>5 DEF IInv, ClearInv
  <2> QED
    BY <1>1, <1>2, <2>1, SlotDiffers
<1> QED
  BY <1>3, <1>4, <1>5

\* Filling the slot at the head leaves the window alone.
LEMMA FillSafe ==
  ASSUME IInv, NEW b \in Batches, pc[b] = "store"
  PROVE  \A i \in Window : Slot(i) # Slot(head)
<1>1. head \in Nat /\ tail \in Nat /\ SyncConcurrency \in Nat
  BY TypeFacts, PipelineAssumption DEF IInv, WalInv
<1>2. head < tail + SyncConcurrency
  BY DEF IInv, RingInv
<1> TAKE i \in Window
<1>3. i \in Nat /\ i < head /\ head < i + SyncConcurrency
  BY <1>1, <1>2 DEF Window
<1> QED
  BY <1>1, <1>3, SlotDiffers

\* The compare-and-swap succeeds only if the tail has not moved since it was
\* loaded, although it compares indexes modulo IndexMod.
LEMMA SwapFacts ==
  ASSUME IInv, NEW b \in Batches, pc[b] = "cas", Index(tail) = Index(lTail[b])
  PROVE  /\ lTail[b] = tail /\ tail < head /\ tail \in Window
         /\ lBatch[b] = At(tail) /\ lBatch[b] \in Batches
         /\ applied[lBatch[b]]
<1>1. /\ head \in Nat /\ tail \in Nat /\ lTail[b] \in Nat /\ IndexMod \in Nat
      /\ calls \in Nat /\ calls <= MaxCalls /\ MaxCalls < IndexMod /\ MaxCalls \in Nat
      /\ StartIndex \in Nat
  BY TypeFacts, PipelineAssumption DEF IInv, WalInv
<1>2. Cardinality(Unbound) \in Nat
  BY PipelineAssumption, FS_Subset, FS_CardinalityType DEF Unbound
<1>3. head <= StartIndex + calls
  BY <1>1, <1>2 DEF IInv, CallsInv
<1>4. StartIndex <= lTail[b] /\ lTail[b] <= tail /\ tail <= head
  BY DEF IInv, LocalsInv, RingInv
<1>5. tail < lTail[b] + IndexMod
  BY <1>1, <1>3, <1>4
<1>6. lTail[b] = tail
  BY <1>1, <1>4, <1>5, IndexSame
<1>7. tail < head /\ lBatch[b] = At(tail) /\ applied[lBatch[b]]
  BY <1>6 DEF IInv, LocalsInv
<1>8. tail \in Window
  BY <1>1, <1>7 DEF Window
<1>9. lBatch[b] \in Batches
  BY <1>7, <1>8 DEF IInv, RingInv
<1> QED
  BY <1>6, <1>7, <1>8, <1>9

-----------------------------------------------------------------------------
(***************************************************************************)
(* Frames: what a step has to leave alone to preserve each part.           *)
(***************************************************************************)

QueueSame == head' = head /\ tail' = tail /\ slots' = slots

QueueKept == head' = head /\ tail' = tail /\ \A i \in Window : At(i)' = At(i)

\* A step that leaves the commit queue alone leaves its window as it was.
LEMMA QueueFrame ==
  ASSUME QueueSame
  PROVE  /\ QueueKept
         /\ \A i : At(i)' = At(i)
         /\ Window' = Window
         /\ \A b : InWindow(b)' <=> InWindow(b)
<1>1. \A i : At(i)' = At(i)
  BY DEF QueueSame, At
<1>2. Window' = Window
  BY DEF QueueSame, Window
<1>3. \A b : InWindow(b)' <=> InWindow(b)
  BY <1>1, <1>2 DEF InWindow
<1> QED
  BY <1>1, <1>2, <1>3 DEF QueueKept, QueueSame

\* The calls that have yet to enter the queue are finitely many.
LEMMA UnboundCard ==
  /\ IsFiniteSet(Unbound) /\ Cardinality(Unbound) \in Nat
  /\ IsFiniteSet(Unbound') /\ Cardinality(Unbound') \in Nat
  /\ Unbound' \subseteq Unbound => Cardinality(Unbound') <= Cardinality(Unbound)
<1>1. Unbound \subseteq Batches /\ Unbound' \subseteq Batches
  BY DEF Unbound
<1>2. IsFiniteSet(Unbound) /\ IsFiniteSet(Unbound')
  BY <1>1, PipelineAssumption, FS_Subset
<1> QED
  BY <1>2, FS_Subset, FS_CardinalityType

\* CallsInv is preserved when no call begins and none enters the queue.
LEMMA CallsFrame ==
  ASSUME IInv, head' = head, tail' = tail, calls' = calls,
         \A c \in Batches : pc'[c] \in UnboundPCs => pc[c] \in UnboundPCs
  PROVE  CallsInv'
<1>1. Unbound' \subseteq Unbound
  BY DEF Unbound
<1>2. head \in Nat /\ calls \in Nat /\ StartIndex \in Nat
  BY TypeFacts, PipelineAssumption DEF IInv, WalInv
<1> QED
  BY <1>1, <1>2, UnboundCard DEF IInv, CallsInv

\* RingInv is preserved when the queue is left alone and no queued batch leaves
\* its call.
LEMMA RingFrame ==
  ASSUME IInv, QueueSame,
         \A c \in Batches : InWindow(c) => pc'[c] \in QueuedPCs,
         \A c \in Batches : pc'[c] \in {"store", "bump"} => pc[c] = pc'[c]
  PROVE  RingInv'
<1>1. \A i \in Window : At(i) \in Batches /\ pc'[At(i)] \in QueuedPCs
  BY DEF IInv, RingInv, InWindow
<1>2. \A i : At(i)' = At(i)
  BY QueueFrame
<1>3. Window' = Window /\ head' = head /\ tail' = tail
  BY QueueFrame DEF QueueSame
<1>4. /\ tail <= head /\ head <= tail + SyncConcurrency
      /\ \A i, j \in Window : At(i) = At(j) => i = j
      /\ \A c \in Batches : pc[c] \in {"store", "bump"} => head < tail + SyncConcurrency
      /\ \A c \in Batches : pc[c] = "bump" => At(head) = c
  BY DEF IInv, RingInv
<1>5. \A i \in Window' : At(i)' \in Batches /\ pc'[At(i)'] \in QueuedPCs
  BY <1>1, <1>2, <1>3
<1>6. \A i, j \in Window' : At(i)' = At(j)' => i = j
  BY <1>2, <1>3, <1>4
<1>7. \A c \in Batches : pc'[c] = "bump" => At(head)' = c
  BY <1>2, <1>3, <1>4 DEF QueueSame, At
<1> QED
  BY <1>3, <1>4, <1>5, <1>6, <1>7 DEF RingInv

\* ClearInv is preserved when the queue is left alone and no consumer takes a slot.
LEMMA ClearFrame ==
  ASSUME IInv, QueueSame,
         \A c \in Batches : pc'[c] = "clear" =>
            pc[c] = "clear" /\ lTail'[c] = lTail[c] /\ lBatch'[c] = lBatch[c],
         \A c \in Batches : pc'[c] = "bump" => pc[c] = "bump"
  PROVE  ClearInv'
BY DEF IInv, ClearInv, QueueSame, At

\* LocalsInv is preserved when the window does not move and no batch is unmarked.
LEMMA LocalsFrame ==
  ASSUME IInv, QueueKept,
         \A c \in Batches : pc'[c] \in {"slot", "check", "cas"} =>
            pc[c] = pc'[c] /\ lTail'[c] = lTail[c] /\ lBatch'[c] = lBatch[c],
         \A c \in Batches : InWindow(c) /\ applied[c] => applied'[c]
  PROVE  LocalsInv'
<1> SUFFICES ASSUME NEW c \in Batches, pc'[c] \in {"slot", "check", "cas"}
             PROVE  /\ StartIndex <= lTail'[c] /\ lTail'[c] <= tail'
                    /\ lTail'[c] = tail' => tail' < head'
                    /\ lTail'[c] = tail' /\ pc'[c] # "slot" => lBatch'[c] = At(tail)'
                    /\ lTail'[c] = tail' /\ pc'[c] = "cas" => applied'[lBatch'[c]]
  BY DEF LocalsInv
<1>1. pc[c] = pc'[c] /\ lTail'[c] = lTail[c] /\ lBatch'[c] = lBatch[c]
  OBVIOUS
<1>2. tail' = tail /\ head' = head /\ (tail < head => At(tail)' = At(tail))
  <2>1. tail < head => tail \in Window
    BY TypeFacts DEF IInv, WalInv, Window
  <2> QED
    BY <2>1 DEF QueueKept, At
<1>3. /\ StartIndex <= lTail[c] /\ lTail[c] <= tail
      /\ lTail[c] = tail => tail < head
      /\ lTail[c] = tail /\ pc[c] # "slot" => lBatch[c] = At(tail)
      /\ lTail[c] = tail /\ pc[c] = "cas" => applied[lBatch[c]]
  BY <1>1 DEF IInv, LocalsInv
<1>4. lTail[c] = tail /\ pc[c] = "cas" => applied'[lBatch[c]]
  <2> SUFFICES ASSUME lTail[c] = tail, pc[c] = "cas" PROVE applied'[lBatch[c]]
    OBVIOUS
  <2>1. head \in Nat /\ tail \in Nat
    BY TypeFacts DEF IInv, WalInv
  <2>2. tail \in Window /\ lBatch[c] = At(tail) /\ applied[lBatch[c]]
    BY <1>3, <2>1 DEF Window
  <2>3. InWindow(lBatch[c]) /\ lBatch[c] \in Batches
    BY <2>2 DEF InWindow, IInv, RingInv
  <2> QED
    BY <2>2, <2>3
<1> QED
  BY <1>1, <1>2, <1>3, <1>4

\* HeldInv is preserved when no batch enters the queue and no consumer takes one.
LEMMA HeldFrame ==
  ASSUME IInv,
         \A c \in Batches : InWindow(c)' => InWindow(c),
         \A c \in Batches : pc'[c] \in HolderPCs =>
            pc[c] \in HolderPCs /\ lBatch'[c] = lBatch[c],
         \A c \in Batches : Held(c) =>
            pc'[c] \in QueuedPCs /\ (applied[c] => applied'[c])
  PROVE  HeldInv'
<1>1. ASSUME NEW c \in Batches, pc'[c] \in HolderPCs
      PROVE  /\ pc'[lBatch'[c]] \in QueuedPCs
             /\ ~InWindow(lBatch[c])'
             /\ lBatch'[c] = lBatch[c]
             /\ applied'[lBatch'[c]]
  <2>1. pc[c] \in HolderPCs /\ lBatch'[c] = lBatch[c]
    BY <1>1
  <2>2. lBatch[c] \in Batches
    BY <2>1, TypeFacts DEF IInv, WalInv
  <2>3. Held(lBatch[c]) /\ ~InWindow(lBatch[c]) /\ applied[lBatch[c]]
    BY <2>1 DEF Held, IInv, HeldInv
  <2> QED
    BY <2>1, <2>2, <2>3
<1>2. ASSUME NEW c \in Batches, NEW d \in Batches, pc'[c] \in HolderPCs,
             pc'[d] \in HolderPCs, lBatch'[c] = lBatch'[d]
      PROVE  c = d
  BY <1>2 DEF IInv, HeldInv
<1> QED
  BY <1>1, <1>2 DEF HeldInv

\* AppliedInv is preserved when no batch is marked and none begins a new call.
LEMMA AppliedFrame ==
  ASSUME IInv, mem \subseteq mem',
         \A c \in Batches : applied'[c] =>
            /\ applied[c] /\ seq'[c] = seq[c] /\ op'[c] = op[c]
            /\ pc'[c] \notin UnboundPCs \cup UnappliedPCs
  PROVE  AppliedInv'
BY DEF IInv, AppliedInv, Entries

\* WaitInv is preserved when nothing more is to be awaited and no count changes.
LEMMA WaitFrame ==
  ASSUME IInv,
         \A c \in Batches : PublishPending(c)' => PublishPending(c),
         \A c \in Batches : SyncPending(c)' => SyncPending(c),
         \A c \in Batches : commitWG'[c] = commitWG[c]
  PROVE  WaitInv'
BY DEF IInv, WaitInv

\* SyncInv is preserved when no waiter comes or goes and awaited calls stay.
LEMMA SyncFrame ==
  ASSUME IInv, syncQ' = syncQ,
         \A c \in Batches : InSyncQ(c) =>
            /\ pc'[c] \in AwaitingPCs
            /\ op'[c] = op[c] /\ fsyncWG'[c] = fsyncWG[c]
            /\ pc[c] = "directwait" => pc'[c] = "directwait",
         \A c \in Batches : pc'[c] \in IngestPCs =>
            (pc[c] \in IngestPCs /\ op'[c] = op[c]) \/ op'[c].sync = "none",
         \A c \in Batches : pc'[c] = "directwrite" =>
            (pc[c] = "directwrite" /\ fsyncWG'[c] = fsyncWG[c]) \/ fsyncWG'[c] >= 1,
         \A c \in Batches : pc'[c] = "syncwait" =>
            (pc[c] = "syncwait" /\ op'[c] = op[c]) \/ op'[c].sync = "nowait",
         \A c \in Batches : pc'[c] \in UnsyncedPCs =>
            \/ pc[c] \in UnsyncedPCs /\ op'[c] = op[c] /\ fsyncWG'[c] = fsyncWG[c]
            \/ op'[c].sync = "nowait" => fsyncWG'[c] >= 1
  PROVE  SyncInv'
<1>1. \A i \in 1 .. Len(syncQ) : syncQ[i].batch \in Batches /\ InSyncQ(syncQ[i].batch)
  BY SyncQFacts DEF IInv, WalInv, InSyncQ
<1>2. \A i \in 1 .. Len(syncQ') :
        /\ pc'[syncQ'[i].batch] \in AwaitingPCs
        /\ op'[syncQ'[i].batch].sync # "wait" => fsyncWG'[syncQ'[i].batch] >= 1
        /\ op'[syncQ'[i].batch].sync = "none" => pc'[syncQ'[i].batch] = "directwait"
  BY <1>1 DEF IInv, SyncInv
<1>3. \A i, j \in 1 .. Len(syncQ') : syncQ'[i].batch = syncQ'[j].batch => i = j
  BY DEF IInv, SyncInv
<1>4. ASSUME NEW b \in Batches
      PROVE  /\ pc'[b] \in IngestPCs => op'[b].sync = "none"
             /\ pc'[b] = "directwrite" => fsyncWG'[b] >= 1
             /\ pc'[b] = "syncwait" => op'[b].sync = "nowait"
             /\ pc'[b] \in UnsyncedPCs /\ op'[b].sync = "nowait" => fsyncWG'[b] >= 1
  BY DEF IInv, SyncInv
<1> QED
  BY <1>2, <1>3, <1>4 DEF SyncInv

\* OrderInv is preserved when no sequence number is given out or published and
\* queued and held batches keep theirs.
LEMMA OrderFrame ==
  ASSUME IInv, QueueKept, logSeqNum' = logSeqNum, visibleSeqNum' = visibleSeqNum,
         mem \subseteq mem', ends \subseteq ends',
         \A c \in Batches : InWindow(c) \/ Held(c) => seq'[c] = seq[c] /\ op'[c] = op[c],
         \A c \in Batches : InWindow(c) => (pc'[c] = "seq" <=> pc[c] = "seq"),
         \A c \in Batches : pc'[c] = "seq" => pc[c] = "seq",
         \A c \in Batches : pc'[c] \in HolderPCs =>
            pc[c] \in HolderPCs /\ lBatch'[c] = lBatch[c],
         \A c \in Batches : pc'[c] = "ratchet" =>
            (pc[c] = "ratchet" /\ lSeq'[c] = lSeq[c]) \/ lSeq'[c] <= End(lBatch[c]),
         \A c \in Batches : pc'[c] = "done" =>
            pc[c] = "done" \/ End(lBatch[c]) <= visibleSeqNum
  PROVE  OrderInv'
<1>1. Window' = Window /\ head' = head /\ tail' = tail
  BY DEF QueueKept, Window
<1>2. \A i \in Window : At(i)' = At(i)
  BY DEF QueueKept
<1>t. head \in Nat /\ tail \in Nat
  BY TypeFacts DEF IInv, WalInv
<1>3. \A i \in Window : /\ At(i) \in Batches
                        /\ pc'[At(i)] = "seq" <=> pc[At(i)] = "seq"
                        /\ seq'[At(i)] = seq[At(i)] /\ op'[At(i)] = op[At(i)]
  BY DEF IInv, RingInv, InWindow
<1>4. \A i \in Window : End(At(i))' = End(At(i))
  BY <1>2, <1>3 DEF End
<1>5. \A i \in Nat : i >= tail => Bound(i)' = Bound(i)
  <2> SUFFICES ASSUME NEW i \in Nat, i >= tail PROVE Bound(i)' = Bound(i)
    OBVIOUS
  <2>1. CASE i < head
    <3>1. i \in Window
      BY <1>t, <2>1 DEF Window
    <3> QED
      BY <3>1, <1>1, <1>2, <1>3 DEF Bound
  <2>2. CASE ~(i < head)
    BY <2>2, <1>1 DEF Bound
  <2> QED
    BY <2>1, <2>2
<1>6. ASSUME NEW i \in Window', pc'[At(i)'] # "seq"
      PROVE  /\ End(At(i))' <= Bound(i + 1)'
             /\ End(At(i))' .. Bound(i + 1)' - 1 \subseteq mem'
             /\ End(At(i))' \in ends'
  <2>1. i \in Window /\ pc[At(i)] # "seq" /\ i + 1 \in Nat /\ i + 1 >= tail
    BY <1>1, <1>2, <1>3, <1>6, <1>t DEF Window
  <2>2. End(At(i))' = End(At(i)) /\ Bound(i + 1)' = Bound(i + 1)
    BY <2>1, <1>4, <1>5
  <2>3. /\ End(At(i)) <= Bound(i + 1)
        /\ End(At(i)) .. Bound(i + 1) - 1 \subseteq mem
        /\ End(At(i)) \in ends
    BY <2>1 DEF IInv, OrderInv
  <2> QED
    BY <2>2, <2>3
<1>7. \A b \in Batches : pc'[b] = "seq" => tail' < head' /\ At(head - 1)' = b
  <2>1. tail < head => head - 1 \in Window
    BY <1>t DEF Window
  <2>2. tail < head => At(head - 1)' = At(head - 1)
    BY <2>1, <1>1, <1>2 DEF At
  <2> QED
    BY <2>2, <1>1 DEF IInv, OrderInv
<1>8. Bound(tail)' = Bound(tail)
  BY <1>5, <1>t, <1>1 DEF Bound, At
<1>9. /\ StartSeqNum .. Bound(tail)' - 1 \subseteq mem'
      /\ visibleSeqNum' <= Bound(tail)' /\ visibleSeqNum' \in ends'
  BY <1>8 DEF IInv, OrderInv
<1>10. ASSUME NEW c \in Batches, pc'[c] \in HolderPCs
       PROVE  /\ End(lBatch[c])' = End(lBatch[c])
              /\ pc[c] \in HolderPCs
  <2>1. pc[c] \in HolderPCs /\ lBatch'[c] = lBatch[c]
    BY <1>10
  <2>2. lBatch[c] \in Batches /\ Held(lBatch[c])
    BY <2>1, TypeFacts DEF IInv, WalInv, Held
  <2> QED
    BY <2>1, <2>2 DEF End
<1>11. \A c \in Batches : pc'[c] \in HolderPCs =>
         /\ End(lBatch[c])' <= Bound(tail)'
         /\ End(lBatch[c])' \in ends'
  BY <1>8, <1>10 DEF IInv, OrderInv
<1>12. \A c \in Batches : pc'[c] = "done" => End(lBatch[c])' <= visibleSeqNum'
  BY <1>10 DEF IInv, OrderInv, HolderPCs
<1>13. \A c \in Batches : pc'[c] = "ratchet" => lSeq'[c] <= End(lBatch[c])'
  BY <1>10 DEF IInv, OrderInv, HolderPCs
<1> QED
  BY <1>6, <1>7, <1>9, <1>11, <1>12, <1>13 DEF OrderInv

\* PlaceInv is preserved when no batch leaves the queue or a consumer's hands but
\* by becoming held or visible.
LEMMA PlaceFrame ==
  ASSUME IInv, visibleSeqNum' = visibleSeqNum,
         \A c \in Batches : InWindow(c) =>
            InWindow(c)' \/ (pc'[c] \notin UnappliedPCs /\ Held(c)'),
         \A c \in Batches : Held(c) => Held(c)' \/ End(c) <= visibleSeqNum,
         \A c \in Batches : pc'[c] \in UnappliedPCs => pc[c] \in UnappliedPCs,
         \A c \in Batches : pc'[c] \in PublishPCs =>
            /\ pc[c] \in PublishPCs /\ applied'[c] = applied[c]
            /\ seq'[c] = seq[c] /\ op'[c] = op[c],
         \A c \in Batches : pc'[c] \in {"syncwait", "returned"} =>
            /\ pc[c] \in {"syncwait", "returned"}
            /\ seq'[c] = seq[c] /\ op'[c] = op[c]
  PROVE  PlaceInv'
<1> SUFFICES ASSUME NEW c \in Batches
             PROVE  /\ pc'[c] \in UnappliedPCs => InWindow(c)'
                    /\ pc'[c] \in PublishPCs =>
                         /\ applied'[c]
                         /\ InWindow(c)' \/ Held(c)' \/ End(c)' <= visibleSeqNum'
                    /\ pc'[c] \in {"syncwait", "returned"} => End(c)' <= visibleSeqNum'
  BY DEF PlaceInv
<1>1. pc'[c] \in UnappliedPCs => InWindow(c)'
  BY DEF IInv, PlaceInv
<1>2. ASSUME pc'[c] \in PublishPCs
      PROVE  applied'[c] /\ (InWindow(c)' \/ Held(c)' \/ End(c)' <= visibleSeqNum')
  <2>1. End(c)' = End(c)
    BY <1>2 DEF End
  <2> QED
    BY <1>2, <2>1 DEF IInv, PlaceInv
<1>3. ASSUME pc'[c] \in {"syncwait", "returned"} PROVE End(c)' <= visibleSeqNum'
  <2>1. End(c)' = End(c)
    BY <1>3 DEF End
  <2> QED
    BY <1>3, <2>1 DEF IInv, PlaceInv
<1> QED
  BY <1>1, <1>2, <1>3

-----------------------------------------------------------------------------
(***************************************************************************)
(* Steps that move a goroutine and nothing else the invariant is about.    *)
(***************************************************************************)

PlainMove(from, to) ==
  \/ from = "ingestsem" /\ to = "sem"
  \/ from = "sem" /\ to \in {"syncsem", "lock"}
  \/ from = "syncsem" /\ to = "lock"
  \/ from = "lock" /\ to = "failed"
  \/ from = "enqueue" /\ to = "store"
  \/ from = "write" /\ to = "failed"
  \/ from = "drain" /\ to = "prepare"
  \/ from = "prepare" /\ to \in {"apply", "directsem"}
  \/ from = "apply" /\ to = "failed"
  \/ from = "directwait" /\ to \in {"apply", "failed"}
  \/ from = "load" /\ to \in {"slot", "wait"}
  \/ from = "slot" /\ to \in {"check", "wait"}
  \/ from = "check" /\ to \in {"cas", "wait"}
  \/ from = "cas" /\ to = "load"
  \/ from = "visible" /\ to \in {"done", "ratchet"}
  \/ from = "ratchet" /\ to = "visible"
  \/ from = "syncwait" /\ to \in {"returned", "aborted"}

RestSame ==
  /\ QueueSame
  /\ op' = op /\ seq' = seq /\ applied' = applied
  /\ commitWG' = commitWG /\ fsyncWG' = fsyncWG
  /\ logSeqNum' = logSeqNum /\ visibleSeqNum' = visibleSeqNum
  /\ mem \subseteq mem' /\ ends' = ends /\ syncQ' = syncQ /\ calls' = calls

PlainStep(b, from, to) ==
  /\ Goto(b, from, to) /\ PlainMove(from, to)
  /\ RestSame
  /\ \A c \in Batches \ {b} :
       lTail'[c] = lTail[c] /\ lBatch'[c] = lBatch[c] /\ lSeq'[c] = lSeq[c]
  /\ to = "store" => head < tail + SyncConcurrency
  /\ to \in {"slot", "check", "cas"} =>
       /\ StartIndex <= lTail'[b] /\ lTail'[b] <= tail
       /\ lTail'[b] = tail =>
            /\ tail < head
            /\ to # "slot" => lBatch'[b] = At(tail)
            /\ to = "cas" => applied[lBatch'[b]]
  /\ to \in HolderPCs => lTail'[b] = lTail[b] /\ lBatch'[b] = lBatch[b]
  /\ to = "ratchet" => lSeq'[b] <= End(lBatch[b])
  /\ to = "done" => End(lBatch[b]) <= visibleSeqNum
  /\ from \in {"syncwait", "directwait"} => fsyncWG[b] = 0

\* What a move may not do.
LEMMA MoveFacts ==
  ASSUME NEW from, NEW to, PlainMove(from, to)
  PROVE  /\ to \in UnboundPCs => from \in UnboundPCs
         /\ to \in UnappliedPCs => from \in UnappliedPCs
         /\ to \in PublishPCs => from \in PublishPCs
         /\ from \in QueuedPCs => to \in QueuedPCs
         /\ to \in HolderPCs <=> from \in HolderPCs
         /\ to \in {"enqueue", "store", "bump"} => from \in {"enqueue", "store", "bump"}
         /\ to \in IngestPCs => from \in IngestPCs
         /\ to \in UnsyncedPCs => from \in UnsyncedPCs
         /\ from \in AwaitingPCs => to \in AwaitingPCs \/ from = "syncwait"
         /\ from = "directwait" => to \in {"apply", "failed"}
         /\ to \in {"syncwait", "returned"} => from = "syncwait"
         /\ from \in UnappliedPCs => to \in UnappliedPCs \cup {"failed"}
         /\ to \notin {"seq", "bump", "clear", "directwrite", "syncwait"}
         /\ from # "seq"
BY DEF PlainMove, UnboundPCs, UnappliedPCs, PublishPCs, QueuedPCs, HolderPCs,
   IngestPCs, UnsyncedPCs, AwaitingPCs

\* A plain step preserves the whole invariant, by the frame lemmas.
LEMMA PlainInv ==
  ASSUME IInv, WalInv', NEW b \in Batches, NEW from, NEW to, PlainStep(b, from, to)
  PROVE  IInv'
<1>p. /\ pc[b] = from /\ pc'[b] = to
      /\ \A c \in Batches : c # b => pc'[c] = pc[c]
  BY TypeFacts DEF IInv, WalInv, PlainStep, Goto
<1>m. PlainMove(from, to)
  BY DEF PlainStep
<1>s. /\ QueueSame /\ QueueKept /\ head' = head /\ tail' = tail
      /\ op' = op /\ seq' = seq /\ applied' = applied
      /\ commitWG' = commitWG /\ fsyncWG' = fsyncWG
      /\ logSeqNum' = logSeqNum /\ visibleSeqNum' = visibleSeqNum
      /\ mem \subseteq mem' /\ ends' = ends /\ syncQ' = syncQ /\ calls' = calls
  BY QueueFrame DEF PlainStep, RestSame, QueueSame
<1>l. /\ \A c \in Batches : c # b => lTail'[c] = lTail[c] /\ lBatch'[c] = lBatch[c]
      /\ to \in HolderPCs => lTail'[b] = lTail[b] /\ lBatch'[b] = lBatch[b]
  BY DEF PlainStep
<1>w. \A c : InWindow(c)' <=> InWindow(c)
  BY <1>s, QueueFrame
<1>h. \A c \in Batches : Held(c)' <=> Held(c)
  BY <1>p, <1>m, <1>l, MoveFacts DEF Held
<1>q. \A c : InSyncQ(c)' <=> InSyncQ(c)
  BY <1>s DEF InSyncQ
<1>1. CallsInv'
  BY <1>p, <1>m, <1>s, MoveFacts, CallsFrame
<1>2. RingInv'
  <2>1. \A c \in Batches : InWindow(c) => pc'[c] \in QueuedPCs
    BY <1>p, <1>m, MoveFacts, WindowFacts
  <2>2. CASE to # "store"
    BY <2>1, <2>2, <1>p, <1>m, <1>s, MoveFacts, RingFrame
  <2>3. CASE to = "store"
    <3>1. head < tail + SyncConcurrency
      BY <2>3 DEF PlainStep
    <3>2. \A i : At(i)' = At(i)
      BY <1>s, QueueFrame
    <3>3. Window' = Window
      BY <1>s, QueueFrame
    <3>4. \A i \in Window' : At(i)' \in Batches /\ pc'[At(i)'] \in QueuedPCs
      BY <2>1, <3>2, <3>3 DEF IInv, RingInv, InWindow
    <3>5. \A i, j \in Window' : At(i)' = At(j)' => i = j
      BY <3>2, <3>3 DEF IInv, RingInv
    <3>6. \A c \in Batches : pc'[c] = "bump" => At(head)' = c
      BY <1>p, <1>s, <2>3 DEF IInv, RingInv, QueueSame, At
    <3> QED
      BY <1>s, <3>1, <3>4, <3>5, <3>6 DEF IInv, RingInv
  <2> QED
    BY <2>2, <2>3
<1>3. ClearInv'
  BY <1>p, <1>m, <1>s, <1>l, MoveFacts, ClearFrame DEF HolderPCs
<1>4. LocalsInv'
  <2> SUFFICES ASSUME NEW c \in Batches, pc'[c] \in {"slot", "check", "cas"}
               PROVE  /\ StartIndex <= lTail'[c] /\ lTail'[c] <= tail'
                      /\ lTail'[c] = tail' => tail' < head'
                      /\ lTail'[c] = tail' /\ pc'[c] # "slot" => lBatch'[c] = At(tail)'
                      /\ lTail'[c] = tail' /\ pc'[c] = "cas" => applied'[lBatch'[c]]
    BY DEF LocalsInv
  <2>1. At(tail)' = At(tail)
    BY <1>s DEF QueueSame, At
  <2>2. CASE c = b
    BY <2>1, <2>2, <1>p, <1>s DEF PlainStep
  <2>3. CASE c # b
    BY <2>1, <2>3, <1>p, <1>s, <1>l DEF IInv, LocalsInv
  <2> QED
    BY <2>2, <2>3
<1>5. HeldInv'
  BY <1>p, <1>m, <1>s, <1>l, <1>w, MoveFacts, HeldFrame, WindowFacts
<1>6. AppliedInv'
  <2>1. \A c \in Batches : applied[c] => pc[c] \notin UnboundPCs \cup UnappliedPCs
    BY DEF IInv, AppliedInv
  <2>2. \A c \in Batches : applied[c] => pc'[c] \notin UnboundPCs \cup UnappliedPCs
    BY <1>p, <1>m, <2>1, MoveFacts
  <2> QED
    BY <1>s, <2>2, AppliedFrame
<1>7. WaitInv'
  <2>1. \A c \in Batches : PublishPending(c)' => PublishPending(c)
    BY <1>p, <1>m, <1>w, <1>h, MoveFacts DEF PublishPending
  <2>2. \A c \in Batches : SyncPending(c)' => SyncPending(c)
    BY <1>p, <1>m, <1>s, <1>q, MoveFacts DEF SyncPending
  <2> QED
    BY <1>s, <2>1, <2>2, WaitFrame
<1>8. SyncInv'
  <2>1. from \in {"syncwait", "directwait"} => ~InSyncQ(b)
    <3>1. from \in {"syncwait", "directwait"} => fsyncWG[b] = 0 /\ op[b].sync # "wait"
      BY <1>p DEF IInv, SyncInv, PlainStep, IngestPCs
    <3>2. \A i \in 1 .. Len(syncQ) : syncQ[i].batch = b =>
            (op[b].sync # "wait" => fsyncWG[b] >= 1)
      BY DEF IInv, SyncInv
    <3> QED
      BY <3>1, <3>2 DEF InSyncQ
  <2>2. \A c \in Batches : InSyncQ(c) =>
          /\ pc'[c] \in AwaitingPCs
          /\ pc[c] = "directwait" => pc'[c] = "directwait"
    BY <2>1, <1>p, <1>m, MoveFacts, WindowFacts
  <2> QED
    BY <2>2, <1>p, <1>m, <1>s, MoveFacts, SyncFrame
<1>9. OrderInv'
  <2>1. \A c \in Batches : pc'[c] = "seq" <=> pc[c] = "seq"
    BY <1>p, <1>m, MoveFacts
  <2>2. \A c \in Batches : pc'[c] \in HolderPCs =>
          pc[c] \in HolderPCs /\ lBatch'[c] = lBatch[c]
    BY <1>p, <1>m, <1>l, MoveFacts
  <2>3. \A c \in Batches : pc'[c] = "done" =>
          pc[c] = "done" \/ End(lBatch[c]) <= visibleSeqNum
    BY <1>p DEF PlainStep
  <2>4. \A c \in Batches : pc'[c] = "ratchet" =>
          (pc[c] = "ratchet" /\ lSeq'[c] = lSeq[c]) \/ lSeq'[c] <= End(lBatch[c])
    BY <1>p DEF PlainStep
  <2> QED
    BY <1>s, <2>1, <2>2, <2>3, <2>4, OrderFrame
<1>10. PlaceInv'
  BY <1>p, <1>m, <1>s, <1>w, <1>h, MoveFacts, PlaceFrame
<1> QED
  BY <1>1, <1>2, <1>3, <1>4, <1>5, <1>6, <1>7, <1>8, <1>9, <1>10 DEF IInv

\* A step that changes nothing the invariant is about.
LEMMA StutterInv ==
  ASSUME IInv, WalInv', RestSame, pc' = pc, lTail' = lTail,
         lBatch' = lBatch, lSeq' = lSeq
  PROVE  IInv'
<1>s. /\ QueueSame /\ QueueKept /\ head' = head /\ tail' = tail
      /\ op' = op /\ seq' = seq /\ applied' = applied
      /\ commitWG' = commitWG /\ fsyncWG' = fsyncWG
      /\ logSeqNum' = logSeqNum /\ visibleSeqNum' = visibleSeqNum
      /\ mem \subseteq mem' /\ ends' = ends /\ syncQ' = syncQ /\ calls' = calls
  BY QueueFrame DEF RestSame, QueueSame
<1>w. \A c : InWindow(c)' <=> InWindow(c)
  BY <1>s, QueueFrame
<1>h. \A c \in Batches : Held(c)' <=> Held(c)
  BY DEF Held
<1>q. \A c : InSyncQ(c)' <=> InSyncQ(c)
  BY <1>s DEF InSyncQ
<1>1. CallsInv' /\ AppliedInv'
  BY <1>s, CallsFrame, AppliedFrame DEF IInv, AppliedInv
<1>2. RingInv' /\ ClearInv' /\ LocalsInv'
  BY <1>s, RingFrame, ClearFrame, LocalsFrame, WindowFacts
<1>3. HeldInv' /\ OrderInv'
  BY <1>s, <1>w, HeldFrame, OrderFrame, WindowFacts
<1>4. SyncInv'
  BY <1>s, SyncFrame, WindowFacts
<1>5. PlaceInv'
  BY <1>s, <1>w, <1>h, PlaceFrame
<1>6. WaitInv'
  <2>1. \A c \in Batches : PublishPending(c)' => PublishPending(c)
    BY <1>w, <1>h DEF PublishPending
  <2>2. \A c \in Batches : SyncPending(c)' => SyncPending(c)
    BY <1>s, <1>q DEF SyncPending
  <2> QED
    BY <1>s, <2>1, <2>2, WaitFrame
<1> QED
  BY <1>1, <1>2, <1>3, <1>4, <1>5, <1>6 DEF IInv

-----------------------------------------------------------------------------
(***************************************************************************)
(* Entering a call, and the queue.                                         *)
(***************************************************************************)

\* A recycled batch is nowhere: its call has been waited for.
LEMMA BeginInv ==
  ASSUME IInv, WalInv', NEW b \in Batches, NEW o \in Ops, Begin(b, o)
  PROVE  IInv'
<1>p. /\ pc[b] \in {"idle", "returned"} /\ pc'[b] \in {"ingestsem", "sem"}
      /\ \A c \in Batches : c # b => pc'[c] = pc[c]
  BY TypeFacts DEF IInv, WalInv, Begin
<1>s. /\ /\ QueueSame /\ QueueKept /\ head' = head /\ tail' = tail
      /\ slots' = slots /\ commitWG' = commitWG /\ fsyncWG' = fsyncWG
      /\ logSeqNum' = logSeqNum /\ visibleSeqNum' = visibleSeqNum
      /\ mem' = mem /\ ends' = ends /\ syncQ' = syncQ /\ lTail' = lTail
      /\ lBatch' = lBatch /\ lSeq' = lSeq
  BY QueueFrame DEF Begin, QueueSame, queueVars, seqVars, walVars, batchVars,
     localVars
<1>c. /\ calls' = calls + 1 /\ ~applied'[b]
      /\ \A c \in Batches : c # b =>
           op'[c] = op[c] /\ seq'[c] = seq[c] /\ applied'[c] = applied[c]
  BY TypeFacts DEF IInv, WalInv, Begin
<1>n. /\ ~InWindow(b) /\ ~Held(b) /\ ~InSyncQ(b)
      /\ pc[b] \notin UnboundPCs /\ pc'[b] \in UnboundPCs
      /\ pc'[b] \notin UnappliedPCs \cup PublishPCs \cup IngestPCs \cup UnsyncedPCs
  BY <1>p, WindowFacts DEF UnboundPCs, UnappliedPCs, PublishPCs, QueuedPCs, HolderPCs,
     IngestPCs, UnsyncedPCs, AwaitingPCs
<1>w. \A c : InWindow(c)' <=> InWindow(c)
  BY <1>s, QueueFrame
<1>h. \A c \in Batches : Held(c)' <=> Held(c)
  BY <1>p, <1>s DEF Held, HolderPCs
<1>q. \A c : InSyncQ(c)' <=> InSyncQ(c)
  BY <1>s DEF InSyncQ
<1>1. CallsInv'
  <2>1. Unbound' = Unbound \cup {b} /\ b \notin Unbound
    BY <1>p, <1>n DEF Unbound
  <2>2. Cardinality(Unbound') = Cardinality(Unbound) + 1
    BY <2>1, UnboundCard, FS_AddElement
  <2>3. head \in Nat /\ calls \in Nat /\ StartIndex \in Nat
    BY TypeFacts, PipelineAssumption DEF IInv, WalInv
  <2> QED
    BY <1>s, <1>c, <2>2, <2>3, UnboundCard DEF IInv, CallsInv
<1>2. RingInv'
  BY <1>p, <1>s, <1>n, WindowFacts, RingFrame
<1>3. ClearInv'
  BY <1>p, <1>s, ClearFrame
<1>4. LocalsInv'
  BY <1>p, <1>s, <1>c, <1>n, LocalsFrame
<1>5. HeldInv'
  BY <1>p, <1>s, <1>w, <1>c, <1>n, HeldFrame, WindowFacts DEF HolderPCs
<1>6. AppliedInv'
  BY <1>p, <1>s, <1>c, AppliedFrame DEF IInv, AppliedInv
<1>7. WaitInv'
  <2>1. \A c \in Batches : PublishPending(c)' => PublishPending(c)
    BY <1>p, <1>w, <1>h DEF PublishPending
  <2>2. \A c \in Batches : SyncPending(c)' => SyncPending(c)
    BY <1>p, <1>c, <1>n, <1>q DEF SyncPending
  <2> QED
    BY <1>s, <2>1, <2>2, WaitFrame
<1>8. SyncInv'
  BY <1>p, <1>s, <1>c, <1>n, WindowFacts, SyncFrame
<1>9. OrderInv'
  BY <1>p, <1>s, <1>c, <1>n, OrderFrame DEF HolderPCs
<1>10. PlaceInv'
  BY <1>p, <1>s, <1>w, <1>h, <1>c, <1>n, PlaceFrame
<1> QED
  BY <1>1, <1>2, <1>3, <1>4, <1>5, <1>6, <1>7, <1>8, <1>9, <1>10 DEF IInv

\* Both wait groups are set up before the batch is anywhere.
LEMMA LockInv ==
  ASSUME IInv, WalInv', NEW b \in Batches, Lock(b)
  PROVE  IInv'
<1>p. /\ pc[b] = "lock" /\ pc'[b] = "enqueue"
      /\ \A c \in Batches : c # b => pc'[c] = pc[c]
  BY TypeFacts DEF IInv, WalInv, Lock, Goto
<1>s. /\ /\ QueueSame /\ QueueKept /\ head' = head /\ tail' = tail
      /\ slots' = slots /\ op' = op /\ seq' = seq /\ applied' = applied
      /\ logSeqNum' = logSeqNum /\ visibleSeqNum' = visibleSeqNum
      /\ mem' = mem /\ ends' = ends /\ syncQ' = syncQ /\ calls' = calls
      /\ lTail' = lTail /\ lBatch' = lBatch /\ lSeq' = lSeq
  BY QueueFrame DEF Lock, Goto, QueueSame, queueVars, seqVars, walVars,
     batchVars, localVars
<1>c. /\ commitWG'[b] >= 1 /\ (op[b].sync = "wait" => commitWG'[b] >= 2)
      /\ op[b].sync = "nowait" => fsyncWG'[b] >= 1
      /\ \A c \in Batches : c # b => commitWG'[c] = commitWG[c] /\ fsyncWG'[c] = fsyncWG[c]
  BY TypeFacts DEF IInv, WalInv, Lock
<1>n. /\ ~InWindow(b) /\ ~Held(b) /\ ~InSyncQ(b)
      /\ pc[b] \in UnboundPCs /\ pc'[b] \in UnboundPCs
      /\ pc'[b] \notin UnappliedPCs \cup PublishPCs \cup IngestPCs
  BY <1>p, WindowFacts DEF UnboundPCs, UnappliedPCs, PublishPCs, QueuedPCs, HolderPCs,
     IngestPCs, AwaitingPCs
<1>w. \A c : InWindow(c)' <=> InWindow(c)
  BY <1>s, QueueFrame
<1>h. \A c \in Batches : Held(c)' <=> Held(c)
  BY <1>p, <1>s DEF Held, HolderPCs
<1>q. \A c : InSyncQ(c)' <=> InSyncQ(c)
  BY <1>s DEF InSyncQ
<1>1. CallsInv'
  BY <1>p, <1>s, <1>n, CallsFrame
<1>2. RingInv'
  BY <1>p, <1>s, <1>n, WindowFacts, RingFrame
<1>3. ClearInv'
  BY <1>p, <1>s, ClearFrame
<1>4. LocalsInv'
  BY <1>p, <1>s, LocalsFrame
<1>5. HeldInv'
  BY <1>p, <1>s, <1>w, <1>n, HeldFrame, WindowFacts DEF HolderPCs
<1>6. AppliedInv'
  BY <1>p, <1>s, <1>n, AppliedFrame DEF IInv, AppliedInv
<1>7. WaitInv'
  <2> SUFFICES ASSUME NEW c \in Batches
               PROVE  /\ PublishPending(c)' => commitWG'[c] >= 1
                      /\ SyncPending(c)' => commitWG'[c] >= 1
                      /\ PublishPending(c)' /\ SyncPending(c)' => commitWG'[c] >= 2
    BY DEF WaitInv
  <2>1. CASE c = b
    BY <2>1, <1>c, <1>s DEF SyncPending
  <2>2. CASE c # b
    <3>1. (PublishPending(c)' <=> PublishPending(c)) /\ (SyncPending(c)' <=> SyncPending(c))
      BY <2>2, <1>p, <1>s, <1>w, <1>h, <1>q DEF PublishPending, SyncPending
    <3> QED
      BY <2>2, <3>1, <1>c DEF IInv, WaitInv
  <2> QED
    BY <2>1, <2>2
<1>8. SyncInv'
  BY <1>p, <1>s, <1>c, <1>n, WindowFacts, SyncFrame
<1>9. OrderInv'
  BY <1>p, <1>s, <1>n, OrderFrame DEF HolderPCs
<1>10. PlaceInv'
  BY <1>p, <1>s, <1>w, <1>h, <1>n, PlaceFrame
<1> QED
  BY <1>1, <1>2, <1>3, <1>4, <1>5, <1>6, <1>7, <1>8, <1>9, <1>10 DEF IInv

\* The slot at the head is free and nobody's to clear.
LEMMA StoreInv ==
  ASSUME IInv, WalInv', NEW b \in Batches, EnqueueStore(b)
  PROVE  IInv'
<1>p. /\ pc[b] = "store" /\ pc'[b] = "bump"
      /\ \A c \in Batches : c # b => pc'[c] = pc[c]
  BY TypeFacts DEF IInv, WalInv, EnqueueStore, Goto
<1>s. /\ /\ head' = head /\ tail' = tail /\ op' = op /\ seq' = seq
      /\ applied' = applied /\ commitWG' = commitWG /\ fsyncWG' = fsyncWG
      /\ logSeqNum' = logSeqNum /\ visibleSeqNum' = visibleSeqNum
      /\ mem' = mem /\ ends' = ends /\ syncQ' = syncQ /\ calls' = calls
      /\ lTail' = lTail /\ lBatch' = lBatch /\ lSeq' = lSeq
  BY DEF EnqueueStore, Goto, queueVars, seqVars, walVars, batchVars, localVars
<1>t. head \in Nat /\ tail \in Nat /\ \A c \in Batches : lTail[c] \in Nat
  BY TypeFacts DEF IInv, WalInv
<1>c. /\ slots[Slot(head)] = NoBatch
      /\ At(head)' = b
      /\ \A i \in Nat : Slot(i) # Slot(head) => At(i)' = At(i)
  BY <1>t, <1>s, SlotType, TypeFacts DEF IInv, WalInv, EnqueueStore, At
<1>a. Window' = Window /\ \A i \in Window : i \in Nat /\ At(i)' = At(i)
  BY <1>p, <1>s, <1>t, <1>c, FillSafe DEF Window
<1>k. QueueKept
  BY <1>s, <1>a DEF QueueKept
<1>n. /\ ~InWindow(b) /\ ~Held(b) /\ ~InSyncQ(b)
      /\ pc[b] \in UnboundPCs /\ pc'[b] \in UnboundPCs
      /\ pc'[b] \notin UnappliedPCs \cup PublishPCs \cup IngestPCs
      /\ pc[b] \in UnsyncedPCs
  BY <1>p, WindowFacts DEF UnboundPCs, UnappliedPCs, PublishPCs, QueuedPCs, HolderPCs,
     IngestPCs, AwaitingPCs, UnsyncedPCs
<1>w. \A c : InWindow(c)' <=> InWindow(c)
  BY <1>a DEF InWindow
<1>o. \A c \in Batches : pc'[c] \in {"bump", "seq"} => c = b
  BY <1>p, OneInMutex DEF IInv, MuPCs
<1>h. \A c \in Batches : Held(c)' <=> Held(c)
  BY <1>p, <1>s DEF Held, HolderPCs
<1>q. \A c : InSyncQ(c)' <=> InSyncQ(c)
  BY <1>s DEF InSyncQ
<1>1. CallsInv'
  BY <1>p, <1>s, <1>n, CallsFrame
<1>2. RingInv'
  <2>1. \A i \in Window' : At(i)' \in Batches /\ pc'[At(i)'] \in QueuedPCs
    BY <1>p, <1>a, <1>n DEF IInv, RingInv, InWindow
  <2>2. \A i, j \in Window' : At(i)' = At(j)' => i = j
    BY <1>a DEF IInv, RingInv
  <2>3. \A c \in Batches : pc'[c] = "bump" => At(head)' = c
    BY <1>c, <1>o
  <2>4. tail <= head /\ head < tail + SyncConcurrency
    BY <1>p DEF IInv, RingInv
  <2>5. SyncConcurrency \in Nat
    BY PipelineAssumption
  <2> QED
    BY <1>s, <1>t, <2>1, <2>2, <2>3, <2>4, <2>5 DEF RingInv
<1>3. ClearInv'
  <2> SUFFICES ASSUME NEW c \in Batches, pc'[c] = "clear"
               PROVE  /\ lTail[c] < tail /\ head < lTail[c] + SyncConcurrency
                      /\ At(lTail[c])' = lBatch[c]
    BY <1>s, <1>t, PipelineAssumption DEF ClearInv
  <2>1. pc[c] = "clear" /\ lBatch[c] \in Batches
    BY <1>p, TypeFacts DEF IInv, WalInv, HolderPCs
  <2>2. /\ lTail[c] < tail /\ head <= lTail[c] + SyncConcurrency
        /\ At(lTail[c]) = lBatch[c]
    BY <2>1 DEF IInv, ClearInv
  <2>3. Slot(lTail[c]) # Slot(head)
    BY <2>1, <2>2, <1>c, PipelineAssumption DEF At
  <2>4. head # lTail[c] + SyncConcurrency
    BY <2>3, <1>t, SlotWraps
  <2>5. At(lTail[c])' = At(lTail[c])
    BY <2>3, <1>c, <1>t, <1>s DEF At
  <2> QED
    BY <2>2, <2>4, <2>5, <1>s, <1>t, PipelineAssumption
<1>4. LocalsInv'
  BY <1>p, <1>s, <1>k, LocalsFrame
<1>5. HeldInv'
  BY <1>p, <1>s, <1>w, <1>n, HeldFrame, WindowFacts DEF HolderPCs
<1>6. AppliedInv'
  BY <1>p, <1>s, <1>n, AppliedFrame DEF IInv, AppliedInv
<1>7. WaitInv'
  <2>1. \A c \in Batches : PublishPending(c)' => PublishPending(c)
    BY <1>p, <1>w, <1>h DEF PublishPending
  <2>2. \A c \in Batches : SyncPending(c)' => SyncPending(c)
    BY <1>p, <1>s, <1>q DEF SyncPending, UnsyncedPCs
  <2> QED
    BY <1>s, <2>1, <2>2, WaitFrame
<1>8. SyncInv'
  BY <1>p, <1>s, <1>n, WindowFacts, SyncFrame
<1>9. OrderInv'
  BY <1>p, <1>s, <1>k, <1>n, OrderFrame DEF HolderPCs
<1>10. PlaceInv'
  BY <1>p, <1>s, <1>w, <1>h, <1>n, PlaceFrame
<1> QED
  BY <1>1, <1>2, <1>3, <1>4, <1>5, <1>6, <1>7, <1>8, <1>9, <1>10 DEF IInv

\* The batch joins the queue, with a place in it and no sequence number yet.
LEMMA BumpInv ==
  ASSUME IInv, WalInv', NEW b \in Batches, EnqueueBump(b)
  PROVE  IInv'
<1>p. /\ pc[b] = "bump" /\ pc'[b] = "seq"
      /\ \A c \in Batches : c # b => pc'[c] = pc[c]
  BY TypeFacts DEF IInv, WalInv, EnqueueBump, Goto
<1>s. /\ /\ tail' = tail /\ slots' = slots /\ op' = op /\ seq' = seq
      /\ applied' = applied /\ commitWG' = commitWG /\ fsyncWG' = fsyncWG
      /\ logSeqNum' = logSeqNum /\ visibleSeqNum' = visibleSeqNum
      /\ mem' = mem /\ ends' = ends /\ syncQ' = syncQ /\ calls' = calls
      /\ lTail' = lTail /\ lBatch' = lBatch /\ lSeq' = lSeq
  BY DEF EnqueueBump, Goto, queueVars, seqVars, walVars, batchVars, localVars
<1>t. head \in Nat /\ tail \in Nat /\ \A c \in Batches : lTail[c] \in Nat
  BY TypeFacts DEF IInv, WalInv
<1>c. head' = head + 1 /\ SyncConcurrency \in Nat
  BY PipelineAssumption DEF EnqueueBump
<1>r. /\ tail <= head /\ head < tail + SyncConcurrency /\ At(head) = b
  BY <1>p DEF IInv, RingInv
<1>a. Window' = Window \cup {head} /\ \A i : At(i)' = At(i)
  BY <1>s, <1>t, <1>c, <1>r DEF Window, At
<1>n. /\ ~InWindow(b) /\ ~Held(b) /\ ~InSyncQ(b)
      /\ pc[b] \in UnboundPCs /\ pc'[b] \notin UnboundPCs
      /\ pc[b] \notin UnappliedPCs /\ pc'[b] \in UnappliedPCs \cap QueuedPCs
      /\ pc'[b] \notin PublishPCs \cup IngestPCs
      /\ pc[b] \in UnsyncedPCs /\ pc'[b] \in UnsyncedPCs
  BY <1>p, WindowFacts DEF UnboundPCs, UnappliedPCs, PublishPCs, QueuedPCs, HolderPCs,
     IngestPCs, AwaitingPCs, UnsyncedPCs
<1>w. \A c : InWindow(c)' <=> InWindow(c) \/ c = b
  BY <1>a, <1>r DEF InWindow
<1>o. \A c \in Batches : pc'[c] \in {"store", "bump", "seq"} => c = b /\ pc'[c] = "seq"
  BY <1>p, OneInMutex DEF IInv, MuPCs
<1>h. \A c \in Batches : Held(c)' <=> Held(c)
  BY <1>p, <1>s DEF Held, HolderPCs
<1>q. \A c : InSyncQ(c)' <=> InSyncQ(c)
  BY <1>s DEF InSyncQ
<1>1. CallsInv'
  <2>1. Unbound' = Unbound \ {b} /\ b \in Unbound
    BY <1>p, <1>n DEF Unbound
  <2>2. Cardinality(Unbound') = Cardinality(Unbound) - 1
    BY <2>1, UnboundCard, FS_RemoveElement
  <2>3. calls \in Nat /\ StartIndex \in Nat
    BY TypeFacts, PipelineAssumption DEF IInv, WalInv
  <2> QED
    BY <1>s, <1>t, <1>c, <2>2, <2>3, UnboundCard DEF IInv, CallsInv
<1>2. RingInv'
  <2>1. \A i \in Window' : At(i)' \in Batches /\ pc'[At(i)'] \in QueuedPCs
    BY <1>p, <1>a, <1>n, <1>r DEF IInv, RingInv, InWindow
  <2>2. \A i, j \in Window' : At(i)' = At(j)' => i = j
    BY <1>a, <1>n, <1>r DEF IInv, RingInv, InWindow
  <2> QED
    BY <1>s, <1>t, <1>c, <1>r, <1>o, <2>1, <2>2 DEF RingInv
<1>3. ClearInv'
  <2> SUFFICES ASSUME NEW c \in Batches, pc'[c] = "clear"
               PROVE  /\ lTail[c] < tail /\ head + 1 <= lTail[c] + SyncConcurrency
                      /\ At(lTail[c])' = lBatch[c]
    BY <1>s, <1>c, <1>o DEF ClearInv
  <2>1. /\ lTail[c] < tail /\ head < lTail[c] + SyncConcurrency
        /\ At(lTail[c]) = lBatch[c]
    BY <1>p DEF IInv, ClearInv
  <2> QED
    BY <2>1, <1>s, <1>t, <1>c DEF At
<1>4. LocalsInv'
  <2> SUFFICES ASSUME NEW c \in Batches, pc'[c] \in {"slot", "check", "cas"}
               PROVE  /\ StartIndex <= lTail[c] /\ lTail[c] <= tail
                      /\ lTail[c] = tail => tail < head + 1
                      /\ lTail[c] = tail /\ pc'[c] # "slot" => lBatch[c] = At(tail)'
                      /\ lTail[c] = tail /\ pc'[c] = "cas" => applied[lBatch[c]]
    BY <1>s, <1>c DEF LocalsInv
  <2>1. pc[c] = pc'[c] /\ At(tail)' = At(tail)
    BY <1>p, <1>s DEF At
  <2> QED
    BY <2>1, <1>t, <1>r DEF IInv, LocalsInv
<1>5. HeldInv'
  <2>1. ASSUME NEW c \in Batches, pc'[c] \in HolderPCs
        PROVE  /\ pc'[lBatch'[c]] \in QueuedPCs
               /\ ~InWindow(lBatch[c])'
               /\ applied'[lBatch'[c]]
    <3>1. pc[c] \in HolderPCs /\ lBatch[c] \in Batches /\ lBatch'[c] = lBatch[c]
      BY <2>1, <1>p, <1>s, TypeFacts DEF IInv, WalInv, HolderPCs
    <3>2. Held(lBatch[c]) /\ lBatch[c] # b
      BY <3>1, <1>n DEF Held
    <3> QED
      BY <3>1, <3>2, <1>p, <1>s, <1>w DEF IInv, HeldInv
  <2>2. \A c, d \in Batches : pc'[c] \in HolderPCs /\ pc'[d] \in HolderPCs
                              /\ lBatch'[c] = lBatch'[d] => c = d
    BY <1>p, <1>s DEF IInv, HeldInv, HolderPCs
  <2> QED
    BY <2>1, <2>2 DEF HeldInv
<1>6. AppliedInv'
  BY <1>p, <1>s, <1>n, AppliedFrame DEF IInv, AppliedInv
<1>7. WaitInv'
  <2>1. \A c \in Batches : PublishPending(c)' => PublishPending(c)
    BY <1>p, <1>w, <1>h DEF PublishPending
  <2>2. \A c \in Batches : SyncPending(c)' => SyncPending(c)
    BY <1>p, <1>s, <1>q, <1>n DEF SyncPending
  <2> QED
    BY <1>s, <2>1, <2>2, WaitFrame
<1>8. SyncInv'
  BY <1>p, <1>s, <1>n, WindowFacts, SyncFrame
<1>9. OrderInv'
  <2>1. \A i \in Window : At(i) \in Batches /\ At(i) # b
    BY <1>n DEF IInv, RingInv, InWindow
  <2>2. \A i \in Nat : i >= tail => Bound(i)' = Bound(i)
    <3> SUFFICES ASSUME NEW i \in Nat, i >= tail PROVE Bound(i)' = Bound(i)
      OBVIOUS
    <3>1. CASE i < head
      <4>1. i \in Window
        BY <3>1, <1>t DEF Window
      <4> QED
        BY <4>1, <3>1, <2>1, <1>p, <1>s, <1>t, <1>c, <1>a DEF Bound
    <3>2. CASE i = head
      BY <3>2, <1>p, <1>s, <1>c, <1>r, <1>a, <1>t DEF Bound
    <3>3. CASE i > head
      BY <3>3, <1>s, <1>c, <1>t DEF Bound
    <3> QED
      BY <3>1, <3>2, <3>3, <1>t
  <2>3. ASSUME NEW i \in Window', pc'[At(i)'] # "seq"
        PROVE  /\ End(At(i))' <= Bound(i + 1)'
               /\ End(At(i))' .. Bound(i + 1)' - 1 \subseteq mem'
               /\ End(At(i))' \in ends'
    <3>1. i \in Window /\ At(i)' = At(i) /\ pc[At(i)] # "seq"
      BY <2>3, <2>1, <1>a, <1>p, <1>r
    <3>2. i + 1 \in Nat /\ i + 1 >= tail
      BY <3>1, <1>t DEF Window
    <3>3. End(At(i))' = End(At(i)) /\ Bound(i + 1)' = Bound(i + 1)
      BY <2>2, <3>1, <3>2, <1>s DEF End
    <3> QED
      BY <3>1, <3>3, <1>s DEF IInv, OrderInv
  <2>4. \A c \in Batches : pc'[c] = "seq" => tail' < head' /\ At(head - 1)' = c
    <3>1. head' - 1 = head
      BY <1>c, <1>t
    <3>2. At(head - 1)' = b
      BY <3>1, <1>r, <1>s DEF At
    <3> QED
      BY <3>2, <1>o, <1>s, <1>c, <1>r, <1>t
  <2>5. Bound(tail)' = Bound(tail)
    BY <2>2, <1>t, <1>s DEF Bound, At
  <2>6. \A c \in Batches : End(lBatch[c])' = End(lBatch[c])
    BY <1>s DEF End
  <2> QED
    BY <1>p, <1>s, <2>3, <2>4, <2>5, <2>6 DEF IInv, OrderInv, HolderPCs
<1>10. PlaceInv'
  <2> SUFFICES ASSUME NEW c \in Batches
               PROVE  /\ pc'[c] \in UnappliedPCs => InWindow(c)'
                      /\ pc'[c] \in PublishPCs =>
                           /\ applied'[c]
                           /\ InWindow(c)' \/ Held(c)' \/ End(c)' <= visibleSeqNum'
                      /\ pc'[c] \in {"syncwait", "returned"} => End(c)' <= visibleSeqNum'
    BY DEF PlaceInv
  <2>1. CASE c = b
    BY <2>1, <1>p, <1>w, <1>n
  <2>2. CASE c # b
    <3>1. End(c)' = End(c)
      BY <1>s DEF End
    <3> QED
      BY <2>2, <3>1, <1>p, <1>s, <1>w, <1>h DEF IInv, PlaceInv
  <2> QED
    BY <2>1, <2>2
<1> QED
  BY <1>1, <1>2, <1>3, <1>4, <1>5, <1>6, <1>7, <1>8, <1>9, <1>10 DEF IInv

-----------------------------------------------------------------------------
(***************************************************************************)
(* Sequencing, the WAL and applying.                                       *)
(***************************************************************************)

\* Under the mutex the batch to be sequenced is the last of the queue; what
\* is skipped counts as applied.
LEMMA AssignInv ==
  ASSUME IInv, WalInv', NEW b \in Batches, AssignSeqNum(b)
  PROVE  IInv'
<1>p. /\ pc[b] = "seq" /\ pc'[b] \in {"drain", "write"}
      /\ \A c \in Batches : c # b => pc'[c] = pc[c]
  BY TypeFacts DEF IInv, WalInv, AssignSeqNum, Goto
<1>s. /\ /\ QueueSame /\ QueueKept /\ head' = head /\ tail' = tail
      /\ slots' = slots /\ op' = op /\ applied' = applied
      /\ commitWG' = commitWG /\ fsyncWG' = fsyncWG
      /\ visibleSeqNum' = visibleSeqNum /\ syncQ' = syncQ /\ calls' = calls
      /\ lTail' = lTail /\ lBatch' = lBatch
  BY QueueFrame DEF AssignSeqNum, Goto, QueueSame, queueVars, seqVars, walVars,
     batchVars, localVars
<1>t. /\ head \in Nat /\ tail \in Nat /\ logSeqNum \in Nat /\ op[b] \in OpType
      /\ op[b].n \in Nat
  BY TypeFacts, OpFacts DEF IInv, WalInv
<1>f. PICK first \in Nat : /\ first >= logSeqNum
                          /\ logSeqNum' = first + op[b].n
                          /\ seq' = [seq EXCEPT ![b] = first]
                          /\ ends' = ends \cup {first + op[b].n}
                          /\ mem' = mem \cup (logSeqNum .. first - 1)
  <2> DEFINE f == IF IsIngest(b) /\ logSeqNum = 0 THEN 1 ELSE logSeqNum
  <2>1. f \in Nat /\ f >= logSeqNum
    BY <1>t
  <2>2. /\ logSeqNum' = f + op[b].n /\ seq' = [seq EXCEPT ![b] = f]
        /\ ends' = ends \cup {f + op[b].n}
        /\ mem' = mem \cup (logSeqNum .. f - 1)
    BY DEF AssignSeqNum
  <2> QED
    BY <2>1, <2>2
<1>c. /\ seq'[b] = first /\ \A c \in Batches : c # b => seq'[c] = seq[c]
      /\ mem \subseteq mem' /\ ends \subseteq ends'
      /\ \A c \in Batches : c # b => lSeq'[c] = lSeq[c]
      /\ pc'[b] = "drain" => op[b].sync = "none"
  <2>1. seq'[b] = first /\ \A c \in Batches : c # b => seq'[c] = seq[c]
    BY <1>f, TypeFacts DEF IInv, WalInv
  <2>2. \A c \in Batches : c # b => lSeq'[c] = lSeq[c]
    BY DEF AssignSeqNum, IInv, WalInv, Typed, TypeOK, LocalType
  <2>3. pc'[b] = "drain" => IsIngest(b)
    BY TypeFacts DEF AssignSeqNum, Goto, IInv, WalInv
  <2>4. IsIngest(b) => op[b].sync = "none"
    BY <1>t DEF IsIngest, OpType
  <2> QED
    BY <1>f, <2>1, <2>2, <2>3, <2>4
<1>n. /\ InWindow(b) /\ ~Held(b) /\ ~InSyncQ(b) /\ ~applied[b]
      /\ pc'[b] \notin UnboundPCs \cup PublishPCs
      /\ pc[b] \in UnappliedPCs /\ pc'[b] \in UnappliedPCs \cap QueuedPCs
      /\ pc[b] \in UnsyncedPCs
  <2>1. pc[b] \in UnappliedPCs
    BY <1>p DEF UnappliedPCs
  <2>2. InWindow(b) /\ ~applied[b]
    BY <2>1 DEF IInv, PlaceInv, AppliedInv
  <2> QED
    BY <1>p, <2>2, WindowFacts DEF UnboundPCs, UnappliedPCs, PublishPCs, QueuedPCs,
       HolderPCs, AwaitingPCs, UnsyncedPCs
<1>w. \A c : InWindow(c)' <=> InWindow(c)
  BY <1>s, QueueFrame
<1>h. \A c \in Batches : Held(c)' <=> Held(c)
  BY <1>p, <1>s DEF Held, HolderPCs
<1>q. \A c : InSyncQ(c)' <=> InSyncQ(c)
  BY <1>s DEF InSyncQ
<1>1. CallsInv'
  BY <1>p, <1>s, <1>n, CallsFrame
<1>2. RingInv'
  BY <1>p, <1>s, <1>n, WindowFacts, RingFrame
<1>3. ClearInv'
  BY <1>p, <1>s, ClearFrame
<1>4. LocalsInv'
  BY <1>p, <1>s, LocalsFrame
<1>5. HeldInv'
  BY <1>p, <1>s, <1>w, <1>n, HeldFrame, WindowFacts DEF HolderPCs
<1>6. AppliedInv'
  BY <1>p, <1>s, <1>c, <1>n, AppliedFrame DEF IInv, AppliedInv
<1>7. WaitInv'
  <2>1. \A c \in Batches : PublishPending(c)' => PublishPending(c)
    BY <1>p, <1>w, <1>h DEF PublishPending
  <2>2. \A c \in Batches : SyncPending(c)' => SyncPending(c)
    BY <1>p, <1>s, <1>q, <1>n DEF SyncPending
  <2> QED
    BY <1>s, <2>1, <2>2, WaitFrame
<1>8. SyncInv'
  <2>1. \A c \in Batches : pc'[c] \in IngestPCs =>
          (pc[c] \in IngestPCs /\ op'[c] = op[c]) \/ op'[c].sync = "none"
    BY <1>p, <1>s, <1>c DEF IngestPCs
  <2> QED
    BY <1>p, <1>s, <1>n, <2>1, WindowFacts, SyncFrame
<1>9. OrderInv'
  <2>1. tail < head /\ At(head - 1) = b /\ head - 1 \in Window
    BY <1>p, <1>t DEF IInv, OrderInv, Window
  <2>2. \A i \in Window : At(i) \in Batches /\ (i # head - 1 => At(i) # b)
    BY <2>1 DEF IInv, RingInv
  <2>3. Window' = Window /\ \A i : At(i)' = At(i)
    BY <1>s, QueueFrame
  <2>4. \A i \in Nat : i >= tail =>
          /\ Bound(i) \in Nat /\ Bound(i)' \in Nat
          /\ Bound(i) <= Bound(i)'
          /\ i < head => \/ Bound(i)' = Bound(i)
                         \/ Bound(i) = logSeqNum /\ Bound(i)' = first
    <3> SUFFICES ASSUME NEW i \in Nat, i >= tail
                 PROVE  /\ Bound(i) \in Nat /\ Bound(i)' \in Nat
                        /\ Bound(i) <= Bound(i)'
                        /\ i < head => \/ Bound(i)' = Bound(i)
                                       \/ Bound(i) = logSeqNum /\ Bound(i)' = first
      BY <1>t
    <3>1. CASE i < head - 1
      <4>1. i \in Window /\ i # head - 1
        BY <3>1, <1>t DEF Window
      <4>4. i < head /\ At(i)' = At(i) /\ At(i) \in Batches /\ At(i) # b
        BY <4>1, <2>2, <2>3, <1>t, <3>1
      <4>5. pc'[At(i)] = pc[At(i)] /\ seq'[At(i)] = seq[At(i)]
        BY <4>4, <1>p, <1>c
      <4>6. pc[At(i)] # "seq"
        BY <4>4, <1>p, OneInMutex DEF IInv, MuPCs
      <4>2. Bound(i)' = Bound(i)
        BY <4>4, <4>5, <4>6, <1>s DEF Bound
      <4>3. Bound(i) \in Nat
        BY <4>1, <2>2, <1>t, TypeFacts DEF Bound, IInv, WalInv
      <4> QED
        BY <4>2, <4>3
    <3>2. CASE i = head - 1
      <4>1. Bound(i) = logSeqNum
        BY <3>2, <2>1, <1>p DEF Bound
      <4>2. Bound(i)' = first
        BY <3>2, <2>1, <2>3, <1>p, <1>s, <1>c, <1>t DEF Bound
      <4> QED
        BY <4>1, <4>2, <1>f, <1>t
    <3>3. CASE i >= head
      <4>1. Bound(i) = logSeqNum /\ Bound(i)' = logSeqNum'
        BY <3>3, <1>s, <1>t DEF Bound
      <4> QED
        BY <4>1, <1>f, <1>t, <3>3
    <3> QED
      BY <3>1, <3>2, <3>3, <1>t
  <2>5. ASSUME NEW i \in Window', pc'[At(i)'] # "seq"
        PROVE  /\ End(At(i))' <= Bound(i + 1)'
               /\ End(At(i))' .. Bound(i + 1)' - 1 \subseteq mem'
               /\ End(At(i))' \in ends'
    <3>a. i \in Window /\ At(i)' = At(i)
      BY <2>3
    <3>0. /\ i \in Window /\ At(i)' = At(i) /\ i \in Nat /\ i + 1 \in Nat
          /\ i + 1 >= tail /\ i < head
      BY <3>a, <1>t DEF Window
    <3>1. CASE i = head - 1
      <4>1. End(At(i))' = first + op[b].n
        BY <3>1, <2>1, <2>3, <1>s, <1>c DEF End
      <4>2. Bound(i + 1)' = first + op[b].n
        BY <3>1, <1>s, <1>f, <1>t DEF Bound
      <4>3. first + op[b].n \in Nat
        BY <1>f, <1>t
      <4> QED
        BY <4>1, <4>2, <4>3, <1>f
    <3>2. CASE i # head - 1
      <4>1. At(i) \in Batches /\ At(i) # b
        BY <3>0, <3>2, <2>2
      <4>2. pc[At(i)] # "seq" /\ End(At(i))' = End(At(i))
        BY <4>1, <3>0, <2>5, <1>p, <1>s, <1>c DEF End
      <4>3. /\ End(At(i)) <= Bound(i + 1)
            /\ End(At(i)) .. Bound(i + 1) - 1 \subseteq mem
            /\ End(At(i)) \in ends
        BY <4>2, <3>0 DEF IInv, OrderInv
      <4>4. End(At(i)) \in Nat
        BY <4>1, EntriesFacts DEF IInv, WalInv, Typed, TypeOK
      <4>5. /\ Bound(i + 1) \in Nat /\ Bound(i + 1)' \in Nat
            /\ Bound(i + 1)' = Bound(i + 1) \/
                 (Bound(i + 1) = logSeqNum /\ Bound(i + 1)' = first)
        <5>1. i + 1 < head
          BY <3>0, <3>2, <1>t
        <5> QED
          BY <5>1, <3>0, <2>4, Zenon
      <4>6. End(At(i)) .. Bound(i + 1)' - 1 \subseteq mem'
        <5>1. CASE Bound(i + 1)' = Bound(i + 1)
          BY <5>1, <4>3, <1>c
        <5>2. CASE Bound(i + 1) = logSeqNum /\ Bound(i + 1)' = first
          <6>1. \A x \in End(At(i)) .. first - 1 :
                  x \in End(At(i)) .. logSeqNum - 1 \/ x \in logSeqNum .. first - 1
            BY <4>4, <1>t, <1>f
          <6> QED
            BY <5>2, <6>1, <4>3, <1>f
        <5> QED
          BY <5>1, <5>2, <4>5
      <4>7. End(At(i)) <= Bound(i + 1)'
        BY <4>3, <4>4, <4>5, <1>t, <1>f
      <4> QED
        BY <4>2, <4>3, <4>6, <4>7, <1>c
    <3> QED
      BY <3>1, <3>2
  <2>6. \A c \in Batches : pc'[c] # "seq"
    BY <1>p, OneInMutex DEF IInv, MuPCs
  <2>7. /\ Bound(tail) \in Nat /\ Bound(tail)' \in Nat
        /\ Bound(tail) <= Bound(tail)'
        /\ Bound(tail)' = Bound(tail) \/ (Bound(tail) = logSeqNum /\ Bound(tail)' = first)
    <3>1. PICK i \in Nat : i = tail
      BY <1>t
    <3>2. Bound(tail) = Bound(i) /\ Bound(tail)' = Bound(i)'
      BY <3>1, <1>s DEF Bound, At
    <3>3. i >= tail /\ i < head
      BY <3>1, <2>1, <1>t
    <3>4. /\ Bound(i) \in Nat /\ Bound(i)' \in Nat /\ Bound(i) <= Bound(i)'
          /\ Bound(i)' = Bound(i) \/ (Bound(i) = logSeqNum /\ Bound(i)' = first)
      BY <3>3, <2>4, Zenon
    <3> QED
      BY <3>2, <3>4
  <2>8. StartSeqNum .. Bound(tail)' - 1 \subseteq mem'
    <3>1. StartSeqNum .. Bound(tail) - 1 \subseteq mem /\ StartSeqNum \in Nat
      BY PipelineAssumption DEF IInv, OrderInv
    <3>2. CASE Bound(tail)' = Bound(tail)
      BY <3>1, <3>2, <1>c
    <3>3. CASE Bound(tail) = logSeqNum /\ Bound(tail)' = first
      <4>1. \A x \in StartSeqNum .. first - 1 :
              x \in StartSeqNum .. logSeqNum - 1 \/ x \in logSeqNum .. first - 1
        BY <3>1, <1>t, <1>f
      <4> QED
        BY <3>1, <3>3, <4>1, <1>f
    <3> QED
      BY <2>7, <3>2, <3>3
  <2>9. ASSUME NEW c \in Batches, pc'[c] \in HolderPCs
        PROVE  /\ End(lBatch[c])' = End(lBatch[c]) /\ End(lBatch[c]) \in Nat
               /\ pc'[c] = pc[c] /\ c # b
    <3>1. pc[c] \in HolderPCs /\ c # b /\ pc'[c] = pc[c]
      BY <2>9, <1>p DEF HolderPCs
    <3>2. lBatch[c] \in Batches /\ lBatch[c] # b
      BY <3>1, <1>n, TypeFacts DEF IInv, WalInv, Held
    <3>3. End(lBatch[c]) \in Nat
      BY <3>2, EntriesFacts DEF IInv, WalInv, Typed, TypeOK
    <3> QED
      BY <3>1, <3>2, <3>3, <1>s, <1>c DEF End
  <2>10. visibleSeqNum' <= Bound(tail)' /\ visibleSeqNum' \in ends'
    <3>1. visibleSeqNum <= Bound(tail) /\ visibleSeqNum \in ends /\ visibleSeqNum \in Nat
      BY TypeFacts DEF IInv, WalInv, OrderInv
    <3> QED
      BY <3>1, <2>7, <1>s, <1>c
  <2>11. ASSUME NEW c \in Batches, pc'[c] \in HolderPCs
         PROVE  End(lBatch[c])' <= Bound(tail)' /\ End(lBatch[c])' \in ends'
    <3>1. End(lBatch[c]) <= Bound(tail) /\ End(lBatch[c]) \in ends
      BY <2>9, <2>11 DEF IInv, OrderInv
    <3> QED
      BY <3>1, <2>7, <2>9, <2>11, <1>c
  <2>12. \A c \in Batches : pc'[c] = "ratchet" => lSeq'[c] <= End(lBatch[c])'
    BY <2>9, <1>c DEF IInv, OrderInv, HolderPCs
  <2>13. \A c \in Batches : pc'[c] = "done" => End(lBatch[c])' <= visibleSeqNum'
    BY <2>9, <1>s DEF IInv, OrderInv, HolderPCs
  <2> QED
    BY <2>5, <2>6, <2>8, <2>10, <2>11, <2>12, <2>13 DEF OrderInv
<1>10. PlaceInv'
  BY <1>p, <1>s, <1>w, <1>h, <1>c, <1>n, PlaceFrame
<1> QED
  BY <1>1, <1>2, <1>3, <1>4, <1>5, <1>6, <1>7, <1>8, <1>9, <1>10 DEF IInv

\* DirectAcquire (directWrite's unit of logSyncQSem) sets fsyncWG to one.
LEMMA DirectAcquireInv ==
  ASSUME IInv, WalInv', NEW b \in Batches, DirectAcquire(b)
  PROVE  IInv'
<1>p. /\ pc[b] = "directsem" /\ pc'[b] = "directwrite"
      /\ \A c \in Batches : c # b => pc'[c] = pc[c]
  BY TypeFacts DEF IInv, WalInv, DirectAcquire, Goto
<1>s. /\ /\ QueueSame /\ QueueKept /\ head' = head /\ tail' = tail
      /\ slots' = slots /\ op' = op /\ seq' = seq /\ applied' = applied
      /\ commitWG' = commitWG /\ logSeqNum' = logSeqNum
      /\ visibleSeqNum' = visibleSeqNum /\ mem' = mem /\ ends' = ends
      /\ syncQ' = syncQ /\ calls' = calls /\ lTail' = lTail
      /\ lBatch' = lBatch /\ lSeq' = lSeq
  BY QueueFrame DEF DirectAcquire, Goto, QueueSame, queueVars, seqVars,
     walVars, batchVars, localVars
<1>c. fsyncWG'[b] >= 1 /\ \A c \in Batches : c # b => fsyncWG'[c] = fsyncWG[c]
  BY TypeFacts DEF IInv, WalInv, DirectAcquire
<1>n. /\ ~InSyncQ(b)
      /\ pc'[b] \notin UnboundPCs \cup PublishPCs \cup UnsyncedPCs
      /\ pc[b] \in UnappliedPCs /\ pc'[b] \in UnappliedPCs \cap QueuedPCs
      /\ pc[b] \in IngestPCs
  BY <1>p, WindowFacts DEF UnboundPCs, UnappliedPCs, PublishPCs, QueuedPCs, HolderPCs,
     IngestPCs, AwaitingPCs, UnsyncedPCs
<1>w. \A c : InWindow(c)' <=> InWindow(c)
  BY <1>s, QueueFrame
<1>h. \A c \in Batches : Held(c)' <=> Held(c)
  BY <1>p, <1>s DEF Held, HolderPCs
<1>q. \A c : InSyncQ(c)' <=> InSyncQ(c)
  BY <1>s DEF InSyncQ
<1>1. CallsInv'
  BY <1>p, <1>s, <1>n, CallsFrame
<1>2. RingInv'
  BY <1>p, <1>s, <1>n, WindowFacts, RingFrame
<1>3. ClearInv'
  BY <1>p, <1>s, ClearFrame
<1>4. LocalsInv'
  BY <1>p, <1>s, LocalsFrame
<1>5. HeldInv'
  BY <1>p, <1>s, <1>w, <1>n, HeldFrame, WindowFacts DEF HolderPCs
<1>6. AppliedInv'
  BY <1>p, <1>s, <1>n, AppliedFrame DEF IInv, AppliedInv
<1>7. WaitInv'
  <2>1. \A c \in Batches : PublishPending(c)' => PublishPending(c)
    BY <1>p, <1>w, <1>h DEF PublishPending
  <2>2. \A c \in Batches : SyncPending(c)' => SyncPending(c)
    BY <1>p, <1>s, <1>q DEF SyncPending, UnsyncedPCs
  <2> QED
    BY <1>s, <2>1, <2>2, WaitFrame
<1>8. SyncInv'
  BY <1>p, <1>s, <1>c, <1>n, WindowFacts, SyncFrame
<1>9. OrderInv'
  BY <1>p, <1>s, <1>n, OrderFrame DEF HolderPCs
<1>10. PlaceInv'
  BY <1>p, <1>s, <1>w, <1>h, <1>n, PlaceFrame
<1> QED
  BY <1>1, <1>2, <1>3, <1>4, <1>5, <1>6, <1>7, <1>8, <1>9, <1>10 DEF IInv

\* The batch is marked when its entries are in the memtable.
LEMMA MarkInv ==
  ASSUME IInv, WalInv', NEW b \in Batches, MarkApplied(b)
  PROVE  IInv'
<1>p. /\ pc[b] = "apply" /\ pc'[b] = "load"
      /\ \A c \in Batches : c # b => pc'[c] = pc[c]
  BY TypeFacts DEF IInv, WalInv, MarkApplied, Goto
<1>s. /\ /\ QueueSame /\ QueueKept /\ head' = head /\ tail' = tail
      /\ slots' = slots /\ op' = op /\ seq' = seq /\ commitWG' = commitWG
      /\ fsyncWG' = fsyncWG /\ logSeqNum' = logSeqNum
      /\ visibleSeqNum' = visibleSeqNum /\ mem' = mem /\ ends' = ends
      /\ syncQ' = syncQ /\ calls' = calls /\ lTail' = lTail
      /\ lBatch' = lBatch /\ lSeq' = lSeq
  BY QueueFrame DEF MarkApplied, Goto, QueueSame, queueVars, seqVars, walVars,
     batchVars, localVars
<1>c. /\ applied'[b] /\ Entries(b) \subseteq mem
      /\ \A c \in Batches : c # b => applied'[c] = applied[c]
  BY TypeFacts DEF IInv, WalInv, MarkApplied
<1>n. /\ InWindow(b)
      /\ pc'[b] \notin UnboundPCs \cup UnappliedPCs \cup UnsyncedPCs \cup IngestPCs
      /\ pc'[b] \in QueuedPCs \cap AwaitingPCs
  <2>1. InWindow(b)
    BY <1>p DEF IInv, PlaceInv, UnappliedPCs
  <2> QED
    BY <1>p, <2>1 DEF UnboundPCs, UnappliedPCs, PublishPCs, QueuedPCs, HolderPCs,
       IngestPCs, AwaitingPCs, UnsyncedPCs
<1>w. \A c : InWindow(c)' <=> InWindow(c)
  BY <1>s, QueueFrame
<1>h. \A c \in Batches : Held(c)' <=> Held(c)
  BY <1>p, <1>s DEF Held, HolderPCs
<1>q. \A c : InSyncQ(c)' <=> InSyncQ(c)
  BY <1>s DEF InSyncQ
<1>1. CallsInv'
  BY <1>p, <1>s, <1>n, CallsFrame
<1>2. RingInv'
  BY <1>p, <1>s, <1>n, WindowFacts, RingFrame
<1>3. ClearInv'
  BY <1>p, <1>s, ClearFrame
<1>4. LocalsInv'
  BY <1>p, <1>s, <1>c, LocalsFrame
<1>5. HeldInv'
  BY <1>p, <1>s, <1>w, <1>c, <1>n, HeldFrame, WindowFacts DEF HolderPCs
<1>6. AppliedInv'
  <2> SUFFICES ASSUME NEW c \in Batches, applied'[c]
               PROVE  Entries(c) \subseteq mem /\ pc'[c] \notin UnboundPCs \cup UnappliedPCs
    BY <1>s DEF AppliedInv, Entries
  <2> QED
    BY <1>p, <1>c, <1>n DEF IInv, AppliedInv
<1>7. WaitInv'
  <2>1. \A c \in Batches : PublishPending(c)' => PublishPending(c)
    BY <1>p, <1>w, <1>h DEF PublishPending
  <2>2. \A c \in Batches : SyncPending(c)' => SyncPending(c)
    BY <1>p, <1>s, <1>q DEF SyncPending, UnsyncedPCs
  <2> QED
    BY <1>s, <2>1, <2>2, WaitFrame
<1>8. SyncInv'
  BY <1>p, <1>s, <1>n, WindowFacts, SyncFrame
<1>9. OrderInv'
  BY <1>p, <1>s, <1>n, OrderFrame DEF HolderPCs
<1>10. PlaceInv'
  <2> SUFFICES ASSUME NEW c \in Batches
               PROVE  /\ pc'[c] \in UnappliedPCs => InWindow(c)'
                      /\ pc'[c] \in PublishPCs =>
                           /\ applied'[c]
                           /\ InWindow(c)' \/ Held(c)' \/ End(c)' <= visibleSeqNum'
                      /\ pc'[c] \in {"syncwait", "returned"} => End(c)' <= visibleSeqNum'
    BY DEF PlaceInv
  <2>1. CASE c = b
    BY <2>1, <1>p, <1>w, <1>c, <1>n
  <2>2. CASE c # b
    <3>1. End(c)' = End(c)
      BY <1>s DEF End
    <3> QED
      BY <2>2, <3>1, <1>p, <1>s, <1>w, <1>h, <1>c DEF IInv, PlaceInv
  <2> QED
    BY <2>1, <2>2
<1> QED
  BY <1>1, <1>2, <1>3, <1>4, <1>5, <1>6, <1>7, <1>8, <1>9, <1>10 DEF IInv


-----------------------------------------------------------------------------
(***************************************************************************)
(* The sync queue.                                                         *)
(***************************************************************************)

\* A waiter joins the sync queue behind the others.
LEMMA PushInv ==
  ASSUME IInv, WalInv', NEW b \in Batches, NEW sync \in BOOLEAN, LogWrite(b, sync),
         \A c \in Batches : c # b => pc'[c] = pc[c],
         op' = op, fsyncWG' = fsyncWG, pc[b] \notin AwaitingPCs,
         pc'[b] \in AwaitingPCs \ {"syncwait"},
         pc'[b] = "directwait" => pc[b] = "directwrite",
         sync => \/ pc[b] = "directwrite" /\ pc'[b] = "directwait"
                 \/ pc[b] = "write" /\ op[b].sync # "none"
  PROVE  /\ SyncInv'
         /\ \A c \in Batches : InSyncQ(c)' => InSyncQ(c) \/ (c = b /\ sync)
<1>1. syncQ \in Seq(SyncWaiter) /\ Len(syncQ) \in Nat
  BY SyncQFacts DEF IInv, WalInv
<1> DEFINE w == [at |-> Len(wal) + 1, batch |-> b]
           n == Len(syncQ)
<1>2. ~InSyncQ(b)
  BY WindowFacts
<1>3. \A i \in 1 .. n : syncQ[i].batch \in Batches /\ syncQ[i].batch # b
  BY <1>2, SyncQFacts DEF IInv, WalInv, InSyncQ
<1>4. \A c \in Batches :
        /\ pc'[c] \in IngestPCs => op'[c].sync = "none"
        /\ pc'[c] = "directwrite" => fsyncWG'[c] >= 1
        /\ pc'[c] = "syncwait" => op'[c].sync = "nowait"
        /\ pc'[c] \in UnsyncedPCs /\ op'[c].sync = "nowait" => fsyncWG'[c] >= 1
  <2> SUFFICES ASSUME NEW c \in Batches
               PROVE  /\ pc'[c] \in IngestPCs => op[c].sync = "none"
                      /\ pc'[c] = "directwrite" => fsyncWG[c] >= 1
                      /\ pc'[c] = "syncwait" => op[c].sync = "nowait"
                      /\ pc'[c] \in UnsyncedPCs /\ op[c].sync = "nowait" => fsyncWG[c] >= 1
    OBVIOUS
  <2>1. CASE c = b
    <3>1. pc'[b] \notin {"directwrite", "syncwait"} \cup UnsyncedPCs
      BY DEF AwaitingPCs, PublishPCs, HolderPCs, UnsyncedPCs
    <3>2. pc'[b] \in IngestPCs => pc[b] \in IngestPCs
      BY DEF AwaitingPCs, PublishPCs, HolderPCs, IngestPCs
    <3> QED
      BY <2>1, <3>1, <3>2 DEF IInv, SyncInv
  <2>2. CASE c # b
    BY <2>2 DEF IInv, SyncInv
  <2> QED
    BY <2>1, <2>2
<1>5. CASE ~sync
  <2>1. syncQ' = syncQ
    BY <1>5 DEF LogWrite
  <2>2. \A i \in 1 .. n : /\ pc'[syncQ[i].batch] = pc[syncQ[i].batch]
    BY <1>3
  <2>3. SyncInv'
    BY <1>4, <2>1, <2>2 DEF IInv, SyncInv
  <2> QED
    BY <2>1, <2>3 DEF InSyncQ
<1>6. CASE sync
  <2>1. syncQ' = Append(syncQ, w)
    BY <1>6 DEF LogWrite
  <2>2. /\ Len(syncQ') = n + 1
        /\ \A i \in 1 .. n : syncQ'[i] = syncQ[i]
        /\ syncQ'[n + 1] = w
    BY <2>1, <1>1
  <2>3. syncQ'[n + 1].batch = b
    BY <2>2
  <2>4. \A i \in 1 .. n + 1 : i \in 1 .. n \/ i = n + 1
    BY <1>1
  <2>5. /\ op[b].sync # "wait" => fsyncWG[b] >= 1
        /\ op[b].sync = "none" => pc'[b] = "directwait"
    <3>1. op[b].sync \in {"none", "wait", "nowait"}
      BY TypeFacts, OpFacts DEF IInv, WalInv, SyncModes
    <3> QED
      BY <1>6, <3>1 DEF IInv, SyncInv, IngestPCs, UnsyncedPCs
  <2>6. \A i \in 1 .. n :
          /\ pc'[syncQ[i].batch] \in AwaitingPCs
          /\ op[syncQ[i].batch].sync # "wait" => fsyncWG[syncQ[i].batch] >= 1
          /\ op[syncQ[i].batch].sync = "none" => pc'[syncQ[i].batch] = "directwait"
    BY <1>3 DEF IInv, SyncInv
  <2>7. \A i \in 1 .. n + 1 :
          /\ pc'[syncQ'[i].batch] \in AwaitingPCs
          /\ op'[syncQ'[i].batch].sync # "wait" => fsyncWG'[syncQ'[i].batch] >= 1
          /\ op'[syncQ'[i].batch].sync = "none" => pc'[syncQ'[i].batch] = "directwait"
    BY <2>2, <2>3, <2>4, <2>5, <2>6
  <2>8. \A i, j \in 1 .. n : syncQ[i].batch = syncQ[j].batch => i = j
    BY DEF IInv, SyncInv
  <2>9. \A i, j \in 1 .. n + 1 : syncQ'[i].batch = syncQ'[j].batch => i = j
    BY <1>3, <2>2, <2>3, <2>4, <2>8
  <2>10. \A c \in Batches : InSyncQ(c)' => InSyncQ(c) \/ c = b
    BY <2>2, <2>3, <2>4 DEF InSyncQ
  <2> QED
    BY <1>4, <1>6, <2>2, <2>7, <2>9, <2>10 DEF SyncInv
<1> QED
  BY <1>5, <1>6

\* Write appends the record and, for a synced call, its waiter. Only the sync
\* queue of the invariant is disturbed; commitWG already counts the waiter.
LEMMA WriteInv ==
  ASSUME IInv, WalInv', NEW b \in Batches, Write(b)
  PROVE  IInv'
<1>p. /\ pc[b] = "write" /\ pc'[b] = "apply"
      /\ \A c \in Batches : c # b => pc'[c] = pc[c]
  BY TypeFacts DEF IInv, WalInv, Write, Goto, LogWrite
<1>s. /\ /\ QueueSame /\ QueueKept /\ head' = head /\ tail' = tail
      /\ slots' = slots /\ op' = op /\ seq' = seq /\ applied' = applied
      /\ commitWG' = commitWG /\ fsyncWG' = fsyncWG /\ logSeqNum' = logSeqNum
      /\ visibleSeqNum' = visibleSeqNum /\ ends' = ends /\ calls' = calls
      /\ lTail' = lTail /\ lBatch' = lBatch /\ lSeq' = lSeq
  BY QueueFrame DEF Write, Goto, LogWrite, QueueSame, queueVars, seqVars,
     walVars, batchVars, localVars
<1>c. mem \subseteq mem' /\ LogWrite(b, op[b].sync # "none")
  BY DEF Write, seqVars
<1>n. /\ pc'[b] \notin UnboundPCs \cup PublishPCs \cup UnsyncedPCs
      /\ pc[b] \in UnappliedPCs /\ pc'[b] \in UnappliedPCs \cap QueuedPCs
      /\ pc[b] \notin AwaitingPCs /\ pc'[b] \in AwaitingPCs
  BY <1>p DEF UnboundPCs, UnappliedPCs, PublishPCs, QueuedPCs, HolderPCs,
     AwaitingPCs, UnsyncedPCs
<1>u. /\ SyncInv'
      /\ \A c \in Batches : InSyncQ(c)' => InSyncQ(c) \/ (c = b /\ op[b].sync # "none")
  BY <1>p, <1>s, <1>c, <1>n, PushInv
<1>w. \A c : InWindow(c)' <=> InWindow(c)
  BY <1>s, QueueFrame
<1>h. \A c \in Batches : Held(c)' <=> Held(c)
  BY <1>p, <1>s DEF Held, HolderPCs
<1>1. CallsInv'
  BY <1>p, <1>s, <1>n, CallsFrame
<1>2. RingInv'
  BY <1>p, <1>s, <1>n, WindowFacts, RingFrame
<1>3. ClearInv'
  BY <1>p, <1>s, ClearFrame
<1>4. LocalsInv'
  BY <1>p, <1>s, LocalsFrame
<1>5. HeldInv'
  BY <1>p, <1>s, <1>w, <1>n, HeldFrame, WindowFacts DEF HolderPCs
<1>6. AppliedInv'
  BY <1>p, <1>s, <1>c, <1>n, AppliedFrame DEF IInv, AppliedInv
<1>7. WaitInv'
  <2>1. \A c \in Batches : PublishPending(c)' => PublishPending(c)
    BY <1>p, <1>w, <1>h DEF PublishPending
  <2>2. \A c \in Batches : SyncPending(c)' => SyncPending(c)
    BY <1>p, <1>s, <1>u DEF SyncPending, UnsyncedPCs
  <2> QED
    BY <1>s, <2>1, <2>2, WaitFrame
<1>8. SyncInv'
  BY <1>u
<1>9. OrderInv'
  BY <1>p, <1>s, <1>c, <1>n, OrderFrame DEF HolderPCs
<1>10. PlaceInv'
  BY <1>p, <1>s, <1>w, <1>h, <1>n, PlaceFrame
<1> QED
  BY <1>1, <1>2, <1>3, <1>4, <1>5, <1>6, <1>7, <1>8, <1>9, <1>10 DEF IInv

\* DirectWrite does the same for the record of a flushable ingestion, which is
\* awaited through fsyncWG.
LEMMA DirectWriteInv ==
  ASSUME IInv, WalInv', NEW b \in Batches, DirectWrite(b)
  PROVE  IInv'
<1>p. /\ pc[b] = "directwrite" /\ pc'[b] = "directwait"
      /\ \A c \in Batches : c # b => pc'[c] = pc[c]
  BY TypeFacts DEF IInv, WalInv, DirectWrite, Goto, LogWrite
<1>s. /\ /\ QueueSame /\ QueueKept /\ head' = head /\ tail' = tail
      /\ slots' = slots /\ op' = op /\ seq' = seq /\ applied' = applied
      /\ commitWG' = commitWG /\ fsyncWG' = fsyncWG /\ logSeqNum' = logSeqNum
      /\ visibleSeqNum' = visibleSeqNum /\ ends' = ends /\ calls' = calls
      /\ lTail' = lTail /\ lBatch' = lBatch /\ lSeq' = lSeq
  BY QueueFrame DEF DirectWrite, Goto, LogWrite, QueueSame, queueVars, seqVars,
     walVars, batchVars, localVars
<1>c. mem \subseteq mem' /\ LogWrite(b, TRUE)
  BY DEF DirectWrite, seqVars
<1>n. /\ pc'[b] \notin UnboundPCs \cup PublishPCs \cup UnsyncedPCs
      /\ pc[b] \in UnappliedPCs /\ pc'[b] \in UnappliedPCs \cap QueuedPCs
      /\ pc[b] \notin AwaitingPCs /\ pc'[b] \in AwaitingPCs
  BY <1>p DEF UnboundPCs, UnappliedPCs, PublishPCs, QueuedPCs, HolderPCs,
     AwaitingPCs, UnsyncedPCs
<1>u. /\ SyncInv'
      /\ \A c \in Batches : InSyncQ(c)' => InSyncQ(c) \/ (c = b /\ TRUE)
  BY <1>p, <1>s, <1>c, <1>n, PushInv
<1>w. \A c : InWindow(c)' <=> InWindow(c)
  BY <1>s, QueueFrame
<1>h. \A c \in Batches : Held(c)' <=> Held(c)
  BY <1>p, <1>s DEF Held, HolderPCs
<1>1. CallsInv'
  BY <1>p, <1>s, <1>n, CallsFrame
<1>2. RingInv'
  BY <1>p, <1>s, <1>n, WindowFacts, RingFrame
<1>3. ClearInv'
  BY <1>p, <1>s, ClearFrame
<1>4. LocalsInv'
  BY <1>p, <1>s, LocalsFrame
<1>5. HeldInv'
  BY <1>p, <1>s, <1>w, <1>n, HeldFrame, WindowFacts DEF HolderPCs
<1>6. AppliedInv'
  BY <1>p, <1>s, <1>c, <1>n, AppliedFrame DEF IInv, AppliedInv
<1>7. WaitInv'
  <2>1. \A c \in Batches : PublishPending(c)' => PublishPending(c)
    BY <1>p, <1>w, <1>h DEF PublishPending
  <2>2. \A c \in Batches : SyncPending(c)' => SyncPending(c)
    BY <1>p, <1>s, <1>u DEF SyncPending, UnsyncedPCs, IInv, SyncInv, IngestPCs
  <2> QED
    BY <1>s, <2>1, <2>2, WaitFrame
<1>8. SyncInv'
  BY <1>u
<1>9. OrderInv'
  BY <1>p, <1>s, <1>c, <1>n, OrderFrame DEF HolderPCs
<1>10. PlaceInv'
  BY <1>p, <1>s, <1>w, <1>h, <1>n, PlaceFrame
<1> QED
  BY <1>1, <1>2, <1>3, <1>4, <1>5, <1>6, <1>7, <1>8, <1>9, <1>10 DEF IInv

\* The first waiter leaves the sync queue and is woken once.
LEMMA PopInv ==
  ASSUME IInv, WalInv', LogPop
  PROVE  IInv'
<1> DEFINE b == Head(syncQ).batch
           n == Len(syncQ)
<1>t. /\ syncQ \in Seq(SyncWaiter) /\ n \in Nat
      /\ \A i \in 1 .. n : syncQ[i].batch \in Batches
      /\ commitWG \in [Batches -> Int] /\ fsyncWG \in [Batches -> Int]
  BY SyncQFacts, TypeFacts DEF IInv, WalInv
<1>q. n >= 1 /\ b = syncQ[1].batch /\ b \in Batches /\ syncQ' = Tail(syncQ)
  <2>1. syncQ # <<>> /\ syncQ' = Tail(syncQ)
    BY DEF LogPop
  <2>2. n >= 1 /\ Head(syncQ) = syncQ[1]
    BY <2>1, <1>t
  <2> QED
    BY <2>1, <2>2, <1>t
<1>l. Len(syncQ') = n - 1 /\ \A i \in 1 .. n - 1 : syncQ'[i] = syncQ[i + 1]
  BY <1>t, <1>q
<1>s. /\ QueueSame /\ QueueKept /\ head' = head /\ tail' = tail /\ pc' = pc
      /\ op' = op /\ seq' = seq /\ applied' = applied
      /\ logSeqNum' = logSeqNum /\ visibleSeqNum' = visibleSeqNum
      /\ mem' = mem /\ ends' = ends /\ calls' = calls
      /\ lTail' = lTail /\ lBatch' = lBatch /\ lSeq' = lSeq
  BY QueueFrame DEF LogPop, QueueSame, queueVars, seqVars, localVars
<1>c. \/ /\ op[b].sync = "wait" /\ fsyncWG' = fsyncWG
         /\ commitWG' = [commitWG EXCEPT ![b] = commitWG[b] - 1]
      \/ /\ op[b].sync # "wait" /\ commitWG' = commitWG
         /\ fsyncWG' = [fsyncWG EXCEPT ![b] = fsyncWG[b] - 1]
  BY DEF LogPop
<1>w. \A c : InWindow(c)' <=> InWindow(c)
  BY <1>s, QueueFrame
<1>h. \A c \in Batches : Held(c)' <=> Held(c)
  BY <1>s DEF Held
<1>n. InSyncQ(b) /\ pc[b] \in AwaitingPCs /\ \A c : c = b => ~InSyncQ(c)'
  <2>1. InSyncQ(b) /\ pc[b] \in AwaitingPCs
    BY <1>q, <1>t DEF InSyncQ, IInv, SyncInv
  <2>2. \A i \in 1 .. n - 1 : i + 1 \in 1 .. n /\ i + 1 # 1
    BY <1>t
  <2>3. 1 \in 1 .. n
    BY <1>t, <1>q
  <2>4. \A i \in 1 .. n - 1 : syncQ[i + 1].batch # b
    BY <2>2, <2>3, <1>q DEF IInv, SyncInv
  <2>5. \A i \in 1 .. n - 1 : syncQ'[i].batch # b
    BY <2>4, <1>l
  <2>6. \A c : c = b => ~InSyncQ(c)'
    BY <2>5, <1>l DEF InSyncQ
  <2> QED
    BY <2>1, <2>6
<1> HIDE DEF b
<1>1. CallsInv' /\ AppliedInv'
  BY <1>s, CallsFrame, AppliedFrame DEF IInv, AppliedInv
<1>2. RingInv' /\ ClearInv' /\ LocalsInv'
  BY <1>s, RingFrame, ClearFrame, LocalsFrame, WindowFacts
<1>3. HeldInv' /\ OrderInv'
  BY <1>s, <1>w, HeldFrame, OrderFrame, WindowFacts
<1>4. SyncInv'
  <2>1. \A i \in 1 .. n - 1 : /\ i + 1 \in 1 .. n
                             /\ syncQ'[i].batch = syncQ[i + 1].batch
                             /\ syncQ[i + 1].batch # b
    <3>1. \A i \in 1 .. n - 1 : i + 1 \in 1 .. n /\ i + 1 # 1
      BY <1>t
    <3>2. 1 \in 1 .. n
      BY <1>t, <1>q
    <3> QED
      BY <3>1, <3>2, <1>l, <1>q DEF IInv, SyncInv
  <2>2. \A c \in Batches : c # b => fsyncWG'[c] = fsyncWG[c]
    BY <1>c, <1>t
  <2>3. \A i \in 1 .. n - 1 :
          /\ pc'[syncQ'[i].batch] \in AwaitingPCs
          /\ op'[syncQ'[i].batch].sync # "wait" => fsyncWG'[syncQ'[i].batch] >= 1
          /\ op'[syncQ'[i].batch].sync = "none" => pc'[syncQ'[i].batch] = "directwait"
    BY <2>1, <2>2, <1>s, <1>t DEF IInv, SyncInv
  <2>4. ASSUME NEW i \in 1 .. n - 1, NEW j \in 1 .. n - 1,
               syncQ'[i].batch = syncQ'[j].batch
        PROVE  i = j
    <3>1. i + 1 = j + 1
      BY <2>1, <2>4 DEF IInv, SyncInv
    <3> QED
      BY <3>1
  <2>5. \A c \in Batches :
          /\ pc'[c] \in IngestPCs => op'[c].sync = "none"
          /\ pc'[c] = "directwrite" => fsyncWG'[c] >= 1
          /\ pc'[c] = "syncwait" => op'[c].sync = "nowait"
          /\ pc'[c] \in UnsyncedPCs /\ op'[c].sync = "nowait" => fsyncWG'[c] >= 1
    <3>1. pc[b] \notin {"directwrite"} \cup UnsyncedPCs
      BY <1>n DEF AwaitingPCs, PublishPCs, HolderPCs, UnsyncedPCs
    <3> QED
      BY <3>1, <2>2, <1>s DEF IInv, SyncInv
  <2> QED
    BY <1>l, <2>3, <2>4, <2>5 DEF SyncInv
<1>5. PlaceInv'
  BY <1>s, <1>w, <1>h, PlaceFrame
<1>6. WaitInv'
  <2>1. \A c \in Batches : InSyncQ(c)' => InSyncQ(c)
    <3>1. \A i \in 1 .. n - 1 : i + 1 \in 1 .. n
      BY <1>t
    <3> QED
      BY <3>1, <1>l DEF InSyncQ
  <2>2. \A c \in Batches : (PublishPending(c)' => PublishPending(c))
                           /\ (SyncPending(c)' => SyncPending(c))
    BY <2>1, <1>s, <1>w, <1>h DEF PublishPending, SyncPending
  <2>3. CASE commitWG' = commitWG
    BY <2>2, <2>3, WaitFrame
  <2>4. CASE op[b].sync = "wait" /\ commitWG' = [commitWG EXCEPT ![b] = commitWG[b] - 1]
    <3> SUFFICES ASSUME NEW c \in Batches
                 PROVE  /\ PublishPending(c)' => commitWG'[c] >= 1
                        /\ SyncPending(c)' => commitWG'[c] >= 1
                        /\ PublishPending(c)' /\ SyncPending(c)' => commitWG'[c] >= 2
      BY DEF WaitInv
    <3>1. CASE c = b
      <4>1. ~SyncPending(c)'
        BY <3>1, <1>n, <1>s DEF SyncPending, AwaitingPCs, PublishPCs,
           HolderPCs, UnsyncedPCs
      <4>2. SyncPending(b)
        BY <2>4, <1>n DEF SyncPending
      <4>3. PublishPending(b) => commitWG[b] >= 2
        BY <4>2, <1>q DEF IInv, WaitInv
      <4>4. commitWG'[b] = commitWG[b] - 1 /\ commitWG[b] \in Int
        BY <2>4, <1>t, <1>q
      <4> QED
        BY <3>1, <4>1, <4>3, <4>4, <2>2
    <3>2. CASE c # b
      <4>1. commitWG'[c] = commitWG[c]
        BY <2>4, <3>2, <1>t
      <4> QED
        BY <4>1, <2>2 DEF IInv, WaitInv
    <3> QED
      BY <3>1, <3>2
  <2> QED
    BY <1>c, <2>3, <2>4
<1> QED
  BY <1>1, <1>2, <1>3, <1>4, <1>5, <1>6 DEF IInv

-----------------------------------------------------------------------------
(***************************************************************************)
(* Publishing.                                                             *)
(***************************************************************************)

\* The winner of the compare-and-swap takes the first batch off the queue; the
\* next one, or the end of the log, becomes the bound of what is applied.
LEMMA SwapInv ==
  ASSUME IInv, WalInv', NEW b \in Batches, CompareAndSwapTail(b),
         Index(head) = Index(lHead[b]), Index(tail) = Index(lTail[b])
  PROVE  IInv'
<1>p. /\ pc[b] = "cas" /\ pc'[b] = "clear"
      /\ \A c \in Batches : c # b => pc'[c] = pc[c]
  BY TypeFacts DEF IInv, WalInv, CompareAndSwapTail, Goto
<1>s. /\ /\ head' = head /\ slots' = slots /\ op' = op /\ seq' = seq
      /\ applied' = applied /\ commitWG' = commitWG /\ fsyncWG' = fsyncWG
      /\ logSeqNum' = logSeqNum /\ visibleSeqNum' = visibleSeqNum
      /\ mem' = mem /\ ends' = ends /\ syncQ' = syncQ /\ calls' = calls
      /\ lTail' = lTail /\ lBatch' = lBatch /\ lSeq' = lSeq
  BY DEF CompareAndSwapTail, Goto, queueVars, seqVars, walVars, batchVars, localVars
<1>c. tail' = tail + 1 /\ SyncConcurrency \in Nat
  BY PipelineAssumption DEF CompareAndSwapTail
<1>t. /\ head \in Nat /\ tail \in Nat /\ logSeqNum \in Nat
      /\ \A c \in Batches : lTail[c] \in Nat
  BY TypeFacts DEF IInv, WalInv
<1> DEFINE x == lBatch[b]
<1>f. /\ lTail[b] = tail /\ tail < head /\ tail \in Window
      /\ x = At(tail) /\ x \in Batches /\ applied[x]
  BY <1>p, SwapFacts
<1> HIDE DEF x
<1>a. /\ Window' = Window \ {tail} /\ \A i : At(i)' = At(i)
  BY <1>s, <1>t, <1>c, <1>f DEF Window, At
<1>w. \A c \in Batches : InWindow(c)' <=> InWindow(c) /\ c # x
  <2>1. \A i \in Window : At(i) = x => i = tail
    BY <1>f DEF IInv, RingInv
  <2> QED
    BY <2>1, <1>a, <1>f DEF InWindow
<1>n. /\ InWindow(x) /\ ~Held(x)
      /\ pc[x] \in QueuedPCs /\ pc[x] \notin UnappliedPCs \cup UnboundPCs
      /\ pc[b] \in PublishPCs /\ pc'[b] \in PublishPCs \cap QueuedPCs \cap AwaitingPCs
      /\ pc'[b] \notin UnboundPCs \cup UnappliedPCs \cup UnsyncedPCs \cup IngestPCs
  <2>1. InWindow(x)
    BY <1>f DEF InWindow
  <2>2. pc[x] \notin UnappliedPCs \cup UnboundPCs
    BY <1>f DEF IInv, AppliedInv
  <2> QED
    BY <1>p, <1>f, <2>1, <2>2, WindowFacts DEF UnboundPCs, UnappliedPCs, PublishPCs,
       QueuedPCs, HolderPCs, IngestPCs, AwaitingPCs, UnsyncedPCs
<1>h. \A c \in Batches : Held(c)' <=> Held(c) \/ c = x
  BY <1>p, <1>s DEF Held, HolderPCs, x
<1>q. \A c : InSyncQ(c)' <=> InSyncQ(c)
  BY <1>s DEF InSyncQ
<1>1. CallsInv'
  <2>1. Unbound' \subseteq Unbound
    BY <1>p, <1>n DEF Unbound
  <2>2. calls \in Nat /\ StartIndex \in Nat
    BY TypeFacts, PipelineAssumption DEF IInv, WalInv
  <2> QED
    BY <2>1, <2>2, <1>s, <1>t, <1>c, UnboundCard DEF IInv, CallsInv
<1>2. RingInv'
  <2>1. \A i \in Window' : At(i)' \in Batches /\ pc'[At(i)'] \in QueuedPCs
    BY <1>p, <1>a, <1>n DEF IInv, RingInv
  <2>2. \A i, j \in Window' : At(i)' = At(j)' => i = j
    BY <1>a DEF IInv, RingInv
  <2>3. \A c \in Batches : pc'[c] \in {"store", "bump"} =>
          head < tail + SyncConcurrency /\ pc[c] = pc'[c]
    BY <1>p DEF IInv, RingInv
  <2>4. \A c \in Batches : pc'[c] = "bump" => At(head)' = c
    BY <1>p, <1>s DEF IInv, RingInv, At
  <2>5. head <= tail + SyncConcurrency
    BY DEF IInv, RingInv
  <2> QED
    BY <1>s, <1>t, <1>c, <1>f, <2>1, <2>2, <2>3, <2>4, <2>5 DEF RingInv
<1>3. ClearInv'
  <2> SUFFICES ASSUME NEW c \in Batches, pc'[c] = "clear"
               PROVE  /\ lTail[c] < tail + 1 /\ head <= lTail[c] + SyncConcurrency
                      /\ At(lTail[c])' = lBatch[c]
                      /\ \A d \in Batches : pc'[d] = "bump" => head < lTail[c] + SyncConcurrency
    BY <1>s, <1>c DEF ClearInv
  <2>1. At(lTail[c])' = At(lTail[c])
    BY <1>s DEF At
  <2>2. \A d \in Batches : pc'[d] = "bump" => pc[d] = "bump"
    BY <1>p
  <2>3. CASE c = b
    BY <2>1, <2>2, <2>3, <1>t, <1>f DEF IInv, RingInv, x
  <2>4. CASE c # b
    <3>1. pc[c] = "clear"
      BY <2>4, <1>p
    <3> QED
      BY <2>1, <2>2, <3>1, <1>t DEF IInv, ClearInv
  <2> QED
    BY <2>3, <2>4
<1>4. LocalsInv'
  <2> SUFFICES ASSUME NEW c \in Batches, pc'[c] \in {"slot", "check", "cas"}
               PROVE  StartIndex <= lTail[c] /\ lTail[c] < tail + 1
    BY <1>s, <1>c, <1>t DEF LocalsInv
  <2>1. pc[c] = pc'[c]
    BY <1>p
  <2> QED
    BY <2>1, <1>t DEF IInv, LocalsInv
<1>5. HeldInv'
  <2>1. ASSUME NEW c \in Batches, pc'[c] \in HolderPCs
        PROVE  /\ pc'[lBatch'[c]] \in QueuedPCs
               /\ ~InWindow(lBatch[c])'
               /\ applied'[lBatch'[c]]
               /\ c # b => lBatch[c] # x /\ pc[c] \in HolderPCs
    <3>1. CASE c = b
      <4>1. lBatch'[c] = x
        BY <3>1, <1>s DEF x
      <4>2. pc'[x] \in QueuedPCs
        BY <1>p, <1>n, <1>f
      <4> QED
        BY <3>1, <4>1, <4>2, <1>f, <1>s, <1>w
    <3>2. CASE c # b
      <4>1. pc[c] \in HolderPCs /\ lBatch'[c] = lBatch[c]
        BY <2>1, <3>2, <1>p, <1>s
      <4>2. lBatch[c] \in Batches
        BY <4>1, TypeFacts DEF IInv, WalInv
      <4>3. Held(lBatch[c]) /\ lBatch[c] # x
        BY <4>1, <1>n DEF Held
      <4>4. pc[lBatch[c]] \in QueuedPCs /\ ~InWindow(lBatch[c]) /\ applied[lBatch[c]]
        BY <4>1 DEF IInv, HeldInv
      <4> QED
        BY <4>1, <4>2, <4>3, <4>4, <1>p, <1>s, <1>w, <1>n
    <3> QED
      BY <3>1, <3>2
  <2>2. ASSUME NEW c \in Batches, NEW d \in Batches, pc'[c] \in HolderPCs,
               pc'[d] \in HolderPCs, lBatch'[c] = lBatch'[d]
        PROVE  c = d
    BY <2>1, <2>2, <1>s DEF IInv, HeldInv, x
  <2> QED
    BY <2>1, <2>2 DEF HeldInv
<1>6. AppliedInv'
  BY <1>p, <1>s, <1>n, AppliedFrame DEF IInv, AppliedInv
<1>7. WaitInv'
  <2>1. \A c \in Batches : PublishPending(c)' => PublishPending(c)
    BY <1>p, <1>w, <1>h, <1>n DEF PublishPending
  <2>2. \A c \in Batches : SyncPending(c)' => SyncPending(c)
    BY <1>p, <1>s, <1>q, <1>n DEF SyncPending
  <2> QED
    BY <1>s, <2>1, <2>2, WaitFrame
<1>8. SyncInv'
  BY <1>p, <1>s, <1>n, WindowFacts, SyncFrame
<1>9. OrderInv'
  <2>1. \A c \in Batches : pc'[c] = "seq" <=> pc[c] = "seq"
    BY <1>p
  <2>2. \A i \in Window : At(i) \in Batches
    BY DEF IInv, RingInv
  <2>3. \A i \in Nat : i >= tail => Bound(i)' = Bound(i)
    <3> SUFFICES ASSUME NEW i \in Nat, i >= tail PROVE Bound(i)' = Bound(i)
      OBVIOUS
    <3>1. i < head => i \in Window
      BY <1>t DEF Window
    <3> QED
      BY <3>1, <2>1, <2>2, <1>a, <1>s DEF Bound
  <2>4. ASSUME NEW i \in Window', pc'[At(i)'] # "seq"
        PROVE  /\ End(At(i))' <= Bound(i + 1)'
               /\ End(At(i))' .. Bound(i + 1)' - 1 \subseteq mem'
               /\ End(At(i))' \in ends'
    <3>1. i \in Window /\ At(i)' = At(i)
      BY <1>a
    <3>2. i + 1 \in Nat /\ i + 1 >= tail /\ pc[At(i)] # "seq"
      BY <2>4, <2>1, <2>2, <3>1, <1>t DEF Window
    <3>3. End(At(i))' = End(At(i)) /\ Bound(i + 1)' = Bound(i + 1)
      BY <2>3, <3>1, <3>2, <1>s DEF End
    <3> QED
      BY <3>1, <3>2, <3>3, <1>s DEF IInv, OrderInv
  <2>5. ASSUME NEW c \in Batches, pc'[c] = "seq"
        PROVE  tail' < head' /\ At(head - 1)' = c
    <3>1. At(head - 1) = c /\ pc[c] = "seq"
      BY <2>1, <2>5 DEF IInv, OrderInv
    <3>2. c # x
      BY <3>1, <1>n DEF UnappliedPCs
    <3>3. tail # head - 1
      BY <3>1, <3>2, <1>f
    <3>4. At(head - 1)' = At(head - 1)
      BY <1>s DEF At
    <3> QED
      BY <3>1, <3>3, <3>4, <1>t, <1>f, <1>s, <1>c
  \* What the batch taken leaves behind: its own entries are applied, and so
  \* is what was skipped up to the next one.
  <2>6. Bound(tail) = seq[x] /\ Bound(tail + 1) \in Nat
    <3>1. pc[x] # "seq"
      BY <1>n DEF UnappliedPCs
    <3>2. Bound(tail) = seq[x]
      BY <3>1, <1>f DEF Bound
    <3>3. tail + 1 < head => tail + 1 \in Window
      BY <1>t DEF Window
    <3>4. Bound(tail + 1) \in Nat
      BY <3>3, <2>2, <1>t, TypeFacts DEF Bound, IInv, WalInv
    <3> QED
      BY <3>2, <3>4
  <2>7. /\ End(x) <= Bound(tail + 1) /\ End(x) .. Bound(tail + 1) - 1 \subseteq mem
        /\ End(x) \in ends
    <3>1. pc[At(tail)] # "seq"
      BY <1>n, <1>f DEF UnappliedPCs
    <3> QED
      BY <3>1, <1>f DEF IInv, OrderInv
  <2>8. /\ seq[x] .. End(x) - 1 \subseteq mem /\ seq[x] \in Nat /\ End(x) \in Nat
        /\ seq[x] <= End(x)
    <3>1. Entries(x) \subseteq mem
      BY <1>f DEF IInv, AppliedInv
    <3>2. End(x) \in Nat /\ seq[x] <= End(x)
      BY <1>f, EntriesFacts DEF IInv, WalInv, Typed, TypeOK
    <3>3. seq[x] \in Nat
      BY <1>f, TypeFacts DEF IInv, WalInv
    <3>4. op[x].n \in Nat
      BY <1>f, TypeFacts, OpFacts DEF IInv, WalInv
    <3>5. seq[x] + op[x].n - 1 = (seq[x] + op[x].n) - 1
      BY <3>3, <3>4
    <3>6. Entries(x) = seq[x] .. End(x) - 1
      BY <3>5 DEF Entries, End
    <3> QED
      BY <3>1, <3>2, <3>3, <3>6
  <2>9. Bound(tail)' = Bound(tail + 1)
    <3>1. PICK i \in Nat : i = tail + 1
      BY <1>t
    <3>2. Bound(tail)' = Bound(i)'
      BY <3>1, <1>c DEF Bound, At
    <3>3. Bound(i)' = Bound(i)
      BY <3>1, <2>3, <1>t
    <3> QED
      BY <3>1, <3>2, <3>3
  <2>10. StartSeqNum .. Bound(tail + 1) - 1 \subseteq mem
    <3>1. StartSeqNum .. seq[x] - 1 \subseteq mem /\ StartSeqNum \in Nat
      BY <2>6, PipelineAssumption DEF IInv, OrderInv
    <3>2. \A y \in StartSeqNum .. Bound(tail + 1) - 1 :
            \/ y \in StartSeqNum .. seq[x] - 1
            \/ y \in seq[x] .. End(x) - 1
            \/ y \in End(x) .. Bound(tail + 1) - 1
      BY <3>1, <2>6, <2>8
    <3> QED
      BY <3>1, <3>2, <2>7, <2>8
  <2>11. Bound(tail) <= Bound(tail + 1)
    BY <2>6, <2>7, <2>8
  <2>12. visibleSeqNum' <= Bound(tail)' /\ visibleSeqNum' \in ends'
    <3>1. visibleSeqNum <= Bound(tail) /\ visibleSeqNum \in ends /\ visibleSeqNum \in Nat
      BY TypeFacts DEF IInv, WalInv, OrderInv
    <3> QED
      BY <3>1, <2>6, <2>8, <2>9, <2>11, <1>s
  <2>13. \A c \in Batches : End(lBatch[c])' = End(lBatch[c])
    BY <1>s DEF End
  <2>14. ASSUME NEW c \in Batches, pc'[c] \in HolderPCs
         PROVE  End(lBatch[c])' <= Bound(tail)' /\ End(lBatch[c])' \in ends'
    <3>1. CASE c = b
      BY <3>1, <2>7, <2>9, <2>13, <1>s DEF x
    <3>2. CASE c # b
      <4>1. pc[c] \in HolderPCs
        BY <2>14, <3>2, <1>p
      <4>2. lBatch[c] \in Batches
        BY <4>1, TypeFacts DEF IInv, WalInv
      <4>3. End(lBatch[c]) \in Nat
        BY <4>2, EntriesFacts DEF IInv, WalInv, Typed, TypeOK
      <4>4. End(lBatch[c]) <= Bound(tail) /\ End(lBatch[c]) \in ends
        BY <4>1 DEF IInv, OrderInv
      <4> QED
        BY <4>3, <4>4, <2>6, <2>8, <2>9, <2>11, <2>13, <1>s
    <3> QED
      BY <3>1, <3>2
  <2>15. \A c \in Batches : /\ pc'[c] = "ratchet" => lSeq'[c] <= End(lBatch[c])'
                            /\ pc'[c] = "done" => End(lBatch[c])' <= visibleSeqNum'
    BY <2>13, <1>p, <1>s DEF IInv, OrderInv
  <2>16. StartSeqNum .. Bound(tail)' - 1 \subseteq mem'
    BY <2>9, <2>10, <1>s
  <2> QED
    BY <2>4, <2>5, <2>12, <2>14, <2>15, <2>16 DEF OrderInv
<1>10. PlaceInv'
  <2>1. \A c \in Batches : InWindow(c) =>
          InWindow(c)' \/ (pc'[c] \notin UnappliedPCs /\ Held(c)')
    BY <1>p, <1>w, <1>h, <1>n
  <2> QED
    BY <2>1, <1>p, <1>s, <1>h, <1>n, PlaceFrame
<1> QED
  BY <1>1, <1>2, <1>3, <1>4, <1>5, <1>6, <1>7, <1>8, <1>9, <1>10 DEF IInv

\* Clearing the slot of the batch taken touches no other.
LEMMA ClearSlotInv ==
  ASSUME IInv, WalInv', NEW b \in Batches, ClearSlot(b)
  PROVE  IInv'
<1>p. /\ pc[b] = "clear" /\ pc'[b] = "visible"
      /\ \A c \in Batches : c # b => pc'[c] = pc[c]
  BY TypeFacts DEF IInv, WalInv, ClearSlot, Goto
<1>s. /\ /\ head' = head /\ tail' = tail /\ op' = op /\ seq' = seq
      /\ applied' = applied /\ commitWG' = commitWG /\ fsyncWG' = fsyncWG
      /\ logSeqNum' = logSeqNum /\ visibleSeqNum' = visibleSeqNum
      /\ mem' = mem /\ ends' = ends /\ syncQ' = syncQ /\ calls' = calls
      /\ lTail' = lTail /\ lBatch' = lBatch /\ lSeq' = lSeq
  BY DEF ClearSlot, Goto, queueVars, seqVars, walVars, batchVars, localVars
<1>t. head \in Nat /\ tail \in Nat /\ \A c \in Batches : lTail[c] \in Nat
  BY TypeFacts DEF IInv, WalInv
<1>c. \A i \in Nat : Slot(i) # Slot(lTail[b]) => At(i)' = At(i)
  BY <1>t, SlotType, TypeFacts DEF IInv, WalInv, ClearSlot, At
<1>a. Window' = Window /\ \A i \in Window : i \in Nat /\ At(i)' = At(i)
  BY <1>p, <1>s, <1>t, <1>c, ClearSafe DEF Window
<1>k. QueueKept
  BY <1>s, <1>a DEF QueueKept
<1>w. \A c : InWindow(c)' <=> InWindow(c)
  BY <1>a DEF InWindow
<1>n. /\ pc'[b] \notin UnboundPCs \cup UnappliedPCs \cup UnsyncedPCs \cup IngestPCs
      /\ pc[b] \in PublishPCs /\ pc'[b] \in PublishPCs \cap QueuedPCs \cap AwaitingPCs
  BY <1>p DEF UnboundPCs, UnappliedPCs, PublishPCs, QueuedPCs, HolderPCs,
     IngestPCs, AwaitingPCs, UnsyncedPCs
<1>h. \A c \in Batches : Held(c)' <=> Held(c)
  BY <1>p, <1>s DEF Held, HolderPCs
<1>q. \A c : InSyncQ(c)' <=> InSyncQ(c)
  BY <1>s DEF InSyncQ
<1>1. CallsInv'
  BY <1>p, <1>s, <1>n, CallsFrame
<1>2. RingInv'
  <2>1. \A i \in Window' : At(i)' \in Batches /\ pc'[At(i)'] \in QueuedPCs
    BY <1>p, <1>a, <1>n DEF IInv, RingInv
  <2>2. \A i, j \in Window' : At(i)' = At(j)' => i = j
    BY <1>a DEF IInv, RingInv
  <2>3. ASSUME NEW c \in Batches, pc'[c] = "bump" PROVE At(head)' = c
    <3>1. pc[c] = "bump"
      BY <2>3, <1>p
    <3>2. Slot(head) # Slot(lTail[b]) /\ At(head) = c
      BY <3>1, <1>p, ClearSafe DEF IInv, RingInv
    <3> QED
      BY <3>2, <1>c, <1>t, <1>s DEF At
  <2>4. /\ tail <= head /\ head <= tail + SyncConcurrency
        /\ \A c \in Batches : pc'[c] \in {"store", "bump"} => head < tail + SyncConcurrency
    BY <1>p DEF IInv, RingInv
  <2> QED
    BY <1>s, <2>1, <2>2, <2>3, <2>4 DEF RingInv
<1>3. ClearInv'
  <2> SUFFICES ASSUME NEW c \in Batches, pc'[c] = "clear"
               PROVE  /\ lTail[c] < tail /\ head <= lTail[c] + SyncConcurrency
                      /\ At(lTail[c])' = lBatch[c]
                      /\ \A d \in Batches : pc'[d] = "bump" => head < lTail[c] + SyncConcurrency
    BY <1>s DEF ClearInv
  <2>1. pc[c] = "clear" /\ c # b /\ \A d \in Batches : pc'[d] = "bump" => pc[d] = "bump"
    BY <1>p
  <2>2. Slot(lTail[c]) # Slot(lTail[b])
    BY <2>1, <1>p, ClearSafe
  <2>3. At(lTail[c])' = At(lTail[c])
    BY <2>2, <1>c, <1>t, <1>s DEF At
  <2> QED
    BY <2>1, <2>3 DEF IInv, ClearInv
<1>4. LocalsInv'
  BY <1>p, <1>s, <1>k, LocalsFrame
<1>5. HeldInv'
  BY <1>p, <1>s, <1>w, <1>n, HeldFrame, WindowFacts DEF HolderPCs
<1>6. AppliedInv'
  BY <1>p, <1>s, <1>n, AppliedFrame DEF IInv, AppliedInv
<1>7. WaitInv'
  <2>1. \A c \in Batches : PublishPending(c)' => PublishPending(c)
    BY <1>p, <1>w, <1>h DEF PublishPending
  <2>2. \A c \in Batches : SyncPending(c)' => SyncPending(c)
    BY <1>p, <1>s, <1>q DEF SyncPending, UnsyncedPCs
  <2> QED
    BY <1>s, <2>1, <2>2, WaitFrame
<1>8. SyncInv'
  BY <1>p, <1>s, <1>n, WindowFacts, SyncFrame
<1>9. OrderInv'
  BY <1>p, <1>s, <1>k, <1>n, OrderFrame DEF HolderPCs
<1>10. PlaceInv'
  BY <1>p, <1>s, <1>w, <1>h, <1>n, PlaceFrame
<1> QED
  BY <1>1, <1>2, <1>3, <1>4, <1>5, <1>6, <1>7, <1>8, <1>9, <1>10 DEF IInv

\* visibleSeqNum moves up to the end of a batch before which all is applied.
LEMMA RatchetInv ==
  ASSUME IInv, WalInv', NEW b \in Batches, Ratchet(b), visibleSeqNum = lSeq[b]
  PROVE  IInv'
<1>p. /\ pc[b] = "ratchet" /\ pc'[b] = "done"
      /\ \A c \in Batches : c # b => pc'[c] = pc[c]
  BY TypeFacts DEF IInv, WalInv, Ratchet, Goto
<1>s. /\ /\ QueueSame /\ QueueKept /\ head' = head /\ tail' = tail
      /\ slots' = slots /\ op' = op /\ seq' = seq /\ applied' = applied
      /\ commitWG' = commitWG /\ fsyncWG' = fsyncWG /\ logSeqNum' = logSeqNum
      /\ mem' = mem /\ ends' = ends /\ syncQ' = syncQ /\ calls' = calls
      /\ lTail' = lTail /\ lBatch' = lBatch /\ lSeq' = lSeq
  BY QueueFrame DEF Ratchet, Goto, QueueSame, queueVars, seqVars, walVars,
     batchVars, localVars
<1>n. /\ pc'[b] \notin UnboundPCs \cup UnappliedPCs \cup UnsyncedPCs \cup IngestPCs
      /\ pc[b] \in PublishPCs /\ pc'[b] \in PublishPCs \cap QueuedPCs \cap AwaitingPCs
  BY <1>p DEF UnboundPCs, UnappliedPCs, PublishPCs, QueuedPCs, HolderPCs,
     IngestPCs, AwaitingPCs, UnsyncedPCs
<1>c. /\ visibleSeqNum' = End(lBatch[b]) /\ visibleSeqNum <= End(lBatch[b])
      /\ End(lBatch[b]) \in Nat /\ visibleSeqNum \in Nat
  <2>1. visibleSeqNum' = End(lBatch[b]) /\ visibleSeqNum <= End(lBatch[b])
    BY <1>p DEF Ratchet, IInv, OrderInv
  <2>2. lBatch[b] \in Batches /\ visibleSeqNum \in Nat
    BY <1>p, TypeFacts DEF IInv, WalInv, HolderPCs
  <2>3. End(lBatch[b]) \in Nat
    BY <2>2, EntriesFacts DEF IInv, WalInv, Typed, TypeOK
  <2> QED
    BY <2>1, <2>2, <2>3
<1>e. \A c \in Batches : End(c)' = End(c) /\ End(c) \in Nat
  BY <1>s, EntriesFacts DEF End, IInv, WalInv, Typed, TypeOK
<1>w. \A c : InWindow(c)' <=> InWindow(c)
  BY <1>s, QueueFrame
<1>h. \A c \in Batches : Held(c)' <=> Held(c)
  BY <1>p, <1>s DEF Held, HolderPCs
<1>q. \A c : InSyncQ(c)' <=> InSyncQ(c)
  BY <1>s DEF InSyncQ
<1>1. CallsInv'
  BY <1>p, <1>s, <1>n, CallsFrame
<1>2. RingInv'
  BY <1>p, <1>s, <1>n, WindowFacts, RingFrame
<1>3. ClearInv'
  BY <1>p, <1>s, ClearFrame
<1>4. LocalsInv'
  BY <1>p, <1>s, LocalsFrame
<1>5. HeldInv'
  BY <1>p, <1>s, <1>w, <1>n, HeldFrame, WindowFacts DEF HolderPCs
<1>6. AppliedInv'
  BY <1>p, <1>s, <1>n, AppliedFrame DEF IInv, AppliedInv
<1>7. WaitInv'
  <2>1. \A c \in Batches : PublishPending(c)' => PublishPending(c)
    BY <1>p, <1>w, <1>h DEF PublishPending
  <2>2. \A c \in Batches : SyncPending(c)' => SyncPending(c)
    BY <1>p, <1>s, <1>q DEF SyncPending, UnsyncedPCs
  <2> QED
    BY <1>s, <2>1, <2>2, WaitFrame
<1>8. SyncInv'
  BY <1>p, <1>s, <1>n, WindowFacts, SyncFrame
<1>9. OrderInv'
  <2>1. Window' = Window /\ \A i : At(i)' = At(i)
    BY <1>s, QueueFrame
  <2>2. \A c \in Batches : pc'[c] = "seq" <=> pc[c] = "seq"
    BY <1>p
  <2>3. \A i \in Window : At(i) \in Batches
    BY DEF IInv, RingInv
  <2>t. head \in Nat /\ tail \in Nat
    BY TypeFacts DEF IInv, WalInv
  <2>4. \A i \in Nat : i >= tail => Bound(i)' = Bound(i)
    <3> SUFFICES ASSUME NEW i \in Nat, i >= tail PROVE Bound(i)' = Bound(i)
      OBVIOUS
    <3>1. i < head => i \in Window
      BY <2>t DEF Window
    <3> QED
      BY <3>1, <2>1, <2>2, <2>3, <1>s DEF Bound
  <2>5. ASSUME NEW i \in Window', pc'[At(i)'] # "seq"
        PROVE  /\ End(At(i))' <= Bound(i + 1)'
               /\ End(At(i))' .. Bound(i + 1)' - 1 \subseteq mem'
               /\ End(At(i))' \in ends'
    <3>1. i \in Window /\ At(i)' = At(i)
      BY <2>1
    <3>2. i + 1 \in Nat /\ i + 1 >= tail /\ pc[At(i)] # "seq"
      BY <2>5, <2>2, <2>3, <3>1, <2>t DEF Window
    <3>3. End(At(i))' = End(At(i)) /\ Bound(i + 1)' = Bound(i + 1)
      BY <2>4, <3>1, <3>2, <1>s DEF End
    <3> QED
      BY <3>1, <3>2, <3>3, <1>s DEF IInv, OrderInv
  <2>6. Bound(tail)' = Bound(tail)
    BY <2>4, <2>t, <1>s DEF Bound, At
  <2>7. \A c \in Batches : pc'[c] = "seq" => tail' < head' /\ At(head - 1)' = c
    BY <2>2, <1>s DEF IInv, OrderInv, At
  <2>8. \A c \in Batches : End(lBatch[c])' = End(lBatch[c])
    BY <1>s DEF End
  <2>9. visibleSeqNum' <= Bound(tail)' /\ visibleSeqNum' \in ends'
    BY <2>6, <1>p, <1>c, <1>s DEF IInv, OrderInv, HolderPCs
  <2>10. \A c \in Batches : pc'[c] \in HolderPCs =>
           End(lBatch[c])' <= Bound(tail)' /\ End(lBatch[c])' \in ends'
    BY <2>6, <2>8, <1>p, <1>s DEF IInv, OrderInv, HolderPCs
  <2>11. \A c \in Batches : pc'[c] = "ratchet" => lSeq'[c] <= End(lBatch[c])'
    BY <2>8, <1>p, <1>s DEF IInv, OrderInv
  <2>12. ASSUME NEW c \in Batches, pc'[c] = "done"
         PROVE  End(lBatch[c])' <= visibleSeqNum'
    <3>1. CASE c = b
      BY <3>1, <2>8, <1>c
    <3>2. CASE c # b
      <4>1. pc[c] = "done" /\ lBatch[c] \in Batches
        BY <2>12, <3>2, <1>p, TypeFacts DEF IInv, WalInv, HolderPCs
      <4>2. End(lBatch[c]) <= visibleSeqNum /\ End(lBatch[c]) \in Nat
        BY <4>1, <1>e DEF IInv, OrderInv
      <4> QED
        BY <4>2, <2>8, <1>c
    <3> QED
      BY <3>1, <3>2
  <2>13. StartSeqNum .. Bound(tail)' - 1 \subseteq mem'
    BY <2>6, <1>s DEF IInv, OrderInv
  <2> QED
    BY <2>5, <2>7, <2>9, <2>10, <2>11, <2>12, <2>13 DEF OrderInv
<1>10. PlaceInv'
  <2> SUFFICES ASSUME NEW c \in Batches
               PROVE  /\ pc'[c] \in UnappliedPCs => InWindow(c)'
                      /\ pc'[c] \in PublishPCs =>
                           /\ applied'[c]
                           /\ InWindow(c)' \/ Held(c)' \/ End(c)' <= visibleSeqNum'
                      /\ pc'[c] \in {"syncwait", "returned"} => End(c)' <= visibleSeqNum'
    BY DEF PlaceInv
  <2>1. End(c) <= visibleSeqNum => End(c)' <= visibleSeqNum'
    BY <1>c, <1>e
  <2>2. /\ pc'[c] \in UnappliedPCs => pc[c] \in UnappliedPCs
        /\ pc'[c] \in PublishPCs => pc[c] \in PublishPCs
        /\ pc'[c] \in {"syncwait", "returned"} => pc[c] \in {"syncwait", "returned"}
    BY <1>p, <1>n
  <2> QED
    BY <2>1, <2>2, <1>s, <1>w, <1>h DEF IInv, PlaceInv
<1> QED
  BY <1>1, <1>2, <1>3, <1>4, <1>5, <1>6, <1>7, <1>8, <1>9, <1>10 DEF IInv

\* The batch announced is visible, and only its sync may still be awaited.
LEMMA DoneInv ==
  ASSUME IInv, WalInv', NEW b \in Batches, CommitDone(b)
  PROVE  IInv'
<1>p. /\ pc[b] = "done" /\ pc'[b] = "load"
      /\ \A c \in Batches : c # b => pc'[c] = pc[c]
  BY TypeFacts DEF IInv, WalInv, CommitDone, Goto
<1>s. /\ /\ QueueSame /\ QueueKept /\ head' = head /\ tail' = tail
      /\ slots' = slots /\ op' = op /\ seq' = seq /\ applied' = applied
      /\ fsyncWG' = fsyncWG /\ logSeqNum' = logSeqNum
      /\ visibleSeqNum' = visibleSeqNum /\ mem' = mem /\ ends' = ends
      /\ syncQ' = syncQ /\ calls' = calls /\ lTail' = lTail
      /\ lBatch' = lBatch /\ lSeq' = lSeq
  BY QueueFrame DEF CommitDone, Goto, QueueSame, queueVars, seqVars, walVars,
     batchVars, localVars
<1>n. /\ pc'[b] \notin UnboundPCs \cup UnappliedPCs \cup UnsyncedPCs \cup IngestPCs
      /\ pc[b] \in PublishPCs /\ pc'[b] \in PublishPCs \cap QueuedPCs \cap AwaitingPCs
  BY <1>p DEF UnboundPCs, UnappliedPCs, PublishPCs, QueuedPCs, HolderPCs,
     IngestPCs, AwaitingPCs, UnsyncedPCs
<1> DEFINE x == lBatch[b]
<1>c. /\ x \in Batches /\ End(x) <= visibleSeqNum
      /\ commitWG'[x] = commitWG[x] - 1 /\ commitWG[x] \in Int
      /\ \A c \in Batches : c # x => commitWG'[c] = commitWG[c]
  <2>1. x \in Batches
    BY <1>p, TypeFacts DEF IInv, WalInv, HolderPCs
  <2>2. End(x) <= visibleSeqNum
    BY <1>p DEF IInv, OrderInv
  <2> QED
    BY <2>1, <2>2, TypeFacts DEF IInv, WalInv, CommitDone
<1>h. \A c \in Batches : Held(c)' <=> Held(c) /\ c # x
  <2>1. \A d \in Batches : d # b /\ pc[d] \in HolderPCs => lBatch[d] # x
    BY <1>p DEF IInv, HeldInv, HolderPCs
  <2>2. pc'[b] \notin HolderPCs
    BY <1>p DEF HolderPCs
  <2> QED
    BY <2>1, <2>2, <1>p, <1>s DEF Held
<1>x. pc[x] \in QueuedPCs /\ ~InWindow(x) /\ Held(x)
  BY <1>p DEF IInv, HeldInv, HolderPCs, Held
<1> HIDE DEF x
<1>w. \A c : InWindow(c)' <=> InWindow(c)
  BY <1>s, QueueFrame
<1>q. \A c : InSyncQ(c)' <=> InSyncQ(c)
  BY <1>s DEF InSyncQ
<1>1. CallsInv'
  BY <1>p, <1>s, <1>n, CallsFrame
<1>2. RingInv'
  BY <1>p, <1>s, <1>n, WindowFacts, RingFrame
<1>3. ClearInv'
  BY <1>p, <1>s, ClearFrame
<1>4. LocalsInv'
  BY <1>p, <1>s, LocalsFrame
<1>5. HeldInv'
  BY <1>p, <1>s, <1>w, <1>n, HeldFrame, WindowFacts DEF HolderPCs
<1>6. AppliedInv'
  BY <1>p, <1>s, <1>n, AppliedFrame DEF IInv, AppliedInv
<1>7. WaitInv'
  <2>1. \A c \in Batches : PublishPending(c)' => PublishPending(c) /\ c # x
    <3>1. \A c \in Batches : pc'[c] \in {"enqueue", "store", "bump"} =>
            pc[c] \in {"enqueue", "store", "bump"} /\ c # x
      BY <1>p, <1>x DEF QueuedPCs, UnappliedPCs, PublishPCs, HolderPCs
    <3> QED
      BY <3>1, <1>w, <1>h, <1>x DEF PublishPending
  <2>2. \A c \in Batches : SyncPending(c)' => SyncPending(c)
    BY <1>p, <1>s, <1>q, <1>n DEF SyncPending
  <2>3. PublishPending(x)
    BY <1>x DEF PublishPending
  <2> SUFFICES ASSUME NEW c \in Batches
               PROVE  /\ PublishPending(c)' => commitWG'[c] >= 1
                      /\ SyncPending(c)' => commitWG'[c] >= 1
                      /\ PublishPending(c)' /\ SyncPending(c)' => commitWG'[c] >= 2
    BY DEF WaitInv
  <2>4. CASE c = x
    <3>1. SyncPending(x) => commitWG[x] >= 2
      BY <2>3, <1>c DEF IInv, WaitInv
    <3> QED
      BY <2>1, <2>2, <2>4, <3>1, <1>c
  <2>5. CASE c # x
    BY <2>1, <2>2, <2>5, <1>c DEF IInv, WaitInv
  <2> QED
    BY <2>4, <2>5
<1>8. SyncInv'
  BY <1>p, <1>s, <1>n, WindowFacts, SyncFrame
<1>9. OrderInv'
  BY <1>p, <1>s, <1>n, OrderFrame DEF HolderPCs
<1>10. PlaceInv'
  BY <1>p, <1>s, <1>w, <1>h, <1>c, <1>n, PlaceFrame
<1> QED
  BY <1>1, <1>2, <1>3, <1>4, <1>5, <1>6, <1>7, <1>8, <1>9, <1>10 DEF IInv

\* The call comes back when its wait group is at zero: the batch is visible.
LEMMA ReturnInv ==
  ASSUME IInv, WalInv', NEW b \in Batches, Return(b)
  PROVE  IInv'
<1>p. /\ pc[b] = "wait" /\ pc'[b] \in {"syncwait", "failed", "returned"}
      /\ \A c \in Batches : c # b => pc'[c] = pc[c]
  BY TypeFacts DEF IInv, WalInv, Return, Goto
<1>s. /\ /\ QueueSame /\ QueueKept /\ head' = head /\ tail' = tail
      /\ slots' = slots /\ op' = op /\ seq' = seq /\ applied' = applied
      /\ commitWG' = commitWG /\ fsyncWG' = fsyncWG /\ logSeqNum' = logSeqNum
      /\ visibleSeqNum' = visibleSeqNum /\ mem' = mem /\ ends' = ends
      /\ syncQ' = syncQ /\ calls' = calls
  BY QueueFrame DEF Return, Goto, QueueSame, queueVars, seqVars, walVars,
     batchVars, localVars
<1>c. /\ commitWG[b] = 0
      /\ pc'[b] = "syncwait" <=> op[b].sync = "nowait"
      /\ pc'[b] = "failed" => op[b].sync = "wait"
  BY TypeFacts DEF Return, Goto, IInv, WalInv
<1>l. \A c \in Batches : c # b => lTail'[c] = lTail[c] /\ lBatch'[c] = lBatch[c]
                                  /\ lSeq'[c] = lSeq[c]
  BY DEF Return, IInv, WalInv, Typed, TypeOK, LocalType
<1>n. /\ pc'[b] \notin UnboundPCs \cup UnappliedPCs \cup UnsyncedPCs \cup IngestPCs
      /\ pc'[b] \notin PublishPCs \cup HolderPCs
      /\ pc[b] \in PublishPCs /\ pc[b] \notin HolderPCs
  BY <1>p DEF UnboundPCs, UnappliedPCs, PublishPCs, HolderPCs, IngestPCs, UnsyncedPCs
<1>v. /\ ~InWindow(b) /\ ~Held(b) /\ End(b) <= visibleSeqNum
      /\ op[b].sync = "wait" => ~InSyncQ(b)
  BY <1>c, <1>n, WaitedFor DEF IInv, PlaceInv
<1>y. InSyncQ(b) => pc'[b] = "syncwait"
  <2>1. op[b].sync = "none" => ~InSyncQ(b)
    BY <1>p DEF IInv, SyncInv, InSyncQ
  <2>2. op[b].sync \in {"none", "wait", "nowait"}
    BY TypeFacts, OpFacts DEF IInv, WalInv, SyncModes
  <2> QED
    BY <2>1, <2>2, <1>c, <1>v
<1>h. \A c \in Batches : Held(c)' <=> Held(c)
  BY <1>p, <1>l, <1>n DEF Held
<1>w. \A c : InWindow(c)' <=> InWindow(c)
  BY <1>s, QueueFrame
<1>q. \A c : InSyncQ(c)' <=> InSyncQ(c)
  BY <1>s DEF InSyncQ
<1>1. CallsInv'
  BY <1>p, <1>s, <1>n, CallsFrame
<1>2. RingInv'
  BY <1>p, <1>s, <1>v, WindowFacts, RingFrame
<1>3. ClearInv'
  BY <1>p, <1>s, <1>l, ClearFrame
<1>4. LocalsInv'
  BY <1>p, <1>s, <1>l, LocalsFrame
<1>5. HeldInv'
  BY <1>p, <1>s, <1>l, <1>w, <1>n, <1>v, HeldFrame, WindowFacts
<1>6. AppliedInv'
  BY <1>p, <1>s, <1>n, AppliedFrame DEF IInv, AppliedInv
<1>7. WaitInv'
  <2>1. \A c \in Batches : PublishPending(c)' => PublishPending(c)
    BY <1>p, <1>w, <1>h DEF PublishPending
  <2>2. \A c \in Batches : SyncPending(c)' => SyncPending(c)
    BY <1>p, <1>s, <1>q DEF SyncPending, UnsyncedPCs
  <2> QED
    BY <1>s, <2>1, <2>2, WaitFrame
<1>8. SyncInv'
  <2>1. \A c \in Batches : InSyncQ(c) => /\ pc'[c] \in AwaitingPCs
                                         /\ pc[c] = "directwait" => pc'[c] = "directwait"
    BY <1>p, <1>y, WindowFacts DEF AwaitingPCs
  <2> QED
    BY <2>1, <1>p, <1>s, <1>c, <1>n, SyncFrame
<1>9. OrderInv'
  BY <1>p, <1>s, <1>l, <1>n, OrderFrame
<1>10. PlaceInv'
  <2> SUFFICES ASSUME NEW c \in Batches
               PROVE  /\ pc'[c] \in UnappliedPCs => InWindow(c)'
                      /\ pc'[c] \in PublishPCs =>
                           /\ applied'[c]
                           /\ InWindow(c)' \/ Held(c)' \/ End(c)' <= visibleSeqNum'
                      /\ pc'[c] \in {"syncwait", "returned"} => End(c)' <= visibleSeqNum'
    BY DEF PlaceInv
  <2>1. End(c)' = End(c)
    BY <1>s DEF End
  <2>2. CASE c = b
    BY <2>1, <2>2, <1>n, <1>v, <1>s
  <2>3. CASE c # b
    BY <2>1, <2>3, <1>p, <1>s, <1>w, <1>h DEF IInv, PlaceInv
  <2> QED
    BY <2>2, <2>3
<1> QED
  BY <1>1, <1>2, <1>3, <1>4, <1>5, <1>6, <1>7, <1>8, <1>9, <1>10 DEF IInv

-----------------------------------------------------------------------------
(***************************************************************************)
(* The invariant is inductive.                                             *)
(***************************************************************************)

\* The invariant holds at the start.
LEMMA InitInv == Init => IInv
<1> SUFFICES ASSUME Init PROVE IInv
  OBVIOUS
<1>t. StartIndex \in Nat /\ SyncConcurrency \in Nat /\ StartSeqNum \in Nat
  BY PipelineAssumption
<1>i. /\ head = StartIndex /\ tail = StartIndex /\ calls = 0 /\ mem = {}
      /\ logSeqNum = StartSeqNum /\ visibleSeqNum = StartSeqNum
      /\ ends = {StartSeqNum} /\ syncQ = <<>>
      /\ \A b \in Batches : pc[b] = "idle" /\ ~applied[b]
  BY DEF Init
<1>w. Window = {}
  BY <1>t, <1>i DEF Window
<1>n. /\ \A b : ~InWindow(b) /\ ~InSyncQ(b)
      /\ \A b \in Batches : ~Held(b)
  BY <1>i, <1>w DEF InWindow, Held, InSyncQ, HolderPCs
<1>1. WalInv
  BY InitWal
<1>2. CallsInv
  <2>1. Unbound = {}
    BY <1>i DEF Unbound, UnboundPCs
  <2>2. Cardinality(Unbound) = 0
    BY <2>1, FS_EmptySet
  <2> QED
    BY <2>2, <1>i, <1>t DEF CallsInv
<1>3. RingInv /\ ClearInv /\ LocalsInv
  BY <1>i, <1>t, <1>w DEF RingInv, ClearInv, LocalsInv
<1>4. HeldInv /\ AppliedInv
  BY <1>i DEF HeldInv, AppliedInv, HolderPCs
<1>5. WaitInv
  BY <1>i, <1>n DEF WaitInv, PublishPending, SyncPending, UnsyncedPCs
<1>6. SyncInv
  <2>1. Len(syncQ) = 0
    BY <1>i
  <2> QED
    BY <2>1, <1>i DEF SyncInv, IngestPCs, UnsyncedPCs
<1>7. OrderInv
  <2>1. Bound(tail) = StartSeqNum
    BY <1>i, <1>t DEF Bound
  <2>2. StartSeqNum .. StartSeqNum - 1 = {}
    BY <1>t
  <2> QED
    BY <2>1, <2>2, <1>i, <1>t, <1>w DEF OrderInv, HolderPCs
<1>8. PlaceInv
  BY <1>i DEF PlaceInv, UnappliedPCs, PublishPCs, HolderPCs
<1> QED
  BY <1>1, <1>2, <1>3, <1>4, <1>5, <1>6, <1>7, <1>8 DEF IInv

\* The steps that are plain moves.
LEMMA EnterPlain ==
  ASSUME IInv, NEW b \in Batches,
         \/ AcquireIngestSem(b) \/ AcquireCommitQueueSem(b) \/ AcquireLogSyncQSem(b)
         \/ RefuseInvalidBatch(b) \/ Drain(b) \/ IngestPrepare(b)
         \/ WriteFails(b) \/ ApplyFails(b)
  PROVE  \E from, to : PlainStep(b, from, to)
<1>1. CASE AcquireIngestSem(b)
  <2>1. PlainStep(b, "ingestsem", "sem")
    BY <1>1 DEF PlainStep, PlainMove, RestSame, QueueSame, HolderPCs,
       AcquireIngestSem,
       Goto, queueVars, seqVars, walVars, batchVars, localVars
  <2> QED
    BY <2>1
<1>2. CASE AcquireCommitQueueSem(b)
  <2> DEFINE to == IF op[b].sync = "none" THEN "lock" ELSE "syncsem"
  <2>1. PlainStep(b, "sem", to)
    BY <1>2 DEF PlainStep, PlainMove, RestSame, QueueSame, HolderPCs,
       AcquireCommitQueueSem, Goto, queueVars, seqVars, walVars, batchVars, localVars
  <2> QED
    BY <2>1
<1>3. CASE AcquireLogSyncQSem(b)
  <2>1. PlainStep(b, "syncsem", "lock")
    BY <1>3 DEF PlainStep, PlainMove, RestSame, QueueSame, HolderPCs,
       AcquireLogSyncQSem,
       Goto, queueVars, seqVars, walVars, batchVars, localVars
  <2> QED
    BY <2>1
<1>4. CASE RefuseInvalidBatch(b)
  <2>1. PlainStep(b, "lock", "failed")
    BY <1>4 DEF PlainStep, PlainMove, RestSame, QueueSame, HolderPCs,
       RefuseInvalidBatch,
       Goto, queueVars, seqVars, walVars, batchVars, localVars
  <2> QED
    BY <2>1
<1>5. CASE Drain(b)
  <2>1. PlainStep(b, "drain", "prepare")
    BY <1>5 DEF PlainStep, PlainMove, RestSame, QueueSame, HolderPCs, Drain,
       Goto, queueVars, seqVars, walVars, batchVars, localVars
  <2> QED
    BY <2>1
<1>6. CASE IngestPrepare(b)
  <2>1. PlainStep(b, "prepare", "apply") \/ PlainStep(b, "prepare", "directsem")
    BY <1>6 DEF PlainStep, PlainMove, RestSame, QueueSame, HolderPCs, IngestPrepare,
       Goto, queueVars, seqVars, walVars, batchVars, localVars
  <2> QED
    BY <2>1
<1>7. CASE WriteFails(b)
  <2>1. PlainStep(b, "write", "failed")
    BY <1>7 DEF PlainStep, PlainMove, RestSame, QueueSame, HolderPCs, WriteFails,
       Goto, queueVars, seqVars, walVars, batchVars, localVars
  <2> QED
    BY <2>1
<1>8. CASE ApplyFails(b)
  <2>1. PlainStep(b, "apply", "failed")
    BY <1>8 DEF PlainStep, PlainMove, RestSame, QueueSame, HolderPCs, ApplyFails,
       Goto, queueVars, seqVars, walVars, batchVars, localVars
  <2> QED
    BY <2>1
<1> QED
  BY <1>1, <1>2, <1>3, <1>4, <1>5, <1>6, <1>7, <1>8

\* So are the steps of publish that find nothing, or that only load.
LEMMA PublishPlain ==
  ASSUME IInv, NEW b \in Batches,
         \/ LoadHeadTail(b) \/ LoadSlot(b) \/ LoadApplied(b) \/ LoadVisible(b)
         \/ SyncWait(b) \/ DirectWait(b)
         \/ CompareAndSwapTail(b) /\ pc'[b] = "load"
         \/ Ratchet(b) /\ visibleSeqNum # lSeq[b]
  PROVE  \E from, to : PlainStep(b, from, to)
<1>t. /\ head \in Nat /\ tail \in Nat /\ lTail \in [Batches -> Nat]
      /\ lBatch \in [Batches -> Batches \cup {NoBatch}] /\ pc \in [Batches -> PCs]
      /\ lSeq \in [Batches -> Nat]
  BY TypeFacts DEF IInv, WalInv, Typed, TypeOK, LocalType
<1>1. CASE LoadHeadTail(b)
  <2> DEFINE to == IF Index(tail) = Index(head) THEN "wait" ELSE "slot"
  <2>1. to = "slot" => StartIndex <= tail /\ tail < head
    <3>1. tail <= head /\ StartIndex <= tail
      BY DEF IInv, RingInv, CallsInv
    <3> QED
      BY <3>1, <1>t
  <2>2. RestSame /\ Goto(b, "load", to) /\ PlainMove("load", to)
    BY <1>1 DEF PlainMove, RestSame, QueueSame, LoadHeadTail, queueVars,
       seqVars, walVars,
       batchVars
  <2>3. /\ lTail'[b] = tail /\ lBatch' = lBatch /\ lSeq' = lSeq
        /\ \A c \in Batches \ {b} : lTail'[c] = lTail[c]
    BY <1>1, <1>t DEF LoadHeadTail
  <2>4. PlainStep(b, "load", to)
    BY <2>1, <2>2, <2>3, <1>t DEF PlainStep, HolderPCs
  <2> QED
    BY <2>4
<1>2. CASE LoadSlot(b)
  <2> DEFINE to == IF slots[Slot(lTail[b])] = NoBatch THEN "wait" ELSE "check"
  <2>1. /\ StartIndex <= lTail[b] /\ lTail[b] <= tail
        /\ lTail[b] = tail => tail < head
    BY <1>2 DEF IInv, LocalsInv, LoadSlot, Goto
  <2>2. RestSame /\ Goto(b, "slot", to) /\ PlainMove("slot", to)
    BY <1>2 DEF PlainMove, RestSame, QueueSame, LoadSlot, queueVars, seqVars, walVars,
       batchVars
  <2>3. /\ lTail' = lTail /\ lSeq' = lSeq /\ lBatch'[b] = At(lTail[b])
        /\ \A c \in Batches \ {b} : lBatch'[c] = lBatch[c]
    BY <1>2, <1>t DEF LoadSlot, At
  <2>4. PlainStep(b, "slot", to)
    BY <2>1, <2>2, <2>3 DEF PlainStep, HolderPCs
  <2> QED
    BY <2>4
<1>3. CASE LoadApplied(b)
  <2> DEFINE to == IF applied[lBatch[b]] THEN "cas" ELSE "wait"
  <2>1. /\ StartIndex <= lTail[b] /\ lTail[b] <= tail
        /\ lTail[b] = tail => tail < head /\ lBatch[b] = At(tail)
    BY <1>3 DEF IInv, LocalsInv, LoadApplied, Goto
  <2>2. RestSame /\ Goto(b, "check", to) /\ PlainMove("check", to)
    BY <1>3 DEF PlainMove, RestSame, QueueSame, LoadApplied, queueVars,
       seqVars, walVars,
       batchVars
  <2>3. lTail' = lTail /\ lBatch' = lBatch /\ lSeq' = lSeq
    BY <1>3 DEF LoadApplied, localVars
  <2>4. PlainStep(b, "check", to)
    BY <2>1, <2>2, <2>3 DEF PlainStep, HolderPCs
  <2> QED
    BY <2>4
<1>4. CASE LoadVisible(b)
  <2> DEFINE to == IF End(lBatch[b]) <= visibleSeqNum THEN "done" ELSE "ratchet"
  <2>1. End(lBatch[b]) \in Nat /\ visibleSeqNum \in Nat
    <3>1. lBatch[b] \in Batches
      BY <1>4, TypeFacts DEF LoadVisible, Goto, HolderPCs, IInv, WalInv
    <3> QED
      BY <3>1, EntriesFacts, TypeFacts DEF IInv, WalInv, Typed, TypeOK
  <2>2. RestSame /\ Goto(b, "visible", to) /\ PlainMove("visible", to)
    BY <1>4 DEF PlainMove, RestSame, QueueSame, LoadVisible, queueVars,
       seqVars, walVars,
       batchVars
  <2>3. /\ lTail' = lTail /\ lBatch' = lBatch /\ lSeq'[b] = visibleSeqNum
        /\ \A c \in Batches \ {b} : lSeq'[c] = lSeq[c]
    BY <1>4, <1>t DEF LoadVisible
  <2>4. PlainStep(b, "visible", to)
    BY <2>1, <2>2, <2>3 DEF PlainStep, HolderPCs
  <2> QED
    BY <2>4
<1>5. CASE SyncWait(b)
  <2> DEFINE to == IF commitErr[b] THEN "aborted" ELSE "returned"
  <2>1. PlainStep(b, "syncwait", to)
    BY <1>5 DEF PlainStep, PlainMove, RestSame, QueueSame, HolderPCs, SyncWait,
       Goto, queueVars, seqVars, walVars, batchVars, localVars
  <2> QED
    BY <2>1
<1>6. CASE DirectWait(b)
  <2>1. PlainStep(b, "directwait", "apply") \/ PlainStep(b, "directwait", "failed")
    BY <1>6 DEF PlainStep, PlainMove, RestSame, QueueSame, HolderPCs, DirectWait,
       Goto, queueVars, seqVars, walVars, batchVars, localVars
  <2> QED
    BY <2>1
<1>7. CASE CompareAndSwapTail(b) /\ pc'[b] = "load"
  <2>1. Goto(b, "cas", "load") /\ tail' = tail
    BY <1>7, <1>t DEF CompareAndSwapTail, Goto
  <2>2. PlainStep(b, "cas", "load")
    BY <1>7, <2>1 DEF PlainStep, PlainMove, RestSame, QueueSame, HolderPCs,
       CompareAndSwapTail, seqVars, walVars, batchVars, localVars
  <2> QED
    BY <2>2
<1>8. CASE Ratchet(b) /\ visibleSeqNum # lSeq[b]
  <2>1. PlainStep(b, "ratchet", "visible")
    BY <1>8 DEF PlainStep, PlainMove, RestSame, QueueSame, HolderPCs, Ratchet,
       Goto, queueVars, walVars, batchVars, localVars
  <2> QED
    BY <2>1
<1> QED
  BY <1>1, <1>2, <1>3, <1>4, <1>5, <1>6, <1>7, <1>8

\* The check of enqueue compares indexes modulo IndexMod; the queue never
\* holds more than SyncConcurrency batches, so it is exact.
LEMMA CheckInv ==
  ASSUME IInv, WalInv', NEW b \in Batches, EnqueueCheck(b)
  PROVE  IInv'
<1>s. /\ RestSame /\ lTail' = lTail /\ lBatch' = lBatch /\ lSeq' = lSeq
  BY DEF EnqueueCheck, RestSame, QueueSame, queueVars, seqVars, walVars, batchVars,
     localVars
<1>1. CASE pc' = pc
  BY <1>1, <1>s, StutterInv
<1>2. CASE /\ Index(tail + SyncConcurrency) # Index(head)
           /\ pc[b] = "enqueue" /\ pc' = [pc EXCEPT ![b] = "store"]
  <2>1. head \in Nat /\ tail \in Nat /\ SyncConcurrency \in Nat
    BY TypeFacts, PipelineAssumption DEF IInv, WalInv
  <2>2. head <= tail + SyncConcurrency
    BY DEF IInv, RingInv
  <2>3. head # tail + SyncConcurrency
    BY <1>2
  <2>4. PlainStep(b, "enqueue", "store")
    BY <1>2, <1>s, <2>1, <2>2, <2>3 DEF PlainStep, PlainMove, Goto, HolderPCs
  <2> QED
    BY <2>4, PlainInv
<1> QED
  BY <1>1, <1>2 DEF EnqueueCheck

\* One step per action; the plain moves and what changes nothing together.
LEMMA NextInv == IInv /\ [Next]_vars => IInv'
<1> SUFFICES ASSUME IInv, [Next]_vars PROVE IInv'
  OBVIOUS
<1>0. WalInv'
  BY NextWal DEF IInv
<1>1. ASSUME NEW b \in Batches, NEW o \in Ops, Begin(b, o) PROVE IInv'
  BY <1>0, <1>1, BeginInv
<1>2. ASSUME NEW b \in Batches,
             \/ AcquireIngestSem(b) \/ AcquireCommitQueueSem(b) \/ AcquireLogSyncQSem(b)
             \/ RefuseInvalidBatch(b) \/ Drain(b) \/ IngestPrepare(b)
             \/ WriteFails(b) \/ ApplyFails(b)
      PROVE  IInv'
  <2>1. PICK from, to : PlainStep(b, from, to)
    BY <1>2, EnterPlain
  <2> QED
    BY <1>0, <2>1, PlainInv
<1>3. ASSUME NEW b \in Batches,
             \/ LoadHeadTail(b) \/ LoadSlot(b) \/ LoadApplied(b) \/ LoadVisible(b)
             \/ SyncWait(b) \/ DirectWait(b)
             \/ CompareAndSwapTail(b) /\ pc'[b] = "load"
             \/ Ratchet(b) /\ visibleSeqNum # lSeq[b]
      PROVE  IInv'
  <2>1. PICK from, to : PlainStep(b, from, to)
    BY <1>3, PublishPlain
  <2> QED
    BY <1>0, <2>1, PlainInv
<1>4. ASSUME NEW b \in Batches, Lock(b) \/ EnqueueCheck(b) \/ EnqueueStore(b) \/ EnqueueBump(b)
      PROVE  IInv'
  BY <1>0, <1>4, LockInv, CheckInv, StoreInv, BumpInv
<1>5. ASSUME NEW b \in Batches, AssignSeqNum(b) \/ Write(b) \/ DirectAcquire(b) \/ DirectWrite(b)
      PROVE  IInv'
  BY <1>0, <1>5, AssignInv, WriteInv, DirectAcquireInv, DirectWriteInv
<1>6. ASSUME NEW b \in Batches, Apply(b) \/ Fatal(b) PROVE IInv'
  <2>1. /\ RestSame /\ pc' = pc /\ lTail' = lTail /\ lBatch' = lBatch /\ lSeq' = lSeq
    BY <1>6 DEF Apply, Fatal, RestSame, QueueSame, queueVars, seqVars, walVars,
       batchVars,
       localVars
  <2> QED
    BY <1>0, <2>1, StutterInv
<1>7. ASSUME NEW b \in Batches, MarkApplied(b) \/ ClearSlot(b) \/ CommitDone(b) \/ Return(b)
      PROVE  IInv'
  BY <1>0, <1>7, MarkInv, ClearSlotInv, DoneInv, ReturnInv
<1>8. ASSUME NEW b \in Batches, CompareAndSwapTail(b) PROVE IInv'
  <2>1. CASE Index(head) = Index(lHead[b]) /\ Index(tail) = Index(lTail[b])
    BY <1>0, <1>8, <2>1, SwapInv
  <2>2. CASE ~(Index(head) = Index(lHead[b]) /\ Index(tail) = Index(lTail[b]))
    <3>1. pc'[b] = "load"
      BY <1>8, <2>2, TypeFacts DEF CompareAndSwapTail, Goto, IInv, WalInv
    <3> QED
      BY <1>3, <1>8, <3>1
  <2> QED
    BY <2>1, <2>2
<1>9. ASSUME NEW b \in Batches, Ratchet(b) PROVE IInv'
  <2>1. CASE visibleSeqNum = lSeq[b]
    BY <1>0, <1>9, <2>1, RatchetInv
  <2>2. CASE visibleSeqNum # lSeq[b]
    BY <1>3, <1>9, <2>2
  <2> QED
    BY <2>1, <2>2
<1>10. CASE LogPop
  BY <1>0, <1>10, PopInv
<1>11. CASE LogSync \/ LogRelease \/ LogFail \/ UNCHANGED vars
  <2>1. /\ RestSame /\ pc' = pc /\ lTail' = lTail /\ lBatch' = lBatch /\ lSeq' = lSeq
    BY <1>11 DEF LogSync, LogRelease, LogFail, vars, RestSame, QueueSame, queueVars,
       seqVars, walVars, batchVars, localVars
  <2> QED
    BY <1>0, <2>1, StutterInv
<1> QED
  BY <1>1, <1>2, <1>3, <1>4, <1>5, <1>6, <1>7, <1>8, <1>9, <1>10, <1>11
  DEF Next, CommitStep, PublishStep, Fault, LogStep, Finished

\* The inductive invariant holds in every state the pipeline reaches.
LEMMA InvAlways == Spec => []IInv
<1>1. Init => IInv
  BY InitInv
<1>2. IInv /\ [Next]_vars => IInv'
  BY NextInv
<1> QED
  BY <1>1, <1>2, PTL DEF Spec

-----------------------------------------------------------------------------
(***************************************************************************)
(* What the pipeline promises to readers and to callers.                   *)
(***************************************************************************)

\* In a state of the invariant a read at visibleSeqNum sees whole applied batches.
LEMMA ReadWhole ==
  ASSUME IInv
  PROVE  ReadPrefix
<1>1. /\ StartSeqNum .. Bound(tail) - 1 \subseteq mem
      /\ visibleSeqNum <= Bound(tail) /\ visibleSeqNum \in ends
  BY DEF IInv, OrderInv
<1>2. visibleSeqNum \in Nat /\ StartSeqNum \in Nat /\ Bound(tail) \in Nat
  <2>1. /\ head \in Nat /\ tail \in Nat /\ logSeqNum \in Nat
        /\ seq \in [Batches -> Nat] /\ visibleSeqNum \in Nat
    BY TypeFacts DEF IInv, WalInv
  <2>2. tail < head => At(tail) \in Batches
    BY <2>1 DEF IInv, RingInv, Window
  <2> QED
    BY <2>1, <2>2, PipelineAssumption DEF Bound
<1> QED
  BY <1>1, <1>2 DEF ReadPrefix

\* Every sequence number below visibleSeqNum has been applied and
\* visibleSeqNum is the end of a batch, whichever goroutine published it and
\* in whatever order batches were applied: invariant 2 of the comment on
\* commitPipeline, "Batches need to be made visible for reads in sequence
\* number order".
THEOREM ReadsAreWhole == Spec => []ReadPrefix
<1>1. IInv => ReadPrefix
  BY ReadWhole
<1> QED
  BY <1>1, InvAlways, PTL

\* A call that has come back, from Commit or from SyncWait, is visible to
\* reads, although another goroutine may have published its batch.
THEOREM ReturnsAreVisible == Spec => []ReturnedVisible
<1>1. IInv => ReturnedVisible
  BY DEF IInv, PlaceInv, ReturnedVisible
<1> QED
  BY <1>1, InvAlways, PTL

-----------------------------------------------------------------------------
(***************************************************************************)
(* CommitPipeline implements CommitContract: the initial states map to     *)
(* initial states, and every step to a step of the contract or a stutter.  *)
(***************************************************************************)

\* Where a call is, as its caller sees it.
OutPCs == {"idle", "syncwait", "returned", "aborted"}
CalledPCs == {"ingestsem", "sem", "syncsem", "lock", "enqueue", "store", "bump",
              "seq"}

\* What a caller can tell from where its goroutine is, before and after a step.
LEMMA StatusFacts ==
  ASSUME NEW b
  PROVE  /\ pc[b] \in OutPCs => CallStatus(b) = "out"
         /\ pc[b] \in CalledPCs => CallStatus(b) = "called"
         /\ pc[b] = "failed" => CallStatus(b) = "broken"
         /\ pc[b] \notin OutPCs \cup CalledPCs \cup {"failed"} => CallStatus(b) = "sequenced"
         /\ pc'[b] \in OutPCs => CallStatus(b)' = "out"
         /\ pc'[b] \in CalledPCs => CallStatus(b)' = "called"
         /\ pc'[b] = "failed" => CallStatus(b)' = "broken"
         /\ pc'[b] \notin OutPCs \cup CalledPCs \cup {"failed"} => CallStatus(b)' = "sequenced"
BY DEF CallStatus, OutPCs, CalledPCs

\* The sequence numbers of a call are known once it is sequenced, and not before.
LEMMA RangeFacts ==
  ASSUME NEW b
  PROVE  /\ CallStatus(b) = "sequenced" => CallRange(b) = [first |-> seq[b], end |-> End(b)]
         /\ CallStatus(b) # "sequenced" => CallRange(b) = [first |-> 0, end |-> 0]
         /\ CallStatus(b)' = "sequenced" => CallRange(b)' = [first |-> seq'[b], end |-> End(b)']
         /\ CallStatus(b)' # "sequenced" => CallRange(b)' = [first |-> 0, end |-> 0]
BY DEF CallRange

\* What the step of one goroutine does to the calls.
LEMMA OneCall ==
  ASSUME NEW b \in Batches,
         \A c \in Batches : c # b => pc'[c] = pc[c] /\ seq'[c] = seq[c] /\ op'[c] = op[c]
  PROVE  /\ [c \in Batches |-> CallStatus(c)'] =
              [[c \in Batches |-> CallStatus(c)] EXCEPT ![b] = CallStatus(b)']
         /\ [c \in Batches |-> CallRange(c)'] =
              [[c \in Batches |-> CallRange(c)] EXCEPT ![b] = CallRange(b)']
<1>1. \A c \in Batches : c # b => CallStatus(c)' = CallStatus(c)
  BY DEF CallStatus
<1>2. \A c \in Batches : c # b => CallRange(c)' = CallRange(c)
  BY <1>1 DEF CallRange, End
<1> QED
  BY <1>1, <1>2

\* A step that leaves every call where it is, for its caller.
LEMMA QuietStep ==
  ASSUME logSeqNum' = logSeqNum, visibleSeqNum' = visibleSeqNum, mem' = mem,
         ends' = ends,
         \A c \in Batches : /\ CallStatus(c)' = CallStatus(c)
                            /\ CallRange(c)' = CallRange(c)
  PROVE  UNCHANGED Contract!vars
BY DEF Contract!vars

\* A goroutine that moves within its class.
LEMMA QuietMove ==
  ASSUME NEW b \in Batches, logSeqNum' = logSeqNum, visibleSeqNum' = visibleSeqNum,
         mem' = mem, ends' = ends, seq' = seq, op' = op,
         \A c \in Batches : c # b => pc'[c] = pc[c],
         \/ pc[b] \in OutPCs /\ pc'[b] \in OutPCs
         \/ pc[b] \in CalledPCs /\ pc'[b] \in CalledPCs
         \/ /\ pc[b] \notin OutPCs \cup CalledPCs \cup {"failed"}
            /\ pc'[b] \notin OutPCs \cup CalledPCs \cup {"failed"}
         \/ pc'[b] = pc[b]
  PROVE  UNCHANGED Contract!vars
<1>1. \A c \in Batches : CallStatus(c)' = CallStatus(c)
  <2>1. ASSUME NEW c \in Batches, c # b PROVE CallStatus(c)' = CallStatus(c)
    BY <2>1 DEF CallStatus
  <2>2. CallStatus(b)' = CallStatus(b)
    <3>1. CASE pc'[b] = pc[b]
      BY <3>1 DEF CallStatus
    <3>2. CASE pc'[b] # pc[b]
      BY <3>2, StatusFacts
    <3> QED
      BY <3>1, <3>2
  <2> QED
    BY <2>1, <2>2
<1>2. \A c \in Batches : CallRange(c)' = CallRange(c)
  BY <1>1 DEF CallRange, End
<1> QED
  BY <1>1, <1>2, QuietStep

\* A call that meets an error.
LEMMA BreakMove ==
  ASSUME NEW b \in Batches, logSeqNum' = logSeqNum, visibleSeqNum' = visibleSeqNum,
         mem' = mem, ends' = ends, seq' = seq, op' = op,
         \A c \in Batches : c # b => pc'[c] = pc[c],
         pc[b] \notin OutPCs \cup {"failed"}, pc'[b] = "failed"
  PROVE  Contract!Break(b)
<1>1. CallStatus(b) \in {"called", "sequenced"} /\ CallStatus(b)' = "broken"
  BY StatusFacts
<1>2. CallRange(b)' = [first |-> 0, end |-> 0]
  BY <1>1, RangeFacts
<1> QED
  BY <1>1, <1>2, OneCall DEF Contract!Break, Contract!NoRange

\* A sequenced call that applies some of its entries.
LEMMA ApplyMove ==
  ASSUME NEW b \in Batches, logSeqNum' = logSeqNum, visibleSeqNum' = visibleSeqNum,
         ends' = ends, seq' = seq, op' = op, BatchType,
         mem \subseteq mem', mem' \ mem \subseteq Entries(b),
         \A c \in Batches : c # b => pc'[c] = pc[c],
         pc[b] \notin OutPCs \cup CalledPCs \cup {"failed"},
         pc'[b] \notin OutPCs \cup CalledPCs \cup {"failed"}
  PROVE  Contract!Apply(b)
<1>1. CallStatus(b) = "sequenced" /\ CallStatus(b)' = "sequenced"
  BY StatusFacts
<1>2. \A c \in Batches : CallStatus(c)' = CallStatus(c)
  <2>1. ASSUME NEW c \in Batches, c # b PROVE CallStatus(c)' = CallStatus(c)
    BY <2>1 DEF CallStatus
  <2> QED
    BY <1>1, <2>1
<1>3. \A c \in Batches : CallRange(c)' = CallRange(c)
  BY <1>2 DEF CallRange, End
<1>4. CallRange(b).first = seq[b] /\ CallRange(b).end = End(b)
  BY <1>1, RangeFacts
<1>5. Entries(b) = seq[b] .. End(b) - 1
  <2>1. seq[b] \in Nat /\ op[b].n \in Nat
    BY OpFacts DEF BatchType
  <2>2. seq[b] + op[b].n - 1 = (seq[b] + op[b].n) - 1
    BY <2>1
  <2> QED
    BY <2>2 DEF Entries, End
<1> QED
  BY <1>1, <1>2, <1>3, <1>4, <1>5 DEF Contract!Apply

\* The pipeline starts as the contract does: no call, nothing given out.
LEMMA InitContract == Init => Contract!Init
<1> SUFFICES ASSUME Init PROVE Contract!Init
  OBVIOUS
<1>1. \A b \in Batches : CallStatus(b) = "out"
  BY StatusFacts DEF Init, OutPCs
<1>2. \A b \in Batches : CallRange(b) = [first |-> 0, end |-> 0]
  BY <1>1, RangeFacts
<1> QED
  BY <1>1, <1>2 DEF Init, Contract!Init, Contract!NoRange

\* One step per action, to the step of the contract it is.
LEMMA NextContract == IInv /\ [Next]_vars => [Contract!Next]_(Contract!vars)
<1> SUFFICES ASSUME IInv, [Next]_vars PROVE Contract!Next \/ UNCHANGED Contract!vars
  OBVIOUS
<1>t. /\ BatchType /\ pc \in [Batches -> PCs] /\ seq \in [Batches -> Nat]
      /\ op \in [Batches -> OpType] /\ logSeqNum \in Nat /\ visibleSeqNum \in Nat
  BY TypeFacts DEF IInv, WalInv, Typed, TypeOK
<1>1. ASSUME NEW b \in Batches, NEW o \in Ops, Begin(b, o) PROVE Contract!Call(b)
  <2>1. /\ CallStatus(b) = "out" /\ CallStatus(b)' = "called"
    BY <1>1, <1>t, StatusFacts DEF Begin, OutPCs, CalledPCs
  <2>2. CallRange(b) = [first |-> 0, end |-> 0] /\ CallRange(b)' = [first |-> 0, end |-> 0]
    BY <2>1, RangeFacts
  <2>3. \A c \in Batches : c # b => pc'[c] = pc[c] /\ seq'[c] = seq[c] /\ op'[c] = op[c]
    BY <1>1, <1>t DEF Begin
  <2>4. [c \in Batches |-> CallRange(c)'] = [c \in Batches |-> CallRange(c)]
    BY <2>2, <2>3, OneCall
  <2> QED
    BY <1>1, <2>1, <2>3, <2>4, OneCall DEF Begin, Contract!Call, seqVars
<1>2. ASSUME NEW b \in Batches,
             \/ AcquireIngestSem(b) \/ AcquireCommitQueueSem(b) \/ AcquireLogSyncQSem(b)
             \/ Lock(b) \/ EnqueueCheck(b) \/ EnqueueStore(b) \/ EnqueueBump(b)
      PROVE  UNCHANGED Contract!vars
  <2>1. /\ logSeqNum' = logSeqNum /\ visibleSeqNum' = visibleSeqNum /\ mem' = mem
        /\ ends' = ends /\ seq' = seq /\ op' = op
    BY <1>2 DEF AcquireIngestSem, AcquireCommitQueueSem, AcquireLogSyncQSem, Lock,
       EnqueueCheck, EnqueueStore, EnqueueBump, seqVars, batchVars
  <2>2. /\ \A c \in Batches : c # b => pc'[c] = pc[c]
        /\ pc[b] \in CalledPCs /\ pc'[b] \in CalledPCs
    BY <1>2, <1>t DEF AcquireIngestSem, AcquireCommitQueueSem, AcquireLogSyncQSem, Lock,
       EnqueueCheck, EnqueueStore, EnqueueBump, Goto, CalledPCs
  <2> QED
    BY <2>1, <2>2, QuietMove
<1>3. ASSUME NEW b \in Batches, RefuseInvalidBatch(b) \/ WriteFails(b) \/ ApplyFails(b)
      PROVE  Contract!Break(b)
  <2>1. /\ logSeqNum' = logSeqNum /\ visibleSeqNum' = visibleSeqNum /\ mem' = mem
        /\ ends' = ends /\ seq' = seq /\ op' = op
    BY <1>3 DEF RefuseInvalidBatch, WriteFails, ApplyFails, seqVars, batchVars
  <2>2. /\ \A c \in Batches : c # b => pc'[c] = pc[c]
        /\ pc[b] \notin OutPCs \cup {"failed"} /\ pc'[b] = "failed"
    BY <1>3, <1>t DEF RefuseInvalidBatch, WriteFails, ApplyFails, Goto, OutPCs
  <2> QED
    BY <2>1, <2>2, BreakMove
<1>4. ASSUME NEW b \in Batches, AssignSeqNum(b) PROVE Contract!Sequence(b)
  <2> DEFINE f == IF IsIngest(b) /\ logSeqNum = 0 THEN 1 ELSE logSeqNum
  <2>1. /\ CallStatus(b) = "called" /\ CallStatus(b)' = "sequenced"
    <3>1. pc[b] = "seq" /\ pc'[b] \in {"drain", "write"}
      BY <1>4, <1>t DEF AssignSeqNum, Goto
    <3> QED
      BY <3>1, StatusFacts DEF OutPCs, CalledPCs
  <2>2. /\ logSeqNum' = f + op[b].n /\ seq' = [seq EXCEPT ![b] = f] /\ op' = op
        /\ ends' = ends \cup {f + op[b].n} /\ mem' = mem \cup (logSeqNum .. f - 1)
        /\ visibleSeqNum' = visibleSeqNum
        /\ pc' = [pc EXCEPT ![b] = IF IsIngest(b) THEN "drain" ELSE "write"]
    BY <1>4 DEF AssignSeqNum, Goto
  <2>3. op[b].n \in Nat /\ f \in Nat
    BY <1>t, OpFacts
  <2>4. f \in {logSeqNum} \cup (IF logSeqNum = 0 THEN {1} ELSE {})
    OBVIOUS
  <2> HIDE DEF f
  <2>5. CallRange(b)' = [first |-> f, end |-> logSeqNum']
    <3>1. seq'[b] = f /\ End(b)' = logSeqNum'
      BY <2>2, <1>t DEF End
    <3> QED
      BY <3>1, <2>1, RangeFacts
  <2>6. \A c \in Batches : c # b => pc'[c] = pc[c] /\ seq'[c] = seq[c] /\ op'[c] = op[c]
    BY <2>2, <1>t
  <2>7. logSeqNum' >= f
    BY <2>2, <2>3
  <2>8. ends' = ends \cup {logSeqNum'}
    BY <2>2
  <2> QED
    BY <2>1, <2>2, <2>4, <2>5, <2>6, <2>7, <2>8, OneCall DEF Contract!Sequence
<1>5. ASSUME NEW b \in Batches, Write(b) PROVE Contract!Apply(b)
  <2>1. /\ logSeqNum' = logSeqNum /\ visibleSeqNum' = visibleSeqNum /\ ends' = ends
        /\ seq' = seq /\ op' = op
    BY <1>5 DEF Write, batchVars
  <2>2. mem \subseteq mem' /\ mem' \ mem \subseteq Entries(b)
    BY <1>5 DEF Write
  <2>3. /\ \A c \in Batches : c # b => pc'[c] = pc[c]
        /\ pc[b] \notin OutPCs \cup CalledPCs \cup {"failed"}
        /\ pc'[b] \notin OutPCs \cup CalledPCs \cup {"failed"}
    BY <1>5, <1>t DEF Write, Goto, OutPCs, CalledPCs
  <2> QED
    BY <2>1, <2>2, <2>3, <1>t, ApplyMove
<1>6. ASSUME NEW b \in Batches, Apply(b) PROVE Contract!Apply(b)
  <2>1. /\ logSeqNum' = logSeqNum /\ visibleSeqNum' = visibleSeqNum /\ ends' = ends
        /\ seq' = seq /\ op' = op /\ pc' = pc
    BY <1>6 DEF Apply, batchVars
  <2>2. mem \subseteq mem' /\ mem' \ mem \subseteq Entries(b)
    BY <1>6 DEF Apply
  <2>3. pc[b] \notin OutPCs \cup CalledPCs \cup {"failed"}
    BY <1>6 DEF Apply, OutPCs, CalledPCs
  <2> QED
    BY <2>1, <2>2, <2>3, <1>t, ApplyMove
<1>7. ASSUME NEW b \in Batches, DirectWait(b) PROVE Contract!Apply(b) \/ Contract!Break(b)
  <2>1. /\ logSeqNum' = logSeqNum /\ visibleSeqNum' = visibleSeqNum /\ ends' = ends
        /\ seq' = seq /\ op' = op
        /\ \A c \in Batches : c # b => pc'[c] = pc[c]
        /\ pc[b] \notin OutPCs \cup CalledPCs \cup {"failed"}
    BY <1>7, <1>t DEF DirectWait, Goto, batchVars, OutPCs, CalledPCs
  <2>2. CASE commitErr[b]
    <3>1. mem' = mem /\ pc'[b] = "failed"
      BY <1>7, <2>2, <1>t DEF DirectWait, Goto
    <3> QED
      BY <2>1, <3>1, BreakMove
  <2>3. CASE ~commitErr[b]
    <3>1. mem' = mem \cup Entries(b) /\ pc'[b] = "apply"
      BY <1>7, <2>3, <1>t DEF DirectWait, Goto
    <3>2. pc'[b] \notin OutPCs \cup CalledPCs \cup {"failed"}
      BY <3>1 DEF OutPCs, CalledPCs
    <3>3. mem \subseteq mem' /\ mem' \ mem \subseteq Entries(b)
      BY <3>1
    <3> QED
      BY <2>1, <3>2, <3>3, <1>t, ApplyMove
  <2> QED
    BY <2>2, <2>3
<1>8. ASSUME NEW b \in Batches,
             \/ Drain(b) \/ IngestPrepare(b) \/ DirectAcquire(b) \/ DirectWrite(b)
             \/ MarkApplied(b) \/ LoadHeadTail(b) \/ LoadSlot(b) \/ LoadApplied(b)
      PROVE  UNCHANGED Contract!vars
  <2>1. /\ logSeqNum' = logSeqNum /\ visibleSeqNum' = visibleSeqNum /\ mem' = mem
        /\ ends' = ends /\ seq' = seq /\ op' = op
    BY <1>8 DEF Drain, IngestPrepare, DirectAcquire, DirectWrite, MarkApplied,
       LoadHeadTail, LoadSlot, LoadApplied, seqVars, batchVars
  <2>2. /\ \A c \in Batches : c # b => pc'[c] = pc[c]
        /\ pc[b] \notin OutPCs \cup CalledPCs \cup {"failed"}
        /\ pc'[b] \notin OutPCs \cup CalledPCs \cup {"failed"}
    BY <1>8, <1>t DEF Drain, IngestPrepare, DirectAcquire, DirectWrite, MarkApplied,
       LoadHeadTail, LoadSlot, LoadApplied, Goto, OutPCs, CalledPCs
  <2> QED
    BY <2>1, <2>2, QuietMove
<1>9. ASSUME NEW b \in Batches,
             \/ CompareAndSwapTail(b) \/ ClearSlot(b) \/ LoadVisible(b) \/ CommitDone(b)
             \/ Ratchet(b) /\ visibleSeqNum # lSeq[b]
      PROVE  UNCHANGED Contract!vars
  <2>1. /\ logSeqNum' = logSeqNum /\ visibleSeqNum' = visibleSeqNum /\ mem' = mem
        /\ ends' = ends /\ seq' = seq /\ op' = op
    BY <1>9 DEF CompareAndSwapTail, ClearSlot, LoadVisible, CommitDone, Ratchet,
       seqVars, batchVars
  <2>2. /\ \A c \in Batches : c # b => pc'[c] = pc[c]
        /\ pc[b] \notin OutPCs \cup CalledPCs \cup {"failed"}
        /\ pc'[b] \notin OutPCs \cup CalledPCs \cup {"failed"}
    BY <1>9, <1>t DEF CompareAndSwapTail, ClearSlot, LoadVisible, CommitDone, Ratchet,
       Goto, OutPCs, CalledPCs
  <2> QED
    BY <2>1, <2>2, QuietMove
\* The ratchet only moves up, to the end of a batch, over what is applied.
<1>10. ASSUME NEW b \in Batches, Ratchet(b), visibleSeqNum = lSeq[b]
       PROVE  Contract!Publish \/ UNCHANGED Contract!vars
  <2>1. /\ logSeqNum' = logSeqNum /\ mem' = mem /\ ends' = ends /\ seq' = seq /\ op' = op
        /\ visibleSeqNum' = End(lBatch[b]) /\ pc[b] = "ratchet" /\ pc'[b] = "done"
        /\ \A c \in Batches : c # b => pc'[c] = pc[c]
    BY <1>10, <1>t DEF Ratchet, Goto, batchVars
  <2>2. lBatch[b] \in Batches
    BY <2>1, TypeFacts DEF IInv, WalInv, HolderPCs
  <2>3. /\ End(lBatch[b]) \in Nat /\ lSeq[b] <= End(lBatch[b])
        /\ End(lBatch[b]) <= Bound(tail) /\ End(lBatch[b]) \in ends
        /\ StartSeqNum .. Bound(tail) - 1 \subseteq mem
    BY <2>1, <2>2, <1>t, EntriesFacts DEF IInv, OrderInv, HolderPCs
  <2>4. Bound(tail) \in Nat /\ StartSeqNum \in Nat
    <3>1. head \in Nat /\ tail \in Nat
      BY TypeFacts DEF IInv, WalInv
    <3>2. tail < head => At(tail) \in Batches
      BY <3>1 DEF IInv, RingInv, Window
    <3> QED
      BY <3>1, <3>2, <1>t, PipelineAssumption DEF Bound
  <2>5. StartSeqNum .. visibleSeqNum' - 1 \subseteq mem
    BY <2>1, <2>3, <2>4
  <2>6. \A c \in Batches : CallStatus(c)' = CallStatus(c)
    <3>1. ASSUME NEW c \in Batches, c # b PROVE CallStatus(c)' = CallStatus(c)
      BY <2>1, <3>1 DEF CallStatus
    <3>2. CallStatus(b)' = "sequenced" /\ CallStatus(b) = "sequenced"
      BY <2>1, StatusFacts DEF OutPCs, CalledPCs
    <3> QED
      BY <3>1, <3>2
  <2>7. \A c \in Batches : CallRange(c)' = CallRange(c)
    BY <2>1, <2>6 DEF CallRange, End
  <2>8. CASE visibleSeqNum' = visibleSeqNum
    BY <2>1, <2>6, <2>7, <2>8, QuietStep
  <2>9. CASE visibleSeqNum' # visibleSeqNum
    <3>1. visibleSeqNum' > visibleSeqNum
      BY <2>1, <2>3, <2>9, <1>10, <1>t
    <3> QED
      BY <2>1, <2>3, <2>5, <2>6, <2>7, <3>1 DEF Contract!Publish
  <2> QED
    BY <2>8, <2>9
\* A call comes back when its wait group is at zero, and so when it is visible.
<1>11. ASSUME NEW b \in Batches, Return(b) PROVE Contract!Return(b) \/ Contract!Break(b)
  <2>1. /\ logSeqNum' = logSeqNum /\ visibleSeqNum' = visibleSeqNum /\ mem' = mem
        /\ ends' = ends /\ seq' = seq /\ op' = op
        /\ pc[b] = "wait" /\ pc'[b] \in {"syncwait", "failed", "returned"}
        /\ commitWG[b] = 0
        /\ \A c \in Batches : c # b => pc'[c] = pc[c]
    BY <1>11, <1>t DEF Return, Goto, seqVars, batchVars
  <2>2. CASE pc'[b] = "failed"
    BY <2>1, <2>2, BreakMove DEF OutPCs
  <2>3. CASE pc'[b] \in OutPCs
    <3>1. CallStatus(b) = "sequenced" /\ CallStatus(b)' = "out"
      BY <2>1, <2>3, StatusFacts DEF OutPCs, CalledPCs
    <3>2. End(b) <= visibleSeqNum
      BY <2>1, WaitedFor DEF IInv, PlaceInv, PublishPCs
    <3>3. CallRange(b).end = End(b) /\ CallRange(b)' = [first |-> 0, end |-> 0]
      BY <3>1, RangeFacts
    <3> QED
      BY <2>1, <3>1, <3>2, <3>3, OneCall DEF Contract!Return, Contract!NoRange
  <2> QED
    BY <2>1, <2>2, <2>3 DEF OutPCs
<1>12. ASSUME NEW b \in Batches, SyncWait(b) \/ Fatal(b) PROVE UNCHANGED Contract!vars
  <2>1. /\ logSeqNum' = logSeqNum /\ visibleSeqNum' = visibleSeqNum /\ mem' = mem
        /\ ends' = ends /\ seq' = seq /\ op' = op
        /\ \A c \in Batches : c # b => pc'[c] = pc[c]
        /\ pc'[b] = pc[b] \/ (pc[b] \in OutPCs /\ pc'[b] \in OutPCs)
    BY <1>12, <1>t DEF SyncWait, Fatal, Goto, seqVars, batchVars, OutPCs
  <2> QED
    BY <2>1, QuietMove
<1>13. CASE LogSync \/ LogPop \/ LogRelease \/ LogFail \/ UNCHANGED vars
  <2>1. /\ logSeqNum' = logSeqNum /\ visibleSeqNum' = visibleSeqNum /\ mem' = mem
        /\ ends' = ends /\ seq' = seq /\ op' = op /\ pc' = pc
    BY <1>13 DEF LogSync, LogPop, LogRelease, LogFail, vars, seqVars, batchVars
  <2>2. \A c \in Batches : CallStatus(c)' = CallStatus(c)
    BY <2>1 DEF CallStatus
  <2>3. \A c \in Batches : CallRange(c)' = CallRange(c)
    BY <2>1, <2>2 DEF CallRange, End
  <2> QED
    BY <2>1, <2>2, <2>3, QuietStep
<1>14. ASSUME NEW b \in Batches, Ratchet(b)
       PROVE  Contract!Publish \/ UNCHANGED Contract!vars
  BY <1>9, <1>10, <1>14
<1> QED
  BY <1>1, <1>2, <1>3, <1>4, <1>5, <1>6, <1>7, <1>8, <1>9, <1>11, <1>12, <1>13, <1>14
  DEF Next, CommitStep, PublishStep, Fault, LogStep, Finished, Contract!Next

\* The pipeline implements the contract: calls get consecutive sequence
\* numbers, reads move from batch boundary to batch boundary over applied
\* entries only and never back, and a call comes back when it is visible.
THEOREM PipelineImplements == Spec => ImplementsContract
<1>1. Init => Contract!Init
  BY InitContract
<1>2. IInv /\ [Next]_vars => [Contract!Next]_(Contract!vars)
  BY NextContract
<1> QED
  BY <1>1, <1>2, InvAlways, PTL DEF Spec, ImplementsContract, Contract!Spec

-----------------------------------------------------------------------------
(***************************************************************************)
(* The inductive invariant, on top of IInv.                                *)
(***************************************************************************)

\* An ingestion has the last sequence numbers; until it has waited, those it
\* skipped hold nothing, and after that all below its own are applied.
IngestInv ==
  \A b \in Batches :
    /\ pc[b] \in IngestPCs => logSeqNum = End(b)
    /\ pc[b] = "drain" => lSeq[b] .. seq[b] - 1 \subseteq mem
    /\ pc[b] \in IngestPCs \ {"drain"} => StartSeqNum .. seq[b] - 1 \subseteq mem

\* Where a call with a record in the WAL is, until it returns.
WrittenPCs == {"apply", "syncwait"} \cup PublishPCs

Record(b) == [batch |-> b, seq |-> seq[b], n |-> op[b].n]
Durable(b) == \E i \in 1 .. synced : wal[i] = Record(b)

\* A waiter in the sync queue names the record of its batch.  A call that asked
\* for a sync and is no longer in that queue was given an error or is durable.
SyncedInv ==
  /\ synced <= Len(wal)
  /\ \A i \in 1 .. Len(syncQ) :
       syncQ[i].at \in 1 .. Len(wal) /\ wal[syncQ[i].at] = Record(syncQ[i].batch)
  /\ \A b \in Batches : op[b].sync # "none" =>
       /\ pc[b] \in WrittenPCs => InSyncQ(b) \/ commitErr[b] \/ Durable(b)
       /\ pc[b] = "returned" => Durable(b)

\* The calls that certainly hold a unit of commitQueueSem, and those that may:
\* one that failed has kept its unit if it failed before publish, and its batch
\* can be in the queue only then.
Sure == {b \in Batches : SemHeld(b) /\ (pc[b] = "failed" => InWindow(b))}
Maybe == {b \in Batches : SemHeld(b)}
QueueUnits ==
  /\ Cardinality(Sure) <= commitQueueSem /\ commitQueueSem <= Cardinality(Maybe)
  /\ commitQueueSem <= SyncConcurrency - 1

\* The same for logSyncQSem: a waiter's unit goes with it through the queue.
LogSure == {b \in Batches : LogUnitHeld(b)}
LogMaybe == {b \in Batches : LogUnitHeld(b) \/ pc[b] = "failed"}
Waiting == Len(syncQ) + (IF popped THEN 1 ELSE 0)
LogUnits ==
  /\ Cardinality(LogSure) + Waiting <= logSyncQSem
  /\ logSyncQSem <= Cardinality(LogMaybe) + Waiting
  /\ logSyncQSem <= SyncConcurrency - 1
  /\ \A b \in Batches : pc[b] = "syncsem" => op[b].sync # "none"

SyncIInv == IInv /\ IngestInv /\ SyncedInv /\ QueueUnits /\ LogUnits /\ NoPanic

-----------------------------------------------------------------------------
(***************************************************************************)
(* The steps that neither sequence a batch, nor write, sync or announce a  *)
(* record, nor take or give back a unit.                                   *)
(***************************************************************************)

SilentMove(from, to) ==
  \/ PlainMove(from, to) /\ from \notin {"sem", "syncsem"}
  \/ from = "lock" /\ to = "enqueue"
  \/ from = "store" /\ to = "bump"
  \/ from = "bump" /\ to = "seq"
  \/ from = "apply" /\ to = "load"
  \/ from = "cas" /\ to = "clear"
  \/ from = "clear" /\ to = "visible"
  \/ from = "ratchet" /\ to = "done"
  \/ from = "done" /\ to = "load"

\* The goroutine of b moves, or nobody does.
SilentStep(b) ==
  /\ pc' = pc \/ \E to : pc' = [pc EXCEPT ![b] = to] /\ SilentMove(pc[b], to)
  /\ op' = op /\ seq' = seq /\ commitErr' = commitErr
  /\ logSeqNum' = logSeqNum /\ mem \subseteq mem'
  /\ wal' = wal /\ syncQ' = syncQ /\ synced' = synced /\ popped' = popped
  /\ commitQueueSem' = commitQueueSem /\ logSyncQSem' = logSyncQSem
  /\ \A c \in Batches : pc'[c] = "drain" => lSeq'[c] = lSeq[c]

\* The batch of a call that has failed does not get into the queue.
FailedOut == \A c \in Batches : pc[c] = "failed" /\ InWindow(c)' => InWindow(c)

Silent(b) ==
  \/ RefuseInvalidBatch(b) \/ Lock(b) \/ EnqueueCheck(b) \/ EnqueueStore(b)
  \/ EnqueueBump(b) \/ WriteFails(b) \/ Drain(b) \/ IngestPrepare(b)
  \/ DirectWait(b) \/ Apply(b) \/ ApplyFails(b) \/ MarkApplied(b)
  \/ AcquireIngestSem(b) \/ LoadHeadTail(b) \/ LoadSlot(b) \/ LoadApplied(b)
  \/ CompareAndSwapTail(b) \/ ClearSlot(b) \/ LoadVisible(b) \/ Ratchet(b)
  \/ CommitDone(b) \/ SyncWait(b) \/ Fatal(b)

\* A silent step changes none of what these invariants read.
LEMMA SilentIsSilent ==
  ASSUME IInv, NEW b \in Batches, Silent(b)
  PROVE  SilentStep(b)
<1>t. pc \in [Batches -> PCs] /\ lSeq \in [Batches -> Nat]
  BY TypeFacts DEF IInv, WalInv, Typed, TypeOK, LocalType
<1>1. CASE RefuseInvalidBatch(b)
  BY <1>1, <1>t DEF RefuseInvalidBatch, Goto, SilentStep, SilentMove
     , PlainMove, semVars, seqVars, walVars, batchVars, localVars
<1>2. CASE Lock(b)
  BY <1>2, <1>t DEF Lock, Goto, SilentStep, SilentMove, PlainMove, semVars
     , seqVars, walVars, batchVars, localVars
<1>3. CASE EnqueueCheck(b)
  BY <1>3, <1>t DEF EnqueueCheck, Goto, SilentStep, SilentMove, PlainMove
     , semVars, seqVars, walVars, batchVars, localVars
<1>4. CASE EnqueueStore(b)
  BY <1>4, <1>t DEF EnqueueStore, Goto, SilentStep, SilentMove, PlainMove
     , semVars, seqVars, walVars, batchVars, localVars
<1>5. CASE EnqueueBump(b)
  BY <1>5, <1>t DEF EnqueueBump, Goto, SilentStep, SilentMove, PlainMove
     , semVars, seqVars, walVars, batchVars, localVars
<1>6. CASE WriteFails(b)
  BY <1>6, <1>t DEF WriteFails, Goto, SilentStep, SilentMove, PlainMove
     , semVars, seqVars, walVars, batchVars, localVars
<1>7. CASE Drain(b)
  BY <1>7, <1>t DEF Drain, Goto, SilentStep, SilentMove, PlainMove, semVars
     , seqVars, walVars, batchVars, localVars
<1>8. CASE IngestPrepare(b)
  BY <1>8, <1>t DEF IngestPrepare, Goto, SilentStep, SilentMove, PlainMove
     , semVars, seqVars, walVars, batchVars, localVars
<1>9. CASE DirectWait(b)
  BY <1>9, <1>t DEF DirectWait, Goto, SilentStep, SilentMove, PlainMove
     , semVars, seqVars, walVars, batchVars, localVars
<1>10. CASE Apply(b)
  BY <1>10, <1>t DEF Apply, Goto, SilentStep, SilentMove, PlainMove, semVars
     , seqVars, walVars, batchVars, localVars
<1>11. CASE ApplyFails(b)
  BY <1>11, <1>t DEF ApplyFails, Goto, SilentStep, SilentMove, PlainMove
     , semVars, seqVars, walVars, batchVars, localVars
<1>12. CASE MarkApplied(b)
  BY <1>12, <1>t DEF MarkApplied, Goto, SilentStep, SilentMove, PlainMove
     , semVars, seqVars, walVars, batchVars, localVars
<1>13. CASE AcquireIngestSem(b)
  BY <1>13, <1>t DEF AcquireIngestSem, Goto, SilentStep, SilentMove, PlainMove
     , semVars, seqVars, walVars, batchVars, localVars
<1>14. CASE LoadHeadTail(b)
  BY <1>14, <1>t DEF LoadHeadTail, Goto, SilentStep, SilentMove, PlainMove
     , semVars, seqVars, walVars, batchVars, localVars
<1>15. CASE LoadSlot(b)
  BY <1>15, <1>t DEF LoadSlot, Goto, SilentStep, SilentMove, PlainMove
     , semVars, seqVars, walVars, batchVars, localVars
<1>16. CASE LoadApplied(b)
  BY <1>16, <1>t DEF LoadApplied, Goto, SilentStep, SilentMove, PlainMove
     , semVars, seqVars, walVars, batchVars, localVars
<1>17. CASE CompareAndSwapTail(b)
  BY <1>17, <1>t DEF CompareAndSwapTail, Goto, SilentStep, SilentMove
     , PlainMove, semVars, seqVars, walVars, batchVars, localVars
<1>18. CASE ClearSlot(b)
  BY <1>18, <1>t DEF ClearSlot, Goto, SilentStep, SilentMove, PlainMove
     , semVars, seqVars, walVars, batchVars, localVars
<1>19. CASE LoadVisible(b)
  BY <1>19, <1>t DEF LoadVisible, Goto, SilentStep, SilentMove, PlainMove
     , semVars, seqVars, walVars, batchVars, localVars
<1>20. CASE Ratchet(b)
  BY <1>20, <1>t DEF Ratchet, Goto, SilentStep, SilentMove, PlainMove, semVars
     , seqVars, walVars, batchVars, localVars
<1>21. CASE CommitDone(b)
  BY <1>21, <1>t DEF CommitDone, Goto, SilentStep, SilentMove, PlainMove
     , semVars, seqVars, walVars, batchVars, localVars
<1>22. CASE SyncWait(b)
  BY <1>22, <1>t DEF SyncWait, Goto, SilentStep, SilentMove, PlainMove
     , semVars, seqVars, walVars, batchVars, localVars
<1>23. CASE Fatal(b)
  BY <1>23, <1>t DEF Fatal, Goto, SilentStep, SilentMove, PlainMove, semVars
     , seqVars, walVars, batchVars, localVars
<1> QED
  BY <1>1, <1>2, <1>3, <1>4, <1>5, <1>6, <1>7, <1>8, <1>9, <1>10, <1>11, <1>12
     , <1>13, <1>14, <1>15, <1>16, <1>17, <1>18, <1>19, <1>20, <1>21, <1>22
     , <1>23 DEF Silent

\* A silent step fails no call.
LEMMA SilentFailedOut ==
  ASSUME IInv, NEW b \in Batches, Silent(b)
  PROVE  FailedOut
<1>t. /\ pc \in [Batches -> PCs] /\ head \in Nat /\ tail \in Nat
      /\ slots \in [0 .. SyncConcurrency - 1 -> Batches \cup {NoBatch}]
  BY TypeFacts DEF IInv, WalInv
<1>n. NoBatch \notin Batches
  BY PipelineAssumption
<1>1. CASE EnqueueStore(b)
  <2>1. pc[b] = "store" /\ head' = head /\ tail' = tail
        /\ slots' = [slots EXCEPT ![Slot(head)] = b]
    BY <1>1 DEF EnqueueStore, Goto
  <2>2. Slot(head) \in 0 .. SyncConcurrency - 1
    BY <1>t, SlotType
  <2>3. \A i : At(i)' = At(i) \/ At(i)' = b
    BY <1>t, <2>1, <2>2 DEF At
  <2> QED
    BY <1>t, <2>1, <2>3 DEF FailedOut, InWindow, Window
<1>2. CASE EnqueueBump(b)
  <2>1. pc[b] = "bump" /\ head' = head + 1 /\ tail' = tail /\ slots' = slots
    BY <1>2 DEF EnqueueBump, Goto
  <2>2. At(head) = b
    BY <2>1 DEF IInv, RingInv
  <2>3. \A i : At(i)' = At(i)
    BY <2>1 DEF At
  <2>4. \A i \in Window' : i = head \/ i \in Window
    BY <1>t, <2>1 DEF Window
  <2> QED
    BY <2>1, <2>2, <2>3, <2>4 DEF FailedOut, InWindow
<1>3. CASE CompareAndSwapTail(b)
  <2>1. head' = head /\ slots' = slots /\ tail' \in {tail, tail + 1}
    BY <1>3 DEF CompareAndSwapTail
  <2>2. \A i : At(i)' = At(i)
    BY <2>1 DEF At
  <2>3. Window' \subseteq Window
    BY <1>t, <2>1 DEF Window
  <2> QED
    BY <2>2, <2>3 DEF FailedOut, InWindow
<1>4. CASE ClearSlot(b)
  <2>1. head' = head /\ tail' = tail
        /\ slots' = [slots EXCEPT ![Slot(lTail[b])] = NoBatch]
    BY <1>4 DEF ClearSlot
  <2>2. lTail[b] \in Nat /\ Slot(lTail[b]) \in 0 .. SyncConcurrency - 1
    BY SlotType, TypeFacts DEF IInv, WalInv
  <2>3. \A i : At(i)' = At(i) \/ At(i)' = NoBatch
    BY <1>t, <2>1, <2>2 DEF At
  <2> QED
    BY <1>n, <2>1, <2>3 DEF FailedOut, InWindow, Window
<1>5. CASE ~(EnqueueStore(b) \/ EnqueueBump(b) \/ CompareAndSwapTail(b) \/ ClearSlot(b))
  <2>1. QueueSame
    BY <1>5 DEF Silent, QueueSame, queueVars, RefuseInvalidBatch, Lock
       , EnqueueCheck, WriteFails, Drain, IngestPrepare, DirectWait, Apply
       , ApplyFails, MarkApplied, AcquireIngestSem, LoadHeadTail, LoadSlot
       , LoadApplied, LoadVisible, Ratchet, CommitDone, SyncWait, Fatal
  <2> QED
    BY <2>1, QueueFrame DEF FailedOut
<1> QED
  BY <1>1, <1>2, <1>3, <1>4, <1>5

-----------------------------------------------------------------------------
(***************************************************************************)
(* Ingestions.                                                             *)
(***************************************************************************)

\* IngestInv is preserved when no sequence number is given out and no call
\* gets in or past the wait for the ones before it.
LEMMA IngestFrame ==
  ASSUME IngestInv, logSeqNum' = logSeqNum, mem \subseteq mem',
         \A c \in Batches : pc'[c] \in IngestPCs =>
            /\ op'[c] = op[c] /\ seq'[c] = seq[c] /\ pc[c] \in IngestPCs
            /\ pc'[c] = "drain" <=> pc[c] = "drain"
            /\ pc'[c] = "drain" => lSeq'[c] = lSeq[c]
  PROVE  IngestInv'
<1> SUFFICES ASSUME NEW c \in Batches, pc'[c] \in IngestPCs
             PROVE  /\ logSeqNum' = End(c)'
                    /\ pc'[c] = "drain" => lSeq'[c] .. seq'[c] - 1 \subseteq mem'
                    /\ pc'[c] # "drain" => StartSeqNum .. seq'[c] - 1 \subseteq mem'
  BY DEF IngestInv, IngestPCs
<1>1. /\ op'[c] = op[c] /\ seq'[c] = seq[c] /\ pc[c] \in IngestPCs
      /\ pc'[c] = "drain" <=> pc[c] = "drain"
      /\ pc'[c] = "drain" => lSeq'[c] = lSeq[c]
  OBVIOUS
<1>2. End(c)' = End(c)
  BY <1>1 DEF End
<1> QED
  BY <1>1, <1>2 DEF IngestInv

\* The sequence numbers are given out under commitPipeline.mu.
LEMMA IngestAssign ==
  ASSUME IInv, IngestInv, NEW b \in Batches, AssignSeqNum(b)
  PROVE  IngestInv'
<1>t. /\ pc \in [Batches -> PCs] /\ op \in [Batches -> OpType]
      /\ seq \in [Batches -> Nat] /\ lSeq \in [Batches -> Nat] /\ logSeqNum \in Nat
  BY TypeFacts DEF IInv, WalInv, Typed, TypeOK, LocalType
<1>1. /\ pc[b] = "seq" /\ pc'[b] \in {"drain", "write"}
      /\ \A c \in Batches : c # b => pc'[c] = pc[c]
  BY <1>t DEF AssignSeqNum, Goto
<1>2. \A c \in Batches : pc'[c] \in IngestPCs => c = b
  BY <1>1 DEF IInv, WalInv, MutexInv, MuPCs, IngestPCs
<1>3. logSeqNum' = End(b)'
  BY <1>t DEF AssignSeqNum, End
<1>4. lSeq'[b] .. seq'[b] - 1 \subseteq mem'
  BY <1>t DEF AssignSeqNum
<1> QED
  BY <1>1, <1>2, <1>3, <1>4 DEF IngestInv, IngestPCs

\* Everything below visibleSeqNum is applied (OrderInv), and the wait is over
\* when visibleSeqNum is what logSeqNum was before.
LEMMA IngestDrain ==
  ASSUME IInv, IngestInv, NEW b \in Batches, Drain(b)
  PROVE  IngestInv'
<1>t. /\ pc \in [Batches -> PCs] /\ seq \in [Batches -> Nat] /\ visibleSeqNum \in Nat
      /\ StartSeqNum \in Nat
  BY TypeFacts, PipelineAssumption DEF IInv, WalInv
<1>1. /\ pc[b] = "drain" /\ pc'[b] = "prepare" /\ visibleSeqNum = lSeq[b]
      /\ \A c \in Batches : c # b => pc'[c] = pc[c]
  BY <1>t DEF Drain, Goto
<1>2. /\ op' = op /\ seq' = seq /\ lSeq' = lSeq /\ logSeqNum' = logSeqNum /\ mem' = mem
  BY DEF Drain, batchVars, localVars, seqVars
<1>3. StartSeqNum .. visibleSeqNum - 1 \subseteq mem
  BY ReadWhole DEF ReadPrefix
<1>4. lSeq[b] .. seq[b] - 1 \subseteq mem /\ logSeqNum = End(b)
  BY <1>1 DEF IngestInv, IngestPCs
<1>5. StartSeqNum .. seq[b] - 1 \subseteq mem
  BY <1>1, <1>3, <1>4, <1>t
<1>6. \A c \in Batches : End(c)' = End(c)
  BY <1>2 DEF End
<1> SUFFICES ASSUME NEW c \in Batches, pc'[c] \in IngestPCs
             PROVE  /\ logSeqNum' = End(c)'
                    /\ pc'[c] = "drain" => lSeq'[c] .. seq'[c] - 1 \subseteq mem'
                    /\ pc'[c] # "drain" => StartSeqNum .. seq'[c] - 1 \subseteq mem'
  BY DEF IngestInv, IngestPCs
<1> QED
  BY <1>1, <1>2, <1>4, <1>5, <1>6 DEF IngestInv

\* Every step keeps what an ingestion has waited for.
LEMMA NextIngest == IInv /\ IngestInv /\ [Next]_vars => IngestInv'
<1> SUFFICES ASSUME IInv, IngestInv, [Next]_vars PROVE IngestInv'
  OBVIOUS
<1>t. /\ pc \in [Batches -> PCs] /\ op \in [Batches -> OpType]
      /\ seq \in [Batches -> Nat] /\ lSeq \in [Batches -> Nat]
  BY TypeFacts DEF IInv, WalInv, Typed, TypeOK, LocalType
<1>1. ASSUME NEW b \in Batches, Silent(b) PROVE IngestInv'
  <2>1. SilentStep(b)
    BY <1>1, SilentIsSilent
  <2>2. CASE Drain(b)
    BY <2>2, IngestDrain
  <2>3. CASE ~Drain(b)
    <3>1. \A c \in Batches : pc'[c] \in IngestPCs =>
            pc[c] \in IngestPCs /\ (pc'[c] = "drain" <=> pc[c] = "drain")
      <4>1. pc[b] = "drain" => pc' = pc
        BY <1>1, <2>3 DEF Silent, RefuseInvalidBatch, Lock, EnqueueCheck, EnqueueStore,
           EnqueueBump, WriteFails, IngestPrepare, DirectWait, Apply, ApplyFails,
           MarkApplied, AcquireIngestSem, LoadHeadTail, LoadSlot, LoadApplied,
           CompareAndSwapTail, ClearSlot, LoadVisible, Ratchet, CommitDone, SyncWait,
           Fatal, Goto
      <4> QED
        BY <4>1, <2>1, <1>t DEF SilentStep, SilentMove, PlainMove, IngestPCs
    <3> QED
      BY <2>1, <3>1, IngestFrame DEF SilentStep
  <2> QED
    BY <2>2, <2>3
<1>2. ASSUME NEW b \in Batches, AssignSeqNum(b) PROVE IngestInv'
  BY <1>2, IngestAssign
<1>3. ASSUME NEW b \in Batches, NEW o \in Ops, Begin(b, o) PROVE IngestInv'
  <2>1. \A c \in Batches : pc'[c] \in IngestPCs => c # b
    BY <1>3, <1>t DEF Begin, IngestPCs
  <2> QED
    BY <1>3, <1>t, <2>1, IngestFrame DEF Begin, seqVars, localVars
<1>4. ASSUME NEW b \in Batches,
             \/ AcquireCommitQueueSem(b) \/ AcquireLogSyncQSem(b) \/ DirectAcquire(b)
             \/ DirectWrite(b)
      PROVE  IngestInv'
  <2>1. \A c \in Batches : pc'[c] \in IngestPCs =>
          pc[c] \in IngestPCs /\ (pc'[c] = "drain" <=> pc[c] = "drain")
    BY <1>4, <1>t DEF AcquireCommitQueueSem, AcquireLogSyncQSem, DirectAcquire,
       DirectWrite, Goto, IngestPCs
  <2>2. op' = op /\ seq' = seq /\ lSeq' = lSeq /\ logSeqNum' = logSeqNum /\ mem' = mem
    BY <1>4 DEF AcquireCommitQueueSem, AcquireLogSyncQSem, DirectAcquire, DirectWrite,
       batchVars, localVars, seqVars
  <2> QED
    BY <2>1, <2>2, IngestFrame
<1>5. ASSUME NEW b \in Batches, Write(b) \/ Return(b) PROVE IngestInv'
  <2>1. \A c \in Batches : pc'[c] \in IngestPCs => c # b /\ pc'[c] = pc[c]
    BY <1>5, <1>t DEF Write, Return, Goto, IngestPCs
  <2>2. /\ op' = op /\ seq' = seq /\ logSeqNum' = logSeqNum /\ mem \subseteq mem'
        /\ \A c \in Batches \ {b} : lSeq'[c] = lSeq[c]
    BY <1>5, <1>t DEF Write, Return, batchVars, localVars, seqVars
  <2> QED
    BY <2>1, <2>2, IngestFrame
<1>6. CASE LogStep \/ LogFail \/ UNCHANGED vars
  <2>1. /\ pc' = pc /\ op' = op /\ seq' = seq /\ lSeq' = lSeq
        /\ logSeqNum' = logSeqNum /\ mem' = mem
    BY <1>6 DEF LogStep, LogSync, LogPop, LogRelease, LogFail, vars, batchVars,
       localVars, seqVars
  <2> QED
    BY <2>1, IngestFrame
<1> QED
  BY <1>1, <1>2, <1>3, <1>4, <1>5, <1>6
  DEF Next, CommitStep, PublishStep, Fault, Finished, Silent

-----------------------------------------------------------------------------
(***************************************************************************)
(* Records and the waiters for them.                                       *)
(***************************************************************************)

\* The types of the log and of its two ends.
LEMMA LogFacts ==
  ASSUME IInv
  PROVE  /\ wal \in Seq(WalRecord) /\ Len(wal) \in Nat
         /\ syncQ \in Seq(SyncWaiter) /\ Len(syncQ) \in Nat
         /\ synced \in Nat /\ walErr \in BOOLEAN /\ popped \in BOOLEAN
         /\ \A i \in 1 .. Len(syncQ) : syncQ[i].batch \in Batches /\ syncQ[i].at \in Nat
         /\ pc \in [Batches -> PCs] /\ op \in [Batches -> OpType]
         /\ seq \in [Batches -> Nat] /\ commitErr \in [Batches -> BOOLEAN]
         /\ commitQueueSem \in Int /\ logSyncQSem \in Int
<1>1. Typed
  BY DEF IInv, WalInv
<1>2. \A i \in 1 .. Len(syncQ) : syncQ[i] \in SyncWaiter
  BY <1>1, SyncQFacts
<1>3. \A i \in 1 .. Len(syncQ) : syncQ[i].batch \in Batches /\ syncQ[i].at \in Nat
  BY <1>2 DEF SyncWaiter
<1>4. /\ wal \in Seq(WalRecord) /\ syncQ \in Seq(SyncWaiter)
      /\ synced \in Nat /\ walErr \in BOOLEAN /\ popped \in BOOLEAN
      /\ pc \in [Batches -> PCs] /\ op \in [Batches -> OpType]
      /\ seq \in [Batches -> Nat] /\ commitErr \in [Batches -> BOOLEAN]
      /\ commitQueueSem \in Int /\ logSyncQSem \in Int
  BY <1>1 DEF Typed, TypeOK, LogType, BatchType, SemType
<1>5. Len(wal) \in Nat /\ Len(syncQ) \in Nat
  BY <1>4
<1> QED
  BY <1>3, <1>4, <1>5

\* SyncedInv is preserved when nothing is written, synced or announced and
\* no call gets behind its write or returns.
LEMMA SyncedFrame ==
  ASSUME SyncedInv, op' = op, seq' = seq, commitErr' = commitErr,
         wal' = wal, syncQ' = syncQ, synced' = synced,
         \A c \in Batches : pc'[c] \in WrittenPCs => pc[c] \in WrittenPCs \/ op[c].sync = "none",
         \A c \in Batches : pc'[c] = "returned" => pc[c] = "returned" \/ op[c].sync = "none"
  PROVE  SyncedInv'
<1>1. \A c : Record(c)' = Record(c)
  BY DEF Record
<1>2. \A c : Durable(c)' <=> Durable(c)
  BY <1>1 DEF Durable
<1>3. \A c : InSyncQ(c)' <=> InSyncQ(c)
  BY DEF InSyncQ
<1> QED
  BY <1>1, <1>2, <1>3 DEF SyncedInv

\* A write appends the record, and its waiter where one is asked for.
LEMMA SyncedLogWrite ==
  ASSUME IInv, SyncedInv, NEW b \in Batches, NEW sync \in BOOLEAN, LogWrite(b, sync),
         op' = op, seq' = seq, commitErr' = commitErr,
         \A c \in Batches \ {b} : pc'[c] = pc[c],
         pc[b] \notin WrittenPCs, pc'[b] # "returned",
         pc'[b] \in WrittenPCs => sync \/ op[b].sync = "none"
  PROVE  SyncedInv'
<1>t. /\ wal \in Seq(WalRecord) /\ Len(wal) \in Nat
      /\ syncQ \in Seq(SyncWaiter) /\ Len(syncQ) \in Nat /\ synced \in Nat
      /\ \A i \in 1 .. Len(syncQ) : syncQ[i].batch \in Batches
      /\ Record(b) \in WalRecord
  <2>1. seq[b] \in Nat /\ op[b] \in OpType
    BY LogFacts
  <2> QED
    BY <2>1, LogFacts, OpFacts DEF Record, WalRecord
<1>1. /\ wal' = Append(wal, Record(b)) /\ synced' = synced
      /\ sync => syncQ' = Append(syncQ, [at |-> Len(wal) + 1, batch |-> b])
      /\ ~sync => syncQ' = syncQ
  BY DEF LogWrite, Record
<1>2. /\ Len(wal') = Len(wal) + 1 /\ wal'[Len(wal) + 1] = Record(b)
      /\ \A i \in 1 .. Len(wal) : wal'[i] = wal[i]
  BY <1>1, <1>t
<1>3. \A c : Record(c)' = Record(c)
  BY DEF Record
<1>4. /\ Len(syncQ') = IF sync THEN Len(syncQ) + 1 ELSE Len(syncQ)
      /\ \A i \in 1 .. Len(syncQ) : syncQ'[i] = syncQ[i]
      /\ sync => syncQ'[Len(syncQ) + 1] = [at |-> Len(wal) + 1, batch |-> b]
  BY <1>1, <1>t
<1>5. synced' <= Len(wal')
  BY <1>1, <1>2, <1>t DEF SyncedInv
<1>6. ASSUME NEW i \in 1 .. Len(syncQ')
      PROVE  syncQ'[i].at \in 1 .. Len(wal') /\ wal'[syncQ'[i].at] = Record(syncQ[i].batch)'
  <2>1. CASE i \in 1 .. Len(syncQ)
    <3>1. syncQ[i].at \in 1 .. Len(wal) /\ wal[syncQ[i].at] = Record(syncQ[i].batch)
      BY <2>1 DEF SyncedInv
    <3> QED
      BY <2>1, <3>1, <1>2, <1>3, <1>4, <1>t
  <2>2. CASE i \notin 1 .. Len(syncQ)
    <3>1. sync /\ i = Len(syncQ) + 1
      BY <2>2, <1>4, <1>t
    <3>2. syncQ'[i].at = Len(wal) + 1 /\ syncQ'[i].batch = b
      BY <3>1, <1>4
    <3> QED
      BY <3>2, <1>2, <1>3, <1>t
  <2> QED
    BY <2>1, <2>2
<1>7. \A c : Durable(c) => Durable(c)'
  BY <1>1, <1>2, <1>3, <1>t DEF Durable, SyncedInv
<1>8. \A c : InSyncQ(c) => InSyncQ(c)'
  BY <1>4, <1>t DEF InSyncQ
<1>9. sync => InSyncQ(b)'
  BY <1>4, <1>t DEF InSyncQ
<1>10. ASSUME NEW c \in Batches, op'[c].sync # "none"
       PROVE  /\ pc'[c] \in WrittenPCs => InSyncQ(c)' \/ commitErr'[c] \/ Durable(c)'
              /\ pc'[c] = "returned" => Durable(c)'
  BY <1>10, <1>7, <1>8, <1>9 DEF SyncedInv
<1> QED
  BY <1>5, <1>6, <1>10 DEF SyncedInv

\* A flush loop that syncs has done with the waiters of the pass before, so
\* that the durable prefix only grows.
LEMMA SyncedSync ==
  ASSUME IInv, SyncedInv, LogSync
  PROVE  SyncedInv'
<1>t. Len(wal) \in Nat /\ synced \in Nat /\ syncQ \in Seq(SyncWaiter) /\ Len(syncQ) \in Nat
      /\ \A i \in 1 .. Len(syncQ) : syncQ[i].at \in Nat
  BY LogFacts
<1>1. /\ wal' = wal /\ syncQ' = syncQ /\ pc' = pc /\ op' = op /\ seq' = seq
      /\ commitErr' = commitErr
  BY DEF LogSync, batchVars
<1>2. PICK k \in Head(syncQ).at .. Len(wal) : synced' = k
  BY DEF LogSync
<1>3. Len(syncQ) >= 1 /\ Head(syncQ) = syncQ[1] /\ syncQ[1].at > synced
  BY <1>t DEF LogSync, PassOver
<1>4. synced <= synced' /\ synced' <= Len(wal) /\ synced' \in Nat
  BY <1>2, <1>3, <1>t
<1>5. \A c : Record(c)' = Record(c)
  BY <1>1 DEF Record
<1>6. \A c : Durable(c) => Durable(c)'
  BY <1>1, <1>4, <1>5, <1>t DEF Durable
<1>7. \A c : InSyncQ(c)' <=> InSyncQ(c)
  BY <1>1 DEF InSyncQ
<1> QED
  BY <1>1, <1>4, <1>5, <1>6, <1>7 DEF SyncedInv

\* The waiter that is woken has its record in the durable prefix, or is told
\* of the error.
LEMMA SyncedPop ==
  ASSUME IInv, SyncedInv, LogPop
  PROVE  SyncedInv'
<1>t. Len(wal) \in Nat /\ synced \in Nat /\ syncQ \in Seq(SyncWaiter) /\ Len(syncQ) \in Nat
      /\ \A i \in 1 .. Len(syncQ) : syncQ[i].batch \in Batches /\ syncQ[i].at \in Nat
      /\ commitErr \in [Batches -> BOOLEAN] /\ walErr \in BOOLEAN
  BY LogFacts
<1> DEFINE b == syncQ[1].batch
<1>1. Len(syncQ) >= 1 /\ Head(syncQ) = syncQ[1] /\ b \in Batches
  BY <1>t DEF LogPop
<1>2. /\ wal' = wal /\ synced' = synced /\ pc' = pc /\ op' = op /\ seq' = seq
      /\ syncQ' = Tail(syncQ) /\ commitErr' = [commitErr EXCEPT ![b] = walErr]
      /\ walErr \/ syncQ[1].at <= synced
  BY <1>1 DEF LogPop
<1>3. Len(syncQ') = Len(syncQ) - 1 /\ \A i \in 1 .. Len(syncQ') : syncQ'[i] = syncQ[i + 1]
  BY <1>1, <1>2, <1>t
<1>4. \A c : Record(c)' = Record(c)
  BY <1>2 DEF Record
<1>5. \A c : Durable(c)' <=> Durable(c)
  BY <1>2, <1>4 DEF Durable
<1>6. \A c \in Batches : c # b /\ InSyncQ(c) => InSyncQ(c)'
  <2> SUFFICES ASSUME NEW c \in Batches, c # b, NEW i \in 1 .. Len(syncQ), syncQ[i].batch = c
               PROVE  InSyncQ(c)'
    BY DEF InSyncQ
  <2>1. i # 1 /\ i - 1 \in 1 .. Len(syncQ') /\ (i - 1) + 1 = i
    BY <1>1, <1>3, <1>t
  <2>2. syncQ'[i - 1].batch = c
    BY <1>3, <2>1
  <2> QED
    BY <2>1, <2>2 DEF InSyncQ
<1>7. ~walErr => Durable(b)
  <2>1. syncQ[1].at \in 1 .. Len(wal) /\ wal[syncQ[1].at] = Record(b)
    BY <1>1, <1>t DEF SyncedInv
  <2> QED
    BY <2>1, <1>2, <1>t DEF Durable
<1>8. \A i \in 1 .. Len(syncQ') :
        syncQ'[i].at \in 1 .. Len(wal') /\ wal'[syncQ'[i].at] = Record(syncQ[i].batch)'
  <2> SUFFICES ASSUME NEW i \in 1 .. Len(syncQ')
               PROVE  syncQ'[i].at \in 1 .. Len(wal') /\ wal'[syncQ'[i].at] = Record(syncQ[i].batch)'
    OBVIOUS
  <2>1. i + 1 \in 1 .. Len(syncQ) /\ syncQ'[i] = syncQ[i + 1]
    BY <1>3, <1>t
  <2>2. syncQ[i + 1].at \in 1 .. Len(wal) /\ wal[syncQ[i + 1].at] = Record(syncQ[i + 1].batch)
    BY <2>1 DEF SyncedInv
  <2> QED
    BY <1>2, <1>4, <2>1, <2>2
<1> HIDE DEF b
<1>9. ASSUME NEW c \in Batches, op'[c].sync # "none"
      PROVE  /\ pc'[c] \in WrittenPCs => InSyncQ(c)' \/ commitErr'[c] \/ Durable(c)'
             /\ pc'[c] = "returned" => Durable(c)'
  <2>1. c # b => commitErr'[c] = commitErr[c]
    BY <1>2
  <2>2. c = b => commitErr'[c] = walErr
    BY <1>1, <1>2, <1>t
  <2> QED
    BY <1>2, <1>5, <1>6, <1>7, <1>9, <2>1, <2>2 DEF SyncedInv
<1> QED
  BY <1>2, <1>8, <1>9 DEF SyncedInv

\* A call begins, or is sequenced, while no waiter names its batch.
LEMMA SyncedReset ==
  ASSUME IInv, SyncedInv, NEW b \in Batches,
         pc[b] \notin AwaitingPCs, pc'[b] \notin WrittenPCs \cup {"returned"},
         \A c \in Batches \ {b} : /\ pc'[c] = pc[c] /\ op'[c] = op[c]
                                  /\ seq'[c] = seq[c] /\ commitErr'[c] = commitErr[c],
         wal' = wal, syncQ' = syncQ, synced' = synced
  PROVE  SyncedInv'
<1>1. \A c \in Batches \ {b} : Record(c)' = Record(c)
  BY DEF Record
<1>2. \A c \in Batches \ {b} : Durable(c)' <=> Durable(c)
  BY <1>1 DEF Durable
<1>3. \A c : InSyncQ(c)' <=> InSyncQ(c)
  BY DEF InSyncQ
<1>4. \A i \in 1 .. Len(syncQ) : syncQ[i].batch \in Batches \ {b}
  BY LogFacts DEF IInv, SyncInv
<1>5. synced' <= Len(wal')
  BY DEF SyncedInv
<1>6. \A i \in 1 .. Len(syncQ') :
        syncQ'[i].at \in 1 .. Len(wal') /\ wal'[syncQ'[i].at] = Record(syncQ[i].batch)'
  BY <1>1, <1>4 DEF SyncedInv
<1>7. ASSUME NEW c \in Batches, op'[c].sync # "none"
      PROVE  /\ pc'[c] \in WrittenPCs => InSyncQ(c)' \/ commitErr'[c] \/ Durable(c)'
             /\ pc'[c] = "returned" => Durable(c)'
  BY <1>2, <1>3, <1>7 DEF SyncedInv
<1> QED
  BY <1>5, <1>6, <1>7 DEF SyncedInv

\* A call comes back when it has been waited for: its waiter has left the sync
\* queue, and where there was an error the call does not return.
LEMMA SyncedReturn ==
  ASSUME IInv, SyncedInv, NEW b \in Batches, Return(b) \/ SyncWait(b)
  PROVE  SyncedInv'
<1>t. pc \in [Batches -> PCs] /\ op \in [Batches -> OpType]
  BY LogFacts
<1>1. /\ op' = op /\ seq' = seq /\ commitErr' = commitErr /\ wal' = wal
      /\ syncQ' = syncQ /\ synced' = synced
      /\ \A c \in Batches : c # b => pc'[c] = pc[c]
  BY <1>t DEF Return, SyncWait, Goto, batchVars, walVars
<1>2. pc[b] \in {"wait", "syncwait"} /\ pc'[b] \in {"syncwait", "failed", "aborted", "returned"}
  BY <1>t DEF Return, SyncWait, Goto
<1>3. pc'[b] = "returned" /\ op[b].sync # "none" => ~InSyncQ(b) /\ ~commitErr[b]
  <2> SUFFICES ASSUME pc'[b] = "returned", op[b].sync # "none"
               PROVE  ~InSyncQ(b) /\ ~commitErr[b]
    OBVIOUS
  <2>1. CASE Return(b)
    <3>1. op[b].sync = "wait" /\ ~commitErr[b] /\ commitWG[b] = 0
      <4>1. op[b].sync \in SyncModes
        BY <1>t, OpFacts
      <4> QED
        BY <4>1, <2>1, <1>t DEF Return, Goto, SyncModes
    <3>2. InSyncQ(b) => commitWG[b] >= 1
      BY <3>1 DEF IInv, WaitInv, SyncPending
    <3> QED
      BY <3>1, <3>2
  <2>2. CASE SyncWait(b)
    <3>1. pc[b] = "syncwait" /\ ~commitErr[b] /\ fsyncWG[b] = 0
      BY <2>2, <1>t DEF SyncWait, Goto
    <3>2. op[b].sync # "wait"
      BY <3>1 DEF IInv, SyncInv
    <3> QED
      BY <3>1, <3>2 DEF IInv, SyncInv, InSyncQ
  <2> QED
    BY <2>1, <2>2
<1>4. \A c : Record(c)' = Record(c)
  BY <1>1 DEF Record
<1>5. \A c : (Durable(c)' <=> Durable(c)) /\ (InSyncQ(c)' <=> InSyncQ(c))
  BY <1>1, <1>4 DEF Durable, InSyncQ
<1>6. pc[b] \in WrittenPCs
  BY <1>2 DEF WrittenPCs, PublishPCs
<1>7. ASSUME NEW c \in Batches, op'[c].sync # "none"
      PROVE  /\ pc'[c] \in WrittenPCs => InSyncQ(c)' \/ commitErr'[c] \/ Durable(c)'
             /\ pc'[c] = "returned" => Durable(c)'
  BY <1>1, <1>3, <1>5, <1>6, <1>7 DEF SyncedInv
<1> QED
  BY <1>1, <1>4, <1>7 DEF SyncedInv

\* Every step keeps what was synced exact.
LEMMA NextSynced == IInv /\ SyncedInv /\ [Next]_vars => SyncedInv'
<1> SUFFICES ASSUME IInv, SyncedInv, [Next]_vars PROVE SyncedInv'
  OBVIOUS
<1>t. /\ pc \in [Batches -> PCs] /\ op \in [Batches -> OpType]
      /\ seq \in [Batches -> Nat] /\ commitErr \in [Batches -> BOOLEAN]
  BY LogFacts
<1>1. ASSUME NEW b \in Batches, Silent(b) PROVE SyncedInv'
  <2>1. SilentStep(b)
    BY <1>1, SilentIsSilent
  <2>2. CASE SyncWait(b)
    BY <2>2, SyncedReturn
  <2>3. CASE ~SyncWait(b)
    <3>1. pc[b] = "syncwait" => pc' = pc
      BY <1>1, <2>3 DEF Silent, RefuseInvalidBatch, Lock, EnqueueCheck, EnqueueStore,
         EnqueueBump, WriteFails, Drain, IngestPrepare, DirectWait, Apply, ApplyFails,
         MarkApplied, AcquireIngestSem, LoadHeadTail, LoadSlot, LoadApplied,
         CompareAndSwapTail, ClearSlot, LoadVisible, Ratchet, CommitDone, Fatal, Goto
    <3>2. \A c \in Batches : pc'[c] = "returned" => pc[c] = "returned"
      BY <2>1, <3>1, <1>t DEF SilentStep, SilentMove, PlainMove
    <3>3. \A c \in Batches : pc'[c] \in WrittenPCs => pc[c] \in WrittenPCs \cup IngestPCs
      BY <2>1, <1>t DEF SilentStep, SilentMove, PlainMove, WrittenPCs, PublishPCs,
         HolderPCs, IngestPCs
    <3>4. \A c \in Batches : pc[c] \in IngestPCs => op[c].sync = "none"
      BY DEF IInv, SyncInv
    <3> QED
      BY <2>1, <3>2, <3>3, <3>4, SyncedFrame DEF SilentStep
  <2> QED
    BY <2>2, <2>3
<1>2. ASSUME NEW b \in Batches, NEW o \in Ops, Begin(b, o) PROVE SyncedInv'
  <2>1. /\ pc[b] \notin AwaitingPCs /\ pc'[b] \notin WrittenPCs \cup {"returned"}
        /\ \A c \in Batches \ {b} : pc'[c] = pc[c]
    BY <1>2, <1>t DEF Begin, AwaitingPCs, WrittenPCs, PublishPCs, HolderPCs
  <2>2. \A c \in Batches \ {b} : /\ op'[c] = op[c] /\ seq'[c] = seq[c]
                                 /\ commitErr'[c] = commitErr[c]
    BY <1>2, <1>t DEF Begin
  <2>3. wal' = wal /\ syncQ' = syncQ /\ synced' = synced
    BY <1>2 DEF Begin, walVars
  <2> QED
    BY <2>1, <2>2, <2>3, SyncedReset
<1>3. ASSUME NEW b \in Batches, AssignSeqNum(b) PROVE SyncedInv'
  <2>1. /\ pc[b] \notin AwaitingPCs /\ pc'[b] \notin WrittenPCs \cup {"returned"}
        /\ \A c \in Batches \ {b} : pc'[c] = pc[c]
    BY <1>3, <1>t DEF AssignSeqNum, Goto, AwaitingPCs, WrittenPCs, PublishPCs, HolderPCs
  <2>2. /\ op' = op /\ commitErr' = commitErr
        /\ wal' = wal /\ syncQ' = syncQ /\ synced' = synced
        /\ \A c \in Batches \ {b} : seq'[c] = seq[c]
    BY <1>3, <1>t DEF AssignSeqNum, walVars
  <2> QED
    BY <2>1, <2>2, SyncedReset
<1>4. ASSUME NEW b \in Batches, Write(b) PROVE SyncedInv'
  <2>1. /\ pc[b] \notin WrittenPCs /\ pc'[b] # "returned"
        /\ \A c \in Batches \ {b} : pc'[c] = pc[c]
    BY <1>4, <1>t DEF Write, Goto, WrittenPCs, PublishPCs, HolderPCs
  <2>2. /\ LogWrite(b, op[b].sync # "none")
        /\ op' = op /\ seq' = seq /\ commitErr' = commitErr
    BY <1>4 DEF Write, batchVars
  <2> QED
    BY <2>1, <2>2, SyncedLogWrite
<1>5. ASSUME NEW b \in Batches, DirectWrite(b) PROVE SyncedInv'
  <2>1. /\ pc[b] \notin WrittenPCs /\ pc'[b] # "returned"
        /\ \A c \in Batches \ {b} : pc'[c] = pc[c]
    BY <1>5, <1>t DEF DirectWrite, Goto, WrittenPCs, PublishPCs, HolderPCs
  <2>2. /\ LogWrite(b, TRUE)
        /\ op' = op /\ seq' = seq /\ commitErr' = commitErr
    BY <1>5 DEF DirectWrite, batchVars
  <2> QED
    BY <2>1, <2>2, SyncedLogWrite
<1>6. ASSUME NEW b \in Batches, Return(b) PROVE SyncedInv'
  BY <1>6, SyncedReturn
<1>7. ASSUME NEW b \in Batches,
             AcquireCommitQueueSem(b) \/ AcquireLogSyncQSem(b) \/ DirectAcquire(b)
      PROVE  SyncedInv'
  <2>1. \A c \in Batches : pc'[c] \in WrittenPCs \cup {"returned"} => pc'[c] = pc[c]
    BY <1>7, <1>t DEF AcquireCommitQueueSem, AcquireLogSyncQSem, DirectAcquire, Goto,
       WrittenPCs, PublishPCs, HolderPCs
  <2>2. /\ op' = op /\ seq' = seq /\ commitErr' = commitErr
        /\ wal' = wal /\ syncQ' = syncQ /\ synced' = synced
    BY <1>7 DEF AcquireCommitQueueSem, AcquireLogSyncQSem, DirectAcquire, batchVars, walVars
  <2> QED
    BY <2>1, <2>2, SyncedFrame
<1>8. CASE LogSync
  BY <1>8, SyncedSync
<1>9. CASE LogPop
  BY <1>9, SyncedPop
<1>10. CASE LogRelease \/ LogFail \/ UNCHANGED vars
  BY <1>10, SyncedFrame DEF LogRelease, LogFail, vars, batchVars, walVars
<1> QED
  BY <1>1, <1>2, <1>3, <1>4, <1>5, <1>6, <1>7, <1>8, <1>9, <1>10
  DEF Next, CommitStep, PublishStep, Fault, LogStep, Finished, Silent

-----------------------------------------------------------------------------
(***************************************************************************)
(* The semaphores.                                                         *)
(***************************************************************************)

\* The sizes of sets of batches that differ by one.
LEMMA Count ==
  ASSUME NEW S \in SUBSET Batches, NEW T \in SUBSET Batches
  PROVE  /\ Cardinality(S) \in Nat /\ Cardinality(T) \in Nat
         /\ S \subseteq T => Cardinality(S) <= Cardinality(T)
         /\ \A b : T \subseteq S \cup {b} => Cardinality(T) <= Cardinality(S) + 1
         /\ \A b : b \notin S /\ S \cup {b} \subseteq T => Cardinality(S) + 1 <= Cardinality(T)
<1>1. IsFiniteSet(S) /\ IsFiniteSet(T)
  BY PipelineAssumption, FS_Subset
<1>2. Cardinality(S) \in Nat /\ Cardinality(T) \in Nat
  BY <1>1, FS_CardinalityType
<1>3. S \subseteq T => Cardinality(S) <= Cardinality(T)
  BY <1>1, FS_Subset
<1>4. ASSUME NEW b
      PROVE  /\ IsFiniteSet(S \cup {b})
             /\ Cardinality(S \cup {b}) = IF b \in S THEN Cardinality(S) ELSE Cardinality(S) + 1
  BY <1>1, FS_AddElement
<1>5. ASSUME NEW b, T \subseteq S \cup {b} PROVE Cardinality(T) <= Cardinality(S) + 1
  <2>1. Cardinality(T) <= Cardinality(S \cup {b})
    BY <1>4, <1>5, FS_Subset
  <2> QED
    BY <1>2, <1>4, <2>1
<1>6. ASSUME NEW b, b \notin S, S \cup {b} \subseteq T PROVE Cardinality(S) + 1 <= Cardinality(T)
  <2>1. Cardinality(S \cup {b}) <= Cardinality(T)
    BY <1>1, <1>6, FS_Subset
  <2> QED
    BY <1>2, <1>4, <1>6, <2>1
<1> QED
  BY <1>2, <1>3, <1>5, <1>6

\* The holders of units are finitely many.
LEMMA UnitTypes ==
  ASSUME IInv
  PROVE  /\ Sure \in SUBSET Batches /\ Maybe \in SUBSET Batches
         /\ Sure' \in SUBSET Batches /\ Maybe' \in SUBSET Batches
         /\ LogSure \in SUBSET Batches /\ LogMaybe \in SUBSET Batches
         /\ LogSure' \in SUBSET Batches /\ LogMaybe' \in SUBSET Batches
         /\ Waiting \in Nat /\ commitQueueSem \in Int /\ logSyncQSem \in Int
         /\ SyncConcurrency \in Nat
<1>1. /\ Sure \in SUBSET Batches /\ Maybe \in SUBSET Batches
      /\ Sure' \in SUBSET Batches /\ Maybe' \in SUBSET Batches
  BY DEF Sure, Maybe
<1>2. /\ LogSure \in SUBSET Batches /\ LogMaybe \in SUBSET Batches
      /\ LogSure' \in SUBSET Batches /\ LogMaybe' \in SUBSET Batches
  BY DEF LogSure, LogMaybe
<1>3. Waiting \in Nat
  BY LogFacts DEF Waiting
<1> QED
  BY <1>1, <1>2, <1>3, LogFacts, PipelineAssumption

\* The units of the commit queue when none is taken or given back.
LEMMA QueueUnitsFrame ==
  ASSUME IInv, QueueUnits, commitQueueSem' = commitQueueSem,
         Sure' \subseteq Sure, Maybe \subseteq Maybe'
  PROVE  QueueUnits'
<1>1. Cardinality(Sure') <= Cardinality(Sure) /\ Cardinality(Sure) \in Nat
      /\ Cardinality(Sure') \in Nat
  BY UnitTypes, Count
<1>2. Cardinality(Maybe) <= Cardinality(Maybe') /\ Cardinality(Maybe) \in Nat
      /\ Cardinality(Maybe') \in Nat
  BY UnitTypes, Count
<1> QED
  BY <1>1, <1>2, UnitTypes DEF QueueUnits

\* The sets of holders are left alone when the queue is and a goroutine moves
\* within, or stays out of, the part of its call in which it holds a unit.
LEMMA HoldersFrame ==
  ASSUME FailedOut,
         \A c \in Batches : pc[c] = "failed" => pc'[c] = "failed",
         \A c \in Batches : SemHeld(c)' <=> SemHeld(c)
  PROVE  Sure' \subseteq Sure /\ Maybe \subseteq Maybe'
BY DEF Sure, Maybe, FailedOut

\* A call takes a unit of the commit queue.
LEMMA QueueUnitsAcquire ==
  ASSUME IInv, QueueUnits, NEW b \in Batches, AcquireCommitQueueSem(b)
  PROVE  QueueUnits'
<1>t. pc \in [Batches -> PCs]
  BY LogFacts
<1>1. /\ pc[b] = "sem" /\ pc'[b] \in {"lock", "syncsem"}
      /\ \A c \in Batches : c # b => pc'[c] = pc[c]
      /\ commitQueueSem < SyncConcurrency - 1 /\ commitQueueSem' = commitQueueSem + 1
  BY <1>t DEF AcquireCommitQueueSem, Goto
<1>2. \A c \in Batches : InWindow(c)' <=> InWindow(c)
  BY QueueFrame DEF AcquireCommitQueueSem, queueVars, QueueSame
<1>3. Sure' \subseteq Sure \cup {b}
  BY <1>1, <1>2 DEF Sure, SemHeld, InCall
<1>4. b \notin Maybe /\ Maybe \cup {b} \subseteq Maybe'
  BY <1>1 DEF Maybe, SemHeld, InCall
<1>5. Cardinality(Sure') <= Cardinality(Sure) + 1 /\ Cardinality(Sure) \in Nat
      /\ Cardinality(Sure') \in Nat
  BY <1>3, UnitTypes, Count
<1>6. Cardinality(Maybe) + 1 <= Cardinality(Maybe') /\ Cardinality(Maybe) \in Nat
      /\ Cardinality(Maybe') \in Nat
  BY <1>4, UnitTypes, Count
<1> QED
  BY <1>1, <1>5, <1>6, UnitTypes DEF QueueUnits

\* A call gives its unit back when its batch has left the queue.
LEMMA QueueUnitsReturn ==
  ASSUME IInv, QueueUnits, NEW b \in Batches, Return(b)
  PROVE  QueueUnits'
<1>t. pc \in [Batches -> PCs]
  BY LogFacts
<1>1. /\ pc[b] = "wait" /\ pc'[b] \in {"syncwait", "failed", "returned"}
      /\ \A c \in Batches : c # b => pc'[c] = pc[c]
      /\ commitWG[b] = 0 /\ commitQueueSem' = commitQueueSem - 1
  BY <1>t DEF Return, Goto
<1>2. \A c \in Batches : InWindow(c)' <=> InWindow(c)
  BY QueueFrame DEF Return, queueVars, QueueSame
<1>3. ~InWindow(b)
  BY <1>1, WaitedFor
<1>4. b \notin Sure' /\ Sure' \cup {b} \subseteq Sure
  BY <1>1, <1>2, <1>3 DEF Sure, SemHeld, InCall
<1>5. Maybe \subseteq Maybe' \cup {b}
  BY <1>1 DEF Maybe, SemHeld, InCall
<1>6. Cardinality(Sure') + 1 <= Cardinality(Sure) /\ Cardinality(Sure) \in Nat
      /\ Cardinality(Sure') \in Nat
  BY <1>4, UnitTypes, Count
<1>7. Cardinality(Maybe) <= Cardinality(Maybe') + 1 /\ Cardinality(Maybe) \in Nat
      /\ Cardinality(Maybe') \in Nat
  BY <1>5, UnitTypes, Count
<1> QED
  BY <1>1, <1>6, <1>7, UnitTypes DEF QueueUnits

\* Every step keeps the units of the commit queue accounted for.
LEMMA NextQueueUnits == IInv /\ QueueUnits /\ [Next]_vars => QueueUnits'
<1> SUFFICES ASSUME IInv, QueueUnits, [Next]_vars PROVE QueueUnits'
  OBVIOUS
<1>t. pc \in [Batches -> PCs]
  BY LogFacts
<1>1. ASSUME NEW b \in Batches, Silent(b) PROVE QueueUnits'
  <2>1. SilentStep(b)
    BY <1>1, SilentIsSilent
  <2>2. \A c \in Batches : pc[c] = "failed" => pc'[c] = "failed"
    BY <2>1, <1>t DEF SilentStep, SilentMove, PlainMove
  <2>3. \A c \in Batches : SemHeld(c)' <=> SemHeld(c)
    BY <2>1, <1>t DEF SilentStep, SilentMove, PlainMove, SemHeld, InCall
  <2>4. Sure' \subseteq Sure /\ Maybe \subseteq Maybe'
    BY <1>1, <2>2, <2>3, SilentFailedOut, HoldersFrame
  <2> QED
    BY <2>1, <2>4, QueueUnitsFrame DEF SilentStep
<1>2. ASSUME NEW b \in Batches, AcquireCommitQueueSem(b) PROVE QueueUnits'
  BY <1>2, QueueUnitsAcquire
<1>3. ASSUME NEW b \in Batches, Return(b) PROVE QueueUnits'
  BY <1>3, QueueUnitsReturn
<1>4. ASSUME NEW b \in Batches,
             \/ \E o \in Ops : Begin(b, o)
             \/ AcquireLogSyncQSem(b) \/ AssignSeqNum(b) \/ Write(b)
             \/ DirectAcquire(b) \/ DirectWrite(b)
      PROVE  QueueUnits'
  <2>1. QueueSame /\ commitQueueSem' = commitQueueSem
    BY <1>4 DEF Begin, AcquireLogSyncQSem, AssignSeqNum, Write, DirectAcquire,
       DirectWrite, queueVars, semVars, QueueSame
  <2>2. FailedOut
    BY <2>1, QueueFrame DEF FailedOut
  <2>3. /\ \A c \in Batches : c # b => pc'[c] = pc[c]
        /\ pc[b] # "failed"
        /\ SemHeld(b)' <=> SemHeld(b)
    BY <1>4, <1>t DEF Begin, AcquireLogSyncQSem, AssignSeqNum, Write, DirectAcquire,
       DirectWrite, Goto, SemHeld, InCall
  <2>4. \A c \in Batches : SemHeld(c)' <=> SemHeld(c)
    BY <2>3 DEF SemHeld, InCall
  <2> QED
    BY <2>1, <2>2, <2>3, <2>4, HoldersFrame, QueueUnitsFrame
<1>5. CASE LogStep \/ LogFail \/ UNCHANGED vars
  <2>1. QueueSame /\ commitQueueSem' = commitQueueSem /\ pc' = pc
    BY <1>5 DEF LogStep, LogSync, LogPop, LogRelease, LogFail, vars, queueVars, semVars,
       QueueSame
  <2>2. FailedOut
    BY <2>1, QueueFrame DEF FailedOut
  <2>3. \A c \in Batches : SemHeld(c)' <=> SemHeld(c)
    BY <2>1 DEF SemHeld, InCall
  <2> QED
    BY <2>1, <2>2, <2>3, HoldersFrame, QueueUnitsFrame
<1> QED
  BY <1>1, <1>2, <1>3, <1>4, <1>5
  DEF Next, CommitStep, PublishStep, Fault, Finished, Silent

\* The units of the sync queue: those held by goroutines and those of waiters
\* change by the same number.
LEMMA LogUnitsFrame ==
  ASSUME IInv, LogUnits, logSyncQSem' = logSyncQSem, Waiting' = Waiting,
         LogSure' \subseteq LogSure, LogMaybe \subseteq LogMaybe',
         \A c \in Batches : pc'[c] = "syncsem" => op'[c].sync # "none"
  PROVE  LogUnits'
<1>1. Cardinality(LogSure') <= Cardinality(LogSure) /\ Cardinality(LogSure) \in Nat
      /\ Cardinality(LogSure') \in Nat
  BY UnitTypes, Count
<1>2. Cardinality(LogMaybe) <= Cardinality(LogMaybe') /\ Cardinality(LogMaybe) \in Nat
      /\ Cardinality(LogMaybe') \in Nat
  BY UnitTypes, Count
<1> QED
  BY <1>1, <1>2, UnitTypes DEF LogUnits

\* When a step leaves the holders of sync units alone.
LEMMA LogHoldersFrame ==
  ASSUME \A c \in Batches : LogUnitHeld(c)' => LogUnitHeld(c),
         \A c \in Batches : LogUnitHeld(c) \/ pc[c] = "failed" =>
            LogUnitHeld(c)' \/ pc'[c] = "failed"
  PROVE  LogSure' \subseteq LogSure /\ LogMaybe \subseteq LogMaybe'
BY DEF LogSure, LogMaybe

\* A call takes a unit of the sync queue.
LEMMA LogUnitsAcquire ==
  ASSUME IInv, LogUnits, NEW b \in Batches, AcquireLogSyncQSem(b) \/ DirectAcquire(b)
  PROVE  LogUnits'
<1>t. pc \in [Batches -> PCs]
  BY LogFacts
<1>1. /\ \/ pc[b] = "syncsem" /\ pc'[b] = "lock"
         \/ pc[b] = "directsem" /\ pc'[b] = "directwrite"
      /\ \A c \in Batches : c # b => pc'[c] = pc[c]
      /\ logSyncQSem < SyncConcurrency - 1 /\ logSyncQSem' = logSyncQSem + 1
      /\ op' = op /\ syncQ' = syncQ /\ popped' = popped
  BY <1>t DEF AcquireLogSyncQSem, DirectAcquire, Goto, batchVars, walVars
<1>2. pc[b] = "syncsem" => op[b].sync # "none"
  BY DEF LogUnits
<1>3. ~LogUnitHeld(b) /\ LogUnitHeld(b)' /\ pc[b] # "failed"
      /\ \A c \in Batches : c # b => (LogUnitHeld(c)' <=> LogUnitHeld(c))
  BY <1>1, <1>2 DEF LogUnitHeld
<1>4. LogSure' \subseteq LogSure \cup {b}
  BY <1>3 DEF LogSure
<1>5. b \notin LogMaybe /\ LogMaybe \cup {b} \subseteq LogMaybe'
  BY <1>1, <1>3 DEF LogMaybe
<1>6. Waiting' = Waiting
  BY <1>1 DEF Waiting
<1>7. Cardinality(LogSure') <= Cardinality(LogSure) + 1 /\ Cardinality(LogSure) \in Nat
      /\ Cardinality(LogSure') \in Nat
  BY <1>4, UnitTypes, Count
<1>8. Cardinality(LogMaybe) + 1 <= Cardinality(LogMaybe') /\ Cardinality(LogMaybe) \in Nat
      /\ Cardinality(LogMaybe') \in Nat
  BY <1>5, UnitTypes, Count
<1> QED
  BY <1>1, <1>6, <1>7, <1>8, UnitTypes DEF LogUnits

\* A goroutine hands its unit to the waiter it pushes.
LEMMA LogUnitsPush ==
  ASSUME IInv, LogUnits, NEW b \in Batches, LogUnitHeld(b), LogWrite(b, TRUE),
         ~LogUnitHeld(b)', pc[b] # "failed", pc'[b] \notin {"failed", "syncsem"},
         \A c \in Batches : c # b => pc'[c] = pc[c],
         op' = op, logSyncQSem' = logSyncQSem
  PROVE  LogUnits'
<1>1. Waiting' = Waiting + 1
  <2>1. syncQ' = Append(syncQ, [at |-> Len(wal) + 1, batch |-> b]) /\ popped' = popped
    BY DEF LogWrite
  <2>2. Len(syncQ') = Len(syncQ) + 1
    BY <2>1, LogFacts
  <2> QED
    BY <2>1, <2>2, LogFacts DEF Waiting
<1>2. \A c \in Batches : c # b => (LogUnitHeld(c)' <=> LogUnitHeld(c))
  BY DEF LogUnitHeld
<1>3. b \notin LogSure' /\ LogSure' \cup {b} \subseteq LogSure
  BY <1>2 DEF LogSure
<1>4. LogMaybe \subseteq LogMaybe' \cup {b}
  BY <1>2 DEF LogMaybe
<1>5. Cardinality(LogSure') + 1 <= Cardinality(LogSure) /\ Cardinality(LogSure) \in Nat
      /\ Cardinality(LogSure') \in Nat
  BY <1>3, UnitTypes, Count
<1>6. Cardinality(LogMaybe) <= Cardinality(LogMaybe') + 1 /\ Cardinality(LogMaybe) \in Nat
      /\ Cardinality(LogMaybe') \in Nat
  BY <1>4, UnitTypes, Count
<1> QED
  BY <1>1, <1>5, <1>6, UnitTypes DEF LogUnits

\* Every step keeps the units of the sync queue accounted for.
LEMMA NextLogUnits == IInv /\ LogUnits /\ [Next]_vars => LogUnits'
<1> SUFFICES ASSUME IInv, LogUnits, [Next]_vars PROVE LogUnits'
  OBVIOUS
<1>t. pc \in [Batches -> PCs] /\ op \in [Batches -> OpType]
  BY LogFacts
<1>s. \A c \in Batches : pc[c] = "syncsem" => op[c].sync # "none"
  BY DEF LogUnits
<1>1. ASSUME NEW b \in Batches, Silent(b) PROVE LogUnits'
  <2>1. SilentStep(b)
    BY <1>1, SilentIsSilent
  <2>2. \A c \in Batches : LogUnitHeld(c)' => LogUnitHeld(c)
    BY <2>1, <1>t DEF SilentStep, SilentMove, PlainMove, LogUnitHeld
  <2>3. \A c \in Batches : LogUnitHeld(c) \/ pc[c] = "failed" =>
          LogUnitHeld(c)' \/ pc'[c] = "failed"
    BY <2>1, <1>t DEF SilentStep, SilentMove, PlainMove, LogUnitHeld
  <2>4. \A c \in Batches : pc'[c] = "syncsem" => op'[c].sync # "none"
    BY <2>1, <1>t, <1>s DEF SilentStep, SilentMove, PlainMove
  <2>5. Waiting' = Waiting /\ logSyncQSem' = logSyncQSem
    BY <2>1 DEF SilentStep, Waiting
  <2> QED
    BY <2>2, <2>3, <2>4, <2>5, LogHoldersFrame, LogUnitsFrame
<1>2. ASSUME NEW b \in Batches, AcquireLogSyncQSem(b) \/ DirectAcquire(b) PROVE LogUnits'
  BY <1>2, LogUnitsAcquire
<1>3. ASSUME NEW b \in Batches, NEW o \in Ops, Begin(b, o) PROVE LogUnits'
  <2>1. /\ pc[b] \in {"idle", "returned"} /\ pc'[b] \in {"ingestsem", "sem"}
        /\ \A c \in Batches : c # b => pc'[c] = pc[c] /\ op'[c] = op[c]
    BY <1>3, <1>t DEF Begin
  <2>2. \A c \in Batches : LogUnitHeld(c)' <=> LogUnitHeld(c)
    BY <2>1 DEF LogUnitHeld
  <2>3. Waiting' = Waiting /\ logSyncQSem' = logSyncQSem
    BY <1>3 DEF Begin, walVars, semVars, Waiting
  <2>4. LogSure' \subseteq LogSure /\ LogMaybe \subseteq LogMaybe'
    BY <2>1, <2>2, LogHoldersFrame
  <2> QED
    BY <1>s, <2>1, <2>3, <2>4, LogUnitsFrame
<1>4. ASSUME NEW b \in Batches, AcquireCommitQueueSem(b) \/ AssignSeqNum(b) \/ Return(b)
      PROVE  LogUnits'
  <2>1. /\ \A c \in Batches : c # b => pc'[c] = pc[c]
        /\ pc[b] # "failed" /\ op' = op
        /\ pc'[b] = "syncsem" => op[b].sync # "none"
    BY <1>4, <1>t DEF AcquireCommitQueueSem, AssignSeqNum, Return, Goto, batchVars
  <2>2. IsIngest(b) => op[b].sync = "none"
    BY <1>t DEF IsIngest, OpType
  <2>3. LogUnitHeld(b)' <=> LogUnitHeld(b)
    BY <1>4, <1>t, <2>1, <2>2 DEF AcquireCommitQueueSem, AssignSeqNum, Return, Goto, LogUnitHeld
  <2>4. \A c \in Batches : LogUnitHeld(c)' <=> LogUnitHeld(c)
    BY <2>1, <2>3 DEF LogUnitHeld
  <2>5. Waiting' = Waiting /\ logSyncQSem' = logSyncQSem
    BY <1>4 DEF AcquireCommitQueueSem, AssignSeqNum, Return, walVars, semVars, Waiting
  <2>6. LogSure' \subseteq LogSure /\ LogMaybe \subseteq LogMaybe'
    BY <2>1, <2>4, LogHoldersFrame
  <2> QED
    BY <1>s, <2>1, <2>5, <2>6, LogUnitsFrame
<1>5. ASSUME NEW b \in Batches, Write(b) PROVE LogUnits'
  <2>1. /\ pc[b] = "write" /\ pc'[b] = "apply"
        /\ \A c \in Batches : c # b => pc'[c] = pc[c]
        /\ op' = op /\ logSyncQSem' = logSyncQSem
    BY <1>5, <1>t DEF Write, Goto, batchVars, semVars
  <2>2. ~LogUnitHeld(b)' /\ (LogUnitHeld(b) <=> op[b].sync # "none")
    BY <2>1 DEF LogUnitHeld
  <2>3. CASE op[b].sync # "none"
    <3>1. LogWrite(b, TRUE)
      BY <1>5, <2>3 DEF Write
    <3> QED
      BY <2>1, <2>2, <2>3, <3>1, LogUnitsPush
  <2>4. CASE op[b].sync = "none"
    <3>1. Waiting' = Waiting
      BY <1>5, <2>4 DEF Write, LogWrite, Waiting
    <3>2. \A c \in Batches : LogUnitHeld(c)' <=> LogUnitHeld(c)
      BY <2>1, <2>2, <2>4 DEF LogUnitHeld
    <3>3. LogSure' \subseteq LogSure /\ LogMaybe \subseteq LogMaybe'
      BY <2>1, <3>2, LogHoldersFrame
    <3> QED
      BY <1>s, <2>1, <3>1, <3>3, LogUnitsFrame
  <2> QED
    BY <2>3, <2>4
<1>6. ASSUME NEW b \in Batches, DirectWrite(b) PROVE LogUnits'
  <2>1. /\ pc[b] = "directwrite" /\ pc'[b] = "directwait"
        /\ \A c \in Batches : c # b => pc'[c] = pc[c]
        /\ op' = op /\ logSyncQSem' = logSyncQSem /\ LogWrite(b, TRUE)
    BY <1>6, <1>t DEF DirectWrite, Goto, batchVars, semVars
  <2>2. LogUnitHeld(b) /\ ~LogUnitHeld(b)'
    BY <2>1 DEF LogUnitHeld
  <2> QED
    BY <2>1, <2>2, LogUnitsPush
<1>7. CASE LogPop
  <2>1. /\ pc' = pc /\ op' = op /\ logSyncQSem' = logSyncQSem /\ syncQ # <<>>
        /\ syncQ' = Tail(syncQ) /\ ~popped /\ popped'
    BY <1>7 DEF LogPop, semVars
  <2>2. Waiting' = Waiting
    BY <2>1, LogFacts DEF Waiting
  <2>3. LogSure' \subseteq LogSure /\ LogMaybe \subseteq LogMaybe'
    BY <2>1 DEF LogSure, LogMaybe, LogUnitHeld
  <2> QED
    BY <1>s, <2>1, <2>2, <2>3, LogUnitsFrame
<1>8. CASE LogRelease
  <2>1. /\ pc' = pc /\ op' = op /\ logSyncQSem' = logSyncQSem - 1
        /\ syncQ' = syncQ /\ popped /\ ~popped'
    BY <1>8 DEF LogRelease, batchVars
  <2>2. Waiting' = Waiting - 1
    BY <2>1, LogFacts DEF Waiting
  <2>3. LogSure' = LogSure /\ LogMaybe' = LogMaybe
    BY <2>1 DEF LogSure, LogMaybe, LogUnitHeld
  <2>4. Cardinality(LogSure) \in Nat /\ Cardinality(LogMaybe) \in Nat
    BY UnitTypes, Count
  <2> QED
    BY <1>s, <2>1, <2>2, <2>3, <2>4, UnitTypes DEF LogUnits
<1>9. CASE LogSync \/ LogFail \/ UNCHANGED vars
  <2>1. /\ pc' = pc /\ op' = op /\ logSyncQSem' = logSyncQSem
        /\ syncQ' = syncQ /\ popped' = popped
    BY <1>9 DEF LogSync, LogFail, vars, batchVars, semVars, walVars
  <2>2. Waiting' = Waiting
    BY <2>1 DEF Waiting
  <2>3. LogSure' \subseteq LogSure /\ LogMaybe \subseteq LogMaybe'
    BY <2>1 DEF LogSure, LogMaybe, LogUnitHeld
  <2> QED
    BY <1>s, <2>1, <2>2, <2>3, LogUnitsFrame
<1> QED
  BY <1>1, <1>2, <1>3, <1>4, <1>5, <1>6, <1>7, <1>8, <1>9
  DEF Next, CommitStep, PublishStep, Fault, LogStep, Finished, Silent

-----------------------------------------------------------------------------
(***************************************************************************)
(* The panics.                                                             *)
(***************************************************************************)

\* Every batch in the queue, and the one about to enter it, holds a unit.
LEMMA QueueHasRoom ==
  ASSUME IInv, QueueUnits, NEW b \in Batches, pc[b] = "enqueue"
  PROVE  head - tail + 1 <= SyncConcurrency - 1
<1>t. head \in Nat /\ tail \in Nat /\ tail <= head
  BY TypeFacts DEF IInv, WalInv, RingInv
<1>1. \A i \in Window : At(i) \in Sure \ {b}
  <2> SUFFICES ASSUME NEW i \in Window PROVE At(i) \in Sure \ {b}
    OBVIOUS
  <2>1. At(i) \in Batches /\ pc[At(i)] \in QueuedPCs /\ InWindow(At(i))
    BY DEF IInv, RingInv, InWindow
  <2> QED
    BY <2>1 DEF Sure, SemHeld, InCall, QueuedPCs, UnappliedPCs, PublishPCs, HolderPCs
<1> DEFINE f == [i \in Window |-> At(i)]
<1>2. f \in Injection(Window, Sure \ {b})
  BY <1>1 DEF Injection, IsInjective, IInv, RingInv
<1>3. IsFiniteSet(Sure) /\ b \in Sure
  <2>1. b \in Sure
    BY DEF Sure, SemHeld, InCall
  <2> QED
    BY <2>1, UnitTypes, PipelineAssumption, FS_Subset
<1>4. IsFiniteSet(Sure \ {b}) /\ Cardinality(Sure \ {b}) = Cardinality(Sure) - 1
  BY <1>3, FS_RemoveElement
<1> HIDE DEF f
<1>5. Cardinality(Window) <= Cardinality(Sure \ {b})
  BY <1>2, <1>4, FS_Injection
<1>6. Cardinality(Window) = head - tail
  BY <1>t, FS_Interval DEF Window
<1>7. Cardinality(Sure) \in Nat
  BY <1>3, FS_CardinalityType
<1> QED
  BY <1>4, <1>5, <1>6, <1>7, <1>t, UnitTypes DEF QueueUnits

\* So does every waiter in the sync queue, and the goroutine about to push one.
LEMMA SyncQueueHasRoom ==
  ASSUME IInv, LogUnits, NEW b \in Batches, LogUnitHeld(b)
  PROVE  Len(syncQ) + 1 <= SyncConcurrency - 1
<1>1. {b} \in SUBSET Batches /\ {b} \subseteq LogSure
  BY DEF LogSure
<1>2. Cardinality({b}) <= Cardinality(LogSure) /\ Cardinality(LogSure) \in Nat
  BY <1>1, UnitTypes, Count
<1>3. Len(syncQ) <= Waiting /\ Len(syncQ) \in Nat
  BY LogFacts DEF Waiting
<1>4. Cardinality({b}) = 1
  BY FS_Singleton
<1> QED
  BY <1>2, <1>3, <1>4, UnitTypes DEF LogUnits

\* No step panics.
LEMMA NextNoPanic == SyncIInv /\ [Next]_vars => NoPanic'
<1> SUFFICES ASSUME SyncIInv, [Next]_vars PROVE dead' # "panic"
  BY DEF NoPanic
<1>i. IInv /\ QueueUnits /\ LogUnits /\ dead # "panic"
  BY DEF SyncIInv, NoPanic
<1>t. /\ pc \in [Batches -> PCs] /\ head \in Nat /\ tail \in Nat
      /\ \A c \in Batches : pc[c] \in HolderPCs => lBatch[c] \in Batches
  BY <1>i, TypeFacts DEF IInv, WalInv
<1>1. ASSUME NEW b \in Batches, EnqueueCheck(b) PROVE dead' # "panic"
  <2>1. pc[b] = "enqueue"
    BY <1>1 DEF EnqueueCheck
  <2>2. head - tail + 1 <= SyncConcurrency - 1 /\ tail <= head
    BY <1>i, <2>1, QueueHasRoom DEF IInv, RingInv
  <2>3. Index(tail + SyncConcurrency) # Index(head)
    <3>1. /\ SyncConcurrency \in Nat /\ IndexMod \in Nat \ {0} /\ IndexMod > SyncConcurrency
      BY PipelineAssumption
    <3>2. tail + SyncConcurrency \in Nat /\ head < tail + SyncConcurrency
          /\ tail + SyncConcurrency < head + IndexMod
      BY <1>t, <2>2, <3>1
    <3> QED
      BY <1>t, <2>2, <3>1, <3>2, IndexSame
  <2> QED
    BY <1>1, <1>i, <2>3 DEF EnqueueCheck
<1>2. ASSUME NEW b \in Batches, Write(b) \/ DirectWrite(b) PROVE dead' # "panic"
  <2>1. PICK sync \in BOOLEAN : LogWrite(b, sync) /\ (sync => LogUnitHeld(b))
    <3>1. CASE Write(b)
      <4>1. LogWrite(b, op[b].sync # "none") /\ pc[b] = "write"
        BY <3>1 DEF Write, Goto
      <4> QED
        BY <4>1 DEF LogUnitHeld
    <3>2. CASE DirectWrite(b)
      <4>1. LogWrite(b, TRUE) /\ pc[b] = "directwrite"
        BY <3>2 DEF DirectWrite, Goto
      <4> QED
        BY <4>1 DEF LogUnitHeld
    <3> QED
      BY <1>2, <3>1, <3>2
  <2>2. sync => Len(syncQ) < SyncConcurrency
    BY <2>1, <1>i, SyncQueueHasRoom, LogFacts, UnitTypes
  <2> QED
    BY <2>1, <2>2, <1>i, LogFacts, UnitTypes DEF LogWrite
<1>3. ASSUME NEW b \in Batches, LoadVisible(b) \/ CommitDone(b) PROVE dead' # "panic"
  <2>1. pc[b] \in HolderPCs
    BY <1>3 DEF LoadVisible, CommitDone, Goto, HolderPCs
  <2>2. applied[lBatch[b]]
    BY <1>i, <2>1 DEF IInv, HeldInv
  <2>3. commitWG[lBatch[b]] >= 1
    BY <1>i, <1>t, <2>1 DEF IInv, WaitInv, PublishPending, Held
  <2> QED
    BY <1>3, <1>i, <2>2, <2>3 DEF LoadVisible, CommitDone
<1>4. CASE LogPop
  <2> DEFINE b == syncQ[1].batch
  <2>1. Len(syncQ) >= 1 /\ Head(syncQ) = syncQ[1] /\ b \in Batches
    BY <1>4, <1>i, LogFacts DEF LogPop
  <2>2. InSyncQ(b)
    BY <2>1, <1>i, LogFacts DEF InSyncQ
  <2>3. op[b].sync = "wait" => commitWG[b] >= 1
    BY <1>i, <2>1, <2>2 DEF IInv, WaitInv, SyncPending
  <2>4. op[b].sync # "wait" => fsyncWG[b] >= 1
    BY <1>i, <2>1, LogFacts DEF IInv, SyncInv
  <2> QED
    BY <1>4, <1>i, <2>1, <2>3, <2>4 DEF LogPop
<1>5. ASSUME NEW b \in Batches, Fatal(b) PROVE dead' # "panic"
  BY <1>5 DEF Fatal
<1>6. ASSUME NEW b \in Batches,
             \/ \E o \in Ops : Begin(b, o)
             \/ AcquireIngestSem(b) \/ AcquireCommitQueueSem(b) \/ AcquireLogSyncQSem(b)
             \/ RefuseInvalidBatch(b) \/ Lock(b) \/ EnqueueStore(b) \/ EnqueueBump(b)
             \/ AssignSeqNum(b) \/ Drain(b) \/ IngestPrepare(b)
      PROVE  dead' # "panic"
  BY <1>6, <1>i DEF Begin, AcquireIngestSem, AcquireCommitQueueSem, AcquireLogSyncQSem,
     RefuseInvalidBatch, Lock, EnqueueStore, EnqueueBump, AssignSeqNum, Drain,
     IngestPrepare
<1>7. ASSUME NEW b \in Batches,
             \/ DirectAcquire(b) \/ DirectWait(b) \/ Apply(b) \/ MarkApplied(b)
             \/ LoadHeadTail(b) \/ LoadSlot(b) \/ LoadApplied(b)
             \/ CompareAndSwapTail(b) \/ ClearSlot(b) \/ Ratchet(b) \/ Return(b)
             \/ SyncWait(b) \/ WriteFails(b) \/ ApplyFails(b)
      PROVE  dead' # "panic"
  BY <1>7, <1>i DEF DirectAcquire, DirectWait, Apply, MarkApplied, LoadHeadTail, LoadSlot,
     LoadApplied, CompareAndSwapTail, ClearSlot, Ratchet, Return, SyncWait, WriteFails,
     ApplyFails
<1>8. CASE LogSync \/ LogRelease \/ LogFail \/ UNCHANGED vars
  BY <1>8, <1>i DEF LogSync, LogRelease, LogFail, vars
<1> QED
  BY <1>1, <1>2, <1>3, <1>4, <1>5, <1>6, <1>7, <1>8
  DEF Next, CommitStep, PublishStep, Fault, LogStep, Finished

-----------------------------------------------------------------------------
(***************************************************************************)
(* What holds in every state.                                              *)
(***************************************************************************)

\* The invariant holds at the start.
LEMMA InitSync == Init => SyncIInv
<1> SUFFICES ASSUME Init PROVE SyncIInv
  OBVIOUS
<1>1. IInv
  BY InitInv
<1>2. pc = [b \in Batches |-> "idle"] /\ wal = <<>> /\ syncQ = <<>> /\ synced = 0
      /\ commitQueueSem = 0 /\ logSyncQSem = 0 /\ ~popped /\ dead = "no"
  BY DEF Init
<1>3. IngestInv
  BY <1>2 DEF IngestInv, IngestPCs
<1>4. SyncedInv
  BY <1>2 DEF SyncedInv, WrittenPCs, PublishPCs, HolderPCs
<1>5. Sure = {} /\ Maybe = {} /\ LogSure = {} /\ LogMaybe = {} /\ Waiting = 0
  BY <1>2 DEF Sure, Maybe, LogSure, LogMaybe, SemHeld, InCall, LogUnitHeld, Waiting
<1>6. Cardinality({}) = 0 /\ SyncConcurrency \in Nat \ {0, 1}
  BY FS_EmptySet, PipelineAssumption
<1>7. QueueUnits /\ LogUnits
  BY <1>2, <1>5, <1>6 DEF QueueUnits, LogUnits
<1> QED
  BY <1>1, <1>2, <1>3, <1>4, <1>7 DEF SyncIInv, NoPanic

\* The invariant holds throughout.
LEMMA SyncAlways == Spec => []SyncIInv
<1>1. Init => SyncIInv
  BY InitSync
<1>2. SyncIInv /\ [Next]_vars => SyncIInv'
  BY NextInv, NextIngest, NextSynced, NextQueueUnits, NextLogUnits, NextNoPanic DEF SyncIInv
<1> QED
  BY <1>1, <1>2, PTL DEF Spec

\* No panic of commit.go, nor a negative wait group, is reached: a goroutine
\* takes its units before commitPipeline.mu and gives them back far away, yet
\* neither the commit queue nor the sync queue is ever full when one enters.
THEOREM PanicsUnreachable == Spec => []NoPanic
<1>1. SyncIInv => NoPanic
  BY DEF SyncIInv
<1> QED
  BY <1>1, SyncAlways, PTL

\* As long as no call has failed, a unit of commitQueueSem is out for each call
\* between its acquire and its release and for nobody else, and one of
\* logSyncQSem for each waiter on its way to, in or just out of the sync queue.
THEOREM UnitsExact == Spec => []UnitsAccounted
<1>1. SyncIInv => UnitsAccounted
  <2> SUFFICES ASSUME SyncIInv, \A b \in Batches : pc[b] # "failed"
               PROVE  /\ commitQueueSem = Cardinality({b \in Batches : SemHeld(b)})
                      /\ logSyncQSem = Cardinality({b \in Batches : LogUnitHeld(b)})
                                       + Len(syncQ) + (IF popped THEN 1 ELSE 0)
    BY DEF UnitsAccounted
  <2>1. Sure = {b \in Batches : SemHeld(b)} /\ Maybe = {b \in Batches : SemHeld(b)}
    BY DEF Sure, Maybe
  <2>2. /\ LogSure = {b \in Batches : LogUnitHeld(b)}
        /\ LogMaybe = {b \in Batches : LogUnitHeld(b)}
    BY DEF LogSure, LogMaybe
  <2>3. IInv /\ QueueUnits /\ LogUnits
    BY DEF SyncIInv
  <2>4. Cardinality(Sure) \in Nat /\ Cardinality(LogSure) \in Nat
    BY <2>3, UnitTypes, Count
  <2>5. commitQueueSem = Cardinality(Sure)
    BY <2>1, <2>3, <2>4, UnitTypes DEF QueueUnits
  <2>6. logSyncQSem = Cardinality(LogSure) + Waiting
    BY <2>2, <2>3, <2>4, UnitTypes DEF LogUnits
  <2> QED
    BY <2>1, <2>2, <2>3, <2>4, <2>5, <2>6, LogFacts DEF Waiting
<1> QED
  BY <1>1, SyncAlways, PTL

\* A call that asked for a sync and came back without an error, from Commit or
\* from SyncWait, has its own record in the durable prefix of the WAL.
THEOREM AcksAreDurable == Spec => []AckDurable
<1>1. SyncIInv => AckDurable
  BY DEF SyncIInv, SyncedInv, AckDurable, Durable, Record
<1> QED
  BY <1>1, SyncAlways, PTL

\* The prepare callback of an ingestion runs when all that was sequenced before
\* it has been applied, and nothing is sequenced while it runs.
THEOREM IngestionsSeeAll == Spec => []IngestSeesAll
<1>1. SyncIInv => IngestSeesAll
  BY DEF SyncIInv, IngestInv, IngestSeesAll, IngestPCs
<1> QED
  BY <1>1, SyncAlways, PTL

=============================================================================
