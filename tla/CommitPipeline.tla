--------------------------- MODULE CommitPipeline ---------------------------
(***************************************************************************)
(* Pebble's commit pipeline (commit.go): the lock-free commitQueue, the    *)
(* semaphores, Commit and AllocateSeqNum, and publish, which ratchets the  *)
(* visible sequence number.  Every goroutine runs one call at a time on    *)
(* one Batch object, so a batch names its goroutine too; a batch whose     *)
(* call has returned is recycled (Batch.Close puts it back in a pool), and *)
(* a stale pointer to it may still be in another goroutine's hands.        *)
(*                                                                         *)
(* One action is one atomic operation of the code: a channel operation, a  *)
(* mutex operation, a load, a store or a compare-and-swap.                 *)
(*                                                                         *)
(* The LogWriter behind commitEnv.write is represented by what its flush   *)
(* loop does to the callers: syncing a prefix of the WAL, failing for      *)
(* good, waking the waiters in order and releasing their semaphore units.  *)
(***************************************************************************)
EXTENDS Integers, Sequences, FiniteSets

CONSTANTS
  Batches,          \* the Batch objects in use, one goroutine each
  NoBatch,          \* the nil pointer
  Ops,              \* the calls goroutines make, see OpType
  SyncConcurrency,  \* slots of the queue, 1 << 12 in the code
  IndexMod,         \* head and tail are uint32: 2^32 in the code
  StartIndex,       \* head = tail after this many earlier, finished calls
  StartSeqNum,      \* logSeqNum = visibleSeqNum before the first call
  MaxCalls,         \* bound on the number of calls
  Faults            \* what may fail: "write", "apply", "log"

Kinds == {"commit", "large", "invalid", "ingest", "ingestFlushable"}
SyncModes == {"none", "wait", "nowait"}

\* n is Batch.Count(): 0 for a batch that only holds LogData.  "invalid" is a
\* batch whose count is invalidBatchCount, "large" one that is a flushable of
\* its own.  An empty batch is no call: Commit returns before it does anything.
OpType == {o \in [kind : Kinds, n : Nat, sync : SyncModes] :
             o.kind \in {"ingest", "ingestFlushable"} => o.sync = "none"}

ASSUME PipelineAssumption ==
  /\ IsFiniteSet(Batches) /\ NoBatch \notin Batches
  /\ Ops \subseteq OpType
  /\ SyncConcurrency \in Nat \ {0, 1}
  /\ IndexMod \in Nat \ {0}
  /\ IndexMod > SyncConcurrency /\ IndexMod % SyncConcurrency = 0
  /\ StartIndex \in Nat
  /\ StartSeqNum \in Nat
  /\ MaxCalls \in 0 .. IndexMod - 1   \* no index comes back to a stale reader
  /\ Faults \subseteq {"write", "apply", "log"}

VARIABLES
  \* commitQueue
  head, tail,       \* number of enqueues and of dequeues; the code keeps both
                    \* modulo IndexMod, packed in headTail
  slots,
  \* commitPipeline and commitEnv
  mu,               \* the batch whose goroutine holds commitPipeline.mu
  commitQueueSem, logSyncQSem, ingestSem,   \* units taken
  logSeqNum, visibleSeqNum,
  mem,              \* sequence numbers with nothing more to be applied
  ends,             \* history: the sequence number after each sequenced batch
  \* the LogWriter, seen from commitEnv.write
  wal,              \* records written, in order
  syncQ,            \* waiters: the record's place in wal and its batch
  synced,           \* length of the prefix of wal known to be durable
  walErr,           \* the flush loop has met an error
  popped,           \* pop has woken a waiter and not yet released its unit
  \* per batch
  pc, op, seq, applied,
  commitWG,         \* Batch.commit
  fsyncWG,          \* Batch.fsyncWait, and syncWG of directWrite
  commitErr,
  \* locals of dequeueApplied, publish and AllocateSeqNum
  lHead, lTail, lBatch, lSeq,
  calls,            \* calls begun
  dead              \* "no", "panic", or "fatal": the process has ended

queueVars == <<head, tail, slots>>
semVars   == <<commitQueueSem, logSyncQSem, ingestSem>>
seqVars   == <<logSeqNum, visibleSeqNum, mem, ends>>
walVars   == <<wal, syncQ, synced, walErr, popped>>
batchVars == <<op, seq, applied, commitWG, fsyncWG, commitErr>>
localVars == <<lHead, lTail, lBatch, lSeq>>
vars == <<queueVars, mu, semVars, seqVars, walVars, pc, batchVars, localVars,
          calls, dead>>

PCs == {"idle", "ingestsem", "sem", "syncsem", "lock", "enqueue", "store",
        "bump", "seq", "write", "drain", "prepare", "directsem",
        "directwrite", "directwait", "apply", "load", "slot", "check", "cas",
        "clear", "visible", "ratchet", "done", "wait", "syncwait", "returned",
        "failed", "aborted"}

Slot(i)   == i % SyncConcurrency
Index(i)  == i % IndexMod
Entries(b) == seq[b] .. (seq[b] + op[b].n - 1)
End(b)    == seq[b] + op[b].n
IsIngest(b) == op[b].kind \in {"ingest", "ingestFlushable"}

Goto(b, from, to) ==
  /\ pc[b] = from
  /\ pc' = [pc EXCEPT ![b] = to]

Init ==
  /\ head = StartIndex /\ tail = StartIndex
  /\ slots = [i \in 0 .. SyncConcurrency - 1 |-> NoBatch]
  /\ mu = NoBatch
  /\ commitQueueSem = 0 /\ logSyncQSem = 0 /\ ingestSem = 0
  /\ logSeqNum = StartSeqNum /\ visibleSeqNum = StartSeqNum
  /\ mem = {} /\ ends = {StartSeqNum}
  /\ wal = <<>> /\ syncQ = <<>> /\ synced = 0 /\ walErr = FALSE
  /\ popped = FALSE
  /\ pc = [b \in Batches |-> "idle"]
  /\ op = [b \in Batches |-> [kind |-> "commit", n |-> 0, sync |-> "none"]]
  /\ seq = [b \in Batches |-> 0]
  /\ applied = [b \in Batches |-> FALSE]
  /\ commitWG = [b \in Batches |-> 0]
  /\ fsyncWG = [b \in Batches |-> 0]
  /\ commitErr = [b \in Batches |-> FALSE]
  /\ lHead = [b \in Batches |-> 0]
  /\ lTail = [b \in Batches |-> 0]
  /\ lBatch = [b \in Batches |-> NoBatch]
  /\ lSeq = [b \in Batches |-> 0]
  /\ calls = 0
  /\ dead = "no"

-----------------------------------------------------------------------------
(***************************************************************************)
(* Entering a call: a recycled batch is reset and filled, and the units of *)
(* both queues are reserved before commitPipeline.mu is taken.             *)
(***************************************************************************)

Begin(b, o) ==
  /\ pc[b] \in {"idle", "returned"}
  /\ calls < MaxCalls
  /\ calls' = calls + 1
  /\ pc' = [pc EXCEPT ![b] = IF o.kind \in {"ingest", "ingestFlushable"}
                             THEN "ingestsem" ELSE "sem"]
  /\ op' = [op EXCEPT ![b] = o]
  /\ seq' = [seq EXCEPT ![b] = 0]
  /\ applied' = [applied EXCEPT ![b] = FALSE]
  /\ commitErr' = [commitErr EXCEPT ![b] = FALSE]
  /\ UNCHANGED <<queueVars, mu, semVars, seqVars, walVars, commitWG, fsyncWG,
                 localVars, dead>>

AcquireIngestSem(b) ==
  /\ Goto(b, "ingestsem", "sem")
  /\ ingestSem = 0
  /\ ingestSem' = 1
  /\ UNCHANGED <<queueVars, mu, commitQueueSem, logSyncQSem, seqVars, walVars,
                 batchVars, localVars, calls, dead>>

\* Mutant: an ingestion takes no unit, and gives one back all the same.
AcquireForCommitsOnly(b) ==
  /\ Goto(b, "sem", IF op[b].sync = "none" THEN "lock" ELSE "syncsem")
  /\ IsIngest(b) \/ commitQueueSem < SyncConcurrency - 1
  /\ commitQueueSem' = IF IsIngest(b) THEN commitQueueSem ELSE commitQueueSem + 1
  /\ UNCHANGED <<queueVars, mu, logSyncQSem, ingestSem, seqVars, walVars,
                 batchVars, localVars, calls, dead>>

AcquireCommitQueueSem(b) ==
  /\ Goto(b, "sem", IF op[b].sync = "none" THEN "lock" ELSE "syncsem")
  /\ commitQueueSem < SyncConcurrency - 1
  /\ commitQueueSem' = commitQueueSem + 1
  /\ UNCHANGED <<queueVars, mu, logSyncQSem, ingestSem, seqVars, walVars,
                 batchVars, localVars, calls, dead>>

AcquireLogSyncQSem(b) ==
  /\ Goto(b, "syncsem", "lock")
  /\ logSyncQSem < SyncConcurrency - 1
  /\ logSyncQSem' = logSyncQSem + 1
  /\ UNCHANGED <<queueVars, mu, commitQueueSem, ingestSem, seqVars, walVars,
                 batchVars, localVars, calls, dead>>

\* prepare refuses the batch; Commit returns without giving its units back.
RefuseInvalidBatch(b) ==
  /\ op[b].kind = "invalid"
  /\ Goto(b, "lock", "failed")
  /\ UNCHANGED <<queueVars, mu, semVars, seqVars, walVars, batchVars,
                 localVars, calls, dead>>

\* Mutant: no p.mu.Lock().
LockWithoutMutex(b) ==
  /\ op[b].kind # "invalid"
  /\ Goto(b, "lock", "enqueue")
  /\ mu' = b
  /\ commitWG' = [commitWG EXCEPT ![b] = IF op[b].sync = "wait" THEN 2 ELSE 1]
  /\ fsyncWG' = [fsyncWG EXCEPT ![b] = IF op[b].sync = "nowait" THEN 1 ELSE 0]
  /\ UNCHANGED <<queueVars, semVars, seqVars, walVars, op, seq, applied,
                 commitErr, localVars, calls, dead>>

\* Mutant: b.commit.Add(1) where both the publish and the sync are awaited.
LockAddOne(b) ==
  /\ op[b].kind # "invalid"
  /\ Goto(b, "lock", "enqueue")
  /\ mu = NoBatch
  /\ mu' = b
  /\ commitWG' = [commitWG EXCEPT ![b] = 1]
  /\ fsyncWG' = [fsyncWG EXCEPT ![b] = IF op[b].sync = "nowait" THEN 1 ELSE 0]
  /\ UNCHANGED <<queueVars, semVars, seqVars, walVars, op, seq, applied,
                 commitErr, localVars, calls, dead>>

\* The wait groups are set up just before the lock; nobody else has the batch.
Lock(b) ==
  /\ op[b].kind # "invalid"
  /\ Goto(b, "lock", "enqueue")
  /\ mu = NoBatch
  /\ mu' = b
  /\ commitWG' = [commitWG EXCEPT ![b] = IF op[b].sync = "wait" THEN 2 ELSE 1]
  /\ fsyncWG' = [fsyncWG EXCEPT ![b] = IF op[b].sync = "nowait" THEN 1 ELSE 0]
  /\ UNCHANGED <<queueVars, semVars, seqVars, walVars, op, seq, applied,
                 commitErr, localVars, calls, dead>>

-----------------------------------------------------------------------------
(***************************************************************************)
(* commitQueue.enqueue, under commitPipeline.mu.                           *)
(***************************************************************************)

EnqueueCheck(b) ==
  /\ pc[b] = "enqueue"
  /\ \/ /\ Index(tail + SyncConcurrency) # Index(head)
        /\ pc' = [pc EXCEPT ![b] = "store"]
        /\ UNCHANGED dead
     \/ /\ Index(tail + SyncConcurrency) = Index(head)
        /\ dead' = "panic"
        /\ UNCHANGED pc
  /\ UNCHANGED <<queueVars, mu, semVars, seqVars, walVars, batchVars,
                 localVars, calls>>

\* Spins until the consumer that took this slot's last batch has cleared it.
EnqueueStore(b) ==
  /\ Goto(b, "store", "bump")
  /\ slots[Slot(head)] = NoBatch
  /\ slots' = [slots EXCEPT ![Slot(head)] = b]
  /\ UNCHANGED <<head, tail, mu, semVars, seqVars, walVars, batchVars,
                 localVars, calls, dead>>

EnqueueBump(b) ==
  /\ Goto(b, "bump", "seq")
  /\ head' = head + 1
  /\ UNCHANGED <<tail, slots, mu, semVars, seqVars, walVars, batchVars,
                 localVars, calls, dead>>

-----------------------------------------------------------------------------
(***************************************************************************)
(* Sequencing and the write to the WAL, under commitPipeline.mu.           *)
(***************************************************************************)

\* Mutant: the count taken off a value it was never added to.
AssignSeqNumTooLow(b) ==
  /\ Goto(b, "seq", IF IsIngest(b) THEN "drain" ELSE "write")
  /\ seq' = [seq EXCEPT ![b] = logSeqNum - op[b].n]
  /\ logSeqNum' = logSeqNum + op[b].n
  /\ ends' = ends \cup {logSeqNum + op[b].n}
  /\ lSeq' = [lSeq EXCEPT ![b] = logSeqNum]
  /\ UNCHANGED <<queueVars, mu, semVars, visibleSeqNum, mem, walVars, op, applied,
                 commitWG, fsyncWG, commitErr, lHead, lTail, lBatch, calls,
                 dead>>

\* An ingestion never gets sequence number 0, and remembers logSeqNum as it
\* was before its own allocation.
AssignSeqNum(b) ==
  LET first == IF IsIngest(b) /\ logSeqNum = 0 THEN 1 ELSE logSeqNum
  IN
  /\ Goto(b, "seq", IF IsIngest(b) THEN "drain" ELSE "write")
  /\ seq' = [seq EXCEPT ![b] = first]
  /\ logSeqNum' = first + op[b].n
  /\ ends' = ends \cup {first + op[b].n}
  /\ lSeq' = [lSeq EXCEPT ![b] = logSeqNum]
  /\ mem' = mem \cup (logSeqNum .. first - 1)   \* the skipped 0 holds no key
  /\ UNCHANGED <<queueVars, mu, semVars, visibleSeqNum, walVars, op, applied,
                 commitWG, fsyncWG, commitErr, lHead, lTail, lBatch, calls,
                 dead>>

\* commitEnv.write: the record goes to the WAL, its waiter to the sync queue.
LogWrite(b, sync) ==
  /\ wal' = Append(wal, [batch |-> b, seq |-> seq[b], n |-> op[b].n])
  /\ syncQ' = IF sync THEN Append(syncQ, [at |-> Len(wal) + 1, batch |-> b])
                      ELSE syncQ
  /\ dead' = IF sync /\ Len(syncQ) >= SyncConcurrency THEN "panic" ELSE dead
  /\ UNCHANGED <<synced, walErr, popped>>

\* A large batch joins the queue of flushables here, whole.
Write(b) ==
  /\ Goto(b, "write", "apply")
  /\ LogWrite(b, op[b].sync # "none")
  /\ mem' = IF op[b].kind = "large" THEN mem \cup Entries(b) ELSE mem
  /\ mu' = NoBatch
  /\ UNCHANGED <<queueVars, semVars, logSeqNum, visibleSeqNum, ends, batchVars,
                 localVars, calls>>

\* commitEnv.write returns an error before it reaches the WAL: the batch
\* stays in the queue and its unit stays taken.
WriteFails(b) ==
  /\ "write" \in Faults
  /\ Goto(b, "write", "failed")
  /\ mu' = NoBatch
  /\ UNCHANGED <<queueVars, semVars, seqVars, walVars, batchVars, localVars,
                 calls, dead>>

\* Mutant: the prepare callback runs without the wait.
DrainAtOnce(b) ==
  /\ Goto(b, "drain", "prepare")
  /\ UNCHANGED <<queueVars, mu, semVars, seqVars, walVars, batchVars,
                 localVars, calls, dead>>

\* AllocateSeqNum spins until everything sequenced before it is visible.
Drain(b) ==
  /\ Goto(b, "drain", "prepare")
  /\ visibleSeqNum = lSeq[b]
  /\ UNCHANGED <<queueVars, mu, semVars, seqVars, walVars, batchVars,
                 localVars, calls, dead>>

\* The prepare callback of an ingestion: into the LSM, or as a flushable,
\* which first writes its own record to the WAL with directWrite.
IngestPrepare(b) ==
  /\ pc[b] = "prepare"
  /\ \/ /\ op[b].kind = "ingest"
        /\ pc' = [pc EXCEPT ![b] = "apply"]
        /\ mu' = NoBatch
     \/ /\ op[b].kind = "ingestFlushable"
        /\ pc' = [pc EXCEPT ![b] = "directsem"]
        /\ UNCHANGED mu
  /\ UNCHANGED <<queueVars, semVars, seqVars, walVars, batchVars, localVars,
                 calls, dead>>

\* Mutant: directWrite reserves no space in the sync queue.
DirectWithoutUnit(b) ==
  /\ Goto(b, "directsem", "directwrite")
  /\ fsyncWG' = [fsyncWG EXCEPT ![b] = 1]
  /\ UNCHANGED <<queueVars, mu, semVars, seqVars, walVars, op, seq, applied,
                 commitWG, commitErr, localVars, calls, dead>>

DirectAcquire(b) ==
  /\ Goto(b, "directsem", "directwrite")
  /\ logSyncQSem < SyncConcurrency - 1
  /\ logSyncQSem' = logSyncQSem + 1
  /\ fsyncWG' = [fsyncWG EXCEPT ![b] = 1]
  /\ UNCHANGED <<queueVars, mu, commitQueueSem, ingestSem, seqVars, walVars,
                 op, seq, applied, commitWG, commitErr, localVars, calls,
                 dead>>

DirectWrite(b) ==
  /\ Goto(b, "directwrite", "directwait")
  /\ LogWrite(b, TRUE)
  /\ UNCHANGED <<queueVars, mu, semVars, seqVars, batchVars, localVars, calls>>

\* Once the record is durable the flushable joins the memtable queue and
\* commitPipeline.mu is released; a failed sync ends the process.
DirectWait(b) ==
  /\ fsyncWG[b] = 0
  /\ \/ /\ ~commitErr[b]
        /\ Goto(b, "directwait", "apply")
        /\ mem' = mem \cup Entries(b)
        /\ mu' = NoBatch
     \/ /\ commitErr[b]
        /\ Goto(b, "directwait", "failed")
        /\ UNCHANGED <<mem, mu>>
  /\ UNCHANGED <<queueVars, semVars, logSeqNum, visibleSeqNum, ends, walVars,
                 batchVars, localVars, calls, dead>>

-----------------------------------------------------------------------------
(***************************************************************************)
(* commitEnv.apply, concurrently for all batches: entry after entry into   *)
(* the memtable for a batch, one version edit for an ingestion.  The       *)
(* numbers of an ingestion that fails hold no key and are published too.   *)
(***************************************************************************)

Apply(b) ==
  /\ pc[b] = "apply"
  /\ \/ /\ ~IsIngest(b)
        /\ \E s \in Entries(b) \ mem :
             /\ \A r \in Entries(b) : r < s => r \in mem
             /\ mem' = mem \cup {s}
     \/ /\ IsIngest(b)
        /\ ~(Entries(b) \subseteq mem)
        /\ mem' = mem \cup Entries(b)
  /\ UNCHANGED <<queueVars, mu, semVars, logSeqNum, visibleSeqNum, ends,
                 walVars, pc, batchVars, localVars, calls, dead>>

ApplyFails(b) ==
  /\ "apply" \in Faults
  /\ ~IsIngest(b)
  /\ Goto(b, "apply", "failed")
  /\ UNCHANGED <<queueVars, mu, semVars, seqVars, walVars, batchVars,
                 localVars, calls, dead>>

\* Mutant: the batch is marked before its apply is through.
MarkAppliedEarly(b) ==
  /\ Goto(b, "apply", "load")
  /\ applied' = [applied EXCEPT ![b] = TRUE]
  /\ UNCHANGED <<queueVars, mu, semVars, seqVars, walVars, op, seq, commitWG,
                 fsyncWG, commitErr, localVars, calls, dead>>

\* The apply has returned; publish marks the batch.
MarkApplied(b) ==
  /\ Entries(b) \subseteq mem
  /\ Goto(b, "apply", "load")
  /\ applied' = [applied EXCEPT ![b] = TRUE]
  /\ UNCHANGED <<queueVars, mu, semVars, seqVars, walVars, op, seq, commitWG,
                 fsyncWG, commitErr, localVars, calls, dead>>

-----------------------------------------------------------------------------
(***************************************************************************)
(* publish, with commitQueue.dequeueApplied inlined.                       *)
(***************************************************************************)

LoadHeadTail(b) ==
  /\ Goto(b, "load", IF Index(tail) = Index(head) THEN "wait" ELSE "slot")
  /\ lHead' = [lHead EXCEPT ![b] = head]
  /\ lTail' = [lTail EXCEPT ![b] = tail]
  /\ UNCHANGED <<queueVars, mu, semVars, seqVars, walVars, batchVars, lBatch,
                 lSeq, calls, dead>>

LoadSlot(b) ==
  /\ Goto(b, "slot", IF slots[Slot(lTail[b])] = NoBatch THEN "wait"
                                                         ELSE "check")
  /\ lBatch' = [lBatch EXCEPT ![b] = slots[Slot(lTail[b])]]
  /\ UNCHANGED <<queueVars, mu, semVars, seqVars, walVars, batchVars, lHead,
                 lTail, lSeq, calls, dead>>

\* The pointer may be stale by now and the batch recycled.
LoadApplied(b) ==
  /\ Goto(b, "check", IF applied[lBatch[b]] THEN "cas" ELSE "wait")
  /\ UNCHANGED <<queueVars, mu, semVars, seqVars, walVars, batchVars,
                 localVars, calls, dead>>

CompareAndSwapTail(b) ==
  /\ \/ /\ Index(head) = Index(lHead[b]) /\ Index(tail) = Index(lTail[b])
        /\ Goto(b, "cas", "clear")
        /\ tail' = tail + 1
     \/ /\ ~(Index(head) = Index(lHead[b]) /\ Index(tail) = Index(lTail[b]))
        /\ Goto(b, "cas", "load")
        /\ UNCHANGED tail
  /\ UNCHANGED <<head, slots, mu, semVars, seqVars, walVars, batchVars,
                 localVars, calls, dead>>

ClearSlot(b) ==
  /\ Goto(b, "clear", "visible")
  /\ slots' = [slots EXCEPT ![Slot(lTail[b])] = NoBatch]
  /\ UNCHANGED <<head, tail, mu, semVars, seqVars, walVars, batchVars,
                 localVars, calls, dead>>

LoadVisible(b) ==
  LET t == lBatch[b] IN
  /\ Goto(b, "visible", IF End(t) <= visibleSeqNum THEN "done" ELSE "ratchet")
  /\ lSeq' = [lSeq EXCEPT ![b] = visibleSeqNum]
  /\ dead' = IF applied[t] THEN dead ELSE "panic"
  /\ UNCHANGED <<queueVars, mu, semVars, seqVars, walVars, batchVars, lHead,
                 lTail, lBatch, calls>>

\* Mutant: a store instead of a compare-and-swap.
StoreVisible(b) ==
  /\ Goto(b, "ratchet", "done")
  /\ visibleSeqNum' = End(lBatch[b])
  /\ UNCHANGED <<queueVars, mu, semVars, logSeqNum, mem, ends, walVars,
                 batchVars, localVars, calls, dead>>

Ratchet(b) ==
  /\ \/ /\ visibleSeqNum = lSeq[b]
        /\ Goto(b, "ratchet", "done")
        /\ visibleSeqNum' = End(lBatch[b])
     \/ /\ visibleSeqNum # lSeq[b]
        /\ Goto(b, "ratchet", "visible")
        /\ UNCHANGED visibleSeqNum
  /\ UNCHANGED <<queueVars, mu, semVars, logSeqNum, mem, ends, walVars,
                 batchVars, localVars, calls, dead>>

\* t.commit.Done(), which panics below zero.
CommitDone(b) ==
  LET t == lBatch[b] IN
  /\ Goto(b, "done", "load")
  /\ commitWG' = [commitWG EXCEPT ![t] = @ - 1]
  /\ dead' = IF commitWG[t] = 0 THEN "panic" ELSE dead
  /\ UNCHANGED <<queueVars, mu, semVars, seqVars, walVars, op, seq, applied,
                 fsyncWG, commitErr, localVars, calls>>

\* Mutant: no b.commit.Wait().
ReturnAtOnce(b) ==
  /\ Goto(b, "wait", IF op[b].sync = "nowait" THEN "syncwait" ELSE "returned")
  /\ commitQueueSem' = commitQueueSem - 1
  /\ ingestSem' = IF IsIngest(b) THEN 0 ELSE ingestSem
  /\ lHead' = [lHead EXCEPT ![b] = 0]
  /\ lTail' = [lTail EXCEPT ![b] = 0]
  /\ lBatch' = [lBatch EXCEPT ![b] = NoBatch]
  /\ lSeq' = [lSeq EXCEPT ![b] = 0]
  /\ UNCHANGED <<queueVars, mu, logSyncQSem, seqVars, walVars, batchVars,
                 calls, dead>>

\* publish returns from commit.Wait(), the unit is given back, and the call
\* returns; with an error from the sync the caller ends the process.
Return(b) ==
  /\ Goto(b, "wait", IF op[b].sync = "nowait" THEN "syncwait"
                     ELSE IF op[b].sync = "wait" /\ commitErr[b] THEN "failed"
                     ELSE "returned")
  /\ commitWG[b] = 0
  /\ commitQueueSem' = commitQueueSem - 1
  /\ ingestSem' = IF IsIngest(b) THEN 0 ELSE ingestSem
  /\ lHead' = [lHead EXCEPT ![b] = 0]
  /\ lTail' = [lTail EXCEPT ![b] = 0]
  /\ lBatch' = [lBatch EXCEPT ![b] = NoBatch]
  /\ lSeq' = [lSeq EXCEPT ![b] = 0]
  /\ UNCHANGED <<queueVars, mu, logSyncQSem, seqVars, walVars, batchVars,
                 calls, dead>>

\* Batch.SyncWait after ApplyNoSyncWait; a failed batch is not recycled.
SyncWait(b) ==
  /\ Goto(b, "syncwait", IF commitErr[b] THEN "aborted" ELSE "returned")
  /\ fsyncWG[b] = 0
  /\ UNCHANGED <<queueVars, mu, semVars, seqVars, walVars, batchVars,
                 localVars, calls, dead>>

\* DB.applyInternal calls Logger.Fatalf when Commit returns an error.
Fatal(b) ==
  /\ pc[b] = "failed"
  /\ dead' = "fatal"
  /\ UNCHANGED <<queueVars, mu, semVars, seqVars, walVars, pc, batchVars,
                 localVars, calls>>

-----------------------------------------------------------------------------
(***************************************************************************)
(* The LogWriter.  One pass of its flush loop takes the waiters it sees,   *)
(* writes out what there is, syncs when it took a waiter, and pops those   *)
(* it took; a later pass starts only when they are gone.                   *)
(***************************************************************************)

PassOver == \A i \in 1 .. Len(syncQ) : syncQ[i].at > synced

LogSync ==
  /\ ~walErr /\ PassOver /\ ~popped
  /\ syncQ # <<>>
  /\ \E k \in Head(syncQ).at .. Len(wal) : synced' = k
  /\ UNCHANGED <<queueVars, mu, semVars, seqVars, wal, syncQ, walErr, popped,
                 pc, batchVars, localVars, calls, dead>>

LogFail ==
  /\ "log" \in Faults
  /\ ~walErr /\ PassOver /\ ~popped
  /\ synced < Len(wal)
  /\ walErr' = TRUE
  /\ UNCHANGED <<queueVars, mu, semVars, seqVars, wal, syncQ, synced, popped,
                 pc, batchVars, localVars, calls, dead>>

\* Mutant: waiters are woken before their record is synced.
LogPopUnsynced ==
  /\ syncQ # <<>> /\ ~popped
  /\ LET b == Head(syncQ).batch IN
       /\ commitWG' = [commitWG EXCEPT ![b] = IF op[b].sync = "wait" THEN @ - 1 ELSE @]
       /\ fsyncWG' = [fsyncWG EXCEPT ![b] = IF op[b].sync = "wait" THEN @ ELSE @ - 1]
  /\ syncQ' = Tail(syncQ)
  /\ popped' = TRUE
  /\ UNCHANGED <<queueVars, mu, semVars, seqVars, wal, synced, walErr, pc, op,
                 seq, applied, commitErr, localVars, calls, dead>>

\* syncQueue.pop sets the error, moves the tail and wakes the waiter ...
LogPop ==
  /\ syncQ # <<>> /\ ~popped
  /\ walErr \/ Head(syncQ).at <= synced
  /\ LET b == Head(syncQ).batch IN
       /\ commitErr' = [commitErr EXCEPT ![b] = walErr]
       /\ \/ /\ op[b].sync = "wait"
             /\ commitWG' = [commitWG EXCEPT ![b] = @ - 1]
             /\ dead' = IF commitWG[b] = 0 THEN "panic" ELSE dead
             /\ UNCHANGED fsyncWG
          \/ /\ op[b].sync # "wait"
             /\ fsyncWG' = [fsyncWG EXCEPT ![b] = @ - 1]
             /\ dead' = IF fsyncWG[b] = 0 THEN "panic" ELSE dead
             /\ UNCHANGED commitWG
  /\ syncQ' = Tail(syncQ)
  /\ popped' = TRUE
  /\ UNCHANGED <<queueVars, mu, semVars, seqVars, wal, synced, walErr, pc, op,
                 seq, applied, localVars, calls>>

\* ... and only then gives its unit back.
LogRelease ==
  /\ popped
  /\ popped' = FALSE
  /\ logSyncQSem' = logSyncQSem - 1
  /\ UNCHANGED <<queueVars, mu, commitQueueSem, ingestSem, seqVars, wal, syncQ,
                 synced, walErr, pc, batchVars, localVars, calls, dead>>

-----------------------------------------------------------------------------
CommitStep(b) ==
  \/ AcquireIngestSem(b) \/ AcquireCommitQueueSem(b) \/ AcquireLogSyncQSem(b)
  \/ RefuseInvalidBatch(b) \/ Lock(b)
  \/ EnqueueCheck(b) \/ EnqueueStore(b) \/ EnqueueBump(b)
  \/ AssignSeqNum(b) \/ Write(b)
  \/ Drain(b) \/ IngestPrepare(b)
  \/ DirectAcquire(b) \/ DirectWrite(b) \/ DirectWait(b)
  \/ Apply(b) \/ MarkApplied(b)

PublishStep(b) ==
  \/ LoadHeadTail(b) \/ LoadSlot(b) \/ LoadApplied(b)
  \/ CompareAndSwapTail(b) \/ ClearSlot(b)
  \/ LoadVisible(b) \/ Ratchet(b) \/ CommitDone(b)
  \/ Return(b) \/ SyncWait(b) \/ Fatal(b)

Fault(b) == WriteFails(b) \/ ApplyFails(b)

LogStep == LogSync \/ LogPop \/ LogRelease

\* The process has ended, or every call the bound allows has run.
Finished ==
  /\ \/ dead # "no"
     \/ calls = MaxCalls /\ \A b \in Batches : pc[b] \in {"idle", "returned",
                                                           "aborted"}
     \/ \A b \in Batches : pc[b] = "aborted"
  /\ UNCHANGED vars

Next ==
  \/ /\ dead = "no"
     /\ \/ \E b \in Batches, o \in Ops : Begin(b, o)
        \/ \E b \in Batches : CommitStep(b)
        \/ \E b \in Batches : PublishStep(b)
        \/ \E b \in Batches : Fault(b)
        \/ LogStep
        \/ LogFail
  \/ Finished

Spec == Init /\ [][Next]_vars

\* Goroutines and the flush loop are scheduled; a disk is not obliged to fail.
Fairness ==
  /\ \A b \in Batches : WF_vars(dead = "no" /\ CommitStep(b))
  /\ \A b \in Batches : WF_vars(dead = "no" /\ PublishStep(b))
  /\ WF_vars(dead = "no" /\ LogStep)

-----------------------------------------------------------------------------
(***************************************************************************)
(* What the pipeline promises is CommitContract.                           *)
(***************************************************************************)

CallStatus(b) ==
  CASE pc[b] \in {"idle", "syncwait", "returned", "aborted"} -> "out"
    [] pc[b] \in {"ingestsem", "sem", "syncsem", "lock", "enqueue", "store",
                  "bump", "seq"} -> "called"
    [] pc[b] = "failed" -> "broken"
    [] OTHER -> "sequenced"

CallRange(b) == IF CallStatus(b) = "sequenced" THEN [first |-> seq[b], end |-> End(b)]
                                               ELSE [first |-> 0, end |-> 0]

Contract == INSTANCE CommitContract WITH
  Clients <- Batches,
  nextSeqNum <- logSeqNum,
  status <- [b \in Batches |-> CallStatus(b)],
  range <- [b \in Batches |-> CallRange(b)]

\* The pipeline implements the contract: calls get consecutive sequence
\* numbers, reads move from batch boundary to batch boundary over applied
\* entries only and never back, and a call comes back when it is visible.
ImplementsContract == Contract!Spec

-----------------------------------------------------------------------------
(***************************************************************************)
(* Properties.                                                             *)
(***************************************************************************)

QueueType ==
  /\ head \in Nat /\ tail \in Nat
  /\ slots \in [0 .. SyncConcurrency - 1 -> Batches \cup {NoBatch}]
  /\ mu \in Batches \cup {NoBatch}
SemType == commitQueueSem \in Int /\ logSyncQSem \in Int /\ ingestSem \in {0, 1}
SeqNumType ==
  /\ logSeqNum \in Nat /\ visibleSeqNum \in Nat
  /\ mem \subseteq Nat /\ ends \subseteq Nat
WalRecord == [batch : Batches, seq : Nat, n : Nat]
SyncWaiter == [at : Nat, batch : Batches]
LogType ==
  /\ wal \in Seq(WalRecord) /\ syncQ \in Seq(SyncWaiter)
  /\ synced \in Nat /\ walErr \in BOOLEAN /\ popped \in BOOLEAN
BatchType ==
  /\ pc \in [Batches -> PCs]
  /\ op \in [Batches -> OpType]
  /\ seq \in [Batches -> Nat]
  /\ applied \in [Batches -> BOOLEAN]
  /\ commitWG \in [Batches -> Int] /\ fsyncWG \in [Batches -> Int]
  /\ commitErr \in [Batches -> BOOLEAN]
LocalType ==
  /\ lHead \in [Batches -> Nat] /\ lTail \in [Batches -> Nat]
  /\ lBatch \in [Batches -> Batches \cup {NoBatch}]
  /\ lSeq \in [Batches -> Nat]

\* Every variable keeps the type its declaration in the code gives it.
TypeOK ==
  /\ QueueType /\ SemType /\ SeqNumType /\ LogType /\ BatchType /\ LocalType
  /\ calls \in 0 .. MaxCalls
  /\ dead \in {"no", "panic", "fatal"}

\* The "not reached" and "queue is full" panics of enqueue, push and publish,
\* and a negative wait group, are unreachable: the semaphores bound both
\* queues although a unit is taken and given back far from the queue itself.
NoPanic == dead # "panic"

\* A read at visibleSeqNum sees whole batches only, and every sequence number
\* below it has been applied, whatever the order in which batches applied.
ReadPrefix ==
  /\ StartSeqNum .. visibleSeqNum - 1 \subseteq mem
  /\ visibleSeqNum \in ends

\* "Upon successful return the batch's mutations will be visible for reading",
\* although another goroutine may have published them.
ReturnedVisible ==
  \A b \in Batches : pc[b] \in {"syncwait", "returned"} => End(b) <= visibleSeqNum

\* Records are in the WAL in the order of their sequence numbers, so that a
\* prefix of the WAL is a prefix of the history.
WalOrder ==
  \A i, j \in 1 .. Len(wal) : i < j => wal[i].seq + wal[i].n <= wal[j].seq

\* A call that asked for a sync and succeeded has its record in the durable
\* prefix of the WAL, whether it waited in Commit or in SyncWait.
AckDurable ==
  \A b \in Batches :
    pc[b] = "returned" /\ op[b].sync # "none" =>
      \E i \in 1 .. synced : wal[i] = [batch |-> b, seq |-> seq[b], n |-> op[b].n]

\* The overlap check of an ingestion's prepare callback sees every write
\* sequenced before it, and none is sequenced after it while it runs.
IngestSeesAll ==
  \A b \in Batches :
    pc[b] \in {"prepare", "directsem", "directwrite", "directwait"} =>
      /\ StartSeqNum .. seq[b] - 1 \subseteq mem
      /\ logSeqNum = End(b)

InCall(b) == pc[b] \notin {"idle", "returned", "aborted"}

SemHeld(b) == InCall(b) /\ pc[b] \notin {"ingestsem", "sem", "syncwait"}
LogUnitHeld(b) ==
  \/ op[b].sync # "none" /\ pc[b] \in {"lock", "enqueue", "store", "bump", "seq",
                                       "write"}
  \/ pc[b] = "directwrite"

\* A unit of commitQueueSem is out for every call that may have a batch in the
\* commit queue, and a unit of logSyncQSem for every waiter in, or on its way
\* to or from, the sync queue: none is given back twice and none is lost.
UnitsAccounted ==
  dead = "no" /\ (\A b \in Batches : pc[b] # "failed") =>
    /\ commitQueueSem = Cardinality({b \in Batches : SemHeld(b)})
    /\ logSyncQSem = Cardinality({b \in Batches : LogUnitHeld(b)}) + Len(syncQ)
                     + (IF popped THEN 1 ELSE 0)

\* Every call comes back, although a batch is published by whichever goroutine
\* finds it applied and its own goroutine may already be waiting: no batch is
\* left behind in the queue, and a directWrite under commitPipeline.mu is not
\* starved of the semaphore by goroutines waiting for that mutex.
CallsReturn == \A b \in Batches : InCall(b) ~> (~InCall(b) \/ dead # "no")
=============================================================================
