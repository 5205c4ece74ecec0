----------------------------- MODULE LogWriter -----------------------------
(***************************************************************************)
(* record.LogWriter (record/log_writer.go): one goroutine at a time        *)
(* appends records to blocks, a flush loop writes the blocks to the file,  *)
(* syncs it and tells those who wait.  Pushing a waiter and signalling the *)
(* loop take no lock.                                                      *)
(*                                                                         *)
(* Both kinds of pendingSyncs are modelled: the queue of a standalone log, *)
(* and the highest index of a log that is part of a failover writer, where *)
(* acknowledging an index acknowledges all before it.                      *)
(***************************************************************************)
EXTENDS RecordReader, FiniteSets

CONSTANTS
  Lengths,          \* the lengths of the records to be written, in cells
  MaxBlocks,        \* blocks the pool can hand out
  QueueUnits,       \* capacity of queueSemChan
  Modes,            \* "queue" and "index"
  Faults,           \* which of "write", "sync" and "close" may fail
  MinSyncInterval   \* whether there is one

LogNum == 2
NoBlock == 0
Blocks == 1 .. MaxBlocks

ASSUME LogWriterAssumption ==
  /\ Lengths \in Seq(Nat)
  /\ MaxBlocks \in Nat \ {0} /\ QueueUnits \in Nat \ {0}
  /\ Modes \subseteq {"queue", "index"}
  /\ Faults \subseteq {"write", "sync", "close"} /\ MinSyncInterval \in BOOLEAN

VARIABLES
  mode,       \* which pendingSyncs
  \* the goroutine that holds commitPipeline.mu, and Close
  wpc, rec, nextBlock, werr,
  \* blocks: buf[:written], and how much of it has been given to the file
  buf, flushedTo,
  block, free, pending,
  \* flusher: pendingSyncs, its blocked flag and timer, the condition variable
  syncQ, blocked, timer, fired, ticket, close, ferr,
  \* flushLoop and its locals
  fpc, lpending, snap, data, lerr, synced,
  \* the file: what was written, how much of it is durable, closed or not
  file, durable, fileClosed,
  \* what callers were told
  records, asked, acked, failed, sem

writerVars == <<wpc, rec, nextBlock, werr>>
blockVars == <<buf, flushedTo, block, free, pending>>
syncVars == <<syncQ, blocked, timer, fired>>
loopVars == <<lpending, snap, data, lerr, synced>>
fileVars == <<file, durable, fileClosed>>
callVars == <<records, asked, acked, failed, sem>>
vars == <<mode, writerVars, blockVars, syncVars, ticket, close, ferr, fpc,
          loopVars, fileVars, callVars>>

NoRec == [rec |-> 0, n |-> 0, off |-> 0, left |-> 0, sync |-> FALSE]
NoData == [block |-> NoBlock, from |-> 0, to |-> 0]

Init ==
  /\ mode \in Modes
  /\ wpc = "idle" /\ rec = NoRec /\ nextBlock = NoBlock /\ werr = FALSE
  /\ buf = [b \in Blocks |-> <<>>] /\ flushedTo = [b \in Blocks |-> 0]
  /\ block = 1 /\ free = <<>> /\ pending = <<>>
  /\ syncQ = <<>> /\ blocked = FALSE /\ timer = "off" /\ fired = FALSE
  /\ ticket = "none" /\ close = FALSE /\ ferr = FALSE
  /\ fpc = "check" /\ lpending = <<>> /\ snap = <<>> /\ data = NoData
  /\ lerr = FALSE /\ synced = FALSE
  /\ file = <<>> /\ durable = 0 /\ fileClosed = FALSE
  /\ records = <<>> /\ asked = {} /\ acked = {} /\ failed = {} /\ sem = 0

-----------------------------------------------------------------------------
(***************************************************************************)
(* The condition variable, the mutex and pendingSyncs.                     *)
(***************************************************************************)

\* cond.Signal: wakes a goroutine that has taken a ticket, and is lost when
\* there is none.
Signal == ticket' = IF ticket = "waiting" THEN "notified" ELSE ticket

\* The flush loop holds flusher.Mutex.
LoopLocked == fpc \in {"check", "add", "snap", "data"}

\* pendingSyncs.empty(): nobody waits, or the min-sync-interval has not passed.
Empty == syncQ = <<>> \/ blocked

\* Whether an operation on the file may fail.
Errs(operation) == {FALSE} \cup {operation \in Faults}

\* pendingSyncs.push: one more waiter, or the highest index so far.
Push(i) == syncQ' = IF mode = "queue" THEN Append(syncQ, i) ELSE <<i>>

-----------------------------------------------------------------------------
(***************************************************************************)
(* SyncRecordGeneralized, with commitPipeline.mu held.                     *)
(***************************************************************************)

\* A synced record of a standalone log has taken a unit of queueSemChan.
SyncRecord(sync) ==
  /\ wpc = "idle" /\ ~close /\ ~werr /\ Len(records) < Len(Lengths)
  /\ IF sync /\ mode = "queue"
     THEN sem < QueueUnits /\ sem' = sem + 1
     ELSE UNCHANGED sem
  /\ records' = Append(records, Lengths[Len(records) + 1])
  /\ rec' = [rec |-> Len(records) + 1, n |-> 0, off |-> 0, left |-> Last(records'),
             sync |-> sync]
  /\ wpc' = "emit"
  /\ UNCHANGED <<mode, nextBlock, werr, blockVars, syncVars, ticket, close,
                 ferr, fpc, loopVars, fileVars, asked, acked, failed>>

\* The log has failed and a full block told the writer: the record is
\* refused, which the commit pipeline does not survive.
RefuseRecord ==
  /\ wpc = "idle" /\ ~close /\ werr
  /\ wpc' = "panic"
  /\ UNCHANGED <<mode, rec, nextBlock, werr, blockVars, syncVars, ticket,
                 close, ferr, fpc, loopVars, fileVars, callVars>>

\* Put a chunk in the current block, as far as it has been written.
Fill(c) == buf' = [buf EXCEPT ![block] = @ \o Cells(c)]

ChunkType(first, last) ==
  IF last THEN IF first THEN "full" ELSE "last"
          ELSE IF first THEN "first" ELSE "middle"

AfterRecord == IF rec.sync THEN "push" ELSE "idle"

EmitFragment ==
  /\ wpc = "emit"
  /\ LET room == BlockSize - Len(buf[block]) - Header
         last == room >= rec.left
         r == IF last THEN rec.left ELSE room
     IN  /\ Fill(Chunk(LogNum, ChunkType(rec.n = 0, last), rec.rec, rec.off, r))
         /\ rec' = [rec EXCEPT !.n = @ + 1, !.off = @ + r, !.left = @ - r]
         /\ wpc' = IF BlockSize - Len(buf'[block]) < Header THEN "take"
                   ELSE AfterRecord
  /\ UNCHANGED <<mode, nextBlock, werr, flushedTo, block, free, pending, syncVars, ticket,
                 close, ferr, fpc, loopVars, fileVars, callVars>>

\* queueBlock: a block of the free list, or a new one; then, under the mutex,
\* it takes the place of the full one.
InUse == {block, data.block} \cup Range(pending) \cup Range(lpending)

TakeBlock ==
  /\ wpc = "take"
  /\ IF free # <<>>
     THEN /\ nextBlock' = Last(free) /\ free' = Front(free)
     ELSE /\ nextBlock' = CHOOSE b \in Blocks : b \notin InUse
          /\ UNCHANGED free
  /\ wpc' = "queue"
  /\ UNCHANGED <<mode, rec, werr, buf, flushedTo, block, pending,
                 syncVars, ticket, close, ferr, fpc, loopVars, fileVars,
                 callVars>>

QueueBlock ==
  /\ wpc = "queue" /\ ~LoopLocked
  /\ pending' = Append(pending, block)
  /\ block' = nextBlock
  /\ Signal
  /\ werr' = ferr
  /\ wpc' = IF rec.left > 0 THEN "emit" ELSE AfterRecord
  /\ UNCHANGED <<mode, rec, nextBlock, buf, flushedTo, free,
                 syncVars, close, ferr, fpc, loopVars, fileVars, callVars>>

PushSync ==
  /\ wpc = "push"
  /\ Push(rec.rec)
  /\ asked' = asked \cup {rec.rec}
  /\ wpc' = "signal"
  /\ UNCHANGED <<mode, rec, nextBlock, werr, blockVars, blocked, timer, fired,
                 ticket, close, ferr, fpc, loopVars, fileVars, records, acked,
                 failed, sem>>

SignalLoop ==
  /\ wpc = "signal"
  /\ Signal
  /\ wpc' = "idle"
  /\ UNCHANGED <<mode, rec, nextBlock, werr, blockVars, syncVars, close, ferr,
                 fpc, loopVars, fileVars, callVars>>

-----------------------------------------------------------------------------
(***************************************************************************)
(* closeInternal.                                                          *)
(***************************************************************************)

\* emitEOFTrailer: a header of another log number, which readers take for
\* the end of the log.
Trailer == Chunk(LogNum + 1, "eof", 0, 0, 0)

\* Mutant: no trailer.
CloseNoTrailer ==
  /\ wpc = "idle" /\ ~close
  /\ wpc' = "close"
  /\ UNCHANGED <<mode, rec, nextBlock, werr, blockVars, syncVars, ticket, close,
                 ferr, fpc, loopVars, fileVars, callVars>>

Close ==
  /\ wpc = "idle" /\ ~close
  /\ Fill(Trailer)
  /\ wpc' = "close"
  /\ UNCHANGED <<mode, rec, nextBlock, werr, flushedTo, block, free, pending,
                 syncVars, ticket, close, ferr, fpc, loopVars, fileVars,
                 callVars>>

CloseLoop ==
  /\ wpc = "close" /\ ~LoopLocked
  /\ close' = TRUE
  /\ Signal
  /\ wpc' = "join"
  /\ UNCHANGED <<mode, rec, nextBlock, werr, blockVars, syncVars, ferr, fpc,
                 loopVars, fileVars, callVars>>

\* After the loop has ended, what it wrote and did not sync is synced, and
\* the last index is acknowledged if the log is part of a failover writer.
CloseFile ==
  /\ wpc = "join" /\ fpc = "ended"
  /\ \E err \in IF ferr THEN {TRUE} ELSE Errs("sync"), cerr \in Errs("close") :
       /\ durable' = IF err THEN durable ELSE Len(file)
       /\ wpc' = IF err \/ cerr THEN "failed" ELSE "closed"
       /\ acked' = IF mode = "index" /\ ~err THEN 1 .. Len(records) ELSE acked
  /\ fileClosed' = TRUE
  /\ werr' = TRUE
  /\ UNCHANGED <<mode, rec, nextBlock, blockVars, syncVars, ticket, close,
                 ferr, fpc, loopVars, file, records, asked, failed, sem>>

-----------------------------------------------------------------------------
(***************************************************************************)
(* flushLoop.                                                              *)
(***************************************************************************)

Goto(from, to) == fpc = from /\ fpc' = to

Work == pending # <<>> \/ Len(buf[block]) > flushedTo[block] \/ ~Empty

\* With the mutex held: is there work, or is it time to end?  A close
\* pretends that the timer has fired.
Check ==
  /\ fpc = "check"
  /\ \/ /\ Work
        /\ fpc' = "snap"
        /\ UNCHANGED <<blocked, timer>>
     \/ /\ ~Work /\ close
        /\ blocked' = FALSE
        /\ IF syncQ # <<>>
           THEN fpc' = "snap" /\ UNCHANGED timer
           ELSE fpc' = "ended" /\ timer' = "off"
     \/ /\ ~Work /\ ~close
        /\ fpc' = "add"
        /\ UNCHANGED <<blocked, timer>>
  /\ UNCHANGED <<mode, writerVars, blockVars, syncQ, fired, ticket, close,
                 ferr, loopVars, fileVars, callVars>>

\* flusherCond.Wait: take a ticket and unlock, look at pendingSyncs once
\* more, sleep, lock.
AddTicket ==
  /\ Goto("add", "recheck") /\ ticket' = "waiting"
  /\ UNCHANGED <<mode, writerVars, blockVars, syncVars, close, ferr, loopVars,
                 fileVars, callVars>>

\* Mutant: no second look.
RecheckNot ==
  /\ Goto("recheck", "sleep")
  /\ UNCHANGED <<mode, writerVars, blockVars, syncVars, ticket, close, ferr,
                 loopVars, fileVars, callVars>>

Recheck ==
  /\ Goto("recheck", "sleep")
  /\ IF Empty THEN UNCHANGED ticket ELSE Signal
  /\ UNCHANGED <<mode, writerVars, blockVars, syncVars, close, ferr, loopVars,
                 fileVars, callVars>>

WakeUp ==
  /\ Goto("sleep", "check") /\ ticket = "notified"
  /\ ticket' = "none"
  /\ UNCHANGED <<mode, writerVars, blockVars, syncVars, close, ferr, loopVars,
                 fileVars, callVars>>

\* The full blocks and the waiters, then what the current block holds: a
\* waiter that comes in between has its data taken along.
TakeWaiters ==
  /\ Goto("snap", "data")
  /\ lpending' = pending /\ pending' = <<>>
  /\ snap' = IF Empty THEN <<>> ELSE syncQ
  /\ UNCHANGED <<mode, writerVars, buf, flushedTo, block, free,
                 syncVars, ticket, close, ferr, data, lerr, synced, fileVars, callVars>>

\* Blocks that nobody uses any longer.
Drop(S, flushed) ==
  /\ buf' = [b \in Blocks |-> IF b \in S THEN <<>> ELSE buf[b]]
  /\ flushedTo' = [b \in Blocks |-> IF b \in S THEN 0 ELSE flushed[b]]

\* A log that has failed writes nothing more; its blocks are dropped.
TakeData ==
  /\ fpc = "data"
  /\ Drop(IF ferr THEN Range(lpending) ELSE {},
          [flushedTo EXCEPT ![block] = Len(buf[block])])
  /\ IF ferr THEN /\ fpc' = "pop" /\ lpending' = <<>>
                  /\ UNCHANGED data
             ELSE /\ fpc' = "write"
                  /\ data' = [block |-> block, from |-> flushedTo[block],
                              to |-> Len(buf[block])]
                  /\ UNCHANGED lpending
  /\ lerr' = ferr
  /\ UNCHANGED <<mode, writerVars, block, free, pending,
                 syncVars, ticket, close, ferr, snap, synced, fileVars,
                 callVars>>

\* A write puts the cells at the end of the file; a failed one all but the
\* last of them.
WriteCells(cells, err) == file' = file \o (IF err THEN Front(cells) ELSE cells)

\* flushBlock: the rest of a full block, its end padded; then it is free.
FlushBlock ==
  /\ fpc = "write" /\ lpending # <<>>
  /\ LET b == Head(lpending)
         padded == buf[b] \o [i \in 1 .. BlockSize - Len(buf[b]) |-> Zero]
     IN \E err \in Errs("write") :
          /\ WriteCells(SubSeq(padded, flushedTo[b] + 1, BlockSize), err)
          /\ lerr' = err
          /\ fpc' = IF err THEN "sync" ELSE fpc
          /\ Drop(IF err THEN Range(lpending) ELSE {b}, flushedTo)
          /\ data' = IF err THEN NoData ELSE data
          /\ free' = IF err THEN free ELSE Append(free, b)
          /\ lpending' = IF err THEN <<>> ELSE Tail(lpending)
  /\ UNCHANGED <<mode, writerVars, block, pending, syncVars, ticket,
                 close, ferr, snap, synced, durable, fileClosed, callVars>>

FlushData ==
  /\ Goto("write", "sync") /\ lpending = <<>>
  /\ \E err \in IF data.from < data.to THEN Errs("write") ELSE {FALSE} :
       /\ WriteCells(SubSeq(buf[data.block], data.from + 1, data.to), err)
       /\ lerr' = err
  /\ data' = NoData
  /\ UNCHANGED <<mode, writerVars, blockVars, syncVars, ticket, close, ferr,
                 lpending, snap, synced, durable, fileClosed, callVars>>

Sync ==
  /\ Goto("sync", "pop")
  /\ IF snap # <<>> /\ ~lerr
     THEN \E err \in Errs("sync") :
            /\ lerr' = err
            /\ durable' = IF err THEN durable ELSE Len(file)
     ELSE UNCHANGED <<lerr, durable>>
  /\ synced' = (snap # <<>> /\ ~lerr)
  /\ UNCHANGED <<mode, writerVars, blockVars, syncVars, ticket, close, ferr,
                 lpending, snap, data, file, fileClosed, callVars>>

Tell(S) == IF lerr THEN failed' = failed \cup S /\ UNCHANGED acked
                   ELSE acked' = acked \cup S /\ UNCHANGED failed

\* syncQueue.pop: free the slot, wake the waiter, then give back its unit.
PopWaiter ==
  /\ Goto("pop", "release") /\ mode = "queue" /\ snap # <<>>
  /\ Tell({Head(snap)})
  /\ syncQ' = Tail(syncQ) /\ snap' = Tail(snap)
  /\ UNCHANGED <<mode, writerVars, blockVars, blocked, timer, fired, ticket, close,
                 ferr, lpending, data, lerr, synced, fileVars, records,
                 asked, sem>>

ReleaseUnit ==
  /\ Goto("release", "pop")
  /\ sem' = sem - 1
  /\ UNCHANGED <<mode, writerVars, blockVars, syncVars, ticket, close, ferr,
                 loopVars, fileVars, records, asked, acked, failed>>

\* Mutant: the index acknowledged is the one pending now.
PopIndexNow ==
  /\ fpc = "pop" /\ mode = "index" /\ snap # <<>>
  /\ syncQ' = <<>>
  /\ Tell(1 .. Head(syncQ))
  /\ snap' = <<>>
  /\ UNCHANGED <<mode, writerVars, blockVars, blocked, timer, fired, ticket, close,
                 ferr, fpc, lpending, data, lerr, synced, fileVars, records,
                 asked, sem>>

\* pendingSyncsWithHighestSyncIndex.pop: the index is withdrawn unless a
\* higher one has come; the failover writer is told of it.
PopIndex ==
  /\ fpc = "pop" /\ mode = "index" /\ snap # <<>>
  /\ syncQ' = IF syncQ = snap THEN <<>> ELSE syncQ
  /\ Tell(1 .. Head(snap))
  /\ snap' = <<>>
  /\ UNCHANGED <<mode, writerVars, blockVars, blocked, timer, fired, ticket, close,
                 ferr, fpc, lpending, data, lerr, synced, fileVars, records,
                 asked, sem>>

\* Back with the mutex: the error is for ever, and a sync begins the
\* min-sync-interval anew.
Finish ==
  /\ Goto("pop", "check") /\ snap = <<>>
  /\ ferr' = lerr
  /\ IF ferr THEN UNCHANGED <<blocked, timer>>
     ELSE IF lerr THEN blocked' = FALSE /\ UNCHANGED timer
     ELSE IF synced /\ MinSyncInterval THEN blocked' = TRUE /\ timer' = "armed"
     ELSE UNCHANGED <<blocked, timer>>
  /\ UNCHANGED <<mode, writerVars, blockVars, syncQ, fired, ticket, close,
                 loopVars, fileVars, callVars>>

\* The callback of the timer.
TimerFires ==
  /\ timer = "armed"
  /\ timer' = "off" /\ blocked' = FALSE /\ fired' = TRUE
  /\ UNCHANGED <<mode, writerVars, blockVars, syncQ, ticket, close, ferr, fpc,
                 loopVars, fileVars, callVars>>

TimerSignals ==
  /\ fired
  /\ fired' = FALSE
  /\ Signal
  /\ UNCHANGED <<mode, writerVars, blockVars, syncQ, blocked, timer, close,
                 ferr, fpc, loopVars, fileVars, callVars>>

-----------------------------------------------------------------------------

Writer == EmitFragment \/ TakeBlock \/ QueueBlock \/ PushSync \/ SignalLoop
            \/ CloseLoop \/ CloseFile
FlushLoop == Check \/ AddTicket \/ Recheck \/ WakeUp \/ TakeWaiters
               \/ TakeData \/ FlushBlock \/ FlushData \/ Sync \/ PopWaiter
               \/ ReleaseUnit \/ PopIndex \/ Finish
Timer == TimerFires \/ TimerSignals

Next ==
  \/ \E sync \in BOOLEAN : SyncRecord(sync)
  \/ RefuseRecord
  \/ Close
  \/ Writer
  \/ FlushLoop
  \/ Timer

Spec == Init /\ [][Next]_vars

\* Every goroutine is scheduled, and timers fire.
FairSpec == Spec /\ WF_vars(Writer) /\ WF_vars(FlushLoop) /\ WF_vars(Timer)

-----------------------------------------------------------------------------
(***************************************************************************)
(* What a crash leaves, and what is read back.                             *)
(***************************************************************************)

\* What a file holds before this log is written to it: nothing, zeros, or
\* the log it was recycled from, with a trailer that has this log's number.
Recycled ==
  Cells(Chunk(LogNum - 1, "full", 1, 0, 1)) \o Cells(Chunk(LogNum, "eof", 0, 0, 0))
    \o Cells(Chunk(LogNum - 1, "first", 2, 0, BlockSize - Header))
    \o Cells(Chunk(LogNum - 1, "last", 2, BlockSize - Header, BlockSize - Header))
Before == {<<>>, [i \in 1 .. 3 * BlockSize |-> Zero], Recycled}

\* The file after a crash: of what came after the durable part, the cells
\* from lo to hi are lost, and what the file held before shows.
Image(old, lo, hi) ==
  LET len == IF hi = Len(file) THEN lo - 1 ELSE Len(file)
  IN  [i \in 1 .. (IF len < Len(old) THEN Len(old) ELSE len) |->
         IF i <= Len(file) /\ i \notin lo .. hi THEN file[i]
         ELSE IF i <= Len(old) THEN old[i] ELSE Zero]

\* Nothing, one cell or the rest of the file is lost.
Losses == {<<Len(file) + 1, Len(file)>>}
            \cup UNION {{<<lo, lo>>, <<lo, Len(file)>>} : lo \in durable + 1 .. Len(file)}

\* A record read back is record i if it was put together from all its parts
\* in order.
IsRecord(parts, i) ==
  /\ \A k \in DOMAIN parts :
       /\ parts[k].rec = i
       /\ parts[k].off = IF k = 1 THEN 0 ELSE parts[k - 1].off + parts[k - 1].len
  /\ Last(parts).off + Last(parts).len = records[i]

IsPrefixOfLog(recs) ==
  Len(recs) <= Len(records) /\ \A i \in DOMAIN recs : IsRecord(recs[i], i)

\* Whatever a crash leaves of the file, and whatever file was recycled for
\* it, recovery reads the records as they were written, in order and without
\* a hole, among them every one whose sync was acknowledged.  Looked at
\* whenever the loop has written or has told someone: between these steps
\* neither the file nor what was acknowledged changes.
ReadBack ==
  fpc \in {"sync", "ended"} \/ (fpc \in {"release", "pop"} /\ snap = <<>> /\ ~lerr) =>
  \A old \in Before \ {<<>>}, loss \in Losses :
    LET read == ReadLog(Image(old, loss[1], loss[2]), LogNum)
    IN  /\ IsPrefixOfLog(read.recs)
        /\ \A i \in acked : i <= Len(read.recs)

\* A log closed without an error reads back whole and ends with a clean EOF,
\* which Open insists on for every log but the last (strictWALTail).
CleanClose ==
  wpc = "closed" =>
    \A old \in Before :
      LET read == ReadLog(Image(old, Len(file) + 1, Len(file)), LogNum)
      IN  IsPrefixOfLog(read.recs) /\ Len(read.recs) = Len(records)
            /\ read.err = "EOF"

\* The log keeps the contract of a write-ahead log.  Record i is durable when
\* the last cell of its last chunk is.
Contract == INSTANCE WalContract WITH
  written <- Len(records),
  durable <- Cardinality({p \in 1 .. durable :
                            /\ file[p].chunk.type \in {"full", "last"}
                            /\ file[p].at = Header + file[p].chunk.len - 1}),
  acked <- acked,
  status <- IF wpc \in {"closed", "failed"} THEN wpc ELSE "open"

\* Records become durable in the order they were written, only durable ones
\* are acknowledged, and a close without an error has synced them all.
ImplementsWal == Contract!Spec

\* Everyone who waits for a sync hears of it, and Close comes back, although
\* waiters and the timer signal the flush loop without its mutex.
WaitersHear ==
  /\ \A i \in DOMAIN Lengths : i \in asked ~> i \in acked \cup failed
  /\ wpc = "close" ~> wpc \in {"closed", "failed"}
=============================================================================
