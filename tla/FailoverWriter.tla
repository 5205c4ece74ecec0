--------------------------- MODULE FailoverWriter ---------------------------
(***************************************************************************)
(* wal.failoverWriter (wal/failover_writer.go): a write-ahead log made of  *)
(* several files.  When the disk under the newest file is slow or fails,   *)
(* the monitor switches to another directory: a new record.LogWriter is    *)
(* created in the background, and gets all records that are not known to   *)
(* be durable.  Writers that were left behind go on working, and may make  *)
(* records durable at any later time.                                      *)
(*                                                                         *)
(* A record.LogWriter is modelled by what module LogWriter shows of it:    *)
(* it makes a prefix of its records durable, and then reports the highest  *)
(* index whose sync was asked for.                                         *)
(***************************************************************************)
EXTENDS Integers, Sequences, SequencesExt, FiniteSets, FiniteSetsExt

CONSTANTS
  Counts,     \* how many keys the batch of each record has; 0 for LogData
  MaxLogs,    \* maxPhysicalLogs
  Units,      \* capacity of queueSemChan
  Faults      \* which of "create", "sync" and "close" may fail

ASSUME FailoverAssumption ==
  /\ Counts \in Seq({0, 1}) /\ MaxLogs \in Nat \ {0} /\ Units \in Nat \ {0}
  /\ Faults \subseteq {"create", "sync", "close"}

Logs == 1 .. MaxLogs
NoLog == 0

VARIABLES
  pc,        \* the goroutine that writes, and then closes
  records,   \* for each record pushed, whether a sync was asked for
  tail,      \* recordQueue.tail: the records up to it have been popped
  writer,    \* recordQueue.writer
  writeTo,   \* the writer WriteRecord got from push
  log,       \* the physical logs
  next,      \* how many slots of writers are taken
  numWriters, closeCalled, last,   \* locals of closeInternal
  acked, failed,                   \* what Done told those who wait
  sem                              \* units taken of queueSemChan

queueVars == <<records, tail, writer, writeTo>>
closeVars == <<numWriters, closeCalled, last>>
callVars == <<acked, failed, sem>>
vars == <<pc, queueVars, log, next, closeVars, callVars>>

\* A physical log: its state, the records it was given, how many of them are
\* durable, the index a sync is pending for, the index it is about to report,
\* the waiters it has popped and not yet told, the last queued record it was
\* closed with, and whether it has failed.
NewLog == [st |-> "none", recs |-> <<>>, durable |-> 0, pending |-> 0,
           told |-> 0, popped |-> {}, lastQueued |-> 0, err |-> FALSE]

Reserve(l) == [l EXCEPT !.st = "creating"]

\* newFailoverWriter switches to the initial directory.
Init ==
  /\ pc = "idle" /\ records = <<>> /\ tail = 0 /\ writer = NoLog /\ writeTo = NoLog
  /\ log = [i \in Logs |-> IF i = 1 THEN Reserve(NewLog) ELSE NewLog] /\ next = 1
  /\ numWriters = 0 /\ closeCalled = 0
  /\ last = [index |-> 0, closed |-> FALSE, err |-> FALSE]
  /\ acked = {} /\ failed = {} /\ sem = 0

Head1 == Len(records)
Errs(operation) == {FALSE} \cup {operation \in Faults}

\* closeInternal holds mu, but for cond.Wait.
MuFree == pc \notin {"loop", "exit"}
\* cond.Signal: the only one who waits is closeInternal.
Signal == pc' = IF pc = "wait" THEN "woken" ELSE pc

\* SyncRecordGeneralized of records rs: the highest index that asks for a sync
\* is pending.
Given(l, rs, asks) ==
  [l EXCEPT !.recs = @ \o rs,
            !.pending = Max({@} \cup {r \in Range(rs) : asks[r]})]

-----------------------------------------------------------------------------
(***************************************************************************)
(* WriteRecord: push, and then write to the writer push has returned, if   *)
(* there is one.                                                           *)
(***************************************************************************)

Push(sync) ==
  /\ pc = "idle" /\ Head1 < Len(Counts)
  /\ sync => sem < Units
  /\ sem' = IF sync THEN sem + 1 ELSE sem
  /\ records' = Append(records, sync)
  /\ writeTo' = writer
  /\ pc' = IF writer = NoLog THEN "idle" ELSE "write"
  /\ UNCHANGED <<tail, writer, log, next, closeVars, acked, failed>>

\* A log that has failed takes records as long as they fit in its block.
Write ==
  /\ pc = "write"
  /\ log' = [log EXCEPT ![writeTo] = Given(@, <<Head1>>, records)]
  /\ writeTo' = NoLog
  /\ pc' = "idle"
  /\ UNCHANGED <<records, tail, writer, next, closeVars, callVars>>

\* The error of WriteRecord ends the process (DB.commitWrite).
WriteRefused ==
  /\ pc = "write" /\ log[writeTo].err
  /\ pc' = "panic"
  /\ UNCHANGED <<queueVars, log, next, closeVars, callVars>>

-----------------------------------------------------------------------------
(***************************************************************************)
(* switchToNewDir, called by the monitor at any time, and the creation of  *)
(* the log in the background.                                              *)
(***************************************************************************)

SwitchToNewDir ==
  /\ MuFree /\ pc \notin {"closed", "failed"} /\ next < MaxLogs
  /\ next' = next + 1
  /\ log' = [log EXCEPT ![next'] = Reserve(@)]
  /\ UNCHANGED <<pc, queueVars, closeVars, callVars>>

\* Mutant: no signal.
CreateFailsSilently(i) ==
  /\ MuFree /\ log[i].st = "creating" /\ "create" \in Faults
  /\ log' = [log EXCEPT ![i].st = "failed"]
  /\ UNCHANGED <<pc, queueVars, next, closeVars, callVars>>

\* handleErrFunc.
CreateFails(i) ==
  /\ MuFree /\ log[i].st = "creating" /\ "create" \in Faults
  /\ log' = [log EXCEPT ![i].st = "failed"]
  /\ Signal
  /\ UNCHANGED <<queueVars, next, closeVars, callVars>>

\* Mutant: what is queued is left to the log before.
InstallEmpty(i) ==
  /\ MuFree /\ log[i].st = "creating" /\ i = next /\ pc \notin {"closed", "failed"}
  /\ log' = [log EXCEPT ![i].st = "open"]
  /\ writer' = i
  /\ Signal
  /\ UNCHANGED <<records, tail, writeTo, next, closeVars, callVars>>

\* The newest log becomes the writer and gets what is queued.
Install(i) ==
  /\ MuFree /\ log[i].st = "creating" /\ i = next /\ pc \notin {"closed", "failed"}
  /\ LET queued == [k \in 1 .. Head1 - tail |-> tail + k]
     IN  log' = [log EXCEPT ![i] = [Given(@, queued, records) EXCEPT !.st = "open"]]
  /\ writer' = i
  /\ Signal
  /\ UNCHANGED <<records, tail, writeTo, next, closeVars, callVars>>

\* A log that comes too late is closed, with nothing in it.
Discard(i) ==
  /\ MuFree /\ log[i].st = "creating" /\ (i # next \/ pc \in {"closed", "failed"})
  /\ log' = [log EXCEPT ![i].st = "discarded"]
  /\ UNCHANGED <<pc, queueVars, next, closeVars, callVars>>

-----------------------------------------------------------------------------
(***************************************************************************)
(* The flush loop of a physical log, and doneSyncCallback.                 *)
(***************************************************************************)

Idle(l) == l.told = 0 /\ l.popped = {}

\* A sync, that reports the given index if it succeeds.  Failures are for ever.
Synced(l, report, err) ==
  IF err THEN [l EXCEPT !.err = TRUE, !.pending = 0]
  ELSE [l EXCEPT !.durable = Len(l.recs), !.told = report, !.pending = 0]

SyncErrs(l) == IF l.err THEN {TRUE} ELSE Errs("sync")

\* Mutant: all that is queued is reported.
SyncReportsAll(i) ==
  /\ log[i].pending # 0 /\ Idle(log[i])
  /\ log' = [log EXCEPT ![i] = Synced(@, Head1, FALSE)]
  /\ UNCHANGED <<pc, queueVars, next, closeVars, callVars>>

Sync(i) ==
  /\ log[i].pending # 0 /\ Idle(log[i])
  /\ \E err \in SyncErrs(log[i]) :
       log' = [log EXCEPT ![i] = Synced(@, log[i].pending, err)]
  /\ UNCHANGED <<pc, queueVars, next, closeVars, callVars>>

\* Mutant: what another log has popped is popped again.
PopAgain(i) ==
  /\ log[i].told # 0
  /\ log' = [log EXCEPT ![i].told = 0,
                        ![i].popped = {r \in 1 .. log[i].told : records[r]}]
  /\ tail' = Max({tail, log[i].told})
  /\ UNCHANGED <<pc, records, writer, writeTo, next, closeVars, callVars>>

\* doneSyncCallback without an error: recordQueue.pop.
Pop(i) ==
  /\ log[i].told # 0
  /\ LET t == log[i].told
     IN  /\ log' = [log EXCEPT ![i].told = 0,
                               ![i].popped = {r \in tail + 1 .. t : records[r]}]
         /\ tail' = Max({tail, t})
  /\ UNCHANGED <<pc, records, writer, writeTo, next, closeVars, callVars>>

\* Its end: each waiter popped is told, and its unit released.
Done(i) ==
  /\ log[i].popped # {}
  /\ acked' = acked \cup log[i].popped
  /\ sem' = sem - Cardinality(log[i].popped)
  /\ log' = [log EXCEPT ![i].popped = {}]
  /\ UNCHANGED <<pc, queueVars, next, closeVars, failed>>

-----------------------------------------------------------------------------
(***************************************************************************)
(* closeInternal.                                                          *)
(***************************************************************************)

Close ==
  /\ pc = "idle"
  /\ pc' = "loop"
  /\ numWriters' = next
  /\ UNCHANGED <<queueVars, log, next, closeCalled, last, callVars>>

\* One turn of the loop: close every log that is there and has not been told
\* to close; the last one is awaited.  Logs that are still being created and
\* are not the last will discard themselves.
CloseLoop ==
  /\ pc = "loop"
  /\ IF numWriters > closeCalled
     THEN LET n == numWriters
              st == log[n].st
          IN  /\ log' = [i \in Logs |->
                   IF i \in closeCalled + 1 .. n /\ log[i].st = "open"
                   THEN [log[i] EXCEPT !.st = "closing",
                           !.lastQueued = IF i = n THEN Head1 ELSE 0]
                   ELSE log[i]]
              /\ closeCalled' = IF st \in {"open", "failed"} THEN n ELSE n - 1
              /\ last' = [index |-> n, closed |-> st = "failed", err |-> st = "failed"]
     ELSE UNCHANGED <<log, closeCalled, last>>
  /\ pc' = IF last'.closed THEN "exit" ELSE "wait"
  /\ UNCHANGED <<queueVars, next, numWriters, callVars>>

\* Mutant: the number of logs is not read again.
WakeUpStale ==
  /\ pc = "woken"
  /\ pc' = IF last.closed THEN "exit" ELSE "loop"
  /\ numWriters' = IF last.closed THEN numWriters ELSE next
  /\ UNCHANGED <<queueVars, log, next, closeCalled, last, callVars>>

\* The wait is over: another log may be the last by now.
WakeUp ==
  /\ pc = "woken"
  /\ numWriters' = next
  /\ pc' = IF last.closed /\ next <= last.index THEN "exit" ELSE "loop"
  /\ UNCHANGED <<queueVars, log, next, closeCalled, last, callVars>>

\* popAll: with an error, those who still wait are told.
CloseExit ==
  /\ pc = "exit"
  /\ pc' = IF last.err THEN "failed" ELSE IF tail < Head1 THEN "panic" ELSE "closed"
  /\ failed' = {r \in tail + 1 .. Head1 : records[r]}
  /\ tail' = Head1
  /\ UNCHANGED <<records, writer, writeTo, log, next, closeVars, acked, sem>>

\* LogWriter.CloseWithLastQueuedRecord, in the background: the flush loop
\* ends, what is not durable is synced, the last queued record is reported.
SyncOnClose(i) ==
  /\ log[i].st = "closing" /\ log[i].pending = 0 /\ Idle(log[i])
  /\ \E err \in SyncErrs(log[i]) :
       log' = [log EXCEPT ![i] = [Synced(@, log[i].lastQueued, err)
                                  EXCEPT !.st = "synced", !.lastQueued = 0]]
  /\ UNCHANGED <<pc, queueVars, next, closeVars, callVars>>

EndClose(i) ==
  /\ MuFree /\ log[i].st = "synced" /\ Idle(log[i])
  /\ \E cerr \in Errs("close") :
       LET err == log[i].err \/ cerr
       IN  IF last.index = i
           THEN /\ last' = [last EXCEPT !.closed = TRUE, !.err = err]
                /\ Signal
           ELSE UNCHANGED <<last, pc>>
  /\ log' = [log EXCEPT ![i].st = "closed"]
  /\ UNCHANGED <<queueVars, next, numWriters, closeCalled, callVars>>

-----------------------------------------------------------------------------

Caller == Write \/ WriteRefused \/ CloseLoop \/ WakeUp \/ CloseExit
Background(i) == CreateFails(i) \/ Install(i) \/ Discard(i) \/ Sync(i) \/ Pop(i)
                   \/ Done(i) \/ SyncOnClose(i) \/ EndClose(i)

Next ==
  /\ pc # "panic"
  /\ \/ \E sync \in BOOLEAN : Push(sync)
     \/ SwitchToNewDir
     \/ Close
     \/ Caller
     \/ \E i \in Logs : Background(i)

Spec == Init /\ [][Next]_vars

\* Every goroutine is scheduled and every operation on a file ends; that the
\* monitor switches is not assumed.
Fairness == /\ WF_vars(pc # "panic" /\ Caller)
            /\ \A i \in Logs : WF_vars(pc # "panic" /\ Background(i))

-----------------------------------------------------------------------------
(***************************************************************************)
(* What recovery reads.                                                    *)
(***************************************************************************)

SeqNum(r) == 1 + Cardinality({k \in 1 .. r - 1 : Counts[k] > 0})

\* virtualWALReader.NextRecord: batches without keys are skipped, and those
\* whose sequence number has been seen.
NextRecord(read, r) ==
  IF Counts[r] = 0 \/ SeqNum(r) <= read.lastSeqNum THEN read
  ELSE [lastSeqNum |-> SeqNum(r), recs |-> Append(read.recs, r)]

\* The records read when of each log the first keep[i] records are left, torn
\* tails of all but the last being ignored.
Recovered(keep) ==
  FoldLeft(NextRecord, [lastSeqNum |-> 0, recs |-> <<>>],
           FlattenSeq([i \in Logs |-> SubSeq(log[i].recs, 1, keep[i])])).recs

\* What a crash may leave: at least what is durable.
Images == {keep \in [Logs -> 0 .. Head1] :
             \A i \in Logs : log[i].durable <= keep[i] /\ keep[i] <= Len(log[i].recs)}

\* The records with keys among the first m.
DataRecords(m) == SelectSeq([k \in 1 .. m |-> k], LAMBDA r : Counts[r] > 0)

\* Whatever each of the files has kept, recovery reads the batches that were
\* written, once each, in order and without a hole, among them every one whose
\* sync was acknowledged.
ReadBack ==
  \A keep \in Images :
    \E m \in 0 .. Head1 : /\ Recovered(keep) = DataRecords(m)
                          /\ \A r \in acked : r <= m \/ Counts[r] = 0

\* A log that closed without an error is read to its end without one: all of
\* its records are there, and no file that was written to comes after the one
\* that has its trailer, for Open to trip over.
StrictRead ==
  pc = "closed" =>
    /\ Recovered([i \in Logs |-> log[i].durable]) = DataRecords(Head1)
    /\ \A i \in Logs : i > last.index => log[i].recs = <<>>
    /\ log[last.index].st = "closed"

\* No unit of queueSemChan is lost or given back twice, whichever of the logs
\* reports a record, and however late.
UnitsAccounted ==
  pc # "failed" =>
    sem = Cardinality({r \in tail + 1 .. Head1 : records[r]})
            + Cardinality(UNION {log[i].popped : i \in Logs})

\* The records some file keeps for certain, and how many, from the first, there
\* are without a hole.
Kept == UNION {Range(SubSeq(log[i].recs, 1, log[i].durable)) : i \in Logs}
Durable == CHOOSE m \in 0 .. Head1 : 1 .. m \subseteq Kept /\ m + 1 \notin Kept

Contract == INSTANCE WalContract WITH
  written <- Head1, durable <- Durable, acked <- acked,
  status <- IF pc \in {"closed", "failed"} THEN pc ELSE "open"

\* Together the files keep the contract of one log.
ImplementsWal == Contract!Spec

\* Close comes back, whatever is created, fails or ends meanwhile, or the
\* process has ended with an error of a write.
CloseReturns == pc = "loop" ~> pc \in {"closed", "failed"}

=============================================================================
