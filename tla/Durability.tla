----------------------------- MODULE Durability -----------------------------
(***************************************************************************)
(* How a write reaches the disk and comes back after a crash: commitWrite, *)
(* memtable and WAL rotation (db.go), flushable ingests (ingest.go), the   *)
(* flush of the memtable queue (compaction.go), the standalone WAL manager *)
(* with its recycler (wal/), the deletion of obsolete logs                 *)
(* (obsolete_files.go) and the replay of the logs by Open (open.go).       *)
(*                                                                         *)
(* A write is its sequence number and a batch takes one.  Of a memtable    *)
(* the model keeps which writes were applied to it; whether its arena has  *)
(* room for the next batch is a free choice, except that an empty one of   *)
(* the full size and one made for the batch have.                          *)
(* The manifest is one durable record that changes atomically, which is    *)
(* what module VersionSet shows of it.  A crash cuts each log anywhere     *)
(* past what was synced, and undoes any removal or creation of a log file  *)
(* whose directory was not synced since.                                   *)
(***************************************************************************)
EXTENDS Naturals, Sequences, SequencesExt, FiniteSetsExt

CONSTANTS
  Kinds,          \* the calls made: some of "small", "large", "flush", "ingest"
  MaxCalls,       \* bound: calls in a behaviour
  MaxCrashes,     \* bound: crashes in a behaviour
  MaxErrs,        \* bound: flushes that fail
  FailIn,         \* the phases in which flushes may: some of "open", "replayed"
  InitialSize,    \* the size of the first memtable
  MemTableSize,   \* Options.MemTableSize, up to which the sizes double
  StopWrites,     \* Options.MemTableStopWritesThreshold
  MaxRecyclable   \* how many logs the recycler holds

ASSUME SizesAssumption ==
  /\ Kinds \subseteq {"small", "large", "flush", "ingest"}
  /\ FailIn \subseteq {"open", "replayed"}
  /\ {MaxCalls, MaxCrashes, MaxErrs, MaxRecyclable} \subseteq Nat
  /\ {InitialSize, MemTableSize, StopWrites} \subseteq Nat \ {0}
  /\ InitialSize <= MemTableSize

VARIABLES
  logs,      \* on disk: log number -> records, how many are synced, closed
  gone,      \* removed logs that a crash may bring back
  tables,    \* on disk: sstable number -> the writes in it
  manifest,  \* on disk: minUnflushedLogNum, tables, next file, last seqnum
  phase,     \* "open"; else "down", "replaying", "replayed" or "failed"
  queue,     \* d.mu.mem.queue; the last entry is d.mu.mem.mutable
  nextSize,  \* d.mu.mem.nextSize
  nextFile,  \* versionSet.nextFileNum
  seq,       \* the last sequence number assigned
  vs,        \* versionSet: minUnflushedLogNum and the current version
  log,       \* the number of d.mu.log.writer
  call,      \* what the holder of commitPipeline.mu is doing
  inflight,  \* batches written to the log and not yet applied
  flush,     \* d.flush
  wal,       \* wal.StandaloneManager and its recycler
  jobs,      \* the cleanup manager's queue of files to delete
  acked,     \* writes up to this one were reported durable
  calls, crashes, errs

disk == <<logs, gone, tables, manifest>>
mem  == <<queue, nextSize, inflight>>
vars == <<disk, mem, phase, nextFile, seq, vs, log, call, flush, wal, jobs,
          acked, calls, crashes, errs>>

(***************************************************************************)
(* Memtables and the queue.                                                *)
(***************************************************************************)
Entry(kind, logNum, seqNum, size) ==
  [kind |-> kind, logNum |-> logNum, logSeqNum |-> seqNum, size |-> size,
   writes |-> {}, refs |-> 0, forced |-> FALSE, file |-> 0]

\* newMemTable, with the writer reference the queue's last entry holds.
NewMemTable(logNum, seqNum, size) ==
  [Entry("mem", logNum, seqNum, size) EXCEPT !.refs = 1]

LargeBatch(logNum, s) ==
  [Entry("large", logNum, s, MemTableSize \div 2) EXCEPT !.writes = {s}]

IngestedFlushable(logNum, s, file) ==
  [Entry("ingest", logNum, s, 0) EXCEPT !.writes = {s}, !.forced = TRUE,
                                        !.file = file]

Doubled(size) == IF 2 * size < MemTableSize THEN 2 * size ELSE MemTableSize

\* The size after n more memtables.
Grown(size, n) ==
  LET after[i \in 0 .. n] == IF i = 0 THEN size ELSE Doubled(after[i - 1])
  IN  after[n]

Mutable == queue[Len(queue)]

\* Mutant: the reference of one batch in flight is overlooked.
ReadyWithOneRef(e) == e.kind # "mem" \/ e.refs <= 1

ReadyForFlush(e) == e.kind # "mem" \/ e.refs = 0

\* How many entries of these kinds, at the head of all but the last, are ready.
ReadyPrefix(q, kinds) ==
  Max({n \in 0 .. Len(q) - 1 :
         \A i \in 1 .. n : q[i].kind \in kinds /\ ReadyForFlush(q[i])})

PassedFlushThreshold(q) ==
  LET n == ReadyPrefix(q, {"mem", "large", "ingest"})
      Size(i) == IF q[i].forced THEN MemTableSize ELSE q[i].size
      total[i \in 0 .. n] == IF i = 0 THEN 0 ELSE total[i - 1] + Size(i)
  IN  n > 0 /\ 2 * total[n] >= MemTableSize

MaybeScheduleFlush(q) ==
  IF flush.pc = "idle" /\ Len(q) > 1 /\ PassedFlushThreshold(q)
  THEN [flush EXCEPT !.pc = "begin"] ELSE flush

\* Mutant: an ingested flushable at the head of the queue is never taken.
FlushCountNoIngest(q) ==
  ReadyPrefix(q, {"mem", "large"})

\* How many entries flush1 takes: one ingested flushable, or the ready
\* memtables and large batches before the first.
FlushCount(q) ==
  IF q[1].kind = "ingest" /\ Len(q) > 1 THEN 1
  ELSE ReadyPrefix(q, {"mem", "large"})

Stalled ==
  MapThenSumSet(LAMBDA i : queue[i].size, DOMAIN queue)
    >= StopWrites * MemTableSize

(***************************************************************************)
(* Logs.                                                                   *)
(***************************************************************************)
EmptyLog == [recs |-> <<>>, synced |-> 0, closed |-> FALSE]

Appended(l, kind, s, file) ==
  [logs EXCEPT ![l].recs =
     Append(@, [kind |-> kind, seq |-> s, file |-> file])]

Synced(l) == [logs EXCEPT ![l].synced = Len(logs[l].recs)]

LastSeq(l) == Max({acked} \cup {r.seq : r \in Range(logs[l].recs)})

\* The numbers of a set in increasing order.
Sorted(S) ==
  [i \in 1 .. Cardinality(S) |->
     CHOOSE x \in S : Cardinality({y \in S : y < x}) = i - 1]

Without(f, S) == [x \in DOMAIN f \ S |-> f[x]]

Joined(f, g) ==
  [x \in DOMAIN f \cup DOMAIN g |-> IF x \in DOMAIN f THEN f[x] ELSE g[x]]

\* LogRecycler.Add, of a log that Obsolete finds.
RecyclerAdd(w, l) ==
  IF l < w.minRecycle THEN [w EXCEPT !.delete = Append(@, l)]
  ELSE IF l <= w.maxLog THEN w
  ELSE IF Len(w.recycler) >= MaxRecyclable
       THEN [w EXCEPT !.maxLog = l, !.delete = Append(@, l)]
       ELSE [w EXCEPT !.maxLog = l, !.recycler = Append(@, l)]

\* Mutant: the oldest unflushed log is taken for obsolete too.
OldLogsInclusive(w, min) ==
  Max({n \in 0 .. Len(w.queue) : \A i \in 1 .. n : w.queue[i] <= min})

\* How many logs at the head of the queue are older than min.
OldLogs(w, min) ==
  Max({n \in 0 .. Len(w.queue) : \A i \in 1 .. n : w.queue[i] < min})

\* StandaloneManager.Obsolete, whose loop offers the old logs to the recycler
\* one by one: what is to be deleted is left in "delete".
Obsolete(w, min) ==
  LET n == OldLogs(w, min)
      start == [w EXCEPT !.initial = {}, !.delete = Sorted(w.initial),
                         !.queue = SubSeq(@, n + 1, Len(@))]
      after[i \in 0 .. n] ==
        IF i = 0 THEN start ELSE RecyclerAdd(after[i - 1], w.queue[i])
  IN  after[n]

\* deleteObsoleteFiles, with the tables that scanObsoleteFiles found.
DeleteObsoleteFiles(w, min, orphans) ==
  LET found == Obsolete(w, min) IN
  /\ wal' = [found EXCEPT !.delete = <<>>]
  /\ jobs' = jobs \o [i \in DOMAIN found.delete |-> <<"log", found.delete[i]>>]
                  \o [i \in DOMAIN orphans |-> <<"table", orphans[i]>>]

(***************************************************************************)
(* The commit path, under commitPipeline.mu.                               *)
(***************************************************************************)
Idle == [pc |-> "idle", kind |-> "none", new |-> 0, reuse |-> 0, file |-> 0]

Init ==
  /\ logs = <<EmptyLog>> /\ gone = <<>> /\ tables = <<>>
  /\ manifest = [min |-> 1, tables |-> {}, next |-> 2, last |-> 0]
  /\ phase = "open" /\ log = 1 /\ nextFile = 2 /\ seq = 0
  /\ queue = <<NewMemTable(1, 1, InitialSize)>>
  /\ nextSize = Doubled(InitialSize)
  /\ vs = [min |-> 1, tables |-> {}]
  /\ call = Idle /\ inflight = {}
  /\ flush = [pc |-> "idle", n |-> 0, min |-> 0, file |-> 0]
  /\ wal = [queue |-> <<1>>, recycler |-> <<>>, maxLog |-> 0,
            minRecycle |-> 0, initial |-> {}, delete |-> <<>>]
  /\ jobs = <<>> /\ acked = 0 /\ calls = 0 /\ crashes = 0 /\ errs = 0

Begin(kind) ==
  /\ phase = "open" /\ call.pc = "idle" /\ kind \in Kinds /\ calls < MaxCalls
  /\ calls' = calls + 1

\* commitWrite when prepare finds room: the memtable is referenced, then the
\* batch goes to the log.
CommitFits ==
  /\ Begin("small")
  /\ seq' = seq + 1
  /\ queue' = [queue EXCEPT ![Len(queue)].refs = @ + 1]
  /\ inflight' = inflight \cup {[seq |-> seq + 1, log |-> Mutable.logNum]}
  /\ logs' = Appended(log, "small", seq + 1, 0)
  /\ UNCHANGED <<gone, tables, manifest, nextSize, phase, nextFile, vs, log,
                 call, flush, wal, jobs, acked, crashes, errs>>

\* prepare finds the arena full, or too small: a batch need not fit an empty
\* memtable that is smaller than Options.MemTableSize.
CommitFull ==
  /\ Begin("small")
  /\ Mutable.writes # {} \/ Mutable.refs > 1 \/ Mutable.size < MemTableSize
  /\ seq' = seq + 1
  /\ call' = [Idle EXCEPT !.pc = "stall", !.kind = "small"]
  /\ UNCHANGED <<disk, mem, phase, nextFile, vs, log, flush, wal, jobs, acked,
                 crashes, errs>>

\* A large batch goes to the current log before the rotation.
CommitLarge ==
  /\ Begin("large")
  /\ seq' = seq + 1
  /\ logs' = Appended(log, "large", seq + 1, 0)
  /\ call' = [Idle EXCEPT !.pc = "stall", !.kind = "large"]
  /\ UNCHANGED <<gone, tables, manifest, mem, phase, nextFile, vs, log, flush,
                 wal, jobs, acked, crashes, errs>>

AsyncFlush ==
  /\ Begin("flush")
  /\ call' = [Idle EXCEPT !.pc = "stall", !.kind = "flush"]
  /\ UNCHANGED <<disk, mem, phase, nextFile, seq, vs, log, flush, wal, jobs,
                 acked, crashes, errs>>

\* ingest's prepare when the sstables, already linked and synced, overlap a
\* flushable and may be queued after it; AllocateSeqNum has waited for the
\* batches before.
IngestAsFlushable ==
  /\ Begin("ingest")
  /\ inflight = {}
  /\ \E i \in DOMAIN queue : queue[i].writes # {}
  /\ Len(queue) < StopWrites
  /\ seq' = seq + 1
  /\ nextFile' = nextFile + 1
  /\ tables' = Joined(tables, [t \in {nextFile} |-> {seq + 1}])
  /\ call' = [Idle EXCEPT !.pc = "close", !.kind = "ingest", !.file = nextFile]
  /\ UNCHANGED <<logs, gone, manifest, mem, phase, vs, log, flush, wal, jobs,
                 acked, crashes, errs>>

\* maybeInduceWriteStall: wait on d.mu.compact.cond while the memtables use
\* too much.
InduceWriteStall ==
  /\ call.pc = "stall"
  /\ call' = [call EXCEPT !.pc = IF Stalled THEN "wait" ELSE "close"]
  /\ UNCHANGED <<disk, mem, phase, nextFile, seq, vs, log, flush, wal, jobs,
                 acked, calls, crashes, errs>>

\* Mutant: the log is closed without its end being written.
CloseLogUnclean ==
  /\ \/ call.pc = "close"
     \/ call.pc = "sync" /\ logs[log].synced = Len(logs[log].recs)
  /\ call' = [call EXCEPT !.pc = "create", !.new = nextFile,
                          !.kind = IF call.pc = "sync" THEN "ingested" ELSE @]
  /\ nextFile' = nextFile + 1
  /\ logs' = Synced(log)
  /\ acked' = LastSeq(log)
  /\ UNCHANGED <<gone, tables, manifest, mem, phase, seq, vs, log, flush, wal,
                 jobs, calls, crashes, errs>>

\* rotateWAL: take a number, release DB.mu and close the log, which writes its
\* end and syncs it; only then ...
CloseLog ==
  /\ \/ call.pc = "close"
     \/ call.pc = "sync" /\ logs[log].synced = Len(logs[log].recs)
  /\ call' = [call EXCEPT !.pc = "create", !.new = nextFile,
                          !.kind = IF call.pc = "sync" THEN "ingested" ELSE @]
  /\ nextFile' = nextFile + 1
  /\ logs' = [Synced(log) EXCEPT ![log].closed = TRUE]
  /\ acked' = LastSeq(log)
  /\ UNCHANGED <<gone, tables, manifest, mem, phase, seq, vs, log, flush, wal,
                 jobs, calls, crashes, errs>>

\* ... Manager.Create: rename a recycled log to the new name or create one ...
CreateLog ==
  /\ call.pc = "create"
  /\ LET old == IF wal.recycler = <<>> THEN {} ELSE {Head(wal.recycler)} IN
     /\ call' = [call EXCEPT !.pc = "open",
                             !.reuse = IF old = {} THEN 0 ELSE Head(wal.recycler)]
     /\ logs' = Joined(Without(logs, old), [l \in {call.new} |-> EmptyLog])
     /\ gone' = Joined(gone, [l \in old \cap DOMAIN logs |-> logs[l]])
  /\ UNCHANGED <<tables, manifest, mem, phase, nextFile, seq, vs, log, flush,
                 wal, jobs, acked, calls, crashes, errs>>

\* ... take it out of the recycler, sync the directory and make it the log.
Opened ==
  [wal EXCEPT !.recycler = IF call.reuse = 0 THEN @ ELSE Tail(@),
              !.queue = Append(@, call.new)]

OpenLog ==
  /\ call.pc = "open"
  /\ gone' = <<>>
  /\ log' = call.new

\* The size of the next memtable: doubled until the batch fits, or that of the
\* last one if a flush was asked for while less than half of it was used.
NextSizes ==
  CASE call.kind = "small" -> {Grown(nextSize, n) : n \in 0 .. MemTableSize}
    [] call.kind = "flush" ->
         {Mutable.size}
           \cup (IF Mutable.writes = {} /\ Mutable.refs = 1 THEN {} ELSE {nextSize})
    [] OTHER -> {nextSize}

\* rotateMemtable: q is the queue with what goes before the new memtable.
RotateMemtable(q, seqNum, refs) ==
  \E size \in NextSizes :
    LET prev == Len(queue)
        next == Append([q EXCEPT ![prev].refs = @ - 1],
                       [NewMemTable(call.new, seqNum, size) EXCEPT !.refs = refs])
    IN  /\ queue' = next
        /\ nextSize' = Doubled(size)
        /\ flush' = IF next[prev].refs = 0 THEN MaybeScheduleFlush(next) ELSE flush

\* makeRoomForWrite for a batch that did not fit, which then goes to the new
\* log and memtable.
RotateForBatch ==
  /\ OpenLog /\ call.kind = "small"
  /\ RotateMemtable(queue, seq, 2)
  /\ inflight' = inflight \cup {[seq |-> seq, log |-> call.new]}
  /\ logs' = Appended(call.new, "small", seq, 0)
  /\ wal' = Opened
  /\ call' = Idle
  /\ UNCHANGED <<tables, manifest, phase, nextFile, seq, vs, jobs, acked, calls,
                 crashes, errs>>

\* Mutant: the large batch is filed under the new log.
RotateForLargeNewLog ==
  /\ OpenLog /\ call.kind = "large"
  /\ RotateMemtable(Append(queue, LargeBatch(call.new, seq)), seq + 1, 1)
  /\ wal' = Opened
  /\ call' = Idle
  /\ UNCHANGED <<logs, tables, manifest, inflight, phase, nextFile, seq, vs,
                 jobs, acked, calls, crashes, errs>>

\* For a large batch: its entry shares the log of the memtable before it.
RotateForLarge ==
  /\ OpenLog /\ call.kind = "large"
  /\ RotateMemtable(Append(queue, LargeBatch(Mutable.logNum, seq)), seq + 1, 1)
  /\ wal' = Opened
  /\ call' = Idle
  /\ UNCHANGED <<logs, tables, manifest, inflight, phase, nextFile, seq, vs,
                 jobs, acked, calls, crashes, errs>>

\* For a flush that was asked for.
RotateForFlush ==
  /\ OpenLog /\ call.kind = "flush"
  /\ RotateMemtable([queue EXCEPT ![Len(queue)].forced = TRUE], seq + 1, 1)
  /\ wal' = Opened
  /\ call' = Idle
  /\ UNCHANGED <<logs, tables, manifest, inflight, phase, nextFile, seq, vs,
                 jobs, acked, calls, crashes, errs>>

\* handleIngestAsFlushable: a log for the ingest alone, one record, synced ...
WriteIngest ==
  /\ OpenLog /\ call.kind = "ingest"
  /\ logs' = Appended(call.new, "ingest", seq, call.file)
  /\ wal' = Opened
  /\ call' = [call EXCEPT !.pc = "sync"]
  /\ UNCHANGED <<tables, manifest, mem, phase, nextFile, seq, vs, flush, jobs,
                 acked, calls, crashes, errs>>

\* ... then another rotation puts the flushable before the next memtable.
RotateForIngest ==
  /\ OpenLog /\ call.kind = "ingested"
  /\ LET q == Append(queue, IngestedFlushable(log, seq, call.file)) IN
     RotateMemtable(q, seq + 1, 1)
  /\ wal' = Opened
  /\ call' = Idle
  /\ UNCHANGED <<logs, tables, manifest, inflight, phase, nextFile, seq, vs,
                 jobs, acked, calls, crashes, errs>>

\* commitApply, by the batch's own goroutine and without commitPipeline.mu.
Apply ==
  \E b \in inflight, i \in DOMAIN queue :
    /\ queue[i].kind = "mem" /\ queue[i].logNum = b.log
    /\ LET q == [queue EXCEPT ![i].writes = @ \cup {b.seq},
                              ![i].refs = @ - 1]
       IN  /\ queue' = q
           /\ flush' = IF q[i].refs = 0 THEN MaybeScheduleFlush(q) ELSE flush
    /\ inflight' = inflight \ {b}
    /\ UNCHANGED <<disk, nextSize, phase, nextFile, seq, vs, log, call, wal,
                   jobs, acked, calls, crashes, errs>>

\* The log's flush loop syncs what was written, and its writers hear.
SyncLog ==
  /\ phase = "open"
  /\ logs[log].synced < Len(logs[log].recs)
  /\ logs' = Synced(log)
  /\ acked' = LastSeq(log)
  /\ UNCHANGED <<gone, tables, manifest, mem, phase, nextFile, seq, vs, log, call,
                 flush, wal, jobs, calls, crashes, errs>>

(***************************************************************************)
(* DB.flush.                                                               *)
(***************************************************************************)
FlushBegin ==
  /\ flush.pc = "begin"
  /\ LET n == FlushCount(queue) IN
     IF n = 0
     THEN flush' = [flush EXCEPT !.pc = "end"] /\ UNCHANGED nextFile
     ELSE /\ flush' = [pc |-> "run", n |-> n, min |-> queue[n + 1].logNum,
                       file |-> IF queue[1].kind = "ingest"
                                THEN queue[1].file ELSE nextFile]
          /\ nextFile' = IF queue[1].kind = "ingest" THEN nextFile
                         ELSE nextFile + 1
  /\ UNCHANGED <<disk, mem, phase, seq, vs, log, call, wal, jobs, acked, calls,
                 crashes, errs>>

\* Mutant: only the first of the memtables is written out.
FlushingFirst == queue[1].writes

Flushing == UNION {queue[i].writes : i \in 1 .. flush.n}

\* runCompaction, without DB.mu: write the sstable and sync it.
FlushRun ==
  /\ flush.pc = "run"
  /\ flush' = [flush EXCEPT !.pc = "log"]
  /\ tables' = IF queue[1].kind = "ingest" \/ Flushing = {} THEN tables
               ELSE Joined(tables, [t \in {flush.file} |-> Flushing])
  /\ UNCHANGED <<logs, gone, manifest, mem, phase, nextFile, seq, vs, log, call,
                 wal, jobs, acked, calls, crashes, errs>>

\* A flush that fails leaves the queue alone, but has obsolete files deleted too.
FlushFails ==
  /\ flush.pc = "run" /\ phase \in FailIn /\ errs < MaxErrs
  /\ errs' = errs + 1
  /\ DeleteObsoleteFiles(wal, vs.min, <<>>)
  /\ flush' = [flush EXCEPT !.pc = "end", !.n = 0]
  /\ UNCHANGED <<disk, mem, phase, nextFile, seq, vs, log, call, acked, calls,
                 crashes>>

\* The version edit of the flush.
Flushed == vs.tables \cup ({flush.file} \cap DOMAIN tables)

\* logAndApply writes the manifest without DB.mu ...
LogAndApply ==
  /\ flush.pc = "log"
  /\ manifest' = [min |-> flush.min, tables |-> Flushed, next |-> nextFile,
                  last |-> seq]
  /\ acked' = Max({acked} \cup Flushing)
  /\ flush' = [flush EXCEPT !.pc = "install"]
  /\ UNCHANGED <<logs, gone, tables, mem, phase, nextFile, seq, vs, log, call,
                 wal, jobs, calls, crashes, errs>>

\* ... and installs the version with it; flush1 takes what it flushed from
\* the queue and has obsolete files deleted.
FlushInstall ==
  /\ flush.pc = "install"
  /\ vs' = [min |-> flush.min, tables |-> Flushed]
  /\ queue' = SubSeq(queue, flush.n + 1, Len(queue))
  /\ DeleteObsoleteFiles(wal, flush.min, <<>>)
  /\ flush' = [flush EXCEPT !.pc = "end", !.n = 0]
  /\ UNCHANGED <<disk, nextSize, inflight, phase, nextFile, seq, log, call, acked,
                 calls, crashes, errs>>

\* Mutants: nobody is woken; a flush that failed is not tried again.
FlushEndSilent ==
  /\ flush.pc = "end"
  /\ flush' = [pc |-> IF Len(queue) > 1 /\ PassedFlushThreshold(queue)
                      THEN "begin" ELSE "idle",
               n |-> 0, min |-> 0, file |-> 0]
  /\ UNCHANGED <<disk, mem, phase, nextFile, seq, vs, log, call, wal, jobs, acked,
                 calls, crashes, errs>>

FlushEndOnce ==
  /\ flush.pc = "end"
  /\ flush' = [pc |-> "idle", n |-> 0, min |-> 0, file |-> 0]
  /\ call' = IF call.pc = "wait" THEN [call EXCEPT !.pc = "stall"] ELSE call
  /\ UNCHANGED <<disk, mem, phase, nextFile, seq, vs, log, wal, jobs, acked,
                 calls, crashes, errs>>

\* flush looks for more to flush and wakes the stalled writer.
FlushEnd ==
  /\ flush.pc = "end"
  /\ flush' = [pc |-> IF Len(queue) > 1 /\ PassedFlushThreshold(queue)
                      THEN "begin" ELSE "idle",
               n |-> 0, min |-> 0, file |-> 0]
  /\ call' = IF call.pc = "wait" THEN [call EXCEPT !.pc = "stall"] ELSE call
  /\ UNCHANGED <<disk, mem, phase, nextFile, seq, vs, log, wal, jobs, acked,
                 calls, crashes, errs>>

\* The cleanup manager deletes the next file.
DeleteFile ==
  /\ jobs # <<>>
  /\ jobs' = Tail(jobs)
  /\ LET f == {Head(jobs)[2]} IN
     IF Head(jobs)[1] = "log"
     THEN /\ logs' = Without(logs, f)
          /\ gone' = Joined(gone, [l \in f \cap DOMAIN logs |-> logs[l]])
          /\ UNCHANGED tables
     ELSE tables' = Without(tables, f) /\ UNCHANGED <<logs, gone>>
  /\ UNCHANGED <<manifest, mem, phase, nextFile, seq, vs, log, call, flush, wal,
                 acked, calls, crashes, errs>>

(***************************************************************************)
(* Crash and Open.                                                         *)
(***************************************************************************)
Crash ==
  /\ phase # "failed" /\ crashes < MaxCrashes
  /\ crashes' = crashes + 1
  /\ \E lost \in SUBSET (IF call.pc = "open" THEN {call.new} ELSE {}),
        back \in SUBSET DOMAIN gone :
       LET left == Joined(Without(logs, lost), [l \in back |-> gone[l]]) IN
       \E keep \in [DOMAIN left -> 0 .. MaxCalls] :
         /\ \A l \in DOMAIN left : keep[l] \in left[l].synced .. Len(left[l].recs)
         /\ logs' = [l \in DOMAIN left |->
                       [left[l] EXCEPT !.recs = SubSeq(@, 1, keep[l])]]
  /\ phase' = "down" /\ gone' = <<>> /\ queue' = <<>> /\ inflight' = {}
  /\ nextSize' = InitialSize /\ nextFile' = 0 /\ seq' = 0 /\ log' = 0
  /\ vs' = [min |-> 0, tables |-> {}]
  /\ call' = Idle
  /\ flush' = [pc |-> "idle", n |-> 0, min |-> 0, file |-> 0]
  /\ wal' = [queue |-> <<>>, recycler |-> <<>>, maxLog |-> 0, minRecycle |-> 0,
             initial |-> {}, delete |-> <<>>]
  /\ jobs' = <<>>
  /\ UNCHANGED <<tables, manifest, acked, calls, errs>>

\* replayWAL stops after the record of an ingest.
Readable(l) ==
  LET recs == logs[l].recs
      n == Max({k \in 0 .. Len(recs) :
                  \A i \in 1 .. k - 1 : recs[i].kind # "ingest"})
  IN  SubSeq(recs, 1, n)

\* The logs Open has yet to replay; while it does, "log" is the last it has.
Unreplayed == {l \in DOMAIN logs : l >= manifest.min /\ l > log}

\* The entries of a log's records: a large batch and an ingest have one each,
\* and the small batches between them share a memtable, whose flush is forced.
Entries(l) ==
  LET recs == Readable(l)
      Small(i) == recs[i].kind = "small"
      heads == Sorted({i \in DOMAIN recs :
                         ~Small(i) \/ i = 1 \/ ~Small(i - 1)})
      From(i) == {j \in i .. Len(recs) : \A k \in i .. j : Small(k)}
      Table(i) ==
        CASE recs[i].kind = "large" -> LargeBatch(l, recs[i].seq)
          [] recs[i].kind = "ingest" ->
               IngestedFlushable(l, recs[i].seq, recs[i].file)
          [] OTHER -> [Entry("mem", l, recs[i].seq, MemTableSize)
                         EXCEPT !.forced = TRUE,
                                !.writes = {recs[j].seq : j \in From(i)}]
  IN  [h \in DOMAIN heads |-> Table(heads[h])]

UsedNumbers == DOMAIN logs \cup DOMAIN tables

\* Mutant: file numbers start again from the manifest's.
LoadNumbers ==
  /\ phase = "down"
  /\ phase' = "replaying"
  /\ queue' = <<NewMemTable(0, manifest.last + 1, InitialSize)>>
  /\ nextSize' = Doubled(InitialSize)
  /\ nextFile' = manifest.next
  /\ seq' = manifest.last
  /\ vs' = [min |-> manifest.min, tables |-> manifest.tables]
  /\ wal' = [wal EXCEPT !.initial = DOMAIN logs,
                        !.minRecycle = Max({0} \cup {l + 1 : l \in DOMAIN logs})]
  /\ UNCHANGED <<disk, inflight, log, call, flush, jobs, acked, calls, crashes,
                 errs>>

\* Open loads the manifest, whose tables must be there, and sees that no file
\* number is used again.
Load ==
  /\ phase = "down"
  /\ phase' = IF manifest.tables \subseteq DOMAIN tables THEN "replaying"
              ELSE "failed"
  /\ queue' = <<NewMemTable(0, manifest.last + 1, InitialSize)>>
  /\ nextSize' = Doubled(InitialSize)
  /\ nextFile' = Max({manifest.next} \cup {f + 1 : f \in UsedNumbers})
  /\ seq' = manifest.last
  /\ vs' = [min |-> manifest.min, tables |-> manifest.tables]
  /\ wal' = [wal EXCEPT !.initial = DOMAIN logs,
                        !.minRecycle = Max({0} \cup {l + 1 : l \in DOMAIN logs})]
  /\ UNCHANGED <<disk, inflight, log, call, flush, jobs, acked, calls, crashes,
                 errs>>

\* A log that is not the last must end cleanly: it was closed, or it is read
\* no further than an ingest, whose sstable must be there.
Replayable(l) ==
  /\ \/ Unreplayed = {l} \/ logs[l].closed
     \/ \E r \in Range(logs[l].recs) : r.kind = "ingest"
  /\ \A r \in Range(Readable(l)) : r.kind = "ingest" => r.file \in DOMAIN tables

\* replayWAL of the next log; the first one closes off the first memtable.
ReplayWAL ==
  /\ phase = "replaying" /\ Unreplayed # {}
  /\ LET l == Min(Unreplayed)
         before == IF log > 0 THEN queue
                   ELSE [queue EXCEPT ![1].refs = 0, ![1].forced = TRUE]
         memtables == {i \in DOMAIN Entries(l) : Entries(l)[i].kind = "mem"}
     IN  /\ phase' = IF Replayable(l) THEN phase ELSE "failed"
         /\ queue' = before \o Entries(l)
         /\ nextSize' = Grown(nextSize, Cardinality(memtables))
         /\ seq' = Max({seq} \cup {r.seq : r \in Range(Readable(l))})
         /\ log' = l
  /\ UNCHANGED <<disk, inflight, nextFile, vs, call, flush, wal, jobs, acked,
                 calls, crashes, errs>>

\* Once they are all replayed there is a new mutable memtable, and a flush of
\* everything before it.
EndReplay ==
  /\ phase = "replaying" /\ Unreplayed = {}
  /\ phase' = "replayed"
  /\ IF log = 0 THEN UNCHANGED <<queue, nextSize, nextFile, flush>>
     ELSE /\ queue' = Append(queue, NewMemTable(nextFile, seq + 1, nextSize))
          /\ nextSize' = Doubled(nextSize)
          /\ nextFile' = nextFile + 1
          /\ flush' = MaybeScheduleFlush(queue')
  /\ UNCHANGED <<disk, inflight, seq, vs, log, call, wal, jobs, acked, calls,
                 crashes, errs>>

\* Mutant: Open does not wait for the flush.
OpenAtOnce ==
  /\ phase = "replayed" /\ call.pc = "idle"
  /\ call' = [Idle EXCEPT !.pc = "create", !.kind = "open", !.new = nextFile]
  /\ nextFile' = nextFile + 1
  /\ UNCHANGED <<disk, mem, phase, seq, vs, log, flush, wal, jobs, acked, calls,
                 crashes, errs>>

\* Open waits for the flush, then makes a log for the mutable memtable.
OpenCreateLog ==
  /\ phase = "replayed" /\ flush.pc = "idle" /\ call.pc = "idle"
  /\ call' = [Idle EXCEPT !.pc = "create", !.kind = "open", !.new = nextFile]
  /\ nextFile' = nextFile + 1
  /\ UNCHANGED <<disk, mem, phase, seq, vs, log, flush, wal, jobs, acked, calls,
                 crashes, errs>>

\* What the store holds once it is open, and what the disk would give back.
Live ==
  UNION {tables[t] : t \in vs.tables \cap DOMAIN tables}
    \cup UNION {e.writes : e \in Range(queue)}
    \cup {b.seq : b \in inflight}
    \cup (IF call.kind \in {"small", "large", "ingest", "ingested"}
          THEN {seq} ELSE {})

OnDisk ==
  UNION {tables[t] : t \in manifest.tables \cap DOMAIN tables}
    \cup UNION {{r.seq : r \in Range(Readable(l))} :
                 l \in {l \in DOMAIN logs : l >= manifest.min}}

\* The end of Open: what was recovered is now reported durable, and what no
\* version and no queued ingest uses is deleted.
OpenReturns ==
  /\ OpenLog /\ call.kind = "open"
  /\ phase' = "open"
  /\ queue' = [queue EXCEPT ![Len(queue)].logNum = call.new]
  /\ flush' = MaybeScheduleFlush(queue)
  /\ LET live == vs.tables \cup {e.file : e \in Range(queue)} IN
     DeleteObsoleteFiles(Opened, vs.min, Sorted(DOMAIN tables \ live))
  /\ acked' = Max({acked} \cup Live)
  /\ call' = Idle
  /\ UNCHANGED <<logs, tables, manifest, nextSize, inflight, nextFile, seq, vs,
                 calls, crashes, errs>>

(***************************************************************************)
(* The specification.  A call that holds the commit lock, a batch to be    *)
(* applied, the log's flush loop, a scheduled flush, the cleanup manager   *)
(* and Open keep running; calls need not be made and crashes not happen.   *)
(***************************************************************************)
Call == CommitFits \/ CommitFull \/ CommitLarge \/ AsyncFlush \/ IngestAsFlushable

Rotation ==
  \/ InduceWriteStall \/ CloseLog \/ CreateLog
  \/ RotateForBatch \/ RotateForLarge \/ RotateForFlush
  \/ WriteIngest \/ RotateForIngest

Flush ==
  \/ FlushBegin \/ FlushRun \/ FlushFails
  \/ LogAndApply \/ FlushInstall \/ FlushEnd

Open == Load \/ ReplayWAL \/ EndReplay \/ OpenCreateLog \/ OpenReturns

Next ==
  \/ Call \/ Rotation \/ Apply \/ SyncLog \/ Flush \/ DeleteFile \/ Open \/ Crash

Fairness ==
  /\ WF_vars(Rotation) /\ WF_vars(Apply) /\ WF_vars(SyncLog) /\ WF_vars(Flush)
  /\ WF_vars(DeleteFile) /\ WF_vars(Open)

Spec == Init /\ [][Next]_vars /\ Fairness

(***************************************************************************)
(* Properties.                                                             *)
(***************************************************************************)
(* None of the assertions on this path fires: every entry a flush takes has
   a log older than the new minimum (flush1), the minimum never goes back and
   is a number already given out (logAndApply), the log that is reused is
   still at the head of the recycler (Pop), and no batch is older than the
   memtable it is applied to (memTable.apply). *)
NoPanic ==
  /\ flush.pc = "begin" =>
       LET n == FlushCount(queue) IN
       \A i \in 1 .. n : queue[i].logNum < queue[n + 1].logNum
  /\ flush.pc = "log" => flush.min >= vs.min /\ flush.min < nextFile
  /\ call.pc = "open" /\ call.reuse # 0 =>
       wal.recycler # <<>> /\ Head(wal.recycler) = call.reuse
  /\ \A b \in inflight : \A i \in DOMAIN queue :
       queue[i].kind = "mem" /\ queue[i].logNum = b.log => queue[i].logSeqNum <= b.seq

(* A batch still to be applied finds its memtable in the queue and outside
   the flush that is running: no rotation, which reads the mutable memtable
   under commitPipeline.mu alone, and no flush takes it away meanwhile. *)
AppliesLand ==
  \A b \in inflight : \E i \in flush.n + 1 .. Len(queue) :
    queue[i].kind = "mem" /\ queue[i].logNum = b.log

(* A log that is to be deleted or reused, or already is, holds nothing that
   a crash at this moment would have to replay.  The first turn of the flush
   Open waits for hands on every log Open found, whatever it has flushed: the
   runs of this property have no flushable ingest and no failure there. *)
NeededLogsKept ==
  \A l \in {j[2] : j \in {j \in Range(jobs) : j[1] = "log"}}
            \cup Range(wal.recycler) \cup DOMAIN gone :
    l < manifest.min

(* No file is ever created under the number of one that exists: after any
   crash the numbers given out are above all that are in use. *)
NumbersFresh ==
  phase \in {"open", "replaying", "replayed"} =>
    \A f \in UsedNumbers \ {call.new} : f < nextFile

(* Whatever a crash leaves, Open finds the tables and ingested sstables it
   looks for and no torn log but the last one. *)
OpenSucceeds == phase # "failed"

Contract ==
  INSTANCE DurableStore WITH
    data <- IF phase \in {"open", "replayed"} THEN Live ELSE OnDisk,
    promised <- acked

(* After any crash, one in the middle of a rotation, a flush, a deletion or
   an earlier recovery included, Open brings back the oldest writes without a
   hole, all those among them that were synced, flushed or already recovered
   once; and while the store is open, no flush or rotation loses a write. *)
ImplementsStore == Contract!Spec

(* A writer stalled on a full memtable queue goes on: the flush that makes
   room also wakes it, and a failed flush is tried again. *)
StallsEnd == call.pc = "wait" ~> call.pc # "wait"

Forced == {i \in 1 .. Len(queue) - 1 : queue[i].forced}

(* A flush that was asked for ends, so that DB.Flush returns: the memtable
   leaves the queue even if the first attempt fails. *)
FlushesEnd == phase = "open" /\ Forced # {} ~> Forced = {}

(* Open comes to an end after a crash: the flush of what it replayed does
   not wait for anything Open holds up. *)
RecoveryEnds == phase = "down" ~> phase = "open"
=============================================================================
