# Verification of vecble / readpebble

TLA+ models of this repository, the TLC runs that check them on small instances, and
proofs checked by TLAPS.

## 1. The system

The repository is a small program of its own, a vector store with a Redis-style front
end, and a full copy of the storage engine it stands on, CockroachDB's Pebble
(`internal/pebble/pebble`). The roadmap's item "Embeedeing repebble into main source" is
under way: `go.mod` still takes Pebble from outside, and the copy is what is read here.

| component | state | operations | talks to |
|---|---|---|---|
| server, `cmd/main.go` | listener, `sigCh`, `quitCh`, `wg`, one handler per connection | accept, `parseRESP`, `handleCommand`, shutdown | clients by TCP, Pebble by `Set`, `Get`, `Flush` |
| vector storage, `internal/storage`; client, `pkg/client` | a Pebble handle | `Insert`, `Get`, encoding; `Search` is a stub | Pebble by `Set` with a sync, and `Get` |
| commit pipeline, `commit.go` | commit queue, three semaphores, a mutex, two sequence numbers | `Commit`, `AllocateSeqNum`, `directWrite` | the log and the memtable by `commitEnv` |
| log writer and reader, `record/` | blocks, sync queue, timer, error, file | `SyncRecordGeneralized`, `flushLoop`, `Close`, `Reader.Next` | wakes callers, releases their units |
| WAL failover, `wal/failover_writer.go`, `wal/reader.go` | record queue, up to ten physical logs | `WriteRecord`, `switchToNewDir`, callbacks, `Close`, `NextRecord` | several log writers |
| WAL manager, `wal/standalone_manager.go`, `log_recycler.go` | list of logs, recycler | `Create`, `Obsolete` | rotation, flush, Open |
| memtables and the queue, `db.go`, `mem_table.go`, `flushable.go` | mutable memtable, queue, writer references | prepare, apply, rotate, stall | pipeline, flush, reads |
| flush and compaction, `compaction.go` | flags of running jobs | `flush1`, `compact1`, schedule, cancel | queue, version set |
| ingestion, `ingest.go` | | flushable ingest, `ingestApply`, excise, external files | pipeline, queue, version set |
| version set, `version_set.go`, `internal/manifest` | versions, reference counts, virtual backings, zombies, manifest | `logLock`, `logAndApply`, `append`, `load` | all jobs |
| obsolete files, checkpoints, marker | lists of files, clean-up queue, `disabled` | `deleteObsoleteFiles`, `Checkpoint`, `Move` | version set |
| open and recovery, `open.go` | logs and manifest on disk | load, replay, flush, new log, scan | all of the above |

`PROJECT.json` lists all components, also those that are not modelled, with the reason.

What is hard in it, with lines, is the list `hazards` of `PROJECT.json`. In short:

* The commit pipeline is lock-free where it matters: batches apply in any order, any
  goroutine may publish any batch, pointers go stale and batches are recycled, indexes
  wrap, a unit of a semaphore and the slot it stands for are given back at different
  times, and two queues are drained by different goroutines in either order.
* The log writer signals its loop without a lock, a timer holds syncs back, a failed write
  must reach every waiter, and the reader must find the end of a log in a file that still
  holds an older one.
* With failover several files hold parts of one log, all of them report what they synced,
  late and in any order, and `Close` races a switch.
* A memtable is prepared under one mutex and applied to with none, while rotations and
  flushes go on; logs are deleted or reused on the word of a minimum in the manifest; a
  crash can come in the middle of a rotation, a flush, a deletion, or a recovery.
* Version edits are made by concurrent jobs which read their inputs without a lock; files
  are deleted by a goroutine that got its list a while ago; the last reference to a
  version can be dropped by any reader.
* The server's shutdown races its accept loop and depends on clients hanging up; `set` is
  acknowledged without a sync; the parser, which skips lengths and trusts counts, must stay
  in step with pipelined commands.

What makes each part correct: reads see a prefix of whole, applied batches; the log is in
sequence number order and an acknowledged sync is durable; an ingestion sees all that was
sequenced before it; no queue overflows, no unit is lost and every call comes back; a
crash leaves the oldest writes without a hole, every acknowledged one among them; no file
is deleted that is needed, and every other one is; an edit of the tables is atomic and
durable; stalls, flushes, compactions and recoveries end; commands run as they were sent;
an acknowledged `set` survives an orderly shutdown, and an `Insert` any crash; a vector
comes back as it was inserted.

## 2. Modules

| module | models |
|---|---|
| `CommitPipeline` | `commit.go`, with the callers' view of `log_writer.go`, and the parts of `db.go`, `ingest.go` and `batch.go` that touch the pipeline |
| `CommitContract` | what the pipeline promises, without queue, locks and log |
| `CommitPipelineProofs`, `FailoverWriterProofs`, `DurabilityProofs`, `VersionSetSteps`, `VersionSetProofs`, `VersionSetRefinement`, `ServerProofs`, `VectorStoreProofs` | the proofs of section 4 |
| `RecordReader` | the format of a log and `record.Reader` |
| `LogWriter` | `record/log_writer.go`, read back by `RecordReader` |
| `FailoverWriter` | `wal/failover_writer.go`, read back by `virtualWALReader` |
| `WalContract` | what a write-ahead log promises; `LogWriter` and `FailoverWriter` both implement it |
| `Durability` | from `commitWrite` to the sstable and back: rotation, stall, flush, WAL manager and recycler, deletion of logs, crash, replay |
| `DurableStore` | what survives a crash; `Durability` implements it |
| `VersionSet` | versions, virtual backings, manifest, the jobs that edit them, checkpoints, deletion of tables, crash and load |
| `TableStore` | atomic, durable edits of the tables' contents; `VersionSet` implements it |
| `Server` | `cmd/main.go` |
| `VectorStore` | `internal/storage` and `pkg/client` |
| `MCCommitPipeline`, `MCLogWriter`, `MCFailoverWriter`, `MCDurability`, `MCVersionSet`, `MCServer`, `MCVectorStore` | instances for TLC |

The modules stand on each other by their contracts. `CommitPipeline` sees the log as
waiters that are woken once a prefix is durable; `LogWriter` shows that of one file and
`FailoverWriter` of several. `FailoverWriter` uses of a physical log what `LogWriter`
shows. `Durability` takes the log as a sequence of records with a synced prefix, and the
manifest as one durable record that changes atomically, which is what `VersionSet` shows
of it; `VersionSet` in turn leaves the log and the memtables to `Durability`.
`VectorStore` and `Server` see Pebble as a history of writes of which a prefix is safe,
which is `DurableStore`.

### CommitPipeline

One action is one atomic operation of the code: a channel operation, a mutex operation, a
load, a store or a compare-and-swap. A goroutine runs one call on one `Batch`, so a batch
also names its goroutine; `pc` says which operation is next. `head` and `tail` count all
enqueues and dequeues, and every comparison the code makes is made on `Index(..)`, the
value modulo 2^32 (`IndexMod`) that the code keeps; slots are found by `Slot(..)`.
`lHead`, `lTail`, `lBatch` and `lSeq` are the locals a goroutine has loaded and may use
when they are stale; `lSeq` is `curSeqNum` in `publish` and `logSeqNum` in
`AllocateSeqNum`.

* `Begin` starts a call on a batch whose earlier call has returned: reset and reuse
  (`Batch.reset`). The kinds are an ordinary batch, a large one that is its own
  flushable, one refused for its count, and the two ingestions; `n` is 0 for `LogData`.
  In the code only batches of the pool come back; the batch of an ingestion is left to
  the collector, so the model recycles more than the code does.
* `AcquireIngestSem`, `AcquireCommitQueueSem`, `AcquireLogSyncQSem`, `Lock`,
  `RefuseInvalidBatch` are the entrance to `Commit` and `AllocateSeqNum`;
  `EnqueueCheck`, `EnqueueStore`, `EnqueueBump` are `enqueue`; `AssignSeqNum`, `Write`,
  `WriteFails` the rest of `prepare`; `Drain`, `IngestPrepare`, `DirectAcquire`,
  `DirectWrite`, `DirectWait` the rest of `AllocateSeqNum` and `directWrite`.
* `Apply` adds an entry to `mem`, the set of sequence numbers with nothing more to be
  applied; `ApplyFails` is its error.
* `MarkApplied` to `CommitDone` are `publish` with `dequeueApplied` in line; `Return`,
  `SyncWait` and `Fatal` the ways a call ends. An error of `Commit` ends the process in
  `DB.applyInternal`.
* `LogSync`, `LogFail`, `LogPop` and `LogRelease` are the flush loop as callers see it. A
  pass takes the waiters it finds, then the data; what it syncs therefore holds the
  records of all the waiters it took, and perhaps more. `pop` wakes a waiter before it
  releases the unit, which is why these are two actions.

Left out: statistics, options, `DisableWAL`. WAL rotation is in `Durability`, the inside
of the log in `LogWriter`.

### LogWriter and RecordReader

The file is a sequence of cells; a chunk is `Header` cells and its payload, and a cell
knows which chunk it is of, so that a checksum is "all cells of this chunk, in order".
`RecordReader` is `nextChunk` as recovery uses it: it looks for a header at every cell,
skips the rest of a block that is too short, takes a chunk of an older log or of zeros as
the end, and tells a torn end from a clean one.

* `SyncRecord`, `EmitFragment`, `TakeBlock`, `QueueBlock`, `PushSync` and `SignalLoop` are
  `SyncRecordGeneralized` and what it calls; the push and the signal take no lock and are
  actions of their own. `Close`, `CloseLoop` and `CloseFile` are `Close` with its trailer.
* `Check` to `Finish` are one turn of `flushLoop`: the condition variable with the queue
  looked at again after the ticket was taken (`AddTicket`, `Recheck`), the waiters before
  the data, each write, the sync, each waiter woken and its unit released.
* `mode` chooses between the two `pendingSyncs`: the queue of a log of its own, and the
  highest index of a log in a failover writer.
* `TimerFires` and `TimerSignals` are the min-sync-interval.

A crash keeps what was synced; of the other cells nothing, any one, or all from some place
on is lost, over a file that was empty, zeroed or recycled (`Image`, `Before`, `Losses`).

### FailoverWriter

`Push`, `Write` and `WriteRefused` are `WriteRecord`; a switch reserves a slot and creates
the log in the background (`SwitchToNewDir`, `CreateFails`, `Install`, `Discard`), and a
new log gets all records that have not been popped. `Sync`, `Pop` and `Done` are a log's
sync and its callback, `doneSyncCallback`. `Close`, `CloseLoop`, `WakeUp`, `CloseExit` and
`EndClose` are `closeInternal` with its condition variable. A switch may happen at any
time: the monitor decides by latencies, which covers no other behaviour.

### Durability

A write is its sequence number. `queue` is `d.mu.mem.queue`, whose last entry is the
mutable memtable; an entry is a memtable with its writer references, a large batch or an
ingested sstable. Whether a batch fits the arena is a free choice.

* Calls, one at a time under `commitPipeline.mu`: `CommitFits`, `CommitFull`,
  `CommitLarge`, `AsyncFlush`, `IngestAsFlushable`. A batch that has been written is in
  `inflight` until `Apply`, which needs no mutex, so that it interleaves with rotations,
  flushes and later calls.
* `InduceWriteStall` to `OpenLog` and the `RotateFor...` actions are `makeRoomForWrite`,
  `recycleWAL` and `rotateMemtable`, split where `DB.mu` is released.
* A memtable has a size, which doubles with each rotation up to `MemTableSize` or until the
  batch fits, and does not after a forced flush of less than half of one (`NextSizes`); a
  batch can fail to fit an empty memtable only while it is below that maximum (`CommitFull`).
* `FlushBegin` to `FlushEnd` are `flush1` and what `maybeScheduleFlush` does after it.
  `FlushFails` deletes obsolete files like a flush that succeeds. `FailIn` says in which
  phases flushes may fail: of an open store, and while Open waits for what it replayed.
* `Obsolete`, `DeleteObsoleteFiles`, `DeleteFile`: logs to the recycler or to the cleanup
  manager.
* `Crash` cuts each log anywhere past its synced prefix and may bring back a removed one.
  `Load` to `OpenReturns` are `Open`.

`acked` is the highest write whose sync, flush or recovery was reported.

### VersionSet

The tree has two levels, three keys and tables with items `<<key, table>>`; `Init` is a
store with a table in L1 and an external one, with a virtual backing, above it. A step
under `DB.mu` is one action.

* `BeginFlush`, `PickCompaction`, `BeginExcise`, `BeginExternal`, `BeginCheckpoint` begin a
  job. A compaction reads its version and writes its tables without `DB.mu`
  (`StartCompaction`, `WriteTable`, `SyncTable`, `RunDeleteOnly`, `FailRun`), then waits
  for the manifest lock (`ApplyTables`, `ApplyExcise`, `LockExternal`, `ApplyExternal`).
* `BeginEdit` and `WriteManifest` to `Install` are `logAndApply`, with the rotation of the
  manifest, the marker and its directory sync, zombies and virtual backings.
* `Read`, `Unref`, `RemoveUnreferenced`, `Schedule` are a reader and its read state.
* An excise cancels the compactions that read what it clears, and the compactions and
  flushes whose span it overlaps (`Cancelled`).
* `EnqueueJob` and `CleanupFile` delete files; a checkpoint disables that.
* `Crash`, `Load` to `OpenScan` are the end of the process and `Open`.

`Picks` is any choice the picker could make. `panic` in `db` records an assertion of the
code that failed.

### Server

`Programs` chooses `main` as it is, which returns at line 66 right after the demo, or
`main` without that line, so that the server below it is checked as written. Input is
lines. A line has the number behind its `*`, if it begins with one, the fields of its text,
and perhaps blanks around it. A command is a line, and for an array its words, each with the
line of its length before it; a word with line ends in it is several lines. `Parsed` is
`parseRESP`: it takes every second line of an array without a look at the lengths, trims
it, and puts only an array's command in lower case; `ParsePanic` is a count that
`make([]string, 0, numArgs)` does not take, `*-1` among them, which ends the process.

`WgWait` returns at once or falls asleep; the last `Done` wakes it (`CloseConn`), and
`WgWake` panics, as `sync.WaitGroup` does, if `main` has added a connection in between.

The store is the sequence of writes and the length of the prefix that is safe. A failed
`Accept` changes nothing and has no action. Left out: errors of Pebble.

### VectorStore

A float64 is its bit pattern, a number of `Width` digits to base `Radix` (8 and 256 in
the code). Only arrays are inserted: `storage.Insert` of another type of object stores
nothing and returns nil. `InsertFails` is a `Set` that refuses; `client.Insert` drops its error.
`serializeFloat64Array` and `deserializeFloat64Array` are the little-endian
encodings on sequences of digits. `RawSet` is the server's `set` on the same keys.
`Sync` and `Crash` are Pebble's promise: writes become durable in order, and a crash
leaves a prefix that holds at least those acknowledged with a sync.

## 3. Runs

| run | shows | bounds |
|---|---|---|
| `commit_calls` | `TypeOK`, `ReadPrefix`, `ReturnedVisible`, `IngestSeesAll`, `WalOrder`, `AckDurable`, no deadlock, and the contract | 2 calls of 6 kinds with every fault, or 3 goroutines in `publish` at once, of which one with a `LogData` batch; 4 slots, indexes modulo 8 from 6, so that they wrap; from sequence number 0 |
| `commit_tight` | `NoPanic`, `UnitsAccounted`, `CallsReturn` under contention | two units of each semaphore; a commit that waits, one with `SyncWait`, and a `directWrite`; indexes modulo 6 from 4 |
| `log_writer` | `ReadBack`, `CleanClose`, `WaitersHear`, and `WalContract` | blocks of 5 cells with headers of 2, records of 1 and 5 cells, 1 unit, both modes, every fault, the timer |
| `wal_failover` | `ReadBack`, `StrictRead`, `UnitsAccounted`, `CloseReturns`, and `WalContract` | two batches over 3 logs, or three and a `LogData` batch over 2; 2 units, every fault |
| `durable_crash` | `NeededLogsKept`, `NumbersFresh`, `OpenSucceeds`, and `DurableStore` | 3 small, large or flush calls, a first memtable of half the size, a failing flush, 2 crashes anywhere, 1 recyclable log |
| `durable_ops` | `NoPanic`, `AppliesLand`, `StallsEnd`, `FlushesEnd`, `RecoveryEnds`, and `DurableStore` | 3 calls of every kind, a failing flush, 1 crash |
| `durable_recovery` | a violation, see below | 2 calls, 2 crashes, a flush that fails in Open |
| `version_set` | `NoPanic`, `NeededFilesKept`, `ManifestRecovers`, `JobsEnd`, `Collected`, and `TableStore` | any 2 of 7 kinds of jobs, a reader, 1 failure, a crash and one more in Open, a manifest that rotates after 2 records |
| `version_lock` | a violation, see below | a flush and an excise that fails |
| `server_shutdown` | `ExecutedAsSent`, `GracefulDurable`, `ShutdownCompletes` | 1 connection with 3 commands of 7, among them values with blanks and with a line end, an empty line and `*-1`, or 2 connections with 2 commands of 4; both programs |
| `server_framing` | a violation, see below | 1 command |
| `vector_store` | `RoundTrip`, `AckedInsertsSurvive` | 2 goroutines, 1 key, 3 writes, 1 crash, words of 2 ternary digits |

Why the bounds are enough:

* The races of `publish` are between the owner of a batch, one consumer that took it and
  one that is late, hence three goroutines; a stale pointer needs a batch that returns and
  is used again, hence three calls; full, empty and wrap all happen in four slots.
* `commit_tight` has two units for three goroutines with one call each, one for every way to
  take a unit of `logSyncQSem`: units are held by goroutines that wait for the mutex of a
  `directWrite` which waits for a unit, and a batch is published by another goroutine.
  Goroutines are interchangeable, so that it loses nothing to say which of them makes which
  call. That a queue is never full when a call enters, for any units, calls and faults, is
  `PanicsUnreachable`; `UnitsAccounted` speaks of states before an error, after which units
  stay out for good (`UnitsExact`).
* The first record leaves exactly a header's room in its block, the second spans three
  blocks, so the block is filled, taken and queued while the loop runs, and the rest is
  shorter than a header. One unit makes the second sync wait for the first.
* With three logs one lags, one takes over and one comes too late. A hole or a repetition
  among records shows with three of them over two files, and a batch without keys shares
  its sequence number with the next, which is what deduplication must tell apart.
* Three calls fill the queue, rotate the log, recycle it and rotate again; the second
  crash hits a recovery, with or without a flush of it, and what it leaves is opened again.
* Two jobs are every pair that can meet under the manifest lock, and the reader holds a
  third version. The first rotation of the manifest comes with the second edit.
* A value with a line end takes one command; others come before and after it, and the last
  may be cut off. A handler that ends while another connection is accepted takes two
  clients. Two digits are enough to tell the byte orders apart.

Every property has a mutant, a definition marked `Mutant:` before the one it replaces: a
plausible mistake at that place in the code, under which TLC finds the property violated.

**Fairness.** Weak fairness per goroutine is what Go's scheduler gives, channel sends and
mutexes included as long as the waiter's turn comes; faults, crashes and new calls are
never forced. `CommitPipeline!Fairness`: every goroutine and the flush loop.
`LogWriter!FairSpec`: the caller, the loop and the timer. `FailoverWriter!Fairness`: the
caller and the background work of each log; that a log's operations end at all, with or
without an error, is what `Close` waits for in the code too. `Durability!Fairness`: the
call under way, applies, syncs, the flush, the cleanup manager and `Open`.
`VersionSet!Fairness`: each job, the writer of the manifest with `Open`, the reader that
has let go (not one that is still reading), checkpoints and clean-up; jobs are
bounded, so the manifest lock is free in the end for the one that still waits, and weak
fairness is enough. `Server!Fairness`: main, handlers and the shutdown goroutine,
nothing of clients; `Patience` adds that clients hang up in the end, without which
`ShutdownCompletes` is false. That property also excuses, by name, the two ways a shutdown
can panic: a count that `make` refuses (`PanicsInMake`), and a connection added while
`wg.Wait` wakes up (`AddsLate`). Where an MC module bounds the next-state relation
(`MixedSpec`, `SyncSpec`, `BoundedSpec`), it bounds the commands, the records and who makes
which call, never what a goroutine does once it is under way, and the fairness stays that of
the module.

**Deadlock** is checked in `commit_calls`, where `Finished` lets the system stop only when the
process has ended or all calls are done. Elsewhere a behaviour stops when its bounded calls
have run, and what must not get stuck is a liveness property.

### Disagreements between the code and its comments

Three are shown by runs.

* `durable_recovery`. `open.go:843-846` says that after the replay and its flush "we are able
  to guarantee that the initial state of the DB is durable". `StandaloneManager.init`
  (`standalone_manager.go:68-76`) puts every log found at Open on `initialObsolete`, and
  the first `Obsolete` (line 103) returns them all, whatever the minimum is. `flush1` calls
  `deleteObsoleteFiles` (`compaction.go:1589`) after each of its turns. There are two ways to
  lose what was acknowledged. A first turn that fails, and is to be tried again, deletes all
  old logs with nothing flushed; this is the trace of the run. And without any error
  (`MaxErrs = 0` in the same cfg) a replayed flushable ingest ends a turn, after which the
  logs of the turns still to come are deleted. The other runs have ingests with one crash
  (`durable_ops`), two crashes without ingests (`durable_crash`), and flushes of the open
  store that fail, when the minimum alone decides (`FailIn`).
* `version_lock`. `ingest.go:2136-2137` says "any earlier returns must unlock the manifest";
  the returns at 2321 (an error of `excise`) and 2340 (an error of `ingestSplit`) do not,
  unlike the one at 2261. Every later flush, compaction and ingest waits in `logLock` for
  ever. In `version_set` the same failure is possible, and `JobsEnd` and `Collected` excuse
  the behaviours in which it happens (`LockLost`).
* `server_framing`. `main.go:141` says "Handle RESP arrays (multi-line commands like SET key
  value)", and line 147 skips the length of each bulk string. A `SET` whose value holds a
  line end is executed as a `SET` of its first line, and the rest as a command of its own.
  `ExecutedAsSent` says how far the parser does keep in step: up to the first word with a
  line end, or count that is not the number of words.

Met while reading, without a run:

* `main.go:83` "Wait for all connections to close": `wg.Add(1)` runs after `Accept` has
  returned. It may come after `Wait` has returned, and nobody waits for that connection:
  `GracefulDurable` holds for the connections added in time, and says so. And it may come
  after the last `Done` and before `Wait` has returned: `Wait` then panics ("WaitGroup is
  reused before previous Wait has returned", `WgWake`), and the sets that were answered are
  lost with the process. `ShutdownCompletes` without `~AddsLate` is violated that way.
* `main.go:145`: the count of an array goes to `make` as it is; `*-1` ends the process.
* `client.go:22`: `client.Insert` drops the error of `storage.Insert`.
* `main.go:81` "Notify all goroutines to stop": nobody receives from `quitCh`.
* `main.go:132` "single-line commands like PING": `PING` on a single line is an unknown
  command; only `ping` is known.
* `storage.go:77` "a generic slice of numbers (int, float32, float64)": anything but
  `[]float64` panics.
* `disableFileDeletions` "waits for any in-progress deletion to finish", yet a list that
  was collected before and is handed over late is deleted after it returned. A checkpoint
  takes its version later still, so that no file on such a list is in it
  (`NeededFilesKept`).
* The backing that a cancelled delete-only compaction created may enter the obsolete list
  twice; the second deletion finds no file. The object of a failed external ingest stays
  until the next Open's scan.

## 4. Proofs

Every theorem holds for every value of the constants that satisfies the assumptions of its
module.

| theorem | module | says |
|---|---|---|
| `TypeCorrect` | `CommitPipelineProofs` | `Spec => []TypeOK` |
| `WalOrdered` | `CommitPipelineProofs` | `Spec => []WalOrder` |
| `ReadsAreWhole` | `CommitPipelineProofs` | `Spec => []ReadPrefix` |
| `ReturnsAreVisible` | `CommitPipelineProofs` | `Spec => []ReturnedVisible` |
| `PipelineImplements` | `CommitPipelineProofs` | `Spec => ImplementsContract` |
| `PanicsUnreachable` | `CommitPipelineProofs` | `Spec => []NoPanic` |
| `UnitsExact` | `CommitPipelineProofs` | `Spec => []UnitsAccounted` |
| `AcksAreDurable` | `CommitPipelineProofs` | `Spec => []AckDurable` |
| `IngestionsSeeAll` | `CommitPipelineProofs` | `Spec => []IngestSeesAll` |
| `FailoverImplements` | `FailoverWriterProofs` | `Spec => ImplementsWal` |
| `FailoverUnits` | `FailoverWriterProofs` | `Spec => []UnitsAccounted` |
| `CloseNeverPanics` | `FailoverWriterProofs` | `Spec => [][CloseExit => pc' # "panic"]_vars` |
| `NumbersNeverReused` | `DurabilityProofs` | `Spec => []NumbersFresh` |
| `BatchesLand` | `DurabilityProofs` | `Spec => []AppliesLand` |
| `WritePathNeverPanics` | `DurabilityProofs` | `Spec => []NoPanic` |
| `UnflushedLogsStay` | `DurabilityProofs` | no ingest, no failing flush in Open: `Spec => []NeededLogsKept` |
| `OpenNeverFails` | `DurabilityProofs` | no ingest, no failing flush in Open: `Spec => []OpenSucceeds` |
| `Inductive` | `VersionSetProofs` | `Spec => []IInv` |
| `NeverPanics` | `VersionSetProofs` | `Spec => []NoPanic` |
| `KeepsNeededFiles` | `VersionSetProofs` | `Spec => []NeededFilesKept` |
| `RecoversFromManifest` | `VersionSetProofs` | `Spec => []ManifestRecovers` |
| `EditsAreAtomic` | `VersionSetRefinement` | `Spec => ImplementsTables` |
| `CommandsExecutedAsSent` | `ServerProofs` | `Spec => []ExecutedAsSent` |
| `ShutdownKeepsAcked` | `ServerProofs` | `Spec => []GracefulDurable` |
| `InsertsSurvive` | `VectorStoreProofs` | `Spec => []AckedInsertsSurvive` |
| `AckedWritesKept` | `VectorStoreProofs` | `Spec => [][\A i \in acked : hist'[i] = hist[i]]_vars` |

Each invariant below was checked by TLC on the instances of section 3 before it was proved.

### The commit pipeline

The theorems assume `PipelineAssumption`: finitely many batches, a queue of at least two
slots, an index range that is a larger multiple of the queue's size, and fewer than
`IndexMod` calls. The last is what the code relies on without saying so: a consumer that
sleeps through 2^32 commits could find its stale index current again, so the theorems
speak of fewer calls than that. Every call, every fault and every interleaving is allowed.

There are three invariants, and each contains the one before it.

`Typed` adds to `TypeOK` that a goroutine past the load of a slot holds a batch, not nil
(`LoadedInv`): `publish` dereferences it.

`WalInv` adds what puts the log in order: `commitPipeline.mu` is held by one goroutine at
a time (`MutexInv`), no record reaches past `logSeqNum` (`LogBelow`), and a batch
sequenced and not yet written comes after all records (`UnwrittenAfter`).

`IInv` adds what makes `publish` right, none of it implied by the others:

* `CallsInv`: an enqueue is paid for by a call, so no index comes back; with it, equal
  indexes modulo `IndexMod` are equal counts, and the compare-and-swap is exact.
* `RingInv`: the window from tail to head holds distinct batches whose calls are under
  way, and the slot being filled lies outside it.
* `ClearInv`: a consumer that has moved the tail owns the slot until it has cleared it;
  `enqueue` waits for that before it fills the slot.
* `LocalsInv`: what a consumer loaded is true as long as the tail has not moved. This is
  why a stale pointer to a recycled batch does no harm: its compare-and-swap fails.
* `HeldInv`: a batch taken off the queue is held by one consumer, and its own call
  cannot end before that consumer calls `Done`.
* `AppliedInv`: only an applied batch is marked.
* `WaitInv`, `SyncInv`: the wait groups count at least what a call has yet to wait for:
  its publication and, when it waits for a sync, its waiter in the sync queue. Hence a
  batch that returns is in neither queue, and may be recycled.
* `OrderInv`: the queue is in sequence number order, what lies between two batches in it
  and all before the first has been applied, and no ratchet moves `visibleSeqNum` down
  or past the first batch. `ReadPrefix` follows from it.
* `PlaceInv`: a sequenced call is in the queue, in a consumer's hands, or visible.
  `ReturnedVisible` follows from it.

Most steps disturb one or two of these. One lemma per part (`RingFrame`, `OrderFrame`,
...) states when a step leaves it alone; `PlainStep` covers the steps that change nothing
the invariant reads; the others (`Begin`, the enqueue, `AssignSeqNum`, the writes, the
mark, the swap, the clear, the ratchet, `Done`, `Return`, the log's pop) have a lemma of
their own. `IInv` was first checked by TLC on small instances, of two calls of every kind and
of three goroutines that publish.

The refinement maps a call's `pc` to the four states its caller can tell apart. Every
step is a stutter but those that begin, sequence, apply, publish, fail or return; that a
publication maps to a step of the contract is where `IInv` is used.

`SyncIInv` adds to `IInv` what the panics, the semaphores and the syncs
need:

* `IngestInv`: while an ingestion prepares, nothing is sequenced and nothing is pending.
* `SyncedInv`: a waiter's record is in the log at the place the waiter names, and one whose
  wait ended without an error is in the durable prefix. `AckDurable` follows from it.
* `QueueUnits`, `LogUnits`: the units taken of a semaphore are those of the calls known to
  hold one (`Sure`), up to those that may hold one after an error (`Maybe`). With no error
  the two sets are equal, which is `UnitsAccounted`; in general the set bounds what is in
  the queue, which is why neither queue is full when a call enters, and `NoPanic` follows.

### The failover log

`IInv` of `FailoverWriterProofs` has five parts beside the types:

* `FilesInv`: what the files keep for certain is `1 .. Durable`, without a hole; each file
  holds consecutive records, of which the first is at most one past what is durable; no
  file reports, and nobody was told, a record that is not durable; `tail`, up to which
  records have left the queue, is at most `Durable`.
* `AskedInv`: among the queued records there is a last that asks for a sync. (It stands in
  for induction over the records.)
* `WriterInv`: the writer has all that is queued, but for a record that is on its way to
  the log that was the writer when the record was pushed.
* `UnitInv`: those who were popped by different logs are different, and with those who
  wait they hold the units taken.
* `CloseInv`: the last log was told to report the last record, and one that closed without
  an error has done so, so that `popAll` finds nobody.

A log may get records while its predecessor still has them, so a record can become durable
twice, and be reported late, after a later one has been: what makes that harmless is that a
new log starts no later than `tail + 1`, and `tail <= Durable`. The refinement maps `Push`
to `WriteRecord`, a sync to `Persist` or a stutter (the records may be durable elsewhere),
`Done` to `Acknowledge` and `CloseExit` to `Close`; all other steps are stutters.

### Durability

`IInv` of `DurabilityProofs` has, beside the types (all but `acked`, of which the theorems
say nothing):

* `PhaseInv`: who runs when. Only Open runs before the store is open, nothing while it is
  down, and a flush holds entries of the queue only between `FlushBegin` and its end.
* `Numbers`: every number on disk, of a removed log that may come back and in the queue is
  below `nextFile`, and the log being made is newer than all of them.
* `LogsInv`: an ingest is alone in its log, so that `replayWAL`, which stops after one,
  reads all of a log.
* `OrderInv`: the queue is in the order of its logs, none older than `vs.min` but perhaps
  the first; of two entries with the same log the second is ready to be flushed and is not
  the mutable memtable. That is why a flush, which stops at the first entry that is not
  ready, never stops between the two.
* `RefsInv` and `BatchInv`: a memtable has one reference for each of its batches in flight,
  and one more while it is the mutable one; each such batch is newer than its memtable.
* `FlushInv`: what a flush has taken was ready and stays so, and its minimum is the log of
  the entry after it.
* `ReplayInv`, `IngestInv`, `RecycleInv`: the queue while Open fills it; the log of an
  ingest is newer than all others; the log that is reused stays at the head of the
  recycler, whatever `Obsolete` adds behind it while `DB.mu` is released.

Each action has a lemma that it keeps `IInv`. The recursions in `Obsolete`, `Grown` and
`Sorted` are handled by `Least`, `Induct` and `RecExists`: induction over a set of numbers,
from the well-foundedness of `<`. `SizesAssumption` is all that is assumed.

The second half of `DurabilityProofs` is about a store whose calls are batches of any size and
flushes, with no flushable ingest (`"ingest" \notin Kinds`), and in which no flush fails that
Open waits for (`"replayed" \notin FailIn`); of an open store any number of flushes may fail.
For `NeededLogsKept` neither hypothesis can be dropped (section 3, `durable_recovery`): the
first `Obsolete` of a process returns all old logs, whatever the minimum, also after a flush
that failed, and after a turn of `flush1` that is not the last. In an open store they are
gone, and a flush that fails deletes only what is below the minimum it did not move
(`FlushFailsSafe`). For `OpenSucceeds` the hypotheses may not be needed; the argument, by way
of `NeededLogsKept`, needs them. On top of `IInv` it needs `SInv`:

* `IngestFree`: no ingest is in the queue, in a log, or in a removed log that may come back.
* `ManifestInv`: the manifest is what the process knows, or, between the write of its edit
  and its installation, one flush ahead; its tables are there.
* `JobsInv`: a log that is to be deleted, is offered for reuse or is gone is older than the
  manifest's minimum, and a table to be deleted is in no version. A crash may bring a
  removed log back; it is below the minimum and is not replayed.
* `RecoveryInv`: Open flushes all that it has replayed in a single flush, which moves the
  minimum past the logs it found, before it makes its own log (`ForcedPasses`: the threshold
  that schedules a flush lets that one through, for its entries count as full).
* `ClosedInv`: of the logs to be replayed only the newest lacks its end, so that the strict
  reading of the others finds no torn tail, also after a crash in the middle of a rotation
  or of an earlier Open.

### The version set

`IInv` of `VersionSetSteps` is the conjunction of the types and of thirteen parts, each about
one agreement between pieces of state that different code keeps:

* `DBInv`: nothing that a version, a virtual backing or an edit being applied refers to
  (`Refd`) is in the obsolete list or on a list about to be handed over; what an old version
  alone refers to is a zombie, so that `addObsoleteLocked` always finds it among them.
* `RefsInv`, `ReadersInv`: a version has one reference of the version set if it is current,
  one of each read state and one of each compaction that reads it; a read state has one of
  `DB` and one of its reader. A version without references is the one that a reader is about
  to remove, which it does without the lock that its decrement did not hold either.
* `BackingsInv`: a virtual backing counts the virtual tables on it after the edit under way,
  and the external ingests that protect it; every virtual table has a backing, and a file is
  the backing of virtual tables or a physical table, not both (`Sound`).
* `IoInv` with `EditInv`: the edit that is being written still fits the version and the
  backings it was made for, with the numbers in it below those that come next. The snapshot
  of a new manifest is the state before the edit.
* `FilesInv`: what is referred to is on disk, synced, and on no list of the cleanup manager;
  all numbers are below `nextFileNum`.
* `OwnInv`: the numbers that jobs have taken for tables they have written are distinct, and
  nothing else uses them, no manifest and no list of files to delete. That is why the tables
  of a failed job can go to the obsolete list, and those of another are safe from it.
* `JobsInv`, `LockInv`: the inputs of a compaction are in the version it holds, and current
  unless it was cancelled: an excise, the one edit of another job that takes tables away,
  cancels what reads them. One job is past the manifest lock.
* `PhaseInv`, `CkptInv`: what there can be in which phase of Open; a checkpoint's files are
  on no list that was made after it began, or were needed when it began.
* `MarkerInv`, `StageInv`: each manifest that the marker may name, read back up to any record
  that may be its last, is sound and its files are synced; what the current one reads back
  as is known at each stage of `logAndApply` (`AtRest`: the state in memory, or that before
  the edit, and after the sync of the record, or of the directory, that after it).

Every action has a lemma that it keeps `IInv`. Steps that leave most parts alone go through
frame lemmas (`QuietStep`, `MemoryStep`, `PlainStep`, `CkptStep`, `SilentStep`, `WriterStep`),
which say once which parts follow from what changed. An edit is shown to fit the state
(`FitNew`, `FitMoved`, `FitExcised`, `FitExternal`, `FitIngest`) before it begins, and
`EditStepInv` is about all edits at once. `ReadBackLast` stands in for induction over a
manifest: one more record removes and adds what it says, after all records before it.
`KindsAssumption`, the types of the constants, is all that is assumed.

TLC checked all of `IInv` on the instance of `version_set` before it was proved; the proof is
for any spans of the three keys, any kinds and number of jobs, reads, failures and crashes, and
any size of manifest.

`VersionSetRefinement` shows that `VersionSet` implements `TableStore`. The mapping is the one
of `Store` in `VersionSet`: the store holds the items of the current version while it is
open, and otherwise those of any version that Open may find; the edit under way is what
`logAndApply` has taken and not installed. `ApplyTables`, `ApplyExcise`, `ApplyExternal` and
the flush in Open map to `Begin`, the installation of a version to `Apply`, `Crash` to `Crash`;
a step of `logAndApply` during Open that settles which manifest counts maps to `Reopen`; all
others are stutters (`Unseen`). On top of `IInv` this needs `ItemsInv`, which TLC checked on
the instance of `version_set`:

* the numbers of the tables that were brought (`brought`) are below `nextFileNum`, below what
  the record under way says comes next, and below what load would take next (`LastNext`), so
  that none of them is given again, not even after a crash;
* a table that a flush or an ingest has written, and that is not yet in a version, has items
  of its own, under a number that was not brought;
* a compaction has written the items of its inputs, and a delete-only compaction those of
  its inputs but for some of its span;
* every version that may be read back from a manifest has only items that were brought,
  below the next number of its record.

Together they say that what an edit adds is new (`Fresh`) and that what it removes is as
`Allowed` has it. `brought` forgets, at a crash, the tables that no version Open may find
has: load takes the next number from the manifest, and may give the number of an edit that
the crash has lost again.

### The server

`StreamInv` relates the lines of a connection to the commands its client sent. As long as
the commands executed were `Framed` (each word is one line, and an array has as many words as
it says), what is unread is the encoding of the commands not yet executed, one after the
other, of which only the last may be cut off, and only after a hang-up (`InStep`, with the
offsets of the commands in `Laid`; `cut` is the command cut off). `FramedFacts` is the
arithmetic of an encoding whose lengths are skipped: `parseRESP` consumes exactly one command
or finds it incomplete. After the first command that is not framed nothing is claimed, and
nothing of the kind is true (`server_framing`). `EncodeRec` gives the facts of the recursion
in `Encode`, from `RecExists`.

`WaitInv`: `wg` counts the handlers that live, and once the shutdown goroutine is past
`wg.Wait` only connections accepted later have one; a wait that finds another on waking ends
the process instead. `DurableInv`: every write that was answered is in the history, and in
its durable part after the flush of the shutdown. Of the commands only their type is assumed.

### The vector store

The acknowledged places of the history lie in its safe part (`acked \subseteq 1 .. safe`),
which a crash only ever cuts behind; a caller that waits for its sync knows the place of its
own write (`CallerInv`), whatever other callers have appended meanwhile.

### Only model-checked

* All liveness properties: fairness and `ENABLED` are out of the prover's reach.
* What a reader finds: `ReadBack` and `CleanClose` of `LogWriter` (whose reader is
  recursive), `ReadBack` and `StrictRead` of `FailoverWriter` (folds over sequences),
  `RoundTrip` of `VectorStore` (powers over sequences of any length): they need induction
  over data.
* That `LogWriter` implements `WalContract`: its module uses the recursive reader.
* The refinement of `DurableStore` by `Durability`. With ingests, or with a failing flush in
  Open, `NeededLogsKept` is false; of `OpenSucceeds` TLC finds no violation with the constants
  of `durable_recovery`.

## 5. Plan

Done: all modules of section 2; the proofs of `CommitPipeline`, `FailoverWriter`, `Server`,
`VectorStore` and `VersionSet`, the last with its refinement of `TableStore`, and of the
invariants of `Durability`.

Next: the refinement of `DurableStore` by `Durability`.

## 6. Not modelled

The map stands for about 5 % of the repository's lines. The rest is, for the most part,
sequential code over keys and encodings, where a model would repeat the program line by
line and its inputs are out of TLC's reach: iterators, the compaction iterator and with it
snapshots, sstable and batch encodings, keyspan and sublevel structures, comparers,
options and their parsing. Caches hold immutable data; file systems and object providers
are input and output (what a crash may undo of it is part of `Durability` and
`VersionSet`); `metamorphic`, `tool`, `replay`, `cmd/pebble` and the `testdata` drivers test
or inspect the engine. The in-memory map of `internal/common.go` and `calculateDistance`
are used by nobody.

Parts of modelled components that are left out:

* `DisableWAL`, read-only mode, format upgrades, `DB.Close`.
* The WAL failover manager: it decides when to switch, and `FailoverWriter` allows any time.
* Open has one flush edit in `VersionSet`. The second one of a longer recovery is written
  without a sync of its own when no log remains to be replayed; that case is not covered.
* An ingest that is not flushable takes a writer reference on the mutable memtable
  (`ingest.go:1535`), which ties the memtable queue to the version edit; the two are in
  different modules.
* Copy and download compactions, ingest-time splits, blob files, pacing of deletions,
  remote objects beyond one external file.
