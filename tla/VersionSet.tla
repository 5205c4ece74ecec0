----------------------------- MODULE VersionSet -----------------------------
(***************************************************************************)
(* The version set: versions of the table tree and their reference counts  *)
(* (internal/manifest/version.go, read_state.go), virtual tables and their *)
(* backing files (internal/manifest/virtual_backings.go), version edits    *)
(* logged to the manifest under the manifest lock (version_set.go), the    *)
(* jobs that make them - flushes, compactions, ingests with an excise,     *)
(* ingests of external files - checkpoints, the deletion of obsolete files *)
(* (obsolete_files.go), and what Open reads back after a crash.            *)
(*                                                                         *)
(* A table's contents are items <<key, n>>: the key and the number of the  *)
(* table that brought it.  What Open replays from the write-ahead log is   *)
(* the subject of module Durability; here its flush is an edit that adds   *)
(* no table.  A step under DB.mu is one action.                            *)
(***************************************************************************)
EXTENDS Integers, Sequences, SequencesExt, FiniteSetsExt

CONSTANTS
  Kinds,         \* the jobs that run: flush, compact, move, deleteonly,
                 \* excise, external, checkpoint
  Spans,         \* the key spans that are excised or covered by a tombstone
  MaxJobs,       \* bound: jobs in a behaviour, before its last crash
  MaxReads,      \* bound: reads in a behaviour, before its first crash
  MaxCrashes,    \* bound: crashes in a behaviour, all but the first in Open
  MaxManifest,   \* Options.MaxManifestFileSize, in records
  MaxFails       \* bound: jobs that fail

Keys == 1 .. 3
NumPrevManifest == 1    \* the default of Options.NumPrevManifest

ASSUME KindsAssumption ==
  /\ Kinds \subseteq {"flush", "compact", "move", "deleteonly", "excise",
                      "external", "checkpoint"}
  /\ Spans \subseteq {a .. b : a, b \in Keys} \ {{}}
  /\ {MaxJobs, MaxReads, MaxCrashes, MaxManifest, MaxFails} \subseteq Nat

VARIABLES
  files,      \* on disk: the numbers of the table files
  synced,     \* those whose directory entry is synced
  manifests,  \* on disk: manifest number -> records and how many are synced
  marker,     \* on disk: the manifests the marker may name after a crash
  external,   \* on disk: the backings that are the external object
  hasLog,     \* a log that the next Open will replay exists
  phase,      \* "open"; else "down", "loaded" or "flushed" during Open
  db,         \* versionSet and what else DB.mu protects
  io,         \* the edit that logAndApply is writing
  jobs,       \* the jobs, in the order they began
  ckpt,       \* the checkpoint
  reader,     \* the read state a reader holds, and where it is releasing it
  cleanup,    \* the cleanup manager's queue
  brought,    \* for the refinement: the tables an edit has added, less those a
              \* crash left nothing of
  reads, crashes, fails

disk   == <<files, synced, manifests, marker, external, hasLog>>
bounds == <<reads, crashes, fails>>
vars   == <<disk, phase, db, io, jobs, ckpt, reader, cleanup, brought, bounds>>

Without(f, S) == [x \in DOMAIN f \ S |-> f[x]]
With(f, x, y) == [z \in DOMAIN f \cup {x} |-> IF z = x THEN y ELSE f[z]]

(***************************************************************************)
(* Tables and version edits.                                               *)
(***************************************************************************)
Table(n, b, virtual, level, items) ==
  [num |-> n, backing |-> b, virtual |-> virtual, level |-> level,
   items |-> items]

Physical(n, level, keys) == Table(n, n, FALSE, level, keys \X {n})

Backings(T) == {t.backing : t \in T}
Contents(T) == UNION {t.items : t \in T}
KeysOf(t)   == {x[1] : x \in t.items}

\* The bounds of the set of keys K overlap the span S.
Overlaps(K, S) == K # {} /\ Min(K) <= Max(S) /\ Min(S) <= Max(K)

Edit(del, new, created) ==
  [del |-> del, new |-> new, created |-> created, removed |-> {}, next |-> 0]

NoEdit == Edit({}, {}, {})

\* DB.excise of the table t: what is left of t on both sides of the span
\* becomes a virtual table on t's backing, with numbers from n on.
Excise(t, S, n) ==
  LET Side(k, keys) == Table(k, t.backing, TRUE, t.level,
                             {x \in t.items : x[1] \in keys})
      left  == {k \in KeysOf(t) : k < Min(S)}
      right == {k \in KeysOf(t) : k > Max(S)}
      new   == (IF left = {} THEN {} ELSE {Side(n, left)}) \cup
               (IF right = {} THEN {} ELSE {Side(n + 1, right)})
  IN  Edit({t}, new, IF new # {} /\ ~t.virtual THEN {t.backing} ELSE {})

\* ingestApply's loop over the tables that overlap the span.
ExciseAll(T, S, n) ==
  LET hit   == {t \in T : Overlaps(KeysOf(t), S)}
      First(t) == n + 2 * Cardinality({u \in hit : u.num < t.num})
      edits == {Excise(t, S, First(t)) : t \in hit}
  IN  Edit(hit, UNION {e.new : e \in edits}, UNION {e.created : e \in edits})

(***************************************************************************)
(* versionSet under DB.mu.  Each operator maps the state d of db to the    *)
(* state the Go function leaves.                                           *)
(***************************************************************************)
Current(d) == d.versions[d.current].tables

NoIO == [job |-> 0, stage |-> "none", edit |-> NoEdit, tables |-> {},
         snapshot |-> NoEdit, rotate |-> 0, zombies |-> {}, prev |-> 0]

AddObsolete(d, B) ==
  [d EXCEPT !.obsolete = @ \cup B, !.panic = @ \/ ~(B \subseteq d.zombies)]

\* The backings of B that nothing refers to: no version, nor the virtual
\* backings, nor an edit that is being applied.
Unreferenced(d, B) ==
  B \ ((UNION {Backings(d.versions[v].tables) : v \in DOMAIN d.versions})
         \cup DOMAIN d.backings \cup d.held)

RemoveVersion(d, v) ==
  LET e == [d EXCEPT !.versions = Without(@, {v})]
  IN  AddObsolete(e, Unreferenced(e, Backings(d.versions[v].tables)))

Ref(d, v) == [d EXCEPT !.versions[v].refs = @ + 1]

UnrefLocked(d, v) ==
  IF d.versions[v].refs = 1 THEN RemoveVersion(d, v)
  ELSE [d EXCEPT !.versions[v].refs = @ - 1]

\* versionSet.append.
AppendVersion(d, T) ==
  LET v == d.current + 1
      e == [d EXCEPT !.versions = With(@, v, [tables |-> T, refs |-> 1]),
                     !.current = v]
  IN  UnrefLocked(e, d.current)

\* updateReadStateLocked, with the release of the old read state.
UpdateReadState(d) ==
  LET r == d.readState + 1
      e == [Ref(d, d.current) EXCEPT
              !.readStates = With(@, r, [version |-> d.current, refs |-> 1]),
              !.readState = r]
  IN  IF d.readState = 0 THEN e
      ELSE IF e.readStates[d.readState].refs > 1
      THEN [e EXCEPT !.readStates[d.readState].refs = @ - 1]
      ELSE UnrefLocked([e EXCEPT !.readStates = Without(@, {d.readState})],
                       d.readStates[d.readState].version)

DeleteObsoleteFiles(d) ==
  LET m == d.obsoleteManifests
      gone == {n \in m : Cardinality({k \in m : k > n}) >= NumPrevManifest}
      job == [tables |-> d.obsolete, manifests |-> gone]
  IN  IF d.disabled > 0 THEN d
      ELSE [d EXCEPT !.obsolete = {}, !.zombies = @ \ d.obsolete,
                     !.obsoleteManifests = @ \ gone,
                     !.late = IF d.obsolete \cup gone = {} THEN @
                              ELSE @ \cup {job}]

Virtuals(T, b) == Cardinality({t \in T : t.virtual /\ t.backing = b})

\* getZombiesAndUpdateVirtualBackings: the virtual backings after the edit,
\* those of them it leaves unused, and the backings it makes zombies.
UpdateBackings(d, e) ==
  LET old   == d.backings
      added == [b \in DOMAIN old \cup e.created |->
                  IF b \in DOMAIN old THEN old[b] ELSE [use |-> 0, prot |-> 0]]
      after == [b \in DOMAIN added |->
                  [added[b] EXCEPT !.use = @ + Virtuals(e.new, b)
                                             - Virtuals(e.del, b)]]
      unused == {b \in DOMAIN after : after[b].use = 0 /\ after[b].prot = 0}
      still  == {t.backing : t \in {u \in e.new : ~u.virtual}} \cup e.created
  IN  [backings |-> Without(after, unused),
       unused   |-> unused,
       zombies  |-> unused \cup
                    ({t.backing : t \in {u \in e.del : ~u.virtual}} \ still),
       panic    |-> \/ e.created \cap DOMAIN old # {}
                    \/ \E t \in e.new \cup e.del :
                         t.virtual /\ t.backing \notin DOMAIN added
                    \/ \E b \in DOMAIN after : after[b].use < 0]

\* logAndApply up to where it releases DB.mu.  A manifest is made when none
\* is open or the open one is too large.  Applying the edit
\* fails, which is fatal, when it deletes a table that is not there.
BeginEdit(d, j, e) ==
  \E u \in {UpdateBackings(d, e)}, n \in {d.nextFileNum},
     rotate \in {\/ ~d.manifest
                \/ Len(manifests[d.manifestFileNum].recs) >= MaxManifest} :
      /\ io' = [job |-> j, stage |-> "write",
                edit |-> [e EXCEPT !.removed = u.unused, !.next = n],
                tables |-> (Current(d) \ e.del) \cup e.new,
                snapshot |-> [Edit({}, Current(d), DOMAIN d.backings)
                                EXCEPT !.next = n + 1],
                rotate |-> IF rotate THEN n ELSE 0,
                zombies |-> u.zombies, prev |-> d.manifestFileNum]
      /\ db' = [d EXCEPT !.writing = TRUE, !.backings = u.backings,
                         !.held = Backings(e.new) \cup u.unused,
                         !.nextFileNum = IF rotate THEN n + 1 ELSE n,
                         !.panic = @ \/ u.panic \/ ~(e.del \subseteq Current(d))]
      /\ brought' = brought \cup
           {x[2] : x \in Contents(e.new) \ Contents(Current(d))}

(***************************************************************************)
(* The state.                                                              *)
(***************************************************************************)
Done ==
  [kind |-> "done", pc |-> "done", in |-> {}, span |-> {}, edit |-> NoEdit,
   version |-> 0, cancel |-> FALSE, err |-> FALSE, prot |-> 0]

NoCkpt == [pc |-> "idle", wait |-> 0, need |-> {}, manifest |-> 0, size |-> 0]
NoRead == [pc |-> "idle", id |-> 0]

\* versionSet after load: the manifest's tables in one version.
NewDB(T, B, n, next) ==
  [nextFileNum |-> next, manifestFileNum |-> n, manifest |-> FALSE,
   writing |-> FALSE, versions |-> [v \in {1} |-> [tables |-> T, refs |-> 1]],
   current |-> 1,
   backings |-> [b \in B |-> [use |-> Virtuals(T, b), prot |-> 0]],
   held |-> {}, zombies |-> {}, obsolete |-> {}, obsoleteManifests |-> {},
   disabled |-> 0, readStates |-> << >>, readState |-> 0, late |-> {},
   panic |-> \E t \in T : t.virtual /\ t.backing \notin B]

\* A database with a table in L1 and an external one above it.
Init ==
  LET T == {Physical(2, 1, {1, 3}), Table(3, 3, TRUE, 0, {<<2, 3>>})}
  IN  /\ files = {2, 3} /\ synced = files /\ external = {3}
      /\ manifests = [n \in {1} |->
                        [recs |-> <<[Edit({}, T, {3}) EXCEPT !.next = 4]>>,
                         synced |-> 1]]
      /\ marker = <<1>> /\ hasLog = TRUE
      /\ phase = "open"
      /\ db = UpdateReadState([NewDB(T, {3}, 1, 4) EXCEPT !.manifest = TRUE])
      /\ io = NoIO /\ jobs = << >> /\ ckpt = NoCkpt /\ reader = NoRead
      /\ cleanup = << >>
      /\ brought = {2, 3}
      /\ reads = 0 /\ crashes = 0 /\ fails = 0

(***************************************************************************)
(* Jobs, up to the manifest lock.                                          *)
(***************************************************************************)
Unfinished == {j \in DOMAIN jobs : jobs[j].pc # "done"}
Compaction(j) == jobs[j].kind \in {"compact", "move", "deleteonly"}

MayBegin(kind) ==
  /\ phase = "open" /\ kind \in Kinds
  /\ Len(jobs) < MaxJobs /\ crashes < MaxCrashes

BeginJob(job) ==
  /\ MayBegin(job.kind)
  /\ jobs' = Append(jobs, job)

BeginFlush ==
  /\ \A j \in Unfinished : jobs[j].kind # "flush"
  /\ BeginJob([Done EXCEPT !.kind = "flush", !.pc = "run"])
  /\ UNCHANGED <<disk, phase, db, io, ckpt, reader, cleanup, brought, bounds>>

\* What the compaction picker may choose: all of L0 with the tables of L1
\* below it or a single table of L1 to rewrite, a table of L0 to move, a table
\* that a range deletion covers in part or as a whole.
Picks ==
  LET Level(l) == {t \in Current(db) : t.level = l}
      Below(T) == {u \in Level(1) : \E t \in T : Overlaps(KeysOf(t), KeysOf(u))}
      Pick(k, T, S) == [Done EXCEPT !.kind = k, !.pc = "start", !.in = T,
                                    !.span = S]
  IN  {Pick("compact", T, {}) :
         T \in {Level(0) \cup Below(Level(0))} \cup {{t} : t \in Level(1)}}
        \cup {Pick("move", {t}, {}) : t \in {u \in Level(0) : Below({u}) = {}}}
        \cup {Pick("deleteonly", {c[1]}, c[2]) :
                c \in {p \in Current(db) \X Spans : Overlaps(KeysOf(p[1]), p[2])}}

\* maybeScheduleCompactionPicker, which takes the manifest lock and releases
\* it without releasing DB.mu.  MaxConcurrentCompactions is 1, the default.
PickCompaction ==
  /\ ~db.writing
  /\ \A j \in Unfinished : ~Compaction(j)
  /\ \E job \in Picks : job.in # {} /\ BeginJob(job)
  /\ UNCHANGED <<disk, phase, db, io, ckpt, reader, cleanup, brought, bounds>>

\* Mutant: the compaction does not reference the version it reads.
StartCompactionNoRef(j) ==
  /\ jobs[j].pc = "start"
  /\ jobs' = [jobs EXCEPT ![j].pc =
       IF jobs[j].cancel THEN "clear"
       ELSE IF jobs[j].kind = "move" THEN "lock" ELSE "run"]
  /\ UNCHANGED <<disk, phase, db, io, ckpt, reader, cleanup, brought, bounds>>

\* runCompaction before it releases DB.mu: the current version is referenced,
\* except by a move, which reads no table.
StartCompaction(j) ==
  /\ jobs[j].pc = "start"
  /\ IF jobs[j].cancel
     THEN /\ jobs' = [jobs EXCEPT ![j].pc = "clear", ![j].err = TRUE]
          /\ UNCHANGED db
     ELSE IF jobs[j].kind = "move"
     THEN /\ jobs' = [jobs EXCEPT ![j].pc = "lock",
               ![j].edit = Edit(jobs[j].in,
                                {[t EXCEPT !.level = 1] : t \in jobs[j].in}, {})]
          /\ UNCHANGED db
     ELSE /\ jobs' = [jobs EXCEPT ![j].pc = "run", ![j].version = db.current]
          /\ db' = Ref(db, db.current)
  /\ UNCHANGED <<disk, phase, io, ckpt, reader, cleanup, brought, bounds>>

\* Give up the reference that job j holds on a version.
Release(d, j) ==
  IF jobs[j].version = 0 THEN d ELSE UnrefLocked(d, jobs[j].version)

\* compactAndWrite: the flush or the compaction writes its table.
WriteTable(j) ==
  LET n == db.nextFileNum
      t == IF jobs[j].kind = "flush" THEN Physical(n, 0, {1, 3})
           ELSE Table(n, n, FALSE, 1, Contents(jobs[j].in))
  IN  /\ jobs[j].pc = "run" /\ jobs[j].kind # "deleteonly"
      /\ files' = files \cup {n}
      /\ db' = [db EXCEPT !.nextFileNum = n + 1]
      /\ jobs' = [jobs EXCEPT ![j].pc = "sync",
                              ![j].edit = Edit(jobs[j].in, {t}, {})]
      /\ UNCHANGED <<synced, manifests, marker, external, hasLog, phase, io,
                     ckpt, reader, cleanup, brought, bounds>>

\* objProvider.Sync, then back under DB.mu.
SyncTable(j) ==
  /\ jobs[j].pc = "sync"
  /\ synced' = files
  /\ db' = Release(db, j)
  /\ jobs' = [jobs EXCEPT ![j].pc = "lock", ![j].version = 0]
  /\ UNCHANGED <<files, manifests, marker, external, hasLog, phase, io, ckpt,
                 reader, cleanup, brought, bounds>>

\* runDeleteOnlyCompaction, which excises its table and writes none.
RunDeleteOnly(j) ==
  /\ jobs[j].pc = "run" /\ jobs[j].kind = "deleteonly"
  /\ LET t == CHOOSE u \in jobs[j].in : TRUE
         d == Release(db, j)
     IN  /\ jobs' = [jobs EXCEPT ![j].pc = "lock", ![j].version = 0,
                       ![j].edit = Excise(t, jobs[j].span, db.nextFileNum)]
         /\ db' = [d EXCEPT !.nextFileNum = @ + 2]
  /\ UNCHANGED <<disk, phase, io, ckpt, reader, cleanup, brought, bounds>>

\* runCompaction fails, before or after it wrote its table, or sees that it is
\* cancelled: what it wrote is obsolete.
FailRun(j) ==
  LET B == Backings(jobs[j].edit.new)
  IN  /\ jobs[j].pc \in {"run", "sync"}
      /\ \/ jobs[j].cancel /\ UNCHANGED fails
         \/ fails < MaxFails /\ fails' = fails + 1
      /\ \E d \in {AddObsolete([db EXCEPT !.zombies = @ \cup B], B)} :
           db' = Release(d, j)
      /\ jobs' = [jobs EXCEPT ![j].pc = "clear", ![j].err = TRUE,
                              ![j].version = 0, ![j].edit = NoEdit]
      /\ UNCHANGED <<disk, phase, io, ckpt, reader, cleanup, brought, reads,
                     crashes>>

\* An ingest that replaces a span: its file is linked and the directory synced.
BeginExcise ==
  LET n == db.nextFileNum
  IN  /\ \E S \in Spans :
           BeginJob([Done EXCEPT !.kind = "excise", !.pc = "lock", !.span = S,
                       !.edit = Edit({}, {Physical(n, 1, S)}, {})])
      /\ files' = files \cup {n} /\ synced' = files'
      /\ db' = [db EXCEPT !.nextFileNum = n + 1]
      /\ UNCHANGED <<manifests, marker, external, hasLog, phase, io, ckpt,
                     reader, cleanup, brought, bounds>>

\* An ingest of the external object: findExistingBackingsForExternalObjects
\* protects the backing that already stands for it, or ingestAttachRemote
\* attaches a new one.
BeginExternal ==
  LET n == db.nextFileNum
      B == external \cap DOMAIN db.backings
      New(b, created) ==
        BeginJob([Done EXCEPT !.kind = "external", !.pc = "lock",
           !.prot = IF b = n THEN 0 ELSE b,
           !.edit = Edit({}, {Table(n, b, TRUE, 0, {<<2, n>>})}, created)])
  IN  /\ IF B = {}
         THEN /\ New(n, {n})
              /\ files' = files \cup {n} /\ external' = external \cup {n}
              /\ synced' = files'
              /\ db' = [db EXCEPT !.nextFileNum = n + 1]
         ELSE \E b \in B :
              /\ New(b, {})
              /\ db' = [db EXCEPT !.nextFileNum = n + 1, !.backings[b].prot = @ + 1]
              /\ UNCHANGED <<files, external, synced>>
      /\ UNCHANGED <<manifests, marker, hasLog, phase, io, ckpt, reader,
                     cleanup, brought, bounds>>

(***************************************************************************)
(* Under the manifest lock.                                                *)
(***************************************************************************)
\* cleanupVersionEdit, for an edit that will not be applied.
CleanupVersionEdit(d, e) ==
  LET moved == {t.num : t \in e.del}
      B == {t.backing : t \in {u \in e.new : ~u.virtual /\ u.num \notin moved}}
             \cup Unreferenced(d, e.created)
  IN  AddObsolete([d EXCEPT !.zombies = @ \cup B], B)

\* Mutant: compact1 does not look at cancel once it has the manifest lock.
ApplyTablesUncancelled(j) ==
  /\ jobs[j].pc = "lock" /\ ~db.writing
  /\ Compaction(j) \/ jobs[j].kind = "flush"
  /\ BeginEdit(db, j, jobs[j].edit)
  /\ jobs' = [jobs EXCEPT ![j].pc = "apply"]
  /\ UNCHANGED <<disk, phase, ckpt, reader, cleanup, bounds>>

\* compact1 and flush1 take the manifest lock.  A compaction that an excise
\* cancelled meanwhile drops its edit.
ApplyTables(j) ==
  /\ jobs[j].pc = "lock" /\ ~db.writing
  /\ Compaction(j) \/ jobs[j].kind = "flush"
  /\ IF jobs[j].cancel /\ Compaction(j)
     THEN /\ db' = CleanupVersionEdit(db, jobs[j].edit)
          /\ jobs' = [jobs EXCEPT ![j].pc = "clear", ![j].err = TRUE]
          /\ UNCHANGED <<io, brought>>
     ELSE /\ BeginEdit(db, j, jobs[j].edit)
          /\ jobs' = [jobs EXCEPT ![j].pc = "apply"]
  /\ UNCHANGED <<disk, phase, ckpt, reader, cleanup, bounds>>

\* Mutant: the excise cancels no compaction.
CancelledNone(S) == jobs

\* The compactions and flushes whose bounds overlap the span, unless their edit
\* is in.  A flush looks at cancel only between the tables it writes.
Cancelled(S) ==
  [j \in DOMAIN jobs |->
     IF /\ jobs[j].pc \notin {"clear", "done"}
        /\ \/ Compaction(j) /\ Overlaps(UNION {KeysOf(t) : t \in jobs[j].in}, S)
           \/ jobs[j].kind = "flush" /\ Overlaps(Keys, S)
     THEN [jobs[j] EXCEPT !.cancel = TRUE] ELSE jobs[j]]

\* ingestApply with an excise: DB.mu is held from the lock to the edit.
ApplyExcise(j) ==
  /\ jobs[j].pc = "lock" /\ jobs[j].kind = "excise" /\ ~db.writing
  /\ \E e \in {ExciseAll(Current(db), jobs[j].span, db.nextFileNum)} :
       /\ \E d \in {[db EXCEPT !.nextFileNum = @ + 2 * Cardinality(e.del)]} :
            BeginEdit(d, j, [e EXCEPT !.new = @ \cup jobs[j].edit.new])
       /\ jobs' = [Cancelled(jobs[j].span) EXCEPT ![j].pc = "apply"]
  /\ UNCHANGED <<disk, phase, ckpt, reader, cleanup, bounds>>

\* Reading a table to be excised fails: ingestApply returns the error, and
\* ingest removes the file it linked.  The manifest lock is not released.
ExciseError(j) ==
  /\ fails < MaxFails
  /\ jobs[j].pc = "lock" /\ jobs[j].kind = "excise" /\ ~db.writing
  /\ ExciseAll(Current(db), jobs[j].span, 0).new # {}
  /\ db' = [db EXCEPT !.writing = TRUE]
  /\ files' = files \ Backings(jobs[j].edit.new) /\ synced' = synced \cap files'
  /\ jobs' = [jobs EXCEPT ![j] = [Done EXCEPT !.err = TRUE]]
  /\ fails' = fails + 1
  /\ UNCHANGED <<manifests, marker, external, hasLog, phase, io, ckpt, reader,
                 cleanup, brought, reads, crashes>>

\* ingestApply without an excise: the lock is taken, and DB.mu is released to
\* find the level the table goes to.
LockExternal(j) ==
  /\ jobs[j].pc = "lock" /\ jobs[j].kind = "external" /\ ~db.writing
  /\ db' = [db EXCEPT !.writing = TRUE]
  /\ jobs' = [jobs EXCEPT ![j].pc = "target"]
  /\ UNCHANGED <<disk, phase, io, ckpt, reader, cleanup, brought, bounds>>

ApplyExternal(j) ==
  /\ jobs[j].pc = "target"
  /\ BeginEdit(db, j, jobs[j].edit)
  /\ jobs' = [jobs EXCEPT ![j].pc = "apply"]
  /\ UNCHANGED <<disk, phase, ckpt, reader, cleanup, bounds>>

\* Mutant: the early return keeps the manifest lock.
TargetErrorLocked(j) ==
  /\ jobs[j].pc = "target" /\ fails < MaxFails
  /\ jobs' = [jobs EXCEPT ![j].pc = "unprotect"]
  /\ fails' = fails + 1
  /\ UNCHANGED <<disk, phase, db, io, ckpt, reader, cleanup, brought, reads,
                 crashes>>

\* DetermineLSMOverlap fails: the lock is released.
TargetError(j) ==
  /\ jobs[j].pc = "target" /\ fails < MaxFails
  /\ db' = [db EXCEPT !.writing = FALSE]
  /\ jobs' = [jobs EXCEPT ![j].pc = "unprotect"]
  /\ fails' = fails + 1
  /\ UNCHANGED <<disk, phase, io, ckpt, reader, cleanup, brought, reads,
                 crashes>>

\* ingestUnprotectExternalBackings.
Unprotect(j) ==
  /\ jobs[j].pc = "unprotect"
  /\ db' = IF jobs[j].prot = 0 THEN db
           ELSE [db EXCEPT !.panic = @ \/ jobs[j].prot \notin DOMAIN db.backings,
                           !.backings = [b \in DOMAIN @ |->
                              [use |-> @[b].use,
                               prot |-> @[b].prot - (IF b = jobs[j].prot THEN 1 ELSE 0)]]]
  /\ jobs' = [jobs EXCEPT ![j] = Done]
  /\ UNCHANGED <<disk, phase, io, ckpt, reader, cleanup, brought, bounds>>

(***************************************************************************)
(* logAndApply without DB.mu, and its end.                                 *)
(***************************************************************************)
Stage(from, to) == io.stage = from /\ io' = [io EXCEPT !.stage = to]

\* createManifest when there is to be a new one, then the edit's record.
WriteManifest ==
  /\ Stage("write", "sync")
  /\ manifests' =
       IF io.rotate # 0
       THEN With(manifests, io.rotate,
                 [recs |-> <<io.snapshot, io.edit>>, synced |-> 0])
       ELSE [manifests EXCEPT ![io.prev].recs = Append(@, io.edit)]
  /\ UNCHANGED <<files, synced, marker, external, hasLog, phase, db, jobs, ckpt,
                 reader, cleanup, brought, bounds>>

Writing == IF io.rotate # 0 THEN io.rotate ELSE io.prev

SyncManifest ==
  /\ Stage("sync", IF io.rotate # 0 THEN "move" ELSE "install")
  /\ manifests' = [manifests EXCEPT ![Writing].synced = Len(manifests[Writing].recs)]
  /\ UNCHANGED <<files, synced, marker, external, hasLog, phase, db, jobs, ckpt,
                 reader, cleanup, brought, bounds>>

\* Mutant: Marker.Move does not sync the directory.
MoveMarkerUnsynced ==
  /\ Stage("move", "install")
  /\ marker' = Append(marker, io.rotate)
  /\ UNCHANGED <<files, synced, manifests, external, hasLog, phase, db, jobs,
                 ckpt, reader, cleanup, brought, bounds>>

\* Marker.Move: a new marker file, then a sync of the directory.
MoveMarker ==
  /\ Stage("move", "syncdir")
  /\ marker' = Append(marker, io.rotate)
  /\ UNCHANGED <<files, synced, manifests, external, hasLog, phase, db, jobs,
                 ckpt, reader, cleanup, brought, bounds>>

SyncDir ==
  /\ Stage("syncdir", "install")
  /\ marker' = <<Last(marker)>> /\ synced' = files
  /\ UNCHANGED <<files, manifests, external, hasLog, phase, db, jobs, ckpt,
                 reader, cleanup, brought, bounds>>

\* logAndApply back under DB.mu: the zombies, the virtual backings the edit
\* removed, the new version, the manifest it replaces; the lock is released.
\* The set holds the one state this leaves.
Installed ==
  LET Zombies == {[db EXCEPT !.zombies = @ \cup io.zombies,
                             !.held = Backings(io.edit.new)]}
      Removed == {AddObsolete(z, Unreferenced(z, io.edit.removed)) : z \in Zombies}
      Added   == {AppendVersion(o, io.tables) : o \in Removed}
  IN  {[v EXCEPT !.held = {}, !.writing = FALSE, !.manifest = TRUE,
                 !.manifestFileNum = Writing,
                 !.obsoleteManifests = IF io.rotate # 0 THEN @ \cup {io.prev} ELSE @]
         : v \in Added}

\* A flush or a compaction goes on to clearCompactingState; an ingest has
\* nothing to wait for.
Install ==
  LET j == io.job
  IN  /\ io.stage = "install" /\ j # 0
      /\ io' = NoIO
      /\ IF jobs[j].kind \in {"excise", "external"}
         THEN /\ \E d \in {UpdateReadState(v) : v \in Installed} :
                   db' = DeleteObsoleteFiles(d)
              /\ jobs' = [jobs EXCEPT ![j].pc = "unprotect"]
         ELSE /\ db' \in Installed
              /\ jobs' = [jobs EXCEPT ![j].pc = "clear"]
      /\ UNCHANGED <<disk, phase, ckpt, reader, cleanup, brought, bounds>>

\* The end of compact1 and flush1, after a second wait for the manifest lock.
ClearCompacting(j) ==
  /\ jobs[j].pc = "clear" /\ ~db.writing
  /\ \E d \in {IF jobs[j].err THEN db ELSE UpdateReadState(db)} :
       db' = DeleteObsoleteFiles(d)
  /\ jobs' = [jobs EXCEPT ![j] = Done]
  /\ UNCHANGED <<disk, phase, io, ckpt, reader, cleanup, brought, bounds>>

(***************************************************************************)
(* Readers, checkpoints and the cleanup manager.                           *)
(***************************************************************************)
Read ==
  /\ phase = "open" /\ reader.pc = "idle" /\ reads < MaxReads /\ crashes = 0
  /\ reader' = [pc |-> "reading", id |-> db.readState]
  /\ db' = [db EXCEPT !.readStates[db.readState].refs = @ + 1]
  /\ reads' = reads + 1
  /\ UNCHANGED <<disk, phase, io, jobs, ckpt, cleanup, brought, crashes, fails>>

\* readState.unref and the decrement of Version.Unref, which hold no lock.
Unref ==
  LET r == reader.id
      v == db.readStates[r].version
  IN  /\ reader.pc = "reading"
      /\ IF db.readStates[r].refs > 1
         THEN /\ db' = [db EXCEPT !.readStates[r].refs = @ - 1]
              /\ reader' = NoRead
         ELSE /\ db' = [db EXCEPT !.readStates = Without(@, {r}),
                                  !.versions[v].refs = @ - 1]
              /\ reader' = IF db.versions[v].refs > 1
                           THEN [pc |-> "schedule", id |-> 0]
                           ELSE [pc |-> "remove", id |-> v]
      /\ UNCHANGED <<disk, phase, io, jobs, ckpt, cleanup, brought, bounds>>

RemoveUnreferenced ==
  /\ reader.pc = "remove"
  /\ db' = RemoveVersion(db, reader.id)
  /\ reader' = [pc |-> "schedule", id |-> 0]
  /\ UNCHANGED <<disk, phase, io, jobs, ckpt, cleanup, brought, bounds>>

\* Mutant: the reader that drops the last reference deletes nothing.
ScheduleNothing ==
  /\ reader.pc = "schedule"
  /\ reader' = NoRead
  /\ UNCHANGED <<disk, phase, db, io, jobs, ckpt, cleanup, brought, bounds>>

\* maybeScheduleObsoleteTableDeletion.
Schedule ==
  /\ reader.pc = "schedule"
  /\ db' = IF db.obsolete = {} THEN db ELSE DeleteObsoleteFiles(db)
  /\ reader' = NoRead
  /\ UNCHANGED <<disk, phase, io, jobs, ckpt, cleanup, brought, bounds>>

\* disableFileDeletions: the jobs queued by now are to be waited for.
BeginCheckpoint ==
  /\ ckpt.pc = "idle" /\ MayBegin("checkpoint")
  /\ ckpt' = [NoCkpt EXCEPT !.pc = "wait", !.wait = Len(cleanup)]
  /\ jobs' = Append(jobs, Done)
  /\ db' = [db EXCEPT !.disabled = @ + 1]
  /\ UNCHANGED <<disk, phase, io, reader, cleanup, brought, bounds>>

\* The version to copy and the length of the manifest, under both locks.
LockCheckpoint ==
  /\ ckpt.pc = "wait" /\ ckpt.wait = 0 /\ ~db.writing
  /\ ckpt' = [ckpt EXCEPT !.pc = "copy",
                !.need = Backings(Current(db)) \cup DOMAIN db.backings,
                !.manifest = db.manifestFileNum,
                !.size = Len(manifests[db.manifestFileNum].recs)]
  /\ UNCHANGED <<disk, phase, db, io, jobs, reader, cleanup, brought, bounds>>

\* enableFileDeletions.
EndCheckpoint ==
  /\ ckpt.pc = "copy"
  /\ ckpt' = NoCkpt
  /\ db' = DeleteObsoleteFiles([db EXCEPT !.disabled = @ - 1])
  /\ UNCHANGED <<disk, phase, io, jobs, reader, cleanup, brought, bounds>>

\* deleteObsoleteFiles hands over its list after it released DB.mu.
EnqueueJob ==
  /\ \E job \in db.late :
       /\ cleanup' = Append(cleanup, job)
       /\ db' = [db EXCEPT !.late = @ \ {job}]
  /\ UNCHANGED <<disk, phase, io, jobs, ckpt, reader, brought, bounds>>

\* One step of the cleanup manager's loop: the tables in order, then the
\* manifests; the job is complete with its last file.
CleanupFile ==
  /\ cleanup # << >>
  /\ LET job  == Head(cleanup)
         T    == IF job.tables = {} THEN {} ELSE {Min(job.tables)}
         M    == IF T # {} THEN {} ELSE {Min(job.manifests)}
         left == [tables |-> job.tables \ T, manifests |-> job.manifests \ M]
         last == left.tables \cup left.manifests = {}
     IN  /\ files' = files \ T /\ synced' = synced \ T
         /\ external' = external \ T
         /\ manifests' = Without(manifests, M)
         /\ cleanup' = (IF last THEN << >> ELSE <<left>>) \o Tail(cleanup)
         /\ ckpt' = IF last /\ ckpt.wait > 0 THEN [ckpt EXCEPT !.wait = @ - 1]
                    ELSE ckpt
  /\ UNCHANGED <<marker, hasLog, phase, db, io, jobs, reader, brought, bounds>>

(***************************************************************************)
(* Crashes and Open.                                                       *)
(***************************************************************************)
\* What load reads from the first k records of manifest n: what a record adds
\* and no later one removes.
Image(n, k) ==
  LET r == manifests[n].recs
      Tables(i)   == r[i].new \ (UNION {r[l].del : l \in i + 1 .. k})
      Backed(i)   == r[i].created \ (UNION {r[l].removed : l \in i + 1 .. k})
  IN  [tables   |-> UNION {Tables(i) : i \in 1 .. k},
       backings |-> UNION {Backed(i) : i \in 1 .. k}]

Lengths(n) == manifests[n].synced .. Len(manifests[n].recs)

\* What Open may find after a crash: the marker names a manifest, and each
\* record past the synced ones may be lost.
Images == UNION {{Image(n, k) : k \in Lengths(n)} : n \in Range(marker)}

\* The process ends; when the machine does too, what was not synced may go.
Crash ==
  /\ phase # "down" /\ crashes < MaxCrashes
  /\ crashes > 0 => phase # "open"
  /\ crashes' = crashes + 1
  /\ \/ UNCHANGED <<files, synced, manifests, marker>>
     \/ \E n \in Range(marker), F \in SUBSET (files \ synced) :
          /\ marker' = <<n>> /\ files' = synced \cup F /\ synced' = files'
          /\ \E k \in Lengths(n) :
               manifests' = [manifests EXCEPT
                 ![n] = [recs |-> SubSeq(@.recs, 1, k), synced |-> k]]
  /\ phase' = "down"
  /\ db' = NewDB({}, {}, 0, 0)
  /\ io' = NoIO /\ ckpt' = NoCkpt /\ reader' = NoRead /\ cleanup' = << >>
  /\ jobs' = [j \in DOMAIN jobs |-> Done]
  /\ brought' = {x[2] : x \in UNION {Contents(i.tables) : i \in Images'}}
  /\ UNCHANGED <<external, hasLog, reads, fails>>

\* versionSet.load, and the numbers of the files that are there.
Load ==
  LET n == Last(marker)
      m == manifests[n]
      i == Image(n, Len(m.recs))
  IN  /\ phase = "down" /\ phase' = "loaded"
      /\ db' = NewDB(i.tables, i.backings, n,
                     Max({Last(m.recs).next} \cup
                         {f + 1 : f \in files \cup DOMAIN manifests}))
      /\ UNCHANGED <<disk, io, jobs, ckpt, reader, cleanup, brought, bounds>>

\* The flush of the replayed memtables, which makes a new manifest because
\* none is open.  There is one whenever there is a log to replay.
OpenFlush ==
  /\ phase = "loaded" /\ hasLog /\ io = NoIO
  /\ BeginEdit(db, 0, NoEdit)
  /\ UNCHANGED <<disk, phase, jobs, ckpt, reader, cleanup, bounds>>

OpenFlushed ==
  /\ io.stage = "install" /\ io.job = 0
  /\ io' = NoIO
  /\ phase' = "flushed" /\ hasLog' = FALSE
  /\ \E d \in {UpdateReadState(v) : v \in Installed} : db' = DeleteObsoleteFiles(d)
  /\ UNCHANGED <<files, synced, manifests, marker, external, jobs, ckpt, reader,
                 cleanup, brought, bounds>>

OpenCreateLog ==
  /\ phase = "flushed" \/ (phase = "loaded" /\ ~hasLog)
  /\ phase' = "created" /\ hasLog' = TRUE
  /\ db' = UpdateReadState(db)
  /\ UNCHANGED <<files, synced, manifests, marker, external, io, jobs, ckpt,
                 reader, cleanup, brought, bounds>>

\* The options file and the sync of the directory, then scanObsoleteFiles and
\* deleteObsoleteFiles.
OpenScan ==
  LET live == Backings(Current(db)) \cup DOMAIN db.backings
  IN  /\ phase = "created" /\ phase' = "open"
      /\ marker' = <<Last(marker)>> /\ synced' = files
      /\ \E d \in {[db EXCEPT !.obsolete = @ \cup (files \ live),
                             !.obsoleteManifests = @ \cup
                    {n \in DOMAIN manifests : n < db.manifestFileNum}]} :
           db' = DeleteObsoleteFiles(d)
      /\ UNCHANGED <<files, manifests, external, hasLog, io, jobs, ckpt, reader,
                     cleanup, brought, bounds>>

JobNext(j) ==
  \/ StartCompaction(j) \/ WriteTable(j) \/ SyncTable(j) \/ RunDeleteOnly(j)
  \/ FailRun(j) \/ ApplyTables(j) \/ ApplyExcise(j) \/ ExciseError(j)
  \/ LockExternal(j) \/ ApplyExternal(j) \/ TargetError(j) \/ Unprotect(j)
  \/ ClearCompacting(j)

WriterNext == WriteManifest \/ SyncManifest \/ MoveMarker \/ SyncDir \/ Install
ReaderNext == Unref \/ RemoveUnreferenced \/ Schedule
OpenNext   == Load \/ OpenFlush \/ OpenFlushed \/ OpenCreateLog \/ OpenScan

Next ==
  \/ BeginFlush \/ PickCompaction \/ BeginExcise \/ BeginExternal
  \/ \E j \in DOMAIN jobs : JobNext(j)
  \/ WriterNext \/ OpenNext
  \/ Read \/ ReaderNext
  \/ BeginCheckpoint \/ LockCheckpoint \/ EndCheckpoint
  \/ EnqueueJob \/ CleanupFile
  \/ Crash

Spec == Init /\ [][Next]_vars

Fairness ==
  /\ \A j \in 1 .. MaxJobs : WF_vars(j \in DOMAIN jobs /\ JobNext(j))
  /\ WF_vars(WriterNext \/ OpenNext) /\ WF_vars(ReaderNext)
  /\ WF_vars(LockCheckpoint \/ EndCheckpoint)
  /\ WF_vars(EnqueueJob) /\ WF_vars(CleanupFile)

FairSpec == Spec /\ Fairness

(***************************************************************************)
(* Properties.                                                             *)
(***************************************************************************)
\* No edit deletes a table that the version under it no longer has
\* (BulkVersionEdit.Apply), no virtual backing is created twice or missing
\* (virtualBackings.AddAndRef, mustGet), and every table that becomes obsolete
\* was a zombie (addObsoleteLocked): whatever flushes, compactions, excises and
\* external ingests interleave, and whichever fail or are cancelled.
NoPanic == ~db.panic

\* A file that is needed is on disk, though deleteObsoleteFiles collects lists
\* under DB.mu and deletes later, without it: the files of every manifest that
\* Open may find after a crash, and synced; the files of a version that a
\* reader, a compaction or DB holds; the inputs of a running compaction; and
\* the files and the manifest that a checkpoint is copying.
NeededFilesKept ==
  /\ \A i \in Images : Backings(i.tables) \cup i.backings \subseteq synced
  /\ \A v \in DOMAIN db.versions :
       db.versions[v].refs > 0 => Backings(db.versions[v].tables) \subseteq files
  /\ DOMAIN db.backings \subseteq files
  /\ \A j \in Unfinished :
       jobs[j].pc = "run" => Backings(jobs[j].in) \subseteq files
  /\ ckpt.pc = "copy" =>
       /\ ckpt.need \subseteq files
       /\ ckpt.manifest \in DOMAIN manifests
       /\ Backings(Image(ckpt.manifest, ckpt.size).tables) \subseteq ckpt.need

\* A crash while no edit is under way finds the tables and the virtual backings
\* that are in memory, and a crash during logAndApply finds the tables before
\* or after the edit: across rotations of the manifest, whose snapshot is taken
\* before the edit, and moves of the marker.
ManifestRecovers ==
  phase = "open" =>
    IF io = NoIO
    THEN Images = {[tables |-> Current(db), backings |-> DOMAIN db.backings]}
    ELSE \A i \in Images : i.tables \in {Current(db), io.tables}

\* The edit under way, as the items it removes and adds.
InFlight ==
  LET c == Contents(Current(db))
      d == Contents(io.tables)
      kind == IF io.job = 0 THEN "rewrite" ELSE
              CASE jobs[io.job].kind \in {"flush", "external"} -> "write"
                [] jobs[io.job].kind \in {"compact", "move"} -> "rewrite"
                [] jobs[io.job].kind = "excise" -> "excise"
                [] OTHER -> "drop"
  IN  IF io = NoIO THEN [kind |-> "none", del |-> {}, add |-> {}]
      ELSE [kind |-> kind, del |-> c \ d, add |-> d \ c]

Store == INSTANCE TableStore WITH
  contents <- IF phase = "open" THEN {Contents(Current(db))}
              ELSE {Contents(i.tables) : i \in Images},
  inflight <- InFlight

\* logAndApply is an atomic, durable edit of the contents: a compaction changes
\* nothing, even when an excise cancels it while it runs; an excise clears its
\* whole span; what a crash leaves is what was installed, with or without the
\* one edit under way; and a second crash during Open loses nothing more.
ImplementsTables == Store!Spec

\* An excise failed and took the manifest lock with it.
LockLost == \E j \in DOMAIN jobs : jobs[j].kind = "done" /\ jobs[j].err

\* Every flush, compaction and ingest ends, failed or cancelled or not: the
\* manifest lock is released on every other path of compact1, flush1 and
\* ingestApply.
JobsEnd == []<>(Unfinished = {} \/ LockLost)

\* ingestApply: "any earlier returns must unlock the manifest".  So a job that
\* waits for the manifest lock (logLock) gets it.
EveryJobEnds == []<>(Unfinished = {})

\* A table file that is in no version any more is deleted: whoever dropped the
\* last reference to it, a reader, a compaction or an edit, and whatever a
\* checkpoint or a crash put off.  (A failed external ingest leaves its object
\* to the next Open.)
Collected ==
  []<>(\/ LockLost
       \/ phase = "open" /\ files \ external \subseteq
                             Backings(Current(db)) \cup DOMAIN db.backings)
=============================================================================
