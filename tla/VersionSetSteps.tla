-------------------------- MODULE VersionSetSteps ---------------------------
(***************************************************************************)
(* Proofs about VersionSet, for any kinds and number of jobs, readers,     *)
(* failures and crashes: no file is deleted that is needed, what a crash   *)
(* leaves is what was installed, and none of the assertions of the version *)
(* set fires.  They rest on one inductive invariant, IInv.  Here are the   *)
(* invariant, lemmas about the operators of VersionSet, and the steps of   *)
(* readers, jobs, checkpoints and the cleanup manager; the steps of the    *)
(* manifest and of Open, and the theorems, are in VersionSetProofs.        *)
(***************************************************************************)
EXTENDS VersionSet, SequenceTheorems, FiniteSetTheorems, TLAPS

(***************************************************************************)
(* The types.                                                              *)
(***************************************************************************)
Maps(X) == UNION {[S -> X] : S \in SUBSET Nat}

TableType ==
  [num : Nat, backing : Nat, virtual : BOOLEAN, level : Nat,
   items : SUBSET (Keys \X Nat)]

TableSets == {T \in SUBSET TableType : IsFiniteSet(T)}

EditType ==
  [del : TableSets, new : TableSets, created : SUBSET Nat, removed : SUBSET Nat,
   next : Nat]

Version     == [tables : TableSets, refs : Int]
ReadState   == [version : Nat, refs : Int]
BackingType == [use : Int, prot : Int]
CleanupJob  == [tables : SUBSET Nat, manifests : SUBSET Nat]
Manifest    == [recs : Seq(EditType), synced : Nat]

DBType ==
  [nextFileNum : Nat, manifestFileNum : Nat, manifest : BOOLEAN,
   writing : BOOLEAN, versions : Maps(Version), current : Nat,
   backings : Maps(BackingType), held : SUBSET Nat, zombies : SUBSET Nat,
   obsolete : SUBSET Nat, obsoleteManifests : SUBSET Nat, disabled : Int,
   readStates : Maps(ReadState), readState : Nat, late : SUBSET CleanupJob,
   panic : BOOLEAN]

IOType ==
  [job : Nat, stage : {"none", "write", "sync", "move", "syncdir", "install"},
   edit : EditType, tables : TableSets, snapshot : EditType, rotate : Nat,
   zombies : SUBSET Nat, prev : Nat]

JobType ==
  [kind : {"flush", "compact", "move", "deleteonly", "excise", "external", "done"},
   pc : {"start", "run", "sync", "lock", "target", "apply", "clear", "unprotect",
         "done"},
   in : TableSets, span : SUBSET Keys, edit : EditType, version : Nat,
   cancel : BOOLEAN, err : BOOLEAN, prot : Nat]

CkptType ==
  [pc : {"idle", "wait", "copy"}, wait : Int, need : SUBSET Nat, manifest : Nat,
   size : Nat]

ReaderType == [pc : {"idle", "reading", "remove", "schedule"}, id : Nat]

DiskType ==
  /\ files \in SUBSET Nat /\ IsFiniteSet(files) /\ synced \subseteq files
  /\ external \subseteq Nat /\ hasLog \in BOOLEAN
  /\ manifests \in Maps(Manifest) /\ IsFiniteSet(DOMAIN manifests)
  /\ marker \in Seq(Nat) /\ marker # << >>

TypeOK ==
  /\ DiskType /\ db \in DBType /\ io \in IOType /\ jobs \in Seq(JobType)
  /\ phase \in {"open", "down", "loaded", "flushed", "created"}
  /\ ckpt \in CkptType /\ reader \in ReaderType /\ cleanup \in Seq(CleanupJob)

(***************************************************************************)
(* The inductive invariant.                                                *)
(***************************************************************************)
Numbers(T) == {t.num : t \in T}

\* T and B can be the tables and the virtual backings of a version.
Sound(T, B) ==
  /\ \A t, u \in T : t.num = u.num => t = u
  /\ \A t \in T : IF t.virtual THEN t.backing \in B
                  ELSE t.backing = t.num /\ t.backing \notin B

\* The references to a version: one of the version set, one of each read state,
\* one of each job that reads tables.
ReadersOf(d, v) == {r \in DOMAIN d.readStates : d.readStates[r].version = v}
JobsOf(js, v)   == {j \in DOMAIN js : js[j].version = v}

RefsInv(d, js) ==
  /\ DOMAIN d.versions \subseteq 1 .. d.current
  /\ DOMAIN d.readStates \subseteq 1 .. d.readState
  /\ \A r \in DOMAIN d.readStates : d.readStates[r].version \in DOMAIN d.versions
  /\ \A j \in DOMAIN js : js[j].version \in DOMAIN d.versions \cup {0}
  /\ \A v \in DOMAIN d.versions :
       d.versions[v].refs = (IF v = d.current THEN 1 ELSE 0)
                              + Cardinality(ReadersOf(d, v)) + Cardinality(JobsOf(js, v))

\* A version without references is the one a reader is about to remove; a read
\* state is held by DB and by the reader.
ReadersInv(d, rd) ==
  /\ \A v \in DOMAIN d.versions :
       d.versions[v].refs = 0 <=> (rd.pc = "remove" /\ rd.id = v)
  /\ rd.pc = "remove" => rd.id \in DOMAIN d.versions
  /\ rd.pc = "reading" => rd.id \in DOMAIN d.readStates
  /\ \A r \in DOMAIN d.readStates :
       /\ d.readStates[r].refs = (IF r = d.readState THEN 1 ELSE 0)
                                   + (IF rd.pc = "reading" /\ rd.id = r THEN 1 ELSE 0)
       /\ d.readStates[r].refs # 0
  /\ d.readState # 0 => d.readState \in DOMAIN d.readStates

\* The files that something refers to; those of them that are referred to by
\* more than an old version; and those that are to be deleted.
Refd(d) ==
  (UNION {Backings(d.versions[v].tables) : v \in DOMAIN d.versions})
    \cup DOMAIN d.backings \cup d.held

Base(d) == Backings(Current(d)) \cup DOMAIN d.backings \cup d.held

LateTables(d)    == UNION {q.tables : q \in d.late}
LateManifests(d) == UNION {q.manifests : q \in d.late}
DoomedIn(d)      == d.obsolete \cup LateTables(d)

\* T is the tables after the edit under way, Z the zombies it makes.
DBInv(d, T, Z) ==
  /\ d \in DBType /\ ~d.panic /\ d.current \in DOMAIN d.versions
  /\ \A v \in DOMAIN d.versions :
       Backings(d.versions[v].tables) \subseteq
         Backings(T) \cup DOMAIN d.backings \cup d.zombies \cup Z
  /\ Backings(T) \cup Z \subseteq Base(d)
  /\ Refd(d) \cap DoomedIn(d) = {}
  /\ \A q \in d.late : q.tables \cup q.manifests # {}

Idle   == io.stage = "none"
Target == IF Idle THEN Current(db) ELSE io.tables

\* The jobs that protect backing b.
Protecting(js, b) == {j \in DOMAIN js : js[j].prot = b}

BackingsInv ==
  /\ Sound(Target, DOMAIN db.backings)
  /\ \A b \in DOMAIN db.backings :
       /\ db.backings[b].use = Virtuals(Target, b)
       /\ db.backings[b].prot = Cardinality(Protecting(jobs, b))
  /\ \A j \in DOMAIN jobs : jobs[j].prot # 0 => jobs[j].prot \in DOMAIN db.backings

\* The edit under way.
EditInv ==
  /\ io.snapshot.new = Current(db) /\ io.snapshot.del = {}
  /\ io.prev = db.manifestFileNum
  /\ io.tables = (Current(db) \ io.edit.del) \cup io.edit.new
  /\ DOMAIN db.backings =
       (io.snapshot.created \cup io.edit.created) \ io.edit.removed
  /\ io.edit.created \cap io.edit.removed = {}
  /\ Sound(io.snapshot.new, io.snapshot.created)
  /\ db.held = Backings(io.edit.new) \cup io.edit.removed
  /\ io.edit.removed \subseteq io.zombies
  /\ io.zombies \subseteq Backings(Current(db)) \cup io.edit.removed
  /\ io.rotate # 0 => io.rotate < db.nextFileNum /\ io.prev < io.rotate
  /\ \A n \in Numbers(io.tables) : n < io.edit.next
  /\ \A n \in Numbers(io.snapshot.new) : n < io.snapshot.next
  /\ io.edit.next <= db.nextFileNum

IoInv ==
  IF Idle THEN io = NoIO /\ db.held = {}
  ELSE /\ EditInv
       /\ phase \in {"loaded", "open"}
       /\ phase = "loaded" => io.rotate # 0 /\ io.job = 0
       /\ phase = "open" => io.job \in DOMAIN jobs /\ jobs[io.job].pc = "apply"
       /\ db.writing

CleanupTables    == UNION {q.tables : q \in Range(cleanup)}
CleanupManifests == UNION {q.manifests : q \in Range(cleanup)}
Doomed           == DoomedIn(db) \cup CleanupTables
Up               == phase # "down"

FilesInv ==
  /\ Refd(db) \subseteq synced
  /\ Refd(db) \cap CleanupTables = {}
  /\ \A f \in files \cup DOMAIN manifests : f > 0
  /\ Up => /\ \A f \in files \cup Doomed \cup DOMAIN manifests : f < db.nextFileNum
           /\ \A n \in Numbers(Target) : n < db.nextFileNum
  /\ \A q \in Range(cleanup) : q.tables \cup q.manifests # {}

\* The numbers a job has taken for tables that no edit has added yet.
Pending(job) == job.pc \in {"sync", "lock", "target"}
Own(job) ==
  IF Pending(job) THEN Numbers(job.edit.new) \ Numbers(job.in) ELSE {}

InputsOf(job) == Backings(job.in) \cup Numbers(job.in)
Inputs == UNION {InputsOf(jobs[i]) : i \in DOMAIN jobs}
Taken  == Numbers(Target) \cup Refd(db) \cup Doomed \cup ckpt.need \cup Inputs

OwnInv ==
  /\ \A j \in DOMAIN jobs : \A n \in Own(jobs[j]) : 0 < n /\ n < db.nextFileNum
  /\ \A i, j \in DOMAIN jobs : i # j => Own(jobs[i]) \cap Own(jobs[j]) = {}
  /\ \A j \in DOMAIN jobs : Own(jobs[j]) \cap Taken = {}
  /\ \A f \in Inputs : f < db.nextFileNum
  /\ \A j \in DOMAIN jobs :
       Own(jobs[j]) \cap Backings(jobs[j].edit.new) \subseteq
         IF jobs[j].pc = "sync" THEN files ELSE synced

\* The edit of a job that is to be logged.
NewTable(e, I) ==
  /\ e.del = I /\ e.created = {}
  /\ \E t \in e.new : e.new = {t} /\ ~t.virtual /\ t.backing = t.num
                      /\ t.num \notin Numbers(I)

MovedTables(e, I) ==
  e.del = I /\ e.created = {} /\ e.new = {[t EXCEPT !.level = 1] : t \in I}

ExcisedTable(e, I) ==
  \E t \in I :
    /\ I = {t} /\ e.del = {t}
    /\ \A u \in e.new : u.virtual /\ u.backing = t.backing /\ u.num # t.num
    /\ \A u, w \in e.new : u.num = w.num => u = w
    /\ e.created = IF e.new = {} \/ t.virtual THEN {} ELSE {t.backing}

ExternalTable(e, b) ==
  /\ e.del = {}
  /\ \E t \in e.new :
       /\ e.new = {t} /\ t.virtual
       /\ IF b = 0 THEN e.created = {t.num} /\ t.backing = t.num
          ELSE e.created = {} /\ t.backing = b

Shape(job) ==
  /\ job.kind \in {"flush", "compact", "excise"} => NewTable(job.edit, job.in)
  /\ job.kind = "move" => MovedTables(job.edit, job.in)
  /\ job.kind = "deleteonly" => ExcisedTable(job.edit, job.in)
  /\ job.kind = "external" => ExternalTable(job.edit, job.prot)

\* Where a job can be, by its kind.
Places(kind) ==
  IF kind = "flush" THEN {"run", "sync", "lock", "apply", "clear"}
  ELSE IF kind = "compact" THEN {"start", "run", "sync", "lock", "apply", "clear"}
  ELSE IF kind = "move" THEN {"start", "lock", "apply", "clear"}
  ELSE IF kind = "deleteonly" THEN {"start", "run", "lock", "apply", "clear"}
  ELSE IF kind = "excise" THEN {"lock", "apply", "unprotect"}
  ELSE IF kind = "external" THEN {"lock", "target", "apply", "unprotect"}
  ELSE {"done"}

JobOK(job) ==
  /\ job.pc \in Places(job.kind)
  /\ job.kind \notin {"compact", "move", "deleteonly"} => job.in = {}
  /\ job.kind = "deleteonly" => \E t \in job.in : job.in = {t}
  /\ job.kind # "external" => job.prot = 0
  /\ Pending(job) => Shape(job)
  /\ job.pc \in {"start", "run"} => job.edit = NoEdit
  /\ job.kind = "excise" => job.span # {}

\* A compaction reads its tables from the version it holds, and they are still
\* current unless it is cancelled.
InputsInv(job, d, T) ==
  /\ IF job.pc \in {"run", "sync"} /\ job.kind # "flush"
     THEN job.version # 0 /\ job.in \subseteq d.versions[job.version].tables
     ELSE job.version = 0
  /\ /\ job.kind \in {"compact", "move", "deleteonly"} /\ ~job.cancel
     /\ job.pc \in {"start", "run", "sync", "lock"}
     => job.in \subseteq Current(d) /\ job.in \subseteq T

JobsInv ==
  /\ \A j \in DOMAIN jobs : JobOK(jobs[j]) /\ InputsInv(jobs[j], db, Target)
  /\ \A i, j \in DOMAIN jobs : Compaction(i) /\ Compaction(j) => i = j

\* The manifest lock.
LockInv ==
  /\ \A j \in DOMAIN jobs : jobs[j].pc = "apply" => ~Idle /\ io.job = j
  /\ \A j \in DOMAIN jobs : jobs[j].pc = "target" => db.writing /\ Idle
  /\ \A i, j \in DOMAIN jobs : jobs[i].pc = "target" /\ jobs[j].pc = "target" => i = j

PhaseInv ==
  /\ phase \in {"open", "created"} => db.readState # 0 /\ hasLog
  /\ phase # "open" => /\ \A j \in DOMAIN jobs : jobs[j] = Done
                       /\ ckpt = NoCkpt /\ reader = NoRead
                       /\ DOMAIN db.versions = {db.current}
  /\ phase = "down" => db = NewDB({}, {}, 0, 0) /\ Idle /\ cleanup = << >>
  /\ phase = "loaded" => /\ db.late = {} /\ db.obsolete = {}
                         /\ db.obsoleteManifests = {} /\ cleanup = << >>
                         /\ db.readState = 0 /\ ~db.manifest
                         /\ hasLog \/ Idle
  /\ phase = "flushed" => ~hasLog
  /\ db.disabled = IF ckpt.pc = "idle" THEN 0 ELSE 1

Records(n) == Len(manifests[n].recs)
Full(n)    == manifests[n].synced = Records(n)
Pair(T, B) == [tables |-> T, backings |-> B]
Before     == Pair(io.snapshot.new, io.snapshot.created)
After      == Pair(io.tables, DOMAIN db.backings)

\* Open has nothing left to flush.
Settled == phase # "loaded" \/ ~hasLog

\* The manifest that is open, or was loaded, ends with the image i.
AtRest(i) ==
  /\ Last(marker) = db.manifestFileNum
  /\ Image(db.manifestFileNum, Records(db.manifestFileNum)) = i
  /\ Settled => marker = <<db.manifestFileNum>> /\ Full(db.manifestFileNum)

ImageOK(n, k) ==
  LET i == Image(n, k)
  IN  /\ Sound(i.tables, i.backings)
      /\ Backings(i.tables) \cup i.backings \subseteq synced
      /\ \A m \in Numbers(i.tables) : m < manifests[n].recs[k].next

MarkerInv ==
  /\ \A n \in Range(marker) :
       n \in DOMAIN manifests /\ manifests[n].synced >= 1
         /\ \A k \in Lengths(n) : ImageOK(n, k)
  /\ \A n \in DOMAIN manifests : manifests[n].synced <= Records(n)
  /\ ~hasLog => \E n \in DOMAIN manifests : marker = <<n>> /\ Full(n)
  /\ Up => db.manifestFileNum \in DOMAIN manifests
  /\ Up => \A n \in db.obsoleteManifests \cup LateManifests(db) \cup CleanupManifests :
             n < db.manifestFileNum

\* The manifest that is made when the open one is too large.
NewManifest(n) ==
  /\ io.rotate \in DOMAIN manifests
  /\ manifests[io.rotate] = [recs |-> <<io.snapshot, io.edit>>, synced |-> n]

StageInv ==
  /\ Up /\ Idle => AtRest(Pair(Current(db), DOMAIN db.backings))
  /\ io.stage = "write" =>
       AtRest(Before) /\ (io.rotate # 0 => io.rotate \notin DOMAIN manifests)
  /\ io.stage = "sync" /\ io.rotate # 0 =>
       AtRest(Before) /\ NewManifest(0) /\ io.rotate \notin Range(marker)
  /\ io.stage = "sync" /\ io.rotate = 0 =>
       /\ marker = <<io.prev>> /\ manifests[io.prev].synced = Records(io.prev) - 1
       /\ Image(io.prev, Records(io.prev) - 1) = Before
       /\ Image(io.prev, Records(io.prev)) = After
  /\ io.stage = "move" =>
       io.rotate # 0 /\ AtRest(Before) /\ NewManifest(2)
  /\ io.stage = "syncdir" =>
       /\ io.rotate # 0 /\ NewManifest(2) /\ Last(marker) = io.rotate
       /\ Settled => /\ marker = <<io.prev, io.rotate>> /\ Full(io.prev)
                     /\ Image(io.prev, Records(io.prev)) = Before
  /\ io.stage = "install" =>
       marker = <<Writing>> /\ Full(Writing) /\ Image(Writing, Records(Writing)) = After

CkptInv ==
  /\ ckpt.pc # "copy" => ckpt.need = {}
  /\ ckpt.pc = "copy" =>
       /\ ckpt.need \subseteq files
       /\ ckpt.need \cap (LateTables(db) \cup CleanupTables) = {}
       /\ ckpt.manifest \in DOMAIN manifests
       /\ ckpt.manifest \notin LateManifests(db) \cup CleanupManifests
       /\ ckpt.size <= Records(ckpt.manifest)
       /\ Backings(Image(ckpt.manifest, ckpt.size).tables) \subseteq ckpt.need

IInv ==
  /\ TypeOK /\ DBInv(db, Target, io.zombies) /\ RefsInv(db, jobs)
  /\ ReadersInv(db, reader) /\ BackingsInv /\ IoInv /\ FilesInv /\ OwnInv
  /\ JobsInv /\ LockInv /\ PhaseInv /\ MarkerInv /\ StageInv /\ CkptInv

(***************************************************************************)
(* Maps, numbers and finite sets.                                          *)
(***************************************************************************)
LEMMA MapFacts ==
  ASSUME NEW X, NEW f
  PROVE  /\ f \in Maps(X) <=> DOMAIN f \subseteq Nat /\ f \in [DOMAIN f -> X]
         /\ f \in Maps(X) => \A x \in DOMAIN f : f[x] \in X
<1>1. f \in Maps(X) => DOMAIN f \subseteq Nat /\ f \in [DOMAIN f -> X]
  BY DEF Maps
<1>2. DOMAIN f \subseteq Nat /\ f \in [DOMAIN f -> X] => f \in Maps(X)
  BY DEF Maps
<1> QED
  BY <1>1, <1>2

\* A map with a part of its domain, with one more value, and with one changed.
LEMMA MapParts ==
  ASSUME NEW X, NEW f \in Maps(X)
  PROVE  /\ \A S : Without(f, S) \in Maps(X)
         /\ \A x \in Nat, y \in X : With(f, x, y) \in Maps(X)
         /\ \A x : \A y \in X : [f EXCEPT ![x] = y] \in Maps(X)
<1>1. DOMAIN f \subseteq Nat /\ f \in [DOMAIN f -> X]
  BY MapFacts
<1>2. ASSUME NEW S PROVE Without(f, S) \in Maps(X)
  <2>1. Without(f, S) \in [DOMAIN f \ S -> X]
    BY <1>1 DEF Without
  <2> QED
    BY <1>1, <2>1 DEF Maps
<1>3. ASSUME NEW x \in Nat, NEW y \in X PROVE With(f, x, y) \in Maps(X)
  <2>1. With(f, x, y) \in [DOMAIN f \cup {x} -> X]
    BY <1>1 DEF With
  <2> QED
    BY <1>1, <2>1 DEF Maps
<1>4. ASSUME NEW x, NEW y \in X PROVE [f EXCEPT ![x] = y] \in Maps(X)
  <2>1. [f EXCEPT ![x] = y] \in [DOMAIN f -> X]
    BY <1>1
  <2> QED
    BY <1>1, <2>1 DEF Maps
<1> QED
  BY <1>2, <1>3, <1>4

LEMMA EmptyMap == ASSUME NEW X PROVE << >> \in Maps(X)
<1>1. << >> \in [{} -> X]
  OBVIOUS
<1> QED
  BY <1>1 DEF Maps

\* A set of numbers has a least element.
LEMMA Least ==
  ASSUME NEW S, S \subseteq Nat, S # {}
  PROVE  \E m \in S : \A x \in S : m <= x
<1>1. IsWellFoundedOn(OpToRel(<, Nat), Nat)
  BY NatLessThanWellFounded
<1>2. PICK m \in S : \A y \in S : ~(<<y, m>> \in OpToRel(<, Nat))
  BY <1>1, WFMin
<1>3. \A y \in S : ~(y < m)
  BY <1>2 DEF OpToRel
<1> QED
  BY <1>3

LEMMA MinFacts ==
  ASSUME NEW S, S \subseteq Nat, S # {}
  PROVE  Min(S) \in S /\ \A x \in S : Min(S) <= x
BY Least DEF Min

\* The cardinality of a finite set with one element less, or one more.
LEMMA CardParts ==
  ASSUME NEW S, IsFiniteSet(S), NEW p
  PROVE  /\ Cardinality(S) \in Nat
         /\ IsFiniteSet(S \ {p}) /\ IsFiniteSet(S \cup {p})
         /\ p \in S => Cardinality(S \ {p}) = Cardinality(S) - 1
         /\ p \notin S => Cardinality(S \cup {p}) = Cardinality(S) + 1
         /\ Cardinality(S) = 0 <=> S = {}
<1>1. Cardinality(S) \in Nat /\ (Cardinality(S) = 0 <=> S = {})
  BY FS_CardinalityType, FS_EmptySet
<1>2. IsFiniteSet(S \ {p}) /\ (p \in S => Cardinality(S \ {p}) = Cardinality(S) - 1)
  BY FS_RemoveElement, FS_Subset
<1>3. IsFiniteSet(S \cup {p}) /\ (p \notin S => Cardinality(S \cup {p}) = Cardinality(S) + 1)
  BY FS_AddElement
<1> QED
  BY <1>1, <1>2, <1>3

LEMMA TableSetFacts ==
  /\ {} \in TableSets
  /\ \A t \in TableType : {t} \in TableSets
  /\ \A S, T \in TableSets : S \cup T \in TableSets
  /\ \A S \in TableSets : \A T : T \subseteq S => T \in TableSets
<1>1. {} \in TableSets
  BY FS_EmptySet DEF TableSets
<1>2. ASSUME NEW t \in TableType PROVE {t} \in TableSets
  BY FS_Singleton DEF TableSets
<1>3. ASSUME NEW S \in TableSets, NEW T \in TableSets PROVE S \cup T \in TableSets
  BY FS_Union DEF TableSets
<1>4. ASSUME NEW S \in TableSets, NEW T, T \subseteq S PROVE T \in TableSets
  <2>1. IsFiniteSet(S) /\ S \subseteq TableType
    BY DEF TableSets
  <2>2. IsFiniteSet(T)
    BY <1>4, <2>1, FS_Subset
  <2> QED
    BY <1>4, <2>1, <2>2 DEF TableSets
<1> QED
  BY <1>1, <1>2, <1>3, <1>4

\* The numbers of a set of tables are naturals.
LEMMA TableNumbers ==
  ASSUME NEW T \in TableSets
  PROVE  Numbers(T) \subseteq Nat /\ Backings(T) \subseteq Nat
BY DEF TableSets, TableType, Numbers, Backings

\* The virtual tables on a backing, after an edit.
LEMMA VirtualsEdit ==
  ASSUME NEW T \in TableSets, NEW D \in SUBSET T, NEW N \in TableSets,
         N \cap (T \ D) = {}, NEW b
  PROVE  /\ Virtuals((T \ D) \cup N, b) = Virtuals(T, b) + Virtuals(N, b) - Virtuals(D, b)
         /\ Virtuals(T, b) \in Nat
         /\ Virtuals(T, b) = 0 <=> ~ \E t \in T : t.virtual /\ t.backing = b
<1> DEFINE On(S) == {t \in S : t.virtual /\ t.backing = b}
           V == On(T)
           W == On(D)
           M == On(N)
<1>1. IsFiniteSet(V) /\ IsFiniteSet(W) /\ IsFiniteSet(M)
  <2>1. IsFiniteSet(T) /\ IsFiniteSet(N)
    BY DEF TableSets
  <2> QED
    BY <2>1, FS_Subset
<1>2. On((T \ D) \cup N) = (V \ W) \cup M /\ (V \ W) \cap M = {} /\ W \subseteq V
  OBVIOUS
<1> HIDE DEF V, W, M
<1>3. IsFiniteSet(V \ W) /\ Cardinality(V \ W) = Cardinality(V) - Cardinality(V \cap W)
  BY <1>1, FS_Difference
<1>4. V \cap W = W
  BY <1>2
<1>5. Cardinality((V \ W) \cup M) =
        Cardinality(V \ W) + Cardinality(M) - Cardinality((V \ W) \cap M)
  BY <1>1, <1>3, FS_Union
<1>6. Cardinality((V \ W) \cap M) = 0
  BY <1>2, FS_EmptySet
<1>7. Cardinality(V) \in Nat /\ Cardinality(W) \in Nat /\ Cardinality(M) \in Nat
  BY <1>1, FS_CardinalityType
<1>8. Cardinality((V \ W) \cup M) = Cardinality(V) + Cardinality(M) - Cardinality(W)
  <2>1. Cardinality(V \ W) = Cardinality(V) - Cardinality(W)
    BY <1>3, <1>4
  <2>2. Cardinality((V \ W) \cup M) = Cardinality(V \ W) + Cardinality(M) - 0
    BY <1>5, <1>6
  <2> QED
    BY <2>1, <2>2, <1>7
<1>9. Cardinality(V) = 0 <=> V = {}
  BY <1>1, FS_EmptySet
<1> USE DEF V, W, M
<1> QED
  BY <1>2, <1>7, <1>8, <1>9 DEF Virtuals

\* A job changed, and a job added.
LEMMA JobParts ==
  ASSUME NEW js \in Seq(JobType), NEW x \in JobType
  PROVE  /\ \A j \in DOMAIN js :
              LET ks == [js EXCEPT ![j] = x]
              IN  /\ ks \in Seq(JobType) /\ DOMAIN ks = DOMAIN js /\ ks[j] = x
                  /\ \A i \in DOMAIN js : i # j => ks[i] = js[i]
         /\ LET ks == Append(js, x)
            IN  /\ ks \in Seq(JobType) /\ DOMAIN ks = DOMAIN js \cup {Len(js) + 1}
                /\ Len(js) + 1 \notin DOMAIN js /\ ks[Len(js) + 1] = x
                /\ \A i \in DOMAIN js : ks[i] = js[i]
<1>1. DOMAIN js = 1 .. Len(js) /\ Len(js) \in Nat /\ js \in [DOMAIN js -> JobType]
  OBVIOUS
<1>2. ASSUME NEW j \in DOMAIN js PROVE [js EXCEPT ![j] = x] \in Seq(JobType)
  BY <1>1, <1>2, ExceptSeq
<1>3. DOMAIN Append(js, x) = 1 .. Len(js) + 1
  BY <1>1
<1> QED
  BY <1>1, <1>2, <1>3

(***************************************************************************)
(* What the operators on the state of versionSet leave.                    *)
(***************************************************************************)
\* From d to e the tables stay, and no version is added; the files of X may
\* become obsolete though nothing referred to them.
Lets(d, e, X) ==
  /\ e.nextFileNum >= d.nextFileNum /\ e.manifestFileNum = d.manifestFileNum
  /\ e.current = d.current /\ DOMAIN e.backings = DOMAIN d.backings
  /\ e.held = d.held /\ (d.readState # 0 => e.readState # 0)
  /\ DOMAIN e.versions \subseteq DOMAIN d.versions
  /\ \A v \in DOMAIN e.versions : e.versions[v].tables = d.versions[v].tables
  /\ DoomedIn(e) \subseteq DoomedIn(d) \cup Refd(d) \cup X
  /\ e.obsoleteManifests \cup LateManifests(e) \subseteq
       d.obsoleteManifests \cup LateManifests(d)

\* From d to e the version set only lets go of references.
Releases(d, e, X) ==
  /\ Lets(d, e, X)
  /\ e.writing = d.writing /\ e.manifest = d.manifest /\ e.disabled = d.disabled
  /\ e.backings = d.backings /\ e.nextFileNum = d.nextFileNum
  /\ d.disabled # 0 => e.late = d.late

LEMMA RefdMembers ==
  ASSUME NEW d
  PROVE  /\ \A x : x \in Refd(d) <=>
              \/ \E v \in DOMAIN d.versions : x \in Backings(d.versions[v].tables)
              \/ x \in DOMAIN d.backings \/ x \in d.held
         /\ \A x : x \in DoomedIn(d) <=>
              x \in d.obsolete \/ \E q \in d.late : x \in q.tables
         /\ \A x : x \in LateManifests(d) <=> \E q \in d.late : x \in q.manifests
<1>1. \A x : x \in Refd(d) <=>
         \/ \E v \in DOMAIN d.versions : x \in Backings(d.versions[v].tables)
         \/ x \in DOMAIN d.backings \/ x \in d.held
  BY DEF Refd
<1>2. \A x : x \in DoomedIn(d) <=> x \in d.obsolete \/ \E q \in d.late : x \in q.tables
  BY DEF DoomedIn, LateTables
<1>3. \A x : x \in LateManifests(d) <=> \E q \in d.late : x \in q.manifests
  BY DEF LateManifests
<1> QED
  BY <1>1, <1>2, <1>3

LEMMA DBTypeFacts ==
  ASSUME NEW d \in DBType
  PROVE  /\ d.nextFileNum \in Nat /\ d.manifestFileNum \in Nat /\ d.current \in Nat
         /\ d.versions \in Maps(Version) /\ DOMAIN d.versions \subseteq Nat
         /\ \A v \in DOMAIN d.versions :
              /\ d.versions[v] \in Version /\ d.versions[v].tables \in TableSets
              /\ d.versions[v].refs \in Int
              /\ Backings(d.versions[v].tables) \subseteq Nat
         /\ d.readStates \in Maps(ReadState) /\ DOMAIN d.readStates \subseteq Nat
         /\ \A r \in DOMAIN d.readStates : d.readStates[r] \in ReadState
         /\ d.backings \in Maps(BackingType) /\ DOMAIN d.backings \subseteq Nat
         /\ \A b \in DOMAIN d.backings : d.backings[b] \in BackingType
         /\ Refd(d) \subseteq Nat /\ DoomedIn(d) \subseteq Nat
         /\ d.obsoleteManifests \cup LateManifests(d) \subseteq Nat
<1>1. /\ d.versions \in Maps(Version) /\ d.readStates \in Maps(ReadState)
      /\ d.backings \in Maps(BackingType) /\ d.nextFileNum \in Nat
      /\ d.manifestFileNum \in Nat /\ d.current \in Nat /\ d.held \subseteq Nat
      /\ d.obsolete \subseteq Nat /\ d.late \subseteq CleanupJob
      /\ d.obsoleteManifests \subseteq Nat
  BY DEF DBType
<1>2. /\ DOMAIN d.versions \subseteq Nat /\ \A v \in DOMAIN d.versions : d.versions[v] \in Version
      /\ DOMAIN d.readStates \subseteq Nat
      /\ \A r \in DOMAIN d.readStates : d.readStates[r] \in ReadState
      /\ DOMAIN d.backings \subseteq Nat
      /\ \A b \in DOMAIN d.backings : d.backings[b] \in BackingType
  BY <1>1, MapFacts
<1>3. \A v \in DOMAIN d.versions : d.versions[v].tables \in TableSets /\ d.versions[v].refs \in Int
  BY <1>2 DEF Version
<1>4. \A v \in DOMAIN d.versions : Backings(d.versions[v].tables) \subseteq Nat
  BY <1>3, TableNumbers
<1>5. Refd(d) \subseteq Nat
  BY <1>1, <1>2, <1>4, RefdMembers
<1>6. LateTables(d) \subseteq Nat /\ LateManifests(d) \subseteq Nat
  BY <1>1 DEF LateTables, LateManifests, CleanupJob
<1> QED
  BY <1>1, <1>2, <1>3, <1>4, <1>5, <1>6 DEF DoomedIn

\* What is unreferenced.
LEMMA UnreferencedFacts ==
  ASSUME NEW d, NEW B
  PROVE  Unreferenced(d, B) = B \ Refd(d)
BY DEF Unreferenced, Refd

LEMMA ReleasesChain ==
  ASSUME NEW d \in DBType, NEW e \in DBType, NEW g \in DBType, NEW X, NEW Y,
         Releases(d, e, X), Releases(e, g, Y)
  PROVE  Releases(d, g, X \cup Y)
<1>1. Refd(e) \subseteq Refd(d)
  BY DEF Releases, Lets, Refd
<1>2. /\ d.nextFileNum \in Nat /\ e.nextFileNum \in Nat /\ g.nextFileNum \in Nat
  BY DBTypeFacts
<1>3. DoomedIn(g) \subseteq DoomedIn(d) \cup Refd(d) \cup (X \cup Y)
  BY <1>1 DEF Releases, Lets
<1>4. \A v \in DOMAIN g.versions :
        v \in DOMAIN d.versions /\ g.versions[v].tables = d.versions[v].tables
  BY DEF Releases, Lets
<1> QED
  BY <1>2, <1>3, <1>4 DEF Releases, Lets

\* A new reference to the current version.
LEMMA RefFacts ==
  ASSUME NEW d, NEW T, NEW Z, DBInv(d, T, Z)
  PROVE  LET e == Ref(d, d.current)
             u == d.versions[d.current]
         IN  /\ DBInv(e, T, Z) /\ Releases(d, e, {})
             /\ e = [d EXCEPT !.versions =
                       [d.versions EXCEPT ![d.current] = [tables |-> u.tables,
                                                          refs |-> u.refs + 1]]]
<1> DEFINE u == d.versions[d.current]
           x == [tables |-> u.tables, refs |-> u.refs + 1]
           V == [d.versions EXCEPT ![d.current] = x]
           e == [d EXCEPT !.versions = V]
<1>1. d \in DBType /\ d.current \in DOMAIN d.versions
  BY DEF DBInv
<1>2. u \in Version /\ d.versions \in Maps(Version)
  BY <1>1, DBTypeFacts
<1>3. [u EXCEPT !.refs = u.refs + 1] = x /\ x \in Version
  BY <1>2 DEF Version
<1>4. Ref(d, d.current) = e
  BY <1>3 DEF Ref
<1>5. V \in Maps(Version) /\ DOMAIN V = DOMAIN d.versions
  BY <1>2, <1>3, MapParts
<1>6. e \in DBType
  BY <1>1, <1>5 DEF DBType
<1>7. \A v \in DOMAIN d.versions : V[v].tables = d.versions[v].tables
  <2>1. d.versions \in [DOMAIN d.versions -> Version]
    BY <1>2, MapFacts
  <2> QED
    BY <2>1, <1>1
<1>8. /\ e.versions = V /\ e.current = d.current /\ e.backings = d.backings
      /\ e.held = d.held /\ e.zombies = d.zombies /\ e.late = d.late
      /\ e.obsolete = d.obsolete /\ e.panic = d.panic /\ e.readState = d.readState
      /\ e.obsoleteManifests = d.obsoleteManifests
      /\ e.nextFileNum = d.nextFileNum /\ e.manifestFileNum = d.manifestFileNum
      /\ e.writing = d.writing /\ e.manifest = d.manifest
      /\ e.disabled = d.disabled
  BY <1>1 DEF DBType
<1> HIDE DEF e, V
<1>9. Refd(e) = Refd(d) /\ Base(e) = Base(d) /\ DoomedIn(e) = DoomedIn(d)
      /\ LateManifests(e) = LateManifests(d)
  <2>1. Backings(Current(e)) = Backings(Current(d))
    BY <1>1, <1>7, <1>8 DEF Current
  <2> QED
    BY <2>1, <1>5, <1>7, <1>8 DEF Refd, Base, DoomedIn, LateTables, LateManifests
<1>10. DBInv(e, T, Z)
  BY <1>5, <1>6, <1>7, <1>8, <1>9 DEF DBInv
<1>11. Releases(d, e, {})
  BY <1>1, <1>5, <1>7, <1>8, <1>9, DBTypeFacts DEF Releases, Lets
<1> QED
  BY <1>4, <1>10, <1>11 DEF e, V

LEMMA RemoveVersionFacts ==
  ASSUME NEW d, NEW T, NEW Z, DBInv(d, T, Z),
         NEW v \in DOMAIN d.versions, v # d.current
  PROVE  LET e == RemoveVersion(d, v)
         IN  /\ DBInv(e, T, Z) /\ Releases(d, e, {})
             /\ e = [d EXCEPT !.versions = Without(d.versions, {v}),
                              !.obsolete = e.obsolete, !.panic = e.panic]
<1> DEFINE V == Without(d.versions, {v})
           c == [d EXCEPT !.versions = V]
           B == Backings(d.versions[v].tables)
           O == Unreferenced(c, B)
           p == d.panic \/ ~(O \subseteq d.zombies)
           e == [d EXCEPT !.versions = V, !.obsolete = d.obsolete \cup O, !.panic = p]
<1>1. d \in DBType /\ d.current \in DOMAIN d.versions
  BY DEF DBInv
<1>2. d.versions \in Maps(Version) /\ B \subseteq Nat
  BY <1>1, DBTypeFacts
<1>3. V \in Maps(Version) /\ DOMAIN V = DOMAIN d.versions \ {v}
      /\ \A w \in DOMAIN V : V[w] = d.versions[w]
  BY <1>2, MapParts DEF Without
<1>4. /\ c.versions = V /\ c.backings = d.backings /\ c.held = d.held
      /\ c.current = d.current
  BY <1>1 DEF DBType
<1>5. O = B \ Refd(c) /\ Base(c) = Base(d)
  <2>1. O = B \ Refd(c)
    BY UnreferencedFacts
  <2> HIDE DEF V, c, O
  <2>2. Base(c) = Base(d)
    BY <1>1, <1>3, <1>4 DEF Base, Current
  <2> QED
    BY <2>1, <2>2
<1>6. RemoveVersion(d, v) = e
  <2>1. RemoveVersion(d, v) = AddObsolete(c, O)
    BY DEF RemoveVersion
  <2>2. c.obsolete = d.obsolete /\ c.panic = d.panic /\ c.zombies = d.zombies
    BY <1>1 DEF DBType
  <2>3. AddObsolete(c, O) = [c EXCEPT !.obsolete = d.obsolete \cup O, !.panic = p]
    BY <2>2 DEF AddObsolete
  <2> QED
    BY <2>1, <2>3
<1>7. Refd(c) \subseteq Refd(d) /\ Base(c) \subseteq Refd(c)
  <2> HIDE DEF V, c
  <2>1. Refd(c) \subseteq Refd(d)
    BY <1>3, <1>4, RefdMembers
  <2>2. Base(c) \subseteq Refd(c)
    BY <1>1, <1>3, <1>4, RefdMembers DEF Base, Current
  <2> QED
    BY <2>1, <2>2
<1>8. O \subseteq d.zombies
  <2> HIDE DEF O, c, V
  <2>1. B \subseteq Backings(T) \cup DOMAIN d.backings \cup d.zombies \cup Z
    BY DEF DBInv
  <2>2. Backings(T) \cup Z \cup DOMAIN d.backings \subseteq Refd(c)
    BY <1>5, <1>7 DEF DBInv, Base
  <2> QED
    BY <2>1, <2>2, <1>5
<1>9. p = FALSE
  <2>1. ~d.panic
    BY DEF DBInv
  <2> QED
    BY <1>8, <2>1
<1>10. O \subseteq Nat /\ O \subseteq Refd(d)
  <2> HIDE DEF O, c, V
  <2> QED
    BY <1>2, <1>5 DEF Refd
<1>11. e \in DBType
  <2> HIDE DEF O, V, p
  <2> QED
    BY <1>1, <1>3, <1>9, <1>10 DEF DBType
<1>12. /\ e.versions = V /\ e.current = d.current /\ e.backings = d.backings
       /\ e.held = d.held /\ e.zombies = d.zombies /\ e.late = d.late
       /\ e.obsolete = d.obsolete \cup O /\ e.panic = p /\ e.readState = d.readState
       /\ e.obsoleteManifests = d.obsoleteManifests
       /\ e.nextFileNum = d.nextFileNum /\ e.manifestFileNum = d.manifestFileNum
       /\ e.writing = d.writing /\ e.manifest = d.manifest
       /\ e.disabled = d.disabled
  <2> HIDE DEF O, V, p
  <2> QED
    BY <1>1 DEF DBType
<1> HIDE DEF e, V, O, p
<1>13. /\ Refd(e) = Refd(c) /\ Base(e) = Base(d) /\ LateManifests(e) = LateManifests(d)
       /\ DoomedIn(e) = DoomedIn(d) \cup O
  <2> HIDE DEF c
  <2> QED
    BY <1>4, <1>5, <1>12 DEF Refd, Base, Current, DoomedIn, LateTables, LateManifests
<1>14. DBInv(e, T, Z)
  <2>1. ~e.panic
    BY <1>9, <1>12
  <2>2. e.current \in DOMAIN e.versions
    BY <1>1, <1>3, <1>12
  <2>3. Refd(e) \cap DoomedIn(e) = {}
    <3> HIDE DEF c
    <3> QED
      BY <1>5, <1>7, <1>13 DEF DBInv
  <2>4. \A w \in DOMAIN e.versions :
          Backings(e.versions[w].tables) \subseteq
            Backings(T) \cup DOMAIN e.backings \cup e.zombies \cup Z
    BY <1>3, <1>12 DEF DBInv
  <2>5. \A q \in e.late : q.tables \cup q.manifests # {}
    BY <1>12 DEF DBInv
  <2>6. Backings(T) \cup Z \subseteq Base(e)
    BY <1>13 DEF DBInv
  <2> QED
    BY <1>11, <2>1, <2>2, <2>3, <2>4, <2>5, <2>6 DEF DBInv
<1>15. Releases(d, e, {})
  <2>1. d.nextFileNum \in Nat
    BY <1>1, DBTypeFacts
  <2> QED
    BY <2>1, <1>3, <1>10, <1>12, <1>13 DEF Releases, Lets
<1>16. RemoveVersion(d, v) = [d EXCEPT !.versions = V, !.obsolete = e.obsolete, !.panic = e.panic]
  BY <1>6, <1>12 DEF e
<1> QED
  BY <1>6, <1>14, <1>15, <1>16 DEF V

LEMMA UnrefFacts ==
  ASSUME NEW d, NEW T, NEW Z, DBInv(d, T, Z), NEW v \in DOMAIN d.versions,
         v = d.current => d.versions[v].refs # 1
  PROVE  LET e == UnrefLocked(d, v)
         IN  /\ DBInv(e, T, Z) /\ Releases(d, e, {})
             /\ e.readStates = d.readStates /\ e.readState = d.readState
             /\ e.zombies = d.zombies /\ e.late = d.late
             /\ e.obsoleteManifests = d.obsoleteManifests
             /\ DOMAIN e.versions = IF d.versions[v].refs = 1 THEN DOMAIN d.versions \ {v}
                                    ELSE DOMAIN d.versions
             /\ \A w \in DOMAIN e.versions :
                  e.versions[w].refs = d.versions[w].refs - (IF w = v THEN 1 ELSE 0)
<1> DEFINE e == UnrefLocked(d, v)
           u == d.versions[v]
           x == [tables |-> u.tables, refs |-> u.refs - 1]
           V == [d.versions EXCEPT ![v] = x]
<1>1. d \in DBType /\ d.current \in DOMAIN d.versions
  BY DEF DBInv
<1>2. u \in Version /\ d.versions \in Maps(Version)
      /\ d.versions \in [DOMAIN d.versions -> Version]
  BY <1>1, DBTypeFacts, MapFacts
<1>3. CASE u.refs = 1
  <2> DEFINE o == e.obsolete
             q == e.panic
             R == Without(d.versions, {v})
  <2>1. e = RemoveVersion(d, v)
    BY <1>3 DEF UnrefLocked
  <2>a. v # d.current
    BY <1>3
  <2> HIDE DEF e
  <2>2. DBInv(e, T, Z) /\ Releases(d, e, {}) /\ e = [d EXCEPT !.versions = R, !.obsolete = o, !.panic = q]
    BY <2>a, <2>1, RemoveVersionFacts
  <2> HIDE DEF o, q, R
  <2>3. /\ e.readStates = d.readStates /\ e.readState = d.readState
        /\ e.zombies = d.zombies /\ e.late = d.late
        /\ e.obsoleteManifests = d.obsoleteManifests /\ e.versions = R
    BY <1>1, <2>2 DEF DBType
  <2>4. DOMAIN R = DOMAIN d.versions \ {v} /\ \A w \in DOMAIN R : R[w] = d.versions[w]
    BY DEF R, Without
  <2>5. \A w \in DOMAIN R : R[w].refs \in Int
    BY <1>2, <2>4 DEF Version
  <2> QED
    BY <1>3, <2>2, <2>3, <2>4, <2>5 DEF e
<1>4. CASE u.refs # 1
  <2>1. [u EXCEPT !.refs = u.refs - 1] = x /\ x \in Version
    BY <1>2 DEF Version
  <2>2. e = [d EXCEPT !.versions = V]
    BY <1>4, <2>1 DEF UnrefLocked
  <2>3. V \in Maps(Version) /\ DOMAIN V = DOMAIN d.versions
    BY <1>2, <2>1, MapParts
  <2>4. \A w \in DOMAIN d.versions : /\ V[w].tables = d.versions[w].tables
                                     /\ V[w].refs = d.versions[w].refs - (IF w = v THEN 1 ELSE 0)
    <3>1. \A w \in DOMAIN d.versions : d.versions[w].refs \in Int
      BY <1>2 DEF Version
    <3> QED
      BY <1>2, <3>1
  <2> HIDE DEF V, e
  <2>5. e \in DBType
    BY <1>1, <2>2, <2>3 DEF DBType
  <2>6. /\ e.versions = V /\ e.current = d.current /\ e.backings = d.backings
        /\ e.held = d.held /\ e.zombies = d.zombies /\ e.late = d.late
        /\ e.obsolete = d.obsolete /\ e.panic = d.panic /\ e.readState = d.readState
        /\ e.obsoleteManifests = d.obsoleteManifests
        /\ e.nextFileNum = d.nextFileNum /\ e.manifestFileNum = d.manifestFileNum
        /\ e.writing = d.writing /\ e.manifest = d.manifest
        /\ e.disabled = d.disabled /\ e.readStates = d.readStates
    BY <1>1, <2>2 DEF DBType
  <2>7. Refd(e) = Refd(d) /\ Base(e) = Base(d) /\ DoomedIn(e) = DoomedIn(d)
        /\ LateManifests(e) = LateManifests(d)
    <3>1. Backings(Current(e)) = Backings(Current(d))
      BY <1>1, <2>4, <2>6 DEF Current
    <3> QED
      BY <3>1, <2>3, <2>4, <2>6 DEF Refd, Base, DoomedIn, LateTables, LateManifests
  <2>8. DBInv(e, T, Z)
    BY <2>3, <2>4, <2>5, <2>6, <2>7 DEF DBInv
  <2>9. Releases(d, e, {})
    BY <1>1, <2>3, <2>4, <2>6, <2>7, DBTypeFacts DEF Releases, Lets
  <2> QED
    BY <1>4, <2>3, <2>4, <2>6, <2>8, <2>9 DEF e
<1> QED
  BY <1>3, <1>4

\* Other read states.
SetReadStates(d, R, s) == [d EXCEPT !.readStates = R, !.readState = s]

LEMMA ReadStatesFacts ==
  ASSUME NEW d, NEW T, NEW Z, DBInv(d, T, Z), NEW R \in Maps(ReadState), NEW s \in Nat,
         d.readState # 0 => s # 0
  PROVE  LET e == SetReadStates(d, R, s)
         IN  /\ DBInv(e, T, Z) /\ Releases(d, e, {})
             /\ e.readStates = R /\ e.readState = s /\ e.versions = d.versions
             /\ e.current = d.current
<1> DEFINE e == SetReadStates(d, R, s)
<1>1. d \in DBType
  BY DEF DBInv
<1>2. e \in DBType
  BY <1>1 DEF DBType, SetReadStates
<1>3. /\ e.versions = d.versions /\ e.current = d.current /\ e.backings = d.backings
      /\ e.held = d.held /\ e.zombies = d.zombies /\ e.late = d.late
      /\ e.obsolete = d.obsolete /\ e.panic = d.panic /\ e.readState = s
      /\ e.obsoleteManifests = d.obsoleteManifests
      /\ e.nextFileNum = d.nextFileNum /\ e.manifestFileNum = d.manifestFileNum
      /\ e.writing = d.writing /\ e.manifest = d.manifest
      /\ e.disabled = d.disabled /\ e.readStates = R
  BY <1>1 DEF DBType, SetReadStates
<1> HIDE DEF e
<1>4. Refd(e) = Refd(d) /\ Base(e) = Base(d) /\ DoomedIn(e) = DoomedIn(d)
      /\ LateManifests(e) = LateManifests(d)
  BY <1>3 DEF Refd, Base, Current, DoomedIn, LateTables, LateManifests
<1>5. DBInv(e, T, Z)
  BY <1>2, <1>3, <1>4 DEF DBInv
<1>6. Releases(d, e, {})
  BY <1>1, <1>3, <1>4, DBTypeFacts DEF Releases, Lets
<1> QED
  BY <1>3, <1>5, <1>6 DEF e

\* The references are finitely many.
LEMMA HoldersFinite ==
  ASSUME NEW d \in DBType, NEW js \in Seq(JobType), NEW v,
         DOMAIN d.readStates \subseteq 1 .. d.readState
  PROVE  /\ IsFiniteSet(ReadersOf(d, v)) /\ Cardinality(ReadersOf(d, v)) \in Nat
         /\ IsFiniteSet(JobsOf(js, v)) /\ Cardinality(JobsOf(js, v)) \in Nat
<1>1. d.readState \in Nat
  BY DEF DBType
<1>2. IsFiniteSet(1 .. d.readState) /\ IsFiniteSet(1 .. Len(js))
  BY <1>1, FS_Interval
<1>3. ReadersOf(d, v) \subseteq 1 .. d.readState /\ JobsOf(js, v) \subseteq 1 .. Len(js)
  BY DEF ReadersOf, JobsOf
<1>4. IsFiniteSet(ReadersOf(d, v)) /\ IsFiniteSet(JobsOf(js, v))
  BY <1>2, <1>3, FS_Subset
<1> QED
  BY <1>4, FS_CardinalityType

\* The new read state of updateReadStateLocked.
LEMMA NewReadState ==
  ASSUME NEW d, NEW T, NEW Z, NEW js \in Seq(JobType), DBInv(d, T, Z), RefsInv(d, js)
  PROVE  LET r == d.readState + 1
             R == With(d.readStates, r, [version |-> d.current, refs |-> 1])
             e == [Ref(d, d.current) EXCEPT !.readStates = R, !.readState = r]
         IN  /\ DBInv(e, T, Z) /\ Releases(d, e, {}) /\ RefsInv(e, js)
             /\ e.readStates = R /\ e.readState = r /\ e.current = d.current
             /\ R \in Maps(ReadState) /\ DOMAIN R = DOMAIN d.readStates \cup {r}
             /\ \A q \in DOMAIN d.readStates : R[q] = d.readStates[q]
             /\ R[r] = [version |-> d.current, refs |-> 1]
             /\ d.readState \in Nat /\ r \notin DOMAIN d.readStates
             /\ DOMAIN e.versions = DOMAIN d.versions
             /\ \A v \in DOMAIN d.versions :
                  e.versions[v].refs = d.versions[v].refs + (IF v = d.current THEN 1 ELSE 0)
<1> DEFINE r == d.readState + 1
           x == [version |-> d.current, refs |-> 1]
           R == With(d.readStates, r, x)
           c == Ref(d, d.current)
           u == d.versions[d.current]
           w == [tables |-> u.tables, refs |-> u.refs + 1]
           V == [d.versions EXCEPT ![d.current] = w]
           e == [c EXCEPT !.readStates = R, !.readState = r]
<1>1. d \in DBType /\ d.current \in DOMAIN d.versions /\ d.current \in Nat
  BY DBTypeFacts DEF DBInv
<1>2. d.readStates \in Maps(ReadState) /\ d.readState \in Nat /\ x \in ReadState
      /\ d.versions \in Maps(Version)
  BY <1>1 DEF DBType, ReadState
<1>3. R \in Maps(ReadState) /\ DOMAIN R = DOMAIN d.readStates \cup {r} /\ R[r] = x
      /\ \A q \in DOMAIN d.readStates \ {r} : R[q] = d.readStates[q]
  <2>1. R \in Maps(ReadState)
    BY <1>2, MapParts
  <2> HIDE DEF x, r
  <2>2. DOMAIN R = DOMAIN d.readStates \cup {r} /\ R[r] = x
    BY DEF With
  <2>3. \A q \in DOMAIN d.readStates \ {r} : R[q] = d.readStates[q]
    BY DEF With
  <2> QED
    BY <2>1, <2>2, <2>3
<1>4. r \notin DOMAIN d.readStates /\ DOMAIN d.readStates \subseteq 1 .. d.readState
  BY <1>2 DEF RefsInv
<1>5. DBInv(c, T, Z) /\ Releases(d, c, {}) /\ c = [d EXCEPT !.versions = V]
  BY RefFacts
<1> HIDE DEF R, c, V
<1>6. c.versions = V /\ c.current = d.current /\ c.readState = d.readState /\ c \in DBType
  BY <1>1, <1>5 DEF DBType, DBInv
<1>7. /\ DBInv(e, T, Z) /\ Releases(c, e, {}) /\ e.readStates = R /\ e.readState = r
      /\ e.versions = V /\ e.current = d.current
  <2>1. r \in Nat /\ (c.readState # 0 => r # 0)
    BY <1>2
  <2>2. DBInv(c, T, Z) /\ R \in Maps(ReadState)
    BY <1>3, <1>5
  <2>3. /\ DBInv(e, T, Z) /\ Releases(c, e, {}) /\ e.readStates = R /\ e.readState = r
        /\ e.versions = c.versions /\ e.current = c.current
    <3>1. e = SetReadStates(c, R, r)
      BY DEF SetReadStates
    <3> HIDE DEF r, e
    <3> QED
      BY <2>1, <2>2, <3>1, ReadStatesFacts
  <2> HIDE DEF e
  <2> QED
    BY <2>3, <1>6
<1>8. Releases(d, e, {})
  <2>1. e \in DBType
    BY <1>7 DEF DBInv
  <2>2. Releases(d, e, {} \cup {})
    BY <2>1, <1>1, <1>5, <1>6, <1>7, ReleasesChain
  <2> QED
    BY <2>2
<1>9. /\ DOMAIN V = DOMAIN d.versions
      /\ \A v \in DOMAIN d.versions :
           /\ V[v].refs = d.versions[v].refs + (IF v = d.current THEN 1 ELSE 0)
           /\ d.versions[v].refs \in Int
  <2>1. \A v \in DOMAIN d.versions : d.versions[v].refs \in Int
    BY <1>1, DBTypeFacts
  <2> QED
    BY <1>1, <1>2, <2>1, MapFacts DEF V
<1> HIDE DEF e
<1>10. RefsInv(e, js)
  <2>1. ASSUME NEW v \in DOMAIN d.versions
        PROVE V[v].refs = (IF v = e.current THEN 1 ELSE 0)
                            + Cardinality(ReadersOf(e, v)) + Cardinality(JobsOf(js, v))
    <3> DEFINE S == ReadersOf(d, v)
    <3>1. ReadersOf(e, v) = IF v = d.current THEN S \cup {r} ELSE S
      BY <1>3, <1>4, <1>7 DEF ReadersOf
    <3>2. r \notin S
      BY <1>4 DEF ReadersOf
    <3>3. IsFiniteSet(S) /\ Cardinality(JobsOf(js, v)) \in Nat
      BY <1>1, <1>4, HoldersFinite
    <3>4. d.versions[v].refs = (IF v = d.current THEN 1 ELSE 0)
                                 + Cardinality(S) + Cardinality(JobsOf(js, v))
      BY DEF RefsInv
    <3> HIDE DEF S
    <3>5. Cardinality(S) \in Nat /\ Cardinality(S \cup {r}) = Cardinality(S) + 1
      BY <3>2, <3>3, CardParts
    <3> QED
      BY <1>7, <1>9, <3>1, <3>3, <3>4, <3>5
  <2>2. DOMAIN R \subseteq 1 .. r
    BY <1>2, <1>3, <1>4
  <2>3. \A q \in DOMAIN R : R[q].version \in DOMAIN d.versions
    BY <1>1, <1>3, <1>4 DEF RefsInv
  <2> QED
    BY <1>7, <1>9, <2>1, <2>2, <2>3 DEF RefsInv
<1> QED
  BY <1>2, <1>3, <1>4, <1>7, <1>8, <1>9, <1>10 DEF e, R, c

LEMMA UpdateReadStateFacts ==
  ASSUME NEW d, NEW T, NEW Z, NEW js \in Seq(JobType), NEW rd \in ReaderType,
         DBInv(d, T, Z), RefsInv(d, js), ReadersInv(d, rd)
  PROVE  LET e == UpdateReadState(d)
         IN  /\ DBInv(e, T, Z) /\ Releases(d, e, {}) /\ RefsInv(e, js)
             /\ ReadersInv(e, rd) /\ e.readState # 0
<1> DEFINE r == d.readState + 1
           s == d.readState
           x == [version |-> d.current, refs |-> 1]
           R == With(d.readStates, r, x)
           e == [Ref(d, d.current) EXCEPT !.readStates = R, !.readState = r]
           y == d.readStates[s]
           g == UpdateReadState(d)
<1>1. d \in DBType /\ d.current \in DOMAIN d.versions
  BY DEF DBInv
<1>2. /\ DBInv(e, T, Z) /\ Releases(d, e, {}) /\ RefsInv(e, js)
      /\ e.readStates = R /\ e.readState = r /\ e.current = d.current
      /\ R \in Maps(ReadState) /\ DOMAIN R = DOMAIN d.readStates \cup {r}
      /\ \A q \in DOMAIN d.readStates : R[q] = d.readStates[q]
      /\ R[r] = x /\ s \in Nat /\ r \notin DOMAIN d.readStates
      /\ DOMAIN e.versions = DOMAIN d.versions
      /\ \A v \in DOMAIN d.versions :
           e.versions[v].refs = d.versions[v].refs + (IF v = d.current THEN 1 ELSE 0)
  BY NewReadState
<1>3. e \in DBType
  BY <1>2 DEF DBInv
<1>4. g = IF s = 0 THEN e
          ELSE IF R[s].refs > 1 THEN [e EXCEPT !.readStates[s].refs = R[s].refs - 1]
          ELSE UnrefLocked([e EXCEPT !.readStates = Without(R, {s})], y.version)
  <2>0. Ref(d, d.current).readStates = d.readStates
    <3> DEFINE V == [d.versions EXCEPT ![d.current] =
                       [tables |-> d.versions[d.current].tables,
                        refs |-> d.versions[d.current].refs + 1]]
    <3>1. Ref(d, d.current) = [d EXCEPT !.versions = V]
      BY RefFacts
    <3> HIDE DEF V
    <3> QED
      BY <1>1, <3>1 DEF DBType
  <2> DEFINE c == Ref(d, d.current)
             f == [c EXCEPT !.readStates = With(@, r, x), !.readState = r]
  <2> HIDE DEF R
  <2>1. e.readStates = R /\ f = e
    BY <1>2, <2>0 DEF R
  <2>3. g = IF s = 0 THEN f
            ELSE IF f.readStates[s].refs > 1 THEN [f EXCEPT !.readStates[s].refs = @ - 1]
            ELSE UnrefLocked([f EXCEPT !.readStates = Without(@, {s})], y.version)
    BY DEF UpdateReadState
  <2> HIDE DEF e, f, g
  <2>2. g = IF s = 0 THEN e
            ELSE IF e.readStates[s].refs > 1 THEN [e EXCEPT !.readStates[s].refs = @ - 1]
            ELSE UnrefLocked([e EXCEPT !.readStates = Without(@, {s})], y.version)
    BY <2>1, <2>3
  <2> QED
    BY <2>1, <2>2
<1>5. /\ \A q \in DOMAIN d.readStates : d.readStates[q] \in ReadState
      /\ \A v \in DOMAIN d.versions : d.versions[v].refs \in Int
      /\ DOMAIN d.readStates \subseteq Nat /\ d.current \in Nat
  BY <1>1, DBTypeFacts
<1>6. \A v \in DOMAIN e.versions : v # d.current => e.versions[v].refs = d.versions[v].refs
  BY <1>2, <1>5
\* The current version has the reference of the version set.
<1>7. e.versions[d.current].refs >= 2 /\ d.versions[d.current].refs >= 1
  <2>1. DOMAIN d.readStates \subseteq 1 .. d.readState
    BY DEF RefsInv
  <2>2. Cardinality(ReadersOf(d, d.current)) \in Nat /\ Cardinality(JobsOf(js, d.current)) \in Nat
    BY <1>1, <2>1, HoldersFinite
  <2>3. d.versions[d.current].refs =
          1 + Cardinality(ReadersOf(d, d.current)) + Cardinality(JobsOf(js, d.current))
    BY <1>1 DEF RefsInv
  <2> QED
    BY <1>1, <1>2, <2>2, <2>3
<1>8. \A v \in DOMAIN e.versions : e.versions[v].refs = 0 <=> (rd.pc = "remove" /\ rd.id = v)
  <2>1. ~(rd.pc = "remove" /\ rd.id = d.current)
    BY <1>1, <1>7 DEF ReadersInv
  <2> QED
    BY <1>2, <1>6, <1>7, <2>1 DEF ReadersInv
<1>9. rd.pc = "reading" => rd.id \in DOMAIN d.readStates
  BY DEF ReadersInv
<1>10. CASE s = 0
  <2>1. DOMAIN d.readStates = {}
    BY <1>10 DEF RefsInv
  <2>2. ReadersInv(e, rd)
    <3> HIDE DEF R, e
    <3>1. \A q \in DOMAIN R : R[q].refs = (IF q = r THEN 1 ELSE 0)
                                + (IF rd.pc = "reading" /\ rd.id = q THEN 1 ELSE 0)
      BY <1>2, <1>9, <2>1
    <3>2. \A q \in DOMAIN R : R[q].refs # 0
      BY <1>2, <2>1
    <3> QED
      BY <1>2, <1>8, <1>9, <2>1, <3>1, <3>2 DEF ReadersInv
  <2> HIDE DEF e, g, R
  <2> QED
    BY <1>2, <1>4, <1>10, <2>2 DEF g
<1>11. CASE s # 0
  <2>1. s \in DOMAIN d.readStates /\ y \in ReadState /\ R[s] = y
        /\ y.refs = 1 + (IF rd.pc = "reading" /\ rd.id = s THEN 1 ELSE 0)
        /\ y.version \in DOMAIN d.versions
    <3>1. s \in DOMAIN d.readStates
      BY <1>11 DEF ReadersInv
    <3>2. y \in ReadState /\ R[s] = y
      BY <3>1, <1>2, <1>5
    <3> QED
      BY <3>1, <3>2 DEF ReadersInv, RefsInv
  <2>2. \A q \in DOMAIN d.readStates \ {s} :
          d.readStates[q].refs = (IF rd.pc = "reading" /\ rd.id = q THEN 1 ELSE 0)
          /\ d.readStates[q].refs # 0
    BY DEF ReadersInv
  <2>3. CASE y.refs > 1
    <3> DEFINE z == [version |-> y.version, refs |-> y.refs - 1]
               P == [R EXCEPT ![s] = z]
               h == [e EXCEPT !.readStates = P, !.readState = r]
    <3>1. z \in ReadState /\ P \in Maps(ReadState) /\ DOMAIN P = DOMAIN R /\ P[s] = z
          /\ \A q \in DOMAIN R \ {s} : P[q] = R[q]
      <4>1. z \in ReadState /\ s \in DOMAIN R
        BY <1>2, <2>1 DEF ReadState
      <4> HIDE DEF z, R, e
      <4> QED
        BY <4>1, <1>2, MapParts, MapFacts
    <3>2. g = h
      <4>1. [R[s] EXCEPT !.refs = R[s].refs - 1] = z
        BY <2>1 DEF ReadState
      <4> HIDE DEF R, z
      <4>2. e.readStates = R /\ e.readState = r /\ s # r
        BY <1>2
      <4>3. [e EXCEPT !.readStates[s].refs = R[s].refs - 1] = h
        <5> HIDE DEF e
        <5> QED
          BY <4>1, <4>2, <1>3 DEF DBType
      <4> HIDE DEF e, h, g
      <4> QED
        BY <1>4, <1>11, <2>1, <2>3, <4>3
    <3> HIDE DEF e, R, P, g
    <3>3. /\ DBInv(h, T, Z) /\ Releases(e, h, {}) /\ h.readStates = P /\ h.readState = r
          /\ h.versions = e.versions /\ h.current = d.current
      <4>1. r \in Nat /\ (e.readState # 0 => r # 0) /\ e.current = d.current
        BY <1>2
      <4>2. DBInv(e, T, Z) /\ P \in Maps(ReadState)
        BY <1>2, <3>1
      <4>3. /\ DBInv(h, T, Z) /\ Releases(e, h, {}) /\ h.readStates = P /\ h.readState = r
            /\ h.versions = e.versions /\ h.current = e.current
        <5>1. h = SetReadStates(e, P, r)
          BY DEF SetReadStates
        <5> HIDE DEF r, h
        <5> QED
          BY <4>1, <4>2, <5>1, ReadStatesFacts
      <4> HIDE DEF h
      <4> QED
        BY <4>1, <4>3
    <3> HIDE DEF h
    <3>4. RefsInv(h, js)
      <4>1. \A v : ReadersOf(h, v) = ReadersOf(e, v)
        BY <1>2, <2>1, <3>1, <3>3 DEF ReadersOf
      <4>2. \A q \in DOMAIN P : P[q].version = R[q].version
        BY <2>1, <3>1
      <4> QED
        BY <1>2, <3>1, <3>3, <4>1, <4>2 DEF RefsInv
    <3>5. ReadersInv(h, rd)
      <4>1. \A q \in DOMAIN P : /\ P[q].refs = (IF q = r THEN 1 ELSE 0)
                                    + (IF rd.pc = "reading" /\ rd.id = q THEN 1 ELSE 0)
                                /\ P[q].refs # 0
        BY <1>2, <1>9, <2>1, <2>2, <2>3, <3>1
      <4> QED
        BY <1>2, <1>8, <1>9, <3>1, <3>3, <4>1 DEF ReadersInv
    <3>6. Releases(d, h, {})
      <4>1. h \in DBType
        BY <3>3 DEF DBInv
      <4>2. Releases(d, h, {} \cup {})
        BY <4>1, <1>1, <1>2, <1>3, <3>3, ReleasesChain
      <4> QED
        BY <4>2
    <3> QED
      BY <1>2, <3>2, <3>3, <3>4, <3>5, <3>6 DEF g
  <2>4. CASE ~(y.refs > 1)
    <3> DEFINE v == y.version
               P == Without(R, {s})
               h == [e EXCEPT !.readStates = P, !.readState = r]
    <3>1. P \in Maps(ReadState) /\ DOMAIN P = DOMAIN R \ {s}
          /\ \A q \in DOMAIN P : P[q] = R[q]
      <4> HIDE DEF R, e
      <4> QED
        BY <1>2, MapParts DEF Without
    <3>2. g = UnrefLocked(h, v)
      <4> HIDE DEF R, P
      <4>1. [e EXCEPT !.readStates = P] = h
        <5>1. e.readState = r
          BY <1>2
        <5> HIDE DEF e
        <5> QED
          BY <5>1, <1>3 DEF DBType
      <4> HIDE DEF e, h, g
      <4> QED
        BY <1>4, <1>11, <2>1, <2>4, <4>1 DEF P
    <3> HIDE DEF e, R, P, g
    <3>3. /\ DBInv(h, T, Z) /\ Releases(e, h, {}) /\ h.readStates = P /\ h.readState = r
          /\ h.versions = e.versions /\ h.current = d.current
      <4>1. r \in Nat /\ (e.readState # 0 => r # 0) /\ e.current = d.current
        BY <1>2
      <4>2. DBInv(e, T, Z) /\ P \in Maps(ReadState)
        BY <1>2, <3>1
      <4>3. /\ DBInv(h, T, Z) /\ Releases(e, h, {}) /\ h.readStates = P /\ h.readState = r
            /\ h.versions = e.versions /\ h.current = e.current
        <5>1. h = SetReadStates(e, P, r)
          BY DEF SetReadStates
        <5> HIDE DEF r, h
        <5> QED
          BY <4>1, <4>2, <5>1, ReadStatesFacts
      <4> HIDE DEF h
      <4> QED
        BY <4>1, <4>3
    <3> HIDE DEF h
    <3>4. h \in DBType /\ v \in DOMAIN h.versions
      BY <1>2, <2>1, <3>3 DEF DBInv
    <3> DEFINE k == UnrefLocked(h, v)
    <3>5. /\ DBInv(k, T, Z) /\ Releases(h, k, {})
          /\ k.readStates = P /\ k.readState = r
          /\ DOMAIN k.versions = IF h.versions[v].refs = 1 THEN DOMAIN h.versions \ {v}
                                 ELSE DOMAIN h.versions
          /\ \A w \in DOMAIN k.versions :
               k.versions[w].refs = h.versions[w].refs - (IF w = v THEN 1 ELSE 0)
      <4>1. v = h.current => h.versions[v].refs # 1
        BY <1>7, <3>3
      <4> QED
        BY <4>1, <3>3, <3>4, UnrefFacts
    <3> HIDE DEF k
    <3>6. k.current = d.current /\ k \in DBType /\ DOMAIN k.versions \subseteq DOMAIN d.versions
      BY <1>2, <3>3, <3>5 DEF Releases, Lets, DBInv
    <3>7. ASSUME NEW w \in DOMAIN e.versions
          PROVE  /\ e.versions[w].refs =
                      (IF w = d.current THEN 1 ELSE 0)
                        + Cardinality(ReadersOf(e, w)) + Cardinality(JobsOf(js, w))
                 /\ Cardinality(ReadersOf(k, w)) =
                      Cardinality(ReadersOf(e, w)) - (IF w = v THEN 1 ELSE 0)
                 /\ Cardinality(ReadersOf(e, w)) \in Nat
                 /\ Cardinality(JobsOf(js, w)) \in Nat
                 /\ w = v => Cardinality(ReadersOf(e, w)) # 0
      <4> DEFINE S == ReadersOf(e, w)
      <4>1. DOMAIN e.readStates \subseteq 1 .. e.readState
        BY <1>2 DEF RefsInv
      <4>2. IsFiniteSet(S) /\ Cardinality(S) \in Nat /\ Cardinality(JobsOf(js, w)) \in Nat
        BY <1>3, <4>1, HoldersFinite
      <4>3. ReadersOf(k, w) = IF w = v THEN S \ {s} ELSE S
        BY <1>2, <2>1, <3>1, <3>5 DEF ReadersOf
      <4>4. w = v => s \in S
        BY <1>2, <2>1 DEF ReadersOf
      <4> HIDE DEF S
      <4>5. w = v => Cardinality(S \ {s}) = Cardinality(S) - 1 /\ Cardinality(S) # 0
        BY <4>2, <4>4, CardParts
      <4>6. Cardinality(ReadersOf(k, w)) = Cardinality(S) - (IF w = v THEN 1 ELSE 0)
        BY <4>2, <4>3, <4>5
      <4>7. e.versions[w].refs = (IF w = d.current THEN 1 ELSE 0)
                                   + Cardinality(S) + Cardinality(JobsOf(js, w))
        BY <1>2 DEF RefsInv, S
      <4> QED
        BY <4>2, <4>5, <4>6, <4>7 DEF S
    <3>8. RefsInv(k, js)
      <4>1. ASSUME NEW w \in DOMAIN k.versions
            PROVE k.versions[w].refs = (IF w = k.current THEN 1 ELSE 0)
                    + Cardinality(ReadersOf(k, w)) + Cardinality(JobsOf(js, w))
        <5>1. w \in DOMAIN e.versions /\ k.versions[w].refs =
                e.versions[w].refs - (IF w = v THEN 1 ELSE 0)
          BY <1>2, <3>3, <3>5, <3>6
        <5>2. /\ e.versions[w].refs = (IF w = d.current THEN 1 ELSE 0)
                   + Cardinality(ReadersOf(e, w)) + Cardinality(JobsOf(js, w))
              /\ Cardinality(ReadersOf(k, w)) =
                   Cardinality(ReadersOf(e, w)) - (IF w = v THEN 1 ELSE 0)
              /\ Cardinality(ReadersOf(e, w)) \in Nat /\ Cardinality(JobsOf(js, w)) \in Nat
          BY <5>1, <3>7
        <5> QED
          BY <5>1, <5>2, <3>6
      \* The version that goes has no other holder.
      <4>2. h.versions[v].refs = 1 =>
              /\ v # d.current /\ JobsOf(js, v) = {}
              /\ \A q \in DOMAIN R : R[q].version = v => q = s
        <5> SUFFICES ASSUME h.versions[v].refs = 1
                     PROVE /\ v # d.current /\ JobsOf(js, v) = {}
                           /\ \A q \in DOMAIN R : R[q].version = v => q = s
          OBVIOUS
        <5>1. v \in DOMAIN e.versions /\ e.versions[v].refs = 1
          BY <3>3, <3>4
        <5>2. v # d.current
          BY <1>7, <5>1
        <5>3. Cardinality(ReadersOf(k, v)) = 0 /\ Cardinality(JobsOf(js, v)) = 0
          BY <3>7, <5>1, <5>2
        <5>4. DOMAIN k.readStates \subseteq 1 .. k.readState
          BY <1>2, <3>1, <3>5 DEF RefsInv
        <5>5. ReadersOf(k, v) = {} /\ JobsOf(js, v) = {}
          BY <5>3, <5>4, <3>6, HoldersFinite, FS_EmptySet
        <5>6. \A q \in DOMAIN P : P[q].version # v
          BY <5>5, <3>5 DEF ReadersOf
        <5> QED
          BY <5>2, <5>5, <5>6, <3>1
      <4>3. \A q \in DOMAIN P : P[q].version \in DOMAIN k.versions
        BY <1>2, <3>1, <3>3, <3>5, <4>2 DEF RefsInv
      <4>4. \A j \in DOMAIN js : js[j].version \in DOMAIN k.versions \cup {0}
        BY <1>2, <3>3, <3>5, <4>2 DEF RefsInv, JobsOf
      <4>5. DOMAIN k.versions \subseteq 1 .. k.current /\ DOMAIN P \subseteq 1 .. r
        BY <1>2, <3>1, <3>6 DEF RefsInv
      <4> QED
        BY <3>5, <4>1, <4>3, <4>4, <4>5 DEF RefsInv
    <3>9. ReadersInv(k, rd)
      <4>1. \A q \in DOMAIN P : /\ P[q].refs = (IF q = r THEN 1 ELSE 0)
                                    + (IF rd.pc = "reading" /\ rd.id = q THEN 1 ELSE 0)
                                /\ P[q].refs # 0
        BY <1>2, <1>9, <2>2, <3>1
      <4>2. ~(rd.pc = "reading" /\ rd.id = s)
        BY <2>1, <2>4
      <4>3. rd.pc = "reading" => rd.id \in DOMAIN P
        BY <1>2, <1>9, <3>1, <4>2
      <4>4. e.versions[v].refs \in Int /\ e.versions[v].refs > 0
        <5>1. v \in DOMAIN e.versions
          BY <3>3, <3>4
        <5> QED
          BY <5>1, <3>7
      <4>5. ~(rd.pc = "remove" /\ rd.id = v)
        BY <3>3, <3>4, <4>4, <1>8
      <4>6. \A w \in DOMAIN k.versions : e.versions[w].refs \in Int
        BY <1>3, <1>2, <3>6, DBTypeFacts
      <4>7. \A w \in DOMAIN k.versions :
              k.versions[w].refs = 0 <=> (rd.pc = "remove" /\ rd.id = w)
        <5> SUFFICES ASSUME NEW w \in DOMAIN k.versions
                     PROVE k.versions[w].refs = 0 <=> (rd.pc = "remove" /\ rd.id = w)
          OBVIOUS
        <5>1. k.versions[w].refs = e.versions[w].refs - (IF w = v THEN 1 ELSE 0)
          BY <3>3, <3>5
        <5>2. w \in DOMAIN e.versions /\ e.versions[w].refs \in Int
          BY <1>2, <3>6, <4>6
        <5>3. CASE w = v
          <6>1. h.versions[v].refs # 1
            BY <3>5, <5>3
          <6>2. e.versions[v].refs # 1
            BY <6>1, <3>3
          <6> QED
            BY <6>2, <5>1, <5>2, <5>3, <4>4, <4>5
        <5>4. CASE w # v
          BY <5>1, <5>2, <5>4, <1>8
        <5> QED
          BY <5>3, <5>4
      <4>8. rd.pc = "remove" => rd.id \in DOMAIN k.versions
        <5>1. rd.pc = "remove" => rd.id \in DOMAIN e.versions
          BY <1>2 DEF ReadersInv
        <5> QED
          BY <5>1, <4>5, <3>3, <3>5
      <4>9. r # 0 /\ r \in DOMAIN P
        BY <1>2, <3>1
      <4> QED
        <5>1. k.readStates = P /\ k.readState = r
          BY <3>5
        <5> HIDE DEF P, r, k, h, e
        <5> QED
          BY <5>1, <4>1, <4>3, <4>7, <4>8, <4>9 DEF ReadersInv
    <3>10. Releases(d, k, {})
      <4>1. Releases(d, h, {} \cup {})
        BY <1>1, <1>2, <1>3, <3>3, <3>4, ReleasesChain
      <4>2. Releases(d, k, ({} \cup {}) \cup {})
        BY <4>1, <1>1, <3>4, <3>5, <3>6, ReleasesChain
      <4> QED
        BY <4>2
    <3>11. g = k /\ k.readState # 0
      <4>1. g = k
        BY <3>2 DEF k
      <4>2. r # 0 /\ k.readState = r
        BY <1>2, <3>5
      <4> QED
        BY <4>1, <4>2
    <3>12. DBInv(g, T, Z) /\ Releases(d, g, {}) /\ RefsInv(g, js) /\ ReadersInv(g, rd)
           /\ g.readState # 0
      BY <3>5, <3>8, <3>9, <3>10, <3>11
    <3> QED
      BY <3>12 DEF g
  <2> QED
    BY <2>3, <2>4
<1> QED
  BY <1>10, <1>11

\* deleteObsoleteFiles moves its lists to a job.
LEMMA DeleteObsoleteFacts ==
  ASSUME NEW d, NEW T, NEW Z, NEW js, NEW rd, DBInv(d, T, Z), d.disabled \in Nat
  PROVE  LET e == DeleteObsoleteFiles(d)
         IN  /\ DBInv(e, T, Z) /\ Releases(d, e, {})
             /\ RefsInv(d, js) => RefsInv(e, js)
             /\ ReadersInv(d, rd) => ReadersInv(e, rd)
             /\ e.readState = d.readState
<1> DEFINE m == d.obsoleteManifests
           gone == {n \in m : Cardinality({k \in m : k > n}) >= NumPrevManifest}
           job == [tables |-> d.obsolete, manifests |-> gone]
           L == IF d.obsolete \cup gone = {} THEN d.late ELSE d.late \cup {job}
           e == [d EXCEPT !.obsolete = {}, !.zombies = @ \ d.obsolete,
                          !.obsoleteManifests = @ \ gone, !.late = L]
<1>1. d \in DBType /\ d.current \in DOMAIN d.versions
  BY DEF DBInv
<1>2. d.obsolete \subseteq Nat /\ m \subseteq Nat /\ d.late \subseteq CleanupJob
      /\ d.zombies \subseteq Nat
  BY <1>1 DEF DBType
<1>3. gone \subseteq m
  OBVIOUS
<1>4. DeleteObsoleteFiles(d) = IF d.disabled > 0 THEN d ELSE e
  BY DEF DeleteObsoleteFiles
<1> HIDE DEF gone
<1>5. job \in CleanupJob /\ L \subseteq CleanupJob
  BY <1>2, <1>3 DEF CleanupJob
<1>6. /\ UNION {q.tables : q \in L} = (UNION {q.tables : q \in d.late}) \cup d.obsolete
      /\ UNION {q.manifests : q \in L} = (UNION {q.manifests : q \in d.late}) \cup gone
  <2>1. CASE d.obsolete \cup gone = {}
    <3>1. d.obsolete = {} /\ gone = {} /\ L = d.late
      BY <2>1
    <3> HIDE DEF L
    <3> QED
      BY <3>1
  <2>2. CASE d.obsolete \cup gone # {}
    <3>1. L = d.late \cup {job} /\ job.tables = d.obsolete /\ job.manifests = gone
      BY <2>2
    <3> HIDE DEF L, job
    <3>2. UNION {q.tables : q \in L} = (UNION {q.tables : q \in d.late}) \cup job.tables
      BY <3>1
    <3>3. UNION {q.manifests : q \in L} = (UNION {q.manifests : q \in d.late}) \cup job.manifests
      BY <3>1
    <3> QED
      BY <3>1, <3>2, <3>3
  <2> QED
    BY <2>1, <2>2
<1>7. (\A q \in d.late : q.tables \cup q.manifests # {})
        => \A q \in L : q.tables \cup q.manifests # {}
  OBVIOUS
<1> HIDE DEF L
<1>8. CASE d.disabled > 0
  <2>1. Releases(d, d, {})
    BY <1>1, DBTypeFacts DEF Releases, Lets
  <2> QED
    BY <1>4, <1>8, <2>1
<1>9. CASE ~(d.disabled > 0)
  <2>1. e \in DBType
    BY <1>1, <1>2, <1>3, <1>5 DEF DBType
  <2>2. /\ e.versions = d.versions /\ e.current = d.current /\ e.backings = d.backings
        /\ e.held = d.held /\ e.zombies = d.zombies \ d.obsolete /\ e.late = L
        /\ e.obsolete = {} /\ e.panic = d.panic /\ e.readState = d.readState
        /\ e.obsoleteManifests = m \ gone
        /\ e.nextFileNum = d.nextFileNum /\ e.manifestFileNum = d.manifestFileNum
        /\ e.writing = d.writing /\ e.manifest = d.manifest
        /\ e.disabled = d.disabled /\ e.readStates = d.readStates
    BY <1>1 DEF DBType
  <2> HIDE DEF e
  <2>3. /\ Refd(e) = Refd(d) /\ Base(e) = Base(d) /\ DoomedIn(e) = DoomedIn(d)
        /\ LateManifests(e) = LateManifests(d) \cup gone
    <3>1. Refd(e) = Refd(d) /\ Base(e) = Base(d)
      BY <2>2 DEF Refd, Base, Current
    <3>2. DoomedIn(e) = DoomedIn(d)
      BY <1>6, <2>2 DEF DoomedIn, LateTables
    <3>3. LateManifests(e) = LateManifests(d) \cup gone
      BY <1>6, <2>2 DEF LateManifests
    <3> QED
      BY <3>1, <3>2, <3>3
  <2>4. \A v \in DOMAIN d.versions : Backings(d.versions[v].tables) \cap d.obsolete = {}
    <3>1. \A v \in DOMAIN d.versions : Backings(d.versions[v].tables) \subseteq Refd(d)
      BY RefdMembers
    <3> QED
      BY <3>1 DEF DBInv, DoomedIn
  <2>5. DBInv(e, T, Z)
    <3>1. \A v \in DOMAIN e.versions :
            Backings(e.versions[v].tables) \subseteq
              Backings(T) \cup DOMAIN e.backings \cup e.zombies \cup Z
      BY <2>2, <2>4 DEF DBInv
    <3>2. \A q \in e.late : q.tables \cup q.manifests # {}
      BY <1>7, <2>2 DEF DBInv
    <3>3. ~e.panic /\ e.current \in DOMAIN e.versions
          /\ Backings(T) \cup Z \subseteq Base(e) /\ Refd(e) \cap DoomedIn(e) = {}
      BY <2>2, <2>3 DEF DBInv
    <3> QED
      BY <2>1, <3>1, <3>2, <3>3 DEF DBInv
  <2>6. Releases(d, e, {})
    <3>1. d.nextFileNum \in Nat
      BY <1>1, DBTypeFacts
    <3>2. d.disabled = 0
      BY <1>9
    <3>3. e.obsoleteManifests \cup LateManifests(e) \subseteq d.obsoleteManifests \cup LateManifests(d)
      BY <1>3, <2>2, <2>3
    <3> QED
      BY <2>2, <2>3, <3>1, <3>2, <3>3 DEF Releases, Lets
  <2>7. RefsInv(d, js) => RefsInv(e, js)
    BY <2>2 DEF RefsInv, ReadersOf
  <2>8. ReadersInv(d, rd) => ReadersInv(e, rd)
    BY <2>2 DEF ReadersInv
  <2> QED
    BY <1>4, <1>9, <2>2, <2>5, <2>6, <2>7, <2>8 DEF e
<1> QED
  BY <1>8, <1>9

\* A job gives up the reference it holds on a version.
LEMMA ReleaseFacts ==
  ASSUME NEW d, NEW T, NEW Z, NEW js \in Seq(JobType), NEW rd, NEW j \in DOMAIN js,
         NEW x \in JobType, x.version = 0, DBInv(d, T, Z), RefsInv(d, js),
         ReadersInv(d, rd)
  PROVE  LET ks == [js EXCEPT ![j] = x]
             e  == IF js[j].version = 0 THEN d ELSE UnrefLocked(d, js[j].version)
         IN  /\ DBInv(e, T, Z) /\ Releases(d, e, {}) /\ RefsInv(e, ks)
             /\ ReadersInv(e, rd)
<1> DEFINE ks == [js EXCEPT ![j] = x]
           v  == js[j].version
           e  == IF v = 0 THEN d ELSE UnrefLocked(d, v)
<1>1. d \in DBType /\ d.current \in DOMAIN d.versions /\ v \in Nat
  <2>1. js[j] \in JobType
    OBVIOUS
  <2> QED
    BY <2>1 DEF DBInv, JobType
<1>2. /\ ks \in Seq(JobType) /\ DOMAIN ks = DOMAIN js /\ ks[j] = x
      /\ \A i \in DOMAIN js : i # j => ks[i] = js[i]
  BY JobParts
<1>3. DOMAIN d.readStates \subseteq 1 .. d.readState /\ 0 \notin DOMAIN d.versions
  BY DEF RefsInv
<1>4. ASSUME NEW w, w # 0
      PROVE  /\ Cardinality(JobsOf(ks, w)) = Cardinality(JobsOf(js, w)) - (IF w = v THEN 1 ELSE 0)
             /\ Cardinality(JobsOf(js, w)) \in Nat
             /\ w = v => Cardinality(JobsOf(js, w)) # 0
             /\ Cardinality(ReadersOf(d, w)) \in Nat
  <2>1. IsFiniteSet(JobsOf(js, w)) /\ Cardinality(JobsOf(js, w)) \in Nat
        /\ Cardinality(ReadersOf(d, w)) \in Nat
    BY <1>1, <1>3, HoldersFinite
  <2>2. JobsOf(ks, w) = IF w = v THEN JobsOf(js, w) \ {j} ELSE JobsOf(js, w)
    BY <1>2, <1>4 DEF JobsOf
  <2>3. w = v => j \in JobsOf(js, w)
    BY DEF JobsOf
  <2>4. w = v => Cardinality(JobsOf(js, w) \ {j}) = Cardinality(JobsOf(js, w)) - 1
                 /\ Cardinality(JobsOf(js, w)) # 0
    BY <2>1, <2>3, CardParts
  <2> HIDE DEF ks, v
  <2> QED
    BY <2>1, <2>2, <2>4
<1> HIDE DEF ks, v
<1>5. \A w \in DOMAIN d.versions :
        d.versions[w].refs = (IF w = d.current THEN 1 ELSE 0)
                               + Cardinality(ReadersOf(d, w)) + Cardinality(JobsOf(js, w))
  BY DEF RefsInv
<1>6. CASE v = 0
  <2>1. \A w \in DOMAIN d.versions : w # 0 /\ w # v
    BY <1>3, <1>6
  <2>2. \A w \in DOMAIN d.versions : Cardinality(JobsOf(ks, w)) = Cardinality(JobsOf(js, w))
    BY <1>4, <2>1
  <2>3. RefsInv(d, ks)
    BY <1>2, <1>5, <2>2 DEF RefsInv
  <2>4. Releases(d, d, {})
    BY <1>1, DBTypeFacts DEF Releases, Lets
  <2> QED
    BY <1>6, <2>3, <2>4 DEF ks, v
<1>7. CASE v # 0
  <2>1. v \in DOMAIN d.versions
    BY <1>7 DEF RefsInv, v
  <2>2. v = d.current => d.versions[v].refs # 1
    BY <2>1, <1>4, <1>5, <1>7
  <2> DEFINE k == UnrefLocked(d, v)
  <2>3. /\ DBInv(k, T, Z) /\ Releases(d, k, {})
        /\ k.readStates = d.readStates /\ k.readState = d.readState
        /\ DOMAIN k.versions = IF d.versions[v].refs = 1 THEN DOMAIN d.versions \ {v}
                               ELSE DOMAIN d.versions
        /\ \A w \in DOMAIN k.versions :
             k.versions[w].refs = d.versions[w].refs - (IF w = v THEN 1 ELSE 0)
    BY <2>1, <2>2, UnrefFacts
  <2> HIDE DEF k
  <2>4. k.current = d.current
    BY <2>3 DEF Releases, Lets
  <2>5. d.versions[v].refs = 1 =>
          /\ v # d.current /\ ReadersOf(d, v) = {} /\ JobsOf(ks, v) = {}
    <3> SUFFICES ASSUME d.versions[v].refs = 1
                 PROVE v # d.current /\ ReadersOf(d, v) = {} /\ JobsOf(ks, v) = {}
      OBVIOUS
    <3>1. v # d.current
      BY <2>2
    <3>2. Cardinality(ReadersOf(d, v)) = 0 /\ Cardinality(JobsOf(ks, v)) = 0
      BY <1>4, <1>5, <1>7, <2>1, <3>1
    <3> QED
      BY <1>1, <1>2, <1>3, <3>1, <3>2, HoldersFinite, FS_EmptySet
  <2>6. \A w \in DOMAIN k.versions : w \in DOMAIN d.versions /\ w # 0
    BY <1>3, <2>3
  <2>7. RefsInv(k, ks)
    <3>1. ASSUME NEW w \in DOMAIN k.versions
          PROVE k.versions[w].refs = (IF w = k.current THEN 1 ELSE 0)
                  + Cardinality(ReadersOf(k, w)) + Cardinality(JobsOf(ks, w))
      <4>1. ReadersOf(k, w) = ReadersOf(d, w)
        BY <2>3 DEF ReadersOf
      <4>2. /\ d.versions[w].refs = (IF w = d.current THEN 1 ELSE 0)
                + Cardinality(ReadersOf(d, w)) + Cardinality(JobsOf(js, w))
            /\ k.versions[w].refs = d.versions[w].refs - (IF w = v THEN 1 ELSE 0)
        BY <1>5, <2>3, <2>6
      <4>3. /\ Cardinality(JobsOf(ks, w)) = Cardinality(JobsOf(js, w)) - (IF w = v THEN 1 ELSE 0)
            /\ Cardinality(JobsOf(js, w)) \in Nat /\ Cardinality(ReadersOf(d, w)) \in Nat
        BY <1>4, <2>6
      <4> QED
        BY <2>4, <4>1, <4>2, <4>3
    <3>2. \A r \in DOMAIN k.readStates : k.readStates[r].version \in DOMAIN k.versions
      BY <2>3, <2>5 DEF RefsInv, ReadersOf
    <3>3. \A i \in DOMAIN ks : ks[i].version \in DOMAIN k.versions \cup {0}
      <4> SUFFICES ASSUME NEW i \in DOMAIN js PROVE ks[i].version \in DOMAIN k.versions \cup {0}
        BY <1>2
      <4>1. ks[i].version \in DOMAIN d.versions \cup {0}
        BY <1>2 DEF RefsInv
      <4>2. d.versions[v].refs = 1 => ks[i].version # v
        BY <1>2, <2>5 DEF JobsOf
      <4> QED
        BY <2>3, <4>1, <4>2
    <3>4. DOMAIN k.versions \subseteq 1 .. k.current /\ DOMAIN k.readStates \subseteq 1 .. k.readState
      BY <2>3, <2>4, <2>6 DEF RefsInv
    <3> QED
      BY <3>1, <3>2, <3>3, <3>4 DEF RefsInv
  <2>8. ReadersInv(k, rd)
    <3>1. d.versions[v].refs \in Int /\ d.versions[v].refs # 0
      BY <1>4, <1>5, <1>7, <2>1
    <3>2. ~(rd.pc = "remove" /\ rd.id = v)
      BY <2>1, <3>1 DEF ReadersInv
    <3>3. \A w \in DOMAIN k.versions : k.versions[w].refs = 0 <=> (rd.pc = "remove" /\ rd.id = w)
      <4> SUFFICES ASSUME NEW w \in DOMAIN k.versions
                   PROVE k.versions[w].refs = 0 <=> (rd.pc = "remove" /\ rd.id = w)
        OBVIOUS
      <4>1. k.versions[w].refs = d.versions[w].refs - (IF w = v THEN 1 ELSE 0)
        BY <2>3
      <4>2. d.versions[w].refs \in Int
        BY <1>1, <2>6, DBTypeFacts
      <4>3. w = v => d.versions[v].refs # 1
        BY <2>3
      <4>4. w # v => (d.versions[w].refs = 0 <=> (rd.pc = "remove" /\ rd.id = w))
        BY <2>6 DEF ReadersInv
      <4> QED
        BY <3>2, <4>1, <4>2, <4>3, <4>4
    <3>4. rd.pc = "remove" => rd.id \in DOMAIN k.versions
      BY <2>3, <3>2 DEF ReadersInv
    <3> QED
      BY <2>3, <3>3, <3>4 DEF ReadersInv
  <2>9. e = k
    BY <1>7 DEF k
  <2>10. DBInv(e, T, Z) /\ Releases(d, e, {}) /\ RefsInv(e, ks) /\ ReadersInv(e, rd)
    BY <2>3, <2>7, <2>8, <2>9
  <2> QED
    BY <2>10 DEF ks, v
<1> QED
  BY <1>6, <1>7

\* Changes of the fields that the references do not depend on.
LEMMA OtherFields ==
  ASSUME NEW d, NEW e \in DBType, NEW T, NEW Z, NEW js, NEW rd, DBInv(d, T, Z),
         e.versions = d.versions, e.current = d.current, e.held = d.held,
         e.zombies = d.zombies, e.obsolete = d.obsolete, e.late = d.late,
         e.obsoleteManifests = d.obsoleteManifests, e.readStates = d.readStates,
         e.readState = d.readState, e.panic = d.panic,
         DOMAIN e.backings = DOMAIN d.backings, e.nextFileNum >= d.nextFileNum,
         e.manifestFileNum = d.manifestFileNum
  PROVE  /\ DBInv(e, T, Z) /\ Lets(d, e, {})
         /\ RefsInv(d, js) => RefsInv(e, js)
         /\ ReadersInv(d, rd) => ReadersInv(e, rd)
<1>1. Refd(e) = Refd(d) /\ Base(e) = Base(d) /\ DoomedIn(e) = DoomedIn(d)
      /\ LateManifests(e) = LateManifests(d)
  BY DEF Refd, Base, Current, DoomedIn, LateTables, LateManifests
<1>2. DBInv(e, T, Z)
  BY <1>1 DEF DBInv
<1>3. Lets(d, e, {})
  BY <1>1 DEF Lets
<1>4. RefsInv(d, js) => RefsInv(e, js)
  BY DEF RefsInv, ReadersOf
<1>5. ReadersInv(d, rd) => ReadersInv(e, rd)
  BY DEF ReadersInv
<1> QED
  BY <1>2, <1>3, <1>4, <1>5

\* Files that nothing refers to become zombies, and obsolete.
LEMMA AddObsoleteFacts ==
  ASSUME NEW d, NEW T, NEW Z, NEW js, NEW rd, DBInv(d, T, Z),
         NEW B \in SUBSET Nat, B \cap Refd(d) = {}
  PROVE  LET e == AddObsolete([d EXCEPT !.zombies = @ \cup B], B)
         IN  /\ DBInv(e, T, Z) /\ Releases(d, e, B)
             /\ RefsInv(d, js) => RefsInv(e, js)
             /\ ReadersInv(d, rd) => ReadersInv(e, rd)
<1> DEFINE e == AddObsolete([d EXCEPT !.zombies = @ \cup B], B)
<1>1. d \in DBType /\ d.zombies \subseteq Nat /\ d.obsolete \subseteq Nat /\ d.panic = FALSE
  BY DEF DBInv, DBType
<1>2. e = [d EXCEPT !.zombies = d.zombies \cup B, !.obsolete = d.obsolete \cup B,
                    !.panic = FALSE]
  <2>1. B \subseteq d.zombies \cup B
    OBVIOUS
  <2> QED
    BY <1>1, <2>1 DEF AddObsolete, DBType
<1> HIDE DEF e
<1>3. e \in DBType
  BY <1>1, <1>2 DEF DBType
<1>4. /\ e.versions = d.versions /\ e.current = d.current /\ e.backings = d.backings
      /\ e.held = d.held /\ e.zombies = d.zombies \cup B /\ e.late = d.late
      /\ e.obsolete = d.obsolete \cup B /\ e.panic = FALSE /\ e.readState = d.readState
      /\ e.obsoleteManifests = d.obsoleteManifests
      /\ e.nextFileNum = d.nextFileNum /\ e.manifestFileNum = d.manifestFileNum
      /\ e.writing = d.writing /\ e.manifest = d.manifest
      /\ e.disabled = d.disabled /\ e.readStates = d.readStates
  BY <1>1, <1>2 DEF DBType
<1>5. Refd(e) = Refd(d) /\ Base(e) = Base(d) /\ DoomedIn(e) = DoomedIn(d) \cup B
      /\ LateManifests(e) = LateManifests(d)
  BY <1>4 DEF Refd, Base, Current, DoomedIn, LateTables, LateManifests
<1>6. DBInv(e, T, Z)
  <2>1. \A v \in DOMAIN e.versions :
          Backings(e.versions[v].tables) \subseteq
            Backings(T) \cup DOMAIN e.backings \cup e.zombies \cup Z
    BY <1>4 DEF DBInv
  <2>2. Refd(e) \cap DoomedIn(e) = {} /\ Backings(T) \cup Z \subseteq Base(e)
    BY <1>5 DEF DBInv
  <2>3. \A q \in e.late : q.tables \cup q.manifests # {}
    BY <1>4 DEF DBInv
  <2>4. ~e.panic /\ e.current \in DOMAIN e.versions
    BY <1>4 DEF DBInv
  <2> QED
    BY <1>3, <2>1, <2>2, <2>3, <2>4 DEF DBInv
<1>7. Releases(d, e, B)
  BY <1>1, <1>4, <1>5, DBTypeFacts DEF Releases, Lets
<1>8. RefsInv(d, js) => RefsInv(e, js)
  BY <1>4 DEF RefsInv, ReadersOf
<1>9. ReadersInv(d, rd) => ReadersInv(e, rd)
  BY <1>4 DEF ReadersInv
<1> QED
  BY <1>6, <1>7, <1>8, <1>9 DEF e

\* A new current version.
LEMMA AppendVersionFacts ==
  ASSUME NEW d, NEW T \in TableSets, NEW js \in Seq(JobType), NEW rd,
         DBInv(d, T, {}), RefsInv(d, js), ReadersInv(d, rd)
  PROVE  LET e == AppendVersion(d, T)
         IN  /\ DBInv(e, T, {}) /\ RefsInv(e, js) /\ ReadersInv(e, rd)
             /\ Current(e) = T /\ e.current = d.current + 1
             /\ \A v \in DOMAIN e.versions \ {e.current} :
                  v \in DOMAIN d.versions /\ e.versions[v].tables = d.versions[v].tables
             /\ Refd(e) \subseteq Refd(d) /\ DoomedIn(e) \subseteq DoomedIn(d) \cup Refd(d)
             /\ e.backings = d.backings /\ e.held = d.held /\ e.late = d.late
             /\ e.obsoleteManifests = d.obsoleteManifests
             /\ e.nextFileNum = d.nextFileNum /\ e.manifestFileNum = d.manifestFileNum
             /\ e.disabled = d.disabled /\ e.readState = d.readState
             /\ e.writing = d.writing /\ e.manifest = d.manifest
<1> DEFINE c == d.current
           x == [tables |-> T, refs |-> 1]
           V == With(d.versions, c + 1, x)
           g == [d EXCEPT !.versions = V, !.current = c + 1]
           e == UnrefLocked(g, c)
<1>1. d \in DBType /\ c \in DOMAIN d.versions /\ c \in Nat /\ d.versions \in Maps(Version)
  BY DBTypeFacts DEF DBInv
<1>2. AppendVersion(d, T) = e
  BY DEF AppendVersion
<1>3. c + 1 \notin DOMAIN d.versions /\ DOMAIN d.versions \subseteq 1 .. c
  BY <1>1 DEF RefsInv
<1>4. /\ V \in Maps(Version) /\ DOMAIN V = DOMAIN d.versions \cup {c + 1} /\ V[c + 1] = x
      /\ \A v \in DOMAIN d.versions : V[v] = d.versions[v]
  <2>1. x \in Version /\ c + 1 \in Nat
    BY <1>1 DEF Version
  <2> HIDE DEF x
  <2>2. V \in Maps(Version)
    BY <1>1, <2>1, MapParts
  <2> QED
    BY <1>3, <2>2 DEF With
<1> HIDE DEF V, e
<1>5. g \in DBType
  <2>1. c + 1 \in Nat
    BY <1>1
  <2> QED
    BY <1>1, <1>4, <2>1 DEF DBType
<1>6. /\ g.versions = V /\ g.current = c + 1 /\ g.backings = d.backings
      /\ g.held = d.held /\ g.zombies = d.zombies /\ g.late = d.late
      /\ g.obsolete = d.obsolete /\ g.panic = d.panic /\ g.readState = d.readState
      /\ g.obsoleteManifests = d.obsoleteManifests
      /\ g.nextFileNum = d.nextFileNum /\ g.manifestFileNum = d.manifestFileNum
      /\ g.writing = d.writing /\ g.manifest = d.manifest
      /\ g.disabled = d.disabled /\ g.readStates = d.readStates
  BY <1>1 DEF DBType
<1> HIDE DEF g
<1>7. /\ Current(g) = T /\ Refd(g) = Refd(d) /\ DoomedIn(g) = DoomedIn(d)
      /\ LateManifests(g) = LateManifests(d)
  <2>1. Current(g) = T
    BY <1>4, <1>6 DEF Current
  <2>2. Backings(T) \subseteq Refd(d)
    <3>1. Backings(T) \subseteq Base(d)
      BY DEF DBInv
    <3>2. Base(d) \subseteq Refd(d)
      BY <1>1 DEF Base, Refd, Current
    <3> QED
      BY <3>1, <3>2
  <2>3. \A v \in DOMAIN g.versions :
          \/ v \in DOMAIN d.versions /\ g.versions[v] = d.versions[v]
          \/ g.versions[v].tables = T
    BY <1>4, <1>6
  <2>4. \A v \in DOMAIN d.versions : v \in DOMAIN g.versions /\ g.versions[v] = d.versions[v]
    BY <1>4, <1>6
  <2>5. Refd(g) \subseteq Refd(d)
    BY <1>6, <2>2, <2>3, RefdMembers
  <2>6. Refd(d) \subseteq Refd(g)
    BY <1>6, <2>4, RefdMembers
  <2> QED
    BY <1>6, <2>1, <2>5, <2>6 DEF DoomedIn, LateTables, LateManifests
<1>8. DBInv(g, T, {})
  <2>1. \A v \in DOMAIN g.versions :
          Backings(g.versions[v].tables) \subseteq
            Backings(T) \cup DOMAIN g.backings \cup g.zombies
    <3> SUFFICES ASSUME NEW v \in DOMAIN g.versions
                 PROVE Backings(g.versions[v].tables) \subseteq
                         Backings(T) \cup DOMAIN g.backings \cup g.zombies
      OBVIOUS
    <3>1. CASE v \in DOMAIN d.versions
      BY <3>1, <1>4, <1>6 DEF DBInv
    <3>2. CASE v = c + 1
      BY <3>2, <1>4, <1>6
    <3> QED
      BY <3>1, <3>2, <1>4, <1>6
  <2>2. Backings(T) \subseteq Base(g)
    BY <1>7 DEF Base
  <2>3. Refd(g) \cap DoomedIn(g) = {} /\ g.current \in DOMAIN g.versions /\ ~g.panic
    BY <1>4, <1>6, <1>7 DEF DBInv
  <2>4. \A q \in g.late : q.tables \cup q.manifests # {}
    BY <1>6 DEF DBInv
  <2> QED
    BY <1>5, <2>1, <2>2, <2>3, <2>4 DEF DBInv
<1>9. c \in DOMAIN g.versions /\ c # g.current
  BY <1>1, <1>4, <1>6
<1>10. /\ DBInv(e, T, {}) /\ Releases(g, e, {})
       /\ e.readStates = g.readStates /\ e.readState = g.readState
       /\ e.late = g.late /\ e.obsoleteManifests = g.obsoleteManifests
       /\ DOMAIN e.versions = IF g.versions[c].refs = 1 THEN DOMAIN g.versions \ {c}
                              ELSE DOMAIN g.versions
       /\ \A v \in DOMAIN e.versions :
            e.versions[v].refs = g.versions[v].refs - (IF v = c THEN 1 ELSE 0)
  BY <1>8, <1>9, UnrefFacts DEF e
<1>11. /\ DOMAIN d.readStates \subseteq 1 .. d.readState
       /\ \A v \in DOMAIN d.versions :
            /\ d.versions[v].refs = (IF v = c THEN 1 ELSE 0)
                 + Cardinality(ReadersOf(d, v)) + Cardinality(JobsOf(js, v))
            /\ Cardinality(ReadersOf(d, v)) \in Nat /\ Cardinality(JobsOf(js, v)) \in Nat
            /\ d.versions[v].refs \in Int
  <2>1. DOMAIN d.readStates \subseteq 1 .. d.readState
    BY DEF RefsInv
  <2> QED
    BY <1>1, <2>1, HoldersFinite, DBTypeFacts DEF RefsInv
<1>12. /\ e.current = c + 1 /\ DOMAIN e.versions \subseteq DOMAIN d.versions \cup {c + 1}
       /\ c + 1 \in DOMAIN e.versions
       /\ \A v \in DOMAIN e.versions : e.versions[v].tables = g.versions[v].tables
  BY <1>4, <1>6, <1>8, <1>9, <1>10 DEF Releases, Lets, DBInv
<1>13. \A v \in DOMAIN e.versions : v # c + 1 =>
         /\ v \in DOMAIN d.versions /\ e.versions[v].tables = d.versions[v].tables
         /\ e.versions[v].refs = d.versions[v].refs - (IF v = c THEN 1 ELSE 0)
  BY <1>4, <1>6, <1>10, <1>12
<1>14. /\ \A v : ReadersOf(e, v) = ReadersOf(d, v)
       /\ ReadersOf(d, c + 1) = {} /\ JobsOf(js, c + 1) = {}
  <2>1. \A v : ReadersOf(e, v) = ReadersOf(d, v)
    BY <1>6, <1>10 DEF ReadersOf
  <2>2. c + 1 # 0
    BY <1>1
  <2> QED
    BY <1>3, <2>1, <2>2 DEF RefsInv, ReadersOf, JobsOf
<1>15. d.versions[c].refs = 1 => c \notin DOMAIN e.versions /\ ReadersOf(d, c) = {} /\ JobsOf(js, c) = {}
  <2> SUFFICES ASSUME d.versions[c].refs = 1
               PROVE c \notin DOMAIN e.versions /\ ReadersOf(d, c) = {} /\ JobsOf(js, c) = {}
    OBVIOUS
  <2>1. c \notin DOMAIN e.versions
    BY <1>1, <1>4, <1>6, <1>10
  <2>2. Cardinality(ReadersOf(d, c)) = 0 /\ Cardinality(JobsOf(js, c)) = 0
    BY <1>1, <1>11
  <2> QED
    BY <1>1, <1>11, <2>1, <2>2, HoldersFinite, FS_EmptySet
<1>16. d.versions[c].refs # 1 => DOMAIN e.versions = DOMAIN d.versions \cup {c + 1}
  BY <1>1, <1>4, <1>6, <1>10
<1>17. RefsInv(e, js)
  <2>1. ASSUME NEW v \in DOMAIN e.versions
        PROVE e.versions[v].refs = (IF v = e.current THEN 1 ELSE 0)
                + Cardinality(ReadersOf(e, v)) + Cardinality(JobsOf(js, v))
    <3>1. CASE v = c + 1
      <4>1. e.versions[v].refs = 1
        <5>1. g.versions[v].refs = 1 /\ v # c
          BY <3>1, <1>1, <1>4, <1>6
        <5> QED
          BY <1>10, <5>1
      <4>2. Cardinality(ReadersOf(e, v)) = 0 /\ Cardinality(JobsOf(js, v)) = 0
        BY <3>1, <1>14, FS_EmptySet
      <4> QED
        BY <3>1, <4>1, <4>2, <1>12
    <3>2. CASE v # c + 1
      BY <3>2, <1>11, <1>12, <1>13, <1>14
    <3> QED
      BY <3>1, <3>2
  <2>2. \A r \in DOMAIN e.readStates : e.readStates[r].version \in DOMAIN e.versions
    <3> SUFFICES ASSUME NEW r \in DOMAIN d.readStates
                 PROVE d.readStates[r].version \in DOMAIN e.versions
      BY <1>6, <1>10
    <3>1. d.readStates[r].version \in DOMAIN d.versions
      BY DEF RefsInv
    <3> QED
      BY <3>1, <1>4, <1>6, <1>10, <1>15 DEF ReadersOf
  <2>3. \A i \in DOMAIN js : js[i].version \in DOMAIN e.versions \cup {0}
    <3> SUFFICES ASSUME NEW i \in DOMAIN js PROVE js[i].version \in DOMAIN e.versions \cup {0}
      OBVIOUS
    <3>1. js[i].version \in DOMAIN d.versions \cup {0}
      BY DEF RefsInv
    <3> QED
      BY <3>1, <1>4, <1>6, <1>10, <1>15 DEF JobsOf
  <2>4. DOMAIN e.versions \subseteq 1 .. e.current
    BY <1>1, <1>3, <1>12
  <2>5. DOMAIN e.readStates \subseteq 1 .. e.readState
    BY <1>6, <1>10, <1>11
  <2> QED
    BY <2>1, <2>2, <2>3, <2>4, <2>5 DEF RefsInv
<1>18. ReadersInv(e, rd)
  <2>1. rd.pc = "remove" => rd.id \in DOMAIN d.versions /\ rd.id # c
    <3>1. d.versions[c].refs # 0
      BY <1>1, <1>11
    <3> QED
      BY <1>1, <3>1 DEF ReadersInv
  <2>2. ASSUME NEW v \in DOMAIN e.versions
        PROVE e.versions[v].refs = 0 <=> (rd.pc = "remove" /\ rd.id = v)
    <3>1. CASE v = c + 1
      <4>1. e.versions[v].refs = 1
        <5>1. g.versions[v].refs = 1 /\ v # c
          BY <3>1, <1>1, <1>4, <1>6
        <5> QED
          BY <1>10, <5>1
      <4> QED
        BY <3>1, <4>1, <2>1, <1>3
    <3>2. CASE v = c
      <4>1. d.versions[c].refs # 1
        BY <3>2, <1>15
      <4>2. e.versions[c].refs = d.versions[c].refs - 1
        BY <3>2, <1>1, <1>13
      <4> QED
        BY <3>2, <4>1, <4>2, <2>1, <1>1, <1>11
    <3>3. CASE v # c + 1 /\ v # c
      <4>1. v \in DOMAIN d.versions /\ e.versions[v].refs = d.versions[v].refs
        BY <3>3, <1>11, <1>13
      <4> QED
        BY <4>1 DEF ReadersInv
    <3> QED
      BY <3>1, <3>2, <3>3
  <2>3. rd.pc = "remove" => rd.id \in DOMAIN e.versions
    BY <2>1, <1>4, <1>6, <1>10
  <2>4. e.readStates = d.readStates /\ e.readState = d.readState
    BY <1>6, <1>10
  <2> QED
    BY <2>2, <2>3, <2>4 DEF ReadersInv
<1>19. /\ Current(e) = T /\ e.current = c + 1
       /\ \A v \in DOMAIN e.versions \ {e.current} :
            v \in DOMAIN d.versions /\ e.versions[v].tables = d.versions[v].tables
  <2>1. e.versions[c + 1].tables = T
    BY <1>4, <1>6, <1>12
  <2> QED
    BY <2>1, <1>1, <1>12, <1>13 DEF Current
<1>20. /\ Refd(e) \subseteq Refd(d) /\ DoomedIn(e) \subseteq DoomedIn(d) \cup Refd(d)
  <2>1. Refd(e) \subseteq Refd(g)
    BY <1>10 DEF Releases, Lets, Refd
  <2>2. DoomedIn(e) \subseteq DoomedIn(g) \cup Refd(g) \cup {}
    BY <1>10 DEF Releases, Lets
  <2> QED
    BY <1>7, <2>1, <2>2
<1>21. /\ e.backings = d.backings /\ e.held = d.held /\ e.late = d.late
       /\ e.obsoleteManifests = d.obsoleteManifests
       /\ e.nextFileNum = d.nextFileNum /\ e.manifestFileNum = d.manifestFileNum
       /\ e.disabled = d.disabled /\ e.readState = d.readState
       /\ e.writing = d.writing /\ e.manifest = d.manifest
  BY <1>6, <1>10 DEF Releases, Lets
<1> QED
  BY <1>2, <1>10, <1>17, <1>18, <1>19, <1>20, <1>21

(***************************************************************************)
(* What a step leaves alone.                                               *)
(***************************************************************************)
\* What is read from the first k of the records r.
ReadBack(r, k) ==
  Pair(UNION {r[i].new \ (UNION {r[l].del : l \in i + 1 .. k}) : i \in 1 .. k},
       UNION {r[i].created \ (UNION {r[l].removed : l \in i + 1 .. k}) : i \in 1 .. k})

LEMMA ImageRead ==
  ASSUME NEW n, NEW k
  PROVE  /\ Image(n, k) = ReadBack(manifests[n].recs, k)
         /\ Image(n, k)' = ReadBack(manifests'[n].recs, k)
BY DEF Image, ReadBack, Pair

\* Jobs, readers and checkpoints exist in an open store.
LEMMA OpenFacts ==
  ASSUME IInv
  PROVE  /\ \A j \in DOMAIN jobs : jobs[j].pc # "done" => phase = "open"
         /\ reader.pc # "idle" => phase = "open"
         /\ ckpt.pc # "idle" => phase = "open"
         /\ phase = "open" => Up /\ Settled
  <1>1. \A j \in DOMAIN jobs : jobs[j] = Done => jobs[j].pc = "done"
    BY DEF Done
  <1>2. ckpt = NoCkpt => ckpt.pc = "idle"
    BY DEF NoCkpt
  <1>3. reader = NoRead => reader.pc = "idle"
    BY DEF NoRead
  <1> QED
    BY <1>1, <1>2, <1>3 DEF IInv, PhaseInv, Up, Settled

\* Refd does not grow.
LEMMA LetsFacts ==
  ASSUME NEW d, NEW e, NEW X, Lets(d, e, X), e.current \in DOMAIN e.versions
  PROVE  /\ Refd(e) \subseteq Refd(d) /\ Current(e) = Current(d)
         /\ DoomedIn(e) \subseteq DoomedIn(d) \cup Refd(d) \cup X
<1>1. Refd(e) \subseteq Refd(d)
  BY DEF Lets, Refd
<1>2. Current(e) = Current(d)
  BY DEF Lets, Current
<1> QED
  BY <1>1, <1>2 DEF Lets

LEMMA IoFrame ==
  ASSUME IInv, NEW X, Lets(db, db', X), db'.current \in DOMAIN db'.versions,
         UNCHANGED <<io, phase>>, ~Idle => db'.writing,
         ~Idle /\ phase = "open" =>
           io.job \in DOMAIN jobs' /\ jobs'[io.job].pc = "apply",
         db' \in DBType
  PROVE  IoInv' /\ Target' = Target /\ Current(db') = Current(db) /\ Idle' = Idle
<1>1. Current(db') = Current(db) /\ Idle' = Idle
  BY LetsFacts DEF Idle
<1>2. Target' = Target
  BY <1>1 DEF Target
<1>3. db \in DBType /\ db.nextFileNum \in Nat /\ db'.nextFileNum \in Nat
  BY DBTypeFacts DEF IInv, DBInv
<1>4. CASE Idle
  <2>1. io' = NoIO /\ db'.held = {}
    BY <1>4 DEF IInv, IoInv, Lets
  <2>2. IoInv'
    BY <1>1, <1>4, <2>1 DEF IoInv
  <2> QED
    BY <1>1, <1>2, <2>2
<1>5. CASE ~Idle
  <2>1. EditInv
    BY <1>5 DEF IInv, IoInv
  <2>2. EditInv'
    <3>1. io \in IOType /\ io.edit \in EditType
      BY DEF IInv, TypeOK, IOType
    <3>2. io.rotate \in Nat /\ io.edit.next \in Nat
      BY <3>1 DEF IOType, EditType
    <3>3. /\ db'.manifestFileNum = db.manifestFileNum /\ db'.held = db.held
          /\ DOMAIN db'.backings = DOMAIN db.backings
          /\ db'.nextFileNum >= db.nextFileNum
      BY DEF Lets
    <3>4. (io.rotate # 0 => io.rotate < db'.nextFileNum) /\ io.edit.next <= db'.nextFileNum
      BY <2>1, <3>2, <3>3, <1>3 DEF EditInv
    <3> QED
      BY <2>1, <3>3, <3>4, <1>1 DEF EditInv
  <2>3. /\ phase \in {"loaded", "open"} /\ phase' = phase /\ io' = io
        /\ phase = "loaded" => io.rotate # 0 /\ io.job = 0
        /\ phase = "open" => io.job \in DOMAIN jobs' /\ jobs'[io.job].pc = "apply"
        /\ db'.writing
    BY <1>5 DEF IInv, IoInv
  <2>4. IoInv'
    BY <1>1, <1>5, <2>2, <2>3 DEF IoInv
  <2> QED
    BY <1>1, <1>2, <2>4
<1> QED
  BY <1>1, <1>2, <1>4, <1>5

LEMMA StageFrame ==
  ASSUME IInv, UNCHANGED <<manifests, marker, hasLog, phase, io>>,
         Current(db') = Current(db), DOMAIN db'.backings = DOMAIN db.backings,
         db'.manifestFileNum = db.manifestFileNum
  PROVE  StageInv'
<1>1. \A n, k : Image(n, k)' = Image(n, k)
  BY ImageRead
<1>2. \A n : Records(n)' = Records(n) /\ Full(n)' = Full(n)
  BY DEF Records, Full
<1>3. /\ Before' = Before /\ After' = After /\ Idle' = Idle /\ Up' = Up
      /\ Settled' = Settled /\ Writing' = Writing
  BY DEF Before, After, Idle, Up, Settled, Writing
<1>4. \A n : NewManifest(n)' = NewManifest(n)
  BY DEF NewManifest
<1>5. AtRest(Before)' = AtRest(Before) /\
      AtRest(Pair(Current(db), DOMAIN db.backings))' = AtRest(Pair(Current(db), DOMAIN db.backings))
  BY <1>1, <1>2, <1>3 DEF AtRest
<1> QED
  BY <1>1, <1>2, <1>3, <1>4, <1>5 DEF IInv, StageInv

(***************************************************************************)
(* What is read back from a manifest.                                      *)
(***************************************************************************)
LEMMA ReadBackMembers ==
  ASSUME NEW r, NEW k
  PROVE  /\ \A x : x \in ReadBack(r, k).tables <=>
              \E i \in 1 .. k : x \in r[i].new /\ \A l \in i + 1 .. k : x \notin r[l].del
         /\ \A x : x \in ReadBack(r, k).backings <=>
              \E i \in 1 .. k : x \in r[i].created /\ \A l \in i + 1 .. k : x \notin r[l].removed
         /\ ReadBack(r, k) = Pair(ReadBack(r, k).tables, ReadBack(r, k).backings)
BY DEF ReadBack, Pair

LEMMA PairEqual ==
  ASSUME NEW S, NEW T, NEW B, NEW C
  PROVE  /\ Pair(S, B) = Pair(T, C) <=> S = T /\ B = C
         /\ Pair(S, B).tables = S /\ Pair(S, B).backings = B
BY DEF Pair

\* Only the first k records count.
LEMMA ReadBackPrefix ==
  ASSUME NEW r, NEW q, NEW k \in Nat, \A i \in 1 .. k : q[i] = r[i]
  PROVE  ReadBack(q, k) = ReadBack(r, k)
<1>1. \A i \in 1 .. k : \A l \in i + 1 .. k : l \in 1 .. k
  OBVIOUS
<1>2. ASSUME NEW x PROVE x \in ReadBack(q, k).tables <=> x \in ReadBack(r, k).tables
  <2>1. (\E i \in 1 .. k : x \in q[i].new /\ \A l \in i + 1 .. k : x \notin q[l].del)
          <=> \E i \in 1 .. k : x \in r[i].new /\ \A l \in i + 1 .. k : x \notin r[l].del
    BY <1>1
  <2> QED
    BY <2>1, ReadBackMembers, Zenon
<1>3. ASSUME NEW x PROVE x \in ReadBack(q, k).backings <=> x \in ReadBack(r, k).backings
  <2>1. (\E i \in 1 .. k : x \in q[i].created /\ \A l \in i + 1 .. k : x \notin q[l].removed)
          <=> \E i \in 1 .. k : x \in r[i].created /\ \A l \in i + 1 .. k : x \notin r[l].removed
    BY <1>1
  <2> QED
    BY <2>1, ReadBackMembers, Zenon
<1>4. ReadBack(q, k).tables = ReadBack(r, k).tables /\ ReadBack(q, k).backings = ReadBack(r, k).backings
  <2> DEFINE A == ReadBack(q, k).tables
             B == ReadBack(r, k).tables
             C == ReadBack(q, k).backings
             D == ReadBack(r, k).backings
  <2>1. (\A x : x \in A <=> x \in B) /\ \A x : x \in C <=> x \in D
    BY <1>2, <1>3
  <2> HIDE DEF A, B, C, D
  <2>2. A = B /\ C = D
    BY <2>1
  <2> QED
    BY <2>2 DEF A, B, C, D
<1>5. ReadBack(q, k) = Pair(ReadBack(q, k).tables, ReadBack(q, k).backings)
      /\ ReadBack(r, k) = Pair(ReadBack(r, k).tables, ReadBack(r, k).backings)
  BY ReadBackMembers
<1> QED
  BY <1>4, <1>5, Zenon

\* One more record.
LEMMA ReadBackLast ==
  ASSUME NEW r, NEW k \in Nat
  PROVE  LET i == ReadBack(r, k)
             e == r[k + 1]
         IN  ReadBack(r, k + 1) = Pair((i.tables \ e.del) \cup e.new,
                                       (i.backings \ e.removed) \cup e.created)
<1> DEFINE i == ReadBack(r, k)
           e == r[k + 1]
           g == ReadBack(r, k + 1)
<1>1. /\ 1 .. k + 1 = (1 .. k) \cup {k + 1} /\ k + 1 \notin 1 .. k
      /\ \A m \in 1 .. k : m + 1 .. k + 1 = (m + 1 .. k) \cup {k + 1}
      /\ (k + 1) + 1 .. k + 1 = {}
  OBVIOUS
<1>2. ASSUME NEW x PROVE x \in g.tables <=> x \in (i.tables \ e.del) \cup e.new
  <2>1. x \in g.tables <=>
          \E m \in 1 .. k + 1 : x \in r[m].new /\ \A l \in m + 1 .. k + 1 : x \notin r[l].del
    BY ReadBackMembers
  <2>2. x \in i.tables <=>
          \E m \in 1 .. k : x \in r[m].new /\ \A l \in m + 1 .. k : x \notin r[l].del
    BY ReadBackMembers
  <2> HIDE DEF i, g
  <2> QED
    BY <1>1, <2>1, <2>2
<1>3. ASSUME NEW x PROVE x \in g.backings <=> x \in (i.backings \ e.removed) \cup e.created
  <2>1. x \in g.backings <=>
          \E m \in 1 .. k + 1 : x \in r[m].created /\ \A l \in m + 1 .. k + 1 : x \notin r[l].removed
    BY ReadBackMembers
  <2>2. x \in i.backings <=>
          \E m \in 1 .. k : x \in r[m].created /\ \A l \in m + 1 .. k : x \notin r[l].removed
    BY ReadBackMembers
  <2> HIDE DEF i, g
  <2> QED
    BY <1>1, <2>1, <2>2
<1>4. g = Pair(g.tables, g.backings)
  BY ReadBackMembers
<1> HIDE DEF g, i, e
<1>5. g.tables = (i.tables \ e.del) \cup e.new /\ g.backings = (i.backings \ e.removed) \cup e.created
  BY <1>2, <1>3
<1> QED
  BY <1>4, <1>5 DEF g, i, e

\* A new manifest: the snapshot, and the edit.
LEMMA ReadBackNew ==
  ASSUME NEW s, NEW e
  PROVE  /\ ReadBack(<<s>>, 1) = Pair(s.new, s.created)
         /\ ReadBack(<<s, e>>, 2) = Pair((s.new \ e.del) \cup e.new,
                                         (s.created \ e.removed) \cup e.created)
<1>1. ASSUME NEW r, r[1] = s PROVE ReadBack(r, 1) = Pair(s.new, s.created)
  <2>1. ReadBack(r, 0 + 1) = Pair((ReadBack(r, 0).tables \ r[0 + 1].del) \cup r[0 + 1].new,
                                  (ReadBack(r, 0).backings \ r[0 + 1].removed) \cup r[0 + 1].created)
    BY ReadBackLast
  <2>2. ReadBack(r, 0).tables = {} /\ ReadBack(r, 0).backings = {}
    BY ReadBackMembers
  <2>3. ReadBack(r, 1) = Pair((ReadBack(r, 0).tables \ s.del) \cup s.new,
                              (ReadBack(r, 0).backings \ s.removed) \cup s.created)
    BY <1>1, <2>1
  <2>4. (ReadBack(r, 0).tables \ s.del) \cup s.new = s.new
        /\ (ReadBack(r, 0).backings \ s.removed) \cup s.created = s.created
    BY <2>2
  <2> QED
    BY <2>3, <2>4
<1>2. ReadBack(<<s>>, 1) = Pair(s.new, s.created)
  BY <1>1
<1>3. ReadBack(<<s, e>>, 1) = Pair(s.new, s.created)
  BY <1>1
<1>4. ReadBack(<<s, e>>, 1 + 1) =
        Pair((ReadBack(<<s, e>>, 1).tables \ <<s, e>>[1 + 1].del) \cup <<s, e>>[1 + 1].new,
             (ReadBack(<<s, e>>, 1).backings \ <<s, e>>[1 + 1].removed) \cup <<s, e>>[1 + 1].created)
  BY ReadBackLast
<1>5. <<s, e>>[2] = e /\ 1 + 1 = 2
  OBVIOUS
<1>6. ReadBack(<<s, e>>, 1).tables = s.new /\ ReadBack(<<s, e>>, 1).backings = s.created
  BY <1>3, PairEqual
<1> QED
  BY <1>2, <1>4, <1>5, <1>6

LEMMA ManifestFacts ==
  ASSUME IInv
  PROVE  /\ \A n \in DOMAIN manifests :
              /\ n \in Nat /\ manifests[n].recs \in Seq(EditType)
              /\ manifests[n].synced \in Nat /\ Records(n) \in Nat
              /\ manifests[n].synced <= Records(n)
              /\ Full(n) => Lengths(n) = {Records(n)}
         /\ \A n \in Range(marker) : n \in DOMAIN manifests
         /\ marker \in Seq(Nat) /\ marker # << >>
<1>1. manifests \in Maps(Manifest) /\ marker \in Seq(Nat) /\ marker # << >>
  BY DEF IInv, TypeOK, DiskType
<1>2. ASSUME NEW n \in DOMAIN manifests
      PROVE  /\ n \in Nat /\ manifests[n].recs \in Seq(EditType)
             /\ manifests[n].synced \in Nat /\ Records(n) \in Nat
             /\ manifests[n].synced <= Records(n)
             /\ Full(n) => Lengths(n) = {Records(n)}
  <2>1. n \in Nat /\ manifests[n] \in Manifest
    BY <1>1, MapFacts
  <2>2. manifests[n].recs \in Seq(EditType) /\ manifests[n].synced \in Nat
    BY <2>1 DEF Manifest
  <2>3. Records(n) \in Nat
    BY <2>2 DEF Records
  <2>4. manifests[n].synced <= Records(n)
    BY DEF IInv, MarkerInv
  <2>5. Full(n) => Lengths(n) = {Records(n)}
    BY <2>3 DEF Full, Lengths, Records
  <2> QED
    BY <2>1, <2>2, <2>3, <2>4, <2>5
<1> QED
  BY <1>1, <1>2 DEF IInv, MarkerInv

LEMMA MarkerOne ==
  ASSUME NEW n
  PROVE  /\ Range(<<n>>) = {n} /\ Last(<<n>>) = n
         /\ \A m : Range(<<n, m>>) = {n, m} /\ Last(<<n, m>>) = m
<1>1. Range(<<n>>) = {n} /\ Last(<<n>>) = n
  BY DEF Range, Last
<1>2. ASSUME NEW m PROVE Range(<<n, m>>) = {n, m} /\ Last(<<n, m>>) = m
  <2>1. DOMAIN <<n, m>> = {1, 2}
    OBVIOUS
  <2>2. Range(<<n, m>>) = {<<n, m>>[1], <<n, m>>[2]}
    BY <2>1 DEF Range
  <2>3. Range(<<n, m>>) = {n, m}
    BY <2>2
  <2>4. Last(<<n, m>>) = m
    BY DEF Last
  <2> QED
    BY <2>3, <2>4
<1> QED
  BY <1>1, <1>2

\* The manifest that is made for an edit ends with the tables after it.
LEMMA NewManifestRead ==
  ASSUME IInv, EditInv, NEW n, NewManifest(n)
  PROVE  /\ Records(io.rotate) = 2
         /\ Image(io.rotate, 1) = Before /\ Image(io.rotate, 2) = After
<1>1. manifests[io.rotate].recs = <<io.snapshot, io.edit>>
  BY DEF NewManifest
<1>2. /\ Image(io.rotate, 1) = ReadBack(<<io.snapshot, io.edit>>, 1)
      /\ Image(io.rotate, 2) = ReadBack(<<io.snapshot, io.edit>>, 2)
  BY <1>1, ImageRead
<1>3. Records(io.rotate) = 2
  BY <1>1 DEF Records
<1>4. ReadBack(<<io.snapshot, io.edit>>, 1) = Pair(io.snapshot.new, io.snapshot.created)
  <2>1. <<io.snapshot, io.edit>>[1] = io.snapshot
    OBVIOUS
  <2> DEFINE r == <<io.snapshot, io.edit>>
             s == <<io.snapshot>>
  <2>2. \A i \in 1 .. 1 : r[i] = s[i]
    BY <2>1
  <2>3. ReadBack(r, 1) = ReadBack(s, 1)
    <3> HIDE DEF r, s
    <3> QED
      BY <2>2, ReadBackPrefix
  <2> QED
    BY <2>3, ReadBackNew
<1>5. ReadBack(<<io.snapshot, io.edit>>, 2) =
        Pair((io.snapshot.new \ io.edit.del) \cup io.edit.new,
             (io.snapshot.created \ io.edit.removed) \cup io.edit.created)
  BY ReadBackNew
<1>6. (io.snapshot.new \ io.edit.del) \cup io.edit.new = io.tables
  BY DEF EditInv
<1>7. (io.snapshot.created \ io.edit.removed) \cup io.edit.created = DOMAIN db.backings
  BY DEF EditInv
<1> QED
  BY <1>2, <1>3, <1>4, <1>5, <1>6, <1>7 DEF Before, After

\* What Open may find once it has no log to flush.
LEMMA ImagesNow ==
  ASSUME IInv, Up, Settled, NEW n \in Range(marker), NEW k \in Lengths(n)
  PROVE  IF Idle THEN Image(n, k) = Pair(Current(db), DOMAIN db.backings)
         ELSE Image(n, k) \in {Before, After}
<1> DEFINE P == Pair(Current(db), DOMAIN db.backings)
           m == db.manifestFileNum
<1>1. ASSUME NEW i, AtRest(i) PROVE Image(n, k) = i
  <2>1. marker = <<m>> /\ Full(m) /\ Image(m, Records(m)) = i
    BY <1>1 DEF AtRest
  <2>2. n = m /\ n \in DOMAIN manifests
    BY <2>1, MarkerOne, ManifestFacts
  <2>3. k = Records(n)
    BY <2>1, <2>2, ManifestFacts
  <2> QED
    BY <2>1, <2>2, <2>3
<1>2. CASE Idle
  BY <1>1, <1>2 DEF IInv, StageInv
<1>3. CASE ~Idle
  <2>0. EditInv /\ StageInv
    BY <1>3 DEF IInv, IoInv
  <2>1. CASE io.stage = "write"
    BY <1>1, <1>3, <2>0, <2>1 DEF StageInv
  <2>2. CASE io.stage = "sync" /\ io.rotate # 0
    BY <1>1, <1>3, <2>0, <2>2 DEF StageInv
  <2>3. CASE io.stage = "sync" /\ io.rotate = 0
    <3>1. /\ marker = <<io.prev>> /\ manifests[io.prev].synced = Records(io.prev) - 1
          /\ Image(io.prev, Records(io.prev) - 1) = Before
          /\ Image(io.prev, Records(io.prev)) = After
      BY <2>0, <2>3 DEF StageInv
    <3>2. n = io.prev /\ n \in DOMAIN manifests
      BY <3>1, MarkerOne, ManifestFacts
    <3>3. Records(n) \in Nat
      BY <3>2, ManifestFacts
    <3>4. k \in Records(n) - 1 .. Records(n)
      BY <3>1, <3>2 DEF Lengths, Records
    <3>5. k = Records(n) - 1 \/ k = Records(n)
      BY <3>3, <3>4
    <3> QED
      BY <1>3, <3>1, <3>2, <3>5
  <2>4. CASE io.stage = "move"
    BY <1>1, <1>3, <2>0, <2>4 DEF StageInv
  <2>5. CASE io.stage = "syncdir"
    <3>1. /\ marker = <<io.prev, io.rotate>> /\ Full(io.prev)
          /\ Image(io.prev, Records(io.prev)) = Before /\ NewManifest(2)
      BY <2>0, <2>5 DEF StageInv
    <3>2. (n = io.prev \/ n = io.rotate) /\ n \in DOMAIN manifests
      <4>1. Range(<<io.prev, io.rotate>>) = {io.prev, io.rotate}
        BY MarkerOne, Zenon
      <4> QED
        BY <3>1, <4>1, ManifestFacts
    <3>3. Records(io.rotate) = 2 /\ Image(io.rotate, 2) = After
      BY <2>0, <3>1, NewManifestRead
    <3>4. Full(io.rotate)
      BY <3>1, <3>3 DEF NewManifest, Full
    <3>5. k = Records(n)
      BY <3>1, <3>2, <3>4, ManifestFacts
    <3> QED
      BY <1>3, <3>1, <3>2, <3>3, <3>5
  <2>6. CASE io.stage = "install"
    <3>1. marker = <<Writing>> /\ Full(Writing) /\ Image(Writing, Records(Writing)) = After
      BY <2>0, <2>6 DEF StageInv
    <3>2. n = Writing /\ n \in DOMAIN manifests
      BY <3>1, MarkerOne, ManifestFacts
    <3>3. k = Records(n)
      BY <3>1, <3>2, ManifestFacts
    <3> QED
      BY <1>3, <3>1, <3>2, <3>3
  <2>7. io.stage \in {"none", "write", "sync", "move", "syncdir", "install"}
    BY DEF IInv, TypeOK, IOType
  <2> QED
    BY <1>3, <2>1, <2>2, <2>3, <2>4, <2>5, <2>6, <2>7 DEF Idle
<1> QED
  BY <1>2, <1>3

LEMMA BaseRefd ==
  ASSUME IInv
  PROVE  /\ Base(db) \subseteq Refd(db) /\ Backings(Target) \subseteq Refd(db)
         /\ io.zombies \subseteq Refd(db) /\ Refd(db) \subseteq synced /\ synced \subseteq files
<1>1. Base(db) \subseteq Refd(db)
  BY DEF IInv, DBInv, Base, Refd, Current
<1> QED
  BY <1>1 DEF IInv, DBInv, FilesInv, TypeOK, DiskType

\* Everything it may find is referenced, so that it is not deleted.
LEMMA ImagesReferenced ==
  ASSUME IInv, Up, Settled, NEW n \in Range(marker), NEW k \in Lengths(n)
  PROVE  Backings(Image(n, k).tables) \cup Image(n, k).backings \subseteq Refd(db)
<1>1. CASE Idle
  <2>1. Image(n, k) = Pair(Current(db), DOMAIN db.backings)
    BY <1>1, ImagesNow
  <2>2. Image(n, k).tables = Current(db) /\ Image(n, k).backings = DOMAIN db.backings
    BY <2>1, PairEqual
  <2> QED
    BY <2>2, BaseRefd DEF Base
<1>2. CASE ~Idle
  <2>1. EditInv
    BY <1>2 DEF IInv, IoInv
  <2>2. CASE Image(n, k) = Before
    <3>1. Image(n, k).tables = Current(db) /\ Image(n, k).backings = io.snapshot.created
      BY <2>1, <2>2, PairEqual DEF Before, EditInv
    <3>2. io.snapshot.created \subseteq DOMAIN db.backings \cup db.held
      BY <2>1 DEF EditInv
    <3> QED
      BY <3>1, <3>2, BaseRefd DEF Base
  <2>3. CASE Image(n, k) = After
    <3>1. Image(n, k).tables = io.tables /\ Image(n, k).backings = DOMAIN db.backings
      BY <2>3, PairEqual DEF After
    <3> QED
      BY <1>2, <3>1, BaseRefd DEF Base, Target
  <2> QED
    BY <1>2, <2>2, <2>3, ImagesNow
<1> QED
  BY <1>1, <1>2

(***************************************************************************)
(* Steps that leave the edit under way alone, with or without a step of    *)
(* one job.                                                                *)
(***************************************************************************)
\* Job j becomes x, or is added as x; none, when it is not in jobs'.
JobStep(j, x) ==
  /\ jobs' \in Seq(JobType) /\ DOMAIN jobs \subseteq DOMAIN jobs'
  /\ \A i \in DOMAIN jobs' :
       IF i = j THEN jobs'[i] = x ELSE i \in DOMAIN jobs /\ jobs'[i] = jobs[i]

Was(j) == IF j \in DOMAIN jobs THEN jobs[j] ELSE Done

LEMMA DoneType ==
  /\ Done \in JobType /\ Own(Done) = {} /\ JobOK(Done) /\ InputsOf(Done) = {}
  /\ \A d, T : InputsInv(Done, d, T)
  /\ Done.pc = "done" /\ Done.kind = "done" /\ Done.prot = 0
  /\ NoEdit \in EditType
<1>1. NoEdit \in EditType
  BY TableSetFacts DEF NoEdit, Edit, EditType
<1>2. Done \in JobType
  BY <1>1, TableSetFacts DEF Done, JobType
<1>3. Own(Done) = {}
  BY DEF Own, Pending, Done
<1>4. JobOK(Done)
  BY DEF JobOK, Done, Places, Pending
<1>5. InputsOf(Done) = {}
  BY DEF Done, Backings, Numbers, InputsOf
<1>6. ASSUME NEW d, NEW T PROVE InputsInv(Done, d, T)
  BY DEF InputsInv, Done
<1>7. Done.pc = "done" /\ Done.kind = "done" /\ Done.prot = 0
  BY DEF Done
<1> QED
  BY <1>1, <1>2, <1>3, <1>4, <1>5, <1>6, <1>7

\* All the numbers in use are below the next one.
LEMMA TakenBelow ==
  ASSUME IInv, Up
  PROVE  /\ db.nextFileNum \in Nat /\ db.nextFileNum > 0
         /\ \A n \in Taken : n \in Nat /\ n < db.nextFileNum
         /\ \A n \in files : n \in Nat /\ n > 0 /\ n < db.nextFileNum
         /\ 0 \notin Refd(db)
<1>1. db.nextFileNum \in Nat /\ db.manifestFileNum \in Nat
  BY DBTypeFacts DEF IInv, DBInv
<1>2. \A n \in files : n \in Nat /\ n > 0 /\ n < db.nextFileNum
  BY DEF IInv, TypeOK, DiskType, FilesInv
<1>3. db.nextFileNum > 0
  BY <1>1 DEF IInv, MarkerInv, FilesInv
<1>4. Refd(db) \subseteq files
  BY BaseRefd
<1>5. ckpt.need \subseteq files
  <2>1. ckpt.pc # "copy" \/ ckpt.pc = "copy"
    OBVIOUS
  <2> QED
    BY <2>1 DEF IInv, CkptInv
<1>6. Target \in TableSets
  <2>1. db.current \in DOMAIN db.versions /\ db \in DBType
    BY DEF IInv, DBInv
  <2>2. Current(db) \in TableSets
    BY <2>1, DBTypeFacts DEF Current
  <2> QED
    BY <2>2 DEF IInv, TypeOK, IOType, Target
<1>7. \A n \in Numbers(Target) : n \in Nat /\ n < db.nextFileNum
  BY <1>6, TableNumbers DEF IInv, FilesInv
<1>8. Doomed \subseteq Nat
  <2>1. DoomedIn(db) \subseteq Nat
    BY DBTypeFacts DEF IInv, DBInv
  <2>2. CleanupTables \subseteq Nat
    <3>1. cleanup \in Seq(CleanupJob)
      BY DEF IInv, TypeOK
    <3>2. \A q \in Range(cleanup) : q \in CleanupJob
      BY <3>1 DEF Range
    <3> QED
      BY <3>2 DEF CleanupTables, CleanupJob
  <2> QED
    BY <2>1, <2>2 DEF Doomed
<1>9. \A n \in Doomed : n \in Nat /\ n < db.nextFileNum
  BY <1>8 DEF IInv, FilesInv
<1>10. Inputs \subseteq Nat
  <2>1. \A i \in DOMAIN jobs : jobs[i] \in JobType
    BY DEF IInv, TypeOK
  <2>2. \A i \in DOMAIN jobs : jobs[i].in \in TableSets
    BY <2>1 DEF JobType
  <2>3. \A i \in DOMAIN jobs : InputsOf(jobs[i]) \subseteq Nat
    BY <2>2, TableNumbers DEF InputsOf
  <2> QED
    BY <2>3 DEF Inputs
<1>11. \A n \in Inputs : n \in Nat /\ n < db.nextFileNum
  BY <1>10 DEF IInv, OwnInv
<1>12. \A n \in Taken : n \in Nat /\ n < db.nextFileNum
  BY <1>2, <1>4, <1>5, <1>7, <1>9, <1>11 DEF Taken
<1> QED
  BY <1>1, <1>2, <1>3, <1>4, <1>12

\* What a job has taken is below the next number, too.
LEMMA OwnBelow ==
  ASSUME IInv, NEW j
  PROVE  /\ \A n \in Own(Was(j)) : n \in Nat /\ n > 0 /\ n < db.nextFileNum
         /\ Own(Was(j)) \cap Taken = {}
         /\ \A i \in DOMAIN jobs : i # j => Own(jobs[i]) \cap Own(Was(j)) = {}
<1>1. CASE j \notin DOMAIN jobs
  BY <1>1, DoneType DEF Was
<1>2. CASE j \in DOMAIN jobs
  <2>1. jobs[j] \in JobType
    BY <1>2 DEF IInv, TypeOK
  <2>2. jobs[j].edit.new \in TableSets
    BY <2>1 DEF JobType, EditType
  <2>3. Own(jobs[j]) \subseteq Nat
    BY <2>2, TableNumbers DEF Own
  <2> QED
    BY <1>2, <2>3 DEF IInv, OwnInv, Was
<1> QED
  BY <1>1, <1>2

LEMMA BackingsFrame ==
  ASSUME IInv, Up, NEW j, NEW x, JobStep(j, x), x.prot = Was(j).prot,
         db'.backings = db.backings, Target' = Target
  PROVE  BackingsInv'
<1>1. 0 \notin DOMAIN db.backings
  BY TakenBelow DEF Refd
<1>2. ASSUME NEW b \in DOMAIN db.backings PROVE Protecting(jobs', b) = Protecting(jobs, b)
  <2>1. b # 0
    BY <1>1
  <2> QED
    BY <2>1, DoneType DEF JobStep, Was, Protecting
<1>3. \A b \in DOMAIN db.backings :
        /\ db.backings[b].use = Virtuals(Target, b)
        /\ db.backings[b].prot = Cardinality(Protecting(jobs, b))
  BY DEF IInv, BackingsInv
<1>4. \A b \in DOMAIN db'.backings :
        /\ db'.backings[b].use = Virtuals(Target', b)
        /\ db'.backings[b].prot = Cardinality(Protecting(jobs', b))
  BY <1>2, <1>3
<1>5. \A i \in DOMAIN jobs' : jobs'[i].prot # 0 => jobs'[i].prot \in DOMAIN db'.backings
  BY DoneType DEF JobStep, Was, IInv, BackingsInv
<1>6. Sound(Target', DOMAIN db'.backings)
  BY DEF IInv, BackingsInv
<1> QED
  BY <1>4, <1>5, <1>6 DEF BackingsInv

LEMMA InputsKept ==
  ASSUME NEW d, NEW e, NEW X, NEW T, NEW job, Lets(d, e, X), InputsInv(job, d, T),
         e.current \in DOMAIN e.versions, job.version \in DOMAIN e.versions \cup {0}
  PROVE  InputsInv(job, e, T)
<1>1. Current(e) = Current(d)
  BY LetsFacts
<1>2. job.version # 0 => e.versions[job.version].tables = d.versions[job.version].tables
  BY DEF Lets
<1> QED
  BY <1>1, <1>2 DEF InputsInv

LEMMA JobsFrame ==
  ASSUME IInv, NEW X, Lets(db, db', X), db'.current \in DOMAIN db'.versions,
         RefsInv(db', jobs'), Target' = Target,
         NEW j, NEW x, JobStep(j, x), JobOK(x), InputsInv(x, db', Target),
         x.kind \in {"compact", "move", "deleteonly"} =>
           \/ x.kind = Was(j).kind
           \/ \A i \in DOMAIN jobs : i # j => ~Compaction(i)
  PROVE  JobsInv'
<1>1. ASSUME NEW i \in DOMAIN jobs' PROVE JobOK(jobs'[i]) /\ InputsInv(jobs'[i], db', Target')
  <2>1. CASE i = j
    BY <2>1 DEF JobStep
  <2>2. CASE i # j
    <3>1. i \in DOMAIN jobs /\ jobs'[i] = jobs[i]
      BY <2>2 DEF JobStep
    <3>2. JobOK(jobs[i]) /\ InputsInv(jobs[i], db, Target)
      BY <3>1 DEF IInv, JobsInv
    <3>3. jobs[i].version \in DOMAIN db'.versions \cup {0}
      BY <3>1 DEF RefsInv
    <3> HIDE DEF IInv
    <3>4. InputsInv(jobs[i], db', Target)
      BY <3>2, <3>3, InputsKept
    <3> QED
      BY <3>1, <3>2, <3>4
  <2> QED
    BY <2>1, <2>2
<1>2. ASSUME NEW i \in DOMAIN jobs', NEW k \in DOMAIN jobs', Compaction(i)', Compaction(k)'
      PROVE  i = k
  <2>1. \A m \in DOMAIN jobs' : m # j => m \in DOMAIN jobs /\ jobs'[m] = jobs[m]
    BY DEF JobStep
  <2>2. \A m \in DOMAIN jobs' : m = j => jobs'[m] = x
    BY DEF JobStep
  <2>3. \A m, n \in DOMAIN jobs : Compaction(m) /\ Compaction(n) => m = n
    BY DEF IInv, JobsInv
  <2>4. Was(j).kind \in {"compact", "move", "deleteonly"} => j \in DOMAIN jobs /\ Compaction(j)
    BY DoneType DEF Was, Compaction
  <2> QED
    BY <1>2, <2>1, <2>2, <2>3, <2>4 DEF Compaction
<1> QED
  BY <1>1, <1>2 DEF JobsInv

LEMMA LockFrame ==
  ASSUME IInv, NEW j, NEW x, JobStep(j, x), UNCHANGED io,
         Was(j).pc # "apply", x.pc # "apply",
         db'.writing \/ ~db.writing \/ Was(j).pc = "target",
         x.pc = "target" => db'.writing /\ ~db.writing
  PROVE  /\ LockInv' /\ (~Idle => db'.writing)
         /\ ~Idle /\ phase = "open" => io.job \in DOMAIN jobs' /\ jobs'[io.job].pc = "apply"
<1> USE DoneType DEF Was
<1>1. Idle' = Idle
  BY DEF Idle
<1>2. \A i \in DOMAIN jobs' : i # j => i \in DOMAIN jobs /\ jobs'[i] = jobs[i]
  BY DEF JobStep
<1>3. \A i \in DOMAIN jobs' : i = j => jobs'[i] = x
  BY DEF JobStep
<1>4. /\ \A i \in DOMAIN jobs : jobs[i].pc = "apply" => ~Idle /\ io.job = i
      /\ \A i \in DOMAIN jobs : jobs[i].pc = "target" => db.writing /\ Idle
      /\ \A i, k \in DOMAIN jobs : jobs[i].pc = "target" /\ jobs[k].pc = "target" => i = k
  BY DEF IInv, LockInv
<1>5. ~Idle => db.writing
  BY DEF IInv, IoInv
<1>6. Was(j).pc = "target" => j \in DOMAIN jobs /\ Idle
  BY <1>4
<1>7. ~Idle => db'.writing
  BY <1>5, <1>6
<1>8. \A i \in DOMAIN jobs' : jobs'[i].pc = "apply" => ~Idle' /\ io'.job = i
  BY <1>1, <1>2, <1>3, <1>4
<1>9. ASSUME NEW i \in DOMAIN jobs', jobs'[i].pc = "target" PROVE db'.writing /\ Idle'
  BY <1>1, <1>2, <1>3, <1>4, <1>5, <1>6, <1>9
<1>10. ASSUME NEW i \in DOMAIN jobs', NEW k \in DOMAIN jobs',
              jobs'[i].pc = "target", jobs'[k].pc = "target"
       PROVE  i = k
  BY <1>2, <1>3, <1>4, <1>10
<1>11. ~Idle /\ phase = "open" => io.job \in DOMAIN jobs' /\ jobs'[io.job].pc = "apply"
  <2>1. ~Idle /\ phase = "open" => io.job \in DOMAIN jobs /\ jobs[io.job].pc = "apply"
    BY DEF IInv, IoInv
  <2> QED
    BY <2>1 DEF JobStep
<1> QED
  BY <1>7, <1>8, <1>9, <1>10, <1>11 DEF LockInv

\* Images are not disturbed when what they refer to stays synced.
LEMMA MarkerFrame ==
  ASSUME IInv, UNCHANGED <<manifests, marker>>, db' \in DBType,
         ~hasLog' => ~hasLog, Up' => Up,
         db'.manifestFileNum = db.manifestFileNum,
         db'.obsoleteManifests \cup LateManifests(db') \cup CleanupManifests' \subseteq
           db.obsoleteManifests \cup LateManifests(db) \cup CleanupManifests,
         synced \subseteq synced' \/ (Up /\ Settled /\ Refd(db) \subseteq synced')
  PROVE  MarkerInv'
<1>1. \A n, k : Image(n, k)' = Image(n, k)
  BY ImageRead
<1>2. \A n : Records(n)' = Records(n) /\ Full(n)' = Full(n) /\ Lengths(n)' = Lengths(n)
  BY DEF Records, Full, Lengths
<1>3. ASSUME NEW n \in Range(marker), NEW k \in Lengths(n) PROVE ImageOK(n, k)'
  <2>1. ImageOK(n, k)
    BY DEF IInv, MarkerInv
  <2>2. Backings(Image(n, k).tables) \cup Image(n, k).backings \subseteq synced'
    <3>1. CASE synced \subseteq synced'
      BY <2>1, <3>1 DEF ImageOK
    <3>2. CASE Up /\ Settled /\ Refd(db) \subseteq synced'
      BY <3>2, ImagesReferenced
    <3> QED
      BY <3>1, <3>2
  <2>3. ImageOK(n, k)' <=>
          /\ Sound(Image(n, k)'.tables, Image(n, k)'.backings)
          /\ Backings(Image(n, k)'.tables) \cup Image(n, k)'.backings \subseteq synced'
          /\ \A m \in Numbers(Image(n, k)'.tables) : m < manifests'[n].recs[k].next
    BY DEF ImageOK
  <2> QED
    BY <1>1, <2>1, <2>2, <2>3 DEF ImageOK
<1>4. /\ \A n \in Range(marker) : n \in DOMAIN manifests /\ manifests[n].synced >= 1
      /\ \A n \in DOMAIN manifests : manifests[n].synced <= Records(n)
      /\ ~hasLog => \E n \in DOMAIN manifests : marker = <<n>> /\ Full(n)
      /\ Up => db.manifestFileNum \in DOMAIN manifests
      /\ Up => \A n \in db.obsoleteManifests \cup LateManifests(db) \cup CleanupManifests :
                 n < db.manifestFileNum
  BY DEF IInv, MarkerInv
<1>5. \A n \in Range(marker') : n \in DOMAIN manifests' /\ manifests'[n].synced >= 1
         /\ \A k \in Lengths(n)' : ImageOK(n, k)'
  BY <1>2, <1>3, <1>4
<1>6. \A n \in DOMAIN manifests' : manifests'[n].synced <= Records(n)'
  BY <1>2, <1>4
<1>7. ~hasLog' => \E n \in DOMAIN manifests' : marker' = <<n>> /\ Full(n)'
  BY <1>2, <1>4
<1>8. Up' => /\ db'.manifestFileNum \in DOMAIN manifests'
             /\ \A n \in db'.obsoleteManifests \cup LateManifests(db') \cup CleanupManifests' :
                   n < db'.manifestFileNum
  BY <1>4
<1> QED
  BY <1>5, <1>6, <1>7, <1>8 DEF MarkerInv

LEMMA CkptFrame ==
  ASSUME IInv, UNCHANGED <<manifests, ckpt, cleanup>>,
         ckpt.need \subseteq files', NEW X, Lets(db, db', X),
         db.disabled # 0 => db'.late = db.late
  PROVE  CkptInv'
<1>1. \A n, k : Image(n, k)' = Image(n, k)
  BY ImageRead
<1>2. \A n : Records(n)' = Records(n)
  BY DEF Records
<1>3. CleanupTables' = CleanupTables /\ CleanupManifests' = CleanupManifests
  BY DEF CleanupTables, CleanupManifests
<1>4. ckpt.pc = "copy" => db.disabled # 0
  BY DEF IInv, PhaseInv
<1>5. ckpt.pc = "copy" => LateTables(db') = LateTables(db) /\ LateManifests(db') = LateManifests(db)
  BY <1>4 DEF LateTables, LateManifests
<1> QED
  BY <1>1, <1>2, <1>3, <1>5 DEF IInv, CkptInv

LEMMA FilesFrame ==
  ASSUME IInv, Up, Up', NEW X, Lets(db, db', X), db' \in DBType,
         db'.current \in DOMAIN db'.versions, Target' = Target,
         UNCHANGED cleanup, DOMAIN manifests' \subseteq DOMAIN manifests,
         Refd(db) \subseteq synced', \A n \in X : n < db.nextFileNum,
         \A n \in files' \ files : n > 0 /\ n < db'.nextFileNum
  PROVE  FilesInv'
<1>1. Refd(db') \subseteq Refd(db) /\ DoomedIn(db') \subseteq DoomedIn(db) \cup Refd(db) \cup X
  BY LetsFacts
<1>2. CleanupTables' = CleanupTables
  BY DEF CleanupTables
<1>3. db.nextFileNum \in Nat /\ db'.nextFileNum \in Nat /\ db.nextFileNum <= db'.nextFileNum
  BY TakenBelow, DBTypeFacts DEF Lets
<1>4. \A n \in Taken : n \in Nat /\ n < db'.nextFileNum
  BY TakenBelow, <1>3
<1>5. DoomedIn(db') \subseteq Nat
  BY DBTypeFacts
<1>6. \A n \in Doomed' : n < db'.nextFileNum
  <2>1. \A n \in DoomedIn(db') : n \in Taken \/ n \in X
    BY <1>1 DEF Taken, Doomed
  <2>2. \A n \in CleanupTables' : n \in Taken
    BY <1>2 DEF Taken, Doomed
  <2> QED
    BY <1>3, <1>4, <1>5, <2>1, <2>2 DEF Doomed
<1>7. \A n \in files \cup DOMAIN manifests : n \in Nat /\ n < db'.nextFileNum /\ n > 0
  <2>1. \A n \in DOMAIN manifests : n \in Nat
    BY ManifestFacts
  <2> QED
    BY <1>3, <2>1, TakenBelow DEF IInv, FilesInv
<1>8. \A n \in files' \cup DOMAIN manifests' : n < db'.nextFileNum /\ n > 0
  BY <1>7
<1>9. \A n \in Numbers(Target') : n < db'.nextFileNum
  BY <1>4 DEF Taken
<1>10. Refd(db') \subseteq synced' /\ Refd(db') \cap CleanupTables' = {}
  BY <1>1, <1>2 DEF IInv, FilesInv
<1> QED
  BY <1>6, <1>8, <1>9, <1>10 DEF IInv, FilesInv

LEMMA OwnFrame ==
  ASSUME IInv, Up, NEW X, Lets(db, db', X), db' \in DBType,
         db'.current \in DOMAIN db'.versions, Target' = Target,
         CleanupTables' \subseteq Doomed, ckpt'.need \subseteq ckpt.need \cup Refd(db),
         NEW j, NEW x \in JobType, JobStep(j, x),
         X \subseteq Own(Was(j)) \cup Taken, X \cap Own(x) = {},
         \A n \in Own(x) : n \in Own(Was(j)) \/ (db.nextFileNum <= n /\ n < db'.nextFileNum),
         InputsOf(x) \subseteq Taken,
         files \ files' \subseteq Own(Was(j)) \cup Taken,
         synced \ synced' \subseteq Own(Was(j)) \cup Taken,
         Own(x) \cap Backings(x.edit.new) \subseteq IF x.pc = "sync" THEN files' ELSE synced'
  PROVE  OwnInv'
<1> DEFINE a == Was(j)
<1>1. /\ \A i \in DOMAIN jobs' : i # j => i \in DOMAIN jobs /\ jobs'[i] = jobs[i]
      /\ \A i \in DOMAIN jobs' : i = j => jobs'[i] = x
  BY DEF JobStep
<1>2. db.nextFileNum \in Nat /\ db'.nextFileNum \in Nat /\ db.nextFileNum <= db'.nextFileNum
      /\ db.nextFileNum > 0
  BY TakenBelow, DBTypeFacts DEF Lets
<1>3. \A n \in Taken : n \in Nat /\ n < db.nextFileNum
  BY TakenBelow
<1>4. /\ \A n \in Own(a) : n \in Nat /\ n > 0 /\ n < db.nextFileNum
      /\ Own(a) \cap Taken = {}
      /\ \A i \in DOMAIN jobs : i # j => Own(jobs[i]) \cap Own(a) = {}
  BY OwnBelow
<1>5. ASSUME NEW i \in DOMAIN jobs, i # j
      PROVE  /\ \A n \in Own(jobs[i]) : n \in Nat /\ n > 0 /\ n < db.nextFileNum
             /\ Own(jobs[i]) \cap Taken = {} /\ Own(jobs[i]) \cap Own(a) = {}
             /\ \A k \in DOMAIN jobs : k # i => Own(jobs[k]) \cap Own(jobs[i]) = {}
             /\ Own(jobs[i]) \cap Backings(jobs[i].edit.new) \subseteq
                  IF jobs[i].pc = "sync" THEN files ELSE synced
  <2>1. Was(i) = jobs[i]
    BY DEF Was
  <2>2. Own(jobs[i]) \cap Own(a) = {}
    BY <1>4, <1>5
  <2> HIDE DEF a
  <2> QED
    BY <2>1, <2>2, OwnBelow DEF IInv, OwnInv
<1>6. \A n \in Own(x) : n \in Nat /\ n > 0
  <2>1. x.edit.new \in TableSets
    BY DEF JobType, EditType
  <2>2. Own(x) \subseteq Nat
    BY <2>1, TableNumbers DEF Own
  <2> QED
    BY <1>2, <1>4, <2>2
<1> HIDE DEF a
<1>7. Taken' \subseteq Taken \cup X
  <2>1. Refd(db') \subseteq Refd(db) /\ DoomedIn(db') \subseteq DoomedIn(db) \cup Refd(db) \cup X
    BY LetsFacts
  <2>2. Inputs' \subseteq Taken
    <3>1. \A i \in DOMAIN jobs' : InputsOf(jobs'[i]) \subseteq Taken
      BY <1>1 DEF Inputs, Taken
    <3> QED
      BY <3>1 DEF Inputs
  <2>3. Numbers(Target') = Numbers(Target)
    OBVIOUS
  <2> QED
    BY <2>1, <2>2, <2>3 DEF Taken, Doomed
<1>8. \A i \in DOMAIN jobs' : \A n \in Own(jobs'[i]) : 0 < n /\ n < db'.nextFileNum
  BY <1>1, <1>2, <1>4, <1>5, <1>6 DEF a
<1>9. \A i \in DOMAIN jobs : i # j => Own(jobs[i]) \cap Own(x) = {}
  BY <1>2, <1>5, <1>6 DEF a
<1>10. ASSUME NEW i \in DOMAIN jobs', NEW k \in DOMAIN jobs', i # k
       PROVE Own(jobs'[i]) \cap Own(jobs'[k]) = {}
  BY <1>1, <1>5, <1>9, <1>10
<1>11. ASSUME NEW i \in DOMAIN jobs' PROVE Own(jobs'[i]) \cap Taken' = {}
  <2>1. CASE i = j
    <3>1. Own(x) \cap Taken = {}
      BY <1>2, <1>3, <1>4 DEF a
    <3> QED
      BY <1>1, <1>7, <2>1, <3>1
  <2>2. CASE i # j
    BY <1>1, <1>5, <1>7, <2>2 DEF a
  <2> QED
    BY <2>1, <2>2
<1>12. \A f \in Inputs' : f < db'.nextFileNum
  <2>1. Inputs' \subseteq Taken
    <3>1. \A i \in DOMAIN jobs' : InputsOf(jobs'[i]) \subseteq Taken
      BY <1>1 DEF Inputs, Taken
    <3> QED
      BY <3>1 DEF Inputs
  <2> QED
    BY <1>2, <1>3, <2>1
<1>13. ASSUME NEW i \in DOMAIN jobs'
       PROVE Own(jobs'[i]) \cap Backings(jobs'[i].edit.new) \subseteq
               IF jobs'[i].pc = "sync" THEN files' ELSE synced'
  <2>1. CASE i = j
    BY <1>1, <2>1
  <2>2. CASE i # j
    <3>1. i \in DOMAIN jobs /\ jobs'[i] = jobs[i]
      BY <1>1, <2>2
    <3>2. /\ Own(jobs[i]) \cap Taken = {} /\ Own(jobs[i]) \cap Own(a) = {}
          /\ Own(jobs[i]) \cap Backings(jobs[i].edit.new) \subseteq
                  IF jobs[i].pc = "sync" THEN files ELSE synced
      BY <1>5, <2>2, <3>1
    <3> QED
      BY <3>1, <3>2 DEF a
  <2> QED
    BY <2>1, <2>2
<1> QED
  BY <1>8, <1>10, <1>11, <1>12, <1>13 DEF OwnInv

\* A step in an open store that leaves the edit under way alone.
LEMMA QuietStep ==
  ASSUME IInv, phase = "open", UNCHANGED <<io, phase, marker, manifests, hasLog, cleanup>>,
         NEW X, NEW j, NEW x \in JobType,
         DBInv(db', Target, io.zombies), RefsInv(db', jobs'), ReadersInv(db', reader'),
         reader' \in ReaderType, Lets(db, db', X),
         files' \in SUBSET Nat, IsFiniteSet(files'), synced' \subseteq files',
         external' \subseteq Nat, Refd(db) \subseteq synced',
         \A n \in files' \ files : n > 0 /\ n < db'.nextFileNum,
         files \ files' \subseteq Own(Was(j)) \cup Taken,
         synced \ synced' \subseteq Own(Was(j)) \cup Taken,
         ckpt' \in CkptType, ckpt'.need \subseteq ckpt.need \cup Refd(db), CkptInv',
         db'.disabled = IF ckpt'.pc = "idle" THEN 0 ELSE 1,
         JobStep(j, x), JobOK(x), InputsInv(x, db', Target),
         x.kind \in {"compact", "move", "deleteonly"} =>
           \/ x.kind = Was(j).kind
           \/ \A i \in DOMAIN jobs : i # j => ~Compaction(i),
         Was(j).pc # "apply", x.pc # "apply",
         db'.writing \/ ~db.writing \/ Was(j).pc = "target",
         x.pc = "target" => db'.writing /\ ~db.writing,
         X \subseteq Own(Was(j)) \cup Taken, X \cap Own(x) = {},
         \A n \in Own(x) : n \in Own(Was(j)) \/ (db.nextFileNum <= n /\ n < db'.nextFileNum),
         InputsOf(x) \subseteq Taken,
         Own(x) \cap Backings(x.edit.new) \subseteq IF x.pc = "sync" THEN files' ELSE synced',
         Target' = Target => BackingsInv'
  PROVE  IInv'
<1>1. db' \in DBType /\ db'.current \in DOMAIN db'.versions /\ Up /\ Settled /\ Up' /\ Settled'
  BY OpenFacts DEF DBInv, Up, Settled
<1>2. LockInv' /\ (~Idle => db'.writing)
      /\ (~Idle /\ phase = "open" => io.job \in DOMAIN jobs' /\ jobs'[io.job].pc = "apply")
  BY LockFrame
<1>3. IoInv' /\ Target' = Target /\ Current(db') = Current(db) /\ Idle' = Idle
  BY <1>1, <1>2, IoFrame
<1>4. BackingsInv'
  BY <1>3
<1>5. JobsInv'
  BY <1>1, <1>3, JobsFrame
<1>6. CleanupTables' = CleanupTables /\ CleanupManifests' = CleanupManifests
  BY DEF CleanupTables, CleanupManifests
<1>7. MarkerInv'
  <2>1. /\ db'.obsoleteManifests \cup LateManifests(db') \cup CleanupManifests' \subseteq
             db.obsoleteManifests \cup LateManifests(db) \cup CleanupManifests
        /\ db'.manifestFileNum = db.manifestFileNum
    BY <1>6 DEF Lets
  <2> QED
    BY <1>1, <2>1, MarkerFrame
<1>8. \A n \in X : n < db.nextFileNum
  BY <1>1, TakenBelow, OwnBelow
<1>9. FilesInv'
  BY <1>1, <1>3, <1>8, FilesFrame
<1>10. CleanupTables' \subseteq Doomed
  BY <1>6 DEF Doomed
<1>11. OwnInv'
  BY <1>1, <1>3, <1>10, OwnFrame
<1>12. StageInv'
  <2>1. DOMAIN db'.backings = DOMAIN db.backings /\ db'.manifestFileNum = db.manifestFileNum
    BY DEF Lets
  <2> QED
    BY <1>3, <2>1, StageFrame
<1>13. PhaseInv'
  <2>1. db.readState # 0 /\ hasLog
    BY DEF IInv, PhaseInv
  <2>2. db'.readState # 0 /\ hasLog'
    BY <2>1 DEF Lets
  <2> QED
    BY <2>2 DEF PhaseInv
<1>14. TypeOK'
  BY <1>1 DEF IInv, TypeOK, DiskType, JobStep
<1>15. DBInv(db', Target', io'.zombies)
  BY <1>3
<1> QED
  BY <1>2, <1>3, <1>4, <1>5, <1>7, <1>9, <1>11, <1>12, <1>13, <1>14, <1>15 DEF IInv

\* The same with neither files nor a checkpoint.
LEMMA MemoryStep ==
  ASSUME IInv, phase = "open", UNCHANGED <<disk, phase, io, ckpt, cleanup>>,
         NEW X, NEW j, NEW x \in JobType,
         DBInv(db', Target, io.zombies), RefsInv(db', jobs'), ReadersInv(db', reader'),
         reader' \in ReaderType, Lets(db, db', X),
         db'.disabled = db.disabled, db.disabled # 0 => db'.late = db.late,
         JobStep(j, x), JobOK(x), InputsInv(x, db', Target),
         x.kind \in {"compact", "move", "deleteonly"} =>
           \/ x.kind = Was(j).kind
           \/ \A i \in DOMAIN jobs : i # j => ~Compaction(i),
         Was(j).pc # "apply", x.pc # "apply",
         db'.writing \/ ~db.writing \/ Was(j).pc = "target",
         x.pc = "target" => db'.writing /\ ~db.writing,
         X \subseteq Own(Was(j)) \cup Taken, X \cap Own(x) = {},
         \A n \in Own(x) : n \in Own(Was(j)) \/ (db.nextFileNum <= n /\ n < db'.nextFileNum),
         InputsOf(x) \subseteq Taken,
         Own(x) \cap Backings(x.edit.new) \subseteq IF x.pc = "sync" THEN files ELSE synced,
         Target' = Target => BackingsInv'
  PROVE  IInv'
<1>1. UNCHANGED <<files, synced, external, marker, manifests, hasLog>>
  BY DEF disk
<1>2. /\ files' \in SUBSET Nat /\ IsFiniteSet(files') /\ synced' \subseteq files'
      /\ external' \subseteq Nat /\ ckpt' \in CkptType
  BY <1>1 DEF IInv, TypeOK, DiskType
<1>3. Refd(db) \subseteq synced'
  BY <1>1, BaseRefd
<1>4. CkptInv'
  <2>1. ckpt.need \subseteq files'
    <3>1. ckpt.need = {} \/ ckpt.need \subseteq files
      BY DEF IInv, CkptInv
    <3> QED
      BY <1>1, <3>1
  <2> QED
    BY <1>1, <2>1, CkptFrame
<1>5. db'.disabled = IF ckpt'.pc = "idle" THEN 0 ELSE 1
  BY DEF IInv, PhaseInv
<1>6. /\ \A n \in files' \ files : n > 0 /\ n < db'.nextFileNum
      /\ files \ files' \subseteq Own(Was(j)) \cup Taken
      /\ synced \ synced' \subseteq Own(Was(j)) \cup Taken
      /\ ckpt'.need \subseteq ckpt.need \cup Refd(db)
      /\ UNCHANGED <<io, phase, marker, manifests, hasLog, cleanup>>
      /\ Own(x) \cap Backings(x.edit.new) \subseteq IF x.pc = "sync" THEN files' ELSE synced'
  BY <1>1
<1> QED
  BY <1>2, <1>3, <1>4, <1>5, <1>6, QuietStep

\* A step that changes no job, either.
LEMMA ReaderStep ==
  ASSUME IInv, phase = "open", UNCHANGED <<disk, phase, io, jobs, ckpt, cleanup>>,
         DBInv(db', Target, io.zombies), RefsInv(db', jobs), ReadersInv(db', reader'),
         reader' \in ReaderType, Lets(db, db', {}),
         db'.disabled = db.disabled, db.disabled # 0 => db'.late = db.late,
         db'.writing = db.writing, db'.backings = db.backings
  PROVE  IInv'
<1>1. Was(0) = Done
  <2>1. jobs \in Seq(JobType)
    BY DEF IInv, TypeOK
  <2>2. 0 \notin DOMAIN jobs
    BY <2>1
  <2> QED
    BY <2>2 DEF Was
<1>2. JobStep(0, Done)
  <2>1. jobs \in Seq(JobType)
    BY DEF IInv, TypeOK
  <2>2. 0 \notin DOMAIN jobs
    BY <2>1
  <2> QED
    BY <2>1, <2>2 DEF JobStep
<1>3. Target' = Target => BackingsInv'
  <2>1. ASSUME Target' = Target PROVE BackingsInv'
    BY <1>1, <1>2, <2>1, BackingsFrame, OpenFacts
  <2> QED
    BY <2>1
<1> HIDE DEF Done
<1>4. RefsInv(db', jobs')
  OBVIOUS
<1>5. Done.pc # "apply" /\ Done.pc # "target" /\ Done.kind \notin {"compact", "move", "deleteonly"}
  BY DoneType
<1> QED
  BY <1>1, <1>2, <1>3, <1>4, <1>5, DoneType, MemoryStep

(***************************************************************************)
(* Readers.                                                                *)
(***************************************************************************)
LEMMA IInvFacts ==
  ASSUME IInv
  PROVE  /\ DBInv(db, Target, io.zombies) /\ RefsInv(db, jobs) /\ ReadersInv(db, reader)
         /\ db \in DBType /\ io \in IOType /\ jobs \in Seq(JobType) /\ ckpt \in CkptType
         /\ reader \in ReaderType /\ db.current \in DOMAIN db.versions
         /\ db.readState \in Nat /\ db.nextFileNum \in Nat /\ db.writing \in BOOLEAN
         /\ db.disabled \in {0, 1} /\ db.current # 0
<1>1. db \in DBType /\ db.current \in DOMAIN db.versions
  BY DEF IInv, DBInv
<1>2. db.readState \in Nat /\ db.nextFileNum \in Nat /\ db.writing \in BOOLEAN
  BY <1>1 DEF DBType
<1>3. db.current # 0
  BY <1>1, DBTypeFacts DEF IInv, RefsInv
<1>4. db.disabled \in {0, 1}
  BY DEF IInv, PhaseInv
<1> QED
  BY <1>1, <1>2, <1>3, <1>4 DEF IInv, TypeOK

\* The references of read state s, when it has n of them.
SetRefs(d, s, n) ==
  [d.readStates EXCEPT ![s] = [version |-> d.readStates[s].version, refs |-> n]]

WithRefs(d, s, n) == [d EXCEPT !.readStates[s].refs = n]

LEMMA SetRefsFacts ==
  ASSUME NEW d, NEW T, NEW Z, NEW js, DBInv(d, T, Z), RefsInv(d, js),
         NEW s \in DOMAIN d.readStates, NEW n \in Int
  PROVE  LET e == SetReadStates(d, SetRefs(d, s, n), d.readState)
         IN  /\ DBInv(e, T, Z) /\ Releases(d, e, {}) /\ RefsInv(e, js)
             /\ e.readState = d.readState /\ e.versions = d.versions
             /\ DOMAIN e.readStates = DOMAIN d.readStates
             /\ \A r \in DOMAIN d.readStates :
                  e.readStates[r].refs = IF r = s THEN n ELSE d.readStates[r].refs
             /\ e = WithRefs(d, s, n)
<1> DEFINE R == SetRefs(d, s, n)
           e == SetReadStates(d, R, d.readState)
<1>1. d \in DBType
  BY DEF DBInv
<1>2. d.readStates \in Maps(ReadState) /\ d.readStates[s] \in ReadState /\ d.readState \in Nat
  BY <1>1, DBTypeFacts DEF DBType
<1>3. [version |-> d.readStates[s].version, refs |-> n] \in ReadState
  BY <1>2 DEF ReadState
<1>4. R \in Maps(ReadState)
  BY <1>2, <1>3, MapParts DEF SetRefs
<1>5. /\ DOMAIN R = DOMAIN d.readStates
      /\ \A r \in DOMAIN R : R[r].version = d.readStates[r].version
                             /\ R[r].refs = IF r = s THEN n ELSE d.readStates[r].refs
  BY <1>2, MapFacts DEF SetRefs
<1>6. R = [d.readStates EXCEPT ![s].refs = n]
  BY <1>2 DEF SetRefs, ReadState
<1>7. e = WithRefs(d, s, n)
  BY <1>1, <1>6 DEF SetReadStates, DBType, WithRefs
<1> HIDE DEF R
<1>8. /\ DBInv(e, T, Z) /\ Releases(d, e, {})
      /\ e.readStates = R /\ e.readState = d.readState /\ e.versions = d.versions
      /\ e.current = d.current
  BY <1>2, <1>4, ReadStatesFacts
<1> HIDE DEF e
<1>9. \A v : ReadersOf(e, v) = ReadersOf(d, v)
  BY <1>5, <1>8 DEF ReadersOf
<1>10. RefsInv(e, js)
  BY <1>5, <1>8, <1>9 DEF RefsInv
<1> QED
  BY <1>5, <1>7, <1>8, <1>10 DEF e, R

LEMMA ReadInv == ASSUME IInv, Read PROVE IInv'
<1> DEFINE s == db.readState
           n == db.readStates[s].refs + 1
           e == SetReadStates(db, SetRefs(db, s, n), s)
<1>1. /\ phase = "open" /\ reader.pc = "idle"
      /\ reader' = [pc |-> "reading", id |-> s]
      /\ db' = [db EXCEPT !.readStates[s].refs = n]
      /\ UNCHANGED <<disk, phase, io, jobs, ckpt, cleanup>>
  BY DEF Read
<1>2. s \in DOMAIN db.readStates /\ s \in Nat
  BY <1>1, IInvFacts DEF IInv, PhaseInv, ReadersInv
<1>3. db.readStates[s].refs \in Int /\ n \in Int
  BY <1>2, IInvFacts, DBTypeFacts DEF ReadState
<1> HIDE DEF n
<1>4. /\ DBInv(e, Target, io.zombies) /\ Releases(db, e, {}) /\ RefsInv(e, jobs)
      /\ e.readState = s /\ e.versions = db.versions
      /\ DOMAIN e.readStates = DOMAIN db.readStates
      /\ \A r \in DOMAIN db.readStates :
           e.readStates[r].refs = IF r = s THEN n ELSE db.readStates[r].refs
      /\ e = WithRefs(db, s, n)
  BY <1>2, <1>3, IInvFacts, SetRefsFacts
<1> HIDE DEF e
<1>5. ReadersInv(e, reader')
  <2>1. ReadersInv(db, reader)
    BY IInvFacts
  <2>2. db.readStates[s].refs = 1
    BY <1>1, <1>2, <2>1 DEF ReadersInv
  <2>3. n = 2
    BY <2>2 DEF n
  <2> QED
    BY <1>1, <1>2, <1>4, <2>1, <2>3 DEF ReadersInv
<1>6. db' = e
  BY <1>1, <1>4 DEF WithRefs
<1>7. reader' \in ReaderType
  BY <1>1, <1>2 DEF ReaderType
<1> QED
  BY <1>1, <1>4, <1>5, <1>6, <1>7, ReaderStep DEF Releases, e

LEMMA RemoveUnreferencedInv == ASSUME IInv, RemoveUnreferenced PROVE IInv'
<1> DEFINE v == reader.id
           e == RemoveVersion(db, v)
           rd == [pc |-> "schedule", id |-> 0]
<1>1. /\ reader.pc = "remove" /\ db' = e /\ reader' = rd
      /\ UNCHANGED <<disk, phase, io, jobs, ckpt, cleanup>>
  BY DEF RemoveUnreferenced
<1>2. phase = "open" /\ ReadersInv(db, reader) /\ RefsInv(db, jobs) /\ db \in DBType
  BY <1>1, OpenFacts, IInvFacts
<1>3. v \in DOMAIN db.versions /\ db.versions[v].refs = 0
  BY <1>1, <1>2 DEF ReadersInv
<1>4. \A w : Cardinality(ReadersOf(db, w)) \in Nat /\ Cardinality(JobsOf(jobs, w)) \in Nat
             /\ IsFiniteSet(ReadersOf(db, w)) /\ IsFiniteSet(JobsOf(jobs, w))
  BY <1>2, IInvFacts, HoldersFinite DEF RefsInv
<1>5. v # db.current /\ ReadersOf(db, v) = {} /\ JobsOf(jobs, v) = {}
  <2>1. db.versions[v].refs = (IF v = db.current THEN 1 ELSE 0)
          + Cardinality(ReadersOf(db, v)) + Cardinality(JobsOf(jobs, v))
    BY <1>2, <1>3 DEF RefsInv
  <2>2. Cardinality(ReadersOf(db, v)) = 0 /\ Cardinality(JobsOf(jobs, v)) = 0 /\ v # db.current
    BY <1>3, <1>4, <2>1
  <2> QED
    BY <1>4, <2>2, CardParts
<1> HIDE DEF v
<1>6. /\ DBInv(e, Target, io.zombies) /\ Releases(db, e, {})
      /\ e = [db EXCEPT !.versions = Without(db.versions, {v}),
                        !.obsolete = e.obsolete, !.panic = e.panic]
  BY <1>3, <1>5, IInvFacts, RemoveVersionFacts
<1> HIDE DEF e
<1>7. /\ e.versions = Without(db.versions, {v}) /\ e.readStates = db.readStates
      /\ e.readState = db.readState /\ e.current = db.current
  <2> DEFINE o == e.obsolete
             p == e.panic
             V == Without(db.versions, {v})
  <2>1. e = [db EXCEPT !.versions = V, !.obsolete = o, !.panic = p]
    BY <1>6
  <2> HIDE DEF o, p, V
  <2>2. e.versions = V /\ e.readStates = db.readStates
        /\ e.readState = db.readState /\ e.current = db.current
    BY <1>2, <2>1 DEF DBType
  <2> QED
    BY <2>2 DEF V
<1>8. DOMAIN e.versions = DOMAIN db.versions \ {v}
      /\ \A w \in DOMAIN e.versions : e.versions[w] = db.versions[w]
  BY <1>7 DEF Without
<1>9. \A w : ReadersOf(e, w) = ReadersOf(db, w)
  BY <1>7 DEF ReadersOf
<1>10. RefsInv(e, jobs)
  <2>1. \A r \in DOMAIN db.readStates : db.readStates[r].version # v
    BY <1>5 DEF ReadersOf
  <2>2. \A j \in DOMAIN jobs : jobs[j].version # v
    BY <1>5 DEF JobsOf
  <2> QED
    BY <1>2, <1>7, <1>8, <1>9, <2>1, <2>2 DEF RefsInv
<1>11. ReadersInv(e, rd)
  BY <1>1, <1>2, <1>7, <1>8 DEF ReadersInv, v
<1>12. rd \in ReaderType
  BY DEF ReaderType
<1> HIDE DEF rd
<1> QED
  BY <1>1, <1>2, <1>6, <1>10, <1>11, <1>12, ReaderStep DEF Releases

LEMMA ScheduleInv == ASSUME IInv, Schedule PROVE IInv'
<1>1. /\ reader.pc = "schedule" /\ reader' = NoRead
      /\ db' = IF db.obsolete = {} THEN db ELSE DeleteObsoleteFiles(db)
      /\ UNCHANGED <<disk, phase, io, jobs, ckpt, cleanup>>
  BY DEF Schedule
<1>2. phase = "open"
  BY <1>1, OpenFacts
<1>3. ReadersInv(db, reader')
  BY <1>1, IInvFacts DEF ReadersInv, NoRead
<1>4. db.disabled \in Nat
  BY IInvFacts
<1>5. CASE db.obsolete = {}
  <2>1. Lets(db, db, {})
    BY IInvFacts DEF Lets
  <2> QED
    BY <1>1, <1>2, <1>3, <1>5, <2>1, IInvFacts, ReaderStep DEF NoRead, ReaderType
<1>6. CASE db.obsolete # {}
  <2> DEFINE e == DeleteObsoleteFiles(db)
  <2>1. /\ DBInv(e, Target, io.zombies) /\ Releases(db, e, {})
        /\ RefsInv(e, jobs) /\ ReadersInv(e, reader')
    BY <1>3, <1>4, IInvFacts, DeleteObsoleteFacts
  <2> HIDE DEF e
  <2>2. db' = e
    BY <1>1, <1>6 DEF e
  <2>3. reader' \in ReaderType
    BY <1>1 DEF NoRead, ReaderType
  <2> QED
    BY <1>1, <1>2, <2>1, <2>2, <2>3, ReaderStep DEF Releases
<1> QED
  BY <1>5, <1>6

\* The references of version v, when it has n of them.
SetCount(d, v, n) ==
  [d EXCEPT !.versions = [d.versions EXCEPT ![v] = [tables |-> d.versions[v].tables, refs |-> n]]]

LEMMA SetCountFacts ==
  ASSUME NEW d, NEW T, NEW Z, DBInv(d, T, Z), NEW v \in DOMAIN d.versions, NEW n \in Int
  PROVE  LET e == SetCount(d, v, n)
         IN  /\ DBInv(e, T, Z) /\ Releases(d, e, {})
             /\ DOMAIN e.versions = DOMAIN d.versions
             /\ \A w \in DOMAIN d.versions :
                  e.versions[w].refs = IF w = v THEN n ELSE d.versions[w].refs
             /\ e.readStates = d.readStates /\ e.readState = d.readState
             /\ e.current = d.current
<1> DEFINE x == [tables |-> d.versions[v].tables, refs |-> n]
           V == [d.versions EXCEPT ![v] = x]
           e == [d EXCEPT !.versions = V]
<1>1. d \in DBType /\ d.current \in DOMAIN d.versions
  BY DEF DBInv
<1>2. d.versions \in Maps(Version) /\ d.versions[v] \in Version
  BY <1>1, DBTypeFacts
<1>3. x \in Version
  BY <1>2 DEF Version
<1>4. V \in Maps(Version)
  BY <1>2, <1>3, MapParts
<1>5. /\ DOMAIN V = DOMAIN d.versions
      /\ \A w \in DOMAIN V : V[w].tables = d.versions[w].tables
                             /\ V[w].refs = IF w = v THEN n ELSE d.versions[w].refs
  BY <1>2, MapFacts
<1> HIDE DEF V
<1>6. e \in DBType
  BY <1>1, <1>4 DEF DBType
<1>7. /\ e.versions = V /\ e.current = d.current /\ e.backings = d.backings
      /\ e.held = d.held /\ e.zombies = d.zombies /\ e.late = d.late
      /\ e.obsolete = d.obsolete /\ e.panic = d.panic /\ e.readState = d.readState
      /\ e.obsoleteManifests = d.obsoleteManifests
      /\ e.nextFileNum = d.nextFileNum /\ e.manifestFileNum = d.manifestFileNum
      /\ e.writing = d.writing /\ e.manifest = d.manifest
      /\ e.disabled = d.disabled /\ e.readStates = d.readStates
  BY <1>1 DEF DBType
<1> HIDE DEF e
<1>8. Refd(e) = Refd(d) /\ Base(e) = Base(d) /\ DoomedIn(e) = DoomedIn(d)
      /\ LateManifests(e) = LateManifests(d)
  <2>1. Current(e) = Current(d)
    BY <1>1, <1>5, <1>7 DEF Current
  <2> QED
    BY <2>1, <1>5, <1>7 DEF Refd, Base, DoomedIn, LateTables, LateManifests
<1>9. DBInv(e, T, Z)
  BY <1>5, <1>6, <1>7, <1>8 DEF DBInv
<1>10. Releases(d, e, {})
  BY <1>1, <1>5, <1>7, <1>8, DBTypeFacts DEF Releases, Lets
<1> QED
  BY <1>5, <1>7, <1>9, <1>10 DEF SetCount, e, V

\* A version with other references.
LEMMA VersionRefs ==
  ASSUME NEW x \in Version, NEW n
  PROVE  [x EXCEPT !.refs = n] = [tables |-> x.tables, refs |-> n]
BY DEF Version

LEMMA UnrefInv == ASSUME IInv, Unref PROVE IInv'
<1> DEFINE r == reader.id
           y == db.readStates[r]
           v == y.version
           s == db.readState
<1>1. reader.pc = "reading" /\ UNCHANGED <<disk, phase, io, jobs, ckpt, cleanup>>
  BY DEF Unref
<1>2. phase = "open" /\ ReadersInv(db, reader) /\ RefsInv(db, jobs) /\ db \in DBType
      /\ DBInv(db, Target, io.zombies)
  BY <1>1, OpenFacts, IInvFacts
<1>3. r \in DOMAIN db.readStates /\ v \in DOMAIN db.versions
      /\ y.refs = (IF r = s THEN 1 ELSE 0) + 1 /\ s # 0 /\ s \in DOMAIN db.readStates
  BY <1>1, <1>2 DEF ReadersInv, RefsInv, IInv, PhaseInv
<1>4. CASE y.refs > 1
  <2> DEFINE n == y.refs - 1
             e == SetReadStates(db, SetRefs(db, r, n), s)
  <2>1. db' = [db EXCEPT !.readStates[r].refs = n] /\ reader' = NoRead
    BY <1>4 DEF Unref
  <2>2. n = 1 /\ r = s
    BY <1>3, <1>4
  <2> HIDE DEF n
  <2>3. n \in Int
    BY <2>2
  <2> HIDE DEF r
  <2>4. /\ DBInv(e, Target, io.zombies) /\ Releases(db, e, {}) /\ RefsInv(e, jobs)
        /\ e.readState = s /\ e.versions = db.versions
        /\ DOMAIN e.readStates = DOMAIN db.readStates
        /\ \A q \in DOMAIN db.readStates :
             e.readStates[q].refs = IF q = r THEN n ELSE db.readStates[q].refs
        /\ e = WithRefs(db, r, n)
    BY <1>2, <1>3, <2>3, SetRefsFacts
  <2> HIDE DEF e
  <2>5. ReadersInv(e, reader')
    BY <1>1, <1>2, <1>3, <2>1, <2>2, <2>4 DEF ReadersInv, NoRead, r
  <2>6. db' = e
    BY <2>1, <2>4 DEF WithRefs
  <2>7. reader' \in ReaderType
    BY <2>1 DEF NoRead, ReaderType
  <2> QED
    BY <1>1, <1>2, <2>4, <2>5, <2>6, <2>7, ReaderStep DEF Releases
<1>5. CASE ~(y.refs > 1)
  <2> DEFINE n == db.versions[v].refs - 1
             R == Without(db.readStates, {r})
             rd == IF db.versions[v].refs > 1 THEN [pc |-> "schedule", id |-> 0]
                   ELSE [pc |-> "remove", id |-> v]
             c == SetReadStates(db, R, s)
             e == SetCount(c, v, n)
  <2>1. db' = [db EXCEPT !.readStates = R, !.versions[v].refs = n] /\ reader' = rd
    BY <1>5 DEF Unref
  <2>2. r # s
    BY <1>3, <1>5
  <2>3. /\ db.versions[v] \in Version /\ db.versions[v].refs \in Int /\ n \in Int
        /\ db.versions \in Maps(Version) /\ db.readStates \in Maps(ReadState) /\ s \in Nat
        /\ v \in Nat
    BY <1>2, <1>3, DBTypeFacts, IInvFacts
  <2>4. R \in Maps(ReadState)
    BY <2>3, MapParts
  <2>5. DOMAIN R = DOMAIN db.readStates \ {r} /\ \A q \in DOMAIN R : R[q] = db.readStates[q]
    BY DEF Without
  <2>6. e = [db EXCEPT !.readStates = R, !.versions[v].refs = n]
    <3> DEFINE w == [tables |-> db.versions[v].tables, refs |-> n]
    <3>1. [db.versions[v] EXCEPT !.refs = n] = w
      <4> DEFINE a == db.versions[v]
      <4>1. a \in Version
        BY <2>3
      <4> HIDE DEF a, n
      <4>2. [a EXCEPT !.refs = n] = [tables |-> a.tables, refs |-> n]
        BY <4>1, VersionRefs
      <4> QED
        BY <4>2 DEF a
    <3>2. c.versions = db.versions
      BY <1>2 DEF SetReadStates, DBType
    <3>3. c = [db EXCEPT !.readStates = R]
      BY <1>2 DEF SetReadStates, DBType
    <3> HIDE DEF c
    <3>4. e = [c EXCEPT !.versions = [db.versions EXCEPT ![v] = w]]
      BY <3>2 DEF SetCount
    <3>5. [db EXCEPT !.readStates = R, !.versions[v].refs = n] =
             [db EXCEPT !.readStates = R, !.versions = [db.versions EXCEPT ![v] = w]]
      <4> HIDE DEF n, R, v
      <4> QED
        BY <1>2, <3>1 DEF DBType
    <3> HIDE DEF R, w, v, n
    <3>6. [c EXCEPT !.versions = [db.versions EXCEPT ![v] = w]] =
             [db EXCEPT !.readStates = R, !.versions = [db.versions EXCEPT ![v] = w]]
      BY <1>2, <3>3 DEF DBType
    <3> QED
      BY <3>4, <3>5, <3>6 DEF R, w, v, n
  <2> HIDE DEF R, n
  <2>7. /\ DBInv(c, Target, io.zombies) /\ Releases(db, c, {})
        /\ c.readStates = R /\ c.readState = s /\ c.versions = db.versions
        /\ c.current = db.current
    BY <1>2, <1>3, <2>3, <2>4, ReadStatesFacts
  <2> HIDE DEF c
  <2>8. v \in DOMAIN c.versions
    BY <1>3, <2>7
  <2> HIDE DEF v
  <2>9. /\ DBInv(e, Target, io.zombies) /\ Releases(c, e, {})
        /\ DOMAIN e.versions = DOMAIN c.versions
        /\ \A w \in DOMAIN c.versions :
             e.versions[w].refs = IF w = v THEN n ELSE c.versions[w].refs
        /\ e.readStates = c.readStates /\ e.readState = c.readState
        /\ e.current = c.current
    BY <2>3, <2>7, <2>8, SetCountFacts
  <2> HIDE DEF e
  <2>10. Releases(db, e, {})
    BY <1>2, <2>7, <2>9, ReleasesChain DEF DBInv
  <2>11. /\ ReadersOf(e, v) = ReadersOf(db, v) \ {r} /\ r \in ReadersOf(db, v)
         /\ \A w : w # v => ReadersOf(e, w) = ReadersOf(db, w)
    BY <1>3, <2>5, <2>7, <2>9 DEF ReadersOf, v
  <2>12. ASSUME NEW w \in DOMAIN db.versions
         PROVE  Cardinality(ReadersOf(e, w)) = Cardinality(ReadersOf(db, w)) - (IF w = v THEN 1 ELSE 0)
                /\ Cardinality(ReadersOf(db, w)) \in Nat /\ Cardinality(JobsOf(jobs, w)) \in Nat
                /\ db.versions[w].refs = (IF w = db.current THEN 1 ELSE 0)
                        + Cardinality(ReadersOf(db, w)) + Cardinality(JobsOf(jobs, w))
    <3>1. IsFiniteSet(ReadersOf(db, w)) /\ Cardinality(ReadersOf(db, w)) \in Nat
          /\ Cardinality(JobsOf(jobs, w)) \in Nat
      BY <1>2, IInvFacts, HoldersFinite DEF RefsInv
    <3>2. Cardinality(ReadersOf(e, w)) = Cardinality(ReadersOf(db, w)) - (IF w = v THEN 1 ELSE 0)
      BY <2>11, <3>1, CardParts
    <3> QED
      BY <1>2, <3>1, <3>2 DEF RefsInv
  <2>13. RefsInv(e, jobs)
    <3>1. ASSUME NEW w \in DOMAIN e.versions
          PROVE  e.versions[w].refs = (IF w = e.current THEN 1 ELSE 0)
                   + Cardinality(ReadersOf(e, w)) + Cardinality(JobsOf(jobs, w))
      BY <2>7, <2>9, <2>12 DEF n
    <3>2. /\ DOMAIN e.versions \subseteq 1 .. e.current
          /\ DOMAIN e.readStates \subseteq 1 .. e.readState
          /\ \A q \in DOMAIN e.readStates : e.readStates[q].version \in DOMAIN e.versions
          /\ \A k \in DOMAIN jobs : jobs[k].version \in DOMAIN e.versions \cup {0}
      BY <1>2, <2>5, <2>7, <2>9 DEF RefsInv
    <3> QED
      BY <3>1, <3>2 DEF RefsInv
  <2>14. ReadersInv(e, rd)
    <3>1. db.versions[v].refs >= 1
      <4>1. v \in DOMAIN db.versions
        BY <2>7, <2>8
      <4>2. Cardinality(ReadersOf(db, v)) # 0
        BY <2>11, <1>2, IInvFacts, HoldersFinite, CardParts DEF RefsInv
      <4> QED
        BY <2>12, <4>1, <4>2
    <3>2. \A w \in DOMAIN e.versions : e.versions[w].refs = 0 <=> (rd.pc = "remove" /\ rd.id = w)
      <4>1. \A w \in DOMAIN db.versions : db.versions[w].refs # 0
        BY <1>1, <1>2 DEF ReadersInv
      <4>2. v \in DOMAIN db.versions
        BY <2>7, <2>8
      <4>3. rd.pc = "remove" <=> ~(db.versions[v].refs > 1)
        OBVIOUS
      <4>4. rd.pc = "remove" => rd.id = v
        OBVIOUS
      <4> HIDE DEF rd
      <4>5. n = 0 <=> rd.pc = "remove"
        BY <2>3, <3>1, <4>3 DEF n, v
      <4> QED
        BY <2>7, <2>9, <4>1, <4>4, <4>5
    <3>3. rd.pc = "remove" => rd.id \in DOMAIN e.versions
      BY <2>7, <2>8, <2>9
    <3>4. rd.pc # "reading"
      OBVIOUS
    <3>5. ASSUME NEW q \in DOMAIN e.readStates
          PROVE  /\ e.readStates[q].refs = (IF q = e.readState THEN 1 ELSE 0)
                                   + (IF rd.pc = "reading" /\ rd.id = q THEN 1 ELSE 0)
                 /\ e.readStates[q].refs # 0
      <4>1. q \in DOMAIN db.readStates /\ q # r /\ e.readStates[q] = db.readStates[q]
            /\ e.readState = s
        BY <2>5, <2>7, <2>9
      <4>2. db.readStates[q].refs = (IF q = s THEN 1 ELSE 0) /\ db.readStates[q].refs # 0
        BY <1>1, <1>2, <4>1 DEF ReadersInv
      <4> HIDE DEF rd
      <4> QED
        BY <3>4, <4>1, <4>2
    <3>6. e.readState # 0 => e.readState \in DOMAIN e.readStates
      BY <1>3, <2>2, <2>5, <2>7, <2>9
    <3> HIDE DEF rd
    <3> QED
      BY <3>2, <3>3, <3>4, <3>5, <3>6 DEF ReadersInv
  <2>15. rd \in ReaderType
    BY <2>3 DEF ReaderType, v
  <2>16. db' = e /\ reader' = rd
    BY <2>1, <2>6
  <2> HIDE DEF rd
  <2> QED
    BY <1>1, <1>2, <2>9, <2>10, <2>13, <2>14, <2>15, <2>16, ReaderStep DEF Releases
<1> QED
  BY <1>4, <1>5

(***************************************************************************)
(* Jobs, up to the manifest lock.                                          *)
(***************************************************************************)
LEMMA JobChanged ==
  ASSUME NEW j, NEW x \in JobType, jobs \in Seq(JobType)
  PROVE  /\ j \in DOMAIN jobs /\ jobs' = [jobs EXCEPT ![j] = x] => JobStep(j, x) /\ Was(j) = jobs[j]
         /\ jobs' = Append(jobs, x) => JobStep(Len(jobs) + 1, x) /\ Was(Len(jobs) + 1) = Done
<1>1. ASSUME j \in DOMAIN jobs, jobs' = [jobs EXCEPT ![j] = x]
      PROVE  JobStep(j, x) /\ Was(j) = jobs[j]
  BY <1>1, JobParts DEF JobStep, Was
<1>2. ASSUME jobs' = Append(jobs, x)
      PROVE  JobStep(Len(jobs) + 1, x) /\ Was(Len(jobs) + 1) = Done
  BY <1>2, JobParts DEF JobStep, Was
<1> QED
  BY <1>1, <1>2

\* The references stay when no job takes or drops one.
LEMMA SameVersions ==
  ASSUME NEW d, RefsInv(d, jobs), NEW j, NEW x, JobStep(j, x), x.version = Was(j).version,
         0 \notin DOMAIN d.versions
  PROVE  RefsInv(d, jobs')
<1>0. Done.version = 0
  BY DEF Done
<1>1. ASSUME NEW v \in DOMAIN d.versions PROVE JobsOf(jobs', v) = JobsOf(jobs, v)
  BY <1>0 DEF JobStep, Was, JobsOf
<1>2. \A i \in DOMAIN jobs' : jobs'[i].version \in DOMAIN d.versions \cup {0}
  BY <1>0 DEF JobStep, Was, RefsInv
<1> QED
  BY <1>1, <1>2 DEF RefsInv

LEMMA VersionNumbers ==
  ASSUME NEW d, NEW js, RefsInv(d, js), d \in DBType PROVE 0 \notin DOMAIN d.versions
BY DBTypeFacts DEF RefsInv

LEMMA SameDB ==
  ASSUME IInv
  PROVE  Lets(db, db, {}) /\ 0 \notin DOMAIN db.versions
BY IInvFacts, VersionNumbers DEF Lets

\* A job is added that has taken nothing yet.
LEMMA AddJob ==
  ASSUME IInv, phase = "open", NEW x \in JobType, jobs' = Append(jobs, x),
         UNCHANGED <<disk, phase, db, io, ckpt, reader, cleanup>>,
         JobOK(x), InputsInv(x, db, Target), x.edit = NoEdit, x.prot = 0, x.version = 0,
         x.pc # "apply", x.pc # "target", InputsOf(x) \subseteq Taken,
         x.kind \in {"compact", "move", "deleteonly"} => \A i \in DOMAIN jobs : ~Compaction(i)
  PROVE  IInv'
<1> DEFINE j == Len(jobs) + 1
<1>1. JobStep(j, x) /\ Was(j) = Done
  BY IInvFacts, JobChanged
<1>2. Own(x) = {}
  BY DEF Own, NoEdit, Edit, Numbers
<1>3. RefsInv(db, jobs')
  <2>1. Done.version = 0
    BY DEF Done
  <2> HIDE DEF j
  <2> QED
    BY <1>1, <2>1, IInvFacts, SameDB, SameVersions
<1>4. Target' = Target => BackingsInv'
  <2>1. db'.backings = db.backings /\ x.prot = Was(j).prot /\ Up
    BY <1>1, DoneType DEF Up
  <2> HIDE DEF j
  <2> QED
    BY <1>1, <2>1, BackingsFrame
<1> HIDE DEF j
<1>5. Was(j).pc # "apply"
  BY <1>1, DoneType
<1>6. UNCHANGED <<db, disk, phase, io, ckpt, cleanup, reader>>
  OBVIOUS
<1>7. {} \subseteq Own(Was(j)) \cup Taken /\ {} \cap Own(x) = {}
  OBVIOUS
<1> QED
  BY <1>1, <1>2, <1>3, <1>4, <1>5, <1>6, <1>7, SameDB, IInvFacts, MemoryStep

LEMMA BeginFlushInv == ASSUME IInv, BeginFlush PROVE IInv'
<1> DEFINE x == [Done EXCEPT !.kind = "flush", !.pc = "run"]
<1>1. /\ phase = "open" /\ jobs' = Append(jobs, x)
      /\ UNCHANGED <<disk, phase, db, io, ckpt, reader, cleanup>>
  BY DEF BeginFlush, BeginJob, MayBegin
<1>2. /\ x \in JobType /\ x.kind = "flush" /\ x.pc = "run" /\ x.in = {} /\ x.edit = NoEdit
      /\ x.version = 0 /\ x.prot = 0
  <2>1. /\ Done.in = {} /\ Done.edit = NoEdit /\ Done.version = 0 /\ Done.prot = 0
    BY DEF Done
  <2> QED
    BY <2>1, DoneType DEF JobType
<1> HIDE DEF x
<1>3. x \in JobType
  BY <1>2
<1>4. JobOK(x) /\ InputsInv(x, db, Target)
  BY <1>2 DEF JobOK, Places, Pending, InputsInv
<1>5. x.edit = NoEdit /\ x.prot = 0 /\ x.version = 0 /\ x.pc = "run" /\ x.kind = "flush"
      /\ InputsOf(x) = {}
  BY <1>2 DEF Backings, Numbers, InputsOf
<1> QED
  BY <1>1, <1>3, <1>4, <1>5, AddJob

LEMMA SpanFacts == \A S \in Spans : S \subseteq Keys /\ S # {}
<1>1. SUFFICES ASSUME NEW S \in Spans PROVE S \subseteq Keys /\ S # {}
  OBVIOUS
<1>2. S \in {a .. b : a, b \in Keys} /\ S # {}
  BY KindsAssumption
<1>3. PICK a \in Keys, b \in Keys : S = a .. b
  BY <1>2
<1> QED
  BY <1>2, <1>3 DEF Keys

Picked(k, T, S) ==
  [Done EXCEPT !.kind = k, !.pc = "start", !.in = T, !.span = S]

LEMMA PickCompactionInv == ASSUME IInv, PickCompaction PROVE IInv'
<1>1. PICK x \in Picks : x.in # {} /\ BeginJob(x)
  BY DEF PickCompaction
<1>2. /\ phase = "open" /\ jobs' = Append(jobs, x) /\ ~db.writing
      /\ UNCHANGED <<disk, phase, db, io, ckpt, reader, cleanup>>
      /\ \A j \in Unfinished : ~Compaction(j)
  BY <1>1 DEF PickCompaction, BeginJob, MayBegin
<1>3. PICK k, T, S :
        /\ x = Picked(k, T, S)
        /\ k \in {"compact", "move", "deleteonly"} /\ T \subseteq Current(db) /\ S \subseteq Keys
        /\ k = "deleteonly" => \E t \in T : T = {t}
  <2> DEFINE Level(l) == {t \in Current(db) : t.level = l}
             Below(U) == {u \in Level(1) : \E t \in U : Overlaps(KeysOf(t), KeysOf(u))}
             A == {Picked("compact", T, {}) :
                     T \in {Level(0) \cup Below(Level(0))} \cup {{t} : t \in Level(1)}}
             B == {Picked("move", {t}, {}) : t \in {u \in Level(0) : Below({u}) = {}}}
             C == {Picked("deleteonly", {c[1]}, c[2]) :
                     c \in {p \in Current(db) \X Spans : Overlaps(KeysOf(p[1]), p[2])}}
  <2>0. Picks = A \cup B \cup C
    BY DEF Picks, Picked
  <2>1. CASE x \in A
    <3>1. PICK T \in {Level(0) \cup Below(Level(0))} \cup {{t} : t \in Level(1)} :
            x = Picked("compact", T, {})
      BY <2>1
    <3>2. T \subseteq Current(db)
      BY <3>1
    <3> HIDE DEF A, B, C
    <3> QED
      BY <3>1, <3>2
  <2>2. CASE x \in B
    <3>1. PICK t \in Level(0) : x = Picked("move", {t}, {})
      BY <2>2
    <3>2. {t} \subseteq Current(db)
      BY <3>1
    <3> HIDE DEF A, B, C
    <3> QED
      BY <3>1, <3>2
  <2>3. CASE x \in C
    <3>1. PICK c \in Current(db) \X Spans : x = Picked("deleteonly", {c[1]}, c[2])
      BY <2>3
    <3>2. c[1] \in Current(db) /\ c[2] \in Spans
      BY <3>1
    <3>3. c[2] \subseteq Keys
      BY <3>2, SpanFacts
    <3> HIDE DEF A, B, C
    <3> QED
      BY <3>1, <3>2, <3>3
  <2> HIDE DEF A, B, C
  <2> QED
    BY <1>1, <2>0, <2>1, <2>2, <2>3
<1>4. x = [kind |-> k, pc |-> "start", in |-> T, span |-> S, edit |-> NoEdit,
           version |-> 0, cancel |-> FALSE, err |-> FALSE, prot |-> 0]
  BY <1>3 DEF Done, Picked
<1>5. T \in TableSets
  <2>1. Current(db) \in TableSets
    BY IInvFacts, DBTypeFacts DEF Current
  <2> QED
    BY <1>3, <2>1, TableSetFacts
<1>6. x \in JobType
  BY <1>3, <1>4, <1>5, DoneType DEF JobType
<1>7. Idle /\ Target = Current(db)
  BY <1>2 DEF IInv, IoInv, Target
<1>8. JobOK(x) /\ InputsInv(x, db, Target)
  <2>1. /\ x.kind = k /\ x.pc = "start" /\ x.in = T /\ x.edit = NoEdit /\ x.version = 0
        /\ x.prot = 0 /\ x.cancel = FALSE
    BY <1>4
  <2>2. JobOK(x)
    BY <1>3, <2>1 DEF JobOK, Places, Pending
  <2>3. InputsInv(x, db, Target)
    BY <1>3, <1>7, <2>1 DEF InputsInv
  <2> QED
    BY <2>2, <2>3
<1>9. x.edit = NoEdit /\ x.prot = 0 /\ x.version = 0 /\ x.pc = "start" /\ x.in = T
  BY <1>4
<1>10. InputsOf(x) \subseteq Taken
  <2>1. T \subseteq Target
    BY <1>3, <1>7
  <2>2. Numbers(T) \subseteq Numbers(Target) /\ Backings(T) \subseteq Backings(Target)
    BY <2>1 DEF Numbers, Backings
  <2> QED
    BY <1>9, <2>2, BaseRefd DEF Taken, InputsOf
<1>11. \A i \in DOMAIN jobs : ~Compaction(i)
  <2>1. SUFFICES ASSUME NEW i \in DOMAIN jobs, Compaction(i) PROVE FALSE
    OBVIOUS
  <2>2. jobs[i].pc = "done"
    BY <1>2, <2>1 DEF Unfinished
  <2>3. jobs[i].pc \in Places(jobs[i].kind)
    BY DEF IInv, JobsInv, JobOK
  <2> QED
    BY <2>1, <2>2, <2>3 DEF Places, Compaction
<1> QED
  BY <1>2, <1>6, <1>8, <1>9, <1>10, <1>11, AddJob

LEMMA ImageFinite ==
  ASSUME NEW S, IsFiniteSet(S), NEW f, DOMAIN f = S
  PROVE  IsFiniteSet({f[x] : x \in S})
<1> DEFINE T == {f[x] : x \in S}
           g == [x \in S |-> f[x]]
<1>1. g \in Surjection(S, T)
  BY DEF Surjection
<1> QED
  BY <1>1, FS_Surjection

\* The store is open while a job runs.
LEMMA JobFacts ==
  ASSUME IInv, NEW j \in DOMAIN jobs
  PROVE  /\ jobs[j] \in JobType /\ JobOK(jobs[j]) /\ InputsInv(jobs[j], db, Target)
         /\ Was(j) = jobs[j]
         /\ jobs[j].pc # "done" => phase = "open" /\ Up
         /\ InputsOf(jobs[j]) \subseteq Taken
         /\ jobs[j].version \in DOMAIN db.versions \cup {0}
<1>1. jobs[j] \in JobType /\ JobOK(jobs[j]) /\ InputsInv(jobs[j], db, Target)
  BY DEF IInv, TypeOK, JobsInv
<1>2. jobs[j].pc # "done" => phase = "open" /\ Up
  BY OpenFacts DEF Up
<1>3. InputsOf(jobs[j]) \subseteq Taken
  BY DEF Inputs, Taken
<1>4. jobs[j].version \in DOMAIN db.versions \cup {0}
  BY DEF IInv, RefsInv
<1> QED
  BY <1>1, <1>2, <1>3, <1>4 DEF Was

\* One more job reads the current version.
LEMMA RefJob ==
  ASSUME IInv, NEW j \in DOMAIN jobs, NEW x, JobStep(j, x), jobs[j].version = 0,
         x.version = db.current
  PROVE  LET e == Ref(db, db.current)
         IN  /\ DBInv(e, Target, io.zombies) /\ Releases(db, e, {})
             /\ RefsInv(e, jobs') /\ ReadersInv(e, reader)
<1> DEFINE c == db.current
           n == db.versions[c].refs + 1
           e == SetCount(db, c, n)
<1>1. /\ DBInv(db, Target, io.zombies) /\ RefsInv(db, jobs) /\ ReadersInv(db, reader)
      /\ db \in DBType /\ c \in DOMAIN db.versions /\ c # 0
  BY IInvFacts
<1>2. db.versions[c] \in Version /\ db.versions[c].refs \in Int /\ n \in Int
      /\ \A v \in DOMAIN db.versions : db.versions[v].refs \in Int
  BY <1>1, DBTypeFacts
<1>3. Ref(db, c) = e
  <2> DEFINE w == [tables |-> db.versions[c].tables, refs |-> n]
  <2>1. [db.versions[c] EXCEPT !.refs = n] = w
    BY <1>2 DEF Version
  <2>2. e = [db EXCEPT !.versions = [db.versions EXCEPT ![c] = w]]
    BY DEF SetCount
  <2> HIDE DEF e, w, c, n
  <2>3. Ref(db, c) = [db EXCEPT !.versions = [db.versions EXCEPT ![c] = w]]
    BY <1>1, <2>1 DEF Ref, DBType, c, n
  <2> QED
    BY <2>2, <2>3
<1> HIDE DEF n
<1>4. /\ DBInv(e, Target, io.zombies) /\ Releases(db, e, {})
      /\ DOMAIN e.versions = DOMAIN db.versions
      /\ \A w \in DOMAIN db.versions :
           e.versions[w].refs = IF w = c THEN n ELSE db.versions[w].refs
      /\ e.readStates = db.readStates /\ e.readState = db.readState
      /\ e.current = db.current
  BY <1>1, <1>2, SetCountFacts
<1> HIDE DEF e
<1>5. JobsOf(jobs', c) = JobsOf(jobs, c) \cup {j} /\ j \notin JobsOf(jobs, c)
      /\ \A v : v # c /\ v # 0 => JobsOf(jobs', v) = JobsOf(jobs, v)
  BY <1>1 DEF JobStep, JobsOf
<1>6. \A v : ReadersOf(e, v) = ReadersOf(db, v)
  BY <1>4 DEF ReadersOf
<1>7. ASSUME NEW v \in DOMAIN db.versions
      PROVE  e.versions[v].refs = (IF v = e.current THEN 1 ELSE 0)
               + Cardinality(ReadersOf(e, v)) + Cardinality(JobsOf(jobs', v))
  <2>1. /\ Cardinality(ReadersOf(db, v)) \in Nat /\ IsFiniteSet(JobsOf(jobs, v))
        /\ Cardinality(JobsOf(jobs, v)) \in Nat
    BY <1>1, IInvFacts, HoldersFinite DEF RefsInv
  <2>2. v # 0
    BY <1>1, SameDB
  <2>3. Cardinality(JobsOf(jobs', v)) = Cardinality(JobsOf(jobs, v)) + IF v = c THEN 1 ELSE 0
    BY <1>5, <2>1, <2>2, CardParts
  <2>4. db.versions[v].refs = (IF v = c THEN 1 ELSE 0)
               + Cardinality(ReadersOf(db, v)) + Cardinality(JobsOf(jobs, v))
    BY <1>1 DEF RefsInv
  <2> QED
    BY <1>4, <1>6, <2>1, <2>3, <2>4 DEF n
<1>8. \A i \in DOMAIN jobs' : jobs'[i].version \in DOMAIN e.versions \cup {0}
  BY <1>1, <1>4 DEF JobStep, RefsInv
<1>9. RefsInv(e, jobs')
  BY <1>1, <1>4, <1>6, <1>7, <1>8 DEF RefsInv
<1>10. db.versions[c].refs >= 1
  <2>1. Cardinality(ReadersOf(db, c)) \in Nat /\ Cardinality(JobsOf(jobs, c)) \in Nat
    BY <1>1, IInvFacts, HoldersFinite DEF RefsInv
  <2>2. db.versions[c].refs = 1 + Cardinality(ReadersOf(db, c)) + Cardinality(JobsOf(jobs, c))
    BY <1>1 DEF RefsInv
  <2> QED
    BY <2>1, <2>2
<1>11. ReadersInv(e, reader)
  <2>1. n # 0 /\ db.versions[c].refs # 0
    BY <1>2, <1>10 DEF n
  <2> QED
    BY <1>1, <1>4, <2>1 DEF ReadersInv
<1> QED
  BY <1>3, <1>4, <1>9, <1>11

LEMMA StartCompactionInv ==
  ASSUME IInv, NEW j \in DOMAIN jobs, StartCompaction(j) PROVE IInv'
<1> DEFINE a == jobs[j]
<1>1. a.pc = "start" /\ UNCHANGED <<disk, phase, io, ckpt, reader, cleanup>>
  BY DEF StartCompaction
<1>2. /\ a \in JobType /\ JobOK(a) /\ InputsInv(a, db, Target) /\ Was(j) = a
      /\ phase = "open" /\ Up /\ InputsOf(a) \subseteq Taken
  BY <1>1, JobFacts
<1>3. /\ a.version = 0 /\ a.edit = NoEdit /\ a.kind \in {"compact", "move", "deleteonly"}
      /\ a.prot = 0 /\ a.in \in TableSets
  BY <1>1, <1>2 DEF JobOK, InputsInv, Places, JobType
<1>4. Own(a) = {}
  BY <1>1 DEF Own, Pending
<1>5. jobs \in Seq(JobType) /\ a.cancel \in BOOLEAN
  BY <1>2, IInvFacts DEF JobType
<1> HIDE DEF a
<1>6. ASSUME NEW x \in JobType, jobs' = [jobs EXCEPT ![j] = x], JobOK(x),
             x.version = 0, InputsInv(x, db, Target), x.prot = 0,
             x.in = a.in, Own(x) = {}, x.pc \in {"clear", "lock"}, x.kind = a.kind, UNCHANGED db
      PROVE  IInv'
  <2>1. JobStep(j, x)
    BY <1>5, <1>6, JobChanged
  <2>2. RefsInv(db, jobs')
    BY <1>2, <1>3, <1>6, <2>1, IInvFacts, SameDB, SameVersions
  <2>3. Target' = Target => BackingsInv'
    BY <1>2, <1>3, <1>6, <2>1, BackingsFrame
  <2>4. {} \subseteq Own(Was(j)) \cup Taken /\ {} \cap Own(x) = {}
    OBVIOUS
  <2>5. DBInv(db', Target, io.zombies) /\ RefsInv(db', jobs') /\ ReadersInv(db', reader')
        /\ reader' \in ReaderType /\ Lets(db, db', {})
    BY <1>1, <1>6, <2>2, IInvFacts, SameDB
  <2>6. /\ Was(j).pc # "apply" /\ x.pc # "apply" /\ x.pc # "target" /\ x.kind = Was(j).kind
        /\ db'.disabled = db.disabled /\ db'.late = db.late
        /\ db'.writing = db.writing /\ InputsInv(x, db', Target)
        /\ InputsOf(x) \subseteq Taken
    BY <1>1, <1>2, <1>6 DEF InputsOf
  <2> QED
    BY <1>1, <1>2, <1>6, <2>1, <2>3, <2>4, <2>5, <2>6, MemoryStep
<1>7. CASE a.cancel
  <2> DEFINE x == [a EXCEPT !.pc = "clear", !.err = TRUE]
  <2>1. jobs' = [jobs EXCEPT ![j] = x] /\ UNCHANGED db
    BY <1>2, <1>5, <1>7 DEF StartCompaction, a, JobType
  <2>2. /\ x \in JobType /\ x.kind = a.kind /\ x.pc = "clear" /\ x.in = a.in /\ x.edit = a.edit
        /\ x.version = 0 /\ x.prot = 0 /\ x.cancel = a.cancel
    BY <1>2, <1>3 DEF JobType
  <2> HIDE DEF x
  <2>3. JobOK(x) /\ InputsInv(x, db, Target) /\ Own(x) = {}
    BY <1>2, <1>3, <2>2 DEF JobOK, InputsInv, Own, Pending, Places
  <2> QED
    BY <1>6, <2>1, <2>2, <2>3
<1>8. CASE ~a.cancel /\ a.kind = "move"
  <2> DEFINE N == {[t EXCEPT !.level = 1] : t \in a.in}
             e == Edit(a.in, N, {})
             x == [a EXCEPT !.pc = "lock", !.edit = e]
  <2>1. jobs' = [jobs EXCEPT ![j] = x] /\ UNCHANGED db
    BY <1>2, <1>5, <1>8 DEF StartCompaction, a, JobType
  <2>2. N \in TableSets
    <3>1. a.in \subseteq TableType /\ IsFiniteSet(a.in)
      BY <1>3 DEF TableSets
    <3>2. IsFiniteSet(N)
      <4> DEFINE f == [t \in a.in |-> [t EXCEPT !.level = 1]]
      <4>1. DOMAIN f = a.in /\ {f[t] : t \in a.in} = N
        OBVIOUS
      <4> HIDE DEF f
      <4>2. IsFiniteSet({f[t] : t \in a.in})
        BY <3>1, <4>1, ImageFinite
      <4> QED
        BY <4>1, <4>2
    <3>3. N \subseteq TableType
      BY <3>1 DEF TableType
    <3> QED
      BY <3>2, <3>3 DEF TableSets
  <2>3. \A t \in a.in : [t EXCEPT !.level = 1].num = t.num
    BY <1>3 DEF TableSets, TableType
  <2>4. Numbers(N) \subseteq Numbers(a.in)
    BY <2>3 DEF Numbers
  <2>5. e.del = a.in /\ e.new = N /\ e.created = {}
    BY DEF Edit
  <2>6. MovedTables(e, a.in)
    BY <2>5 DEF MovedTables
  <2>7. e \in EditType
    BY <1>3, <2>2 DEF Edit, EditType
  <2> HIDE DEF N, e
  <2>8. /\ x \in JobType /\ x.kind = a.kind /\ x.pc = "lock" /\ x.in = a.in /\ x.edit = e
        /\ x.version = 0 /\ x.prot = 0 /\ x.cancel = a.cancel
    BY <1>2, <1>3, <2>7 DEF JobType
  <2> HIDE DEF x
  <2>9. JobOK(x)
    BY <1>2, <1>3, <1>8, <2>6, <2>8 DEF JobOK, Places, Pending, Shape
  <2>10. InputsInv(x, db, Target)
    BY <1>1, <1>2, <1>8, <2>8 DEF InputsInv
  <2>11. Own(x) = {}
    BY <2>4, <2>5, <2>8 DEF Own
  <2> QED
    BY <1>6, <2>1, <2>8, <2>9, <2>10, <2>11
<1>9. CASE ~a.cancel /\ a.kind # "move"
  <2> DEFINE c == db.current
             x == [a EXCEPT !.pc = "run", !.version = c]
  <2>1. jobs' = [jobs EXCEPT ![j] = x] /\ db' = Ref(db, db.current)
    BY <1>2, <1>5, <1>9 DEF StartCompaction, a, JobType
  <2>2. c \in Nat /\ c # 0
    BY IInvFacts, DBTypeFacts
  <2> HIDE DEF c
  <2>3. /\ x \in JobType /\ x.kind = a.kind /\ x.pc = "run" /\ x.in = a.in /\ x.edit = a.edit
        /\ x.version = c /\ x.prot = 0 /\ x.cancel = a.cancel
    BY <1>2, <1>3, <2>2 DEF JobType
  <2> HIDE DEF x
  <2>4. JobStep(j, x)
    BY <1>5, <2>1, <2>3, JobChanged
  <2>5. /\ DBInv(db', Target, io.zombies) /\ Releases(db, db', {})
        /\ RefsInv(db', jobs') /\ ReadersInv(db', reader)
    <3> DEFINE e == Ref(db, db.current)
    <3>1. a.version = 0 /\ x.version = db.current
      BY <1>3, <2>3 DEF c
    <3>2. /\ DBInv(e, Target, io.zombies) /\ Releases(db, e, {})
          /\ RefsInv(e, jobs') /\ ReadersInv(e, reader)
      BY <2>4, <3>1, RefJob DEF a
    <3> QED
      BY <2>1, <3>2
  <2>6. JobOK(x)
    BY <1>2, <1>3, <1>9, <2>3 DEF JobOK, Places, Pending
  <2>7. InputsInv(x, db', Target)
    <3>1. a.in \subseteq Current(db) /\ a.in \subseteq Target
      BY <1>1, <1>2, <1>3, <1>9 DEF InputsInv
    <3>2. Current(db') = Current(db)
      BY <2>5, LetsFacts DEF DBInv, Releases
    <3>3. Current(db') = db'.versions[c].tables
      BY <2>5 DEF Current, c, Releases, Lets
    <3> QED
      BY <1>3, <2>2, <2>3, <3>1, <3>2, <3>3 DEF InputsInv
  <2>8. Own(x) = {}
    BY <2>3 DEF Own, Pending
  <2>9. Target' = Target => BackingsInv'
    <3>1. x.prot = Was(j).prot /\ db'.backings = db.backings
      BY <1>2, <1>3, <2>3, <2>5 DEF Releases
    <3> QED
      BY <1>2, <2>4, <3>1, BackingsFrame
  <2>10. {} \subseteq Own(Was(j)) \cup Taken /\ {} \cap Own(x) = {}
    OBVIOUS
  <2>11. /\ Was(j).pc # "apply" /\ x.pc # "apply" /\ x.pc # "target" /\ x.kind = Was(j).kind
         /\ db'.disabled = db.disabled /\ (db.disabled # 0 => db'.late = db.late)
         /\ db'.writing = db.writing /\ Lets(db, db', {})
         /\ InputsOf(x) \subseteq Taken
    BY <1>1, <1>2, <2>3, <2>5 DEF Releases, InputsOf
  <2>12. reader' \in ReaderType /\ ReadersInv(db', reader')
    BY <1>1, <2>5, IInvFacts
  <2> QED
    BY <1>1, <1>2, <2>3, <2>4, <2>5, <2>6, <2>7, <2>8, <2>9, <2>10, <2>11, <2>12, IInvFacts, MemoryStep
<1> QED
  BY <1>5, <1>7, <1>8, <1>9

\* Numbers are taken.
LEMMA NumbersTaken ==
  ASSUME NEW d, NEW T, NEW Z, NEW js, NEW rd, DBInv(d, T, Z), NEW k \in Nat, k >= d.nextFileNum
  PROVE  LET e == [d EXCEPT !.nextFileNum = k]
         IN  /\ DBInv(e, T, Z) /\ Lets(d, e, {}) /\ e.nextFileNum = k
             /\ RefsInv(d, js) => RefsInv(e, js)
             /\ ReadersInv(d, rd) => ReadersInv(e, rd)
             /\ e.backings = d.backings /\ e.disabled = d.disabled /\ e.late = d.late
             /\ e.writing = d.writing /\ e.manifest = d.manifest
             /\ e.current = d.current /\ e.versions = d.versions
<1> DEFINE e == [d EXCEPT !.nextFileNum = k]
<1>1. d \in DBType
  BY DEF DBInv
<1>2. e \in DBType
  BY <1>1 DEF DBType
<1>3. /\ e.versions = d.versions /\ e.current = d.current /\ e.backings = d.backings
      /\ e.held = d.held /\ e.zombies = d.zombies /\ e.late = d.late
      /\ e.obsolete = d.obsolete /\ e.panic = d.panic /\ e.readState = d.readState
      /\ e.obsoleteManifests = d.obsoleteManifests
      /\ e.nextFileNum = k /\ e.manifestFileNum = d.manifestFileNum
      /\ e.writing = d.writing /\ e.manifest = d.manifest
      /\ e.disabled = d.disabled /\ e.readStates = d.readStates
  BY <1>1 DEF DBType
<1> HIDE DEF e
<1>4. /\ DBInv(e, T, Z) /\ Lets(d, e, {})
      /\ RefsInv(d, js) => RefsInv(e, js)
      /\ ReadersInv(d, rd) => ReadersInv(e, rd)
  BY <1>2, <1>3, OtherFields
<1> QED
  BY <1>3, <1>4 DEF e

LEMMA ReleaseJob ==
  ASSUME IInv, NEW j \in DOMAIN jobs, NEW x \in JobType, x.version = 0,
         jobs' = [jobs EXCEPT ![j] = x],
         NEW d, DBInv(d, Target, io.zombies), RefsInv(d, jobs), ReadersInv(d, reader)
  PROVE  LET e == Release(d, j)
         IN  /\ DBInv(e, Target, io.zombies) /\ Releases(d, e, {}) /\ RefsInv(e, jobs')
             /\ ReadersInv(e, reader)
<1> DEFINE ks == [jobs EXCEPT ![j] = x]
           e  == IF jobs[j].version = 0 THEN d ELSE UnrefLocked(d, jobs[j].version)
           T  == Target
           Z  == io.zombies
<1>1. jobs \in Seq(JobType)
  BY IInvFacts
<1>2. DBInv(d, T, Z) /\ RefsInv(d, jobs) /\ ReadersInv(d, reader)
  OBVIOUS
<1> HIDE DEF T, Z
<1>3. /\ DBInv(e, T, Z) /\ Releases(d, e, {}) /\ RefsInv(e, ks)
      /\ ReadersInv(e, reader)
  BY <1>1, <1>2, ReleaseFacts, Zenon
<1> QED
  BY <1>3 DEF Release, T, Z

LEMMA WriteTableInv ==
  ASSUME IInv, NEW j \in DOMAIN jobs, WriteTable(j) PROVE IInv'
<1> DEFINE a == jobs[j]
           n == db.nextFileNum
           t == IF a.kind = "flush" THEN Physical(n, 0, {1, 3})
                ELSE Table(n, n, FALSE, 1, Contents(a.in))
           e == Edit(a.in, {t}, {})
           x == [a EXCEPT !.pc = "sync", !.edit = e]
           d == [db EXCEPT !.nextFileNum = n + 1]
<1>1. /\ a.pc = "run" /\ a.kind # "deleteonly" /\ files' = files \cup {n} /\ db' = d
      /\ UNCHANGED <<synced, manifests, marker, external, hasLog, phase, io, ckpt, reader, cleanup>>
      /\ jobs' = [jobs EXCEPT ![j].pc = "sync", ![j].edit = e]
  BY DEF WriteTable
<1>2. /\ a \in JobType /\ JobOK(a) /\ InputsInv(a, db, Target) /\ Was(j) = a
      /\ phase = "open" /\ Up /\ InputsOf(a) \subseteq Taken
  BY <1>1, JobFacts
<1>3. /\ a.prot = 0 /\ a.in \in TableSets /\ a.kind \in {"flush", "compact"}
      /\ a.kind = "flush" => a.in = {}
  BY <1>1, <1>2 DEF JobOK, Places, JobType
<1>4. n \in Nat /\ n > 0 /\ jobs \in Seq(JobType) /\ \A k \in Taken : k \in Nat /\ k < n
      /\ \A m \in files : m < n
  BY <1>2, TakenBelow, IInvFacts
<1>5. Own(a) = {}
  BY <1>1 DEF Own, Pending
<1>6. jobs' = [jobs EXCEPT ![j] = x]
  <2> HIDE DEF e
  <2> QED
    BY <1>1, <1>2, <1>4 DEF JobType
<1>7. t \in TableType /\ t.num = n /\ t.backing = n /\ t.virtual = FALSE
  <2>1. CASE a.kind = "flush"
    BY <1>4, <2>1 DEF Physical, Table, TableType, Keys
  <2>2. CASE a.kind # "flush"
    <3>1. Contents(a.in) \subseteq Keys \X Nat
      BY <1>3 DEF Contents, TableSets, TableType
    <3> QED
      BY <1>4, <2>2, <3>1 DEF Table, TableType
  <2> QED
    BY <2>1, <2>2
<1> HIDE DEF t
<1>8. e \in EditType /\ e.del = a.in /\ e.new = {t} /\ e.created = {}
  BY <1>3, <1>7, TableSetFacts DEF Edit, EditType
<1> HIDE DEF e
<1>9. /\ x \in JobType /\ x.kind = a.kind /\ x.pc = "sync" /\ x.in = a.in /\ x.edit = e
      /\ x.version = a.version /\ x.prot = 0 /\ x.cancel = a.cancel
  BY <1>2, <1>3, <1>8 DEF JobType
<1> HIDE DEF x
<1>10. n \notin Numbers(a.in)
  BY <1>2, <1>4 DEF InputsOf
<1>11. NewTable(e, a.in)
  BY <1>7, <1>8, <1>10 DEF NewTable
<1>12. JobOK(x)
  BY <1>2, <1>3, <1>9, <1>11 DEF JobOK, Places, Pending, Shape
<1>13. InputsInv(x, db', Target)
  <2>1. InputsInv(x, db, Target)
    BY <1>1, <1>2, <1>9 DEF InputsInv
  <2>2. db'.versions = db.versions /\ db'.current = db.current
    BY <1>1, IInvFacts DEF DBType
  <2> QED
    BY <2>1, <2>2 DEF InputsInv, Current
<1>14. JobStep(j, x)
  BY <1>4, <1>6, <1>9, JobChanged
<1>15. /\ DBInv(d, Target, io.zombies) /\ Lets(db, d, {}) /\ d.nextFileNum = n + 1
       /\ RefsInv(d, jobs) /\ ReadersInv(d, reader)
       /\ d.backings = db.backings /\ d.disabled = db.disabled /\ d.late = db.late
       /\ d.writing = db.writing /\ d.manifest = db.manifest
       /\ d.current = db.current /\ d.versions = db.versions
  <2> DEFINE k == n + 1
             T == Target
             Z == io.zombies
             c == [db EXCEPT !.nextFileNum = k]
  <2>1. k \in Nat /\ k >= db.nextFileNum /\ d = c
    BY <1>4
  <2>2. DBInv(db, T, Z) /\ RefsInv(db, jobs) /\ ReadersInv(db, reader)
    BY IInvFacts
  <2> HIDE DEF k, T, Z
  <2>3. /\ DBInv(c, T, Z) /\ Lets(db, c, {}) /\ c.nextFileNum = k
        /\ RefsInv(db, jobs) => RefsInv(c, jobs)
        /\ ReadersInv(db, reader) => ReadersInv(c, reader)
        /\ c.backings = db.backings /\ c.disabled = db.disabled /\ c.late = db.late
        /\ c.writing = db.writing /\ c.manifest = db.manifest
        /\ c.current = db.current /\ c.versions = db.versions
    BY <2>1, <2>2, NumbersTaken
  <2> HIDE DEF c, d
  <2> QED
    BY <2>1, <2>2, <2>3 DEF T, Z, k
<1> HIDE DEF d
<1>16. RefsInv(db', jobs')
  <2>1. RefsInv(d, jobs) /\ 0 \notin DOMAIN d.versions /\ x.version = Was(j).version
    BY <1>2, <1>9, <1>15, SameDB
  <2>2. RefsInv(d, jobs')
    BY <1>14, <2>1, SameVersions
  <2> QED
    BY <1>1, <2>2
<1>17. Target' = Target => BackingsInv'
  <2>1. x.prot = Was(j).prot /\ db'.backings = db.backings
    BY <1>1, <1>2, <1>3, <1>9, <1>15
  <2> QED
    BY <1>2, <1>14, <2>1, BackingsFrame
<1>18. Own(x) = {n}
  BY <1>7, <1>8, <1>9, <1>10 DEF Own, Pending, Numbers
<1>19. /\ files' \in SUBSET Nat /\ IsFiniteSet(files') /\ synced' \subseteq files'
       /\ external' \subseteq Nat
  BY <1>1, <1>4, FS_AddElement DEF IInv, TypeOK, DiskType
<1>20. CkptInv'
  <2>1. ckpt.need \subseteq files'
    BY <1>1 DEF IInv, CkptInv
  <2> QED
    BY <1>1, <1>15, <2>1, CkptFrame
<1>21. /\ \A k \in files' \ files : k > 0 /\ k < db'.nextFileNum
       /\ files \ files' \subseteq Own(Was(j)) \cup Taken
       /\ synced \ synced' \subseteq Own(Was(j)) \cup Taken
       /\ Refd(db) \subseteq synced' /\ ckpt' \in CkptType
       /\ ckpt'.need \subseteq ckpt.need \cup Refd(db)
       /\ db'.disabled = IF ckpt'.pc = "idle" THEN 0 ELSE 1
  <2>1. db.disabled = IF ckpt.pc = "idle" THEN 0 ELSE 1
    BY DEF IInv, PhaseInv
  <2> QED
    BY <1>1, <1>4, <1>15, <2>1, BaseRefd, IInvFacts
<1>22. /\ Was(j).pc # "apply" /\ x.pc # "apply" /\ x.pc # "target" /\ x.kind = Was(j).kind
       /\ db'.writing = db.writing /\ Lets(db, db', {})
       /\ InputsOf(x) \subseteq Taken /\ {} \subseteq Own(Was(j)) \cup Taken /\ {} \cap Own(x) = {}
       /\ \A k \in Own(x) : db.nextFileNum <= k /\ k < db'.nextFileNum
       /\ Own(x) \cap Backings(x.edit.new) \subseteq files' /\ x.pc = "sync"
  BY <1>1, <1>2, <1>4, <1>9, <1>15, <1>18 DEF InputsOf
<1>23. DBInv(db', Target, io.zombies) /\ ReadersInv(db', reader') /\ reader' \in ReaderType
  BY <1>1, <1>15, IInvFacts
<1>24. UNCHANGED <<io, phase, marker, manifests, hasLog, cleanup>>
  BY <1>1
<1> HIDE DEF n, a
<1> QED
  BY <1>2, <1>9, <1>12, <1>13, <1>14, <1>16, <1>17, <1>19, <1>20, <1>21, <1>22, <1>23, <1>24, QuietStep

LEMMA SyncTableInv ==
  ASSUME IInv, NEW j \in DOMAIN jobs, SyncTable(j) PROVE IInv'
<1> DEFINE a == jobs[j]
           x == [a EXCEPT !.pc = "lock", !.version = 0]
           d == Release(db, j)
<1>1. /\ a.pc = "sync" /\ synced' = files /\ db' = d
      /\ UNCHANGED <<files, manifests, marker, external, hasLog, phase, io, ckpt, reader, cleanup>>
      /\ jobs' = [jobs EXCEPT ![j].pc = "lock", ![j].version = 0]
  BY DEF SyncTable
<1>2. /\ a \in JobType /\ JobOK(a) /\ InputsInv(a, db, Target) /\ Was(j) = a
      /\ phase = "open" /\ Up /\ InputsOf(a) \subseteq Taken
  BY <1>1, JobFacts
<1>3. a.prot = 0 /\ a.kind \in {"flush", "compact"} /\ Shape(a)
  BY <1>1, <1>2 DEF JobOK, Places, Pending
<1>4. jobs \in Seq(JobType)
  BY IInvFacts
<1>5. jobs' = [jobs EXCEPT ![j] = x]
  BY <1>1, <1>2, <1>4 DEF JobType
<1>6. /\ x \in JobType /\ x.kind = a.kind /\ x.pc = "lock" /\ x.in = a.in /\ x.edit = a.edit
      /\ x.version = 0 /\ x.prot = 0 /\ x.cancel = a.cancel
  BY <1>2, <1>3 DEF JobType
<1> HIDE DEF x, d
<1>7. /\ DBInv(d, Target, io.zombies) /\ Releases(db, d, {}) /\ RefsInv(d, jobs')
      /\ ReadersInv(d, reader)
  BY <1>5, <1>6, IInvFacts, ReleaseJob DEF d
<1>8. JobStep(j, x)
  BY <1>4, <1>5, <1>6, JobChanged
<1>9. JobOK(x)
  BY <1>2, <1>3, <1>6 DEF JobOK, Places, Pending, Shape
<1>10. InputsInv(x, db', Target)
  <2>1. Current(db') = Current(db)
    BY <1>1, <1>7, LetsFacts DEF DBInv, Releases
  <2> QED
    BY <1>1, <1>2, <1>6, <2>1 DEF InputsInv
<1>11. Own(x) = Own(a)
  BY <1>1, <1>6 DEF Own, Pending
<1>12. Own(a) \cap Backings(a.edit.new) \subseteq files
  BY <1>1 DEF IInv, OwnInv
<1>13. synced \subseteq files /\ Refd(db) \subseteq synced
  BY BaseRefd
<1>14. /\ files' \in SUBSET Nat /\ IsFiniteSet(files') /\ synced' \subseteq files'
       /\ external' \subseteq Nat
  BY <1>1 DEF IInv, TypeOK, DiskType
<1>15. CkptInv'
  <2>1. ckpt.need \subseteq files'
    BY <1>1 DEF IInv, CkptInv
  <2> QED
    BY <1>1, <1>7, <2>1, CkptFrame DEF Releases
<1>16. Target' = Target => BackingsInv'
  <2>1. x.prot = Was(j).prot /\ db'.backings = db.backings
    BY <1>1, <1>2, <1>3, <1>6, <1>7 DEF Releases
  <2> QED
    BY <1>2, <1>8, <2>1, BackingsFrame
<1>17. /\ \A k \in files' \ files : k > 0 /\ k < db'.nextFileNum
       /\ files \ files' \subseteq Own(Was(j)) \cup Taken
       /\ synced \ synced' \subseteq Own(Was(j)) \cup Taken
       /\ Refd(db) \subseteq synced' /\ ckpt' \in CkptType
       /\ ckpt'.need \subseteq ckpt.need \cup Refd(db)
       /\ db'.disabled = IF ckpt'.pc = "idle" THEN 0 ELSE 1
  <2>1. db.disabled = IF ckpt.pc = "idle" THEN 0 ELSE 1
    BY DEF IInv, PhaseInv
  <2> QED
    BY <1>1, <1>7, <1>13, <2>1, IInvFacts DEF Releases
<1>18. /\ Was(j).pc # "apply" /\ x.pc # "apply" /\ x.pc # "target" /\ x.kind = Was(j).kind
       /\ db'.writing = db.writing /\ Lets(db, db', {})
       /\ InputsOf(x) \subseteq Taken /\ {} \subseteq Own(Was(j)) \cup Taken /\ {} \cap Own(x) = {}
       /\ \A k \in Own(x) : k \in Own(Was(j))
       /\ Own(x) \cap Backings(x.edit.new) \subseteq IF x.pc = "sync" THEN files' ELSE synced'
  BY <1>1, <1>2, <1>6, <1>7, <1>11, <1>12 DEF InputsOf, Releases
<1>19. /\ DBInv(db', Target, io.zombies) /\ RefsInv(db', jobs') /\ ReadersInv(db', reader')
       /\ reader' \in ReaderType
  BY <1>1, <1>7, IInvFacts
<1>20. UNCHANGED <<io, phase, marker, manifests, hasLog, cleanup>>
  BY <1>1
<1> HIDE DEF a
<1> QED
  BY <1>2, <1>6, <1>8, <1>9, <1>10, <1>14, <1>15, <1>16, <1>17, <1>18, <1>19, <1>20, QuietStep

\* What excising a table leaves of it.
LEMMA ExciseFacts ==
  ASSUME NEW t \in TableType, NEW S, NEW n \in Nat
  PROVE  LET e == Excise(t, S, n)
         IN  /\ e \in EditType /\ e.del = {t} /\ e.removed = {}
             /\ \A u \in e.new : /\ u.virtual /\ u.backing = t.backing
                                 /\ u.num \in {n, n + 1} /\ u \in TableType
             /\ \A u, w \in e.new : u.num = w.num => u = w
             /\ e.created = IF e.new # {} /\ ~t.virtual THEN {t.backing} ELSE {}
<1> DEFINE Side(k, keys) == Table(k, t.backing, TRUE, t.level,
                                  {x \in t.items : x[1] \in keys})
           left  == {k \in KeysOf(t) : k < Min(S)}
           right == {k \in KeysOf(t) : k > Max(S)}
           u1 == Side(n, left)
           u2 == Side(n + 1, right)
           new == (IF left = {} THEN {} ELSE {u1}) \cup (IF right = {} THEN {} ELSE {u2})
           c == IF new # {} /\ ~t.virtual THEN {t.backing} ELSE {}
           e == Edit({t}, new, c)
<1>1. Excise(t, S, n) = e
  BY DEF Excise
<1> HIDE DEF left, right
<1>2. u1 \in TableType /\ u1.virtual /\ u1.backing = t.backing /\ u1.num = n
  BY DEF Table, TableType
<1>x. u2 \in TableType /\ u2.virtual /\ u2.backing = t.backing /\ u2.num = n + 1
  BY DEF Table, TableType
<1>3. /\ u1 \in TableType /\ u1.virtual /\ u1.backing = t.backing /\ u1.num = n
      /\ u2 \in TableType /\ u2.virtual /\ u2.backing = t.backing /\ u2.num = n + 1
  BY <1>2, <1>x
<1> HIDE DEF u1, u2, left, right
<1>4. new \in TableSets
  BY <1>3, TableSetFacts
<1>5. \A u \in new : u = u1 \/ u = u2
  OBVIOUS
<1> HIDE DEF new
<1>6. c \subseteq Nat
  BY DEF TableType
<1> HIDE DEF c
<1>7. /\ e \in EditType /\ e.del = {t} /\ e.removed = {} /\ e.new = new /\ e.created = c
  BY <1>4, <1>6, TableSetFacts DEF Edit, EditType
<1> HIDE DEF e
<1>8. e.created = IF e.new # {} /\ ~t.virtual THEN {t.backing} ELSE {}
  BY <1>7 DEF c
<1>9. /\ \A u \in e.new : /\ u.virtual /\ u.backing = t.backing
                          /\ u.num \in {n, n + 1} /\ u \in TableType
      /\ \A u, w \in e.new : u.num = w.num => u = w
  BY <1>3, <1>5, <1>7
<1> QED
  BY <1>1, <1>7, <1>8, <1>9

LEMMA RunDeleteOnlyInv ==
  ASSUME IInv, NEW j \in DOMAIN jobs, RunDeleteOnly(j) PROVE IInv'
<1> DEFINE a == jobs[j]
           n == db.nextFileNum
           t == CHOOSE u \in a.in : TRUE
           e == Excise(t, a.span, n)
           x == [a EXCEPT !.pc = "lock", !.version = 0, !.edit = e]
           d == Release(db, j)
           g == [d EXCEPT !.nextFileNum = n + 2]
<1>1. /\ a.pc = "run" /\ a.kind = "deleteonly" /\ db' = [d EXCEPT !.nextFileNum = @ + 2]
      /\ UNCHANGED <<disk, phase, io, ckpt, reader, cleanup>>
      /\ jobs' = [jobs EXCEPT ![j].pc = "lock", ![j].version = 0, ![j].edit = e]
  BY DEF RunDeleteOnly
<1>2. /\ a \in JobType /\ JobOK(a) /\ InputsInv(a, db, Target) /\ Was(j) = a
      /\ phase = "open" /\ Up /\ InputsOf(a) \subseteq Taken
  BY <1>1, JobFacts
<1>3. /\ a.prot = 0 /\ a.in \in TableSets /\ \E u \in a.in : a.in = {u}
  BY <1>1, <1>2 DEF JobOK, JobType
<1>4. n \in Nat /\ n > 0 /\ jobs \in Seq(JobType) /\ \A k \in Taken : k \in Nat /\ k < n
  BY <1>2, TakenBelow, IInvFacts
<1>5. a.in = {t} /\ t \in TableType
  <2>1. a.in = {t}
    BY <1>3
  <2> HIDE DEF t
  <2> QED
    BY <1>3, <2>1 DEF TableSets
<1> HIDE DEF t
<1>6. /\ e \in EditType /\ e.del = {t} /\ e.removed = {}
      /\ \A u \in e.new : /\ u.virtual /\ u.backing = t.backing
                          /\ u.num \in {n, n + 1} /\ u \in TableType
      /\ \A u, w \in e.new : u.num = w.num => u = w
      /\ e.created = IF e.new # {} /\ ~t.virtual THEN {t.backing} ELSE {}
  <2> DEFINE S == a.span
             f == Excise(t, S, n)
  <2> HIDE DEF S
  <2>1. /\ f \in EditType /\ f.del = {t} /\ f.removed = {}
        /\ \A u \in f.new : /\ u.virtual /\ u.backing = t.backing
                            /\ u.num \in {n, n + 1} /\ u \in TableType
        /\ \A u, w \in f.new : u.num = w.num => u = w
        /\ f.created = IF f.new # {} /\ ~t.virtual THEN {t.backing} ELSE {}
    BY <1>4, <1>5, ExciseFacts
  <2> QED
    BY <2>1 DEF S
<1> HIDE DEF e
<1>7. jobs' = [jobs EXCEPT ![j] = x]
  BY <1>1, <1>2, <1>4 DEF JobType
<1>8. /\ x \in JobType /\ x.kind = a.kind /\ x.pc = "lock" /\ x.in = a.in /\ x.edit = e
      /\ x.version = 0 /\ x.prot = 0 /\ x.cancel = a.cancel
  BY <1>2, <1>3, <1>6 DEF JobType
<1> HIDE DEF x, d
<1>9. /\ DBInv(d, Target, io.zombies) /\ Releases(db, d, {}) /\ RefsInv(d, jobs')
      /\ ReadersInv(d, reader)
  BY <1>7, <1>8, IInvFacts, ReleaseJob DEF d
<1>10. d \in DBType /\ d.nextFileNum = n
  BY <1>9 DEF DBInv, Releases
<1>11. db' = g
  BY <1>1, <1>10
<1>12. /\ DBInv(g, Target, io.zombies) /\ Lets(d, g, {}) /\ g.nextFileNum = n + 2
       /\ RefsInv(g, jobs') /\ ReadersInv(g, reader)
       /\ g.backings = d.backings /\ g.disabled = d.disabled /\ g.late = d.late
       /\ g.writing = d.writing /\ g.manifest = d.manifest
       /\ g.current = d.current /\ g.versions = d.versions
  <2> DEFINE k == n + 2
             T == Target
             Z == io.zombies
             c == [d EXCEPT !.nextFileNum = k]
             js == jobs'
  <2>1. k \in Nat /\ k >= d.nextFileNum /\ g = c
    BY <1>4, <1>10
  <2>2. DBInv(d, T, Z) /\ RefsInv(d, js) /\ ReadersInv(d, reader)
    BY <1>9
  <2> HIDE DEF k, T, Z, js
  <2>3. /\ DBInv(c, T, Z) /\ Lets(d, c, {}) /\ c.nextFileNum = k
        /\ RefsInv(d, js) => RefsInv(c, js)
        /\ ReadersInv(d, reader) => ReadersInv(c, reader)
        /\ c.backings = d.backings /\ c.disabled = d.disabled /\ c.late = d.late
        /\ c.writing = d.writing /\ c.manifest = d.manifest
        /\ c.current = d.current /\ c.versions = d.versions
    BY <2>1, <2>2, NumbersTaken
  <2> HIDE DEF c, g
  <2> QED
    BY <2>1, <2>2, <2>3 DEF T, Z, k, js
<1> HIDE DEF g
<1>13. Lets(db, g, {})
  <2>1. /\ DoomedIn(g) \subseteq DoomedIn(db) \cup Refd(db)
        /\ Current(d) = Current(db)
    <3>1. /\ Refd(d) \subseteq Refd(db)
          /\ DoomedIn(d) \subseteq DoomedIn(db) \cup Refd(db) \cup {}
      BY <1>9, LetsFacts DEF DBInv, Releases
    <3>2. DoomedIn(g) \subseteq DoomedIn(d) \cup Refd(d) \cup {}
      BY <1>12 DEF Lets
    <3> QED
      BY <1>9, <3>1, <3>2, LetsFacts DEF DBInv, Releases
  <2> QED
    BY <1>4, <1>9, <1>10, <1>12, <2>1 DEF Lets, Releases
<1>14. JobStep(j, x)
  BY <1>4, <1>7, <1>8, JobChanged
<1>15. \A u \in e.new : u.num # t.num
  <2>1. t.num \in Taken
    BY <1>2, <1>5 DEF InputsOf, Numbers
  <2>2. t.num \in Nat /\ t.num < n
    BY <1>4, <2>1
  <2> QED
    BY <1>4, <1>6, <2>2
<1>16. JobOK(x)
  <2>1. ExcisedTable(e, x.in)
    BY <1>5, <1>6, <1>8, <1>15 DEF ExcisedTable
  <2> QED
    BY <1>1, <1>2, <1>3, <1>8, <2>1 DEF JobOK, Places, Pending, Shape
<1>17. InputsInv(x, db', Target)
  <2>1. Current(db') = Current(db)
    BY <1>11, <1>12, <1>13, LetsFacts DEF DBInv
  <2> QED
    BY <1>1, <1>2, <1>8, <2>1 DEF InputsInv
<1>18. \A k \in Own(x) : k \in {n, n + 1}
  BY <1>6, <1>8 DEF Own, Numbers
<1>19. Own(x) \cap Backings(x.edit.new) = {}
  <2>1. t.backing \in Taken
    BY <1>2, <1>5 DEF InputsOf, Backings
  <2> QED
    BY <1>4, <1>6, <1>8, <1>18, <2>1 DEF Backings
<1>20. Target' = Target => BackingsInv'
  <2>1. x.prot = Was(j).prot /\ db'.backings = db.backings
    BY <1>2, <1>3, <1>8, <1>9, <1>11, <1>12 DEF Releases
  <2> QED
    BY <1>2, <1>14, <2>1, BackingsFrame
<1>21. /\ Was(j).pc # "apply" /\ x.pc # "apply" /\ x.pc # "target" /\ x.kind = Was(j).kind
       /\ db'.writing = db.writing /\ Lets(db, db', {})
       /\ InputsOf(x) \subseteq Taken /\ {} \subseteq Own(Was(j)) \cup Taken /\ {} \cap Own(x) = {}
       /\ \A k \in Own(x) : db.nextFileNum <= k /\ k < db'.nextFileNum
       /\ db'.disabled = db.disabled /\ (db.disabled # 0 => db'.late = db.late)
  <2>1. InputsOf(x) \subseteq Taken
    BY <1>2, <1>8 DEF InputsOf
  <2>2. \A k \in Own(x) : db.nextFileNum <= k /\ k < db'.nextFileNum
    BY <1>4, <1>11, <1>12, <1>18
  <2>3. /\ db'.writing = db.writing /\ Lets(db, db', {})
        /\ db'.disabled = db.disabled /\ (db.disabled # 0 => db'.late = db.late)
    BY <1>9, <1>11, <1>12, <1>13 DEF Releases
  <2> QED
    BY <1>1, <1>2, <1>8, <2>1, <2>2, <2>3
<1>22. /\ DBInv(db', Target, io.zombies) /\ RefsInv(db', jobs') /\ ReadersInv(db', reader')
       /\ reader' \in ReaderType
  BY <1>1, <1>11, <1>12, IInvFacts
<1>23. UNCHANGED <<disk, phase, io, ckpt, cleanup>>
  BY <1>1
<1>24. Own(x) \cap Backings(x.edit.new) \subseteq IF x.pc = "sync" THEN files ELSE synced
  BY <1>19
<1> HIDE DEF a, n
<1> QED
  BY <1>2, <1>8, <1>14, <1>16, <1>17, <1>20, <1>21, <1>22, <1>23, <1>24, MemoryStep

\* A job that gives up goes to clear.
LEMMA ClearStep ==
  ASSUME IInv, NEW j \in DOMAIN jobs, jobs[j].pc \in {"run", "sync", "lock"},
         NEW x \in JobType, jobs' = [jobs EXCEPT ![j] = x],
         x.pc = "clear", x.version = 0, x.kind = jobs[j].kind, x.in = jobs[j].in,
         x.prot = jobs[j].prot, x.kind \in {"flush", "compact", "move", "deleteonly"},
         UNCHANGED <<disk, phase, io, ckpt, reader, cleanup>>,
         NEW B, B \subseteq Own(jobs[j]) \cup Taken, Releases(db, db', B),
         DBInv(db', Target, io.zombies), RefsInv(db', jobs'), ReadersInv(db', reader)
  PROVE  IInv'
<1> DEFINE a == jobs[j]
<1>1. /\ a \in JobType /\ JobOK(a) /\ Was(j) = a
      /\ phase = "open" /\ Up /\ InputsOf(a) \subseteq Taken
  BY JobFacts
<1>2. JobStep(j, x)
  BY IInvFacts, JobChanged
<1>3. JobOK(x)
  BY <1>1 DEF JobOK, Places, Pending
<1>4. InputsInv(x, db', Target)
  BY DEF InputsInv
<1>5. Own(x) = {}
  BY DEF Own, Pending
<1>6. Target' = Target => BackingsInv'
  <2>1. x.prot = Was(j).prot /\ db'.backings = db.backings
    BY <1>1 DEF Releases
  <2> QED
    BY <1>1, <1>2, <2>1, BackingsFrame
<1>7. /\ Was(j).pc # "apply" /\ x.pc # "apply" /\ x.pc # "target" /\ x.kind = Was(j).kind
      /\ db'.writing = db.writing /\ Lets(db, db', B)
      /\ B \subseteq Own(Was(j)) \cup Taken /\ B \cap Own(x) = {}
      /\ db'.disabled = db.disabled /\ (db.disabled # 0 => db'.late = db.late)
  BY <1>1, <1>5 DEF Releases
<1>8. InputsOf(x) \subseteq Taken
  BY <1>1 DEF InputsOf
<1>9. UNCHANGED <<disk, phase, io, ckpt, cleanup>> /\ reader' \in ReaderType
      /\ ReadersInv(db', reader')
  BY IInvFacts
<1>10. Own(x) \cap Backings(x.edit.new) \subseteq IF x.pc = "sync" THEN files ELSE synced
  BY <1>5
<1> QED
  BY <1>1, <1>2, <1>3, <1>4, <1>5, <1>6, <1>7, <1>8, <1>9, <1>10, MemoryStep

LEMMA FailRunInv ==
  ASSUME IInv, NEW j \in DOMAIN jobs, FailRun(j) PROVE IInv'
<1> DEFINE a == jobs[j]
           B == Backings(a.edit.new)
           x == [a EXCEPT !.pc = "clear", !.err = TRUE, !.version = 0, !.edit = NoEdit]
           d == AddObsolete([db EXCEPT !.zombies = @ \cup B], B)
           e == Release(d, j)
<1>1. /\ a.pc \in {"run", "sync"} /\ db' = e
      /\ UNCHANGED <<disk, phase, io, ckpt, reader, cleanup>>
      /\ jobs' = [jobs EXCEPT ![j].pc = "clear", ![j].err = TRUE,
                              ![j].version = 0, ![j].edit = NoEdit]
  BY DEF FailRun
<1>2. /\ a \in JobType /\ JobOK(a) /\ Was(j) = a
      /\ phase = "open" /\ Up /\ InputsOf(a) \subseteq Taken
  BY <1>1, JobFacts
<1>3. jobs \in Seq(JobType) /\ a.kind \in {"flush", "compact", "deleteonly"}
  BY <1>1, <1>2, IInvFacts DEF JobOK, Places
<1>4. jobs' = [jobs EXCEPT ![j] = x]
  BY <1>1, <1>2, <1>3 DEF JobType
<1>5. /\ x \in JobType /\ x.kind = a.kind /\ x.pc = "clear" /\ x.in = a.in
      /\ x.version = 0 /\ x.prot = a.prot
  BY <1>2, DoneType DEF JobType
<1>6. B \subseteq Own(a)
  <2>1. CASE a.pc = "run"
    <3>1. a.edit.new = {}
      BY <1>2, <2>1 DEF JobOK, NoEdit, Edit
    <3> QED
      BY <3>1 DEF Backings
  <2>2. CASE a.pc = "sync"
    <3>1. NewTable(a.edit, a.in)
      BY <1>2, <2>2 DEF JobOK, Places, Pending, Shape
    <3>2. PICK t \in a.edit.new : a.edit.new = {t} /\ t.backing = t.num /\ t.num \notin Numbers(a.in)
      BY <3>1 DEF NewTable
    <3>3. B = {t.num} /\ Numbers(a.edit.new) = {t.num}
      BY <3>2 DEF Backings, Numbers
    <3> QED
      BY <2>2, <3>2, <3>3 DEF Own, Pending
  <2> QED
    BY <1>1, <2>1, <2>2
<1>7. B \in SUBSET Nat /\ B \cap Refd(db) = {}
  <2>1. Own(a) \cap Taken = {} /\ Own(a) \subseteq Nat
    BY <1>2, OwnBelow
  <2> QED
    BY <1>6, <2>1 DEF Taken
<1> HIDE DEF B
<1>8. /\ DBInv(d, Target, io.zombies) /\ Releases(db, d, B)
      /\ RefsInv(d, jobs) /\ ReadersInv(d, reader)
  BY <1>7, IInvFacts, AddObsoleteFacts
<1> HIDE DEF d, x
<1>9. /\ DBInv(e, Target, io.zombies) /\ Releases(d, e, {}) /\ RefsInv(e, jobs')
      /\ ReadersInv(e, reader)
  BY <1>4, <1>5, <1>8, ReleaseJob
<1> HIDE DEF e
<1>10. Releases(db, e, B)
  <2>1. Releases(db, e, B \cup {})
    BY <1>8, <1>9, IInvFacts, ReleasesChain DEF DBInv
  <2>2. B \cup {} = B
    OBVIOUS
  <2> QED
    BY <2>1, <2>2
<1>11. B \subseteq Own(a) \cup Taken
  BY <1>6
<1> QED
  BY <1>1, <1>3, <1>4, <1>5, <1>9, <1>10, <1>11, ClearStep

\* The cancelled edit of a compaction.
LEMMA CancelledEdit ==
  ASSUME IInv, NEW j \in DOMAIN jobs, jobs[j].pc = "lock", Compaction(j)
  PROVE  LET e == CleanupVersionEdit(db, jobs[j].edit)
         IN  \E B : /\ B \subseteq Own(jobs[j]) \cup Taken
                    /\ DBInv(e, Target, io.zombies) /\ Releases(db, e, B)
                    /\ RefsInv(e, jobs) /\ ReadersInv(e, reader)
<1> DEFINE a == jobs[j]
           moved == {t.num : t \in a.edit.del}
           P == {t.backing : t \in {u \in a.edit.new : ~u.virtual /\ u.num \notin moved}}
           U == Unreferenced(db, a.edit.created)
           B == P \cup U
           e == AddObsolete([db EXCEPT !.zombies = @ \cup B], B)
<1>1. /\ a \in JobType /\ JobOK(a) /\ Was(j) = a /\ Up /\ InputsOf(a) \subseteq Taken
  BY JobFacts
<1>2. Shape(a) /\ a.kind \in {"compact", "move", "deleteonly"} /\ a.in \in TableSets
  BY <1>1 DEF JobOK, Pending, Compaction, JobType
<1>3. Own(a) \cap Taken = {} /\ \A n \in Own(a) : n \in Nat
  BY <1>1, OwnBelow
<1>4. \A n \in Taken : n \in Nat
  BY <1>1, TakenBelow
<1>5. U = a.edit.created \ Refd(db)
  BY UnreferencedFacts
<1>6. P \subseteq Own(a) /\ U \subseteq Taken
  <2>1. CASE a.kind = "compact"
    <3>1. PICK t \in a.edit.new : a.edit.new = {t} /\ t.backing = t.num /\ t.num \notin Numbers(a.in)
                                  /\ a.edit.created = {}
      BY <1>2, <2>1 DEF Shape, NewTable
    <3>2. Numbers(a.edit.new) = {t.num}
      BY <3>1 DEF Numbers
    <3>3. P \subseteq {t.num}
      BY <3>1
    <3> QED
      BY <1>5, <3>1, <3>2, <3>3 DEF Own, Pending
  <2>2. CASE a.kind = "move"
    <3>1. a.edit.del = a.in /\ a.edit.created = {} /\ a.edit.new = {[t EXCEPT !.level = 1] : t \in a.in}
      BY <1>2, <2>2 DEF Shape, MovedTables
    <3>2. \A u \in a.edit.new : u.num \in moved
      <4>1. SUFFICES ASSUME NEW u \in a.edit.new PROVE u.num \in moved
        OBVIOUS
      <4>2. PICK t \in a.in : u = [t EXCEPT !.level = 1]
        BY <3>1
      <4>3. u.num = t.num
        BY <1>2, <4>2 DEF TableSets, TableType
      <4> QED
        BY <3>1, <4>3
    <3> QED
      BY <1>5, <3>1, <3>2
  <2>3. CASE a.kind = "deleteonly"
    <3>1. PICK t \in a.in :
            /\ \A u \in a.edit.new : u.virtual
            /\ a.edit.created = IF a.edit.new = {} \/ t.virtual THEN {} ELSE {t.backing}
      BY <1>2, <2>3 DEF Shape, ExcisedTable
    <3>2. P = {}
      BY <3>1
    <3>3. a.edit.created \subseteq {t.backing}
      BY <3>1
    <3>4. t.backing \in Taken
      BY <1>1 DEF InputsOf, Backings
    <3> QED
      BY <1>5, <3>2, <3>3, <3>4
  <2> QED
    BY <1>2, <2>1, <2>2, <2>3
<1> HIDE DEF P, U
<1>7. B \in SUBSET Nat /\ B \cap Refd(db) = {} /\ B \subseteq Own(a) \cup Taken
  BY <1>3, <1>4, <1>5, <1>6 DEF Taken
<1>8. CleanupVersionEdit(db, a.edit) = e
  BY DEF CleanupVersionEdit, P, U
<1> HIDE DEF B
<1>9. /\ DBInv(e, Target, io.zombies) /\ Releases(db, e, B)
      /\ RefsInv(e, jobs) /\ ReadersInv(e, reader)
  BY <1>7, IInvFacts, AddObsoleteFacts
<1> HIDE DEF e
<1> QED
  BY <1>7, <1>8, <1>9

LEMMA ApplyCancelledInv ==
  ASSUME IInv, NEW j \in DOMAIN jobs, ApplyTables(j), jobs[j].cancel /\ Compaction(j) PROVE IInv'
<1> DEFINE a == jobs[j]
           x == [a EXCEPT !.pc = "clear", !.err = TRUE]
           e == CleanupVersionEdit(db, a.edit)
<1>1. /\ a.pc = "lock" /\ db' = e
      /\ UNCHANGED <<disk, phase, io, ckpt, reader, cleanup>>
      /\ jobs' = [jobs EXCEPT ![j].pc = "clear", ![j].err = TRUE]
  BY DEF ApplyTables
<1>2. /\ a \in JobType /\ InputsInv(a, db, Target) /\ Was(j) = a
      /\ a.kind \in {"compact", "move", "deleteonly"}
  BY JobFacts DEF Compaction
<1>3. jobs \in Seq(JobType) /\ a.version = 0
  BY <1>1, <1>2, IInvFacts DEF InputsInv
<1>4. jobs' = [jobs EXCEPT ![j] = x]
  BY <1>1, <1>2, <1>3 DEF JobType
<1>5. /\ x \in JobType /\ x.kind = a.kind /\ x.pc = "clear" /\ x.in = a.in
      /\ x.version = 0 /\ x.prot = a.prot
  BY <1>2, <1>3 DEF JobType
<1>6. PICK B : /\ B \subseteq Own(a) \cup Taken
               /\ DBInv(e, Target, io.zombies) /\ Releases(db, e, B)
               /\ RefsInv(e, jobs) /\ ReadersInv(e, reader)
  BY <1>1, CancelledEdit
<1> HIDE DEF x, e
<1>7. RefsInv(e, jobs')
  <2>1. JobStep(j, x)
    BY <1>3, <1>4, <1>5, JobChanged
  <2>2. 0 \notin DOMAIN e.versions
    BY <1>6, VersionNumbers DEF DBInv
  <2> QED
    BY <1>2, <1>3, <1>5, <1>6, <2>1, <2>2, SameVersions
<1> QED
  BY <1>1, <1>2, <1>4, <1>5, <1>6, <1>7, ClearStep

(***************************************************************************)
(* Ingests, and the ends of jobs.                                          *)
(***************************************************************************)
\* The state of versionSet with the manifest lock taken, or given up.
SetWriting(d, w) == [d EXCEPT !.writing = w]

LEMMA WritingFacts ==
  ASSUME NEW d, NEW T, NEW Z, NEW js, NEW rd, DBInv(d, T, Z), NEW w \in BOOLEAN
  PROVE  LET e == SetWriting(d, w)
         IN  /\ DBInv(e, T, Z) /\ Lets(d, e, {}) /\ e.writing = w
             /\ RefsInv(d, js) => RefsInv(e, js)
             /\ ReadersInv(d, rd) => ReadersInv(e, rd)
             /\ e.backings = d.backings /\ e.disabled = d.disabled /\ e.late = d.late
             /\ e.current = d.current /\ e.versions = d.versions
<1> DEFINE e == SetWriting(d, w)
<1>1. d \in DBType
  BY DEF DBInv
<1>2. e \in DBType
  BY <1>1 DEF DBType, SetWriting
<1>3. /\ e.versions = d.versions /\ e.current = d.current /\ e.backings = d.backings
      /\ e.held = d.held /\ e.zombies = d.zombies /\ e.late = d.late
      /\ e.obsolete = d.obsolete /\ e.panic = d.panic /\ e.readState = d.readState
      /\ e.obsoleteManifests = d.obsoleteManifests
      /\ e.nextFileNum = d.nextFileNum /\ e.manifestFileNum = d.manifestFileNum
      /\ e.writing = w /\ e.disabled = d.disabled /\ e.readStates = d.readStates
      /\ d.nextFileNum \in Nat
  BY <1>1 DEF DBType, SetWriting
<1> HIDE DEF e
<1>4. /\ DBInv(e, T, Z) /\ Lets(d, e, {})
      /\ RefsInv(d, js) => RefsInv(e, js)
      /\ ReadersInv(d, rd) => ReadersInv(e, rd)
  BY <1>2, <1>3, OtherFields
<1> QED
  BY <1>3, <1>4 DEF e

\* A step of a job that reads no version, and writes no file.
LEMMA PlainStep ==
  ASSUME IInv, NEW j \in DOMAIN jobs, jobs[j].pc # "done", jobs[j].version = 0,
         NEW x \in JobType, jobs' = [jobs EXCEPT ![j] = x], x.version = 0,
         JobOK(x), InputsInv(x, db', Target),
         UNCHANGED <<disk, phase, io, ckpt, reader, cleanup>>,
         DBInv(db', Target, io.zombies), RefsInv(db', jobs), ReadersInv(db', reader),
         Lets(db, db', {}), db'.disabled = db.disabled, db.disabled # 0 => db'.late = db.late,
         x.kind \in {"compact", "move", "deleteonly"} => x.kind = jobs[j].kind,
         jobs[j].pc # "apply", x.pc # "apply",
         db'.writing \/ ~db.writing \/ jobs[j].pc = "target",
         x.pc = "target" => db'.writing /\ ~db.writing,
         Own(x) \subseteq Own(jobs[j]), InputsOf(x) \subseteq Taken,
         Own(x) # {} => jobs[j].pc # "sync" /\ x.pc # "sync" /\ x.edit = jobs[j].edit,
         \/ x.prot = jobs[j].prot /\ db'.backings = db.backings
         \/ Target' = Target => BackingsInv'
  PROVE  IInv'
<1> DEFINE a == jobs[j]
<1>1. Was(j) = a /\ phase = "open" /\ Up
  BY JobFacts
<1>2. JobStep(j, x)
  BY IInvFacts, JobChanged
<1>3. RefsInv(db', jobs')
  <2>1. 0 \notin DOMAIN db'.versions
    BY VersionNumbers DEF DBInv
  <2> QED
    BY <1>1, <1>2, <2>1, SameVersions
<1>4. Target' = Target => BackingsInv'
  <2>1. CASE x.prot = a.prot /\ db'.backings = db.backings
    BY <1>1, <1>2, <2>1, BackingsFrame
  <2> QED
    BY <2>1
<1>5. /\ {} \subseteq Own(Was(j)) \cup Taken /\ {} \cap Own(x) = {}
      /\ \A k \in Own(x) : k \in Own(Was(j))
  BY <1>1
<1>6. Own(x) \cap Backings(x.edit.new) \subseteq IF x.pc = "sync" THEN files ELSE synced
  <2>1. Own(a) \cap Backings(a.edit.new) \subseteq IF a.pc = "sync" THEN files ELSE synced
    BY DEF IInv, OwnInv
  <2> QED
    BY <2>1
<1>7. reader' \in ReaderType /\ ReadersInv(db', reader')
  BY IInvFacts
<1>8. UNCHANGED <<disk, phase, io, ckpt, cleanup>>
  OBVIOUS
<1> HIDE DEF a
<1>9. Was(j).pc # "apply" /\ (db'.writing \/ ~db.writing \/ Was(j).pc = "target")
      /\ (x.kind \in {"compact", "move", "deleteonly"} => x.kind = Was(j).kind)
  BY <1>1 DEF a
<1> QED
  BY <1>1, <1>2, <1>3, <1>4, <1>5, <1>6, <1>7, <1>8, <1>9, MemoryStep

LEMMA LockExternalInv ==
  ASSUME IInv, NEW j \in DOMAIN jobs, LockExternal(j) PROVE IInv'
<1> DEFINE a == jobs[j]
           x == [a EXCEPT !.pc = "target"]
           e == SetWriting(db, TRUE)
<1>1. /\ a.pc = "lock" /\ a.kind = "external" /\ ~db.writing /\ db' = e
      /\ UNCHANGED <<disk, phase, io, ckpt, reader, cleanup>>
      /\ jobs' = [jobs EXCEPT ![j].pc = "target"]
  BY DEF LockExternal, SetWriting
<1>2. /\ a \in JobType /\ JobOK(a) /\ InputsInv(a, db, Target) /\ InputsOf(a) \subseteq Taken
  BY <1>1, JobFacts
<1>3. jobs \in Seq(JobType) /\ a.version = 0
  BY <1>1, <1>2, IInvFacts DEF InputsInv
<1>4. jobs' = [jobs EXCEPT ![j] = x]
  BY <1>1, <1>2, <1>3 DEF JobType
<1>5. /\ x \in JobType /\ x.kind = a.kind /\ x.pc = "target" /\ x.in = a.in /\ x.edit = a.edit
      /\ x.version = 0 /\ x.prot = a.prot
  BY <1>2, <1>3 DEF JobType
<1> HIDE DEF x
<1>6. JobOK(x)
  BY <1>1, <1>2, <1>5 DEF JobOK, Places, Pending, Shape
<1>7. InputsInv(x, db', Target)
  BY <1>1, <1>5 DEF InputsInv
<1>8. /\ DBInv(e, Target, io.zombies) /\ Lets(db, e, {}) /\ e.writing = TRUE
      /\ RefsInv(e, jobs) /\ ReadersInv(e, reader) /\ e.backings = db.backings
      /\ e.disabled = db.disabled /\ e.late = db.late
  BY IInvFacts, WritingFacts
<1> HIDE DEF e
<1>9. Own(x) = Own(a) /\ InputsOf(x) = InputsOf(a)
  BY <1>1, <1>5 DEF Own, Pending, InputsOf
<1> QED
  BY <1>1, <1>2, <1>3, <1>4, <1>5, <1>6, <1>7, <1>8, <1>9, PlainStep

LEMMA TargetErrorInv ==
  ASSUME IInv, NEW j \in DOMAIN jobs, TargetError(j) PROVE IInv'
<1> DEFINE a == jobs[j]
           x == [a EXCEPT !.pc = "unprotect"]
           e == SetWriting(db, FALSE)
<1>1. /\ a.pc = "target" /\ db' = e
      /\ UNCHANGED <<disk, phase, io, ckpt, reader, cleanup>>
      /\ jobs' = [jobs EXCEPT ![j].pc = "unprotect"]
  BY DEF TargetError, SetWriting
<1>2. /\ a \in JobType /\ JobOK(a) /\ InputsInv(a, db, Target) /\ InputsOf(a) \subseteq Taken
  BY <1>1, JobFacts
<1>3. jobs \in Seq(JobType) /\ a.version = 0 /\ a.kind = "external"
  BY <1>1, <1>2, IInvFacts DEF InputsInv, JobOK, Places
<1>4. jobs' = [jobs EXCEPT ![j] = x]
  BY <1>1, <1>2, <1>3 DEF JobType
<1>5. /\ x \in JobType /\ x.kind = a.kind /\ x.pc = "unprotect" /\ x.in = a.in /\ x.edit = a.edit
      /\ x.version = 0 /\ x.prot = a.prot
  BY <1>2, <1>3 DEF JobType
<1> HIDE DEF x
<1>6. JobOK(x)
  BY <1>2, <1>3, <1>5 DEF JobOK, Places, Pending, Shape
<1>7. InputsInv(x, db', Target)
  BY <1>3, <1>5 DEF InputsInv
<1>8. /\ DBInv(e, Target, io.zombies) /\ Lets(db, e, {})
      /\ RefsInv(e, jobs) /\ ReadersInv(e, reader) /\ e.backings = db.backings
      /\ e.disabled = db.disabled /\ e.late = db.late
  BY IInvFacts, WritingFacts
<1> HIDE DEF e
<1>9. Own(x) = {} /\ InputsOf(x) = InputsOf(a)
  BY <1>5 DEF Own, Pending, InputsOf
<1>10. Own(x) \subseteq Own(a)
  BY <1>9
<1> QED
  BY <1>1, <1>2, <1>3, <1>4, <1>5, <1>6, <1>7, <1>8, <1>9, <1>10, PlainStep

\* A backing is protected by one job more, or one job less.
LEMMA ProtectedStep ==
  ASSUME IInv, Up, NEW j, NEW x, JobStep(j, x), NEW b \in DOMAIN db.backings,
         DOMAIN db'.backings = DOMAIN db.backings,
         \A c \in DOMAIN db.backings : db'.backings[c].use = db.backings[c].use,
         \A c \in DOMAIN db.backings \ {b} : db'.backings[c].prot = db.backings[c].prot,
         \/ /\ Was(j).prot = 0 /\ x.prot = b /\ j \in DOMAIN jobs'
            /\ db'.backings[b].prot = db.backings[b].prot + 1
         \/ /\ Was(j).prot = b /\ x.prot = 0
            /\ db'.backings[b].prot = db.backings[b].prot - 1,
         Target' = Target
  PROVE  BackingsInv'
<1>1. 0 \notin DOMAIN db.backings
  BY TakenBelow DEF Refd
<1>0. Done.prot = 0
  BY DoneType
<1>2. \A c \in DOMAIN db.backings \ {b} : Protecting(jobs', c) = Protecting(jobs, c)
  BY <1>1, <1>0 DEF JobStep, Was, Protecting
<1>3. jobs \in Seq(JobType) /\ DOMAIN jobs = 1 .. Len(jobs) /\ Len(jobs) \in Nat
  BY IInvFacts
<1>4. IsFiniteSet(DOMAIN jobs)
  BY <1>3, FS_Interval
<1>5. IsFiniteSet(Protecting(jobs, b))
  BY <1>4, FS_Subset DEF Protecting
<1>6. db.backings[b].prot = Cardinality(Protecting(jobs, b))
  BY DEF IInv, BackingsInv
<1>7. b # 0
  BY <1>1
<1>8. db'.backings[b].prot = Cardinality(Protecting(jobs', b))
  <2>1. CASE Was(j).prot = 0 /\ x.prot = b /\ j \in DOMAIN jobs'
             /\ db'.backings[b].prot = db.backings[b].prot + 1
    <3>1. Protecting(jobs', b) = Protecting(jobs, b) \cup {j} /\ j \notin Protecting(jobs, b)
      BY <1>7, <2>1 DEF JobStep, Was, Protecting
    <3> QED
      BY <1>5, <1>6, <2>1, <3>1, CardParts
  <2>2. CASE Was(j).prot = b /\ x.prot = 0
             /\ db'.backings[b].prot = db.backings[b].prot - 1
    <3>1. Protecting(jobs', b) = Protecting(jobs, b) \ {j} /\ j \in Protecting(jobs, b)
      BY <1>0, <1>7, <2>2 DEF JobStep, Was, Protecting
    <3> QED
      BY <1>5, <1>6, <2>2, <3>1, CardParts
  <2> QED
    BY <2>1, <2>2
<1>9. \A c \in DOMAIN db'.backings :
        /\ db'.backings[c].use = Virtuals(Target', c)
        /\ db'.backings[c].prot = Cardinality(Protecting(jobs', c))
  BY <1>2, <1>8 DEF IInv, BackingsInv
<1>10. \A i \in DOMAIN jobs' : jobs'[i].prot # 0 => jobs'[i].prot \in DOMAIN db'.backings
  BY DEF IInv, BackingsInv, JobStep
<1>11. Sound(Target', DOMAIN db'.backings)
  BY DEF IInv, BackingsInv
<1> QED
  BY <1>9, <1>10, <1>11 DEF BackingsInv

\* The state of versionSet when backing b is protected m times.
SetProt(d, b, m, k) ==
  [d EXCEPT !.nextFileNum = k,
            !.backings = [d.backings EXCEPT ![b] = [use |-> d.backings[b].use, prot |-> m]]]

LEMMA SetProtFacts ==
  ASSUME NEW d, NEW T, NEW Z, NEW js, NEW rd, DBInv(d, T, Z), NEW b \in DOMAIN d.backings,
         NEW m \in Int, NEW k \in Nat, k >= d.nextFileNum
  PROVE  LET e == SetProt(d, b, m, k)
         IN  /\ DBInv(e, T, Z) /\ Lets(d, e, {}) /\ e.writing = d.writing
             /\ RefsInv(d, js) => RefsInv(e, js)
             /\ ReadersInv(d, rd) => ReadersInv(e, rd)
             /\ e.disabled = d.disabled /\ e.late = d.late /\ e.nextFileNum = k
             /\ DOMAIN e.backings = DOMAIN d.backings
             /\ \A c \in DOMAIN d.backings :
                  /\ e.backings[c].use = d.backings[c].use
                  /\ e.backings[c].prot = IF c = b THEN m ELSE d.backings[c].prot
<1> DEFINE y == [use |-> d.backings[b].use, prot |-> m]
           B == [d.backings EXCEPT ![b] = y]
           e == [d EXCEPT !.nextFileNum = k, !.backings = B]
<1>1. d \in DBType
  BY DEF DBInv
<1>2. d.backings \in Maps(BackingType) /\ d.backings[b] \in BackingType
      /\ DOMAIN d.backings \subseteq Nat
  BY <1>1, DBTypeFacts
<1>3. y \in BackingType /\ y.use = d.backings[b].use /\ y.prot = m
  BY <1>2 DEF BackingType
<1> HIDE DEF y
<1>4. B \in Maps(BackingType) /\ DOMAIN B = DOMAIN d.backings
      /\ \A c \in DOMAIN d.backings : B[c] = IF c = b THEN y ELSE d.backings[c]
  BY <1>2, <1>3, MapParts
<1> HIDE DEF B
<1>5. e \in DBType
  BY <1>1, <1>4 DEF DBType
<1>6. /\ e.versions = d.versions /\ e.current = d.current /\ e.backings = B
      /\ e.held = d.held /\ e.zombies = d.zombies /\ e.late = d.late
      /\ e.obsolete = d.obsolete /\ e.panic = d.panic /\ e.readState = d.readState
      /\ e.obsoleteManifests = d.obsoleteManifests
      /\ e.nextFileNum = k /\ e.manifestFileNum = d.manifestFileNum
      /\ e.writing = d.writing /\ e.disabled = d.disabled /\ e.readStates = d.readStates
  BY <1>1 DEF DBType
<1>7. SetProt(d, b, m, k) = e
  BY DEF SetProt, B, y
<1> HIDE DEF e
<1>8. /\ DBInv(e, T, Z) /\ Lets(d, e, {})
      /\ RefsInv(d, js) => RefsInv(e, js)
      /\ ReadersInv(d, rd) => ReadersInv(e, rd)
  BY <1>4, <1>5, <1>6, OtherFields
<1> QED
  BY <1>3, <1>4, <1>6, <1>7, <1>8

LEMMA UnprotectInv ==
  ASSUME IInv, NEW j \in DOMAIN jobs, Unprotect(j) PROVE IInv'
<1> DEFINE a == jobs[j]
           b == a.prot
           m == db.backings[b].prot - 1
           e == SetProt(db, b, m, db.nextFileNum)
<1>1. /\ a.pc = "unprotect" /\ UNCHANGED <<disk, phase, io, ckpt, reader, cleanup>>
      /\ jobs' = [jobs EXCEPT ![j] = Done]
  BY DEF Unprotect
<1>2. /\ a \in JobType /\ InputsInv(a, db, Target) /\ Was(j) = a /\ a.version = 0 /\ Up
  BY <1>1, JobFacts DEF InputsInv
<1>3. /\ Done \in JobType /\ JobOK(Done) /\ InputsInv(Done, db', Target)
      /\ Own(Done) \subseteq Own(a) /\ Own(Done) = {} /\ InputsOf(Done) \subseteq Taken
      /\ Done.pc = "done" /\ Done.kind = "done" /\ Done.prot = 0 /\ Done.version = 0
  <2>1. Done.version = 0
    BY DEF Done
  <2> QED
    BY <2>1, DoneType
<1>4. /\ DBInv(db, Target, io.zombies) /\ RefsInv(db, jobs) /\ ReadersInv(db, reader)
      /\ db \in DBType /\ jobs \in Seq(JobType) /\ Lets(db, db, {}) /\ db.nextFileNum \in Nat
  BY IInvFacts, SameDB
<1> HIDE DEF Done
<1>5. CASE b = 0
  <2>1. db' = db
    BY <1>5 DEF Unprotect
  <2> HIDE DEF a
  <2>2. jobs[j].prot = 0 /\ jobs[j].pc = "unprotect" /\ jobs[j].version = 0
    BY <1>1, <1>2, <1>5 DEF a
  <2> QED
    BY <1>1, <1>3, <1>4, <2>1, <2>2, PlainStep DEF a
<1>6. CASE b # 0
  <2>1. b \in DOMAIN db.backings
    BY <1>6 DEF IInv, BackingsInv
  <2>2. db.backings[b] \in BackingType /\ db.backings \in Maps(BackingType)
    BY <1>4, <2>1, DBTypeFacts
  <2>3. m \in Int
    BY <2>2 DEF BackingType
  <2>4. db' = e
    <3> DEFINE B == [c \in DOMAIN db.backings |->
                       [use |-> db.backings[c].use,
                        prot |-> db.backings[c].prot - (IF c = b THEN 1 ELSE 0)]]
               C == [db.backings EXCEPT ![b] = [use |-> db.backings[b].use, prot |-> m]]
               p == db.panic \/ b \notin DOMAIN db.backings
    <3>1. db' = [db EXCEPT !.panic = p, !.backings = B]
      BY <1>6, Zenon DEF Unprotect
    <3>2. B = C
      <4>1. \A c \in DOMAIN db.backings : db.backings[c] \in BackingType
        BY <1>4, DBTypeFacts
      <4>2. DOMAIN B = DOMAIN C /\ DOMAIN B = DOMAIN db.backings
        OBVIOUS
      <4>3. ASSUME NEW c \in DOMAIN db.backings PROVE B[c] = C[c]
        <5>1. db.backings[c] = [use |-> db.backings[c].use, prot |-> db.backings[c].prot]
              /\ db.backings[c].prot \in Int
          BY <4>1 DEF BackingType
        <5> QED
          BY <5>1
      <4>4. B = [c \in DOMAIN db.backings |-> B[c]] /\ C = [c \in DOMAIN db.backings |-> C[c]]
        OBVIOUS
      <4> HIDE DEF B, C
      <4> QED
        BY <4>2, <4>3, <4>4
    <3>3. p = db.panic
      BY <2>1, <1>4 DEF DBType
    <3> HIDE DEF B, C, p, b
    <3>4. db' = [db EXCEPT !.nextFileNum = db.nextFileNum, !.backings = C]
      BY <1>4, <3>1, <3>2, <3>3 DEF DBType
    <3> QED
      BY <3>4 DEF SetProt, C
  <2> HIDE DEF m
  <2>5. /\ DBInv(e, Target, io.zombies) /\ Lets(db, e, {}) /\ e.writing = db.writing
        /\ RefsInv(e, jobs) /\ ReadersInv(e, reader)
        /\ e.disabled = db.disabled /\ e.late = db.late
        /\ DOMAIN e.backings = DOMAIN db.backings
        /\ \A c \in DOMAIN db.backings :
             /\ e.backings[c].use = db.backings[c].use
             /\ e.backings[c].prot = IF c = b THEN m ELSE db.backings[c].prot
    <3> DEFINE k == db.nextFileNum
               T == Target
               Z == io.zombies
               c == SetProt(db, b, m, k)
    <3>1. k \in Nat /\ k >= db.nextFileNum
      BY <1>4
    <3>2. DBInv(db, T, Z) /\ RefsInv(db, jobs) /\ ReadersInv(db, reader)
      BY <1>4
    <3> HIDE DEF k, T, Z, b
    <3>3. /\ DBInv(c, T, Z) /\ Lets(db, c, {}) /\ c.writing = db.writing
          /\ RefsInv(db, jobs) => RefsInv(c, jobs)
          /\ ReadersInv(db, reader) => ReadersInv(c, reader)
          /\ c.disabled = db.disabled /\ c.late = db.late
          /\ DOMAIN c.backings = DOMAIN db.backings
          /\ \A q \in DOMAIN db.backings :
               /\ c.backings[q].use = db.backings[q].use
               /\ c.backings[q].prot = IF q = b THEN m ELSE db.backings[q].prot
      BY <2>1, <2>3, <3>1, <3>2, SetProtFacts
    <3> QED
      BY <3>2, <3>3 DEF k, T, Z
  <2> HIDE DEF e
  <2>6. JobStep(j, Done)
    BY <1>1, <1>3, <1>4, JobChanged
  <2>7. Target' = Target => BackingsInv'
    <3>1. /\ DOMAIN db'.backings = DOMAIN db.backings
          /\ \A c \in DOMAIN db.backings : db'.backings[c].use = db.backings[c].use
          /\ \A c \in DOMAIN db.backings \ {b} : db'.backings[c].prot = db.backings[c].prot
          /\ Was(j).prot = b /\ Done.prot = 0
          /\ db'.backings[b].prot = db.backings[b].prot - 1
      BY <1>2, <1>3, <2>1, <2>4, <2>5 DEF m
    <3> HIDE DEF b
    <3> QED
      BY <1>2, <2>1, <2>6, <3>1, ProtectedStep
  <2> HIDE DEF b
  <2> QED
    BY <1>1, <1>2, <1>3, <1>4, <2>4, <2>5, <2>7, PlainStep
<1> QED
  BY <1>5, <1>6

LEMMA ClearCompactingInv ==
  ASSUME IInv, NEW j \in DOMAIN jobs, ClearCompacting(j) PROVE IInv'
<1> DEFINE a == jobs[j]
           T == Target
           Z == io.zombies
           d == IF a.err THEN db ELSE UpdateReadState(db)
           e == DeleteObsoleteFiles(d)
<1>1. /\ a.pc = "clear" /\ db' = e
      /\ UNCHANGED <<disk, phase, io, ckpt, reader, cleanup>>
      /\ jobs' = [jobs EXCEPT ![j] = Done]
  BY DEF ClearCompacting
<1>2. /\ a \in JobType /\ JobOK(a) /\ InputsInv(a, db, Target) /\ a.version = 0
  BY <1>1, JobFacts DEF InputsInv
<1>3. a.prot = 0
  BY <1>1, <1>2 DEF JobOK, Places
<1>4. /\ DBInv(db, T, Z) /\ RefsInv(db, jobs) /\ ReadersInv(db, reader)
      /\ db \in DBType /\ jobs \in Seq(JobType) /\ Lets(db, db, {}) /\ reader \in ReaderType
      /\ db.disabled \in Nat
  BY IInvFacts, SameDB
<1> HIDE DEF T, Z, a
<1>5. DBInv(d, T, Z) /\ Releases(db, d, {}) /\ RefsInv(d, jobs) /\ ReadersInv(d, reader)
  <2>1. CASE a.err
    BY <1>4, <2>1 DEF Releases
  <2>2. CASE ~a.err
    <3>1. /\ DBInv(UpdateReadState(db), T, Z) /\ Releases(db, UpdateReadState(db), {})
          /\ RefsInv(UpdateReadState(db), jobs) /\ ReadersInv(UpdateReadState(db), reader)
      BY <1>4, UpdateReadStateFacts
    <3> QED
      BY <2>2, <3>1
  <2> QED
    BY <2>1, <2>2
<1> HIDE DEF d
<1>6. d \in DBType /\ d.disabled \in Nat
  BY <1>4, <1>5 DEF DBInv, Releases
<1>7. /\ DBInv(e, T, Z) /\ Releases(d, e, {})
      /\ RefsInv(e, jobs) /\ ReadersInv(e, reader)
  BY <1>5, <1>6, DeleteObsoleteFacts
<1> HIDE DEF e
<1>8. Releases(db, e, {})
  <2>1. Releases(db, e, {} \cup {})
    BY <1>4, <1>5, <1>6, <1>7, ReleasesChain DEF DBInv
  <2> QED
    BY <2>1
<1>9. /\ Done \in JobType /\ JobOK(Done) /\ InputsInv(Done, db', Target)
      /\ Own(Done) \subseteq Own(a) /\ Own(Done) = {} /\ InputsOf(Done) \subseteq Taken
      /\ Done.pc = "done" /\ Done.kind = "done" /\ Done.prot = 0 /\ Done.version = 0
  <2>1. Done.version = 0
    BY DEF Done
  <2> QED
    BY <2>1, DoneType
<1> HIDE DEF Done
<1>10. /\ DBInv(db', Target, io.zombies) /\ RefsInv(db', jobs) /\ ReadersInv(db', reader)
       /\ Lets(db, db', {}) /\ db'.disabled = db.disabled /\ (db.disabled # 0 => db'.late = db.late)
       /\ db'.writing = db.writing /\ db'.backings = db.backings
  BY <1>1, <1>7, <1>8 DEF T, Z, Releases
<1>11. jobs[j].pc = "clear" /\ jobs[j].version = 0 /\ jobs[j].prot = 0
  BY <1>1, <1>2, <1>3 DEF a
<1> QED
  BY <1>1, <1>9, <1>10, <1>11, PlainStep DEF a

LEMMA ExciseErrorInv ==
  ASSUME IInv, NEW j \in DOMAIN jobs, ExciseError(j) PROVE IInv'
<1> DEFINE a == jobs[j]
           B == Backings(a.edit.new)
           x == [Done EXCEPT !.err = TRUE]
           e == SetWriting(db, TRUE)
<1>1. /\ a.pc = "lock" /\ a.kind = "excise" /\ ~db.writing /\ db' = e
      /\ files' = files \ B /\ synced' = synced \cap files'
      /\ UNCHANGED <<manifests, marker, external, hasLog, phase, io, ckpt, reader, cleanup>>
      /\ jobs' = [jobs EXCEPT ![j] = x]
  BY DEF ExciseError, SetWriting
<1>2. /\ a \in JobType /\ JobOK(a) /\ InputsInv(a, db, Target) /\ Was(j) = a
      /\ phase = "open" /\ Up
  BY <1>1, JobFacts
<1>3. a.version = 0 /\ a.prot = 0 /\ a.in = {} /\ NewTable(a.edit, a.in)
  BY <1>1, <1>2 DEF JobOK, InputsInv, Pending, Shape
<1>4. x \in JobType /\ x.pc = "done" /\ x.kind = "done" /\ x.in = {} /\ x.edit = NoEdit
      /\ x.version = 0 /\ x.prot = 0
  <2>1. Done.version = 0 /\ Done.in = {} /\ Done.edit = NoEdit
    BY DEF Done
  <2> QED
    BY <2>1, DoneType DEF JobType
<1> HIDE DEF x
<1>5. JobOK(x) /\ (\A d, T : InputsInv(x, d, T)) /\ Own(x) = {} /\ InputsOf(x) = {}
  <2>1. JobOK(x)
    BY <1>4 DEF JobOK, Places, Pending
  <2>2. ASSUME NEW d, NEW T PROVE InputsInv(x, d, T)
    BY <1>4 DEF InputsInv
  <2>3. Own(x) = {} /\ InputsOf(x) = {}
    BY <1>4 DEF Own, Pending, InputsOf, Backings, Numbers
  <2> QED
    BY <2>1, <2>2, <2>3
<1>6. B \subseteq Own(a) /\ Own(a) \cap Taken = {}
  <2>1. PICK t \in a.edit.new : a.edit.new = {t} /\ t.backing = t.num
    BY <1>3 DEF NewTable
  <2>2. B = {t.num} /\ Numbers(a.edit.new) = {t.num} /\ Numbers(a.in) = {}
    BY <1>3, <2>1 DEF Backings, Numbers
  <2>3. B \subseteq Own(a)
    BY <1>1, <2>2 DEF Own, Pending
  <2> QED
    BY <1>2, <2>3, OwnBelow
<1> HIDE DEF B
<1>7. JobStep(j, x)
  BY <1>1, <1>4, IInvFacts, JobChanged
<1>8. /\ DBInv(e, Target, io.zombies) /\ Lets(db, e, {}) /\ e.writing = TRUE
      /\ RefsInv(e, jobs) /\ ReadersInv(e, reader) /\ e.backings = db.backings
      /\ e.disabled = db.disabled /\ e.late = db.late
  BY IInvFacts, WritingFacts
<1> HIDE DEF e
<1>9. RefsInv(db', jobs')
  <2>1. 0 \notin DOMAIN e.versions
    BY <1>8, VersionNumbers DEF DBInv
  <2>2. RefsInv(e, jobs')
    BY <1>2, <1>3, <1>4, <1>7, <1>8, <2>1, SameVersions
  <2> QED
    BY <1>1, <2>2
<1>10. Target' = Target => BackingsInv'
  <2>1. x.prot = Was(j).prot /\ db'.backings = db.backings
    BY <1>1, <1>2, <1>3, <1>4, <1>8
  <2> QED
    BY <1>2, <1>7, <2>1, BackingsFrame
<1>11. /\ files' \in SUBSET Nat /\ IsFiniteSet(files') /\ synced' \subseteq files'
       /\ external' \subseteq Nat
  <2>1. files \in SUBSET Nat /\ IsFiniteSet(files) /\ external \subseteq Nat
    BY DEF IInv, TypeOK, DiskType
  <2> QED
    BY <1>1, <2>1, FS_Subset
<1>12. CkptInv'
  <2>1. ckpt.need = {} \/ ckpt.need \subseteq files
    BY DEF IInv, CkptInv
  <2>2. ckpt.need \subseteq files'
    BY <1>1, <1>6, <2>1 DEF Taken
  <2> QED
    BY <1>1, <1>8, <2>2, CkptFrame
<1>13. /\ \A k \in files' \ files : k > 0 /\ k < db'.nextFileNum
       /\ files \ files' \subseteq Own(Was(j)) \cup Taken
       /\ synced \ synced' \subseteq Own(Was(j)) \cup Taken
       /\ Refd(db) \subseteq synced' /\ ckpt' \in CkptType
       /\ ckpt'.need \subseteq ckpt.need \cup Refd(db)
       /\ db'.disabled = IF ckpt'.pc = "idle" THEN 0 ELSE 1
  <2>1. db.disabled = IF ckpt.pc = "idle" THEN 0 ELSE 1
    BY DEF IInv, PhaseInv
  <2>2. synced \subseteq files /\ Refd(db) \subseteq synced
    BY BaseRefd
  <2>3. Refd(db) \cap B = {}
    BY <1>6 DEF Taken
  <2> QED
    BY <1>1, <1>2, <1>6, <1>8, <2>1, <2>2, <2>3, IInvFacts
<1>14. /\ Was(j).pc # "apply" /\ x.pc # "apply" /\ x.pc # "target"
       /\ x.kind \notin {"compact", "move", "deleteonly"} /\ ~db.writing /\ Lets(db, db', {})
       /\ InputsOf(x) \subseteq Taken /\ {} \subseteq Own(Was(j)) \cup Taken /\ {} \cap Own(x) = {}
       /\ \A k \in Own(x) : k \in Own(Was(j))
       /\ Own(x) \cap Backings(x.edit.new) \subseteq IF x.pc = "sync" THEN files' ELSE synced'
  BY <1>1, <1>2, <1>4, <1>5, <1>8
<1>15. /\ DBInv(db', Target, io.zombies) /\ ReadersInv(db', reader')
       /\ reader' \in ReaderType /\ InputsInv(x, db', Target)
  BY <1>1, <1>5, <1>8, IInvFacts
<1>16. UNCHANGED <<io, phase, marker, manifests, hasLog, cleanup>>
  BY <1>1
<1> HIDE DEF a
<1> QED
  BY <1>2, <1>4, <1>5, <1>7, <1>9, <1>10, <1>11, <1>12, <1>13, <1>14, <1>15, <1>16, QuietStep

\* An ingest begins: its files are on disk and synced, and its edit is made.
LEMMA IngestStep ==
  ASSUME IInv, phase = "open", NEW x \in JobType, jobs' = Append(jobs, x),
         NEW F \in SUBSET {db.nextFileNum},
         files' = files \cup F, synced' = synced \/ synced' = files', synced \subseteq synced',
         external' \subseteq Nat,
         UNCHANGED <<manifests, marker, hasLog, phase, io, ckpt, reader, cleanup>>,
         JobOK(x), x.version = 0, x.pc = "lock", x.kind \in {"excise", "external"}, x.in = {},
         Own(x) \subseteq {db.nextFileNum}, Own(x) \cap Backings(x.edit.new) \subseteq synced',
         DBInv(db', Target, io.zombies), RefsInv(db', jobs), ReadersInv(db', reader),
         Lets(db, db', {}), db'.nextFileNum = db.nextFileNum + 1,
         db'.disabled = db.disabled, db'.late = db.late, db'.writing = db.writing,
         JobStep(Len(jobs) + 1, x) /\ Target' = Target => BackingsInv'
  PROVE  IInv'
<1> DEFINE j == Len(jobs) + 1
           n == db.nextFileNum
<1>1. JobStep(j, x) /\ Was(j) = Done
  BY IInvFacts, JobChanged
<1>2. n \in Nat /\ n > 0 /\ Up /\ Done.version = 0
  BY TakenBelow DEF Up, Done
<1>3. Target' = Target => BackingsInv'
  BY <1>1
<1> HIDE DEF j
<1>4. RefsInv(db', jobs')
  <2>1. 0 \notin DOMAIN db'.versions
    BY VersionNumbers DEF DBInv
  <2> QED
    BY <1>1, <1>2, <2>1, SameVersions
<1>5. /\ files' \in SUBSET Nat /\ IsFiniteSet(files') /\ synced' \subseteq files'
      /\ synced \subseteq files
  <2>1. files \in SUBSET Nat /\ IsFiniteSet(files) /\ synced \subseteq files
    BY DEF IInv, TypeOK, DiskType
  <2>2. IsFiniteSet(F)
    <3>1. F = {} \/ F = {n}
      OBVIOUS
    <3>2. IsFiniteSet({}) /\ IsFiniteSet({n})
      BY FS_EmptySet, FS_Singleton
    <3> QED
      BY <3>1, <3>2
  <2> QED
    BY <1>2, <2>1, <2>2, FS_Union
<1>6. CkptInv'
  <2>1. ckpt.need = {} \/ ckpt.need \subseteq files
    BY DEF IInv, CkptInv
  <2>2. ckpt.need \subseteq files'
    BY <2>1
  <2> QED
    BY <2>2, CkptFrame
<1>7. /\ \A k \in files' \ files : k > 0 /\ k < db'.nextFileNum
      /\ files \ files' \subseteq Own(Was(j)) \cup Taken
      /\ synced \ synced' \subseteq Own(Was(j)) \cup Taken
      /\ Refd(db) \subseteq synced' /\ ckpt' \in CkptType
      /\ ckpt'.need \subseteq ckpt.need \cup Refd(db)
      /\ db'.disabled = IF ckpt'.pc = "idle" THEN 0 ELSE 1
  <2>1. db.disabled = IF ckpt.pc = "idle" THEN 0 ELSE 1
    BY DEF IInv, PhaseInv
  <2>2. Refd(db) \subseteq synced
    BY BaseRefd
  <2> QED
    BY <1>2, <2>1, <2>2, IInvFacts
<1>8. /\ Was(j).pc # "apply" /\ x.pc # "apply" /\ x.pc # "target"
      /\ x.kind \notin {"compact", "move", "deleteonly"}
      /\ db'.writing \/ ~db.writing
      /\ {} \subseteq Own(Was(j)) \cup Taken /\ {} \cap Own(x) = {}
      /\ \A k \in Own(x) : db.nextFileNum <= k /\ k < db'.nextFileNum
      /\ Own(x) \cap Backings(x.edit.new) \subseteq IF x.pc = "sync" THEN files' ELSE synced'
  <2>1. db.writing \in BOOLEAN
    BY IInvFacts
  <2>2. Was(j).pc # "apply"
    BY <1>1, DoneType
  <2> QED
    BY <1>2, <2>1, <2>2
<1>9. InputsOf(x) \subseteq Taken
  BY DEF InputsOf, Backings, Numbers
<1>10. InputsInv(x, db', Target)
  BY DEF InputsInv
<1>11. ReadersInv(db', reader') /\ reader' \in ReaderType
  BY IInvFacts
<1>12. UNCHANGED <<io, phase, marker, manifests, hasLog, cleanup>>
  OBVIOUS
<1> HIDE DEF n
<1> QED
  BY <1>1, <1>3, <1>4, <1>5, <1>6, <1>7, <1>8, <1>9, <1>10, <1>11, <1>12, QuietStep

\* The state of versionSet after a number is taken.
SetNext(d, k) == [d EXCEPT !.nextFileNum = k]

LEMMA OneMore ==
  ASSUME IInv
  PROVE  LET e == SetNext(db, db.nextFileNum + 1)
         IN  /\ DBInv(e, Target, io.zombies) /\ Lets(db, e, {})
             /\ e.nextFileNum = db.nextFileNum + 1
             /\ RefsInv(e, jobs) /\ ReadersInv(e, reader)
             /\ e.backings = db.backings /\ e.disabled = db.disabled /\ e.late = db.late
             /\ e.writing = db.writing
<1> DEFINE k == db.nextFileNum + 1
           T == Target
           Z == io.zombies
           c == [db EXCEPT !.nextFileNum = k]
<1>1. k \in Nat /\ k >= db.nextFileNum
  BY IInvFacts
<1>2. DBInv(db, T, Z) /\ RefsInv(db, jobs) /\ ReadersInv(db, reader)
  BY IInvFacts
<1> HIDE DEF k, T, Z
<1>3. /\ DBInv(c, T, Z) /\ Lets(db, c, {}) /\ c.nextFileNum = k
      /\ RefsInv(db, jobs) => RefsInv(c, jobs)
      /\ ReadersInv(db, reader) => ReadersInv(c, reader)
      /\ c.backings = db.backings /\ c.disabled = db.disabled /\ c.late = db.late
      /\ c.writing = db.writing
  BY <1>1, <1>2, NumbersTaken
<1>4. c = SetNext(db, k)
  BY DEF SetNext
<1> HIDE DEF c
<1> QED
  BY <1>2, <1>3, <1>4 DEF T, Z, k

LEMMA BeginExciseInv == ASSUME IInv, BeginExcise PROVE IInv'
<1> DEFINE n == db.nextFileNum
<1>1. PICK S \in Spans :
        BeginJob([Done EXCEPT !.kind = "excise", !.pc = "lock", !.span = S,
                              !.edit = Edit({}, {Physical(n, 1, S)}, {})])
  BY DEF BeginExcise
<1> DEFINE t == Physical(n, 1, S)
           f == Edit({}, {t}, {})
           x == [Done EXCEPT !.kind = "excise", !.pc = "lock", !.span = S, !.edit = f]
           e == SetNext(db, n + 1)
<1>2. /\ phase = "open" /\ jobs' = Append(jobs, x)
      /\ files' = files \cup {n} /\ synced' = files' /\ db' = e
      /\ UNCHANGED <<manifests, marker, external, hasLog, phase, io, ckpt, reader, cleanup>>
  <2>1. x.kind = "excise" => MayBegin("excise")
    BY <1>1 DEF BeginJob
  <2>2. phase = "open" /\ jobs' = Append(jobs, x)
    BY <1>1 DEF BeginJob, MayBegin
  <2> QED
    BY <2>2 DEF BeginExcise, SetNext
<1>3. n \in Nat /\ n > 0
  BY <1>2, TakenBelow DEF Up
<1>4. S \subseteq Keys /\ S # {}
  BY SpanFacts
<1>5. t \in TableType /\ t.num = n /\ t.backing = n /\ t.virtual = FALSE
  BY <1>3, <1>4 DEF Physical, Table, TableType
<1> HIDE DEF t
<1>6. f \in EditType /\ f.del = {} /\ f.new = {t} /\ f.created = {}
  BY <1>5, TableSetFacts DEF Edit, EditType
<1> HIDE DEF f
<1>7. /\ x \in JobType /\ x.kind = "excise" /\ x.pc = "lock" /\ x.in = {} /\ x.edit = f
      /\ x.version = 0 /\ x.prot = 0 /\ x.span = S
  <2>1. Done.version = 0 /\ Done.in = {}
    BY DEF Done
  <2> QED
    BY <1>4, <1>6, <2>1, DoneType DEF JobType
<1> HIDE DEF x
<1>8. JobOK(x)
  <2>1. NewTable(x.edit, x.in)
    BY <1>5, <1>6, <1>7 DEF NewTable, Numbers
  <2> QED
    BY <1>4, <1>7, <2>1 DEF JobOK, Places, Pending, Shape
<1>9. Own(x) = {n}
  BY <1>5, <1>6, <1>7 DEF Own, Pending, Numbers
<1>10. /\ DBInv(e, Target, io.zombies) /\ Lets(db, e, {}) /\ e.nextFileNum = n + 1
       /\ RefsInv(e, jobs) /\ ReadersInv(e, reader)
       /\ e.backings = db.backings /\ e.disabled = db.disabled /\ e.late = db.late
       /\ e.writing = db.writing
  BY OneMore
<1> HIDE DEF e
<1>11. ASSUME JobStep(Len(jobs) + 1, x), Target' = Target PROVE BackingsInv'
  <2> DEFINE j == Len(jobs) + 1
  <2>1. Was(j) = Done
    BY <1>2, <1>7, IInvFacts, JobChanged
  <2>2. JobStep(j, x)
    BY <1>11
  <2> HIDE DEF j
  <2>3. x.prot = Was(j).prot /\ db'.backings = db.backings /\ Up
    BY <1>2, <1>7, <1>10, <2>1, DoneType DEF Up
  <2> QED
    BY <1>11, <2>2, <2>3, BackingsFrame
<1>12. external' \subseteq Nat /\ synced \subseteq files
  BY <1>2 DEF IInv, TypeOK, DiskType
<1>13. {n} \in SUBSET {db.nextFileNum} /\ Own(x) \cap Backings(x.edit.new) \subseteq synced'
       /\ Own(x) \subseteq {db.nextFileNum} /\ synced \subseteq synced'
  BY <1>2, <1>9, <1>12
<1> QED
  BY <1>2, <1>7, <1>8, <1>10, <1>11, <1>12, <1>13, IngestStep

\* The job of an ingest of the external object, with number n and backing b.
ExternalEdit(n, b, c) == Edit({}, {Table(n, b, TRUE, 0, {<<2, n>>})}, c)

ExternalJob(n, b, c) ==
  [Done EXCEPT !.kind = "external", !.pc = "lock", !.prot = IF b = n THEN 0 ELSE b,
               !.edit = ExternalEdit(n, b, c)]

LEMMA ExternalJobFacts ==
  ASSUME NEW n \in Nat, NEW b \in Nat, NEW c \in SUBSET Nat
  PROVE  LET y == ExternalJob(n, b, c)
         IN  /\ y \in JobType /\ y.kind = "external" /\ y.pc = "lock" /\ y.in = {}
             /\ y.version = 0 /\ y.prot = (IF b = n THEN 0 ELSE b)
             /\ (\E u \in y.edit.new : /\ y.edit.new = {u} /\ u.num = n /\ u.backing = b
                                       /\ u.virtual)
             /\ y.edit.del = {} /\ y.edit.created = c
<1> DEFINE u == Table(n, b, TRUE, 0, {<<2, n>>})
           g == ExternalEdit(n, b, c)
           p == IF b = n THEN 0 ELSE b
           y == [Done EXCEPT !.kind = "external", !.pc = "lock", !.prot = p, !.edit = g]
<1>1. u \in TableType /\ u.num = n /\ u.backing = b /\ u.virtual
  BY DEF Table, TableType, Keys
<1>2. g = Edit({}, {u}, c)
  BY DEF ExternalEdit
<1> HIDE DEF u, g
<1>3. g \in EditType /\ g.del = {} /\ g.new = {u} /\ g.created = c
  BY <1>1, <1>2, TableSetFacts DEF Edit, EditType
<1>4. p \in Nat
  OBVIOUS
<1> HIDE DEF p
<1>5. /\ y \in JobType /\ y.kind = "external" /\ y.pc = "lock" /\ y.in = {} /\ y.edit = g
      /\ y.version = 0 /\ y.prot = p
  <2>1. Done.version = 0 /\ Done.in = {}
    BY DEF Done
  <2> QED
    BY <1>3, <1>4, <2>1, DoneType DEF JobType
<1>6. y = ExternalJob(n, b, c)
  BY DEF g, p, ExternalJob
<1> HIDE DEF y
<1> QED
  BY <1>1, <1>3, <1>5, <1>6 DEF p

LEMMA BeginExternalInv == ASSUME IInv, BeginExternal PROVE IInv'
<1> DEFINE n == db.nextFileNum
           X == external \cap DOMAIN db.backings
<1>1. phase = "open" /\ UNCHANGED <<manifests, marker, hasLog, phase, io, ckpt, reader, cleanup>>
  BY DEF BeginExternal, BeginJob, MayBegin
<1>2. n \in Nat /\ n > 0 /\ (\A b \in DOMAIN db.backings : b \in Nat /\ b < n /\ b # 0)
  <2>1. \A b \in DOMAIN db.backings : b \in Taken /\ b \in Refd(db)
    BY DEF Taken, Refd
  <2> QED
    BY <1>1, <2>1, TakenBelow DEF Up
<1>3. external \subseteq Nat /\ synced \subseteq files /\ jobs \in Seq(JobType)
  BY IInvFacts DEF IInv, TypeOK, DiskType
<1>5. ASSUME NEW y, y.pc = "lock", y.in = {}, NEW b, NEW u \in y.edit.new,
             y.edit.new = {u}, u.num = n, u.backing = b
      PROVE  Own(y) = {n} /\ Backings(y.edit.new) = {b}
  BY <1>5 DEF Own, Pending, Numbers, Backings
<1>6. CASE X = {}
  <2> DEFINE y == ExternalJob(n, n, {n})
             e == SetNext(db, n + 1)
  <2>1. /\ jobs' = Append(jobs, y) /\ files' = files \cup {n} /\ external' = external \cup {n}
        /\ synced' = files' /\ db' = e
    BY <1>6 DEF BeginExternal, BeginJob, SetNext, ExternalJob, ExternalEdit
  <2>2. /\ y \in JobType /\ y.kind = "external" /\ y.pc = "lock" /\ y.in = {}
        /\ y.version = 0 /\ y.prot = 0 /\ y.edit.del = {} /\ y.edit.created = {n}
        /\ \E u \in y.edit.new : /\ y.edit.new = {u} /\ u.num = n /\ u.backing = n
                                  /\ u.virtual
    <3> DEFINE k == n
               c == {n}
    <3>1. k \in Nat /\ c \in SUBSET Nat
      BY <1>2
    <3>2. y = ExternalJob(k, k, c)
      OBVIOUS
    <3> HIDE DEF k, c, y
    <3>3. \A m \in Nat : LET z == ExternalJob(k, m, c)
         IN  /\ z \in JobType /\ z.kind = "external" /\ z.pc = "lock" /\ z.in = {}
             /\ z.version = 0 /\ z.prot = (IF m = k THEN 0 ELSE m)
             /\ (\E u \in z.edit.new : /\ z.edit.new = {u} /\ u.num = k /\ u.backing = m
                                       /\ u.virtual)
             /\ z.edit.del = {} /\ z.edit.created = c
      BY <3>1, ExternalJobFacts
    <3>4. /\ y \in JobType /\ y.kind = "external" /\ y.pc = "lock" /\ y.in = {}
          /\ y.version = 0 /\ y.prot = 0 /\ y.edit.del = {} /\ y.edit.created = c
          /\ \E u \in y.edit.new : /\ y.edit.new = {u} /\ u.num = k /\ u.backing = k
                                  /\ u.virtual
      BY <3>1, <3>2, <3>3
    <3> QED
      BY <3>4 DEF k, c
  <2> HIDE DEF y
  <2>3. Own(y) = {n} /\ Backings(y.edit.new) = {n}
    BY <1>5, <2>2
  <2>4. JobOK(y)
    <3>1. ExternalTable(y.edit, y.prot)
      BY <2>2 DEF ExternalTable
    <3> QED
      BY <2>2, <3>1 DEF JobOK, Places, Pending, Shape
  <2>5. /\ DBInv(e, Target, io.zombies) /\ Lets(db, e, {}) /\ e.nextFileNum = n + 1
        /\ RefsInv(e, jobs) /\ ReadersInv(e, reader)
        /\ e.backings = db.backings /\ e.disabled = db.disabled /\ e.late = db.late
        /\ e.writing = db.writing
    BY OneMore
  <2> HIDE DEF e
  <2>6. ASSUME JobStep(Len(jobs) + 1, y), Target' = Target PROVE BackingsInv'
    <3> DEFINE j == Len(jobs) + 1
    <3>1. Was(j) = Done
      BY <1>3, <2>1, <2>2, JobChanged
    <3>2. JobStep(j, y)
      BY <2>6
    <3> HIDE DEF j
    <3>3. y.prot = Was(j).prot /\ db'.backings = db.backings /\ Up
      BY <1>1, <2>1, <2>2, <2>5, <3>1, DoneType DEF Up
    <3> QED
      BY <2>6, <3>2, <3>3, BackingsFrame
  <2>7. {n} \in SUBSET {db.nextFileNum} /\ Own(y) \cap Backings(y.edit.new) \subseteq synced'
        /\ Own(y) \subseteq {db.nextFileNum} /\ external' \subseteq Nat /\ synced \subseteq synced'
    BY <1>2, <1>3, <2>1, <2>3
  <2> QED
    BY <1>1, <2>1, <2>2, <2>4, <2>5, <2>6, <2>7, IngestStep
<1>7. CASE X # {}
  <2>1. PICK b \in X :
          /\ jobs' = Append(jobs, ExternalJob(n, b, {}))
          /\ db' = [db EXCEPT !.nextFileNum = n + 1, !.backings[b].prot = @ + 1]
          /\ UNCHANGED <<files, external, synced>>
    BY <1>7 DEF BeginExternal, BeginJob, ExternalJob, ExternalEdit
  <2> DEFINE y == ExternalJob(n, b, {})
             m == db.backings[b].prot + 1
             e == SetProt(db, b, m, n + 1)
  <2>2. b \in Nat /\ b < n /\ b # 0 /\ b # n /\ b \in DOMAIN db.backings
    BY <1>2, <2>1
  <2>3. /\ y \in JobType /\ y.kind = "external" /\ y.pc = "lock" /\ y.in = {}
        /\ y.version = 0 /\ y.prot = b /\ y.edit.del = {} /\ y.edit.created = {}
        /\ \E u \in y.edit.new : /\ y.edit.new = {u} /\ u.num = n /\ u.backing = b
                                  /\ u.virtual
    <3> DEFINE k == n
               c == {}
    <3>1. k \in Nat /\ c \in SUBSET Nat /\ b \in Nat /\ k # b
      BY <1>2, <2>2
    <3>2. y = ExternalJob(k, b, c)
      OBVIOUS
    <3> HIDE DEF k, c, y
    <3> QED
      BY <3>1, <3>2, ExternalJobFacts DEF k, c
  <2>4. jobs' = Append(jobs, y)
    BY <2>1
  <2> HIDE DEF y
  <2>5. Own(y) = {n} /\ Backings(y.edit.new) = {b}
    BY <1>5, <2>3
  <2>6. JobOK(y)
    <3>1. ExternalTable(y.edit, y.prot)
      BY <2>2, <2>3 DEF ExternalTable
    <3> QED
      BY <2>3, <3>1 DEF JobOK, Places, Pending, Shape
  <2>7. db.backings[b] \in BackingType /\ db.backings \in Maps(BackingType) /\ db \in DBType
    BY <2>2, IInvFacts, DBTypeFacts
  <2>8. m \in Int
    BY <2>7 DEF BackingType
  <2>9. db' = e
    <3> DEFINE z == [use |-> db.backings[b].use, prot |-> m]
    <3>1. [db.backings[b] EXCEPT !.prot = m] = z
      BY <2>7 DEF BackingType
    <3>2. e = [db EXCEPT !.nextFileNum = n + 1, !.backings = [db.backings EXCEPT ![b] = z]]
      BY DEF SetProt
    <3>3. db' = [db EXCEPT !.nextFileNum = n + 1,
                           !.backings = [db.backings EXCEPT ![b] = [db.backings[b] EXCEPT !.prot = m]]]
      BY <2>1, <2>7 DEF DBType
    <3> QED
      BY <3>1, <3>2, <3>3
  <2> HIDE DEF m
  <2>10. /\ DBInv(e, Target, io.zombies) /\ Lets(db, e, {}) /\ e.writing = db.writing
         /\ RefsInv(e, jobs) /\ ReadersInv(e, reader)
         /\ e.disabled = db.disabled /\ e.late = db.late /\ e.nextFileNum = n + 1
         /\ DOMAIN e.backings = DOMAIN db.backings
         /\ \A c \in DOMAIN db.backings :
              /\ e.backings[c].use = db.backings[c].use
              /\ e.backings[c].prot = IF c = b THEN m ELSE db.backings[c].prot
    <3> DEFINE k == n + 1
               T == Target
               Z == io.zombies
               c == SetProt(db, b, m, k)
    <3>1. k \in Nat /\ k >= db.nextFileNum
      BY <1>2
    <3>2. DBInv(db, T, Z) /\ RefsInv(db, jobs) /\ ReadersInv(db, reader)
      BY IInvFacts
    <3> HIDE DEF k, T, Z
    <3>3. /\ DBInv(c, T, Z) /\ Lets(db, c, {}) /\ c.writing = db.writing
          /\ RefsInv(db, jobs) => RefsInv(c, jobs)
          /\ ReadersInv(db, reader) => ReadersInv(c, reader)
          /\ c.disabled = db.disabled /\ c.late = db.late /\ c.nextFileNum = k
          /\ DOMAIN c.backings = DOMAIN db.backings
          /\ \A q \in DOMAIN db.backings :
               /\ c.backings[q].use = db.backings[q].use
               /\ c.backings[q].prot = IF q = b THEN m ELSE db.backings[q].prot
      BY <2>2, <2>8, <3>1, <3>2, SetProtFacts
    <3> QED
      BY <3>2, <3>3 DEF k, T, Z
  <2> HIDE DEF e
  <2>11. ASSUME JobStep(Len(jobs) + 1, y), Target' = Target PROVE BackingsInv'
    <3> DEFINE j == Len(jobs) + 1
    <3>1. Was(j) = Done /\ j \in DOMAIN jobs'
      BY <1>3, <2>3, <2>4, JobChanged
    <3>2. JobStep(j, y)
      BY <2>11
    <3> HIDE DEF j
    <3>3. /\ DOMAIN db'.backings = DOMAIN db.backings
          /\ \A c \in DOMAIN db.backings : db'.backings[c].use = db.backings[c].use
          /\ \A c \in DOMAIN db.backings \ {b} : db'.backings[c].prot = db.backings[c].prot
          /\ Was(j).prot = 0 /\ y.prot = b /\ j \in DOMAIN jobs'
          /\ db'.backings[b].prot = db.backings[b].prot + 1
          /\ Up
      BY <1>1, <2>2, <2>3, <2>9, <2>10, <3>1, DoneType DEF m, Up
    <3> QED
      BY <2>2, <2>11, <3>2, <3>3, ProtectedStep
  <2>12. {} \in SUBSET {db.nextFileNum} /\ Own(y) \cap Backings(y.edit.new) \subseteq synced'
         /\ Own(y) \subseteq {db.nextFileNum} /\ external' \subseteq Nat /\ synced \subseteq synced'
         /\ files' = files \cup {} /\ synced' = synced
    BY <1>2, <1>3, <2>1, <2>2, <2>5
  <2> QED
    BY <1>1, <2>3, <2>4, <2>6, <2>9, <2>10, <2>11, <2>12, IngestStep
<1> QED
  BY <1>6, <1>7

(***************************************************************************)
(* Checkpoints.                                                            *)
(***************************************************************************)
LEMMA LetsChain ==
  ASSUME NEW d \in DBType, NEW e \in DBType, NEW g \in DBType, NEW X, NEW Y,
         Lets(d, e, X), Lets(e, g, Y)
  PROVE  Lets(d, g, X \cup Y)
<1>1. Refd(e) \subseteq Refd(d)
  BY DEF Lets, Refd
<1>2. d.nextFileNum \in Nat /\ e.nextFileNum \in Nat /\ g.nextFileNum \in Nat
  BY DBTypeFacts
<1>3. DoomedIn(g) \subseteq DoomedIn(d) \cup Refd(d) \cup (X \cup Y)
  BY <1>1 DEF Lets
<1>4. \A v \in DOMAIN g.versions :
        v \in DOMAIN d.versions /\ g.versions[v].tables = d.versions[v].tables
  BY DEF Lets
<1> QED
  BY <1>2, <1>3, <1>4 DEF Lets

\* The state of versionSet with deletions disabled n times.
SetDisabled(d, n) == [d EXCEPT !.disabled = n]

LEMMA DisabledFacts ==
  ASSUME NEW d, NEW T, NEW Z, NEW js, NEW rd, DBInv(d, T, Z), NEW n \in Int
  PROVE  LET e == SetDisabled(d, n)
         IN  /\ DBInv(e, T, Z) /\ Lets(d, e, {}) /\ e.disabled = n
             /\ RefsInv(d, js) => RefsInv(e, js)
             /\ ReadersInv(d, rd) => ReadersInv(e, rd)
             /\ e.backings = d.backings /\ e.writing = d.writing
<1> DEFINE e == SetDisabled(d, n)
<1>1. d \in DBType
  BY DEF DBInv
<1>2. e \in DBType
  BY <1>1 DEF DBType, SetDisabled
<1>3. /\ e.versions = d.versions /\ e.current = d.current /\ e.backings = d.backings
      /\ e.held = d.held /\ e.zombies = d.zombies /\ e.late = d.late
      /\ e.obsolete = d.obsolete /\ e.panic = d.panic /\ e.readState = d.readState
      /\ e.obsoleteManifests = d.obsoleteManifests
      /\ e.nextFileNum = d.nextFileNum /\ e.manifestFileNum = d.manifestFileNum
      /\ e.writing = d.writing /\ e.disabled = n /\ e.readStates = d.readStates
      /\ d.nextFileNum \in Nat
  BY <1>1 DEF DBType, SetDisabled
<1> HIDE DEF e
<1>4. /\ DBInv(e, T, Z) /\ Lets(d, e, {})
      /\ RefsInv(d, js) => RefsInv(e, js)
      /\ ReadersInv(d, rd) => ReadersInv(e, rd)
  BY <1>2, <1>3, OtherFields
<1> QED
  BY <1>3, <1>4 DEF e

\* A step of the checkpoint, in the place of a job that is done.
LEMMA CkptStep ==
  ASSUME IInv, phase = "open", UNCHANGED <<disk, phase, io, reader, cleanup>>,
         jobs' = jobs \/ jobs' = Append(jobs, Done),
         DBInv(db', Target, io.zombies), RefsInv(db', jobs), ReadersInv(db', reader),
         Lets(db, db', {}), db'.backings = db.backings, db'.writing = db.writing,
         ckpt' \in CkptType, ckpt'.need \subseteq ckpt.need \cup Refd(db), CkptInv',
         db'.disabled = IF ckpt'.pc = "idle" THEN 0 ELSE 1
  PROVE  IInv'
<1>1. jobs \in Seq(JobType) /\ Done.version = 0
  BY IInvFacts DEF Done
<1>2. PICK j : JobStep(j, Done) /\ Was(j) = Done
  <2>1. CASE jobs' = jobs
    <3>1. 0 \notin DOMAIN jobs
      BY <1>1
    <3>2. JobStep(0, Done) /\ Was(0) = Done
      BY <1>1, <2>1, <3>1 DEF JobStep, Was
    <3> QED
      BY <3>2
  <2>2. CASE jobs' = Append(jobs, Done)
    BY <1>1, <2>2, DoneType, JobChanged
  <2> QED
    BY <2>1, <2>2
<1>3. RefsInv(db', jobs')
  <2>1. 0 \notin DOMAIN db'.versions
    BY VersionNumbers DEF DBInv
  <2> QED
    BY <1>1, <1>2, <2>1, SameVersions
<1>4. Target' = Target => BackingsInv'
  <2>1. ASSUME Target' = Target PROVE BackingsInv'
    BY <1>2, <2>1, BackingsFrame, OpenFacts
  <2> QED
    BY <2>1
<1> HIDE DEF Done
<1>5. /\ UNCHANGED <<io, phase, marker, manifests, hasLog, cleanup, files, synced, external>>
  BY DEF disk
<1>6. /\ files' \in SUBSET Nat /\ IsFiniteSet(files') /\ synced' \subseteq files'
      /\ external' \subseteq Nat /\ Refd(db) \subseteq synced'
  BY <1>5, BaseRefd DEF IInv, TypeOK, DiskType
<1>7. /\ \A n \in files' \ files : n > 0 /\ n < db'.nextFileNum
      /\ files \ files' \subseteq Own(Was(j)) \cup Taken
      /\ synced \ synced' \subseteq Own(Was(j)) \cup Taken
      /\ {} \subseteq Own(Was(j)) \cup Taken /\ {} \cap Own(Done) = {}
  BY <1>5
<1>8. /\ Done.pc # "apply" /\ Done.pc # "target" /\ Was(j).pc # "apply"
      /\ Done.kind \notin {"compact", "move", "deleteonly"}
      /\ Own(Done) = {} /\ InputsOf(Done) = {} /\ Done \in JobType /\ JobOK(Done)
      /\ InputsInv(Done, db', Target)
  BY <1>2, DoneType
<1>9. /\ Own(Done) \cap Backings(Done.edit.new) \subseteq IF Done.pc = "sync" THEN files' ELSE synced'
      /\ InputsOf(Done) \subseteq Taken
      /\ \A n \in Own(Done) : n \in Own(Was(j)) \/ (db.nextFileNum <= n /\ n < db'.nextFileNum)
  BY <1>8
<1>10. /\ ReadersInv(db', reader') /\ reader' \in ReaderType
       /\ db'.writing \/ ~db.writing \/ Was(j).pc = "target"
  <2>1. db.writing \in BOOLEAN
    BY IInvFacts
  <2> QED
    BY <2>1, IInvFacts
<1> QED
  BY <1>2, <1>3, <1>4, <1>5, <1>6, <1>7, <1>8, <1>9, <1>10, QuietStep

LEMMA BeginCheckpointInv == ASSUME IInv, BeginCheckpoint PROVE IInv'
<1> DEFINE n == db.disabled + 1
           e == SetDisabled(db, n)
           c == [NoCkpt EXCEPT !.pc = "wait", !.wait = Len(cleanup)]
<1>1. /\ phase = "open" /\ ckpt.pc = "idle" /\ ckpt' = c /\ jobs' = Append(jobs, Done)
      /\ db' = e /\ UNCHANGED <<disk, phase, io, reader, cleanup>>
  BY DEF BeginCheckpoint, MayBegin, SetDisabled
<1>2. n = 1
  BY <1>1 DEF IInv, PhaseInv
<1> HIDE DEF n
<1>3. /\ DBInv(e, Target, io.zombies) /\ Lets(db, e, {}) /\ e.disabled = n
      /\ RefsInv(e, jobs) /\ ReadersInv(e, reader)
      /\ e.backings = db.backings /\ e.writing = db.writing
  BY <1>2, IInvFacts, DisabledFacts
<1> HIDE DEF e
<1>4. Len(cleanup) \in Int
  BY DEF IInv, TypeOK
<1>5. c \in CkptType /\ c.pc = "wait" /\ c.need = {}
  BY <1>4 DEF NoCkpt, CkptType
<1> HIDE DEF c
<1>6. CkptInv'
  BY <1>1, <1>5 DEF CkptInv
<1> QED
  BY <1>1, <1>2, <1>3, <1>5, <1>6, CkptStep

\* The manifest that is open ends with what is in memory, between two edits.
LEMMA OpenManifest ==
  ASSUME IInv, Up, Idle
  PROVE  LET m == db.manifestFileNum
         IN  /\ m \in DOMAIN manifests /\ Records(m) \in Nat /\ m \in Nat
             /\ Image(m, Records(m)).tables = Current(db)
             /\ m \notin LateManifests(db) \cup CleanupManifests
<1> DEFINE m == db.manifestFileNum
<1>1. AtRest(Pair(Current(db), DOMAIN db.backings))
  BY DEF IInv, StageInv
<1>2. Image(m, Records(m)).tables = Current(db)
  BY <1>1, PairEqual DEF AtRest
<1>3. m \in DOMAIN manifests
  BY DEF IInv, MarkerInv
<1>4. \A n \in LateManifests(db) \cup CleanupManifests : n < m
  BY DEF IInv, MarkerInv
<1> QED
  BY <1>2, <1>3, <1>4, ManifestFacts

LEMMA LockCheckpointInv == ASSUME IInv, LockCheckpoint PROVE IInv'
<1> DEFINE m == db.manifestFileNum
           B == Backings(Current(db)) \cup DOMAIN db.backings
           s == Records(m)
           c == [ckpt EXCEPT !.pc = "copy", !.need = B, !.manifest = m, !.size = s]
<1>1. /\ ckpt.pc = "wait" /\ ~db.writing /\ ckpt' = c
      /\ UNCHANGED <<disk, phase, db, io, jobs, reader, cleanup>>
  BY DEF LockCheckpoint, Records
<1>2. phase = "open" /\ Up /\ Idle
  BY <1>1, OpenFacts DEF IInv, IoInv
<1>3. /\ m \in DOMAIN manifests /\ s \in Nat /\ m \in Nat
      /\ Image(m, s).tables = Current(db)
      /\ m \notin LateManifests(db) \cup CleanupManifests
  BY <1>2, OpenManifest
<1>4. B \subseteq Refd(db) /\ Refd(db) \subseteq Nat
  BY IInvFacts, BaseRefd, DBTypeFacts DEF Base
<1>5. Refd(db) \subseteq files
  BY BaseRefd
<1>6. Refd(db) \cap (LateTables(db) \cup CleanupTables) = {}
  BY DEF IInv, DBInv, DoomedIn, FilesInv
<1>7. Backings(Image(m, s).tables) \subseteq B
  BY <1>3
<1>8. s = Records(m)
  OBVIOUS
<1>9. db' = db
  BY <1>1
<1> HIDE DEF B, m, s
<1>10. c \in CkptType /\ c.pc = "copy" /\ c.need = B /\ c.manifest = m /\ c.size = s
  <2>1. ckpt \in CkptType
    BY IInvFacts
  <2> QED
    BY <1>3, <1>4, <2>1 DEF CkptType
<1> HIDE DEF c
<1>11. CkptInv'
  <2>3. CleanupTables' = CleanupTables /\ CleanupManifests' = CleanupManifests
        /\ LateTables(db') = LateTables(db) /\ LateManifests(db') = LateManifests(db)
        /\ manifests' = manifests /\ files' = files
    BY <1>1 DEF CleanupTables, CleanupManifests, disk
  <2>4. ckpt'.need \subseteq files' /\ ckpt'.need \cap (LateTables(db') \cup CleanupTables') = {}
    BY <1>1, <1>4, <1>5, <1>6, <1>10, <2>3
  <2>5. /\ ckpt'.manifest \in DOMAIN manifests'
        /\ ckpt'.manifest \notin LateManifests(db') \cup CleanupManifests'
        /\ ckpt'.size <= Len(manifests'[ckpt'.manifest].recs)
    BY <1>1, <1>3, <1>8, <1>10, <2>3 DEF Records
  <2>6. Backings(ReadBack(manifests'[ckpt'.manifest].recs, ckpt'.size).tables) \subseteq ckpt'.need
    BY <1>1, <1>7, <1>10, <2>3, ImageRead
  <2>7. CkptInv' <=>
          /\ ckpt'.pc # "copy" => ckpt'.need = {}
          /\ ckpt'.pc = "copy" =>
               /\ ckpt'.need \subseteq files'
               /\ ckpt'.need \cap (LateTables(db') \cup CleanupTables') = {}
               /\ ckpt'.manifest \in DOMAIN manifests'
               /\ ckpt'.manifest \notin LateManifests(db') \cup CleanupManifests'
               /\ ckpt'.size <= Len(manifests'[ckpt'.manifest].recs)
               /\ Backings(ReadBack(manifests'[ckpt'.manifest].recs, ckpt'.size).tables)
                    \subseteq ckpt'.need
    BY DEF CkptInv, Records, Image, ReadBack, Pair
  <2> QED
    BY <1>1, <1>10, <2>4, <2>5, <2>6, <2>7
<1>12. db'.disabled = IF ckpt'.pc = "idle" THEN 0 ELSE 1
  BY <1>1, <1>10 DEF IInv, PhaseInv
<1>13. /\ DBInv(db', Target, io.zombies) /\ RefsInv(db', jobs) /\ ReadersInv(db', reader)
       /\ Lets(db, db', {}) /\ db'.backings = db.backings /\ db'.writing = db.writing
  BY <1>9, IInvFacts, SameDB
<1> QED
  BY <1>1, <1>2, <1>4, <1>10, <1>11, <1>12, <1>13, CkptStep

LEMMA EndCheckpointInv == ASSUME IInv, EndCheckpoint PROVE IInv'
<1> DEFINE n == db.disabled - 1
           d == SetDisabled(db, n)
           e == DeleteObsoleteFiles(d)
           T == Target
           Z == io.zombies
<1>1. /\ ckpt.pc = "copy" /\ ckpt' = NoCkpt /\ db' = e
      /\ UNCHANGED <<disk, phase, io, jobs, reader, cleanup>>
  BY DEF EndCheckpoint, SetDisabled
<1>2. n = 0 /\ phase = "open"
  BY <1>1, OpenFacts DEF IInv, PhaseInv
<1> HIDE DEF n, T, Z
<1>3. /\ DBInv(d, T, Z) /\ Lets(db, d, {}) /\ d.disabled = n
      /\ RefsInv(d, jobs) /\ ReadersInv(d, reader)
      /\ d.backings = db.backings /\ d.writing = db.writing
  BY <1>2, IInvFacts, DisabledFacts DEF T, Z
<1> HIDE DEF d
<1>4. d.disabled \in Nat
  BY <1>2, <1>3
<1>5. /\ DBInv(e, T, Z) /\ Releases(d, e, {})
      /\ RefsInv(e, jobs) /\ ReadersInv(e, reader)
  BY <1>3, <1>4, DeleteObsoleteFacts
<1> HIDE DEF e
<1>6. Lets(db, e, {})
  <2>1. Lets(db, e, {} \cup {})
    BY <1>3, <1>5, IInvFacts, LetsChain DEF DBInv, Releases
  <2> QED
    BY <2>1
<1>7. ckpt' \in CkptType /\ ckpt'.pc = "idle" /\ ckpt'.need = {}
  BY <1>1 DEF NoCkpt, CkptType
<1>8. CkptInv'
  BY <1>7 DEF CkptInv
<1>9. /\ DBInv(db', Target, io.zombies) /\ RefsInv(db', jobs) /\ ReadersInv(db', reader)
      /\ Lets(db, db', {}) /\ db'.backings = db.backings /\ db'.writing = db.writing
      /\ db'.disabled = 0
  BY <1>1, <1>2, <1>3, <1>5, <1>6 DEF T, Z, Releases
<1>10. jobs' = jobs
  BY <1>1
<1> QED
  BY <1>1, <1>2, <1>7, <1>8, <1>9, <1>10, CkptStep

(***************************************************************************)
(* The cleanup manager.                                                    *)
(***************************************************************************)
\* What a step that changes neither a job nor the edit under way keeps.
LEMMA SilentStep ==
  ASSUME IInv, Up, UNCHANGED <<io, phase, jobs, reader>>, NEW X,
         DBInv(db', Target, io.zombies), RefsInv(db', jobs), Lets(db, db', X),
         db'.backings = db.backings, db'.writing = db.writing
  PROVE  /\ IoInv' /\ BackingsInv' /\ JobsInv' /\ LockInv' /\ RefsInv(db', jobs')
         /\ Target' = Target /\ Idle' = Idle /\ DBInv(db', Target', io'.zombies)
         /\ Current(db') = Current(db)
         /\ JobStep(0, Done) /\ Was(0) = Done
<1>1. db' \in DBType /\ db'.current \in DOMAIN db'.versions
  BY DEF DBInv
<1>2. jobs \in Seq(JobType) /\ jobs' = jobs /\ 0 \notin DOMAIN jobs
  <2>1. jobs \in Seq(JobType)
    BY IInvFacts
  <2> QED
    BY <2>1
<1>3. JobStep(0, Done) /\ Was(0) = Done
  BY <1>2 DEF JobStep, Was
<1>4. RefsInv(db', jobs')
  BY <1>2
<1> HIDE DEF Done
<1>5. /\ Done.pc # "apply" /\ Done.pc # "target"
      /\ Done.kind \notin {"compact", "move", "deleteonly"}
      /\ JobOK(Done) /\ InputsInv(Done, db', Target)
  BY DoneType
<1>6. db.writing \in BOOLEAN
  BY IInvFacts
<1>7. LockInv' /\ (~Idle => db'.writing)
      /\ (~Idle /\ phase = "open" => io.job \in DOMAIN jobs' /\ jobs'[io.job].pc = "apply")
  <2>1. /\ \A j \in DOMAIN jobs : jobs[j].pc = "apply" => ~Idle /\ io.job = j
        /\ \A j \in DOMAIN jobs : jobs[j].pc = "target" => db.writing /\ Idle
        /\ \A i, j \in DOMAIN jobs : jobs[i].pc = "target" /\ jobs[j].pc = "target" => i = j
    BY DEF IInv, LockInv
  <2>2. LockInv'
    BY <1>2, <2>1 DEF LockInv, Idle
  <2> QED
    BY <1>2, <2>2 DEF IInv, IoInv
<1>8. IoInv' /\ Target' = Target /\ Current(db') = Current(db) /\ Idle' = Idle
  BY <1>1, <1>7, IoFrame
<1>9. BackingsInv'
  BY <1>3, <1>8, BackingsFrame
<1>10. JobsInv'
  BY <1>1, <1>3, <1>4, <1>5, <1>8, JobsFrame
<1>11. DBInv(db', Target', io'.zombies)
  BY <1>8
<1> QED
  BY <1>3, <1>4, <1>7, <1>8, <1>9, <1>10, <1>11

\* The state of versionSet without some of the lists to hand over.
SetLate(d, L) == [d EXCEPT !.late = L]

LEMMA LateFacts ==
  ASSUME NEW d, NEW T, NEW Z, NEW js, NEW rd, DBInv(d, T, Z), NEW L \in SUBSET d.late
  PROVE  LET e == SetLate(d, L)
         IN  /\ DBInv(e, T, Z) /\ Lets(d, e, {}) /\ e.late = L
             /\ RefsInv(d, js) => RefsInv(e, js)
             /\ ReadersInv(d, rd) => ReadersInv(e, rd)
             /\ e.backings = d.backings /\ e.disabled = d.disabled
             /\ e.writing = d.writing /\ e.manifest = d.manifest
             /\ e.obsolete = d.obsolete /\ e.obsoleteManifests = d.obsoleteManifests
             /\ e.manifestFileNum = d.manifestFileNum /\ Refd(e) = Refd(d)
             /\ e.current = d.current /\ e.versions = d.versions
             /\ e.readState = d.readState /\ e.nextFileNum = d.nextFileNum
<1> DEFINE e == SetLate(d, L)
<1>1. d \in DBType
  BY DEF DBInv
<1>2. e \in DBType
  BY <1>1 DEF DBType, SetLate
<1>3. /\ e.versions = d.versions /\ e.current = d.current /\ e.backings = d.backings
      /\ e.held = d.held /\ e.zombies = d.zombies /\ e.late = L
      /\ e.obsolete = d.obsolete /\ e.panic = d.panic /\ e.readState = d.readState
      /\ e.obsoleteManifests = d.obsoleteManifests /\ e.manifest = d.manifest
      /\ e.nextFileNum = d.nextFileNum /\ e.manifestFileNum = d.manifestFileNum
      /\ e.writing = d.writing /\ e.disabled = d.disabled /\ e.readStates = d.readStates
      /\ d.nextFileNum \in Nat
  BY <1>1 DEF DBType, SetLate
<1> HIDE DEF e
<1>4. /\ Refd(e) = Refd(d) /\ Base(e) = Base(d) /\ Current(e) = Current(d)
      /\ LateTables(e) \subseteq LateTables(d) /\ LateManifests(e) \subseteq LateManifests(d)
  BY <1>3 DEF Refd, Base, Current, LateTables, LateManifests
<1>5. DBInv(e, T, Z)
  BY <1>2, <1>3, <1>4 DEF DBInv, DoomedIn
<1>6. Lets(d, e, {})
  BY <1>3, <1>4 DEF Lets, DoomedIn
<1>7. /\ RefsInv(d, js) => RefsInv(e, js)
      /\ ReadersInv(d, rd) => ReadersInv(e, rd)
  BY <1>3 DEF RefsInv, ReadersInv, ReadersOf
<1> QED
  BY <1>3, <1>4, <1>5, <1>6, <1>7 DEF e

\* There are lists to hand over, or being worked off, only when Open is past
\* the flush of what it replayed.
LEMMA CleanupPhase ==
  ASSUME IInv, db.late # {} \/ cleanup # << >>
  PROVE  Up /\ Settled /\ phase # "loaded"
<1>1. NewDB({}, {}, 0, 0).late = {}
  BY DEF NewDB
<1> QED
  BY <1>1 DEF IInv, PhaseInv, Up, Settled

LEMMA EnqueueJobInv == ASSUME IInv, EnqueueJob PROVE IInv'
<1>1. PICK q \in db.late : /\ cleanup' = Append(cleanup, q)
                           /\ db' = SetLate(db, db.late \ {q})
  BY DEF EnqueueJob, SetLate
<1>2. UNCHANGED <<disk, phase, io, jobs, ckpt, reader>>
  BY DEF EnqueueJob
<1>2a. UNCHANGED <<files, synced, external, marker, manifests, hasLog>>
  BY <1>2 DEF disk
<1>3. Up /\ Settled /\ phase # "loaded" /\ phase # "down"
  BY CleanupPhase DEF Up
<1> DEFINE L == db.late \ {q}
           e == SetLate(db, L)
           T == Target
           Z == io.zombies
<1>4. L \in SUBSET db.late /\ db' = e
  BY <1>1
<1> HIDE DEF L, T, Z
<1>5. /\ DBInv(e, T, Z) /\ Lets(db, e, {}) /\ e.late = L
      /\ RefsInv(e, jobs) /\ ReadersInv(e, reader)
      /\ e.backings = db.backings /\ e.disabled = db.disabled
      /\ e.writing = db.writing /\ e.manifest = db.manifest
      /\ e.obsolete = db.obsolete /\ e.obsoleteManifests = db.obsoleteManifests
      /\ e.manifestFileNum = db.manifestFileNum /\ Refd(e) = Refd(db)
      /\ e.current = db.current /\ e.versions = db.versions
      /\ e.readState = db.readState /\ e.nextFileNum = db.nextFileNum
  BY <1>4, LateFacts, IInvFacts DEF T, Z
<1> HIDE DEF e
<1>6. /\ IoInv' /\ BackingsInv' /\ JobsInv' /\ LockInv' /\ RefsInv(db', jobs')
      /\ Target' = Target /\ Idle' = Idle /\ DBInv(db', Target', io'.zombies)
      /\ Current(db') = Current(db) /\ JobStep(0, Done) /\ Was(0) = Done
  BY <1>2, <1>3, <1>4, <1>5, SilentStep DEF T, Z
<1>7. /\ cleanup \in Seq(CleanupJob) /\ q \in CleanupJob
      /\ q.tables \cup q.manifests # {}
  BY IInvFacts DEF IInv, TypeOK, DBInv, DBType
<1>8. cleanup' \in Seq(CleanupJob) /\ Range(cleanup') = Range(cleanup) \cup {q}
  <2>1. /\ DOMAIN cleanup' = 1 .. Len(cleanup) + 1
        /\ \A i \in 1 .. Len(cleanup) : cleanup'[i] = cleanup[i]
        /\ cleanup'[Len(cleanup) + 1] = q
    BY <1>1, <1>7
  <2>2. Len(cleanup) \in Nat /\ DOMAIN cleanup = 1 .. Len(cleanup)
    BY <1>7
  <2>3. ASSUME NEW x PROVE x \in Range(cleanup') <=> x \in Range(cleanup) \cup {q}
    BY <2>1, <2>2 DEF Range
  <2> QED
    BY <1>1, <1>7, <2>3
<1>9. /\ CleanupTables' = CleanupTables \cup q.tables
      /\ CleanupManifests' = CleanupManifests \cup q.manifests
  BY <1>8 DEF CleanupTables, CleanupManifests
<1>10. /\ q.tables \subseteq LateTables(db) /\ q.manifests \subseteq LateManifests(db)
       /\ LateTables(e) \subseteq LateTables(db) /\ LateManifests(e) \subseteq LateManifests(db)
  BY <1>5 DEF LateTables, LateManifests, L
<1>11. CleanupTables' \subseteq Doomed /\ Doomed' \subseteq Doomed
  BY <1>4, <1>5, <1>9, <1>10 DEF Doomed, DoomedIn
<1>12. FilesInv'
  <2>1. Refd(db') \subseteq synced' /\ Refd(db') \cap CleanupTables' = {}
    BY <1>2a, <1>4, <1>5, <1>9, <1>10 DEF IInv, FilesInv, DBInv, DoomedIn
  <2>2. /\ \A f \in files' \cup DOMAIN manifests' : f > 0
        /\ \A f \in files' \cup Doomed' \cup DOMAIN manifests' : f < db'.nextFileNum
        /\ \A n \in Numbers(Target') : n < db'.nextFileNum
    BY <1>2a, <1>3, <1>4, <1>5, <1>6, <1>11 DEF IInv, FilesInv
  <2>3. \A p \in Range(cleanup') : p.tables \cup p.manifests # {}
    BY <1>7, <1>8 DEF IInv, FilesInv
  <2> QED
    BY <2>1, <2>2, <2>3 DEF FilesInv
<1>13. OwnInv'
  <2>1. /\ db' \in DBType /\ db'.current \in DOMAIN db'.versions
    BY <1>6 DEF DBInv
  <2> HIDE DEF Done
  <2>2. /\ Done \in JobType /\ Own(Done) = {} /\ InputsOf(Done) \subseteq Taken
    BY DoneType
  <2>3. /\ files \ files' \subseteq Own(Was(0)) \cup Taken
        /\ synced \ synced' \subseteq Own(Was(0)) \cup Taken
        /\ ckpt'.need \subseteq ckpt.need \cup Refd(db)
        /\ {} \subseteq Own(Was(0)) \cup Taken /\ {} \cap Own(Done) = {}
        /\ \A n \in Own(Done) : n \in Own(Was(0)) \/ (db.nextFileNum <= n /\ n < db'.nextFileNum)
        /\ Own(Done) \cap Backings(Done.edit.new) \subseteq IF Done.pc = "sync" THEN files' ELSE synced'
    BY <1>2, <1>2a, <2>2
  <2> QED
    BY <1>3, <1>4, <1>5, <1>6, <1>11, <2>1, <2>2, <2>3, OwnFrame
<1>14. MarkerInv'
  <2>1. db' \in DBType
    BY <1>6 DEF DBInv
  <2>2. db'.obsoleteManifests \cup LateManifests(db') \cup CleanupManifests' \subseteq
          db.obsoleteManifests \cup LateManifests(db) \cup CleanupManifests
    BY <1>4, <1>5, <1>9, <1>10
  <2> QED
    BY <1>2, <1>2a, <1>3, <1>4, <1>5, <2>1, <2>2, MarkerFrame
<1>15. StageInv'
  BY <1>2, <1>2a, <1>4, <1>5, <1>6, StageFrame
<1>16. PhaseInv'
  <2>1. PhaseInv
    BY DEF IInv
  <2> QED
    BY <1>2, <1>2a, <1>3, <1>4, <1>5, <2>1 DEF PhaseInv
<1>17. CkptInv'
  <2>1. LateTables(db') \cup CleanupTables' \subseteq LateTables(db) \cup CleanupTables
        /\ LateManifests(db') \cup CleanupManifests' \subseteq LateManifests(db) \cup CleanupManifests
    BY <1>4, <1>9, <1>10
  <2>2. \A n, k : Image(n, k)' = Image(n, k)
    BY <1>2a, ImageRead
  <2>3. \A n : Records(n)' = Records(n)
    BY <1>2a DEF Records
  <2> QED
    BY <1>2, <1>2a, <2>1, <2>2, <2>3 DEF IInv, CkptInv
<1>18. TypeOK'
  <2>1. db' \in DBType
    BY <1>6 DEF DBInv
  <2> QED
    BY <1>2, <1>2a, <1>8, <2>1 DEF IInv, TypeOK, DiskType
<1>19. ReadersInv(db', reader')
  BY <1>2, <1>4, <1>5
<1> QED
  BY <1>6, <1>12, <1>13, <1>14, <1>15, <1>16, <1>17, <1>18, <1>19 DEF IInv

\* The manifests that are deleted are older than those in use.
LEMMA ManifestsInUse ==
  ASSUME IInv, Up, Settled
  PROVE  /\ \A n \in Range(marker) : n \in Nat /\ n >= db.manifestFileNum
         /\ ~Idle => io.prev = db.manifestFileNum
         /\ ~Idle /\ io.rotate # 0 => io.rotate > db.manifestFileNum
         /\ db.manifestFileNum \in Nat
<1>1. db.manifestFileNum \in Nat /\ io.rotate \in Nat /\ io.prev \in Nat
  BY IInvFacts, DBTypeFacts DEF IOType
<1>2. ~Idle => EditInv
  BY DEF IInv, IoInv
<1>3. /\ ~Idle => io.prev = db.manifestFileNum
      /\ ~Idle /\ io.rotate # 0 => io.rotate > db.manifestFileNum
  BY <1>1, <1>2 DEF EditInv
<1>4. \/ marker = <<db.manifestFileNum>>
      \/ ~Idle /\ marker = <<Writing>>
      \/ ~Idle /\ io.rotate # 0 /\ marker = <<io.prev, io.rotate>>
  <2>1. CASE Idle
    BY <2>1 DEF IInv, StageInv, AtRest
  <2>2. CASE ~Idle
    <3>1. io.stage \in {"write", "sync", "move", "syncdir", "install"}
      BY <2>2, IInvFacts DEF IOType, Idle
    <3>2. StageInv
      BY DEF IInv
    <3>3. CASE io.stage \in {"write", "move"}
      BY <3>2, <3>3 DEF StageInv, AtRest
    <3>4. CASE io.stage = "sync"
      BY <1>3, <2>2, <3>2, <3>4 DEF StageInv, AtRest
    <3>5. CASE io.stage = "syncdir"
      BY <2>2, <3>2, <3>5 DEF StageInv
    <3>6. CASE io.stage = "install"
      BY <2>2, <3>2, <3>6 DEF StageInv
    <3> QED
      BY <3>1, <3>3, <3>4, <3>5, <3>6
  <2> QED
    BY <2>1, <2>2
<1>5. \A n \in Range(marker) : n \in Nat /\ n >= db.manifestFileNum
  <2>1. CASE marker = <<db.manifestFileNum>>
    BY <1>1, <2>1, MarkerOne
  <2>2. CASE ~Idle /\ marker = <<Writing>>
    <3>1. Range(marker) = {Writing}
      BY <2>2, MarkerOne
    <3> QED
      BY <1>1, <1>3, <2>2, <3>1 DEF Writing
  <2>3. CASE ~Idle /\ io.rotate # 0 /\ marker = <<io.prev, io.rotate>>
    <3>1. Range(marker) = {io.prev, io.rotate}
      BY <2>3, MarkerOne
    <3> QED
      BY <1>1, <1>3, <2>3, <3>1
  <2> QED
    BY <1>4, <2>1, <2>2, <2>3
<1> QED
  BY <1>1, <1>3, <1>5

\* One file less of the list that is being worked off.
LEMMA CleanupParts ==
  ASSUME IInv, cleanup # << >>
  PROVE  LET job  == Head(cleanup)
             T    == IF job.tables = {} THEN {} ELSE {Min(job.tables)}
             M    == IF T # {} THEN {} ELSE {Min(job.manifests)}
             left == [tables |-> job.tables \ T, manifests |-> job.manifests \ M]
             last == left.tables \cup left.manifests = {}
             c    == (IF last THEN << >> ELSE <<left>>) \o Tail(cleanup)
         IN  /\ T \subseteq job.tables /\ M \subseteq job.manifests
             /\ job \in Range(cleanup) /\ c \in Seq(CleanupJob)
             /\ \A q \in Range(c) :
                  /\ q.tables \cup q.manifests # {}
                  /\ \E p \in Range(cleanup) : q.tables \subseteq p.tables /\ q.manifests \subseteq p.manifests
<1> DEFINE job  == Head(cleanup)
           T    == IF job.tables = {} THEN {} ELSE {Min(job.tables)}
           M    == IF T # {} THEN {} ELSE {Min(job.manifests)}
           left == [tables |-> job.tables \ T, manifests |-> job.manifests \ M]
           last == left.tables \cup left.manifests = {}
           first == IF last THEN << >> ELSE <<left>>
           rest == Tail(cleanup)
           c    == first \o rest
<1>1. cleanup \in Seq(CleanupJob)
  BY DEF IInv, TypeOK
<1>2. /\ job \in CleanupJob /\ job \in Range(cleanup)
      /\ rest \in Seq(CleanupJob)
      /\ \A i \in 1 .. Len(rest) : rest[i] \in Range(cleanup)
  BY <1>1 DEF Range
<1>3. job.tables \cup job.manifests # {} /\ job.tables \subseteq Nat /\ job.manifests \subseteq Nat
  <2>1. \A q \in Range(cleanup) : q.tables \cup q.manifests # {}
    BY DEF IInv, FilesInv
  <2> QED
    BY <1>2, <2>1 DEF CleanupJob
<1>4. T \subseteq job.tables
  BY <1>3, MinFacts
<1>5. M \subseteq job.manifests
  <2>1. M # {} => job.manifests # {}
    BY <1>3
  <2> QED
    BY <1>3, <2>1, MinFacts
<1> HIDE DEF T, M, job, rest
<1>6. left \in CleanupJob /\ left.tables \subseteq job.tables /\ left.manifests \subseteq job.manifests
  BY <1>3 DEF CleanupJob
<1> HIDE DEF left
<1>7. /\ first \in Seq(CleanupJob)
      /\ \A i \in 1 .. Len(first) : first[i] = left /\ left.tables \cup left.manifests # {}
  BY <1>6
<1> HIDE DEF first
<1>8. /\ c \in Seq(CleanupJob) /\ DOMAIN c = 1 .. Len(first) + Len(rest)
      /\ \A i \in 1 .. Len(first) : c[i] = first[i]
      /\ \A i \in Len(first) + 1 .. Len(first) + Len(rest) : c[i] = rest[i - Len(first)]
  BY <1>2, <1>7
<1>9. ASSUME NEW q \in Range(c)
      PROVE  /\ q.tables \cup q.manifests # {}
             /\ \E p \in Range(cleanup) : q.tables \subseteq p.tables /\ q.manifests \subseteq p.manifests
  <2>1. PICK i \in 1 .. Len(first) + Len(rest) : q = c[i]
    BY <1>8 DEF Range
  <2>2. Len(first) \in Nat /\ Len(rest) \in Nat
    BY <1>2, <1>7
  <2>3. CASE i <= Len(first)
    BY <1>2, <1>6, <1>7, <1>8, <2>1, <2>2, <2>3
  <2>4. CASE i > Len(first)
    <3>1. q = rest[i - Len(first)] /\ i - Len(first) \in 1 .. Len(rest)
      BY <1>8, <2>1, <2>2, <2>4
    <3>2. q \in Range(cleanup)
      BY <1>2, <3>1
    <3> QED
      BY <3>2 DEF IInv, FilesInv
  <2> QED
    BY <2>1, <2>2, <2>3, <2>4
<1> QED
  BY <1>2, <1>4, <1>5, <1>8, <1>9 DEF T, M, job, rest, left, first

LEMMA CleanupFileInv == ASSUME IInv, CleanupFile PROVE IInv'
<1> DEFINE job  == Head(cleanup)
           T    == IF job.tables = {} THEN {} ELSE {Min(job.tables)}
           M    == IF T # {} THEN {} ELSE {Min(job.manifests)}
           left == [tables |-> job.tables \ T, manifests |-> job.manifests \ M]
           last == left.tables \cup left.manifests = {}
           c    == (IF last THEN << >> ELSE <<left>>) \o Tail(cleanup)
           k    == IF last /\ ckpt.wait > 0 THEN [ckpt EXCEPT !.wait = @ - 1] ELSE ckpt
<1>1. /\ cleanup # << >> /\ files' = files \ T /\ synced' = synced \ T
      /\ external' = external \ T /\ manifests' = Without(manifests, M)
      /\ cleanup' = c /\ ckpt' = k
      /\ UNCHANGED <<marker, hasLog, phase, db, io, jobs, reader>>
  BY DEF CleanupFile
<1>2. /\ T \subseteq job.tables /\ M \subseteq job.manifests
      /\ job \in Range(cleanup) /\ c \in Seq(CleanupJob)
      /\ \A q \in Range(c) :
           /\ q.tables \cup q.manifests # {}
           /\ \E p \in Range(cleanup) : q.tables \subseteq p.tables /\ q.manifests \subseteq p.manifests
  BY <1>1, CleanupParts, Zenon
<1>3. Up /\ Settled /\ phase # "loaded" /\ phase # "down"
  BY <1>1, CleanupPhase DEF Up
<1>4. /\ ckpt \in CkptType /\ k \in CkptType /\ k.pc = ckpt.pc /\ k.need = ckpt.need
      /\ k.manifest = ckpt.manifest /\ k.size = ckpt.size
      /\ ckpt = NoCkpt => k = NoCkpt
  <2>1. ckpt \in CkptType
    BY IInvFacts
  <2>2. CASE k = ckpt
    BY <2>1, <2>2
  <2>3. CASE ckpt.wait > 0 /\ k = [ckpt EXCEPT !.wait = @ - 1]
    <3>1. ckpt # NoCkpt
      BY <2>3 DEF NoCkpt
    <3> QED
      BY <2>1, <2>3, <3>1 DEF CkptType
  <2> QED
    BY <2>2, <2>3
<1> HIDE DEF c, k, left, last, T, M, job
<1>5. T \subseteq CleanupTables /\ M \subseteq CleanupManifests
  BY <1>2 DEF CleanupTables, CleanupManifests
<1>6. CleanupTables' \subseteq CleanupTables /\ CleanupManifests' \subseteq CleanupManifests
  BY <1>1, <1>2 DEF CleanupTables, CleanupManifests
<1>7. Refd(db) \cap T = {} /\ Refd(db) \subseteq synced'
  BY <1>1, <1>5 DEF IInv, FilesInv
<1>8. /\ \A n \in M : n < db.manifestFileNum
      /\ db.manifestFileNum \in DOMAIN manifests
  BY <1>3, <1>5 DEF IInv, MarkerInv
<1>9. /\ \A n \in Range(marker) : n \in Nat /\ n >= db.manifestFileNum
      /\ ~Idle => io.prev = db.manifestFileNum
      /\ ~Idle /\ io.rotate # 0 => io.rotate > db.manifestFileNum
      /\ db.manifestFileNum \in Nat
  BY <1>3, ManifestsInUse
<1>10. /\ db.manifestFileNum \notin M /\ \A n \in Range(marker) : n \notin M
       /\ ~Idle => io.prev \notin M
       /\ ~Idle /\ io.rotate # 0 => io.rotate \notin M /\ io.rotate # db.manifestFileNum
       /\ ckpt.pc = "copy" => ckpt.manifest \notin M
  <2>1. \A n \in M : n \in Nat
    <3>1. cleanup \in Seq(CleanupJob)
      BY DEF IInv, TypeOK
    <3>2. job \in CleanupJob
      BY <1>2, <3>1 DEF Range
    <3> QED
      BY <1>2, <3>2 DEF CleanupJob
  <2>2. io.rotate \in Nat
    BY IInvFacts DEF IOType
  <2>3. ckpt.pc = "copy" => ckpt.manifest \notin CleanupManifests
    BY DEF IInv, CkptInv
  <2> QED
    BY <1>5, <1>8, <1>9, <2>1, <2>2, <2>3
<1>11. /\ DOMAIN manifests' = DOMAIN manifests \ M
       /\ \A n \in DOMAIN manifests' : manifests'[n] = manifests[n]
  BY <1>1 DEF Without
<1>12. \A n \in DOMAIN manifests \ M :
         /\ \A i : Image(n, i)' = Image(n, i)
         /\ Records(n)' = Records(n) /\ Full(n)' = Full(n) /\ Lengths(n)' = Lengths(n)
  <2> TAKE n \in DOMAIN manifests \ M
  <2>1. manifests'[n] = manifests[n]
    BY <1>11
  <2>2. \A i : Image(n, i)' = Image(n, i)
    BY <2>1, ImageRead
  <2>3. Records(n)' = Records(n)
    BY <2>1 DEF Records
  <2> QED
    BY <2>1, <2>2, <2>3 DEF Full, Lengths
<1>13. /\ DBInv(db, Target, io.zombies) /\ RefsInv(db, jobs) /\ Lets(db, db, {})
       /\ db' = db /\ UNCHANGED <<io, phase, jobs, reader>>
  BY <1>1, IInvFacts, SameDB
<1>14. /\ IoInv' /\ BackingsInv' /\ JobsInv' /\ LockInv' /\ RefsInv(db', jobs')
       /\ Target' = Target /\ Idle' = Idle /\ DBInv(db', Target', io'.zombies)
       /\ Current(db') = Current(db) /\ JobStep(0, Done) /\ Was(0) = Done
  BY <1>3, <1>13, SilentStep
<1>15. Doomed' \subseteq Doomed /\ CleanupTables' \subseteq Doomed
  BY <1>6, <1>13 DEF Doomed
<1>16. FilesInv'
  <2>1. Refd(db') \subseteq synced' /\ Refd(db') \cap CleanupTables' = {}
    BY <1>6, <1>7, <1>13 DEF IInv, FilesInv
  <2>2. /\ \A f \in files' \cup DOMAIN manifests' : f > 0
        /\ \A f \in files' \cup Doomed' \cup DOMAIN manifests' : f < db'.nextFileNum
        /\ \A n \in Numbers(Target') : n < db'.nextFileNum
    BY <1>1, <1>3, <1>11, <1>13, <1>14, <1>15 DEF IInv, FilesInv
  <2>3. \A q \in Range(cleanup') : q.tables \cup q.manifests # {}
    BY <1>1, <1>2
  <2> QED
    BY <2>1, <2>2, <2>3 DEF FilesInv
<1>17. OwnInv'
  <2>1. /\ db' \in DBType /\ db'.current \in DOMAIN db'.versions
    BY <1>14 DEF DBInv
  <2> HIDE DEF Done
  <2>2. /\ Done \in JobType /\ Own(Done) = {} /\ InputsOf(Done) \subseteq Taken
    BY DoneType
  <2>3. /\ files \ files' \subseteq Own(Was(0)) \cup Taken
        /\ synced \ synced' \subseteq Own(Was(0)) \cup Taken
    BY <1>1, <1>5 DEF Taken, Doomed
  <2>4. /\ ckpt'.need \subseteq ckpt.need \cup Refd(db)
        /\ {} \subseteq Own(Was(0)) \cup Taken /\ {} \cap Own(Done) = {}
        /\ \A n \in Own(Done) : n \in Own(Was(0)) \/ (db.nextFileNum <= n /\ n < db'.nextFileNum)
        /\ Own(Done) \cap Backings(Done.edit.new) \subseteq IF Done.pc = "sync" THEN files' ELSE synced'
        /\ Lets(db, db', {})
    BY <1>1, <1>4, <1>13, <2>2
  <2> QED
    BY <1>3, <1>14, <1>15, <2>1, <2>2, <2>3, <2>4, OwnFrame
<1>18. MarkerInv'
  <2>1. MarkerInv
    BY DEF IInv
  <2>2. ASSUME NEW n \in Range(marker)
        PROVE  /\ n \in DOMAIN manifests' /\ manifests'[n].synced >= 1
               /\ \A i \in Lengths(n)' : ImageOK(n, i)'
    <3>1. n \in DOMAIN manifests \ M /\ manifests[n].synced >= 1
      BY <1>10, <2>1 DEF MarkerInv
    <3>2. ASSUME NEW i \in Lengths(n) PROVE ImageOK(n, i)'
      <4>1. /\ Sound(Image(n, i).tables, Image(n, i).backings)
            /\ \A m \in Numbers(Image(n, i).tables) : m < manifests[n].recs[i].next
        BY <2>1, <3>2 DEF MarkerInv, ImageOK
      <4>2. Backings(Image(n, i).tables) \cup Image(n, i).backings \subseteq synced'
        BY <1>3, <1>7, <3>2, ImagesReferenced
      <4>3. manifests'[n] = manifests[n] /\ Image(n, i)' = Image(n, i)
        BY <1>11, <1>12, <3>1
      <4>4. ImageOK(n, i)' <=>
              /\ Sound(Image(n, i)'.tables, Image(n, i)'.backings)
              /\ Backings(Image(n, i)'.tables) \cup Image(n, i)'.backings \subseteq synced'
              /\ \A m \in Numbers(Image(n, i)'.tables) : m < manifests'[n].recs[i].next
        BY DEF ImageOK
      <4> QED
        BY <4>1, <4>2, <4>3, <4>4
    <3> QED
      BY <1>11, <1>12, <3>1, <3>2
  <2>3. \A n \in DOMAIN manifests' : manifests'[n].synced <= Records(n)'
    BY <1>11, <1>12, <2>1 DEF MarkerInv
  <2>4. ~hasLog' => \E n \in DOMAIN manifests' : marker' = <<n>> /\ Full(n)'
    <3> SUFFICES ASSUME ~hasLog PROVE \E n \in DOMAIN manifests' : marker' = <<n>> /\ Full(n)'
      BY <1>1
    <3>1. PICK n \in DOMAIN manifests : marker = <<n>> /\ Full(n)
      BY <2>1 DEF MarkerInv
    <3>2. n \in DOMAIN manifests \ M
      BY <1>10, <3>1, MarkerOne
    <3> QED
      BY <1>1, <1>11, <1>12, <3>1, <3>2
  <2>5. /\ db'.manifestFileNum \in DOMAIN manifests'
        /\ \A n \in db'.obsoleteManifests \cup LateManifests(db') \cup CleanupManifests' :
             n < db'.manifestFileNum
    BY <1>3, <1>6, <1>8, <1>10, <1>11, <1>13, <2>1 DEF MarkerInv
  <2> QED
    BY <1>1, <2>2, <2>3, <2>4, <2>5 DEF MarkerInv
<1>19. StageInv'
  <2> DEFINE m == db.manifestFileNum
  <2>1. StageInv
    BY DEF IInv
  <2>2. /\ Before' = Before /\ After' = After /\ Up' = Up /\ Settled' = Settled /\ Writing' = Writing
        /\ marker' = marker /\ io' = io /\ db' = db
        /\ Pair(Current(db'), DOMAIN db'.backings) = Pair(Current(db), DOMAIN db.backings)
    BY <1>1 DEF Before, After, Up, Settled, Writing
  <2>3. m \in DOMAIN manifests \ M
    BY <1>8, <1>10
  <2>4. \A n \in DOMAIN manifests \ M : \A i : Image(n, i)' = Image(n, i)
    BY <1>12
  <2>5. \A n \in DOMAIN manifests \ M : Records(n)' = Records(n) /\ Full(n)' = Full(n)
    BY <1>12
  <2>7. AtRest(Before) => AtRest(Before)'
    BY <2>2, <2>3, <2>4, <2>5 DEF AtRest
  <2>8. AtRest(Pair(Current(db), DOMAIN db.backings)) => AtRest(Pair(Current(db), DOMAIN db.backings))'
    BY <2>2, <2>3, <2>4, <2>5 DEF AtRest
  <2>9. \A n : ~Idle /\ io.rotate # 0 /\ NewManifest(n) => NewManifest(n)'
    BY <1>10, <1>11, <2>2 DEF NewManifest
  <2>10. ~Idle => io.prev = m
    BY <1>9
  <2>11. \A n \in DOMAIN manifests \ M : manifests'[n] = manifests[n]
    BY <1>11
  <2>12. ~Idle /\ marker = <<Writing>> => Writing \in DOMAIN manifests \ M
    BY <1>10, MarkerOne, ManifestFacts
  <2>13. /\ \A n \in DOMAIN manifests \ M : \A i : Image(n, i)' = Image(n, i)
         /\ \A n \in DOMAIN manifests \ M : Records(n)' = Records(n)
         /\ \A n \in DOMAIN manifests \ M : Full(n)' = Full(n)
    BY <1>12
  <2>14. CASE Idle
    BY <1>14, <2>1, <2>2, <2>8, <2>14 DEF StageInv, Idle
  <2>15. CASE ~Idle
    <3>1. io.prev \in DOMAIN manifests \ M /\ io.prev = m
      BY <2>3, <2>10, <2>15
    <3>2. CASE io.stage \in {"write", "move"}
      BY <1>11, <1>14, <2>1, <2>2, <2>7, <2>9, <2>15, <3>2 DEF StageInv
    <3>3. CASE io.stage = "sync"
      BY <1>14, <2>1, <2>2, <2>7, <2>9, <2>11, <2>13, <2>15, <3>1, <3>3 DEF StageInv
    <3>4. CASE io.stage = "syncdir"
      BY <1>14, <2>1, <2>2, <2>9, <2>13, <2>15, <3>1, <3>4 DEF StageInv
    <3>5. CASE io.stage = "install"
      BY <1>14, <2>1, <2>2, <2>12, <2>13, <2>15, <3>5 DEF StageInv
    <3>6. io.stage \in {"write", "sync", "move", "syncdir", "install"}
      BY <2>15, IInvFacts DEF IOType, Idle
    <3> QED
      BY <3>2, <3>3, <3>4, <3>5, <3>6
  <2> QED
    BY <2>14, <2>15
<1>20. PhaseInv'
  <2>1. PhaseInv
    BY DEF IInv
  <2>2. ckpt'.pc = ckpt.pc /\ (ckpt = NoCkpt => ckpt' = NoCkpt)
    BY <1>1, <1>4
  <2> QED
    BY <1>1, <1>3, <1>14, <2>1, <2>2 DEF PhaseInv
<1>21. CkptInv'
  <2>1. CkptInv
    BY DEF IInv
  <2>2. ckpt.need \subseteq files' /\ ckpt.need \cap (LateTables(db') \cup CleanupTables') = {}
    BY <1>1, <1>5, <1>6, <1>13, <2>1 DEF CkptInv
  <2> DEFINE n == ckpt.manifest
  <2>3. ckpt.pc = "copy" =>
          /\ n \in DOMAIN manifests' /\ n \notin LateManifests(db') \cup CleanupManifests'
          /\ ckpt.size <= Len(manifests'[n].recs)
          /\ Backings(ReadBack(manifests'[n].recs, ckpt.size).tables) \subseteq ckpt.need
    <3> SUFFICES ASSUME ckpt.pc = "copy"
                 PROVE  /\ n \in DOMAIN manifests' /\ n \notin LateManifests(db') \cup CleanupManifests'
                        /\ ckpt.size <= Len(manifests'[n].recs)
                        /\ Backings(ReadBack(manifests'[n].recs, ckpt.size).tables) \subseteq ckpt.need
      OBVIOUS
    <3>1. /\ n \in DOMAIN manifests /\ n \notin LateManifests(db) \cup CleanupManifests
          /\ ckpt.size <= Len(manifests[n].recs)
          /\ Backings(ReadBack(manifests[n].recs, ckpt.size).tables) \subseteq ckpt.need
      BY <2>1, ImageRead DEF CkptInv, Records
    <3>2. n \in DOMAIN manifests' /\ manifests'[n] = manifests[n]
      BY <1>10, <1>11, <3>1
    <3> QED
      BY <1>6, <1>13, <3>1, <3>2
  <2>4. /\ ckpt'.pc = ckpt.pc /\ ckpt'.need = ckpt.need /\ ckpt'.manifest = n /\ ckpt'.size = ckpt.size
    BY <1>1, <1>4
  <2>5. CkptInv' <=>
          /\ ckpt'.pc # "copy" => ckpt'.need = {}
          /\ ckpt'.pc = "copy" =>
               /\ ckpt'.need \subseteq files'
               /\ ckpt'.need \cap (LateTables(db') \cup CleanupTables') = {}
               /\ ckpt'.manifest \in DOMAIN manifests'
               /\ ckpt'.manifest \notin LateManifests(db') \cup CleanupManifests'
               /\ ckpt'.size <= Len(manifests'[ckpt'.manifest].recs)
               /\ Backings(ReadBack(manifests'[ckpt'.manifest].recs, ckpt'.size).tables)
                    \subseteq ckpt'.need
    BY DEF CkptInv, Records, Image, ReadBack, Pair
  <2>6. ckpt.pc # "copy" => ckpt.need = {}
    BY <2>1 DEF CkptInv
  <2> HIDE DEF n
  <2> QED
    BY <2>2, <2>3, <2>4, <2>5, <2>6
<1>22. TypeOK'
  <2>1. TypeOK
    BY DEF IInv
  <2>2. /\ files' \in SUBSET Nat /\ IsFiniteSet(files') /\ synced' \subseteq files'
        /\ external' \subseteq Nat /\ hasLog' \in BOOLEAN /\ marker' \in Seq(Nat) /\ marker' # << >>
    <3>1. files' \in SUBSET files /\ IsFiniteSet(files)
      BY <1>1, <2>1 DEF TypeOK, DiskType
    <3>2. IsFiniteSet(files')
      BY <3>1, FS_Subset
    <3> QED
      BY <1>1, <2>1, <3>1, <3>2 DEF TypeOK, DiskType
  <2>3. manifests' \in Maps(Manifest)
    BY <1>1, <2>1, MapParts DEF TypeOK, DiskType
  <2>4. IsFiniteSet(DOMAIN manifests')
    <3>1. DOMAIN manifests' \in SUBSET (DOMAIN manifests) /\ IsFiniteSet(DOMAIN manifests)
      BY <1>11, <2>1 DEF TypeOK, DiskType
    <3> QED
      BY <3>1, FS_Subset
  <2>5. ckpt' \in CkptType /\ cleanup' \in Seq(CleanupJob)
    BY <1>1, <1>2, <1>4
  <2> QED
    BY <1>1, <2>1, <2>2, <2>3, <2>4, <2>5 DEF TypeOK, DiskType
<1>23. ReadersInv(db', reader')
  BY <1>13, IInvFacts
<1> QED
  BY <1>14, <1>16, <1>17, <1>18, <1>19, <1>20, <1>21, <1>22, <1>23 DEF IInv
=============================================================================
