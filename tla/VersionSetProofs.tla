-------------------------- MODULE VersionSetProofs --------------------------
(***************************************************************************)
(* The rest of the proof that IInv is inductive: crashes and Open, the     *)
(* edits that logAndApply writes to the manifest, and what it installs;    *)
(* then the theorems of VersionSet.                                        *)
(***************************************************************************)
EXTENDS VersionSetSteps

(***************************************************************************)
(* Crashes and Open.                                                       *)
(***************************************************************************)
\* A crash ends every job.
LEMMA NoJobs ==
  ASSUME jobs' \in Seq(JobType), \A j \in DOMAIN jobs' : jobs'[j] = Done
  PROVE  /\ OwnInv' /\ JobsInv' /\ LockInv'
         /\ \A v : v # 0 => JobsOf(jobs', v) = {}
         /\ \A j \in DOMAIN jobs' : jobs'[j].version = 0
         /\ \A b : b # 0 => Protecting(jobs', b) = {}
         /\ \A j \in DOMAIN jobs' : jobs'[j].prot = 0
<1>1. Done.version = 0 /\ Done.prot = 0 /\ Done.pc = "done" /\ Done.kind = "done"
  BY DEF Done
<1>2. /\ Own(Done) = {} /\ InputsOf(Done) = {} /\ JobOK(Done) /\ InputsInv(Done, db', Target')
  BY DoneType
<1> HIDE DEF Done
<1>3. OwnInv'
  <2>1. \A j \in DOMAIN jobs' : Own(jobs'[j]) = {} /\ InputsOf(jobs'[j]) = {}
    BY <1>2
  <2>2. Inputs' = {}
    BY <2>1 DEF Inputs
  <2> QED
    BY <2>1, <2>2 DEF OwnInv
<1>4. JobsInv'
  BY <1>1, <1>2 DEF JobsInv, Compaction
<1>5. LockInv'
  BY <1>1 DEF LockInv
<1> QED
  BY <1>1, <1>3, <1>4, <1>5 DEF JobsOf, Protecting

\* No job reads a version.
NoVersions(js) == \A j \in DOMAIN js : js[j].version = 0

\* versionSet as load makes it.
LEMMA NewDBFields ==
  ASSUME NEW T, NEW B, NEW n, NEW next
  PROVE  LET d == NewDB(T, B, n, next)
         IN  /\ Current(d) = T /\ DOMAIN d.versions = {1}
             /\ d.versions[1].tables = T /\ d.versions[1].refs = 1
             /\ Refd(d) = Backings(T) \cup B /\ Base(d) = Backings(T) \cup B
             /\ DOMAIN d.backings = B
             /\ DoomedIn(d) = {} /\ LateTables(d) = {} /\ LateManifests(d) = {}
             /\ d.obsoleteManifests = {} /\ d.late = {} /\ d.obsolete = {} /\ d.zombies = {}
             /\ d.held = {}
<1> DEFINE d == NewDB(T, B, n, next)
           w == [v \in {1} |-> [tables |-> T, refs |-> 1]]
           b == [x \in B |-> [use |-> Virtuals(T, x), prot |-> 0]]
<1>1. /\ d.versions = w /\ d.current = 1 /\ d.backings = b
      /\ d.held = {} /\ d.zombies = {} /\ d.obsolete = {} /\ d.obsoleteManifests = {}
      /\ d.late = {}
  <2> HIDE DEF w, b
  <2> QED
    BY DEF NewDB, w, b
<1>2. DOMAIN w = {1} /\ w[1].tables = T /\ w[1].refs = 1 /\ DOMAIN b = B
  OBVIOUS
<1> HIDE DEF d, w
<1>3. Current(d) = T
  BY <1>1, <1>2 DEF Current
<1>4. DOMAIN d.backings = B
  BY <1>1
<1>5. Refd(d) = Backings(T) \cup B /\ Base(d) = Backings(T) \cup B
  BY <1>1, <1>2, <1>3, <1>4 DEF Refd, Base
<1>6. DoomedIn(d) = {} /\ LateTables(d) = {} /\ LateManifests(d) = {}
  BY <1>1 DEF DoomedIn, LateTables, LateManifests
<1> HIDE DEF b
<1> QED
  BY <1>1, <1>2, <1>3, <1>4, <1>5, <1>6 DEF d

LEMMA NewDBNumbers ==
  ASSUME NEW T, NEW B, NEW n, NEW next
  PROVE  LET d == NewDB(T, B, n, next)
         IN  /\ d.current = 1 /\ d.nextFileNum = next /\ d.manifestFileNum = n
             /\ d.readState = 0 /\ DOMAIN d.readStates = {} /\ d.disabled = 0
             /\ ~d.writing /\ ~d.manifest
BY DEF NewDB

LEMMA NewDBBackings ==
  ASSUME NEW T, NEW B, NEW n, NEW next
  PROVE  NewDB(T, B, n, next).backings = [b \in B |-> [use |-> Virtuals(T, b), prot |-> 0]]
BY DEF NewDB

LEMMA NewDBFacts ==
  ASSUME NEW T \in TableSets, NEW B \in SUBSET Nat, NEW n \in Nat, NEW next \in Nat,
         \A t \in T : t.virtual => t.backing \in B
  PROVE  LET d == NewDB(T, B, n, next)
         IN  /\ DBInv(d, T, {}) /\ ReadersInv(d, NoRead) /\ d \in DBType
             /\ \A js : NoVersions(js) => RefsInv(d, js)
<1> DEFINE d == NewDB(T, B, n, next)
           b == [x \in B |-> [use |-> Virtuals(T, x), prot |-> 0]]
<1>0. (\E t \in T : t.virtual /\ t.backing \notin B) = FALSE
  OBVIOUS
<1>a. /\ Current(d) = T /\ DOMAIN d.versions = {1}
      /\ d.versions[1].tables = T /\ d.versions[1].refs = 1
      /\ Refd(d) = Backings(T) \cup B /\ Base(d) = Backings(T) \cup B
      /\ DoomedIn(d) = {} /\ d.late = {} /\ d.zombies = {}
      /\ DOMAIN d.backings = B /\ d.held = {}
  <2> HIDE DEF b
  <2> QED
    BY NewDBFields
<1>b. d.current = 1 /\ d.readState = 0 /\ DOMAIN d.readStates = {}
  <2> HIDE DEF b
  <2> QED
    BY NewDBNumbers
<1>c. d.backings = b
  BY DEF NewDB
<1>5. ~d.panic
  BY <1>0 DEF NewDB
<1>2. b \in Maps(BackingType)
  <2>1. \A x : Virtuals(T, x) \in Nat
    <3> TAKE x
    <3>1. T \in TableSets /\ {} \in SUBSET T /\ {} \in TableSets /\ {} \cap (T \ {}) = {}
      BY TableSetFacts
    <3> QED
      BY <3>1, VirtualsEdit
  <2>2. DOMAIN b = B /\ \A x \in B : b[x] \in BackingType
    BY <2>1 DEF BackingType
  <2>3. b \in [B -> BackingType]
    BY <2>2
  <2> QED
    BY <2>2, <2>3, MapFacts
<1>3. << >> \in Maps(ReadState)
  BY EmptyMap
<1>4. [v \in {1} |-> [tables |-> T, refs |-> 1]] \in Maps(Version)
  <2> DEFINE w == [v \in {1} |-> [tables |-> T, refs |-> 1]]
  <2>1. DOMAIN w = {1} /\ w[1] \in Version
    BY DEF Version
  <2>2. w \in [DOMAIN w -> Version]
    BY <2>1
  <2> QED
    BY <2>1, <2>2, MapFacts
<1>6. d \in DBType
  BY <1>2, <1>3, <1>4, <1>0 DEF NewDB, DBType
<1> HIDE DEF d, b
<1>10. DBInv(d, T, {})
  BY <1>a, <1>b, <1>c, <1>5, <1>6 DEF DBInv
<1>11. ReadersOf(d, 1) = {} /\ DOMAIN d.readStates = {}
  BY <1>a, <1>b, <1>c DEF ReadersOf
<1>12. Cardinality({}) = 0
  BY FS_EmptySet
<1>13. ASSUME NEW js, NoVersions(js) PROVE RefsInv(d, js)
  <2>1. DOMAIN d.versions \subseteq 1 .. d.current /\ DOMAIN d.readStates \subseteq 1 .. d.readState
    BY <1>a, <1>b, <1>c, <1>11
  <2>2. \A j \in DOMAIN js : js[j].version \in DOMAIN d.versions \cup {0}
    BY <1>13 DEF NoVersions
  <2>4. Cardinality(ReadersOf(d, 1)) = 0 /\ Cardinality(JobsOf(js, 1)) = 0
    <3>1. JobsOf(js, 1) = {}
      BY <1>13 DEF JobsOf, NoVersions
    <3> QED
      BY <1>11, <1>12, <3>1
  <2> QED
    BY <1>a, <1>b, <1>c, <1>11, <2>1, <2>2, <2>4 DEF RefsInv
<1>14. ReadersInv(d, NoRead)
  BY <1>a, <1>b, <1>c, <1>11 DEF ReadersInv, NoRead
<1> QED
  BY <1>6, <1>10, <1>13, <1>14 DEF d

\* Nothing is loaded while the process is down.
LEMMA EmptyDB ==
  ASSUME NEW js, NoVersions(js)
  PROVE  LET d == NewDB({}, {}, 0, 0)
         IN  /\ DBInv(d, {}, {}) /\ RefsInv(d, js) /\ ReadersInv(d, NoRead)
             /\ Current(d) = {} /\ DOMAIN d.versions = {1} /\ d.current = 1
             /\ Refd(d) = {} /\ DoomedIn(d) = {}
             /\ d.obsoleteManifests = {} /\ d.late = {} /\ DOMAIN d.backings = {}
             /\ d.held = {} /\ d.disabled = 0
<1> DEFINE B == {}
           T == {}
           n == 0
           next == 0
<1>1. /\ B \in SUBSET Nat /\ n \in Nat /\ next \in Nat /\ T \in TableSets
      /\ \A t \in T : t.virtual => t.backing \in B
  BY TableSetFacts
<1> HIDE DEF B, T, n, next
<1>2. LET d == NewDB(T, B, n, next)
      IN  DBInv(d, T, {}) /\ RefsInv(d, js) /\ ReadersInv(d, NoRead)
  BY <1>1, NewDBFacts
<1>3. LET d == NewDB(T, B, n, next)
      IN  /\ Current(d) = T /\ DOMAIN d.versions = {1} /\ d.current = 1
          /\ Refd(d) = Backings(T) \cup B /\ DoomedIn(d) = {}
          /\ d.obsoleteManifests = {} /\ d.late = {} /\ DOMAIN d.backings = B
          /\ d.held = {} /\ d.disabled = 0
  BY NewDBFields, NewDBNumbers
<1>4. Backings(T) \cup B = {}
  BY DEF Backings, T, B
<1> QED
  BY <1>2, <1>3, <1>4 DEF B, T, n, next

\* What a crash leaves of a manifest, if the machine went down with the process.
LEMMA CrashMarker ==
  ASSUME IInv, ~Up', NEW n \in Range(marker), NEW k \in Lengths(n), synced \subseteq synced',
         manifests' = [manifests EXCEPT
           ![n] = [recs |-> SubSeq(manifests[n].recs, 1, k), synced |-> k]],
         marker' = <<n>>
  PROVE  /\ MarkerInv' /\ manifests' \in Maps(Manifest) /\ DOMAIN manifests' = DOMAIN manifests
         /\ marker' \in Seq(Nat) /\ marker' # << >>
<1>1. /\ n \in DOMAIN manifests /\ n \in Nat /\ manifests[n].recs \in Seq(EditType)
      /\ manifests[n].synced \in Nat /\ Records(n) \in Nat
  BY ManifestFacts
<1>2. manifests[n].synced >= 1 /\ ImageOK(n, k)
  BY DEF IInv, MarkerInv
<1>3. k \in Nat /\ k >= 1 /\ k <= Len(manifests[n].recs)
  BY <1>1, <1>2 DEF Lengths, Records
<1> DEFINE q == SubSeq(manifests[n].recs, 1, k)
           x == [recs |-> q, synced |-> k]
<1>4. /\ q \in Seq(EditType) /\ Len(q) = k
      /\ \A i \in 1 .. k : q[i] = manifests[n].recs[i]
  BY <1>1, <1>3
<1>5. x \in Manifest /\ x.recs = q /\ x.synced = k
  BY <1>3, <1>4 DEF Manifest
<1> HIDE DEF q
<1>6. manifests' = [manifests EXCEPT ![n] = x]
  BY DEF q
<1> HIDE DEF x
<1>7. /\ DOMAIN manifests' = DOMAIN manifests /\ manifests'[n] = x
      /\ \A m \in DOMAIN manifests : m # n => manifests'[m] = manifests[m]
  BY <1>1, <1>6
<1>8. manifests' \in Maps(Manifest)
  <2>1. manifests \in Maps(Manifest)
    BY DEF IInv, TypeOK, DiskType
  <2>2. \A m \in DOMAIN manifests : manifests[m] \in Manifest /\ DOMAIN manifests \subseteq Nat
    BY <2>1, MapFacts
  <2>3. \A m \in DOMAIN manifests' : manifests'[m] \in Manifest
    BY <1>5, <1>7, <2>2
  <2>4. DOMAIN manifests' \subseteq Nat /\ manifests' \in [DOMAIN manifests' -> Manifest]
    BY <1>6, <1>7, <2>2, <2>3
  <2> QED
    BY <2>4, MapFacts
<1>9. Records(n)' = k /\ Full(n)' /\ Lengths(n)' = {k}
  BY <1>3, <1>4, <1>5, <1>7 DEF Records, Full, Lengths
<1>10. Image(n, k)' = Image(n, k)
  <2>0. /\ Image(n, k) = ReadBack(manifests[n].recs, k)
        /\ Image(n, k)' = ReadBack(manifests'[n].recs, k)
    BY ImageRead
  <2>1. Image(n, k)' = ReadBack(q, k) /\ Image(n, k) = ReadBack(manifests[n].recs, k)
    BY <1>5, <1>7, <2>0
  <2> QED
    BY <1>3, <1>4, <2>1, ReadBackPrefix
<1>11. ImageOK(n, k)'
  <2>1. manifests'[n].recs[k] = manifests[n].recs[k]
    BY <1>3, <1>4, <1>5, <1>7
  <2>2. ImageOK(n, k)' <=>
          /\ Sound(Image(n, k)'.tables, Image(n, k)'.backings)
          /\ Backings(Image(n, k)'.tables) \cup Image(n, k)'.backings \subseteq synced'
          /\ \A m \in Numbers(Image(n, k)'.tables) : m < manifests'[n].recs[k].next
    BY DEF ImageOK
  <2>3. ImageOK(n, k) <=>
          /\ Sound(Image(n, k).tables, Image(n, k).backings)
          /\ Backings(Image(n, k).tables) \cup Image(n, k).backings \subseteq synced
          /\ \A m \in Numbers(Image(n, k).tables) : m < manifests[n].recs[k].next
    BY DEF ImageOK
  <2> QED
    BY <1>2, <1>10, <2>1, <2>2, <2>3
<1>12. Range(marker') = {n} /\ marker' \in Seq(Nat) /\ marker' # << >>
  BY <1>1, MarkerOne
<1>13. \A m \in DOMAIN manifests' : manifests'[m].synced <= Records(m)'
  <2> TAKE m \in DOMAIN manifests'
  <2>1. CASE m = n
    BY <1>3, <1>5, <1>7, <1>9, <2>1
  <2>2. CASE m # n
    <3>1. manifests[m].synced <= Records(m)
      BY <1>7, ManifestFacts
    <3>2. manifests'[m] = manifests[m]
      BY <1>7, <2>2
    <3> QED
      BY <3>1, <3>2 DEF Records
  <2> QED
    BY <2>1, <2>2
<1>14. /\ n \in DOMAIN manifests' /\ manifests'[n].synced >= 1
       /\ \A i \in Lengths(n)' : ImageOK(n, i)'
  BY <1>1, <1>3, <1>5, <1>7, <1>9, <1>11
<1>15. \A m \in Range(marker') : m \in DOMAIN manifests' /\ manifests'[m].synced >= 1
         /\ \A i \in Lengths(m)' : ImageOK(m, i)'
  BY <1>12, <1>14
<1>16. \E m \in DOMAIN manifests' : marker' = <<m>> /\ Full(m)'
  BY <1>9, <1>14
<1>17. MarkerInv'
  BY <1>13, <1>15, <1>16 DEF MarkerInv
<1> QED
  BY <1>7, <1>8, <1>12, <1>17

LEMMA CrashInv == ASSUME IInv, Crash PROVE IInv'
<1> DEFINE d == NewDB({}, {}, 0, 0)
<1>1. /\ phase' = "down" /\ db' = d /\ io' = NoIO /\ ckpt' = NoCkpt /\ reader' = NoRead
      /\ cleanup' = << >> /\ jobs' = [j \in DOMAIN jobs |-> Done]
      /\ UNCHANGED <<external, hasLog>>
  BY DEF Crash
<1>2. ~Up'
  BY <1>1 DEF Up
<1>3. jobs' \in Seq(JobType) /\ \A j \in DOMAIN jobs' : jobs'[j] = Done
  <2>1. jobs \in Seq(JobType) /\ Done \in JobType
    BY IInvFacts, DoneType
  <2>2. Len(jobs) \in Nat /\ DOMAIN jobs = 1 .. Len(jobs)
    BY <2>1
  <2> HIDE DEF Done
  <2> QED
    BY <1>1, <2>1, <2>2
<1>4. /\ OwnInv' /\ JobsInv' /\ LockInv'
      /\ \A j \in DOMAIN jobs' : jobs'[j].version = 0
      /\ \A b : b # 0 => Protecting(jobs', b) = {}
      /\ \A j \in DOMAIN jobs' : jobs'[j].prot = 0
  BY <1>3, NoJobs
<1>5. /\ {} \in TableSets /\ {} \in SUBSET Nat /\ 0 \in Nat /\ Backings({}) = {}
      /\ \A t \in {} : t.virtual => t.backing \in {}
  BY TableSetFacts DEF Backings
<1>6. /\ DBInv(d, {}, {}) /\ RefsInv(d, jobs') /\ ReadersInv(d, NoRead)
      /\ Current(d) = {} /\ DOMAIN d.versions = {1} /\ d.current = 1
      /\ Refd(d) = {} /\ DoomedIn(d) = {}
      /\ d.obsoleteManifests = {} /\ d.late = {} /\ DOMAIN d.backings = {} /\ d.held = {}
      /\ d.disabled = 0
  <2>1. NoVersions(jobs')
    BY <1>4 DEF NoVersions
  <2> QED
    BY <2>1, EmptyDB
<1>7. /\ Idle' /\ io'.zombies = {} /\ Target' = {}
  BY <1>1, <1>6 DEF NoIO, Idle, Target
<1> HIDE DEF d
<1>8. DBInv(db', Target', io'.zombies) /\ RefsInv(db', jobs') /\ ReadersInv(db', reader')
  BY <1>1, <1>6, <1>7
<1>9. BackingsInv'
  <2>1. Sound(Target', DOMAIN db'.backings)
    BY <1>7 DEF Sound
  <2> QED
    BY <1>1, <1>4, <1>6, <2>1 DEF BackingsInv
<1>10. IoInv'
  BY <1>1, <1>6, <1>7 DEF IoInv
<1>11. CleanupTables' = {} /\ CleanupManifests' = {} /\ Range(cleanup') = {}
  BY <1>1 DEF CleanupTables, CleanupManifests, Range
<1>12. PhaseInv'
  <2>1. d = NewDB({}, {}, 0, 0)
    BY DEF d
  <2>2. ckpt'.pc = "idle"
    BY <1>1 DEF NoCkpt
  <2>3. \A j \in DOMAIN jobs' : jobs'[j] = Done
    BY <1>3
  <2> HIDE DEF Done
  <2> QED
    BY <1>1, <1>6, <1>7, <2>1, <2>2, <2>3 DEF PhaseInv
<1>13. StageInv'
  BY <1>2, <1>7 DEF StageInv, Idle
<1>14. CkptInv'
  BY <1>1 DEF CkptInv, NoCkpt
<1>15. /\ db' \in DBType /\ io' \in IOType /\ ckpt' \in CkptType /\ reader' \in ReaderType
       /\ cleanup' \in Seq(CleanupJob)
  <2>1. db' \in DBType
    BY <1>8 DEF DBInv
  <2>2. NoIO \in IOType
    BY DoneType, TableSetFacts DEF NoIO, IOType
  <2>3. NoCkpt \in CkptType /\ NoRead \in ReaderType /\ << >> \in Seq(CleanupJob)
    BY DEF NoCkpt, CkptType, NoRead, ReaderType
  <2> QED
    BY <1>1, <2>1, <2>2, <2>3
<1>16. /\ MarkerInv' /\ manifests' \in Maps(Manifest) /\ DOMAIN manifests' = DOMAIN manifests
       /\ marker' \in Seq(Nat) /\ marker' # << >>
       /\ files' \in SUBSET files /\ synced' \subseteq files'
  <2>0. TypeOK /\ MarkerInv
    BY DEF IInv
  <2>1. CASE UNCHANGED <<files, synced, manifests, marker>>
    <3>1. \A n, k : Image(n, k)' = Image(n, k)
      BY <2>1, ImageRead
    <3>2. \A n : Records(n)' = Records(n) /\ Full(n)' = Full(n) /\ Lengths(n)' = Lengths(n)
      BY <2>1 DEF Records, Full, Lengths
    <3>3. \A n, k : ImageOK(n, k)' = ImageOK(n, k)
      BY <2>1, <3>1 DEF ImageOK
    <3>4. MarkerInv'
      BY <1>1, <1>2, <2>0, <2>1, <3>2, <3>3 DEF MarkerInv
    <3> QED
      BY <2>0, <2>1, <3>4 DEF TypeOK, DiskType
  <2>2. ASSUME NEW n \in Range(marker), NEW F \in SUBSET (files \ synced),
               marker' = <<n>>, files' = synced \cup F, synced' = files',
               NEW k \in Lengths(n),
               manifests' = [manifests EXCEPT
                 ![n] = [recs |-> SubSeq(manifests[n].recs, 1, k), synced |-> k]]
        PROVE  /\ MarkerInv' /\ manifests' \in Maps(Manifest) /\ DOMAIN manifests' = DOMAIN manifests
               /\ marker' \in Seq(Nat) /\ marker' # << >>
               /\ files' \in SUBSET files /\ synced' \subseteq files'
    <3>1. files' \in SUBSET files /\ synced' \subseteq files' /\ synced \subseteq synced'
      BY <2>0, <2>2 DEF TypeOK, DiskType
    <3>2. /\ MarkerInv' /\ manifests' \in Maps(Manifest) /\ DOMAIN manifests' = DOMAIN manifests
          /\ marker' \in Seq(Nat) /\ marker' # << >>
      BY <1>2, <2>2, <3>1, CrashMarker
    <3> QED
      BY <3>1, <3>2
  <2> QED
    BY <2>1, <2>2 DEF Crash
<1>17. FilesInv'
  <2>1. \A f \in files' \cup DOMAIN manifests' : f > 0
    BY <1>16 DEF IInv, FilesInv
  <2>2. Refd(db') = {}
    BY <1>1, <1>6
  <2> QED
    BY <1>2, <1>11, <2>1, <2>2 DEF FilesInv
<1>18. TypeOK'
  <2>1. TypeOK
    BY DEF IInv
  <2>2. IsFiniteSet(files') /\ files' \in SUBSET Nat
    <3>1. IsFiniteSet(files) /\ files \in SUBSET Nat
      BY <2>1 DEF TypeOK, DiskType
    <3>2. IsFiniteSet(files')
      BY <1>16, <3>1, FS_Subset
    <3> QED
      BY <1>16, <3>1, <3>2
  <2> QED
    BY <1>1, <1>3, <1>15, <1>16, <2>1, <2>2 DEF TypeOK, DiskType
<1> QED
  BY <1>4, <1>8, <1>9, <1>10, <1>12, <1>13, <1>14, <1>16, <1>17, <1>18 DEF IInv

(***************************************************************************)
(* Load.                                                                   *)
(***************************************************************************)
\* A finite set of numbers has an upper bound, and a greatest element.
LEMMA Bounded ==
  ASSUME NEW S, S \subseteq Nat, IsFiniteSet(S)
  PROVE  \E b \in Nat : \A x \in S : x <= b
<1>1. PICK n \in Nat : ExistsSurjection(1 .. n, S)
  BY FS_NatSurjection
<1>2. PICK f \in [1 .. n -> S] : \A x \in S : \E i \in 1 .. n : f[i] = x
  BY <1>1 DEF ExistsSurjection, Surjection
<1> DEFINE Bounds(i, b) == \A k \in 1 .. i : f[k] <= b
           Bad == {i \in 0 .. n : ~ \E b \in Nat : Bounds(i, b)}
<1>a. \A i : i \in Bad <=> i \in 0 .. n /\ ~ \E b \in Nat : Bounds(i, b)
  OBVIOUS
<1>b. Bad \subseteq Nat
  OBVIOUS
<1>c. \A i, b : Bounds(i, b) <=> \A k \in 1 .. i : f[k] <= b
  OBVIOUS
<1>d. \A k \in 1 .. n : f[k] \in Nat
  OBVIOUS
<1> HIDE DEF Bad, Bounds
<1>3. ASSUME Bad # {} PROVE FALSE
  <2>1. PICK i \in Bad : \A k \in Bad : i <= k
    BY <1>3, <1>b, Least
  <2>2. i \in 0 .. n /\ ~ \E b \in Nat : Bounds(i, b)
    BY <1>a
  <2>3. i # 0
    <3>1. Bounds(0, 0)
      BY <1>c
    <3> QED
      BY <2>2, <3>1
  <2>4. PICK b \in Nat : Bounds(i - 1, b)
    <3>1. i - 1 \in 0 .. n /\ ~(i <= i - 1)
      BY <2>2, <2>3
    <3>2. i - 1 \notin Bad
      BY <2>1, <3>1
    <3> QED
      BY <1>a, <3>1, <3>2
  <2>5. i \in 1 .. n /\ f[i] \in Nat
    BY <1>d, <2>2, <2>3
  <2>6. PICK c \in Nat : c >= b /\ c >= f[i]
    <3>1. b + f[i] \in Nat /\ b + f[i] >= b /\ b + f[i] >= f[i]
      BY <2>5
    <3> QED
      BY <3>1
  <2>8. ASSUME NEW k \in 1 .. i PROVE f[k] <= c
    <3>1. CASE k = i
      BY <2>5, <2>6, <3>1
    <3>2. CASE k # i
      <4>1. k \in 1 .. i - 1 /\ k \in 1 .. n
        BY <2>5, <2>8, <3>2
      <4>2. f[k] <= b /\ f[k] \in Nat
        BY <1>c, <1>d, <2>4, <4>1
      <4> QED
        BY <2>6, <4>2
    <3> QED
      BY <3>1, <3>2
  <2>9. Bounds(i, c)
    BY <1>c, <2>8
  <2> QED
    BY <2>2, <2>6, <2>9
<1>4. n \notin Bad /\ n \in 0 .. n
  BY <1>3
<1>5. PICK b \in Nat : Bounds(n, b)
  BY <1>4, <1>a
<1> QED
  BY <1>2, <1>5, <1>c

LEMMA MaxFacts ==
  ASSUME NEW S, S \subseteq Nat, IsFiniteSet(S), S # {}
  PROVE  Max(S) \in S /\ \A x \in S : x <= Max(S)
<1> DEFINE U == {b \in Nat : \A x \in S : x <= b}
<1>1. U # {}
  BY Bounded
<1>2. PICK u \in U : \A b \in U : u <= b
  <2>1. U \subseteq Nat
    OBVIOUS
  <2> HIDE DEF U
  <2> QED
    BY <1>1, <2>1, Least
<1>3. u \in S
  <2>1. SUFFICES ASSUME u \notin S PROVE FALSE
    OBVIOUS
  <2>2. \A x \in S : x \in Nat /\ x < u
    BY <1>2, <2>1
  <2>3. u - 1 \in Nat
    <3>1. PICK x \in S : TRUE
      OBVIOUS
    <3>2. u \in Nat /\ x \in Nat /\ x < u
      BY <1>2, <2>2
    <3> QED
      BY <3>2
  <2>4. u - 1 \in U
    BY <1>2, <2>2, <2>3
  <2> QED
    BY <1>2, <2>3, <2>4
<1>4. \A y \in S : u >= y
  BY <1>2
<1>5. PICK m \in S : m = Max(S) /\ \A y \in S : m >= y
  BY <1>3, <1>4 DEF Max
<1> QED
  BY <1>5

\* What is read back from records is tables and numbers.
LEMMA ReadBackType ==
  ASSUME NEW r \in Seq(EditType), NEW k \in Nat, k <= Len(r)
  PROVE  ReadBack(r, k).tables \in TableSets /\ ReadBack(r, k).backings \in SUBSET Nat
<1>1. \A i \in 1 .. k : r[i] \in EditType
  OBVIOUS
<1>2. \A i \in 1 .. k : r[i].new \in TableSets /\ r[i].created \in SUBSET Nat
  BY <1>1 DEF EditType
<1> DEFINE f == [i \in 1 .. k |-> r[i].new]
           N == UNION {f[i] : i \in 1 .. k}
<1>3. N \in TableSets
  <2>1. IsFiniteSet({f[i] : i \in 1 .. k})
    <3>1. IsFiniteSet(1 .. k) /\ DOMAIN f = 1 .. k
      BY FS_Interval
    <3> HIDE DEF f
    <3> QED
      BY <3>1, ImageFinite
  <2>2. \A T \in {f[i] : i \in 1 .. k} : IsFiniteSet(T) /\ T \subseteq TableType
    BY <1>2 DEF TableSets
  <2> HIDE DEF f
  <2>3. IsFiniteSet(N)
    BY <2>1, <2>2, FS_UNION
  <2> QED
    BY <2>2, <2>3 DEF TableSets
<1>4. \A x \in ReadBack(r, k).tables : x \in N
  BY ReadBackMembers
<1>5. \A x \in ReadBack(r, k).backings : x \in Nat
  BY <1>2, ReadBackMembers
<1> HIDE DEF N
<1>6. ReadBack(r, k).tables \subseteq N
  BY <1>4
<1> QED
  BY <1>3, <1>5, <1>6, TableSetFacts

LEMMA LoadInv == ASSUME IInv, Load PROVE IInv'
<1> DEFINE n == Last(marker)
           k == Records(n)
           T == Image(n, k).tables
           B == Image(n, k).backings
           F == {f + 1 : f \in files \cup DOMAIN manifests}
           next == Max({Last(manifests[n].recs).next} \cup F)
           d == NewDB(T, B, n, next)
<1>1. /\ phase = "down" /\ phase' = "loaded" /\ db' = d
      /\ UNCHANGED <<disk, io, jobs, ckpt, reader, cleanup>>
  BY DEF Load, Records
<1>2. /\ \A j \in DOMAIN jobs : jobs[j] = Done
      /\ ckpt = NoCkpt /\ reader = NoRead /\ Idle /\ io = NoIO /\ cleanup = << >>
  BY <1>1 DEF IInv, PhaseInv, IoInv
<1>3. n \in Range(marker) /\ n \in DOMAIN manifests /\ n \in Nat
  <2>1. marker \in Seq(Nat) /\ marker # << >>
    BY ManifestFacts
  <2>2. Len(marker) \in DOMAIN marker
    BY <2>1
  <2>3. n \in Range(marker)
    BY <2>2 DEF Last, Range
  <2> QED
    BY <2>3, ManifestFacts
<1>4. /\ manifests[n].recs \in Seq(EditType) /\ k \in Nat /\ k >= 1 /\ k \in Lengths(n)
      /\ k = Len(manifests[n].recs)
  <2>1. manifests[n].synced >= 1
    BY <1>3 DEF IInv, MarkerInv
  <2>2. /\ manifests[n].recs \in Seq(EditType) /\ k \in Nat /\ manifests[n].synced \in Nat
        /\ manifests[n].synced <= k
    BY <1>3, ManifestFacts
  <2> QED
    BY <2>1, <2>2 DEF Lengths, Records
<1>5. /\ Sound(T, B) /\ Backings(T) \cup B \subseteq synced
      /\ \A m \in Numbers(T) : m < Last(manifests[n].recs).next
  <2>1. ImageOK(n, k)
    BY <1>3, <1>4 DEF IInv, MarkerInv
  <2> QED
    BY <1>4, <2>1 DEF ImageOK, Last
<1>6. T \in TableSets /\ B \in SUBSET Nat
  <2>1. Image(n, k) = ReadBack(manifests[n].recs, k)
    BY ImageRead
  <2> DEFINE r == manifests[n].recs
  <2>2. r \in Seq(EditType) /\ k \in Nat /\ k <= Len(r)
    BY <1>4
  <2> HIDE DEF k, r
  <2>3. ReadBack(r, k).tables \in TableSets /\ ReadBack(r, k).backings \in SUBSET Nat
    BY <2>2, ReadBackType
  <2> QED
    BY <2>1, <2>3 DEF r
<1>7. /\ files \in SUBSET Nat /\ IsFiniteSet(files) /\ synced \subseteq files
      /\ DOMAIN manifests \subseteq Nat /\ IsFiniteSet(DOMAIN manifests)
      /\ \A f \in files \cup DOMAIN manifests : f > 0
  <2>1. \A m \in DOMAIN manifests : m \in Nat
    BY ManifestFacts
  <2> QED
    BY <2>1 DEF IInv, TypeOK, DiskType, FilesInv
<1>8. /\ next \in Nat /\ \A f \in files \cup DOMAIN manifests : f < next
      /\ Last(manifests[n].recs).next <= next
  <2> DEFINE G == files \cup DOMAIN manifests
             l == Last(manifests[n].recs).next
             S == {l} \cup F
  <2>1. l \in Nat
    <3>1. manifests[n].recs[k] \in EditType
      BY <1>4
    <3> QED
      BY <1>4, <3>1 DEF Last, EditType
  <2>2. IsFiniteSet(F)
    <3> DEFINE g == [f \in G |-> f + 1]
    <3>1. IsFiniteSet(G) /\ DOMAIN g = G /\ F = {g[f] : f \in G}
      BY <1>7, FS_Union
    <3> HIDE DEF g, G, F
    <3> QED
      BY <3>1, ImageFinite
  <2>3. F \subseteq Nat /\ \A f \in G : f + 1 \in F /\ f \in Nat
    <3>1. G \subseteq Nat
      BY <1>7
    <3>2. \A f \in G : f + 1 \in F
      OBVIOUS
    <3>3. \A x \in F : \E f \in G : x = f + 1
      OBVIOUS
    <3> HIDE DEF F, G
    <3>4. \A x \in F : x \in Nat
      BY <3>1, <3>3
    <3> QED
      BY <3>1, <3>2, <3>4
  <2> HIDE DEF F, l, G
  <2>4. IsFiniteSet(S) /\ S \subseteq Nat /\ S # {} /\ l \in S
    BY <2>1, <2>2, <2>3, FS_Singleton, FS_Union
  <2> HIDE DEF S
  <2>5. Max(S) \in S /\ \A x \in S : x <= Max(S)
    BY <2>4, MaxFacts
  <2>6. next = Max(S)
    BY DEF S, l
  <2>7. \A f \in G : f + 1 \in S
    BY <2>3 DEF S
  <2>8. next \in Nat /\ l <= next
    BY <2>4, <2>5, <2>6
  <2>9. \A f \in G : f < next
    <3> TAKE f \in G
    <3>1. f + 1 <= next /\ f \in Nat
      BY <2>3, <2>5, <2>6, <2>7
    <3> QED
      BY <2>8, <3>1
  <2> QED
    BY <2>8, <2>9 DEF G, l
<1>9. \A t \in T : t.virtual => t.backing \in B
  BY <1>5 DEF Sound
<1>10. /\ OwnInv' /\ JobsInv' /\ LockInv'
       /\ \A j \in DOMAIN jobs' : jobs'[j].version = 0
       /\ \A b : b # 0 => Protecting(jobs', b) = {}
       /\ \A j \in DOMAIN jobs' : jobs'[j].prot = 0
  <2>1. jobs' \in Seq(JobType) /\ \A j \in DOMAIN jobs' : jobs'[j] = Done
    BY <1>1, <1>2, IInvFacts
  <2> HIDE DEF d
  <2> QED
    BY <2>1, NoJobs
<1> HIDE DEF n, k, T, B, F, next
<1>11. /\ DBInv(d, T, {}) /\ ReadersInv(d, NoRead) /\ d \in DBType /\ RefsInv(d, jobs')
  <2>1. NoVersions(jobs')
    BY <1>10 DEF NoVersions
  <2>2. /\ DBInv(d, T, {}) /\ ReadersInv(d, NoRead) /\ d \in DBType
        /\ \A js : NoVersions(js) => RefsInv(d, js)
    BY <1>3, <1>6, <1>8, <1>9, NewDBFacts
  <2> HIDE DEF d
  <2> QED
    BY <2>1, <2>2
<1>12. /\ Current(d) = T /\ DOMAIN d.versions = {1}
       /\ Refd(d) = Backings(T) \cup B /\ DOMAIN d.backings = B
       /\ DoomedIn(d) = {} /\ LateManifests(d) = {}
       /\ d.obsoleteManifests = {} /\ d.late = {} /\ d.obsolete = {}
       /\ d.held = {}
  BY NewDBFields
<1>13. /\ d.current = 1 /\ d.nextFileNum = next /\ d.manifestFileNum = n
       /\ d.readState = 0 /\ d.disabled = 0 /\ ~d.manifest
  BY NewDBNumbers
<1>14. d.backings = [b \in B |-> [use |-> Virtuals(T, b), prot |-> 0]]
  BY DEF NewDB
<1> HIDE DEF d
<1>15. Idle' /\ io' = NoIO /\ io'.zombies = {} /\ Target' = T /\ Up' /\ Target' = Current(db')
  BY <1>1, <1>2, <1>12 DEF NoIO, Idle, Target, Up
<1>16. DBInv(db', Target', io'.zombies) /\ RefsInv(db', jobs') /\ ReadersInv(db', reader')
  BY <1>1, <1>2, <1>11, <1>15
<1>17. BackingsInv'
  <2>1. Sound(Target', DOMAIN db'.backings)
    BY <1>1, <1>5, <1>12, <1>15
  <2>2. ASSUME NEW b \in DOMAIN db'.backings
        PROVE  /\ db'.backings[b].use = Virtuals(Target', b)
               /\ db'.backings[b].prot = Cardinality(Protecting(jobs', b))
    <3>1. b \in B /\ b # 0
      BY <1>1, <1>5, <1>7, <1>12, <2>2
    <3>2. db'.backings[b] = [use |-> Virtuals(T, b), prot |-> 0]
      BY <1>1, <1>14, <3>1
    <3>3. Cardinality(Protecting(jobs', b)) = 0
      <4>1. Protecting(jobs', b) = {}
        BY <1>10, <3>1
      <4>2. Cardinality({}) = 0
        BY FS_EmptySet
      <4> QED
        BY <4>1, <4>2
    <3>4. db'.backings[b].use = Virtuals(T, b) /\ db'.backings[b].prot = 0
      BY <3>2
    <3> QED
      BY <1>15, <3>3, <3>4
  <2> QED
    BY <1>10, <2>1, <2>2 DEF BackingsInv
<1>18. IoInv'
  BY <1>1, <1>12, <1>15 DEF IoInv
<1>19. CleanupTables' = {} /\ CleanupManifests' = {} /\ Range(cleanup') = {}
  BY <1>1, <1>2 DEF CleanupTables, CleanupManifests, Range
<1>20. PhaseInv'
  <2>1. ckpt'.pc = "idle" /\ ckpt' = NoCkpt /\ reader' = NoRead
    BY <1>1, <1>2 DEF NoCkpt
  <2>2. DOMAIN db'.versions = {db'.current}
    BY <1>1, <1>12, <1>13
  <2>3. \A j \in DOMAIN jobs' : jobs'[j] = Done
    BY <1>1, <1>2
  <2>4. cleanup' = << >>
    BY <1>1, <1>2
  <2> HIDE DEF Done
  <2> QED
    BY <1>1, <1>12, <1>13, <1>15, <2>1, <2>2, <2>3, <2>4 DEF PhaseInv
<1>21. CkptInv'
  BY <1>1, <1>2 DEF CkptInv, NoCkpt
<1>22. \A x, y : Image(x, y)' = Image(x, y)
  BY <1>1, ImageRead DEF disk
<1>23. \A x : Records(x)' = Records(x) /\ Full(x)' = Full(x) /\ Lengths(x)' = Lengths(x)
  BY <1>1 DEF Records, Full, Lengths, disk
<1>24. MarkerInv'
  <2>1. \A x, y : ImageOK(x, y)' = ImageOK(x, y)
    BY <1>1, <1>22 DEF ImageOK, disk
  <2>2. MarkerInv
    BY DEF IInv
  <2> QED
    BY <1>1, <1>3, <1>12, <1>13, <1>19, <1>23, <2>1, <2>2 DEF MarkerInv, disk
<1>25. StageInv'
  <2>1. Last(marker') = db'.manifestFileNum
    BY <1>1, <1>13 DEF disk, n
  <2>2. Image(n, k) = Pair(T, B)
    BY ImageRead, ReadBackMembers DEF T, B
  <2>0. n' = n
    BY <1>1 DEF n, disk
  <2>3. Image(db.manifestFileNum, Records(db.manifestFileNum))' = Pair(T, B)
    <3>1. Image(db.manifestFileNum, Records(db.manifestFileNum))' =
            ReadBack(manifests'[db'.manifestFileNum].recs, Len(manifests'[db'.manifestFileNum].recs))
      BY DEF Image, Records, ReadBack, Pair
    <3>2. Image(n, k) = ReadBack(manifests[n].recs, Len(manifests[n].recs))
      BY ImageRead DEF k, Records
    <3> QED
      BY <1>1, <1>13, <2>2, <3>1, <3>2 DEF disk
  <2>4. Settled' => marker' = <<db'.manifestFileNum>> /\ Full(db.manifestFileNum)'
    <3>1. SUFFICES ASSUME Settled' PROVE marker = <<n>> /\ Full(n)
      BY <1>1, <1>13, <2>0 DEF disk, Full, Records
    <3>2. ~hasLog
      BY <1>1, <3>1 DEF Settled, disk
    <3>3. PICK x \in DOMAIN manifests : marker = <<x>> /\ Full(x)
      BY <3>2 DEF IInv, MarkerInv
    <3>4. Last(marker) = x
      BY <3>3, MarkerOne
    <3> QED
      BY <3>3, <3>4 DEF n
  <2>5. Pair(Current(db'), DOMAIN db'.backings) = Pair(T, B)
    BY <1>1, <1>12
  <2> QED
    BY <1>15, <2>1, <2>3, <2>4, <2>5 DEF StageInv, AtRest, Idle
<1>26. FilesInv'
  <2>1. Refd(db') \subseteq synced'
    BY <1>1, <1>5, <1>12 DEF disk
  <2>2. \A f \in files' \cup DOMAIN manifests' : f > 0 /\ f < db'.nextFileNum
    BY <1>1, <1>7, <1>8, <1>13 DEF disk
  <2>3. Doomed' = {}
    BY <1>1, <1>12, <1>19 DEF Doomed
  <2>4. \A m \in Numbers(Target') : m < db'.nextFileNum
    <3> TAKE m \in Numbers(Target')
    <3>1. m \in Nat /\ m \in Numbers(T)
      BY <1>6, <1>15, TableNumbers
    <3>2. m < Last(manifests[n].recs).next
      BY <1>5, <3>1
    <3>3. Last(manifests[n].recs).next \in Nat
      <4>1. manifests[n].recs[k] \in EditType
        BY <1>4
      <4> QED
        BY <1>4, <4>1 DEF Last, EditType
    <3> QED
      BY <1>1, <1>8, <1>13, <3>1, <3>2, <3>3
  <2> QED
    BY <1>19, <2>1, <2>2, <2>3, <2>4 DEF FilesInv
<1>27. TypeOK'
  <2>1. TypeOK
    BY DEF IInv
  <2> QED
    BY <1>1, <1>11, <2>1 DEF TypeOK, DiskType, disk
<1> QED
  BY <1>10, <1>16, <1>17, <1>18, <1>20, <1>21, <1>24, <1>25, <1>26, <1>27 DEF IInv

\* A step of Open with no edit under way, once nothing is left to flush.
LEMMA OpenStep ==
  ASSUME IInv, Up, Idle, phase # "open", Settled, phase' \in {"created", "open"}, hasLog',
         hasLog' \in BOOLEAN,
         UNCHANGED <<files, manifests, marker, external, io, jobs, ckpt, reader, cleanup>>,
         synced \subseteq synced', synced' \subseteq files,
         DBInv(db', Target, io.zombies), RefsInv(db', jobs), ReadersInv(db', reader),
         db'.readState # 0, db'.nextFileNum = db.nextFileNum,
         db'.manifestFileNum = db.manifestFileNum, db'.backings = db.backings,
         Current(db') = Current(db), Refd(db') \subseteq Refd(db), db'.held = {},
         DOMAIN db'.versions = {db'.current}, db'.disabled = db.disabled,
         DoomedIn(db') \subseteq DoomedIn(db) \cup Refd(db) \cup files,
         \A n \in db'.obsoleteManifests \cup LateManifests(db') : n < db.manifestFileNum
  PROVE  IInv'
<1>1. Idle' /\ Up' /\ Settled' /\ Target' = Target /\ io' = NoIO /\ jobs' = jobs
  BY DEF Idle, Up, Settled, Target, IInv, IoInv
<1>2. \A j \in DOMAIN jobs : jobs[j] = Done
  BY DEF IInv, PhaseInv
<1>3. ckpt = NoCkpt /\ ckpt' = NoCkpt /\ reader' = NoRead
  BY DEF IInv, PhaseInv
<1>4. OwnInv' /\ JobsInv' /\ LockInv'
  <2>1. jobs' \in Seq(JobType) /\ \A j \in DOMAIN jobs' : jobs'[j] = Done
    BY <1>2, IInvFacts
  <2> HIDE DEF Done
  <2> QED
    BY <2>1, NoJobs
<1>5. DBInv(db', Target', io'.zombies) /\ RefsInv(db', jobs') /\ ReadersInv(db', reader')
  BY <1>1
<1>6. BackingsInv'
  BY <1>1 DEF IInv, BackingsInv
<1>7. IoInv'
  BY <1>1 DEF IoInv
<1>8. CleanupTables' = CleanupTables /\ CleanupManifests' = CleanupManifests
  BY DEF CleanupTables, CleanupManifests
<1>9. FilesInv'
  <2>1. /\ Refd(db) \subseteq synced /\ Refd(db) \cap CleanupTables = {}
        /\ \A f \in files \cup DOMAIN manifests : f > 0
        /\ \A f \in files \cup Doomed \cup DOMAIN manifests : f < db.nextFileNum
        /\ \A n \in Numbers(Target) : n < db.nextFileNum
        /\ \A q \in Range(cleanup) : q.tables \cup q.manifests # {}
    BY DEF IInv, FilesInv
  <2>2. synced \subseteq files
    BY DEF IInv, TypeOK, DiskType
  <2>3. Doomed' \subseteq Doomed \cup files
    BY <1>8, <2>1, <2>2 DEF Doomed
  <2> QED
    BY <1>1, <1>8, <2>1, <2>3 DEF FilesInv
<1>10. PhaseInv'
  <2>1. ckpt.pc = "idle" /\ ckpt'.pc = "idle"
    BY <1>3 DEF NoCkpt
  <2>2. db'.disabled = 0
    BY <2>1 DEF IInv, PhaseInv
  <2> HIDE DEF Done
  <2> QED
    BY <1>1, <1>2, <1>3, <2>1, <2>2 DEF PhaseInv
<1>11. \A n, k : Image(n, k)' = Image(n, k)
  BY ImageRead
<1>12. \A n : Records(n)' = Records(n) /\ Full(n)' = Full(n) /\ Lengths(n)' = Lengths(n)
  BY DEF Records, Full, Lengths
<1>13. MarkerInv'
  <2>1. ASSUME NEW n, NEW k, ImageOK(n, k) PROVE ImageOK(n, k)'
    <3>1. Image(n, k)' = Image(n, k) /\ synced \subseteq synced' /\ manifests' = manifests
      BY <1>11
    <3> QED
      BY <2>1, <3>1 DEF ImageOK
  <2>2. /\ \A n \in Range(marker) :
             n \in DOMAIN manifests /\ manifests[n].synced >= 1
               /\ \A k \in Lengths(n) : ImageOK(n, k)
        /\ \A n \in DOMAIN manifests : manifests[n].synced <= Records(n)
        /\ db.manifestFileNum \in DOMAIN manifests
        /\ \A n \in CleanupManifests : n < db.manifestFileNum
    BY DEF IInv, MarkerInv
  <2> QED
    BY <1>8, <1>12, <2>1, <2>2 DEF MarkerInv
<1>14. StageInv'
  <2>1. AtRest(Pair(Current(db), DOMAIN db.backings))
    BY DEF IInv, StageInv
  <2>2. AtRest(Pair(Current(db), DOMAIN db.backings))'
    BY <1>1, <1>11, <1>12, <2>1 DEF AtRest
  <2> QED
    BY <1>1, <2>2 DEF StageInv, Idle
<1>15. CkptInv'
  BY <1>3 DEF CkptInv, NoCkpt
<1>16. TypeOK'
  <2>1. TypeOK /\ db' \in DBType
    BY DEF IInv, DBInv
  <2> QED
    BY <1>1, <2>1 DEF TypeOK, DiskType
<1> QED
  BY <1>4, <1>5, <1>6, <1>7, <1>9, <1>10, <1>13, <1>14, <1>15, <1>16 DEF IInv

LEMMA OpenCreateLogInv == ASSUME IInv, OpenCreateLog PROVE IInv'
<1> DEFINE e == UpdateReadState(db)
<1>1. /\ phase = "flushed" \/ (phase = "loaded" /\ ~hasLog)
      /\ phase' = "created" /\ hasLog' = TRUE /\ db' = e
      /\ UNCHANGED <<files, synced, manifests, marker, external, io, jobs, ckpt, reader, cleanup>>
  BY DEF OpenCreateLog
<1>2. Up /\ Settled /\ phase # "open"
  BY <1>1 DEF Up, Settled
<1>3. Idle
  BY <1>1 DEF IInv, IoInv, PhaseInv, Idle
<1>4. /\ DBInv(e, Target, io.zombies) /\ Releases(db, e, {}) /\ RefsInv(e, jobs)
      /\ ReadersInv(e, reader) /\ e.readState # 0
  BY IInvFacts, UpdateReadStateFacts
<1> HIDE DEF e
<1>5. /\ Lets(db, e, {}) /\ e.disabled = db.disabled /\ e.backings = db.backings
      /\ e.nextFileNum = db.nextFileNum
  BY <1>4 DEF Releases
<1>6. /\ e.manifestFileNum = db.manifestFileNum /\ e.current = db.current /\ e.held = db.held
      /\ DOMAIN e.versions \subseteq DOMAIN db.versions
      /\ DoomedIn(e) \subseteq DoomedIn(db) \cup Refd(db)
      /\ e.obsoleteManifests \cup LateManifests(e) \subseteq
           db.obsoleteManifests \cup LateManifests(db)
  BY <1>5 DEF Lets
<1>7. e.current \in DOMAIN e.versions
  BY <1>4 DEF DBInv
<1>8. Refd(e) \subseteq Refd(db) /\ Current(e) = Current(db)
  BY <1>5, <1>7, LetsFacts
<1>9. DOMAIN e.versions = {e.current} /\ e.held = {}
  <2>1. DOMAIN db.versions = {db.current} /\ db.held = {}
    BY <1>2, <1>3 DEF IInv, PhaseInv, IoInv
  <2> QED
    BY <1>6, <1>7, <2>1
<1>10. \A n \in e.obsoleteManifests \cup LateManifests(e) : n < db.manifestFileNum
  BY <1>2, <1>6 DEF IInv, MarkerInv
<1>11. synced \subseteq files
  BY DEF IInv, TypeOK, DiskType
<1> QED
  BY <1>1, <1>2, <1>3, <1>4, <1>5, <1>6, <1>8, <1>9, <1>10, <1>11, OpenStep

\* The state of versionSet with other lists of obsolete files.
SetObsolete(d, O, M) == [d EXCEPT !.obsolete = O, !.obsoleteManifests = M]

LEMMA SetObsoleteFacts ==
  ASSUME NEW d, NEW T, NEW Z, NEW js, NEW rd, DBInv(d, T, Z),
         NEW O \in SUBSET Nat, NEW M \in SUBSET Nat, O \cap Refd(d) = {}
  PROVE  LET e == SetObsolete(d, O, M)
         IN  /\ DBInv(e, T, Z)
             /\ RefsInv(d, js) => RefsInv(e, js)
             /\ ReadersInv(d, rd) => ReadersInv(e, rd)
             /\ e.backings = d.backings /\ e.disabled = d.disabled
             /\ e.obsolete = O /\ e.obsoleteManifests = M /\ e.late = d.late
             /\ e.manifestFileNum = d.manifestFileNum /\ Refd(e) = Refd(d)
             /\ e.current = d.current /\ e.versions = d.versions /\ e.held = d.held
             /\ e.readState = d.readState /\ e.nextFileNum = d.nextFileNum
<1> DEFINE e == SetObsolete(d, O, M)
<1>1. d \in DBType
  BY DEF DBInv
<1>2. e \in DBType
  BY <1>1 DEF DBType, SetObsolete
<1>3. /\ e.versions = d.versions /\ e.current = d.current /\ e.backings = d.backings
      /\ e.held = d.held /\ e.zombies = d.zombies /\ e.late = d.late
      /\ e.obsolete = O /\ e.panic = d.panic /\ e.readState = d.readState
      /\ e.obsoleteManifests = M
      /\ e.nextFileNum = d.nextFileNum /\ e.manifestFileNum = d.manifestFileNum
      /\ e.disabled = d.disabled /\ e.readStates = d.readStates
  BY <1>1 DEF DBType, SetObsolete
<1> HIDE DEF e
<1>4. /\ Refd(e) = Refd(d) /\ Base(e) = Base(d) /\ Current(e) = Current(d)
      /\ LateTables(e) = LateTables(d)
  BY <1>3 DEF Refd, Base, Current, LateTables
<1>5. DBInv(e, T, Z)
  BY <1>2, <1>3, <1>4 DEF DBInv, DoomedIn
<1>6. /\ RefsInv(d, js) => RefsInv(e, js)
      /\ ReadersInv(d, rd) => ReadersInv(e, rd)
  BY <1>3 DEF RefsInv, ReadersInv, ReadersOf
<1> QED
  BY <1>3, <1>4, <1>5, <1>6 DEF e

LEMMA OpenScanInv == ASSUME IInv, OpenScan PROVE IInv'
<1> DEFINE live == Backings(Current(db)) \cup DOMAIN db.backings
           O == db.obsolete \cup (files \ live)
           N == {n \in DOMAIN manifests : n < db.manifestFileNum}
           M == db.obsoleteManifests \cup N
           d == SetObsolete(db, O, M)
           e == DeleteObsoleteFiles(d)
           T == Target
           Z == io.zombies
<1>1. /\ phase = "created" /\ phase' = "open" /\ marker' = <<Last(marker)>>
      /\ synced' = files /\ db' = e
      /\ UNCHANGED <<files, manifests, external, hasLog, io, jobs, ckpt, reader, cleanup>>
  BY DEF OpenScan, SetObsolete
<1>2. Up /\ Settled /\ phase # "open" /\ Idle
  BY <1>1 DEF Up, Settled, IInv, IoInv, Idle
<1>3. /\ DOMAIN db.versions = {db.current} /\ db.held = {} /\ hasLog /\ db.readState # 0
      /\ hasLog \in BOOLEAN
  BY <1>1, <1>2 DEF IInv, PhaseInv, IoInv, TypeOK, DiskType
<1>4. marker' = marker
  <2>1. marker = <<db.manifestFileNum>>
    BY <1>2 DEF IInv, StageInv, AtRest
  <2> QED
    BY <1>1, <2>1, MarkerOne
<1>5. Refd(db) = live
  BY <1>3 DEF Refd, Current
<1>6. O \in SUBSET Nat /\ M \in SUBSET Nat /\ O \cap Refd(db) = {}
  <2>1. files \subseteq Nat
    BY DEF IInv, TypeOK, DiskType
  <2>2. db.obsolete \subseteq Nat /\ db.obsoleteManifests \subseteq Nat
    BY IInvFacts DEF DBType
  <2>3. N \subseteq Nat
    BY ManifestFacts
  <2>4. Refd(db) \cap DoomedIn(db) = {}
    BY IInvFacts DEF DBInv
  <2> HIDE DEF live, N
  <2> QED
    BY <1>5, <2>1, <2>2, <2>3, <2>4 DEF DoomedIn
<1>7. \A n \in M \cup LateManifests(db) : n < db.manifestFileNum
  <2>1. \A n \in db.obsoleteManifests \cup LateManifests(db) : n < db.manifestFileNum
    BY <1>2 DEF IInv, MarkerInv
  <2> QED
    BY <2>1
<1>8. O \subseteq DoomedIn(db) \cup files
  BY DEF DoomedIn
<1> HIDE DEF live, O, N, M, T, Z
<1>9. /\ DBInv(d, T, Z) /\ RefsInv(d, jobs) /\ ReadersInv(d, reader)
      /\ d.backings = db.backings /\ d.disabled = db.disabled
      /\ d.obsolete = O /\ d.obsoleteManifests = M /\ d.late = db.late
      /\ d.manifestFileNum = db.manifestFileNum /\ Refd(d) = Refd(db)
      /\ d.current = db.current /\ d.versions = db.versions /\ d.held = db.held
      /\ d.readState = db.readState /\ d.nextFileNum = db.nextFileNum
  <2>1. DBInv(db, T, Z) /\ RefsInv(db, jobs) /\ ReadersInv(db, reader)
    BY IInvFacts DEF T, Z
  <2> QED
    BY <1>6, <2>1, SetObsoleteFacts
<1> HIDE DEF d
<1>10. /\ DBInv(e, T, Z) /\ Releases(d, e, {}) /\ RefsInv(e, jobs) /\ ReadersInv(e, reader)
       /\ e.readState = d.readState
  <2>1. d.disabled \in Nat
    BY <1>9, IInvFacts
  <2> QED
    BY <1>9, <2>1, DeleteObsoleteFacts
<1> HIDE DEF e
<1>11. /\ Lets(d, e, {}) /\ e.disabled = db.disabled /\ e.backings = db.backings
       /\ e.nextFileNum = db.nextFileNum
  BY <1>9, <1>10 DEF Releases
<1>12. /\ e.manifestFileNum = db.manifestFileNum /\ e.current = db.current /\ e.held = db.held
       /\ DOMAIN e.versions \subseteq DOMAIN db.versions
       /\ DoomedIn(e) \subseteq DoomedIn(d) \cup Refd(db)
       /\ e.obsoleteManifests \cup LateManifests(e) \subseteq M \cup LateManifests(d)
  BY <1>9, <1>11 DEF Lets
<1>13. DoomedIn(d) = O \cup LateTables(db) /\ LateManifests(d) = LateManifests(db)
  BY <1>9 DEF DoomedIn, LateTables, LateManifests
<1>14. DoomedIn(e) \subseteq DoomedIn(db) \cup Refd(db) \cup files
  BY <1>8, <1>12, <1>13 DEF DoomedIn
<1>15. e.current \in DOMAIN e.versions
  BY <1>10 DEF DBInv
<1>16. Refd(e) \subseteq Refd(db) /\ Current(e) = Current(db)
  <2>1. Refd(e) \subseteq Refd(d) /\ Current(e) = Current(d)
    BY <1>11, <1>15, LetsFacts
  <2>2. Current(d) = Current(db)
    BY <1>9 DEF Current
  <2> QED
    BY <1>9, <2>1, <2>2
<1>17. DOMAIN e.versions = {e.current} /\ e.held = {}
  BY <1>3, <1>12, <1>15
<1>18. \A n \in e.obsoleteManifests \cup LateManifests(e) : n < db.manifestFileNum
  BY <1>7, <1>12, <1>13
<1>19. synced \subseteq files /\ e.readState # 0
  BY <1>3, <1>9, <1>10 DEF IInv, TypeOK, DiskType
<1>20. DBInv(e, Target, io.zombies)
  BY <1>10 DEF T, Z
<1> QED
  BY <1>1, <1>2, <1>3, <1>4, <1>10, <1>11, <1>12, <1>14, <1>16, <1>17, <1>18, <1>19, <1>20, OpenStep

(***************************************************************************)
(* logAndApply without DB.mu.                                              *)
(***************************************************************************)
\* The edit under way, and what it leaves.
LEMMA EditFacts ==
  ASSUME IInv, ~Idle
  PROVE  /\ EditInv /\ hasLog /\ Up /\ db.writing
         /\ io.rotate \in Nat /\ io.prev \in Nat /\ io.edit \in EditType /\ io.snapshot \in EditType
         /\ io.tables \in TableSets /\ Target = io.tables
         /\ Sound(io.tables, DOMAIN db.backings)
         /\ Backings(io.tables) \cup DOMAIN db.backings \subseteq synced
         /\ \A m \in Numbers(io.tables) : m < io.edit.next
         /\ io.prev = db.manifestFileNum /\ io.prev \in DOMAIN manifests
         /\ io.rotate # 0 => io.prev < io.rotate /\ io.rotate < db.nextFileNum
         /\ io.rotate = 0 => Settled
<1>1. EditInv /\ phase \in {"loaded", "open"} /\ db.writing
      /\ (phase = "loaded" => io.rotate # 0)
  BY DEF IInv, IoInv
<1>2. hasLog /\ Up
  BY <1>1 DEF IInv, PhaseInv, Up
<1>3. io \in IOType
  BY IInvFacts
<1>4. Target = io.tables
  BY DEF Target
<1>5. Sound(io.tables, DOMAIN db.backings)
  BY <1>4 DEF IInv, BackingsInv
<1>6. Backings(io.tables) \cup DOMAIN db.backings \subseteq synced
  <2>1. DOMAIN db.backings \subseteq Refd(db)
    BY DEF Refd
  <2> QED
    BY <1>4, <2>1, BaseRefd
<1>7. db.manifestFileNum \in DOMAIN manifests
  BY <1>2 DEF IInv, MarkerInv
<1> QED
  BY <1>1, <1>2, <1>3, <1>4, <1>5, <1>6, <1>7 DEF EditInv, IOType, Settled

\* A step of logAndApply without DB.mu.
LEMMA WriterStep ==
  ASSUME IInv, ~Idle, UNCHANGED <<files, external, hasLog, phase, db, jobs, ckpt, reader, cleanup>>,
         NEW s \in {"sync", "move", "syncdir", "install"}, io' = [io EXCEPT !.stage = s],
         synced \subseteq synced', synced' \subseteq files,
         DOMAIN manifests \subseteq DOMAIN manifests',
         DOMAIN manifests' \subseteq DOMAIN manifests \cup ({io.rotate} \ {0}),
         manifests' \in Maps(Manifest), marker' \in Seq(Nat), marker' # << >>,
         \A n \in DOMAIN manifests :
           /\ Records(n) <= Len(manifests'[n].recs)
           /\ \A i \in 1 .. Records(n) : manifests'[n].recs[i] = manifests[n].recs[i],
         MarkerInv', StageInv'
  PROVE  IInv'
<1>1. /\ io'.stage = s /\ io'.job = io.job /\ io'.edit = io.edit /\ io'.tables = io.tables
      /\ io'.snapshot = io.snapshot /\ io'.rotate = io.rotate /\ io'.zombies = io.zombies
      /\ io'.prev = io.prev /\ io' \in IOType /\ ~Idle'
  BY IInvFacts DEF IOType, Idle
<1>2. Target' = Target /\ Up' = Up /\ Settled' = Settled
  BY <1>1 DEF Target, Up, Settled
<1>3. DBInv(db', Target', io'.zombies) /\ RefsInv(db', jobs') /\ ReadersInv(db', reader')
  BY <1>1, <1>2, IInvFacts
<1>4. BackingsInv'
  BY <1>2 DEF IInv, BackingsInv
<1>5. IoInv'
  <2>1. EditInv
    BY EditFacts
  <2>2. EditInv'
    BY <1>1, <2>1 DEF EditInv
  <2> QED
    BY <1>1, <2>2 DEF IInv, IoInv
<1>6. /\ CleanupTables' = CleanupTables /\ CleanupManifests' = CleanupManifests
      /\ Doomed' = Doomed
  BY DEF CleanupTables, CleanupManifests, Doomed
<1>7. FilesInv'
  <2>1. ASSUME NEW f \in DOMAIN manifests' PROVE f > 0 /\ f < db.nextFileNum
    <3>1. CASE f \in DOMAIN manifests
      BY <3>1, EditFacts DEF IInv, FilesInv
    <3>2. CASE f = io.rotate /\ io.rotate # 0
      <4>1. io.rotate \in Nat /\ io.rotate < db.nextFileNum
        BY <3>2, EditFacts
      <4> QED
        BY <3>2, <4>1
    <3> QED
      BY <2>1, <3>1, <3>2
  <2>2. FilesInv /\ Up
    BY EditFacts DEF IInv
  <2> QED
    BY <1>2, <1>6, <2>1, <2>2 DEF FilesInv
<1>8. OwnInv'
  <2>1. Inputs' = Inputs /\ Taken' = Taken
    BY <1>2, <1>6 DEF Inputs, Taken
  <2>2. OwnInv
    BY DEF IInv
  <2>3. \A j \in DOMAIN jobs :
          Own(jobs[j]) \cap Backings(jobs[j].edit.new) \subseteq
            IF jobs[j].pc = "sync" THEN files' ELSE synced'
    BY <2>2 DEF OwnInv
  <2> QED
    BY <2>1, <2>2, <2>3 DEF OwnInv
<1>9. JobsInv'
  BY <1>2 DEF IInv, JobsInv, Compaction
<1>10. LockInv'
  BY <1>1 DEF IInv, LockInv, Idle
<1>11. PhaseInv'
  <2>1. phase # "down" /\ hasLog
    BY EditFacts DEF Up
  <2> QED
    BY <2>1 DEF IInv, PhaseInv
<1>12. CkptInv'
  <2>1. CASE ckpt.pc # "copy"
    BY <2>1 DEF IInv, CkptInv
  <2>2. CASE ckpt.pc = "copy"
    <3> DEFINE m == ckpt.manifest
               k == ckpt.size
    <3>1. /\ ckpt.need \subseteq files
          /\ ckpt.need \cap (LateTables(db) \cup CleanupTables) = {}
          /\ m \in DOMAIN manifests /\ m \notin LateManifests(db) \cup CleanupManifests
          /\ k <= Records(m) /\ Backings(Image(m, k).tables) \subseteq ckpt.need
      BY <2>2 DEF IInv, CkptInv
    <3>2. k \in Nat /\ Records(m) \in Nat /\ manifests[m].recs \in Seq(EditType)
      BY <3>1, IInvFacts, ManifestFacts DEF CkptType
    <3>3. \A i \in 1 .. k : manifests'[m].recs[i] = manifests[m].recs[i]
      BY <3>1, <3>2
    <3>4. ReadBack(manifests'[m].recs, k) = ReadBack(manifests[m].recs, k)
      <4> DEFINE q == manifests'[m].recs
                 r == manifests[m].recs
      <4>1. \A i \in 1 .. k : q[i] = r[i]
        BY <3>3
      <4> HIDE DEF q, r, k
      <4>2. ReadBack(q, k) = ReadBack(r, k)
        BY <3>2, <4>1, ReadBackPrefix
      <4> QED
        BY <4>2 DEF q, r, k
    <3>5. k <= Len(manifests'[m].recs)
      <4>1. Records(m) <= Len(manifests'[m].recs) /\ Len(manifests'[m].recs) \in Nat
        <5>1. m \in DOMAIN manifests'
          BY <3>1
        <5>2. manifests'[m] \in Manifest
          BY <5>1, MapFacts
        <5>3. manifests'[m].recs \in Seq(EditType)
          BY <5>2 DEF Manifest
        <5> QED
          BY <3>1, <5>3
      <4> QED
        BY <3>1, <3>2, <4>1
    <3>6. Image(m, k) = ReadBack(manifests[m].recs, k)
      BY ImageRead
    <3>7. Backings(ReadBack(manifests'[m].recs, k).tables) \subseteq ckpt.need
      BY <3>1, <3>4, <3>6
    <3>8. Image(ckpt.manifest, ckpt.size)' = ReadBack(manifests'[m].recs, k)
      BY DEF Image, ReadBack, Pair
    <3>9. Records(ckpt.manifest)' = Len(manifests'[m].recs)
      BY DEF Records
    <3>10. m \in DOMAIN manifests'
      BY <3>1
    <3> HIDE DEF m, k
    <3> QED
      BY <1>6, <2>2, <3>1, <3>5, <3>7, <3>8, <3>9, <3>10 DEF CkptInv, m, k
  <2> QED
    BY <2>1, <2>2
<1>13. TypeOK'
  <2>1. TypeOK
    BY DEF IInv
  <2>2. IsFiniteSet(DOMAIN manifests')
    <3>1. IsFiniteSet(DOMAIN manifests)
      BY <2>1 DEF TypeOK, DiskType
    <3>2. IsFiniteSet({io.rotate} \ {0})
      <4>1. IsFiniteSet({io.rotate})
        BY FS_Singleton
      <4> QED
        BY <4>1, FS_Subset
    <3>3. IsFiniteSet(DOMAIN manifests \cup ({io.rotate} \ {0}))
      BY <3>1, <3>2, FS_Union
    <3> QED
      BY <3>3, FS_Subset
  <2> QED
    BY <1>1, <2>1, <2>2 DEF TypeOK, DiskType
<1> QED
  BY <1>3, <1>4, <1>5, <1>7, <1>8, <1>9, <1>10, <1>11, <1>12, <1>13 DEF IInv

\* An image stays good when the records it is read from stay.
LEMMA ImageKept ==
  ASSUME NEW n, NEW k \in Nat, k >= 1, synced \subseteq synced',
         \A i \in 1 .. k : manifests'[n].recs[i] = manifests[n].recs[i]
  PROVE  ImageOK(n, k) => ImageOK(n, k)'
<1> DEFINE q == manifests'[n].recs
           r == manifests[n].recs
<1>1. \A i \in 1 .. k : q[i] = r[i]
  OBVIOUS
<1>2. Image(n, k)' = ReadBack(q, k) /\ Image(n, k) = ReadBack(r, k)
  BY ImageRead
<1>3. q[k] = r[k]
  OBVIOUS
<1> HIDE DEF q, r
<1>4. ReadBack(q, k) = ReadBack(r, k)
  BY <1>1, ReadBackPrefix
<1> QED
  BY <1>2, <1>3, <1>4 DEF ImageOK, q, r

\* A record more, in the open manifest.
LEMMA WriteRecordInv ==
  ASSUME IInv, WriteManifest, io.rotate = 0 PROVE IInv'
<1> DEFINE p == io.prev
           e == io.edit
           K == Records(p)
           m == manifests[p]
<1>1. /\ io.stage = "write" /\ io' = [io EXCEPT !.stage = "sync"]
      /\ manifests' = [manifests EXCEPT ![p].recs = Append(m.recs, e)]
      /\ UNCHANGED <<files, synced, marker, external, hasLog, phase, db, jobs, ckpt,
                     reader, cleanup>>
  BY DEF WriteManifest, Stage
<1>2. ~Idle
  BY <1>1 DEF Idle
<1>3. /\ EditInv /\ hasLog /\ Up /\ e \in EditType
      /\ Sound(io.tables, DOMAIN db.backings)
      /\ Backings(io.tables) \cup DOMAIN db.backings \subseteq synced
      /\ \A x \in Numbers(io.tables) : x < e.next
      /\ p = db.manifestFileNum /\ p \in DOMAIN manifests /\ Settled
  BY <1>2, EditFacts
<1>4. /\ p \in Nat /\ m.recs \in Seq(EditType) /\ K \in Nat /\ K = Len(m.recs)
      /\ m.synced \in Nat
  BY <1>3, ManifestFacts DEF Records
<1>5. /\ marker = <<p>> /\ m.synced = K /\ Image(p, K) = Before
  BY <1>1, <1>3 DEF IInv, StageInv, AtRest, Full
<1>6. K >= 1
  <2>1. p \in Range(marker)
    BY <1>5, MarkerOne
  <2> QED
    BY <1>5, <2>1 DEF IInv, MarkerInv
<1>7. manifests \in Maps(Manifest) /\ m \in Manifest
  <2>1. manifests \in Maps(Manifest)
    BY DEF IInv, TypeOK, DiskType
  <2> QED
    BY <1>3, <2>1, MapFacts
<1> DEFINE r == Append(m.recs, e)
<1>8. /\ r \in Seq(EditType) /\ Len(r) = K + 1 /\ r[K + 1] = e
      /\ \A i \in 1 .. K : r[i] = m.recs[i]
  BY <1>3, <1>4
<1>9. /\ DOMAIN manifests' = DOMAIN manifests /\ manifests'[p].recs = r
      /\ manifests'[p].synced = K
      /\ \A n \in DOMAIN manifests \ {p} : manifests'[n] = manifests[n]
      /\ manifests' \in Maps(Manifest)
  <2>1. /\ DOMAIN manifests' = DOMAIN manifests
        /\ \A n \in DOMAIN manifests \ {p} : manifests'[n] = manifests[n]
        /\ manifests'[p] = [m EXCEPT !.recs = r]
    BY <1>1, <1>3
  <2>2. [m EXCEPT !.recs = r] \in Manifest /\ [m EXCEPT !.recs = r].recs = r
        /\ [m EXCEPT !.recs = r].synced = m.synced
    BY <1>7, <1>8 DEF Manifest
  <2>3. \A n \in DOMAIN manifests : manifests[n] \in Manifest
    BY <1>7, MapFacts
  <2>4. DOMAIN manifests' \subseteq Nat /\ manifests' \in [DOMAIN manifests' -> Manifest]
    <3>1. \A n \in DOMAIN manifests' : manifests'[n] \in Manifest
      BY <2>1, <2>2, <2>3
    <3>2. manifests' = [n \in DOMAIN manifests' |-> manifests'[n]]
      BY <1>1
    <3>3. DOMAIN manifests \subseteq Nat
      BY ManifestFacts
    <3> QED
      BY <2>1, <3>1, <3>2, <3>3
  <2>5. manifests' \in Maps(Manifest)
    BY <2>4, MapFacts
  <2> QED
    BY <1>5, <2>1, <2>2, <2>5
<1>10. ReadBack(m.recs, K) = Before
  BY <1>5, ImageRead
<1>11. ReadBack(r, K) = Before /\ ReadBack(r, K + 1) = After
  <2> DEFINE q == m.recs
  <2>1. \A i \in 1 .. K : r[i] = q[i]
    BY <1>8
  <2> HIDE DEF r, q, K
  <2>2. ReadBack(r, K) = ReadBack(q, K)
    BY <1>4, <2>1, ReadBackPrefix
  <2>3. ReadBack(r, K) = Before
    BY <1>10, <2>2 DEF q
  <2>4. ReadBack(r, K + 1) = Pair((Before.tables \ e.del) \cup e.new,
                                  (Before.backings \ e.removed) \cup e.created)
    <3>1. LET i == ReadBack(r, K)
              x == r[K + 1]
          IN  ReadBack(r, K + 1) = Pair((i.tables \ x.del) \cup x.new,
                                        (i.backings \ x.removed) \cup x.created)
      BY <1>4, ReadBackLast
    <3>2. r[K + 1] = e
      BY <1>8
    <3> HIDE DEF e
    <3> QED
      BY <2>3, <3>1, <3>2
  <2>5. Before.tables = Current(db) /\ Before.backings = io.snapshot.created
    BY <1>3, PairEqual DEF Before, EditInv
  <2>6. /\ io.tables = (Current(db) \ e.del) \cup e.new
        /\ DOMAIN db.backings = (io.snapshot.created \cup e.created) \ e.removed
        /\ e.created \cap e.removed = {}
    BY <1>3 DEF EditInv
  <2>7. (io.snapshot.created \ e.removed) \cup e.created = DOMAIN db.backings
    BY <2>6
  <2> QED
    BY <2>3, <2>4, <2>5, <2>6, <2>7 DEF After
<1>12. Pair(io.tables, DOMAIN db.backings) = After
  BY DEF After
<1>13. ASSUME NEW n \in Range(marker), NEW k \in Lengths(n)' PROVE ImageOK(n, k)'
  <2>1. n = p
    BY <1>5, MarkerOne
  <2>2. k \in K .. K + 1
    BY <1>8, <1>9, <2>1 DEF Lengths
  <2>3. CASE k = K
    <3>1. ImageOK(n, k)
      <4>1. k \in Lengths(n)
        BY <1>4, <1>5, <2>1, <2>3 DEF Lengths
      <4> QED
        BY <4>1 DEF IInv, MarkerInv
    <3>2. \A i \in 1 .. k : manifests'[n].recs[i] = manifests[n].recs[i]
      BY <1>8, <1>9, <2>1, <2>3
    <3>3. k \in Nat /\ k >= 1 /\ synced \subseteq synced'
      BY <1>1, <1>4, <1>6, <2>3
    <3> QED
      BY <3>1, <3>2, <3>3, ImageKept
  <2>4. CASE k = K + 1
    <3>1. Image(n, k)' = After
      BY <1>9, <1>11, <2>1, <2>4, ImageRead
    <3>2. After.tables = io.tables /\ After.backings = DOMAIN db.backings
      BY <1>12, PairEqual
    <3>3. manifests'[n].recs[k].next = e.next
      BY <1>8, <1>9, <2>1, <2>4
    <3> QED
      BY <1>1, <1>3, <3>1, <3>2, <3>3 DEF ImageOK
  <2> QED
    BY <1>4, <2>2, <2>3, <2>4
<1>14. MarkerInv'
  <2>1. \A n \in Range(marker') : n \in DOMAIN manifests' /\ manifests'[n].synced >= 1
    BY <1>1, <1>3, <1>5, <1>6, <1>9, MarkerOne
  <2>2. \A n \in DOMAIN manifests' : manifests'[n].synced <= Len(manifests'[n].recs)
    <3> TAKE n \in DOMAIN manifests'
    <3>1. CASE n = p
      BY <1>4, <1>8, <1>9, <3>1
    <3>2. CASE n # p
      BY <1>9, <3>2 DEF IInv, MarkerInv, Records
    <3> QED
      BY <3>1, <3>2
  <2>3. CleanupManifests' = CleanupManifests /\ MarkerInv
    BY <1>1 DEF CleanupManifests, IInv
  <2>4. \A n \in Range(marker') : \A k \in Lengths(n)' : ImageOK(n, k)'
    BY <1>1, <1>13
  <2> QED
    BY <1>1, <1>3, <1>9, <2>1, <2>2, <2>3, <2>4 DEF MarkerInv, Records, Up
<1>15. /\ io'.stage = "sync" /\ io'.rotate = io.rotate /\ io'.prev = io.prev
       /\ io'.tables = io.tables /\ io'.snapshot = io.snapshot
  BY <1>1, IInvFacts DEF IOType
<1>16. StageInv'
  <2>1. Before' = Before /\ After' = After /\ ~Idle'
    BY <1>1, <1>15 DEF Before, After, Idle
  <2>2. Records(io.prev)' = K + 1
    BY <1>8, <1>9, <1>15 DEF Records

  <2>4. Image(io.prev, Records(io.prev) - 1)' = Before
    <3>1. Image(io.prev, Records(io.prev) - 1)' =
            ReadBack(manifests'[io'.prev].recs, Len(manifests'[io'.prev].recs) - 1)
      BY DEF Image, Records, ReadBack, Pair
    <3>2. manifests'[io'.prev].recs = r /\ Len(r) - 1 = K
      BY <1>4, <1>8, <1>9, <1>15
    <3> QED
      BY <1>11, <3>1, <3>2
  <2>5. Image(io.prev, Records(io.prev))' = After
    <3>1. Image(io.prev, Records(io.prev))' =
            ReadBack(manifests'[io'.prev].recs, Len(manifests'[io'.prev].recs))
      BY DEF Image, Records, ReadBack, Pair
    <3>2. manifests'[io'.prev].recs = r /\ Len(r) = K + 1
      BY <1>8, <1>9, <1>15
    <3> QED
      BY <1>11, <3>1, <3>2
  <2>6. marker' = <<io'.prev>> /\ manifests'[io'.prev].synced = Records(io.prev)' - 1
    BY <1>1, <1>4, <1>5, <1>9, <1>15, <2>2
  <2> QED
    BY <1>15, <2>1, <2>4, <2>5, <2>6 DEF StageInv
<1>17. \A n \in DOMAIN manifests :
         /\ Records(n) <= Len(manifests'[n].recs)
         /\ \A i \in 1 .. Records(n) : manifests'[n].recs[i] = manifests[n].recs[i]
  <2> TAKE n \in DOMAIN manifests
  <2>1. CASE n = p
    BY <1>4, <1>8, <1>9, <2>1
  <2>2. CASE n # p
    BY <1>9, <2>2, ManifestFacts DEF Records
  <2> QED
    BY <2>1, <2>2
<1>18. synced \subseteq files /\ marker \in Seq(Nat) /\ marker # << >>
  BY DEF IInv, TypeOK, DiskType
<1> HIDE DEF r, p, e, K, m
<1>19. DOMAIN manifests \subseteq DOMAIN manifests'
       /\ DOMAIN manifests' \subseteq DOMAIN manifests \cup ({io.rotate} \ {0})
       /\ manifests' \in Maps(Manifest)
  BY <1>9
<1>20. /\ synced \subseteq synced' /\ synced' \subseteq files /\ marker' \in Seq(Nat)
       /\ marker' # << >> /\ "sync" \in {"sync", "move", "syncdir", "install"}
       /\ UNCHANGED <<files, external, hasLog, phase, db, jobs, ckpt, reader, cleanup>>
  BY <1>1, <1>18
<1>21. io' = [io EXCEPT !.stage = "sync"]
  BY <1>1
<1> QED
  BY <1>2, <1>14, <1>16, <1>17, <1>19, <1>20, <1>21, WriterStep

\* The stage, and the rest of the edit under way.
LEMMA StageFacts ==
  ASSUME IInv, NEW s, io' = [io EXCEPT !.stage = s]
  PROVE  /\ io'.stage = s /\ io'.rotate = io.rotate /\ io'.prev = io.prev
         /\ io'.tables = io.tables /\ io'.snapshot = io.snapshot /\ io'.edit = io.edit
         /\ UNCHANGED db => Before' = Before /\ After' = After
         /\ Writing' = Writing
<1>1. /\ io'.stage = s /\ io'.rotate = io.rotate /\ io'.prev = io.prev
      /\ io'.tables = io.tables /\ io'.snapshot = io.snapshot /\ io'.edit = io.edit
  BY IInvFacts DEF IOType
<1> QED
  BY <1>1 DEF Before, After, Writing

LEMMA OpenRead ==
  LET n == db.manifestFileNum
      r == manifests[n].recs
  IN  /\ Image(n, Records(n)) = ReadBack(r, Len(r))
      /\ Image(n, Records(n))' = ReadBack(r', Len(r'))
BY DEF Image, Records, ReadBack, Pair

\* A new manifest, with the snapshot and the edit.
LEMMA WriteNewInv ==
  ASSUME IInv, WriteManifest, io.rotate # 0 PROVE IInv'
<1> DEFINE n == io.rotate
           p == io.prev
           r == <<io.snapshot, io.edit>>
           m == [recs |-> r, synced |-> 0]
<1>1. /\ io.stage = "write" /\ io' = [io EXCEPT !.stage = "sync"]
      /\ manifests' = With(manifests, n, m)
      /\ UNCHANGED <<files, synced, marker, external, hasLog, phase, db, jobs, ckpt,
                     reader, cleanup>>
  BY DEF WriteManifest, Stage
<1>2. ~Idle
  BY <1>1 DEF Idle
<1>3. /\ hasLog /\ Up /\ io.edit \in EditType /\ io.snapshot \in EditType
      /\ p = db.manifestFileNum /\ p \in DOMAIN manifests /\ n \in Nat /\ p < n /\ n # p
  <2>1. p \in Nat
    BY <1>2, EditFacts
  <2> QED
    BY <1>2, <2>1, EditFacts
<1>4. AtRest(Before) /\ n \notin DOMAIN manifests
  BY <1>1 DEF IInv, StageInv
<1>5. Range(marker) \subseteq DOMAIN manifests
  BY ManifestFacts
<1>6. /\ DOMAIN manifests' = DOMAIN manifests \cup {n} /\ manifests'[n] = m
      /\ \A x \in DOMAIN manifests : manifests'[x] = manifests[x]
  BY <1>1, <1>4 DEF With
<1>7. manifests' \in Maps(Manifest)
  <2>1. manifests \in Maps(Manifest)
    BY DEF IInv, TypeOK, DiskType
  <2>2. m \in Manifest
    BY <1>3 DEF Manifest
  <2> HIDE DEF m, n
  <2> QED
    BY <1>1, <1>3, <2>1, <2>2, MapParts
<1>8. \A x \in DOMAIN manifests : \A k : ImageOK(x, k)' = ImageOK(x, k)
  <2> TAKE x \in DOMAIN manifests
  <2> TAKE k
  <2>1. Image(x, k)' = Image(x, k)
    BY <1>6, ImageRead
  <2> QED
    BY <1>1, <1>6, <2>1 DEF ImageOK
<1>9. \A x \in DOMAIN manifests :
        Records(x)' = Records(x) /\ Full(x)' = Full(x) /\ Lengths(x)' = Lengths(x)
  BY <1>6 DEF Records, Full, Lengths
<1>10. MarkerInv'
  <2>1. MarkerInv
    BY DEF IInv
  <2>2. CleanupManifests' = CleanupManifests
    BY <1>1 DEF CleanupManifests
  <2>3. \A x \in DOMAIN manifests' : manifests'[x].synced <= Records(x)'
    <3> TAKE x \in DOMAIN manifests'
    <3>1. CASE x = n
      <4>1. manifests'[x].synced = 0 /\ manifests'[x].recs = r /\ Len(r) = 2
        BY <1>6, <3>1
      <4> QED
        BY <4>1 DEF Records
    <3>2. CASE x # n
      BY <1>6, <1>9, <2>1, <3>2 DEF MarkerInv
    <3> QED
      BY <3>1, <3>2
  <2>4. \A x \in Range(marker) :
          x \in DOMAIN manifests' /\ manifests'[x].synced >= 1
            /\ \A k \in Lengths(x)' : ImageOK(x, k)'
    BY <1>5, <1>6, <1>8, <1>9, <2>1 DEF MarkerInv
  <2> HIDE DEF m, n, r
  <2> QED
    BY <1>1, <1>3, <1>6, <2>1, <2>2, <2>3, <2>4 DEF MarkerInv, Up
<1>11. /\ io'.stage = "sync" /\ io'.rotate = io.rotate /\ io'.prev = io.prev
       /\ io'.tables = io.tables /\ io'.snapshot = io.snapshot /\ io'.edit = io.edit
       /\ Before' = Before /\ After' = After
  BY <1>1, StageFacts
<1>12. StageInv'
  <2>1. NewManifest(0)'
    BY <1>6, <1>11 DEF NewManifest
  <2>2. AtRest(Before)'
    <3>1. Image(db.manifestFileNum, Records(db.manifestFileNum))' =
            Image(db.manifestFileNum, Records(db.manifestFileNum))
      BY <1>1, <1>3, <1>6, OpenRead
    <3>2. Full(db.manifestFileNum)' = Full(db.manifestFileNum)
      BY <1>1, <1>3, <1>6 DEF Full, Records
    <3>3. Settled' = Settled
      BY <1>1 DEF Settled
    <3> HIDE DEF n, m, r
    <3> QED
      BY <1>1, <1>4, <1>11, <3>1, <3>2, <3>3 DEF AtRest
  <2>3. n \notin Range(marker')
    BY <1>1, <1>4, <1>5
  <2> QED
    BY <1>11, <2>1, <2>2, <2>3 DEF StageInv, Idle
<1>13. \A x \in DOMAIN manifests :
         /\ Records(x) <= Len(manifests'[x].recs)
         /\ \A i \in 1 .. Records(x) : manifests'[x].recs[i] = manifests[x].recs[i]
  BY <1>6, ManifestFacts DEF Records
<1>14. synced \subseteq files /\ marker \in Seq(Nat) /\ marker # << >>
  BY DEF IInv, TypeOK, DiskType
<1> HIDE DEF r, p, m
<1>15. DOMAIN manifests \subseteq DOMAIN manifests'
       /\ DOMAIN manifests' \subseteq DOMAIN manifests \cup ({io.rotate} \ {0})
  BY <1>6
<1>16. /\ synced \subseteq synced' /\ synced' \subseteq files /\ marker' \in Seq(Nat)
       /\ marker' # << >> /\ "sync" \in {"sync", "move", "syncdir", "install"}
       /\ UNCHANGED <<files, external, hasLog, phase, db, jobs, ckpt, reader, cleanup>>
       /\ io' = [io EXCEPT !.stage = "sync"]
  BY <1>1, <1>14
<1> QED
  BY <1>2, <1>7, <1>10, <1>12, <1>13, <1>15, <1>16, WriterStep

LEMMA WriteManifestInv == ASSUME IInv, WriteManifest PROVE IInv'
BY WriteRecordInv, WriteNewInv

LEMMA SyncManifestInv == ASSUME IInv, SyncManifest PROVE IInv'
<1> DEFINE w == Writing
           m == manifests[w]
           s == IF io.rotate # 0 THEN "move" ELSE "install"
<1>1. /\ io.stage = "sync" /\ io' = [io EXCEPT !.stage = s]
      /\ manifests' = [manifests EXCEPT ![w].synced = Len(m.recs)]
      /\ UNCHANGED <<files, synced, marker, external, hasLog, phase, db, jobs, ckpt,
                     reader, cleanup>>
  BY DEF SyncManifest, Stage
<1>2. ~Idle
  BY <1>1 DEF Idle
<1>3. /\ hasLog /\ Up /\ EditInv
      /\ io.prev = db.manifestFileNum /\ io.prev \in DOMAIN manifests
      /\ io.rotate # 0 => io.prev < io.rotate
      /\ io.prev \in Nat
  BY <1>2, EditFacts
<1>4. w \in DOMAIN manifests
  <2>1. CASE io.rotate # 0
    BY <1>1, <2>1 DEF IInv, StageInv, NewManifest, Writing
  <2>2. CASE io.rotate = 0
    BY <1>3, <2>2 DEF Writing
  <2> QED
    BY <2>1, <2>2
<1>5. manifests \in Maps(Manifest) /\ \A x \in DOMAIN manifests : manifests[x] \in Manifest
  <2>1. manifests \in Maps(Manifest)
    BY DEF IInv, TypeOK, DiskType
  <2> QED
    BY <2>1, MapFacts
<1>6. m.recs \in Seq(EditType) /\ Len(m.recs) \in Nat /\ m.synced \in Nat
  BY <1>4, <1>5 DEF Manifest
<1>7. /\ DOMAIN manifests' = DOMAIN manifests
      /\ manifests'[w] = [recs |-> m.recs, synced |-> Len(m.recs)]
      /\ \A x \in DOMAIN manifests \ {w} : manifests'[x] = manifests[x]
      /\ \A x \in DOMAIN manifests : manifests'[x].recs = manifests[x].recs
  <2>1. /\ DOMAIN manifests' = DOMAIN manifests
        /\ manifests'[w] = [m EXCEPT !.synced = Len(m.recs)]
        /\ \A x \in DOMAIN manifests \ {w} : manifests'[x] = manifests[x]
    BY <1>1, <1>4
  <2>2. [m EXCEPT !.synced = Len(m.recs)] = [recs |-> m.recs, synced |-> Len(m.recs)]
    BY <1>4, <1>5 DEF Manifest
  <2> QED
    BY <2>1, <2>2
<1>8. manifests' \in Maps(Manifest)
  <2>1. \A x \in DOMAIN manifests' : manifests'[x] \in Manifest
    <3>1. [recs |-> m.recs, synced |-> Len(m.recs)] \in Manifest
      BY <1>6 DEF Manifest
    <3> QED
      BY <1>5, <1>7, <3>1
  <2>2. manifests' = [x \in DOMAIN manifests' |-> manifests'[x]]
    BY <1>1
  <2>3. DOMAIN manifests' \subseteq Nat
    BY <1>7, ManifestFacts
  <2>4. manifests' \in [DOMAIN manifests' -> Manifest]
    BY <2>1, <2>2
  <2> QED
    BY <2>3, <2>4, MapFacts
<1>9. \A x \in DOMAIN manifests : \A k : Image(x, k)' = Image(x, k)
  BY <1>7, ImageRead
<1>10. \A x \in DOMAIN manifests :
         /\ Records(x)' = Records(x)
         /\ x # w => Full(x)' = Full(x) /\ Lengths(x)' = Lengths(x)
  BY <1>7 DEF Records, Full, Lengths
<1>11. \A x \in DOMAIN manifests : \A k : ImageOK(x, k)' = ImageOK(x, k)
  BY <1>1, <1>7, <1>9 DEF ImageOK
<1>12. /\ Range(marker) \subseteq DOMAIN manifests
       /\ \A x \in DOMAIN manifests : manifests[x].synced <= Records(x)
  BY ManifestFacts
<1>13. \A x \in DOMAIN manifests :
         /\ manifests[x].synced <= manifests'[x].synced
         /\ manifests'[x].synced <= Len(manifests'[x].recs)
         /\ Len(manifests'[x].recs) = Len(manifests[x].recs)
  <2> TAKE x \in DOMAIN manifests
  <2>1. CASE x = w
    BY <1>6, <1>7, <1>12, <2>1 DEF Records
  <2>2. CASE x # w
    <3>1. manifests'[x] = manifests[x] /\ manifests[x].synced \in Nat
      BY <1>7, <2>2, ManifestFacts
    <3> QED
      BY <1>12, <3>1 DEF Records
  <2> QED
    BY <2>1, <2>2
<1>14. MarkerInv'
  <2>1. MarkerInv
    BY DEF IInv
  <2>2. CleanupManifests' = CleanupManifests
    BY <1>1 DEF CleanupManifests
  <2>3. \A x \in DOMAIN manifests' : manifests'[x].synced <= Records(x)'
    BY <1>7, <1>13 DEF Records
  <2>4. \A x \in Range(marker) : \A k \in Lengths(x)' : k \in Lengths(x)
    <3> TAKE x \in Range(marker)
    <3> TAKE k \in Lengths(x)'
    <3>1. /\ x \in DOMAIN manifests /\ manifests[x].synced \in Nat
          /\ k \in manifests'[x].synced .. Len(manifests'[x].recs)
      BY <1>12, ManifestFacts DEF Lengths
    <3>2. /\ manifests[x].synced <= manifests'[x].synced
          /\ Len(manifests'[x].recs) = Len(manifests[x].recs)
          /\ manifests'[x].synced \in Nat /\ Len(manifests[x].recs) \in Nat
      <4>1. manifests'[x] \in Manifest /\ manifests[x] \in Manifest
        BY <1>5, <1>7, <1>8, <3>1, MapFacts
      <4> QED
        BY <1>13, <3>1, <4>1 DEF Manifest
    <3> QED
      BY <3>1, <3>2 DEF Lengths
  <2>5. \A x \in Range(marker) :
          x \in DOMAIN manifests' /\ manifests'[x].synced >= 1
            /\ \A k \in Lengths(x)' : ImageOK(x, k)'
    <3> TAKE x \in Range(marker)
    <3>1. x \in DOMAIN manifests /\ manifests[x].synced >= 1 /\ \A k \in Lengths(x) : ImageOK(x, k)
      BY <2>1 DEF MarkerInv
    <3>2. manifests[x].synced <= manifests'[x].synced
      BY <1>13, <3>1
    <3>3. manifests[x].synced \in Nat /\ manifests'[x].synced \in Nat
      <4>1. manifests'[x] \in Manifest /\ manifests[x] \in Manifest
        BY <1>5, <1>7, <1>8, <3>1, MapFacts
      <4> QED
        BY <4>1 DEF Manifest
    <3>4. manifests'[x].synced >= 1
      BY <3>1, <3>2, <3>3
    <3> QED
      BY <1>7, <1>11, <2>4, <3>1, <3>4
  <2> HIDE DEF m, w
  <2> QED
    BY <1>1, <1>3, <1>7, <2>1, <2>2, <2>3, <2>5 DEF MarkerInv, Up
<1>15. /\ io'.stage = s /\ io'.rotate = io.rotate /\ io'.prev = io.prev
       /\ io'.tables = io.tables /\ io'.snapshot = io.snapshot /\ io'.edit = io.edit
       /\ Before' = Before /\ After' = After /\ Writing' = w
  <2> HIDE DEF s, m
  <2> QED
    BY <1>1, StageFacts
<1>16. StageInv'
  <2>1. CASE io.rotate # 0
    <3>1. AtRest(Before) /\ NewManifest(0) /\ w = io.rotate /\ s = "move"
      BY <1>1, <2>1 DEF IInv, StageInv, Writing
    <3>2. m.recs = <<io.snapshot, io.edit>>
      BY <3>1 DEF NewManifest
    <3>3. NewManifest(2)'
      <4>1. Len(m.recs) = 2
        BY <3>2
      <4> QED
        BY <1>7, <1>15, <3>1, <3>2, <4>1 DEF NewManifest
    <3>4. AtRest(Before)'
      <4>1. db.manifestFileNum # w /\ db.manifestFileNum \in DOMAIN manifests
        BY <1>3, <2>1, <3>1
      <4>2. manifests'[db.manifestFileNum] = manifests[db.manifestFileNum]
        BY <1>7, <4>1
      <4>3. Image(db.manifestFileNum, Records(db.manifestFileNum))' =
              Image(db.manifestFileNum, Records(db.manifestFileNum))
        BY <1>1, <4>2, OpenRead
      <4>4. Full(db.manifestFileNum)' = Full(db.manifestFileNum)
        BY <1>1, <4>2 DEF Full, Records
      <4>5. Settled' = Settled
        BY <1>1 DEF Settled
      <4> HIDE DEF w, m
      <4> QED
        BY <1>1, <1>15, <3>1, <4>3, <4>4, <4>5 DEF AtRest
    <3> QED
      BY <1>15, <2>1, <3>1, <3>3, <3>4 DEF StageInv, Idle
  <2>2. CASE io.rotate = 0
    <3>1. /\ marker = <<io.prev>> /\ Image(io.prev, Records(io.prev)) = After
          /\ w = io.prev /\ s = "install"
      BY <1>1, <2>2 DEF IInv, StageInv, Writing
    <3>2. Image(Writing, Records(Writing))' = After
      <4>1. Image(Writing, Records(Writing))' =
              ReadBack(manifests'[Writing'].recs, Len(manifests'[Writing'].recs))
        BY DEF Image, Records, ReadBack, Pair
      <4>2. Image(io.prev, Records(io.prev)) =
              ReadBack(manifests[io.prev].recs, Len(manifests[io.prev].recs))
        BY DEF Image, Records, ReadBack, Pair
      <4> QED
        BY <1>7, <1>15, <3>1, <4>1, <4>2
    <3>3. Full(Writing)'
      BY <1>7, <1>15 DEF Full, Records
    <3> QED
      BY <1>1, <1>15, <3>1, <3>2, <3>3 DEF StageInv, Idle
  <2> QED
    BY <2>1, <2>2
<1>17. \A x \in DOMAIN manifests :
         /\ Records(x) <= Len(manifests'[x].recs)
         /\ \A i \in 1 .. Records(x) : manifests'[x].recs[i] = manifests[x].recs[i]
  BY <1>7, ManifestFacts DEF Records
<1>18. /\ synced \subseteq synced' /\ synced' \subseteq files /\ marker' \in Seq(Nat)
       /\ marker' # << >> /\ s \in {"sync", "move", "syncdir", "install"}
       /\ DOMAIN manifests \subseteq DOMAIN manifests'
       /\ DOMAIN manifests' \subseteq DOMAIN manifests \cup ({io.rotate} \ {0})
  BY <1>1, <1>7 DEF IInv, TypeOK, DiskType
<1>19. /\ UNCHANGED <<files, external, hasLog, phase, db, jobs, ckpt, reader, cleanup>>
       /\ io' = [io EXCEPT !.stage = s]
  BY <1>1
<1> HIDE DEF w, m, s
<1> QED
  BY <1>2, <1>8, <1>14, <1>16, <1>17, <1>18, <1>19, WriterStep

\* A sequence of one element with one more.
LEMMA AppendOne ==
  ASSUME NEW x \in Nat, NEW y \in Nat
  PROVE  Append(<<x>>, y) = <<x, y>>
<1> DEFINE s == Append(<<x>>, y)
           t == <<x, y>>
<1>1. <<x>> \in Seq(Nat) /\ Len(<<x>>) = 1
  OBVIOUS
<1>2. s \in Seq(Nat) /\ Len(s) = 2 /\ s[1] = x /\ s[2] = y
  BY <1>1
<1>3. t \in Seq(Nat) /\ Len(t) = 2 /\ t[1] = x /\ t[2] = y
  OBVIOUS
<1> HIDE DEF s, t
<1>4. \A i \in 1 .. Len(s) : s[i] = t[i]
  BY <1>2, <1>3
<1>5. s = t
  BY <1>2, <1>3, <1>4, SeqEqual
<1> QED
  BY <1>5 DEF s, t

LEMMA MoveMarkerInv == ASSUME IInv, MoveMarker PROVE IInv'
<1> DEFINE n == io.rotate
           p == io.prev
<1>1. /\ io.stage = "move" /\ io' = [io EXCEPT !.stage = "syncdir"]
      /\ marker' = Append(marker, n)
      /\ UNCHANGED <<files, synced, manifests, external, hasLog, phase, db, jobs, ckpt,
                     reader, cleanup>>
  BY DEF MoveMarker, Stage
<1>2. ~Idle
  BY <1>1 DEF Idle
<1>3. /\ hasLog /\ Up /\ EditInv /\ n \in Nat /\ p = db.manifestFileNum
      /\ Sound(io.tables, DOMAIN db.backings)
      /\ Backings(io.tables) \cup DOMAIN db.backings \subseteq synced
      /\ \A x \in Numbers(io.tables) : x < io.edit.next
  BY <1>2, EditFacts
<1>4. n # 0 /\ AtRest(Before) /\ NewManifest(2)
  BY <1>1 DEF IInv, StageInv
<1>5. /\ n \in DOMAIN manifests /\ manifests[n].synced = 2
      /\ manifests[n].recs = <<io.snapshot, io.edit>>
      /\ Records(n) = 2 /\ Image(n, 2) = After
  <2>1. NewManifest(2) => Records(io.rotate) = 2 /\ Image(io.rotate, 2) = After
    BY <1>3, NewManifestRead
  <2> QED
    BY <1>4, <2>1 DEF NewManifest
<1>6. marker \in Seq(Nat) /\ marker # << >>
  BY ManifestFacts
<1>7. marker' \in Seq(Nat) /\ marker' # << >> /\ Last(marker') = n
      /\ Range(marker') = Range(marker) \cup {n}
  <2>1. /\ marker' \in Seq(Nat) /\ Len(marker') = Len(marker) + 1 /\ marker'[Len(marker) + 1] = n
        /\ \A i \in 1 .. Len(marker) : marker'[i] = marker[i]
        /\ Len(marker) \in Nat /\ DOMAIN marker = 1 .. Len(marker)
        /\ DOMAIN marker' = 1 .. Len(marker')
    BY <1>1, <1>3, <1>6
  <2>2. Range(marker') = Range(marker) \cup {n}
    <3>1. \A x : x \in Range(marker') <=> \E i \in DOMAIN marker' : marker'[i] = x
      BY DEF Range
    <3>2. \A x : x \in Range(marker) <=> \E i \in DOMAIN marker : marker[i] = x
      BY DEF Range
    <3>3. \A x \in Range(marker') : x \in Range(marker) \/ x = n
      BY <2>1, <3>1, <3>2
    <3>4. \A x \in Range(marker) : x \in Range(marker')
      <4> TAKE x \in Range(marker)
      <4>1. PICK i \in DOMAIN marker : marker[i] = x
        BY <3>2
      <4>2. i \in DOMAIN marker' /\ marker'[i] = x
        BY <2>1, <4>1
      <4> QED
        BY <3>1, <4>2
    <3>5. n \in Range(marker')
      <4>1. Len(marker) + 1 \in DOMAIN marker'
        BY <2>1
      <4> QED
        BY <2>1, <3>1, <4>1
    <3> QED
      BY <3>3, <3>4, <3>5
  <2>3. marker' # << >> /\ Last(marker') = n
    BY <2>1 DEF Last
  <2> QED
    BY <2>1, <2>2, <2>3
<1>8. \A x, k : Image(x, k)' = Image(x, k)
  BY <1>1, ImageRead
<1>9. \A x : Records(x)' = Records(x) /\ Full(x)' = Full(x) /\ Lengths(x)' = Lengths(x)
  BY <1>1 DEF Records, Full, Lengths
<1>10. \A x, k : ImageOK(x, k)' = ImageOK(x, k)
  BY <1>1, <1>8 DEF ImageOK
<1>11. MarkerInv'
  <2>1. MarkerInv
    BY DEF IInv
  <2>2. CleanupManifests' = CleanupManifests
    BY <1>1 DEF CleanupManifests
  <2>3. manifests[n].synced >= 1 /\ Lengths(n) = {2}
    BY <1>5 DEF Lengths, Records
  <2>4. ImageOK(n, 2)
    <3>1. After.tables = io.tables /\ After.backings = DOMAIN db.backings
      BY PairEqual DEF After
    <3>2. manifests[n].recs[2].next = io.edit.next
      BY <1>5
    <3> HIDE DEF n
    <3> QED
      BY <1>3, <1>5, <3>1, <3>2 DEF ImageOK
  <2> HIDE DEF n, p
  <2>5. ASSUME NEW x \in Range(marker')
        PROVE  /\ x \in DOMAIN manifests' /\ manifests'[x].synced >= 1
               /\ \A k \in Lengths(x)' : ImageOK(x, k)'
    <3>1. CASE x = n
      BY <1>1, <1>5, <1>9, <1>10, <2>3, <2>4, <3>1
    <3>2. CASE x \in Range(marker)
      BY <1>1, <1>9, <1>10, <2>1, <3>2 DEF MarkerInv
    <3> QED
      BY <1>7, <2>5, <3>1, <3>2
  <2> QED
    BY <1>1, <1>3, <1>9, <2>1, <2>2, <2>5 DEF MarkerInv, Up
<1>12. /\ io'.stage = "syncdir" /\ io'.rotate = io.rotate /\ io'.prev = io.prev
       /\ io'.tables = io.tables /\ io'.snapshot = io.snapshot /\ io'.edit = io.edit
       /\ Before' = Before /\ After' = After
  BY <1>1, StageFacts
<1>13. StageInv'
  <2>1. NewManifest(2)'
    BY <1>1, <1>4, <1>12 DEF NewManifest
  <2>2. ASSUME Settled'
        PROVE  /\ marker' = <<io'.prev, io'.rotate>> /\ Full(io.prev)'
               /\ Image(io.prev, Records(io.prev))' = Before'
    <3>1. Settled
      BY <1>1, <2>2 DEF Settled
    <3>2. /\ marker = <<p>> /\ Full(p) /\ Image(p, Records(p)) = Before
      BY <1>3, <1>4, <3>1 DEF AtRest
    <3>3. marker' = <<p, n>>
      <4>1. p \in Nat
        BY <1>2, EditFacts
      <4>2. Append(<<p>>, n) = <<p, n>>
        <5> HIDE DEF p, n
        <5> QED
          BY <1>3, <4>1, AppendOne
      <4> QED
        BY <1>1, <3>2, <4>2
    <3>4. Full(io.prev)' = Full(io.prev)
      BY <1>1, <1>12 DEF Full, Records
    <3>5. Image(io.prev, Records(io.prev))' = Image(io.prev, Records(io.prev))
      <4>1. Image(io.prev, Records(io.prev)) =
              ReadBack(manifests[io.prev].recs, Len(manifests[io.prev].recs))
        BY DEF Image, Records, ReadBack, Pair
      <4>2. Image(io.prev, Records(io.prev))' =
              ReadBack(manifests'[io'.prev].recs, Len(manifests'[io'.prev].recs))
        BY DEF Image, Records, ReadBack, Pair
      <4> QED
        BY <1>1, <1>12, <4>1, <4>2
    <3> QED
      BY <1>12, <3>2, <3>3, <3>4, <3>5
  <2> QED
    BY <1>4, <1>7, <1>12, <2>1, <2>2 DEF StageInv, Idle
<1>14. \A x \in DOMAIN manifests :
         /\ Records(x) <= Len(manifests'[x].recs)
         /\ \A i \in 1 .. Records(x) : manifests'[x].recs[i] = manifests[x].recs[i]
  BY <1>1, ManifestFacts DEF Records
<1>15. /\ synced \subseteq synced' /\ synced' \subseteq files
       /\ "syncdir" \in {"sync", "move", "syncdir", "install"}
       /\ DOMAIN manifests \subseteq DOMAIN manifests'
       /\ DOMAIN manifests' \subseteq DOMAIN manifests \cup ({io.rotate} \ {0})
       /\ manifests' \in Maps(Manifest)
  BY <1>1 DEF IInv, TypeOK, DiskType
<1>16. /\ UNCHANGED <<files, external, hasLog, phase, db, jobs, ckpt, reader, cleanup>>
       /\ io' = [io EXCEPT !.stage = "syncdir"]
  BY <1>1
<1> HIDE DEF n, p
<1> QED
  BY <1>2, <1>7, <1>11, <1>13, <1>14, <1>15, <1>16, WriterStep

LEMMA SyncDirInv == ASSUME IInv, SyncDir PROVE IInv'
<1> DEFINE n == io.rotate
<1>1. /\ io.stage = "syncdir" /\ io' = [io EXCEPT !.stage = "install"]
      /\ marker' = <<Last(marker)>> /\ synced' = files
      /\ UNCHANGED <<files, manifests, external, hasLog, phase, db, jobs, ckpt,
                     reader, cleanup>>
  BY DEF SyncDir, Stage
<1>2. ~Idle
  BY <1>1 DEF Idle
<1>3. hasLog /\ Up /\ EditInv /\ n \in Nat
  BY <1>2, EditFacts
<1>4. n # 0 /\ NewManifest(2) /\ Last(marker) = n
  BY <1>1 DEF IInv, StageInv
<1>5. /\ n \in DOMAIN manifests /\ manifests[n].synced = 2
      /\ manifests[n].recs = <<io.snapshot, io.edit>>
      /\ Records(n) = 2 /\ Image(n, 2) = After
  <2>1. NewManifest(2) => Records(io.rotate) = 2 /\ Image(io.rotate, 2) = After
    BY <1>3, NewManifestRead
  <2> QED
    BY <1>4, <2>1 DEF NewManifest
<1>6. marker' = <<n>> /\ n \in Range(marker) /\ synced \subseteq synced' /\ synced' \subseteq files
  <2>1. marker \in Seq(Nat) /\ marker # << >>
    BY ManifestFacts
  <2>2. Len(marker) \in DOMAIN marker
    BY <2>1
  <2>3. n \in Range(marker)
    BY <1>4, <2>2 DEF Last, Range
  <2> QED
    BY <1>1, <1>4, <2>3 DEF IInv, TypeOK, DiskType
<1>7. Range(marker') = {n}
  BY <1>6, MarkerOne
<1>8. \A x, k : Image(x, k)' = Image(x, k)
  BY <1>1, ImageRead
<1>9. \A x : Records(x)' = Records(x) /\ Full(x)' = Full(x) /\ Lengths(x)' = Lengths(x)
  BY <1>1 DEF Records, Full, Lengths
<1>10. \A x, k : ImageOK(x, k) => ImageOK(x, k)'
  <2> TAKE x, k
  <2> HAVE ImageOK(x, k)
  <2>1. Image(x, k)' = Image(x, k) /\ manifests' = manifests
    BY <1>1, <1>8
  <2> QED
    BY <1>6, <2>1 DEF ImageOK
<1>11. MarkerInv'
  <2>1. MarkerInv
    BY DEF IInv
  <2>2. CleanupManifests' = CleanupManifests
    BY <1>1 DEF CleanupManifests
  <2> HIDE DEF n
  <2> QED
    BY <1>1, <1>3, <1>6, <1>7, <1>9, <1>10, <2>1, <2>2 DEF MarkerInv, Up
<1>12. /\ io'.stage = "install" /\ io'.rotate = io.rotate /\ io'.prev = io.prev
       /\ io'.tables = io.tables /\ io'.snapshot = io.snapshot /\ io'.edit = io.edit
       /\ Before' = Before /\ After' = After /\ Writing' = n
  <2>1. Writing = n
    BY <1>4 DEF Writing
  <2> QED
    BY <1>1, <2>1, StageFacts
<1>13. StageInv'
  <2>1. Full(Writing)'
    BY <1>1, <1>5, <1>12 DEF Full, Records
  <2>2. Image(Writing, Records(Writing))' = After
    <3>1. Image(Writing, Records(Writing))' =
            ReadBack(manifests'[Writing'].recs, Len(manifests'[Writing'].recs))
      BY DEF Image, Records, ReadBack, Pair
    <3>2. Image(n, 2) = ReadBack(manifests[n].recs, 2)
      BY ImageRead
    <3>3. Len(manifests[n].recs) = 2
      BY <1>5 DEF Records
    <3> HIDE DEF n
    <3> QED
      BY <1>1, <1>5, <1>12, <3>1, <3>2, <3>3
  <2> QED
    BY <1>6, <1>12, <2>1, <2>2 DEF StageInv, Idle
<1>14. \A x \in DOMAIN manifests :
         /\ Records(x) <= Len(manifests'[x].recs)
         /\ \A i \in 1 .. Records(x) : manifests'[x].recs[i] = manifests[x].recs[i]
  BY <1>1, ManifestFacts DEF Records
<1>15. /\ "install" \in {"sync", "move", "syncdir", "install"}
       /\ DOMAIN manifests \subseteq DOMAIN manifests'
       /\ DOMAIN manifests' \subseteq DOMAIN manifests \cup ({io.rotate} \ {0})
       /\ manifests' \in Maps(Manifest) /\ marker' \in Seq(Nat) /\ marker' # << >>
  BY <1>1, <1>3, <1>6 DEF IInv, TypeOK, DiskType
<1>16. /\ UNCHANGED <<files, external, hasLog, phase, db, jobs, ckpt, reader, cleanup>>
       /\ io' = [io EXCEPT !.stage = "install"]
  BY <1>1
<1> HIDE DEF n
<1> QED
  BY <1>2, <1>6, <1>11, <1>13, <1>14, <1>15, <1>16, WriterStep

(***************************************************************************)
(* Edits.                                                                  *)
(***************************************************************************)
\* An edit e of the tables T and the virtual backings B that fits them.
GoodEdit(T, B, e) ==
  /\ e \in EditType /\ e.del \subseteq T
  /\ e.created \cap B = {} /\ e.new \cap (T \ e.del) = {}
  /\ \A t, u \in (T \ e.del) \cup e.new : t.num = u.num => t = u
  /\ \A t \in e.new : IF t.virtual THEN t.backing \in B \cup e.created
                      ELSE t.backing = t.num /\ t.num \notin B \cup e.created
  /\ \A b \in e.created : /\ \E t \in e.new : t.virtual /\ t.backing = b
                          /\ \A t \in T \ e.del : ~t.virtual => t.backing # b

\* The virtual tables on a backing.
LEMMA VirtualsFacts ==
  ASSUME NEW S \in TableSets, NEW b
  PROVE  /\ Virtuals(S, b) \in Nat
         /\ Virtuals(S, b) = 0 <=> ~ \E t \in S : t.virtual /\ t.backing = b
<1> DEFINE V == {t \in S : t.virtual /\ t.backing = b}
<1>1. IsFiniteSet(V)
  <2>1. IsFiniteSet(S) /\ V \subseteq S
    BY DEF TableSets
  <2> HIDE DEF V
  <2> QED
    BY <2>1, FS_Subset
<1>2. V = {} <=> ~ \E t \in S : t.virtual /\ t.backing = b
  OBVIOUS
<1>3. Virtuals(S, b) = Cardinality(V)
  BY DEF Virtuals
<1> HIDE DEF V
<1>4. Cardinality(V) \in Nat /\ (Cardinality(V) = 0 <=> V = {})
  BY <1>1, CardParts
<1> QED
  BY <1>2, <1>3, <1>4

\* The virtual backings m count the virtual tables of T; those of w are
\* protected as those of m are.
Counts(m, T)     == \A b \in DOMAIN m : m[b].use = Virtuals(T, b)
Protects(m, w) ==
  /\ \A b \in DOMAIN w.backings :
       w.backings[b].prot = IF b \in DOMAIN m THEN m[b].prot ELSE 0
  /\ \A b \in w.unused : m[b].prot = 0

\* The tables T after the edit e, and the virtual backings w after it, which
\* were m before.
Edited(T, e) == (T \ e.del) \cup e.new
EditedBackings(m, T, e, w, M) ==
  /\ w.backings \in Maps(BackingType) /\ ~w.panic /\ M \in TableSets
  /\ DOMAIN w.backings = (DOMAIN m \cup e.created) \ w.unused
  /\ w.unused \subseteq DOMAIN m
  /\ Counts(w.backings, M) /\ Protects(m, w)
  /\ Sound(M, DOMAIN w.backings)
  /\ w.unused \subseteq w.zombies /\ w.zombies \subseteq Backings(T) \cup w.unused
  /\ Backings(T) \subseteq Backings(M) \cup DOMAIN w.backings \cup w.zombies

\* What getZombiesAndUpdateVirtualBackings computes for such an edit.
LEMMA BackingsEdit ==
  ASSUME NEW d \in DBType, NEW e, NEW T \in TableSets, Sound(T, DOMAIN d.backings),
         Counts(d.backings, T), GoodEdit(T, DOMAIN d.backings, e)
  PROVE  EditedBackings(d.backings, T, e, UpdateBackings(d, e), Edited(T, e))
<1> DEFINE old == d.backings
           B == DOMAIN d.backings
           C == e.created
           N == (T \ e.del) \cup e.new
           added == [b \in B \cup C |-> IF b \in B THEN old[b] ELSE [use |-> 0, prot |-> 0]]
           Use(b) == added[b].use + Virtuals(e.new, b) - Virtuals(e.del, b)
           after == [b \in B \cup C |-> [use |-> Use(b), prot |-> added[b].prot]]
           unused == {b \in B \cup C : after[b].use = 0 /\ after[b].prot = 0}
           still == {t.backing : t \in {x \in e.new : ~x.virtual}} \cup C
           gone == {t.backing : t \in {x \in e.del : ~x.virtual}}
           u == UpdateBackings(d, e)
           bad == \/ C \cap B # {}
                  \/ \E t \in e.new \cup e.del : t.virtual /\ t.backing \notin B \cup C
                  \/ \E b \in B \cup C : after[b].use < 0
<1>1. /\ e \in EditType /\ e.del \subseteq T /\ C \cap B = {} /\ e.new \cap (T \ e.del) = {}
      /\ \A t, x \in (T \ e.del) \cup e.new : t.num = x.num => t = x
      /\ \A t \in e.new : IF t.virtual THEN t.backing \in B \cup C
                          ELSE t.backing = t.num /\ t.num \notin B \cup C
      /\ \A b \in C : /\ \E t \in e.new : t.virtual /\ t.backing = b
                      /\ \A t \in T \ e.del : ~t.virtual => t.backing # b
  BY DEF GoodEdit
<1>2. /\ e.del \in TableSets /\ e.new \in TableSets /\ C \subseteq Nat /\ N \in TableSets
      /\ B \subseteq Nat /\ \A b \in B : old[b] \in BackingType
  <2>1. e.del \in TableSets /\ e.new \in TableSets /\ C \subseteq Nat
    BY <1>1 DEF EditType
  <2>2. T \ e.del \in TableSets
    BY TableSetFacts
  <2>3. N \in TableSets
    BY <2>1, <2>2, TableSetFacts
  <2> QED
    BY <2>1, <2>3, DBTypeFacts
<1>3. /\ \A t, x \in T : t.num = x.num => t = x
      /\ \A t \in T : IF t.virtual THEN t.backing \in B
                      ELSE t.backing = t.num /\ t.backing \notin B
  BY DEF Sound
<1>4. ASSUME NEW b
      PROVE  /\ Virtuals(N, b) = Virtuals(T, b) + Virtuals(e.new, b) - Virtuals(e.del, b)
             /\ Virtuals(T, b) \in Nat /\ Virtuals(N, b) \in Nat
             /\ Virtuals(e.new, b) \in Nat /\ Virtuals(e.del, b) \in Nat
             /\ Virtuals(T, b) = 0 <=> ~ \E t \in T : t.virtual /\ t.backing = b
             /\ Virtuals(N, b) = 0 <=> ~ \E t \in N : t.virtual /\ t.backing = b
  <2>0. \A S \in TableSets :
          /\ Virtuals(S, b) \in Nat
          /\ Virtuals(S, b) = 0 <=> ~ \E t \in S : t.virtual /\ t.backing = b
    <3> TAKE S \in TableSets
    <3> QED
      BY VirtualsFacts
  <2> DEFINE D == e.del
             M == e.new
  <2>1. D \in SUBSET T /\ M \in TableSets /\ M \cap (T \ D) = {}
    BY <1>1, <1>2
  <2> HIDE DEF D, M
  <2>2. Virtuals((T \ D) \cup M, b) = Virtuals(T, b) + Virtuals(M, b) - Virtuals(D, b)
    BY <2>1, VirtualsEdit
  <2>3. Virtuals(N, b) = Virtuals(T, b) + Virtuals(e.new, b) - Virtuals(e.del, b)
    BY <2>2 DEF D, M
  <2> HIDE DEF N
  <2> QED
    BY <1>2, <2>0, <2>3
<1>5. u = [backings |-> Without(after, unused), unused |-> unused,
           zombies |-> unused \cup (gone \ still),
           panic |-> bad]
  <2>1. DOMAIN added = B \cup C /\ DOMAIN after = B \cup C
    OBVIOUS
  <2>2. after = [b \in DOMAIN added |->
                   [added[b] EXCEPT !.use = added[b].use + Virtuals(e.new, b) - Virtuals(e.del, b)]]
    <3> DEFINE other == [b \in DOMAIN added |->
                   [added[b] EXCEPT !.use = added[b].use + Virtuals(e.new, b) - Virtuals(e.del, b)]]
    <3>1. ASSUME NEW b \in B \cup C PROVE after[b] = other[b]
      <4>1. added[b] = [use |-> added[b].use, prot |-> added[b].prot]
        <5>1. CASE b \in B
          <6>1. added[b] = old[b] /\ old[b] \in BackingType
            BY <1>2, <5>1
          <6> QED
            BY <6>1 DEF BackingType
        <5>2. CASE b \notin B
          BY <5>2
        <5> QED
          BY <5>1, <5>2
      <4> DEFINE a == added[b]
                 y == a.use + Virtuals(e.new, b) - Virtuals(e.del, b)
      <4>2. after[b] = [use |-> y, prot |-> a.prot] /\ other[b] = [a EXCEPT !.use = y]
        OBVIOUS
      <4> HIDE DEF added, after, other, y
      <4>3. [a EXCEPT !.use = y] = [use |-> y, prot |-> a.prot]
        BY <4>1
      <4> QED
        BY <4>2, <4>3
    <3>2. DOMAIN other = B \cup C
      OBVIOUS
    <3>3. after = [b \in B \cup C |-> after[b]] /\ other = [b \in B \cup C |-> other[b]]
      OBVIOUS
    <3> HIDE DEF after, other
    <3>4. after = other
      BY <3>1, <3>3
    <3> QED
      BY <3>4 DEF other
  <2> HIDE DEF added, after
  <2> QED
    BY <2>1, <2>2 DEF UpdateBackings, added
<1>6. ASSUME NEW b \in B \cup C
      PROVE  /\ after[b].use = Virtuals(N, b)
             /\ after[b].prot = IF b \in B THEN old[b].prot ELSE 0
             /\ after[b] \in BackingType
  <2>1. added[b].use = Virtuals(T, b) /\ added[b].prot = (IF b \in B THEN old[b].prot ELSE 0)
        /\ added[b].prot \in Int
    <3>1. CASE b \in B
      BY <1>2, <3>1 DEF BackingType, Counts
    <3>2. CASE b \notin B
      <4>1. ~ \E t \in T : t.virtual /\ t.backing = b
        BY <1>3, <3>2
      <4>2. Virtuals(T, b) = 0
        BY <1>4, <4>1
      <4> QED
        BY <3>2, <4>2
    <3> QED
      BY <3>1, <3>2
  <2>2. after[b].use = Use(b) /\ after[b].prot = added[b].prot
    OBVIOUS
  <2> HIDE DEF added, after, N
  <2>3. Use(b) = Virtuals(N, b) /\ Virtuals(N, b) \in Int
    BY <1>4, <2>1
  <2>4. after[b] = [use |-> Use(b), prot |-> added[b].prot]
    BY DEF after
  <2>5. after[b] \in BackingType
    BY <2>1, <2>3, <2>4 DEF BackingType
  <2> QED
    BY <2>1, <2>2, <2>3, <2>5
<1>7. DOMAIN after = B \cup C
  OBVIOUS
<1>8. after \in Maps(BackingType)
  <2>1. after \in [B \cup C -> BackingType]
    <3>1. after = [b \in B \cup C |-> after[b]]
      OBVIOUS
    <3> HIDE DEF after
    <3> QED
      BY <1>6, <3>1
  <2> HIDE DEF after
  <2> QED
    BY <1>2, <1>7, <2>1, MapFacts
<1>9. u.backings \in Maps(BackingType) /\ DOMAIN u.backings = (B \cup C) \ unused
      /\ \A b \in (B \cup C) \ unused : u.backings[b] = after[b]
      /\ u.unused = unused /\ u.zombies = unused \cup (gone \ still)
  <2> HIDE DEF after, unused, u, gone, still, bad
  <2>1. u.backings = Without(after, unused)
    BY <1>5
  <2>2. u.unused = unused /\ u.zombies = unused \cup (gone \ still)
    BY <1>5
  <2>3. Without(after, unused) \in Maps(BackingType)
    BY <1>8, MapParts
  <2>4. DOMAIN Without(after, unused) = (B \cup C) \ unused
        /\ \A b \in (B \cup C) \ unused : Without(after, unused)[b] = after[b]
    BY <1>7 DEF Without
  <2> QED
    BY <2>1, <2>2, <2>3, <2>4
<1>91. u.unused = unused /\ u.zombies = unused \cup (gone \ still)
  <2> HIDE DEF after, unused, u, gone, still, bad
  <2> QED
    BY <1>5
<1>10. unused \subseteq B
  <2>1. ASSUME NEW b \in unused, b \in C PROVE FALSE
    <3>1. PICK t \in e.new : t.virtual /\ t.backing = b
      BY <1>1, <2>1
    <3>2. t \in N /\ b \in B \cup C
      BY <2>1
    <3>3. Virtuals(N, b) # 0
      <4> HIDE DEF N
      <4> QED
        BY <1>4, <3>1, <3>2
    <3> QED
      BY <1>6, <2>1, <3>2, <3>3
  <2> QED
    BY <2>1
<1>11. \A b \in unused : old[b].prot = 0
  <2> TAKE b \in unused
  <2>1. b \in B /\ after[b].prot = 0
    BY <1>10
  <2> QED
    BY <1>6, <2>1
<1>12. ~u.panic
  <2>1. C \cap B = {}
    BY <1>1
  <2>2. \A t \in e.new \cup e.del : t.virtual => t.backing \in B \cup C
    BY <1>1, <1>3
  <2>3. \A b \in B \cup C : ~(after[b].use < 0)
    <3> TAKE b \in B \cup C
    <3>1. after[b].use = Virtuals(N, b) /\ Virtuals(N, b) \in Nat
      BY <1>4, <1>6
    <3> QED
      BY <3>1
  <2> HIDE DEF after, unused, gone, still
  <2>4. u.panic <=> \/ C \cap B # {}
                    \/ \E t \in e.new \cup e.del : t.virtual /\ t.backing \notin B \cup C
                    \/ \E b \in B \cup C : after[b].use < 0
    <3>1. u.panic = bad
      <4> HIDE DEF u, bad
      <4> QED
        BY <1>5
    <3> HIDE DEF u
    <3> QED
      BY <3>1, Zenon
  <2> QED
    BY <2>1, <2>2, <2>3, <2>4, Zenon
<1>13. Sound(N, (B \cup C) \ unused)
  <2>1. \A t, x \in N : t.num = x.num => t = x
    BY <1>1
  <2>2. ASSUME NEW t \in N
        PROVE  IF t.virtual THEN t.backing \in (B \cup C) \ unused
               ELSE t.backing = t.num /\ t.backing \notin (B \cup C) \ unused
    <3>1. CASE t.virtual
      <4>1. t.backing \in B \cup C
        BY <1>1, <1>3, <2>2, <3>1
      <4>2. Virtuals(N, t.backing) # 0
        <5> HIDE DEF N
        <5> QED
          BY <1>4, <2>2, <3>1
      <4>3. t.backing \notin unused
        BY <1>6, <4>1, <4>2
      <4> QED
        BY <3>1, <4>1, <4>3
    <3>2. CASE ~t.virtual
      BY <1>1, <1>3, <2>2, <3>2
    <3> QED
      BY <3>1, <3>2
  <2> HIDE DEF N, unused
  <2> QED
    BY <2>1, <2>2 DEF Sound
<1>14. gone \subseteq Backings(T) /\ unused \subseteq u.zombies
       /\ u.zombies \subseteq Backings(T) \cup unused
  <2>1. gone \subseteq Backings(T)
    BY <1>1 DEF Backings
  <2> HIDE DEF gone, unused, still, u
  <2> QED
    BY <1>91, <2>1
<1>15. Backings(T) \subseteq Backings(N) \cup ((B \cup C) \ unused) \cup u.zombies
  <2>q. ASSUME NEW X, \A t \in T : t.backing \in X PROVE Backings(T) \subseteq X
    BY <2>q DEF Backings
  <2> DEFINE R == Backings(N) \cup ((B \cup C) \ unused) \cup u.zombies
  <2> SUFFICES ASSUME NEW t \in T PROVE t.backing \in R
    <3>1. Backings(T) \subseteq R
      <4> HIDE DEF R
      <4> QED
        BY <2>q
    <3> QED
      BY <3>1
  <2>0. \A x \in N : x.backing \in Backings(N)
    BY DEF Backings
  <2>1. CASE t \notin e.del
    <3>1. t \in N
      BY <2>1
    <3> QED
      BY <2>0, <3>1
  <2>2. CASE t.virtual
    <3>1. t.backing \in B
      BY <1>3, <2>2
    <3> HIDE DEF unused, u
    <3> QED
      BY <1>14, <3>1
  <2>3. CASE t \in e.del /\ ~t.virtual
    <3>1. t.backing \in gone
      BY <2>3
    <3>2. CASE t.backing \notin still
      <4> HIDE DEF gone, unused, still, u
      <4> QED
        BY <1>91, <3>1, <3>2
    <3>3. CASE t.backing \in C
      <4> HIDE DEF unused, u
      <4> QED
        BY <1>14, <3>3
    <3>4. CASE \E x \in e.new : ~x.virtual /\ x.backing = t.backing
      <4>1. PICK x \in e.new : ~x.virtual /\ x.backing = t.backing
        BY <3>4
      <4>2. x \in N
        OBVIOUS
      <4> QED
        BY <2>0, <4>1, <4>2
    <3> QED
      BY <3>2, <3>3, <3>4
  <2> QED
    BY <2>1, <2>2, <2>3
<1> HIDE DEF N, u, unused, after, gone, still
<1>16. \A b \in DOMAIN u.backings :
         /\ u.backings[b].use = Virtuals(N, b)
         /\ u.backings[b].prot = IF b \in B THEN old[b].prot ELSE 0
  BY <1>6, <1>9
<1>17. /\ u.backings \in Maps(BackingType) /\ ~u.panic /\ N \in TableSets
       /\ DOMAIN u.backings = (B \cup C) \ u.unused
  <2>1. u.backings \in Maps(BackingType)
    BY <1>9
  <2>2. DOMAIN u.backings = (B \cup C) \ u.unused
    <3>1. DOMAIN u.backings = (B \cup C) \ unused
      BY <1>9
    <3> QED
      BY <3>1, <1>91
  <2> QED
    BY <1>2, <1>12, <2>1, <2>2
<1>18. u.unused \subseteq B /\ \A b \in u.unused : old[b].prot = 0
  BY <1>10, <1>11, <1>91
<1>19. Sound(N, DOMAIN u.backings)
  BY <1>13, <1>17, <1>91
<1>20. /\ u.unused \subseteq u.zombies /\ u.zombies \subseteq Backings(T) \cup u.unused
       /\ Backings(T) \subseteq Backings(N) \cup DOMAIN u.backings \cup u.zombies
  BY <1>14, <1>15, <1>17, <1>91
<1>21. Counts(u.backings, N) /\ Protects(d.backings, u)
  BY <1>16, <1>18 DEF Counts, Protects
<1>22. EditedBackings(d.backings, T, e, u, N)
  BY <1>17, <1>18, <1>19, <1>20, <1>21 DEF EditedBackings
<1> QED
  BY <1>22 DEF Edited, u, N

\* The state of versionSet when logAndApply releases DB.mu.
Begun(d, e, u, k) ==
  [d EXCEPT !.writing = TRUE, !.backings = u.backings,
            !.held = Backings(e.new) \cup u.unused, !.nextFileNum = k,
            !.panic = @ \/ u.panic \/ ~(e.del \subseteq Current(d))]

\* x is such a state, N the tables after the edit e, and u what it does to the
\* backings.
BegunWell(d, e, x, N, u) ==
  /\ DBInv(x, N, u.zombies)
  /\ \A js : RefsInv(d, js) => RefsInv(x, js)
  /\ \A rd : ReadersInv(d, rd) => ReadersInv(x, rd)
  /\ Refd(x) \subseteq Refd(d) \cup e.created \cup Backings(e.new)
  /\ x.versions = d.versions /\ x.current = d.current /\ x.writing
  /\ x.backings = u.backings /\ x.held = Backings(e.new) \cup u.unused
  /\ x.late = d.late /\ x.obsolete = d.obsolete
  /\ x.obsoleteManifests = d.obsoleteManifests
  /\ x.manifestFileNum = d.manifestFileNum /\ x.manifest = d.manifest
  /\ x.readState = d.readState /\ x.disabled = d.disabled

LEMMA BegunFacts ==
  ASSUME NEW d, NEW e, NEW k \in Nat, d.held = {}, Sound(Current(d), DOMAIN d.backings),
         DBInv(d, Current(d), {}), Counts(d.backings, Current(d)),
         GoodEdit(Current(d), DOMAIN d.backings, e),
         (e.created \cup Backings(e.new)) \cap DoomedIn(d) = {}
  PROVE  LET u == UpdateBackings(d, e)
             x == Begun(d, e, u, k)
         IN  BegunWell(d, e, x, Edited(Current(d), e), u) /\ x.nextFileNum = k
<1> DEFINE T == Current(d)
           B == DOMAIN d.backings
           u == UpdateBackings(d, e)
           x == Begun(d, e, u, k)
           N == Edited(T, e)
           Z == u.zombies
<1>1. d \in DBType /\ ~d.panic /\ d.current \in DOMAIN d.versions
  BY DEF DBInv
<1>2. /\ e.del \subseteq T /\ e.new \in TableSets /\ e.created \subseteq Nat
  BY DEF GoodEdit, EditType
<1>3. /\ u.backings \in Maps(BackingType) /\ ~u.panic /\ N \in TableSets
      /\ DOMAIN u.backings = (B \cup e.created) \ u.unused
      /\ u.unused \subseteq B
      /\ u.unused \subseteq Z /\ Z \subseteq Backings(T) \cup u.unused
      /\ Backings(T) \subseteq Backings(N) \cup DOMAIN u.backings \cup Z
  <2>1. T \in TableSets
    BY <1>1, DBTypeFacts DEF Current
  <2> HIDE DEF T
  <2>2. EditedBackings(d.backings, T, e, UpdateBackings(d, e), Edited(T, e))
    BY <1>1, <2>1, BackingsEdit DEF T
  <2> QED
    BY <2>2 DEF EditedBackings
<1>4. Backings(e.new) \subseteq Nat /\ B \subseteq Nat
  BY <1>1, <1>2, TableNumbers, DBTypeFacts
<1>5. x \in DBType /\ ~x.panic
  <2> DEFINE p == d.panic \/ u.panic \/ ~(e.del \subseteq Current(d))
             h == Backings(e.new) \cup u.unused
             ub == u.backings
  <2>1. ~p /\ p \in BOOLEAN
    BY <1>1, <1>2, <1>3
  <2>2. h \subseteq Nat /\ ub \in Maps(BackingType)
    BY <1>3, <1>4
  <2>3. x = [d EXCEPT !.writing = TRUE, !.backings = ub, !.held = h,
                      !.nextFileNum = k, !.panic = p]
    BY DEF Begun
  <2> HIDE DEF p, h, ub
  <2>4. x \in DBType
    BY <1>1, <2>1, <2>2, <2>3 DEF DBType
  <2>5. x.panic = p
    BY <1>1, <2>3 DEF DBType
  <2> QED
    BY <2>1, <2>4, <2>5
<1>6. /\ x.versions = d.versions /\ x.current = d.current /\ x.writing
      /\ x.backings = u.backings /\ x.held = Backings(e.new) \cup u.unused
      /\ x.nextFileNum = k /\ x.late = d.late /\ x.obsolete = d.obsolete
      /\ x.obsoleteManifests = d.obsoleteManifests
      /\ x.manifestFileNum = d.manifestFileNum /\ x.manifest = d.manifest
      /\ x.readState = d.readState /\ x.disabled = d.disabled
      /\ x.readStates = d.readStates /\ x.zombies = d.zombies
  BY <1>1 DEF Begun, DBType
<1>7. /\ \A v \in DOMAIN d.versions :
           Backings(d.versions[v].tables) \subseteq
             Backings(T) \cup B \cup d.zombies
      /\ Refd(d) \cap DoomedIn(d) = {}
      /\ \A q \in d.late : q.tables \cup q.manifests # {}
  BY DEF DBInv
<1>8. Backings(N) \subseteq Backings(T) \cup Backings(e.new)
  BY <1>2 DEF Backings, Edited
<1>h. Z = u.zombies
  OBVIOUS
<1> HIDE DEF x, N, Z, u, B, T
<1>9. Current(x) = T /\ DoomedIn(x) = DoomedIn(d)
  BY <1>6 DEF Current, DoomedIn, LateTables, T
<1>10. Base(x) = Backings(T) \cup DOMAIN u.backings \cup Backings(e.new) \cup u.unused
  BY <1>6, <1>9 DEF Base
<1>11. Backings(N) \cup Z \subseteq Base(x)
  BY <1>3, <1>8, <1>10
<1>12. \A v \in DOMAIN x.versions :
         Backings(x.versions[v].tables) \subseteq
           Backings(N) \cup DOMAIN x.backings \cup x.zombies \cup Z
  <2>1. B \subseteq DOMAIN u.backings \cup Z
    BY <1>3
  <2> QED
    BY <1>3, <1>6, <1>7, <2>1
<1>13. Refd(x) \subseteq Refd(d) \cup e.created \cup Backings(e.new)
  <2>1. Refd(x) = (UNION {Backings(d.versions[v].tables) : v \in DOMAIN d.versions})
                    \cup DOMAIN u.backings \cup Backings(e.new) \cup u.unused
    BY <1>6 DEF Refd
  <2>2. DOMAIN u.backings \cup u.unused \subseteq B \cup e.created
    BY <1>3
  <2>3. B \subseteq Refd(d)
    BY DEF Refd, B
  <2> QED
    BY <2>1, <2>2, <2>3 DEF Refd
<1>14. Refd(x) \cap DoomedIn(x) = {}
  BY <1>7, <1>9, <1>13
<1>15. DBInv(x, N, Z)
  BY <1>1, <1>5, <1>6, <1>7, <1>11, <1>12, <1>14 DEF DBInv
<1>16. ASSUME NEW js, NEW rd
       PROVE  /\ RefsInv(d, js) => RefsInv(x, js)
              /\ ReadersInv(d, rd) => ReadersInv(x, rd)
  BY <1>6 DEF RefsInv, ReadersInv, ReadersOf
<1>17. BegunWell(d, e, x, N, u)
  <2>1. DBInv(x, N, u.zombies)
    BY <1>15 DEF Z
  <2> QED
    BY <1>6, <1>13, <1>16, <2>1 DEF BegunWell
<1> QED
  BY <1>6, <1>17 DEF x, N, u, T

(***************************************************************************)
(* logAndApply under DB.mu: an edit begins.                                *)
(***************************************************************************)
\* A job whose edit is taken over, or that an excise cancels.
SameJob(x, y) ==
  /\ y.kind = x.kind /\ y.in = x.in /\ y.span = x.span /\ y.edit = x.edit
  /\ y.version = x.version /\ y.prot = x.prot /\ (x.cancel => y.cancel)

\* The edit e of job j begins, after the numbers below m are taken.
EditStep(m, j, e) ==
  /\ Up /\ Idle /\ phase \in {"loaded", "open"}
  /\ m \in Nat /\ m >= db.nextFileNum
  /\ BeginEdit(SetNext(db, m), j, e)
  /\ UNCHANGED <<disk, phase, ckpt, reader, cleanup>>
  /\ phase = "loaded" => j = 0 /\ hasLog
  /\ phase = "open" => j \in DOMAIN jobs /\ jobs[j].pc \in {"lock", "target"}
  /\ phase = "open" => ~db.writing \/ Was(j).pc = "target"
  /\ jobs' \in Seq(JobType) /\ DOMAIN jobs' = DOMAIN jobs
  /\ \A i \in DOMAIN jobs :
       /\ SameJob(jobs[i], jobs'[i])
       /\ jobs'[i].pc = IF i = j THEN "apply" ELSE jobs[i].pc
       /\ phase = "loaded" => jobs'[i] = jobs[i]
  /\ GoodEdit(Current(db), DOMAIN db.backings, e)
  /\ e.created \cup Backings(e.new) \subseteq Refd(db) \cup (Own(Was(j)) \cap synced)
  /\ \A n \in Numbers(e.new) :
       \/ n \in Numbers(Current(db)) \cup Own(Was(j))
       \/ db.nextFileNum <= n /\ n < m
  /\ \A i \in DOMAIN jobs \ {j} :
       /\ jobs[i].kind \in {"compact", "move", "deleteonly"} /\ ~jobs'[i].cancel
       /\ jobs[i].pc \in {"start", "run", "sync", "lock"}
       => jobs[i].in \cap e.del = {}

LEMMA SetNextFacts ==
  ASSUME IInv, Idle, NEW m \in Nat, m >= db.nextFileNum
  PROVE  LET d == SetNext(db, m)
         IN  /\ DBInv(d, Current(db), {}) /\ d \in DBType /\ d.nextFileNum = m
             /\ RefsInv(d, jobs) /\ ReadersInv(d, reader)
             /\ Current(d) = Current(db) /\ Refd(d) = Refd(db) /\ DoomedIn(d) = DoomedIn(db)
             /\ d.held = {} /\ d.versions = db.versions /\ d.current = db.current
             /\ d.backings = db.backings /\ d.late = db.late /\ d.obsolete = db.obsolete
             /\ d.obsoleteManifests = db.obsoleteManifests
             /\ d.manifestFileNum = db.manifestFileNum /\ d.manifest = db.manifest
             /\ d.readState = db.readState /\ d.disabled = db.disabled
<1> DEFINE d == SetNext(db, m)
<1>1. Target = Current(db) /\ io.zombies = {} /\ db.held = {}
  BY DEF IInv, IoInv, Target, NoIO
<1>2. DBInv(db, Current(db), {}) /\ RefsInv(db, jobs) /\ ReadersInv(db, reader)
  BY <1>1, IInvFacts
<1>3. db \in DBType
  BY IInvFacts
<1>4. /\ d.held = db.held /\ d.versions = db.versions /\ d.current = db.current
      /\ d.backings = db.backings /\ d.late = db.late /\ d.obsolete = db.obsolete
      /\ d.obsoleteManifests = db.obsoleteManifests
      /\ d.manifestFileNum = db.manifestFileNum /\ d.manifest = db.manifest
      /\ d.readState = db.readState /\ d.disabled = db.disabled /\ d.nextFileNum = m
  BY <1>3 DEF SetNext, DBType
<1>5. d = [db EXCEPT !.nextFileNum = m]
  BY DEF SetNext
<1>6. DBInv(d, Current(db), {}) /\ RefsInv(d, jobs) /\ ReadersInv(d, reader)
  <2> DEFINE x == [db EXCEPT !.nextFileNum = m]
             C == Current(db)
             Z == {}
  <2>1. DBInv(db, C, Z)
    BY <1>2
  <2> HIDE DEF C, Z
  <2>2. /\ DBInv(x, C, Z) /\ (RefsInv(db, jobs) => RefsInv(x, jobs))
        /\ (ReadersInv(db, reader) => ReadersInv(x, reader))
    BY <2>1, NumbersTaken
  <2> HIDE DEF x
  <2>3. d = x
    BY <1>5 DEF x
  <2> HIDE DEF d
  <2> QED
    BY <1>2, <2>2, <2>3 DEF C, Z
<1> HIDE DEF d
<1>7. Current(d) = Current(db) /\ Refd(d) = Refd(db) /\ DoomedIn(d) = DoomedIn(db)
  BY <1>4 DEF Current, Refd, DoomedIn, LateTables
<1>8. d \in DBType
  BY <1>6 DEF DBInv
<1> QED
  BY <1>1, <1>4, <1>6, <1>7, <1>8 DEF d

\* The edit as it is logged.
Logged(e, r, m) == [e EXCEPT !.removed = r, !.next = m]

\* The edit and the state of versionSet that the step leaves.
LEMMA EditBegun ==
  ASSUME IInv, NEW m, NEW j, NEW e, EditStep(m, j, e)
  PROVE  /\ io'.job = j /\ io'.stage = "write" /\ ~Idle'
         /\ io' \in IOType /\ io'.edit = Logged(e, io'.edit.removed, m)
         /\ io'.edit.del = e.del /\ io'.edit.new = e.new /\ io'.edit.created = e.created
         /\ io'.edit.next = m
         /\ io'.tables = (Current(db) \ e.del) \cup e.new
         /\ io'.snapshot.new = Current(db) /\ io'.snapshot.del = {}
         /\ io'.snapshot.created = DOMAIN db.backings /\ io'.snapshot.next = m + 1
         /\ io'.snapshot.removed = {}
         /\ io'.rotate \in {0, m} /\ io'.prev = db.manifestFileNum
         /\ (~db.manifest => io'.rotate = m)
         /\ db'.nextFileNum = IF io'.rotate = 0 THEN m ELSE m + 1
         /\ DBInv(db', io'.tables, io'.zombies) /\ RefsInv(db', jobs) /\ ReadersInv(db', reader)
         /\ Refd(db') \subseteq Refd(db) \cup e.created \cup Backings(e.new)
         /\ db'.versions = db.versions /\ db'.current = db.current /\ db'.writing
         /\ db'.held = Backings(e.new) \cup io'.edit.removed
         /\ db'.late = db.late /\ db'.obsolete = db.obsolete
         /\ db'.obsoleteManifests = db.obsoleteManifests
         /\ db'.manifestFileNum = db.manifestFileNum /\ db'.manifest = db.manifest
         /\ db'.readState = db.readState /\ db'.disabled = db.disabled
         /\ io'.tables \in TableSets
         /\ DOMAIN db'.backings = (DOMAIN db.backings \cup e.created) \ io'.edit.removed
         /\ io'.edit.removed \subseteq DOMAIN db.backings
         /\ Counts(db'.backings, io'.tables)
         /\ \A b \in DOMAIN db'.backings :
              db'.backings[b].prot = IF b \in DOMAIN db.backings THEN db.backings[b].prot ELSE 0
         /\ \A b \in io'.edit.removed : db.backings[b].prot = 0
         /\ Sound(io'.tables, DOMAIN db'.backings)
         /\ io'.edit.removed \subseteq io'.zombies
         /\ io'.zombies \subseteq Backings(Current(db)) \cup io'.edit.removed
<1> DEFINE d == SetNext(db, m)
           u == UpdateBackings(d, e)
           T == Current(db)
           B == DOMAIN db.backings
           N == (T \ e.del) \cup e.new
<1>1. /\ Up /\ Idle /\ m \in Nat /\ m >= db.nextFileNum /\ BeginEdit(d, j, e)
      /\ GoodEdit(T, B, e)
      /\ e.created \cup Backings(e.new) \subseteq Refd(db) \cup (Own(Was(j)) \cap synced)
  BY DEF EditStep
<1>2. /\ DBInv(d, T, {}) /\ d \in DBType /\ d.nextFileNum = m
      /\ RefsInv(d, jobs) /\ ReadersInv(d, reader)
      /\ Current(d) = T /\ Refd(d) = Refd(db) /\ DoomedIn(d) = DoomedIn(db)
      /\ d.held = {} /\ d.versions = db.versions /\ d.current = db.current
      /\ d.backings = db.backings /\ d.late = db.late /\ d.obsolete = db.obsolete
      /\ d.obsoleteManifests = db.obsoleteManifests
      /\ d.manifestFileNum = db.manifestFileNum /\ d.manifest = db.manifest
      /\ d.readState = db.readState /\ d.disabled = db.disabled
  BY <1>1, SetNextFacts
<1>3. e \in EditType
  BY <1>1 DEF GoodEdit
<1> HIDE DEF d, u
<1>4. PICK rotate \in BOOLEAN :
        /\ (~d.manifest => rotate)
        /\ io' = [job |-> j, stage |-> "write",
                  edit |-> [e EXCEPT !.removed = u.unused, !.next = m],
                  tables |-> N,
                  snapshot |-> [Edit({}, T, B) EXCEPT !.next = m + 1],
                  rotate |-> IF rotate THEN m ELSE 0,
                  zombies |-> u.zombies, prev |-> db.manifestFileNum]
        /\ db' = Begun(d, e, u, IF rotate THEN m + 1 ELSE m)
  <2> DEFINE Full1 == Len(manifests[d.manifestFileNum].recs) >= MaxManifest
             R == ~d.manifest \/ Full1
             I(r, n, f, T1, B1) ==
               [job |-> j, stage |-> "write",
                edit |-> [e EXCEPT !.removed = u.unused, !.next = n],
                tables |-> (T1 \ e.del) \cup e.new,
                snapshot |-> [Edit({}, T1, B1) EXCEPT !.next = n + 1],
                rotate |-> IF r THEN n ELSE 0,
                zombies |-> u.zombies, prev |-> f]
  <2>1. io' = I(R, d.nextFileNum, d.manifestFileNum, Current(d), DOMAIN d.backings)
    BY <1>1 DEF BeginEdit, u
  <2>2. db' = Begun(d, e, u, IF R THEN d.nextFileNum + 1 ELSE d.nextFileNum)
    BY <1>1 DEF BeginEdit, Begun, u
  <2>3. R \in BOOLEAN /\ (~d.manifest => R)
    OBVIOUS
  <2> HIDE DEF R
  <2>4. io' = I(R, m, db.manifestFileNum, T, B)
    <3> HIDE DEF I, T, B
    <3>1. d.nextFileNum = m /\ d.manifestFileNum = db.manifestFileNum /\ Current(d) = T /\ DOMAIN d.backings = B
      BY <1>2 DEF B
    <3> QED
      BY <2>1, <3>1
  <2>5. db' = Begun(d, e, u, IF R THEN m + 1 ELSE m)
    BY <1>2, <2>2
  <2>6. /\ (~d.manifest => R) /\ io' = I(R, m, db.manifestFileNum, T, B)
        /\ db' = Begun(d, e, u, IF R THEN m + 1 ELSE m)
    BY <2>3, <2>4, <2>5
  <2> QED
    BY <2>3, <2>6
<1> DEFINE k == IF rotate THEN m + 1 ELSE m
<1>5. k \in Nat
  BY <1>1
<1>6. Sound(T, B) /\ Counts(d.backings, T)
  <2>1. Target = T
    BY <1>1 DEF Target
  <2> QED
    BY <1>2, <2>1 DEF IInv, BackingsInv, Counts
<1>7. (e.created \cup Backings(e.new)) \cap DoomedIn(d) = {}
  <2>1. Own(Was(j)) \cap Taken = {}
    BY OwnBelow
  <2>2. DoomedIn(db) \subseteq Taken
    BY DEF Taken, Doomed
  <2>3. Refd(db) \cap DoomedIn(db) = {}
    BY <1>2 DEF DBInv
  <2> QED
    BY <1>1, <1>2, <2>1, <2>2, <2>3
<1> DEFINE x == Begun(d, e, u, k)
<1>8. db' = x
  BY <1>4
<1> HIDE DEF N, T, B, k
<1>9. BegunWell(d, e, x, N, u) /\ x.nextFileNum = k
  <2>3. d.held = {} /\ DBInv(d, Current(d), {}) /\ m \in Nat
    BY <1>1, <1>2 DEF T
  <2>4. GoodEdit(Current(d), DOMAIN d.backings, e)
    BY <1>1, <1>2 DEF T, B
  <2>5. Sound(Current(d), DOMAIN d.backings) /\ Counts(d.backings, Current(d))
    BY <1>2, <1>6 DEF T, B
  <2>6. BegunWell(d, e, Begun(d, e, UpdateBackings(d, e), k), Edited(Current(d), e),
                  UpdateBackings(d, e))
        /\ Begun(d, e, UpdateBackings(d, e), k).nextFileNum = k
    BY <1>5, <1>7, <2>3, <2>4, <2>5, BegunFacts
  <2> QED
    BY <1>2, <2>6 DEF x, u, N, Edited, T
<1>9a. /\ DBInv(x, N, u.zombies) /\ RefsInv(x, jobs) /\ ReadersInv(x, reader)
       /\ Refd(x) \subseteq Refd(db) \cup e.created \cup Backings(e.new)
       /\ x.versions = db.versions /\ x.current = db.current /\ x.writing
       /\ x.backings = u.backings /\ x.held = Backings(e.new) \cup u.unused
       /\ x.late = db.late /\ x.obsolete = db.obsolete
       /\ x.obsoleteManifests = db.obsoleteManifests
       /\ x.manifestFileNum = db.manifestFileNum /\ x.manifest = db.manifest
       /\ x.readState = db.readState /\ x.disabled = db.disabled
  BY <1>2, <1>9 DEF BegunWell
<1>10. EditedBackings(db.backings, T, e, u, N)
  <2>1. T \in TableSets
    BY <1>2, DBTypeFacts DEF DBInv, Current, T
  <2>2. GoodEdit(T, DOMAIN d.backings, e) /\ d \in DBType
    BY <1>1, <1>2 DEF T, B
  <2>3. Sound(T, DOMAIN d.backings) /\ Counts(d.backings, T)
    BY <1>2, <1>6 DEF T, B
  <2>4. EditedBackings(d.backings, T, e, UpdateBackings(d, e), Edited(T, e))
    BY <2>1, <2>2, <2>3, BackingsEdit
  <2> QED
    BY <1>2, <2>4 DEF u, N, Edited
<1>10a. /\ u.backings \in Maps(BackingType) /\ ~u.panic /\ N \in TableSets
       /\ DOMAIN u.backings = (B \cup e.created) \ u.unused
       /\ u.unused \subseteq B
       /\ Counts(u.backings, N) /\ Protects(db.backings, u)
       /\ Sound(N, DOMAIN u.backings)
       /\ u.unused \subseteq u.zombies /\ u.zombies \subseteq Backings(T) \cup u.unused
  BY <1>10 DEF EditedBackings, B
<1> HIDE DEF x
<1>11. /\ io'.job = j /\ io'.stage = "write"
       /\ io'.edit = [e EXCEPT !.removed = u.unused, !.next = m]
       /\ io'.tables = N /\ io'.snapshot = [Edit({}, T, B) EXCEPT !.next = m + 1]
       /\ io'.rotate = (IF rotate THEN m ELSE 0)
       /\ io'.zombies = u.zombies /\ io'.prev = db.manifestFileNum
  BY <1>4
<1>12. /\ io'.edit.del = e.del /\ io'.edit.new = e.new /\ io'.edit.created = e.created
       /\ io'.edit.next = m /\ io'.edit.removed = u.unused
  BY <1>3, <1>11 DEF EditType
<1>13. /\ io'.snapshot.new = T /\ io'.snapshot.del = {} /\ io'.snapshot.created = B
       /\ io'.snapshot.next = m + 1 /\ io'.snapshot.removed = {}
  BY <1>11 DEF Edit
<1>14. io'.rotate \in {0, m} /\ (~db.manifest => io'.rotate = m) /\ k = IF io'.rotate = 0 THEN m ELSE m + 1
  <2>1. m > 0
    BY <1>1, TakenBelow
  <2> QED
    BY <1>1, <1>2, <1>4, <1>11, <2>1 DEF k
<1>15. ~Idle'
  BY <1>11 DEF Idle
<1>16. /\ \A b \in DOMAIN db'.backings :
              db'.backings[b].prot = IF b \in DOMAIN db.backings THEN db.backings[b].prot ELSE 0
       /\ \A b \in io'.edit.removed : db.backings[b].prot = 0
  BY <1>2, <1>8, <1>9a, <1>10a, <1>12 DEF Protects
<1>17. /\ DBInv(db', io'.tables, io'.zombies) /\ RefsInv(db', jobs) /\ ReadersInv(db', reader)
       /\ Refd(db') \subseteq Refd(db) \cup e.created \cup Backings(e.new)
  BY <1>2, <1>8, <1>9a, <1>11
<1>18. /\ db'.versions = db.versions /\ db'.current = db.current /\ db'.writing
       /\ db'.held = Backings(e.new) \cup io'.edit.removed
       /\ db'.late = db.late /\ db'.obsolete = db.obsolete
       /\ db'.obsoleteManifests = db.obsoleteManifests
       /\ db'.manifestFileNum = db.manifestFileNum /\ db'.manifest = db.manifest
       /\ db'.readState = db.readState /\ db'.disabled = db.disabled
       /\ db'.nextFileNum = k
  BY <1>2, <1>8, <1>9, <1>9a, <1>12
<1>19. /\ io'.tables \in TableSets
       /\ DOMAIN db'.backings = (DOMAIN db.backings \cup e.created) \ io'.edit.removed
       /\ io'.edit.removed \subseteq DOMAIN db.backings
       /\ Counts(db'.backings, io'.tables) /\ Sound(io'.tables, DOMAIN db'.backings)
       /\ io'.edit.removed \subseteq io'.zombies
       /\ io'.zombies \subseteq Backings(Current(db)) \cup io'.edit.removed
  BY <1>8, <1>9a, <1>10a, <1>11, <1>12 DEF B, T
<1>20. io' \in IOType
  <2>1. j \in Nat
    <3>1. DOMAIN jobs \subseteq Nat
      BY IInvFacts
    <3> QED
      BY <3>1 DEF EditStep
  <2>2. T \in TableSets /\ B \subseteq Nat /\ db.manifestFileNum \in Nat
    <3>1. db \in DBType /\ db.current \in DOMAIN db.versions
      BY IInvFacts
    <3> QED
      BY <3>1, DBTypeFacts DEF T, B, Current
  <2>3. u.unused \subseteq Nat /\ u.zombies \subseteq Nat /\ N \in TableSets
    <3>1. Backings(T) \subseteq Nat
      BY <2>2, TableNumbers
    <3> QED
      BY <1>10a, <2>2, <3>1
  <2> DEFINE un == u.unused
             z == u.zombies
             ed == [e EXCEPT !.removed = un, !.next = m]
             sn == [Edit({}, T, B) EXCEPT !.next = m + 1]
             r == IF rotate THEN m ELSE 0
  <2>4. ed \in EditType
    <3>1. un \in SUBSET Nat
      BY <2>3
    <3> HIDE DEF un
    <3> QED
      BY <1>1, <1>3, <3>1 DEF EditType
  <2>5. sn \in EditType
    <3>1. sn = [del |-> {}, new |-> T, created |-> B, removed |-> {}, next |-> m + 1]
      BY DEF Edit
    <3> HIDE DEF sn
    <3> QED
      BY <1>1, <2>2, <3>1, TableSetFacts DEF EditType
  <2>6. r \in Nat
    BY <1>1
  <2>7. io' = [job |-> j, stage |-> "write", edit |-> ed, tables |-> N, snapshot |-> sn,
               rotate |-> r, zombies |-> z, prev |-> db.manifestFileNum]
    BY <1>4 DEF N
  <2> HIDE DEF ed, sn, r, z
  <2>8. z \in SUBSET Nat
    BY <2>3 DEF z
  <2> QED
    BY <2>1, <2>2, <2>3, <2>4, <2>5, <2>6, <2>7, <2>8 DEF IOType
<1>21. io'.edit = Logged(e, io'.edit.removed, m)
  BY <1>11, <1>12 DEF Logged
<1> QED
  BY <1>11, <1>12, <1>13, <1>14, <1>15, <1>16, <1>17, <1>18, <1>19, <1>20, <1>21 DEF N, T, B

\* What the step leaves that does not depend on the edit.
LEMMA EditFrame ==
  ASSUME IInv, NEW m, NEW j, NEW e, EditStep(m, j, e)
  PROVE  /\ Target = Current(db) /\ Current(db') = Current(db) /\ Target' = io'.tables
         /\ Up' /\ Settled' = Settled /\ db \in DBType /\ db' \in DBType
         /\ m \in Nat /\ m > 0 /\ m >= db.nextFileNum /\ db.nextFileNum \in Nat
         /\ db'.nextFileNum \in Nat /\ db'.nextFileNum >= m
         /\ CleanupTables' = CleanupTables /\ CleanupManifests' = CleanupManifests
         /\ Doomed' = Doomed /\ LateTables(db') = LateTables(db)
         /\ LateManifests(db') = LateManifests(db)
         /\ Inputs' = Inputs
         /\ \A n \in Numbers(io'.tables) : n \in Nat /\ n < m
         /\ \A n \in Numbers(io'.tables) :
              \/ n \in Taken \cup Own(Was(j))
              \/ db.nextFileNum <= n /\ n < m
         /\ Refd(db') \subseteq Refd(db) \cup (Own(Was(j)) \cap synced)
         /\ \A n \in DOMAIN manifests : n \in Nat /\ n < db.nextFileNum
         /\ db.manifestFileNum \in DOMAIN manifests
         /\ \A n, k : Image(n, k)' = Image(n, k)
<1>1. /\ Up /\ Idle /\ m \in Nat /\ m >= db.nextFileNum /\ phase' = phase /\ hasLog' = hasLog
      /\ UNCHANGED <<manifests, cleanup, synced, files>>
      /\ DOMAIN jobs' = DOMAIN jobs
      /\ \A i \in DOMAIN jobs : jobs'[i].in = jobs[i].in
      /\ e.created \cup Backings(e.new) \subseteq Refd(db) \cup (Own(Was(j)) \cap synced)
      /\ \A n \in Numbers(e.new) :
           \/ n \in Numbers(Current(db)) \cup Own(Was(j))
           \/ db.nextFileNum <= n /\ n < m
      /\ GoodEdit(Current(db), DOMAIN db.backings, e)
  BY DEF EditStep, SameJob, disk
<1>2. /\ ~Idle' /\ io'.tables = (Current(db) \ e.del) \cup e.new
      /\ db'.nextFileNum = (IF io'.rotate = 0 THEN m ELSE m + 1)
      /\ DBInv(db', io'.tables, io'.zombies)
      /\ Refd(db') \subseteq Refd(db) \cup e.created \cup Backings(e.new)
      /\ db'.versions = db.versions /\ db'.current = db.current
      /\ db'.late = db.late /\ db'.obsolete = db.obsolete
      /\ io'.tables \in TableSets
  BY EditBegun
<1>3. Target = Current(db) /\ Current(db') = Current(db) /\ Target' = io'.tables
  BY <1>1, <1>2 DEF Target, Current
<1>4. db \in DBType /\ db' \in DBType /\ db.nextFileNum \in Nat /\ db.nextFileNum > 0
  BY <1>1, <1>2, IInvFacts, TakenBelow DEF DBInv
<1>5. db'.nextFileNum \in Nat /\ db'.nextFileNum >= m /\ m > 0
  BY <1>1, <1>2, <1>4
<1>6. LateTables(db') = LateTables(db) /\ LateManifests(db') = LateManifests(db)
  BY <1>2 DEF LateTables, LateManifests
<1>7. CleanupTables' = CleanupTables /\ CleanupManifests' = CleanupManifests
  BY <1>1 DEF CleanupTables, CleanupManifests
<1>8. Doomed' = Doomed
  BY <1>2, <1>6, <1>7 DEF Doomed, DoomedIn
<1>9. Inputs' = Inputs
  <2>1. \A i \in DOMAIN jobs : InputsOf(jobs'[i]) = InputsOf(jobs[i])
    BY <1>1 DEF InputsOf
  <2> QED
    BY <1>1, <2>1 DEF Inputs
<1>10. ASSUME NEW n \in Numbers(io'.tables)
       PROVE  /\ n \in Numbers(Current(db)) \cup Own(Was(j)) \/ (db.nextFileNum <= n /\ n < m)
              /\ n \in Nat /\ n < m
  <2>1. n \in Nat
    BY <1>2, <1>10, TableNumbers
  <2>2. PICK t \in io'.tables : n = t.num
    BY <1>10 DEF Numbers
  <2>3. t \in Current(db) \/ t \in e.new
    BY <1>2, <2>2
  <2>4. n \in Numbers(Current(db)) \/ n \in Numbers(e.new)
    BY <2>2, <2>3 DEF Numbers
  <2>5. n \in Numbers(Current(db)) \cup Own(Was(j)) \/ (db.nextFileNum <= n /\ n < m)
    BY <1>1, <2>4
  <2>6. n \in Numbers(Current(db)) => n < db.nextFileNum
    BY <1>1, <1>3 DEF IInv, FilesInv
  <2>7. n \in Own(Was(j)) => n < db.nextFileNum
    BY OwnBelow
  <2> QED
    BY <1>1, <1>4, <2>1, <2>5, <2>6, <2>7
<1>11. Numbers(Current(db)) \subseteq Taken
  BY <1>3 DEF Taken
<1>12. Refd(db') \subseteq Refd(db) \cup (Own(Was(j)) \cap synced)
  BY <1>1, <1>2
<1>13. \A n \in DOMAIN manifests : n \in Nat /\ n < db.nextFileNum
  BY <1>1, ManifestFacts DEF IInv, FilesInv
<1>14. db.manifestFileNum \in DOMAIN manifests
  BY <1>1 DEF IInv, MarkerInv
<1>15. ASSUME NEW n, NEW k PROVE Image(n, k)' = Image(n, k)
  BY <1>1, ImageRead
<1>16. Up' /\ Settled' = Settled
  BY <1>1 DEF Up, Settled
<1> QED
  BY <1>1, <1>3, <1>4, <1>5, <1>6, <1>7, <1>8, <1>9, <1>10, <1>11, <1>12, <1>13, <1>14, <1>15, <1>16

LEMMA EditIo ==
  ASSUME IInv, NEW m, NEW j, NEW e, EditStep(m, j, e)
  PROVE  io' \in IOType /\ IoInv' /\ BackingsInv'
<1>1. /\ Up /\ Idle /\ phase' = phase /\ phase \in {"loaded", "open"}
      /\ (phase = "loaded" => j = 0) /\ (phase = "open" => j \in DOMAIN jobs)
      /\ DOMAIN jobs' = DOMAIN jobs /\ jobs \in Seq(JobType)
      /\ \A i \in DOMAIN jobs : jobs'[i].prot = jobs[i].prot
      /\ \A i \in DOMAIN jobs : i = j => jobs'[i].pc = "apply"
      /\ GoodEdit(Current(db), DOMAIN db.backings, e)
      /\ e.created \subseteq Refd(db) \cup Own(Was(j))
  BY IInvFacts DEF EditStep, SameJob
<1>2. /\ io'.job = j /\ io'.stage = "write" /\ ~Idle'
      /\ io' \in IOType
      /\ io'.edit.del = e.del /\ io'.edit.new = e.new /\ io'.edit.created = e.created
      /\ io'.edit.next = m
      /\ io'.tables = (Current(db) \ e.del) \cup e.new
      /\ io'.snapshot.new = Current(db) /\ io'.snapshot.del = {}
      /\ io'.snapshot.created = DOMAIN db.backings /\ io'.snapshot.next = m + 1
      /\ io'.rotate \in {0, m} /\ io'.prev = db.manifestFileNum
      /\ (~db.manifest => io'.rotate = m)
      /\ db'.nextFileNum = (IF io'.rotate = 0 THEN m ELSE m + 1)
      /\ db'.held = Backings(e.new) \cup io'.edit.removed
      /\ db'.manifestFileNum = db.manifestFileNum /\ db'.writing
  BY EditBegun
<1>3. /\ io'.tables \in TableSets
      /\ DOMAIN db'.backings = (DOMAIN db.backings \cup e.created) \ io'.edit.removed
      /\ io'.edit.removed \subseteq DOMAIN db.backings
      /\ Counts(db'.backings, io'.tables) /\ Sound(io'.tables, DOMAIN db'.backings)
      /\ io'.edit.removed \subseteq io'.zombies
      /\ io'.zombies \subseteq Backings(Current(db)) \cup io'.edit.removed
  BY EditBegun
<1>4. /\ \A b \in DOMAIN db'.backings :
              db'.backings[b].prot = IF b \in DOMAIN db.backings THEN db.backings[b].prot ELSE 0
      /\ \A b \in io'.edit.removed : db.backings[b].prot = 0
  BY EditBegun
<1>5. /\ Target = Current(db) /\ Current(db') = Current(db) /\ Target' = io'.tables
      /\ db \in DBType /\ m \in Nat /\ m > 0 /\ m >= db.nextFileNum /\ db.nextFileNum \in Nat
      /\ \A n \in Numbers(io'.tables) : n \in Nat /\ n < m
      /\ \A n \in DOMAIN manifests : n \in Nat /\ n < db.nextFileNum
      /\ db.manifestFileNum \in DOMAIN manifests
  BY EditFrame
<1>6. /\ Sound(Current(db), DOMAIN db.backings)
      /\ \A b \in DOMAIN db.backings : db.backings[b].prot = Cardinality(Protecting(jobs, b))
      /\ \A i \in DOMAIN jobs : jobs[i].prot # 0 => jobs[i].prot \in DOMAIN db.backings
  BY <1>5 DEF IInv, BackingsInv
<1>7. e \in EditType /\ e.created \cap DOMAIN db.backings = {}
  BY <1>1 DEF GoodEdit
<1>8. \A n \in Numbers(Current(db)) : n \in Nat /\ n < m + 1
  <2>1. \A n \in Numbers(Current(db)) : n < db.nextFileNum
    BY <1>1, <1>5 DEF IInv, FilesInv
  <2>2. Numbers(Current(db)) \subseteq Nat
    <3>1. Current(db) \in TableSets
      BY <1>5, DBTypeFacts DEF Current, IInv, DBInv
    <3> QED
      BY <3>1, TableNumbers
  <2> QED
    BY <1>5, <2>1, <2>2
<1>9. EditInv'
  <2>1. io'.rotate # 0 => io'.rotate < db'.nextFileNum /\ io'.prev < io'.rotate
    BY <1>2, <1>5
  <2>2. io'.edit.next <= db'.nextFileNum
    BY <1>2, <1>5
  <2>3. DOMAIN db'.backings = (io'.snapshot.created \cup io'.edit.created) \ io'.edit.removed
    BY <1>2, <1>3
  <2>4. io'.edit.created \cap io'.edit.removed = {}
    BY <1>2, <1>3, <1>7
  <2>5. Sound(io'.snapshot.new, io'.snapshot.created)
    BY <1>2, <1>6
  <2>6. /\ io'.snapshot.new = Current(db') /\ io'.snapshot.del = {}
        /\ io'.prev = db'.manifestFileNum
        /\ io'.tables = (Current(db') \ io'.edit.del) \cup io'.edit.new
        /\ db'.held = Backings(io'.edit.new) \cup io'.edit.removed
        /\ io'.edit.removed \subseteq io'.zombies
        /\ io'.zombies \subseteq Backings(Current(db')) \cup io'.edit.removed
    BY <1>2, <1>3, <1>5
  <2>7. (\A n \in Numbers(io'.tables) : n < io'.edit.next)
        /\ \A n \in Numbers(io'.snapshot.new) : n < io'.snapshot.next
    BY <1>2, <1>5, <1>8
  <2> QED
    BY <2>1, <2>2, <2>3, <2>4, <2>5, <2>6, <2>7 DEF EditInv
<1>10. IoInv'
  <2>1. phase = "loaded" => io'.rotate # 0 /\ io'.job = 0
    BY <1>1, <1>2, <1>5 DEF IInv, PhaseInv
  <2>2. phase = "open" => io'.job \in DOMAIN jobs' /\ jobs'[io'.job].pc = "apply"
    BY <1>1, <1>2
  <2> QED
    BY <1>1, <1>2, <1>9, <2>1, <2>2 DEF IoInv
<1>11. \A b : Protecting(jobs', b) = Protecting(jobs, b)
  BY <1>1 DEF Protecting
<1>12. \A b : IsFiniteSet(Protecting(jobs, b))
  <2> TAKE b
  <2>1. IsFiniteSet(DOMAIN jobs)
    <3>1. DOMAIN jobs = 1 .. Len(jobs) /\ Len(jobs) \in Nat
      BY <1>1
    <3> QED
      BY <3>1, FS_Interval
  <2>2. Protecting(jobs, b) \subseteq DOMAIN jobs
    BY DEF Protecting
  <2> QED
    BY <2>1, <2>2, FS_Subset
<1>13. BackingsInv'
  <2>1. ASSUME NEW b \in DOMAIN db'.backings
        PROVE  db'.backings[b].prot = Cardinality(Protecting(jobs', b))
    <3>1. CASE b \in DOMAIN db.backings
      BY <1>4, <1>6, <1>11, <2>1, <3>1
    <3>2. CASE b \notin DOMAIN db.backings
      <4>1. b \in e.created
        BY <1>3, <2>1, <3>2
      <4>2. b # 0
        <5>1. b \in Refd(db) \/ b \in Own(Was(j))
          BY <1>1, <4>1
        <5> QED
          BY <1>1, <5>1, TakenBelow, OwnBelow
      <4>3. Protecting(jobs, b) = {}
        <5>1. \A i \in DOMAIN jobs : jobs[i].prot # b
          BY <1>6, <3>2, <4>2
        <5> QED
          BY <5>1 DEF Protecting
      <4>4. Cardinality(Protecting(jobs, b)) = 0
        BY <4>3, <1>12, CardParts
      <4> QED
        BY <1>4, <1>11, <2>1, <3>2, <4>4
    <3> QED
      BY <3>1, <3>2
  <2>2. ASSUME NEW i \in DOMAIN jobs', jobs'[i].prot # 0
        PROVE  jobs'[i].prot \in DOMAIN db'.backings
    <3> DEFINE b == jobs[i].prot
    <3>0. i \in DOMAIN jobs /\ jobs'[i].prot = jobs[i].prot
      BY <1>1, <2>2
    <3>1. i \in DOMAIN jobs /\ jobs'[i].prot = b /\ b \in DOMAIN db.backings /\ b # 0
      BY <1>6, <2>2, <3>0
    <3>2. b \notin io'.edit.removed
      <4>1. i \in Protecting(jobs, b)
        BY <3>1 DEF Protecting
      <4> DEFINE P == Protecting(jobs, b)
      <4>2. IsFiniteSet(P) /\ P # {}
        BY <1>12, <4>1
      <4> HIDE DEF P
      <4>3. Cardinality(P) # 0
        BY <4>2, CardParts
      <4>4. db.backings[b].prot # 0
        BY <1>6, <3>1, <4>3 DEF P
      <4> QED
        BY <1>4, <4>4
    <3> QED
      BY <1>3, <3>1, <3>2
  <2>3. \A b \in DOMAIN db'.backings : db'.backings[b].use = Virtuals(io'.tables, b)
    BY <1>3 DEF Counts
  <2> QED
    BY <1>3, <1>5, <2>1, <2>2, <2>3 DEF BackingsInv
<1> QED
  BY <1>2, <1>10, <1>13

LEMMA EditFiles ==
  ASSUME IInv, NEW m, NEW j, NEW e, EditStep(m, j, e)
  PROVE  FilesInv' /\ OwnInv'
<1>1. /\ Up /\ Idle /\ UNCHANGED <<manifests, cleanup, synced, files, ckpt>>
      /\ DOMAIN jobs' = DOMAIN jobs
      /\ \A i \in DOMAIN jobs : SameJob(jobs[i], jobs'[i])
      /\ \A i \in DOMAIN jobs : jobs'[i].pc = IF i = j THEN "apply" ELSE jobs[i].pc
  BY DEF EditStep, disk
<1>2. /\ Target' = io'.tables /\ Up'
      /\ m \in Nat /\ m > 0 /\ m >= db.nextFileNum /\ db.nextFileNum \in Nat
      /\ db'.nextFileNum \in Nat /\ db'.nextFileNum >= m
      /\ CleanupTables' = CleanupTables /\ Doomed' = Doomed /\ Inputs' = Inputs
      /\ Refd(db') \subseteq Refd(db) \cup (Own(Was(j)) \cap synced)
  BY EditFrame
<1>3. /\ \A n \in Numbers(io'.tables) : n \in Nat /\ n < m
      /\ \A n \in Numbers(io'.tables) :
              \/ n \in Taken \cup Own(Was(j))
              \/ db.nextFileNum <= n /\ n < m
  BY EditFrame
<1>4. FilesInv'
  <2>1. FilesInv
    BY DEF IInv
  <2>2. Refd(db') \subseteq synced' /\ Refd(db') \cap CleanupTables' = {}
    <3>1. Own(Was(j)) \cap Taken = {}
      BY OwnBelow
    <3>2. CleanupTables \subseteq Taken
      BY DEF Taken, Doomed
    <3> QED
      BY <1>1, <1>2, <2>1, <3>1, <3>2 DEF FilesInv
  <2>3. \A f \in files' \cup Doomed' \cup DOMAIN manifests' : f < db'.nextFileNum
    <3>1. ASSUME NEW f \in files \cup Doomed \cup DOMAIN manifests PROVE f < db'.nextFileNum
      <4>1. f < db.nextFileNum
        BY <1>1, <2>1 DEF FilesInv
      <4>2. f \in Nat
        <5>1. f \in Doomed => f \in Nat
          BY <1>1, TakenBelow DEF Taken
        <5> QED
          BY <1>1, <5>1, TakenBelow, ManifestFacts
      <4> QED
        BY <1>2, <4>1, <4>2
    <3> QED
      BY <1>1, <1>2, <3>1
  <2>4. \A n \in Numbers(Target') : n < db'.nextFileNum
    BY <1>2, <1>3
  <2>5. /\ \A f \in files' \cup DOMAIN manifests' : f > 0
        /\ \A q \in Range(cleanup') : q.tables \cup q.manifests # {}
    BY <1>1, <2>1 DEF FilesInv
  <2> QED
    BY <2>2, <2>3, <2>4, <2>5 DEF FilesInv
<1>5. ASSUME NEW i \in DOMAIN jobs
      PROVE  /\ i # j => Own(jobs'[i]) = Own(jobs[i]) /\ jobs'[i].pc = jobs[i].pc
                         /\ jobs'[i].edit = jobs[i].edit
             /\ i = j => Own(jobs'[i]) = {}
  BY <1>1 DEF SameJob, Own, Pending
<1>6. \A n \in Taken' : n \in Taken \/ n \in Own(Was(j)) \/ n >= db.nextFileNum
  <2> TAKE n \in Taken'
  <2>1. Taken' = Numbers(io'.tables) \cup Refd(db') \cup Doomed' \cup ckpt'.need \cup Inputs'
    BY <1>2 DEF Taken
  <2>2. Refd(db) \cup Doomed \cup ckpt.need \cup Inputs \subseteq Taken
    BY DEF Taken
  <2> QED
    BY <1>1, <1>2, <1>3, <2>1, <2>2
<1>7. OwnInv'
  <2>0. OwnInv
    BY DEF IInv
  <2>1. ASSUME NEW i \in DOMAIN jobs PROVE Own(jobs'[i]) \cap Taken' = {}
    <3>1. CASE i = j
      BY <1>5, <3>1
    <3>2. CASE i # j
      <4>1. Own(jobs[i]) \cap Taken = {} /\ Own(jobs[i]) \cap Own(Was(j)) = {}
        BY <2>0, <3>2, OwnBelow DEF OwnInv
      <4>2. \A n \in Own(jobs[i]) : n \in Nat /\ n < db.nextFileNum
        <5>1. Was(i) = jobs[i]
          BY DEF Was
        <5> QED
          BY <5>1, OwnBelow
      <4> QED
        BY <1>2, <1>5, <1>6, <3>2, <4>1, <4>2
    <3> QED
      BY <3>1, <3>2
  <2>2. \A i \in DOMAIN jobs : \A n \in Own(jobs'[i]) : 0 < n /\ n < db'.nextFileNum
    <3> TAKE i \in DOMAIN jobs
    <3> TAKE n \in Own(jobs'[i])
    <3>1. Own(jobs'[i]) = Own(jobs[i]) /\ Was(i) = jobs[i]
      BY <1>5 DEF Was
    <3>2. n \in Nat /\ n > 0 /\ n < db.nextFileNum
      BY <3>1, OwnBelow
    <3> QED
      BY <1>2, <3>2
  <2>3. \A i, k \in DOMAIN jobs : i # k => Own(jobs'[i]) \cap Own(jobs'[k]) = {}
    <3> TAKE i, k \in DOMAIN jobs
    <3> HAVE i # k
    <3>1. Own(jobs[i]) \cap Own(jobs[k]) = {}
      BY <2>0 DEF OwnInv
    <3>2. Own(jobs'[i]) \subseteq Own(jobs[i]) /\ Own(jobs'[k]) \subseteq Own(jobs[k])
      BY <1>5
    <3> QED
      BY <3>1, <3>2
  <2>4. \A f \in Inputs' : f < db'.nextFileNum
    <3> TAKE f \in Inputs'
    <3>1. f \in Taken /\ f \in Inputs
      BY <1>2 DEF Taken
    <3>2. f \in Nat /\ f < db.nextFileNum
      BY <1>1, <3>1, TakenBelow
    <3> QED
      BY <1>2, <3>2
  <2>5. \A i \in DOMAIN jobs :
          Own(jobs'[i]) \cap Backings(jobs'[i].edit.new) \subseteq
            IF jobs'[i].pc = "sync" THEN files' ELSE synced'
    <3> TAKE i \in DOMAIN jobs
    <3>1. CASE i = j
      BY <1>5, <3>1
    <3>2. CASE i # j
      BY <1>1, <1>5, <2>0, <3>2 DEF OwnInv
    <3> QED
      BY <3>1, <3>2
  <2> QED
    BY <1>1, <2>1, <2>2, <2>3, <2>4, <2>5 DEF OwnInv
<1> QED
  BY <1>4, <1>7

LEMMA EditJobs ==
  ASSUME IInv, NEW m, NEW j, NEW e, EditStep(m, j, e)
  PROVE  JobsInv' /\ LockInv' /\ RefsInv(db', jobs')
<1>1. /\ Up /\ Idle /\ DOMAIN jobs' = DOMAIN jobs
      /\ \A i \in DOMAIN jobs : jobs'[i].pc = IF i = j THEN "apply" ELSE jobs[i].pc
      /\ (phase = "open" => j \in DOMAIN jobs /\ jobs[j].pc \in {"lock", "target"})
      /\ (phase = "loaded" => j = 0) /\ phase \in {"loaded", "open"}
      /\ (phase = "open" => ~db.writing \/ Was(j).pc = "target")
      /\ jobs \in Seq(JobType)
  BY IInvFacts DEF EditStep
<1>2. \A i \in DOMAIN jobs :
        /\ jobs'[i].kind = jobs[i].kind /\ jobs'[i].in = jobs[i].in
        /\ jobs'[i].span = jobs[i].span /\ jobs'[i].edit = jobs[i].edit
        /\ jobs'[i].version = jobs[i].version /\ jobs'[i].prot = jobs[i].prot
        /\ (jobs[i].cancel => jobs'[i].cancel)
  BY DEF EditStep, SameJob
<1>3. /\ io'.job = j /\ ~Idle' /\ io'.tables = (Current(db) \ e.del) \cup e.new
      /\ db'.versions = db.versions /\ RefsInv(db', jobs)
      /\ Current(db') = Current(db) /\ Target = Current(db) /\ Target' = io'.tables
  BY EditBegun, EditFrame
<1>4. j \in DOMAIN jobs => jobs[j].pc \in {"lock", "target"}
  <2>1. 0 \notin DOMAIN jobs
    BY <1>1
  <2> QED
    BY <1>1, <2>1
<1>5. ASSUME NEW i \in DOMAIN jobs PROVE JobOK(jobs'[i])
  <2>1. JobOK(jobs[i])
    BY DEF IInv, JobsInv
  <2>2. CASE i # j
    <3>1. jobs'[i].pc = jobs[i].pc
      BY <1>1, <2>2
    <3> QED
      BY <1>2, <2>1, <3>1 DEF JobOK, Shape, Pending
  <2>3. CASE i = j
    <3>1. jobs'[i].pc = "apply" /\ jobs[i].pc \in {"lock", "target"}
      BY <1>1, <1>4, <2>3
    <3>2. "apply" \in Places(jobs[i].kind)
      BY <2>1, <3>1 DEF JobOK, Places
    <3> QED
      BY <1>2, <2>1, <3>1, <3>2 DEF JobOK, Pending
  <2> QED
    BY <2>2, <2>3
<1>6. ASSUME NEW i \in DOMAIN jobs PROVE InputsInv(jobs'[i], db', Target')
  <2>1. InputsInv(jobs[i], db, Target)
    BY DEF IInv, JobsInv
  <2>2. CASE i # j
    <3>1. jobs'[i].pc = jobs[i].pc
      BY <1>1, <2>2
    <3>2. jobs[i].kind \in {"compact", "move", "deleteonly"} /\ ~jobs'[i].cancel
            /\ jobs[i].pc \in {"start", "run", "sync", "lock"}
          => jobs[i].in \cap e.del = {}
      BY <2>2 DEF EditStep
    <3> QED
      BY <1>2, <1>3, <2>1, <3>1, <3>2 DEF InputsInv
  <2>3. CASE i = j
    <3>1. jobs'[i].pc = "apply" /\ jobs[i].pc \in {"lock", "target"}
      BY <1>1, <1>4, <2>3
    <3> QED
      BY <1>2, <2>1, <3>1 DEF InputsInv
  <2> QED
    BY <2>2, <2>3
<1>7. JobsInv'
  <2>1. \A i, k \in DOMAIN jobs : Compaction(i)' /\ Compaction(k)' => i = k
    BY <1>2 DEF IInv, JobsInv, Compaction
  <2> QED
    BY <1>1, <1>5, <1>6, <2>1 DEF JobsInv
<1>8. LockInv'
  <2>1. LockInv
    BY DEF IInv
  <2>2. \A i \in DOMAIN jobs : jobs'[i].pc = "apply" => i = j
    BY <1>1, <2>1 DEF LockInv
  <2>3. \A i \in DOMAIN jobs : jobs'[i].pc # "target"
    <3> SUFFICES ASSUME NEW i \in DOMAIN jobs, jobs'[i].pc = "target" PROVE FALSE
      OBVIOUS
    <3>1. i # j /\ jobs[i].pc = "target"
      BY <1>1
    <3>2. db.writing
      BY <2>1, <3>1 DEF LockInv
    <3>3. Was(j).pc = "target"
      <4>1. phase = "open"
        BY <3>1, JobFacts
      <4> QED
        BY <1>1, <3>2, <4>1
    <3>4. j \in DOMAIN jobs /\ jobs[j].pc = "target"
      BY <3>3, DoneType DEF Was
    <3> QED
      BY <2>1, <3>1, <3>4 DEF LockInv
  <2> QED
    BY <1>1, <1>3, <2>2, <2>3 DEF LockInv
<1>9. RefsInv(db', jobs')
  <2>1. \A v : JobsOf(jobs', v) = JobsOf(jobs, v)
    BY <1>1, <1>2 DEF JobsOf
  <2> QED
    BY <1>1, <1>2, <1>3, <2>1 DEF RefsInv
<1> QED
  BY <1>7, <1>8, <1>9

LEMMA EditDisk ==
  ASSUME IInv, NEW m, NEW j, NEW e, EditStep(m, j, e)
  PROVE  PhaseInv' /\ MarkerInv' /\ StageInv' /\ CkptInv'
<1>1. /\ Up /\ Idle /\ phase \in {"loaded", "open"} /\ DOMAIN jobs' = DOMAIN jobs
      /\ UNCHANGED <<disk, phase, ckpt, reader, cleanup>>
      /\ (phase = "loaded" => hasLog)
      /\ jobs \in Seq(JobType) /\ jobs' \in Seq(JobType)
      /\ \A i \in DOMAIN jobs : phase = "loaded" => jobs'[i] = jobs[i]
  BY IInvFacts DEF EditStep
<1>2. /\ io'.stage = "write" /\ ~Idle'
      /\ io'.snapshot.new = Current(db) /\ io'.snapshot.created = DOMAIN db.backings
      /\ io'.rotate \in {0, m}
      /\ db'.versions = db.versions /\ db'.current = db.current
      /\ db'.late = db.late /\ db'.obsolete = db.obsolete
      /\ db'.obsoleteManifests = db.obsoleteManifests
      /\ db'.manifestFileNum = db.manifestFileNum /\ db'.manifest = db.manifest
      /\ db'.readState = db.readState /\ db'.disabled = db.disabled
  BY EditBegun
<1>3. /\ Up' /\ Settled' = Settled /\ db' \in DBType
      /\ m \in Nat /\ m >= db.nextFileNum /\ db.nextFileNum \in Nat
      /\ CleanupManifests' = CleanupManifests /\ CleanupTables' = CleanupTables
      /\ LateTables(db') = LateTables(db) /\ LateManifests(db') = LateManifests(db)
      /\ \A n \in DOMAIN manifests : n \in Nat /\ n < db.nextFileNum
      /\ \A n, k : Image(n, k)' = Image(n, k)
  BY EditFrame
<1>4. PhaseInv'
  BY <1>1, <1>2 DEF IInv, PhaseInv, disk
<1>5. MarkerInv'
  <2>1. /\ UNCHANGED <<manifests, marker>> /\ (~hasLog' => ~hasLog) /\ synced \subseteq synced'
    BY <1>1 DEF disk
  <2>2. db'.obsoleteManifests \cup LateManifests(db') \cup CleanupManifests' \subseteq
          db.obsoleteManifests \cup LateManifests(db) \cup CleanupManifests
    BY <1>2, <1>3
  <2> QED
    BY <1>1, <1>2, <1>3, <2>1, <2>2, MarkerFrame
<1>6. StageInv'
  <2>1. AtRest(Pair(Current(db), DOMAIN db.backings))
    BY <1>1 DEF IInv, StageInv
  <2>2. AtRest(Before)'
    <3>1. Before' = Pair(Current(db), DOMAIN db.backings)
      BY <1>2 DEF Before
    <3> DEFINE P == Pair(Current(db), DOMAIN db.backings)
               n == db.manifestFileNum
    <3>2. /\ Last(marker) = n /\ Image(n, Records(n)) = P
          /\ Settled => marker = <<n>> /\ Full(n)
      BY <2>1 DEF AtRest
    <3>3. manifests' = manifests /\ marker' = marker
      BY <1>1 DEF disk
    <3>4. /\ Image(n, Records(n)) = ReadBack(manifests[n].recs, Len(manifests[n].recs))
          /\ Image(n, Records(n))' = ReadBack(manifests'[n'].recs, Len(manifests'[n'].recs))
      BY OpenRead
    <3>5. Image(n, Records(n))' = Image(n, Records(n))
      BY <1>2, <3>3, <3>4
    <3>6. Full(n)' <=> Full(n)
      BY <1>2, <3>3 DEF Full, Records
    <3>7. /\ Last(marker') = n' /\ Image(n, Records(n))' = Before'
          /\ Settled' => marker' = <<n'>> /\ Full(n)'
      BY <1>2, <1>3, <3>1, <3>2, <3>3, <3>5, <3>6
    <3> QED
      BY <3>7 DEF AtRest
  <2>3. io'.rotate # 0 => io'.rotate \notin DOMAIN manifests'
    BY <1>1, <1>2, <1>3 DEF disk
  <2> QED
    BY <1>2, <2>2, <2>3 DEF StageInv
<1>7. CkptInv'
  <2>1. CkptInv
    BY DEF IInv
  <2>2. ckpt' = ckpt /\ manifests' = manifests /\ files' = files
    BY <1>1 DEF disk
  <2>3. Image(ckpt.manifest, ckpt.size)' = Image(ckpt.manifest, ckpt.size)
    <3>1. /\ Image(ckpt.manifest, ckpt.size) = ReadBack(manifests[ckpt.manifest].recs, ckpt.size)
          /\ Image(ckpt.manifest, ckpt.size)' = ReadBack(manifests'[ckpt'.manifest].recs, ckpt'.size)
      BY DEF Image, ReadBack, Pair
    <3> QED
      BY <2>2, <3>1
  <2>4. Records(ckpt.manifest)' = Records(ckpt.manifest)
    BY <2>2 DEF Records
  <2> QED
    BY <1>3, <2>1, <2>2, <2>3, <2>4 DEF CkptInv
<1> QED
  BY <1>4, <1>5, <1>6, <1>7

LEMMA EditStepInv ==
  ASSUME IInv, NEW m, NEW j, NEW e, EditStep(m, j, e) PROVE IInv'
<1>1. UNCHANGED <<disk, phase, ckpt, reader, cleanup>> /\ jobs' \in Seq(JobType)
  BY DEF EditStep
<1>2. DBInv(db', io'.tables, io'.zombies) /\ ReadersInv(db', reader)
  BY EditBegun
<1>3. Target' = io'.tables /\ db' \in DBType
  BY EditFrame
<1>4. io' \in IOType /\ IoInv' /\ BackingsInv'
  BY EditIo
<1>5. FilesInv' /\ OwnInv'
  BY EditFiles
<1>6. JobsInv' /\ LockInv' /\ RefsInv(db', jobs')
  BY EditJobs
<1>7. PhaseInv' /\ MarkerInv' /\ StageInv' /\ CkptInv'
  BY EditDisk
<1>8. TypeOK'
  BY <1>1, <1>3, <1>4 DEF IInv, TypeOK, DiskType, disk
<1>9. DBInv(db', Target', io'.zombies) /\ ReadersInv(db', reader')
  BY <1>1, <1>2, <1>3
<1> QED
  BY <1>4, <1>5, <1>6, <1>7, <1>8, <1>9 DEF IInv

(***************************************************************************)
(* The edits of the jobs.                                                  *)
(***************************************************************************)
\* What an edit that begins may bring.
FitEdit(m, j, e) ==
  /\ GoodEdit(Current(db), DOMAIN db.backings, e)
  /\ e.created \cup Backings(e.new) \subseteq Refd(db) \cup (Own(Was(j)) \cap synced)
  /\ \A n \in Numbers(e.new) :
       \/ n \in Numbers(Current(db)) \cup Own(Was(j))
       \/ db.nextFileNum <= n /\ n < m

\* Idle is what no one holding the manifest lock is busy with.
LEMMA IdleFacts ==
  ASSUME IInv, Idle, Up
  PROVE  /\ Target = Current(db) /\ Sound(Current(db), DOMAIN db.backings)
         /\ Current(db) \in TableSets /\ Backings(Current(db)) \subseteq Refd(db)
         /\ DOMAIN db.backings \subseteq Refd(db)
         /\ Numbers(Current(db)) \subseteq Taken /\ Refd(db) \subseteq Taken
         /\ db.nextFileNum \in Nat /\ SetNext(db, db.nextFileNum) = db
<1>1. Target = Current(db)
  BY DEF Target
<1>2. Sound(Current(db), DOMAIN db.backings)
  BY <1>1 DEF IInv, BackingsInv
<1>3. db \in DBType /\ db.current \in DOMAIN db.versions /\ db.nextFileNum \in Nat
  BY IInvFacts
<1>4. Current(db) \in TableSets
  BY <1>3, DBTypeFacts DEF Current
<1>5. Backings(Current(db)) \subseteq Refd(db) /\ DOMAIN db.backings \subseteq Refd(db)
  BY <1>3 DEF Refd, Current
<1>6. Numbers(Current(db)) \subseteq Taken /\ Refd(db) \subseteq Taken
  BY <1>1 DEF Taken
<1>7. SetNext(db, db.nextFileNum) = db
  BY <1>3 DEF SetNext, DBType
<1> QED
  BY <1>1, <1>2, <1>3, <1>4, <1>5, <1>6, <1>7

\* The job that has the lock begins its own edit.
LEMMA ApplyStep ==
  ASSUME IInv, NEW j \in DOMAIN jobs, jobs[j].pc \in {"lock", "target"}, Idle,
         ~db.writing \/ jobs[j].pc = "target",
         BeginEdit(db, j, jobs[j].edit), jobs' = [jobs EXCEPT ![j].pc = "apply"],
         UNCHANGED <<disk, phase, ckpt, reader, cleanup>>,
         FitEdit(db.nextFileNum, j, jobs[j].edit),
         \A i \in DOMAIN jobs \ {j} :
           jobs[i].kind \in {"compact", "move", "deleteonly"} => jobs[j].edit.del = {}
  PROVE  EditStep(db.nextFileNum, j, jobs[j].edit)
<1> DEFINE a == jobs[j]
           x == [a EXCEPT !.pc = "apply"]
           m == db.nextFileNum
           e == jobs[j].edit
<1>1. /\ a \in JobType /\ Was(j) = a /\ jobs \in Seq(JobType) /\ phase = "open" /\ Up
  BY JobFacts, IInvFacts
<1>2. jobs' = [jobs EXCEPT ![j] = x]
  BY <1>1 DEF JobType
<1>3. /\ x \in JobType /\ x.pc = "apply" /\ SameJob(a, x)
  BY <1>1 DEF JobType, SameJob
<1> HIDE DEF x
<1>4. /\ jobs' \in Seq(JobType) /\ DOMAIN jobs' = DOMAIN jobs /\ jobs'[j] = x
      /\ \A i \in DOMAIN jobs : i # j => jobs'[i] = jobs[i]
  <2>1. JobStep(j, x)
    BY <1>1, <1>2, <1>3, JobChanged
  <2>2. DOMAIN jobs' = DOMAIN jobs
    BY <1>2
  <2> QED
    BY <2>1, <2>2 DEF JobStep
<1>5. \A i \in DOMAIN jobs : SameJob(jobs[i], jobs[i])
  BY DEF SameJob
<1>6. BeginEdit(SetNext(db, m), j, e)
  BY <1>1, IdleFacts
<1>7. m \in Nat /\ m >= db.nextFileNum
  BY <1>1, IdleFacts
<1>8. FitEdit(m, j, e) /\ \A i \in DOMAIN jobs \ {j} :
           jobs[i].kind \in {"compact", "move", "deleteonly"} => jobs[i].in \cap e.del = {}
  OBVIOUS
<1>9. Was(j).pc = jobs[j].pc
  BY <1>1
<1> HIDE DEF m, e
<1>10. \A i \in DOMAIN jobs :
       /\ SameJob(jobs[i], jobs'[i])
       /\ jobs'[i].pc = IF i = j THEN "apply" ELSE jobs[i].pc
  BY <1>3, <1>4, <1>5
<1>11. EditStep(m, j, e)
  BY <1>1, <1>4, <1>6, <1>7, <1>8, <1>9, <1>10 DEF EditStep, FitEdit
<1> QED
  BY <1>11 DEF m, e

LEMMA FitNew ==
  ASSUME IInv, Idle, Up, NEW j \in DOMAIN jobs, jobs[j].pc = "lock",
         NewTable(jobs[j].edit, jobs[j].in), jobs[j].in \subseteq Current(db)
  PROVE  FitEdit(db.nextFileNum, j, jobs[j].edit)
<1> DEFINE e == jobs[j].edit
           T == Current(db)
           B == DOMAIN db.backings
<1>1. PICK t \in e.new : e.new = {t} /\ ~t.virtual /\ t.backing = t.num
                      /\ t.num \notin Numbers(jobs[j].in)
  BY DEF NewTable
<1>2. e.del = jobs[j].in /\ e.created = {} /\ e \in EditType /\ Was(j) = jobs[j]
  BY JobFacts DEF NewTable, JobType
<1>3. t.num \in Own(jobs[j])
  BY <1>1 DEF Own, Pending, Numbers
<1>4. t.num \notin Taken
  BY <1>2, <1>3, OwnBelow
<1>5. t.num \notin Numbers(T) /\ t.num \notin B /\ Sound(T, B)
  BY <1>4, IdleFacts
<1>6. \A s \in T : s.num # t.num
  BY <1>5 DEF Numbers
<1>7. GoodEdit(T, B, e)
  BY <1>1, <1>2, <1>5, <1>6 DEF GoodEdit, Sound
<1>8. Backings(e.new) = {t.num} /\ Numbers(e.new) = {t.num}
  BY <1>1 DEF Backings, Numbers
<1>9. Own(jobs[j]) \cap Backings(e.new) \subseteq synced
  BY DEF IInv, OwnInv
<1> QED
  BY <1>2, <1>3, <1>7, <1>8, <1>9 DEF FitEdit

LEMMA FitMoved ==
  ASSUME IInv, Idle, Up, NEW j \in DOMAIN jobs, jobs[j].pc = "lock",
         MovedTables(jobs[j].edit, jobs[j].in), jobs[j].in \subseteq Current(db)
  PROVE  FitEdit(db.nextFileNum, j, jobs[j].edit)
<1> DEFINE e == jobs[j].edit
           I == jobs[j].in
           T == Current(db)
           B == DOMAIN db.backings
           Moved(t) == [t EXCEPT !.level = 1]
<1>1. e.del = I /\ e.created = {} /\ e.new = {Moved(t) : t \in I} /\ e \in EditType
  BY JobFacts DEF MovedTables, JobType
<1>2. Sound(T, B) /\ I \subseteq T /\ T \subseteq TableType
  BY IdleFacts DEF TableSets
<1>3. \A t \in T : /\ Moved(t).num = t.num /\ Moved(t).backing = t.backing
                   /\ Moved(t).virtual = t.virtual
  BY <1>2 DEF TableType
<1> HIDE DEF Moved
<1>4. \A u \in e.new : \E t \in I : u = Moved(t) /\ u.num = t.num /\ u.backing = t.backing
                                    /\ u.virtual = t.virtual
  BY <1>1, <1>2, <1>3
<1>5. \A u \in e.new \cap (T \ e.del) : FALSE
  <2> SUFFICES ASSUME NEW u \in e.new, u \in T \ e.del PROVE FALSE
    OBVIOUS
  <2>1. PICK t \in I : u.num = t.num
    BY <1>4
  <2> QED
    BY <1>1, <1>2, <2>1 DEF Sound
<1>6. \A t, u \in (T \ e.del) \cup e.new : t.num = u.num => t = u
  <2> SUFFICES ASSUME NEW t \in (T \ e.del) \cup e.new, NEW u \in (T \ e.del) \cup e.new,
                      t.num = u.num
               PROVE  t = u
    OBVIOUS
  <2>1. \A a, b \in T : a.num = b.num => a = b
    BY <1>2 DEF Sound
  <2>2. CASE t \in e.new /\ u \in e.new
    <3>1. PICK a \in I : t = Moved(a) /\ t.num = a.num
      BY <1>4, <2>2
    <3>2. PICK b \in I : u = Moved(b) /\ u.num = b.num
      BY <1>4, <2>2
    <3>3. a = b
      BY <1>2, <2>1, <3>1, <3>2
    <3> QED
      BY <3>1, <3>2, <3>3
  <2>3. CASE t \in e.new /\ u \in T \ e.del
    <3>1. PICK a \in I : t.num = a.num
      BY <1>4, <2>3
    <3> QED
      BY <1>1, <1>2, <2>1, <2>3, <3>1
  <2>4. CASE u \in e.new /\ t \in T \ e.del
    <3>1. PICK a \in I : u.num = a.num
      BY <1>4, <2>4
    <3> QED
      BY <1>1, <1>2, <2>1, <2>4, <3>1
  <2>5. CASE t \in T \ e.del /\ u \in T \ e.del
    BY <2>1, <2>5
  <2> QED
    BY <2>2, <2>3, <2>4, <2>5
<1>7. \A t \in e.new : IF t.virtual THEN t.backing \in B \cup e.created
                      ELSE t.backing = t.num /\ t.num \notin B \cup e.created
  BY <1>1, <1>2, <1>4 DEF Sound
<1>8. GoodEdit(T, B, e)
  BY <1>1, <1>2, <1>5, <1>6, <1>7 DEF GoodEdit
<1>9. Backings(e.new) \subseteq Backings(T) /\ Numbers(e.new) \subseteq Numbers(T)
  BY <1>2, <1>4 DEF Backings, Numbers
<1>10. Backings(T) \subseteq Refd(db)
  BY IdleFacts
<1> QED
  BY <1>1, <1>8, <1>9, <1>10 DEF FitEdit

LEMMA FitExcised ==
  ASSUME IInv, Idle, Up, NEW j \in DOMAIN jobs, jobs[j].pc = "lock",
         ExcisedTable(jobs[j].edit, jobs[j].in), jobs[j].in \subseteq Current(db)
  PROVE  FitEdit(db.nextFileNum, j, jobs[j].edit)
<1> DEFINE e == jobs[j].edit
           T == Current(db)
           B == DOMAIN db.backings
<1>1. PICK t \in jobs[j].in :
        /\ jobs[j].in = {t} /\ e.del = {t}
        /\ \A u \in e.new : u.virtual /\ u.backing = t.backing /\ u.num # t.num
        /\ \A u, w \in e.new : u.num = w.num => u = w
        /\ e.created = IF e.new = {} \/ t.virtual THEN {} ELSE {t.backing}
  BY DEF ExcisedTable
<1>2. e \in EditType /\ Was(j) = jobs[j]
  BY JobFacts DEF JobType
<1>3. Sound(T, B) /\ t \in T
  BY <1>1, IdleFacts
<1>4. \A u \in e.new : u.num \in Own(jobs[j])
  BY <1>1 DEF Own, Pending, Numbers
<1>5. \A u \in e.new, s \in T : u.num # s.num
  <2>1. \A u \in e.new : u.num \notin Taken
    BY <1>2, <1>4, OwnBelow
  <2>2. \A s \in T : s.num \in Taken
    <3>1. \A s \in T : s.num \in Numbers(T)
      BY DEF Numbers
    <3> QED
      BY <3>1, IdleFacts
  <2> QED
    BY <2>1, <2>2
<1>6. \A a, b \in (T \ e.del) \cup e.new : a.num = b.num => a = b
  BY <1>1, <1>3, <1>5 DEF Sound
<1>7. e.created \cap B = {} /\ \A b \in e.created : b = t.backing /\ ~t.virtual /\ e.new # {}
  BY <1>1, <1>3 DEF Sound
<1>8. \A u \in e.new : u.virtual /\ u.backing \in B \cup e.created
  BY <1>1, <1>3 DEF Sound
<1>9. \A b \in e.created : /\ \E u \in e.new : u.virtual /\ u.backing = b
                          /\ \A s \in T \ e.del : ~s.virtual => s.backing # b
  <2> TAKE b \in e.created
  <2>1. \A s \in T \ e.del : ~s.virtual => s.backing # b
    BY <1>1, <1>3, <1>7 DEF Sound
  <2> QED
    BY <1>1, <1>7, <2>1
<1>10. GoodEdit(T, B, e)
  BY <1>1, <1>2, <1>3, <1>5, <1>6, <1>7, <1>8, <1>9 DEF GoodEdit
<1>11. e.created \cup Backings(e.new) \subseteq Backings(T)
  BY <1>1, <1>3 DEF Backings
<1>12. Backings(T) \subseteq Refd(db)
  BY IdleFacts
<1>13. Numbers(e.new) \subseteq Own(jobs[j])
  BY <1>4 DEF Numbers
<1> QED
  BY <1>2, <1>10, <1>11, <1>12, <1>13 DEF FitEdit

LEMMA FitExternal ==
  ASSUME IInv, Idle, Up, NEW j \in DOMAIN jobs, jobs[j].pc = "target", jobs[j].in = {},
         ExternalTable(jobs[j].edit, jobs[j].prot)
  PROVE  FitEdit(db.nextFileNum, j, jobs[j].edit)
<1> DEFINE e == jobs[j].edit
           p == jobs[j].prot
           T == Current(db)
           B == DOMAIN db.backings
<1>1. PICK t \in e.new :
        /\ e.del = {} /\ e.new = {t} /\ t.virtual
        /\ IF p = 0 THEN e.created = {t.num} /\ t.backing = t.num
           ELSE e.created = {} /\ t.backing = p
  BY DEF ExternalTable
<1>2. e \in EditType /\ Was(j) = jobs[j]
  BY JobFacts DEF JobType
<1>3. t.num \in Own(jobs[j])
  BY <1>1 DEF Own, Pending, Numbers
<1>4. t.num \notin Taken
  BY <1>2, <1>3, OwnBelow
<1>5. t.num \notin Numbers(T) /\ t.num \notin Refd(db) /\ Sound(T, B) /\ B \subseteq Refd(db)
      /\ Backings(T) \subseteq Refd(db)
  BY <1>4, IdleFacts
<1>6. p # 0 => p \in B
  BY DEF IInv, BackingsInv
<1>7. \A s \in T : s.num # t.num /\ s.backing # t.num
  BY <1>5 DEF Numbers, Backings
<1>8. GoodEdit(T, B, e)
  BY <1>1, <1>2, <1>5, <1>6, <1>7 DEF GoodEdit, Sound
<1>9. Backings(e.new) = {t.backing} /\ Numbers(e.new) = {t.num}
  BY <1>1 DEF Backings, Numbers
<1>10. Own(jobs[j]) \cap Backings(e.new) \subseteq synced
  BY DEF IInv, OwnInv
<1> QED
  BY <1>1, <1>2, <1>3, <1>5, <1>6, <1>8, <1>9, <1>10 DEF FitEdit

\* A flush or a compaction that is not cancelled begins its edit.
LEMMA ApplyTablesBegins ==
  ASSUME IInv, NEW j \in DOMAIN jobs, ApplyTables(j), ~(jobs[j].cancel /\ Compaction(j))
  PROVE  /\ EditStep(db.nextFileNum, j, jobs[j].edit)
         /\ jobs[j].pc = "lock" /\ JobOK(jobs[j]) /\ Shape(jobs[j])
         /\ jobs[j].in \subseteq Current(db) /\ (Compaction(j) \/ jobs[j].kind = "flush")
<1>1. /\ jobs[j].pc = "lock" /\ ~db.writing /\ (Compaction(j) \/ jobs[j].kind = "flush")
      /\ BeginEdit(db, j, jobs[j].edit) /\ jobs' = [jobs EXCEPT ![j].pc = "apply"]
      /\ UNCHANGED <<disk, phase, ckpt, reader, cleanup>>
  BY DEF ApplyTables
<1>2. Idle
  BY <1>1 DEF IInv, IoInv
<1>3. Up /\ JobOK(jobs[j]) /\ InputsInv(jobs[j], db, Target)
  BY <1>1, JobFacts
<1>4. jobs[j].in \subseteq Current(db)
  BY <1>1, <1>3 DEF JobOK, InputsInv, Compaction
<1>5. Shape(jobs[j])
  BY <1>1, <1>3 DEF JobOK, Pending
<1>6. FitEdit(db.nextFileNum, j, jobs[j].edit)
  <2>1. CASE jobs[j].kind \in {"flush", "compact"}
    BY <1>1, <1>2, <1>3, <1>4, <1>5, <2>1, FitNew DEF Shape
  <2>2. CASE jobs[j].kind = "move"
    BY <1>1, <1>2, <1>3, <1>4, <1>5, <2>2, FitMoved DEF Shape
  <2>3. CASE jobs[j].kind = "deleteonly"
    BY <1>1, <1>2, <1>3, <1>4, <1>5, <2>3, FitExcised DEF Shape
  <2> QED
    BY <1>1, <2>1, <2>2, <2>3 DEF Compaction
<1>7. \A i \in DOMAIN jobs \ {j} :
        jobs[i].kind \in {"compact", "move", "deleteonly"} => jobs[j].edit.del = {}
  <2>1. CASE Compaction(j)
    BY <2>1 DEF IInv, JobsInv, Compaction
  <2>2. CASE jobs[j].kind = "flush"
    BY <1>3, <1>5, <2>2 DEF JobOK, Shape, NewTable
  <2> QED
    BY <1>1, <2>1, <2>2
<1> QED
  BY <1>1, <1>2, <1>3, <1>4, <1>5, <1>6, <1>7, ApplyStep

LEMMA ApplyTablesInv ==
  ASSUME IInv, NEW j \in DOMAIN jobs, ApplyTables(j) PROVE IInv'
<1>1. CASE jobs[j].cancel /\ Compaction(j)
  BY <1>1, ApplyCancelledInv
<1>2. CASE ~(jobs[j].cancel /\ Compaction(j))
  BY <1>2, ApplyTablesBegins, EditStepInv
<1> QED
  BY <1>1, <1>2

\* An ingest of the external object begins its edit.
LEMMA ApplyExternalBegins ==
  ASSUME IInv, NEW j \in DOMAIN jobs, ApplyExternal(j)
  PROVE  /\ EditStep(db.nextFileNum, j, jobs[j].edit)
         /\ jobs[j].pc = "target" /\ jobs[j].kind = "external" /\ JobOK(jobs[j])
         /\ Shape(jobs[j])
<1>1. /\ jobs[j].pc = "target" /\ BeginEdit(db, j, jobs[j].edit)
      /\ jobs' = [jobs EXCEPT ![j].pc = "apply"]
      /\ UNCHANGED <<disk, phase, ckpt, reader, cleanup>>
  BY DEF ApplyExternal
<1>2. Idle
  BY <1>1 DEF IInv, LockInv
<1>3. Up /\ JobOK(jobs[j]) /\ jobs[j] \in JobType
  BY <1>1, JobFacts
<1>4. jobs[j].kind = "external" /\ jobs[j].in = {} /\ Shape(jobs[j])
  BY <1>1, <1>3 DEF JobOK, Places, Pending, JobType
<1>5. FitEdit(db.nextFileNum, j, jobs[j].edit)
  BY <1>1, <1>2, <1>3, <1>4, FitExternal DEF Shape
<1>6. jobs[j].edit.del = {}
  BY <1>4 DEF Shape, ExternalTable
<1> QED
  BY <1>1, <1>2, <1>3, <1>4, <1>5, <1>6, ApplyStep

LEMMA ApplyExternalInv ==
  ASSUME IInv, NEW j \in DOMAIN jobs, ApplyExternal(j) PROVE IInv'
BY ApplyExternalBegins, EditStepInv

\* The edit that the flush in Open begins.
LEMMA OpenFlushBegins ==
  ASSUME IInv, OpenFlush
  PROVE  EditStep(db.nextFileNum, 0, NoEdit) /\ phase = "loaded"
<1> DEFINE m == db.nextFileNum
<1>1. /\ phase = "loaded" /\ hasLog /\ io = NoIO /\ BeginEdit(db, 0, NoEdit)
      /\ UNCHANGED <<disk, phase, jobs, ckpt, reader, cleanup>>
  BY DEF OpenFlush
<1>2. Idle /\ Up
  BY <1>1 DEF Idle, NoIO, Up
<1>3. /\ m \in Nat /\ m >= db.nextFileNum /\ Sound(Current(db), DOMAIN db.backings)
      /\ SetNext(db, m) = db
  BY <1>2, IdleFacts
<1>4. /\ NoEdit.del = {} /\ NoEdit.new = {} /\ NoEdit.created = {} /\ NoEdit \in EditType
  BY DoneType DEF NoEdit, Edit
<1>5. FitEdit(m, 0, NoEdit)
  <2>1. GoodEdit(Current(db), DOMAIN db.backings, NoEdit)
    BY <1>3, <1>4 DEF GoodEdit, Sound
  <2>2. Backings(NoEdit.new) = {} /\ Numbers(NoEdit.new) = {}
    BY <1>4 DEF Backings, Numbers
  <2> QED
    BY <1>4, <2>1, <2>2 DEF FitEdit
<1>6. jobs \in Seq(JobType) /\ 0 \notin DOMAIN jobs
  BY IInvFacts
<1>7. \A i \in DOMAIN jobs :
       /\ SameJob(jobs[i], jobs'[i])
       /\ jobs'[i].pc = IF i = 0 THEN "apply" ELSE jobs[i].pc
  BY <1>1, <1>6 DEF SameJob
<1> HIDE DEF m
<1>8. EditStep(m, 0, NoEdit)
  <2>1. BeginEdit(SetNext(db, m), 0, NoEdit)
    BY <1>1, <1>3
  <2> QED
    BY <1>1, <1>2, <1>3, <1>4, <1>5, <1>6, <1>7, <2>1 DEF EditStep, FitEdit
<1> QED
  BY <1>1, <1>8 DEF m

LEMMA OpenFlushInv == ASSUME IInv, OpenFlush PROVE IInv'
BY OpenFlushBegins, EditStepInv

(***************************************************************************)
(* Excises.                                                                *)
(***************************************************************************)
\* The tables of H with a smaller number than t.
Rank(H, t) == Cardinality({u \in H : u.num < t.num})

LEMMA RankFacts ==
  ASSUME NEW H \in TableSets
  PROVE  /\ Cardinality(H) \in Nat
         /\ \A t \in H : Rank(H, t) \in Nat /\ Rank(H, t) < Cardinality(H)
         /\ \A t, u \in H : t.num < u.num => Rank(H, t) < Rank(H, u)
<1> DEFINE Less(t) == {u \in H : u.num < t.num}
<1>1. IsFiniteSet(H) /\ \A t \in H : t.num \in Nat
  BY DEF TableSets, TableType
<1>2. ASSUME NEW t, NEW X, IsFiniteSet(X), Less(t) \subseteq X, t \in X, t \in H
      PROVE  Rank(H, t) \in Nat /\ Rank(H, t) < Cardinality(X)
  <2> DEFINE L == Less(t)
  <2>1. L \subseteq X /\ L # X
    BY <1>1, <1>2
  <2>2. Rank(H, t) = Cardinality(L)
    BY DEF Rank
  <2> HIDE DEF L
  <2>3. /\ IsFiniteSet(L) /\ Cardinality(L) <= Cardinality(X)
        /\ Cardinality(L) = Cardinality(X) => L = X
    BY <1>2, <2>1, FS_Subset
  <2>4. Cardinality(L) \in Nat /\ Cardinality(X) \in Nat
    BY <1>2, <2>3, FS_CardinalityType
  <2> QED
    BY <2>1, <2>2, <2>3, <2>4
<1>3. Cardinality(H) \in Nat
  BY <1>1, FS_CardinalityType
<1>4. \A t \in H : Rank(H, t) \in Nat /\ Rank(H, t) < Cardinality(H)
  <2> TAKE t \in H
  <2>1. Less(t) \subseteq H
    OBVIOUS
  <2> HIDE DEF Less
  <2> QED
    BY <1>1, <1>2, <2>1
<1>5. ASSUME NEW t \in H, NEW u \in H, t.num < u.num PROVE Rank(H, t) < Rank(H, u)
  <2> DEFINE X == Less(u)
  <2>1. IsFiniteSet(X)
    <3>1. X \subseteq H
      OBVIOUS
    <3> HIDE DEF X
    <3> QED
      BY <1>1, <3>1, FS_Subset
  <2>2. Less(t) \subseteq X /\ t \in X
    BY <1>1, <1>5
  <2>3. Rank(H, u) = Cardinality(X)
    BY DEF Rank
  <2> HIDE DEF X, Less
  <2>4. Rank(H, t) < Cardinality(X)
    BY <1>2, <2>1, <2>2
  <2> QED
    BY <2>3, <2>4
<1> QED
  BY <1>3, <1>4, <1>5

LEMMA ExciseAllFacts ==
  ASSUME NEW T \in TableSets, \A t, u \in T : t.num = u.num => t = u, NEW S, NEW n \in Nat
  PROVE  LET e == ExciseAll(T, S, n)
         IN  /\ e \in EditType /\ e.del = {t \in T : Overlaps(KeysOf(t), S)} /\ e.removed = {}
             /\ e.next = 0
             /\ \A u \in e.new :
                  /\ u.virtual /\ u.num \in Nat /\ n <= u.num
                  /\ u.num < n + 2 * Cardinality(e.del)
                  /\ \E t \in e.del : u.backing = t.backing /\ (t.virtual \/ t.backing \in e.created)
             /\ \A u, w \in e.new : u.num = w.num => u = w
             /\ \A b \in e.created :
                  /\ \E t \in e.del : ~t.virtual /\ t.backing = b
                  /\ \E u \in e.new : u.virtual /\ u.backing = b
<1> DEFINE H == {t \in T : Overlaps(KeysOf(t), S)}
           First(t) == n + 2 * Rank(H, t)
           X(t) == Excise(t, S, First(t))
           new == UNION {X(t).new : t \in H}
           created == UNION {X(t).created : t \in H}
<1>1. ExciseAll(T, S, n) = Edit(H, new, created)
  <2> DEFINE edits == {X(t) : t \in H}
  <2>1. (UNION {y.new : y \in edits}) = new
    <3> HIDE DEF X, H
    <3> QED
      OBVIOUS
  <2>2. (UNION {y.created : y \in edits}) = created
    <3> HIDE DEF X, H
    <3> QED
      OBVIOUS
  <2>3. ExciseAll(T, S, n) =
          Edit(H, UNION {y.new : y \in edits}, UNION {y.created : y \in edits})
    <3>1. \A t : First(t) = n + 2 * Cardinality({u \in H : u.num < t.num})
      BY DEF Rank
    <3> QED
      BY <3>1 DEF ExciseAll, Rank
  <2> HIDE DEF edits, H, new, created
  <2> QED
    BY <2>1, <2>2, <2>3
<1>2. H \in TableSets /\ H \subseteq T /\ H \subseteq TableType /\ IsFiniteSet(H)
  <2>1. H \subseteq T
    OBVIOUS
  <2>2. H \in TableSets
    BY <2>1, TableSetFacts
  <2> QED
    BY <2>1, <2>2 DEF TableSets
<1> HIDE DEF H
<1>3. /\ Cardinality(H) \in Nat
      /\ \A t \in H : Rank(H, t) \in Nat /\ Rank(H, t) < Cardinality(H)
      /\ \A t, u \in H : t.num < u.num => Rank(H, t) < Rank(H, u)
  BY <1>2, RankFacts
<1>4. ASSUME NEW t \in H
      PROVE  LET e == X(t)
             IN  /\ e \in EditType
                 /\ \A u \in e.new : /\ u.virtual /\ u.backing = t.backing
                                     /\ u.num \in {First(t), First(t) + 1} /\ u \in TableType
                 /\ \A u, w \in e.new : u.num = w.num => u = w
                 /\ e.created = IF e.new # {} /\ ~t.virtual THEN {t.backing} ELSE {}
  <2> DEFINE k == First(t)
  <2>1. k \in Nat
    BY <1>3
  <2> HIDE DEF k
  <2>2. t \in TableType
    BY <1>2
  <2> DEFINE e == Excise(t, S, k)
  <2>3. /\ e \in EditType
        /\ \A u \in e.new : /\ u.virtual /\ u.backing = t.backing
                            /\ u.num \in {k, k + 1} /\ u \in TableType
        /\ \A u, w \in e.new : u.num = w.num => u = w
        /\ e.created = IF e.new # {} /\ ~t.virtual THEN {t.backing} ELSE {}
    BY <2>1, <2>2, ExciseFacts
  <2> QED
    BY <2>3 DEF k
<1>5. \A u \in new : \E t \in H : u \in X(t).new
  OBVIOUS
<1>6. \A b \in created : \E t \in H : b \in X(t).created
  OBVIOUS
<1>7. \A t \in H : X(t).created \subseteq created /\ X(t).new \subseteq new
  OBVIOUS
<1>8. IsFiniteSet(new)
  <2> DEFINE f == [t \in H |-> X(t).new]
             F == {f[t] : t \in H}
  <2>1. DOMAIN f = H /\ \A t \in H : IsFiniteSet(f[t])
    BY <1>4 DEF EditType, TableSets
  <2>2. new = UNION F
    OBVIOUS
  <2> HIDE DEF f
  <2>3. IsFiniteSet(F)
    BY <1>2, <2>1, ImageFinite
  <2>4. \A Y \in F : IsFiniteSet(Y)
    BY <2>1
  <2> HIDE DEF F, new
  <2> QED
    BY <2>2, <2>3, <2>4, FS_UNION
<1> HIDE DEF X, new, created
<1>9. new \subseteq TableType
  BY <1>4, <1>5
<1>10. new \in TableSets
  BY <1>8, <1>9 DEF TableSets
<1>11. created \subseteq Nat
  <2>1. \A t \in H : X(t).created \subseteq Nat
    BY <1>4 DEF EditType
  <2> QED
    BY <1>6, <2>1
<1> DEFINE e == Edit(H, new, created)
<1>12. /\ e \in EditType /\ e.del = H /\ e.new = new /\ e.created = created /\ e.removed = {}
       /\ e.next = 0
  BY <1>2, <1>10, <1>11 DEF Edit, EditType
<1> HIDE DEF e
<1>13. ASSUME NEW u \in new
       PROVE  /\ u.virtual /\ u.num \in Nat /\ n <= u.num
              /\ u.num < n + 2 * Cardinality(H)
              /\ \E t \in H : u.backing = t.backing /\ (t.virtual \/ t.backing \in created)
  <2>1. PICK t \in H : u \in X(t).new
    BY <1>5
  <2>2. u.virtual /\ u.backing = t.backing /\ u.num \in {First(t), First(t) + 1}
    BY <1>4, <2>1
  <2>3. Rank(H, t) \in Nat /\ Rank(H, t) < Cardinality(H)
    BY <1>3
  <2>4. u.num \in Nat /\ n <= u.num /\ u.num < n + 2 * Cardinality(H)
    BY <1>3, <2>2, <2>3
  <2>5. t.virtual \/ t.backing \in created
    BY <1>4, <1>7, <2>1
  <2> QED
    BY <2>2, <2>4, <2>5
<1>14. ASSUME NEW u \in new, NEW w \in new, u.num = w.num PROVE u = w
  <2>1. PICK t \in H : u \in X(t).new
    BY <1>5
  <2>2. PICK s \in H : w \in X(s).new
    BY <1>5
  <2>3. /\ u.num \in {First(t), First(t) + 1} /\ w.num \in {First(s), First(s) + 1}
        /\ Rank(H, t) \in Nat /\ Rank(H, s) \in Nat
    BY <1>3, <1>4, <2>1, <2>2
  <2>4. Rank(H, t) = Rank(H, s)
    BY <1>14, <2>3
  <2>5. t.num \in Nat /\ s.num \in Nat
    BY <1>2 DEF TableType
  <2>6. t.num = s.num
    <3>1. ~(t.num < s.num) /\ ~(s.num < t.num)
      BY <1>3, <2>3, <2>4
    <3> QED
      BY <2>5, <3>1
  <2>7. t = s
    BY <1>2, <2>6
  <2> QED
    BY <1>4, <1>14, <2>1, <2>2, <2>7
<1>15. ASSUME NEW b \in created
       PROVE  /\ \E t \in H : ~t.virtual /\ t.backing = b
              /\ \E u \in new : u.virtual /\ u.backing = b
  <2>1. PICK t \in H : b \in X(t).created
    BY <1>6
  <2>2. ~t.virtual /\ t.backing = b /\ X(t).new # {}
    <3>1. X(t).created = IF X(t).new # {} /\ ~t.virtual THEN {t.backing} ELSE {}
      BY <1>4
    <3>2. CASE X(t).new # {} /\ ~t.virtual
      <4>1. X(t).created = {t.backing}
        BY <3>1, <3>2
      <4> QED
        BY <2>1, <3>2, <4>1
    <3>3. CASE ~(X(t).new # {} /\ ~t.virtual)
      <4>1. X(t).created = {}
        BY <3>1, <3>3
      <4> QED
        BY <2>1, <4>1
    <3> QED
      BY <3>2, <3>3
  <2>3. PICK u \in X(t).new : TRUE
    BY <2>2
  <2>4. u \in new /\ u.virtual /\ u.backing = b
    BY <1>4, <1>7, <2>2, <2>3
  <2> QED
    BY <2>2, <2>4
<1>16. ExciseAll(T, S, n) = e
  BY <1>1 DEF e
<1> QED
  BY <1>12, <1>13, <1>14, <1>15, <1>16 DEF H

\* The bounds of more keys overlap what the bounds of some of them do.
LEMMA OverlapsMore ==
  ASSUME NEW K \in SUBSET Keys, NEW J \in SUBSET K, NEW S \in SUBSET Keys, S # {}, Overlaps(J, S)
  PROVE  Overlaps(K, S)
<1>1. \A X : X \subseteq Keys => X \subseteq Nat /\ IsFiniteSet(X)
  <2>1. IsFiniteSet(Keys) /\ Keys \subseteq Nat
    <3>1. Keys = 1 .. 3 /\ 1 \in Int /\ 3 \in Int
      BY DEF Keys
    <3>2. IsFiniteSet(1 .. 3)
      BY <3>1, FS_Interval
    <3>3. 1 .. 3 \subseteq Nat
      OBVIOUS
    <3> QED
      BY <3>1, <3>2, <3>3
  <2> TAKE X
  <2> HAVE X \subseteq Keys
  <2>2. IsFiniteSet(X)
    BY <2>1, FS_Subset
  <2> QED
    BY <2>1, <2>2
<1>2. /\ K \subseteq Nat /\ IsFiniteSet(K) /\ J \subseteq Nat /\ IsFiniteSet(J)
      /\ S \subseteq Nat /\ IsFiniteSet(S) /\ J # {} /\ K # {}
  BY <1>1 DEF Overlaps
<1>3. Min(J) \in J /\ Max(J) \in J
  BY <1>2, MinFacts, MaxFacts
<1>4. Min(K) \in K /\ Max(K) \in K /\ Min(K) <= Min(J) /\ Max(J) <= Max(K)
  BY <1>2, <1>3, MinFacts, MaxFacts
<1>5. Min(S) \in S /\ Max(S) \in S
  BY <1>2, MinFacts, MaxFacts
<1>6. /\ Min(J) \in Nat /\ Max(J) \in Nat /\ Min(K) \in Nat /\ Max(K) \in Nat
      /\ Min(S) \in Nat /\ Max(S) \in Nat
  BY <1>2, <1>3, <1>4, <1>5
<1>7. Min(J) <= Max(S) /\ Min(S) <= Max(J)
  BY DEF Overlaps
<1>8. Min(K) <= Max(S) /\ Min(S) <= Max(K)
  BY <1>4, <1>6, <1>7
<1> QED
  BY <1>2, <1>8 DEF Overlaps

\* The edit of an ingest with an excise: e, and the ingested tables N.
ExciseEdit(e, N) == [e EXCEPT !.new = @ \cup N]

LEMMA FitIngest ==
  ASSUME IInv, Idle, Up, NEW j \in DOMAIN jobs, jobs[j].pc = "lock",
         jobs[j].kind = "excise"
  PROVE  LET e == ExciseAll(Current(db), jobs[j].span, db.nextFileNum)
             f == ExciseEdit(e, jobs[j].edit.new)
             m == db.nextFileNum + 2 * Cardinality(e.del)
         IN  /\ FitEdit(m, j, f) /\ m \in Nat /\ m >= db.nextFileNum
             /\ f.del = {t \in Current(db) : Overlaps(KeysOf(t), jobs[j].span)}
<1> DEFINE T == Current(db)
           B == DOMAIN db.backings
           n == db.nextFileNum
           S == jobs[j].span
           e == ExciseAll(T, S, n)
           N == jobs[j].edit.new
           f == ExciseEdit(e, N)
           m == n + 2 * Cardinality(e.del)
<1>1. /\ T \in TableSets /\ Sound(T, B) /\ Numbers(T) \subseteq Taken /\ Refd(db) \subseteq Taken
      /\ Backings(T) \subseteq Refd(db) /\ B \subseteq Refd(db) /\ n \in Nat /\ Target = T
  BY IdleFacts
<1>2. \A t \in Numbers(T) : t < n
  BY <1>1 DEF IInv, FilesInv
<1>3. /\ jobs[j] \in JobType /\ JobOK(jobs[j]) /\ Was(j) = jobs[j]
  BY JobFacts
<1>4. jobs[j].in = {} /\ NewTable(jobs[j].edit, {})
  BY <1>3 DEF JobOK, Pending, Shape
<1>5. PICK s \in N : N = {s} /\ ~s.virtual /\ s.backing = s.num
  BY <1>4 DEF NewTable
<1>6. jobs[j].edit \in EditType /\ N \in TableSets
  BY <1>3 DEF JobType, EditType
<1>7. s.num \in Own(jobs[j])
  BY <1>4, <1>5 DEF Own, Pending, Numbers
<1>8. s.num \notin Taken /\ s.num \in Nat /\ s.num < n
  BY <1>3, <1>7, OwnBelow
<1>9. \A t, u \in T : t.num = u.num => t = u
  BY <1>1 DEF Sound
<1>10. /\ e \in EditType /\ e.del = {t \in T : Overlaps(KeysOf(t), S)} /\ e.removed = {}
       /\ e.next = 0
       /\ \A u \in e.new :
            /\ u.virtual /\ u.num \in Nat /\ n <= u.num
            /\ u.num < n + 2 * Cardinality(e.del)
            /\ \E t \in e.del : u.backing = t.backing /\ (t.virtual \/ t.backing \in e.created)
       /\ \A u, w \in e.new : u.num = w.num => u = w
       /\ \A b \in e.created :
            /\ \E t \in e.del : ~t.virtual /\ t.backing = b
            /\ \E u \in e.new : u.virtual /\ u.backing = b
  BY <1>1, <1>9, ExciseAllFacts
<1>11. e.del \subseteq T
  BY <1>10
<1> HIDE DEF e
<1>12. m \in Nat /\ m >= n
  <2>1. IsFiniteSet(e.del)
    BY <1>10 DEF EditType, TableSets
  <2>2. Cardinality(e.del) \in Nat
    BY <2>1, FS_CardinalityType
  <2> QED
    BY <1>1, <2>2
<1>13. /\ f.del = e.del /\ f.new = e.new \cup {s} /\ f.created = e.created /\ f \in EditType
  <2>1. e.new \cup N \in TableSets
    BY <1>6, <1>10, TableSetFacts DEF EditType
  <2> QED
    BY <1>5, <1>10, <2>1 DEF ExciseEdit, EditType
<1> HIDE DEF f, m
<1>14. \A t \in T : t.num \in Nat /\ t.num < n /\ t.num # s.num /\ t.backing # s.num
  <2> TAKE t \in T
  <2>1. t.num \in Numbers(T) /\ t.backing \in Backings(T)
    BY DEF Numbers, Backings
  <2>2. t.num \in Nat
    BY <1>1 DEF TableSets, TableType
  <2> QED
    BY <1>1, <1>2, <1>8, <2>1, <2>2
<1>15. \A t \in e.new : \A u \in T \cup {s} : t.num # u.num
  <2>1. \A t \in e.new : t.num \in Nat /\ n <= t.num
    BY <1>10
  <2>2. \A u \in T \cup {s} : u.num \in Nat /\ u.num < n
    BY <1>8, <1>14
  <2> QED
    BY <1>1, <2>1, <2>2
<1>16. \A t, u \in (T \ e.del) \cup f.new : t.num = u.num => t = u
  <2> SUFFICES ASSUME NEW t \in T \cup e.new \cup {s}, NEW u \in T \cup e.new \cup {s},
                      t.num = u.num
               PROVE  t = u
    BY <1>13
  <2>1. CASE t \in T
    BY <1>9, <1>14, <1>15, <2>1
  <2>2. CASE t \in e.new
    BY <1>10, <1>15, <2>2
  <2>3. CASE t = s
    BY <1>14, <1>15, <2>3
  <2> QED
    BY <2>1, <2>2, <2>3
<1>17. f.new \cap (T \ e.del) = {}
  BY <1>13, <1>14, <1>15
<1>18. \A b \in e.created : \E t \in e.del : ~t.virtual /\ t.backing = b /\ t.num = b /\ b \notin B
  BY <1>1, <1>10, <1>11 DEF Sound
<1>19. e.created \subseteq Backings(T)
  BY <1>11, <1>18 DEF Backings
<1>20. \A t \in f.new : IF t.virtual THEN t.backing \in B \cup f.created
                        ELSE t.backing = t.num /\ t.num \notin B \cup f.created
  <2> TAKE t \in f.new
  <2>1. CASE t \in e.new
    <3>1. PICK u \in e.del : t.backing = u.backing /\ (u.virtual \/ u.backing \in e.created)
      BY <1>10, <2>1
    <3>2. u.virtual => u.backing \in B
      BY <1>1, <1>11 DEF Sound
    <3> QED
      BY <1>10, <1>13, <2>1, <3>1, <3>2
  <2>2. CASE t = s
    BY <1>1, <1>5, <1>8, <1>13, <1>19, <2>2
  <2> QED
    BY <1>13, <2>1, <2>2
<1>21. \A b \in f.created : /\ \E t \in f.new : t.virtual /\ t.backing = b
                            /\ \A t \in T \ e.del : ~t.virtual => t.backing # b
  <2> TAKE b \in f.created
  <2>1. PICK t \in e.del : ~t.virtual /\ t.backing = b /\ t.num = b
    BY <1>13, <1>18
  <2>2. \A u \in T \ e.del : ~u.virtual => u.backing # b
    <3> SUFFICES ASSUME NEW u \in T \ e.del, ~u.virtual, u.backing = b PROVE FALSE
      OBVIOUS
    <3>1. u.num = b
      BY <1>1 DEF Sound
    <3> QED
      BY <1>9, <1>11, <2>1, <3>1
  <2> QED
    BY <1>10, <1>13, <2>2
<1>22. GoodEdit(T, B, f)
  <2>1. f.created \cap B = {}
    BY <1>13, <1>18
  <2> QED
    BY <1>11, <1>13, <1>16, <1>17, <1>20, <1>21, <2>1 DEF GoodEdit
<1>23. f.created \cup Backings(f.new) \subseteq Refd(db) \cup (Own(jobs[j]) \cap synced)
  <2>1. e.created \subseteq Refd(db)
    BY <1>1, <1>19
  <2>2. Backings(e.new) \subseteq Backings(T)
    <3>1. \A u \in e.new : \E t \in T : u.backing = t.backing
      BY <1>10, <1>11
    <3> QED
      BY <3>1 DEF Backings
  <2>3. s.num \in Own(jobs[j]) \cap synced
    <3>1. s.num \in Backings(jobs[j].edit.new)
      BY <1>5 DEF Backings
    <3> QED
      BY <1>7, <3>1 DEF IInv, OwnInv
  <2>4. Backings(f.new) = Backings(e.new) \cup {s.num}
    BY <1>5, <1>13 DEF Backings
  <2> QED
    BY <1>1, <1>13, <2>1, <2>2, <2>3, <2>4
<1>24. \A k \in Numbers(f.new) : k \in Numbers(T) \cup Own(jobs[j]) \/ (n <= k /\ k < m)
  <2>1. \A u \in f.new : u.num \in Own(jobs[j]) \/ (n <= u.num /\ u.num < m)
    BY <1>7, <1>10, <1>13 DEF m
  <2> QED
    BY <2>1 DEF Numbers
<1>25. FitEdit(m, j, f)
  BY <1>3, <1>22, <1>23, <1>24 DEF FitEdit
<1>26. e.del = {t \in T : Overlaps(KeysOf(t), S)}
  BY <1>10
<1> QED
  BY <1>12, <1>13, <1>25, <1>26 DEF e, f, m

\* The edit that an ingest with an excise begins.
LEMMA ApplyExciseBegins ==
  ASSUME IInv, NEW j \in DOMAIN jobs, ApplyExcise(j)
  PROVE  LET e == ExciseAll(Current(db), jobs[j].span, db.nextFileNum)
         IN  /\ EditStep(db.nextFileNum + 2 * Cardinality(e.del), j,
                         ExciseEdit(e, jobs[j].edit.new))
             /\ jobs[j].pc = "lock" /\ jobs[j].kind = "excise" /\ JobOK(jobs[j])
<1> DEFINE S == jobs[j].span
           e == ExciseAll(Current(db), S, db.nextFileNum)
           f == ExciseEdit(e, jobs[j].edit.new)
           m == db.nextFileNum + 2 * Cardinality(e.del)
           C == Cancelled(S)
<1>1. /\ jobs[j].pc = "lock" /\ jobs[j].kind = "excise" /\ ~db.writing
      /\ jobs' = [C EXCEPT ![j].pc = "apply"]
      /\ UNCHANGED <<disk, phase, ckpt, reader, cleanup>>
  BY DEF ApplyExcise
<1>2. BeginEdit(SetNext(db, m), j, f)
  <2>1. PICK x \in {e} :
          \E d \in {[db EXCEPT !.nextFileNum = @ + 2 * Cardinality(x.del)]} :
            BeginEdit(d, j, [x EXCEPT !.new = @ \cup jobs[j].edit.new])
    BY DEF ApplyExcise
  <2>2. x = e
    BY <2>1
  <2>3. BeginEdit([db EXCEPT !.nextFileNum = @ + 2 * Cardinality(e.del)], j, f)
    <3> HIDE DEF e
    <3> QED
      BY <2>1, <2>2 DEF ExciseEdit
  <2>4. [db EXCEPT !.nextFileNum = @ + 2 * Cardinality(e.del)] = SetNext(db, m)
    <3> HIDE DEF e
    <3> QED
      BY DEF SetNext
  <2> HIDE DEF e, f, m
  <2> QED
    BY <2>3, <2>4
<1>3. /\ phase = "open" /\ Up /\ jobs[j] \in JobType /\ JobOK(jobs[j]) /\ Was(j) = jobs[j]
      /\ jobs \in Seq(JobType)
  BY <1>1, JobFacts, IInvFacts
<1>4. Idle
  BY <1>1 DEF IInv, IoInv
<1>5. FitEdit(m, j, f) /\ m \in Nat /\ m >= db.nextFileNum
      /\ f.del = {t \in Current(db) : Overlaps(KeysOf(t), S)}
  BY <1>1, <1>3, <1>4, FitIngest
<1>6. S \in SUBSET Keys /\ S # {}
  BY <1>1, <1>3 DEF JobType, JobOK
<1> HIDE DEF e, f, m
<1>7. \A i \in DOMAIN jobs : \E c \in BOOLEAN :
         C[i] = [jobs[i] EXCEPT !.cancel = jobs[i].cancel \/ c]
  <2> TAKE i \in DOMAIN jobs
  <2>1. jobs[i] \in JobType
    BY JobFacts
  <2>2. C[i] = [jobs[i] EXCEPT !.cancel = TRUE] \/ C[i] = jobs[i]
    BY DEF Cancelled
  <2>3. [jobs[i] EXCEPT !.cancel = jobs[i].cancel \/ TRUE] = [jobs[i] EXCEPT !.cancel = TRUE]
    OBVIOUS
  <2>4. [jobs[i] EXCEPT !.cancel = jobs[i].cancel \/ FALSE] = jobs[i]
    BY <2>1 DEF JobType
  <2> QED
    BY <2>2, <2>3, <2>4
<1>8. \A i \in DOMAIN jobs : /\ C[i] \in JobType /\ SameJob(jobs[i], C[i]) /\ C[i].pc = jobs[i].pc
  <2> TAKE i \in DOMAIN jobs
  <2>1. jobs[i] \in JobType
    BY JobFacts
  <2>2. PICK c \in BOOLEAN : C[i] = [jobs[i] EXCEPT !.cancel = jobs[i].cancel \/ c]
    BY <1>7
  <2> QED
    BY <2>1, <2>2 DEF JobType, SameJob
<1>9. DOMAIN C = DOMAIN jobs
  BY DEF Cancelled
<1>10. \A i \in DOMAIN jobs :
          /\ jobs[i].kind \in {"compact", "move", "deleteonly"}
          /\ jobs[i].pc \in {"start", "run", "sync", "lock"} /\ ~C[i].cancel
          => ~Overlaps(UNION {KeysOf(t) : t \in jobs[i].in}, S)
  <2> TAKE i \in DOMAIN jobs
  <2>1. jobs[i] \in JobType
    BY JobFacts
  <2> QED
    BY <2>1 DEF Cancelled, Compaction, JobType
<1> HIDE DEF C
<1>11. /\ DOMAIN jobs' = DOMAIN jobs /\ jobs'[j] = [C[j] EXCEPT !.pc = "apply"]
       /\ \A i \in DOMAIN jobs : i # j => jobs'[i] = C[i]
  BY <1>1, <1>9
<1>12. \A i \in DOMAIN jobs :
         /\ jobs'[i] \in JobType /\ SameJob(jobs[i], jobs'[i]) /\ jobs'[i].cancel = C[i].cancel
         /\ jobs'[i].pc = IF i = j THEN "apply" ELSE jobs[i].pc
  <2> TAKE i \in DOMAIN jobs
  <2>1. CASE i = j
    <3>1. C[j] \in JobType /\ SameJob(jobs[j], C[j])
      BY <1>8
    <3> QED
      BY <1>11, <2>1, <3>1 DEF JobType, SameJob
  <2>2. CASE i # j
    BY <1>8, <1>11, <2>2
  <2> QED
    BY <2>1, <2>2
<1>13. jobs' \in Seq(JobType)
  <2>1. DOMAIN jobs = 1 .. Len(jobs) /\ Len(jobs) \in Nat
    BY <1>3
  <2>2. jobs' \in [1 .. Len(jobs) -> JobType]
    <3>1. jobs' = [i \in DOMAIN jobs |-> jobs'[i]]
      <4>1. jobs' = [i \in DOMAIN C |-> IF i = j THEN [C[j] EXCEPT !.pc = "apply"] ELSE C[i]]
        BY <1>1
      <4> QED
        BY <1>9, <4>1
    <3> QED
      BY <1>12, <2>1, <3>1
  <2> QED
    BY <2>1, <2>2, SeqDef
<1>14. \A i \in DOMAIN jobs \ {j} :
       /\ jobs[i].kind \in {"compact", "move", "deleteonly"} /\ ~jobs'[i].cancel
       /\ jobs[i].pc \in {"start", "run", "sync", "lock"}
       => jobs[i].in \cap f.del = {}
  <2> SUFFICES ASSUME NEW i \in DOMAIN jobs \ {j},
                      jobs[i].kind \in {"compact", "move", "deleteonly"}, ~jobs'[i].cancel,
                      jobs[i].pc \in {"start", "run", "sync", "lock"},
                      NEW t \in jobs[i].in, t \in f.del
               PROVE  FALSE
    OBVIOUS
  <2> DEFINE K == UNION {KeysOf(u) : u \in jobs[i].in}
             J == KeysOf(t)
  <2>1. ~Overlaps(K, S)
    BY <1>10, <1>12
  <2>2. Overlaps(J, S)
    BY <1>5
  <2>3. J \subseteq K
    OBVIOUS
  <2>4. K \subseteq Keys
    <3>1. jobs[i].in \subseteq TableType
      BY JobFacts DEF JobType, TableSets
    <3>2. \A u \in jobs[i].in : KeysOf(u) \subseteq Keys
      BY <3>1 DEF TableType, KeysOf
    <3> QED
      BY <3>2
  <2> HIDE DEF J, K
  <2> QED
    BY <1>6, <2>1, <2>2, <2>3, <2>4, OverlapsMore
<1>15. EditStep(m, j, f)
  BY <1>1, <1>2, <1>3, <1>4, <1>5, <1>11, <1>12, <1>13, <1>14 DEF EditStep, FitEdit
<1> QED
  BY <1>1, <1>3, <1>15 DEF e, f, m

LEMMA ApplyExciseInv ==
  ASSUME IInv, NEW j \in DOMAIN jobs, ApplyExcise(j) PROVE IInv'
<1> DEFINE e == ExciseAll(Current(db), jobs[j].span, db.nextFileNum)
           m == db.nextFileNum + 2 * Cardinality(e.del)
           f == ExciseEdit(e, jobs[j].edit.new)
<1>1. EditStep(m, j, f)
  BY ApplyExciseBegins
<1> HIDE DEF e, m, f
<1> QED
  BY <1>1, EditStepInv

(***************************************************************************)
(* logAndApply back under DB.mu.                                           *)
(***************************************************************************)
\* The zombies Z are added, and the files H are held.
Zombied(d, Z, H) == [d EXCEPT !.zombies = @ \cup Z, !.held = H]

ZombiedWell(d, e, T, Z, H, js, rd) ==
  /\ DBInv(e, T, {}) /\ RefsInv(e, js) /\ ReadersInv(e, rd)
  /\ Refd(e) \subseteq Refd(d) /\ DoomedIn(e) = DoomedIn(d)
  /\ e.zombies = d.zombies \cup Z /\ e.held = H
  /\ e.versions = d.versions /\ e.current = d.current /\ e.backings = d.backings
  /\ e.late = d.late /\ e.obsoleteManifests = d.obsoleteManifests
  /\ e.nextFileNum = d.nextFileNum /\ e.manifestFileNum = d.manifestFileNum
  /\ e.disabled = d.disabled /\ e.readState = d.readState

LEMMA ZombiedFacts ==
  ASSUME NEW d, NEW T, NEW Z \in SUBSET Nat, NEW H, NEW js, NEW rd, DBInv(d, T, Z),
         RefsInv(d, js), ReadersInv(d, rd), H \subseteq d.held,
         Backings(T) \subseteq Backings(Current(d)) \cup DOMAIN d.backings \cup H
  PROVE  ZombiedWell(d, Zombied(d, Z, H), T, Z, H, js, rd)
<1> DEFINE e == Zombied(d, Z, H)
<1>1. d \in DBType /\ H \subseteq Nat
  BY DEF DBInv, DBType
<1>2. e \in DBType
  <2>1. d.zombies \cup Z \in SUBSET Nat
    BY <1>1 DEF DBType
  <2> QED
    BY <1>1, <2>1 DEF DBType, Zombied
<1>3. /\ e.versions = d.versions /\ e.current = d.current /\ e.backings = d.backings
      /\ e.held = H /\ e.zombies = d.zombies \cup Z /\ e.late = d.late
      /\ e.obsolete = d.obsolete /\ e.panic = d.panic /\ e.readState = d.readState
      /\ e.obsoleteManifests = d.obsoleteManifests
      /\ e.nextFileNum = d.nextFileNum /\ e.manifestFileNum = d.manifestFileNum
      /\ e.disabled = d.disabled /\ e.readStates = d.readStates
  BY <1>1 DEF DBType, Zombied
<1> HIDE DEF e
<1>4. Refd(e) \subseteq Refd(d) /\ DoomedIn(e) = DoomedIn(d) /\ Current(e) = Current(d)
  <2>1. Refd(e) \subseteq Refd(d)
    BY <1>3, RefdMembers
  <2> QED
    BY <1>3, <2>1 DEF DoomedIn, LateTables, Current
<1>5. DBInv(e, T, {})
  <2>1. \A v \in DOMAIN e.versions :
          Backings(e.versions[v].tables) \subseteq
            Backings(T) \cup DOMAIN e.backings \cup e.zombies \cup {}
    <3> TAKE v \in DOMAIN e.versions
    <3>1. Backings(d.versions[v].tables) \subseteq
            Backings(T) \cup DOMAIN d.backings \cup d.zombies \cup Z
      BY <1>3 DEF DBInv
    <3> QED
      BY <1>3, <3>1
  <2>2. Backings(T) \cup {} \subseteq Base(e)
    BY <1>3, <1>4 DEF Base
  <2>3. Refd(e) \cap DoomedIn(e) = {}
    BY <1>4 DEF DBInv
  <2>4. ~e.panic /\ e.current \in DOMAIN e.versions /\ \A q \in e.late : q.tables \cup q.manifests # {}
    BY <1>3 DEF DBInv
  <2> QED
    BY <1>2, <2>1, <2>2, <2>3, <2>4 DEF DBInv
<1>6. RefsInv(e, js) /\ ReadersInv(e, rd)
  BY <1>3 DEF RefsInv, ReadersInv, ReadersOf
<1>7. ZombiedWell(d, e, T, Z, H, js, rd)
  BY <1>3, <1>4, <1>5, <1>6 DEF ZombiedWell
<1> QED
  BY <1>7 DEF e

\* Zombies that nothing refers to become obsolete.
LEMMA ObsoleteZombies ==
  ASSUME NEW d, NEW T, NEW js, NEW rd, DBInv(d, T, {}), RefsInv(d, js), ReadersInv(d, rd),
         NEW R, R \subseteq d.zombies
  PROVE  LET e == AddObsolete(d, Unreferenced(d, R))
         IN  /\ DBInv(e, T, {}) /\ Releases(d, e, R) /\ RefsInv(e, js) /\ ReadersInv(e, rd)
             /\ e.versions = d.versions /\ e.late = d.late
             /\ e.obsoleteManifests = d.obsoleteManifests /\ e.readState = d.readState
<1> DEFINE B == R \ Refd(d)
           e == AddObsolete(d, B)
<1>1. d \in DBType /\ d.zombies \subseteq Nat
  BY DEF DBInv, DBType
<1>2. Unreferenced(d, R) = B
  BY UnreferencedFacts
<1>3. B \in SUBSET Nat /\ B \cap Refd(d) = {} /\ B \subseteq R /\ d.zombies \cup B = d.zombies
  BY <1>1
<1> HIDE DEF B
<1>4. [d EXCEPT !.zombies = @ \cup B] = d
  BY <1>1, <1>3 DEF DBType
<1>5. LET g == AddObsolete([d EXCEPT !.zombies = @ \cup B], B)
      IN  /\ DBInv(g, T, {}) /\ Releases(d, g, B)
          /\ RefsInv(d, js) => RefsInv(g, js)
          /\ ReadersInv(d, rd) => ReadersInv(g, rd)
  BY <1>3, AddObsoleteFacts
<1>6. DBInv(e, T, {}) /\ Releases(d, e, B) /\ RefsInv(e, js) /\ ReadersInv(e, rd)
  BY <1>4, <1>5
<1>7. /\ e.versions = d.versions /\ e.late = d.late
      /\ e.obsoleteManifests = d.obsoleteManifests /\ e.readState = d.readState
  BY <1>1 DEF AddObsolete, DBType
<1> HIDE DEF e
<1>8. Releases(d, e, R)
  BY <1>3, <1>6 DEF Releases, Lets
<1> QED
  BY <1>2, <1>6, <1>7, <1>8 DEF e

\* The manifest lock is released, with n as the manifest and M as the obsolete
\* ones.
Finished(d, n, M) ==
  [d EXCEPT !.held = {}, !.writing = FALSE, !.manifest = TRUE, !.manifestFileNum = n,
            !.obsoleteManifests = M]

LEMMA FinishedFacts ==
  ASSUME NEW d, NEW js, NEW rd, DBInv(d, Current(d), {}), NEW n \in Nat, NEW M \in SUBSET Nat
  PROVE  LET e == Finished(d, n, M)
         IN  /\ DBInv(e, Current(d), {})
             /\ RefsInv(d, js) => RefsInv(e, js)
             /\ ReadersInv(d, rd) => ReadersInv(e, rd)
             /\ Refd(e) \subseteq Refd(d) /\ DoomedIn(e) = DoomedIn(d) /\ e.held = {}
             /\ e.versions = d.versions /\ e.current = d.current /\ e.backings = d.backings
             /\ e.late = d.late /\ e.obsoleteManifests = M /\ ~e.writing
             /\ e.nextFileNum = d.nextFileNum /\ e.manifestFileNum = n
             /\ e.disabled = d.disabled /\ e.readState = d.readState
<1> DEFINE e == Finished(d, n, M)
           T == Current(d)
<1>1. d \in DBType
  BY DEF DBInv
<1>2. e \in DBType
  BY <1>1 DEF DBType, Finished
<1>3. /\ e.versions = d.versions /\ e.current = d.current /\ e.backings = d.backings
      /\ e.held = {} /\ e.zombies = d.zombies /\ e.late = d.late
      /\ e.obsolete = d.obsolete /\ e.panic = d.panic /\ e.readState = d.readState
      /\ e.obsoleteManifests = M /\ ~e.writing
      /\ e.nextFileNum = d.nextFileNum /\ e.manifestFileNum = n
      /\ e.disabled = d.disabled /\ e.readStates = d.readStates
  BY <1>1 DEF DBType, Finished
<1> HIDE DEF e
<1>4. Refd(e) \subseteq Refd(d) /\ DoomedIn(e) = DoomedIn(d) /\ Current(e) = T
  <2>1. Refd(e) \subseteq Refd(d)
    BY <1>3, RefdMembers
  <2> QED
    BY <1>3, <2>1 DEF DoomedIn, LateTables, Current
<1>5. DBInv(e, T, {})
  <2>1. \A v \in DOMAIN e.versions :
          Backings(e.versions[v].tables) \subseteq
            Backings(T) \cup DOMAIN e.backings \cup e.zombies \cup {}
    BY <1>3 DEF DBInv
  <2>2. Backings(T) \cup {} \subseteq Base(e)
    BY <1>3, <1>4 DEF Base
  <2>3. Refd(e) \cap DoomedIn(e) = {}
    BY <1>4 DEF DBInv
  <2>4. ~e.panic /\ e.current \in DOMAIN e.versions /\ \A q \in e.late : q.tables \cup q.manifests # {}
    BY <1>3 DEF DBInv
  <2> QED
    BY <1>2, <2>1, <2>2, <2>3, <2>4 DEF DBInv
<1>6. /\ RefsInv(d, js) => RefsInv(e, js)
      /\ ReadersInv(d, rd) => ReadersInv(e, rd)
  BY <1>3 DEF RefsInv, ReadersInv, ReadersOf
<1> QED
  BY <1>3, <1>4, <1>5, <1>6 DEF e

\* The state of versionSet once the edit is installed.
InstalledWell(v) ==
  /\ DBInv(v, io.tables, {}) /\ RefsInv(v, jobs) /\ ReadersInv(v, reader)
  /\ Current(v) = io.tables /\ v.current \notin DOMAIN db.versions
  /\ \A w \in DOMAIN v.versions \ {v.current} :
       w \in DOMAIN db.versions /\ v.versions[w].tables = db.versions[w].tables
  /\ Refd(v) \subseteq Refd(db) /\ DoomedIn(v) \subseteq DoomedIn(db) \cup Refd(db)
  /\ v.backings = db.backings /\ v.held = {} /\ v.late = db.late /\ ~v.writing
  /\ v.manifestFileNum = Writing /\ v.nextFileNum = db.nextFileNum
  /\ v.obsoleteManifests \subseteq
       db.obsoleteManifests \cup (IF io.rotate # 0 THEN {io.prev} ELSE {})
  /\ v.disabled = db.disabled /\ v.readState = db.readState

LEMMA InstalledFacts ==
  ASSUME IInv, ~Idle, NEW v \in Installed PROVE InstalledWell(v)
<1> DEFINE T == io.tables
           Z == io.zombies
           H == Backings(io.edit.new)
           R == io.edit.removed
           z == Zombied(db, Z, H)
           o == AddObsolete(z, Unreferenced(z, R))
           a == AppendVersion(o, T)
           M == IF io.rotate # 0 THEN a.obsoleteManifests \cup {io.prev} ELSE a.obsoleteManifests
           f == Finished(a, Writing, M)
<1>1. v = f
  <2>1. v \in {[y EXCEPT !.held = {}, !.writing = FALSE, !.manifest = TRUE,
                         !.manifestFileNum = Writing,
                         !.obsoleteManifests = IF io.rotate # 0 THEN @ \cup {io.prev} ELSE @]
                 : y \in {AppendVersion(x, T) :
                     x \in {AddObsolete(w, Unreferenced(w, R)) : w \in {z}}}}
    BY DEF Installed, Zombied
  <2>2. PICK y \in {AppendVersion(x, T) : x \in {AddObsolete(w, Unreferenced(w, R)) : w \in {z}}} :
          v = [y EXCEPT !.held = {}, !.writing = FALSE, !.manifest = TRUE,
                        !.manifestFileNum = Writing,
                        !.obsoleteManifests = IF io.rotate # 0 THEN @ \cup {io.prev} ELSE @]
    BY <2>1
  <2>3. y = a
    <3>1. PICK x \in {AddObsolete(w, Unreferenced(w, R)) : w \in {z}} : y = AppendVersion(x, T)
      OBVIOUS
    <3>2. x = o
      <4> HIDE DEF z
      <4> QED
        OBVIOUS
    <3> HIDE DEF o
    <3> QED
      BY <3>1, <3>2
  <2> HIDE DEF a
  <2> QED
    BY <2>2, <2>3 DEF Finished
<1>2. EditInv /\ Target = T /\ T \in TableSets /\ Z \in SUBSET Nat
      /\ io.rotate \in Nat /\ io.prev \in Nat
  BY EditFacts, IInvFacts DEF IOType
<1>3. DBInv(db, T, Z) /\ RefsInv(db, jobs) /\ ReadersInv(db, reader) /\ jobs \in Seq(JobType)
  BY <1>2, IInvFacts
<1>4. /\ H \subseteq db.held /\ R \subseteq db.held /\ R \subseteq Z
      /\ Backings(T) \subseteq Backings(Current(db)) \cup DOMAIN db.backings \cup H
  <2>1. db.held = H \cup R /\ R \subseteq Z /\ T = (Current(db) \ io.edit.del) \cup io.edit.new
    BY <1>2 DEF EditInv
  <2>2. Backings(T) \subseteq Backings(Current(db)) \cup H
    BY <2>1 DEF Backings
  <2> QED
    BY <2>1, <2>2
<1> HIDE DEF T, Z, H, R
<1>5. /\ DBInv(z, T, {}) /\ RefsInv(z, jobs) /\ ReadersInv(z, reader)
      /\ Refd(z) \subseteq Refd(db) /\ DoomedIn(z) = DoomedIn(db)
      /\ z.zombies = db.zombies \cup Z /\ z.held = H
      /\ z.versions = db.versions /\ z.current = db.current /\ z.backings = db.backings
      /\ z.late = db.late /\ z.obsoleteManifests = db.obsoleteManifests
      /\ z.nextFileNum = db.nextFileNum /\ z.manifestFileNum = db.manifestFileNum
      /\ z.disabled = db.disabled /\ z.readState = db.readState
  <2>1. ZombiedWell(db, Zombied(db, Z, H), T, Z, H, jobs, reader)
    BY <1>2, <1>3, <1>4, ZombiedFacts
  <2>2. ZombiedWell(db, z, T, Z, H, jobs, reader)
    BY <2>1
  <2> HIDE DEF z
  <2> QED
    BY <2>2 DEF ZombiedWell
<1> HIDE DEF z
<1>6. R \subseteq z.zombies /\ R \subseteq Refd(db)
  BY <1>4, <1>5 DEF Refd
<1>7. /\ DBInv(o, T, {}) /\ Releases(z, o, R) /\ RefsInv(o, jobs) /\ ReadersInv(o, reader)
      /\ o.versions = z.versions /\ o.late = z.late
      /\ o.obsoleteManifests = z.obsoleteManifests /\ o.readState = z.readState
  BY <1>5, <1>6, ObsoleteZombies
<1> HIDE DEF o
<1>8. /\ o.current = z.current /\ o.backings = z.backings /\ o.held = z.held
      /\ o.nextFileNum = z.nextFileNum /\ o.manifestFileNum = z.manifestFileNum
      /\ o.disabled = z.disabled /\ DoomedIn(o) \subseteq DoomedIn(z) \cup Refd(z) \cup R
  BY <1>7 DEF Releases, Lets
<1>9. Refd(o) = Refd(z)
  BY <1>7, <1>8 DEF Refd
<1>10. /\ DBInv(a, T, {}) /\ RefsInv(a, jobs) /\ ReadersInv(a, reader)
       /\ Current(a) = T /\ a.current = o.current + 1
       /\ \A w \in DOMAIN a.versions \ {a.current} :
            w \in DOMAIN o.versions /\ a.versions[w].tables = o.versions[w].tables
       /\ Refd(a) \subseteq Refd(o) /\ DoomedIn(a) \subseteq DoomedIn(o) \cup Refd(o)
       /\ a.backings = o.backings /\ a.held = o.held /\ a.late = o.late
       /\ a.obsoleteManifests = o.obsoleteManifests
       /\ a.nextFileNum = o.nextFileNum /\ a.manifestFileNum = o.manifestFileNum
       /\ a.disabled = o.disabled /\ a.readState = o.readState
  BY <1>2, <1>3, <1>7, AppendVersionFacts
<1> HIDE DEF a
<1>11. M \in SUBSET Nat /\ Writing \in Nat
  <2>1. a.obsoleteManifests \subseteq Nat
    BY <1>10 DEF DBInv, DBType
  <2> QED
    BY <1>2, <2>1 DEF Writing
<1>12. M \subseteq db.obsoleteManifests \cup (IF io.rotate # 0 THEN {io.prev} ELSE {})
  BY <1>5, <1>7, <1>10
<1> HIDE DEF M
<1>13. DBInv(a, Current(a), {})
  BY <1>10
<1>14. /\ DBInv(f, Current(a), {}) /\ RefsInv(f, jobs) /\ ReadersInv(f, reader)
       /\ Refd(f) \subseteq Refd(a) /\ DoomedIn(f) = DoomedIn(a) /\ f.held = {}
       /\ f.versions = a.versions /\ f.current = a.current /\ f.backings = a.backings
       /\ f.late = a.late /\ f.obsoleteManifests = M /\ ~f.writing
       /\ f.nextFileNum = a.nextFileNum /\ f.manifestFileNum = Writing
       /\ f.disabled = a.disabled /\ f.readState = a.readState
  BY <1>10, <1>11, <1>13, FinishedFacts
<1> HIDE DEF f
<1>15. f.current \notin DOMAIN db.versions
  <2>1. DOMAIN db.versions \subseteq 1 .. db.current /\ db.current \in Nat
    BY <1>3 DEF RefsInv, DBInv, DBType
  <2>2. f.current = db.current + 1
    BY <1>5, <1>8, <1>10, <1>14
  <2> QED
    BY <2>1, <2>2
<1>16. Current(f) = T
  BY <1>10, <1>14 DEF Current
<1>17. Refd(f) \subseteq Refd(db) /\ DoomedIn(f) \subseteq DoomedIn(db) \cup Refd(db)
  BY <1>5, <1>6, <1>8, <1>9, <1>10, <1>14
<1>18. \A w \in DOMAIN f.versions \ {f.current} :
         w \in DOMAIN db.versions /\ f.versions[w].tables = db.versions[w].tables
  BY <1>5, <1>7, <1>10, <1>14
<1>19. /\ f.backings = db.backings /\ f.late = db.late /\ f.nextFileNum = db.nextFileNum
       /\ f.disabled = db.disabled /\ f.readState = db.readState
  BY <1>5, <1>7, <1>8, <1>10, <1>14
<1> QED
  BY <1>1, <1>10, <1>12, <1>14, <1>15, <1>16, <1>17, <1>18, <1>19 DEF InstalledWell, T

\* The edit is installed, as v; the read state may be updated, and files may be
\* handed over to be deleted.  The job goes on.
InstallStep(v) ==
  /\ io.stage = "install" /\ io' = NoIO /\ InstalledWell(v)
  /\ DBInv(db', io.tables, {}) /\ Releases(v, db', {}) /\ RefsInv(db', jobs)
  /\ ReadersInv(db', reader)
  /\ UNCHANGED <<files, synced, manifests, marker, external, ckpt, reader, cleanup>>
  /\ \/ phase = "open" /\ phase' = phase /\ hasLog' = hasLog
     \/ phase = "loaded" /\ phase' = "flushed" /\ hasLog' = FALSE
  /\ jobs' \in Seq(JobType) /\ DOMAIN jobs' = DOMAIN jobs
  /\ \A i \in DOMAIN jobs :
       /\ SameJob(jobs[i], jobs'[i])
       /\ i # io.job => jobs'[i] = jobs[i]
       /\ i = io.job => jobs[i].pc = "apply"
                        /\ jobs'[i].pc = IF jobs[i].kind \in {"excise", "external"}
                                         THEN "unprotect" ELSE "clear"

LEMMA InstallFrame ==
  ASSUME IInv, NEW v, InstallStep(v)
  PROVE  /\ ~Idle /\ Idle' /\ Up /\ Up' /\ EditInv /\ hasLog /\ db.writing
         /\ Target = io.tables /\ Target' = io.tables /\ Current(db') = io.tables
         /\ db'.backings = db.backings /\ db'.held = {} /\ db' \in DBType
         /\ db'.manifestFileNum = Writing /\ db'.nextFileNum = db.nextFileNum
         /\ db'.disabled = db.disabled /\ (db.disabled # 0 => db'.late = db.late)
         /\ (db.readState # 0 => db'.readState # 0)
         /\ db'.obsoleteManifests \cup LateManifests(db') \subseteq
              db.obsoleteManifests \cup LateManifests(db)
                \cup (IF io.rotate # 0 THEN {io.prev} ELSE {})
         /\ Refd(db') \subseteq Refd(db) /\ DoomedIn(db') \subseteq DoomedIn(db) \cup Refd(db)
         /\ db'.current = v.current /\ DOMAIN db'.versions \subseteq DOMAIN v.versions
         /\ db'.current \in DOMAIN db'.versions /\ db'.current \notin DOMAIN db.versions
         /\ \A w \in DOMAIN db'.versions \ {db'.current} :
              w \in DOMAIN db.versions /\ db'.versions[w].tables = db.versions[w].tables
<1>1. /\ io.stage = "install" /\ io' = NoIO /\ InstalledWell(v)
      /\ DBInv(db', io.tables, {}) /\ Releases(v, db', {})
      /\ phase \in {"open", "loaded"} /\ phase' \in {"open", "flushed"}
  BY DEF InstallStep
<1>2. ~Idle /\ Idle' /\ Up /\ Up'
  BY <1>1 DEF Idle, NoIO, Up
<1>3. EditInv /\ hasLog /\ db.writing /\ Target = io.tables
  BY <1>2, EditFacts
<1>4. /\ Current(v) = io.tables /\ v.current \notin DOMAIN db.versions
      /\ \A w \in DOMAIN v.versions \ {v.current} :
           w \in DOMAIN db.versions /\ v.versions[w].tables = db.versions[w].tables
      /\ Refd(v) \subseteq Refd(db) /\ DoomedIn(v) \subseteq DoomedIn(db) \cup Refd(db)
      /\ v.backings = db.backings /\ v.held = {} /\ v.late = db.late /\ ~v.writing
      /\ v.manifestFileNum = Writing /\ v.nextFileNum = db.nextFileNum
      /\ v.obsoleteManifests \subseteq
           db.obsoleteManifests \cup (IF io.rotate # 0 THEN {io.prev} ELSE {})
      /\ v.disabled = db.disabled /\ v.readState = db.readState
  BY <1>1 DEF InstalledWell
<1>5. /\ db'.manifestFileNum = v.manifestFileNum /\ db'.current = v.current
      /\ db'.held = v.held /\ (v.readState # 0 => db'.readState # 0)
      /\ DOMAIN db'.versions \subseteq DOMAIN v.versions
      /\ \A w \in DOMAIN db'.versions : db'.versions[w].tables = v.versions[w].tables
      /\ DoomedIn(db') \subseteq DoomedIn(v) \cup Refd(v) \cup {}
      /\ db'.obsoleteManifests \cup LateManifests(db') \subseteq
           v.obsoleteManifests \cup LateManifests(v)
  BY <1>1 DEF Releases, Lets
<1>6. /\ db'.disabled = v.disabled /\ db'.backings = v.backings
      /\ db'.nextFileNum = v.nextFileNum /\ (v.disabled # 0 => db'.late = v.late)
  BY <1>1 DEF Releases
<1>7. db' \in DBType /\ db'.current \in DOMAIN db'.versions
  BY <1>1 DEF DBInv
<1>8. Current(db') = io.tables /\ Refd(db') \subseteq Refd(v)
  <2>1. Lets(v, db', {})
    BY <1>1 DEF Releases
  <2> QED
    BY <1>4, <1>7, <2>1, LetsFacts
<1>9. Target' = io.tables
  BY <1>2, <1>8 DEF Target
<1>10. LateManifests(v) = LateManifests(db)
  BY <1>4 DEF LateManifests
<1>11. db'.obsoleteManifests \cup LateManifests(db') \subseteq
         db.obsoleteManifests \cup LateManifests(db)
           \cup (IF io.rotate # 0 THEN {io.prev} ELSE {})
  BY <1>4, <1>5, <1>10
<1>12. /\ Refd(db') \subseteq Refd(db) /\ DoomedIn(db') \subseteq DoomedIn(db) \cup Refd(db)
  BY <1>4, <1>5, <1>8
<1> QED
  BY <1>2, <1>3, <1>4, <1>5, <1>6, <1>7, <1>8, <1>9, <1>11, <1>12

LEMMA InstallFiles ==
  ASSUME IInv, NEW v, InstallStep(v)
  PROVE  IoInv' /\ BackingsInv' /\ FilesInv' /\ OwnInv'
<1>1. /\ io' = NoIO /\ UNCHANGED <<files, synced, manifests, ckpt, cleanup>>
      /\ DOMAIN jobs' = DOMAIN jobs
      /\ \A i \in DOMAIN jobs :
           /\ SameJob(jobs[i], jobs'[i]) /\ (i # io.job => jobs'[i] = jobs[i])
           /\ i = io.job => jobs[i].pc = "apply" /\ jobs'[i].pc \in {"unprotect", "clear"}
  BY DEF InstallStep
<1>2. /\ Idle' /\ Up /\ Up'
      /\ Target = io.tables /\ Target' = io.tables
      /\ db'.backings = db.backings /\ db'.held = {}
      /\ db'.nextFileNum = db.nextFileNum
      /\ Refd(db') \subseteq Refd(db) /\ DoomedIn(db') \subseteq DoomedIn(db) \cup Refd(db)
  BY InstallFrame
<1>3. IoInv'
  BY <1>1, <1>2 DEF IoInv
<1>4. BackingsInv'
  <2>1. \A b : Protecting(jobs', b) = Protecting(jobs, b)
    BY <1>1 DEF Protecting, SameJob
  <2>2. \A i \in DOMAIN jobs' : jobs'[i].prot = jobs[i].prot
    BY <1>1 DEF SameJob
  <2> QED
    BY <1>1, <1>2, <2>1, <2>2 DEF IInv, BackingsInv
<1>5. CleanupTables' = CleanupTables
  BY <1>1 DEF CleanupTables
<1>6. Doomed' \subseteq Doomed \cup Refd(db)
  BY <1>2, <1>5 DEF Doomed
<1>7. FilesInv'
  <2>1. FilesInv
    BY DEF IInv
  <2>2. Refd(db) \subseteq synced /\ synced \subseteq files
    BY BaseRefd
  <2>3. \A f \in files' \cup Doomed' \cup DOMAIN manifests' : f < db'.nextFileNum
    <3>1. files' \cup Doomed' \cup DOMAIN manifests' \subseteq files \cup Doomed \cup DOMAIN manifests
      BY <1>1, <1>6, <2>2
    <3>2. \A f \in files \cup Doomed \cup DOMAIN manifests : f < db.nextFileNum
      BY <1>2, <2>1 DEF FilesInv
    <3> QED
      BY <1>2, <3>1, <3>2
  <2> QED
    BY <1>1, <1>2, <1>5, <2>1, <2>3 DEF FilesInv
<1>8. Inputs' = Inputs
  <2>1. \A i \in DOMAIN jobs : InputsOf(jobs'[i]) = InputsOf(jobs[i])
    BY <1>1 DEF InputsOf, SameJob
  <2> QED
    BY <1>1, <2>1 DEF Inputs
<1>9. Taken' \subseteq Taken
  BY <1>1, <1>2, <1>6, <1>8 DEF Taken
<1>10. \A i \in DOMAIN jobs : Own(jobs'[i]) = {} \/ jobs'[i] = jobs[i]
  BY <1>1 DEF Own, Pending
<1>11. OwnInv'
  <2>0. OwnInv
    BY DEF IInv
  <2>1. \A i \in DOMAIN jobs : Own(jobs'[i]) \subseteq Own(jobs[i])
    BY <1>10
  <2>2. /\ \A i \in DOMAIN jobs : \A n \in Own(jobs'[i]) : 0 < n /\ n < db'.nextFileNum
        /\ \A i, j \in DOMAIN jobs : i # j => Own(jobs'[i]) \cap Own(jobs'[j]) = {}
        /\ \A i \in DOMAIN jobs : Own(jobs'[i]) \cap Taken' = {}
    <3>1. /\ \A i \in DOMAIN jobs : \A n \in Own(jobs[i]) : 0 < n /\ n < db.nextFileNum
          /\ \A i, j \in DOMAIN jobs : i # j => Own(jobs[i]) \cap Own(jobs[j]) = {}
          /\ \A i \in DOMAIN jobs : Own(jobs[i]) \cap Taken = {}
      BY <2>0 DEF OwnInv
    <3>2. \A i \in DOMAIN jobs : \A n \in Own(jobs'[i]) : 0 < n /\ n < db'.nextFileNum
      BY <1>2, <2>1, <3>1
    <3>3. \A i, j \in DOMAIN jobs : i # j => Own(jobs'[i]) \cap Own(jobs'[j]) = {}
      <4> TAKE i, j \in DOMAIN jobs
      <4> HAVE i # j
      <4>1. /\ Own(jobs'[i]) \subseteq Own(jobs[i]) /\ Own(jobs'[j]) \subseteq Own(jobs[j])
            /\ Own(jobs[i]) \cap Own(jobs[j]) = {}
        BY <2>1, <3>1
      <4> QED
        BY <4>1
    <3>4. \A i \in DOMAIN jobs : Own(jobs'[i]) \cap Taken' = {}
      <4> TAKE i \in DOMAIN jobs
      <4>1. Own(jobs'[i]) \subseteq Own(jobs[i]) /\ Own(jobs[i]) \cap Taken = {}
        BY <2>1, <3>1
      <4> QED
        BY <1>9, <4>1
    <3> QED
      BY <3>2, <3>3, <3>4
  <2>3. \A f \in Inputs' : f < db'.nextFileNum
    BY <1>2, <1>8, <2>0 DEF OwnInv
  <2>4. \A i \in DOMAIN jobs :
          Own(jobs'[i]) \cap Backings(jobs'[i].edit.new) \subseteq
            IF jobs'[i].pc = "sync" THEN files' ELSE synced'
    <3> TAKE i \in DOMAIN jobs
    <3>1. CASE Own(jobs'[i]) = {}
      BY <3>1
    <3>2. CASE jobs'[i] = jobs[i]
      BY <1>1, <2>0, <3>2 DEF OwnInv
    <3> QED
      BY <1>10, <3>1, <3>2
  <2> QED
    BY <1>1, <2>2, <2>3, <2>4 DEF OwnInv
<1> QED
  BY <1>3, <1>4, <1>7, <1>11

LEMMA InstallJobs ==
  ASSUME IInv, NEW v, InstallStep(v)
  PROVE  JobsInv' /\ LockInv' /\ RefsInv(db', jobs')
<1>1. /\ DOMAIN jobs' = DOMAIN jobs /\ RefsInv(db', jobs)
      /\ \A i \in DOMAIN jobs :
           /\ SameJob(jobs[i], jobs'[i]) /\ (i # io.job => jobs'[i] = jobs[i])
           /\ i = io.job => jobs[i].pc = "apply"
                            /\ jobs'[i].pc = IF jobs[i].kind \in {"excise", "external"}
                                             THEN "unprotect" ELSE "clear"
  BY DEF InstallStep
<1>2. /\ Target = io.tables /\ Target' = io.tables /\ Current(db') = io.tables
      /\ db'.current \notin DOMAIN db.versions /\ ~Idle
      /\ \A w \in DOMAIN db'.versions \ {db'.current} :
           w \in DOMAIN db.versions /\ db'.versions[w].tables = db.versions[w].tables
  BY InstallFrame
<1>3. \A i \in DOMAIN jobs :
        /\ jobs'[i].kind = jobs[i].kind /\ jobs'[i].in = jobs[i].in
        /\ jobs'[i].span = jobs[i].span /\ jobs'[i].edit = jobs[i].edit
        /\ jobs'[i].version = jobs[i].version /\ jobs'[i].prot = jobs[i].prot
        /\ (jobs[i].cancel => jobs'[i].cancel)
  BY <1>1 DEF SameJob
<1>4. ASSUME NEW i \in DOMAIN jobs PROVE JobOK(jobs'[i])
  <2>1. JobOK(jobs[i]) /\ jobs[i] \in JobType
    BY JobFacts
  <2>2. CASE i # io.job
    BY <1>1, <2>1, <2>2
  <2>3. CASE i = io.job
    <3>1. jobs[i].pc = "apply" /\ jobs'[i].pc = IF jobs[i].kind \in {"excise", "external"}
                                                THEN "unprotect" ELSE "clear"
      BY <1>1, <2>3
    <3>2. jobs'[i].pc \in Places(jobs[i].kind)
      BY <2>1, <3>1 DEF JobOK, Places, JobType
    <3>3. jobs'[i].pc \in {"unprotect", "clear"}
      BY <3>1
    <3> QED
      BY <1>3, <2>1, <3>2, <3>3 DEF JobOK, Pending
  <2> QED
    BY <2>2, <2>3
<1>5. ASSUME NEW i \in DOMAIN jobs PROVE InputsInv(jobs'[i], db', Target')
  <2>1. InputsInv(jobs[i], db, Target) /\ jobs[i].version \in DOMAIN db.versions \cup {0}
    BY JobFacts
  <2>2. jobs[i].version \in DOMAIN db'.versions \cup {0}
    BY <1>1 DEF RefsInv
  <2>3. CASE i # io.job
    <3>1. jobs[i].version # 0 =>
            db'.versions[jobs[i].version].tables = db.versions[jobs[i].version].tables
      BY <1>2, <2>1, <2>2
    <3>2. jobs'[i] = jobs[i]
      BY <1>1, <2>3
    <3> QED
      BY <1>2, <2>1, <3>1, <3>2 DEF InputsInv
  <2>4. CASE i = io.job
    <3>1. jobs[i].pc = "apply" /\ jobs'[i].pc \in {"unprotect", "clear"}
      BY <1>1, <2>4
    <3> QED
      BY <1>3, <2>1, <3>1 DEF InputsInv
  <2> QED
    BY <2>3, <2>4
<1>6. JobsInv'
  <2>1. \A i, k \in DOMAIN jobs : Compaction(i)' /\ Compaction(k)' => i = k
    BY <1>3 DEF IInv, JobsInv, Compaction
  <2> QED
    BY <1>1, <1>4, <1>5, <2>1 DEF JobsInv
<1>7. LockInv'
  <2>1. \A i \in DOMAIN jobs : jobs'[i].pc # "apply"
    BY <1>1 DEF IInv, LockInv
  <2>2. \A i \in DOMAIN jobs : jobs'[i].pc # "target"
    <3> TAKE i \in DOMAIN jobs
    <3>1. jobs[i].pc # "target"
      BY <1>2 DEF IInv, LockInv
    <3> QED
      BY <1>1, <3>1
  <2> QED
    BY <1>1, <2>1, <2>2 DEF LockInv
<1>8. RefsInv(db', jobs')
  <2>1. \A w : JobsOf(jobs', w) = JobsOf(jobs, w)
    BY <1>1, <1>3 DEF JobsOf
  <2> QED
    BY <1>1, <1>3, <2>1 DEF RefsInv
<1> QED
  BY <1>6, <1>7, <1>8

\* Nothing but the version set holds a version while Open flushes.
LEMMA OneVersion ==
  ASSUME IInv, phase = "loaded", NEW v, InstalledWell(v)
  PROVE  DOMAIN v.versions \subseteq {v.current}
<1>1. /\ RefsInv(v, jobs) /\ ReadersInv(v, reader) /\ v.readState = db.readState
      /\ DBInv(v, io.tables, {})
  BY DEF InstalledWell
<1>2. v.readState = 0 /\ reader = NoRead /\ \A j \in DOMAIN jobs : jobs[j] = Done
  BY <1>1 DEF IInv, PhaseInv
<1>3. v \in DBType
  BY <1>1 DEF DBInv
<1> SUFFICES ASSUME NEW w \in DOMAIN v.versions, w # v.current PROVE FALSE
  OBVIOUS
<1>4. w # 0
  BY <1>1, <1>3, VersionNumbers
<1>5. ReadersOf(v, w) = {}
  <2>1. DOMAIN v.readStates \subseteq 1 .. v.readState
    BY <1>1 DEF RefsInv
  <2>2. 1 .. 0 = {}
    OBVIOUS
  <2> QED
    BY <1>2, <2>1, <2>2 DEF ReadersOf
<1>6. JobsOf(jobs, w) = {}
  <2>1. Done.version = 0
    BY DEF Done
  <2> QED
    BY <1>2, <1>4, <2>1 DEF JobsOf
<1>7. v.versions[w].refs = 0 + Cardinality(ReadersOf(v, w)) + Cardinality(JobsOf(jobs, w))
  BY <1>1 DEF RefsInv
<1>8. Cardinality({}) = 0
  BY FS_EmptySet
<1>9. v.versions[w].refs = 0
  BY <1>5, <1>6, <1>7, <1>8
<1>10. reader.pc = "remove"
  BY <1>1, <1>9 DEF ReadersInv
<1> QED
  BY <1>2, <1>10 DEF NoRead

LEMMA InstallDisk ==
  ASSUME IInv, NEW v, InstallStep(v)
  PROVE  PhaseInv' /\ MarkerInv' /\ StageInv' /\ CkptInv'
<1>1. /\ io.stage = "install" /\ io' = NoIO /\ InstalledWell(v)
      /\ UNCHANGED <<files, synced, manifests, marker, ckpt, reader, cleanup>>
      /\ DOMAIN jobs' = DOMAIN jobs
      /\ \A i \in DOMAIN jobs : i # io.job => jobs'[i] = jobs[i]
      /\ \/ phase = "open" /\ phase' = phase /\ hasLog' = hasLog
         \/ phase = "loaded" /\ phase' = "flushed" /\ hasLog' = FALSE
  BY DEF InstallStep
<1>2. /\ ~Idle /\ Idle' /\ Up /\ Up' /\ EditInv /\ hasLog
      /\ Current(db') = io.tables
      /\ db'.backings = db.backings
      /\ db'.manifestFileNum = Writing
      /\ db'.disabled = db.disabled /\ (db.disabled # 0 => db'.late = db.late)
      /\ (db.readState # 0 => db'.readState # 0)
      /\ db'.obsoleteManifests \cup LateManifests(db') \subseteq
           db.obsoleteManifests \cup LateManifests(db)
             \cup (IF io.rotate # 0 THEN {io.prev} ELSE {})
      /\ db'.current = v.current /\ DOMAIN db'.versions \subseteq DOMAIN v.versions
      /\ db'.current \in DOMAIN db'.versions
  BY InstallFrame
<1>3. PhaseInv'
  <2>1. CASE phase = "open"
    BY <1>1, <1>2, <2>1 DEF IInv, PhaseInv
  <2>2. CASE phase = "loaded"
    <3>1. phase' = "flushed" /\ ~hasLog'
      BY <1>1, <2>2
    <3>2. DOMAIN db'.versions = {db'.current}
      BY <1>1, <1>2, <2>2, OneVersion
    <3>3. /\ \A j \in DOMAIN jobs : jobs[j] = Done
          /\ ckpt = NoCkpt /\ reader = NoRead
          /\ db.disabled = IF ckpt.pc = "idle" THEN 0 ELSE 1
      BY <2>2 DEF IInv, PhaseInv
    <3>4. \A j \in DOMAIN jobs' : jobs'[j] = Done
      <4>1. \A j \in DOMAIN jobs : j # io.job
        <5>1. io.job = 0 /\ jobs \in Seq(JobType)
          BY <1>2, <2>2, IInvFacts DEF IInv, IoInv
        <5> QED
          BY <5>1
      <4> QED
        BY <1>1, <3>3, <4>1
    <3> QED
      BY <1>1, <1>2, <3>1, <3>2, <3>3, <3>4 DEF PhaseInv
  <2> QED
    BY <1>1, <2>1, <2>2
<1>4. /\ marker = <<Writing>> /\ Full(Writing) /\ Image(Writing, Records(Writing)) = After
      /\ Range(marker) = {Writing} /\ Last(marker) = Writing
  <2>1. marker = <<Writing>> /\ Full(Writing) /\ Image(Writing, Records(Writing)) = After
    BY <1>1 DEF IInv, StageInv
  <2> QED
    BY <2>1, MarkerOne
<1>5. Writing \in DOMAIN manifests /\ \A n \in DOMAIN manifests : n \in Nat
  BY <1>4, ManifestFacts DEF IInv, MarkerInv
<1>6. \A n, k : Image(n, k)' = Image(n, k)
  BY <1>1, ImageRead
<1>7. \A n : Records(n)' = Records(n) /\ (Full(n)' <=> Full(n)) /\ Lengths(n)' = Lengths(n)
  BY <1>1 DEF Records, Full, Lengths
<1>8. /\ db.manifestFileNum = io.prev /\ io.prev \in Nat /\ io.rotate \in Nat
      /\ (io.rotate # 0 => io.prev < io.rotate)
  <2>1. io.prev \in Nat /\ io.rotate \in Nat
    BY IInvFacts DEF IOType
  <2> QED
    BY <1>2, <2>1 DEF EditInv
<1>9. MarkerInv'
  <2>1. MarkerInv
    BY DEF IInv
  <2>2. \A n \in Range(marker)' :
          n \in DOMAIN manifests' /\ manifests'[n].synced >= 1
            /\ \A k \in Lengths(n)' : ImageOK(n, k)'
    <3>1. Range(marker)' = Range(marker)
      BY <1>1 DEF Range
    <3>2. \A n, k : ImageOK(n, k)' = ImageOK(n, k)
      BY <1>1, <1>6 DEF ImageOK
    <3> QED
      BY <1>1, <1>7, <2>1, <3>1, <3>2 DEF MarkerInv
  <2>3. \A n \in DOMAIN manifests' : manifests'[n].synced <= Records(n)'
    BY <1>1, <1>7, <2>1 DEF MarkerInv
  <2>4. \E n \in DOMAIN manifests' : marker' = <<n>> /\ Full(n)'
    BY <1>1, <1>4, <1>5, <1>7
  <2>5. db'.manifestFileNum \in DOMAIN manifests'
    BY <1>1, <1>2, <1>5
  <2>6. \A n \in db'.obsoleteManifests \cup LateManifests(db') \cup CleanupManifests' :
             n < db'.manifestFileNum
    <3> TAKE n \in db'.obsoleteManifests \cup LateManifests(db') \cup CleanupManifests'
    <3>1. CleanupManifests' = CleanupManifests
      BY <1>1 DEF CleanupManifests
    <3>2. CASE n \in db.obsoleteManifests \cup LateManifests(db) \cup CleanupManifests
      <4>1. n < io.prev
        BY <1>2, <1>8, <2>1, <3>2 DEF MarkerInv
      <4>2. n \in Nat
        <5>1. db.obsoleteManifests \cup LateManifests(db) \subseteq Nat
          BY IInvFacts, DBTypeFacts
        <5>2. CleanupManifests \subseteq Nat
          <6>1. cleanup \in Seq(CleanupJob)
            BY DEF IInv, TypeOK
          <6>2. \A q \in Range(cleanup) : q \in CleanupJob
            <7>1. DOMAIN cleanup = 1 .. Len(cleanup) /\ \A i \in 1 .. Len(cleanup) : cleanup[i] \in CleanupJob
              BY <6>1
            <7> QED
              BY <7>1 DEF Range
          <6>3. \A q \in Range(cleanup) : q.manifests \subseteq Nat
            BY <6>2 DEF CleanupJob
          <6> QED
            BY <6>3 DEF CleanupManifests
        <5> QED
          BY <3>2, <5>1, <5>2
      <4> QED
        BY <1>2, <1>8, <4>1, <4>2 DEF Writing
    <3>3. CASE io.rotate # 0 /\ n = io.prev
      BY <1>2, <1>8, <3>3 DEF Writing
    <3> QED
      BY <1>2, <3>1, <3>2, <3>3
  <2> QED
    BY <2>2, <2>3, <2>4, <2>5, <2>6 DEF MarkerInv
<1>10. StageInv'
  <2> DEFINE P == Pair(Current(db), DOMAIN db.backings)
             n == db.manifestFileNum
  <2>1. P' = After
    BY <1>2 DEF After
  <2>2. /\ Image(n, Records(n))' = ReadBack(manifests'[n'].recs, Len(manifests'[n'].recs))
        /\ Image(Writing, Records(Writing)) = ReadBack(manifests[Writing].recs, Len(manifests[Writing].recs))
    BY OpenRead, ImageRead DEF Records
  <2>3. Image(n, Records(n))' = After
    BY <1>1, <1>2, <1>4, <2>2
  <2>4. Full(n)'
    BY <1>1, <1>2, <1>4 DEF Full, Records
  <2>5. Last(marker') = n' /\ marker' = <<n'>>
    BY <1>1, <1>2, <1>4
  <2>6. AtRest(P)'
    BY <2>1, <2>3, <2>4, <2>5 DEF AtRest
  <2>7. io'.stage = "none"
    BY <1>1 DEF NoIO
  <2> QED
    BY <2>6, <2>7 DEF StageInv
<1>11. CkptInv'
  <2>1. CkptInv /\ db.disabled = IF ckpt.pc = "idle" THEN 0 ELSE 1
    BY DEF IInv, PhaseInv
  <2>2. ckpt' = ckpt /\ manifests' = manifests /\ files' = files
    BY <1>1
  <2>3. Image(ckpt.manifest, ckpt.size)' = Image(ckpt.manifest, ckpt.size)
    <3>1. /\ Image(ckpt.manifest, ckpt.size) = ReadBack(manifests[ckpt.manifest].recs, ckpt.size)
          /\ Image(ckpt.manifest, ckpt.size)' = ReadBack(manifests'[ckpt'.manifest].recs, ckpt'.size)
      BY DEF Image, ReadBack, Pair
    <3> QED
      BY <2>2, <3>1
  <2>4. Records(ckpt.manifest)' = Records(ckpt.manifest)
    BY <2>2 DEF Records
  <2>5. CleanupManifests' = CleanupManifests /\ CleanupTables' = CleanupTables
    BY <1>1 DEF CleanupManifests, CleanupTables
  <2>6. ckpt.pc = "copy" => LateTables(db') = LateTables(db) /\ LateManifests(db') = LateManifests(db)
    BY <1>2, <2>1 DEF LateTables, LateManifests
  <2> QED
    BY <2>1, <2>2, <2>3, <2>4, <2>5, <2>6 DEF CkptInv
<1> QED
  BY <1>3, <1>9, <1>10, <1>11

LEMMA InstallStepInv ==
  ASSUME IInv, NEW v, InstallStep(v) PROVE IInv'
<1>1. /\ UNCHANGED <<files, synced, manifests, marker, external, ckpt, reader, cleanup>>
      /\ jobs' \in Seq(JobType) /\ io' = NoIO /\ phase' \in {"open", "flushed"}
      /\ DBInv(db', io.tables, {}) /\ ReadersInv(db', reader)
      /\ hasLog' = hasLog \/ hasLog' = FALSE
  BY DEF InstallStep
<1>2. Target' = io.tables /\ db' \in DBType
  BY InstallFrame
<1>3. IoInv' /\ BackingsInv' /\ FilesInv' /\ OwnInv'
  BY InstallFiles
<1>4. JobsInv' /\ LockInv' /\ RefsInv(db', jobs')
  BY InstallJobs
<1>5. PhaseInv' /\ MarkerInv' /\ StageInv' /\ CkptInv'
  BY InstallDisk
<1>6. io' \in IOType /\ io'.zombies = {}
  <2>1. {} \in TableSets
    BY TableSetFacts
  <2> QED
    BY <1>1, <2>1, DoneType DEF NoIO, IOType
<1>7. TypeOK'
  BY <1>1, <1>2, <1>6 DEF IInv, TypeOK, DiskType
<1>8. DBInv(db', Target', io'.zombies) /\ ReadersInv(db', reader')
  BY <1>1, <1>2, <1>6
<1> QED
  BY <1>3, <1>4, <1>5, <1>7, <1>8 DEF IInv

\* What is installed may be followed by a new read state, and by the deletion
\* of obsolete files.
LEMMA InstalledNow ==
  ASSUME IInv, ~Idle, NEW v \in Installed
  PROVE  /\ InstalledWell(v)
         /\ LET e == v
            IN  DBInv(e, io.tables, {}) /\ Releases(v, e, {}) /\ RefsInv(e, jobs)
                  /\ ReadersInv(e, reader)
         /\ LET e == DeleteObsoleteFiles(UpdateReadState(v))
            IN  DBInv(e, io.tables, {}) /\ Releases(v, e, {}) /\ RefsInv(e, jobs)
                  /\ ReadersInv(e, reader)
<1>1. InstalledWell(v)
  BY InstalledFacts
<1>2. /\ DBInv(v, io.tables, {}) /\ RefsInv(v, jobs) /\ ReadersInv(v, reader)
      /\ v.disabled = db.disabled
  BY <1>1 DEF InstalledWell
<1>3. jobs \in Seq(JobType) /\ reader \in ReaderType /\ db.disabled \in {0, 1} /\ v \in DBType
  BY <1>2, IInvFacts DEF DBInv
<1>4. Releases(v, v, {})
  BY <1>3, DBTypeFacts DEF Releases, Lets
<1> DEFINE u == UpdateReadState(v)
           e == DeleteObsoleteFiles(u)
<1>5. DBInv(u, io.tables, {}) /\ Releases(v, u, {}) /\ RefsInv(u, jobs) /\ ReadersInv(u, reader)
  BY <1>2, <1>3, UpdateReadStateFacts
<1> HIDE DEF u
<1>6. u.disabled \in Nat /\ u \in DBType
  BY <1>2, <1>3, <1>5 DEF Releases, DBInv
<1>7. DBInv(e, io.tables, {}) /\ Releases(u, e, {}) /\ RefsInv(e, jobs) /\ ReadersInv(e, reader)
  BY <1>5, <1>6, DeleteObsoleteFacts
<1> HIDE DEF e
<1>8. e \in DBType
  BY <1>7 DEF DBInv
<1>9. Releases(v, e, {} \cup {})
  BY <1>3, <1>5, <1>6, <1>7, <1>8, ReleasesChain
<1>10. Releases(v, e, {})
  BY <1>9
<1> QED
  BY <1>1, <1>2, <1>4, <1>7, <1>10 DEF e, u

LEMMA InstallSteps ==
  ASSUME IInv, Install
  PROVE  (\E v : InstallStep(v)) /\ phase = "open" /\ UNCHANGED <<phase, brought>>
<1> DEFINE j == io.job
<1>1. /\ io.stage = "install" /\ j # 0 /\ io' = NoIO
      /\ UNCHANGED <<disk, phase, ckpt, reader, cleanup, brought>>
  BY DEF Install
<1>2. ~Idle
  BY <1>1 DEF Idle
<1>3. phase = "open" /\ j \in DOMAIN jobs /\ jobs[j].pc = "apply"
  BY <1>1, <1>2 DEF IInv, IoInv
<1>4. jobs[j] \in JobType /\ jobs \in Seq(JobType)
  BY <1>3, JobFacts, IInvFacts
<1> DEFINE to == IF jobs[j].kind \in {"excise", "external"} THEN "unprotect" ELSE "clear"
           x == [jobs[j] EXCEPT !.pc = to]
<1>5. \E v \in Installed :
        /\ jobs' = [jobs EXCEPT ![j] = x]
        /\ db' = v \/ db' = DeleteObsoleteFiles(UpdateReadState(v))
  <2>1. CASE jobs[j].kind \in {"excise", "external"}
    <3>1. /\ \E d \in {UpdateReadState(v) : v \in Installed} : db' = DeleteObsoleteFiles(d)
          /\ jobs' = [jobs EXCEPT ![j].pc = "unprotect"]
      BY <2>1 DEF Install
    <3> HIDE DEF j
    <3> QED
      BY <2>1, <3>1
  <2>2. CASE jobs[j].kind \notin {"excise", "external"}
    <3>1. db' \in Installed /\ jobs' = [jobs EXCEPT ![j].pc = "clear"]
      BY <2>2 DEF Install
    <3> HIDE DEF j
    <3> QED
      BY <2>2, <3>1
  <2> QED
    BY <2>1, <2>2
<1>6. /\ x \in JobType /\ SameJob(jobs[j], x) /\ x.pc = to
  BY <1>4 DEF JobType, SameJob
<1> HIDE DEF x
<1>7. /\ jobs' \in Seq(JobType) /\ DOMAIN jobs' = DOMAIN jobs /\ jobs'[j] = x
      /\ \A i \in DOMAIN jobs : i # j => jobs'[i] = jobs[i]
  <2>0. jobs' = [jobs EXCEPT ![j] = x]
    BY <1>5
  <2>1. JobStep(j, x)
    BY <1>3, <1>4, <1>6, <2>0, JobChanged
  <2>2. DOMAIN jobs' = DOMAIN jobs
    BY <2>0
  <2> QED
    BY <1>3, <2>1, <2>2 DEF JobStep
<1>8. PICK v \in Installed : db' = v \/ db' = DeleteObsoleteFiles(UpdateReadState(v))
  BY <1>5
<1>9. /\ InstalledWell(v) /\ DBInv(db', io.tables, {}) /\ Releases(v, db', {})
      /\ RefsInv(db', jobs) /\ ReadersInv(db', reader)
  BY <1>2, <1>8, InstalledNow
<1>10. \A i \in DOMAIN jobs : SameJob(jobs[i], jobs[i])
  BY DEF SameJob
<1>11. \A i \in DOMAIN jobs :
       /\ SameJob(jobs[i], jobs'[i])
       /\ i # io.job => jobs'[i] = jobs[i]
       /\ i = io.job => jobs[i].pc = "apply"
                        /\ jobs'[i].pc = IF jobs[i].kind \in {"excise", "external"}
                                         THEN "unprotect" ELSE "clear"
  BY <1>3, <1>6, <1>7, <1>10
<1>12. InstallStep(v)
  BY <1>1, <1>3, <1>7, <1>9, <1>11 DEF InstallStep, disk
<1> QED
  BY <1>1, <1>3, <1>12

LEMMA InstallInv == ASSUME IInv, Install PROVE IInv'
BY InstallSteps, InstallStepInv

LEMMA OpenFlushedSteps ==
  ASSUME IInv, OpenFlushed
  PROVE  /\ \E v : InstallStep(v)
         /\ phase = "loaded" /\ phase' = "flushed" /\ brought' = brought
<1>1. /\ io.stage = "install" /\ io.job = 0 /\ io' = NoIO
      /\ phase' = "flushed" /\ hasLog' = FALSE
      /\ \E d \in {UpdateReadState(v) : v \in Installed} : db' = DeleteObsoleteFiles(d)
      /\ UNCHANGED <<files, synced, manifests, marker, external, jobs, ckpt, reader, cleanup, brought>>
  BY DEF OpenFlushed
<1>2. ~Idle
  BY <1>1 DEF Idle
<1>3. jobs \in Seq(JobType)
  BY IInvFacts
<1>4. phase = "loaded" /\ 0 \notin DOMAIN jobs
  BY <1>1, <1>2, <1>3 DEF IInv, IoInv
<1>5. PICK v \in Installed : db' = DeleteObsoleteFiles(UpdateReadState(v))
  BY <1>1
<1>6. /\ InstalledWell(v) /\ DBInv(db', io.tables, {}) /\ Releases(v, db', {})
      /\ RefsInv(db', jobs) /\ ReadersInv(db', reader)
  BY <1>2, <1>5, InstalledNow
<1>7. \A i \in DOMAIN jobs : SameJob(jobs[i], jobs'[i]) /\ i # io.job /\ jobs'[i] = jobs[i]
  BY <1>1, <1>4 DEF SameJob
<1>8. InstallStep(v)
  BY <1>1, <1>3, <1>4, <1>6, <1>7 DEF InstallStep
<1> QED
  BY <1>1, <1>4, <1>8

LEMMA OpenFlushedInv == ASSUME IInv, OpenFlushed PROVE IInv'
BY OpenFlushedSteps, InstallStepInv
(***************************************************************************)
(* The initial state, and the invariant.                                   *)
(***************************************************************************)
FirstTables == {Physical(2, 1, {1, 3}), Table(3, 3, TRUE, 0, {<<2, 3>>})}
FirstDB     == [NewDB(FirstTables, {3}, 1, 4) EXCEPT !.manifest = TRUE]
FirstEdit   == [Edit({}, FirstTables, {3}) EXCEPT !.next = 4]

LEMMA FirstTablesFacts ==
  /\ FirstTables \in TableSets /\ Sound(FirstTables, {3})
  /\ Backings(FirstTables) = {2, 3} /\ Numbers(FirstTables) = {2, 3}
<1> DEFINE t == Physical(2, 1, {1, 3})
           u == Table(3, 3, TRUE, 0, {<<2, 3>>})
<1>1. /\ t \in TableType /\ t.num = 2 /\ t.backing = 2 /\ ~t.virtual
  <2>1. {1, 3} \X {2} \subseteq Keys \X Nat
    BY DEF Keys
  <2> DEFINE x == {1, 3} \X {2}
  <2> HIDE DEF x
  <2>2. t = Table(2, 2, FALSE, 1, x) /\ x \in SUBSET (Keys \X Nat)
    BY <2>1 DEF Physical, x
  <2> HIDE DEF t
  <2> QED
    BY <2>2 DEF Table, TableType
<1>2. u \in TableType /\ u.num = 3 /\ u.backing = 3 /\ u.virtual
  <2>1. {<<2, 3>>} \subseteq Keys \X Nat
    BY DEF Keys
  <2> DEFINE x == {<<2, 3>>}
  <2> HIDE DEF x
  <2>2. u = Table(3, 3, TRUE, 0, x) /\ x \in SUBSET (Keys \X Nat)
    BY <2>1 DEF x
  <2> HIDE DEF u
  <2> QED
    BY <2>2 DEF Table, TableType
<1> HIDE DEF t, u
<1>3. FirstTables = {t, u}
  BY DEF FirstTables, t, u
<1>4. FirstTables \in TableSets
  <2>1. {t} \in TableSets /\ {u} \in TableSets /\ {t, u} = {t} \cup {u}
    BY <1>1, <1>2, TableSetFacts
  <2> QED
    BY <1>3, <2>1, TableSetFacts
<1>5. Backings(FirstTables) = {2, 3} /\ Numbers(FirstTables) = {2, 3}
  BY <1>1, <1>2, <1>3 DEF Backings, Numbers
<1>6. Sound(FirstTables, {3})
  <2>1. \A x, y \in {t, u} : x.num = y.num => x = y
    BY <1>1, <1>2
  <2>2. \A x \in {t, u} : IF x.virtual THEN x.backing \in {3}
                          ELSE x.backing = x.num /\ x.backing \notin {3}
    <3>1. (IF t.virtual THEN t.backing \in {3} ELSE t.backing = t.num /\ t.backing \notin {3})
      BY <1>1
    <3>2. (IF u.virtual THEN u.backing \in {3} ELSE u.backing = u.num /\ u.backing \notin {3})
      BY <1>2
    <3> QED
      BY <3>1, <3>2
  <2> QED
    BY <1>3, <2>1, <2>2 DEF Sound
<1> QED
  BY <1>4, <1>5, <1>6

\* The version set as Init makes it.
LEMMA FirstDBFacts ==
  LET d == FirstDB
      e == UpdateReadState(d)
  IN  /\ DBInv(e, FirstTables, {}) /\ RefsInv(e, << >>) /\ ReadersInv(e, NoRead)
      /\ e \in DBType /\ e.readState # 0 /\ Releases(d, e, {})
      /\ Current(d) = FirstTables /\ d.current = 1 /\ DOMAIN d.versions = {1}
      /\ d.versions[1].tables = FirstTables
      /\ d.backings = [b \in {3} |-> [use |-> Virtuals(FirstTables, b), prot |-> 0]]
      /\ DOMAIN d.backings = {3} /\ d.held = {} /\ Refd(d) = {2, 3} /\ DoomedIn(d) = {}
      /\ d.obsoleteManifests = {} /\ LateManifests(d) = {}
      /\ d.nextFileNum = 4 /\ d.manifestFileNum = 1 /\ d.disabled = 0 /\ ~d.writing
<1> DEFINE T == FirstTables
           B == {3}
           n == 1
           next == 4
           o == NewDB(T, B, n, next)
           js == << >>
<1>1. /\ T \in TableSets /\ B \in SUBSET Nat /\ n \in Nat /\ next \in Nat
      /\ \A t \in T : t.virtual => t.backing \in B
  BY FirstTablesFacts DEF Sound
<1>2. Backings(T) \cup B = {2, 3} /\ n = 1 /\ next = 4 /\ T = FirstTables /\ B = {3}
  BY FirstTablesFacts
<1>3. FirstDB = [o EXCEPT !.manifest = TRUE]
  BY DEF FirstDB
<1>4. js \in Seq(JobType) /\ NoVersions(js) /\ NoRead \in ReaderType
  BY DEF NoVersions, NoRead, ReaderType
<1>5. js = << >>
  OBVIOUS
<1> HIDE DEF T, B, n, next, js
<1>6. /\ DBInv(o, T, {}) /\ ReadersInv(o, NoRead) /\ o \in DBType
      /\ RefsInv(o, js)
  <2>1. /\ DBInv(o, T, {}) /\ ReadersInv(o, NoRead) /\ o \in DBType
        /\ \A q : NoVersions(q) => RefsInv(o, q)
    BY <1>1, NewDBFacts
  <2> HIDE DEF o
  <2> QED
    BY <1>4, <2>1
<1>7. /\ Current(o) = T /\ DOMAIN o.versions = {1} /\ o.versions[1].tables = T
      /\ Refd(o) = Backings(T) \cup B
      /\ DOMAIN o.backings = B
      /\ DoomedIn(o) = {} /\ LateManifests(o) = {}
      /\ o.obsoleteManifests = {} /\ o.held = {}
  BY NewDBFields
<1>8. o.current = 1 /\ o.nextFileNum = next /\ o.manifestFileNum = n /\ o.disabled = 0 /\ ~o.writing
  BY NewDBNumbers
<1>9. o.backings = [b \in B |-> [use |-> Virtuals(T, b), prot |-> 0]]
  BY NewDBBackings
<1> HIDE DEF o
<1> DEFINE d == FirstDB
           e == UpdateReadState(d)
<1>10. /\ d \in DBType
       /\ d.versions = o.versions /\ d.current = o.current /\ d.held = o.held
       /\ d.zombies = o.zombies /\ d.obsolete = o.obsolete /\ d.late = o.late
       /\ d.obsoleteManifests = o.obsoleteManifests /\ d.readStates = o.readStates
       /\ d.readState = o.readState /\ d.panic = o.panic /\ d.backings = o.backings
       /\ d.nextFileNum = o.nextFileNum /\ d.manifestFileNum = o.manifestFileNum
       /\ d.disabled = o.disabled /\ d.writing = o.writing
  BY <1>3, <1>6 DEF DBType
<1>11. d.nextFileNum >= o.nextFileNum
  BY <1>10 DEF DBType
<1> HIDE DEF d
<1>12. DBInv(d, T, {}) /\ RefsInv(d, js) /\ ReadersInv(d, NoRead)
  <2>1. DOMAIN d.backings = DOMAIN o.backings
    BY <1>10
  <2> QED
    BY <1>6, <1>10, <1>11, <2>1, OtherFields
<1>13. Current(d) = T /\ Refd(d) = Backings(T) \cup B /\ DoomedIn(d) = {} /\ LateManifests(d) = {}
  BY <1>7, <1>10 DEF Current, Refd, DoomedIn, LateTables, LateManifests
<1>14. /\ DBInv(e, T, {}) /\ Releases(d, e, {}) /\ RefsInv(e, js)
       /\ ReadersInv(e, NoRead) /\ e.readState # 0
  BY <1>4, <1>12, UpdateReadStateFacts
<1> HIDE DEF e
<1>15. e \in DBType
  BY <1>14 DEF DBInv
<1> QED
  BY <1>2, <1>5, <1>7, <1>8, <1>9, <1>10, <1>13, <1>14, <1>15 DEF d, e

LEMMA InitInv == Init => IInv
<1> SUFFICES ASSUME Init PROVE IInv
  OBVIOUS
<1> DEFINE T == FirstTables
           x == [recs |-> <<FirstEdit>>, synced |-> 1]
<1>1. /\ files = {2, 3} /\ synced = files /\ external = {3}
      /\ manifests = [n \in {1} |-> x] /\ marker = <<1>> /\ hasLog = TRUE
      /\ phase = "open" /\ db = UpdateReadState(FirstDB) /\ io = NoIO /\ jobs = << >>
      /\ ckpt = NoCkpt /\ reader = NoRead /\ cleanup = << >>
  BY DEF Init, FirstTables, FirstDB, FirstEdit
<1>2. /\ T \in TableSets /\ Sound(T, {3}) /\ Backings(T) = {2, 3} /\ Numbers(T) = {2, 3}
  BY FirstTablesFacts
<1> HIDE DEF T, x
<1>3. /\ DBInv(db, T, {}) /\ RefsInv(db, jobs) /\ ReadersInv(db, reader)
      /\ db \in DBType /\ db.readState # 0 /\ Releases(FirstDB, db, {})
  BY <1>1, FirstDBFacts DEF T
<1>4. /\ Current(db) = T /\ db.current = 1 /\ DOMAIN db.backings = {3} /\ db.held = {}
      /\ db.backings = [b \in {3} |-> [use |-> Virtuals(T, b), prot |-> 0]]
      /\ \A v \in DOMAIN db.versions : db.versions[v].tables = T
      /\ db.nextFileNum = 4 /\ db.manifestFileNum = 1 /\ db.disabled = 0
      /\ DoomedIn(db) \subseteq {2, 3}
      /\ db.obsoleteManifests = {} /\ LateManifests(db) = {}
  <2> DEFINE d == FirstDB
  <2>1. /\ Current(d) = T /\ d.current = 1 /\ DOMAIN d.versions = {1}
        /\ d.versions[1].tables = T
        /\ d.backings = [b \in {3} |-> [use |-> Virtuals(T, b), prot |-> 0]]
        /\ DOMAIN d.backings = {3} /\ d.held = {} /\ Refd(d) = {2, 3} /\ DoomedIn(d) = {}
        /\ d.obsoleteManifests = {} /\ LateManifests(d) = {}
        /\ d.nextFileNum = 4 /\ d.manifestFileNum = 1 /\ d.disabled = 0
    BY FirstDBFacts DEF T
  <2> HIDE DEF d
  <2>2. Releases(d, db, {})
    BY <1>3 DEF d
  <2>3. /\ db.current = d.current /\ DOMAIN db.backings = DOMAIN d.backings /\ db.held = d.held
        /\ db.nextFileNum = d.nextFileNum /\ db.manifestFileNum = d.manifestFileNum
        /\ db.disabled = d.disabled /\ db.backings = d.backings
    BY <2>2 DEF Releases, Lets
  <2>4. /\ DOMAIN db.versions \subseteq DOMAIN d.versions
        /\ \A v \in DOMAIN db.versions : db.versions[v].tables = d.versions[v].tables
        /\ DoomedIn(db) \subseteq DoomedIn(d) \cup Refd(d) \cup {}
        /\ db.obsoleteManifests \cup LateManifests(db) \subseteq
             d.obsoleteManifests \cup LateManifests(d)
    BY <2>2 DEF Releases, Lets
  <2>5. \A v \in DOMAIN db.versions : db.versions[v].tables = T
    BY <2>1, <2>4
  <2>6. Current(db) = T
    BY <1>3, <2>5 DEF Current, DBInv
  <2>7. DoomedIn(db) \subseteq {2, 3} /\ db.obsoleteManifests = {} /\ LateManifests(db) = {}
    BY <2>1, <2>4
  <2> QED
    BY <2>1, <2>3, <2>5, <2>6, <2>7
<1>5. Idle /\ Target = T /\ io.zombies = {} /\ io.stage = "none" /\ Up /\ Settled
  BY <1>1, <1>4 DEF NoIO, Idle, Target, Up, Settled
<1>6. ckpt.pc = "idle" /\ ckpt.need = {} /\ DOMAIN jobs = {}
  BY <1>1 DEF NoCkpt
<1>7. FirstEdit \in EditType /\ FirstEdit.new = T /\ FirstEdit.created = {3} /\ FirstEdit.next = 4
  <2>1. {} \in TableSets
    BY TableSetFacts
  <2>2. FirstEdit = [del |-> {}, new |-> T, created |-> {3}, removed |-> {}, next |-> 4]
    BY DEF FirstEdit, Edit, T
  <2> QED
    BY <1>2, <2>1, <2>2 DEF EditType
<1>8. /\ x \in Manifest /\ x.recs = <<FirstEdit>> /\ x.synced = 1 /\ Len(x.recs) = 1
  BY <1>7 DEF x, Manifest
<1>9. /\ DOMAIN manifests = {1} /\ manifests[1] = x /\ manifests \in Maps(Manifest)
      /\ IsFiniteSet(DOMAIN manifests)
  <2>1. DOMAIN manifests = {1} /\ manifests[1] = x
    BY <1>1
  <2>2. manifests \in [DOMAIN manifests -> Manifest]
    BY <1>1, <1>8
  <2>3. IsFiniteSet(DOMAIN manifests)
    BY <2>1, FS_Singleton
  <2> QED
    BY <2>1, <2>2, <2>3, MapFacts
<1>10. Records(1) = 1 /\ Full(1) /\ Lengths(1) = {1}
  <2>1. Records(1) = 1 /\ manifests[1].synced = 1 /\ Len(manifests[1].recs) = 1
    BY <1>8, <1>9 DEF Records
  <2>2. Lengths(1) = 1 .. 1
    BY <2>1 DEF Lengths
  <2> QED
    BY <2>1, <2>2 DEF Full
<1>11. Image(1, 1) = Pair(T, {3})
  <2>1. Image(1, 1) = ReadBack(<<FirstEdit>>, 1)
    BY <1>8, <1>9, ImageRead
  <2> QED
    BY <1>7, <2>1, ReadBackNew
<1>12. Image(1, 1).tables = T /\ Image(1, 1).backings = {3}
  BY <1>11, PairEqual
<1>13. Range(marker) = {1} /\ Last(marker) = 1 /\ marker = <<1>>
  BY <1>1, MarkerOne
<1>14. IsFiniteSet({2, 3})
  <2>1. {2, 3} = {2} \cup {3} /\ IsFiniteSet({2}) /\ IsFiniteSet({3})
    BY FS_Singleton
  <2> QED
    BY <2>1, FS_Union
<1>15. io \in IOType /\ ckpt \in CkptType /\ reader \in ReaderType
  <2>1. {} \in TableSets
    BY TableSetFacts
  <2>2. NoEdit \in EditType
    BY <2>1 DEF NoEdit, Edit, EditType
  <2>3. NoIO \in IOType
    BY <2>1, <2>2 DEF NoIO, IOType
  <2> QED
    BY <1>1, <2>3 DEF NoCkpt, NoRead, CkptType, ReaderType
<1>16. TypeOK
  <2>1. DiskType
    BY <1>1, <1>9, <1>14 DEF DiskType
  <2> QED
    BY <1>1, <1>3, <1>15, <2>1 DEF TypeOK
<1>17. DBInv(db, Target, io.zombies)
  BY <1>3, <1>5
<1>18. BackingsInv
  <2>1. Sound(Target, DOMAIN db.backings)
    BY <1>2, <1>4, <1>5
  <2>2. ASSUME NEW b \in DOMAIN db.backings
        PROVE  /\ db.backings[b].use = Virtuals(Target, b)
               /\ db.backings[b].prot = Cardinality(Protecting(jobs, b))
    <3>1. db.backings[b] = [use |-> Virtuals(T, b), prot |-> 0]
      BY <1>4
    <3>2. Protecting(jobs, b) = {} /\ Cardinality({}) = 0
      BY <1>6, FS_EmptySet DEF Protecting
    <3>3. db.backings[b].use = Virtuals(T, b) /\ db.backings[b].prot = 0
      BY <3>1
    <3> QED
      BY <1>5, <3>2, <3>3
  <2> QED
    BY <1>6, <2>1, <2>2 DEF BackingsInv
<1>19. IoInv
  BY <1>1, <1>4, <1>5 DEF IoInv
<1>20. CleanupTables = {} /\ CleanupManifests = {} /\ Range(cleanup) = {}
  BY <1>1 DEF CleanupTables, CleanupManifests, Range
<1>21. Refd(db) \subseteq {2, 3}
  BY <1>2, <1>4 DEF Refd
<1>22. FilesInv
  <2>1. Refd(db) \subseteq synced /\ Refd(db) \cap CleanupTables = {}
    BY <1>1, <1>20, <1>21
  <2>2. \A f \in files \cup DOMAIN manifests : f > 0
    BY <1>1, <1>9
  <2>3. Doomed \subseteq {2, 3}
    BY <1>4, <1>20 DEF Doomed
  <2>4. \A f \in files \cup Doomed \cup DOMAIN manifests : f < db.nextFileNum
    <3>1. files \cup Doomed \cup DOMAIN manifests \subseteq {1, 2, 3} /\ db.nextFileNum = 4
      BY <1>1, <1>4, <1>9, <2>3
    <3> QED
      BY <3>1
  <2>5. \A n \in Numbers(Target) : n < db.nextFileNum
    BY <1>2, <1>4, <1>5
  <2> QED
    BY <1>20, <2>1, <2>2, <2>4, <2>5 DEF FilesInv
<1>23. OwnInv
  <2>1. Inputs = {}
    BY <1>6 DEF Inputs
  <2> QED
    BY <1>6, <2>1 DEF OwnInv
<1>24. JobsInv /\ LockInv
  BY <1>6 DEF JobsInv, LockInv
<1>25. PhaseInv
  BY <1>1, <1>3, <1>4, <1>6 DEF PhaseInv
<1>26. MarkerInv
  <2>1. ImageOK(1, 1)
    <3>1. manifests[1].recs[1].next = 4
      BY <1>7, <1>8, <1>9
    <3>2. Backings(T) \cup {3} \subseteq synced
      BY <1>1, <1>2
    <3>3. \A m \in Numbers(T) : m < 4
      BY <1>2
    <3> QED
      BY <1>2, <1>12, <3>1, <3>2, <3>3 DEF ImageOK
  <2>2. \A n \in Range(marker) :
          n \in DOMAIN manifests /\ manifests[n].synced >= 1
            /\ \A k \in Lengths(n) : ImageOK(n, k)
    BY <1>8, <1>9, <1>10, <1>13, <2>1
  <2>3. \A n \in DOMAIN manifests : manifests[n].synced <= Records(n)
    BY <1>8, <1>9, <1>10
  <2> QED
    BY <1>1, <1>4, <1>9, <1>20, <2>2, <2>3 DEF MarkerInv
<1>27. StageInv
  <2>1. AtRest(Pair(Current(db), DOMAIN db.backings))
    BY <1>4, <1>10, <1>11, <1>13 DEF AtRest
  <2> QED
    BY <1>5, <2>1 DEF StageInv
<1>28. CkptInv
  BY <1>6 DEF CkptInv
<1> QED
  BY <1>3, <1>16, <1>17, <1>18, <1>19, <1>22, <1>23, <1>24, <1>25, <1>26, <1>27, <1>28 DEF IInv

\* A step that changes nothing.
LEMMA StutterInv == ASSUME IInv, UNCHANGED vars PROVE IInv'
<1>1. /\ UNCHANGED <<files, synced, manifests, marker, external, hasLog, phase>>
      /\ UNCHANGED <<db, io, jobs, ckpt, reader, cleanup>>
  BY DEF vars, disk
<1>2. Idle' = Idle /\ Target' = Target /\ Up' = Up /\ Settled' = Settled
  BY <1>1 DEF Idle, Target, Up, Settled
<1>3. \A n, k : Image(n, k)' = Image(n, k)
  BY <1>1, ImageRead
<1>4. \A n : Records(n)' = Records(n) /\ Full(n)' = Full(n) /\ Lengths(n)' = Lengths(n)
  BY <1>1 DEF Records, Full, Lengths
<1>5. /\ CleanupTables' = CleanupTables /\ CleanupManifests' = CleanupManifests
      /\ Doomed' = Doomed /\ Inputs' = Inputs
  BY <1>1 DEF CleanupTables, CleanupManifests, Doomed, Inputs
<1>6. TypeOK'
  BY <1>1 DEF IInv, TypeOK, DiskType
<1>7. /\ DBInv(db', Target', io'.zombies) /\ RefsInv(db', jobs') /\ ReadersInv(db', reader')
  BY <1>1, <1>2 DEF IInv
<1>8. BackingsInv'
  BY <1>1, <1>2 DEF IInv, BackingsInv
<1>9. IoInv'
  BY <1>1, <1>2 DEF IInv, IoInv, EditInv
<1>10. FilesInv'
  BY <1>1, <1>2, <1>5 DEF IInv, FilesInv
<1>11. OwnInv'
  <2>1. Taken' = Taken
    BY <1>1, <1>2, <1>5 DEF Taken
  <2> QED
    BY <1>1, <1>5, <2>1 DEF IInv, OwnInv
<1>12. JobsInv' /\ LockInv'
  BY <1>1, <1>2 DEF IInv, JobsInv, LockInv, Compaction
<1>13. PhaseInv'
  BY <1>1, <1>2 DEF IInv, PhaseInv
<1>14. MarkerInv'
  <2>1. \A n, k : ImageOK(n, k)' = ImageOK(n, k)
    BY <1>1, <1>3 DEF ImageOK
  <2> QED
    BY <1>1, <1>2, <1>4, <1>5, <2>1 DEF IInv, MarkerInv
<1>15. StageInv'
  <2>1. \A i : AtRest(i)' = AtRest(i)
    <3>1. Image(db.manifestFileNum, Records(db.manifestFileNum))'
            = Image(db.manifestFileNum, Records(db.manifestFileNum))
      BY <1>1 DEF Image, Records
    <3>2. Full(db.manifestFileNum)' = Full(db.manifestFileNum)
      BY <1>1 DEF Full, Records
    <3> QED
      BY <1>1, <1>2, <3>1, <3>2 DEF AtRest
  <2>2. Before' = Before /\ After' = After /\ Writing' = Writing
    BY <1>1 DEF Before, After, Writing
  <2>3. \A n : NewManifest(n)' = NewManifest(n)
    BY <1>1 DEF NewManifest
  <2>4. /\ Records(io.prev)' = Records(io.prev) /\ Full(io.prev)' = Full(io.prev)
        /\ Image(io.prev, Records(io.prev) - 1)' = Image(io.prev, Records(io.prev) - 1)
        /\ Image(io.prev, Records(io.prev))' = Image(io.prev, Records(io.prev))
    BY <1>1 DEF Records, Full, Image
  <2>5. /\ Full(Writing)' = Full(Writing)
        /\ Image(Writing, Records(Writing))' = Image(Writing, Records(Writing))
    BY <1>1 DEF Records, Full, Image, Writing
  <2> QED
    BY <1>1, <1>2, <2>1, <2>2, <2>3, <2>4, <2>5 DEF IInv, StageInv
<1>16. CkptInv'
  <2>1. Image(ckpt.manifest, ckpt.size)' = Image(ckpt.manifest, ckpt.size)
    BY <1>1 DEF Image
  <2>2. Records(ckpt.manifest)' = Records(ckpt.manifest)
    BY <1>1 DEF Records
  <2> QED
    BY <1>1, <1>5, <2>1, <2>2 DEF IInv, CkptInv
<1> QED
  BY <1>6, <1>7, <1>8, <1>9, <1>10, <1>11, <1>12, <1>13, <1>14, <1>15, <1>16 DEF IInv

\* A step of a job.
LEMMA JobNextInv == ASSUME IInv, NEW j \in DOMAIN jobs, JobNext(j) PROVE IInv'
<1>1. CASE StartCompaction(j)
  BY <1>1, StartCompactionInv
<1>2. CASE WriteTable(j)
  BY <1>2, WriteTableInv
<1>3. CASE SyncTable(j)
  BY <1>3, SyncTableInv
<1>4. CASE RunDeleteOnly(j)
  BY <1>4, RunDeleteOnlyInv
<1>5. CASE FailRun(j)
  BY <1>5, FailRunInv
<1>6. CASE ApplyTables(j)
  BY <1>6, ApplyTablesInv
<1>7. CASE ApplyExcise(j)
  BY <1>7, ApplyExciseInv
<1>8. CASE ExciseError(j)
  BY <1>8, ExciseErrorInv
<1>9. CASE LockExternal(j)
  BY <1>9, LockExternalInv
<1>10. CASE ApplyExternal(j)
  BY <1>10, ApplyExternalInv
<1>11. CASE TargetError(j)
  BY <1>11, TargetErrorInv
<1>12. CASE Unprotect(j)
  BY <1>12, UnprotectInv
<1>13. CASE ClearCompacting(j)
  BY <1>13, ClearCompactingInv
<1> QED
  BY <1>1, <1>2, <1>3, <1>4, <1>5, <1>6, <1>7, <1>8, <1>9, <1>10, <1>11, <1>12, <1>13
  DEF JobNext

\* Every step keeps the invariant.
LEMMA NextInv == ASSUME IInv, [Next]_vars PROVE IInv'
<1>1. CASE BeginFlush
  BY <1>1, BeginFlushInv
<1>2. CASE PickCompaction
  BY <1>2, PickCompactionInv
<1>3. CASE BeginExcise
  BY <1>3, BeginExciseInv
<1>4. CASE BeginExternal
  BY <1>4, BeginExternalInv
<1>5. CASE \E j \in DOMAIN jobs : JobNext(j)
  BY <1>5, JobNextInv
<1>6. CASE WriterNext
  BY <1>6, WriteManifestInv, SyncManifestInv, MoveMarkerInv, SyncDirInv, InstallInv
  DEF WriterNext
<1>7. CASE OpenNext
  BY <1>7, LoadInv, OpenFlushInv, OpenFlushedInv, OpenCreateLogInv, OpenScanInv DEF OpenNext
<1>8. CASE Read
  BY <1>8, ReadInv
<1>9. CASE ReaderNext
  BY <1>9, UnrefInv, RemoveUnreferencedInv, ScheduleInv DEF ReaderNext
<1>10. CASE BeginCheckpoint \/ LockCheckpoint \/ EndCheckpoint
  BY <1>10, BeginCheckpointInv, LockCheckpointInv, EndCheckpointInv
<1>11. CASE EnqueueJob \/ CleanupFile
  BY <1>11, EnqueueJobInv, CleanupFileInv
<1>12. CASE Crash
  BY <1>12, CrashInv
<1>13. CASE UNCHANGED vars
  BY <1>13, StutterInv
<1> QED
  BY <1>1, <1>2, <1>3, <1>4, <1>5, <1>6, <1>7, <1>8, <1>9, <1>10, <1>11, <1>12, <1>13
  DEF Next

(***************************************************************************)
(* What the invariant says of the program.                                 *)
(***************************************************************************)
\* The invariant holds in every state: the counts of the references to versions,
\* read states and backings are right, nothing that is referred to is to be
\* deleted, and the manifest on disk reads back as the state of logAndApply says.
THEOREM Inductive == Spec => []IInv
<1>1. IInv /\ [Next]_vars => IInv'
  BY NextInv
<1> QED
  BY <1>1, InitInv, PTL DEF Spec

\* None of the assertions of version_set.go, version_edit.go and
\* virtual_backings.go fires, whatever jobs interleave, fail or are cancelled.
THEOREM NeverPanics == Spec => []NoPanic
<1>1. IInv => NoPanic
  BY DEF IInv, DBInv, NoPanic
<1> QED
  BY <1>1, Inductive, PTL

LEMMA ImageMembers ==
  \A i : i \in Images <=> \E n \in Range(marker) : \E k \in Lengths(n) : i = Image(n, k)
BY DEF Images

\* No file is deleted while a manifest that Open may find, a version, a virtual
\* backing, a running compaction or a checkpoint needs it.
THEOREM KeepsNeededFiles == Spec => []NeededFilesKept
<1>1. ASSUME IInv PROVE NeededFilesKept
  <2>1. synced \subseteq files /\ Refd(db) \subseteq synced
    BY <1>1 DEF IInv, TypeOK, DiskType, FilesInv
  <2>2. ASSUME NEW i \in Images PROVE Backings(i.tables) \cup i.backings \subseteq synced
    <3>1. PICK n \in Range(marker) : \E k \in Lengths(n) : i = Image(n, k)
      BY <2>2, ImageMembers
    <3>2. PICK k \in Lengths(n) : i = Image(n, k)
      BY <3>1
    <3>3. ImageOK(n, k)
      BY <1>1 DEF IInv, MarkerInv
    <3> QED
      BY <3>2, <3>3 DEF ImageOK
  <2>3. ASSUME NEW v \in DOMAIN db.versions
        PROVE  Backings(db.versions[v].tables) \subseteq files
    BY <2>1 DEF Refd
  <2>4. DOMAIN db.backings \subseteq files
    BY <2>1 DEF Refd
  <2>5. ASSUME NEW j \in Unfinished, jobs[j].pc = "run"
        PROVE  Backings(jobs[j].in) \subseteq files
    <3> DEFINE job == jobs[j]
    <3>1. j \in DOMAIN jobs
      BY DEF Unfinished
    <3>2. JobOK(job) /\ InputsInv(job, db, Target)
      BY <1>1, <3>1 DEF IInv, JobsInv
    <3>3. job.version \in DOMAIN db.versions \cup {0}
      BY <1>1, <3>1 DEF IInv, RefsInv
    <3>4. CASE job.kind = "flush"
      <4>1. job.in = {}
        BY <3>2, <3>4 DEF JobOK
      <4> QED
        BY <4>1 DEF Backings
    <3>5. CASE job.kind # "flush"
      <4>1. job.version # 0 /\ job.in \subseteq db.versions[job.version].tables
        BY <2>5, <3>2, <3>5 DEF InputsInv
      <4>2. Backings(job.in) \subseteq Backings(db.versions[job.version].tables)
        BY <4>1 DEF Backings
      <4> QED
        BY <2>3, <3>3, <4>1, <4>2
    <3> QED
      BY <3>4, <3>5
  <2>6. ckpt.pc = "copy" =>
          /\ ckpt.need \subseteq files
          /\ ckpt.manifest \in DOMAIN manifests
          /\ Backings(Image(ckpt.manifest, ckpt.size).tables) \subseteq ckpt.need
    BY <1>1 DEF IInv, CkptInv
  <2> QED
    BY <2>2, <2>3, <2>4, <2>5, <2>6 DEF NeededFilesKept
<1> QED
  BY <1>1, Inductive, PTL

\* A crash finds the tables and the virtual backings in memory, or, during
\* logAndApply, the tables before or after its edit.
THEOREM RecoversFromManifest == Spec => []ManifestRecovers
<1>1. ASSUME IInv PROVE ManifestRecovers
  <2> SUFFICES ASSUME phase = "open"
               PROVE  IF io = NoIO
                      THEN Images = {[tables |-> Current(db), backings |-> DOMAIN db.backings]}
                      ELSE \A i \in Images : i.tables \in {Current(db), io.tables}
    BY DEF ManifestRecovers
  <2> DEFINE P == Pair(Current(db), DOMAIN db.backings)
  <2>1. Up /\ Settled
    BY <1>1, OpenFacts
  <2>2. io = NoIO <=> Idle
    <3>1. NoIO.stage = "none"
      BY DEF NoIO
    <3> QED
      BY <1>1, <3>1 DEF IInv, IoInv, Idle
  <2>3. ASSUME Idle PROVE Images = {P}
    <3>1. ASSUME NEW i \in Images PROVE i = P
      <4>1. PICK n \in Range(marker) : \E k \in Lengths(n) : i = Image(n, k)
        BY <3>1, ImageMembers
      <4>2. PICK k \in Lengths(n) : i = Image(n, k)
        BY <4>1
      <4>3. IF Idle THEN Image(n, k) = P ELSE Image(n, k) \in {Before, After}
        BY <1>1, <2>1, ImagesNow
      <4> QED
        BY <2>3, <4>2, <4>3
    <3>2. Images # {}
      <4> DEFINE n == Last(marker)
      <4>1. marker \in Seq(Nat) /\ marker # << >>
        BY <1>1, ManifestFacts
      <4>2. Len(marker) \in DOMAIN marker
        BY <4>1
      <4>3. n \in Range(marker)
        BY <4>2 DEF Last, Range
      <4>4. /\ manifests[n].synced \in Nat /\ Records(n) \in Nat
            /\ manifests[n].synced <= Records(n)
        BY <1>1, <4>3, ManifestFacts
      <4>5. Records(n) \in Lengths(n)
        BY <4>4 DEF Lengths, Records
      <4> HIDE DEF n
      <4>6. Image(n, Records(n)) \in Images
        BY <4>3, <4>5, ImageMembers
      <4> QED
        BY <4>6
    <3> QED
      BY <3>1, <3>2
  <2>4. ASSUME ~Idle, NEW i \in Images PROVE i.tables \in {Current(db), io.tables}
    <3>1. PICK n \in Range(marker) : \E k \in Lengths(n) : i = Image(n, k)
      BY <2>4, ImageMembers
    <3>2. PICK k \in Lengths(n) : i = Image(n, k)
      BY <3>1
    <3>3. IF Idle THEN Image(n, k) = P ELSE Image(n, k) \in {Before, After}
      BY <1>1, <2>1, ImagesNow
    <3>4. Before.tables = io.snapshot.new /\ After.tables = io.tables
      BY PairEqual DEF Before, After
    <3>5. io.snapshot.new = Current(db)
      BY <1>1, <2>4 DEF IInv, IoInv, EditInv
    <3> QED
      BY <2>4, <3>2, <3>3, <3>4, <3>5
  <2> QED
    BY <2>2, <2>3, <2>4 DEF Pair
<1> QED
  BY <1>1, Inductive, PTL
=============================================================================
