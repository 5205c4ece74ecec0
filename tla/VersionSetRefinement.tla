------------------------ MODULE VersionSetRefinement ------------------------
(***************************************************************************)
(* Proof that VersionSet implements TableStore, for any number of jobs,    *)
(* files and keys: an edit reaches the tables all at once, and a crash     *)
(* leaves what the manifest that Open will read tells.  TableStore says    *)
(* what the tables hold in items, pairs of a key and the number of the     *)
(* table that brought it; ItemsInv is what the proof needs to know of      *)
(* them, on top of IInv.                                                   *)
(***************************************************************************)
EXTENDS VersionSetProofs

(***************************************************************************)
(* The items of the tables, for the refinement.                            *)
(***************************************************************************)
NumbersOf(C) == {x[2] : x \in C}
Below(B, n)  == \A m \in B : m < n

\* The edit of a job that brings a table of its own, whose items nobody has
\* seen.
BringsItems(e, B) ==
  \E t \in e.new :
    /\ e.new = {t} /\ t.items # {} /\ t.num \notin B
    /\ \A x \in t.items : x[2] = t.num

\* A compaction that rewrites tables keeps their items, but for those of a span.
JobItems(job, B) ==
  /\ job.kind \in {"excise", "deleteonly"} => job.span \in Spans
  /\ Pending(job) =>
       /\ job.kind \in {"flush", "excise", "external"} => BringsItems(job.edit, B)
       /\ job.kind = "compact" => Contents(job.edit.new) = Contents(job.in)
       /\ job.kind = "deleteonly" =>
            /\ Contents(job.edit.new) \subseteq Contents(job.in)
            /\ \A x \in Contents(job.in) \ Contents(job.edit.new) : x[1] \in job.span

\* What load would take for the next file number.
LastNext == Last(manifests[Last(marker)].recs).next

ImageItems(n, k) ==
  LET N == NumbersOf(Contents(Image(n, k).tables))
  IN  N \subseteq brought /\ Below(N, manifests[n].recs[k].next) /\ Below(N, LastNext)

\* No item has a number that is yet to be given to a table, not even once the
\* next number is what load takes it to be.
ItemsInv ==
  /\ brought \subseteq Nat
  /\ \A j \in DOMAIN jobs : JobItems(jobs[j], brought)
  /\ \A n \in Range(marker) : \A k \in Lengths(n) : ImageItems(n, k)
  /\ Up => NumbersOf(Contents(Target)) \subseteq brought /\ Below(brought, db.nextFileNum)
  /\ ~Idle => Below(brought, io.edit.next) /\ (io.job = 0 => io.tables = Current(db))
  /\ ~Up => Below(brought, LastNext)

LEMMA ItemMembers ==
  /\ \A T, x : x \in Contents(T) <=> \E t \in T : x \in t.items
  /\ \A C, m : m \in NumbersOf(C) <=> \E x \in C : m = x[2]
BY DEF Contents, NumbersOf

\* What the store holds, as TableStore sees it.
Held == IF phase = "open" THEN {Contents(Current(db))}
        ELSE {Contents(i.tables) : i \in Images}

\* A step that TableStore does not see.
Unseen == Held' = Held /\ InFlight' = InFlight /\ brought' = brought

\* The current version, as it is read back from the manifest or as the edit under
\* way took it.
CurrentRead ==
  /\ Up /\ Idle =>
       LET r == manifests[db.manifestFileNum].recs
       IN  /\ Last(marker) = db.manifestFileNum
           /\ ReadBack(r, Len(r)) = Pair(Current(db), DOMAIN db.backings)
  /\ ~Idle => io.snapshot.new = Current(db)

LEMMA CurrentImage == IInv => CurrentRead
<1> SUFFICES ASSUME IInv PROVE CurrentRead
  OBVIOUS
<1>1. Up /\ Idle => AtRest(Pair(Current(db), DOMAIN db.backings))
  BY DEF IInv, StageInv
<1>2. ~Idle => io.snapshot.new = Current(db)
  BY DEF IInv, IoInv, EditInv
<1> QED
  BY <1>1, <1>2, OpenRead DEF AtRest, CurrentRead

\* The current version is that of the manifest, or of the snapshot of the edit.
LEMMA SameCurrent ==
  ASSUME IInv, IInv', Up, Up', manifests' = manifests,
         Last(marker') = Last(marker), io' = io
  PROVE  Current(db') = Current(db) /\ Target' = Target /\ Idle' = Idle
<1>1. Idle' = Idle /\ Up'
  BY DEF Idle
<1>2. CurrentRead
  BY CurrentImage
<1>3. CurrentRead'
  <2>1. IInv' => CurrentRead'
    BY CurrentImage, PTL
  <2> QED
    BY <2>1
<1>4. Current(db') = Current(db)
  <2>1. CASE Idle
    <3>1. Pair(Current(db), DOMAIN db.backings) = Pair(Current(db'), DOMAIN db'.backings)
      BY <1>1, <1>2, <1>3, <2>1 DEF CurrentRead
    <3> QED
      BY <3>1, PairEqual
  <2>2. CASE ~Idle
    BY <1>1, <1>2, <1>3, <2>2 DEF CurrentRead
  <2> QED
    BY <2>1, <2>2
<1> QED
  BY <1>1, <1>4 DEF Target

LEMMA SameImages ==
  ASSUME UNCHANGED <<manifests, marker>>
  PROVE  /\ Images' = Images /\ LastNext' = LastNext
         /\ \A n, k : Image(n, k)' = Image(n, k) /\ Lengths(n)' = Lengths(n)
         /\ brought' = brought => \A n, k : ImageItems(n, k)' = ImageItems(n, k)
<1>1. /\ Images' = Images /\ LastNext' = LastNext
      /\ \A n, k : Image(n, k)' = Image(n, k) /\ Lengths(n)' = Lengths(n)
  BY DEF Images, LastNext, Image, Lengths
<1> QED
  BY <1>1 DEF ImageItems

LEMMA NotIdle ==
  ASSUME IInv, ~Idle, phase = "open"
  PROVE  io.job \in DOMAIN jobs /\ jobs[io.job].pc = "apply" /\ io.job # 0
<1>1. io.job \in DOMAIN jobs /\ jobs[io.job].pc = "apply"
  BY DEF IInv, IoInv
<1>2. jobs \in Seq(JobType)
  BY IInvFacts
<1> QED
  BY <1>1, <1>2

LEMMA NextNumber == IInv => db.nextFileNum \in Nat
BY IInvFacts

LEMMA IdleNoIO ==
  /\ IInv => (Idle <=> io = NoIO)
  /\ NoIO.stage = "none" /\ NoIO.job = 0
<1>1. NoIO.stage = "none" /\ NoIO.job = 0
  BY DEF NoIO
<1> QED
  BY <1>1 DEF IInv, IoInv, Idle

\* A step that leaves the manifests and the edit under way alone, and changes at
\* most one job, to x.
LEMMA ItemsFrame ==
  ASSUME IInv, IInv', ItemsInv, Up, UNCHANGED <<manifests, marker, io, phase, brought>>,
         db'.nextFileNum >= db.nextFileNum,
         NEW j, NEW x, JobStep(j, x), JobItems(x, brought), Was(j).pc # "apply"
  PROVE  ItemsInv' /\ Unseen
<1>1. Current(db') = Current(db) /\ Target' = Target /\ Idle' = Idle
  <2>1. Up'
    BY DEF Up
  <2> QED
    BY <2>1, SameCurrent
<1>2. /\ Images' = Images /\ LastNext' = LastNext
      /\ \A n, k : Image(n, k)' = Image(n, k) /\ Lengths(n)' = Lengths(n)
      /\ \A n, k : ImageItems(n, k)' = ImageItems(n, k)
  BY SameImages
<1>3. Up'
  BY DEF Up
<1>4. \A i \in DOMAIN jobs' : JobItems(jobs'[i], brought')
  BY DEF JobStep, ItemsInv
<1>5. Below(brought', db'.nextFileNum)
  <2>1. Below(brought, db.nextFileNum)
    BY DEF ItemsInv
  <2>2. \A m \in brought : m \in Nat
    BY DEF ItemsInv
  <2>3. (db.nextFileNum \in Nat)'
    BY NextNumber, PTL
  <2> QED
    BY <2>1, <2>2, <2>3, IInvFacts DEF Below
<1>6. ItemsInv'
  BY <1>1, <1>2, <1>3, <1>4, <1>5 DEF ItemsInv
<1>7. Held' = Held
  BY <1>1, <1>2 DEF Held
<1>8. InFlight' = InFlight
  <2>1. CASE io = NoIO
    BY <2>1 DEF InFlight
  <2>2. CASE io # NoIO /\ io.job = 0
    BY <1>1, <2>2 DEF InFlight
  <2>3. CASE io # NoIO /\ io.job # 0
    <3>1. ~Idle /\ phase = "open"
      <4>1. ~Idle
        BY <2>3, IdleNoIO
      <4> QED
        BY <2>3, <4>1 DEF IInv, IoInv
    <3>2. io.job \in DOMAIN jobs /\ jobs[io.job].pc = "apply"
      BY <3>1, NotIdle
    <3>3. io.job # j
      BY <3>2 DEF Was
    <3>4. jobs'[io.job] = jobs[io.job]
      BY <3>2, <3>3 DEF JobStep
    <3>5. Contents(Current(db'))= Contents(Current(db))
      BY <1>1
    <3> QED
      BY <2>3, <3>4, <3>5 DEF InFlight
  <2> QED
    BY <2>1, <2>2, <2>3
<1> QED
  BY <1>6, <1>7, <1>8 DEF Unseen

(***************************************************************************)
(* The next file number.                                                   *)
(***************************************************************************)
\* No number is taken between d and e.
SameNext(d, e) == "nextFileNum" \in DOMAIN d => "nextFileNum" \in DOMAIN e /\ e.nextFileNum = d.nextFileNum

LEMMA SameNextChain ==
  ASSUME NEW c, NEW d, NEW e, SameNext(c, d), SameNext(d, e)
  PROVE  SameNext(c, e)
BY DEF SameNext

LEMMA NextNotTaken ==
  ASSUME NEW d
  PROVE  /\ \A B : SameNext(d, AddObsolete(d, B))
         /\ \A v : SameNext(d, Ref(d, v))
         /\ SameNext(d, DeleteObsoleteFiles(d))
<1>1. \A B : SameNext(d, AddObsolete(d, B))
  BY DEF AddObsolete, SameNext
<1>2. \A v : SameNext(d, Ref(d, v))
  BY DEF Ref, SameNext
<1>3. SameNext(d, DeleteObsoleteFiles(d))
  BY DEF DeleteObsoleteFiles, SameNext
<1> QED
  BY <1>1, <1>2, <1>3

LEMMA UnrefNext ==
  ASSUME NEW d, NEW v
  PROVE  SameNext(d, RemoveVersion(d, v)) /\ SameNext(d, UnrefLocked(d, v))
<1>1. SameNext(d, RemoveVersion(d, v))
  <2> DEFINE e == [d EXCEPT !.versions = Without(@, {v})]
             B == Unreferenced(e, Backings(d.versions[v].tables))
  <2>1. SameNext(d, e)
    BY DEF SameNext
  <2>2. RemoveVersion(d, v) = AddObsolete(e, B)
    BY DEF RemoveVersion
  <2> HIDE DEF e, B
  <2> QED
    BY <2>1, <2>2, NextNotTaken, SameNextChain
<1>2. SameNext(d, [d EXCEPT !.versions[v].refs = @ - 1])
  BY DEF SameNext
<1> QED
  BY <1>1, <1>2 DEF UnrefLocked

LEMMA ReadStateNext ==
  ASSUME NEW d PROVE SameNext(d, UpdateReadState(d))
<1> DEFINE r == d.readState + 1
           R == With(d.readStates, r, [version |-> d.current, refs |-> 1])
           e == [Ref(d, d.current) EXCEPT !.readStates = With(@, r, [version |-> d.current, refs |-> 1]),
                                          !.readState = r]
<1>1. SameNext(d, Ref(d, d.current))
  BY NextNotTaken
<1>2. SameNext(Ref(d, d.current), e)
  <2> HIDE DEF r
  <2> QED
    BY DEF SameNext
<1>3. SameNext(d, e)
  <2> HIDE DEF e
  <2> QED
    BY <1>1, <1>2, SameNextChain
<1> DEFINE f == [e EXCEPT !.readStates[d.readState].refs = @ - 1]
           g == [e EXCEPT !.readStates = Without(@, {d.readState})]
           h == UnrefLocked(g, d.readStates[d.readState].version)
<1>4. UpdateReadState(d) \in {e, f, h}
  BY DEF UpdateReadState
<1> HIDE DEF e
<1>5. SameNext(e, f) /\ SameNext(e, g)
  BY DEF SameNext
<1> HIDE DEF f, g
<1>6. SameNext(g, h)
  BY UnrefNext
<1> HIDE DEF h
<1> QED
  BY <1>3, <1>4, <1>5, <1>6, SameNextChain

LEMMA ReleaseNext ==
  ASSUME NEW d, NEW j PROVE SameNext(d, Release(d, j))
<1>1. SameNext(d, d)
  BY DEF SameNext
<1> QED
  BY <1>1, UnrefNext DEF Release

LEMMA DBNext ==
  ASSUME IInv, NEW e, SameNext(db, e)
  PROVE  e.nextFileNum >= db.nextFileNum /\ e.nextFileNum = db.nextFileNum
<1>1. db \in DBType /\ db.nextFileNum \in Nat
  BY IInvFacts
<1>2. "nextFileNum" \in DOMAIN db
  BY <1>1 DEF DBType
<1> QED
  BY <1>1, <1>2 DEF SameNext

LEMMA DoneItems == \A B : JobItems(Done, B)
BY DoneType DEF JobItems, Pending

\* Jobs stay as they are.
LEMMA ItemsQuiet ==
  ASSUME IInv, IInv', ItemsInv, Up, UNCHANGED <<manifests, marker, io, phase, jobs, brought>>,
         db'.nextFileNum >= db.nextFileNum
  PROVE  ItemsInv' /\ Unseen
<1>1. JobStep(0, Done) /\ Was(0) = Done
  <2>1. jobs \in Seq(JobType)
    BY IInvFacts
  <2> QED
    BY <2>1 DEF JobStep, Was
<1>2. Was(0).pc # "apply"
  BY <1>1, DoneType
<1> QED
  BY <1>1, <1>2, DoneItems, ItemsFrame

LEMMA ReaderItems ==
  ASSUME IInv, IInv', ItemsInv, Read \/ ReaderNext \/ LockCheckpoint \/ EndCheckpoint \/ EnqueueJob
  PROVE  ItemsInv' /\ Unseen
<1>1. CASE Read
  <2>1. db' = [db EXCEPT !.readStates[db.readState].refs = @ + 1]
    BY <1>1 DEF Read
  <2>2. SameNext(db, db')
    BY <2>1 DEF SameNext
  <2>3. Up /\ UNCHANGED <<manifests, marker, io, phase, jobs, brought>>
    BY <1>1 DEF Read, disk, Up
  <2> QED
    BY <2>2, <2>3, DBNext, ItemsQuiet
<1>2. CASE Unref
  <2>1. SameNext(db, db')
    <3> DEFINE r == reader.id
               v == db.readStates[r].version
    <3>1. \/ db' = [db EXCEPT !.readStates[r].refs = @ - 1]
          \/ db' = [db EXCEPT !.readStates = Without(@, {r}), !.versions[v].refs = @ - 1]
      BY <1>2 DEF Unref
    <3> HIDE DEF r, v
    <3> QED
      BY <3>1 DEF SameNext
  <2>2. Up /\ UNCHANGED <<manifests, marker, io, phase, jobs, brought>>
    BY <1>2, OpenFacts DEF Unref, disk
  <2> QED
    BY <2>1, <2>2, DBNext, ItemsQuiet
<1>3. CASE RemoveUnreferenced
  <2>1. Up /\ UNCHANGED <<manifests, marker, io, phase, jobs, brought>>
    BY <1>3, OpenFacts DEF RemoveUnreferenced, disk
  <2>2. db' = RemoveVersion(db, reader.id)
    BY <1>3 DEF RemoveUnreferenced
  <2>3. SameNext(db, db')
    BY <2>2, UnrefNext
  <2> QED
    BY <2>1, <2>3, DBNext, ItemsQuiet
<1>4. CASE Schedule
  <2>1. Up /\ UNCHANGED <<manifests, marker, io, phase, jobs, brought>>
    BY <1>4, OpenFacts DEF Schedule, disk
  <2>2. db' = db \/ db' = DeleteObsoleteFiles(db)
    BY <1>4 DEF Schedule
  <2>3. SameNext(db, db)
    BY DEF SameNext
  <2>4. SameNext(db, db')
    BY <2>2, <2>3, NextNotTaken
  <2> QED
    BY <2>1, <2>4, DBNext, ItemsQuiet
<1>5. CASE LockCheckpoint
  <2>1. Up /\ UNCHANGED <<manifests, marker, io, phase, jobs, brought>> /\ db' = db
    BY <1>5, OpenFacts DEF LockCheckpoint, disk
  <2>2. SameNext(db, db')
    BY <2>1 DEF SameNext
  <2> QED
    BY <2>1, <2>2, DBNext, ItemsQuiet
<1>6. CASE EndCheckpoint
  <2> DEFINE d == [db EXCEPT !.disabled = @ - 1]
  <2>1. Up /\ UNCHANGED <<manifests, marker, io, phase, jobs, brought>>
    BY <1>6, OpenFacts DEF EndCheckpoint, disk
  <2>2. db' = DeleteObsoleteFiles(d)
    BY <1>6 DEF EndCheckpoint
  <2>3. SameNext(db, d)
    BY DEF SameNext
  <2> HIDE DEF d
  <2>4. SameNext(db, db')
    BY <2>2, <2>3, NextNotTaken, SameNextChain
  <2> QED
    BY <2>1, <2>4, DBNext, ItemsQuiet
<1>7. CASE EnqueueJob
  <2>1. UNCHANGED <<manifests, marker, io, phase, jobs, brought>> /\ db.late # {}
    BY <1>7 DEF EnqueueJob, disk
  <2>2. PICK job \in db.late : db' = [db EXCEPT !.late = @ \ {job}]
    BY <1>7 DEF EnqueueJob
  <2>3. SameNext(db, db')
    BY <2>2 DEF SameNext
  <2> QED
    BY <2>1, <2>3, CleanupPhase, DBNext, ItemsQuiet
<1> QED
  BY <1>1, <1>2, <1>3, <1>4, <1>5, <1>6, <1>7 DEF ReaderNext

LEMMA JobsSeq == IInv => jobs \in Seq(JobType)
BY IInvFacts

\* A job is added.
LEMMA AddedItems ==
  ASSUME IInv, IInv', ItemsInv, phase = "open",
         UNCHANGED <<manifests, marker, io, phase, brought>>,
         db'.nextFileNum >= db.nextFileNum,
         NEW x, jobs' = Append(jobs, x), JobItems(x, brought)
  PROVE  ItemsInv' /\ Unseen
<1>1. jobs \in Seq(JobType)
  BY IInvFacts
<1>2. (jobs \in Seq(JobType))'
  BY JobsSeq, PTL
<1> DEFINE n == Len(jobs) + 1
<1>3. n \notin DOMAIN jobs /\ DOMAIN jobs' = DOMAIN jobs \cup {n} /\ jobs'[n] = x
      /\ \A i \in DOMAIN jobs : jobs'[i] = jobs[i]
  BY <1>1
<1> HIDE DEF n
<1>4. JobStep(n, x) /\ Was(n) = Done
  BY <1>2, <1>3 DEF JobStep, Was
<1>5. Was(n).pc # "apply" /\ Up
  BY <1>4, DoneType DEF Up
<1> QED
  BY <1>4, <1>5, ItemsFrame

\* Job j becomes x.
LEMMA ChangedItems ==
  ASSUME IInv, IInv', ItemsInv, NEW j \in DOMAIN jobs,
         jobs[j].pc # "apply", jobs[j].pc # "done",
         UNCHANGED <<manifests, marker, io, phase, brought>>,
         db'.nextFileNum >= db.nextFileNum,
         NEW x, jobs' = [jobs EXCEPT ![j] = x], JobItems(x, brought)
  PROVE  ItemsInv' /\ Unseen
<1>1. Was(j) = jobs[j] /\ Up
  BY JobFacts
<1>2. (jobs \in Seq(JobType))'
  BY JobsSeq, PTL
<1>3. JobStep(j, x)
  BY <1>2 DEF JobStep
<1> QED
  BY <1>1, <1>3, ItemsFrame

(***************************************************************************)
(* Jobs, up to the manifest lock.                                          *)
(***************************************************************************)
\* A number that is still to be taken belongs to no item.
LEMMA FreshNumber ==
  ASSUME IInv, ItemsInv, Up
  PROVE  db.nextFileNum \in Nat /\ db.nextFileNum \notin brought
         /\ db.nextFileNum + 1 >= db.nextFileNum /\ db.nextFileNum + 2 >= db.nextFileNum
<1>1. db.nextFileNum \in Nat
  BY IInvFacts
<1> QED
  BY <1>1 DEF ItemsInv, Below

LEMMA DoneFields ==
  /\ DOMAIN Done = {"kind", "pc", "in", "span", "edit", "version", "cancel", "err", "prot"}
  /\ Done.in = {} /\ Done.edit = NoEdit /\ Done.span = {}
BY DEF Done

LEMMA AddedJobsItems ==
  ASSUME IInv, IInv', ItemsInv, BeginFlush \/ BeginCheckpoint \/ PickCompaction
  PROVE  ItemsInv' /\ Unseen
<1>1. CASE BeginFlush
  <2> DEFINE x == [Done EXCEPT !.kind = "flush", !.pc = "run"]
  <2>1. /\ phase = "open" /\ jobs' = Append(jobs, x)
        /\ UNCHANGED <<manifests, marker, io, phase, brought>> /\ db' = db
    BY <1>1 DEF BeginFlush, BeginJob, MayBegin, disk
  <2>2. x.kind = "flush" /\ x.pc = "run"
    BY DoneFields
  <2> HIDE DEF x
  <2>3. JobItems(x, brought)
    BY <2>2 DEF JobItems, Pending
  <2>4. db'.nextFileNum >= db.nextFileNum
    BY <2>1, IInvFacts
  <2> QED
    BY <2>1, <2>3, <2>4, AddedItems
<1>2. CASE BeginCheckpoint
  <2> DEFINE x == Done
  <2>1. /\ phase = "open" /\ jobs' = Append(jobs, x)
        /\ UNCHANGED <<manifests, marker, io, phase, brought>>
        /\ db' = [db EXCEPT !.disabled = @ + 1]
    BY <1>2 DEF BeginCheckpoint, MayBegin, disk
  <2>2. JobItems(x, brought)
    BY DoneItems
  <2> HIDE DEF x
  <2>3. SameNext(db, db')
    BY <2>1 DEF SameNext
  <2> QED
    BY <2>1, <2>2, <2>3, DBNext, AddedItems
<1>3. CASE PickCompaction
  <2>1. PICK x \in Picks : BeginJob(x)
    BY <1>3 DEF PickCompaction
  <2>2. /\ phase = "open" /\ jobs' = Append(jobs, x)
        /\ UNCHANGED <<manifests, marker, io, phase, brought>> /\ db' = db
    BY <1>3, <2>1 DEF PickCompaction, BeginJob, MayBegin, disk
  <2>3. \E k, T, S : /\ x = Picked(k, T, S) /\ k \in {"compact", "move", "deleteonly"}
                     /\ k = "deleteonly" => S \in Spans
    <3> DEFINE Level(l) == {t \in Current(db) : t.level = l}
               Below1(U) == {u \in Level(1) : \E t \in U : Overlaps(KeysOf(t), KeysOf(u))}
               A == {Picked("compact", T, {}) :
                       T \in {Level(0) \cup Below1(Level(0))} \cup {{t} : t \in Level(1)}}
               B == {Picked("move", {t}, {}) : t \in {u \in Level(0) : Below1({u}) = {}}}
               C == {Picked("deleteonly", {c[1]}, c[2]) :
                       c \in {p \in Current(db) \X Spans : Overlaps(KeysOf(p[1]), p[2])}}
    <3>1. Picks = A \cup B \cup C
      BY DEF Picks, Picked
    <3>2. CASE x \in A
      <4>1. PICK T : x = Picked("compact", T, {})
        BY <3>2
      <4> HIDE DEF A, B, C
      <4> QED
        BY <4>1
    <3>3. CASE x \in B
      <4>1. PICK t : x = Picked("move", {t}, {})
        BY <3>3
      <4> HIDE DEF A, B, C
      <4> QED
        BY <4>1
    <3>4. CASE x \in C
      <4>1. PICK c \in Current(db) \X Spans : x = Picked("deleteonly", {c[1]}, c[2])
        BY <3>4
      <4>2. c[2] \in Spans
        BY <4>1
      <4> HIDE DEF A, B, C
      <4> QED
        BY <4>1, <4>2
    <3> HIDE DEF A, B, C
    <3> QED
      BY <2>1, <3>1, <3>2, <3>3, <3>4
  <2>4. PICK k, T, S : /\ x = Picked(k, T, S) /\ k \in {"compact", "move", "deleteonly"}
                       /\ k = "deleteonly" => S \in Spans
    BY <2>3
  <2>5. x.kind = k /\ x.pc = "start" /\ x.span = S
    BY <2>4, DoneFields DEF Picked
  <2>6. JobItems(x, brought)
    BY <2>4, <2>5 DEF JobItems, Pending
  <2>7. db'.nextFileNum >= db.nextFileNum
    BY <2>2, IInvFacts
  <2> QED
    BY <2>2, <2>6, <2>7, AddedItems
<1> QED
  BY <1>1, <1>2, <1>3

LEMMA BeginExciseItems ==
  ASSUME IInv, IInv', ItemsInv, BeginExcise PROVE ItemsInv' /\ Unseen
<1> DEFINE n == db.nextFileNum
<1>1. PICK S \in Spans :
        BeginJob([Done EXCEPT !.kind = "excise", !.pc = "lock", !.span = S,
                              !.edit = Edit({}, {Physical(n, 1, S)}, {})])
  BY DEF BeginExcise
<1> DEFINE t == Physical(n, 1, S)
           f == Edit({}, {t}, {})
           x == [Done EXCEPT !.kind = "excise", !.pc = "lock", !.span = S, !.edit = f]
<1>2. /\ phase = "open" /\ jobs' = Append(jobs, x)
      /\ UNCHANGED <<manifests, marker, io, phase, brought>>
      /\ db' = [db EXCEPT !.nextFileNum = n + 1]
  <2>1. x.kind = "excise" => MayBegin("excise")
    BY <1>1 DEF BeginJob
  <2>2. phase = "open" /\ jobs' = Append(jobs, x)
    BY <1>1 DEF BeginJob, MayBegin
  <2> QED
    BY <2>2 DEF BeginExcise
<1>3. Up
  BY <1>2 DEF Up
<1>4. n \in Nat /\ n \notin brought /\ n + 1 >= n
  BY <1>3, FreshNumber
<1>5. t.num = n /\ t.items = S \X {n}
  BY DEF Physical, Table
<1>6. t.items # {} /\ \A y \in t.items : y[2] = n
  <2>1. PICK k : k \in S
    BY SpanFacts
  <2>2. <<k, n>> \in S \X {n}
    BY <2>1
  <2>3. \A y \in S \X {n} : y[2] = n
    OBVIOUS
  <2> HIDE DEF t
  <2> QED
    BY <1>5, <2>2, <2>3
<1> HIDE DEF t
<1>7. f.new = {t}
  BY DEF Edit
<1>8. BringsItems(f, brought)
  BY <1>4, <1>5, <1>6, <1>7 DEF BringsItems
<1> HIDE DEF f
<1>9. x.kind = "excise" /\ x.pc = "lock" /\ x.span = S /\ x.edit = f
  BY DoneFields
<1> HIDE DEF x
<1>10. JobItems(x, brought)
  BY <1>8, <1>9 DEF JobItems, Pending
<1>11. db'.nextFileNum >= db.nextFileNum
  BY <1>2, <1>4, IInvFacts DEF DBType
<1> HIDE DEF n
<1> QED
  BY <1>2, <1>10, <1>11, AddedItems

LEMMA BeginExternalItems ==
  ASSUME IInv, IInv', ItemsInv, BeginExternal PROVE ItemsInv' /\ Unseen
<1> DEFINE n == db.nextFileNum
           X == external \cap DOMAIN db.backings
<1>1. phase = "open" /\ UNCHANGED <<manifests, marker, io, phase, brought>>
  BY DEF BeginExternal, BeginJob, MayBegin
<1>2. Up
  BY <1>1 DEF Up
<1>3. n \in Nat /\ n \notin brought /\ n + 1 >= n
  BY <1>2, FreshNumber
<1>4. \E b, c : jobs' = Append(jobs, ExternalJob(n, b, c))
  <2>1. CASE X = {}
    <3>1. jobs' = Append(jobs, ExternalJob(n, n, {n}))
      BY <2>1 DEF BeginExternal, BeginJob, ExternalJob, ExternalEdit
    <3> HIDE DEF n
    <3> QED
      BY <3>1
  <2>2. CASE X # {}
    <3>1. PICK b \in X : jobs' = Append(jobs, ExternalJob(n, b, {}))
      BY <2>2 DEF BeginExternal, BeginJob, ExternalJob, ExternalEdit
    <3> HIDE DEF n
    <3> QED
      BY <3>1
  <2> QED
    BY <2>1, <2>2
<1>5. db'.nextFileNum = n + 1
  <2>1. db \in DBType
    BY IInvFacts
  <2>2. CASE X = {}
    <3>1. db' = [db EXCEPT !.nextFileNum = n + 1]
      BY <2>2 DEF BeginExternal
    <3> QED
      BY <2>1, <3>1 DEF DBType
  <2>3. CASE X # {}
    <3>1. PICK b \in X : db' = [db EXCEPT !.nextFileNum = n + 1, !.backings[b].prot = @ + 1]
      BY <2>3 DEF BeginExternal
    <3> QED
      BY <2>1, <3>1 DEF DBType
  <2> QED
    BY <2>2, <2>3
<1>6. PICK b, c : jobs' = Append(jobs, ExternalJob(n, b, c))
  BY <1>4
<1> DEFINE t == Table(n, b, TRUE, 0, {<<2, n>>})
           f == ExternalEdit(n, b, c)
           x == ExternalJob(n, b, c)
<1>7. t.num = n /\ t.items # {} /\ \A y \in t.items : y[2] = n
  <2>1. t.num = n /\ t.items = {<<2, n>>}
    BY DEF Table
  <2>2. <<2, n>>[2] = n
    OBVIOUS
  <2> HIDE DEF t
  <2> QED
    BY <2>1, <2>2
<1>8. f.new = {t}
  BY DEF ExternalEdit, Edit
<1> HIDE DEF t
<1>9. x.kind = "external" /\ x.pc = "lock" /\ x.edit = f
  <2> HIDE DEF f
  <2>1. x = [Done EXCEPT !.kind = "external", !.pc = "lock", !.prot = IF b = n THEN 0 ELSE b,
                         !.edit = f]
    BY DEF ExternalJob, f
  <2> HIDE DEF x
  <2> QED
    BY <2>1, DoneFields
<1> HIDE DEF f, x
<1>10. BringsItems(f, brought)
  BY <1>3, <1>7, <1>8 DEF BringsItems
<1>11. JobItems(x, brought)
  BY <1>9, <1>10 DEF JobItems, Pending
<1>12. jobs' = Append(jobs, x)
  BY <1>6 DEF x
<1>13. db'.nextFileNum >= db.nextFileNum
  BY <1>3, <1>5
<1> HIDE DEF n
<1> QED
  BY <1>1, <1>11, <1>12, <1>13, AddedItems

\* What excising a table keeps of its items.
LEMMA ExciseItems ==
  ASSUME NEW t \in TableType, NEW S \in Spans, NEW n
  PROVE  LET e == Excise(t, S, n)
         IN  /\ e.del = {t}
             /\ Contents(e.new) = {x \in t.items : x[1] \notin S}
<1> DEFINE Side(k, keys) == Table(k, t.backing, TRUE, t.level,
                                  {x \in t.items : x[1] \in keys})
           left  == {k \in KeysOf(t) : k < Min(S)}
           right == {k \in KeysOf(t) : k > Max(S)}
           u1 == Side(n, left)
           u2 == Side(n + 1, right)
           new == (IF left = {} THEN {} ELSE {u1}) \cup (IF right = {} THEN {} ELSE {u2})
           c == IF new # {} /\ ~t.virtual THEN {t.backing} ELSE {}
           e == Edit({t}, new, c)
<1>1. Excise(t, S, n) = e
  BY DEF Excise
<1>2. \A k \in KeysOf(t) : k \in S <=> ~(k < Min(S)) /\ ~(k > Max(S))
  <2>1. S \in {a .. b : a, b \in Keys} /\ S # {}
    BY KindsAssumption
  <2>2. PICK a \in Keys, b \in Keys : S = a .. b
    BY <2>1
  <2>3. a \in Nat /\ b \in Nat /\ a <= b
    BY <2>1, <2>2 DEF Keys
  <2>4. S \subseteq Nat /\ IsFiniteSet(S)
    BY <2>2, <2>3, FS_Interval
  <2>5. Min(S) = a
    BY <2>1, <2>2, <2>3, <2>4, MinFacts
  <2>6. Max(S) = b
    BY <2>1, <2>2, <2>3, <2>4, MaxFacts
  <2>7. KeysOf(t) \subseteq Keys
    BY DEF KeysOf, TableType
  <2> QED
    BY <2>2, <2>3, <2>5, <2>6, <2>7 DEF Keys
<1>3. \A x \in t.items : x[1] \in KeysOf(t)
  BY DEF KeysOf
<1>4. /\ \A x : x \in u1.items <=> x \in t.items /\ x[1] \in left
      /\ \A x : x \in u2.items <=> x \in t.items /\ x[1] \in right
  <2> HIDE DEF left, right
  <2> QED
    BY DEF Table
<1>5. \A k : (k \in left <=> k \in KeysOf(t) /\ k < Min(S)) /\ (k \in right <=> k \in KeysOf(t) /\ k > Max(S))
  OBVIOUS
<1> HIDE DEF u1, u2, left, right
<1>6. \A x : x \in Contents(new) <=> (x \in t.items /\ x[1] \in left) \/ (x \in t.items /\ x[1] \in right)
  <2>1. \A x : x \in Contents(new) <=> \E u \in new : x \in u.items
    BY ItemMembers
  <2>2. \A u : u \in new <=> (u = u1 /\ left # {}) \/ (u = u2 /\ right # {})
    OBVIOUS
  <2> HIDE DEF new
  <2> QED
    BY <1>4, <2>1, <2>2
<1> HIDE DEF new, c
<1>7. e.del = {t} /\ e.new = new
  BY DEF Edit
<1> HIDE DEF e
<1>8. Contents(new) = {x \in t.items : x[1] \notin S}
  BY <1>2, <1>3, <1>5, <1>6
<1> QED
  BY <1>1, <1>7, <1>8

\* A job that goes on with its edit, or without one.
LEMMA KeptItems ==
  ASSUME ItemsInv, NEW j \in DOMAIN jobs, NEW x,
         x.kind = jobs[j].kind, x.span = jobs[j].span,
         Pending(x) => Pending(jobs[j]) /\ x.edit = jobs[j].edit /\ x.in = jobs[j].in
  PROVE  JobItems(x, brought)
<1>1. JobItems(jobs[j], brought)
  BY DEF ItemsInv
<1> QED
  BY <1>1 DEF JobItems

LEMMA StartCompactionItems ==
  ASSUME IInv, IInv', ItemsInv, NEW j \in DOMAIN jobs, StartCompaction(j)
  PROVE  ItemsInv' /\ Unseen
<1>1. /\ jobs[j] \in JobType /\ jobs[j].pc = "start"
      /\ UNCHANGED <<manifests, marker, io, phase, brought>>
  BY JobFacts DEF StartCompaction, disk
<1>2. PICK x : /\ jobs' = [jobs EXCEPT ![j] = x] /\ x.kind = jobs[j].kind
               /\ x.span = jobs[j].span /\ x.pc \in {"clear", "lock", "run"}
               /\ x.pc = "lock" => x.kind = "move"
  <2>1. CASE jobs[j].cancel
    <3> DEFINE x == [jobs[j] EXCEPT !.pc = "clear", !.err = TRUE]
    <3>1. jobs' = [jobs EXCEPT ![j] = x]
      BY <2>1 DEF StartCompaction
    <3>2. x.kind = jobs[j].kind /\ x.span = jobs[j].span /\ x.pc = "clear"
      BY <1>1 DEF JobType
    <3> HIDE DEF x
    <3> QED
      BY <3>1, <3>2
  <2>2. CASE ~jobs[j].cancel /\ jobs[j].kind = "move"
    <3> DEFINE f == Edit(jobs[j].in, {[t EXCEPT !.level = 1] : t \in jobs[j].in}, {})
               x == [jobs[j] EXCEPT !.pc = "lock", !.edit = f]
    <3>1. jobs' = [jobs EXCEPT ![j] = x]
      BY <2>2 DEF StartCompaction
    <3> HIDE DEF f
    <3>2. x.kind = jobs[j].kind /\ x.span = jobs[j].span /\ x.pc = "lock"
      BY <1>1 DEF JobType
    <3> HIDE DEF x
    <3> QED
      BY <2>2, <3>1, <3>2
  <2>3. CASE ~jobs[j].cancel /\ jobs[j].kind # "move"
    <3> DEFINE x == [jobs[j] EXCEPT !.pc = "run", !.version = db.current]
    <3>1. jobs' = [jobs EXCEPT ![j] = x]
      BY <2>3 DEF StartCompaction
    <3>2. x.kind = jobs[j].kind /\ x.span = jobs[j].span /\ x.pc = "run"
      BY <1>1 DEF JobType
    <3> HIDE DEF x
    <3> QED
      BY <3>1, <3>2
  <2> QED
    BY <2>1, <2>2, <2>3
<1>3. JobItems(x, brought)
  <2>1. JobItems(jobs[j], brought)
    BY DEF ItemsInv
  <2> QED
    BY <1>2, <2>1 DEF JobItems, Pending
<1>4. SameNext(db, db')
  <2>1. db' = db \/ db' = Ref(db, db.current)
    BY DEF StartCompaction
  <2>2. SameNext(db, db)
    BY DEF SameNext
  <2> QED
    BY <2>1, <2>2, NextNotTaken
<1>5. db'.nextFileNum >= db.nextFileNum
  BY <1>4, DBNext
<1> QED
  BY <1>1, <1>2, <1>3, <1>5, ChangedItems

LEMMA WriteTableItems ==
  ASSUME IInv, IInv', ItemsInv, NEW j \in DOMAIN jobs, WriteTable(j)
  PROVE  ItemsInv' /\ Unseen
<1> DEFINE n == db.nextFileNum
           job == jobs[j]
           I == job.in
           t == IF job.kind = "flush" THEN Physical(n, 0, {1, 3})
                ELSE Table(n, n, FALSE, 1, Contents(I))
           f == Edit(I, {t}, {})
           x == [job EXCEPT !.pc = "sync", !.edit = f]
<1>1. /\ job \in JobType /\ job.pc = "run" /\ job.kind # "deleteonly" /\ JobOK(job) /\ Up
      /\ UNCHANGED <<manifests, marker, io, phase, brought>>
      /\ db' = [db EXCEPT !.nextFileNum = n + 1]
      /\ jobs' = [jobs EXCEPT ![j] = x]
  BY JobFacts DEF WriteTable
<1>2. job.kind \in {"flush", "compact"}
  BY <1>1 DEF JobOK, Places, JobType
<1>3. n \in Nat /\ n \notin brought /\ n + 1 >= n
  BY <1>1, FreshNumber
<1>4. job.kind = "flush" => t.num = n /\ t.items # {} /\ \A y \in t.items : y[2] = n
  <2> SUFFICES ASSUME job.kind = "flush"
               PROVE  t.num = n /\ t.items # {} /\ \A y \in t.items : y[2] = n
    OBVIOUS
  <2>1. t.num = n /\ t.items = {1, 3} \X {n}
    BY DEF Physical, Table
  <2>2. <<1, n>> \in {1, 3} \X {n}
    OBVIOUS
  <2>3. \A y \in {1, 3} \X {n} : y[2] = n
    OBVIOUS
  <2> HIDE DEF t
  <2> QED
    BY <2>1, <2>2, <2>3
<1>5. job.kind = "compact" => t.items = Contents(I)
  <2> HIDE DEF I
  <2> QED
    BY DEF Table
<1> HIDE DEF t
<1>6. f.new = {t} /\ Contents(f.new) = t.items
  <2>1. f.new = {t}
    BY DEF Edit
  <2>2. Contents({t}) = t.items
    BY DEF Contents
  <2> QED
    BY <2>1, <2>2
<1>7. job.kind = "flush" => BringsItems(f, brought)
  <2> HIDE DEF f, job
  <2> QED
    BY <1>3, <1>4, <1>6 DEF BringsItems
<1> HIDE DEF f
<1>8. x.kind = job.kind /\ x.pc = "sync" /\ x.edit = f /\ x.in = I
  BY <1>1 DEF JobType
<1> HIDE DEF x, I
<1>9. JobItems(x, brought)
  BY <1>2, <1>5, <1>6, <1>7, <1>8 DEF JobItems, Pending
<1>10. db'.nextFileNum >= db.nextFileNum
  BY <1>1, <1>3, IInvFacts DEF DBType
<1> HIDE DEF n
<1> QED
  BY <1>1, <1>9, <1>10, ChangedItems

LEMMA RunDeleteOnlyItems ==
  ASSUME IInv, IInv', ItemsInv, NEW j \in DOMAIN jobs, RunDeleteOnly(j)
  PROVE  ItemsInv' /\ Unseen
<1> DEFINE n == db.nextFileNum
           job == jobs[j]
           t == CHOOSE u \in job.in : TRUE
           f == Excise(t, job.span, n)
           x == [job EXCEPT !.pc = "lock", !.version = 0, !.edit = f]
           d == Release(db, j)
<1>1. /\ job \in JobType /\ job.pc = "run" /\ job.kind = "deleteonly" /\ JobOK(job) /\ Up
      /\ UNCHANGED <<manifests, marker, io, phase, brought>>
      /\ db' = [d EXCEPT !.nextFileNum = @ + 2]
      /\ jobs' = [jobs EXCEPT ![j] = x]
  <2>1. /\ job.pc = "run" /\ job.kind = "deleteonly" /\ db' = [d EXCEPT !.nextFileNum = @ + 2]
        /\ UNCHANGED <<disk, phase, io, ckpt, reader, cleanup, brought>>
        /\ jobs' = [jobs EXCEPT ![j].pc = "lock", ![j].version = 0, ![j].edit = f]
    BY DEF RunDeleteOnly
  <2> HIDE DEF f, d
  <2>2. jobs' = [jobs EXCEPT ![j] = x]
    BY <2>1
  <2> QED
    BY <2>1, <2>2, JobFacts DEF disk
<1>2. job.span \in Spans
  BY <1>1 DEF ItemsInv, JobItems
<1>3. t \in job.in /\ job.in = {t}
  <2>1. PICK u \in job.in : job.in = {u}
    BY <1>1 DEF JobOK
  <2> QED
    BY <2>1
<1>4. t \in TableType
  BY <1>1, <1>3 DEF JobType, TableSets
<1> HIDE DEF t
<1>5. Contents(f.new) = {y \in t.items : y[1] \notin job.span}
  BY <1>2, <1>4, ExciseItems
<1>6. Contents(job.in) = t.items
  <2>1. Contents({t}) = t.items
    BY DEF Contents
  <2> QED
    BY <1>3, <2>1
<1> HIDE DEF f
<1>7. x.kind = job.kind /\ x.pc = "lock" /\ x.edit = f /\ x.in = job.in /\ x.span = job.span
  BY <1>1 DEF JobType
<1> HIDE DEF x
<1>8. JobItems(x, brought)
  BY <1>1, <1>2, <1>5, <1>6, <1>7 DEF JobItems, Pending
<1>9. db'.nextFileNum >= db.nextFileNum
  <2>1. d.nextFileNum = n
    BY ReleaseNext, DBNext
  <2>2. n \in Nat
    BY <1>1, FreshNumber
  <2>3. "nextFileNum" \in DOMAIN d
    <3>1. SameNext(db, d) /\ "nextFileNum" \in DOMAIN db
      BY ReleaseNext, IInvFacts DEF DBType
    <3> QED
      BY <3>1 DEF SameNext
  <2> HIDE DEF d
  <2>4. db'.nextFileNum = d.nextFileNum + 2
    BY <1>1, <2>3
  <2> QED
    BY <2>1, <2>2, <2>4
<1> HIDE DEF n, d
<1> QED
  BY <1>1, <1>8, <1>9, ChangedItems

\* A job that takes no number.
LEMMA SameNextJob ==
  ASSUME IInv, IInv', ItemsInv, NEW j \in DOMAIN jobs,
         jobs[j].pc # "apply", jobs[j].pc # "done",
         UNCHANGED <<manifests, marker, io, phase, brought>>, SameNext(db, db'),
         NEW x, jobs' = [jobs EXCEPT ![j] = x],
         \/ x.kind = "done" /\ ~Pending(x)
         \/ /\ x.kind = jobs[j].kind /\ x.span = jobs[j].span
            /\ Pending(x) => Pending(jobs[j]) /\ x.edit = jobs[j].edit /\ x.in = jobs[j].in
  PROVE  ItemsInv' /\ Unseen
<1>1. JobItems(x, brought)
  <2>1. CASE x.kind = "done" /\ ~Pending(x)
    BY <2>1 DEF JobItems
  <2>2. CASE /\ x.kind = jobs[j].kind /\ x.span = jobs[j].span
             /\ Pending(x) => Pending(jobs[j]) /\ x.edit = jobs[j].edit /\ x.in = jobs[j].in
    BY <2>2, KeptItems
  <2> QED
    BY <2>1, <2>2
<1>2. db'.nextFileNum >= db.nextFileNum
  BY DBNext
<1> QED
  BY <1>1, <1>2, ChangedItems

LEMMA RunItems ==
  ASSUME IInv, IInv', ItemsInv, NEW j \in DOMAIN jobs,
         SyncTable(j) \/ FailRun(j) \/ (ApplyTables(j) /\ jobs[j].cancel /\ Compaction(j))
  PROVE  ItemsInv' /\ Unseen
<1>0. jobs[j] \in JobType
  BY JobFacts
<1>1. CASE SyncTable(j)
  <2> DEFINE x == [jobs[j] EXCEPT !.pc = "lock", !.version = 0]
  <2>1. /\ jobs[j].pc = "sync" /\ UNCHANGED <<manifests, marker, io, phase, brought>>
        /\ db' = Release(db, j) /\ jobs' = [jobs EXCEPT ![j] = x]
    BY <1>1 DEF SyncTable
  <2>2. SameNext(db, db')
    BY <2>1, ReleaseNext
  <2>3. x.kind = jobs[j].kind /\ x.span = jobs[j].span /\ x.edit = jobs[j].edit /\ x.in = jobs[j].in
    BY <1>0 DEF JobType
  <2> HIDE DEF x
  <2> QED
    BY <2>1, <2>2, <2>3, SameNextJob DEF Pending
<1>2. CASE FailRun(j)
  <2> DEFINE x == [jobs[j] EXCEPT !.pc = "clear", !.err = TRUE, !.version = 0, !.edit = NoEdit]
             B == Backings(jobs[j].edit.new)
             z == [db EXCEPT !.zombies = @ \cup B]
             d == AddObsolete(z, B)
  <2>1. /\ jobs[j].pc \in {"run", "sync"} /\ UNCHANGED <<manifests, marker, io, phase, brought>>
        /\ db' = Release(d, j) /\ jobs' = [jobs EXCEPT ![j] = x]
    BY <1>2 DEF FailRun, disk
  <2>2. SameNext(db, z)
    BY DEF SameNext
  <2> HIDE DEF z
  <2>3. SameNext(z, d)
    BY NextNotTaken
  <2> HIDE DEF d
  <2>4. SameNext(d, db')
    BY <2>1, ReleaseNext
  <2>5. SameNext(db, db')
    BY <2>2, <2>3, <2>4, SameNextChain
  <2>6. x.kind = jobs[j].kind /\ x.span = jobs[j].span /\ x.pc = "clear"
    BY <1>0 DEF JobType
  <2> HIDE DEF x
  <2> QED
    BY <2>1, <2>5, <2>6, SameNextJob DEF Pending
<1>3. CASE ApplyTables(j) /\ jobs[j].cancel /\ Compaction(j)
  <2> DEFINE x == [jobs[j] EXCEPT !.pc = "clear", !.err = TRUE]
             e == jobs[j].edit
             moved == {t.num : t \in e.del}
             B == {t.backing : t \in {u \in e.new : ~u.virtual /\ u.num \notin moved}}
                    \cup Unreferenced(db, e.created)
             z == [db EXCEPT !.zombies = @ \cup B]
  <2>1. /\ jobs[j].pc = "lock" /\ UNCHANGED <<manifests, marker, io, phase, brought>>
        /\ db' = CleanupVersionEdit(db, e) /\ jobs' = [jobs EXCEPT ![j] = x]
    BY <1>3 DEF ApplyTables, disk
  <2>2. CleanupVersionEdit(db, e) = AddObsolete(z, B)
    BY DEF CleanupVersionEdit
  <2>3. SameNext(db, z)
    BY DEF SameNext
  <2> HIDE DEF z, B
  <2>4. SameNext(z, AddObsolete(z, B))
    BY NextNotTaken
  <2>5. SameNext(db, db')
    BY <2>1, <2>2, <2>3, <2>4, SameNextChain
  <2>6. x.kind = jobs[j].kind /\ x.span = jobs[j].span /\ x.pc = "clear"
    BY <1>0 DEF JobType
  <2> HIDE DEF x
  <2> QED
    BY <2>1, <2>5, <2>6, SameNextJob DEF Pending
<1> QED
  BY <1>1, <1>2, <1>3

LEMMA LockItems ==
  ASSUME IInv, IInv', ItemsInv, NEW j \in DOMAIN jobs,
         ExciseError(j) \/ LockExternal(j) \/ TargetError(j) \/ Unprotect(j) \/ ClearCompacting(j)
  PROVE  ItemsInv' /\ Unseen
<1>0. jobs[j] \in JobType /\ Done.pc = "done" /\ Done.kind = "done"
  BY JobFacts DEF Done
<1>1. CASE ExciseError(j)
  <2> DEFINE x == [Done EXCEPT !.err = TRUE]
  <2>1. /\ jobs[j].pc = "lock" /\ UNCHANGED <<manifests, marker, io, phase, brought>>
        /\ db' = [db EXCEPT !.writing = TRUE] /\ jobs' = [jobs EXCEPT ![j] = x]
    BY <1>1 DEF ExciseError
  <2>2. SameNext(db, db')
    BY <2>1 DEF SameNext
  <2>3. x.kind = "done" /\ x.pc = "done"
    BY <1>0, DoneFields
  <2> HIDE DEF x
  <2> QED
    BY <2>1, <2>2, <2>3, SameNextJob DEF Pending
<1>2. CASE LockExternal(j)
  <2> DEFINE x == [jobs[j] EXCEPT !.pc = "target"]
  <2>1. /\ jobs[j].pc = "lock" /\ UNCHANGED <<manifests, marker, io, phase, brought>>
        /\ db' = [db EXCEPT !.writing = TRUE] /\ jobs' = [jobs EXCEPT ![j] = x]
    BY <1>2 DEF LockExternal, disk
  <2>2. SameNext(db, db')
    BY <2>1 DEF SameNext
  <2>3. x.kind = jobs[j].kind /\ x.span = jobs[j].span /\ x.edit = jobs[j].edit /\ x.in = jobs[j].in
    BY <1>0 DEF JobType
  <2> HIDE DEF x
  <2> QED
    BY <2>1, <2>2, <2>3, SameNextJob DEF Pending
<1>3. CASE TargetError(j)
  <2> DEFINE x == [jobs[j] EXCEPT !.pc = "unprotect"]
  <2>1. /\ jobs[j].pc = "target" /\ UNCHANGED <<manifests, marker, io, phase, brought>>
        /\ db' = [db EXCEPT !.writing = FALSE] /\ jobs' = [jobs EXCEPT ![j] = x]
    BY <1>3 DEF TargetError, disk
  <2>2. SameNext(db, db')
    BY <2>1 DEF SameNext
  <2>3. x.kind = jobs[j].kind /\ x.span = jobs[j].span /\ x.pc = "unprotect"
    BY <1>0 DEF JobType
  <2> HIDE DEF x
  <2> QED
    BY <2>1, <2>2, <2>3, SameNextJob DEF Pending
<1>4. CASE Unprotect(j)
  <2>1. /\ jobs[j].pc = "unprotect" /\ UNCHANGED <<manifests, marker, io, phase, brought>>
        /\ jobs' = [jobs EXCEPT ![j] = Done]
    BY <1>4 DEF Unprotect, disk
  <2>2. SameNext(db, db')
    <3> DEFINE p == jobs[j].prot
               X(d) == d.panic \/ p \notin DOMAIN d.backings
               Y(d) == [b \in DOMAIN d.backings |->
                          [use |-> d.backings[b].use,
                           prot |-> d.backings[b].prot - (IF b = p THEN 1 ELSE 0)]]
    <3>1. CASE p = 0
      BY <1>4, <3>1 DEF Unprotect, SameNext
    <3>2. CASE p # 0
      <4>1. db' = [db EXCEPT !.panic = X(db), !.backings = Y(db)]
        BY <1>4, <3>2 DEF Unprotect
      <4> HIDE DEF X, Y
      <4> QED
        BY <4>1 DEF SameNext
    <3> QED
      BY <3>1, <3>2
  <2> QED
    BY <1>0, <2>1, <2>2, SameNextJob DEF Pending
<1>5. CASE ClearCompacting(j)
  <2>1. /\ jobs[j].pc = "clear" /\ UNCHANGED <<manifests, marker, io, phase, brought>>
        /\ jobs' = [jobs EXCEPT ![j] = Done]
    BY <1>5 DEF ClearCompacting, disk
  <2>2. \E d \in {db, UpdateReadState(db)} : db' = DeleteObsoleteFiles(d)
    BY <1>5 DEF ClearCompacting
  <2>3. PICK d \in {db, UpdateReadState(db)} : db' = DeleteObsoleteFiles(d)
    BY <2>2
  <2>4. SameNext(db, db)
    BY DEF SameNext
  <2>5. SameNext(db, d)
    BY <2>3, <2>4, ReadStateNext
  <2>6. SameNext(d, db')
    BY <2>3, NextNotTaken
  <2>7. SameNext(db, db')
    BY <2>5, <2>6, SameNextChain
  <2> QED
    BY <1>0, <2>1, <2>7, SameNextJob DEF Pending
<1> QED
  BY <1>1, <1>2, <1>3, <1>4, <1>5

(***************************************************************************)
(* The edits.                                                              *)
(***************************************************************************)
\* What the edit of a job is to TableStore.
KindOf(k) ==
  IF k \in {"flush", "external"} THEN "write"
  ELSE IF k \in {"compact", "move"} THEN "rewrite"
  ELSE IF k = "excise" THEN "excise" ELSE "drop"

Change(kind, c, d) == [kind |-> kind, del |-> c \ d, add |-> d \ c]
Nothing == [kind |-> "none", del |-> {}, add |-> {}]

LEMMA InFlightFacts ==
  /\ io = NoIO => InFlight = Nothing
  /\ io # NoIO =>
       InFlight = Change(IF io.job = 0 THEN "rewrite" ELSE KindOf(jobs[io.job].kind),
                         Contents(Current(db)), Contents(io.tables))
<1>1. io = NoIO => InFlight = Nothing
  BY DEF InFlight, Nothing
<1>2. ASSUME io # NoIO
      PROVE  InFlight = Change(IF io.job = 0 THEN "rewrite" ELSE KindOf(jobs[io.job].kind),
                               Contents(Current(db)), Contents(io.tables))
  <2> DEFINE k == jobs[io.job].kind
             o == CASE k \in {"flush", "external"} -> "write"
                    [] k \in {"compact", "move"} -> "rewrite"
                    [] k = "excise" -> "excise"
                    [] OTHER -> "drop"
  <2>1. o = KindOf(k)
    <3> HIDE DEF k
    <3>1. CASE k \in {"flush", "external"}
      BY <3>1 DEF KindOf
    <3>2. CASE k \in {"compact", "move"}
      BY <3>2 DEF KindOf
    <3>3. CASE k = "excise"
      BY <3>3 DEF KindOf
    <3>4. CASE k \notin {"flush", "external", "compact", "move", "excise"}
      BY <3>4 DEF KindOf
    <3> QED
      BY <3>1, <3>2, <3>3, <3>4
  <2>2. InFlight = Change(IF io.job = 0 THEN "rewrite" ELSE o,
                          Contents(Current(db)), Contents(io.tables))
    <3>1. InFlight = [kind |-> IF io.job = 0 THEN "rewrite" ELSE o,
                      del |-> Contents(Current(db)) \ Contents(io.tables),
                      add |-> Contents(io.tables) \ Contents(Current(db))]
      BY <1>2, Zenon DEF InFlight
    <3> QED
      BY <3>1 DEF Change
  <2> HIDE DEF o
  <2> QED
    BY <2>1, <2>2
<1> QED
  BY <1>1, <1>2

InFlightNow ==
  InFlight = IF io = NoIO THEN Nothing
             ELSE Change(IF io.job = 0 THEN "rewrite" ELSE KindOf(jobs[io.job].kind),
                         Contents(Current(db)), Contents(io.tables))

LEMMA InFlightIs == InFlightNow /\ InFlightNow'
<1>1. InFlightNow
  BY InFlightFacts DEF InFlightNow
<1> QED
  BY <1>1, PTL

\* The items before and after an edit.
LEMMA EditedItems ==
  ASSUME NEW T, NEW e
  PROVE  /\ Contents(Edited(T, e)) \ Contents(T) = Contents(e.new) \ Contents(T)
         /\ Contents(Edited(T, e)) = Contents(T \ e.del) \cup Contents(e.new)
<1> DEFINE U == Edited(T, e)
<1>1. \A x : x \in Contents(U) <=> x \in Contents(T \ e.del) \/ x \in Contents(e.new)
  BY DEF Contents, Edited
<1>2. \A x : x \in Contents(T \ e.del) => x \in Contents(T)
  BY DEF Contents
<1> HIDE DEF U
<1>3. /\ Contents(U) \ Contents(T) = Contents(e.new) \ Contents(T)
      /\ Contents(U) = Contents(T \ e.del) \cup Contents(e.new)
  BY <1>1, <1>2
<1> QED
  BY <1>3 DEF U

\* An edit begins: the items it adds have the numbers of its job.
LEMMA EditItems ==
  ASSUME IInv, IInv', ItemsInv, NEW m, NEW j, NEW e, EditStep(m, j, e),
         NumbersOf(Contents(e.new) \ Contents(Current(db))) \subseteq Own(Was(j)),
         j = 0 => e.del = {} /\ e.new = {}
  PROVE  /\ ItemsInv' /\ Held' = Held /\ InFlight = Nothing
         /\ brought' = brought \cup NumbersOf(Contents(e.new) \ Contents(Current(db)))
         /\ InFlight' = Change(IF j = 0 THEN "rewrite" ELSE KindOf(jobs[j].kind),
                               Contents(Current(db)),
                               Contents(Edited(Current(db), e)))
         /\ phase = "open" => j # 0 /\ Held = {Contents(Current(db))}
<1> DEFINE c == Contents(Current(db))
           A == Contents(e.new) \ c
<1>1. /\ Up /\ Idle /\ phase \in {"loaded", "open"} /\ UNCHANGED <<disk, phase>>
      /\ phase = "open" => j \in DOMAIN jobs
      /\ phase = "loaded" => j = 0
      /\ jobs' \in Seq(JobType) /\ DOMAIN jobs' = DOMAIN jobs
      /\ \A i \in DOMAIN jobs :
           SameJob(jobs[i], jobs'[i]) /\ jobs'[i].pc = IF i = j THEN "apply" ELSE jobs[i].pc
  BY DEF EditStep
<1>2. /\ io'.job = j /\ ~Idle' /\ io'.edit.next = m
      /\ io'.tables = Edited(Current(db), e)
  BY EditBegun DEF Edited
<1>3. /\ Target = Current(db) /\ Current(db') = Current(db) /\ Target' = io'.tables /\ Up'
      /\ m \in Nat /\ m >= db.nextFileNum /\ db.nextFileNum \in Nat
      /\ db'.nextFileNum \in Nat /\ db'.nextFileNum >= m
  BY EditFrame
<1>4. brought' = brought \cup NumbersOf(A)
  <2> DEFINE d == SetNext(db, m)
  <2>1. brought' = brought \cup {x[2] : x \in Contents(e.new) \ Contents(Current(d))}
    <3>1. BeginEdit(d, j, e)
      BY DEF EditStep
    <3> HIDE DEF d
    <3> QED
      BY <3>1 DEF BeginEdit
  <2>2. Current(d) = Current(db)
    BY <1>1, <1>3, SetNextFacts
  <2> HIDE DEF d
  <2> QED
    BY <2>1, <2>2 DEF NumbersOf
<1>5. /\ brought \subseteq Nat /\ Below(brought, db.nextFileNum)
      /\ \A i \in DOMAIN jobs : JobItems(jobs[i], brought)
      /\ NumbersOf(c) \subseteq brought
  BY <1>1, <1>3 DEF ItemsInv
<1>6. \A n \in Own(Was(j)) : n \in Nat /\ n < db.nextFileNum
  <2>1. CASE j \in DOMAIN jobs
    <3>1. Was(j) = jobs[j] /\ jobs[j] \in JobType
      BY <2>1, JobFacts
    <3>2. Own(jobs[j]) \subseteq Nat
      <4>1. jobs[j].edit.new \in TableSets
        BY <3>1 DEF JobType, EditType
      <4>2. Numbers(jobs[j].edit.new) \subseteq Nat
        BY <4>1, TableNumbers
      <4> QED
        BY <4>2 DEF Own
    <3> QED
      BY <2>1, <3>1, <3>2 DEF IInv, OwnInv
  <2>2. CASE j \notin DOMAIN jobs
    <3>1. Was(j) = Done /\ Done.pc = "done"
      BY <2>2, DoneType DEF Was
    <3>2. Own(Was(j)) = {}
      BY <3>1 DEF Own, Pending
    <3> QED
      BY <3>2
  <2> QED
    BY <2>1, <2>2
<1>7. brought' \subseteq Nat /\ Below(brought', m) /\ Below(brought', db'.nextFileNum)
  <2>1. \A n \in brought' : n \in Nat /\ n < db.nextFileNum
    BY <1>4, <1>5, <1>6 DEF Below
  <2> QED
    BY <1>3, <2>1 DEF Below
<1>8. ASSUME NEW i \in DOMAIN jobs' PROVE JobItems(jobs'[i], brought')
  <2> DEFINE a == jobs[i]
             b == jobs'[i]
  <2>1. /\ i \in DOMAIN jobs /\ SameJob(a, b) /\ JobItems(a, brought)
        /\ b.pc = IF i = j THEN "apply" ELSE a.pc
    BY <1>1, <1>5, <1>8
  <2>2. /\ b.kind = a.kind /\ b.in = a.in /\ b.span = a.span /\ b.edit = a.edit
    BY <2>1 DEF SameJob
  <2>3. CASE i = j
    <3>1. ~Pending(b)
      BY <2>1, <2>3 DEF Pending
    <3> QED
      BY <2>1, <2>2, <3>1 DEF JobItems
  <2>4. CASE i # j
    <3>1. ASSUME Pending(a), a.kind \in {"flush", "excise", "external"}
          PROVE  BringsItems(a.edit, brought')
      <4>1. PICK t \in a.edit.new :
              /\ a.edit.new = {t} /\ t.items # {} /\ t.num \notin brought
              /\ \A x \in t.items : x[2] = t.num
        BY <2>1, <3>1 DEF JobItems, BringsItems
      <4>2. a.in = {}
        <5>1. JobOK(a)
          BY <2>1, JobFacts
        <5> QED
          BY <3>1, <5>1 DEF JobOK
      <4>3. t.num \in Own(a)
        BY <3>1, <4>1, <4>2 DEF Own, Numbers
      <4>4. t.num \notin Own(Was(j))
        <5>1. CASE j \in DOMAIN jobs
          <6>1. Was(j) = jobs[j]
            BY <5>1, JobFacts
          <6>2. Own(jobs[i]) \cap Own(jobs[j]) = {}
            BY <2>1, <2>4, <5>1 DEF IInv, OwnInv
          <6> QED
            BY <4>3, <6>1, <6>2
        <5>2. CASE j \notin DOMAIN jobs
          <6>1. Was(j) = Done /\ Done.pc = "done"
            BY <5>2, DoneType DEF Was
          <6> QED
            BY <6>1 DEF Own, Pending
        <5> QED
          BY <5>1, <5>2
      <4>5. t.num \notin brought'
        BY <1>4, <4>1, <4>4
      <4> QED
        BY <4>1, <4>5 DEF BringsItems
    <3>2. Pending(b) <=> Pending(a)
      BY <2>1, <2>4 DEF Pending
    <3> QED
      BY <2>1, <2>2, <3>1, <3>2 DEF JobItems
  <2> QED
    BY <2>3, <2>4
<1>9. /\ Images' = Images /\ LastNext' = LastNext
      /\ \A n, k : Image(n, k)' = Image(n, k) /\ Lengths(n)' = Lengths(n)
  BY <1>1, SameImages DEF disk
<1>10. \A n \in Range(marker') : \A k \in Lengths(n)' : ImageItems(n, k)'
  <2>1. \A n \in Range(marker) : \A k \in Lengths(n) : ImageItems(n, k)
    BY DEF ItemsInv
  <2>2. brought \subseteq brought' /\ UNCHANGED <<manifests, marker>>
    BY <1>1, <1>4 DEF disk
  <2>3. \A n, k : ImageItems(n, k) => ImageItems(n, k)'
    BY <1>9, <2>2 DEF ImageItems
  <2> QED
    BY <1>9, <2>1, <2>2, <2>3
<1>11. NumbersOf(Contents(Target')) \subseteq brought'
  <2>1. Contents(Target') \ c = A
    <3>1. Contents(Edited(Current(db), e)) \ c = A
      BY EditedItems
    <3> HIDE DEF c, A
    <3> QED
      BY <1>2, <1>3, <3>1
  <2>2. \A x \in Contents(Target') : x \in c \/ x \in A
    BY <2>1
  <2>3. \A x \in c : x[2] \in brought
    BY <1>5 DEF NumbersOf
  <2>4. \A x \in A : x[2] \in NumbersOf(A)
    BY DEF NumbersOf
  <2> HIDE DEF c, A
  <2> QED
    BY <1>4, <2>2, <2>3, <2>4 DEF NumbersOf
<1>12. io'.job = 0 => io'.tables = Current(db')
  BY <1>2, <1>3 DEF Edited
<1>13. ItemsInv'
  <2> HIDE DEF c, A
  <2> QED
    BY <1>2, <1>3, <1>7, <1>8, <1>10, <1>11, <1>12 DEF ItemsInv
<1>14. Held' = Held
  BY <1>1, <1>3, <1>9 DEF Held
<1>15. io = NoIO /\ io' # NoIO
  <2>1. io = NoIO
    BY <1>1, IdleNoIO
  <2>2. (IInv => (Idle <=> io = NoIO))'
    BY IdleNoIO, PTL
  <2> QED
    BY <1>2, <2>1, <2>2
<1>16. InFlight = Nothing
  BY <1>15, InFlightFacts
<1>17. InFlight' = Change(IF j = 0 THEN "rewrite" ELSE KindOf(jobs[j].kind),
                          c, Contents(Edited(Current(db), e)))
  <2>1. InFlight' = Change(IF io'.job = 0 THEN "rewrite" ELSE KindOf(jobs'[io'.job].kind),
                           Contents(Current(db')), Contents(io'.tables))
    BY <1>15, InFlightIs DEF InFlightNow
  <2>2. j # 0 => jobs'[j].kind = jobs[j].kind
    <3>1. j # 0 => j \in DOMAIN jobs
      BY <1>1
    <3> QED
      BY <1>1, <3>1 DEF SameJob
  <2> QED
    BY <1>2, <1>3, <2>1, <2>2
<1>18. phase = "open" => j # 0 /\ Held = {c}
  <2>1. 0 \notin DOMAIN jobs
    BY JobsSeq
  <2> QED
    BY <1>1, <2>1 DEF Held
<1> QED
  BY <1>4, <1>13, <1>14, <1>16, <1>17, <1>18

LEMMA BeginsStore ==
  ASSUME NEW kind, NEW c, NEW d, kind # "none", Held' = Held, InFlight = Nothing,
         InFlight' = Change(kind, c, d), brought' = brought \cup NumbersOf(d \ c),
         \A b \in Held : Store!Allowed(b, Change(kind, c, d))
  PROVE  Store!Begin
<1>1. Change(kind, c, d).add = d \ c /\ Change(kind, c, d) # Nothing
  <2>1. Change(kind, c, d).kind = kind /\ Change(kind, c, d).add = d \ c
    BY DEF Change
  <2>2. Nothing.kind = "none"
    BY DEF Nothing
  <2> QED
    BY <2>1, <2>2
<1>2. Store!None = Nothing
  BY DEF Store!None, Nothing
<1> QED
  BY <1>1, <1>2 DEF Store!Begin, Held, NumbersOf

\* An edit begins that TableStore allows.
LEMMA EditBegins ==
  ASSUME IInv, IInv', ItemsInv, NEW m, NEW j, NEW e, EditStep(m, j, e),
         NumbersOf(Contents(e.new) \ Contents(Current(db))) \subseteq Own(Was(j)),
         j = 0 => e.del = {} /\ e.new = {},
         phase = "open" =>
           Store!Allowed(Contents(Current(db)),
                         Change(KindOf(jobs[j].kind), Contents(Current(db)),
                                Contents(Edited(Current(db), e))))
  PROVE  ItemsInv' /\ Store!Begin
<1> DEFINE c == Contents(Current(db))
           d == Contents(Edited(Current(db), e))
           kind == IF j = 0 THEN "rewrite" ELSE KindOf(jobs[j].kind)
<1>1. /\ ItemsInv' /\ Held' = Held /\ InFlight = Nothing
      /\ brought' = brought \cup NumbersOf(Contents(e.new) \ c)
      /\ InFlight' = Change(kind, c, d)
      /\ phase = "open" => j # 0 /\ Held = {c}
  BY EditItems
<1>2. d \ c = Contents(e.new) \ c
  BY EditedItems
<1>3. kind # "none"
  BY DEF KindOf
<1>4. phase \in {"loaded", "open"} /\ (phase = "loaded" => j = 0)
  BY DEF EditStep
<1>5. \A b \in Held : Store!Allowed(b, Change(kind, c, d))
  <2>1. CASE phase = "open"
    BY <1>1, <2>1
  <2>2. CASE phase = "loaded"
    <3>1. j = 0 /\ e.del = {} /\ e.new = {}
      BY <1>4, <2>2
    <3>2. Edited(Current(db), e) = Current(db)
      BY <3>1 DEF Edited
    <3>3. d = c
      BY <3>2
    <3> HIDE DEF c, d
    <3>4. kind = "rewrite" /\ Change(kind, c, d) = [kind |-> "rewrite", del |-> {}, add |-> {}]
      BY <3>1, <3>3 DEF Change
    <3> HIDE DEF kind
    <3> QED
      BY <3>4 DEF Store!Allowed
  <2> QED
    BY <1>4, <2>1, <2>2
<1> HIDE DEF c, d, kind
<1>6. brought' = brought \cup NumbersOf(d \ c)
  BY <1>1, <1>2
<1> QED
  BY <1>1, <1>3, <1>5, <1>6, BeginsStore

\* The items of a job's own table are new.
LEMMA BroughtItems ==
  ASSUME IInv, ItemsInv, Up, Idle, NEW j \in DOMAIN jobs, Pending(jobs[j]),
         jobs[j].kind \in {"flush", "excise", "external"}
  PROVE  LET N == Contents(jobs[j].edit.new)
         IN  /\ N \cap Contents(Current(db)) = {} /\ Store!Fresh(N)
             /\ NumbersOf(N) \subseteq Own(Was(j))
<1> DEFINE e == jobs[j].edit
           N == Contents(e.new)
           c == Contents(Current(db))
<1>1. BringsItems(e, brought) /\ NumbersOf(c) \subseteq brought
  BY DEF ItemsInv, JobItems, Target
<1>2. PICK t \in e.new : /\ e.new = {t} /\ t.items # {} /\ t.num \notin brought
                         /\ \A x \in t.items : x[2] = t.num
  BY <1>1 DEF BringsItems
<1>3. N = t.items
  <2>1. Contents({t}) = t.items
    BY DEF Contents
  <2> QED
    BY <1>2, <2>1
<1>4. t.num \in Own(Was(j))
  <2>1. Was(j) = jobs[j] /\ jobs[j].in = {}
    BY JobFacts DEF JobOK
  <2> QED
    BY <1>2, <2>1 DEF Own, Numbers
<1> HIDE DEF N, e
<1>5. NumbersOf(N) = {t.num}
  BY <1>2, <1>3 DEF NumbersOf
<1>6. \A x \in c : x[2] \in brought
  BY <1>1 DEF NumbersOf
<1> HIDE DEF c
<1>7. N \cap c = {}
  BY <1>2, <1>3, <1>6
<1>8. Store!Fresh(N)
  <2>1. NumbersOf(N) = {x[2] : x \in N}
    BY DEF NumbersOf
  <2>2. t.num \in {x[2] : x \in N} /\ t.num \notin brought /\ \A x \in N : x[2] = t.num
    BY <1>2, <1>3, <1>5, <2>1
  <2>3. N # {}
    BY <1>2, <1>3
  <2> QED
    BY <2>2, <2>3 DEF Store!Fresh
<1> QED
  BY <1>4, <1>5, <1>7, <1>8 DEF N, e, c

\* A table is added.
LEMMA WriteBegins ==
  ASSUME IInv, IInv', ItemsInv, NEW j \in DOMAIN jobs, Pending(jobs[j]),
         jobs[j].kind \in {"flush", "external"}, jobs[j].edit.del = {},
         EditStep(db.nextFileNum, j, jobs[j].edit)
  PROVE  ItemsInv' /\ Store!Begin
<1> DEFINE e == jobs[j].edit
           N == Contents(e.new)
           T == Current(db)
           c == Contents(T)
           U == Edited(T, e)
<1>1. Up /\ Idle /\ j # 0
  BY JobsSeq DEF EditStep
<1>2. N \cap c = {} /\ Store!Fresh(N) /\ NumbersOf(N) \subseteq Own(Was(j))
  BY <1>1, BroughtItems
<1>3. T \ e.del = T
  OBVIOUS
<1>4. Contents(U) = Contents(T \ e.del) \cup N
  BY EditedItems
<1>5. Contents(U) = c \cup N
  BY <1>3, <1>4
<1>6. KindOf(jobs[j].kind) = "write"
  BY DEF KindOf
<1> HIDE DEF e, U, N, c
<1>7. N \ c = N /\ c \ Contents(U) = {} /\ Contents(U) \ c = N
  BY <1>2, <1>5
<1>8. Store!Allowed(c, Change("write", c, Contents(U)))
  <2>1. Change("write", c, Contents(U)) = [kind |-> "write", del |-> {}, add |-> N]
    BY <1>7 DEF Change
  <2> QED
    BY <1>2, <2>1 DEF Store!Allowed
<1>9. NumbersOf(N \ c) \subseteq Own(Was(j))
  BY <1>2, <1>7
<1> QED
  BY <1>1, <1>6, <1>8, <1>9, EditBegins DEF e, U, N, c

\* A compaction that keeps the items of its tables, or all but those of a span.
LEMMA RewrittenItems ==
  ASSUME NEW T, NEW e, e.del \subseteq T, Contents(e.new) \subseteq Contents(e.del)
  PROVE  /\ Contents(e.new) \ Contents(T) = {}
         /\ Contents(Edited(T, e)) \ Contents(T) = {}
         /\ Contents(T) \ Contents(Edited(T, e)) \subseteq Contents(e.del) \ Contents(e.new)
<1> DEFINE U == Edited(T, e)
<1>1. Contents(U) = Contents(T \ e.del) \cup Contents(e.new)
  BY EditedItems
<1>2. \A x : x \in Contents(T) <=> x \in Contents(T \ e.del) \/ x \in Contents(e.del)
  BY DEF Contents
<1> HIDE DEF U
<1>3. /\ Contents(e.new) \ Contents(T) = {} /\ Contents(U) \ Contents(T) = {}
      /\ Contents(T) \ Contents(U) \subseteq Contents(e.del) \ Contents(e.new)
  BY <1>1, <1>2
<1> QED
  BY <1>3 DEF U

LEMMA CompactionBegins ==
  ASSUME IInv, IInv', ItemsInv, NEW j \in DOMAIN jobs, Pending(jobs[j]), JobOK(jobs[j]),
         Compaction(j), jobs[j].in \subseteq Current(db),
         EditStep(db.nextFileNum, j, jobs[j].edit)
  PROVE  ItemsInv' /\ Store!Begin
<1> DEFINE e == jobs[j].edit
           I == jobs[j].in
           k == jobs[j].kind
           T == Current(db)
           c == Contents(T)
           d == Contents(Edited(T, e))
<1>1. j # 0 /\ jobs[j] \in JobType /\ k \in {"compact", "move", "deleteonly"}
  BY JobsSeq, JobFacts DEF Compaction
<1>2. Shape(jobs[j]) /\ JobItems(jobs[j], brought)
  BY DEF JobOK, ItemsInv
<1>3. e.del = I
  BY <1>1, <1>2 DEF Shape, NewTable, MovedTables, ExcisedTable
<1>4. k = "move" => Contents(e.new) = Contents(I)
  <2> SUFFICES ASSUME k = "move" PROVE Contents(e.new) = Contents(I)
    OBVIOUS
  <2>1. e.new = {[t EXCEPT !.level = 1] : t \in I}
    BY <1>2 DEF Shape, MovedTables
  <2>2. \A t \in I : [t EXCEPT !.level = 1].items = t.items
    <3>1. \A t \in I : t \in TableType
      BY <1>1 DEF JobType, TableSets
    <3> QED
      BY <3>1 DEF TableType
  <2>3. \A x : x \in Contents(I) <=> \E t \in I : x \in t.items
    BY ItemMembers
  <2>4. \A x : x \in Contents(e.new) <=> \E u \in e.new : x \in u.items
    BY ItemMembers
  <2> HIDE DEF e, I
  <2>5. ASSUME NEW x, x \in Contents(I) PROVE x \in Contents(e.new)
    <3>1. PICK t \in I : x \in t.items
      BY <2>3, <2>5
    <3>2. [t EXCEPT !.level = 1] \in e.new
      BY <2>1
    <3> QED
      BY <2>2, <2>4, <3>1, <3>2
  <2>6. ASSUME NEW x, x \in Contents(e.new) PROVE x \in Contents(I)
    <3>1. PICK u \in e.new : x \in u.items
      BY <2>4, <2>6
    <3>2. PICK t \in I : u = [t EXCEPT !.level = 1]
      BY <2>1
    <3> QED
      BY <2>2, <2>3, <3>1, <3>2
  <2> QED
    BY <2>5, <2>6
<1>5. k = "compact" => Contents(e.new) = Contents(I)
  BY <1>2 DEF JobItems
<1>6. k = "deleteonly" =>
        /\ Contents(e.new) \subseteq Contents(I) /\ jobs[j].span \in Spans
        /\ \A x \in Contents(I) \ Contents(e.new) : x[1] \in jobs[j].span
  BY <1>2 DEF JobItems
<1> HIDE DEF e, I, k, T
<1>7. /\ Contents(e.new) \ c = {} /\ d \ c = {}
      /\ c \ d \subseteq Contents(I) \ Contents(e.new)
  <2>1. Contents(e.new) \subseteq Contents(e.del) /\ e.del \subseteq T
    BY <1>1, <1>3, <1>4, <1>5, <1>6 DEF I, T
  <2> QED
    BY <1>3, <2>1, RewrittenItems
<1> HIDE DEF c, d
<1>8. Store!Allowed(c, Change(KindOf(k), c, d))
  <2>1. CASE k \in {"compact", "move"}
    <3>1. c \ d = {}
      BY <1>4, <1>5, <1>7, <2>1
    <3>2. KindOf(k) = "rewrite"
      BY <2>1 DEF KindOf
    <3>3. Change(KindOf(k), c, d) = [kind |-> "rewrite", del |-> {}, add |-> {}]
      BY <1>7, <3>1, <3>2 DEF Change
    <3> QED
      BY <3>3 DEF Store!Allowed
  <2>2. CASE k = "deleteonly"
    <3> DEFINE S == jobs[j].span
               g == c \ d
    <3>1. S \in Spans /\ \A x \in g : x \in c /\ x[1] \in S
      BY <1>6, <1>7, <2>2
    <3>2. g \subseteq Store!InSpan(c, S)
      <4> HIDE DEF g, S
      <4> QED
        BY <3>1 DEF Store!InSpan
    <3>3. KindOf(k) = "drop"
      BY <2>2 DEF KindOf
    <3>4. Change(KindOf(k), c, d) = [kind |-> "drop", del |-> g, add |-> {}]
      BY <1>7, <3>3 DEF Change
    <3> HIDE DEF g, S
    <3> QED
      BY <3>1, <3>2, <3>4 DEF Store!Allowed
  <2> QED
    BY <1>1, <2>1, <2>2 DEF k
<1>9. NumbersOf(Contents(e.new) \ c) \subseteq Own(Was(j))
  <2>1. NumbersOf({}) = {}
    BY DEF NumbersOf
  <2> QED
    BY <1>7, <2>1
<1> QED
  BY <1>1, <1>8, <1>9, EditBegins DEF e, k, c, d, T

\* A table with a key of the span overlaps it.
LEMMA KeyOverlaps ==
  ASSUME NEW t \in TableType, NEW S \in Spans, NEW x \in t.items, x[1] \in S
  PROVE  Overlaps(KeysOf(t), S)
<1> DEFINE K == KeysOf(t)
           k == x[1]
<1>1. K \subseteq Keys /\ k \in K
  BY DEF KeysOf, TableType
<1>2. S \subseteq Keys
  BY SpanFacts
<1> HIDE DEF K, k
<1>3. Keys \subseteq Nat /\ IsFiniteSet(Keys)
  <2>1. \A a, b \in Int : IsFiniteSet(a .. b)
    BY FS_Interval
  <2>2. PICK a \in Int, b \in Int : a = 1 /\ b = 3
    OBVIOUS
  <2>3. IsFiniteSet(a .. b) /\ Keys = a .. b
    BY <2>1, <2>2 DEF Keys
  <2> QED
    BY <2>2, <2>3
<1>4. /\ K \subseteq Nat /\ S \subseteq Nat /\ IsFiniteSet(K) /\ IsFiniteSet(S)
      /\ K # {} /\ S # {} /\ k \in S
  BY <1>1, <1>2, <1>3, FS_Subset DEF k
<1>5. Min(K) \in Nat /\ Min(K) <= k /\ Min(S) \in Nat /\ Min(S) <= k
  BY <1>1, <1>4, MinFacts
<1>6. Max(K) \in Nat /\ k <= Max(K) /\ Max(S) \in Nat /\ k <= Max(S)
  BY <1>1, <1>4, MaxFacts
<1>7. k \in Nat
  BY <1>4
<1> QED
  BY <1>4, <1>5, <1>6, <1>7 DEF Overlaps, K

\* An excise removes exactly the items of its span.
LEMMA ExciseAllItems ==
  ASSUME NEW T \in TableSets, NEW S \in Spans, NEW n
  PROVE  LET e == ExciseAll(T, S, n)
         IN  /\ Contents(e.new) \subseteq Contents(T)
             /\ \A x \in Contents(T \ e.del) : x[1] \notin S
             /\ \A x \in Contents(e.new) : x[1] \notin S
             /\ \A x \in Contents(T) : x[1] \notin S => x \in Contents(T \ e.del) \/ x \in Contents(e.new)
<1> DEFINE H == {t \in T : Overlaps(KeysOf(t), S)}
           First(t) == n + 2 * Rank(H, t)
           X(t) == Excise(t, S, First(t))
           new == UNION {X(t).new : t \in H}
           created == UNION {X(t).created : t \in H}
           e == ExciseAll(T, S, n)
<1>1. e = Edit(H, new, created)
  <2> DEFINE edits == {X(t) : t \in H}
  <2>1. (UNION {y.new : y \in edits}) = new
    <3> HIDE DEF X, H
    <3> QED
      OBVIOUS
  <2>2. (UNION {y.created : y \in edits}) = created
    <3> HIDE DEF X, H
    <3> QED
      OBVIOUS
  <2>3. ExciseAll(T, S, n) =
          Edit(H, UNION {y.new : y \in edits}, UNION {y.created : y \in edits})
    <3>1. \A t : First(t) = n + 2 * Cardinality({u \in H : u.num < t.num})
      BY DEF Rank
    <3> QED
      BY <3>1 DEF ExciseAll, Rank
  <2> HIDE DEF edits, H, new, created
  <2> QED
    BY <2>1, <2>2, <2>3
<1>2. \A t : t \in H <=> t \in T /\ Overlaps(KeysOf(t), S)
  OBVIOUS
<1>3. \A t \in T : t \in TableType
  BY DEF TableSets
<1> HIDE DEF H, First
<1>4. ASSUME NEW t \in H PROVE Contents(X(t).new) = {x \in t.items : x[1] \notin S}
  BY <1>2, <1>3, <1>4, ExciseItems
<1>5. \A x : x \in Contents(new) <=> \E t \in H : x \in t.items /\ x[1] \notin S
  <2>1. \A x : x \in Contents(new) <=> \E u \in new : x \in u.items
    BY ItemMembers
  <2>2. \A u : u \in new <=> \E t \in H : u \in X(t).new
    OBVIOUS
  <2> HIDE DEF X, new
  <2>3. \A t \in H : \A x : x \in t.items /\ x[1] \notin S <=> \E u \in X(t).new : x \in u.items
    <3> SUFFICES ASSUME NEW t \in H, NEW x
                 PROVE  x \in t.items /\ x[1] \notin S <=> \E u \in X(t).new : x \in u.items
      OBVIOUS
    <3>1. x \in Contents(X(t).new) <=> \E u \in X(t).new : x \in u.items
      BY ItemMembers
    <3> QED
      BY <1>4, <3>1
  <2> QED
    BY <2>1, <2>2, <2>3
<1> HIDE DEF X, new, created
<1>6. e.del = H /\ e.new = new
  <2> HIDE DEF e
  <2> QED
    BY <1>1 DEF Edit
<1>7. \A x : x \in Contents(T \ H) <=> \E t \in T \ H : x \in t.items
  BY ItemMembers
<1>8. \A x : x \in Contents(T) <=> \E t \in T : x \in t.items
  BY ItemMembers
<1>9. \A t \in T \ H : \A x \in t.items : x[1] \notin S
  BY <1>2, <1>3, KeyOverlaps
<1>10. Contents(new) \subseteq Contents(T)
  BY <1>2, <1>5, <1>8
<1>11. \A x \in Contents(T \ H) : x[1] \notin S
  BY <1>7, <1>9
<1>12. \A x \in Contents(new) : x[1] \notin S
  BY <1>5
<1>13. \A x \in Contents(T) : x[1] \notin S => x \in Contents(T \ H) \/ x \in Contents(new)
  BY <1>5, <1>7, <1>8
<1> QED
  BY <1>6, <1>10, <1>11, <1>12, <1>13

LEMMA ExciseBegins ==
  ASSUME IInv, IInv', ItemsInv, NEW j \in DOMAIN jobs, ApplyExcise(j)
  PROVE  ItemsInv' /\ Store!Begin
<1> DEFINE T == Current(db)
           S == jobs[j].span
           e == ExciseAll(T, S, db.nextFileNum)
           B == jobs[j].edit.new
           N == Contents(B)
           f == ExciseEdit(e, B)
           m == db.nextFileNum + 2 * Cardinality(e.del)
           c == Contents(T)
           d == Contents(Edited(T, f))
<1>1. EditStep(m, j, f) /\ jobs[j].pc = "lock" /\ jobs[j].kind = "excise" /\ JobOK(jobs[j])
  BY ApplyExciseBegins
<1>2. Up /\ Idle /\ j # 0 /\ Pending(jobs[j])
  BY <1>1, JobsSeq DEF EditStep, Pending
<1>3. N \cap c = {} /\ Store!Fresh(N) /\ NumbersOf(N) \subseteq Own(Was(j))
  BY <1>1, <1>2, BroughtItems
<1>4. S \in Spans
  BY <1>1 DEF ItemsInv, JobItems
<1>5. T \in TableSets /\ Sound(T, DOMAIN db.backings) /\ db.nextFileNum \in Nat
  BY <1>2, IdleFacts
<1>6. e \in EditType
  BY <1>5, ExciseAllFacts DEF Sound
<1>7. /\ Contents(e.new) \subseteq c
      /\ \A x \in Contents(T \ e.del) : x[1] \notin S
      /\ \A x \in Contents(e.new) : x[1] \notin S
      /\ \A x \in c : x[1] \notin S => x \in Contents(T \ e.del) \/ x \in Contents(e.new)
  BY <1>4, <1>5, ExciseAllItems
<1> HIDE DEF e, m
<1>8. f.new = e.new \cup B /\ f.del = e.del
  BY <1>6 DEF ExciseEdit, EditType
<1> HIDE DEF f, B
<1>9. \A x : x \in Contents(f.new) <=> x \in Contents(e.new) \/ x \in N
  BY <1>8 DEF Contents
<1>10. d = Contents(T \ e.del) \cup Contents(f.new)
  BY <1>8, EditedItems
<1>11. \A x \in Contents(T \ e.del) : x \in c
  BY DEF Contents
<1> HIDE DEF d, c, N, S, T
<1>12. Contents(f.new) \ c = N /\ d \ c = N
  BY <1>3, <1>7, <1>9, <1>10, <1>11
<1>13. c \ d = {x \in c : x[1] \in S}
  BY <1>3, <1>7, <1>9, <1>10
<1>14. Store!Allowed(c, Change("excise", c, d))
  <2>1. Change("excise", c, d) = [kind |-> "excise", del |-> c \ d, add |-> N]
    BY <1>12 DEF Change
  <2>2. c \ d = Store!InSpan(c, S)
    BY <1>13 DEF Store!InSpan
  <2> QED
    BY <1>3, <1>4, <2>1, <2>2 DEF Store!Allowed
<1>15. KindOf(jobs[j].kind) = "excise"
  BY <1>1 DEF KindOf
<1>16. NumbersOf(Contents(f.new) \ c) \subseteq Own(Was(j))
  BY <1>3, <1>12
<1> QED
  BY <1>1, <1>2, <1>14, <1>15, <1>16, EditBegins DEF c, d, T

\* The steps that begin an edit.
LEMMA ApplyItems ==
  ASSUME IInv, IInv', ItemsInv, NEW j \in DOMAIN jobs,
         ApplyTables(j) \/ ApplyExcise(j) \/ ApplyExternal(j)
  PROVE  ItemsInv' /\ (Unseen \/ Store!Begin)
<1>1. CASE ApplyTables(j) /\ jobs[j].cancel /\ Compaction(j)
  BY <1>1, RunItems
<1>2. CASE ApplyTables(j) /\ ~(jobs[j].cancel /\ Compaction(j))
  <2>1. /\ EditStep(db.nextFileNum, j, jobs[j].edit)
        /\ jobs[j].pc = "lock" /\ JobOK(jobs[j]) /\ Shape(jobs[j])
        /\ jobs[j].in \subseteq Current(db) /\ (Compaction(j) \/ jobs[j].kind = "flush")
    BY <1>2, ApplyTablesBegins
  <2>2. Pending(jobs[j])
    BY <2>1 DEF Pending
  <2>3. CASE Compaction(j)
    BY <2>1, <2>2, <2>3, CompactionBegins
  <2>4. CASE jobs[j].kind = "flush"
    <3>1. jobs[j].edit.del = {}
      BY <2>1, <2>4 DEF JobOK, Shape, NewTable
    <3> QED
      BY <2>1, <2>2, <2>4, <3>1, WriteBegins
  <2> QED
    BY <2>1, <2>3, <2>4
<1>3. CASE ApplyExcise(j)
  BY <1>3, ExciseBegins
<1>4. CASE ApplyExternal(j)
  <2>1. /\ EditStep(db.nextFileNum, j, jobs[j].edit)
        /\ jobs[j].pc = "target" /\ jobs[j].kind = "external" /\ JobOK(jobs[j])
        /\ Shape(jobs[j])
    BY <1>4, ApplyExternalBegins
  <2>2. Pending(jobs[j])
    BY <2>1 DEF Pending
  <2>3. jobs[j].edit.del = {}
    BY <2>1 DEF Shape, ExternalTable
  <2> QED
    BY <2>1, <2>2, <2>3, WriteBegins
<1> QED
  BY <1>1, <1>2, <1>3, <1>4

\* The flush in Open adds no table.
LEMMA OpenFlushItems ==
  ASSUME IInv, IInv', ItemsInv, OpenFlush
  PROVE  ItemsInv' /\ Store!Begin
<1>1. EditStep(db.nextFileNum, 0, NoEdit) /\ phase = "loaded"
  BY OpenFlushBegins
<1>2. NoEdit.del = {} /\ NoEdit.new = {}
  BY DoneType DEF NoEdit, Edit
<1>3. Contents(NoEdit.new) \ Contents(Current(db)) = {} /\ NumbersOf({}) = {}
  BY <1>2 DEF Contents, NumbersOf
<1>4. NumbersOf(Contents(NoEdit.new) \ Contents(Current(db))) \subseteq Own(Was(0))
  BY <1>3
<1> QED
  BY <1>1, <1>2, <1>4, EditBegins

LEMMA JobNextItems ==
  ASSUME IInv, IInv', ItemsInv, NEW j \in DOMAIN jobs, JobNext(j)
  PROVE  ItemsInv' /\ (Unseen \/ Store!Begin)
BY StartCompactionItems, WriteTableItems, RunDeleteOnlyItems, RunItems, LockItems, ApplyItems
DEF JobNext

(***************************************************************************)
(* The end of an edit.                                                     *)
(***************************************************************************)
LEMMA InstallItems ==
  ASSUME IInv, IInv', ItemsInv, NEW v, InstallStep(v), brought' = brought
  PROVE  ItemsInv' /\ InFlight' = Nothing /\ Current(db') = io.tables
<1>1. /\ ~Idle /\ Idle' /\ Up /\ Up' /\ Target = io.tables /\ Target' = io.tables
      /\ Current(db') = io.tables /\ db'.nextFileNum = db.nextFileNum
  BY InstallFrame
<1>2. /\ UNCHANGED <<manifests, marker>> /\ io' = NoIO
      /\ jobs' \in Seq(JobType) /\ DOMAIN jobs' = DOMAIN jobs
      /\ \A i \in DOMAIN jobs :
           /\ SameJob(jobs[i], jobs'[i])
           /\ i # io.job => jobs'[i] = jobs[i]
           /\ i = io.job => jobs'[i].pc \in {"unprotect", "clear"}
  BY DEF InstallStep
<1>3. \A i \in DOMAIN jobs' : JobItems(jobs'[i], brought')
  <2> SUFFICES ASSUME NEW i \in DOMAIN jobs' PROVE JobItems(jobs'[i], brought')
    OBVIOUS
  <2>1. i \in DOMAIN jobs /\ JobItems(jobs[i], brought)
    BY <1>2 DEF ItemsInv
  <2>2. CASE i # io.job
    BY <1>2, <2>1, <2>2
  <2>3. CASE i = io.job
    <3>1. jobs'[i].kind = jobs[i].kind /\ jobs'[i].span = jobs[i].span
      BY <1>2, <2>1 DEF SameJob
    <3>2. ~Pending(jobs'[i])
      BY <1>2, <2>1, <2>3 DEF Pending
    <3> QED
      BY <2>1, <3>1, <3>2 DEF JobItems
  <2> QED
    BY <2>2, <2>3
<1>4. /\ \A n, k : ImageItems(n, k)' = ImageItems(n, k) /\ Lengths(n)' = Lengths(n)
  BY <1>2, SameImages
<1>5. ItemsInv'
  BY <1>1, <1>2, <1>3, <1>4 DEF ItemsInv
<1>6. InFlight' = Nothing
  BY <1>2, InFlightIs DEF InFlightNow
<1> QED
  BY <1>1, <1>5, <1>6

\* The items with an edit applied.
LEMMA EffectFacts ==
  ASSUME NEW kind, NEW c, NEW d
  PROVE  /\ Store!Effect(c, Change(kind, c, d)) = d
         /\ kind # "none" => Change(kind, c, d) # Nothing
<1>1. Change(kind, c, d).del = c \ d /\ Change(kind, c, d).add = d \ c
      /\ Change(kind, c, d).kind = kind /\ Nothing.kind = "none"
  BY DEF Change, Nothing
<1>2. (c \ (c \ d)) \cup (d \ c) = d
  OBVIOUS
<1> QED
  BY <1>1, <1>2 DEF Store!Effect

LEMMA InstallApplies ==
  ASSUME IInv, IInv', ItemsInv, Install
  PROVE  ItemsInv' /\ Store!Apply
<1>1. phase = "open" /\ phase' = "open" /\ brought' = brought
  BY InstallSteps
<1>2. PICK v : InstallStep(v)
  BY InstallSteps
<1>3. ItemsInv' /\ InFlight' = Nothing /\ Current(db') = io.tables
  BY <1>1, <1>2, InstallItems
<1>4. ~Idle
  BY <1>2, InstallFrame
<1>5. io # NoIO
  BY <1>4, IdleNoIO
<1> DEFINE kind == IF io.job = 0 THEN "rewrite" ELSE KindOf(jobs[io.job].kind)
           c == Contents(Current(db))
           d == Contents(io.tables)
<1>6. InFlight = Change(kind, c, d)
  BY <1>5, InFlightFacts
<1>7. Held = {c} /\ Held' = {d}
  BY <1>1, <1>3 DEF Held
<1>8. kind # "none"
  BY DEF KindOf
<1> HIDE DEF kind, c, d
<1>9. InFlight # Nothing /\ Held' = {Store!Effect(b, InFlight) : b \in Held}
  BY <1>6, <1>7, <1>8, EffectFacts
<1>10. Store!None = Nothing
  BY DEF Store!None, Nothing
<1> QED
  BY <1>1, <1>3, <1>9, <1>10 DEF Store!Apply, Held

LEMMA OpenFlushedApplies ==
  ASSUME IInv, IInv', ItemsInv, OpenFlushed
  PROVE  ItemsInv' /\ Store!Apply
<1>1. phase = "loaded" /\ phase' = "flushed" /\ brought' = brought
  BY OpenFlushedSteps
<1>2. PICK v : InstallStep(v)
  BY OpenFlushedSteps
<1>3. ItemsInv' /\ InFlight' = Nothing /\ Current(db') = io.tables
  BY <1>1, <1>2, InstallItems
<1>4. ~Idle /\ io.job = 0
  BY <1>2, InstallFrame DEF OpenFlushed
<1>5. io # NoIO /\ io.tables = Current(db)
  BY <1>4, IdleNoIO DEF ItemsInv
<1> DEFINE c == Contents(Current(db))
<1>6. InFlight = Change("rewrite", c, c)
  BY <1>4, <1>5, InFlightFacts
<1>7. Change("rewrite", c, c) = [kind |-> "rewrite", del |-> {}, add |-> {}]
  BY DEF Change
<1>8. UNCHANGED <<manifests, marker>>
  BY <1>2 DEF InstallStep
<1>9. Held' = Held
  BY <1>1, <1>8, SameImages DEF Held
<1> HIDE DEF c
<1>10. \A b : Store!Effect(b, InFlight) = b
  BY <1>6, <1>7 DEF Store!Effect
<1>11. InFlight # Nothing
  BY <1>6, <1>7 DEF Nothing
<1>12. Held' = {Store!Effect(b, InFlight) : b \in Held}
  BY <1>9, <1>10
<1>13. Store!None = Nothing
  BY DEF Store!None, Nothing
<1> QED
  BY <1>1, <1>3, <1>11, <1>12, <1>13 DEF Store!Apply, Held

(***************************************************************************)
(* logAndApply while it writes the manifest.                               *)
(***************************************************************************)
NextOf(n, k) == manifests[n].recs[k].next

HeldIs ==
  /\ phase = "open" => Held = {Contents(Current(db))}
  /\ phase # "open" =>
       \A c : c \in Held <=> \E n \in Range(marker) : \E k \in Lengths(n) :
                               c = Contents(Image(n, k).tables)

LEMMA HeldNow == HeldIs /\ HeldIs'
<1>1. HeldIs
  BY ImageMembers DEF HeldIs, Held
<1> QED
  BY <1>1, PTL

\* The last manifest that the marker names can be read to its end.
LastRead ==
  LET n == Last(marker)
  IN  n \in Range(marker) /\ n \in DOMAIN manifests /\ Records(n) \in Lengths(n)

HeldSome == Held # {}

LEMMA LastReads == IInv => LastRead /\ HeldSome
<1> SUFFICES ASSUME IInv PROVE LastRead /\ HeldSome
  OBVIOUS
<1> DEFINE n == Last(marker)
<1>1. marker \in Seq(Nat) /\ marker # << >>
  BY ManifestFacts
<1>2. Len(marker) \in DOMAIN marker
  BY <1>1
<1>3. n \in Range(marker)
  BY <1>2 DEF Last, Range
<1>4. /\ n \in DOMAIN manifests /\ manifests[n].synced \in Nat /\ Records(n) \in Nat
      /\ manifests[n].synced <= Records(n)
  BY <1>3, ManifestFacts
<1>5. Records(n) \in Lengths(n)
  BY <1>4 DEF Lengths, Records
<1>6. Held # {}
  <2>1. CASE phase = "open"
    BY <2>1, HeldNow DEF HeldIs
  <2>2. CASE phase # "open"
    <3> HIDE DEF n
    <3>1. Contents(Image(n, Records(n)).tables) \in Held
      BY <1>3, <1>5, <2>2, HeldNow DEF HeldIs
    <3> QED
      BY <3>1
  <2> QED
    BY <2>1, <2>2
<1> QED
  BY <1>3, <1>4, <1>5, <1>6 DEF LastRead, HeldSome

OldImage(n, k) ==
  n \in Range(marker) /\ k \in Lengths(n) /\ Image(n, k)' = Image(n, k)
    /\ NextOf(n, k)' = NextOf(n, k)

NewImage(n, k) ==
  Image(n, k)'.tables = io.tables /\ NextOf(n, k)' = io.edit.next

OldImages ==
  /\ \A n \in Range(marker') : \A k \in Lengths(n)' : OldImage(n, k)
  /\ LastNext' = LastNext

NewImages ==
  /\ \A n \in Range(marker') : \A k \in Lengths(n)' : OldImage(n, k) \/ NewImage(n, k)
  /\ LastNext' = io.edit.next /\ AtRest(Before)

LEMMA WriterItems ==
  ASSUME IInv, IInv', ItemsInv, ~Idle, UNCHANGED <<phase, db, jobs, brought>>,
         NEW s, s # "none", io' = [io EXCEPT !.stage = s], OldImages \/ NewImages
  PROVE  ItemsInv' /\ (Unseen \/ Store!Reopen)
<1>1. /\ io'.stage = s /\ io'.tables = io.tables /\ io'.edit = io.edit /\ io'.job = io.job
      /\ Up /\ Up' /\ EditInv
  <2>1. io'.job = io.job
    BY IInvFacts DEF IOType
  <2> QED
    BY <2>1, StageFacts, EditFacts DEF Up
<1>2. ~Idle' /\ Target = io.tables /\ Target' = io.tables
  BY <1>1 DEF Idle, Target
<1>3. /\ NumbersOf(Contents(io.tables)) \subseteq brought /\ Below(brought, io.edit.next)
      /\ brought \subseteq Nat
      /\ \A n \in Range(marker) : \A k \in Lengths(n) : ImageItems(n, k)
  BY <1>1, <1>2 DEF ItemsInv
<1>4. ASSUME NEW n \in Range(marker'), NEW k \in Lengths(n)' PROVE ImageItems(n, k)'
  <2> DEFINE N == NumbersOf(Contents(Image(n, k)'.tables))
  <2>1. N \subseteq brought /\ Below(N, NextOf(n, k)')
    <3>1. CASE OldImage(n, k)
      BY <1>3, <3>1 DEF OldImage, ImageItems, NextOf
    <3>2. CASE NewImage(n, k)
      BY <1>3, <3>2 DEF NewImage, Below
    <3> QED
      BY <3>1, <3>2 DEF OldImages, NewImages
  <2>2. Below(N, LastNext')
    <3>1. CASE OldImages
      BY <1>3, <3>1 DEF OldImages, OldImage, ImageItems
    <3>2. CASE NewImages
      BY <1>3, <2>1, <3>2 DEF NewImages, Below
    <3> QED
      BY <3>1, <3>2
  <2> QED
    BY <2>1, <2>2 DEF ImageItems, NextOf
<1>5. ItemsInv'
  <2>1. Current(db') = Current(db)
    OBVIOUS
  <2>2. \A j \in DOMAIN jobs' : JobItems(jobs'[j], brought')
    BY DEF ItemsInv
  <2>3. Below(brought', db'.nextFileNum)
    BY <1>1 DEF ItemsInv
  <2>4. io'.job = 0 => io'.tables = Current(db')
    BY <1>1, <2>1 DEF ItemsInv
  <2> QED
    BY <1>1, <1>2, <1>3, <1>4, <2>2, <2>3, <2>4 DEF ItemsInv
<1>6. InFlight' = InFlight
  <2>1. io # NoIO /\ io' # NoIO
    BY <1>1, IdleNoIO
  <2> QED
    BY <1>1, <2>1, InFlightIs DEF InFlightNow
<1>7. CASE phase = "open"
  <2>1. Held' = Held
    BY <1>7, HeldNow DEF HeldIs
  <2> QED
    BY <1>5, <1>6, <2>1 DEF Unseen
<1>8. CASE phase # "open"
  <2>1. Held' # {}
    <3>1. IInv' => HeldSome'
      BY LastReads, PTL
    <3> QED
      BY <3>1 DEF HeldSome
  <2>2. NewImages => Contents(io.tables) \in Held
    <3> SUFFICES ASSUME NewImages PROVE Contents(io.tables) \in Held
      OBVIOUS
    <3> DEFINE n == Last(marker)
    <3>1. n = db.manifestFileNum /\ Image(n, Records(n)) = Before
      BY DEF NewImages, AtRest
    <3>2. io.job = 0
      BY <1>1, <1>8 DEF IInv, IoInv
    <3>3. io.tables = Current(db) /\ io.snapshot.new = Current(db)
      BY <1>1, <3>2 DEF ItemsInv, EditInv
    <3>4. Before.tables = io.tables
      BY <3>3, PairEqual DEF Before
    <3>5. n \in Range(marker) /\ Records(n) \in Lengths(n)
      BY LastReads DEF LastRead
    <3> HIDE DEF n
    <3> QED
      BY <1>8, <3>1, <3>4, <3>5, HeldNow DEF HeldIs
  <2>3. ASSUME NEW c \in Held' PROVE c \in Held
    <3>1. PICK n \in Range(marker') : \E k \in Lengths(n)' : c = Contents(Image(n, k)'.tables)
      BY <1>8, HeldNow DEF HeldIs
    <3>2. PICK k \in Lengths(n)' : c = Contents(Image(n, k)'.tables)
      BY <3>1
    <3>3. CASE OldImage(n, k)
      BY <1>8, <3>2, <3>3, HeldNow DEF HeldIs, OldImage
    <3>4. CASE ~OldImage(n, k)
      BY <2>2, <3>2, <3>4 DEF OldImages, NewImages, NewImage
    <3> QED
      BY <3>3, <3>4
  <2>4. Held' # {} /\ Held' \subseteq Held
    BY <2>1, <2>3
  <2> QED
    BY <1>5, <1>6, <2>4 DEF Store!Reopen, Held
<1> QED
  BY <1>7, <1>8

\* A record more, in the open manifest.
LEMMA WriteRecordImages ==
  ASSUME IInv, IInv', WriteManifest, io.rotate = 0 PROVE NewImages
<1> DEFINE p == io.prev
           e == io.edit
           K == Records(p)
           m == manifests[p]
           r == Append(m.recs, e)
<1>1. /\ io.stage = "write" /\ io' = [io EXCEPT !.stage = "sync"]
      /\ manifests' = [manifests EXCEPT ![p].recs = r]
      /\ UNCHANGED <<marker, phase, db>>
  BY DEF WriteManifest, Stage
<1>2. ~Idle
  BY <1>1 DEF Idle
<1>3. e \in EditType /\ p = db.manifestFileNum /\ p \in DOMAIN manifests /\ Settled
  BY <1>1, <1>2, EditFacts
<1>4. p \in Nat /\ m.recs \in Seq(EditType) /\ K \in Nat /\ K = Len(m.recs)
  BY <1>3, ManifestFacts DEF Records
<1>5. AtRest(Before) /\ marker = <<p>> /\ m.synced = K
  BY <1>1, <1>3 DEF IInv, StageInv, AtRest, Full
<1>6. Range(marker) = {p} /\ Last(marker) = p /\ K >= 1
  <2>1. Range(marker) = {p} /\ Last(marker) = p
    BY <1>5, MarkerOne
  <2> QED
    BY <1>5, <2>1 DEF IInv, MarkerInv
<1>7. m \in Manifest
  <2>1. manifests \in Maps(Manifest)
    BY DEF IInv, TypeOK, DiskType
  <2> QED
    BY <1>3, <2>1, MapFacts
<1>8. /\ r \in Seq(EditType) /\ Len(r) = K + 1 /\ r[K + 1] = e
      /\ \A i \in 1 .. K : r[i] = m.recs[i]
  BY <1>3, <1>4
<1>9. manifests'[p].recs = r /\ manifests'[p].synced = K
  <2>1. manifests'[p] = [m EXCEPT !.recs = r]
    BY <1>1, <1>3
  <2> QED
    BY <1>5, <1>7, <2>1 DEF Manifest
<1>10. io'.tables = io.tables /\ io'.rotate = 0 /\ io'.stage = "sync" /\ io'.prev = p
       /\ After' = After
  BY <1>1, StageFacts
<1>11. \A x, k : x = p /\ k = K + 1 => Image(x, k)' = After
  <2> TAKE x, k
  <2> HAVE x = p /\ k = K + 1
  <2>1. Image(io.prev, Records(io.prev))' = After'
    BY <1>10 DEF IInv, StageInv
  <2>2. Image(io.prev, Records(io.prev))' =
          ReadBack(manifests'[io'.prev].recs, Len(manifests'[io'.prev].recs))
    BY DEF Image, Records, ReadBack, Pair
  <2>3. Image(x, k)' = ReadBack(manifests'[x].recs, k)
    BY ImageRead
  <2> QED
    BY <1>8, <1>9, <1>10, <2>1, <2>2, <2>3
<1>12. After.tables = io.tables
  BY PairEqual DEF After
<1>13. ASSUME NEW n \in Range(marker'), NEW k \in Lengths(n)'
       PROVE  OldImage(n, k) \/ NewImage(n, k)
  <2>1. n = p /\ n \in Range(marker)
    BY <1>1, <1>6
  <2>2. k \in K .. K + 1
    BY <1>8, <1>9, <2>1 DEF Lengths
  <2>3. CASE k = K
    <3>1. k \in Lengths(n)
      BY <1>4, <1>5, <2>1, <2>3 DEF Lengths
    <3>2. r[k] = m.recs[k]
      BY <1>4, <1>6, <1>8, <2>3
    <3>3. NextOf(n, k)' = NextOf(n, k)
      BY <1>9, <2>1, <3>2 DEF NextOf
    <3>4. ReadBack(r, k) = ReadBack(m.recs, k)
      <4> DEFINE q == m.recs
      <4>1. \A i \in 1 .. k : r[i] = q[i]
        BY <1>8, <2>3
      <4>2. k \in Nat
        BY <1>4, <2>3
      <4> HIDE DEF r, q, K
      <4> QED
        BY <4>1, <4>2, ReadBackPrefix DEF q
    <3>5. Image(n, k)' = Image(n, k)
      BY <1>9, <2>1, <3>4, ImageRead
    <3> QED
      BY <2>1, <3>1, <3>3, <3>5 DEF OldImage
  <2>4. CASE k = K + 1
    <3>1. Image(n, k)'.tables = io.tables
      BY <1>11, <1>12, <2>1, <2>4
    <3>2. NextOf(n, k)' = e.next
      BY <1>8, <1>9, <2>1, <2>4 DEF NextOf
    <3> QED
      BY <3>1, <3>2 DEF NewImage
  <2> QED
    BY <1>4, <2>2, <2>3, <2>4
<1>14. LastNext' = e.next
  <2>1. Last(r) = e
    BY <1>4, <1>8 DEF Last
  <2>2. Last(marker') = p
    BY <1>1, <1>6
  <2> QED
    BY <1>9, <2>1, <2>2 DEF LastNext
<1> QED
  BY <1>5, <1>13, <1>14 DEF NewImages

\* A new manifest is not yet the one to open.
LEMMA WriteNewImages ==
  ASSUME IInv, WriteManifest, io.rotate # 0 PROVE OldImages
<1> DEFINE n == io.rotate
           m == [recs |-> <<io.snapshot, io.edit>>, synced |-> 0]
<1>1. io.stage = "write" /\ manifests' = With(manifests, n, m) /\ marker' = marker
  BY DEF WriteManifest, Stage
<1>2. n \notin DOMAIN manifests
  BY <1>1 DEF IInv, StageInv
<1>3. \A x \in DOMAIN manifests : manifests'[x] = manifests[x]
  BY <1>1, <1>2 DEF With
<1>4. Range(marker) \subseteq DOMAIN manifests /\ Last(marker) \in DOMAIN manifests
  BY ManifestFacts, LastReads DEF LastRead
<1> HIDE DEF n, m
<1>5. \A x \in DOMAIN manifests :
        /\ Lengths(x)' = Lengths(x)
        /\ \A k : Image(x, k)' = Image(x, k) /\ NextOf(x, k)' = NextOf(x, k)
  BY <1>3, ImageRead DEF Lengths, NextOf
<1>6. LastNext' = LastNext
  BY <1>1, <1>3, <1>4 DEF LastNext
<1> QED
  BY <1>1, <1>4, <1>5, <1>6 DEF OldImages, OldImage

LEMMA SyncManifestImages ==
  ASSUME IInv, IInv', SyncManifest PROVE OldImages
<1> DEFINE w == Writing
           m == manifests[w]
<1>1. /\ io.stage = "sync" /\ marker' = marker
      /\ manifests' = [manifests EXCEPT ![w].synced = Len(m.recs)]
  BY DEF SyncManifest, Stage
<1>2. /\ Range(marker) \subseteq DOMAIN manifests /\ Last(marker) \in DOMAIN manifests
      /\ \A x \in DOMAIN manifests :
           manifests[x].synced \in Nat /\ Len(manifests[x].recs) \in Nat
             /\ manifests[x].synced <= Len(manifests[x].recs)
  BY ManifestFacts, LastReads DEF LastRead, Records
<1>3. manifests \in Maps(Manifest) /\ \A x \in DOMAIN manifests : manifests[x] \in Manifest
  <2>1. manifests \in Maps(Manifest)
    BY DEF IInv, TypeOK, DiskType
  <2> QED
    BY <2>1, MapFacts
<1>4. \A x \in DOMAIN manifests :
        /\ manifests'[x].recs = manifests[x].recs
        /\ manifests'[x].synced = IF x = w THEN Len(m.recs) ELSE manifests[x].synced
  <2> TAKE x \in DOMAIN manifests
  <2>1. manifests'[x] = IF x = w THEN [manifests[x] EXCEPT !.synced = Len(m.recs)]
                        ELSE manifests[x]
    BY <1>1
  <2>2. manifests[x] \in Manifest
    BY <1>3
  <2> QED
    BY <2>1, <2>2 DEF Manifest
<1>5. \A x \in DOMAIN manifests : \A k \in Lengths(x)' : k \in Lengths(x)
  <2> TAKE x \in DOMAIN manifests
  <2>1. /\ Lengths(x)' = manifests'[x].synced .. Len(manifests[x].recs)
        /\ manifests[x].synced <= manifests'[x].synced
        /\ manifests'[x].synced \in Nat
    BY <1>2, <1>4 DEF Lengths
  <2> QED
    BY <1>2, <2>1 DEF Lengths
<1> HIDE DEF w, m
<1>6. \A x \in DOMAIN manifests :
        \A k : Image(x, k)' = Image(x, k) /\ NextOf(x, k)' = NextOf(x, k)
  BY <1>4, ImageRead DEF NextOf
<1>7. LastNext' = LastNext
  BY <1>1, <1>2, <1>4 DEF LastNext
<1> QED
  BY <1>1, <1>2, <1>5, <1>6, <1>7 DEF OldImages, OldImage

\* The marker names the new manifest too.
LEMMA MoveMarkerImages ==
  ASSUME IInv, IInv', MoveMarker PROVE NewImages
<1> DEFINE n == io.rotate
<1>1. io.stage = "move" /\ manifests' = manifests /\ marker' = Append(marker, n)
  BY DEF MoveMarker, Stage
<1>2. ~Idle
  BY <1>1 DEF Idle
<1>3. EditInv /\ n \in Nat
  BY <1>2, EditFacts
<1>4. AtRest(Before) /\ NewManifest(2)
  BY <1>1 DEF IInv, StageInv
<1>5. /\ n \in DOMAIN manifests /\ manifests[n].synced = 2
      /\ manifests[n].recs = <<io.snapshot, io.edit>>
      /\ Records(n) = 2 /\ Image(n, 2) = After
  <2>1. NewManifest(2) => Records(io.rotate) = 2 /\ Image(io.rotate, 2) = After
    BY <1>3, NewManifestRead
  <2> QED
    BY <1>4, <2>1 DEF NewManifest
<1>6. marker \in Seq(Nat) /\ marker # << >>
  BY ManifestFacts
<1>7. Last(marker') = n /\ Range(marker') \subseteq Range(marker) \cup {n}
  <2>1. /\ marker' \in Seq(Nat) /\ Len(marker') = Len(marker) + 1 /\ marker'[Len(marker) + 1] = n
        /\ \A i \in 1 .. Len(marker) : marker'[i] = marker[i]
    BY <1>1, <1>3, <1>6
  <2>2. Len(marker) \in Nat /\ DOMAIN marker = 1 .. Len(marker) /\ DOMAIN marker' = 1 .. Len(marker')
    BY <1>6, <2>1
  <2>3. \A i \in DOMAIN marker' : i \in DOMAIN marker \/ i = Len(marker) + 1
    BY <2>1, <2>2
  <2>4. Range(marker') \subseteq Range(marker) \cup {n}
    BY <2>1, <2>2, <2>3 DEF Range
  <2> QED
    BY <2>1, <2>4 DEF Last
<1> HIDE DEF n
<1>8. \A x, k : /\ Image(x, k)' = Image(x, k) /\ NextOf(x, k)' = NextOf(x, k)
                /\ Lengths(x)' = Lengths(x)
  BY <1>1, ImageRead DEF NextOf, Lengths
<1>9. Lengths(n) = {2} /\ NextOf(n, 2) = io.edit.next /\ Image(n, 2).tables = io.tables
  <2>1. Lengths(n) = 2 .. 2
    BY <1>5 DEF Lengths, Records
  <2>2. Image(n, 2).tables = io.tables
    BY <1>5, PairEqual DEF After
  <2> QED
    BY <1>5, <2>1, <2>2 DEF NextOf
<1>10. ASSUME NEW x \in Range(marker'), NEW k \in Lengths(x)'
       PROVE  OldImage(x, k) \/ NewImage(x, k)
  <2>1. CASE x = n
    <3>1. k = 2
      BY <1>8, <1>9, <2>1
    <3> QED
      BY <1>8, <1>9, <2>1, <3>1 DEF NewImage
  <2>2. CASE x \in Range(marker)
    BY <1>8, <2>2 DEF OldImage
  <2> QED
    BY <1>7, <2>1, <2>2
<1>11. LastNext' = io.edit.next
  <2>1. Last(<<io.snapshot, io.edit>>) = io.edit
    BY MarkerOne
  <2> QED
    BY <1>1, <1>5, <1>7, <2>1 DEF LastNext
<1> QED
  BY <1>4, <1>10, <1>11 DEF NewImages

LEMMA SyncDirImages ==
  ASSUME IInv, SyncDir PROVE OldImages
<1>1. manifests' = manifests /\ marker' = <<Last(marker)>>
  BY DEF SyncDir
<1>2. Range(marker') = {Last(marker)} /\ Last(marker') = Last(marker)
  BY <1>1, MarkerOne
<1>3. Last(marker) \in Range(marker)
  BY LastReads DEF LastRead
<1>4. \A x, k : /\ Image(x, k)' = Image(x, k) /\ NextOf(x, k)' = NextOf(x, k)
                /\ Lengths(x)' = Lengths(x)
  BY <1>1, ImageRead DEF NextOf, Lengths
<1>5. LastNext' = LastNext
  BY <1>1, <1>2 DEF LastNext
<1> QED
  BY <1>2, <1>3, <1>4, <1>5 DEF OldImages, OldImage

LEMMA WriterNextItems ==
  ASSUME IInv, IInv', ItemsInv, WriterNext
  PROVE  ItemsInv' /\ (Unseen \/ Store!Next)
<1>1. ASSUME WriteManifest \/ SyncManifest \/ MoveMarker \/ SyncDir
      PROVE  ItemsInv' /\ (Unseen \/ Store!Reopen)
  <2>1. OldImages \/ NewImages
    BY <1>1, WriteRecordImages, WriteNewImages, SyncManifestImages, MoveMarkerImages,
       SyncDirImages
  <2>2. ~Idle
    BY <1>1 DEF WriteManifest, SyncManifest, MoveMarker, SyncDir, Stage, Idle
  <2>3. UNCHANGED <<phase, db, jobs, brought>>
    BY <1>1 DEF WriteManifest, SyncManifest, MoveMarker, SyncDir
  <2>4. \E s : s # "none" /\ io' = [io EXCEPT !.stage = s]
    BY <1>1 DEF WriteManifest, SyncManifest, MoveMarker, SyncDir, Stage
  <2>5. PICK s : s # "none" /\ io' = [io EXCEPT !.stage = s]
    BY <2>4
  <2> QED
    BY <2>1, <2>2, <2>3, <2>5, WriterItems
<1>2. CASE Install
  BY <1>2, InstallApplies DEF Store!Next
<1> QED
  BY <1>1, <1>2 DEF WriterNext, Store!Next

(***************************************************************************)
(* The steps of Open, and the deletion of files.                           *)
(***************************************************************************)
\* A step that changes nothing of what Open may find.
LEMMA KeptImages ==
  ASSUME IInv, IInv', ItemsInv, Up, Up', UNCHANGED <<io, jobs, brought>>,
         Current(db') = Current(db), Target' = Target, Idle' = Idle,
         db'.nextFileNum >= db.nextFileNum, OldImages, Held' = Held
  PROVE  ItemsInv' /\ Unseen
<1>1. /\ \A n \in Range(marker') : \A k \in Lengths(n)' : OldImage(n, k)
      /\ LastNext' = LastNext
  BY DEF OldImages
<1>2. ASSUME NEW n \in Range(marker'), NEW k \in Lengths(n)' PROVE ImageItems(n, k)'
  <2>1. OldImage(n, k)
    BY <1>1
  <2>2. ImageItems(n, k)
    BY <2>1 DEF ItemsInv, OldImage
  <2> QED
    BY <1>1, <2>1, <2>2 DEF ImageItems, OldImage, NextOf
<1>3. Below(brought', db'.nextFileNum)
  <2>1. Below(brought, db.nextFileNum) /\ \A m \in brought : m \in Nat
    BY DEF ItemsInv
  <2>2. (db.nextFileNum \in Nat)'
    BY NextNumber, PTL
  <2> QED
    BY <2>1, <2>2, IInvFacts DEF Below
<1>4. ItemsInv'
  <2>1. \A j \in DOMAIN jobs' : JobItems(jobs'[j], brought')
    BY DEF ItemsInv
  <2> QED
    BY <1>2, <1>3, <2>1 DEF ItemsInv
<1>5. InFlight' = InFlight
  BY InFlightIs DEF InFlightNow
<1> QED
  BY <1>4, <1>5 DEF Unseen

LEMMA OldSame ==
  ASSUME IInv, UNCHANGED <<manifests, marker>>
  PROVE  OldImages /\ (phase # "open" /\ phase' # "open" => Held' = Held)
<1>1. /\ Images' = Images /\ LastNext' = LastNext
      /\ \A n, k : Image(n, k)' = Image(n, k) /\ Lengths(n)' = Lengths(n)
  BY SameImages
<1>2. OldImages
  BY <1>1 DEF OldImages, OldImage, NextOf
<1> QED
  BY <1>1, <1>2 DEF Held

LEMMA OpenCreateLogItems ==
  ASSUME IInv, IInv', ItemsInv, OpenCreateLog PROVE ItemsInv' /\ Unseen
<1>1. /\ phase \in {"flushed", "loaded"} /\ phase' = "created"
      /\ db' = UpdateReadState(db) /\ UNCHANGED <<manifests, marker, io, jobs, brought>>
  BY DEF OpenCreateLog
<1>2. Up /\ Up' /\ phase # "open" /\ phase' # "open"
  BY DEF OpenCreateLog, Up
<1>3. Current(db') = Current(db) /\ Target' = Target /\ Idle' = Idle
  BY <1>1, <1>2, SameCurrent
<1>4. db'.nextFileNum >= db.nextFileNum
  BY <1>1, ReadStateNext, DBNext
<1> QED
  BY <1>1, <1>2, <1>3, <1>4, OldSame, KeptImages

\* What the store may hold is now the one version that Open settled on.
LEMMA OpenScanItems ==
  ASSUME IInv, IInv', ItemsInv, OpenScan PROVE ItemsInv' /\ Unseen
<1> DEFINE O == db.obsolete \cup (files \ (Backings(Current(db)) \cup DOMAIN db.backings))
           M == db.obsoleteManifests \cup {x \in DOMAIN manifests : x < db.manifestFileNum}
           d == SetObsolete(db, O, M)
<1>1. /\ phase = "created" /\ phase' = "open" /\ marker' = <<Last(marker)>>
      /\ db' = DeleteObsoleteFiles(d) /\ UNCHANGED <<manifests, io, jobs, brought>>
  BY DEF OpenScan, SetObsolete
<1> HIDE DEF O, M
<1>2. Up /\ Up' /\ Settled /\ Idle
  BY <1>1 DEF Up, Settled, IInv, IoInv, Idle
<1>3. AtRest(Pair(Current(db), DOMAIN db.backings))
  BY <1>2 DEF IInv, StageInv
<1> DEFINE n == db.manifestFileNum
<1>4. marker = <<n>> /\ Full(n) /\ Image(n, Records(n)) = Pair(Current(db), DOMAIN db.backings)
  BY <1>2, <1>3 DEF AtRest
<1>5. marker' = marker /\ Range(marker) = {n} /\ n \in DOMAIN manifests
  <2>1. Last(marker) = n /\ Range(marker) = {n}
    BY <1>4, MarkerOne
  <2> QED
    BY <1>1, <1>4, <2>1, ManifestFacts
<1>6. Current(db') = Current(db) /\ Target' = Target /\ Idle' = Idle
  BY <1>1, <1>2, <1>5, SameCurrent
<1>7. db'.nextFileNum >= db.nextFileNum
  <2>1. SameNext(db, d)
    BY DEF SameNext, SetObsolete
  <2> HIDE DEF d
  <2>2. SameNext(d, db')
    BY <1>1, NextNotTaken
  <2> QED
    BY <2>1, <2>2, SameNextChain, DBNext
<1>8. Held = {Contents(Current(db))}
  <2>1. Lengths(n) = {Records(n)}
    BY <1>4, <1>5, ManifestFacts
  <2>2. Image(n, Records(n)).tables = Current(db)
    BY <1>4, PairEqual
  <2> HIDE DEF n
  <2>3. \A c : c \in Held <=> c = Contents(Current(db))
    BY <1>1, <1>5, <2>1, <2>2, HeldNow DEF HeldIs
  <2> QED
    BY <2>3
<1>9. Held' = {Contents(Current(db'))}
  BY <1>1, HeldNow DEF HeldIs
<1> QED
  BY <1>1, <1>2, <1>5, <1>6, <1>7, <1>8, <1>9, OldSame, KeptImages

\* The files that are deleted are none that Open may read.
LEMMA CleanupFileItems ==
  ASSUME IInv, IInv', ItemsInv, CleanupFile PROVE ItemsInv' /\ Unseen
<1> DEFINE job  == Head(cleanup)
           T    == IF job.tables = {} THEN {} ELSE {Min(job.tables)}
           M    == IF T # {} THEN {} ELSE {Min(job.manifests)}
<1>1. /\ cleanup # << >> /\ manifests' = Without(manifests, M)
      /\ UNCHANGED <<marker, phase, db, io, jobs, brought>>
  BY DEF CleanupFile
<1>2. M \subseteq job.manifests /\ job \in Range(cleanup)
  BY <1>1, CleanupParts, Zenon
<1>3. Up /\ Settled /\ Up'
  BY <1>1, CleanupPhase DEF Up
<1> HIDE DEF M, T, job
<1>4. \A n \in M : n \in Nat /\ n < db.manifestFileNum
  <2>1. M \subseteq CleanupManifests
    BY <1>2 DEF CleanupManifests
  <2>2. cleanup \in Seq(CleanupJob)
    BY DEF IInv, TypeOK
  <2>3. job \in CleanupJob
    BY <1>2, <2>2 DEF Range
  <2>4. \A n \in M : n \in Nat
    BY <1>2, <2>3 DEF CleanupJob
  <2> QED
    BY <1>3, <2>1, <2>4 DEF IInv, MarkerInv
<1>5. \A n \in Range(marker) : n \in DOMAIN manifests /\ n \notin M
  <2>1. \A n \in Range(marker) : n \in Nat /\ n >= db.manifestFileNum
    BY <1>3, ManifestsInUse
  <2>2. db.manifestFileNum \in Nat
    BY <1>3, ManifestsInUse
  <2>3. \A n \in Range(marker) : n \in DOMAIN manifests
    BY ManifestFacts
  <2> QED
    BY <1>4, <2>1, <2>2, <2>3
<1>6. \A n \in Range(marker) : manifests'[n] = manifests[n]
  BY <1>1, <1>5 DEF Without
<1>7. \A n \in Range(marker) :
        /\ Lengths(n)' = Lengths(n)
        /\ \A k : Image(n, k)' = Image(n, k) /\ NextOf(n, k)' = NextOf(n, k)
  BY <1>6, ImageRead DEF Lengths, NextOf
<1>8. OldImages
  <2>1. Last(marker) \in Range(marker)
    BY LastReads DEF LastRead
  <2>2. LastNext' = LastNext
    BY <1>1, <1>6, <2>1 DEF LastNext
  <2> QED
    BY <1>1, <1>7, <2>2 DEF OldImages, OldImage
<1>9. Held' = Held
  <2>1. CASE phase = "open"
    BY <1>1, <2>1, HeldNow DEF HeldIs
  <2>2. CASE phase # "open"
    <3>1. \A c : c \in Held' <=> c \in Held
      BY <1>1, <1>7, <2>2, HeldNow DEF HeldIs
    <3>2. Held' \subseteq Held /\ Held \subseteq Held'
      BY <3>1
    <3> QED
      BY <3>2
  <2> QED
    BY <2>1, <2>2
<1>10. Idle' = Idle /\ Current(db') = Current(db) /\ Target' = Target
  BY <1>1 DEF Idle, Current, Target
<1>11. db'.nextFileNum >= db.nextFileNum
  BY <1>1, NextNumber
<1> QED
  BY <1>1, <1>3, <1>8, <1>9, <1>10, <1>11, KeptImages

LEMMA LoadItems ==
  ASSUME IInv, IInv', ItemsInv, Load PROVE ItemsInv' /\ Unseen
<1> DEFINE n == Last(marker)
           k == Records(n)
           T == Image(n, k).tables
           l == Last(manifests[n].recs).next
           F == {f + 1 : f \in files \cup DOMAIN manifests}
           next == Max({l} \cup F)
<1>1. /\ phase = "down" /\ phase' = "loaded" /\ db' = NewDB(T, Image(n, k).backings, n, next)
      /\ UNCHANGED <<manifests, marker, io, jobs, brought>>
  BY DEF Load, Records, disk
<1>2. Idle /\ Idle' /\ ~Up /\ Up' /\ io = NoIO
  BY <1>1 DEF IInv, PhaseInv, IoInv, Idle, Up
<1>3. n \in Range(marker) /\ n \in DOMAIN manifests /\ k \in Lengths(n)
  BY LastReads DEF LastRead
<1>4. Current(db') = T /\ db'.nextFileNum = next /\ Target' = T
  <2>1. \A b : Current(NewDB(T, b, n, next)) = T /\ NewDB(T, b, n, next).nextFileNum = next
    BY NewDBFields, NewDBNumbers
  <2>2. Current(db') = T /\ db'.nextFileNum = next
    BY <1>1, <2>1
  <2> QED
    BY <1>2, <2>2 DEF Target
<1>5. l \in Nat /\ F \subseteq Nat /\ IsFiniteSet(F)
  <2>1. manifests[n].recs \in Seq(EditType) /\ k \in Nat /\ k = Len(manifests[n].recs)
    BY <1>3, ManifestFacts DEF Records
  <2>2. k >= 1
    <3>1. manifests[n].synced >= 1 /\ manifests[n].synced \in Nat
      BY <1>3, ManifestFacts DEF IInv, MarkerInv
    <3> QED
      BY <1>3, <3>1, <2>1 DEF Lengths
  <2>3. l \in Nat
    <3>1. manifests[n].recs[k] \in EditType
      BY <2>1, <2>2
    <3> QED
      BY <2>1, <3>1 DEF Last, EditType
  <2> DEFINE G == files \cup DOMAIN manifests
             g == [f \in G |-> f + 1]
  <2>4. IsFiniteSet(files) /\ IsFiniteSet(DOMAIN manifests) /\ files \subseteq Nat
    BY DEF IInv, TypeOK, DiskType
  <2>5. G \subseteq Nat
    BY <2>4, ManifestFacts
  <2>6. IsFiniteSet(G) /\ DOMAIN g = G /\ F = {g[f] : f \in G}
    BY <2>4, FS_Union
  <2>7. F \subseteq Nat
    BY <2>5
  <2> HIDE DEF g, G, F
  <2>8. IsFiniteSet(F)
    BY <2>6, ImageFinite
  <2> QED
    BY <2>3, <2>7, <2>8
<1>6. next \in Nat /\ l <= next
  <2> DEFINE S == {l} \cup F
  <2>1. S \subseteq Nat /\ S # {} /\ l \in S
    BY <1>5
  <2>2. IsFiniteSet(S)
    BY <1>5, FS_Union, FS_Singleton
  <2> HIDE DEF S
  <2>3. Max(S) \in S /\ \A x \in S : x <= Max(S)
    BY <2>1, <2>2, MaxFacts
  <2> QED
    BY <2>1, <2>3 DEF S
<1>7. LastNext = l
  BY DEF LastNext
<1> HIDE DEF F, next, k, l
<1>8. Below(brought, LastNext) /\ ImageItems(n, k) /\ brought \subseteq Nat
  BY <1>2, <1>3 DEF ItemsInv
<1>9. NumbersOf(Contents(T)) \subseteq brought /\ Below(brought, next)
  <2>1. \A m \in brought : m \in Nat /\ m < l
    BY <1>7, <1>8 DEF Below
  <2> QED
    BY <1>5, <1>6, <1>8, <2>1 DEF ImageItems, Below
<1> HIDE DEF T, n
<1>10. OldImages /\ Held' = Held
  BY <1>1, OldSame
<1>11. ItemsInv'
  <2>1. \A j \in DOMAIN jobs' : JobItems(jobs'[j], brought')
    BY <1>1 DEF ItemsInv
  <2>2. \A x, i : ImageItems(x, i)' = ImageItems(x, i) /\ Lengths(x)' = Lengths(x)
    BY <1>1, SameImages
  <2> QED
    BY <1>1, <1>2, <1>4, <1>8, <1>9, <2>1, <2>2 DEF ItemsInv
<1>12. InFlight' = InFlight
  BY <1>1, <1>2, InFlightIs DEF InFlightNow
<1> QED
  BY <1>1, <1>10, <1>11, <1>12 DEF Unseen

(***************************************************************************)
(* Crashes, and the whole.                                                 *)
(***************************************************************************)
\* What the machine leaves: one manifest, with one of its lengths.
LostImages(n, k) ==
  /\ Range(marker') = {n} /\ Lengths(n)' = {k} /\ OldImage(n, k)
  /\ LastNext' = NextOf(n, k)

LEMMA CrashImages ==
  ASSUME IInv, Crash
  PROVE  OldImages \/ \E n, k : LostImages(n, k)
<1>1. CASE UNCHANGED <<files, synced, manifests, marker>>
  BY <1>1, OldSame
<1>2. ASSUME NEW n \in Range(marker), NEW k \in Lengths(n), marker' = <<n>>,
             manifests' = [manifests EXCEPT
               ![n] = [recs |-> SubSeq(manifests[n].recs, 1, k), synced |-> k]]
      PROVE  LostImages(n, k)
  <2>1. /\ n \in DOMAIN manifests /\ manifests[n].recs \in Seq(EditType)
        /\ manifests[n].synced \in Nat /\ Records(n) \in Nat
    BY ManifestFacts
  <2>2. k \in Nat /\ k >= 1 /\ k <= Len(manifests[n].recs)
    <3>1. manifests[n].synced >= 1
      BY DEF IInv, MarkerInv
    <3> QED
      BY <2>1, <3>1 DEF Lengths, Records
  <2> DEFINE q == SubSeq(manifests[n].recs, 1, k)
             x == [recs |-> q, synced |-> k]
  <2>3. /\ q \in Seq(EditType) /\ Len(q) = k
        /\ \A i \in 1 .. k : q[i] = manifests[n].recs[i]
    BY <2>1, <2>2
  <2>4. manifests'[n] = x /\ x.recs = q /\ x.synced = k
    BY <1>2, <2>1
  <2> HIDE DEF q, x
  <2>5. Lengths(n)' = {k}
    <3>1. Lengths(n)' = k .. k
      BY <2>3, <2>4 DEF Lengths
    <3> QED
      BY <2>2, <3>1
  <2>6. Image(n, k)' = Image(n, k)
    <3>1. /\ Image(n, k) = ReadBack(manifests[n].recs, k)
          /\ Image(n, k)' = ReadBack(manifests'[n].recs, k)
      BY ImageRead
    <3> QED
      BY <2>2, <2>3, <2>4, <3>1, ReadBackPrefix
  <2>7. NextOf(n, k)' = NextOf(n, k)
    BY <2>2, <2>3, <2>4 DEF NextOf
  <2>8. Range(marker') = {n} /\ Last(marker') = n
    BY <1>2, MarkerOne
  <2>9. LastNext' = NextOf(n, k)
    <3>1. Last(q) = q[k]
      BY <2>3 DEF Last
    <3> QED
      BY <2>2, <2>3, <2>4, <2>8, <3>1 DEF LastNext, NextOf
  <2> QED
    BY <2>5, <2>6, <2>7, <2>8, <2>9 DEF LostImages, OldImage
<1>3. \/ UNCHANGED <<files, synced, manifests, marker>>
      \/ \E n \in Range(marker) : \E k \in Lengths(n) :
           /\ marker' = <<n>>
           /\ manifests' = [manifests EXCEPT
                ![n] = [recs |-> SubSeq(manifests[n].recs, 1, k), synced |-> k]]
  BY DEF Crash
<1> QED
  BY <1>1, <1>2, <1>3

LEMMA CrashItems ==
  ASSUME IInv, IInv', ItemsInv, Crash PROVE ItemsInv' /\ Store!Crash
<1>1. /\ phase' = "down" /\ io' = NoIO /\ jobs' = [j \in DOMAIN jobs |-> Done]
      /\ brought' = {x[2] : x \in UNION {Contents(i.tables) : i \in Images'}}
  BY DEF Crash
<1>2. ~Up' /\ Idle' /\ phase' # "open"
  BY <1>1 DEF Up, Idle, NoIO
<1>3. \A n \in Range(marker') : \A k \in Lengths(n)' : OldImage(n, k)
  <2>1. CASE OldImages
    BY <2>1 DEF OldImages
  <2>2. ASSUME NEW m, NEW l, LostImages(m, l)
        PROVE  \A n \in Range(marker') : \A k \in Lengths(n)' : OldImage(n, k)
    BY <2>2 DEF LostImages
  <2> QED
    BY <2>1, <2>2, CrashImages
<1>4. \A m : m \in brought' <=>
        \E n \in Range(marker') : \E k \in Lengths(n)' : m \in NumbersOf(Contents(Image(n, k)'.tables))
  <2>1. brought' = NumbersOf((UNION Held'))
    <3>1. Held' = {Contents(i.tables) : i \in Images'}
      BY <1>2 DEF Held
    <3> QED
      BY <1>1, <3>1 DEF NumbersOf
  <2>2. \A x : x \in (UNION Held') <=>
          \E n \in Range(marker') : \E k \in Lengths(n)' : x \in Contents(Image(n, k)'.tables)
    <3>1. \A c : c \in Held' <=> \E n \in Range(marker') : \E k \in Lengths(n)' :
                                   c = Contents(Image(n, k)'.tables)
      BY <1>2, HeldNow DEF HeldIs
    <3> QED
      BY <3>1
  <2> QED
    BY <2>1, <2>2, ItemMembers
<1>5. ASSUME NEW n \in Range(marker'), NEW k \in Lengths(n)'
      PROVE  LET N == NumbersOf(Contents(Image(n, k)'.tables))
             IN  /\ N \subseteq brought' /\ N \subseteq brought
                 /\ Below(N, NextOf(n, k)') /\ Below(N, LastNext')
  <2> DEFINE N == NumbersOf(Contents(Image(n, k)'.tables))
  <2>1. OldImage(n, k)
    BY <1>3
  <2>2. N \subseteq brought /\ Below(N, NextOf(n, k)') /\ Below(N, LastNext)
    BY <2>1 DEF ItemsInv, ImageItems, OldImage, NextOf
  <2>3. N \subseteq brought'
    BY <1>4
  <2>4. Below(N, LastNext')
    <3>1. CASE OldImages
      BY <2>2, <3>1 DEF OldImages
    <3>2. ASSUME NEW m, NEW l, LostImages(m, l) PROVE Below(N, LastNext')
      <4>1. n = m /\ k = l
        BY <3>2 DEF LostImages
      <4> QED
        BY <2>1, <2>2, <3>2, <4>1 DEF LostImages, OldImage
    <3> QED
      BY <3>1, <3>2, CrashImages
  <2> QED
    BY <2>2, <2>3, <2>4
<1>6. brought' \subseteq Nat /\ Below(brought', LastNext')
  <2>1. ASSUME NEW m \in brought' PROVE m \in Nat /\ m < LastNext'
    <3>1. PICK n \in Range(marker') : \E k \in Lengths(n)' : m \in NumbersOf(Contents(Image(n, k)'.tables))
      BY <1>4
    <3>2. PICK k \in Lengths(n)' : m \in NumbersOf(Contents(Image(n, k)'.tables))
      BY <3>1
    <3> QED
      BY <1>5, <3>2 DEF Below, ItemsInv
  <2> QED
    BY <2>1 DEF Below
<1>7. ItemsInv'
  <2>1. \A j \in DOMAIN jobs' : JobItems(jobs'[j], brought')
    <3>1. \A j \in DOMAIN jobs' : jobs'[j] = Done
      BY <1>1
    <3> HIDE DEF Done
    <3> QED
      BY <3>1, DoneItems
  <2>2. \A n \in Range(marker') : \A k \in Lengths(n)' : ImageItems(n, k)'
    BY <1>5 DEF ImageItems, NextOf
  <2> QED
    BY <1>2, <1>6, <2>1, <2>2 DEF ItemsInv
<1>8. Held' # {}
  <2>1. IInv' => HeldSome'
    BY LastReads, PTL
  <2> QED
    BY <2>1 DEF HeldSome
<1>9. ASSUME NEW c \in Held'
      PROVE  c \in Held \/ \E b \in Held : c = Store!Effect(b, InFlight)
  <2>1. PICK n \in Range(marker') : \E k \in Lengths(n)' : c = Contents(Image(n, k)'.tables)
    BY <1>2, HeldNow DEF HeldIs
  <2>2. PICK k \in Lengths(n)' : c = Contents(Image(n, k)'.tables)
    BY <2>1
  <2>3. n \in Range(marker) /\ k \in Lengths(n) /\ c = Contents(Image(n, k).tables)
    BY <1>3, <2>2 DEF OldImage
  <2>4. CASE phase # "open"
    BY <2>3, <2>4, HeldNow DEF HeldIs
  <2>5. CASE phase = "open"
    <3>1. Held = {Contents(Current(db))} /\ Up /\ Settled
      BY <2>5, HeldNow DEF HeldIs, Up, Settled
    <3>2. IF Idle THEN Image(n, k) = Pair(Current(db), DOMAIN db.backings)
          ELSE Image(n, k) \in {Before, After}
      BY <2>3, <3>1, ImagesNow
    <3>3. CASE Idle
      BY <2>3, <3>1, <3>2, <3>3, PairEqual
    <3>4. CASE ~Idle
      <4>1. Before.tables = Current(db) /\ After.tables = io.tables
        BY <3>4, EditFacts, PairEqual DEF Before, After, EditInv
      <4>2. io # NoIO
        BY <3>4, IdleNoIO
      <4> DEFINE kind == IF io.job = 0 THEN "rewrite" ELSE KindOf(jobs[io.job].kind)
      <4>3. InFlight = Change(kind, Contents(Current(db)), Contents(io.tables))
        BY <4>2, InFlightFacts
      <4> HIDE DEF kind
      <4>4. Store!Effect(Contents(Current(db)), InFlight) = Contents(io.tables)
        BY <4>3, EffectFacts
      <4> QED
        BY <2>3, <3>1, <3>2, <3>4, <4>1, <4>4
    <3> QED
      BY <3>3, <3>4
  <2> QED
    BY <2>4, <2>5
<1>10. InFlight' = Store!None
  <2>1. InFlight' = Nothing
    BY <1>1, InFlightIs DEF InFlightNow
  <2> QED
    BY <2>1 DEF Store!None, Nothing
<1>11. brought' = {x[2] : x \in UNION Held'}
  <2>1. Held' = {Contents(i.tables) : i \in Images'}
    BY <1>2 DEF Held
  <2> QED
    BY <1>1, <2>1
<1>12. Held' \subseteq Held \cup {Store!Effect(b, InFlight) : b \in Held}
  BY <1>9
<1> QED
  BY <1>7, <1>8, <1>10, <1>11, <1>12 DEF Store!Crash, Held

LEMMA StutterItems ==
  ASSUME IInv, ItemsInv, UNCHANGED vars PROVE ItemsInv' /\ Unseen
<1>1. UNCHANGED <<manifests, marker, phase, db, io, jobs, brought>>
  BY DEF vars, disk
<1>2. /\ Images' = Images /\ LastNext' = LastNext
      /\ \A n, k : Image(n, k)' = Image(n, k) /\ Lengths(n)' = Lengths(n)
      /\ \A n, k : ImageItems(n, k)' = ImageItems(n, k)
  BY <1>1, SameImages
<1>3. Idle' = Idle /\ Up' = Up /\ Target' = Target /\ Current(db') = Current(db)
  BY <1>1 DEF Idle, Up, Target
<1>4. ItemsInv'
  BY <1>1, <1>2, <1>3 DEF ItemsInv
<1>5. Held' = Held /\ InFlight' = InFlight
  BY <1>1, <1>2, InFlightIs DEF Held, InFlightNow
<1> QED
  BY <1>1, <1>4, <1>5 DEF Unseen

LEMMA FirstItems ==
  LET N == NumbersOf(Contents(FirstTables))
  IN  N = {2, 3} /\ N \subseteq Nat /\ Below(N, 4)
<1> DEFINE t == Physical(2, 1, {1, 3})
           u == Table(3, 3, TRUE, 0, {<<2, 3>>})
<1>1. t.items = {1, 3} \X {2} /\ u.items = {<<2, 3>>} /\ FirstTables = {t, u}
  BY DEF Physical, Table, FirstTables
<1> HIDE DEF t, u
<1>2. Contents(FirstTables) = ({1, 3} \X {2}) \cup {<<2, 3>>}
  <2>1. \A x : x \in Contents(FirstTables) <=> x \in t.items \/ x \in u.items
    BY <1>1, ItemMembers
  <2> QED
    BY <1>1, <2>1
<1>3. \A x \in {1, 3} \X {2} : x[2] = 2
  OBVIOUS
<1>4. <<1, 2>> \in {1, 3} \X {2} /\ <<1, 2>>[2] = 2 /\ <<2, 3>>[2] = 3
  OBVIOUS
<1>5. \A m : m \in NumbersOf(Contents(FirstTables)) <=> m = 2 \/ m = 3
  <2>1. \A y \in Contents(FirstTables) : y[2] = 2 \/ y[2] = 3
    BY <1>2, <1>3, <1>4
  <2>2. <<1, 2>> \in Contents(FirstTables) /\ <<2, 3>> \in Contents(FirstTables)
    BY <1>2, <1>4
  <2>3. \E y \in Contents(FirstTables) : 2 = y[2]
    BY <1>4, <2>2
  <2>4. \E y \in Contents(FirstTables) : 3 = y[2]
    BY <1>4, <2>2
  <2>5. \A m : m \in NumbersOf(Contents(FirstTables)) <=>
                \E y \in Contents(FirstTables) : m = y[2]
    BY ItemMembers
  <2> QED
    BY <2>1, <2>3, <2>4, <2>5
<1>6. NumbersOf(Contents(FirstTables)) = {2, 3}
  BY <1>5
<1> QED
  BY <1>6 DEF Below

LEMMA SameCardinality == \A S : Store!Cardinality(S) = Cardinality(S)
BY Zenon DEF Store!Cardinality, Cardinality

LEMMA InitItems == Init => ItemsInv /\ Store!Init
<1> SUFFICES ASSUME Init PROVE ItemsInv /\ Store!Init
  OBVIOUS
<1> DEFINE T == FirstTables
           x == [recs |-> <<FirstEdit>>, synced |-> 1]
<1>1. /\ manifests = [n \in {1} |-> x] /\ marker = <<1>>
      /\ phase = "open" /\ db = UpdateReadState(FirstDB) /\ io = NoIO /\ jobs = << >>
      /\ brought = {2, 3}
  BY DEF Init, FirstTables, FirstDB, FirstEdit
<1>2. IInv
  BY InitInv
<1>3. FirstEdit.new = T /\ FirstEdit.created = {3} /\ FirstEdit.next = 4
  BY DEF FirstEdit, Edit
<1> HIDE DEF T
<1>4. /\ manifests[1].recs = <<FirstEdit>> /\ manifests[1].synced = 1
      /\ Len(<<FirstEdit>>) = 1 /\ <<FirstEdit>>[1] = FirstEdit
  BY <1>1
<1>5. Range(marker) = {1} /\ Last(marker) = 1 /\ Last(<<FirstEdit>>) = FirstEdit
  BY <1>1, MarkerOne
<1> HIDE DEF x
<1>6. Lengths(1) = {1} /\ LastNext = 4 /\ NextOf(1, 1) = 4
  <2>1. Lengths(1) = 1 .. 1
    BY <1>4 DEF Lengths
  <2> QED
    BY <1>3, <1>4, <1>5, <2>1 DEF LastNext, NextOf
<1>7. ReadBack(<<FirstEdit>>, 1) = Pair(T, {3})
  BY <1>3, ReadBackNew
<1>8. Image(1, 1).tables = T
  BY <1>4, <1>7, ImageRead, PairEqual
<1>9. Idle /\ Up
  BY <1>1 DEF Idle, NoIO, Up
<1>10. Current(db) = T /\ Target = T
  <2>1. CurrentRead
    BY <1>2, CurrentImage
  <2>2. Last(marker) = db.manifestFileNum /\ ReadBack(<<FirstEdit>>, 1) = Pair(Current(db), DOMAIN db.backings)
    BY <1>4, <1>5, <1>9, <2>1 DEF CurrentRead
  <2>3. Current(db) = T
    BY <1>7, <2>2, PairEqual
  <2> QED
    BY <1>9, <2>3 DEF Target
<1>11. db.nextFileNum = 4
  <2>1. Releases(FirstDB, db, {}) /\ FirstDB.nextFileNum = 4
    BY <1>1, FirstDBFacts
  <2> QED
    BY <2>1 DEF Releases, Lets
<1>12. NumbersOf(Contents(T)) = {2, 3} /\ brought = {2, 3} /\ brought \subseteq Nat /\ Below(brought, 4)
  BY <1>1, FirstItems DEF T
<1>13. ItemsInv
  <2>1. \A j \in DOMAIN jobs : JobItems(jobs[j], brought)
    BY <1>1
  <2>2. \A n \in Range(marker) : \A k \in Lengths(n) : ImageItems(n, k)
    BY <1>5, <1>6, <1>8, <1>12 DEF ImageItems, NextOf
  <2> QED
    BY <1>9, <1>10, <1>11, <1>12, <2>1, <2>2 DEF ItemsInv
<1>14. Held = {Contents(T)} /\ Cardinality(Held) = 1
  <2>1. Held = {Contents(T)}
    BY <1>1, <1>10 DEF Held
  <2> QED
    BY <2>1, FS_Singleton
<1>15. InFlight = Store!None
  BY <1>1, InFlightFacts DEF Nothing, Store!None
<1>16. brought = {y[2] : y \in UNION Held}
  <2>1. (UNION Held) = Contents(T)
    BY <1>14
  <2> QED
    BY <1>12, <2>1 DEF NumbersOf
<1>17. Store!Init
  <2>1. Store!Init <=> /\ Store!Cardinality(Held) = 1 /\ InFlight = Store!None
                       /\ brought = {y[2] : y \in UNION Held}
    BY Zenon DEF Store!Init, Held
  <2> QED
    BY <1>14, <1>15, <1>16, <2>1, SameCardinality
<1> QED
  BY <1>13, <1>17

\* Every step of the version set is one of TableStore, or one it does not see.
LEMMA NextItems ==
  ASSUME IInv, ItemsInv, [Next]_vars
  PROVE  ItemsInv' /\ (Unseen \/ Store!Next)
<1> USE NextInv
<1>1. CASE BeginFlush \/ BeginCheckpoint \/ PickCompaction
  BY <1>1, AddedJobsItems
<1>2. CASE BeginExcise
  BY <1>2, BeginExciseItems
<1>3. CASE BeginExternal
  BY <1>3, BeginExternalItems
<1>4. CASE \E j \in DOMAIN jobs : JobNext(j)
  BY <1>4, JobNextItems DEF Store!Next
<1>5. CASE WriterNext
  BY <1>5, WriterNextItems
<1>6. CASE OpenNext
  <2>1. CASE OpenFlush
    BY <2>1, OpenFlushItems DEF Store!Next
  <2>2. CASE OpenFlushed
    BY <2>2, OpenFlushedApplies DEF Store!Next
  <2>3. CASE Load \/ OpenCreateLog \/ OpenScan
    BY <2>3, LoadItems, OpenCreateLogItems, OpenScanItems
  <2> QED
    BY <1>6, <2>1, <2>2, <2>3 DEF OpenNext
<1>7. CASE Read \/ ReaderNext \/ LockCheckpoint \/ EndCheckpoint \/ EnqueueJob
  BY <1>7, ReaderItems
<1>8. CASE CleanupFile
  BY <1>8, CleanupFileItems
<1>9. CASE Crash
  BY <1>9, CrashItems DEF Store!Next
<1>10. CASE UNCHANGED vars
  BY <1>10, StutterItems
<1> QED
  BY <1>1, <1>2, <1>3, <1>4, <1>5, <1>6, <1>7, <1>8, <1>9, <1>10 DEF Next

\* What the store holds changes only as TableStore lets it: logAndApply is an
\* atomic, durable edit, a compaction changes nothing even when an excise cancels
\* it, an excise clears its whole span, a crash leaves what was installed, with or
\* without the one edit under way, and a second crash during Open loses no more.
THEOREM EditsAreAtomic == Spec => ImplementsTables
<1> DEFINE Both == IInv /\ ItemsInv
<1>1. Init => Both /\ Store!Init
  BY InitInv, InitItems
<1>2. Both /\ [Next]_vars => Both' /\ [Store!Next]_(Store!vars)
  <2> SUFFICES ASSUME IInv, ItemsInv, [Next]_vars
               PROVE  IInv' /\ ItemsInv' /\ [Store!Next]_(Store!vars)
    OBVIOUS
  <2>1. IInv' /\ ItemsInv' /\ (Unseen \/ Store!Next)
    BY NextInv, NextItems
  <2>2. Unseen => UNCHANGED Store!vars
    BY DEF Unseen, Held, Store!vars
  <2> QED
    BY <2>1, <2>2
<1> HIDE DEF Both
<1> QED
  BY <1>1, <1>2, PTL DEF Spec, ImplementsTables, Store!Spec

===============================================================================
