-------------------------- MODULE DurabilityProofs --------------------------
(***************************************************************************)
(* Proofs about Durability, for any sizes and limits and any number of     *)
(* calls, failed flushes and crashes: no file number is given out twice, a *)
(* batch finds its memtable outside the running flush, and none of the     *)
(* assertions on the way of a write fires.  They rest on one inductive     *)
(* invariant, IInv, of which every action has a lemma.  When there are no  *)
(* flushable ingests and no flush fails that Open waits for, SInv adds     *)
(* that no log is deleted or reused that a crash would have to replay, and *)
(* that Open never fails.                                                  *)
(***************************************************************************)
EXTENDS Durability, SequenceTheorems, FiniteSetTheorems, TLAPS

(***************************************************************************)
(* The types.                                                              *)
(***************************************************************************)
FinSets == {S \in SUBSET Nat : IsFiniteSet(S)}

Record == [kind : {"small", "large", "ingest"}, seq : Nat, file : Nat]

LogFile == [recs : Seq(Record), synced : Nat, closed : BOOLEAN]

QEntry ==
  [kind : {"mem", "large", "ingest"}, logNum : Nat, logSeqNum : Nat, size : Nat,
   writes : FinSets, refs : Nat, forced : BOOLEAN, file : Nat]

DiskType ==
  /\ DOMAIN logs \in FinSets /\ logs \in [DOMAIN logs -> LogFile]
  /\ DOMAIN gone \in FinSets /\ gone \in [DOMAIN gone -> LogFile]
  /\ DOMAIN tables \in FinSets /\ tables \in [DOMAIN tables -> FinSets]
  /\ manifest \in [min : Nat, tables : SUBSET Nat, next : Nat, last : Nat]

MemType ==
  /\ phase \in {"open", "down", "replaying", "replayed", "failed"}
  /\ queue \in Seq(QEntry) /\ nextSize \in Nat
  /\ inflight \in SUBSET [seq : Nat, log : Nat] /\ IsFiniteSet(inflight)

VersionType == [min : Nat, tables : SUBSET Nat]

CallType ==
  [pc : {"idle", "stall", "wait", "close", "create", "open", "sync"},
   kind : {"none", "small", "large", "flush", "ingest", "ingested", "open"},
   new : Nat, reuse : Nat, file : Nat]

FlushType ==
  [pc : {"idle", "begin", "run", "log", "install", "end"},
   n : Nat, min : Nat, file : Nat]

ProcType ==
  /\ nextFile \in Nat /\ seq \in Nat /\ log \in Nat
  /\ vs \in VersionType /\ call \in CallType /\ flush \in FlushType

WalType ==
  [queue : Seq(Nat), recycler : Seq(Nat), maxLog : Nat, minRecycle : Nat,
   initial : FinSets, delete : Seq(Nat)]

TypeOK ==
  /\ DiskType /\ MemType /\ ProcType
  /\ wal \in WalType

(***************************************************************************)
(* What holds besides.                                                     *)
(***************************************************************************)
Up == phase \in {"open", "replaying", "replayed"}

\* Only Open runs before the store is open, and nothing when it is down.
PhaseInv ==
  /\ call.pc = "idle" => call.kind = "none"
  /\ call.pc # "idle" => phase = "open" \/ (phase = "replayed" /\ call.kind = "open")
  /\ call.kind = "open" =>
       phase = "replayed" /\ flush.pc = "idle" /\ call.pc \in {"create", "open"}
  /\ call.kind = "ingested" => call.pc \in {"create", "open"}
  /\ call.pc = "sync" => call.kind = "ingest"
  /\ phase # "open" => inflight = {}
  /\ phase \notin {"open", "replayed"} => flush.pc = "idle" /\ jobs = <<>>
  /\ phase = "down" => log = 0 /\ DOMAIN gone = {}
  /\ Up => Len(queue) >= 1
  /\ flush.pc \notin {"run", "log", "install"} => flush.n = 0

\* The log being made is newer than everything.
NewLog ==
  call.pc \in {"create", "open"} =>
    /\ call.new < nextFile /\ log < call.new /\ vs.min < call.new
    /\ \A i \in DOMAIN queue : queue[i].logNum < call.new

Numbers ==
  /\ manifest.min < manifest.next
  /\ Up => /\ \A f \in DOMAIN logs \cup DOMAIN tables \cup DOMAIN gone : f < nextFile
           /\ \A i \in DOMAIN queue : queue[i].logNum < nextFile
           /\ vs.min < nextFile /\ log < nextFile
           /\ flush.pc = "run" /\ queue[1].kind # "ingest" => flush.file < nextFile
  /\ NewLog

\* An ingest has a log of its own.
AloneInLog(recs) == (\E i \in DOMAIN recs : recs[i].kind = "ingest") => Len(recs) = 1

IngestWritten == call.pc = "sync" \/ call.kind = "ingested"

LogsInv ==
  /\ \A l \in DOMAIN logs : AloneInLog(logs[l].recs)
  /\ \A l \in DOMAIN gone : AloneInLog(gone[l].recs)
  /\ phase = "open" /\ ~IngestWritten /\ log \in DOMAIN logs =>
       \A i \in DOMAIN logs[log].recs : logs[log].recs[i].kind # "ingest"
  /\ call.pc \in {"create", "open"} /\ call.new \in DOMAIN logs =>
       call.pc = "open" /\ logs[call.new].recs = <<>>

\* The queue is in the order of the logs; entries that share one are flushed
\* together.
OrderInv ==
  /\ \A i, j \in DOMAIN queue : i <= j => queue[i].logNum <= queue[j].logNum
  /\ \A i \in 2 .. Len(queue) : queue[i - 1].logNum = queue[i].logNum =>
       /\ i < Len(queue) \/ phase \notin {"open", "replayed"}
       /\ queue[i - 1].kind # "ingest" /\ queue[i].kind # "ingest"
       /\ ReadyForFlush(queue[i])
  /\ Up => \A i \in 2 .. Len(queue) : vs.min <= queue[i].logNum
  /\ phase = "open" => vs.min <= queue[Len(queue)].logNum

\* The log of an ingest is newer than those of the queue.
IngestInv == IngestWritten => \A i \in DOMAIN queue : queue[i].logNum < log

ReplayInv ==
  phase = "replaying" =>
    /\ vs.min = manifest.min
    /\ \A i \in DOMAIN queue : queue[i].logNum <= log
    /\ log = 0 => Len(queue) = 1 /\ queue[1].kind = "mem" /\ queue[1].refs = 1
                  /\ queue[1].logSeqNum <= seq + 1
    /\ log > 0 => \A i \in DOMAIN queue : ReadyForFlush(queue[i])

FlushInv ==
  flush.pc \in {"run", "log", "install"} =>
    /\ flush.n \in 1 .. Len(queue) - 1
    /\ flush.min = queue[flush.n + 1].logNum
    /\ \A i \in 1 .. flush.n : ReadyForFlush(queue[i])

\* The writer references of a memtable: its batches in flight, and one more
\* while it is the mutable one.
OfLog(B, l) == {b \in B : b.log = l}

RefsInv ==
  phase \in {"open", "replayed"} =>
    /\ Mutable.kind = "mem" /\ Mutable.logSeqNum <= seq + 1
    /\ \A i \in DOMAIN queue : queue[i].kind = "mem" =>
         queue[i].refs = Cardinality(OfLog(inflight, queue[i].logNum))
                           + (IF i = Len(queue) THEN 1 ELSE 0)

BatchInv ==
  \A b \in inflight :
    /\ b.seq <= seq
    /\ \E i \in DOMAIN queue : queue[i].kind = "mem" /\ queue[i].logNum = b.log
    /\ \A i \in DOMAIN queue : queue[i].kind = "mem" /\ queue[i].logNum = b.log =>
         queue[i].logSeqNum <= b.seq

\* The log that is reused stays at the head of the recycler.
RecycleInv ==
  call.pc = "open" /\ call.reuse # 0 =>
    wal.recycler # <<>> /\ wal.recycler[1] = call.reuse

IInv ==
  /\ TypeOK /\ PhaseInv /\ Numbers /\ LogsInv /\ OrderInv /\ ReplayInv
  /\ IngestInv /\ FlushInv /\ RefsInv /\ BatchInv /\ RecycleInv

(***************************************************************************)
(* Numbers, finite sets and recursion over an initial segment.             *)
(***************************************************************************)
\* A set of numbers has a least element.
LEMMA Least ==
  ASSUME NEW S, S \subseteq Nat, S # {}
  PROVE  \E m \in S : \A x \in S : m <= x
<1>1. IsWellFoundedOn(OpToRel(<, Nat), Nat)
  BY NatLessThanWellFounded
<1>2. PICK m \in S : \A y \in S : ~(<<y, m>> \in OpToRel(<, Nat))
  BY <1>1, WFMin
<1>3. \A y \in S : ~(y < m)
  BY <1>2 DEF OpToRel
<1> QED
  BY <1>3

\* Induction up to n, for the numbers in a set.
LEMMA Induct ==
  ASSUME NEW n \in Nat, NEW T, 0 \in T, \A i \in 1 .. n : i - 1 \in T => i \in T
  PROVE  \A i \in 0 .. n : i \in T
<1> DEFINE S == {i \in 0 .. n : i \notin T}
<1> SUFFICES ASSUME S # {} PROVE FALSE
  OBVIOUS
<1>1. PICK m \in S : \A x \in S : m <= x
  <2>1. S \subseteq Nat
    OBVIOUS
  <2> HIDE DEF S
  <2> QED
    BY <2>1, Least
<1>2. m \in 1 .. n /\ m \notin T
  BY <1>1
<1>3. m - 1 \in 0 .. n /\ m - 1 \notin S
  BY <1>1, <1>2
<1> QED
  BY <1>2, <1>3

\* A finite set of numbers has an upper bound.
LEMMA FinBounded ==
  ASSUME NEW S \in FinSets
  PROVE  \E n \in Nat : \A x \in S : x <= n
<1>1. IsFiniteSet(S) /\ S \subseteq Nat
  BY DEF FinSets
<1> DEFINE c == Cardinality(S)
<1>2. c \in Nat /\ ExistsBijection(1 .. c, S)
  BY <1>1, FS_CardinalityType
<1>3. PICK f \in [1 .. c -> S] : \A s \in S : \E i \in 1 .. c : f[i] = s
  BY <1>2 DEF ExistsBijection, Bijection, Surjection
<1> DEFINE T == {k \in 0 .. c : \E n \in Nat : \A i \in 1 .. k : f[i] <= n}
<1>4. 0 \in T
  BY <1>2
<1>5. ASSUME NEW k \in 1 .. c, k - 1 \in T PROVE k \in T
  <2>1. PICK n \in Nat : \A i \in 1 .. k - 1 : f[i] <= n
    BY <1>5
  <2>2. f[k] \in Nat
    BY <1>1, <1>3
  <2>3. PICK m \in Nat : m >= n /\ m >= f[k]
    BY <2>2
  <2>4. ASSUME NEW i \in 1 .. k PROVE f[i] <= m
    <3>1. CASE i = k
      BY <3>1, <2>3
    <3>2. CASE i # k
      <4>1. i \in 1 .. k - 1 /\ i \in 1 .. c
        BY <3>2, <1>2
      <4>2. f[i] <= n
        BY <4>1, <2>1
      <4>3. f[i] \in Nat
        BY <4>1, <1>1, <1>3
      <4> QED
        BY <4>2, <4>3, <2>3
    <3> QED
      BY <3>1, <3>2
  <2> QED
    BY <2>4, <1>2
<1> HIDE DEF T, c
<1>6. c \in T
  BY <1>2, <1>4, <1>5, Induct
<1> USE DEF T
<1>7. PICK n \in Nat : \A i \in 1 .. c : f[i] <= n
  BY <1>6
<1> QED
  BY <1>3, <1>7

\* The greatest number of a finite set.
LEMMA MaxFin ==
  ASSUME NEW S \in FinSets, S # {}
  PROVE  /\ Max(S) \in S /\ Max(S) \in Nat
         /\ \A x \in S : x <= Max(S)
<1>1. IsFiniteSet(S) /\ S \subseteq Nat
  BY DEF FinSets
<1> DEFINE B == {n \in Nat : \A x \in S : x <= n}
<1>2. B # {} /\ B \subseteq Nat
  BY FinBounded
<1>3. PICK b \in B : \A x \in B : b <= x
  BY <1>2, Least
<1>4. b \in S
  <2> SUFFICES ASSUME b \notin S PROVE FALSE
    OBVIOUS
  <2>1. \A x \in S : x < b
    BY <1>1, <1>3
  <2>2. b # 0
    <3>1. PICK x \in S : TRUE
      OBVIOUS
    <3>2. x \in Nat /\ x < b /\ b \in Nat
      BY <1>1, <1>3, <2>1
    <3> QED
      BY <3>2
  <2>3. b - 1 \in Nat /\ \A x \in S : x <= b - 1
    BY <2>1, <2>2, <1>1, <1>3
  <2> QED
    BY <2>3, <1>3
<1>5. \A x \in S : b >= x
  BY <1>1, <1>3
<1>6. Max(S) \in S /\ \A x \in S : Max(S) >= x
  BY <1>4, <1>5 DEF Max
<1> QED
  BY <1>1, <1>6

\* The least number of a set.
LEMMA MinFacts ==
  ASSUME NEW S, S \subseteq Nat, S # {}
  PROVE  Min(S) \in S /\ \A x \in S : Min(S) <= x
BY Least DEF Min

\* A part of a finite set, two together, one more, and an interval.
LEMMA FinParts ==
  /\ {} \in FinSets
  /\ \A S \in FinSets : \A T : T \subseteq S => T \in FinSets
  /\ \A S, T \in FinSets : S \cup T \in FinSets
  /\ \A S \in FinSets, x \in Nat : S \cup {x} \in FinSets
  /\ \A x \in Nat : {x} \in FinSets
  /\ \A m, n \in Nat : m .. n \in FinSets
<1>1. {} \in FinSets
  BY FS_EmptySet DEF FinSets
<1>2. \A S \in FinSets : \A T : T \subseteq S => T \in FinSets
  BY FS_Subset DEF FinSets
<1>3. \A S, T \in FinSets : S \cup T \in FinSets
  BY FS_Union DEF FinSets
<1>4. \A x \in Nat : {x} \in FinSets
  BY FS_Singleton DEF FinSets
<1>5. \A S \in FinSets, x \in Nat : S \cup {x} \in FinSets
  BY <1>3, <1>4
<1>6. \A m, n \in Nat : m .. n \in FinSets
  <2> SUFFICES ASSUME NEW m \in Nat, NEW n \in Nat PROVE m .. n \in FinSets
    OBVIOUS
  <2>1. IsFiniteSet(m .. n)
    BY FS_Interval
  <2> QED
    BY <2>1 DEF FinSets
<1> QED
  BY <1>1, <1>2, <1>3, <1>4, <1>5, <1>6

\* What a function yields on a finite set.
LEMMA FinImage ==
  ASSUME NEW S, IsFiniteSet(S), NEW f \in [S -> Nat]
  PROVE  {f[x] : x \in S} \in FinSets
<1> DEFINE T == {f[x] : x \in S}
<1>1. f \in Surjection(S, T)
  BY DEF Surjection
<1>2. IsFiniteSet(T)
  BY <1>1, FS_Surjection
<1> QED
  BY <1>2 DEF FinSets

\* The elements of a finite set have the ranks from 0 on.
LEMMA Ranks ==
  ASSUME NEW S \in FinSets, NEW k \in 0 .. Cardinality(S) - 1
  PROVE  \E x \in S : Cardinality({y \in S : y < x}) = k
<1> DEFINE c == Cardinality(S)
           T == {j \in 0 .. c - 1 : \E x \in S : Cardinality({y \in S : y < x}) = j}
<1>1. IsFiniteSet(S) /\ S \subseteq Nat /\ c \in Nat
  BY FS_CardinalityType DEF FinSets
<1>2. c - 1 \in Nat /\ S # {}
  BY <1>1, FS_EmptySet
<1>3. 0 \in T
  <2>1. PICK m \in S : \A x \in S : m <= x
    BY <1>1, <1>2, Least
  <2>2. \A y \in S : ~(y < m)
    BY <2>1, <1>1
  <2>3. {y \in S : y < m} = {}
    BY <2>2
  <2>4. Cardinality({y \in S : y < m}) = 0
    BY <2>3, FS_EmptySet
  <2>5. 0 \in 0 .. c - 1
    BY <1>2
  <2> QED
    BY <2>4, <2>5
<1>4. ASSUME NEW j \in 1 .. c - 1, j - 1 \in T PROVE j \in T
  <2>1. PICK x \in S : Cardinality({y \in S : y < x}) = j - 1
    BY <1>4
  <2> DEFINE U == {y \in S : y < x}
             V == U \cup {x}
             W == S \ V
  <2>2. IsFiniteSet(U) /\ x \notin U
    BY <1>1, FS_Subset
  <2>3. IsFiniteSet(V) /\ Cardinality(V) = j
    <3>1. IsFiniteSet(V) /\ Cardinality(V) = Cardinality(U) + 1
      <4> HIDE DEF U
      <4> QED
        BY <2>2, FS_AddElement
    <3> QED
      BY <3>1, <2>1, <1>1
  <2>4. W # {}
    <3> SUFFICES ASSUME W = {} PROVE FALSE
      OBVIOUS
    <3>1. V = S
      OBVIOUS
    <3> QED
      BY <3>1, <2>3, <1>1
  <2>5. W \subseteq Nat
    BY <1>1
  <2>6. PICK z \in W : \A y \in W : z <= y
    <3> HIDE DEF W
    <3> QED
      BY <2>4, <2>5, Least
  <2>7. {y \in S : y < z} = V
    <3>1. z \in S /\ z \in Nat /\ x \in Nat /\ ~(z < x) /\ z # x
      BY <2>6, <1>1
    <3>2. ASSUME NEW y \in S, y < z PROVE y \in V
      BY <3>2, <2>6, <1>1
    <3>3. ASSUME NEW y \in V PROVE y \in S /\ y < z
      BY <3>1, <1>1
    <3> QED
      BY <3>2, <3>3
  <2>8. z \in S /\ Cardinality({y \in S : y < z}) = j
    BY <2>3, <2>6, <2>7
  <2>9. j \in 0 .. c - 1
    BY <1>1
  <2> QED
    BY <2>8, <2>9
<1> HIDE DEF T, c
<1>5. k \in 0 .. c - 1
  BY DEF c
<1>6. k \in T
  BY <1>2, <1>3, <1>4, <1>5, Induct
<1> QED
  BY <1>6 DEF T

\* The sequence of the elements of a set.
LEMMA SortedFacts ==
  ASSUME NEW S \in FinSets
  PROVE  /\ Cardinality(S) \in Nat
         /\ Sorted(S) \in [1 .. Cardinality(S) -> S]
         /\ Sorted(S) \in Seq(S) /\ Sorted(S) \in Seq(Nat)
         /\ Len(Sorted(S)) = Cardinality(S)
<1> DEFINE c == Cardinality(S)
<1>1. IsFiniteSet(S) /\ S \subseteq Nat /\ c \in Nat
  BY FS_CardinalityType DEF FinSets
<1>2. ASSUME NEW i \in 1 .. c
      PROVE  (CHOOSE x \in S : Cardinality({y \in S : y < x}) = i - 1) \in S
  <2>1. i - 1 \in 0 .. c - 1
    BY <1>1
  <2>2. \E x \in S : Cardinality({y \in S : y < x}) = i - 1
    BY <2>1, Ranks
  <2> QED
    BY <2>2
<1>3. Sorted(S) \in [1 .. c -> S]
  BY <1>2 DEF Sorted
<1> HIDE DEF c
<1>4. Sorted(S) \in Seq(S) /\ Len(Sorted(S)) = c
  BY <1>1, <1>3
<1>5. Sorted(S) \in Seq(Nat)
  <2>1. Sorted(S) \in [1 .. c -> Nat]
    BY <1>1, <1>3
  <2> QED
    BY <2>1, <1>1
<1> QED
  BY <1>1, <1>3, <1>4, <1>5 DEF c

\* f is the recursion with these steps.
Solves(f, base, n, step) ==
  f[0] = base /\ \A i \in 1 .. n : f[i] = step[i][f[i - 1]]

\* A recursion over 0 .. n has a solution.
LEMMA RecExists ==
  ASSUME NEW S, NEW base \in S, NEW n \in Nat, NEW step \in [1 .. n -> [S -> S]]
  PROVE  \E f \in [0 .. n -> S] : Solves(f, base, n, step)
<1> DEFINE T == {k \in 0 .. n : \E f \in [0 .. k -> S] : Solves(f, base, k, step)}
<1>1. 0 \in T
  <2> DEFINE g == [i \in 0 .. 0 |-> base]
  <2>1. g \in [0 .. 0 -> S]
    OBVIOUS
  <2>2. Solves(g, base, 0, step)
    BY DEF Solves
  <2>3. 0 \in 0 .. n
    OBVIOUS
  <2> HIDE DEF g
  <2> QED
    BY <2>1, <2>2, <2>3
<1>2. ASSUME NEW k \in 1 .. n, k - 1 \in T PROVE k \in T
  <2>1. PICK f \in [0 .. k - 1 -> S] : Solves(f, base, k - 1, step)
    BY <1>2
  <2> DEFINE g == [i \in 0 .. k |-> IF i = k THEN step[k][f[k - 1]] ELSE f[i]]
  <2>2. f[k - 1] \in S /\ step[k][f[k - 1]] \in S
    OBVIOUS
  <2>3. g \in [0 .. k -> S]
    BY <2>2
  <2>4. ASSUME NEW i \in 1 .. k PROVE g[i] = step[i][g[i - 1]]
    <3>1. CASE i = k
      BY <3>1
    <3>2. CASE i # k
      <4>1. i \in 1 .. k - 1 /\ i \in 0 .. k /\ i - 1 \in 0 .. k /\ i - 1 # k
        BY <3>2
      <4>2. g[i] = f[i] /\ g[i - 1] = f[i - 1]
        BY <3>2, <4>1
      <4> QED
        BY <4>1, <4>2, <2>1 DEF Solves
    <3> QED
      BY <3>1, <3>2
  <2>5. g[0] = base
    BY <2>1 DEF Solves
  <2> HIDE DEF g
  <2>6. Solves(g, base, k, step)
    BY <2>4, <2>5 DEF Solves
  <2>7. k \in 0 .. n
    OBVIOUS
  <2> QED
    BY <2>3, <2>6, <2>7
<1>3. n \in T
  <2>1. n \in 0 .. n
    OBVIOUS
  <2> HIDE DEF T
  <2> QED
    BY <1>1, <1>2, <2>1, Induct
<1> QED
  BY <1>3

\* Memtables do not outgrow the numbers.
LEMMA DoubledNat ==
  ASSUME NEW s \in Nat
  PROVE  Doubled(s) \in Nat
BY SizesAssumption DEF Doubled

\* Sizes are numbers, however many memtables there were.
LEMMA GrownNat ==
  ASSUME NEW s \in Nat, NEW n \in Nat
  PROVE  Grown(s, n) \in Nat
<1> DEFINE Eq(f) == f = [i \in 0 .. n |-> IF i = 0 THEN s ELSE Doubled(f[i - 1])]
           A == CHOOSE f : Eq(f)
           step == [i \in 1 .. n |-> [x \in Nat |-> Doubled(x)]]
<1>1. Grown(s, n) = A[n]
  BY DEF Grown
<1>2. step \in [1 .. n -> [Nat -> Nat]]
  BY DoubledNat
<1>3. PICK f \in [0 .. n -> Nat] : Solves(f, s, n, step)
  <2> HIDE DEF step
  <2> QED
    BY <1>2, RecExists
<1>4. Eq(f)
  <2>1. ASSUME NEW i \in 1 .. n PROVE f[i] = Doubled(f[i - 1])
    <3>1. f[i - 1] \in Nat
      OBVIOUS
    <3> QED
      BY <3>1, <1>3 DEF Solves
  <2> QED
    BY <2>1, <1>3 DEF Solves
<1>5. Eq(A)
  BY <1>4
<1> HIDE DEF A
<1> DEFINE T == {i \in 0 .. n : A[i] \in Nat}
<1>6. 0 \in T
  BY <1>5
<1>7. ASSUME NEW i \in 1 .. n, i - 1 \in T PROVE i \in T
  <2>1. A[i] = Doubled(A[i - 1]) /\ A[i - 1] \in Nat
    BY <1>5, <1>7
  <2>2. Doubled(A[i - 1]) \in Nat
    BY <2>1, DoubledNat, Zenon
  <2>3. i \in 0 .. n
    OBVIOUS
  <2> QED
    BY <2>1, <2>2, <2>3
<1> HIDE DEF T
<1>8. n \in 0 .. n
  OBVIOUS
<1>9. n \in T
  BY <1>6, <1>7, <1>8, Induct
<1> QED
  BY <1>1, <1>9 DEF T

(***************************************************************************)
(* The operators of the model.                                             *)
(***************************************************************************)
\* What a new memtable is, a large batch and an ingest.
LEMMA NewMemTableFacts ==
  ASSUME NEW l \in Nat, NEW s \in Nat, NEW z \in Nat
  PROVE  /\ NewMemTable(l, s, z) \in QEntry /\ NewMemTable(l, s, z).kind = "mem"
         /\ NewMemTable(l, s, z).logNum = l /\ NewMemTable(l, s, z).refs = 1
         /\ NewMemTable(l, s, z).logSeqNum = s
<1>1. {} \in FinSets
  BY FinParts
<1> QED
  BY <1>1 DEF NewMemTable, Entry, QEntry

\* What a large batch looks like in the queue.
LEMMA LargeBatchFacts ==
  ASSUME NEW l \in Nat, NEW s \in Nat
  PROVE  /\ LargeBatch(l, s) \in QEntry /\ LargeBatch(l, s).kind = "large"
         /\ LargeBatch(l, s).logNum = l /\ LargeBatch(l, s).refs = 0
<1>1. {} \in FinSets /\ {s} \in FinSets /\ MemTableSize \div 2 \in Nat
  <2>1. {} \in FinSets /\ {s} \in FinSets
    BY FinParts
  <2>2. MemTableSize \div 2 \in Nat
    BY SizesAssumption
  <2> QED
    BY <2>1, <2>2
<1> QED
  BY <1>1 DEF LargeBatch, Entry, QEntry

\* What an ingested flushable looks like in the queue.
LEMMA IngestedFacts ==
  ASSUME NEW l \in Nat, NEW s \in Nat, NEW f \in Nat
  PROVE  /\ IngestedFlushable(l, s, f) \in QEntry
         /\ IngestedFlushable(l, s, f).kind = "ingest"
         /\ IngestedFlushable(l, s, f).logNum = l /\ IngestedFlushable(l, s, f).refs = 0
<1>1. {} \in FinSets /\ {s} \in FinSets
  BY FinParts
<1> QED
  BY <1>1 DEF IngestedFlushable, Entry, QEntry

\* What a replayed memtable is.
Replayed(l, s, W) ==
  [Entry("mem", l, s, MemTableSize) EXCEPT !.forced = TRUE, !.writes = W]

\* What a memtable filled by the replay of a log looks like.
LEMMA ReplayedFacts ==
  ASSUME NEW l \in Nat, NEW s \in Nat, NEW W \in FinSets
  PROVE  /\ Replayed(l, s, W) \in QEntry /\ Replayed(l, s, W).logNum = l
         /\ Replayed(l, s, W).kind = "mem" /\ Replayed(l, s, W).refs = 0
<1>1. MemTableSize \in Nat
  BY SizesAssumption
<1> QED
  BY <1>1 DEF Replayed, Entry, QEntry

\* The longest ready prefix.
LEMMA ReadyPrefixFacts ==
  ASSUME NEW q \in Seq(QEntry), Len(q) >= 1, NEW kinds, NEW n, n = ReadyPrefix(q, kinds)
  PROVE  /\ n \in 0 .. Len(q) - 1
         /\ \A i \in 1 .. n : q[i].kind \in kinds /\ ReadyForFlush(q[i])
         /\ n + 1 < Len(q) => ~(q[n + 1].kind \in kinds /\ ReadyForFlush(q[n + 1]))
<1> DEFINE S == {k \in 0 .. Len(q) - 1 :
                   \A i \in 1 .. k : q[i].kind \in kinds /\ ReadyForFlush(q[i])}
<1>1. Len(q) \in Nat /\ Len(q) - 1 \in Nat
  OBVIOUS
<1>2. S \in FinSets
  <2>1. 0 .. Len(q) - 1 \in FinSets
    BY <1>1, FinParts
  <2>2. S \subseteq 0 .. Len(q) - 1
    OBVIOUS
  <2> HIDE DEF S
  <2> QED
    BY <2>1, <2>2, FinParts
<1>3. S # {}
  <2>1. 0 \in S
    BY <1>1
  <2> QED
    BY <2>1
<1>4. n = Max(S)
  BY DEF ReadyPrefix
<1>5. n \in S /\ \A x \in S : x <= n
  <2> HIDE DEF S
  <2> QED
    BY <1>2, <1>3, <1>4, MaxFin
<1>6. ASSUME n + 1 < Len(q), q[n + 1].kind \in kinds, ReadyForFlush(q[n + 1])
      PROVE  FALSE
  <2>1. n \in Nat /\ n + 1 \in 0 .. Len(q) - 1
    BY <1>1, <1>5, <1>6
  <2>2. ASSUME NEW i \in 1 .. n + 1 PROVE q[i].kind \in kinds /\ ReadyForFlush(q[i])
    <3>1. i \in 1 .. n \/ i = n + 1
      BY <2>1
    <3> QED
      BY <3>1, <1>5, <1>6
  <2>3. n + 1 \in S
    BY <2>1, <2>2
  <2>4. n + 1 <= n
    BY <1>5, <2>3
  <2> QED
    BY <2>1, <2>4
<1> QED
  BY <1>5, <1>6

\* What a flush takes.
LEMMA FlushCountFacts ==
  ASSUME NEW q \in Seq(QEntry), Len(q) >= 1, NEW n, n = FlushCount(q)
  PROVE  /\ n \in 0 .. Len(q) - 1
         /\ \A i \in 1 .. n : ReadyForFlush(q[i])
         /\ \/ n = 1 /\ q[1].kind = "ingest" /\ Len(q) > 1
            \/ /\ \A i \in 1 .. n : q[i].kind \in {"mem", "large"}
               /\ n + 1 < Len(q) =>
                    ~(q[n + 1].kind \in {"mem", "large"} /\ ReadyForFlush(q[n + 1]))
<1>1. Len(q) \in Nat
  OBVIOUS
<1>2. CASE q[1].kind = "ingest" /\ Len(q) > 1
  <2>1. n = 1
    BY <1>2 DEF FlushCount
  <2>2. ReadyForFlush(q[1])
    BY <1>2 DEF ReadyForFlush
  <2> QED
    BY <1>1, <1>2, <2>1, <2>2
<1>3. CASE ~(q[1].kind = "ingest" /\ Len(q) > 1)
  <2>1. n = ReadyPrefix(q, {"mem", "large"})
    BY <1>3 DEF FlushCount
  <2>2. /\ n \in 0 .. Len(q) - 1
        /\ \A i \in 1 .. n : q[i].kind \in {"mem", "large"} /\ ReadyForFlush(q[i])
        /\ n + 1 < Len(q) => ~(q[n + 1].kind \in {"mem", "large"} /\ ReadyForFlush(q[n + 1]))
    BY <2>1, ReadyPrefixFacts
  <2> QED
    BY <2>2
<1> QED
  BY <1>2, <1>3

\* The logs at the head of the manager's queue that are older than min.
LEMMA OldLogsFacts ==
  ASSUME NEW w \in WalType, NEW min \in Nat, NEW n, n = OldLogs(w, min)
  PROVE  n \in 0 .. Len(w.queue) /\ \A i \in 1 .. n : w.queue[i] < min
<1> DEFINE S == {k \in 0 .. Len(w.queue) : \A i \in 1 .. k : w.queue[i] < min}
<1>1. Len(w.queue) \in Nat
  BY DEF WalType
<1>2. S \in FinSets
  <2>1. 0 .. Len(w.queue) \in FinSets
    BY <1>1, FinParts
  <2>2. S \subseteq 0 .. Len(w.queue)
    OBVIOUS
  <2> HIDE DEF S
  <2> QED
    BY <2>1, <2>2, FinParts
<1>3. S # {}
  <2>1. 0 \in S
    BY <1>1
  <2> QED
    BY <2>1
<1>4. n = Max(S)
  BY DEF OldLogs
<1>5. n \in S
  <2> HIDE DEF S
  <2> QED
    BY <1>2, <1>3, <1>4, MaxFin
<1> QED
  BY <1>5

\* y is x, with more in the recycler and in "delete", all taken from old.
Grew(x, y, old) ==
  /\ y \in WalType
  /\ y.queue = x.queue /\ y.initial = x.initial /\ y.minRecycle = x.minRecycle
  /\ Len(y.recycler) >= Len(x.recycler)
  /\ \A i \in 1 .. Len(x.recycler) : y.recycler[i] = x.recycler[i]
  /\ \A i \in 1 .. Len(y.recycler) :
       y.recycler[i] \in old \/ \E j \in 1 .. Len(x.recycler) : y.recycler[i] = x.recycler[j]
  /\ \A i \in 1 .. Len(y.delete) :
       y.delete[i] \in old \/ \E j \in 1 .. Len(x.delete) : y.delete[i] = x.delete[j]

\* Add extends the recycler at its end or leaves it alone.
LEMMA RecyclerAddFacts ==
  ASSUME NEW w \in WalType, NEW l \in Nat, NEW old, l \in old
  PROVE  Grew(w, RecyclerAdd(w, l), old)
<1>1. w.recycler \in Seq(Nat) /\ w.delete \in Seq(Nat)
  BY DEF WalType
<1>2. ASSUME NEW s \in Seq(Nat)
      PROVE  /\ Append(s, l) \in Seq(Nat) /\ Len(Append(s, l)) = Len(s) + 1
             /\ \A i \in 1 .. Len(s) : Append(s, l)[i] = s[i]
             /\ \A i \in 1 .. Len(Append(s, l)) :
                  Append(s, l)[i] \in old \/ \E j \in 1 .. Len(s) : Append(s, l)[i] = s[j]
  BY AppendProperties
<1>3. ASSUME NEW s \in Seq(Nat), NEW i \in 1 .. Len(s)
      PROVE  \E j \in 1 .. Len(s) : s[i] = s[j]
  OBVIOUS
<1> DEFINE d == [w EXCEPT !.delete = Append(@, l)]
           e == [w EXCEPT !.maxLog = l, !.delete = Append(@, l)]
           r == [w EXCEPT !.maxLog = l, !.recycler = Append(@, l)]
<1>4. /\ d \in WalType /\ d.queue = w.queue /\ d.initial = w.initial
      /\ d.minRecycle = w.minRecycle /\ d.recycler = w.recycler
      /\ d.delete = Append(w.delete, l)
  BY <1>1, <1>2 DEF WalType
<1>5. /\ e \in WalType /\ e.queue = w.queue /\ e.initial = w.initial
      /\ e.minRecycle = w.minRecycle /\ e.recycler = w.recycler
      /\ e.delete = Append(w.delete, l)
  BY <1>1, <1>2 DEF WalType
<1>6. /\ r \in WalType /\ r.queue = w.queue /\ r.initial = w.initial
      /\ r.minRecycle = w.minRecycle /\ r.recycler = Append(w.recycler, l)
      /\ r.delete = w.delete
  BY <1>1, <1>2 DEF WalType
<1>7. RecyclerAdd(w, l) \in {d, w, e, r}
  BY DEF RecyclerAdd
<1> HIDE DEF d, e, r
<1>d. \A i \in 1 .. Len(Append(w.delete, l)) : Append(w.delete, l)[i] \in old
                 \/ \E j \in 1 .. Len(w.delete) : Append(w.delete, l)[i] = w.delete[j]
  BY <1>1, <1>2
<1>r. /\ Len(w.recycler) >= Len(w.recycler)
      /\ \A i \in 1 .. Len(w.recycler) : w.recycler[i] \in old
                 \/ \E j \in 1 .. Len(w.recycler) : w.recycler[i] = w.recycler[j]
  BY <1>1, <1>3
<1>8. Grew(w, d, old)
  BY <1>4, <1>d, <1>r DEF Grew
<1>9. Grew(w, e, old)
  BY <1>5, <1>d, <1>r DEF Grew
<1>10. Grew(w, r, old)
  BY <1>1, <1>2, <1>3, <1>6 DEF Grew
<1>11. Grew(w, w, old)
  BY <1>1, <1>3 DEF Grew
<1> QED
  BY <1>7, <1>8, <1>9, <1>10, <1>11

\* What Obsolete makes of the manager.
AfterObsolete(w, y, min) ==
  /\ y \in WalType /\ y.initial = {} /\ y.minRecycle = w.minRecycle
  /\ Len(y.recycler) >= Len(w.recycler)
  /\ \A i \in 1 .. Len(w.recycler) : y.recycler[i] = w.recycler[i]
  /\ \A i \in 1 .. Len(y.recycler) :
       y.recycler[i] < min \/ \E j \in 1 .. Len(w.recycler) : y.recycler[i] = w.recycler[j]
  /\ \A i \in 1 .. Len(y.delete) : y.delete[i] < min \/ y.delete[i] \in w.initial

\* However many logs are obsolete, the head of the recycler stays.
LEMMA ObsoleteFacts ==
  ASSUME NEW w \in WalType, NEW min \in Nat
  PROVE  AfterObsolete(w, Obsolete(w, min), min)
<1> DEFINE n == OldLogs(w, min)
           start == [w EXCEPT !.initial = {}, !.delete = Sorted(w.initial),
                              !.queue = SubSeq(@, n + 1, Len(@))]
           Eq(f) == f = [i \in 0 .. n |-> IF i = 0 THEN start
                                          ELSE RecyclerAdd(f[i - 1], w.queue[i])]
           A == CHOOSE f : Eq(f)
           step == [i \in 1 .. n |-> [x \in WalType |-> RecyclerAdd(x, w.queue[i])]]
           old == {l \in Nat : l < min}
<1>1. Obsolete(w, min) = A[n]
  BY DEF Obsolete
<1>2. n \in 0 .. Len(w.queue) /\ \A i \in 1 .. n : w.queue[i] < min
  BY OldLogsFacts
<1>3. w.queue \in Seq(Nat) /\ Len(w.queue) \in Nat /\ n \in Nat
  BY <1>2 DEF WalType
<1> HIDE DEF n
<1>4. \A i \in 1 .. n : w.queue[i] \in old /\ w.queue[i] \in Nat
  BY <1>2, <1>3
<1>5. w.initial \in FinSets /\ Sorted(w.initial) \in Seq(w.initial) /\ Sorted(w.initial) \in Seq(Nat)
  BY SortedFacts DEF WalType
<1>6. SubSeq(w.queue, n + 1, Len(w.queue)) \in Seq(Nat)
  BY <1>2, <1>3
<1>7. /\ start \in WalType /\ start.initial = {} /\ start.minRecycle = w.minRecycle
      /\ start.recycler = w.recycler /\ start.delete = Sorted(w.initial)
  <2>1. {} \in FinSets
    BY FinParts
  <2> QED
    BY <2>1, <1>5, <1>6 DEF WalType
<1> HIDE DEF start
<1>8. ASSUME NEW i \in 1 .. n, NEW x \in WalType
      PROVE  RecyclerAdd(x, w.queue[i]) \in WalType
  <2>1. Grew(x, RecyclerAdd(x, w.queue[i]), old)
    <3> HIDE DEF old
    <3> QED
      BY <1>4, RecyclerAddFacts
  <2> QED
    BY <2>1 DEF Grew
<1>9. step \in [1 .. n -> [WalType -> WalType]]
  BY <1>8
<1>10. PICK f \in [0 .. n -> WalType] : Solves(f, start, n, step)
  <2> HIDE DEF step
  <2> QED
    BY <1>3, <1>7, <1>9, RecExists
<1>11. Eq(f)
  <2>1. ASSUME NEW i \in 1 .. n PROVE f[i] = RecyclerAdd(f[i - 1], w.queue[i])
    <3>1. f[i - 1] \in WalType
      BY <1>3
    <3>2. step[i][f[i - 1]] = RecyclerAdd(f[i - 1], w.queue[i])
      BY <3>1
    <3> QED
      BY <3>2, <1>10 DEF Solves
  <2> QED
    BY <2>1, <1>10 DEF Solves
<1>12. Eq(A)
  BY <1>11
<1> HIDE DEF A
<1> DEFINE T == {i \in 0 .. n : Grew(start, A[i], old)}
<1>13. 0 \in T
  <2>1. 0 \in 0 .. n /\ A[0] = start
    BY <1>3, <1>12
  <2>2. Grew(start, start, old)
    <3>1. start.recycler \in Seq(Nat) /\ start.delete \in Seq(Nat)
      BY <1>7 DEF WalType
    <3>2. \A i \in 1 .. Len(start.recycler) :
            \E j \in 1 .. Len(start.recycler) : start.recycler[i] = start.recycler[j]
      BY <3>1
    <3>3. \A i \in 1 .. Len(start.delete) :
            \E j \in 1 .. Len(start.delete) : start.delete[i] = start.delete[j]
      BY <3>1
    <3>4. Len(start.recycler) >= Len(start.recycler)
      BY <3>1
    <3> QED
      BY <1>7, <3>2, <3>3, <3>4 DEF Grew
  <2> QED
    BY <2>1, <2>2
<1>14. ASSUME NEW i \in 1 .. n, i - 1 \in T PROVE i \in T
  <2>1. i \in 0 .. n /\ A[i] = RecyclerAdd(A[i - 1], w.queue[i])
    BY <1>3, <1>12
  <2>2. Grew(start, A[i - 1], old)
    BY <1>14
  <2> DEFINE x == A[i - 1]
             y == A[i]
  <2>3. x \in WalType
    BY <2>2 DEF Grew
  <2>4. Grew(x, y, old)
    <3>1. w.queue[i] \in Nat /\ w.queue[i] \in old
      BY <1>4
    <3> HIDE DEF old, x
    <3>2. Grew(x, RecyclerAdd(x, w.queue[i]), old)
      BY <2>3, <3>1, RecyclerAddFacts
    <3> QED
      BY <2>1, <3>2 DEF x
  <2>5. Grew(start, x, old)
    BY <2>2
  <2> HIDE DEF x, y, old
  <2>6. Grew(start, y, old)
    <3>1. /\ start.recycler \in Seq(Nat) /\ x.recycler \in Seq(Nat) /\ y.recycler \in Seq(Nat)
      BY <1>7, <2>3, <2>4 DEF WalType, Grew
    <3>2. PICK a \in Nat, b \in Nat, c \in Nat :
            a = Len(start.recycler) /\ b = Len(x.recycler) /\ c = Len(y.recycler)
      BY <3>1
    <3>3. a <= b /\ b <= c
      BY <2>4, <2>5, <3>2 DEF Grew
    <3>4. \A j \in 1 .. a : y.recycler[j] = start.recycler[j]
      BY <2>4, <2>5, <3>2, <3>3 DEF Grew
    <3>5. ASSUME NEW j \in 1 .. c, y.recycler[j] \notin old
          PROVE  \E k \in 1 .. a : y.recycler[j] = start.recycler[k]
      <4>1. PICK k \in 1 .. b : y.recycler[j] = x.recycler[k]
        BY <2>4, <3>2, <3>5 DEF Grew
      <4> QED
        BY <4>1, <2>5, <3>2, <3>5 DEF Grew
    <3>6. ASSUME NEW j \in 1 .. Len(y.delete), y.delete[j] \notin old
          PROVE  \E k \in 1 .. Len(start.delete) : y.delete[j] = start.delete[k]
      <4>1. PICK k \in 1 .. Len(x.delete) : y.delete[j] = x.delete[k]
        BY <2>4, <3>6 DEF Grew
      <4> QED
        BY <4>1, <2>5, <3>6 DEF Grew
    <3>7. /\ y \in WalType /\ y.queue = start.queue /\ y.initial = start.initial
          /\ y.minRecycle = start.minRecycle
      BY <2>4, <2>5 DEF Grew
    <3>8. c >= a
      BY <3>3
    <3> QED
      BY <3>2, <3>4, <3>5, <3>6, <3>7, <3>8 DEF Grew
  <2> QED
    BY <2>1, <2>6 DEF y
<1>15. n \in T
  <2>1. n \in 0 .. n
    BY <1>3
  <2> HIDE DEF T
  <2> QED
    BY <2>1, <1>3, <1>13, <1>14, Induct
<1>16. Grew(start, A[n], old)
  BY <1>15
<1> DEFINE y == A[n]
<1> HIDE DEF y
<1>17. Grew(start, y, old)
  BY <1>16 DEF y
<1>18. ASSUME NEW i \in 1 .. Len(y.delete), ~(y.delete[i] < min) PROVE y.delete[i] \in w.initial
  <2>1. PICK j \in 1 .. Len(start.delete) : y.delete[i] = start.delete[j]
    BY <1>17, <1>18 DEF Grew
  <2>2. start.delete[j] \in w.initial
    BY <1>5, <1>7, ElementOfSeq
  <2> QED
    BY <2>1, <2>2
<1>19. AfterObsolete(w, y, min)
  BY <1>7, <1>17, <1>18 DEF Grew, AfterObsolete
<1> QED
  BY <1>1, <1>19 DEF y

\* An ingest is alone in its log, so that all of a log is read.
LEMMA ReadableFacts ==
  ASSUME NEW l, logs[l] \in LogFile, AloneInLog(logs[l].recs)
  PROVE  Readable(l) = logs[l].recs
<1> DEFINE recs == logs[l].recs
           S == {k \in 0 .. Len(recs) : \A i \in 1 .. k - 1 : recs[i].kind # "ingest"}
<1>1. recs \in Seq(Record) /\ Len(recs) \in Nat
  BY DEF LogFile
<1>2. Len(recs) \in S
  <2> SUFFICES ASSUME NEW i \in 1 .. Len(recs) - 1, recs[i].kind = "ingest" PROVE FALSE
    BY <1>1
  <2>1. i \in DOMAIN recs
    BY <1>1
  <2>2. Len(recs) = 1
    BY <2>1 DEF AloneInLog
  <2> QED
    BY <2>2
<1>3. S \in FinSets
  <2>1. 0 .. Len(recs) \in FinSets
    BY <1>1, FinParts
  <2>2. S \subseteq 0 .. Len(recs)
    OBVIOUS
  <2> HIDE DEF S
  <2> QED
    BY <2>1, <2>2, FinParts
<1>4. Max(S) \in S /\ Max(S) \in Nat /\ Len(recs) <= Max(S)
  <2> HIDE DEF S
  <2> QED
    BY <1>2, <1>3, MaxFin
<1>5. Max(S) <= Len(recs)
  BY <1>4, <1>1
<1>6. Max(S) = Len(recs)
  BY <1>1, <1>4, <1>5
<1>7. Readable(l) = SubSeq(recs, 1, Max(S))
  BY DEF Readable
<1> HIDE DEF recs, S
<1>8. SubSeq(recs, 1, Len(recs)) = recs
  BY <1>1
<1> QED
  BY <1>6, <1>7, <1>8 DEF recs

\* The numbers of the records read, the highest of which is the last seqnum.
LEMMA SeqsFacts ==
  ASSUME NEW recs \in Seq(Record)
  PROVE  {r.seq : r \in Range(recs)} \in FinSets
<1>1. Len(recs) \in Nat /\ DOMAIN recs = 1 .. Len(recs)
  OBVIOUS
<1> DEFINE f == [i \in 1 .. Len(recs) |-> recs[i].seq]
<1>2. f \in [1 .. Len(recs) -> Nat]
  <2>1. ASSUME NEW i \in 1 .. Len(recs) PROVE recs[i].seq \in Nat
    <3>1. recs[i] \in Record
      OBVIOUS
    <3> QED
      BY <3>1 DEF Record
  <2> QED
    BY <2>1
<1>3. IsFiniteSet(1 .. Len(recs))
  BY <1>1, FS_Interval
<1>4. {f[i] : i \in 1 .. Len(recs)} \in FinSets
  <2> HIDE DEF f
  <2> QED
    BY <1>2, <1>3, FinImage
<1>5. {r.seq : r \in Range(recs)} = {f[i] : i \in 1 .. Len(recs)}
  BY <1>1 DEF Range
<1> QED
  BY <1>4, <1>5

NoIngest(recs) == \A i \in DOMAIN recs : recs[i].kind # "ingest"

\* The entries of a log carry its number and no reference, and one that is
\* an ingest is alone and stands for a record that is one.
GoodEntries(q, l) ==
  /\ q \in Seq(QEntry)
  /\ \A i \in 1 .. Len(q) : q[i].logNum = l /\ ReadyForFlush(q[i])
  /\ \A i \in 1 .. Len(q) : q[i].kind = "ingest" => Len(q) = 1
  /\ \A i \in 1 .. Len(q) : q[i].kind = "ingest" => ~NoIngest(logs[l].recs)

\* The entries of a log have its number and are ready to be flushed.
LEMMA EntriesFacts ==
  ASSUME NEW l \in Nat, logs[l] \in LogFile, AloneInLog(logs[l].recs)
  PROVE  GoodEntries(Entries(l), l)
<1> DEFINE recs == Readable(l)
           Small(i) == recs[i].kind = "small"
           H == {i \in DOMAIN recs : ~Small(i) \/ i = 1 \/ ~Small(i - 1)}
           From(i) == {j \in i .. Len(recs) : \A k \in i .. j : Small(k)}
           Mem(i) == [Entry("mem", l, recs[i].seq, MemTableSize)
                        EXCEPT !.forced = TRUE,
                               !.writes = {recs[j].seq : j \in From(i)}]
           Table(i) ==
             CASE recs[i].kind = "large" -> LargeBatch(l, recs[i].seq)
               [] recs[i].kind = "ingest" ->
                    IngestedFlushable(l, recs[i].seq, recs[i].file)
               [] OTHER -> Mem(i)
<1>1. /\ recs \in Seq(Record) /\ Len(recs) \in Nat /\ DOMAIN recs = 1 .. Len(recs)
      /\ AloneInLog(recs) /\ recs = logs[l].recs
  <2>1. recs = logs[l].recs
    BY ReadableFacts
  <2> HIDE DEF recs
  <2>2. recs \in Seq(Record) /\ AloneInLog(recs)
    BY <2>1 DEF LogFile
  <2> QED
    BY <2>1, <2>2
<1>2. Entries(l) = [h \in DOMAIN Sorted(H) |-> Table(Sorted(H)[h])]
  BY DEF Entries
<1> HIDE DEF recs
<1>3. ASSUME NEW i \in DOMAIN recs
      PROVE  /\ recs[i].seq \in Nat /\ recs[i].file \in Nat
             /\ recs[i].kind \in {"small", "large", "ingest"}
  <2>1. recs[i] \in Record
    BY <1>1
  <2> QED
    BY <2>1 DEF Record
<1>4. ASSUME NEW i \in DOMAIN recs
      PROVE  /\ Mem(i) \in QEntry /\ Mem(i).logNum = l /\ Mem(i).kind = "mem"
             /\ Mem(i).refs = 0
  <2> DEFINE W == {recs[j].seq : j \in From(i)}
             f == [j \in From(i) |-> recs[j].seq]
  <2>1. From(i) \subseteq 1 .. Len(recs) /\ i \in Nat
    BY <1>1
  <2>2. IsFiniteSet(From(i))
    <3>1. IsFiniteSet(1 .. Len(recs))
      BY <1>1, FinParts DEF FinSets
    <3> HIDE DEF From
    <3> QED
      BY <2>1, <3>1, FS_Subset
  <2> HIDE DEF From
  <2>3. f \in [From(i) -> Nat]
    BY <2>1, <1>1, <1>3
  <2>4. W \in FinSets
    <3>1. {f[j] : j \in From(i)} \in FinSets
      <4> HIDE DEF f
      <4> QED
        BY <2>2, <2>3, FinImage
    <3> QED
      BY <3>1
  <2>5. Mem(i) = [Entry("mem", l, recs[i].seq, MemTableSize)
                    EXCEPT !.forced = TRUE, !.writes = W]
    OBVIOUS
  <2>6. PICK s \in Nat : s = recs[i].seq
    BY <1>3
  <2>7. Mem(i) = Replayed(l, s, W)
    BY <2>5, <2>6 DEF Replayed
  <2> HIDE DEF W, Mem
  <2> QED
    BY <2>4, <2>7, ReplayedFacts
<1>5. ASSUME NEW i \in DOMAIN recs
      PROVE  /\ Table(i) \in QEntry /\ Table(i).logNum = l /\ ReadyForFlush(Table(i))
             /\ Table(i).kind = "ingest" => recs[i].kind = "ingest"
  <2> HIDE DEF Mem
  <2>1. CASE recs[i].kind = "large"
    <3>1. Table(i) = LargeBatch(l, recs[i].seq)
      BY <2>1
    <3> QED
      BY <3>1, <1>3, LargeBatchFacts DEF ReadyForFlush
  <2>2. CASE recs[i].kind = "ingest"
    <3>1. Table(i) = IngestedFlushable(l, recs[i].seq, recs[i].file)
      BY <2>2
    <3> QED
      BY <3>1, <2>2, <1>3, IngestedFacts DEF ReadyForFlush
  <2>3. CASE recs[i].kind = "small"
    <3>1. Table(i) = Mem(i)
      BY <2>3
    <3> QED
      BY <3>1, <1>4 DEF ReadyForFlush
  <2> QED
    BY <2>1, <2>2, <2>3, <1>3
<1> HIDE DEF Table
<1>6. H \in FinSets /\ H \subseteq 1 .. Len(recs)
  <2>1. 1 .. Len(recs) \in FinSets
    BY <1>1, FinParts
  <2>2. H \subseteq 1 .. Len(recs)
    BY <1>1
  <2> HIDE DEF H
  <2> QED
    BY <2>1, <2>2, FinParts
<1> HIDE DEF H
<1> DEFINE c == Cardinality(H)
<1>7. c \in Nat /\ Sorted(H) \in [1 .. c -> H]
  BY <1>6, SortedFacts
<1> DEFINE q == [h \in 1 .. c |-> Table(Sorted(H)[h])]
<1>8. Entries(l) = q
  BY <1>2, <1>7
<1>9. \A h \in 1 .. c : Sorted(H)[h] \in DOMAIN recs
  BY <1>1, <1>6, <1>7
<1>10. q \in [1 .. c -> QEntry]
  BY <1>5, <1>9
<1>11. q \in Seq(QEntry) /\ Len(q) = c
  <2> HIDE DEF q, c
  <2> QED
    BY <1>7, <1>10
<1>12. \A i \in 1 .. c : q[i].logNum = l /\ ReadyForFlush(q[i])
  BY <1>5, <1>9
<1>13. ASSUME NEW i \in 1 .. c, q[i].kind = "ingest" PROVE c = 1
  <2>1. PICK h \in DOMAIN recs : h \in H /\ recs[h].kind = "ingest"
    BY <1>5, <1>7, <1>9, <1>13
  <2>2. Len(recs) = 1
    BY <2>1, <1>1 DEF AloneInLog
  <2>3. H = {1}
    BY <1>1, <1>6, <2>1, <2>2
  <2> QED
    BY <2>3, FS_Singleton
<1>14. ASSUME NEW i \in 1 .. c, q[i].kind = "ingest" PROVE ~NoIngest(logs[l].recs)
  <2>1. PICK h \in DOMAIN recs : recs[h].kind = "ingest"
    BY <1>5, <1>9, <1>14
  <2> QED
    BY <1>1, <2>1 DEF NoIngest
<1> HIDE DEF q, c
<1>15. GoodEntries(q, l)
  BY <1>11, <1>12, <1>13, <1>14 DEF GoodEntries
<1> QED
  BY <1>8, <1>15

(***************************************************************************)
(* The invariant is inductive: the steps that leave the queue alone.       *)
(***************************************************************************)
\* The types, field by field.
LEMMA Fields ==
  ASSUME TypeOK
  PROVE  /\ Len(queue) \in Nat /\ DOMAIN queue = 1 .. Len(queue)
         /\ \A i \in 1 .. Len(queue) :
              /\ queue[i] \in QEntry /\ queue[i].logNum \in Nat
              /\ queue[i].logSeqNum \in Nat /\ queue[i].refs \in Nat
              /\ queue[i].writes \in FinSets /\ queue[i].size \in Nat
              /\ queue[i].file \in Nat
         /\ call.new \in Nat /\ call.reuse \in Nat /\ call.file \in Nat
         /\ flush.n \in Nat /\ flush.min \in Nat /\ flush.file \in Nat
         /\ vs.min \in Nat /\ manifest.min \in Nat /\ manifest.next \in Nat
         /\ manifest.last \in Nat
         /\ nextFile \in Nat /\ seq \in Nat /\ log \in Nat
<1>1. queue \in Seq(QEntry)
  BY DEF TypeOK, MemType
<1>2. Len(queue) \in Nat /\ DOMAIN queue = 1 .. Len(queue)
  BY <1>1
<1>3. \A i \in 1 .. Len(queue) : queue[i] \in QEntry
  BY <1>1
<1>4. \A e \in QEntry :
        /\ e.logNum \in Nat /\ e.logSeqNum \in Nat /\ e.refs \in Nat
        /\ e.writes \in FinSets /\ e.size \in Nat /\ e.file \in Nat
  BY DEF QEntry
<1>5. /\ call.new \in Nat /\ call.reuse \in Nat /\ call.file \in Nat
      /\ flush.n \in Nat /\ flush.min \in Nat /\ flush.file \in Nat
      /\ vs.min \in Nat /\ nextFile \in Nat /\ seq \in Nat /\ log \in Nat
  BY DEF TypeOK, ProcType, CallType, FlushType, VersionType
<1>6. manifest.min \in Nat /\ manifest.next \in Nat /\ manifest.last \in Nat
  BY DEF TypeOK, DiskType
<1> QED
  BY <1>2, <1>3, <1>4, <1>5, <1>6

\* Bounds stay bounds when the bound grows.
LEMMA Later ==
  ASSUME NEW m \in Nat, NEW n \in Nat, m <= n
  PROVE  \A x \in Nat : (x <= m => x <= n) /\ (x <= m + 1 => x <= n + 1)
OBVIOUS

\* Later sequence numbers do not disturb the queue.
LEMMA QueueKept ==
  ASSUME IInv, queue' = queue, inflight' = inflight, phase' = phase,
         (log' = log /\ manifest' = manifest) \/ phase # "replaying",
         vs' = vs, seq' \in Nat, seq <= seq'
  PROVE  OrderInv' /\ ReplayInv' /\ RefsInv' /\ BatchInv'
<1>1. /\ Len(queue) \in Nat /\ DOMAIN queue = 1 .. Len(queue) /\ seq \in Nat
      /\ \A i \in 1 .. Len(queue) : queue[i].logSeqNum \in Nat
  BY Fields DEF IInv
<1>2. \A x \in Nat : x <= seq + 1 => x <= seq' + 1
  BY <1>1, Later
<1>3. OrderInv'
  BY DEF IInv, OrderInv, Up
<1>4. ReplayInv'
  BY <1>1, <1>2 DEF IInv, ReplayInv
<1>5. RefsInv'
  <2>1. phase \in {"open", "replayed"} => Len(queue) >= 1
    BY DEF IInv, PhaseInv, Up
  <2>2. phase \in {"open", "replayed"} => Len(queue) \in 1 .. Len(queue)
    BY <2>1, <1>1
  <2> QED
    BY <1>1, <1>2, <2>2 DEF IInv, RefsInv, Mutable, OfLog
<1>6. BatchInv'
  <2>1. \A b \in inflight : b.seq \in Nat
    BY DEF IInv, TypeOK, MemType
  <2>2. \A x \in Nat : x <= seq => x <= seq'
    BY <1>1, Later
  <2> QED
    BY <2>1, <2>2 DEF IInv, BatchInv
<1> QED
  BY <1>3, <1>4, <1>5, <1>6

\* What the flush has taken, when neither the queue nor it changes.
LEMMA FlushKept ==
  ASSUME IInv, queue' = queue, flush' = flush
  PROVE  FlushInv'
BY DEF IInv, FlushInv

\* A batch that does not fit takes its sequence number only.
LEMMA CommitFullInd ==
  ASSUME IInv, CommitFull
  PROVE  IInv'
<1>1. /\ phase = "open" /\ call.pc = "idle" /\ seq' = seq + 1
      /\ call' = [Idle EXCEPT !.pc = "stall", !.kind = "small"]
      /\ UNCHANGED <<logs, gone, tables, manifest, queue, nextSize, inflight, phase,
                     nextFile, vs, log, flush, wal, jobs, acked>>
  BY DEF CommitFull, Begin, disk, mem
<1>2. call'.pc = "stall" /\ call'.kind = "small"
  BY <1>1 DEF Idle
<1>3. TypeOK'
  <2>1. call' \in CallType
    BY <1>1 DEF Idle, CallType
  <2> QED
    BY <1>1, <2>1 DEF IInv, TypeOK, DiskType, MemType, ProcType
<1>4. PhaseInv'
  BY <1>1, <1>2 DEF IInv, PhaseInv, Up
<1>5. Numbers' /\ IngestInv' /\ RecycleInv'
  BY <1>1, <1>2 DEF IInv, PhaseInv, Numbers, NewLog, Up, IngestInv, IngestWritten, RecycleInv
<1>6. LogsInv'
  BY <1>1, <1>2 DEF IInv, PhaseInv, LogsInv, IngestWritten
<1>7. OrderInv' /\ ReplayInv' /\ RefsInv' /\ BatchInv'
  <2>1. seq \in Nat
    BY Fields DEF IInv
  <2> QED
    BY <1>1, <2>1, QueueKept
<1>8. FlushInv'
  BY <1>1, FlushKept
<1> QED
  BY <1>3, <1>4, <1>5, <1>6, <1>7, <1>8 DEF IInv

\* A log with one more record.
AfterAppend(lg, l, k) ==
  /\ DOMAIN lg = DOMAIN logs /\ lg \in [DOMAIN lg -> LogFile]
  /\ \A x \in DOMAIN logs : x # l => lg[x] = logs[x]
  /\ l \in DOMAIN logs /\ k # "ingest" /\ NoIngest(logs[l].recs) =>
       NoIngest(lg[l].recs) /\ AloneInLog(lg[l].recs)
  /\ l \in DOMAIN logs /\ logs[l].recs = <<>> => AloneInLog(lg[l].recs)

\* One more record that is no ingest, or the first of its log.
LEMMA AppendedFacts ==
  ASSUME TypeOK, NEW l, NEW k \in {"small", "large", "ingest"}, NEW s \in Nat,
         NEW f \in Nat, NEW lg, lg = Appended(l, k, s, f)
  PROVE  AfterAppend(lg, l, k)
<1> DEFINE r == [kind |-> k, seq |-> s, file |-> f]
<1>1. r \in Record /\ r.kind = k
  BY DEF Record
<1> HIDE DEF r
<1>2. lg = [logs EXCEPT ![l].recs = Append(@, r)]
  BY DEF Appended, r
<1>3. logs \in [DOMAIN logs -> LogFile]
  BY DEF TypeOK, DiskType
<1>4. DOMAIN lg = DOMAIN logs /\ \A x \in DOMAIN logs : x # l => lg[x] = logs[x]
  BY <1>2
<1>5. ASSUME l \in DOMAIN logs
      PROVE  /\ lg[l] \in LogFile /\ logs[l].recs \in Seq(Record)
             /\ lg[l].recs = Append(logs[l].recs, r)
  <2>1. logs[l] \in LogFile
    BY <1>3, <1>5
  <2>2. lg[l] = [logs[l] EXCEPT !.recs = Append(@, r)]
    BY <1>2, <1>5
  <2>3. logs[l].recs \in Seq(Record)
    BY <2>1 DEF LogFile
  <2>4. Append(logs[l].recs, r) \in Seq(Record)
    BY <2>3, <1>1
  <2> QED
    BY <2>1, <2>2, <2>3, <2>4 DEF LogFile
<1>6. ASSUME NEW x \in DOMAIN lg PROVE lg[x] \in LogFile
  <2>1. CASE x = l
    BY <1>4, <1>5, <2>1
  <2>2. CASE x # l
    BY <1>3, <1>4, <2>2
  <2> QED
    BY <2>1, <2>2
<1>7. lg \in [DOMAIN lg -> LogFile]
  BY <1>2, <1>4, <1>6
<1>8. ASSUME l \in DOMAIN logs, k # "ingest", NoIngest(logs[l].recs)
      PROVE  NoIngest(lg[l].recs) /\ AloneInLog(lg[l].recs)
  <2>1. logs[l].recs \in Seq(Record) /\ lg[l].recs = Append(logs[l].recs, r)
    BY <1>5, <1>8
  <2>2. ASSUME NEW i \in DOMAIN lg[l].recs PROVE lg[l].recs[i].kind # "ingest"
    <3>1. i \in DOMAIN logs[l].recs \/ lg[l].recs[i] = r
      BY <2>1, AppendProperties
    <3>2. CASE i \in DOMAIN logs[l].recs
      <4>1. lg[l].recs[i] = logs[l].recs[i]
        BY <2>1, <3>2, AppendProperties
      <4> QED
        BY <3>2, <4>1, <1>8 DEF NoIngest
    <3> QED
      BY <3>1, <3>2, <1>1, <1>8
  <2> QED
    BY <2>2 DEF NoIngest, AloneInLog
<1>9. ASSUME l \in DOMAIN logs, logs[l].recs = <<>> PROVE AloneInLog(lg[l].recs)
  <2>1. lg[l].recs = <<r>>
    BY <1>5, <1>9
  <2>2. Len(lg[l].recs) = 1
    BY <2>1
  <2> QED
    BY <2>2 DEF AloneInLog
<1> QED
  BY <1>4, <1>7, <1>8, <1>9 DEF AfterAppend

\* A log that is synced, and perhaps closed, keeps its records.
LEMMA SyncedFacts ==
  ASSUME TypeOK, NEW l, NEW lg, lg = Synced(l) \/ lg = [Synced(l) EXCEPT ![l].closed = TRUE]
  PROVE  /\ DOMAIN lg = DOMAIN logs /\ lg \in [DOMAIN lg -> LogFile]
         /\ \A x \in DOMAIN logs : lg[x].recs = logs[x].recs
<1>1. logs \in [DOMAIN logs -> LogFile]
  BY DEF TypeOK, DiskType
<1> DEFINE sy == Synced(l)
           n == Len(logs[l].recs)
<1>2. sy = [logs EXCEPT ![l].synced = n]
  BY DEF Synced
<1>3. ASSUME NEW x \in DOMAIN logs PROVE sy[x] \in LogFile /\ sy[x].recs = logs[x].recs
  <2>1. logs[x] \in LogFile
    BY <1>1
  <2>2. CASE x = l
    <3>1. n \in Nat
      BY <2>1, <2>2 DEF LogFile
    <3> HIDE DEF n, sy
    <3>2. sy[x] = [logs[x] EXCEPT !.synced = n]
      BY <1>2, <2>2
    <3> QED
      BY <2>1, <3>1, <3>2 DEF LogFile
  <2>3. CASE x # l
    BY <1>2, <2>1, <2>3
  <2> QED
    BY <2>2, <2>3
<1>4. DOMAIN sy = DOMAIN logs
  BY <1>2
<1> HIDE DEF sy, n
<1>5. CASE lg = sy
  BY <1>2, <1>3, <1>4, <1>5
<1>6. CASE lg = [sy EXCEPT ![l].closed = TRUE]
  <2>1. DOMAIN lg = DOMAIN logs
    BY <1>4, <1>6
  <2>2. ASSUME NEW x \in DOMAIN logs PROVE lg[x] \in LogFile /\ lg[x].recs = logs[x].recs
    <3>1. sy[x] \in LogFile /\ sy[x].recs = logs[x].recs
      BY <1>3
    <3>2. CASE x = l
      <4>1. lg[x] = [sy[x] EXCEPT !.closed = TRUE]
        BY <1>4, <1>6, <3>2
      <4> QED
        BY <3>1, <4>1 DEF LogFile
    <3>3. CASE x # l
      BY <1>4, <1>6, <3>1, <3>3
    <3> QED
      BY <3>2, <3>3
  <2> QED
    BY <1>6, <2>1, <2>2
<1> QED
  BY <1>5, <1>6 DEF sy

\* Two maps in one, and a map without some of its keys.
LEMMA MapFacts ==
  ASSUME NEW f, NEW g, NEW S
  PROVE  /\ DOMAIN Joined(f, g) = DOMAIN f \cup DOMAIN g
         /\ \A x \in DOMAIN f : Joined(f, g)[x] = f[x]
         /\ \A x \in DOMAIN g \ DOMAIN f : Joined(f, g)[x] = g[x]
         /\ Joined(f, g) = [x \in DOMAIN Joined(f, g) |-> Joined(f, g)[x]]
         /\ DOMAIN Without(f, S) = DOMAIN f \ S
         /\ \A x \in DOMAIN f \ S : Without(f, S)[x] = f[x]
         /\ Without(f, S) = [x \in DOMAIN Without(f, S) |-> Without(f, S)[x]]
BY DEF Joined, Without

\* The same, for maps from numbers.
MapType(f, T) == DOMAIN f \in FinSets /\ f \in [DOMAIN f -> T]

\* Joining two such maps, and leaving numbers out of one.
LEMMA MapTypes ==
  ASSUME NEW T, NEW f, MapType(f, T), NEW g, MapType(g, T), NEW S
  PROVE  MapType(Joined(f, g), T) /\ MapType(Without(f, S), T)
<1>1. DOMAIN Joined(f, g) \in FinSets
  <2>1. DOMAIN Joined(f, g) = DOMAIN f \cup DOMAIN g
    BY MapFacts
  <2> QED
    BY <2>1, FinParts DEF MapType
<1>2. DOMAIN Without(f, S) \in FinSets
  BY MapFacts, FinParts DEF MapType
<1>3. Joined(f, g) \in [DOMAIN Joined(f, g) -> T]
  BY DEF MapType, Joined
<1>4. Without(f, S) \in [DOMAIN Without(f, S) -> T]
  BY DEF MapType, Without
<1> QED
  BY <1>1, <1>2, <1>3, <1>4 DEF MapType

\* A map with one key, and the part of one on some keys.
LEMMA SmallMaps ==
  /\ \A k \in Nat : \A T : \A v \in T : MapType([x \in {k} |-> v], T)
  /\ \A f, T, S : MapType(f, T) => MapType([x \in S \cap DOMAIN f |-> f[x]], T)
<1>1. ASSUME NEW k \in Nat, NEW T, NEW v \in T PROVE MapType([x \in {k} |-> v], T)
  <2>1. {k} \in FinSets
    BY FinParts
  <2> QED
    BY <2>1 DEF MapType
<1>2. ASSUME NEW f, NEW T, NEW S, MapType(f, T)
      PROVE  MapType([x \in S \cap DOMAIN f |-> f[x]], T)
  <2>1. S \cap DOMAIN f \in FinSets
    BY <1>2, FinParts DEF MapType
  <2> QED
    BY <2>1, <1>2 DEF MapType
<1> QED
  BY <1>1, <1>2

\* The record of a new log.
LEMMA EmptyLogType == EmptyLog \in LogFile /\ EmptyLog.recs = <<>>
BY DEF EmptyLog, LogFile

\* A large batch is a record more in the current log.
LEMMA CommitLargeInd ==
  ASSUME IInv, CommitLarge
  PROVE  IInv'
<1>1. /\ phase = "open" /\ call.pc = "idle" /\ seq' = seq + 1
      /\ logs' = Appended(log, "large", seq + 1, 0)
      /\ call' = [Idle EXCEPT !.pc = "stall", !.kind = "large"]
      /\ UNCHANGED <<gone, tables, manifest, queue, nextSize, inflight, phase,
                     nextFile, vs, log, flush, wal, jobs>>
  BY DEF CommitLarge, Begin, mem
<1>2. call'.pc = "stall" /\ call'.kind = "large"
  BY <1>1 DEF Idle
<1>s. seq \in Nat /\ TypeOK
  BY Fields DEF IInv
<1>a. /\ DOMAIN logs' = DOMAIN logs /\ logs' \in [DOMAIN logs' -> LogFile]
      /\ \A x \in DOMAIN logs : x # log => logs'[x] = logs[x]
      /\ log \in DOMAIN logs /\ NoIngest(logs[log].recs) =>
           NoIngest(logs'[log].recs) /\ AloneInLog(logs'[log].recs)
  <2>1. seq + 1 \in Nat /\ 0 \in Nat
    BY <1>s
  <2>2. AfterAppend(logs', log, "large")
    BY <1>1, <1>s, <2>1, AppendedFacts
  <2> QED
    BY <2>2 DEF AfterAppend
<1>3. TypeOK'
  <2>1. call' \in CallType
    BY <1>1 DEF Idle, CallType
  <2> QED
    BY <1>1, <1>a, <2>1 DEF IInv, TypeOK, DiskType, MemType, ProcType
<1>4. PhaseInv'
  BY <1>1, <1>2 DEF IInv, PhaseInv, Up
<1>5. Numbers' /\ IngestInv' /\ RecycleInv'
  BY <1>1, <1>2, <1>a DEF IInv, PhaseInv, Numbers, NewLog, Up, IngestInv, IngestWritten, RecycleInv
<1>6. LogsInv'
  <2>1. log \in DOMAIN logs => NoIngest(logs[log].recs)
    BY <1>1 DEF IInv, PhaseInv, LogsInv, IngestWritten, NoIngest
  <2>2. \A l \in DOMAIN logs' : AloneInLog(logs'[l].recs)
    BY <1>a, <2>1 DEF IInv, LogsInv
  <2> QED
    BY <1>1, <1>2, <1>a, <2>1, <2>2 DEF IInv, LogsInv, NoIngest
<1>7. OrderInv' /\ ReplayInv' /\ RefsInv' /\ BatchInv'
  BY <1>1, <1>s, QueueKept
<1>8. FlushInv'
  BY <1>1, FlushKept
<1> QED
  BY <1>3, <1>4, <1>5, <1>6, <1>7, <1>8 DEF IInv

\* A flush that is asked for waits for its turn to rotate.
LEMMA AsyncFlushInd ==
  ASSUME IInv, AsyncFlush
  PROVE  IInv'
<1>1. /\ phase = "open" /\ call.pc = "idle"
      /\ call' = [Idle EXCEPT !.pc = "stall", !.kind = "flush"]
      /\ UNCHANGED <<logs, gone, tables, manifest, queue, nextSize, inflight, phase,
                     nextFile, seq, vs, log, flush, wal, jobs>>
  BY DEF AsyncFlush, Begin, disk, mem
<1>2. call'.pc = "stall" /\ call'.kind = "flush"
  BY <1>1 DEF Idle
<1>3. TypeOK'
  <2>1. call' \in CallType
    BY <1>1 DEF Idle, CallType
  <2> QED
    BY <1>1, <2>1 DEF IInv, TypeOK, DiskType, MemType, ProcType
<1>4. PhaseInv'
  BY <1>1, <1>2 DEF IInv, PhaseInv, Up
<1>5. Numbers' /\ IngestInv' /\ RecycleInv'
  BY <1>1, <1>2 DEF IInv, PhaseInv, Numbers, NewLog, Up, IngestInv, IngestWritten, RecycleInv
<1>6. LogsInv'
  BY <1>1, <1>2 DEF IInv, PhaseInv, LogsInv, IngestWritten
<1>7. OrderInv' /\ ReplayInv' /\ RefsInv' /\ BatchInv'
  <2>1. seq \in Nat
    BY Fields DEF IInv
  <2> QED
    BY <1>1, <2>1, QueueKept
<1>8. FlushInv'
  BY <1>1, FlushKept
<1> QED
  BY <1>3, <1>4, <1>5, <1>6, <1>7, <1>8 DEF IInv

\* An ingest takes a file number and links its sstable.
LEMMA IngestAsFlushableInd ==
  ASSUME IInv, IngestAsFlushable
  PROVE  IInv'
<1>1. /\ phase = "open" /\ call.pc = "idle" /\ seq' = seq + 1 /\ nextFile' = nextFile + 1
      /\ tables' = Joined(tables, [t \in {nextFile} |-> {seq + 1}])
      /\ call' = [Idle EXCEPT !.pc = "close", !.kind = "ingest", !.file = nextFile]
      /\ UNCHANGED <<logs, gone, manifest, queue, nextSize, inflight, phase,
                     vs, log, flush, wal, jobs>>
  BY DEF IngestAsFlushable, Begin, mem
<1>2. call'.pc = "close" /\ call'.kind = "ingest"
  BY <1>1 DEF Idle
<1>s. seq \in Nat /\ nextFile \in Nat
  BY Fields DEF IInv
<1>a. MapType(tables', FinSets) /\ DOMAIN tables' = DOMAIN tables \cup {nextFile}
  <2> DEFINE one == [t \in {nextFile} |-> {seq + 1}]
  <2>1. {seq + 1} \in FinSets
    <3>1. seq + 1 \in Nat
      BY <1>s
    <3> QED
      BY <3>1, FinParts
  <2>2. MapType(one, FinSets)
    BY <1>s, <2>1, SmallMaps
  <2>3. DOMAIN one = {nextFile}
    OBVIOUS
  <2>4. MapType(tables, FinSets)
    BY DEF IInv, TypeOK, DiskType, MapType
  <2> HIDE DEF one
  <2>5. tables' = Joined(tables, one)
    BY <1>1 DEF one
  <2>6. MapType(tables', FinSets)
    BY <2>2, <2>4, <2>5, MapTypes
  <2>7. DOMAIN tables' = DOMAIN tables \cup DOMAIN one
    BY <2>5, MapFacts
  <2> QED
    BY <2>3, <2>6, <2>7
<1>3. TypeOK'
  <2>1. call' \in CallType
    BY <1>1, <1>s DEF Idle, CallType
  <2> QED
    <3>1. DiskType'
      BY <1>1, <1>a DEF IInv, TypeOK, DiskType, MapType
    <3>2. seq' \in Nat /\ nextFile' \in Nat
      BY <1>1, <1>s
    <3> QED
      BY <1>1, <3>1, <3>2, <2>1 DEF IInv, TypeOK, MemType, ProcType
<1>4. PhaseInv'
  BY <1>1, <1>2 DEF IInv, PhaseInv, Up
<1>5. Numbers'
  <2>1. \A x \in Nat : x < nextFile => x < nextFile'
    BY <1>1, <1>s
  <2>2. nextFile < nextFile'
    BY <1>1, <1>s
  <2>3. DOMAIN logs \subseteq Nat /\ DOMAIN tables \subseteq Nat /\ DOMAIN gone \subseteq Nat
    BY DEF IInv, TypeOK, DiskType, FinSets
  <2>4. /\ \A i \in DOMAIN queue : queue[i].logNum \in Nat
        /\ vs.min \in Nat /\ log \in Nat /\ flush.file \in Nat
    BY Fields DEF IInv
  <2> QED
    BY <1>1, <1>2, <1>a, <2>1, <2>2, <2>3, <2>4 DEF IInv, Numbers, NewLog, Up
<1>6. IngestInv' /\ RecycleInv' /\ LogsInv'
  BY <1>1, <1>2 DEF IInv, PhaseInv, LogsInv, IngestInv, IngestWritten, RecycleInv
<1>7. OrderInv' /\ ReplayInv' /\ RefsInv' /\ BatchInv'
  BY <1>1, <1>s, QueueKept
<1>8. FlushInv'
  BY <1>1, FlushKept
<1> QED
  BY <1>3, <1>4, <1>5, <1>6, <1>7, <1>8 DEF IInv

\* A writer stalls, or need not.
LEMMA InduceWriteStallInd ==
  ASSUME IInv, InduceWriteStall
  PROVE  IInv'
<1>1. /\ call.pc = "stall"
      /\ call' = [call EXCEPT !.pc = IF Stalled THEN "wait" ELSE "close"]
      /\ UNCHANGED <<logs, gone, tables, manifest, queue, nextSize, inflight, phase,
                     nextFile, seq, vs, log, flush, wal, jobs>>
  BY DEF InduceWriteStall, disk, mem
<1>2. /\ call' \in CallType /\ call'.pc \in {"wait", "close"} /\ call'.kind = call.kind
  BY <1>1 DEF IInv, TypeOK, ProcType, CallType
<1>3. TypeOK'
  BY <1>1, <1>2 DEF IInv, TypeOK, DiskType, MemType, ProcType
<1>4. PhaseInv'
  BY <1>1, <1>2 DEF IInv, PhaseInv, Up
<1>5. Numbers' /\ IngestInv' /\ RecycleInv'
  BY <1>1, <1>2 DEF IInv, PhaseInv, Numbers, NewLog, Up, IngestInv, IngestWritten, RecycleInv
<1>6. LogsInv'
  BY <1>1, <1>2 DEF IInv, PhaseInv, LogsInv, IngestWritten
<1>7. OrderInv' /\ ReplayInv' /\ RefsInv' /\ BatchInv'
  <2>1. seq \in Nat
    BY Fields DEF IInv
  <2> QED
    BY <1>1, <2>1, QueueKept
<1>8. FlushInv'
  BY <1>1, FlushKept
<1> QED
  BY <1>3, <1>4, <1>5, <1>6, <1>7, <1>8 DEF IInv

\* The numbers in use are numbers.
LEMMA UsedNat ==
  ASSUME TypeOK
  PROVE  /\ DOMAIN logs \subseteq Nat /\ DOMAIN tables \subseteq Nat
         /\ DOMAIN gone \subseteq Nat
         /\ MapType(logs, LogFile) /\ MapType(gone, LogFile) /\ MapType(tables, FinSets)
BY DEF TypeOK, DiskType, FinSets, MapType

\* The number of the new log is above all that are in use.
LEMMA CloseLogInd ==
  ASSUME IInv, CloseLog
  PROVE  IInv'
<1>1. /\ call.pc \in {"close", "sync"}
      /\ call' = [call EXCEPT !.pc = "create", !.new = nextFile,
                              !.kind = IF call.pc = "sync" THEN "ingested" ELSE @]
      /\ nextFile' = nextFile + 1
      /\ logs' = [Synced(log) EXCEPT ![log].closed = TRUE]
      /\ UNCHANGED <<gone, tables, manifest, queue, nextSize, inflight, phase, seq,
                     vs, log, flush, wal, jobs>>
  BY DEF CloseLog, mem
<1>s. seq \in Nat /\ nextFile \in Nat /\ TypeOK
  BY Fields DEF IInv
<1>2. /\ call' \in CallType /\ call'.pc = "create" /\ call'.new = nextFile
      /\ call'.kind = IF call.pc = "sync" THEN "ingested" ELSE call.kind
  BY <1>1, <1>s DEF TypeOK, ProcType, CallType
<1>p. phase = "open" /\ call.kind # "open" /\ call.kind # "ingested" /\ phase' = "open"
  BY <1>1 DEF IInv, PhaseInv
<1>a. /\ DOMAIN logs' = DOMAIN logs /\ logs' \in [DOMAIN logs' -> LogFile]
      /\ \A x \in DOMAIN logs : logs'[x].recs = logs[x].recs
  <2>1. PICK l, lg : l = log /\ lg = logs'
    OBVIOUS
  <2>2. lg = [Synced(l) EXCEPT ![l].closed = TRUE]
    BY <1>1, <2>1
  <2>3. /\ DOMAIN lg = DOMAIN logs /\ lg \in [DOMAIN lg -> LogFile]
        /\ \A x \in DOMAIN logs : lg[x].recs = logs[x].recs
    BY <1>s, <2>2, SyncedFacts
  <2> QED
    BY <2>1, <2>3
<1>3. TypeOK'
  <2>1. nextFile' \in Nat
    BY <1>1, <1>s
  <2> QED
    BY <1>1, <1>a, <1>2, <2>1 DEF IInv, TypeOK, DiskType, MemType, ProcType
<1>4. PhaseInv'
  BY <1>1, <1>2, <1>p DEF IInv, PhaseInv, Up
<1>n. \A x \in Nat : x < nextFile => x < nextFile' /\ x # nextFile
  BY <1>1, <1>s
<1>5. Numbers'
  <2>1. nextFile < nextFile'
    BY <1>1, <1>s
  <2>2. DOMAIN logs \subseteq Nat /\ DOMAIN tables \subseteq Nat /\ DOMAIN gone \subseteq Nat
    BY <1>s, UsedNat
  <2>3. /\ \A i \in DOMAIN queue : queue[i].logNum \in Nat
        /\ vs.min \in Nat /\ log \in Nat /\ flush.file \in Nat
    BY Fields DEF IInv
  <2>4. NewLog'
    BY <1>1, <1>2, <1>p, <2>1 DEF IInv, Numbers, NewLog, Up
  <2> QED
    BY <1>1, <1>p, <1>a, <1>n, <2>2, <2>3, <2>4 DEF IInv, Numbers, Up
<1>6. LogsInv'
  <2>1. nextFile \notin DOMAIN logs
    BY <1>n, <1>p, <1>s, UsedNat DEF IInv, Numbers, Up
  <2> QED
    BY <1>1, <1>2, <1>p, <1>a, <2>1 DEF IInv, LogsInv, IngestWritten
<1>7. IngestInv' /\ RecycleInv'
  BY <1>1, <1>2, <1>p DEF IInv, IngestInv, IngestWritten, RecycleInv
<1>8. OrderInv' /\ ReplayInv' /\ RefsInv' /\ BatchInv'
  BY <1>1, <1>s, QueueKept
<1>9. FlushInv'
  BY <1>1, FlushKept
<1> QED
  BY <1>3, <1>4, <1>5, <1>6, <1>7, <1>8, <1>9 DEF IInv

\* A sync leaves the records as they are.
LEMMA SyncLogInd ==
  ASSUME IInv, SyncLog
  PROVE  IInv'
<1>1. /\ logs' = Synced(log)
      /\ UNCHANGED <<gone, tables, manifest, queue, nextSize, inflight, phase, seq,
                     nextFile, vs, log, call, flush, wal, jobs>>
  BY DEF SyncLog, mem
<1>s. seq \in Nat /\ TypeOK
  BY Fields DEF IInv
<1>a. /\ DOMAIN logs' = DOMAIN logs /\ logs' \in [DOMAIN logs' -> LogFile]
      /\ \A x \in DOMAIN logs : logs'[x].recs = logs[x].recs
  BY <1>1, <1>s, SyncedFacts
<1>3. TypeOK'
  BY <1>1, <1>a DEF IInv, TypeOK, DiskType, MemType, ProcType
<1>4. PhaseInv' /\ Numbers' /\ IngestInv' /\ RecycleInv'
  BY <1>1, <1>a DEF IInv, PhaseInv, Up, Numbers, NewLog, IngestInv, IngestWritten, RecycleInv
<1>5. LogsInv'
  BY <1>1, <1>a DEF IInv, LogsInv, IngestWritten
<1>8. OrderInv' /\ ReplayInv' /\ RefsInv' /\ BatchInv'
  BY <1>1, <1>s, QueueKept
<1>9. FlushInv'
  BY <1>1, FlushKept
<1> QED
  BY <1>3, <1>4, <1>5, <1>8, <1>9 DEF IInv

\* The new log is empty, and may take the place of a recycled one.
LEMMA CreateLogInd ==
  ASSUME IInv, CreateLog
  PROVE  IInv'
<1> DEFINE old == IF wal.recycler = <<>> THEN {} ELSE {Head(wal.recycler)}
           one == [l \in {call.new} |-> EmptyLog]
           removed == [l \in old \cap DOMAIN logs |-> logs[l]]
<1>1. /\ call.pc = "create"
      /\ call' = [call EXCEPT !.pc = "open",
                              !.reuse = IF old = {} THEN 0 ELSE Head(wal.recycler)]
      /\ logs' = Joined(Without(logs, old), one)
      /\ gone' = Joined(gone, removed)
      /\ UNCHANGED <<tables, manifest, queue, nextSize, inflight, phase, nextFile, seq,
                     vs, log, flush, wal, jobs>>
  BY DEF CreateLog, mem
<1>s. seq \in Nat /\ nextFile \in Nat /\ call.new \in Nat /\ log \in Nat /\ TypeOK
  BY Fields DEF IInv
<1>2. /\ call' \in CallType /\ call'.pc = "open" /\ call'.new = call.new
      /\ call'.kind = call.kind
      /\ call'.reuse # 0 => wal.recycler # <<>> /\ wal.recycler[1] = call'.reuse
  <2>1. wal.recycler \in Seq(Nat)
    BY <1>s DEF TypeOK, WalType
  <2>2. wal.recycler # <<>> => Head(wal.recycler) \in Nat /\ Head(wal.recycler) = wal.recycler[1]
    BY <2>1
  <2>3. call \in CallType
    BY <1>s DEF TypeOK, ProcType
  <2>4. PICK r \in Nat : /\ r = IF old = {} THEN 0 ELSE Head(wal.recycler)
                         /\ r # 0 => wal.recycler # <<>> /\ wal.recycler[1] = r
    BY <2>2
  <2>5. call' = [call EXCEPT !.pc = "open", !.reuse = r]
    BY <1>1, <2>4
  <2> QED
    BY <2>3, <2>4, <2>5 DEF CallType
<1> HIDE DEF old
<1>a. /\ MapType(logs', LogFile) /\ MapType(gone', LogFile)
      /\ DOMAIN logs' = (DOMAIN logs \ old) \cup {call.new}
      /\ \A x \in DOMAIN logs \ old : logs'[x] = logs[x]
      /\ call.new \notin DOMAIN logs => logs'[call.new] = EmptyLog
      /\ DOMAIN gone' = DOMAIN gone \cup (old \cap DOMAIN logs)
      /\ \A x \in DOMAIN gone' : gone'[x] = IF x \in DOMAIN gone THEN gone[x] ELSE logs[x]
  <2>1. MapType(logs, LogFile) /\ MapType(gone, LogFile)
    BY <1>s, UsedNat
  <2>2. MapType(one, LogFile) /\ MapType(removed, LogFile)
    BY <1>s, <2>1, EmptyLogType, SmallMaps
  <2>3. DOMAIN one = {call.new} /\ one[call.new] = EmptyLog
    OBVIOUS
  <2>4. DOMAIN removed = old \cap DOMAIN logs /\ \A x \in old \cap DOMAIN logs : removed[x] = logs[x]
    OBVIOUS
  <2> HIDE DEF one, removed
  <2>5. MapType(Without(logs, old), LogFile)
    BY <2>1, MapTypes
  <2>6. MapType(logs', LogFile) /\ MapType(gone', LogFile)
    BY <1>1, <2>1, <2>2, <2>5, MapTypes
  <2>7. /\ DOMAIN logs' = (DOMAIN logs \ old) \cup {call.new}
        /\ \A x \in DOMAIN logs \ old : logs'[x] = logs[x]
        /\ call.new \notin DOMAIN logs => logs'[call.new] = EmptyLog
    BY <1>1, <2>3 DEF Joined, Without
  <2>8. /\ DOMAIN gone' = DOMAIN gone \cup (old \cap DOMAIN logs)
        /\ \A x \in DOMAIN gone' : gone'[x] = IF x \in DOMAIN gone THEN gone[x] ELSE logs[x]
    BY <1>1, <2>4 DEF Joined
  <2> QED
    BY <2>6, <2>7, <2>8
<1>n. call.new < nextFile /\ log # call.new /\ call.new \notin DOMAIN logs
  BY <1>1, <1>s DEF IInv, Numbers, NewLog, LogsInv
<1>3. TypeOK'
  BY <1>1, <1>a, <1>2 DEF IInv, TypeOK, DiskType, MemType, ProcType, MapType
<1>4. PhaseInv'
  BY <1>1, <1>2 DEF IInv, PhaseInv, Up
<1>5. Numbers'
  BY <1>1, <1>2, <1>a, <1>n DEF IInv, Numbers, NewLog, Up
<1>6. LogsInv'
  <2>1. AloneInLog(EmptyLog.recs) /\ EmptyLog.recs = <<>>
    BY EmptyLogType DEF AloneInLog
  <2>2. \A l \in DOMAIN logs' : AloneInLog(logs'[l].recs)
    BY <1>a, <1>n, <2>1 DEF IInv, LogsInv
  <2>3. \A l \in DOMAIN gone' : AloneInLog(gone'[l].recs)
    BY <1>a DEF IInv, LogsInv
  <2>4. IngestWritten' => IngestWritten
    BY <1>1, <1>2 DEF IngestWritten
  <2>5. log \in DOMAIN logs' => log \in DOMAIN logs /\ logs'[log] = logs[log]
    BY <1>a, <1>n
  <2>6. ~IngestWritten' => ~IngestWritten
    BY <1>1, <1>2 DEF IngestWritten
  <2>7. logs'[call'.new].recs = <<>>
    BY <1>2, <1>a, <1>n, <2>1
  <2> QED
    BY <1>1, <1>2, <2>2, <2>3, <2>5, <2>6, <2>7 DEF IInv, LogsInv
<1>7. IngestInv' /\ RecycleInv'
  BY <1>1, <1>2 DEF IInv, IngestInv, IngestWritten, RecycleInv
<1>8. OrderInv' /\ ReplayInv' /\ RefsInv' /\ BatchInv'
  BY <1>1, <1>s, QueueKept
<1>9. FlushInv'
  BY <1>1, FlushKept
<1> QED
  BY <1>3, <1>4, <1>5, <1>6, <1>7, <1>8, <1>9 DEF IInv

\* So is the number of the log Open makes.
LEMMA OpenCreateLogInd ==
  ASSUME IInv, OpenCreateLog
  PROVE  IInv'
<1>1. /\ phase = "replayed" /\ flush.pc = "idle" /\ call.pc = "idle"
      /\ call' = [Idle EXCEPT !.pc = "create", !.kind = "open", !.new = nextFile]
      /\ nextFile' = nextFile + 1
      /\ UNCHANGED <<logs, gone, tables, manifest, queue, nextSize, inflight, phase, seq,
                     vs, log, flush, wal, jobs>>
  BY DEF OpenCreateLog, mem, disk
<1>s. seq \in Nat /\ nextFile \in Nat /\ TypeOK
  BY Fields DEF IInv
<1>2. /\ call' \in CallType /\ call'.pc = "create" /\ call'.new = nextFile
      /\ call'.kind = "open"
  BY <1>1, <1>s DEF Idle, CallType
<1>3. TypeOK'
  <2>1. nextFile' \in Nat
    BY <1>1, <1>s
  <2> QED
    BY <1>1, <1>2, <2>1 DEF IInv, TypeOK, DiskType, MemType, ProcType
<1>4. PhaseInv'
  BY <1>1, <1>2 DEF IInv, PhaseInv, Up
<1>n. \A x \in Nat : x < nextFile => x < nextFile' /\ x # nextFile
  BY <1>1, <1>s
<1>5. Numbers'
  <2>1. nextFile < nextFile'
    BY <1>1, <1>s
  <2>2. DOMAIN logs \subseteq Nat /\ DOMAIN tables \subseteq Nat /\ DOMAIN gone \subseteq Nat
    BY <1>s, UsedNat
  <2>3. /\ \A i \in DOMAIN queue : queue[i].logNum \in Nat
        /\ vs.min \in Nat /\ log \in Nat /\ flush.file \in Nat
    BY Fields DEF IInv
  <2>4. NewLog'
    BY <1>1, <1>2, <2>1 DEF IInv, Numbers, NewLog, Up
  <2> QED
    BY <1>1, <1>n, <2>2, <2>3, <2>4 DEF IInv, Numbers, Up
<1>6. LogsInv'
  <2>1. nextFile \notin DOMAIN logs
    BY <1>n, <1>1, <1>s, UsedNat DEF IInv, Numbers, Up
  <2> QED
    BY <1>1, <1>2, <2>1 DEF IInv, LogsInv, IngestWritten
<1>7. IngestInv' /\ RecycleInv'
  BY <1>1, <1>2 DEF IInv, IngestInv, IngestWritten, RecycleInv
<1>8. OrderInv' /\ ReplayInv' /\ RefsInv' /\ BatchInv'
  BY <1>1, <1>s, QueueKept
<1>9. FlushInv'
  BY <1>1, FlushKept
<1> QED
  BY <1>3, <1>4, <1>5, <1>6, <1>7, <1>8, <1>9 DEF IInv

\* The manager once the new log is open.
LEMMA OpenedType ==
  ASSUME IInv, call.pc = "open"
  PROVE  Opened \in WalType
<1>1. wal \in WalType /\ call.new \in Nat /\ call.reuse \in Nat
  BY Fields DEF IInv, TypeOK
<1>2. call.reuse # 0 => wal.recycler # <<>>
  BY DEF IInv, RecycleInv
<1>3. wal.recycler \in Seq(Nat) /\ wal.queue \in Seq(Nat)
  BY <1>1 DEF WalType
<1>4. PICK r \in Seq(Nat) : r = IF call.reuse = 0 THEN wal.recycler ELSE Tail(wal.recycler)
  <2>1. PICK s \in Seq(Nat) : s = wal.recycler
    BY <1>3
  <2>2. s # <<>> => Tail(s) \in Seq(Nat)
    OBVIOUS
  <2>3. call.reuse # 0 => Tail(wal.recycler) \in Seq(Nat)
    BY <1>2, <2>1, <2>2
  <2> QED
    BY <1>3, <2>3
<1>5. PICK q \in Seq(Nat) : q = Append(wal.queue, call.new)
  <2>1. PICK s \in Seq(Nat), l \in Nat : s = wal.queue /\ l = call.new
    BY <1>1, <1>3
  <2>2. Append(s, l) \in Seq(Nat)
    OBVIOUS
  <2> QED
    BY <2>1, <2>2
<1>6. Opened = [wal EXCEPT !.recycler = r, !.queue = q]
  BY <1>4, <1>5 DEF Opened
<1> QED
  BY <1>1, <1>6 DEF WalType

\* No removed log is left to come back.
LEMMA NoneGone == MapType(<<>>, LogFile) /\ DOMAIN <<>> = {}
<1>1. DOMAIN <<>> = {} /\ <<>> \in [{} -> LogFile]
  OBVIOUS
<1> QED
  BY <1>1, FinParts DEF MapType

\* The record of an ingest is the first and only one of its log.
LEMMA WriteIngestInd ==
  ASSUME IInv, WriteIngest
  PROVE  IInv'
<1>1. /\ call.pc = "open" /\ call.kind = "ingest"
      /\ gone' = <<>> /\ log' = call.new /\ wal' = Opened
      /\ logs' = Appended(call.new, "ingest", seq, call.file)
      /\ call' = [call EXCEPT !.pc = "sync"]
      /\ UNCHANGED <<tables, manifest, queue, nextSize, inflight, phase, nextFile, seq,
                     vs, flush, jobs>>
  BY DEF WriteIngest, OpenLog, mem
<1>s. seq \in Nat /\ call.new \in Nat /\ call.file \in Nat /\ TypeOK
  BY Fields DEF IInv
<1>2. call' \in CallType /\ call'.pc = "sync" /\ call'.kind = "ingest"
  BY <1>1, <1>s DEF TypeOK, ProcType, CallType
<1>p. phase = "open" /\ phase' = "open"
  BY <1>1 DEF IInv, PhaseInv
<1>a. /\ DOMAIN logs' = DOMAIN logs /\ logs' \in [DOMAIN logs' -> LogFile]
      /\ \A x \in DOMAIN logs : x # call.new => logs'[x] = logs[x]
      /\ call.new \in DOMAIN logs /\ logs[call.new].recs = <<>> => AloneInLog(logs'[call.new].recs)
  <2>1. AfterAppend(logs', call.new, "ingest")
    BY <1>1, <1>s, AppendedFacts
  <2> QED
    BY <2>1 DEF AfterAppend
<1>3. TypeOK'
  <2>1. wal' \in WalType
    BY <1>1, OpenedType
  <2> QED
    BY <1>1, <1>s, <1>a, <1>2, <2>1, NoneGone DEF TypeOK, DiskType, MemType, ProcType, MapType
<1>4. PhaseInv'
  BY <1>1, <1>2, <1>p DEF IInv, PhaseInv, Up
<1>5. Numbers'
  BY <1>1, <1>2, <1>p, <1>a, NoneGone DEF IInv, Numbers, NewLog, Up
<1>6. LogsInv'
  <2>1. call.new \in DOMAIN logs => logs[call.new].recs = <<>>
    BY <1>1 DEF IInv, LogsInv
  <2> QED
    BY <1>1, <1>2, <1>a, <2>1, NoneGone DEF IInv, LogsInv, IngestWritten
<1>7. IngestInv' /\ RecycleInv'
  BY <1>1, <1>2 DEF IInv, Numbers, NewLog, IngestInv, IngestWritten, RecycleInv
<1>8. OrderInv' /\ ReplayInv' /\ RefsInv' /\ BatchInv'
  BY <1>1, <1>s, <1>p, QueueKept
<1>9. FlushInv'
  BY <1>1, FlushKept
<1> QED
  BY <1>3, <1>4, <1>5, <1>6, <1>7, <1>8, <1>9 DEF IInv

\* Every entry a flush takes has a log older than the one it stops at.
LEMMA FlushStops ==
  ASSUME IInv, phase \in {"open", "replayed"}, NEW n, n = FlushCount(queue)
  PROVE  \A i \in 1 .. n : queue[i].logNum < queue[n + 1].logNum
<1> SUFFICES ASSUME NEW i \in 1 .. n PROVE queue[i].logNum < queue[n + 1].logNum
  OBVIOUS
<1>1. queue \in Seq(QEntry) /\ Len(queue) >= 1
  BY DEF IInv, TypeOK, MemType, PhaseInv, Up
<1>2. /\ n \in 0 .. Len(queue) - 1
      /\ \/ n = 1 /\ queue[1].kind = "ingest" /\ Len(queue) > 1
         \/ /\ \A j \in 1 .. n : queue[j].kind \in {"mem", "large"}
            /\ n + 1 < Len(queue) =>
                 ~(queue[n + 1].kind \in {"mem", "large"} /\ ReadyForFlush(queue[n + 1]))
  BY <1>1, FlushCountFacts
<1>3. /\ Len(queue) \in Nat /\ n \in 1 .. Len(queue) /\ n + 1 \in 2 .. Len(queue)
      /\ n + 1 \in 1 .. Len(queue) /\ (n + 1) - 1 = n /\ i \in 1 .. Len(queue) /\ i <= n
  <2>1. PICK L \in Nat : L = Len(queue)
    BY <1>1
  <2>2. n \in 0 .. L - 1 /\ L >= 1
    BY <1>1, <1>2, <2>1
  <2>3. /\ n \in 1 .. L /\ n + 1 \in 2 .. L /\ n + 1 \in 1 .. L /\ (n + 1) - 1 = n
        /\ i \in 1 .. L /\ i <= n
    BY <2>2
  <2> QED
    BY <2>1, <2>3
<1>4. queue[n].logNum # queue[n + 1].logNum
  <2> SUFFICES ASSUME queue[n].logNum = queue[n + 1].logNum PROVE FALSE
    OBVIOUS
  <2>1. /\ n + 1 < Len(queue)
        /\ queue[n].kind # "ingest" /\ queue[n + 1].kind # "ingest"
        /\ ReadyForFlush(queue[n + 1])
    BY <1>3 DEF IInv, OrderInv
  <2>2. queue[n + 1].kind \in {"mem", "large", "ingest"}
    <3>1. queue[n + 1] \in QEntry
      BY <1>1, <1>3
    <3> QED
      BY <3>1 DEF QEntry
  <2> QED
    BY <1>2, <2>1, <2>2
<1>5. queue[i].logNum <= queue[n].logNum /\ queue[n].logNum <= queue[n + 1].logNum
  <2>1. DOMAIN queue = 1 .. Len(queue)
    BY Fields DEF IInv
  <2>2. n <= n + 1
    BY <1>3
  <2>3. queue[i].logNum <= queue[n].logNum
    BY <1>3, <2>1 DEF IInv, OrderInv
  <2>4. queue[n].logNum <= queue[n + 1].logNum
    BY <1>3, <2>1, <2>2 DEF IInv, OrderInv
  <2> QED
    BY <2>3, <2>4
<1>6. queue[i].logNum \in Nat /\ queue[n].logNum \in Nat /\ queue[n + 1].logNum \in Nat
  BY <1>3, Fields DEF IInv
<1> QED
  BY <1>4, <1>5, <1>6

\* A flush takes entries that are ready and stops at a newer log.
LEMMA FlushBeginInd ==
  ASSUME IInv, FlushBegin
  PROVE  IInv'
<1> DEFINE n == FlushCount(queue)
<1>1. /\ flush.pc = "begin"
      /\ UNCHANGED <<logs, gone, tables, manifest, queue, nextSize, inflight, phase, seq,
                     vs, log, call, wal, jobs>>
  BY DEF FlushBegin, mem, disk
<1>2. \/ n = 0 /\ flush' = [flush EXCEPT !.pc = "end"] /\ nextFile' = nextFile
      \/ /\ n # 0
         /\ flush' = [pc |-> "run", n |-> n, min |-> queue[n + 1].logNum,
                      file |-> IF queue[1].kind = "ingest" THEN queue[1].file ELSE nextFile]
         /\ nextFile' = IF queue[1].kind = "ingest" THEN nextFile ELSE nextFile + 1
  BY DEF FlushBegin
<1>s. seq \in Nat /\ nextFile \in Nat /\ TypeOK
  BY Fields DEF IInv
<1>p. phase \in {"open", "replayed"} /\ flush.n = 0 /\ call.kind # "open"
  BY <1>1 DEF IInv, PhaseInv
<1>q. queue \in Seq(QEntry) /\ Len(queue) >= 1 /\ Len(queue) \in Nat
  BY <1>p DEF IInv, TypeOK, MemType, PhaseInv, Up
<1>3. n \in 0 .. Len(queue) - 1 /\ \A i \in 1 .. n : ReadyForFlush(queue[i])
  BY <1>q, FlushCountFacts
<1> HIDE DEF n
<1>4. /\ flush' \in FlushType /\ nextFile' \in Nat /\ nextFile <= nextFile'
      /\ flush'.pc \in {"end", "run"}
      /\ flush'.pc = "end" => flush'.n = 0
      /\ flush'.pc = "run" =>
           /\ flush'.n = n /\ n # 0 /\ flush'.min = queue[n + 1].logNum
           /\ queue[1].kind # "ingest" => flush'.file < nextFile'
  <2>1. CASE n = 0 /\ flush' = [flush EXCEPT !.pc = "end"] /\ nextFile' = nextFile
    BY <1>s, <1>p, <2>1 DEF TypeOK, ProcType, FlushType
  <2>2. CASE /\ n # 0
             /\ flush' = [pc |-> "run", n |-> n, min |-> queue[n + 1].logNum,
                          file |-> IF queue[1].kind = "ingest" THEN queue[1].file ELSE nextFile]
             /\ nextFile' = IF queue[1].kind = "ingest" THEN nextFile ELSE nextFile + 1
    <3>1. n + 1 \in 1 .. Len(queue) /\ 1 \in 1 .. Len(queue) /\ n \in Nat
      BY <1>3, <1>q
    <3>2. queue[n + 1].logNum \in Nat /\ queue[1].file \in Nat
      BY <3>1, <1>s, Fields
    <3>3. PICK m \in Nat, f \in Nat :
            /\ m = queue[n + 1].logNum
            /\ f = IF queue[1].kind = "ingest" THEN queue[1].file ELSE nextFile
            /\ nextFile' \in Nat /\ nextFile <= nextFile'
            /\ queue[1].kind # "ingest" => f < nextFile'
      BY <1>s, <2>2, <3>2
    <3>4. flush' = [pc |-> "run", n |-> n, min |-> m, file |-> f]
      BY <2>2, <3>3
    <3> QED
      BY <2>2, <3>1, <3>3, <3>4 DEF FlushType
  <2> QED
    BY <1>2, <2>1, <2>2
<1>5. TypeOK'
  BY <1>1, <1>s, <1>4 DEF TypeOK, DiskType, MemType, ProcType
<1>6. PhaseInv'
  BY <1>1, <1>4, <1>p DEF IInv, PhaseInv, Up
<1>7. Numbers'
  <2>1. \A x \in Nat : x < nextFile => x < nextFile'
    BY <1>4, <1>s
  <2>2. DOMAIN logs \subseteq Nat /\ DOMAIN tables \subseteq Nat /\ DOMAIN gone \subseteq Nat
    BY <1>s, UsedNat
  <2>3. /\ \A i \in DOMAIN queue : queue[i].logNum \in Nat
        /\ vs.min \in Nat /\ log \in Nat /\ call.new \in Nat
    BY Fields DEF IInv
  <2>4. NewLog'
    BY <1>1, <2>1, <2>3 DEF IInv, Numbers, NewLog
  <2> QED
    BY <1>1, <1>4, <1>p, <2>1, <2>2, <2>3, <2>4 DEF IInv, Numbers, Up
<1>8. LogsInv' /\ IngestInv' /\ RecycleInv'
  BY <1>1 DEF IInv, LogsInv, IngestInv, IngestWritten, RecycleInv
<1>9. OrderInv' /\ ReplayInv' /\ RefsInv' /\ BatchInv'
  BY <1>1, <1>s, QueueKept
<1>10. FlushInv'
  <2>1. n # 0 => n \in 1 .. Len(queue) - 1
    BY <1>3, <1>q
  <2> QED
    BY <1>1, <1>3, <1>4, <2>1 DEF FlushInv
<1> QED
  BY <1>5, <1>6, <1>7, <1>8, <1>9, <1>10 DEF IInv

\* What a flush writes is a finite set of writes.
LEMMA FlushingFin ==
  ASSUME IInv, flush.pc \in {"run", "log", "install"}
  PROVE  Flushing \in FinSets
<1>1. Len(queue) \in Nat /\ flush.n \in 1 .. Len(queue) - 1
  BY Fields DEF IInv, FlushInv
<1>2. flush.n \in Nat /\ \A i \in 1 .. flush.n : i \in 1 .. Len(queue)
  BY <1>1
<1> DEFINE f == [i \in 1 .. flush.n |-> queue[i].writes]
           T == {queue[i].writes : i \in 1 .. flush.n}
<1>3. \A i \in 1 .. flush.n : queue[i].writes \in FinSets
  BY <1>2, Fields DEF IInv
<1>4. f \in Surjection(1 .. flush.n, T)
  BY DEF Surjection
<1>5. IsFiniteSet(1 .. flush.n)
  BY <1>2, FS_Interval
<1>6. \A S \in T : S \subseteq Nat /\ IsFiniteSet(S)
  BY <1>3 DEF FinSets
<1> HIDE DEF f
<1>7. IsFiniteSet(T)
  BY <1>4, <1>5, FS_Surjection
<1>8. Flushing = UNION T
  BY DEF Flushing
<1> HIDE DEF T
<1>9. IsFiniteSet(UNION T)
  BY <1>6, <1>7, FS_UNION
<1>10. UNION T \subseteq Nat
  BY <1>6
<1> QED
  BY <1>8, <1>9, <1>10 DEF FinSets

\* What the rest of the invariant needs to survive a step of the flush that
\* leaves the queue, the calls and the manager alone.
LEMMA FlushStepKept ==
  ASSUME IInv, flush.pc # "idle", flush' \in FlushType, flush'.pc # "idle",
         flush'.pc \notin {"run", "log", "install"} => flush'.n = 0,
         UNCHANGED <<queue, nextSize, inflight, phase, seq, vs, log, call, wal, jobs>>
  PROVE  /\ MemType' /\ wal' \in WalType /\ PhaseInv' /\ RecycleInv' /\ IngestInv'
         /\ OrderInv' /\ ReplayInv' /\ RefsInv' /\ BatchInv'
         /\ phase \in {"open", "replayed"}
<1>1. MemType' /\ wal' \in WalType
  BY DEF IInv, TypeOK, MemType
<1>2. PhaseInv' /\ phase \in {"open", "replayed"}
  BY DEF IInv, PhaseInv, Up, TypeOK, MemType
<1>3. RecycleInv' /\ IngestInv'
  BY DEF IInv, RecycleInv, IngestInv, IngestWritten
<1>4. seq \in Nat
  BY Fields DEF IInv
<1>5. OrderInv' /\ ReplayInv' /\ RefsInv' /\ BatchInv'
  BY <1>2, <1>4, QueueKept
<1> QED
  BY <1>1, <1>2, <1>3, <1>5

\* The sstable of a flush has a number that was given out.
LEMMA FlushRunInd ==
  ASSUME IInv, FlushRun
  PROVE  IInv'
<1>1. /\ flush.pc = "run" /\ flush' = [flush EXCEPT !.pc = "log"]
      /\ tables' = IF queue[1].kind = "ingest" \/ Flushing = {} THEN tables
                   ELSE Joined(tables, [t \in {flush.file} |-> Flushing])
      /\ UNCHANGED <<logs, gone, manifest, queue, nextSize, inflight, phase, nextFile,
                     seq, vs, log, call, wal, jobs>>
  BY DEF FlushRun, mem
<1>2. /\ flush' \in FlushType /\ flush'.pc = "log" /\ flush'.n = flush.n
      /\ flush'.min = flush.min
  BY <1>1 DEF IInv, TypeOK, ProcType, FlushType
<1>3. /\ MemType' /\ wal' \in WalType /\ PhaseInv' /\ RecycleInv' /\ IngestInv'
      /\ OrderInv' /\ ReplayInv' /\ RefsInv' /\ BatchInv'
      /\ phase \in {"open", "replayed"}
  BY <1>1, <1>2, FlushStepKept
<1>4. /\ MapType(tables', FinSets)
      /\ \A x \in DOMAIN tables' :
           x \in DOMAIN tables \/ (x = flush.file /\ queue[1].kind # "ingest")
  <2>1. MapType(tables, FinSets) /\ flush.file \in Nat /\ Flushing \in FinSets
    BY <1>1, Fields, UsedNat, FlushingFin DEF IInv
  <2> DEFINE one == [t \in {flush.file} |-> Flushing]
  <2>2. MapType(one, FinSets)
    BY <2>1, SmallMaps
  <2>3. DOMAIN one = {flush.file}
    OBVIOUS
  <2> HIDE DEF one
  <2>4. MapType(Joined(tables, one), FinSets)
    BY <2>1, <2>2, MapTypes
  <2>5. DOMAIN Joined(tables, one) = DOMAIN tables \cup {flush.file}
    BY <2>3 DEF Joined
  <2>6. tables' = tables \/ (tables' = Joined(tables, one) /\ queue[1].kind # "ingest")
    BY <1>1 DEF one
  <2> QED
    BY <2>1, <2>4, <2>5, <2>6
<1>5. TypeOK'
  BY <1>1, <1>2, <1>3, <1>4 DEF IInv, TypeOK, DiskType, ProcType, MapType
<1>6. Numbers'
  BY <1>1, <1>2, <1>3, <1>4 DEF IInv, Numbers, NewLog, Up
<1>7. LogsInv'
  BY <1>1 DEF IInv, LogsInv, IngestWritten
<1>8. FlushInv'
  BY <1>1, <1>2 DEF IInv, FlushInv
<1> QED
  BY <1>3, <1>5, <1>6, <1>7, <1>8 DEF IInv

\* The manifest has the minimum of the flush.
LEMMA LogAndApplyInd ==
  ASSUME IInv, LogAndApply
  PROVE  IInv'
<1>1. /\ flush.pc = "log" /\ flush' = [flush EXCEPT !.pc = "install"]
      /\ manifest' = [min |-> flush.min, tables |-> Flushed, next |-> nextFile,
                      last |-> seq]
      /\ UNCHANGED <<logs, gone, tables, queue, nextSize, inflight, phase, nextFile,
                     seq, vs, log, call, wal, jobs>>
  BY DEF LogAndApply, mem
<1>2. /\ flush' \in FlushType /\ flush'.pc = "install" /\ flush'.n = flush.n
      /\ flush'.min = flush.min
  BY <1>1 DEF IInv, TypeOK, ProcType, FlushType
<1>3. /\ MemType' /\ wal' \in WalType /\ PhaseInv' /\ RecycleInv' /\ IngestInv'
      /\ OrderInv' /\ ReplayInv' /\ RefsInv' /\ BatchInv'
      /\ phase \in {"open", "replayed"}
  BY <1>1, <1>2, FlushStepKept
<1>4. flush.min \in Nat /\ flush.file \in Nat /\ nextFile \in Nat /\ seq \in Nat
  BY Fields DEF IInv
<1>5. Flushed \in SUBSET Nat
  BY <1>4 DEF IInv, TypeOK, ProcType, VersionType, Flushed
<1>6. /\ manifest' \in [min : Nat, tables : SUBSET Nat, next : Nat, last : Nat]
      /\ manifest'.min = flush.min /\ manifest'.next = nextFile
  BY <1>1, <1>4, <1>5
<1>7. flush.min < nextFile
  <2>1. Len(queue) \in Nat /\ DOMAIN queue = 1 .. Len(queue)
    BY Fields DEF IInv
  <2>2. flush.n \in 1 .. Len(queue) - 1 /\ flush.min = queue[flush.n + 1].logNum
    BY <1>1 DEF IInv, FlushInv
  <2>3. flush.n + 1 \in DOMAIN queue
    BY <2>1, <2>2
  <2> QED
    BY <1>3, <2>2, <2>3 DEF IInv, Numbers, Up
<1>8. TypeOK'
  BY <1>1, <1>2, <1>3, <1>6 DEF IInv, TypeOK, DiskType, ProcType
<1>9. Numbers'
  BY <1>1, <1>2, <1>6, <1>7 DEF IInv, Numbers, NewLog, Up
<1>10. LogsInv' /\ FlushInv'
  BY <1>1, <1>2 DEF IInv, LogsInv, IngestWritten, FlushInv
<1> QED
  BY <1>3, <1>8, <1>9, <1>10 DEF IInv

\* A flush ends, and may begin again.
LEMMA FlushEndInd ==
  ASSUME IInv, FlushEnd
  PROVE  IInv'
<1>1. /\ flush.pc = "end"
      /\ flush' = [pc |-> IF Len(queue) > 1 /\ PassedFlushThreshold(queue)
                          THEN "begin" ELSE "idle",
                   n |-> 0, min |-> 0, file |-> 0]
      /\ call' = IF call.pc = "wait" THEN [call EXCEPT !.pc = "stall"] ELSE call
      /\ UNCHANGED <<logs, gone, tables, manifest, queue, nextSize, inflight, phase,
                     nextFile, seq, vs, log, wal, jobs>>
  BY DEF FlushEnd, disk, mem
<1>2. flush' \in FlushType /\ flush'.pc \in {"begin", "idle"} /\ flush'.n = 0
  BY <1>1 DEF FlushType
<1>3. /\ call' \in CallType /\ call'.kind = call.kind
      /\ \/ call' = call
         \/ call.pc = "wait" /\ call'.pc = "stall"
  BY <1>1 DEF IInv, TypeOK, ProcType, CallType
<1>4. TypeOK'
  BY <1>1, <1>2, <1>3 DEF IInv, TypeOK, DiskType, MemType, ProcType
<1>5. PhaseInv'
  BY <1>1, <1>2, <1>3 DEF IInv, PhaseInv, Up, TypeOK, MemType
<1>6. Numbers' /\ RecycleInv' /\ FlushInv'
  BY <1>1, <1>2, <1>3 DEF IInv, Numbers, NewLog, Up, RecycleInv, FlushInv
<1>7. LogsInv' /\ IngestInv'
  BY <1>1, <1>3 DEF IInv, LogsInv, IngestInv, IngestWritten
<1>8. seq \in Nat
  BY Fields DEF IInv
<1>9. OrderInv' /\ ReplayInv' /\ RefsInv' /\ BatchInv'
  BY <1>1, <1>8, QueueKept
<1> QED
  BY <1>4, <1>5, <1>6, <1>7, <1>9 DEF IInv

\* A file that is deleted may come back until the directory is synced.
LEMMA DeleteFileInd ==
  ASSUME IInv, DeleteFile
  PROVE  IInv'
<1> DEFINE f == {Head(jobs)[2]}
           removed == [l \in f \cap DOMAIN logs |-> logs[l]]
<1>1. /\ jobs # <<>>
      /\ UNCHANGED <<manifest, queue, nextSize, inflight, phase, nextFile, seq, vs, log,
                     call, flush, wal>>
  BY DEF DeleteFile, mem
<1>2. \/ /\ logs' = Without(logs, f) /\ gone' = Joined(gone, removed) /\ tables' = tables
      \/ tables' = Without(tables, f) /\ logs' = logs /\ gone' = gone
  BY DEF DeleteFile
<1>3. MapType(logs, LogFile) /\ MapType(gone, LogFile) /\ MapType(tables, FinSets)
  BY UsedNat DEF IInv
<1>4. /\ MapType(removed, LogFile) /\ DOMAIN removed \subseteq DOMAIN logs
      /\ \A x \in DOMAIN removed : removed[x] = logs[x]
  <2>1. MapType(removed, LogFile)
    BY <1>3, SmallMaps
  <2> QED
    BY <2>1
<1> HIDE DEF removed, f
<1>5. /\ MapType(Without(logs, f), LogFile) /\ MapType(Without(tables, f), FinSets)
      /\ MapType(Joined(gone, removed), LogFile)
  BY <1>3, <1>4, MapTypes
<1>6. /\ MapType(logs', LogFile) /\ MapType(gone', LogFile) /\ MapType(tables', FinSets)
      /\ DOMAIN logs' \subseteq DOMAIN logs /\ DOMAIN tables' \subseteq DOMAIN tables
      /\ \A x \in DOMAIN logs' : logs'[x] = logs[x]
      /\ DOMAIN gone' \subseteq DOMAIN gone \cup DOMAIN logs
      /\ \A x \in DOMAIN gone' :
           \/ x \in DOMAIN gone /\ gone'[x] = gone[x]
           \/ x \in DOMAIN logs /\ gone'[x] = logs[x]
  <2>1. CASE tables' = Without(tables, f) /\ logs' = logs /\ gone' = gone
    <3>1. DOMAIN Without(tables, f) = DOMAIN tables \ f
      BY DEF Without
    <3> QED
      BY <1>3, <1>5, <2>1, <3>1
  <2>2. CASE logs' = Without(logs, f) /\ gone' = Joined(gone, removed) /\ tables' = tables
    <3>1. DOMAIN logs' = DOMAIN logs \ f /\ \A x \in DOMAIN logs \ f : logs'[x] = logs[x]
      BY <2>2 DEF Without
    <3>2. /\ DOMAIN gone' = DOMAIN gone \cup DOMAIN removed
          /\ \A x \in DOMAIN gone : gone'[x] = gone[x]
          /\ \A x \in DOMAIN removed \ DOMAIN gone : gone'[x] = removed[x]
      BY <2>2 DEF Joined
    <3> QED
      BY <1>3, <1>4, <1>5, <2>2, <3>1, <3>2
  <2> QED
    BY <1>2, <2>1, <2>2
<1>7. TypeOK'
  BY <1>1, <1>6 DEF IInv, TypeOK, DiskType, MemType, ProcType, MapType
<1>8. PhaseInv' /\ RecycleInv' /\ IngestInv' /\ FlushInv'
  BY <1>1 DEF IInv, PhaseInv, Up, RecycleInv, IngestInv, IngestWritten, FlushInv
<1>9. Numbers'
  BY <1>1, <1>6 DEF IInv, Numbers, NewLog, Up
<1>10. LogsInv'
  <2>1. \A l \in DOMAIN gone' : AloneInLog(gone'[l].recs)
    BY <1>6 DEF IInv, LogsInv
  <2> QED
    BY <1>1, <1>6, <2>1 DEF IInv, LogsInv, IngestWritten
<1>11. seq \in Nat
  BY Fields DEF IInv
<1>12. OrderInv' /\ ReplayInv' /\ RefsInv' /\ BatchInv'
  BY <1>1, <1>11, QueueKept
<1> QED
  BY <1>7, <1>8, <1>9, <1>10, <1>12 DEF IInv

\* A memtable holds a reference for each batch still to be applied to it.
LEMMA BatchRefs ==
  ASSUME IInv, phase \in {"open", "replayed"}, NEW b \in inflight, NEW i \in DOMAIN queue,
         queue[i].kind = "mem", queue[i].logNum = b.log
  PROVE  ~ReadyForFlush(queue[i])
<1> DEFINE B == OfLog(inflight, b.log)
<1>1. b \in B
  BY DEF OfLog
<1>2. IsFiniteSet(inflight) /\ B \subseteq inflight
  BY DEF IInv, TypeOK, MemType, OfLog
<1>3. queue[i].refs = Cardinality(B) + (IF i = Len(queue) THEN 1 ELSE 0)
  BY DEF IInv, RefsInv
<1> HIDE DEF B
<1>4. IsFiniteSet(B)
  BY <1>2, FS_Subset
<1>5. Cardinality(B) \in Nat /\ Cardinality(B) # 0
  BY <1>1, <1>4, FS_EmptySet, FS_CardinalityType
<1>6. queue[i].refs # 0
  BY <1>3, <1>5
<1> QED
  BY <1>6 DEF ReadyForFlush

\* Places in a queue of L entries, k of which are left out at its head.
Shifted(L, k, M) ==
  /\ k \in Nat /\ k >= 1 /\ M \in Nat /\ M >= 1 /\ k + 1 \in 1 .. L /\ k + M = L
  /\ \A i \in 1 .. M : i \in Nat /\ k + 1 <= k + i
  /\ \A i \in 2 .. M : i - 1 \in 1 .. M /\ i \in 1 .. M /\ k + i \in 2 .. L
                       /\ k + (i - 1) = (k + i) - 1 /\ (k + i < L <=> i < M)
  /\ \A i \in 1 .. M : k + i = L <=> i = M
  /\ \A i, j \in 1 .. M : i <= j => k + i <= k + j

\* The arithmetic of those places.
LEMMA Shift ==
  ASSUME NEW L \in Nat, NEW k \in 1 .. L - 1, NEW M, M = L - k
  PROVE  Shifted(L, k, M)
<1>1. k \in Nat /\ k >= 1 /\ M \in Nat /\ M >= 1 /\ k + 1 \in 1 .. L /\ k + M = L
  OBVIOUS
<1>2. \A i \in 1 .. M : i \in Nat /\ k + 1 <= k + i
  BY <1>1
<1>3. \A i \in 2 .. M : i - 1 \in 1 .. M /\ i \in 1 .. M /\ k + i \in 2 .. L
  BY <1>1
<1>4. \A i \in 2 .. M : k + (i - 1) = (k + i) - 1 /\ (k + i < L <=> i < M)
  BY <1>1
<1>5. \A i \in 1 .. M : k + i = L <=> i = M
  BY <1>1
<1>6. \A i, j \in 1 .. M : i <= j => k + i <= k + j
  BY <1>1
<1> QED
  BY <1>1, <1>2, <1>3, <1>4, <1>5, <1>6 DEF Shifted

\* What is left of the queue when its first k entries are flushed.
Suffix(q, k) ==
  /\ q \in Seq(QEntry) /\ Len(q) = Len(queue) - k /\ DOMAIN q = 1 .. Len(q)
  /\ \A i \in 1 .. Len(q) : k + i \in 1 .. Len(queue) /\ q[i] = queue[k + i]

\* The queue without its first k entries.
LEMMA SuffixFacts ==
  ASSUME queue \in Seq(QEntry), NEW k \in 1 .. Len(queue) - 1, NEW q,
         q = SubSeq(queue, k + 1, Len(queue))
  PROVE  Suffix(q, k)
<1>1. PICK L \in Nat : L = Len(queue)
  OBVIOUS
<1>2. k \in 1 .. L - 1
  BY <1>1
<1>3. \A i \in k + 1 .. L : queue[i] \in QEntry
  BY <1>1, <1>2
<1>4. k + 1 \in Int /\ L \in Int /\ k + 1 <= L /\ L - (k + 1) + 1 = L - k
  BY <1>1, <1>2
<1>5. /\ q \in Seq(QEntry) /\ Len(q) = L - (k + 1) + 1
      /\ \A i \in 1 .. L - (k + 1) + 1 : q[i] = queue[(k + 1) + i - 1]
  <2>1. PICK m \in Int : m = k + 1
    BY <1>4
  <2>2. \A i \in m .. L : queue[i] \in QEntry
    BY <1>3, <2>1
  <2>3. /\ SubSeq(queue, m, L) \in Seq(QEntry)
        /\ Len(SubSeq(queue, m, L)) = IF m <= L THEN L - m + 1 ELSE 0
        /\ \A i \in 1 .. L - m + 1 : SubSeq(queue, m, L)[i] = queue[m + i - 1]
    BY <1>4, <2>2, SubSeqProperties
  <2>4. q = SubSeq(queue, m, L)
    BY <1>1, <2>1
  <2> QED
    BY <1>4, <2>1, <2>3, <2>4
<1>6. Len(q) = L - k
  BY <1>4, <1>5
<1>7. \A i \in 1 .. L - k : k + i \in 1 .. L /\ (k + 1) + i - 1 = k + i
  BY <1>1, <1>2
<1>8. \A i \in 1 .. L - k : q[i] = queue[k + i]
  BY <1>4, <1>5, <1>7
<1>9. DOMAIN q = 1 .. Len(q)
  BY <1>5
<1> QED
  BY <1>1, <1>5, <1>6, <1>7, <1>8, <1>9 DEF Suffix

\* Files that are found obsolete leave the head of the recycler where it is.
LEMMA DeleteKept ==
  ASSUME IInv, NEW w \in WalType, NEW min \in Nat, NEW orphans,
         DeleteObsoleteFiles(w, min, orphans)
  PROVE  /\ wal' \in WalType
         /\ w.recycler # <<>> =>
              wal'.recycler # <<>> /\ wal'.recycler[1] = w.recycler[1]
<1> DEFINE y == Obsolete(w, min)
<1>1. AfterObsolete(w, y, min)
  BY ObsoleteFacts
<1>2. wal' = [y EXCEPT !.delete = <<>>]
  BY DEF DeleteObsoleteFiles
<1> HIDE DEF y
<1>3. y \in WalType /\ y.recycler \in Seq(Nat) /\ w.recycler \in Seq(Nat)
  BY <1>1 DEF AfterObsolete, WalType
<1>4. wal' \in WalType /\ wal'.recycler = y.recycler
  <2>1. PICK e \in Seq(Nat) : e = <<>>
    BY EmptySeq
  <2>2. wal' = [y EXCEPT !.delete = e]
    BY <1>2, <2>1
  <2> QED
    BY <1>3, <2>2 DEF WalType
<1>5. /\ Len(y.recycler) >= Len(w.recycler)
      /\ \A i \in 1 .. Len(w.recycler) : y.recycler[i] = w.recycler[i]
  BY <1>1 DEF AfterObsolete
<1>6. ASSUME w.recycler # <<>>
      PROVE  y.recycler # <<>> /\ y.recycler[1] = w.recycler[1]
  <2>1. PICK r \in Seq(Nat), s \in Seq(Nat) : r = w.recycler /\ s = y.recycler
    BY <1>3
  <2>2. Len(r) \in Nat /\ Len(r) >= 1 /\ Len(s) \in Nat
    BY <1>6, <2>1
  <2>3. Len(s) >= Len(r) /\ \A i \in 1 .. Len(r) : s[i] = r[i]
    BY <1>5, <2>1
  <2>4. s # <<>>
    BY <2>2, <2>3
  <2>5. 1 \in 1 .. Len(r)
    BY <2>2
  <2> QED
    BY <2>1, <2>3, <2>4, <2>5
<1> QED
  BY <1>4, <1>6

\* A flush that fails lets go of what it took; nothing enters the recycler at
\* its head.
LEMMA FlushFailsInd ==
  ASSUME IInv, FlushFails
  PROVE  IInv'
<1>1. /\ flush.pc = "run" /\ flush' = [flush EXCEPT !.pc = "end", !.n = 0]
      /\ DeleteObsoleteFiles(wal, vs.min, <<>>)
      /\ UNCHANGED <<logs, gone, tables, manifest, queue, nextSize, inflight, phase,
                     nextFile, seq, vs, log, call>>
  BY DEF FlushFails, disk, mem
<1>2. flush' \in FlushType /\ flush'.pc = "end" /\ flush'.n = 0
  BY <1>1 DEF IInv, TypeOK, ProcType, FlushType
<1>3. wal \in WalType /\ vs.min \in Nat /\ seq \in Nat
  BY Fields DEF IInv, TypeOK, ProcType, VersionType
<1>4. wal' \in WalType /\ RecycleInv'
  <2>1. /\ wal' \in WalType
        /\ wal.recycler # <<>> => wal'.recycler # <<>> /\ wal'.recycler[1] = wal.recycler[1]
    BY <1>1, <1>3, DeleteKept
  <2> QED
    BY <1>1, <2>1 DEF IInv, RecycleInv
<1>5. MemType' /\ PhaseInv' /\ IngestInv'
  BY <1>1, <1>2 DEF IInv, TypeOK, MemType, PhaseInv, Up, IngestInv, IngestWritten
<1>6. OrderInv' /\ ReplayInv' /\ RefsInv' /\ BatchInv'
  BY <1>1, <1>2, <1>3, <1>5, QueueKept
<1>7. TypeOK'
  BY <1>1, <1>2, <1>4, <1>5 DEF IInv, TypeOK, DiskType, ProcType
<1>8. Numbers' /\ LogsInv' /\ FlushInv'
  BY <1>1, <1>2 DEF IInv, Numbers, NewLog, Up, LogsInv, IngestWritten, FlushInv
<1> QED
  BY <1>4, <1>5, <1>6, <1>7, <1>8 DEF IInv

\* What was flushed leaves the queue, whose logs are at least the minimum.
LEMMA FlushInstallInd ==
  ASSUME IInv, FlushInstall
  PROVE  IInv'
<1> DEFINE k == flush.n
           L == Len(queue)
<1>1. /\ flush.pc = "install"
      /\ vs' = [min |-> flush.min, tables |-> Flushed]
      /\ queue' = SubSeq(queue, k + 1, L)
      /\ DeleteObsoleteFiles(wal, flush.min, <<>>)
      /\ flush' = [flush EXCEPT !.pc = "end", !.n = 0]
      /\ UNCHANGED <<logs, gone, tables, manifest, nextSize, inflight, phase, nextFile,
                     seq, log, call>>
  BY DEF FlushInstall, disk
<1>s. /\ TypeOK /\ flush.min \in Nat /\ flush.file \in Nat /\ L \in Nat
      /\ DOMAIN queue = 1 .. L /\ queue \in Seq(QEntry) /\ seq \in Nat
  BY Fields DEF IInv, TypeOK, MemType
<1>f. /\ k \in 1 .. L - 1 /\ flush.min = queue[k + 1].logNum
      /\ \A i \in 1 .. k : ReadyForFlush(queue[i])
  BY <1>1 DEF IInv, FlushInv
<1>p. phase \in {"open", "replayed"} /\ call.kind # "open"
  BY <1>1 DEF IInv, PhaseInv, TypeOK, MemType
<1>2. flush' \in FlushType /\ flush'.pc = "end" /\ flush'.n = 0
  BY <1>1, <1>s DEF TypeOK, ProcType, FlushType
<1>3. vs' \in VersionType /\ vs'.min = flush.min
  <2>1. Flushed \in SUBSET Nat
    BY <1>s DEF TypeOK, ProcType, VersionType, Flushed
  <2> QED
    BY <1>1, <1>s, <2>1 DEF VersionType
<1>4. wal' \in WalType /\ RecycleInv'
  <2>1. wal \in WalType
    BY <1>s DEF TypeOK
  <2>2. /\ wal' \in WalType
        /\ wal.recycler # <<>> => wal'.recycler # <<>> /\ wal'.recycler[1] = wal.recycler[1]
    BY <1>1, <1>s, <2>1, DeleteKept
  <2> QED
    BY <1>1, <2>2 DEF IInv, RecycleInv
<1>5. Suffix(queue', k)
  BY <1>1, <1>s, <1>f, SuffixFacts
<1> DEFINE q == queue'
           M == L - k
<1>q. /\ q \in Seq(QEntry) /\ Len(q) = M /\ DOMAIN q = 1 .. M
      /\ \A i \in 1 .. M : k + i \in 1 .. L /\ q[i] = queue[k + i]
  BY <1>5 DEF Suffix
<1>m. /\ k \in Nat /\ k >= 1 /\ M \in Nat /\ M >= 1 /\ k + 1 \in 1 .. L /\ k + M = L
      /\ \A i \in 1 .. M : i \in Nat /\ k + 1 <= k + i
      /\ \A i \in 2 .. M : i - 1 \in 1 .. M /\ i \in 1 .. M /\ k + i \in 2 .. L
                           /\ k + (i - 1) = (k + i) - 1 /\ (k + i < L <=> i < M)
      /\ \A i \in 1 .. M : k + i = L <=> i = M
      /\ \A i, j \in 1 .. M : i <= j => k + i <= k + j
  <2>1. M = L - k
    OBVIOUS
  <2> HIDE DEF k, L, M
  <2>2. Shifted(L, k, M)
    BY <1>s, <1>f, <2>1, Shift
  <2> QED
    BY <2>2 DEF Shifted
<1> HIDE DEF q, k, L, M
<1>6. TypeOK'
  BY <1>1, <1>s, <1>2, <1>3, <1>4, <1>q DEF TypeOK, DiskType, MemType, ProcType, q
<1>7. PhaseInv'
  BY <1>1, <1>2, <1>p, <1>q, <1>m DEF IInv, PhaseInv, Up, q
<1>8. ASSUME NEW i \in 1 .. M PROVE flush.min <= q[i].logNum
  <2>1. k + 1 \in 1 .. L /\ k + i \in 1 .. L /\ k + 1 <= k + i /\ q[i] = queue[k + i]
    BY <1>q, <1>m
  <2>2. queue[k + 1].logNum <= queue[k + i].logNum
    BY <1>s, <2>1 DEF IInv, OrderInv
  <2> QED
    BY <1>f, <2>1, <2>2
<1>9. Numbers'
  <2>1. flush.min < nextFile /\ \A i \in 1 .. M : q[i].logNum < nextFile
    BY <1>s, <1>f, <1>q, <1>m, <1>p DEF IInv, Numbers, Up
  <2>2. NewLog'
    BY <1>1, <1>s, <1>3, <1>f, <1>q, <1>m DEF IInv, Numbers, NewLog, q
  <2> QED
    BY <1>1, <1>2, <1>3, <1>p, <1>q, <2>1, <2>2 DEF IInv, Numbers, Up, q
<1>10. LogsInv' /\ FlushInv' /\ ReplayInv'
  BY <1>1, <1>2, <1>p DEF IInv, LogsInv, IngestWritten, FlushInv, ReplayInv
<1>11. IngestInv'
  BY <1>1, <1>s, <1>q DEF IInv, IngestInv, IngestWritten, q
<1>12. OrderInv'
  <2>1. ASSUME NEW i \in 1 .. M, NEW j \in 1 .. M, i <= j
        PROVE  q[i].logNum <= q[j].logNum
    <3>1. k + i \in DOMAIN queue /\ k + j \in DOMAIN queue /\ k + i <= k + j
      BY <1>s, <1>q, <1>m, <2>1
    <3>2. queue[k + i].logNum <= queue[k + j].logNum
      BY <3>1 DEF IInv, OrderInv
    <3> QED
      BY <1>q, <3>2
  <2>2. ASSUME NEW i \in 2 .. M, q[i - 1].logNum = q[i].logNum
        PROVE  i < M /\ q[i - 1].kind # "ingest" /\ q[i].kind # "ingest" /\ ReadyForFlush(q[i])
    <3>1. /\ k + i \in 2 .. L /\ q[i] = queue[k + i] /\ q[i - 1] = queue[(k + i) - 1]
          /\ (k + i < L <=> i < M)
      BY <1>q, <1>m
    <3> DEFINE j == k + i
    <3>2. j \in 2 .. L /\ queue[j - 1].logNum = queue[j].logNum
      BY <2>2, <3>1
    <3> HIDE DEF j
    <3>3. /\ j < L \/ phase \notin {"open", "replayed"}
          /\ queue[j - 1].kind # "ingest" /\ queue[j].kind # "ingest"
          /\ ReadyForFlush(queue[j])
      BY <3>2 DEF IInv, OrderInv, L
    <3> QED
      BY <3>1, <3>3, <1>p DEF j
  <2>3. \A i \in 2 .. M : vs'.min <= q[i].logNum
    BY <1>3, <1>8, <1>m
  <2>4. vs'.min <= q[M].logNum
    BY <1>3, <1>8, <1>m
  <2> QED
    BY <1>q, <2>1, <2>2, <2>3, <2>4 DEF OrderInv, q, ReadyForFlush
<1>13. RefsInv'
  <2>1. q[M] = queue[L]
    BY <1>q, <1>m
  <2>2. queue[L].kind = "mem" /\ queue[L].logSeqNum <= seq + 1
    BY <1>p DEF IInv, RefsInv, Mutable, L
  <2>3. Mutable' = q[M]
    BY <1>q DEF Mutable, q
  <2>5. ASSUME NEW i \in 1 .. M, q[i].kind = "mem"
        PROVE  q[i].refs = Cardinality(OfLog(inflight, q[i].logNum)) + (IF i = M THEN 1 ELSE 0)
    <3>1. k + i \in DOMAIN queue /\ q[i] = queue[k + i] /\ (k + i = L <=> i = M)
      BY <1>q, <1>m, <1>s
    <3>2. queue[k + i].refs = Cardinality(OfLog(inflight, queue[k + i].logNum))
                               + (IF k + i = L THEN 1 ELSE 0)
      BY <2>5, <3>1, <1>p DEF IInv, RefsInv, L
    <3> QED
      BY <3>1, <3>2
  <2> QED
    BY <1>1, <1>q, <2>1, <2>2, <2>3, <2>5 DEF RefsInv, q
<1>14. BatchInv'
  <2>1. ASSUME NEW b \in inflight
        PROVE  \E i \in 1 .. M : q[i].kind = "mem" /\ q[i].logNum = b.log
    <3>1. PICK j \in DOMAIN queue : queue[j].kind = "mem" /\ queue[j].logNum = b.log
      BY DEF IInv, BatchInv
    <3>2. ~ReadyForFlush(queue[j])
      BY <1>p, <3>1, BatchRefs
    <3>3. j \in 1 .. L /\ j \notin 1 .. k
      BY <1>s, <1>f, <3>1, <3>2
    <3>4. j - k \in 1 .. M /\ k + (j - k) = j
      BY <1>s, <1>m, <3>3
    <3>5. q[j - k] = queue[j]
      BY <1>q, <3>4
    <3> QED
      BY <3>1, <3>4, <3>5
  <2>2. ASSUME NEW b \in inflight, NEW i \in 1 .. M, q[i].kind = "mem", q[i].logNum = b.log
        PROVE  q[i].logSeqNum <= b.seq
    BY <1>s, <1>q, <2>2 DEF IInv, BatchInv
  <2> QED
    BY <1>1, <1>q, <2>1, <2>2 DEF IInv, BatchInv, q
<1> QED
  BY <1>4, <1>6, <1>7, <1>9, <1>10, <1>11, <1>12, <1>13, <1>14 DEF IInv

\* The batches of a log when one more is in flight, or one less.
LEMMA OfLogFacts ==
  ASSUME NEW B, IsFiniteSet(B), NEW b, NEW l
  PROVE  /\ IsFiniteSet(OfLog(B, l)) /\ Cardinality(OfLog(B, l)) \in Nat
         /\ b.log # l => OfLog(B \cup {b}, l) = OfLog(B, l) /\ OfLog(B \ {b}, l) = OfLog(B, l)
         /\ b.log = l /\ b \notin B =>
              Cardinality(OfLog(B \cup {b}, l)) = Cardinality(OfLog(B, l)) + 1
         /\ b.log = l /\ b \in B =>
              Cardinality(OfLog(B \ {b}, l)) = Cardinality(OfLog(B, l)) - 1
<1>1. IsFiniteSet(OfLog(B, l))
  <2>1. OfLog(B, l) \subseteq B
    BY DEF OfLog
  <2> QED
    BY <2>1, FS_Subset
<1>2. Cardinality(OfLog(B, l)) \in Nat
  BY <1>1, FS_CardinalityType
<1>3. b.log # l => OfLog(B \cup {b}, l) = OfLog(B, l) /\ OfLog(B \ {b}, l) = OfLog(B, l)
  BY DEF OfLog
<1>4. ASSUME b.log = l, b \notin B
      PROVE  Cardinality(OfLog(B \cup {b}, l)) = Cardinality(OfLog(B, l)) + 1
  <2>1. OfLog(B \cup {b}, l) = OfLog(B, l) \cup {b} /\ b \notin OfLog(B, l)
    BY <1>4 DEF OfLog
  <2> QED
    BY <1>1, <2>1, FS_AddElement
<1>5. ASSUME b.log = l, b \in B
      PROVE  Cardinality(OfLog(B \ {b}, l)) = Cardinality(OfLog(B, l)) - 1
  <2>1. OfLog(B \ {b}, l) = OfLog(B, l) \ {b} /\ b \in OfLog(B, l)
    BY <1>5 DEF OfLog
  <2> QED
    BY <1>1, <2>1, FS_RemoveElement
<1> QED
  BY <1>1, <1>2, <1>3, <1>4, <1>5

\* Of two entries with the same log the later one is ready to be flushed, and
\* it is not the mutable memtable.
LEMMA SharedLog ==
  ASSUME IInv, NEW i \in DOMAIN queue, NEW j \in DOMAIN queue, i < j,
         queue[i].logNum = queue[j].logNum
  PROVE  ReadyForFlush(queue[j]) /\ (j < Len(queue) \/ phase \notin {"open", "replayed"})
<1>1. PICK L \in Nat : L = Len(queue) /\ DOMAIN queue = 1 .. L
  BY Fields DEF IInv
<1>2. /\ j \in 2 .. L /\ j - 1 \in 1 .. L /\ i <= j - 1 /\ j - 1 <= j
  BY <1>1
<1>3. queue[i].logNum <= queue[j - 1].logNum /\ queue[j - 1].logNum <= queue[j].logNum
  BY <1>1, <1>2 DEF IInv, OrderInv
<1>4. queue[i].logNum \in Nat /\ queue[j - 1].logNum \in Nat /\ queue[j].logNum \in Nat
  BY <1>1, <1>2, Fields DEF IInv
<1>5. queue[j - 1].logNum = queue[j].logNum
  BY <1>3, <1>4
<1> QED
  BY <1>1, <1>2, <1>5 DEF IInv, OrderInv

\* The log of the mutable memtable is newer than all others of the queue.
LEMMA MutableNewest ==
  ASSUME IInv, phase \in {"open", "replayed"}, NEW i \in DOMAIN queue, i # Len(queue)
  PROVE  i < Len(queue) /\ queue[i].logNum < queue[Len(queue)].logNum
<1>1. PICK L \in Nat : L = Len(queue) /\ DOMAIN queue = 1 .. L
  BY Fields DEF IInv
<1>2. L \in 1 .. L /\ i \in 1 .. L /\ i < L /\ i <= L
  BY <1>1
<1>3. queue[i].logNum <= queue[L].logNum
  BY <1>1, <1>2 DEF IInv, OrderInv
<1>4. queue[i].logNum \in Nat /\ queue[L].logNum \in Nat
  BY <1>1, <1>2, Fields DEF IInv
<1>5. queue[i].logNum # queue[L].logNum
  BY <1>1, <1>2, SharedLog
<1> QED
  BY <1>1, <1>2, <1>3, <1>4, <1>5

\* The memtable of a batch that is still to be applied is the only one with
\* that log.
LEMMA UniqueTable ==
  ASSUME IInv, phase \in {"open", "replayed"}, NEW b \in inflight,
         NEW i \in DOMAIN queue, queue[i].kind = "mem", queue[i].logNum = b.log,
         NEW j \in DOMAIN queue, queue[j].kind = "mem", queue[j].logNum = b.log
  PROVE  i = j
<1>1. i \in Nat /\ j \in Nat
  <2>1. TypeOK
    BY DEF IInv
  <2>2. Len(queue) \in Nat /\ DOMAIN queue = 1 .. Len(queue)
    BY <2>1, Fields
  <2> QED
    BY <2>2
<1>2. ~ReadyForFlush(queue[i]) /\ ~ReadyForFlush(queue[j])
  BY BatchRefs
<1>3. ~(i < j) /\ ~(j < i)
  BY <1>2, SharedLog
<1> QED
  BY <1>1, <1>3

\* The flush is as before, or it was scheduled.
Scheduled(f) == f = flush \/ (flush.pc = "idle" /\ f = [flush EXCEPT !.pc = "begin"])

\* The fields of the flush, scheduled or not.
LEMMA ScheduledFacts ==
  ASSUME IInv, NEW f, Scheduled(f)
  PROVE  /\ f \in FlushType /\ f.n = flush.n /\ f.min = flush.min /\ f.file = flush.file
         /\ f.pc = flush.pc \/ (flush.pc = "idle" /\ f.pc = "begin")
<1>1. flush \in FlushType
  BY DEF IInv, TypeOK, ProcType
<1> QED
  BY <1>1 DEF Scheduled, FlushType

\* maybeScheduleFlush schedules the flush or leaves it alone.
LEMMA MaybeFacts ==
  ASSUME NEW q
  PROVE  Scheduled(MaybeScheduleFlush(q))
BY DEF MaybeScheduleFlush, Scheduled

\* The queue with other writes and references in its entries, none of which
\* has ceased to be ready to be flushed.
Shape(q) ==
  /\ q \in Seq(QEntry) /\ Len(q) = Len(queue) /\ DOMAIN q = 1 .. Len(queue)
  /\ \A i \in 1 .. Len(queue) :
       /\ q[i].kind = queue[i].kind /\ q[i].logNum = queue[i].logNum
       /\ q[i].logSeqNum = queue[i].logSeqNum
       /\ ReadyForFlush(queue[i]) => ReadyForFlush(q[i])

\* Such a change of the queue keeps all but the references in order.
LEMMA ShapeKept ==
  ASSUME IInv, phase = "open", Shape(queue'), Scheduled(flush'), DOMAIN logs' = DOMAIN logs,
         UNCHANGED <<tables, gone, manifest, phase, nextFile, vs, log, call, wal, jobs>>
  PROVE  /\ PhaseInv' /\ Numbers' /\ OrderInv' /\ IngestInv' /\ ReplayInv' /\ FlushInv'
         /\ RecycleInv' /\ flush' \in FlushType
<1> DEFINE q == queue'
           L == Len(queue)
<1>1. /\ q \in Seq(QEntry) /\ Len(q) = L /\ DOMAIN q = 1 .. L /\ DOMAIN queue = 1 .. L /\ L \in Nat
      /\ \A i \in 1 .. L :
           /\ q[i].kind = queue[i].kind /\ q[i].logNum = queue[i].logNum
           /\ ReadyForFlush(queue[i]) => ReadyForFlush(q[i])
  BY Fields DEF IInv, Shape
<1>2. /\ flush' \in FlushType /\ flush'.n = flush.n /\ flush'.min = flush.min
      /\ flush'.file = flush.file
      /\ flush'.pc = flush.pc \/ (flush.pc = "idle" /\ flush'.pc = "begin")
  BY ScheduledFacts
<1> HIDE DEF q, L
<1>3. PhaseInv'
  BY <1>1, <1>2 DEF IInv, PhaseInv, Up, q, L
<1>4. Numbers'
  <2>1. 1 \in 1 .. L
    BY <1>1 DEF IInv, PhaseInv, Up, L
  <2>2. NewLog'
    BY <1>1 DEF IInv, Numbers, NewLog, q
  <2> QED
    BY <1>1, <1>2, <2>1, <2>2 DEF IInv, Numbers, Up, q
<1>5. OrderInv'
  <2>1. \A i \in 2 .. L : i \in 1 .. L /\ i - 1 \in 1 .. L
    BY <1>1
  <2>2. \A i, j \in 1 .. L : i <= j => q[i].logNum <= q[j].logNum
    BY <1>1 DEF IInv, OrderInv
  <2>3. ASSUME NEW i \in 2 .. L, q[i - 1].logNum = q[i].logNum
        PROVE  i < L /\ q[i - 1].kind # "ingest" /\ q[i].kind # "ingest" /\ ReadyForFlush(q[i])
    <3>1. /\ i < L /\ queue[i - 1].kind # "ingest" /\ queue[i].kind # "ingest"
          /\ ReadyForFlush(queue[i])
      BY <1>1, <2>1, <2>3 DEF IInv, OrderInv, L
    <3> QED
      BY <1>1, <2>1, <3>1
  <2>4. \A i \in 2 .. L : vs.min <= q[i].logNum
    BY <1>1, <2>1 DEF IInv, OrderInv, Up, L
  <2>5. vs.min <= q[L].logNum
    <3>1. L \in 1 .. L
      BY <1>1 DEF IInv, PhaseInv, Up, L
    <3> QED
      BY <1>1, <3>1 DEF IInv, OrderInv, L
  <2> QED
    BY <1>1, <2>2, <2>3, <2>4, <2>5 DEF OrderInv, q, ReadyForFlush
<1>6. IngestInv' /\ ReplayInv' /\ RecycleInv'
  BY <1>1 DEF IInv, IngestInv, IngestWritten, ReplayInv, RecycleInv, q
<1>7. FlushInv'
  <2> SUFFICES ASSUME flush'.pc \in {"run", "log", "install"}
               PROVE  /\ flush'.n \in 1 .. Len(q) - 1
                      /\ flush'.min = q[flush'.n + 1].logNum
                      /\ \A i \in 1 .. flush'.n : ReadyForFlush(q[i])
    BY DEF FlushInv, q, ReadyForFlush
  <2>1. /\ flush.n \in 1 .. L - 1 /\ flush.min = queue[flush.n + 1].logNum
        /\ \A i \in 1 .. flush.n : ReadyForFlush(queue[i])
    BY <1>2 DEF IInv, FlushInv, L
  <2>2. flush.n + 1 \in 1 .. L /\ \A i \in 1 .. flush.n : i \in 1 .. L
    BY <1>1, <2>1
  <2> QED
    BY <1>1, <1>2, <2>1, <2>2
<1> QED
  BY <1>2, <1>3, <1>4, <1>5, <1>6, <1>7

\* A sequence of entries with another one in place i.
Put(q, p, i, x) ==
  /\ q \in Seq(QEntry) /\ Len(q) = Len(p) /\ DOMAIN q = 1 .. Len(p) /\ q[i] = x
  /\ \A j \in 1 .. Len(p) : j # i => q[j] = p[j]

\* EXCEPT at one place of a sequence.
LEMMA PutFacts ==
  ASSUME NEW p \in Seq(QEntry), NEW i \in 1 .. Len(p), NEW x \in QEntry, NEW q,
         q = [p EXCEPT ![i] = x]
  PROVE  Put(q, p, i, x)
<1>1. /\ q \in Seq(QEntry) /\ Len(q) = Len(p)
      /\ \A j \in 1 .. Len(p) : q[j] = IF j = i THEN x ELSE p[j]
  BY ExceptSeq
<1>2. DOMAIN q = 1 .. Len(p)
  BY <1>1
<1> QED
  BY <1>1, <1>2 DEF Put

\* A batch that fits takes a reference on the mutable memtable.
LEMMA CommitFitsInd ==
  ASSUME IInv, CommitFits
  PROVE  IInv'
<1> DEFINE L == Len(queue)
           new == [seq |-> seq + 1, log |-> Mutable.logNum]
           q == queue'
<1>1. /\ phase = "open" /\ call.pc = "idle" /\ seq' = seq + 1
      /\ queue' = [queue EXCEPT ![L].refs = @ + 1]
      /\ inflight' = inflight \cup {new}
      /\ logs' = Appended(log, "small", seq + 1, 0)
      /\ UNCHANGED <<gone, tables, manifest, nextSize, phase, nextFile, vs, log,
                     call, flush, wal, jobs>>
  BY DEF CommitFits, Begin
<1>s. /\ TypeOK /\ seq \in Nat /\ seq + 1 \in Nat /\ 0 \in Nat /\ L \in Nat /\ queue \in Seq(QEntry)
      /\ DOMAIN queue = 1 .. L
  BY Fields DEF IInv, TypeOK, MemType
<1>l. /\ L \in 1 .. L /\ queue[L] \in QEntry /\ queue[L].refs \in Nat
      /\ queue[L].writes \in FinSets /\ queue[L].logNum \in Nat
  <2>1. L \in 1 .. L
    BY <1>1, <1>s DEF IInv, PhaseInv, Up
  <2> QED
    BY <1>s, <2>1, Fields
<1>m. /\ queue[L].kind = "mem" /\ queue[L].logSeqNum <= seq + 1
      /\ queue[L].refs = Cardinality(OfLog(inflight, queue[L].logNum)) + 1
  BY <1>1, <1>s, <1>l DEF IInv, RefsInv, Mutable
<1>n. new \in [seq : Nat, log : Nat] /\ new.seq = seq + 1 /\ new.log = queue[L].logNum
  BY <1>s, <1>l DEF Mutable
<1> HIDE DEF L, new
<1>i. IsFiniteSet(inflight) /\ new \notin inflight
  <2>1. \A b \in inflight : b.seq \in Nat /\ b.seq <= seq
    BY <1>s DEF IInv, BatchInv, TypeOK, MemType
  <2> QED
    BY <1>s, <1>n, <2>1 DEF TypeOK, MemType
<1>c. \A l : Cardinality(OfLog(inflight, l)) \in Nat
  BY <1>i, OfLogFacts
<1>q. /\ q \in Seq(QEntry) /\ Len(q) = L /\ DOMAIN q = 1 .. L
      /\ \A i \in 1 .. L : i # L => q[i] = queue[i]
      /\ q[L].kind = "mem" /\ q[L].logNum = queue[L].logNum
      /\ q[L].logSeqNum = queue[L].logSeqNum /\ q[L].refs = queue[L].refs + 1
  <2> DEFINE x == [queue[L] EXCEPT !.refs = @ + 1]
  <2>1. x = [queue[L] EXCEPT !.writes = queue[L].writes, !.refs = queue[L].refs + 1]
    BY <1>l DEF QEntry
  <2>2. queue[L].refs + 1 \in Nat
    BY <1>l
  <2>3. q = [queue EXCEPT ![L] = x]
    BY <1>1 DEF L
  <2>c. PICK r \in Nat : r = queue[L].refs + 1
    BY <2>2
  <2>d. x = [queue[L] EXCEPT !.writes = queue[L].writes, !.refs = r]
    BY <2>1, <2>c
  <2> HIDE DEF x
  <2>4. /\ x \in QEntry /\ x.kind = queue[L].kind /\ x.logNum = queue[L].logNum
        /\ x.logSeqNum = queue[L].logSeqNum /\ x.refs = r
    <3>1. PICK e \in QEntry, W \in FinSets : e = queue[L] /\ W = queue[L].writes
      BY <1>l
    <3>2. x = [e EXCEPT !.writes = W, !.refs = r]
      BY <2>d, <3>1
    <3>3. /\ x \in QEntry /\ x.kind = e.kind /\ x.logNum = e.logNum
          /\ x.logSeqNum = e.logSeqNum /\ x.refs = r
      BY <3>2 DEF QEntry
    <3> QED
      BY <3>1, <3>3
  <2>5. L \in 1 .. Len(queue)
    BY <1>l DEF L
  <2> HIDE DEF q
  <2>6. Put(q, queue, L, x)
    BY <1>s, <2>3, <2>4, <2>5, PutFacts
  <2> QED
    BY <1>m, <2>c, <2>4, <2>6 DEF Put, L
<1>3. Shape(queue')
  <2>1. ~ReadyForFlush(queue[L])
    <3>1. queue[L].refs # 0
      BY <1>m, <1>c, <1>l
    <3> QED
      BY <3>1, <1>m DEF ReadyForFlush
  <2>2. ASSUME NEW i \in 1 .. L
        PROVE  /\ q[i].kind = queue[i].kind /\ q[i].logNum = queue[i].logNum
               /\ q[i].logSeqNum = queue[i].logSeqNum
               /\ ReadyForFlush(queue[i]) => ReadyForFlush(q[i])
    BY <1>q, <1>m, <2>1
  <2> QED
    BY <1>q, <2>2 DEF Shape, L
<1>a. /\ DOMAIN logs' = DOMAIN logs /\ logs' \in [DOMAIN logs' -> LogFile]
      /\ \A x \in DOMAIN logs : x # log => logs'[x] = logs[x]
      /\ log \in DOMAIN logs /\ NoIngest(logs[log].recs) =>
           NoIngest(logs'[log].recs) /\ AloneInLog(logs'[log].recs)
  <2>1. AfterAppend(logs', log, "small")
    BY <1>1, <1>s, AppendedFacts
  <2> QED
    BY <2>1 DEF AfterAppend
<1>4. /\ PhaseInv' /\ Numbers' /\ OrderInv' /\ IngestInv' /\ ReplayInv' /\ FlushInv'
      /\ RecycleInv'
  <2>1. Scheduled(flush')
    BY <1>1 DEF Scheduled
  <2> QED
    BY <1>1, <1>3, <1>a, <2>1, ShapeKept
<1>5. TypeOK'
  <2>1. IsFiniteSet(inflight') /\ inflight' \in SUBSET [seq : Nat, log : Nat]
    BY <1>1, <1>s, <1>n, FS_AddElement DEF TypeOK, MemType
  <2> QED
    BY <1>1, <1>s, <1>a, <1>q, <2>1 DEF TypeOK, DiskType, MemType, ProcType
<1>6. LogsInv'
  <2>1. log \in DOMAIN logs => NoIngest(logs[log].recs)
    BY <1>1 DEF IInv, PhaseInv, LogsInv, IngestWritten, NoIngest
  <2>2. \A l \in DOMAIN logs' : AloneInLog(logs'[l].recs)
    BY <1>a, <2>1 DEF IInv, LogsInv
  <2> QED
    BY <1>1, <1>a, <2>1, <2>2 DEF IInv, LogsInv, NoIngest
<1>o. \A i \in 1 .. L : i # L => queue[i].logNum # queue[L].logNum
  <2> SUFFICES ASSUME NEW i \in 1 .. L, i # L PROVE queue[i].logNum # queue[L].logNum
    OBVIOUS
  <2>1. queue[i].logNum < queue[L].logNum
    BY <1>1, <1>s, MutableNewest DEF L
  <2>2. queue[i].logNum \in Nat
    BY <1>s, Fields DEF L
  <2> QED
    BY <1>l, <2>1, <2>2
<1>7. RefsInv'
  <2>1. Mutable' = q[L] /\ q[L].logSeqNum <= seq' + 1
    <3>1. Mutable' = q[L]
      BY <1>q DEF Mutable
    <3>2. queue[L].logSeqNum \in Nat
      BY <1>s, <1>l, Fields DEF L
    <3> QED
      BY <1>1, <1>s, <1>m, <1>q, <3>1, <3>2
  <2>2. ASSUME NEW i \in 1 .. L, q[i].kind = "mem"
        PROVE  q[i].refs = Cardinality(OfLog(inflight', q[i].logNum)) + (IF i = L THEN 1 ELSE 0)
    <3>1. CASE i = L
      <4>1. Cardinality(OfLog(inflight', q[L].logNum))
              = Cardinality(OfLog(inflight, queue[L].logNum)) + 1
        BY <1>1, <1>i, <1>n, <1>q, OfLogFacts
      <4> QED
        BY <1>c, <1>m, <1>q, <3>1, <4>1
    <3>2. CASE i # L
      <4>1. OfLog(inflight', q[i].logNum) = OfLog(inflight, queue[i].logNum)
        BY <1>1, <1>i, <1>n, <1>o, <1>q, <3>2, OfLogFacts
      <4>2. queue[i].refs = Cardinality(OfLog(inflight, queue[i].logNum)) + 0
        BY <1>1, <1>s, <1>q, <2>2, <3>2 DEF IInv, RefsInv, L
      <4> QED
        BY <1>q, <3>2, <4>1, <4>2
    <3> QED
      BY <3>1, <3>2
  <2> HIDE DEF q
  <2>3. Mutable'.kind = "mem"
    BY <2>1, <1>q
  <2> QED
    BY <1>q, <2>1, <2>2, <2>3 DEF RefsInv, q
<1>8. BatchInv'
  <2>1. ASSUME NEW b \in inflight
        PROVE  /\ b.seq <= seq'
               /\ \E i \in 1 .. L : q[i].kind = "mem" /\ q[i].logNum = b.log
               /\ \A i \in 1 .. L : q[i].kind = "mem" /\ q[i].logNum = b.log =>
                    q[i].logSeqNum <= b.seq
    <3>1. b.seq \in Nat /\ b.seq <= seq
      BY <1>s DEF IInv, BatchInv, TypeOK, MemType
    <3>2. b.seq <= seq'
      BY <1>1, <1>s, <3>1
    <3>3. \A i \in 1 .. L : /\ q[i].kind = queue[i].kind /\ q[i].logNum = queue[i].logNum
                            /\ q[i].logSeqNum = queue[i].logSeqNum
      BY <1>3 DEF Shape, L
    <3> QED
      BY <1>s, <3>2, <3>3 DEF IInv, BatchInv
  <2>2. /\ new.seq <= seq'
        /\ \E i \in 1 .. L : q[i].kind = "mem" /\ q[i].logNum = new.log
        /\ \A i \in 1 .. L : q[i].kind = "mem" /\ q[i].logNum = new.log =>
             q[i].logSeqNum <= new.seq
    <3>1. \A i \in 1 .. L : q[i].logNum = new.log => i = L
      BY <1>n, <1>o, <1>q
    <3>2. new.seq <= seq'
      BY <1>1, <1>n, <1>s
    <3>3. q[L].logSeqNum <= new.seq
      BY <1>n, <1>m, <1>q
    <3> QED
      BY <1>l, <1>n, <1>q, <3>1, <3>2, <3>3
  <2> HIDE DEF q
  <2> QED
    BY <1>1, <1>q, <2>1, <2>2 DEF BatchInv, q
<1> QED
  BY <1>4, <1>5, <1>6, <1>7, <1>8 DEF IInv

\* A batch that is applied gives its reference back.
LEMMA ApplyInd ==
  ASSUME IInv, Apply
  PROVE  IInv'
<1>0. PICK b \in inflight, i \in DOMAIN queue :
        /\ queue[i].kind = "mem" /\ queue[i].logNum = b.log
        /\ LET q == [queue EXCEPT ![i].writes = @ \cup {b.seq}, ![i].refs = @ - 1]
           IN  /\ queue' = q
               /\ flush' = IF q[i].refs = 0 THEN MaybeScheduleFlush(q) ELSE flush
        /\ inflight' = inflight \ {b}
        /\ UNCHANGED <<disk, nextSize, phase, nextFile, seq, vs, log, call, wal,
                       jobs, acked, calls, crashes, errs>>
  BY Zenon DEF Apply
<1>1. LET q == [queue EXCEPT ![i].writes = @ \cup {b.seq}, ![i].refs = @ - 1] IN
        /\ queue[i].kind = "mem" /\ queue[i].logNum = b.log
        /\ queue' = q
        /\ flush' = IF q[i].refs = 0 THEN MaybeScheduleFlush(q) ELSE flush
        /\ inflight' = inflight \ {b}
        /\ UNCHANGED <<logs, gone, tables, manifest, nextSize, phase, nextFile, seq, vs,
                       log, call, wal, jobs>>
  BY <1>0 DEF disk
<1> DEFINE L == Len(queue)
           q == queue'
<1>s. /\ TypeOK /\ seq \in Nat /\ L \in Nat /\ queue \in Seq(QEntry) /\ DOMAIN queue = 1 .. L
      /\ i \in 1 .. L /\ queue[i] \in QEntry /\ queue[i].refs \in Nat
      /\ queue[i].writes \in FinSets
  BY Fields DEF IInv, TypeOK, MemType
<1>p. phase = "open"
  BY DEF IInv, PhaseInv
<1>r. ~ReadyForFlush(queue[i]) /\ queue[i].refs - 1 \in Nat
  <2>1. ~ReadyForFlush(queue[i])
    BY <1>1, <1>p, BatchRefs
  <2>2. queue[i].refs # 0
    BY <2>1 DEF ReadyForFlush
  <2> QED
    BY <1>s, <2>1, <2>2
<1>b. b.seq \in Nat /\ IsFiniteSet(inflight)
  BY <1>s DEF TypeOK, MemType
<1>q. /\ q \in Seq(QEntry) /\ Len(q) = L /\ DOMAIN q = 1 .. L
      /\ \A j \in 1 .. L : j # i => q[j] = queue[j]
      /\ q[i].kind = "mem" /\ q[i].logNum = b.log
      /\ q[i].logSeqNum = queue[i].logSeqNum /\ q[i].refs = queue[i].refs - 1
  <2> DEFINE x == [queue[i] EXCEPT !.writes = @ \cup {b.seq}, !.refs = @ - 1]
  <2>1. PICK W \in FinSets, r \in Nat : W = queue[i].writes \cup {b.seq} /\ r = queue[i].refs - 1
    BY <1>s, <1>r, <1>b, FinParts
  <2>2. PICK e \in QEntry : e = queue[i]
    BY <1>s
  <2>3. x = [e EXCEPT !.writes = W, !.refs = r]
    BY <2>1, <2>2 DEF QEntry
  <2>4. q = [queue EXCEPT ![i] = x]
    BY <1>1
  <2> HIDE DEF x, q
  <2>5. /\ x \in QEntry /\ x.kind = e.kind /\ x.logNum = e.logNum
        /\ x.logSeqNum = e.logSeqNum /\ x.refs = r
    BY <2>3 DEF QEntry
  <2>6. Put(q, queue, i, x)
    BY <1>s, <2>4, <2>5, PutFacts
  <2> QED
    BY <1>1, <2>1, <2>2, <2>5, <2>6 DEF Put
<1>f. Scheduled(flush')
  <2>1. flush' = flush \/ \E z : flush' = MaybeScheduleFlush(z)
    BY <1>1
  <2> QED
    BY <2>1, MaybeFacts DEF Scheduled
<1>2. /\ inflight' = inflight \ {b}
      /\ UNCHANGED <<logs, gone, tables, manifest, nextSize, phase, nextFile, seq, vs,
                     log, call, wal, jobs>>
      /\ queue[i].kind = "mem" /\ queue[i].logNum = b.log
  BY <1>1
<1>3. Shape(queue')
  <2>1. ASSUME NEW j \in 1 .. L
        PROVE  /\ q[j].kind = queue[j].kind /\ q[j].logNum = queue[j].logNum
               /\ q[j].logSeqNum = queue[j].logSeqNum
               /\ ReadyForFlush(queue[j]) => ReadyForFlush(q[j])
    BY <1>q, <1>2, <1>r
  <2> HIDE DEF q
  <2> QED
    BY <1>q, <2>1 DEF Shape, q
<1>4. /\ PhaseInv' /\ Numbers' /\ OrderInv' /\ IngestInv' /\ ReplayInv' /\ FlushInv'
      /\ RecycleInv' /\ flush' \in FlushType
  <2>1. DOMAIN logs' = DOMAIN logs
    BY <1>2
  <2> QED
    BY <1>2, <1>3, <1>p, <1>f, <2>1, ShapeKept
<1>5. TypeOK'
  <2>1. IsFiniteSet(inflight') /\ inflight' \in SUBSET [seq : Nat, log : Nat]
    BY <1>2, <1>s, <1>b, FS_RemoveElement DEF TypeOK, MemType
  <2> QED
    BY <1>2, <1>s, <1>4, <1>q, <2>1 DEF TypeOK, DiskType, MemType, ProcType
<1>6. LogsInv'
  BY <1>2 DEF IInv, LogsInv, IngestWritten
<1>l. L \in 1 .. L
  BY <1>p, <1>s DEF IInv, PhaseInv, Up
<1> HIDE DEF q, L
<1>7. RefsInv'
  <2>1. Mutable' = q[L]
    BY <1>q DEF Mutable, q
  <2>2. queue[L].kind = "mem" /\ queue[L].logSeqNum <= seq + 1
    BY <1>p DEF IInv, RefsInv, Mutable, L
  <2>3. q[L].kind = "mem" /\ q[L].logSeqNum <= seq' + 1
    BY <1>q, <1>2, <1>l, <2>2
  <2>4. ASSUME NEW j \in 1 .. L, q[j].kind = "mem"
        PROVE  q[j].refs = Cardinality(OfLog(inflight', q[j].logNum)) + (IF j = L THEN 1 ELSE 0)
    <3>1. /\ queue[j].kind = "mem" /\ q[j].logNum = queue[j].logNum
          /\ queue[j].refs = Cardinality(OfLog(inflight, queue[j].logNum))
                               + (IF j = L THEN 1 ELSE 0)
      <4>1. queue[j].kind = "mem" /\ q[j].logNum = queue[j].logNum
        BY <1>q, <1>2, <2>4
      <4> QED
        BY <1>p, <1>s, <4>1 DEF IInv, RefsInv, L
    <3>2. CASE j = i
      <4>1. Cardinality(OfLog(inflight', b.log)) = Cardinality(OfLog(inflight, b.log)) - 1
        BY <1>b, <1>2, OfLogFacts
      <4>2. Cardinality(OfLog(inflight, b.log)) \in Nat
        BY <1>b, OfLogFacts
      <4>3. PICK c \in Nat : c = Cardinality(OfLog(inflight, b.log))
        BY <4>2
      <4>4. q[j].refs = queue[j].refs - 1 /\ queue[j].refs = c + (IF j = L THEN 1 ELSE 0)
        BY <1>q, <1>2, <3>1, <3>2, <4>3
      <4> QED
        BY <1>2, <3>1, <3>2, <4>1, <4>3, <4>4
    <3>3. CASE j # i
      <4>1. queue[j].logNum # b.log
        BY <1>2, <1>p, <1>s, <3>1, <3>3, UniqueTable
      <4>2. OfLog(inflight', queue[j].logNum) = OfLog(inflight, queue[j].logNum)
        BY <1>b, <1>2, <4>1, OfLogFacts
      <4> QED
        BY <1>q, <3>1, <3>3, <4>2
    <3> QED
      BY <3>2, <3>3
  <2> QED
    BY <1>q, <2>1, <2>3, <2>4 DEF RefsInv, q
<1>8. BatchInv'
  <2>1. \A j \in 1 .. L : /\ q[j].kind = queue[j].kind /\ q[j].logNum = queue[j].logNum
                          /\ q[j].logSeqNum = queue[j].logSeqNum
    BY <1>3 DEF Shape, L, q
  <2>2. ASSUME NEW a \in inflight'
        PROVE  /\ a.seq <= seq
               /\ \E j \in 1 .. L : q[j].kind = "mem" /\ q[j].logNum = a.log
               /\ \A j \in 1 .. L : q[j].kind = "mem" /\ q[j].logNum = a.log =>
                    q[j].logSeqNum <= a.seq
    <3>1. a \in inflight
      BY <1>2
    <3> QED
      BY <1>s, <2>1, <3>1 DEF IInv, BatchInv
  <2> QED
    BY <1>2, <1>q, <2>2 DEF BatchInv, q
<1> QED
  BY <1>4, <1>5, <1>6, <1>7, <1>8 DEF IInv

\* A rotation: the mutable memtable loses a reference, and after it come a
\* large batch of the same log or an ingest, if any, and a new memtable.
Rotated(q) ==
  LET L == Len(queue) IN
  /\ q \in Seq(QEntry) /\ DOMAIN q = 1 .. Len(q) /\ Len(q) \in {L + 1, L + 2}
  /\ \A i \in 1 .. L :
       /\ q[i].kind = queue[i].kind /\ q[i].logNum = queue[i].logNum
       /\ q[i].logSeqNum = queue[i].logSeqNum
       /\ q[i].refs = IF i = L THEN queue[i].refs - 1 ELSE queue[i].refs
  /\ Len(q) = L + 2 =>
       \/ q[L + 1].kind = "large" /\ q[L + 1].logNum = queue[L].logNum
       \/ q[L + 1].kind = "ingest" /\ q[L + 1].logNum = log /\ IngestWritten
  /\ q[Len(q)].kind = "mem" /\ q[Len(q)].logNum = call.new
  /\ q[Len(q)].logSeqNum <= seq + 1

\* After a rotation the queue is in order again, with the new log last.
LEMMA RotatedKept ==
  ASSUME IInv, call.pc = "open", phase = "open", NEW q, Rotated(q),
         NEW B, \A b \in B : \/ b \in inflight
                             \/ /\ b.log = call.new /\ b.seq <= seq
                                /\ q[Len(q)].logSeqNum <= b.seq,
         \A l : l # call.new => OfLog(B, l) = OfLog(inflight, l),
         q[Len(q)].refs = Cardinality(OfLog(B, call.new)) + 1,
         queue' = q, inflight' = B, Scheduled(flush'), call' = Idle, gone' = <<>>,
         log' = call.new, DOMAIN logs' = DOMAIN logs,
         UNCHANGED <<tables, manifest, phase, nextFile, seq, vs, jobs>>
  PROVE  /\ PhaseInv' /\ Numbers' /\ OrderInv' /\ IngestInv' /\ ReplayInv' /\ FlushInv'
         /\ RefsInv' /\ BatchInv' /\ RecycleInv' /\ flush' \in FlushType
<1> DEFINE L == Len(queue)
           M == Len(q)
           last == queue[L].logNum
<1>1. /\ q \in Seq(QEntry) /\ DOMAIN q = 1 .. M /\ M \in {L + 1, L + 2}
      /\ \A i \in 1 .. L :
           /\ q[i].kind = queue[i].kind /\ q[i].logNum = queue[i].logNum
           /\ q[i].logSeqNum = queue[i].logSeqNum
           /\ q[i].refs = IF i = L THEN queue[i].refs - 1 ELSE queue[i].refs
      /\ M = L + 2 => \/ q[L + 1].kind = "large" /\ q[L + 1].logNum = last
                      \/ q[L + 1].kind = "ingest" /\ q[L + 1].logNum = log /\ IngestWritten
      /\ q[M].kind = "mem" /\ q[M].logNum = call.new /\ q[M].logSeqNum <= seq + 1
  BY DEF Rotated
<1>s. /\ TypeOK /\ L \in Nat /\ DOMAIN queue = 1 .. L /\ log \in Nat /\ call.new \in Nat
      /\ vs.min \in Nat /\ seq \in Nat
      /\ \A i \in 1 .. L : queue[i].logNum \in Nat /\ queue[i].refs \in Nat
  BY Fields DEF IInv
<1>l. L >= 1
  BY DEF IInv, PhaseInv, Up
<1>2. /\ flush' \in FlushType /\ flush'.n = flush.n /\ flush'.min = flush.min
      /\ flush'.file = flush.file
      /\ flush'.pc = flush.pc \/ (flush.pc = "idle" /\ flush'.pc = "begin")
  BY ScheduledFacts
<1>c. call'.pc = "idle" /\ call'.kind = "none"
  BY DEF Idle
<1>n. /\ log < call.new /\ vs.min < call.new /\ call.new < nextFile
      /\ \A i \in 1 .. L : queue[i].logNum < call.new
  BY <1>s DEF IInv, Numbers, NewLog
<1> HIDE DEF L, M
<1>m. /\ M \in Nat /\ L \in 1 .. L /\ L \in 1 .. M /\ M \in 1 .. M /\ 1 \in 1 .. L /\ M > L
      /\ L + 1 \in 1 .. M /\ ~(L + 1 <= L) /\ (L + 1) - 1 = L
      /\ \A i \in 1 .. L : i \in 1 .. M /\ i # M /\ i <= L
      /\ \A i \in 1 .. M : i \in 1 .. L \/ (i = L + 1 /\ M = L + 2) \/ i = M
  BY <1>1, <1>s, <1>l
<1>k. /\ last \in Nat /\ last < call.new /\ vs.min <= last
      /\ \A i \in 1 .. L : queue[i].logNum <= last
  <2>1. \A i \in 1 .. L : queue[i].logNum <= last
    BY <1>s, <1>m DEF IInv, OrderInv
  <2> QED
    BY <1>s, <1>m, <1>n, <2>1 DEF IInv, OrderInv, L
<1>x. M = L + 2 => /\ last <= q[L + 1].logNum /\ q[L + 1].logNum < call.new
                   /\ q[L + 1].logNum \in Nat /\ q[L + 1].kind # "mem"
                   /\ q[L + 1].kind = "ingest" => last < q[L + 1].logNum
  <2>1. IngestWritten => last < log
    BY <1>m, <1>s DEF IInv, IngestInv
  <2>2. CASE q[L + 1].kind = "large" /\ q[L + 1].logNum = last
    BY <1>k, <2>2
  <2>3. CASE q[L + 1].kind = "ingest" /\ q[L + 1].logNum = log /\ IngestWritten
    BY <1>k, <1>n, <1>s, <2>1, <2>3
  <2> QED
    BY <1>1, <2>2, <2>3
<1>v. /\ \A i \in 1 .. M : q[i].logNum \in Nat /\ q[i].logNum <= call.new
      /\ \A i \in 1 .. M : i # M => q[i].logNum < call.new
      /\ \A i \in 1 .. M : i \notin 1 .. L => last <= q[i].logNum
  <2> SUFFICES ASSUME NEW i \in 1 .. M
               PROVE  /\ q[i].logNum \in Nat /\ q[i].logNum <= call.new
                      /\ i # M => q[i].logNum < call.new
                      /\ i \notin 1 .. L => last <= q[i].logNum
    OBVIOUS
  <2>1. CASE i \in 1 .. L
    <3>1. PICK l \in Nat : l = queue[i].logNum
      BY <1>s, <2>1
    <3>2. q[i].logNum = l /\ l < call.new
      BY <1>1, <1>n, <2>1, <3>1
    <3> QED
      BY <1>s, <2>1, <3>2
  <2>2. CASE i = L + 1 /\ M = L + 2
    BY <1>x, <1>s, <2>2
  <2>3. CASE i = M
    BY <1>1, <1>s, <1>k, <1>m, <2>3
  <2> QED
    BY <1>m, <2>1, <2>2, <2>3
<1>3. PhaseInv'
  <2>1. Len(queue') >= 1
    BY <1>m DEF M
  <2>2. flush'.pc \notin {"run", "log", "install"} => flush'.n = 0
    BY <1>2 DEF IInv, PhaseInv
  <2> QED
    BY <1>c, <2>1, <2>2 DEF PhaseInv
<1>4. Numbers'
  <2>1. \A i \in 1 .. M : q[i].logNum < nextFile
    <3>1. nextFile \in Nat
      BY Fields DEF IInv
    <3> QED
      BY <1>n, <1>s, <1>v, <3>1
  <2>2. queue'[1].kind = queue[1].kind
    BY <1>1, <1>m
  <2> QED
    BY <1>1, <1>2, <1>c, <1>n, <2>1, <2>2, NoneGone DEF IInv, Numbers, NewLog, Up
<1>5. OrderInv'
  <2>1. ASSUME NEW i \in 1 .. M, NEW j \in 1 .. M, i <= j
        PROVE  q[i].logNum <= q[j].logNum
    <3>1. CASE j \in 1 .. L
      <4>1. i \in 1 .. L
        BY <1>s, <1>m, <2>1, <3>1
      <4> QED
        BY <1>1, <1>s, <2>1, <3>1, <4>1 DEF IInv, OrderInv
    <3>2. CASE j = M
      BY <1>1, <1>v, <3>2
    <3>3. CASE j = L + 1 /\ M = L + 2
      <4>1. i \in 1 .. L \/ i = j
        BY <1>s, <1>m, <2>1, <3>3
      <4>2. CASE i = j
        BY <1>v, <4>2
      <4>3. CASE i \in 1 .. L
        <5>1. q[i].logNum <= last /\ last <= q[j].logNum
          BY <1>1, <1>k, <1>x, <3>3, <4>3
        <5> QED
          BY <5>1, <1>k, <1>v
      <4> QED
        BY <4>1, <4>2, <4>3
    <3> QED
      BY <1>m, <3>1, <3>2, <3>3
  <2>2. ASSUME NEW i \in 2 .. M, q[i - 1].logNum = q[i].logNum
        PROVE  i < M /\ q[i - 1].kind # "ingest" /\ q[i].kind # "ingest" /\ ReadyForFlush(q[i])
    <3>0. i \in 1 .. M /\ i - 1 \in 1 .. M /\ i - 1 # M
      BY <1>m
    <3>1. CASE i \in 1 .. L
      <4>1. i \in 2 .. L /\ i - 1 \in 1 .. L /\ i - 1 # L /\ i < M
        BY <1>s, <1>m, <3>1
      <4>2. queue[i - 1].logNum = queue[i].logNum
        BY <1>1, <2>2, <3>1, <4>1
      <4>3. /\ i < L /\ queue[i - 1].kind # "ingest" /\ queue[i].kind # "ingest"
            /\ ReadyForFlush(queue[i])
        BY <4>1, <4>2 DEF IInv, OrderInv, L
      <4>4. q[i].kind = queue[i].kind /\ q[i].refs = queue[i].refs /\ q[i - 1].kind = queue[i - 1].kind
        <5>1. i # L
          BY <4>3, <1>s
        <5> QED
          BY <1>1, <3>1, <4>1, <5>1
      <4> QED
        BY <4>1, <4>3, <4>4 DEF ReadyForFlush
    <3>2. CASE i = M
      BY <1>1, <1>v, <1>s, <2>2, <3>0, <3>2
    <3>3. CASE i = L + 1 /\ M = L + 2
      <4>1. q[i - 1].logNum = last /\ q[i - 1].kind = queue[L].kind /\ i < M
        BY <1>1, <1>s, <1>m, <3>3
      <4>2. queue[L].kind = "mem"
        BY DEF IInv, RefsInv, Mutable, L
      <4>3. q[i].kind # "mem" /\ q[i].kind # "ingest"
        BY <1>k, <1>x, <2>2, <3>3, <4>1
      <4> QED
        BY <4>1, <4>2, <4>3 DEF ReadyForFlush
    <3> QED
      BY <1>m, <3>0, <3>1, <3>2, <3>3
  <2>3. ASSUME NEW i \in 2 .. M PROVE vs.min <= q[i].logNum
    <3>0. i \in 1 .. M
      BY <1>m
    <3>1. CASE i \in 1 .. L
      <4>1. i \in 2 .. L
        BY <1>s, <3>1
      <4> QED
        BY <1>1, <3>1, <4>1 DEF IInv, OrderInv, Up, L
    <3>2. CASE i \notin 1 .. L
      BY <1>s, <1>k, <1>v, <3>0, <3>2
    <3> QED
      BY <3>1, <3>2
  <2>4. vs.min <= q[M].logNum
    BY <1>1, <1>n, <1>s
  <2> QED
    BY <1>1, <2>1, <2>2, <2>3, <2>4 DEF OrderInv, M, ReadyForFlush
<1>6. IngestInv' /\ ReplayInv' /\ RecycleInv'
  BY <1>c DEF IngestInv, IngestWritten, ReplayInv, RecycleInv
<1>7. FlushInv'
  <2> SUFFICES ASSUME flush'.pc \in {"run", "log", "install"}
               PROVE  /\ flush'.n \in 1 .. M - 1
                      /\ flush'.min = q[flush'.n + 1].logNum
                      /\ \A i \in 1 .. flush'.n : ReadyForFlush(q[i])
    BY DEF FlushInv, M, ReadyForFlush
  <2>1. /\ flush.n \in 1 .. L - 1 /\ flush.min = queue[flush.n + 1].logNum
        /\ \A i \in 1 .. flush.n : ReadyForFlush(queue[i])
    BY <1>2 DEF IInv, FlushInv, L
  <2>2. /\ flush.n + 1 \in 1 .. L /\ flush.n \in 1 .. M - 1
        /\ \A i \in 1 .. flush.n : i \in 1 .. L /\ i # L
    BY <1>s, <1>m, <2>1
  <2>3. \A i \in 1 .. flush.n : ReadyForFlush(q[i])
    BY <1>1, <2>1, <2>2 DEF ReadyForFlush
  <2> QED
    BY <1>1, <1>2, <2>1, <2>2, <2>3
<1>8. RefsInv'
  <2>1. Mutable' = q[M]
    BY DEF Mutable, M
  <2>2. ASSUME NEW i \in 1 .. M, q[i].kind = "mem"
        PROVE  q[i].refs = Cardinality(OfLog(B, q[i].logNum)) + (IF i = M THEN 1 ELSE 0)
    <3>1. CASE i \in 1 .. L
      <4>1. queue[i].refs = Cardinality(OfLog(inflight, queue[i].logNum))
                              + (IF i = L THEN 1 ELSE 0)
        BY <1>1, <1>s, <2>2, <3>1 DEF IInv, RefsInv, L
      <4>2. queue[i].logNum # call.new
        BY <1>n, <1>s, <3>1
      <4>3. OfLog(B, q[i].logNum) = OfLog(inflight, queue[i].logNum)
        BY <1>1, <3>1, <4>2
      <4>4. Cardinality(OfLog(inflight, queue[i].logNum)) \in Nat
        <5>1. IsFiniteSet(inflight)
          BY <1>s DEF TypeOK, MemType
        <5> QED
          BY <5>1, OfLogFacts
      <4>5. PICK c \in Nat : c = Cardinality(OfLog(inflight, queue[i].logNum))
        BY <4>4
      <4>6. q[i].refs = c
        BY <1>1, <3>1, <4>1, <4>5
      <4> QED
        BY <1>m, <3>1, <4>3, <4>5, <4>6
    <3>2. CASE i = M
      BY <1>1, <3>2 DEF M
    <3> QED
      BY <1>m, <1>x, <2>2, <3>1, <3>2
  <2> QED
    BY <1>1, <2>1, <2>2 DEF RefsInv, M
<1>9. BatchInv'
  <2> SUFFICES ASSUME NEW b \in B
               PROVE  /\ b.seq <= seq
                      /\ \E i \in 1 .. M : q[i].kind = "mem" /\ q[i].logNum = b.log
                      /\ \A i \in 1 .. M : q[i].kind = "mem" /\ q[i].logNum = b.log =>
                           q[i].logSeqNum <= b.seq
    BY <1>1 DEF BatchInv
  <2>1. CASE b \in inflight
    <3>1. /\ b.seq <= seq
          /\ \A i \in 1 .. L : queue[i].kind = "mem" /\ queue[i].logNum = b.log =>
               queue[i].logSeqNum <= b.seq
      BY <1>s, <2>1 DEF IInv, BatchInv
    <3>2. PICK j \in 1 .. L : queue[j].kind = "mem" /\ queue[j].logNum = b.log
      BY <1>s, <2>1 DEF IInv, BatchInv
    <3>3. b.log # call.new
      BY <1>s, <1>n, <3>2
    <3>4. \A i \in 1 .. M : q[i].kind = "mem" /\ q[i].logNum = b.log => i \in 1 .. L
      BY <1>1, <1>m, <1>x, <3>3
    <3> QED
      BY <1>1, <1>m, <3>1, <3>2, <3>4
  <2>2. CASE b.log = call.new /\ b.seq <= seq /\ q[M].logSeqNum <= b.seq
    <3>1. \A i \in 1 .. M : q[i].logNum = call.new => i = M
      BY <1>s, <1>v
    <3> QED
      BY <1>1, <1>m, <2>2, <3>1
  <2> QED
    BY <2>1, <2>2 DEF M
<1> QED
  BY <1>2, <1>3, <1>4, <1>5, <1>6, <1>7, <1>8, <1>9

\* No batch is in flight for a log that is not current yet.
LEMMA NoBatchYet ==
  ASSUME IInv, call.pc \in {"create", "open"}
  PROVE  /\ OfLog(inflight, call.new) = {} /\ \A b \in inflight : b.log # call.new
<1>1. \A b \in inflight : b.log # call.new
  <2> SUFFICES ASSUME NEW b \in inflight PROVE b.log # call.new
    OBVIOUS
  <2>1. PICK i \in DOMAIN queue : queue[i].logNum = b.log
    BY DEF IInv, BatchInv
  <2>2. queue[i].logNum \in Nat /\ call.new \in Nat
    BY Fields DEF IInv
  <2>3. queue[i].logNum < call.new
    BY DEF IInv, Numbers, NewLog
  <2> QED
    BY <2>1, <2>2, <2>3
<1> QED
  BY <1>1 DEF OfLog

\* The queue as a rotation finds it, with what goes before the new memtable.
BeforeNew(q) ==
  LET L == Len(queue) IN
  /\ q \in Seq(QEntry) /\ Len(q) \in {L, L + 1}
  /\ \A i \in 1 .. L :
       /\ q[i].kind = queue[i].kind /\ q[i].logNum = queue[i].logNum
       /\ q[i].logSeqNum = queue[i].logSeqNum /\ q[i].refs = queue[i].refs
  /\ Len(q) = L + 1 =>
       \/ q[L + 1].kind = "large" /\ q[L + 1].logNum = queue[L].logNum
       \/ q[L + 1].kind = "ingest" /\ q[L + 1].logNum = log /\ IngestWritten

\* The next memtable has a size.
LEMMA NextSizesNat ==
  ASSUME IInv, phase = "open"
  PROVE  NextSizes \subseteq Nat
<1>1. nextSize \in Nat /\ MemTableSize \in Nat /\ Mutable.size \in Nat
  <2>1. Len(queue) \in 1 .. Len(queue)
    BY Fields DEF IInv, PhaseInv, Up
  <2> QED
    BY <2>1, Fields, SizesAssumption DEF IInv, TypeOK, MemType, Mutable
<1>2. ASSUME NEW n \in 0 .. MemTableSize PROVE Grown(nextSize, n) \in Nat
  <2>1. PICK z \in Nat : z = nextSize
    BY <1>1
  <2>2. n \in Nat
    BY <1>1
  <2>3. Grown(z, n) \in Nat
    BY <2>2, GrownNat
  <2> QED
    BY <2>1, <2>3
<1> QED
  BY <1>1, <1>2 DEF NextSizes

\* rotateMemtable makes such a queue and may schedule the flush.
LEMMA RotateFacts ==
  ASSUME IInv, phase = "open", NEW q, BeforeNew(q), NEW s \in Nat, s <= seq + 1, NEW r \in Nat,
         RotateMemtable(q, s, r)
  PROVE  /\ Rotated(queue') /\ Scheduled(flush') /\ nextSize' \in Nat
         /\ queue'[Len(queue')].refs = r /\ queue'[Len(queue')].logSeqNum = s
         /\ queue' \in Seq(QEntry)
<1>z. PICK size \in NextSizes :
        LET prev == Len(queue)
            next == Append([q EXCEPT ![prev].refs = @ - 1],
                           [NewMemTable(call.new, s, size) EXCEPT !.refs = r])
        IN  /\ queue' = next
            /\ nextSize' = Doubled(size)
            /\ flush' = IF next[prev].refs = 0 THEN MaybeScheduleFlush(next) ELSE flush
  BY DEF RotateMemtable
<1>n. size \in Nat
  BY <1>z, NextSizesNat
<1> DEFINE L == Len(queue)
           p == [q EXCEPT ![L].refs = @ - 1]
           y == [NewMemTable(call.new, s, size) EXCEPT !.refs = r]
           z == queue'
<1>1. /\ q \in Seq(QEntry) /\ Len(q) \in {L, L + 1}
      /\ \A i \in 1 .. L :
           /\ q[i].kind = queue[i].kind /\ q[i].logNum = queue[i].logNum
           /\ q[i].logSeqNum = queue[i].logSeqNum /\ q[i].refs = queue[i].refs
      /\ Len(q) = L + 1 =>
           \/ q[L + 1].kind = "large" /\ q[L + 1].logNum = queue[L].logNum
           \/ q[L + 1].kind = "ingest" /\ q[L + 1].logNum = log /\ IngestWritten
  BY DEF BeforeNew
<1>2. /\ queue' = Append(p, y) /\ nextSize' = Doubled(size)
      /\ flush' = IF Append(p, y)[L].refs = 0 THEN MaybeScheduleFlush(Append(p, y)) ELSE flush
  BY <1>z
<1>s. /\ L \in Nat /\ nextSize \in Nat /\ call.new \in Nat /\ seq \in Nat
      /\ \A i \in 1 .. L : queue[i].size \in Nat /\ queue[i].refs \in Nat
  BY Fields DEF IInv, TypeOK, MemType
<1>l. L \in 1 .. L /\ L \in 1 .. Len(q)
  <2>1. L >= 1
    BY DEF IInv, PhaseInv, Up
  <2> QED
    BY <1>1, <1>s, <2>1
<1>r. queue[L].refs - 1 \in Nat
  <2>1. queue[L].kind = "mem"
    BY DEF IInv, RefsInv, Mutable
  <2>2. queue[L].refs = Cardinality(OfLog(inflight, queue[L].logNum)) + 1
    BY <1>l, <2>1, Fields DEF IInv, RefsInv
  <2>3. Cardinality(OfLog(inflight, queue[L].logNum)) \in Nat
    <3>1. IsFiniteSet(inflight)
      BY DEF IInv, TypeOK, MemType
    <3> QED
      BY <3>1, OfLogFacts
  <2>4. PICK c \in Nat : c = Cardinality(OfLog(inflight, queue[L].logNum))
    BY <2>3
  <2> QED
    BY <2>2, <2>4
<1>3. Scheduled(flush')
  <2>1. flush' = flush \/ \E v : flush' = MaybeScheduleFlush(v)
    BY <1>2
  <2> QED
    BY <2>1, MaybeFacts DEF Scheduled
<1>4. nextSize' \in Nat
  BY <1>2, <1>n, DoubledNat
<1> HIDE DEF L
<1>5. /\ y \in QEntry /\ y.kind = "mem" /\ y.logNum = call.new /\ y.logSeqNum = s /\ y.refs = r
  <2> DEFINE e == NewMemTable(call.new, s, size)
  <2>1. e \in QEntry /\ e.kind = "mem" /\ e.logNum = call.new /\ e.logSeqNum = s
    BY <1>s, <1>n, NewMemTableFacts
  <2> HIDE DEF e
  <2>2. y = [e EXCEPT !.refs = r]
    BY DEF e
  <2> HIDE DEF y
  <2> QED
    BY <2>1, <2>2 DEF QEntry
<1> HIDE DEF y
<1> DEFINE x == [q[L] EXCEPT !.refs = @ - 1]
<1>6. /\ x \in QEntry /\ x.kind = queue[L].kind /\ x.logNum = queue[L].logNum
      /\ x.logSeqNum = queue[L].logSeqNum /\ x.refs = queue[L].refs - 1
  <2>1. PICK e \in QEntry : e = q[L]
    BY <1>1, <1>l
  <2>2. PICK k \in Nat : k = queue[L].refs - 1
    BY <1>r
  <2>3. /\ e.refs = queue[L].refs /\ e.kind = queue[L].kind /\ e.logNum = queue[L].logNum
        /\ e.logSeqNum = queue[L].logSeqNum
    BY <1>1, <1>l, <2>1
  <2>4. x = [e EXCEPT !.refs = k]
    BY <2>1, <2>2, <2>3 DEF QEntry
  <2> HIDE DEF x
  <2>5. x \in QEntry /\ x.kind = e.kind /\ x.logNum = e.logNum /\ x.logSeqNum = e.logSeqNum /\ x.refs = k
    BY <2>4 DEF QEntry
  <2> QED
    BY <2>2, <2>3, <2>5
<1>7. Put(p, q, L, x)
  <2>1. p = [q EXCEPT ![L] = x]
    OBVIOUS
  <2> HIDE DEF p, x
  <2> QED
    BY <1>1, <1>l, <1>6, <2>1, PutFacts
<1> HIDE DEF p, x, z
<1>8. /\ z \in Seq(QEntry) /\ Len(z) = Len(p) + 1 /\ z[Len(p) + 1] = y
      /\ \A i \in 1 .. Len(p) : z[i] = p[i]
  <2>1. p \in Seq(QEntry)
    BY <1>7 DEF Put
  <2> QED
    BY <1>2, <1>5, <2>1, AppendProperties DEF z
<1>9. /\ Len(p) = Len(q) /\ p[L] = x
      /\ \A j \in 1 .. Len(q) : j # L => p[j] = q[j]
  BY <1>7 DEF Put
<1>10. /\ Len(z) \in {L + 1, L + 2} /\ z[Len(z)] = y /\ DOMAIN z = 1 .. Len(z)
       /\ Len(z) = L + 2 => Len(q) = L + 1
  BY <1>1, <1>s, <1>8, <1>9
<1>11. ASSUME NEW i \in 1 .. L
       PROVE  /\ z[i].kind = queue[i].kind /\ z[i].logNum = queue[i].logNum
              /\ z[i].logSeqNum = queue[i].logSeqNum
              /\ z[i].refs = IF i = L THEN queue[i].refs - 1 ELSE queue[i].refs
  <2>1. i \in 1 .. Len(q)
    BY <1>1, <1>s
  <2>2. z[i] = IF i = L THEN x ELSE q[i]
    BY <1>8, <1>9, <2>1
  <2>3. CASE i = L
    BY <1>6, <2>2, <2>3
  <2>4. CASE i # L
    BY <1>1, <2>2, <2>4
  <2> QED
    BY <2>3, <2>4
<1>12. Len(z) = L + 2 => z[L + 1] = q[L + 1] /\ Len(q) = L + 1
  <2>1. Len(q) = L + 1 => L + 1 \in 1 .. Len(q) /\ L + 1 # L
    BY <1>s
  <2> QED
    BY <1>8, <1>9, <1>10, <2>1
<1>13. Rotated(z)
  BY <1>1, <1>5, <1>8, <1>10, <1>11, <1>12 DEF Rotated, L
<1> QED
  BY <1>3, <1>4, <1>5, <1>8, <1>10, <1>13 DEF z

\* The logs once the new one is current.
LEMMA NewLogCurrent ==
  ASSUME IInv, call.pc = "open", call' = Idle, log' = call.new, gone' = <<>>, logs' = logs
  PROVE  LogsInv'
<1>1. call'.pc = "idle" /\ call'.kind = "none"
  BY DEF Idle
<1>2. call.new \in DOMAIN logs => logs[call.new].recs = <<>>
  BY DEF IInv, LogsInv
<1>3. DOMAIN gone' = {}
  BY NoneGone
<1> QED
  BY <1>1, <1>2, <1>3 DEF IInv, LogsInv

\* The rotation for a large batch.
LEMMA LargeRotated ==
  ASSUME IInv, RotateForLarge
  PROVE  /\ Rotated(queue') /\ Scheduled(flush') /\ nextSize' \in Nat
         /\ queue'[Len(queue')].refs = 1 /\ queue' \in Seq(QEntry)
<1> DEFINE L == Len(queue)
           x == LargeBatch(Mutable.logNum, seq)
           q == Append(queue, x)
<1>1. /\ call.pc = "open" /\ gone' = <<>> /\ log' = call.new /\ call.kind = "large"
      /\ RotateMemtable(q, seq + 1, 1) /\ wal' = Opened /\ call' = Idle
      /\ UNCHANGED <<logs, tables, manifest, inflight, phase, nextFile, seq, vs, jobs>>
  BY DEF RotateForLarge, OpenLog
<1>p. phase = "open"
  BY <1>1 DEF IInv, PhaseInv
<1>s. /\ TypeOK /\ L \in Nat /\ L >= 1 /\ queue \in Seq(QEntry) /\ seq \in Nat
      /\ seq + 1 \in Nat /\ call.new \in Nat
  <2>1. TypeOK /\ L \in Nat /\ seq \in Nat /\ call.new \in Nat
    BY Fields DEF IInv
  <2>2. L >= 1 /\ queue \in Seq(QEntry)
    BY <1>p DEF IInv, TypeOK, MemType, PhaseInv, Up
  <2> QED
    BY <2>1, <2>2
<1>2. x \in QEntry /\ x.kind = "large" /\ x.logNum = queue[L].logNum
  <2>1. L \in 1 .. L
    BY <1>s
  <2>2. queue[L].logNum \in Nat /\ 0 \in Nat
    BY <1>s, <2>1, Fields
  <2> QED
    BY <1>s, <2>2, LargeBatchFacts DEF Mutable
<1> HIDE DEF x
<1>3. BeforeNew(q)
  <2>1. /\ q \in Seq(QEntry) /\ Len(q) = L + 1 /\ q[L + 1] = x
        /\ \A i \in 1 .. L : q[i] = queue[i]
    BY <1>s, <1>2, AppendProperties
  <2> HIDE DEF q
  <2> QED
    BY <1>2, <2>1 DEF BeforeNew
<1> HIDE DEF q
<1>4. /\ Rotated(queue') /\ Scheduled(flush') /\ nextSize' \in Nat
      /\ queue'[Len(queue')].refs = 1 /\ queue' \in Seq(QEntry)
  BY <1>1, <1>p, <1>s, <1>3, RotateFacts
<1> QED
  BY <1>4

\* A large batch shares the log of the memtable before it.
LEMMA RotateForLargeInd ==
  ASSUME IInv, RotateForLarge
  PROVE  IInv'
<1>1. /\ call.pc = "open" /\ gone' = <<>> /\ log' = call.new /\ call.kind = "large"
      /\ wal' = Opened /\ call' = Idle
      /\ UNCHANGED <<logs, tables, manifest, inflight, phase, nextFile, seq, vs, jobs>>
  BY DEF RotateForLarge, OpenLog
<1>p. phase = "open"
  BY <1>1 DEF IInv, PhaseInv
<1>s. TypeOK /\ queue \in Seq(QEntry) /\ seq \in Nat /\ call.new \in Nat
  BY Fields DEF IInv, TypeOK, MemType
<1>4. /\ Rotated(queue') /\ Scheduled(flush') /\ nextSize' \in Nat
      /\ queue'[Len(queue')].refs = 1 /\ queue' \in Seq(QEntry)
  BY LargeRotated
<1>5. OfLog(inflight, call.new) = {}
  BY <1>1, <1>s, NoBatchYet
<1>6. queue'[Len(queue')].refs = Cardinality(OfLog(inflight, call.new)) + 1
  BY <1>4, <1>5, FS_EmptySet
<1>7. /\ PhaseInv' /\ Numbers' /\ OrderInv' /\ IngestInv' /\ ReplayInv' /\ FlushInv'
      /\ RefsInv' /\ BatchInv' /\ RecycleInv' /\ flush' \in FlushType
  BY <1>1, <1>p, <1>4, <1>6, RotatedKept
<1>8. LogsInv'
  BY <1>1, NewLogCurrent
<1>9. TypeOK'
  BY <1>1, <1>s, <1>4, <1>7, OpenedType, NoneGone
     DEF TypeOK, DiskType, MemType, ProcType, MapType, Idle, CallType
<1> QED
  BY <1>7, <1>8, <1>9 DEF IInv

\* The rotation for a flush.
LEMMA FlushRotated ==
  ASSUME IInv, RotateForFlush
  PROVE  /\ Rotated(queue') /\ Scheduled(flush') /\ nextSize' \in Nat
         /\ queue'[Len(queue')].refs = 1 /\ queue' \in Seq(QEntry)
<1> DEFINE L == Len(queue)
           x == [queue[L] EXCEPT !.forced = TRUE]
           q == [queue EXCEPT ![L].forced = TRUE]
<1>1. /\ call.pc = "open" /\ gone' = <<>> /\ log' = call.new /\ call.kind = "flush"
      /\ RotateMemtable(q, seq + 1, 1) /\ wal' = Opened /\ call' = Idle
      /\ UNCHANGED <<logs, tables, manifest, inflight, phase, nextFile, seq, vs, jobs>>
  BY DEF RotateForFlush, OpenLog
<1>p. phase = "open"
  BY <1>1 DEF IInv, PhaseInv
<1>s. /\ TypeOK /\ L \in Nat /\ L >= 1 /\ queue \in Seq(QEntry) /\ seq \in Nat
      /\ seq + 1 \in Nat /\ call.new \in Nat
  <2>1. TypeOK /\ L \in Nat /\ seq \in Nat /\ call.new \in Nat
    BY Fields DEF IInv
  <2>2. L >= 1 /\ queue \in Seq(QEntry)
    BY <1>p DEF IInv, TypeOK, MemType, PhaseInv, Up
  <2> QED
    BY <2>1, <2>2
<1>l. L \in 1 .. L
  BY <1>s
<1>2. /\ x \in QEntry /\ x.kind = queue[L].kind /\ x.logNum = queue[L].logNum
      /\ x.logSeqNum = queue[L].logSeqNum /\ x.refs = queue[L].refs
  <2>1. PICK e \in QEntry : e = queue[L]
    BY <1>s, <1>l
  <2>2. x = [e EXCEPT !.forced = TRUE]
    BY <2>1
  <2> HIDE DEF x
  <2>3. /\ x \in QEntry /\ x.kind = e.kind /\ x.logNum = e.logNum
        /\ x.logSeqNum = e.logSeqNum /\ x.refs = e.refs
    BY <2>2 DEF QEntry
  <2> QED
    BY <2>1, <2>3
<1>3. BeforeNew(q)
  <2>1. q = [queue EXCEPT ![L] = x]
    OBVIOUS
  <2> HIDE DEF x, q
  <2>2. Put(q, queue, L, x)
    BY <1>s, <1>l, <1>2, <2>1, PutFacts
  <2>3. L # L + 1
    BY <1>s
  <2> QED
    BY <1>2, <2>2, <2>3 DEF BeforeNew, Put
<1> HIDE DEF q
<1>4. /\ Rotated(queue') /\ Scheduled(flush') /\ nextSize' \in Nat
      /\ queue'[Len(queue')].refs = 1 /\ queue' \in Seq(QEntry)
  BY <1>1, <1>p, <1>s, <1>3, RotateFacts
<1> QED
  BY <1>4

\* A flush that was asked for forces the memtable out.
LEMMA RotateForFlushInd ==
  ASSUME IInv, RotateForFlush
  PROVE  IInv'
<1>1. /\ call.pc = "open" /\ gone' = <<>> /\ log' = call.new /\ call.kind = "flush"
      /\ wal' = Opened /\ call' = Idle
      /\ UNCHANGED <<logs, tables, manifest, inflight, phase, nextFile, seq, vs, jobs>>
  BY DEF RotateForFlush, OpenLog
<1>p. phase = "open"
  BY <1>1 DEF IInv, PhaseInv
<1>s. TypeOK /\ queue \in Seq(QEntry) /\ seq \in Nat /\ call.new \in Nat
  BY Fields DEF IInv, TypeOK, MemType
<1>4. /\ Rotated(queue') /\ Scheduled(flush') /\ nextSize' \in Nat
      /\ queue'[Len(queue')].refs = 1 /\ queue' \in Seq(QEntry)
  BY FlushRotated
<1>5. OfLog(inflight, call.new) = {}
  BY <1>1, <1>s, NoBatchYet
<1>6. queue'[Len(queue')].refs = Cardinality(OfLog(inflight, call.new)) + 1
  BY <1>4, <1>5, FS_EmptySet
<1>7. /\ PhaseInv' /\ Numbers' /\ OrderInv' /\ IngestInv' /\ ReplayInv' /\ FlushInv'
      /\ RefsInv' /\ BatchInv' /\ RecycleInv' /\ flush' \in FlushType
  BY <1>1, <1>p, <1>4, <1>6, RotatedKept
<1>8. LogsInv'
  BY <1>1, NewLogCurrent
<1>9. TypeOK'
  BY <1>1, <1>s, <1>4, <1>7, OpenedType, NoneGone
     DEF TypeOK, DiskType, MemType, ProcType, MapType, Idle, CallType
<1> QED
  BY <1>7, <1>8, <1>9 DEF IInv

\* An ingest comes between two memtables, with a log of its own.
LEMMA RotateForIngestInd ==
  ASSUME IInv, RotateForIngest
  PROVE  IInv'
<1> DEFINE L == Len(queue)
           x == IngestedFlushable(log, seq, call.file)
           q == Append(queue, x)
<1>1. /\ call.pc = "open" /\ gone' = <<>> /\ log' = call.new /\ call.kind = "ingested"
      /\ RotateMemtable(q, seq + 1, 1) /\ wal' = Opened /\ call' = Idle
      /\ UNCHANGED <<logs, tables, manifest, inflight, phase, nextFile, seq, vs, jobs>>
  BY DEF RotateForIngest, OpenLog
<1>p. phase = "open"
  BY <1>1 DEF IInv, PhaseInv
<1>s. /\ TypeOK /\ L \in Nat /\ L >= 1 /\ queue \in Seq(QEntry) /\ seq \in Nat
      /\ seq + 1 \in Nat /\ call.new \in Nat /\ log \in Nat /\ call.file \in Nat
  <2>1. TypeOK /\ L \in Nat /\ seq \in Nat /\ call.new \in Nat /\ log \in Nat /\ call.file \in Nat
    BY Fields DEF IInv
  <2>2. L >= 1 /\ queue \in Seq(QEntry)
    BY <1>p DEF IInv, TypeOK, MemType, PhaseInv, Up
  <2> QED
    BY <2>1, <2>2
<1>2. x \in QEntry /\ x.kind = "ingest" /\ x.logNum = log
  <2>1. PICK l \in Nat, s \in Nat, f \in Nat : l = log /\ s = seq /\ f = call.file
    BY <1>s
  <2>2. x = IngestedFlushable(l, s, f)
    BY <2>1
  <2>3. /\ IngestedFlushable(l, s, f) \in QEntry
        /\ IngestedFlushable(l, s, f).kind = "ingest" /\ IngestedFlushable(l, s, f).logNum = l
    BY IngestedFacts
  <2> HIDE DEF x
  <2> QED
    BY <2>1, <2>2, <2>3
<1> HIDE DEF x
<1>3. BeforeNew(q)
  <2>1. /\ q \in Seq(QEntry) /\ Len(q) = L + 1 /\ q[L + 1] = x
        /\ \A i \in 1 .. L : q[i] = queue[i]
    BY <1>s, <1>2, AppendProperties
  <2>2. IngestWritten
    BY <1>1 DEF IngestWritten
  <2> HIDE DEF q
  <2> QED
    BY <1>2, <2>1, <2>2 DEF BeforeNew
<1> HIDE DEF q
<1>4. /\ Rotated(queue') /\ Scheduled(flush') /\ nextSize' \in Nat
      /\ queue'[Len(queue')].refs = 1 /\ queue' \in Seq(QEntry)
  BY <1>1, <1>p, <1>s, <1>3, RotateFacts
<1>5. OfLog(inflight, call.new) = {}
  BY <1>1, <1>s, NoBatchYet
<1>6. queue'[Len(queue')].refs = Cardinality(OfLog(inflight, call.new)) + 1
  BY <1>4, <1>5, FS_EmptySet
<1>7. /\ PhaseInv' /\ Numbers' /\ OrderInv' /\ IngestInv' /\ ReplayInv' /\ FlushInv'
      /\ RefsInv' /\ BatchInv' /\ RecycleInv' /\ flush' \in FlushType
  BY <1>1, <1>p, <1>4, <1>6, RotatedKept
<1>8. LogsInv'
  BY <1>1, NewLogCurrent
<1>9. TypeOK'
  BY <1>1, <1>s, <1>4, <1>7, OpenedType, NoneGone
     DEF TypeOK, DiskType, MemType, ProcType, MapType, Idle, CallType
<1> QED
  BY <1>7, <1>8, <1>9 DEF IInv

\* The rotation for a batch that did not fit.
LEMMA BatchRotated ==
  ASSUME IInv, RotateForBatch
  PROVE  /\ Rotated(queue') /\ Scheduled(flush') /\ nextSize' \in Nat
         /\ queue'[Len(queue')].refs = 2 /\ queue'[Len(queue')].logSeqNum = seq
         /\ queue' \in Seq(QEntry)
<1> DEFINE L == Len(queue)
<1>1. call.pc = "open" /\ call.kind = "small" /\ RotateMemtable(queue, seq, 2)
  BY DEF RotateForBatch, OpenLog
<1>p. phase = "open"
  BY <1>1 DEF IInv, PhaseInv
<1>s. /\ TypeOK /\ L \in Nat /\ L >= 1 /\ queue \in Seq(QEntry) /\ seq \in Nat
      /\ seq <= seq + 1 /\ call.new \in Nat /\ 0 \in Nat /\ 2 \in Nat
  <2>1. TypeOK /\ L \in Nat /\ seq \in Nat /\ call.new \in Nat
    BY Fields DEF IInv
  <2>2. L >= 1 /\ queue \in Seq(QEntry)
    BY <1>p DEF IInv, TypeOK, MemType, PhaseInv, Up
  <2> QED
    BY <2>1, <2>2
<1>3. BeforeNew(queue)
  <2>1. L # L + 1
    BY <1>s
  <2> QED
    BY <1>s, <2>1 DEF BeforeNew
<1>4. /\ Rotated(queue') /\ Scheduled(flush') /\ nextSize' \in Nat
      /\ queue'[Len(queue')].refs = 2 /\ queue'[Len(queue')].logSeqNum = seq
      /\ queue' \in Seq(QEntry)
  BY <1>1, <1>p, <1>s, <1>3, RotateFacts
<1> QED
  BY <1>4

\* A batch that did not fit is the first in the new memtable.
LEMMA RotateForBatchInd ==
  ASSUME IInv, RotateForBatch
  PROVE  IInv'
<1> DEFINE L == Len(queue)
           new == [seq |-> seq, log |-> call.new]
           B == inflight \cup {new}
<1>1. /\ call.pc = "open" /\ gone' = <<>> /\ log' = call.new /\ call.kind = "small"
      /\ wal' = Opened /\ call' = Idle
      /\ inflight' = B /\ logs' = Appended(call.new, "small", seq, 0)
      /\ UNCHANGED <<tables, manifest, phase, nextFile, seq, vs, jobs>>
  BY DEF RotateForBatch, OpenLog
<1>p. phase = "open"
  BY <1>1 DEF IInv, PhaseInv
<1>s. /\ TypeOK /\ L \in Nat /\ L >= 1 /\ queue \in Seq(QEntry) /\ seq \in Nat
      /\ seq <= seq + 1 /\ call.new \in Nat /\ 0 \in Nat /\ 2 \in Nat
  <2>1. TypeOK /\ L \in Nat /\ seq \in Nat /\ call.new \in Nat
    BY Fields DEF IInv
  <2>2. L >= 1 /\ queue \in Seq(QEntry)
    BY <1>p DEF IInv, TypeOK, MemType, PhaseInv, Up
  <2> QED
    BY <2>1, <2>2
<1>2. new \in [seq : Nat, log : Nat] /\ new.seq = seq /\ new.log = call.new
  BY <1>s
<1> HIDE DEF new
<1>4. /\ Rotated(queue') /\ Scheduled(flush') /\ nextSize' \in Nat
      /\ queue'[Len(queue')].refs = 2 /\ queue'[Len(queue')].logSeqNum = seq
      /\ queue' \in Seq(QEntry)
  BY BatchRotated
<1>i. IsFiniteSet(inflight) /\ IsFiniteSet(B)
  <2>1. IsFiniteSet(inflight)
    BY <1>s DEF TypeOK, MemType
  <2> QED
    BY <2>1, FS_AddElement
<1>5. OfLog(inflight, call.new) = {} /\ new \notin inflight
  BY <1>1, <1>2, NoBatchYet
<1>6. queue'[Len(queue')].refs = Cardinality(OfLog(B, call.new)) + 1
  <2>1. Cardinality(OfLog(B, call.new)) = Cardinality(OfLog(inflight, call.new)) + 1
    <3>1. PICK l : l = call.new
      OBVIOUS
    <3>2. PICK b, C : b = new /\ C = inflight
      OBVIOUS
    <3>i. b.log = l /\ b \notin C /\ IsFiniteSet(C)
      BY <1>2, <1>5, <1>i, <3>1, <3>2
    <3>3. Cardinality(OfLog(C \cup {b}, l)) = Cardinality(OfLog(C, l)) + 1
      BY <3>i, OfLogFacts
    <3> QED
      BY <3>1, <3>2, <3>3
  <2>2. Cardinality(OfLog(inflight, call.new)) = 0
    BY <1>5, FS_EmptySet
  <2> QED
    BY <1>4, <2>1, <2>2
<1>b. \A b \in B : \/ b \in inflight
                   \/ /\ b.log = call.new /\ b.seq <= seq
                      /\ queue'[Len(queue')].logSeqNum <= b.seq
  BY <1>2, <1>4, <1>s
<1>o. \A l : l # call.new => OfLog(B, l) = OfLog(inflight, l)
  BY <1>2, <1>i, OfLogFacts
<1>a. /\ DOMAIN logs' = DOMAIN logs /\ logs' \in [DOMAIN logs' -> LogFile]
      /\ \A x \in DOMAIN logs : x # call.new => logs'[x] = logs[x]
      /\ call.new \in DOMAIN logs /\ NoIngest(logs[call.new].recs) =>
           NoIngest(logs'[call.new].recs) /\ AloneInLog(logs'[call.new].recs)
  <2>1. AfterAppend(logs', call.new, "small")
    BY <1>1, <1>s, AppendedFacts
  <2> QED
    BY <2>1 DEF AfterAppend
<1> HIDE DEF B
<1>7. /\ PhaseInv' /\ Numbers' /\ OrderInv' /\ IngestInv' /\ ReplayInv' /\ FlushInv'
      /\ RefsInv' /\ BatchInv' /\ RecycleInv' /\ flush' \in FlushType
  <2> DEFINE z == queue'
  <2> HIDE DEF z
  <2>1. /\ Rotated(z) /\ z[Len(z)].refs = Cardinality(OfLog(B, call.new)) + 1
        /\ \A b \in B : \/ b \in inflight
                        \/ /\ b.log = call.new /\ b.seq <= seq
                           /\ z[Len(z)].logSeqNum <= b.seq
    BY <1>4, <1>6, <1>b DEF z
  <2>2. queue' = z
    BY DEF z
  <2> QED
    BY <1>1, <1>p, <1>4, <1>a, <1>o, <2>1, <2>2, RotatedKept
<1>8. LogsInv'
  <2>1. call'.pc = "idle" /\ call'.kind = "none"
    BY <1>1 DEF Idle
  <2>2. call.new \in DOMAIN logs => NoIngest(logs[call.new].recs)
    <3>1. call.new \in DOMAIN logs => logs[call.new].recs = <<>>
      BY <1>1 DEF IInv, LogsInv
    <3> QED
      BY <3>1 DEF NoIngest
  <2>3. \A l \in DOMAIN logs' : AloneInLog(logs'[l].recs)
    BY <1>a, <2>2 DEF IInv, LogsInv
  <2>4. DOMAIN gone' = {}
    BY <1>1, NoneGone
  <2> QED
    BY <1>1, <1>a, <2>1, <2>2, <2>3, <2>4 DEF LogsInv, NoIngest
<1>9. TypeOK'
  <2>1. inflight' \in SUBSET [seq : Nat, log : Nat] /\ IsFiniteSet(inflight')
    BY <1>1, <1>2, <1>i, <1>s DEF TypeOK, MemType, B
  <2>2. DiskType'
    BY <1>1, <1>a, <1>s, NoneGone DEF TypeOK, DiskType, MapType
  <2> QED
    BY <1>1, <1>s, <1>4, <1>7, <2>1, <2>2, OpenedType
       DEF TypeOK, MemType, ProcType, Idle, CallType
<1> QED
  BY <1>7, <1>8, <1>9 DEF IInv

\* What a crash leaves of a log that is cut at its k-th record.
Cut(e, k) == [e EXCEPT !.recs = SubSeq(@, 1, k)]

\* It is a log, as closed as it was, with nothing new in it.
LEMMA CutLog ==
  ASSUME NEW e \in LogFile, AloneInLog(e.recs), NEW k \in e.synced .. Len(e.recs), NEW x,
         x = Cut(e, k)
  PROVE  /\ x \in LogFile /\ AloneInLog(x.recs) /\ x.closed = e.closed
         /\ NoIngest(e.recs) => NoIngest(x.recs)
<1>1. e.recs \in Seq(Record) /\ e.synced \in Nat
  BY DEF LogFile
<1>2. PICK r \in Seq(Record) : r = e.recs
  BY <1>1
<1>3. PICK n \in Nat : n = Len(r)
  OBVIOUS
<1>4. k \in 0 .. n /\ k \in Int /\ 1 \in Int
  BY <1>1, <1>2, <1>3
<1>5. \A i \in 1 .. k : r[i] \in Record
  BY <1>3, <1>4
<1> DEFINE s == SubSeq(r, 1, k)
<1>6. /\ s \in Seq(Record) /\ Len(s) = IF 1 <= k THEN k - 1 + 1 ELSE 0
      /\ \A i \in 1 .. k - 1 + 1 : s[i] = r[1 + i - 1]
  BY <1>4, <1>5, SubSeqProperties
<1>7. k - 1 + 1 = k /\ \A i \in 1 .. k : 1 + i - 1 = i
  BY <1>4
<1> HIDE DEF s
<1>8. Len(s) = k /\ \A i \in 1 .. k : s[i] = r[i]
  BY <1>4, <1>6, <1>7
<1>9. AloneInLog(s)
  <2> SUFFICES ASSUME NEW i \in DOMAIN s, s[i].kind = "ingest" PROVE Len(s) = 1
    BY DEF AloneInLog
  <2>1. i \in 1 .. k
    BY <1>6, <1>8
  <2>2. r[i].kind = "ingest" /\ i \in DOMAIN r
    BY <1>3, <1>4, <1>8, <2>1
  <2>3. n = 1
    BY <1>2, <1>3, <2>2 DEF AloneInLog
  <2> QED
    BY <1>4, <1>8, <2>1, <2>3
<1>10. x = [e EXCEPT !.recs = s]
  BY <1>2 DEF s, Cut
<1>11. x \in LogFile /\ x.recs = s /\ x.closed = e.closed
  BY <1>6, <1>10 DEF LogFile
<1>12. ASSUME NoIngest(r) PROVE NoIngest(s)
  <2>1. DOMAIN s = 1 .. k /\ \A i \in 1 .. k : i \in DOMAIN r
    BY <1>3, <1>4, <1>6, <1>8
  <2> QED
    BY <1>8, <1>12, <2>1 DEF NoIngest
<1> QED
  BY <1>2, <1>9, <1>11, <1>12

\* A crash leaves the files, some of those removed back and the logs cut.
LEMMA CrashInd ==
  ASSUME IInv, Crash
  PROVE  IInv'
<1>1. PICK lost \in SUBSET (IF call.pc = "open" THEN {call.new} ELSE {}),
           back \in SUBSET DOMAIN gone :
        LET left == Joined(Without(logs, lost), [l \in back |-> gone[l]]) IN
        \E keep \in [DOMAIN left -> 0 .. MaxCalls] :
          /\ \A l \in DOMAIN left : keep[l] \in left[l].synced .. Len(left[l].recs)
          /\ logs' = [l \in DOMAIN left |-> [left[l] EXCEPT !.recs = SubSeq(@, 1, keep[l])]]
  BY DEF Crash
<1> DEFINE again == [l \in back |-> gone[l]]
           left == Joined(Without(logs, lost), again)
<1>2. PICK keep :
        /\ \A l \in DOMAIN left : keep[l] \in left[l].synced .. Len(left[l].recs)
        /\ logs' = [l \in DOMAIN left |-> [left[l] EXCEPT !.recs = SubSeq(@, 1, keep[l])]]
  BY <1>1
<1>3. /\ phase' = "down" /\ gone' = <<>> /\ queue' = <<>> /\ inflight' = {}
      /\ nextSize' = InitialSize /\ nextFile' = 0 /\ seq' = 0 /\ log' = 0
      /\ vs' = [min |-> 0, tables |-> {}] /\ call' = Idle
      /\ flush' = [pc |-> "idle", n |-> 0, min |-> 0, file |-> 0]
      /\ wal' = [queue |-> <<>>, recycler |-> <<>>, maxLog |-> 0, minRecycle |-> 0,
                 initial |-> {}, delete |-> <<>>]
      /\ jobs' = <<>> /\ UNCHANGED <<tables, manifest>>
  BY DEF Crash
<1>4. MapType(left, LogFile) /\ \A l \in DOMAIN left : AloneInLog(left[l].recs)
  <2>1. MapType(logs, LogFile) /\ MapType(gone, LogFile)
    BY UsedNat DEF IInv
  <2>2. MapType(again, LogFile)
    <3>1. back \cap DOMAIN gone = back
      OBVIOUS
    <3>2. MapType([l \in back \cap DOMAIN gone |-> gone[l]], LogFile)
      BY <2>1, SmallMaps
    <3> QED
      BY <3>1, <3>2
  <2>3. DOMAIN again = back /\ \A l \in back : again[l] = gone[l]
    OBVIOUS
  <2> DEFINE kept == Without(logs, lost)
  <2> HIDE DEF again
  <2>4. DOMAIN kept \subseteq DOMAIN logs /\ \A l \in DOMAIN kept : kept[l] = logs[l]
    BY DEF Without
  <2>5. MapType(kept, LogFile)
    BY <2>1, MapTypes
  <2> HIDE DEF kept
  <2>6. MapType(Joined(kept, again), LogFile)
    BY <2>2, <2>5, MapTypes
  <2>7. \A l \in DOMAIN Joined(kept, again) :
          Joined(kept, again)[l] = IF l \in DOMAIN kept THEN logs[l] ELSE gone[l]
    BY <2>3, <2>4 DEF Joined
  <2>8. \A l \in DOMAIN Joined(kept, again) : l \in DOMAIN kept \/ l \in DOMAIN gone
    BY <2>3 DEF Joined
  <2>9. ASSUME NEW l \in DOMAIN Joined(kept, again)
        PROVE  AloneInLog(Joined(kept, again)[l].recs)
    BY <2>4, <2>7, <2>8 DEF IInv, LogsInv
  <2> QED
    BY <2>6, <2>9 DEF kept
<1> HIDE DEF left
<1>5. MapType(logs', LogFile) /\ \A l \in DOMAIN logs' : AloneInLog(logs'[l].recs)
  <2>1. DOMAIN logs' = DOMAIN left
    BY <1>2
  <2>2. ASSUME NEW l \in DOMAIN left PROVE logs'[l] \in LogFile /\ AloneInLog(logs'[l].recs)
    <3>1. PICK e \in LogFile : e = left[l]
      BY <1>4 DEF MapType
    <3>2. PICK k \in e.synced .. Len(e.recs) : k = keep[l]
      BY <1>2, <3>1
    <3>3. logs'[l] = Cut(e, k)
      BY <1>2, <3>1, <3>2 DEF Cut
    <3>4. AloneInLog(e.recs)
      BY <1>4, <3>1
    <3> QED
      BY <3>3, <3>4, CutLog
  <2>3. logs' \in [DOMAIN logs' -> LogFile]
    BY <1>2, <2>1, <2>2
  <2> QED
    BY <1>4, <2>1, <2>2, <2>3 DEF MapType
<1>c. call'.pc = "idle" /\ call'.kind = "none" /\ call' \in CallType
  BY <1>3 DEF Idle, CallType
<1>f. flush' \in FlushType /\ flush'.pc = "idle" /\ flush'.n = 0
  BY <1>3 DEF FlushType
<1>6. TypeOK'
  <2>1. DiskType'
    BY <1>3, <1>5, NoneGone DEF IInv, TypeOK, DiskType, MapType
  <2>2. MemType'
    <3>1. InitialSize \in Nat
      BY SizesAssumption
    <3>2. <<>> \in Seq(QEntry)
      BY EmptySeq
    <3> QED
      BY <1>3, <3>1, <3>2, FS_EmptySet DEF MemType
  <2>3. ProcType'
    BY <1>3, <1>c, <1>f DEF ProcType, VersionType
  <2>4. wal' \in WalType
    <3>1. {} \in FinSets
      BY FinParts
    <3>2. <<>> \in Seq(Nat)
      BY EmptySeq
    <3> QED
      BY <1>3, <3>1, <3>2 DEF WalType
  <2> QED
    BY <2>1, <2>2, <2>3, <2>4 DEF TypeOK
<1>7. PhaseInv'
  BY <1>3, <1>c, <1>f, NoneGone DEF PhaseInv, Up
<1>8. Numbers' /\ ReplayInv' /\ FlushInv' /\ RefsInv' /\ RecycleInv' /\ IngestInv'
  BY <1>3, <1>c, <1>f DEF IInv, Numbers, NewLog, Up, ReplayInv, FlushInv, RefsInv, RecycleInv,
                          IngestInv, IngestWritten
<1>9. LogsInv'
  BY <1>3, <1>5, <1>c, NoneGone DEF LogsInv
<1>10. OrderInv' /\ BatchInv'
  <2>1. Len(queue') = 0 /\ DOMAIN queue' = {}
    BY <1>3
  <2> QED
    BY <1>3, <2>1 DEF OrderInv, BatchInv, Up
<1> QED
  BY <1>6, <1>7, <1>8, <1>9, <1>10 DEF IInv

\* The numbers after those of a finite set.
LEMMA NextNumbers ==
  ASSUME NEW S \in FinSets, NEW m \in Nat
  PROVE  /\ Max({m} \cup {f + 1 : f \in S}) \in Nat
         /\ m <= Max({m} \cup {f + 1 : f \in S})
         /\ \A f \in S : f < Max({m} \cup {f2 + 1 : f2 \in S})
<1> DEFINE g == [f \in S |-> f + 1]
           T == {f + 1 : f \in S}
<1>1. IsFiniteSet(S) /\ S \subseteq Nat
  BY DEF FinSets
<1>2. g \in [S -> Nat] /\ T = {g[f] : f \in S}
  BY <1>1
<1> HIDE DEF g
<1>3. T \in FinSets
  BY <1>1, <1>2, FinImage
<1>4. {m} \cup T \in FinSets
  <2> HIDE DEF T
  <2>1. {m} \in FinSets
    BY FinParts
  <2> QED
    BY <1>3, <2>1, FinParts
<1>5. \A f \in S : f + 1 \in {m} \cup T
  OBVIOUS
<1> DEFINE U == {m} \cup T
<1>6. m \in U
  OBVIOUS
<1> HIDE DEF T, U
<1>7. Max(U) \in Nat /\ \A x \in U : x <= Max(U)
  <2>1. U \in FinSets /\ U # {}
    BY <1>4, <1>6 DEF U
  <2> QED
    BY <2>1, MaxFin
<1>8. m <= Max(U) /\ \A f \in S : f + 1 <= Max(U)
  BY <1>5, <1>6, <1>7 DEF U
<1>9. \A f \in S : f < Max(U)
  BY <1>1, <1>7, <1>8
<1> QED
  BY <1>7, <1>8, <1>9 DEF U, T

\* Open starts with numbers above all those on disk.
LEMMA LoadInd ==
  ASSUME IInv, Load
  PROVE  IInv'
<1> DEFINE x == NewMemTable(0, manifest.last + 1, InitialSize)
<1>1. /\ phase = "down" /\ phase' \in {"replaying", "failed"}
      /\ queue' = <<x>> /\ nextSize' = Doubled(InitialSize)
      /\ nextFile' = Max({manifest.next} \cup {f + 1 : f \in UsedNumbers})
      /\ seq' = manifest.last /\ vs' = [min |-> manifest.min, tables |-> manifest.tables]
      /\ wal' = [wal EXCEPT !.initial = DOMAIN logs,
                            !.minRecycle = Max({0} \cup {l + 1 : l \in DOMAIN logs})]
      /\ UNCHANGED <<logs, gone, tables, manifest, inflight, log, call, flush, jobs>>
  BY DEF Load, disk
<1>s. /\ TypeOK /\ manifest.last \in Nat /\ manifest.last + 1 \in Nat /\ manifest.next \in Nat
      /\ manifest.min \in Nat /\ 0 \in Nat /\ InitialSize \in Nat
  <2>1. TypeOK /\ manifest.last \in Nat /\ manifest.next \in Nat /\ manifest.min \in Nat
    BY Fields DEF IInv
  <2>2. InitialSize \in Nat
    BY SizesAssumption
  <2> QED
    BY <2>1, <2>2
<1>d. /\ inflight = {} /\ flush.pc = "idle" /\ flush.n = 0 /\ jobs = <<>> /\ log = 0 /\ DOMAIN gone = {}
      /\ call.pc = "idle" /\ call.kind = "none"
  BY <1>1 DEF IInv, PhaseInv
<1>2. /\ x \in QEntry /\ x.kind = "mem" /\ x.logNum = 0 /\ x.refs = 1
      /\ x.logSeqNum = manifest.last + 1
  <2>1. PICK l \in Nat, s \in Nat, z \in Nat : l = 0 /\ s = manifest.last + 1 /\ z = InitialSize
    BY <1>s
  <2>2. x = NewMemTable(l, s, z)
    BY <2>1
  <2> HIDE DEF x
  <2>3. /\ NewMemTable(l, s, z) \in QEntry /\ NewMemTable(l, s, z).kind = "mem"
        /\ NewMemTable(l, s, z).logNum = l /\ NewMemTable(l, s, z).refs = 1
        /\ NewMemTable(l, s, z).logSeqNum = s
    BY NewMemTableFacts
  <2> QED
    BY <2>1, <2>2, <2>3
<1> HIDE DEF x
<1>q. /\ queue' \in Seq(QEntry) /\ Len(queue') = 1 /\ DOMAIN queue' = {1} /\ queue'[1] = x
  BY <1>1, <1>2
<1>3. /\ nextFile' \in Nat /\ manifest.next <= nextFile'
      /\ \A f \in DOMAIN logs \cup DOMAIN tables : f < nextFile'
  <2>1. UsedNumbers \in FinSets
    <3>1. DOMAIN logs \in FinSets /\ DOMAIN tables \in FinSets
      BY <1>s DEF TypeOK, DiskType
    <3> QED
      BY <3>1, FinParts DEF UsedNumbers
  <2>2. UsedNumbers = DOMAIN logs \cup DOMAIN tables
    BY DEF UsedNumbers
  <2> HIDE DEF UsedNumbers
  <2> QED
    BY <1>1, <1>s, <2>1, <2>2, NextNumbers
<1>4. wal' \in WalType
  <2>1. DOMAIN logs \in FinSets /\ wal \in WalType
    BY <1>s DEF TypeOK, DiskType
  <2>2. Max({0} \cup {l + 1 : l \in DOMAIN logs}) \in Nat
    BY <1>s, <2>1, NextNumbers
  <2>3. PICK m \in Nat : m = Max({0} \cup {l + 1 : l \in DOMAIN logs})
    BY <2>2
  <2>4. wal' = [wal EXCEPT !.initial = DOMAIN logs, !.minRecycle = m]
    BY <1>1, <2>3
  <2> QED
    BY <2>1, <2>4 DEF WalType
<1>5. TypeOK'
  <2>1. nextSize' \in Nat
    BY <1>1, <1>s, DoubledNat
  <2>2. vs' \in VersionType /\ vs'.min = manifest.min
    BY <1>1, <1>s DEF TypeOK, DiskType, VersionType
  <2> QED
    BY <1>1, <1>s, <1>q, <1>3, <1>4, <2>1, <2>2 DEF TypeOK, DiskType, MemType, ProcType
<1>6. PhaseInv'
  BY <1>1, <1>d, <1>q DEF PhaseInv, Up
<1>7. Numbers'
  <2>1. manifest.min < nextFile' /\ 0 < nextFile' /\ manifest.min < manifest.next
    BY <1>s, <1>3 DEF IInv, Numbers
  <2>2. vs'.min = manifest.min
    BY <1>1
  <2> QED
    BY <1>1, <1>d, <1>q, <1>2, <1>3, <2>1, <2>2 DEF Numbers, NewLog
<1>8. LogsInv' /\ FlushInv' /\ RefsInv' /\ BatchInv' /\ RecycleInv' /\ IngestInv'
  BY <1>1, <1>d DEF IInv, LogsInv, FlushInv, RefsInv, BatchInv, RecycleInv, IngestInv, IngestWritten
<1>9. OrderInv'
  BY <1>1, <1>s, <1>q, <1>2 DEF OrderInv
<1>10. ReplayInv'
  BY <1>1, <1>d, <1>q, <1>2, <1>s DEF ReplayInv
<1> QED
  BY <1>5, <1>6, <1>7, <1>8, <1>9, <1>10 DEF IInv

\* The entries of the next log come after all others.
LEMMA ReplayWALInd ==
  ASSUME IInv, ReplayWAL
  PROVE  IInv'
<1> DEFINE l == Min(Unreplayed)
           L == Len(queue)
           before == IF log > 0 THEN queue
                     ELSE [queue EXCEPT ![1].refs = 0, ![1].forced = TRUE]
           E == Entries(l)
           memtables == {i \in DOMAIN E : E[i].kind = "mem"}
           q == queue'
<1>1. /\ phase = "replaying" /\ Unreplayed # {} /\ phase' \in {"replaying", "failed"}
      /\ queue' = before \o E /\ nextSize' = Grown(nextSize, Cardinality(memtables))
      /\ seq' = Max({seq} \cup {r.seq : r \in Range(Readable(l))}) /\ log' = l
      /\ UNCHANGED <<logs, gone, tables, manifest, inflight, nextFile, vs, call, flush,
                     wal, jobs>>
  BY DEF ReplayWAL, disk
<1>s. /\ TypeOK /\ L \in Nat /\ DOMAIN queue = 1 .. L /\ queue \in Seq(QEntry)
      /\ log \in Nat /\ seq \in Nat /\ nextSize \in Nat /\ nextFile \in Nat /\ vs.min \in Nat
      /\ \A i \in 1 .. L : queue[i] \in QEntry /\ queue[i].logNum \in Nat
  BY Fields DEF IInv, TypeOK, MemType
<1>d. /\ inflight = {} /\ flush.pc = "idle" /\ flush.n = 0 /\ jobs = <<>> /\ L >= 1
      /\ call.pc = "idle" /\ call.kind = "none"
  BY <1>1 DEF IInv, PhaseInv, Up
<1>2. l \in DOMAIN logs /\ l \in Nat /\ l >= manifest.min /\ l > log
  <2>1. Unreplayed \subseteq Nat
    BY <1>s, UsedNat DEF Unreplayed
  <2>2. l \in Unreplayed
    BY <1>1, <2>1, MinFacts
  <2> QED
    BY <2>1, <2>2 DEF Unreplayed
<1> HIDE DEF l
<1>3. logs[l] \in LogFile /\ AloneInLog(logs[l].recs)
  BY <1>2, <1>s DEF TypeOK, DiskType, IInv, LogsInv
<1>4. /\ E \in Seq(QEntry)
      /\ \A i \in 1 .. Len(E) : E[i].logNum = l /\ ReadyForFlush(E[i])
      /\ \A i \in 1 .. Len(E) : E[i].kind = "ingest" => Len(E) = 1
  BY <1>2, <1>3, EntriesFacts DEF GoodEntries
<1> HIDE DEF E
<1>5. seq' \in Nat /\ nextSize' \in Nat
  <2>1. Readable(l) = logs[l].recs /\ logs[l].recs \in Seq(Record)
    BY <1>3, ReadableFacts DEF LogFile
  <2> DEFINE S == {r.seq : r \in Range(Readable(l))}
  <2>2. S \in FinSets
    BY <2>1, SeqsFacts
  <2> HIDE DEF S
  <2>3. {seq} \in FinSets
    BY <1>s, FinParts
  <2>4. {seq} \cup S \in FinSets
    BY <2>2, <2>3, FinParts
  <2>5. Max({seq} \cup S) \in Nat
    BY <2>4, MaxFin
  <2>6. seq' \in Nat
    BY <1>1, <2>5 DEF S
  <2>7. Cardinality(memtables) \in Nat
    <3>1. Len(E) \in Nat /\ DOMAIN E = 1 .. Len(E)
      BY <1>4
    <3>2. IsFiniteSet(1 .. Len(E)) /\ memtables \subseteq 1 .. Len(E)
      BY <3>1, FS_Interval
    <3> HIDE DEF memtables
    <3> QED
      BY <3>2, FS_Subset, FS_CardinalityType
  <2> QED
    BY <1>1, <1>s, <2>6, <2>7, GrownNat
<1> HIDE DEF memtables
<1>6. /\ before \in Seq(QEntry) /\ Len(before) = L
      /\ \A i \in 1 .. L : /\ before[i].kind = queue[i].kind
                           /\ before[i].logNum = queue[i].logNum /\ ReadyForFlush(before[i])
  <2>1. CASE log > 0
    BY <1>1, <1>s, <2>1 DEF IInv, ReplayInv
  <2>2. CASE ~(log > 0)
    <3>1. log = 0 /\ L = 1 /\ 1 \in 1 .. L
      BY <1>1, <1>s, <2>2 DEF IInv, ReplayInv
    <3> DEFINE x == [queue[1] EXCEPT !.refs = 0, !.forced = TRUE]
    <3>2. PICK e \in QEntry : e = queue[1]
      BY <1>s, <3>1
    <3>3. x = [e EXCEPT !.refs = 0, !.forced = TRUE]
      BY <3>2
    <3>4. before = [queue EXCEPT ![1] = x]
      BY <2>2
    <3> HIDE DEF x, before
    <3>5. x \in QEntry /\ x.kind = e.kind /\ x.logNum = e.logNum /\ x.refs = 0
      BY <3>3 DEF QEntry
    <3>6. Put(before, queue, 1, x)
      BY <1>s, <3>1, <3>4, <3>5, PutFacts
    <3>7. ReadyForFlush(x)
      BY <3>5 DEF ReadyForFlush
    <3>8. \A i \in 1 .. L : i = 1
      BY <3>1
    <3> QED
      BY <3>2, <3>5, <3>6, <3>7, <3>8 DEF Put
  <2> QED
    BY <2>1, <2>2
<1> HIDE DEF before
<1> DEFINE N == Len(E)
           M == L + N
<1>7. /\ q \in Seq(QEntry) /\ Len(q) = M /\ DOMAIN q = 1 .. M
      /\ \A i \in 1 .. M : q[i] = IF i <= L THEN before[i] ELSE E[i - L]
  <2>1. /\ before \o E \in Seq(QEntry) /\ Len(before \o E) = Len(before) + Len(E)
        /\ \A i \in 1 .. Len(before) + Len(E) :
             (before \o E)[i] = IF i <= Len(before) THEN before[i] ELSE E[i - Len(before)]
    BY <1>4, <1>6, ConcatProperties
  <2>2. /\ q \in Seq(QEntry) /\ Len(q) = M
        /\ \A i \in 1 .. M : q[i] = IF i <= L THEN before[i] ELSE E[i - L]
    BY <1>1, <1>6, <2>1
  <2> HIDE DEF q, M
  <2>3. DOMAIN q = 1 .. M
    BY <2>2
  <2> QED
    BY <2>2, <2>3
<1>m. /\ N \in Nat /\ M \in Nat /\ M >= L
      /\ \A i \in 1 .. M : i \in 1 .. L \/ (i > L /\ i - L \in 1 .. N)
      /\ \A i \in 1 .. L : i \in 1 .. M /\ i <= L
      /\ \A i \in 2 .. M : i \in 1 .. M /\ i - 1 \in 1 .. M /\ i \in Nat
  <2>1. N \in Nat
    BY <1>4
  <2> HIDE DEF N
  <2> QED
    BY <2>1, <1>s
<1> HIDE DEF q, M, L, N
<1>8. \A i \in 1 .. M :
        /\ ReadyForFlush(q[i]) /\ q[i].logNum \in Nat
        /\ i \in 1 .. L => q[i].kind = queue[i].kind /\ q[i].logNum = queue[i].logNum
                           /\ q[i].logNum <= log
        /\ i \notin 1 .. L => q[i].logNum = l /\ (q[i].kind = "ingest" => N = 1)
  <2> SUFFICES ASSUME NEW i \in 1 .. M
               PROVE  /\ ReadyForFlush(q[i]) /\ q[i].logNum \in Nat
                      /\ i \in 1 .. L => q[i].kind = queue[i].kind /\ q[i].logNum = queue[i].logNum
                                         /\ q[i].logNum <= log
                      /\ i \notin 1 .. L => q[i].logNum = l /\ (q[i].kind = "ingest" => N = 1)
    OBVIOUS
  <2>1. CASE i \in 1 .. L
    <3>1. q[i] = before[i]
      BY <1>7, <1>m, <2>1
    <3>2. queue[i].logNum <= log
      BY <1>1, <1>s, <2>1 DEF IInv, ReplayInv
    <3> QED
      BY <1>6, <1>s, <2>1, <3>1, <3>2
  <2>2. CASE i \notin 1 .. L
    <3>1. i > L /\ i - L \in 1 .. N
      BY <1>m, <2>2
    <3>2. ~(i <= L)
      BY <3>1, <1>s
    <3>3. q[i] = E[i - L]
      BY <1>7, <3>2
    <3> QED
      BY <1>2, <1>4, <2>2, <3>1, <3>3 DEF N
  <2> QED
    BY <2>1, <2>2
<1>9. TypeOK'
  BY <1>1, <1>s, <1>2, <1>5, <1>7, <1>d DEF TypeOK, DiskType, MemType, ProcType, q
<1>10. PhaseInv'
  <2>1. Len(queue') >= 1
    BY <1>7, <1>m, <1>d, <1>s DEF q, L
  <2> QED
    BY <1>1, <1>d, <2>1 DEF PhaseInv
<1>11. Numbers'
  <2>1. l < nextFile /\ log < nextFile
    BY <1>1, <1>2 DEF IInv, Numbers, Up
  <2>2. ASSUME NEW i \in 1 .. M PROVE q[i].logNum < nextFile
    BY <1>8, <1>s, <2>1
  <2> QED
    BY <1>1, <1>d, <1>7, <2>1, <2>2 DEF IInv, Numbers, NewLog, Up, q
<1>12. LogsInv' /\ FlushInv' /\ RefsInv' /\ BatchInv' /\ RecycleInv' /\ IngestInv'
  BY <1>1, <1>d DEF IInv, LogsInv, FlushInv, RefsInv, BatchInv, RecycleInv, IngestInv, IngestWritten
<1>13. OrderInv'
  <2>1. ASSUME NEW i \in 1 .. M, NEW j \in 1 .. M, i <= j PROVE q[i].logNum <= q[j].logNum
    <3>1. CASE j \in 1 .. L
      <4>1. i \in 1 .. L
        BY <1>s, <2>1, <3>1
      <4>2. queue[i].logNum <= queue[j].logNum
        BY <1>s, <2>1, <3>1, <4>1 DEF IInv, OrderInv
      <4> QED
        BY <1>8, <3>1, <4>1, <4>2
    <3>2. CASE j \notin 1 .. L
      <4>1. q[j].logNum = l
        BY <1>8, <3>2
      <4>2. q[i].logNum <= log \/ q[i].logNum = l
        BY <1>8
      <4>3. q[i].logNum \in Nat
        BY <1>8
      <4> QED
        BY <1>2, <1>s, <4>1, <4>2, <4>3
    <3> QED
      BY <3>1, <3>2
  <2>2. ASSUME NEW i \in 2 .. M, q[i - 1].logNum = q[i].logNum
        PROVE  q[i - 1].kind # "ingest" /\ q[i].kind # "ingest" /\ ReadyForFlush(q[i])
    <3>0. i \in 1 .. M /\ i - 1 \in 1 .. M /\ i \in Nat
      BY <1>m
    <3>1. CASE i \in 1 .. L
      <4>1. i \in 2 .. L /\ i - 1 \in 1 .. L
        BY <1>s, <3>1, <3>0
      <4>2. queue[i - 1].logNum = queue[i].logNum
        BY <1>8, <2>2, <3>0, <3>1, <4>1
      <4>3. queue[i - 1].kind # "ingest" /\ queue[i].kind # "ingest"
        BY <4>1, <4>2 DEF IInv, OrderInv, L
      <4> QED
        BY <1>8, <3>0, <3>1, <4>1, <4>3
    <3>2. CASE i \notin 1 .. L
      <4>1. q[i].logNum = l /\ q[i - 1].logNum = l
        BY <1>8, <2>2, <3>0, <3>2
      <4>2. i - 1 \notin 1 .. L
        BY <1>8, <1>2, <1>s, <3>0, <4>1
      <4>3. i - L \in 1 .. N /\ (i - 1) - L \in 1 .. N
        BY <1>m, <3>0, <3>2, <4>2
      <4>4. N # 1
        BY <1>m, <1>s, <3>0, <4>3
      <4> QED
        BY <1>8, <3>0, <3>2, <4>2, <4>4
    <3> QED
      BY <3>1, <3>2
  <2>3. ASSUME NEW i \in 2 .. M PROVE vs.min <= q[i].logNum
    <3>0. i \in 1 .. M /\ i \in Nat
      BY <1>m
    <3>1. CASE i \in 1 .. L
      <4>1. i \in 2 .. L
        BY <1>s, <3>1, <3>0
      <4> QED
        BY <1>1, <1>8, <3>0, <3>1, <4>1 DEF IInv, OrderInv, Up, L
    <3>2. CASE i \notin 1 .. L
      <4>1. vs.min = manifest.min
        BY <1>1 DEF IInv, ReplayInv
      <4> QED
        BY <1>2, <1>8, <1>s, <3>0, <3>2, <4>1
    <3> QED
      BY <3>1, <3>2
  <2> QED
    BY <1>1, <1>7, <2>1, <2>2, <2>3 DEF OrderInv, q, ReadyForFlush
<1>14. ReplayInv'
  <2>1. l > 0 /\ l # 0
    BY <1>2, <1>s
  <2>2. \A i \in 1 .. M : q[i].logNum <= l
    BY <1>8, <1>2, <1>s
  <2>3. vs.min = manifest.min
    BY <1>1 DEF IInv, ReplayInv
  <2> QED
    BY <1>1, <1>7, <1>8, <2>1, <2>2, <2>3 DEF ReplayInv, q, ReadyForFlush
<1> QED
  BY <1>9, <1>10, <1>11, <1>12, <1>13, <1>14 DEF IInv

\* Open has replayed the logs: what it replayed is to be flushed and comes
\* before a new memtable.
LEMMA EndReplayInd ==
  ASSUME IInv, EndReplay
  PROVE  IInv'
<1> DEFINE L == Len(queue)
           x == NewMemTable(nextFile, seq + 1, nextSize)
           q == queue'
<1>1. /\ phase = "replaying" /\ phase' = "replayed"
      /\ UNCHANGED <<logs, gone, tables, manifest, inflight, seq, vs, log, call, wal, jobs>>
  BY DEF EndReplay, disk
<1>s. /\ TypeOK /\ L \in Nat /\ DOMAIN queue = 1 .. L /\ queue \in Seq(QEntry)
      /\ log \in Nat /\ seq \in Nat /\ nextSize \in Nat /\ nextFile \in Nat /\ vs.min \in Nat
      /\ \A i \in 1 .. L : queue[i] \in QEntry /\ queue[i].logNum \in Nat
  BY Fields DEF IInv, TypeOK, MemType
<1>d. /\ inflight = {} /\ flush.pc = "idle" /\ flush.n = 0 /\ jobs = <<>> /\ L >= 1
      /\ call.pc = "idle" /\ call.kind = "none"
  BY <1>1 DEF IInv, PhaseInv, Up
<1>o. \A l : OfLog(inflight, l) = {} /\ Cardinality(OfLog(inflight, l)) = 0
  <2>1. \A l : OfLog(inflight, l) = {}
    BY <1>d DEF OfLog
  <2> QED
    BY <2>1, FS_EmptySet
<1>2. LogsInv' /\ IngestInv' /\ BatchInv' /\ ReplayInv' /\ RecycleInv'
  BY <1>1, <1>d DEF IInv, LogsInv, BatchInv, ReplayInv, RecycleInv, IngestInv, IngestWritten
<1>3. CASE log = 0
  <2>1. UNCHANGED <<queue, nextSize, nextFile, flush>>
    BY <1>3 DEF EndReplay
  <2>2. L = 1 /\ queue[1].kind = "mem" /\ queue[1].refs = 1 /\ queue[1].logSeqNum <= seq + 1
    BY <1>1, <1>3 DEF IInv, ReplayInv
  <2>3. TypeOK'
    BY <1>1, <1>s, <2>1 DEF TypeOK, DiskType, MemType, ProcType
  <2>4. PhaseInv' /\ Numbers' /\ FlushInv'
    BY <1>1, <1>d, <2>1 DEF IInv, PhaseInv, Numbers, NewLog, FlushInv, Up
  <2>5. OrderInv'
    BY <1>1, <1>s, <2>1, <2>2 DEF IInv, OrderInv
  <2>6. RefsInv'
    <3>1. \A i \in DOMAIN queue : i = 1
      BY <1>s, <2>2
    <3>2. 1 = 0 + 1
      OBVIOUS
    <3> HIDE DEF L
    <3> QED
      BY <1>1, <1>s, <1>o, <2>1, <2>2, <3>1, <3>2 DEF RefsInv, Mutable, L
  <2> QED
    BY <1>2, <2>3, <2>4, <2>5, <2>6 DEF IInv
<1>4. CASE log # 0
  <2>1. /\ q = Append(queue, x) /\ nextSize' = Doubled(nextSize)
        /\ nextFile' = nextFile + 1 /\ flush' = MaybeScheduleFlush(q)
    BY <1>4 DEF EndReplay
  <2>f. /\ flush' \in FlushType /\ flush'.n = 0 /\ flush'.pc \in {"idle", "begin"}
    BY <2>1, <1>d, MaybeFacts, ScheduledFacts
  <2>2. /\ x \in QEntry /\ x.kind = "mem" /\ x.logNum = nextFile /\ x.refs = 1
        /\ x.logSeqNum = seq + 1
    <3>1. PICK l \in Nat, s \in Nat, z \in Nat : l = nextFile /\ s = seq + 1 /\ z = nextSize
      BY <1>s
    <3>2. x = NewMemTable(l, s, z)
      BY <3>1
    <3> HIDE DEF x
    <3>3. /\ NewMemTable(l, s, z) \in QEntry /\ NewMemTable(l, s, z).kind = "mem"
          /\ NewMemTable(l, s, z).logNum = l /\ NewMemTable(l, s, z).refs = 1
          /\ NewMemTable(l, s, z).logSeqNum = s
      BY NewMemTableFacts
    <3> QED
      BY <3>1, <3>2, <3>3
  <2> HIDE DEF x
  <2> DEFINE M == L + 1
  <2>3. /\ q \in Seq(QEntry) /\ Len(q) = M /\ q[M] = x
        /\ \A i \in 1 .. L : q[i] = queue[i]
    BY <1>s, <2>1, <2>2, AppendProperties
  <2> HIDE DEF q, L
  <2>m. /\ M \in Nat /\ M \in 1 .. M /\ M >= 1 /\ M \notin 1 .. L
        /\ \A i \in 1 .. M : i \in 1 .. L \/ i = M
        /\ \A i \in 1 .. L : i \in 1 .. M /\ i < M /\ i # M
        /\ \A i \in 2 .. M : i \in 1 .. M /\ i - 1 \in 1 .. L
        /\ \A i \in 2 .. M : i # M => i \in 2 .. L
    BY <1>s
  <2> HIDE DEF M
  <2>4. DOMAIN q = 1 .. M
    BY <2>3
  <2>5. /\ nextFile' \in Nat /\ nextFile < nextFile'
        /\ \A y \in Nat : y < nextFile => y < nextFile'
    BY <1>s, <2>1
  <2>6. \A i \in 1 .. L : queue[i].logNum < nextFile /\ queue[i].logNum # nextFile
    BY <1>1, <1>s DEF IInv, Numbers, Up
  <2>7. TypeOK'
    <3>1. nextSize' \in Nat
      BY <1>s, <2>1, DoubledNat
    <3> QED
      BY <1>1, <1>s, <2>f, <2>3, <2>5, <3>1 DEF TypeOK, DiskType, MemType, ProcType, q
  <2>8. PhaseInv' /\ FlushInv'
    BY <1>1, <1>d, <2>f, <2>3, <2>m DEF IInv, PhaseInv, FlushInv, Up, q
  <2>9. Numbers'
    <3>1. \A f \in DOMAIN logs \cup DOMAIN tables \cup DOMAIN gone : f \in Nat /\ f < nextFile
      BY <1>1, <1>s, UsedNat DEF IInv, Numbers, Up
    <3>2. \A i \in 1 .. M : q[i].logNum < nextFile'
      BY <1>s, <2>m, <2>2, <2>3, <2>5, <2>6
    <3>3. vs.min < nextFile /\ log < nextFile /\ manifest.min < manifest.next
      BY <1>1 DEF IInv, Numbers, Up
    <3>4. NewLog'
      BY <1>1, <1>d DEF NewLog
    <3> QED
      BY <1>1, <1>s, <2>f, <2>4, <2>5, <3>1, <3>2, <3>3, <3>4 DEF Numbers, q
  <2>10. OrderInv'
    <3>1. ASSUME NEW i \in 1 .. M, NEW j \in 1 .. M, i <= j PROVE q[i].logNum <= q[j].logNum
      <4>1. CASE j \in 1 .. L
        <5>1. i \in 1 .. L
          BY <1>s, <3>1, <4>1
        <5> QED
          BY <1>s, <2>3, <3>1, <4>1, <5>1 DEF IInv, OrderInv
      <4>2. CASE j = M
        <5>1. q[j].logNum = nextFile
          BY <2>2, <2>3, <4>2
        <5>2. CASE i \in 1 .. L
          <6>1. q[i].logNum \in Nat /\ q[i].logNum < nextFile
            BY <1>s, <2>3, <2>6, <5>2
          <6> QED
            BY <1>s, <5>1, <6>1
        <5>3. CASE i = M
          BY <1>s, <4>2, <5>1, <5>3
        <5> QED
          BY <2>m, <5>2, <5>3
      <4> QED
        BY <2>m, <4>1, <4>2
    <3>2. ASSUME NEW i \in 2 .. M, q[i - 1].logNum = q[i].logNum
          PROVE  /\ i < M /\ q[i - 1].kind # "ingest" /\ q[i].kind # "ingest"
                 /\ ReadyForFlush(q[i])
      <4>1. i # M
        BY <2>m, <2>2, <2>3, <2>6, <3>2
      <4>2. i \in 2 .. L /\ i \in 1 .. L /\ i - 1 \in 1 .. L
        BY <2>m, <4>1
      <4>3. queue[i - 1].logNum = queue[i].logNum
        BY <2>3, <3>2, <4>2
      <4>4. queue[i - 1].kind # "ingest" /\ queue[i].kind # "ingest" /\ ReadyForFlush(queue[i])
        BY <4>2, <4>3 DEF IInv, OrderInv, L
      <4> QED
        BY <2>m, <2>3, <4>2, <4>4
    <3>3. ASSUME NEW i \in 2 .. M PROVE vs.min <= q[i].logNum
      <4>1. CASE i = M
        <5>1. vs.min < nextFile
          BY <1>1 DEF IInv, Numbers, Up
        <5> QED
          BY <1>s, <2>2, <2>3, <4>1, <5>1
      <4>2. CASE i # M
        <5>1. i \in 2 .. L /\ i \in 1 .. L
          BY <2>m, <4>2
        <5> QED
          BY <1>1, <2>3, <5>1 DEF IInv, OrderInv, Up, L
      <4> QED
        BY <4>1, <4>2
    <3> QED
      BY <1>1, <2>3, <2>4, <3>1, <3>2, <3>3 DEF OrderInv, q, ReadyForFlush
  <2>11. RefsInv'
    <3>1. log > 0
      BY <1>4, <1>s
    <3>2. \A i \in 1 .. L : ReadyForFlush(queue[i])
      BY <1>1, <1>s, <3>1 DEF IInv, ReplayInv
    <3>3. \A i \in 1 .. L : q[i].kind = "mem" => q[i].refs = 0
      BY <2>3, <3>2 DEF ReadyForFlush
    <3>4. q[M].kind = "mem" /\ q[M].logSeqNum <= seq + 1 /\ q[M].refs = 1
      BY <1>s, <2>2, <2>3
    <3>5. 0 = 0 + 0 /\ 1 = 0 + 1
      OBVIOUS
    <3>6. ASSUME NEW i \in 1 .. M, q[i].kind = "mem"
          PROVE  q[i].refs = Cardinality(OfLog(inflight, q[i].logNum))
                               + (IF i = M THEN 1 ELSE 0)
      <4>1. CASE i \in 1 .. L
        <5>1. q[i].refs = 0 /\ i # M
          BY <3>3, <3>6, <4>1, <2>m
        <5> QED
          BY <1>o, <3>5, <5>1
      <4>2. CASE i = M
        BY <1>o, <3>4, <3>5, <4>2
      <4> QED
        BY <2>m, <4>1, <4>2
    <3> QED
      BY <1>1, <2>3, <2>4, <3>4, <3>6 DEF RefsInv, Mutable, q, OfLog
  <2> QED
    BY <1>2, <2>7, <2>8, <2>9, <2>10, <2>11 DEF IInv
<1> QED
  BY <1>3, <1>4

\* Open returns: the memtable has the new log, files that are not used are
\* deleted, and the store is open.
LEMMA OpenReturnsInd ==
  ASSUME IInv, OpenReturns
  PROVE  IInv'
<1> DEFINE L == Len(queue)
           x == [queue[L] EXCEPT !.logNum = call.new]
           q == queue'
           orphans == Sorted(DOMAIN tables \ (vs.tables \cup {e.file : e \in Range(queue)}))
<1>1. /\ call.pc = "open" /\ gone' = <<>> /\ log' = call.new /\ call.kind = "open"
      /\ phase' = "open" /\ q = [queue EXCEPT ![L].logNum = call.new]
      /\ flush' = MaybeScheduleFlush(queue)
      /\ DeleteObsoleteFiles(Opened, vs.min, orphans) /\ call' = Idle
      /\ UNCHANGED <<logs, tables, manifest, nextSize, inflight, nextFile, seq, vs>>
  BY DEF OpenReturns, OpenLog
<1> HIDE DEF orphans
<1>s. /\ TypeOK /\ L \in Nat /\ DOMAIN queue = 1 .. L /\ queue \in Seq(QEntry)
      /\ log \in Nat /\ seq \in Nat /\ nextSize \in Nat /\ nextFile \in Nat /\ vs.min \in Nat
      /\ call.new \in Nat
      /\ \A i \in 1 .. L : queue[i] \in QEntry /\ queue[i].logNum \in Nat
  BY Fields DEF IInv, TypeOK, MemType
<1>d. phase = "replayed" /\ inflight = {} /\ flush.pc = "idle" /\ flush.n = 0 /\ L >= 1
  BY <1>1 DEF IInv, PhaseInv, Up
<1>l. L \in 1 .. L /\ \A i \in 2 .. L : i \in 1 .. L /\ i - 1 \in 1 .. L /\ i - 1 # L
  BY <1>s, <1>d
<1>o. \A l : OfLog(inflight, l) = {} /\ Cardinality(OfLog(inflight, l)) = 0
  <2>1. \A l : OfLog(inflight, l) = {}
    BY <1>d DEF OfLog
  <2> QED
    BY <2>1, FS_EmptySet
<1>f. flush' \in FlushType /\ flush'.n = 0 /\ flush'.pc \in {"idle", "begin"}
  BY <1>1, <1>d, MaybeFacts, ScheduledFacts
<1>n. /\ call.new < nextFile /\ vs.min < call.new
      /\ \A i \in 1 .. L : queue[i].logNum < call.new
  BY <1>1, <1>s DEF IInv, Numbers, NewLog
<1>2. /\ x \in QEntry /\ x.kind = queue[L].kind /\ x.logNum = call.new
      /\ x.logSeqNum = queue[L].logSeqNum /\ x.refs = queue[L].refs
  <2>1. PICK e \in QEntry, c \in Nat : e = queue[L] /\ c = call.new
    BY <1>s, <1>l
  <2>2. x = [e EXCEPT !.logNum = c]
    BY <2>1
  <2> HIDE DEF x
  <2>3. /\ x \in QEntry /\ x.kind = e.kind /\ x.logNum = c
        /\ x.logSeqNum = e.logSeqNum /\ x.refs = e.refs
    BY <2>2 DEF QEntry
  <2> QED
    BY <2>1, <2>3
<1>q. /\ q \in Seq(QEntry) /\ Len(q) = L /\ DOMAIN q = 1 .. L /\ q[L] = x
      /\ \A i \in 1 .. L : i # L => q[i] = queue[i]
  <2>1. q = [queue EXCEPT ![L] = x]
    BY <1>1
  <2> HIDE DEF x, q
  <2>2. Put(q, queue, L, x)
    BY <1>s, <1>l, <1>2, <2>1, PutFacts
  <2> QED
    BY <2>2 DEF Put
<1> HIDE DEF x, q, L
<1>3. wal' \in WalType
  BY <1>1, <1>s, OpenedType, DeleteKept
<1>4. TypeOK'
  <2>1. queue' \in Seq(QEntry)
    BY <1>q DEF q
  <2> QED
    BY <1>1, <1>s, <1>f, <1>3, <2>1, NoneGone
       DEF TypeOK, DiskType, MemType, ProcType, MapType, Idle, CallType
<1>c. call'.pc = "idle" /\ call'.kind = "none"
  BY <1>1 DEF Idle
<1>5. PhaseInv' /\ FlushInv' /\ IngestInv' /\ RecycleInv' /\ ReplayInv' /\ BatchInv'
  <2>1. Len(queue') >= 1
    BY <1>q, <1>d DEF q
  <2> QED
    BY <1>1, <1>c, <1>d, <1>f, <2>1
       DEF PhaseInv, FlushInv, IngestInv, IngestWritten, RecycleInv, ReplayInv, BatchInv
<1>6. LogsInv'
  BY <1>1, NewLogCurrent
<1>7. ASSUME NEW i \in 1 .. L PROVE q[i].logNum <= call.new /\ q[i].logNum \in Nat
  <2>1. CASE i = L
    BY <1>s, <1>2, <1>q, <2>1
  <2>2. CASE i # L
    <3>1. q[i] = queue[i]
      BY <1>q, <2>2
    <3>2. queue[i].logNum \in Nat /\ queue[i].logNum < call.new
      BY <1>s, <1>n
    <3> QED
      BY <1>s, <3>1, <3>2
  <2> QED
    BY <2>1, <2>2
<1>8. Numbers'
  <2>1. \A f \in DOMAIN logs \cup DOMAIN tables : f < nextFile
    BY <1>d DEF IInv, Numbers, Up
  <2>2. \A i \in 1 .. L : q[i].logNum < nextFile
    BY <1>s, <1>n, <1>7
  <2>3. vs.min < nextFile /\ manifest.min < manifest.next
    BY <1>d DEF IInv, Numbers, Up
  <2>4. NewLog'
    BY <1>c DEF NewLog
  <2>5. DOMAIN gone' = {}
    BY <1>1, NoneGone
  <2> QED
    BY <1>1, <1>f, <1>n, <1>q, <2>1, <2>2, <2>3, <2>4, <2>5 DEF Numbers, q
<1>9. OrderInv'
  <2>1. ASSUME NEW i \in 1 .. L, NEW j \in 1 .. L, i <= j PROVE q[i].logNum <= q[j].logNum
    <3>1. CASE j = L
      BY <1>2, <1>7, <1>q, <3>1
    <3>2. CASE j # L
      <4>1. i # L
        BY <1>s, <2>1, <3>2
      <4> QED
        BY <1>s, <1>q, <2>1, <3>2, <4>1 DEF IInv, OrderInv
    <3> QED
      BY <3>1, <3>2
  <2>2. ASSUME NEW i \in 2 .. L, q[i - 1].logNum = q[i].logNum
        PROVE  i < L /\ q[i - 1].kind # "ingest" /\ q[i].kind # "ingest" /\ ReadyForFlush(q[i])
    <3>1. i \in 1 .. L /\ i - 1 \in 1 .. L /\ q[i - 1] = queue[i - 1]
      BY <1>l, <1>q
    <3>2. i # L
      <4>1. queue[i - 1].logNum \in Nat /\ queue[i - 1].logNum < call.new
        BY <1>n, <1>s, <3>1
      <4>2. queue[i - 1].logNum # call.new
        BY <4>1, <1>s
      <4> QED
        BY <1>2, <1>q, <2>2, <3>1, <4>2
    <3>3. q[i] = queue[i]
      BY <1>q, <3>1, <3>2
    <3>4. queue[i - 1].logNum = queue[i].logNum
      BY <2>2, <3>1, <3>3
    <3>5. queue[i - 1].kind # "ingest" /\ queue[i].kind # "ingest" /\ ReadyForFlush(queue[i])
      BY <3>4 DEF IInv, OrderInv, L
    <3>6. i < L
      BY <1>s, <3>2
    <3> QED
      BY <3>1, <3>3, <3>5, <3>6
  <2>3. ASSUME NEW i \in 2 .. L PROVE vs.min <= q[i].logNum
    <3>1. CASE i = L
      BY <1>n, <1>s, <1>2, <1>q, <3>1
    <3>2. CASE i # L
      <4>1. i \in 1 .. L /\ q[i] = queue[i]
        BY <1>l, <1>q, <3>2
      <4> QED
        BY <1>d, <4>1 DEF IInv, OrderInv, Up, L
    <3> QED
      BY <3>1, <3>2
  <2>4. vs.min <= q[L].logNum
    BY <1>n, <1>s, <1>2, <1>q
  <2> QED
    BY <1>1, <1>q, <2>1, <2>2, <2>3, <2>4 DEF OrderInv, q, ReadyForFlush
<1>10. RefsInv'
  <2>1. /\ queue[L].kind = "mem" /\ queue[L].logSeqNum <= seq + 1
        /\ \A i \in 1 .. L : queue[i].kind = "mem" =>
             queue[i].refs = Cardinality(OfLog(inflight, queue[i].logNum))
                               + (IF i = L THEN 1 ELSE 0)
    BY <1>d, <1>s DEF IInv, RefsInv, Mutable, L
  <2>2. ASSUME NEW i \in 1 .. L, q[i].kind = "mem"
        PROVE  q[i].refs = Cardinality(OfLog(inflight, q[i].logNum))
                             + (IF i = L THEN 1 ELSE 0)
    <3>1. q[i].kind = queue[i].kind /\ q[i].refs = queue[i].refs
      BY <1>2, <1>q
    <3> QED
      BY <1>o, <2>1, <2>2, <3>1
  <2>3. q[L].kind = "mem" /\ q[L].logSeqNum <= seq + 1
    BY <1>2, <1>q, <2>1
  <2> QED
    BY <1>1, <1>q, <2>2, <2>3 DEF RefsInv, Mutable, q, OfLog
<1> QED
  BY <1>4, <1>5, <1>6, <1>8, <1>9, <1>10 DEF IInv

(***************************************************************************)
(* The theorems.                                                           *)
(***************************************************************************)
\* The store starts with one empty log and its memtable.
LEMMA InitInd ==
  ASSUME Init
  PROVE  IInv
<1> DEFINE x == NewMemTable(1, 1, InitialSize)
<1>1. /\ logs = <<EmptyLog>> /\ gone = <<>> /\ tables = <<>>
      /\ manifest = [min |-> 1, tables |-> {}, next |-> 2, last |-> 0]
      /\ phase = "open" /\ log = 1 /\ nextFile = 2 /\ seq = 0
      /\ queue = <<x>> /\ nextSize = Doubled(InitialSize)
      /\ vs = [min |-> 1, tables |-> {}] /\ call = Idle /\ inflight = {}
      /\ flush = [pc |-> "idle", n |-> 0, min |-> 0, file |-> 0]
      /\ wal = [queue |-> <<1>>, recycler |-> <<>>, maxLog |-> 0,
                minRecycle |-> 0, initial |-> {}, delete |-> <<>>]
      /\ jobs = <<>>
  BY DEF Init
<1>s. InitialSize \in Nat
  BY SizesAssumption
<1>2. x \in QEntry /\ x.kind = "mem" /\ x.logNum = 1 /\ x.refs = 1 /\ x.logSeqNum = 1
  <2>1. PICK l \in Nat, z \in Nat : l = 1 /\ z = InitialSize
    BY <1>s
  <2>2. x = NewMemTable(l, l, z)
    BY <2>1
  <2> HIDE DEF x
  <2>3. /\ NewMemTable(l, l, z) \in QEntry /\ NewMemTable(l, l, z).kind = "mem"
        /\ NewMemTable(l, l, z).logNum = l /\ NewMemTable(l, l, z).refs = 1
        /\ NewMemTable(l, l, z).logSeqNum = l
    BY NewMemTableFacts
  <2> QED
    BY <2>1, <2>2, <2>3
<1> HIDE DEF x
<1>q. queue \in Seq(QEntry) /\ Len(queue) = 1 /\ DOMAIN queue = {1} /\ queue[1] = x
  BY <1>1, <1>2
<1>g. /\ DOMAIN logs = {1} /\ logs[1] = EmptyLog
      /\ DOMAIN gone = {} /\ DOMAIN tables = {}
  BY <1>1
<1>c. call.pc = "idle" /\ call.kind = "none" /\ call \in CallType
  BY <1>1 DEF Idle, CallType
<1>3. TypeOK
  <2>1. {1} \in FinSets /\ {} \in FinSets
    BY FinParts
  <2>2. EmptyLog \in LogFile
    BY EmptyLogType
  <2>3. logs \in [DOMAIN logs -> LogFile] /\ DOMAIN logs \in FinSets
    BY <1>1, <1>g, <2>1, <2>2
  <2>4. /\ gone \in [DOMAIN gone -> LogFile] /\ tables \in [DOMAIN tables -> FinSets]
        /\ DOMAIN gone \in FinSets /\ DOMAIN tables \in FinSets
    BY <1>1, <1>g, <2>1
  <2>5. wal \in WalType
    BY <1>1, <2>1 DEF WalType
  <2>6. IsFiniteSet(inflight) /\ inflight \in SUBSET [seq : Nat, log : Nat]
    BY <1>1, FS_EmptySet
  <2>7. nextSize \in Nat
    BY <1>1, <1>s, DoubledNat
  <2>8. manifest \in [min : Nat, tables : SUBSET Nat, next : Nat, last : Nat]
    BY <1>1
  <2>9. vs \in VersionType /\ flush \in FlushType /\ nextFile \in Nat /\ seq \in Nat /\ log \in Nat
    BY <1>1 DEF VersionType, FlushType
  <2> QED
    BY <1>1, <1>c, <1>q, <2>3, <2>4, <2>5, <2>6, <2>7, <2>8, <2>9
       DEF TypeOK, DiskType, MemType, ProcType
<1>4. PhaseInv
  BY <1>1, <1>c, <1>q DEF PhaseInv
<1>5. Numbers
  BY <1>1, <1>c, <1>g, <1>q, <1>2 DEF Numbers, NewLog
<1>6. LogsInv
  BY <1>1, <1>c, <1>g, EmptyLogType DEF LogsInv, AloneInLog
<1>7. OrderInv
  BY <1>1, <1>q, <1>2 DEF OrderInv
<1>8. ReplayInv /\ IngestInv /\ FlushInv /\ BatchInv /\ RecycleInv
  BY <1>1, <1>c DEF ReplayInv, IngestInv, IngestWritten, FlushInv, BatchInv, RecycleInv
<1>9. RefsInv
  <2>1. \A l : OfLog(inflight, l) = {}
    BY <1>1 DEF OfLog
  <2>2. \A l : Cardinality(OfLog(inflight, l)) = 0
    BY <2>1, FS_EmptySet
  <2> QED
    BY <1>1, <1>2, <1>q, <2>2 DEF RefsInv, Mutable
<1> QED
  BY <1>3, <1>4, <1>5, <1>6, <1>7, <1>8, <1>9 DEF IInv

\* Nothing changes.
LEMMA StutterInd ==
  ASSUME IInv, UNCHANGED vars
  PROVE  IInv'
<1>1. UNCHANGED <<logs, gone, tables, manifest, queue, nextSize, inflight, phase, nextFile,
                  seq, vs, log, call, flush, wal, jobs>>
  BY DEF vars, disk, mem
<1>2. TypeOK'
  BY <1>1 DEF IInv, TypeOK, DiskType, MemType, ProcType
<1>3. PhaseInv' /\ Numbers' /\ LogsInv' /\ IngestInv' /\ RecycleInv'
  BY <1>1 DEF IInv, PhaseInv, Numbers, NewLog, LogsInv, IngestInv, IngestWritten,
              RecycleInv, Up
<1>4. OrderInv' /\ ReplayInv' /\ RefsInv' /\ BatchInv'
  <2>1. seq \in Nat /\ seq <= seq
    BY Fields DEF IInv
  <2> QED
    BY <1>1, <2>1, QueueKept
<1>5. FlushInv'
  BY <1>1, FlushKept
<1> QED
  BY <1>2, <1>3, <1>4, <1>5 DEF IInv

\* Every step of the store, its background work, a crash and Open keeps the
\* invariant.
LEMMA NextInd ==
  ASSUME IInv, [Next]_vars
  PROVE  IInv'
<1>1. CASE Call
  BY <1>1, CommitFitsInd, CommitFullInd, CommitLargeInd, AsyncFlushInd,
     IngestAsFlushableInd DEF Call
<1>2. CASE Rotation
  BY <1>2, InduceWriteStallInd, CloseLogInd, CreateLogInd, RotateForBatchInd,
     RotateForLargeInd, RotateForFlushInd, WriteIngestInd, RotateForIngestInd DEF Rotation
<1>3. CASE Apply \/ SyncLog \/ DeleteFile \/ Crash
  BY <1>3, ApplyInd, SyncLogInd, DeleteFileInd, CrashInd
<1>4. CASE Flush
  BY <1>4, FlushBeginInd, FlushRunInd, FlushFailsInd, LogAndApplyInd, FlushInstallInd,
     FlushEndInd DEF Flush
<1>5. CASE Open
  BY <1>5, LoadInd, ReplayWALInd, EndReplayInd, OpenCreateLogInd, OpenReturnsInd DEF Open
<1>6. CASE UNCHANGED vars
  BY <1>6, StutterInd
<1> QED
  BY <1>1, <1>2, <1>3, <1>4, <1>5, <1>6 DEF Next

(* The invariant holds of every behaviour: the types; the queue in the order
   of its logs; a writer reference for each batch in flight; a log being made
   that is newer than all others. *)
THEOREM InvariantHolds == Spec => []IInv
<1>1. Init => IInv
  BY InitInd
<1>2. IInv /\ [Next]_vars => IInv'
  BY NextInd
<1> QED
  BY <1>1, <1>2, PTL DEF Spec

(* No file is ever created under the number of one that exists, whatever was
   created, removed or brought back by crashes before: Open raises the next
   number above all it finds (markFileNumUsed), and every number given out
   moves it on. *)
THEOREM NumbersNeverReused == Spec => []NumbersFresh
<1>1. IInv => NumbersFresh
  BY DEF IInv, Numbers, Up, NumbersFresh, UsedNumbers
<1> QED
  BY <1>1, InvariantHolds, PTL

\* A flush that is running has not taken a memtable a batch is still to be
\* applied to.
LEMMA LandsOutsideFlush ==
  ASSUME IInv
  PROVE  AppliesLand
<1> SUFFICES ASSUME NEW b \in inflight
             PROVE  \E i \in flush.n + 1 .. Len(queue) :
                      queue[i].kind = "mem" /\ queue[i].logNum = b.log
  BY DEF AppliesLand
<1>1. phase = "open"
  BY DEF IInv, PhaseInv
<1>2. PICK i \in DOMAIN queue : queue[i].kind = "mem" /\ queue[i].logNum = b.log
  BY DEF IInv, BatchInv
<1>3. ~ReadyForFlush(queue[i])
  BY <1>1, <1>2, BatchRefs
<1>4. PICK L \in Nat, n \in Nat : L = Len(queue) /\ n = flush.n /\ i \in 1 .. L
  BY <1>2, Fields DEF IInv
<1>5. i \notin 1 .. n
  <2>1. CASE flush.pc \in {"run", "log", "install"}
    BY <1>3, <1>4, <2>1 DEF IInv, FlushInv
  <2>2. CASE flush.pc \notin {"run", "log", "install"}
    <3>1. n = 0
      BY <1>4, <2>2 DEF IInv, PhaseInv
    <3> QED
      BY <3>1
  <2> QED
    BY <2>1, <2>2
<1>6. i \in n + 1 .. L
  BY <1>4, <1>5
<1> QED
  BY <1>2, <1>4, <1>6

(* A batch that was written to the log and is still to be applied finds its
   memtable in the queue and outside the flush that is running: the reference
   prepare took keeps readyForFlush false until apply has given it back. *)
THEOREM BatchesLand == Spec => []AppliesLand
BY LandsOutsideFlush, InvariantHolds, PTL

\* The assertions on the way of a write.
LEMMA NoPanicHolds ==
  ASSUME IInv
  PROVE  NoPanic
<1>1. ASSUME flush.pc = "begin"
      PROVE  LET n == FlushCount(queue) IN
             \A i \in 1 .. n : queue[i].logNum < queue[n + 1].logNum
  <2>1. phase \in {"open", "replayed"}
    BY <1>1 DEF IInv, PhaseInv
  <2> QED
    BY <2>1, FlushStops
<1>2. ASSUME flush.pc = "log"
      PROVE  flush.min >= vs.min /\ flush.min < nextFile
  <2>1. PICK L \in Nat, n \in Nat : L = Len(queue) /\ n = flush.n /\ DOMAIN queue = 1 .. L
    BY Fields DEF IInv
  <2>2. n \in 1 .. L - 1 /\ flush.min = queue[n + 1].logNum
    BY <1>2, <2>1 DEF IInv, FlushInv
  <2>3. n + 1 \in 2 .. L /\ n + 1 \in 1 .. L
    BY <2>2
  <2>4. Up
    BY <1>2 DEF IInv, PhaseInv, Up
  <2>5. queue[n + 1].logNum < nextFile
    BY <2>1, <2>3, <2>4 DEF IInv, Numbers
  <2>6. vs.min <= queue[n + 1].logNum
    BY <2>1, <2>3, <2>4 DEF IInv, OrderInv
  <2>7. vs.min \in Nat /\ flush.min \in Nat
    BY Fields DEF IInv
  <2> QED
    BY <2>2, <2>5, <2>6, <2>7
<1>3. ASSUME call.pc = "open", call.reuse # 0
      PROVE  wal.recycler # <<>> /\ Head(wal.recycler) = call.reuse
  <2>1. wal.recycler # <<>> /\ wal.recycler[1] = call.reuse
    BY <1>3 DEF IInv, RecycleInv
  <2>2. PICK r \in Seq(Nat) : r = wal.recycler
    BY DEF IInv, TypeOK, WalType
  <2> QED
    BY <2>1, <2>2
<1>4. ASSUME NEW b \in inflight, NEW i \in DOMAIN queue,
             queue[i].kind = "mem", queue[i].logNum = b.log
      PROVE  queue[i].logSeqNum <= b.seq
  BY <1>4 DEF IInv, BatchInv
<1> QED
  BY <1>1, <1>2, <1>3, <1>4 DEF NoPanic

(* None of the assertions on the way of a write fires, for any sizes, limits
   and numbers of calls, failures and crashes: flush1's on the logs it
   flushes, logAndApply's on the minimum, Pop's on the head of the recycler
   and memTable.apply's on the sequence number. *)
THEOREM WritePathNeverPanics == Spec => []NoPanic
BY NoPanicHolds, InvariantHolds, PTL

(***************************************************************************)
(* The inductive invariant, on top of IInv.                                *)
(***************************************************************************)
\* No ingest is in the queue, in a log or on its way.
IngestFree ==
  /\ call.kind \notin {"ingest", "ingested"}
  /\ \A i \in DOMAIN queue : queue[i].kind # "ingest"
  /\ \A l \in DOMAIN logs : NoIngest(logs[l].recs)
  /\ \A l \in DOMAIN gone : NoIngest(gone[l].recs)

\* The manifest is what the process knows, or one flush ahead of it, and its
\* tables are there.
ManifestInv ==
  /\ manifest.min >= 1 /\ manifest.tables \subseteq DOMAIN tables
  /\ Up => /\ manifest.min = IF flush.pc = "install" THEN flush.min ELSE vs.min
           /\ manifest.tables = IF flush.pc = "install" THEN Flushed ELSE vs.tables

\* What is to be deleted is not needed: a log is older than the manifest's
\* minimum, a table is in no version and not the one a flush is writing.
Job == {"log", "table"} \X Nat

Spared(t) ==
  /\ t \notin manifest.tables /\ t < nextFile
  /\ flush.pc \in {"run", "log", "install"} => t # flush.file

JobsInv ==
  /\ jobs \in Seq(Job)
  /\ \A i \in DOMAIN jobs :
       IF jobs[i][1] = "log" THEN jobs[i][2] < manifest.min ELSE Spared(jobs[i][2])
  /\ \A i \in DOMAIN wal.recycler : wal.recycler[i] < manifest.min
  /\ \A l \in DOMAIN gone : l < manifest.min

\* A log that needs no replay once what Open replayed is flushed.
Old(l) == IF Len(queue) > 1 THEN l < queue[Len(queue)].logNum ELSE l < vs.min

\* Open flushes all it has replayed, in one flush, before it makes a log.
RecoveryInv ==
  /\ phase = "replaying" =>
       wal.initial \subseteq DOMAIN logs /\ (log > 0 => queue[1].forced)
  /\ phase = "replayed" =>
       /\ \A l \in wal.initial : Old(l)
       /\ \A l \in DOMAIN logs : Old(l) \/ (call.pc = "open" /\ l = call.new)
       /\ Len(queue) > 1 => queue[1].forced /\ flush.pc # "idle"
       /\ flush.pc \in {"run", "log", "install"} => flush.n = Len(queue) - 1
  /\ phase = "open" => wal.initial = {}

\* Of the logs to be replayed only the newest may lack its end.
Unclosed(l) == l >= manifest.min /\ ~logs[l].closed

ClosedInv ==
  /\ \A l \in DOMAIN logs : Unclosed(l) => \A k \in DOMAIN logs : k <= l
  /\ phase = "open" =>
       /\ \A l \in DOMAIN logs : l <= log \/ (call.pc = "open" /\ l = call.new)
       /\ \A l \in DOMAIN logs : Unclosed(l) =>
            IF call.pc \in {"create", "open"} THEN call.pc = "open" /\ l = call.new
            ELSE l = log

SInv ==
  /\ phase # "failed" /\ IngestFree /\ ManifestInv /\ JobsInv /\ RecoveryInv /\ ClosedInv

(***************************************************************************)
(* The steps of a call while the store is open.                            *)
(***************************************************************************)
\* The logs with their ends still there, and without an ingest.
Quiet(lg) ==
  /\ DOMAIN lg = DOMAIN logs
  /\ \A x \in DOMAIN logs : (logs[x].closed => lg[x].closed) /\ NoIngest(lg[x].recs)

\* The logs stay quiet when one gets a record that is no ingest.
LEMMA AppendQuiet ==
  ASSUME IInv, SInv, NEW l, NEW k \in {"small", "large"}, NEW s \in Nat, NEW lg,
         lg = Appended(l, k, s, 0)
  PROVE  Quiet(lg)
<1>1. TypeOK /\ 0 \in Nat /\ k \in {"small", "large", "ingest"}
  BY DEF IInv
<1>2. AfterAppend(lg, l, k)
  BY <1>1, AppendedFacts
<1>3. \A x \in DOMAIN logs : NoIngest(logs[x].recs)
  BY DEF SInv, IngestFree
<1>4. ASSUME NEW x \in DOMAIN logs PROVE NoIngest(lg[x].recs)
  BY <1>2, <1>3 DEF AfterAppend
<1>5. ASSUME NEW x \in DOMAIN logs PROVE lg[x].closed = logs[x].closed
  <2>1. CASE x # l
    BY <1>2, <2>1 DEF AfterAppend
  <2>2. CASE x = l
    <3>1. PICK e \in LogFile : e = logs[x]
      BY <1>1 DEF TypeOK, DiskType
    <3> DEFINE r == Append(e.recs, [kind |-> k, seq |-> s, file |-> 0])
    <3>2. lg[x] = [e EXCEPT !.recs = r]
      BY <2>2, <3>1 DEF Appended
    <3> HIDE DEF r
    <3>3. lg[x].closed = e.closed
      BY <3>2 DEF LogFile
    <3> QED
      BY <3>1, <3>3
  <2> QED
    BY <2>1, <2>2
<1> QED
  BY <1>2, <1>4, <1>5 DEF AfterAppend, Quiet

\* So do they when one is synced, and perhaps closed.
LEMMA SyncQuiet ==
  ASSUME IInv, SInv, NEW l, NEW lg,
         lg = Synced(l) \/ lg = [Synced(l) EXCEPT ![l].closed = TRUE]
  PROVE  /\ Quiet(lg)
         /\ lg = [Synced(l) EXCEPT ![l].closed = TRUE] /\ l \in DOMAIN logs => lg[l].closed
<1>1. TypeOK
  BY DEF IInv
<1>2. /\ DOMAIN lg = DOMAIN logs /\ \A x \in DOMAIN logs : lg[x].recs = logs[x].recs
  BY <1>1, SyncedFacts
<1>3. \A x \in DOMAIN logs : NoIngest(logs[x].recs)
  BY DEF SInv, IngestFree
<1>4. \A x \in DOMAIN logs : Synced(l)[x].closed = logs[x].closed
  <2> SUFFICES ASSUME NEW x \in DOMAIN logs PROVE Synced(l)[x].closed = logs[x].closed
    OBVIOUS
  <2>1. PICK e \in LogFile : e = logs[x]
    BY <1>1 DEF TypeOK, DiskType
  <2>2. Synced(l)[x] = IF x = l THEN [e EXCEPT !.synced = Len(logs[l].recs)] ELSE e
    BY <2>1 DEF Synced
  <2>3. Synced(l)[x].closed = e.closed
    BY <2>2 DEF LogFile
  <2> QED
    BY <2>1, <2>3
<1>5. ASSUME lg = Synced(l) PROVE Quiet(lg)
  BY <1>2, <1>3, <1>4, <1>5 DEF Quiet
<1>6. ASSUME lg = [Synced(l) EXCEPT ![l].closed = TRUE]
      PROVE  Quiet(lg) /\ (l \in DOMAIN logs => lg[l].closed)
  <2> DEFINE sy == Synced(l)
  <2>1. DOMAIN sy = DOMAIN logs
    BY DEF Synced
  <2>2. \A x \in DOMAIN logs : x # l => lg[x] = sy[x]
    BY <1>6, <2>1
  <2>3. ASSUME l \in DOMAIN logs PROVE lg[l].closed
    <3>1. lg[l] = [sy[l] EXCEPT !.closed = TRUE]
      BY <1>6, <2>1, <2>3
    <3>2. sy[l] \in LogFile
      <4>1. sy \in [DOMAIN sy -> LogFile]
        BY <1>1, SyncedFacts
      <4> QED
        BY <2>1, <2>3, <4>1
    <3> HIDE DEF sy
    <3>3. lg[l].closed = TRUE
      BY <3>1, <3>2 DEF LogFile
    <3> QED
      BY <3>3
  <2> QED
    BY <1>2, <1>3, <1>4, <2>2, <2>3 DEF Quiet
<1> QED
  BY <1>5, <1>6

\* Opening the new log takes one at most from the recycler.
LEMMA OpenedRecycler ==
  ASSUME IInv, SInv, call.pc = "open"
  PROVE  /\ Opened.initial = wal.initial
         /\ \A i \in DOMAIN Opened.recycler : Opened.recycler[i] < manifest.min
<1>1. wal \in WalType
  BY DEF IInv, TypeOK
<1>2. PICK s \in Seq(Nat) : s = wal.recycler
  BY <1>1 DEF WalType
<1>3. /\ Opened.recycler = IF call.reuse = 0 THEN s ELSE Tail(s)
      /\ Opened.initial = wal.initial
  BY <1>1, <1>2 DEF Opened, WalType
<1>4. call.reuse # 0 => s # <<>>
  BY <1>2 DEF IInv, RecycleInv
<1>5. \A i \in DOMAIN s : s[i] < manifest.min
  BY <1>2 DEF SInv, JobsInv
<1>6. s # <<>> => \A i \in DOMAIN Tail(s) : i + 1 \in DOMAIN s /\ Tail(s)[i] = s[i + 1]
  OBVIOUS
<1> QED
  BY <1>3, <1>4, <1>5, <1>6

\* What the steps of a call leave as it is.
LEMMA OpenKept ==
  ASSUME IInv, SInv, phase = "open", phase' = "open", Scheduled(flush'),
         nextFile' \in Nat, nextFile <= nextFile',
         UNCHANGED <<manifest, vs, tables, jobs>>,
         wal' = wal \/ (call.pc = "open" /\ wal' = Opened),
         gone' = gone \/ gone' = <<>>
  PROVE  phase' # "failed" /\ ManifestInv' /\ JobsInv' /\ RecoveryInv'
<1>1. /\ flush' \in FlushType /\ flush'.n = flush.n /\ flush'.min = flush.min
      /\ flush'.file = flush.file
      /\ flush'.pc = flush.pc \/ (flush.pc = "idle" /\ flush'.pc = "begin")
  BY ScheduledFacts
<1>2. TypeOK /\ nextFile \in Nat /\ wal \in WalType
  BY Fields DEF IInv, TypeOK
<1>3. ManifestInv'
  BY <1>1 DEF SInv, ManifestInv, Up, Flushed
<1>4. /\ wal'.initial = wal.initial
      /\ \A i \in DOMAIN wal'.recycler : wal'.recycler[i] < manifest.min
  <2>1. CASE wal' = wal
    BY <2>1 DEF SInv, JobsInv
  <2>2. CASE call.pc = "open" /\ wal' = Opened
    BY <2>2, OpenedRecycler
  <2> QED
    BY <2>1, <2>2
<1>5. RecoveryInv'
  BY <1>4 DEF SInv, RecoveryInv
<1>6. JobsInv'
  <2>1. DOMAIN gone' \subseteq DOMAIN gone
    BY NoneGone
  <2>2. ASSUME NEW t \in Nat, Spared(t) PROVE Spared(t)'
    BY <1>1, <1>2, <2>2 DEF Spared
  <2>3. \A i \in DOMAIN jobs : jobs[i][2] \in Nat
    BY DEF SInv, JobsInv, Job
  <2>4. \A i \in DOMAIN jobs :
          IF jobs[i][1] = "log" THEN jobs[i][2] < manifest.min ELSE Spared(jobs[i][2])'
    BY <2>2, <2>3 DEF SInv, JobsInv
  <2> QED
    BY <1>4, <2>1, <2>4 DEF SInv, JobsInv
<1> QED
  BY <1>3, <1>5, <1>6

\* The ends of the logs, when nothing is rotated.
LEMMA ClosedKept ==
  ASSUME IInv, SInv, Quiet(logs'), phase' = phase, log' = log,
         manifest'.min \in Nat, manifest.min <= manifest'.min,
         \/ call' = call
         \/ call.pc \notin {"create", "open"} /\ call'.pc \notin {"create", "open"}
  PROVE  ClosedInv' /\ \A l \in DOMAIN logs' : NoIngest(logs'[l].recs)
<1>1. TypeOK /\ manifest.min \in Nat /\ DOMAIN logs \subseteq Nat
  BY Fields, UsedNat DEF IInv
<1>2. DOMAIN logs' = DOMAIN logs
  BY DEF Quiet
<1>3. \A l \in DOMAIN logs : Unclosed(l)' => Unclosed(l)
  BY <1>1 DEF Unclosed, Quiet
<1>4. \A l \in DOMAIN logs' : NoIngest(logs'[l].recs)
  BY <1>2 DEF Quiet
<1>5. ClosedInv'
  BY <1>2, <1>3 DEF SInv, ClosedInv
<1> QED
  BY <1>4, <1>5

\* A step that rotates nothing.
LEMMA CallKept ==
  ASSUME IInv, SInv, phase = "open", phase' = "open", Scheduled(flush'), Quiet(logs'),
         UNCHANGED <<manifest, vs, tables, jobs, wal, gone, log, nextFile>>,
         call'.kind \notin {"ingest", "ingested"},
         \A i \in DOMAIN queue' : queue'[i].kind # "ingest",
         \/ call' = call
         \/ call.pc \notin {"create", "open"} /\ call'.pc \notin {"create", "open"}
  PROVE  SInv'
<1>1. nextFile \in Nat /\ manifest.min \in Nat
  BY Fields DEF IInv
<1>2. phase' # "failed" /\ ManifestInv' /\ JobsInv' /\ RecoveryInv'
  <2>1. nextFile <= nextFile
    BY <1>1
  <2> QED
    BY <1>1, <2>1, OpenKept
<1>3. ClosedInv' /\ \A l \in DOMAIN logs' : NoIngest(logs'[l].recs)
  <2>1. manifest.min <= manifest.min
    BY <1>1
  <2> QED
    BY <1>1, <2>1, ClosedKept
<1>4. IngestFree'
  BY <1>3 DEF SInv, IngestFree, NoIngest
<1> QED
  BY <1>2, <1>3, <1>4 DEF SInv

\* The logs as they are.
LEMMA SameQuiet ==
  ASSUME IInv, SInv, logs' = logs
  PROVE  Quiet(logs')
BY DEF SInv, IngestFree, Quiet

\* What a call that begins changes of the call.
LEMMA CallFields ==
  /\ Idle.pc = "idle" /\ Idle.kind = "none" /\ Idle.new = 0 /\ Idle.reuse = 0
  /\ \A k, p : /\ [Idle EXCEPT !.pc = p, !.kind = k].pc = p
               /\ [Idle EXCEPT !.pc = p, !.kind = k].kind = k
BY DEF Idle

\* The small batch that fits.
LEMMA CommitFitsSafe ==
  ASSUME IInv, SInv, CommitFits
  PROVE  SInv'
<1>1. /\ phase = "open" /\ logs' = Appended(log, "small", seq + 1, 0)
      /\ queue' = [queue EXCEPT ![Len(queue)].refs = @ + 1]
      /\ UNCHANGED <<manifest, vs, tables, jobs, wal, gone, log, nextFile, phase, flush, call>>
  BY DEF CommitFits, Begin
<1>2. Quiet(logs')
  <2>1. seq \in Nat
    BY Fields DEF IInv
  <2>2. seq + 1 \in Nat
    BY <2>1
  <2> QED
    BY <1>1, <2>2, AppendQuiet
<1>3. \A i \in DOMAIN queue' : queue'[i].kind # "ingest"
  <2> SUFFICES ASSUME NEW i \in DOMAIN queue' PROVE queue'[i].kind # "ingest"
    OBVIOUS
  <2>1. i \in DOMAIN queue
    BY <1>1
  <2>2. PICK e \in QEntry : e = queue[i]
    BY <2>1, Fields DEF IInv
  <2>3. queue'[i] = e \/ \E r : queue'[i] = [e EXCEPT !.refs = r]
    BY <1>1, <2>1, <2>2
  <2>4. queue'[i].kind = e.kind
    BY <2>2, <2>3 DEF QEntry
  <2> QED
    BY <2>1, <2>2, <2>4 DEF SInv, IngestFree
<1>4. Scheduled(flush') /\ call'.kind \notin {"ingest", "ingested"}
  BY <1>1 DEF Scheduled, SInv, IngestFree
<1> QED
  BY <1>1, <1>2, <1>3, <1>4, CallKept

\* A call that only begins, or goes on from the stall.
LEMMA CallOnly ==
  ASSUME IInv, SInv, phase = "open", Quiet(logs'),
         UNCHANGED <<manifest, vs, tables, jobs, wal, gone, log, nextFile, phase, flush, queue>>,
         call'.kind \notin {"ingest", "ingested"},
         \/ call' = call
         \/ call.pc \notin {"create", "open"} /\ call'.pc \notin {"create", "open"}
  PROVE  SInv'
<1>1. Scheduled(flush') /\ phase' = "open"
  BY DEF Scheduled
<1>2. \A i \in DOMAIN queue' : queue'[i].kind # "ingest"
  BY DEF SInv, IngestFree
<1> QED
  BY <1>1, <1>2, CallKept

\* The calls that rotate begin.
LEMMA BeginsSafe ==
  ASSUME IInv, SInv, CommitFull \/ CommitLarge \/ AsyncFlush
  PROVE  SInv'
<1>1. /\ phase = "open" /\ call.pc = "idle"
      /\ UNCHANGED <<manifest, vs, tables, jobs, wal, gone, log, nextFile, phase, flush, queue>>
      /\ \E k \in {"small", "large", "flush"} : call' = [Idle EXCEPT !.pc = "stall", !.kind = k]
      /\ logs' = logs \/ logs' = Appended(log, "large", seq + 1, 0)
  BY DEF CommitFull, CommitLarge, AsyncFlush, Begin, disk, mem
<1>2. Quiet(logs')
  <2>1. seq \in Nat
    BY Fields DEF IInv
  <2>2. seq + 1 \in Nat
    BY <2>1
  <2>3. CASE logs' = logs
    BY <2>3, SameQuiet
  <2>4. CASE logs' = Appended(log, "large", seq + 1, 0)
    BY <2>2, <2>4, AppendQuiet
  <2> QED
    BY <1>1, <2>3, <2>4
<1>3. call'.kind \in {"small", "large", "flush"} /\ call'.pc = "stall"
  BY <1>1, CallFields
<1> QED
  BY <1>1, <1>2, <1>3, CallOnly

\* The stall ends, or the writer waits.
LEMMA InduceWriteStallSafe ==
  ASSUME IInv, SInv, InduceWriteStall
  PROVE  SInv'
<1>1. /\ call.pc = "stall"
      /\ call' = [call EXCEPT !.pc = IF Stalled THEN "wait" ELSE "close"]
      /\ UNCHANGED <<manifest, vs, tables, jobs, wal, gone, log, nextFile, phase, flush, queue, logs>>
  BY DEF InduceWriteStall, disk, mem
<1>2. phase = "open"
  BY <1>1 DEF IInv, PhaseInv
<1>3. call'.kind = call.kind /\ call'.pc \in {"wait", "close"}
  <2>1. call \in CallType
    BY DEF IInv, TypeOK, ProcType
  <2> QED
    BY <1>1, <2>1 DEF CallType
<1>4. call.kind \notin {"ingest", "ingested"}
  BY DEF SInv, IngestFree
<1>5. Quiet(logs')
  BY <1>1, SameQuiet
<1> QED
  BY <1>1, <1>2, <1>3, <1>4, <1>5, CallOnly

\* The log is synced.
LEMMA SyncLogSafe ==
  ASSUME IInv, SInv, SyncLog
  PROVE  SInv'
<1>1. /\ phase = "open" /\ logs' = Synced(log)
      /\ UNCHANGED <<manifest, vs, tables, jobs, wal, gone, log, nextFile, phase, flush, queue, call>>
  BY DEF SyncLog, mem
<1>2. Quiet(logs')
  BY <1>1, SyncQuiet
<1>3. call.kind \notin {"ingest", "ingested"}
  BY DEF SInv, IngestFree
<1> QED
  BY <1>1, <1>2, <1>3, CallOnly

\* A batch is applied.
LEMMA ApplySafe ==
  ASSUME IInv, SInv, Apply
  PROVE  SInv'
<1>1. PICK b \in inflight, i \in DOMAIN queue :
        LET q == [queue EXCEPT ![i].writes = @ \cup {b.seq}, ![i].refs = @ - 1] IN
        /\ queue' = q /\ flush' = IF q[i].refs = 0 THEN MaybeScheduleFlush(q) ELSE flush
        /\ UNCHANGED <<manifest, vs, tables, jobs, wal, gone, log, nextFile, phase, logs, call>>
  BY DEF Apply, disk
<1>2. phase = "open" /\ phase' = "open"
  BY <1>1 DEF IInv, PhaseInv
<1>3. Scheduled(flush')
  <2>1. flush' = flush \/ flush' = MaybeScheduleFlush(queue')
    BY <1>1
  <2> QED
    BY <2>1 DEF Scheduled, MaybeScheduleFlush
<1>4. \A j \in DOMAIN queue' : queue'[j].kind # "ingest"
  <2> SUFFICES ASSUME NEW j \in DOMAIN queue' PROVE queue'[j].kind # "ingest"
    OBVIOUS
  <2>1. j \in DOMAIN queue
    BY <1>1
  <2>2. PICK e \in QEntry : e = queue[j]
    BY <2>1, Fields DEF IInv
  <2>3. queue'[j] = e \/ \E w, r : queue'[j] = [e EXCEPT !.writes = w, !.refs = r]
    BY <1>1, <2>1, <2>2
  <2>4. queue'[j].kind = e.kind
    BY <2>2, <2>3 DEF QEntry
  <2> QED
    BY <2>1, <2>2, <2>4 DEF SInv, IngestFree
<1>5. Quiet(logs')
  BY <1>1, SameQuiet
<1>6. call'.kind \notin {"ingest", "ingested"}
  BY <1>1 DEF SInv, IngestFree
<1> QED
  BY <1>1, <1>2, <1>3, <1>4, <1>5, <1>6, CallKept

\* The log is closed before the next one is made.
LEMMA CloseLogSafe ==
  ASSUME IInv, SInv, CloseLog
  PROVE  SInv'
<1>1. /\ call.pc \in {"close", "sync"} /\ nextFile' = nextFile + 1
      /\ call' = [call EXCEPT !.pc = "create", !.new = nextFile,
                              !.kind = IF call.pc = "sync" THEN "ingested" ELSE @]
      /\ logs' = [Synced(log) EXCEPT ![log].closed = TRUE]
      /\ UNCHANGED <<manifest, vs, tables, jobs, wal, gone, log, phase, flush, queue>>
  BY DEF CloseLog, mem
<1>2. call.kind \notin {"ingest", "ingested"}
  BY DEF SInv, IngestFree
<1>3. call.pc = "close" /\ phase = "open"
  BY <1>1, <1>2 DEF IInv, PhaseInv
<1>4. call'.pc = "create" /\ call'.kind = call.kind
  <2>1. call \in CallType
    BY DEF IInv, TypeOK, ProcType
  <2> QED
    BY <1>1, <1>3, <2>1 DEF CallType
<1>5. Quiet(logs') /\ (log \in DOMAIN logs => logs'[log].closed)
  BY <1>1, SyncQuiet
<1>6. phase' # "failed" /\ ManifestInv' /\ JobsInv' /\ RecoveryInv'
  <2>1. nextFile \in Nat
    BY Fields DEF IInv
  <2>2. nextFile' \in Nat /\ nextFile <= nextFile'
    BY <1>1, <2>1
  <2>3. Scheduled(flush') /\ phase' = "open"
    BY <1>1, <1>3 DEF Scheduled
  <2> QED
    BY <1>1, <1>3, <2>2, <2>3, OpenKept
<1>7. ClosedInv'
  <2>1. DOMAIN logs' = DOMAIN logs /\ \A l \in DOMAIN logs : logs[l].closed => logs'[l].closed
    BY <1>5 DEF Quiet
  <2>2. \A l \in DOMAIN logs : ~Unclosed(l)'
    <3> SUFFICES ASSUME NEW l \in DOMAIN logs, Unclosed(l)' PROVE FALSE
      OBVIOUS
    <3>1. Unclosed(l)
      BY <1>1, <2>1 DEF Unclosed
    <3>2. l = log
      BY <1>3, <3>1 DEF SInv, ClosedInv
    <3> QED
      BY <1>5, <3>2 DEF Unclosed
  <2>3. \A l \in DOMAIN logs : l <= log
    BY <1>3 DEF SInv, ClosedInv
  <2> QED
    BY <1>1, <2>1, <2>2, <2>3 DEF ClosedInv
<1>8. IngestFree'
  BY <1>1, <1>2, <1>4, <1>5 DEF SInv, IngestFree, Quiet, NoIngest
<1> QED
  BY <1>6, <1>7, <1>8 DEF SInv

\* Before the new log is there, no log is open that must be replayed, and
\* all are older.
LEMMA BeforeCreate ==
  ASSUME IInv, SInv, call.pc = "create"
  PROVE  \A l \in DOMAIN logs : ~Unclosed(l) /\ l <= call.new
<1>1. /\ phase = "open" \/ (phase = "replayed" /\ flush.pc = "idle")
      /\ log < call.new /\ vs.min < call.new
  BY DEF IInv, PhaseInv, Numbers, NewLog
<1>2. log \in Nat /\ call.new \in Nat /\ vs.min \in Nat /\ DOMAIN logs \subseteq Nat
  BY Fields, UsedNat DEF IInv
<1>3. CASE phase = "open"
  <2>1. \A l \in DOMAIN logs : ~Unclosed(l) /\ l <= log
    BY <1>3 DEF SInv, ClosedInv
  <2> QED
    BY <1>1, <1>2, <2>1
<1>4. CASE phase = "replayed" /\ flush.pc = "idle"
  <2>1. \A l \in DOMAIN logs : l < vs.min
    BY <1>4 DEF SInv, RecoveryInv, Old
  <2>2. manifest.min = vs.min
    BY <1>4 DEF SInv, ManifestInv, Up
  <2> QED
    BY <1>1, <1>2, <2>1, <2>2 DEF Unclosed
<1> QED
  BY <1>1, <1>3, <1>4

\* The new log is made, perhaps of an old one.
LEMMA CreateLogSafe ==
  ASSUME IInv, SInv, CreateLog
  PROVE  SInv'
<1> DEFINE old == IF wal.recycler = <<>> THEN {} ELSE {Head(wal.recycler)}
           fresh == [l \in {call.new} |-> EmptyLog]
           taken == [l \in old \cap DOMAIN logs |-> logs[l]]
<1>1. /\ call.pc = "create"
      /\ call' = [call EXCEPT !.pc = "open",
                              !.reuse = IF old = {} THEN 0 ELSE Head(wal.recycler)]
      /\ logs' = Joined(Without(logs, old), fresh) /\ gone' = Joined(gone, taken)
      /\ UNCHANGED <<manifest, vs, tables, jobs, wal, log, phase, flush, queue, nextFile>>
  BY DEF CreateLog, mem
<1>2. call'.pc = "open" /\ call'.kind = call.kind /\ call'.new = call.new
  <2>1. call \in CallType
    BY DEF IInv, TypeOK, ProcType
  <2> HIDE DEF old
  <2> QED
    BY <1>1, <2>1 DEF CallType
<1>3. \A l \in old : l < manifest.min
  <2>1. wal.recycler \in Seq(Nat)
    BY DEF IInv, TypeOK, WalType
  <2>2. wal.recycler # <<>> => 1 \in DOMAIN wal.recycler /\ Head(wal.recycler) = wal.recycler[1]
    BY <2>1
  <2> QED
    BY <2>2 DEF SInv, JobsInv
<1>4. call.new \notin DOMAIN logs
  BY <1>1 DEF IInv, LogsInv
<1> HIDE DEF old
<1>5. /\ DOMAIN logs' = (DOMAIN logs \ old) \cup {call.new}
      /\ \A l \in DOMAIN logs \ old : logs'[l] = logs[l]
      /\ logs'[call.new] = EmptyLog
  <2>1. /\ DOMAIN Without(logs, old) = DOMAIN logs \ old
        /\ \A l \in DOMAIN logs \ old : Without(logs, old)[l] = logs[l]
    BY MapFacts
  <2>2. DOMAIN fresh = {call.new} /\ fresh[call.new] = EmptyLog
    OBVIOUS
  <2> HIDE DEF fresh
  <2> DEFINE f == Without(logs, old)
  <2> HIDE DEF f
  <2>3. /\ DOMAIN Joined(f, fresh) = DOMAIN f \cup DOMAIN fresh
        /\ \A x \in DOMAIN f : Joined(f, fresh)[x] = f[x]
        /\ \A x \in DOMAIN fresh \ DOMAIN f : Joined(f, fresh)[x] = fresh[x]
    BY DEF Joined
  <2> QED
    BY <1>1, <1>4, <2>1, <2>2, <2>3 DEF f
<1>6. /\ DOMAIN gone' = DOMAIN gone \cup (old \cap DOMAIN logs)
      /\ \A l \in DOMAIN gone : gone'[l] = gone[l]
      /\ \A l \in (old \cap DOMAIN logs) \ DOMAIN gone : gone'[l] = logs[l]
  <2>2. DOMAIN taken = old \cap DOMAIN logs /\ \A l \in DOMAIN taken : taken[l] = logs[l]
    OBVIOUS
  <2> HIDE DEF taken
  <2>3. /\ DOMAIN Joined(gone, taken) = DOMAIN gone \cup DOMAIN taken
        /\ \A x \in DOMAIN gone : Joined(gone, taken)[x] = gone[x]
        /\ \A x \in DOMAIN taken \ DOMAIN gone : Joined(gone, taken)[x] = taken[x]
    BY DEF Joined
  <2> QED
    BY <1>1, <2>2, <2>3
<1> HIDE DEF fresh, taken
<1>7. IngestFree'
  <2>1. \A l \in DOMAIN logs : NoIngest(logs[l].recs)
    BY DEF SInv, IngestFree
  <2>2. \A l \in DOMAIN gone : NoIngest(gone[l].recs)
    BY DEF SInv, IngestFree
  <2>3. NoIngest(EmptyLog.recs)
    BY DEF EmptyLog, NoIngest
  <2>4. \A l \in DOMAIN logs' : NoIngest(logs'[l].recs)
    BY <1>5, <2>1, <2>3
  <2>5. \A l \in DOMAIN gone' : NoIngest(gone'[l].recs)
    BY <1>6, <2>1, <2>2
  <2>6. call'.kind \notin {"ingest", "ingested"} /\ \A i \in DOMAIN queue' : queue'[i].kind # "ingest"
    BY <1>1, <1>2 DEF SInv, IngestFree
  <2> QED
    BY <2>4, <2>5, <2>6 DEF IngestFree, NoIngest
<1>8. phase' # "failed" /\ ManifestInv'
  BY <1>1 DEF SInv, ManifestInv, Up, Flushed
<1>9. JobsInv'
  <2>1. \A l \in DOMAIN gone' : l < manifest.min
    BY <1>3, <1>6 DEF SInv, JobsInv
  <2> QED
    BY <1>1, <2>1 DEF SInv, JobsInv, Spared
<1>10. RecoveryInv'
  <2>1. phase \in {"open", "replayed"}
    BY <1>1 DEF IInv, PhaseInv
  <2>2. phase = "replayed" => \A l \in DOMAIN logs' : Old(l) \/ l = call.new
    BY <1>1, <1>5 DEF SInv, RecoveryInv
  <2> QED
    BY <1>1, <1>2, <2>1, <2>2 DEF SInv, RecoveryInv, Old
<1>11. ClosedInv'
  <2>1. \A l \in DOMAIN logs : ~Unclosed(l) /\ l <= call.new
    BY <1>1, BeforeCreate
  <2>2. call.new \in Nat
    BY Fields DEF IInv
  <2>3. \A l \in DOMAIN logs' : l <= call.new
    BY <1>5, <2>1, <2>2
  <2>4. ASSUME NEW l \in DOMAIN logs', Unclosed(l)' PROVE l = call.new
    BY <1>1, <1>5, <2>1, <2>4 DEF Unclosed
  <2>5. phase = "open" => \A l \in DOMAIN logs' : l <= log \/ l = call.new
    BY <1>1, <1>5 DEF SInv, ClosedInv
  <2> QED
    BY <1>1, <1>2, <2>3, <2>4, <2>5 DEF ClosedInv
<1> QED
  BY <1>7, <1>8, <1>9, <1>10, <1>11 DEF SInv

\* The new log is the current one and has its memtable.
LEMMA RotateSafe ==
  ASSUME IInv, SInv, call.pc = "open", phase = "open", Rotated(queue'), Scheduled(flush'),
         call' = Idle, gone' = <<>>, log' = call.new, wal' = Opened, Quiet(logs'),
         UNCHANGED <<tables, manifest, phase, nextFile, vs, jobs>>
  PROVE  SInv'
<1>1. nextFile \in Nat /\ call.new \in Nat /\ log \in Nat /\ DOMAIN logs \subseteq Nat
      /\ Len(queue) \in Nat /\ DOMAIN queue = 1 .. Len(queue)
  BY Fields, UsedNat DEF IInv
<1>2. phase' # "failed" /\ ManifestInv' /\ JobsInv' /\ RecoveryInv'
  <2>1. nextFile <= nextFile
    BY <1>1
  <2> QED
    BY <1>1, <2>1, OpenKept
<1>3. \A i \in DOMAIN queue' : queue'[i].kind # "ingest"
  <2> DEFINE L == Len(queue)
             M == Len(queue')
  <2>1. /\ DOMAIN queue' = 1 .. M /\ M \in {L + 1, L + 2} /\ queue'[M].kind = "mem"
        /\ \A i \in 1 .. L : queue'[i].kind = queue[i].kind
        /\ M = L + 2 => queue'[L + 1].kind = "large" \/ IngestWritten
    BY DEF Rotated
  <2>2. ~IngestWritten
    BY DEF SInv, IngestFree, IngestWritten
  <2>3. \A i \in 1 .. L : queue[i].kind # "ingest"
    BY <1>1 DEF SInv, IngestFree
  <2> HIDE DEF L, M
  <2>4. L \in Nat
    BY <1>1 DEF L
  <2>5. \A i \in 1 .. M : i \in 1 .. L \/ i = M \/ (M = L + 2 /\ i = L + 1)
    BY <2>1, <2>4
  <2> QED
    BY <2>1, <2>2, <2>3, <2>5
<1>4. DOMAIN logs' = DOMAIN logs /\ \A l \in DOMAIN logs : logs[l].closed => logs'[l].closed
  BY DEF Quiet
<1>5. IngestFree'
  <2>1. \A l \in DOMAIN logs' : NoIngest(logs'[l].recs)
    BY DEF Quiet
  <2>2. DOMAIN gone' = {}
    BY NoneGone
  <2>3. call'.kind = "none"
    BY CallFields
  <2> QED
    BY <1>3, <2>1, <2>2, <2>3 DEF IngestFree, NoIngest
<1>6. ClosedInv'
  <2>1. log < call.new
    BY DEF IInv, Numbers, NewLog
  <2>2. \A l \in DOMAIN logs : l <= log \/ l = call.new
    BY DEF SInv, ClosedInv
  <2>3. \A l \in DOMAIN logs : l <= call.new
    BY <1>1, <2>1, <2>2
  <2>4. \A l \in DOMAIN logs : Unclosed(l)' => Unclosed(l)
    BY <1>4 DEF Unclosed
  <2>5. \A l \in DOMAIN logs : Unclosed(l) => l = call.new
    BY DEF SInv, ClosedInv
  <2>6. call'.pc = "idle"
    BY CallFields
  <2> QED
    BY <1>4, <2>3, <2>4, <2>5, <2>6 DEF ClosedInv
<1> QED
  BY <1>2, <1>5, <1>6 DEF SInv

\* The rotations.
LEMMA RotationsSafe ==
  ASSUME IInv, SInv, RotateForBatch \/ RotateForLarge \/ RotateForFlush
  PROVE  SInv'
<1>1. /\ call.pc = "open" /\ call.kind \in {"small", "large", "flush"}
      /\ gone' = <<>> /\ log' = call.new /\ wal' = Opened /\ call' = Idle
      /\ logs' = logs \/ logs' = Appended(call.new, "small", seq, 0)
      /\ UNCHANGED <<tables, manifest, phase, nextFile, vs, jobs>>
  BY DEF RotateForBatch, RotateForLarge, RotateForFlush, OpenLog
<1>2. phase = "open"
  BY <1>1 DEF IInv, PhaseInv
<1>3. Rotated(queue') /\ Scheduled(flush')
  BY BatchRotated, LargeRotated, FlushRotated
<1>4. Quiet(logs')
  <2>1. seq \in Nat
    BY Fields DEF IInv
  <2>2. CASE logs' = logs
    BY <2>2, SameQuiet
  <2>3. CASE logs' = Appended(call.new, "small", seq, 0)
    BY <2>1, <2>3, AppendQuiet
  <2> QED
    BY <1>1, <2>2, <2>3
<1> QED
  BY <1>1, <1>2, <1>3, <1>4, RotateSafe

(***************************************************************************)
(* The steps of a flush, while the store is open or Open waits for it.     *)
(***************************************************************************)
\* What they leave as it is.
LEMMA FlushQuiet ==
  ASSUME IInv, SInv, UNCHANGED <<logs, gone, phase, log, queue, call>>,
         manifest'.min \in Nat, manifest.min <= manifest'.min
  PROVE  IngestFree' /\ ClosedInv'
<1>1. Quiet(logs')
  BY SameQuiet
<1>2. ClosedInv'
  BY <1>1, ClosedKept
<1>3. IngestFree'
  BY DEF SInv, IngestFree, NoIngest
<1> QED
  BY <1>2, <1>3

\* When all of the logs are replayed, all but the mutable memtable is ready.
LEMMA ReplayedReady ==
  ASSUME IInv, phase = "replayed"
  PROVE  \A i \in 1 .. Len(queue) - 1 : ReadyForFlush(queue[i])
<1> SUFFICES ASSUME NEW i \in 1 .. Len(queue) - 1, queue[i].kind = "mem" PROVE queue[i].refs = 0
  BY DEF ReadyForFlush
<1>1. Len(queue) \in Nat /\ DOMAIN queue = 1 .. Len(queue)
  BY Fields DEF IInv
<1>2. i \in DOMAIN queue /\ i # Len(queue)
  BY <1>1
<1>3. OfLog(inflight, queue[i].logNum) = {}
  BY DEF IInv, PhaseInv, OfLog
<1>4. queue[i].refs = Cardinality(OfLog(inflight, queue[i].logNum)) + 0
  BY <1>2 DEF IInv, RefsInv
<1>5. Cardinality({}) = 0
  BY FS_EmptySet
<1> QED
  BY <1>3, <1>4, <1>5

\* A flush of Open takes all but the mutable memtable.
LEMMA ReplayedCount ==
  ASSUME IInv, SInv, phase = "replayed"
  PROVE  FlushCount(queue) = Len(queue) - 1
<1>1. /\ Len(queue) \in Nat /\ DOMAIN queue = 1 .. Len(queue) /\ queue \in Seq(QEntry)
      /\ Len(queue) >= 1
  BY Fields DEF IInv, TypeOK, MemType, PhaseInv, Up
<1>2. PICK n : n = FlushCount(queue)
  OBVIOUS
<1>3. /\ n \in 0 .. Len(queue) - 1
      /\ queue[1].kind = "ingest"
         \/ (n + 1 < Len(queue) =>
               ~(queue[n + 1].kind \in {"mem", "large"} /\ ReadyForFlush(queue[n + 1])))
  BY <1>1, <1>2, FlushCountFacts
<1>4. \A i \in 1 .. Len(queue) : queue[i].kind \in {"mem", "large"}
  <2>1. \A i \in 1 .. Len(queue) : queue[i].kind # "ingest"
    BY <1>1 DEF SInv, IngestFree
  <2>2. \A i \in 1 .. Len(queue) : queue[i].kind \in {"mem", "large", "ingest"}
    <3>1. \A i \in 1 .. Len(queue) : queue[i] \in QEntry
      BY <1>1
    <3> QED
      BY <3>1 DEF QEntry
  <2> QED
    BY <2>1, <2>2
<1>5. \A i \in 1 .. Len(queue) - 1 : ReadyForFlush(queue[i])
  BY ReplayedReady
<1>6. ASSUME n + 1 < Len(queue) PROVE FALSE
  <2>1. n + 1 \in 1 .. Len(queue) - 1 /\ n + 1 \in 1 .. Len(queue) /\ 1 \in 1 .. Len(queue)
    BY <1>1, <1>3, <1>6
  <2> QED
    BY <1>3, <1>4, <1>5, <1>6, <2>1
<1>7. n = Len(queue) - 1
  <2>1. PICK L \in Nat : L = Len(queue)
    BY <1>1
  <2>2. n \in 0 .. L - 1 /\ ~(n + 1 < L)
    BY <1>3, <1>6, <2>1
  <2>3. n = L - 1
    BY <2>2
  <2> QED
    BY <2>1, <2>3
<1> QED
  BY <1>2, <1>7

\* A flush begins.
LEMMA FlushBeginSafe ==
  ASSUME IInv, SInv, FlushBegin
  PROVE  SInv'
<1> DEFINE n == FlushCount(queue)
<1>1. /\ flush.pc = "begin"
      /\ \/ flush' = [flush EXCEPT !.pc = "end"] /\ nextFile' = nextFile
         \/ /\ flush' = [pc |-> "run", n |-> n, min |-> queue[n + 1].logNum,
                         file |-> IF queue[1].kind = "ingest" THEN queue[1].file ELSE nextFile]
            /\ nextFile' = IF queue[1].kind = "ingest" THEN nextFile ELSE nextFile + 1
      /\ UNCHANGED <<logs, gone, tables, manifest, queue, phase, vs, log, call, wal, jobs>>
  BY DEF FlushBegin, disk, mem
<1>2. /\ phase \in {"open", "replayed"} /\ nextFile \in Nat /\ Len(queue) >= 1
      /\ manifest.min \in Nat /\ manifest.min <= manifest.min
  <2>1. nextFile \in Nat /\ manifest.min \in Nat
    BY Fields DEF IInv
  <2>2. phase \in {"open", "replayed"} /\ Len(queue) >= 1
    BY <1>1 DEF IInv, PhaseInv, Up
  <2> QED
    BY <2>1, <2>2
<1>3. queue[1].kind # "ingest"
  <2>1. Len(queue) \in Nat /\ DOMAIN queue = 1 .. Len(queue)
    BY Fields DEF IInv
  <2>2. 1 \in DOMAIN queue
    BY <1>2, <2>1
  <2> QED
    BY <2>2 DEF SInv, IngestFree
<1>4. \/ flush'.pc = "end" /\ nextFile' = nextFile
      \/ flush'.pc = "run" /\ flush'.n = n /\ flush'.file = nextFile /\ nextFile' = nextFile + 1
  <2>1. flush \in FlushType
    BY DEF IInv, TypeOK, ProcType
  <2> HIDE DEF n
  <2> QED
    BY <1>1, <1>3, <2>1 DEF FlushType
<1>5. phase = "replayed" => n = Len(queue) - 1
  BY ReplayedCount
<1> HIDE DEF n
<1>6. ManifestInv' /\ phase' # "failed"
  BY <1>1, <1>4 DEF SInv, ManifestInv, Up, Flushed
<1>7. JobsInv'
  <2>1. ASSUME NEW t \in Nat, Spared(t) PROVE Spared(t)'
    BY <1>1, <1>2, <1>4, <2>1 DEF Spared
  <2>2. \A i \in DOMAIN jobs : jobs[i][2] \in Nat
    BY DEF SInv, JobsInv, Job
  <2>3. \A i \in DOMAIN jobs :
          IF jobs[i][1] = "log" THEN jobs[i][2] < manifest.min ELSE Spared(jobs[i][2])'
    BY <1>1, <2>1, <2>2 DEF SInv, JobsInv
  <2> QED
    BY <1>1, <2>3 DEF SInv, JobsInv
<1>8. RecoveryInv'
  BY <1>1, <1>2, <1>4, <1>5 DEF SInv, RecoveryInv, Old
<1>9. IngestFree' /\ ClosedInv'
  BY <1>1, <1>2, FlushQuiet
<1> QED
  BY <1>6, <1>7, <1>8, <1>9 DEF SInv

\* The sstable is written.
LEMMA FlushRunSafe ==
  ASSUME IInv, SInv, FlushRun
  PROVE  SInv'
<1>1. /\ flush.pc = "run" /\ flush' = [flush EXCEPT !.pc = "log"]
      /\ tables' = tables \/ tables' = Joined(tables, [t \in {flush.file} |-> Flushing])
      /\ UNCHANGED <<logs, gone, manifest, queue, phase, vs, log, call, wal, jobs, nextFile>>
  BY DEF FlushRun, mem
<1>2. /\ phase \in {"open", "replayed"} /\ manifest.min \in Nat /\ manifest.min <= manifest.min
  <2>1. manifest.min \in Nat
    BY Fields DEF IInv
  <2>2. phase \in {"open", "replayed"}
    BY <1>1 DEF IInv, PhaseInv
  <2> QED
    BY <2>1, <2>2
<1>3. flush'.file = flush.file /\ flush'.pc = "log" /\ flush'.n = flush.n
  <2>1. flush \in FlushType
    BY DEF IInv, TypeOK, ProcType
  <2> QED
    BY <1>1, <2>1 DEF FlushType
<1>4. DOMAIN tables \subseteq DOMAIN tables'
  BY <1>1 DEF Joined
<1>5. ManifestInv' /\ phase' # "failed"
  BY <1>1, <1>3, <1>4 DEF SInv, ManifestInv, Up
<1>6. JobsInv'
  BY <1>1, <1>3 DEF SInv, JobsInv, Spared
<1>7. RecoveryInv'
  BY <1>1, <1>2, <1>3 DEF SInv, RecoveryInv, Old
<1>8. IngestFree' /\ ClosedInv'
  BY <1>1, <1>2, FlushQuiet
<1> QED
  BY <1>5, <1>6, <1>7, <1>8 DEF SInv

\* The manifest is written.
LEMMA LogAndApplySafe ==
  ASSUME IInv, SInv, LogAndApply
  PROVE  SInv'
<1>1. /\ flush.pc = "log" /\ flush' = [flush EXCEPT !.pc = "install"]
      /\ manifest' = [min |-> flush.min, tables |-> Flushed, next |-> nextFile, last |-> seq]
      /\ UNCHANGED <<logs, gone, tables, queue, phase, vs, log, call, wal, jobs, nextFile>>
  BY DEF LogAndApply, mem
<1>2. phase \in {"open", "replayed"}
  BY <1>1 DEF IInv, PhaseInv
<1>3. flush'.pc = "install" /\ flush'.n = flush.n /\ flush'.min = flush.min /\ flush'.file = flush.file
  <2>1. flush \in FlushType
    BY DEF IInv, TypeOK, ProcType
  <2> QED
    BY <1>1, <2>1 DEF FlushType
<1>4. manifest.min = vs.min /\ manifest.tables = vs.tables
  BY <1>1, <1>2 DEF SInv, ManifestInv, Up
<1>5. manifest'.min = flush.min /\ manifest'.tables = Flushed
  BY <1>1
<1>6. manifest'.min \in Nat /\ manifest.min \in Nat /\ manifest.min <= manifest'.min
  <2>1. flush.min \in Nat /\ vs.min \in Nat
    BY Fields DEF IInv
  <2>2. flush.min >= vs.min
    BY <1>1, NoPanicHolds DEF NoPanic
  <2> QED
    BY <1>4, <1>5, <2>1, <2>2
<1>7. Flushed' = Flushed
  BY <1>1, <1>3 DEF Flushed
<1>8. ManifestInv' /\ phase' # "failed"
  <2>1. manifest'.tables \subseteq DOMAIN tables
    BY <1>4, <1>5 DEF SInv, ManifestInv, Flushed
  <2>2. manifest'.min >= 1
    BY <1>6 DEF SInv, ManifestInv
  <2>3. phase' # "failed"
    BY <1>1 DEF SInv
  <2> QED
    BY <1>1, <1>3, <1>5, <1>7, <2>1, <2>2, <2>3 DEF ManifestInv
<1>9. JobsInv'
  <2>1. ASSUME NEW t, Spared(t) PROVE Spared(t)'
    BY <1>1, <1>3, <1>4, <1>5, <2>1 DEF Spared, Flushed
  <2>2. \A l \in Nat : l < manifest.min => l < manifest'.min
    BY <1>6
  <2>3. ASSUME NEW i \in DOMAIN jobs
        PROVE  IF jobs[i][1] = "log" THEN jobs[i][2] < manifest'.min ELSE Spared(jobs[i][2])'
    <3>1. jobs[i][2] \in Nat
      BY DEF SInv, JobsInv, Job
    <3> QED
      BY <1>1, <2>1, <2>2, <3>1 DEF SInv, JobsInv
  <2>4. \A i \in DOMAIN wal.recycler : wal.recycler[i] < manifest'.min
    <3>1. wal.recycler \in Seq(Nat)
      BY DEF IInv, TypeOK, WalType
    <3> QED
      BY <2>2, <3>1 DEF SInv, JobsInv
  <2>5. \A l \in DOMAIN gone : l < manifest'.min
    <3>1. DOMAIN gone \subseteq Nat
      BY UsedNat DEF IInv
    <3> QED
      BY <2>2, <3>1 DEF SInv, JobsInv
  <2> QED
    BY <1>1, <2>3, <2>4, <2>5 DEF SInv, JobsInv
<1>10. RecoveryInv'
  BY <1>1, <1>2, <1>3 DEF SInv, RecoveryInv, Old
<1>11. IngestFree' /\ ClosedInv'
  BY <1>1, <1>6, FlushQuiet
<1> QED
  BY <1>8, <1>9, <1>10, <1>11 DEF SInv

\* A queue whose first entry was forced out passes the threshold, once that
\* entry is ready.
LEMMA ForcedPasses ==
  ASSUME NEW q \in Seq(QEntry), Len(q) > 1, q[1].forced,
         \A i \in 1 .. Len(q) - 1 : ReadyForFlush(q[i])
  PROVE  PassedFlushThreshold(q)
<1> DEFINE n == ReadyPrefix(q, {"mem", "large", "ingest"})
           Size(i) == IF q[i].forced THEN MemTableSize ELSE q[i].size
           Eq(f) == f = [i \in 0 .. n |-> IF i = 0 THEN 0 ELSE f[i - 1] + Size(i)]
           A == CHOOSE f : Eq(f)
           step == [i \in 1 .. n |-> [x \in Nat |-> x + Size(i)]]
<1>1. (n > 0 /\ 2 * A[n] >= MemTableSize) => PassedFlushThreshold(q)
  BY DEF PassedFlushThreshold
<1>2. MemTableSize \in Nat /\ Len(q) \in Nat /\ \A i \in 1 .. Len(q) : q[i].size \in Nat
  <2>1. \A i \in 1 .. Len(q) : q[i] \in QEntry
    OBVIOUS
  <2> QED
    <3>1. MemTableSize \in Nat
      BY SizesAssumption
    <3>2. \A i \in 1 .. Len(q) : q[i].size \in Nat
      BY <2>1 DEF QEntry
    <3>3. Len(q) \in Nat
      OBVIOUS
    <3> QED
      BY <3>1, <3>2, <3>3
<1>3. n \in 0 .. Len(q) - 1 /\ n >= 1
  <2>1. Len(q) >= 1
    OBVIOUS
  <2>2. /\ n \in 0 .. Len(q) - 1
        /\ n + 1 < Len(q) => ~(q[n + 1].kind \in {"mem", "large", "ingest"} /\ ReadyForFlush(q[n + 1]))
    BY <2>1, ReadyPrefixFacts
  <2>3. 1 \in 1 .. Len(q) - 1 /\ q[1] \in QEntry
    BY <2>1
  <2>4. q[1].kind \in {"mem", "large", "ingest"} /\ ReadyForFlush(q[1])
    BY <2>3 DEF QEntry
  <2> HIDE DEF n
  <2>5. CASE n = 0
    <3>1. n + 1 = 1 /\ n + 1 < Len(q)
      BY <2>5
    <3> QED
      BY <2>2, <2>4, <3>1
  <2> QED
    BY <2>2, <2>5
<1> HIDE DEF n
<1>4. n \in Nat /\ \A i \in 1 .. n : Size(i) \in Nat
  <2>1. n \in Nat /\ \A i \in 1 .. n : i \in 1 .. Len(q)
    BY <1>2, <1>3
  <2> QED
    BY <1>2, <2>1
<1>5. Size(1) = MemTableSize
  OBVIOUS
<1> HIDE DEF Size
<1>6. step \in [1 .. n -> [Nat -> Nat]]
  BY <1>4
<1>7. PICK f \in [0 .. n -> Nat] : Solves(f, 0, n, step)
  <2> HIDE DEF step
  <2> QED
    BY <1>4, <1>6, RecExists
<1>8. Eq(f)
  <2>1. ASSUME NEW i \in 1 .. n PROVE f[i] = f[i - 1] + Size(i)
    <3>1. f[i - 1] \in Nat
      BY <1>4
    <3>2. f[i] = step[i][f[i - 1]]
      BY <1>7 DEF Solves
    <3>3. step[i] = [x \in Nat |-> x + Size(i)]
      OBVIOUS
    <3> QED
      BY <3>1, <3>2, <3>3
  <2> QED
    BY <1>4, <2>1, <1>7 DEF Solves
<1>9. Eq(A)
  BY <1>8
<1> HIDE DEF A
<1> DEFINE T == {i \in 0 .. n : A[i] \in Nat /\ (i > 0 => A[i] >= MemTableSize)}
<1>10. 0 \in T
  BY <1>4, <1>9
<1>11. ASSUME NEW i \in 1 .. n, i - 1 \in T PROVE i \in T
  <2>1. i \in 0 .. n /\ i # 0 /\ i > 0
    BY <1>4
  <2>2. A[i] = A[i - 1] + Size(i) /\ A[i - 1] \in Nat
    BY <1>9, <1>11, <2>1
  <2>3. PICK a \in Nat, s \in Nat : a = A[i - 1] /\ s = Size(i)
    BY <1>4, <2>2
  <2>4. i = 1 \/ i - 1 > 0
    BY <1>4
  <2>5. s = MemTableSize \/ a >= MemTableSize
    BY <1>5, <1>11, <2>3, <2>4
  <2>6. a + s \in Nat /\ a + s >= MemTableSize
    BY <1>2, <2>5
  <2> QED
    BY <2>1, <2>2, <2>3, <2>6
<1> HIDE DEF T
<1>12. n \in T
  <2>1. n \in 0 .. n
    BY <1>4
  <2> QED
    BY <1>4, <1>10, <1>11, <2>1, Induct
<1>13. n > 0 /\ 2 * A[n] >= MemTableSize
  <2>1. A[n] \in Nat /\ A[n] >= MemTableSize /\ n > 0
    BY <1>3, <1>4, <1>12 DEF T
  <2>2. PICK a \in Nat : a = A[n]
    BY <2>1
  <2>3. 2 * a >= MemTableSize
    BY <1>2, <2>1, <2>2
  <2> QED
    BY <2>1, <2>2, <2>3
<1> QED
  BY <1>1, <1>13

\* A flush ends, and a stalled writer is woken.
LEMMA FlushEndSafe ==
  ASSUME IInv, SInv, FlushEnd
  PROVE  SInv'
<1>1. /\ flush.pc = "end"
      /\ flush' = [pc |-> IF Len(queue) > 1 /\ PassedFlushThreshold(queue)
                          THEN "begin" ELSE "idle", n |-> 0, min |-> 0, file |-> 0]
      /\ call' = IF call.pc = "wait" THEN [call EXCEPT !.pc = "stall"] ELSE call
      /\ UNCHANGED <<logs, gone, tables, manifest, queue, phase, vs, log, wal, jobs, nextFile>>
  BY DEF FlushEnd, disk, mem
<1>2. phase \in {"open", "replayed"}
  BY <1>1 DEF IInv, PhaseInv
<1>3. /\ flush'.pc \in {"begin", "idle"}
      /\ Len(queue) > 1 /\ PassedFlushThreshold(queue) => flush'.pc = "begin"
  BY <1>1
<1>4. call' = call \/ (call.pc = "wait" /\ call'.pc = "stall" /\ call'.kind = call.kind)
  <2>1. call \in CallType
    BY DEF IInv, TypeOK, ProcType
  <2> QED
    BY <1>1, <2>1 DEF CallType
<1>5. phase = "replayed" /\ Len(queue) > 1 => PassedFlushThreshold(queue)
  <2> SUFFICES ASSUME phase = "replayed", Len(queue) > 1 PROVE PassedFlushThreshold(queue)
    OBVIOUS
  <2>1. \A i \in 1 .. Len(queue) - 1 : ReadyForFlush(queue[i])
    BY ReplayedReady
  <2>2. queue \in Seq(QEntry) /\ queue[1].forced
    BY DEF IInv, TypeOK, MemType, SInv, RecoveryInv
  <2> QED
    BY <2>1, <2>2, ForcedPasses
<1>6. ManifestInv' /\ phase' # "failed"
  BY <1>1, <1>3 DEF SInv, ManifestInv, Up
<1>7. JobsInv'
  BY <1>1, <1>3 DEF SInv, JobsInv, Spared
<1>8. RecoveryInv'
  <2>1. phase = "replayed" => call' = call
    BY <1>4 DEF IInv, PhaseInv
  <2> QED
    BY <1>1, <1>2, <1>3, <1>5, <2>1 DEF SInv, RecoveryInv, Old
<1>9. ClosedInv' /\ IngestFree'
  <2>1. manifest.min \in Nat
    BY Fields DEF IInv
  <2>2. manifest.min <= manifest.min
    BY <2>1
  <2>3. Quiet(logs')
    BY <1>1, SameQuiet
  <2>4. ClosedInv'
    BY <1>1, <1>4, <2>1, <2>2, <2>3, ClosedKept
  <2>5. call'.kind = call.kind
    BY <1>4
  <2>6. IngestFree'
    BY <1>1, <2>5 DEF SInv, IngestFree, NoIngest
  <2> QED
    BY <2>4, <2>6
<1> QED
  BY <1>6, <1>7, <1>8, <1>9 DEF SInv

\* The next file to be deleted is deleted.
LEMMA DeleteFileSafe ==
  ASSUME IInv, SInv, DeleteFile
  PROVE  SInv'
<1> DEFINE f == Head(jobs)[2]
           taken == [l \in {f} \cap DOMAIN logs |-> logs[l]]
<1>1. /\ jobs # <<>> /\ jobs' = Tail(jobs)
      /\ UNCHANGED <<manifest, queue, phase, vs, log, call, flush, wal, nextFile>>
      /\ \/ /\ Head(jobs)[1] = "log" /\ logs' = Without(logs, {f}) /\ gone' = Joined(gone, taken)
            /\ tables' = tables
         \/ /\ Head(jobs)[1] # "log" /\ tables' = Without(tables, {f})
            /\ logs' = logs /\ gone' = gone
  BY DEF DeleteFile, mem
<1>2. phase \in {"open", "replayed"}
  BY <1>1 DEF IInv, PhaseInv
<1>3. jobs \in Seq(Job) /\ DOMAIN jobs = 1 .. Len(jobs) /\ Len(jobs) \in Nat /\ 1 \in DOMAIN jobs
      /\ Head(jobs) = jobs[1]
  <2>1. jobs \in Seq(Job)
    BY DEF SInv, JobsInv
  <2> QED
    BY <1>1, <2>1
<1>4. /\ Head(jobs)[1] = "log" => f < manifest.min
      /\ Head(jobs)[1] # "log" => Spared(f)
  BY <1>3 DEF SInv, JobsInv
<1> HIDE DEF f
<1>5. /\ DOMAIN logs' \subseteq DOMAIN logs /\ \A l \in DOMAIN logs' : logs'[l] = logs[l]
  BY <1>1 DEF Without
<1>6. /\ \A l \in DOMAIN gone' : l \in DOMAIN gone \/ (l = f /\ Head(jobs)[1] = "log" /\ l \in DOMAIN logs)
      /\ \A l \in DOMAIN gone' : gone'[l] = gone[l] \/ (l \in DOMAIN logs /\ gone'[l] = logs[l])
      /\ \A l \in DOMAIN gone' : l \notin DOMAIN gone => l \in DOMAIN logs /\ gone'[l] = logs[l]
  BY <1>1 DEF Joined
<1>7. IngestFree'
  <2>1. \A l \in DOMAIN logs : NoIngest(logs[l].recs)
    BY DEF SInv, IngestFree
  <2>2. \A l \in DOMAIN gone : NoIngest(gone[l].recs)
    BY DEF SInv, IngestFree
  <2>3. \A l \in DOMAIN logs' : NoIngest(logs'[l].recs)
    BY <1>5, <2>1
  <2>4. \A l \in DOMAIN gone' : NoIngest(gone'[l].recs)
    BY <1>6, <2>1, <2>2
  <2>5. call'.kind \notin {"ingest", "ingested"} /\ \A i \in DOMAIN queue' : queue'[i].kind # "ingest"
    BY <1>1 DEF SInv, IngestFree
  <2> QED
    BY <2>3, <2>4, <2>5 DEF IngestFree, NoIngest
<1>8. ManifestInv' /\ phase' # "failed"
  <2>1. CASE Head(jobs)[1] = "log"
    BY <1>1, <2>1 DEF SInv, ManifestInv, Up, Flushed
  <2>2. CASE Head(jobs)[1] # "log"
    <3>1. DOMAIN tables' = DOMAIN tables \ {f} /\ Spared(f)
      BY <1>1, <1>4, <2>2 DEF Without
    <3>2. manifest'.tables \subseteq DOMAIN tables'
      BY <1>1, <3>1 DEF SInv, ManifestInv, Spared
    <3>3. flush.pc = "install" => Flushed' = Flushed
      BY <1>1, <3>1 DEF Flushed, Spared
    <3> QED
      BY <1>1, <3>2, <3>3 DEF SInv, ManifestInv, Up
  <2> QED
    BY <2>1, <2>2
<1>9. JobsInv'
  <2>1. jobs' \in Seq(Job) /\ \A i \in DOMAIN jobs' : i + 1 \in DOMAIN jobs /\ jobs'[i] = jobs[i + 1]
    BY <1>1, <1>3
  <2>2. ASSUME NEW t PROVE Spared(t)' <=> Spared(t)
    BY <1>1 DEF Spared
  <2>3. ASSUME NEW i \in DOMAIN jobs'
        PROVE  IF jobs'[i][1] = "log" THEN jobs'[i][2] < manifest.min ELSE Spared(jobs[i][2])'
    <3>1. PICK k \in DOMAIN jobs : jobs'[i] = jobs[k]
      BY <2>1
    <3> QED
      BY <2>2, <3>1 DEF SInv, JobsInv
  <2>4. \A l \in DOMAIN gone' : l < manifest.min
    BY <1>4, <1>6 DEF SInv, JobsInv
  <2> QED
    BY <1>1, <2>1, <2>3, <2>4 DEF SInv, JobsInv
<1>10. RecoveryInv'
  BY <1>1, <1>2, <1>5 DEF SInv, RecoveryInv, Old
<1>11. ClosedInv'
  <2>1. \A l \in DOMAIN logs' : Unclosed(l)' => Unclosed(l)
    BY <1>1, <1>5 DEF Unclosed
  <2> QED
    BY <1>1, <1>5, <2>1 DEF SInv, ClosedInv
<1> QED
  BY <1>7, <1>8, <1>9, <1>10, <1>11 DEF SInv

\* The jobs u are those of s and of t.
OfBoth(u, s, t) ==
  /\ u \in Seq(Job)
  /\ \A i \in DOMAIN u : \/ \E j \in DOMAIN s : u[i] = s[j]
                         \/ \E j \in DOMAIN t : u[i] = t[j]

\* Each job of two sequences in one is of either.
LEMMA FromEither ==
  ASSUME NEW s \in Seq(Job), NEW t \in Seq(Job)
  PROVE  OfBoth(s \o t, s, t)
<1> DEFINE u == s \o t
<1>1. /\ u \in Seq(Job) /\ Len(u) = Len(s) + Len(t)
      /\ \A i \in 1 .. Len(s) + Len(t) : u[i] = IF i <= Len(s) THEN s[i] ELSE t[i - Len(s)]
  BY ConcatProperties
<1>2. PICK m \in Nat, n \in Nat : m = Len(s) /\ n = Len(t)
  OBVIOUS
<1>3. DOMAIN s = 1 .. m /\ DOMAIN t = 1 .. n /\ DOMAIN u = 1 .. m + n
  BY <1>1, <1>2
<1>4. \A i \in 1 .. m + n : IF i <= m THEN i \in 1 .. m ELSE i - m \in 1 .. n
  BY <1>2
<1>5. \A i \in 1 .. m + n : u[i] = IF i <= m THEN s[i] ELSE t[i - m]
  BY <1>1, <1>2
<1>6. ASSUME NEW i \in 1 .. m + n
      PROVE  (\E j \in 1 .. m : u[i] = s[j]) \/ (\E j \in 1 .. n : u[i] = t[j])
  BY <1>4, <1>5
<1> QED
  BY <1>1, <1>3, <1>6 DEF OfBoth

\* What deleteObsoleteFiles hands to the cleanup manager and the recycler:
\* logs that are older than min or were there before Open, and the orphans.
LEMMA DeletedFacts ==
  ASSUME IInv, SInv, NEW w \in WalType, NEW min \in Nat, NEW orphans \in Seq(Nat),
         DeleteObsoleteFiles(w, min, orphans)
  PROVE  /\ wal'.initial = {} /\ jobs' \in Seq(Job)
         /\ \A i \in DOMAIN wal'.recycler :
              \/ wal'.recycler[i] < min
              \/ \E j \in DOMAIN w.recycler : wal'.recycler[i] = w.recycler[j]
         /\ \A i \in DOMAIN jobs' :
              \/ \E j \in DOMAIN jobs : jobs'[i] = jobs[j]
              \/ jobs'[i][1] = "log" /\ (jobs'[i][2] < min \/ jobs'[i][2] \in w.initial)
              \/ jobs'[i][1] = "table" /\ \E j \in DOMAIN orphans : jobs'[i][2] = orphans[j]
<1> DEFINE y == Obsolete(w, min)
           a == [i \in DOMAIN y.delete |-> <<"log", y.delete[i]>>]
           b == [i \in DOMAIN orphans |-> <<"table", orphans[i]>>]
           c == jobs \o a
<1>1. wal' = [y EXCEPT !.delete = <<>>] /\ jobs' = c \o b
  BY DEF DeleteObsoleteFiles
<1>2. AfterObsolete(w, y, min)
  BY ObsoleteFacts
<1> HIDE DEF y
<1>3. y \in WalType
  BY <1>2 DEF AfterObsolete
<1>4. /\ y.recycler \in Seq(Nat) /\ y.delete \in Seq(Nat) /\ w.recycler \in Seq(Nat)
  BY <1>3 DEF WalType
<1>5. DOMAIN y.recycler = 1 .. Len(y.recycler) /\ DOMAIN y.delete = 1 .. Len(y.delete)
      /\ DOMAIN w.recycler = 1 .. Len(w.recycler)
  BY <1>4
<1>6. wal'.initial = y.initial /\ wal'.recycler = y.recycler
  BY <1>1, <1>3 DEF WalType
<1>7. /\ wal'.initial = {}
      /\ \A i \in DOMAIN wal'.recycler :
           \/ wal'.recycler[i] < min
           \/ \E j \in DOMAIN w.recycler : wal'.recycler[i] = w.recycler[j]
  BY <1>2, <1>5, <1>6 DEF AfterObsolete
<1>8. /\ a \in Seq(Job)
      /\ \A i \in DOMAIN a : a[i][1] = "log" /\ (a[i][2] < min \/ a[i][2] \in w.initial)
  <2>1. PICK d \in Seq(Nat) : d = y.delete
    BY <1>4
  <2>2. a = [i \in 1 .. Len(d) |-> <<"log", d[i]>>] /\ Len(d) \in Nat
    BY <2>1
  <2>3. \A i \in 1 .. Len(d) : <<"log", d[i]>> \in Job
    BY <2>1 DEF Job
  <2>4. \A i \in 1 .. Len(d) : d[i] < min \/ d[i] \in w.initial
    BY <1>2, <2>1 DEF AfterObsolete
  <2> HIDE DEF a
  <2>5. a \in Seq(Job)
    BY <2>2, <2>3
  <2> QED
    BY <2>2, <2>4, <2>5
<1>9. /\ b \in Seq(Job)
      /\ \A i \in DOMAIN b : b[i][1] = "table" /\ \E j \in DOMAIN orphans : b[i][2] = orphans[j]
  <2>1. b = [i \in 1 .. Len(orphans) |-> <<"table", orphans[i]>>] /\ Len(orphans) \in Nat
    OBVIOUS
  <2>2. \A i \in 1 .. Len(orphans) : <<"table", orphans[i]>> \in Job
    BY DEF Job
  <2> HIDE DEF b
  <2>3. b \in Seq(Job)
    BY <2>1, <2>2
  <2> QED
    BY <2>1, <2>3
<1> HIDE DEF a, b
<1>10. jobs \in Seq(Job)
  BY DEF SInv, JobsInv
<1>11. /\ c \in Seq(Job)
       /\ \A i \in DOMAIN c : \/ \E j \in DOMAIN jobs : c[i] = jobs[j]
                              \/ \E j \in DOMAIN a : c[i] = a[j]
  <2>1. a \in Seq(Job) /\ c = jobs \o a
    BY <1>8
  <2>2. OfBoth(jobs \o a, jobs, a)
    BY <1>10, <2>1, FromEither
  <2> QED
    BY <2>2 DEF OfBoth
<1> HIDE DEF c
<1>12. /\ jobs' \in Seq(Job)
       /\ \A i \in DOMAIN jobs' : \/ \E j \in DOMAIN c : jobs'[i] = c[j]
                                  \/ \E j \in DOMAIN b : jobs'[i] = b[j]
  <2>1. b \in Seq(Job) /\ c \in Seq(Job)
    BY <1>9, <1>11
  <2>2. OfBoth(c \o b, c, b)
    BY <2>1, FromEither
  <2> QED
    BY <1>1, <2>2 DEF OfBoth
<1>13. ASSUME NEW i \in DOMAIN jobs'
       PROVE  \/ \E j \in DOMAIN jobs : jobs'[i] = jobs[j]
              \/ jobs'[i][1] = "log" /\ (jobs'[i][2] < min \/ jobs'[i][2] \in w.initial)
              \/ jobs'[i][1] = "table" /\ \E j \in DOMAIN orphans : jobs'[i][2] = orphans[j]
  <2>1. CASE \E j \in DOMAIN b : jobs'[i] = b[j]
    BY <1>9, <2>1
  <2>2. CASE \E k \in DOMAIN c : jobs'[i] = c[k]
    <3>1. PICK k \in DOMAIN c : jobs'[i] = c[k]
      BY <2>2
    <3>2. CASE \E j \in DOMAIN a : c[k] = a[j]
      BY <1>8, <3>1, <3>2
    <3>3. CASE \E j \in DOMAIN jobs : c[k] = jobs[j]
      BY <3>1, <3>3
    <3> QED
      BY <1>11, <3>1, <3>2, <3>3
  <2> QED
    BY <1>12, <2>1, <2>2
<1> QED
  BY <1>7, <1>12, <1>13

\* A flush that fails does not find the logs Open began with: outside recovery
\* they have been handed on.
LEMMA FlushFailsSafe ==
  ASSUME "replayed" \notin FailIn, IInv, SInv, FlushFails
  PROVE  SInv'
<1>1. /\ flush.pc = "run" /\ phase = "open"
      /\ DeleteObsoleteFiles(wal, vs.min, <<>>)
      /\ flush' = [flush EXCEPT !.pc = "end", !.n = 0]
      /\ UNCHANGED <<logs, gone, tables, manifest, queue, phase, nextFile, vs, log, call>>
  BY SizesAssumption DEF FlushFails, disk, mem
<1>2. /\ wal \in WalType /\ vs.min \in Nat /\ manifest.min \in Nat /\ wal.initial = {}
      /\ manifest.min <= manifest.min
  BY <1>1, Fields DEF IInv, TypeOK, ProcType, VersionType, SInv, RecoveryInv
<1>3. vs.min = manifest.min
  BY <1>1 DEF SInv, ManifestInv, Up
<1>4. flush'.pc = "end"
  <2>1. flush \in FlushType
    BY DEF IInv, TypeOK, ProcType
  <2> QED
    BY <1>1, <2>1 DEF FlushType
<1>5. /\ wal'.initial = {} /\ jobs' \in Seq(Job)
      /\ \A i \in DOMAIN wal'.recycler :
           \/ wal'.recycler[i] < vs.min
           \/ \E j \in DOMAIN wal.recycler : wal'.recycler[i] = wal.recycler[j]
      /\ \A i \in DOMAIN jobs' :
           \/ \E j \in DOMAIN jobs : jobs'[i] = jobs[j]
           \/ jobs'[i][1] = "log" /\ jobs'[i][2] < vs.min
  <2>1. PICK w \in WalType, m \in Nat, o \in Seq(Nat) : w = wal /\ m = vs.min /\ o = <<>>
    <3>1. <<>> \in Seq(Nat)
      OBVIOUS
    <3>2. PICK e \in Seq(Nat) : e = <<>>
      BY <3>1
    <3> QED
      BY <1>2, <3>2
  <2>2. DOMAIN o = {} /\ w.initial = {}
    BY <1>2, <2>1
  <2>3. DeleteObsoleteFiles(w, m, o)
    BY <1>1, <2>1
  <2>4. /\ wal'.initial = {} /\ jobs' \in Seq(Job)
        /\ \A i \in DOMAIN wal'.recycler :
             \/ wal'.recycler[i] < m
             \/ \E j \in DOMAIN w.recycler : wal'.recycler[i] = w.recycler[j]
        /\ \A i \in DOMAIN jobs' :
             \/ \E j \in DOMAIN jobs : jobs'[i] = jobs[j]
             \/ jobs'[i][1] = "log" /\ (jobs'[i][2] < m \/ jobs'[i][2] \in w.initial)
             \/ jobs'[i][1] = "table" /\ \E j \in DOMAIN o : jobs'[i][2] = o[j]
    BY <2>3, DeletedFacts
  <2> QED
    BY <2>1, <2>2, <2>4
<1>6. ManifestInv' /\ phase' # "failed"
  BY <1>1, <1>4 DEF SInv, ManifestInv, Up
<1>7. JobsInv'
  <2>1. ASSUME NEW t, Spared(t) PROVE Spared(t)'
    BY <1>1, <1>4, <2>1 DEF Spared
  <2>2. ASSUME NEW i \in DOMAIN jobs'
        PROVE  IF jobs'[i][1] = "log" THEN jobs'[i][2] < manifest'.min ELSE Spared(jobs[i][2])'
    <3>1. CASE \E j \in DOMAIN jobs : jobs'[i] = jobs[j]
      <4>1. PICK j \in DOMAIN jobs : jobs'[i] = jobs[j]
        BY <3>1
      <4> QED
        BY <1>1, <2>1, <4>1 DEF SInv, JobsInv
    <3>2. CASE jobs'[i][1] = "log" /\ jobs'[i][2] < vs.min
      BY <1>1, <1>3, <3>2
    <3> QED
      BY <1>5, <3>1, <3>2
  <2>3. \A i \in DOMAIN wal'.recycler : wal'.recycler[i] < manifest.min
    BY <1>3, <1>5 DEF SInv, JobsInv
  <2> QED
    BY <1>1, <1>5, <2>2, <2>3 DEF SInv, JobsInv
<1>8. RecoveryInv'
  BY <1>1, <1>5 DEF RecoveryInv
<1>9. IngestFree' /\ ClosedInv'
  BY <1>1, <1>2, FlushQuiet
<1> QED
  BY <1>6, <1>7, <1>8, <1>9 DEF SInv

\* The version is installed, and what it makes obsolete handed on.
LEMMA FlushInstallSafe ==
  ASSUME IInv, SInv, FlushInstall
  PROVE  SInv'
<1>1. /\ flush.pc = "install" /\ vs' = [min |-> flush.min, tables |-> Flushed]
      /\ queue' = SubSeq(queue, flush.n + 1, Len(queue))
      /\ DeleteObsoleteFiles(wal, flush.min, <<>>)
      /\ flush' = [flush EXCEPT !.pc = "end", !.n = 0]
      /\ UNCHANGED <<logs, gone, tables, manifest, phase, nextFile, log, call>>
  BY DEF FlushInstall, disk
<1>2. phase \in {"open", "replayed"}
  BY <1>1 DEF IInv, PhaseInv
<1>s. /\ queue \in Seq(QEntry) /\ wal \in WalType /\ flush.min \in Nat /\ manifest.min \in Nat
      /\ Len(queue) \in Nat /\ DOMAIN queue = 1 .. Len(queue)
  BY Fields DEF IInv, TypeOK, MemType
<1>3. /\ manifest.min = flush.min /\ manifest.tables = Flushed
      /\ vs'.min = flush.min /\ vs'.tables = Flushed
  BY <1>1, <1>2 DEF SInv, ManifestInv, Up
<1>4. flush'.pc = "end"
  <2>1. flush \in FlushType
    BY DEF IInv, TypeOK, ProcType
  <2> QED
    BY <1>1, <2>1 DEF FlushType
<1>5. flush.n \in 1 .. Len(queue) - 1 /\ flush.min = queue[flush.n + 1].logNum
  BY <1>1 DEF IInv, FlushInv
<1>6. Suffix(queue', flush.n)
  BY <1>1, <1>s, <1>5, SuffixFacts
<1>7. /\ wal'.initial = {} /\ jobs' \in Seq(Job)
      /\ \A i \in DOMAIN wal'.recycler :
           \/ wal'.recycler[i] < flush.min
           \/ \E j \in DOMAIN wal.recycler : wal'.recycler[i] = wal.recycler[j]
      /\ \A i \in DOMAIN jobs' :
           \/ \E j \in DOMAIN jobs : jobs'[i] = jobs[j]
           \/ jobs'[i][1] = "log" /\ (jobs'[i][2] < flush.min \/ jobs'[i][2] \in wal.initial)
  <2>1. PICK w \in WalType, m \in Nat, o \in Seq(Nat) : w = wal /\ m = flush.min /\ o = <<>>
    <3>1. <<>> \in Seq(Nat)
      OBVIOUS
    <3>2. PICK e \in Seq(Nat) : e = <<>>
      BY <3>1
    <3> QED
      BY <1>s, <3>2
  <2>2. DOMAIN o = {}
    BY <2>1
  <2>3. DeleteObsoleteFiles(w, m, o)
    BY <1>1, <2>1
  <2>4. /\ wal'.initial = {} /\ jobs' \in Seq(Job)
        /\ \A i \in DOMAIN wal'.recycler :
             \/ wal'.recycler[i] < m
             \/ \E j \in DOMAIN w.recycler : wal'.recycler[i] = w.recycler[j]
        /\ \A i \in DOMAIN jobs' :
             \/ \E j \in DOMAIN jobs : jobs'[i] = jobs[j]
             \/ jobs'[i][1] = "log" /\ (jobs'[i][2] < m \/ jobs'[i][2] \in w.initial)
             \/ jobs'[i][1] = "table" /\ \E j \in DOMAIN o : jobs'[i][2] = o[j]
    BY <2>3, DeletedFacts
  <2> QED
    BY <2>1, <2>2, <2>4
<1>8. phase = "replayed" => /\ Len(queue') = 1
                            /\ \A l \in wal.initial \cup DOMAIN logs : l < flush.min
  <2> SUFFICES ASSUME phase = "replayed"
               PROVE  Len(queue') = 1 /\ \A l \in wal.initial \cup DOMAIN logs : l < flush.min
    OBVIOUS
  <2>1. flush.n = Len(queue) - 1
    BY <1>1 DEF SInv, RecoveryInv
  <2>2. Len(queue) > 1 /\ flush.n + 1 = Len(queue) /\ Len(queue) - flush.n = 1
    BY <1>s, <1>5, <2>1
  <2>3. Len(queue') = 1
    BY <1>6, <2>2 DEF Suffix
  <2>4. call.pc # "open"
    BY <1>1 DEF IInv, PhaseInv
  <2>5. \A l \in wal.initial \cup DOMAIN logs : Old(l)
    BY <2>4 DEF SInv, RecoveryInv
  <2> QED
    BY <1>5, <2>2, <2>3, <2>5 DEF Old
<1>9. phase = "open" => wal.initial = {}
  BY DEF SInv, RecoveryInv
<1>10. ManifestInv' /\ phase' # "failed"
  BY <1>1, <1>3, <1>4 DEF SInv, ManifestInv
<1>11. JobsInv'
  <2>1. ASSUME NEW t, Spared(t) PROVE Spared(t)'
    BY <1>1, <1>4, <2>1 DEF Spared
  <2>2. ASSUME NEW i \in DOMAIN jobs'
        PROVE  IF jobs'[i][1] = "log" THEN jobs'[i][2] < manifest'.min ELSE Spared(jobs[i][2])'
    <3>1. CASE \E j \in DOMAIN jobs : jobs'[i] = jobs[j]
      <4>1. PICK j \in DOMAIN jobs : jobs'[i] = jobs[j]
        BY <3>1
      <4> QED
        BY <1>1, <2>1, <4>1 DEF SInv, JobsInv
    <3>2. CASE jobs'[i][1] = "log" /\ (jobs'[i][2] < flush.min \/ jobs'[i][2] \in wal.initial)
      BY <1>1, <1>2, <1>3, <1>8, <1>9, <3>2
    <3> QED
      BY <1>7, <3>1, <3>2
  <2>3. \A i \in DOMAIN wal'.recycler : wal'.recycler[i] < manifest.min
    BY <1>3, <1>7 DEF SInv, JobsInv
  <2> QED
    BY <1>1, <1>7, <2>2, <2>3 DEF SInv, JobsInv
<1>12. RecoveryInv'
  <2>2. ~(1 > 1)
    OBVIOUS
  <2>1. phase = "replayed" => \A l \in DOMAIN logs' : Old(l)'
    <3> SUFFICES ASSUME phase = "replayed", NEW l \in DOMAIN logs' PROVE Old(l)'
      OBVIOUS
    <3>1. l < vs'.min /\ ~(Len(queue') > 1)
      BY <1>1, <1>3, <1>8, <2>2
    <3> QED
      BY <3>1 DEF Old
  <2> QED
    BY <1>1, <1>2, <1>4, <1>7, <1>8, <2>1, <2>2 DEF RecoveryInv
<1>13. IngestFree'
  <2>1. \A i \in DOMAIN queue : queue[i].kind # "ingest"
    BY DEF SInv, IngestFree
  <2>2. \A i \in DOMAIN queue' : queue'[i].kind # "ingest"
    BY <1>6, <1>s, <2>1 DEF Suffix
  <2> QED
    BY <1>1, <2>2 DEF SInv, IngestFree, NoIngest
<1>14. ClosedInv'
  BY <1>1 DEF SInv, ClosedInv, Unclosed
<1> QED
  BY <1>10, <1>11, <1>12, <1>13, <1>14 DEF SInv

(***************************************************************************)
(* A crash, and the steps of Open.                                         *)
(***************************************************************************)
\* A log that a crash leaves was there or comes back, and it lost only
\* records.
LEMMA LeftByCrash ==
  ASSUME IInv, SInv, Crash, NEW l \in DOMAIN logs'
  PROVE  /\ NoIngest(logs'[l].recs)
         /\ l \in DOMAIN gone \/ (l \in DOMAIN logs /\ logs'[l].closed = logs[l].closed)
<1>1. PICK lost \in SUBSET (IF call.pc = "open" THEN {call.new} ELSE {}),
           back \in SUBSET DOMAIN gone :
        LET left == Joined(Without(logs, lost), [k \in back |-> gone[k]]) IN
        \E keep \in [DOMAIN left -> 0 .. MaxCalls] :
          /\ \A k \in DOMAIN left : keep[k] \in left[k].synced .. Len(left[k].recs)
          /\ logs' = [k \in DOMAIN left |-> [left[k] EXCEPT !.recs = SubSeq(@, 1, keep[k])]]
  BY DEF Crash
<1> DEFINE again == [k \in back |-> gone[k]]
           left == Joined(Without(logs, lost), again)
<1>2. PICK keep :
        /\ \A k \in DOMAIN left : keep[k] \in left[k].synced .. Len(left[k].recs)
        /\ logs' = [k \in DOMAIN left |-> [left[k] EXCEPT !.recs = SubSeq(@, 1, keep[k])]]
  BY <1>1
<1>3. l \in DOMAIN left
  BY <1>2
<1>4. \/ l \in DOMAIN logs /\ left[l] = logs[l]
      \/ l \in DOMAIN gone /\ left[l] = gone[l]
  BY <1>3 DEF Joined, Without
<1> HIDE DEF left
<1>5. left[l] \in LogFile /\ AloneInLog(left[l].recs) /\ NoIngest(left[l].recs)
  <2>1. /\ \A k \in DOMAIN logs : logs[k] \in LogFile /\ AloneInLog(logs[k].recs)
        /\ \A k \in DOMAIN gone : gone[k] \in LogFile /\ AloneInLog(gone[k].recs)
    BY DEF IInv, TypeOK, DiskType, LogsInv
  <2>2. /\ \A k \in DOMAIN logs : NoIngest(logs[k].recs)
        /\ \A k \in DOMAIN gone : NoIngest(gone[k].recs)
    BY DEF SInv, IngestFree
  <2> QED
    BY <1>4, <2>1, <2>2
<1>6. PICK e \in LogFile : e = left[l]
  BY <1>5
<1>7. PICK k \in e.synced .. Len(e.recs) : k = keep[l]
  BY <1>2, <1>3, <1>6
<1>8. PICK x : x = logs'[l]
  OBVIOUS
<1>9. x = Cut(e, k)
  BY <1>2, <1>3, <1>6, <1>7, <1>8 DEF Cut
<1>10. AloneInLog(e.recs) /\ NoIngest(e.recs)
  BY <1>5, <1>6
<1>11. x.closed = e.closed /\ NoIngest(x.recs)
  <2>1. /\ x \in LogFile /\ AloneInLog(x.recs) /\ x.closed = e.closed
        /\ NoIngest(e.recs) => NoIngest(x.recs)
    BY <1>9, <1>10, CutLog
  <2> QED
    BY <1>10, <2>1
<1> QED
  BY <1>4, <1>6, <1>8, <1>11

\* The process crashes.
LEMMA CrashSafe ==
  ASSUME IInv, SInv, Crash
  PROVE  SInv'
<1>1. /\ phase' = "down" /\ gone' = <<>> /\ queue' = <<>> /\ call' = Idle /\ jobs' = <<>>
      /\ wal' = [queue |-> <<>>, recycler |-> <<>>, maxLog |-> 0, minRecycle |-> 0,
                 initial |-> {}, delete |-> <<>>]
      /\ UNCHANGED <<tables, manifest>>
  BY DEF Crash
<1>2. DOMAIN gone' = {} /\ DOMAIN queue' = {} /\ DOMAIN jobs' = {} /\ DOMAIN wal'.recycler = {}
  BY <1>1
<1>3. \A l \in DOMAIN logs' :
        /\ NoIngest(logs'[l].recs)
        /\ l \in DOMAIN gone \/ (l \in DOMAIN logs /\ logs'[l].closed = logs[l].closed)
  BY LeftByCrash
<1>4. IngestFree'
  <2>1. call'.kind = "none"
    BY <1>1, CallFields
  <2> QED
    BY <1>2, <1>3, <2>1 DEF IngestFree, NoIngest
<1>5. ManifestInv' /\ RecoveryInv'
  BY <1>1 DEF SInv, ManifestInv, RecoveryInv, Up
<1>6. JobsInv'
  <2>1. <<>> \in Seq(Job)
    OBVIOUS
  <2> QED
    BY <1>1, <1>2, <2>1 DEF JobsInv
<1>7. ClosedInv'
  <2>1. manifest.min \in Nat /\ DOMAIN gone \subseteq Nat /\ DOMAIN logs \subseteq Nat
    BY Fields, UsedNat DEF IInv
  <2>2. \A l \in DOMAIN gone : l < manifest.min
    BY DEF SInv, JobsInv
  <2>3. ASSUME NEW l \in DOMAIN logs', Unclosed(l)', NEW k \in DOMAIN logs' PROVE k <= l
    <3>1. l >= manifest.min
      BY <1>1, <2>3 DEF Unclosed
    <3>2. l \notin DOMAIN gone
      BY <2>1, <2>2, <3>1
    <3>3. l \in DOMAIN logs /\ Unclosed(l)
      BY <1>1, <1>3, <2>3, <3>1, <3>2 DEF Unclosed
    <3>4. CASE k \in DOMAIN logs
      BY <3>3, <3>4 DEF SInv, ClosedInv
    <3>5. CASE k \in DOMAIN gone
      BY <2>1, <2>2, <3>1, <3>3, <3>5
    <3> QED
      BY <1>3, <3>4, <3>5
  <2> QED
    BY <1>1, <2>3 DEF ClosedInv
<1> QED
  BY <1>1, <1>4, <1>5, <1>6, <1>7 DEF SInv

\* The manifest is loaded: its tables are there.
LEMMA LoadSafe ==
  ASSUME IInv, SInv, Load
  PROVE  SInv'
<1>1. /\ phase = "down" /\ phase' = "replaying"
      /\ queue' = <<NewMemTable(0, manifest.last + 1, InitialSize)>>
      /\ vs' = [min |-> manifest.min, tables |-> manifest.tables]
      /\ \E m : wal' = [wal EXCEPT !.initial = DOMAIN logs, !.minRecycle = m]
      /\ UNCHANGED <<logs, gone, tables, manifest, log, call, flush, jobs>>
  BY DEF Load, disk, SInv, ManifestInv
<1>2. log = 0 /\ flush.pc = "idle" /\ jobs = <<>> /\ call.pc = "idle"
  BY <1>1 DEF IInv, PhaseInv
<1>3. wal'.initial = DOMAIN logs /\ wal'.recycler = wal.recycler
  <2>1. wal \in WalType
    BY DEF IInv, TypeOK
  <2> QED
    BY <1>1, <2>1 DEF WalType
<1>4. \A i \in DOMAIN queue' : queue'[i].kind # "ingest"
  <2>1. PICK e : e = NewMemTable(0, manifest.last + 1, InitialSize)
    OBVIOUS
  <2>2. e.kind = "mem"
    BY <2>1 DEF NewMemTable, Entry
  <2>3. queue' = <<e>>
    BY <1>1, <2>1
  <2> QED
    BY <2>2, <2>3
<1>5. IngestFree'
  BY <1>1, <1>4 DEF SInv, IngestFree, NoIngest
<1>6. ManifestInv'
  BY <1>1, <1>2 DEF SInv, ManifestInv
<1>7. JobsInv'
  <2>1. DOMAIN jobs' = {}
    BY <1>1, <1>2
  <2> QED
    BY <1>1, <1>3, <2>1 DEF SInv, JobsInv
<1>8. RecoveryInv'
  BY <1>1, <1>2, <1>3 DEF RecoveryInv
<1>9. ClosedInv'
  BY <1>1 DEF SInv, ClosedInv, Unclosed
<1> QED
  BY <1>1, <1>5, <1>6, <1>7, <1>8, <1>9 DEF SInv

\* The next log can be read to its end: it was closed, or it is the last.
LEMMA NextReplayable ==
  ASSUME IInv, SInv, Unreplayed # {}, NEW l, l = Min(Unreplayed)
  PROVE  l \in Unreplayed /\ Replayable(l)
<1>1. Unreplayed \subseteq Nat
  BY UsedNat DEF IInv, Unreplayed
<1>2. l \in Unreplayed /\ \A k \in Unreplayed : l <= k
  BY <1>1, MinFacts
<1>3. l \in DOMAIN logs /\ l >= manifest.min /\ Unreplayed \subseteq DOMAIN logs
  BY <1>2 DEF Unreplayed
<1>4. ASSUME ~logs[l].closed PROVE Unreplayed = {l}
  <2>1. \A k \in DOMAIN logs : k <= l
    BY <1>3, <1>4 DEF SInv, ClosedInv, Unclosed
  <2>2. \A k \in Unreplayed : k = l
    <3> SUFFICES ASSUME NEW k \in Unreplayed PROVE k = l
      OBVIOUS
    <3>1. k \in Nat /\ l \in Nat /\ k <= l /\ l <= k
      BY <1>1, <1>2, <1>3, <2>1
    <3> QED
      BY <3>1
  <2> QED
    BY <1>2, <2>2
<1>5. \A r \in Range(Readable(l)) : r.kind # "ingest"
  <2>1. logs[l] \in LogFile /\ AloneInLog(logs[l].recs) /\ NoIngest(logs[l].recs)
    BY <1>3 DEF IInv, TypeOK, DiskType, LogsInv, SInv, IngestFree
  <2>2. Readable(l) = logs[l].recs
    BY <2>1, ReadableFacts
  <2> QED
    BY <2>1, <2>2 DEF NoIngest, Range
<1> QED
  BY <1>2, <1>4, <1>5 DEF Replayable

\* A log is replayed.
LEMMA ReplayWALSafe ==
  ASSUME IInv, SInv, ReplayWAL
  PROVE  SInv'
<1> DEFINE l == Min(Unreplayed)
           before == IF log > 0 THEN queue
                     ELSE [queue EXCEPT ![1].refs = 0, ![1].forced = TRUE]
           E == Entries(l)
<1>1. /\ phase = "replaying" /\ Unreplayed # {}
      /\ phase' = IF Replayable(l) THEN phase ELSE "failed"
      /\ queue' = before \o E /\ log' = l
      /\ UNCHANGED <<logs, gone, tables, manifest, vs, call, flush, wal, jobs>>
  BY DEF ReplayWAL, disk
<1>2. l \in Unreplayed /\ Replayable(l)
  BY <1>1, NextReplayable
<1>3. l \in DOMAIN logs /\ l \in Nat /\ phase' = "replaying"
  <2>1. DOMAIN logs \subseteq Nat
    BY UsedNat DEF IInv
  <2> QED
    BY <1>1, <1>2, <2>1 DEF Unreplayed
<1> HIDE DEF l
<1>4. jobs = <<>> /\ Len(queue) >= 1 /\ queue \in Seq(QEntry) /\ Len(queue) \in Nat
      /\ log \in Nat
  <2>1. jobs = <<>> /\ Len(queue) >= 1
    BY <1>1 DEF IInv, PhaseInv, Up
  <2>2. queue \in Seq(QEntry) /\ Len(queue) \in Nat /\ log \in Nat
    BY Fields DEF IInv, TypeOK, MemType
  <2> QED
    BY <2>1, <2>2
<1>5. /\ before \in Seq(QEntry) /\ Len(before) >= 1 /\ before[1].forced
      /\ \A i \in 1 .. Len(before) : before[i].kind # "ingest"
  <2>1. CASE log > 0
    BY <1>1, <1>4, <2>1 DEF SInv, RecoveryInv, IngestFree
  <2>2. CASE ~(log > 0)
    <3>1. 1 \in 1 .. Len(queue)
      BY <1>4
    <3>2. PICK e \in QEntry : e = queue[1]
      BY <1>4, <3>1
    <3>3. PICK x : x = [e EXCEPT !.refs = 0, !.forced = TRUE]
      OBVIOUS
    <3>4. x \in QEntry /\ x.kind = e.kind /\ x.forced
      BY <3>3 DEF QEntry
    <3>5. before = [queue EXCEPT ![1] = x]
      BY <2>2, <3>2, <3>3
    <3> HIDE DEF before
    <3>6. Put(before, queue, 1, x)
      BY <1>4, <3>1, <3>4, <3>5, PutFacts
    <3>7. \A i \in 1 .. Len(queue) : queue[i].kind # "ingest"
      BY <1>4 DEF SInv, IngestFree
    <3> QED
      BY <1>4, <3>1, <3>2, <3>4, <3>6, <3>7 DEF Put
  <2> QED
    BY <2>1, <2>2
<1> HIDE DEF before
<1>6. E \in Seq(QEntry) /\ \A i \in 1 .. Len(E) : E[i].kind # "ingest"
  <2>1. logs[l] \in LogFile /\ AloneInLog(logs[l].recs) /\ NoIngest(logs[l].recs)
    BY <1>3 DEF IInv, TypeOK, DiskType, LogsInv, SInv, IngestFree
  <2>2. GoodEntries(E, l)
    BY <1>3, <2>1, EntriesFacts
  <2> HIDE DEF E
  <2> QED
    BY <2>1, <2>2 DEF GoodEntries
<1> HIDE DEF E
<1>7. queue'[1].forced /\ \A i \in DOMAIN queue' : queue'[i].kind # "ingest"
  <2>1. PICK m \in Nat, n \in Nat : m = Len(before) /\ n = Len(E)
    BY <1>5, <1>6
  <2>2. /\ queue' \in Seq(QEntry) /\ Len(queue') = m + n
        /\ \A i \in 1 .. m + n : queue'[i] = IF i <= m THEN before[i] ELSE E[i - m]
    BY <1>1, <1>5, <1>6, <2>1, ConcatProperties
  <2>3. DOMAIN queue' = 1 .. m + n
    BY <2>2
  <2>4. 1 \in 1 .. m + n /\ 1 <= m
    BY <1>5, <2>1
  <2>5. \A i \in 1 .. m + n : IF i <= m THEN i \in 1 .. m ELSE i - m \in 1 .. n
    BY <2>1
  <2>6. ASSUME NEW i \in 1 .. m + n PROVE queue'[i].kind # "ingest"
    BY <1>5, <1>6, <2>1, <2>2, <2>5
  <2> QED
    BY <1>5, <2>2, <2>3, <2>4, <2>6
<1>8. IngestFree'
  BY <1>1, <1>7 DEF SInv, IngestFree, NoIngest
<1>9. ManifestInv'
  BY <1>1, <1>3 DEF SInv, ManifestInv, Up, Flushed
<1>10. JobsInv'
  <2>1. DOMAIN jobs' = {}
    BY <1>1, <1>4
  <2> QED
    BY <1>1, <2>1 DEF SInv, JobsInv
<1>11. RecoveryInv'
  BY <1>1, <1>3, <1>7 DEF SInv, RecoveryInv
<1>12. ClosedInv'
  BY <1>1, <1>3 DEF SInv, ClosedInv, Unclosed
<1> QED
  BY <1>3, <1>8, <1>9, <1>10, <1>11, <1>12 DEF SInv

\* All logs are replayed, and what was replayed is to be flushed.
LEMMA EndReplaySafe ==
  ASSUME IInv, SInv, EndReplay
  PROVE  SInv'
<1>1. /\ phase = "replaying" /\ phase' = "replayed" /\ Unreplayed = {}
      /\ UNCHANGED <<logs, gone, tables, manifest, vs, log, call, wal, jobs>>
      /\ log = 0 => UNCHANGED <<queue, nextFile, flush>>
      /\ log # 0 => /\ queue' = Append(queue, NewMemTable(nextFile, seq + 1, nextSize))
                    /\ flush' = MaybeScheduleFlush(queue')
  BY DEF EndReplay, disk
<1>s. /\ queue \in Seq(QEntry) /\ Len(queue) \in Nat /\ log \in Nat /\ seq \in Nat
      /\ nextSize \in Nat /\ nextFile \in Nat /\ DOMAIN logs \subseteq Nat
      /\ manifest.min \in Nat /\ DOMAIN queue = 1 .. Len(queue)
  BY Fields, UsedNat DEF IInv, TypeOK, MemType
<1>d. /\ jobs = <<>> /\ flush.pc = "idle" /\ Len(queue) >= 1 /\ call.pc = "idle"
      /\ vs.min = manifest.min /\ wal.initial \subseteq DOMAIN logs
  BY <1>1 DEF IInv, PhaseInv, ReplayInv, Up, SInv, RecoveryInv
<1>2. \A i \in DOMAIN queue : queue[i].kind # "ingest"
  BY DEF SInv, IngestFree
<1>3. /\ \A i \in DOMAIN queue' : queue'[i].kind # "ingest"
      /\ flush'.pc \in {"idle", "begin"} /\ \A l \in DOMAIN logs : Old(l)'
      /\ Len(queue') > 1 => queue'[1].forced /\ flush'.pc # "idle"
  <2>1. CASE log = 0
    <3>1. queue' = queue /\ flush' = flush /\ Len(queue) = 1
      BY <1>1, <2>1 DEF IInv, ReplayInv
    <3>2. ASSUME NEW l \in DOMAIN logs PROVE l < vs.min
      <4>1. ~(l >= manifest.min /\ l > 0)
        BY <1>1, <2>1 DEF Unreplayed
      <4>2. manifest.min >= 1
        BY DEF SInv, ManifestInv
      <4>3. l \in Nat
        BY <1>s
      <4> QED
        BY <1>s, <1>d, <4>1, <4>2, <4>3
    <3>3. ~(Len(queue') > 1)
      BY <3>1
    <3>4. \A l \in DOMAIN logs : Old(l)'
      BY <1>1, <3>2, <3>3 DEF Old
    <3> QED
      BY <1>2, <1>d, <3>1, <3>3, <3>4
  <2>2. CASE log # 0
    <3>1. PICK x : x = NewMemTable(nextFile, seq + 1, nextSize)
      OBVIOUS
    <3>2. x \in QEntry /\ x.kind = "mem" /\ x.logNum = nextFile
      <4>1. PICK s \in Nat : s = seq + 1
        BY <1>s
      <4>2. /\ NewMemTable(nextFile, s, nextSize) \in QEntry
            /\ NewMemTable(nextFile, s, nextSize).kind = "mem"
            /\ NewMemTable(nextFile, s, nextSize).logNum = nextFile
        BY <1>s, NewMemTableFacts
      <4> QED
        BY <3>1, <4>1, <4>2
    <3>3. PICK L \in Nat : L = Len(queue)
      BY <1>s
    <3>4. /\ queue' \in Seq(QEntry) /\ Len(queue') = L + 1 /\ queue'[L + 1] = x
          /\ \A i \in 1 .. L : queue'[i] = queue[i]
      BY <1>1, <1>s, <2>2, <3>1, <3>2, <3>3, AppendProperties
    <3>5. DOMAIN queue' = 1 .. L + 1 /\ L >= 1 /\ L + 1 > 1 /\ 1 \in 1 .. L /\ (L + 1) - 1 = L
      BY <1>d, <3>3, <3>4
    <3>6. \A i \in DOMAIN queue' : queue'[i].kind # "ingest"
      <4>1. \A i \in 1 .. L + 1 : i \in 1 .. L \/ i = L + 1
        BY <3>3
      <4> QED
        BY <1>2, <1>s, <3>2, <3>3, <3>4, <3>5, <4>1
    <3>7. queue'[1].forced
      <4>1. queue[1].forced
        BY <1>1, <1>s, <2>2 DEF SInv, RecoveryInv
      <4> QED
        BY <3>4, <3>5, <4>1
    <3>8. \A i \in 1 .. L : ReadyForFlush(queue'[i])
      <4>1. \A i \in DOMAIN queue : ReadyForFlush(queue[i])
        BY <1>1, <1>s, <2>2 DEF IInv, ReplayInv
      <4> QED
        BY <1>s, <3>3, <3>4, <4>1
    <3>9. PassedFlushThreshold(queue')
      <4>1. PICK q \in Seq(QEntry) : q = queue'
        BY <3>4
      <4>2. Len(q) > 1 /\ q[1].forced /\ \A i \in 1 .. Len(q) - 1 : ReadyForFlush(q[i])
        BY <3>4, <3>5, <3>7, <3>8, <4>1
      <4>3. PassedFlushThreshold(q)
        BY <4>2, ForcedPasses
      <4> QED
        BY <4>1, <4>3
    <3>10. flush'.pc = "begin"
      <4>1. flush' = [flush EXCEPT !.pc = "begin"]
        BY <1>1, <1>d, <2>2, <3>4, <3>5, <3>9 DEF MaybeScheduleFlush
      <4>2. flush \in FlushType
        BY DEF IInv, TypeOK, ProcType
      <4> QED
        BY <4>1, <4>2 DEF FlushType
    <3>11. \A l \in DOMAIN logs : Old(l)'
      <4>1. \A l \in DOMAIN logs : l < nextFile
        BY <1>1 DEF IInv, Numbers, Up
      <4>2. Len(queue') > 1 /\ queue'[Len(queue')].logNum = nextFile
        BY <3>2, <3>4, <3>5
      <4> QED
        BY <4>1, <4>2 DEF Old
    <3> QED
      BY <3>6, <3>7, <3>10, <3>11
  <2> QED
    BY <2>1, <2>2
<1>4. IngestFree'
  BY <1>1, <1>3 DEF SInv, IngestFree, NoIngest
<1>5. ManifestInv'
  BY <1>1, <1>d, <1>3 DEF SInv, ManifestInv, Up
<1>6. JobsInv'
  <2>1. DOMAIN jobs' = {}
    BY <1>1, <1>d
  <2> QED
    BY <1>1, <2>1 DEF SInv, JobsInv
<1>7. RecoveryInv'
  BY <1>1, <1>d, <1>3 DEF RecoveryInv
<1>8. ClosedInv'
  BY <1>1 DEF SInv, ClosedInv, Unclosed
<1> QED
  BY <1>1, <1>4, <1>5, <1>6, <1>7, <1>8 DEF SInv

\* Open goes on to make a log.
LEMMA OpenCreateLogSafe ==
  ASSUME IInv, SInv, OpenCreateLog
  PROVE  SInv'
<1>1. /\ phase = "replayed" /\ flush.pc = "idle" /\ call.pc = "idle"
      /\ call' = [Idle EXCEPT !.pc = "create", !.kind = "open", !.new = nextFile]
      /\ nextFile' = nextFile + 1
      /\ UNCHANGED <<logs, gone, tables, manifest, queue, phase, vs, log, flush, wal, jobs>>
  BY DEF OpenCreateLog, disk, mem
<1>2. call'.pc = "create" /\ call'.kind = "open"
  BY <1>1 DEF Idle
<1>3. IngestFree'
  BY <1>1, <1>2 DEF SInv, IngestFree, NoIngest
<1>4. ManifestInv' /\ phase' # "failed"
  BY <1>1 DEF SInv, ManifestInv, Up
<1>5. JobsInv'
  <2>1. nextFile \in Nat
    BY Fields DEF IInv
  <2>2. ASSUME NEW t \in Nat, Spared(t) PROVE Spared(t)'
    BY <1>1, <2>1, <2>2 DEF Spared
  <2>3. \A i \in DOMAIN jobs : jobs[i][2] \in Nat
    BY DEF SInv, JobsInv, Job
  <2>4. \A i \in DOMAIN jobs :
          IF jobs[i][1] = "log" THEN jobs[i][2] < manifest.min ELSE Spared(jobs[i][2])'
    BY <1>1, <2>2, <2>3 DEF SInv, JobsInv
  <2> QED
    BY <1>1, <2>4 DEF SInv, JobsInv
<1>6. RecoveryInv'
  BY <1>1, <1>2 DEF SInv, RecoveryInv, Old
<1>7. ClosedInv'
  BY <1>1 DEF SInv, ClosedInv, Unclosed
<1> QED
  BY <1>3, <1>4, <1>5, <1>6, <1>7 DEF SInv

\* Open returns: what is deleted now is older than the minimum, or a table of
\* no version.
LEMMA OpenReturnsSafe ==
  ASSUME IInv, SInv, OpenReturns
  PROVE  SInv'
<1> DEFINE live == vs.tables \cup {e.file : e \in Range(queue)}
           orphans == Sorted(DOMAIN tables \ live)
<1>1. /\ call.pc = "open" /\ gone' = <<>> /\ log' = call.new /\ call.kind = "open"
      /\ phase' = "open" /\ queue' = [queue EXCEPT ![Len(queue)].logNum = call.new]
      /\ flush' = MaybeScheduleFlush(queue)
      /\ DeleteObsoleteFiles(Opened, vs.min, orphans) /\ call' = Idle
      /\ UNCHANGED <<logs, tables, manifest, nextFile, vs>>
  BY DEF OpenReturns, OpenLog
<1>s. /\ TypeOK /\ queue \in Seq(QEntry) /\ Len(queue) \in Nat /\ DOMAIN queue = 1 .. Len(queue)
      /\ vs.min \in Nat /\ call.new \in Nat /\ DOMAIN logs \subseteq Nat
      /\ \A i \in 1 .. Len(queue) : queue[i] \in QEntry
  BY Fields, UsedNat DEF IInv, TypeOK, MemType
<1>d. phase = "replayed" /\ flush.pc = "idle" /\ Len(queue) >= 1
  BY <1>1 DEF IInv, PhaseInv, Up
<1>2. ~(Len(queue) > 1) /\ flush' = flush
  BY <1>1, <1>d DEF SInv, RecoveryInv, MaybeScheduleFlush
<1>3. manifest.min = vs.min /\ manifest.tables = vs.tables
  BY <1>d DEF SInv, ManifestInv, Up
<1>4. /\ \A l \in wal.initial : l < vs.min
      /\ \A l \in DOMAIN logs : l < vs.min \/ l = call.new
  BY <1>d, <1>2 DEF SInv, RecoveryInv, Old
<1>5. /\ orphans \in Seq(Nat)
      /\ \A i \in DOMAIN orphans : orphans[i] \in DOMAIN tables \ live
  <2> DEFINE S == DOMAIN tables \ live
  <2>1. DOMAIN tables \in FinSets
    BY <1>s DEF TypeOK, DiskType
  <2>2. S \in FinSets
    <3>1. S \subseteq DOMAIN tables
      OBVIOUS
    <3> HIDE DEF S
    <3> QED
      BY <2>1, <3>1, FinParts
  <2> HIDE DEF S
  <2>3. Cardinality(S) \in Nat /\ Sorted(S) \in [1 .. Cardinality(S) -> S] /\ Sorted(S) \in Seq(Nat)
    BY <2>2, SortedFacts
  <2>4. \A i \in DOMAIN Sorted(S) : Sorted(S)[i] \in S
    BY <2>3
  <2> QED
    BY <2>3, <2>4 DEF S
<1> HIDE DEF orphans
<1>6. /\ Opened \in WalType /\ Opened.initial = wal.initial
      /\ \A i \in DOMAIN Opened.recycler : Opened.recycler[i] < manifest.min
  BY <1>1, OpenedType, OpenedRecycler
<1>7. /\ wal'.initial = {} /\ jobs' \in Seq(Job)
      /\ \A i \in DOMAIN wal'.recycler :
           \/ wal'.recycler[i] < vs.min
           \/ \E j \in DOMAIN Opened.recycler : wal'.recycler[i] = Opened.recycler[j]
      /\ \A i \in DOMAIN jobs' :
           \/ \E j \in DOMAIN jobs : jobs'[i] = jobs[j]
           \/ jobs'[i][1] = "log" /\ (jobs'[i][2] < vs.min \/ jobs'[i][2] \in Opened.initial)
           \/ jobs'[i][1] = "table" /\ \E j \in DOMAIN orphans : jobs'[i][2] = orphans[j]
  <2>1. PICK w \in WalType, m \in Nat, o \in Seq(Nat) : w = Opened /\ m = vs.min /\ o = orphans
    BY <1>s, <1>5, <1>6
  <2>2. DeleteObsoleteFiles(w, m, o)
    BY <1>1, <2>1
  <2>3. /\ wal'.initial = {} /\ jobs' \in Seq(Job)
        /\ \A i \in DOMAIN wal'.recycler :
             \/ wal'.recycler[i] < m
             \/ \E j \in DOMAIN w.recycler : wal'.recycler[i] = w.recycler[j]
        /\ \A i \in DOMAIN jobs' :
             \/ \E j \in DOMAIN jobs : jobs'[i] = jobs[j]
             \/ jobs'[i][1] = "log" /\ (jobs'[i][2] < m \/ jobs'[i][2] \in w.initial)
             \/ jobs'[i][1] = "table" /\ \E j \in DOMAIN o : jobs'[i][2] = o[j]
    BY <2>2, DeletedFacts
  <2> QED
    BY <2>1, <2>3
<1>8. IngestFree'
  <2> SUFFICES \A i \in DOMAIN queue' : queue'[i].kind # "ingest"
    <3>1. call'.kind = "none" /\ DOMAIN gone' = {}
      BY <1>1, CallFields, NoneGone
    <3> QED
      BY <1>1, <3>1 DEF SInv, IngestFree, NoIngest
  <2> SUFFICES ASSUME NEW i \in DOMAIN queue' PROVE queue'[i].kind # "ingest"
    OBVIOUS
  <2>1. i \in DOMAIN queue
    BY <1>1
  <2>2. PICK e \in QEntry : e = queue[i]
    BY <1>s, <2>1
  <2>3. queue'[i] = e \/ \E r : queue'[i] = [e EXCEPT !.logNum = r]
    BY <1>1, <2>1, <2>2
  <2>4. queue'[i].kind = e.kind
    BY <2>2, <2>3 DEF QEntry
  <2> QED
    BY <2>1, <2>2, <2>4 DEF SInv, IngestFree
<1>9. ManifestInv'
  BY <1>1, <1>2, <1>3, <1>d DEF SInv, ManifestInv
<1>10. JobsInv'
  <2>1. ASSUME NEW t, Spared(t) PROVE Spared(t)'
    BY <1>1, <1>2, <1>d, <2>1 DEF Spared
  <2>2. ASSUME NEW t \in DOMAIN tables \ live PROVE Spared(t)'
    <3>1. t < nextFile
      BY <1>d DEF IInv, Numbers, Up
    <3> QED
      BY <1>1, <1>2, <1>3, <1>d, <3>1 DEF Spared
  <2> HIDE DEF live
  <2>3. ASSUME NEW i \in DOMAIN jobs'
        PROVE  IF jobs'[i][1] = "log" THEN jobs'[i][2] < manifest'.min ELSE Spared(jobs[i][2])'
    <3>1. CASE \E j \in DOMAIN jobs : jobs'[i] = jobs[j]
      <4>1. PICK j \in DOMAIN jobs : jobs'[i] = jobs[j]
        BY <3>1
      <4> QED
        BY <1>1, <2>1, <4>1 DEF SInv, JobsInv
    <3>2. CASE jobs'[i][1] = "log" /\ (jobs'[i][2] < vs.min \/ jobs'[i][2] \in Opened.initial)
      BY <1>1, <1>3, <1>4, <1>6, <3>2
    <3>3. CASE jobs'[i][1] = "table" /\ \E j \in DOMAIN orphans : jobs'[i][2] = orphans[j]
      <4>1. jobs'[i][2] \in DOMAIN tables \ live
        BY <1>5, <3>3
      <4> QED
        BY <2>2, <3>3, <4>1
    <3> QED
      BY <1>7, <3>1, <3>2, <3>3
  <2>4. \A i \in DOMAIN wal'.recycler : wal'.recycler[i] < manifest.min
    BY <1>3, <1>6, <1>7
  <2>5. DOMAIN gone' = {}
    BY <1>1, NoneGone
  <2> QED
    BY <1>1, <1>7, <2>3, <2>4, <2>5 DEF JobsInv
<1>11. RecoveryInv'
  BY <1>1, <1>7 DEF RecoveryInv
<1>12. ClosedInv'
  <2>1. vs.min < call.new
    BY <1>1 DEF IInv, Numbers, NewLog
  <2>2. \A l \in DOMAIN logs : l <= call.new
    BY <1>4, <1>s, <2>1
  <2>3. \A l \in DOMAIN logs : Unclosed(l)' => l = call.new
    BY <1>1, <1>3, <1>4, <1>s DEF Unclosed
  <2>4. \A l \in DOMAIN logs : Unclosed(l)' => \A k \in DOMAIN logs : k <= l
    BY <2>2, <2>3
  <2>5. call'.pc = "idle"
    BY <1>1, CallFields
  <2> QED
    BY <1>1, <2>2, <2>3, <2>4, <2>5 DEF ClosedInv
<1> QED
  BY <1>1, <1>8, <1>9, <1>10, <1>11, <1>12 DEF SInv

(***************************************************************************)
(* The theorems.                                                           *)
(***************************************************************************)
\* A new store is safe.
LEMMA InitSafe ==
  ASSUME Init
  PROVE  SInv
<1>1. /\ logs = <<EmptyLog>> /\ gone = <<>> /\ tables = <<>>
      /\ manifest = [min |-> 1, tables |-> {}, next |-> 2, last |-> 0]
      /\ phase = "open" /\ log = 1 /\ queue = <<NewMemTable(1, 1, InitialSize)>>
      /\ vs = [min |-> 1, tables |-> {}] /\ call = Idle
      /\ flush = [pc |-> "idle", n |-> 0, min |-> 0, file |-> 0]
      /\ wal = [queue |-> <<1>>, recycler |-> <<>>, maxLog |-> 0,
                minRecycle |-> 0, initial |-> {}, delete |-> <<>>]
      /\ jobs = <<>>
  BY DEF Init
<1>2. /\ DOMAIN logs = {1} /\ logs[1] = EmptyLog /\ DOMAIN gone = {} /\ DOMAIN tables = {}
      /\ DOMAIN jobs = {} /\ DOMAIN wal.recycler = {}
  BY <1>1
<1>3. call.pc = "idle" /\ call.kind = "none"
  BY <1>1, CallFields
<1>4. IngestFree
  <2>1. PICK e : e = NewMemTable(1, 1, InitialSize)
    OBVIOUS
  <2>2. e.kind = "mem"
    BY <2>1 DEF NewMemTable, Entry
  <2>3. queue = <<e>>
    BY <1>1, <2>1
  <2>4. \A i \in DOMAIN queue : queue[i].kind # "ingest"
    BY <2>2, <2>3
  <2>5. NoIngest(EmptyLog.recs)
    BY DEF EmptyLog, NoIngest
  <2> QED
    BY <1>2, <1>3, <2>4, <2>5 DEF IngestFree
<1>5. ManifestInv
  BY <1>1, <1>2 DEF ManifestInv
<1>6. JobsInv
  <2>1. <<>> \in Seq(Job)
    OBVIOUS
  <2> QED
    BY <1>1, <1>2, <2>1 DEF JobsInv
<1>7. RecoveryInv /\ ClosedInv
  BY <1>1, <1>2, <1>3 DEF RecoveryInv, ClosedInv, Unclosed
<1> QED
  BY <1>1, <1>4, <1>5, <1>6, <1>7 DEF SInv

\* Nothing changes.
LEMMA StutterSafe ==
  ASSUME IInv, SInv, UNCHANGED vars
  PROVE  SInv'
<1>1. UNCHANGED <<logs, gone, tables, manifest, queue, phase, nextFile, vs, log, call, flush,
                  wal, jobs>>
  BY DEF vars, disk, mem
<1>2. IngestFree' /\ ManifestInv' /\ phase' # "failed"
  BY <1>1 DEF SInv, IngestFree, ManifestInv, Flushed, Up, NoIngest
<1>3. JobsInv' /\ RecoveryInv' /\ ClosedInv'
  BY <1>1 DEF SInv, JobsInv, Spared, RecoveryInv, Old, ClosedInv, Unclosed
<1> QED
  BY <1>2, <1>3 DEF SInv

\* Every step keeps the store safe, without ingests and failing flushes in Open.
LEMMA NextSafe ==
  ASSUME "ingest" \notin Kinds, "replayed" \notin FailIn, IInv, SInv, [Next]_vars
  PROVE  SInv'
<1>1. CASE Call
  <2>1. ~IngestAsFlushable
    BY DEF IngestAsFlushable, Begin
  <2> QED
    BY <1>1, <2>1, CommitFitsSafe, BeginsSafe DEF Call
<1>2. CASE Rotation
  <2>1. ~WriteIngest /\ ~RotateForIngest
    BY DEF WriteIngest, RotateForIngest, SInv, IngestFree
  <2> QED
    BY <1>2, <2>1, InduceWriteStallSafe, CloseLogSafe, CreateLogSafe, RotationsSafe DEF Rotation
<1>3. CASE Apply \/ SyncLog \/ DeleteFile \/ Crash
  BY <1>3, ApplySafe, SyncLogSafe, DeleteFileSafe, CrashSafe
<1>4. CASE Flush
  BY <1>4, FlushBeginSafe, FlushRunSafe, FlushFailsSafe, LogAndApplySafe,
     FlushInstallSafe, FlushEndSafe DEF Flush
<1>5. CASE Open
  BY <1>5, LoadSafe, ReplayWALSafe, EndReplaySafe, OpenCreateLogSafe, OpenReturnsSafe DEF Open
<1>6. CASE UNCHANGED vars
  BY <1>6, StutterSafe
<1> QED
  BY <1>1, <1>2, <1>3, <1>4, <1>5, <1>6 DEF Next

\* The invariant holds of every such behaviour.
LEMMA SafeHolds ==
  ASSUME "ingest" \notin Kinds, "replayed" \notin FailIn
  PROVE  Spec => []SInv
<1>1. Init => SInv
  BY InitSafe
<1>2. IInv /\ SInv /\ [Next]_vars => SInv'
  BY NextSafe
<1>3. Spec => []IInv
  BY InvariantHolds
<1> QED
  BY <1>1, <1>2, <1>3, PTL DEF Spec

\* A log that is gone, or handed on for reuse, is older than all that a crash
\* would have to replay.
LEMMA NeededKept ==
  ASSUME IInv, SInv
  PROVE  NeededLogsKept
<1>1. \A j \in Range(jobs) : j[1] = "log" => j[2] < manifest.min
  BY DEF SInv, JobsInv, Range
<1>2. \A l \in Range(wal.recycler) : l < manifest.min
  BY DEF SInv, JobsInv, Range
<1>3. \A l \in DOMAIN gone : l < manifest.min
  BY DEF SInv, JobsInv
<1> QED
  BY <1>1, <1>2, <1>3 DEF NeededLogsKept

(* Without flushable ingests, and as long as no flush that Open waits for
   fails, no log that a crash would have to replay is deleted or reused, or is
   about to be: what Obsolete hands to the recycler and to the cleanup manager
   is older than the minimum that is already in the manifest, and the logs
   Open found are only handed on after the flush of what was replayed from
   them.  Flushes of an open store may fail any number of times. *)
THEOREM UnflushedLogsStay ==
  ASSUME "ingest" \notin Kinds, "replayed" \notin FailIn
  PROVE  Spec => []NeededLogsKept
<1>1. IInv /\ SInv => NeededLogsKept
  BY NeededKept
<1>2. Spec => []SInv
  BY SafeHolds
<1>3. Spec => []IInv
  BY InvariantHolds
<1> QED
  BY <1>1, <1>2, <1>3, PTL

(* Without flushable ingests and failing flushes of Open itself, Open never
   ends in a corruption, whatever crashes came before, in a rotation, a flush, a
   deletion or an earlier Open: the tables of the manifest are there, and of
   the logs to be replayed only the newest lacks its end. *)
THEOREM OpenNeverFails ==
  ASSUME "ingest" \notin Kinds, "replayed" \notin FailIn
  PROVE  Spec => []OpenSucceeds
<1>1. SInv => OpenSucceeds
  BY DEF SInv, OpenSucceeds
<1>2. Spec => []SInv
  BY SafeHolds
<1> QED
  BY <1>1, <1>2, PTL

=============================================================================
