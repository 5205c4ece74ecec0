------------------------ MODULE FailoverWriterProofs ------------------------
(***************************************************************************)
(* Proofs about FailoverWriter, for any records and any number of physical *)
(* logs: together the files keep the contract of one log, no unit of       *)
(* queueSemChan is lost, and a close that reports no error leaves nobody   *)
(* in the queue.                                                           *)
(***************************************************************************)
EXTENDS FailoverWriter, FiniteSetTheorems, SequenceTheorems, TLAPS

-----------------------------------------------------------------------------
(***************************************************************************)
(* The invariant.                                                          *)
(***************************************************************************)

States == {"none", "creating", "failed", "discarded", "open", "closing", "synced", "closed"}
Empty == {"none", "creating", "failed", "discarded"}

LogType == [st : States, recs : Seq(Nat), durable : Nat, pending : Nat, told : Nat,
            popped : SUBSET Nat, lastQueued : Nat, err : BOOLEAN]

TypeInv ==
  /\ pc \in {"idle", "write", "loop", "wait", "woken", "exit", "closed", "failed", "panic"}
  /\ records \in Seq(BOOLEAN) /\ tail \in 0 .. Head1 /\ sem \in Int
  /\ writer \in 0 .. MaxLogs /\ writeTo \in 0 .. MaxLogs /\ next \in 1 .. MaxLogs
  /\ log \in [Logs -> LogType]
  /\ numWriters \in 0 .. MaxLogs /\ closeCalled \in 0 .. MaxLogs
  /\ last \in [index : 0 .. MaxLogs, closed : BOOLEAN, err : BOOLEAN]

End(l) == l.recs[Len(l.recs)]
Consecutive(s) == \A k \in 1 .. Len(s) : s[k] = s[1] + (k - 1)

\* One log: its records are consecutive, the first of them not beyond what is
\* durable somewhere; it reports no record that is not durable.
LogInv(l, d, n) ==
  /\ l.durable <= Len(l.recs)
  /\ Consecutive(l.recs)
  /\ l.recs # <<>> => l.recs[1] \in 1 .. d + 1 /\ End(l) <= n
  /\ l.pending # 0 => l.recs # <<>> /\ l.pending <= End(l)
  /\ l.told <= d /\ l.popped \subseteq 1 .. d
  /\ l.st \in Empty => l.recs = <<>> /\ l.pending = 0 /\ l.told = 0 /\ l.popped = {}
  /\ l.st = "closing" => l.lastQueued <= d \/ (l.recs # <<>> /\ l.lastQueued <= End(l))

\* The log holds the records up to the n-th that are not durable.
UpTo(l, n, d) == IF l.recs = <<>> THEN n <= d ELSE End(l) = n

FilesInv ==
  /\ Durable \in 0 .. Head1 /\ Kept = 1 .. Durable
  /\ \A i \in Logs : LogInv(log[i], Durable, Head1)
  /\ acked \subseteq 1 .. Durable
  /\ pc \notin {"failed", "panic"} => tail <= Durable

\* Among the records after the t-th there is a last one that asks for a sync.
AskedInv ==
  \A t \in 0 .. Head1 :
    \E m \in {0} \cup {r \in t + 1 .. Head1 : records[r]} :
      \A r \in {0} \cup {r \in t + 1 .. Head1 : records[r]} : r <= m

\* The writer has all that is queued, but for a record on its way to the log
\* that was the writer when it was pushed.
WriterInv ==
  /\ writer # NoLog => log[writer].st \notin Empty
  /\ (writer # NoLog /\ pc \notin {"write", "panic"}) => UpTo(log[writer], Head1, Durable)
  /\ pc = "write" => /\ writeTo # NoLog /\ writer # NoLog /\ Head1 >= 1
                     /\ log[writeTo].st \notin Empty
                     /\ UpTo(log[writeTo], Head1 - 1, Durable)
                     /\ writer # writeTo => UpTo(log[writer], Head1, Durable)
  /\ log[next].st = "open" => writer = next
  /\ \A i \in Logs : i > next => log[i].st = "none"
  /\ pc = "loop" => numWriters = next

Waiting == {r \in tail + 1 .. Head1 : records[r]}
Popped == UNION {log[i].popped : i \in Logs}

UnitInv ==
  /\ \A i \in Logs : log[i].popped \subseteq 1 .. tail
  /\ \A i \in Logs : log[i].told # 0 => log[i].popped = {}
  /\ \A i, j \in Logs : i # j => log[i].popped \cap log[j].popped = {}
  /\ pc # "failed" => sem = Cardinality(Waiting) + Cardinality(Popped)

\* The last log was told to report the last record, and a close of it without
\* an error has done so.
CloseInv ==
  /\ last.index # 0 => pc \notin {"idle", "write"}
  /\ last.closed => last.index # 0
  /\ pc = "exit" => last.closed
  /\ \A i \in Logs : log[i].st \in {"closing", "synced", "closed"} => i <= closeCalled
  /\ last.index # 0 =>
       /\ log[last.index].st = "closing" => log[last.index].lastQueued = Head1
       /\ (log[last.index].st = "synced" /\ ~log[last.index].err) =>
            tail = Head1 \/ log[last.index].told = Head1
       /\ (last.closed /\ ~last.err) => tail = Head1

IInv == TypeInv /\ FilesInv /\ AskedInv /\ WriterInv /\ UnitInv /\ CloseInv

-----------------------------------------------------------------------------
(***************************************************************************)
(* What is durable.                                                        *)
(***************************************************************************)

\* Durable is what it is meant to be, when what is kept has no hole.
LEMMA DurableIs ==
  ASSUME NEW K, NEW n \in Nat, NEW m \in 0 .. n, K = 1 .. m
  PROVE  (CHOOSE x \in 0 .. n : 1 .. x \subseteq K /\ x + 1 \notin K) = m
<1>1. 1 .. m \subseteq K /\ m + 1 \notin K
  OBVIOUS
<1>2. ASSUME NEW x \in 0 .. n, 1 .. x \subseteq K, x + 1 \notin K PROVE x = m
  <2>1. x <= m
    <3>1. CASE x = 0
      BY <3>1
    <3>2. CASE x # 0
      <4>1. x \in 1 .. x
        BY <3>2
      <4>2. x \in 1 .. m
        BY <1>2, <4>1
      <4> QED
        BY <4>2
    <3> QED
      BY <3>1, <3>2
  <2>2. ~(x + 1 <= m)
    BY <1>2
  <2> QED
    BY <2>1, <2>2
<1> QED
  BY <1>1, <1>2

\* The records a log keeps for certain.
Sure(l) == Range(SubSeq(l.recs, 1, l.durable))

\* The records a log keeps for certain are its first ones.
LEMMA SureIs ==
  ASSUME NEW l \in LogType, l.durable <= Len(l.recs)
  PROVE  Sure(l) = {l.recs[k] : k \in 1 .. l.durable}
<1>1. l.recs \in Seq(Nat) /\ l.durable \in Nat /\ Len(l.recs) \in Nat
  BY DEF LogType
<1> DEFINE s == SubSeq(l.recs, 1, l.durable)
           d == l.durable
<1>2. \A k \in 1 .. d : l.recs[k] \in Nat
  BY <1>1, ElementOfSeq
<1>3. /\ s \in Seq(Nat) /\ Len(s) = IF 1 <= d THEN d - 1 + 1 ELSE 0
      /\ \A k \in 1 .. d - 1 + 1 : s[k] = l.recs[1 + k - 1]
  BY <1>1, <1>2, SubSeqProperties
<1> HIDE DEF s
<1>4. Len(s) = d /\ d - 1 + 1 = d /\ \A k \in 1 .. d : 1 + k - 1 = k
  <2> HIDE DEF d
  <2> QED
    BY <1>1, <1>3 DEF d
<1>5. DOMAIN s = 1 .. d /\ \A k \in 1 .. d : s[k] = l.recs[k]
  BY <1>3, <1>4
<1>6. Range(s) = {s[k] : k \in 1 .. d}
  BY <1>5 DEF Range
<1>7. Range(s) = {l.recs[k] : k \in 1 .. d}
  BY <1>5, <1>6
<1> QED
  BY <1>7 DEF Sure, s

\* What is kept is what the logs keep.
LEMMA KeptIs == Kept = UNION {Sure(log[i]) : i \in Logs}
BY DEF Kept, Sure

\* More records, and more that are durable, leave a log as it should be.
LEMMA LogMonotone ==
  ASSUME NEW l \in LogType, NEW d \in Nat, NEW n \in Nat, NEW d2 \in Nat, NEW n2 \in Nat,
         d <= d2, n <= n2, LogInv(l, d, n)
  PROVE  LogInv(l, d2, n2)
<1>1. l.recs \in Seq(Nat) /\ l.told \in Nat /\ l.pending \in Nat /\ l.lastQueued \in Nat
  BY DEF LogType
<1>2. l.recs # <<>> => End(l) \in Nat /\ l.recs[1] \in Nat
  BY <1>1, ElementOfSeq, EmptySeq DEF End
<1>3. l.recs # <<>> => l.recs[1] \in 1 .. d2 + 1 /\ End(l) <= n2
  <2>1. l.recs # <<>> => l.recs[1] \in 1 .. d + 1 /\ End(l) <= n
    BY DEF LogInv
  <2> QED
    BY <1>2, <2>1
<1>4. l.told <= d2 /\ l.popped \subseteq 1 .. d2
  <2>1. l.told <= d /\ l.popped \subseteq 1 .. d
    BY DEF LogInv
  <2>2. 1 .. d \subseteq 1 .. d2
    OBVIOUS
  <2> QED
    BY <1>1, <2>1, <2>2
<1>5. l.st = "closing" => l.lastQueued <= d2 \/ (l.recs # <<>> /\ l.lastQueued <= End(l))
  <2>1. l.st = "closing" => l.lastQueued <= d \/ (l.recs # <<>> /\ l.lastQueued <= End(l))
    BY DEF LogInv
  <2> QED
    BY <1>1, <2>1
<1> QED
  BY <1>3, <1>4, <1>5 DEF LogInv

\* The state after a step in which d2 records are durable.
LEMMA FilesStep ==
  ASSUME TypeInv, FilesInv, NEW d2 \in Nat, Durable <= d2, d2 <= Head1',
         Head1' \in Nat, Kept' = 1 .. d2,
         \A i \in Logs : LogInv(log'[i], d2, Head1'),
         acked' \subseteq 1 .. d2, pc' \notin {"failed", "panic"} => tail' <= d2
  PROVE  FilesInv' /\ Durable' = d2
<1>1. d2 \in 0 .. Head1'
  OBVIOUS
<1>2. Durable' = CHOOSE x \in 0 .. Head1' : 1 .. x \subseteq Kept' /\ x + 1 \notin Kept'
  BY DEF Durable
<1>3. Durable' = d2
  BY <1>1, <1>2, DurableIs
<1> QED
  BY <1>1, <1>3 DEF FilesInv

\* Nothing that is durable changes.
LEMMA KeptFrame ==
  ASSUME TypeInv, FilesInv, log' \in [Logs -> LogType],
         \A i \in Logs : /\ log'[i].durable = log[i].durable
                         /\ log'[i].durable <= Len(log'[i].recs)
                         /\ \A k \in 1 .. log[i].durable : log'[i].recs[k] = log[i].recs[k]
  PROVE  Kept' = Kept
<1>1. \A i \in Logs : Sure(log'[i]) = Sure(log[i])
  <2> SUFFICES ASSUME NEW i \in Logs PROVE Sure(log'[i]) = Sure(log[i])
    OBVIOUS
  <2>1. log[i] \in LogType /\ log[i].durable <= Len(log[i].recs)
    BY DEF TypeInv, FilesInv, LogInv
  <2>2. Sure(log[i]) = {log[i].recs[k] : k \in 1 .. log[i].durable}
    BY <2>1, SureIs
  <2>3. log'[i] \in LogType
    OBVIOUS
  <2>4. Sure(log'[i]) = {log'[i].recs[k] : k \in 1 .. log'[i].durable}
    BY <2>3, SureIs
  <2> QED
    BY <2>2, <2>4
<1>2. Kept' = UNION {Sure(log'[i]) : i \in Logs}
  BY DEF Kept, Sure
<1> QED
  BY <1>1, <1>2, KeptIs

\* A step in which no record becomes durable.
LEMMA FilesSame ==
  ASSUME TypeInv, FilesInv, log' \in [Logs -> LogType], Head1' \in Nat, Head1 <= Head1',
         \A i \in Logs : /\ log'[i].durable = log[i].durable
                         /\ \A k \in 1 .. log[i].durable : log'[i].recs[k] = log[i].recs[k]
                         /\ LogInv(log'[i], Durable, Head1'),
         acked' \subseteq 1 .. Durable, pc' \notin {"failed", "panic"} => tail' <= Durable
  PROVE  FilesInv' /\ Durable' = Durable
<1>1. \A i \in Logs : log'[i].durable <= Len(log'[i].recs)
  BY DEF LogInv
<1>2. Kept' = Kept
  BY <1>1, KeptFrame
<1>3. Durable \in 0 .. Head1 /\ Kept = 1 .. Durable
  BY DEF FilesInv
<1>4. Durable \in Nat /\ Durable <= Durable /\ Durable <= Head1'
  <2>1. Head1 \in Nat
    BY DEF TypeInv, Head1
  <2> QED
    BY <1>3, <2>1
<1> QED
  BY <1>2, <1>3, <1>4, FilesStep

\* A step that changes one log, and nothing of it that is durable.
LEMMA OneLog ==
  ASSUME TypeInv, FilesInv, NEW i \in Logs, NEW l \in LogType, log' = [log EXCEPT ![i] = l],
         l.durable = log[i].durable, \A k \in 1 .. log[i].durable : l.recs[k] = log[i].recs[k],
         LogInv(l, Durable, Head1), UNCHANGED records,
         acked' \subseteq 1 .. Durable, pc' \notin {"failed", "panic"} => tail' <= Durable
  PROVE  /\ FilesInv' /\ Durable' = Durable /\ Head1' = Head1
         /\ log' \in [Logs -> LogType] /\ log'[i] = l
         /\ \A j \in Logs : j # i => log'[j] = log[j]
<1>1. log' \in [Logs -> LogType] /\ log'[i] = l /\ \A j \in Logs : j # i => log'[j] = log[j]
  BY DEF TypeInv
<1>2. Head1' = Head1 /\ Head1 \in Nat
  BY DEF TypeInv, Head1
<1>3. ASSUME NEW j \in Logs
      PROVE  /\ log'[j].durable = log[j].durable
             /\ \A k \in 1 .. log[j].durable : log'[j].recs[k] = log[j].recs[k]
             /\ LogInv(log'[j], Durable, Head1')
  <2>1. CASE j = i
    BY <1>1, <1>2, <2>1
  <2>2. CASE j # i
    BY <1>1, <1>2, <2>2 DEF FilesInv
  <2> QED
    BY <2>1, <2>2
<1>4. Head1' \in Nat /\ Head1 <= Head1'
  BY <1>2
<1>5. FilesInv' /\ Durable' = Durable
  BY <1>1, <1>3, <1>4, FilesSame
<1> QED
  BY <1>1, <1>2, <1>5

\* A step that changes no log.
LEMMA NoLogChange ==
  ASSUME TypeInv, FilesInv, UNCHANGED log, Head1' \in Nat, Head1 <= Head1',
         acked' \subseteq 1 .. Durable, pc' \notin {"failed", "panic"} => tail' <= Durable
  PROVE  FilesInv' /\ Durable' = Durable
<1>1. log' \in [Logs -> LogType]
  BY DEF TypeInv
<1>2. Durable \in Nat /\ Head1 \in Nat
  BY DEF FilesInv, TypeInv, Head1
<1>3. ASSUME NEW j \in Logs
      PROVE  /\ log'[j].durable = log[j].durable
             /\ \A k \in 1 .. log[j].durable : log'[j].recs[k] = log[j].recs[k]
             /\ LogInv(log'[j], Durable, Head1')
  <2>1. log[j] \in LogType /\ LogInv(log[j], Durable, Head1) /\ Durable <= Durable
    BY <1>2 DEF TypeInv, FilesInv
  <2>2. LogInv(log[j], Durable, Head1')
    BY <1>2, <2>1, LogMonotone
  <2> QED
    BY <2>2
<1> QED
  BY <1>1, <1>3, FilesSame

\* A sync of a log: what it holds is durable, up to its last record.
LEMMA SyncedFiles ==
  ASSUME TypeInv, FilesInv, NEW i \in Logs, NEW l \in LogType, log' = [log EXCEPT ![i] = l],
         l.recs = log[i].recs, l.durable = Len(l.recs),
         NEW d2 \in Nat, Durable <= d2,
         IF l.recs = <<>> THEN d2 = Durable
         ELSE d2 = IF End(l) <= Durable THEN Durable ELSE End(l),
         LogInv(l, d2, Head1), UNCHANGED <<records, acked, tail, pc>>
  PROVE  /\ FilesInv' /\ Durable' = d2 /\ Head1' = Head1
         /\ log' \in [Logs -> LogType] /\ log'[i] = l
         /\ \A j \in Logs : j # i => log'[j] = log[j]
<1>1. log' \in [Logs -> LogType] /\ log'[i] = l /\ \A j \in Logs : j # i => log'[j] = log[j]
  BY DEF TypeInv
<1>2. Head1' = Head1 /\ Head1 \in Nat /\ Durable \in Nat /\ Durable <= Head1 /\ Kept = 1 .. Durable
  BY DEF TypeInv, Head1, FilesInv
<1> DEFINE r == log[i].recs
           n == Len(log[i].recs)
<1>3. r \in Seq(Nat) /\ n \in Nat /\ log[i] \in LogType /\ log[i].durable \in Nat /\ log[i].durable <= n
  BY DEF TypeInv, LogType, FilesInv, LogInv
<1>4. LogInv(log[i], Durable, Head1)
  BY DEF FilesInv
<1>5. \A k \in 1 .. n : r[k] = r[1] + (k - 1)
  BY <1>4 DEF LogInv, Consecutive
<1>6. Sure(log[i]) = {r[k] : k \in 1 .. log[i].durable}
  BY <1>3, SureIs
<1>7. Sure(l) = {r[k] : k \in 1 .. n}
  <2>1. l.durable <= Len(l.recs)
    BY <1>3
  <2> QED
    BY <2>1, SureIs
<1>8. Sure(log[i]) \subseteq Sure(l)
  BY <1>3, <1>6, <1>7
<1>9. Kept' = Kept \cup Sure(l)
  <2>1. Kept' = UNION {Sure(log'[j]) : j \in Logs}
    BY DEF Kept, Sure
  <2>2. Kept = UNION {Sure(log[j]) : j \in Logs}
    BY KeptIs
  <2> QED
    BY <1>1, <1>8, <2>1, <2>2
<1>10. Kept' = 1 .. d2 /\ d2 <= Head1'
  <2>1. CASE r = <<>>
    <3>1. n = 0
      BY <2>1
    <3>2. Sure(l) = {}
      BY <1>7, <3>1
    <3> QED
      BY <1>2, <1>9, <2>1, <3>2
  <2>2. CASE r # <<>>
    <3> DEFINE a == r[1]
               e == r[n]
    <3>1. n >= 1 /\ 1 \in 1 .. n /\ n \in 1 .. n
      BY <1>3, <2>2, EmptySeq
    <3>2. a \in Nat /\ e \in Nat
      BY <1>3, <3>1, ElementOfSeq
    <3>3. a \in 1 .. Durable + 1 /\ e <= Head1
      BY <1>4, <2>2 DEF LogInv, End
    <3>4. e = a + (n - 1)
      BY <1>5, <3>1
    <3>5. Sure(l) = a .. e
      <4>1. ASSUME NEW x \in Sure(l) PROVE x \in a .. e
        <5>1. PICK k \in 1 .. n : x = r[k]
          BY <1>7, <4>1
        <5>2. x = a + (k - 1)
          BY <1>5, <5>1
        <5> HIDE DEF a, e, n
        <5> QED
          BY <1>3, <3>2, <3>4, <5>2
      <4>2. ASSUME NEW x \in a .. e PROVE x \in Sure(l)
        <5>1. (x - a) + 1 \in 1 .. n /\ x = a + (((x - a) + 1) - 1)
          <6> HIDE DEF a, e, n
          <6> QED
            BY <1>3, <3>2, <3>4
        <5>2. r[(x - a) + 1] = x
          BY <1>5, <5>1
        <5> QED
          BY <1>7, <5>1, <5>2
      <4> QED
        BY <4>1, <4>2
    <3>6. End(l) = e /\ d2 = IF e <= Durable THEN Durable ELSE e
      BY <2>2 DEF End
    <3> HIDE DEF a, e
    <3>7. (1 .. Durable) \cup (a .. e) = 1 .. d2
      BY <1>2, <3>2, <3>3, <3>6
    <3> QED
      BY <1>2, <1>9, <3>2, <3>3, <3>5, <3>6, <3>7
  <2> QED
    BY <2>1, <2>2
<1>11. ASSUME NEW j \in Logs PROVE LogInv(log'[j], d2, Head1')
  <2>1. CASE j = i
    BY <1>1, <1>2, <2>1
  <2>2. CASE j # i
    <3>1. log[j] \in LogType /\ LogInv(log[j], Durable, Head1) /\ Head1 <= Head1
      BY <1>2 DEF TypeInv, FilesInv
    <3>2. LogInv(log[j], d2, Head1)
      BY <1>2, <3>1, LogMonotone
    <3> QED
      BY <1>1, <1>2, <2>2, <3>2
  <2> QED
    BY <2>1, <2>2
<1>12. acked' \subseteq 1 .. d2 /\ (pc' \notin {"failed", "panic"} => tail' <= d2)
  <2>1. acked \subseteq 1 .. Durable /\ (pc \notin {"failed", "panic"} => tail <= Durable)
    BY DEF FilesInv
  <2>2. tail \in Nat
    BY <1>2 DEF TypeInv
  <2> QED
    BY <1>2, <2>1, <2>2
<1>13. FilesInv' /\ Durable' = d2
  BY <1>2, <1>10, <1>11, <1>12, FilesStep
<1> QED
  BY <1>1, <1>2, <1>13

\* A log that is up to date stays so when more is durable.
LEMMA UpToMonotone ==
  ASSUME NEW l, NEW n \in Nat, NEW d \in Nat, NEW d2 \in Nat, d <= d2, UpTo(l, n, d)
  PROVE  UpTo(l, n, d2)
BY DEF UpTo

\* What is known of one log.
LEMMA LogFields ==
  ASSUME TypeInv, FilesInv, NEW i \in Logs
  PROVE  /\ log[i] \in LogType /\ log[i].recs \in Seq(Nat) /\ Len(log[i].recs) \in Nat
         /\ log[i].st \in States /\ log[i].durable \in Nat /\ log[i].pending \in Nat
         /\ log[i].told \in Nat /\ log[i].popped \in SUBSET Nat /\ log[i].lastQueued \in Nat
         /\ log[i].err \in BOOLEAN
         /\ log[i].recs # <<>> =>
              /\ Len(log[i].recs) >= 1 /\ End(log[i]) \in Nat /\ log[i].recs[1] \in Nat
              /\ End(log[i]) = log[i].recs[1] + (Len(log[i].recs) - 1)
         /\ LogInv(log[i], Durable, Head1)
         /\ Durable \in Nat /\ Head1 \in Nat /\ Durable <= Head1 /\ tail \in Nat /\ tail <= Head1
<1>1. log[i] \in LogType /\ LogInv(log[i], Durable, Head1)
  BY DEF TypeInv, FilesInv
<1>2. /\ log[i].recs \in Seq(Nat) /\ Len(log[i].recs) \in Nat
      /\ log[i].st \in States /\ log[i].durable \in Nat /\ log[i].pending \in Nat
      /\ log[i].told \in Nat /\ log[i].popped \in SUBSET Nat /\ log[i].lastQueued \in Nat
      /\ log[i].err \in BOOLEAN
  BY <1>1 DEF LogType
<1>3. Durable \in Nat /\ Head1 \in Nat /\ Durable <= Head1 /\ tail \in Nat /\ tail <= Head1
  BY DEF TypeInv, FilesInv, Head1
<1>4. ASSUME log[i].recs # <<>>
      PROVE  /\ Len(log[i].recs) >= 1 /\ End(log[i]) \in Nat /\ log[i].recs[1] \in Nat
             /\ End(log[i]) = log[i].recs[1] + (Len(log[i].recs) - 1)
  <2>1. Len(log[i].recs) >= 1 /\ 1 \in 1 .. Len(log[i].recs) /\ Len(log[i].recs) \in 1 .. Len(log[i].recs)
    BY <1>2, <1>4, EmptySeq
  <2>2. log[i].recs[1] \in Nat /\ End(log[i]) \in Nat
    BY <1>2, <2>1, ElementOfSeq DEF End
  <2>3. End(log[i]) = log[i].recs[1] + (Len(log[i].recs) - 1)
    BY <1>1, <2>1 DEF LogInv, End, Consecutive
  <2> QED
    BY <2>1, <2>2, <2>3
<1> QED
  BY <1>1, <1>2, <1>3, <1>4

-----------------------------------------------------------------------------
(***************************************************************************)
(* What the parts of the invariant depend on.                              *)
(***************************************************************************)

\* When a step leaves each part alone: what was asked for ...
LEMMA AskedFrame == AskedInv /\ UNCHANGED records => AskedInv'
BY DEF AskedInv, Head1

\* ... the units ...
LEMMA UnitFrame ==
  ASSUME UnitInv, UNCHANGED <<records, tail, sem>>, pc' # "failed" => pc # "failed",
         \A j \in Logs : /\ log'[j].popped = log[j].popped
                         /\ log'[j].told # 0 => log[j].told # 0 \/ log[j].popped = {}
  PROVE  UnitInv'
<1>1. Popped' = Popped
  BY DEF Popped
<1>2. Waiting' = Waiting
  BY DEF Waiting, Head1
<1> QED
  BY <1>1, <1>2 DEF UnitInv

\* ... the writer ...
LEMMA WriterFrame ==
  ASSUME TypeInv, FilesInv, WriterInv, UNCHANGED <<records, writer, writeTo, next>>,
         Durable' \in Nat, Durable <= Durable',
         \A j \in Logs : /\ log'[j].recs = log[j].recs
                         /\ log[j].st \notin Empty => log'[j].st \notin Empty
                         /\ log'[j].st = "open" => log[j].st = "open"
                         /\ log[j].st = "none" => log'[j].st = "none",
         pc' = "write" => pc = "write",
         pc' \notin {"write", "panic"} => pc \notin {"write", "panic"},
         pc' = "loop" => numWriters' = next
  PROVE  WriterInv'
<1>1. Head1' = Head1 /\ Head1 \in Nat /\ Durable \in Nat /\ next \in Logs
      /\ (writer # NoLog => writer \in Logs) /\ (writeTo # NoLog => writeTo \in Logs)
  BY DEF TypeInv, FilesInv, Head1, Logs, NoLog
<1>2. \A j \in Logs, n \in Nat : UpTo(log[j], n, Durable) => UpTo(log'[j], n, Durable')
  BY <1>1 DEF UpTo, End
<1>3. writer # NoLog => log'[writer].st \notin Empty
  BY <1>1 DEF WriterInv
<1>4. (writer # NoLog /\ pc' \notin {"write", "panic"}) => UpTo(log'[writer], Head1', Durable')
  BY <1>1, <1>2 DEF WriterInv
<1>5. pc' = "write" => /\ writeTo # NoLog /\ writer # NoLog /\ Head1 >= 1
                       /\ log'[writeTo].st \notin Empty
                       /\ UpTo(log'[writeTo], Head1 - 1, Durable')
                       /\ writer # writeTo => UpTo(log'[writer], Head1, Durable')
  <2> SUFFICES ASSUME pc' = "write"
               PROVE  /\ writeTo # NoLog /\ writer # NoLog /\ Head1 >= 1
                      /\ log'[writeTo].st \notin Empty
                      /\ UpTo(log'[writeTo], Head1 - 1, Durable')
                      /\ writer # writeTo => UpTo(log'[writer], Head1, Durable')
    OBVIOUS
  <2>1. /\ writeTo # NoLog /\ writer # NoLog /\ Head1 >= 1
        /\ log[writeTo].st \notin Empty
        /\ UpTo(log[writeTo], Head1 - 1, Durable)
        /\ writer # writeTo => UpTo(log[writer], Head1, Durable)
    BY DEF WriterInv
  <2>2. Head1 - 1 \in Nat
    BY <1>1, <2>1
  <2> QED
    BY <1>1, <1>2, <2>1, <2>2
<1>6. log'[next].st = "open" => writer = next
  BY <1>1 DEF WriterInv
<1>7. \A i \in Logs : i > next => log'[i].st = "none"
  BY DEF WriterInv
<1> QED
  BY <1>1, <1>3, <1>4, <1>5, <1>6, <1>7 DEF WriterInv

\* ... and closeInternal.
LEMMA CloseFrame ==
  ASSUME TypeInv, CloseInv, UNCHANGED <<records, last, closeCalled>>,
         tail = Head1 => tail' = Head1,
         pc' \in {"idle", "write"} => pc \in {"idle", "write"},
         pc' = "exit" => last.closed,
         \A j \in Logs :
           /\ log'[j].st \in {"closing", "synced", "closed"} =>
                log[j].st \in {"closing", "synced", "closed"}
           /\ log'[j].st = "closing" =>
                log[j].st = "closing" /\ log'[j].lastQueued = log[j].lastQueued
           /\ (log'[j].st = "synced" /\ ~log'[j].err) =>
                /\ log[j].st = "synced" /\ ~log[j].err
                /\ log'[j].told = log[j].told \/ (log[j].told = Head1 => tail' = Head1)
  PROVE  CloseInv'
<1>1. Head1' = Head1
  BY DEF Head1
<1>2. last.index # 0 => last.index \in Logs
  BY DEF TypeInv, Logs
<1>3. last.index # 0 =>
        /\ log'[last.index].st = "closing" => log'[last.index].lastQueued = Head1
        /\ (log'[last.index].st = "synced" /\ ~log'[last.index].err) =>
             tail' = Head1 \/ log'[last.index].told = Head1
        /\ (last.closed /\ ~last.err) => tail' = Head1
  BY <1>2 DEF CloseInv
<1>4. \A i \in Logs : log'[i].st \in {"closing", "synced", "closed"} => i <= closeCalled
  BY DEF CloseInv
<1>5. last.index # 0 => pc' \notin {"idle", "write"}
  BY DEF CloseInv
<1>6. last.closed => last.index # 0
  BY DEF CloseInv
<1> QED
  BY <1>1, <1>3, <1>4, <1>5, <1>6 DEF CloseInv

-----------------------------------------------------------------------------
(***************************************************************************)
(* The steps.                                                              *)
(***************************************************************************)

\* The invariant holds at the start.
LEMMA InitIInv == Init => IInv
<1> SUFFICES ASSUME Init PROVE IInv
  OBVIOUS
<1> USE FailoverAssumption
<1>0. /\ <<>> \in Seq(Nat) /\ <<>> \in Seq(BOOLEAN) /\ Len(<<>>) = 0 /\ Head1 = 0
      /\ records = <<>> /\ (\A k \in 1 .. 0 : FALSE) /\ 1 \in Logs /\ MaxLogs \in Nat
  BY DEF Init, Head1, Logs
<1>1. \A i \in Logs : /\ log[i].st \in {"none", "creating"} /\ log[i].recs = <<>>
                      /\ log[i].durable = 0 /\ log[i].pending = 0 /\ log[i].told = 0
                      /\ log[i].popped = {} /\ log[i].lastQueued = 0 /\ log[i].err = FALSE
                      /\ i > 1 => log[i].st = "none"
  BY DEF Init, Reserve, NewLog
<1>2. log \in [Logs -> LogType]
  <2>1. NewLog \in LogType
    BY <1>0 DEF NewLog, LogType, States
  <2>2. Reserve(NewLog) \in LogType
    BY <2>1 DEF Reserve, LogType, States
  <2> QED
    BY <2>1, <2>2 DEF Init
<1>3. TypeInv
  <2>1. 0 \in 0 .. MaxLogs /\ 1 \in 1 .. MaxLogs /\ 0 \in 0 .. 0
    OBVIOUS
  <2>2. last \in [index : 0 .. MaxLogs, closed : BOOLEAN, err : BOOLEAN]
    BY <2>1 DEF Init
  <2>3. /\ pc = "idle" /\ tail = 0 /\ sem = 0 /\ writer = 0 /\ writeTo = 0 /\ next = 1
        /\ numWriters = 0 /\ closeCalled = 0
    BY DEF Init, NoLog
  <2> QED
    BY <1>0, <1>2, <2>1, <2>2, <2>3 DEF TypeInv
<1>4. Kept = {}
  <2>1. \A i \in Logs : Sure(log[i]) = {}
    <3> SUFFICES ASSUME NEW i \in Logs PROVE Sure(log[i]) = {}
      OBVIOUS
    <3>1. log[i] \in LogType /\ log[i].durable <= Len(log[i].recs)
      BY <1>0, <1>1, <1>2
    <3>2. Sure(log[i]) = {log[i].recs[k] : k \in 1 .. log[i].durable}
      BY <3>1, SureIs
    <3> QED
      BY <1>0, <1>1, <3>2
  <2> QED
    BY <2>1, KeptIs
<1>5. Durable = 0
  <2>1. Kept = 1 .. 0 /\ 0 \in 0 .. 0
    BY <1>4
  <2>2. Durable = CHOOSE x \in 0 .. 0 : 1 .. x \subseteq Kept /\ x + 1 \notin Kept
    BY <1>0 DEF Durable
  <2> QED
    BY <2>1, <2>2, DurableIs
<1>6. FilesInv
  <2>1. \A i \in Logs : LogInv(log[i], 0, 0)
    BY <1>0, <1>1 DEF LogInv, Consecutive
  <2>2. 0 \in 0 .. 0 /\ Kept = 1 .. 0
    BY <1>4
  <2>3. acked = {} /\ tail = 0
    BY DEF Init
  <2> QED
    BY <1>0, <1>5, <2>1, <2>2, <2>3 DEF FilesInv
<1>7. AskedInv
  <2>1. \A t \in 0 .. 0 : {r \in t + 1 .. 0 : records[r]} = {}
    OBVIOUS
  <2> QED
    BY <1>0, <2>1 DEF AskedInv
<1>8. WriterInv
  BY <1>1, <1>0 DEF Init, WriterInv
<1>9. UnitInv
  <2>1. Popped = {} /\ Waiting = {}
    BY <1>0, <1>1 DEF Init, Popped, Waiting
  <2> QED
    BY <1>1, <2>1, FS_EmptySet DEF Init, UnitInv
<1>10. CloseInv
  BY <1>1 DEF Init, CloseInv
<1> QED
  BY <1>3, <1>6, <1>7, <1>8, <1>9, <1>10 DEF IInv

\* Push adds a record nobody has yet.
LEMMA PushStep ==
  ASSUME IInv, NEW sync \in BOOLEAN, Push(sync)
  PROVE  IInv' /\ Durable' = Durable /\ Head1' = Head1 + 1
<1> USE DEF IInv
<1>1. /\ records \in Seq(BOOLEAN) /\ Head1 \in Nat /\ Durable \in Nat /\ Durable <= Head1
      /\ tail \in Nat /\ tail <= Head1 /\ tail <= Durable /\ MaxLogs \in Nat /\ sem \in Int
  BY FailoverAssumption DEF TypeInv, FilesInv, Head1, Push
<1>2. /\ pc = "idle" /\ records' = Append(records, sync) /\ writeTo' = writer
      /\ pc' = IF writer = NoLog THEN "idle" ELSE "write"
      /\ sem' = IF sync THEN sem + 1 ELSE sem
      /\ UNCHANGED <<tail, writer, log, next, closeVars, acked, failed>>
  BY DEF Push
<1>3. /\ records' \in Seq(BOOLEAN) /\ Head1' = Head1 + 1 /\ records'[Head1 + 1] = sync
      /\ \A r \in 1 .. Head1 : records'[r] = records[r]
  BY <1>1, <1>2, AppendProperties DEF Head1
<1>4. TypeInv'
  BY <1>1, <1>2, <1>3 DEF TypeInv, closeVars
<1>5. FilesInv' /\ Durable' = Durable
  <2>1. Head1' \in Nat /\ Head1 <= Head1'
    BY <1>1, <1>3
  <2>2. acked' \subseteq 1 .. Durable /\ (pc' \notin {"failed", "panic"} => tail' <= Durable)
    BY <1>1, <1>2 DEF FilesInv
  <2> QED
    BY <1>2, <2>1, <2>2, NoLogChange
<1> DEFINE asks(t) == {r \in t + 1 .. Head1 : records[r]}
           asks2(t) == {r \in t + 1 .. Head1 + 1 : records'[r]}
<1>6. \A t \in 0 .. Head1 : asks2(t) = IF sync THEN asks(t) \cup {Head1 + 1} ELSE asks(t)
  <2> SUFFICES ASSUME NEW t \in 0 .. Head1
               PROVE  asks2(t) = IF sync THEN asks(t) \cup {Head1 + 1} ELSE asks(t)
    OBVIOUS
  <2>1. \A r \in t + 1 .. Head1 : records'[r] = records[r] /\ r \in t + 1 .. Head1 + 1
    BY <1>1, <1>3
  <2>2. \A r \in t + 1 .. Head1 + 1 : r \in t + 1 .. Head1 \/ r = Head1 + 1
    BY <1>1
  <2>3. Head1 + 1 \in t + 1 .. Head1 + 1
    BY <1>1
  <2> QED
    BY <1>3, <2>1, <2>2, <2>3
<1>7. AskedInv'
  <2> SUFFICES ASSUME NEW t \in 0 .. Head1 + 1
               PROVE  \E m \in {0} \cup asks2(t) : \A r \in {0} \cup asks2(t) : r <= m
    BY <1>3 DEF AskedInv
  <2>1. CASE t = Head1 + 1
    <3>1. asks2(t) = {}
      BY <1>1, <2>1
    <3> QED
      BY <3>1
  <2>2. CASE t # Head1 + 1 /\ sync
    <3>1. Head1 + 1 \in asks2(t)
      BY <1>1, <1>6, <2>2
    <3>2. \A r \in {0} \cup asks2(t) : r <= Head1 + 1
      BY <1>1
    <3> QED
      BY <3>1, <3>2
  <2>3. CASE t # Head1 + 1 /\ ~sync
    <3>1. t \in 0 .. Head1
      BY <1>1, <2>3
    <3>2. asks2(t) = asks(t)
      BY <1>6, <2>3, <3>1
    <3> HIDE DEF asks2
    <3> QED
      BY <3>1, <3>2 DEF AskedInv
  <2> QED
    BY <2>1, <2>2, <2>3
<1>8. WriterInv'
  <2>1. writer # NoLog => UpTo(log[writer], Head1, Durable) /\ log[writer].st \notin Empty
    BY <1>2 DEF WriterInv
  <2>2. Head1' - 1 = Head1 /\ Head1' >= 1
    BY <1>1, <1>3
  <2> QED
    BY <1>2, <1>5, <2>1, <2>2 DEF WriterInv
<1>9. UnitInv'
  <2>1. Popped' = Popped
    BY <1>2 DEF Popped
  <2>2. Waiting' = asks2(tail) /\ Waiting = asks(tail)
    BY <1>2, <1>3 DEF Waiting
  <2>3. Waiting' = IF sync THEN Waiting \cup {Head1 + 1} ELSE Waiting
    BY <1>1, <1>6, <2>2
  <2>4. IsFiniteSet(Waiting) /\ Head1 + 1 \notin Waiting
    <3>1. IsFiniteSet(1 .. Head1) /\ Waiting \subseteq 1 .. Head1
      BY <1>1, FS_Interval DEF Waiting
    <3>2. IsFiniteSet(Waiting)
      BY <3>1, FS_Subset
    <3> QED
      BY <1>1, <3>1, <3>2
  <2>5. Cardinality(Waiting') = IF sync THEN Cardinality(Waiting) + 1 ELSE Cardinality(Waiting)
    BY <2>3, <2>4, FS_AddElement
  <2>6. sem = Cardinality(Waiting) + Cardinality(Popped)
    BY <1>2 DEF UnitInv
  <2>7. Cardinality(Waiting) \in Nat /\ Cardinality(Popped) \in Int
    <3>1. Cardinality(Waiting) \in Nat
      BY <2>4, FS_CardinalityType
    <3>2. IsFiniteSet(1 .. tail) /\ Popped \subseteq 1 .. tail
      BY <1>1, FS_Interval DEF UnitInv, Popped
    <3>3. Cardinality(Popped) \in Nat
      BY <3>2, FS_Subset, FS_CardinalityType
    <3> QED
      BY <3>1, <3>3
  <2>8. sem' = Cardinality(Waiting') + Cardinality(Popped')
    BY <1>2, <2>1, <2>5, <2>6, <2>7
  <2> QED
    BY <1>2, <2>8 DEF UnitInv
<1>10. CloseInv'
  <2>1. last.index = 0 /\ ~last.closed
    BY <1>2 DEF CloseInv
  <2> QED
    BY <1>2, <2>1 DEF CloseInv, closeVars
<1> QED
  BY <1>3, <1>4, <1>5, <1>7, <1>8, <1>9, <1>10

\* The maximum of a set of numbers.
LEMMA MaxOf ==
  ASSUME NEW S, S \subseteq Nat, NEW m \in S, \A x \in S : x <= m
  PROVE  Max(S) = m
<1>1. \A y \in S : m >= y
  OBVIOUS
<1>2. ASSUME NEW x \in S, \A y \in S : x >= y PROVE x = m
  BY <1>2
<1> QED
  BY <1>1, <1>2 DEF Max

Joins(t, s, rs) ==
  /\ Len(t) = Len(s) + Len(rs)
  /\ \A k \in 1 .. Len(s) : t[k] = s[k]
  /\ \A k \in 1 .. Len(rs) : t[Len(s) + k] = rs[k]

\* What a concatenation holds.
LEMMA ConcatJoins ==
  ASSUME NEW s \in Seq(Nat), NEW rs \in Seq(Nat)
  PROVE  s \o rs \in Seq(Nat) /\ Joins(s \o rs, s, rs)
BY ConcatProperties DEF Joins

Follow(rs, a) == \A k \in 1 .. Len(rs) : rs[k] = a + k

Extended(t, s, p, q, a) ==
  /\ Len(t) = p + q /\ (\A k \in 1 .. p : t[k] = s[k]) /\ Consecutive(t)
  /\ p + q # 0 => t[p + q] = a + q /\ t[1] = IF p = 0 THEN a + 1 ELSE s[1]
EndsAt(s, p, a) == p # 0 => s[p] = a

\* Consecutive records, and those that follow them.
LEMMA SpanConcat ==
  ASSUME NEW s \in Seq(Nat), NEW rs \in Seq(Nat), NEW a \in Nat, NEW t \in Seq(Nat),
         NEW p \in Nat, p = Len(s), NEW q \in Nat, q = Len(rs),
         Follow(rs, a), Consecutive(s), Joins(t, s, rs), EndsAt(s, p, a)
  PROVE  Extended(t, s, p, q, a)
<1>1. Len(t) = p + q /\ (\A k \in 1 .. p : t[k] = s[k]) /\ \A k \in 1 .. q : t[p + k] = rs[k]
  BY DEF Joins
<1>2. \A k \in 1 .. q : t[p + k] = a + k
  BY <1>1 DEF Follow
<1>3. PICK b \in Int : b = IF p = 0 THEN a + 1 ELSE s[1]
  <2>1. p # 0 => s[1] \in Nat
    BY ElementOfSeq
  <2>2. a + 1 \in Int /\ (p # 0 => s[1] \in Int)
    BY <2>1
  <2> QED
    BY <2>2
<1>4. p # 0 => 1 \in 1 .. p /\ p \in 1 .. p
  OBVIOUS
<1>5. a = b + (p - 1)
  <2>1. CASE p = 0
    BY <1>3, <2>1
  <2>2. CASE p # 0
    <3>1. s[p] = s[1] + (p - 1)
      BY <1>4, <2>2 DEF Consecutive
    <3> QED
      BY <1>3, <2>2, <3>1 DEF EndsAt
  <2> QED
    BY <2>1, <2>2
<1>6. ASSUME NEW k \in 1 .. p + q PROVE t[k] = b + (k - 1)
  <2>1. CASE k <= p
    <3>1. k \in 1 .. p /\ p # 0
      BY <2>1
    <3>2. s[k] = s[1] + (k - 1)
      BY <3>1 DEF Consecutive
    <3> QED
      BY <1>1, <1>3, <3>1, <3>2
  <2>2. CASE k > p
    <3>1. k - p \in 1 .. q /\ p + (k - p) = k
      BY <2>2
    <3>2. t[k] = a + (k - p)
      BY <1>2, <3>1
    <3> QED
      BY <1>5, <3>2
  <2> QED
    BY <2>1, <2>2
<1>7. p + q # 0 => t[p + q] = b + ((p + q) - 1) /\ t[1] = b
  <2> SUFFICES ASSUME p + q # 0 PROVE t[p + q] = b + ((p + q) - 1) /\ t[1] = b
    OBVIOUS
  <2>1. p + q \in 1 .. p + q /\ 1 \in 1 .. p + q
    OBVIOUS
  <2>2. t[1] = b + (1 - 1)
    BY <1>6, <2>1
  <2>3. t[p + q] = b + ((p + q) - 1)
    BY <1>6, <2>1
  <2> QED
    BY <1>3, <2>2, <2>3
<1>8. Consecutive(t)
  <2> SUFFICES ASSUME NEW k \in 1 .. p + q PROVE t[k] = t[1] + (k - 1)
    BY <1>1 DEF Consecutive
  <2>1. t[k] = b + (k - 1) /\ t[1] = b
    BY <1>6, <1>7
  <2> QED
    BY <2>1
<1>9. p + q # 0 => t[p + q] = a + q
  BY <1>5, <1>7
<1> QED
  BY <1>1, <1>3, <1>7, <1>8, <1>9 DEF Extended

\* A log that is given the records after the a-th, up to the n2-th.
LEMMA MoreRecords ==
  ASSUME NEW l \in LogType, NEW l2 \in LogType, NEW d \in Nat, NEW n \in Nat, NEW n2 \in Nat,
         NEW a \in Nat, NEW rs \in Seq(Nat), LogInv(l, d, n), UpTo(l, a, d), n <= n2,
         Len(rs) = n2 - a, Follow(rs, a),
         Joins(l2.recs, l.recs, rs), l2.durable = l.durable, l2.told = l.told,
         l2.popped = l.popped, l2.lastQueued = l.lastQueued, l2.st \notin Empty,
         l2.st = "closing" => l.st = "closing",
         l2.pending = l.pending \/ \E k \in 1 .. Len(rs) : l2.pending = rs[k]
  PROVE  /\ LogInv(l2, d, n2) /\ UpTo(l2, n2, d)
         /\ \A k \in 1 .. l.durable : l2.recs[k] = l.recs[k]
<1>1. PICK s, t, p, q : s = l.recs /\ t = l2.recs /\ p = Len(l.recs) /\ q = Len(rs)
  OBVIOUS
<1>2. /\ s \in Seq(Nat) /\ p \in Nat /\ q \in Nat /\ p = Len(s) /\ t \in Seq(Nat)
      /\ q = n2 - a /\ Joins(t, s, rs)
  BY <1>1 DEF LogType
<1>3. Consecutive(s)
  BY <1>1 DEF LogInv
<1>4. s = <<>> <=> p = 0
  BY <1>2, EmptySeq
<1>5. (p # 0 => s[p] = a /\ End(l) = a) /\ (p = 0 => a <= d)
  BY <1>1, <1>4 DEF UpTo, End
<1>s. /\ Len(t) = p + q /\ (\A k \in 1 .. p : t[k] = s[k]) /\ Consecutive(t)
      /\ p + q # 0 => t[p + q] = a + q /\ t[1] = IF p = 0 THEN a + 1 ELSE s[1]
  <2>1. EndsAt(s, p, a)
    BY <1>5 DEF EndsAt
  <2>2. Extended(t, s, p, q, a)
    BY <1>1, <1>2, <1>3, <2>1, SpanConcat
  <2> QED
    BY <2>2 DEF Extended
<1>6. /\ t \in Seq(Nat) /\ Len(t) = p + q /\ (\A k \in 1 .. p : t[k] = s[k]) /\ Consecutive(t)
      /\ p + q # 0 => t[p + q] = n2 /\ t[1] = IF p = 0 THEN a + 1 ELSE s[1]
  <2>1. a + q = n2
    BY <1>2
  <2> QED
    BY <1>2, <1>s, <2>1
<1>7. t = <<>> <=> p + q = 0
  BY <1>6, EmptySeq
<1>8. p + q # 0 => End(l2) = n2
  BY <1>1, <1>6 DEF End
<1>9. PICK u, v, w, x, y : /\ u = l.durable /\ v = l2.pending /\ w = l.pending
                           /\ x = l.lastQueued /\ y = s[1]
  OBVIOUS
<1>10. /\ u \in Nat /\ v \in Nat /\ w \in Nat /\ x \in Nat
       /\ u <= p /\ (p # 0 => y \in 1 .. d + 1 /\ a <= n) /\ (w # 0 => p # 0 /\ w <= a)
       /\ (l.st = "closing" => x <= d \/ (p # 0 /\ x <= a))
       /\ v = w \/ \E k \in 1 .. q : v = a + k
  <2>1. /\ l.durable \in Nat /\ l2.pending \in Nat /\ l.pending \in Nat /\ l.lastQueued \in Nat
    BY DEF LogType
  <2>2. /\ l.durable <= Len(l.recs)
        /\ l.recs # <<>> => l.recs[1] \in 1 .. d + 1 /\ End(l) <= n
        /\ l.pending # 0 => l.recs # <<>> /\ l.pending <= End(l)
        /\ l.st = "closing" => l.lastQueued <= d \/ (l.recs # <<>> /\ l.lastQueued <= End(l))
    BY DEF LogInv
  <2>3. l2.pending = l.pending \/ \E k \in 1 .. q : l2.pending = a + k
    BY <1>1 DEF Follow
  <2>4. p # 0 => End(l) <= n /\ End(l) = a
    BY <1>1, <1>4, <1>5, <2>2
  <2> QED
    BY <1>1, <1>4, <1>9, <2>1, <2>2, <2>3, <2>4
<1>11. v # 0 => p + q # 0 /\ v <= n2
  <2>1. CASE v = w
    BY <1>2, <1>10, <2>1
  <2>2. CASE \E k \in 1 .. q : v = a + k
    BY <1>2, <2>2
  <2> QED
    BY <1>10, <2>1, <2>2
<1>12. l2.st = "closing" => x <= d \/ (p + q # 0 /\ x <= n2)
  BY <1>2, <1>10
<1>13. u <= p + q
  BY <1>2, <1>10
<1>14. p + q # 0 => t[1] \in 1 .. d + 1
  <2>1. CASE p = 0
    <3>1. a + 1 \in 1 .. d + 1
      BY <1>5, <2>1
    <3> QED
      BY <1>6, <2>1, <3>1
  <2>2. CASE p # 0
    BY <1>6, <1>9, <1>10, <1>2, <2>2
  <2> QED
    BY <2>1, <2>2
<1>15. LogInv(l2, d, n2)
  <2>1. l2.recs # <<>> => l2.recs[1] \in 1 .. d + 1 /\ End(l2) <= n2
    <3>1. l2.recs # <<>> => p + q # 0
      BY <1>1, <1>7
    <3>2. p + q # 0 => l2.recs[1] \in 1 .. d + 1
      BY <1>1, <1>14
    <3>3. n2 <= n2
      OBVIOUS
    <3> QED
      BY <1>8, <3>1, <3>2, <3>3
  <2>2. l2.pending # 0 => l2.recs # <<>> /\ l2.pending <= End(l2)
    BY <1>1, <1>7, <1>8, <1>9, <1>11
  <2>3. l2.st = "closing" => l2.lastQueued <= d \/ (l2.recs # <<>> /\ l2.lastQueued <= End(l2))
    BY <1>1, <1>7, <1>8, <1>9, <1>12
  <2>4. l2.durable <= Len(l2.recs)
    BY <1>1, <1>6, <1>9, <1>13
  <2>5. Consecutive(l2.recs)
    BY <1>1, <1>6
  <2>6. l2.told <= d /\ l2.popped \subseteq 1 .. d
    BY DEF LogInv
  <2> QED
    BY <2>1, <2>2, <2>3, <2>4, <2>5, <2>6 DEF LogInv
<1>16. UpTo(l2, n2, d)
  <2>1. CASE p + q # 0
    BY <1>1, <1>7, <1>8, <2>1 DEF UpTo
  <2>2. CASE p + q = 0
    <3>1. p = 0 /\ n2 = a
      BY <1>2, <2>2
    <3> QED
      BY <1>1, <1>5, <1>7, <2>2, <3>1 DEF UpTo
  <2> QED
    BY <2>1, <2>2
<1>17. \A k \in 1 .. l.durable : l2.recs[k] = l.recs[k]
  <2>1. \A k \in 1 .. u : k \in 1 .. p
    BY <1>2, <1>10
  <2> QED
    BY <1>1, <1>6, <1>9, <2>1
<1> QED
  BY <1>15, <1>16, <1>17

Highest(m, S) == m \in S /\ \A x \in S : x <= m
IsGiven(g, l, rs, m) ==
  /\ g \in LogType /\ g.recs = l.recs \o rs /\ g.pending = m
  /\ g.st = l.st /\ g.durable = l.durable /\ g.told = l.told /\ g.popped = l.popped
  /\ g.lastQueued = l.lastQueued /\ g.err = l.err

\* What a log is after it was given records.
LEMMA GivenFields ==
  ASSUME NEW l \in LogType, NEW rs \in Seq(Nat), NEW asks, NEW m,
         Highest(m, {l.pending} \cup {r \in Range(rs) : asks[r]})
  PROVE  IsGiven(Given(l, rs, asks), l, rs, m)
<1>1. l.recs \in Seq(Nat) /\ l.pending \in Nat
  BY DEF LogType
<1>2. Range(rs) \subseteq Nat
  BY ElementOfSeq, LenProperties DEF Range
<1>3. {l.pending} \cup {r \in Range(rs) : asks[r]} \subseteq Nat
  BY <1>1, <1>2
<1>4. Max({l.pending} \cup {r \in Range(rs) : asks[r]}) = m
  BY <1>3, MaxOf DEF Highest
<1>5. l.recs \o rs \in Seq(Nat) /\ m \in Nat
  BY <1>1, <1>3, ConcatProperties DEF Highest
<1>6. Given(l, rs, asks) = [l EXCEPT !.recs = l.recs \o rs, !.pending = m]
  BY <1>4 DEF Given
<1> QED
  BY <1>5, <1>6 DEF LogType, IsGiven

\* The types, in the form the steps use.
LEMMA Basics ==
  ASSUME IInv
  PROVE  /\ Head1 \in Nat /\ Durable \in Nat /\ Durable <= Head1
         /\ tail \in Nat /\ tail <= Head1 /\ sem \in Int
         /\ (pc \notin {"failed", "panic"} => tail <= Durable) /\ acked \subseteq 1 .. Durable
         /\ MaxLogs \in Nat /\ next \in Logs
         /\ (writer # NoLog => writer \in Logs) /\ (writeTo # NoLog => writeTo \in Logs)
BY FailoverAssumption DEF IInv, TypeInv, FilesInv, Head1, Logs, NoLog

\* A step that changes neither the logs nor what is queued.
LEMMA PcStep ==
  ASSUME IInv, UNCHANGED <<queueVars, log, next, closeCalled, last, callVars>>,
         numWriters' \in 0 .. MaxLogs,
         \/ pc = "write" /\ pc' = "panic"
         \/ pc = "idle" /\ pc' = "loop" /\ numWriters' = next
         \/ pc \in {"loop", "woken"} /\ pc' = "wait"
         \/ pc \in {"loop", "woken"} /\ pc' = "exit" /\ last.closed
         \/ pc = "woken" /\ pc' = "loop" /\ numWriters' = next
  PROVE  IInv' /\ Durable' = Durable
<1> USE DEF IInv
<1>1. UNCHANGED <<records, tail, writer, writeTo, log, next, closeCalled, last, acked, failed, sem>>
  BY DEF queueVars, callVars
<1>2. TypeInv'
  BY <1>1 DEF TypeInv, Head1
<1>3. Head1' = Head1 /\ Head1' \in Nat /\ Head1 <= Head1'
  BY <1>1, Basics DEF Head1
<1>4. acked' \subseteq 1 .. Durable /\ (pc' \notin {"failed", "panic"} => tail' <= Durable)
  BY <1>1, Basics
<1>5. FilesInv' /\ Durable' = Durable
  BY <1>1, <1>3, <1>4, NoLogChange
<1>6. AskedInv'
  BY <1>1, AskedFrame
<1>7. WriterInv'
  <2>1. Durable' \in Nat /\ Durable <= Durable'
    BY <1>5, Basics
  <2> QED
    BY <1>1, <2>1, WriterFrame
<1>8. UnitInv'
  BY <1>1, UnitFrame
<1>9. CloseInv'
  BY <1>1, CloseFrame
<1> QED
  BY <1>2, <1>5, <1>6, <1>7, <1>8, <1>9

\* The write fails, and the process ends.
LEMMA WriteRefusedStep ==
  ASSUME IInv, WriteRefused
  PROVE  IInv' /\ Durable' = Durable
<1>1. numWriters' \in 0 .. MaxLogs
  BY DEF WriteRefused, IInv, TypeInv, closeVars
<1> QED
  BY <1>1, PcStep DEF WriteRefused, closeVars

\* closeInternal begins.
LEMMA CloseStep ==
  ASSUME IInv, Close
  PROVE  IInv' /\ Durable' = Durable
<1>1. numWriters' \in 0 .. MaxLogs
  BY FailoverAssumption DEF Close, IInv, TypeInv
<1> QED
  BY <1>1, PcStep DEF Close

\* closeInternal is woken, and reads how many logs there are.
LEMMA WakeUpStep ==
  ASSUME IInv, WakeUp
  PROVE  IInv' /\ Durable' = Durable
<1>1. numWriters' \in 0 .. MaxLogs
  BY FailoverAssumption DEF WakeUp, IInv, TypeInv
<1> QED
  BY <1>1, PcStep DEF WakeUp

\* A log that was being created, and is not to be.
LEMMA UnusedStep ==
  ASSUME IInv, NEW i \in Logs, NEW s \in {"failed", "discarded"}, log[i].st = "creating",
         log' = [log EXCEPT ![i].st = s], UNCHANGED <<queueVars, next, closeVars, callVars>>,
         pc' = pc \/ (pc = "wait" /\ pc' = "woken"), pc \notin {"loop", "exit"}
  PROVE  IInv' /\ Durable' = Durable
<1> USE DEF IInv
<1>1. UNCHANGED <<records, tail, writer, writeTo, next, numWriters, closeCalled, last, acked, failed, sem>>
  BY DEF queueVars, callVars, closeVars
<1> DEFINE l == [log[i] EXCEPT !.st = s]
<1>2. log' = [log EXCEPT ![i] = l]
  OBVIOUS
<1>3. /\ log[i] \in LogType /\ LogInv(log[i], Durable, Head1) /\ log[i].durable \in Nat
      /\ log[i].popped = {} /\ log[i].told = 0 /\ log[i].recs = <<>> /\ log[i].pending = 0
  BY LogFields DEF LogInv, Empty
<1>4. /\ l \in LogType /\ l.st = s /\ l.recs = log[i].recs /\ l.durable = log[i].durable
      /\ l.pending = log[i].pending /\ l.told = log[i].told /\ l.popped = log[i].popped
      /\ l.lastQueued = log[i].lastQueued /\ l.err = log[i].err
  BY <1>3 DEF LogType, States
<1> HIDE DEF l
<1>5. LogInv(l, Durable, Head1)
  BY <1>3, <1>4 DEF LogInv, End, Empty
<1>6. acked' \subseteq 1 .. Durable /\ (pc' \notin {"failed", "panic"} => tail' <= Durable)
  BY <1>1, Basics
<1>7. /\ FilesInv' /\ Durable' = Durable /\ Head1' = Head1
      /\ log' \in [Logs -> LogType] /\ log'[i] = l
      /\ \A j \in Logs : j # i => log'[j] = log[j]
  BY <1>1, <1>2, <1>4, <1>5, <1>6, OneLog
<1>8. TypeInv'
  BY <1>1, <1>7 DEF TypeInv
<1>9. AskedInv'
  BY <1>1, AskedFrame
<1>10. WriterInv'
  <2>1. Durable' \in Nat /\ Durable <= Durable'
    BY <1>7, Basics
  <2>2. ASSUME NEW j \in Logs
        PROVE  /\ log'[j].recs = log[j].recs
               /\ log[j].st \notin Empty => log'[j].st \notin Empty
               /\ log'[j].st = "open" => log[j].st = "open"
               /\ log[j].st = "none" => log'[j].st = "none"
    BY <1>4, <1>7 DEF Empty
  <2> QED
    BY <1>1, <2>1, <2>2, WriterFrame
<1>11. UnitInv'
  <2>1. \A j \in Logs : log'[j].popped = log[j].popped /\ log'[j].told = log[j].told
    BY <1>4, <1>7
  <2> QED
    BY <1>1, <2>1, UnitFrame
<1>12. CloseInv'
  <2>1. ASSUME NEW j \in Logs
        PROVE  /\ log'[j].st \in {"closing", "synced", "closed"} =>
                    log[j].st \in {"closing", "synced", "closed"}
               /\ log'[j].st = "closing" =>
                    log[j].st = "closing" /\ log'[j].lastQueued = log[j].lastQueued
               /\ (log'[j].st = "synced" /\ ~log'[j].err) =>
                    log[j].st = "synced" /\ ~log[j].err /\ log'[j].told = log[j].told
    BY <1>4, <1>7
  <2> QED
    BY <1>1, <1>7, <2>1, CloseFrame
<1> QED
  BY <1>7, <1>8, <1>9, <1>10, <1>11, <1>12

\* A log cannot be created ...
LEMMA CreateFailsStep ==
  ASSUME IInv, NEW i \in Logs, CreateFails(i)
  PROVE  IInv' /\ Durable' = Durable
BY UnusedStep DEF CreateFails, Signal, MuFree

\* ... or comes too late.
LEMMA DiscardStep ==
  ASSUME IInv, NEW i \in Logs, Discard(i)
  PROVE  IInv' /\ Durable' = Durable
BY UnusedStep DEF Discard, MuFree

\* A log that was reserved for the monitor.
LEMMA SwitchStep ==
  ASSUME IInv, SwitchToNewDir
  PROVE  IInv' /\ Durable' = Durable
<1> USE DEF IInv
<1>1. /\ UNCHANGED <<pc, records, tail, writer, writeTo, numWriters, closeCalled, last, acked, failed, sem>>
      /\ next' = next + 1 /\ pc # "loop"
  BY DEF SwitchToNewDir, queueVars, callVars, closeVars, MuFree
<1>2. PICK i \in Logs : i = next + 1
  BY Basics DEF SwitchToNewDir, Logs
<1> DEFINE l == [log[i] EXCEPT !.st = "creating"]
<1>3. log' = [log EXCEPT ![i] = l]
  BY <1>1, <1>2 DEF SwitchToNewDir, Reserve
<1>4. log[i].st = "none" /\ \A j \in Logs : j > next => log[j].st = "none"
  <2>1. i > next
    BY <1>2, Basics DEF Logs
  <2> QED
    BY <2>1 DEF WriterInv
<1>5. /\ log[i] \in LogType /\ LogInv(log[i], Durable, Head1) /\ log[i].durable \in Nat
      /\ log[i].popped = {} /\ log[i].told = 0 /\ log[i].recs = <<>> /\ log[i].pending = 0
  BY <1>4, LogFields DEF LogInv, Empty
<1>6. /\ l \in LogType /\ l.st = "creating" /\ l.recs = log[i].recs /\ l.durable = log[i].durable
      /\ l.pending = log[i].pending /\ l.told = log[i].told /\ l.popped = log[i].popped
      /\ l.lastQueued = log[i].lastQueued /\ l.err = log[i].err
  BY <1>5 DEF LogType, States
<1> HIDE DEF l
<1>7. LogInv(l, Durable, Head1)
  BY <1>5, <1>6 DEF LogInv, End, Empty
<1>8. acked' \subseteq 1 .. Durable /\ (pc' \notin {"failed", "panic"} => tail' <= Durable)
  BY <1>1, Basics
<1>9. /\ FilesInv' /\ Durable' = Durable /\ Head1' = Head1
      /\ log' \in [Logs -> LogType] /\ log'[i] = l
      /\ \A j \in Logs : j # i => log'[j] = log[j]
  BY <1>1, <1>3, <1>6, <1>7, <1>8, OneLog
<1>10. TypeInv'
  <2>1. next' \in 1 .. MaxLogs
    BY <1>1, <1>2, Basics DEF Logs
  <2> QED
    BY <1>1, <1>9, <2>1 DEF TypeInv
<1>11. AskedInv'
  BY <1>1, AskedFrame
<1>12. WriterInv'
  <2>1. \A j \in Logs : log[j].st \notin Empty => log'[j] = log[j]
    BY <1>4, <1>9 DEF Empty
  <2>2. log'[next'].st # "open"
    BY <1>1, <1>2, <1>6, <1>9
  <2>3. \A j \in Logs : j > next' => log'[j].st = "none"
    <3>1. \A j \in Logs : j > next' => j > next /\ j # i
      BY <1>1, <1>2, Basics DEF Logs
    <3> QED
      BY <1>4, <1>9, <3>1
  <2>4. writer # NoLog => log'[writer] = log[writer]
    BY <2>1, Basics DEF WriterInv
  <2>5. pc = "write" => log'[writeTo] = log[writeTo]
    BY <2>1, Basics DEF WriterInv
  <2> QED
    BY <1>1, <1>9, <2>2, <2>3, <2>4, <2>5 DEF WriterInv
<1>13. UnitInv'
  <2>1. \A j \in Logs : log'[j].popped = log[j].popped /\ log'[j].told = log[j].told
    BY <1>6, <1>9
  <2> QED
    BY <1>1, <2>1, UnitFrame
<1>14. CloseInv'
  <2>1. ASSUME NEW j \in Logs
        PROVE  /\ log'[j].st \in {"closing", "synced", "closed"} =>
                    log[j].st \in {"closing", "synced", "closed"}
               /\ log'[j].st = "closing" =>
                    log[j].st = "closing" /\ log'[j].lastQueued = log[j].lastQueued
               /\ (log'[j].st = "synced" /\ ~log'[j].err) =>
                    log[j].st = "synced" /\ ~log[j].err /\ log'[j].told = log[j].told
    BY <1>6, <1>9
  <2>2. pc' = "exit" => last.closed
    BY <1>1 DEF CloseInv
  <2> QED
    BY <1>1, <1>9, <2>1, <2>2, CloseFrame
<1> QED
  BY <1>9, <1>10, <1>11, <1>12, <1>13, <1>14

\* A log is given records: what is common to a write and to the take-over.
LEMMA GivenStep ==
  ASSUME IInv, NEW i \in Logs, NEW l \in LogType, NEW a \in Nat, NEW rs \in Seq(Nat),
         log' = [log EXCEPT ![i] = l], UNCHANGED <<records, tail, next, closeVars, callVars>>,
         UpTo(log[i], a, Durable), Len(rs) = Head1 - a, Follow(rs, a),
         l.recs = log[i].recs \o rs, l.durable = log[i].durable, l.told = log[i].told,
         l.popped = log[i].popped, l.lastQueued = log[i].lastQueued, l.err = log[i].err,
         l.pending = log[i].pending \/ \E k \in 1 .. Len(rs) : l.pending = rs[k],
         l.st = log[i].st \/ (log[i].st = "creating" /\ l.st = "open"), l.st \notin Empty,
         writer' \in Logs, writeTo' \in 0 .. MaxLogs,
         \/ pc = "write" /\ pc' = "idle"
         \/ pc \in {"idle", "write", "wait", "woken"} /\ pc' = pc
         \/ pc = "wait" /\ pc' = "woken"
  PROVE  /\ TypeInv' /\ FilesInv' /\ AskedInv' /\ UnitInv' /\ CloseInv'
         /\ Durable' = Durable /\ Head1' = Head1 /\ UpTo(log'[i], Head1, Durable)
         /\ log'[i] = l /\ \A j \in Logs : j # i => log'[j] = log[j]
<1> USE DEF IInv
<1>1. UNCHANGED <<records, tail, next, numWriters, closeCalled, last, acked, failed, sem>>
  BY DEF callVars, closeVars
<1>2. /\ log[i] \in LogType /\ LogInv(log[i], Durable, Head1) /\ Durable \in Nat /\ Head1 \in Nat
      /\ log[i].recs \in Seq(Nat)
  BY LogFields
<1>3. Joins(l.recs, log[i].recs, rs)
  BY <1>2, ConcatJoins
<1>4. l.st = "closing" => log[i].st = "closing"
  OBVIOUS
<1>5. Head1 <= Head1
  BY <1>2
<1>6. /\ LogInv(l, Durable, Head1) /\ UpTo(l, Head1, Durable)
      /\ \A k \in 1 .. log[i].durable : l.recs[k] = log[i].recs[k]
  BY <1>2, <1>3, <1>4, <1>5, MoreRecords
<1>7. acked' \subseteq 1 .. Durable /\ (pc' \notin {"failed", "panic"} => tail' <= Durable)
  BY <1>1, Basics
<1>8. /\ FilesInv' /\ Durable' = Durable /\ Head1' = Head1
      /\ log' \in [Logs -> LogType] /\ log'[i] = l
      /\ \A j \in Logs : j # i => log'[j] = log[j]
  BY <1>1, <1>6, <1>7, OneLog
<1>9. TypeInv'
  <2>1. writer' \in 0 .. MaxLogs
    BY Basics DEF Logs
  <2>2. pc' \in {"idle", "write", "wait", "woken"}
    OBVIOUS
  <2> QED
    BY <1>1, <1>8, <2>1, <2>2 DEF TypeInv
<1>10. AskedInv'
  BY <1>1, AskedFrame
<1>11. UnitInv'
  <2>1. \A j \in Logs : log'[j].popped = log[j].popped /\ log'[j].told = log[j].told
    BY <1>8
  <2> QED
    BY <1>1, <2>1, UnitFrame
<1>12. CloseInv'
  <2>1. ASSUME NEW j \in Logs
        PROVE  /\ log'[j].st \in {"closing", "synced", "closed"} =>
                    log[j].st \in {"closing", "synced", "closed"}
               /\ log'[j].st = "closing" =>
                    log[j].st = "closing" /\ log'[j].lastQueued = log[j].lastQueued
               /\ (log'[j].st = "synced" /\ ~log'[j].err) =>
                    log[j].st = "synced" /\ ~log[j].err /\ log'[j].told = log[j].told
    BY <1>8
  <2> QED
    BY <1>1, <1>8, <2>1, CloseFrame
<1> QED
  BY <1>6, <1>8, <1>9, <1>10, <1>11, <1>12

\* The record that was pushed is written to the log that was the writer then.
LEMMA WriteStep ==
  ASSUME IInv, Write
  PROVE  IInv' /\ Durable' = Durable
<1> USE DEF IInv
<1>1. /\ UNCHANGED <<records, tail, writer, next, closeVars, callVars>> /\ writeTo' = NoLog
      /\ pc = "write" /\ pc' = "idle"
      /\ log' = [log EXCEPT ![writeTo] = Given(@, <<Head1>>, records)]
  BY DEF Write
<1>2. PICK i \in Logs : i = writeTo
  BY <1>1, Basics DEF WriterInv
<1>3. /\ writer \in Logs /\ Head1 >= 1 /\ log[i].st \notin Empty
      /\ UpTo(log[i], Head1 - 1, Durable)
      /\ writer # i => UpTo(log[writer], Head1, Durable)
  BY <1>1, <1>2, Basics DEF WriterInv
<1>4. PICK a \in Nat : a = Head1 - 1
  BY <1>3, Basics
<1> DEFINE rs == <<Head1>>
           S == {log[i].pending} \cup {r \in Range(rs) : records[r]}
<1>5. rs \in Seq(Nat) /\ Len(rs) = 1 /\ rs[1] = Head1 /\ DOMAIN rs = {1}
  BY Basics
<1>6. Range(rs) = {Head1}
  BY <1>5 DEF Range
<1>7. Len(rs) = Head1 - a /\ Follow(rs, a)
  <2>1. 1 = Head1 - a /\ Head1 = a + 1
    BY <1>4, Basics
  <2> QED
    BY <1>5, <2>1 DEF Follow
<1>8. log[i].pending \in Nat /\ log[i].pending <= Head1
  <2>1. log[i].pending # 0 => log[i].recs # <<>> /\ log[i].pending <= End(log[i])
    BY LogFields DEF LogInv
  <2>2. log[i].recs # <<>> => End(log[i]) <= Head1 /\ End(log[i]) \in Nat
    BY LogFields DEF LogInv
  <2>3. log[i].pending \in Nat
    BY LogFields
  <2> QED
    BY <2>1, <2>2, <2>3, Basics
<1>9. PICK m \in S : \A x \in S : x <= m
  <2>1. CASE records[Head1]
    <3>1. Head1 \in S /\ \A x \in S : x <= Head1
      BY <1>6, <1>8, <2>1, Basics
    <3> QED
      BY <3>1
  <2>2. CASE ~records[Head1]
    <3>1. S = {log[i].pending} /\ log[i].pending <= log[i].pending
      BY <1>6, <1>8, <2>2
    <3> QED
      BY <3>1
  <2> QED
    BY <2>1, <2>2
<1> DEFINE l == Given(log[i], rs, records)
<1>10. log[i] \in LogType
  BY LogFields
<1> HIDE DEF rs
<1>11. /\ l \in LogType /\ l.recs = log[i].recs \o rs /\ l.pending = m
       /\ l.st = log[i].st /\ l.durable = log[i].durable /\ l.told = log[i].told
       /\ l.popped = log[i].popped /\ l.lastQueued = log[i].lastQueued /\ l.err = log[i].err
  <2>1. Highest(m, S)
    BY <1>9 DEF Highest
  <2>2. IsGiven(l, log[i], rs, m)
    BY <1>5, <1>10, <2>1, GivenFields
  <2> QED
    BY <2>2 DEF IsGiven
<1>12. log' = [log EXCEPT ![i] = l]
  BY <1>1, <1>2 DEF rs
<1>13. l.pending = log[i].pending \/ \E k \in 1 .. Len(rs) : l.pending = rs[k]
  BY <1>5, <1>6, <1>9, <1>11
<1> HIDE DEF l
<1>14. writer' \in Logs /\ writeTo' \in 0 .. MaxLogs /\ UpTo(log[i], a, Durable) /\ l.st \notin Empty
  BY <1>1, <1>3, <1>4, <1>11, Basics DEF NoLog
<1>15. /\ TypeInv' /\ FilesInv' /\ AskedInv' /\ UnitInv' /\ CloseInv'
       /\ Durable' = Durable /\ Head1' = Head1 /\ UpTo(log'[i], Head1, Durable)
       /\ log'[i] = l /\ \A j \in Logs : j # i => log'[j] = log[j]
  BY <1>1, <1>5, <1>7, <1>11, <1>12, <1>13, <1>14, GivenStep
<1>16. WriterInv'
  <2>1. UpTo(log'[writer], Head1, Durable)
    BY <1>3, <1>15
  <2>2. \A j \in Logs : log'[j].st = log[j].st
    BY <1>11, <1>15
  <2> QED
    BY <1>1, <1>15, <2>1, <2>2, Basics DEF WriterInv
<1> QED
  BY <1>15, <1>16

\* The newest log takes over, with all that is queued.
LEMMA InstallStep ==
  ASSUME IInv, NEW i \in Logs, Install(i), pc # "panic"
  PROVE  IInv' /\ Durable' = Durable
<1> USE DEF IInv
<1> DEFINE rs == [k \in 1 .. Head1 - tail |-> tail + k]
           g == Given(log[i], rs, records)
           l == [g EXCEPT !.st = "open"]
<1>1. /\ UNCHANGED <<records, tail, writeTo, next, closeVars, callVars>> /\ writer' = i
      /\ pc \in {"idle", "write", "wait", "woken"} /\ pc' = IF pc = "wait" THEN "woken" ELSE pc
      /\ log[i].st = "creating" /\ i = next /\ log' = [log EXCEPT ![i] = l]
  BY DEF Install, MuFree, Signal, TypeInv
<1>2. /\ log[i] \in LogType /\ log[i].recs = <<>> /\ log[i].pending = 0
  BY <1>1, LogFields DEF LogInv, Empty
<1>3. tail \in Nat /\ Head1 \in Nat /\ tail <= Durable /\ tail <= Head1 /\ Head1 - tail \in Nat
  BY <1>1, Basics
<1>4. rs \in Seq(Nat) /\ Len(rs) = Head1 - tail /\ DOMAIN rs = 1 .. Head1 - tail
  BY <1>3, SeqDef
<1>5. Follow(rs, tail)
  BY <1>4 DEF Follow
<1>6. UpTo(log[i], tail, Durable)
  BY <1>2, <1>3 DEF UpTo
<1>7. Range(rs) = tail + 1 .. Head1
  <2>1. ASSUME NEW x \in tail + 1 .. Head1 PROVE x \in Range(rs)
    <3>1. x - tail \in 1 .. Head1 - tail /\ rs[x - tail] = x
      BY <1>3
    <3> QED
      BY <1>4, <3>1 DEF Range
  <2>2. ASSUME NEW x \in Range(rs) PROVE x \in tail + 1 .. Head1
    <3>1. PICK k \in 1 .. Head1 - tail : x = rs[k]
      BY <1>4 DEF Range
    <3>2. x = tail + k
      BY <3>1
    <3> QED
      BY <1>3, <3>2
  <2> QED
    BY <2>1, <2>2
<1> HIDE DEF rs
<1> DEFINE S == {log[i].pending} \cup {r \in Range(rs) : records[r]}
<1>8. PICK m \in S : \A x \in S : x <= m
  <2>1. S = {0} \cup {r \in tail + 1 .. Head1 : records[r]}
    BY <1>2, <1>7
  <2> HIDE DEF S
  <2> QED
    BY <1>3, <2>1 DEF AskedInv
<1>9. /\ g \in LogType /\ g.recs = log[i].recs \o rs /\ g.pending = m
      /\ g.st = log[i].st /\ g.durable = log[i].durable /\ g.told = log[i].told
      /\ g.popped = log[i].popped /\ g.lastQueued = log[i].lastQueued /\ g.err = log[i].err
  <2>1. Highest(m, S)
    BY <1>8 DEF Highest
  <2>2. IsGiven(g, log[i], rs, m)
    BY <1>2, <1>4, <2>1, GivenFields
  <2> QED
    BY <2>2 DEF IsGiven
<1> HIDE DEF g
<1>10. /\ l \in LogType /\ l.recs = log[i].recs \o rs /\ l.pending = m
       /\ l.st = "open" /\ l.durable = log[i].durable /\ l.told = log[i].told
       /\ l.popped = log[i].popped /\ l.lastQueued = log[i].lastQueued /\ l.err = log[i].err
  BY <1>9 DEF LogType, States
<1> HIDE DEF l
<1>11. l.pending = log[i].pending \/ \E k \in 1 .. Len(rs) : l.pending = rs[k]
  BY <1>4, <1>8, <1>10 DEF Range
<1>12. writer' \in Logs /\ writeTo' \in 0 .. MaxLogs /\ l.st \notin Empty
  BY <1>1, <1>10 DEF TypeInv, Empty
<1>13. /\ TypeInv' /\ FilesInv' /\ AskedInv' /\ UnitInv' /\ CloseInv'
       /\ Durable' = Durable /\ Head1' = Head1 /\ UpTo(log'[i], Head1, Durable)
       /\ log'[i] = l /\ \A j \in Logs : j # i => log'[j] = log[j]
  BY <1>1, <1>3, <1>4, <1>5, <1>6, <1>10, <1>11, <1>12, GivenStep
<1>14. WriterInv'
  <2>1. i # NoLog
    BY <1>3 DEF Logs, NoLog
  <2>2. pc' = "write" => pc = "write" /\ writeTo # NoLog /\ writeTo \in Logs /\ writeTo # i
                         /\ log[writeTo].st \notin Empty /\ UpTo(log[writeTo], Head1 - 1, Durable)
                         /\ Head1 >= 1
    BY <1>1, Basics DEF WriterInv, Empty
  <2>3. pc' = "write" => log'[writeTo] = log[writeTo]
    BY <1>13, <2>2
  <2>4. \A j \in Logs : j > next => log'[j].st = "none"
    <3>1. \A j \in Logs : j > next => j # i
      BY <1>1, Basics DEF Logs
    <3> QED
      BY <1>13, <3>1 DEF WriterInv
  <2>5. log'[i].st \notin Empty
    BY <1>12, <1>13
  <2>6. pc' # "loop" /\ next' = next /\ writeTo' = writeTo
    BY <1>1
  <2> QED
    BY <1>1, <1>13, <2>1, <2>2, <2>3, <2>4, <2>5, <2>6 DEF WriterInv
<1> QED
  BY <1>13, <1>14

\* What the steps of the flush loop of a log have in common: they leave the
\* files and the queue to the parts of the invariant that are about them.
LEMMA FlushFrame ==
  ASSUME IInv, NEW i \in Logs, NEW l \in LogType, UNCHANGED <<pc, records, writer, writeTo, next, closeVars>>,
         FilesInv', Durable' \in Nat, Durable <= Durable', tail' \in 0 .. Head1, sem' \in Int,
         log' \in [Logs -> LogType], log'[i] = l, \A j \in Logs : j # i => log'[j] = log[j],
         l.recs = log[i].recs, l.st = log[i].st \/ (log[i].st = "closing" /\ l.st = "synced")
  PROVE  TypeInv' /\ AskedInv' /\ WriterInv'
<1> USE DEF IInv
<1>1. UNCHANGED <<numWriters, closeCalled, last>>
  BY DEF closeVars
<1>2. Head1' = Head1
  BY DEF Head1
<1>3. TypeInv'
  BY <1>1, <1>2 DEF TypeInv
<1>4. AskedInv'
  BY AskedFrame
<1>5. ASSUME NEW j \in Logs
      PROVE  /\ log'[j].recs = log[j].recs
             /\ log[j].st \notin Empty => log'[j].st \notin Empty
             /\ log'[j].st = "open" => log[j].st = "open"
             /\ log[j].st = "none" => log'[j].st = "none"
  BY DEF Empty
<1>6. pc' = "loop" => numWriters' = next
  BY <1>1 DEF WriterInv
<1> QED
  BY <1>3, <1>4, <1>5, <1>6, WriterFrame

\* A sync that succeeds: what the log holds is durable, and it is about to
\* report a record that is.
LEMMA SyncedStep ==
  ASSUME IInv, NEW i \in Logs, NEW l \in LogType, NEW report \in Nat,
         log' = [log EXCEPT ![i] = l], UNCHANGED <<pc, queueVars, next, closeVars, callVars>>,
         log[i].st \notin Empty, Idle(log[i]),
         report <= Durable \/ (log[i].recs # <<>> /\ report <= End(log[i])),
         l.recs = log[i].recs, l.durable = Len(l.recs), l.told = report, l.pending = 0,
         l.popped = log[i].popped, l.err = log[i].err,
         \/ l.st = log[i].st /\ l.lastQueued = log[i].lastQueued
         \/ log[i].st = "closing" /\ l.st = "synced"
  PROVE  /\ TypeInv' /\ FilesInv' /\ AskedInv' /\ WriterInv' /\ UnitInv'
         /\ Durable' \in Durable .. Head1 /\ Head1' = Head1
         /\ log'[i] = l /\ \A j \in Logs : j # i => log'[j] = log[j]
<1> USE DEF IInv
<1>1. UNCHANGED <<records, tail, writer, writeTo, numWriters, closeCalled, last, acked, failed, sem>>
  BY DEF callVars, closeVars, queueVars
<1>2. /\ log[i] \in LogType /\ LogInv(log[i], Durable, Head1) /\ Durable \in Nat /\ Head1 \in Nat
      /\ Durable <= Head1 /\ Len(log[i].recs) \in Nat /\ log[i].lastQueued \in Nat
      /\ log[i].recs # <<>> => End(log[i]) \in Nat
  BY LogFields
<1>3. End(l) = End(log[i])
  BY DEF End
<1>4. PICK e \in Nat : log[i].recs # <<>> => e = End(log[i])
  BY <1>2
<1>5. PICK d2 \in Nat : /\ Durable <= d2
                        /\ IF l.recs = <<>> THEN d2 = Durable
                           ELSE d2 = IF End(l) <= Durable THEN Durable ELSE End(l)
  <2>1. CASE log[i].recs = <<>>
    BY <1>2, <2>1
  <2>2. CASE log[i].recs # <<>>
    <3>1. \E d \in Nat : Durable <= d /\ d = IF e <= Durable THEN Durable ELSE e
      BY <1>2
    <3> QED
      BY <1>3, <1>4, <2>2, <3>1
  <2> QED
    BY <2>1, <2>2
<1>6. log[i].recs # <<>> => e <= d2 /\ d2 = (IF e <= Durable THEN Durable ELSE e) /\ e <= Head1
  <2>1. log[i].recs # <<>> => d2 = (IF e <= Durable THEN Durable ELSE e) /\ e <= Head1
    BY <1>2, <1>3, <1>4, <1>5 DEF LogInv
  <2> QED
    BY <1>2, <2>1
<1>7. report <= d2 /\ d2 <= Head1
  <2>1. report <= Durable \/ (log[i].recs # <<>> /\ report <= e)
    BY <1>4
  <2>2. log[i].recs = <<>> => d2 = Durable
    BY <1>5
  <2> QED
    BY <1>2, <1>5, <1>6, <2>1, <2>2
<1>8. LogInv(log[i], d2, Head1)
  <2>1. Head1 <= Head1
    BY <1>2
  <2> QED
    BY <1>2, <1>5, <2>1, LogMonotone
<1>9. LogInv(l, d2, Head1)
  <2>1. l.durable <= Len(l.recs)
    BY <1>2
  <2>2. l.popped \subseteq 1 .. d2 /\ Consecutive(l.recs)
    BY <1>8 DEF LogInv
  <2>3. l.recs # <<>> => l.recs[1] \in 1 .. d2 + 1 /\ End(l) <= Head1
    BY <1>3, <1>8 DEF LogInv
  <2>4. l.st = "closing" => l.lastQueued <= d2 \/ (l.recs # <<>> /\ l.lastQueued <= End(l))
    BY <1>3, <1>8 DEF LogInv
  <2>5. l.st \notin Empty
    BY DEF Empty
  <2> QED
    BY <1>7, <2>1, <2>2, <2>3, <2>4, <2>5 DEF LogInv
<1>10. /\ FilesInv' /\ Durable' = d2 /\ Head1' = Head1
       /\ log' \in [Logs -> LogType] /\ log'[i] = l
       /\ \A j \in Logs : j # i => log'[j] = log[j]
  BY <1>1, <1>5, <1>9, SyncedFiles
<1>11. TypeInv' /\ AskedInv' /\ WriterInv'
  <2>1. Durable' \in Nat /\ Durable <= Durable'
    BY <1>5, <1>10
  <2>2. tail' \in 0 .. Head1 /\ sem' \in Int
    BY <1>1 DEF TypeInv
  <2> QED
    BY <1>1, <1>10, <2>1, <2>2, FlushFrame
<1>12. UnitInv'
  <2>1. \A j \in Logs : /\ log'[j].popped = log[j].popped
                        /\ log'[j].told # 0 => log[j].told # 0 \/ log[j].popped = {}
    BY <1>10 DEF Idle
  <2> QED
    BY <1>1, <2>1, UnitFrame
<1>13. Durable' \in Durable .. Head1
  BY <1>2, <1>5, <1>7, <1>10
<1> QED
  BY <1>10, <1>11, <1>12, <1>13

\* A sync that fails: the log reports nothing any more.
LEMMA SyncFailedStep ==
  ASSUME IInv, NEW i \in Logs, NEW l \in LogType,
         log' = [log EXCEPT ![i] = l], UNCHANGED <<pc, queueVars, next, closeVars, callVars>>,
         l.recs = log[i].recs, l.durable = log[i].durable, l.told = log[i].told, l.pending = 0,
         l.popped = log[i].popped, l.err = TRUE,
         \/ l.st = log[i].st /\ l.lastQueued = log[i].lastQueued
         \/ log[i].st = "closing" /\ l.st = "synced"
  PROVE  IInv' /\ Durable' = Durable
<1> USE DEF IInv
<1>1. UNCHANGED <<records, tail, writer, writeTo, numWriters, closeCalled, last, acked, failed, sem>>
  BY DEF callVars, closeVars, queueVars
<1>2. LogInv(log[i], Durable, Head1) /\ Durable \in Nat
  BY LogFields
<1>3. LogInv(l, Durable, Head1)
  <2>1. l.st \in Empty => log[i].st \in Empty
    BY DEF Empty
  <2> QED
    BY <1>2, <2>1 DEF LogInv, End
<1>4. acked' \subseteq 1 .. Durable /\ (pc' \notin {"failed", "panic"} => tail' <= Durable)
  BY <1>1, Basics
<1>5. /\ FilesInv' /\ Durable' = Durable /\ Head1' = Head1
      /\ log' \in [Logs -> LogType] /\ log'[i] = l
      /\ \A j \in Logs : j # i => log'[j] = log[j]
  BY <1>1, <1>3, <1>4, OneLog
<1>6. TypeInv' /\ AskedInv' /\ WriterInv'
  <2>1. Durable' \in Nat /\ Durable <= Durable'
    BY <1>2, <1>5
  <2>2. tail' \in 0 .. Head1 /\ sem' \in Int
    BY <1>1 DEF TypeInv
  <2> QED
    BY <1>1, <1>5, <2>1, <2>2, FlushFrame
<1>7. UnitInv'
  <2>1. \A j \in Logs : log'[j].popped = log[j].popped /\ log'[j].told = log[j].told
    BY <1>5
  <2> QED
    BY <1>1, <2>1, UnitFrame
<1>8. CloseInv'
  <2>1. ASSUME NEW j \in Logs
        PROVE  /\ log'[j].st \in {"closing", "synced", "closed"} =>
                    log[j].st \in {"closing", "synced", "closed"}
               /\ log'[j].st = "closing" =>
                    log[j].st = "closing" /\ log'[j].lastQueued = log[j].lastQueued
               /\ (log'[j].st = "synced" /\ ~log'[j].err) =>
                    log[j].st = "synced" /\ ~log[j].err /\ log'[j].told = log[j].told
    BY <1>5
  <2>2. pc' = "exit" => last.closed
    BY <1>1 DEF CloseInv
  <2> QED
    BY <1>1, <1>5, <2>1, <2>2, CloseFrame
<1> QED
  BY <1>5, <1>6, <1>7, <1>8

\* A sync of the flush loop, which reports the record it was asked for.
LEMMA SyncStep ==
  ASSUME IInv, NEW i \in Logs, Sync(i)
  PROVE  IInv' /\ Durable' \in Durable .. Head1
<1> USE DEF IInv
<1>1. PICK err \in SyncErrs(log[i]) : log' = [log EXCEPT ![i] = Synced(@, log[i].pending, err)]
  BY DEF Sync
<1>2. /\ log[i].pending # 0 /\ Idle(log[i]) /\ UNCHANGED <<pc, queueVars, next, closeVars, callVars>>
  BY DEF Sync
<1> DEFINE l == Synced(log[i], log[i].pending, err)
<1>3. /\ log[i] \in LogType /\ Len(log[i].recs) \in Nat /\ log[i].pending \in Nat
      /\ LogInv(log[i], Durable, Head1) /\ Durable \in Nat /\ Durable <= Head1 /\ Head1 \in Nat
      /\ tail \in Nat /\ tail <= Head1
  BY LogFields
<1>4. log' = [log EXCEPT ![i] = l]
  BY <1>1
<1>5. CASE err
  <2>1. l = [log[i] EXCEPT !.err = TRUE, !.pending = 0]
    BY <1>5 DEF Synced
  <2> HIDE DEF l
  <2>2. /\ l \in LogType /\ l.recs = log[i].recs /\ l.durable = log[i].durable
        /\ l.told = log[i].told /\ l.pending = 0 /\ l.popped = log[i].popped /\ l.err = TRUE
        /\ l.st = log[i].st /\ l.lastQueued = log[i].lastQueued
    BY <1>3, <2>1 DEF LogType
  <2>3. IInv' /\ Durable' = Durable
    BY <1>2, <1>4, <2>2, SyncFailedStep
  <2> QED
    BY <1>3, <2>3
<1>6. CASE ~err
  <2>1. l = [log[i] EXCEPT !.durable = Len(log[i].recs), !.told = log[i].pending, !.pending = 0]
    BY <1>6 DEF Synced
  <2> HIDE DEF l
  <2>2. /\ l \in LogType /\ l.recs = log[i].recs /\ l.durable = Len(l.recs)
        /\ l.told = log[i].pending /\ l.pending = 0 /\ l.popped = log[i].popped
        /\ l.err = log[i].err /\ l.st = log[i].st /\ l.lastQueued = log[i].lastQueued
    BY <1>3, <2>1 DEF LogType
  <2>3. log[i].st \notin Empty /\ log[i].recs # <<>> /\ log[i].pending <= End(log[i])
    BY <1>2, <1>3 DEF LogInv
  <2>4. /\ TypeInv' /\ FilesInv' /\ AskedInv' /\ WriterInv' /\ UnitInv'
        /\ Durable' \in Durable .. Head1 /\ Head1' = Head1
        /\ log'[i] = l /\ \A j \in Logs : j # i => log'[j] = log[j]
    BY <1>2, <1>3, <1>4, <2>2, <2>3, SyncedStep
  <2>5. CloseInv'
    <3>1. log[i].told = Head1 => tail = Head1
      BY <1>2, <1>3 DEF Idle
    <3>2. ASSUME NEW j \in Logs
          PROVE  /\ log'[j].st \in {"closing", "synced", "closed"} =>
                      log[j].st \in {"closing", "synced", "closed"}
                 /\ log'[j].st = "closing" =>
                      log[j].st = "closing" /\ log'[j].lastQueued = log[j].lastQueued
                 /\ (log'[j].st = "synced" /\ ~log'[j].err) =>
                      /\ log[j].st = "synced" /\ ~log[j].err
                      /\ log'[j].told = log[j].told \/ (log[j].told = Head1 => tail = Head1)
      BY <2>2, <2>4, <3>1
    <3>3. UNCHANGED <<records, tail, last, closeCalled, pc>>
      BY <1>2 DEF queueVars, closeVars
    <3>4. pc' = "exit" => last.closed
      BY <3>3 DEF CloseInv
    <3> QED
      BY <3>2, <3>3, <3>4, CloseFrame
  <2> QED
    BY <2>4, <2>5
<1> QED
  BY <1>5, <1>6

\* The sync of a log that is closed, which reports the last queued record.
LEMMA SyncOnCloseStep ==
  ASSUME IInv, NEW i \in Logs, SyncOnClose(i)
  PROVE  IInv' /\ Durable' \in Durable .. Head1
<1> USE DEF IInv
<1>1. PICK err \in SyncErrs(log[i]) :
        log' = [log EXCEPT ![i] = [Synced(@, log[i].lastQueued, err)
                                   EXCEPT !.st = "synced", !.lastQueued = 0]]
  BY DEF SyncOnClose
<1>2. /\ log[i].st = "closing" /\ log[i].pending = 0 /\ Idle(log[i])
      /\ UNCHANGED <<pc, queueVars, next, closeVars, callVars>>
  BY DEF SyncOnClose
<1> DEFINE g == Synced(log[i], log[i].lastQueued, err)
           l == [g EXCEPT !.st = "synced", !.lastQueued = 0]
<1>3. /\ log[i] \in LogType /\ Len(log[i].recs) \in Nat /\ log[i].lastQueued \in Nat
      /\ LogInv(log[i], Durable, Head1) /\ Durable \in Nat /\ Durable <= Head1 /\ Head1 \in Nat
      /\ tail \in Nat /\ tail <= Head1
  BY LogFields
<1>4. log' = [log EXCEPT ![i] = l]
  BY <1>1
<1>5. CASE err
  <2>1. g = [log[i] EXCEPT !.err = TRUE, !.pending = 0]
    BY <1>5 DEF Synced
  <2> HIDE DEF g
  <2>2. /\ l \in LogType /\ l.recs = log[i].recs /\ l.durable = log[i].durable
        /\ l.told = log[i].told /\ l.pending = 0 /\ l.popped = log[i].popped /\ l.err = TRUE
        /\ l.st = "synced"
    BY <1>3, <2>1 DEF LogType, States
  <2> HIDE DEF l
  <2>3. IInv' /\ Durable' = Durable
    BY <1>2, <1>4, <2>2, SyncFailedStep
  <2> QED
    BY <1>3, <2>3
<1>6. CASE ~err
  <2>1. g = [log[i] EXCEPT !.durable = Len(log[i].recs), !.told = log[i].lastQueued, !.pending = 0]
    BY <1>6 DEF Synced
  <2> HIDE DEF g
  <2>2. /\ l \in LogType /\ l.recs = log[i].recs /\ l.durable = Len(l.recs)
        /\ l.told = log[i].lastQueued /\ l.pending = 0 /\ l.popped = log[i].popped
        /\ l.err = log[i].err /\ l.st = "synced"
    BY <1>3, <2>1 DEF LogType, States
  <2> HIDE DEF l
  <2>3. /\ log[i].st \notin Empty
        /\ log[i].lastQueued <= Durable \/ (log[i].recs # <<>> /\ log[i].lastQueued <= End(log[i]))
    BY <1>2, <1>3 DEF LogInv, Empty
  <2>4. /\ TypeInv' /\ FilesInv' /\ AskedInv' /\ WriterInv' /\ UnitInv'
        /\ Durable' \in Durable .. Head1 /\ Head1' = Head1
        /\ log'[i] = l /\ \A j \in Logs : j # i => log'[j] = log[j]
    BY <1>2, <1>3, <1>4, <2>2, <2>3, SyncedStep
  <2>5. CloseInv'
    <3>1. UNCHANGED <<records, tail, last, closeCalled, pc>>
      BY <1>2 DEF queueVars, closeVars
    <3>2. last.index # 0 => last.index \in Logs
      BY DEF TypeInv, Logs
    <3>3. \A j \in Logs : log'[j].st \in {"closing", "synced", "closed"} =>
                            log[j].st \in {"closing", "synced", "closed"}
      BY <1>2, <2>2, <2>4
    <3>4. last.index # 0 =>
            /\ log'[last.index].st = "closing" => log'[last.index].lastQueued = Head1
            /\ (log'[last.index].st = "synced" /\ ~log'[last.index].err) =>
                 tail = Head1 \/ log'[last.index].told = Head1
            /\ (last.closed /\ ~last.err) => tail = Head1
      <4>1. CASE last.index = i
        BY <1>2, <2>2, <2>4, <4>1 DEF CloseInv
      <4>2. CASE last.index # i
        BY <2>4, <3>2, <4>2 DEF CloseInv
      <4> QED
        BY <4>1, <4>2
    <3> QED
      BY <2>4, <3>1, <3>3, <3>4 DEF CloseInv
  <2> QED
    BY <2>4, <2>5
<1> QED
  BY <1>5, <1>6

\* Those who wait and those who were popped are finitely many.
LEMMA FiniteParts ==
  ASSUME IInv
  PROVE  /\ IsFiniteSet(Waiting) /\ Waiting \subseteq tail + 1 .. Head1
         /\ IsFiniteSet(Popped) /\ Popped \subseteq 1 .. tail
         /\ Cardinality(Waiting) \in Nat /\ Cardinality(Popped) \in Nat
<1>1. IsFiniteSet(tail + 1 .. Head1) /\ IsFiniteSet(1 .. tail)
  BY Basics, FS_Interval
<1>2. Waiting \subseteq tail + 1 .. Head1 /\ Popped \subseteq 1 .. tail
  BY DEF Waiting, Popped, IInv, UnitInv
<1>3. IsFiniteSet(Waiting) /\ IsFiniteSet(Popped)
  BY <1>1, <1>2, FS_Subset
<1> QED
  BY <1>2, <1>3, FS_CardinalityType

\* The size of a disjoint union.
LEMMA DisjointUnion ==
  ASSUME NEW S, NEW T, IsFiniteSet(S), IsFiniteSet(T), S \cap T = {}
  PROVE  /\ Cardinality(S \cup T) = Cardinality(S) + Cardinality(T)
         /\ Cardinality(S) \in Nat /\ Cardinality(T) \in Nat
<1>1. Cardinality(S \cup T) = Cardinality(S) + Cardinality(T) - Cardinality(S \cap T)
  BY FS_Union
<1>2. Cardinality(S \cap T) = 0
  BY FS_EmptySet
<1>3. Cardinality(S) \in Nat /\ Cardinality(T) \in Nat
  BY FS_CardinalityType
<1> QED
  BY <1>1, <1>2, <1>3

\* pop: the waiters up to the reported record leave the queue for the log that
\* tells them, whoever else has reported meanwhile.
LEMMA PopStep ==
  ASSUME IInv, NEW i \in Logs, Pop(i)
  PROVE  IInv' /\ Durable' = Durable
<1> USE DEF IInv
<1>1. UNCHANGED <<pc, records, writer, writeTo, next, closeVars, acked, failed, sem>>
  BY DEF Pop, callVars
<1>2. PICK t : t = log[i].told
  OBVIOUS
<1> DEFINE new == {r \in tail + 1 .. t : records[r]}
           l == [log[i] EXCEPT !.told = 0, !.popped = new]
<1>3. t # 0 /\ log' = [log EXCEPT ![i] = l] /\ tail' = Max({tail, t})
  BY <1>2 DEF Pop
<1>4. /\ log[i] \in LogType /\ t \in Nat /\ LogInv(log[i], Durable, Head1) /\ t <= Durable
      /\ Durable \in Nat /\ Head1 \in Nat /\ Durable <= Head1 /\ tail \in Nat /\ tail <= Head1
  BY <1>2, LogFields DEF LogInv
<1>5. /\ tail' = IF tail <= t THEN t ELSE tail
      /\ tail' \in Nat /\ tail' <= Head1 /\ tail <= tail' /\ t <= tail'
  <2>1. CASE tail <= t
    <3>1. {tail, t} \subseteq Nat /\ t \in {tail, t} /\ \A x \in {tail, t} : x <= t
      BY <1>4, <2>1
    <3>2. Max({tail, t}) = t
      BY <3>1, MaxOf
    <3> QED
      BY <1>3, <1>4, <2>1, <3>2
  <2>2. CASE ~(tail <= t)
    <3>1. {tail, t} \subseteq Nat /\ tail \in {tail, t} /\ \A x \in {tail, t} : x <= tail
      BY <1>4, <2>2
    <3>2. Max({tail, t}) = tail
      BY <3>1, MaxOf
    <3> QED
      BY <1>3, <1>4, <2>2, <3>2
  <2> QED
    BY <2>1, <2>2
<1>6. new \in SUBSET Nat /\ new \subseteq 1 .. Durable /\ new \subseteq 1 .. tail' /\ new \cap 1 .. tail = {}
  BY <1>4, <1>5
<1> HIDE DEF new
<1>7. /\ l \in LogType /\ l.recs = log[i].recs /\ l.durable = log[i].durable /\ l.told = 0
      /\ l.pending = log[i].pending /\ l.popped = new /\ l.err = log[i].err /\ l.st = log[i].st
      /\ l.lastQueued = log[i].lastQueued
  BY <1>4, <1>6 DEF LogType
<1> HIDE DEF l
<1>8. log[i].st \notin Empty
  BY <1>2, <1>3, <1>4 DEF LogInv
<1>9. LogInv(l, Durable, Head1)
  <2>1. l.told <= Durable
    BY <1>4, <1>7
  <2> QED
    BY <1>4, <1>6, <1>7, <1>8, <2>1 DEF LogInv, End
<1>10. acked' \subseteq 1 .. Durable /\ (pc' \notin {"failed", "panic"} => tail' <= Durable)
  BY <1>1, <1>4, <1>5, Basics
<1>11. /\ FilesInv' /\ Durable' = Durable /\ Head1' = Head1
       /\ log' \in [Logs -> LogType] /\ log'[i] = l
       /\ \A j \in Logs : j # i => log'[j] = log[j]
  BY <1>1, <1>3, <1>7, <1>9, <1>10, OneLog
<1>12. TypeInv' /\ AskedInv' /\ WriterInv'
  <2>1. Durable' \in Nat /\ Durable <= Durable'
    BY <1>4, <1>11
  <2>2. tail' \in 0 .. Head1 /\ sem' \in Int
    BY <1>1, <1>4, <1>5, Basics
  <2> QED
    BY <1>1, <1>7, <1>11, <2>1, <2>2, FlushFrame
<1>13. log[i].popped = {}
  BY <1>2, <1>3 DEF UnitInv
<1>14. \A j \in Logs : log[j].popped \subseteq 1 .. tail /\ 1 .. tail \subseteq 1 .. tail'
  BY <1>4, <1>5 DEF UnitInv
<1>15. Popped' = Popped \cup new
  <2>1. Popped' = UNION {log'[j].popped : j \in Logs}
    BY DEF Popped
  <2>2. Popped = UNION {log[j].popped : j \in Logs}
    BY DEF Popped
  <2> QED
    BY <1>7, <1>11, <1>13, <2>1, <2>2
<1>16. Waiting = Waiting' \cup new /\ Waiting' \cap new = {} /\ Popped \cap new = {}
  <2>1. Waiting' = {r \in tail' + 1 .. Head1 : records[r]}
    BY <1>1, <1>11 DEF Waiting
  <2>2. Waiting = {r \in tail + 1 .. Head1 : records[r]}
    BY DEF Waiting
  <2>3. \A r : r \in tail + 1 .. Head1 <=> r \in tail' + 1 .. Head1 \/ r \in tail + 1 .. t
    BY <1>4, <1>5
  <2>4. \A r : ~(r \in tail' + 1 .. Head1 /\ r \in tail + 1 .. t)
    BY <1>4, <1>5
  <2>5. Popped \cap new = {}
    BY <1>6, FiniteParts
  <2> QED
    BY <2>1, <2>2, <2>3, <2>4, <2>5 DEF new
<1>17. IsFiniteSet(new) /\ IsFiniteSet(Waiting')
  BY <1>16, FiniteParts, FS_Subset
<1>18. /\ Cardinality(Waiting) = Cardinality(Waiting') + Cardinality(new)
       /\ Cardinality(Popped') = Cardinality(Popped) + Cardinality(new)
       /\ Cardinality(Waiting') \in Nat /\ Cardinality(new) \in Nat /\ Cardinality(Popped) \in Nat
  BY <1>15, <1>16, <1>17, FiniteParts, DisjointUnion
<1>19. UnitInv'
  <2>1. \A j \in Logs : log'[j].popped \subseteq 1 .. tail'
    BY <1>6, <1>7, <1>11, <1>14
  <2>2. \A j \in Logs : log'[j].told # 0 => log'[j].popped = {}
    BY <1>7, <1>11 DEF UnitInv
  <2>3. \A j, k \in Logs : j # k => log'[j].popped \cap log'[k].popped = {}
    BY <1>6, <1>7, <1>11, <1>14 DEF UnitInv
  <2>4. pc # "failed" => sem = Cardinality(Waiting) + Cardinality(Popped)
    BY DEF UnitInv
  <2>5. pc # "failed" => sem = Cardinality(Waiting') + Cardinality(Popped')
    BY <1>18, <2>4
  <2> QED
    BY <1>1, <2>1, <2>2, <2>3, <2>5 DEF UnitInv
<1>20. CloseInv'
  <2>1. (t = Head1 => tail' = Head1) /\ (tail = Head1 => tail' = Head1)
    BY <1>4, <1>5
  <2>2. ASSUME NEW j \in Logs
        PROVE  /\ log'[j].st \in {"closing", "synced", "closed"} =>
                    log[j].st \in {"closing", "synced", "closed"}
               /\ log'[j].st = "closing" =>
                    log[j].st = "closing" /\ log'[j].lastQueued = log[j].lastQueued
               /\ (log'[j].st = "synced" /\ ~log'[j].err) =>
                    /\ log[j].st = "synced" /\ ~log[j].err
                    /\ log'[j].told = log[j].told \/ (log[j].told = Head1 => tail' = Head1)
    BY <1>2, <1>7, <1>11, <2>1
  <2>3. UNCHANGED <<records, last, closeCalled, pc>> /\ (pc' = "exit" => last.closed)
    BY <1>1 DEF closeVars, CloseInv
  <2> QED
    BY <2>1, <2>2, <2>3, CloseFrame
<1> QED
  BY <1>11, <1>12, <1>19, <1>20

\* Those who were popped are told, and their units released.
LEMMA DoneStep ==
  ASSUME IInv, NEW i \in Logs, Done(i)
  PROVE  /\ IInv' /\ Durable' = Durable
         /\ \E S \in SUBSET (1 .. Durable) : acked' = acked \cup S
<1> USE DEF IInv
<1>1. /\ UNCHANGED <<pc, records, tail, writer, writeTo, next, closeVars, failed>>
      /\ acked' = acked \cup log[i].popped /\ sem' = sem - Cardinality(log[i].popped)
  BY DEF Done, queueVars
<1> DEFINE old == log[i].popped
           l == [log[i] EXCEPT !.popped = {}]
<1>2. log' = [log EXCEPT ![i] = l]
  BY DEF Done
<1>3. /\ log[i] \in LogType /\ LogInv(log[i], Durable, Head1) /\ log[i].popped \subseteq 1 .. Durable
      /\ Durable \in Nat /\ Head1 \in Nat /\ Durable <= Head1 /\ tail \in Nat /\ tail <= Head1
  BY LogFields DEF LogInv
<1>4. /\ l \in LogType /\ l.recs = log[i].recs /\ l.durable = log[i].durable /\ l.told = log[i].told
      /\ l.pending = log[i].pending /\ l.popped = {} /\ l.err = log[i].err /\ l.st = log[i].st
      /\ l.lastQueued = log[i].lastQueued
  BY <1>3 DEF LogType
<1> HIDE DEF l
<1>5. LogInv(l, Durable, Head1)
  BY <1>3, <1>4 DEF LogInv, End
<1>6. acked' \subseteq 1 .. Durable /\ (pc' \notin {"failed", "panic"} => tail' <= Durable)
  BY <1>1, <1>3, Basics
<1>7. /\ FilesInv' /\ Durable' = Durable /\ Head1' = Head1
      /\ log' \in [Logs -> LogType] /\ log'[i] = l
      /\ \A j \in Logs : j # i => log'[j] = log[j]
  BY <1>1, <1>2, <1>4, <1>5, <1>6, OneLog
<1>8. Popped = Popped' \cup old /\ Popped' \cap old = {} /\ Waiting' = Waiting
  <2>1. Popped' = UNION {log'[j].popped : j \in Logs}
    BY DEF Popped
  <2>2. Popped = UNION {log[j].popped : j \in Logs}
    BY DEF Popped
  <2>3. \A j \in Logs : j # i => log[j].popped \cap old = {}
    BY DEF UnitInv
  <2>4. Waiting' = Waiting
    BY <1>1, <1>7 DEF Waiting
  <2>5. Popped = Popped' \cup old
    BY <1>4, <1>7, <2>1, <2>2
  <2>6. Popped' \cap old = {}
    BY <1>4, <1>7, <2>1, <2>3
  <2> QED
    BY <2>4, <2>5, <2>6
<1> HIDE DEF old
<1>9. IsFiniteSet(old) /\ IsFiniteSet(Popped')
  BY <1>8, FiniteParts, FS_Subset
<1>10. /\ Cardinality(Popped) = Cardinality(Popped') + Cardinality(old)
       /\ Cardinality(Popped') \in Nat /\ Cardinality(old) \in Nat /\ Cardinality(Waiting) \in Nat
  BY <1>8, <1>9, FiniteParts, DisjointUnion
<1>11. sem' = sem - Cardinality(old)
  BY <1>1 DEF old
<1>12. TypeInv' /\ AskedInv' /\ WriterInv'
  <2>1. Durable' \in Nat /\ Durable <= Durable'
    BY <1>3, <1>7
  <2>2. tail' \in 0 .. Head1 /\ sem' \in Int
    BY <1>1, <1>3, <1>10, <1>11, Basics
  <2> QED
    BY <1>1, <1>4, <1>7, <2>1, <2>2, FlushFrame
<1>13. UnitInv'
  <2>1. \A j \in Logs : log'[j].popped \subseteq 1 .. tail'
    BY <1>1, <1>4, <1>7 DEF UnitInv
  <2>2. \A j \in Logs : log'[j].told # 0 => log'[j].popped = {}
    BY <1>4, <1>7 DEF UnitInv
  <2>3. \A j, k \in Logs : j # k => log'[j].popped \cap log'[k].popped = {}
    BY <1>4, <1>7 DEF UnitInv
  <2>4. pc # "failed" => sem = Cardinality(Waiting) + Cardinality(Popped)
    BY DEF UnitInv
  <2>5. pc # "failed" => sem' = Cardinality(Waiting') + Cardinality(Popped')
    BY <1>8, <1>10, <1>11, <2>4
  <2> QED
    BY <1>1, <2>1, <2>2, <2>3, <2>5 DEF UnitInv
<1>14. CloseInv'
  <2>1. ASSUME NEW j \in Logs
        PROVE  /\ log'[j].st \in {"closing", "synced", "closed"} =>
                    log[j].st \in {"closing", "synced", "closed"}
               /\ log'[j].st = "closing" =>
                    log[j].st = "closing" /\ log'[j].lastQueued = log[j].lastQueued
               /\ (log'[j].st = "synced" /\ ~log'[j].err) =>
                    log[j].st = "synced" /\ ~log[j].err /\ log'[j].told = log[j].told
    BY <1>4, <1>7
  <2>2. UNCHANGED <<records, tail, last, closeCalled, pc>> /\ (pc' = "exit" => last.closed)
    BY <1>1 DEF closeVars, CloseInv
  <2> QED
    BY <2>1, <2>2, CloseFrame
<1>15. \E S \in SUBSET (1 .. Durable) : acked' = acked \cup S
  BY <1>1, <1>3
<1> QED
  BY <1>7, <1>12, <1>13, <1>14, <1>15

\* One turn of the loop of closeInternal: the newest log, if it is the writer,
\* is told to report the last record, which it has.
LEMMA CloseLoopStep ==
  ASSUME IInv, CloseLoop
  PROVE  IInv' /\ Durable' = Durable
<1> USE DEF IInv
<1>1. /\ UNCHANGED <<records, tail, writer, writeTo, next, numWriters, acked, failed, sem>>
      /\ pc = "loop" /\ numWriters = next /\ pc' = IF last'.closed THEN "exit" ELSE "wait"
  BY DEF CloseLoop, queueVars, callVars, WriterInv
<1>2. CASE ~(numWriters > closeCalled)
  <2>1. UNCHANGED <<queueVars, log, next, closeCalled, last, callVars>>
    BY <1>2 DEF CloseLoop
  <2>2. numWriters' \in 0 .. MaxLogs
    BY <1>1 DEF TypeInv
  <2> QED
    BY <1>1, <2>1, <2>2, PcStep
<1>3. CASE numWriters > closeCalled
  <2> DEFINE n == next
             st == log[n].st
             told(i) == i \in closeCalled + 1 .. n /\ log[i].st = "open"
             shut(i) == [log[i] EXCEPT !.st = "closing", !.lastQueued = IF i = n THEN Head1 ELSE 0]
  <2>1. /\ log' = [i \in Logs |-> IF told(i) THEN shut(i) ELSE log[i]]
        /\ closeCalled' = (IF st \in {"open", "failed"} THEN n ELSE n - 1)
        /\ last' = [index |-> n, closed |-> st = "failed", err |-> st = "failed"]
    BY <1>1, <1>3 DEF CloseLoop
  <2>2. /\ Head1 \in Nat /\ Durable \in Nat /\ Durable <= Head1 /\ n \in Logs /\ MaxLogs \in Nat
        /\ closeCalled \in Nat /\ n > closeCalled /\ tail <= Durable /\ acked \subseteq 1 .. Durable
    BY <1>1, <1>3, Basics DEF TypeInv
  <2>3. ASSUME NEW i \in Logs
        PROVE  /\ shut(i) \in LogType /\ shut(i).st = "closing" /\ shut(i).recs = log[i].recs
               /\ shut(i).durable = log[i].durable /\ shut(i).told = log[i].told
               /\ shut(i).pending = log[i].pending /\ shut(i).popped = log[i].popped
               /\ shut(i).lastQueued = (IF i = n THEN Head1 ELSE 0) /\ shut(i).err = log[i].err
    <3>1. log[i] \in LogType
      BY LogFields
    <3> QED
      BY <2>2, <3>1 DEF LogType, States
  <2>4. \A i \in Logs : told(i) => log[i].st = "open" /\ i > closeCalled /\ i <= n
    BY <2>2 DEF Logs
  <2>5. told(n) => UpTo(log[n], Head1, Durable)
    <3>1. log[n].st = "open" => writer = n
      BY DEF WriterInv
    <3>2. n # NoLog
      BY <2>2 DEF Logs, NoLog
    <3> QED
      BY <1>1, <3>1, <3>2 DEF WriterInv
  <2> HIDE DEF told, shut
  <2>6. \A i \in Logs : log'[i] = IF told(i) THEN shut(i) ELSE log[i]
    BY <2>1
  <2>7. log' \in [Logs -> LogType]
    <3>1. \A i \in Logs : log[i] \in LogType
      BY LogFields
    <3> QED
      BY <2>1, <2>3, <3>1
  <2>8. ASSUME NEW i \in Logs
        PROVE  /\ log'[i].recs = log[i].recs /\ log'[i].durable = log[i].durable
               /\ log'[i].told = log[i].told /\ log'[i].popped = log[i].popped
               /\ log'[i].err = log[i].err
               /\ log'[i].st = IF told(i) THEN "closing" ELSE log[i].st
    BY <2>3, <2>6
  <2>9. ASSUME NEW i \in Logs PROVE LogInv(log'[i], Durable, Head1)
    <3>1. LogInv(log[i], Durable, Head1)
      BY LogFields
    <3>2. CASE ~told(i)
      BY <2>6, <3>1, <3>2
    <3>3. CASE told(i)
      <4>1. shut(i).lastQueued <= Durable \/ (shut(i).recs # <<>> /\ shut(i).lastQueued <= End(shut(i)))
        <5>1. CASE i # n
          BY <2>2, <2>3, <5>1
        <5>2. CASE i = n
          <6>1. IF log[i].recs = <<>> THEN Head1 <= Durable ELSE End(log[i]) = Head1
            BY <2>5, <3>3, <5>2 DEF UpTo
          <6>2. End(shut(i)) = End(log[i]) /\ shut(i).lastQueued = Head1 /\ shut(i).recs = log[i].recs
            BY <2>3, <5>2 DEF End
          <6>3. Head1 <= Head1
            BY <2>2
          <6> QED
            BY <6>1, <6>2, <6>3
        <5> QED
          BY <5>1, <5>2
      <4>2. LogInv(shut(i), Durable, Head1)
        BY <2>3, <3>1, <4>1 DEF LogInv, End, Empty
      <4> QED
        BY <2>6, <3>3, <4>2
    <3> QED
      BY <3>2, <3>3
  <2>10. Head1' = Head1 /\ Head1' \in Nat /\ Head1 <= Head1'
    BY <1>1, <2>2 DEF Head1
  <2>11. acked' \subseteq 1 .. Durable /\ (pc' \notin {"failed", "panic"} => tail' <= Durable)
    BY <1>1, <2>2
  <2>12. FilesInv' /\ Durable' = Durable
    BY <2>7, <2>8, <2>9, <2>10, <2>11, FilesSame
  <2>13. TypeInv'
    <3>1. closeCalled' \in 0 .. MaxLogs /\ n \in 0 .. MaxLogs
      BY <2>1, <2>2 DEF Logs
    <3>2. last' \in [index : 0 .. MaxLogs, closed : BOOLEAN, err : BOOLEAN]
      BY <2>1, <3>1
    <3> QED
      BY <1>1, <2>7, <2>10, <3>1, <3>2 DEF TypeInv
  <2>14. AskedInv'
    BY <1>1, AskedFrame
  <2>15. WriterInv'
    <3>1. ASSUME NEW j \in Logs
          PROVE  /\ log'[j].recs = log[j].recs
                 /\ log[j].st \notin Empty => log'[j].st \notin Empty
                 /\ log'[j].st = "open" => log[j].st = "open"
                 /\ log[j].st = "none" => log'[j].st = "none"
      BY <2>4, <2>8 DEF Empty
    <3>2. Durable' \in Nat /\ Durable <= Durable'
      BY <2>2, <2>12
    <3> QED
      BY <1>1, <3>1, <3>2, WriterFrame
  <2>16. UnitInv'
    BY <1>1, <2>8, UnitFrame
  <2>17. CloseInv'
    <3>1. n \in Nat /\ n # 0 /\ last'.index = n /\ last'.closed = last'.err
      BY <2>1, <2>2 DEF Logs
    <3>2. ASSUME NEW j \in Logs, log[j].st \in {"closing", "synced", "closed"}
          PROVE  j <= closeCalled /\ j # n
      <4>1. j <= closeCalled
        BY <3>2 DEF CloseInv
      <4> QED
        BY <2>2, <4>1 DEF Logs
    <3>3. ASSUME NEW j \in Logs, log'[j].st \in {"closing", "synced", "closed"}
          PROVE  j <= closeCalled'
      <4>1. CASE told(j)
        <5>1. j <= n /\ (j = n => st = "open")
          BY <2>4, <4>1
        <5> QED
          BY <2>1, <2>2, <3>1, <5>1 DEF Logs
      <4>2. CASE ~told(j)
        <5>1. j <= closeCalled
          BY <2>8, <3>2, <3>3, <4>2
        <5> QED
          BY <2>1, <2>2, <3>1, <5>1 DEF Logs
      <4> QED
        BY <4>1, <4>2
    <3>4. log'[n].st = "closing" => log'[n].lastQueued = Head1
      BY <2>2, <2>3, <2>6, <2>8, <3>2
    <3>5. log'[n].st # "synced"
      BY <2>2, <2>8, <3>2
    <3>6. pc' \notin {"idle", "write"} /\ (pc' = "exit" => last'.closed)
      BY <1>1
    <3> QED
      BY <2>10, <3>1, <3>3, <3>4, <3>5, <3>6 DEF CloseInv
  <2> QED
    BY <2>12, <2>13, <2>14, <2>15, <2>16, <2>17
<1> QED
  BY <1>2, <1>3

\* The end of closeInternal: without an error nobody is left in the queue, so
\* popAll does not panic, and all is durable.
LEMMA CloseExitStep ==
  ASSUME IInv, CloseExit
  PROVE  /\ IInv' /\ Durable' = Durable /\ pc = "exit" /\ pc' \in {"closed", "failed"}
         /\ pc' = "closed" => Durable = Head1
<1> USE DEF IInv
<1>1. /\ UNCHANGED <<records, writer, writeTo, log, next, numWriters, closeCalled, last, acked, sem>>
      /\ pc = "exit" /\ tail' = Head1
      /\ pc' = IF last.err THEN "failed" ELSE IF tail < Head1 THEN "panic" ELSE "closed"
  BY DEF CloseExit, closeVars
<1>2. /\ Head1 \in Nat /\ Durable \in Nat /\ Durable <= Head1 /\ tail \in Nat /\ tail <= Durable
      /\ acked \subseteq 1 .. Durable
  BY <1>1, Basics
<1>3. ~last.err => tail = Head1
  <2>1. last.closed /\ last.index # 0
    BY <1>1 DEF CloseInv
  <2> QED
    BY <2>1 DEF CloseInv
<1>4. pc' = (IF last.err THEN "failed" ELSE "closed") /\ (~last.err => Durable = Head1 /\ tail' = tail)
  BY <1>1, <1>2, <1>3
<1>5. Head1' = Head1 /\ Head1' \in Nat /\ Head1 <= Head1'
  BY <1>1, <1>2 DEF Head1
<1>6. acked' \subseteq 1 .. Durable /\ (pc' \notin {"failed", "panic"} => tail' <= Durable)
  BY <1>1, <1>2, <1>4
<1>7. FilesInv' /\ Durable' = Durable
  BY <1>1, <1>5, <1>6, NoLogChange
<1>8. TypeInv'
  BY <1>1, <1>2, <1>4, <1>5 DEF TypeInv
<1>9. AskedInv'
  BY <1>1, AskedFrame
<1>10. WriterInv'
  <2>1. Durable' \in Nat /\ Durable <= Durable'
    BY <1>2, <1>7
  <2> QED
    BY <1>1, <1>4, <2>1, WriterFrame
<1>11. UnitInv'
  <2>1. CASE ~last.err
    BY <1>1, <1>4, <2>1, UnitFrame
  <2>2. CASE last.err
    <3>1. 1 .. tail \subseteq 1 .. tail'
      BY <1>1, <1>2
    <3> QED
      BY <1>1, <1>4, <2>2, <3>1 DEF UnitInv
  <2> QED
    BY <2>1, <2>2
<1>12. CloseInv'
  BY <1>1, <1>4, CloseFrame
<1> QED
  BY <1>1, <1>4, <1>7, <1>8, <1>9, <1>10, <1>11, <1>12

\* The file of a log is closed, and closeInternal told if it was the last.
LEMMA EndCloseStep ==
  ASSUME IInv, NEW i \in Logs, EndClose(i)
  PROVE  /\ IInv' /\ Durable' = Durable /\ pc \notin {"loop", "exit"}
         /\ pc' = pc \/ (pc = "wait" /\ pc' = "woken")
<1> USE DEF IInv
<1>1. /\ UNCHANGED <<records, tail, writer, writeTo, next, numWriters, closeCalled, acked, failed, sem>>
      /\ pc \notin {"loop", "exit"} /\ log[i].st = "synced" /\ log[i].told = 0
      /\ pc' = pc \/ (pc = "wait" /\ pc' = "woken")
  BY DEF EndClose, queueVars, callVars, MuFree, Idle, Signal
<1>2. PICK err \in BOOLEAN :
        /\ log[i].err => err
        /\ last.index = i => last' = [last EXCEPT !.closed = TRUE, !.err = err]
        /\ last.index # i => last' = last /\ pc' = pc
  <2>1. PICK cerr \in Errs("close") :
          LET err == log[i].err \/ cerr
          IN  IF last.index = i
              THEN /\ last' = [last EXCEPT !.closed = TRUE, !.err = err]
                   /\ Signal
              ELSE UNCHANGED <<last, pc>>
    BY DEF EndClose
  <2>2. log[i].err \/ cerr \in BOOLEAN
    BY LogFields DEF Errs
  <2> QED
    BY <2>1, <2>2
<1> DEFINE l == [log[i] EXCEPT !.st = "closed"]
<1>3. log' = [log EXCEPT ![i] = l]
  BY DEF EndClose
<1>4. /\ log[i] \in LogType /\ LogInv(log[i], Durable, Head1)
      /\ Durable \in Nat /\ Head1 \in Nat /\ Durable <= Head1 /\ tail \in Nat /\ tail <= Head1
  BY LogFields
<1>5. /\ l \in LogType /\ l.st = "closed" /\ l.recs = log[i].recs /\ l.durable = log[i].durable
      /\ l.pending = log[i].pending /\ l.told = log[i].told /\ l.popped = log[i].popped
      /\ l.lastQueued = log[i].lastQueued /\ l.err = log[i].err
  BY <1>4 DEF LogType, States
<1> HIDE DEF l
<1>6. LogInv(l, Durable, Head1)
  BY <1>4, <1>5 DEF LogInv, End, Empty
<1>7. acked' \subseteq 1 .. Durable /\ (pc' \notin {"failed", "panic"} => tail' <= Durable)
  BY <1>1, Basics
<1>8. /\ FilesInv' /\ Durable' = Durable /\ Head1' = Head1
      /\ log' \in [Logs -> LogType] /\ log'[i] = l
      /\ \A j \in Logs : j # i => log'[j] = log[j]
  BY <1>1, <1>3, <1>5, <1>6, <1>7, OneLog
<1>9. TypeInv'
  <2>1. last \in [index : 0 .. MaxLogs, closed : BOOLEAN, err : BOOLEAN]
    BY DEF TypeInv
  <2>2. last' \in [index : 0 .. MaxLogs, closed : BOOLEAN, err : BOOLEAN]
    BY <1>2, <2>1
  <2> QED
    BY <1>1, <1>8, <2>2 DEF TypeInv
<1>10. AskedInv'
  BY <1>1, AskedFrame
<1>11. WriterInv'
  <2>1. ASSUME NEW j \in Logs
        PROVE  /\ log'[j].recs = log[j].recs
               /\ log[j].st \notin Empty => log'[j].st \notin Empty
               /\ log'[j].st = "open" => log[j].st = "open"
               /\ log[j].st = "none" => log'[j].st = "none"
    BY <1>1, <1>5, <1>8 DEF Empty
  <2>2. Durable' \in Nat /\ Durable <= Durable'
    BY <1>4, <1>8
  <2> QED
    BY <1>1, <2>1, <2>2, WriterFrame
<1>12. UnitInv'
  <2>1. \A j \in Logs : log'[j].popped = log[j].popped /\ log'[j].told = log[j].told
    BY <1>5, <1>8
  <2> QED
    BY <1>1, <2>1, UnitFrame
<1>13. CloseInv'
  <2>1. \A j \in Logs : log'[j].st \in {"closing", "synced", "closed"} => j <= closeCalled
    BY <1>1, <1>5, <1>8 DEF CloseInv
  <2>2. CASE last.index = i
    <3>1. i # 0
      BY <1>4 DEF Logs
    <3>2. /\ last'.index = i /\ last'.closed = TRUE /\ last'.err = err
      BY <1>2, <2>2 DEF TypeInv
    <3>3. pc \notin {"idle", "write"}
      BY <2>2, <3>1 DEF CloseInv
    <3>4. ~err => tail = Head1
      <4>1. ~log[i].err => tail = Head1 \/ log[i].told = Head1
        BY <1>1, <2>2, <3>1 DEF CloseInv
      <4> QED
        BY <1>1, <1>2, <1>4, <4>1
    <3> QED
      BY <1>1, <1>5, <1>8, <2>1, <3>1, <3>2, <3>3, <3>4 DEF CloseInv
  <2>3. CASE last.index # i
    <3>1. last.index # 0 => last.index \in Logs
      BY DEF TypeInv, Logs
    <3>2. last.index # 0 => log'[last.index] = log[last.index]
      BY <1>8, <2>3, <3>1
    <3> QED
      BY <1>1, <1>2, <1>8, <2>1, <2>3, <3>2 DEF CloseInv
  <2> QED
    BY <2>2, <2>3
<1> QED
  BY <1>1, <1>8, <1>9, <1>10, <1>11, <1>12, <1>13

-----------------------------------------------------------------------------
(***************************************************************************)
(* The theorems.                                                           *)
(***************************************************************************)

Status == IF pc \in {"closed", "failed"} THEN pc ELSE "open"
Still == Durable' = Durable /\ Head1' = Head1 /\ acked' = acked /\ Status' = Status

\* Every step keeps the invariant, and is a step of the contract of one log or
\* leaves what the contract speaks of as it is.
LEMMA StepMapped ==
  ASSUME IInv, [Next]_vars
  PROVE  IInv' /\ (Contract!Next \/ Still)
<1> DEFINE Goal == IInv' /\ (Contract!Next \/ Still)
<1>0. Head1 \in Nat /\ Durable \in Nat /\ Durable <= Head1 /\ Durable \in Durable .. Head1
  BY Basics
<1>1. ASSUME NEW sync \in BOOLEAN, Push(sync) PROVE Goal
  <2>1. IInv' /\ Durable' = Durable /\ Head1' = Head1 + 1
    BY <1>1, PushStep
  <2>2. acked' = acked /\ Status = "open" /\ Status' = "open"
    BY <1>1 DEF Push, Status
  <2>3. Contract!WriteRecord
    BY <2>1, <2>2 DEF Contract!WriteRecord, Status
  <2> QED
    BY <2>1, <2>3 DEF Contract!Next
<1>2. CASE SwitchToNewDir
  <2>1. Head1' = Head1 /\ acked' = acked /\ Status' = Status
    BY <1>2 DEF SwitchToNewDir, Status, Head1, queueVars, callVars
  <2> QED
    BY <1>2, <2>1, SwitchStep DEF Still
<1>3. CASE Close
  <2>1. Head1' = Head1 /\ acked' = acked /\ Status' = Status
    BY <1>3 DEF Close, Status, Head1, queueVars, callVars
  <2> QED
    BY <1>3, <2>1, CloseStep DEF Still
<1>4. CASE Write
  <2>1. Head1' = Head1 /\ acked' = acked /\ Status' = Status
    BY <1>4 DEF Write, Status, Head1, callVars
  <2> QED
    BY <1>4, <2>1, WriteStep DEF Still
<1>5. CASE WriteRefused
  <2>1. Head1' = Head1 /\ acked' = acked /\ Status' = Status
    BY <1>5 DEF WriteRefused, Status, Head1, queueVars, callVars
  <2> QED
    BY <1>5, <2>1, WriteRefusedStep DEF Still
<1>6. CASE CloseLoop
  <2>1. Head1' = Head1 /\ acked' = acked /\ Status' = Status
    BY <1>6 DEF CloseLoop, Status, Head1, queueVars, callVars
  <2> QED
    BY <1>6, <2>1, CloseLoopStep DEF Still
<1>7. CASE WakeUp
  <2>1. Head1' = Head1 /\ acked' = acked /\ Status' = Status
    BY <1>7 DEF WakeUp, Status, Head1, queueVars, callVars
  <2> QED
    BY <1>7, <2>1, WakeUpStep DEF Still
<1>8. CASE CloseExit
  <2>1. /\ IInv' /\ Durable' = Durable /\ pc = "exit" /\ pc' \in {"closed", "failed"}
        /\ pc' = "closed" => Durable = Head1
    BY <1>8, CloseExitStep
  <2>2. Head1' = Head1 /\ acked' = acked /\ Status = "open" /\ Status' = pc'
    BY <1>8, <2>1 DEF CloseExit, Status, Head1
  <2>3. acked' = acked \cup {} /\ {} \in SUBSET (1 .. Durable')
    BY <2>2
  <2>4. Durable' \in Durable .. Head1
    BY <1>0, <2>1
  <2>5. Status' \in {"failed"} \cup (IF Durable' = Head1 THEN {"closed"} ELSE {})
    BY <2>1, <2>2
  <2>6. Contract!Close
    BY <2>2, <2>3, <2>4, <2>5 DEF Contract!Close, Status
  <2> QED
    BY <2>1, <2>6 DEF Contract!Next
<1>9. ASSUME NEW i \in Logs, Background(i), pc # "panic" PROVE Goal
  <2>1. CASE CreateFails(i)
    <3>1. Head1' = Head1 /\ acked' = acked /\ Status' = Status
      BY <2>1 DEF CreateFails, Signal, Status, Head1, queueVars, callVars
    <3> QED
      BY <2>1, <3>1, CreateFailsStep DEF Still
  <2>2. CASE Install(i)
    <3>1. Head1' = Head1 /\ acked' = acked /\ Status' = Status
      BY <2>2 DEF Install, Signal, Status, Head1, callVars
    <3> QED
      BY <1>9, <2>2, <3>1, InstallStep DEF Still
  <2>3. CASE Discard(i)
    <3>1. Head1' = Head1 /\ acked' = acked /\ Status' = Status
      BY <2>3 DEF Discard, Status, Head1, queueVars, callVars
    <3> QED
      BY <2>3, <3>1, DiscardStep DEF Still
  <2>4. ASSUME Sync(i) \/ SyncOnClose(i) PROVE Goal
    <3>1. Head1' = Head1 /\ acked' = acked /\ Status' = Status
      BY <2>4 DEF Sync, SyncOnClose, Status, Head1, queueVars, callVars
    <3>2. IInv' /\ Durable' \in Durable .. Head1
      BY <2>4, SyncStep, SyncOnCloseStep
    <3>3. CASE Durable' = Durable
      BY <3>1, <3>2, <3>3 DEF Still
    <3>4. CASE Durable' # Durable
      <4>1. Durable' \in Durable + 1 .. Head1
        BY <1>0, <3>2, <3>4
      <4>2. Contract!Persist
        BY <3>1, <4>1 DEF Contract!Persist, Status
      <4> QED
        BY <3>2, <4>2 DEF Contract!Next
    <3> QED
      BY <3>3, <3>4
  <2>5. CASE Pop(i)
    <3>1. Head1' = Head1 /\ acked' = acked /\ Status' = Status
      BY <2>5 DEF Pop, Status, Head1, callVars
    <3> QED
      BY <2>5, <3>1, PopStep DEF Still
  <2>6. CASE Done(i)
    <3>1. Head1' = Head1 /\ Status' = Status
      BY <2>6 DEF Done, Status, Head1, queueVars
    <3>2. IInv' /\ Durable' = Durable /\ \E S \in SUBSET (1 .. Durable) : acked' = acked \cup S
      BY <2>6, DoneStep
    <3>3. Contract!Acknowledge
      BY <3>1, <3>2 DEF Contract!Acknowledge, Status
    <3> QED
      BY <3>2, <3>3 DEF Contract!Next
  <2>7. CASE EndClose(i)
    <3>1. /\ IInv' /\ Durable' = Durable /\ pc \notin {"loop", "exit"}
          /\ pc' = pc \/ (pc = "wait" /\ pc' = "woken")
      BY <2>7, EndCloseStep
    <3>2. Head1' = Head1 /\ acked' = acked /\ Status' = Status
      BY <2>7, <3>1 DEF EndClose, Status, Head1, queueVars, callVars
    <3> QED
      BY <3>1, <3>2 DEF Still
  <2> QED
    BY <1>9, <2>1, <2>2, <2>3, <2>4, <2>5, <2>6, <2>7 DEF Background
<1>10. CASE UNCHANGED vars
  <2>1. UNCHANGED <<pc, records, tail, writer, writeTo, log, next, numWriters, closeCalled, last,
                    acked, failed, sem>>
    BY <1>10 DEF vars, queueVars, closeVars, callVars
  <2>2. Kept' = Kept /\ Head1' = Head1
    BY <2>1 DEF Kept, Head1
  <2>3. Durable' = Durable /\ Waiting' = Waiting /\ Popped' = Popped
    BY <2>1, <2>2 DEF Durable, Waiting, Popped
  <2>4. TypeInv'
    BY <2>1, <2>2 DEF IInv, TypeInv
  <2>5. FilesInv' /\ WriterInv' /\ UnitInv' /\ CloseInv'
    BY <2>1, <2>2, <2>3 DEF IInv, FilesInv, WriterInv, UnitInv, CloseInv
  <2>6. AskedInv'
    BY <2>1, AskedFrame DEF IInv
  <2> QED
    BY <2>1, <2>2, <2>3, <2>4, <2>5, <2>6 DEF IInv, Still, Status
<1> QED
  BY <1>1, <1>2, <1>3, <1>4, <1>5, <1>6, <1>7, <1>8, <1>9, <1>10 DEF Next, Caller

\* The invariant holds throughout.
LEMMA Invariance == Spec => []IInv
<1>1. IInv /\ [Next]_vars => IInv'
  BY StepMapped
<1> QED
  BY <1>1, InitIInv, PTL DEF Spec

\* No unit of queueSemChan is lost or released twice, whichever logs report a
\* record, in whatever order, and however long after the switch to another.
THEOREM FailoverUnits == Spec => []UnitsAccounted
<1>1. IInv => UnitsAccounted
  BY DEF IInv, UnitInv, UnitsAccounted, Waiting, Popped
<1> QED
  BY <1>1, Invariance, PTL

\* closeInternal's panic is unreachable: popAll finds nobody in the queue when
\* the last log was closed without an error, whatever was created, failed or
\* hung while it waited.
THEOREM CloseNeverPanics == Spec => [][CloseExit => pc' # "panic"]_vars
<1>1. IInv /\ CloseExit => pc' # "panic"
  BY CloseExitStep
<1>2. IInv /\ [Next]_vars => [CloseExit => pc' # "panic"]_vars
  BY <1>1
<1> QED
  BY <1>2, Invariance, PTL DEF Spec

\* Together the files of a failover log keep the contract of one log: records
\* become durable in order and without a hole, nothing is acknowledged that is
\* not durable, and a close that reports no error has lost nothing.
THEOREM FailoverImplements == Spec => ImplementsWal
<1>1. Init => Contract!Init
  <2> SUFFICES ASSUME Init PROVE Contract!Init
    OBVIOUS
  <2>1. IInv
    BY InitIInv
  <2>2. Head1 = 0 /\ acked = {} /\ pc = "idle"
    BY DEF Init, Head1
  <2>3. Durable = 0
    BY <2>1, <2>2, Basics
  <2> QED
    BY <2>2, <2>3 DEF Contract!Init
<1>2. IInv /\ [Next]_vars => [Contract!Next]_(Contract!vars)
  <2> SUFFICES ASSUME IInv, [Next]_vars PROVE [Contract!Next]_(Contract!vars)
    OBVIOUS
  <2>1. Contract!Next \/ Still
    BY StepMapped
  <2> QED
    BY <2>1 DEF Still, Status, Contract!vars
<1> QED
  BY <1>1, <1>2, Invariance, PTL DEF Spec, ImplementsWal, Contract!Spec
=============================================================================
