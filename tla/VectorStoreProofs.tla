------------------------- MODULE VectorStoreProofs -------------------------
(***************************************************************************)
(* Proofs about VectorStore: what Insert has acknowledged survives every   *)
(* crash, for any number of goroutines, keys, writes and crashes.          *)
(***************************************************************************)
EXTENDS VectorStore, SequenceTheorems, TLAPS

\* All that Set is ever called with.
Writes == [key : Keys,
           bytes : RawValues \cup {serializeFloat64Array(v) : v \in Vectors}]

HistInv == hist \in Seq(Writes) /\ safe \in 0 .. Len(hist)

\* The Entry of a caller, NoEntry included.
EntryType == [key : Keys \cup {""}, kind : EntryKinds \cup {"none"},
              value : Vectors \cup {<<>>}, at : Nat]

\* A caller in Set holds one of the entries that are inserted; once it waits,
\* the place of its write is in the history.
CallerInv ==
  /\ pc \in [Callers -> {"idle", "set", "wait", "panic"}]
  /\ entry \in [Callers -> EntryType]
  /\ \A c \in Callers :
       /\ pc[c] = "set" => entry[c].key \in Keys /\ entry[c].value \in Vectors
       /\ pc[c] = "wait" => entry[c].at \in 1 .. Len(hist)

IInv == HistInv /\ CallerInv /\ acked \subseteq 1 .. safe

-----------------------------------------------------------------------------
\* A write is appended to the history and moves none of the others.
LEMMA AppendKeeps ==
  ASSUME HistInv, NEW w \in Writes, hist' = Append(hist, w), safe' = safe
  PROVE  /\ HistInv'
         /\ Len(hist') = Len(hist) + 1
         /\ \A i \in 1 .. safe : hist'[i] = hist[i]
  BY DEF HistInv

\* A crash cuts the history behind what is safe.
LEMMA CrashKeeps ==
  ASSUME HistInv, NEW n \in safe .. Len(hist), hist' = SubSeq(hist, 1, n), safe' = n
  PROVE  HistInv' /\ \A i \in 1 .. safe : hist'[i] = hist[i]
  BY DEF HistInv

\* The types of an entry.
LEMMA EntryTypes ==
  /\ NoEntry \in EntryType
  /\ \A e \in EntryType, n \in Nat :
       LET f == [e EXCEPT !.at = n]
       IN  f \in EntryType /\ f.key = e.key /\ f.value = e.value /\ f.at = n
<1>1. NoEntry \in EntryType
  <2>1. "" \in Keys \cup {""} /\ "none" \in EntryKinds \cup {"none"}
        /\ <<>> \in Vectors \cup {<<>>} /\ 0 \in Nat
    OBVIOUS
  <2> QED
    BY <2>1, Zenon DEF NoEntry, EntryType
<1>2. ASSUME NEW e \in EntryType, NEW n \in Nat
      PROVE  LET f == [e EXCEPT !.at = n]
             IN  f \in EntryType /\ f.key = e.key /\ f.value = e.value /\ f.at = n
  <2> DEFINE K == Keys \cup {""}
             D == EntryKinds \cup {"none"}
             V == Vectors \cup {<<>>}
  <2>1. e \in [key : K, kind : D, value : V, at : Nat]
    BY DEF EntryType
  <2>2. EntryType = [key : K, kind : D, value : V, at : Nat]
    BY DEF EntryType
  <2> HIDE DEF K, D, V
  <2> QED
    BY <2>1, <2>2
<1> QED
  BY <1>1, <1>2

\* One step of the system: the invariant is kept, what is safe stays safe, and
\* no write in the safe part changes.
LEMMA StepKeeps ==
  ASSUME IInv, [Next]_vars
  PROVE  IInv' /\ safe <= safe' /\ \A i \in 1 .. safe : hist'[i] = hist[i]
<1> USE DEF IInv, HistInv, CallerInv
<1>1. ASSUME NEW c \in Callers, NEW k \in Keys, NEW kind \in Inputs,
             NEW v \in Vectors, Insert(c, k, kind, v)
      PROVE  IInv' /\ safe <= safe' /\ \A i \in 1 .. safe : hist'[i] = hist[i]
  <2> DEFINE p == CASE kind = "float64 array" -> "set"
                     [] kind = "other array" -> "panic"
                     [] kind = "other object" -> "idle"
  <2>1. p \in {"set", "panic", "idle"}
    BY VectorAssumption DEF EntryKinds
  <2>2. pc' = [pc EXCEPT ![c] = p]
    BY <1>1 DEF Insert
  <2> HIDE DEF p
  <2>3. CallerInv'
    <3> DEFINE e == [key |-> k, kind |-> kind, value |-> v, at |-> 0]
    <3>1. e \in EntryType /\ e.key \in Keys /\ e.value \in Vectors
      BY VectorAssumption DEF EntryType
    <3>2. entry' = [entry EXCEPT ![c] = e]
      BY <1>1 DEF Insert
    <3> HIDE DEF e
    <3>3. entry' \in [Callers -> EntryType] /\ hist' = hist
      BY <1>1, <3>1, <3>2 DEF Insert
    <3> QED
      BY <2>1, <2>2, <3>1, <3>2, <3>3
  <2>4. hist' = hist /\ safe' = safe /\ acked' = acked
    BY <1>1 DEF Insert
  <2> QED
    BY <2>3, <2>4
<1>2. ASSUME NEW c \in Callers, NEW k \in Keys, NEW bytes \in RawValues,
             RawSet(c, k, bytes)
      PROVE  IInv' /\ safe <= safe' /\ \A i \in 1 .. safe : hist'[i] = hist[i]
  <2> DEFINE w == [key |-> k, bytes |-> bytes]
  <2>1. w \in Writes
    BY DEF Writes
  <2>2. HistInv' /\ Len(hist') = Len(hist) + 1 /\ \A i \in 1 .. safe : hist'[i] = hist[i]
    BY <1>2, <2>1, AppendKeeps DEF RawSet
  <2> QED
    BY <1>2, <2>2 DEF RawSet
<1>3. ASSUME NEW c \in Callers, NEW k \in Keys, Get(c, k)
      PROVE  IInv' /\ safe <= safe' /\ \A i \in 1 .. safe : hist'[i] = hist[i]
  BY <1>3 DEF Get
<1>4. ASSUME NEW c \in Callers, InsertSet(c)
      PROVE  IInv' /\ safe <= safe' /\ \A i \in 1 .. safe : hist'[i] = hist[i]
  <2> DEFINE w == [key |-> entry[c].key,
                   bytes |-> serializeFloat64Array(entry[c].value)]
  <2>1. w \in Writes
    BY <1>4 DEF InsertSet, Writes
  <2>2. HistInv' /\ Len(hist') = Len(hist) + 1 /\ \A i \in 1 .. safe : hist'[i] = hist[i]
    BY <1>4, <2>1, AppendKeeps DEF InsertSet
  <2>3. Len(hist) + 1 \in Nat
    OBVIOUS
  <2>4. entry' \in [Callers -> EntryType] /\ entry'[c].at = Len(hist) + 1
        /\ \A d \in Callers \ {c} : entry'[d] = entry[d]
    BY <1>4, <2>3, EntryTypes DEF InsertSet
  <2> QED
    BY <1>4, <2>2, <2>4 DEF InsertSet
<1>5. ASSUME NEW c \in Callers, InsertReturn(c)
      PROVE  IInv' /\ safe <= safe' /\ \A i \in 1 .. safe : hist'[i] = hist[i]
  <2>1. entry[c].at \in 1 .. Len(hist) /\ safe >= entry[c].at
    BY <1>5 DEF InsertReturn
  <2> DEFINE n == entry[c].at
  <2>2. acked' = acked \cup {n} /\ n \in 1 .. Len(hist) /\ safe >= n /\ safe \in Nat
    BY <1>5, <2>1 DEF InsertReturn
  <2> HIDE DEF n
  <2>3. acked' \subseteq 1 .. safe
    BY <2>2
  <2> QED
    BY <1>5, <2>3 DEF InsertReturn
<1>6. ASSUME Sync
      PROVE  IInv' /\ safe <= safe' /\ \A i \in 1 .. safe : hist'[i] = hist[i]
  BY <1>6 DEF Sync
<1>7. ASSUME Crash
      PROVE  IInv' /\ safe <= safe' /\ \A i \in 1 .. safe : hist'[i] = hist[i]
  <2>1. PICK n \in safe .. Len(hist) : hist' = SubSeq(hist, 1, n) /\ safe' = n
    BY <1>7 DEF Crash
  <2>2. HistInv' /\ \A i \in 1 .. safe : hist'[i] = hist[i]
    BY <2>1, CrashKeeps
  <2> QED
    BY <1>7, <2>1, <2>2, EntryTypes DEF Crash
<1>8. ASSUME NEW c \in Callers, InsertFails(c)
      PROVE  IInv' /\ safe <= safe' /\ \A i \in 1 .. safe : hist'[i] = hist[i]
  BY <1>8 DEF InsertFails
<1>9. CASE UNCHANGED vars
  BY <1>9 DEF vars
<1> QED
  BY <1>1, <1>2, <1>3, <1>4, <1>5, <1>6, <1>7, <1>8, <1>9 DEF Next

\* The invariant holds throughout.
LEMMA IInvHolds == Spec => []IInv
<1>1. Init => IInv
  BY EntryTypes DEF Init, IInv, HistInv, CallerInv
<1>2. IInv /\ [Next]_vars => IInv'
  BY StepKeeps
<1> QED
  BY <1>1, <1>2, PTL DEF Spec

\* storage.Insert calls Set with Sync: once it has returned nil for an array, its
\* write is in the part of the history that no crash takes away.
THEOREM InsertsSurvive == Spec => []AckedInsertsSurvive
<1>1. IInv => AckedInsertsSurvive
  BY DEF IInv, HistInv, AckedInsertsSurvive
<1> QED
  BY <1>1, IInvHolds, PTL

\* Nor does anything that happens later, a crash, raw bytes set under the same
\* key or another Insert, change the write that was acknowledged.
THEOREM AckedWritesKept == Spec => [][\A i \in acked : hist'[i] = hist[i]]_vars
<1>1. IInv /\ [Next]_vars => [\A i \in acked : hist'[i] = hist[i]]_vars
  BY StepKeeps DEF IInv
<1> QED
  BY <1>1, IInvHolds, PTL DEF Spec
=============================================================================
