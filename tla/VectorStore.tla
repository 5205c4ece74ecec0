----------------------------- MODULE VectorStore -----------------------------
(***************************************************************************)
(* internal/storage and pkg/client: vectors of float64 stored under string *)
(* keys in Pebble, and read back.  The same keys are written, as raw bytes *)
(* and without a sync, by the set command of cmd/main.go.                  *)
(*                                                                         *)
(* A float64 is its bit pattern, a number below Radix^Width, and a byte is *)
(* a number below Radix (256 and 8 in the code).                           *)
(***************************************************************************)
EXTENDS Integers, Sequences, SequencesExt, FiniteSetsExt

CONSTANTS
  Callers,     \* goroutines that use the store
  Keys,
  Vectors,     \* sequences of bit patterns callers insert
  RawValues,   \* byte sequences the set command stores
  Radix, Width,
  Inputs,      \* what an Entry holds, see EntryKinds
  MaxWrites,   \* bound on the writes
  MaxCrashes   \* bound on the ends of the process

\* An array of float64, an array of another number type, or a value with one
\* of the other object types.
EntryKinds == {"float64 array", "other array", "other object"}

ASSUME VectorAssumption ==
  /\ Radix \in Nat \ {0, 1} /\ Width \in Nat \ {0}
  /\ Inputs \subseteq EntryKinds
  /\ MaxWrites \in Nat /\ MaxCrashes \in Nat

VARIABLES
  hist,      \* the writes in Pebble's order: key, bytes
  safe,      \* how many of them a crash cannot take away
  pc,        \* per caller: "idle", "set", "wait" or "panic"
  entry,     \* the Entry being inserted: key, kind, value and its write
  result,    \* what the last Get returned, and the write it read
  inserted,  \* history: per write, the vector it is the encoding of, if any
  acked,     \* history: writes whose Set has returned nil to storage.Insert
  writes, crashes

vars == <<hist, safe, pc, entry, result, inserted, acked, writes, crashes>>

NotVector == <<-1>>
Nil == [err |-> TRUE, value |-> <<>>]
NoResult == [of |-> 0, got |-> Nil]
NoEntry == [key |-> "", kind |-> "none", value |-> <<>>, at |-> 0]

Init ==
  /\ hist = <<>> /\ safe = 0
  /\ pc = [c \in Callers |-> "idle"]
  /\ entry = [c \in Callers |-> NoEntry]
  /\ result = [c \in Callers |-> NoResult]
  /\ inserted = <<>>
  /\ acked = {}
  /\ writes = 0 /\ crashes = 0

-----------------------------------------------------------------------------
(***************************************************************************)
(* The encoding.                                                           *)
(***************************************************************************)

\* PutUint64 in little-endian order, one word after the other.
serializeFloat64Array(arr) ==
  [i \in 1 .. Len(arr) * Width |->
     (arr[(i - 1) \div Width + 1] \div Radix ^ ((i - 1) % Width)) % Radix]

\* Mutant: big-endian, where the encoder is little-endian.
DeserializeBigEndian(bytes) ==
  IF Len(bytes) % Width # 0 THEN Nil
  ELSE [err |-> FALSE,
        value |-> [i \in 1 .. Len(bytes) \div Width |->
                     MapThenSumSet(LAMBDA j : bytes[i * Width - j] * Radix ^ j,
                                   0 .. Width - 1)]]

deserializeFloat64Array(bytes) ==
  IF Len(bytes) % Width # 0 THEN Nil
  ELSE [err |-> FALSE,
        value |-> [i \in 1 .. Len(bytes) \div Width |->
                     MapThenSumSet(LAMBDA j : bytes[(i - 1) * Width + j + 1] * Radix ^ j,
                                   0 .. Width - 1)]]

LastWrite(k) == SelectLastInSeq(hist, LAMBDA w : w.key = k)

-----------------------------------------------------------------------------
(***************************************************************************)
(* client.Insert and storage.Insert.                                       *)
(***************************************************************************)

\* Anything but an array returns nil at once and stores nothing.
Insert(c, k, kind, v) ==
  /\ pc[c] = "idle"
  /\ writes < MaxWrites
  /\ writes' = writes + 1
  /\ entry' = [entry EXCEPT ![c] = [key |-> k, kind |-> kind, value |-> v, at |-> 0]]
  /\ pc' = [pc EXCEPT ![c] = CASE kind = "float64 array" -> "set"
                               [] kind = "other array" -> "panic"
                               [] kind = "other object" -> "idle"]
  /\ UNCHANGED <<hist, safe, result, inserted, acked, crashes>>

\* db.Set with Sync: the write is applied ...
InsertSet(c) ==
  /\ pc[c] = "set"
  /\ hist' = Append(hist, [key |-> entry[c].key,
                           bytes |-> serializeFloat64Array(entry[c].value)])
  /\ inserted' = Append(inserted, entry[c].value)
  /\ entry' = [entry EXCEPT ![c].at = Len(hist) + 1]
  /\ pc' = [pc EXCEPT ![c] = "wait"]
  /\ UNCHANGED <<safe, result, acked, writes, crashes>>

\* Set refuses, as with ErrReadOnly: nothing is stored.  client.Insert drops the
\* error, so its caller sees what InsertReturn shows.
InsertFails(c) ==
  /\ pc[c] = "set"
  /\ pc' = [pc EXCEPT ![c] = "idle"]
  /\ UNCHANGED <<hist, safe, entry, result, inserted, acked, writes, crashes>>

\* Mutant: Sync: false.
InsertReturnUnsynced(c) ==
  /\ pc[c] = "wait"
  /\ acked' = acked \cup {entry[c].at}
  /\ pc' = [pc EXCEPT ![c] = "idle"]
  /\ UNCHANGED <<hist, safe, entry, result, inserted, writes, crashes>>

\* ... and Set returns once its record, and all before it, are durable.
InsertReturn(c) ==
  /\ pc[c] = "wait"
  /\ safe >= entry[c].at
  /\ acked' = acked \cup {entry[c].at}
  /\ pc' = [pc EXCEPT ![c] = "idle"]
  /\ UNCHANGED <<hist, safe, entry, result, inserted, writes, crashes>>

\* The set command of the server.
RawSet(c, k, bytes) ==
  /\ pc[c] = "idle"
  /\ writes < MaxWrites
  /\ writes' = writes + 1
  /\ hist' = Append(hist, [key |-> k, bytes |-> bytes])
  /\ inserted' = Append(inserted, NotVector)
  /\ UNCHANGED <<safe, pc, entry, result, acked, crashes>>

-----------------------------------------------------------------------------
(***************************************************************************)
(* client.Get and storage.Get: no key, and bytes that are no vector, both  *)
(* come back as a nil slice, after the error has been logged.              *)
(***************************************************************************)

Get(c, k) ==
  /\ pc[c] = "idle"
  /\ LET at == LastWrite(k) IN
       result' = [result EXCEPT ![c] =
                    [of |-> at,
                     got |-> IF at = 0 THEN Nil
                             ELSE deserializeFloat64Array(hist[at].bytes)]]
  /\ UNCHANGED <<hist, safe, pc, entry, inserted, acked, writes, crashes>>

-----------------------------------------------------------------------------
(***************************************************************************)
(* Pebble's log, which makes a prefix of the writes durable, and the end   *)
(* of the process, which leaves a prefix that holds at least those.        *)
(***************************************************************************)

Sync ==
  /\ \E n \in safe + 1 .. Len(hist) : safe' = n
  /\ UNCHANGED <<hist, pc, entry, result, inserted, acked, writes, crashes>>

Crash ==
  /\ crashes < MaxCrashes
  /\ crashes' = crashes + 1
  /\ \E n \in safe .. Len(hist) :
       /\ hist' = SubSeq(hist, 1, n)
       /\ inserted' = SubSeq(inserted, 1, n)
       /\ safe' = n
  /\ pc' = [c \in Callers |-> "idle"]
  /\ entry' = [c \in Callers |-> NoEntry]
  /\ result' = [c \in Callers |-> NoResult]
  /\ UNCHANGED <<acked, writes>>

\* A panic in any goroutine ends the process.
Alive == \A c \in Callers : pc[c] # "panic"

Next ==
  \/ /\ Alive
     /\ \/ \E c \in Callers, k \in Keys :
             \/ \E kind \in Inputs, v \in Vectors : Insert(c, k, kind, v)
             \/ \E bytes \in RawValues : RawSet(c, k, bytes)
             \/ Get(c, k)
        \/ \E c \in Callers : InsertSet(c) \/ InsertFails(c) \/ InsertReturn(c)
        \/ Sync
  \/ Crash

Spec == Init /\ [][Next]_vars

-----------------------------------------------------------------------------
(***************************************************************************)
(* Properties.                                                             *)
(***************************************************************************)

\* Whatever is interleaved, and after a crash too, a Get whose key was last
\* written by an Insert returned exactly the vector inserted, and never nil.
RoundTrip ==
  \A c \in Callers : LET r == result[c] IN
    r.of # 0 /\ inserted[r.of] # NotVector =>
      r.got = [err |-> FALSE, value |-> inserted[r.of]]

\* An array for which storage.Insert has returned nil is still there after any
\* crash, with the writes that were sequenced before it.  Nothing is said of an
\* Entry of another object type, for which nil means that nothing was stored,
\* nor of what client.Insert returned, which is the same when Set failed.
AckedInsertsSurvive == \A i \in acked : i <= safe /\ i <= Len(hist)

=============================================================================
