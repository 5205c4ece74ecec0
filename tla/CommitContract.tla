--------------------------- MODULE CommitContract ---------------------------
(***************************************************************************)
(* What commitPipeline promises the rest of Pebble, without its queue, its *)
(* locks and its log: sequence numbers are handed out in order, entries    *)
(* are applied in any order, and reads happen at a sequence number that    *)
(* only moves up, from the end of one batch to the end of another, over    *)
(* applied entries.                                                        *)
(***************************************************************************)
EXTENDS Integers

CONSTANTS Clients, StartSeqNum

VARIABLES
  nextSeqNum,      \* the next sequence number to hand out
  visibleSeqNum,   \* reads see the sequence numbers below
  mem,             \* sequence numbers with nothing more to be applied
  ends,            \* where a batch ends
  status,          \* per client: "out", "called", "sequenced" or "broken"
  range            \* the sequence numbers of a sequenced call

vars == <<nextSeqNum, visibleSeqNum, mem, ends, status, range>>

NoRange == [first |-> 0, end |-> 0]

Init ==
  /\ nextSeqNum = StartSeqNum /\ visibleSeqNum = StartSeqNum
  /\ mem = {} /\ ends = {StartSeqNum}
  /\ status = [c \in Clients |-> "out"]
  /\ range = [c \in Clients |-> NoRange]

Call(c) ==
  /\ status[c] = "out"
  /\ status' = [status EXCEPT ![c] = "called"]
  /\ UNCHANGED <<nextSeqNum, visibleSeqNum, mem, ends, range>>

\* An ingestion leaves out sequence number 0, which then holds no entry.
Sequence(c) ==
  /\ status[c] = "called"
  /\ status' = [status EXCEPT ![c] = "sequenced"]
  /\ \E first \in {nextSeqNum} \cup (IF nextSeqNum = 0 THEN {1} ELSE {}) :
       /\ nextSeqNum' >= first
       /\ range' = [range EXCEPT ![c] = [first |-> first, end |-> nextSeqNum']]
       /\ mem' = mem \cup (nextSeqNum .. first - 1)
  /\ ends' = ends \cup {nextSeqNum'}
  /\ UNCHANGED visibleSeqNum

Apply(c) ==
  /\ status[c] = "sequenced"
  /\ mem \subseteq mem'
  /\ mem' \ mem \subseteq range[c].first .. range[c].end - 1
  /\ UNCHANGED <<nextSeqNum, visibleSeqNum, ends, status, range>>

Publish ==
  /\ visibleSeqNum' \in ends
  /\ visibleSeqNum' > visibleSeqNum
  /\ StartSeqNum .. visibleSeqNum' - 1 \subseteq mem
  /\ UNCHANGED <<nextSeqNum, mem, ends, status, range>>

Return(c) ==
  /\ status[c] = "sequenced"
  /\ range[c].end <= visibleSeqNum
  /\ status' = [status EXCEPT ![c] = "out"]
  /\ range' = [range EXCEPT ![c] = NoRange]
  /\ UNCHANGED <<nextSeqNum, visibleSeqNum, mem, ends>>

\* The call met an error; the process is about to end.
Break(c) ==
  /\ status[c] \in {"called", "sequenced"}
  /\ status' = [status EXCEPT ![c] = "broken"]
  /\ range' = [range EXCEPT ![c] = NoRange]
  /\ UNCHANGED <<nextSeqNum, visibleSeqNum, mem, ends>>

Next ==
  \/ \E c \in Clients : Call(c) \/ Sequence(c) \/ Apply(c) \/ Return(c) \/ Break(c)
  \/ Publish

Spec == Init /\ [][Next]_vars
=============================================================================
