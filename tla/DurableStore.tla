---------------------------- MODULE DurableStore ----------------------------
(***************************************************************************)
(* What the storage engine promises about a crash: the writes that survive *)
(* it are the oldest ones, with no hole between them, and every write that *)
(* was reported durable is among them.                                     *)
(***************************************************************************)
EXTENDS Naturals

VARIABLES
  data,      \* the sequence numbers of the writes the store holds
  promised   \* writes up to this one were reported durable

vars == <<data, promised>>

Init == data = {} /\ promised = 0

Write ==
  /\ \E s \in data' \ data : data' = data \cup {s} /\ \A d \in data : d < s
  /\ UNCHANGED promised

Promise ==
  /\ promised' \in data /\ promised' > promised
  /\ UNCHANGED data

Crash ==
  /\ \E k \in {promised} \cup data :
       k >= promised /\ data' = {d \in data : d <= k}
  /\ UNCHANGED promised

Next == Write \/ Promise \/ Crash

Spec == Init /\ [][Next]_vars
=============================================================================
