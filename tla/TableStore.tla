----------------------------- MODULE TableStore -----------------------------
(***************************************************************************)
(* What the version set promises of the tables' contents: an edit takes    *)
(* effect as a whole, only the edits that say so add or remove anything,   *)
(* and after a crash the store holds what it held, with or without the one *)
(* edit that was under way.  An item is a key with the number of the table *)
(* that brought it.                                                        *)
(***************************************************************************)
EXTENDS Naturals, FiniteSets

CONSTANTS Spans    \* the key spans an edit may clear

VARIABLES
  contents,  \* what the store may hold: one set of items, more after a crash
  inflight,  \* the edit under way, or None
  brought    \* the tables whose items an edit has already added; a number of which
             \* a crash left no item may be used again

vars == <<contents, inflight, brought>>

None == [kind |-> "none", del |-> {}, add |-> {}]

InSpan(c, S) == {x \in c : x[1] \in S}
Effect(c, e) == (c \ e.del) \cup e.add

\* The items of one table, which no edit added before.
Fresh(add) == add # {} /\ \E n \in {x[2] : x \in add} :
                            n \notin brought /\ \A x \in add : x[2] = n

\* Rewriting tables changes nothing; a write adds a table; an excise clears a
\* span and adds a table; a delete-only compaction removes items of a span.
Allowed(c, e) ==
  \/ e.kind = "rewrite" /\ e.del = {} /\ e.add = {}
  \/ e.kind = "write" /\ e.del = {} /\ Fresh(e.add)
  \/ e.kind = "excise" /\ Fresh(e.add) /\ \E S \in Spans : e.del = InSpan(c, S)
  \/ e.kind = "drop" /\ e.add = {} /\ \E S \in Spans : e.del \subseteq InSpan(c, S)

Init ==
  /\ Cardinality(contents) = 1
  /\ inflight = None
  /\ brought = {x[2] : x \in UNION contents}

Begin ==
  /\ inflight = None /\ inflight' # None
  /\ \A c \in contents : Allowed(c, inflight')
  /\ brought' = brought \cup {x[2] : x \in inflight'.add}
  /\ UNCHANGED contents

Apply ==
  /\ inflight # None /\ inflight' = None
  /\ contents' = {Effect(c, inflight) : c \in contents}
  /\ UNCHANGED brought

Crash ==
  /\ inflight' = None
  /\ contents' # {}
  /\ contents' \subseteq contents \cup {Effect(c, inflight) : c \in contents}
  /\ brought' = {x[2] : x \in UNION contents'}

Reopen ==
  /\ contents' # {} /\ contents' \subseteq contents
  /\ UNCHANGED <<inflight, brought>>

Next == Begin \/ Apply \/ Crash \/ Reopen

Spec == Init /\ [][Next]_vars
=============================================================================
