------------------------------ MODULE MCServer ------------------------------
(***************************************************************************)
(* Instances of Server for TLC.                                            *)
(***************************************************************************)
EXTENDS Server, Functions

CONSTANT c1

Header(n) == [Plain(<<"*n">>) EXCEPT !.star = TRUE, !.count = n]

Inline(text) == [line |-> Plain(text), words |-> <<>>]
Bulk(words) == [line |-> Header(Len(words)), words |-> words]
Array(text) == Bulk([i \in DOMAIN text |-> <<Plain(<<text[i]>>)>>])

\* A value with blanks around it, and one with a line end in it.
PaddedSet ==
  Bulk(<<<<Plain(<<"set">>)>>, <<Plain(<<"k">>)>>, <<[Plain(<<"v">>) EXCEPT !.pad = TRUE]>>>>)
TwoLineSet ==
  Bulk(<<<<Plain(<<"set">>)>>, <<Plain(<<"k">>)>>, <<Plain(<<"v">>), Plain(<<"ping">>)>>>>)

\* Sets and gets of one key, in both forms, values that lose something, an empty
\* line, and "*-1", which stands for no array.
MixedCommands ==
  {Array(<<"SET", "k", "v">>), Inline(<<"get", "k">>), Array(<<"get">>),
   Inline(<<>>), PaddedSet, TwoLineSet, [line |-> Header(-1), words |-> <<>>]}

\* What a shutdown meets: a write, a read, a handler that gives up, and a panic.
FewCommands ==
  {Array(<<"SET", "k", "v">>), Inline(<<"get", "k">>), Inline(<<>>),
   [line |-> Header(-1), words |-> <<>>]}

\* The commands a client has sent, or begun to.
Wrote(c) == sent[c] \o cut[c]

\* Two clients with two of the few commands between them, or one with any three.
TwoClients ==
  /\ MapThenSumSet(LAMBDA c : Len(Wrote(c)), Conns) <= 2
  /\ \A c \in Conns : Range(Wrote(c)) \subseteq FewCommands
OneClient == \A c \in Conns : conn[c] # "none" => c = c1

BoundedStep == Next /\ (TwoClients' \/ OneClient')

BoundedSpec == Init /\ [][BoundedStep]_vars /\ Fairness /\ Patience
=============================================================================
