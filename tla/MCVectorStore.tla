---------------------------- MODULE MCVectorStore ----------------------------
(***************************************************************************)
(* Instances of VectorStore for TLC: words of two ternary digits.          *)
(***************************************************************************)
EXTENDS VectorStore

\* No dimension, a number whose digits differ, and two of them.
SomeVectors == {<<>>, <<5>>, <<1, 7>>}

\* Bytes that are no vector, and bytes that happen to look like one.
SomeRawValues == {<<2>>, <<0, 1>>}
=============================================================================
