---------------------------- MODULE RecordReader ----------------------------
(***************************************************************************)
(* The format of a log file (record/record.go) and its reader.             *)
(*                                                                         *)
(* A file is a sequence of cells.  A block has BlockSize of them, the      *)
(* header of a chunk Header, of which the first Legacy hold checksum,      *)
(* length and type and the others the log number.  A cell knows which      *)
(* chunk it was written for: the checksum of a chunk is right exactly when *)
(* all its cells were written for it, which stands for a CRC that never    *)
(* collides.                                                               *)
(***************************************************************************)
EXTENDS Integers, Sequences, SequencesExt

CONSTANTS BlockSize, Header, Legacy

ASSUME FormatAssumption ==
  /\ BlockSize \in Nat /\ Header \in Nat /\ Legacy \in Nat
  /\ 0 < Legacy /\ Legacy < Header /\ Header < BlockSize

\* A chunk: the log it was written for, its type, and its payload, len bytes
\* from offset off of record rec.
Chunk(log, type, rec, off, len) ==
  [log |-> log, type |-> type, rec |-> rec, off |-> off, len |-> len]

\* The cells of a chunk: header, then payload.
Cells(c) == [i \in 1 .. Header + c.len |-> [chunk |-> c, at |-> i - 1]]

\* Padding, and what preallocation leaves.
Zero == [chunk |-> Chunk(0, "zero", 0, 0, 0), at |-> 0]

\* Where the block that holds position p (from 0) begins and ends.
BlockStart(p) == (p \div BlockSize) * BlockSize
BlockEnd(file, p) == LET e == BlockStart(p) + BlockSize
                     IN  IF e < Len(file) THEN e ELSE Len(file)

\* Mutant: the log number is not compared.
ParseAnyLog(file, p, n, log, wantFirst) ==
  LET c == file[p + 1].chunk
  IN  IF file[p + 1] = Zero THEN "zeroed"
      ELSE IF p + Header + c.len > n
                \/ \E i \in 1 .. Header + c.len : file[p + i] # Cells(c)[i]
           THEN "invalid"
      ELSE IF wantFirst /\ c.type \notin {"full", "first"} THEN "next"
      ELSE "ok"

\* What nextChunk makes of the header at position p of a block that ends at
\* n.  Cells that do not begin a chunk are bytes of any value: as a header
\* they have another log number, a length too long or a wrong checksum.
Parse(file, p, n, log, wantFirst) ==
  LET h == file[p + 1]
      c == h.chunk
      Wrong(from, to) == \E i \in from .. to : file[p + i] # Cells(c)[i]
  IN  IF h = Zero THEN IF p + Header > n THEN "skip" ELSE "zeroed"
      ELSE IF h.at # 0 \/ p + Header > n \/ Wrong(1, Legacy) THEN "invalid"
      ELSE IF Wrong(Legacy + 1, Header) \/ c.log # log
           THEN IF wantFirst THEN "EOF" ELSE "invalid"
      ELSE IF p + Header + c.len > n \/ Wrong(Header + 1, Header + c.len)
                \/ c.type = "eof"   \* its checksum is 0
           THEN "invalid"
      ELSE IF wantFirst /\ c.type \notin {"full", "first"} THEN "next"
      ELSE "ok"

\* Reader.nextChunk from position p: the chunk found and where it ends, or why
\* there is none.  Logs are not read in recovering mode.
RECURSIVE NextChunk(_, _, _, _)
NextChunk(file, log, wantFirst, p) ==
  LET Stop(e) == [err |-> e, chunk |-> Zero.chunk, end |-> 0]
      n == BlockEnd(file, p)
      found == IF p + Legacy > n THEN "short" ELSE Parse(file, p, n, log, wantFirst)
      chunk == file[p + 1].chunk
      end == p + Header + chunk.len
  IN  CASE found = "ok" -> [err |-> "", chunk |-> chunk, end |-> end]
        [] found = "next" -> NextChunk(file, log, wantFirst, end)
        [] found \in {"short", "skip"} ->
             IF p = Len(file) /\ p % BlockSize = 0
             THEN Stop(IF wantFirst THEN "EOF" ELSE "unexpected EOF")
             ELSE IF n = BlockStart(p) + BlockSize
                  THEN NextChunk(file, log, wantFirst, n)
             ELSE IF wantFirst /\ (p = n \/ found = "skip") THEN Stop("EOF")
             ELSE Stop("invalid")
        [] found \in {"zeroed", "EOF", "invalid"} -> Stop(found)

\* All records of a file, each as the payloads it was put together from, and
\* how reading ended: Next and io.Copy until an error.  parts is what has been
\* read of the record at hand.
RECURSIVE ReadFrom(_, _, _, _, _)
ReadFrom(file, log, p, recs, parts) ==
  LET f == NextChunk(file, log, parts = <<>>, p)
      c == f.chunk
      all == Append(parts, [rec |-> c.rec, off |-> c.off, len |-> c.len])
  IN  IF f.err # "" THEN [recs |-> recs, err |-> f.err]
      ELSE IF c.type \in {"full", "last"}
           THEN ReadFrom(file, log, f.end, Append(recs, all), <<>>)
      ELSE ReadFrom(file, log, f.end, recs, all)

ReadLog(file, log) == ReadFrom(file, log, 0, <<>>, <<>>)
=============================================================================
