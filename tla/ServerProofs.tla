---------------------------- MODULE ServerProofs ----------------------------
(***************************************************************************)
(* Proofs about Server, for any connections and any commands: parseRESP    *)
(* stays in step with its client until a word has a line end in it, and    *)
(* what was answered with +OK is in the store after a shutdown.            *)
(***************************************************************************)
EXTENDS Server, SequenceTheorems, FiniteSetTheorems, WellFoundedInduction, TLAPS

-----------------------------------------------------------------------------
(***************************************************************************)
(* Sequences and recursion over an initial segment.                        *)
(***************************************************************************)

\* A function over 1 .. n is a sequence of length n.
LEMMA FunctionIsSeq ==
  ASSUME NEW S, NEW m \in Nat, NEW f \in [1 .. m -> S]
  PROVE  f \in Seq(S) /\ Len(f) = m
<1>1. f \in Seq(S)
  BY SeqDef
<1>2. Len(f) \in Nat /\ DOMAIN f = 1 .. Len(f) /\ DOMAIN f = 1 .. m
  BY <1>1, LenProperties
<1> QED
  BY <1>1, <1>2

\* A set of numbers has a least element.
LEMMA Least ==
  ASSUME NEW S, S \subseteq Nat, S # {}
  PROVE  \E m \in S : \A x \in S : m <= x
<1>1. IsWellFoundedOn(OpToRel(<, Nat), Nat)
  BY NatLessThanWellFounded
<1>2. PICK m \in S : \A y \in S : ~(<<y, m>> \in OpToRel(<, Nat))
  BY <1>1, WFMin
<1>3. \A y \in S : ~(y < m)
  BY <1>2 DEF OpToRel
<1> QED
  BY <1>3

\* Induction up to n, for the numbers in a set.
LEMMA Induct ==
  ASSUME NEW n \in Nat, NEW T, 0 \in T, \A i \in 1 .. n : i - 1 \in T => i \in T
  PROVE  \A i \in 0 .. n : i \in T
<1> DEFINE S == {i \in 0 .. n : i \notin T}
<1> SUFFICES ASSUME S # {} PROVE FALSE
  OBVIOUS
<1>1. PICK m \in S : \A x \in S : m <= x
  <2>1. S \subseteq Nat
    OBVIOUS
  <2> HIDE DEF S
  <2> QED
    BY <2>1, Least
<1>2. m \in 1 .. n /\ m \notin T
  BY <1>1
<1>3. m - 1 \in 0 .. n /\ m - 1 \notin S
  BY <1>1, <1>2
<1> QED
  BY <1>2, <1>3

\* f is the recursion with these steps.
Solves(f, base, n, step) ==
  f[0] = base /\ \A i \in 1 .. n : f[i] = step[i][f[i - 1]]

\* A recursion over 0 .. n has a solution.
LEMMA RecExists ==
  ASSUME NEW S, NEW base \in S, NEW n \in Nat, NEW step \in [1 .. n -> [S -> S]]
  PROVE  \E f \in [0 .. n -> S] : Solves(f, base, n, step)
<1> DEFINE T == {k \in 0 .. n : \E f \in [0 .. k -> S] : Solves(f, base, k, step)}
<1>1. 0 \in T
  <2> DEFINE g == [i \in 0 .. 0 |-> base]
  <2>1. g \in [0 .. 0 -> S]
    OBVIOUS
  <2>2. Solves(g, base, 0, step)
    BY DEF Solves
  <2>3. 0 \in 0 .. n
    OBVIOUS
  <2> HIDE DEF g
  <2> QED
    BY <2>1, <2>2, <2>3
<1>2. ASSUME NEW k \in 1 .. n, k - 1 \in T PROVE k \in T
  <2>1. PICK f \in [0 .. k - 1 -> S] : Solves(f, base, k - 1, step)
    BY <1>2
  <2> DEFINE g == [i \in 0 .. k |-> IF i = k THEN step[k][f[k - 1]] ELSE f[i]]
  <2>2. f[k - 1] \in S /\ step[k][f[k - 1]] \in S
    OBVIOUS
  <2>3. g \in [0 .. k -> S]
    BY <2>2
  <2>4. ASSUME NEW i \in 1 .. k PROVE g[i] = step[i][g[i - 1]]
    <3>1. CASE i = k
      BY <3>1
    <3>2. CASE i # k
      <4>1. i \in 1 .. k - 1 /\ i \in 0 .. k /\ i - 1 \in 0 .. k /\ i - 1 # k
        BY <3>2
      <4>2. g[i] = f[i] /\ g[i - 1] = f[i - 1]
        BY <3>2, <4>1
      <4> QED
        BY <4>1, <4>2, <2>1 DEF Solves
    <3> QED
      BY <3>1, <3>2
  <2>5. g[0] = base
    BY <2>1 DEF Solves
  <2> HIDE DEF g
  <2>6. Solves(g, base, k, step)
    BY <2>4, <2>5 DEF Solves
  <2>7. k \in 0 .. n
    OBVIOUS
  <2> QED
    BY <2>3, <2>6, <2>7
<1>3. n \in T
  <2>1. n \in 0 .. n
    OBVIOUS
  <2> HIDE DEF T
  <2> QED
    BY <1>1, <1>2, <2>1, Induct
<1> QED
  BY <1>3

\* Two sequences in one.
LEMMA Joined ==
  ASSUME NEW S, NEW t \in Seq(S), NEW w \in Seq(S)
  PROVE  /\ t \o w \in Seq(S) /\ Len(t) \in Nat /\ Len(w) \in Nat
         /\ Len(t \o w) = Len(t) + Len(w)
         /\ \A i \in 1 .. Len(t) : (t \o w)[i] = t[i]
         /\ \A i \in 1 .. Len(w) : (t \o w)[Len(t) + i] = w[i]
BY ConcatProperties

-----------------------------------------------------------------------------
(***************************************************************************)
(* The lines of a command.                                                 *)
(***************************************************************************)

\* What the lines of any program are made of: the provers do not know that a
\* word of the model is a string.
Word == STRING \cup {"$n", "1", "vector", "ping", "set", "get"}
Text == Seq(Word)
AnyLine == [star : BOOLEAN, count : Int, pad : BOOLEAN, text : Text]

\* The lines of a client and the line of a length are such lines.
LEMMA AnyLines == Line \subseteq AnyLine /\ LengthLine \in AnyLine
<1>1. Seq(STRING) \subseteq Text
  BY SeqMonotonic DEF Word, Text
<1>2. Line \subseteq AnyLine
  BY <1>1 DEF Line, AnyLine
<1> DEFINE word == "$n"
<1>3. word \in Word
  BY DEF Word
<1>4. LengthLine = [star |-> FALSE, count |-> 0, pad |-> FALSE, text |-> <<word>>]
  BY DEF LengthLine, Plain
<1> HIDE DEF word
<1>5. <<word>> \in Text
  BY <1>3 DEF Text
<1>6. 0 \in Int
  OBVIOUS
<1> QED
  BY <1>2, <1>4, <1>5, <1>6 DEF AnyLine

\* What a line may hold.
LEMMA LineFacts ==
  ASSUME NEW line \in AnyLine
  PROVE  line.star \in BOOLEAN /\ line.count \in Int /\ line.text \in Text
BY DEF AnyLine

\* The lines of a command, one word at a time.
LEMMA EncodeRec ==
  ASSUME NEW cmd \in Commands
  PROVE  /\ cmd.line \in AnyLine /\ cmd.words \in Seq(Seq(AnyLine)) /\ Len(cmd.words) \in Nat
         /\ \E f \in [0 .. Len(cmd.words) -> Seq(AnyLine)] :
              /\ f[0] = <<cmd.line>> /\ f[Len(cmd.words)] = Encode(cmd)
              /\ \A i \in 1 .. Len(cmd.words) :
                   f[i] = f[i - 1] \o <<LengthLine>> \o cmd.words[i]
<1> DEFINE n == Len(cmd.words)
           more(i, s) == s \o <<LengthLine>> \o cmd.words[i]
           Eq(f) == f = [i \in 0 .. n |-> IF i = 0 THEN <<cmd.line>>
                                          ELSE f[i - 1] \o <<LengthLine>> \o cmd.words[i]]
           A == CHOOSE f : Eq(f)
           step == [i \in 1 .. n |-> [s \in Seq(AnyLine) |-> more(i, s)]]
<1>0. cmd \in CommandType
  BY ServerAssumption
<1>1. cmd.line \in AnyLine /\ cmd.words \in Seq(Seq(AnyLine)) /\ n \in Nat
  <2>1. cmd.line \in Line /\ cmd.words \in Seq(Seq(Line))
    BY <1>0 DEF CommandType
  <2>2. Seq(Line) \subseteq Seq(AnyLine)
    BY AnyLines, SeqMonotonic
  <2>3. Seq(Seq(Line)) \subseteq Seq(Seq(AnyLine))
    BY <2>2, SeqMonotonic
  <2> QED
    BY <2>1, <2>3, AnyLines
<1>2. Encode(cmd) = A[n]
  BY DEF Encode
<1>3. ASSUME NEW i \in 1 .. n, NEW s \in Seq(AnyLine) PROVE more(i, s) \in Seq(AnyLine)
  <2>1. cmd.words[i] \in Seq(AnyLine)
    BY <1>1, ElementOfSeq
  <2>2. <<LengthLine>> \in Seq(AnyLine)
    BY AnyLines
  <2>3. s \o <<LengthLine>> \in Seq(AnyLine)
    BY <2>2, Joined
  <2> QED
    BY <2>1, <2>3, Joined
<1>4. step \in [1 .. n -> [Seq(AnyLine) -> Seq(AnyLine)]]
  <2> HIDE DEF more
  <2> QED
    BY <1>3
<1>5. <<cmd.line>> \in Seq(AnyLine)
  BY <1>1
<1>6. PICK f \in [0 .. n -> Seq(AnyLine)] : Solves(f, <<cmd.line>>, n, step)
  <2> HIDE DEF step
  <2> QED
    BY <1>1, <1>4, <1>5, RecExists
<1>7. Eq(f)
  <2>1. ASSUME NEW i \in 1 .. n PROVE f[i] = f[i - 1] \o <<LengthLine>> \o cmd.words[i]
    <3>1. i - 1 \in 0 .. n
      BY <1>1
    <3>2. f[i - 1] \in Seq(AnyLine)
      BY <3>1
    <3>3. f[i] = step[i][f[i - 1]]
      BY <1>6 DEF Solves
    <3> QED
      BY <3>2, <3>3
  <2>2. f[0] = <<cmd.line>>
    BY <1>6 DEF Solves
  <2>3. \A i \in 0 .. n : f[i] = IF i = 0 THEN <<cmd.line>>
                                 ELSE f[i - 1] \o <<LengthLine>> \o cmd.words[i]
    <3>1. \A i \in 0 .. n : i = 0 \/ i \in 1 .. n
      BY <1>1
    <3> QED
      BY <3>1, <2>1, <2>2
  <2> QED
    BY <2>3
<1>8. Eq(A)
  BY <1>7
<1> HIDE DEF A
<1>9. A[0] = <<cmd.line>>
      /\ \A i \in 1 .. n : A[i] = A[i - 1] \o <<LengthLine>> \o cmd.words[i]
  <2>1. 0 \in 0 .. n /\ \A i \in 1 .. n : i \in 0 .. n /\ i # 0
    BY <1>1
  <2> QED
    BY <1>8, <2>1
<1> DEFINE T == {i \in 0 .. n : A[i] \in Seq(AnyLine)}
<1>10. 0 \in T
  <2>1. 0 \in 0 .. n
    BY <1>1
  <2>2. A[0] \in Seq(AnyLine)
    BY <1>5, <1>9
  <2> QED
    BY <2>1, <2>2
<1>11. ASSUME NEW i \in 1 .. n, i - 1 \in T PROVE i \in T
  <2>1. A[i - 1] \in Seq(AnyLine) /\ A[i] = more(i, A[i - 1])
    BY <1>9, <1>11
  <2>2. A[i] \in Seq(AnyLine)
    BY <2>1, <1>3
  <2> QED
    BY <2>2
<1> HIDE DEF T
<1>12. \A i \in 0 .. n : i \in T
  BY <1>1, <1>10, <1>11, Induct
<1>13. A \in [0 .. n -> Seq(AnyLine)]
  <2>1. \A i \in 0 .. n : A[i] \in Seq(AnyLine)
    BY <1>12 DEF T
  <2> QED
    BY <1>8, <2>1
<1> QED
  BY <1>1, <1>2, <1>9, <1>13

\* Adding a word to some lines.
LEMMA AddWord ==
  ASSUME NEW s \in Seq(AnyLine), NEW w \in Seq(AnyLine), NEW r, r = s \o <<LengthLine>> \o w
  PROVE  /\ r \in Seq(AnyLine) /\ Len(r) = Len(s) + 1 + Len(w)
         /\ Len(s) \in Nat /\ Len(w) \in Nat
         /\ \A i \in 1 .. Len(s) : r[i] = s[i]
         /\ \A i \in 1 .. Len(w) : r[Len(s) + 1 + i] = w[i]
<1> DEFINE t == s \o <<LengthLine>>
<1>1. <<LengthLine>> \in Seq(AnyLine) /\ Len(<<LengthLine>>) = 1
  BY AnyLines
<1>2. t \in Seq(AnyLine) /\ Len(t) = Len(s) + 1 /\ Len(s) \in Nat /\ \A i \in 1 .. Len(s) : t[i] = s[i]
  BY <1>1, Joined
<1>3. r = t \o w
  OBVIOUS
<1> HIDE DEF t
<1>4. /\ r \in Seq(AnyLine) /\ Len(r) = Len(t) + Len(w) /\ Len(w) \in Nat
      /\ \A i \in 1 .. Len(t) : r[i] = t[i]
      /\ \A i \in 1 .. Len(w) : r[Len(t) + i] = w[i]
  BY <1>2, <1>3, Joined
<1>5. \A i \in 1 .. Len(s) : r[i] = s[i]
  <2>1. \A i \in 1 .. Len(s) : i \in 1 .. Len(t)
    BY <1>2
  <2> QED
    BY <1>2, <1>4, <2>1
<1>6. Len(r) = Len(s) + 1 + Len(w) /\ \A i \in 1 .. Len(w) : r[Len(s) + 1 + i] = w[i]
  BY <1>2, <1>4
<1> QED
  BY <1>2, <1>4, <1>5, <1>6

\* Whatever its words are, a command begins with its first line.
LEMMA EncodeFacts ==
  ASSUME NEW cmd \in Commands
  PROVE  /\ cmd.line \in AnyLine /\ cmd.words \in Seq(Seq(AnyLine)) /\ Len(cmd.words) \in Nat
         /\ Encode(cmd) \in Seq(AnyLine) /\ Len(Encode(cmd)) \in Nat /\ Len(Encode(cmd)) >= 1
         /\ Encode(cmd)[1] = cmd.line
<1> DEFINE n == Len(cmd.words)
<1>1. cmd.line \in AnyLine /\ cmd.words \in Seq(Seq(AnyLine)) /\ n \in Nat
  BY EncodeRec
<1>2. PICK f \in [0 .. n -> Seq(AnyLine)] :
        /\ f[0] = <<cmd.line>> /\ f[n] = Encode(cmd)
        /\ \A i \in 1 .. n : f[i] = f[i - 1] \o <<LengthLine>> \o cmd.words[i]
  BY EncodeRec
<1> DEFINE T == {i \in 0 .. n : Len(f[i]) >= 1 /\ f[i][1] = cmd.line}
<1>3. 0 \in T
  <2>1. Len(<<cmd.line>>) = 1 /\ <<cmd.line>>[1] = cmd.line
    OBVIOUS
  <2> QED
    BY <1>1, <1>2, <2>1
<1>4. ASSUME NEW i \in 1 .. n, i - 1 \in T PROVE i \in T
  <2> DEFINE s == f[i - 1]
             w == cmd.words[i]
  <2>1. s \in Seq(AnyLine) /\ Len(s) >= 1 /\ s[1] = cmd.line
    BY <1>1, <1>4
  <2>2. w \in Seq(AnyLine)
    BY <1>1, ElementOfSeq
  <2>3. f[i] = s \o <<LengthLine>> \o w
    BY <1>2
  <2> HIDE DEF s, w
  <2>4. /\ Len(f[i]) = Len(s) + 1 + Len(w) /\ Len(s) \in Nat /\ Len(w) \in Nat
        /\ \A j \in 1 .. Len(s) : f[i][j] = s[j]
    BY <2>1, <2>2, <2>3, AddWord
  <2>6. Len(f[i]) >= 1 /\ f[i][1] = cmd.line
    BY <2>1, <2>4
  <2>5. i \in 0 .. n
    BY <1>1
  <2> QED
    BY <2>5, <2>6
<1> HIDE DEF T
<1>5. n \in 0 .. n
  BY <1>1
<1>6. n \in T
  BY <1>1, <1>3, <1>4, <1>5, Induct
<1>7. Encode(cmd) \in Seq(AnyLine)
  BY <1>2, <1>5
<1> QED
  BY <1>1, <1>2, <1>6, <1>7 DEF T

\* What parseRESP relies on: the first line of a command tells how many there
\* are, and an array has its words on every second line.
LEMMA FramedFacts ==
  ASSUME NEW cmd \in Commands, Framed(cmd)
  PROVE  /\ Len(Encode(cmd)) = IF cmd.line.star THEN 1 + 2 * cmd.line.count ELSE 1
         /\ cmd.line.star => /\ Len(cmd.words) = cmd.line.count /\ cmd.line.count \in Nat
                             /\ \A i \in 1 .. cmd.line.count :
                                  Encode(cmd)[2 * i + 1] = cmd.words[i][1]
<1> DEFINE n == Len(cmd.words)
<1>1. cmd.line \in AnyLine /\ cmd.words \in Seq(Seq(AnyLine)) /\ n \in Nat
  BY EncodeRec
<1>2. PICK f \in [0 .. n -> Seq(AnyLine)] :
        /\ f[0] = <<cmd.line>> /\ f[n] = Encode(cmd)
        /\ \A i \in 1 .. n : f[i] = f[i - 1] \o <<LengthLine>> \o cmd.words[i]
  BY EncodeRec
<1>3. \A i \in 1 .. n : cmd.words[i] \in Seq(AnyLine) /\ Len(cmd.words[i]) = 1
  BY <1>1, ElementOfSeq DEF Framed
<1> DEFINE Holds(i) == /\ Len(f[i]) = 1 + 2 * i
                       /\ \A j \in 1 .. i : f[i][2 * j + 1] = cmd.words[j][1]
           T == {i \in 0 .. n : Holds(i)}
<1>4. 0 \in T
  <2>1. Len(<<cmd.line>>) = 1 /\ \A j \in 1 .. 0 : FALSE
    OBVIOUS
  <2> QED
    BY <1>1, <1>2, <2>1
<1>5. ASSUME NEW i \in 1 .. n, i - 1 \in T PROVE i \in T
  <2> DEFINE s == f[i - 1]
             w == cmd.words[i]
             r == f[i]
  <2>1. s \in Seq(AnyLine) /\ Len(s) = 2 * i - 1
    <3>1. i - 1 \in 0 .. n /\ 1 + 2 * (i - 1) = 2 * i - 1
      BY <1>1
    <3> QED
      BY <1>5, <3>1
  <2>a. \A j \in 1 .. i - 1 : s[2 * j + 1] = cmd.words[j][1]
    BY <1>5
  <2>2. w \in Seq(AnyLine) /\ Len(w) = 1
    BY <1>3
  <2>3. r = s \o <<LengthLine>> \o w
    BY <1>2
  <2> HIDE DEF s, w, r
  <2>b. s \in Seq(AnyLine) /\ w \in Seq(AnyLine)
    BY <2>1, <2>2
  <2>4. /\ Len(r) = Len(s) + 1 + Len(w)
        /\ \A j \in 1 .. Len(s) : r[j] = s[j]
        /\ \A j \in 1 .. Len(w) : r[Len(s) + 1 + j] = w[j]
    BY <2>b, <2>3, AddWord
  <2>5. Len(r) = 1 + 2 * i
    BY <2>1, <2>2, <2>4
  <2>6. ASSUME NEW j \in 1 .. i PROVE r[2 * j + 1] = cmd.words[j][1]
    <3>1. CASE j = i
      <4>1. 1 \in 1 .. Len(w) /\ Len(s) + 1 + 1 = 2 * j + 1
        BY <2>1, <2>2, <3>1
      <4>2. r[Len(s) + 1 + 1] = w[1]
        BY <2>4, <4>1
      <4> QED
        BY <3>1, <4>1, <4>2 DEF w
    <3>2. CASE j # i
      <4>1. j \in 1 .. i - 1 /\ 2 * j + 1 \in 1 .. Len(s)
        BY <2>1, <3>2
      <4>2. r[2 * j + 1] = s[2 * j + 1]
        BY <2>4, <4>1
      <4> QED
        BY <2>a, <4>1, <4>2
    <3> QED
      BY <3>1, <3>2
  <2>7. i \in 0 .. n
    BY <1>1
  <2> QED
    BY <2>5, <2>6, <2>7 DEF r
<1> HIDE DEF T
<1>6. n \in 0 .. n
  BY <1>1
<1>7. n \in T
  BY <1>1, <1>4, <1>5, <1>6, Induct
<1>8. Holds(n)
  BY <1>7 DEF T
<1>9. Len(Encode(cmd)) = 1 + 2 * n /\ \A j \in 1 .. n : Encode(cmd)[2 * j + 1] = cmd.words[j][1]
  BY <1>2, <1>8
<1>10. n = IF cmd.line.star THEN cmd.line.count ELSE 0
  BY DEF Framed
<1> QED
  BY <1>1, <1>9, <1>10, LineFacts
-----------------------------------------------------------------------------
(***************************************************************************)
(* What is in the input of a connection.                                   *)
(***************************************************************************)

\* The commands from cmds[k + 1] on lie one after the other at the front of
\* lines; off[i] is where the i-th of them ends.
Laid(lines, cmds, k, off) ==
  LET m == Len(cmds) - k IN
  /\ off \in [0 .. m -> Nat] /\ off[0] = 0
  /\ \A i \in 1 .. m :
       /\ off[i] = off[i - 1] + Len(Encode(cmds[k + i]))
       /\ \A j \in 1 .. Len(Encode(cmds[k + i])) :
            lines[off[i - 1] + j] = Encode(cmds[k + i])[j]
  /\ \A i, j \in 0 .. m : i <= j => off[i] <= off[j]
  /\ off[m] <= Len(lines)

\* After the n-th line comes cmd without its last line.
CutOff(lines, n, cmd) ==
  /\ Len(lines) = n + Len(Encode(cmd)) - 1
  /\ \A j \in 1 .. Len(Encode(cmd)) - 1 : lines[n + j] = Encode(cmd)[j]

\* The n-th line is the last, but for a command that was cut off.
Ends(lines, n, part) ==
  IF part = <<>> THEN Len(lines) = n ELSE CutOff(lines, n, part[1])

\* lines is what a client has sent after its first k commands, with the command
\* in part if it has hung up.
InStep(lines, cmds, k, part) ==
  \E off \in [0 .. Len(cmds) - k -> Nat] :
    Laid(lines, cmds, k, off) /\ Ends(lines, off[Len(cmds) - k], part)

\* parseRESP can follow the first n of the commands.
FramedTo(cmds, part, n) ==
  \A i \in 1 .. n : i <= Len(cmds \o part) => Framed((cmds \o part)[i])

\* The commands that were sent, and then the one that was cut off.
LEMMA FramedPart ==
  ASSUME NEW cmds \in Seq(Commands), NEW part \in Seq(Commands), NEW n \in Nat,
         FramedTo(cmds, part, n)
  PROVE  /\ \A i \in 1 .. n : i <= Len(cmds) => Framed(cmds[i])
         /\ n = Len(cmds) + 1 /\ part # <<>> => Framed(part[1])
<1> DEFINE all == cmds \o part
<1>1. /\ Len(all) = Len(cmds) + Len(part) /\ Len(cmds) \in Nat /\ Len(part) \in Nat
      /\ \A i \in 1 .. Len(cmds) : all[i] = cmds[i]
      /\ \A i \in 1 .. Len(part) : all[Len(cmds) + i] = part[i]
  BY Joined
<1>2. \A i \in 1 .. n : i <= Len(all) => Framed(all[i])
  BY DEF FramedTo
<1> HIDE DEF all
<1>3. ASSUME NEW i \in 1 .. n, i <= Len(cmds) PROVE Framed(cmds[i])
  <2>1. i \in 1 .. Len(cmds) /\ i <= Len(all)
    BY <1>1, <1>3
  <2> QED
    BY <1>1, <1>2, <2>1
<1>4. ASSUME n = Len(cmds) + 1, part # <<>> PROVE Framed(part[1])
  <2>1. Len(part) >= 1
    BY <1>1, <1>4, EmptySeq
  <2>2. n \in 1 .. n /\ n <= Len(all) /\ 1 \in 1 .. Len(part)
    BY <1>1, <1>4, <2>1
  <2>3. all[n] = part[1]
    BY <1>1, <1>4, <2>2
  <2> QED
    BY <1>2, <2>2, <2>3
<1> QED
  BY <1>3, <1>4

\* What is written later does not change what was framed.
LEMMA FramedLonger ==
  ASSUME NEW cmds \in Seq(Commands), NEW cmd \in Commands, NEW n \in Nat
  PROVE  /\ FramedTo(Append(cmds, cmd), <<>>, n) => FramedTo(cmds, <<>>, n)
         /\ FramedTo(cmds, <<cmd>>, n) => FramedTo(cmds, <<>>, n)
<1> DEFINE short == cmds \o <<>>
           long == cmds \o <<cmd>>
           app == Append(cmds, cmd) \o <<>>
<1>1. short = cmds
  BY ConcatEmptySeq
<1>2. Append(cmds, cmd) \in Seq(Commands)
  BY AppendProperties
<1>3. app = Append(cmds, cmd)
  BY <1>2, ConcatEmptySeq
<1>4. Len(cmds) \in Nat /\ Len(app) = Len(cmds) + 1 /\ \A i \in 1 .. Len(cmds) : app[i] = cmds[i]
  BY <1>3, AppendProperties
<1>5. Len(long) = Len(cmds) + 1 /\ \A i \in 1 .. Len(cmds) : long[i] = cmds[i]
  <2>1. <<cmd>> \in Seq(Commands) /\ Len(<<cmd>>) = 1
    OBVIOUS
  <2> QED
    BY <2>1, Joined
<1> HIDE DEF short, long, app
<1>6. ASSUME NEW all \in {app, long}, \A i \in 1 .. n : i <= Len(all) => Framed(all[i]),
             NEW i \in 1 .. n, i <= Len(short)
      PROVE  Framed(short[i])
  <2>1. i \in 1 .. Len(cmds) /\ i <= Len(all) /\ all[i] = cmds[i]
    BY <1>1, <1>4, <1>5, <1>6
  <2> QED
    BY <1>1, <1>6, <2>1
<1>7. (\A i \in 1 .. n : i <= Len(app) => Framed(app[i]))
      => \A i \in 1 .. n : i <= Len(short) => Framed(short[i])
  BY <1>6
<1>8. (\A i \in 1 .. n : i <= Len(long) => Framed(long[i]))
      => \A i \in 1 .. n : i <= Len(short) => Framed(short[i])
  BY <1>6
<1> QED
  BY <1>7, <1>8 DEF FramedTo, short, long, app

\* A position within a command lies within the lines that hold it.
LEMMA Within ==
  ASSUME NEW a \in Nat, NEW c \in Nat, NEW n \in Nat, a + c <= n, NEW j \in 1 .. c
  PROVE  a + j \in 1 .. n
OBVIOUS

\* A command written to a stream that is in step leaves it in step.
LEMMA SendInStep ==
  ASSUME NEW lines \in Seq(AnyLine), NEW cmds \in Seq(Commands), NEW k \in 0 .. Len(cmds),
         NEW cmd \in Commands, InStep(lines, cmds, k, <<>>)
  PROVE  InStep(lines \o Encode(cmd), Append(cmds, cmd), k, <<>>)
<1> DEFINE m == Len(cmds) - k
           new == lines \o Encode(cmd)
           all == Append(cmds, cmd)
<1>1. PICK off \in [0 .. m -> Nat] : Laid(lines, cmds, k, off) /\ Len(lines) = off[m]
  BY DEF InStep, Ends
<1> DEFINE off2 == [i \in 0 .. m + 1 |-> IF i <= m THEN off[i] ELSE Len(new)]
<1>e. Encode(cmd) \in Seq(AnyLine) /\ Len(Encode(cmd)) \in Nat
  BY EncodeFacts
<1>2. /\ Len(lines) \in Nat /\ m \in Nat /\ k \in Nat
      /\ new \in Seq(AnyLine) /\ Len(new) = Len(lines) + Len(Encode(cmd)) /\ Len(new) \in Nat
      /\ \A i \in 1 .. Len(lines) : new[i] = lines[i]
      /\ \A j \in 1 .. Len(Encode(cmd)) : new[Len(lines) + j] = Encode(cmd)[j]
  BY <1>e, ConcatProperties
<1>3. /\ Len(all) = Len(cmds) + 1 /\ all[Len(cmds) + 1] = cmd
      /\ \A i \in 1 .. Len(cmds) : all[i] = cmds[i]
      /\ Len(all) - k = m + 1
  BY AppendProperties
<1> HIDE DEF new, all
<1>4. /\ off2 \in [0 .. m + 1 -> Nat] /\ off2[m + 1] = Len(new)
      /\ \A i \in 0 .. m : off2[i] = off[i]
  BY <1>1, <1>2
<1> HIDE DEF off2
<1>l. /\ off[0] = 0
      /\ \A i \in 1 .. m :
           /\ off[i] = off[i - 1] + Len(Encode(cmds[k + i]))
           /\ \A j \in 1 .. Len(Encode(cmds[k + i])) :
                lines[off[i - 1] + j] = Encode(cmds[k + i])[j]
      /\ \A i, j \in 0 .. m : i <= j => off[i] <= off[j]
  BY <1>1 DEF Laid
<1> HIDE DEF m
<1>5. ASSUME NEW i \in 1 .. m + 1
      PROVE  /\ off2[i] = off2[i - 1] + Len(Encode(all[k + i]))
             /\ \A j \in 1 .. Len(Encode(all[k + i])) :
                  new[off2[i - 1] + j] = Encode(all[k + i])[j]
  <2>1. CASE i <= m
    <3>1. i \in 1 .. m /\ i - 1 \in 0 .. m /\ i \in 0 .. m /\ k + i \in 1 .. Len(cmds)
      BY <2>1, <1>2 DEF m
    <3>2. all[k + i] = cmds[k + i] /\ off2[i] = off[i] /\ off2[i - 1] = off[i - 1]
      BY <3>1, <1>3, <1>4
    <3>3. cmds[k + i] \in Commands
      BY <3>1, ElementOfSeq
    <3>4. Len(Encode(cmds[k + i])) \in Nat
      BY <3>3, EncodeFacts
    <3>5. off[i] <= Len(lines) /\ off[i] \in Nat /\ off[i - 1] \in Nat
      <4>1. m \in 0 .. m /\ i <= m
        BY <2>1, <1>2
      <4>2. off[i] <= off[m]
        BY <3>1, <4>1, <1>l
      <4> QED
        BY <3>1, <4>2, <1>1
    <3>6. ASSUME NEW j \in 1 .. Len(Encode(cmds[k + i]))
          PROVE  off[i - 1] + j \in 1 .. Len(lines)
      <4>1. off[i] = off[i - 1] + Len(Encode(cmds[k + i]))
        BY <3>1, <1>l
      <4>2. off[i - 1] + Len(Encode(cmds[k + i])) <= Len(lines)
        BY <3>5, <4>1
      <4> QED
        BY <3>4, <3>5, <4>2, <1>2, Within
    <3>7. \A j \in 1 .. Len(Encode(cmds[k + i])) :
            new[off[i - 1] + j] = Encode(cmds[k + i])[j]
      BY <3>1, <3>6, <1>l, <1>2
    <3>8. off[i] = off[i - 1] + Len(Encode(cmds[k + i]))
      BY <3>1, <1>l
    <3> QED
      BY <3>2, <3>7, <3>8
  <2>2. CASE i = m + 1
    <3>1. k + i = Len(cmds) + 1 /\ i - 1 = m /\ m \in 0 .. m
      BY <2>2, <1>2 DEF m
    <3>2. all[k + i] = cmd /\ off2[i] = Len(new) /\ off2[i - 1] = Len(lines)
      BY <2>2, <3>1, <1>1, <1>3, <1>4
    <3> QED
      BY <3>2, <1>2, <1>e
  <2> QED
    BY <2>1, <2>2, <1>2
<1>6. \A i, j \in 0 .. m + 1 : i <= j => off2[i] <= off2[j]
  <2> SUFFICES ASSUME NEW i \in 0 .. m + 1, NEW j \in 0 .. m + 1, i <= j
               PROVE  off2[i] <= off2[j]
    OBVIOUS
  <2>1. CASE j <= m
    <3>1. i \in 0 .. m /\ j \in 0 .. m
      BY <2>1, <1>2
    <3> QED
      BY <3>1, <1>4, <1>l
  <2>2. CASE j = m + 1 /\ i <= m
    <3>1. i \in 0 .. m /\ m \in 0 .. m
      BY <2>2, <1>2
    <3>2. off[i] <= off[m] /\ off[i] \in Nat /\ off2[i] = off[i]
      BY <3>1, <1>1, <1>4, <1>l, <1>2
    <3> QED
      BY <2>2, <3>2, <1>1, <1>2, <1>4, <1>e
  <2>3. CASE i = m + 1
    BY <2>3, <1>2, <1>4
  <2> QED
    BY <2>1, <2>2, <2>3, <1>2
<1>7. off2[0] = 0
  <2>1. 0 \in 0 .. m
    BY <1>2
  <2> QED
    BY <2>1, <1>4, <1>l
<1>8. Laid(new, all, k, off2)
  <2>1. off2[m + 1] <= Len(new)
    BY <1>4, <1>2
  <2> QED
    BY <1>3, <1>4, <1>5, <1>6, <1>7, <2>1 DEF Laid
<1>9. InStep(new, all, k, <<>>)
  BY <1>3, <1>4, <1>8 DEF InStep, Ends
<1> QED
  BY <1>9 DEF new, all

\* Where the i-th of the commands still to be read lies.
LaidAt(lines, cmds, k, off, i) ==
  /\ k + i \in 1 .. Len(cmds) /\ cmds[k + i] \in Commands
  /\ Len(Encode(cmds[k + i])) \in Nat
  /\ off[i - 1] \in Nat /\ off[i] \in Nat /\ off[i] <= Len(lines)
  /\ off[i] = off[i - 1] + Len(Encode(cmds[k + i]))
  /\ \A j \in 1 .. Len(Encode(cmds[k + i])) :
       /\ off[i - 1] + j \in 1 .. Len(lines)
       /\ lines[off[i - 1] + j] = Encode(cmds[k + i])[j]

\* Where the commands of a stream are laid out.
LEMMA LaidFacts ==
  ASSUME NEW lines \in Seq(AnyLine), NEW cmds \in Seq(Commands), NEW k \in 0 .. Len(cmds),
         NEW off, Laid(lines, cmds, k, off), NEW i \in 1 .. Len(cmds) - k
  PROVE  LaidAt(lines, cmds, k, off, i)
<1> DEFINE m == Len(cmds) - k
           len == Len(Encode(cmds[k + i]))
<1>1. Len(lines) \in Nat /\ m \in Nat /\ k \in Nat /\ k + i \in 1 .. Len(cmds)
  OBVIOUS
<1>2. cmds[k + i] \in Commands
  BY <1>1, ElementOfSeq
<1>3. len \in Nat
  BY <1>2, EncodeFacts
<1>4. i \in 0 .. m /\ i - 1 \in 0 .. m /\ m \in 0 .. m /\ i <= m
  BY <1>1
<1>5. off \in [0 .. m -> Nat] /\ off[i] <= off[m] /\ off[m] <= Len(lines)
  BY <1>4 DEF Laid
<1>6. off[i] = off[i - 1] + len /\ \A j \in 1 .. len : lines[off[i - 1] + j] = Encode(cmds[k + i])[j]
  BY DEF Laid
<1> HIDE DEF m, len
<1>7. off[i - 1] \in Nat /\ off[i] \in Nat /\ off[m] \in Nat
  BY <1>4, <1>5
<1>8. off[i] <= Len(lines)
  BY <1>1, <1>5, <1>7
<1>9. ASSUME NEW j \in 1 .. len PROVE off[i - 1] + j \in 1 .. Len(lines)
  <2>1. off[i - 1] + len <= Len(lines)
    BY <1>6, <1>8
  <2> QED
    BY <1>1, <1>3, <1>7, <2>1, Within
<1> QED
  BY <1>1, <1>2, <1>3, <1>6, <1>7, <1>8, <1>9 DEF len, LaidAt

\* The layout does not change when lines are added behind it.
LEMMA LaidLonger ==
  ASSUME NEW lines \in Seq(AnyLine), NEW cmds \in Seq(Commands), NEW k \in 0 .. Len(cmds),
         NEW off, Laid(lines, cmds, k, off), NEW more \in Seq(AnyLine),
         Len(lines) <= Len(more), \A i \in 1 .. Len(lines) : more[i] = lines[i]
  PROVE  Laid(more, cmds, k, off)
<1> DEFINE m == Len(cmds) - k
<1>1. /\ off \in [0 .. m -> Nat] /\ off[0] = 0 /\ off[m] <= Len(lines)
      /\ \A i, j \in 0 .. m : i <= j => off[i] <= off[j]
  BY DEF Laid
<1>2. off[m] <= Len(more)
  <2>1. m \in 0 .. m
    OBVIOUS
  <2> HIDE DEF m
  <2>2. off[m] \in Nat /\ Len(lines) \in Nat /\ Len(more) \in Nat
    BY <1>1, <2>1
  <2> QED
    BY <1>1, <2>2
<1>3. ASSUME NEW i \in 1 .. m
      PROVE  /\ off[i] = off[i - 1] + Len(Encode(cmds[k + i]))
             /\ \A j \in 1 .. Len(Encode(cmds[k + i])) :
                  more[off[i - 1] + j] = Encode(cmds[k + i])[j]
  <2>1. LaidAt(lines, cmds, k, off, i)
    BY LaidFacts
  <2> QED
    BY <2>1 DEF LaidAt
<1> QED
  BY <1>1, <1>2, <1>3 DEF Laid

\* A client that hangs up within a command leaves it without its last line.
LEMMA HangUpInStep ==
  ASSUME NEW lines \in Seq(AnyLine), NEW cmds \in Seq(Commands), NEW k \in 0 .. Len(cmds),
         NEW cmd \in Commands, InStep(lines, cmds, k, <<>>)
  PROVE  InStep(lines \o Front(Encode(cmd)), cmds, k, <<cmd>>)
<1> DEFINE m == Len(cmds) - k
           e == Encode(cmd)
           more == lines \o Front(e)
<1>1. PICK off \in [0 .. m -> Nat] : Laid(lines, cmds, k, off) /\ Len(lines) = off[m]
  BY DEF InStep, Ends
<1>2. e \in Seq(AnyLine) /\ Len(e) \in Nat /\ Len(e) >= 1
  BY EncodeFacts
<1> HIDE DEF e
<1>3. Front(e) \in Seq(AnyLine) /\ Len(Front(e)) = Len(e) - 1
      /\ \A j \in 1 .. Len(e) - 1 : Front(e)[j] = e[j]
  <2>1. Front(e) = SubSeq(e, 1, Len(e) - 1)
    BY DEF Front
  <2>2. 1 \in Int /\ Len(e) - 1 \in Int /\ \A i \in 1 .. Len(e) - 1 : e[i] \in AnyLine
    BY <1>2, ElementOfSeq
  <2>3. /\ SubSeq(e, 1, Len(e) - 1) \in Seq(AnyLine)
        /\ Len(SubSeq(e, 1, Len(e) - 1)) = IF 1 <= Len(e) - 1 THEN (Len(e) - 1) - 1 + 1 ELSE 0
        /\ \A i \in 1 .. (Len(e) - 1) - 1 + 1 : SubSeq(e, 1, Len(e) - 1)[i] = e[1 + i - 1]
    BY <2>2, SubSeqProperties
  <2>4. (Len(e) - 1) - 1 + 1 = Len(e) - 1 /\ \A i \in 1 .. Len(e) - 1 : 1 + i - 1 = i
    BY <1>2
  <2>5. Len(Front(e)) = Len(e) - 1
    <3>1. Len(Front(e)) = IF 1 <= Len(e) - 1 THEN Len(e) - 1 ELSE 0
      BY <2>1, <2>3, <2>4
    <3> DEFINE a == Len(Front(e))
               b == Len(e)
    <3>2. b \in Nat /\ b >= 1 /\ a = IF 1 <= b - 1 THEN b - 1 ELSE 0
      BY <1>2, <3>1
    <3> HIDE DEF a, b
    <3>3. a = b - 1
      BY <3>2
    <3> QED
      BY <3>3 DEF a, b
  <2>6. \A i \in 1 .. Len(e) - 1 : SubSeq(e, 1, Len(e) - 1)[i] = e[i]
    BY <2>3, <2>4
  <2> QED
    BY <2>1, <2>3, <2>5, <2>6
<1>4. /\ more \in Seq(AnyLine) /\ Len(more) = Len(lines) + (Len(e) - 1)
      /\ Len(lines) \in Nat
      /\ \A i \in 1 .. Len(lines) : more[i] = lines[i]
      /\ \A j \in 1 .. Len(e) - 1 : more[Len(lines) + j] = e[j]
  <2>1. Len(lines) \in Nat /\ Len(Front(e)) \in Nat
    BY <1>2, <1>3
  <2>2. \A j \in 1 .. Len(Front(e)) : more[Len(lines) + j] = Front(e)[j]
    BY <1>3, <2>1, ConcatProperties
  <2>3. /\ more \in Seq(AnyLine) /\ Len(more) = Len(lines) + Len(Front(e))
        /\ \A i \in 1 .. Len(lines) : more[i] = lines[i]
    BY <1>3, ConcatProperties
  <2> QED
    BY <1>3, <2>1, <2>2, <2>3
<1> HIDE DEF more
<1>5. Laid(more, cmds, k, off)
  <2>1. Len(lines) <= Len(more)
    BY <1>2, <1>4
  <2> QED
    BY <1>1, <1>4, <2>1, LaidLonger
<1>6. CutOff(more, off[m], cmd)
  <2>1. Len(more) = off[m] + Len(e) - 1
    BY <1>1, <1>2, <1>4
  <2>2. \A j \in 1 .. Len(e) - 1 : more[off[m] + j] = e[j]
    BY <1>1, <1>4
  <2> QED
    BY <2>1, <2>2 DEF CutOff, e
<1>7. Ends(more, off[m], <<cmd>>)
  BY <1>6 DEF Ends
<1>8. InStep(more, cmds, k, <<cmd>>)
  BY <1>1, <1>5, <1>7 DEF InStep
<1> QED
  BY <1>8 DEF more, e

\* The first line of a framed command tells how many lines it has.
LEMMA Needed ==
  ASSUME NEW cmd \in Commands, Framed(cmd), NEW lines, lines[1] = Encode(cmd)[1]
  PROVE  LinesNeeded(lines) = Len(Encode(cmd))
<1>1. lines[1] = cmd.line /\ cmd.line.star \in BOOLEAN
  BY EncodeFacts, LineFacts
<1> QED
  BY <1>1, FramedFacts DEF LinesNeeded

\* parseRESP makes of a framed command's lines what the client meant.
LEMMA ParsedMeaning ==
  ASSUME NEW cmd \in Commands, Framed(cmd), NEW lines,
         \A j \in 1 .. Len(Encode(cmd)) : lines[j] = Encode(cmd)[j]
  PROVE  Parsed(lines) = Meaning(cmd)
<1>1. lines[1] = cmd.line /\ cmd.line.star \in BOOLEAN
  <2>1. /\ cmd.line \in AnyLine /\ Encode(cmd)[1] = cmd.line
        /\ Len(Encode(cmd)) \in Nat /\ Len(Encode(cmd)) >= 1
    BY EncodeFacts
  <2> QED
    BY <2>1, LineFacts
<1>2. CASE ~cmd.line.star
  BY <1>1, <1>2 DEF Parsed, Meaning
<1>3. CASE cmd.line.star
  <2> DEFINE n == cmd.line.count
             got == [i \in 1 .. n |-> lines[2 * i + 1].text]
             meant == [i \in DOMAIN cmd.words |-> cmd.words[i][1].text]
  <2>1. /\ Len(Encode(cmd)) = 1 + 2 * n /\ Len(cmd.words) = n /\ n \in Nat
        /\ \A i \in 1 .. n : Encode(cmd)[2 * i + 1] = cmd.words[i][1]
    BY <1>3, FramedFacts
  <2>2. ASSUME NEW i \in 1 .. n PROVE lines[2 * i + 1] = cmd.words[i][1]
    <3>1. 2 * i + 1 \in 1 .. Len(Encode(cmd))
      BY <2>1
    <3> QED
      BY <2>1, <3>1
  <2>3. DOMAIN cmd.words = 1 .. n
    <3>1. cmd.words \in Seq(Seq(AnyLine))
      BY EncodeFacts
    <3> QED
      BY <2>1, <3>1, LenProperties
  <2>4. got = meant
    BY <2>2, <2>3
  <2> QED
    BY <1>1, <1>3, <2>4 DEF Parsed, Meaning
<1> QED
  BY <1>1, <1>2, <1>3

\* A command that was cut off is never complete.
LEMMA NotComplete ==
  ASSUME NEW cmd \in Commands, Framed(cmd), NEW lines \in Seq(AnyLine), CutOff(lines, 0, cmd)
  PROVE  ~Complete(lines)
<1>1. /\ Len(lines) = 0 + Len(Encode(cmd)) - 1
      /\ \A j \in 1 .. Len(Encode(cmd)) - 1 : lines[0 + j] = Encode(cmd)[j]
  BY DEF CutOff
<1>2. Len(Encode(cmd)) \in Nat /\ Len(lines) \in Nat
  BY EncodeFacts
<1>3. CASE Len(lines) = 0
  BY <1>3, EmptySeq DEF Complete
<1>4. CASE Len(lines) # 0
  <2>1. 1 \in 1 .. Len(Encode(cmd)) - 1 /\ 0 + 1 = 1
    BY <1>1, <1>2, <1>4
  <2>2. lines[1] = Encode(cmd)[1]
    BY <1>1, <2>1
  <2>3. LinesNeeded(lines) = Len(Encode(cmd))
    BY <2>2, Needed
  <2> QED
    BY <1>1, <1>2, <2>3 DEF Complete
<1> QED
  BY <1>3, <1>4

\* The lines parseRESP leaves are lines.
LEMMA RestLines ==
  ASSUME NEW lines \in Seq(AnyLine), Complete(lines)
  PROVE  SubSeq(lines, LinesNeeded(lines) + 1, Len(lines)) \in Seq(AnyLine)
<1> DEFINE n == LinesNeeded(lines)
<1>1. lines # <<>> /\ ~PanicsInMake(lines)
  BY DEF Complete
<1>2. lines[1] \in AnyLine
  BY <1>1, EmptySeq, ElementOfSeq
<1>3. n \in Nat
  <2>1. CASE lines[1].star
    <3>1. lines[1].count \in 0 .. MaxSlice
      BY <1>1, <2>1 DEF PanicsInMake
    <3>m. MaxSlice \in Nat
      BY ServerAssumption
    <3> DEFINE a == lines[1].count
    <3>4. a \in 0 .. MaxSlice
      BY <3>1
    <3> HIDE DEF a
    <3>5. a \in Nat
      BY <3>m, <3>4
    <3>2. lines[1].count \in Nat
      BY <3>5 DEF a
    <3>3. n = 1 + 2 * lines[1].count
      BY <2>1 DEF LinesNeeded
    <3> HIDE DEF n
    <3> QED
      BY <3>2, <3>3
  <2>2. CASE ~lines[1].star
    BY <2>2 DEF LinesNeeded
  <2> QED
    BY <2>1, <2>2
<1> HIDE DEF n
<1>4. n + 1 \in Int /\ Len(lines) \in Int /\ \A i \in n + 1 .. Len(lines) : lines[i] \in AnyLine
  BY <1>3, ElementOfSeq
<1>5. SubSeq(lines, n + 1, Len(lines)) \in Seq(AnyLine)
  BY <1>4, SubSeqProperties
<1> QED
  BY <1>5 DEF n

\* What parseRESP takes from the input is the next command, and what it leaves
\* is what the client sent after it.
LEMMA ParseStep ==
  ASSUME NEW lines \in Seq(AnyLine), NEW cmds \in Seq(Commands), NEW k \in 0 .. Len(cmds),
         NEW part \in Seq(Commands), InStep(lines, cmds, k, part), Complete(lines),
         FramedTo(cmds, part, k + 1)
  PROVE  /\ k + 1 \in 1 .. Len(cmds) /\ Parsed(lines) = Meaning(cmds[k + 1])
         /\ InStep(SubSeq(lines, LinesNeeded(lines) + 1, Len(lines)), cmds, k + 1, part)
<1> DEFINE m == Len(cmds) - k
<1>1. PICK off \in [0 .. m -> Nat] :
        Laid(lines, cmds, k, off) /\ Ends(lines, off[m], part)
  BY DEF InStep
<1>2. off[0] = 0 /\ m \in Nat /\ k \in Nat /\ Len(lines) \in Nat
  BY <1>1 DEF Laid
<1>3. m # 0
  <2> SUFFICES ASSUME m = 0 PROVE FALSE
    OBVIOUS
  <2>1. CASE part = <<>>
    BY <1>1, <1>2, <2>1, EmptySeq DEF Complete, Ends
  <2>2. CASE part # <<>>
    <3>1. CutOff(lines, 0, part[1])
      BY <1>1, <1>2, <2>2 DEF Ends
    <3>2. part[1] \in Commands
      BY <2>2, EmptySeq, ElementOfSeq
    <3>3. k + 1 = Len(cmds) + 1 /\ k + 1 \in Nat
      BY <1>2
    <3>4. Framed(part[1])
      BY <2>2, <3>3, FramedPart
    <3> QED
      BY <3>1, <3>2, <3>4, NotComplete
  <2> QED
    BY <2>1, <2>2
<1> DEFINE e == Encode(cmds[k + 1])
           n == Len(e)
<1>4. 1 \in 1 .. Len(cmds) - k /\ 1 - 1 = 0
  BY <1>2, <1>3
<1>5. /\ k + 1 \in 1 .. Len(cmds) /\ cmds[k + 1] \in Commands /\ n \in Nat
      /\ off[1] \in Nat /\ off[1] <= Len(lines) /\ off[1] = off[1 - 1] + n
      /\ \A j \in 1 .. n : lines[off[1 - 1] + j] = e[j]
  <2>1. LaidAt(lines, cmds, k, off, 1)
    BY <1>1, <1>4, LaidFacts
  <2> QED
    BY <2>1 DEF LaidAt
<1>6. off[1] = n /\ \A j \in 1 .. n : lines[j] = e[j]
  BY <1>2, <1>4, <1>5
<1>7. n >= 1
  BY <1>5, EncodeFacts
<1>f. Framed(cmds[k + 1])
  <2>1. k + 1 \in Nat /\ k + 1 \in 1 .. k + 1 /\ k + 1 <= Len(cmds)
    BY <1>2, <1>5
  <2> QED
    BY <2>1, FramedPart
<1>8. LinesNeeded(lines) = n
  <2>1. lines[1] = e[1]
    BY <1>5, <1>6, <1>7
  <2> QED
    BY <1>5, <1>f, <2>1, Needed
<1>9. Parsed(lines) = Meaning(cmds[k + 1])
  BY <1>5, <1>6, <1>f, ParsedMeaning
<1> DEFINE rest == SubSeq(lines, n + 1, Len(lines))
<1>10. /\ rest \in Seq(AnyLine) /\ Len(rest) = Len(lines) - n /\ Len(rest) \in Nat
       /\ \A i \in 1 .. Len(lines) - n : rest[i] = lines[n + i]
  <2>1. n + 1 \in Int /\ Len(lines) \in Int
    BY <1>2, <1>5
  <2>2. \A i \in n + 1 .. Len(lines) : lines[i] \in AnyLine
    BY <1>2, <1>5, ElementOfSeq
  <2> HIDE DEF n
  <2>3. /\ rest \in Seq(AnyLine)
        /\ Len(rest) = IF n + 1 <= Len(lines) THEN Len(lines) - (n + 1) + 1 ELSE 0
        /\ \A i \in 1 .. Len(lines) - (n + 1) + 1 : rest[i] = lines[(n + 1) + i - 1]
    BY <2>1, <2>2, SubSeqProperties
  <2> HIDE DEF rest
  <2>4. /\ Len(lines) - (n + 1) + 1 = Len(lines) - n
        /\ \A i \in 1 .. Len(lines) - n : (n + 1) + i - 1 = n + i
    BY <1>2, <1>5
  <2>5. \A i \in 1 .. Len(lines) - n : rest[i] = lines[n + i]
    BY <2>3, <2>4
  <2>6. Len(rest) = Len(lines) - n /\ Len(rest) \in Nat
    BY <1>2, <1>5, <1>6, <2>3
  <2> QED
    BY <2>3, <2>5, <2>6
<1> HIDE DEF rest
<1>11. InStep(rest, cmds, k + 1, part)
  <2> DEFINE m1 == Len(cmds) - (k + 1)
             off1 == [i \in 0 .. m1 |-> off[i + 1] - n]
  <2>1. m1 \in Nat /\ m1 + 1 = m /\ k + 1 \in Nat
    BY <1>2, <1>3
  <2>2. \A i \in 0 .. m1 : off[i + 1] \in Nat /\ off[i + 1] >= n
    <3> SUFFICES ASSUME NEW i \in 0 .. m1 PROVE off[i + 1] \in Nat /\ off[i + 1] >= n
      OBVIOUS
    <3>1. i + 1 \in 0 .. m /\ 1 \in 0 .. m /\ 1 <= i + 1
      BY <1>2, <2>1
    <3>2. off[1] <= off[i + 1]
      BY <1>1, <3>1 DEF Laid
    <3>3. off[i + 1] \in Nat
      BY <3>1, <1>1
    <3> QED
      BY <1>5, <1>6, <3>2, <3>3
  <2>3. off1 \in [0 .. m1 -> Nat] /\ \A i \in 0 .. m1 : off1[i] = off[i + 1] - n
    <3>1. \A i \in 0 .. m1 : off[i + 1] - n \in Nat
      BY <1>5, <2>2
    <3> QED
      BY <3>1
  <2> HIDE DEF off1
  <2>4. off1[0] = 0
    <3>1. 0 \in 0 .. m1 /\ 0 + 1 = 1
      BY <2>1
    <3>2. off1[0] = off[1] - n
      BY <2>3, <3>1
    <3> QED
      BY <1>5, <1>6, <3>2
  <2>5. ASSUME NEW i \in 1 .. m1
        PROVE  /\ off1[i] = off1[i - 1] + Len(Encode(cmds[(k + 1) + i]))
               /\ \A j \in 1 .. Len(Encode(cmds[(k + 1) + i])) :
                    rest[off1[i - 1] + j] = Encode(cmds[(k + 1) + i])[j]
    <3> DEFINE f == Encode(cmds[k + (i + 1)])
    <3>1. /\ i + 1 \in 1 .. Len(cmds) - k /\ (i + 1) - 1 = i /\ (k + 1) + i = k + (i + 1)
          /\ i \in 0 .. m1 /\ i - 1 \in 0 .. m1 /\ (i - 1) + 1 = i
      BY <1>2, <2>1
    <3>2. /\ Len(f) \in Nat /\ off[i] \in Nat /\ off[i + 1] \in Nat
          /\ off[i + 1] = off[i] + Len(f) /\ off[i + 1] <= Len(lines)
          /\ \A j \in 1 .. Len(f) : lines[off[i] + j] = f[j]
      <4>1. LaidAt(lines, cmds, k, off, i + 1)
        BY <1>1, <3>1, LaidFacts
      <4> QED
        BY <3>1, <4>1 DEF LaidAt
    <3>3. off1[i] = off[i + 1] - n /\ off1[i - 1] = off[i] - n /\ off[i] >= n
      BY <2>2, <2>3, <3>1
    <3> HIDE DEF f, n, m1
    <3>4. off1[i] = off1[i - 1] + Len(f)
      BY <1>5, <3>2, <3>3
    <3>5. ASSUME NEW j \in 1 .. Len(f) PROVE rest[off1[i - 1] + j] = f[j]
      <4>1. off1[i - 1] + j \in 1 .. Len(lines) - n /\ n + (off1[i - 1] + j) = off[i] + j
        <5>1. /\ off[i] \in Nat /\ n \in Nat /\ Len(f) \in Nat /\ Len(lines) \in Nat
              /\ off[i] >= n /\ off[i] + Len(f) <= Len(lines) /\ off1[i - 1] = off[i] - n
          BY <1>2, <1>5, <3>2, <3>3
        <5> DEFINE x == off[i]
                   y == off1[i - 1]
                   z == Len(f)
                   w == Len(lines)
        <5>2. x \in Nat /\ n \in Nat /\ z \in Nat /\ w \in Nat /\ x >= n /\ x + z <= w /\ y = x - n /\ j \in 1 .. z
          BY <5>1
        <5> HIDE DEF x, y, z, w
        <5>3. y + j \in 1 .. w - n /\ n + (y + j) = x + j
          BY <5>2
        <5> QED
          BY <5>3 DEF x, y, w
      <4>2. rest[off1[i - 1] + j] = lines[n + (off1[i - 1] + j)]
        BY <1>10, <4>1
      <4> QED
        BY <3>2, <4>1, <4>2
    <3> QED
      BY <3>1, <3>4, <3>5 DEF f
  <2>6. ASSUME NEW i \in 0 .. m1, NEW j \in 0 .. m1, i <= j
        PROVE  off1[i] <= off1[j]
    <3>1. i + 1 \in 0 .. m /\ j + 1 \in 0 .. m /\ i + 1 <= j + 1
      <4> HIDE DEF m, m1
      <4> QED
        BY <1>2, <2>1, <2>6
    <3>2. off[i + 1] <= off[j + 1]
      BY <1>1, <3>1 DEF Laid
    <3>3. off1[i] = off[i + 1] - n /\ off1[j] = off[j + 1] - n
      BY <2>3
    <3>4. off[i + 1] \in Nat /\ off[j + 1] \in Nat
      BY <2>2
    <3> QED
      BY <1>5, <3>2, <3>3, <3>4
  <2>7. off1[m1] = off[m] - n /\ off[m] \in Nat /\ off[m] <= Len(lines)
    <3>1. m1 \in 0 .. m1 /\ m1 + 1 = m
      BY <2>1
    <3>2. off1[m1] = off[m1 + 1] - n /\ off[m1 + 1] \in Nat
      BY <2>2, <2>3, <3>1
    <3>3. off[m] <= Len(lines)
      BY <1>1 DEF Laid
    <3> QED
      BY <3>1, <3>2, <3>3
  <2>8. off1[m1] <= Len(rest)
    <3> HIDE DEF m1, m, n
    <3> QED
      BY <1>2, <1>5, <1>10, <2>7
  <2>9. Laid(rest, cmds, k + 1, off1)
    BY <2>3, <2>4, <2>5, <2>6, <2>8 DEF Laid
  <2>10. CASE part = <<>>
    <3>1. Len(rest) = off1[m1]
      BY <2>10, <1>1, <1>10, <2>7 DEF Ends
    <3>2. Ends(rest, off1[m1], part)
      BY <2>10, <3>1 DEF Ends
    <3> QED
      BY <2>3, <2>9, <3>2 DEF InStep
  <2>11. CASE part # <<>>
    <3> DEFINE cmd == part[1]
    <3>c. cmd \in Commands
      BY <2>11, EmptySeq, ElementOfSeq
    <3>1. /\ Len(lines) = off[m] + Len(Encode(cmd)) - 1
          /\ \A j \in 1 .. Len(Encode(cmd)) - 1 : lines[off[m] + j] = Encode(cmd)[j]
      BY <2>11, <1>1 DEF CutOff, Ends
    <3> HIDE DEF cmd
    <3>2. Len(Encode(cmd)) \in Nat
      BY <3>c, EncodeFacts
    <3> HIDE DEF m, m1, n
    <3>3. Len(rest) = off1[m1] + Len(Encode(cmd)) - 1
      <4> DEFINE x == Len(rest)
                 y == Len(lines)
                 z == Len(Encode(cmd))
                 w == off[m]
                 v == off1[m1]
      <4>1. /\ y \in Nat /\ n \in Nat /\ z \in Nat /\ w \in Nat /\ v = w - n
            /\ x = y - n /\ y = w + z - 1
        BY <1>2, <1>5, <1>10, <2>7, <3>1, <3>2
      <4> HIDE DEF x, y, z, w, v
      <4>2. x = v + z - 1
        BY <4>1
      <4> QED
        BY <4>2 DEF x, z, v
    <3>4. ASSUME NEW j \in 1 .. Len(Encode(cmd)) - 1
          PROVE  rest[off1[m1] + j] = Encode(cmd)[j]
      <4>1. off1[m1] + j \in 1 .. Len(rest)
        <5>1. off1[m1] \in Nat
          BY <2>1, <2>3
        <5> QED
          BY <3>2, <3>3, <5>1
      <4>2. n + (off1[m1] + j) = off[m] + j
        BY <1>5, <2>7, <3>2
      <4>3. rest[off1[m1] + j] = lines[n + (off1[m1] + j)]
        BY <1>10, <4>1
      <4> QED
        BY <3>1, <4>2, <4>3
    <3>5. CutOff(rest, off1[m1], cmd)
      BY <3>3, <3>4 DEF CutOff
    <3>6. Ends(rest, off1[m1], part)
      BY <2>11, <3>5 DEF Ends, cmd
    <3> QED
      BY <2>3, <2>9, <3>6 DEF InStep, m1
  <2> QED
    BY <2>10, <2>11
<1> QED
  BY <1>5, <1>8, <1>9, <1>11 DEF rest

-----------------------------------------------------------------------------
(***************************************************************************)
(* The invariant.                                                          *)
(***************************************************************************)

RequestType == [cmd : Text, args : Seq(Text)]
Executed == [req : RequestType, at : Nat]
Entry == [key : Text, val : Text]

TypeInv ==
  /\ handlerPc \in [Conns -> {"none", "parse", "command", "reply", "close", "end"}]
  /\ conn \in [Conns -> {"none", "dialed", "up", "refused", "closed"}]
  /\ hungUp \in [Conns -> BOOLEAN]
  /\ input \in [Conns -> Seq(AnyLine)]
  /\ sent \in [Conns -> Seq(Commands)] /\ cut \in [Conns -> Seq(Commands)]
  /\ request \in [Conns -> RequestType]
  /\ executed \in [Conns -> Seq(Executed)]
  /\ db \in [hist : Seq(Entry), safe : Nat] /\ db.safe <= Len(db.hist)

\* One connection: as long as parseRESP can follow what the client wrote, the
\* handler has executed the first commands the client has sent, holds the next
\* one while at handleCommand, and has the others before it, until it gives the
\* connection up.
Stream(pc, lines, cmds, part, done, req, hung) ==
  LET k == IF pc = "command" THEN Len(done) + 1 ELSE Len(done) IN
  /\ ~hung => part = <<>>
  /\ \A i \in 1 .. Len(done) :
       FramedTo(cmds, part, i) => i <= Len(cmds) /\ done[i].req = Meaning(cmds[i])
  /\ FramedTo(cmds, part, k) =>
       /\ k <= Len(cmds)
       /\ pc = "command" => req = Meaning(cmds[k])
       /\ pc \notin {"close", "end"} => InStep(lines, cmds, k, part)

StreamInv ==
  \A c \in Conns :
    Stream(handlerPc[c], input[c], sent[c], cut[c], executed[c], request[c], hungUp[c])

\* The connections whose handler wg counts.
Live == {c \in Conns : handlerPc[c] \in {"parse", "command", "reply", "close"}}

WaitInv ==
  /\ IsFiniteSet(Live) /\ wg = Cardinality(Live)
  /\ mainPc = "add" => /\ accepted \in Conns
                       /\ handlerPc[accepted] = "none" /\ conn[accepted] = "up"
  /\ \A c \in Conns : conn[c] \in {"none", "dialed"} => handlerPc[c] = "none"
  /\ sigPc \in {"flush", "exit"} => Live \subseteq late

DurableInv ==
  /\ \A c \in Conns : \A i \in 1 .. Len(executed[c]) : executed[c][i].at <= Len(db.hist)
  /\ \A c \in Conns : handlerPc[c] = "reply" => executed[c] # <<>>
  /\ \A a \in acked : a.conn \in Conns /\ a.at \in Nat /\ a.at <= Len(db.hist)
  /\ sigPc = "exit" => \A a \in acked : a.conn \notin late => a.at <= db.safe
  /\ process = "exited" => sigPc = "exit"

IInv == TypeInv /\ StreamInv /\ WaitInv /\ DurableInv

-----------------------------------------------------------------------------
(***************************************************************************)
(* One connection's steps.                                                 *)
(***************************************************************************)

\* What parseRESP returns, whatever it has read.
LEMMA RequestTyped ==
  ASSUME NEW words \in Seq(Text), words # <<>>, NEW lower \in BOOLEAN
  PROVE  Request(words, lower) \in RequestType
<1>1. words[1] \in Text /\ Tail(words) \in Seq(Text)
  BY EmptySeq, ElementOfSeq, HeadTailProperties
<1>2. Lower(words[1]) \in Text
  <2> DEFINE w == words[1]
             ping == "ping"
             set == "set"
             get == "get"
  <2>1. Lower(w) \in {<<ping>>, <<set>>, <<get>>, w}
    BY DEF Lower
  <2>2. ping \in Word /\ set \in Word /\ get \in Word
    BY DEF Word
  <2> HIDE DEF ping, set, get
  <2>3. <<ping>> \in Text /\ <<set>> \in Text /\ <<get>> \in Text
    BY <2>2 DEF Text
  <2> QED
    BY <1>1, <2>1, <2>3
<1> HIDE DEF Request
<1>3. Request(words, lower) = [cmd |-> IF lower THEN Lower(words[1]) ELSE words[1],
                               args |-> Tail(words)]
  BY DEF Request
<1> QED
  BY <1>1, <1>2, <1>3 DEF RequestType

LEMMA ParsedTyped ==
  ASSUME NEW lines \in Seq(AnyLine), Complete(lines), WellFormed(lines)
  PROVE  Parsed(lines) \in RequestType
<1>1. /\ lines # <<>> /\ ~PanicsInMake(lines) /\ Len(lines) >= LinesNeeded(lines)
      /\ Len(lines) \in Nat
  BY DEF Complete
<1>2. lines[1] \in AnyLine
  BY <1>1, EmptySeq, ElementOfSeq
<1>3. lines[1].star \in BOOLEAN /\ lines[1].count \in Int /\ lines[1].text \in Text
  BY <1>2, LineFacts
<1>4. CASE lines[1].star
  <2> DEFINE n == lines[1].count
             words == [i \in 1 .. n |-> lines[2 * i + 1].text]
  <2>1. n \in Int /\ n > 0 /\ Len(lines) >= 1 + 2 * n
    BY <1>1, <1>3, <1>4 DEF LinesNeeded, WellFormed
  <2> HIDE DEF n
  <2>2. n \in Nat /\ n > 0 /\ \A i \in 1 .. n : 2 * i + 1 \in 1 .. Len(lines)
    BY <1>1, <2>1
  <2>3. \A i \in 1 .. n : lines[2 * i + 1].text \in Text
    BY <2>2, ElementOfSeq, LineFacts
  <2>4. words \in [1 .. n -> Text]
    BY <2>3
  <2> HIDE DEF words
  <2>5. words \in Seq(Text) /\ Len(words) = n
    BY <2>2, <2>4, FunctionIsSeq
  <2>6. words # <<>>
    BY <2>2, <2>5, EmptySeq
  <2>7. Parsed(lines) = Request(words, TRUE)
    BY <1>4 DEF Parsed, words, n
  <2> QED
    BY <2>5, <2>6, <2>7, RequestTyped
<1>5. CASE ~lines[1].star
  <2> DEFINE t == lines[1].text
             words == [i \in 1 .. Len(t) |-> <<t[i]>>]
  <2>1. t \in Seq(Word) /\ t # <<>> /\ Len(t) \in Nat
    BY <1>3, <1>5 DEF WellFormed, Text
  <2>2. Fields(lines[1]) = words
    <3>1. DOMAIN t = 1 .. Len(t)
      BY <2>1, LenProperties
    <3> QED
      BY <3>1 DEF Fields
  <2> HIDE DEF t
  <2>3. \A i \in 1 .. Len(t) : <<t[i]>> \in Text
    <3>1. \A i \in 1 .. Len(t) : t[i] \in Word
      BY <2>1, ElementOfSeq
    <3> QED
      BY <3>1 DEF Text
  <2>4. words \in [1 .. Len(t) -> Text]
    BY <2>3
  <2> HIDE DEF words
  <2>5. words \in Seq(Text) /\ Len(words) = Len(t)
    BY <2>1, <2>4, FunctionIsSeq
  <2>6. words # <<>>
    BY <2>1, <2>5, EmptySeq
  <2>7. Parsed(lines) = Request(words, FALSE)
    BY <1>5, <2>2 DEF Parsed
  <2> QED
    BY <2>5, <2>6, <2>7, RequestTyped
<1> QED
  BY <1>3, <1>4, <1>5

\* The client writes a command.
LEMMA StreamSend ==
  ASSUME NEW pc, NEW lines \in Seq(AnyLine), NEW cmds \in Seq(Commands),
         NEW done \in Seq(Executed), NEW req, NEW cmd \in Commands,
         Stream(pc, lines, cmds, <<>>, done, req, FALSE)
  PROVE  Stream(pc, lines \o Encode(cmd), Append(cmds, cmd), <<>>, done, req, FALSE)
<1> DEFINE k == IF pc = "command" THEN Len(done) + 1 ELSE Len(done)
           all == Append(cmds, cmd)
<1>1. /\ \A i \in 1 .. Len(done) :
           FramedTo(cmds, <<>>, i) => i <= Len(cmds) /\ done[i].req = Meaning(cmds[i])
      /\ FramedTo(cmds, <<>>, k) =>
           /\ k <= Len(cmds)
           /\ pc = "command" => req = Meaning(cmds[k])
           /\ pc \notin {"close", "end"} => InStep(lines, cmds, k, <<>>)
  BY DEF Stream
<1>2. Len(done) \in Nat /\ Len(cmds) \in Nat /\ k \in Nat /\ (pc = "command" => k \in Nat \ {0})
  OBVIOUS
<1>3. Len(all) = Len(cmds) + 1 /\ \A i \in 1 .. Len(cmds) : all[i] = cmds[i]
  BY AppendProperties
<1>f. \A n \in Nat : FramedTo(all, <<>>, n) => FramedTo(cmds, <<>>, n)
  BY FramedLonger
<1> HIDE DEF k
<1>4. ASSUME FramedTo(all, <<>>, k)
      PROVE  /\ k <= Len(all)
             /\ pc = "command" => req = Meaning(all[k])
             /\ pc \notin {"close", "end"} => InStep(lines \o Encode(cmd), all, k, <<>>)
  <2>1. /\ k <= Len(cmds) /\ (pc = "command" => req = Meaning(cmds[k]))
        /\ pc \notin {"close", "end"} => InStep(lines, cmds, k, <<>>)
    BY <1>1, <1>2, <1>4, <1>f
  <2>2. k \in 0 .. Len(cmds) /\ k <= Len(all) /\ (pc = "command" => k \in 1 .. Len(cmds))
    BY <1>2, <1>3, <2>1
  <2>3. pc \notin {"close", "end"} => InStep(lines \o Encode(cmd), all, k, <<>>)
    BY <2>1, <2>2, SendInStep
  <2> QED
    BY <1>3, <2>1, <2>2, <2>3
<1> HIDE DEF all
<1>5. ASSUME NEW i \in 1 .. Len(done), FramedTo(all, <<>>, i)
      PROVE  i <= Len(all) /\ done[i].req = Meaning(all[i])
  <2>1. i \in Nat
    BY <1>2
  <2>2. i <= Len(cmds) /\ done[i].req = Meaning(cmds[i])
    BY <1>1, <1>5, <1>f, <2>1
  <2>3. i \in 1 .. Len(cmds) /\ i <= Len(all)
    BY <1>2, <1>3, <2>2
  <2> QED
    BY <1>3, <2>2, <2>3
<1>6. Stream(pc, lines \o Encode(cmd), all, <<>>, done, req, FALSE)
  BY <1>4, <1>5 DEF Stream, k
<1> QED
  BY <1>6 DEF all

\* The client hangs up, perhaps within a command.
LEMMA StreamHangUp ==
  ASSUME NEW pc, NEW lines \in Seq(AnyLine), NEW cmds \in Seq(Commands),
         NEW done \in Seq(Executed), NEW req, NEW cmd \in Commands,
         Stream(pc, lines, cmds, <<>>, done, req, FALSE)
  PROVE  /\ lines \o Front(Encode(cmd)) \in Seq(AnyLine)
         /\ Stream(pc, lines \o Front(Encode(cmd)), cmds, <<cmd>>, done, req, TRUE)
<1> DEFINE k == IF pc = "command" THEN Len(done) + 1 ELSE Len(done)
           more == lines \o Front(Encode(cmd))
<1>1. /\ \A i \in 1 .. Len(done) :
           FramedTo(cmds, <<>>, i) => i <= Len(cmds) /\ done[i].req = Meaning(cmds[i])
      /\ FramedTo(cmds, <<>>, k) =>
           /\ k <= Len(cmds)
           /\ pc = "command" => req = Meaning(cmds[k])
           /\ pc \notin {"close", "end"} => InStep(lines, cmds, k, <<>>)
  BY DEF Stream
<1>2. Len(done) \in Nat /\ Len(cmds) \in Nat /\ k \in Nat
  OBVIOUS
<1> HIDE DEF k
<1>3. more \in Seq(AnyLine)
  <2>1. Encode(cmd) \in Seq(AnyLine)
    BY EncodeFacts
  <2>2. Front(Encode(cmd)) \in Seq(AnyLine)
    <3>1. \A i \in 1 .. Len(Encode(cmd)) - 1 : Encode(cmd)[i] \in AnyLine
      BY <2>1, ElementOfSeq
    <3>2. 1 \in Int /\ Len(Encode(cmd)) - 1 \in Int
      BY <2>1
    <3> QED
      BY <3>1, <3>2, SubSeqProperties DEF Front
  <2> QED
    BY <2>2, ConcatProperties
<1>f. \A n \in Nat : FramedTo(cmds, <<cmd>>, n) => FramedTo(cmds, <<>>, n)
  BY FramedLonger
<1>4. ASSUME FramedTo(cmds, <<cmd>>, k)
      PROVE  /\ k <= Len(cmds)
             /\ pc = "command" => req = Meaning(cmds[k])
             /\ pc \notin {"close", "end"} => InStep(more, cmds, k, <<cmd>>)
  <2>1. /\ k <= Len(cmds) /\ (pc = "command" => req = Meaning(cmds[k]))
        /\ pc \notin {"close", "end"} => InStep(lines, cmds, k, <<>>)
    BY <1>1, <1>2, <1>4, <1>f
  <2>2. k \in 0 .. Len(cmds)
    BY <1>2, <2>1
  <2>3. pc \notin {"close", "end"} => InStep(more, cmds, k, <<cmd>>)
    BY <2>1, <2>2, HangUpInStep
  <2> QED
    BY <2>1, <2>3
<1> HIDE DEF more
<1>5. \A i \in 1 .. Len(done) :
        FramedTo(cmds, <<cmd>>, i) => i <= Len(cmds) /\ done[i].req = Meaning(cmds[i])
  <2>1. \A i \in 1 .. Len(done) : i \in Nat
    BY <1>2
  <2> QED
    BY <1>1, <1>f, <2>1
<1>6. Stream(pc, more, cmds, <<cmd>>, done, req, TRUE)
  BY <1>4, <1>5 DEF Stream, k
<1> QED
  BY <1>3, <1>6 DEF more

\* readArray takes the lines of one command.
LEMMA StreamParse ==
  ASSUME NEW lines \in Seq(AnyLine), NEW cmds \in Seq(Commands), NEW part \in Seq(Commands),
         NEW done \in Seq(Executed), NEW req, NEW hung,
         Stream("parse", lines, cmds, part, done, req, hung), Complete(lines)
  PROVE  Stream("command", SubSeq(lines, LinesNeeded(lines) + 1, Len(lines)), cmds, part, done,
                Parsed(lines), hung)
<1> DEFINE k == Len(done)
           rest == SubSeq(lines, LinesNeeded(lines) + 1, Len(lines))
<1>1. /\ ~hung => part = <<>>
      /\ \A i \in 1 .. Len(done) :
           FramedTo(cmds, part, i) => i <= Len(cmds) /\ done[i].req = Meaning(cmds[i])
      /\ FramedTo(cmds, part, k) => k <= Len(cmds) /\ InStep(lines, cmds, k, part)
  BY DEF Stream
<1>2. k \in Nat /\ Len(cmds) \in Nat
  OBVIOUS
<1>3. ASSUME FramedTo(cmds, part, k + 1)
      PROVE  /\ k + 1 <= Len(cmds) /\ Parsed(lines) = Meaning(cmds[k + 1])
             /\ InStep(rest, cmds, k + 1, part)
  <2>1. FramedTo(cmds, part, k)
    <3>1. \A i \in 1 .. k : i \in 1 .. k + 1
      BY <1>2
    <3> QED
      BY <1>3, <3>1 DEF FramedTo
  <2>2. k \in 0 .. Len(cmds) /\ InStep(lines, cmds, k, part)
    BY <1>1, <1>2, <2>1
  <2>3. /\ k + 1 \in 1 .. Len(cmds) /\ Parsed(lines) = Meaning(cmds[k + 1])
        /\ InStep(rest, cmds, k + 1, part)
    BY <1>3, <2>2, ParseStep
  <2> HIDE DEF rest
  <2> QED
    BY <2>3
<1> HIDE DEF rest
<1>4. Stream("command", rest, cmds, part, done, Parsed(lines), hung)
  BY <1>1, <1>3 DEF Stream
<1> QED
  BY <1>4 DEF rest

\* A connection whose input does not parse is given up.
LEMMA StreamError ==
  ASSUME NEW lines, NEW lines2, NEW cmds, NEW part, NEW done, NEW req, NEW hung,
         Stream("parse", lines, cmds, part, done, req, hung)
  PROVE  Stream("close", lines2, cmds, part, done, req, hung)
BY DEF Stream

\* A command that was parsed is executed.
LEMMA StreamHandle ==
  ASSUME NEW lines, NEW cmds \in Seq(Commands), NEW part, NEW done \in Seq(Executed), NEW req,
         NEW hung, NEW e \in Executed, e.req = req,
         Stream("command", lines, cmds, part, done, req, hung)
  PROVE  Stream("reply", lines, cmds, part, Append(done, e), req, hung)
<1> DEFINE n == Len(done) + 1
<1>1. /\ ~hung => part = <<>>
      /\ \A i \in 1 .. Len(done) :
           FramedTo(cmds, part, i) => i <= Len(cmds) /\ done[i].req = Meaning(cmds[i])
      /\ FramedTo(cmds, part, n) =>
           n <= Len(cmds) /\ req = Meaning(cmds[n]) /\ InStep(lines, cmds, n, part)
  BY DEF Stream
<1> DEFINE new == Append(done, e)
<1>2. /\ Len(new) = Len(done) + 1 /\ new[Len(done) + 1] = e /\ Len(done) \in Nat
      /\ \A i \in 1 .. Len(done) : new[i] = done[i]
  BY AppendProperties
<1> HIDE DEF new
<1>3. \A i \in 1 .. Len(new) :
        FramedTo(cmds, part, i) => i <= Len(cmds) /\ new[i].req = Meaning(cmds[i])
  <2>1. \A i \in 1 .. Len(new) : i \in 1 .. Len(done) \/ i = n
    BY <1>2
  <2> QED
    BY <1>1, <1>2, <2>1
<1>4. Len(new) = n
  BY <1>2
<1> HIDE DEF n
<1>5. Stream("reply", lines, cmds, part, new, req, hung)
  BY <1>1, <1>3, <1>4 DEF Stream
<1> QED
  BY <1>5 DEF new

\* The other steps read no input.
LEMMA StreamMoves ==
  ASSUME NEW lines, NEW cmds, NEW part, NEW done, NEW req, NEW hung
  PROVE  /\ Stream("reply", lines, cmds, part, done, req, hung)
              => Stream("parse", lines, cmds, part, done, req, hung)
         /\ Stream("none", lines, cmds, part, done, req, hung)
              => Stream("parse", lines, cmds, part, done, req, hung)
         /\ Stream("close", lines, cmds, part, done, req, hung)
              => Stream("end", lines, cmds, part, done, req, hung)
BY DEF Stream

-----------------------------------------------------------------------------
(***************************************************************************)
(* Every step keeps the invariant.                                         *)
(***************************************************************************)

\* The invariant holds at the start.
LEMMA InitIInv == Init => IInv
<1> SUFFICES ASSUME Init PROVE IInv
  OBVIOUS
<1>1. TypeInv
  <2>1. /\ <<>> \in Seq(AnyLine) /\ <<>> \in Seq(Commands) /\ <<>> \in Seq(Executed)
        /\ <<>> \in Seq(Entry) /\ Len(<<>>) = 0
    OBVIOUS
  <2>2. db \in [hist : Seq(Entry), safe : Nat] /\ db.safe <= Len(db.hist)
    <3>1. db.hist = <<>> /\ db.safe = 0
      BY DEF Init
    <3>2. db = [hist |-> <<>>, safe |-> 0]
      BY DEF Init
    <3>3. db \in [hist : Seq(Entry), safe : Nat]
      BY <2>1, <3>2
    <3>4. db.safe <= Len(db.hist)
      BY <3>1
    <3> QED
      BY <3>3, <3>4
  <2>3. /\ request \in [Conns -> RequestType] /\ cut \in [Conns -> Seq(Commands)]
        /\ executed \in [Conns -> Seq(Executed)] /\ sent \in [Conns -> Seq(Commands)]
        /\ input \in [Conns -> Seq(AnyLine)]
    <3>1. NoRequest \in RequestType
      <4>1. <<>> \in Text /\ <<>> \in Seq(Text)
        BY DEF Text
      <4> QED
        BY <4>1 DEF NoRequest, RequestType
    <3> QED
      BY <2>1, <3>1 DEF Init
  <2> QED
    BY <2>2, <2>3 DEF Init, TypeInv
<1>2. StreamInv
  <2>1. InStep(<<>>, <<>>, 0, <<>>)
    <3> DEFINE off == [i \in 0 .. 0 |-> 0]
    <3>1. off \in [0 .. 0 -> Nat] /\ off[0] = 0 /\ Len(<<>>) = 0 /\ Len(<<>>) - 0 = 0
      OBVIOUS
    <3> HIDE DEF off
    <3>2. \A i, j \in 0 .. 0 : i <= j => off[i] <= off[j]
      BY <3>1
    <3>3. \A i \in 1 .. 0 : FALSE
      OBVIOUS
    <3>4. Laid(<<>>, <<>>, 0, off)
      BY <3>1, <3>2, <3>3 DEF Laid
    <3>5. Ends(<<>>, off[0], <<>>)
      BY <3>1 DEF Ends
    <3> QED
      BY <3>1, <3>4, <3>5 DEF InStep
  <2>2. Stream("none", <<>>, <<>>, <<>>, <<>>, NoRequest, FALSE)
    <3>1. Len(<<>>) = 0 /\ 0 <= 0 /\ (\A i \in 1 .. 0 : FALSE) /\ "none" # "command"
      OBVIOUS
    <3> QED
      BY <2>1, <3>1 DEF Stream
  <2> QED
    BY <2>2 DEF Init, StreamInv
<1>3. WaitInv
  <2>1. Live = {}
    BY DEF Init, Live
  <2> QED
    BY <2>1, FS_EmptySet DEF Init, WaitInv
<1>4. DurableInv
  <2>1. \A i \in 1 .. 0 : FALSE
    OBVIOUS
  <2>2. \A c \in Conns : executed[c] = <<>> /\ Len(executed[c]) = 0 /\ handlerPc[c] = "none"
    BY DEF Init
  <2>3. acked = {} /\ sigPc = "signal" /\ process = "running"
    BY DEF Init
  <2> QED
    BY <2>1, <2>2, <2>3 DEF DurableInv
<1> QED
  BY <1>1, <1>2, <1>3, <1>4 DEF IInv

\* What handleCommand does to the store.
LEMMA HandleStore ==
  ASSUME TypeInv, NEW c \in Conns, HandleCommand(c)
  PROVE  /\ request[c] \in RequestType
         /\ db' \in [hist : Seq(Entry), safe : Nat] /\ db'.safe = db.safe
         /\ Len(db.hist) \in Nat /\ Len(db'.hist) \in Nat /\ Len(db.hist) <= Len(db'.hist)
         /\ executed' = [executed EXCEPT ![c] =
                           Append(executed[c], [req |-> request[c], at |-> Len(db'.hist)])]
         /\ [req |-> request[c], at |-> Len(db'.hist)] \in Executed
<1> DEFINE r == request[c]
           isSet == r.cmd = <<"set">> /\ Len(r.args) = 2
<1>1. r \in RequestType
  BY DEF TypeInv
<1>2. r.args \in Seq(Text)
  BY <1>1 DEF RequestType
<1>3. db.hist \in Seq(Entry) /\ db.safe \in Nat /\ Len(db.hist) \in Nat
  BY DEF TypeInv
<1>h. /\ db' = IF isSet THEN [db EXCEPT !.hist = Write(r.args[1], r.args[2])] ELSE db
      /\ executed' = [executed EXCEPT ![c] =
                        Append(executed[c], [req |-> request[c], at |-> Len(db'.hist)])]
      /\ isSet => Len(r.args) = 2
  BY DEF HandleCommand
<1> HIDE DEF isSet
<1>4. CASE isSet
  <2> DEFINE e == [key |-> r.args[1], val |-> r.args[2]]
  <2>1. r.args[1] \in Text /\ r.args[2] \in Text
    BY <1>2, <1>4, <1>h, ElementOfSeq
  <2>2. e \in Entry
    BY <2>1 DEF Entry
  <2>3. db' = [db EXCEPT !.hist = Append(db.hist, e)]
    BY <1>4, <1>h DEF Write
  <2> HIDE DEF e
  <2>4. Append(db.hist, e) \in Seq(Entry) /\ Len(Append(db.hist, e)) = Len(db.hist) + 1
    BY <1>3, <2>2, AppendProperties
  <2>5. db'.hist = Append(db.hist, e) /\ db'.safe = db.safe /\ db' \in [hist : Seq(Entry), safe : Nat]
    BY <1>3, <2>3, <2>4 DEF TypeInv
  <2> QED
    BY <1>1, <1>3, <1>h, <2>4, <2>5 DEF Executed
<1>5. CASE ~isSet
  <2>1. db' = db
    BY <1>5, <1>h
  <2>2. executed' = [executed EXCEPT ![c] =
                       Append(executed[c], [req |-> request[c], at |-> Len(db'.hist)])]
    BY <1>h
  <2>3. [req |-> request[c], at |-> Len(db'.hist)] \in Executed
    BY <1>1, <1>3, <2>1 DEF Executed
  <2>4. db \in [hist : Seq(Entry), safe : Nat] /\ Len(db.hist) <= Len(db.hist)
    BY <1>3 DEF TypeInv
  <2> HIDE DEF r
  <2> QED
    BY <1>1, <1>3, <2>1, <2>2, <2>3, <2>4 DEF r
<1> QED
  BY <1>4, <1>5

\* What main writes at its start.
LEMMA DemoEntry == [key |-> <<"1">>, val |-> <<"vector">>] \in Entry
<1> DEFINE one == "1"
           vector == "vector"
<1>1. one \in Word /\ vector \in Word
  BY DEF Word
<1> HIDE DEF one, vector
<1>2. <<one>> \in Text /\ <<vector>> \in Text
  BY <1>1 DEF Text
<1>3. [key |-> <<one>>, val |-> <<vector>>] \in Entry
  BY <1>2 DEF Entry
<1> QED
  BY <1>3 DEF one, vector

\* Every step keeps the types.
LEMMA TypeStep == ASSUME IInv, Next PROVE TypeInv'
<1> USE DEF IInv
<1>t. TypeInv
  OBVIOUS
<1>h. db.hist \in Seq(Entry) /\ db.safe \in Nat /\ Len(db.hist) \in Nat /\ db.safe <= Len(db.hist)
  BY DEF TypeInv
<1> USE DEF mainVars, clientVars, handlerVars, shutdownVars
<1>1. CASE DemoInsert
  <2> DEFINE e == [key |-> <<"1">>, val |-> <<"vector">>]
  <2>1. e \in Entry
    BY DemoEntry
  <2>2. db' = [hist |-> Append(db.hist, e), safe |-> Len(db.hist) + 1]
    BY <1>1 DEF DemoInsert, Write
  <2> HIDE DEF e
  <2>3. Append(db.hist, e) \in Seq(Entry) /\ Len(Append(db.hist, e)) = Len(db.hist) + 1
    BY <1>h, <2>1, AppendProperties
  <2>4. db' \in [hist : Seq(Entry), safe : Nat] /\ db'.safe <= Len(db'.hist)
    BY <1>h, <2>2, <2>3
  <2> QED
    BY <1>1, <1>t, <2>4 DEF TypeInv, DemoInsert
<1>2. CASE DemoGet \/ Listen
  BY <1>2, <1>t DEF TypeInv, DemoGet, Listen
<1>3. ASSUME NEW c \in Conns, Accept(c) PROVE TypeInv'
  BY <1>3, <1>t DEF TypeInv, Accept
<1>4. CASE AddAndGo
  BY <1>4, <1>t DEF TypeInv, AddAndGo
<1>5. ASSUME NEW c \in Conns, ParseCommand(c) PROVE TypeInv'
  <2>1. input[c] \in Seq(AnyLine) /\ Complete(input[c]) /\ WellFormed(input[c])
    BY <1>5, <1>t DEF TypeInv, ParseCommand
  <2>2. /\ Parsed(input[c]) \in RequestType
        /\ SubSeq(input[c], LinesNeeded(input[c]) + 1, Len(input[c])) \in Seq(AnyLine)
    BY <2>1, ParsedTyped, RestLines
  <2>3. request' \in [Conns -> RequestType] /\ input' \in [Conns -> Seq(AnyLine)]
    BY <1>5, <1>t, <2>2 DEF TypeInv, ParseCommand
  <2>4. handlerPc' \in [Conns -> {"none", "parse", "command", "reply", "close", "end"}]
    BY <1>5, <1>t DEF TypeInv, ParseCommand
  <2> QED
    BY <1>5, <1>t, <2>3, <2>4 DEF TypeInv, ParseCommand
<1>6. ASSUME NEW c \in Conns, ParseError(c) PROVE TypeInv'
  <2>1. <<>> \in Seq(AnyLine)
    OBVIOUS
  <2>2. input' \in [Conns -> Seq(AnyLine)]
    BY <1>6, <1>t, <2>1 DEF TypeInv, ParseError
  <2> QED
    BY <1>6, <1>t, <2>2 DEF TypeInv, ParseError
<1>7. ASSUME NEW c \in Conns, HandleCommand(c) PROVE TypeInv'
  <2> DEFINE e == [req |-> request[c], at |-> Len(db'.hist)]
  <2>1. /\ db' \in [hist : Seq(Entry), safe : Nat] /\ db'.safe = db.safe
        /\ Len(db.hist) \in Nat /\ Len(db'.hist) \in Nat /\ Len(db.hist) <= Len(db'.hist)
        /\ executed' = [executed EXCEPT ![c] = Append(executed[c], e)]
        /\ e \in Executed
    BY <1>7, HandleStore
  <2>2. db'.safe <= Len(db'.hist)
    BY <1>h, <2>1
  <2> HIDE DEF e
  <2>3. Append(executed[c], e) \in Seq(Executed)
    BY <1>t, <2>1, AppendProperties DEF TypeInv
  <2>4. executed' \in [Conns -> Seq(Executed)]
    BY <1>t, <2>1, <2>3 DEF TypeInv
  <2>5. handlerPc' \in [Conns -> {"none", "parse", "command", "reply", "close", "end"}]
    BY <1>7, <1>t DEF TypeInv, HandleCommand
  <2>6. UNCHANGED <<conn, hungUp, input, sent, cut, request>>
    BY <1>7 DEF HandleCommand
  <2> QED
    BY <1>t, <2>1, <2>2, <2>4, <2>5, <2>6 DEF TypeInv
<1>8. ASSUME NEW c \in Conns, Reply(c) PROVE TypeInv'
  BY <1>8, <1>t DEF TypeInv, Reply
<1>9. ASSUME NEW c \in Conns, CloseConn(c) PROVE TypeInv'
  BY <1>9, <1>t DEF TypeInv, CloseConn
<1>10. ASSUME NEW c \in Conns, Dial(c) PROVE TypeInv'
  BY <1>10, <1>t DEF TypeInv, Dial
<1>11. ASSUME NEW c \in Conns, HangUp(c) PROVE TypeInv'
  <2>1. CASE UNCHANGED <<input, cut>>
    BY <1>11, <1>t, <2>1 DEF TypeInv, HangUp
  <2>2. ASSUME NEW cmd \in Commands, input' = [input EXCEPT ![c] = @ \o Front(Encode(cmd))],
               cut' = [cut EXCEPT ![c] = <<cmd>>]
        PROVE  TypeInv'
    <3>1. /\ input[c] \in Seq(AnyLine) /\ sent[c] \in Seq(Commands)
          /\ executed[c] \in Seq(Executed)
          /\ Stream(handlerPc[c], input[c], sent[c], cut[c], executed[c], request[c], hungUp[c])
      BY <1>t DEF TypeInv, StreamInv
    <3>2. hungUp[c] = FALSE /\ cut[c] = <<>>
      <4>1. hungUp[c] = FALSE
        BY <1>11, <1>t DEF TypeInv, HangUp
      <4> QED
        BY <3>1, <4>1 DEF Stream
    <3>s. Stream(handlerPc[c], input[c], sent[c], <<>>, executed[c], request[c], FALSE)
      BY <3>1, <3>2
    <3>f. input[c] \o Front(Encode(cmd)) \in Seq(AnyLine)
      BY <3>1, <3>s, StreamHangUp
    <3>3. input[c] \o Front(Encode(cmd)) \in Seq(AnyLine) /\ <<cmd>> \in Seq(Commands)
      BY <3>f
    <3>4. input' \in [Conns -> Seq(AnyLine)] /\ cut' \in [Conns -> Seq(Commands)]
      BY <1>t, <2>2, <3>3 DEF TypeInv
    <3>5. hungUp' \in [Conns -> BOOLEAN]
      BY <1>11, <1>t DEF TypeInv, HangUp
    <3>6. UNCHANGED <<conn, handlerPc, sent, request, executed, db>>
      BY <1>11 DEF HangUp
    <3> QED
      BY <1>t, <3>4, <3>5, <3>6 DEF TypeInv
  <2> QED
    BY <1>11, <2>1, <2>2 DEF HangUp
<1>12. ASSUME NEW c \in Conns, NEW cmd \in Commands, Send(c, cmd) PROVE TypeInv'
  <2>1. Encode(cmd) \in Seq(AnyLine)
    BY EncodeFacts
  <2>2. input[c] \o Encode(cmd) \in Seq(AnyLine) /\ Append(sent[c], cmd) \in Seq(Commands)
    BY <1>t, <2>1, ConcatProperties, AppendProperties DEF TypeInv
  <2>3. input' \in [Conns -> Seq(AnyLine)] /\ sent' \in [Conns -> Seq(Commands)]
    BY <1>12, <1>t, <2>2 DEF TypeInv, Send
  <2>4. UNCHANGED <<conn, hungUp, cut, handlerPc, request, executed, db>>
    BY <1>12 DEF Send
  <2> QED
    BY <1>t, <2>3, <2>4 DEF TypeInv
<1>13. CASE Signal \/ ReceiveSignal \/ CloseQuit \/ WgWait \/ WgWake \/ Exit
  BY <1>13, <1>t DEF TypeInv, Signal, ReceiveSignal, CloseQuit, WgWait, WgWake, Exit
<1>14. CASE CloseListener
  BY <1>14, <1>t DEF TypeInv, CloseListener
<1>15. CASE Flush
  <2>1. db' = [db EXCEPT !.safe = Len(db.hist)]
    BY <1>15 DEF Flush
  <2>2. db' \in [hist : Seq(Entry), safe : Nat] /\ db'.safe <= Len(db'.hist)
    <3>1. db \in [hist : Seq(Entry), safe : Nat]
      BY <1>t DEF TypeInv
    <3>2. db'.hist = db.hist /\ db'.safe = Len(db.hist) /\ db' \in [hist : Seq(Entry), safe : Nat]
      BY <1>h, <2>1, <3>1
    <3> QED
      BY <1>h, <3>2
  <2> QED
    BY <1>15, <1>t, <2>2 DEF TypeInv, Flush
<1>16. CASE LogFlush
  <2>1. PICK n \in db.safe + 1 .. Len(db.hist) : db' = [db EXCEPT !.safe = n]
    BY <1>16 DEF LogFlush
  <2>2. n \in Nat /\ n <= Len(db.hist)
    BY <1>h
  <2>3. db' \in [hist : Seq(Entry), safe : Nat] /\ db'.safe <= Len(db'.hist)
    BY <1>t, <1>h, <2>1, <2>2 DEF TypeInv
  <2> QED
    BY <1>16, <1>t, <2>3 DEF TypeInv, LogFlush
<1>17. ASSUME NEW c \in Conns, ParsePanic(c) PROVE TypeInv'
  BY <1>17, <1>t DEF TypeInv, ParsePanic
<1> QED
  BY <1>1, <1>2, <1>3, <1>4, <1>5, <1>6, <1>7, <1>8, <1>9, <1>10, <1>11, <1>12, <1>13, <1>14,
     <1>15, <1>16, <1>17 DEF Next, MainStep, HandlerStep, ShutdownStep, ClientStep

\* A step that concerns connection c leaves the streams of the others alone.
LEMMA StreamFrame ==
  ASSUME StreamInv, NEW c \in Conns,
         \A d \in Conns \ {c} :
           /\ handlerPc'[d] = handlerPc[d] /\ input'[d] = input[d] /\ sent'[d] = sent[d]
           /\ cut'[d] = cut[d]
           /\ executed'[d] = executed[d] /\ request'[d] = request[d] /\ hungUp'[d] = hungUp[d],
         Stream(handlerPc'[c], input'[c], sent'[c], cut'[c], executed'[c], request'[c], hungUp'[c])
  PROVE  StreamInv'
<1> SUFFICES ASSUME NEW d \in Conns
             PROVE  Stream(handlerPc'[d], input'[d], sent'[d], cut'[d], executed'[d], request'[d],
                           hungUp'[d])
  BY DEF StreamInv
<1>1. CASE d = c
  BY <1>1
<1>2. CASE d # c
  BY <1>2 DEF StreamInv
<1> QED
  BY <1>1, <1>2

\* Every step keeps the streams in step with what was executed.
LEMMA StreamStep == ASSUME IInv, Next PROVE StreamInv'
<1>t. TypeInv /\ StreamInv /\ WaitInv
  BY DEF IInv
<1> USE DEF mainVars, clientVars, handlerVars, shutdownVars
<1>1. CASE UNCHANGED <<handlerPc, input, sent, cut, executed, request, hungUp>>
  BY <1>1, <1>t DEF StreamInv
<1>2. CASE AddAndGo
  <2> DEFINE c == accepted
  <2>1. c \in Conns /\ handlerPc[c] = "none"
    BY <1>2, <1>t DEF WaitInv, AddAndGo
  <2>2. handlerPc' = [handlerPc EXCEPT ![c] = "parse"] /\ UNCHANGED <<input, sent, cut, executed, request, hungUp>>
    BY <1>2 DEF AddAndGo
  <2>3. Stream("parse", input[c], sent[c], cut[c], executed[c], request[c], hungUp[c])
    <3>1. Stream("none", input[c], sent[c], cut[c], executed[c], request[c], hungUp[c])
      BY <1>t, <2>1 DEF StreamInv
    <3> QED
      BY <3>1, StreamMoves
  <2> HIDE DEF c
  <2>4. handlerPc'[c] = "parse" /\ \A d \in Conns \ {c} : handlerPc'[d] = handlerPc[d]
    BY <1>t, <2>1, <2>2 DEF TypeInv
  <2> QED
    BY <1>t, <2>1, <2>2, <2>3, <2>4, StreamFrame
<1>3. ASSUME NEW c \in Conns, ParseCommand(c) PROVE StreamInv'
  <2> DEFINE rest == SubSeq(input[c], LinesNeeded(input[c]) + 1, Len(input[c]))
  <2>1. /\ input[c] \in Seq(AnyLine) /\ sent[c] \in Seq(Commands)
        /\ cut[c] \in Seq(Commands) /\ executed[c] \in Seq(Executed)
        /\ hungUp[c] \in BOOLEAN
        /\ Stream("parse", input[c], sent[c], cut[c], executed[c], request[c], hungUp[c])
    BY <1>3, <1>t DEF TypeInv, StreamInv, ParseCommand
  <2>2. Stream("command", rest, sent[c], cut[c], executed[c], Parsed(input[c]), hungUp[c])
    BY <1>3, <2>1, StreamParse DEF ParseCommand
  <2> HIDE DEF rest
  <2>3. /\ handlerPc' = [handlerPc EXCEPT ![c] = "command"]
        /\ request' = [request EXCEPT ![c] = Parsed(input[c])]
        /\ input' = [input EXCEPT ![c] = rest]
        /\ UNCHANGED <<sent, cut, executed, hungUp>>
    BY <1>3 DEF ParseCommand, rest
  <2>4. /\ handlerPc'[c] = "command" /\ request'[c] = Parsed(input[c]) /\ input'[c] = rest
        /\ \A d \in Conns \ {c} : /\ handlerPc'[d] = handlerPc[d] /\ request'[d] = request[d]
                                  /\ input'[d] = input[d]
    BY <1>t, <2>3 DEF TypeInv
  <2> QED
    BY <1>t, <2>2, <2>3, <2>4, StreamFrame
<1>4. ASSUME NEW c \in Conns, ParseError(c) PROVE StreamInv'
  <2>1. Stream("parse", input[c], sent[c], cut[c], executed[c], request[c], hungUp[c])
    BY <1>4, <1>t DEF StreamInv, ParseError
  <2>2. Stream("close", <<>>, sent[c], cut[c], executed[c], request[c], hungUp[c])
    BY <2>1, StreamError
  <2>3. /\ handlerPc' = [handlerPc EXCEPT ![c] = "close"] /\ input' = [input EXCEPT ![c] = <<>>]
        /\ UNCHANGED <<sent, cut, executed, request, hungUp>>
    BY <1>4 DEF ParseError
  <2>4. /\ handlerPc'[c] = "close" /\ input'[c] = <<>>
        /\ \A d \in Conns \ {c} : handlerPc'[d] = handlerPc[d] /\ input'[d] = input[d]
    BY <1>t, <2>3 DEF TypeInv
  <2> QED
    BY <1>t, <2>2, <2>3, <2>4, StreamFrame
<1>5. ASSUME NEW c \in Conns, HandleCommand(c) PROVE StreamInv'
  <2> DEFINE e == [req |-> request[c], at |-> Len(db'.hist)]
  <2>1. /\ sent[c] \in Seq(Commands) /\ executed[c] \in Seq(Executed)
        /\ Stream("command", input[c], sent[c], cut[c], executed[c], request[c], hungUp[c])
    BY <1>5, <1>t DEF TypeInv, StreamInv, HandleCommand
  <2>2. executed' = [executed EXCEPT ![c] = Append(executed[c], e)] /\ e \in Executed
    BY <1>5, <1>t, HandleStore
  <2>3. e.req = request[c]
    OBVIOUS
  <2> HIDE DEF e
  <2>4. Stream("reply", input[c], sent[c], cut[c], Append(executed[c], e), request[c], hungUp[c])
    BY <2>1, <2>2, <2>3, StreamHandle
  <2>5. handlerPc' = [handlerPc EXCEPT ![c] = "reply"] /\ UNCHANGED <<input, sent, cut, request, hungUp>>
    BY <1>5 DEF HandleCommand
  <2>6. /\ handlerPc'[c] = "reply" /\ executed'[c] = Append(executed[c], e)
        /\ \A d \in Conns \ {c} : handlerPc'[d] = handlerPc[d] /\ executed'[d] = executed[d]
    BY <1>t, <2>2, <2>5 DEF TypeInv
  <2> QED
    BY <1>t, <2>4, <2>5, <2>6, StreamFrame
<1>6. ASSUME NEW c \in Conns, Reply(c) \/ CloseConn(c) PROVE StreamInv'
  <2> DEFINE new == IF handlerPc[c] = "reply" THEN "parse" ELSE "end"
  <2>1. /\ handlerPc[c] \in {"reply", "close"}
        /\ Stream(handlerPc[c], input[c], sent[c], cut[c], executed[c], request[c], hungUp[c])
    BY <1>6, <1>t DEF StreamInv, Reply, CloseConn
  <2>2. Stream(new, input[c], sent[c], cut[c], executed[c], request[c], hungUp[c])
    BY <2>1, StreamMoves
  <2>3. /\ handlerPc' = [handlerPc EXCEPT ![c] = new]
        /\ UNCHANGED <<input, sent, cut, executed, request, hungUp>>
    BY <1>6 DEF Reply, CloseConn
  <2> HIDE DEF new
  <2>4. handlerPc'[c] = new /\ \A d \in Conns \ {c} : handlerPc'[d] = handlerPc[d]
    BY <1>t, <2>3 DEF TypeInv
  <2> QED
    BY <1>t, <2>2, <2>3, <2>4, StreamFrame
<1>7. ASSUME NEW c \in Conns, HangUp(c) PROVE StreamInv'
  <2>1. /\ input[c] \in Seq(AnyLine) /\ sent[c] \in Seq(Commands)
        /\ executed[c] \in Seq(Executed) /\ hungUp[c] = FALSE
        /\ Stream(handlerPc[c], input[c], sent[c], cut[c], executed[c], request[c], FALSE)
    BY <1>7, <1>t DEF TypeInv, StreamInv, HangUp
  <2>c. cut[c] = <<>>
    BY <2>1 DEF Stream
  <2>2. /\ hungUp' = [hungUp EXCEPT ![c] = TRUE]
        /\ UNCHANGED <<handlerPc, sent, executed, request>>
    BY <1>7 DEF HangUp
  <2>3. hungUp'[c] = TRUE /\ \A d \in Conns \ {c} : hungUp'[d] = hungUp[d]
    BY <1>t, <2>2 DEF TypeInv
  <2>4. ASSUME NEW cmd \in Commands, input' = [input EXCEPT ![c] = @ \o Front(Encode(cmd))],
               cut' = [cut EXCEPT ![c] = <<cmd>>]
        PROVE  StreamInv'
    <3> DEFINE more == input[c] \o Front(Encode(cmd))
               part == <<cmd>>
    <3>1. Stream(handlerPc[c], more, sent[c], part, executed[c], request[c], TRUE)
      BY <2>1, <2>c, StreamHangUp
    <3>2. input' = [input EXCEPT ![c] = more] /\ cut' = [cut EXCEPT ![c] = part]
      BY <2>4
    <3> HIDE DEF more, part
    <3>3. /\ input'[c] = more /\ cut'[c] = part
          /\ \A d \in Conns \ {c} : input'[d] = input[d] /\ cut'[d] = cut[d]
      BY <1>t, <3>2 DEF TypeInv
    <3> QED
      BY <1>t, <2>2, <2>3, <3>1, <3>3, StreamFrame
  <2>5. CASE UNCHANGED <<input, cut>>
    <3>1. Stream(handlerPc[c], input[c], sent[c], cut[c], executed[c], request[c], TRUE)
      BY <2>1 DEF Stream
    <3> QED
      BY <1>t, <2>2, <2>3, <2>5, <3>1, StreamFrame
  <2> QED
    BY <1>7, <2>4, <2>5 DEF HangUp
<1>8. ASSUME NEW c \in Conns, NEW cmd \in Commands, Send(c, cmd) PROVE StreamInv'
  <2>1. /\ input[c] \in Seq(AnyLine) /\ sent[c] \in Seq(Commands)
        /\ cut[c] \in Seq(Commands) /\ executed[c] \in Seq(Executed)
        /\ hungUp[c] = FALSE
        /\ Stream(handlerPc[c], input[c], sent[c], cut[c], executed[c], request[c], FALSE)
    BY <1>8, <1>t DEF TypeInv, StreamInv, Send
  <2>c. cut[c] = <<>>
    BY <2>1 DEF Stream
  <2> DEFINE more == input[c] \o Encode(cmd)
             all == Append(sent[c], cmd)
  <2>2. Stream(handlerPc[c], more, all, cut[c], executed[c], request[c], FALSE)
    BY <2>1, <2>c, StreamSend
  <2>3. /\ input' = [input EXCEPT ![c] = more] /\ sent' = [sent EXCEPT ![c] = all]
        /\ UNCHANGED <<handlerPc, cut, executed, request, hungUp>>
    BY <1>8 DEF Send
  <2> HIDE DEF more, all
  <2>4. /\ input'[c] = more /\ sent'[c] = all
        /\ \A d \in Conns \ {c} : input'[d] = input[d] /\ sent'[d] = sent[d]
    BY <1>t, <2>3 DEF TypeInv
  <2> QED
    BY <1>t, <2>1, <2>2, <2>3, <2>4, StreamFrame
<1>9. CASE DemoInsert \/ DemoGet \/ Listen \/ Signal \/ LogFlush \/ ShutdownStep
  BY <1>9, <1>1 DEF DemoInsert, DemoGet, Listen, Signal, LogFlush, ShutdownStep, ReceiveSignal,
     CloseQuit, CloseListener, WgWait, WgWake, Flush, Exit
<1>10. ASSUME NEW c \in Conns, Accept(c) \/ Dial(c) \/ ParsePanic(c) PROVE StreamInv'
  BY <1>10, <1>1 DEF Accept, Dial, ParsePanic
<1> QED
  BY <1>2, <1>3, <1>4, <1>5, <1>6, <1>7, <1>8, <1>9, <1>10
  DEF Next, MainStep, HandlerStep, ClientStep

\* Every step keeps the wait group exact.
LEMMA WaitStep == ASSUME IInv, Next PROVE WaitInv'
<1>t. TypeInv /\ WaitInv
  BY DEF IInv
<1>w. /\ IsFiniteSet(Live) /\ wg = Cardinality(Live)
      /\ mainPc = "add" => /\ accepted \in Conns
                           /\ handlerPc[accepted] = "none" /\ conn[accepted] = "up"
      /\ \A c \in Conns : conn[c] \in {"none", "dialed"} => handlerPc[c] = "none"
      /\ sigPc \in {"flush", "exit"} => Live \subseteq late
  BY <1>t DEF WaitInv
<1> USE DEF mainVars, clientVars, handlerVars, shutdownVars
<1>1. CASE UNCHANGED <<handlerPc, wg, mainPc, accepted, conn, sigPc, late>>
  BY <1>1, <1>t DEF WaitInv, Live
<1>2. CASE DemoInsert \/ DemoGet \/ Listen
  <2>1. /\ UNCHANGED <<handlerPc, wg, conn, sigPc, late>> /\ mainPc' # "add"
    BY <1>2 DEF DemoInsert, DemoGet, Listen
  <2>2. Live' = Live
    BY <2>1 DEF Live
  <2> QED
    BY <1>w, <2>1, <2>2 DEF WaitInv
<1>3. ASSUME NEW c \in Conns, Accept(c) PROVE WaitInv'
  <2>1. /\ UNCHANGED <<handlerPc, wg, sigPc, late>> /\ accepted' = c
        /\ conn' = [conn EXCEPT ![c] = "up"] /\ conn[c] = "dialed"
    BY <1>3 DEF Accept
  <2>2. Live' = Live
    BY <2>1 DEF Live
  <2>3. handlerPc[c] = "none"
    BY <1>w, <2>1
  <2>4. conn'[c] = "up" /\ \A d \in Conns \ {c} : conn'[d] = conn[d]
    BY <1>t, <2>1 DEF TypeInv
  <2>5. \A d \in Conns : conn'[d] \in {"none", "dialed"} => handlerPc'[d] = "none"
    BY <1>w, <2>1, <2>4
  <2> QED
    BY <1>w, <2>1, <2>2, <2>3, <2>4, <2>5 DEF WaitInv
<1>4. CASE AddAndGo
  <2> DEFINE c == accepted
  <2>1. /\ handlerPc' = [handlerPc EXCEPT ![c] = "parse"] /\ wg' = wg + 1 /\ mainPc' # "add"
        /\ UNCHANGED <<conn, sigPc>>
        /\ late' = IF sigPc \in {"flush", "exit"} THEN late \cup {c} ELSE late
    BY <1>4 DEF AddAndGo
  <2>2. c \in Conns /\ handlerPc[c] = "none" /\ conn[c] = "up"
    BY <1>4, <1>w DEF AddAndGo
  <2> HIDE DEF c
  <2>3. handlerPc'[c] = "parse" /\ \A d \in Conns \ {c} : handlerPc'[d] = handlerPc[d]
    BY <1>t, <2>1, <2>2 DEF TypeInv
  <2>4. Live' = Live \cup {c} /\ c \notin Live
    BY <2>2, <2>3 DEF Live
  <2>5. IsFiniteSet(Live') /\ wg' = Cardinality(Live')
    BY <1>w, <2>1, <2>4, FS_AddElement
  <2>6. \A d \in Conns : conn'[d] \in {"none", "dialed"} => handlerPc'[d] = "none"
    BY <1>w, <2>1, <2>2, <2>3
  <2>7. sigPc' \in {"flush", "exit"} => Live' \subseteq late'
    BY <1>w, <2>1, <2>4
  <2> QED
    BY <2>1, <2>5, <2>6, <2>7 DEF WaitInv
<1>5. ASSUME NEW c \in Conns, ParseCommand(c) \/ ParseError(c) \/ HandleCommand(c) \/ Reply(c)
      PROVE  WaitInv'
  <2>1. /\ UNCHANGED <<wg, mainPc, accepted, conn, sigPc, late>>
        /\ handlerPc[c] \in {"parse", "command", "reply"}
    BY <1>5 DEF ParseCommand, ParseError, HandleCommand, Reply
  <2>2. PICK new \in {"parse", "command", "reply", "close"} :
          handlerPc' = [handlerPc EXCEPT ![c] = new]
    BY <1>5 DEF ParseCommand, ParseError, HandleCommand, Reply
  <2>3. handlerPc'[c] = new /\ \A d \in Conns \ {c} : handlerPc'[d] = handlerPc[d]
    BY <1>t, <2>2 DEF TypeInv
  <2>4. Live' = Live
    BY <2>1, <2>2, <2>3 DEF Live
  <2>5. \A d \in Conns : conn'[d] \in {"none", "dialed"} => handlerPc'[d] = "none"
    BY <1>w, <2>1, <2>3
  <2>6. mainPc' = "add" => handlerPc'[accepted] = "none"
    BY <1>w, <2>1, <2>3
  <2> QED
    BY <1>w, <2>1, <2>4, <2>5, <2>6 DEF WaitInv
<1>6. ASSUME NEW c \in Conns, CloseConn(c) PROVE WaitInv'
  <2>1. /\ handlerPc[c] = "close" /\ handlerPc' = [handlerPc EXCEPT ![c] = "end"]
        /\ conn' = [conn EXCEPT ![c] = "closed"] /\ wg' = wg - 1
        /\ UNCHANGED <<mainPc, accepted, late>> /\ sigPc' \in {sigPc, "woken"}
    BY <1>6 DEF CloseConn
  <2>2. /\ handlerPc'[c] = "end" /\ \A d \in Conns \ {c} : handlerPc'[d] = handlerPc[d]
        /\ conn'[c] = "closed" /\ \A d \in Conns \ {c} : conn'[d] = conn[d]
    BY <1>t, <2>1 DEF TypeInv
  <2>3. Live' = Live \ {c} /\ c \in Live
    BY <2>1, <2>2 DEF Live
  <2>4. IsFiniteSet(Live') /\ wg' = Cardinality(Live')
    BY <1>w, <2>1, <2>3, FS_RemoveElement
  <2>5. \A d \in Conns : conn'[d] \in {"none", "dialed"} => handlerPc'[d] = "none"
    BY <1>w, <2>2
  <2>6. mainPc' = "add" => /\ accepted' \in Conns
                           /\ handlerPc'[accepted'] = "none" /\ conn'[accepted'] = "up"
    BY <1>w, <2>1, <2>2
  <2>7. sigPc' \in {"flush", "exit"} => Live' \subseteq late'
    BY <1>w, <2>1, <2>3
  <2> QED
    BY <2>4, <2>5, <2>6, <2>7 DEF WaitInv
<1>7. ASSUME NEW c \in Conns, Dial(c) PROVE WaitInv'
  <2>1. /\ conn[c] = "none" /\ conn' = [conn EXCEPT ![c] = "dialed"]
        /\ UNCHANGED <<handlerPc, wg, mainPc, accepted, sigPc, late>>
    BY <1>7 DEF Dial
  <2>2. conn'[c] = "dialed" /\ \A d \in Conns \ {c} : conn'[d] = conn[d]
    BY <1>t, <2>1 DEF TypeInv
  <2>3. Live' = Live
    BY <2>1 DEF Live
  <2>4. \A d \in Conns : conn'[d] \in {"none", "dialed"} => handlerPc'[d] = "none"
    BY <1>w, <2>1, <2>2
  <2>5. mainPc' = "add" => conn'[accepted] = "up"
    BY <1>w, <2>1, <2>2
  <2> QED
    BY <1>w, <2>1, <2>3, <2>4, <2>5 DEF WaitInv
<1>8. CASE CloseListener
  <2>1. /\ conn' = [c \in Conns |-> IF conn[c] = "dialed" THEN "refused" ELSE conn[c]]
        /\ sigPc' = "wait" /\ UNCHANGED <<handlerPc, wg, mainPc, accepted, late>>
    BY <1>8 DEF CloseListener
  <2>2. Live' = Live
    BY <2>1 DEF Live
  <2>3. \A d \in Conns : conn'[d] \in {"none", "dialed"} => handlerPc'[d] = "none"
    BY <1>w, <2>1
  <2>4. mainPc' = "add" => conn'[accepted] = "up"
    BY <1>w, <2>1
  <2> QED
    BY <1>w, <2>1, <2>2, <2>3, <2>4 DEF WaitInv
<1>9. CASE ReceiveSignal \/ CloseQuit
  <2>1. /\ sigPc' \in {"quit", "listener"}
        /\ UNCHANGED <<handlerPc, wg, mainPc, accepted, conn, late>>
    BY <1>9 DEF ReceiveSignal, CloseQuit
  <2>2. Live' = Live
    BY <2>1 DEF Live
  <2> QED
    BY <1>w, <2>1, <2>2 DEF WaitInv
<1>10. CASE WgWait \/ WgWake
  <2>1. /\ UNCHANGED <<handlerPc, wg, mainPc, accepted, conn, late>>
        /\ sigPc' \in {"flush", "asleep", "woken"} /\ (sigPc' = "flush" => wg = 0)
    BY <1>10 DEF WgWait, WgWake
  <2>2. sigPc' = "flush" => Live = {}
    BY <1>w, <2>1, FS_EmptySet
  <2>3. Live' = Live
    BY <2>1 DEF Live
  <2> QED
    BY <1>w, <2>1, <2>2, <2>3 DEF WaitInv
<1>11. CASE Flush
  <2>1. sigPc = "flush" /\ UNCHANGED <<handlerPc, wg, mainPc, accepted, conn, late>>
    BY <1>11 DEF Flush
  <2>2. Live' = Live
    BY <2>1 DEF Live
  <2> QED
    BY <1>w, <2>1, <2>2 DEF WaitInv
<1>12. CASE Signal \/ LogFlush \/ Exit
  BY <1>12, <1>1 DEF Signal, LogFlush, Exit
<1>13. ASSUME NEW c \in Conns,
              HangUp(c) \/ ParsePanic(c) \/ \E cmd \in Commands : Send(c, cmd)
       PROVE  WaitInv'
  BY <1>13, <1>1 DEF HangUp, ParsePanic, Send
<1> QED
  BY <1>2, <1>3, <1>4, <1>5, <1>6, <1>7, <1>8, <1>9, <1>10, <1>11, <1>12, <1>13
  DEF Next, MainStep, HandlerStep, ShutdownStep, ClientStep

\* Every step keeps what Sync has made durable.
LEMMA DurableStep == ASSUME IInv, Next PROVE DurableInv'
<1>t. TypeInv /\ StreamInv /\ WaitInv /\ DurableInv /\ process = "running"
  BY DEF IInv, Next
<1>d. /\ \A c \in Conns : \A i \in 1 .. Len(executed[c]) : executed[c][i].at <= Len(db.hist)
      /\ \A c \in Conns : handlerPc[c] = "reply" => executed[c] # <<>>
      /\ \A a \in acked : a.conn \in Conns /\ a.at \in Nat /\ a.at <= Len(db.hist)
      /\ sigPc = "exit" => \A a \in acked : a.conn \notin late => a.at <= db.safe
  BY <1>t DEF DurableInv
<1>h. /\ db.hist \in Seq(Entry) /\ db.safe \in Nat /\ Len(db.hist) \in Nat
      /\ db.safe <= Len(db.hist)
  BY <1>t DEF TypeInv
<1>e. \A c \in Conns : /\ executed[c] \in Seq(Executed)
                       /\ \A i \in 1 .. Len(executed[c]) : executed[c][i].at \in Nat
  <2> SUFFICES ASSUME NEW c \in Conns
               PROVE  /\ executed[c] \in Seq(Executed)
                      /\ \A i \in 1 .. Len(executed[c]) : executed[c][i].at \in Nat
    OBVIOUS
  <2>1. executed[c] \in Seq(Executed)
    BY <1>t DEF TypeInv
  <2>2. \A i \in 1 .. Len(executed[c]) : executed[c][i] \in Executed
    BY <2>1, ElementOfSeq
  <2> QED
    BY <2>1, <2>2 DEF Executed
<1> USE DEF mainVars, clientVars, handlerVars, shutdownVars
<1>1. ASSUME UNCHANGED <<executed, acked, sigPc, late, process>>,
             \A c \in Conns : handlerPc'[c] = "reply" => handlerPc[c] = "reply",
             Len(db'.hist) \in Nat, Len(db'.hist) >= Len(db.hist),
             db'.safe \in Nat, db'.safe >= db.safe
      PROVE  DurableInv'
  <2>1. \A c \in Conns : \A i \in 1 .. Len(executed[c]) : executed[c][i].at <= Len(db'.hist)
    BY <1>1, <1>d, <1>e, <1>h
  <2>2. \A a \in acked : a.at <= Len(db'.hist)
    BY <1>1, <1>d, <1>h
  <2>3. sigPc = "exit" => \A a \in acked : a.conn \notin late => a.at <= db'.safe
    BY <1>1, <1>d, <1>h
  <2> QED
    BY <1>1, <1>d, <1>t, <2>1, <2>2, <2>3 DEF DurableInv
<1>2. CASE DemoInsert
  <2> DEFINE e == [key |-> <<"1">>, val |-> <<"vector">>]
  <2>1. e \in Entry
    BY DemoEntry
  <2>2. db' = [hist |-> Append(db.hist, e), safe |-> Len(db.hist) + 1]
    BY <1>2 DEF DemoInsert, Write
  <2> HIDE DEF e
  <2>3. Len(Append(db.hist, e)) = Len(db.hist) + 1
    BY <1>h, <2>1, AppendProperties
  <2>4. Len(db'.hist) = Len(db.hist) + 1 /\ db'.safe = Len(db.hist) + 1
    BY <2>2, <2>3
  <2>5. UNCHANGED <<executed, acked, sigPc, late, process, handlerPc>>
    BY <1>2 DEF DemoInsert
  <2> QED
    BY <1>1, <1>h, <2>4, <2>5
<1>3. CASE DemoGet \/ Listen
  <2>1. /\ UNCHANGED <<executed, acked, sigPc, late, handlerPc, db>>
        /\ process' # "exited"
    BY <1>3, <1>t DEF DemoGet, Listen
  <2> QED
    BY <1>d, <2>1 DEF DurableInv
<1>4. ASSUME NEW c \in Conns,
             Accept(c) \/ Dial(c) \/ HangUp(c) \/ \E cmd \in Commands : Send(c, cmd)
      PROVE  DurableInv'
  <2>1. UNCHANGED <<executed, acked, sigPc, late, process, handlerPc, db>>
    BY <1>4 DEF Accept, Dial, HangUp, Send
  <2> QED
    BY <1>1, <1>h, <2>1
<1>5. CASE AddAndGo
  <2>1. /\ UNCHANGED <<executed, acked, sigPc, process, db>> /\ late \subseteq late'
        /\ handlerPc' = [handlerPc EXCEPT ![accepted] = "parse"]
    BY <1>5 DEF AddAndGo
  <2>2. \A c \in Conns : handlerPc'[c] = "reply" => handlerPc[c] = "reply"
    BY <1>t, <2>1 DEF TypeInv
  <2> QED
    BY <1>d, <1>t, <2>1, <2>2 DEF DurableInv
<1>6. ASSUME NEW c \in Conns, ParseCommand(c) \/ ParseError(c) \/ CloseConn(c)
      PROVE  DurableInv'
  <2>1. /\ UNCHANGED <<executed, acked, late, process, db>> /\ sigPc' \in {sigPc, "woken"}
        /\ \E new \in {"command", "close", "end"} : handlerPc' = [handlerPc EXCEPT ![c] = new]
    BY <1>6 DEF ParseCommand, ParseError, CloseConn
  <2>2. \A d \in Conns : handlerPc'[d] = "reply" => handlerPc[d] = "reply"
    BY <1>t, <2>1 DEF TypeInv
  <2> QED
    BY <1>d, <1>t, <2>1, <2>2 DEF DurableInv
<1>7. ASSUME NEW c \in Conns, HandleCommand(c) PROVE DurableInv'
  <2> DEFINE e == [req |-> request[c], at |-> Len(db'.hist)]
             n == Len(db'.hist)
  <2>1. /\ db'.safe = db.safe /\ n \in Nat /\ Len(db.hist) <= n
        /\ executed' = [executed EXCEPT ![c] = Append(executed[c], e)] /\ e \in Executed
    BY <1>7, <1>t, HandleStore
  <2>2. e.at = n
    OBVIOUS
  <2>3. UNCHANGED <<acked, sigPc, late, process>>
        /\ handlerPc' = [handlerPc EXCEPT ![c] = "reply"]
    BY <1>7 DEF HandleCommand
  <2> HIDE DEF e, n
  <2>4. /\ executed'[c] = Append(executed[c], e)
        /\ \A d \in Conns \ {c} : executed'[d] = executed[d] /\ handlerPc'[d] = handlerPc[d]
    BY <1>t, <2>1, <2>3 DEF TypeInv
  <2>5. /\ Len(executed'[c]) = Len(executed[c]) + 1 /\ executed'[c][Len(executed[c]) + 1] = e
        /\ Len(executed[c]) \in Nat
        /\ \A i \in 1 .. Len(executed[c]) : executed'[c][i] = executed[c][i]
    BY <1>e, <2>1, <2>4, AppendProperties
  <2>6. \A i \in 1 .. Len(executed'[c]) : executed'[c][i].at <= n
    <3> SUFFICES ASSUME NEW i \in 1 .. Len(executed'[c]) PROVE executed'[c][i].at <= n
      OBVIOUS
    <3>1. CASE i = Len(executed[c]) + 1
      BY <2>1, <2>2, <2>5, <3>1
    <3>2. CASE i # Len(executed[c]) + 1
      <4>1. i \in 1 .. Len(executed[c])
        BY <2>5, <3>2
      <4>2. executed'[c][i] = executed[c][i] /\ executed[c][i].at <= Len(db.hist) /\ executed[c][i].at \in Nat
        BY <1>d, <1>e, <2>5, <4>1
      <4> QED
        BY <1>h, <2>1, <4>2
    <3> QED
      BY <3>1, <3>2
  <2>7. ASSUME NEW d \in Conns \ {c}, NEW i \in 1 .. Len(executed[d])
        PROVE  executed[d][i].at <= n
    BY <1>d, <1>e, <1>h, <2>1
  <2>8. \A d \in Conns : \A i \in 1 .. Len(executed'[d]) : executed'[d][i].at <= n
    BY <2>4, <2>6, <2>7
  <2>9. \A d \in Conns : handlerPc'[d] = "reply" => executed'[d] # <<>>
    <3>1. executed'[c] # <<>>
      BY <2>5
    <3> QED
      BY <1>d, <2>4, <3>1
  <2>10. \A a \in acked : a.at <= n
    BY <1>d, <1>h, <2>1
  <2> QED
    BY <1>d, <1>t, <2>1, <2>3, <2>8, <2>9, <2>10 DEF DurableInv, n
<1>8. ASSUME NEW c \in Conns, Reply(c) PROVE DurableInv'
  <2> DEFINE last == Last(executed[c]).at
  <2>1. /\ handlerPc[c] = "reply" /\ UNCHANGED <<executed, sigPc, late, process, db>>
        /\ handlerPc' = [handlerPc EXCEPT ![c] = "parse"]
        /\ acked' \in {acked, acked \cup {[conn |-> c, at |-> last]}}
    BY <1>8 DEF Reply
  <2>2. executed[c] # <<>>
    BY <1>d, <2>1
  <2>3. Len(executed[c]) \in 1 .. Len(executed[c])
    BY <1>e, <2>2, EmptySeq
  <2>4. last = executed[c][Len(executed[c])].at
    BY DEF Last
  <2>5. last \in Nat /\ last <= Len(db.hist)
    BY <1>d, <1>e, <2>3, <2>4
  <2> HIDE DEF last
  <2>6. \A d \in Conns : handlerPc'[d] = "reply" => handlerPc[d] = "reply"
    BY <1>t, <2>1 DEF TypeInv
  <2>7. \A a \in acked' : a \in acked \/ a = [conn |-> c, at |-> last]
    BY <2>1
  <2>8. \A a \in acked' : a.conn \in Conns /\ a.at \in Nat /\ a.at <= Len(db.hist)
    BY <1>d, <2>5, <2>7
  <2>9. sigPc = "exit" => \A a \in acked' : a.conn \notin late => a.at <= db.safe
    <3>1. sigPc = "exit" => c \in late
      BY <1>t, <2>1 DEF WaitInv, Live
    <3> QED
      BY <1>d, <2>7, <3>1
  <2> QED
    BY <1>d, <1>t, <2>1, <2>6, <2>8, <2>9 DEF DurableInv
<1>9. CASE Signal \/ ReceiveSignal \/ CloseQuit \/ CloseListener \/ WgWait \/ WgWake
  <2>1. /\ UNCHANGED <<executed, acked, late, handlerPc, db>>
        /\ sigPc' = "exit" => sigPc = "exit"
        /\ process' \in {process, "panicked"}
    BY <1>9 DEF Signal, ReceiveSignal, CloseQuit, CloseListener, WgWait, WgWake
  <2> QED
    BY <1>d, <1>t, <2>1 DEF DurableInv
<1>10. CASE Flush
  <2>1. /\ UNCHANGED <<executed, acked, late, process, handlerPc>>
        /\ db' = [db EXCEPT !.safe = Len(db.hist)]
    BY <1>10 DEF Flush
  <2>2. db'.hist = db.hist /\ db'.safe = Len(db.hist)
    BY <1>t, <2>1 DEF TypeInv
  <2> QED
    BY <1>d, <1>t, <2>1, <2>2 DEF DurableInv
<1>11. CASE Exit
  <2>1. sigPc = "exit" /\ UNCHANGED <<executed, acked, late, handlerPc, db, sigPc>>
    BY <1>11 DEF Exit
  <2> QED
    BY <1>d, <2>1 DEF DurableInv
<1>12. CASE LogFlush
  <2>1. PICK n \in db.safe + 1 .. Len(db.hist) : db' = [db EXCEPT !.safe = n]
    BY <1>12 DEF LogFlush
  <2>2. db'.hist = db.hist /\ db'.safe = n
    BY <1>t, <2>1 DEF TypeInv
  <2>3. n \in Nat /\ n >= db.safe
    BY <1>h
  <2>4. UNCHANGED <<executed, acked, sigPc, late, process, handlerPc>>
    BY <1>12 DEF LogFlush
  <2> QED
    BY <1>1, <1>h, <2>2, <2>3, <2>4
<1>13. ASSUME NEW c \in Conns, ParsePanic(c) PROVE DurableInv'
  <2>1. /\ UNCHANGED <<executed, acked, sigPc, late, handlerPc, db>>
        /\ process' = "panicked"
    BY <1>13 DEF ParsePanic
  <2> QED
    BY <1>d, <2>1 DEF DurableInv
<1> QED
  BY <1>2, <1>3, <1>4, <1>5, <1>6, <1>7, <1>8, <1>9, <1>10, <1>11, <1>12, <1>13
  DEF Next, MainStep, HandlerStep, ShutdownStep, ClientStep

\* The invariant is inductive.
LEMMA StepIInv == IInv /\ [Next]_vars => IInv'
<1> SUFFICES ASSUME IInv, [Next]_vars PROVE IInv'
  OBVIOUS
<1>1. CASE Next
  BY <1>1, TypeStep, StreamStep, WaitStep, DurableStep DEF IInv
<1>2. CASE UNCHANGED vars
  <2>1. TypeInv' /\ StreamInv'
    BY <1>2 DEF IInv, TypeInv, StreamInv, vars, mainVars, clientVars, handlerVars, shutdownVars
  <2>2. WaitInv' /\ DurableInv'
    BY <1>2 DEF IInv, WaitInv, DurableInv, Live, vars, mainVars, clientVars, handlerVars,
       shutdownVars
  <2> QED
    BY <2>1, <2>2 DEF IInv
<1> QED
  BY <1>1, <1>2

\* The invariant holds throughout.
LEMMA ServerInv == Spec => []IInv
BY InitIInv, StepIInv, PTL DEF Spec

\* parseRESP keeps in step with every client, for any connections, commands and
\* interleaving, until a word has a line end in it: up to there the n-th command
\* handleCommand executes on a connection is the n-th its client sent, whole but
\* for blanks around a word, and a command cut off by a hang-up never is.
THEOREM CommandsExecutedAsSent == Spec => []ExecutedAsSent
<1>1. IInv => ExecutedAsSent
  <2> SUFFICES ASSUME IInv, NEW c \in Conns, NEW i \in 1 .. Len(executed[c]), FramedUpTo(c, i)
               PROVE  i <= Len(sent[c]) /\ executed[c][i].req = Meaning(sent[c][i])
    BY DEF ExecutedAsSent
  <2>1. Stream(handlerPc[c], input[c], sent[c], cut[c], executed[c], request[c], hungUp[c])
    BY DEF IInv, StreamInv
  <2>2. FramedTo(sent[c], cut[c], i)
    BY DEF FramedUpTo, FramedTo
  <2> QED
    BY <2>1, <2>2 DEF Stream
<1> QED
  BY <1>1, ServerInv, PTL

\* After the shutdown goroutine has called os.Exit, every set answered with +OK
\* on a connection that wg.Wait() covered is among the writes that survive,
\* although the writes themselves are not synced.
THEOREM ShutdownKeepsAcked == Spec => []GracefulDurable
<1>1. IInv => GracefulDurable
  BY DEF IInv, DurableInv, GracefulDurable
<1> QED
  BY <1>1, ServerInv, PTL
=============================================================================
