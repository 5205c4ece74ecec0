------------------------------- MODULE Server -------------------------------
(***************************************************************************)
(* cmd/main.go: the demo at the start of main, the Redis-style server      *)
(* (accept loop, one goroutine per connection, parseRESP, handleCommand)   *)
(* and the shutdown goroutine.  In this commit main returns right after    *)
(* the demo (line 66) and the server below it is not reached.  Programs    *)
(* says what is checked: main with that statement, or without it, so that  *)
(* the server can be checked as it is written.                             *)
(*                                                                         *)
(* The store is db.hist, the writes in the order Pebble sequenced them;    *)
(* the first db.safe of them survive the end of the process.               *)
(***************************************************************************)
EXTENDS Integers, Sequences, SequencesExt, FiniteSetsExt

CONSTANTS
  Conns,         \* connections clients may open
  Commands,      \* what clients may send, see CommandType
  MaxRequests,   \* bound on the commands sent, over all connections
  MaxSlice,      \* the longest slice of strings that make can return
  Programs       \* subset of {"with return", "without return"}

\* A line of input: whether it begins with a '*', the number Sscanf finds behind
\* it, whether there are blanks around its text, and the fields of the text.
Line == [star : BOOLEAN, count : Int, pad : BOOLEAN, text : Seq(STRING)]
Plain(text) == [star |-> FALSE, count |-> 0, pad |-> FALSE, text |-> text]
LengthLine == Plain(<<"$n">>)

\* A command begins with a line, its fields or the number of the words that
\* follow.  A word is what a bulk string holds: of one line, or of several if
\* there are line ends in it.
CommandType == [line : Line, words : Seq(Seq(Line))]

\* The lines that a client writes: before each word comes its length.
Encode(c) ==
  LET lines[i \in 0 .. Len(c.words)] ==
        IF i = 0 THEN <<c.line>>
        ELSE lines[i - 1] \o <<LengthLine>> \o c.words[i]
  IN  lines[Len(c.words)]

ASSUME ServerAssumption ==
  /\ Commands \subseteq CommandType
  /\ MaxRequests \in Nat /\ MaxSlice \in Nat
  /\ Programs \subseteq {"with return", "without return"}

VARIABLES
  program,    \* the member of Programs that runs
  process,    \* "running", "returned" from main, "exited", "fatal" or "panicked"
  mainPc,     \* where main is
  accepted,   \* the connection Accept has returned and main has not yet added
  listener,   \* "none", "open" or "closed"
  sigCh,      \* signals buffered, at most one
  sigPc,      \* where the shutdown goroutine is
  quitCh,     \* closed or not
  wg,
  conn,       \* per connection: "none", "dialed", "up", "refused" or "closed"
  hungUp,     \* the client has closed its end
  input,      \* lines sent and not yet read
  handlerPc, request, response,      \* the handler's position and locals
  sent, executed, replies,           \* history of a connection
  cut,        \* history: the command in whose middle the client hung up, if any
  db,
  acked,      \* history: writes answered with +OK, by connection and place
  late        \* history: connections added after wg.Wait() had returned

clientVars == <<hungUp, sent, cut>>
handlerVars == <<handlerPc, request, response, executed, replies>>
mainVars == <<program, process, mainPc, accepted>>
shutdownVars == <<sigPc, quitCh>>
vars == <<mainVars, listener, sigCh, shutdownVars, wg, conn, input, clientVars,
          handlerVars, db, acked, late>>

NoConn == "no connection"
NoRequest == [cmd |-> <<>>, args |-> <<>>]

Init ==
  /\ program \in Programs
  /\ process = "running" /\ mainPc = "insert" /\ accepted = NoConn
  /\ listener = "none" /\ sigCh = 0 /\ sigPc = "signal" /\ quitCh = "open"
  /\ wg = 0
  /\ conn = [c \in Conns |-> "none"]
  /\ hungUp = [c \in Conns |-> FALSE]
  /\ input = [c \in Conns |-> <<>>]
  /\ handlerPc = [c \in Conns |-> "none"]
  /\ request = [c \in Conns |-> NoRequest]
  /\ response = [c \in Conns |-> <<>>]
  /\ sent = [c \in Conns |-> <<>>]
  /\ cut = [c \in Conns |-> <<>>]
  /\ executed = [c \in Conns |-> <<>>]
  /\ replies = [c \in Conns |-> <<>>]
  /\ db = [hist |-> <<>>, safe |-> 0]
  /\ acked = {} /\ late = {}

-----------------------------------------------------------------------------
(***************************************************************************)
(* What the code asks of Pebble.  Keys and values are texts.               *)
(***************************************************************************)

Write(key, val) == Append(db.hist, [key |-> key, val |-> val])

Read(key) ==
  LET at == SelectLastInSeq(db.hist, LAMBDA w : w.key = key)
  IN  IF at = 0 THEN <<"$-1">> ELSE <<"$n">> \o db.hist[at].val

\* The WAL reaches the file by itself, some time after an unsynced write.
LogFlush ==
  /\ \E n \in db.safe + 1 .. Len(db.hist) : db' = [db EXCEPT !.safe = n]
  /\ UNCHANGED <<mainVars, listener, sigCh, shutdownVars, wg, conn, input,
                 clientVars, handlerVars, acked, late>>

-----------------------------------------------------------------------------
(***************************************************************************)
(* main.                                                                   *)
(***************************************************************************)

\* client.Insert("1", arr), a synced write ...
DemoInsert ==
  /\ mainPc = "insert"
  /\ mainPc' = "get"
  /\ db' = [hist |-> Write(<<"1">>, <<"vector">>), safe |-> Len(db.hist) + 1]
  /\ UNCHANGED <<program, process, accepted, listener, sigCh, shutdownVars, wg,
                 conn, input, clientVars, handlerVars, acked, late>>

\* ... and client.Get("1"), printed; then main returns, as it is now.
DemoGet ==
  /\ mainPc = "get"
  /\ \/ program = "with return" /\ process' = "returned" /\ mainPc' = "end"
     \/ program = "without return" /\ mainPc' = "listen" /\ UNCHANGED process
  /\ UNCHANGED <<program, accepted, listener, sigCh, shutdownVars, wg, conn,
                 input, clientVars, handlerVars, db, acked, late>>

\* net.Listen, signal.Notify and the start of the shutdown goroutine; log.Fatalf
\* if the port is taken.
Listen ==
  /\ mainPc = "listen"
  /\ \/ mainPc' = "accept" /\ listener' = "open" /\ UNCHANGED process
     \/ mainPc' = "end" /\ process' = "fatal" /\ UNCHANGED listener
  /\ UNCHANGED <<program, accepted, sigCh, shutdownVars, wg, conn, input,
                 clientVars, handlerVars, db, acked, late>>

\* Once the listener is closed Accept fails and the loop goes round for good.
Accept(c) ==
  /\ mainPc = "accept" /\ listener = "open"
  /\ conn[c] = "dialed"
  /\ conn' = [conn EXCEPT ![c] = "up"]
  /\ accepted' = c
  /\ mainPc' = "add"
  /\ UNCHANGED <<program, process, listener, sigCh, shutdownVars, wg, input,
                 clientVars, handlerVars, db, acked, late>>

\* wg.Add(1) and go handleConnection.
AddAndGo ==
  /\ mainPc = "add"
  /\ mainPc' = "accept"
  /\ wg' = wg + 1
  /\ handlerPc' = [handlerPc EXCEPT ![accepted] = "parse"]
  /\ accepted' = NoConn
  /\ late' = IF sigPc \in {"flush", "exit"} THEN late \cup {accepted} ELSE late
  /\ UNCHANGED <<program, process, listener, sigCh, shutdownVars, conn, input,
                 clientVars, request, response, executed, replies, db, acked>>

-----------------------------------------------------------------------------
(***************************************************************************)
(* parseRESP on the lines that have come in: what it consumes and returns. *)
(* The lines of the lengths are skipped, so that a word of several lines   *)
(* is read as a word and more lines; TrimSpace leaves the text of a line.  *)
(***************************************************************************)

Lower(w) == CASE w = <<"PING">> -> <<"ping">> [] w = <<"SET">> -> <<"set">>
              [] w = <<"GET">> -> <<"get">> [] OTHER -> w

\* make([]string, 0, numArgs) panics, and nobody recovers.
PanicsInMake(lines) ==
  lines # <<>> /\ lines[1].star /\ lines[1].count \notin 0 .. MaxSlice

\* Lines the command at the front takes.
LinesNeeded(lines) == IF lines[1].star THEN 1 + 2 * lines[1].count ELSE 1

Complete(lines) ==
  lines # <<>> /\ ~PanicsInMake(lines) /\ Len(lines) >= LinesNeeded(lines)

WellFormed(lines) ==
  IF lines[1].star THEN lines[1].count > 0 ELSE lines[1].text # <<>>

Request(words, lower) ==
  [cmd |-> IF lower THEN Lower(words[1]) ELSE words[1], args |-> Tail(words)]

Fields(line) == [i \in DOMAIN line.text |-> <<line.text[i]>>]

\* Mutant: the length line is taken for the argument.
ParsedLengths(lines) ==
  IF lines[1].star
  THEN Request([i \in 1 .. lines[1].count |-> lines[2 * i].text], TRUE)
  ELSE Request(Fields(lines[1]), FALSE)

\* An array's words come from every second line, and only an array's command
\* is put in lower case.
Parsed(lines) ==
  IF lines[1].star
  THEN Request([i \in 1 .. lines[1].count |-> lines[2 * i + 1].text], TRUE)
  ELSE Request(Fields(lines[1]), FALSE)

ParseCommand(c) ==
  /\ handlerPc[c] = "parse"
  /\ Complete(input[c]) /\ WellFormed(input[c])
  /\ request' = [request EXCEPT ![c] = Parsed(input[c])]
  /\ input' = [input EXCEPT ![c] = SubSeq(@, LinesNeeded(@) + 1, Len(@))]
  /\ handlerPc' = [handlerPc EXCEPT ![c] = "command"]
  /\ UNCHANGED <<mainVars, listener, sigCh, shutdownVars, wg, conn, clientVars,
                 response, executed, replies, db, acked, late>>

\* An empty command, or the end of the input: -ERR, then the deferred close.
ParseError(c) ==
  /\ handlerPc[c] = "parse"
  /\ \/ Complete(input[c]) /\ ~WellFormed(input[c])
     \/ hungUp[c] /\ ~Complete(input[c]) /\ ~PanicsInMake(input[c])
  /\ input' = [input EXCEPT ![c] = <<>>]
  /\ replies' = [replies EXCEPT ![c] = Append(@, <<"-ERR parse">>)]
  /\ handlerPc' = [handlerPc EXCEPT ![c] = "close"]
  /\ UNCHANGED <<mainVars, listener, sigCh, shutdownVars, wg, conn, clientVars,
                 request, response, executed, db, acked, late>>

\* A count that make does not take ends the process.
ParsePanic(c) ==
  /\ handlerPc[c] = "parse"
  /\ PanicsInMake(input[c])
  /\ process' = "panicked"
  /\ UNCHANGED <<program, mainPc, accepted, listener, sigCh, shutdownVars, wg, conn,
                 input, clientVars, handlerVars, db, acked, late>>

-----------------------------------------------------------------------------
(***************************************************************************)
(* handleCommand, the reply, and the end of handleConnection.              *)
(***************************************************************************)

\* The response to r; a set has written by then, without a sync.
Respond(r) ==
  CASE r.cmd = <<"ping">> -> <<"+PONG">>
    [] r.cmd = <<"set">> /\ Len(r.args) = 2 -> <<"+OK">>
    [] r.cmd = <<"get">> /\ Len(r.args) = 1 -> Read(r.args[1])
    [] r.cmd = <<"set">> /\ Len(r.args) # 2 -> <<"-ERR arity">>
    [] r.cmd = <<"get">> /\ Len(r.args) # 1 -> <<"-ERR arity">>
    [] OTHER -> <<"-ERR unknown">>

HandleCommand(c) ==
  LET r == request[c] IN
  /\ handlerPc[c] = "command"
  /\ response' = [response EXCEPT ![c] = Respond(r)]
  /\ db' = IF r.cmd = <<"set">> /\ Len(r.args) = 2
           THEN [db EXCEPT !.hist = Write(r.args[1], r.args[2])]
           ELSE db
  /\ executed' = [executed EXCEPT ![c] = Append(@, [req |-> r, at |-> Len(db'.hist)])]
  /\ handlerPc' = [handlerPc EXCEPT ![c] = "reply"]
  /\ UNCHANGED <<mainVars, listener, sigCh, shutdownVars, wg, conn, input,
                 clientVars, request, replies, acked, late>>

Reply(c) ==
  /\ handlerPc[c] = "reply"
  /\ replies' = [replies EXCEPT ![c] = Append(@, response[c])]
  /\ acked' = IF response[c] = <<"+OK">> /\ ~hungUp[c]
              THEN acked \cup {[conn |-> c, at |-> Last(executed[c]).at]}
              ELSE acked
  /\ handlerPc' = [handlerPc EXCEPT ![c] = "parse"]
  /\ UNCHANGED <<mainVars, listener, sigCh, shutdownVars, wg, conn, input,
                 clientVars, request, response, executed, db, late>>

\* Mutant: no wg.Done().
CloseWithoutDone(c) ==
  /\ handlerPc[c] = "close"
  /\ handlerPc' = [handlerPc EXCEPT ![c] = "end"]
  /\ conn' = [conn EXCEPT ![c] = "closed"]
  /\ UNCHANGED <<mainVars, listener, sigCh, shutdownVars, wg, input, clientVars,
                 request, response, executed, replies, db, acked, late>>

\* The deferred conn.Close() and wg.Done(); the last Done lets Wait go on.
CloseConn(c) ==
  /\ handlerPc[c] = "close"
  /\ handlerPc' = [handlerPc EXCEPT ![c] = "end"]
  /\ conn' = [conn EXCEPT ![c] = "closed"]
  /\ wg' = wg - 1
  /\ sigPc' = IF sigPc = "asleep" /\ wg = 1 THEN "woken" ELSE sigPc
  /\ UNCHANGED <<mainVars, listener, sigCh, quitCh, input, clientVars,
                 request, response, executed, replies, db, acked, late>>

-----------------------------------------------------------------------------
(***************************************************************************)
(* Clients, which may hang up in the middle of a command.                  *)
(***************************************************************************)

Dial(c) ==
  /\ listener = "open" /\ conn[c] = "none"
  /\ conn' = [conn EXCEPT ![c] = "dialed"]
  /\ UNCHANGED <<mainVars, listener, sigCh, shutdownVars, wg, input, clientVars,
                 handlerVars, db, acked, late>>

Requests == MapThenSumSet(LAMBDA c : Len(sent[c]), Conns)

Send(c, cmd) ==
  /\ conn[c] \in {"dialed", "up"} /\ ~hungUp[c]
  /\ Requests < MaxRequests
  /\ sent' = [sent EXCEPT ![c] = Append(@, cmd)]
  /\ input' = [input EXCEPT ![c] = @ \o Encode(cmd)]
  /\ UNCHANGED <<mainVars, listener, sigCh, shutdownVars, wg, conn, hungUp, cut,
                 handlerVars, db, acked, late>>

HangUp(c) ==
  /\ conn[c] \in {"dialed", "up"} /\ ~hungUp[c]
  /\ hungUp' = [hungUp EXCEPT ![c] = TRUE]
  /\ \/ UNCHANGED <<input, cut>>
     \/ \E cmd \in Commands : /\ Requests < MaxRequests
                              /\ input' = [input EXCEPT ![c] = @ \o Front(Encode(cmd))]
                              /\ cut' = [cut EXCEPT ![c] = <<cmd>>]
  /\ UNCHANGED <<mainVars, listener, sigCh, shutdownVars, wg, conn, sent,
                 handlerVars, db, acked, late>>

-----------------------------------------------------------------------------
(***************************************************************************)
(* Shutdown.                                                               *)
(***************************************************************************)

\* SIGTERM or SIGINT; a second one is dropped while the first is buffered.
Signal ==
  /\ listener # "none" /\ sigCh = 0 /\ sigPc = "signal"
  /\ sigCh' = 1
  /\ UNCHANGED <<mainVars, listener, shutdownVars, wg, conn, input, clientVars,
                 handlerVars, db, acked, late>>

ReceiveSignal ==
  /\ sigPc = "signal" /\ sigCh = 1
  /\ sigCh' = 0
  /\ sigPc' = "quit"
  /\ UNCHANGED <<mainVars, listener, quitCh, wg, conn, input, clientVars,
                 handlerVars, db, acked, late>>

CloseQuit ==
  /\ sigPc = "quit"
  /\ quitCh' = "closed"
  /\ sigPc' = "listener"
  /\ UNCHANGED <<mainVars, listener, sigCh, wg, conn, input, clientVars,
                 handlerVars, db, acked, late>>

\* Connections nobody has accepted are reset.
CloseListener ==
  /\ sigPc = "listener"
  /\ listener' = "closed"
  /\ conn' = [c \in Conns |-> IF conn[c] = "dialed" THEN "refused" ELSE conn[c]]
  /\ sigPc' = "wait"
  /\ UNCHANGED <<mainVars, sigCh, quitCh, wg, input, clientVars, handlerVars, db,
                 acked, late>>

\* wg.Wait() returns if nobody is to be waited for, and else sleeps ...
WgWait ==
  /\ sigPc = "wait"
  /\ sigPc' = IF wg = 0 THEN "flush" ELSE "asleep"
  /\ UNCHANGED <<mainVars, listener, sigCh, quitCh, wg, conn, input, clientVars,
                 handlerVars, db, acked, late>>

\* ... until it is woken, and panics ("WaitGroup is reused before previous Wait
\* has returned") if it then finds that main has added another connection.
WgWake ==
  /\ sigPc = "woken"
  /\ IF wg = 0 THEN sigPc' = "flush" /\ UNCHANGED process
     ELSE process' = "panicked" /\ UNCHANGED sigPc
  /\ UNCHANGED <<program, mainPc, accepted, listener, sigCh, quitCh, wg, conn, input,
                 clientVars, handlerVars, db, acked, late>>

\* Mutant: no db.Flush().
ExitWithoutFlush ==
  /\ sigPc = "flush"
  /\ sigPc' = "exit"
  /\ UNCHANGED <<mainVars, listener, sigCh, quitCh, wg, conn, input, clientVars,
                 handlerVars, db, acked, late>>

Flush ==
  /\ sigPc = "flush"
  /\ db' = [db EXCEPT !.safe = Len(db.hist)]
  /\ sigPc' = "exit"
  /\ UNCHANGED <<mainVars, listener, sigCh, quitCh, wg, conn, input, clientVars,
                 handlerVars, acked, late>>

\* os.Exit(0): the deferred db.Close() does not run.
Exit ==
  /\ sigPc = "exit"
  /\ process' = "exited"
  /\ UNCHANGED <<program, mainPc, accepted, listener, sigCh, shutdownVars, wg,
                 conn, input, clientVars, handlerVars, db, acked, late>>

-----------------------------------------------------------------------------
MainStep == DemoInsert \/ DemoGet \/ Listen \/ AddAndGo \/ \E c \in Conns : Accept(c)

HandlerStep(c) ==
  \/ ParseCommand(c) \/ ParseError(c) \/ ParsePanic(c)
  \/ HandleCommand(c) \/ Reply(c) \/ CloseConn(c)

ShutdownStep ==
  \/ ReceiveSignal \/ CloseQuit \/ CloseListener \/ WgWait \/ WgWake
  \/ Flush \/ Exit

ClientStep(c) == Dial(c) \/ HangUp(c) \/ \E cmd \in Commands : Send(c, cmd)

Next ==
  /\ process = "running"
  /\ \/ MainStep \/ ShutdownStep \/ Signal \/ LogFlush
     \/ \E c \in Conns : HandlerStep(c) \/ ClientStep(c)

Spec == Init /\ [][Next]_vars

Running(A) == process = "running" /\ A

\* Goroutines run; a client need do nothing.
Fairness ==
  /\ WF_vars(Running(MainStep)) /\ WF_vars(Running(ShutdownStep))
  /\ \A c \in Conns : WF_vars(Running(HandlerStep(c)))

\* Clients hang up in the end.
Patience == \A c \in Conns : WF_vars(Running(HangUp(c)))

-----------------------------------------------------------------------------
(***************************************************************************)
(* Properties.                                                             *)
(***************************************************************************)

\* A command that parseRESP can follow: each of its words is one line, and an
\* array, which alone may begin with a '*', has as many words as it says.
Framed(cmd) ==
  /\ \A i \in DOMAIN cmd.words : Len(cmd.words[i]) = 1
  /\ Len(cmd.words) = IF cmd.line.star THEN cmd.line.count ELSE 0

\* What the client asked for, but for blanks around a word.
Meaning(cmd) ==
  IF cmd.line.star
  THEN Request([i \in DOMAIN cmd.words |-> cmd.words[i][1].text], TRUE)
  ELSE Request(Fields(cmd.line), FALSE)

\* All that the client wrote, up to its i-th command.
FramedUpTo(c, i) ==
  \A k \in 1 .. i : k <= Len(sent[c] \o cut[c]) => Framed((sent[c] \o cut[c])[k])

\* parseRESP, which skips the lengths, keeps in step with the client however
\* commands are mixed and pipelined, as long as no word has a line end in it: the
\* n-th command executed is the n-th sent, whole, and a command cut off by a
\* hang-up is never executed.  Blanks around a word are lost.
ExecutedAsSent ==
  \A c \in Conns : \A i \in 1 .. Len(executed[c]) :
    FramedUpTo(c, i) => i <= Len(sent[c]) /\ executed[c][i].req = Meaning(sent[c][i])

\* "Handle RESP arrays (multi-line commands like SET key value)": a bulk string
\* may hold any bytes, and a command that was sent is executed at most once.
ExecutedOnce == \A c \in Conns : Len(executed[c]) <= Len(sent[c] \o cut[c])

\* A set that was answered with +OK is in the store after a shutdown, although
\* it was not synced, when its connection was added before wg.Wait() returned.
GracefulDurable ==
  process = "exited" =>
    \A a \in acked : a.conn \notin late => a.at <= db.safe

\* main can add a connection between the last wg.Done() and the return of
\* wg.Wait().
AddsLate == accepted # NoConn /\ sigPc = "woken"

\* A shutdown comes to its end if clients hang up, no count makes make panic and
\* no connection is added just as wg.Wait() is about to return: each connection
\* is waited for and counted down once, on every way out of its handler.
ShutdownCompletes ==
  [](~AddsLate /\ \A c \in Conns : ~PanicsInMake(input[c])) =>
    (sigCh = 1 ~> process = "exited")

=============================================================================
