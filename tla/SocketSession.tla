---------------------------- MODULE SocketSession ----------------------------
(***************************************************************************)
(* A calculator's session with DFT-FE over TCP: SocketBackend (the server  *)
(* side, Python) with its MessageChannel, the engine processes it launches *)
(* and the byte streams between them.                                      *)
(*                                                                         *)
(* Messages are newline-terminated lines.  Each is carried by two pieces,  *)
(* the second of which ends with the newline, and a read returns any       *)
(* number of the pieces that have arrived.  The driver's program calls     *)
(* compute() and close() in any order; when Interrupts holds, a call that  *)
(* blocks may be left by an exception (KeyboardInterrupt), as in a         *)
(* notebook, and the program goes on using the backend.                    *)
(***************************************************************************)
EXTENDS Naturals, Sequences

CONSTANTS
  MaxLaunches,  \* bound: engine processes launched in one history
  MaxCalls,     \* bound: calls of compute()
  Interrupts    \* blocking calls may be interrupted

ASSUME ConstantsOK ==
  MaxLaunches \in Nat /\ MaxCalls \in Nat /\ Interrupts \in BOOLEAN

Processes == 1..MaxLaunches   \* the order of launching; 0 stands for None
Ready == 0                    \* the handshake line
Requests == 1..MaxCalls       \* the request of the n-th call, and its response
Exit == MaxCalls + 1          \* {"cmd": "exit"}
Messages == 0..Exit

VARIABLES
  call,      \* where the driver's program is: "none", or inside the backend
  outcome,   \* how its last call ended
  asked,     \* number of calls of compute() so far
  got,       \* request whose response compute() returned last
  started,   \* SocketBackend._started
  server,    \* _server listens
  conn,      \* _conn: the process at its other end
  chan,      \* _chan, likewise
  buf,       \* MessageChannel._buf
  proc,      \* _proc
  eng,       \* what each engine process does
  work,      \* the request it computes
  line,      \* data of receive_data, while incomplete
  link,      \* its connection
  toEngine,  \* pieces under way to each engine
  toDriver,  \* pieces under way from it
  executed   \* the last request an engine started to compute

driverVars == <<call, outcome, asked, got, started, server, conn, chan, buf, proc>>
engineVars == <<eng, work, line, executed>>
wireVars == <<link, toEngine, toDriver>>
vars == <<driverVars, engineVars, wireVars>>

Pieces == [of : Messages, ends : BOOLEAN]
Message(m) == <<[of |-> m, ends |-> FALSE], [of |-> m, ends |-> TRUE]>>
Complete(data) == \E i \in DOMAIN data : data[i].ends
\* Length of the first line of data.
FirstLine(data) ==
  CHOOSE i \in DOMAIN data : data[i].ends /\ \A j \in 1..(i - 1) : ~data[j].ends
Take(data, n) == SubSeq(data, 1, n)
Drop(data, n) == SubSeq(data, n + 1, Len(data))

Alive(p) == eng[p] \notin {"unborn", "exited"}
Queued == {p \in Processes : link[p] = "queued"}
Cut(l, gone) == [p \in Processes |-> IF p \in gone THEN "cut" ELSE l[p]]

Init ==
  /\ call = "none" /\ outcome = "none" /\ asked = 0 /\ got = 0
  /\ started = FALSE /\ server = FALSE
  /\ conn = 0 /\ chan = 0 /\ buf = <<>> /\ proc = 0
  /\ eng = [p \in Processes |-> "unborn"]
  /\ work = [p \in Processes |-> 0]
  /\ line = [p \in Processes |-> <<>>]
  /\ link = [p \in Processes |-> "none"]
  /\ toEngine = [p \in Processes |-> <<>>]
  /\ toDriver = [p \in Processes |-> <<>>]
  /\ executed = 0
-----------------------------------------------------------------------------
(***************************************************************************)
(* The driver: compute().                                                  *)
(***************************************************************************)
Returns(how) == call' = "none" /\ outcome' = how

Compute ==
  /\ call = "none" /\ asked < MaxCalls
  /\ started \/ (\E p \in Processes : eng[p] = "unborn")
  /\ asked' = asked + 1
  /\ call' = IF started THEN "send" ELSE "launch"
  /\ UNCHANGED <<outcome, got, started, server, conn, chan, buf, proc>>
  /\ UNCHANGED <<engineVars, wireVars>>

\* start(): a new listening socket, on the port of the last one, which is
\* closed with the connections in its backlog; then a new process.
Launch ==
  /\ call = "launch"
  /\ server' = TRUE
  /\ link' = Cut(link, Queued)
  /\ \E p \in Processes :
       /\ eng[p] = "unborn" /\ \A q \in 1..(p - 1) : eng[q] # "unborn"
       /\ proc' = p
       /\ eng' = [eng EXCEPT ![p] = "booting"]
  /\ call' = "accept"
  /\ UNCHANGED <<outcome, asked, got, started, conn, chan, buf, work, line, executed>>
  /\ UNCHANGED <<toEngine, toDriver>>

\* The host does not resolve, or the command does not run.
LaunchFails ==
  /\ call = "launch"
  /\ server' = TRUE
  /\ link' = Cut(link, Queued)
  /\ Returns("error")
  /\ UNCHANGED <<asked, got, started, conn, chan, buf, proc, engineVars>>
  /\ UNCHANGED <<toEngine, toDriver>>

\* accept(): the connection it replaces, if any, is closed with it.
Accept ==
  /\ call = "accept"
  /\ \E p \in Queued :
       /\ conn' = p /\ chan' = p /\ buf' = <<>>
       /\ link' = [Cut(link, {conn}) EXCEPT ![p] = "open"]
  /\ call' = "handshake"
  /\ UNCHANGED <<outcome, asked, got, started, server, proc>>
  /\ UNCHANGED <<engineVars, toEngine, toDriver>>

\* _read_line: whatever has arrived is kept until a line is complete.
Receive(n) ==
  /\ call \in {"handshake", "await"}
  /\ ~Complete(buf) /\ chan = conn /\ conn # 0
  /\ buf' = buf \o Take(toDriver[conn], n)
  /\ toDriver' = [toDriver EXCEPT ![conn] = Drop(@, n)]
  /\ UNCHANGED <<call, outcome, asked, got, started, server, conn, chan, proc>>
  /\ UNCHANGED <<engineVars, link, toEngine>>

ReceiveSome == conn # 0 /\ \E n \in 1..Len(toDriver[conn]) : Receive(n)

\* The handshake's text is not checked beyond a warning.
Handshake ==
  /\ call = "handshake" /\ Complete(buf)
  /\ buf' = Drop(buf, FirstLine(buf))
  /\ started' = TRUE
  /\ call' = "send"
  /\ UNCHANGED <<outcome, asked, got, server, conn, chan, proc, engineVars, wireVars>>

\* recv() returns no data: start() and compute() raise, and nothing is undone.
PeerClosed == conn # 0 /\ link[conn] = "cut" /\ toDriver[conn] = <<>>
\* Mutant of ConnectionLost: reads again when there is no data.
ConnectionLostRetries ==
  /\ call \in {"handshake", "await"}
  /\ ~Complete(buf) /\ PeerClosed
  /\ UNCHANGED vars

ConnectionLost ==
  /\ call \in {"handshake", "await"}
  /\ ~Complete(buf) /\ PeerClosed
  /\ Returns("error")
  /\ UNCHANGED <<asked, got, started, server, conn, chan, buf, proc, engineVars, wireVars>>

HasExited == proc # 0 /\ eng[proc] = "exited"   \* _proc.poll()

\* compute() looks at the process before it sends.
FindsExited ==
  /\ call = "send"
  /\ HasExited
  /\ Returns("error")
  /\ UNCHANGED <<asked, got, started, server, conn, chan, buf, proc, engineVars, wireVars>>

Sends(m) ==
  toEngine' = IF link[conn] = "open"
                THEN [toEngine EXCEPT ![conn] = @ \o Message(m)] ELSE toEngine

SendRequest ==
  /\ call = "send"
  /\ ~HasExited
  /\ conn # 0 /\ Sends(asked)
  /\ call' = "await"
  /\ UNCHANGED <<outcome, asked, got, started, server, conn, chan, buf, proc>>
  /\ UNCHANGED <<engineVars, link, toDriver>>

\* The connection was closed by a close() that did not finish.
SendFails ==
  /\ call = "send"
  /\ ~HasExited
  /\ conn = 0
  /\ Returns("error")
  /\ UNCHANGED <<asked, got, started, server, conn, chan, buf, proc, engineVars, wireVars>>

\* Mutant of Answered: the line stays in the buffer.
AnsweredKeepsLine ==
  /\ call = "await" /\ Complete(buf)
  /\ got' = buf[FirstLine(buf)].of
  /\ buf' = buf
  /\ Returns("answer")
  /\ UNCHANGED <<asked, started, server, conn, chan, proc, engineVars, wireVars>>

Answered ==
  /\ call = "await" /\ Complete(buf)
  /\ got' = buf[FirstLine(buf)].of
  /\ buf' = Drop(buf, FirstLine(buf))
  /\ Returns("answer")
  /\ UNCHANGED <<asked, started, server, conn, chan, proc, engineVars, wireVars>>
-----------------------------------------------------------------------------
(***************************************************************************)
(* The driver: close(), called by the program or by a start() that timed   *)
(* out, and interrupts.                                                    *)
(***************************************************************************)
\* Mutant of CloseSockets: the listening socket is forgotten.
CloseConnectionOnly(then) ==
  /\ IF conn # 0 THEN Sends(Exit) ELSE UNCHANGED toEngine
  /\ link' = Cut(link, Queued \cup {conn})
  /\ conn' = 0
  /\ call' = then
  /\ UNCHANGED <<outcome, asked, got, started, server, chan, buf, proc, engineVars, toDriver>>

CloseSockets(then) ==
  /\ IF conn # 0 THEN Sends(Exit) ELSE UNCHANGED toEngine
  /\ link' = Cut(link, Queued \cup {conn})
  /\ conn' = 0 /\ server' = FALSE
  /\ call' = then
  /\ UNCHANGED <<outcome, asked, got, started, chan, buf, proc, engineVars, toDriver>>

Close == call = "none" /\ CloseSockets("reap")

\* accept() timed out.  The engine may have connected since.
AcceptTimeout == call = "accept" /\ CloseSockets("abandon")

\* wait(timeout=10) returned, or there is no process.
Reaped ==
  /\ call \in {"reap", "abandon"}
  /\ proc # 0 => HasExited
  /\ proc' = 0 /\ chan' = 0 /\ started' = FALSE /\ buf' = <<>>
  /\ Returns(IF call = "reap" THEN "closed" ELSE "error")
  /\ UNCHANGED <<asked, got, server, conn, engineVars, wireVars>>

\* wait() timed out.
Kill ==
  /\ call \in {"reap", "abandon"}
  /\ proc # 0 /\ ~HasExited
  /\ eng' = [eng EXCEPT ![proc] = "exited"]
  /\ link' = Cut(link, {proc})
  /\ UNCHANGED <<driverVars, work, line, executed, toEngine, toDriver>>

Interrupt ==
  /\ Interrupts
  /\ call \in {"accept", "handshake", "await", "reap", "abandon"}
  /\ Returns("interrupted")
  /\ UNCHANGED <<asked, got, started, server, conn, chan, buf, proc, engineVars, wireVars>>

Driver ==
  \/ Compute \/ Launch \/ LaunchFails \/ Accept \/ ReceiveSome \/ Handshake
  \/ ConnectionLost \/ FindsExited \/ SendRequest \/ SendFails \/ Answered
  \/ Close \/ AcceptTimeout \/ Reaped \/ Kill \/ Interrupt
-----------------------------------------------------------------------------
(***************************************************************************)
(* The engine: socketDriver::run.                                          *)
(***************************************************************************)
\* connect_socket, which sends the handshake at once.
Connect(p) ==
  /\ eng[p] = "booting" /\ server
  /\ eng' = [eng EXCEPT ![p] = "reading"]
  /\ link' = [link EXCEPT ![p] = "queued"]
  /\ toDriver' = [toDriver EXCEPT ![p] = Message(Ready)]
  /\ UNCHANGED <<driverVars, work, line, executed, toEngine>>

\* Ends, with its connection; the process is gone a little later.
Leaves(p) ==
  /\ eng' = [eng EXCEPT ![p] = "ending"]
  /\ link' = Cut(link, {p})

\* Ten retries of connect() failed, or the program never got that far.
ConnectFails(p) ==
  /\ eng[p] = "booting"
  /\ Leaves(p)
  /\ UNCHANGED <<driverVars, work, line, executed, toEngine, toDriver>>

\* receive_data: what follows the first line in the bytes read is dropped.
\* A line that lost its beginning names no atoms, and ends the loop.
ReadPart(p, n) ==
  LET data == line[p] \o Take(toEngine[p], n) IN
  /\ eng[p] = "reading"
  /\ ~Complete(data)
  /\ line' = [line EXCEPT ![p] = data]
  /\ toEngine' = [toEngine EXCEPT ![p] = Drop(@, n)]
  /\ UNCHANGED <<driverVars, eng, work, executed, link, toDriver>>

\* Mutant of ReadLine: every complete line is a request, the exit command too.
ReadLineRunsAll(p, n) ==
  LET data == line[p] \o Take(toEngine[p], n)
      first == Take(data, FirstLine(data))
  IN
  /\ eng[p] = "reading"
  /\ Complete(data)
  /\ line' = [line EXCEPT ![p] = <<>>]
  /\ toEngine' = [toEngine EXCEPT ![p] = Drop(@, n)]
  /\ eng' = [eng EXCEPT ![p] = "computing"]
  /\ work' = [work EXCEPT ![p] = first[1].of]
  /\ executed' = first[1].of
  /\ UNCHANGED <<driverVars, link, toDriver>>

ReadLine(p, n) ==
  LET data == line[p] \o Take(toEngine[p], n)
      first == Take(data, FirstLine(data))
  IN
  /\ eng[p] = "reading"
  /\ Complete(data)
  /\ line' = [line EXCEPT ![p] = <<>>]
  /\ toEngine' = [toEngine EXCEPT ![p] = Drop(@, n)]
  /\ \/ \E r \in Requests :
          /\ first = Message(r)
          /\ eng' = [eng EXCEPT ![p] = "computing"]
          /\ work' = [work EXCEPT ![p] = r]
          /\ executed' = r
          /\ UNCHANGED link
     \/ /\ \A r \in Requests : first # Message(r)
        /\ Leaves(p)
        /\ UNCHANGED <<work, executed>>
  /\ UNCHANGED <<driverVars, toDriver>>

Read(p) == \E n \in 1..Len(toEngine[p]) : ReadPart(p, n) \/ ReadLine(p, n)

\* Mutant of ReadEnd: read() returned nothing, so it is tried again.
ReadEndRetries(p) ==
  /\ eng[p] = "reading"
  /\ link[p] = "cut" /\ toEngine[p] = <<>>
  /\ UNCHANGED vars

\* read() returns no data: receive_data makes it EXIT.
ReadEnd(p) ==
  /\ eng[p] = "reading"
  /\ link[p] = "cut" /\ toEngine[p] = <<>>
  /\ Leaves(p)
  /\ UNCHANGED <<driverVars, work, line, executed, toEngine, toDriver>>

\* Mutant of Respond: the response is sent twice.
RespondTwice(p) ==
  /\ eng[p] = "computing"
  /\ eng' = [eng EXCEPT ![p] = "reading"]
  /\ work' = [work EXCEPT ![p] = 0]
  /\ toDriver' = IF link[p] = "cut" THEN toDriver
                 ELSE [toDriver EXCEPT ![p] = @ \o Message(work[p]) \o Message(work[p])]
  /\ UNCHANGED <<driverVars, line, executed, link, toEngine>>

\* send_data.  Nobody reads a response on a connection that was closed.
Respond(p) ==
  /\ eng[p] = "computing"
  /\ eng' = [eng EXCEPT ![p] = "reading"]
  /\ work' = [work EXCEPT ![p] = 0]
  /\ toDriver' = IF link[p] = "cut" THEN toDriver
                 ELSE [toDriver EXCEPT ![p] = @ \o Message(work[p])]
  /\ UNCHANGED <<driverVars, line, executed, link, toEngine>>

\* An assertion fails, a job limit is reached, a write gets SIGPIPE.
Die(p) ==
  /\ eng[p] \in {"reading", "computing"}
  /\ Leaves(p)
  /\ UNCHANGED <<driverVars, work, line, executed, toEngine, toDriver>>

Gone(p) ==
  /\ eng[p] = "ending"
  /\ eng' = [eng EXCEPT ![p] = "exited"]
  /\ UNCHANGED <<driverVars, work, line, executed, wireVars>>

Engine(p) ==
  \/ Connect(p) \/ ConnectFails(p) \/ Read(p) \/ ReadEnd(p) \/ Respond(p)
  \/ Die(p) \/ Gone(p)

Next == Driver \/ \E p \in Processes : Engine(p)

\* A call that may go on does, timeouts expire, an engine reads what arrived,
\* finishes its computation (the SCF loop is bounded) and stops retrying.
\* The driver's program owes no further calls, nobody has to interrupt or die.
Fairness ==
  /\ WF_vars(Launch \/ LaunchFails)
  /\ WF_vars(Accept) /\ WF_vars(AcceptTimeout)
  /\ WF_vars(ReceiveSome) /\ WF_vars(Handshake) /\ WF_vars(ConnectionLost)
  /\ WF_vars(FindsExited \/ SendRequest \/ SendFails) /\ WF_vars(Answered)
  /\ WF_vars(Reaped) /\ WF_vars(Kill)
  /\ \A p \in Processes :
       /\ WF_vars(Connect(p) \/ ConnectFails(p))
       /\ WF_vars(Read(p)) /\ WF_vars(ReadEnd(p)) /\ WF_vars(Respond(p))
       /\ WF_vars(Gone(p))

Spec == Init /\ [][Next]_vars /\ Fairness
-----------------------------------------------------------------------------
TypeOK ==
  /\ call \in {"none", "launch", "accept", "handshake", "send", "await", "reap", "abandon"}
  /\ outcome \in {"none", "answer", "error", "interrupted", "closed"}
  /\ asked \in 0..MaxCalls /\ got \in Messages /\ executed \in 0..MaxCalls
  /\ started \in BOOLEAN /\ server \in BOOLEAN
  /\ {conn, chan, proc} \subseteq 0..MaxLaunches
  /\ buf \in Seq(Pieces)
  /\ eng \in [Processes -> {"unborn", "booting", "reading", "computing", "ending", "exited"}]
  /\ work \in [Processes -> 0..MaxCalls]
  /\ link \in [Processes -> {"none", "queued", "open", "cut"}]
  /\ \A s \in {line, toEngine, toDriver} : s \in [Processes -> Seq(Pieces)]

\* "exchange one request/response per compute()" (socket.py): the response a
\* call of compute() returns is the response to the request of that call.
AnswerIsToThisCall == call = "none" /\ outcome = "answer" => got = asked

\* Every process that runs is the one the backend holds, so a close() that
\* returns leaves none behind and a restart never makes a second engine.
NoOrphans == \A p \in Processes : Alive(p) => proc = p

\* "Release all resources (process, sockets, files)" (base.py).
CloseReleasesAll ==
  call = "none" /\ outcome = "closed" =>
    /\ ~server /\ conn = 0
    /\ \A p \in Processes : ~Alive(p) /\ link[p] \in {"none", "cut"}

\* However stale an answer is, no response is returned twice or after a later one.
AnswersAdvance == [][Answered => got' > got]_vars

\* Whatever was interrupted before, no call of compute() or close() hangs.
CallsReturn == (call # "none") ~> (call = "none")

\* Once the driver has closed its sockets for good, every engine it ever
\* launched ends, also those it no longer knows about.
EnginesEnd ==
  []<>(server \/ conn # 0) \/ <>[](\A p \in Processes : ~Alive(p))
=============================================================================
