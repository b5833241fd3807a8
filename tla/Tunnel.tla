------------------------------- MODULE Tunnel -------------------------------
(***************************************************************************)
(* One WebSocket <-> guacd tunnel: a ClientConnection                      *)
(* (src/src/server/client-connection.ts) and the GuacdClient it owns       *)
(* (src/src/server/guacd-client.ts), from ClientConnection.connect to the  *)
(* end of both sockets.                                                    *)
(*                                                                         *)
(* Every event handler runs to completion, so it is one action.  The one   *)
(* loop inside a handler is GuacamoleParser.receive, which hands the       *)
(* instructions of a TCP chunk to processInstruction one by one: rx holds  *)
(* the instructions still to be handed out, and no other handler runs      *)
(* until it is empty.                                                      *)
(*                                                                         *)
(* The browser, guacd and the two sockets are the environment.             *)
(***************************************************************************)
EXTENDS Integers, Sequences

CONSTANTS
    TimerSets,     \* the configurations to meet: sets of timers that are armed
    MaxBuffer,     \* MAX_SEND_BUFFER_BYTES, in client messages
    MaxMessages,   \* bound: messages the client sends
    MaxInstr,      \* bound: instructions guacd sends
    Peers,         \* the guacds to meet: "silent" (keeps to its protocol), "unruly"
    ErrorHandled   \* the application listens to the server's `error` event

AllTimers == {"connect", "guacdIdle", "wsIdle", "ttl"}

ASSUME TunnelAssumption ==
    /\ TimerSets \subseteq SUBSET AllTimers
    /\ MaxBuffer \in Nat /\ MaxMessages \in Nat /\ MaxInstr \in Nat
    /\ Peers \subseteq {"silent", "unruly"} /\ ErrorHandled \in BOOLEAN

VARIABLES
    bridge,      \* ClientConnection.state
    guacd,       \* GuacdClient.state
    tcp,         \* the socket to guacd
    timers,      \* the timers that are armed
    quiet,       \* the idle timers whose period has passed without activity
    ws,          \* webSocket.readyState
    buffer,      \* GuacdClient.sendBuffer
    bufferSize,  \* GuacdClient.sendBufferSize
    received,    \* number of messages the client has sent to the bridge
    toGuacd,     \* what has been written to guacd
    toClient,    \* what has been sent to the client
    rx,          \* rest of the chunk in the parser
    wire,        \* instructions guacd has sent and TCP has not delivered
    sentCount,   \* number of instructions guacd has sent
    peer,        \* guacd's place in its protocol
    events,      \* history: the events the bridge has emitted
    process      \* "gone" once an exception has left a handler of the bridge,
                 \* "unheard" once a stripped WebSocket has thrown its error

bridgeVars == <<bridge, ws, toClient, events>>
guacdVars == <<guacd, tcp, buffer, bufferSize, toGuacd>>
timeVars == <<timers, quiet>>
envVars == <<wire, sentCount, peer>>
vars == <<bridgeVars, guacdVars, timeVars, envVars, rx, received, process>>

Instructions == {"args", "ready", "empty", "error", "data"}
Select == <<"select", 0>>
Reply == <<"reply", 0>>       \* size, audio, video, image, timezone, connect
User(n) == <<"user", n>>      \* the n-th message of the client
UserMessages == {User(n) : n \in 1..MaxMessages}

\* The type invariant.  Nothing is written to a socket that is not connected.
TypeOK ==
    /\ bridge \in {"opening", "closed"}
    /\ guacd \in {"opening", "open", "closed"}
    /\ tcp \in {"connecting", "up", "destroyed"}
    /\ timers \in SUBSET AllTimers
    /\ quiet \in SUBSET {"guacdIdle", "wsIdle"}
    /\ ws \in {"open", "closing", "closed"}
    /\ received \in 0..MaxMessages
    /\ sentCount \in 0..MaxInstr
    /\ buffer \in Seq(UserMessages)
    /\ bufferSize \in Nat
    /\ toGuacd \in Seq({Select, Reply} \cup UserMessages)
    /\ toClient \in Seq({"id", "data", "error", "failure"})
    /\ rx \in Seq(Instructions)
    /\ wire \in Seq(Instructions)
    /\ peer \in {"unruly", "silent", "asked", "served", "failed"}
    /\ events \in Seq({"ready", "error", "close"})
    /\ process \in {"running", "gone", "unheard"}
    /\ tcp = "connecting" => toGuacd = <<>> /\ wire = <<>>

Init ==
    /\ bridge = "opening"
    /\ guacd = "opening"
    /\ tcp = "connecting"
    /\ timers \in TimerSets
    /\ quiet = {}
    /\ ws = "open"
    /\ buffer = <<>> /\ bufferSize = 0
    /\ received = 0
    /\ toGuacd = <<>> /\ toClient = <<>>
    /\ rx = <<>> /\ wire = <<>> /\ sentCount = 0 /\ peer \in Peers
    /\ events = <<>>
    /\ process = "running"

----------------------------------------------------------------------------
(* Teardown.                                                               *)

\* The process is alive and no handler is running.
Idle == rx = <<>> /\ process = "running"

\* Mutant: the socket is not destroyed.
ShutKeepsSocket ==
    /\ guacd' = "closed"
    /\ UNCHANGED tcp

\* GuacdClient.close, but for the `close` event.
ShutGuacd ==
    /\ guacd' = "closed"
    /\ tcp' = "destroyed"

\* Mutant: the lifetime timer is not cleared.
BridgeTimersNoTtl == {"wsIdle"}

\* The timers GuacdClient.close stops and those ClientConnection.close stops.
GuacdTimers == {"connect", "guacdIdle"}
BridgeTimers == {"wsIdle", "ttl"}

\* Mutant: the WebSocket is left open.
WsLeftOpen(w) == w

WsAfterClose(w) == IF w = "open" THEN "closing" ELSE w

\* ClientConnection.close and GuacdClient.close call one another: each
\* returns at once when it has already run, so whichever is entered first the
\* pair has one effect.  `notes` are the events emitted on the way, w the
\* readyState found.
TearDown(w, notes) ==
    /\ ShutGuacd
    /\ IF bridge = "closed"
       THEN UNCHANGED <<bridge, ws, timers, events>>
       ELSE /\ bridge' = "closed"
            /\ ws' = WsAfterClose(w)
            /\ timers' = timers \ (GuacdTimers \cup BridgeTimers)
            /\ events' = events \o notes \o <<"close">>

\* ClientConnection.sendToWebSocket.
Deliverable(w) == bridge # "closed" /\ w = "open"
Sent(w, i) == IF Deliverable(w) THEN Append(toClient, i) ELSE toClient

\* Mutant: handleError reports the error and does not close.
FailKeepsOpen(w) ==
    /\ toClient' = Sent(w, "failure")
    /\ events' = Append(events, "error")
    /\ ws' = w
    /\ UNCHANGED <<bridge, guacd, tcp, timers, process>>

\* handleError of either class: the client is told, `error` is emitted and both
\* ends are closed.  An `error` nobody listens to is thrown instead.
Fail(w) ==
    /\ toClient' = Sent(w, "failure")
    /\ IF ErrorHandled
       THEN TearDown(w, <<"error">>) /\ UNCHANGED process
       ELSE /\ process' = "gone"
            /\ ws' = w
            /\ UNCHANGED <<bridge, guacd, tcp, timers, events>>

\* Mutant: the client's `close` event does not reach the bridge.
QuitUnheard ==
    /\ ShutGuacd
    /\ UNCHANGED <<bridgeVars, timers, process>>

\* close(error) without an `error` event.
Quit ==
    /\ TearDown(ws, <<>>)
    /\ UNCHANGED <<toClient, process>>

----------------------------------------------------------------------------
(* GuacdClient: the TCP socket.                                            *)

\* Mutant: connecting stops the inactivity check as well.
TimersOnceConnectedNone == timers \ GuacdTimers

\* `setTimeout(0)` of handleConnect.
TimersOnceConnected == timers \ {"connect"}

HandleConnect ==
    /\ Idle
    /\ tcp = "connecting"
    /\ tcp' = "up"
    /\ timers' = TimersOnceConnected
    /\ quiet' = quiet \ {"guacdIdle"}
    /\ toGuacd' = Append(toGuacd, Select)
    /\ UNCHANGED <<bridgeVars, guacd, buffer, bufferSize, envVars, rx, received, process>>

\* handleError: ECONNREFUSED, ENOTFOUND, ETIMEDOUT, ECONNRESET or any other.
HandleError ==
    /\ Idle
    /\ tcp \in {"connecting", "up"}
    /\ Fail(ws)
    /\ UNCHANGED <<buffer, bufferSize, toGuacd, quiet, envVars, rx, received>>

\* handleClose: guacd has hung up, after all it had sent was delivered.
HandleClose ==
    /\ Idle
    /\ tcp = "up"
    /\ wire = <<>>
    /\ Quit
    /\ UNCHANGED <<buffer, bufferSize, toGuacd, quiet, envVars, rx, received>>

\* The callback of connection.write reports an error.
WriteFails ==
    /\ Idle
    /\ tcp = "up"
    /\ toGuacd # <<>>
    /\ Quit
    /\ UNCHANGED <<buffer, bufferSize, toGuacd, quiet, envVars, rx, received>>

\* handleData: a chunk of n instructions enters the parser.
HandleData(n) ==
    /\ Idle
    /\ tcp = "up"
    /\ rx' = SubSeq(wire, 1, n)
    /\ wire' = SubSeq(wire, n + 1, Len(wire))
    /\ quiet' = quiet \ {"guacdIdle"}
    /\ UNCHANGED <<bridgeVars, guacdVars, timers, sentCount, peer, received, process>>

\* handleData with a chunk that overflows the parser's buffer.
ParserOverflow ==
    /\ Idle
    /\ tcp = "up"
    /\ wire # <<>>
    /\ wire' = <<>>
    /\ quiet' = quiet \ {"guacdIdle"}
    /\ Quit
    /\ UNCHANGED <<buffer, bufferSize, toGuacd, sentCount, peer, rx, received>>

----------------------------------------------------------------------------
(* GuacdClient.processInstruction, on the next instruction of the chunk.   *)

Parsing(i) ==
    /\ process = "running"
    /\ rx # <<>>
    /\ Head(rx) = i
    /\ rx' = Tail(rx)
    /\ UNCHANGED <<envVars, received>>

\* Mutant: send does not return first when the client is CLOSED.
SendThrowsAlways(g, socket) == socket # "up"

\* send in state g: returns when CLOSED, throws when there is no socket, as in a
\* client that was closed and has been reopened.
SendThrows(g, socket) == g # "closed" /\ socket # "up"

\* An exception that no handler catches ends the process.
Survives(throws) == IF throws THEN "gone" ELSE "running"

\* sendHandshakeReply.
OnArgs ==
    /\ Parsing("args")
    /\ toGuacd' = IF tcp = "up" /\ guacd # "closed" THEN Append(toGuacd, Reply) ELSE toGuacd
    /\ process' = Survives(SendThrows(guacd, tcp))
    /\ UNCHANGED <<bridgeVars, guacd, tcp, buffer, bufferSize, timeVars>>

\* The states a `ready` instruction opens: OPENING, but CLOSED too.
Opens(g) == g # "open"

\* Mutant: the buffer is cleared before it is sent.
FlushedEmpty == toGuacd

Flushed == IF tcp = "up" THEN toGuacd \o buffer ELSE toGuacd

\* `ready`: the tunnel opens and what was buffered is flushed.
OnReady ==
    /\ Parsing("ready")
    /\ Opens(guacd)
    /\ guacd' = "open"
    /\ events' = Append(events, "ready")
    /\ toClient' = Sent(ws, "id")
    /\ buffer' = <<>> /\ bufferSize' = 0
    /\ toGuacd' = Flushed
    /\ process' = Survives(buffer # <<>> /\ SendThrows("open", tcp))
    /\ UNCHANGED <<bridge, ws, tcp, timeVars>>

\* `ready`, and the onConnect hook closes the connection: the flush finds the
\* client CLOSED and drops the buffer.
OnReadyClosedByHook ==
    /\ Parsing("ready")
    /\ guacd = "opening"
    /\ TearDown(ws, <<"ready">>)
    /\ buffer' = <<>> /\ bufferSize' = 0
    /\ process' = Survives(buffer # <<>> /\ SendThrows("closed", "destroyed"))
    /\ UNCHANGED <<toClient, toGuacd, quiet>>

\* A second `ready` is only passed on.
OnReadyAgain ==
    /\ Parsing("ready")
    /\ ~Opens(guacd)
    /\ toClient' = Sent(ws, "id")
    /\ UNCHANGED <<bridge, ws, events, guacdVars, timeVars, process>>

\* `ready` without an identifier is a handshake error.
OnEmptyReady ==
    /\ Parsing("empty")
    /\ IF guacd = "closed" THEN UNCHANGED <<bridgeVars, guacd, tcp, timers, process>>
                            ELSE Quit
    /\ UNCHANGED <<buffer, bufferSize, toGuacd, quiet>>

\* `error` before the tunnel is open: guacd refuses the connection.
OnErrorOpening ==
    /\ Parsing("error")
    /\ guacd = "opening"
    /\ Quit
    /\ UNCHANGED <<buffer, bufferSize, toGuacd, quiet>>

\* Everything else is forwarded.
OnForward ==
    /\ \E i \in {"data", "error"} :
        /\ Parsing(i)
        /\ i = "error" => guacd # "opening"
        /\ toClient' = Sent(ws, i)
    /\ UNCHANGED <<bridge, ws, events, guacdVars, timeVars, process>>

ProcessInstruction ==
    \/ OnArgs \/ OnReady \/ OnReadyClosedByHook \/ OnReadyAgain
    \/ OnEmptyReady \/ OnErrorOpening \/ OnForward

----------------------------------------------------------------------------
(* ClientConnection: the WebSocket.                                        *)

\* The bridge's listeners are on the WebSocket until close removes them.
Listening == bridge # "closed"

\* Mutant: the message that comes is not counted.
OverflowsLate == bufferSize > MaxBuffer

Overflows == bufferSize + 1 > MaxBuffer

\* Mutant: messages are never held back.
BuffersNever(g) == FALSE

\* Whether send(data, true) holds a message back until the tunnel opens.
Buffers(g) == g = "opening"

\* GuacdClient.send(data, true), by the state of the handshake.
HandleWsMessage ==
    /\ Idle
    /\ Listening
    /\ ws = "open"
    /\ received < MaxMessages
    /\ received' = received + 1
    /\ \/ /\ Buffers(guacd) /\ Overflows
          /\ Quit
          /\ quiet' = quiet \ {"wsIdle"}
          /\ UNCHANGED <<buffer, bufferSize, toGuacd>>
       \/ /\ Buffers(guacd) /\ ~Overflows
          /\ buffer' = Append(buffer, User(received'))
          /\ bufferSize' = bufferSize + 1
          /\ quiet' = quiet \ {"wsIdle"}
          /\ UNCHANGED <<bridgeVars, guacd, tcp, toGuacd, timers, process>>
       \/ /\ ~Buffers(guacd)
          /\ toGuacd' = Append(toGuacd, User(received'))
          /\ quiet' = {}
          /\ UNCHANGED <<bridgeVars, guacd, tcp, buffer, bufferSize, timers, process>>
    /\ UNCHANGED <<envVars, rx>>

\* The browser goes away, or answers the close of the bridge.
HandleWsClose ==
    /\ Idle
    /\ ws # "closed"
    /\ IF Listening
       THEN TearDown("closed", <<>>)
       ELSE ws' = "closed" /\ UNCHANGED <<bridge, guacd, tcp, timers, events>>
    /\ UNCHANGED <<toClient, buffer, bufferSize, toGuacd, quiet, envVars, rx, received, process>>

\* The browser starts the closing handshake (external: `ws` answers by itself).
ClientLeaves ==
    /\ Idle
    /\ ws = "open"
    /\ ws' = "closing"
    /\ UNCHANGED <<bridge, toClient, events, guacdVars, timeVars, envVars, rx, received, process>>

\* The WebSocket reports an error; `ws` leaves OPEN first when the peer is at fault.
HandleWsError(w) ==
    /\ Idle
    /\ Listening
    /\ ws # "closed"
    /\ w \in {ws, "closing"}
    /\ Fail(w)
    /\ UNCHANGED <<buffer, bufferSize, toGuacd, quiet, envVars, rx, received>>

\* close has stripped the WebSocket of its listeners, `error` included, while
\* `ws` still reads from it: the error of a bad frame (external) is thrown.  (A
\* WebSocket that has already reported an error, or whose peer has sent its
\* Close, reports none any more; the model does not tell these apart.)
StrippedWsError ==
    /\ Idle
    /\ ~Listening
    /\ ws = "closing"
    /\ process' = "unheard"
    /\ UNCHANGED <<bridgeVars, guacdVars, timeVars, envVars, rx, received>>

\* The callback of webSocket.send reports an error.
SendFails ==
    /\ Idle
    /\ Listening
    /\ toClient # <<>>
    /\ Quit
    /\ UNCHANGED <<buffer, bufferSize, toGuacd, quiet, envVars, rx, received>>

\* The server or a hook calls ClientConnection.close.
CloseByServer ==
    /\ Idle
    /\ Listening
    /\ Quit
    /\ UNCHANGED <<buffer, bufferSize, toGuacd, quiet, envVars, rx, received>>

----------------------------------------------------------------------------
(* Time.                                                                   *)

\* The period of an idle timer passes without activity on its side.
Elapse(t) ==
    /\ Idle
    /\ t \in timers \cap {"guacdIdle", "wsIdle"}
    /\ t \notin quiet
    /\ quiet' = quiet \cup {t}
    /\ UNCHANGED <<bridgeVars, guacdVars, timers, envVars, rx, received, process>>

\* Whether timer t, when it fires, ends the tunnel.
Due(t) ==
    CASE t = "connect" -> tcp = "connecting"
      [] t = "ttl" -> TRUE
      [] OTHER -> t \in quiet

TimerFires(t) ==
    /\ Idle
    /\ t \in timers
    /\ Due(t)
    /\ Quit
    /\ UNCHANGED <<buffer, bufferSize, toGuacd, quiet, envVars, rx, received>>

----------------------------------------------------------------------------
(* guacd (external).  A conformant guacd answers `select` with `args`, the *)
(* reply with `ready`, then sends data; it sends `error` at most once, and *)
(* nothing after it.  An unruly one sends any instruction at any time.     *)

Answers(i) ==
    CASE peer = "unruly" -> TRUE
      [] i = "args" -> peer = "silent" /\ Select \in {toGuacd[k] : k \in DOMAIN toGuacd}
      [] i = "ready" -> peer = "asked" /\ Reply \in {toGuacd[k] : k \in DOMAIN toGuacd}
      [] i = "data" -> peer = "served"
      [] i = "error" -> peer # "failed" /\ toGuacd # <<>>
      [] OTHER -> FALSE

After(i) ==
    IF peer = "unruly" \/ i \notin {"args", "ready", "error"} THEN peer
    ELSE [args |-> "asked", ready |-> "served", error |-> "failed"][i]

GuacdSends(i) ==
    /\ Idle
    /\ tcp = "up"
    /\ sentCount < MaxInstr
    /\ Answers(i)
    /\ wire' = Append(wire, i)
    /\ peer' = After(i)
    /\ sentCount' = sentCount + 1
    /\ UNCHANGED <<bridgeVars, guacdVars, timeVars, rx, received, process>>

----------------------------------------------------------------------------
SocketStep ==
    \/ HandleConnect \/ HandleError \/ HandleClose \/ WriteFails \/ ParserOverflow
    \/ \E n \in 1..Len(wire) : HandleData(n)

WebSocketStep ==
    \/ HandleWsMessage \/ ClientLeaves \/ HandleWsClose \/ SendFails
    \/ StrippedWsError
    \/ \E w \in {"open", "closing"} : HandleWsError(w)

TimeStep == \E t \in AllTimers : Elapse(t) \/ TimerFires(t)

Next ==
    \/ SocketStep
    \/ ProcessInstruction
    \/ WebSocketStep
    \/ CloseByServer
    \/ TimeStep
    \/ \E i \in Instructions : GuacdSends(i)

Spec == Init /\ [][Next]_vars

\* The parser's loop goes on, and time passes.
FairSpec == Spec /\ WF_vars(ProcessInstruction) /\ WF_vars(TimeStep)

----------------------------------------------------------------------------
(* Properties.                                                             *)

\* guacd keeps to its protocol.
Conformant == peer # "unruly"

\* A tunnel whose bridge is closed holds nothing: no TCP socket, no armed
\* timer, no open WebSocket, whichever of the two sides ended it and how.
TornDown ==
    bridge = "closed" => tcp = "destroyed" /\ timers = {} /\ ws # "open"

\* Nothing passes a bridge that is closed, in either direction, and it stays
\* closed: not even a `ready` that reopens its GuacdClient brings it back.
SilentOnceClosed ==
    [][bridge = "closed" => bridge' = "closed" /\ UNCHANGED <<toClient, toGuacd, tcp, timers>>]_vars

\* Neither half outlives the other: with a conformant guacd, the bridge and its
\* GuacdClient are closed together, even when the parser goes on with a chunk.
HalvesAgree == Conformant /\ process = "running" => (bridge = "closed" <=> guacd = "closed")

FromUser(x) == x[1] = "user"

\* While the tunnel lives, what the client sent has been written to guacd or is
\* waiting in the send buffer, each message once and in order.
InOrderToGuacd ==
    LET written == received - Len(buffer)
    IN  bridge # "closed" =>
            /\ \A k \in DOMAIN buffer : buffer[k] = User(written + k)
            /\ \A n \in 1..written : \E k \in DOMAIN toGuacd : toGuacd[k] = User(n)
            /\ \A j, k \in DOMAIN toGuacd : FromUser(toGuacd[j]) /\ FromUser(toGuacd[k]) =>
                /\ toGuacd[k][2] <= written
                /\ j < k => toGuacd[j][2] < toGuacd[k][2]

\* guacd sees no message of the client before it has announced that it is
\* ready, and a conformant one sees the whole handshake before the first.
HandshakeFirst ==
    \A k \in DOMAIN toGuacd : FromUser(toGuacd[k]) =>
        /\ guacd # "opening"
        /\ Conformant => k > 2 /\ toGuacd[1] = Select /\ toGuacd[2] = Reply

\* The send buffer stays within its limit, its size is what it says, and nothing
\* is left in it once the tunnel is open.
BufferBounded ==
    /\ bufferSize = Len(buffer) /\ bufferSize <= MaxBuffer
    /\ guacd = "open" => buffer = <<>>

\* The client is told the connection identifier first, then what a conformant
\* guacd sends.
\* A failure the bridge reports itself is the last thing the client hears.
ClientStream ==
    Conformant => \A k \in DOMAIN toClient :
        /\ toClient[k] = "id" => k = 1
        /\ toClient[k] \in {"data", "error"} => toClient[1] = "id"
        /\ toClient[k] = "failure" => k = Len(toClient)

\* No handler of the bridge throws while guacd keeps to its protocol.  What can
\* still end the process is the error of a WebSocket that close has stripped, and
\* by then the tunnel is over and holds nothing.
OnlyStrippedThrows ==
    /\ Conformant => process # "gone"
    /\ process = "unheard" => bridge = "closed" /\ tcp = "destroyed" /\ timers = {}

\* With an inactivity limit on the guacd side a handshake does not hang: a guacd
\* that accepts the connection and falls silent, at any point, is given up.
HandshakeEnds == (guacd = "opening" /\ "guacdIdle" \in timers) ~> (guacd # "opening")

----------------------------------------------------------------------------
\* Nothing is promised of a guacd that breaks its protocol.
AbsPhase ==
    IF ~Conformant THEN "opening" ELSE IF bridge = "closed" THEN "closed" ELSE guacd
AbsEvents == IF Conformant THEN events ELSE <<>>

Abs == INSTANCE TunnelLifecycle WITH phase <- AbsPhase, events <- AbsEvents

\* The tunnel implements its lifecycle.
Lifecycle == Abs!Spec
=============================================================================
