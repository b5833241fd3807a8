-------------------------- MODULE GuacamoleServer --------------------------
(***************************************************************************)
(* GuacamoleServer (src/src/server/guacamole-server.ts): the life of the   *)
(* WebSocket connections it is handed, from the upgrade to the end of      *)
(* their tunnels, and its shutdown.                                        *)
(*                                                                         *)
(* handleNewConnection is cut into an action at each of its awaits; any    *)
(* number of its invocations are under way at once.  Tickets are those of  *)
(* OneTimeTicket, which TicketManager implements; a tunnel is the three    *)
(* states TunnelLifecycle gives it, which Tunnel implements.  The `ws`     *)
(* library and the HTTP server are external.                               *)
(***************************************************************************)
EXTENDS Integers, FiniteSets

CONSTANTS
    Sockets,         \* WebSocket connections, and the tunnels built on them
    Tickets,
    Hooks,           \* the asynchronous hooks installed, of {"before", "auth"}
    MaxConnections,  \* maxConnections; 0 means no limit
    MaxJoined,       \* maxJoinedPerSession
    AllowJoin        \* allowJoin, the server-wide default

None == "none"
Host == "host"

\* What handleNewConnection closes a WebSocket with: codes 4401, 4429, 4403 and
\* 1011, and two reasons to most of them.
Reasons ==
    {"none", "noTicket", "invalidTicket", "connectionsFull", "sessionFull",
     "sharingRefused", "forbidden", "internalError"}

ASSUME ServerAssumption ==
    /\ IsFiniteSet(Sockets)
    /\ {None, Host} \cap Sockets = {} /\ None \notin Tickets
    /\ Hooks \subseteq {"before", "auth"}
    /\ MaxConnections \in Nat /\ MaxJoined \in Nat
    /\ AllowJoin \in BOOLEAN

VARIABLES
    issued, shut, aim, claim,  \* the variables of OneTimeTicket
    kind,       \* kind[t]: "host", or the session ticket t joins
    share,      \* the tickets whose settings allow others to join
    ticketOf,   \* ticketOf[w]: the ticket in the URL of w
    stage,      \* stage[w]: the await handleNewConnection is suspended at
    reason,     \* reason[w]: the reason handleNewConnection closed w with
    conn,       \* conn[w]: the ClientConnection built on w
    session,    \* session[w]: its guacamoleConnectionId
    active,     \* activeConnections
    ws,         \* ws[w]: readyState of w
    clients,    \* wss.clients
    deaf,       \* the WebSockets a bridge has stripped of all listeners
    closed,     \* GuacamoleServer.closed
    resolved,   \* the promise of close() has resolved
    stopping,   \* httpServer.close has been called
    admission   \* history: "overlapped" once two handlers were past the limits at one time

ticketVars == <<issued, shut, aim, claim>>
settingVars == <<kind, share>>
handlerVars == <<ticketOf, stage, reason, admission>>
tunnelVars == <<conn, session, active>>
socketVars == <<ws, clients, deaf>>
serverVars == <<closed, resolved, stopping>>
vars == <<ticketVars, settingVars, handlerVars, tunnelVars, socketVars, serverVars>>

Tk == INSTANCE OneTimeTicket WITH
    Calls <- Sockets, closed <- shut, state <- claim

\* The type invariant.  A ticket that can be presented has settings.
TypeOK ==
    /\ Tk!TypeOK
    /\ \A t \in issued : kind[t] # None
    /\ kind \in [Tickets -> {None, Host} \cup Sockets]
    /\ share \subseteq Tickets
    /\ ticketOf \in [Sockets -> Tickets \cup {None}]
    /\ stage \in [Sockets -> {"none", "validate", "consume", "before", "auth", "done"}]
    /\ reason \in [Sockets -> Reasons]
    /\ conn \in [Sockets -> {"none", "opening", "open", "closed"}]
    /\ session \in [Sockets -> Sockets \cup {None}]
    /\ active \subseteq Sockets /\ clients \subseteq Sockets /\ deaf \subseteq Sockets
    /\ ws \in [Sockets -> {"none", "open", "closing", "gone"}]
    /\ closed \in BOOLEAN /\ resolved \in BOOLEAN
    /\ stopping \in BOOLEAN /\ admission \in {"single", "overlapped"}

Init ==
    /\ Tk!Init
    /\ kind = [t \in Tickets |-> None] /\ share = {}
    /\ ticketOf = [w \in Sockets |-> None]
    /\ stage = [w \in Sockets |-> "none"]
    /\ reason = [w \in Sockets |-> "none"]
    /\ conn = [w \in Sockets |-> "none"]
    /\ session = [w \in Sockets |-> None]
    /\ active = {} /\ clients = {} /\ deaf = {}
    /\ ws = [w \in Sockets |-> "none"]
    /\ closed = FALSE /\ resolved = FALSE /\ stopping = FALSE /\ admission = "single"

----------------------------------------------------------------------------
(* Tickets.                                                                *)

\* The sessions guacd has given an identifier.
Sessions == {s \in Sockets : session[s] = s}

\* issueTicket, for a session of its own or, with settings.join, for another's.
IssueTicket(t) ==
    /\ Tk!Issue(t)
    /\ \E k \in {Host} \cup Sessions : kind' = [kind EXCEPT ![t] = k]
    /\ share' \in IF kind'[t] = Host THEN {share, share \cup {t}} ELSE {share}
    /\ UNCHANGED <<handlerVars, tunnelVars, socketVars, serverVars>>

\* connectionSettings.allowJoin ?? this.allowJoin; a join ticket does not say.
Shares(w) == IF kind[ticketOf[w]] = Host THEN ticketOf[w] \in share ELSE AllowJoin

\* Mutant: joinSession does not wait for the session's identifier.
JoinSessionEarly(t, w) ==
    /\ w \in active
    /\ Shares(w)
    /\ Tk!Issue(t)
    /\ kind' = [kind EXCEPT ![t] = session[w]]
    /\ UNCHANGED <<share, handlerVars, tunnelVars, socketVars, serverVars>>

\* joinSession, for the tunnel on w.
JoinSession(t, w) ==
    /\ w \in active
    /\ session[w] # None
    /\ Shares(w)
    /\ Tk!Issue(t)
    /\ kind' = [kind EXCEPT ![t] = session[w]]
    /\ UNCHANGED <<share, handlerVars, tunnelVars, socketVars, serverVars>>

\* A ticket is revoked or expires.
CloseTicket(t) ==
    /\ Tk!Close(t)
    /\ UNCHANGED <<settingVars, handlerVars, tunnelVars, socketVars, serverVars>>

----------------------------------------------------------------------------
(* handleNewConnection.                                                    *)

\* webSocket.close on the WebSockets in `shutting`.
CloseWs(shutting) ==
    ws' = [w \in Sockets |-> IF w \in shutting /\ ws[w] = "open" THEN "closing" ELSE ws[w]]

\* Mutant: the handler returns without closing w.
RefuseSilently(w, r) ==
    /\ stage' = [stage EXCEPT ![w] = "done"]
    /\ reason' = [reason EXCEPT ![w] = r]
    /\ UNCHANGED <<ticketOf, admission, tunnelVars, socketVars, settingVars, serverVars>>

\* The handler closes w and returns.
Refuse(w, r) ==
    /\ stage' = [stage EXCEPT ![w] = "done"]
    /\ reason' = [reason EXCEPT ![w] = r]
    /\ CloseWs({w})
    /\ UNCHANGED <<ticketOf, admission, tunnelVars, clients, deaf, settingVars, serverVars>>

\* The handler goes on to its next await.
Suspend(w, s) ==
    /\ stage' = [stage EXCEPT ![w] = s]
    /\ UNCHANGED <<ticketOf, reason, tunnelVars, socketVars, settingVars, serverVars>>

\* handleUpgrade: `ws` accepts the socket, unless its server is closing.
Accept(w) ==
    /\ ws[w] = "none"
    /\ ~closed /\ ~stopping
    /\ clients' = clients \cup {w}

\* The URL names ticket t: validateTicket is called.
HandleNewConnection(w, t) ==
    /\ Accept(w)
    /\ ws' = [ws EXCEPT ![w] = "open"]
    /\ ticketOf' = [ticketOf EXCEPT ![w] = t]
    /\ stage' = [stage EXCEPT ![w] = "validate"]
    /\ UNCHANGED <<ticketVars, settingVars, reason, admission, tunnelVars, deaf, serverVars>>

\* The URL names no ticket.
HandleNoTicket(w) ==
    /\ Accept(w)
    /\ ws' = [ws EXCEPT ![w] = "closing"]
    /\ stage' = [stage EXCEPT ![w] = "done"]
    /\ reason' = [reason EXCEPT ![w] = "noTicket"]
    /\ UNCHANGED <<ticketVars, settingVars, ticketOf, admission, tunnelVars, deaf, serverVars>>

\* Mutant: a rejected validateTicket leaves the handler where it is.
InvalidIgnored(w) == stage[w] = "validate" /\ UNCHANGED vars

Invalid(w) ==
    /\ stage[w] = "validate"
    /\ Refuse(w, "invalidTicket")
    /\ UNCHANGED ticketVars

\* Mutant: one connection too many is let in.
FullLate == MaxConnections > 0 /\ Cardinality(active) > MaxConnections

Full == MaxConnections > 0 /\ Cardinality(active) >= MaxConnections

\* Mutant: the setting of the session is not looked at.
JoinAllowedByDefault(s) == AllowJoin

\* findConnectionByGuacId finds the host first, then those who joined it.
JoinAllowed(s) == IF s \in active /\ session[s] = s THEN Shares(s) ELSE AllowJoin

Participants(s) == {w \in active : session[w] = s \/ kind[ticketOf[w]] = s}

\* Mutant: one participant too many is let in.
SessionFullLate(s) == Cardinality(Participants(s)) > MaxJoined

SessionFull(s) == Cardinality(Participants(s)) >= MaxJoined

\* Past the limits, and not yet in activeConnections.
Admitted == {w \in Sockets : stage[w] \in {"consume", "before", "auth"}}

Join(w) == kind[ticketOf[w]]

\* Mutant: the ticket is consumed before the limits are tested.
ValidatedGreedy(w) ==
    /\ stage[w] = "validate"
    /\ ticketOf[w] \in issued \ shut
    /\ Tk!Begin(w, ticketOf[w])
    /\ IF Full THEN Refuse(w, "connectionsFull")
               ELSE Suspend(w, "consume") /\ UNCHANGED admission

\* validateTicket has returned: the limits, then validateAndConsume is called.
Validated(w) ==
    /\ stage[w] = "validate"
    /\ ticketOf[w] \in issued \ shut
    /\ \/ /\ Full
          /\ Refuse(w, "connectionsFull")
          /\ UNCHANGED ticketVars
       \/ /\ ~Full
          /\ Join(w) # Host /\ ~JoinAllowed(Join(w))
          /\ Refuse(w, "sharingRefused")
          /\ UNCHANGED ticketVars
       \/ /\ ~Full
          /\ Join(w) # Host /\ JoinAllowed(Join(w)) /\ SessionFull(Join(w))
          /\ Refuse(w, "sessionFull")
          /\ UNCHANGED ticketVars
       \/ /\ ~Full
          /\ Join(w) # Host => JoinAllowed(Join(w)) /\ ~SessionFull(Join(w))
          /\ Tk!Begin(w, ticketOf[w])
          /\ admission' = IF Admitted = {} THEN admission ELSE "overlapped"
          /\ Suspend(w, "consume")

NotConsumed(w) ==
    /\ stage[w] = "consume"
    /\ Tk!Deny(w)
    /\ Refuse(w, "invalidTicket")

\* new ClientConnection, its listeners, connect and activeConnections.set.
Establish(w) ==
    /\ stage' = [stage EXCEPT ![w] = "done"]
    /\ conn' = [conn EXCEPT ![w] = "opening"]
    /\ active' = active \cup {w}
    /\ UNCHANGED <<ticketOf, reason, session, socketVars, settingVars, serverVars>>

\* connect throws (no selector, a port out of range): the catch block closes w,
\* on which the bridge's listeners stay.
ConnectThrows(w) ==
    /\ stage' = [stage EXCEPT ![w] = "done"]
    /\ conn' = [conn EXCEPT ![w] = "opening"]
    /\ reason' = [reason EXCEPT ![w] = "internalError"]
    /\ CloseWs({w})
    /\ UNCHANGED <<ticketOf, session, active, clients, deaf, settingVars, serverVars>>

\* The hook awaited after the await at s, if one is left.
NextStage(s) ==
    IF s = "consume" /\ "before" \in Hooks THEN "before"
    ELSE IF s # "auth" /\ "auth" \in Hooks THEN "auth" ELSE "done"

Proceed(w, s) ==
    IF NextStage(s) = "done" THEN Establish(w) \/ ConnectThrows(w)
                             ELSE Suspend(w, NextStage(s))

\* Mutant: the handler relies on validateTicket and does not redeem.
ConsumedUnchecked(w) ==
    /\ stage[w] = "consume"
    /\ claim' = [claim EXCEPT ![w] = "granted"]
    /\ Proceed(w, "consume")
    /\ UNCHANGED <<issued, shut, aim, admission>>

Consumed(w) ==
    /\ stage[w] = "consume"
    /\ Tk!Grant(w)
    /\ Proceed(w, "consume")
    /\ UNCHANGED admission

HookAllows(w) ==
    /\ stage[w] \in {"before", "auth"}
    /\ Proceed(w, stage[w])
    /\ UNCHANGED <<ticketVars, admission>>

\* A hook throws an AuthenticationError, as the handler does for an onAuthenticate
\* that answers false, or it throws anything else.
HookRejects(w) ==
    /\ stage[w] \in {"before", "auth"}
    /\ \E r \in {"forbidden", "internalError"} : Refuse(w, r)
    /\ UNCHANGED ticketVars

HandlerStep(w) ==
    \/ Invalid(w) \/ Validated(w) \/ NotConsumed(w) \/ Consumed(w)
    \/ HookAllows(w) \/ HookRejects(w)

----------------------------------------------------------------------------
(* Tunnels.                                                                *)

Live(w) == conn[w] \in {"opening", "open"}

\* `ready`.  guacd gives those who join the identifier of the session (external).
Ready(w) ==
    /\ conn[w] = "opening"
    /\ w \in active
    /\ LET s == IF Join(w) = Host THEN w ELSE Join(w)
       IN  /\ s # w => \E v \in Sockets : conn[v] = "open" /\ session[v] = s
           /\ session' = [session EXCEPT ![w] = s]
    /\ conn' = [conn EXCEPT ![w] = "open"]
    /\ UNCHANGED <<ticketVars, settingVars, handlerVars, active, socketVars, serverVars>>

\* Mutant: the table is not told.
ForgetNothing(gone) == active

\* What a tunnel's `close` does to the table.
Forget(gone) == active \ gone

\* ClientConnection.close, on the tunnels in `gone`: each strips its WebSocket
\* of all listeners; the server's `close` listener takes it off the table.
Bury(gone) ==
    /\ conn' = [w \in Sockets |-> IF w \in gone THEN "closed" ELSE conn[w]]
    /\ active' = Forget(gone)
    /\ deaf' = deaf \cup gone

\* A tunnel ends by itself (guacd, a timer, an error) or by disconnectConnection.
TunnelCloses(w) ==
    /\ w \in active
    /\ Bury({w})
    /\ CloseWs({w})
    /\ UNCHANGED <<ticketVars, settingVars, handlerVars, session, clients, serverVars>>

\* The WebSocket is gone: `ws` runs the `close` listeners it still has, its own,
\* which keeps wss.clients, and the bridge's.
WsEnds(w) ==
    /\ ws[w] \in {"open", "closing"}
    /\ ws' = [ws EXCEPT ![w] = "gone"]
    /\ clients' = IF w \in deaf THEN clients ELSE clients \ {w}
    /\ IF Live(w) THEN Bury({w}) ELSE UNCHANGED <<conn, active, deaf>>
    /\ UNCHANGED <<ticketVars, settingVars, handlerVars, session, serverVars>>

----------------------------------------------------------------------------
(* Shutdown.                                                               *)

\* close(): the tunnels in the table are closed, then wss.close is called.
Close ==
    /\ ~closed
    /\ closed' = TRUE
    /\ Bury(active)
    /\ CloseWs(active)
    /\ UNCHANGED <<ticketVars, settingVars, handlerVars, session, clients, resolved, stopping>>

\* httpServer.close(): no new connections.
HttpStop ==
    /\ ~stopping
    /\ stopping' = TRUE
    /\ UNCHANGED <<ticketVars, settingVars, handlerVars, tunnelVars, socketVars,
                   closed, resolved>>

\* The HTTP server emits `close` when its last socket has ended (external);
\* attach has registered close() for it.
HttpClosed ==
    /\ stopping
    /\ \A w \in Sockets : ws[w] \in {"none", "gone"}
    /\ Close

\* wss.close runs its callback once wss.clients is empty (external).
Resolve ==
    /\ closed /\ ~resolved
    /\ clients = {}
    /\ resolved' = TRUE
    /\ UNCHANGED <<ticketVars, settingVars, handlerVars, tunnelVars, socketVars,
                   closed, stopping>>

----------------------------------------------------------------------------
Arrival(w) == HandleNoTicket(w) \/ \E t \in issued : HandleNewConnection(w, t)

Next ==
    \/ \E t \in Tickets : IssueTicket(t) \/ CloseTicket(t)
    \/ \E t \in Tickets, w \in Sockets : JoinSession(t, w)
    \/ \E w \in Sockets : Arrival(w) \/ HandlerStep(w)
    \/ \E w \in Sockets : Ready(w) \/ TunnelCloses(w) \/ WsEnds(w)
    \/ HttpStop \/ HttpClosed \/ Close \/ Resolve

Spec == Init /\ [][Next]_vars

\* Promises and hooks settle, a closing WebSocket ends (`ws` gives its peer 30 s),
\* and events that are due are emitted.  No browser has to leave.
Fairness ==
    /\ \A w \in Sockets : WF_vars(HandlerStep(w)) /\ WF_vars(ws[w] = "closing" /\ WsEnds(w))
    /\ WF_vars(HttpClosed)
    /\ WF_vars(Resolve)

FairSpec == Spec /\ Fairness
----------------------------------------------------------------------------
(* Properties.                                                             *)

\* activeConnections is exactly the tunnels that are alive, whatever closed the
\* others, but for one whose connect threw and whose WebSocket is being closed.
TableIsExact ==
    /\ \A w \in active : Live(w)
    /\ \A w \in Sockets : Live(w) /\ w \notin active =>
        reason[w] = "internalError" /\ ws[w] # "open"

\* Two requests with one ticket never both get a tunnel, and a tunnel's ticket
\* has been redeemed by the request the tunnel serves.
OneTunnelPerTicket ==
    \A v, w \in Sockets :
        conn[w] # "none" =>
            /\ claim[w] = "granted" /\ aim[w] = ticketOf[w]
            /\ conn[v] # "none" /\ ticketOf[v] = ticketOf[w] => v = w

\* A request that validateTicket, a limit or the owner's setting refuses has not
\* cost its client the ticket, nor has one that lost it to another request: of the
\* requests that get no tunnel only those a hook rejects have redeemed theirs.
RefusalKeepsTicket ==
    \A w \in Sockets :
        /\ reason[w] \in {"connectionsFull", "sessionFull", "sharingRefused"} => claim[w] = "idle"
        /\ reason[w] = "invalidTicket" => claim[w] \in {"idle", "denied"}
        /\ stage[w] = "done" /\ conn[w] = "none" /\ claim[w] = "granted" =>
            reason[w] \in {"forbidden", "internalError"} /\ Hooks # {}

\* The server-wide limit holds as long as no two handlers are between the test
\* of the limit and activeConnections.set at the same time.
LimitHoldsInSequence ==
    MaxConnections > 0 /\ admission = "single" => Cardinality(active) <= MaxConnections

\* The same of the limit of each shared session.
JoinLimitHoldsInSequence ==
    MaxJoined > 0 /\ admission = "single" => \A s \in Sessions : Cardinality(Participants(s)) <= MaxJoined

\* Nobody is ever connected to a session whose owner did not share it, however
\* the ticket was obtained, whoever else has joined and whoever has left.
SharingNeedsConsent ==
    \A w \in Sockets : session[w] \notin {None, w} => ticketOf[session[w]] \in share

\* A handler that has returned without a tunnel has closed its WebSocket.
NoSilentRefusal ==
    \A w \in Sockets : stage[w] = "done" /\ conn[w] = "none" => ws[w] # "open"

\* A tunnel does not outlive its WebSocket.
NoTunnelOnDeadSocket == \A w \in Sockets : Live(w) => ws[w] # "gone"

\* Every request is answered: it gets a tunnel or its WebSocket is closed.
EveryRequestSettles == \A w \in Sockets : (stage[w] # "none") ~> (stage[w] = "done")

\* close() resolves, unless a bridge has stripped a WebSocket of its listeners or
\* a tunnel is still alive.
CloseResolvesUnlessStripped ==
    closed ~> (resolved \/ clients \cap deaf # {} \/ \E w \in Sockets : Live(w))

\* close() "() -> Promise<void>" resolves.
CloseResolves == closed ~> resolved
============================================================================
