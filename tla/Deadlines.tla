----------------------------- MODULE Deadlines -----------------------------
(***************************************************************************)
(* The clocks of the server: the connect timeout, the two inactivity       *)
(* checks and the lifetime of one tunnel (client-connection.ts and         *)
(* guacd-client.ts), and the probe of GuacamoleServer.checkGuacd.  Tunnel  *)
(* says what a timer that fires does; this module says when it fires.      *)
(*                                                                         *)
(* Time is discrete.  `left` counts down to the next firing of each timer; *)
(* a busy event loop may be up to Lag late.  `idle` is what the code sees  *)
(* as Date.now() - lastActivity, and `silence` is how long there really    *)
(* was nothing.  The system's clock, which Date.now() reads, keeps pace.   *)
(***************************************************************************)
EXTENDS Integers

CONSTANTS
    Settings,  \* the limits to meet: ws (maxInactivityTime), guacd, connect and ttl, 0 = none
    Waits,     \* the timeouts that checkGuacd is called with, 0 = none
    Period,    \* time between two inactivity checks
    TimerMax,  \* 2^31 - 1, the longest delay a timer of Node keeps
    Lag,       \* bound: how late a timer fires
    Cap        \* bound: durations are counted up to here

Sides == {"ws", "guacd"}
Timers == Sides \cup {"connect", "ttl", "check"}
Off == Cap + 1

ASSUME DeadlinesAssumption ==
    /\ Settings \subseteq [{"ws", "guacd", "connect", "ttl"} -> 0..Cap] /\ Waits \subseteq 0..Cap
    /\ Period \in 1..Cap /\ TimerMax \in 1..Cap /\ Lag \in Nat /\ Cap \in Nat

VARIABLES
    limit,    \* the limits of the tunnel
    state,    \* "lookup", "connecting", "handshake", "open" or "closed"
    left,     \* time until each timer fires; Off when it is not armed
    idle,     \* time since `lastActivity`, by side
    silence,  \* time since the client spoke, and since anything passed to or from guacd
    age,      \* time since the tunnel was made
    ended,    \* the timer that ended the tunnel, or "none"
    probe,    \* the probe's socket: "none", "lookup", "connecting" or "destroyed"
    wait,     \* the timeout of the probe
    waited,   \* time since checkGuacd was called
    answer    \* what the probe's promise holds: "none", "ok" or "failed"

tunnelVars == <<limit, state, idle, silence, age, ended>>
probeVars == <<probe, wait, waited, answer>>
vars == <<tunnelVars, left, probeVars>>

\* setTimeout: a delay that is too long becomes 1 (external).
Delay(d) == IF d > TimerMax THEN 1 ELSE d

\* socket.setTimeout: a delay that is too long is cut (external).
SocketDelay(d) == IF d > TimerMax THEN TimerMax ELSE d

Armed(d, delay) == IF d > 0 THEN delay ELSE Off

\* The type invariant.  The tunnel's timers run while it lives, and only then.
TypeOK ==
    /\ limit \in Settings
    /\ state \in {"lookup", "connecting", "handshake", "open", "closed"}
    /\ left \in [Timers -> (-Lag)..Off]
    /\ idle \in [Sides -> 0..Cap] /\ silence \in [Sides -> 0..Cap]
    /\ age \in 0..Cap /\ waited \in 0..Cap
    /\ ended \in {"none", "ws", "guacd", "connect", "ttl"}
    /\ probe \in {"none", "lookup", "connecting", "destroyed"}
    /\ wait \in {0} \cup Waits /\ answer \in {"none", "ok", "failed"}
    /\ \A t \in Sides : left[t] # Off <=> state # "closed" /\ limit[t] > 0

\* ClientConnection.connect has made the GuacdClient.
Init ==
    /\ limit \in Settings
    /\ state = "lookup"
    /\ left = [ws |-> Armed(limit.ws, Period), guacd |-> Armed(limit.guacd, Period),
               connect |-> Armed(limit.connect, SocketDelay(limit.connect)),
               ttl |-> Armed(limit.ttl, Delay(limit.ttl)), check |-> Off]
    /\ idle = [s \in Sides |-> 0] /\ silence = [s \in Sides |-> 0]
    /\ age = 0 /\ ended = "none"
    /\ probe = "none" /\ wait = 0 /\ waited = 0 /\ answer = "none"

----------------------------------------------------------------------------
(* Time (external).                                                        *)

Older(d) == IF d < Cap THEN d + 1 ELSE Cap

\* One unit passes; no timer is left to fire later than Lag.
Tick ==
    /\ \A t \in Timers : left[t] > -Lag
    /\ left' = [t \in Timers |-> IF left[t] = Off THEN Off ELSE left[t] - 1]
    /\ idle' = [s \in Sides |-> Older(idle[s])]
    /\ silence' = [s \in Sides |-> Older(silence[s])]
    /\ age' = Older(age) /\ waited' = Older(waited)
    /\ UNCHANGED <<limit, state, ended, probe, wait, answer>>

----------------------------------------------------------------------------
(* The tunnel.                                                             *)

\* The host name is resolved, which makes the socket's timer start again (external).
Resolved ==
    /\ state = "lookup"
    /\ state' = "connecting"
    /\ left' = [left EXCEPT !.connect = Armed(limit.connect, SocketDelay(limit.connect))]
    /\ UNCHANGED <<limit, idle, silence, age, ended, probeVars>>

\* Mutant: `setTimeout(0)` is missing.
ConnectLeftArmed == left

ConnectLeft == [left EXCEPT !.connect = Off]

\* handleConnect, which sends `select`.
HandleConnect ==
    /\ state = "connecting"
    /\ state' = "handshake"
    /\ left' = ConnectLeft
    /\ idle' = [idle EXCEPT !.guacd = 0]
    /\ silence' = [silence EXCEPT !.guacd = 0]
    /\ UNCHANGED <<limit, age, ended, probeVars>>

\* handleData; one of the chunks holds `ready`.
HandleData ==
    /\ state \in {"handshake", "open"}
    /\ state' \in {state, "open"}
    /\ idle' = [idle EXCEPT !.guacd = 0]
    /\ silence' = [silence EXCEPT !.guacd = 0]
    /\ UNCHANGED <<limit, left, age, ended, probeVars>>

\* Mutant: a message counts as traffic with guacd although it is only buffered.
RefreshedAll == Sides

\* The sides whose lastActivity a message of the client renews.
Refreshed == IF state = "open" THEN Sides ELSE {"ws"}

\* handleWsMessage.
HandleWsMessage ==
    /\ state # "closed"
    /\ idle' = [s \in Sides |-> IF s \in Refreshed THEN 0 ELSE idle[s]]
    /\ silence' = [s \in Sides |-> IF s = "ws" \/ state = "open" THEN 0 ELSE silence[s]]
    /\ UNCHANGED <<limit, state, left, age, ended, probeVars>>

\* close, whichever side begins it: every timer of the tunnel is cleared.
Close(reason) ==
    /\ state' = "closed"
    /\ ended' = reason
    /\ left' = [t \in Timers |-> IF t = "check" THEN left[t] ELSE Off]
    /\ UNCHANGED <<limit, idle, silence, age, probeVars>>

\* The tunnel ends for a reason that is not a matter of time.
Ends ==
    /\ state # "closed"
    /\ Close("none")

TooLong(s) == idle[s] > limit[s]

\* checkActivity, and the callback of GuacdClient's interval.
CheckActivity(s) ==
    /\ left[s] <= 0
    /\ IF TooLong(s)
       THEN Close(s)
       ELSE left' = [left EXCEPT ![s] = Period] /\ UNCHANGED <<tunnelVars, probeVars>>

\* The connect timeout and the lifetime fire once.
Expires(t) ==
    /\ left[t] <= 0
    /\ Close(t)

----------------------------------------------------------------------------
(* checkGuacd.                                                             *)

CheckGuacd(w) ==
    /\ answer # "none" \/ probe = "none"
    /\ probe' = "lookup" /\ answer' = "none"
    /\ wait' = w /\ waited' = 0
    /\ left' = [left EXCEPT !.check = Armed(w, SocketDelay(w))]
    /\ UNCHANGED tunnelVars

\* The name is resolved (external).
ProbeResolved ==
    /\ probe = "lookup"
    /\ probe' = "connecting"
    /\ left' = [left EXCEPT !.check = Armed(wait, SocketDelay(wait))]
    /\ UNCHANGED <<tunnelVars, wait, waited, answer>>

\* Mutant: the promise resolves and the socket stays.
FinishLeaves(a) ==
    /\ answer' = a
    /\ left' = [left EXCEPT !.check = Off]
    /\ UNCHANGED probe

\* finish: the socket loses its listeners and is destroyed, so that nothing follows.
Finish(a) ==
    /\ answer' = a
    /\ probe' = "destroyed"
    /\ left' = [left EXCEPT !.check = Off]

\* The events `connect`, `error` and `timeout`, whichever is first.
ProbeConnects ==
    /\ probe = "connecting"
    /\ Finish("ok")
    /\ UNCHANGED <<tunnelVars, wait, waited>>

ProbeFails ==
    /\ probe \in {"lookup", "connecting"}
    /\ Finish("failed")
    /\ UNCHANGED <<tunnelVars, wait, waited>>

ProbeTimesOut ==
    /\ left.check <= 0
    /\ Finish("failed")
    /\ UNCHANGED <<tunnelVars, wait, waited>>

----------------------------------------------------------------------------
Next ==
    \/ Tick
    \/ Resolved \/ HandleConnect \/ HandleData \/ HandleWsMessage \/ Ends
    \/ \E s \in Sides : CheckActivity(s)
    \/ \E t \in {"connect", "ttl"} : Expires(t)
    \/ \E w \in Waits : CheckGuacd(w)
    \/ ProbeResolved \/ ProbeConnects \/ ProbeFails \/ ProbeTimesOut

Spec == Init /\ [][Next]_vars

----------------------------------------------------------------------------
(* Properties.                                                             *)

Trying == state \in {"lookup", "connecting"}

\* No tunnel outstays a limit by more than one period of its check and the lag
\* of the event loop: a silent client, a silent guacd (however busy the client
\* is while the handshake hangs), a lifetime, a connection that does not come
\* about.  The connect timeout counts twice, because it starts again once the
\* host name is resolved.
NothingOutstays ==
    state # "closed" =>
        /\ \A s \in Sides : limit[s] > 0 => silence[s] <= limit[s] + Period + Lag
        /\ limit.ttl > 0 => age <= limit.ttl + Lag
        /\ limit.connect > 0 /\ Trying => age <= 2 * (limit.connect + Lag)

\* No timer ends a tunnel before its time: not one that talks within its limits,
\* not one that has connected, not one younger than a lifetime that a timer can
\* hold.  (A lifetime above TimerMax ends the tunnel after 1.)
NoEarlyEnd ==
    [][ended' # ended =>
        /\ \A s \in Sides : ended' = s => silence[s] > limit[s]
        /\ ended' = "ttl" /\ limit.ttl <= TimerMax => age >= limit.ttl
        /\ ended' = "connect" => Trying /\ age >= SocketDelay(limit.connect)]_vars

\* checkGuacd answers within its timeout, counted from each of the two phases of
\* connecting, and an answered probe holds neither a socket nor a timer.
ProbeSettles ==
    /\ answer = "none" /\ probe # "none" /\ wait > 0 => waited <= 2 * (wait + Lag)
    /\ answer # "none" => probe = "destroyed" /\ left.check = Off
=============================================================================
