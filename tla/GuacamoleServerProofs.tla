----------------------- MODULE GuacamoleServerProofs -----------------------
(***************************************************************************)
(* Theorems about GuacamoleServer, for any finite set of WebSockets, any   *)
(* tickets, hooks and limits.                                              *)
(***************************************************************************)
EXTENDS GuacamoleServer, FiniteSetTheorems, TLAPS

\* A ticket that has been asked for has been issued.
Aimed == \A w \in Sockets : claim[w] # "idle" => aim[w] \in issued

TypeInv == TypeOK /\ Aimed

\* The initial state is well typed.
LEMMA InitType == Init => TypeInv
  <1> SUFFICES ASSUME Init PROVE TypeInv
    OBVIOUS
  <1>1. Tk!TypeOK /\ \A t \in issued : kind[t] # None
    BY SMT DEF Init, Tk!Init, Tk!TypeOK, Tk!None, Tk!States
  <1>2. closed \in BOOLEAN /\ resolved \in BOOLEAN /\ stopping \in BOOLEAN /\ admission \in {"single", "overlapped"}
    BY Zenon DEF Init
  <1> QED
    BY <1>1, <1>2, SMT DEF Init, TypeInv, TypeOK, Reasons, Aimed, Tk!Init, None

\* What a handler that finds no room closes its WebSocket with.
Limits == {"connectionsFull", "sessionFull"}

USE DEF vars, ticketVars, settingVars, handlerVars, tunnelVars, socketVars, serverVars

\* Every action keeps the types.
LEMMA NextType == TypeInv /\ [Next]_vars => TypeInv'
  <1> SUFFICES ASSUME TypeInv, [Next]_vars PROVE TypeInv'
    OBVIOUS
  <1> USE ServerAssumption DEF Reasons, Limits
  <1> USE DEF TypeInv, TypeOK, Aimed, Tk!TypeOK, Tk!None, Tk!States, None, Host
  <1>1. ASSUME NEW t \in Tickets, IssueTicket(t) PROVE TypeInv'
    BY <1>1, SMT DEF IssueTicket, Tk!Issue, Sessions
  <1>2. ASSUME NEW t \in Tickets, CloseTicket(t) PROVE TypeInv'
    BY <1>2, SMT DEF CloseTicket, Tk!Close
  <1>3. ASSUME NEW t \in Tickets, NEW w \in Sockets, JoinSession(t, w) PROVE TypeInv'
    BY <1>3, SMT DEF JoinSession, Tk!Issue
  <1>4. ASSUME NEW w \in Sockets, HandleNoTicket(w) PROVE TypeInv'
    BY <1>4, SMT DEF HandleNoTicket, Accept
  <1>5. ASSUME NEW w \in Sockets, NEW t \in Tickets, HandleNewConnection(w, t) PROVE TypeInv'
    BY <1>5, SMT DEF HandleNewConnection, Accept
  <1>6. ASSUME NEW w \in Sockets, Invalid(w) PROVE TypeInv'
    BY <1>6, SMT DEF Invalid, Refuse, CloseWs
  <1>7. ASSUME NEW w \in Sockets, Validated(w) PROVE TypeInv'
    <2>2. CASE (\E r \in Limits : Refuse(w, r)) /\ UNCHANGED ticketVars
      BY <2>2, SMT DEF Refuse, CloseWs
    <2>3. CASE Refuse(w, "sharingRefused") /\ UNCHANGED ticketVars
      BY <2>3, SMT DEF Refuse, CloseWs
    <2>4. CASE /\ Tk!Begin(w, ticketOf[w]) /\ ticketOf[w] \in issued /\ Suspend(w, "consume")
               /\ admission' = IF Admitted = {} THEN admission ELSE "overlapped"
      BY <2>4, SMT DEF Suspend, Tk!Begin
    <2> HIDE DEF TypeInv
    <2> QED
      BY <1>7, <2>2, <2>3, <2>4, SMT DEF Validated
  <1>8. ASSUME NEW w \in Sockets, NotConsumed(w) PROVE TypeInv'
    BY <1>8, SMT DEF NotConsumed, Refuse, CloseWs, Tk!Deny
  <1>9. ASSUME NEW w \in Sockets, Consumed(w) PROVE TypeInv'
    <2>1. Tk!TypeOK' /\ Aimed' /\ UNCHANGED issued /\ admission' = admission
      BY <1>9, SMT DEF Consumed, Tk!Grant
    <2>2. CASE Establish(w)
      BY <2>1, <2>2, SMT DEF Establish
    <2>3. CASE ConnectThrows(w)
      BY <2>1, <2>3, SMT DEF ConnectThrows, CloseWs
    <2>4. CASE Suspend(w, NextStage("consume")) /\ NextStage("consume") # "done"
      BY <2>1, <2>4, SMT DEF Suspend, NextStage
    <2> HIDE DEF TypeInv
    <2> QED
      BY <1>9, <2>2, <2>3, <2>4, Zenon DEF Consumed, Proceed
  <1>10. ASSUME NEW w \in Sockets, HookAllows(w) PROVE TypeInv'
    BY <1>10, SMT DEF HookAllows, Proceed, NextStage, Establish, ConnectThrows, CloseWs, Suspend
  <1>11. ASSUME NEW w \in Sockets, HookRejects(w) PROVE TypeInv'
    BY <1>11, SMT DEF HookRejects, Refuse, CloseWs
  <1>12. ASSUME NEW w \in Sockets, Ready(w) PROVE TypeInv'
    BY <1>12, SMT DEF Ready, Join
  <1>13. ASSUME NEW w \in Sockets, TunnelCloses(w) PROVE TypeInv'
    BY <1>13, SMT DEF TunnelCloses, Bury, Forget, CloseWs
  <1>14. ASSUME NEW w \in Sockets, WsEnds(w) PROVE TypeInv'
    BY <1>14, SMT DEF WsEnds, Bury, Forget
  <1>15. CASE Close
    BY <1>15, SMT DEF Close, Bury, Forget, CloseWs
  <1>16. CASE HttpStop
    BY <1>16, SMT DEF HttpStop
  <1>17. CASE Resolve
    BY <1>17, SMT DEF Resolve
  <1>18. CASE UNCHANGED vars
    BY <1>18, SMT
  <1>19. issued \subseteq Tickets
    OBVIOUS
  <1> HIDE DEF TypeInv
  <1> QED
    BY <1>1, <1>2, <1>3, <1>4, <1>5, <1>6, <1>7, <1>8, <1>9, <1>10, <1>11, <1>12, <1>13, <1>14,
       <1>15, <1>16, <1>17, <1>18, <1>19, Zenon DEF Next, Arrival, HandlerStep, HttpClosed

----------------------------------------------------------------------------
\* What the stage of a handler says about its ticket, its tunnel and its socket.
Requests ==
    \A w \in Sockets :
        /\ stage[w] = "none" <=> ws[w] = "none"
        /\ stage[w] \in {"none", "validate"} => claim[w] = "idle"
        /\ stage[w] = "none" => ticketOf[w] = None
        /\ stage[w] # "done" => reason[w] = "none" /\ conn[w] = "none"
        /\ stage[w] \notin {"none", "done"} => ticketOf[w] # None
        /\ stage[w] \in {"before", "auth"} => claim[w] = "granted"
        /\ conn[w] # "none" => claim[w] = "granted"
        /\ ticketOf[w] # None => ticketOf[w] \in issued
        /\ claim[w] # "idle" => aim[w] = ticketOf[w] /\ ticketOf[w] # None
        /\ stage[w] \in {"before", "auth"} => Hooks # {}
        /\ reason[w] \in {"connectionsFull", "sessionFull", "sharingRefused"} => claim[w] = "idle"
        /\ reason[w] = "invalidTicket" => claim[w] \in {"idle", "denied"}
        /\ stage[w] = "done" /\ conn[w] = "none" /\ claim[w] = "granted" =>
            reason[w] \in {"forbidden", "internalError"} /\ Hooks # {}

\* What the table says about the tunnels.
Tunnels ==
    \A w \in Sockets :
        /\ w \in active => Live(w)
        /\ Live(w) /\ w \notin active =>
            conn[w] = "opening" /\ reason[w] = "internalError" /\ ws[w] # "open"
        /\ stage[w] = "done" /\ conn[w] = "none" => ws[w] # "open"

\* A ticket is granted to one request only.
GrantedOnce ==
    \A v, w \in Sockets :
        claim[v] = "granted" /\ claim[w] = "granted" /\ aim[v] = aim[w] => v = w

TunnelInv == Requests /\ Tunnels /\ GrantedOnce

\* Initially there are no requests.
LEMMA InitTunnel == Init => TunnelInv
  BY ServerAssumption, SMT DEF Init, Tk!Init, Tk!None, None, TunnelInv, Requests, Tunnels, Live,
     GrantedOnce

\* Every action keeps the requests, the table and the tickets in step.
LEMMA NextTunnel == TypeInv /\ TunnelInv /\ [Next]_vars => TunnelInv'
  <1> SUFFICES ASSUME TypeInv, TunnelInv, [Next]_vars PROVE TunnelInv'
    OBVIOUS
  <1> USE ServerAssumption DEF Reasons, Limits
  <1> USE DEF TypeInv, TypeOK, Aimed, Tk!TypeOK, Tk!None, Tk!States, None, Host,
          TunnelInv, Requests, Tunnels, GrantedOnce, Live
  <1>1. ASSUME NEW t \in Tickets, IssueTicket(t) PROVE TunnelInv'
    BY <1>1, SMT DEF IssueTicket, Tk!Issue
  <1>2. ASSUME NEW t \in Tickets, CloseTicket(t) PROVE TunnelInv'
    BY <1>2, SMT DEF CloseTicket, Tk!Close
  <1>3. ASSUME NEW t \in Tickets, NEW w \in Sockets, JoinSession(t, w) PROVE TunnelInv'
    BY <1>3, SMT DEF JoinSession, Tk!Issue
  <1>4. ASSUME NEW w \in Sockets, HandleNoTicket(w) PROVE TunnelInv'
    BY <1>4, SMT DEF HandleNoTicket, Accept
  <1>5. ASSUME NEW w \in Sockets, NEW t \in Tickets, t \in issued, HandleNewConnection(w, t)
        PROVE TunnelInv'
    BY <1>5, SMT DEF HandleNewConnection, Accept
  <1>6. ASSUME NEW w \in Sockets, Invalid(w) PROVE TunnelInv'
    BY <1>6, SMT DEF Invalid, Refuse, CloseWs
  <1>7. ASSUME NEW w \in Sockets, Validated(w) PROVE TunnelInv'
    <2>1. CASE (\E r \in Limits : Refuse(w, r)) /\ UNCHANGED ticketVars
      BY <1>7, <2>1, SMT DEF Validated, Refuse, CloseWs
    <2>2. CASE Refuse(w, "sharingRefused") /\ UNCHANGED ticketVars
      BY <1>7, <2>2, SMT DEF Validated, Refuse, CloseWs
    <2>3. CASE Tk!Begin(w, ticketOf[w]) /\ Suspend(w, "consume")
      BY <1>7, <2>3, SMT DEF Validated, Suspend, Tk!Begin
    <2> HIDE DEF TunnelInv, TypeInv
    <2> QED
      BY <1>7, <2>1, <2>2, <2>3, SMT DEF Validated
  <1>8. ASSUME NEW w \in Sockets, NotConsumed(w) PROVE TunnelInv'
    BY <1>8, SMT DEF NotConsumed, Refuse, CloseWs, Tk!Deny
  <1>9. ASSUME NEW w \in Sockets, Consumed(w) PROVE TunnelInv'
    <2>1. CASE Establish(w)
      BY <1>9, <2>1, SMT DEF Consumed, Establish, Tk!Grant
    <2>2. CASE ConnectThrows(w)
      BY <1>9, <2>2, SMT DEF Consumed, ConnectThrows, CloseWs, Tk!Grant
    <2>3. CASE Suspend(w, NextStage("consume")) /\ NextStage("consume") # "done"
      BY <1>9, <2>3, SMT DEF Consumed, Suspend, NextStage, Tk!Grant
    <2> HIDE DEF TunnelInv, TypeInv
    <2> QED
      BY <1>9, <2>1, <2>2, <2>3, Zenon DEF Consumed, Proceed
  <1>10. ASSUME NEW w \in Sockets, HookAllows(w) PROVE TunnelInv'
    <2>1. CASE Establish(w)
      BY <1>10, <2>1, SMT DEF HookAllows, Establish
    <2>2. CASE ConnectThrows(w)
      BY <1>10, <2>2, SMT DEF HookAllows, ConnectThrows, CloseWs
    <2>3. CASE Suspend(w, NextStage(stage[w])) /\ NextStage(stage[w]) # "done"
      BY <1>10, <2>3, SMT DEF HookAllows, Suspend, NextStage
    <2> HIDE DEF TunnelInv, TypeInv
    <2> QED
      BY <1>10, <2>1, <2>2, <2>3, Zenon DEF HookAllows, Proceed
  <1>11. ASSUME NEW w \in Sockets, HookRejects(w) PROVE TunnelInv'
    BY <1>11, SMT DEF HookRejects, Refuse, CloseWs
  <1>12. ASSUME NEW w \in Sockets, Ready(w) PROVE TunnelInv'
    BY <1>12, SMT DEF Ready
  <1>13. ASSUME NEW w \in Sockets, TunnelCloses(w) PROVE TunnelInv'
    BY <1>13, SMT DEF TunnelCloses, Bury, Forget, CloseWs
  <1>14. ASSUME NEW w \in Sockets, WsEnds(w) PROVE TunnelInv'
    BY <1>14, SMT DEF WsEnds, Bury, Forget
  <1>15. CASE Close
    BY <1>15, SMT DEF Close, Bury, Forget, CloseWs
  <1>16. CASE HttpStop
    BY <1>16, SMT DEF HttpStop
  <1>17. CASE Resolve
    BY <1>17, SMT DEF Resolve
  <1>18. CASE UNCHANGED vars
    BY <1>18, SMT
  <1>19. issued \subseteq Tickets
    OBVIOUS
  <1> HIDE DEF TunnelInv, TypeInv
  <1> QED
    BY <1>1, <1>2, <1>3, <1>4, <1>5, <1>6, <1>7, <1>8, <1>9, <1>10, <1>11, <1>12, <1>13, <1>14,
       <1>15, <1>16, <1>17, <1>18, <1>19, Zenon DEF Next, Arrival, HandlerStep, HttpClosed

----------------------------------------------------------------------------
\* Whose session a tunnel shows: the host of a ticket shows its own, and a ticket
\* that joins a session was issued when that session had its identifier.
Identities ==
    /\ \A w \in Sockets :
        /\ session[w] # None =>
            /\ conn[w] \in {"open", "closed"}
            /\ session[w] = IF Join(w) = Host THEN w ELSE Join(w)
        /\ conn[w] = "open" => w \in active
        /\ ticketOf[w] # None => Join(w) # w
    /\ \A t \in issued : kind[t] \in Sockets => session[kind[t]] = kind[t]

\* A guest who got past the limits has the owner's consent, or the owner is gone.
Consent ==
    \A w \in Sockets :
        (stage[w] \in {"consume", "before", "auth"} \/ conn[w] # "none") /\ Join(w) \in Sockets
            => conn[Join(w)] = "closed" \/ ticketOf[Join(w)] \in share

SessionInv == Identities /\ Consent /\ SharingNeedsConsent

\* Initially there are no sessions.
LEMMA InitSession == Init => SessionInv
  BY ServerAssumption, SMT DEF Init, Tk!Init, None, SessionInv, Identities, Consent,
     SharingNeedsConsent, Join

\* Every action keeps sessions to those their owners agreed to share with.
LEMMA NextSession == TypeInv /\ TunnelInv /\ SessionInv /\ [Next]_vars => SessionInv'
  <1> SUFFICES ASSUME TypeInv, TunnelInv, SessionInv, [Next]_vars PROVE SessionInv'
    OBVIOUS
  <1> USE ServerAssumption DEF Reasons, Limits
  <1> USE DEF TypeInv, TypeOK, Tk!TypeOK, Tk!None, None, Host,
          TunnelInv, Requests, Tunnels, Live, SessionInv, Identities, Consent,
          SharingNeedsConsent, Join
  <1>1. ASSUME NEW t \in Tickets, IssueTicket(t) PROVE SessionInv'
    BY <1>1, SMT DEF IssueTicket, Tk!Issue, Sessions
  <1>2. ASSUME NEW t \in Tickets, CloseTicket(t) PROVE SessionInv'
    BY <1>2, SMT DEF CloseTicket, Tk!Close
  <1>3. ASSUME NEW t \in Tickets, NEW w \in Sockets, JoinSession(t, w) PROVE SessionInv'
    BY <1>3, SMT DEF JoinSession, Tk!Issue
  <1>4. ASSUME NEW w \in Sockets, HandleNoTicket(w) PROVE SessionInv'
    BY <1>4, SMT DEF HandleNoTicket, Accept
  <1>5. ASSUME NEW w \in Sockets, NEW t \in Tickets, t \in issued, HandleNewConnection(w, t)
        PROVE SessionInv'
    BY <1>5, SMT DEF HandleNewConnection, Accept
  <1>6. ASSUME NEW w \in Sockets, Invalid(w) PROVE SessionInv'
    BY <1>6, SMT DEF Invalid, Refuse
  <1>7. ASSUME NEW w \in Sockets, Validated(w) PROVE SessionInv'
    <2>1. CASE (\E r \in Limits : Refuse(w, r)) /\ UNCHANGED ticketVars
      BY <2>1, SMT DEF Refuse
    <2>2. CASE Refuse(w, "sharingRefused") /\ UNCHANGED ticketVars
      BY <2>2, SMT DEF Refuse
    <2>3. CASE /\ Suspend(w, "consume") /\ Tk!Begin(w, ticketOf[w])
               /\ Join(w) # Host => JoinAllowed(Join(w))
      BY <1>7, <2>3, SMT DEF Validated, Suspend, Tk!Begin, JoinAllowed, Shares
    <2> HIDE DEF SessionInv, TunnelInv, TypeInv
    <2> QED
      BY <1>7, <2>1, <2>2, <2>3, SMT DEF Validated
  <1>8. ASSUME NEW w \in Sockets, NotConsumed(w) PROVE SessionInv'
    BY <1>8, SMT DEF NotConsumed, Refuse, Tk!Deny
  <1>9. ASSUME NEW w \in Sockets, Consumed(w) PROVE SessionInv'
    <2>1. CASE Establish(w)
      BY <1>9, <2>1, SMT DEF Consumed, Establish, Tk!Grant
    <2>2. CASE ConnectThrows(w)
      BY <1>9, <2>2, SMT DEF Consumed, ConnectThrows, Tk!Grant
    <2>3. CASE Suspend(w, NextStage("consume")) /\ NextStage("consume") # "done"
      BY <1>9, <2>3, SMT DEF Consumed, Suspend, NextStage, Tk!Grant
    <2> HIDE DEF SessionInv, TunnelInv, TypeInv
    <2> QED
      BY <1>9, <2>1, <2>2, <2>3, Zenon DEF Consumed, Proceed
  <1>10. ASSUME NEW w \in Sockets, HookAllows(w) PROVE SessionInv'
    <2>1. CASE Establish(w)
      BY <1>10, <2>1, SMT DEF HookAllows, Establish
    <2>2. CASE ConnectThrows(w)
      BY <1>10, <2>2, SMT DEF HookAllows, ConnectThrows
    <2>3. CASE Suspend(w, NextStage(stage[w])) /\ NextStage(stage[w]) # "done"
      BY <1>10, <2>3, SMT DEF HookAllows, Suspend, NextStage
    <2> HIDE DEF SessionInv, TunnelInv, TypeInv
    <2> QED
      BY <1>10, <2>1, <2>2, <2>3, Zenon DEF HookAllows, Proceed
  <1>11. ASSUME NEW w \in Sockets, HookRejects(w) PROVE SessionInv'
    BY <1>11, SMT DEF HookRejects, Refuse
  <1>12. ASSUME NEW w \in Sockets, Ready(w) PROVE SessionInv'
    BY <1>12, SMT DEF Ready
  <1>13. ASSUME NEW w \in Sockets, TunnelCloses(w) PROVE SessionInv'
    BY <1>13, SMT DEF TunnelCloses, Bury, Forget
  <1>14. ASSUME NEW w \in Sockets, WsEnds(w) PROVE SessionInv'
    BY <1>14, SMT DEF WsEnds, Bury, Forget
  <1>15. CASE Close
    BY <1>15, SMT DEF Close, Bury, Forget
  <1>16. CASE HttpStop
    BY <1>16, SMT DEF HttpStop
  <1>17. CASE Resolve
    BY <1>17, SMT DEF Resolve
  <1>18. CASE UNCHANGED vars
    BY <1>18, SMT
  <1>19. issued \subseteq Tickets
    OBVIOUS
  <1> HIDE DEF SessionInv, TunnelInv, TypeInv
  <1> QED
    BY <1>1, <1>2, <1>3, <1>4, <1>5, <1>6, <1>7, <1>8, <1>9, <1>10, <1>11, <1>12, <1>13, <1>14,
       <1>15, <1>16, <1>17, <1>18, <1>19, Zenon DEF Next, Arrival, HandlerStep, HttpClosed

----------------------------------------------------------------------------
\* No two handlers are past the limits.
Alone == \A v, w \in Admitted : v = w

\* While handlers pass the limits one at a time, the one under way has room.
Room ==
    /\ MaxConnections > 0 =>
        /\ Cardinality(active) <= MaxConnections
        /\ Admitted # {} => Cardinality(active) < MaxConnections
    /\ MaxJoined > 0 => \A s \in Sessions :
        /\ Cardinality(Participants(s)) <= MaxJoined
        /\ \A w \in Admitted : Join(w) = s => Cardinality(Participants(s)) < MaxJoined

LimitInv == admission = "single" => Alone /\ Room

\* Initially nobody is connected.
LEMMA InitLimit == Init => LimitInv
  <1> SUFFICES ASSUME Init PROVE LimitInv
    OBVIOUS
  <1>1. Sessions = {} /\ Admitted = {} /\ active = {}
    BY ServerAssumption, SMT DEF Init, Sessions, Admitted, None
  <1>2. Cardinality(active) = 0
    BY <1>1, FS_EmptySet, Zenon
  <1> QED
    BY <1>1, <1>2, ServerAssumption, SMT DEF LimitInv, Alone, Room

\* A step that leaves the sessions, the tickets' kinds and those already counted
\* as they are, adds nobody and admits nobody keeps the limits.
LEMMA Fewer ==
    ASSUME TypeInv, LimitInv, UNCHANGED admission, active' \subseteq active,
           Admitted' \subseteq Admitted, Sessions' \subseteq Sessions,
           \A s \in Sessions' : Participants(s)' \subseteq Participants(s),
           \A w \in Admitted' : Join(w)' = Join(w)
    PROVE  LimitInv'
  <1>1. active \subseteq Sockets /\ IsFiniteSet(Sockets)
    BY ServerAssumption DEF TypeInv, TypeOK
  <1>2. IsFiniteSet(active) /\ Cardinality(active') <= Cardinality(active)
        /\ Cardinality(active) \in Nat /\ Cardinality(active') \in Nat
    BY <1>1, FS_Subset, FS_CardinalityType, Zenon
  <1>3. \A s \in Sessions' :
            /\ Cardinality(Participants(s)') <= Cardinality(Participants(s))
            /\ Cardinality(Participants(s)) \in Nat /\ Cardinality(Participants(s)') \in Nat
    <2>1. \A s : Participants(s) \subseteq active
      BY DEF Participants
    <2> QED
      BY <1>2, <2>1, FS_Subset, FS_CardinalityType, Zenon
  <1>4. MaxConnections \in Nat /\ MaxJoined \in Nat
    BY ServerAssumption
  <1>5. CASE admission = "single"
    <2>1. Alone'
      BY <1>5, Zenon DEF LimitInv, Alone
    <2>2. MaxConnections > 0 =>
              /\ Cardinality(active') <= MaxConnections
              /\ Admitted' # {} => Cardinality(active') < MaxConnections
      BY <1>2, <1>4, <1>5, SMT DEF LimitInv, Room
    <2>3. ASSUME MaxJoined > 0, NEW s \in Sessions'
          PROVE  /\ Cardinality(Participants(s)') <= MaxJoined
                 /\ \A w \in Admitted' : Join(w)' = s => Cardinality(Participants(s)') < MaxJoined
      <3>1. s \in Sessions
        OBVIOUS
      <3>2. Cardinality(Participants(s)) <= MaxJoined
        BY <1>5, <2>3, <3>1, Zenon DEF LimitInv, Room
      <3>3. \A w \in Admitted : Join(w) = s => Cardinality(Participants(s)) < MaxJoined
        BY <1>5, <2>3, <3>1, Zenon DEF LimitInv, Room
      <3> QED
        BY <1>3, <1>4, <3>2, <3>3, SMT
    <2> QED
      BY <2>1, <2>2, <2>3, Zenon DEF LimitInv, Room
  <1> QED
    BY <1>5, Zenon DEF LimitInv

\* Those who take part in a session hold issued tickets.
LEMMA ActiveTickets ==
    ASSUME TypeInv, TunnelInv, NEW w \in active PROVE w \in Sockets /\ ticketOf[w] \in issued
  BY SMT DEF TypeInv, TypeOK, TunnelInv, Tunnels, Requests, Live

\* An admitted handler that establishes its tunnel takes the room it was promised.
LEMMA Enter ==
    ASSUME TypeInv, TunnelInv, SessionInv, LimitInv,
           NEW w \in Admitted, Establish(w), UNCHANGED admission
    PROVE  LimitInv'
  <1>1. w \in Sockets /\ active \subseteq Sockets /\ IsFiniteSet(Sockets) /\ conn[w] = "none"
    BY ServerAssumption, SMT DEF TypeInv, TypeOK, Admitted, TunnelInv, Requests
  <1>2. active' = active \cup {w} /\ session[w] = None
    BY <1>1, SMT DEF Establish, SessionInv, Identities
  <1>3. /\ Sessions' = Sessions
        /\ \A s \in Sockets : Participants(s)' \subseteq Participants(s) \cup {w}
        /\ \A s \in Sockets : Join(w) # s => Participants(s)' \subseteq Participants(s)
    BY <1>1, <1>2, ServerAssumption, SMT DEF Establish, Sessions, Participants, Join, None
  <1>4. Admitted' = Admitted \ {w}
    BY <1>1, SMT DEF Establish, Admitted, TypeInv, TypeOK
  <1>5. \A S, T : IsFiniteSet(S) /\ T \subseteq S \cup {w} =>
            /\ Cardinality(T) \in Nat /\ Cardinality(S) \in Nat
            /\ Cardinality(T) <= Cardinality(S) + 1
    <2> SUFFICES ASSUME NEW S, NEW T, IsFiniteSet(S), T \subseteq S \cup {w}
                 PROVE  /\ Cardinality(T) \in Nat /\ Cardinality(S) \in Nat
                        /\ Cardinality(T) <= Cardinality(S) + 1
      OBVIOUS
    <2>1. /\ IsFiniteSet(S \cup {w})
          /\ Cardinality(S \cup {w}) = IF w \in S THEN Cardinality(S) ELSE Cardinality(S) + 1
      BY FS_AddElement, Zenon
    <2>2. IsFiniteSet(T) /\ Cardinality(T) <= Cardinality(S \cup {w})
      BY <2>1, FS_Subset, Zenon
    <2>3. Cardinality(T) \in Nat /\ Cardinality(S) \in Nat
      BY <2>2, FS_CardinalityType, Zenon
    <2> QED
      BY <2>1, <2>2, <2>3, SMT
  <1>6. IsFiniteSet(active) /\ \A s : IsFiniteSet(Participants(s))
    <2>1. IsFiniteSet(active)
      BY <1>1, FS_Subset, Zenon
    <2>2. \A s : Participants(s) \subseteq active
      BY DEF Participants
    <2> QED
      BY <2>1, <2>2, FS_Subset, Zenon
  <1>7. MaxConnections \in Nat /\ MaxJoined \in Nat
    BY ServerAssumption
  <1>8. CASE admission = "single"
    <2>1. Alone /\ Room
      BY <1>8, Zenon DEF LimitInv
    <2>2. Admitted' = {}
      BY <1>4, <2>1, Zenon DEF Alone
    <2>3. MaxConnections > 0 => Cardinality(active') <= MaxConnections
      <3>1. MaxConnections > 0 => Cardinality(active) < MaxConnections
        BY <2>1, Zenon DEF Room
      <3>2. /\ Cardinality(active') \in Nat /\ Cardinality(active) \in Nat
            /\ Cardinality(active') <= Cardinality(active) + 1
        BY <1>2, <1>5, <1>6, Zenon
      <3> QED
        BY <1>7, <3>1, <3>2, SMT
    <2>4. ASSUME MaxJoined > 0, NEW s \in Sessions PROVE Cardinality(Participants(s)') <= MaxJoined
      <3>0. s \in Sockets
        BY DEF Sessions
      <3>1. CASE Join(w) = s
        <4>1. Cardinality(Participants(s)) < MaxJoined
          BY <2>1, <2>4, <3>1, Zenon DEF Room
        <4>2. /\ Cardinality(Participants(s)') \in Nat /\ Cardinality(Participants(s)) \in Nat
              /\ Cardinality(Participants(s)') <= Cardinality(Participants(s)) + 1
          BY <1>3, <1>5, <1>6, <3>0, Zenon
        <4> QED
          BY <1>7, <4>1, <4>2, SMT
      <3>2. CASE Join(w) # s
        <4>1. Cardinality(Participants(s)) <= MaxJoined
          BY <2>1, <2>4, Zenon DEF Room
        <4>2. Participants(s)' \subseteq Participants(s)
          BY <1>3, <3>0, <3>2, Zenon
        <4>3. IsFiniteSet(Participants(s)') /\ Cardinality(Participants(s)') <= Cardinality(Participants(s))
          BY <1>6, <4>2, FS_Subset, Zenon
        <4>4. Cardinality(Participants(s)') \in Nat /\ Cardinality(Participants(s)) \in Nat
          BY <1>6, <4>3, FS_CardinalityType, Zenon
        <4> QED
          BY <1>7, <4>1, <4>3, <4>4, SMT
      <3> QED
        BY <3>1, <3>2
    <2> QED
      BY <1>3, <2>2, <2>3, <2>4, Zenon DEF LimitInv, Alone, Room
  <1> QED
    BY <1>8, Zenon DEF LimitInv, Establish

\* A handler that goes past the limits when nobody else is there finds room.
LEMMA Admit ==
    ASSUME TypeInv, TunnelInv, SessionInv, LimitInv, NEW w \in Sockets, stage[w] = "validate",
           ~Full, Join(w) # Host => ~SessionFull(Join(w)), Suspend(w, "consume"),
           admission' = IF Admitted = {} THEN admission ELSE "overlapped"
    PROVE  LimitInv'
  <1>1. /\ Sessions' = Sessions /\ active' = active
        /\ \A s : Participants(s)' = Participants(s)
        /\ \A v : Join(v)' = Join(v)
    BY DEF Suspend, Sessions, Participants, Join
  <1>2. Admitted' = Admitted \cup {w}
    BY SMT DEF Suspend, Admitted, TypeInv, TypeOK
  <1>3. CASE Admitted = {} /\ admission = "single"
    <2>1. Alone' /\ Room
      BY <1>2, <1>3, Zenon DEF Alone, LimitInv
    <2>2. MaxConnections > 0 => Cardinality(active) < MaxConnections
      <3>1. active \subseteq Sockets /\ IsFiniteSet(Sockets)
        BY ServerAssumption DEF TypeInv, TypeOK
      <3>2. Cardinality(active) \in Nat
        BY <3>1, FS_Subset, FS_CardinalityType, Zenon
      <3> QED
        BY <3>2, ServerAssumption, SMT DEF Full
    <2>3. ASSUME MaxJoined > 0, NEW s \in Sessions, Join(w) = s
          PROVE  Cardinality(Participants(s)) < MaxJoined
      <3>1. s \in Sockets /\ s # Host
        BY ServerAssumption DEF Sessions, Host
      <3>2. active \subseteq Sockets /\ IsFiniteSet(Sockets) /\ Participants(s) \subseteq active
        BY ServerAssumption DEF TypeInv, TypeOK, Participants
      <3>3. IsFiniteSet(active)
        BY <3>2, FS_Subset, Zenon
      <3>4. Cardinality(Participants(s)) \in Nat
        BY <3>2, <3>3, FS_Subset, FS_CardinalityType, Zenon
      <3>5. ~(Cardinality(Participants(s)) >= MaxJoined)
        BY <2>3, <3>1, Zenon DEF SessionFull
      <3> QED
        BY <3>4, <3>5, ServerAssumption, SMT
    <2>4. Room'
      BY <1>1, <1>2, <1>3, <2>1, <2>2, <2>3, Zenon DEF Room
    <2> QED
      BY <2>1, <2>4, Zenon DEF LimitInv
  <1>4. CASE admission' # "single"
    BY <1>4, Zenon DEF LimitInv
  <1>5. (Admitted = {} /\ admission = "single") \/ admission' # "single"
    BY SMT
  <1> QED
    BY <1>3, <1>4, <1>5, Zenon

\* A session begins with its owner alone.
LEMMA Begins ==
    ASSUME TypeInv, TunnelInv, SessionInv, LimitInv, NEW w \in Sockets, Ready(w)
    PROVE  LimitInv'
  <1> USE ServerAssumption
  <1>1. /\ UNCHANGED admission /\ active' = active /\ w \in active
        /\ Admitted' = Admitted /\ \A v : Join(v)' = Join(v)
    BY DEF Ready, Admitted, Join
  <1>2. CASE Join(w) # Host
    <2>1. \A s \in Sockets : Participants(s)' = Participants(s)
      BY <1>2, SMT DEF Ready, Participants, Join, TypeInv, TypeOK, SessionInv, Identities, None
    <2>2. Join(w) # w
      BY <1>1, SMT DEF SessionInv, Identities, TunnelInv, Tunnels, Requests, Live
    <2>3. Sessions' = Sessions
      BY <1>2, <2>2, SMT DEF Ready, Sessions, TypeInv, TypeOK, SessionInv, Identities, None
    <2>4. \A s \in Sessions' : Participants(s)' = Participants(s)
      BY <2>1, <2>3, Zenon DEF Sessions
    <2> QED
      BY <1>1, <2>3, <2>4, Fewer, Zenon
  <1>3. CASE Join(w) = Host
    <2>1. session' = [session EXCEPT ![w] = w] /\ session[w] = None
      BY <1>3, SMT DEF Ready, SessionInv, Identities
    <2>2. \A v \in active \cup Admitted : Join(v) # w
      <3>1. \A v \in active \cup Admitted : v \in Sockets /\ ticketOf[v] \in issued
        BY SMT DEF TypeInv, TypeOK, TunnelInv, Tunnels, Requests, Live, Admitted
      <3> QED
        BY <2>1, <3>1, SMT DEF SessionInv, Identities, Join, None
    <2>3. Sessions' = Sessions \cup {w}
      BY <2>1, SMT DEF Sessions, TypeInv, TypeOK
    <2>4. \A v \in active : session[v] # w
      BY <2>1, <2>2, SMT DEF SessionInv, Identities, TypeInv, TypeOK, None
    <2>5. Participants(w)' = {w}
      BY <1>1, <2>1, <2>2, <2>4, SMT DEF Participants, Join, TypeInv, TypeOK
    <2>6. \A s \in Sessions : s # w => Participants(s)' = Participants(s)
      BY <1>1, <1>3, <2>1, SMT DEF Participants, Join, TypeInv, TypeOK, Sessions, None
    <2>7. Cardinality(Participants(w)') = 1
      BY <2>5, FS_Singleton, Zenon
    <2>8. w \notin Sessions
      BY <2>1, SMT DEF Sessions, None
    <2>9. MaxJoined > 0 => 1 <= MaxJoined
      BY SMT
    <2>10. ASSUME admission = "single" PROVE Alone' /\ Room'
      <3>1. Alone /\ Room
        BY <2>10, Zenon DEF LimitInv
      <3>2. MaxConnections > 0 =>
                /\ Cardinality(active') <= MaxConnections
                /\ Admitted' # {} => Cardinality(active') < MaxConnections
        BY <1>1, <3>1, Zenon DEF Room
      <3>3. ASSUME MaxJoined > 0, NEW s \in Sessions'
            PROVE  /\ Cardinality(Participants(s)') <= MaxJoined
                   /\ \A v \in Admitted' : Join(v)' = s => Cardinality(Participants(s)') < MaxJoined
        <4>1. CASE s = w
          BY <1>1, <2>2, <2>7, <2>9, <3>3, <4>1, Zenon
        <4>2. CASE s \in Sessions
          BY <1>1, <2>6, <2>8, <3>1, <3>3, <4>2, Zenon DEF Room
        <4> QED
          BY <2>3, <4>1, <4>2, Zenon
      <3> QED
        BY <1>1, <3>1, <3>2, <3>3, Zenon DEF Alone, Room
    <2> QED
      BY <1>1, <2>10, Zenon DEF LimitInv
  <1> QED
    BY <1>2, <1>3

\* A step that leaves sessions and tickets as they are cannot add participants.
LEMMA Leave ==
    ASSUME TypeInv, LimitInv, UNCHANGED <<admission, session, kind, ticketOf>>,
           active' \subseteq active, Admitted' \subseteq Admitted
    PROVE  LimitInv'
  <1>1. Sessions' = Sessions /\ \A v : Join(v)' = Join(v)
    BY DEF Sessions, Join
  <1>2. \A s : Participants(s)' \subseteq Participants(s)
    BY DEF Participants
  <1> QED
    BY <1>1, <1>2, Fewer, Zenon

\* Every action keeps the limits of a server that admits one request at a time.
LEMMA NextLimit == TypeInv /\ TunnelInv /\ SessionInv /\ LimitInv /\ [Next]_vars => LimitInv'
  <1> SUFFICES ASSUME TypeInv, TunnelInv, SessionInv, LimitInv, [Next]_vars PROVE LimitInv'
    OBVIOUS
  <1>1. ASSUME NEW t \in Tickets, UNCHANGED <<handlerVars, tunnelVars>>, t \notin issued,
               \A u \in issued : kind'[u] = kind[u]
        PROVE  LimitInv'
    <2>1. \A v \in active \cup Admitted : ticketOf[v] \in issued
      BY SMT DEF TypeInv, TypeOK, TunnelInv, Tunnels, Requests, Live, Admitted
    <2>2. Sessions' = Sessions /\ Admitted' = Admitted /\ active' = active
      BY <1>1 DEF Sessions, Admitted
    <2>3. \A v \in active \cup Admitted : Join(v)' = Join(v)
      BY <1>1, <2>1, SMT DEF Join
    <2>4. \A s \in Sessions' : Participants(s)' \subseteq Participants(s)
      BY <1>1, <2>1, SMT DEF Participants
    <2> QED
      BY <1>1, <2>2, <2>3, <2>4, Fewer, Zenon
  <1>2. ASSUME NEW t \in Tickets, IssueTicket(t) PROVE LimitInv'
    <2>1. t \notin issued /\ UNCHANGED <<handlerVars, tunnelVars>> /\ \A u \in issued : kind'[u] = kind[u]
      BY <1>2, SMT DEF IssueTicket, Tk!Issue, TypeInv, TypeOK, Tk!TypeOK
    <2> QED
      BY <1>1, <2>1, Zenon
  <1>3. ASSUME NEW t \in Tickets, NEW w \in Sockets, JoinSession(t, w) PROVE LimitInv'
    <2>1. t \notin issued /\ UNCHANGED <<handlerVars, tunnelVars>> /\ \A u \in issued : kind'[u] = kind[u]
      BY <1>3, SMT DEF JoinSession, Tk!Issue, TypeInv, TypeOK, Tk!TypeOK
    <2> QED
      BY <1>1, <2>1, Zenon
  <1>4. ASSUME NEW t \in Tickets, CloseTicket(t) PROVE LimitInv'
    BY <1>4, Leave, SMT DEF CloseTicket, Admitted
  <1>5. ASSUME NEW w \in Sockets, HandleNoTicket(w) PROVE LimitInv'
    <2>1. Admitted' \subseteq Admitted
      BY <1>5, SMT DEF HandleNoTicket, Admitted, TypeInv, TypeOK
    <2> QED
      BY <1>5, <2>1, Leave, SMT DEF HandleNoTicket
  <1>6. ASSUME NEW w \in Sockets, NEW t \in Tickets, HandleNewConnection(w, t) PROVE LimitInv'
    <2>1. stage[w] = "none" /\ w \notin active
      BY <1>6, SMT DEF HandleNewConnection, Accept, TunnelInv, Requests, Tunnels, Live
    <2>2. Admitted' = Admitted /\ w \notin Admitted
      BY <1>6, <2>1, SMT DEF HandleNewConnection, Admitted, TypeInv, TypeOK
    <2>3. /\ Sessions' = Sessions /\ active' = active /\ UNCHANGED admission
          /\ \A v \in Sockets : v # w => Join(v)' = Join(v)
      BY <1>6, SMT DEF HandleNewConnection, Sessions, Join, TypeInv, TypeOK
    <2>4. \A s \in Sessions' : Participants(s)' \subseteq Participants(s)
      BY <1>6, <2>1, SMT DEF HandleNewConnection, Participants, TypeInv, TypeOK
    <2>5. \A v \in Admitted' : Join(v)' = Join(v)
      BY <2>2, <2>3, Zenon DEF Admitted
    <2> QED
      BY <2>2, <2>3, <2>4, <2>5, Fewer, Zenon
  <1>7. ASSUME NEW w \in Sockets, NEW c, Refuse(w, c) PROVE LimitInv'
    <2>1. Admitted' \subseteq Admitted
      BY <1>7, SMT DEF Refuse, Admitted, TypeInv, TypeOK
    <2> QED
      BY <1>7, <2>1, Leave, Zenon DEF Refuse
  <1>8. ASSUME NEW w \in Sockets, Validated(w) PROVE LimitInv'
    <2>1. CASE \/ Refuse(w, "connectionsFull") \/ Refuse(w, "sessionFull")
            \/ Refuse(w, "sharingRefused")
      BY <1>7, <2>1, SMT
    <2>2. CASE /\ ~Full /\ (Join(w) # Host => ~SessionFull(Join(w)))
               /\ Suspend(w, "consume")
               /\ admission' = IF Admitted = {} THEN admission ELSE "overlapped"
      <3>1. stage[w] = "validate"
        BY <1>8, Zenon DEF Validated
      <3> QED
        BY <2>2, <3>1, Admit, SMT
    <2> QED
      BY <1>8, <2>1, <2>2, SMT DEF Validated
  <1>9. ASSUME NEW w \in Sockets, stage[w] \in {"consume", "before", "auth"},
               Proceed(w, stage[w]), UNCHANGED admission
        PROVE  LimitInv'
    <2>0. w \in Admitted
      BY <1>9, Zenon DEF Admitted
    <2>1. CASE Establish(w)
      BY <1>9, <2>0, <2>1, Enter, Zenon
    <2>2. CASE ConnectThrows(w)
      <3>1. Admitted' \subseteq Admitted
        BY <2>2, SMT DEF ConnectThrows, Admitted, TypeInv, TypeOK
      <3> QED
        BY <1>9, <2>2, <3>1, Leave, Zenon DEF ConnectThrows
    <2>3. CASE Suspend(w, NextStage(stage[w]))
      <3>1. Admitted' \subseteq Admitted
        BY <2>0, <2>3, SMT DEF Suspend, Admitted, TypeInv, TypeOK
      <3> QED
        BY <1>9, <2>3, <3>1, Leave, Zenon DEF Suspend
    <2> QED
      BY <1>9, <2>1, <2>2, <2>3, Zenon DEF Proceed
  <1>10. ASSUME NEW w \in Sockets, Ready(w) PROVE LimitInv'
    BY <1>10, Begins, Zenon
  <1>11. ASSUME UNCHANGED <<settingVars, handlerVars, session>>, active' \subseteq active
         PROVE  LimitInv'
    <2>1. Admitted' = Admitted
      BY <1>11 DEF Admitted
    <2> QED
      BY <1>11, <2>1, Leave, Zenon
  <1>12. ASSUME NEW w \in Sockets, TunnelCloses(w) PROVE LimitInv'
    BY <1>11, <1>12, SMT DEF TunnelCloses, Bury, Forget
  <1>13. ASSUME NEW w \in Sockets, WsEnds(w) PROVE LimitInv'
    BY <1>11, <1>13, SMT DEF WsEnds, Bury, Forget
  <1>14. CASE Close
    BY <1>11, <1>14, SMT DEF Close, Bury, Forget
  <1>15. CASE HttpStop \/ Resolve \/ UNCHANGED vars
    BY <1>11, <1>15, Zenon DEF HttpStop, Resolve
  <1>16. ASSUME NEW w \in Sockets, HandlerStep(w) PROVE LimitInv'
    <2>1. CASE Invalid(w) \/ NotConsumed(w) \/ HookRejects(w)
      BY <1>7, <2>1, SMT DEF Invalid, NotConsumed, HookRejects
    <2>2. CASE Consumed(w)
      BY <1>9, <2>2, SMT DEF Consumed
    <2>3. CASE HookAllows(w)
      BY <1>9, <2>3, SMT DEF HookAllows
    <2> QED
      BY <1>8, <1>16, <2>1, <2>2, <2>3, Zenon DEF HandlerStep
  <1>17. issued \subseteq Tickets
    BY DEF TypeInv, TypeOK, Tk!TypeOK
  <1> QED
    BY <1>2, <1>3, <1>4, <1>5, <1>6, <1>10, <1>12, <1>13, <1>14, <1>15, <1>16, <1>17, Zenon
       DEF Next, Arrival, HttpClosed

----------------------------------------------------------------------------
Inv == TypeInv /\ TunnelInv /\ SessionInv /\ LimitInv

\* The strengthened invariant holds in every reachable state.
LEMMA Inductive == Spec => []Inv
  <1>1. Init => Inv
    BY InitType, InitTunnel, InitSession, InitLimit DEF Inv
  <1>2. Inv /\ [Next]_vars => Inv'
    BY NextType, NextTunnel, NextSession, NextLimit DEF Inv
  <1> QED
    BY <1>1, <1>2, PTL DEF Spec

\* The server's variables keep their types, and a ticket that can be presented
\* has settings.
THEOREM Typing == Spec => []TypeOK
  <1>1. Inv => TypeOK
    BY DEF Inv, TypeInv
  <1> QED
    BY <1>1, Inductive, PTL

\* A ticket buys at most one tunnel, for the request that redeemed it.
THEOREM OneTunnel == Spec => []OneTunnelPerTicket
  <1>1. Inv => OneTunnelPerTicket
    BY SMT DEF Inv, TunnelInv, Requests, GrantedOnce, OneTunnelPerTicket
  <1> QED
    BY <1>1, Inductive, PTL

\* activeConnections is the set of live tunnels, but for one whose connect threw.
THEOREM ExactTable == Spec => []TableIsExact
  <1>1. Inv => TableIsExact
    BY SMT DEF Inv, TypeInv, TypeOK, TunnelInv, Tunnels, TableIsExact
  <1> QED
    BY <1>1, Inductive, PTL

\* A handler that returns without a tunnel has closed its WebSocket.
THEOREM Answered == Spec => []NoSilentRefusal
  <1>1. Inv => NoSilentRefusal
    BY Zenon DEF Inv, TunnelInv, Tunnels, NoSilentRefusal
  <1> QED
    BY <1>1, Inductive, PTL

\* A request that validation, a limit or the owner's setting refuses keeps its
\* ticket; only a hook costs a request that gets no tunnel its ticket.
THEOREM TicketKept == Spec => []RefusalKeepsTicket
  <1>1. Inv => RefusalKeepsTicket
    BY SMT DEF Inv, TunnelInv, Requests, RefusalKeepsTicket
  <1> QED
    BY <1>1, Inductive, PTL

\* Nobody is connected to a session whose owner did not share it.
THEOREM Consented == Spec => []SharingNeedsConsent
  <1>1. Inv => SharingNeedsConsent
    BY DEF Inv, SessionInv
  <1> QED
    BY <1>1, Inductive, PTL

\* The server-wide limit holds while handlers pass its test one at a time.
THEOREM ConnectionLimit == Spec => []LimitHoldsInSequence
  <1>1. Inv => LimitHoldsInSequence
    BY Zenon DEF Inv, LimitInv, Room, LimitHoldsInSequence
  <1> QED
    BY <1>1, Inductive, PTL

\* The limit of a shared session holds under the same condition.
THEOREM SessionLimit == Spec => []JoinLimitHoldsInSequence
  <1>1. Inv => JoinLimitHoldsInSequence
    BY Zenon DEF Inv, LimitInv, Room, JoinLimitHoldsInSequence
  <1> QED
    BY <1>1, Inductive, PTL

\* Seen from its tickets, the server is one more user of OneTimeTicket: it takes
\* no step with them that the ticket subsystem does not offer.
THEOREM TicketsRespected == Spec => Tk!Spec
  <1>1. Init => Tk!Init
    BY DEF Init
  <1>2. ASSUME TypeInv, [Next]_vars PROVE [Tk!Next]_(Tk!vars)
    <2> USE DEF Tk!vars
    <2>1. ASSUME NEW t \in Tickets, IssueTicket(t) \/ CloseTicket(t) PROVE Tk!Next
      BY <2>1, Zenon DEF IssueTicket, CloseTicket, Tk!Next
    <2>2. ASSUME NEW t \in Tickets, NEW w \in Sockets, JoinSession(t, w) PROVE Tk!Next
      BY <2>2, Zenon DEF JoinSession, Tk!Next
    <2>3. ASSUME NEW w \in Sockets, Arrival(w) PROVE UNCHANGED ticketVars
      BY <2>3, SMT DEF Arrival, HandleNoTicket, HandleNewConnection
    <2>4. ASSUME NEW w \in Sockets, HandlerStep(w) PROVE Tk!Next \/ UNCHANGED ticketVars
      <3>1. CASE Validated(w) \/ NotConsumed(w) \/ Consumed(w)
        <4>1. issued \subseteq Tickets
          BY <1>2 DEF TypeInv, TypeOK, Tk!TypeOK
        <4>2. Tk!Next \/ UNCHANGED ticketVars
          BY <3>1, <4>1, SMT DEF Validated, NotConsumed, Consumed, Tk!Next
        <4> QED
          BY <4>2
      <3>2. CASE Invalid(w) \/ HookAllows(w) \/ HookRejects(w)
        BY <3>2, SMT DEF Invalid, HookAllows, HookRejects
      <3> QED
        BY <2>4, <3>1, <3>2, Zenon DEF HandlerStep
    <2>5. ASSUME NEW w \in Sockets, Ready(w) \/ TunnelCloses(w) \/ WsEnds(w) PROVE UNCHANGED ticketVars
      BY <2>5, Zenon DEF Ready, TunnelCloses, WsEnds
    <2>6. CASE Close \/ HttpStop \/ HttpClosed \/ Resolve
      BY <2>6, Zenon DEF Close, HttpStop, HttpClosed, Resolve, Close
    <2> QED
      BY <1>2, <2>1, <2>2, <2>3, <2>4, <2>5, <2>6, Zenon DEF Next
  <1>3. Inv => TypeInv
    BY DEF Inv
  <1> QED
    BY <1>1, <1>2, <1>3, Inductive, PTL DEF Spec, Tk!Spec
=============================================================================
