---------------------------- MODULE TunnelProofs ----------------------------
(***************************************************************************)
(* Theorems about Tunnel, for any timers, buffer limit, number of messages *)
(* and instructions, against guacds that keep to their protocol and guacds *)
(* that do not.                                                            *)
(***************************************************************************)
EXTENDS Tunnel, SequenceTheorems, TLAPS

USE DEF vars, bridgeVars, guacdVars, timeVars, envVars

Events == {"ready", "error", "close"}
Written == {Select, Reply} \cup UserMessages

\* How the two halves and the socket to guacd move together.
Phases ==
    /\ guacd = "closed" => tcp = "destroyed"
    /\ tcp = "destroyed" => bridge = "closed"
    /\ tcp = "connecting" => guacd = "opening" /\ rx = <<>>
    /\ tcp = "up" => toGuacd # <<>>
    /\ toGuacd # <<>> => toGuacd[1] = Select

HalfInv == TypeOK /\ TornDown /\ BufferBounded /\ Phases

\* The initial state.
LEMMA InitHalf == Init => HalfInv
  <1> SUFFICES ASSUME Init PROVE HalfInv
    OBVIOUS
  <1> USE TunnelAssumption DEF Init, AllTimers
  <1>1. TypeOK
    BY SMT DEF TypeOK
  <1>2. TornDown /\ BufferBounded /\ Phases
    BY SMT DEF TornDown, BufferBounded, Phases
  <1> QED
    BY <1>1, <1>2 DEF HalfInv

----------------------------------------------------------------------------
(* The ways a tunnel ends.                                                 *)

Ended ==
    /\ bridge = "closed" /\ guacd = "closed" /\ tcp = "destroyed"
    /\ timers = {} /\ ws \in {"closing", "closed"} /\ events \in Seq(Events)

\* Tearing down leaves nothing.
LEMMA TornDownEnds ==
    ASSUME HalfInv, NEW w \in {"open", "closing", "closed"}, NEW notes \in Seq(Events),
           TearDown(w, notes)
    PROVE  Ended'
  <1> USE DEF TearDown, ShutGuacd, HalfInv
  <1>1. CASE bridge = "closed"
    BY <1>1, SMT DEF Ended, TornDown, TypeOK, Events
  <1>2. CASE bridge # "closed"
    <2>1. timers \ (GuacdTimers \cup BridgeTimers) = {}
      BY DEF TypeOK, AllTimers, GuacdTimers, BridgeTimers
    <2>2. events \o notes \o <<"close">> \in Seq(Events)
      BY SMT DEF TypeOK, Events
    <2>3. WsAfterClose(w) \in {"closing", "closed"}
      BY DEF WsAfterClose
    <2> QED
      BY <1>2, <2>1, <2>2, <2>3 DEF Ended
  <1> QED
    BY <1>1, <1>2

\* What stays of the invariant when a tunnel ends.
LEMMA EndedHalf ==
    ASSUME HalfInv, Ended', received' = received, toGuacd' = toGuacd, buffer' = buffer,
           bufferSize' = bufferSize, quiet' \in SUBSET {"guacdIdle", "wsIdle"},
           rx' \in Seq(Instructions), wire' \in Seq(Instructions),
           sentCount' = sentCount, peer' = peer, process' \in {"running", "gone", "unheard"},
           toClient' \in Seq({"id", "data", "error", "failure"})
    PROVE  HalfInv'
  <1>1. TypeOK'
    BY SMT DEF TypeOK, HalfInv, Ended, Events
  <1>2. TornDown'
    BY DEF Ended, TornDown
  <1>3. BufferBounded'
    BY DEF Ended, BufferBounded, HalfInv
  <1>4. Phases'
    BY DEF Ended, Phases, HalfInv
  <1> QED
    BY <1>1, <1>2, <1>3, <1>4 DEF HalfInv

\* close without an error.
LEMMA QuitEnds ==
    ASSUME HalfInv, Quit
    PROVE  Ended' /\ UNCHANGED <<toClient, process>>
  <1>1. ws \in {"open", "closing", "closed"} /\ << >> \in Seq(Events)
    BY SMT DEF HalfInv, TypeOK
  <1> QED
    BY <1>1, TornDownEnds DEF Quit

\* What is sent to the client is a message or nothing.
LEMMA SentType ==
    ASSUME HalfInv, NEW w, NEW i \in {"id", "data", "error", "failure"}
    PROVE  Sent(w, i) \in Seq({"id", "data", "error", "failure"})
  BY SMT DEF Sent, HalfInv, TypeOK

\* An error of either socket keeps the invariant, whether anyone listens or not.
LEMMA FailHalf ==
    ASSUME HalfInv, NEW w \in {"open", "closing", "closed"}, Fail(w),
           w = "open" => ws = "open",
           UNCHANGED <<buffer, bufferSize, toGuacd, quiet, envVars, rx, received>>
    PROVE  HalfInv'
  <1>1. toClient' \in Seq({"id", "data", "error", "failure"})
    BY SentType DEF Fail
  <1>2. CASE ErrorHandled
    <2>1. Ended' /\ process' = process
      <3>1. <<"error">> \in Seq(Events)
        BY SMT DEF Events
      <3> QED
        BY <1>2, <3>1, TornDownEnds DEF Fail
    <2> QED
      BY <1>1, <2>1, EndedHalf DEF HalfInv, TypeOK
  <1>3. CASE ~ErrorHandled
    <2>1. /\ process' = "gone" /\ ws' = w
          /\ UNCHANGED <<bridge, guacd, tcp, timers, events>>
      BY <1>3 DEF Fail
    <2>2. TypeOK'
      BY <1>1, <2>1, SMT DEF HalfInv, TypeOK
    <2>3. TornDown' /\ BufferBounded' /\ Phases'
      BY <2>1, SMT DEF HalfInv, TornDown, BufferBounded, Phases
    <2> QED
      BY <2>2, <2>3 DEF HalfInv
  <1> QED
    BY <1>2, <1>3

----------------------------------------------------------------------------
(* Every action keeps the types, the teardown complete and the buffer      *)
(* bounded.                                                                *)

\* The actions of the socket to guacd.
LEMMA SocketHalf == HalfInv /\ SocketStep => HalfInv'
  <1> SUFFICES ASSUME HalfInv, SocketStep PROVE HalfInv'
    OBVIOUS
  <1> USE DEF HalfInv, Idle
  <1>1. CASE HandleConnect
    <2>1. TypeOK'
      BY <1>1, SMT DEF HandleConnect, TypeOK, TimersOnceConnected
    <2>2. TornDown' /\ BufferBounded'
      BY <1>1, SMT DEF HandleConnect, TypeOK, TornDown, BufferBounded, Phases
    <2>3. toGuacd' = <<Select>>
      BY <1>1, SMT DEF HandleConnect, TypeOK
    <2>4. Phases'
      BY <1>1, <2>3, SMT DEF HandleConnect, TypeOK, Phases
    <2> QED
      BY <2>1, <2>2, <2>4
  <1>2. CASE HandleError
    BY <1>2, FailHalf DEF HandleError, TypeOK
  <1>3. CASE HandleClose
    BY <1>3, QuitEnds, EndedHalf DEF HandleClose, TypeOK
  <1>4. CASE WriteFails
    BY <1>4, QuitEnds, EndedHalf DEF WriteFails, TypeOK
  <1>5. CASE ParserOverflow
    <2>1. Ended' /\ UNCHANGED <<toClient, process>>
      BY <1>5, QuitEnds DEF ParserOverflow
    <2>2. wire' \in Seq(Instructions) /\ quiet' \in SUBSET {"guacdIdle", "wsIdle"}
      BY <1>5, SMT DEF ParserOverflow, TypeOK
    <2> QED
      BY <1>5, <2>1, <2>2, EndedHalf DEF ParserOverflow, TypeOK
  <1>6. ASSUME NEW n \in 1..Len(wire), HandleData(n) PROVE HalfInv'
    <2>1. rx' \in Seq(Instructions)
      BY <1>6, SMT DEF HandleData, TypeOK
    <2>2. wire' \in Seq(Instructions)
      BY <1>6, SMT DEF HandleData, TypeOK
    <2>3. TypeOK'
      BY <1>6, <2>1, <2>2, SMT DEF HandleData, TypeOK
    <2>4. TornDown' /\ BufferBounded' /\ Phases'
      BY <1>6, SMT DEF HandleData, TornDown, BufferBounded, Phases
    <2> QED
      BY <2>3, <2>4
  <1> QED
    BY <1>1, <1>2, <1>3, <1>4, <1>5, <1>6 DEF SocketStep

\* What Parsing leaves of the chunk.
LEMMA ParsingType ==
    ASSUME HalfInv, NEW i, Parsing(i)
    PROVE  rx' \in Seq(Instructions) /\ tcp # "connecting"
  BY SMT DEF Parsing, HalfInv, TypeOK, Phases

\* The instructions of guacd.
LEMMA InstructionHalf == HalfInv /\ ProcessInstruction => HalfInv'
  <1> SUFFICES ASSUME HalfInv, ProcessInstruction PROVE HalfInv'
    OBVIOUS
  <1> USE DEF HalfInv
  <1>1. CASE OnArgs
    <2>0. rx' \in Seq(Instructions) /\ tcp # "connecting" /\ process' \in {"running", "gone", "unheard"}
      BY <1>1, ParsingType DEF OnArgs, Survives
    <2>1. toGuacd' \in Seq(Written)
      BY <1>1, SMT DEF OnArgs, TypeOK, Written
    <2>2. TypeOK'
      BY <1>1, <2>0, <2>1, SMT DEF OnArgs, TypeOK, Written, Parsing
    <2>3. TornDown' /\ BufferBounded'
      BY <1>1, SMT DEF OnArgs, TornDown, BufferBounded, Parsing
    <2>4. Phases'
      <3>1. toGuacd' # <<>> => toGuacd # <<>> /\ toGuacd'[1] = toGuacd[1]
        BY <1>1, SMT DEF OnArgs, Phases, TypeOK
      <3>2. tcp = "up" => toGuacd' # <<>>
        <4>1. Len(Append(toGuacd, Reply)) = Len(toGuacd) + 1 /\ Len(toGuacd) \in Nat
          BY AppendProperties, LenProperties DEF TypeOK
        <4>2. Append(toGuacd, Reply) # <<>>
          BY <4>1, SMT
        <4> QED
          BY <1>1, <4>2 DEF OnArgs, Phases
      <3> QED
        BY <1>1, <2>0, <3>1, <3>2, SMT DEF OnArgs, Phases, Parsing
    <2> QED
      BY <2>2, <2>3, <2>4
  <1>2. CASE OnReady
    <2>0. rx' \in Seq(Instructions) /\ tcp # "connecting" /\ process' \in {"running", "gone", "unheard"}
      BY <1>2, ParsingType DEF OnReady, Survives
    <2>1. toGuacd' \in Seq(Written)
      BY <1>2, SMT DEF OnReady, TypeOK, Written, Flushed
    <2>2. events' \in Seq(Events)
      BY <1>2, SMT DEF OnReady, TypeOK, Events
    <2>3. toClient' \in Seq({"id", "data", "error", "failure"})
      BY <1>2, SentType DEF OnReady
    <2>4. buffer' = <<>> /\ bufferSize' = 0 /\ buffer' \in Seq(UserMessages)
      BY <1>2, SMT DEF OnReady
    <2>5. TypeOK'
      BY <1>2, <2>0, <2>1, <2>2, <2>3, <2>4, SMT DEF OnReady, TypeOK, Written, Events, Parsing
    <2>6. TornDown' /\ BufferBounded'
      BY <1>2, TunnelAssumption, SMT DEF OnReady, TornDown, BufferBounded, Parsing
    <2>7. Phases'
      BY <1>2, <2>0, SMT DEF OnReady, Phases, TypeOK, Parsing, Flushed
    <2> QED
      BY <2>5, <2>6, <2>7
  <1>3. CASE OnReadyClosedByHook
    <2>0. rx' \in Seq(Instructions) /\ process' \in {"running", "gone", "unheard"}
      BY <1>3, ParsingType DEF OnReadyClosedByHook, Survives
    <2>1. <<"ready">> \in Seq(Events) /\ ws \in {"open", "closing", "closed"}
      BY SMT DEF Events, TypeOK
    <2>2. Ended'
      BY <1>3, <2>1, TornDownEnds DEF OnReadyClosedByHook
    <2>3. TypeOK'
      BY <1>3, <2>0, <2>2, SMT DEF OnReadyClosedByHook, TypeOK, Ended, Events, Parsing
    <2>4. TornDown' /\ BufferBounded' /\ Phases'
      BY <1>3, <2>2, TunnelAssumption, SMT
         DEF OnReadyClosedByHook, TornDown, BufferBounded, Phases, Ended, Parsing
    <2> QED
      BY <2>3, <2>4
  <1>4. CASE OnReadyAgain \/ OnForward
    <2>0. rx' \in Seq(Instructions)
      BY <1>4, ParsingType DEF OnReadyAgain, OnForward
    <2>1. toClient' \in Seq({"id", "data", "error", "failure"})
      BY <1>4, SentType DEF OnReadyAgain, OnForward
    <2>2. UNCHANGED <<bridge, ws, events, guacdVars, timeVars, process, envVars, received>>
      BY <1>4 DEF OnReadyAgain, OnForward, Parsing
    <2>3. tcp # "connecting"
      BY <1>4, ParsingType DEF OnReadyAgain, OnForward
    <2>4. TypeOK'
      BY <2>0, <2>1, <2>2, SMT DEF TypeOK
    <2>5. TornDown' /\ BufferBounded' /\ Phases'
      BY <2>2, <2>3, SMT DEF TornDown, BufferBounded, Phases
    <2> QED
      BY <2>4, <2>5
  <1>5. CASE OnEmptyReady
    <2>0. rx' \in Seq(Instructions) /\ tcp # "connecting"
      BY <1>5, ParsingType DEF OnEmptyReady
    <2>1. CASE guacd = "closed"
      <3>1. TypeOK'
        BY <1>5, <2>0, <2>1, SMT DEF OnEmptyReady, Parsing, TypeOK
      <3>2. TornDown' /\ BufferBounded' /\ Phases'
        BY <1>5, <2>0, <2>1, SMT DEF OnEmptyReady, Parsing, TornDown, BufferBounded, Phases
      <3> QED
        BY <3>1, <3>2
    <2>2. CASE guacd # "closed"
      <3>1. Ended' /\ UNCHANGED <<toClient, process>>
        BY <1>5, <2>2, QuitEnds DEF OnEmptyReady
      <3> QED
        BY <1>5, <2>0, <3>1, EndedHalf DEF OnEmptyReady, Parsing, TypeOK
    <2> QED
      BY <2>1, <2>2
  <1>6. CASE OnErrorOpening
    <2>0. rx' \in Seq(Instructions)
      BY <1>6, ParsingType DEF OnErrorOpening
    <2>1. Ended' /\ UNCHANGED <<toClient, process>>
      BY <1>6, QuitEnds DEF OnErrorOpening
    <2> QED
      BY <1>6, <2>0, <2>1, EndedHalf DEF OnErrorOpening, Parsing, TypeOK
  <1> QED
    BY <1>1, <1>2, <1>3, <1>4, <1>5, <1>6 DEF ProcessInstruction

\* The actions of the WebSocket.
LEMMA WebSocketHalf == HalfInv /\ WebSocketStep => HalfInv'
  <1> SUFFICES ASSUME HalfInv, WebSocketStep PROVE HalfInv'
    OBVIOUS
  <1> USE DEF HalfInv, Idle, Listening
  <1>1. CASE HandleWsMessage
    <2>0. received' \in 0..MaxMessages /\ User(received') \in UserMessages
      BY <1>1, TunnelAssumption, SMT DEF HandleWsMessage, TypeOK, UserMessages
    <2>1. CASE /\ Quit
               /\ quiet' = quiet \ {"wsIdle"}
               /\ UNCHANGED <<buffer, bufferSize, toGuacd>>
      <3>1. Ended' /\ UNCHANGED <<toClient, process>>
        BY <2>1, QuitEnds
      <3>2. TypeOK'
        BY <1>1, <2>0, <2>1, <3>1, SMT DEF HandleWsMessage, TypeOK, Ended, Events
      <3>3. TornDown' /\ BufferBounded' /\ Phases'
        BY <2>1, <3>1, SMT DEF TornDown, BufferBounded, Phases, Ended
      <3> QED
        BY <3>2, <3>3
    <2>2. CASE /\ Buffers(guacd) /\ ~Overflows
               /\ buffer' = Append(buffer, User(received'))
               /\ bufferSize' = bufferSize + 1
               /\ quiet' = quiet \ {"wsIdle"}
               /\ UNCHANGED <<bridgeVars, guacd, tcp, toGuacd, timers, process>>
      <3>1. buffer' \in Seq(UserMessages) /\ Len(buffer') = Len(buffer) + 1
        BY <2>0, <2>2, AppendProperties DEF TypeOK
      <3>2. TypeOK'
        BY <1>1, <2>0, <2>2, <3>1, SMT DEF HandleWsMessage, TypeOK
      <3>3. TornDown' /\ BufferBounded' /\ Phases'
        BY <1>1, <2>2, <3>1, TunnelAssumption, SMT
           DEF HandleWsMessage, TornDown, BufferBounded, Phases, Buffers, Overflows, TypeOK
      <3> QED
        BY <3>2, <3>3
    <2>3. CASE /\ ~Buffers(guacd)
               /\ toGuacd' = Append(toGuacd, User(received'))
               /\ quiet' = {}
               /\ UNCHANGED <<bridgeVars, guacd, tcp, buffer, bufferSize, timers, process>>
      <3>1. toGuacd' \in Seq(Written) /\ tcp = "up" /\ toGuacd # <<>>
        BY <1>1, <2>0, <2>3, SMT
           DEF Written, TypeOK, Buffers, Phases, TornDown, HandleWsMessage
      <3>2. toGuacd' # <<>> /\ toGuacd'[1] = toGuacd[1]
        <4>1. toGuacd \in Seq(Written) /\ User(received') \in Written
          BY <2>0 DEF TypeOK, Written
        <4> QED
          BY <2>3, <3>1, <4>1, SMT
      <3>3. TypeOK'
        BY <1>1, <2>0, <2>3, <3>1, SMT DEF HandleWsMessage, TypeOK, Written
      <3>4. TornDown' /\ BufferBounded' /\ Phases'
        BY <1>1, <2>3, <3>1, <3>2, SMT
           DEF HandleWsMessage, TornDown, BufferBounded, Phases
      <3> QED
        BY <3>3, <3>4
    <2> QED
      BY <1>1, <2>1, <2>2, <2>3 DEF HandleWsMessage
  <1>2. CASE ClientLeaves
    <2>1. TypeOK'
      BY <1>2, SMT DEF ClientLeaves, TypeOK
    <2>2. TornDown' /\ BufferBounded' /\ Phases'
      BY <1>2, SMT DEF ClientLeaves, TornDown, BufferBounded, Phases
    <2> QED
      BY <2>1, <2>2
  <1>3. CASE HandleWsClose
    <2>1. CASE bridge # "closed"
      <3>1. Ended'
        BY <1>3, <2>1, TornDownEnds, EmptySeq DEF HandleWsClose
      <3> QED
        BY <1>3, <3>1, EndedHalf DEF HandleWsClose, TypeOK
    <2>2. CASE bridge = "closed"
      <3>1. TypeOK'
        BY <1>3, <2>2, SMT DEF HandleWsClose, TypeOK
      <3>2. TornDown' /\ BufferBounded' /\ Phases'
        BY <1>3, <2>2, SMT DEF HandleWsClose, TornDown, BufferBounded, Phases
      <3> QED
        BY <3>1, <3>2
    <2> QED
      BY <2>1, <2>2
  <1>4. CASE SendFails
    BY <1>4, QuitEnds, EndedHalf DEF SendFails, TypeOK
  <1>5. ASSUME NEW w \in {"open", "closing"}, HandleWsError(w) PROVE HalfInv'
    BY <1>5, FailHalf DEF HandleWsError
  <1>6. CASE StrippedWsError
    <2>1. TypeOK'
      BY <1>6, SMT DEF StrippedWsError, TypeOK
    <2>2. TornDown' /\ BufferBounded' /\ Phases'
      BY <1>6, SMT DEF StrippedWsError, TornDown, BufferBounded, Phases
    <2> QED
      BY <2>1, <2>2
  <1> QED
    BY <1>1, <1>2, <1>3, <1>4, <1>5, <1>6 DEF WebSocketStep

\* Time, the server, and guacd.
LEMMA OtherHalf ==
    ASSUME HalfInv,
           CloseByServer \/ TimeStep \/ (\E i \in Instructions : GuacdSends(i))
    PROVE  HalfInv'
  <1> USE DEF HalfInv, Idle
  <1>1. CASE CloseByServer
    BY <1>1, QuitEnds, EndedHalf DEF CloseByServer, TypeOK
  <1>2. ASSUME NEW t \in AllTimers, Elapse(t) PROVE HalfInv'
    <2>0. quiet' \in SUBSET {"guacdIdle", "wsIdle"}
      BY <1>2 DEF Elapse, TypeOK
    <2>1. TypeOK'
      BY <1>2, <2>0, SMT DEF Elapse, TypeOK
    <2>2. TornDown' /\ BufferBounded' /\ Phases'
      BY <1>2, SMT DEF Elapse, TornDown, BufferBounded, Phases
    <2> QED
      BY <2>1, <2>2
  <1>3. ASSUME NEW t \in AllTimers, TimerFires(t) PROVE HalfInv'
    BY <1>3, QuitEnds, EndedHalf DEF TimerFires, TypeOK
  <1>4. ASSUME NEW i \in Instructions, GuacdSends(i) PROVE HalfInv'
    <2>1. wire' \in Seq(Instructions)
      BY <1>4, SMT DEF GuacdSends, TypeOK
    <2>2. peer' \in {"unruly", "silent", "asked", "served", "failed"}
      BY <1>4, SMT DEF GuacdSends, TypeOK, After
    <2>3. TypeOK'
      BY <1>4, <2>1, <2>2, TunnelAssumption, SMT DEF GuacdSends, TypeOK
    <2>4. TornDown' /\ BufferBounded' /\ Phases'
      BY <1>4, SMT DEF GuacdSends, TornDown, BufferBounded, Phases
    <2> QED
      BY <2>3, <2>4
  <1> QED
    BY <1>1, <1>2, <1>3, <1>4 DEF TimeStep

LEMMA NextHalf == HalfInv /\ [Next]_vars => HalfInv'
  <1> SUFFICES ASSUME HalfInv, [Next]_vars PROVE HalfInv'
    OBVIOUS
  <1>1. CASE UNCHANGED vars
    <2>1. TypeOK' /\ TornDown' /\ BufferBounded' /\ Phases'
      BY <1>1, SMT DEF HalfInv, TypeOK, TornDown, BufferBounded, Phases
    <2> QED
      BY <2>1 DEF HalfInv
  <1>2. CASE Next
    BY <1>2, SocketHalf, InstructionHalf, WebSocketHalf, OtherHalf DEF Next
  <1> QED
    BY <1>1, <1>2

LEMMA AlwaysHalf == Spec => []HalfInv
  BY InitHalf, NextHalf, PTL DEF Spec

----------------------------------------------------------------------------
(* What the steps leave alone.                                             *)

\* Every step ends the tunnel, or leaves its halves and what is written to
\* guacd alone, or is one of four.
LEMMA Shapes ==
    ASSUME HalfInv, Next
    PROVE  \/ Ended' /\ toGuacd' = toGuacd
           \/ UNCHANGED <<bridge, guacd, tcp, timers, toGuacd, buffer, received>> /\ ws' = ws
           \/ UNCHANGED <<bridge, guacd, tcp, timers, toGuacd, buffer, received, toClient>>
           \/ process' = "gone" /\ UNCHANGED <<bridge, guacd, tcp, timers, toGuacd, buffer, received>>
           \/ HandleConnect \/ OnArgs \/ OnReady
           \/ HandleWsMessage /\ UNCHANGED <<bridge, guacd, tcp, timers, toClient>>
  <1>1. ASSUME NEW w \in {"open", "closing", "closed"}, Fail(w)
        PROVE  Ended' \/ (process' = "gone" /\ UNCHANGED <<bridge, guacd, tcp, timers>>)
    <2>1. <<"error">> \in Seq(Events)
      BY SMT DEF Events
    <2> QED
      BY <1>1, <2>1, TornDownEnds DEF Fail
  <1>2. ASSUME NEW i, Parsing(i) PROVE UNCHANGED <<envVars, received>>
    BY <1>2 DEF Parsing
  <1>3. ws \in {"open", "closing", "closed"}
    BY DEF HalfInv, TypeOK
  <1>4. <<"ready">> \in Seq(Events) /\ << >> \in Seq(Events)
    BY SMT DEF Events
  <1>5. CASE SocketStep
    <2>1. CASE HandleError
      BY <2>1, <1>1, <1>3 DEF HandleError
    <2>2. CASE HandleClose \/ WriteFails \/ ParserOverflow
      BY <2>2, QuitEnds DEF HandleClose, WriteFails, ParserOverflow
    <2>3. ASSUME NEW n \in 1..Len(wire), HandleData(n)
          PROVE UNCHANGED <<bridge, guacd, tcp, timers, toGuacd, buffer, received>> /\ ws' = ws
      BY <2>3 DEF HandleData
    <2> QED
      BY <1>5, <2>1, <2>2, <2>3 DEF SocketStep
  <1>6. CASE ProcessInstruction
    <2>1. CASE OnReadyClosedByHook
      BY <2>1, <1>3, <1>4, TornDownEnds DEF OnReadyClosedByHook
    <2>2. CASE OnReadyAgain \/ OnForward
      BY <2>2, <1>2 DEF OnReadyAgain, OnForward
    <2>3. CASE OnEmptyReady
      BY <2>3, <1>2, QuitEnds DEF OnEmptyReady
    <2>4. CASE OnErrorOpening
      BY <2>4, QuitEnds DEF OnErrorOpening
    <2> QED
      BY <1>6, <2>1, <2>2, <2>3, <2>4 DEF ProcessInstruction
  <1>7. CASE WebSocketStep
    <2>1. CASE HandleWsMessage
      BY <2>1, QuitEnds DEF HandleWsMessage
    <2>2. CASE ClientLeaves
      BY <2>2 DEF ClientLeaves
    <2>6. CASE StrippedWsError
      BY <2>6 DEF StrippedWsError
    <2>3. CASE HandleWsClose
      BY <2>3, <1>4, TornDownEnds DEF HandleWsClose
    <2>4. CASE SendFails
      BY <2>4, QuitEnds DEF SendFails
    <2>5. ASSUME NEW w \in {"open", "closing"}, HandleWsError(w)
          PROVE  /\ toGuacd' = toGuacd /\ UNCHANGED <<buffer, received>>
                 /\ Ended' \/ (process' = "gone" /\ UNCHANGED <<bridge, guacd, tcp, timers>>)
      BY <2>5, <1>1 DEF HandleWsError
    <2> QED
      BY <1>7, <2>1, <2>2, <2>3, <2>4, <2>5, <2>6 DEF WebSocketStep
  <1>8. CASE CloseByServer
    BY <1>8, QuitEnds DEF CloseByServer
  <1>9. CASE TimeStep
    <2>1. ASSUME NEW t \in AllTimers, Elapse(t)
          PROVE UNCHANGED <<bridge, guacd, tcp, timers, toGuacd, buffer, received>> /\ ws' = ws
      BY <2>1 DEF Elapse
    <2>2. ASSUME NEW t \in AllTimers, TimerFires(t)
          PROVE Ended' /\ toGuacd' = toGuacd
      BY <2>2, QuitEnds DEF TimerFires
    <2> QED
      BY <1>9, <2>1, <2>2 DEF TimeStep
  <1>10. CASE \E i \in Instructions : GuacdSends(i)
    BY <1>10 DEF GuacdSends
  <1> QED
    BY <1>5, <1>6, <1>7, <1>8, <1>9, <1>10 DEF Next

----------------------------------------------------------------------------
(* Nothing passes a closed bridge.                                         *)

Sealed == bridge = "closed" => bridge' = "closed" /\ UNCHANGED <<toClient, toGuacd, tcp, timers>>

\* Tearing down again changes nothing.
LEMMA StaysSealed == HalfInv /\ [Next]_vars => Sealed
  <1> SUFFICES ASSUME HalfInv, [Next]_vars, bridge = "closed"
               PROVE  bridge' = "closed" /\ UNCHANGED <<toClient, toGuacd, tcp, timers>>
    BY DEF Sealed
  <1>1. tcp = "destroyed" /\ timers = {}
    BY DEF HalfInv, TornDown
  <1>2. \A w, i : Sent(w, i) = toClient
    BY DEF Sent, Deliverable
  <1>3. ~Listening
    BY DEF Listening
  <1>4. ASSUME NEW w, NEW notes, TearDown(w, notes)
        PROVE  bridge' = "closed" /\ UNCHANGED <<tcp, timers>>
    BY <1>1, <1>4 DEF TearDown, ShutGuacd
  <1>5. ASSUME Quit PROVE bridge' = "closed" /\ UNCHANGED <<toClient, tcp, timers>>
    BY <1>4, <1>5 DEF Quit
  <1>6. CASE SocketStep
    BY <1>1, <1>6 DEF SocketStep, HandleConnect, HandleError, HandleClose, WriteFails,
       ParserOverflow, HandleData
  <1>7. CASE ProcessInstruction
    <2>1. CASE OnArgs
      BY <1>1, <2>1 DEF OnArgs
    <2>2. CASE OnReady
      BY <1>1, <1>2, <2>2 DEF OnReady, Flushed
    <2>3. CASE OnReadyClosedByHook
      BY <1>4, <2>3 DEF OnReadyClosedByHook
    <2>4. CASE OnReadyAgain \/ OnForward
      BY <1>2, <2>4 DEF OnReadyAgain, OnForward
    <2>5. CASE OnEmptyReady
      BY <1>5, <2>5 DEF OnEmptyReady
    <2>6. CASE OnErrorOpening
      BY <1>5, <2>6 DEF OnErrorOpening
    <2> QED
      BY <1>7, <2>1, <2>2, <2>3, <2>4, <2>5, <2>6 DEF ProcessInstruction
  <1>8. CASE WebSocketStep
    BY <1>3, <1>8 DEF WebSocketStep, HandleWsMessage, ClientLeaves, HandleWsClose, SendFails,
       HandleWsError, StrippedWsError
  <1>9. CASE CloseByServer
    BY <1>3, <1>9 DEF CloseByServer
  <1>10. CASE TimeStep
    BY <1>5, <1>10 DEF TimeStep, Elapse, TimerFires
  <1>11. CASE \E i \in Instructions : GuacdSends(i)
    BY <1>11 DEF GuacdSends
  <1>12. CASE UNCHANGED vars
    BY <1>12
  <1> QED
    BY <1>6, <1>7, <1>8, <1>9, <1>10, <1>11, <1>12 DEF Next

----------------------------------------------------------------------------
(* The order of what guacd is sent.                                        *)

\* guacd is sent Select once, first, and before the tunnel opens nothing of the
\* client's.
Early ==
    /\ guacd = "opening" => \A k \in DOMAIN toGuacd : toGuacd[k] \in {Select, Reply}
    /\ \A k \in DOMAIN toGuacd : toGuacd[k] = Select => k = 1

OrderInv == InOrderToGuacd /\ Early

LEMMA InitOrder == Init => OrderInv
  BY TunnelAssumption, SMT DEF Init, OrderInv, InOrderToGuacd, Early

\* An element that is appended comes last.
LEMMA Appended ==
    ASSUME NEW S, NEW s \in Seq(S), NEW e \in S
    PROVE  /\ Append(s, e) \in Seq(S) /\ Len(Append(s, e)) = Len(s) + 1
           /\ DOMAIN Append(s, e) = 1..(Len(s) + 1) /\ DOMAIN s = 1..Len(s) /\ Len(s) \in Nat
           /\ \A k \in 1..Len(s) : Append(s, e)[k] = s[k]
           /\ Append(s, e)[Len(s) + 1] = e
  BY AppendProperties, LenProperties, SMT

\* The next message of the client, while there is one.
LEMMA NextMessage ==
    ASSUME HalfInv, received < MaxMessages
    PROVE  User(received + 1) \in UserMessages /\ received \in Nat
  <1>1. received \in Nat /\ received + 1 \in 1..MaxMessages
    BY TunnelAssumption, SMT DEF HalfInv, TypeOK
  <1> QED
    BY <1>1 DEF UserMessages

\* A message that goes straight to guacd is the next one.
LEMMA DirectOrder ==
    ASSUME HalfInv, OrderInv, bridge # "closed", guacd = "open", received < MaxMessages,
           received' = received + 1, toGuacd' = Append(toGuacd, User(received + 1)),
           UNCHANGED <<bridge, guacd, buffer>>
    PROVE  OrderInv'
  <1> DEFINE L == Len(toGuacd)
  <1>1. User(received + 1) \in Written /\ toGuacd \in Seq(Written) /\ received \in Nat
    BY NextMessage DEF HalfInv, TypeOK, Written
  <1>2. /\ DOMAIN toGuacd' = 1..(L + 1) /\ DOMAIN toGuacd = 1..L /\ L \in Nat
        /\ \A k \in 1..L : toGuacd'[k] = toGuacd[k]
        /\ toGuacd'[L + 1] = User(received + 1)
    BY <1>1, Appended
  <1>3. buffer = <<>> /\ Len(buffer) = 0
    BY SMT DEF HalfInv, BufferBounded
  <1>4. /\ \A n \in 1..received : \E k \in 1..L : toGuacd[k] = User(n)
        /\ \A j, k \in 1..L : FromUser(toGuacd[j]) /\ FromUser(toGuacd[k]) =>
            toGuacd[k][2] <= received /\ (j < k => toGuacd[j][2] < toGuacd[k][2])
    <2>1. received - Len(buffer) = received
      BY <1>1, <1>3, SMT
    <2> QED
      BY <1>2, <2>1 DEF OrderInv, InOrderToGuacd
  <1>5. \A n \in 1..(received + 1) : \E k \in 1..(L + 1) : toGuacd'[k] = User(n)
    <2> SUFFICES ASSUME NEW n \in 1..(received + 1) PROVE \E k \in 1..(L + 1) : toGuacd'[k] = User(n)
      OBVIOUS
    <2>1. CASE n = received + 1
      BY <1>2, <2>1, SMT
    <2>2. CASE n # received + 1
      <3>1. n \in 1..received
        BY <1>1, <2>2, SMT
      <3>2. PICK k \in 1..L : toGuacd[k] = User(n)
        BY <1>4, <3>1
      <3>3. k \in 1..(L + 1) /\ toGuacd'[k] = User(n)
        BY <1>2, <3>2, SMT
      <3> QED
        BY <3>3
    <2> QED
      BY <2>1, <2>2
  <1>6. ASSUME NEW j \in 1..(L + 1), NEW k \in 1..(L + 1),
               FromUser(toGuacd'[j]), FromUser(toGuacd'[k])
        PROVE  toGuacd'[k][2] <= received + 1 /\ (j < k => toGuacd'[j][2] < toGuacd'[k][2])
    <2>1. \A i \in 1..L : FromUser(toGuacd'[i]) => toGuacd[i][2] <= received /\ toGuacd[i][2] \in Int
      <3> SUFFICES ASSUME NEW i \in 1..L, FromUser(toGuacd[i])
                   PROVE  toGuacd[i][2] <= received /\ toGuacd[i][2] \in Int
        BY <1>2
      <3>1. toGuacd[i] \in Written
        BY <1>1, <1>2, SMT
      <3> QED
        BY <1>4, <3>1, TunnelAssumption, SMT DEF Written, UserMessages, User, Select, Reply, FromUser
    <2>2. toGuacd'[L + 1][2] = received + 1
      BY <1>2, SMT DEF User
    <2> QED
      BY <1>1, <1>2, <1>4, <1>6, <2>1, <2>2, SMT
  <1>7. InOrderToGuacd'
    <2>1. received' - Len(buffer') = received + 1 /\ DOMAIN buffer' = {}
      BY <1>1, <1>3, SMT
    <2> QED
      BY <1>2, <1>5, <1>6, <2>1 DEF InOrderToGuacd
  <1>8. Early'
    BY <1>2, SMT DEF OrderInv, Early, User, Select
  <1> QED
    BY <1>7, <1>8 DEF OrderInv

\* The flush sends the whole buffer, and before it nothing of the client's.
LEMMA FlushOrder ==
    ASSUME HalfInv, OrderInv, bridge # "closed", guacd = "opening", toGuacd' = toGuacd \o buffer,
           guacd' = "open", buffer' = <<>>, UNCHANGED <<bridge, received>>
    PROVE  OrderInv'
  <1> DEFINE L == Len(toGuacd)  M == Len(buffer)
  <1>1. toGuacd \in Seq(Written) /\ buffer \in Seq(Written) /\ received \in Nat
    BY SMT DEF HalfInv, TypeOK, Written
  <1>2. /\ DOMAIN toGuacd' = 1..(L + M) /\ DOMAIN toGuacd = 1..L /\ L \in Nat /\ M \in Nat
        /\ DOMAIN buffer = 1..M
        /\ \A k \in 1..(L + M) : toGuacd'[k] = IF k <= L THEN toGuacd[k] ELSE buffer[k - L]
    BY <1>1, ConcatProperties, LenProperties, SMT
  <1>3. \A k \in 1..L : toGuacd[k] \in {Select, Reply}
    BY <1>2 DEF OrderInv, Early
  <1>4. /\ \A k \in 1..M : buffer[k] = User(received - M + k)
        /\ \A n \in 1..(received - M) : \E k \in 1..L : toGuacd[k] = User(n)
    BY <1>2 DEF OrderInv, InOrderToGuacd
  <1>5. received = M
    <2>1. received - M <= 0
      <3> SUFFICES ASSUME received - M >= 1 PROVE FALSE
        BY <1>1, <1>2, SMT
      <3>1. 1 \in 1..(received - M)
        BY <1>1, <1>2, SMT
      <3> QED
        BY <1>3, <1>4, <3>1, SMT DEF User, Select, Reply
    <2>2. received - M >= 0
      <3>1. CASE M = 0
        BY <1>1, <3>1, SMT
      <3>2. CASE M # 0
        <4>1. 1 \in 1..M /\ buffer[1] \in UserMessages
          BY <1>2, <3>2, SMT DEF HalfInv, TypeOK
        <4> QED
          BY <1>1, <1>2, <1>4, <4>1, TunnelAssumption, SMT DEF UserMessages, User
      <3> QED
        BY <3>1, <3>2
    <2>3. received \in Nat /\ M \in Nat
      BY <1>1, <1>2
    <2> HIDE DEF M
    <2> QED
      BY <2>1, <2>2, <2>3, SMT
  <1>6. /\ \A k \in 1..L : ~FromUser(toGuacd'[k])
        /\ \A k \in 1..M : toGuacd'[L + k] = User(k)
    BY <1>2, <1>3, <1>4, <1>5, SMT DEF FromUser, Select, Reply
  <1>7. ASSUME NEW n \in 1..received PROVE \E k \in 1..(L + M) : toGuacd'[k] = User(n)
    <2>1. L + n \in 1..(L + M) /\ toGuacd'[L + n] = User(n)
      BY <1>2, <1>5, <1>6, SMT
    <2> QED
      BY <2>1
  <1>8. ASSUME NEW j \in 1..(L + M), NEW k \in 1..(L + M),
               FromUser(toGuacd'[j]), FromUser(toGuacd'[k])
        PROVE  toGuacd'[k][2] <= received /\ (j < k => toGuacd'[j][2] < toGuacd'[k][2])
    <2>1. j > L /\ k > L
      BY <1>2, <1>6, <1>8, SMT
    <2>2. j - L \in 1..M /\ k - L \in 1..M
      BY <1>2, <2>1, SMT
    <2>3. toGuacd'[j] = User(j - L) /\ toGuacd'[k] = User(k - L)
      BY <1>2, <1>6, <2>1, <2>2, SMT
    <2> QED
      BY <1>2, <1>5, <2>1, <2>2, <2>3, SMT DEF User
  <1>9. InOrderToGuacd'
    <2>1. received' - Len(buffer') = received /\ DOMAIN buffer' = {}
      BY <1>1, SMT
    <2> QED
      BY <1>2, <1>7, <1>8, <2>1 DEF InOrderToGuacd
  <1>10. Early'
    <2>1. \A k \in 1..L : toGuacd[k] = Select => k = 1
      BY <1>2 DEF OrderInv, Early
    <2>2. \A k \in 1..(L + M) : toGuacd'[k] = Select => k = 1
      BY <1>2, <1>4, <2>1, SMT DEF User, Select
    <2> QED
      BY <1>2, <2>2, SMT DEF Early
  <1> QED
    BY <1>9, <1>10 DEF OrderInv

\* A message that is held back is the next one in the buffer.
LEMMA HeldOrder ==
    ASSUME HalfInv, OrderInv, bridge # "closed", received < MaxMessages,
           received' = received + 1, buffer' = Append(buffer, User(received + 1)),
           UNCHANGED <<bridge, guacd, toGuacd>>
    PROVE  OrderInv'
  <1>1. User(received + 1) \in UserMessages /\ buffer \in Seq(UserMessages) /\ received \in Nat
    BY NextMessage DEF HalfInv, TypeOK
  <1>2. /\ DOMAIN buffer' = 1..(Len(buffer) + 1) /\ DOMAIN buffer = 1..Len(buffer)
        /\ Len(buffer) \in Nat /\ Len(buffer') = Len(buffer) + 1
        /\ \A k \in 1..Len(buffer) : buffer'[k] = buffer[k]
        /\ buffer'[Len(buffer) + 1] = User(received + 1)
    BY <1>1, Appended
  <1>3. received' - Len(buffer') = received - Len(buffer)
    BY <1>1, <1>2, SMT
  <1>4. \A k \in DOMAIN buffer' : buffer'[k] = User(received - Len(buffer) + k)
    <2> SUFFICES ASSUME NEW k \in 1..(Len(buffer) + 1)
                 PROVE  buffer'[k] = User(received - Len(buffer) + k)
      BY <1>2
    <2>1. CASE k = Len(buffer) + 1
      BY <1>1, <1>2, <2>1, SMT DEF User
    <2>2. CASE k # Len(buffer) + 1
      <3>1. k \in 1..Len(buffer)
        BY <1>2, <2>2, SMT
      <3> QED
        BY <1>2, <3>1 DEF OrderInv, InOrderToGuacd
    <2> QED
      BY <2>1, <2>2
  <1>5. InOrderToGuacd'
    BY <1>3, <1>4 DEF OrderInv, InOrderToGuacd
  <1>6. Early'
    BY DEF OrderInv, Early
  <1> QED
    BY <1>5, <1>6 DEF OrderInv

\* Every step keeps the order.
LEMMA NextOrder == HalfInv /\ HalfInv' /\ OrderInv /\ [Next]_vars => OrderInv'
  <1> SUFFICES ASSUME HalfInv, HalfInv', OrderInv, [Next]_vars PROVE OrderInv'
    OBVIOUS
  <1>1. CASE Ended' /\ toGuacd' = toGuacd
    BY <1>1 DEF Ended, OrderInv, InOrderToGuacd, Early
  <1>2. CASE UNCHANGED <<bridge, guacd, toGuacd, buffer, received>>
    BY <1>2 DEF OrderInv, InOrderToGuacd, Early
  <1>3. CASE HandleConnect
    <2>1. toGuacd = <<>> /\ toGuacd' = <<Select>>
      BY <1>3, SMT DEF HandleConnect, HalfInv, TypeOK
    <2>2. InOrderToGuacd'
      BY <1>3, <2>1, SMT DEF HandleConnect, OrderInv, InOrderToGuacd, FromUser, Select
    <2>3. Early'
      BY <2>1, SMT DEF Early
    <2> QED
      BY <2>2, <2>3 DEF OrderInv
  <1>4. CASE OnArgs
    <2>1. UNCHANGED <<bridge, guacd, buffer, received>>
      BY <1>4 DEF OnArgs, Parsing
    <2>2. CASE toGuacd' = toGuacd
      BY <1>2, <2>1, <2>2
    <2>3. CASE toGuacd' = Append(toGuacd, Reply)
      <3>1. /\ DOMAIN toGuacd' = 1..(Len(toGuacd) + 1) /\ DOMAIN toGuacd = 1..Len(toGuacd)
            /\ Len(toGuacd) \in Nat /\ toGuacd'[Len(toGuacd) + 1] = Reply
            /\ \A k \in 1..Len(toGuacd) : toGuacd'[k] = toGuacd[k]
        BY <2>3, Appended DEF HalfInv, TypeOK
      <3>2. InOrderToGuacd'
        BY <2>1, <3>1, SMT DEF OrderInv, InOrderToGuacd, FromUser, Reply
      <3>3. Early'
        <4>1. Reply # Select
          BY SMT DEF Select, Reply
        <4>2. ASSUME NEW k \in 1..(Len(toGuacd) + 1)
              PROVE  k \in 1..Len(toGuacd) \/ toGuacd'[k] = Reply
          BY <3>1, SMT
        <4> QED
          BY <2>1, <3>1, <4>1, <4>2 DEF OrderInv, Early
      <3> QED
        BY <3>2, <3>3 DEF OrderInv
    <2> QED
      BY <1>4, <2>2, <2>3 DEF OnArgs
  <1>5. CASE OnReady
    <2>1. /\ guacd # "open" /\ guacd' = "open" /\ buffer' = <<>> /\ toGuacd' = Flushed
          /\ UNCHANGED <<bridge, received>> /\ tcp # "connecting"
      BY <1>5, ParsingType DEF OnReady, Parsing, Opens
    <2>2. CASE bridge = "closed"
      <3>1. toGuacd' = toGuacd
        BY <2>1, <2>2 DEF HalfInv, TornDown, Flushed
      <3> QED
        BY <2>1, <2>2, <3>1, SMT DEF OrderInv, InOrderToGuacd, Early
    <2>3. CASE bridge # "closed"
      <3>1. tcp = "up" /\ guacd = "opening"
        BY <2>1, <2>3, SMT DEF HalfInv, TypeOK, Phases
      <3> QED
        BY <2>1, <2>3, <3>1, FlushOrder DEF Flushed
    <2> QED
      BY <2>2, <2>3
  <1>6. CASE HandleWsMessage /\ UNCHANGED <<bridge, guacd>>
    <2>1. /\ bridge # "closed" /\ received < MaxMessages /\ received' = received + 1
      BY <1>6 DEF HandleWsMessage, Listening
    <2>2. CASE Quit
      BY <1>6, <2>1, <2>2, QuitEnds DEF Ended
    <2>3. CASE /\ buffer' = Append(buffer, User(received'))
               /\ toGuacd' = toGuacd
      BY <1>6, <2>1, <2>3, HeldOrder
    <2>4. CASE /\ ~Buffers(guacd) /\ toGuacd' = Append(toGuacd, User(received'))
               /\ buffer' = buffer
      <3>1. guacd = "open"
        BY <2>1, <2>4, SMT DEF HalfInv, TypeOK, Phases, Buffers
      <3> QED
        BY <1>6, <2>1, <2>4, <3>1, DirectOrder
    <2> QED
      BY <1>6, <2>2, <2>3, <2>4 DEF HandleWsMessage
  <1>7. CASE UNCHANGED vars
    BY <1>2, <1>7
  <1> QED
    BY <1>1, <1>2, <1>3, <1>4, <1>5, <1>6, <1>7, Shapes

----------------------------------------------------------------------------
(* A guacd that keeps to its protocol.                                     *)

\* The instructions on their way, in their order.
Transit == rx \o wire
Places == 1..Len(Transit)

\* What is on its way: no `error` but the last, and one `ready` at most.
Clean ==
    /\ \A k \in Places : Transit[k] # "empty"
    /\ \A k \in Places : Transit[k] = "error" => k = Len(Transit) /\ peer = "failed"
    /\ \A j, k \in Places : Transit[j] = "ready" /\ Transit[k] = "ready" => j = k

\* Where the handshake stands, seen from both ends.
Waiting ==
    /\ bridge = "closed" <=> guacd = "closed"
    /\ \A k \in 1..Len(rx) : Transit[k] = "ready" => guacd = "opening"
    /\ \A k \in Places : Transit[k] = "ready" => guacd # "open" /\ peer \notin {"silent", "asked"}
    /\ peer \in {"silent", "asked"} => guacd # "open"
    /\ guacd = "opening" =>
        \A k \in Places : Transit[k] = "data" => \E j \in 1..(k - 1) : Transit[j] = "ready"
    /\ guacd = "opening" /\ peer = "served" => \E k \in Places : Transit[k] = "ready"

\* The reply came before everything that it allows.
Replied ==
    \/ guacd = "open"
    \/ peer = "served"
    \/ \E k \in Places : Transit[k] = "ready"
    \/ \E k \in DOMAIN toGuacd : FromUser(toGuacd[k])
    => Len(toGuacd) >= 2 /\ toGuacd[2] = Reply

\* What the client has heard.
Heard ==
    /\ guacd = "opening" /\ process = "running" => toClient = <<>>
    /\ \A k \in DOMAIN toClient : toClient[k] = "failure" => bridge = "closed" \/ process = "gone"
    /\ guacd = "open" /\ bridge # "closed" /\ ws = "open" => toClient # <<>> /\ toClient[1] = "id"
    /\ \A k \in DOMAIN toClient :
        /\ toClient[k] = "id" => k = 1
        /\ toClient[k] \in {"data", "error"} => toClient[1] = "id"
        /\ toClient[k] = "failure" => k = Len(toClient)

Keeps == Conformant => Clean /\ Waiting /\ Replied /\ Heard

LEMMA InitKeeps == Init => Keeps
  <1> SUFFICES ASSUME Init PROVE Clean /\ Waiting /\ Replied /\ Heard
    BY DEF Keeps
  <1>1. rx = <<>> /\ wire = <<>> /\ Transit = <<>> /\ Places = {}
    BY SMT DEF Init, Transit, Places
  <1>2. Len(rx) = 0
    BY <1>1, SMT
  <1>3. Clean
    BY <1>1 DEF Clean
  <1>4. peer \in {"silent", "unruly"}
    BY TunnelAssumption DEF Init
  <1>5. Waiting
    BY <1>1, <1>2, <1>4, SMT DEF Waiting, Init
  <1>6. Replied
    BY <1>1, <1>4, SMT DEF Replied, Init
  <1>7. Heard
    BY SMT DEF Heard, Init
  <1> QED
    BY <1>3, <1>5, <1>6, <1>7

\* One sequence after another.
LEMMA Joined ==
    ASSUME NEW S, NEW r \in Seq(S), NEW w \in Seq(S)
    PROVE  /\ r \o w \in Seq(S) /\ Len(r) \in Nat /\ Len(w) \in Nat
           /\ Len(r \o w) = Len(r) + Len(w)
           /\ \A k \in 1..Len(r) : (r \o w)[k] = r[k]
           /\ \A k \in (Len(r) + 1)..(Len(r) + Len(w)) : (r \o w)[k] = w[k - Len(r)]
           /\ \A k \in 1..Len(r \o w) : (r \o w)[k] \in S
  <1>1. Len(r) \in Nat /\ Len(w) \in Nat /\ r \o w \in Seq(S) /\ Len(r \o w) = Len(r) + Len(w)
    BY ConcatProperties, LenProperties
  <1>2. \A k \in 1..(Len(r) + Len(w)) : (r \o w)[k] = IF k <= Len(r) THEN r[k] ELSE w[k - Len(r)]
    BY ConcatProperties
  <1>3. \A k \in 1..Len(r \o w) : (r \o w)[k] \in S
    BY <1>1, ElementOfSeq
  <1> QED
    BY <1>1, <1>2, <1>3, SMT

\* The chunk in the parser comes first.
LEMMA TransitType ==
    ASSUME HalfInv
    PROVE  /\ rx \in Seq(Instructions) /\ wire \in Seq(Instructions) /\ Transit \in Seq(Instructions)
           /\ Len(rx) \in Nat /\ Len(wire) \in Nat /\ Len(Transit) = Len(rx) + Len(wire)
           /\ \A k \in 1..Len(rx) : Transit[k] = rx[k]
           /\ \A k \in (Len(rx) + 1)..Len(Transit) : Transit[k] = wire[k - Len(rx)]
           /\ \A k \in Places : Transit[k] \in Instructions
  BY Joined DEF HalfInv, TypeOK, Transit, Places

\* The first d instructions are gone.
Dropped(d) ==
    /\ d \in Nat
    /\ Len(Transit) = Len(Transit)' + d
    /\ \A k \in Places' : Transit'[k] = Transit[k + d]

\* An instruction that is handed out is the first on its way.
LEMMA ParsingDrops ==
    ASSUME HalfInv, HalfInv', NEW i, Parsing(i)
    PROVE  /\ Dropped(1) /\ 1 \in Places /\ Transit[1] = i
           /\ 1 \in 1..Len(rx) /\ Len(rx) = Len(rx') + 1 /\ UNCHANGED <<wire, peer>>
           /\ process = "running"
  <1>1. rx # <<>> /\ Head(rx) = i /\ rx' = Tail(rx) /\ UNCHANGED <<wire, peer>> /\ process = "running"
    BY DEF Parsing
  <1>2. /\ Len(rx) \in Nat \ {0} /\ Len(rx') = Len(rx) - 1 /\ rx[1] = i
        /\ \A k \in 1..Len(rx') : rx'[k] = rx[k + 1]
    BY <1>1, TransitType, HeadTailProperties, SMT
  <1>3. 1 \in Places /\ Transit[1] = i /\ Len(rx) = Len(rx') + 1 /\ 1 \in 1..Len(rx)
    BY <1>2, TransitType, SMT DEF Places
  <1>4. /\ Len(rx') \in Nat /\ Len(Transit') = Len(rx') + Len(wire)
        /\ \A k \in 1..Len(rx') : Transit'[k] = rx'[k]
        /\ \A k \in (Len(rx') + 1)..Len(Transit') : Transit'[k] = wire[k - Len(rx')]
    <2>1. rx' \in Seq(Instructions) /\ wire \in Seq(Instructions) /\ Transit' = rx' \o wire
      BY <1>1 DEF Transit, HalfInv, TypeOK
    <2> QED
      BY <2>1, Joined
  <1>5. ASSUME NEW k \in 1..Len(Transit') PROVE Transit'[k] = Transit[k + 1]
    <2>1. CASE k \in 1..Len(rx')
      BY <1>2, <1>4, <2>1, TransitType, SMT
    <2>2. CASE k \notin 1..Len(rx')
      <3>1. /\ k \in (Len(rx') + 1)..Len(Transit') /\ k + 1 \in (Len(rx) + 1)..Len(Transit)
            /\ k - Len(rx') = (k + 1) - Len(rx)
        BY <1>2, <1>4, <2>2, TransitType, SMT
      <3> QED
        BY <1>4, <3>1, TransitType
    <2> QED
      BY <2>1, <2>2
  <1>6. Dropped(1)
    <2>1. /\ Len(rx) \in Nat /\ Len(wire) \in Nat /\ Len(Transit) = Len(rx) + Len(wire)
          /\ Len(rx') = Len(rx) - 1 /\ Len(Transit') = Len(rx') + Len(wire)
      BY <1>2, <1>4, TransitType
    <2>2. 1 \in Nat /\ Len(Transit) = Len(Transit') + 1
      BY <2>1, SMT
    <2> QED
      BY <1>5, <2>2 DEF Dropped, Places
  <1> QED
    BY <1>1, <1>3, <1>6

\* Where the instructions of a shorter Transit were before.
LEMMA DroppedPlaces ==
    ASSUME HalfInv, HalfInv', NEW d, Dropped(d)
    PROVE  /\ Len(Transit) \in Nat /\ Len(Transit') \in Nat /\ Len(Transit) = Len(Transit') + d
           /\ \A k \in Places' : k + d \in Places /\ Transit'[k] = Transit[k + d] /\ k \in Nat
           /\ Len(rx) \in Nat /\ Len(rx') \in Nat
  <1>1. Len(Transit) \in Nat /\ Len(rx) \in Nat
    BY TransitType, LenProperties
  <1>2. rx' \in Seq(Instructions) /\ wire' \in Seq(Instructions) /\ Transit' = rx' \o wire'
    BY DEF Transit, HalfInv, TypeOK
  <1>3. Len(Transit') \in Nat /\ Len(rx') \in Nat
    BY <1>2, Joined, LenProperties
  <1> QED
    BY <1>1, <1>3, SMT DEF Dropped, Places

\* Nothing unclean appears when something is gone.
LEMMA DroppedClean ==
    ASSUME HalfInv, HalfInv', Clean, NEW d, Dropped(d), peer' = peer
    PROVE  Clean'
  <1> USE DroppedPlaces
  <1>1. \A k \in Places' : Transit'[k] # "empty"
    BY DEF Clean
  <1>2. ASSUME NEW k \in Places', Transit'[k] = "error" PROVE k = Len(Transit') /\ peer = "failed"
    <2>1. k + d = Len(Transit) /\ peer = "failed"
      BY <1>2 DEF Clean
    <2> QED
      BY <2>1, SMT DEF Dropped, Places
  <1>3. ASSUME NEW j \in Places', NEW k \in Places', Transit'[j] = "ready", Transit'[k] = "ready"
        PROVE  j = k
    <2>1. j + d = k + d
      BY <1>3 DEF Clean
    <2> QED
      BY <2>1, SMT DEF Dropped, Places
  <1> QED
    BY <1>1, <1>2, <1>3 DEF Clean

Core == Clean /\ Waiting /\ Replied

\* What a `ready` on its way says stays true of it.
LEMMA DroppedReady ==
    ASSUME HalfInv, HalfInv', NEW d, Dropped(d), NEW k \in Places', Transit'[k] = "ready"
    PROVE  \E j \in Places : Transit[j] = "ready"
  BY DroppedPlaces

\* A tunnel that ends, wherever it was, keeps faith.
LEMMA EndKeeps ==
    ASSUME HalfInv, HalfInv', Core, Ended', toGuacd' = toGuacd, peer' = peer,
           NEW d, Dropped(d), \A k \in 1..Len(rx') : Transit'[k] # "ready"
    PROVE  Core'
  <1>1. Clean'
    BY DroppedClean DEF Core
  <1>2. bridge' = "closed" /\ guacd' = "closed"
    BY DEF Ended
  <1>3. \A k \in Places' : Transit'[k] = "ready" => peer \notin {"silent", "asked"}
    BY DroppedReady DEF Core, Waiting
  <1>4. Waiting'
    BY <1>2, <1>3, Zenon DEF Waiting
  <1>5. Replied'
    <2>1. (\E k \in Places' : Transit'[k] = "ready") => (\E k \in Places : Transit[k] = "ready")
      BY DroppedReady
    <2> QED
      BY <1>2, <2>1, Zenon DEF Core, Replied
  <1> QED
    BY <1>1, <1>4, <1>5 DEF Core

\* So does a tunnel that goes on as before.
LEMMA SameKeeps ==
    ASSUME HalfInv, HalfInv', Core, UNCHANGED <<bridge, guacd, toGuacd, peer, wire, rx>>
    PROVE  Core'
  <1>1. Transit' = Transit /\ Places' = Places
    BY DEF Transit, Places
  <1>2. Clean'
    BY <1>1 DEF Core, Clean
  <1>3. Waiting'
    BY <1>1 DEF Core, Waiting
  <1>4. Replied'
    BY <1>1 DEF Core, Replied
  <1> QED
    BY <1>2, <1>3, <1>4 DEF Core

\* Between chunks.
LEMMA IdleDrops ==
    ASSUME HalfInv, HalfInv', Idle, rx' = rx, UNCHANGED wire \/ wire' = <<>>
    PROVE  /\ \E d \in Nat : Dropped(d)
           /\ \A k \in 1..Len(rx') : Transit'[k] # "ready"
           /\ Len(rx) = 0
  <1>1. Len(rx) = 0 /\ Len(rx') = 0
    BY SMT DEF Idle
  <1>2. Len(Transit) \in Nat
    BY TransitType, LenProperties
  <1>3. CASE UNCHANGED wire
    <2>1. Transit' = Transit
      BY <1>3 DEF Transit
    <2>2. Dropped(0)
      BY <1>2, <2>1, SMT DEF Dropped, Places
    <2> QED
      BY <1>1, <2>2, SMT
  <1>4. CASE wire' = <<>>
    <2>1. Len(Transit') = 0
      BY <1>4, SMT DEF Transit, Idle
    <2>2. Dropped(Len(Transit))
      BY <1>2, <2>1, SMT DEF Dropped, Places
    <2> QED
      BY <1>1, <1>2, <2>2, SMT
  <1> QED
    BY <1>1, <1>3, <1>4

\* The tunnel ends between chunks.
LEMMA IdleEndKeeps ==
    ASSUME HalfInv, HalfInv', Core, Idle, rx' = rx, UNCHANGED wire \/ wire' = <<>>,
           Ended', toGuacd' = toGuacd, peer' = peer
    PROVE  Core'
  BY IdleDrops, EndKeeps

\* An error of either socket, with a listener and without.
LEMMA FailKeeps ==
    ASSUME HalfInv, HalfInv', Core, Idle, NEW w \in {"open", "closing", "closed"}, Fail(w),
           UNCHANGED <<toGuacd, peer, wire, rx>>
    PROVE  Core'
  <1>1. CASE ErrorHandled
    <2>1. <<"error">> \in Seq(Events)
      BY SMT DEF Events
    <2>2. Ended'
      BY <1>1, <2>1, TornDownEnds DEF Fail
    <2> QED
      BY <2>2, IdleEndKeeps
  <1>2. CASE ~ErrorHandled
    <2>1. UNCHANGED <<bridge, guacd>>
      BY <1>2 DEF Fail
    <2> QED
      BY <2>1, SameKeeps
  <1> QED
    BY <1>1, <1>2

\* What is written to guacd after the handshake does not touch it.
LEMMA ReplyKept ==
    ASSUME NEW S, toGuacd \in Seq(S), Len(toGuacd) >= 2, toGuacd[2] = Reply,
           NEW e \in Seq(S)
    PROVE  Len(toGuacd \o e) >= 2 /\ (toGuacd \o e)[2] = Reply
  BY Joined, SMT

\* The actions of the socket to guacd.
LEMMA SocketKeeps ==
    ASSUME HalfInv, HalfInv', Core, SocketStep
    PROVE  Core'
  <1>1. CASE HandleConnect
    <2>1. toGuacd = <<>> /\ UNCHANGED <<bridge, guacd, peer, wire, rx>>
      BY <1>1 DEF HandleConnect, HalfInv, TypeOK
    <2>2. Transit' = Transit /\ Places' = Places
      BY <2>1 DEF Transit, Places
    <2>3. Clean' /\ Waiting'
      BY <2>1, <2>2 DEF Core, Clean, Waiting
    <2>4. ~(Len(toGuacd) >= 2)
      BY <2>1, SMT
    <2>5. ~(guacd = "open" \/ peer = "served" \/ \E k \in Places : Transit[k] = "ready")
      BY <2>4 DEF Core, Replied
    <2>6. \A k \in DOMAIN toGuacd' : ~FromUser(toGuacd'[k])
      BY <1>1, <2>1, SMT DEF HandleConnect, FromUser, Select
    <2>7. Replied'
      BY <2>1, <2>2, <2>5, <2>6 DEF Replied
    <2> QED
      BY <2>3, <2>7 DEF Core
  <1>2. CASE HandleError
    BY <1>2, FailKeeps DEF HandleError, HalfInv, TypeOK
  <1>3. CASE HandleClose \/ WriteFails \/ ParserOverflow
    BY <1>3, QuitEnds, IdleEndKeeps DEF HandleClose, WriteFails, ParserOverflow
  <1>4. ASSUME NEW n \in 1..Len(wire), HandleData(n) PROVE Core'
    <2>1. /\ rx = <<>> /\ rx' = SubSeq(wire, 1, n) /\ wire' = SubSeq(wire, n + 1, Len(wire))
          /\ UNCHANGED <<bridge, guacd, toGuacd, peer>> /\ tcp = "up"
      BY <1>4 DEF HandleData, Idle
    <2>2. Transit' = Transit /\ Places' = Places
      <3>1. wire \in Seq(Instructions) /\ Len(wire) \in Nat
        BY TransitType
      <3>2. SubSeq(wire, 1, n) \o SubSeq(wire, n + 1, Len(wire)) = SubSeq(wire, 1, Len(wire))
        <4>1. 1 \in 1..(Len(wire) + 1) /\ n \in (1 - 1)..Len(wire) /\ Len(wire) \in n..Len(wire)
          BY <3>1, SMT
        <4> QED
          BY <3>1, <4>1, ConcatAdjacentSubSeq
      <3>3. SubSeq(wire, 1, Len(wire)) = wire /\ << >> \o wire = wire
        BY <3>1, SubSeqFull, ConcatEmptySeq
      <3> QED
        BY <2>1, <3>2, <3>3 DEF Transit, Places
    <2>3. Clean' /\ Replied'
      BY <2>1, <2>2 DEF Core, Clean, Replied
    <2>4. guacd # "closed"
      BY <2>1 DEF HalfInv, Phases
    <2>5. 1..Len(rx') \subseteq Places
      BY <2>1, <2>2, TransitType, SMT DEF Places
    <2>6. \A k \in 1..Len(rx') : Transit'[k] = "ready" => guacd' = "opening"
      BY <2>1, <2>2, <2>4, <2>5 DEF Core, Waiting, HalfInv, TypeOK
    <2>7. Waiting'
      BY <2>1, <2>2, <2>6 DEF Core, Waiting
    <2> QED
      BY <2>3, <2>7 DEF Core
  <1> QED
    BY <1>1, <1>2, <1>3, <1>4 DEF SocketStep

\* An instruction that leaves the tunnel as it is.
LEMMA PassedKeeps ==
    ASSUME HalfInv, HalfInv', Core, NEW i \in {"args", "data", "error"}, Parsing(i),
           UNCHANGED <<bridge, guacd>>, toGuacd' \in {toGuacd, Append(toGuacd, Reply)}
    PROVE  Core'
  <1>1. /\ Dropped(1) /\ 1 \in Places /\ Transit[1] = i /\ peer' = peer
        /\ Len(rx) = Len(rx') + 1
    BY ParsingDrops
  <1>2. /\ \A k \in Places' : k + 1 \in Places /\ Transit'[k] = Transit[k + 1] /\ k \in Nat
        /\ Len(Transit) \in Nat /\ Len(Transit') \in Nat /\ Len(Transit) = Len(Transit') + 1
        /\ Len(rx) \in Nat /\ Len(rx') \in Nat /\ Len(rx') <= Len(Transit')
    <2>1. /\ Len(Transit) \in Nat /\ Len(Transit') \in Nat /\ Len(Transit) = Len(Transit') + 1
          /\ \A k \in Places' : k + 1 \in Places /\ Transit'[k] = Transit[k + 1] /\ k \in Nat
          /\ Len(rx) \in Nat /\ Len(rx') \in Nat
      BY <1>1, DroppedPlaces
    <2>2. Len(rx) <= Len(Transit)
      BY TransitType, SMT
    <2>3. Len(rx') <= Len(Transit')
      BY <1>1, <2>1, <2>2, SMT
    <2> QED
      BY <2>1, <2>3
  <1>3. Clean'
    BY <1>1, DroppedClean DEF Core
  <1>4. ASSUME NEW k \in 1..Len(rx'), Transit'[k] = "ready" PROVE guacd = "opening"
    <2>1. k + 1 \in 1..Len(rx) /\ k \in Places'
      BY <1>1, <1>2, SMT DEF Places
    <2> QED
      BY <1>2, <1>4, <2>1 DEF Core, Waiting
  <1>5. ASSUME guacd = "opening", NEW k \in Places', Transit'[k] = "data"
        PROVE  \E j \in 1..(k - 1) : Transit'[j] = "ready"
    <2>1. PICK j \in 1..k : Transit[j] = "ready"
      <3>1. (k + 1) - 1 = k
        BY <1>2, SMT
      <3> QED
        BY <1>2, <1>5, <3>1 DEF Core, Waiting
    <2>2. j # 1
      BY <1>1, <2>1
    <2>3. j - 1 \in 1..(k - 1) /\ j - 1 \in Places' /\ (j - 1) + 1 = j
      BY <1>2, <1>5, <2>1, <2>2, SMT DEF Places
    <2>4. Transit'[j - 1] = "ready"
      BY <1>2, <2>1, <2>3
    <2> QED
      BY <2>3, <2>4
  <1>6. (\E k \in Places' : Transit'[k] = "ready") <=> (\E k \in Places : Transit[k] = "ready")
    <2>1. ASSUME NEW k \in Places, Transit[k] = "ready" PROVE \E j \in Places' : Transit'[j] = "ready"
      <3>1. k - 1 \in Places' /\ (k - 1) + 1 = k
        BY <1>1, <1>2, <2>1, SMT DEF Places
      <3> QED
        BY <1>2, <2>1, <3>1
    <2> QED
      BY <1>2, <2>1
  <1>7. Waiting'
    <2>1. \A k \in Places' : Transit'[k] = "ready" => guacd # "open" /\ peer \notin {"silent", "asked"}
      BY <1>2 DEF Core, Waiting
    <2>2. UNCHANGED <<bridge, guacd, peer>>
      BY <1>1
    <2> QED
      BY <1>4, <1>5, <1>6, <2>1, <2>2 DEF Core, Waiting
  <1>8. Replied'
    <2>0. toGuacd \in Seq(Written) /\ Reply \in Written
      BY DEF HalfInv, TypeOK, Written
    <2>1. (\E k \in DOMAIN toGuacd' : FromUser(toGuacd'[k])) => \E k \in DOMAIN toGuacd : FromUser(toGuacd[k])
      BY <2>0, Appended, SMT DEF FromUser, Reply
    <2>2. Len(toGuacd) >= 2 /\ toGuacd[2] = Reply => Len(toGuacd') >= 2 /\ toGuacd'[2] = Reply
      BY <2>0, Appended, SMT
    <2>3. UNCHANGED <<guacd, peer>>
      BY <1>1
    <2> QED
      BY <1>6, <2>1, <2>2, <2>3 DEF Core, Replied
  <1> QED
    BY <1>3, <1>7, <1>8 DEF Core

\* The instructions of guacd.
LEMMA InstructionKeeps ==
    ASSUME HalfInv, HalfInv', Core, ProcessInstruction
    PROVE  Core'
  <1>1. CASE OnArgs
    BY <1>1, PassedKeeps DEF OnArgs
  <1>2. CASE OnReady
    <2>1. /\ Dropped(1) /\ 1 \in Places /\ Transit[1] = "ready" /\ peer' = peer
          /\ 1 \in 1..Len(rx) /\ guacd' = "open" /\ bridge' = bridge
      BY <1>2, ParsingDrops DEF OnReady
    <2>2. guacd = "opening"
      BY <2>1 DEF Core, Waiting
    <2>3. \A k \in Places' : Transit'[k] # "ready"
      <3> SUFFICES ASSUME NEW k \in Places', Transit'[k] = "ready" PROVE FALSE
        OBVIOUS
      <3>1. k + 1 \in Places /\ Transit[k + 1] = "ready" /\ k \in Nat /\ k >= 1
        <4>1. k + 1 \in Places /\ Transit[k + 1] = "ready" /\ k \in Nat
          BY <2>1, DroppedPlaces
        <4>2. k >= 1
          BY <4>1, SMT DEF Places
        <4> QED
          BY <4>1, <4>2
      <3>2. k + 1 = 1
        BY <2>1, <3>1 DEF Core, Clean
      <3> QED
        BY <3>1, <3>2, SMT
    <2>4. Clean'
      BY <2>1, DroppedClean DEF Core
    <2>5. \A k \in 1..Len(rx') : Transit'[k] # "ready"
      <3>1. 1..Len(rx') \subseteq Places'
        <4>1. rx' \in Seq(Instructions) /\ wire' \in Seq(Instructions) /\ Transit' = rx' \o wire'
          BY DEF Transit, HalfInv, TypeOK
        <4>2. Len(rx') \in Nat /\ Len(wire') \in Nat /\ Len(Transit') = Len(rx') + Len(wire')
          BY <4>1, Joined
        <4> QED
          BY <4>2, SMT DEF Places
      <3> QED
        BY <2>3, <3>1
    <2>6. Waiting'
      <3>1. peer \notin {"silent", "asked"} /\ bridge # "closed"
        BY <2>1, <2>2 DEF Core, Waiting
      <3> QED
        BY <2>1, <2>3, <2>5, <3>1 DEF Waiting
    <2>7. Replied'
      <3>1. Len(toGuacd) >= 2 /\ toGuacd[2] = Reply
        BY <2>1 DEF Core, Replied
      <3>2. toGuacd \in Seq(Written) /\ buffer \in Seq(Written)
        BY SMT DEF HalfInv, TypeOK, Written
      <3>3. Len(toGuacd \o buffer) >= 2 /\ (toGuacd \o buffer)[2] = Reply
        BY <3>1, <3>2, ReplyKept
      <3> QED
        BY <1>2, <3>1, <3>3 DEF OnReady, Flushed, Replied
    <2> QED
      BY <2>4, <2>6, <2>7 DEF Core
  <1>3. CASE OnReadyClosedByHook
    <2>1. /\ Dropped(1) /\ 1 \in Places /\ Transit[1] = "ready" /\ peer' = peer
          /\ Len(rx) = Len(rx') + 1 /\ toGuacd' = toGuacd
      BY <1>3, ParsingDrops DEF OnReadyClosedByHook
    <2>2. Ended'
      <3>1. <<"ready">> \in Seq(Events) /\ ws \in {"open", "closing", "closed"}
        BY SMT DEF Events, HalfInv, TypeOK
      <3> QED
        BY <1>3, <3>1, TornDownEnds DEF OnReadyClosedByHook
    <2>3. \A k \in 1..Len(rx') : Transit'[k] # "ready"
      <3> SUFFICES ASSUME NEW k \in 1..Len(rx'), Transit'[k] = "ready" PROVE FALSE
        OBVIOUS
      <3>0. Len(rx) \in Nat /\ Len(rx') \in Nat /\ Len(rx) <= Len(Transit) /\ Len(Transit) \in Nat
            /\ Len(Transit) = Len(Transit') + 1
        <4>1. /\ Len(rx) \in Nat /\ Len(rx') \in Nat /\ Len(Transit) \in Nat
              /\ Len(Transit) = Len(Transit') + 1
          BY <2>1, DroppedPlaces
        <4>2. Len(rx) <= Len(Transit)
          BY TransitType, SMT
        <4> QED
          BY <4>1, <4>2
      <3>1. k \in Places' /\ k >= 1 /\ k \in Nat
        BY <2>1, <3>0, SMT DEF Places
      <3>2. k + 1 \in Places /\ Transit[k + 1] = "ready"
        BY <2>1, <3>1, DroppedPlaces
      <3>3. k + 1 = 1
        BY <2>1, <3>2 DEF Core, Clean
      <3> QED
        BY <3>1, <3>3, SMT
    <2> QED
      BY <2>1, <2>2, <2>3, EndKeeps
  <1>4. CASE OnReadyAgain
    <2>1. guacd = "open" /\ 1 \in 1..Len(rx) /\ Transit[1] = "ready"
      BY <1>4, ParsingDrops DEF OnReadyAgain, Opens
    <2> QED
      BY <2>1 DEF Core, Waiting
  <1>5. CASE OnEmptyReady
    <2>1. 1 \in Places /\ Transit[1] = "empty"
      BY <1>5, ParsingDrops DEF OnEmptyReady
    <2> QED
      BY <2>1 DEF Core, Clean
  <1>6. CASE OnErrorOpening
    <2>1. /\ Dropped(1) /\ 1 \in Places /\ Transit[1] = "error" /\ peer' = peer
          /\ Len(rx) = Len(rx') + 1 /\ toGuacd' = toGuacd
      BY <1>6, ParsingDrops DEF OnErrorOpening
    <2>2. Ended'
      BY <1>6, QuitEnds DEF OnErrorOpening
    <2>3. Len(Transit) = 1
      BY <2>1 DEF Core, Clean
    <2>4. \A k \in 1..Len(rx') : Transit'[k] # "ready"
      <3>1. Len(rx) \in Nat /\ Len(rx') \in Nat /\ Len(rx) <= 1
        BY <2>1, <2>3, DroppedPlaces, TransitType, SMT
      <3> QED
        BY <2>1, <3>1, SMT
    <2> QED
      BY <2>1, <2>2, <2>4, EndKeeps
  <1>7. CASE OnForward
    <2>1. PICK i \in {"data", "error"} : Parsing(i)
      BY <1>7 DEF OnForward
    <2> QED
      BY <1>7, <2>1, PassedKeeps DEF OnForward
  <1> QED
    BY <1>1, <1>2, <1>3, <1>4, <1>5, <1>6, <1>7 DEF ProcessInstruction

\* The actions of the WebSocket.
LEMMA WebSocketKeeps ==
    ASSUME HalfInv, HalfInv', Core, WebSocketStep
    PROVE  Core'
  <1>1. CASE HandleWsMessage
    <2>1. /\ Idle /\ rx' = rx /\ UNCHANGED <<wire, peer>> /\ received < MaxMessages
          /\ received' = received + 1 /\ bridge # "closed"
      BY <1>1 DEF HandleWsMessage, Listening
    <2>2. CASE Quit /\ UNCHANGED toGuacd
      BY <2>1, <2>2, QuitEnds, IdleEndKeeps
    <2>3. CASE UNCHANGED <<bridge, guacd, toGuacd>>
      BY <2>1, <2>3, SameKeeps
    <2>4. CASE /\ ~Buffers(guacd) /\ toGuacd' = Append(toGuacd, User(received'))
               /\ UNCHANGED <<bridge, guacd>>
      <3>1. guacd = "open"
        BY <2>1, <2>4, SMT DEF HalfInv, TypeOK, Phases, Buffers
      <3>2. Transit' = Transit /\ Places' = Places
        BY <2>1 DEF Transit, Places
      <3>3. Clean' /\ Waiting'
        BY <2>1, <2>4, <3>2 DEF Core, Clean, Waiting
      <3>4. Len(toGuacd) >= 2 /\ toGuacd[2] = Reply
        BY <3>1 DEF Core, Replied
      <3>5. toGuacd \in Seq(Written) /\ User(received') \in Written
        BY <2>1, NextMessage DEF HalfInv, TypeOK, Written
      <3>6. Len(toGuacd') >= 2 /\ toGuacd'[2] = Reply
        BY <2>4, <3>4, <3>5, Appended, SMT
      <3>7. Replied'
        BY <3>6 DEF Replied
      <3> QED
        BY <3>3, <3>7 DEF Core
    <2> QED
      BY <1>1, <2>2, <2>3, <2>4 DEF HandleWsMessage
  <1>2. CASE ClientLeaves
    BY <1>2, SameKeeps DEF ClientLeaves
  <1>3. CASE HandleWsClose
    <2>1. CASE bridge # "closed"
      <3>1. Ended'
        BY <1>3, <2>1, TornDownEnds, EmptySeq DEF HandleWsClose, Listening
      <3> QED
        BY <1>3, <3>1, IdleEndKeeps DEF HandleWsClose
    <2>2. CASE bridge = "closed"
      BY <1>3, <2>2, SameKeeps DEF HandleWsClose, Listening
    <2> QED
      BY <2>1, <2>2
  <1>4. CASE SendFails
    BY <1>4, QuitEnds, IdleEndKeeps DEF SendFails
  <1>5. ASSUME NEW w \in {"open", "closing"}, HandleWsError(w) PROVE Core'
    BY <1>5, FailKeeps DEF HandleWsError
  <1>6. CASE StrippedWsError
    BY <1>6, SameKeeps DEF StrippedWsError
  <1> QED
    BY <1>1, <1>2, <1>3, <1>4, <1>5, <1>6 DEF WebSocketStep

\* guacd goes on in its protocol.
LEMMA GuacdKeeps ==
    ASSUME HalfInv, HalfInv', OrderInv, Core, Conformant, NEW i \in Instructions, GuacdSends(i)
    PROVE  Core'
  <1> DEFINE L == Len(Transit)
  <1>1. /\ rx = <<>> /\ rx' = rx /\ wire' = Append(wire, i) /\ tcp = "up" /\ peer' = After(i)
        /\ UNCHANGED <<bridge, guacd, toGuacd>> /\ Answers(i)
    BY DEF GuacdSends, Idle
  <1>2. guacd # "closed" /\ guacd \in {"opening", "open", "closed"}
    BY <1>1 DEF HalfInv, TypeOK, Phases
  <1>3. Transit = wire /\ Transit' = Append(Transit, i) /\ Len(rx') = 0
    <2>1. wire \in Seq(Instructions) /\ wire' \in Seq(Instructions)
      BY DEF HalfInv, TypeOK
    <2>2. << >> \o wire = wire /\ << >> \o wire' = wire'
      BY <2>1, ConcatEmptySeq
    <2> QED
      BY <1>1, <2>2, SMT DEF Transit
  <1>4. /\ L \in Nat /\ Len(Transit') = L + 1 /\ Transit'[L + 1] = i
        /\ Places' = 1..(L + 1) /\ Places = 1..L
        /\ \A k \in Places : k \in Places' /\ Transit'[k] = Transit[k] /\ k # L + 1
        /\ \A k \in Places' : k \in Places \/ k = L + 1
    <2>1. Transit \in Seq(Instructions)
      BY TransitType
    <2>2. /\ L \in Nat /\ Len(Transit') = L + 1 /\ Transit'[L + 1] = i
          /\ \A k \in 1..L : Transit'[k] = Transit[k]
      BY <1>3, <2>1, Appended
    <2>3. Places' = 1..(L + 1) /\ Places = 1..L
      BY <2>2 DEF Places
    <2> QED
      BY <2>2, <2>3, SMT
  <1>5. /\ i \in {"args", "ready", "data", "error"}
        /\ i = "args" => peer = "silent" /\ peer' = "asked"
        /\ i = "ready" => peer = "asked" /\ peer' = "served" /\ \E k \in DOMAIN toGuacd : toGuacd[k] = Reply
        /\ i = "data" => peer = "served" /\ peer' = "served"
        /\ i = "error" => peer # "failed" /\ peer' = "failed"
    BY <1>1 DEF Answers, After, Conformant, Instructions
  <1>6. peer # "failed" /\ \A k \in Places : Transit[k] # "error"
    BY <1>5 DEF Core, Clean
  <1>7. Clean'
    <2>1. \A k \in Places' : Transit'[k] # "empty"
      BY <1>4, <1>5 DEF Core, Clean
    <2>2. \A k \in Places' : Transit'[k] = "error" => k = Len(Transit') /\ peer' = "failed"
      BY <1>4, <1>5, <1>6
    <2>3. i = "ready" => \A k \in Places : Transit[k] # "ready"
      BY <1>5 DEF Core, Waiting
    <2>4. \A j, k \in Places' : Transit'[j] = "ready" /\ Transit'[k] = "ready" => j = k
      BY <1>4, <2>3 DEF Core, Clean
    <2> QED
      BY <2>1, <2>2, <2>4 DEF Clean
  <1>8. Waiting'
    <2>1. \A k \in 1..Len(rx') : Transit'[k] = "ready" => guacd' = "opening"
      BY <1>3, SMT
    <2>2. ASSUME NEW k \in Places', Transit'[k] = "ready"
          PROVE  guacd # "open" /\ peer' \notin {"silent", "asked"}
      <3>1. CASE i = "ready"
        BY <1>5, <3>1 DEF Core, Waiting
      <3>2. CASE i # "ready"
        BY <1>4, <1>5, <2>2, <3>2 DEF Core, Waiting
      <3> QED
        BY <3>1, <3>2
    <2>3. peer' \in {"silent", "asked"} => guacd # "open"
      BY <1>5 DEF Core, Waiting
    <2>4. ASSUME guacd = "opening", NEW k \in Places', Transit'[k] = "data"
          PROVE  \E j \in 1..(k - 1) : Transit'[j] = "ready"
      <3>1. CASE k \in Places
        <4>1. Transit[k] = "data"
          BY <1>4, <2>4, <3>1
        <4>2. PICK j \in 1..(k - 1) : Transit[j] = "ready"
          BY <2>4, <3>1, <4>1 DEF Core, Waiting
        <4>3. j \in Places
          BY <1>4, <3>1, <4>2, SMT
        <4> QED
          BY <1>4, <4>2, <4>3
      <3>2. CASE k = L + 1
        <4>1. peer = "served"
          BY <1>4, <1>5, <2>4, <3>2
        <4>2. PICK j \in Places : Transit[j] = "ready"
          BY <2>4, <4>1 DEF Core, Waiting
        <4>3. j \in 1..(k - 1)
          BY <1>4, <3>2, <4>2, SMT
        <4> QED
          BY <1>4, <4>2, <4>3
      <3> QED
        BY <1>4, <3>1, <3>2
    <2>5. ASSUME guacd = "opening", peer' = "served" PROVE \E k \in Places' : Transit'[k] = "ready"
      <3>1. CASE i = "ready"
        BY <1>4, <3>1, SMT
      <3>2. CASE i # "ready"
        <4>1. peer = "served"
          BY <1>5, <2>5, <3>2
        <4> QED
          BY <1>4, <2>5, <4>1 DEF Core, Waiting
      <3> QED
        BY <3>1, <3>2
    <2> QED
      BY <1>1, <2>1, <2>2, <2>3, <2>4, <2>5 DEF Core, Waiting
  <1>9. Replied'
    <2>1. CASE i = "ready"
      <3>1. guacd = "opening"
        BY <1>2, <1>5, <2>1 DEF Core, Waiting
      <3>2. PICK k \in DOMAIN toGuacd : toGuacd[k] = Reply
        BY <1>5, <2>1
      <3>3. toGuacd \in Seq(Written) /\ DOMAIN toGuacd = 1..Len(toGuacd) /\ Len(toGuacd) \in Nat
        BY LenProperties DEF HalfInv, TypeOK, Written
      <3>4. toGuacd # <<>> /\ toGuacd[1] = Select /\ Select # Reply
        BY <1>1, SMT DEF HalfInv, Phases, Select, Reply
      <3>5. k # 1
        BY <3>2, <3>4
      <3>6. Len(toGuacd) >= 2 /\ 2 \in DOMAIN toGuacd
        BY <3>2, <3>3, <3>5, SMT
      <3>7. toGuacd[2] \in {Select, Reply} /\ (toGuacd[2] = Select => 2 = 1)
        BY <3>1, <3>6 DEF OrderInv, Early
      <3>8. toGuacd[2] = Reply
        BY <3>7, SMT
      <3> QED
        BY <1>1, <3>6, <3>8 DEF Replied
    <2>2. CASE i # "ready"
      <3>1. (\E k \in Places' : Transit'[k] = "ready") => \E k \in Places : Transit[k] = "ready"
        BY <1>4, <2>2
      <3>2. peer' = "served" => peer = "served"
        BY <1>5, <2>2
      <3> QED
        BY <1>1, <3>1, <3>2 DEF Core, Replied
    <2> QED
      BY <2>1, <2>2
  <1> QED
    BY <1>7, <1>8, <1>9 DEF Core

\* Every step keeps faith with a guacd that does.
LEMMA NextCore ==
    ASSUME HalfInv, HalfInv', OrderInv, Core, Conformant, [Next]_vars
    PROVE  Core'
  <1>1. CASE TimeStep
    <2>1. ASSUME NEW t \in AllTimers, Elapse(t) PROVE Core'
      BY <2>1, SameKeeps DEF Elapse
    <2>2. ASSUME NEW t \in AllTimers, TimerFires(t) PROVE Core'
      BY <2>2, QuitEnds, IdleEndKeeps DEF TimerFires
    <2> QED
      BY <1>1, <2>1, <2>2 DEF TimeStep
  <1>2. CASE CloseByServer
    BY <1>2, QuitEnds, IdleEndKeeps DEF CloseByServer
  <1>3. CASE UNCHANGED vars
    BY <1>3, SameKeeps
  <1> QED
    BY <1>1, <1>2, <1>3, SocketKeeps, InstructionKeeps, WebSocketKeeps, GuacdKeeps DEF Next

\* What the client hears, when a tunnel ends without a word.
LEMMA EndHeard ==
    ASSUME Heard, Ended', toClient' = toClient
    PROVE  Heard'
  BY DEF Heard, Ended

\* When nothing is said.
LEMMA SameHeard ==
    ASSUME Heard, UNCHANGED <<toClient, guacd, bridge>>, ws' = "open" => ws = "open",
           process' = process \/ process = "running"
    PROVE  Heard'
  BY DEF Heard

\* A message to the client comes last.
LEMMA SentLast ==
    ASSUME HalfInv, NEW w, NEW i \in {"id", "data", "error", "failure"}, Deliverable(w)
    PROVE  /\ Sent(w, i) # <<>> /\ Len(toClient) \in Nat /\ Len(Sent(w, i)) = Len(toClient) + 1
           /\ DOMAIN Sent(w, i) = 1..(Len(toClient) + 1) /\ DOMAIN toClient = 1..Len(toClient)
           /\ \A k \in DOMAIN toClient : Sent(w, i)[k] = toClient[k]
           /\ Sent(w, i)[Len(toClient) + 1] = i
           /\ \A k \in DOMAIN Sent(w, i) : k \in DOMAIN toClient \/ k = Len(toClient) + 1
  <1>1. toClient \in Seq({"id", "data", "error", "failure"}) /\ Sent(w, i) = Append(toClient, i)
    BY DEF HalfInv, TypeOK, Sent
  <1>2. /\ Len(toClient) \in Nat /\ Len(Sent(w, i)) = Len(toClient) + 1
        /\ DOMAIN Sent(w, i) = 1..(Len(toClient) + 1) /\ DOMAIN toClient = 1..Len(toClient)
        /\ \A k \in DOMAIN toClient : Sent(w, i)[k] = toClient[k]
        /\ Sent(w, i)[Len(toClient) + 1] = i
    BY <1>1, Appended
  <1>3. Sent(w, i) # <<>>
    BY <1>2, SMT
  <1>4. \A k \in DOMAIN Sent(w, i) : k \in DOMAIN toClient \/ k = Len(toClient) + 1
    BY <1>2, SMT
  <1> QED
    BY <1>2, <1>3, <1>4

\* A failure is the first failure the client hears, and the last message.
LEMMA FailHeard ==
    ASSUME HalfInv, HalfInv', Heard, bridge # "closed", process = "running",
           NEW w \in {"open", "closing", "closed"}, Fail(w), w = "open" => ws = "open"
    PROVE  Heard'
  <1>1. CASE ~Deliverable(w)
    <2>1. toClient' = toClient
      BY <1>1 DEF Fail, Sent
    <2>2. CASE ErrorHandled
      <3>1. <<"error">> \in Seq(Events)
        BY SMT DEF Events
      <3> QED
        BY <2>1, <2>2, <3>1, TornDownEnds, EndHeard DEF Fail
    <2>3. CASE ~ErrorHandled
      BY <2>1, <2>3, SameHeard DEF Fail
    <2> QED
      BY <2>2, <2>3
  <1>2. CASE Deliverable(w)
    <2>1. toClient' = Sent(w, "failure")
      BY DEF Fail
    <2>2. /\ toClient' # <<>> /\ Len(toClient') = Len(toClient) + 1
          /\ \A k \in DOMAIN toClient : toClient'[k] = toClient[k]
          /\ toClient'[Len(toClient) + 1] = "failure"
          /\ \A k \in DOMAIN toClient' : k \in DOMAIN toClient \/ k = Len(toClient) + 1
      BY <1>2, <2>1, SentLast
    <2>3. \A k \in DOMAIN toClient : toClient[k] # "failure"
      BY DEF Heard
    <2>4. (\E k \in DOMAIN toClient : TRUE) => 1 \in DOMAIN toClient
      BY SMT DEF HalfInv, TypeOK
    <2>5. \A k \in DOMAIN toClient' :
            /\ toClient'[k] = "id" => k = 1
            /\ toClient'[k] \in {"data", "error"} => toClient'[1] = "id"
            /\ toClient'[k] = "failure" => k = Len(toClient')
      BY <2>2, <2>3, <2>4 DEF Heard
    <2>6. \/ bridge' = "closed" /\ guacd' = "closed"
          \/ process' = "gone" /\ UNCHANGED <<bridge, guacd>> /\ ws' = w
      <3>1. <<"error">> \in Seq(Events)
        BY SMT DEF Events
      <3> QED
        BY <3>1, TornDownEnds DEF Fail, Ended
    <2>7. guacd' = "open" /\ bridge' # "closed" /\ ws' = "open" => toClient'[1] = "id"
      <3> SUFFICES ASSUME guacd' = "open", bridge' # "closed", ws' = "open" PROVE toClient'[1] = "id"
        OBVIOUS
      <3>1. toClient # <<>> /\ toClient[1] = "id"
        BY <2>6 DEF Heard
      <3>2. 1 \in DOMAIN toClient
        BY <3>1, SMT DEF HalfInv, TypeOK
      <3> QED
        BY <2>2, <3>1, <3>2
    <2> QED
      BY <2>2, <2>5, <2>6, <2>7 DEF Heard
  <1> QED
    BY <1>1, <1>2

\* What guacd says is heard behind the identifier.
LEMMA ForwardHeard ==
    ASSUME HalfInv, HalfInv', Heard, process = "running", guacd # "opening",
           bridge = "closed" <=> guacd = "closed",
           NEW i \in {"data", "error"}, toClient' = Sent(ws, i),
           UNCHANGED <<bridge, guacd, ws, process>>
    PROVE  Heard'
  <1>1. CASE ~Deliverable(ws)
    <2>1. toClient' = toClient
      BY <1>1 DEF Sent
    <2> QED
      BY <2>1, SameHeard
  <1>2. CASE Deliverable(ws)
    <2>1. bridge # "closed" /\ ws = "open" /\ guacd = "open"
      BY <1>2 DEF Deliverable, HalfInv, TypeOK
    <2>2. toClient # <<>> /\ toClient[1] = "id" /\ \A k \in DOMAIN toClient : toClient[k] # "failure"
      BY <2>1 DEF Heard
    <2>3. 1 \in DOMAIN toClient
      BY <2>2, SMT DEF HalfInv, TypeOK
    <2>4. /\ toClient' # <<>> /\ toClient'[Len(toClient) + 1] = i
          /\ \A k \in DOMAIN toClient : toClient'[k] = toClient[k]
          /\ \A k \in DOMAIN toClient' : k \in DOMAIN toClient \/ k = Len(toClient) + 1
      BY <1>2, SentLast
    <2>5. \A k \in DOMAIN toClient' :
            /\ toClient'[k] = "id" => k = 1
            /\ toClient'[k] # "failure" /\ toClient'[1] = "id"
      BY <2>2, <2>3, <2>4 DEF Heard
    <2> QED
      BY <2>1, <2>4, <2>5 DEF Heard
  <1> QED
    BY <1>1, <1>2

\* The identifier is the first thing the client hears.
LEMMA ReadyHeard ==
    ASSUME HalfInv, HalfInv', Heard, process = "running", guacd = "opening",
           bridge = "closed" <=> guacd = "closed",
           guacd' = "open", toClient' = Sent(ws, "id"), UNCHANGED <<bridge, ws>>
    PROVE  Heard'
  <1>1. toClient = <<>> /\ bridge # "closed"
    BY DEF Heard
  <1>2. CASE ws = "open"
    <2>1. toClient' = <<"id">>
      BY <1>1, <1>2, SMT DEF Sent, Deliverable
    <2>2. toClient' # <<>> /\ DOMAIN toClient' = {1} /\ toClient'[1] = "id"
      BY <2>1, SMT
    <2> QED
      BY <2>2 DEF Heard
  <1>3. CASE ws # "open"
    <2>1. toClient' = <<>> /\ DOMAIN toClient' = {}
      BY <1>1, <1>3, SMT DEF Sent, Deliverable
    <2> QED
      BY <1>3, <2>1 DEF Heard
  <1> QED
    BY <1>2, <1>3

\* Every step keeps what the client hears in order.
LEMMA NextHeard ==
    ASSUME HalfInv, HalfInv', Core, Heard, [Next]_vars
    PROVE  Heard'
  <1> USE DEF Idle, Listening
  <1>0. ws \in {"open", "closing", "closed"}
    BY DEF HalfInv, TypeOK
  <1>1. CASE SocketStep
    <2>1. CASE HandleConnect
      BY <2>1, SameHeard DEF HandleConnect
    <2>2. CASE HandleError
      <3>1. bridge # "closed"
        BY <2>2 DEF HandleError, HalfInv, TornDown
      <3> QED
        BY <1>0, <2>2, <3>1, FailHeard DEF HandleError
    <2>3. CASE HandleClose \/ WriteFails \/ ParserOverflow
      BY <2>3, QuitEnds, EndHeard DEF HandleClose, WriteFails, ParserOverflow
    <2>4. ASSUME NEW n \in 1..Len(wire), HandleData(n) PROVE Heard'
      BY <2>4, SameHeard DEF HandleData
    <2> QED
      BY <1>1, <2>1, <2>2, <2>3, <2>4 DEF SocketStep
  <1>2. CASE ProcessInstruction
    <2>1. CASE OnArgs
      <3>1. UNCHANGED <<toClient, guacd, bridge, ws>> /\ process = "running"
        BY <2>1 DEF OnArgs, Parsing
      <3> QED
        BY <3>1, SameHeard
    <2>2. CASE OnReady
      <3>1. 1 \in 1..Len(rx) /\ Transit[1] = "ready" /\ process = "running"
        BY <2>2, ParsingDrops DEF OnReady
      <3>2. guacd = "opening" /\ (bridge = "closed" <=> guacd = "closed")
        BY <3>1 DEF Core, Waiting
      <3> QED
        BY <2>2, <3>1, <3>2, ReadyHeard DEF OnReady
    <2>3. CASE OnReadyClosedByHook
      <3>1. <<"ready">> \in Seq(Events)
        BY SMT DEF Events
      <3> QED
        BY <1>0, <2>3, <3>1, TornDownEnds, EndHeard DEF OnReadyClosedByHook
    <2>4. CASE OnReadyAgain
      <3>1. guacd = "open" /\ 1 \in 1..Len(rx) /\ Transit[1] = "ready"
        BY <2>4, ParsingDrops DEF OnReadyAgain, Opens
      <3> QED
        BY <3>1 DEF Core, Waiting
    <2>5. CASE OnEmptyReady
      <3>1. 1 \in Places /\ Transit[1] = "empty"
        BY <2>5, ParsingDrops DEF OnEmptyReady
      <3> QED
        BY <3>1 DEF Core, Clean
    <2>6. CASE OnErrorOpening
      BY <2>6, QuitEnds, EndHeard DEF OnErrorOpening
    <2>7. CASE OnForward
      <3>1. PICK i \in {"data", "error"} :
                Parsing(i) /\ (i = "error" => guacd # "opening") /\ toClient' = Sent(ws, i)
        BY <2>7 DEF OnForward
      <3>2. 1 \in Places /\ Transit[1] = i /\ process = "running"
        BY <3>1, ParsingDrops
      <3>3. guacd # "opening"
        <4> SUFFICES ASSUME guacd = "opening", i = "data" PROVE FALSE
          BY <3>1
        <4>1. \E j \in 1..(1 - 1) : Transit[j] = "ready"
          BY <3>2 DEF Core, Waiting
        <4> QED
          BY <4>1, SMT
      <3> QED
        BY <2>7, <3>1, <3>2, <3>3, ForwardHeard DEF OnForward, Core, Waiting
    <2> QED
      BY <1>2, <2>1, <2>2, <2>3, <2>4, <2>5, <2>6, <2>7 DEF ProcessInstruction
  <1>3. CASE WebSocketStep
    <2>1. CASE HandleWsMessage
      <3>1. CASE Quit
        BY <3>1, QuitEnds, EndHeard
      <3>2. CASE UNCHANGED <<toClient, guacd, bridge, ws, process>>
        BY <3>2, SameHeard
      <3> QED
        BY <2>1, <3>1, <3>2 DEF HandleWsMessage
    <2>2. CASE ClientLeaves
      BY <2>2, SameHeard DEF ClientLeaves
    <2>3. CASE HandleWsClose
      <3>1. CASE bridge # "closed"
        BY <2>3, <3>1, TornDownEnds, EmptySeq, EndHeard DEF HandleWsClose
      <3>2. CASE bridge = "closed"
        BY <2>3, <3>2, SameHeard DEF HandleWsClose
      <3> QED
        BY <3>1, <3>2
    <2>4. CASE SendFails
      BY <2>4, QuitEnds, EndHeard DEF SendFails
    <2>5. ASSUME NEW w \in {"open", "closing"}, HandleWsError(w) PROVE Heard'
      BY <2>5, FailHeard DEF HandleWsError
    <2>6. CASE StrippedWsError
      BY <2>6, SameHeard DEF StrippedWsError, Idle
    <2> QED
      BY <1>3, <2>1, <2>2, <2>3, <2>4, <2>5, <2>6 DEF WebSocketStep
  <1>4. CASE CloseByServer
    BY <1>4, QuitEnds, EndHeard DEF CloseByServer
  <1>5. CASE TimeStep
    <2>1. ASSUME NEW t \in AllTimers, Elapse(t) PROVE Heard'
      BY <2>1, SameHeard DEF Elapse
    <2>2. ASSUME NEW t \in AllTimers, TimerFires(t) PROVE Heard'
      BY <2>2, QuitEnds, EndHeard DEF TimerFires
    <2> QED
      BY <1>5, <2>1, <2>2 DEF TimeStep
  <1>6. CASE \E i \in Instructions : GuacdSends(i)
    BY <1>6, SameHeard DEF GuacdSends
  <1>7. CASE UNCHANGED vars
    BY <1>7, SameHeard
  <1> QED
    BY <1>1, <1>2, <1>3, <1>4, <1>5, <1>6, <1>7 DEF Next

----------------------------------------------------------------------------
(* The invariant.                                                          *)

TunnelInv == HalfInv /\ OrderInv /\ Keeps

\* A peer that keeps to no protocol never starts to.
LEMMA PeerStays == [Next]_vars => (Conformant' => Conformant)
  <1> SUFFICES ASSUME [Next]_vars, peer = "unruly" PROVE peer' = "unruly"
    BY DEF Conformant
  <1>1. ASSUME NEW i \in Instructions, GuacdSends(i) PROVE peer' = "unruly"
    <2>1. peer' = After(i)
      BY <1>1 DEF GuacdSends
    <2>2. After(i) = "unruly"
      BY SMT DEF After
    <2> QED
      BY <2>1, <2>2
  <1>2. CASE SocketStep
    BY <1>2 DEF SocketStep, HandleConnect, HandleError, HandleClose, WriteFails, ParserOverflow,
       HandleData
  <1>3. CASE ProcessInstruction
    BY <1>3 DEF ProcessInstruction, OnArgs, OnReady, OnReadyClosedByHook, OnReadyAgain,
       OnEmptyReady, OnErrorOpening, OnForward, Parsing
  <1>4. CASE WebSocketStep
    BY <1>4 DEF WebSocketStep, HandleWsMessage, ClientLeaves, HandleWsClose, SendFails,
       HandleWsError, StrippedWsError
  <1>5. CASE TimeStep \/ CloseByServer
    BY <1>5 DEF TimeStep, Elapse, TimerFires, CloseByServer
  <1> QED
    BY <1>1, <1>2, <1>3, <1>4, <1>5 DEF Next

LEMMA NextInv == TunnelInv /\ [Next]_vars => TunnelInv'
  <1> SUFFICES ASSUME TunnelInv, [Next]_vars PROVE TunnelInv'
    OBVIOUS
  <1>1. HalfInv' /\ OrderInv'
    BY NextHalf, NextOrder DEF TunnelInv
  <1>2. ASSUME Conformant' PROVE Core' /\ Heard'
    <2>1. Conformant /\ Core /\ Heard
      BY <1>2, PeerStays DEF TunnelInv, Keeps, Core
    <2> QED
      BY <1>1, <2>1, NextCore, NextHeard DEF TunnelInv
  <1>3. Keeps'
    BY <1>2 DEF Keeps, Core
  <1> QED
    BY <1>1, <1>3 DEF TunnelInv

LEMMA Inductive == Spec => []TunnelInv
  <1>1. Init => TunnelInv
    BY InitHalf, InitOrder, InitKeeps DEF TunnelInv
  <1> QED
    BY <1>1, NextInv, PTL DEF Spec

\* The variables keep their types, and an unconnected socket carries nothing.
THEOREM Typing == Spec => []TypeOK
  <1>1. TunnelInv => TypeOK
    BY DEF TunnelInv, HalfInv
  <1> QED
    BY <1>1, Inductive, PTL

\* A closed bridge holds no socket, no timer and no open WebSocket.
THEOREM Released == Spec => []TornDown
  <1>1. TunnelInv => TornDown
    BY DEF TunnelInv, HalfInv
  <1> QED
    BY <1>1, Inductive, PTL

\* The send buffer stays within its limit and is empty in an open tunnel.
THEOREM Bounded == Spec => []BufferBounded
  <1>1. TunnelInv => BufferBounded
    BY DEF TunnelInv, HalfInv
  <1> QED
    BY <1>1, Inductive, PTL

\* Nothing passes a closed bridge, and it stays closed.
THEOREM Silent == Spec => SilentOnceClosed
  <1>1. TunnelInv /\ [Next]_vars =>
        [bridge = "closed" => bridge' = "closed" /\ UNCHANGED <<toClient, toGuacd, tcp, timers>>]_vars
    BY StaysSealed DEF TunnelInv, Sealed
  <1> QED
    BY <1>1, Inductive, PTL DEF Spec, SilentOnceClosed

\* Every message of the client reaches guacd once and in order, or waits.
THEOREM Ordered == Spec => []InOrderToGuacd
  <1>1. TunnelInv => InOrderToGuacd
    BY DEF TunnelInv, OrderInv
  <1> QED
    BY <1>1, Inductive, PTL

\* With a guacd that keeps to its protocol both halves are closed together.
THEOREM HalvesTogether == Spec => []HalvesAgree
  <1>1. TunnelInv => HalvesAgree
    BY DEF TunnelInv, Keeps, Waiting, HalvesAgree
  <1> QED
    BY <1>1, Inductive, PTL

\* guacd has the whole handshake before the first message of the client.
THEOREM Introduced == Spec => []HandshakeFirst
  <1>1. ASSUME TunnelInv PROVE HandshakeFirst
    <2> SUFFICES ASSUME NEW k \in DOMAIN toGuacd, FromUser(toGuacd[k])
                 PROVE  /\ guacd # "opening"
                        /\ Conformant => k > 2 /\ toGuacd[1] = Select /\ toGuacd[2] = Reply
      BY DEF HandshakeFirst
    <2>1. ~FromUser(Select) /\ ~FromUser(Reply)
      BY SMT DEF FromUser, Select, Reply
    <2>2. guacd # "opening"
      BY <1>1, <2>1 DEF TunnelInv, OrderInv, Early
    <2>3. DOMAIN toGuacd = 1..Len(toGuacd) /\ Len(toGuacd) \in Nat
      BY <1>1, LenProperties DEF TunnelInv, HalfInv, TypeOK
    <2>4. toGuacd[1] = Select
      <3>1. toGuacd # <<>>
        BY <2>3, SMT
      <3> QED
        BY <1>1, <3>1 DEF TunnelInv, HalfInv, Phases
    <2>5. Conformant => toGuacd[2] = Reply
      BY <1>1 DEF TunnelInv, Keeps, Replied
    <2>6. Conformant => k # 1 /\ k # 2
      BY <2>1, <2>4, <2>5
    <2>7. Conformant => k > 2
      BY <2>3, <2>6, SMT
    <2> QED
      BY <2>2, <2>4, <2>5, <2>7
  <1> QED
    BY <1>1, Inductive, PTL

\* The client hears the identifier first and a failure last.
THEOREM ClientHears == Spec => []ClientStream
  <1>1. TunnelInv => ClientStream
    BY DEF TunnelInv, Keeps, Heard, ClientStream
  <1> QED
    BY <1>1, Inductive, PTL

----------------------------------------------------------------------------
(* Exceptions.                                                             *)

\* A step is taken by a process that runs, and throws out of a handler, if at all,
\* or is the error of a stripped WebSocket.
LEMMA Throws ==
    ASSUME Next
    PROVE  /\ process = "running"
           /\ process' \in {"running", "gone"} \/ StrippedWsError
  <1> USE DEF Idle
  <1>1. CASE SocketStep
    BY <1>1 DEF SocketStep, HandleConnect, HandleError, HandleClose, WriteFails, ParserOverflow,
       HandleData, Fail, Quit
  <1>2. CASE ProcessInstruction
    BY <1>2 DEF ProcessInstruction, OnArgs, OnReady, OnReadyClosedByHook, OnReadyAgain,
       OnEmptyReady, OnErrorOpening, OnForward, Parsing, Survives, Quit
  <1>3. CASE WebSocketStep
    BY <1>3 DEF WebSocketStep, HandleWsMessage, ClientLeaves, HandleWsClose, SendFails,
       HandleWsError, StrippedWsError, Fail, Quit
  <1>4. CASE TimeStep \/ CloseByServer \/ (\E i \in Instructions : GuacdSends(i))
    BY <1>4 DEF TimeStep, Elapse, TimerFires, CloseByServer, GuacdSends, Quit
  <1> QED
    BY <1>1, <1>2, <1>3, <1>4 DEF Next

\* With a listener to `error` and a guacd that keeps to its protocol, no handler
\* throws.
LEMMA NextAlive ==
    ASSUME ErrorHandled, TunnelInv, Next, Conformant
    PROVE  process' # "gone"
  <1>0. HalfInv /\ HalfInv' /\ Core /\ process = "running"
    BY Throws, NextInv DEF TunnelInv, Keeps, Core
  <1>1. CASE OnArgs
    <2>1. tcp # "connecting" /\ process' = Survives(SendThrows(guacd, tcp))
      BY <1>0, <1>1, ParsingType DEF OnArgs
    <2>2. guacd = "closed" \/ tcp = "up"
      BY <1>0, <2>1 DEF HalfInv, TypeOK, Phases, Core, Waiting
    <2> QED
      BY <2>1, <2>2 DEF Survives, SendThrows
  <1>2. CASE OnReady
    <2>1. tcp # "connecting" /\ 1 \in 1..Len(rx) /\ Transit[1] = "ready"
          /\ process' = Survives(buffer # <<>> /\ SendThrows("open", tcp))
      BY <1>0, <1>2, ParsingType, ParsingDrops DEF OnReady
    <2>2. guacd = "opening"
      BY <1>0, <2>1 DEF Core, Waiting
    <2>3. tcp = "up"
      BY <1>0, <2>1, <2>2 DEF HalfInv, TypeOK, Phases, Core, Waiting
    <2> QED
      BY <2>1, <2>3 DEF Survives, SendThrows
  <1>3. CASE OnReadyClosedByHook
    BY <1>3 DEF OnReadyClosedByHook, Survives, SendThrows
  <1>4. CASE OnReadyAgain \/ OnEmptyReady \/ OnErrorOpening \/ OnForward
    BY <1>0, <1>4 DEF OnReadyAgain, OnEmptyReady, OnErrorOpening, OnForward, Quit
  <1>5. CASE SocketStep
    BY <1>0, <1>5 DEF SocketStep, HandleConnect, HandleError, HandleClose, WriteFails,
       ParserOverflow, HandleData, Fail, Quit
  <1>6. CASE WebSocketStep
    BY <1>0, <1>6 DEF WebSocketStep, HandleWsMessage, ClientLeaves, HandleWsClose, SendFails,
       HandleWsError, StrippedWsError, Fail, Quit
  <1>7. CASE TimeStep \/ CloseByServer \/ (\E i \in Instructions : GuacdSends(i))
    BY <1>0, <1>7 DEF TimeStep, Elapse, TimerFires, CloseByServer, GuacdSends, Quit
  <1> QED
    BY <1>1, <1>2, <1>3, <1>4, <1>5, <1>6, <1>7 DEF Next, ProcessInstruction

\* With a listener to `error`, no handler throws while guacd keeps to its protocol,
\* and a WebSocket that throws is one whose tunnel is over.
THEOREM Uninterrupted == ErrorHandled => (Spec => []OnlyStrippedThrows)
  <1> SUFFICES ASSUME ErrorHandled PROVE Spec => []OnlyStrippedThrows
    OBVIOUS
  <1>1. Init => OnlyStrippedThrows
    BY DEF Init, OnlyStrippedThrows
  <1>2. ASSUME TunnelInv, OnlyStrippedThrows, [Next]_vars PROVE OnlyStrippedThrows'
    <2>1. CASE UNCHANGED vars
      BY <1>2, <2>1 DEF OnlyStrippedThrows, Conformant
    <2>2. CASE Next
      <3>1. Conformant' => process' # "gone"
        BY <1>2, <2>2, NextAlive, PeerStays
      <3>2. CASE StrippedWsError
        <4>1. bridge' = "closed" /\ tcp' = "destroyed" /\ timers' = {}
          BY <1>2, <3>2 DEF StrippedWsError, Listening, TunnelInv, HalfInv, TornDown
        <4> QED
          BY <3>1, <4>1 DEF OnlyStrippedThrows
      <3>3. CASE ~StrippedWsError
        BY <2>2, <3>1, <3>3, Throws DEF OnlyStrippedThrows
      <3> QED
        BY <3>2, <3>3
    <2> QED
      BY <1>2, <2>1, <2>2
  <1> QED
    BY <1>1, <1>2, Inductive, PTL DEF Spec

----------------------------------------------------------------------------
(* The lifecycle.                                                          *)

\* The steps of the lifecycle, in the terms of the tunnel.
Closes ==
    /\ bridge # "closed" /\ bridge' = "closed"
    /\ \E last \in {<<"close">>, <<"error", "close">>} : events' = events \o last

Keeping ==
    /\ bridge' = bridge /\ events' = events
    /\ bridge = "closed" \/ guacd' = guacd

\* What is emitted on the way to a close, in one piece.
LEMMA LastNotes ==
    ASSUME NEW es \in Seq(Events), NEW n \in Events
    PROVE  /\ es \o << >> \o <<"close">> = es \o <<"close">>
           /\ es \o <<n>> \o <<"close">> = es \o <<n, "close">>
  <1>1. <<n>> \in Seq(Events) /\ <<"close">> \in Seq(Events)
    BY SMT DEF Events
  <1>2. es \o << >> = es
    BY ConcatEmptySeq
  <1>3. es \o <<n>> \o <<"close">> = es \o (<<n>> \o <<"close">>)
    BY <1>1, ConcatAssociative
  <1>4. <<n, "close">> \in Seq(Events)
    BY SMT DEF Events
  <1>5. <<n>> \o <<"close">> = <<n, "close">>
    <2>1. /\ <<n>> \o <<"close">> \in Seq(Events)
          /\ Len(<<n>> \o <<"close">>) = Len(<<n, "close">>)
          /\ \A k \in 1..2 : (<<n>> \o <<"close">>)[k] = <<n, "close">>[k]
      BY <1>1, ConcatProperties, SMT
    <2>2. Len(<<n>> \o <<"close">>) = 2
      BY <2>1, SMT
    <2> QED
      BY <1>4, <2>1, <2>2, SeqEqual
  <1> QED
    BY <1>2, <1>3, <1>5

\* A teardown is the end of the lifecycle, or comes after it.
LEMMA TearDownCloses ==
    ASSUME HalfInv, NEW w, NEW notes \in {<< >>, <<"error">>}, TearDown(w, notes)
    PROVE  Closes \/ Keeping
  <1>1. events \in Seq(Events)
    BY SMT DEF HalfInv, TypeOK, Events
  <1>2. events \o notes \o <<"close">> \in {events \o <<"close">>, events \o <<"error", "close">>}
    BY <1>1, LastNotes DEF Events
  <1> QED
    BY <1>2 DEF TearDown, Closes, Keeping

\* Every step but the two of `ready` closes the tunnel or leaves the lifecycle alone.
LEMMA LifeShapes ==
    ASSUME HalfInv, Next
    PROVE  Closes \/ Keeping \/ OnReady \/ OnReadyClosedByHook
  <1>1. ASSUME Quit PROVE Closes \/ Keeping
    BY <1>1, TearDownCloses DEF Quit
  <1>2. ASSUME NEW w, Fail(w) PROVE Closes \/ Keeping
    <2>1. CASE ErrorHandled
      BY <1>2, <2>1, TearDownCloses DEF Fail
    <2>2. CASE ~ErrorHandled
      BY <1>2, <2>2 DEF Fail, Keeping
    <2> QED
      BY <2>1, <2>2
  <1>3. CASE SocketStep
    <2>1. CASE HandleConnect \/ \E n \in 1..Len(wire) : HandleData(n)
      BY <2>1 DEF HandleConnect, HandleData, Keeping
    <2>2. CASE HandleError
      BY <1>2, <2>2 DEF HandleError
    <2>3. CASE HandleClose \/ WriteFails \/ ParserOverflow
      BY <1>1, <2>3 DEF HandleClose, WriteFails, ParserOverflow
    <2> QED
      BY <1>3, <2>1, <2>2, <2>3 DEF SocketStep
  <1>4. CASE ProcessInstruction
    <2>1. CASE OnArgs \/ OnReadyAgain \/ OnForward
      BY <2>1 DEF OnArgs, OnReadyAgain, OnForward, Keeping
    <2>2. CASE OnEmptyReady
      BY <1>1, <2>2 DEF OnEmptyReady, Keeping
    <2>3. CASE OnErrorOpening
      BY <1>1, <2>3 DEF OnErrorOpening
    <2> QED
      BY <1>4, <2>1, <2>2, <2>3 DEF ProcessInstruction
  <1>5. CASE WebSocketStep
    <2>1. CASE HandleWsMessage
      BY <1>1, <2>1 DEF HandleWsMessage, Keeping
    <2>2. CASE ClientLeaves
      BY <2>2 DEF ClientLeaves, Keeping
    <2>3. CASE HandleWsClose
      <3>1. CASE TearDown("closed", << >>)
        BY <3>1, TearDownCloses
      <3> QED
        BY <2>3, <3>1 DEF HandleWsClose, Keeping
    <2>4. CASE SendFails
      BY <1>1, <2>4 DEF SendFails
    <2>5. ASSUME NEW w \in {"open", "closing"}, HandleWsError(w) PROVE Closes \/ Keeping
      BY <1>2, <2>5 DEF HandleWsError
    <2>6. CASE StrippedWsError
      BY <2>6 DEF StrippedWsError, Keeping
    <2> QED
      BY <1>5, <2>1, <2>2, <2>3, <2>4, <2>5, <2>6 DEF WebSocketStep
  <1>6. CASE CloseByServer
    BY <1>1, <1>6 DEF CloseByServer
  <1>7. CASE TimeStep
    <2>1. ASSUME NEW t \in AllTimers, Elapse(t) PROVE Keeping
      BY <2>1 DEF Elapse, Keeping
    <2>2. ASSUME NEW t \in AllTimers, TimerFires(t) PROVE Closes \/ Keeping
      BY <1>1, <2>2 DEF TimerFires
    <2> QED
      BY <1>7, <2>1, <2>2 DEF TimeStep
  <1>8. CASE \E i \in Instructions : GuacdSends(i)
    BY <1>8 DEF GuacdSends, Keeping
  <1> QED
    BY <1>3, <1>4, <1>5, <1>6, <1>7, <1>8 DEF Next

\* A peer that keeps to its protocol goes on to.
LEMMA PeerKeeps == Conformant /\ [Next]_vars => Conformant'
  <1> SUFFICES ASSUME [Next]_vars, peer # "unruly" PROVE peer' # "unruly"
    BY DEF Conformant
  <1>1. ASSUME NEW i \in Instructions, GuacdSends(i) PROVE peer' # "unruly"
    <2>1. peer' = After(i)
      BY <1>1 DEF GuacdSends
    <2> QED
      BY <2>1, SMT DEF After
  <1>2. CASE SocketStep
    BY <1>2 DEF SocketStep, HandleConnect, HandleError, HandleClose, WriteFails, ParserOverflow,
       HandleData
  <1>3. CASE ProcessInstruction
    BY <1>3 DEF ProcessInstruction, OnArgs, OnReady, OnReadyClosedByHook, OnReadyAgain,
       OnEmptyReady, OnErrorOpening, OnForward, Parsing
  <1>4. CASE WebSocketStep
    BY <1>4 DEF WebSocketStep, HandleWsMessage, ClientLeaves, HandleWsClose, SendFails,
       HandleWsError, StrippedWsError
  <1>5. CASE TimeStep \/ CloseByServer
    BY <1>5 DEF TimeStep, Elapse, TimerFires, CloseByServer
  <1> QED
    BY <1>1, <1>2, <1>3, <1>4, <1>5 DEF Next

\* Every step of the tunnel is a step of its lifecycle or none.
LEMMA LifecycleStep == TunnelInv /\ [Next]_vars => [Abs!Next]_(Abs!vars)
  <1> SUFFICES ASSUME TunnelInv, [Next]_vars PROVE Abs!Next \/ UNCHANGED Abs!vars
    OBVIOUS
  <1>0. HalfInv /\ HalfInv'
    BY NextInv DEF TunnelInv
  <1>1. CASE ~Conformant
    <2>1. ~Conformant'
      BY <1>1, PeerStays
    <2> QED
      BY <1>1, <2>1 DEF Abs!vars, AbsPhase, AbsEvents
  <1>2. CASE Conformant
    <2>1. Conformant' /\ (bridge = "closed" <=> guacd = "closed")
      BY <1>2, PeerKeeps DEF TunnelInv, Keeps, Waiting
    <2>2. /\ AbsEvents = events /\ AbsEvents' = events'
          /\ AbsPhase = IF bridge = "closed" THEN "closed" ELSE guacd
          /\ AbsPhase' = IF bridge' = "closed" THEN "closed" ELSE guacd'
      BY <1>2, <2>1 DEF AbsEvents, AbsPhase
    <2>3. CASE Closes
      <3>1. AbsPhase # "closed" /\ AbsPhase' = "closed"
        BY <2>1, <2>2, <2>3 DEF Closes
      <3> QED
        BY <2>2, <2>3, <3>1 DEF Closes, Abs!Next, Abs!Close
    <2>4. CASE Keeping
      BY <2>2, <2>4 DEF Keeping, Abs!vars
    <2>5. ASSUME Parsing("ready") PROVE guacd = "opening" /\ bridge # "closed"
      <3>1. 1 \in 1..Len(rx) /\ Transit[1] = "ready"
        BY <1>0, <2>5, ParsingDrops
      <3>2. guacd = "opening"
        BY <1>2, <3>1 DEF TunnelInv, Keeps, Waiting
      <3> QED
        BY <2>1, <3>2
    <2>6. CASE OnReady
      <3>1. AbsPhase = "opening" /\ AbsPhase' = "open" /\ events' = Append(events, "ready")
        BY <2>2, <2>5, <2>6 DEF OnReady
      <3> QED
        BY <2>2, <3>1 DEF Abs!Next, Abs!Ready
    <2>7. CASE OnReadyClosedByHook
      <3>1. bridge # "closed" /\ guacd = "opening" /\ TearDown(ws, <<"ready">>)
        BY <2>5, <2>7 DEF OnReadyClosedByHook
      <3>2. events' = events \o <<"ready">> \o <<"close">> /\ bridge' = "closed"
        BY <3>1 DEF TearDown
      <3>3. events \in Seq(Events)
        BY <1>0, SMT DEF HalfInv, TypeOK, Events
      <3>4. events' = events \o <<"ready", "close">>
        BY <3>2, <3>3, LastNotes DEF Events
      <3> QED
        BY <2>2, <3>1, <3>2, <3>4 DEF Abs!Next, Abs!Ready
    <2>8. CASE UNCHANGED vars
      BY <2>2, <2>8 DEF Abs!vars
    <2> QED
      BY <1>0, <2>3, <2>4, <2>6, <2>7, <2>8, LifeShapes
  <1> QED
    BY <1>1, <1>2

\* The tunnel implements its lifecycle.
THEOREM Implements == Spec => Lifecycle
  <1>1. Init => Abs!Init
    BY DEF Init, Abs!Init, AbsPhase, AbsEvents
  <1> QED
    BY <1>1, LifecycleStep, Inductive, PTL DEF Spec, Lifecycle, Abs!Spec
=============================================================================
