-------------------------- MODULE DeadlinesProofs --------------------------
(***************************************************************************)
(* Theorems about Deadlines, for any limits, any period of the checks and  *)
(* any lag.  The invariant says what the remaining time of every armed     *)
(* timer adds up to.                                                       *)
(***************************************************************************)
EXTENDS Deadlines, TLAPS

USE DEF vars, tunnelVars, probeVars
USE DeadlinesAssumption

\* What the code takes for the silence of a side is the silence of that side.
Truthful == state # "closed" => \A s \in Sides : idle[s] = silence[s]

\* When a check was last made, or a side last spoke, its limit was kept.
Checked ==
    \A s \in Sides : left[s] # Off => idle[s] + left[s] <= limit[s] + Period

\* The lifetime and the connect timeout are what is over and what is left.
Counted ==
    /\ state # "closed" /\ limit.ttl > 0 =>
        /\ left.ttl # Off /\ age + left.ttl <= limit.ttl
        /\ limit.ttl <= TimerMax => age + left.ttl >= limit.ttl \/ age = Cap
    /\ Trying /\ limit.connect > 0 =>
        /\ left.connect # Off
        /\ age + left.connect <= IF state = "lookup" THEN limit.connect
                                                     ELSE 2 * limit.connect + Lag
        /\ age + left.connect >= SocketDelay(limit.connect) \/ age = Cap
    /\ left.connect # Off => Trying /\ limit.connect > 0
    /\ left.ttl # Off => state # "closed" /\ limit.ttl > 0

\* The same for the probe.
Probing ==
    /\ answer = "none" /\ probe # "none" =>
        /\ probe \in {"lookup", "connecting"}
        /\ wait > 0 =>
            /\ left.check # Off
            /\ waited + left.check <= IF probe = "lookup" THEN wait ELSE 2 * wait + Lag
    /\ left.check # Off => answer = "none" /\ probe # "none"
    /\ probe = "none" => answer = "none"
    /\ answer # "none" => probe = "destroyed"

Inv == TypeOK /\ Truthful /\ Checked /\ Counted /\ Probing

----------------------------------------------------------------------------
\* What the limits are, and the delays they become.
LEMMA Numbers ==
    /\ Cap \in Nat /\ Lag \in Nat /\ Period \in 1..Cap /\ TimerMax \in 1..Cap /\ Off = Cap + 1
    /\ \A d \in 0..Cap : /\ Delay(d) \in 0..Cap /\ SocketDelay(d) \in 0..Cap
                         /\ d > 0 => Delay(d) <= d /\ Delay(d) >= 1 /\ SocketDelay(d) <= d
                         /\ d <= TimerMax => Delay(d) = d
  BY SMT DEF Off, Delay, SocketDelay

LEMMA InitInv == Init => Inv
  <1> SUFFICES ASSUME Init PROVE Inv
    OBVIOUS
  <1>1. /\ limit \in Settings /\ limit \in [{"ws", "guacd", "connect", "ttl"} -> 0..Cap]
        /\ limit.ws \in 0..Cap /\ limit.guacd \in 0..Cap /\ limit.connect \in 0..Cap
        /\ limit.ttl \in 0..Cap /\ limit["ws"] = limit.ws /\ limit["guacd"] = limit.guacd
    BY DEF Init
  <1>2. /\ left.ws = Armed(limit.ws, Period) /\ left.guacd = Armed(limit.guacd, Period)
        /\ left.connect = Armed(limit.connect, SocketDelay(limit.connect))
        /\ left.ttl = Armed(limit.ttl, Delay(limit.ttl)) /\ left.check = Off
        /\ left["ws"] = left.ws /\ left["guacd"] = left.guacd
    BY DEF Init
  <1>3. TypeOK
    <2>1. left \in [Timers -> (-Lag)..Off]
      BY <1>1, Numbers, SMT DEF Init, Timers, Sides, Armed
    <2>2. \A t \in Sides : left[t] # Off <=> limit[t] > 0
      BY <1>1, <1>2, Numbers, SMT DEF Sides, Armed
    <2> QED
      BY <2>1, <2>2, Numbers, SMT DEF Init, TypeOK
  <1>4. Truthful
    BY DEF Init, Truthful
  <1>5. Checked
    BY <1>1, <1>2, Numbers, SMT DEF Init, Checked, Sides, Armed
  <1>6. Counted
    BY <1>1, <1>2, Numbers, SMT DEF Init, Counted, Trying, Armed
  <1>7. Probing
    BY <1>2 DEF Init, Probing
  <1> QED
    BY <1>3, <1>4, <1>5, <1>6, <1>7 DEF Inv

----------------------------------------------------------------------------
(* The steps.                                                              *)

\* What the invariant says of the single components.
LEMMA Components ==
    ASSUME TypeOK
    PROVE  /\ limit.ws \in 0..Cap /\ limit.guacd \in 0..Cap
           /\ limit.connect \in 0..Cap /\ limit.ttl \in 0..Cap
           /\ \A s \in Sides : limit[s] \in 0..Cap
           /\ \A t \in Timers : left[t] \in (-Lag)..Off
           /\ left.connect \in (-Lag)..Off /\ left.ttl \in (-Lag)..Off /\ left.check \in (-Lag)..Off
           /\ wait \in 0..Cap
  <1>1. limit \in [{"ws", "guacd", "connect", "ttl"} -> 0..Cap]
    BY DEF TypeOK
  <1> QED
    BY <1>1, SMT DEF TypeOK, Sides, Timers

LEMMA TickInv == Inv /\ Tick => Inv'
  <1> SUFFICES ASSUME Inv, Tick PROVE Inv'
    OBVIOUS
  <1> USE Numbers DEF Inv
  <1>1. \A d \in 0..Cap : Older(d) \in 0..Cap /\ Older(d) <= d + 1 /\ (Older(d) = d + 1 \/ Older(d) = Cap)
    BY SMT DEF Older
  <1>2. \A t \in Timers : /\ left[t] > -Lag /\ left'[t] \in (-Lag)..Off /\ (left'[t] # Off <=> left[t] # Off)
                          /\ left[t] # Off => left'[t] = left[t] - 1
    BY Components, SMT DEF Tick
  <1>3. /\ \A s \in Sides : idle'[s] = Older(idle[s]) /\ silence'[s] = Older(silence[s])
        /\ \A s \in Sides : idle[s] \in 0..Cap /\ silence[s] \in 0..Cap
        /\ age' = Older(age) /\ waited' = Older(waited) /\ age \in 0..Cap /\ waited \in 0..Cap
        /\ UNCHANGED <<limit, state, ended, probe, wait, answer>>
    BY DEF Tick, TypeOK
  <1>4. "connect" \in Timers /\ "ttl" \in Timers /\ "check" \in Timers /\ Sides \subseteq Timers
    BY DEF Timers
  <1>5. TypeOK'
    <2>1. left' \in [Timers -> (-Lag)..Off]
      <3>1. left' = [t \in Timers |-> left'[t]]
        BY DEF Tick
      <3> QED
        BY <1>2, <3>1
    <2>2. idle' \in [Sides -> 0..Cap] /\ silence' \in [Sides -> 0..Cap]
      BY <1>1, <1>3 DEF Tick
    <2>3. \A t \in Sides : left'[t] # Off <=> state' # "closed" /\ limit'[t] > 0
      BY <1>2, <1>3, <1>4 DEF TypeOK
    <2> QED
      BY <1>1, <1>3, <2>1, <2>2, <2>3 DEF TypeOK
  <1>6. Truthful'
    BY <1>3 DEF Truthful
  <1>7. Checked'
    <2> SUFFICES ASSUME NEW s \in Sides, left'[s] # Off PROVE idle'[s] + left'[s] <= limit'[s] + Period
      BY DEF Checked
    <2>1. idle[s] + left[s] <= limit[s] + Period /\ left'[s] = left[s] - 1
      BY <1>2, <1>4 DEF Checked
    <2>2. idle'[s] <= idle[s] + 1 /\ idle'[s] \in 0..Cap /\ limit'[s] = limit[s]
      BY <1>1, <1>3
    <2> QED
      BY <1>3, <1>4, <2>1, <2>2, Components, SMT
  <1>8. Counted'
    BY <1>1, <1>2, <1>3, <1>4, Components, SMT DEF Counted, Trying, SocketDelay
  <1>9. Probing'
    BY <1>1, <1>2, <1>3, <1>4, Components, SMT DEF Probing
  <1> QED
    BY <1>5, <1>6, <1>7, <1>8, <1>9

LEMMA ResolvedInv == Inv /\ (Resolved) => Inv'
  <1> SUFFICES ASSUME Inv, Resolved PROVE Inv'
    OBVIOUS
  <1> USE Numbers, Components DEF Inv, Resolved
  <1>0. /\ left'.connect = Armed(limit.connect, SocketDelay(limit.connect))
        /\ \A t \in Timers : t # "connect" => left'[t] = left[t]
        /\ left'.ttl = left.ttl /\ left'.check = left.check
    BY DEF TypeOK, Timers
  <1>1. TypeOK'
    <2>1. left' \in [Timers -> (-Lag)..Off]
      BY SMT DEF TypeOK, Armed
    <2> QED
      BY <1>0, <2>1, SMT DEF TypeOK, Timers, Sides
  <1>2. Truthful'
    BY SMT DEF Truthful, TypeOK, Timers, Sides
  <1>3. Checked'
    BY SMT DEF Checked, TypeOK, Timers, Sides
  <1>4. Counted'
    BY <1>0, SMT DEF Counted, Trying, TypeOK, Armed
  <1>5. Probing'
    BY SMT DEF Probing, TypeOK, Timers, Sides
  <1> QED
    BY <1>1, <1>2, <1>3, <1>4, <1>5

LEMMA HandleConnectInv == Inv /\ (HandleConnect) => Inv'
  <1> SUFFICES ASSUME Inv, HandleConnect PROVE Inv'
    OBVIOUS
  <1> USE Numbers, Components DEF Inv, HandleConnect, ConnectLeft
  <1>1. TypeOK'
    BY SMT DEF TypeOK, Timers, Sides
  <1>2. Truthful'
    BY SMT DEF Truthful, TypeOK, Timers, Sides
  <1>3. Checked'
    BY SMT DEF Checked, TypeOK, Timers, Sides
  <1>4. Counted'
    BY SMT DEF Counted, Trying, TypeOK, Timers, Sides
  <1>5. Probing'
    BY SMT DEF Probing, TypeOK, Timers, Sides
  <1> QED
    BY <1>1, <1>2, <1>3, <1>4, <1>5

LEMMA HandleDataInv == Inv /\ (HandleData) => Inv'
  <1> SUFFICES ASSUME Inv, HandleData PROVE Inv'
    OBVIOUS
  <1> USE Numbers, Components DEF Inv, HandleData
  <1>1. TypeOK'
    BY SMT DEF TypeOK, Timers, Sides
  <1>2. Truthful'
    BY SMT DEF Truthful, TypeOK, Timers, Sides
  <1>3. Checked'
    BY SMT DEF Checked, TypeOK, Timers, Sides
  <1>4. Counted'
    BY SMT DEF Counted, Trying, TypeOK, Timers, Sides
  <1>5. Probing'
    BY SMT DEF Probing, TypeOK, Timers, Sides
  <1> QED
    BY <1>1, <1>2, <1>3, <1>4, <1>5

LEMMA HandleWsMessageInv == Inv /\ (HandleWsMessage) => Inv'
  <1> SUFFICES ASSUME Inv, HandleWsMessage PROVE Inv'
    OBVIOUS
  <1> USE Numbers, Components DEF Inv, HandleWsMessage, Refreshed
  <1>1. TypeOK'
    BY SMT DEF TypeOK, Timers, Sides
  <1>2. Truthful'
    BY SMT DEF Truthful, TypeOK, Timers, Sides
  <1>3. Checked'
    BY SMT DEF Checked, TypeOK, Timers, Sides
  <1>4. Counted'
    BY SMT DEF Counted, Trying, TypeOK, Timers, Sides
  <1>5. Probing'
    BY SMT DEF Probing, TypeOK, Timers, Sides
  <1> QED
    BY <1>1, <1>2, <1>3, <1>4, <1>5

LEMMA EndsInv == Inv /\ (Ends) => Inv'
  <1> SUFFICES ASSUME Inv, Ends PROVE Inv'
    OBVIOUS
  <1> USE Numbers, Components DEF Inv, Ends, Close
  <1>1. TypeOK'
    BY SMT DEF TypeOK, Timers, Sides
  <1>2. Truthful'
    BY SMT DEF Truthful, TypeOK, Timers, Sides
  <1>3. Checked'
    BY SMT DEF Checked, TypeOK, Timers, Sides
  <1>4. Counted'
    BY SMT DEF Counted, Trying, TypeOK, Timers, Sides
  <1>5. Probing'
    BY SMT DEF Probing, TypeOK, Timers, Sides
  <1> QED
    BY <1>1, <1>2, <1>3, <1>4, <1>5

LEMMA CheckActivityInv == Inv /\ (\E s \in Sides : CheckActivity(s)) => Inv'
  <1> SUFFICES ASSUME Inv, \E s \in Sides : CheckActivity(s) PROVE Inv'
    OBVIOUS
  <1> USE Numbers, Components DEF Inv, CheckActivity, Close, TooLong
  <1>1. TypeOK'
    BY SMT DEF TypeOK, Timers, Sides
  <1>2. Truthful'
    BY SMT DEF Truthful, TypeOK, Timers, Sides
  <1>3. Checked'
    BY SMT DEF Checked, TypeOK, Timers, Sides
  <1>4. Counted'
    BY SMT DEF Counted, Trying, TypeOK, Timers, Sides
  <1>5. Probing'
    BY SMT DEF Probing, TypeOK, Timers, Sides
  <1> QED
    BY <1>1, <1>2, <1>3, <1>4, <1>5

LEMMA ExpiresInv == Inv /\ (\E t \in {"connect", "ttl"} : Expires(t)) => Inv'
  <1> SUFFICES ASSUME Inv, \E t \in {"connect", "ttl"} : Expires(t) PROVE Inv'
    OBVIOUS
  <1> USE Numbers, Components DEF Inv, Expires, Close
  <1>1. TypeOK'
    BY SMT DEF TypeOK, Timers, Sides
  <1>2. Truthful'
    BY SMT DEF Truthful, TypeOK, Timers, Sides
  <1>3. Checked'
    BY SMT DEF Checked, TypeOK, Timers, Sides
  <1>4. Counted'
    BY SMT DEF Counted, Trying, TypeOK, Timers, Sides
  <1>5. Probing'
    BY SMT DEF Probing, TypeOK, Timers, Sides
  <1> QED
    BY <1>1, <1>2, <1>3, <1>4, <1>5

LEMMA CheckGuacdInv == Inv /\ (\E w \in Waits : CheckGuacd(w)) => Inv'
  <1> SUFFICES ASSUME Inv, \E w \in Waits : CheckGuacd(w) PROVE Inv'
    OBVIOUS
  <1> USE Numbers, Components DEF Inv, CheckGuacd, Armed
  <1>1. TypeOK'
    BY SMT DEF TypeOK, Timers, Sides
  <1>2. Truthful'
    BY SMT DEF Truthful, TypeOK, Timers, Sides
  <1>3. Checked'
    BY SMT DEF Checked, TypeOK, Timers, Sides
  <1>4. Counted'
    BY SMT DEF Counted, Trying, TypeOK, Timers, Sides
  <1>5. Probing'
    BY SMT DEF Probing, TypeOK, Timers, Sides
  <1> QED
    BY <1>1, <1>2, <1>3, <1>4, <1>5

LEMMA ProbeInv == Inv /\ (ProbeResolved \/ ProbeConnects \/ ProbeFails \/ ProbeTimesOut) => Inv'
  <1> SUFFICES ASSUME Inv, ProbeResolved \/ ProbeConnects \/ ProbeFails \/ ProbeTimesOut PROVE Inv'
    OBVIOUS
  <1> USE Numbers, Components DEF Inv, ProbeResolved, ProbeConnects, ProbeFails, ProbeTimesOut, Finish, Armed
  <1>1. TypeOK'
    BY SMT DEF TypeOK, Timers, Sides
  <1>2. Truthful'
    BY SMT DEF Truthful, TypeOK, Timers, Sides
  <1>3. Checked'
    BY SMT DEF Checked, TypeOK, Timers, Sides
  <1>4. Counted'
    BY SMT DEF Counted, Trying, TypeOK, Timers, Sides
  <1>5. Probing'
    BY SMT DEF Probing, TypeOK, Timers, Sides
  <1> QED
    BY <1>1, <1>2, <1>3, <1>4, <1>5

LEMMA NextInv == Inv /\ [Next]_vars => Inv'
  <1> SUFFICES ASSUME Inv, [Next]_vars PROVE Inv'
    OBVIOUS
  <1>1. CASE Next
    BY <1>1, TickInv, ResolvedInv, HandleConnectInv, HandleDataInv, HandleWsMessageInv, EndsInv,
       CheckActivityInv, ExpiresInv, CheckGuacdInv, ProbeInv DEF Next
  <1>2. CASE UNCHANGED vars
    BY <1>2 DEF Inv, TypeOK, Truthful, Checked, Counted, Trying, Probing
  <1> QED
    BY <1>1, <1>2

LEMMA Inductive == Spec => []Inv
  BY InitInv, NextInv, PTL DEF Spec

----------------------------------------------------------------------------
(* The theorems.                                                           *)

\* The variables keep their types; the checks run while the tunnel lives, and only then.
THEOREM Typing == Spec => []TypeOK
  <1>1. Inv => TypeOK
    BY DEF Inv
  <1> QED
    BY <1>1, Inductive, PTL

\* No tunnel outstays its limits by more than a period and the lag.
THEOREM InTime == Spec => []NothingOutstays
  <1>1. ASSUME Inv PROVE NothingOutstays
    <2> SUFFICES ASSUME state # "closed"
                 PROVE  /\ \A s \in Sides : limit[s] > 0 => silence[s] <= limit[s] + Period + Lag
                        /\ limit.ttl > 0 => age <= limit.ttl + Lag
                        /\ limit.connect > 0 /\ Trying => age <= 2 * (limit.connect + Lag)
      BY DEF NothingOutstays
    <2> USE <1>1, Numbers, Components DEF Inv
    <2>1. ASSUME NEW s \in Sides, limit[s] > 0 PROVE silence[s] <= limit[s] + Period + Lag
      <3>1. left[s] # Off /\ silence[s] = idle[s] /\ idle[s] \in 0..Cap /\ left[s] \in (-Lag)..Off
        BY <2>1 DEF TypeOK, Truthful, Timers
      <3>2. idle[s] + left[s] <= limit[s] + Period
        BY <3>1 DEF Checked
      <3> QED
        BY <3>1, <3>2, SMT
    <2>2. limit.ttl > 0 => age <= limit.ttl + Lag
      BY SMT DEF Counted, TypeOK
    <2>3. limit.connect > 0 /\ Trying => age <= 2 * (limit.connect + Lag)
      BY SMT DEF Counted, TypeOK
    <2> QED
      BY <2>1, <2>2, <2>3
  <1> QED
    BY <1>1, Inductive, PTL

\* checkGuacd answers in time, and what it answered holds no socket.
THEOREM Probed == Spec => []ProbeSettles
  <1>1. Inv => ProbeSettles
    BY Numbers, Components, SMT DEF Inv, Probing, ProbeSettles, TypeOK
  <1> QED
    BY <1>1, Inductive, PTL

\* No timer ends a tunnel before its time.
THEOREM NotBefore == Spec => NoEarlyEnd
  <1> DEFINE Due ==
        /\ \A s \in Sides : ended' = s => silence[s] > limit[s]
        /\ ended' = "ttl" /\ limit.ttl <= TimerMax => age >= limit.ttl
        /\ ended' = "connect" => Trying /\ age >= SocketDelay(limit.connect)
  <1>1. ASSUME Inv, Next, ended' # ended PROVE Due
    <2> USE <1>1, Numbers, Components DEF Inv
    <2>1. CASE \E s \in Sides : CheckActivity(s)
      <3>1. PICK s \in Sides : CheckActivity(s)
        BY <2>1
      <3>2. TooLong(s) /\ ended' = s /\ left[s] # Off
        BY <3>1, SMT DEF CheckActivity, Close, Timers
      <3>3. silence[s] > limit[s]
        BY <3>2 DEF TooLong, Truthful, TypeOK
      <3> QED
        BY <3>2, <3>3 DEF Sides
    <2>2. CASE Expires("ttl")
      <3>1. ended' = "ttl" /\ left.ttl <= 0
        BY <2>2 DEF Expires, Close
      <3>2. limit.ttl <= TimerMax => age >= limit.ttl
        BY <3>1, SMT DEF Counted, TypeOK
      <3> QED
        BY <3>1, <3>2 DEF Sides
    <2>3. CASE Expires("connect")
      <3>1. ended' = "connect" /\ left.connect <= 0
        BY <2>3 DEF Expires, Close
      <3>2. Trying /\ age >= SocketDelay(limit.connect)
        BY <3>1, SMT DEF Counted, TypeOK
      <3> QED
        BY <3>1, <3>2 DEF Sides
    <2>4. CASE Ends
      BY <2>4 DEF Ends, Close, Sides
    <2> QED
      BY <1>1, <2>1, <2>2, <2>3, <2>4 DEF Next, Tick, Resolved, HandleConnect, HandleData,
         HandleWsMessage, CheckGuacd, ProbeResolved, ProbeConnects, ProbeFails, ProbeTimesOut
  <1>2. Inv /\ [Next]_vars => [ended' # ended => Due]_vars
    BY <1>1
  <1> QED
    BY <1>2, Inductive, PTL DEF Spec, NoEarlyEnd
=============================================================================
