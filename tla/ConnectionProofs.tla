-------------------------- MODULE ConnectionProofs --------------------------
(***************************************************************************)
(* Theorems about Connection, for any sample values, any versions a guacd  *)
(* offers, any defaults of the application and any number of calls.        *)
(***************************************************************************)
EXTENDS Connection, BuildersProofs, Induction

----------------------------------------------------------------------------
(* What pickProtocolVersion picks, for any sequence of versions.           *)

Versions == Seq(Nat)

\* A part of a version is a number, and 0 beyond its last.
LEMMA PartIsNat ==
    ASSUME NEW v \in Versions, NEW i \in Nat \ {0}
    PROVE  Part(v, i) \in Nat /\ (Part(v, i) > 0 => i <= Len(v))
  BY DEF Part, Versions

\* The order of versions is strict.
LEMMA NewerIrreflexive ==
    ASSUME NEW v \in Versions
    PROVE  ~ Newer(v, v)
<1>1. \A i \in 1..(Len(v) + Len(v)) : Part(v, i) \in Nat
  BY PartIsNat DEF Versions
<1> QED
  BY <1>1 DEF Newer

\* It is transitive: the first place where two of three versions differ
\* decides.
LEMMA NewerTransitive ==
    ASSUME NEW u \in Versions, NEW v \in Versions, NEW w \in Versions,
           Newer(u, v), Newer(v, w)
    PROVE  Newer(u, w)
<1>0. Len(u) \in Nat /\ Len(v) \in Nat /\ Len(w) \in Nat
  BY DEF Versions
<1>1. PICK i \in 1..(Len(u) + Len(v)) :
        Part(u, i) > Part(v, i) /\ \A k \in 1..(i - 1) : Part(u, k) = Part(v, k)
  BY DEF Newer
<1>2. PICK j \in 1..(Len(v) + Len(w)) :
        Part(v, j) > Part(w, j) /\ \A k \in 1..(j - 1) : Part(v, k) = Part(w, k)
  BY DEF Newer
<1>3. i \in Nat \ {0} /\ j \in Nat \ {0}
  BY <1>0
<1>4. \A k \in Nat \ {0} : Part(u, k) \in Nat /\ Part(v, k) \in Nat /\ Part(w, k) \in Nat
  BY PartIsNat
<1> DEFINE m == IF i <= j THEN i ELSE j
<1>5. m \in Nat \ {0} /\ m <= i /\ m <= j
  BY <1>3
<1>6. Part(u, m) > Part(w, m)
  <2>1. CASE i < j
    BY <2>1, <1>1, <1>2, <1>3, <1>4
  <2>2. CASE i = j
    BY <2>2, <1>1, <1>2, <1>3, <1>4
  <2>3. CASE i > j
    BY <2>3, <1>1, <1>2, <1>3, <1>4
  <2> QED
    BY <2>1, <2>2, <2>3, <1>3
<1>7. \A k \in 1..(m - 1) : Part(u, k) = Part(w, k)
  <2> SUFFICES ASSUME NEW k \in 1..(m - 1) PROVE Part(u, k) = Part(w, k)
    OBVIOUS
  <2>1. k \in 1..(i - 1) /\ k \in 1..(j - 1)
    BY <1>3, <1>5
  <2> QED
    BY <2>1, <1>1, <1>2
<1>8. m <= Len(u)
  <2>1. Part(u, m) > 0
    BY <1>4, <1>5, <1>6
  <2> QED
    BY <2>1, <1>5, PartIsNat
<1>9. m \in 1..(Len(u) + Len(w))
  BY <1>0, <1>5, <1>8
<1> QED
  BY <1>6, <1>7, <1>9 DEF Newer

\* A version that knows what 1.1 knows is older only than one that does too.
LEMMA NewerKeepsFeatures ==
    ASSUME NEW v \in Versions, NEW w \in Versions,
           IsAtLeast(v, 1, 1), ~ Newer(v, w)
    PROVE  IsAtLeast(w, 1, 1)
<1>0. Len(v) \in Nat /\ Len(w) \in Nat
  BY DEF Versions
<1>1. /\ Part(v, 1) \in Nat /\ (Part(v, 1) > 0 => 1 <= Len(v))
      /\ Part(v, 2) \in Nat /\ (Part(v, 2) > 0 => 2 <= Len(v))
      /\ Part(w, 1) \in Nat /\ Part(w, 2) \in Nat
  BY PartIsNat
<1>2. Part(v, 1) <= Part(w, 1)
  <2> SUFFICES ASSUME Part(v, 1) > Part(w, 1) PROVE FALSE
    BY <1>1
  <2>1. 1 \in 1..(Len(v) + Len(w)) /\ 1..(1 - 1) = {}
    BY <1>0, <1>1
  <2> QED
    BY <2>1 DEF Newer
<1>3. Part(v, 1) = Part(w, 1) => Part(v, 2) <= Part(w, 2)
  <2> SUFFICES ASSUME Part(v, 1) = Part(w, 1), Part(v, 2) > Part(w, 2) PROVE FALSE
    BY <1>1
  <2>1. 2 \in 1..(Len(v) + Len(w)) /\ 1..(2 - 1) = {1}
    BY <1>0, <1>1
  <2> QED
    BY <2>1 DEF Newer
<1> QED
  BY <1>1, <1>2, <1>3 DEF IsAtLeast

Highest(offers) == {i \in DOMAIN offers : \A j \in DOMAIN offers : ~ Newer(offers[j], offers[i])}

\* Among the versions guacd offers there is one that no other is newer than.
LEMMA SomeIsHighest ==
    ASSUME NEW offers \in Seq(Versions), offers # <<>>
    PROVE  Highest(offers) # {}
<1> DEFINE n == Len(offers)
           HighestOf(k, i) == \A j \in 1..k : ~ Newer(offers[j], offers[i])
           Without == {k \in 1..n : \A i \in 1..k : ~ HighestOf(k, i)}
<1>1. n \in Nat \ {0} /\ DOMAIN offers = 1..n
  OBVIOUS
<1>2. \A i \in 1..n : offers[i] \in Versions
  BY <1>1
<1>3. Without = {}
  <2> SUFFICES ASSUME Without # {} PROVE FALSE
    OBVIOUS
  <2>1. Without \subseteq Nat
    OBVIOUS
  <2>2. PICK k \in Without : \A y \in Without : k <= y
    BY <2>1, LeastNumber
  <2>3. k \in 1..n /\ \A i \in 1..k : ~ HighestOf(k, i)
    OBVIOUS
  <2>4. CASE k = 1
    <3>1. HighestOf(1, 1)
      BY <1>1, <1>2, NewerIrreflexive
    <3> QED
      BY <2>3, <2>4, <3>1
  <2>5. CASE k # 1
    <3>1. k - 1 \in 1..n /\ k - 1 < k
      BY <2>3, <2>5
    <3>2. k - 1 \notin Without
      <4> HIDE DEF Without
      <4> QED
        BY <2>2, <2>3, <3>1
    <3>3. PICK i \in 1..(k - 1) : HighestOf(k - 1, i)
      BY <3>1, <3>2
    <3>4. i \in 1..k /\ k \in 1..k /\ i \in 1..n
      BY <2>3, <3>1
    <3>5. \A j \in 1..k : j \in 1..(k - 1) \/ j = k
      BY ONLY <2>3, <1>1
    <3>6. CASE ~ Newer(offers[k], offers[i])
      <4>1. HighestOf(k, i)
        BY <3>3, <3>5, <3>6
      <4> QED
        BY <2>3, <3>4, <4>1
    <3>7. CASE Newer(offers[k], offers[i])
      <4>1. ASSUME NEW j \in 1..(k - 1) PROVE ~ Newer(offers[j], offers[k])
        <5>1. j \in 1..n
          BY <2>3, <3>1
        <5>2. ~ Newer(offers[j], offers[i])
          BY <3>3
        <5> QED
          BY <5>1, <5>2, <3>4, <3>7, <2>3, <1>2, NewerTransitive
      <4>2. ~ Newer(offers[k], offers[k])
        BY <2>3, <1>2, NewerIrreflexive
      <4>3. HighestOf(k, k)
        BY <4>1, <4>2, <3>5
      <4> QED
        BY <2>3, <3>4, <4>3
    <3> QED
      BY <3>6, <3>7
  <2> QED
    BY <2>4, <2>5
<1>4. PICK i \in 1..n : HighestOf(n, i)
  <2>1. n \in 1..n
    BY <1>1
  <2> HIDE DEF n, HighestOf
  <2> QED
    BY <1>3, <2>1
<1>5. i \in Highest(offers)
  BY <1>1, <1>4 DEF Highest
<1> QED
  BY <1>5

\* pickProtocolVersion returns a version of the offer that no other is newer
\* than, and the first of those.
THEOREM PicksAHighest ==
    ASSUME NEW offers \in Seq(Versions), offers # <<>>
    PROVE  \E i \in Highest(offers) :
              /\ PickProtocolVersion(offers) = offers[i]
              /\ \A j \in Highest(offers) : i <= j
<1> DEFINE first == CHOOSE i \in Highest(offers) : \A j \in Highest(offers) : i <= j
<1>1. Highest(offers) \subseteq Nat /\ Highest(offers) # {}
  BY SomeIsHighest DEF Highest
<1>2. \E i \in Highest(offers) : \A j \in Highest(offers) : i <= j
  BY <1>1, LeastNumber
<1>3. first \in Highest(offers) /\ \A j \in Highest(offers) : first <= j
  BY <1>2
<1>4. PickProtocolVersion(offers) = offers[first]
  BY DEF PickProtocolVersion, Highest
<1> QED
  BY <1>3, <1>4

\* The version picked knows `timezone` just when some version of the offer
\* does, so nothing is withheld from a guacd that would understand it.
THEOREM PickKnowsTimezone ==
    ASSUME NEW offers \in Seq(Versions)
    PROVE  IsAtLeast(PickProtocolVersion(offers), 1, 1)
             <=> \E i \in DOMAIN offers : IsAtLeast(offers[i], 1, 1)
<1>1. CASE offers = <<>>
  <2>1. PickProtocolVersion(offers) = <<>> /\ DOMAIN offers = {}
    BY <1>1 DEF PickProtocolVersion
  <2>2. ~ IsAtLeast(<<>>, 1, 1)
    BY DEF IsAtLeast, Part
  <2> QED
    BY <2>1, <2>2
<1>2. CASE offers # <<>>
  <2>1. PICK i \in Highest(offers) : PickProtocolVersion(offers) = offers[i]
    BY <1>2, PicksAHighest
  <2>2. i \in DOMAIN offers /\ \A j \in DOMAIN offers : ~ Newer(offers[j], offers[i])
    BY DEF Highest
  <2>3. \A j \in DOMAIN offers : offers[j] \in Versions
    OBVIOUS
  <2>4. ASSUME NEW j \in DOMAIN offers, IsAtLeast(offers[j], 1, 1)
        PROVE  IsAtLeast(offers[i], 1, 1)
    BY <2>2, <2>3, <2>4, NewerKeepsFeatures
  <2> QED
    BY <2>1, <2>2, <2>4
<1> QED
  BY <1>1, <1>2

----------------------------------------------------------------------------
(* Option objects.                                                         *)

\* A sample of a parameter is a value.
LEMMA ValuesAreGiven ==
    ASSUME proto \in Protocols, NEW k \in Keys(proto), NEW v \in ValuesOf(k)
    PROVE  v \notin Absent
<1>1. Params[proto][k] \in Kinds
  BY KindsOfParams DEF Kinded, Keys
<1> QED
  BY <1>1, ConnectionAssumption DEF ValuesOf, Kinds

\* What a call passes: the option a method requires and others, with a value.
LEMMA OptionsGiven ==
    ASSUME NEW m, \A j, k \in m.always : j = k, NEW o \in OptionsFor(m)
    PROVE  /\ DOMAIN o \subseteq Options(m)
           /\ m.always \subseteq DOMAIN o
           /\ \A k \in DOMAIN o \ m.always : o[k] \in ValuesOf(k)
<1>1. PICK e \in {Nothing} \cup OtherOption(m), f \in RequiredOption(m) : o = e @@ f
  BY DEF OptionsFor
<1>2. /\ DOMAIN e \subseteq Options(m) \ m.always
      /\ \A k \in DOMAIN e : e[k] \in ValuesOf(k)
  <2>1. CASE e = Nothing
    BY <2>1 DEF Nothing
  <2>2. CASE e \in OtherOption(m)
    <3>1. PICK k \in Options(m) \ m.always : e \in Alone(k, ValuesOf(k))
      BY <2>2 DEF OtherOption
    <3>2. PICK v \in ValuesOf(k) : e = k :> v
      BY <3>1 DEF Alone
    <3> QED
      BY <3>2 DEF :>
  <2> QED
    BY <2>1, <2>2
<1>3. DOMAIN f = m.always
  <2>1. CASE m.always = {}
    BY <2>1 DEF Nothing, RequiredOption
  <2>2. CASE m.always # {}
    <3>1. PICK k \in m.always : f \in Alone(k, ValuesOf(k))
      BY <2>2 DEF RequiredOption
    <3>2. PICK v \in ValuesOf(k) : f = k :> v
      BY <3>1 DEF Alone
    <3>3. DOMAIN f = {k}
      BY <3>2 DEF :>
    <3> QED
      BY <3>3
  <2> QED
    BY <2>1, <2>2
<1>4. m.always \subseteq Options(m)
  BY DEF Options
<1>5. DOMAIN o = DOMAIN e \cup DOMAIN f /\ \A k \in DOMAIN e : o[k] = e[k]
  BY <1>1 DEF @@
<1> QED
  BY <1>2, <1>3, <1>4, <1>5

\* A method writes what its caller asks for, however it tests its options:
\* neither says anything of an option that is empty and tested by `if`.
LEMMA WrittenIsAsked ==
    ASSUME proto \in Protocols, NEW n \in DOMAIN Methods[proto],
           NEW o \in OptionsFor(Methods[proto][n])
    PROVE  /\ Written(Methods[proto][n], o) = Asked(Methods[proto][n], o)
           /\ DOMAIN Asked(Methods[proto][n], o) \subseteq Keys(proto)
<1> DEFINE m == Methods[proto][n]
           told == {k \in DOMAIN o : k \in m.truthy => Truthy(o[k])}
           D == told \cup m.on \cup DOMAIN m.orElse
           written == Written(m, o)
           asked == Asked(m, o)
<1>1. PICK f : Has(proto, f) /\ Within(f, m)
  BY MethodsSound DEF Sound
<1>2. /\ DOMAIN o \subseteq Options(m)
      /\ m.always \subseteq DOMAIN o
      /\ \A k \in DOMAIN o \ m.always : o[k] \in ValuesOf(k)
  BY <1>1, OptionsGiven DEF Within
<1>3. \A k \in DOMAIN o \ m.always : o[k] \notin Absent
  BY <1>1, <1>2, ValuesAreGiven DEF Has, Within
<1>4. (m.always \cup DOMAIN m.orElse \cup m.given) \cap m.truthy = {}
  BY <1>1 DEF Within
<1>5. \A k \in DOMAIN o : Read(o, k) = o[k]
  BY DEF Read
<1>6. \A k : k \notin DOMAIN o => Read(o, k) = "undefined"
  BY DEF Read
<1>7. "undefined" \in Absent /\ ~ Truthy("undefined")
  BY DEF Absent, Truthy
<1>8. m.on \cap DOMAIN o = {}
  BY <1>1, <1>2 DEF Within
<1> HIDE DEF m
<1>9. DOMAIN asked = D /\ \A k \in D : asked[k] = IF k \in told THEN o[k]
                                   ELSE IF k \in m.on THEN "true" ELSE m.orElse[k]
  BY DEF Asked, Flag, @@
<1> DEFINE given == {x \in m.given : Given(o, x)}
           truthy == {x \in m.truthy : Truthy(Read(o, x))}
<1>10. /\ DOMAIN written = m.on \cup m.always \cup DOMAIN m.orElse \cup given \cup truthy
       /\ \A k \in DOMAIN written :
            written[k] = IF k \in m.on THEN "true"
                         ELSE IF k \in m.always THEN Read(o, k)
                         ELSE IF k \in DOMAIN m.orElse
                              THEN IF Read(o, k) \in Absent THEN m.orElse[k] ELSE o[k]
                         ELSE o[k]
  BY DEF Written, Flag, @@
<1>11. DOMAIN written = D
  <2>1. given \subseteq DOMAIN o /\ truthy \subseteq DOMAIN o
    BY <1>6, <1>7 DEF Given
  <2>2. \A k \in told : k \in m.always \cup DOMAIN m.orElse \cup given \cup truthy
    BY <1>2, <1>3, <1>5, <1>7 DEF Options, Given
  <2>3. m.always \cup given \cup truthy \subseteq told
    BY <1>2, <1>4, <1>5, <2>1
  <2> QED
    BY <1>10, <2>2, <2>3
<1>12. ASSUME NEW k \in D PROVE written[k] = asked[k]
  <2>1. CASE k \in m.on
    BY <2>1, <1>8, <1>9, <1>10, <1>11
  <2>2. CASE k \notin m.on /\ k \in told
    BY <2>2, <1>3, <1>5, <1>9, <1>10, <1>11
  <2>3. CASE k \notin m.on /\ k \notin told
    BY <2>3, <1>2, <1>4, <1>6, <1>7, <1>9, <1>10, <1>11
  <2> QED
    BY <2>1, <2>2, <2>3
<1>13. written = [k \in DOMAIN written |-> written[k]] /\ asked = [k \in DOMAIN asked |-> asked[k]]
  BY DEF Written, Asked, @@
<1>14. written = asked
  <2> HIDE DEF written, asked
  <2> QED
    BY <1>9, <1>11, <1>12, <1>13
<1>15. D \subseteq Keys(proto)
  BY <1>1, <1>2 DEF Has, Within, Options
<1> QED
  BY <1>9, <1>14, <1>15 DEF m

----------------------------------------------------------------------------
(* The inductive invariant.                                                *)

\* What a builder holds is what was asked of it last, over what it started
\* from; nothing but parameters of the protocol and the display are named.
Described ==
    /\ made => params = wanted @@ CreateConnectionBuilder[proto]
    /\ DOMAIN wanted \subseteq Keys(proto)

\* What was built passed validate, and what was written by hand is given.
Settled ==
    phase \in {"built", "connected"} =>
        IF made THEN Validate(proto, params) /\ bag = ToConnectionSettings(params)
        ELSE bag = wanted /\ \A k \in DOMAIN bag : bag[k] \notin Absent

\* guacd was told the merged settings, in an answer to some offer.
Told ==
    phase = "connected" =>
        \E offers \in Offers :
            reply = SendHandshakeReply(MergeSettings(bag, defaults), offers, Keys(proto))
                    @@ "offered" :> offers

ConnectionInv ==
    /\ phase \in {"new", "building", "built", "connected"}
    /\ proto \in Protocols
    /\ phase = "new" => ~ made
    /\ phase = "building" => made
    /\ phase \in {"new", "building"} => bag = Nothing
    /\ Described
    /\ Settled
    /\ Told

LEMMA FirstCallKeys ==
    ASSUME NEW p \in Protocols, NEW first \in FirstCalls
    PROVE  DOMAIN first \subseteq Keys(p)
<1>1. DOMAIN first \subseteq {"hostname", "username", "password"}
  BY DEF FirstCalls, @@, :>
<1>2. "hostname" \in DOMAIN BaseParams
  BY DEF BaseParams, Interface, @@
<1>3. {"username", "password"} \subseteq DOMAIN RDPParams /\ {"username", "password"} \subseteq DOMAIN VNCParams
  BY DEF RDPParams, VNCParams, Interface, @@
<1>4. {"username", "password"} \subseteq DOMAIN SSHParams /\ {"username", "password"} \subseteq DOMAIN TelnetParams
  BY DEF SSHParams, TelnetParams, Interface, @@
<1> QED
  BY <1>1, <1>2, <1>3, <1>4, DomainsOfParams DEF Protocols

LEMMA InitHolds == Init => ConnectionInv
<1> SUFFICES ASSUME Init PROVE ConnectionInv
  OBVIOUS
<1>1. DOMAIN wanted = {}
  BY DEF Init, Nothing
<1> QED
  BY <1>1 DEF Init, ConnectionInv, Described, Settled, Told

\* A call that writes `more` on a builder that was asked for `more`.
LEMMA CallHolds ==
    ASSUME ConnectionInv, phase = "building", NEW more, DOMAIN more \subseteq Keys(proto),
           params' = more @@ params, wanted' = more @@ wanted,
           UNCHANGED <<phase, proto, made, defaults, bag, reply>>
    PROVE  ConnectionInv'
<1>1. made /\ params = wanted @@ CreateConnectionBuilder[proto]
  BY DEF ConnectionInv, Described
<1>2. params' = wanted' @@ CreateConnectionBuilder[proto]
  BY <1>1, MergeAssociative
<1>3. DOMAIN wanted' \subseteq Keys(proto)
  BY DEF @@, ConnectionInv, Described
<1>4. Described'
  BY <1>2, <1>3 DEF Described
<1>5. Settled' /\ Told'
  BY DEF Settled, Told
<1> QED
  BY <1>4, <1>5 DEF ConnectionInv

LEMMA NextHolds == ConnectionInv /\ [Next]_vars => ConnectionInv'
<1> SUFFICES ASSUME ConnectionInv, [Next]_vars PROVE ConnectionInv'
  OBVIOUS
<1>0. proto \in Protocols
  BY DEF ConnectionInv
<1>1. CASE Create
  <2>1. PICK first \in FirstCalls :
          params' = first @@ CreateConnectionBuilder[proto] /\ wanted' = first
    BY <1>1 DEF Create
  <2>2. Described'
    BY <1>0, <1>1, <2>1, FirstCallKeys DEF Create, Described
  <2> QED
    BY <1>1, <2>2 DEF Create, ConnectionInv, Settled, Told
<1>2. ASSUME NEW k \in Setters[proto], NEW v \in ValuesOf(k), Set(k, v) PROVE ConnectionInv'
  <2>1. DOMAIN (k :> v) \subseteq Keys(proto)
    BY <1>0, BuilderKeys DEF :>
  <2> QED
    BY <1>2, <2>1, CallHolds DEF Set, Call
<1>3. ASSUME NEW v \in Samples.bool, DisableClipboard(v) PROVE ConnectionInv'
  <2>1. DOMAIN [k \in ClipboardKeys |-> v] \subseteq Keys(proto)
    BY <1>0, ValidatedKeys
  <2> QED
    BY <1>3, <2>1, CallHolds DEF DisableClipboard, Call
<1>4. ASSUME NEW n \in DOMAIN Methods[proto], NEW o \in OptionsFor(Methods[proto][n]),
             CallMethod(Methods[proto][n], o)
      PROVE  ConnectionInv'
  <2> DEFINE more == Asked(Methods[proto][n], o)
  <2>1. Written(Methods[proto][n], o) = more /\ DOMAIN more \subseteq Keys(proto)
    BY <1>0, WrittenIsAsked
  <2>2. /\ phase = "building" /\ params' = more @@ params /\ wanted' = more @@ wanted
        /\ UNCHANGED <<phase, proto, made, defaults, bag, reply>>
    BY <1>4, <2>1 DEF CallMethod, Call
  <2> HIDE DEF more
  <2> QED
    BY <2>1, <2>2, CallHolds
<1>5. ASSUME NEW k \in Keys(proto), NEW v \in ValuesOf(k) \cup {"undefined"}, WithParams(k, v)
      PROVE  ConnectionInv'
  <2>1. DOMAIN (k :> v) \subseteq Keys(proto)
    BY DEF :>
  <2> QED
    BY <1>5, <2>1, CallHolds DEF WithParams, Call
<1>6. ASSUME NEW k \in Keys(proto), NEW v \in ValuesOf(k), WriteByHand(k, v)
      PROVE  ConnectionInv'
  <2>1. v \notin Absent
    BY <1>0, ValuesAreGiven
  <2>2. DOMAIN (k :> v) \subseteq Keys(proto) /\ \A x \in DOMAIN (k :> v) : (k :> v)[x] \notin Absent
    BY <2>1 DEF :>
  <2> QED
    BY <1>6, <2>2 DEF WriteByHand, ConnectionInv, Described, Settled, Told
<1>7. CASE Build
  BY <1>7 DEF Build, ConnectionInv, Described, Settled, Told
<1>8. ASSUME NEW offers \in Offers, Connect(offers) PROVE ConnectionInv'
  <2>1. Told'
    BY <1>8 DEF Connect, Told
  <2> QED
    BY <1>8, <2>1 DEF Connect, ConnectionInv, Described, Settled
<1>9. CASE UNCHANGED vars
  BY <1>9 DEF vars, ConnectionInv, Described, Settled, Told
<1> QED
  BY <1>1, <1>2, <1>3, <1>4, <1>5, <1>6, <1>7, <1>8, <1>9, Zenon DEF Next

\* Through every call on a builder, build, mergeSettings and the handshake, the
\* params are what was asked for over the constructor's defaults, what was built
\* has passed validate, and the reply to guacd follows from the merged settings.
THEOREM ConnectionInvariant == Spec => []ConnectionInv
<1> QED
  BY InitHolds, NextHolds, PTL DEF Spec

----------------------------------------------------------------------------
(* What guacd is told.                                                     *)

\* Nothing absent is among the settings of a connection, and what a builder
\* leaves out is the size of the display at most.
LEMMA BagHolds ==
    ASSUME ConnectionInv, phase \in {"built", "connected"}
    PROVE  /\ \A k \in DOMAIN bag : bag[k] \notin Absent
           /\ made => \A k : Read(bag, k) = IF Read(params, k) \notin Absent THEN Read(params, k)
                                            ELSE Read(DisplayDefaults, k)
<1>1. CASE ~ made
  BY <1>1 DEF ConnectionInv, Settled
<1>2. CASE made
  <2>1. bag = ToConnectionSettings(params)
    BY <1>2 DEF ConnectionInv, Settled
  <2>2. "undefined" \in Absent
    BY DEF Absent
  <2>3. \A k \in DOMAIN DisplayDefaults : DisplayDefaults[k] \notin Absent
    BY DEF DisplayDefaults, Absent, @@, :>
  <2> QED
    BY <2>1, <2>2, <2>3 DEF ToConnectionSettings, Read, @@
<1> QED
  BY <1>1, <1>2

\* The argument guacd gets for a parameter.
LEMMA ToldArgument ==
    ASSUME ConnectionInv, phase = "connected", NEW k \in Keys(proto)
    PROVE  reply.connect[k] = IF k \in DOMAIN bag THEN bag[k] ELSE Argument(defaults, k)
<1>1. PICK offers \in Offers :
        reply = SendHandshakeReply(MergeSettings(bag, defaults), offers, Keys(proto))
                @@ "offered" :> offers
  BY DEF ConnectionInv, Told
<1>2. reply.connect[k] = Argument(MergeSettings(bag, defaults), k)
  BY <1>1 DEF SendHandshakeReply, SendClientCapabilities, @@, :>
<1>3. \A x \in DOMAIN bag : bag[x] \notin Absent
  BY BagHolds
<1>4. "undefined" \in Absent
  BY DEF Absent
<1> QED
  BY <1>2, <1>3, <1>4 DEF Argument, MergeSettings, Read, @@

LEMMA ArrivesHolds == ConnectionInv => Arrives
<1> SUFFICES ASSUME ConnectionInv, Connected, NEW k \in Keys(proto)
             PROVE  reply.connect[k] = Due(k)
  BY DEF Arrives
<1> DEFINE base == IF made THEN CreateConnectionBuilder[proto] ELSE Nothing
           last == IF k \in DOMAIN wanted THEN wanted[k] ELSE Read(base, k)
           display == IF made THEN Read(DisplayDefaults, k) ELSE "undefined"
<1>1. Due(k) = IF last \notin Absent THEN last
               ELSE IF display \notin Absent THEN display ELSE Argument(defaults, k)
  BY DEF Due
<1>2. Read(bag, k) = IF last \notin Absent THEN last ELSE display
  <2>1. CASE made
    <3>1. Read(params, k) = last
      BY <2>1, ReadMerged DEF ConnectionInv, Described
    <3> QED
      BY <2>1, <3>1, BagHolds DEF Connected
  <2>2. CASE ~ made
    <3>1. bag = wanted /\ \A x \in DOMAIN bag : bag[x] \notin Absent
      BY <2>2 DEF ConnectionInv, Settled, Connected
    <3> QED
      BY <2>2, <3>1 DEF Read, Nothing, Absent
  <2> QED
    BY <2>1, <2>2
<1>3. /\ k \in DOMAIN bag => Read(bag, k) = bag[k] /\ bag[k] \notin Absent
      /\ k \notin DOMAIN bag => Read(bag, k) = "undefined" /\ "undefined" \in Absent
  BY BagHolds DEF Read, Absent, Connected
<1> HIDE DEF last, display
<1> QED
  BY <1>1, <1>2, <1>3, ToldArgument DEF Connected

LEMMA UsableHolds == ConnectionInv => Usable
<1> SUFFICES ASSUME ConnectionInv, Connected, made PROVE Usable
  BY DEF Usable
<1> USE DEF Connected
<1>1. proto \in Protocols /\ Validate(proto, params)
  BY DEF ConnectionInv, Settled
<1>2. CommonChecks(proto, params)
      /\ (proto = "ssh" => Truthy(Read(params, "password")) \/ Truthy(Read(params, "private-key")))
  BY <1>1 DEF Validate, Protocols, RDPChecks, VNCChecks, SSHChecks, TelnetChecks
<1>3. ASSUME NEW k \in Keys(proto), Truthy(Read(params, k))
      PROVE  reply.connect[k] # ""
  <2>1. Read(params, k) \notin Absent /\ Read(params, k) # ""
    BY <1>3 DEF Truthy
  <2>2. Read(bag, k) = Read(params, k)
    BY <2>1, BagHolds
  <2>3. k \in DOMAIN bag
    BY <2>1, <2>2 DEF Read, Absent
  <2> QED
    BY <2>1, <2>2, <2>3, ToldArgument DEF Read
<1>4. \A k \in Required[proto] : reply.connect[k] # ""
  BY <1>1, <1>2, <1>3, ValidatedKeys DEF CommonChecks
<1>5. proto = "ssh" => reply.connect["password"] # "" \/ reply.connect["private-key"] # ""
  BY <1>1, <1>2, <1>3, ValidatedKeys
<1>6. ASSUME NEW need \in Preconditions[proto], reply.connect[need[1]] = "true",
             need[1] \in DOMAIN bag
      PROVE  reply.connect[need[2]] # ""
  <2>1. need[1] \in Keys(proto) \ Display3 /\ need[2] \in Keys(proto)
    BY <1>1, ValidatedKeys
  <2>2. Read(bag, need[1]) = "true"
    BY <1>6, <2>1, ToldArgument DEF Read
  <2>3. Read(DisplayDefaults, need[1]) = "undefined"
    BY <2>1 DEF Read, DisplayDefaults, Display3, @@, :>
  <2>4. Read(params, need[1]) = "true"
    BY <2>2, <2>3, BagHolds
  <2>5. Truthy(Read(params, need[2]))
    BY <1>2, <2>4 DEF CommonChecks, Truthy, Absent
  <2> QED
    BY <1>3, <2>1, <2>5
<1> QED
  BY <1>4, <1>5, <1>6 DEF Usable

LEMMA OneDisplaySizeHolds == ConnectionInv => OneDisplaySize
<1> SUFFICES ASSUME ConnectionInv, Connected, NEW k \in {"width", "height", "dpi"} \cap Keys(proto)
             PROVE  reply.connect[k] \in {reply.size[k]} \cup (IF made THEN {} ELSE {""})
  BY DEF OneDisplaySize
<1> USE DEF Connected
<1> DEFINE merged == MergeSettings(bag, defaults)
<1>1. PICK offers \in Offers :
        reply = SendHandshakeReply(merged, offers, Keys(proto)) @@ "offered" :> offers
  BY DEF ConnectionInv, Told
<1> HIDE DEF merged
<1>2. reply.connect[k] = Argument(merged, k)
  BY <1>1 DEF SendHandshakeReply, SendClientCapabilities, @@, :>
<1>3. \E other : reply.size[k] = OrElse(merged, k, other)
  <2>1. reply.size = SendClientCapabilities(merged, PickProtocolVersion(offers)).size
    BY <1>1 DEF SendHandshakeReply, SendClientCapabilities, @@, :>
  <2> QED
    BY <2>1 DEF SendClientCapabilities
<1>4. made => Argument(merged, k) # "" \/ Read(merged, k) \notin Absent
  <2> SUFFICES ASSUME made PROVE Read(merged, k) \notin Absent
    OBVIOUS
  <2>1. Read(DisplayDefaults, k) \notin Absent
    BY DEF Read, DisplayDefaults, Absent, @@, :>
  <2>2. Read(bag, k) \notin Absent
    BY <2>1, BagHolds
  <2>3. Read(merged, k) = Read(bag, k)
    BY <2>2 DEF merged, MergeSettings, Read, Absent, @@
  <2> QED
    BY <2>2, <2>3
<1>5. Read(merged, k) \notin Absent => reply.size[k] = Argument(merged, k)
  BY <1>3 DEF OrElse, Argument
<1>6. Read(merged, k) \in Absent => Argument(merged, k) = ""
  BY DEF Argument
<1> QED
  BY <1>2, <1>4, <1>5, <1>6

LEMMA TimezoneHeardHolds == ConnectionInv => TimezoneHeard
<1> SUFFICES ASSUME ConnectionInv, Connected, "timezone" \in Keys(proto)
             PROVE  reply.timezone
                      = IF \E i \in DOMAIN reply.offered : IsAtLeast(reply.offered[i], 1, 1)
                        THEN reply.connect["timezone"] ELSE ""
  BY DEF TimezoneHeard
<1> USE DEF Connected
<1> DEFINE merged == MergeSettings(bag, defaults)
<1>1. PICK offers \in Offers :
        reply = SendHandshakeReply(merged, offers, Keys(proto)) @@ "offered" :> offers
  BY DEF ConnectionInv, Told
<1> HIDE DEF merged
<1>2. reply.connect["timezone"] = Argument(merged, "timezone") /\ reply.offered = offers
  BY <1>1 DEF SendHandshakeReply, SendClientCapabilities, @@, :>
<1>3. reply.timezone = IF IsAtLeast(PickProtocolVersion(offers), 1, 1)
                       THEN Argument(merged, "timezone") ELSE ""
  BY <1>1 DEF SendHandshakeReply, SendClientCapabilities, @@, :>
<1>4. offers \in Seq(Versions)
  BY ConnectionAssumption DEF Versions
<1> QED
  BY <1>2, <1>3, <1>4, PickKnowsTimezone

\* What the settings of a connection name is a parameter of its protocol.
LEMMA BagKeys == ConnectionInv => DOMAIN bag \subseteq Keys(proto)
<1> SUFFICES ASSUME ConnectionInv PROVE DOMAIN bag \subseteq Keys(proto)
  OBVIOUS
<1>1. proto \in Protocols /\ DOMAIN wanted \subseteq Keys(proto)
  BY DEF ConnectionInv, Described
<1>2. CASE phase \in {"new", "building"}
  BY <1>2 DEF ConnectionInv, Nothing
<1>3. CASE phase \in {"built", "connected"} /\ made
  <2>1. params = wanted @@ CreateConnectionBuilder[proto] /\ bag = ToConnectionSettings(params)
    BY <1>3 DEF ConnectionInv, Described, Settled
  <2>2. DOMAIN params \subseteq Keys(proto)
    BY <1>1, <2>1, BuilderKeys DEF @@
  <2>3. DOMAIN bag \subseteq DOMAIN params \cup Display3
    BY <2>1 DEF ToConnectionSettings, DisplayDefaults, Display3, @@, :>
  <2> QED
    BY <1>1, <2>2, <2>3, BuilderKeys
<1>4. CASE phase \in {"built", "connected"} /\ ~ made
  BY <1>1, <1>4 DEF ConnectionInv, Settled
<1> QED
  BY <1>2, <1>3, <1>4 DEF ConnectionInv

LEMMA UtilitiesAgreeHolds == ConnectionInv => UtilitiesAgree
<1> SUFFICES ASSUME ConnectionInv PROVE UtilitiesAgree
  OBVIOUS
<1>1. proto \in Protocols
  BY DEF ConnectionInv
<1>2. DOMAIN CreateConnectionBuilder[proto] \cup Setters[proto] \cup DOMAIN bag \subseteq Keys(proto)
  BY <1>1, BuilderKeys, BagKeys
<1>3. ASSUME NEW n \in DOMAIN Methods[proto]
      PROVE  Methods[proto][n].on \cup Options(Methods[proto][n]) \subseteq Keys(proto)
  BY <1>1, MethodsSound DEF Sound, Has, Within
<1> QED
  BY <1>1, <1>2, <1>3, QueriesAgree DEF UtilitiesAgree

\* What the calls on a builder asked for last of each parameter is what
\* sendHandshakeReply tells guacd, for any samples, defaults and number of calls.
THEOREM SettingsArrive == Spec => []Arrives
  BY ConnectionInvariant, ArrivesHolds, PTL

\* What validate let pass has, when it reaches guacd, what its protocol and each
\* feature that is switched on need, unless the server's defaults switched it on.
THEOREM ConnectionsUsable == Spec => []Usable
  BY ConnectionInvariant, UsableHolds, PTL

\* guacd hears one size of the display, in `size` and in `connect`, whatever the
\* three layers of defaults hold.
THEOREM OneSizeTold == Spec => []OneDisplaySize
  BY ConnectionInvariant, OneDisplaySizeHolds, PTL

\* The time zone goes to every guacd that offers a version which knows it, in
\* whatever order and number pickProtocolVersion meets the versions.
THEOREM TimezoneTold == Spec => []TimezoneHeard
  BY ConnectionInvariant, TimezoneHeardHolds, PTL

\* The parameter tables of types.ts, the builders and the queries of utils.ts
\* agree about each protocol, and no call leads outside them.
THEOREM TablesAgree == Spec => []UtilitiesAgree
  BY ConnectionInvariant, UtilitiesAgreeHolds, PTL
=============================================================================
