----------------------------- MODULE Connection -----------------------------
(***************************************************************************)
(* The settings of one connection, from the calls that describe it to what *)
(* guacd is told: a connection builder (or a settings object written by    *)
(* hand), build, GuacamoleServer.mergeSettings and the handshake.          *)
(*                                                                         *)
(* The path in between (a ticket, its store, a redeemed ticket) keeps the  *)
(* settings as they are and is TicketManager's.                            *)
(***************************************************************************)
EXTENDS Builders, Handshake, FiniteSets

CONSTANTS
    Samples,         \* Samples[kind]: the values calls pass for a kind
    Offers,          \* the sequences of versions a guacd may offer
    CustomDefaults,  \* a connectionDefaultSettings entry of the application
    MaxCalls         \* bound: calls on a builder after its first

\* A sample is a value and not the absence of one, and a text sample is not
\* the text by which a falsy value of another kind is denoted.
ASSUME ConnectionAssumption ==
    /\ \A kind \in {"text", "num", "bool", "list"} : Samples[kind] \cap Absent = {}
    /\ Samples["text"] \cap {"false", "0", "NaN"} = {}
    /\ Offers \subseteq Seq(Seq(Nat))
    /\ MaxCalls \in Nat

VARIABLES
    phase,     \* "new", "building", "built" or "connected"
    proto,     \* the protocol
    made,      \* whether a builder made the settings
    params,    \* the builder's params
    wanted,    \* history: the value asked for last of each parameter asked for so far
    calls,     \* number of calls on the builder
    defaults,  \* the server's default settings for the protocol
    bag,       \* the ConnectionSettings' settings
    reply      \* what guacd was told, and (history) the versions it had offered

vars == <<phase, proto, made, params, wanted, calls, defaults, bag, reply>>

\* GuacamoleServer's constructor: defaults for each protocol, unless the
\* application has an entry of its own, which replaces them as a whole.
Display == "width" :> "1024" @@ "height" :> "768" @@ "dpi" :> "96"
ServerDefaults ==
    [rdp |-> "port" :> "3389" @@ Display @@ "audio" :> "audio/L16"
             @@ "image" :> "image/png,image/jpeg",
     vnc |-> "port" :> "5900" @@ Display,
     ssh |-> "port" :> "22" @@ "font-name" :> "monospace" @@ "font-size" :> "12",
     telnet |-> "port" :> "23" @@ "font-name" :> "monospace" @@ "font-size" :> "12"]

Init ==
    /\ phase = "new"
    /\ proto \in Protocols
    /\ defaults \in {ServerDefaults[proto], CustomDefaults}
    /\ made = FALSE
    /\ params = Nothing /\ wanted = Nothing /\ bag = Nothing /\ reply = Nothing
    /\ calls = 0

----------------------------------------------------------------------------
(* Describing the connection.                                              *)

ValuesOf(k) == Samples[Params[proto][k]]

\* The credentials of a first call chain: a hostname and, or not, a user.
FirstCalls ==
    {"hostname" :> "a",
     "hostname" :> "a" @@ "username" :> "a",
     "hostname" :> "a" @@ "username" :> "a" @@ "password" :> "a"}

Create ==
    /\ phase = "new"
    /\ phase' = "building"
    /\ made' = TRUE
    /\ \E first \in FirstCalls :
        /\ params' = first @@ CreateConnectionBuilder[proto]
        /\ wanted' = first
    /\ UNCHANGED <<proto, calls, defaults, bag, reply>>

\* Bound: calls go on about the parameters the calls before them named.
Related(keys) ==
    \/ calls = 0
    \/ keys \cap (DOMAIN wanted \ {"hostname", "username", "password"}) # {}

Call(keys) ==
    /\ phase = "building"
    /\ calls < MaxCalls
    /\ Related(keys)
    /\ calls' = calls + 1
    /\ UNCHANGED <<phase, proto, made, defaults, bag, reply>>

\* `x(value)`.
Set(k, v) ==
    /\ Call({k})
    /\ params' = k :> v @@ params
    /\ wanted' = k :> v @@ wanted

DisableClipboard(v) ==
    /\ Call(ClipboardKeys)
    /\ params' = [k \in ClipboardKeys |-> v] @@ params
    /\ wanted' = [k \in ClipboardKeys |-> v] @@ wanted

\* What a caller of a method asks for: its options, and the feature's defaults
\* for those left out. An option that the method tests by `if (options.x)` says
\* nothing when it is empty: what was asked for before stays, or a default.
Asked(m, o) ==
    LET told == {k \in DOMAIN o : k \in m.truthy => Truthy(o[k])}
    IN  [k \in told |-> o[k]] @@ Flag(m.on) @@ m.orElse

CallMethod(m, o) ==
    /\ Call(m.on \cup Options(m))
    /\ params' = Written(m, o) @@ params
    /\ wanted' = Asked(m, o) @@ wanted

\* Bound: the required option, if the method has one, and at most one other.
Alone(k, values) == {k :> v : v \in values}
RequiredOption(m) ==
    IF m.always = {} THEN {Nothing} ELSE UNION {Alone(k, ValuesOf(k)) : k \in m.always}
OtherOption(m) == UNION {Alone(k, ValuesOf(k)) : k \in Options(m) \ m.always}
OptionsFor(m) ==
    {other @@ required : other \in {Nothing} \cup OtherOption(m), required \in RequiredOption(m)}

\* withParams takes any parameter, and undefined as well.
WithParams(k, v) ==
    /\ Call({k})
    /\ params' = k :> v @@ params
    /\ wanted' = k :> v @@ wanted

Build ==
    /\ phase = "building"
    /\ Validate(proto, params)
    /\ phase' = "built"
    /\ bag' = ToConnectionSettings(params)
    /\ UNCHANGED <<proto, made, params, wanted, calls, defaults, reply>>

\* A settings object written by hand, which nothing validates.
WriteByHand(k, v) ==
    /\ phase = "new"
    /\ phase' = "built"
    /\ bag' = k :> v
    /\ wanted' = k :> v
    /\ UNCHANGED <<proto, made, params, calls, defaults, reply>>

----------------------------------------------------------------------------
(* Connecting.                                                             *)

\* Mutant: the defaults win.
MergeBackwards(settings, own) == own @@ settings

MergeSettings(settings, own) == settings @@ own

\* guacd asks for every parameter of the protocol.
Connect(offers) ==
    /\ phase = "built"
    /\ phase' = "connected"
    /\ reply' = SendHandshakeReply(MergeSettings(bag, defaults), offers, Keys(proto))
                 @@ "offered" :> offers
    /\ UNCHANGED <<proto, made, params, wanted, calls, defaults, bag>>

Next ==
    \/ Create
    \/ \E k \in Setters[proto] : \E v \in ValuesOf(k) : Set(k, v)
    \/ \E v \in Samples.bool : DisableClipboard(v)
    \/ \E n \in DOMAIN Methods[proto] :
        LET m == Methods[proto][n] IN \E o \in OptionsFor(m) : CallMethod(m, o)
    \/ \E k \in Keys(proto) : \E v \in ValuesOf(k) \cup {"undefined"} : WithParams(k, v)
    \/ \E k \in Keys(proto) : \E v \in ValuesOf(k) : WriteByHand(k, v)
    \/ Build
    \/ \E offers \in Offers : Connect(offers)

Spec == Init /\ [][Next]_vars

----------------------------------------------------------------------------
(* Properties.                                                             *)

Connected == phase = "connected"

\* What guacd is due for a parameter: the last value asked for, else the
\* builder's default, else the server's.
Due(k) ==
    LET base == IF made THEN CreateConnectionBuilder[proto] ELSE Nothing
        last == IF k \in DOMAIN wanted THEN wanted[k] ELSE Read(base, k)
        display == IF made THEN Read(DisplayDefaults, k) ELSE "undefined"
    IN  CASE last \notin Absent -> last
          [] last \in Absent /\ display \notin Absent -> display
          [] OTHER -> Argument(defaults, k)

\* What was asked for last arrives: through option objects, defaults of the
\* builder, the display and the server, and the conversion to text, no value
\* is lost or overridden, `false` and 0 included; and so is '', but as an option
\* that a method tests by `if (options.x)`, which asks for nothing (Asked).
Arrives == Connected => \A k \in Keys(proto) : reply.connect[k] = Due(k)

\* Settings that passed validate reach guacd usable: there is a target and,
\* where the protocol wants them, a user and a credential, and every feature
\* that is switched on comes with the parameter it needs, unless it is the
\* server's defaults, which no validate sees, that switch it on.
Usable ==
    Connected /\ made =>
        /\ \A k \in Required[proto] : reply.connect[k] # ""
        /\ proto = "ssh" => reply.connect["password"] # "" \/ reply.connect["private-key"] # ""
        /\ \A need \in Preconditions[proto] :
            reply.connect[need[1]] = "true" =>
                reply.connect[need[2]] # "" \/ need[1] \notin DOMAIN bag

\* guacd hears one size of the display: the `size` instruction and the
\* arguments of `connect` agree wherever the latter are given, which they are
\* for a connection that a builder made.
OneDisplaySize ==
    Connected => \A k \in {"width", "height", "dpi"} \cap Keys(proto) :
        reply.connect[k] \in {reply.size[k]} \cup (IF made THEN {} ELSE {""})

\* A guacd that offers any version which knows `timezone` is told the time zone
\* that was asked for, and no other guacd is.
TimezoneHeard ==
    Connected /\ "timezone" \in Keys(proto) =>
        reply.timezone = IF \E i \in DOMAIN reply.offered : IsAtLeast(reply.offered[i], 1, 1)
                         THEN reply.connect["timezone"] ELSE ""

\* The protocol utilities agree with the tables of parameters and the builders:
\* a capability is claimed for exactly the protocols that have its parameters,
\* everything a builder writes is a parameter of its protocol, and the port and
\* the color depth it starts from are those the utilities name.
UtilitiesAgree ==
    LET start == CreateConnectionBuilder[proto]
        own == Keys(proto)
        methods == Methods[proto]
    IN  /\ DOMAIN start \cup Setters[proto] \cup DOMAIN bag \subseteq own
        /\ \A n \in DOMAIN methods : methods[n].on \cup Options(methods[n]) \subseteq own
        /\ SupportsFileTransfer(proto) <=> "enable-sftp" \in own
        /\ SupportsAudio(proto) <=> {"disable-audio", "audio-servername"} \cap own # {}
        /\ IsTerminalProtocol(proto) <=> "font-name" \in own
        /\ IsGraphicalProtocol(proto) <=> "color-depth" \in own
        /\ DetectProtocolFromPort(start["port"]) = proto
        /\ GetRecommendedColorDepth(proto) \in {"null", Read(start, "color-depth")}
=============================================================================
