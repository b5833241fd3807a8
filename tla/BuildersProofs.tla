--------------------------- MODULE BuildersProofs ---------------------------
(***************************************************************************)
(* Facts about the tables of parameters and the option methods of the      *)
(* builders, for every protocol.                                           *)
(***************************************************************************)
EXTENDS Builders, TLAPS

----------------------------------------------------------------------------
(* Objects.                                                                *)

LEMMA OneEntry ==
    ASSUME NEW k, NEW v
    PROVE  DOMAIN (k :> v) = {k} /\ (k :> v)[k] = v
  BY DEF :>

LEMMA MergeDomain ==
    ASSUME NEW f, NEW g
    PROVE  DOMAIN (f @@ g) = DOMAIN f \cup DOMAIN g
  BY DEF @@

LEMMA MergeAt ==
    ASSUME NEW f, NEW g, NEW x \in DOMAIN f \cup DOMAIN g
    PROVE  (f @@ g)[x] = IF x \in DOMAIN f THEN f[x] ELSE g[x]
  BY DEF @@

\* Merging is associative, so a call on a builder adds to what was asked for.
LEMMA MergeAssociative ==
    ASSUME NEW f, NEW g, NEW h
    PROVE  f @@ (g @@ h) = (f @@ g) @@ h
<1> DEFINE left == f @@ (g @@ h)
           right == (f @@ g) @@ h
           D == DOMAIN f \cup DOMAIN g \cup DOMAIN h
<1>1. left = [x \in D |-> left[x]] /\ right = [x \in D |-> right[x]]
  <2>1. DOMAIN left = D /\ DOMAIN right = D
    BY DEF @@
  <2>2. left = [x \in DOMAIN left |-> left[x]] /\ right = [x \in DOMAIN right |-> right[x]]
    BY DEF @@
  <2> QED
    BY <2>1, <2>2, Zenon
<1>2. ASSUME NEW x \in D PROVE left[x] = right[x]
  BY DEF @@
<1> QED
  BY <1>1, <1>2

\* A key reads as the first object that has it says.
LEMMA ReadMerged ==
    ASSUME NEW f, NEW g, NEW k
    PROVE  Read(f @@ g, k) = IF k \in DOMAIN f THEN f[k] ELSE Read(g, k)
  BY DEF @@, Read

----------------------------------------------------------------------------
(* The parameters and their kinds.                                         *)

Kinds == {"text", "num", "bool", "list"}

Kinded(f) == \A k \in DOMAIN f : f[k] \in Kinds

LEMMA InterfaceKinded ==
    ASSUME NEW texts, NEW nums, NEW bools
    PROVE  Kinded(Interface(texts, nums, bools))
  BY DEF Interface, @@, Kinded, Kinds

LEMMA MergeKinded ==
    ASSUME NEW f, NEW g, Kinded(f), Kinded(g)
    PROVE  Kinded(f @@ g)
  BY DEF @@, Kinded

LEMMA ParamsAre ==
    /\ Params["rdp"] = BaseParams @@ GraphicalParams @@ SFTPParams @@ RDPParams
    /\ Params["vnc"] = BaseParams @@ GraphicalParams @@ SFTPParams @@ VNCParams
    /\ Params["ssh"] = BaseParams @@ TerminalParams @@ SFTPParams @@ SSHParams
    /\ Params["telnet"] = BaseParams @@ TerminalParams @@ TelnetParams
  BY DEF Params

\* Every parameter of a protocol has one of the four kinds.
LEMMA KindsOfParams ==
    ASSUME NEW p \in Protocols
    PROVE  Kinded(Params[p])
<1>1. /\ Kinded(BaseParams) /\ Kinded(GraphicalParams) /\ Kinded(TerminalParams)
      /\ Kinded(SFTPParams) /\ Kinded(RDPParams) /\ Kinded(SSHParams) /\ Kinded(TelnetParams)
  BY InterfaceKinded, Zenon DEF BaseParams, GraphicalParams, TerminalParams, SFTPParams,
     RDPParams, SSHParams, TelnetParams
<1>2. Kinded(VNCParams)
  <2>1. Kinded("encodings" :> "list")
    BY DEF :>, Kinded, Kinds
  <2> QED
    BY <2>1, InterfaceKinded, MergeKinded, Zenon DEF VNCParams
<1>3. /\ Kinded(Params["rdp"]) /\ Kinded(Params["vnc"])
      /\ Kinded(Params["ssh"]) /\ Kinded(Params["telnet"])
  BY <1>1, <1>2, ParamsAre, MergeKinded, Zenon
<1> QED
  BY <1>3 DEF Protocols

LEMMA DomainsOfParams ==
    /\ Keys("rdp") = DOMAIN BaseParams \cup DOMAIN GraphicalParams \cup DOMAIN SFTPParams
                     \cup DOMAIN RDPParams
    /\ Keys("vnc") = DOMAIN BaseParams \cup DOMAIN GraphicalParams \cup DOMAIN SFTPParams
                     \cup DOMAIN VNCParams
    /\ Keys("ssh") = DOMAIN BaseParams \cup DOMAIN TerminalParams \cup DOMAIN SFTPParams
                     \cup DOMAIN SSHParams
    /\ Keys("telnet") = DOMAIN BaseParams \cup DOMAIN TerminalParams \cup DOMAIN TelnetParams
  BY DEF @@, Keys, Params

\* A protocol has the parameters of an interface, with the kinds it gives them.
Has(p, f) == DOMAIN f \subseteq Keys(p) /\ \A k \in DOMAIN f : Params[p][k] = f[k]

\* No two interfaces of a protocol say something of one parameter.
LEMMA InterfacesApart ==
    /\ DOMAIN BaseParams \cap (DOMAIN GraphicalParams \cup DOMAIN TerminalParams \cup DOMAIN SFTPParams) = {}
    /\ DOMAIN SFTPParams \cap (DOMAIN GraphicalParams \cup DOMAIN TerminalParams) = {}
    /\ DOMAIN RDPParams \cap (DOMAIN BaseParams \cup DOMAIN GraphicalParams \cup DOMAIN SFTPParams) = {}
    /\ DOMAIN VNCParams \cap (DOMAIN BaseParams \cup DOMAIN GraphicalParams \cup DOMAIN SFTPParams) = {}
    /\ DOMAIN SSHParams \cap (DOMAIN BaseParams \cup DOMAIN TerminalParams \cup DOMAIN SFTPParams) = {}
    /\ DOMAIN TelnetParams \cap (DOMAIN BaseParams \cup DOMAIN TerminalParams) = {}
<1>1. DOMAIN BaseParams \cap (DOMAIN GraphicalParams \cup DOMAIN TerminalParams \cup DOMAIN SFTPParams) = {}
  BY DEF BaseParams, GraphicalParams, TerminalParams, SFTPParams, Interface, @@
<1>2. DOMAIN SFTPParams \cap (DOMAIN GraphicalParams \cup DOMAIN TerminalParams) = {}
  BY DEF GraphicalParams, TerminalParams, SFTPParams, Interface, @@
<1>3. DOMAIN RDPParams \cap (DOMAIN BaseParams \cup DOMAIN GraphicalParams \cup DOMAIN SFTPParams) = {}
  BY DEF RDPParams, BaseParams, GraphicalParams, SFTPParams, Interface, @@
<1>4. DOMAIN VNCParams \cap (DOMAIN BaseParams \cup DOMAIN GraphicalParams \cup DOMAIN SFTPParams) = {}
  BY DEF VNCParams, BaseParams, GraphicalParams, SFTPParams, Interface, @@, :>
<1>5. DOMAIN SSHParams \cap (DOMAIN BaseParams \cup DOMAIN TerminalParams \cup DOMAIN SFTPParams) = {}
  BY DEF SSHParams, BaseParams, TerminalParams, SFTPParams, Interface, @@
<1>6. DOMAIN TelnetParams \cap (DOMAIN BaseParams \cup DOMAIN TerminalParams) = {}
  BY DEF TelnetParams, BaseParams, TerminalParams, Interface, @@
<1> QED
  BY <1>1, <1>2, <1>3, <1>4, <1>5, <1>6

LEMMA InterfacesOf ==
    /\ Has("rdp", BaseParams) /\ Has("rdp", SFTPParams) /\ Has("rdp", RDPParams)
    /\ Has("vnc", BaseParams) /\ Has("vnc", SFTPParams) /\ Has("vnc", VNCParams)
    /\ Has("ssh", BaseParams) /\ Has("ssh", TerminalParams) /\ Has("ssh", SFTPParams)
    /\ Has("ssh", SSHParams)
    /\ Has("telnet", BaseParams) /\ Has("telnet", TerminalParams) /\ Has("telnet", TelnetParams)
<1>1. Has("rdp", BaseParams) /\ Has("rdp", SFTPParams) /\ Has("rdp", RDPParams)
  BY InterfacesApart, DomainsOfParams, ParamsAre DEF @@, Has
<1>2. Has("vnc", BaseParams) /\ Has("vnc", SFTPParams) /\ Has("vnc", VNCParams)
  BY InterfacesApart, DomainsOfParams, ParamsAre DEF @@, Has
<1>3. /\ Has("ssh", BaseParams) /\ Has("ssh", TerminalParams) /\ Has("ssh", SFTPParams)
      /\ Has("ssh", SSHParams)
  BY InterfacesApart, DomainsOfParams, ParamsAre DEF @@, Has
<1>4. Has("telnet", BaseParams) /\ Has("telnet", TerminalParams) /\ Has("telnet", TelnetParams)
  BY InterfacesApart, DomainsOfParams, ParamsAre DEF @@, Has
<1> QED
  BY <1>1, <1>2, <1>3, <1>4

----------------------------------------------------------------------------
(* The option methods.                                                     *)

\* A method writes parameters of one interface: what it switches on is no
\* option, it requires one option at most, and the options that it writes
\* only when they are truthy it writes in no other way.
Within(f, m) ==
    /\ m.on \cap Options(m) = {}
    /\ m.on \cup Options(m) \subseteq DOMAIN f
    /\ \A j, k \in m.always : j = k
    /\ (m.always \cup DOMAIN m.orElse \cup m.given) \cap m.truthy = {}

Sound(p, m) == \E f : Has(p, f) /\ Within(f, m)

LEMMA WakeOnLanWithin == Within(BaseParams, WakeOnLan)
  BY DEF WakeOnLan, BaseParams, Within, Options, Method, Nothing, Interface, @@, :>

LEMMA RecordingWithin == Within(BaseParams, Recording)
  BY DEF Recording, BaseParams, Within, Options, Method, Nothing, Interface, @@, :>

LEMMA SFTPWithin == Within(SFTPParams, SFTP)
  BY DEF SFTP, SFTPParams, Within, Options, Method, Nothing, Interface, @@, :>

LEMMA FontWithin == Within(TerminalParams, Font)
  BY DEF Font, TerminalParams, Within, Options, Method, Nothing, Interface, @@, :>

LEMMA TypescriptWithin == Within(TerminalParams, Typescript)
  BY DEF Typescript, TerminalParams, Within, Options, Method, Nothing, Interface, @@, :>

LEMMA RDPMethodsSound == \A n \in DOMAIN RDPMethods : Sound("rdp", RDPMethods[n])
<1>1. Within(RDPParams, RDPMethods["performanceFlags"])
  BY DEF RDPMethods, RDPParams, Within, Options, Method, Nothing, Interface, @@, :>
<1>2. Within(RDPParams, RDPMethods["enablePrinting"])
  BY DEF RDPMethods, RDPParams, Within, Options, Method, Nothing, Interface, @@, :>
<1>3. Within(RDPParams, RDPMethods["drive"])
  <2> DEFINE m == RDPMethods["drive"]
             options == {"drive-path", "drive-name", "create-drive-path", "disable-download",
                         "disable-upload"}
  <2>1. m.on = {"enable-drive"} /\ m.always = {"drive-path"} /\ m.truthy = {}
    BY DEF RDPMethods, Method
  <2>2. Options(m) = options
    BY DEF RDPMethods, Method, Options, @@, :>
  <2>3. {"enable-drive"} \cup options \subseteq DOMAIN RDPParams
    BY DEF RDPParams, Interface, @@
  <2>4. Within(RDPParams, m)
    <3> HIDE DEF m
    <3> QED
      BY <2>1, <2>2, <2>3 DEF Within
  <2> QED
    BY <2>4
<1>4. Within(RDPParams, RDPMethods["remoteApp"])
  BY DEF RDPMethods, RDPParams, Within, Options, Method, Nothing, Interface, @@, :>
<1>5. Within(RDPParams, RDPMethods["gateway"])
  BY DEF RDPMethods, RDPParams, Within, Options, Method, Nothing, Interface, @@, :>
<1>6. Within(RDPParams, RDPMethods["preconnection"])
  BY DEF RDPMethods, RDPParams, Within, Options, Method, Nothing, Interface, @@, :>
<1>7. /\ RDPMethods["sftp"] = SFTP
      /\ RDPMethods["wakeOnLan"] = WakeOnLan
      /\ RDPMethods["recording"] = Recording
  BY DEF RDPMethods
<1>8. DOMAIN RDPMethods = {"performanceFlags", "enablePrinting", "drive", "sftp", "remoteApp", "gateway", "preconnection", "wakeOnLan", "recording"}
  BY DEF RDPMethods
<1> QED
  BY <1>1, <1>2, <1>3, <1>4, <1>5, <1>6, <1>7, <1>8, InterfacesOf, SFTPWithin, WakeOnLanWithin, RecordingWithin DEF Sound

LEMMA VNCMethodsSound == \A n \in DOMAIN VNCMethods : Sound("vnc", VNCMethods[n])
<1>1. Within(VNCParams, VNCMethods["reverseConnect"])
  BY DEF VNCMethods, VNCParams, Within, Options, Method, Nothing, Interface, @@, :>
<1>2. Within(VNCParams, VNCMethods["repeater"])
  BY DEF VNCMethods, VNCParams, Within, Options, Method, Nothing, Interface, @@, :>
<1>3. /\ VNCMethods["sftp"] = SFTP
      /\ VNCMethods["wakeOnLan"] = WakeOnLan
      /\ VNCMethods["recording"] = Recording
  BY DEF VNCMethods
<1>4. DOMAIN VNCMethods = {"reverseConnect", "repeater", "sftp", "wakeOnLan", "recording"}
  BY DEF VNCMethods
<1> QED
  BY <1>1, <1>2, <1>3, <1>4, InterfacesOf, SFTPWithin, WakeOnLanWithin, RecordingWithin DEF Sound

LEMMA SSHMethodsSound == \A n \in DOMAIN SSHMethods : Sound("ssh", SSHMethods[n])
<1>1. Within(SSHParams, SSHMethods["privateKey"])
  BY DEF SSHMethods, SSHParams, Within, Options, Method, Nothing, Interface, @@, :>
<1>2. Within(SFTPParams, SSHMethods["sftp"])
  BY DEF SSHMethods, SFTPParams, Within, Options, Method, Nothing, Interface, @@, :>
<1>3. /\ SSHMethods["font"] = Font
      /\ SSHMethods["wakeOnLan"] = WakeOnLan
      /\ SSHMethods["recording"] = Recording
      /\ SSHMethods["typescript"] = Typescript
  BY DEF SSHMethods
<1>4. DOMAIN SSHMethods = {"privateKey", "font", "sftp", "wakeOnLan", "recording", "typescript"}
  BY DEF SSHMethods
<1> QED
  BY <1>1, <1>2, <1>3, <1>4, InterfacesOf, FontWithin, WakeOnLanWithin, RecordingWithin, TypescriptWithin DEF Sound

LEMMA TelnetMethodsSound == \A n \in DOMAIN TelnetMethods : Sound("telnet", TelnetMethods[n])
<1>1. Within(TelnetParams, TelnetMethods["loginDetection"])
  BY DEF TelnetMethods, TelnetParams, Within, Options, Method, Nothing, Interface, @@, :>
<1>2. /\ TelnetMethods["font"] = Font
      /\ TelnetMethods["wakeOnLan"] = WakeOnLan
      /\ TelnetMethods["recording"] = Recording
      /\ TelnetMethods["typescript"] = Typescript
  BY DEF TelnetMethods
<1>3. DOMAIN TelnetMethods = {"loginDetection", "font", "wakeOnLan", "recording", "typescript"}
  BY DEF TelnetMethods
<1> QED
  BY <1>1, <1>2, <1>3, InterfacesOf, FontWithin, WakeOnLanWithin, RecordingWithin, TypescriptWithin DEF Sound

\* Every option method of every builder is sound.
LEMMA MethodsSound ==
    ASSUME NEW p \in Protocols, NEW n \in DOMAIN Methods[p]
    PROVE  Sound(p, Methods[p][n])
<1>1. /\ Methods["rdp"] = RDPMethods /\ Methods["vnc"] = VNCMethods
      /\ Methods["ssh"] = SSHMethods /\ Methods["telnet"] = TelnetMethods
  BY DEF Methods
<1> QED
  BY <1>1, RDPMethodsSound, VNCMethodsSound, SSHMethodsSound, TelnetMethodsSound DEF Protocols

----------------------------------------------------------------------------
(* The constructors, the setters and what validate asks for.               *)

Display3 == {"width", "height", "dpi"}

LEMMA RDPKeys == DOMAIN RDPDefaults \cup RDPSetters \cup Display3 \subseteq Keys("rdp")
<1>1. DOMAIN RDPDefaults \subseteq Keys("rdp")
  BY DomainsOfParams DEF RDPDefaults, BaseParams, GraphicalParams, SFTPParams, RDPParams, Interface, @@, :>
<1>2. RDPSetters \cup Display3 \subseteq Keys("rdp")
  BY DomainsOfParams DEF RDPSetters, Display3, BaseParams, GraphicalParams, SFTPParams, RDPParams, Interface, @@, :>
<1> QED
  BY <1>1, <1>2

LEMMA VNCKeys == DOMAIN VNCDefaults \cup VNCSetters \cup Display3 \subseteq Keys("vnc")
<1>1. DOMAIN VNCDefaults \subseteq Keys("vnc")
  BY DomainsOfParams DEF VNCDefaults, BaseParams, GraphicalParams, SFTPParams, VNCParams, Interface, @@, :>
<1>2. VNCSetters \cup Display3 \subseteq Keys("vnc")
  BY DomainsOfParams DEF VNCSetters, Display3, BaseParams, GraphicalParams, SFTPParams, VNCParams, Interface, @@, :>
<1> QED
  BY <1>1, <1>2

LEMMA SSHKeys == DOMAIN SSHDefaults \cup SSHSetters \cup Display3 \subseteq Keys("ssh")
<1>1. DOMAIN SSHDefaults \subseteq Keys("ssh")
  BY DomainsOfParams DEF SSHDefaults, TerminalDefaults, BaseParams, TerminalParams, SFTPParams, SSHParams, Interface, @@, :>
<1>2. SSHSetters \cup Display3 \subseteq Keys("ssh")
  BY DomainsOfParams DEF SSHSetters, Display3, BaseParams, TerminalParams, SFTPParams, SSHParams, Interface, @@, :>
<1> QED
  BY <1>1, <1>2

LEMMA TelnetKeys == DOMAIN TelnetDefaults \cup TelnetSetters \cup Display3 \subseteq Keys("telnet")
<1>1. DOMAIN TelnetDefaults \subseteq Keys("telnet")
  BY DomainsOfParams DEF TelnetDefaults, TerminalDefaults, BaseParams, TerminalParams, TelnetParams, Interface, @@, :>
<1>2. TelnetSetters \cup Display3 \subseteq Keys("telnet")
  BY DomainsOfParams DEF TelnetSetters, Display3, BaseParams, TerminalParams, TelnetParams, Interface, @@, :>
<1> QED
  BY <1>1, <1>2

\* What a constructor writes, a setter sets and build adds is a parameter of the
\* protocol.
LEMMA BuilderKeys ==
    ASSUME NEW p \in Protocols
    PROVE  DOMAIN CreateConnectionBuilder[p] \cup Setters[p] \cup Display3 \subseteq Keys(p)
<1>1. /\ CreateConnectionBuilder["rdp"] = RDPDefaults /\ CreateConnectionBuilder["vnc"] = VNCDefaults
      /\ CreateConnectionBuilder["ssh"] = SSHDefaults /\ CreateConnectionBuilder["telnet"] = TelnetDefaults
  BY DEF CreateConnectionBuilder
<1>2. /\ Setters["rdp"] = RDPSetters /\ Setters["vnc"] = VNCSetters
      /\ Setters["ssh"] = SSHSetters /\ Setters["telnet"] = TelnetSetters
  BY DEF Setters
<1> QED
  BY <1>1, <1>2, RDPKeys, VNCKeys, SSHKeys, TelnetKeys DEF Protocols

\* What validate asks for is a parameter of the protocol.
LEMMA ValidatedKeys ==
    ASSUME NEW p \in Protocols
    PROVE  /\ Required[p] \subseteq Keys(p) \ Display3
           /\ \A need \in Preconditions[p] : need[1] \in Keys(p) \ Display3 /\ need[2] \in Keys(p) \ Display3
           /\ p = "ssh" => {"password", "private-key"} \subseteq Keys(p) \ Display3
           /\ ClipboardKeys \subseteq Keys(p) \ Display3
<1>1. {"hostname", "wol-send-packet", "wol-mac-addr", "disable-copy", "disable-paste"}
        \subseteq DOMAIN BaseParams \ Display3
  BY DEF BaseParams, Interface, @@, Display3
<1>2. {"enable-sftp", "sftp-username"} \subseteq DOMAIN SFTPParams \ Display3
  BY DEF SFTPParams, Interface, @@, Display3
<1>3. {"username", "enable-drive", "drive-path"} \subseteq DOMAIN RDPParams \ Display3
  BY DEF RDPParams, Interface, @@, Display3
<1>4. {"username", "password", "private-key"} \subseteq DOMAIN SSHParams \ Display3
  BY DEF SSHParams, Interface, @@, Display3
<1>5. CASE p = "rdp"
  BY <1>5, <1>1, <1>2, <1>3, DomainsOfParams
     DEF Required, Preconditions, WolNeeds, DriveNeeds, SftpNeeds, ClipboardKeys
<1>6. CASE p = "vnc"
  BY <1>6, <1>1, <1>2, DomainsOfParams
     DEF Required, Preconditions, WolNeeds, SftpNeeds, ClipboardKeys
<1>7. CASE p = "ssh"
  BY <1>7, <1>1, <1>4, DomainsOfParams DEF Required, Preconditions, WolNeeds, ClipboardKeys
<1>8. CASE p = "telnet"
  BY <1>8, <1>1, DomainsOfParams DEF Required, Preconditions, WolNeeds, ClipboardKeys
<1> QED
  BY <1>5, <1>6, <1>7, <1>8 DEF Protocols

\* The queries of utils.ts say of each protocol what its parameters and its
\* builder say.
LEMMA QueriesAgree ==
    ASSUME NEW p \in Protocols
    PROVE  LET start == CreateConnectionBuilder[p]
               own == Keys(p)
           IN  /\ SupportsFileTransfer(p) <=> "enable-sftp" \in own
               /\ SupportsAudio(p) <=> {"disable-audio", "audio-servername"} \cap own # {}
               /\ IsTerminalProtocol(p) <=> "font-name" \in own
               /\ IsGraphicalProtocol(p) <=> "color-depth" \in own
               /\ DetectProtocolFromPort(start["port"]) = p
               /\ GetRecommendedColorDepth(p) \in {"null", Read(start, "color-depth")}
<1>1. CASE p = "rdp"
  <2>1. /\ "enable-sftp" \in Keys(p)
        /\ {"disable-audio", "audio-servername"} \cap Keys(p) # {}
        /\ "font-name" \notin Keys(p)
        /\ "color-depth" \in Keys(p)
    BY <1>1, DomainsOfParams DEF BaseParams, GraphicalParams, SFTPParams, RDPParams, Interface, @@, :>
  <2>2. CreateConnectionBuilder[p]["port"] = DEFAULT_PORTS[p]
    BY <1>1 DEF CreateConnectionBuilder, RDPDefaults, DEFAULT_PORTS, @@, :>
  <2>3. DetectProtocolFromPort(DEFAULT_PORTS[p]) = p
    BY <1>1 DEF DetectProtocolFromPort, DEFAULT_PORTS, Protocols
  <2>4. GetRecommendedColorDepth(p) \in {"null", Read(CreateConnectionBuilder[p], "color-depth")}
    BY <1>1 DEF GetRecommendedColorDepth, Read, CreateConnectionBuilder, RDPDefaults, @@, :>
  <2> QED
    BY <1>1, <2>1, <2>2, <2>3, <2>4
       DEF SupportsFileTransfer, SupportsAudio, IsTerminalProtocol, IsGraphicalProtocol
<1>2. CASE p = "vnc"
  <2>1. /\ "enable-sftp" \in Keys(p)
        /\ {"disable-audio", "audio-servername"} \cap Keys(p) # {}
        /\ "font-name" \notin Keys(p)
        /\ "color-depth" \in Keys(p)
    BY <1>2, DomainsOfParams DEF BaseParams, GraphicalParams, SFTPParams, VNCParams, Interface, @@, :>
  <2>2. CreateConnectionBuilder[p]["port"] = DEFAULT_PORTS[p]
    BY <1>2 DEF CreateConnectionBuilder, VNCDefaults, DEFAULT_PORTS, @@, :>
  <2>3. DetectProtocolFromPort(DEFAULT_PORTS[p]) = p
    BY <1>2 DEF DetectProtocolFromPort, DEFAULT_PORTS, Protocols
  <2>4. GetRecommendedColorDepth(p) \in {"null", Read(CreateConnectionBuilder[p], "color-depth")}
    BY <1>2 DEF GetRecommendedColorDepth, Read, CreateConnectionBuilder, VNCDefaults, @@, :>
  <2> QED
    BY <1>2, <2>1, <2>2, <2>3, <2>4
       DEF SupportsFileTransfer, SupportsAudio, IsTerminalProtocol, IsGraphicalProtocol
<1>3. CASE p = "ssh"
  <2>1. /\ "enable-sftp" \in Keys(p)
        /\ {"disable-audio", "audio-servername"} \cap Keys(p) = {}
        /\ "font-name" \in Keys(p)
        /\ "color-depth" \notin Keys(p)
    BY <1>3, DomainsOfParams DEF BaseParams, TerminalParams, SFTPParams, SSHParams, Interface, @@, :>
  <2>2. CreateConnectionBuilder[p]["port"] = DEFAULT_PORTS[p]
    BY <1>3 DEF CreateConnectionBuilder, SSHDefaults, DEFAULT_PORTS, @@, :>
  <2>3. DetectProtocolFromPort(DEFAULT_PORTS[p]) = p
    BY <1>3 DEF DetectProtocolFromPort, DEFAULT_PORTS, Protocols
  <2>4. GetRecommendedColorDepth(p) \in {"null", Read(CreateConnectionBuilder[p], "color-depth")}
    BY <1>3 DEF GetRecommendedColorDepth, Read, CreateConnectionBuilder, SSHDefaults, @@, :>
  <2> QED
    BY <1>3, <2>1, <2>2, <2>3, <2>4
       DEF SupportsFileTransfer, SupportsAudio, IsTerminalProtocol, IsGraphicalProtocol
<1>4. CASE p = "telnet"
  <2>1. /\ "enable-sftp" \notin Keys(p)
        /\ {"disable-audio", "audio-servername"} \cap Keys(p) = {}
        /\ "font-name" \in Keys(p)
        /\ "color-depth" \notin Keys(p)
    BY <1>4, DomainsOfParams DEF BaseParams, TerminalParams, TelnetParams, Interface, @@, :>
  <2>2. CreateConnectionBuilder[p]["port"] = DEFAULT_PORTS[p]
    BY <1>4 DEF CreateConnectionBuilder, TelnetDefaults, DEFAULT_PORTS, @@, :>
  <2>3. DetectProtocolFromPort(DEFAULT_PORTS[p]) = p
    BY <1>4 DEF DetectProtocolFromPort, DEFAULT_PORTS, Protocols
  <2>4. GetRecommendedColorDepth(p) \in {"null", Read(CreateConnectionBuilder[p], "color-depth")}
    BY <1>4 DEF GetRecommendedColorDepth, Read, CreateConnectionBuilder, TelnetDefaults, @@, :>
  <2> QED
    BY <1>4, <2>1, <2>2, <2>3, <2>4
       DEF SupportsFileTransfer, SupportsAudio, IsTerminalProtocol, IsGraphicalProtocol
<1> QED
  BY <1>1, <1>2, <1>3, <1>4 DEF Protocols
=============================================================================
