------------------------------ MODULE Builders ------------------------------
(***************************************************************************)
(* The connection builders (src/src/protocols/builders/): the parameters a *)
(* constructor starts from, the setters, and validate and build.           *)
(*                                                                         *)
(* A setter `x(v)` writes one parameter.  A method with an option object   *)
(* (or several arguments) writes several: a Method names them by the rule  *)
(* they are written by.                                                    *)
(***************************************************************************)
EXTENDS Parameters

Flag(keys) == [k \in keys |-> "true"]

\* on: written `true`; always: as given; orElse: as given, else a default
\* (`??`); given: unless undefined; truthy: `if (option)`.
Method(on, always, orElse, given, truthy) ==
    [on |-> on, always |-> always, orElse |-> orElse, given |-> given, truthy |-> truthy]

Nothing == [k \in {} |-> ""]

\* `new XConnectionBuilder()`.
RDPDefaults == "port" :> DEFAULT_PORTS.rdp @@ "security" :> "any" @@ "ignore-cert" :> "true"
    @@ "color-depth" :> "24" @@ [k \in {"enable-wallpaper", "enable-theming",
        "enable-font-smoothing", "enable-full-window-drag"} |-> "false"]
VNCDefaults == "port" :> DEFAULT_PORTS.vnc @@ "cursor" :> "remote" @@ "color-depth" :> "24"
TerminalDefaults == "font-name" :> "monospace" @@ "font-size" :> "12"
    @@ "scrollback" :> "1000" @@ "color-scheme" :> "gray-black"
SSHDefaults == "port" :> DEFAULT_PORTS.ssh @@ TerminalDefaults @@ "server-alive-interval" :> "30"
TelnetDefaults == "port" :> DEFAULT_PORTS.telnet @@ TerminalDefaults

\* createConnectionBuilder.
CreateConnectionBuilder ==
    [rdp |-> RDPDefaults, vnc |-> VNCDefaults, ssh |-> SSHDefaults, telnet |-> TelnetDefaults]

\* The parameters that have a setter of their own.
RDPSetters ==
    {"hostname", "port", "timeout", "username", "password", "domain", "disable-auth",
     "security", "ignore-cert", "cert-tofu", "cert-fingerprints", "width", "height", "dpi",
     "color-depth", "force-lossless", "resize-method", "enable-touch", "disable-audio",
     "enable-audio-input", "console-audio", "read-only", "server-layout", "disable-copy",
     "disable-paste", "normalize-clipboard", "load-balance-info", "console",
     "initial-program", "timezone", "client-name", "static-channels"}
VNCSetters ==
    {"hostname", "port", "password", "username", "width", "height", "dpi", "cursor",
     "color-depth", "force-lossless", "swap-red-blue", "compress-level", "quality-level",
     "disable-display-resize", "disable-server-input", "encodings", "read-only",
     "disable-copy", "disable-paste", "clipboard-encoding", "audio-servername", "timezone",
     "autoretry"}
SSHSetters ==
    {"hostname", "port", "timeout", "username", "password", "public-key", "host-key", "width",
     "height", "dpi", "color-scheme", "scrollback", "backspace", "terminal-type", "read-only",
     "disable-copy", "disable-paste", "normalize-clipboard", "command", "locale", "timezone",
     "server-alive-interval"}
TelnetSetters ==
    {"hostname", "port", "timeout", "username", "password", "width", "height", "dpi",
     "color-scheme", "scrollback", "backspace", "terminal-type", "locale", "timezone",
     "read-only", "disable-copy", "disable-paste", "normalize-clipboard"}

Setters == [rdp |-> RDPSetters, vnc |-> VNCSetters, ssh |-> SSHSetters, telnet |-> TelnetSetters]

\* Options that more than one builder has.
WakeOnLan == Method({"wol-send-packet"}, {"wol-mac-addr"}, Nothing,
    {"wol-udp-port", "wol-wait-time"}, {"wol-broadcast-addr"})
Recording == Method({}, {"recording-path"},
    "recording-name" :> "generated" @@ "create-recording-path" :> "true",
    {"recording-exclude-output", "recording-exclude-mouse", "recording-include-keys",
     "recording-write-existing"}, {})
Typescript == Method({}, {"typescript-path"},
    "typescript-name" :> "generated" @@ "create-typescript-path" :> "true",
    {"typescript-write-existing"}, {})
Font == Method({}, {"font-name"}, "font-size" :> "12", {}, {})
SFTP == Method({"enable-sftp"}, {"sftp-username"}, Nothing,
    {"sftp-port", "sftp-server-alive-interval", "sftp-disable-download",
     "sftp-disable-upload", "sftp-timeout"},
    {"sftp-hostname", "sftp-password", "sftp-private-key", "sftp-passphrase",
     "sftp-public-key", "sftp-host-key", "sftp-directory", "sftp-root-directory"})

RDPMethods ==
    [performanceFlags |-> Method({}, {}, Nothing,
        {"enable-wallpaper", "enable-theming", "enable-font-smoothing",
         "enable-full-window-drag", "enable-desktop-composition", "enable-menu-animations",
         "disable-gfx", "disable-bitmap-caching", "disable-offscreen-caching",
         "disable-glyph-caching"}, {}),
     enablePrinting |-> Method({"enable-printing"}, {}, Nothing, {}, {"printer-name"}),
     drive |-> Method({"enable-drive"}, {"drive-path"},
        "drive-name" :> "Shared" @@ "create-drive-path" :> "true",
        {"disable-download", "disable-upload"}, {}),
     sftp |-> SFTP,
     remoteApp |-> Method({}, {"remote-app"}, Nothing, {}, {"remote-app-args", "remote-app-dir"}),
     gateway |-> Method({}, {"gateway-hostname"}, "gateway-port" :> "443", {},
        {"gateway-username", "gateway-password", "gateway-domain"}),
     preconnection |-> Method({}, {}, Nothing, {"preconnection-id"}, {"preconnection-blob"}),
     wakeOnLan |-> WakeOnLan,
     recording |-> Recording]

VNCMethods ==
    [reverseConnect |-> Method({"reverse-connect"}, {}, Nothing, {"listen-timeout"}, {}),
     repeater |-> Method({}, {"dest-host"}, Nothing, {"dest-port"}, {}),
     sftp |-> SFTP,
     wakeOnLan |-> WakeOnLan,
     recording |-> Recording]

SSHMethods ==
    [privateKey |-> Method({}, {"private-key"}, Nothing, {"passphrase"}, {}),
     font |-> Font,
     sftp |-> Method({"enable-sftp"}, {}, Nothing,
        {"sftp-root-directory", "sftp-disable-download", "sftp-disable-upload"}, {}),
     wakeOnLan |-> WakeOnLan,
     recording |-> Recording,
     typescript |-> Typescript]

TelnetMethods ==
    [loginDetection |-> Method({}, {}, Nothing,
        {"username-regex", "password-regex", "login-success-regex", "login-failure-regex"}, {}),
     font |-> Font,
     wakeOnLan |-> WakeOnLan,
     recording |-> Recording,
     typescript |-> Typescript]

Methods == [rdp |-> RDPMethods, vnc |-> VNCMethods, ssh |-> SSHMethods, telnet |-> TelnetMethods]

Options(m) == m.always \cup DOMAIN m.orElse \cup m.given \cup m.truthy

\* Mutant: an option that is false or 0 counts as not given.
GivenIfTruthy(o, k) == Truthy(Read(o, k))

Given(o, k) == Read(o, k) # "undefined"

\* What method m writes when it is called with the options o.
Written(m, o) ==
    Flag(m.on)
    @@ [k \in m.always |-> Read(o, k)]
    @@ [k \in DOMAIN m.orElse |-> IF Read(o, k) \in Absent THEN m.orElse[k] ELSE o[k]]
    @@ [k \in {x \in m.given : Given(o, x)} |-> o[k]]
    @@ [k \in {x \in m.truthy : Truthy(Read(o, x))} |-> o[k]]

\* disableClipboard.
ClipboardKeys == {"disable-copy", "disable-paste"}

----------------------------------------------------------------------------
(* validate and build.  Warnings do not stop a build and are left out.     *)

Required ==
    [rdp |-> {"hostname", "username"}, vnc |-> {"hostname"},
     ssh |-> {"hostname", "username"}, telnet |-> {"hostname"}]

\* A feature, the parameter that switches it on and the one it then needs.
WolNeeds == <<"wol-send-packet", "wol-mac-addr">>
DriveNeeds == <<"enable-drive", "drive-path">>
SftpNeeds == <<"enable-sftp", "sftp-username">>
Preconditions ==
    [rdp |-> {WolNeeds, DriveNeeds, SftpNeeds}, vnc |-> {WolNeeds, SftpNeeds},
     ssh |-> {WolNeeds}, telnet |-> {WolNeeds}]

ValidatePort(v) == ~Below(v, 1) /\ ~Above(v, 65535)
ValidatePositive(v) == ~Below(v, 1)
ValidateLevel(v) == ~Below(v, 0) /\ ~Above(v, 9)

\* Mutant: what a feature needs is not asked for.
ValidateLoosely(p, ps) == \A k \in Required[p] : Truthy(Read(ps, k))

\* The checks that every validate makes.
CommonChecks(p, ps) ==
    /\ \A k \in Required[p] : Truthy(Read(ps, k))
    /\ ValidatePort(Read(ps, "port"))
    /\ \A k \in {"width", "height", "dpi"} : ValidatePositive(Read(ps, k))
    /\ \A need \in Preconditions[p] : Truthy(Read(ps, need[1])) => Truthy(Read(ps, need[2]))

RDPChecks(ps) == CommonChecks("rdp", ps)

VNCChecks(ps) ==
    /\ CommonChecks("vnc", ps)
    /\ \A k \in {"compress-level", "quality-level"} : ValidateLevel(Read(ps, k))

SSHChecks(ps) ==
    /\ CommonChecks("ssh", ps)
    /\ Truthy(Read(ps, "password")) \/ Truthy(Read(ps, "private-key"))

TelnetChecks(ps) == CommonChecks("telnet", ps)

Validate(p, ps) ==
    CASE p = "rdp" -> RDPChecks(ps)
      [] p = "vnc" -> VNCChecks(ps)
      [] p = "ssh" -> SSHChecks(ps)
      [] p = "telnet" -> TelnetChecks(ps)

DisplayDefaults == "width" :> "1280" @@ "height" :> "720" @@ "dpi" :> "96"

\* Mutant: the size of the display is left to the server.
ToConnectionSettingsBare(ps) == [k \in {x \in DOMAIN ps : ps[x] \notin Absent} |-> ps[k]]

\* Mutant: a parameter that is false or 0 is taken for one that is not set.
ToConnectionSettingsTruthy(ps) ==
    [k \in {x \in DOMAIN ps : Truthy(ps[x])} |-> ps[k]] @@ DisplayDefaults

ToConnectionSettings(ps) ==
    [k \in {x \in DOMAIN ps : ps[x] \notin Absent} |-> ps[k]] @@ DisplayDefaults
=============================================================================
