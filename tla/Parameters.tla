----------------------------- MODULE Parameters -----------------------------
(***************************************************************************)
(* The connection parameters of the four protocols                         *)
(* (src/src/protocols/types.ts, src/src/protocols/utils.ts).               *)
(*                                                                         *)
(* A parameter has a kind: "text" (string and string unions), "num",       *)
(* "bool" or "list" (string[]).  A value is denoted by the text            *)
(* String(value) makes of it, a list by its elements joined with commas,   *)
(* so "false" is the boolean, "" the empty string, "NaN" the number.       *)
(***************************************************************************)
EXTENDS Integers

\* One entry, and two objects merged (`{...g, ...f}`), as the TLC module
\* defines them; its own definitions are opaque to the proof system.
d :> e == [x \in {d} |-> e]
f @@ g == [x \in DOMAIN f \cup DOMAIN g |-> IF x \in DOMAIN f THEN f[x] ELSE g[x]]

Protocols == {"rdp", "vnc", "ssh", "telnet"}

DEFAULT_PORTS == [rdp |-> "3389", vnc |-> "5900", ssh |-> "22", telnet |-> "23"]

\* The parameters of an interface, by kind.
Interface(texts, nums, bools) ==
    [k \in texts |-> "text"] @@ [k \in nums |-> "num"] @@ [k \in bools |-> "bool"]

BaseParams == Interface(
    {"hostname", "wol-mac-addr", "wol-broadcast-addr", "recording-path", "recording-name"},
    {"port", "wol-udp-port", "wol-wait-time"},
    {"disable-copy", "disable-paste", "wol-send-packet", "recording-exclude-output",
     "recording-exclude-mouse", "recording-include-keys", "create-recording-path",
     "recording-write-existing"})

GraphicalParams == Interface({}, {"width", "height", "dpi", "color-depth"}, {"force-lossless"})

TerminalParams == Interface(
    {"font-name", "color-scheme", "terminal-type", "normalize-clipboard",
     "typescript-path", "typescript-name"},
    {"width", "height", "dpi", "font-size", "scrollback", "backspace"},
    {"read-only", "create-typescript-path", "typescript-write-existing"})

SFTPParams == Interface(
    {"sftp-hostname", "sftp-host-key", "sftp-username", "sftp-password", "sftp-private-key",
     "sftp-passphrase", "sftp-public-key", "sftp-directory", "sftp-root-directory"},
    {"sftp-port", "sftp-timeout", "sftp-server-alive-interval"},
    {"enable-sftp", "sftp-disable-download", "sftp-disable-upload"})

RDPParams == Interface(
    {"username", "password", "domain", "security", "cert-fingerprints", "resize-method",
     "server-layout", "normalize-clipboard", "printer-name", "drive-name", "drive-path",
     "remote-app", "remote-app-dir", "remote-app-args", "gateway-hostname", "gateway-username",
     "gateway-password", "gateway-domain", "load-balance-info", "preconnection-blob",
     "initial-program", "timezone", "client-name", "static-channels"},
    {"timeout", "gateway-port", "preconnection-id"},
    {"ignore-cert", "cert-tofu", "disable-auth", "disable-gfx", "enable-desktop-composition",
     "enable-menu-animations", "enable-wallpaper", "enable-theming", "enable-font-smoothing",
     "enable-full-window-drag", "disable-bitmap-caching", "disable-offscreen-caching",
     "disable-glyph-caching", "read-only", "enable-touch", "disable-audio",
     "enable-audio-input", "console-audio", "enable-printing", "enable-drive",
     "create-drive-path", "disable-download", "disable-upload", "console"})

VNCParams == "encodings" :> "list" @@ Interface(
    {"username", "password", "cursor", "clipboard-encoding", "audio-servername", "dest-host",
     "timezone"},
    {"compress-level", "quality-level", "listen-timeout", "dest-port", "autoretry"},
    {"swap-red-blue", "read-only", "disable-display-resize", "disable-server-input",
     "reverse-connect"})

SSHParams == Interface(
    {"username", "password", "private-key", "passphrase", "public-key", "host-key", "command",
     "locale", "timezone"},
    {"timeout", "server-alive-interval"}, {})

TelnetParams == Interface(
    {"username", "password", "username-regex", "password-regex", "login-success-regex",
     "login-failure-regex", "locale", "timezone"},
    {"timeout"}, {})

\* ProtocolConnectionParams: the parameters of each protocol with their kinds.
Params ==
    [rdp |-> BaseParams @@ GraphicalParams @@ SFTPParams @@ RDPParams,
     vnc |-> BaseParams @@ GraphicalParams @@ SFTPParams @@ VNCParams,
     ssh |-> BaseParams @@ TerminalParams @@ SFTPParams @@ SSHParams,
     telnet |-> BaseParams @@ TerminalParams @@ TelnetParams]

Keys(p) == DOMAIN Params[p]

----------------------------------------------------------------------------
(* utils.ts.                                                               *)

DetectProtocolFromPort(port) ==
    CASE port \in {"5901", "5902", "5903"} -> "vnc"
      [] \E p \in Protocols : DEFAULT_PORTS[p] = port -> CHOOSE p \in Protocols : DEFAULT_PORTS[p] = port
      [] OTHER -> "null"

SupportsFileTransfer(p) == p \in {"rdp", "vnc", "ssh"}
SupportsAudio(p) == p \in {"rdp", "vnc"}

\* Mutant: telnet is forgotten.
IsTerminalProtocolSsh(p) == p = "ssh"

IsTerminalProtocol(p) == p \in {"ssh", "telnet"}
IsGraphicalProtocol(p) == p \in {"rdp", "vnc"}
GetRecommendedColorDepth(p) == IF p \in {"rdp", "vnc"} THEN "24" ELSE "null"

----------------------------------------------------------------------------
(* Values.                                                                 *)

Absent == {"undefined", "null"}
Truthy(v) == v \notin Absent \cup {"", "false", "0", "NaN"}

Numbers == "-1" :> -1 @@ "0" :> 0 @@ "1" :> 1 @@ "9" :> 9 @@ "10" :> 10
           @@ "65535" :> 65535 @@ "65536" :> 65536

\* Comparison with a number: null counts as 0, and nothing is below or above
\* NaN or undefined.
Number(v) == IF v = "null" THEN 0 ELSE Numbers[v]
Below(v, n) == v \in DOMAIN Numbers \cup {"null"} /\ Number(v) < n
Above(v, n) == v \in DOMAIN Numbers \cup {"null"} /\ Number(v) > n

\* The value of key k in the object o.
Read(o, k) == IF k \in DOMAIN o THEN o[k] ELSE "undefined"
=============================================================================
