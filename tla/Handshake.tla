----------------------------- MODULE Handshake -----------------------------
(***************************************************************************)
(* GuacdClient's answer to guacd's `args` (src/src/server/guacd-client.ts, *)
(* pickProtocolVersion to sendClientCapabilities).                         *)
(*                                                                         *)
(* A VERSION_ token is the sequence of its numbers, <<>> that there is     *)
(* none.  `bag` holds the settings that were merged for the connection.    *)
(***************************************************************************)
EXTENDS Parameters, Sequences

Part(v, i) == IF i <= Len(v) THEN v[i] ELSE 0

\* The order of pickProtocolVersion: numbers from the left, a missing one is 0.
Newer(v, w) ==
    \E i \in 1..(Len(v) + Len(w)) :
        /\ Part(v, i) > Part(w, i)
        /\ \A j \in 1..(i - 1) : Part(v, j) = Part(w, j)

\* Mutant: the first token is taken.
PickFirst(offers) == IF offers = <<>> THEN <<>> ELSE Head(offers)

\* The first of the highest tokens guacd offers.
PickProtocolVersion(offers) ==
    LET best == {i \in DOMAIN offers : \A j \in DOMAIN offers : ~Newer(offers[j], offers[i])}
    IN  IF offers = <<>> THEN <<>> ELSE offers[CHOOSE i \in best : \A j \in best : i <= j]

IsAtLeast(v, major, minor) ==
    Part(v, 1) > major \/ (Part(v, 1) = major /\ Part(v, 2) >= minor)

\* String(value) of what is a string, a number, a boolean or a list, else ''.
Argument(bag, name) == IF Read(bag, name) \in Absent THEN "" ELSE bag[name]

\* `settings.x ?? fallback`.
OrElse(bag, key, fallback) == IF Read(bag, key) \in Absent THEN fallback ELSE bag[key]

Images(bag) ==
    IF Argument(bag, "image") = "" THEN "image/png,image/jpeg" ELSE bag["image"]

\* size, audio, video, image and, for guacd 1.1 and later, timezone.
SendClientCapabilities(bag, version) ==
    [size |-> [width |-> OrElse(bag, "width", "1024"), height |-> OrElse(bag, "height", "768"),
               dpi |-> OrElse(bag, "dpi", "96")],
     audio |-> Argument(bag, "audio"),
     video |-> Argument(bag, "video"),
     image |-> Images(bag),
     timezone |-> IF IsAtLeast(version, 1, 1) THEN Argument(bag, "timezone") ELSE ""]

\* The reply to an `args` that offers versions and names parameters.
SendHandshakeReply(bag, offers, names) ==
    LET picked == PickProtocolVersion(offers)
    IN  SendClientCapabilities(bag, picked)
        @@ [version |-> picked, connect |-> [n \in names |-> Argument(bag, n)]]
=============================================================================
