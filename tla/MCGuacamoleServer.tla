------------------------- MODULE MCGuacamoleServer -------------------------
(***************************************************************************)
(* Instances of GuacamoleServer for TLC.                                   *)
(***************************************************************************)
EXTENDS GuacamoleServer, TLC

\* Tickets are interchangeable, and so are WebSocket connections.
Symmetric == Permutations(Sockets) \cup Permutations(Tickets)

\* Bound: a server that is not being shut down.
Serving == ~closed /\ ~stopping
============================================================================
