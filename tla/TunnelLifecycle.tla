-------------------------- MODULE TunnelLifecycle --------------------------
(***************************************************************************)
(* What a tunnel promises to the code that listens to it: at most one      *)
(* `ready`, at most one `error`, exactly one `close`, in that order and    *)
(* nothing afterwards.  Tunnel implements it.                              *)
(***************************************************************************)
EXTENDS Sequences

VARIABLES
    phase,   \* "opening", "open" or "closed"
    events   \* the events emitted so far

vars == <<phase, events>>

Init == phase = "opening" /\ events = <<>>

\* The handshake with guacd completes; a listener may close the tunnel at once.
Ready ==
    /\ phase = "opening"
    /\ \/ phase' = "open" /\ events' = Append(events, "ready")
       \/ phase' = "closed" /\ events' = events \o <<"ready", "close">>

\* The tunnel ends, quietly or after an error was reported.
Close ==
    /\ phase # "closed"
    /\ phase' = "closed"
    /\ \E last \in {<<"close">>, <<"error", "close">>} : events' = events \o last

Next == Ready \/ Close

Spec == Init /\ [][Next]_vars
============================================================================
