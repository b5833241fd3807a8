---------------------------- MODULE MCDeadlines ----------------------------
(***************************************************************************)
(* Instances of Deadlines: limits shorter and longer than the period of    *)
(* the checks, each alone and with the others, and two that are longer     *)
(* than a timer can be.                                                    *)
(***************************************************************************)
EXTENDS Deadlines

Limits(ws, guacd, connect, ttl) ==
    [ws |-> ws, guacd |-> guacd, connect |-> connect, ttl |-> ttl]

MCSettings == {
    Limits(0, 0, 2, 0),   \* the defaults: only connecting is limited
    Limits(1, 3, 0, 0),   \* inactivity on both sides
    Limits(3, 1, 4, 5),   \* everything at once
    Limits(0, 0, 6, 6)}   \* longer than TimerMax
MCWaits == {0, 2}
============================================================================
