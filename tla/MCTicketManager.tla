-------------------------- MODULE MCTicketManager --------------------------
(***************************************************************************)
(* Instances of TicketManager for TLC.                                     *)
(***************************************************************************)
EXTENDS TicketManager, TLC

CONSTANTS c1, c2, c3, m1, m2

\* One process, and two processes behind which the same store stands.
OneManager == [c \in Calls |-> m1]
TwoManagers == [c \in Calls |-> IF c = c1 THEN m1 ELSE m2]

\* Calls on one manager are interchangeable, and so are tickets.
Symmetric == Permutations(Calls) \cup Permutations(Tickets)
============================================================================
