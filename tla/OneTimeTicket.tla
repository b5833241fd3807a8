--------------------------- MODULE OneTimeTicket ---------------------------
(***************************************************************************)
(* What the ticket subsystem promises, with no store, no lock and no      *)
(* awaits: a ticket is redeemed at most once, and only by a call that     *)
(* began while the ticket was still open.  TicketManager implements it.   *)
(***************************************************************************)
CONSTANTS Tickets, Calls

VARIABLES
    issued,   \* the tickets whose identifier has been handed out
    closed,   \* the tickets known to be revoked, expired, consumed or redeemed
    aim,      \* aim[c]: the ticket call c asks for
    state     \* state[c]: what has become of call c

vars == <<issued, closed, aim, state>>

None == "none"

States == {"idle", "pending", "doomed", "granted", "denied"}

TypeOK ==
    /\ issued \subseteq Tickets
    /\ closed \subseteq issued
    /\ aim \in [Calls -> Tickets \cup {None}]
    /\ state \in [Calls -> States]

Init ==
    /\ issued = {}
    /\ closed = {}
    /\ aim = [c \in Calls |-> None]
    /\ state = [c \in Calls |-> "idle"]

Issue(t) ==
    /\ t \notin issued
    /\ issued' = issued \cup {t}
    /\ UNCHANGED <<closed, aim, state>>

\* A ticket is closed by a revocation, by its expiry or by being consumed.
Close(t) ==
    /\ t \in issued \ closed
    /\ closed' = closed \cup {t}
    /\ UNCHANGED <<issued, aim, state>>

\* A call on a ticket that is already closed is doomed from the start.
Begin(c, t) ==
    /\ state[c] = "idle"
    /\ t \in issued
    /\ aim' = [aim EXCEPT ![c] = t]
    /\ state' = [state EXCEPT ![c] = IF t \in closed THEN "doomed" ELSE "pending"]
    /\ UNCHANGED <<issued, closed>>

Grant(c) ==
    /\ state[c] = "pending"
    /\ \A d \in Calls : aim[d] = aim[c] => state[d] # "granted"
    /\ state' = [state EXCEPT ![c] = "granted"]
    /\ closed' = closed \cup {aim[c]}
    /\ UNCHANGED <<issued, aim>>

Deny(c) ==
    /\ state[c] \in {"pending", "doomed"}
    /\ state' = [state EXCEPT ![c] = "denied"]
    /\ UNCHANGED <<issued, closed, aim>>

Next ==
    \/ \E t \in Tickets : Issue(t) \/ Close(t)
    \/ \E c \in Calls : Grant(c) \/ Deny(c) \/ \E t \in Tickets : Begin(c, t)

Spec == Init /\ [][Next]_vars
============================================================================
