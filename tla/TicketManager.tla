--------------------------- MODULE TicketManager ---------------------------
(***************************************************************************)
(* The ticket subsystem: TicketManager and the store behind it             *)
(* (src/src/server/ticket-manager.ts).                                     *)
(*                                                                         *)
(* A call is one invocation of validateTicket, consumeTicket,              *)
(* validateAndConsume ("redeem") or revokeTicket.  A call is cut into an   *)
(* action wherever the code awaits; what runs between two awaits is one    *)
(* action.                                                                 *)
(*                                                                         *)
(* A manager is built over one of two kinds of store.  InMemoryTicketStore *)
(* sweeps, answers synchronously and hands out the very object it keeps,   *)
(* so a mark made by one call is seen by every holder.  A custom store     *)
(* never sweeps, answers later, hands out copies, and may reject.          *)
(***************************************************************************)
EXTENDS Integers, FiniteSets

CONSTANTS
    Tickets,        \* ticket identifiers (randomUUID: never issued twice)
    Calls,          \* invocations of the manager's methods
    Managers,       \* TicketManager instances (processes) sharing the store
    ManagerOf,      \* ManagerOf[c]: the manager call c is made on
    Stores,         \* the kinds of store a manager may be built over
    StoreMayFail    \* whether an asynchronous store may reject

ASSUME ManagerAssumption == ManagerOf \in [Calls -> Managers]
ASSUME StoreAssumption == Stores \subseteq {"memory", "custom"} /\ StoreMayFail \in BOOLEAN

None == "none"
ASSUME NoneAssumption == None \notin Tickets

VARIABLES
    store,     \* store[t]: what the store holds under t
    expired,   \* expired[t]: ticketExpiresAt lies in the past
    issue,     \* issue[t]: progress of the issueTicket call that made t
    sweeping,  \* the in-memory store's sweep interval; "never": a custom store
    locks,     \* locks[m]: the tickets locked in manager m
    op, aim,   \* op[c], aim[c]: method and ticket of call c
    pc,        \* pc[c]: the await call c is suspended at
    data,      \* data[c]: the TicketData call c holds
    res,       \* res[c]: how call c settled
    doomed     \* history: calls that began on a ticket already closed

vars == <<store, expired, issue, sweeping, locks, op, aim, pc, data, res, doomed>>
callVars == <<op, aim, doomed>>
worldVars == <<expired, issue, sweeping>>

\* The store is the InMemoryTicketStore.
SharesObjects == sweeping # "never"

Ops == {"validate", "redeem", "consume", "revoke"}
Copies == {"absent", "fresh", "consumed"}
Pcs == {"idle", "wait", "get", "check", "mark", "set", "delete", "ack", "unlock", "done"}
Results == {None, "valid", "granted", "consumed", "revoked",
            "notFound", "alreadyUsed", "expired", "storeError"}

\* The type invariant.  Its last conjunct is the non-null half of the code's
\* types: a call that is about to write `data.consumedAt`, or has written it,
\* holds a TicketData and not the null of a missing ticket.
TypeOK ==
    /\ store \in [Tickets -> Copies]
    /\ expired \in [Tickets -> BOOLEAN]
    /\ issue \in [Tickets -> {"none", "setting", "known", "failed"}]
    /\ sweeping \in {"never", "armed", "stopped"}
    /\ locks \in [Managers -> SUBSET Tickets]
    /\ op \in [Calls -> Ops \cup {None}]
    /\ aim \in [Calls -> Tickets \cup {None}]
    /\ pc \in [Calls -> Pcs]
    /\ data \in [Calls -> Copies \cup {None}]
    /\ res \in [Calls -> Results]
    /\ doomed \in SUBSET Calls
    /\ \A c \in Calls : pc[c] # "idle" => op[c] \in Ops /\ aim[c] \in Tickets
    /\ \A c \in Calls : pc[c] \in {"mark", "set"} => data[c] \in {"fresh", "consumed"}

Init ==
    /\ store = [t \in Tickets |-> "absent"]
    /\ expired = [t \in Tickets |-> FALSE]
    /\ issue = [t \in Tickets |-> "none"]
    /\ \E kind \in Stores : sweeping = IF kind = "memory" THEN "armed" ELSE "never"
    /\ locks = [m \in Managers |-> {}]
    /\ op = [c \in Calls |-> None]
    /\ aim = [c \in Calls |-> None]
    /\ pc = [c \in Calls |-> "idle"]
    /\ data = [c \in Calls |-> None]
    /\ res = [c \in Calls |-> None]
    /\ doomed = {}

----------------------------------------------------------------------------
(* issueTicket.  Its caller learns the identifier when the call returns,   *)
(* so no other call names t before issue[t] is "known".                    *)

IssueTicket(t) ==
    /\ issue[t] = "none"
    /\ IF SharesObjects
       THEN /\ store' = [store EXCEPT ![t] = "fresh"]
            /\ issue' = [issue EXCEPT ![t] = "known"]
       ELSE /\ issue' = [issue EXCEPT ![t] = "setting"]
            /\ UNCHANGED store
    /\ UNCHANGED <<expired, sweeping, locks, callVars, pc, data, res>>

IssueStored(t) ==
    /\ issue[t] = "setting"
    /\ store' = [store EXCEPT ![t] = "fresh"]
    /\ issue' = [issue EXCEPT ![t] = "known"]
    /\ UNCHANGED <<expired, sweeping, locks, callVars, pc, data, res>>

IssueFails(t) ==
    /\ StoreMayFail
    /\ issue[t] = "setting"
    /\ store' \in {store, [store EXCEPT ![t] = "fresh"]}
    /\ issue' = [issue EXCEPT ![t] = "failed"]
    /\ UNCHANGED <<expired, sweeping, locks, callVars, pc, data, res>>

----------------------------------------------------------------------------
(* The calls.                                                              *)

Closing == {"granted", "consumed", "revoked"}

\* A ticket is closed once it has expired or a call that ends it has returned.
Closed(t) ==
    \/ expired[t]
    \/ \E c \in Calls : aim[c] = t /\ res[c] \in Closing

\* Mutant: withTicketLock does not wait.
LockIgnored(m, t) == TRUE

LockFree(m, t) == t \notin locks[m]

\* `await this.store.get(ticketId)`: read at once from memory, or asked for.
Lookup(c, t) ==
    IF SharesObjects
    THEN /\ data' = [data EXCEPT ![c] = store[t]]
         /\ pc' = [pc EXCEPT ![c] = "check"]
    ELSE /\ pc' = [pc EXCEPT ![c] = "get"]
         /\ UNCHANGED data

\* withTicketLock takes the lock and runs fn up to its first await.
EnterLock(c, t) ==
    /\ locks' = [locks EXCEPT ![ManagerOf[c]] = @ \cup {t}]
    /\ Lookup(c, t)

Begin(c, o, t) ==
    /\ pc[c] = "idle"
    /\ issue[t] = "known"
    /\ op' = [op EXCEPT ![c] = o]
    /\ aim' = [aim EXCEPT ![c] = t]
    /\ doomed' = IF Closed(t) THEN doomed \cup {c} ELSE doomed
    /\ UNCHANGED <<worldVars, res>>

ValidateTicket(c, t) ==
    /\ Begin(c, "validate", t)
    /\ Lookup(c, t)
    /\ UNCHANGED <<store, locks>>

ConsumeTicket(c, t) ==
    /\ Begin(c, "consume", t)
    /\ Lookup(c, t)
    /\ UNCHANGED <<store, locks>>

ValidateAndConsume(c, t) ==
    /\ Begin(c, "redeem", t)
    /\ IF LockFree(ManagerOf[c], t)
       THEN EnterLock(c, t)
       ELSE pc' = [pc EXCEPT ![c] = "wait"] /\ UNCHANGED <<locks, data>>
    /\ UNCHANGED store

RevokeTicket(c, t) ==
    /\ Begin(c, "revoke", t)
    /\ IF SharesObjects
       THEN /\ store' = [store EXCEPT ![t] = "absent"]
            /\ pc' = [pc EXCEPT ![c] = "ack"]
       ELSE /\ pc' = [pc EXCEPT ![c] = "delete"]
            /\ UNCHANGED store
    /\ UNCHANGED <<locks, data>>

\* The while loop of withTicketLock, resumed with the lock free.
Resume(c) ==
    /\ pc[c] = "wait"
    /\ LockFree(ManagerOf[c], aim[c])
    /\ EnterLock(c, aim[c])
    /\ UNCHANGED <<store, worldVars, callVars, res>>

\* Mutant: the test for a missing ticket is left out.
VerdictNoNull(d, late) ==
    CASE d = "consumed" -> "alreadyUsed"
      [] d # "consumed" /\ late -> "expired"
      [] OTHER -> "valid"

\* Mutant: the consumed mark is not looked at.
VerdictNoMark(d, late) ==
    CASE d = "absent" -> "notFound"
      [] d # "absent" /\ late -> "expired"
      [] OTHER -> "valid"

\* Mutant: the expiry is not looked at.
VerdictNoExpiry(d, late) ==
    CASE d = "absent" -> "notFound"
      [] d = "consumed" -> "alreadyUsed"
      [] OTHER -> "valid"

\* The three tests of validateTicket, in their order.
Verdict(d, late) ==
    CASE d = "absent" -> "notFound"
      [] d = "consumed" -> "alreadyUsed"
      [] d = "fresh" /\ late -> "expired"
      [] OTHER -> "valid"

Check(c) ==
    /\ pc[c] = "check"
    /\ op[c] \in {"validate", "redeem"}
    /\ LET v == Verdict(data[c], expired[aim[c]])
       IN  IF op[c] = "redeem" /\ v = "valid"
           THEN pc' = [pc EXCEPT ![c] = "mark"] /\ UNCHANGED res
           ELSE /\ pc' = [pc EXCEPT ![c] = IF op[c] = "redeem" THEN "unlock" ELSE "done"]
                /\ res' = [res EXCEPT ![c] = v]
    /\ UNCHANGED <<store, worldVars, locks, callVars, data>>

\* The holders of the object behind data[c].
Aliases(c) ==
    IF SharesObjects THEN {d \in Calls : aim[d] = aim[c] /\ data[d] = "fresh"} \cup {c}
                     ELSE {c}

\* `data.consumedAt = ...; await this.store.set(ticketId, data)`.
MarkConsumed(c) ==
    /\ data' = [d \in Calls |-> IF d \in Aliases(c) THEN "consumed" ELSE data[d]]
    /\ IF SharesObjects
       THEN /\ store' = [store EXCEPT ![aim[c]] = "consumed"]
            /\ pc' = [pc EXCEPT ![c] = "ack"]
       ELSE /\ pc' = [pc EXCEPT ![c] = "set"]
            /\ UNCHANGED store

\* validateAndConsume, after validateTicket returned.
MarkRedeemed(c) ==
    /\ pc[c] = "mark"
    /\ MarkConsumed(c)
    /\ UNCHANGED <<worldVars, locks, callVars, res>>

\* consumeTicket, after its get: no lock, no test but for a missing ticket.
MarkTaken(c) ==
    /\ pc[c] = "check"
    /\ op[c] = "consume"
    /\ IF data[c] = "absent"
       THEN /\ pc' = [pc EXCEPT ![c] = "done"]
            /\ res' = [res EXCEPT ![c] = "notFound"]
            /\ UNCHANGED <<store, data>>
       ELSE MarkConsumed(c) /\ UNCHANGED res
    /\ UNCHANGED <<worldVars, locks, callVars>>

Outcome == [redeem |-> "granted", consume |-> "consumed", revoke |-> "revoked"]

\* The `finally` of withTicketLock.
Unlocked(c) == [locks EXCEPT ![ManagerOf[c]] = @ \ {aim[c]}]

\* Mutant: the lock is released on success only, without `finally`.
ReleaseOnSuccess(c) ==
    locks' = IF op[c] = "redeem" /\ pc[c] = "ack" THEN Unlocked(c) ELSE locks

Release(c) == locks' = IF op[c] = "redeem" THEN Unlocked(c) ELSE locks

\* The call returns.
Settle(c) ==
    /\ pc[c] = "ack"
    /\ Release(c)
    /\ res' = [res EXCEPT ![c] = Outcome[op[c]]]
    /\ pc' = [pc EXCEPT ![c] = "done"]
    /\ UNCHANGED <<store, worldVars, callVars, data>>

\* validateAndConsume rejects.
Reject(c) ==
    /\ pc[c] = "unlock"
    /\ Release(c)
    /\ pc' = [pc EXCEPT ![c] = "done"]
    /\ UNCHANGED <<store, worldVars, callVars, data, res>>

----------------------------------------------------------------------------
(* An asynchronous store.                                                  *)

StoreGet(c) ==
    /\ pc[c] = "get"
    /\ data' = [data EXCEPT ![c] = store[aim[c]]]
    /\ pc' = [pc EXCEPT ![c] = "check"]
    /\ UNCHANGED <<store, worldVars, locks, callVars, res>>

\* Mutant: consumeTicket writes the ticket back before it marks it.
WrittenUnmarked(c) ==
    [store EXCEPT ![aim[c]] =
        IF pc[c] = "delete" THEN "absent" ELSE IF op[c] = "consume" THEN "fresh" ELSE data[c]]

\* What the pending write of call c leaves in the store.
Written(c) ==
    [store EXCEPT ![aim[c]] = IF pc[c] = "set" THEN data[c] ELSE "absent"]

StoreWrite(c) ==
    /\ pc[c] \in {"set", "delete"}
    /\ store' = Written(c)
    /\ pc' = [pc EXCEPT ![c] = "ack"]
    /\ UNCHANGED <<worldVars, locks, callVars, data, res>>

\* The store rejects; a rejected write may have been applied all the same.
StoreRejects(c) ==
    /\ StoreMayFail
    /\ pc[c] \in {"get", "set", "delete"}
    /\ store' \in {store} \cup (IF pc[c] = "get" THEN {} ELSE {Written(c)})
    /\ res' = [res EXCEPT ![c] = "storeError"]
    /\ pc' = [pc EXCEPT ![c] = IF op[c] = "redeem" THEN "unlock" ELSE "done"]
    /\ UNCHANGED <<worldVars, locks, callVars, data>>

----------------------------------------------------------------------------
(* Time and the in-memory store's sweep.                                   *)

Expire(t) ==
    /\ issue[t] = "known"
    /\ ~expired[t]
    /\ expired' = [expired EXCEPT ![t] = TRUE]
    /\ UNCHANGED <<store, issue, sweeping, locks, callVars, pc, data, res>>

\* Mutant: the sweep takes every ticket.
SweepableAll(t) == store[t] # "absent"

Sweepable(t) == store[t] = "consumed" \/ (store[t] = "fresh" /\ expired[t])

\* Every await of a call on the in-memory store is a microtask, and all of
\* them run before the next timer: the sweep never falls inside a call.
Quiet == \A c \in Calls : pc[c] \in {"idle", "done"}

\* Mutant: the sweep takes consumed tickets only.
SweepConsumed ==
    /\ sweeping = "armed"
    /\ Quiet
    /\ store' = [t \in Tickets |-> IF store[t] = "consumed" THEN "absent" ELSE store[t]]
    /\ UNCHANGED <<worldVars, locks, callVars, pc, data, res>>

Sweep ==
    /\ sweeping = "armed"
    /\ Quiet
    /\ \E t \in Tickets : Sweepable(t)
    /\ store' = [t \in Tickets |-> IF Sweepable(t) THEN "absent" ELSE store[t]]
    /\ UNCHANGED <<worldVars, locks, callVars, pc, data, res>>

Destroy ==
    /\ sweeping = "armed"
    /\ sweeping' = "stopped"
    /\ UNCHANGED <<store, expired, issue, locks, callVars, pc, data, res>>

----------------------------------------------------------------------------
IssueStep(t) == IssueStored(t) \/ IssueFails(t)

BeginStep(c, t) ==
    \/ ValidateTicket(c, t)
    \/ ConsumeTicket(c, t)
    \/ ValidateAndConsume(c, t)
    \/ RevokeTicket(c, t)

CallStep(c) ==
    \/ Resume(c) \/ Check(c) \/ MarkRedeemed(c) \/ MarkTaken(c) \/ Settle(c) \/ Reject(c)
    \/ StoreGet(c) \/ StoreWrite(c) \/ StoreRejects(c)

Next ==
    \/ \E t \in Tickets : IssueTicket(t) \/ IssueStep(t) \/ Expire(t)
    \/ \E c \in Calls : CallStep(c) \/ \E t \in Tickets : BeginStep(c, t)
    \/ Sweep
    \/ Destroy

Spec == Init /\ [][Next]_vars

\* A suspended call is resumed, the store answers, and the interval fires.
Fairness ==
    /\ \A c \in Calls : WF_vars(CallStep(c))
    /\ \A t \in Tickets : WF_vars(IssueStep(t))
    /\ WF_vars(Sweep)

FairSpec == Spec /\ Fairness

----------------------------------------------------------------------------
(* Properties.                                                             *)

InLock(c) == op[c] = "redeem" /\ pc[c] \in {"get", "check", "mark", "set", "ack", "unlock"}

\* withTicketLock: in one manager, a ticket is locked exactly while one
\* validateAndConsume call is between taking and releasing the lock, and no
\* rejection, store failure or early return leaves a lock behind.
LockDiscipline ==
    \A m \in Managers, t \in Tickets :
        LET inside == {c \in Calls : InLock(c) /\ ManagerOf[c] = m /\ aim[c] = t}
        IN  /\ Cardinality(inside) <= 1
            /\ t \in locks[m] <=> inside # {}

\* validateAndConsume hands a ticket to at most one caller, however the calls,
\* the store's answers and the other methods interleave.
SingleUse ==
    \A c, d \in Calls :
        res[c] = "granted" /\ res[d] = "granted" /\ aim[c] = aim[d] => c = d

\* A call that began after its ticket expired, or after another call redeemed,
\* consumed or revoked it and returned, neither validates nor redeems it, even
\* when a write of an older call is still on its way to the store.
ClosedStaysClosed ==
    \A c \in doomed : res[c] \notin {"valid", "granted"}

Touched(t) ==
    \E c \in Calls : aim[c] = t /\ (op[c] = "revoke" \/ data[c] = "consumed")

\* A ticket that has not expired and that no call has consumed or revoked is
\* still in the store, unmarked: validateTicket and a redeem that fails before
\* its mark leave no trace, and the sweep takes only dead tickets.
UnusedTicketSurvives ==
    \A t \in Tickets :
        issue[t] = "known" /\ ~expired[t] /\ ~Touched(t) => store[t] = "fresh"

\* The consumed mark is never undone: whatever stale copy a slow call writes
\* back, a ticket once marked in the store is not redeemable again.
MarkIsFinal ==
    [][\A t \in Tickets : store[t] = "consumed" => store'[t] # "fresh"]_vars

\* Every call settles: the lock is handed on and no call waits for ever.
EveryCallSettles ==
    \A c \in Calls : (pc[c] # "idle") ~> (pc[c] = "done")

\* InMemoryTicketStore forgets dead tickets for as long as its sweep is armed.
DeadTicketsAreSwept ==
    \A t \in Tickets : Sweepable(t) ~> (~Sweepable(t) \/ sweeping # "armed")

----------------------------------------------------------------------------
(* Refinement of OneTimeTicket.  The calls it speaks of are the redeems.   *)

AbsState ==
    [c \in Calls |->
        IF op[c] # "redeem" THEN "idle"
        ELSE IF res[c] = "granted" THEN "granted"
        ELSE IF pc[c] = "done" THEN "denied"
        ELSE IF c \in doomed THEN "doomed" ELSE "pending"]

AbsAim == [c \in Calls |-> IF op[c] = "redeem" THEN aim[c] ELSE None]

Abs == INSTANCE OneTimeTicket WITH
    issued <- {t \in Tickets : issue[t] = "known"},
    closed <- {t \in Tickets : Closed(t)},
    aim <- AbsAim,
    state <- AbsState

\* The manager implements the one-time ticket.
OneTime == Abs!Spec
============================================================================
