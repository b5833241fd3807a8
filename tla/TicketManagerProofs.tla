------------------------ MODULE TicketManagerProofs ------------------------
(***************************************************************************)
(* Theorems about TicketManager, for any sets of tickets, calls and        *)
(* managers, either kind of store, failing or not.                         *)
(***************************************************************************)
EXTENDS TicketManager, FiniteSetTheorems, TLAPS

Redeems(c) == op[c] = "redeem"

\* What the place of a call says about its method and about what it holds.
Shape ==
    \A c \in Calls :
        /\ pc[c] = "idle" => op[c] = None /\ aim[c] = None /\ data[c] = None /\ res[c] = None
        /\ pc[c] # "idle" => issue[aim[c]] = "known"
        /\ pc[c] = "check" => data[c] \in Copies
        /\ pc[c] \in {"get", "check"} => op[c] \in {"validate", "redeem", "consume"}
        /\ pc[c] \in {"wait", "mark", "unlock"} => Redeems(c)
        /\ pc[c] \in {"wait", "get"} => data[c] = None
        /\ pc[c] = "set" => op[c] \in {"redeem", "consume"} /\ data[c] = "consumed"
        /\ pc[c] = "delete" => op[c] = "revoke"
        /\ pc[c] = "ack" => op[c] \in {"redeem", "consume", "revoke"}
        /\ res[c] # None => pc[c] \in {"unlock", "done"}
        /\ res[c] \in Closing => pc[c] = "done"
        /\ res[c] = "granted" => Redeems(c)

TypeInv == TypeOK /\ Shape

\* The initial state is well typed and no call has begun.
LEMMA InitType == Init => TypeInv
  <1> SUFFICES ASSUME Init PROVE TypeInv
    OBVIOUS
  <1>1. sweeping \in {"never", "armed", "stopped"}
    BY StoreAssumption, SMT DEF Init
  <1>2. Shape
    BY SMT DEF Init, Shape, None, Redeems, Closing
  <1> QED
    BY <1>1, <1>2, SMT DEF Init, TypeInv, TypeOK, Ops, Copies, Pcs, Results

USE DEF vars, callVars, worldVars

\* Every action keeps the types and the shape of the calls.
LEMMA NextType == TypeInv /\ [Next]_vars => TypeInv'
  <1> SUFFICES ASSUME TypeInv, [Next]_vars PROVE TypeInv'
    OBVIOUS
  <1> USE ManagerAssumption, StoreAssumption, NoneAssumption
      DEF TypeInv, TypeOK, Shape, None, Ops, Copies, Pcs, Results, Redeems, Closing
  <1>1. ASSUME NEW t \in Tickets, IssueTicket(t) PROVE TypeInv'
    BY <1>1, SMT DEF IssueTicket
  <1>2. ASSUME NEW t \in Tickets, IssueStored(t) PROVE TypeInv'
    BY <1>2, SMT DEF IssueStored
  <1>3. ASSUME NEW t \in Tickets, IssueFails(t) PROVE TypeInv'
    BY <1>3, SMT DEF IssueFails
  <1>4. ASSUME NEW t \in Tickets, Expire(t) PROVE TypeInv'
    BY <1>4, SMT DEF Expire
  <1>5. ASSUME NEW c \in Calls, NEW t \in Tickets, ValidateTicket(c, t) PROVE TypeInv'
    BY <1>5, SMT DEF ValidateTicket, Begin, Lookup
  <1>6. ASSUME NEW c \in Calls, NEW t \in Tickets, ConsumeTicket(c, t) PROVE TypeInv'
    BY <1>6, SMT DEF ConsumeTicket, Begin, Lookup
  <1>7. ASSUME NEW c \in Calls, NEW t \in Tickets, ValidateAndConsume(c, t) PROVE TypeInv'
    BY <1>7, SMT DEF ValidateAndConsume, Begin, Lookup, EnterLock
  <1>8. ASSUME NEW c \in Calls, NEW t \in Tickets, RevokeTicket(c, t) PROVE TypeInv'
    BY <1>8, SMT DEF RevokeTicket, Begin
  <1>9. ASSUME NEW c \in Calls, Resume(c) PROVE TypeInv'
    BY <1>9, SMT DEF Resume, Lookup, EnterLock
  <1>10. ASSUME NEW c \in Calls, Check(c) PROVE TypeInv'
    BY <1>10, SMT DEF Check, Verdict
  <1>11. ASSUME NEW c \in Calls, MarkRedeemed(c) PROVE TypeInv'
    BY <1>11, SMT DEF MarkRedeemed, MarkConsumed, Aliases
  <1>12. ASSUME NEW c \in Calls, MarkTaken(c) PROVE TypeInv'
    BY <1>12, SMT DEF MarkTaken, MarkConsumed, Aliases
  <1>13. ASSUME NEW c \in Calls, Settle(c) PROVE TypeInv'
    BY <1>13, SMT DEF Settle, Release, Unlocked, Outcome
  <1>14. ASSUME NEW c \in Calls, Reject(c) PROVE TypeInv'
    BY <1>14, SMT DEF Reject, Release, Unlocked
  <1>15. ASSUME NEW c \in Calls, StoreGet(c) PROVE TypeInv'
    BY <1>15, SMT DEF StoreGet
  <1>16. ASSUME NEW c \in Calls, StoreWrite(c) PROVE TypeInv'
    BY <1>16, SMT DEF StoreWrite, Written
  <1>17. ASSUME NEW c \in Calls, StoreRejects(c) PROVE TypeInv'
    BY <1>17, SMT DEF StoreRejects, Written
  <1>18. CASE Sweep
    BY <1>18, SMT DEF Sweep
  <1>19. CASE Destroy
    BY <1>19, SMT DEF Destroy
  <1>20. CASE UNCHANGED vars
    BY <1>20, SMT
  <1> QED
    BY <1>1, <1>2, <1>3, <1>4, <1>5, <1>6, <1>7, <1>8, <1>9, <1>10, <1>11, <1>12, <1>13,
       <1>14, <1>15, <1>16, <1>17, <1>18, <1>19, <1>20, Zenon
       DEF Next, IssueStep, BeginStep, CallStep

----------------------------------------------------------------------------
\* Nothing is stored under a ticket before its issueTicket call stores it.
IssueInv == \A t \in Tickets : issue[t] \in {"none", "setting"} => store[t] = "absent"

\* Once a call that ends a ticket is about to return, the ticket is not fresh.
SpentInv ==
    \A c \in Calls : pc[c] = "ack" \/ res[c] \in Closing => store[aim[c]] # "fresh"

\* A doomed call meets a ticket that has expired or a copy that is not fresh.
DoomInv ==
    \A c \in doomed :
        /\ pc[c] # "idle"
        /\ \/ expired[aim[c]]
           \/ store[aim[c]] # "fresh" /\ (pc[c] = "check" => data[c] # "fresh")
        /\ Redeems(c) => pc[c] \notin {"mark", "set", "ack"}
        /\ res[c] \notin {"valid", "granted"}

StoreInv == IssueInv /\ SpentInv /\ DoomInv

\* Initially the store is empty and nothing is doomed.
LEMMA InitStore == Init => StoreInv
  BY SMT DEF Init, StoreInv, IssueInv, SpentInv, DoomInv, None, Closing

\* Every action keeps what the store is known to hold.
LEMMA NextStore == TypeInv /\ StoreInv /\ [Next]_vars => StoreInv'
  <1> SUFFICES ASSUME TypeInv, StoreInv, [Next]_vars PROVE StoreInv'
    OBVIOUS
  <1> USE ManagerAssumption, StoreAssumption, NoneAssumption
      DEF TypeInv, TypeOK, Shape, None, Ops, Copies, Pcs, Results, Redeems, Closing,
          StoreInv, IssueInv, SpentInv, DoomInv
  <1>1. ASSUME NEW t \in Tickets, IssueTicket(t) PROVE StoreInv'
    BY <1>1, SMT DEF IssueTicket
  <1>2. ASSUME NEW t \in Tickets, IssueStored(t) PROVE StoreInv'
    BY <1>2, SMT DEF IssueStored
  <1>3. ASSUME NEW t \in Tickets, IssueFails(t) PROVE StoreInv'
    BY <1>3, SMT DEF IssueFails
  <1>4. ASSUME NEW t \in Tickets, Expire(t) PROVE StoreInv'
    BY <1>4, SMT DEF Expire
  <1>5. ASSUME NEW c \in Calls, NEW t \in Tickets, ValidateTicket(c, t) PROVE StoreInv'
    BY <1>5, SMT DEF ValidateTicket, Begin, Lookup, Closed
  <1>6. ASSUME NEW c \in Calls, NEW t \in Tickets, ConsumeTicket(c, t) PROVE StoreInv'
    BY <1>6, SMT DEF ConsumeTicket, Begin, Lookup, Closed
  <1>7. ASSUME NEW c \in Calls, NEW t \in Tickets, ValidateAndConsume(c, t) PROVE StoreInv'
    BY <1>7, SMT DEF ValidateAndConsume, Begin, Lookup, EnterLock, Closed
  <1>8. ASSUME NEW c \in Calls, NEW t \in Tickets, RevokeTicket(c, t) PROVE StoreInv'
    BY <1>8, SMT DEF RevokeTicket, Begin, Closed
  <1>9. ASSUME NEW c \in Calls, Resume(c) PROVE StoreInv'
    BY <1>9, SMT DEF Resume, Lookup, EnterLock
  <1>10. ASSUME NEW c \in Calls, Check(c) PROVE StoreInv'
    BY <1>10, SMT DEF Check, Verdict
  <1>11. ASSUME NEW c \in Calls, MarkRedeemed(c) PROVE StoreInv'
    BY <1>11, SMT DEF MarkRedeemed, MarkConsumed, Aliases
  <1>12. ASSUME NEW c \in Calls, MarkTaken(c) PROVE StoreInv'
    BY <1>12, SMT DEF MarkTaken, MarkConsumed, Aliases
  <1>13. ASSUME NEW c \in Calls, Settle(c) PROVE StoreInv'
    BY <1>13, SMT DEF Settle, Outcome
  <1>14. ASSUME NEW c \in Calls, Reject(c) PROVE StoreInv'
    BY <1>14, SMT DEF Reject
  <1>15. ASSUME NEW c \in Calls, StoreGet(c) PROVE StoreInv'
    BY <1>15, SMT DEF StoreGet
  <1>16. ASSUME NEW c \in Calls, StoreWrite(c) PROVE StoreInv'
    BY <1>16, SMT DEF StoreWrite, Written
  <1>17. ASSUME NEW c \in Calls, StoreRejects(c) PROVE StoreInv'
    BY <1>17, SMT DEF StoreRejects, Written
  <1>18. CASE Sweep
    BY <1>18, SMT DEF Sweep
  <1>19. CASE Destroy
    BY <1>19, SMT DEF Destroy
  <1>20. CASE UNCHANGED vars
    BY <1>20, SMT
  <1> QED
    BY <1>1, <1>2, <1>3, <1>4, <1>5, <1>6, <1>7, <1>8, <1>9, <1>10, <1>11, <1>12, <1>13,
       <1>14, <1>15, <1>16, <1>17, <1>18, <1>19, <1>20, Zenon
       DEF Next, IssueStep, BeginStep, CallStep

----------------------------------------------------------------------------
\* A lock is held on behalf of exactly one call, and every call inside has one.
LockInv ==
    /\ \A c \in Calls : InLock(c) => aim[c] \in locks[ManagerOf[c]]
    /\ \A c, d \in Calls :
        InLock(c) /\ InLock(d) /\ ManagerOf[c] = ManagerOf[d] /\ aim[c] = aim[d] => c = d
    /\ \A m \in Managers, t \in Tickets :
        t \in locks[m] => \E c \in Calls : InLock(c) /\ ManagerOf[c] = m /\ aim[c] = t

\* Initially no lock is held and no call is inside one.
LEMMA InitLock == Init => LockInv
  BY ManagerAssumption, SMT DEF Init, LockInv, InLock, None

\* A step that moves no call into or out of the lock keeps the lock invariant.
LEMMA SameLock ==
    ASSUME LockInv, locks' = locks,
           \A c \in Calls : (InLock(c)' <=> InLock(c)) /\ (InLock(c) => aim'[c] = aim[c])
    PROVE  LockInv'
  BY SMT DEF LockInv, InLock

\* So does a step that takes a free lock for a call that was outside.
LEMMA TakeLock ==
    ASSUME TypeInv, LockInv, NEW c \in Calls, NEW t \in Tickets,
           LockFree(ManagerOf[c], t),
           locks' = [locks EXCEPT ![ManagerOf[c]] = @ \cup {t}],
           ~InLock(c), InLock(c)', aim'[c] = t,
           \A d \in Calls \ {c} : (InLock(d)' <=> InLock(d)) /\ aim'[d] = aim[d]
    PROVE  LockInv'
  <1> USE ManagerAssumption DEF LockFree, TypeInv, TypeOK
  <1>1. \A d \in Calls : InLock(d)' => aim'[d] \in locks'[ManagerOf[d]]
    BY SMT DEF LockInv
  <1>2. \A d, e \in Calls :
          InLock(d)' /\ InLock(e)' /\ ManagerOf[d] = ManagerOf[e] /\ aim'[d] = aim'[e] => d = e
    BY SMT DEF LockInv
  <1>3. ASSUME NEW m \in Managers, NEW u \in Tickets, u \in locks'[m]
        PROVE  \E d \in Calls : InLock(d)' /\ ManagerOf[d] = m /\ aim'[d] = u
    <2>1. CASE u \in locks[m]
      <3>1. PICK d \in Calls : InLock(d) /\ ManagerOf[d] = m /\ aim[d] = u
        BY <2>1, SMT DEF LockInv
      <3> QED
        BY <3>1, SMT
    <2>2. CASE u \notin locks[m]
      <3>1. m = ManagerOf[c] /\ u = t
        BY <1>3, <2>2, SMT
      <3> QED
        BY <3>1, SMT
    <2> QED
      BY <2>1, <2>2
  <1> QED
    BY <1>1, <1>2, <1>3, SMT DEF LockInv, InLock

\* Every action keeps the lock discipline.
LEMMA NextLock == TypeInv /\ LockInv /\ [Next]_vars => LockInv'
  <1> SUFFICES ASSUME TypeInv, LockInv, [Next]_vars PROVE LockInv'
    OBVIOUS
  <1> USE ManagerAssumption, StoreAssumption, NoneAssumption
      DEF TypeInv, TypeOK, Shape, None, Ops, Copies, Pcs, Results, Redeems, Closing
  <1>1. ASSUME NEW t \in Tickets, IssueTicket(t) PROVE LockInv'
    BY <1>1, SMT DEF LockInv, InLock, IssueTicket
  <1>2. ASSUME NEW t \in Tickets, IssueStored(t) PROVE LockInv'
    BY <1>2, SMT DEF LockInv, InLock, IssueStored
  <1>3. ASSUME NEW t \in Tickets, IssueFails(t) PROVE LockInv'
    BY <1>3, SMT DEF LockInv, InLock, IssueFails
  <1>4. ASSUME NEW t \in Tickets, Expire(t) PROVE LockInv'
    BY <1>4, SMT DEF LockInv, InLock, Expire
  <1>5. ASSUME NEW c \in Calls, NEW t \in Tickets, ValidateTicket(c, t) PROVE LockInv'
    <2>1. \A d \in Calls : (InLock(d)' <=> InLock(d)) /\ (InLock(d) => aim'[d] = aim[d])
      BY <1>5, SMT DEF ValidateTicket, Begin, Lookup, InLock
    <2>2. locks' = locks
      BY <1>5 DEF ValidateTicket, Begin, Lookup
    <2> QED
      BY <2>1, <2>2, SameLock
  <1>6. ASSUME NEW c \in Calls, NEW t \in Tickets, ConsumeTicket(c, t) PROVE LockInv'
    <2>1. \A d \in Calls : (InLock(d)' <=> InLock(d)) /\ (InLock(d) => aim'[d] = aim[d])
      BY <1>6, SMT DEF ConsumeTicket, Begin, Lookup, InLock
    <2>2. locks' = locks
      BY <1>6 DEF ConsumeTicket, Begin, Lookup
    <2> QED
      BY <2>1, <2>2, SameLock
  <1>7. ASSUME NEW c \in Calls, NEW t \in Tickets, ValidateAndConsume(c, t) PROVE LockInv'
    <2>1. CASE LockFree(ManagerOf[c], t)
      <3>1. ~InLock(c) /\ InLock(c)' /\ aim'[c] = t
        BY <1>7, <2>1, SMT DEF ValidateAndConsume, Begin, Lookup, EnterLock, InLock
      <3>2. \A d \in Calls \ {c} : (InLock(d)' <=> InLock(d)) /\ aim'[d] = aim[d]
        BY <1>7, <2>1, SMT DEF ValidateAndConsume, Begin, Lookup, EnterLock, InLock
      <3>3. locks' = [locks EXCEPT ![ManagerOf[c]] = @ \cup {t}]
        BY <1>7, <2>1 DEF ValidateAndConsume, EnterLock
      <3> QED
        BY <2>1, <3>1, <3>2, <3>3, TakeLock
    <2>2. CASE ~LockFree(ManagerOf[c], t)
      <3>1. \A d \in Calls : (InLock(d)' <=> InLock(d)) /\ (InLock(d) => aim'[d] = aim[d])
        BY <1>7, <2>2, SMT DEF ValidateAndConsume, Begin, InLock
      <3>2. locks' = locks
        BY <1>7, <2>2 DEF ValidateAndConsume
      <3> QED
        BY <3>1, <3>2, SameLock
    <2> QED
      BY <2>1, <2>2
  <1>8. ASSUME NEW c \in Calls, NEW t \in Tickets, RevokeTicket(c, t) PROVE LockInv'
    <2>1. \A d \in Calls : (InLock(d)' <=> InLock(d)) /\ (InLock(d) => aim'[d] = aim[d])
      BY <1>8, SMT DEF RevokeTicket, Begin, InLock
    <2>2. locks' = locks
      BY <1>8 DEF RevokeTicket, Begin
    <2> QED
      BY <2>1, <2>2, SameLock
  <1>9. ASSUME NEW c \in Calls, Resume(c) PROVE LockInv'
    <2>1. ~InLock(c) /\ InLock(c)' /\ aim'[c] = aim[c] /\ aim[c] \in Tickets
      BY <1>9, SMT DEF Resume, Lookup, EnterLock, InLock
    <2>2. \A d \in Calls \ {c} : (InLock(d)' <=> InLock(d)) /\ aim'[d] = aim[d]
      BY <1>9, SMT DEF Resume, Lookup, EnterLock, InLock
    <2>3. LockFree(ManagerOf[c], aim[c])
      BY <1>9 DEF Resume
    <2>4. locks' = [locks EXCEPT ![ManagerOf[c]] = @ \cup {aim[c]}]
      BY <1>9 DEF Resume, EnterLock
    <2> QED
      BY <2>1, <2>2, <2>3, <2>4, TakeLock
  <1>10. ASSUME NEW c \in Calls, Check(c) PROVE LockInv'
    <2>1. \A d \in Calls : (InLock(d)' <=> InLock(d)) /\ (InLock(d) => aim'[d] = aim[d])
      BY <1>10, SMT DEF Check, Verdict, InLock
    <2>2. locks' = locks
      BY <1>10 DEF Check, Verdict
    <2> QED
      BY <2>1, <2>2, SameLock
  <1>11. ASSUME NEW c \in Calls, MarkRedeemed(c) PROVE LockInv'
    <2>1. \A d \in Calls : (InLock(d)' <=> InLock(d)) /\ (InLock(d) => aim'[d] = aim[d])
      BY <1>11, SMT DEF MarkRedeemed, MarkConsumed, Aliases, InLock
    <2>2. locks' = locks
      BY <1>11 DEF MarkRedeemed, MarkConsumed, Aliases
    <2> QED
      BY <2>1, <2>2, SameLock
  <1>12. ASSUME NEW c \in Calls, MarkTaken(c) PROVE LockInv'
    <2>1. \A d \in Calls : (InLock(d)' <=> InLock(d)) /\ (InLock(d) => aim'[d] = aim[d])
      BY <1>12, SMT DEF MarkTaken, MarkConsumed, Aliases, InLock
    <2>2. locks' = locks
      BY <1>12 DEF MarkTaken, MarkConsumed, Aliases
    <2> QED
      BY <2>1, <2>2, SameLock
  <1>13. ASSUME NEW c \in Calls, Settle(c) PROVE LockInv'
    BY <1>13, SMT DEF LockInv, InLock, Settle, Release, Unlocked, Outcome
  <1>14. ASSUME NEW c \in Calls, Reject(c) PROVE LockInv'
    BY <1>14, SMT DEF LockInv, InLock, Reject, Release, Unlocked
  <1>15. ASSUME NEW c \in Calls, StoreGet(c) PROVE LockInv'
    BY <1>15, SMT DEF LockInv, InLock, StoreGet
  <1>16. ASSUME NEW c \in Calls, StoreWrite(c) PROVE LockInv'
    BY <1>16, SMT DEF LockInv, InLock, StoreWrite, Written
  <1>17. ASSUME NEW c \in Calls, StoreRejects(c) PROVE LockInv'
    BY <1>17, SMT DEF LockInv, InLock, StoreRejects, Written
  <1>18. CASE Sweep
    BY <1>18, SMT DEF LockInv, InLock, Sweep
  <1>19. CASE Destroy
    BY <1>19, SMT DEF LockInv, InLock, Destroy
  <1>20. CASE UNCHANGED vars
    BY <1>20, SMT DEF LockInv, InLock
  <1> QED
    BY <1>1, <1>2, <1>3, <1>4, <1>5, <1>6, <1>7, <1>8, <1>9, <1>10, <1>11, <1>12, <1>13,
       <1>14, <1>15, <1>16, <1>17, <1>18, <1>19, <1>20, Zenon
       DEF Next, IssueStep, BeginStep, CallStep

----------------------------------------------------------------------------
\* Call c has redeemed its ticket: it has been granted it or will be.
Redeemed(c) == Redeems(c) /\ (pc[c] = "ack" \/ res[c] = "granted")

\* Once a call has redeemed a ticket, no other call of the same manager can.
OnceInv ==
    \A c, d \in Calls :
        Redeemed(c) /\ Redeems(d) /\ c # d /\ aim[c] = aim[d] /\ ManagerOf[c] = ManagerOf[d] =>
            /\ pc[d] \notin {"mark", "set", "ack"}
            /\ res[d] # "granted"
            /\ pc[d] = "check" => data[d] # "fresh"

\* Initially no call has redeemed anything.
LEMMA InitOnce == Init => OnceInv
  BY SMT DEF Init, OnceInv, Redeemed, Redeems, None

\* Every action keeps it: the lock shuts the others out until the mark is stored.
LEMMA NextOnce == TypeInv /\ StoreInv /\ LockInv /\ OnceInv /\ [Next]_vars => OnceInv'
  <1> SUFFICES ASSUME TypeInv, StoreInv, LockInv, OnceInv, [Next]_vars PROVE OnceInv'
    OBVIOUS
  <1> USE ManagerAssumption, StoreAssumption, NoneAssumption
      DEF TypeInv, TypeOK, Shape, None, Ops, Copies, Pcs, Results, Redeems, Closing,
          StoreInv, SpentInv, LockInv, InLock, OnceInv, Redeemed
  <1>1. ASSUME NEW t \in Tickets, IssueTicket(t) PROVE OnceInv'
    BY <1>1, SMT DEF IssueTicket
  <1>2. ASSUME NEW t \in Tickets, IssueStored(t) PROVE OnceInv'
    BY <1>2, SMT DEF IssueStored
  <1>3. ASSUME NEW t \in Tickets, IssueFails(t) PROVE OnceInv'
    BY <1>3, SMT DEF IssueFails
  <1>4. ASSUME NEW t \in Tickets, Expire(t) PROVE OnceInv'
    BY <1>4, SMT DEF Expire
  <1>5. ASSUME NEW c \in Calls, NEW t \in Tickets, ValidateTicket(c, t) PROVE OnceInv'
    BY <1>5, SMT DEF ValidateTicket, Begin, Lookup
  <1>6. ASSUME NEW c \in Calls, NEW t \in Tickets, ConsumeTicket(c, t) PROVE OnceInv'
    BY <1>6, SMT DEF ConsumeTicket, Begin, Lookup
  <1>7. ASSUME NEW c \in Calls, NEW t \in Tickets, ValidateAndConsume(c, t) PROVE OnceInv'
    BY <1>7, SMT DEF ValidateAndConsume, Begin, Lookup, EnterLock, LockFree
  <1>8. ASSUME NEW c \in Calls, NEW t \in Tickets, RevokeTicket(c, t) PROVE OnceInv'
    BY <1>8, SMT DEF RevokeTicket, Begin
  <1>9. ASSUME NEW c \in Calls, Resume(c) PROVE OnceInv'
    BY <1>9, SMT DEF Resume, Lookup, EnterLock, LockFree
  <1>10. ASSUME NEW c \in Calls, Check(c) PROVE OnceInv'
    BY <1>10, SMT DEF Check, Verdict
  <1>11. ASSUME NEW c \in Calls, MarkRedeemed(c) PROVE OnceInv'
    BY <1>11, SMT DEF MarkRedeemed, MarkConsumed, Aliases
  <1>12. ASSUME NEW c \in Calls, MarkTaken(c) PROVE OnceInv'
    BY <1>12, SMT DEF MarkTaken, MarkConsumed, Aliases
  <1>13. ASSUME NEW c \in Calls, Settle(c) PROVE OnceInv'
    BY <1>13, SMT DEF Settle, Release, Unlocked, Outcome
  <1>14. ASSUME NEW c \in Calls, Reject(c) PROVE OnceInv'
    BY <1>14, SMT DEF Reject, Release, Unlocked
  <1>15. ASSUME NEW c \in Calls, StoreGet(c) PROVE OnceInv'
    BY <1>15, SMT DEF StoreGet
  <1>16. ASSUME NEW c \in Calls, StoreWrite(c) PROVE OnceInv'
    BY <1>16, SMT DEF StoreWrite, Written
  <1>17. ASSUME NEW c \in Calls, StoreRejects(c) PROVE OnceInv'
    BY <1>17, SMT DEF StoreRejects, Written
  <1>18. CASE Sweep
    BY <1>18, SMT DEF Sweep
  <1>19. CASE Destroy
    BY <1>19, SMT DEF Destroy
  <1>20. CASE UNCHANGED vars
    BY <1>20, SMT
  <1> QED
    BY <1>1, <1>2, <1>3, <1>4, <1>5, <1>6, <1>7, <1>8, <1>9, <1>10, <1>11, <1>12, <1>13,
       <1>14, <1>15, <1>16, <1>17, <1>18, <1>19, <1>20, Zenon
       DEF Next, IssueStep, BeginStep, CallStep

----------------------------------------------------------------------------
\* Every action leaves an unused ticket in the store.
LEMMA NextUnused ==
    TypeInv /\ UnusedTicketSurvives /\ [Next]_vars => UnusedTicketSurvives'
  <1> SUFFICES ASSUME TypeInv, UnusedTicketSurvives, [Next]_vars PROVE UnusedTicketSurvives'
    OBVIOUS
  <1> USE ManagerAssumption, StoreAssumption, NoneAssumption
      DEF TypeInv, TypeOK, Shape, None, Ops, Copies, Pcs, Results, Redeems, Closing,
          UnusedTicketSurvives, Touched
  <1>1. ASSUME NEW t \in Tickets, IssueTicket(t) PROVE UnusedTicketSurvives'
    BY <1>1, SMT DEF IssueTicket
  <1>2. ASSUME NEW t \in Tickets, IssueStored(t) PROVE UnusedTicketSurvives'
    BY <1>2, SMT DEF IssueStored
  <1>3. ASSUME NEW t \in Tickets, IssueFails(t) PROVE UnusedTicketSurvives'
    BY <1>3, SMT DEF IssueFails
  <1>4. ASSUME NEW t \in Tickets, Expire(t) PROVE UnusedTicketSurvives'
    BY <1>4, SMT DEF Expire
  <1>5. ASSUME NEW c \in Calls, NEW t \in Tickets, ValidateTicket(c, t) PROVE UnusedTicketSurvives'
    BY <1>5, SMT DEF ValidateTicket, Begin, Lookup
  <1>6. ASSUME NEW c \in Calls, NEW t \in Tickets, ConsumeTicket(c, t) PROVE UnusedTicketSurvives'
    BY <1>6, SMT DEF ConsumeTicket, Begin, Lookup
  <1>7. ASSUME NEW c \in Calls, NEW t \in Tickets, ValidateAndConsume(c, t) PROVE UnusedTicketSurvives'
    BY <1>7, SMT DEF ValidateAndConsume, Begin, Lookup, EnterLock, LockFree
  <1>8. ASSUME NEW c \in Calls, NEW t \in Tickets, RevokeTicket(c, t) PROVE UnusedTicketSurvives'
    BY <1>8, SMT DEF RevokeTicket, Begin
  <1>9. ASSUME NEW c \in Calls, Resume(c) PROVE UnusedTicketSurvives'
    BY <1>9, SMT DEF Resume, Lookup, EnterLock, LockFree
  <1>10. ASSUME NEW c \in Calls, Check(c) PROVE UnusedTicketSurvives'
    BY <1>10, SMT DEF Check, Verdict
  <1>11. ASSUME NEW c \in Calls, MarkRedeemed(c) PROVE UnusedTicketSurvives'
    BY <1>11, SMT DEF MarkRedeemed, MarkConsumed, Aliases
  <1>12. ASSUME NEW c \in Calls, MarkTaken(c) PROVE UnusedTicketSurvives'
    BY <1>12, SMT DEF MarkTaken, MarkConsumed, Aliases
  <1>13. ASSUME NEW c \in Calls, Settle(c) PROVE UnusedTicketSurvives'
    BY <1>13, SMT DEF Settle, Release, Unlocked, Outcome
  <1>14. ASSUME NEW c \in Calls, Reject(c) PROVE UnusedTicketSurvives'
    BY <1>14, SMT DEF Reject, Release, Unlocked
  <1>15. ASSUME NEW c \in Calls, StoreGet(c) PROVE UnusedTicketSurvives'
    BY <1>15, SMT DEF StoreGet
  <1>16. ASSUME NEW c \in Calls, StoreWrite(c) PROVE UnusedTicketSurvives'
    BY <1>16, SMT DEF StoreWrite, Written
  <1>17. ASSUME NEW c \in Calls, StoreRejects(c) PROVE UnusedTicketSurvives'
    BY <1>17, SMT DEF StoreRejects, Written
  <1>18. CASE Sweep
    <2>1. \A t \in Tickets : store[t] = "fresh" /\ ~expired[t] => store'[t] = "fresh"
      BY <1>18, SMT DEF Sweep, Sweepable
    <2>2. UNCHANGED <<expired, issue, op, aim, data>>
      BY <1>18, SMT DEF Sweep
    <2> QED
      BY <2>1, <2>2, SMT
  <1>19. CASE Destroy
    BY <1>19, SMT DEF Destroy
  <1>20. CASE UNCHANGED vars
    BY <1>20, SMT
  <1> QED
    BY <1>1, <1>2, <1>3, <1>4, <1>5, <1>6, <1>7, <1>8, <1>9, <1>10, <1>11, <1>12, <1>13,
       <1>14, <1>15, <1>16, <1>17, <1>18, <1>19, <1>20, Zenon
       DEF Next, IssueStep, BeginStep, CallStep

----------------------------------------------------------------------------
\* Every action keeps the mark: a marked ticket is never fresh in the next state.
LEMMA NextMark ==
    TypeInv /\ StoreInv /\ [Next]_vars =>
        \A t \in Tickets : store[t] = "consumed" => store'[t] # "fresh"
  <1> DEFINE Kept == \A t \in Tickets : store[t] = "consumed" => store'[t] # "fresh"
  <1> SUFFICES ASSUME TypeInv, StoreInv, [Next]_vars PROVE Kept
    OBVIOUS
  <1> USE StoreAssumption, NoneAssumption
      DEF TypeInv, TypeOK, Shape, None, Ops, Copies, Pcs, Results, Redeems, StoreInv, IssueInv
  <1>1. ASSUME NEW t \in Tickets, IssueTicket(t) PROVE Kept
    BY <1>1, SMT DEF IssueTicket
  <1>2. ASSUME NEW t \in Tickets, IssueStep(t) PROVE Kept
    BY <1>2, SMT DEF IssueStep, IssueStored, IssueFails
  <1>3. ASSUME NEW c \in Calls, NEW t \in Tickets, BeginStep(c, t) PROVE Kept
    BY <1>3, SMT DEF BeginStep, ValidateTicket, ConsumeTicket, ValidateAndConsume, RevokeTicket
  <1>4. ASSUME NEW c \in Calls, MarkRedeemed(c) \/ MarkTaken(c) PROVE Kept
    BY <1>4, SMT DEF MarkRedeemed, MarkTaken, MarkConsumed
  <1>5. ASSUME NEW c \in Calls, StoreWrite(c) \/ StoreRejects(c) PROVE Kept
    BY <1>5, SMT DEF StoreWrite, StoreRejects, Written
  <1>6. CASE Sweep
    BY <1>6, SMT DEF Sweep
  <1>7. ASSUME store' = store PROVE Kept
    BY <1>7, SMT
  <1>8. ASSUME NEW t \in Tickets, Expire(t) PROVE store' = store
    BY <1>8 DEF Expire
  <1>9. ASSUME NEW c \in Calls,
               Resume(c) \/ Check(c) \/ Settle(c) \/ Reject(c) \/ StoreGet(c)
        PROVE  store' = store
    BY <1>9 DEF Resume, Check, Settle, Reject, StoreGet
  <1>10. ASSUME Destroy \/ UNCHANGED vars PROVE store' = store
    BY <1>10 DEF Destroy
  <1> HIDE DEF Kept
  <1> QED
    BY <1>1, <1>2, <1>3, <1>4, <1>5, <1>6, <1>7, <1>8, <1>9, <1>10, Zenon DEF Next, CallStep

----------------------------------------------------------------------------
(* The theorems.                                                           *)

\* Every behaviour is well typed, and no call ever marks a ticket it did not get.
THEOREM Typing == Spec => []TypeOK
  <1>1. TypeInv => TypeOK
    BY DEF TypeInv
  <1> QED
    BY <1>1, InitType, NextType, PTL DEF Spec

\* The inductive invariant of the ticket subsystem.
TicketInv == TypeInv /\ StoreInv /\ LockInv /\ OnceInv

\* It holds in every reachable state.
LEMMA Inductive == Spec => []TicketInv
  <1>1. Init => TicketInv
    BY InitType, InitStore, InitLock, InitOnce DEF TicketInv
  <1>2. TicketInv /\ [Next]_vars => TicketInv'
    BY NextType, NextStore, NextLock, NextOnce DEF TicketInv
  <1> QED
    BY <1>1, <1>2, PTL DEF Spec

\* A call that began on a closed ticket is refused it: for any number of
\* managers over one store, and for a store that fails, delays and copies.
THEOREM ClosedForGood == Spec => []ClosedStaysClosed
  <1>1. TicketInv => ClosedStaysClosed
    BY SMT DEF TicketInv, StoreInv, DoomInv, ClosedStaysClosed
  <1> QED
    BY <1>1, Inductive, PTL

\* Within one manager a ticket is redeemed at most once.
THEOREM OneManagerSingleUse ==
    ASSUME \A c, d \in Calls : ManagerOf[c] = ManagerOf[d]
    PROVE  Spec => []SingleUse
  <1>1. TicketInv => SingleUse
    BY SMT DEF TicketInv, TypeInv, Shape, OnceInv, Redeemed, SingleUse
  <1> QED
    BY <1>1, Inductive, PTL

\* A lock is held exactly while one call is inside it, in every manager.
THEOREM Locking == Spec => []LockDiscipline
  <1>1. ASSUME TicketInv PROVE LockDiscipline
    <2> SUFFICES ASSUME NEW m \in Managers, NEW t \in Tickets
                 PROVE  LET inside == {c \in Calls : InLock(c) /\ ManagerOf[c] = m /\ aim[c] = t}
                        IN  /\ Cardinality(inside) <= 1
                            /\ t \in locks[m] <=> inside # {}
      BY DEF LockDiscipline
    <2> DEFINE inside == {c \in Calls : InLock(c) /\ ManagerOf[c] = m /\ aim[c] = t}
    <2>1. t \in locks[m] <=> inside # {}
      BY <1>1, SMT DEF TicketInv, LockInv
    <2>2. \A c, d \in inside : c = d
      BY <1>1, SMT DEF TicketInv, LockInv
    <2>3. Cardinality(inside) <= 1
      <3>1. CASE inside = {}
        BY <3>1, FS_EmptySet, SMT
      <3>2. CASE inside # {}
        <4>1. PICK c : c \in inside
          BY <3>2
        <4>2. inside = {c}
          BY <4>1, <2>2
        <4> QED
          BY <4>2, FS_Singleton, SMT
      <3> QED
        BY <3>1, <3>2
    <2> QED
      BY <2>1, <2>3
  <1> QED
    BY <1>1, Inductive, PTL

\* A ticket nobody consumed, revoked or let expire is still there to be used.
THEOREM UnusedKept == Spec => []UnusedTicketSurvives
  <1>1. Init => UnusedTicketSurvives
    BY SMT DEF Init, UnusedTicketSurvives
  <1> QED
    BY <1>1, InitType, NextType, NextUnused, PTL DEF Spec

\* No write, however late and however stale, undoes the consumed mark.
THEOREM MarksAreFinal == Spec => MarkIsFinal
  <1>1. TicketInv /\ [Next]_vars =>
          [\A t \in Tickets : store[t] = "consumed" => store'[t] # "fresh"]_vars
    BY NextMark DEF TicketInv
  <1> QED
    BY <1>1, Inductive, PTL DEF Spec, MarkIsFinal
----------------------------------------------------------------------------
(* The manager implements the one-time ticket.                             *)

Issued == {t \in Tickets : issue[t] = "known"}
ClosedSet == {t \in Tickets : Closed(t)}

\* Nothing the abstract specification speaks of has changed.
Stutters ==
    Issued' = Issued /\ ClosedSet' = ClosedSet /\ AbsAim' = AbsAim /\ AbsState' = AbsState

USE DEF Abs!vars, Abs!Next, Abs!Issue, Abs!Close, Abs!Begin, Abs!Grant, Abs!Deny

\* A step that changes none of them is a stuttering step of the specification.
LEMMA AbsStutter == Stutters => [Abs!Next]_(Abs!vars)
  BY DEF Stutters, Issued, ClosedSet

\* The initial state is the abstract one.
LEMMA AbsInit == Init => Abs!Init
  BY SMT DEF Init, Abs!Init, Abs!None, None, Closed, Closing, AbsAim, AbsState

\* The abstract state, read and updated one call at a time.
LEMMA StateUpdate ==
    ASSUME NEW c \in Calls, NEW v, AbsState'[c] = v,
           \A d \in Calls \ {c} : AbsState'[d] = AbsState[d]
    PROVE  AbsState' = [AbsState EXCEPT ![c] = v]
  <1>1. AbsState = [d \in Calls |-> AbsState[d]]
    BY Zenon DEF AbsState
  <1>2. AbsState' = [d \in Calls |-> AbsState'[d]]
    BY Zenon DEF AbsState
  <1> QED
    BY <1>1, <1>2, SMT

\* So are the abstract targets.
LEMMA AimUpdate ==
    ASSUME NEW c \in Calls, NEW v, AbsAim'[c] = v,
           \A d \in Calls \ {c} : AbsAim'[d] = AbsAim[d]
    PROVE  AbsAim' = [AbsAim EXCEPT ![c] = v]
  <1>1. AbsAim = [d \in Calls |-> AbsAim[d]]
    BY Zenon DEF AbsAim
  <1>2. AbsAim' = [d \in Calls |-> AbsAim'[d]]
    BY Zenon DEF AbsAim
  <1> QED
    BY <1>1, <1>2, SMT

\* Every step of the manager is a step of the one-time ticket or none of its.
LEMMA AbsNext ==
    ASSUME \A c, d \in Calls : ManagerOf[c] = ManagerOf[d],
           TicketInv, [Next]_vars
    PROVE  [Abs!Next]_(Abs!vars)
  <1> USE ManagerAssumption, StoreAssumption, NoneAssumption
      DEF TicketInv, TypeInv, TypeOK, Shape, None, Ops, Copies, Pcs, Results, Redeems,
          Closing, Closed, AbsAim, AbsState
  <1>1. ASSUME NEW t \in Tickets, IssueTicket(t) \/ IssueStep(t)
        PROVE  [Abs!Next]_(Abs!vars)
    <2>1. ClosedSet' = ClosedSet /\ AbsAim' = AbsAim /\ AbsState' = AbsState
      BY <1>1 DEF IssueTicket, IssueStep, IssueStored, IssueFails, ClosedSet
    <2>2. CASE issue'[t] = "known"
      <3>1. t \notin Issued /\ Issued' = Issued \cup {t}
        BY <1>1, <2>2, SMT DEF IssueTicket, IssueStep, IssueStored, IssueFails, Issued
      <3> QED
        BY <2>1, <3>1, Zenon DEF Issued, ClosedSet
    <2>3. CASE issue'[t] # "known"
      <3>1. Issued' = Issued
        BY <1>1, <2>3, SMT DEF IssueTicket, IssueStep, IssueStored, IssueFails, Issued
      <3> QED
        BY <2>1, <3>1, AbsStutter DEF Stutters
    <2> QED
      BY <2>2, <2>3
  <1>2. ASSUME NEW t \in Tickets, Expire(t) PROVE [Abs!Next]_(Abs!vars)
    <2>1. Issued' = Issued /\ AbsAim' = AbsAim /\ AbsState' = AbsState
      BY <1>2 DEF Expire, Issued
    <2>2. ClosedSet' = ClosedSet \cup {t} /\ t \in Issued
      BY <1>2, SMT DEF Expire, ClosedSet, Issued
    <2>3. CASE t \in ClosedSet
      <3>1. ClosedSet' = ClosedSet
        BY <2>2, <2>3
      <3> QED
        BY <2>1, <3>1, AbsStutter DEF Stutters
    <2>4. CASE t \notin ClosedSet
      BY <2>1, <2>2, <2>4, Zenon DEF Issued, ClosedSet
    <2> QED
      BY <2>3, <2>4
  <1>3. ASSUME NEW c \in Calls, NEW t \in Tickets,
               ValidateTicket(c, t) \/ ConsumeTicket(c, t) \/ RevokeTicket(c, t)
        PROVE  [Abs!Next]_(Abs!vars)
    <2>1. Issued' = Issued /\ ClosedSet' = ClosedSet
      BY <1>3, SMT DEF ValidateTicket, ConsumeTicket, RevokeTicket, Begin, Issued, ClosedSet
    <2>2. AbsAim' = AbsAim /\ AbsState' = AbsState
      BY <1>3, SMT DEF ValidateTicket, ConsumeTicket, RevokeTicket, Begin, Lookup
    <2> QED
      BY <2>1, <2>2, AbsStutter DEF Stutters
  <1>4. ASSUME NEW c \in Calls, NEW t \in Tickets, ValidateAndConsume(c, t)
        PROVE  [Abs!Next]_(Abs!vars)
    <2>1. Issued' = Issued /\ ClosedSet' = ClosedSet /\ t \in Issued
      BY <1>4, SMT DEF ValidateAndConsume, Begin, Issued, ClosedSet
    <2>2. /\ AbsState[c] = "idle"
          /\ AbsAim'[c] = t
          /\ AbsState'[c] = IF t \in ClosedSet THEN "doomed" ELSE "pending"
      <3>1. t \in ClosedSet <=> c \in doomed'
        BY <1>4, SMT DEF ValidateAndConsume, Begin, ClosedSet, StoreInv, DoomInv
      <3>2. op[c] = "none" /\ op'[c] = "redeem" /\ res'[c] = "none" /\ pc'[c] # "done"
        BY <1>4, SMT DEF ValidateAndConsume, Begin, EnterLock, Lookup
      <3>3. aim'[c] = t
        BY <1>4, SMT DEF ValidateAndConsume, Begin
      <3> QED
        BY <3>1, <3>2, <3>3, SMT
    <2>3. \A d \in Calls \ {c} : AbsAim'[d] = AbsAim[d] /\ AbsState'[d] = AbsState[d]
      BY <1>4, SMT DEF ValidateAndConsume, Begin, EnterLock, Lookup
    <2>4. AbsAim' = [AbsAim EXCEPT ![c] = t]
      BY <2>2, <2>3, AimUpdate
    <2>5. AbsState' = [AbsState EXCEPT ![c] = IF t \in ClosedSet THEN "doomed" ELSE "pending"]
      BY <2>2, <2>3, StateUpdate
    <2> QED
      BY <2>1, <2>2, <2>4, <2>5, Zenon DEF Issued, ClosedSet
  <1>5. ASSUME NEW c \in Calls,
               \/ Resume(c) \/ Check(c) \/ MarkRedeemed(c) \/ MarkTaken(c)
               \/ StoreGet(c) \/ StoreWrite(c) \/ StoreRejects(c)
        PROVE  [Abs!Next]_(Abs!vars)
    <2>1. Issued' = Issued /\ AbsAim' = AbsAim
      BY <1>5 DEF Resume, Check, MarkRedeemed, MarkTaken, StoreGet, StoreWrite, StoreRejects,
                  Issued
    <2>2. ClosedSet' = ClosedSet
      BY <1>5, SMT DEF Resume, Check, Verdict, MarkRedeemed, MarkTaken, StoreGet, StoreWrite,
                       StoreRejects, ClosedSet
    <2>3. AbsState' = AbsState
      BY <1>5, SMT DEF Resume, EnterLock, Lookup, Check, Verdict, MarkRedeemed, MarkTaken,
                       MarkConsumed, StoreGet, StoreWrite, StoreRejects
    <2> QED
      BY <2>1, <2>2, <2>3, AbsStutter DEF Stutters
  <1>6. ASSUME NEW c \in Calls, Settle(c) PROVE [Abs!Next]_(Abs!vars)
    <2>1. Issued' = Issued /\ AbsAim' = AbsAim /\ aim[c] \in Issued
      BY <1>6, SMT DEF Settle, Issued
    <2>2. ClosedSet' = ClosedSet \cup {aim[c]}
      BY <1>6, SMT DEF Settle, Outcome, ClosedSet
    <2>3. CASE Redeems(c)
      <3>1. AbsState[c] = "pending" /\ AbsAim[c] = aim[c]
        BY <1>6, <2>3, SMT DEF Settle, StoreInv, DoomInv
      <3>2. AbsState' = [AbsState EXCEPT ![c] = "granted"]
        <4>1. AbsState'[c] = "granted"
          BY <1>6, <2>3, SMT DEF Settle, Outcome
        <4>2. \A d \in Calls \ {c} : AbsState'[d] = AbsState[d]
          BY <1>6, <2>3, SMT DEF Settle, Outcome
        <4> QED
          BY <4>1, <4>2, StateUpdate
      <3>3. \A d \in Calls : AbsAim[d] = AbsAim[c] => AbsState[d] # "granted"
        BY <1>6, <2>3, SMT DEF Settle, OnceInv, Redeemed
      <3> QED
        BY <2>1, <2>2, <3>1, <3>2, <3>3, Zenon DEF Issued, ClosedSet
    <2>4. CASE ~Redeems(c)
      <3>1. AbsState' = AbsState
        BY <1>6, <2>4, SMT DEF Settle, Outcome
      <3>2. CASE aim[c] \in ClosedSet
        <4>1. ClosedSet' = ClosedSet
          BY <2>2, <3>2
        <4> QED
          BY <2>1, <3>1, <4>1, AbsStutter DEF Stutters
      <3>3. CASE aim[c] \notin ClosedSet
        BY <2>1, <2>2, <3>1, <3>3, Zenon DEF Issued, ClosedSet
      <3> QED
        BY <3>2, <3>3
    <2> QED
      BY <2>3, <2>4
  <1>7. ASSUME NEW c \in Calls, Reject(c) PROVE [Abs!Next]_(Abs!vars)
    <2>1. Issued' = Issued /\ ClosedSet' = ClosedSet /\ AbsAim' = AbsAim
      BY <1>7 DEF Reject, Issued, ClosedSet
    <2>2. AbsState[c] \in {"pending", "doomed"}
      BY <1>7, SMT DEF Reject
    <2>3. AbsState' = [AbsState EXCEPT ![c] = "denied"]
      <3>1. AbsState'[c] = "denied"
        BY <1>7, SMT DEF Reject
      <3>2. \A d \in Calls \ {c} : AbsState'[d] = AbsState[d]
        BY <1>7, SMT DEF Reject
      <3> QED
        BY <3>1, <3>2, StateUpdate
    <2> QED
      BY <2>1, <2>2, <2>3, Zenon DEF Issued, ClosedSet
  <1>8. CASE Sweep \/ Destroy \/ UNCHANGED vars
    <2>1. Stutters
      BY <1>8 DEF Sweep, Destroy, Stutters, Issued, ClosedSet
    <2> QED
      BY <2>1, AbsStutter
  <1> QED
    BY <1>1, <1>2, <1>3, <1>4, <1>5, <1>6, <1>7, <1>8, Zenon DEF Next, BeginStep, CallStep

\* One manager, over any store, implements the one-time ticket.
THEOREM Refinement ==
    ASSUME \A c, d \in Calls : ManagerOf[c] = ManagerOf[d]
    PROVE  Spec => OneTime
  <1>1. TicketInv /\ [Next]_vars => [Abs!Next]_(Abs!vars)
    BY AbsNext
  <1> QED
    BY <1>1, AbsInit, Inductive, PTL DEF Spec, OneTime, Abs!Spec
============================================================================
