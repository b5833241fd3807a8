------------------------------ MODULE Induction ------------------------------
(***************************************************************************)
(* Induction without an operator parameter: a proof by induction takes the *)
(* least counterexample, the minimal element of a well-founded relation,   *)
(* and a recursive function over an interval exists.                       *)
(***************************************************************************)
EXTENDS Integers, Sequences, WellFoundedInduction, SequenceTheorems, TLAPS

NatLess == {pair \in Nat \X Nat : pair[1] < pair[2]}

\* A non-empty set of naturals has a least member.
LEMMA LeastNumber ==
    ASSUME NEW T, T \subseteq Nat, T # {}
    PROVE  \E x \in T : \A y \in T : x <= y
<1>1. IsWellFoundedOn(NatLess, Nat)
  BY NatLessThanWellFounded DEF OpToRel, NatLess
<1>2. PICK x \in T : \A y \in T : ~ (<<y, x>> \in NatLess)
  BY <1>1, WFMin
<1>3. ASSUME NEW y \in T PROVE x <= y
  <2>1. x \in Nat /\ y \in Nat
    OBVIOUS
  <2>2. y < x => <<y, x>> \in NatLess
    BY <2>1 DEF NatLess
  <2> QED
    BY <1>2, <2>1, <2>2
<1> QED
  BY <1>3

\* Induction on a number: a set of naturals with 0, and with each member its
\* successor, is the set of all.
LEMMA Induct ==
    ASSUME NEW T, 0 \in T, \A n \in Nat : n \in T => n + 1 \in T
    PROVE  Nat \subseteq T
<1> SUFFICES ASSUME NEW x \in Nat, x \notin T PROVE FALSE
  OBVIOUS
<1> DEFINE Without == {n \in Nat : n \notin T}
<1>1. PICK n \in Without : \A y \in Without : n <= y
  <2>1. Without \subseteq Nat /\ x \in Without
    OBVIOUS
  <2> HIDE DEF Without
  <2> QED
    BY <2>1, LeastNumber
<1>2. n \in Nat /\ n # 0 /\ n \notin T
  OBVIOUS
<1>3. n - 1 \in Nat /\ n - 1 \notin Without
  BY <1>1, <1>2
<1>4. n - 1 \in T
  BY <1>3
<1>5. (n - 1) + 1 \in T
  BY <1>3, <1>4
<1> QED
  BY <1>2, <1>5

\* A function on 1..n + 1 is defined by recursion on later places: its value
\* at k is a function of its value at next[k], which comes after k.
Forward(next, n) == \A k \in 1..n : next[k] \in (k + 1)..(n + 1)
StepsIn(step, n, V) == \A k \in 1..n : \A v \in V : step[k][v] \in V
Recurs(f, n, base, step, next) ==
    f[n + 1] = base /\ \A k \in 1..n : f[k] = step[k][f[next[k]]]

LEMMA Recursion ==
    ASSUME NEW n \in Nat, NEW V, NEW next, NEW step, NEW base \in V,
           Forward(next, n), StepsIn(step, n, V)
    PROVE  \E f \in [1..(n + 1) -> V] : Recurs(f, n, base, step, next)
<1> USE DEF Forward, StepsIn
<1> DEFINE Solves(f, m) ==
               /\ f \in [(n + 1 - m)..(n + 1) -> V]
               /\ f[n + 1] = base
               /\ \A k \in (n + 1 - m)..n : f[k] = step[k][f[next[k]]]
           T == {m \in Nat : m <= n => \E f : Solves(f, m)}
<1>1. 0 \in T
  <2> DEFINE f == [k \in (n + 1)..(n + 1) |-> base]
  <2>1. Solves(f, 0)
    OBVIOUS
  <2> QED
    BY <2>1
<1>2. ASSUME NEW m \in Nat, m \in T PROVE m + 1 \in T
  <2> SUFFICES ASSUME m + 1 <= n PROVE \E g : Solves(g, m + 1)
    OBVIOUS
  <2>1. PICK f : Solves(f, m)
    <3>1. m <= n
      OBVIOUS
    <3> HIDE DEF Solves
    <3> QED
      BY <1>2, <3>1
  <2> DEFINE p == n - m
             g == [k \in p..(n + 1) |-> IF k = p THEN step[p][f[next[p]]] ELSE f[k]]
  <2>2. p \in 1..n /\ n + 1 - m = p + 1 /\ n + 1 - (m + 1) = p
    OBVIOUS
  <2>3. f \in [(p + 1)..(n + 1) -> V] /\ f[n + 1] = base
        /\ \A k \in (p + 1)..n : f[k] = step[k][f[next[k]]]
    BY <2>1, <2>2
  <2>4. next[p] \in (p + 1)..(n + 1)
    BY <2>2
  <2>5. step[p][f[next[p]]] \in V
    BY <2>2, <2>3, <2>4
  <2> HIDE DEF p
  <2>6. g \in [p..(n + 1) -> V]
    BY <2>2, <2>3, <2>5
  <2>7. g[n + 1] = base
    BY <2>2, <2>3
  <2>8. ASSUME NEW k \in p..n PROVE g[k] = step[k][g[next[k]]]
    <3>1. next[k] \in (k + 1)..(n + 1) /\ next[k] # p /\ next[k] \in p..(n + 1)
      BY <2>2
    <3>2. g[next[k]] = f[next[k]]
      BY <3>1
    <3>3. CASE k = p
      BY <3>2, <3>3, <2>2
    <3>4. CASE k # p
      BY <3>2, <3>4, <2>2, <2>3
    <3> QED
      BY <3>3, <3>4
  <2>9. Solves(g, m + 1)
    BY <2>2, <2>6, <2>7, <2>8
  <2> QED
    BY <2>9
<1>3. n \in T
  <2> HIDE DEF T
  <2> QED
    BY <1>1, <1>2, Induct
<1>4. PICK f : Solves(f, n)
  BY <1>3
<1>5. f \in [1..(n + 1) -> V] /\ f[n + 1] = base /\ \A k \in 1..n : f[k] = step[k][f[next[k]]]
  BY <1>4
<1> QED
  BY <1>5 DEF Recurs

\* Induction on a sequence, by its last element.
LEMMA SeqInduct ==
    ASSUME NEW S, NEW T, <<>> \in T, \A s \in Seq(S) : \A x \in S : s \in T => Append(s, x) \in T
    PROVE  Seq(S) \subseteq T
<1> DEFINE N == {n \in Nat : \A s \in Seq(S) : Len(s) = n => s \in T}
<1>1. 0 \in N
  <2>1. \A s \in Seq(S) : Len(s) = 0 => s = <<>>
    BY EmptySeq
  <2> QED
    BY <2>1
<1>2. ASSUME NEW n \in Nat, n \in N PROVE n + 1 \in N
  <2> SUFFICES ASSUME NEW s \in Seq(S), Len(s) = n + 1 PROVE s \in T
    OBVIOUS
  <2>1. s # <<>>
    BY EmptySeq
  <2>2. PICK t \in Seq(S), x \in S : s = Append(t, x)
    BY <2>1, SequenceEmptyOrAppend
  <2>3. Len(t) \in Nat /\ Len(s) = Len(t) + 1
    BY <2>2, AppendProperties, LenProperties
  <2>4. t \in T
    BY <1>2, <2>3
  <2> QED
    BY <2>2, <2>4
<1>3. Nat \subseteq N
  <2> HIDE DEF N
  <2> QED
    BY <1>1, <1>2, Induct
<1> QED
  BY <1>3, LenProperties

\* Induction on a sequence, by its first element.
LEMMA SeqInductFront ==
    ASSUME NEW S, NEW T, <<>> \in T, \A s \in Seq(S) : \A x \in S : s \in T => <<x>> \o s \in T
    PROVE  Seq(S) \subseteq T
<1> DEFINE N == {n \in Nat : \A s \in Seq(S) : Len(s) = n => s \in T}
<1>1. 0 \in N
  <2>1. \A s \in Seq(S) : Len(s) = 0 => s = <<>>
    BY EmptySeq
  <2> QED
    BY <2>1
<1>2. ASSUME NEW n \in Nat, n \in N PROVE n + 1 \in N
  <2> SUFFICES ASSUME NEW s \in Seq(S), Len(s) = n + 1 PROVE s \in T
    OBVIOUS
  <2>1. s # <<>>
    BY EmptySeq
  <2>2. Head(s) \in S /\ Tail(s) \in Seq(S) /\ Len(Tail(s)) = n
    BY <2>1, HeadTailProperties
  <2>3. s = <<Head(s)>> \o Tail(s)
    <3>1. s = SubSeq(s, 1, Len(s)) /\ Tail(s) = SubSeq(s, 2, Len(s)) /\ Head(s) = s[1]
      BY <2>1, SubSeqFull, TailIsSubSeq
    <3>2. SubSeq(s, 1, Len(s)) = <<s[1]>> \o SubSeq(s, 1 + 1, Len(s))
      BY SubSeqRecursiveFirst
    <3> QED
      BY <3>1, <3>2
  <2>4. Tail(s) \in T
    BY <1>2, <2>2
  <2> QED
    BY <2>2, <2>3, <2>4
<1>3. Nat \subseteq N
  <2> HIDE DEF N
  <2> QED
    BY <1>1, <1>2, Induct
<1> QED
  BY <1>3, LenProperties
=============================================================================
