---------------------------- MODULE ParserProofs ----------------------------
(***************************************************************************)
(* Theorems about Parser, for any texts without a `;`, any number of       *)
(* instructions and any limit of the buffer.                               *)
(***************************************************************************)
EXTENDS Parser, Induction

----------------------------------------------------------------------------
(* FlattenSeq.                                                             *)

Associative(s, t, u) == (s \o t) \o u = s \o (t \o u)

LEMMA ConcatAt ==
    ASSUME NEW S, NEW s \in Seq(S), NEW t \in Seq(S), NEW u \in Seq(S)
    PROVE  Associative(s, t, u)
BY ConcatAssociative DEF Associative

\* What FlattenSeq computes on its way.
Flattens(f, seqs) ==
    f = [i \in 1..Len(seqs) |-> IF i = 1 THEN seqs[i] ELSE f[i - 1] \o seqs[i]]

LEMMA FlattensAt ==
    ASSUME NEW seqs, Len(seqs) \in Nat, NEW f, Flattens(f, seqs)
    PROVE  /\ DOMAIN f = 1..Len(seqs)
           /\ f = [i \in DOMAIN f |-> f[i]]
           /\ 1 \in DOMAIN f => f[1] = seqs[1]
           /\ \A i \in Nat \ {0} : i + 1 \in DOMAIN f => f[i + 1] = f[i] \o seqs[i + 1]
<1>1. DOMAIN f = 1..Len(seqs) /\ f = [i \in DOMAIN f |-> f[i]]
  BY DEF Flattens
<1>2. \A i \in DOMAIN f : f[i] = IF i = 1 THEN seqs[i] ELSE f[i - 1] \o seqs[i]
  BY DEF Flattens
<1>3. ASSUME NEW i \in Nat \ {0}, i + 1 \in DOMAIN f
      PROVE  f[i + 1] = f[i] \o seqs[i + 1]
  <2>1. i + 1 # 1 /\ (i + 1) - 1 = i
    OBVIOUS
  <2> QED
    BY <1>2, <1>3, <2>1
<1> QED
  BY <1>1, <1>2, <1>3

LEMMA FlattensPoint ==
    ASSUME NEW seqs, NEW f, Flattens(f, seqs)
    PROVE  \A i \in DOMAIN f : f[i] = IF i = 1 THEN seqs[i] ELSE f[i - 1] \o seqs[i]
  BY DEF Flattens

LEMMA FlattensExists ==
    ASSUME NEW S, NEW seqs \in Seq(Seq(S))
    PROVE  \E f \in [1..Len(seqs) -> Seq(S)] : Flattens(f, seqs)
<1> DEFINE n == Len(seqs)
           Upto(f, m) == /\ f \in [1..m -> Seq(S)]
                         /\ \A i \in 1..m : f[i] = IF i = 1 THEN seqs[i] ELSE f[i - 1] \o seqs[i]
           T == {m \in Nat : m <= n => \E f : Upto(f, m)}
<1>0. n \in Nat /\ \A i \in 1..n : seqs[i] \in Seq(S)
  OBVIOUS
<1>1. 0 \in T
  <2>1. Upto([i \in 1..0 |-> <<>>], 0)
    OBVIOUS
  <2> QED
    BY <2>1
<1>2. ASSUME NEW m \in Nat, m \in T PROVE m + 1 \in T
  <2> HIDE DEF Upto
  <2> SUFFICES ASSUME m + 1 <= n PROVE \E g : Upto(g, m + 1)
    OBVIOUS
  <2>1. PICK f : Upto(f, m)
    BY <1>0, <1>2
  <2> USE DEF Upto
  <2> DEFINE last == IF m = 0 THEN seqs[1] ELSE f[m] \o seqs[m + 1]
             g == [i \in 1..(m + 1) |-> IF i = m + 1 THEN last ELSE f[i]]
  <2>2. last \in Seq(S)
    <3>1. CASE m = 0
      BY <1>0, <3>1
    <3>2. CASE m # 0
      <4>1. f[m] \in Seq(S) /\ seqs[m + 1] \in Seq(S)
        BY <1>0, <2>1, <3>2
      <4> QED
        BY <3>2, <4>1, ConcatProperties
    <3> QED
      BY <3>1, <3>2
  <2> HIDE DEF last
  <2>3. g \in [1..(m + 1) -> Seq(S)]
    BY <2>1, <2>2
  <2>4. ASSUME NEW i \in 1..(m + 1)
        PROVE  g[i] = IF i = 1 THEN seqs[i] ELSE g[i - 1] \o seqs[i]
    <3>1. CASE i = m + 1
      BY <3>1 DEF last
    <3>2. CASE i # m + 1
      <4>1. i \in 1..m /\ (i # 1 => i - 1 \in 1..m /\ i - 1 # m + 1)
        BY <3>2
      <4>2. f[i] = IF i = 1 THEN seqs[i] ELSE f[i - 1] \o seqs[i]
        BY <2>1, <4>1
      <4>3. g[i] = f[i] /\ (i # 1 => g[i - 1] = f[i - 1])
        BY <3>2, <4>1
      <4> QED
        BY <4>2, <4>3
    <3> QED
      BY <3>1, <3>2
  <2>5. Upto(g, m + 1)
    BY <2>3, <2>4
  <2> QED
    BY <2>5
<1>3. n \in T
  <2> HIDE DEF T
  <2> QED
    BY <1>0, <1>1, <1>2, Induct
<1>4. PICK f : Upto(f, n)
  <2> HIDE DEF Upto
  <2> QED
    BY <1>0, <1>3
<1>5. Flattens(f, seqs)
  BY <1>4 DEF Flattens
<1> QED
  BY <1>4, <1>5

LEMMA FlattensUnique ==
    ASSUME NEW seqs, Len(seqs) \in Nat, NEW f, NEW g, Flattens(f, seqs), Flattens(g, seqs)
    PROVE  f = g
<1> DEFINE n == Len(seqs)
           T == {m \in Nat : m \in 1..n => f[m] = g[m]}
<1>1. /\ DOMAIN f = 1..n /\ f = [i \in DOMAIN f |-> f[i]]
      /\ DOMAIN g = 1..n /\ g = [i \in DOMAIN g |-> g[i]]
  BY FlattensAt
<1>a. /\ 1 \in DOMAIN f => f[1] = seqs[1]
      /\ \A i \in Nat \ {0} : i + 1 \in DOMAIN f => f[i + 1] = f[i] \o seqs[i + 1]
  BY FlattensAt
<1>b. /\ 1 \in DOMAIN g => g[1] = seqs[1]
      /\ \A i \in Nat \ {0} : i + 1 \in DOMAIN g => g[i + 1] = g[i] \o seqs[i + 1]
  BY FlattensAt
<1> HIDE DEF Flattens
<1>2. 0 \in T
  OBVIOUS
<1>3. ASSUME NEW m \in Nat, m \in T PROVE m + 1 \in T
  <2> SUFFICES ASSUME m + 1 \in 1..n PROVE f[m + 1] = g[m + 1]
    OBVIOUS
  <2>1. CASE m = 0
    BY <1>1, <1>a, <1>b, <2>1
  <2>2. CASE m # 0
    <3>1. m \in 1..n /\ f[m] = g[m]
      BY <1>3, <2>2
    <3>2. f[m + 1] = f[m] \o seqs[m + 1] /\ g[m + 1] = g[m] \o seqs[m + 1]
      BY <1>1, <1>a, <1>b, <2>2
    <3> QED
      BY <3>1, <3>2
  <2> QED
    BY <2>1, <2>2
<1>4. \A m \in 1..n : m \in T
  <2> HIDE DEF T
  <2>1. Nat \subseteq T
    BY <1>2, <1>3, Induct
  <2> QED
    BY <2>1
<1>5. \A m \in 1..n : f[m] = g[m]
  BY <1>4
<1> QED
  BY <1>1, <1>5

LEMMA FlattenIs ==
    ASSUME NEW seqs, Len(seqs) \in Nat \ {0}, NEW f, Flattens(f, seqs)
    PROVE  FlattenSeq(seqs) = f[Len(seqs)]
<1> DEFINE h == CHOOSE g : Flattens(g, seqs)
<1>1. FlattenSeq(seqs) = h[Len(seqs)]
  BY DEF FlattenSeq, Flattens
<1>2. Flattens(h, seqs)
  OBVIOUS
<1> HIDE DEF h
<1>3. h = f
  BY <1>2, FlattensUnique
<1> QED
  BY <1>1, <1>3

\* Flattening goes on at the end, one sequence at a time.
LEMMA FlattenAppend ==
    ASSUME NEW S, NEW seqs \in Seq(Seq(S)), NEW x \in Seq(S)
    PROVE  /\ FlattenSeq(seqs) \in Seq(S)
           /\ FlattenSeq(Append(seqs, x)) = FlattenSeq(seqs) \o x
<1> DEFINE n == Len(seqs)
           more == Append(seqs, x)
<1>1. /\ n \in Nat /\ more \in Seq(Seq(S)) /\ Len(more) = n + 1
      /\ more[n + 1] = x /\ \A i \in 1..n : more[i] = seqs[i] /\ seqs[i] \in Seq(S)
  OBVIOUS
<1>2. PICK f \in [1..n -> Seq(S)] : Flattens(f, seqs)
  BY FlattensExists
<1>3. PICK g \in [1..(n + 1) -> Seq(S)] : Flattens(g, more)
  BY <1>1, FlattensExists
<1> HIDE DEF more
<1>4. FlattenSeq(more) = g[n + 1]
  BY <1>1, <1>3, FlattenIs
<1>g. /\ g = [i \in 1..(n + 1) |-> g[i]] /\ DOMAIN g = 1..(n + 1)
      /\ g[1] = more[1]
      /\ \A i \in Nat \ {0} : i + 1 \in DOMAIN g => g[i + 1] = g[i] \o more[i + 1]
  <2>1. Flattens(g, more) /\ Len(more) \in Nat /\ DOMAIN g = 1..(n + 1)
    BY <1>1, <1>3
  <2>2. 1 \in DOMAIN g
    BY <1>1, <2>1
  <2> HIDE DEF n
  <2> QED
    BY <2>1, <2>2, FlattensAt
<1>5. CASE n = 0
  <2>1. FlattenSeq(seqs) = <<>>
    BY <1>5 DEF FlattenSeq
  <2>2. g[n + 1] = x
    BY <1>1, <1>3, <1>5 DEF Flattens
  <2> QED
    BY <1>4, <2>1, <2>2, ConcatEmptySeq, EmptySeq DEF more
<1>6. CASE n # 0
  <2>1. FlattenSeq(seqs) = f[n]
    BY <1>1, <1>2, <1>6, FlattenIs
  <2> DEFINE h == [i \in 1..n |-> g[i]]
  <2>2. Flattens(h, seqs)
    <3>1. ASSUME NEW i \in 1..n
          PROVE  h[i] = IF i = 1 THEN seqs[i] ELSE h[i - 1] \o seqs[i]
      <4>1. h[i] = g[i] /\ more[i] = seqs[i]
        BY <1>1
      <4>2. CASE i = 1
        BY <1>g, <4>1, <4>2
      <4>3. CASE i # 1
        <5>1. i - 1 \in Nat \ {0} /\ (i - 1) + 1 = i /\ i \in DOMAIN g /\ h[i - 1] = g[i - 1]
          BY <1>1, <1>g, <4>3
        <5>2. g[i] = g[i - 1] \o more[i]
          BY <1>g, <5>1
        <5> QED
          BY <4>1, <4>3, <5>1, <5>2
      <4> QED
        BY <4>2, <4>3
    <3> QED
      BY <3>1 DEF Flattens
  <2>3. h = f
    <3> HIDE DEF h
    <3> QED
      BY <1>1, <1>2, <2>2, FlattensUnique
  <2>4. g[n] = f[n]
    BY <1>1, <1>6, <2>3
  <2>5. g[n + 1] = g[n] \o x
    <3>1. n \in Nat \ {0} /\ n + 1 \in DOMAIN g
      BY <1>1, <1>6, <1>g
    <3> HIDE DEF n
    <3>2. g[n + 1] = g[n] \o more[n + 1]
      BY <1>g, <3>1
    <3> QED
      BY <1>1, <3>2
  <2> QED
    BY <1>1, <1>2, <1>4, <1>6, <2>1, <2>4, <2>5 DEF more
<1> QED
  BY <1>5, <1>6

LEMMA FlattenSingle ==
    ASSUME NEW S, NEW x \in Seq(S)
    PROVE  FlattenSeq(<<>>) = <<>> /\ FlattenSeq(<<x>>) = x
<1>1. FlattenSeq(<<>>) = <<>>
  BY DEF FlattenSeq
<1>2. <<>> \in Seq(Seq(S)) /\ Append(<<>>, x) = <<x>>
  OBVIOUS
<1>3. FlattenSeq(Append(<<>>, x)) = <<>> \o x
  BY <1>1, <1>2, FlattenAppend
<1> QED
  BY <1>1, <1>2, <1>3, ConcatEmptySeq

LEMMA FlattenConcat ==
    ASSUME NEW S, NEW s \in Seq(Seq(S)), NEW t \in Seq(Seq(S))
    PROVE  FlattenSeq(s \o t) = FlattenSeq(s) \o FlattenSeq(t)
<1> DEFINE T == {u \in Seq(Seq(S)) : FlattenSeq(s \o u) = FlattenSeq(s) \o FlattenSeq(u)}
<1>1. FlattenSeq(s) \in Seq(S)
  <2>1. <<>> \in Seq(S)
    BY EmptySeq
  <2> QED
    BY <2>1, FlattenAppend
<1>2. <<>> \in T
  <2>1. s \o <<>> = s /\ FlattenSeq(s) \o <<>> = FlattenSeq(s) /\ <<>> \in Seq(Seq(S))
    BY <1>1, ConcatEmptySeq, EmptySeq
  <2>2. <<>> \in Seq(S) /\ FlattenSeq(<<>>) = <<>>
    BY EmptySeq, FlattenSingle
  <2> QED
    BY <2>1, <2>2
<1>3. ASSUME NEW u \in Seq(Seq(S)), NEW x \in Seq(S), u \in T PROVE Append(u, x) \in T
  <2>1. Append(u, x) \in Seq(Seq(S)) /\ s \o u \in Seq(Seq(S))
        /\ s \o Append(u, x) = Append(s \o u, x)
    OBVIOUS
  <2>2. FlattenSeq(Append(s \o u, x)) = FlattenSeq(s \o u) \o x
    BY <2>1, FlattenAppend
  <2>3. FlattenSeq(Append(u, x)) = FlattenSeq(u) \o x /\ FlattenSeq(u) \in Seq(S)
    BY FlattenAppend
  <2>4. FlattenSeq(s \o u) = FlattenSeq(s) \o FlattenSeq(u)
    BY <1>3
  <2>5. (FlattenSeq(s) \o FlattenSeq(u)) \o x = FlattenSeq(s) \o (FlattenSeq(u) \o x)
    <3>1. Associative(FlattenSeq(s), FlattenSeq(u), x)
      BY <1>1, <2>3, ConcatAt
    <3> QED
      BY <3>1 DEF Associative
  <2>6. FlattenSeq(s \o Append(u, x)) = FlattenSeq(s) \o FlattenSeq(Append(u, x))
    BY <2>1, <2>2, <2>3, <2>4, <2>5
  <2> QED
    BY <2>1, <2>6
<1>4. Seq(Seq(S)) \subseteq T
  <2> HIDE DEF T
  <2> QED
    BY <1>2, <1>3, SeqInduct
<1> QED
  BY <1>4

\* Short concatenations, element by element.
LEMMA JoinTwo ==
    ASSUME NEW S, NEW x \in S, NEW y \in S
    PROVE  <<x>> \o <<y>> = <<x, y>>
<1> DEFINE a == <<x>>
           b == <<y>>
           d == <<x, y>>
<1>1. a \in Seq(S) /\ Len(a) = 1 /\ a[1] = x
  OBVIOUS
<1>2. b \in Seq(S) /\ Len(b) = 1 /\ b[1] = y
  OBVIOUS
<1>3. d \in Seq(S) /\ Len(d) = 2 /\ d[1] = x /\ d[2] = y
  OBVIOUS
<1> HIDE DEF a, b, d
<1>4. a \o b \in Seq(S) /\ Len(a \o b) = 2 /\ (a \o b)[1] = x /\ (a \o b)[2] = y
  <2>1. /\ a \o b \in Seq(S) /\ Len(a \o b) = Len(a) + Len(b)
        /\ \A i \in 1..(Len(a) + Len(b)) : (a \o b)[i] = IF i <= Len(a) THEN a[i] ELSE b[i - Len(a)]
    BY <1>1, <1>2, ConcatProperties
  <2>2. \A i \in 1..2 : (a \o b)[i] = IF i <= 1 THEN a[i] ELSE b[i - 1]
    BY <1>1, <1>2, <2>1
  <2> QED
  BY <1>1, <1>2, <2>1, <2>2
<1>5. a \o b = d
  BY <1>3, <1>4, SeqEqual
<1> QED
  BY <1>5 DEF a, b, d

LEMMA JoinThree ==
    ASSUME NEW S, NEW x \in S, NEW y \in S, NEW z \in S
    PROVE  <<x,y>> \o <<z>> = <<x, y,z>>
<1> DEFINE a == <<x,y>>
           b == <<z>>
           d == <<x, y,z>>
<1>1. a \in Seq(S) /\ Len(a) = 2 /\ a[1] = x /\ a[2] = y
  OBVIOUS
<1>2. b \in Seq(S) /\ Len(b) = 1 /\ b[1] = z
  OBVIOUS
<1>3. d \in Seq(S) /\ Len(d) = 3 /\ d[1] = x /\ d[2] = y /\ d[3] = z
  OBVIOUS
<1> HIDE DEF a, b, d
<1>4. a \o b \in Seq(S) /\ Len(a \o b) = 3 /\ (a \o b)[1] = x /\ (a \o b)[2] = y /\ (a \o b)[3] = z
  <2>1. /\ a \o b \in Seq(S) /\ Len(a \o b) = Len(a) + Len(b)
        /\ \A i \in 1..(Len(a) + Len(b)) : (a \o b)[i] = IF i <= Len(a) THEN a[i] ELSE b[i - Len(a)]
    BY <1>1, <1>2, ConcatProperties
  <2>2. \A i \in 1..3 : (a \o b)[i] = IF i <= 2 THEN a[i] ELSE b[i - 2]
    BY <1>1, <1>2, <2>1
  <2> QED
  BY <1>1, <1>2, <2>1, <2>2
<1>5. a \o b = d
  <2>1. \A i \in 1..3 : (a \o b)[i] = d[i] BY <1>3, <1>4
  <2> QED
  BY <1>3, <1>4, <2>1, SeqEqual
<1> QED
  BY <1>5 DEF a, b, d

LEMMA ConcatLetter ==
    ASSUME NEW S, NEW s \in Seq(S), NEW t \in Seq(S), NEW c \in S
    PROVE  (s \o t) \o <<c>> = s \o (t \o <<c>>)
<1>1. <<c>> \in Seq(S)
  OBVIOUS
<1>2. Associative(s, t, <<c>>)
  BY <1>1, ConcatAt
<1> QED
  BY <1>2 DEF Associative

LEMMA ConcatText ==
    ASSUME NEW s \in Seq(Int), NEW t \in Seq(Int), NEW d \in Seq(Int)
    PROVE  (s \o t) \o d = s \o (t \o d)
<1>1. Associative(s, t, d)
  BY ConcatAt
<1> QED
  BY <1>1 DEF Associative

\* A sequence after its first element.
LEMMA FirstAndRest ==
    ASSUME NEW S, NEW a \in Seq(S), Len(a) = 1, NEW t \in Seq(S)
    PROVE  /\ a \o t \in Seq(S)
           /\ Len(a \o t) = Len(t) + 1
           /\ (a \o t)[1] = a[1]
           /\ \A k \in 1..Len(t) : (a \o t)[k + 1] = t[k]
<1> DEFINE n == Len(t)
<1>1. n \in Nat
  BY LenProperties
<1>2. /\ a \o t \in Seq(S) /\ Len(a \o t) = Len(a) + Len(t)
      /\ \A k \in 1..(Len(a) + Len(t)) : (a \o t)[k] = IF k <= Len(a) THEN a[k] ELSE t[k - Len(a)]
  BY <1>1, ConcatProperties
<1> HIDE DEF n
<1>3. \A k \in 1..(1 + n) : (a \o t)[k] = IF k <= 1 THEN a[k] ELSE t[k - 1]
  BY <1>1, <1>2 DEF n
<1>4. ASSUME NEW k \in 1..n PROVE (a \o t)[k + 1] = t[k]
  <2> DEFINE p == k + 1
  <2>1. p \in 1..(1 + n) /\ ~(p <= 1) /\ p - 1 = k
    BY <1>1
  <2> HIDE DEF p
  <2>2. (a \o t)[p] = t[p - 1]
    BY <1>3, <2>1
  <2> QED
    BY <2>1, <2>2 DEF p
<1>5. (a \o t)[1] = a[1]
  <2>1. 1 \in 1..(1 + n)
    BY <1>1
  <2> QED
    BY <1>1, <1>3, <2>1
<1>6. Len(a \o t) = n + 1
  BY <1>1, <1>2 DEF n
<1> QED
  BY <1>2, <1>4, <1>5, <1>6 DEF n

\* The sequence a of one text before the texts t.
Heads(a, t) ==
    /\ a \o t \in Seq(Seq(Int))
    /\ Len(a \o t) = Len(t) + 1
    /\ (a \o t)[1] = a[1]
    /\ \A k \in 1..Len(t) : (a \o t)[k + 1] = t[k]

LEMMA HeadsText ==
    ASSUME NEW a \in Seq(Seq(Int)), Len(a) = 1, NEW t \in Seq(Seq(Int))
    PROVE  Heads(a, t)
<1> DEFINE S == Seq(Int)
<1>1. a \in Seq(S) /\ t \in Seq(S)
  OBVIOUS
<1> HIDE DEF S
<1>2. /\ a \o t \in Seq(S)
      /\ Len(a \o t) = Len(t) + 1
      /\ (a \o t)[1] = a[1]
      /\ \A k \in 1..Len(t) : (a \o t)[k + 1] = t[k]
  BY <1>1, FirstAndRest
<1> QED
  BY <1>2 DEF Heads, S

\* The two parts of a concatenation.
LEMMA SplitConcat ==
    ASSUME NEW S, NEW s \in Seq(S), NEW t \in Seq(S)
    PROVE  SubSeq(s \o t, 1, Len(s)) = s /\ SubSeq(s \o t, Len(s) + 1, Len(s \o t)) = t
<1> DEFINE m == Len(s)
           n == Len(t)
<1>1. /\ m \in Nat /\ n \in Nat /\ s \o t \in Seq(S) /\ Len(s \o t) = m + n
      /\ \A i \in 1..m : (s \o t)[i] = s[i]
      /\ \A i \in (m + 1)..(m + n) : (s \o t)[i] = t[i - m]
  BY ConcatProperties, LenProperties
<1>2. \A i \in 1..(m + n) : (s \o t)[i] \in S
  BY <1>1, ElementOfSeq
<1> DEFINE whole == s \o t
           front == SubSeq(whole, 1, m)
           back == SubSeq(whole, m + 1, m + n)
<1> HIDE DEF m, n, whole
<1>3. front \in Seq(S) /\ Len(front) = m /\ \A i \in 1..m : front[i] = s[i]
  <2>1. \A i \in 1..m : whole[i] \in S /\ whole[i] = s[i]
    BY <1>1, <1>2 DEF whole
  <2>2. \A i \in 1..m : whole[i] \in S
    BY <2>1
  <2>3. 1 \in Int /\ m \in Int
    BY <1>1
  <2>4. /\ front \in Seq(S) /\ Len(front) = IF 1 <= m THEN m - 1 + 1 ELSE 0
        /\ \A i \in 1..(m - 1 + 1) : front[i] = whole[1 + i - 1]
    BY <2>2, <2>3, SubSeqProperties
  <2> HIDE DEF front
  <2>5. Len(front) = m
    BY <1>1, <2>4
  <2>6. ASSUME NEW i \in 1..m PROVE front[i] = s[i]
    <3>1. i \in 1..(m - 1 + 1) /\ 1 + i - 1 = i
      BY <1>1
    <3>2. front[i] = whole[1 + i - 1]
      BY <2>4, <3>1
    <3> QED
      BY <2>1, <3>1, <3>2
  <2> QED
    BY <2>4, <2>5, <2>6
<1>4. back \in Seq(S) /\ Len(back) = n /\ \A i \in 1..n : back[i] = t[i]
  <2>1. \A i \in (m + 1)..(m + n) : whole[i] \in S /\ whole[i] = t[i - m]
    BY <1>1, <1>2 DEF whole
  <2>2. /\ back \in Seq(S) /\ Len(back) = IF m + 1 <= m + n THEN m + n - (m + 1) + 1 ELSE 0
        /\ \A i \in 1..(m + n - (m + 1) + 1) : back[i] = whole[m + 1 + i - 1]
    BY <1>1, <2>1, SubSeqProperties
  <2> HIDE DEF back
  <2>3. \A i \in 1..n : back[i] = whole[m + i]
    BY <1>1, <2>2
  <2>4. \A i \in 1..n : whole[m + i] = t[i]
    <3> SUFFICES ASSUME NEW i \in 1..n PROVE whole[m + i] = t[i]
      OBVIOUS
    <3>1. m + i \in (m + 1)..(m + n) /\ m + i - m = i
      BY <1>1
    <3>2. \A p \in (m + 1)..(m + n) : whole[p] = t[p - m]
      BY <2>1
    <3>3. whole[m + i] = t[i]
      <4> DEFINE p == m + i
      <4>1. p \in (m + 1)..(m + n)
        BY <3>1
      <4> HIDE DEF p
      <4>2. whole[p] = t[p - m]
        BY <3>2, <4>1
      <4>3. p = m + i /\ p - m = i
        BY <1>1 DEF p
      <4> QED
        BY <4>2, <4>3
    <3> QED
      BY <3>3
  <2> QED
    BY <1>1, <2>2, <2>3, <2>4
<1> HIDE DEF front, back
<1>5. front = s /\ back = t
  BY <1>3, <1>4, SeqEqual DEF m, n
<1> QED
  BY <1>1, <1>5 DEF front, back, whole, m, n

\* Where a sequence holds another one.
LEMMA SubSeqIs ==
    ASSUME NEW S, NEW s \in Seq(S), NEW t \in Seq(S), NEW p \in Nat, p + Len(t) <= Len(s),
           \A i \in 1..Len(t) : s[p + i] = t[i]
    PROVE  SubSeq(s, p + 1, p + Len(t)) = t
<1> DEFINE n == Len(t)
           a == p + 1
           b == p + n
           u == SubSeq(s, a, b)
<1>1. n \in Nat /\ Len(s) \in Nat
  BY LenProperties
<1>2. a \in Int /\ b \in Int /\ \A i \in a..b : i \in 1..Len(s)
  BY <1>1
<1>3. \A i \in 1..Len(s) : s[i] \in S
  BY ElementOfSeq
<1> HIDE DEF a, b, n
<1>4. \A i \in a..b : s[i] \in S
  BY <1>2, <1>3
<1>5. /\ u \in Seq(S) /\ Len(u) = IF a <= b THEN b - a + 1 ELSE 0
      /\ \A i \in 1..(b - a + 1) : u[i] = s[a + i - 1]
  BY <1>2, <1>4, SubSeqProperties
<1> HIDE DEF u
<1>6. Len(u) = n
  BY <1>1, <1>5 DEF a, b
<1>7. ASSUME NEW i \in 1..n PROVE u[i] = t[i]
  <2>1. i \in 1..(b - a + 1) /\ a + i - 1 = p + i /\ i \in 1..Len(t)
    BY <1>1 DEF a, b, n
  <2>2. u[i] = s[a + i - 1]
    BY <1>5, <2>1
  <2> QED
    BY <2>1, <2>2
<1>8. u = t
  BY <1>1, <1>5, <1>6, <1>7, SeqEqual DEF n
<1> QED
  BY <1>8 DEF u, a, b, n

\* The text a sequence stands for, f saying what each of its elements does.
Flat(f, s) == FlattenSeq([k \in DOMAIN s |-> f[s[k]]])

\* f gives a text for every element.
Emits(f, S, V) == \A x \in S : f[x] \in Seq(V)

LEMMA FlatTyped ==
    ASSUME NEW S, NEW V, NEW f, Emits(f, S, V), NEW s \in Seq(S)
    PROVE  Flat(f, s) \in Seq(V)
<1> DEFINE each == [k \in DOMAIN s |-> f[s[k]]]
<1>1. each \in Seq(Seq(V)) /\ <<>> \in Seq(V)
  BY DEF Emits
<1> HIDE DEF each
<1>2. FlattenSeq(each) \in Seq(V)
  BY <1>1, FlattenAppend
<1> QED
  BY <1>2 DEF Flat, each

LEMMA FlatEmpty ==
    ASSUME NEW f
    PROVE  Flat(f, <<>>) = <<>>
<1>1. [k \in DOMAIN <<>> |-> f[<<>>[k]]] = <<>>
  OBVIOUS
<1> QED
  BY <1>1 DEF Flat, FlattenSeq

LEMMA FlatSingle ==
    ASSUME NEW S, NEW V, NEW f, Emits(f, S, V), NEW x \in S
    PROVE  Flat(f, <<x>>) = f[x]
<1> DEFINE each(s) == [k \in DOMAIN s |-> f[s[k]]]
<1>1. each(<<x>>) = <<f[x]>> /\ f[x] \in Seq(V)
  BY DEF Emits
<1>2. FlattenSeq(<<f[x]>>) = f[x]
  BY <1>1, FlattenSingle
<1> QED
  BY <1>1, <1>2 DEF Flat

LEMMA FlatConcat ==
    ASSUME NEW S, NEW V, NEW f, Emits(f, S, V), NEW s \in Seq(S), NEW t \in Seq(S)
    PROVE  Flat(f, s \o t) = Flat(f, s) \o Flat(f, t)
<1> DEFINE each(u) == [k \in DOMAIN u |-> f[u[k]]]
<1>t. ASSUME NEW u \in Seq(S) PROVE each(u) \in Seq(Seq(V)) /\ Len(each(u)) = Len(u)
  <2>1. Len(u) \in Nat /\ DOMAIN u = 1..Len(u) /\ \A k \in 1..Len(u) : u[k] \in S
    BY LenProperties
  <2>2. \A k \in 1..Len(u) : f[u[k]] \in Seq(V)
    BY <2>1 DEF Emits
  <2>3. each(u) \in [1..Len(u) -> Seq(V)]
    BY <2>1, <2>2
  <2> QED
    BY <2>1, <2>3
<1>1. each(s \o t) = each(s) \o each(t)
  <2>1. each(s \o t) \in Seq(Seq(V)) /\ Len(each(s \o t)) = Len(s) + Len(t)
    BY <1>t, ConcatProperties
  <2>2. /\ each(s) \o each(t) \in Seq(Seq(V))
        /\ Len(each(s) \o each(t)) = Len(s) + Len(t)
        /\ \A i \in 1..(Len(s) + Len(t)) :
              (each(s) \o each(t))[i] = IF i <= Len(s) THEN each(s)[i] ELSE each(t)[i - Len(s)]
    <3> HIDE DEF each
    <3>1. /\ each(s) \in Seq(Seq(V)) /\ Len(each(s)) = Len(s)
          /\ each(t) \in Seq(Seq(V)) /\ Len(each(t)) = Len(t)
      BY <1>t
    <3>2. /\ each(s) \o each(t) \in Seq(Seq(V))
          /\ Len(each(s) \o each(t)) = Len(each(s)) + Len(each(t))
          /\ \A i \in 1..(Len(each(s)) + Len(each(t))) : (each(s) \o each(t))[i] =
                IF i <= Len(each(s)) THEN each(s)[i] ELSE each(t)[i - Len(each(s))]
      BY <3>1, ConcatProperties
    <3> QED
      BY <3>1, <3>2
  <2>3. ASSUME NEW i \in 1..(Len(s) + Len(t))
        PROVE  each(s \o t)[i] = (each(s) \o each(t))[i]
    <3>1. Len(s) \in Nat /\ Len(t) \in Nat /\ i \in DOMAIN (s \o t)
          /\ (s \o t)[i] = IF i <= Len(s) THEN s[i] ELSE t[i - Len(s)]
      BY ConcatProperties, LenProperties
    <3>2. each(s \o t)[i] = f[(s \o t)[i]]
      BY <3>1
    <3>3. i <= Len(s) => each(s)[i] = f[s[i]]
      BY <3>1
    <3>4. ~(i <= Len(s)) => each(t)[i - Len(s)] = f[t[i - Len(s)]]
      BY <3>1
    <3> HIDE DEF each
    <3> QED
      BY <2>2, <3>1, <3>2, <3>3, <3>4
  <2> HIDE DEF each
  <2> QED
    BY <2>1, <2>2, <2>3, SeqEqual
<1> HIDE DEF each
<1>2. FlattenSeq(each(s \o t)) = FlattenSeq(each(s)) \o FlattenSeq(each(t))
  BY <1>t, <1>1, FlattenConcat
<1> QED
  BY <1>2 DEF Flat, each

----------------------------------------------------------------------------
(* UTF-8.                                                                  *)

Byte == Int \X {1, 2, 3}

LEMMA BytesOf ==
    ASSUME NEW c \in Int
    PROVE  /\ Width(c) \in {1, 2, 3}
           /\ Bytes(c) \in Seq(Byte)
           /\ Len(Bytes(c)) = Width(c)
           /\ \A j \in 1..Width(c) : Bytes(c)[j] = <<c, j>>
<1>1. Width(c) \in {1, 2, 3}
  BY DEF Width
<1>2. \A j \in 1..Width(c) : <<c, j>> \in Byte
  BY <1>1 DEF Byte
<1> QED
  BY <1>1, <1>2 DEF Bytes

LEMMA EncodedProperties ==
    /\ Encoded(<<>>) = <<>>
    /\ \A s \in Seq(Int) : Encoded(s) \in Seq(Byte) /\ ByteLength(s) \in Nat
    /\ \A s, t \in Seq(Int) : Encoded(s \o t) = Encoded(s) \o Encoded(t)
    /\ \A s, t \in Seq(Int) : ByteLength(s \o t) = ByteLength(s) + ByteLength(t)
    /\ \A c \in Int : Encoded(<<c>>) = Bytes(c)
<1> DEFINE f == [c \in Int |-> Bytes(c)]
<1>1. \A c \in Int : f[c] = Bytes(c) /\ f[c] \in Seq(Byte)
  BY BytesOf
<1>2. ASSUME NEW s \in Seq(Int) PROVE Encoded(s) = Flat(f, s)
  <2>1. [k \in DOMAIN s |-> Bytes(s[k])] = [k \in DOMAIN s |-> f[s[k]]]
    BY <1>1
  <2> QED
    BY <2>1 DEF Encoded, Flat
<1>3. <<>> \in Seq(Int) /\ \A c \in Int : <<c>> \in Seq(Int)
  OBVIOUS
<1> HIDE DEF f
<1>e. Emits(f, Int, Byte)
  BY <1>1 DEF Emits
<1>4. \A s \in Seq(Int) : Flat(f, s) \in Seq(Byte)
  BY <1>e, FlatTyped
<1>5. \A s, t \in Seq(Int) : Flat(f, s \o t) = Flat(f, s) \o Flat(f, t)
  BY <1>e, FlatConcat
<1>6. Flat(f, <<>>) = <<>> /\ \A c \in Int : Flat(f, <<c>>) = f[c]
  BY <1>e, FlatEmpty, FlatSingle
<1>7. \A s, t \in Seq(Int) : s \o t \in Seq(Int)
  BY ConcatProperties
<1>8. \A s \in Seq(Int) : Encoded(s) \in Seq(Byte) /\ ByteLength(s) \in Nat
  BY <1>2, <1>4, LenProperties DEF ByteLength
<1>9. \A s, t \in Seq(Int) : Encoded(s \o t) = Encoded(s) \o Encoded(t)
  BY <1>2, <1>5, <1>7
<1>10. \A s, t \in Seq(Int) : ByteLength(s \o t) = ByteLength(s) + ByteLength(t)
  BY <1>8, <1>9, ConcatProperties DEF ByteLength
<1> QED
  BY <1>1, <1>2, <1>3, <1>6, <1>8, <1>9, <1>10

LEMMA DecodedTyped ==
    ASSUME NEW bytes \in Seq(Byte)
    PROVE  Decoded(bytes) \in Seq(Int)
<1> DEFINE each == [k \in DOMAIN bytes |-> DecodedAt(bytes, k)]
<1>1. \A k \in 1..Len(bytes) : bytes[k][1] \in Int
  BY ElementOfSeq DEF Byte
<1>2. \A k \in 1..Len(bytes) : DecodedAt(bytes, k) \in Seq(Int)
  <2> SUFFICES ASSUME NEW k \in 1..Len(bytes) PROVE DecodedAt(bytes, k) \in Seq(Int)
    OBVIOUS
  <2>1. <<Bad>> \in Seq(Int) /\ <<bytes[k][1]>> \in Seq(Int) /\ <<>> \in Seq(Int)
    BY <1>1 DEF Bad
  <2> QED
    BY <2>1 DEF DecodedAt
<1>3. each \in Seq(Seq(Int)) /\ <<>> \in Seq(Int)
  BY <1>2
<1> HIDE DEF each
<1>4. FlattenSeq(each) \in Seq(Int)
  BY <1>3, FlattenAppend
<1> QED
  BY <1>4 DEF Decoded, each

----------------------------------------------------------------------------
(* The end of the last instruction, and what comes after it.               *)

LEMMA LastEndProperties ==
    ASSUME NEW text \in Seq(Int)
    PROVE  /\ LastEnd(text) \in 0..Len(text)
           /\ LastEnd(text) = 0 <=> Ends(text) = {}
           /\ LastEnd(text) # 0 => LastEnd(text) \in Ends(text)
           /\ \A j \in Ends(text) : j <= LastEnd(text)
<1>1. Len(text) \in Nat /\ DOMAIN text = 1..Len(text) /\ Ends(text) \subseteq 1..Len(text)
  BY LenProperties DEF Ends
<1>2. CASE Ends(text) = {}
  BY <1>1, <1>2 DEF LastEnd
<1>3. CASE Ends(text) # {}
  <2> DEFINE T == {Len(text) - k : k \in Ends(text)}
  <2>1. T \subseteq Nat /\ T # {}
    BY <1>1, <1>3
  <2>2. PICK x \in T : \A y \in T : x <= y
    <3> HIDE DEF T
    <3> QED
      BY <2>1, LeastNumber
  <2>3. PICK k \in Ends(text) : x = Len(text) - k
    BY <2>2
  <2>4. ASSUME NEW j \in Ends(text) PROVE j <= k
    <3>1. Len(text) - j \in T
      OBVIOUS
    <3>2. x <= Len(text) - j
      BY <2>2, <3>1
    <3> HIDE DEF T
    <3> QED
      BY <1>1, <2>3, <3>2
  <2>5. LastEnd(text) \in Ends(text) /\ \A j \in Ends(text) : j <= LastEnd(text)
    BY <1>3, <2>4 DEF LastEnd
  <2> QED
    BY <1>1, <1>3, <2>5
<1> QED
  BY <1>2, <1>3

LEMMA RestProperties ==
    ASSUME NEW text \in Seq(Int)
    PROVE  /\ Rest(text) \in Seq(Int)
           /\ Ends(Rest(text)) = {}
           /\ ByteLength(Rest(text)) <= ByteLength(text)
<1> DEFINE l == LastEnd(text)
           n == Len(text)
           done == SubSeq(text, 1, l)
<1>1. n \in Nat /\ l \in 0..n /\ (\A j \in Ends(text) : j <= l) /\ DOMAIN text = 1..n
  BY LastEndProperties, LenProperties
<1>2. \A i \in 1..n : text[i] \in Int
  BY ElementOfSeq
<1> HIDE DEF l, n
<1>3. Rest(text) = SubSeq(text, l + 1, n)
  BY DEF Rest, l, n
<1>4. /\ Rest(text) \in Seq(Int)
      /\ Len(Rest(text)) = n - l
      /\ \A i \in 1..(n - l) : Rest(text)[i] = text[l + i]
  <2>1. \A i \in (l + 1)..n : text[i] \in Int
    BY <1>1, <1>2
  <2>2. /\ SubSeq(text, l + 1, n) \in Seq(Int)
        /\ Len(SubSeq(text, l + 1, n)) = IF l + 1 <= n THEN n - (l + 1) + 1 ELSE 0
        /\ \A i \in 1..(n - (l + 1) + 1) : SubSeq(text, l + 1, n)[i] = text[l + 1 + i - 1]
    BY <1>1, <2>1, SubSeqProperties
  <2> QED
    BY <1>1, <1>3, <2>2
<1>5. done \in Seq(Int)
  <2>1. \A i \in 1..l : text[i] \in Int
    BY <1>1, <1>2
  <2> QED
    BY <1>1, <2>1, SubSeqProperties
<1>6. Ends(Rest(text)) = {}
  <2> SUFFICES ASSUME NEW k \in Ends(Rest(text)) PROVE FALSE
    OBVIOUS
  <2>1. k \in 1..(n - l) /\ Rest(text)[k] = Semicolon
    BY <1>4, LenProperties DEF Ends
  <2>2. l + k \in Ends(text)
    BY <1>1, <1>4, <2>1 DEF Ends
  <2> QED
    BY <1>1, <2>1, <2>2
<1>7. text = done \o Rest(text)
  <2>1. 1 \in 1..(Len(text) + 1) /\ l \in (1 - 1)..Len(text) /\ n \in l..Len(text)
    BY <1>1 DEF n
  <2>2. SubSeq(text, 1, l) \o SubSeq(text, l + 1, n) = SubSeq(text, 1, n)
    BY <2>1, ConcatAdjacentSubSeq
  <2> QED
    BY <1>3, <2>2, SubSeqFull DEF n
<1> HIDE DEF done
<1>8. ByteLength(text) = ByteLength(done) + ByteLength(Rest(text))
      /\ ByteLength(done) \in Nat /\ ByteLength(Rest(text)) \in Nat
  BY <1>4, <1>5, <1>7, EncodedProperties
<1> QED
  BY <1>4, <1>6, <1>8

----------------------------------------------------------------------------
(* toInstruction.                                                          *)

Text == Seq(Int \ {Semicolon})

Piece(parts, k) == Element(parts[k]) \o <<IF k < Len(parts) THEN Comma ELSE Semicolon>>
Pieces(parts) == [k \in DOMAIN parts |-> Piece(parts, k)]

LEMMA TextTyped == Text \subseteq Seq(Int) /\ Values \subseteq Text
  BY ParserAssumption, SeqMonotonic DEF Text

LEMMA ElementTyped ==
    ASSUME NEW value \in Text
    PROVE  Element(value) \in Text /\ Len(Element(value)) = Len(value) + 1
<1>1. value \in Seq(Int) /\ ByteLength(value) \in Nat
  BY TextTyped, EncodedProperties
<1>2. <<ByteLength(value)>> \in Text /\ Len(<<ByteLength(value)>>) = 1
  BY <1>1 DEF Text, Semicolon
<1>3. value \in Seq(Int \ {Semicolon}) /\ Len(value) \in Nat
  BY LenProperties DEF Text
<1> QED
  BY <1>2, <1>3, ConcatProperties DEF Element, Text

LEMMA PiecesTyped ==
    ASSUME NEW parts \in Seq(Text)
    PROVE  /\ Pieces(parts) \in Seq(Seq(Int))
           /\ Len(Pieces(parts)) = Len(parts)
           /\ ToInstruction(parts) = FlattenSeq(Pieces(parts))
           /\ ToInstruction(parts) \in Seq(Int)
<1>1. Len(parts) \in Nat /\ DOMAIN parts = 1..Len(parts)
  BY LenProperties
<1>2. ASSUME NEW k \in 1..Len(parts) PROVE Piece(parts, k) \in Seq(Int)
  <2>1. Element(parts[k]) \in Seq(Int)
    BY ElementOfSeq, ElementTyped, TextTyped
  <2>2. <<IF k < Len(parts) THEN Comma ELSE Semicolon>> \in Seq(Int)
    BY DEF Comma, Semicolon
  <2> QED
    BY <2>1, <2>2, ConcatProperties DEF Piece
<1>3. Pieces(parts) \in Seq(Seq(Int)) /\ Len(Pieces(parts)) = Len(parts)
  BY <1>1, <1>2 DEF Pieces
<1>4. ToInstruction(parts) = FlattenSeq(Pieces(parts))
  BY DEF ToInstruction, Pieces, Piece
<1>5. <<>> \in Seq(Int)
  OBVIOUS
<1>6. FlattenSeq(Pieces(parts)) \in Seq(Int)
  BY <1>3, <1>5, FlattenAppend
<1> QED
  BY <1>3, <1>4, <1>6

----------------------------------------------------------------------------
(* What waits in the buffer, wherever TCP cuts the stream.                 *)

BufferInv == buffer \in Seq(Int) /\ wire \in Seq(Byte) /\ BufferBounded

LEMMA MessagesTyped == \A parts \in Messages : parts \in Seq(Text) /\ parts # <<>>
<1> SUFFICES ASSUME NEW parts \in Messages PROVE parts \in Seq(Text) /\ parts # <<>>
  OBVIOUS
<1>1. CASE parts \in {<<v>> : v \in Values}
  <2>1. PICK v \in Values : parts = <<v>>
    BY <1>1
  <2> QED
    BY <2>1, TextTyped
<1>2. CASE parts \in {<<v, w>> : v, w \in Values}
  <2>1. PICK v \in Values, w \in Values : parts = <<v, w>>
    BY <1>2
  <2> QED
    BY <2>1, TextTyped
<1> QED
  BY <1>1, <1>2 DEF Messages

LEMMA BufferInitially == Init => BufferInv
<1> SUFFICES ASSUME Init PROVE BufferInv
  OBVIOUS
<1>1. buffer \in Seq(Int) /\ wire \in Seq(Byte) /\ buffer = <<>>
  BY DEF Init
<1>2. Ends(<<>>) = {} /\ ByteLength(<<>>) = 0
  BY EncodedProperties DEF Ends, ByteLength
<1> QED
  BY <1>1, <1>2, ParserAssumption DEF BufferInv, BufferBounded

LEMMA BufferNext == BufferInv /\ [Next]_vars => BufferInv'
<1> SUFFICES ASSUME BufferInv, [Next]_vars PROVE BufferInv'
  OBVIOUS
<1>1. ASSUME NEW parts \in Messages, GuacdSends(parts) PROVE BufferInv'
  <2>1. Encoded(ToInstruction(parts)) \in Seq(Byte)
    BY MessagesTyped, PiecesTyped, EncodedProperties
  <2>2. wire' \in Seq(Byte)
    BY <1>1, <2>1, ConcatProperties DEF GuacdSends, BufferInv
  <2>3. buffer' = buffer
    BY <1>1 DEF GuacdSends
  <2> QED
    BY <2>2, <2>3 DEF BufferInv, BufferBounded
<1>2. ASSUME NEW n \in Cuts, Receive(n) PROVE BufferInv'
  <2> DEFINE chunk == Decoded(SubSeq(wire, 1, n))
             text == buffer \o chunk
  <2>1. n \in 1..Len(wire) /\ Len(wire) \in Nat /\ \A i \in 1..Len(wire) : wire[i] \in Byte
    BY LenProperties, ElementOfSeq DEF Cuts, BufferInv
  <2>2. SubSeq(wire, 1, n) \in Seq(Byte) /\ SubSeq(wire, n + 1, Len(wire)) \in Seq(Byte)
    <3>1. \A i \in 1..n : wire[i] \in Byte
      BY <2>1
    <3>2. \A i \in (n + 1)..Len(wire) : wire[i] \in Byte
      BY <2>1
    <3>3. SubSeq(wire, 1, n) \in Seq(Byte)
      BY <2>1, <3>1, SubSeqProperties
    <3>4. SubSeq(wire, n + 1, Len(wire)) \in Seq(Byte)
      BY <2>1, <3>2, SubSeqProperties
    <3> QED
      BY <3>3, <3>4
  <2>3. text \in Seq(Int)
    BY <2>2, DecodedTyped, ConcatProperties DEF BufferInv
  <2>4. wire' = SubSeq(wire, n + 1, Len(wire))
    BY <1>2 DEF Receive
  <2>5. CASE Overflows(buffer, chunk)
    <3>1. buffer' = <<>>
      BY <1>2, <2>5 DEF Receive
    <3>2. <<>> \in Seq(Int) /\ Ends(<<>>) = {} /\ ByteLength(<<>>) = 0
      BY EncodedProperties DEF Ends, ByteLength
    <3> QED
      BY <2>2, <2>4, <3>1, <3>2, ParserAssumption DEF BufferInv, BufferBounded
  <2>6. CASE ~Overflows(buffer, chunk)
    <3>1. buffer' = Rest(text)
      BY <1>2, <2>6 DEF Receive
    <3>2. ~(ByteLength(text) > MaxBuffer)
      BY <2>6 DEF Overflows
    <3> HIDE DEF text
    <3>3. /\ Rest(text) \in Seq(Int) /\ Ends(Rest(text)) = {}
          /\ ByteLength(Rest(text)) <= ByteLength(text)
          /\ ByteLength(Rest(text)) \in Nat /\ ByteLength(text) \in Nat
      BY <2>3, RestProperties, EncodedProperties
    <3>4. ByteLength(Rest(text)) <= MaxBuffer
      BY <3>2, <3>3, ParserAssumption
    <3> QED
      BY <2>2, <2>4, <3>1, <3>3, <3>4 DEF BufferInv, BufferBounded
  <2> QED
    BY <2>5, <2>6
<1>3. CASE UNCHANGED vars
  BY <1>3 DEF BufferInv, BufferBounded, vars
<1> QED
  BY <1>1, <1>2, <1>3 DEF Next

\* receive keeps the start of one instruction and no more than
\* MAX_BUFFER_BYTES, for every limit, whatever the elements are and wherever
\* TCP cuts the stream.
THEOREM BufferStaysBounded == Spec => []BufferBounded
<1>1. BufferInv => BufferBounded
  BY DEF BufferInv
<1> QED
  BY <1>1, BufferInitially, BufferNext, PTL DEF Spec

----------------------------------------------------------------------------
(* Decoding what was encoded.                                              *)

\* Every byte stands in its whole character.
Whole(bytes) ==
    \A k \in 1..Len(bytes) :
        LET c == bytes[k][1]
            j == bytes[k][2]
        IN  j \in 1..Width(c) /\ Stand(bytes, k - j + 1, c, Width(c))

LEMMA StandStays ==
    ASSUME NEW a \in Seq(Byte), NEW b \in Seq(Byte), NEW k \in Int, NEW c, NEW m \in Nat,
           Stand(a, k, c, m)
    PROVE  Stand(a \o b, k, c, m)
<1>1. Len(a) \in Nat /\ Len(b) \in Nat /\ Len(a \o b) = Len(a) + Len(b)
      /\ \A i \in 1..Len(a) : (a \o b)[i] = a[i]
  BY ConcatProperties, LenProperties
<1>2. k >= 1 /\ k + m - 1 <= Len(a) /\ \A j \in 1..m : a[k + j - 1] = <<c, j>>
  BY DEF Stand
<1>3. \A j \in 1..m : k + j - 1 \in 1..Len(a)
  BY <1>1, <1>2
<1>4. \A j \in 1..m : (a \o b)[k + j - 1] = <<c, j>>
  BY <1>1, <1>2, <1>3
<1>5. k + m - 1 <= Len(a \o b)
  BY <1>1, <1>2
<1> QED
  BY <1>2, <1>4, <1>5 DEF Stand

LEMMA WholeAppend ==
    ASSUME NEW a \in Seq(Byte), Whole(a), NEW c \in Int
    PROVE  Whole(a \o Bytes(c))
<1> DEFINE b == Bytes(c)
           n == Len(a)
<1>1. /\ b \in Seq(Byte) /\ Len(b) = Width(c) /\ Width(c) \in {1, 2, 3}
      /\ \A j \in 1..Width(c) : b[j] = <<c, j>>
  BY BytesOf
<1>2. n \in Nat /\ \A i \in 1..n : a[i][2] \in {1, 2, 3}
  BY LenProperties, ElementOfSeq DEF Byte
<1> HIDE DEF b
<1>3. /\ Len(a \o b) = n + Width(c)
      /\ \A i \in 1..n : (a \o b)[i] = a[i]
      /\ \A i \in (n + 1)..(n + Width(c)) : (a \o b)[i] = b[i - n]
  BY <1>1, <1>2, ConcatProperties
<1> HIDE DEF n
<1>4. ASSUME NEW k \in 1..(n + Width(c))
      PROVE  (a \o b)[k][2] \in 1..Width((a \o b)[k][1])
             /\ Stand(a \o b, k - (a \o b)[k][2] + 1, (a \o b)[k][1], Width((a \o b)[k][1]))
  <2>1. CASE k \in 1..n
    <3> DEFINE d == a[k][1]
               j == a[k][2]
    <3>1. (a \o b)[k] = a[k]
      BY <1>3, <2>1
    <3>2. j \in 1..Width(d) /\ Stand(a, k - j + 1, d, Width(d))
      BY <2>1 DEF Whole, n
    <3>3. j \in Int /\ k - j + 1 \in Int /\ Width(d) \in Nat
      BY <1>2, <2>1 DEF Width
    <3> HIDE DEF d, j
    <3>4. Stand(a \o b, k - j + 1, d, Width(d))
      BY <1>1, <3>2, <3>3, StandStays
    <3> QED
      BY <3>1, <3>2, <3>4 DEF d, j
  <2>2. CASE k \in (n + 1)..(n + Width(c))
    <3>1. k - n \in 1..Width(c) /\ (a \o b)[k] = <<c, k - n>>
      BY <1>1, <1>2, <1>3, <2>2
    <3>2. k - (k - n) + 1 = n + 1
      BY <1>2, <2>2
    <3>3. \A j \in 1..Width(c) : (a \o b)[n + 1 + j - 1] = <<c, j>>
      <4> SUFFICES ASSUME NEW j \in 1..Width(c) PROVE (a \o b)[n + 1 + j - 1] = <<c, j>>
        OBVIOUS
      <4>1. n + 1 + j - 1 \in (n + 1)..(n + Width(c)) /\ n + 1 + j - 1 - n = j
        BY <1>1, <1>2
      <4>2. (a \o b)[n + 1 + j - 1] = b[j]
        <5> DEFINE p == n + 1 + j - 1
        <5>1. p \in (n + 1)..(n + Width(c))
          BY <4>1
        <5> HIDE DEF p
        <5>2. (a \o b)[p] = b[p - n]
          BY <1>3, <5>1
        <5>3. p = n + 1 + j - 1 /\ p - n = j
          BY <1>2 DEF p
        <5> QED
          BY <5>2, <5>3
      <4> QED
        BY <1>1, <4>1, <4>2
    <3>4. n + 1 >= 1 /\ n + 1 + Width(c) - 1 <= Len(a \o b)
      <4>1. n \in Nat /\ Width(c) \in Nat /\ Len(a \o b) = n + Width(c)
        BY <1>1, <1>2, <1>3
      <4> QED
        BY <4>1
    <3>5. Stand(a \o b, n + 1, c, Width(c))
      BY <3>3, <3>4 DEF Stand
    <3> QED
      BY <3>1, <3>2, <3>5
  <2>3. k \in 1..n \/ k \in (n + 1)..(n + Width(c))
    <3>1. n \in Nat /\ Width(c) \in Nat
      BY <1>1, <1>2
    <3> QED
      BY <3>1
  <2> QED
    BY <2>1, <2>2, <2>3
<1>5. Whole(a \o b)
  BY <1>3, <1>4 DEF Whole
<1> QED
  BY <1>5 DEF b

LEMMA EncodedWhole == \A t \in Seq(Int) : Whole(Encoded(t))
<1> DEFINE T == {t \in Seq(Int) : Whole(Encoded(t))}
<1>1. <<>> \in T
  <2>1. Encoded(<<>>) = <<>> /\ <<>> \in Seq(Int) /\ Len(<<>>) = 0
    BY EncodedProperties
  <2> QED
    BY <2>1 DEF Whole
<1>2. ASSUME NEW t \in Seq(Int), NEW c \in Int, t \in T PROVE Append(t, c) \in T
  <2>1. Append(t, c) \in Seq(Int) /\ Append(t, c) = t \o <<c>> /\ <<c>> \in Seq(Int)
    BY AppendProperties, AppendIsConcat
  <2>2. Encoded(t \o <<c>>) = Encoded(t) \o Bytes(c) /\ Encoded(t) \in Seq(Byte)
    BY <2>1, EncodedProperties
  <2>3. Whole(Encoded(t) \o Bytes(c))
    BY <1>2, <2>2, WholeAppend
  <2> QED
    BY <2>1, <2>2, <2>3
<1>3. Seq(Int) \subseteq T
  <2> HIDE DEF T
  <2> QED
    BY <1>1, <1>2, SeqInduct
<1> QED
  BY <1>3

\* The characters whose first bytes the bytes hold.
Leads == [byte \in Byte |-> IF byte[2] = 1 THEN <<byte[1]>> ELSE <<>>]

LEMMA LeadsEmit == Emits(Leads, Byte, Int)
<1>1. ASSUME NEW byte \in Byte PROVE Leads[byte] \in Seq(Int)
  <2>1. <<byte[1]>> \in Seq(Int) /\ <<>> \in Seq(Int)
    BY DEF Byte
  <2> QED
    BY <2>1 DEF Leads
<1> QED
  BY <1>1 DEF Emits

LEMMA LeadsConcat == \A s, t \in Seq(Byte) : Flat(Leads, s \o t) = Flat(Leads, s) \o Flat(Leads, t)
  BY LeadsEmit, FlatConcat

LEMMA DecodedWhole ==
    ASSUME NEW bytes \in Seq(Byte), Whole(bytes)
    PROVE  Decoded(bytes) = Flat(Leads, bytes)
<1>1. DOMAIN bytes = 1..Len(bytes) /\ Len(bytes) \in Nat
  BY LenProperties
<1>2. ASSUME NEW k \in 1..Len(bytes)
      PROVE  DecodedAt(bytes, k) = Leads[bytes[k]]
  <2> DEFINE c == bytes[k][1]
             j == bytes[k][2]
  <2>1. bytes[k] \in Byte
    BY ElementOfSeq
  <2>2. c \in Int /\ j \in {1, 2, 3} /\ Width(c) \in {1, 2, 3}
    BY <2>1 DEF Byte, Width
  <2>3. j \in 1..Width(c) /\ Stand(bytes, k - j + 1, c, Width(c))
    BY DEF Whole
  <2>4. Leads[bytes[k]] = IF j = 1 THEN <<c>> ELSE <<>>
    BY <2>1 DEF Leads
  <2> HIDE DEF c, j
  <2>5. CASE j = 1
    <3>1. Stand(bytes, k, c, Width(c))
      <4>1. k - j + 1 = k
        BY <2>5
      <4> QED
        BY <2>3, <4>1
    <3> QED
      BY <2>4, <2>5, <3>1 DEF DecodedAt, c, j
  <2>6. CASE j # 1
    <3>1. Stand(bytes, k - j + 1, c, j)
      BY <1>1, <2>2, <2>3 DEF Stand
    <3> QED
      BY <2>4, <2>6, <3>1 DEF DecodedAt, c, j
  <2> QED
    BY <2>5, <2>6
<1>3. [k \in DOMAIN bytes |-> DecodedAt(bytes, k)] = [k \in DOMAIN bytes |-> Leads[bytes[k]]]
  BY <1>1, <1>2
<1> QED
  BY <1>3 DEF Decoded, Flat

LEMMA LeadsOfBytes == \A c \in Int : Flat(Leads, Bytes(c)) = <<c>>
<1> SUFFICES ASSUME NEW c \in Int PROVE Flat(Leads, Bytes(c)) = <<c>>
  OBVIOUS
<1>1. \A j \in {1, 2, 3} : <<c, j>> \in Byte /\ Leads[<<c, j>>] = IF j = 1 THEN <<c>> ELSE <<>>
  BY DEF Byte, Leads
<1>2. \A j \in {1, 2, 3} : Flat(Leads, <<<<c, j>>>>) = IF j = 1 THEN <<c>> ELSE <<>>
  BY <1>1, LeadsEmit, FlatSingle
<1>3. \A j \in {1, 2, 3} : <<<<c, j>>>> \in Seq(Byte)
  BY <1>1
<1>4. Flat(Leads, <<<<c, 1>>>> \o <<<<c, 2>>>>) = <<c>> \o <<>>
  BY <1>2, <1>3, LeadsEmit, FlatConcat
<1>5. <<<<c, 1>>>> \o <<<<c, 2>>>> = <<<<c, 1>>, <<c, 2>>>> /\ <<c>> \o <<>> = <<c>>
      /\ <<<<c, 1>>, <<c, 2>>>> \in Seq(Byte)
  <2>1. <<c, 1>> \in Byte /\ <<c, 2>> \in Byte
    BY <1>1
  <2>2. <<<<c, 1>>>> \o <<<<c, 2>>>> = <<<<c, 1>>, <<c, 2>>>>
    BY <2>1, JoinTwo
  <2>3. <<c>> \o <<>> = <<c>>
    BY ConcatEmptySeq
  <2> QED
    BY <2>1, <2>2, <2>3
<1>6. Flat(Leads, <<<<c, 1>>, <<c, 2>>>> \o <<<<c, 3>>>>) = <<c>> \o <<>>
  <2>1. Flat(Leads, <<<<c, 1>>, <<c, 2>>>> \o <<<<c, 3>>>>)
            = Flat(Leads, <<<<c, 1>>, <<c, 2>>>>) \o Flat(Leads, <<<<c, 3>>>>)
    <3>1. <<<<c, 1>>, <<c, 2>>>> \in Seq(Byte) /\ <<<<c, 3>>>> \in Seq(Byte)
      BY <1>3, <1>5
    <3> QED
      BY <3>1, LeadsConcat, Zenon
  <2>2. Flat(Leads, <<<<c, 1>>, <<c, 2>>>>) = <<c>> \o <<>> /\ <<c>> \o <<>> = <<c>>
    BY <1>4, <1>5
  <2>3. Flat(Leads, <<<<c, 3>>>>) = <<>>
    BY <1>2
  <2> QED
    BY <2>1, <2>2, <2>3
<1>7. <<<<c, 1>>, <<c, 2>>>> \o <<<<c, 3>>>> = <<<<c, 1>>, <<c, 2>>, <<c, 3>>>>
  <2>1. <<c, 1>> \in Byte /\ <<c, 2>> \in Byte /\ <<c, 3>> \in Byte
    BY <1>1
  <2> QED
    BY <2>1, JoinThree
<1>8. \/ Bytes(c) = <<<<c, 1>>>>
      \/ Bytes(c) = <<<<c, 1>>, <<c, 2>>>>
      \/ Bytes(c) = <<<<c, 1>>, <<c, 2>>, <<c, 3>>>>
  BY DEF Bytes, Width
<1> QED
  BY <1>2, <1>4, <1>5, <1>6, <1>7, <1>8

\* Buffer.from(text, 'utf8') and toString('utf8') undo each other, for texts of
\* any length with characters of one, two and three bytes.
THEOREM DecodedEncoded == \A t \in Seq(Int) : Decoded(Encoded(t)) = t
<1> DEFINE T == {t \in Seq(Int) : Flat(Leads, Encoded(t)) = t}
<1>1. <<>> \in T
  BY EncodedProperties, FlatEmpty, EmptySeq
<1>2. ASSUME NEW t \in Seq(Int), NEW c \in Int, t \in T PROVE Append(t, c) \in T
  <2>1. Append(t, c) \in Seq(Int) /\ Append(t, c) = t \o <<c>> /\ <<c>> \in Seq(Int)
    BY AppendProperties, AppendIsConcat
  <2>2. Encoded(t \o <<c>>) = Encoded(t) \o Bytes(c) /\ Encoded(t) \in Seq(Byte)
    BY <2>1, EncodedProperties
  <2>3. Bytes(c) \in Seq(Byte) /\ Flat(Leads, Bytes(c)) = <<c>> /\ Flat(Leads, Encoded(t)) = t
    BY <1>2, BytesOf, LeadsOfBytes
  <2>4. Flat(Leads, Encoded(t) \o Bytes(c)) = t \o <<c>>
    <3>1. Flat(Leads, Encoded(t) \o Bytes(c)) = Flat(Leads, Encoded(t)) \o Flat(Leads, Bytes(c))
      <4>1. Encoded(t) \in Seq(Byte) /\ Bytes(c) \in Seq(Byte)
        BY <2>2, <2>3
      <4> QED
        BY <4>1, LeadsConcat, Zenon
    <3> QED
      BY <2>3, <3>1
  <2> QED
    BY <2>1, <2>2, <2>4
<1>3. Seq(Int) \subseteq T
  <2> HIDE DEF T
  <2> QED
    BY <1>1, <1>2, SeqInduct
<1> SUFFICES ASSUME NEW t \in Seq(Int) PROVE Decoded(Encoded(t)) = t
  OBVIOUS
<1>4. Encoded(t) \in Seq(Byte) /\ Whole(Encoded(t)) /\ Flat(Leads, Encoded(t)) = t
  BY <1>3, EncodedProperties, EncodedWhole
<1> QED
  BY <1>4, DecodedWhole

\* A cut between two characters cuts the text.
LEMMA CutText ==
    ASSUME NEW t \in Seq(Int), NEW n \in 0..Len(Encoded(t)),
           n # Len(Encoded(t)) => Encoded(t)[n + 1][2] = 1
    PROVE  \E t1, t2 \in Seq(Int) :
              /\ t = t1 \o t2
              /\ SubSeq(Encoded(t), 1, n) = Encoded(t1)
              /\ SubSeq(Encoded(t), n + 1, Len(Encoded(t))) = Encoded(t2)
<1> DEFINE Halves(s, m) == \E t1, t2 \in Seq(Int) : s = t1 \o t2 /\ Len(Encoded(t1)) = m
           Even(s, m) == m # Len(Encoded(s)) => Encoded(s)[m + 1][2] = 1
           T == {s \in Seq(Int) : \A m \in 0..Len(Encoded(s)) : Even(s, m) => Halves(s, m)}
<1>1. <<>> \in T
  <2>1. <<>> \in Seq(Int) /\ Encoded(<<>>) = <<>> /\ Len(<<>>) = 0 /\ <<>> = <<>> \o <<>>
    BY EncodedProperties
  <2>2. Halves(<<>>, 0)
    BY <2>1
  <2>3. \A m \in 0..Len(Encoded(<<>>)) : m = 0
    BY <2>1
  <2> HIDE DEF Halves
  <2> QED
    BY <2>1, <2>2, <2>3
<1>2. ASSUME NEW s \in Seq(Int), NEW c \in Int, s \in T PROVE Append(s, c) \in T
  <2> DEFINE l == Len(Encoded(s))
             w == Width(c)
  <2>1. Append(s, c) \in Seq(Int) /\ Append(s, c) = s \o <<c>> /\ <<c>> \in Seq(Int)
    BY AppendProperties, AppendIsConcat
  <2>2. Encoded(Append(s, c)) = Encoded(s) \o Bytes(c) /\ Encoded(s) \in Seq(Byte)
    BY <2>1, EncodedProperties
  <2>3. Bytes(c) \in Seq(Byte) /\ Len(Bytes(c)) = w /\ \A j \in 1..w : Bytes(c)[j] = <<c, j>>
    BY BytesOf
  <2>4. l \in Nat /\ w \in {1, 2, 3}
    BY <2>2, LenProperties, BytesOf
  <2>5. /\ Len(Encoded(Append(s, c))) = l + w
        /\ \A i \in 1..l : Encoded(Append(s, c))[i] = Encoded(s)[i]
        /\ \A i \in (l + 1)..(l + w) : Encoded(Append(s, c))[i] = Bytes(c)[i - l]
    BY <2>2, <2>3, <2>4, ConcatProperties
  <2> HIDE DEF l, w
  <2> SUFFICES ASSUME NEW m \in 0..(l + w), Even(Append(s, c), m) PROVE Halves(Append(s, c), m)
    BY <2>1, <2>5
  <2>6. CASE m < l
    <3>1. m \in 0..l /\ m + 1 \in 1..l /\ m # l + w
      BY <2>4, <2>6
    <3>2. Encoded(s)[m + 1][2] = 1
      BY <2>5, <3>1
    <3>3. Halves(s, m)
      BY <1>2, <3>1, <3>2 DEF l
    <3>4. PICK t1 \in Seq(Int), t2 \in Seq(Int) : s = t1 \o t2 /\ Len(Encoded(t1)) = m
      BY <3>3
    <3>5. t2 \o <<c>> \in Seq(Int) /\ Append(s, c) = t1 \o (t2 \o <<c>>)
      <4>1. t2 \o <<c>> \in Seq(Int)
        BY <2>1, ConcatProperties
      <4>2. (t1 \o t2) \o <<c>> = t1 \o (t2 \o <<c>>)
        BY <2>1, ConcatText
      <4> QED
        BY <2>1, <3>4, <4>1, <4>2
    <3> QED
      BY <3>4, <3>5
  <2>7. CASE m = l
    BY <2>1, <2>7 DEF l
  <2>8. CASE m = l + w
    <3>1. <<>> \in Seq(Int) /\ Append(s, c) = Append(s, c) \o <<>>
      BY <2>1, ConcatEmptySeq, EmptySeq
    <3> QED
      BY <2>1, <2>5, <2>8, <3>1
  <2>9. CASE m > l /\ m < l + w
    <3>1. m + 1 \in (l + 1)..(l + w) /\ m + 1 - l \in 1..w /\ m + 1 - l # 1
      BY <2>4, <2>9
    <3>2. Encoded(Append(s, c))[m + 1] = <<c, m + 1 - l>>
      <4>1. Encoded(Append(s, c))[m + 1] = Bytes(c)[m + 1 - l]
        <5> DEFINE p == m + 1
        <5>1. p \in (l + 1)..(l + w)
          BY <3>1
        <5> HIDE DEF p
        <5>2. Encoded(Append(s, c))[p] = Bytes(c)[p - l]
          BY <2>5, <5>1
        <5>3. p = m + 1 /\ p - l = m + 1 - l
          BY <2>4 DEF p
        <5> QED
          BY <5>2, <5>3
      <4>2. Bytes(c)[m + 1 - l] = <<c, m + 1 - l>>
        BY <2>3, <3>1
      <4> QED
        BY <4>1, <4>2
    <3>3. Encoded(Append(s, c))[m + 1][2] = 1
      BY <2>4, <2>5, <2>9
    <3> QED
      BY <3>1, <3>2, <3>3
  <2> HIDE DEF Halves, Even
  <2>10. m < l \/ m = l \/ m = l + w \/ (m > l /\ m < l + w)
    BY <2>4
  <2> QED
    BY <2>6, <2>7, <2>8, <2>9, <2>10
<1>3. Seq(Int) \subseteq T
  <2> HIDE DEF T
  <2> QED
    BY <1>1, <1>2, SeqInduct
<1>4. Halves(t, n)
  BY <1>3
<1>5. PICK t1 \in Seq(Int), t2 \in Seq(Int) : t = t1 \o t2 /\ Len(Encoded(t1)) = n
  BY <1>4
<1>6. Encoded(t) = Encoded(t1) \o Encoded(t2) /\ Encoded(t1) \in Seq(Byte) /\ Encoded(t2) \in Seq(Byte)
  BY <1>5, EncodedProperties
<1>7. SubSeq(Encoded(t), 1, n) = Encoded(t1)
      /\ SubSeq(Encoded(t), n + 1, Len(Encoded(t))) = Encoded(t2)
  <2> DEFINE a == Encoded(t1)
             b == Encoded(t2)
  <2> HIDE DEF a, b
  <2>1. a \in Seq(Byte) /\ b \in Seq(Byte) /\ Encoded(t) = a \o b /\ Len(a) = n
    BY <1>5, <1>6 DEF a, b
  <2>2. SubSeq(a \o b, 1, Len(a)) = a /\ SubSeq(a \o b, Len(a) + 1, Len(a \o b)) = b
    <3>1. a \in Seq(Byte) /\ b \in Seq(Byte)
      BY <2>1
    <3> QED
      BY <3>1, SplitConcat
  <2> QED
    BY <2>1, <2>2 DEF a, b
<1> QED
  BY <1>5, <1>7

----------------------------------------------------------------------------
(* toInstruction element by element.                                       *)

LEMMA ToInstructionOne ==
    ASSUME NEW v \in Text
    PROVE  ToInstruction(<<v>>) = Element(v) \o <<Semicolon>>
<1>1. <<v>> \in Seq(Text) /\ Len(<<v>>) = 1 /\ <<v>>[1] = v /\ DOMAIN <<v>> = 1..1
  OBVIOUS
<1>2. Element(v) \o <<Semicolon>> \in Seq(Int)
  <2>1. <<Semicolon>> \in Seq(Int)
    BY DEF Semicolon
  <2> QED
    BY <2>1, ElementTyped, TextTyped, ConcatProperties
<1>3. Pieces(<<v>>) = <<Element(v) \o <<Semicolon>>>>
  <2> DEFINE x == Element(v) \o <<Semicolon>>
  <2>1. Piece(<<v>>, 1) = x
    BY <1>1 DEF Piece
  <2> HIDE DEF x
  <2>2. [k \in 1..1 |-> Piece(<<v>>, k)] = [k \in 1..1 |-> x]
    BY <2>1
  <2>3. [k \in 1..1 |-> x] = <<x>>
    OBVIOUS
  <2> QED
    BY <1>1, <2>2, <2>3 DEF Pieces, x
<1>4. ToInstruction(<<v>>) = FlattenSeq(Pieces(<<v>>))
  BY <1>1, PiecesTyped
<1> QED
  BY <1>2, <1>3, <1>4, FlattenSingle

LEMMA ToInstructionMore ==
    ASSUME NEW v \in Text, NEW more \in Seq(Text), more # <<>>
    PROVE  ToInstruction(<<v>> \o more) = (Element(v) \o <<Comma>>) \o ToInstruction(more)
<1> DEFINE first == <<v>>
           parts == first \o more
           piece == Element(v) \o <<Comma>>
           one == <<piece>>
           n == Len(more)
<1>1. first \in Seq(Text) /\ Len(first) = 1 /\ first[1] = v
  OBVIOUS
<1>2. n \in Nat \ {0}
  BY EmptySeq
<1>3. piece \in Seq(Int)
  <2>1. <<Comma>> \in Seq(Int)
    BY DEF Comma
  <2> QED
    BY <2>1, ElementTyped, TextTyped, ConcatProperties
<1>4. one \in Seq(Seq(Int)) /\ FlattenSeq(one) = piece /\ Len(one) = 1 /\ one[1] = piece
  <2> HIDE DEF piece
  <2>1. FlattenSeq(<<piece>>) = piece
    BY <1>3, FlattenSingle
  <2> QED
    BY <1>3, <2>1
<1> HIDE DEF first, one, piece, n
<1>5. /\ parts \in Seq(Text) /\ Len(parts) = n + 1 /\ parts[1] = v
      /\ \A k \in 1..n : parts[k + 1] = more[k]
  <2>1. /\ first \o more \in Seq(Text) /\ Len(first \o more) = Len(more) + 1
        /\ (first \o more)[1] = first[1]
        /\ \A k \in 1..Len(more) : (first \o more)[k + 1] = more[k]
    BY <1>1, FirstAndRest
  <2> QED
    BY <1>1, <2>1 DEF n
<1> HIDE DEF parts
<1>6. /\ Pieces(more) \in Seq(Seq(Int)) /\ Len(Pieces(more)) = n
      /\ ToInstruction(more) = FlattenSeq(Pieces(more))
  BY PiecesTyped DEF n
<1>7. /\ Pieces(parts) \in Seq(Seq(Int)) /\ Len(Pieces(parts)) = n + 1
      /\ ToInstruction(parts) = FlattenSeq(Pieces(parts))
  BY <1>5, PiecesTyped
<1>8. Pieces(parts) = one \o Pieces(more)
  <2> DEFINE q == Pieces(more)
  <2>1. Pieces(parts)[1] = piece
    <3>1. 1 \in DOMAIN parts /\ 1 < Len(parts)
      BY <1>2, <1>5, LenProperties
    <3>2. Piece(parts, 1) = piece
      BY <1>5, <3>1 DEF Piece, piece
    <3> QED
      BY <3>1, <3>2 DEF Pieces
  <2>2. ASSUME NEW k \in 1..n PROVE Pieces(parts)[k + 1] = q[k]
    <3>1. k + 1 \in DOMAIN parts /\ k \in DOMAIN more /\ (k + 1 < Len(parts) <=> k < Len(more))
      BY <1>2, <1>5, LenProperties DEF n
    <3>2. Piece(parts, k + 1) = Piece(more, k)
      BY <1>5, <3>1 DEF Piece
    <3> QED
      BY <3>1, <3>2 DEF Pieces
  <2> HIDE DEF q
  <2>3. /\ one \o q \in Seq(Seq(Int)) /\ Len(one \o q) = n + 1 /\ (one \o q)[1] = piece
        /\ \A k \in 1..n : (one \o q)[k + 1] = q[k]
    <3>1. q \in Seq(Seq(Int)) /\ Len(q) = n
      BY <1>6 DEF q
    <3>2. one \in Seq(Seq(Int)) /\ Len(one) = 1
      BY <1>4
    <3>3. /\ one \o q \in Seq(Seq(Int)) /\ Len(one \o q) = Len(q) + 1 /\ (one \o q)[1] = one[1]
          /\ \A k \in 1..Len(q) : (one \o q)[k + 1] = q[k]
      BY <3>1, <3>2, HeadsText DEF Heads
    <3> QED
      BY <1>4, <3>1, <3>3
  <2> DEFINE r == Pieces(parts)
             u == one \o q
  <2>4. ASSUME NEW k \in 1..(n + 1) PROVE r[k] = u[k]
    <3>1. CASE k = 1
      BY <2>1, <2>3, <3>1
    <3>2. CASE k # 1
      <4>1. k - 1 \in 1..n /\ (k - 1) + 1 = k
        BY <1>2, <3>2
      <4>2. r[(k - 1) + 1] = q[k - 1] /\ u[(k - 1) + 1] = q[k - 1]
        BY <2>2, <2>3, <4>1
      <4> QED
        BY <4>1, <4>2
    <3> QED
      BY <3>1, <3>2
  <2>5. r = u
    <3>1. r \in Seq(Seq(Int)) /\ u \in Seq(Seq(Int)) /\ Len(r) = n + 1 /\ Len(u) = n + 1
      BY <1>7, <2>3
    <3> HIDE DEF r, u
    <3> QED
      BY <2>4, <3>1, SeqEqual
  <2> QED
    BY <2>5 DEF q
<1>9. FlattenSeq(one \o Pieces(more)) = FlattenSeq(one) \o FlattenSeq(Pieces(more))
  BY <1>4, <1>6, FlattenConcat
<1> QED
  BY <1>4, <1>6, <1>7, <1>8, <1>9 DEF parts, first, piece

\* An instruction ends at its only `;`.
LEMMA ToInstructionEnds ==
    \A parts \in Seq(Text) :
        parts # <<>> => \E body \in Text : ToInstruction(parts) = body \o <<Semicolon>>
<1> DEFINE Closed(parts) == \E body \in Text : ToInstruction(parts) = body \o <<Semicolon>>
           T == {parts \in Seq(Text) : parts # <<>> => Closed(parts)}
<1>1. <<>> \in T
  OBVIOUS
<1>2. ASSUME NEW more \in Seq(Text), NEW v \in Text, more \in T PROVE <<v>> \o more \in T
  <2>1. <<v>> \in Seq(Text) /\ <<v>> \o more \in Seq(Text)
    BY ConcatProperties
  <2>2. CASE more = <<>>
    <3>1. <<v>> \o more = <<v>>
      BY <2>1, <2>2, ConcatEmptySeq
    <3>2. Closed(<<v>>)
      BY ElementTyped, ToInstructionOne
    <3> QED
      BY <2>1, <3>1, <3>2
  <2>3. CASE more # <<>>
    <3>1. PICK body \in Text : ToInstruction(more) = body \o <<Semicolon>>
      BY <1>2, <2>3
    <3> DEFINE front == Element(v) \o <<Comma>>
               last == <<Semicolon>>
    <3>2. front \in Text
      <4>1. <<Comma>> \in Text
        BY DEF Text, Comma, Semicolon
      <4> QED
        BY <4>1, ElementTyped, ConcatProperties DEF Text
    <3>3. front \o body \in Text
      BY <3>2, ConcatProperties DEF Text
    <3>4. front \in Seq(Int) /\ body \in Seq(Int) /\ last \in Seq(Int)
      <4>1. last \in Seq(Int)
        BY DEF Semicolon
      <4> HIDE DEF front, last
      <4> QED
        BY <3>2, <4>1, TextTyped
    <3>5. ToInstruction(<<v>> \o more) = front \o (body \o last)
      BY <2>3, <3>1, ToInstructionMore
    <3> HIDE DEF front, last
    <3>6. front \o (body \o last) = (front \o body) \o last
      BY <3>4, ConcatText
    <3>7. Closed(<<v>> \o more)
      BY <3>3, <3>5, <3>6 DEF last
    <3> HIDE DEF Closed
    <3> QED
      BY <2>1, <3>7
  <2> QED
    BY <2>2, <2>3
<1>3. Seq(Text) \subseteq T
  <2> HIDE DEF T
  <2> QED
    BY <1>1, <1>2, SeqInductFront
<1> QED
  BY <1>3

----------------------------------------------------------------------------
(* The loop of parseInstruction.                                           *)

Elements(buf) == CHOOSE from : from = [k \in 1..Len(buf) + 1 |-> ElementsFrom(buf, from, k)]

LEMMA ParseIs == \A text : ParseInstruction(text) = Elements(Encoded(text))[1]
  BY DEF ParseInstruction, Elements

\* The rounds of the loop build one function.
LEMMA ElementsExist ==
    ASSUME NEW buf \in Seq(Byte)
    PROVE  Elements(buf) = [k \in 1..Len(buf) + 1 |-> ElementsFrom(buf, Elements(buf), k)]
<1> DEFINE n == Len(buf)
           length(k) == buf[k][1]
           end(k) == k + 1 + length(k)
           value(k) == Decoded(SubSeq(buf, k + 1, end(k) - 1))
           fits(k) == ~(length(k) < 0 \/ end(k) > n)
           W == {value(k) : k \in 1..n}
           V == Seq(W)
           step == [k \in 1..n |-> [v \in V |->
                       IF ~fits(k) THEN <<>>
                       ELSE IF buf[end(k)][1] = Semicolon THEN <<value(k)>>
                       ELSE IF buf[end(k)][1] = Comma /\ v # <<>> THEN <<value(k)>> \o v
                       ELSE <<>>]]
           next == [k \in 1..n |-> IF fits(k) THEN end(k) + 1 ELSE n + 1]
<1>1. n \in Nat /\ \A k \in 1..n : length(k) \in Int
  BY LenProperties, ElementOfSeq DEF Byte
<1>2. \A k \in 1..n : next[k] \in (k + 1)..(n + 1)
  <2> SUFFICES ASSUME NEW k \in 1..n PROVE next[k] \in (k + 1)..(n + 1)
    OBVIOUS
  <2>1. length(k) \in Int
    BY <1>1
  <2>2. next[k] = IF fits(k) THEN end(k) + 1 ELSE n + 1
    OBVIOUS
  <2> HIDE DEF length, next
  <2> QED
    BY <1>1, <2>1, <2>2
<1>3. <<>> \in V /\ \A k \in 1..n : \A v \in V : step[k][v] \in V
  <2> HIDE DEF length, end, value, fits, W
  <2>1. <<>> \in V
    OBVIOUS
  <2>2. ASSUME NEW k \in 1..n, NEW v \in V PROVE step[k][v] \in V
    <3>1. value(k) \in W
      BY DEF W
    <3>2. <<value(k)>> \in V /\ Len(<<value(k)>>) = 1
      BY <3>1
    <3>3. <<value(k)>> \o v \in V
      BY <3>2, ConcatProperties
    <3>4. step[k][v] = IF ~fits(k) THEN <<>>
                       ELSE IF buf[end(k)][1] = Semicolon THEN <<value(k)>>
                       ELSE IF buf[end(k)][1] = Comma /\ v # <<>> THEN <<value(k)>> \o v
                       ELSE <<>>
      OBVIOUS
    <3> HIDE DEF V, step
    <3> QED
      BY <2>1, <3>2, <3>3, <3>4
  <2> QED
    BY <2>1, <2>2
<1> HIDE DEF V, step, next
<1>4. PICK f \in [1..(n + 1) -> V] :
         f[n + 1] = <<>> /\ \A k \in 1..n : f[k] = step[k][f[next[k]]]
  <2> DEFINE base == <<>>
  <2>1. n \in Nat /\ base \in V
    BY <1>1, <1>3
  <2> HIDE DEF n, base
  <2>2. Forward(next, n) /\ StepsIn(step, n, V)
    BY <1>2, <1>3 DEF Forward, StepsIn
  <2>3. PICK f \in [1..(n + 1) -> V] : Recurs(f, n, base, step, next)
    BY <2>1, <2>2, Recursion
  <2>4. f[n + 1] = base /\ \A k \in 1..n : f[k] = step[k][f[next[k]]]
    BY <2>3 DEF Recurs
  <2> QED
    BY <2>4 DEF base
<1>5. \A k \in 1..(n + 1) : f[k] = ElementsFrom(buf, f, k)
  <2>1. f[n + 1] = ElementsFrom(buf, f, n + 1)
    BY <1>1, <1>4 DEF ElementsFrom
  <2>2. ASSUME NEW k \in 1..n PROVE f[k] = ElementsFrom(buf, f, k)
    <3>1. ~(k > Len(buf)) /\ next[k] \in 1..(n + 1)
      BY <1>1, <1>2
    <3>2. f[next[k]] \in V
      BY <1>4, <3>1
    <3>3. f[k] = IF ~fits(k) THEN <<>>
                 ELSE IF buf[end(k)][1] = Semicolon THEN <<value(k)>>
                 ELSE IF buf[end(k)][1] = Comma /\ f[next[k]] # <<>> THEN <<value(k)>> \o f[next[k]]
                 ELSE <<>>
      <4>1. f[k] = step[k][f[next[k]]]
        BY <1>4
      <4> DEFINE w == f[next[k]]
      <4>2. w \in V
        BY <3>2
      <4> HIDE DEF w
      <4>3. step[k][w] = IF ~fits(k) THEN <<>>
                 ELSE IF buf[end(k)][1] = Semicolon THEN <<value(k)>>
                 ELSE IF buf[end(k)][1] = Comma /\ w # <<>> THEN <<value(k)>> \o w
                 ELSE <<>>
        <5> HIDE DEF length, end, value, fits
        <5> QED
          BY <4>2 DEF step
      <4> QED
        BY <4>1, <4>3 DEF w
    <3>4. fits(k) => next[k] = end(k) + 1
      <4> HIDE DEF fits, end
      <4> QED
        BY DEF next
    <3>5. ElementsFrom(buf, f, k) =
                 IF ~fits(k) THEN <<>>
                 ELSE IF buf[end(k)][1] = Semicolon THEN <<value(k)>>
                 ELSE IF buf[end(k)][1] = Comma /\ f[end(k) + 1] # <<>> THEN <<value(k)>> \o f[end(k) + 1]
                 ELSE <<>>
      BY <3>1 DEF ElementsFrom
    <3> HIDE DEF fits, end, value
    <3> QED
      BY <3>3, <3>4, <3>5
  <2> QED
    BY <1>1, <2>1, <2>2
<1>6. f = [k \in 1..Len(buf) + 1 |-> ElementsFrom(buf, f, k)]
  <2>1. f = [k \in 1..(n + 1) |-> f[k]]
    BY <1>4
  <2>2. [k \in 1..(n + 1) |-> f[k]] = [k \in 1..(n + 1) |-> ElementsFrom(buf, f, k)]
    BY <1>5
  <2> QED
    BY <2>1, <2>2
<1> QED
  BY <1>6 DEF Elements

\* From byte k of buf to before byte after, the element v and its separator are written.
Written(buf, k, v, sep, after) ==
    /\ v \in Text /\ sep \in {Comma, Semicolon}
    /\ \E b0, b1 \in Seq(Byte) :
          /\ buf = b0 \o (Encoded(Element(v) \o <<sep>>) \o b1)
          /\ k = Len(b0) + 1
          /\ after = Len(b0) + Len(Encoded(Element(v) \o <<sep>>)) + 1

\* A round that stands before an element and its separator reads both.
LEMMA ElementsRound ==
    ASSUME NEW buf, NEW k, NEW v, NEW sep, NEW after, Written(buf, k, v, sep, after), NEW from
    PROVE  /\ sep = Semicolon => ElementsFrom(buf, from, k) = <<v>>
           /\ sep = Comma /\ from[after] # <<>> => ElementsFrom(buf, from, k) = Cons(v, from[after])
<1> DEFINE c == Encoded(Element(v) \o <<sep>>)
<1>a. PICK b0 \in Seq(Byte), b1 \in Seq(Byte) :
         buf = b0 \o (c \o b1) /\ k = Len(b0) + 1 /\ after = Len(b0) + Len(c) + 1
  BY DEF Written
<1>b. v \in Text /\ sep \in {Comma, Semicolon}
  BY DEF Written
<1> DEFINE n == ByteLength(v)
           p == Len(b0)
           e == Encoded(v)
           one == Bytes(n)
           last == Bytes(sep)
<1>1. v \in Seq(Int) /\ n \in Nat /\ sep \in Int /\ e \in Seq(Byte) /\ Len(e) = n
  BY <1>b, TextTyped, EncodedProperties DEF ByteLength, Comma, Semicolon
<1>2. /\ one \in Seq(Byte) /\ Len(one) = 1 /\ one[1] = <<n, 1>>
      /\ last \in Seq(Byte) /\ Len(last) = 1 /\ last[1] = <<sep, 1>>
  <2>1. Width(n) = 1 /\ Width(sep) = 1
    BY <1>1, <1>b DEF Width, Comma, Semicolon, Wide, Bad
  <2>2. n \in Int
    BY <1>1
  <2> HIDE DEF n
  <2>3. /\ one \in Seq(Byte) /\ Len(one) = Width(n) /\ \A j \in 1..Width(n) : one[j] = <<n, j>>
        /\ last \in Seq(Byte) /\ Len(last) = Width(sep) /\ \A j \in 1..Width(sep) : last[j] = <<sep, j>>
    BY <1>1, <2>2, BytesOf
  <2> QED
    BY <2>1, <2>3
<1>3. c = (one \o e) \o last
  <2> DEFINE d == <<n>>
             z == <<sep>>
  <2>1. d \in Seq(Int) /\ z \in Seq(Int) /\ Encoded(d) = one /\ Encoded(z) = last
    BY <1>1, EncodedProperties
  <2>2. Element(v) = d \o v
    BY DEF Element
  <2> HIDE DEF d, z, one, last, e
  <2>3. Encoded(d \o v) = one \o e /\ d \o v \in Seq(Int)
    BY <1>1, <2>1, EncodedProperties, ConcatProperties DEF e
  <2>4. Encoded((d \o v) \o z) = (one \o e) \o last
    BY <2>1, <2>3, EncodedProperties
  <2> QED
    BY <2>2, <2>4 DEF z
<1> HIDE DEF n, p, e, one, last, c
<1>4. /\ c \in Seq(Byte) /\ Len(c) = n + 2 /\ c[1] = <<n, 1>> /\ c[n + 2] = <<sep, 1>>
      /\ \A i \in 1..n : c[i + 1] = e[i]
  <2>1. /\ one \o e \in Seq(Byte) /\ Len(one \o e) = n + 1 /\ (one \o e)[1] = <<n, 1>>
        /\ \A i \in 1..n : (one \o e)[i + 1] = e[i]
    <3>1. /\ one \o e \in Seq(Byte) /\ Len(one \o e) = Len(e) + 1 /\ (one \o e)[1] = one[1]
          /\ \A i \in 1..Len(e) : (one \o e)[i + 1] = e[i]
      <4>1. one \in Seq(Byte) /\ Len(one) = 1 /\ e \in Seq(Byte)
        BY <1>1, <1>2
      <4> QED
        BY <4>1, FirstAndRest
    <3> QED
      BY <1>1, <1>2, <3>1
  <2> DEFINE a == one \o e
  <2> HIDE DEF a
  <2>2. /\ a \o last \in Seq(Byte) /\ Len(a \o last) = Len(a) + Len(last)
        /\ \A i \in 1..(Len(a) + Len(last)) :
              (a \o last)[i] = IF i <= Len(a) THEN a[i] ELSE last[i - Len(a)]
    BY <1>2, <2>1, ConcatProperties DEF a
  <2>3. c = a \o last /\ Len(a) = n + 1 /\ Len(last) = 1 /\ Len(c) = n + 2
    <3>1. c = a \o last
      BY <1>3 DEF a
    <3>2. Len(a) = n + 1
      BY <2>1 DEF a
    <3>3. Len(last) = 1
      BY <1>2
    <3>4. Len(a \o last) = Len(a) + Len(last)
      BY <2>2
    <3> QED
      BY <1>1, <3>1, <3>2, <3>3, <3>4
  <2>4. \A i \in 1..(n + 2) : c[i] = IF i <= n + 1 THEN a[i] ELSE last[i - (n + 1)]
    BY <1>1, <2>2, <2>3
  <2>5. c[1] = <<n, 1>>
    <3>1. 1 \in 1..(n + 2) /\ 1 <= n + 1
      BY <1>1
    <3> QED
      BY <2>1, <2>4, <3>1 DEF a
  <2>6. c[n + 2] = <<sep, 1>>
    <3> DEFINE q == n + 2
    <3>1. q \in 1..(n + 2) /\ ~(q <= n + 1) /\ q - (n + 1) = 1
      BY <1>1
    <3> HIDE DEF q
    <3>2. c[q] = last[q - (n + 1)]
      BY <2>4, <3>1
    <3> QED
      BY <1>2, <3>1, <3>2 DEF q
  <2>7. ASSUME NEW i \in 1..n PROVE c[i + 1] = e[i]
    <3> DEFINE q == i + 1
    <3>1. q \in 1..(n + 2) /\ q <= n + 1
      BY <1>1
    <3> HIDE DEF q
    <3>2. c[q] = a[q]
      BY <2>4, <3>1
    <3> QED
      BY <2>1, <3>2 DEF q, a
  <2> QED
    BY <2>2, <2>3, <2>5, <2>6, <2>7
<1>5. /\ p \in Nat /\ buf \in Seq(Byte) /\ Len(buf) \in Nat /\ p + n + 2 <= Len(buf)
      /\ \A i \in 1..(n + 2) : buf[p + i] = c[i]
  <2> DEFINE a == c \o b1
  <2>1. /\ a \in Seq(Byte) /\ Len(a) = n + 2 + Len(b1) /\ Len(b1) \in Nat
        /\ \A i \in 1..(n + 2) : a[i] = c[i]
    <3>1. /\ a \in Seq(Byte) /\ Len(a) = Len(c) + Len(b1)
          /\ \A i \in 1..(Len(c) + Len(b1)) : a[i] = IF i <= Len(c) THEN c[i] ELSE b1[i - Len(c)]
      BY <1>4, ConcatProperties
    <3>2. Len(b1) \in Nat
      BY LenProperties
    <3>3. Len(c) = n + 2 /\ n \in Nat
      BY <1>1, <1>4
    <3> HIDE DEF a
    <3> QED
      BY <3>1, <3>2, <3>3
  <2>2. buf = b0 \o a
    BY <1>a
  <2> HIDE DEF a
  <2>3. /\ b0 \o a \in Seq(Byte) /\ Len(b0 \o a) = Len(b0) + Len(a)
        /\ \A i \in 1..(Len(b0) + Len(a)) : (b0 \o a)[i] = IF i <= Len(b0) THEN b0[i] ELSE a[i - Len(b0)]
    <3>1. a \in Seq(Byte)
      BY <2>1
    <3> QED
      BY <3>1, ConcatProperties
  <2>4. p \in Nat
    BY LenProperties DEF p
  <2>5. \A i \in 1..(p + Len(a)) : buf[i] = IF i <= p THEN b0[i] ELSE a[i - p]
    BY <2>2, <2>3 DEF p
  <2>6. ASSUME NEW i \in 1..(n + 2) PROVE buf[p + i] = c[i]
    <3> DEFINE q == p + i
    <3>1. q \in 1..(p + Len(a)) /\ ~(q <= p) /\ q - p = i
      BY <1>1, <2>1, <2>4
    <3> HIDE DEF q
    <3>2. buf[q] = a[q - p]
      BY <2>5, <3>1
    <3> QED
      BY <2>1, <3>1, <3>2 DEF q
  <2>7. Len(buf) = p + (n + 2 + Len(b1))
    BY <2>1, <2>2, <2>3 DEF p
  <2>8. Len(buf) \in Nat /\ p + n + 2 <= Len(buf)
    <3>1. n \in Nat /\ p \in Nat /\ Len(b1) \in Nat
      BY <1>1, <2>1, <2>4
    <3> QED
      BY <2>7, <3>1
  <2>9. buf \in Seq(Byte)
    BY <2>2, <2>3
  <2> QED
    BY <2>4, <2>6, <2>8, <2>9
<1>k. k = p + 1
  BY <1>a DEF p
<1> DEFINE end == k + 1 + n
<1>6. buf[k] = <<n, 1>>
  <2>1. 1 \in 1..(n + 2)
    BY <1>1
  <2>2. buf[p + 1] = c[1]
    BY <1>5, <2>1
  <2> QED
    BY <1>4, <1>k, <2>2
<1>c. p \in Nat /\ n \in Nat /\ Len(buf) \in Nat /\ p + n + 2 <= Len(buf) /\ Len(e) = n /\ Len(c) = n + 2
  BY <1>1, <1>4, <1>5
<1>7. buf[end] = <<sep, 1>>
  <2>1. end = p + (n + 2) /\ n + 2 \in 1..(n + 2)
    BY <1>c, <1>k
  <2> HIDE DEF end
  <2> QED
    BY <1>4, <1>5, <2>1
<1>8. SubSeq(buf, k + 1, end - 1) = e
  <2> DEFINE q == p + 1
  <2>1. q \in Nat /\ q + Len(e) <= Len(buf)
    BY <1>c
  <2>2. ASSUME NEW i \in 1..Len(e) PROVE buf[q + i] = e[i]
    <3>1. i + 1 \in 1..(n + 2) /\ q + i = p + (i + 1) /\ i \in 1..n
      BY <1>c
    <3> HIDE DEF q
    <3> QED
      BY <1>4, <1>5, <3>1
  <2> HIDE DEF q
  <2>3. SubSeq(buf, q + 1, q + Len(e)) = e
    BY <1>1, <1>5, <2>1, <2>2, SubSeqIs
  <2>4. q + 1 = k + 1 /\ q + Len(e) = end - 1
    BY <1>c, <1>k DEF q
  <2> QED
    BY <2>3, <2>4
<1>9. Decoded(e) = v
  BY <1>1, DecodedEncoded DEF e
<1>10. ~(k > Len(buf) \/ n < 0 \/ end > Len(buf)) /\ buf[k][1] = n /\ buf[end][1] = sep
  <2>1. ~(k > Len(buf) \/ n < 0 \/ end > Len(buf))
    BY <1>c, <1>k
  <2> HIDE DEF end
  <2>2. <<n, 1>>[1] = n /\ <<sep, 1>>[1] = sep
    OBVIOUS
  <2>3. buf[k][1] = n /\ buf[end][1] = sep
    BY <1>6, <1>7, <2>2
  <2> QED
    BY <2>1, <2>3
<1>11. after = end + 1
  <2>1. after = p + Len(c) + 1
    BY <1>a DEF p
  <2> QED
    BY <1>c, <1>k, <2>1
<1> HIDE DEF end
<1>12. ElementsFrom(buf, from, k) =
          IF sep = Semicolon THEN <<v>>
          ELSE IF sep = Comma /\ from[end + 1] # <<>> THEN <<v>> \o from[end + 1] ELSE <<>>
  <2>1. end = k + 1 + n
    BY DEF end
  <2> QED
    BY <1>8, <1>9, <1>10, <2>1 DEF ElementsFrom
<1>13. Comma # Semicolon
  BY DEF Comma, Semicolon
<1> QED
  BY <1>11, <1>12, <1>13 DEF Cons

LEMMA ElementsAt ==
    ASSUME NEW buf \in Seq(Byte), NEW k \in 1..(Len(buf) + 1)
    PROVE  Elements(buf)[k] = ElementsFrom(buf, Elements(buf), k)
<1> DEFINE g == Elements(buf)
           h == [i \in 1..Len(buf) + 1 |-> ElementsFrom(buf, g, i)]
<1>1. g = h
  BY ElementsExist
<1>2. h[k] = ElementsFrom(buf, g, k)
  OBVIOUS
<1> QED
  BY <1>1, <1>2

\* The loop reads back the elements it finds written, wherever they start.
LEMMA ElementsOfInstruction ==
    ASSUME NEW parts \in Seq(Text), parts # <<>>, NEW b0 \in Seq(Byte)
    PROVE  Elements(b0 \o Encoded(ToInstruction(parts)))[Len(b0) + 1] = parts
<1> DEFINE Reads(s, b) == Elements(b \o Encoded(ToInstruction(s)))[Len(b) + 1] = s
           T == {s \in Seq(Text) : s # <<>> => \A b \in Seq(Byte) : Reads(s, b)}
<1>1. <<>> \in T
  OBVIOUS
<1>2. ASSUME NEW more \in Seq(Text), NEW v \in Text, more \in T PROVE <<v>> \o more \in T
  <2>1. <<v>> \in Seq(Text) /\ <<v>> \o more \in Seq(Text)
    BY ConcatProperties
  <2>2. Element(v) \in Seq(Int) /\ <<Comma>> \in Seq(Int) /\ <<Semicolon>> \in Seq(Int)
    BY ElementTyped, TextTyped DEF Comma, Semicolon
  <2> SUFFICES ASSUME NEW b \in Seq(Byte) PROVE Reads(<<v>> \o more, b)
    BY <2>1
  <2> DEFINE text == ToInstruction(<<v>> \o more)
             buf == b \o Encoded(text)
             p == Len(b)
  <2>3. text \in Seq(Int) /\ Encoded(text) \in Seq(Byte)
    BY <2>1, PiecesTyped, EncodedProperties
  <2>4. buf \in Seq(Byte) /\ p \in Nat /\ Len(buf) \in Nat /\ p <= Len(buf)
    <3> DEFINE e == Encoded(text)
    <3> HIDE DEF e
    <3>1. e \in Seq(Byte)
      BY <2>3 DEF e
    <3>2. b \o e \in Seq(Byte) /\ Len(b \o e) = Len(b) + Len(e) /\ Len(b) \in Nat /\ Len(e) \in Nat
      BY <3>1, ConcatProperties, LenProperties
    <3> QED
      BY <3>2 DEF e
  <2> HIDE DEF buf, p
  <2>5. Elements(buf)[p + 1] = ElementsFrom(buf, Elements(buf), p + 1)
    <3>1. p + 1 \in 1..(Len(buf) + 1)
      BY <2>4
    <3> QED
      BY <2>4, <3>1, ElementsAt
  <2>6. CASE more = <<>>
    <3> DEFINE x == Element(v) \o <<Semicolon>>
               none == <<>>
    <3>1. <<v>> \o more = <<v>>
      BY <2>1, <2>6, ConcatEmptySeq
    <3>2. text = x
      BY <3>1, ToInstructionOne
    <3>3. none \in Seq(Byte) /\ Encoded(x) \o none = Encoded(x)
      BY <2>3, <3>2, ConcatEmptySeq, EmptySeq
    <3>4. buf = b \o (Encoded(x) \o none)
      BY <3>2, <3>3 DEF buf
    <3>5. ElementsFrom(buf, Elements(buf), p + 1) = <<v>>
      <4> DEFINE after == p + Len(Encoded(x)) + 1
                 k == p + 1
                 from == Elements(buf)
      <4>1. Written(buf, k, v, Semicolon, after)
        BY <3>3, <3>4 DEF Written, p
      <4> HIDE DEF after, k, from
      <4>2. ElementsFrom(buf, from, k) = <<v>>
        BY <4>1, ElementsRound
      <4> QED
        BY <4>2 DEF k, from
    <3> QED
      BY <2>5, <3>1, <3>5 DEF buf, p
  <2>7. CASE more # <<>>
    <3> DEFINE x == Element(v) \o <<Comma>>
               c == Encoded(x)
               b1 == Encoded(ToInstruction(more))
    <3>1. text = x \o ToInstruction(more)
      BY <2>7, ToInstructionMore
    <3>2. x \in Seq(Int) /\ ToInstruction(more) \in Seq(Int)
      BY <2>2, ConcatProperties, PiecesTyped
    <3>3. Encoded(text) = c \o b1 /\ c \in Seq(Byte) /\ b1 \in Seq(Byte)
      <4> HIDE DEF x
      <4> QED
        BY <3>1, <3>2, EncodedProperties
    <3>4. buf = b \o (c \o b1)
      BY <3>3 DEF buf
    <3>5. \A a \in Seq(Byte) : Elements(a \o b1)[Len(a) + 1] = more
      BY <1>2, <2>7
    <3>6. Elements(buf)[p + Len(c) + 1] = more
      <4> HIDE DEF c, b1, text
      <4>1. b \o c \in Seq(Byte) /\ Len(b \o c) = p + Len(c)
        BY <3>3, ConcatProperties DEF p
      <4>2. (b \o c) \o b1 = buf
        <5>1. c \in Seq(Byte) /\ b1 \in Seq(Byte)
          BY <3>3
        <5>2. (b \o c) \o b1 = b \o (c \o b1)
          <6>1. Associative(b, c, b1)
            BY <5>1, ConcatAt
          <6> QED
            BY <6>1 DEF Associative
        <5> QED
          BY <3>4, <5>2
      <4>3. Elements((b \o c) \o b1)[Len(b \o c) + 1] = more
        BY <3>5, <4>1
      <4> QED
        BY <4>1, <4>2, <4>3
    <3>7. ElementsFrom(buf, Elements(buf), p + 1) = <<v>> \o more
      <4> DEFINE after == p + Len(c) + 1
                 k == p + 1
                 from == Elements(buf)
      <4>1. Written(buf, k, v, Comma, after)
        BY <3>3, <3>4 DEF Written, p
      <4>2. from[after] = more
        BY <3>6
      <4> HIDE DEF after, k, from
      <4>3. ElementsFrom(buf, from, k) = Cons(v, from[after])
        BY <2>7, <4>1, <4>2, ElementsRound
      <4> QED
        BY <4>2, <4>3 DEF k, from, Cons
    <3> QED
      BY <2>5, <3>7 DEF buf, p
  <2> QED
    BY <2>6, <2>7
<1>3. Seq(Text) \subseteq T
  <2> HIDE DEF T
  <2> QED
    BY <1>1, <1>2, SeqInductFront
<1> QED
  BY <1>3

\* parseInstruction undoes toInstruction: the elements of any instruction come
\* back whole, whatever their characters' widths, as long as none holds a `;`.
THEOREM ParseUndoes ==
    ASSUME NEW parts \in Seq(Text), parts # <<>>
    PROVE  ParseInstruction(ToInstruction(parts)) = parts
<1> DEFINE e == Encoded(ToInstruction(parts))
           b == <<>>
<1>1. e \in Seq(Byte)
  BY PiecesTyped, EncodedProperties
<1>2. b \in Seq(Byte) /\ Len(b) + 1 = 1 /\ b \o e = e
  <2> HIDE DEF e
  <2> QED
    BY <1>1, ConcatEmptySeq
<1> HIDE DEF b
<1>3. Elements(b \o e)[Len(b) + 1] = parts
  BY <1>2, ElementsOfInstruction
<1> QED
  BY <1>2, <1>3, ParseIs

----------------------------------------------------------------------------
(* The loop of receive.                                                    *)

Found(text) == CHOOSE from : from = [k \in 1..Len(text) + 1 |-> InstructionsFrom(text, from, k)]

LEMMA InstructionsIs == \A text : Instructions(text) = Found(text)[1]
  BY DEF Instructions, Found

\* The next end, from character k on.
EndsFrom(text, k) == {e \in Ends(text) : e >= k}
FirstEnd(text, k) == CHOOSE e \in EndsFrom(text, k) : \A j \in EndsFrom(text, k) : e <= j

LEMMA FirstEndIs ==
    ASSUME NEW text \in Seq(Int), NEW k \in Nat, EndsFrom(text, k) # {}
    PROVE  /\ FirstEnd(text, k) \in EndsFrom(text, k)
           /\ \A j \in EndsFrom(text, k) : FirstEnd(text, k) <= j
<1>1. EndsFrom(text, k) \subseteq Nat
  BY LenProperties DEF EndsFrom, Ends
<1>2. \E e \in EndsFrom(text, k) : \A j \in EndsFrom(text, k) : e <= j
  BY <1>1, LeastNumber
<1> QED
  BY <1>2 DEF FirstEnd

\* The rounds of the loop build one function.
LEMMA FoundExists ==
    ASSUME NEW text \in Seq(Int)
    PROVE  Found(text) = [k \in 1..Len(text) + 1 |-> InstructionsFrom(text, Found(text), k)]
<1> DEFINE n == Len(text)
           parts(k) == ParseInstruction(SubSeq(text, k, FirstEnd(text, k)))
           here(k) == IF parts(k) = <<>> THEN <<>> ELSE <<parts(k)>>
           W == {parts(k) : k \in 1..n}
           V == Seq(W)
           step == [k \in 1..n |-> [v \in V |-> IF EndsFrom(text, k) = {} THEN <<>> ELSE here(k) \o v]]
           next == [k \in 1..n |-> IF EndsFrom(text, k) = {} THEN n + 1 ELSE FirstEnd(text, k) + 1]
           base == <<>>
<1>1. n \in Nat
  BY LenProperties
<1>2. Forward(next, n)
  <2> SUFFICES ASSUME NEW k \in 1..n PROVE next[k] \in (k + 1)..(n + 1)
    BY DEF Forward
  <2>1. CASE EndsFrom(text, k) = {}
    BY <1>1, <2>1
  <2>2. CASE EndsFrom(text, k) # {}
    <3>1. FirstEnd(text, k) \in EndsFrom(text, k) /\ k \in Nat
      BY <2>2, FirstEndIs
    <3>2. FirstEnd(text, k) \in k..n
      BY <1>1, <3>1, LenProperties DEF EndsFrom, Ends
    <3> QED
      BY <1>1, <2>2, <3>2
  <2> QED
    BY <2>1, <2>2
<1>3. base \in V /\ StepsIn(step, n, V)
  <2> HIDE DEF W, parts
  <2>1. base \in V
    OBVIOUS
  <2>2. ASSUME NEW k \in 1..n, NEW v \in V PROVE step[k][v] \in V
    <3>1. here(k) \in V
      <4>1. parts(k) \in W
        BY DEF W, parts
      <4> QED
        BY <2>1, <4>1
    <3>2. here(k) \o v \in V
      BY <3>1, ConcatProperties
    <3>3. step[k][v] = IF EndsFrom(text, k) = {} THEN base ELSE here(k) \o v
      OBVIOUS
    <3> HIDE DEF V, step, here, base
    <3> QED
      BY <2>1, <3>2, <3>3
  <2> QED
    BY <2>1, <2>2 DEF StepsIn
<1> HIDE DEF V, step, next, base
<1>4. PICK f \in [1..(n + 1) -> V] : Recurs(f, n, base, step, next)
  BY <1>1, <1>2, <1>3, Recursion
<1>5. f[n + 1] = base /\ \A k \in 1..n : f[k] = step[k][f[next[k]]]
  BY <1>4 DEF Recurs
<1>6. f[n + 1] = InstructionsFrom(text, f, n + 1)
  <2>1. EndsFrom(text, n + 1) = {}
    BY <1>1, LenProperties DEF EndsFrom, Ends
  <2>2. InstructionsFrom(text, f, n + 1) = <<>>
    BY <2>1 DEF InstructionsFrom, EndsFrom
  <2> QED
    BY <1>5, <2>2 DEF base
<1>7. ASSUME NEW k \in 1..n PROVE f[k] = InstructionsFrom(text, f, k)
  <2>1. next[k] \in 1..(n + 1)
    <3>1. next[k] \in (k + 1)..(n + 1)
      BY <1>2 DEF Forward
    <3> QED
      BY <1>1, <3>1
  <2> DEFINE w == f[next[k]]
  <2>2. w \in V
    BY <1>4, <2>1
  <2> HIDE DEF w
  <2>3. f[k] = IF EndsFrom(text, k) = {} THEN <<>> ELSE here(k) \o w
    <3>1. f[k] = step[k][w]
      BY <1>5 DEF w
    <3> HIDE DEF here
    <3> QED
      BY <2>2, <3>1 DEF step
  <2>4. EndsFrom(text, k) # {} => w = f[FirstEnd(text, k) + 1]
    BY DEF next, w
  <2>5. InstructionsFrom(text, f, k) =
           IF EndsFrom(text, k) = {} THEN <<>> ELSE here(k) \o f[FirstEnd(text, k) + 1]
    BY DEF InstructionsFrom, EndsFrom, FirstEnd
  <2> HIDE DEF here
  <2> QED
    BY <2>3, <2>4, <2>5
<1>8. \A k \in 1..(n + 1) : f[k] = InstructionsFrom(text, f, k)
  BY <1>1, <1>6, <1>7
<1>9. f = [k \in 1..Len(text) + 1 |-> InstructionsFrom(text, f, k)]
  <2>1. f = [k \in 1..(n + 1) |-> f[k]]
    BY <1>4
  <2>2. [k \in 1..(n + 1) |-> f[k]] = [k \in 1..(n + 1) |-> InstructionsFrom(text, f, k)]
    BY <1>8
  <2> QED
    BY <2>1, <2>2
<1> QED
  BY <1>9 DEF Found

LEMMA FoundAt ==
    ASSUME NEW text \in Seq(Int), NEW k \in 1..(Len(text) + 1)
    PROVE  Found(text)[k] = InstructionsFrom(text, Found(text), k)
<1> DEFINE g == Found(text)
           h == [i \in 1..Len(text) + 1 |-> InstructionsFrom(text, g, i)]
<1>1. g = h
  BY FoundExists
<1>2. h[k] = InstructionsFrom(text, g, k)
  OBVIOUS
<1> QED
  BY <1>1, <1>2

Message == Seq(Text) \ {<<>>}

\* In text the instruction parts is written from character k on, up to before
\* character after.
Holds(text, k, parts, after) ==
    /\ parts \in Message
    /\ \E t0, t1 \in Seq(Int) :
          /\ text = t0 \o (ToInstruction(parts) \o t1)
          /\ k = Len(t0) + 1
          /\ after = Len(t0) + Len(ToInstruction(parts)) + 1

LEMMA EndOfInstruction ==
    ASSUME NEW parts \in Message
    PROVE  /\ ToInstruction(parts) \in Seq(Int)
           /\ Len(ToInstruction(parts)) \in Nat \ {0}
           /\ Ends(ToInstruction(parts)) = {Len(ToInstruction(parts))}
<1> DEFINE last == <<Semicolon>>
<1>1. PICK body \in Text : ToInstruction(parts) = body \o last
  BY ToInstructionEnds DEF Message
<1>2. /\ body \in Seq(Int) /\ last \in Seq(Int) /\ Len(last) = 1 /\ last[1] = Semicolon
      /\ Len(body) \in Nat /\ \A i \in 1..Len(body) : body[i] # Semicolon
  <2>1. \A i \in 1..Len(body) : body[i] \in Int \ {Semicolon}
    BY ElementOfSeq DEF Text
  <2> QED
    BY <2>1, TextTyped, LenProperties DEF Semicolon
<1> HIDE DEF last
<1>3. /\ body \o last \in Seq(Int) /\ Len(body \o last) = Len(body) + 1
      /\ \A i \in 1..Len(body) : (body \o last)[i] = body[i]
      /\ (body \o last)[Len(body) + 1] = Semicolon
  <2>1. /\ body \o last \in Seq(Int) /\ Len(body \o last) = Len(body) + Len(last)
        /\ \A i \in 1..(Len(body) + Len(last)) :
              (body \o last)[i] = IF i <= Len(body) THEN body[i] ELSE last[i - Len(body)]
    BY <1>2, ConcatProperties
  <2> DEFINE n == Len(body)
  <2> HIDE DEF n
  <2>2. n \in Nat /\ \A i \in 1..(n + 1) : (body \o last)[i] = IF i <= n THEN body[i] ELSE last[i - n]
    BY <1>2, <2>1 DEF n
  <2>3. ASSUME NEW i \in 1..n PROVE (body \o last)[i] = body[i]
    <3>1. i \in 1..(n + 1) /\ i <= n
      BY <2>2
    <3> QED
      BY <2>2, <3>1
  <2>4. (body \o last)[n + 1] = Semicolon
    <3> DEFINE q == n + 1
    <3>1. q \in 1..(n + 1) /\ ~(q <= n) /\ q - n = 1
      BY <2>2
    <3> HIDE DEF q
    <3>2. (body \o last)[q] = last[q - n]
      BY <2>2, <3>1
    <3> QED
      BY <1>2, <3>1, <3>2 DEF q
  <2> QED
    BY <1>2, <2>1, <2>3, <2>4 DEF n
<1> DEFINE x == body \o last
           n == Len(body)
<1> HIDE DEF x, n
<1>4. /\ x \in Seq(Int) /\ Len(x) = n + 1 /\ n \in Nat /\ x[n + 1] = Semicolon
      /\ \A i \in 1..n : x[i] # Semicolon
  BY <1>2, <1>3 DEF x, n
<1>5. Ends(x) = {n + 1}
  <2>1. DOMAIN x = 1..(n + 1)
    BY <1>4, LenProperties
  <2>2. \A i \in 1..(n + 1) : i \in 1..n \/ i = n + 1
    BY <1>4
  <2>3. n + 1 \in 1..(n + 1)
    BY <1>4
  <2> QED
    BY <1>4, <2>1, <2>2, <2>3 DEF Ends
<1> QED
  BY <1>1, <1>4, <1>5 DEF x

LEMMA Middle ==
    ASSUME NEW S, NEW a \in Seq(S), NEW b \in Seq(S), NEW c \in Seq(S)
    PROVE  /\ a \o (b \o c) \in Seq(S)
           /\ Len(a \o (b \o c)) = Len(a) + (Len(b) + Len(c))
           /\ \A i \in 1..Len(b) : (a \o (b \o c))[Len(a) + i] = b[i]
<1> DEFINE d == b \o c
           m == Len(a)
           n == Len(b)
           l == Len(c)
<1>1. m \in Nat /\ n \in Nat /\ l \in Nat
  BY LenProperties
<1>2. /\ d \in Seq(S) /\ Len(d) = Len(b) + Len(c)
      /\ \A i \in 1..(Len(b) + Len(c)) : d[i] = IF i <= Len(b) THEN b[i] ELSE c[i - Len(b)]
  BY ConcatProperties
<1> HIDE DEF d
<1>3. /\ a \o d \in Seq(S) /\ Len(a \o d) = Len(a) + Len(d)
      /\ \A i \in 1..(Len(a) + Len(d)) : (a \o d)[i] = IF i <= Len(a) THEN a[i] ELSE d[i - Len(a)]
  <2>1. d \in Seq(S)
    BY <1>2
  <2> QED
    BY <2>1, ConcatProperties
<1> HIDE DEF m, n, l
<1>4. /\ Len(d) = n + l /\ Len(a \o d) = m + (n + l) /\ \A i \in 1..n : d[i] = b[i]
      /\ \A i \in 1..(m + (n + l)) : (a \o d)[i] = IF i <= m THEN a[i] ELSE d[i - m]
  <2>1. Len(d) = n + l
    BY <1>2 DEF n, l
  <2>2. Len(a \o d) = m + (n + l)
    BY <1>3, <2>1 DEF m
  <2>3. \A i \in 1..(n + l) : d[i] = IF i <= n THEN b[i] ELSE c[i - n]
    BY <1>2 DEF n, l
  <2>4. \A i \in 1..n : d[i] = b[i]
    BY <1>1, <2>3
  <2>5. \A i \in 1..(m + (n + l)) : (a \o d)[i] = IF i <= m THEN a[i] ELSE d[i - m]
    BY <1>3, <2>1 DEF m
  <2> QED
    BY <2>1, <2>2, <2>4, <2>5
<1>5. ASSUME NEW i \in 1..n PROVE (a \o d)[m + i] = b[i]
  <2> DEFINE q == m + i
  <2>1. q \in 1..(m + (n + l)) /\ ~(q <= m) /\ q - m = i
    BY <1>1
  <2> HIDE DEF q
  <2>2. (a \o d)[q] = d[q - m]
    BY <1>4, <2>1
  <2> QED
    BY <1>4, <2>1, <2>2 DEF q
<1>6. a \o d \in Seq(S) /\ Len(a \o d) = m + (n + l)
  BY <1>3, <1>4
<1> QED
  BY <1>5, <1>6 DEF d, m, n, l

\* A round that stands before an instruction finds it.
LEMMA InstructionRound ==
    ASSUME NEW text, NEW k, NEW parts, NEW after, Holds(text, k, parts, after), NEW from
    PROVE  InstructionsFrom(text, from, k) = Cons(parts, from[after])
<1> DEFINE x == ToInstruction(parts)
<1>1. PICK t0 \in Seq(Int), t1 \in Seq(Int) :
         text = t0 \o (x \o t1) /\ k = Len(t0) + 1 /\ after = Len(t0) + Len(x) + 1
  BY DEF Holds
<1>2. parts \in Message /\ parts \in Seq(Text) /\ parts # <<>>
  BY DEF Holds, Message
<1>3. x \in Seq(Int) /\ Len(x) \in Nat \ {0} /\ Ends(x) = {Len(x)}
  BY <1>2, EndOfInstruction
<1>4. ParseInstruction(x) = parts
  BY <1>2, ParseUndoes
<1> DEFINE p == Len(t0)
           n == Len(x)
<1> HIDE DEF x
<1>5. /\ text \in Seq(Int) /\ Len(text) = p + (n + Len(t1)) /\ Len(t1) \in Nat /\ p \in Nat
      /\ \A i \in 1..n : text[p + i] = x[i]
  <2>1. /\ t0 \o (x \o t1) \in Seq(Int)
        /\ Len(t0 \o (x \o t1)) = Len(t0) + (Len(x) + Len(t1))
        /\ \A i \in 1..Len(x) : (t0 \o (x \o t1))[Len(t0) + i] = x[i]
    BY <1>3, Middle
  <2>2. Len(t1) \in Nat /\ p \in Nat
    BY LenProperties
  <2> QED
    BY <1>1, <2>1, <2>2
<1> DEFINE l == Len(text)
<1> HIDE DEF p, n, l
<1>6. n \in Nat \ {0} /\ p \in Nat /\ l \in Nat /\ p + n <= l /\ k = p + 1 /\ after = p + n + 1
  <2>1. l = p + (n + Len(t1)) /\ Len(t1) \in Nat /\ p \in Nat
    BY <1>5 DEF l
  <2>2. n \in Nat \ {0} /\ k = p + 1 /\ after = p + n + 1
    BY <1>1, <1>3 DEF p, n
  <2> QED
    BY <2>1, <2>2
<1>7. DOMAIN text = 1..l /\ DOMAIN x = 1..n
  BY <1>3, <1>5, LenProperties DEF n, l
<1>8. x[n] = Semicolon /\ \A i \in 1..n : x[i] = Semicolon => i = n
  BY <1>3, <1>7 DEF Ends, n
<1>9. p + n \in EndsFrom(text, k)
  <2>1. p + n \in 1..l /\ p + n >= k /\ n \in 1..n
    BY <1>6
  <2>2. text[p + n] = Semicolon
    BY <1>5, <1>8, <2>1
  <2> QED
    BY <1>7, <2>1, <2>2 DEF EndsFrom, Ends
<1>10. \A j \in EndsFrom(text, k) : p + n <= j
  <2> SUFFICES ASSUME NEW j \in EndsFrom(text, k), ~(p + n <= j) PROVE FALSE
    OBVIOUS
  <2>1. j \in 1..l /\ j >= k /\ text[j] = Semicolon
    BY <1>7 DEF EndsFrom, Ends
  <2> DEFINE i == j - p
  <2>2. i \in 1..n /\ p + i = j /\ i # n
    BY <1>6, <2>1
  <2> HIDE DEF i
  <2>3. text[p + i] = x[i]
    BY <1>5, <2>2
  <2> QED
    BY <1>8, <2>1, <2>2, <2>3
<1>11. FirstEnd(text, k) = p + n
  <2>1. FirstEnd(text, k) \in EndsFrom(text, k) /\ \A j \in EndsFrom(text, k) : FirstEnd(text, k) <= j
    <3>1. k \in Nat
      BY <1>6
    <3> QED
      BY <1>5, <1>9, <3>1, FirstEndIs
  <2>2. FirstEnd(text, k) <= p + n /\ p + n <= FirstEnd(text, k)
    BY <1>9, <1>10, <2>1
  <2>3. FirstEnd(text, k) \in Int /\ p + n \in Int
    BY <1>6, <1>7, <2>1 DEF EndsFrom, Ends
  <2> QED
    BY <2>2, <2>3
<1>12. SubSeq(text, k, p + n) = x
  <2>1. p + Len(x) <= Len(text) /\ \A i \in 1..Len(x) : text[p + i] = x[i]
    BY <1>5, <1>6 DEF n, l
  <2>2. SubSeq(text, p + 1, p + Len(x)) = x
    BY <1>3, <1>5, <2>1, SubSeqIs
  <2> QED
    BY <1>6, <2>2 DEF n
<1>13. InstructionsFrom(text, from, k) =
          (IF parts = <<>> THEN <<>> ELSE <<parts>>) \o from[FirstEnd(text, k) + 1]
  <2> DEFINE end == FirstEnd(text, k)
             read == ParseInstruction(SubSeq(text, k, end))
  <2>1. InstructionsFrom(text, from, k) =
           IF EndsFrom(text, k) = {} THEN <<>>
           ELSE (IF read = <<>> THEN <<>> ELSE <<read>>) \o from[end + 1]
    BY DEF InstructionsFrom, EndsFrom, FirstEnd
  <2>2. read = parts
    BY <1>4, <1>11, <1>12
  <2> HIDE DEF read
  <2> QED
    BY <1>9, <2>1, <2>2
<1>14. FirstEnd(text, k) + 1 = after
  BY <1>6, <1>11
<1> QED
  BY <1>2, <1>13, <1>14 DEF Cons

----------------------------------------------------------------------------
(* The stream of the instructions guacd sends.                             *)

Spelt == [parts \in Message |-> ToInstruction(parts)]
Stream(insts) == Flat(Spelt, insts)

LEMMA StreamEmits == Emits(Spelt, Message, Int)
  BY EndOfInstruction DEF Emits, Spelt

LEMMA StreamTyped == Stream(<<>>) = <<>> /\ \A s \in Seq(Message) : Stream(s) \in Seq(Int)
  BY StreamEmits, FlatEmpty, FlatTyped DEF Stream

LEMMA StreamConcat == \A s, t \in Seq(Message) : Stream(s \o t) = Stream(s) \o Stream(t)
  BY StreamEmits, FlatConcat DEF Stream

LEMMA StreamOne == \A x \in Message : Stream(<<x>>) = ToInstruction(x) /\ <<x>> \in Seq(Message)
<1> SUFFICES ASSUME NEW x \in Message
             PROVE  Stream(<<x>>) = ToInstruction(x) /\ <<x>> \in Seq(Message)
  OBVIOUS
<1>1. Flat(Spelt, <<x>>) = Spelt[x]
  BY StreamEmits, FlatSingle
<1> QED
  BY <1>1 DEF Stream, Spelt

LEMMA NoMoreEnds ==
    ASSUME NEW t0 \in Seq(Int), NEW tail \in Seq(Int), Ends(tail) = {}
    PROVE  EndsFrom(t0 \o tail, Len(t0) + 1) = {}
<1> DEFINE p == Len(t0)
           n == Len(tail)
           text == t0 \o tail
<1>1. /\ p \in Nat /\ n \in Nat /\ DOMAIN tail = 1..n /\ text \in Seq(Int) /\ Len(text) = p + n
      /\ \A i \in 1..(p + n) : text[i] = IF i <= p THEN t0[i] ELSE tail[i - p]
  BY ConcatProperties, LenProperties
<1>2. DOMAIN text = 1..(p + n)
  BY <1>1, LenProperties
<1> HIDE DEF p, n, text
<1>3. ASSUME NEW e \in EndsFrom(text, p + 1) PROVE FALSE
  <2>1. e \in 1..(p + n) /\ e >= p + 1 /\ text[e] = Semicolon
    BY <1>2 DEF EndsFrom, Ends
  <2> DEFINE i == e - p
  <2>2. i \in 1..n /\ ~(e <= p)
    BY <1>1, <2>1
  <2>3. text[e] = tail[i]
    BY <1>1, <2>1, <2>2
  <2> HIDE DEF i
  <2> QED
    BY <1>1, <2>1, <2>2, <2>3 DEF Ends
<1> QED
  BY <1>3 DEF p, text

\* The loop hands out the instructions it finds written, in order.
LEMMA FoundInStream ==
    ASSUME NEW insts \in Seq(Message), NEW t0 \in Seq(Int), NEW tail \in Seq(Int), Ends(tail) = {}
    PROVE  Found(t0 \o (Stream(insts) \o tail))[Len(t0) + 1] = insts
<1> DEFINE Reads(s, t) == Found(t \o (Stream(s) \o tail))[Len(t) + 1] = s
           T == {s \in Seq(Message) : \A t \in Seq(Int) : Reads(s, t)}
<1>1. <<>> \in T
  <2> SUFFICES ASSUME NEW t \in Seq(Int) PROVE Reads(<<>>, t)
    OBVIOUS
  <2>1. Stream(<<>>) \o tail = tail
    BY StreamTyped, ConcatEmptySeq
  <2> DEFINE text == t \o tail
             k == Len(t) + 1
  <2>2. text \in Seq(Int) /\ k \in 1..(Len(text) + 1)
    BY ConcatProperties, LenProperties
  <2>3. EndsFrom(text, k) = {}
    BY NoMoreEnds
  <2> HIDE DEF text, k
  <2>4. Found(text)[k] = InstructionsFrom(text, Found(text), k)
    BY <2>2, FoundAt
  <2>5. InstructionsFrom(text, Found(text), k) = <<>>
    BY <2>3 DEF InstructionsFrom, EndsFrom
  <2> QED
    BY <2>1, <2>4, <2>5 DEF text, k
<1>2. ASSUME NEW more \in Seq(Message), NEW v \in Message, more \in T PROVE <<v>> \o more \in T
  <2>1. <<v>> \in Seq(Message) /\ <<v>> \o more \in Seq(Message)
    BY ConcatProperties
  <2> SUFFICES ASSUME NEW t \in Seq(Int) PROVE Reads(<<v>> \o more, t)
    BY <2>1
  <2> DEFINE x == ToInstruction(v)
             t1 == Stream(more) \o tail
             text == t \o (x \o t1)
             k == Len(t) + 1
             after == Len(t) + Len(x) + 1
  <2>2. x \in Seq(Int) /\ Len(x) \in Nat /\ Stream(more) \in Seq(Int)
    BY EndOfInstruction, StreamTyped
  <2>3. t1 \in Seq(Int)
    BY <2>2, ConcatProperties
  <2>4. Stream(<<v>> \o more) = x \o Stream(more)
    <3>1. Stream(<<v>> \o more) = Stream(<<v>>) \o Stream(more)
      BY <2>1, StreamConcat
    <3> QED
      BY <3>1, StreamOne
  <2>5. Stream(<<v>> \o more) \o tail = x \o t1
    <3> DEFINE b == Stream(more)
    <3> HIDE DEF b, x
    <3>1. (x \o b) \o tail = x \o (b \o tail)
      BY <2>2, ConcatText DEF b
    <3> QED
      BY <2>4, <3>1 DEF b
  <2> HIDE DEF x, t1
  <2>6. text \in Seq(Int) /\ Len(text) = Len(t) + (Len(x) + Len(t1)) /\ Len(t1) \in Nat /\ Len(t) \in Nat
    <3>1. Len(t1) \in Nat /\ Len(t) \in Nat
      BY <2>3, LenProperties
    <3>2. t \o (x \o t1) \in Seq(Int) /\ Len(t \o (x \o t1)) = Len(t) + (Len(x) + Len(t1))
      BY <2>2, <2>3, Middle
    <3> QED
      BY <3>1, <3>2
  <2>7. k \in 1..(Len(text) + 1)
    BY <2>2, <2>6
  <2>8. Holds(text, k, v, after)
    BY <2>3 DEF Holds, x
  <2>9. Found(text)[after] = more
    <3> DEFINE u == t \o x
    <3>1. u \in Seq(Int) /\ Len(u) = Len(t) + Len(x)
      BY <2>2, ConcatProperties
    <3>2. u \o t1 = text
      BY <2>2, <2>3, ConcatText
    <3> HIDE DEF u, text
    <3>3. Found(u \o t1)[Len(u) + 1] = more
      BY <1>2, <3>1 DEF t1
    <3> QED
      BY <3>1, <3>2, <3>3
  <2> DEFINE from == Found(text)
  <2> HIDE DEF text, k, after
  <2>10. from[k] = InstructionsFrom(text, from, k)
    BY <2>6, <2>7, FoundAt
  <2> HIDE DEF from
  <2>11. InstructionsFrom(text, from, k) = Cons(v, from[after])
    BY <2>8, InstructionRound
  <2>12. Found(text)[k] = <<v>> \o more
    BY <2>9, <2>10, <2>11 DEF Cons, from
  <2> QED
    BY <2>5, <2>12 DEF text, k
<1>3. Seq(Message) \subseteq T
  <2> HIDE DEF T
  <2> QED
    BY <1>1, <1>2, SeqInductFront
<1> QED
  BY <1>3

\* The loop of receive hands out each whole instruction of the buffer, and
\* nothing of what follows the last.
THEOREM InstructionsOfStream ==
    ASSUME NEW insts \in Seq(Message), NEW tail \in Seq(Int), Ends(tail) = {}
    PROVE  Instructions(Stream(insts) \o tail) = insts
<1> DEFINE none == <<>>
           text == Stream(insts) \o tail
<1>1. text \in Seq(Int)
  BY StreamTyped, ConcatProperties
<1>2. none \in Seq(Int) /\ Len(none) + 1 = 1 /\ none \o text = text
  <2> HIDE DEF text
  <2> QED
    BY <1>1, ConcatEmptySeq
<1> HIDE DEF none
<1>3. Found(none \o text)[Len(none) + 1] = insts
  BY <1>2, FoundInStream
<1> QED
  BY <1>2, <1>3, InstructionsIs

----------------------------------------------------------------------------
(* A piece of the stream: whole instructions and the start of one.         *)

\* What two ways of cutting one sequence have in common.
Overlap(S, a, b, c, d) == a \o b = c \o d => \E m \in Seq(S) : a = c \o m /\ m \o b = d

LEMMA ConcatOverlap ==
    ASSUME NEW S, NEW a \in Seq(S), NEW b \in Seq(S), NEW c \in Seq(S), NEW d \in Seq(S),
           Len(c) <= Len(a)
    PROVE  Overlap(S, a, b, c, d)
<1> SUFFICES ASSUME a \o b = c \o d PROVE \E m \in Seq(S) : a = c \o m /\ m \o b = d
  BY DEF Overlap
<1> DEFINE p == Len(c)
           n == Len(a)
           m == SubSeq(a, p + 1, n)
           front == SubSeq(a, 1, p)
<1>1. p \in Nat /\ n \in Nat /\ p <= n /\ 1 \in Int /\ \A i \in 1..n : a[i] \in S
  BY LenProperties, ElementOfSeq
<1>2. m \in Seq(S)
  <2>1. \A i \in (p + 1)..n : a[i] \in S
    BY <1>1
  <2> QED
    BY <1>1, <2>1, SubSeqProperties
<1>3. front = c
  <2>1. \A i \in 1..n : (a \o b)[i] = a[i]
    BY ConcatProperties, LenProperties
  <2>2. \A i \in 1..p : (c \o d)[i] = c[i]
    BY ConcatProperties, LenProperties
  <2>3. \A i \in 1..p : a[i] = c[i]
    BY <1>1, <2>1, <2>2
  <2> DEFINE z == 0
  <2>4. z \in Nat /\ z + p <= n /\ \A i \in 1..p : a[z + i] = c[i]
    <3>1. \A i \in 1..p : z + i = i
      OBVIOUS
    <3> QED
      BY <1>1, <2>3, <3>1
  <2> HIDE DEF z
  <2>5. SubSeq(a, z + 1, z + Len(c)) = c
    BY <2>4, SubSeqIs
  <2>6. z + 1 = 1 /\ z + Len(c) = p
    BY <1>1 DEF z
  <2> QED
    BY <2>5, <2>6
<1>4. a = front \o m
  <2>1. 1 \in 1..(Len(a) + 1) /\ p \in (1 - 1)..Len(a) /\ n \in p..Len(a)
    BY <1>1
  <2>2. SubSeq(a, 1, p) \o SubSeq(a, p + 1, n) = SubSeq(a, 1, n)
    BY <2>1, ConcatAdjacentSubSeq
  <2> QED
    BY <2>2, SubSeqFull
<1> HIDE DEF m, front
<1>5. c \o (m \o b) = c \o d
  <2>1. Associative(c, m, b)
    BY <1>2, ConcatAt
  <2>2. a = c \o m
    BY <1>3, <1>4
  <2> QED
    BY <2>1, <2>2 DEF Associative
<1>6. m \o b = d
  <2>1. m \o b \in Seq(S)
    BY <1>2, ConcatProperties
  <2> QED
    BY <1>5, <2>1, ConcatSimplifications
<1> QED
  BY <1>2, <1>3, <1>4, <1>6

LEMMA ConcatMessages ==
    ASSUME NEW a \in Seq(Message), NEW b \in Seq(Message), NEW c \in Seq(Message)
    PROVE  (a \o b) \o c = a \o (b \o c)
<1>1. Associative(a, b, c)
  BY ConcatAt
<1> QED
  BY <1>1 DEF Associative

\* text is whole instructions and, with t2, the start of the others.
Splits(insts, text, t2) ==
    \E i1, i2 \in Seq(Message), tail \in Seq(Int) :
        /\ insts = i1 \o i2
        /\ text = Stream(i1) \o tail
        /\ tail \o t2 = Stream(i2)
        /\ Ends(tail) = {}

LEMMA SplitsIntro ==
    ASSUME NEW insts, NEW text, NEW t2, NEW i1 \in Seq(Message), NEW i2 \in Seq(Message), NEW tail \in Seq(Int),
           insts = i1 \o i2, text = Stream(i1) \o tail, tail \o t2 = Stream(i2), Ends(tail) = {}
    PROVE  Splits(insts, text, t2)
BY DEF Splits

LEMMA SplitsGrow ==
    ASSUME NEW s \in Seq(Message), NEW one \in Seq(Message), NEW text \in Seq(Int), NEW m \in Seq(Int),
           Splits(s, text, m)
    PROVE  Splits(s \o one, text, m \o Stream(one))
<1>1. PICK i1 \in Seq(Message), i2 \in Seq(Message), tail \in Seq(Int) :
         s = i1 \o i2 /\ text = Stream(i1) \o tail /\ tail \o m = Stream(i2) /\ Ends(tail) = {}
  BY DEF Splits
<1> DEFINE w == Stream(one)
<1>2. w \in Seq(Int) /\ i2 \o one \in Seq(Message) /\ Stream(i2 \o one) = Stream(i2) \o w
  BY StreamTyped, StreamConcat, ConcatProperties
<1> HIDE DEF w
<1>3. tail \o (m \o w) = Stream(i2 \o one)
  <2>1. (tail \o m) \o w = tail \o (m \o w)
    BY <1>2, ConcatText
  <2> QED
    BY <1>1, <1>2, <2>1
<1>4. s \o one = i1 \o (i2 \o one)
  <2>1. (i1 \o i2) \o one = i1 \o (i2 \o one)
    BY ConcatMessages
  <2> QED
    BY <1>1, <2>1
<1>5. Splits(s \o one, text, m \o w)
  BY <1>1, <1>2, <1>3, <1>4, SplitsIntro
<1> QED
  BY <1>5 DEF w

LEMMA SplitsAppend ==
    ASSUME NEW s \in Seq(Message), NEW x \in Message, NEW text \in Seq(Int), NEW t2 \in Seq(Int),
           text \o t2 = Stream(Append(s, x)),
           \A u, v \in Seq(Int) : u \o v = Stream(s) => Splits(s, u, v)
    PROVE  Splits(Append(s, x), text, t2)
<1> DEFINE w == ToInstruction(x)
           b == Stream(s)
           one == <<x>>
<1>1. one \in Seq(Message) /\ Stream(one) = w /\ Append(s, x) = s \o one /\ Append(s, x) \in Seq(Message)
  BY StreamOne, AppendIsConcat, AppendProperties
<1>2. w \in Seq(Int) /\ Len(w) \in Nat /\ Ends(w) = {Len(w)} /\ b \in Seq(Int)
  BY EndOfInstruction, StreamTyped
<1> HIDE DEF w, b, one
<1>3. Stream(Append(s, x)) = b \o w
  BY <1>1, StreamConcat DEF b
<1>4. text \o t2 = b \o w
  BY <1>3
<1> DEFINE none == <<>>
<1>5. none \in Seq(Int) /\ none \in Seq(Message) /\ Stream(none) = none /\ Ends(none) = {}
  BY StreamTyped DEF Ends
<1>6. CASE Len(b) <= Len(text)
  <2>1. PICK tail \in Seq(Int) : text = b \o tail /\ tail \o t2 = w
    <3>1. Overlap(Int, text, t2, b, w)
      BY <1>2, <1>6, ConcatOverlap
    <3> QED
      BY <1>4, <3>1 DEF Overlap
  <2>2. CASE t2 = none
    <3>1. tail = w
      BY <2>1, <2>2, ConcatEmptySeq
    <3>2. text = Stream(Append(s, x)) \o none
      <4>1. text = Stream(Append(s, x)) /\ text \o <<>> = text
        BY <1>3, <2>1, <3>1, ConcatEmptySeq
      <4> QED
        BY <4>1
    <3>3. none \o t2 = Stream(none) /\ Append(s, x) = Append(s, x) \o none
      <4>1. none \o t2 = none
        BY <2>2
      <4>2. Append(s, x) \o <<>> = Append(s, x)
        BY <1>1, ConcatEmptySeq
      <4> QED
        BY <1>5, <4>1, <4>2
    <3> HIDE DEF none
    <3> QED
      BY <1>1, <1>5, <3>2, <3>3, SplitsIntro
  <2>3. CASE t2 # none
    <3>1. Len(t2) \in Nat \ {0}
      BY <2>3, EmptySeq
    <3>2. /\ Len(tail) \in Nat /\ Len(w) = Len(tail) + Len(t2)
          /\ DOMAIN tail = 1..Len(tail) /\ DOMAIN w = 1..Len(w)
          /\ \A i \in 1..Len(tail) : w[i] = tail[i]
      <4>1. /\ Len(tail \o t2) = Len(tail) + Len(t2)
            /\ \A i \in 1..Len(tail) : (tail \o t2)[i] = tail[i]
        BY ConcatProperties, LenProperties
      <4> QED
        BY <1>2, <2>1, <4>1, LenProperties
    <3>3. Ends(tail) = {}
      <4> SUFFICES ASSUME NEW e \in Ends(tail) PROVE FALSE
        OBVIOUS
      <4>1. e \in 1..Len(tail) /\ tail[e] = Semicolon
        BY <3>2 DEF Ends
      <4>2. e \in 1..Len(w) /\ w[e] = Semicolon
        BY <3>1, <3>2, <4>1
      <4>3. e \in Ends(w)
        BY <3>2, <4>2 DEF Ends
      <4> QED
        BY <1>2, <3>1, <3>2, <4>1, <4>3
    <3>4. Append(s, x) = s \o one /\ text = Stream(s) \o tail /\ tail \o t2 = Stream(one)
      BY <1>1, <2>1 DEF b
    <3> QED
      BY <1>1, <3>3, <3>4, SplitsIntro
  <2> QED
    BY <2>2, <2>3
<1>7. CASE ~(Len(b) <= Len(text))
  <2>1. Len(text) <= Len(b) /\ b \o w = text \o t2
    BY <1>2, <1>4, <1>7, LenProperties
  <2>2. PICK m \in Seq(Int) : b = text \o m /\ m \o w = t2
    <3>1. Overlap(Int, b, w, text, t2)
      <4>1. Len(text) <= Len(b)
        BY <2>1
      <4> QED
        BY <1>2, <4>1, ConcatOverlap
    <3> QED
      BY <2>1, <3>1 DEF Overlap
  <2>3. Splits(s, text, m)
    BY <2>2 DEF b
  <2>4. Splits(s \o one, text, m \o Stream(one))
    BY <1>1, <2>3, SplitsGrow
  <2> QED
    BY <1>1, <2>2, <2>4
<1> QED
  BY <1>6, <1>7

LEMMA StreamSplits ==
    ASSUME NEW insts \in Seq(Message), NEW text \in Seq(Int), NEW t2 \in Seq(Int),
           text \o t2 = Stream(insts)
    PROVE  Splits(insts, text, t2)
<1> DEFINE T == {s \in Seq(Message) : \A u, v \in Seq(Int) : u \o v = Stream(s) => Splits(s, u, v)}
           none == <<>>
<1>1. <<>> \in T
  <2> SUFFICES ASSUME NEW u \in Seq(Int), NEW v \in Seq(Int), u \o v = none PROVE Splits(none, u, v)
    BY StreamTyped
  <2>1. u = none /\ v = none
    BY ConcatSimplifications
  <2>2. none \in Seq(Message) /\ none \in Seq(Int) /\ none \o none = none /\ Ends(none) = {} /\ Stream(none) = none
    BY StreamTyped DEF Ends
  <2> HIDE DEF none
  <2> QED
    BY <2>1, <2>2, SplitsIntro
<1>2. ASSUME NEW s \in Seq(Message), NEW x \in Message, s \in T PROVE Append(s, x) \in T
  <2>1. \A u, v \in Seq(Int) : u \o v = Stream(s) => Splits(s, u, v)
    BY <1>2
  <2>2. Append(s, x) \in Seq(Message)
    BY AppendProperties
  <2> QED
    BY <2>1, <2>2, SplitsAppend
<1>3. Seq(Message) \subseteq T
  <2> HIDE DEF T
  <2> QED
    BY <1>1, <1>2, SeqInduct
<1> QED
  BY <1>3

LEMMA StreamEmpty ==
    ASSUME NEW insts \in Seq(Message), insts # <<>>
    PROVE  \E s \in Seq(Message), x \in Message :
              insts = Append(s, x) /\ Stream(insts) = Stream(s) \o ToInstruction(x)
<1>1. PICK s \in Seq(Message), x \in Message : insts = Append(s, x)
  BY SequenceEmptyOrAppend
<1>2. <<x>> \in Seq(Message) /\ Stream(<<x>>) = ToInstruction(x) /\ Append(s, x) = s \o <<x>>
  BY StreamOne, AppendIsConcat
<1>3. Stream(s \o <<x>>) = Stream(s) \o Stream(<<x>>)
  BY <1>2, StreamConcat
<1> QED
  BY <1>1, <1>2, <1>3

\* What stays in the buffer is what follows the whole instructions.
LEMMA RestOfStream ==
    ASSUME NEW insts \in Seq(Message), NEW tail \in Seq(Int), Ends(tail) = {}
    PROVE  Rest(Stream(insts) \o tail) = tail
<1> DEFINE b == Stream(insts)
           text == b \o tail
           p == Len(b)
<1>1. b \in Seq(Int) /\ text \in Seq(Int) /\ p \in Nat
  BY StreamTyped, ConcatProperties, LenProperties
<1>2. EndsFrom(text, p + 1) = {}
  BY <1>1, NoMoreEnds
<1>3. p # 0 => p \in Ends(text)
  <2> SUFFICES ASSUME p # 0 PROVE p \in Ends(text)
    OBVIOUS
  <2>1. insts # <<>>
    BY StreamTyped, EmptySeq
  <2>2. PICK s \in Seq(Message), x \in Message : b = Stream(s) \o ToInstruction(x)
    BY <2>1, StreamEmpty
  <2> DEFINE a == Stream(s)
             w == ToInstruction(x)
  <2>3. a \in Seq(Int) /\ w \in Seq(Int) /\ Len(w) \in Nat \ {0} /\ Ends(w) = {Len(w)} /\ Len(a) \in Nat
    BY EndOfInstruction, StreamTyped, LenProperties
  <2> HIDE DEF a, w
  <2>4. text = a \o (w \o tail)
    <3>1. b = a \o w
      BY <2>2 DEF a, w
    <3>2. (a \o w) \o tail = a \o (w \o tail)
      BY <2>3, ConcatText
    <3> HIDE DEF b
    <3> QED
      BY <3>1, <3>2
  <2>5. /\ Len(a \o (w \o tail)) = Len(a) + (Len(w) + Len(tail)) /\ Len(tail) \in Nat
        /\ \A i \in 1..Len(w) : (a \o (w \o tail))[Len(a) + i] = w[i]
    <3>1. Len(tail) \in Nat
      BY LenProperties
    <3> QED
      BY <2>3, <3>1, Middle
  <2>6. p = Len(a) + Len(w)
    <3>1. b = a \o w
      BY <2>2 DEF a, w
    <3>2. Len(a \o w) = Len(a) + Len(w)
      BY <2>3, ConcatProperties
    <3> QED
      BY <3>1, <3>2
  <2>7. w[Len(w)] = Semicolon
    BY <2>3 DEF Ends
  <2>8. text[p] = Semicolon
    <3>1. Len(w) \in 1..Len(w)
      BY <2>3
    <3>2. (a \o (w \o tail))[Len(a) + Len(w)] = w[Len(w)]
      BY <2>5, <3>1
    <3> QED
      BY <2>4, <2>6, <2>7, <3>2
  <2>9. p \in DOMAIN text
    <3>1. Len(text) = Len(a) + (Len(w) + Len(tail)) /\ DOMAIN text = 1..Len(text)
      BY <1>1, <2>4, <2>5, LenProperties
    <3>2. p \in 1..Len(text)
      BY <2>3, <2>5, <2>6, <3>1
    <3> QED
      BY <3>1, <3>2
  <2> HIDE DEF text
  <2> QED
    BY <2>8, <2>9 DEF Ends
<1>4. LastEnd(text) = p
  <2>1. /\ LastEnd(text) \in Nat
        /\ LastEnd(text) # 0 => LastEnd(text) \in Ends(text)
        /\ \A j \in Ends(text) : j <= LastEnd(text)
    <3>1. LastEnd(text) \in 0..Len(text) /\ Len(text) \in Nat
      BY <1>1, LastEndProperties, LenProperties
    <3>2. /\ LastEnd(text) # 0 => LastEnd(text) \in Ends(text)
          /\ \A j \in Ends(text) : j <= LastEnd(text)
      BY <1>1, LastEndProperties
    <3> QED
      BY <3>1, <3>2
  <2>2. \A j \in Ends(text) : j \in Nat /\ j <= p
    <3>1. \A j \in Ends(text) : j \in Nat /\ ~(j >= p + 1)
      BY <1>1, <1>2, LenProperties DEF EndsFrom, Ends
    <3> QED
      BY <1>1, <3>1
  <2> HIDE DEF text, p
  <2>3. LastEnd(text) <= p
    BY <1>1, <2>1, <2>2
  <2>4. p <= LastEnd(text)
    BY <1>1, <1>3, <2>1
  <2> QED
    BY <1>1, <2>1, <2>3, <2>4
<1>5. SubSeq(b \o tail, Len(b) + 1, Len(b \o tail)) = tail
  <2> HIDE DEF b
  <2> QED
    BY <1>1, SplitConcat
<1> QED
  BY <1>4, <1>5 DEF Rest

----------------------------------------------------------------------------
(* The stream: what is sent and not handed out is what the buffer and the  *)
(* wire spell.                                                             *)

Stands ==
    \E pending \in Seq(Message), text \in Seq(Int) :
        /\ sent = handed \o pending
        /\ failed \/ (buffer \o text = Stream(pending) /\ wire = Encoded(text))

StreamInv ==
    /\ sent \in Seq(Message) /\ handed \in Seq(Message) /\ failed \in BOOLEAN
    /\ BufferInv
    /\ Stands

LEMMA SentGrows ==
    ASSUME NEW b \in Seq(Int), NEW text \in Seq(Int), NEW pending \in Seq(Message), NEW parts \in Message,
           b \o text = Stream(pending)
    PROVE  b \o (text \o ToInstruction(parts)) = Stream(Append(pending, parts))
<1> DEFINE w == ToInstruction(parts)
           one == <<parts>>
<1>1. w \in Seq(Int) /\ one \in Seq(Message) /\ Stream(one) = w /\ Append(pending, parts) = pending \o one
  BY StreamOne, EndOfInstruction, AppendIsConcat
<1> HIDE DEF w, one
<1>2. Stream(pending \o one) = Stream(pending) \o w
  BY <1>1, StreamConcat
<1>3. (b \o text) \o w = b \o (text \o w)
  BY <1>1, ConcatText
<1> QED
  BY <1>1, <1>2, <1>3 DEF w

\* The chunk t1 of what is on the wire, with what waits in the buffer b.
LEMMA ChunkSplits ==
    ASSUME NEW b \in Seq(Int), NEW t1 \in Seq(Int), NEW t2 \in Seq(Int), NEW pending \in Seq(Message),
           b \o (t1 \o t2) = Stream(pending)
    PROVE  \E p \in Seq(Message) :
              /\ pending = Instructions(b \o t1) \o p
              /\ Rest(b \o t1) \o t2 = Stream(p)
              /\ Instructions(b \o t1) \in Seq(Message)
<1> DEFINE text == b \o t1
<1>1. text \in Seq(Int)
  BY ConcatProperties
<1>2. text \o t2 = Stream(pending)
  <2>1. (b \o t1) \o t2 = b \o (t1 \o t2)
    BY ConcatText
  <2> QED
    BY <2>1
<1> HIDE DEF text
<1>3. Splits(pending, text, t2)
  BY <1>1, <1>2, StreamSplits
<1>4. PICK i1 \in Seq(Message), i2 \in Seq(Message), tail \in Seq(Int) :
         pending = i1 \o i2 /\ text = Stream(i1) \o tail /\ tail \o t2 = Stream(i2) /\ Ends(tail) = {}
  BY <1>3 DEF Splits
<1>5. Instructions(Stream(i1) \o tail) = i1 /\ Rest(Stream(i1) \o tail) = tail
  BY <1>4, InstructionsOfStream, RestOfStream
<1>6. Instructions(text) = i1 /\ Rest(text) = tail
  BY <1>4, <1>5
<1> QED
  BY <1>4, <1>6 DEF text

LEMMA StreamInitially == Init => StreamInv
<1> SUFFICES ASSUME Init PROVE StreamInv
  OBVIOUS
<1> DEFINE none == <<>>
<1>1. none \in Seq(Message) /\ none \in Seq(Int) /\ Stream(none) = none /\ Encoded(none) = none /\ none \o none = none
  BY StreamTyped, EncodedProperties
<1>2. sent = none /\ wire = none /\ buffer = none /\ handed = none /\ failed = FALSE
  BY DEF Init
<1> HIDE DEF none
<1>3. Stands
  BY <1>1, <1>2 DEF Stands
<1> QED
  BY <1>1, <1>2, <1>3, BufferInitially DEF StreamInv

LEMMA AppendConcat ==
    ASSUME NEW s \in Seq(Message), NEW t \in Seq(Message), NEW x \in Message
    PROVE  Append(s \o t, x) = s \o Append(t, x)
<1> DEFINE one == <<x>>
<1>1. one \in Seq(Message) /\ s \o t \in Seq(Message)
  BY StreamOne, ConcatProperties
<1>2. Append(s \o t, x) = (s \o t) \o one /\ Append(t, x) = t \o one
  BY <1>1, AppendIsConcat
<1> HIDE DEF one
<1>3. (s \o t) \o one = s \o (t \o one)
  BY <1>1, ConcatMessages
<1> QED
  BY <1>2, <1>3

LEMMA StreamSends ==
    ASSUME StreamInv, NEW parts \in Messages, GuacdSends(parts)
    PROVE  Stands' /\ sent' \in Seq(Message)
<1> DEFINE w == ToInstruction(parts)
<1>1. parts \in Message /\ w \in Seq(Int)
  BY MessagesTyped, EndOfInstruction DEF Message
<1>2. PICK pending \in Seq(Message), text \in Seq(Int) :
         sent = handed \o pending /\ (failed \/ (buffer \o text = Stream(pending) /\ wire = Encoded(text)))
  BY DEF StreamInv, Stands
<1>3. sent' = Append(sent, parts) /\ wire' = wire \o Encoded(w) /\ buffer' = buffer /\ handed' = handed /\ failed' = failed
  BY DEF GuacdSends
<1> HIDE DEF w
<1>4. Append(pending, parts) \in Seq(Message) /\ text \o w \in Seq(Int)
  BY <1>1, ConcatProperties, AppendProperties
<1>5. sent' = handed' \o Append(pending, parts)
  <2>1. handed \in Seq(Message)
    BY DEF StreamInv
  <2>2. Append(handed \o pending, parts) = handed \o Append(pending, parts)
    BY <1>1, <2>1, AppendConcat
  <2> QED
    BY <1>2, <1>3, <2>2
<1>6. failed' \/ (buffer' \o (text \o w) = Stream(Append(pending, parts)) /\ wire' = Encoded(text \o w))
  <2>1. buffer \in Seq(Int)
    BY DEF StreamInv, BufferInv
  <2>2. buffer \o text = Stream(pending) => buffer \o (text \o w) = Stream(Append(pending, parts))
    BY <1>1, <2>1, SentGrows DEF w
  <2>3. Encoded(text \o w) = Encoded(text) \o Encoded(w)
    BY <1>1, EncodedProperties
  <2> QED
    BY <1>2, <1>3, <2>2, <2>3
<1>7. Stands'
  BY <1>4, <1>5, <1>6 DEF Stands
<1> QED
  BY <1>1, <1>3, <1>7, AppendProperties DEF StreamInv

LEMMA StreamReceives ==
    ASSUME ~CutAnywhere, StreamInv, NEW n \in Cuts, Receive(n)
    PROVE  Stands' /\ handed' \in Seq(Message) /\ failed' \in BOOLEAN
<1> DEFINE chunk == Decoded(SubSeq(wire, 1, n))
           text == buffer \o chunk
<1>1. sent' = sent /\ failed = FALSE /\ wire' = SubSeq(wire, n + 1, Len(wire))
  BY DEF Receive, StreamInv
<1>2. PICK pending \in Seq(Message), t \in Seq(Int) :
         sent = handed \o pending /\ (failed \/ (buffer \o t = Stream(pending) /\ wire = Encoded(t)))
  BY DEF StreamInv, Stands
<1>3. buffer \o t = Stream(pending) /\ wire = Encoded(t)
  BY <1>1, <1>2
<1>4. CASE Overflows(buffer, chunk)
  <2>1. failed' = TRUE /\ handed' = handed
    BY <1>4 DEF Receive
  <2>2. Stands'
    BY <1>1, <1>2, <2>1 DEF Stands
  <2> QED
    BY <2>1, <2>2 DEF StreamInv
<1>5. CASE ~Overflows(buffer, chunk)
  <2>1. handed' = handed \o Instructions(text) /\ buffer' = Rest(text) /\ failed' = failed
    BY <1>5 DEF Receive
  <2>2. PICK t1 \in Seq(Int), t2 \in Seq(Int) :
           /\ t = t1 \o t2
           /\ SubSeq(Encoded(t), 1, n) = Encoded(t1)
           /\ SubSeq(Encoded(t), n + 1, Len(Encoded(t))) = Encoded(t2)
    <3>1. wire \in Seq(Byte) /\ Len(wire) \in Nat
      BY LenProperties DEF StreamInv, BufferInv
    <3>2. n \in 0..Len(wire) /\ (n # Len(wire) => wire[n + 1][2] = 1)
      BY <3>1 DEF Cuts
    <3>3. n \in 0..Len(Encoded(t)) /\ (n # Len(Encoded(t)) => Encoded(t)[n + 1][2] = 1)
      BY <1>3, <3>2
    <3> QED
      BY <3>3, CutText
  <2>3. chunk = t1 /\ wire' = Encoded(t2)
    BY <1>1, <1>3, <2>2, DecodedEncoded
  <2> HIDE DEF chunk
  <2>4. PICK p \in Seq(Message) :
           /\ pending = Instructions(buffer \o t1) \o p
           /\ Rest(buffer \o t1) \o t2 = Stream(p)
           /\ Instructions(buffer \o t1) \in Seq(Message)
    <3>1. buffer \in Seq(Int) /\ buffer \o (t1 \o t2) = Stream(pending)
      BY <1>3, <2>2 DEF StreamInv, BufferInv
    <3> QED
      BY <3>1, ChunkSplits
  <2>5. /\ handed' = handed \o Instructions(buffer \o t1)
        /\ buffer' = Rest(buffer \o t1)
    BY <2>1, <2>3
  <2>6. handed \in Seq(Message)
    BY DEF StreamInv
  <2>7. sent' = handed' \o p
    <3>1. (handed \o Instructions(buffer \o t1)) \o p = handed \o (Instructions(buffer \o t1) \o p)
      BY <2>4, <2>6, ConcatMessages
    <3> QED
      BY <1>1, <1>2, <2>4, <2>5, <3>1
  <2>8. Stands'
    BY <2>3, <2>4, <2>5, <2>7 DEF Stands
  <2>9. handed' \in Seq(Message)
    BY <2>4, <2>5, <2>6, ConcatProperties
  <2> QED
    BY <1>1, <2>1, <2>8, <2>9
<1> QED
  BY <1>4, <1>5

LEMMA StreamNext == ~CutAnywhere /\ StreamInv /\ [Next]_vars => StreamInv'
<1> SUFFICES ASSUME ~CutAnywhere, StreamInv, [Next]_vars PROVE StreamInv'
  OBVIOUS
<1>1. BufferInv'
  BY BufferNext DEF StreamInv
<1>2. ASSUME NEW parts \in Messages, GuacdSends(parts) PROVE StreamInv'
  <2>1. Stands' /\ sent' \in Seq(Message)
    BY <1>2, StreamSends
  <2> QED
    BY <1>1, <1>2, <2>1 DEF StreamInv, GuacdSends
<1>3. ASSUME NEW n \in Cuts, Receive(n) PROVE StreamInv'
  <2>1. Stands' /\ handed' \in Seq(Message) /\ failed' \in BOOLEAN
    BY <1>3, StreamReceives
  <2>2. sent' = sent
    BY <1>3 DEF Receive
  <2> QED
    BY <1>1, <2>1, <2>2 DEF StreamInv
<1>4. CASE UNCHANGED vars
  BY <1>1, <1>4 DEF vars, StreamInv, Stands
<1> QED
  BY <1>2, <1>3, <1>4 DEF Next

\* Nothing waits that is a whole instruction: once the wire is empty, nothing
\* is pending.
LEMMA NothingPending ==
    ASSUME NEW b \in Seq(Int), Ends(b) = {}, NEW pending \in Seq(Message), b = Stream(pending)
    PROVE  pending = <<>>
<1> SUFFICES ASSUME pending # <<>> PROVE FALSE
  OBVIOUS
<1> DEFINE none == <<>>
<1>1. PICK s \in Seq(Message), x \in Message : b = Stream(s) \o ToInstruction(x)
  BY StreamEmpty
<1>2. none \in Seq(Int) /\ Ends(none) = {} /\ b \o none = b
  BY ConcatEmptySeq DEF Ends
<1>3. Rest(b) = none
  <2> HIDE DEF none
  <2>1. Rest(Stream(pending) \o none) = none
    BY <1>2, RestOfStream
  <2> QED
    BY <1>2, <2>1
<1>4. Rest(b) = b
  <2>1. LastEnd(b) = 0
    BY LastEndProperties
  <2> QED
    BY <2>1, SubSeqFull DEF Rest
<1> DEFINE a == Stream(s)
           w == ToInstruction(x)
<1>5. a \in Seq(Int) /\ w \in Seq(Int) /\ Len(a) \in Nat /\ Len(w) \in Nat \ {0}
  BY StreamTyped, EndOfInstruction, LenProperties
<1>6. Len(a \o w) = Len(a) + Len(w)
  BY <1>5, ConcatProperties
<1>7. Len(b) = 0
  BY <1>3, <1>4
<1> HIDE DEF a, w
<1>8. b = a \o w
  BY <1>1 DEF a, w
<1> QED
  BY <1>5, <1>6, <1>7, <1>8

LEMMA StreamFaithfulNow == StreamInv => FaithfulStream
<1> SUFFICES ASSUME StreamInv PROVE FaithfulStream
  OBVIOUS
<1>1. PICK pending \in Seq(Message), text \in Seq(Int) :
         sent = handed \o pending /\ (failed \/ (buffer \o text = Stream(pending) /\ wire = Encoded(text)))
  BY DEF StreamInv, Stands
<1>2. handed \in Seq(Message) /\ buffer \in Seq(Int) /\ Ends(buffer) = {}
  BY DEF StreamInv, BufferInv, BufferBounded
<1>3. IsPrefix(handed, sent)
  <2>1. SubSeq(handed \o pending, 1, Len(handed)) = handed
    BY <1>2, SplitConcat
  <2>2. Len(handed \o pending) = Len(handed) + Len(pending) /\ Len(handed) \in Nat /\ Len(pending) \in Nat
    BY <1>2, ConcatProperties, LenProperties
  <2>3. SubSeq(handed, 1, Len(handed)) = handed
    BY <1>2, SubSeqFull
  <2> QED
    BY <1>1, <2>1, <2>2, <2>3 DEF IsPrefix
<1>4. ASSUME wire = <<>>, ~failed PROVE handed = sent
  <2> DEFINE none == <<>>
  <2>1. Decoded(Encoded(text)) = text /\ Decoded(Encoded(none)) = none /\ Encoded(none) = none
    <3>1. none \in Seq(Int) /\ Encoded(none) = none
      BY EncodedProperties
    <3>2. Decoded(Encoded(none)) = none
      BY <3>1, DecodedEncoded
    <3>3. Decoded(Encoded(text)) = text
      BY DecodedEncoded
    <3> QED
      BY <3>1, <3>2, <3>3
  <2>2. text = none
    BY <1>1, <1>4, <2>1
  <2>3. buffer \o none = buffer
    BY <1>2, ConcatEmptySeq
  <2>4. buffer = Stream(pending)
    BY <1>1, <1>4, <2>2, <2>3
  <2>5. pending = none
    BY <1>2, <2>4, NothingPending
  <2>6. handed \o none = handed
    BY <1>2, ConcatEmptySeq
  <2> QED
    BY <1>1, <2>5, <2>6
<1> QED
  BY <1>3, <1>4 DEF FaithfulStream

\* However TCP cuts the stream of characters into chunks, what receive hands
\* to oninstruction is what guacd sent, in order, and once everything has
\* arrived and the buffer never overflowed, all of it. (That no character is
\* cut is needed: handleData decodes each chunk alone.)
THEOREM StreamFaithful == ~CutAnywhere => (Spec => []FaithfulStream)
<1> SUFFICES ASSUME ~CutAnywhere PROVE Spec => []FaithfulStream
  OBVIOUS
<1>1. StreamInv /\ [Next]_vars => StreamInv'
  BY StreamNext
<1> QED
  BY <1>1, StreamInitially, StreamFaithfulNow, PTL DEF Spec
=============================================================================
