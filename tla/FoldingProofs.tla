----------------------------- MODULE FoldingProofs -----------------------------
(***************************************************************************)
(* Facts about the recursive functions of Folding.  The induction they     *)
(* need is over sets of natural numbers: a set with no least element       *)
(* outside it holds all of them.                                           *)
(***************************************************************************)
EXTENDS Folding, WellFoundedInduction, SequenceTheorems, TLAPS

\* The order on the naturals as a relation.
Less == {x \in Nat \X Nat : x[1] < x[2]}

\* A set of naturals that is not empty has a least element.
LEMMA LeastExists ==
  ASSUME NEW U \in SUBSET Nat, U # {}
  PROVE  \E x \in U : \A y \in U : x <= y
<1>1. IsWellFoundedOn(Less, Nat)
  BY NatLessThanWellFounded DEF Less, OpToRel
<1>2. PICK x \in U : \A y \in U : <<y, x>> \notin Less
  BY <1>1, WFMin
<1>3. \A y \in U : ~(y < x)
  BY <1>2 DEF Less
<1> QED BY <1>2, <1>3

\* A set of naturals with 0 and the successor of each of its elements holds them all.
LEMMA SetInduction ==
  ASSUME NEW T \in SUBSET Nat, 0 \in T, \A n \in T : n + 1 \in T
  PROVE  T = Nat
<1> DEFINE U == Nat \ T
<1> SUFFICES ASSUME U # {} PROVE FALSE
  OBVIOUS
<1>1. PICK x \in U : \A y \in U : x <= y
  <2>1. U \in SUBSET Nat
    OBVIOUS
  <2> HIDE DEF U
  <2> QED BY <2>1, LeastExists
<1>2. x \in Nat \ {0} /\ x - 1 \in Nat /\ x - 1 + 1 = x
  BY <1>1
<1>3. x - 1 \in U
  BY <1>2
<1> QED BY <1>1, <1>2, <1>3

\* f is defined by primitive recursion: it starts with a and goes on with D.
Recurses(f, n, a, D) == f[0] = a /\ \A i \in 1 .. n : f[i] = D[i][f[i - 1]]

\* There is a function that is defined by primitive recursion up to n.
LEMMA RecursionExists ==
  ASSUME NEW n \in Nat, NEW V, NEW a \in V, NEW D \in [1 .. n -> [V -> V]]
  PROVE  \E f \in [0 .. n -> V] : Recurses(f, n, a, D)
<1> DEFINE T == {k \in Nat : k <= n => \E f \in [0 .. k -> V] : Recurses(f, k, a, D)}
<1>1. 0 \in T
  <2>1. [i \in 0 .. 0 |-> a] \in [0 .. 0 -> V]
    OBVIOUS
  <2>2. Recurses([i \in 0 .. 0 |-> a], 0, a, D)
    BY DEF Recurses
  <2> QED BY <2>1, <2>2
<1>2. ASSUME NEW k \in T, k + 1 <= n
      PROVE  \E f \in [0 .. k + 1 -> V] : Recurses(f, k + 1, a, D)
  <2>1. PICK f \in [0 .. k -> V] : Recurses(f, k, a, D)
    BY <1>2
  <2> DEFINE g == [i \in 0 .. k + 1 |-> IF i = k + 1 THEN D[k + 1][f[k]] ELSE f[i]]
  <2>2. D[k + 1] \in [V -> V] /\ f[k] \in V
    BY <1>2
  <2>3. D[k + 1][f[k]] \in V
    BY <2>2
  <2>4. g \in [0 .. k + 1 -> V]
    BY <2>3
  <2>5. g[0] = a
    BY <2>1 DEF Recurses
  <2>6. ASSUME NEW i \in 1 .. k + 1
        PROVE  g[i] = D[i][g[i - 1]]
    <3>1. CASE i = k + 1
      BY <3>1
    <3>2. CASE i \in 1 .. k
      BY <3>2, <2>1 DEF Recurses
    <3> QED BY <3>1, <3>2
  <2> HIDE DEF g
  <2> QED BY <2>4, <2>5, <2>6 DEF Recurses
<1>3. T = Nat
  <2>1. \A k \in T : k + 1 \in T
    BY <1>2
  <2>2. T \in SUBSET Nat
    OBVIOUS
  <2> HIDE DEF T
  <2> QED BY <1>1, <2>1, <2>2, SetInduction
<1> QED BY <1>3

\* f[i]: the elements in S of the first i of q.
Selects(f, q, S) ==
  /\ f[0] = << >>
  /\ \A i \in 1 .. Len(q) : f[i] = AppendIf(f[i - 1], q[i], S)

\* An element of V is appended to a sequence over V, or is not.
LEMMA AppendIfType ==
  ASSUME NEW V, NEW t \in Seq(V), NEW e \in V, NEW S
  PROVE  AppendIf(t, e, S) \in Seq(V)
BY DEF AppendIf

\* The equations of Only, as a recursive function of the position.
LEMMA OnlyUpTo ==
  ASSUME NEW V, NEW q \in Seq(V), NEW S
  PROVE  \E f \in [0 .. Len(q) -> Seq(V)] : Selects(f, q, S) /\ Only(q, S) = f[Len(q)]
<1> DEFINE n == Len(q)
           Body(f) == [i \in 0 .. n |-> IF i = 0 THEN << >> ELSE AppendIf(f[i - 1], q[i], S)]
           D == [i \in 1 .. n |-> [t \in Seq(V) |-> AppendIf(t, q[i], S)]]
<1>1. n \in Nat /\ \A i \in 1 .. n : q[i] \in V
  OBVIOUS
<1> HIDE DEF n
<1>2. D \in [1 .. n -> [Seq(V) -> Seq(V)]]
  BY <1>1, AppendIfType
<1>3. PICK f \in [0 .. n -> Seq(V)] : Recurses(f, n, << >>, D)
  <2>1. << >> \in Seq(V)
    OBVIOUS
  <2> HIDE DEF D
  <2> QED BY <1>1, <1>2, <2>1, RecursionExists
<1>4. \A i \in 1 .. n : f[i - 1] \in Seq(V)
  BY <1>1
<1>5. \A i \in 1 .. n : f[i] = AppendIf(f[i - 1], q[i], S)
  BY <1>3, <1>4 DEF Recurses
<1>6. f = Body(f)
  <2>1. f[0] = << >>
    BY <1>3 DEF Recurses
  <2>2. ASSUME NEW i \in 0 .. n
        PROVE  f[i] = IF i = 0 THEN << >> ELSE AppendIf(f[i - 1], q[i], S)
    <3>1. CASE i = 0
      BY <3>1, <2>1
    <3>2. CASE i # 0
      <4>1. i \in 1 .. n
        BY <1>1, <3>2
      <4> QED BY <4>1, <3>2, <1>5
    <3> QED BY <3>1, <3>2
  <2>3. f = [i \in 0 .. n |-> f[i]]
    BY <1>3
  <2> QED BY <2>2, <2>3
<1> DEFINE g == CHOOSE h : h = Body(h)
<1>7. g = Body(g)
  BY <1>6
<1>8. Only(q, S) = IF q = << >> THEN << >> ELSE g[n]
  BY DEF Only, n
<1> HIDE DEF g
<1>9. g[0] = << >> /\ \A i \in 1 .. n : g[i] = AppendIf(g[i - 1], q[i], S)
  <2>1. \A i \in 0 .. n : g[i] = IF i = 0 THEN << >> ELSE AppendIf(g[i - 1], q[i], S)
    BY <1>7
  <2>2. 0 \in 0 .. n /\ \A i \in 1 .. n : i \in 0 .. n /\ i # 0
    BY <1>1
  <2> QED BY ONLY <2>1, <2>2
<1>10. g \in [0 .. n -> Seq(V)]
  <2> DEFINE T == {k \in Nat : k <= n => g[k] \in Seq(V)}
  <2>1. 0 \in T
    <3>1. << >> \in Seq(V) /\ g[0] = << >>
      BY <1>9
    <3> QED BY <3>1
  <2>2. ASSUME NEW k \in T
        PROVE  k + 1 \in T
    <3>1. k \in Nat /\ (k <= n => g[k] \in Seq(V))
      OBVIOUS
    <3>2. ASSUME k + 1 <= n
          PROVE  g[k + 1] \in Seq(V)
      <4>1. k + 1 \in 1 .. n /\ (k + 1) - 1 = k /\ k <= n
        BY <1>1, <3>1, <3>2
      <4>2. g[k] \in Seq(V) /\ q[k + 1] \in V
        BY <1>1, <3>1, <4>1
      <4>3. g[k + 1] = AppendIf(g[k], q[k + 1], S)
        BY <1>9, <4>1
      <4> QED BY ONLY <4>2, <4>3, AppendIfType
    <3> QED BY <3>1, <3>2
  <2>3. T = Nat
    <3> HIDE DEF T
    <3>1. T \in SUBSET Nat
      BY DEF T
    <3> QED BY <2>1, <2>2, <3>1, SetInduction
  <2>4. \A k \in 0 .. n : g[k] \in Seq(V)
    <3> SUFFICES ASSUME NEW k \in 0 .. n PROVE g[k] \in Seq(V)
      OBVIOUS
    <3>1. k \in T /\ k <= n
      BY <1>1, <2>3
    <3> QED BY <3>1
  <2> QED BY <1>7, <2>4
<1>11. Selects(g, q, S)
  BY <1>9 DEF Selects, n
<1>12. Only(q, S) = g[n]
  <2>1. q = << >> => n = 0
    BY DEF n
  <2> QED BY <1>8, <1>9, <2>1
<1> QED BY <1>10, <1>11, <1>12 DEF n

\* The equations of Only have one solution.
LEMMA OnlyUnique ==
  ASSUME NEW V, NEW q \in Seq(V), NEW S, NEW f, Selects(f, q, S)
  PROVE  Only(q, S) = f[Len(q)]
<1>1. PICK g \in [0 .. Len(q) -> Seq(V)] : Selects(g, q, S) /\ Only(q, S) = g[Len(q)]
  BY OnlyUpTo
<1> DEFINE T == {k \in Nat : k <= Len(q) => g[k] = f[k]}
<1>2. 0 \in T
  BY <1>1 DEF Selects
<1>3. \A k \in T : k + 1 \in T
  BY <1>1 DEF Selects
<1>4. T = Nat
  <2> HIDE DEF T
  <2>1. T \in SUBSET Nat
    BY DEF T
  <2> QED BY <1>2, <1>3, <2>1, SetInduction
<1> QED BY <1>1, <1>4

\* What is selected from a buffer of packets is a sequence of packets.
LEMMA OnlyType ==
  ASSUME NEW V, NEW q \in Seq(V), NEW S
  PROVE  Only(q, S) \in Seq(V)
<1> Len(q) \in 0 .. Len(q)
  OBVIOUS
<1> QED BY OnlyUpTo

\* Nothing is selected from an empty buffer.
LEMMA OnlyEmpty == \A S : Only(<< >>, S) = << >>
<1> TAKE S
<1>1. << >> \in Seq({}) /\ Len(<< >>) = 0
  OBVIOUS
<1>2. PICK f : Selects(f, << >>, S) /\ Only(<< >>, S) = f[Len(<< >>)]
  BY <1>1, OnlyUpTo
<1> QED BY <1>1, <1>2 DEF Selects

\* A push at the end of a buffer: the selection grows at its end or is unchanged.
LEMMA OnlyAppend ==
  ASSUME NEW V, NEW q \in Seq(V), NEW e \in V, NEW S
  PROVE  Only(Append(q, e), S) = AppendIf(Only(q, S), e, S)
<1> DEFINE r == Append(q, e)
<1>1. r \in Seq(V) /\ Len(r) = Len(q) + 1 /\ r[Len(q) + 1] = e /\ \A i \in 1 .. Len(q) : r[i] = q[i]
  OBVIOUS
<1> HIDE DEF r
<1>2. PICK f \in [0 .. Len(r) -> Seq(V)] : Selects(f, r, S) /\ Only(r, S) = f[Len(r)]
  BY <1>1, OnlyUpTo
<1>3. Only(q, S) = f[Len(q)]
  <2>1. Selects(f, q, S)
    BY <1>1, <1>2 DEF Selects
  <2> QED BY <2>1, OnlyUnique
<1>4. f[Len(r)] = AppendIf(f[Len(q)], e, S)
  BY <1>1, <1>2 DEF Selects
<1> QED BY <1>2, <1>3, <1>4 DEF r

\* A pop at the front of a buffer: the selection loses its first element or none.
LEMMA OnlyTail ==
  ASSUME NEW V, NEW q \in Seq(V), q # << >>, NEW S
  PROVE  Only(q, S) = IF Head(q) \in S THEN <<Head(q)>> \o Only(Tail(q), S) ELSE Only(Tail(q), S)
<1> DEFINE r == Tail(q)
           first == IF Head(q) \in S THEN <<Head(q)>> ELSE << >>
<1>1. /\ r \in Seq(V) /\ Len(r) = Len(q) - 1 /\ Len(q) \in Nat \ {0}
      /\ Head(q) = q[1] /\ q[1] \in V
      /\ \A i \in 1 .. Len(r) : r[i] = q[i + 1] /\ r[i] \in V
  OBVIOUS
<1>2. first \in Seq(V) /\ (Head(q) \in S => first = <<q[1]>>) /\ (Head(q) \notin S => first = << >>)
  BY <1>1
<1> HIDE DEF r, first
<1>3. PICK f \in [0 .. Len(r) -> Seq(V)] : Selects(f, r, S) /\ Only(r, S) = f[Len(r)]
  <2>1. r \in Seq(V)
    BY <1>1
  <2> QED BY ONLY <2>1, OnlyUpTo
<1> DEFINE g == [i \in 0 .. Len(q) |-> IF i = 0 THEN << >> ELSE first \o f[i - 1]]
<1>4. g[0] = << >> /\ \A i \in 1 .. Len(q) : g[i] = first \o f[i - 1]
  BY <1>1
<1> HIDE DEF g
<1>5. ASSUME NEW i \in 1 .. Len(q)
      PROVE  g[i] = AppendIf(g[i - 1], q[i], S)
  <2>1. CASE i = 1
    <3>1. g[1] = first
      <4>1. 1 \in 1 .. Len(q) /\ 1 - 1 = 0
        BY <1>1
      <4>2. f[0] = << >>
        BY <1>3 DEF Selects
      <4>3. g[1] = first \o f[1 - 1]
        BY <1>4, <4>1
      <4>4. first \o << >> = first
        BY <1>2
      <4> QED BY <4>1, <4>2, <4>3, <4>4
    <3>2. Append(<< >>, q[1]) = <<q[1]>>
      BY <1>1
    <3>3. q[1] = Head(q) /\ g[i - 1] = << >>
      BY <1>1, <1>4, <2>1
    <3> QED BY <2>1, <3>1, <3>2, <3>3, <1>2 DEF AppendIf
  <2>2. CASE i # 1
    <3>1. i - 1 \in 1 .. Len(r) /\ i - 2 \in 0 .. Len(r) /\ (i - 1) - 1 = i - 2 /\ i - 1 \in 1 .. Len(q)
      BY <1>1, <2>2
    <3>2. g[i] = first \o f[i - 1] /\ g[i - 1] = first \o f[i - 2]
      BY <1>4, <3>1
    <3>3. f[i - 1] = AppendIf(f[i - 2], q[i], S)
      <4>1. f[i - 1] = AppendIf(f[(i - 1) - 1], r[i - 1], S)
        BY <1>3, <3>1 DEF Selects
      <4>2. r[i - 1] = q[(i - 1) + 1] /\ (i - 1) + 1 = i
        BY <1>1, <3>1
      <4> QED BY <3>1, <4>1, <4>2
    <3>4. f[i - 2] \in Seq(V) /\ q[i] \in V
      <4>1. q[i] \in V
        OBVIOUS
      <4> QED BY <4>1, <3>1, <1>3
    <3>5. first \o Append(f[i - 2], q[i]) = Append(first \o f[i - 2], q[i])
      <4>1. ASSUME NEW b \in Seq(V), NEW c \in Seq(V), NEW e \in V
            PROVE  b \o Append(c, e) = Append(b \o c, e)
        OBVIOUS
      <4> QED BY <4>1, <1>2, <3>4
    <3> QED BY <3>2, <3>3, <3>5 DEF AppendIf
  <2> QED BY <2>1, <2>2
<1>6. Only(q, S) = g[Len(q)]
  <2>1. Selects(g, q, S)
    BY <1>4, <1>5 DEF Selects
  <2> QED BY <2>1, OnlyUnique
<1>7. g[Len(q)] = first \o Only(r, S)
  BY <1>1, <1>3, <1>4
<1>8. << >> \o Only(r, S) = Only(r, S)
  <2>1. Only(r, S) \in Seq(V)
    BY <1>1, OnlyType
  <2> QED BY <2>1
<1>9. Head(q) \in S \/ Head(q) \notin S
  OBVIOUS
<1> QED BY <1>1, <1>2, <1>6, <1>7, <1>8 DEF r


\* Selecting everything changes nothing.
LEMMA OnlyAll ==
  ASSUME NEW V, NEW q \in Seq(V), NEW S, V \subseteq S
  PROVE  Only(q, S) = q
<1> DEFINE f == [i \in 0 .. Len(q) |-> SubSeq(q, 1, i)]
<1>1. f[0] = << >>
  OBVIOUS
<1>2. ASSUME NEW i \in 1 .. Len(q)
      PROVE  f[i] = AppendIf(f[i - 1], q[i], S)
  <2>1. q[i] \in S /\ i - 1 \in 0 .. Len(q) /\ i \in 0 .. Len(q)
    OBVIOUS
  <2>2. SubSeq(q, 1, i) = Append(SubSeq(q, 1, i - 1), q[i])
    OBVIOUS
  <2> QED BY <2>1, <2>2 DEF AppendIf
<1>3. f[Len(q)] = q
  OBVIOUS
<1> HIDE DEF f
<1>4. Selects(f, q, S)
  BY <1>1, <1>2 DEF Selects
<1> QED BY <1>3, <1>4, OnlyUnique

\* Two queues one behind the other: the selections, one behind the other.
LEMMA OnlyConcat ==
  ASSUME NEW V, NEW p \in Seq(V), NEW q \in Seq(V), NEW S
  PROVE  Only(p \o q, S) = Only(p, S) \o Only(q, S)
<1> DEFINE Front(k) == SubSeq(q, 1, k)
           T == {k \in Nat : k <= Len(q) => Only(p \o Front(k), S) = Only(p, S) \o Only(Front(k), S)}
<1>1. 0 \in T
  <2>1. Front(0) = << >> /\ p \o << >> = p
    OBVIOUS
  <2>2. Only(p, S) \in Seq(V)
    BY OnlyType
  <2>3. Only(p, S) \o << >> = Only(p, S)
    BY <2>2
  <2> QED BY <2>1, <2>3, OnlyEmpty
<1>2. ASSUME NEW k \in T
      PROVE  k + 1 \in T
  <2>1. k \in Nat /\ (k <= Len(q) => Only(p \o Front(k), S) = Only(p, S) \o Only(Front(k), S))
    OBVIOUS
  <2>2. ASSUME k + 1 <= Len(q)
        PROVE  Only(p \o Front(k + 1), S) = Only(p, S) \o Only(Front(k + 1), S)
    <3> DEFINE e == q[k + 1]
    <3>1. e \in V /\ Front(k) \in Seq(V) /\ Front(k + 1) = Append(Front(k), e)
      BY <2>1, <2>2
    <3>2. p \o Front(k + 1) = Append(p \o Front(k), e) /\ p \o Front(k) \in Seq(V)
      <4>1. \A x \in Seq(V), y \in V : p \o Append(x, y) = Append(p \o x, y) /\ p \o x \in Seq(V)
        OBVIOUS
      <4> HIDE DEF Front, e
      <4> QED BY <3>1, <4>1
    <3> DEFINE f == Front(k)
    <3> HIDE DEF e, Front, f
    <3>3. Only(Append(p \o f, e), S) = AppendIf(Only(p \o f, S), e, S)
      BY <3>1, <3>2, OnlyAppend DEF f
    <3>4. Only(Append(f, e), S) = AppendIf(Only(f, S), e, S)
      BY <3>1, OnlyAppend DEF f
    <3>5. Only(p \o f, S) = Only(p, S) \o Only(f, S)
      BY <2>1, <2>2 DEF f
    <3>6. Only(p, S) \in Seq(V) /\ Only(f, S) \in Seq(V)
      BY <3>1, OnlyType DEF f
    <3>7. \A x \in Seq(V), y \in Seq(V) : AppendIf(x \o y, e, S) = x \o AppendIf(y, e, S)
      <4>1. ASSUME NEW x \in Seq(V), NEW y \in Seq(V)
            PROVE  x \o Append(y, e) = Append(x \o y, e)
        BY ONLY <3>1, <4>1
      <4> QED BY <4>1 DEF AppendIf
    <3>8. Only(Append(p \o f, e), S) = Only(p, S) \o Only(Append(f, e), S)
      BY <3>3, <3>4, <3>5, <3>6, <3>7
    <3> QED BY <3>1, <3>2, <3>8 DEF f
  <2> HIDE DEF Front
  <2> QED BY <2>1, <2>2
<1>3. T = Nat
  <2> HIDE DEF T
  <2>1. T \in SUBSET Nat
    BY DEF T
  <2> QED BY <1>1, <1>2, <2>1, SetInduction
<1>4. Front(Len(q)) = q /\ Len(q) \in Nat
  OBVIOUS
<1>5. Only(p \o Front(Len(q)), S) = Only(p, S) \o Only(Front(Len(q)), S)
  <2>1. Len(q) \in T /\ Len(q) <= Len(q)
    BY <1>3, <1>4
  <2> HIDE DEF Front
  <2> QED BY <2>1
<1> HIDE DEF Front
<1> QED BY <1>4, <1>5

\* The scheduler takes an element out of the middle of a queue.
LEMMA OnlyRemove ==
  ASSUME NEW V, NEW q \in Seq(V), NEW i \in 1 .. Len(q), NEW S
  PROVE  LET rest == SubSeq(q, 1, i - 1) \o SubSeq(q, i + 1, Len(q))
         IN  /\ rest \in Seq(V)
             /\ Len(Only(rest, S)) = Len(Only(q, S)) - IF q[i] \in S THEN 1 ELSE 0
<1> DEFINE a == SubSeq(q, 1, i - 1)
           b == SubSeq(q, i + 1, Len(q))
           e == q[i]
<1>1. a \in Seq(V) /\ b \in Seq(V) /\ e \in V
  OBVIOUS
<1>2. q = Append(a, e) \o b
  <2>1. Len(a) = i - 1 /\ Len(b) = Len(q) - i
    OBVIOUS
  <2>2. \A j \in 1 .. i - 1 : a[j] = q[j]
    OBVIOUS
  <2>3. \A j \in 1 .. Len(q) - i : b[j] = q[i + j]
    OBVIOUS
  <2>4. e = q[i] /\ i \in Nat /\ Len(q) \in Nat /\ 1 <= i /\ i <= Len(q)
    OBVIOUS
  <2> HIDE DEF a, b, e
  <2> DEFINE f == Append(a, e)
  <2>5. f \in Seq(V) /\ Len(f) = i
    BY <1>1, <2>1, <2>4
  <2>6. \A j \in 1 .. i : f[j] = q[j]
    BY <1>1, <2>1, <2>2, <2>4
  <2> HIDE DEF f
  <2>7. f \o b \in Seq(V) /\ Len(f \o b) = Len(f) + Len(b)
    BY <1>1, <2>5, ConcatProperties
  <2>8. ASSUME NEW j \in 1 .. Len(q)
        PROVE  (f \o b)[j] = q[j]
    <3>1. CASE j <= i
      BY <1>1, <2>5, <2>6, <3>1, <2>1, <2>4
    <3>2. CASE j > i
      <4>1. j - i \in 1 .. Len(q) - i /\ i + (j - i) = j
        BY <2>4, <3>2
      <4>2. (f \o b)[j] = b[j - i]
        BY <1>1, <2>1, <2>4, <2>5, <3>2
      <4>3. b[j - i] = q[i + (j - i)]
        BY <2>3, <4>1
      <4> QED BY <4>1, <4>2, <4>3
    <3>3. j <= i \/ j > i
      BY <2>4
    <3> QED BY ONLY <3>1, <3>2, <3>3
  <2>9. Len(f \o b) = Len(q)
    BY <2>1, <2>4, <2>5, <2>7
  <2>10. q = f \o b
    BY <2>7, <2>8, <2>9, SeqEqual
  <2> QED BY <2>10 DEF f
<1> HIDE DEF a, b, e
<1>3. Append(a, e) \in Seq(V)
  BY <1>1
<1>4. Only(q, S) = Only(Append(a, e), S) \o Only(b, S)
  <2> DEFINE f == Append(a, e)
  <2> HIDE DEF f
  <2>1. f \in Seq(V) /\ q = f \o b
    BY <1>2, <1>3 DEF f
  <2>2. Only(f \o b, S) = Only(f, S) \o Only(b, S)
    BY <1>1, <2>1, OnlyConcat
  <2> QED BY <2>1, <2>2 DEF f
<1>5. Only(Append(a, e), S) = AppendIf(Only(a, S), e, S)
  BY <1>1, OnlyAppend
<1>6. Only(a \o b, S) = Only(a, S) \o Only(b, S)
  BY <1>1, OnlyConcat
<1>7. Only(a, S) \in Seq(V) /\ Only(b, S) \in Seq(V)
  BY <1>1, OnlyType
<1>8. \A x \in Seq(V), y \in Seq(V) :
        Len(x \o y) = Len(AppendIf(x, e, S) \o y) - IF e \in S THEN 1 ELSE 0
  <2>1. \A x \in Seq(V), y \in Seq(V) :
          Len(x \o y) = Len(Append(x, e) \o y) - 1 /\ Len(x \o y) = Len(x \o y) - 0
    BY <1>1
  <2> QED BY <2>1 DEF AppendIf
<1>9. Len(Only(a \o b, S)) = Len(Only(q, S)) - IF e \in S THEN 1 ELSE 0
  BY <1>4, <1>5, <1>6, <1>7, <1>8
<1>10. a \o b \in Seq(V)
  BY <1>1
<1> QED BY <1>9, <1>10 DEF a, b, e

\* No more is selected than there is.
LEMMA OnlyLen ==
  ASSUME NEW V, NEW q \in Seq(V), NEW S
  PROVE  Len(Only(q, S)) <= Len(q)
<1>1. PICK f \in [0 .. Len(q) -> Seq(V)] : Selects(f, q, S) /\ Only(q, S) = f[Len(q)]
  BY OnlyUpTo
<1> DEFINE T == {k \in Nat : k <= Len(q) => Len(f[k]) <= k}
<1>2. 0 \in T
  BY <1>1 DEF Selects
<1>3. ASSUME NEW k \in T
      PROVE  k + 1 \in T
  <2>1. ASSUME k + 1 <= Len(q)
        PROVE  Len(f[k + 1]) <= k + 1
    <3>1. k + 1 \in 1 .. Len(q) /\ (k + 1) - 1 = k /\ k \in 0 .. Len(q)
      BY <2>1
    <3>2. f[k] \in Seq(V) /\ Len(f[k]) <= k /\ q[k + 1] \in V
      BY <1>1, <3>1
    <3>3. f[k + 1] = AppendIf(f[k], q[k + 1], S)
      BY <1>1, <3>1 DEF Selects
    <3> QED BY <3>2, <3>3 DEF AppendIf
  <2> QED BY <2>1
<1>4. T = Nat
  <2> HIDE DEF T
  <2>1. T \in SUBSET Nat
    BY DEF T
  <2> QED BY <1>2, <1>3, <2>1, SetInduction
<1>5. Len(q) \in T /\ Len(q) <= Len(q)
  BY <1>4
<1> QED BY <1>1, <1>5

\* What is selected is what the sequence and the set have in common.
LEMMA OnlyElements ==
  ASSUME NEW V, NEW q \in Seq(V), NEW S, NEW e
  PROVE  (\E i \in 1 .. Len(Only(q, S)) : Only(q, S)[i] = e)
           <=> e \in S /\ \E i \in 1 .. Len(q) : q[i] = e
<1>1. PICK f \in [0 .. Len(q) -> Seq(V)] : Selects(f, q, S) /\ Only(q, S) = f[Len(q)]
  BY OnlyUpTo
<1> DEFINE Selected(k) == \E i \in 1 .. Len(f[k]) : f[k][i] = e
           There(k) == e \in S /\ \E i \in 1 .. k : q[i] = e
           T == {k \in Nat : k <= Len(q) => (Selected(k) <=> There(k))}
<1>2. 0 \in T
  BY <1>1 DEF Selects
<1>3. ASSUME NEW k \in T
      PROVE  k + 1 \in T
  <2>1. ASSUME k + 1 <= Len(q)
        PROVE  Selected(k + 1) <=> There(k + 1)
    <3>1. k + 1 \in 1 .. Len(q) /\ (k + 1) - 1 = k /\ k \in 0 .. Len(q) /\ k \in Nat
      BY <2>1
    <3>2. f[k] \in Seq(V) /\ (Selected(k) <=> There(k)) /\ q[k + 1] \in V
      BY <1>1, <3>1
    <3>3. f[k + 1] = IF q[k + 1] \in S THEN Append(f[k], q[k + 1]) ELSE f[k]
      BY <1>1, <3>1 DEF Selects, AppendIf
    <3>4. There(k + 1) <=> There(k) \/ (q[k + 1] \in S /\ q[k + 1] = e)
      <4>1. \A i \in 1 .. k + 1 : i \in 1 .. k \/ i = k + 1
        BY <3>1
      <4>2. \A i \in 1 .. k : i \in 1 .. k + 1
        BY <3>1
      <4>3. k + 1 \in 1 .. k + 1
        BY <3>1
      <4> QED BY <4>1, <4>2, <4>3
    <3>5. Selected(k + 1) <=> Selected(k) \/ (q[k + 1] \in S /\ q[k + 1] = e)
      <4>1. CASE q[k + 1] \in S
        <5>1. PICK g \in Seq(V), r \in Seq(V), d \in V :
                g = f[k] /\ r = f[k + 1] /\ d = q[k + 1] /\ r = Append(g, d)
          <6>1. f[k + 1] \in Seq(V)
            BY <1>1, <3>1
          <6> QED BY <3>2, <3>3, <4>1, <6>1
        <5>2. /\ Len(r) = Len(g) + 1 /\ r[Len(g) + 1] = d /\ Len(g) \in Nat
              /\ \A i \in 1 .. Len(g) : r[i] = g[i]
          BY <5>1
        <5>3. \A i \in 1 .. Len(r) : i \in 1 .. Len(g) \/ i = Len(g) + 1
          BY <5>2
        <5>4. (\A i \in 1 .. Len(g) : i \in 1 .. Len(r)) /\ Len(g) + 1 \in 1 .. Len(r)
          BY <5>2
        <5>5. (\E i \in 1 .. Len(r) : r[i] = e) <=> (\E i \in 1 .. Len(g) : g[i] = e) \/ d = e
          BY <5>2, <5>3, <5>4
        <5> QED BY <4>1, <5>1, <5>5
      <4>2. CASE q[k + 1] \notin S
        BY <3>3, <4>2
      <4> QED BY <4>1, <4>2
    <3> QED BY <3>2, <3>4, <3>5
  <2> QED BY <2>1
<1>4. T = Nat
  <2> HIDE DEF T
  <2>1. T \in SUBSET Nat
    BY DEF T
  <2> QED BY <1>2, <1>3, <2>1, SetInduction
<1>5. Len(q) \in T /\ Len(q) <= Len(q)
  BY <1>4
<1> QED BY <1>1, <1>5

-------------------------------------------------------------------------------

\* u[i]: the sum of the first i values of f.
Sums(u, f, n) == u[0] = 0 /\ \A i \in 1 .. n : u[i] = u[i - 1] + f[i - 1]

\* The equations of SumOf, as a recursive function of the number of summands.
LEMMA SumUpTo ==
  ASSUME NEW n \in Nat, NEW f \in [0 .. n - 1 -> Int]
  PROVE  \E u \in [0 .. n -> Int] : Sums(u, f, n) /\ SumOf(f, n) = u[n]
<1> DEFINE Body(u) == [i \in 0 .. n |-> IF i = 0 THEN 0 ELSE u[i - 1] + f[i - 1]]
           D == [i \in 1 .. n |-> [t \in Int |-> t + f[i - 1]]]
<1>1. \A i \in 1 .. n : f[i - 1] \in Int
  OBVIOUS
<1>2. D \in [1 .. n -> [Int -> Int]]
  BY <1>1
<1>3. PICK u \in [0 .. n -> Int] : Recurses(u, n, 0, D)
  <2>1. 0 \in Int
    OBVIOUS
  <2> HIDE DEF D
  <2> QED BY <1>2, <2>1, RecursionExists
<1>4. \A i \in 1 .. n : u[i - 1] \in Int
  OBVIOUS
<1>5. \A i \in 1 .. n : u[i] = u[i - 1] + f[i - 1]
  BY <1>3, <1>4 DEF Recurses
<1>6. u = Body(u)
  <2>1. u[0] = 0
    BY <1>3 DEF Recurses
  <2>2. \A i \in 0 .. n : u[i] = IF i = 0 THEN 0 ELSE u[i - 1] + f[i - 1]
    BY <2>1, <1>5
  <2>3. u = [i \in 0 .. n |-> u[i]]
    BY <1>3
  <2> QED BY <2>2, <2>3
<1> DEFINE w == CHOOSE h : h = Body(h)
<1>7. w = Body(w)
  BY <1>6
<1>8. SumOf(f, n) = w[n]
  BY DEF SumOf
<1> HIDE DEF w
<1>9. w[0] = 0 /\ \A i \in 1 .. n : w[i] = w[i - 1] + f[i - 1]
  <2>1. \A i \in 0 .. n : w[i] = IF i = 0 THEN 0 ELSE w[i - 1] + f[i - 1]
    BY <1>7
  <2>2. 0 \in 0 .. n /\ \A i \in 1 .. n : i \in 0 .. n /\ i # 0
    OBVIOUS
  <2> QED BY ONLY <2>1, <2>2
<1>10. w \in [0 .. n -> Int]
  <2> DEFINE T == {k \in Nat : k <= n => w[k] \in Int}
  <2>1. 0 \in T
    BY <1>9
  <2>2. ASSUME NEW k \in T
        PROVE  k + 1 \in T
    <3>1. k \in Nat /\ (k <= n => w[k] \in Int)
      OBVIOUS
    <3>2. ASSUME k + 1 <= n
          PROVE  w[k + 1] \in Int
      <4>1. k + 1 \in 1 .. n /\ (k + 1) - 1 = k /\ k <= n /\ k \in 0 .. n - 1
        BY <3>1, <3>2
      <4>2. w[k] \in Int /\ f[k] \in Int
        BY <3>1, <4>1
      <4>3. w[k + 1] = w[k] + f[k]
        BY <1>9, <4>1
      <4> QED BY <4>2, <4>3
    <3> QED BY <3>1, <3>2
  <2>3. T = Nat
    <3> HIDE DEF T
    <3>1. T \in SUBSET Nat
      BY DEF T
    <3> QED BY <2>1, <2>2, <3>1, SetInduction
  <2>4. \A k \in 0 .. n : w[k] \in Int
    BY <2>3
  <2> QED BY <1>7, <2>4
<1>11. Sums(w, f, n)
  BY <1>9 DEF Sums
<1> QED BY <1>8, <1>10, <1>11

\* A sum of integers is an integer.
LEMMA SumOfType ==
  ASSUME NEW n \in Nat, NEW f \in [0 .. n - 1 -> Int]
  PROVE  SumOf(f, n) \in Int
<1> n \in 0 .. n
  OBVIOUS
<1> QED BY SumUpTo

\* A sum of counts is a count.
LEMMA SumOfNat ==
  ASSUME NEW n \in Nat, NEW f \in [0 .. n - 1 -> Nat]
  PROVE  SumOf(f, n) \in Nat
<1>1. f \in [0 .. n - 1 -> Int]
  OBVIOUS
<1>2. PICK u \in [0 .. n -> Int] : Sums(u, f, n) /\ SumOf(f, n) = u[n]
  BY <1>1, SumUpTo
<1> DEFINE T == {i \in Nat : i <= n => u[i] \in Nat}
<1>3. 0 \in T
  BY <1>2 DEF Sums
<1>4. ASSUME NEW i \in T
      PROVE  i + 1 \in T
  <2>1. ASSUME i + 1 <= n
        PROVE  u[i + 1] \in Nat
    <3>1. i + 1 \in 1 .. n /\ (i + 1) - 1 = i /\ i <= n /\ i \in 0 .. n - 1
      BY <2>1
    <3>2. u[i + 1] = u[i] + f[i]
      BY <1>2, <3>1 DEF Sums
    <3>3. f[i] \in Nat /\ u[i] \in Nat
      BY <3>1
    <3> QED BY <3>2, <3>3
  <2> QED BY <2>1
<1>5. T = Nat
  <2> HIDE DEF T
  <2>1. T \in SUBSET Nat
    BY DEF T
  <2> QED BY <1>3, <1>4, <2>1, SetInduction
<1>6. u[n] \in Nat
  BY <1>5
<1> QED BY <1>2, <1>6

\* One summand changes, as the credits of one sub-partition do, and the sum with it.
LEMMA SumOfChange ==
  ASSUME NEW n \in Nat, NEW f \in [0 .. n - 1 -> Int], NEW k \in 0 .. n - 1, NEW e \in Int
  PROVE  SumOf([f EXCEPT ![k] = e], n) = SumOf(f, n) + e - f[k]
<1> DEFINE g == [f EXCEPT ![k] = e]
<1>1. g \in [0 .. n - 1 -> Int] /\ g[k] = e /\ \A i \in 0 .. n - 1 : i # k => g[i] = f[i]
  OBVIOUS
<1> HIDE DEF g
<1>2. PICK u \in [0 .. n -> Int] : Sums(u, f, n) /\ SumOf(f, n) = u[n]
  BY SumUpTo
<1>3. PICK w \in [0 .. n -> Int] : Sums(w, g, n) /\ SumOf(g, n) = w[n]
  BY <1>1, SumUpTo
<1>4. f[k] \in Int
  OBVIOUS
<1> DEFINE T == {i \in Nat : i <= n => w[i] = IF i <= k THEN u[i] ELSE u[i] + e - f[k]}
<1>5. 0 \in T
  BY <1>2, <1>3 DEF Sums
<1>6. ASSUME NEW i \in T
      PROVE  i + 1 \in T
  <2>1. i \in Nat /\ (i <= n => w[i] = IF i <= k THEN u[i] ELSE u[i] + e - f[k])
    OBVIOUS
  <2>2. ASSUME i + 1 <= n
        PROVE  w[i + 1] = IF i + 1 <= k THEN u[i + 1] ELSE u[i + 1] + e - f[k]
    <3>1. i + 1 \in 1 .. n /\ (i + 1) - 1 = i /\ i <= n /\ i \in 0 .. n - 1 /\ i \in 0 .. n
      BY <2>1, <2>2
    <3>2. u[i + 1] = u[i] + f[i]
      BY <1>2, <3>1 DEF Sums
    <3>3. w[i + 1] = w[i] + g[i]
      BY <1>3, <3>1 DEF Sums
    <3>4. u[i] \in Int /\ w[i] \in Int /\ f[i] \in Int
      BY <3>1
    <3>5. w[i] = IF i <= k THEN u[i] ELSE u[i] + e - f[k]
      BY <2>1, <3>1
    <3>6. CASE i = k
      BY <3>2, <3>3, <3>4, <3>5, <3>6, <1>1, <1>4
    <3>7. CASE i # k
      <4>1. g[i] = f[i]
        BY <1>1, <3>1, <3>7
      <4>2. CASE i < k
        <5>1. i + 1 <= k /\ i <= k
          BY <2>1, <4>2
        <5> QED BY <3>2, <3>3, <3>5, <4>1, <5>1
      <4>3. CASE i > k
        <5>1. ~(i + 1 <= k) /\ ~(i <= k)
          BY <2>1, <4>3
        <5>2. w[i] = u[i] + e - f[k]
          BY <3>5, <5>1
        <5>3. w[i + 1] = w[i] + f[i] /\ u[i + 1] = u[i] + f[i]
          BY <3>2, <3>3, <4>1
        <5>4. \A x \in Int, y \in Int, z \in Int : (x + e - y) + z = (x + z) + e - y
          OBVIOUS
        <5>5. w[i + 1] = u[i + 1] + e - f[k]
          <6>1. PICK x \in Int, y \in Int, z \in Int : x = u[i] /\ y = f[k] /\ z = f[i]
            BY <3>4, <1>4
          <6>2. w[i + 1] = (x + e - y) + z /\ u[i + 1] = x + z
            BY ONLY <5>2, <5>3, <6>1
          <6> QED BY ONLY <5>4, <6>1, <6>2
        <5> QED BY <5>1, <5>5
      <4> QED BY <2>1, <3>7, <4>2, <4>3
    <3> QED BY <3>6, <3>7
  <2> QED BY <2>1, <2>2
<1>7. T = Nat
  <2> HIDE DEF T
  <2>1. T \in SUBSET Nat
    BY DEF T
  <2> QED BY <1>5, <1>6, <2>1, SetInduction
<1>8. w[n] = u[n] + e - f[k]
  <2>1. n <= n /\ ~(n <= k)
    OBVIOUS
  <2>2. n \in T
    BY <1>7
  <2> QED BY <2>1, <2>2
<1> QED BY <1>2, <1>3, <1>8 DEF g

\* A sum of zeros, as in the initial state of the counters.
LEMMA SumOfZero ==
  ASSUME NEW n \in Nat, NEW f \in [0 .. n - 1 -> Int], \A i \in 0 .. n - 1 : f[i] = 0
  PROVE  SumOf(f, n) = 0
<1>1. PICK u \in [0 .. n -> Int] : Sums(u, f, n) /\ SumOf(f, n) = u[n]
  BY SumUpTo
<1> DEFINE T == {i \in Nat : i <= n => u[i] = 0}
<1>2. 0 \in T
  BY <1>1 DEF Sums
<1>3. ASSUME NEW i \in T
      PROVE  i + 1 \in T
  <2>1. ASSUME i + 1 <= n
        PROVE  u[i + 1] = 0
    <3>1. i + 1 \in 1 .. n /\ (i + 1) - 1 = i /\ i <= n /\ i \in 0 .. n - 1
      BY <2>1
    <3>2. u[i + 1] = u[i] + f[i]
      BY <1>1, <3>1 DEF Sums
    <3> QED BY <3>1, <3>2
  <2> QED BY <2>1
<1>4. T = Nat
  <2> HIDE DEF T
  <2>1. T \in SUBSET Nat
    BY DEF T
  <2> QED BY <1>2, <1>3, <2>1, SetInduction
<1>5. u[n] = 0
  BY <1>4
<1> QED BY <1>1, <1>5

\* A sum in which only the first p values count, none of which is above m.
LEMMA SumOfBounded ==
  ASSUME NEW n \in Nat, NEW f \in [0 .. n - 1 -> Int], NEW p \in 0 .. n, NEW m \in Nat,
         \A i \in 0 .. n - 1 : f[i] <= m /\ (i >= p => f[i] = 0)
  PROVE  SumOf(f, n) <= p * m
<1>1. PICK u \in [0 .. n -> Int] : Sums(u, f, n) /\ SumOf(f, n) = u[n]
  BY SumUpTo
<1> DEFINE T == {i \in Nat : i <= n => u[i] <= (IF i <= p THEN i ELSE p) * m}
<1>2. 0 \in T
  BY <1>1 DEF Sums
<1>3. ASSUME NEW i \in T
      PROVE  i + 1 \in T
  <2>1. ASSUME i + 1 <= n
        PROVE  u[i + 1] <= (IF i + 1 <= p THEN i + 1 ELSE p) * m
    <3>1. i + 1 \in 1 .. n /\ (i + 1) - 1 = i /\ i <= n /\ i \in 0 .. n - 1 /\ i \in 0 .. n
      BY <2>1
    <3>2. u[i + 1] = u[i] + f[i] /\ u[i] \in Int /\ f[i] \in Int /\ u[i + 1] \in Int
      BY <1>1, <3>1 DEF Sums
    <3>3. u[i] <= (IF i <= p THEN i ELSE p) * m
      BY <3>1
    <3>4. CASE i + 1 <= p
      <4>1. u[i] <= i * m /\ f[i] <= m
        BY <3>1, <3>3, <3>4
      <4>2. (i + 1) * m = i * m + m /\ i * m \in Int
        OBVIOUS
      <4>3. PICK b \in Int : b = i * m
        BY <4>2
      <4>4. u[i + 1] <= b + m
        BY <3>2, <4>1, <4>3
      <4>5. (IF i + 1 <= p THEN i + 1 ELSE p) * m = b + m
        BY <3>4, <4>2, <4>3
      <4> QED BY <4>4, <4>5
    <3>5. CASE ~(i + 1 <= p)
      <4>1. f[i] = 0
        BY <3>1, <3>5
      <4>2. (IF i <= p THEN i ELSE p) = p /\ (IF i + 1 <= p THEN i + 1 ELSE p) = p
        BY <3>5
      <4>3. u[i + 1] = u[i]
        BY <3>2, <4>1
      <4> QED BY <3>3, <4>2, <4>3
    <3> QED BY <3>4, <3>5
  <2> QED BY <2>1
<1>4. T = Nat
  <2> HIDE DEF T
  <2>1. T \in SUBSET Nat
    BY DEF T
  <2> QED BY <1>2, <1>3, <2>1, SetInduction
<1>5. u[n] <= p * m
  <2>1. n \in T /\ (IF n <= p THEN n ELSE p) = p
    BY <1>4
  <2> QED BY <2>1
<1> QED BY <1>1, <1>5

===============================================================================
