----------------------- MODULE KAddressArbiterProofs -----------------------
(***************************************************************************)
(* What is proved of KAddressArbiter.                                      *)
(***************************************************************************)
EXTENDS KAddressArbiter, SequenceTheorems, FiniteSetTheorems, WellFoundedInduction, TLAPS

-----------------------------------------------------------------------------
(* Induction: of numbers that have some property one is the least.         *)

LEMMA Least ==
    ASSUME NEW N, N \subseteq Nat, N # {}
    PROVE  \E x \in N : \A y \in N : x <= y
<1> DEFINE R == OpToRel(<, Nat)
<1>1. IsWellFoundedOn(R, Nat)
  BY ONLY NatLessThanWellFounded
<1>2. R = {ss \in Nat \X Nat : ss[1] < ss[2]}
  BY DEF OpToRel
<1> HIDE DEF R
<1>3. PICK x \in N : \A y \in N : <<y, x>> \notin R
  BY <1>1, WFMin
<1>4. ASSUME NEW y \in Nat, NEW z \in Nat, y < z
      PROVE  <<y, z>> \in R
  BY <1>2, <1>4
<1>5. ASSUME NEW y \in N
      PROVE  x <= y
  <2>1. x \in Nat /\ y \in Nat /\ <<y, x>> \notin R
    BY <1>3
  <2>2. ~(y < x)
    BY <2>1, <1>4
  <2> QED
    BY <2>1, <2>2
<1> QED
  BY <1>5

-----------------------------------------------------------------------------
(* The tree.                                                               *)

\* r is what the first n elements of q have in S, in their order: e says where each
\* comes from.
Places(e, r, q, n, S) ==
    /\ e \in [1..Len(r) -> 1..n]
    /\ \A k \in 1..Len(r) : r[k] = q[e[k]] /\ q[e[k]] \in S
    /\ \A k, l \in 1..Len(r) : k < l => e[k] < e[l]
    /\ \A j \in 1..n : q[j] \in S => \E k \in 1..Len(r) : e[k] = j

LEMMA AmongRecursion ==
    ASSUME NEW A, NEW q \in Seq(A), NEW S
    PROVE  \E f : /\ f = [i \in 0..Len(q) |->
                             IF i = 0 THEN <<>>
                             ELSE IF q[i] \in S THEN Append(f[i - 1], q[i])
                             ELSE f[i - 1]]
                  /\ Among(q, S) = f[Len(q)]
<1> DEFINE Next1(r, i) == IF q[i] \in S THEN Append(r, q[i]) ELSE r
<1> DEFINE Upto(f, n) == f = [i \in 0..n |-> IF i = 0 THEN <<>> ELSE Next1(f[i - 1], i)]
<1> DEFINE N == {n \in Nat : ~\E f : Upto(f, n)}
<1>1. N = {}
  <2> SUFFICES ASSUME N # {} PROVE FALSE
    OBVIOUS
  <2>1. PICK n \in N : \A m \in N : n <= m
    <3> HIDE DEF N
    <3>1. N \subseteq Nat
      BY DEF N
    <3> QED
      BY <3>1, Least
  <2>2. n # 0
    <3> SUFFICES ASSUME n = 0 PROVE FALSE
      OBVIOUS
    <3> DEFINE f == [i \in 0..n |-> <<>>]
    <3>1. Upto(f, n)
      <4> HIDE DEF Next1
      <4> SUFFICES \A i \in 0..n : <<>> = IF i = 0 THEN <<>> ELSE Next1(f[i - 1], i)
        OBVIOUS
      <4> QED
        OBVIOUS
    <3> HIDE DEF f, Upto
    <3> QED
      BY <2>1, <3>1, Zenon
  <2>3. n - 1 \in Nat /\ n - 1 \notin N
    <3>1. n \in Nat
      OBVIOUS
    <3> HIDE DEF N
    <3> QED
      BY <2>1, <2>2, <3>1
  <2>4. PICK g : Upto(g, n - 1)
    BY <2>3
  <2> DEFINE f == [i \in 0..n |-> IF i = n THEN Next1(g[n - 1], n) ELSE g[i]]
  <2>5. ASSUME NEW i \in 0..n
        PROVE  f[i] = IF i = 0 THEN <<>> ELSE Next1(f[i - 1], i)
    <3> HIDE DEF Next1
    <3>1. CASE i = n
      BY <3>1, <2>2, <2>3
    <3>2. CASE i # n
      <4>1. i \in 0..(n - 1) /\ (i # 0 => i - 1 \in 0..(n - 1))
        BY <3>2, <2>1
      <4>2. g[i] = IF i = 0 THEN <<>> ELSE Next1(g[i - 1], i)
        BY <4>1, <2>4
      <4> QED
        BY <4>1, <4>2, <3>2
    <3> QED
      BY <3>1, <3>2
  <2>6. Upto(f, n)
    <3> HIDE DEF Next1
    <3>1. DOMAIN f = 0..n /\ f = [i \in 0..n |-> f[i]]
      OBVIOUS
    <3> HIDE DEF f
    <3> QED
      BY <3>1, <2>5
  <2> QED
    BY <2>1, <2>6
<1>2. \E f : Upto(f, Len(q))
  BY <1>1, LenProperties
<1>3. Upto(CHOOSE f : Upto(f, Len(q)), Len(q))
  <2> HIDE DEF Upto
  <2> QED
    BY <1>2, Zenon
<1>4. Among(q, S) = (CHOOSE f : Upto(f, Len(q)))[Len(q)]
  BY DEF Among
<1> QED
  BY <1>3, <1>4


LEMMA PlacesOne ==
    ASSUME NEW A, NEW q \in Seq(A), NEW S, NEW n \in 1..Len(q), NEW r \in Seq(A),
           NEW e, Places(e, r, q, n - 1, S),
           NEW t, t = IF q[n] \in S THEN Append(r, q[n]) ELSE r
    PROVE  t \in Seq(A) /\ \E d : Places(d, t, q, n, S)
<1>1. q[n] \in A /\ n \in Nat /\ Len(r) \in Nat /\ Len(q) \in Nat
  OBVIOUS
<1>2. CASE q[n] \notin S
  <2>1. Places(e, r, q, n, S)
    <3>1. e \in [1..Len(r) -> 1..n]
      BY <1>1 DEF Places
    <3>2. \A j \in 1..n : q[j] \in S => j \in 1..(n - 1)
      BY <1>1, <1>2
    <3> QED
      BY <3>1, <3>2 DEF Places
  <2> QED
    BY <1>2, <2>1
<1>3. CASE q[n] \in S
  <2> DEFINE s == Append(r, q[n])
             d == [k \in 1..(Len(r) + 1) |-> IF k = Len(r) + 1 THEN n ELSE e[k]]
  <2>1. /\ s \in Seq(A) /\ Len(s) = Len(r) + 1 /\ s[Len(r) + 1] = q[n]
        /\ \A k \in 1..Len(r) : s[k] = r[k]
    BY <1>1, AppendProperties
  <2>2. \A k \in 1..Len(r) : e[k] \in 1..(n - 1) /\ d[k] = e[k]
    <3>1. \A k \in 1..Len(r) : e[k] \in 1..(n - 1)
      BY DEF Places
    <3>2. \A k \in 1..Len(r) : k \in 1..(Len(r) + 1) /\ k # Len(r) + 1
      BY <1>1
    <3> QED
      BY <3>1, <3>2
  <2>3. d[Len(r) + 1] = n
    BY <1>1
  <2>4. d \in [1..Len(s) -> 1..n]
    <3>1. \A k \in 1..(Len(r) + 1) : d[k] \in 1..n
      <4>1. \A k \in 1..(Len(r) + 1) : k = Len(r) + 1 \/ k \in 1..Len(r)
        BY <1>1
      <4> HIDE DEF d
      <4> QED
        BY <1>1, <2>2, <2>3, <4>1
    <3>2. d = [k \in 1..(Len(r) + 1) |-> d[k]]
      OBVIOUS
    <3> HIDE DEF d, s
    <3> QED
      BY <2>1, <3>1, <3>2
  <2> HIDE DEF s, d
  <2>5. \A k \in 1..Len(s) : k = Len(r) + 1 \/ k \in 1..Len(r)
    BY <1>1, <2>1
  <2>6. \A k \in 1..Len(s) : s[k] = q[d[k]] /\ q[d[k]] \in S
    BY <1>3, <2>1, <2>2, <2>3, <2>5 DEF Places
  <2>7. ASSUME NEW k \in 1..Len(s), NEW l \in 1..Len(s), k < l
        PROVE  d[k] < d[l]
    <3>1. k \in 1..Len(r)
      BY <1>1, <2>1, <2>7
    <3>2. CASE l = Len(r) + 1
      BY <1>1, <2>2, <2>3, <3>1, <3>2
    <3>3. CASE l \in 1..Len(r)
      BY <2>2, <2>7, <3>1, <3>3 DEF Places
    <3> QED
      BY <2>5, <3>2, <3>3
  <2>8. ASSUME NEW j \in 1..n, q[j] \in S
        PROVE  \E k \in 1..Len(s) : d[k] = j
    <3>1. CASE j = n
      <4>1. Len(r) + 1 \in 1..Len(s)
        BY <1>1, <2>1
      <4> QED
        BY <2>3, <3>1, <4>1
    <3>2. CASE j # n
      <4>1. j \in 1..(n - 1)
        BY <1>1, <3>2
      <4>2. PICK k \in 1..Len(r) : e[k] = j
        BY <2>8, <4>1 DEF Places
      <4>3. k \in 1..Len(s)
        BY <1>1, <2>1
      <4> QED
        BY <2>2, <4>2, <4>3
    <3> QED
      BY <3>1, <3>2
  <2>9. Places(d, s, q, n, S)
    BY <2>4, <2>6, <2>7, <2>8 DEF Places
  <2> QED
    BY <1>3, <2>1, <2>9 DEF s
<1> QED
  BY <1>2, <1>3

\* What is left of a sequence comes from it in order, and nothing is missed.
LEMMA AmongPlaces ==
    ASSUME NEW A, NEW q \in Seq(A), NEW S
    PROVE  /\ Among(q, S) \in Seq(A)
           /\ \E e : Places(e, Among(q, S), q, Len(q), S)
<1>1. PICK f : /\ f = [i \in 0..Len(q) |->
                         IF i = 0 THEN <<>>
                         ELSE IF q[i] \in S THEN Append(f[i - 1], q[i])
                         ELSE f[i - 1]]
               /\ Among(q, S) = f[Len(q)]
  BY AmongRecursion
<1>2. f[0] = <<>> /\ Len(q) \in Nat
  BY <1>1, LenProperties
<1>3. \A i \in 1..Len(q) :
         f[i] = IF q[i] \in S THEN Append(f[i - 1], q[i]) ELSE f[i - 1]
  <2> SUFFICES ASSUME NEW i \in 1..Len(q)
               PROVE  f[i] = IF q[i] \in S THEN Append(f[i - 1], q[i]) ELSE f[i - 1]
    OBVIOUS
  <2>1. i \in 0..Len(q) /\ i # 0
    BY <1>2
  <2> QED
    BY <1>1, <2>1, Zenon
<1> DEFINE Good(n) == f[n] \in Seq(A) /\ \E e : Places(e, f[n], q, n, S)
           N == {n \in 0..Len(q) : ~Good(n)}
<1>4. Good(0)
  <2>1. f[0] \in Seq(A) /\ Len(f[0]) = 0
    BY <1>2
  <2>2. Places([k \in 1..0 |-> 0], f[0], q, 0, S)
    BY <2>1 DEF Places
  <2> QED
    BY <2>1, <2>2
<1>5. ASSUME NEW n \in 1..Len(q), Good(n - 1)
      PROVE  Good(n)
  <2>1. PICK e : Places(e, f[n - 1], q, n - 1, S)
    BY <1>5
  <2>2. f[n] = IF q[n] \in S THEN Append(f[n - 1], q[n]) ELSE f[n - 1]
    BY <1>3
  <2>3. f[n - 1] \in Seq(A)
    BY <1>5
  <2>4. f[n] \in Seq(A) /\ \E d : Places(d, f[n], q, n, S)
    BY <2>1, <2>2, <2>3, PlacesOne, Zenon
  <2> QED
    BY <2>4
<1>6. N = {}
  <2> HIDE DEF Good
  <2> SUFFICES ASSUME N # {} PROVE FALSE
    OBVIOUS
  <2>1. N \subseteq Nat
    BY <1>2
  <2> HIDE DEF N
  <2>2. PICK n \in N : \A m \in N : n <= m
    BY <2>1, Least
  <2>3. n \in 0..Len(q) /\ ~Good(n)
    BY DEF N
  <2>4. n \in 1..Len(q) /\ n - 1 \in 0..Len(q)
    BY <1>2, <1>4, <2>3
  <2>5. n - 1 \notin N
    BY <2>2, <2>4
  <2>6. Good(n - 1)
    BY <2>4, <2>5 DEF N
  <2> QED
    BY <1>5, <2>3, <2>4, <2>6
<1>7. Good(Len(q))
  <2>1. Len(q) \in 0..Len(q)
    BY <1>2
  <2> HIDE DEF Good
  <2> QED
    BY <1>6, <2>1
<1> QED
  BY <1>1, <1>7


\* Whoever is put into the tree goes behind the last thread it does not come before.
LEMMA InsertionPoint ==
    ASSUME NEW q, Len(q) \in Nat, NEW p, NEW t
    PROVE  /\ LastBefore(q, p, t) \in 0..Len(q)
           /\ LastBefore(q, p, t) = 0 \/ Before(p, q[LastBefore(q, p, t)], t)
           /\ \A j \in (LastBefore(q, p, t) + 1)..Len(q) : ~Before(p, q[j], t)
<1> DEFINE Point(i) == /\ i = 0 \/ Before(p, q[i], t)
                       /\ \A j \in (i + 1)..Len(q) : ~Before(p, q[j], t)
           N == {n \in 0..Len(q) : Len(q) - n = 0 \/ Before(p, q[Len(q) - n], t)}
<1>1. PICK n \in N : \A m \in N : n <= m
  <2>1. N \subseteq Nat /\ Len(q) \in N
    OBVIOUS
  <2> HIDE DEF N
  <2> QED
    BY <2>1, Least
<1>2. Len(q) - n \in 0..Len(q)
  OBVIOUS
<1>3. ASSUME NEW j \in (Len(q) - n + 1)..Len(q)
      PROVE  ~Before(p, q[j], t)
  <2>1. Len(q) - j \in 0..Len(q) /\ Len(q) - j < n /\ Len(q) - (Len(q) - j) = j
    OBVIOUS
  <2>2. Len(q) - j \notin N
    BY <1>1, <2>1
  <2> QED
    BY <2>1, <2>2
<1>4. Point(Len(q) - n)
  BY <1>3
<1>5. \E i \in 0..Len(q) : Point(i)
  <2> HIDE DEF Point
  <2> QED
    BY <1>2, <1>4
<1>6. LastBefore(q, p, t) = CHOOSE i \in 0..Len(q) : Point(i)
  BY DEF LastBefore
<1>7. LastBefore(q, p, t) \in 0..Len(q) /\ Point(LastBefore(q, p, t))
  <2> HIDE DEF Point
  <2> QED
    BY <1>5, <1>6
<1> QED
  BY <1>7

LEMMA InsertedAt ==
    ASSUME NEW q \in Seq(Threads), NEW p, NEW t \in Threads
    PROVE  LET i == LastBefore(q, p, t)
               r == Inserted(q, p, t)
           IN /\ i \in 0..Len(q)
              /\ r \in Seq(Threads)
              /\ Len(r) = Len(q) + 1
              /\ r[i + 1] = t
              /\ \A k \in 1..i : r[k] = q[k]
              /\ \A k \in (i + 2)..(Len(q) + 1) : r[k] = q[k - 1]
<1> DEFINE i == LastBefore(q, p, t)
<1>1. Len(q) \in Nat
  OBVIOUS
<1>2. i \in 0..Len(q)
  BY <1>1, InsertionPoint
<1>3. Inserted(q, p, t) = SubSeq(q, 1, i) \o <<t>> \o SubSeq(q, i + 1, Len(q))
  <2>1. (i + 1) - 1 = i
    BY <1>1, <1>2
  <2> QED
    BY <2>1 DEF Inserted, InsertAt
<1> HIDE DEF i
<1> DEFINE a == SubSeq(q, 1, i)
           b == SubSeq(q, i + 1, Len(q))
           r == a \o <<t>> \o b
<1>4. /\ a \in Seq(Threads) /\ Len(a) = i
      /\ \A k \in 1..i : a[k] = q[k]
  BY <1>1, <1>2
<1>5. /\ b \in Seq(Threads) /\ Len(b) = Len(q) - i
      /\ \A k \in 1..(Len(q) - i) : b[k] = q[i + k]
  BY <1>1, <1>2
<1> HIDE DEF a, b
<1>6. r \in Seq(Threads) /\ Len(r) = Len(q) + 1
  <2>1. a \o <<t>> \in Seq(Threads) /\ Len(a \o <<t>>) = i + 1
    BY <1>4
  <2>2. r \in Seq(Threads) /\ Len(r) = (i + 1) + (Len(q) - i)
    BY <1>5, <2>1, ConcatProperties
  <2> QED
    BY <1>1, <1>2, <2>2
<1>7. r[i + 1] = t
  <2> DEFINE c == a \o <<t>>
  <2>1. c \in Seq(Threads) /\ Len(c) = i + 1 /\ c[i + 1] = t
    BY <1>2, <1>4
  <2>2. i + 1 \in 1..Len(c)
    BY <1>1, <1>2, <2>1
  <2> HIDE DEF c
  <2>3. (c \o b)[i + 1] = c[i + 1]
    BY <1>5, <2>1, <2>2
  <2> QED
    BY <2>1, <2>3 DEF c
<1>8. ASSUME NEW k \in 1..i
      PROVE  r[k] = q[k]
  <2>1. k \in 1..Len(a)
    BY <1>4
  <2> QED
    BY <1>2, <1>4, <1>5, <2>1
<1>9. ASSUME NEW k \in (i + 2)..(Len(q) + 1)
      PROVE  r[k] = q[k - 1]
  <2>1. k - i - 1 \in 1..(Len(q) - i) /\ i + (k - i - 1) = k - 1
    BY <1>1, <1>2
  <2>2. r[k] = b[k - i - 1]
    BY <1>1, <1>2, <1>4, <1>5
  <2> QED
    BY <1>5, <2>1, <2>2
<1> QED
  BY <1>2, <1>3, <1>6, <1>7, <1>8, <1>9 DEF i, a, b

-----------------------------------------------------------------------------
(* The order of the tree.                                                  *)

\* Nobody is in q twice, and the threads of one address are sorted by priority.
Ordered(q, p, c) ==
    \A i, j \in 1..Len(q) :
        i < j => /\ q[i] # q[j]
                 /\ c[q[i]].addr = c[q[j]].addr => p[q[i]] <= p[q[j]]

LEMMA ToSetIs ==
    ASSUME NEW q \in Seq(Threads)
    PROVE  /\ Len(q) \in Nat
           /\ \A k \in 1..Len(q) : q[k] \in ToSet(q)
           /\ \A u \in ToSet(q) : \E k \in 1..Len(q) : q[k] = u
           /\ ToSet(q) \subseteq Threads
  BY DEF ToSet

LEMMA AmongSet ==
    ASSUME NEW q \in Seq(Threads), NEW S
    PROVE  /\ Among(q, S) \in Seq(Threads)
           /\ ToSet(Among(q, S)) = ToSet(q) \cap S
<1>1. Among(q, S) \in Seq(Threads)
  BY AmongPlaces
<1>2. PICK e : Places(e, Among(q, S), q, Len(q), S)
  BY AmongPlaces
<1> DEFINE r == Among(q, S)
<1> HIDE DEF r
<1>3. ToSet(r) \subseteq ToSet(q) \cap S
  <2> SUFFICES ASSUME NEW k \in 1..Len(r) PROVE r[k] \in ToSet(q) \cap S
    BY <1>1, ToSetIs DEF r
  <2>1. e[k] \in 1..Len(q) /\ r[k] = q[e[k]] /\ q[e[k]] \in S
    BY <1>2 DEF Places, r
  <2> QED
    BY <2>1, ToSetIs
<1>4. ASSUME NEW u \in ToSet(q) \cap S
      PROVE  u \in ToSet(r)
  <2>1. PICK j \in 1..Len(q) : q[j] = u
    BY ToSetIs
  <2>2. PICK k \in 1..Len(r) : e[k] = j
    BY <1>2, <2>1 DEF Places, r
  <2>3. r[k] = u
    BY <1>2, <2>1, <2>2 DEF Places, r
  <2> QED
    BY <1>1, <2>3, ToSetIs DEF r
<1> QED
  BY <1>1, <1>3, <1>4 DEF r

LEMMA AmongOrdered ==
    ASSUME NEW q \in Seq(Threads), NEW S, NEW p, NEW c, Ordered(q, p, c)
    PROVE  Ordered(Among(q, S), p, c)
<1>1. PICK e : Places(e, Among(q, S), q, Len(q), S)
  BY AmongPlaces
<1> SUFFICES ASSUME NEW i \in 1..Len(Among(q, S)), NEW j \in 1..Len(Among(q, S)), i < j
             PROVE  /\ Among(q, S)[i] # Among(q, S)[j]
                    /\ c[Among(q, S)[i]].addr = c[Among(q, S)[j]].addr =>
                          p[Among(q, S)[i]] <= p[Among(q, S)[j]]
  BY DEF Ordered
<1>2. e[i] \in 1..Len(q) /\ e[j] \in 1..Len(q) /\ e[i] < e[j]
  BY <1>1 DEF Places
<1>3. Among(q, S)[i] = q[e[i]] /\ Among(q, S)[j] = q[e[j]]
  BY <1>1 DEF Places
<1> QED
  BY <1>2, <1>3 DEF Ordered

LEMMA SameOrder ==
    ASSUME NEW q \in Seq(Threads), NEW p, NEW c, NEW p2, NEW c2, Ordered(q, p, c),
           \A u \in ToSet(q) : p2[u] = p[u] /\ c2[u].addr = c[u].addr
    PROVE  Ordered(q, p2, c2)
<1>1. \A i \in 1..Len(q) : q[i] \in ToSet(q)
  BY DEF ToSet
<1> QED
  BY <1>1 DEF Ordered

LEMMA InsertedOrdered ==
    ASSUME NEW q \in Seq(Threads), NEW p \in [Threads -> Nat], NEW t \in Threads,
           t \notin ToSet(q), Ordered(q, p, call)
    PROVE  /\ Inserted(q, p, t) \in Seq(Threads)
           /\ ToSet(Inserted(q, p, t)) = ToSet(q) \cup {t}
           /\ Ordered(Inserted(q, p, t), p, call)
<1> DEFINE i == LastBefore(q, p, t)
           r == Inserted(q, p, t)
<1>1. /\ i \in 0..Len(q)
      /\ r \in Seq(Threads)
      /\ Len(r) = Len(q) + 1
      /\ r[i + 1] = t
      /\ \A k \in 1..i : r[k] = q[k]
      /\ \A k \in (i + 2)..(Len(q) + 1) : r[k] = q[k - 1]
  BY InsertedAt
<1>2. /\ i = 0 \/ Before(p, q[i], t)
      /\ \A j \in (i + 1)..Len(q) : ~Before(p, q[j], t)
  BY InsertionPoint
<1>3. Len(q) \in Nat /\ \A k \in 1..Len(q) : q[k] \in Threads /\ q[k] \in ToSet(q)
  BY ToSetIs
<1> HIDE DEF i, r
<1>0. i \in Nat /\ i <= Len(q) /\ Len(q) \in Nat /\ Len(r) = Len(q) + 1
  BY <1>1, <1>3
<1>4. ToSet(r) = ToSet(q) \cup {t}
  <2>1. ASSUME NEW k \in 1..Len(r)
        PROVE  r[k] \in ToSet(q) \cup {t}
    <3>1. k \in 1..i \/ k = i + 1 \/ (k \in (i + 2)..(Len(q) + 1) /\ k - 1 \in 1..Len(q))
      BY <1>1, <1>3
    <3>2. k \in 1..i => k \in 1..Len(q)
      BY <1>1, <1>3
    <3> QED
      BY <1>1, <1>3, <3>1, <3>2
  <2>2. ASSUME NEW k \in 1..Len(q)
        PROVE  q[k] \in ToSet(r)
    <3>1. CASE k \in 1..i
      <4>1. k \in 1..Len(r)
        BY <1>0
      <4> QED
        BY <1>1, <3>1, <4>1, ToSetIs
    <3>2. CASE k \notin 1..i
      <4>1. k + 1 \in (i + 2)..(Len(q) + 1) /\ k + 1 \in 1..Len(r) /\ (k + 1) - 1 = k
        BY <1>0, <3>2
      <4> QED
        BY <1>1, <4>1, ToSetIs
    <3> QED
      BY <3>1, <3>2
  <2>3. t \in ToSet(r)
    <3>1. i + 1 \in 1..Len(r)
      BY <1>0
    <3> QED
      BY <1>1, <3>1, ToSetIs
  <2>4. ToSet(r) \subseteq ToSet(q) \cup {t}
    BY <1>1, <2>1, ToSetIs
  <2>5. ToSet(q) \subseteq ToSet(r)
    BY <2>2, ToSetIs
  <2> QED
    BY <2>3, <2>4, <2>5
<1>5. ASSUME NEW k \in 1..Len(r), NEW l \in 1..Len(r), k < l
      PROVE  /\ r[k] # r[l]
             /\ call[r[k]].addr = call[r[l]].addr => p[r[k]] <= p[r[l]]
  <2>1. CASE k \in 1..i /\ l \in 1..i
    <3>1. k \in 1..Len(q) /\ l \in 1..Len(q)
      BY <1>1, <1>3, <2>1
    <3> QED
      BY <1>1, <1>5, <2>1, <3>1 DEF Ordered
  <2>2. CASE k \in 1..i /\ l = i + 1
    <3>1. k \in 1..Len(q) /\ i \in 1..Len(q) /\ i # 0
      BY <1>1, <1>3, <2>2
    <3>2. r[k] = q[k] /\ r[l] = t
      BY <1>1, <2>2
    <3>3. call[q[i]].addr = call[t].addr /\ p[q[i]] <= p[t]
      BY <1>2, <3>1 DEF Before
    <3>4. call[q[k]].addr = call[t].addr => p[q[k]] <= p[q[i]]
      <4>1. CASE k = i
        BY <4>1, <1>3, <3>1
      <4>2. CASE k # i
        <5>1. k < i
          BY <1>1, <1>3, <2>2, <4>2
        <5> QED
          BY <3>1, <3>3, <5>1 DEF Ordered
      <4> QED
        BY <4>1, <4>2
    <3>5. p[q[k]] \in Nat /\ p[q[i]] \in Nat /\ p[t] \in Nat
      BY <1>3, <3>1
    <3> QED
      BY <1>3, <3>1, <3>2, <3>3, <3>4, <3>5
  <2>3. CASE k \in 1..i /\ l \in (i + 2)..(Len(q) + 1)
    <3>1. k \in 1..Len(q) /\ l - 1 \in 1..Len(q) /\ k < l - 1
      BY <1>0, <2>3
    <3>2. r[k] = q[k] /\ r[l] = q[l - 1]
      BY <1>1, <2>3
    <3> QED
      BY <3>1, <3>2 DEF Ordered
  <2>4. CASE k = i + 1 /\ l \in (i + 2)..(Len(q) + 1)
    <3>1. l - 1 \in (i + 1)..Len(q) /\ l - 1 \in 1..Len(q)
      BY <1>1, <1>3, <2>4
    <3>2. r[k] = t /\ r[l] = q[l - 1]
      BY <1>1, <2>4
    <3>3. ~Before(p, q[l - 1], t)
      BY <1>2, <3>1
    <3>4. p[q[l - 1]] \in Nat /\ p[t] \in Nat
      BY <1>3, <3>1
    <3>5. q[l - 1] \in ToSet(q)
      BY <1>3, <3>1
    <3> QED
      BY <3>2, <3>3, <3>4, <3>5 DEF Before
  <2>5. CASE k \in (i + 2)..(Len(q) + 1) /\ l \in (i + 2)..(Len(q) + 1)
    <3>1. k - 1 \in 1..Len(q) /\ l - 1 \in 1..Len(q) /\ k - 1 < l - 1
      BY <1>1, <1>3, <1>5, <2>5
    <3>2. r[k] = q[k - 1] /\ r[l] = q[l - 1]
      BY <1>1, <2>5
    <3> QED
      BY <3>1, <3>2 DEF Ordered
  <2> QED
    BY <1>1, <1>3, <1>5, <2>1, <2>2, <2>3, <2>4, <2>5
<1> QED
  BY <1>1, <1>4, <1>5 DEF r, Ordered


-----------------------------------------------------------------------------
(* The invariant.                                                          *)

LEMMA WrappedIsWord ==
    /\ \A v \in Int : Wrapped(v) \in Int32
    /\ \A v \in Int32 : Wrapped(v) = v
<1>1. Half \in Nat /\ Half > 0
  BY ArbiterAssumption
<1>2. ASSUME NEW v \in Int
      PROVE  Wrapped(v) \in Int32
  BY <1>1 DEF Wrapped, Int32
<1>3. ASSUME NEW v \in Int32
      PROVE  Wrapped(v) = v
  <2>1. v \in Int /\ 0 <= v + Half /\ v + Half < 2 * Half
    BY <1>1 DEF Int32
  <2>2. (v + Half) % (2 * Half) = v + Half
    BY <1>1, <2>1
  <2> QED
    BY <1>1, <2>1, <2>2 DEF Wrapped
<1> QED
  BY <1>2, <1>3

\* Who is in the tree waits, and the tree is in order; between the two steps of a wait
\* its thread has the scheduler lock.
TreeInv ==
    /\ Ordered(tree, prio, call)
    /\ \A t \in ToSet(tree) : pc[t] = "waiting"
    /\ \A t \in Threads : pc[t] = "begin" => schedLock = t

\* A wait that has read its word and is not over.
Begun(t) == pc[t] = "begin" \/ t \in ToSet(tree)

SignalComes(a) ==
    \E s \in Threads : pc[s] = "signal" /\ call[s].addr = a /\ call[s].count = 0

SignalWillCome(a) ==
    \E s \in Threads : pc'[s] = "signal" /\ call'[s].addr = a /\ call'[s].count = 0

\* No change of a futex goes unnoticed by a wait, from the moment it has read the word.
Noticed ==
    \A t \in Threads : Begun(t) /\ call[t].addr \in futexes =>
        \/ Holds(call[t].kind, word[call[t].addr], call[t].value)
        \/ SignalComes(call[t].addr)

ArbiterInv == TypeOK /\ TreeInv /\ Noticed

LEMMA NoCallType ==
    /\ NoCall \in [kind : Kinds, addr : Addresses, value : Int32, count : Nat,
                   timeout : Timeouts \cup {"zero"}]
    /\ NoCall.count = 0
<1>1. (CHOOSE a \in Addresses : TRUE) \in Addresses
  BY ArbiterAssumption
<1>2. 0 \in Int32
  BY ArbiterAssumption DEF Int32
<1> QED
  BY <1>1, <1>2 DEF NoCall, Kinds

LEMMA ArbiterInit == Init => ArbiterInv
<1> SUFFICES ASSUME Init PROVE ArbiterInv
  OBVIOUS
<1>1. tree = <<>> /\ ToSet(tree) = {} /\ tree \in Seq(Threads)
  BY DEF Init, ToSet
<1>2. TypeOK
  BY <1>1, NoCallType, ArbiterAssumption DEF Init, TypeOK, Int32
<1>3. TreeInv /\ Noticed
  BY <1>1 DEF Init, TreeInv, Noticed, Begun, Ordered
<1> QED
  BY <1>2, <1>3 DEF ArbiterInv

\* What a signal or the end of a wait leaves.
LEMMA WakeKeeps ==
    ASSUME TypeOK, TreeInv, NEW ts, NEW r \in {"Success", "TimedOut", "Terminated"}, Wake(ts, r)
    PROVE  /\ tree' \in Seq(Threads)
           /\ ToSet(tree') = ToSet(tree) \ ts
           /\ timed' \subseteq ToSet(tree')
           /\ result' \in [Threads -> {"Success", "TimedOut", "Terminated"}]
           /\ Ordered(tree', prio, call)
<1>1. tree \in Seq(Threads) /\ ToSet(tree) \subseteq Threads
  BY ToSetIs DEF TypeOK
<1>2. PICK q : q = Among(tree, Threads \ ts)
  OBVIOUS
<1>3. q \in Seq(Threads) /\ ToSet(q) = ToSet(tree) \ ts /\ Ordered(q, prio, call)
  <2>1. ToSet(tree) \cap (Threads \ ts) = ToSet(tree) \ ts
    BY <1>1
  <2> QED
    BY <1>1, <1>2, <2>1, AmongSet, AmongOrdered DEF TreeInv
<1>4. tree' = q
  BY <1>2 DEF Wake
<1> QED
  BY <1>3, <1>4 DEF Wake, TypeOK

\* The threads a signal wakes: of those at the address, the first ones.
LEMMA WokenAre ==
    ASSUME TypeOK, TreeInv, NEW a, NEW n \in Nat
    PROVE  LET at == {t \in ToSet(tree) : call[t].addr = a}
               len == Len(WaitersAt(a))
           IN /\ Woken(a, n) \subseteq at
              /\ n = 0 \/ n >= len => Woken(a, n) = at
              /\ \A u \in Woken(a, n), w \in at \ Woken(a, n) : prio[u] <= prio[w]
              /\ len \in Nat
              /\ len = 0 <=> at = {}
              /\ 0 < n /\ n < len => Woken(a, n) # {} /\ at \ Woken(a, n) # {}
<1> DEFINE at == {t \in ToSet(tree) : call[t].addr = a}
           ws == WaitersAt(a)
<1>1. tree \in Seq(Threads) /\ ToSet(tree) \subseteq Threads
  BY ToSetIs DEF TypeOK
<1>2. ws \in Seq(Threads) /\ ToSet(ws) = at /\ Ordered(ws, prio, call)
  <2>1. ToSet(tree) \cap {t \in Threads : call[t].addr = a} = at
    BY <1>1
  <2> QED
    BY <1>1, <2>1, AmongSet, AmongOrdered DEF WaitersAt, TreeInv
<1> HIDE DEF ws
<1>3. /\ Len(ws) \in Nat
      /\ \A k \in 1..Len(ws) : ws[k] \in at
      /\ \A u \in at : \E k \in 1..Len(ws) : ws[k] = u
  BY <1>2, ToSetIs
<1>4. Len(ws) = 0 <=> at = {}
  <2>1. Len(ws) # 0 => 1 \in 1..Len(ws)
    BY <1>3
  <2> QED
    BY <1>3, <2>1
<1>5. CASE n = 0 \/ n > Len(ws)
  <2>1. Woken(a, n) = at
    BY <1>2, <1>5 DEF Woken, ws
  <2>2. ~(0 < n /\ n < Len(ws))
    BY <1>3, <1>5
  <2> QED
    BY <1>3, <1>4, <2>1, <2>2 DEF ws
<1>6. CASE ~(n = 0 \/ n > Len(ws))
  <2>1. n \in 1..Len(ws)
    BY <1>3, <1>6
  <2>2. Woken(a, n) = ToSet(SubSeq(ws, 1, n))
    BY <1>3, <1>6 DEF Woken, ws
  <2>3. SubSeq(ws, 1, n) \in Seq(Threads) /\ Len(SubSeq(ws, 1, n)) = n
        /\ \A k \in 1..n : SubSeq(ws, 1, n)[k] = ws[k]
    BY <1>2, <1>3, <2>1
  <2>4. /\ \A k \in 1..n : ws[k] \in Woken(a, n)
        /\ \A u \in Woken(a, n) : \E k \in 1..n : ws[k] = u
    <3> DEFINE s == SubSeq(ws, 1, n)
    <3>1. s \in Seq(Threads) /\ Len(s) = n /\ \A k \in 1..n : s[k] = ws[k]
      BY <2>3
    <3> HIDE DEF s
    <3>2. /\ \A k \in 1..n : s[k] \in ToSet(s)
          /\ \A u \in ToSet(s) : \E k \in 1..n : s[k] = u
      BY <3>1, ToSetIs
    <3>3. Woken(a, n) = ToSet(s)
      BY <2>2 DEF s
    <3> QED
      BY <3>1, <3>2, <3>3
  <2>5. \A k \in 1..n : k \in 1..Len(ws)
    BY <1>3, <2>1
  <2>6. Woken(a, n) \subseteq at
    BY <1>3, <2>4, <2>5
  <2>7. n >= Len(ws) => Woken(a, n) = at
    <3>1. n >= Len(ws) => n = Len(ws)
      BY <1>3, <2>1
    <3> QED
      BY <1>3, <2>4, <2>6, <3>1
  <2>8. ASSUME NEW u \in Woken(a, n), NEW w \in at \ Woken(a, n)
        PROVE  prio[u] <= prio[w]
    <3>1. PICK k \in 1..n : ws[k] = u
      BY <2>4
    <3>2. PICK l \in 1..Len(ws) : ws[l] = w
      BY <1>3
    <3>3. l \notin 1..n
      BY <2>4, <3>2
    <3>4. k \in 1..Len(ws) /\ k < l
      BY <1>3, <2>1, <3>3
    <3>5. call[u].addr = call[w].addr
      BY <2>6
    <3> QED
      BY <1>2, <3>1, <3>2, <3>4, <3>5 DEF Ordered
  <2>9. n < Len(ws) => Woken(a, n) # {} /\ at \ Woken(a, n) # {}
    <3> SUFFICES ASSUME n < Len(ws)
                 PROVE  Woken(a, n) # {} /\ at \ Woken(a, n) # {}
      OBVIOUS
    <3>1. n \in 1..n /\ n + 1 \in 1..Len(ws)
      BY <1>3, <2>1
    <3>2. ASSUME NEW k \in 1..n
          PROVE  ws[k] # ws[n + 1]
      <4>1. k \in 1..Len(ws) /\ k < n + 1
        BY <2>1, <2>5
      <4> QED
        BY <1>2, <3>1, <4>1 DEF Ordered
    <3>3. ws[n + 1] \in at /\ ws[n + 1] \notin Woken(a, n)
      BY <1>3, <2>4, <3>1, <3>2
    <3> QED
      BY <2>4, <3>1, <3>3
  <2> QED
    BY <1>3, <1>4, <1>6, <2>6, <2>7, <2>8, <2>9 DEF ws
<1> QED
  BY <1>5, <1>6


-----------------------------------------------------------------------------
(* The steps.                                                              *)

\* A step that is neither about t nor about the word leaves what t learned of it.
LEMMA StillNoticed ==
    ASSUME ArbiterInv, futexes' = futexes,
           \A t \in Threads : Begun(t)' =>
               \/ Begun(t) /\ call'[t] = call[t]
               \/ Holds(call'[t].kind, word'[call'[t].addr], call'[t].value),
           \A t \in Threads :
               Begun(t)' /\ call[t].addr \in futexes =>
                   \/ word'[call[t].addr] = word[call[t].addr]
                   \/ SignalWillCome(call[t].addr),
           \A t \in Threads :
               Begun(t)' /\ call[t].addr \in futexes /\ SignalComes(call[t].addr) =>
                   SignalWillCome(call[t].addr)
    PROVE  Noticed'
<1> SUFFICES ASSUME NEW t \in Threads, Begun(t)', call'[t].addr \in futexes
             PROVE  \/ Holds(call'[t].kind, word'[call'[t].addr], call'[t].value)
                    \/ SignalWillCome(call'[t].addr)
  BY DEF Noticed, SignalComes, SignalWillCome
<1> SUFFICES ASSUME Begun(t), call'[t] = call[t]
             PROVE  \/ Holds(call'[t].kind, word'[call'[t].addr], call'[t].value)
                    \/ SignalWillCome(call'[t].addr)
  OBVIOUS
<1>1. Begun(t) /\ call'[t] = call[t]
  OBVIOUS
<1> DEFINE a == call[t].addr
<1>2. Holds(call[t].kind, word[a], call[t].value) \/ SignalComes(a)
  BY <1>1 DEF ArbiterInv, Noticed
<1>3. (word'[a] = word[a] \/ SignalWillCome(a)) /\ (SignalComes(a) => SignalWillCome(a))
  BY <1>1
<1> QED
  BY <1>1, <1>2, <1>3 DEF Holds


LEMMA TreeKept ==
    ASSUME TypeOK, TreeInv,
           tree' \in Seq(Threads), ToSet(tree') \subseteq ToSet(tree),
           Ordered(tree', prio, call), prio' = prio,
           \A u \in ToSet(tree') : pc'[u] = pc[u] /\ call'[u].addr = call[u].addr,
           \A u \in Threads : pc'[u] = "begin" => schedLock' = u
    PROVE  TreeInv'
<1>1. Ordered(tree', prio', call')
  BY SameOrder
<1> QED
  BY <1>1 DEF TreeInv

LEMMA TreeSame ==
    ASSUME TypeOK, TreeInv, tree' = tree, prio' = prio,
           \A u \in ToSet(tree) : pc'[u] = pc[u] /\ call'[u].addr = call[u].addr,
           \A u \in Threads : pc'[u] = "begin" => schedLock' = u
    PROVE  TreeInv'
<1>1. tree \in Seq(Threads) /\ Ordered(tree, prio, call)
  BY DEF TypeOK, TreeInv
<1>2. tree' \in Seq(Threads) /\ Ordered(tree', prio, call)
      /\ ToSet(tree') \subseteq ToSet(tree)
  BY <1>1
<1> QED
  BY <1>2, TreeKept

LEMMA GuestStoreStep ==
    ASSUME ArbiterInv, futexes' = futexes, NEW t \in Threads, NEW a \in Addresses,
           NEW v \in Int32, GuestStore(t, a, v)
    PROVE  ArbiterInv'
<1>1. pc[t] = "guest" /\ t \notin ToSet(tree)
  BY DEF GuestStore, ArbiterInv, TreeInv
<1>2. TypeOK'
  BY NoCallType DEF GuestStore, ArbiterInv, TypeOK, Kinds
<1>3. /\ pc'[t] = "signal" /\ call'[t].addr = a /\ call'[t].count = 0
      /\ \A u \in Threads \ {t} : pc'[u] = pc[u] /\ call'[u] = call[u]
  BY NoCallType DEF GuestStore, ArbiterInv, TypeOK
<1>4. TreeInv'
  <2>1. \A u \in ToSet(tree) : pc'[u] = pc[u] /\ call'[u].addr = call[u].addr
    BY <1>1, <1>3, ToSetIs DEF ArbiterInv, TypeOK
  <2>2. \A u \in Threads : pc'[u] = "begin" => schedLock' = u
    BY <1>3 DEF GuestStore, ArbiterInv, TreeInv
  <2> QED
    BY <2>1, <2>2, TreeSame DEF GuestStore, ArbiterInv
<1>5. Noticed'
  <2>1. \A u \in Threads : Begun(u)' => u # t /\ Begun(u) /\ call'[u] = call[u]
    BY <1>1, <1>3 DEF Begun, GuestStore
  <2>2. SignalWillCome(a)
    BY <1>3 DEF SignalWillCome
  <2>3. \A u \in Threads : call[u].addr # a => word'[call[u].addr] = word[call[u].addr]
    BY DEF GuestStore, ArbiterInv, TypeOK
  <2>4. \A u \in Threads : SignalComes(call[u].addr) => SignalWillCome(call[u].addr)
    <3>1. \A s \in Threads : pc[s] = "signal" => pc'[s] = pc[s] /\ call'[s] = call[s]
      BY <1>1, <1>3
    <3> QED
      BY <3>1 DEF SignalComes, SignalWillCome
  <2> QED
    BY <2>1, <2>2, <2>3, <2>4, StillNoticed
<1> QED
  BY <1>2, <1>4, <1>5 DEF ArbiterInv

\* A signal wakes threads at its address: those that wait elsewhere, and those a signal
\* will come for, are left as they were.
LEMMA WakeStep ==
    ASSUME ArbiterInv, futexes' = futexes, NEW t \in Threads,
           SchedulerFree,
           NEW ts, NEW r \in {"Success", "TimedOut", "Terminated"}, Wake(ts, r),
           prio' = prio, schedLock' = schedLock,
           \A u \in Threads \ {t} : pc'[u] = pc[u] /\ call'[u] = call[u],
           \A u \in ToSet(tree) \ ts : pc'[u] = pc[u] /\ call'[u] = call[u],
           pc'[t] # "begin",
           \/ pc[t] # "signal" \/ call[t].count # 0
           \/ pc'[t] = "signal" /\ call'[t] = call[t]
           \/ \A u \in ToSet(tree) \ ts : call[u].addr # call[t].addr,
           \A u \in ToSet(tree) \ ts :
               call[u].addr \in futexes => word'[call[u].addr] = word[call[u].addr]
    PROVE  TreeInv' /\ Noticed'
<1>1. /\ tree' \in Seq(Threads)
      /\ ToSet(tree') = ToSet(tree) \ ts
      /\ Ordered(tree', prio, call)
  BY WakeKeeps DEF ArbiterInv
<1>2. \A u \in ToSet(tree') : u \in Threads /\ pc'[u] = pc[u] /\ call'[u] = call[u]
  BY <1>1, ToSetIs
<1>3. \A u \in Threads : pc'[u] # "begin"
  <2>1. \A u \in Threads : pc[u] # "begin"
    BY ArbiterAssumption DEF ArbiterInv, TreeInv, SchedulerFree
  <2> QED
    BY <2>1
<1>4. TreeInv'
  BY <1>1, <1>2, <1>3, TreeKept DEF ArbiterInv
<1>5. Noticed'
  <2>1. \A u \in Threads : Begun(u)' =>
           u \in ToSet(tree) \ ts /\ Begun(u) /\ call'[u] = call[u]
    BY <1>1, <1>2, <1>3 DEF Begun
  <2>2. ASSUME NEW u \in ToSet(tree) \ ts, SignalComes(call[u].addr)
        PROVE  SignalWillCome(call[u].addr)
    <3>1. PICK s \in Threads : /\ pc[s] = "signal" /\ call[s].addr = call[u].addr
                               /\ call[s].count = 0
      BY <2>2 DEF SignalComes
    <3>2. pc'[s] = pc[s] /\ call'[s] = call[s]
      BY <3>1
    <3> QED
      BY <3>1, <3>2 DEF SignalWillCome
  <2> QED
    BY <2>1, <2>2, StillNoticed
<1> QED
  BY <1>4, <1>5


LEMMA SignalStep ==
    ASSUME ArbiterInv, futexes' = futexes, NEW t \in Threads, Signal(t)
    PROVE  ArbiterInv'
<1> DEFINE a == call[t].addr
           n == call[t].count
           ts == Woken(a, n)
<1>1. n \in Nat /\ t \notin ToSet(tree) /\ pc'[t] = "guest" /\ Wake(ts, "Success")
      /\ \A u \in Threads \ {t} : pc'[u] = pc[u] /\ call'[u] = call[u]
  BY DEF Signal, ArbiterInv, TypeOK, TreeInv
<1>2. TypeOK'
  BY <1>1, WakeKeeps, NoCallType DEF Signal, ArbiterInv, TypeOK
<1>3. ToSet(tree) \subseteq Threads \ {t}
  BY <1>1, ToSetIs DEF ArbiterInv, TypeOK
<1>4. n # 0 \/ \A u \in ToSet(tree) \ ts : call[u].addr # a
  <2>1. n = 0 => ts = {u \in ToSet(tree) : call[u].addr = a}
    BY <1>1, WokenAre DEF ArbiterInv
  <2> QED
    BY <2>1
<1>5. \A u \in ToSet(tree) \ ts : word'[call[u].addr] = word[call[u].addr]
  BY DEF Signal
<1> HIDE DEF a, n, ts
<1>6. TreeInv' /\ Noticed'
  BY <1>1, <1>3, <1>4, <1>5, WakeStep DEF Signal, a, n
<1> QED
  BY <1>2, <1>6 DEF ArbiterInv

\* The two signals that change the word.
LEMMA SignalAndChange ==
    ASSUME ArbiterInv, futexes' = futexes, NEW t \in Threads, NEW a \in Addresses,
           NEW v \in Int32, NEW count \in Counts, NEW new \in Int32,
           pc[t] = "guest", AllIfFutex(a, count), SchedulerFree,
           UpdateIfEqual(a, v, new), Wake(Woken(a, count), "Success"),
           UNCHANGED <<prio, schedLock, pc, call, termReq>>
    PROVE  ArbiterInv'
<1>1. count \in Nat
  BY ArbiterAssumption
<1>2. TypeOK'
  BY WakeKeeps DEF UpdateIfEqual, ArbiterInv, TypeOK
<1>3. \A u \in ToSet(tree) \ Woken(a, count) :
         call[u].addr \in futexes => word'[call[u].addr] = word[call[u].addr]
  <2> SUFFICES ASSUME NEW u \in ToSet(tree) \ Woken(a, count), call[u].addr \in futexes
               PROVE  word'[call[u].addr] = word[call[u].addr]
    OBVIOUS
  <2>1. CASE call[u].addr = a
    <3>1. count = 0
      BY <1>1, <2>1 DEF AllIfFutex
    <3>2. Woken(a, count) = {w \in ToSet(tree) : call[w].addr = a}
      BY <1>1, <3>1, WokenAre DEF ArbiterInv
    <3> QED
      BY <2>1, <3>2
  <2>2. CASE call[u].addr # a
    <3>1. word \in [Addresses -> Int32] /\ u \in Threads /\ call[u].addr \in Addresses
      BY ToSetIs DEF ArbiterInv, TypeOK
    <3> QED
      BY <2>2, <3>1 DEF UpdateIfEqual
  <2> QED
    BY <2>1, <2>2
<1>4. TreeInv' /\ Noticed'
  <2>1. \A u \in Threads : pc'[u] = pc[u] /\ call'[u] = call[u]
    OBVIOUS
  <2>2. ToSet(tree) \subseteq Threads
    BY ToSetIs DEF ArbiterInv, TypeOK
  <2> DEFINE ts == Woken(a, count)
  <2>3. Wake(ts, "Success") /\ pc'[t] # "begin" /\ pc[t] # "signal"
    OBVIOUS
  <2> HIDE DEF ts
  <2> QED
    BY <1>3, <2>1, <2>2, <2>3, WakeStep DEF ts
<1> QED
  BY <1>2, <1>4 DEF ArbiterInv

LEMMA SignalAndIncrementStep ==
    ASSUME ArbiterInv, futexes' = futexes, NEW t \in Threads, NEW a \in Addresses,
           NEW v \in Int32, NEW count \in Counts, SignalAndIncrementIfEqual(t, a, v, count)
    PROVE  ArbiterInv'
<1>1. Wrapped(v + 1) \in Int32
  <2>1. v + 1 \in Int
    BY ArbiterAssumption DEF Int32
  <2> QED
    BY <2>1, WrappedIsWord
<1> QED
  BY <1>1, SignalAndChange DEF SignalAndIncrementIfEqual

LEMMA SignalAndModifyStep ==
    ASSUME ArbiterInv, futexes' = futexes, NEW t \in Threads, NEW a \in Addresses,
           NEW v \in Int32, NEW count \in Counts,
           SignalAndModifyByWaitingCountIfEqual(t, a, v, count)
    PROVE  ArbiterInv'
<1>1. NewValue(a, v, count) \in Int32
  <2>1. v + 1 \in Int /\ v - 1 \in Int /\ v - 2 \in Int
    BY ArbiterAssumption DEF Int32
  <2> QED
    BY <2>1, WrappedIsWord DEF NewValue
<1> QED
  BY <1>1, SignalAndChange DEF SignalAndModifyByWaitingCountIfEqual

LEMMA WaitReadsStep ==
    ASSUME ArbiterInv, futexes' = futexes, NEW t \in Threads, NEW kind \in Waits,
           NEW a \in Addresses, NEW v \in Int32, NEW timeout \in Timeouts,
           WaitReads(t, kind, a, v, timeout)
    PROVE  ArbiterInv'
<1>1. /\ pc[t] = "guest" /\ t \notin ToSet(tree) /\ word \in [Addresses -> Int32]
      /\ \A u \in ToSet(tree) : u \in Threads /\ u # t
      /\ \A u \in Threads : call[u].addr \in Addresses
  BY ToSetIs DEF WaitReads, ArbiterInv, TreeInv, TypeOK
<1>2. /\ word' \in [Addresses -> Int32]
      /\ \A b \in Addresses \cap futexes : word'[b] = word[b]
  <2>1. word[a] \in Int32 /\ word[a] - 1 \in Int
    BY <1>1, ArbiterAssumption DEF Int32
  <2>2. Wrapped(word[a] - 1) \in Int32
    BY <2>1, WrappedIsWord
  <2> QED
    BY <1>1, <2>2 DEF WaitReads
<1>3. \A u \in Threads : SignalComes(call[u].addr) => SignalWillCome(call[u].addr)
  <2>1. \A s \in Threads : pc[s] = "signal" => pc'[s] = pc[s] /\ call'[s] = call[s]
    BY <1>1 DEF WaitReads, ArbiterInv, TypeOK
  <2> QED
    BY <2>1 DEF SignalComes, SignalWillCome
<1>4. CASE timeout = "zero"
  <2>1. TypeOK'
    BY <1>2, <1>4 DEF WaitReads, ArbiterInv, TypeOK
  <2>2. TreeInv'
    BY <1>4, TreeSame DEF WaitReads, ArbiterInv, TreeInv
  <2>3. \A u \in Threads : Begun(u)' => Begun(u) /\ call'[u] = call[u]
    BY <1>4 DEF WaitReads, Begun
  <2>4. Noticed'
    BY <1>1, <1>2, <1>3, <2>3, StillNoticed
  <2> QED
    BY <2>1, <2>2, <2>4 DEF ArbiterInv
<1>5. CASE timeout # "zero"
  <2>1. /\ pc' = [pc EXCEPT ![t] = "begin"]
        /\ call' = [call EXCEPT ![t] = [kind |-> kind, addr |-> a, value |-> v,
                                        count |-> 0, timeout |-> timeout]]
        /\ schedLock' = t
    BY <1>5 DEF WaitReads
  <2>2. TypeOK'
    BY <1>2, <2>1 DEF WaitReads, ArbiterInv, TypeOK, Kinds
  <2>3. /\ call'[t].kind = kind /\ call'[t].addr = a /\ call'[t].value = v
        /\ \A u \in Threads \ {t} : pc'[u] = pc[u] /\ call'[u] = call[u]
    BY <2>1 DEF ArbiterInv, TypeOK
  <2>4. TreeInv'
    <3>1. \A u \in Threads : pc'[u] = "begin" => schedLock' = u
      <4>1. \A u \in Threads : pc[u] # "begin"
        BY ArbiterAssumption
        DEF WaitReads, ReadUnderLock, SchedulerFree, ArbiterInv, TreeInv
      <4> QED
        BY <2>1, <2>3, <4>1
    <3>2. \A u \in ToSet(tree) : pc'[u] = pc[u] /\ call'[u].addr = call[u].addr
      BY <1>1, <2>3
    <3> QED
      BY <3>1, <3>2, TreeSame DEF WaitReads, ArbiterInv
  <2>5. \A u \in Threads : Begun(u)' /\ u # t => Begun(u) /\ call'[u] = call[u]
    BY <2>3 DEF WaitReads, Begun
  <2>6. call'[t].addr \in futexes =>
           Holds(call'[t].kind, word'[call'[t].addr], call'[t].value)
    BY <1>2, <2>3 DEF WaitReads
  <2>7. Noticed'
    <3> SUFFICES ASSUME NEW u \in Threads, Begun(u)', call'[u].addr \in futexes
                 PROVE  \/ Holds(call'[u].kind, word'[call'[u].addr], call'[u].value)
                        \/ SignalWillCome(call'[u].addr)
      BY DEF Noticed, SignalComes, SignalWillCome
    <3>1. CASE u = t
      BY <2>6, <3>1
    <3>2. CASE u # t
      BY <1>1, <1>2, <1>3, <2>5, <3>2 DEF ArbiterInv, Noticed
    <3> QED
      BY <3>1, <3>2
  <2> QED
    BY <2>2, <2>4, <2>7 DEF ArbiterInv
<1> QED
  BY <1>4, <1>5


LEMMA WaitBeginsStep ==
    ASSUME ArbiterInv, futexes' = futexes, NEW t \in Threads, WaitBegins(t)
    PROVE  ArbiterInv'
<1>1. /\ pc[t] = "begin" /\ t \notin ToSet(tree) /\ tree \in Seq(Threads)
      /\ prio \in [Threads -> Nat] /\ Ordered(tree, prio, call)
      /\ ToSet(tree) \subseteq Threads
  BY ToSetIs, ArbiterAssumption DEF WaitBegins, ArbiterInv, TypeOK, TreeInv
<1>2. PICK r : r = Inserted(tree, prio, t)
  OBVIOUS
<1>3. r \in Seq(Threads) /\ ToSet(r) = ToSet(tree) \cup {t} /\ Ordered(r, prio, call)
  BY <1>1, <1>2, InsertedOrdered
<1>4. tree' = r /\ prio' = prio /\ call' = call
  BY <1>2 DEF WaitBegins
<1>5. TypeOK'
  BY <1>3, <1>4 DEF WaitBegins, ArbiterInv, TypeOK
<1>6. pc'[t] = "waiting" /\ \A u \in Threads \ {t} : pc'[u] = pc[u]
  BY DEF WaitBegins, ArbiterInv, TypeOK
<1>7. TreeInv'
  <2>1. \A u \in ToSet(tree') : pc'[u] = "waiting"
    BY <1>1, <1>3, <1>4, <1>6 DEF ArbiterInv, TreeInv
  <2>2. \A u \in Threads : pc'[u] # "begin"
    BY <1>1, <1>6 DEF ArbiterInv, TreeInv
  <2> QED
    BY <1>3, <1>4, <2>1, <2>2 DEF TreeInv
<1>8. Noticed'
  <2>1. \A u \in Threads : Begun(u)' => Begun(u)
    BY <1>1, <1>3, <1>4, <1>6 DEF Begun
  <2>2. \A u \in Threads : SignalComes(call[u].addr) => SignalWillCome(call[u].addr)
    <3>1. \A s \in Threads : pc[s] = "signal" => pc'[s] = pc[s]
      BY <1>1, <1>6
    <3> QED
      BY <1>4, <3>1 DEF SignalComes, SignalWillCome
  <2> QED
    BY <1>4, <2>1, <2>2, StillNoticed DEF WaitBegins
<1> QED
  BY <1>5, <1>7, <1>8 DEF ArbiterInv

\* A step of a thread that neither waits nor is to signal, to another such place or to a
\* signal; the word stays.
LEMMA QuietStep ==
    ASSUME ArbiterInv, futexes' = futexes, NEW t \in Threads,
           t \notin ToSet(tree), pc[t] \notin {"begin", "signal"}, pc'[t] # "begin",
           \A u \in Threads \ {t} : pc'[u] = pc[u] /\ call'[u] = call[u],
           UNCHANGED <<word, tree, prio, schedLock>>
    PROVE  TreeInv' /\ Noticed'
<1>1. \A u \in ToSet(tree) : u \in Threads /\ u # t
  BY ToSetIs DEF ArbiterInv, TypeOK
<1>2. TreeInv'
  <2>1. \A u \in Threads : pc'[u] = "begin" => schedLock' = u
    BY DEF ArbiterInv, TreeInv
  <2> QED
    BY <1>1, <2>1, TreeSame DEF ArbiterInv
<1>3. Noticed'
  <2>1. \A u \in Threads : Begun(u)' => Begun(u) /\ call'[u] = call[u]
    BY <1>1 DEF Begun
  <2>2. \A u \in Threads : SignalComes(call[u].addr) => SignalWillCome(call[u].addr)
    BY DEF SignalComes, SignalWillCome
  <2> QED
    BY <2>1, <2>2, StillNoticed
<1> QED
  BY <1>2, <1>3

LEMMA WaitReturnStep ==
    ASSUME ArbiterInv, futexes' = futexes, NEW t \in Threads, WaitReturn(t)
    PROVE  ArbiterInv'
<1>1. TypeOK'
  BY NoCallType DEF WaitReturn, ArbiterInv, TypeOK
<1>2. TreeInv' /\ Noticed'
  <2>1. /\ pc[t] = "waiting" /\ pc'[t] = "guest" /\ t \notin ToSet(tree)
        /\ \A u \in Threads \ {t} : pc'[u] = pc[u] /\ call'[u] = call[u]
    BY DEF WaitReturn, Waiting, ArbiterInv, TypeOK
  <2> QED
    BY <2>1, QuietStep DEF WaitReturn
<1> QED
  BY <1>1, <1>2 DEF ArbiterInv

LEMMA ExitStep ==
    ASSUME ArbiterInv, futexes' = futexes, NEW t \in Threads, Exit(t)
    PROVE  ArbiterInv'
<1>1. TypeOK'
  BY DEF Exit, ArbiterInv, TypeOK
<1>2. TreeInv' /\ Noticed'
  <2>1. /\ pc[t] = "guest" /\ pc'[t] = "dead" /\ t \notin ToSet(tree)
        /\ \A u \in Threads \ {t} : pc'[u] = pc[u] /\ call'[u] = call[u]
    BY DEF Exit, ArbiterInv, TypeOK, TreeInv
  <2> QED
    BY <2>1, QuietStep DEF Exit
<1> QED
  BY <1>1, <1>2 DEF ArbiterInv

LEMMA GuestSignalStep ==
    ASSUME ArbiterInv, futexes' = futexes, NEW t \in Threads, NEW a \in Addresses,
           NEW count \in Counts, GuestSignal(t, a, count)
    PROVE  ArbiterInv'
<1>1. TypeOK'
  BY NoCallType, ArbiterAssumption DEF GuestSignal, ArbiterInv, TypeOK, Kinds
<1>2. TreeInv' /\ Noticed'
  <2>1. /\ pc[t] = "guest" /\ pc'[t] = "signal" /\ t \notin ToSet(tree)
        /\ \A u \in Threads \ {t} : pc'[u] = pc[u] /\ call'[u] = call[u]
    BY DEF GuestSignal, ArbiterInv, TypeOK, TreeInv
  <2> QED
    BY <2>1, QuietStep DEF GuestSignal
<1> QED
  BY <1>1, <1>2 DEF ArbiterInv

\* A timeout, or a termination: one thread is taken out of the tree.
LEMMA CancelStep ==
    ASSUME ArbiterInv, futexes' = futexes, NEW t \in Threads, SchedulerFree,
           NEW r \in {"TimedOut", "Terminated"}, Wake({t}, r), termReq' \subseteq Mortal,
           UNCHANGED <<word, prio, schedLock, pc, call>>
    PROVE  ArbiterInv'
<1>1. TypeOK'
  BY WakeKeeps DEF ArbiterInv, TypeOK
<1>2. \A u \in Threads : pc'[u] = pc[u] /\ call'[u] = call[u]
  OBVIOUS
<1>3. pc'[t] # "begin"
  BY ArbiterAssumption DEF ArbiterInv, TreeInv, SchedulerFree
<1>4. pc[t] # "signal" \/ (pc'[t] = "signal" /\ call'[t] = call[t])
  OBVIOUS
<1>5. ToSet(tree) \subseteq Threads
  BY ToSetIs DEF ArbiterInv, TypeOK
<1> DEFINE ts == {t}
<1>6. Wake(ts, r)
  OBVIOUS
<1> HIDE DEF ts
<1>7. TreeInv' /\ Noticed'
  BY <1>2, <1>3, <1>4, <1>5, <1>6, WakeStep
<1> QED
  BY <1>1, <1>7 DEF ArbiterInv

LEMMA RequestTerminateStep ==
    ASSUME ArbiterInv, futexes' = futexes, NEW t \in Threads, RequestTerminate(t)
    PROVE  ArbiterInv'
<1>1. termReq' \subseteq Mortal
  BY DEF RequestTerminate, ArbiterInv, TypeOK
<1>2. CASE Waiting(t)
  BY <1>1, <1>2, CancelStep DEF RequestTerminate
<1>3. CASE ~Waiting(t)
  <2>1. TypeOK'
    BY <1>1, <1>3 DEF RequestTerminate, ArbiterInv, TypeOK
  <2>2. TreeInv' /\ Noticed'
    BY <1>3 DEF RequestTerminate, ArbiterInv, TreeInv, Noticed, Begun, SignalComes
  <2> QED
    BY <2>1, <2>2 DEF ArbiterInv
<1> QED
  BY <1>2, <1>3

\* A waiter is sorted again, behind those that are as urgent now.
LEMMA SetPriorityStep ==
    ASSUME ArbiterInv, futexes' = futexes, NEW t \in Threads, NEW p \in Priorities,
           SetPriority(t, p)
    PROVE  ArbiterInv' /\ ToSet(tree') = ToSet(tree)
<1>1. /\ tree \in Seq(Threads) /\ ToSet(tree) \subseteq Threads
      /\ Ordered(tree, prio, call)
  BY ToSetIs DEF ArbiterInv, TypeOK, TreeInv
<1>2. PICK np : np = prio'
  OBVIOUS
<1>3. /\ np \in [Threads -> Priorities] /\ np \in [Threads -> Nat]
      /\ \A u \in Threads \ {t} : np[u] = prio[u]
  BY <1>2, ArbiterAssumption DEF SetPriority, ArbiterInv, TypeOK
<1>4. tree' \in Seq(Threads) /\ ToSet(tree') = ToSet(tree) /\ Ordered(tree', np, call)
  <2>1. CASE t \in ToSet(tree)
    <3>1. PICK q : q = Among(tree, Threads \ {t})
      OBVIOUS
    <3>2. q \in Seq(Threads) /\ ToSet(q) = ToSet(tree) \ {t} /\ Ordered(q, prio, call)
      <4>1. ToSet(tree) \cap (Threads \ {t}) = ToSet(tree) \ {t}
        BY <1>1
      <4> QED
        BY <1>1, <3>1, <4>1, AmongSet, AmongOrdered
    <3>3. Ordered(q, np, call)
      <4>1. \A u \in ToSet(q) : np[u] = prio[u]
        BY <1>1, <1>3, <3>2
      <4> QED
        BY <3>2, <4>1, SameOrder
    <3>4. tree' = Inserted(q, np, t)
      BY <1>2, <2>1, <3>1 DEF SetPriority, Resorted, Waiting
    <3>5. /\ Inserted(q, np, t) \in Seq(Threads)
          /\ ToSet(Inserted(q, np, t)) = ToSet(q) \cup {t}
          /\ Ordered(Inserted(q, np, t), np, call)
      BY <1>3, <3>2, <3>3, InsertedOrdered
    <3> QED
      BY <2>1, <3>2, <3>4, <3>5
  <2>2. CASE t \notin ToSet(tree)
    <3>1. tree' = tree
      BY <2>2 DEF SetPriority, Resorted, Waiting
    <3>2. Ordered(tree, np, call)
      <4>1. \A u \in ToSet(tree) : np[u] = prio[u]
        BY <1>1, <1>3, <2>2
      <4> QED
        BY <1>1, <4>1, SameOrder
    <3> QED
      BY <1>1, <3>1, <3>2
  <2> QED
    BY <2>1, <2>2
<1>5. TypeOK'
  BY <1>2, <1>3, <1>4 DEF SetPriority, ArbiterInv, TypeOK
<1>6. TreeInv'
  BY <1>2, <1>4 DEF SetPriority, ArbiterInv, TreeInv
<1>7. Noticed'
  BY <1>4 DEF SetPriority, ArbiterInv, Noticed, Begun, SignalComes
<1> QED
  BY <1>4, <1>5, <1>6, <1>7 DEF ArbiterInv

LEMMA ArbiterNext == ArbiterInv /\ [Next]_vars => ArbiterInv'
<1> SUFFICES ASSUME ArbiterInv, [Next]_vars PROVE ArbiterInv'
  OBVIOUS
<1>1. CASE UNCHANGED vars
  BY <1>1
  DEF vars, ArbiterInv, TypeOK, TreeInv, Noticed, Begun, SignalComes
<1>2. CASE Next
  <2>1. futexes' = futexes
    BY <1>2 DEF Next
  <2>2. ASSUME NEW t \in Threads, NEW a \in Addresses, NEW v \in Int32,
               GuestStore(t, a, v)
        PROVE  ArbiterInv'
    BY <2>1, <2>2, GuestStoreStep
  <2>3. ASSUME NEW t \in Threads, Signal(t)
        PROVE  ArbiterInv'
    BY <2>1, <2>3, SignalStep
  <2>4. ASSUME NEW t \in Threads, NEW a \in Addresses, NEW count \in Counts,
               GuestSignal(t, a, count)
        PROVE  ArbiterInv'
    BY <2>1, <2>4, GuestSignalStep
  <2>5. ASSUME NEW t \in Threads, NEW a \in Addresses, NEW count \in Counts,
               NEW v \in Int32, SignalAndIncrementIfEqual(t, a, v, count)
        PROVE  ArbiterInv'
    BY <2>1, <2>5, SignalAndIncrementStep
  <2>6. ASSUME NEW t \in Threads, NEW a \in Addresses, NEW count \in Counts,
               NEW v \in Int32, SignalAndModifyByWaitingCountIfEqual(t, a, v, count)
        PROVE  ArbiterInv'
    BY <2>1, <2>6, SignalAndModifyStep
  <2>7. ASSUME NEW t \in Threads, NEW kind \in Waits, NEW a \in Addresses,
               NEW v \in Int32, NEW timeout \in Timeouts,
               WaitReads(t, kind, a, v, timeout)
        PROVE  ArbiterInv'
    BY <2>1, <2>7, WaitReadsStep
  <2>8. ASSUME NEW t \in Threads, WaitBegins(t)
        PROVE  ArbiterInv'
    BY <2>1, <2>8, WaitBeginsStep
  <2>9. ASSUME NEW t \in Threads, WaitReturn(t)
        PROVE  ArbiterInv'
    BY <2>1, <2>9, WaitReturnStep
  <2>10. ASSUME NEW t \in Threads, Timeout(t)
         PROVE  ArbiterInv'
    BY <2>1, <2>10, CancelStep DEF Timeout, ArbiterInv, TypeOK
  <2>11. ASSUME NEW t \in Threads, RequestTerminate(t)
         PROVE  ArbiterInv'
    BY <2>1, <2>11, RequestTerminateStep
  <2>12. ASSUME NEW t \in Threads, Exit(t)
         PROVE  ArbiterInv'
    BY <2>1, <2>12, ExitStep
  <2>13. ASSUME NEW t \in Threads, NEW p \in Priorities, SetPriority(t, p)
         PROVE  ArbiterInv'
    BY <2>1, <2>13, SetPriorityStep
  <2> QED
    BY <1>2, <2>2, <2>3, <2>4, <2>5, <2>6, <2>7, <2>8, <2>9, <2>10, <2>11, <2>12, <2>13
    DEF Next
<1> QED
  BY <1>1, <1>2

LEMMA ArbiterInvariant == Spec => []ArbiterInv
  BY ArbiterInit, ArbiterNext, PTL DEF Spec

-----------------------------------------------------------------------------

\* The words stay what 32-bit words can be, also where the kernel counts them up or
\* down, and a timer task belongs to a thread in m_tree.
THEOREM TypesKept == Spec => []TypeOK
<1>1. ArbiterInv => TypeOK
  BY DEF ArbiterInv
<1> QED
  BY <1>1, ArbiterInvariant, PTL

\* No lost wake-up of a futex (WaitIfLessThan, WaitIfEqual and the signals of
\* KAddressArbiter), for any number of threads and words, though the guest stores to the
\* word while a wait is between its read and its place in m_tree.
THEOREM NoChangeSleptThrough == Spec => []ChangeIsSignalled
<1>1. ArbiterInv => ChangeIsSignalled
  <2> SUFFICES ASSUME ArbiterInv, NEW t \in ToSet(tree), call[t].addr \in futexes
               PROVE  \/ Holds(call[t].kind, word[call[t].addr], call[t].value)
                      \/ SignalComes(call[t].addr)
    BY DEF ChangeIsSignalled, SignalComes
  <2>1. t \in Threads
    BY ToSetIs DEF ArbiterInv, TypeOK
  <2> QED
    BY <2>1 DEF ArbiterInv, Noticed, Begun
<1> QED
  BY <1>1, ArbiterInvariant, PTL


-----------------------------------------------------------------------------
(* What the signals do.                                                    *)

Signalled == {u \in ToSet(tree) \ ToSet(tree') : result'[u] = "Success"}
WokenFirst ==
    \A u \in Signalled :
        /\ \A w \in Signalled : call[w].addr = call[u].addr
        /\ \A w \in ToSet(tree') : call[w].addr = call[u].addr => prio[u] <= prio[w]

LEMMA SignalWakesFirst ==
    ASSUME ArbiterInv, NEW a, NEW n \in Nat, Wake(Woken(a, n), "Success")
    PROVE  WokenFirst
<1>1. ToSet(tree') = ToSet(tree) \ Woken(a, n)
  BY WakeKeeps DEF ArbiterInv
<1>2. /\ \A u \in Woken(a, n) : u \in ToSet(tree) /\ call[u].addr = a
      /\ \A u \in Woken(a, n), w \in ToSet(tree) \ Woken(a, n) :
            call[w].addr = a => prio[u] <= prio[w]
  BY WokenAre DEF ArbiterInv
<1>3. Signalled \subseteq Woken(a, n)
  BY <1>1 DEF Signalled
<1> QED
  BY <1>1, <1>2, <1>3 DEF WokenFirst

LEMMA NobodySignalled ==
    ASSUME ArbiterInv,
           \/ ToSet(tree) \subseteq ToSet(tree')
           \/ \E t \in Threads, r \in {"TimedOut", "Terminated"} : Wake({t}, r)
    PROVE  WokenFirst
<1>1. CASE ToSet(tree) \subseteq ToSet(tree')
  BY <1>1 DEF WokenFirst, Signalled
<1>2. ASSUME NEW t \in Threads, NEW r \in {"TimedOut", "Terminated"}, Wake({t}, r)
      PROVE  WokenFirst
  <2>1. ToSet(tree') = ToSet(tree) \ {t}
    BY <1>2, WakeKeeps DEF ArbiterInv
  <2>2. result'[t] = r
    BY <1>2 DEF Wake
  <2> QED
    BY <2>1, <2>2 DEF WokenFirst, Signalled
<1> QED
  BY <1>1, <1>2

\* A signal wakes the most urgent of those that wait at its address, in spite of
\* changes of priority while they wait (KAddressArbiter::Signal and the two other
\* signals, KThread::RestorePriority, which sorts a waiter again).
THEOREM MostUrgentFirst == Spec => HighestFirst
<1>1. ArbiterInv /\ [Next]_vars =>
         [LET woken == {u \in ToSet(tree) \ ToSet(tree') : result'[u] = "Success"}
          IN \A u \in woken :
                 /\ \A w \in woken : call[w].addr = call[u].addr
                 /\ \A w \in ToSet(tree') :
                       call[w].addr = call[u].addr => prio[u] <= prio[w]]_vars
  <2> SUFFICES ASSUME ArbiterInv, Next PROVE WokenFirst
    BY DEF WokenFirst, Signalled
  <2>1. ASSUME NEW t \in Threads, Signal(t)
        PROVE  WokenFirst
    BY <2>1, SignalWakesFirst DEF Signal, ArbiterInv, TypeOK
  <2>2. ASSUME NEW t \in Threads, NEW a \in Addresses, NEW v \in Int32,
               NEW count \in Counts,
               \/ SignalAndIncrementIfEqual(t, a, v, count)
               \/ SignalAndModifyByWaitingCountIfEqual(t, a, v, count)
        PROVE  WokenFirst
    <3>1. count \in Nat
      BY ArbiterAssumption
    <3> QED
      BY <2>2, <3>1, SignalWakesFirst
      DEF SignalAndIncrementIfEqual, SignalAndModifyByWaitingCountIfEqual
  <2>3. ASSUME NEW t \in Threads,
               \/ \E a \in Addresses, v \in Int32 : GuestStore(t, a, v)
               \/ \E a \in Addresses, count \in Counts : GuestSignal(t, a, count)
               \/ \E kind \in Waits, a \in Addresses, v \in Int32, timeout \in Timeouts :
                     WaitReads(t, kind, a, v, timeout)
               \/ WaitReturn(t)
               \/ Exit(t)
        PROVE  WokenFirst
    BY <2>3, NobodySignalled DEF GuestStore, GuestSignal, WaitReads, WaitReturn, Exit
  <2>4. ASSUME NEW t \in Threads, WaitBegins(t)
        PROVE  WokenFirst
    <3>1. tree \in Seq(Threads) /\ prio \in [Threads -> Nat] /\ t \notin ToSet(tree)
          /\ Ordered(tree, prio, call)
      BY <2>4, ArbiterAssumption DEF WaitBegins, ArbiterInv, TypeOK, TreeInv
    <3>2. ToSet(tree) \subseteq ToSet(Inserted(tree, prio, t))
      BY <3>1, InsertedOrdered
    <3> QED
      BY <2>4, <3>2, NobodySignalled DEF WaitBegins
  <2>5. ASSUME NEW t \in Threads, Timeout(t) \/ RequestTerminate(t)
        PROVE  WokenFirst
    BY <2>5, NobodySignalled DEF Timeout, RequestTerminate
  <2>6. ASSUME NEW t \in Threads, NEW p \in Priorities, SetPriority(t, p)
        PROVE  WokenFirst
    <3>1. ToSet(tree') = ToSet(tree)
      <4>1. futexes' = futexes
        BY DEF Next
      <4> QED
        BY <2>6, <4>1, SetPriorityStep
    <3> QED
      BY <3>1, NobodySignalled
  <2> QED
    BY <2>1, <2>2, <2>3, <2>4, <2>5, <2>6 DEF Next
<1> QED
  BY <1>1, ArbiterInvariant, PTL DEF Spec, HighestFirst

\* The new value of the word, computed before anybody is woken, tells whether there were
\* waiters and whether any are left (SignalAndModifyByWaitingCountIfEqual), at every
\* count and every number of waiters.
THEOREM CountsTellWaiters == Spec => WordTellsWaiters
<1>1. ASSUME ArbiterInv, NEW t \in Threads, NEW a \in Addresses, NEW v \in Int32,
             NEW count \in Counts, SignalAndModifyByWaitingCountIfEqual(t, a, v, count)
      PROVE  LET woken == ToSet(tree) \ ToSet(tree')
                 left == {u \in ToSet(tree') : call[u].addr = a}
             IN CASE woken = {} -> left = {} /\ ModifiedBy(a, 1)
                  [] woken # {} /\ left # {} -> ModifiedBy(a, 0)
                  [] woken # {} /\ left = {} -> ModifiedBy(a, IF count <= 0 THEN -2 ELSE -1)
  <2> DEFINE at == {u \in ToSet(tree) : call[u].addr = a}
             woken == ToSet(tree) \ ToSet(tree')
             left == {u \in ToSet(tree') : call[u].addr = a}
             n == Len(WaitersAt(a))
             w == Woken(a, count)
  <2>1. count \in Nat /\ word \in [Addresses -> Int32] /\ v \in Int
    <3>1. count \in Nat
      BY ArbiterAssumption
    <3>2. word \in [Addresses -> Int32]
      BY <1>1 DEF ArbiterInv, TypeOK
    <3>3. v \in Int
      BY ArbiterAssumption DEF Int32
    <3> QED
      BY <3>1, <3>2, <3>3
  <2>2. /\ w \subseteq at
        /\ count = 0 \/ count >= n => w = at
        /\ n \in Nat
        /\ n = 0 <=> at = {}
        /\ 0 < count /\ count < n => w # {} /\ at \ w # {}
    <3>1. TypeOK /\ TreeInv /\ count \in Nat
      BY <1>1, <2>1 DEF ArbiterInv
    <3> QED
      BY <3>1, WokenAre
  <2>3. ToSet(tree') = ToSet(tree) \ w
    BY <1>1, WakeKeeps DEF SignalAndModifyByWaitingCountIfEqual, ArbiterInv
  <2>4. woken = w /\ left = at \ w
    BY <2>2, <2>3
  <2>5. word[a] = v /\ word'[a] = NewValue(a, v, count)
    BY <1>1, <2>1 DEF SignalAndModifyByWaitingCountIfEqual, UpdateIfEqual
  <2>6. NewValue(a, v, count) =
           IF n = 0 THEN Wrapped(v + 1)
           ELSE IF count <= 0 THEN Wrapped(v - 2)
           ELSE IF n - 1 < count THEN Wrapped(v - 1)
           ELSE v
    BY DEF NewValue, FewerThanCount
  <2>7. Wrapped(v + 0) = v
    <3>1. v + 0 = v
      BY <2>1
    <3> QED
      BY <3>1, WrappedIsWord
  <2>8. v - 2 = v + (-2) /\ v - 1 = v + (-1)
    BY <2>1
  <2> HIDE DEF n, w, at, woken, left
  <2>9. CASE n = 0
    <3>1. w = {} /\ left = {} /\ woken = {}
      BY <2>2, <2>4, <2>9
    <3>2. ModifiedBy(a, 1)
      BY <2>5, <2>6, <2>9 DEF ModifiedBy
    <3> QED
      BY <3>1, <3>2 DEF woken, left
  <2>10. CASE n # 0 /\ count = 0
    <3>1. woken # {} /\ left = {}
      BY <2>2, <2>4, <2>10
    <3>2. ModifiedBy(a, -2)
      BY <2>5, <2>6, <2>8, <2>10 DEF ModifiedBy
    <3>3. count <= 0
      BY <2>10
    <3> QED
      BY <3>1, <3>2, <3>3 DEF woken, left
  <2>11. CASE n # 0 /\ count # 0 /\ n - 1 < count
    <3>1. count >= n /\ ~(count <= 0)
      BY <2>1, <2>2, <2>11
    <3>2. woken # {} /\ left = {}
      BY <2>2, <2>4, <2>11, <3>1
    <3>3. ModifiedBy(a, -1)
      BY <2>5, <2>6, <2>8, <2>11, <3>1 DEF ModifiedBy
    <3> QED
      BY <3>1, <3>2, <3>3 DEF woken, left
  <2>12. CASE n # 0 /\ count # 0 /\ ~(n - 1 < count)
    <3>1. 0 < count /\ count < n /\ ~(count <= 0)
      BY <2>1, <2>2, <2>12
    <3>2. woken # {} /\ left # {}
      BY <2>2, <2>4, <3>1
    <3>3. ModifiedBy(a, 0)
      BY <2>5, <2>6, <2>7, <2>12, <3>1 DEF ModifiedBy
    <3> QED
      BY <3>2, <3>3 DEF woken, left
  <2> QED
    BY <2>9, <2>10, <2>11, <2>12
<1>2. ArbiterInv /\ [Next]_vars =>
         [\A t \in Threads, a \in Addresses, v \in Int32, count \in Counts :
             SignalAndModifyByWaitingCountIfEqual(t, a, v, count) =>
                 LET woken == ToSet(tree) \ ToSet(tree')
                     left == {u \in ToSet(tree') : call[u].addr = a}
                 IN CASE woken = {} -> left = {} /\ ModifiedBy(a, 1)
                      [] woken # {} /\ left # {} -> ModifiedBy(a, 0)
                      [] woken # {} /\ left = {} ->
                            ModifiedBy(a, IF count <= 0 THEN -2 ELSE -1)]_vars
  BY <1>1
<1> QED
  BY <1>2, ArbiterInvariant, PTL DEF Spec, WordTellsWaiters

=============================================================================
