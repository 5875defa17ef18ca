---------------------- MODULE KConditionVariableProofs ----------------------
(***************************************************************************)
(* What is proved of KConditionVariable, and of KThreadWaiters under it.   *)
(***************************************************************************)
EXTENDS KConditionVariable, SequenceTheorems, FiniteSetTheorems, WellFoundedInduction, TLAPS

-----------------------------------------------------------------------------
(* Induction: of numbers that have some property one is the least.         *)

LEMMA Least ==
    ASSUME NEW N, N \subseteq Nat, N # {}
    PROVE  \E x \in N : \A y \in N : x <= y
<1> DEFINE R == OpToRel(<, Nat)
<1>1. IsWellFoundedOn(R, Nat)
  BY ONLY NatLessThanWellFounded
<1>2. R = {ss \in Nat \X Nat : ss[1] < ss[2]}
  BY DEF OpToRel
<1> HIDE DEF R
<1>3. PICK x \in N : \A y \in N : <<y, x>> \notin R
  BY <1>1, WFMin
<1>4. ASSUME NEW y \in Nat, NEW z \in Nat, y < z
      PROVE  <<y, z>> \in R
  BY <1>2, <1>4
<1>5. ASSUME NEW y \in N
      PROVE  x <= y
  <2>1. x \in Nat /\ y \in Nat /\ <<y, x>> \notin R
    BY <1>3
  <2>2. ~(y < x)
    BY <2>1, <1>4
  <2> QED
    BY <2>1, <2>2
<1> QED
  BY <1>5

-----------------------------------------------------------------------------
(* Thread tables.                                                          *)

LEMMA InheritedType ==
    ASSUME NEW s \in ThreadTables, NEW t \in Threads
    PROVE  Inherited(s, t) \in Priorities
<1> DEFINE all == {s.base[t]} \cup {s.prio[w] : w \in Waiters(s, t)}
<1>1. all \subseteq Priorities /\ all # {}
  BY DEF ThreadTables, Waiters
<1>2. Inherited(s, t) = CHOOSE p \in all : \A q \in all : p <= q
  BY DEF Inherited
<1> HIDE DEF all
<1>3. all \subseteq Nat
  BY <1>1, WaitersAssumption
<1>4. \E p \in all : \A q \in all : p <= q
  BY <1>1, <1>3, Least
<1> QED
  BY <1>1, <1>2, <1>4

\* Where the loop of RestorePriority is, with the table it has made of s so far: the
\* priority of t may have changed, and those of threads that have waiters.
Loop(s, t, loop) ==
    /\ loop.table \in ThreadTables
    /\ loop.table.base = s.base
    /\ loop.table.waits = s.waits
    /\ \A u \in Threads : loop.table.prio[u] # s.prio[u] =>
          u = t \/ \E x \in Threads : LockOwner(s, x) = u
    /\ \/ loop.at = NoThread
       \/ loop.at \in Threads /\ (loop.at = t \/ \E x \in Threads : LockOwner(s, x) = loop.at)

LEMMA TurnLoop ==
    ASSUME NEW s \in ThreadTables, NEW t \in Threads, NEW loop, Loop(s, t, loop)
    PROVE  Loop(s, t, Turn(loop))
<1>1. CASE loop.at = NoThread \/ Inherited(loop.table, loop.at) = loop.table.prio[loop.at]
  <2>1. Turn(loop) = [loop EXCEPT !.at = NoThread]
    BY <1>1 DEF Turn
  <2> QED
    BY <2>1 DEF Loop
<1>2. CASE ~(loop.at = NoThread \/ Inherited(loop.table, loop.at) = loop.table.prio[loop.at])
  <2> DEFINE r == loop.table
             u == loop.at
             p == Inherited(r, u)
             r2 == [r EXCEPT !.prio[u] = p]
  <2>1. Turn(loop) = [table |-> r2, at |-> LockOwner(r, u)]
    BY <1>2 DEF Turn
  <2>2. u \in Threads /\ r \in ThreadTables /\ p \in Priorities
    BY <1>2, InheritedType DEF Loop
  <2> HIDE DEF p
  <2>3. /\ r2 \in ThreadTables /\ r2.base = r.base /\ r2.waits = r.waits
        /\ \A x \in Threads : x # u => r2.prio[x] = r.prio[x]
    BY <2>2 DEF ThreadTables
  <2>4. LockOwner(r, u) = LockOwner(s, u)
    BY DEF LockOwner, Loop
  <2>5. LockOwner(s, u) \in Threads \cup {NoThread}
    BY <2>2 DEF LockOwner, ThreadTables, NotWaiting
  <2>6. r2.base = s.base /\ r2.waits = s.waits
    BY <2>3 DEF Loop
  <2>7. u = t \/ \E x \in Threads : LockOwner(s, x) = u
    BY <2>2, WaitersAssumption DEF Loop
  <2>8. \A x \in Threads : r2.prio[x] # s.prio[x] =>
           x = t \/ \E y \in Threads : LockOwner(s, y) = x
    BY <2>3, <2>7 DEF Loop
  <2> DEFINE l == Turn(loop)
             v == LockOwner(s, u)
  <2>9. l.table = r2 /\ l.at = v
    BY <2>1, <2>4
  <2>10. v = NoThread \/ (v \in Threads /\ \E y \in Threads : LockOwner(s, y) = v)
    BY <2>2, <2>5
  <2> HIDE DEF r2, v, l
  <2>11. Loop(s, t, l)
    <3>1. l.table \in ThreadTables
      BY <2>3, <2>9
    <3> QED
      BY <3>1, <2>6, <2>8, <2>9, <2>10 DEF Loop
  <2> QED
    BY <2>11 DEF l
<1> QED
  BY <1>1, <1>2

LEMMA RestoreRecursion ==
    ASSUME NEW s, NEW t
    PROVE  \E f : /\ f = [n \in 0..Cardinality(Threads) |->
                             IF n = 0 THEN [table |-> s, at |-> t] ELSE Turn(f[n - 1])]
                  /\ RestorePriority(s, t) = f[Cardinality(Threads)].table
<1> DEFINE l0 == [table |-> s, at |-> t]
           Upto(f, n) == f = [i \in 0..n |-> IF i = 0 THEN l0 ELSE Turn(f[i - 1])]
           N == {n \in Nat : ~\E f : Upto(f, n)}
<1>1. N = {}
  <2> HIDE DEF l0
  <2> SUFFICES ASSUME N # {} PROVE FALSE
    OBVIOUS
  <2>1. PICK n \in N : \A m \in N : n <= m
    <3> HIDE DEF N
    <3>1. N \subseteq Nat
      BY DEF N
    <3> QED
      BY <3>1, Least
  <2>2. n # 0
    <3> SUFFICES ASSUME n = 0 PROVE FALSE
      OBVIOUS
    <3> DEFINE f == [i \in 0..n |-> l0]
    <3>1. Upto(f, n)
      <4> SUFFICES \A i \in 0..n : l0 = IF i = 0 THEN l0 ELSE Turn(f[i - 1])
        OBVIOUS
      <4> QED
        OBVIOUS
    <3> HIDE DEF f, Upto
    <3> QED
      BY <2>1, <3>1, Zenon
  <2>3. n - 1 \in Nat /\ n - 1 \notin N
    <3>1. n \in Nat
      OBVIOUS
    <3> HIDE DEF N
    <3> QED
      BY <2>1, <2>2, <3>1
  <2>4. PICK g : Upto(g, n - 1)
    BY <2>3
  <2> DEFINE f == [i \in 0..n |-> IF i = n THEN Turn(g[n - 1]) ELSE g[i]]
  <2>5. ASSUME NEW i \in 0..n
        PROVE  f[i] = IF i = 0 THEN l0 ELSE Turn(f[i - 1])
    <3>1. CASE i = n
      BY <3>1, <2>2, <2>3
    <3>2. CASE i # n
      <4>1. i \in 0..(n - 1) /\ (i # 0 => i - 1 \in 0..(n - 1))
        BY <3>2, <2>1
      <4>2. g[i] = IF i = 0 THEN l0 ELSE Turn(g[i - 1])
        BY <4>1, <2>4
      <4> QED
        BY <4>1, <4>2, <3>2
    <3> QED
      BY <3>1, <3>2
  <2>6. Upto(f, n)
    <3>1. DOMAIN f = 0..n /\ f = [i \in 0..n |-> f[i]]
      OBVIOUS
    <3> HIDE DEF f
    <3> QED
      BY <3>1, <2>5
  <2> QED
    BY <2>1, <2>6
<1>2. \E f : Upto(f, Cardinality(Threads))
  BY <1>1, FS_CardinalityType, WaitersAssumption
<1>3. Upto(CHOOSE f : Upto(f, Cardinality(Threads)), Cardinality(Threads))
  <2> HIDE DEF Upto
  <2> QED
    BY <1>2, Zenon
<1>4. RestorePriority(s, t) =
          (CHOOSE f : Upto(f, Cardinality(Threads)))[Cardinality(Threads)].table
  BY DEF RestorePriority
<1> QED
  BY <1>3, <1>4

\* RestorePriority changes priorities, and only those of t and of threads that have
\* waiters.
LEMMA RestoreKeeps ==
    ASSUME NEW s \in ThreadTables, NEW t \in Threads
    PROVE  /\ RestorePriority(s, t) \in ThreadTables
           /\ RestorePriority(s, t).base = s.base
           /\ RestorePriority(s, t).waits = s.waits
           /\ \A u \in Threads : RestorePriority(s, t).prio[u] # s.prio[u] =>
                 u = t \/ \E x \in Threads : LockOwner(s, x) = u
<1> DEFINE size == Cardinality(Threads)
<1>1. size \in Nat
  BY FS_CardinalityType, WaitersAssumption
<1>2. PICK f : /\ f = [n \in 0..size |->
                          IF n = 0 THEN [table |-> s, at |-> t] ELSE Turn(f[n - 1])]
               /\ RestorePriority(s, t) = f[size].table
  BY RestoreRecursion
<1> HIDE DEF size
<1>3. f[0] = [table |-> s, at |-> t]
  BY <1>1, <1>2
<1>4. ASSUME NEW n \in 1..size
      PROVE  f[n] = Turn(f[n - 1])
  <2>1. n \in 0..size /\ n # 0
    BY <1>1
  <2> QED
    BY <1>2, <2>1, Zenon
<1>5. Loop(s, t, f[0])
  BY <1>3 DEF Loop
<1> DEFINE N == {n \in 0..size : ~Loop(s, t, f[n])}
<1>6. N = {}
  <2> SUFFICES ASSUME N # {} PROVE FALSE
    OBVIOUS
  <2>1. N \subseteq Nat
    BY <1>1
  <2> HIDE DEF N
  <2>2. PICK n \in N : \A m \in N : n <= m
    BY <2>1, Least
  <2>3. n \in 0..size /\ ~Loop(s, t, f[n])
    BY DEF N
  <2>4. n \in 1..size /\ n - 1 \in 0..size
    BY <1>1, <1>5, <2>3
  <2>5. Loop(s, t, f[n - 1])
    BY <2>2, <2>4 DEF N
  <2> QED
    BY <1>4, <2>3, <2>4, <2>5, TurnLoop
<1>7. Loop(s, t, f[size])
  BY <1>1, <1>6
<1> QED
  BY <1>2, <1>7 DEF Loop

LEMMA AddWaiterKeeps ==
    ASSUME NEW s \in ThreadTables, NEW o \in Threads, NEW w \in Threads, NEW lock \in Locks
    PROVE  /\ AddWaiter(s, o, w, lock) \in ThreadTables
           /\ AddWaiter(s, o, w, lock).waits =
                 [s.waits EXCEPT ![w] = [owner |-> o, lock |-> lock]]
<1> DEFINE added == [s EXCEPT !.waits[w] = [owner |-> o, lock |-> lock]]
           r == AddWaiter(s, o, w, lock)
<1>1. /\ added \in ThreadTables /\ added.prio = s.prio
      /\ added.waits = [s.waits EXCEPT ![w] = [owner |-> o, lock |-> lock]]
  BY DEF ThreadTables
<1>2. r = IF s.prio[w] < s.prio[o] THEN RestorePriority(added, o) ELSE added
  BY DEF AddWaiter
<1> HIDE DEF added
<1>3. CASE r = added
  BY <1>1, <1>3
<1>4. CASE r = RestorePriority(added, o)
  BY <1>1, <1>4, RestoreKeeps
<1> QED
  BY <1>2, <1>3, <1>4

\* Only of a thread that somebody waits on is the priority another afterwards.
LEMMA AddWaiterInherits ==
    ASSUME NEW s \in ThreadTables, NEW o \in Threads, NEW w \in Threads, NEW lock \in Locks,
           NEW r, r = AddWaiter(s, o, w, lock), NEW u \in Threads, r.prio[u] # s.prio[u]
    PROVE  \E x \in Threads : LockOwner(r, x) = u
<1> DEFINE added == [s EXCEPT !.waits[w] = [owner |-> o, lock |-> lock]]
<1>1. added \in ThreadTables /\ added.prio = s.prio
  BY DEF ThreadTables
<1>2. r = IF s.prio[w] < s.prio[o] THEN RestorePriority(added, o) ELSE added
  BY DEF AddWaiter
<1>3. LockOwner(added, w) = o
  BY DEF ThreadTables, LockOwner
<1> HIDE DEF added
<1>4. r = RestorePriority(added, o)
  BY <1>1, <1>2
<1> DEFINE restored == RestorePriority(added, o)
<1>5. /\ restored.waits = added.waits
      /\ \A v \in Threads : restored.prio[v] # added.prio[v] =>
            v = o \/ \E x \in Threads : LockOwner(added, x) = v
  BY <1>1, RestoreKeeps
<1> HIDE DEF restored
<1>6. r = restored
  BY <1>4 DEF restored
<1>7. \A x \in Threads : LockOwner(r, x) = LockOwner(added, x)
  BY <1>5, <1>6 DEF LockOwner
<1> QED
  BY <1>1, <1>3, <1>5, <1>6, <1>7

LEMMA RemoveWaiterKeeps ==
    ASSUME NEW s \in ThreadTables, NEW o \in Threads, NEW w \in Threads
    PROVE  /\ RemoveWaiter(s, o, w) \in ThreadTables
           /\ RemoveWaiter(s, o, w).waits = [s.waits EXCEPT ![w] = NotWaiting]
<1> DEFINE removed == [s EXCEPT !.waits[w] = NotWaiting]
<1>1. removed \in ThreadTables /\ removed.waits = [s.waits EXCEPT ![w] = NotWaiting]
  BY DEF ThreadTables
<1>2. RemoveWaiter(s, o, w) \in {removed, RestorePriority(removed, o)}
  BY DEF RemoveWaiter
<1> HIDE DEF removed
<1> QED
  BY <1>1, <1>2, RestoreKeeps

LEMMA RemoveWaiterByKeyKeeps ==
    ASSUME NEW s \in ThreadTables, NEW t \in Threads, NEW lock \in Locks,
           NEW n \in WaitersByKey(s, t, lock)
    PROVE  LET r == RemoveWaiterByKey(s, t, lock, n)
           IN /\ r \in ThreadTables
              /\ r.waits[n] = NotWaiting
              /\ \A w \in Threads \ {n} :
                    r.waits[w] = IF w \in WaitersByKey(s, t, lock)
                                 THEN [owner |-> n, lock |-> lock]
                                 ELSE s.waits[w]
<1> DEFINE rest == WaitersByKey(s, t, lock) \ {n}
           waits == [w \in Threads |-> IF w = n THEN NotWaiting
                                       ELSE IF w \in rest THEN [owner |-> n, lock |-> lock]
                                       ELSE s.waits[w]]
           moved == [s EXCEPT !.waits = waits]
<1>1. n \in Threads
  BY DEF WaitersByKey, Waiters
<1>2. RemoveWaiterByKey(s, t, lock, n) \in {moved, RestorePriority(moved, t)}
  BY DEF RemoveWaiterByKey
<1> HIDE DEF rest
<1>3. waits \in [Threads -> [owner : Threads, lock : Locks] \cup {NotWaiting}]
  BY <1>1 DEF ThreadTables
<1>4. waits[n] = NotWaiting
  BY <1>1
<1>5. \A w \in Threads \ {n} :
         waits[w] = IF w \in WaitersByKey(s, t, lock) THEN [owner |-> n, lock |-> lock]
                    ELSE s.waits[w]
  BY DEF rest
<1> HIDE DEF waits
<1>6. moved \in ThreadTables /\ moved.waits = waits
  BY <1>3 DEF ThreadTables
<1> HIDE DEF moved
<1>7. /\ RemoveWaiterByKey(s, t, lock, n) \in ThreadTables
      /\ RemoveWaiterByKey(s, t, lock, n).waits = waits
  BY <1>2, <1>6, RestoreKeeps
<1> QED
  BY <1>4, <1>5, <1>7

LEMMA SetBasePriorityKeeps ==
    ASSUME NEW s \in ThreadTables, NEW t \in Threads, NEW p \in Priorities
    PROVE  /\ SetBasePriority(s, t, p) \in ThreadTables
           /\ SetBasePriority(s, t, p).waits = s.waits
           /\ IncreaseBasePriority(s, t, p) \in ThreadTables
           /\ IncreaseBasePriority(s, t, p).waits = s.waits
<1> DEFINE changed == [s EXCEPT !.base[t] = p]
<1>1. changed \in ThreadTables /\ changed.waits = s.waits
  BY DEF ThreadTables
<1>2. SetBasePriority(s, t, p) = RestorePriority(changed, t)
  BY DEF SetBasePriority
<1> HIDE DEF changed
<1>3. SetBasePriority(s, t, p) \in ThreadTables /\ SetBasePriority(s, t, p).waits = s.waits
  BY <1>1, <1>2, RestoreKeeps
<1> QED
  BY <1>3 DEF IncreaseBasePriority

LEMMA ReleaseWaitersKeeps ==
    ASSUME NEW s \in ThreadTables, NEW t
    PROVE  /\ ReleaseWaiters(s, t) \in ThreadTables
           /\ \A w \in Threads : ReleaseWaiters(s, t).waits[w] =
                 IF LockOwner(s, w) = t THEN NotWaiting ELSE s.waits[w]
<1> DEFINE waits == [w \in Threads |->
                        IF LockOwner(s, w) = t THEN NotWaiting ELSE s.waits[w]]
<1>1. waits \in [Threads -> [owner : Threads, lock : Locks] \cup {NotWaiting}]
  BY DEF ThreadTables
<1>2. ReleaseWaiters(s, t) = [s EXCEPT !.waits = waits]
  BY DEF ReleaseWaiters
<1>3. \A w \in Threads :
         waits[w] = IF LockOwner(s, w) = t THEN NotWaiting ELSE s.waits[w]
  OBVIOUS
<1> HIDE DEF waits
<1> QED
  BY <1>1, <1>2, <1>3 DEF ThreadTables

-----------------------------------------------------------------------------
(* The tree.                                                               *)

LEMMA ToSetIs ==
    ASSUME NEW q \in Seq(Threads)
    PROVE  /\ Len(q) \in Nat
           /\ \A k \in 1..Len(q) : q[k] \in ToSet(q)
           /\ \A u \in ToSet(q) : \E k \in 1..Len(q) : q[k] = u
           /\ ToSet(q) \subseteq Threads
  BY DEF ToSet

\* m_tree, an intrusive tree, has nobody twice.
Tree(q) == q \in Seq(Threads) /\ \A i, j \in 1..Len(q) : q[i] = q[j] => i = j

LEMMA Concatenated ==
    ASSUME NEW a \in Seq(Threads), NEW b \in Seq(Threads)
    PROVE  /\ a \o b \in Seq(Threads)
           /\ Len(a \o b) = Len(a) + Len(b)
  BY ConcatProperties

\* SequencesExt's InsertAt and RemoveAt, element by element.
LEMMA InsertAtIs ==
    ASSUME NEW q \in Seq(Threads), NEW i \in 0..Len(q), NEW t \in Threads
    PROVE  LET r == InsertAt(q, i + 1, t)
           IN /\ r \in Seq(Threads)
              /\ Len(r) = Len(q) + 1
              /\ r[i + 1] = t
              /\ \A k \in 1..i : r[k] = q[k]
              /\ \A k \in (i + 2)..(Len(q) + 1) : r[k] = q[k - 1]
<1>1. Len(q) \in Nat
  OBVIOUS
<1>2. InsertAt(q, i + 1, t) = SubSeq(q, 1, i) \o <<t>> \o SubSeq(q, i + 1, Len(q))
  <2>1. (i + 1) - 1 = i
    BY <1>1
  <2> QED
    BY <2>1 DEF InsertAt
<1> DEFINE a == SubSeq(q, 1, i)
           b == SubSeq(q, i + 1, Len(q))
           r == a \o <<t>> \o b
<1>3. /\ a \in Seq(Threads) /\ Len(a) = i
      /\ \A k \in 1..i : a[k] = q[k]
  BY <1>1
<1>4. /\ b \in Seq(Threads) /\ Len(b) = Len(q) - i
      /\ \A k \in 1..(Len(q) - i) : b[k] = q[i + k]
  BY <1>1
<1> HIDE DEF a, b
<1>5. r \in Seq(Threads) /\ Len(r) = Len(q) + 1
  <2> DEFINE c == a \o <<t>>
  <2>1. c \in Seq(Threads) /\ Len(c) = i + 1
    BY <1>3
  <2> HIDE DEF c
  <2>2. b \in Seq(Threads) /\ Len(b) = Len(q) - i
    BY <1>4
  <2>3. c \o b \in Seq(Threads) /\ Len(c \o b) = Len(c) + Len(b)
    BY <2>1, <2>2, Concatenated
  <2>4. Len(c) + Len(b) = Len(q) + 1
    BY <1>1, <2>1, <2>2
  <2> QED
    BY <2>3, <2>4 DEF c
<1>6. r[i + 1] = t
  <2> DEFINE c == a \o <<t>>
  <2>1. c \in Seq(Threads) /\ Len(c) = i + 1 /\ c[i + 1] = t
    BY <1>1, <1>3
  <2>2. i + 1 \in 1..Len(c)
    BY <1>1, <2>1
  <2> HIDE DEF c
  <2>3. (c \o b)[i + 1] = c[i + 1]
    BY <1>4, <2>1, <2>2
  <2> QED
    BY <2>1, <2>3 DEF c
<1>7. ASSUME NEW k \in 1..i
      PROVE  r[k] = q[k]
  <2>1. k \in 1..Len(a)
    BY <1>3
  <2> QED
    BY <1>1, <1>3, <1>4, <2>1
<1>8. ASSUME NEW k \in (i + 2)..(Len(q) + 1)
      PROVE  r[k] = q[k - 1]
  <2>1. k - i - 1 \in 1..(Len(q) - i) /\ i + (k - i - 1) = k - 1
    BY <1>1
  <2>2. r[k] = b[k - i - 1]
    BY <1>1, <1>3, <1>4
  <2> QED
    BY <1>4, <2>1, <2>2
<1> QED
  BY <1>2, <1>5, <1>6, <1>7, <1>8 DEF a, b

LEMMA RemoveAtIs ==
    ASSUME NEW q \in Seq(Threads), NEW i \in 1..Len(q)
    PROVE  LET r == RemoveAt(q, i)
           IN /\ r \in Seq(Threads)
              /\ Len(r) = Len(q) - 1
              /\ \A k \in 1..(i - 1) : r[k] = q[k]
              /\ \A k \in i..(Len(q) - 1) : r[k] = q[k + 1]
<1>1. Len(q) \in Nat
  OBVIOUS
<1> DEFINE a == SubSeq(q, 1, i - 1)
           b == SubSeq(q, i + 1, Len(q))
           r == a \o b
<1>2. RemoveAt(q, i) = r
  BY DEF RemoveAt
<1>3. /\ a \in Seq(Threads) /\ Len(a) = i - 1
      /\ \A k \in 1..(i - 1) : a[k] = q[k]
  BY <1>1
<1>4. /\ b \in Seq(Threads) /\ Len(b) = Len(q) - i
      /\ \A k \in 1..(Len(q) - i) : b[k] = q[i + k]
  BY <1>1
<1> HIDE DEF a, b
<1>5. r \in Seq(Threads) /\ Len(r) = Len(q) - 1
  <2>1. a \in Seq(Threads) /\ b \in Seq(Threads) /\ Len(a) = i - 1 /\ Len(b) = Len(q) - i
    BY <1>3, <1>4
  <2>2. r \in Seq(Threads) /\ Len(r) = Len(a) + Len(b)
    BY <2>1, Concatenated
  <2> HIDE DEF r
  <2> QED
    BY <1>1, <2>1, <2>2
<1>6. ASSUME NEW k \in 1..(i - 1)
      PROVE  r[k] = q[k]
  <2>1. k \in 1..Len(a)
    BY <1>3
  <2> QED
    BY <1>1, <1>3, <1>4, <2>1
<1>7. ASSUME NEW k \in i..(Len(q) - 1)
      PROVE  r[k] = q[k + 1]
  <2>1. k - i + 1 \in 1..(Len(q) - i) /\ i + (k - i + 1) = k + 1
    BY <1>1
  <2>2. r[k] = b[k - i + 1]
    BY <1>1, <1>3, <1>4
  <2> QED
    BY <1>4, <2>1, <2>2
<1> HIDE DEF r
<1> QED
  BY <1>2, <1>5, <1>6, <1>7

LEMMA InsertedTree ==
    ASSUME NEW q, Tree(q), NEW s, NEW t \in Threads, t \notin ToSet(q)
    PROVE  Tree(Inserted(q, s, t)) /\ ToSet(Inserted(q, s, t)) = ToSet(q) \cup {t}
<1> DEFINE before == {i \in DOMAIN q : s.prio[q[i]] <= s.prio[t]}
           n == Cardinality(before)
           r == InsertAt(q, n + 1, t)
<1>1. q \in Seq(Threads) /\ Len(q) \in Nat /\ DOMAIN q = 1..Len(q)
  BY DEF Tree
<1>2. n \in 0..Len(q)
  <2>1. IsFiniteSet(1..Len(q)) /\ Cardinality(1..Len(q)) = Len(q)
    <3>1. 1 \in Int /\ Len(q) \in Int
      BY <1>1
    <3>2. Cardinality(1..Len(q)) = IF 1 > Len(q) THEN 0 ELSE Len(q) - 1 + 1
      BY <3>1, FS_Interval
    <3>3. IsFiniteSet(1..Len(q))
      BY <3>1, FS_Interval
    <3> QED
      BY <1>1, <3>2, <3>3
  <2>2. before \subseteq 1..Len(q)
    BY <1>1
  <2> HIDE DEF before
  <2>3. Cardinality(before) <= Cardinality(1..Len(q)) /\ IsFiniteSet(before)
    BY <2>1, <2>2, FS_Subset
  <2>4. Cardinality(before) \in Nat
    BY <2>3, FS_CardinalityType
  <2> QED
    BY <1>1, <2>1, <2>3, <2>4
<1>3. Inserted(q, s, t) = r
  BY DEF Inserted
<1> HIDE DEF n
<1>4. /\ r \in Seq(Threads) /\ Len(r) = Len(q) + 1 /\ r[n + 1] = t
      /\ \A k \in 1..n : r[k] = q[k]
      /\ \A k \in (n + 2)..(Len(q) + 1) : r[k] = q[k - 1]
  BY <1>1, <1>2, InsertAtIs
<1> HIDE DEF r
<1>5. \A k \in 1..Len(r) : k = n + 1 \/ k \in 1..n \/ k \in (n + 2)..(Len(q) + 1)
  BY <1>1, <1>2, <1>4
<1>6. \A k \in 1..n : k \in 1..Len(q)
  BY <1>1, <1>2
<1>7. \A k \in (n + 2)..(Len(q) + 1) : k - 1 \in 1..Len(q) /\ k - 1 > n
  BY <1>1, <1>2
<1>8. \A k \in 1..Len(q) : q[k] # t
  BY <1>1, ToSetIs
<1>9. ASSUME NEW i \in 1..Len(r), NEW j \in 1..Len(r), r[i] = r[j]
      PROVE  i = j
  <2>1. CASE i = n + 1
    BY <1>4, <1>5, <1>6, <1>7, <1>8, <1>9, <2>1
  <2>2. CASE j = n + 1
    BY <1>4, <1>5, <1>6, <1>7, <1>8, <1>9, <2>2
  <2>3. CASE i # n + 1 /\ j # n + 1
    <3> DEFINE a == IF i \in 1..n THEN i ELSE i - 1
               b == IF j \in 1..n THEN j ELSE j - 1
    <3>1. a \in 1..Len(q) /\ r[i] = q[a]
      BY <1>4, <1>5, <1>6, <1>7, <2>3
    <3>2. b \in 1..Len(q) /\ r[j] = q[b]
      BY <1>4, <1>5, <1>6, <1>7, <2>3
    <3>3. a = b
      <4> HIDE DEF a, b
      <4> QED
        BY <1>9, <3>1, <3>2 DEF Tree
    <3> QED
      BY <1>2, <1>5, <2>3, <3>3
  <2> QED
    BY <2>1, <2>2, <2>3
<1>10. ToSet(r) \subseteq ToSet(q) \cup {t}
  <2> SUFFICES ASSUME NEW k \in 1..Len(r) PROVE r[k] \in ToSet(q) \cup {t}
    BY <1>4, ToSetIs
  <2> QED
    BY <1>1, <1>4, <1>5, <1>6, <1>7, ToSetIs
<1>11. ASSUME NEW k \in 1..Len(q)
       PROVE  q[k] \in ToSet(r)
  <2>1. CASE k \in 1..n
    <3>1. k \in 1..Len(r)
      BY <1>1, <1>4
    <3> QED
      BY <1>4, <2>1, <3>1, ToSetIs
  <2>2. CASE k \notin 1..n
    <3>1. k + 1 \in (n + 2)..(Len(q) + 1) /\ k + 1 \in 1..Len(r) /\ (k + 1) - 1 = k
      BY <1>1, <1>2, <1>4, <2>2
    <3>2. r[k + 1] = q[k]
      BY <1>4, <3>1
    <3> QED
      BY <1>4, <3>1, <3>2, ToSetIs
  <2> QED
    BY <2>1, <2>2
<1>12. t \in ToSet(r)
  <2>1. n + 1 \in 1..Len(r)
    BY <1>1, <1>2, <1>4
  <2> QED
    BY <1>4, <2>1, ToSetIs
<1>13. ToSet(q) \subseteq ToSet(r)
  BY <1>1, <1>11, ToSetIs
<1> QED
  BY <1>3, <1>4, <1>9, <1>10, <1>12, <1>13 DEF Tree

LEMMA WithoutTree ==
    ASSUME NEW q, Tree(q), NEW t
    PROVE  Tree(Without(q, t)) /\ ToSet(Without(q, t)) = ToSet(q) \ {t}
<1>1. q \in Seq(Threads) /\ Len(q) \in Nat /\ DOMAIN q = 1..Len(q)
  BY DEF Tree
<1>2. CASE t \notin ToSet(q)
  BY <1>2 DEF Without
<1>3. CASE t \in ToSet(q)
  <2> DEFINE n == CHOOSE i \in DOMAIN q : q[i] = t
             r == RemoveAt(q, n)
  <2>1. n \in 1..Len(q) /\ q[n] = t
    BY <1>1, <1>3, ToSetIs
  <2>2. Without(q, t) = r
    BY <1>3 DEF Without
  <2> HIDE DEF n
  <2>3. /\ r \in Seq(Threads) /\ Len(r) = Len(q) - 1
        /\ \A k \in 1..(n - 1) : r[k] = q[k]
        /\ \A k \in n..(Len(q) - 1) : r[k] = q[k + 1]
    BY <1>1, <2>1, RemoveAtIs
  <2> HIDE DEF r
  <2>4. \A k \in 1..Len(r) : k \in 1..(n - 1) \/ k \in n..(Len(q) - 1)
    BY <1>1, <2>1, <2>3
  <2> DEFINE From(k) == IF k \in 1..(n - 1) THEN k ELSE k + 1
  <2>5. ASSUME NEW k \in 1..Len(r)
        PROVE  From(k) \in 1..Len(q) /\ From(k) # n /\ r[k] = q[From(k)]
    BY <1>1, <2>1, <2>3, <2>4
  <2>6. \A i, j \in 1..Len(r) : From(i) = From(j) => i = j
    BY <1>1, <2>1, <2>3
  <2> HIDE DEF From
  <2>7. ASSUME NEW i \in 1..Len(r), NEW j \in 1..Len(r), r[i] = r[j]
        PROVE  i = j
    BY <2>5, <2>6, <2>7 DEF Tree
  <2>8. ASSUME NEW k \in 1..Len(r)
        PROVE  r[k] \in ToSet(q) \ {t}
    BY <1>1, <2>1, <2>5, ToSetIs DEF Tree
  <2>9. ASSUME NEW k \in 1..Len(q), k # n
        PROVE  q[k] \in ToSet(r)
    <3>1. CASE k \in 1..(n - 1)
      <4>1. k \in 1..Len(r)
        BY <1>1, <2>1, <2>3, <3>1
      <4> QED
        BY <2>3, <3>1, <4>1, ToSetIs
    <3>2. CASE k \notin 1..(n - 1)
      <4>1. k - 1 \in n..(Len(q) - 1) /\ k - 1 \in 1..Len(r) /\ (k - 1) + 1 = k
        BY <1>1, <2>1, <2>3, <2>9, <3>2
      <4>2. r[k - 1] = q[k]
        BY <2>3, <4>1
      <4> QED
        BY <2>3, <4>1, <4>2, ToSetIs
    <3> QED
      BY <3>1, <3>2
  <2>10. ToSet(r) \subseteq ToSet(q) \ {t}
    BY <2>3, <2>8, ToSetIs
  <2>11. ToSet(q) \ {t} \subseteq ToSet(r)
    BY <1>1, <2>1, <2>9, ToSetIs
  <2>12. Tree(r)
    BY <2>3, <2>7 DEF Tree
  <2> QED
    BY <2>2, <2>10, <2>11, <2>12
<1> QED
  BY <1>2, <1>3

LEMMA ResortedTree ==
    ASSUME NEW q, Tree(q), NEW before, NEW s
    PROVE  /\ Tree(Resorted(q, before, s)) /\ ToSet(Resorted(q, before, s)) = ToSet(q)
           /\ (\A t \in ToSet(q) : s.prio[t] = before.prio[t]) => Resorted(q, before, s) = q
<1> DEFINE moved == {t \in ToSet(q) : s.prio[t] # before.prio[t]}
           t == CHOOSE t \in moved : TRUE
<1>1. Resorted(q, before, s) = IF moved = {} THEN q ELSE Inserted(Without(q, t), s, t)
  BY DEF Resorted
<1>2. CASE moved = {}
  BY <1>1, <1>2
<1>3. CASE moved # {}
  <2>1. t \in moved
    BY <1>3
  <2>2. t \in ToSet(q) /\ t \in Threads
    BY <2>1, ToSetIs DEF Tree
  <2> HIDE DEF t
  <2>3. Tree(Without(q, t)) /\ ToSet(Without(q, t)) = ToSet(q) \ {t}
    BY WithoutTree
  <2> DEFINE r == Without(q, t)
  <2> HIDE DEF r
  <2>4. Tree(Inserted(r, s, t)) /\ ToSet(Inserted(r, s, t)) = ToSet(r) \cup {t}
    BY <2>2, <2>3, InsertedTree DEF r
  <2> QED
    BY <1>1, <1>3, <2>1, <2>2, <2>3, <2>4 DEF r
<1> QED
  BY <1>2, <1>3

\* The iterator of Signal: a thread of the tree or the end.
LEMMA Iterator ==
    ASSUME NEW q, Tree(q)
    PROVE  /\ Begin(q) \in ToSet(q) \cup {NoThread}
           /\ Begin(q) = NoThread <=> q = <<>>
           /\ \A t \in ToSet(q) : /\ After(q, t) \in (ToSet(q) \ {t}) \cup {NoThread}
                                  /\ t = Begin(q) => After(q, t) = Begin(Without(q, t))
<1>1. q \in Seq(Threads) /\ Len(q) \in Nat /\ DOMAIN q = 1..Len(q)
  BY DEF Tree
<1>2. CASE q = <<>>
  <2>1. Begin(q) = NoThread
    BY <1>2 DEF Begin
  <2>2. Len(q) = 0
    BY <1>2
  <2>3. ToSet(q) = {}
    <3> SUFFICES ASSUME NEW u \in ToSet(q) PROVE FALSE
      OBVIOUS
    <3>1. PICK k \in 1..Len(q) : q[k] = u
      BY <1>1, ToSetIs
    <3> QED
      BY <2>2, <3>1
  <2> QED
    BY <1>2, <2>1, <2>3
<1>3. CASE q # <<>>
  <2>1. Len(q) > 0 /\ 1 \in 1..Len(q) /\ Begin(q) = q[1]
    BY <1>1, <1>3 DEF Begin
  <2>2. Begin(q) \in ToSet(q) /\ Begin(q) # NoThread
    BY <1>1, <2>1, ToSetIs, WaitersAssumption
  <2>3. ASSUME NEW t \in ToSet(q)
        PROVE  /\ After(q, t) \in (ToSet(q) \ {t}) \cup {NoThread}
               /\ t = Begin(q) => After(q, t) = Begin(Without(q, t))
    <3> DEFINE n == CHOOSE i \in DOMAIN q : q[i] = t
    <3>1. n \in 1..Len(q) /\ q[n] = t
      BY <1>1, ToSetIs
    <3>2. After(q, t) = IF n = Len(q) THEN NoThread ELSE q[n + 1]
      BY DEF After
    <3>3. Without(q, t) = RemoveAt(q, n)
      BY DEF Without
    <3> HIDE DEF n
    <3>4. ASSUME n # Len(q)
          PROVE  n + 1 \in 1..Len(q) /\ n + 1 # n
      <4> DEFINE len == Len(q)
      <4>1. len \in Nat /\ n \in 1..len /\ n # len
        BY <1>1, <3>1, <3>4
      <4> HIDE DEF len
      <4>2. n + 1 \in 1..len /\ n + 1 # n
        BY <4>1
      <4> QED
        BY <4>2 DEF len
    <3>5. After(q, t) \in (ToSet(q) \ {t}) \cup {NoThread}
      <4>1. CASE n = Len(q)
        BY <3>2, <4>1
      <4>2. CASE n # Len(q)
        <5>1. q[n + 1] \in ToSet(q)
          BY <1>1, <3>4, <4>2, ToSetIs
        <5>2. q[n + 1] # t
          BY <3>1, <3>4, <4>2 DEF Tree
        <5> QED
          BY <3>2, <4>2, <5>1, <5>2
      <4> QED
        BY <4>1, <4>2
    <3>6. ASSUME t = Begin(q)
          PROVE  After(q, t) = Begin(Without(q, t))
      <4> DEFINE r == RemoveAt(q, n)
      <4>1. n = 1
        BY <2>1, <3>1, <3>6 DEF Tree
      <4>2. /\ r \in Seq(Threads) /\ Len(r) = Len(q) - 1
            /\ \A k \in n..(Len(q) - 1) : r[k] = q[k + 1]
        BY <1>1, <3>1, RemoveAtIs
      <4> HIDE DEF r
      <4>3. CASE Len(q) = 1
        <5>1. Len(r) = 0
          BY <4>2, <4>3
        <5>2. r = <<>>
          BY <4>2, <5>1
        <5> QED
          BY <3>2, <3>3, <4>1, <4>3, <5>2 DEF r, Begin
      <4>4. CASE Len(q) # 1
        <5>1. Len(r) > 0 /\ r[1] = q[2]
          BY <1>1, <2>1, <4>1, <4>2, <4>4
        <5>2. r # <<>> /\ Head(r) = r[1]
          BY <4>2, <5>1
        <5>3. After(q, t) = q[2]
          BY <3>2, <4>1, <4>4
        <5> QED
          BY <3>3, <5>1, <5>2, <5>3 DEF r, Begin
      <4> QED
        BY <4>3, <4>4
    <3> QED
      BY <3>5, <3>6
  <2> QED
    BY <1>3, <2>2, <2>3
<1> QED
  BY <1>2, <1>3

-----------------------------------------------------------------------------
(* The inductive invariant.                                                *)

Storing(t) == pc[t] \in {"unlockStore", "waitStore"}

\* The kernel is about to write the word of m, in the second half of a call.
Pending(m) == \E s \in Threads : Storing(s) /\ addr[s] = m

\* What the word of a mutex is once the write under way, if any, is done.
WordToBe(m) == IF Pending(m) THEN NextValue ELSE tag[m]

\* The scheduler lock is held by the thread in one of the calls that are cut in two.
LockInv == \A t \in Threads : pc[t] \in {"unlockStore", "waitStore", "signal"} <=> schedLock = t

\* Whoever waits is at a wait, in one place, for the mutex its call is about, and only
\* with a wait for a signal there is a timeout task; Signal's iterator is in the tree
\* or at its end.
PlaceOf(t) ==
    /\ queue[t] = "none" => LockOwner(kt, t) = NoThread /\ t \notin ToSet(tree)
    /\ queue[t] = "address" => LockOwner(kt, t) # NoThread /\ t \notin ToSet(tree)
    /\ queue[t] = "condvar" => (LockOwner(kt, t) # NoThread <=> t \notin ToSet(tree))
    /\ queue[t] # "none" => pc[t] = "waiting"
    /\ t \in timed => queue[t] = "condvar"
    /\ LockOwner(kt, t) # NoThread => kt.waits[t].lock = addr[t]
    /\ pc[t] = "signal" => local.it \in ToSet(tree) \cup {NoThread}

PlaceInv == Tree(tree) /\ \A t \in Threads : PlaceOf(t)

\* Who gives a mutex up is named by its word until the kernel has written it.
Owned ==
    \A t \in Threads : pc[t] \in {"unlock", "unlockStore", "wait", "waitStore"} =>
        tag[addr[t]].owner = t /\ addr[t] \notin held[t]

\* Who was woken with a mutex is named by its word, or will be.
Handed ==
    \A t \in Threads : pc[t] = "waiting" /\ queue[t] = "none" /\ result[t] = "Success" =>
        WordToBe(addr[t]).owner = t

\* The word of a mutex somebody waits for says so, or will.
Told ==
    \A w \in Threads, m \in Locks :
        LockOwner(kt, w) # NoThread /\ kt.waits[w].lock = m =>
            WordToBe(m) = [owner |-> LockOwner(kt, w), mask |-> TRUE]

WordInv == HolderInWord /\ Owned /\ Handed /\ Told

CondInv == TypeOK /\ LockInv /\ PlaceInv /\ WordInv

LEMMA CondInit == Init => CondInv
<1> SUFFICES ASSUME Init PROVE CondInv
  OBVIOUS
<1> USE DEF Init
<1>1. PICK b \in [Threads -> GuestPriorities] :
         kt = [base |-> b, prio |-> b, waits |-> [t \in Threads |-> NotWaiting]]
  OBVIOUS
<1>2. b \in [Threads -> Priorities]
  BY DEF GuestPriorities
<1>3. kt \in ThreadTables /\ \A t \in Threads : LockOwner(kt, t) = NoThread
  BY <1>1, <1>2 DEF ThreadTables, LockOwner, NotWaiting
<1>4. AnyLock \in Locks
  BY WaitersAssumption DEF AnyLock
<1>5. TypeOK
  <2>1. tag \in [Locks -> Word]
    BY DEF Word, Free, Owners
  <2>2. local \in [next : Owners, it : Owners, more : BOOLEAN, left : Nat]
    BY DEF NoLocal, Owners
  <2>3. pc \in [Threads -> Labels] /\ addr \in [Threads -> Locks]
    BY <1>4 DEF Labels
  <2>4. tree \in Seq(Threads) /\ cvFlag \in {0, 1}
    OBVIOUS
  <2>5. /\ queue \in [Threads -> {"none", "address", "condvar"}]
        /\ result \in [Threads -> {"Success", "TimedOut", "Terminated", "InvalidState"}]
        /\ seen \in [Threads -> Owners] /\ opened \in [Threads -> Owners]
        /\ held \in [Threads -> SUBSET Locks] /\ schedLock \in Owners
    BY DEF Owners
  <2> QED
    BY <1>3, <2>1, <2>2, <2>3, <2>4, <2>5 DEF TypeOK
<1>6. ToSet(tree) = {} /\ Tree(tree)
  BY DEF ToSet, Tree
<1>7. LockInv
  BY WaitersAssumption DEF LockInv
<1>8. PlaceInv
  BY <1>3, <1>6 DEF PlaceInv, PlaceOf
<1>9. WordInv
  BY <1>3 DEF WordInv, HolderInWord, Owned, Handed, Told
<1> QED
  BY <1>5, <1>7, <1>8, <1>9 DEF CondInv

\* Where a thread is that does not wait and is not in the second half of a call.
Quiet == Labels \ {"unlockStore", "waitStore", "signal", "waiting"}

\* A thread that does not wait goes from one place to another outside the kernel.
LEMMA QuietMove ==
    ASSUME CondInv, NEW t \in Threads, NEW l \in Quiet,
           pc[t] \notin {"unlockStore", "waitStore", "signal"}, queue[t] = "none",
           pc' = [pc EXCEPT ![t] = l], UNCHANGED <<kt, tree, timed, queue, schedLock, local>>,
           \A u \in Threads \ {t} : addr'[u] = addr[u] /\ result'[u] = result[u]
    PROVE  /\ LockInv' /\ PlaceInv'
           /\ \A m \in Locks : WordToBe(m)' = IF Pending(m) THEN WordToBe(m) ELSE tag'[m]
           /\ tag' = tag => Told' /\ Handed'
<1>1. pc'[t] = l /\ \A u \in Threads \ {t} : pc'[u] = pc[u]
  BY DEF CondInv, TypeOK
<1>2. LockInv'
  BY <1>1 DEF CondInv, LockInv, Quiet
<1>3. ASSUME NEW u \in Threads
      PROVE  PlaceOf(u)'
  <2>1. CASE u = t
    BY <1>1, <2>1 DEF CondInv, PlaceInv, PlaceOf, Quiet
  <2>2. CASE u # t
    BY <1>1, <2>2 DEF CondInv, PlaceInv, PlaceOf
  <2> QED
    BY <2>1, <2>2
<1>4. PlaceInv'
  BY <1>3 DEF CondInv, PlaceInv, Tree
<1>5. ASSUME NEW m \in Locks
      PROVE  WordToBe(m)' = IF Pending(m) THEN WordToBe(m) ELSE tag'[m]
  <2>1. \A s \in Threads : Storing(s)' /\ addr'[s] = m <=> Storing(s) /\ addr[s] = m
    BY <1>1 DEF Storing, Quiet
  <2>2. Pending(m)' <=> Pending(m)
    BY <2>1 DEF Pending
  <2>3. NextValue' = NextValue
    BY DEF NextValue
  <2> QED
    BY <2>2, <2>3 DEF WordToBe
<1>6. ASSUME tag' = tag
      PROVE  Told' /\ Handed'
  <2>1. \A m \in Locks : WordToBe(m)' = WordToBe(m)
    BY <1>5, <1>6 DEF WordToBe
  <2>2. Told'
    BY <2>1 DEF CondInv, WordInv, Told, TypeOK, ThreadTables, LockOwner, NotWaiting
  <2>3. ASSUME NEW u \in Threads, pc'[u] = "waiting", queue'[u] = "none", result'[u] = "Success"
        PROVE  WordToBe(addr[u])'.owner = u /\ addr'[u] = addr[u]
    <3>1. u # t
      BY <1>1, <2>3 DEF Quiet
    <3>2. addr'[u] = addr[u] /\ addr[u] \in Locks /\ WordToBe(addr[u]).owner = u
      BY <1>1, <2>3, <3>1 DEF CondInv, WordInv, Handed, TypeOK
    <3> QED
      BY <2>1, <3>2
  <2> QED
    BY <2>2, <2>3 DEF Handed
<1> QED
  BY <1>2, <1>4, <1>5, <1>6

\* Of a mutex whose word the kernel is to write the owner is in that call.
LEMMA PendingOwner ==
    ASSUME CondInv, NEW m \in Locks, Pending(m)
    PROVE  tag[m].owner \in Threads /\ Storing(tag[m].owner) /\ addr[tag[m].owner] = m
  BY DEF CondInv, WordInv, Owned, Pending, Storing

-----------------------------------------------------------------------------
(* The guest's steps.                                                      *)

LEMMA GuestLockStep ==
    ASSUME CondInv, NEW t \in Threads, NEW m \in Locks, GuestLock(t, m)
    PROVE  CondInv'
<1> USE DEF GuestLock, At, Goto, guestVars, waitVars, lifeVars
<1>1. TypeOK'
  BY DEF CondInv, TypeOK, Labels
<1>2. queue[t] = "none"
  BY DEF CondInv, PlaceInv, PlaceOf, TypeOK
<1>3. "lock" \in Quiet
  BY DEF Quiet, Labels
<1>4. \A u \in Threads \ {t} : addr'[u] = addr[u]
  BY DEF CondInv, TypeOK
<1>5. LockInv' /\ PlaceInv' /\ Told' /\ Handed'
  BY <1>2, <1>3, <1>4, QuietMove DEF CondInv
<1>6. pc'[t] = "lock" /\ \A u \in Threads \ {t} : pc'[u] = pc[u]
  BY DEF CondInv, TypeOK
<1>7. HolderInWord' /\ Owned'
  BY <1>4, <1>6 DEF CondInv, WordInv, HolderInWord, Owned
<1> QED
  BY <1>1, <1>5, <1>7 DEF CondInv, WordInv

\* The guest's store to a free word, or of the mask, takes nothing from anybody.
LEMMA GuestTryStep ==
    ASSUME CondInv, NEW t \in Threads, GuestTry(t)
    PROVE  CondInv'
<1> USE DEF At, Goto, guestVars, waitVars, lifeVars
<1> DEFINE m == addr[t]
<1>1. m \in Locks /\ tag \in [Locks -> Word] /\ pc \in [Threads -> Labels]
  BY DEF CondInv, TypeOK
<1> HIDE DEF m
<1>2. queue[t] = "none" /\ pc[t] = "lock"
  BY DEF GuestTry, CondInv, PlaceInv, PlaceOf, TypeOK
<1>3. addr' = addr /\ result' = result
      /\ UNCHANGED <<kt, tree, timed, queue, schedLock, local>>
  BY DEF GuestTry
<1>4. CASE tag[m] = Free
  <2>1. tag' = [tag EXCEPT ![m].owner = t] /\ held' = [held EXCEPT ![t] = @ \cup {m}]
        /\ pc' = [pc EXCEPT ![t] = "idle"] /\ seen' = seen
    BY <1>4 DEF GuestTry, m
  <2>2. TypeOK'
    BY <1>1, <1>3, <2>1 DEF GuestTry, CondInv, TypeOK, Labels, Word, Owners
  <2>3. "idle" \in Quiet
    BY DEF Quiet, Labels
  <2>4. /\ LockInv' /\ PlaceInv'
        /\ \A n \in Locks : WordToBe(n)' = IF Pending(n) THEN WordToBe(n) ELSE tag'[n]
    BY <1>2, <1>3, <2>1, <2>3, QuietMove
  <2>5. tag'[m].owner = t /\ \A n \in Locks \ {m} : tag'[n] = tag[n]
    BY <1>1, <2>1 DEF Word
  <2>6. ~Pending(m) /\ WordToBe(m) = Free
    <3>1. ~Pending(m)
      BY <1>1, <1>4, PendingOwner, WaitersAssumption DEF Free
    <3> QED
      BY <1>4, <3>1 DEF WordToBe
  <2>7. \A n \in Locks \ {m} : WordToBe(n)' = WordToBe(n)
    BY <2>4, <2>5 DEF WordToBe
  <2>8. pc'[t] = "idle" /\ \A u \in Threads \ {t} : pc'[u] = pc[u] /\ held'[u] = held[u]
    BY <1>1, <2>1 DEF CondInv, TypeOK
  <2>9. HolderInWord'
    <3> SUFFICES ASSUME NEW u \in Threads, NEW n \in held'[u] PROVE tag'[n].owner = u
      BY DEF HolderInWord
    <3>1. n \in Locks
      BY <2>2 DEF TypeOK
    <3>2. CASE n = m
      <4>1. n \notin held[u]
        BY <1>4, <3>2, WaitersAssumption DEF CondInv, WordInv, HolderInWord, Free
      <4>2. u = t
        BY <2>8, <4>1
      <4> QED
        BY <2>5, <3>2, <4>2
    <3>3. CASE n # m
      <4>1. n \in held[u]
        BY <2>1, <2>8, <3>3 DEF CondInv, TypeOK
      <4> QED
        BY <2>5, <3>1, <3>3, <4>1 DEF CondInv, WordInv, HolderInWord
    <3> QED
      BY <3>2, <3>3
  <2>10. Owned'
    <3> SUFFICES ASSUME NEW u \in Threads,
                        pc'[u] \in {"unlock", "unlockStore", "wait", "waitStore"}
                 PROVE  tag'[addr[u]].owner = u /\ addr[u] \notin held'[u]
      BY <1>3 DEF Owned
    <3>1. u # t
      BY <2>8
    <3>2. tag[addr[u]].owner = u /\ addr[u] \notin held[u] /\ addr[u] \in Locks
      BY <2>8, <3>1 DEF CondInv, WordInv, Owned, TypeOK
    <3>3. addr[u] # m
      BY <1>4, <3>2, WaitersAssumption DEF Free
    <3> QED
      BY <2>5, <2>8, <3>1, <3>2, <3>3
  <2>11. Told'
    <3> SUFFICES ASSUME NEW w \in Threads, NEW k \in Locks,
                        LockOwner(kt, w) # NoThread, kt.waits[w].lock = k
                 PROVE  WordToBe(k)' = [owner |-> LockOwner(kt, w), mask |-> TRUE]
      BY <1>3 DEF Told, LockOwner
    <3>1. WordToBe(k) = [owner |-> LockOwner(kt, w), mask |-> TRUE]
      BY DEF CondInv, WordInv, Told
    <3>2. k # m
      BY <2>6, <3>1 DEF Free
    <3> QED
      BY <2>7, <3>1, <3>2
  <2>12. Handed'
    <3> SUFFICES ASSUME NEW u \in Threads, pc'[u] = "waiting", queue'[u] = "none",
                        result'[u] = "Success"
                 PROVE  WordToBe(addr[u])'.owner = u
      BY <1>3 DEF Handed
    <3>1. addr[u] \in Locks /\ WordToBe(addr[u]).owner = u
      BY <1>3, <2>8 DEF CondInv, WordInv, Handed, TypeOK
    <3>2. addr[u] # m
      BY <2>6, <3>1, WaitersAssumption DEF Free
    <3>3. \A n \in Locks : n # m => WordToBe(n)' = WordToBe(n)
      BY <2>7
    <3> QED
      BY <1>3, <3>1, <3>2, <3>3
  <2> QED
    BY <2>2, <2>4, <2>9, <2>10, <2>11, <2>12 DEF CondInv, WordInv
<1>5. CASE tag[m] # Free
  <2>1. tag' = [tag EXCEPT ![m].mask = TRUE] /\ held' = held
        /\ pc' = [pc EXCEPT ![t] = "arbitrate"] /\ seen' = [seen EXCEPT ![t] = tag[m].owner]
    BY <1>5 DEF GuestTry, m
  <2>2. TypeOK'
    <3>1. tag[m] \in Word /\ tag[m].owner \in Owners
      BY <1>1 DEF Word
    <3>2. tag' \in [Locks -> Word]
      BY <1>1, <2>1, <3>1 DEF Word
    <3> QED
      BY <1>1, <1>3, <2>1, <3>1, <3>2 DEF GuestTry, CondInv, TypeOK, Labels
  <2>3. "arbitrate" \in Quiet
    BY DEF Quiet, Labels
  <2>4. /\ LockInv' /\ PlaceInv'
        /\ \A n \in Locks : WordToBe(n)' = IF Pending(n) THEN WordToBe(n) ELSE tag'[n]
    BY <1>2, <1>3, <2>1, <2>3, QuietMove
  <2>5. \A n \in Locks : /\ tag'[n].owner = tag[n].owner
                         /\ tag[n] = [owner |-> tag[n].owner, mask |-> TRUE] => tag'[n] = tag[n]
    BY <1>1, <2>1 DEF Word
  <2>6. \A n \in Locks : /\ WordToBe(n)'.owner = WordToBe(n).owner
                         /\ WordToBe(n) = [owner |-> WordToBe(n).owner, mask |-> TRUE] =>
                               WordToBe(n)' = WordToBe(n)
    BY <2>4, <2>5 DEF WordToBe
  <2>7. pc'[t] = "arbitrate" /\ \A u \in Threads \ {t} : pc'[u] = pc[u]
    BY <1>1, <2>1
  <2>8. HolderInWord' /\ Owned'
    BY <1>3, <2>1, <2>5, <2>7 DEF CondInv, WordInv, HolderInWord, Owned, TypeOK
  <2>9. Told'
    <3> SUFFICES ASSUME NEW w \in Threads, NEW k \in Locks,
                        LockOwner(kt, w) # NoThread, kt.waits[w].lock = k
                 PROVE  WordToBe(k)' = [owner |-> LockOwner(kt, w), mask |-> TRUE]
      BY <1>3 DEF Told, LockOwner
    <3>1. WordToBe(k) = [owner |-> LockOwner(kt, w), mask |-> TRUE]
      BY DEF CondInv, WordInv, Told
    <3> QED
      BY <2>6, <3>1
  <2>10. Handed'
    <3> SUFFICES ASSUME NEW u \in Threads, pc'[u] = "waiting", queue'[u] = "none",
                        result'[u] = "Success"
                 PROVE  WordToBe(addr[u])'.owner = u
      BY <1>3 DEF Handed
    <3>1. addr[u] \in Locks /\ WordToBe(addr[u]).owner = u
      BY <1>3, <2>7 DEF CondInv, WordInv, Handed, TypeOK
    <3> QED
      BY <1>3, <2>6, <3>1
  <2> QED
    BY <2>2, <2>4, <2>8, <2>9, <2>10 DEF CondInv, WordInv
<1> QED
  BY <1>4, <1>5

LEMMA GuestRecheckStep ==
    ASSUME CondInv, NEW t \in Threads, GuestRecheck(t)
    PROVE  CondInv'
<1> USE DEF GuestRecheck, At, Goto, guestVars, waitVars, lifeVars
<1>1. TypeOK'
  BY DEF CondInv, TypeOK, Labels
<1>2. queue[t] = "none" /\ pc[t] = "recheck"
  BY DEF CondInv, PlaceInv, PlaceOf, TypeOK
<1>3. PICK l \in {"idle", "lock"} :
         /\ pc' = [pc EXCEPT ![t] = l]
         /\ \/ held' = held
            \/ tag[addr[t]].owner = t /\ held' = [held EXCEPT ![t] = @ \cup {addr[t]}]
  OBVIOUS
<1>4. l \in Quiet
  BY DEF Quiet, Labels
<1>5. LockInv' /\ PlaceInv' /\ Told' /\ Handed'
  BY <1>2, <1>3, <1>4, QuietMove
<1>6. pc'[t] = l /\ \A u \in Threads \ {t} : pc'[u] = pc[u] /\ held'[u] = held[u]
  BY <1>3 DEF CondInv, TypeOK
<1>7. HolderInWord'
  BY <1>3, <1>6 DEF CondInv, WordInv, HolderInWord, TypeOK
<1>8. Owned'
  BY <1>6 DEF CondInv, WordInv, Owned
<1> QED
  BY <1>1, <1>5, <1>7, <1>8 DEF CondInv, WordInv

\* The guest may unlock without a call: nobody waits for a mutex whose word has no mask,
\* and its kernel write is not under way.
LEMMA GuestUnlockStep ==
    ASSUME CondInv, NEW t \in Threads, NEW m \in Locks, GuestUnlock(t, m)
    PROVE  CondInv'
<1> USE DEF At, Goto, guestVars, waitVars, lifeVars
<1>1. queue[t] = "none" /\ pc[t] = "idle" /\ m \in held[t] /\ tag[m].owner = t
  BY DEF GuestUnlock, CondInv, PlaceInv, PlaceOf, TypeOK, WordInv, HolderInWord
<1>2. result' = result /\ UNCHANGED <<kt, tree, timed, queue, schedLock, local>>
      /\ held' = [held EXCEPT ![t] = @ \ {m}]
  BY DEF GuestUnlock
<1>3. held'[t] = held[t] \ {m} /\ \A u \in Threads \ {t} : held'[u] = held[u]
  BY <1>2 DEF CondInv, TypeOK
<1>4. CASE tag[m] = [owner |-> t, mask |-> FALSE]
  <2>1. tag' = [tag EXCEPT ![m] = Free] /\ addr' = addr /\ pc' = pc
    BY <1>4 DEF GuestUnlock
  <2>2. TypeOK'
    BY <1>2, <2>1 DEF GuestUnlock, CondInv, TypeOK, Word, Owners, Free
  <2>3. pc[t] \in Quiet /\ pc' = [pc EXCEPT ![t] = pc[t]]
    BY <1>1, <2>1 DEF Quiet, Labels, CondInv, TypeOK
  <2>4. /\ LockInv' /\ PlaceInv'
        /\ \A n \in Locks : WordToBe(n)' = IF Pending(n) THEN WordToBe(n) ELSE tag'[n]
    BY <1>1, <1>2, <2>1, <2>3, QuietMove
  <2>5. tag'[m] = Free /\ \A n \in Locks \ {m} : tag'[n] = tag[n]
    BY <2>1 DEF CondInv, TypeOK
  <2>6. ~Pending(m) /\ WordToBe(m) = tag[m]
    <3>1. ~Pending(m)
      BY <1>1, PendingOwner DEF Storing
    <3> QED
      BY <3>1 DEF WordToBe
  <2>7. \A n \in Locks : n # m => WordToBe(n)' = WordToBe(n)
    BY <2>4, <2>5 DEF WordToBe
  <2>8. HolderInWord'
    <3> SUFFICES ASSUME NEW u \in Threads, NEW n \in held'[u] PROVE tag'[n].owner = u
      BY DEF HolderInWord
    <3>1. n \in Locks /\ n \in held[u]
      BY <1>3, <2>2 DEF TypeOK
    <3>2. tag[n].owner = u
      BY <3>1 DEF CondInv, WordInv, HolderInWord
    <3>3. n # m
      BY <1>1, <1>3, <3>2
    <3> QED
      BY <2>5, <3>1, <3>2, <3>3
  <2>9. Owned'
    <3> SUFFICES ASSUME NEW u \in Threads,
                        pc[u] \in {"unlock", "unlockStore", "wait", "waitStore"}
                 PROVE  tag'[addr[u]].owner = u /\ addr[u] \notin held'[u]
      BY <2>1 DEF Owned
    <3>1. u # t
      BY <1>1
    <3>2. tag[addr[u]].owner = u /\ addr[u] \notin held[u] /\ addr[u] \in Locks
      BY DEF CondInv, WordInv, Owned, TypeOK
    <3>3. addr[u] # m
      BY <1>1, <3>1, <3>2
    <3> QED
      BY <1>3, <2>5, <3>1, <3>2, <3>3
  <2>10. Told'
    <3> SUFFICES ASSUME NEW w \in Threads, NEW k \in Locks,
                        LockOwner(kt, w) # NoThread, kt.waits[w].lock = k
                 PROVE  WordToBe(k)' = [owner |-> LockOwner(kt, w), mask |-> TRUE]
      BY <1>2 DEF Told, LockOwner
    <3>1. WordToBe(k) = [owner |-> LockOwner(kt, w), mask |-> TRUE]
      BY DEF CondInv, WordInv, Told
    <3>2. k # m
      BY <1>4, <2>6, <3>1
    <3> QED
      BY <2>7, <3>1, <3>2
  <2>11. Handed'
    <3> SUFFICES ASSUME NEW u \in Threads, pc[u] = "waiting", queue[u] = "none",
                        result[u] = "Success"
                 PROVE  WordToBe(addr[u])'.owner = u
      BY <1>2, <2>1 DEF Handed
    <3>1. addr[u] \in Locks /\ WordToBe(addr[u]).owner = u
      BY DEF CondInv, WordInv, Handed, TypeOK
    <3>2. addr[u] # m
      BY <1>1, <2>6, <3>1
    <3> QED
      BY <2>1, <2>7, <3>1, <3>2
  <2> QED
    BY <2>2, <2>4, <2>8, <2>9, <2>10, <2>11 DEF CondInv, WordInv
<1>5. CASE tag[m] # [owner |-> t, mask |-> FALSE]
  <2>1. tag' = tag /\ addr' = [addr EXCEPT ![t] = m] /\ pc' = [pc EXCEPT ![t] = "unlock"]
    BY <1>5 DEF GuestUnlock
  <2>2. TypeOK'
    BY <1>2, <2>1 DEF GuestUnlock, CondInv, TypeOK, Labels
  <2>3. "unlock" \in Quiet
    BY DEF Quiet, Labels
  <2>4. addr'[t] = m /\ \A u \in Threads \ {t} : addr'[u] = addr[u] /\ pc'[u] = pc[u]
    BY <2>1 DEF CondInv, TypeOK
  <2>5. LockInv' /\ PlaceInv' /\ Told' /\ Handed'
    BY <1>1, <1>2, <2>1, <2>3, <2>4, QuietMove
  <2>6. HolderInWord' /\ Owned'
    BY <1>1, <1>3, <2>1, <2>4 DEF CondInv, WordInv, HolderInWord, Owned
  <2> QED
    BY <2>2, <2>5, <2>6 DEF CondInv, WordInv
<1> QED
  BY <1>4, <1>5

LEMMA GuestWaitStep ==
    ASSUME CondInv, NEW t \in Threads, NEW m \in Locks, GuestWait(t, m)
    PROVE  CondInv'
<1> USE DEF GuestWait, At, Goto, guestVars, waitVars, lifeVars
<1>1. queue[t] = "none" /\ pc[t] = "idle" /\ m \in held[t] /\ tag[m].owner = t
  BY DEF CondInv, PlaceInv, PlaceOf, TypeOK, WordInv, HolderInWord
<1>2. TypeOK'
  BY DEF CondInv, TypeOK, Labels
<1>3. "wait" \in Quiet
  BY DEF Quiet, Labels
<1>4. /\ addr'[t] = m /\ held'[t] = held[t] \ {m}
      /\ \A u \in Threads \ {t} : addr'[u] = addr[u] /\ pc'[u] = pc[u] /\ held'[u] = held[u]
  BY DEF CondInv, TypeOK
<1>5. LockInv' /\ PlaceInv' /\ Told' /\ Handed'
  BY <1>1, <1>3, <1>4, QuietMove
<1>6. HolderInWord' /\ Owned'
  BY <1>1, <1>4 DEF CondInv, WordInv, HolderInWord, Owned
<1> QED
  BY <1>2, <1>5, <1>6 DEF CondInv, WordInv

-----------------------------------------------------------------------------
(* Calls that return without having waited, and threads that end.          *)

\* The mutexes of a thread that goes from one place to another without them.
LEMMA QuietWords ==
    ASSUME CondInv, NEW t \in Threads, NEW l \in Quiet \ {"unlock", "wait"},
           pc' = [pc EXCEPT ![t] = l], UNCHANGED <<tag, addr, held>>
    PROVE  HolderInWord' /\ Owned'
<1>1. pc'[t] = l /\ \A u \in Threads \ {t} : pc'[u] = pc[u]
  BY DEF CondInv, TypeOK
<1> QED
  BY <1>1 DEF Quiet, CondInv, WordInv, HolderInWord, Owned

LEMMA WaitForAddressReturnStep ==
    ASSUME CondInv, NEW t \in Threads, WaitForAddressReturn(t)
    PROVE  CondInv'
<1> USE DEF WaitForAddressReturn, At, Goto, guestVars, waitVars, lifeVars
<1>1. queue[t] = "none" /\ pc[t] = "arbitrate"
  BY DEF CondInv, PlaceInv, PlaceOf, TypeOK
<1>2. TypeOK'
  BY DEF CondInv, TypeOK, Labels, Owners
<1>3. PICK l \in {"dying", "recheck"} : pc' = [pc EXCEPT ![t] = l]
  OBVIOUS
<1>4. l \in Quiet \ {"unlock", "wait"}
  BY DEF Quiet, Labels
<1>5. LockInv' /\ PlaceInv' /\ Told' /\ Handed'
  BY <1>1, <1>3, <1>4, QuietMove
<1>6. HolderInWord' /\ Owned'
  BY <1>3, <1>4, QuietWords
<1> QED
  BY <1>2, <1>5, <1>6 DEF CondInv, WordInv

LEMMA WaitTerminatingStep ==
    ASSUME CondInv, NEW t \in Threads, WaitTerminating(t)
    PROVE  CondInv'
<1> USE DEF WaitTerminating, At, Goto, guestVars, waitVars, lifeVars
<1>1. queue[t] = "none" /\ pc[t] = "wait"
  BY DEF CondInv, PlaceInv, PlaceOf, TypeOK
<1>2. TypeOK'
  BY DEF CondInv, TypeOK, Labels
<1>3. "dying" \in Quiet \ {"unlock", "wait"}
  BY DEF Quiet, Labels
<1>4. LockInv' /\ PlaceInv' /\ Told' /\ Handed'
  BY <1>1, <1>3, QuietMove
<1>5. HolderInWord' /\ Owned'
  BY <1>3, QuietWords
<1> QED
  BY <1>2, <1>4, <1>5 DEF CondInv, WordInv

LEMMA ExitStep ==
    ASSUME CondInv, NEW t \in Threads, Exit(t)
    PROVE  CondInv'
<1> USE DEF Exit, At, Goto, guestVars, waitVars, lifeVars
<1>1. queue[t] = "none" /\ pc[t] \in {"idle", "lock", "recheck", "dying"}
  BY DEF CondInv, PlaceInv, PlaceOf, TypeOK
<1>2. TypeOK'
  BY DEF CondInv, TypeOK, Labels
<1>3. "dead" \in Quiet \ {"unlock", "wait"}
  BY DEF Quiet, Labels
<1>4. LockInv' /\ PlaceInv' /\ Told' /\ Handed'
  BY <1>1, <1>3, QuietMove
<1>5. HolderInWord' /\ Owned'
  BY <1>3, QuietWords
<1> QED
  BY <1>2, <1>4, <1>5 DEF CondInv, WordInv

\* A woken thread holds its mutex when its result says so: the word names it.
LEMMA WaitReturnStep ==
    ASSUME CondInv, NEW t \in Threads, WaitReturn(t)
    PROVE  CondInv'
<1> USE DEF WaitReturn, At, Goto, guestVars, waitVars, lifeVars
<1>1. queue[t] = "none" /\ pc[t] = "waiting" /\ SchedulerFree
  OBVIOUS
<1>2. PICK l \in {"dying", "recheck", "idle", "lock"} :
         /\ pc' = [pc EXCEPT ![t] = l]
         /\ \/ held' = held
            \/ result[t] = "Success" /\ held' = [held EXCEPT ![t] = @ \cup {addr[t]}]
  OBVIOUS
<1>3. l \in Quiet \ {"unlock", "wait"}
  BY DEF Quiet, Labels
<1>4. TypeOK'
  <2>1. pc' \in [Threads -> Labels] /\ held' \in [Threads -> SUBSET Locks]
    BY <1>2 DEF CondInv, TypeOK, Labels
  <2>2. /\ result' \in [Threads -> {"Success", "TimedOut", "Terminated", "InvalidState"}]
        /\ opened' \in [Threads -> Owners]
    BY DEF CondInv, TypeOK, Owners
  <2> QED
    BY <2>1, <2>2 DEF CondInv, TypeOK
<1>5. addr' = addr /\ \A u \in Threads \ {t} : result'[u] = result[u] /\ pc'[u] = pc[u]
  BY <1>2 DEF CondInv, TypeOK
<1>6. LockInv' /\ PlaceInv' /\ Told' /\ Handed'
  BY <1>1, <1>2, <1>3, <1>5, QuietMove
<1>7. CASE held' = held
  <2>1. HolderInWord' /\ Owned'
    BY <1>2, <1>3, <1>7, QuietWords
  <2> QED
    BY <1>4, <1>6, <2>1 DEF CondInv, WordInv
<1>8. CASE result[t] = "Success" /\ held' = [held EXCEPT ![t] = @ \cup {addr[t]}]
  <2>1. addr[t] \in Locks /\ WordToBe(addr[t]).owner = t
    BY <1>1, <1>8 DEF CondInv, WordInv, Handed, TypeOK
  <2>2. \A s \in Threads : ~Storing(s)
    BY <1>1, WaitersAssumption DEF SchedulerFree, CondInv, LockInv, Storing
  <2>3. tag[addr[t]].owner = t
    BY <2>1, <2>2 DEF WordToBe, Pending
  <2>4. \A u \in Threads : held'[u] = held[u] \/ (u = t /\ held'[u] = held[u] \cup {addr[t]})
    BY <1>8 DEF CondInv, TypeOK
  <2>5. HolderInWord'
    BY <2>3, <2>4 DEF CondInv, WordInv, HolderInWord
  <2>6. pc'[t] = l
    BY <1>2 DEF CondInv, TypeOK
  <2>7. Owned'
    BY <1>3, <1>5, <2>4, <2>6 DEF Quiet, CondInv, WordInv, Owned
  <2> QED
    BY <1>4, <1>6, <2>5, <2>7 DEF CondInv, WordInv
<1> QED
  BY <1>2, <1>7, <1>8

LEMMA CloseHandleStep ==
    ASSUME CondInv, NEW t \in Threads, CloseHandle(t)
    PROVE  CondInv'
<1> USE DEF CloseHandle, guestVars, waitVars, callVars
<1>1. TypeOK'
  BY DEF CondInv, TypeOK
<1>2. LockInv' /\ PlaceInv'
  BY DEF CondInv, LockInv, PlaceInv, PlaceOf, Tree
<1>3. \A m : WordToBe(m)' = WordToBe(m)
  BY DEF WordToBe, Pending, Storing, NextValue
<1>4. WordInv'
  BY <1>3 DEF CondInv, WordInv, HolderInWord, Owned, Handed, Told
<1> QED
  BY <1>1, <1>2, <1>4 DEF CondInv

-----------------------------------------------------------------------------
(* ArbitrateUnlock and the first half of Wait.                             *)

LEMMA LabelsOf ==
    ASSUME CondInv, NEW t \in Threads
    PROVE  /\ SchedulerFree => ~Storing(t) /\ pc[t] # "signal"
           /\ Storing(t) => schedLock = t
           /\ LockOwner(kt, t) \in Threads \cup {NoThread}
           /\ LockOwner(kt, t) # NoThread =>
                 /\ queue[t] # "none" /\ pc[t] = "waiting" /\ t \notin ToSet(tree)
                 /\ kt.waits[t] = [owner |-> LockOwner(kt, t), lock |-> addr[t]]
           /\ t \in ToSet(tree) => queue[t] = "condvar" /\ pc[t] = "waiting"
<1>1. SchedulerFree => ~Storing(t) /\ pc[t] # "signal"
  BY WaitersAssumption DEF SchedulerFree, CondInv, LockInv, Storing
<1>2. Storing(t) => schedLock = t
  BY DEF CondInv, LockInv, Storing
<1>3. kt.waits[t] \in [owner : Threads, lock : Locks] \cup {NotWaiting}
  BY DEF CondInv, TypeOK, ThreadTables
<1>4. queue[t] \in {"none", "address", "condvar"} /\ PlaceOf(t)
  BY DEF CondInv, TypeOK, PlaceInv
<1> QED
  BY <1>1, <1>2, <1>3, <1>4 DEF PlaceOf, LockOwner, NotWaiting

\* While nobody is in the second half of a call the words are what they are to be.
LEMMA WordsNow ==
    ASSUME CondInv, \A s \in Threads : ~Storing(s), NEW m
    PROVE  ~Pending(m) /\ WordToBe(m) = tag[m]
  BY DEF Pending, WordToBe

\* RemoveUserWaiterByKey: the waiters of the mutex are those of the calling thread; one of
\* them gets the mutex, the others wait on that one.
LEMMA PassOnStep ==
    ASSUME CondInv, NEW t \in Threads, pc[t] \in {"unlock", "wait"}, SchedulerFree,
           PassOn(t), schedLock' = t, NEW l \in {"unlockStore", "waitStore"},
           pc' = [pc EXCEPT ![t] = l], UNCHANGED <<tag, addr, held>>
    PROVE  /\ kt' \in ThreadTables /\ tree' \in Seq(Threads)
           /\ local' \in [next : Owners, it : Owners, more : BOOLEAN, left : Nat]
           /\ queue' \in [Threads -> {"none", "address", "condvar"}]
           /\ result' \in [Threads -> {"Success", "TimedOut", "Terminated", "InvalidState"}]
           /\ timed' \subseteq Threads
           /\ LockInv' /\ PlaceInv' /\ WordInv'
           /\ ToSet(tree') = ToSet(tree) /\ local'.next # t /\ local'.next \notin ToSet(tree)
<1> DEFINE m == addr[t]
           W == WaitersByKey(kt, t, m)
<1>1. m \in Locks /\ kt \in ThreadTables /\ Tree(tree) /\ tag[m].owner = t /\ m \notin held[t]
  BY DEF CondInv, TypeOK, PlaceInv, WordInv, Owned
<1>2. \A s \in Threads : ~Storing(s) /\ pc[s] # "signal"
  BY LabelsOf
<1>3. pc'[t] = l /\ \A u \in Threads \ {t} : pc'[u] = pc[u]
  BY DEF CondInv, TypeOK
<1>4. LockInv'
  BY <1>2, <1>3 DEF LockInv, Storing
<1>5. \A n \in Locks : WordToBe(n)' = IF n = m THEN NextValue' ELSE tag[n]
  <2>1. \A s \in Threads : Storing(s)' <=> s = t
    BY <1>2, <1>3 DEF Storing
  <2>2. \A n \in Locks : Pending(n)' <=> n = m
    BY <2>1 DEF Pending
  <2> QED
    BY <2>2 DEF WordToBe
<1>6. \A n \in Locks : WordToBe(n) = tag[n]
  BY <1>2, WordsNow
<1>7. ASSUME NEW w \in Threads, LockOwner(kt, w) # NoThread
      PROVE  /\ kt.waits[w] = [owner |-> LockOwner(kt, w), lock |-> addr[w]]
             /\ tag[addr[w]] = [owner |-> LockOwner(kt, w), mask |-> TRUE]
             /\ addr[w] = m => w \in W
  <2>1. kt.waits[w] = [owner |-> LockOwner(kt, w), lock |-> addr[w]] /\ addr[w] \in Locks
    BY <1>7, LabelsOf DEF CondInv, TypeOK
  <2>2. kt.waits[w].lock = addr[w]
    BY <2>1
  <2>3. tag[addr[w]] = [owner |-> LockOwner(kt, w), mask |-> TRUE]
    BY <1>6, <1>7, <2>1, <2>2 DEF CondInv, WordInv, Told
  <2>4. addr[w] = m => LockOwner(kt, w) = t
    BY <1>1, <2>3
  <2>5. addr[w] = m => w \in W
    BY <2>2, <2>4 DEF WaitersByKey, Waiters
  <2> QED
    BY <2>1, <2>3, <2>5
<1>8. \A w \in W : w \in Threads /\ LockOwner(kt, w) = t /\ addr[w] = m /\ w # t
  <2> SUFFICES ASSUME NEW w \in W
               PROVE  w \in Threads /\ LockOwner(kt, w) = t /\ addr[w] = m /\ w # t
    OBVIOUS
  <2>1. w \in Threads /\ LockOwner(kt, w) = t /\ kt.waits[w].lock = m
    BY DEF WaitersByKey, Waiters
  <2>2. t # NoThread
    BY WaitersAssumption
  <2>3. LockOwner(kt, w) # NoThread
    BY <2>1, <2>2
  <2>4. /\ pc[w] = "waiting"
        /\ kt.waits[w] = [owner |-> LockOwner(kt, w), lock |-> addr[w]]
    BY <2>1, <2>3, LabelsOf
  <2>5. kt.waits[w].lock = addr[w]
    BY <2>4
  <2> QED
    BY <2>1, <2>4, <2>5
<1>9. HolderInWord' /\ Owned'
  BY <1>1, <1>2, <1>3 DEF CondInv, WordInv, HolderInWord, Owned, Storing
<1> HIDE DEF m
<1>10. CASE W = {} /\ local' = NoLocal /\ UNCHANGED <<kt, tree>> /\ NoWake
  <2> USE DEF NoWake
  <2>1. local' \in [next : Owners, it : Owners, more : BOOLEAN, left : Nat]
    BY <1>10 DEF NoLocal, Owners
  <2>2. PlaceInv'
    <3>1. queue[t] = "none"
      BY DEF CondInv, TypeOK, PlaceInv, PlaceOf
    <3>2. ASSUME NEW u \in Threads
          PROVE  PlaceOf(u)'
      <4>1. PlaceOf(u)
        BY DEF CondInv, PlaceInv
      <4>2. pc'[u] # "signal" /\ (queue[u] # "none" => pc'[u] = pc[u])
        BY <1>2, <1>3, <3>1
      <4> QED
        BY <1>10, <4>1, <4>2 DEF PlaceOf
    <3> QED
      BY <1>10, <3>2 DEF CondInv, PlaceInv, Tree
  <2>3. Told'
    <3> SUFFICES ASSUME NEW w \in Threads, NEW k \in Locks,
                        LockOwner(kt, w) # NoThread, kt.waits[w].lock = k
                 PROVE  WordToBe(k)' = [owner |-> LockOwner(kt, w), mask |-> TRUE]
      BY <1>10 DEF Told, LockOwner
    <3>1. /\ kt.waits[w] = [owner |-> LockOwner(kt, w), lock |-> addr[w]]
          /\ tag[addr[w]] = [owner |-> LockOwner(kt, w), mask |-> TRUE]
          /\ addr[w] = m => w \in W
      BY <1>7
    <3>3. k = addr[w]
      BY <3>1
    <3>2. k # m
      BY <1>10, <3>1, <3>3
    <3> QED
      BY <1>5, <3>1, <3>2, <3>3
  <2>4. Handed'
    <3> SUFFICES ASSUME NEW u \in Threads, pc'[u] = "waiting", queue[u] = "none",
                        result[u] = "Success"
                 PROVE  WordToBe(addr[u])'.owner = u
      BY <1>10 DEF Handed
    <3>1. u # t /\ pc[u] = "waiting"
      BY <1>3
    <3>2. addr[u] \in Locks /\ tag[addr[u]].owner = u
      BY <1>6, <3>1 DEF CondInv, WordInv, Handed, TypeOK
    <3>3. addr[u] # m
      BY <1>1, <3>1, <3>2
    <3> QED
      BY <1>5, <3>2, <3>3
  <2>5. local'.next # t /\ local'.next \notin ToSet(tree)
    <3>1. ToSet(tree) \subseteq Threads
      BY <1>1, ToSetIs DEF Tree
    <3> QED
      BY <1>10, <3>1, WaitersAssumption DEF NoLocal
  <2> QED
    BY <1>4, <1>9, <1>10, <2>1, <2>2, <2>3, <2>4, <2>5 DEF CondInv, WordInv, TypeOK
<1>11. ASSUME NEW n \in W, local' = [NoLocal EXCEPT !.next = n, !.more = W # {n}],
              kt' = RemoveWaiterByKey(kt, t, m, n), tree' = Resorted(tree, kt, kt'),
              Wake(n, "Success")
       PROVE  /\ kt' \in ThreadTables /\ tree' \in Seq(Threads)
              /\ local' \in [next : Owners, it : Owners, more : BOOLEAN, left : Nat]
              /\ queue' \in [Threads -> {"none", "address", "condvar"}]
              /\ result' \in [Threads -> {"Success", "TimedOut", "Terminated", "InvalidState"}]
              /\ timed' \subseteq Threads
              /\ LockInv' /\ PlaceInv' /\ WordInv'
              /\ ToSet(tree') = ToSet(tree) /\ local'.next # t /\ local'.next \notin ToSet(tree)
  <2>1. /\ n \in Threads /\ n # t /\ addr[n] = m /\ pc[n] = "waiting" /\ n \notin ToSet(tree)
        /\ t # NoThread
    BY <1>8, <1>11, LabelsOf, WaitersAssumption
  <2>2. /\ kt' \in ThreadTables /\ kt'.waits[n] = NotWaiting
        /\ \A w \in Threads \ {n} :
              kt'.waits[w] = IF w \in W THEN [owner |-> n, lock |-> m] ELSE kt.waits[w]
    BY <1>1, <1>11, RemoveWaiterByKeyKeeps
  <2>3. Tree(tree') /\ ToSet(tree') = ToSet(tree)
    BY <1>1, <1>11, ResortedTree
  <2>4. /\ local'.next = n /\ local'.more = (W # {n})
        /\ local' \in [next : Owners, it : Owners, more : BOOLEAN, left : Nat]
    BY <1>11, <2>1 DEF NoLocal, Owners
  <2>5. /\ queue' \in [Threads -> {"none", "address", "condvar"}]
        /\ result' \in [Threads -> {"Success", "TimedOut", "Terminated", "InvalidState"}]
        /\ timed' \subseteq Threads
        /\ queue'[n] = "none" /\ n \notin timed'
        /\ \A u \in Threads \ {n} : queue'[u] = queue[u] /\ result'[u] = result[u]
                                    /\ (u \in timed' <=> u \in timed)
    BY <1>11, <2>1 DEF Wake, CondInv, TypeOK
  <2> HIDE DEF W
  <2>6. ASSUME NEW u \in Threads
        PROVE  PlaceOf(u)'
    <3>1. PlaceOf(u)
      BY DEF CondInv, PlaceInv
    <3>2. pc'[u] = "waiting" <=> pc[u] = "waiting"
      BY <1>3
    <3>3. pc'[u] # "signal"
      BY <1>2, <1>3
    <3>4. CASE u = n
      <4>1. LockOwner(kt', u) = NoThread
        BY <2>2, <3>4 DEF LockOwner, NotWaiting
      <4> QED
        BY <2>1, <2>3, <2>5, <3>3, <3>4, <4>1 DEF PlaceOf
    <3>5. CASE u # n /\ u \in W
      <4>1. LockOwner(kt', u) = n /\ kt'.waits[u].lock = m
        BY <2>2, <3>5 DEF LockOwner
      <4>2. addr[u] = m /\ LockOwner(kt, u) # NoThread /\ n # NoThread
        BY <1>8, <2>1, <3>5, WaitersAssumption
      <4> QED
        BY <2>3, <2>5, <3>1, <3>2, <3>3, <3>5, <4>1, <4>2 DEF PlaceOf
    <3>6. CASE u # n /\ u \notin W
      <4>1. kt'.waits[u] = kt.waits[u] /\ LockOwner(kt', u) = LockOwner(kt, u)
        BY <2>2, <3>6 DEF LockOwner
      <4> QED
        BY <2>3, <2>5, <3>1, <3>2, <3>3, <3>6, <4>1 DEF PlaceOf
    <3> QED
      BY <3>4, <3>5, <3>6
  <2>7. PlaceInv'
    BY <2>3, <2>6 DEF PlaceInv, Tree
  <2>8. NextValue' = [owner |-> n, mask |-> W # {n}]
    BY <2>4 DEF NextValue
  <2>9. ASSUME NEW w \in Threads, NEW k \in Locks, LockOwner(kt', w) # NoThread,
               kt'.waits[w].lock = k
        PROVE  WordToBe(k)' = [owner |-> LockOwner(kt', w), mask |-> TRUE]
    <3>1. w # n
      BY <2>2, <2>9 DEF LockOwner, NotWaiting
    <3>2. CASE w \in W
      <4>1. LockOwner(kt', w) = n /\ k = m
        BY <2>2, <2>9, <3>1, <3>2 DEF LockOwner
      <4>2. W # {n}
        BY <3>1, <3>2
      <4>3. WordToBe(k)' = [owner |-> n, mask |-> TRUE]
        BY <1>5, <2>8, <4>1, <4>2
      <4> QED
        BY <4>1, <4>3
    <3>3. CASE w \notin W
      <4>1. kt'.waits[w] = kt.waits[w] /\ LockOwner(kt', w) = LockOwner(kt, w)
        BY <2>2, <3>1, <3>3 DEF LockOwner
      <4>2. /\ kt.waits[w] = [owner |-> LockOwner(kt, w), lock |-> addr[w]]
            /\ tag[addr[w]] = [owner |-> LockOwner(kt, w), mask |-> TRUE]
            /\ addr[w] # m
        BY <1>7, <2>9, <3>3, <4>1
      <4>3. k = addr[w]
        BY <2>9, <4>1, <4>2
      <4> QED
        BY <1>5, <4>1, <4>2, <4>3
    <3> QED
      BY <3>2, <3>3
  <2>10. Told'
    BY <2>9 DEF Told, LockOwner
  <2>11. Handed'
    <3> SUFFICES ASSUME NEW u \in Threads, pc'[u] = "waiting", queue'[u] = "none",
                        result'[u] = "Success"
                 PROVE  WordToBe(addr[u])'.owner = u
      BY DEF Handed
    <3>1. CASE u = n
      BY <1>1, <1>5, <2>1, <2>8, <3>1
    <3>2. CASE u # n
      <4>1. u # t /\ pc[u] = "waiting"
        BY <1>3
      <4>2. addr[u] \in Locks /\ tag[addr[u]].owner = u
        BY <1>6, <2>5, <3>2, <4>1 DEF CondInv, WordInv, Handed, TypeOK
      <4>3. addr[u] # m
        BY <1>1, <4>1, <4>2
      <4> QED
        BY <1>5, <4>2, <4>3
    <3> QED
      BY <3>1, <3>2
  <2> QED
    BY <1>4, <1>9, <2>1, <2>2, <2>3, <2>4, <2>5, <2>7, <2>10, <2>11 DEF WordInv, Tree
<1>12. \/ W = {} /\ local' = NoLocal /\ UNCHANGED <<kt, tree>> /\ NoWake
       \/ \E n \in W : /\ local' = [NoLocal EXCEPT !.next = n, !.more = W # {n}]
                       /\ kt' = RemoveWaiterByKey(kt, t, m, n)
                       /\ tree' = Resorted(tree, kt, kt')
                       /\ Wake(n, "Success")
  BY DEF PassOn, Highest, m
<1> HIDE DEF W
<1> QED
  BY <1>10, <1>11, <1>12

LEMMA SignalToAddressStep ==
    ASSUME CondInv, NEW t \in Threads, SignalToAddress(t)
    PROVE  CondInv'
<1> USE DEF SignalToAddress, At, Goto, guestVars, lifeVars
<1>1. "unlockStore" \in {"unlockStore", "waitStore"}
  OBVIOUS
<1>2. /\ kt' \in ThreadTables /\ tree' \in Seq(Threads)
      /\ local' \in [next : Owners, it : Owners, more : BOOLEAN, left : Nat]
      /\ queue' \in [Threads -> {"none", "address", "condvar"}]
      /\ result' \in [Threads -> {"Success", "TimedOut", "Terminated", "InvalidState"}]
      /\ timed' \subseteq Threads
      /\ LockInv' /\ PlaceInv' /\ WordInv'
  BY <1>1, PassOnStep
<1>3. TypeOK'
  BY <1>2 DEF CondInv, TypeOK, Labels, Owners
<1> QED
  BY <1>2, <1>3 DEF CondInv

LEMMA WaitStep ==
    ASSUME CondInv, NEW t \in Threads, Wait(t)
    PROVE  CondInv'
<1> USE DEF Wait, At, Goto, guestVars, lifeVars
<1>1. "waitStore" \in {"unlockStore", "waitStore"}
  OBVIOUS
<1>2. /\ kt' \in ThreadTables /\ tree' \in Seq(Threads)
      /\ local' \in [next : Owners, it : Owners, more : BOOLEAN, left : Nat]
      /\ queue' \in [Threads -> {"none", "address", "condvar"}]
      /\ result' \in [Threads -> {"Success", "TimedOut", "Terminated", "InvalidState"}]
      /\ timed' \subseteq Threads
      /\ LockInv' /\ PlaceInv' /\ WordInv'
  BY <1>1, PassOnStep
<1>3. TypeOK'
  BY <1>2 DEF CondInv, TypeOK, Labels, Owners
<1> QED
  BY <1>2, <1>3 DEF CondInv

\* The second half of either call makes the word what it was to be.
LEMMA StoreWords ==
    ASSUME CondInv, NEW t \in Threads, Storing(t), tag' = [tag EXCEPT ![addr[t]] = NextValue],
           schedLock' = NoThread, NEW l \in {"dying", "idle", "lock", "waiting"},
           pc' = [pc EXCEPT ![t] = l], UNCHANGED <<addr, held, kt, result>>,
           \A u \in Threads \ {t} : queue'[u] = queue[u],
           l = "waiting" => queue'[t] # "none"
    PROVE  tag' \in [Locks -> Word] /\ LockInv' /\ WordInv'
           /\ \A n \in Locks : WordToBe(n)' = WordToBe(n)
<1> DEFINE m == addr[t]
<1>1. m \in Locks /\ kt \in ThreadTables /\ tag[m].owner = t /\ m \notin held[t]
  BY DEF CondInv, TypeOK, WordInv, Owned, Storing
<1> HIDE DEF m
<1>2. NextValue \in Word
  BY DEF NextValue, Word, CondInv, TypeOK
<1>3. tag' \in [Locks -> Word] /\ tag'[m] = NextValue /\ \A n \in Locks \ {m} : tag'[n] = tag[n]
  BY <1>1, <1>2 DEF CondInv, TypeOK, m
<1>4. pc'[t] = l /\ \A u \in Threads \ {t} : pc'[u] = pc[u]
  BY DEF CondInv, TypeOK
<1>5. schedLock = t /\ \A u \in Threads \ {t} : ~Storing(u) /\ pc[u] # "signal"
  BY DEF CondInv, LockInv, Storing
<1>6. LockInv'
  BY <1>4, <1>5, WaitersAssumption DEF LockInv, Storing
<1>7. \A n \in Locks : WordToBe(n)' = WordToBe(n)
  <2>1. \A u \in Threads : ~Storing(u)'
    BY <1>4, <1>5 DEF Storing
  <2>2. \A n \in Locks : ~Pending(n)'
    BY <2>1 DEF Pending
  <2>3. \A n \in Locks : Pending(n) <=> n = m
    BY <1>5 DEF Pending, m
  <2> QED
    BY <1>3, <2>2, <2>3 DEF WordToBe
<1>8. HolderInWord'
  <2> SUFFICES ASSUME NEW u \in Threads, NEW n \in held[u] PROVE tag'[n].owner = u
    BY DEF HolderInWord
  <2>1. n \in Locks /\ tag[n].owner = u
    BY DEF CondInv, TypeOK, WordInv, HolderInWord
  <2>2. n # m
    BY <1>1, <2>1
  <2> QED
    BY <1>3, <2>1, <2>2
<1>9. Owned'
  <2> SUFFICES ASSUME NEW u \in Threads,
                      pc'[u] \in {"unlock", "unlockStore", "wait", "waitStore"}
               PROVE  tag'[addr[u]].owner = u /\ addr[u] \notin held[u]
    BY DEF Owned
  <2>1. u # t /\ pc[u] = pc'[u]
    BY <1>4
  <2>2. addr[u] \in Locks /\ tag[addr[u]].owner = u /\ addr[u] \notin held[u]
    BY <2>1 DEF CondInv, TypeOK, WordInv, Owned
  <2>3. addr[u] # m
    BY <1>1, <2>1, <2>2
  <2> QED
    BY <1>3, <2>2, <2>3
<1>10. Handed'
  <2> SUFFICES ASSUME NEW u \in Threads, pc'[u] = "waiting", queue'[u] = "none",
                      result[u] = "Success"
               PROVE  WordToBe(addr[u])'.owner = u
    BY DEF Handed
  <2>1. u # t
    BY <1>4
  <2>2. addr[u] \in Locks /\ WordToBe(addr[u]).owner = u
    BY <1>4, <2>1 DEF CondInv, TypeOK, WordInv, Handed
  <2> QED
    BY <1>7, <2>2
<1>11. Told'
  <2> SUFFICES ASSUME NEW w \in Threads, NEW k \in Locks,
                      LockOwner(kt, w) # NoThread, kt.waits[w].lock = k
               PROVE  WordToBe(k)' = [owner |-> LockOwner(kt, w), mask |-> TRUE]
    BY DEF Told, LockOwner
  <2> QED
    BY <1>7 DEF CondInv, WordInv, Told
<1> QED
  BY <1>3, <1>6, <1>7, <1>8, <1>9, <1>10, <1>11 DEF WordInv

LEMMA SignalToAddressStoreStep ==
    ASSUME CondInv, NEW t \in Threads, SignalToAddressStore(t)
    PROVE  CondInv'
<1> USE DEF SignalToAddressStore, At, Goto, waitVars, lifeVars
<1>1. PICK l \in {"dying", "idle"} : pc' = [pc EXCEPT ![t] = l]
  OBVIOUS
<1>2. Storing(t) /\ l \in {"dying", "idle", "lock", "waiting"} /\ l # "waiting"
  BY DEF Storing
<1>3. tag' \in [Locks -> Word] /\ LockInv' /\ WordInv'
  BY <1>1, <1>2, StoreWords
<1>4. TypeOK'
  <2>1. pc' \in [Threads -> Labels]
    BY <1>1 DEF CondInv, TypeOK, Labels
  <2> QED
    BY <1>3, <2>1 DEF CondInv, TypeOK, NoLocal, Owners
<1>5. ASSUME NEW u \in Threads
      PROVE  PlaceOf(u)'
  <2>1. PlaceOf(u) /\ queue[t] = "none"
    BY DEF CondInv, PlaceInv, PlaceOf, TypeOK
  <2>2. pc'[u] # "signal" /\ (queue[u] # "none" => pc'[u] = pc[u])
    <3>1. u # t => pc'[u] = pc[u] /\ pc[u] # "signal"
      BY <1>2 DEF CondInv, TypeOK, LockInv, Storing
    <3>2. pc'[t] = l
      BY <1>1 DEF CondInv, TypeOK
    <3> QED
      BY <2>1, <3>1, <3>2
  <2> QED
    BY <2>1, <2>2 DEF PlaceOf
<1>6. PlaceInv'
  BY <1>5 DEF CondInv, PlaceInv, Tree
<1> QED
  BY <1>3, <1>4, <1>6 DEF CondInv

LEMMA WaitStoreStep ==
    ASSUME CondInv, NEW t \in Threads, NEW timeout \in Timeouts, WaitStore(t, timeout)
    PROVE  CondInv'
<1> USE DEF At, Goto, lifeVars
<1>1. /\ Storing(t) /\ queue[t] = "none" /\ t \notin ToSet(tree) /\ t \notin timed
      /\ Tree(tree) /\ LockOwner(kt, t) = NoThread
  BY DEF WaitStore, Storing, CondInv, PlaceInv, PlaceOf, TypeOK
<1>2. \A u \in Threads \ {t} : pc[u] # "signal"
  BY <1>1 DEF CondInv, LockInv, Storing
<1>3. local' = NoLocal /\ kt' = kt
  BY DEF WaitStore
<1>4. CASE timeout = "zero"
  <2>1. pc' = [pc EXCEPT ![t] = "lock"] /\ UNCHANGED <<tree, queue, timed>>
    BY <1>4 DEF WaitStore
  <2>2. tag' \in [Locks -> Word] /\ LockInv' /\ WordInv'
    <3>1. "lock" \in {"dying", "idle", "lock", "waiting"} /\ "lock" # "waiting"
      OBVIOUS
    <3>2. /\ tag' = [tag EXCEPT ![addr[t]] = NextValue] /\ schedLock' = NoThread
          /\ UNCHANGED <<addr, held, kt, result>>
      BY DEF WaitStore
    <3> QED
      BY <1>1, <2>1, <3>1, <3>2, StoreWords
  <2>3. TypeOK'
    <3>1. pc' \in [Threads -> Labels]
      BY <2>1 DEF CondInv, TypeOK, Labels
    <3> QED
      BY <2>1, <2>2, <3>1 DEF WaitStore, CondInv, TypeOK, NoLocal, Owners
  <2>4. ASSUME NEW u \in Threads
        PROVE  PlaceOf(u)'
    <3>1. pc'[u] # "signal" /\ (queue[u] # "none" => pc'[u] = pc[u])
      BY <1>1, <1>2, <2>1 DEF CondInv, TypeOK
    <3>2. addr'[u] = addr[u]
      BY DEF WaitStore
    <3> QED
      BY <1>3, <2>1, <3>1, <3>2 DEF CondInv, PlaceInv, PlaceOf
  <2> QED
    BY <1>1, <2>1, <2>2, <2>3, <2>4 DEF CondInv, PlaceInv, Tree
<1>5. CASE timeout # "zero"
  <2>1. /\ pc' = [pc EXCEPT ![t] = "waiting"] /\ tree' = Inserted(tree, kt, t)
        /\ queue' = [queue EXCEPT ![t] = "condvar"] /\ timed' \subseteq timed \cup {t}
        /\ timed \subseteq timed'
    BY <1>5 DEF WaitStore
  <2>2. /\ queue'[t] = "condvar" /\ pc'[t] = "waiting"
        /\ \A u \in Threads \ {t} : queue'[u] = queue[u] /\ pc'[u] = pc[u]
    BY <2>1 DEF CondInv, TypeOK
  <2>3. tag' \in [Locks -> Word] /\ LockInv' /\ WordInv'
    <3>1. "waiting" \in {"dying", "idle", "lock", "waiting"}
      OBVIOUS
    <3>2. /\ tag' = [tag EXCEPT ![addr[t]] = NextValue] /\ schedLock' = NoThread
          /\ UNCHANGED <<addr, held, kt, result>>
      BY DEF WaitStore
    <3> QED
      BY <1>1, <2>1, <2>2, <3>1, <3>2, StoreWords
  <2>4. Tree(tree') /\ ToSet(tree') = ToSet(tree) \cup {t}
    BY <1>1, <2>1, InsertedTree
  <2>5. TypeOK'
    <3>1. pc' \in [Threads -> Labels] /\ queue' \in [Threads -> {"none", "address", "condvar"}]
      BY <2>1 DEF CondInv, TypeOK, Labels
    <3>2. tree' \in Seq(Threads) /\ timed' \subseteq Threads
      BY <2>1, <2>4 DEF Tree, CondInv, TypeOK
    <3> QED
      BY <2>3, <3>1, <3>2 DEF WaitStore, CondInv, TypeOK, NoLocal, Owners
  <2>6. ASSUME NEW u \in Threads
        PROVE  PlaceOf(u)'
    <3>1. addr'[u] = addr[u] /\ PlaceOf(u)
      BY DEF WaitStore, CondInv, PlaceInv
    <3>2. CASE u = t
      BY <1>1, <1>3, <2>2, <2>4, <3>2 DEF PlaceOf
    <3>3. CASE u # t
      BY <1>2, <1>3, <2>1, <2>2, <2>4, <3>1, <3>3 DEF PlaceOf
    <3> QED
      BY <3>2, <3>3
  <2> QED
    BY <2>3, <2>4, <2>5, <2>6 DEF CondInv, PlaceInv, Tree
<1> QED
  BY <1>4, <1>5

-----------------------------------------------------------------------------
(* Waits that end, and changes of priority.                                *)

\* The mutexes in a step that writes no word: waits may end, though not with a mutex.
LEMMA StillWords ==
    ASSUME CondInv, UNCHANGED <<tag, addr, held>>,
           \A m \in Locks : WordToBe(m)' = WordToBe(m),
           \A u \in Threads :
               /\ pc'[u] \in {"unlock", "unlockStore", "wait", "waitStore"} => pc[u] = pc'[u]
               /\ kt'.waits[u] = kt.waits[u] \/ LockOwner(kt', u) = NoThread
               /\ pc'[u] = "waiting" /\ queue'[u] = "none" /\ result'[u] = "Success" =>
                     pc[u] = "waiting" /\ queue[u] = "none" /\ result[u] = "Success"
    PROVE  WordInv'
<1>1. HolderInWord' /\ Owned'
  BY DEF CondInv, WordInv, HolderInWord, Owned
<1>2. Handed'
  <2> SUFFICES ASSUME NEW u \in Threads, pc'[u] = "waiting", queue'[u] = "none",
                      result'[u] = "Success"
               PROVE  WordToBe(addr[u])'.owner = u
    BY DEF Handed
  <2>1. addr[u] \in Locks /\ WordToBe(addr[u]).owner = u
    BY DEF CondInv, TypeOK, WordInv, Handed
  <2> QED
    BY <2>1
<1>3. Told'
  <2> SUFFICES ASSUME NEW w \in Threads, NEW k \in Locks,
                      LockOwner(kt', w) # NoThread, kt'.waits[w].lock = k
               PROVE  WordToBe(k)' = [owner |-> LockOwner(kt', w), mask |-> TRUE]
    BY DEF Told, LockOwner
  <2>1. kt'.waits[w] = kt.waits[w]
    OBVIOUS
  <2>2. LockOwner(kt', w) = LockOwner(kt, w) /\ kt.waits[w].lock = k
    BY <2>1 DEF LockOwner
  <2>3. WordToBe(k) = [owner |-> LockOwner(kt', w), mask |-> TRUE]
    BY <2>2 DEF CondInv, WordInv, Told
  <2> QED
    BY <2>3
<1> QED
  BY <1>1, <1>2, <1>3 DEF WordInv

LEMMA SignalBegins ==
    ASSUME CondInv, NEW t \in Threads, NEW count \in Counts, Signal(t, count)
    PROVE  CondInv'
<1> USE DEF Signal, At, Goto, guestVars, waitVars, lifeVars
<1>1. /\ pc[t] = "idle" /\ SchedulerFree /\ queue[t] = "none" /\ Tree(tree)
      /\ pc' = [pc EXCEPT ![t] = "signal"]
  BY DEF CondInv, PlaceInv, PlaceOf, TypeOK
<1>2. pc'[t] = "signal" /\ \A u \in Threads \ {t} : pc'[u] = pc[u]
  BY DEF CondInv, TypeOK
<1>3. \A s \in Threads : ~Storing(s) /\ pc[s] # "signal"
  BY <1>1, LabelsOf
<1>4. LockInv'
  BY <1>2, <1>3 DEF LockInv, Storing
<1>5. Begin(tree) \in ToSet(tree) \cup {NoThread} /\ Begin(tree) \in Owners
  BY <1>1, Iterator, ToSetIs DEF Tree, Owners
<1>6. local'.it = Begin(tree)
      /\ local' \in [next : Owners, it : Owners, more : BOOLEAN, left : Nat]
  BY <1>5, ConditionVariableAssumption DEF NoLocal, Owners
<1>7. TypeOK'
  <2>1. pc' \in [Threads -> Labels]
    BY DEF CondInv, TypeOK, Labels
  <2> QED
    BY <1>6, <2>1 DEF CondInv, TypeOK, Owners
<1>8. ASSUME NEW u \in Threads
      PROVE  PlaceOf(u)'
  <2>1. PlaceOf(u) /\ (queue[u] # "none" => pc'[u] = pc[u])
    BY <1>1, <1>2 DEF CondInv, PlaceInv
  <2> QED
    BY <1>5, <1>6, <2>1 DEF PlaceOf
<1>9. PlaceInv'
  BY <1>8 DEF CondInv, PlaceInv, Tree
<1>10. \A m \in Locks : WordToBe(m)' = WordToBe(m)
  <2>1. \A s \in Threads : ~Storing(s)'
    BY <1>2, <1>3 DEF Storing
  <2>2. \A m : ~Pending(m)' /\ ~Pending(m)
    BY <1>3, <2>1 DEF Pending
  <2> QED
    BY <2>2 DEF WordToBe
<1>11. WordInv'
  BY <1>2, <1>10, StillWords
<1> QED
  BY <1>4, <1>7, <1>9, <1>11 DEF CondInv

\* Whoever is in Signal is in no second half of another call, and nobody else is.
LEMMA InSignal ==
    ASSUME CondInv, NEW t \in Threads, pc[t] = "signal"
    PROVE  /\ schedLock = t
           /\ \A u \in Threads : ~Storing(u) /\ (pc[u] = "signal" => u = t)
           /\ \A m : ~Pending(m) /\ WordToBe(m) = tag[m]
<1>1. schedLock = t /\ \A u \in Threads : ~Storing(u) /\ (pc[u] = "signal" => u = t)
  BY DEF CondInv, LockInv, Storing
<1> QED
  BY <1>1, WordsNow

LEMMA SignalEndStep ==
    ASSUME CondInv, NEW t \in Threads, SignalEnd(t)
    PROVE  CondInv'
<1> USE DEF SignalEnd, At, Goto, waitVars, lifeVars
<1>1. PICK l \in {"dying", "idle"} : pc' = [pc EXCEPT ![t] = l]
  OBVIOUS
<1>2. pc[t] = "signal" /\ queue[t] = "none"
  BY DEF CondInv, PlaceInv, PlaceOf, TypeOK
<1>3. pc'[t] = l /\ \A u \in Threads \ {t} : pc'[u] = pc[u]
  BY <1>1 DEF CondInv, TypeOK
<1>4. schedLock = t /\ \A u \in Threads : ~Storing(u) /\ (pc[u] = "signal" => u = t)
  BY <1>2, InSignal
<1>5. LockInv'
  BY <1>3, <1>4, WaitersAssumption DEF LockInv, Storing
<1>6. TypeOK'
  <2>1. pc' \in [Threads -> Labels]
    BY <1>1 DEF CondInv, TypeOK, Labels
  <2> QED
    BY <2>1 DEF CondInv, TypeOK, FlagAfterSignal, NoLocal, Owners
<1>7. ASSUME NEW u \in Threads
      PROVE  PlaceOf(u)'
  <2>1. PlaceOf(u) /\ pc'[u] # "signal" /\ (queue[u] # "none" => pc'[u] = pc[u])
    BY <1>2, <1>3, <1>4 DEF CondInv, PlaceInv
  <2> QED
    BY <2>1 DEF PlaceOf
<1>8. PlaceInv'
  BY <1>7 DEF CondInv, PlaceInv, Tree
<1>9. \A m \in Locks : WordToBe(m)' = WordToBe(m)
  <2>1. \A s \in Threads : ~Storing(s)'
    BY <1>3, <1>4 DEF Storing
  <2>2. \A m : ~Pending(m)' /\ ~Pending(m)
    BY <1>4, <2>1 DEF Pending
  <2> QED
    BY <2>2 DEF WordToBe
<1>10. WordInv'
  BY <1>3, <1>9, StillWords
<1> QED
  BY <1>5, <1>6, <1>8, <1>10 DEF CondInv

\* A wait that is cancelled leaves its owner and the tree.
LEMMA CancelKeeps ==
    ASSUME CondInv, SchedulerFree, NEW t \in Threads, queue[t] # "none",
           NEW s \in ThreadTables, s.waits = kt.waits,
           NEW q, Tree(q), ToSet(q) = ToSet(tree),
           NEW res \in {"TimedOut", "Terminated"}, CancelWait(s, q, t, res),
           UNCHANGED <<guestVars, callVars, handles, opened>>,
           termReq' \in [Threads -> BOOLEAN]
    PROVE  CondInv'
<1> USE DEF guestVars, callVars
<1>1. kt' \in ThreadTables /\ kt'.waits = [kt.waits EXCEPT ![t] = NotWaiting]
  <2>1. kt.waits \in [Threads -> [owner : Threads, lock : Locks] \cup {NotWaiting}]
    BY DEF CondInv, TypeOK, ThreadTables
  <2>2. LockOwner(s, t) = kt.waits[t].owner
    BY DEF LockOwner
  <2>3. CASE LockOwner(s, t) = NoThread
    <3>1. kt.waits[t] = NotWaiting
      BY <2>1, <2>2, <2>3, WaitersAssumption DEF NotWaiting
    <3>2. kt' = s
      BY <2>3 DEF CancelWait
    <3> QED
      BY <2>1, <3>1, <3>2
  <2>4. CASE LockOwner(s, t) # NoThread
    <3>1. LockOwner(s, t) \in Threads
      BY <2>1, <2>2, <2>4 DEF NotWaiting
    <3>2. kt' = RemoveWaiter(s, LockOwner(s, t), t)
      BY <2>4 DEF CancelWait
    <3> QED
      BY <3>1, <3>2, RemoveWaiterKeeps
  <2> QED
    BY <2>3, <2>4
<1>2. /\ LockOwner(kt', t) = NoThread
      /\ \A u \in Threads \ {t} : kt'.waits[u] = kt.waits[u]
                                  /\ LockOwner(kt', u) = LockOwner(kt, u)
  BY <1>1 DEF LockOwner, NotWaiting, CondInv, TypeOK, ThreadTables
<1>3. Tree(tree') /\ ToSet(tree') = ToSet(tree) \ {t}
  <2>1. Tree(Without(q, t)) /\ ToSet(Without(q, t)) = ToSet(q) \ {t}
    BY WithoutTree
  <2>2. tree' = Resorted(Without(q, t), s, kt')
    BY DEF CancelWait
  <2> QED
    BY <2>1, <2>2, ResortedTree
<1>4. /\ queue' = [queue EXCEPT ![t] = "none"] /\ result' = [result EXCEPT ![t] = res]
      /\ timed' = timed \ {t}
  BY DEF CancelWait, Wake
<1>5. TypeOK'
  <2>1. tree' \in Seq(Threads)
    BY <1>3 DEF Tree
  <2>2. nullDeref' \in BOOLEAN
    BY DEF CancelWait
  <2> QED
    BY <1>1, <1>4, <2>1, <2>2 DEF CondInv, TypeOK
<1>6. LockInv'
  BY DEF CondInv, LockInv
<1>7. queue'[t] = "none" /\ result'[t] = res
      /\ \A u \in Threads \ {t} : queue'[u] = queue[u] /\ result'[u] = result[u]
  BY <1>4 DEF CondInv, TypeOK
<1>8. pc[t] = "waiting"
  BY DEF CondInv, PlaceInv, PlaceOf
<1>9. ASSUME NEW u \in Threads
      PROVE  PlaceOf(u)'
  <2>1. PlaceOf(u) /\ pc[u] # "signal"
    BY LabelsOf DEF CondInv, PlaceInv
  <2>2. CASE u = t
    BY <1>2, <1>3, <1>4, <1>7, <2>1, <2>2 DEF PlaceOf
  <2>3. CASE u # t
    BY <1>2, <1>3, <1>4, <1>7, <2>1, <2>3 DEF PlaceOf
  <2> QED
    BY <2>2, <2>3
<1>10. PlaceInv'
  BY <1>3, <1>9 DEF PlaceInv, Tree
<1>11. \A m \in Locks : WordToBe(m)' = WordToBe(m)
  BY DEF WordToBe, Pending, Storing, NextValue
<1>12. WordInv'
  BY <1>2, <1>7, <1>11, StillWords
<1> QED
  BY <1>5, <1>6, <1>10, <1>12 DEF CondInv

LEMMA TimeoutStep ==
    ASSUME CondInv, NEW t \in Threads, Timeout(t)
    PROVE  CondInv'
<1>1. queue[t] # "none" /\ kt \in ThreadTables /\ Tree(tree)
  BY DEF Timeout, CondInv, PlaceInv, PlaceOf, TypeOK
<1>2. /\ SchedulerFree /\ CancelWait(kt, tree, t, "TimedOut")
      /\ UNCHANGED <<guestVars, callVars, handles, opened>>
      /\ termReq' \in [Threads -> BOOLEAN]
  BY DEF Timeout, CondInv, TypeOK
<1>3. "TimedOut" \in {"TimedOut", "Terminated"}
  OBVIOUS
<1> QED
  BY <1>1, <1>2, <1>3, CancelKeeps

\* A change of priority sorts the tree again, at most.
LEMMA PriorityKeeps ==
    ASSUME CondInv, kt' \in ThreadTables, kt'.waits = kt.waits,
           tree' = Resorted(tree, kt, kt'),
           UNCHANGED <<guestVars, timed, queue, result, callVars, handles, opened, nullDeref>>,
           \A t \in Threads : pc[t] # "signal",
           termReq' \in [Threads -> BOOLEAN]
    PROVE  CondInv'
<1> USE DEF guestVars, callVars
<1>1. Tree(tree') /\ ToSet(tree') = ToSet(tree)
  BY ResortedTree DEF CondInv, PlaceInv
<1>2. TypeOK' /\ LockInv'
  BY <1>1 DEF CondInv, TypeOK, LockInv, Tree
<1>3. PlaceInv'
  BY <1>1 DEF CondInv, PlaceInv, PlaceOf, Tree, LockOwner
<1>4. \A m \in Locks : WordToBe(m)' = WordToBe(m)
  BY DEF WordToBe, Pending, Storing, NextValue
<1>5. WordInv'
  BY <1>4, StillWords
<1> QED
  BY <1>2, <1>3, <1>5 DEF CondInv

LEMMA SetPriorityStep ==
    ASSUME CondInv, NEW t \in Threads, NEW p \in GuestPriorities, SetPriority(t, p)
    PROVE  CondInv'
<1>1. kt \in ThreadTables /\ p \in Priorities
  BY DEF CondInv, TypeOK, GuestPriorities
<1>2. kt' \in ThreadTables /\ kt'.waits = kt.waits
  BY <1>1, SetBasePriorityKeeps DEF SetPriority
<1>3. \A u \in Threads : pc[u] # "signal"
  BY LabelsOf DEF SetPriority
<1> QED
  BY <1>2, <1>3, PriorityKeeps DEF SetPriority, lifeVars, CondInv, TypeOK

LEMMA RequestTerminateStep ==
    ASSUME CondInv, NEW t \in Threads, RequestTerminate(t)
    PROVE  CondInv'
<1> DEFINE raised == IncreaseBasePriority(kt, t, TerminatingPriority)
           sorted == Resorted(tree, kt, raised)
<1>1. kt \in ThreadTables /\ Tree(tree) /\ SchedulerFree
      /\ termReq' \in [Threads -> BOOLEAN]
  BY DEF RequestTerminate, CondInv, PlaceInv, TypeOK
<1>2. raised \in ThreadTables /\ raised.waits = kt.waits
  BY <1>1, ConditionVariableAssumption, SetBasePriorityKeeps
<1>3. Tree(sorted) /\ ToSet(sorted) = ToSet(tree)
  BY <1>1, ResortedTree
<1>4. UNCHANGED <<guestVars, callVars, handles, opened>>
  BY DEF RequestTerminate
<1>5. CASE queue[t] # "none"
  <2>1. CancelWait(raised, sorted, t, "Terminated")
    BY <1>5 DEF RequestTerminate
  <2>2. "Terminated" \in {"TimedOut", "Terminated"}
    OBVIOUS
  <2> HIDE DEF raised, sorted
  <2> QED
    BY <1>1, <1>2, <1>3, <1>4, <1>5, <2>1, <2>2, CancelKeeps
<1>6. CASE queue[t] = "none"
  <2>1. kt' = raised /\ tree' = sorted /\ UNCHANGED <<queue, result, timed, nullDeref>>
    BY <1>6 DEF RequestTerminate
  <2>2. \A u \in Threads : pc[u] # "signal"
    BY <1>1, LabelsOf
  <2> HIDE DEF raised
  <2> QED
    BY <1>1, <1>2, <1>4, <2>1, <2>2, PriorityKeeps
<1> QED
  BY <1>5, <1>6

\* An owner that is finalized leaves nobody waiting on it.
LEMMA FinalizeStep ==
    ASSUME CondInv, NEW t \in Threads, Finalize(t)
    PROVE  CondInv'
<1> USE DEF At, Goto, guestVars
<1> DEFINE W == Waiters(kt, t)
<1>1. /\ pc[t] = "dead" /\ SchedulerFree /\ kt' = ReleaseWaiters(kt, t)
      /\ nullDeref' \in BOOLEAN
      /\ queue' = [w \in Threads |-> IF w \in W THEN "none" ELSE queue[w]]
      /\ result' = [w \in Threads |-> IF w \in W THEN "InvalidState" ELSE result[w]]
      /\ timed' = timed \ W /\ pc' = [pc EXCEPT ![t] = "gone"]
      /\ UNCHANGED <<tag, cvFlag, tree, schedLock, addr, seen, held, local, handles, opened,
                     termReq>>
  BY DEF Finalize
<1>2. W = {w \in Threads : LockOwner(kt, w) = t} /\ kt \in ThreadTables
  BY DEF Waiters, CondInv, TypeOK
<1> HIDE DEF W
<1>3. /\ kt' \in ThreadTables
      /\ \A w \in Threads : kt'.waits[w] = IF w \in W THEN NotWaiting ELSE kt.waits[w]
  BY <1>1, <1>2, ReleaseWaitersKeeps
<1>4. /\ pc'[t] = "gone" /\ \A u \in Threads \ {t} : pc'[u] = pc[u]
      /\ \A u \in Threads : ~Storing(u) /\ pc[u] # "signal"
  BY <1>1, LabelsOf DEF CondInv, TypeOK
<1>5. TypeOK'
  <2>1. /\ queue' \in [Threads -> {"none", "address", "condvar"}]
        /\ result' \in [Threads -> {"Success", "TimedOut", "Terminated", "InvalidState"}]
        /\ timed' \subseteq Threads
    BY <1>1 DEF CondInv, TypeOK
  <2>2. pc' \in [Threads -> Labels]
    BY <1>1 DEF CondInv, TypeOK, Labels
  <2> QED
    BY <1>1, <1>3, <2>1, <2>2 DEF CondInv, TypeOK
<1>6. LockInv'
  BY <1>1, <1>4 DEF CondInv, LockInv
<1>7. ASSUME NEW u \in Threads
      PROVE  PlaceOf(u)'
  <2>1. PlaceOf(u) /\ (queue[u] # "none" => pc'[u] = pc[u]) /\ pc'[u] # "signal"
    BY <1>1, <1>4 DEF CondInv, PlaceInv, PlaceOf
  <2>2. CASE u \in W
    <3>1. LockOwner(kt', u) = NoThread
      BY <1>3, <2>2 DEF LockOwner, NotWaiting
    <3>2. u \notin ToSet(tree)
      BY <1>2, <2>2, LabelsOf, WaitersAssumption
    <3> QED
      BY <1>1, <2>1, <2>2, <3>1, <3>2 DEF PlaceOf
  <2>3. CASE u \notin W
    <3>1. LockOwner(kt', u) = LockOwner(kt, u) /\ kt'.waits[u] = kt.waits[u]
      BY <1>3, <2>3 DEF LockOwner
    <3> QED
      BY <1>1, <2>1, <2>3, <3>1 DEF PlaceOf
  <2> QED
    BY <2>2, <2>3
<1>8. PlaceInv'
  BY <1>1, <1>7 DEF CondInv, PlaceInv, Tree
<1>9. \A m \in Locks : WordToBe(m)' = WordToBe(m)
  <2>1. \A u \in Threads : ~Storing(u)'
    BY <1>4 DEF Storing
  <2>2. \A m : ~Pending(m)' /\ ~Pending(m)
    BY <1>4, <2>1 DEF Pending
  <2> QED
    BY <1>1, <2>2 DEF WordToBe
<1>10. ASSUME NEW u \in Threads
       PROVE  /\ pc'[u] \in {"unlock", "unlockStore", "wait", "waitStore"} => pc[u] = pc'[u]
              /\ kt'.waits[u] = kt.waits[u] \/ LockOwner(kt', u) = NoThread
              /\ pc'[u] = "waiting" /\ queue'[u] = "none" /\ result'[u] = "Success" =>
                    pc[u] = "waiting" /\ queue[u] = "none" /\ result[u] = "Success"
  BY <1>1, <1>3, <1>4 DEF LockOwner, NotWaiting
<1>11. WordInv'
  BY <1>1, <1>9, <1>10, StillWords
<1> QED
  BY <1>5, <1>6, <1>8, <1>11 DEF CondInv

-----------------------------------------------------------------------------
(* Threads that come to wait on an owner.                                  *)

LEMMA WaitForAddressStep ==
    ASSUME CondInv, NEW t \in Threads, WaitForAddress(t)
    PROVE  CondInv'
<1> USE DEF At, Goto, guestVars
<1> DEFINE o == seen[t]
           m == addr[t]
<1>1. /\ pc[t] = "arbitrate" /\ SchedulerFree /\ tag[m] = [owner |-> o, mask |-> TRUE]
      /\ kt' = AddWaiter(kt, o, t, m) /\ tree' = Resorted(tree, kt, kt')
      /\ queue' = [queue EXCEPT ![t] = "address"] /\ pc' = [pc EXCEPT ![t] = "waiting"]
      /\ opened' = [opened EXCEPT ![t] = o] /\ seen' = [seen EXCEPT ![t] = NoThread]
      /\ UNCHANGED <<tag, cvFlag, timed, result, schedLock, addr, held, local, handles,
                     termReq, nullDeref>>
  BY DEF WaitForAddress
<1>2. /\ o \in Threads /\ m \in Locks /\ kt \in ThreadTables /\ Tree(tree)
      /\ queue[t] = "none" /\ t \notin ToSet(tree) /\ t \notin timed
  BY DEF WaitForAddress, CondInv, TypeOK, PlaceInv, PlaceOf
<1> HIDE DEF o, m
<1>3. /\ kt' \in ThreadTables
      /\ kt'.waits = [kt.waits EXCEPT ![t] = [owner |-> o, lock |-> m]]
  BY <1>1, <1>2, AddWaiterKeeps
<1>4. /\ kt'.waits[t] = [owner |-> o, lock |-> m] /\ LockOwner(kt', t) = o
      /\ \A u \in Threads \ {t} : kt'.waits[u] = kt.waits[u]
                                  /\ LockOwner(kt', u) = LockOwner(kt, u)
  BY <1>2, <1>3 DEF LockOwner, ThreadTables
<1>5. Tree(tree') /\ ToSet(tree') = ToSet(tree)
  BY <1>1, <1>2, ResortedTree
<1>6. /\ pc'[t] = "waiting" /\ queue'[t] = "address"
      /\ \A u \in Threads \ {t} : pc'[u] = pc[u] /\ queue'[u] = queue[u]
      /\ \A u \in Threads : ~Storing(u) /\ pc[u] # "signal"
  BY <1>1, LabelsOf DEF CondInv, TypeOK
<1>7. TypeOK'
  <2>1. /\ queue' \in [Threads -> {"none", "address", "condvar"}]
        /\ pc' \in [Threads -> Labels]
        /\ opened' \in [Threads -> Owners] /\ seen' \in [Threads -> Owners]
    BY <1>1, <1>2 DEF CondInv, TypeOK, Labels, Owners
  <2>2. tree' \in Seq(Threads)
    BY <1>5 DEF Tree
  <2> QED
    BY <1>1, <1>3, <2>1, <2>2 DEF CondInv, TypeOK
<1>8. LockInv'
  BY <1>1, <1>6 DEF CondInv, LockInv
<1>9. ASSUME NEW u \in Threads
      PROVE  PlaceOf(u)'
  <2>1. CASE u = t
    <3>1. o # NoThread /\ addr'[u] = m /\ timed' = timed
      BY <1>1, <1>2, <2>1, WaitersAssumption DEF m
    <3> QED
      BY <1>2, <1>4, <1>5, <1>6, <2>1, <3>1 DEF PlaceOf
  <2>2. CASE u # t
    <3>1. PlaceOf(u)
      BY DEF CondInv, PlaceInv
    <3> QED
      BY <1>1, <1>4, <1>5, <1>6, <2>2, <3>1 DEF PlaceOf
  <2> QED
    BY <2>1, <2>2
<1>10. PlaceInv'
  BY <1>5, <1>9 DEF PlaceInv, Tree
<1>11. \A n \in Locks : WordToBe(n)' = tag[n] /\ WordToBe(n) = tag[n]
  <2>1. \A u \in Threads : ~Storing(u)'
    BY <1>6 DEF Storing
  <2>2. \A n : ~Pending(n)' /\ ~Pending(n)
    BY <1>6, <2>1 DEF Pending
  <2> QED
    BY <1>1, <2>2 DEF WordToBe
<1>12. HolderInWord' /\ Owned'
  BY <1>1, <1>6 DEF CondInv, WordInv, HolderInWord, Owned
<1>13. Handed'
  <2> SUFFICES ASSUME NEW u \in Threads, pc'[u] = "waiting", queue'[u] = "none",
                      result[u] = "Success"
               PROVE  WordToBe(addr[u])'.owner = u
    BY <1>1 DEF Handed
  <2>1. u # t
    BY <1>6
  <2>2. addr[u] \in Locks /\ WordToBe(addr[u]).owner = u
    BY <1>6, <2>1 DEF CondInv, TypeOK, WordInv, Handed
  <2> QED
    BY <1>1, <1>11, <2>2
<1>14. Told'
  <2> SUFFICES ASSUME NEW w \in Threads, NEW k \in Locks,
                      LockOwner(kt', w) # NoThread, kt'.waits[w].lock = k
               PROVE  WordToBe(k)' = [owner |-> LockOwner(kt', w), mask |-> TRUE]
    BY DEF Told, LockOwner
  <2>1. CASE w = t
    <3>1. k = m /\ LockOwner(kt', w) = o
      BY <1>4, <2>1
    <3> QED
      BY <1>1, <1>11, <3>1
  <2>2. CASE w # t
    <3>1. kt.waits[w].lock = k /\ LockOwner(kt', w) = LockOwner(kt, w)
      BY <1>4, <2>2
    <3>2. WordToBe(k) = [owner |-> LockOwner(kt, w), mask |-> TRUE]
      BY <3>1 DEF CondInv, WordInv, Told
    <3> QED
      BY <1>11, <3>1, <3>2
  <2> QED
    BY <2>1, <2>2
<1> QED
  BY <1>7, <1>8, <1>10, <1>12, <1>13, <1>14 DEF CondInv, WordInv

\* The places, the lock and the types in a round of Signal's loop, whichever way w goes.
LEMMA SignalPlaces ==
    ASSUME CondInv, NEW t \in Threads, SignalOne(t), kt' \in ThreadTables,
           tag' \in [Locks -> Word], Tree(tree'), ToSet(tree') = ToSet(tree) \ {local.it},
           result' \in [Threads -> {"Success", "TimedOut", "Terminated", "InvalidState"}],
           queue' \in [Threads -> {"none", "address", "condvar"}], timed' \subseteq timed,
           \A u \in Threads \ {local.it} : /\ queue'[u] = queue[u]
                                           /\ kt'.waits[u] = kt.waits[u],
           \/ /\ queue'[local.it] = "none" /\ local.it \notin timed'
              /\ kt'.waits[local.it] = NotWaiting
           \/ \E o \in Threads : /\ queue'[local.it] = "condvar"
                                 /\ kt'.waits[local.it] =
                                        [owner |-> o, lock |-> addr[local.it]]
    PROVE  TypeOK' /\ LockInv' /\ PlaceInv'
<1> USE DEF lifeVars
<1> DEFINE w == local.it
<1>1. /\ pc[t] = "signal" /\ w # NoThread /\ MoreToSignal
      /\ local' = [local EXCEPT !.it = After(tree, w),
                                !.left = IF local.more THEN @ ELSE @ - 1]
      /\ UNCHANGED <<cvFlag, schedLock, pc, addr, seen, held, handles, opened, termReq,
                     nullDeref>>
  BY DEF SignalOne, At
<1>2. w \in ToSet(tree) /\ w \in Threads /\ Tree(tree) /\ pc[w] = "waiting"
  BY <1>1, ToSetIs, LabelsOf DEF CondInv, PlaceInv, PlaceOf, Tree
<1>3. After(tree, w) \in (ToSet(tree) \ {w}) \cup {NoThread}
  BY <1>2, Iterator
<1>4. local' \in [next : Owners, it : Owners, more : BOOLEAN, left : Nat]
      /\ local'.it = After(tree, w)
  <2>1. After(tree, w) \in Owners
    BY <1>2, <1>3, ToSetIs DEF Tree, Owners
  <2>2. local \in [next : Owners, it : Owners, more : BOOLEAN, left : Nat]
    BY DEF CondInv, TypeOK
  <2>3. (IF local.more THEN local.left ELSE local.left - 1) \in Nat
    BY <1>1, <2>2 DEF MoreToSignal
  <2> QED
    BY <1>1, <2>1, <2>2, <2>3
<1>5. TypeOK'
  <2>1. tree' \in Seq(Threads)
    BY DEF Tree
  <2> QED
    BY <1>1, <1>4, <2>1 DEF CondInv, TypeOK
<1>6. LockInv'
  BY <1>1 DEF CondInv, LockInv
<1> HIDE DEF w
<1>7. ASSUME NEW u \in Threads
      PROVE  PlaceOf(u)'
  <2>1. pc'[u] = "signal" => local'.it \in ToSet(tree') \cup {NoThread}
    BY <1>3, <1>4 DEF w
  <2>2. PlaceOf(u) /\ pc'[u] = pc[u] /\ addr'[u] = addr[u]
    BY <1>1 DEF CondInv, PlaceInv
  <2>3. CASE u = w
    <3>1. LockOwner(kt', u) = kt'.waits[u].owner
      BY DEF LockOwner
    <3>2. CASE queue'[u] = "none" /\ u \notin timed' /\ kt'.waits[u] = NotWaiting
      BY <1>2, <2>1, <2>2, <2>3, <3>1, <3>2 DEF PlaceOf, NotWaiting, w
    <3>3. CASE \E o \in Threads : /\ queue'[u] = "condvar"
                                  /\ kt'.waits[u] = [owner |-> o, lock |-> addr[u]]
      <4>1. LockOwner(kt', u) # NoThread /\ kt'.waits[u].lock = addr[u]
        BY <3>1, <3>3, WaitersAssumption
      <4> QED
        BY <1>2, <2>1, <2>2, <2>3, <3>3, <4>1 DEF PlaceOf, w
    <3> QED
      BY <2>3, <3>2, <3>3 DEF w
  <2>4. CASE u # w
    <3>1. kt'.waits[u] = kt.waits[u] /\ queue'[u] = queue[u]
      BY <2>4 DEF w
    <3>2. LockOwner(kt', u) = LockOwner(kt, u)
      BY <3>1 DEF LockOwner
    <3> QED
      BY <2>1, <2>2, <2>4, <3>1, <3>2 DEF PlaceOf, w
  <2> QED
    BY <2>3, <2>4
<1>8. PlaceInv'
  BY <1>7 DEF PlaceInv, Tree
<1> QED
  BY <1>5, <1>6, <1>8

\* A round of Signal's loop gives w its mutex when the word is free, and lets it wait on
\* the owner, told by the mask, when it is not.
LEMMA SignalOneStep ==
    ASSUME CondInv, NEW t \in Threads, SignalOne(t)
    PROVE  CondInv'
<1> USE DEF lifeVars
<1> DEFINE w == local.it
           m == addr[w]
           o == tag[m].owner
           rest == Without(tree, w)
<1>1. /\ pc[t] = "signal" /\ w # NoThread /\ UNCHANGED <<pc, addr, held>>
  BY DEF SignalOne, At
<1>2. /\ w \in Threads /\ w \in ToSet(tree) /\ Tree(tree) /\ m \in Locks
      /\ pc[w] = "waiting" /\ queue[w] = "condvar" /\ kt.waits[w] = NotWaiting
  <2>1. w \in ToSet(tree) /\ Tree(tree)
    BY <1>1 DEF CondInv, PlaceInv, PlaceOf
  <2>2. w \in Threads
    BY <2>1, ToSetIs DEF Tree
  <2>3. pc[w] = "waiting" /\ queue[w] = "condvar" /\ LockOwner(kt, w) = NoThread
    BY <2>1, <2>2, LabelsOf
  <2>4. kt.waits[w] = NotWaiting
    BY <2>2, <2>3, WaitersAssumption DEF CondInv, TypeOK, ThreadTables, LockOwner
  <2> QED
    BY <2>1, <2>2, <2>3, <2>4 DEF CondInv, TypeOK
<1>3. Tree(rest) /\ ToSet(rest) = ToSet(tree) \ {w}
  BY <1>2, WithoutTree
<1>4. \A n : WordToBe(n)' = tag'[n] /\ WordToBe(n) = tag[n]
  <2>1. \A u \in Threads : ~Storing(u)' /\ ~Storing(u)
    BY <1>1, InSignal DEF Storing
  <2>2. \A n : ~Pending(n)' /\ ~Pending(n)
    BY <2>1 DEF Pending
  <2> QED
    BY <2>2 DEF WordToBe
<1>5. kt \in ThreadTables /\ tag \in [Locks -> Word] /\ handles \subseteq Threads
  BY DEF CondInv, TypeOK
<1>6. CASE tag[m] = Free /\ tag' = [tag EXCEPT ![m].owner = w] /\ Wake(w, "Success")
           /\ tree' = rest /\ UNCHANGED kt
  <2>1. /\ tag'[m].owner = w /\ \A n \in Locks \ {m} : tag'[n] = tag[n]
        /\ tag' \in [Locks -> Word]
    BY <1>2, <1>5, <1>6 DEF Word, Owners
  <2>2. /\ queue'[w] = "none" /\ w \notin timed' /\ timed' \subseteq timed
        /\ queue' \in [Threads -> {"none", "address", "condvar"}]
        /\ result' \in [Threads -> {"Success", "TimedOut", "Terminated", "InvalidState"}]
        /\ \A u \in Threads \ {w} : queue'[u] = queue[u] /\ result'[u] = result[u]
    BY <1>2, <1>6 DEF Wake, CondInv, TypeOK
  <2>3. TypeOK' /\ LockInv' /\ PlaceInv'
    BY <1>2, <1>3, <1>5, <1>6, <2>1, <2>2, SignalPlaces
  <2> HIDE DEF m, w
  <2>4. tag[m].owner = NoThread
    BY <1>6 DEF Free
  <2>5. HolderInWord'
    <3> SUFFICES ASSUME NEW u \in Threads, NEW n \in held[u] PROVE tag'[n].owner = u
      BY <1>1 DEF HolderInWord
    <3>1. n \in Locks /\ tag[n].owner = u
      BY DEF CondInv, TypeOK, WordInv, HolderInWord
    <3>2. n # m
      BY <2>4, <3>1, WaitersAssumption
    <3> QED
      BY <2>1, <3>1, <3>2
  <2>6. Owned'
    <3> SUFFICES ASSUME NEW u \in Threads,
                        pc[u] \in {"unlock", "unlockStore", "wait", "waitStore"}
                 PROVE  tag'[addr[u]].owner = u /\ addr[u] \notin held[u]
      BY <1>1 DEF Owned
    <3>1. addr[u] \in Locks /\ tag[addr[u]].owner = u /\ addr[u] \notin held[u]
      BY DEF CondInv, TypeOK, WordInv, Owned
    <3>2. addr[u] # m
      BY <2>4, <3>1, WaitersAssumption
    <3> QED
      BY <2>1, <3>1, <3>2
  <2>7. Handed'
    <3> SUFFICES ASSUME NEW u \in Threads, pc[u] = "waiting", queue'[u] = "none",
                        result'[u] = "Success"
                 PROVE  tag'[addr[u]].owner = u
      BY <1>1, <1>4 DEF Handed
    <3>1. CASE u = w
      BY <2>1, <3>1 DEF m
    <3>2. CASE u # w
      <4>1. addr[u] \in Locks /\ tag[addr[u]].owner = u
        BY <1>4, <2>2, <3>2 DEF CondInv, TypeOK, WordInv, Handed
      <4>2. addr[u] # m
        BY <2>4, <4>1, WaitersAssumption
      <4> QED
        BY <2>1, <4>1, <4>2
    <3> QED
      BY <3>1, <3>2
  <2>8. Told'
    <3> SUFFICES ASSUME NEW u \in Threads, NEW k \in Locks,
                        LockOwner(kt, u) # NoThread, kt.waits[u].lock = k
                 PROVE  tag'[k] = [owner |-> LockOwner(kt, u), mask |-> TRUE]
      BY <1>4, <1>6 DEF Told, LockOwner
    <3>1. tag[k] = [owner |-> LockOwner(kt, u), mask |-> TRUE]
      BY <1>4 DEF CondInv, WordInv, Told
    <3>2. k # m
      BY <1>6, <3>1 DEF Free
    <3> QED
      BY <2>1, <3>1, <3>2
  <2> QED
    BY <2>3, <2>5, <2>6, <2>7, <2>8 DEF CondInv, WordInv
<1>7. ASSUME tag[m] # Free, tag' = [tag EXCEPT ![m].mask = TRUE],
             NEW r \in {"waits", "dies"},
             r = "waits" => /\ o \in handles /\ kt' = AddWaiter(kt, o, w, m)
                            /\ tree' = Resorted(rest, kt, kt') /\ NoWake,
             r = "dies" => o \notin handles /\ tree' = rest /\ Wake(w, "InvalidState")
                           /\ UNCHANGED kt
      PROVE  CondInv'
  <2>1. /\ \A n \in Locks : /\ tag'[n].owner = tag[n].owner
                            /\ n # m => tag'[n] = tag[n]
        /\ tag'[m].mask = TRUE
        /\ tag' \in [Locks -> Word]
        /\ tag'[m] = [owner |-> o, mask |-> TRUE]
    <3>1. tag[m] \in Word
      BY <1>2, <1>5
    <3>2. tag'[m] = [tag[m] EXCEPT !.mask = TRUE] /\ \A n \in Locks \ {m} : tag'[n] = tag[n]
      BY <1>2, <1>5, <1>7
    <3>3. [tag[m] EXCEPT !.mask = TRUE] = [owner |-> o, mask |-> TRUE]
      <4> DEFINE v == [tag[m] EXCEPT !.mask = TRUE]
      <4>1. v \in [owner : Owners, mask : BOOLEAN] /\ v.owner = o /\ v.mask = TRUE
        BY <3>1 DEF Word
      <4> HIDE DEF v, o
      <4>2. v = [owner |-> v.owner, mask |-> v.mask]
        BY <4>1
      <4> QED
        BY <4>1, <4>2 DEF v
    <3>4. tag' \in [Locks -> Word]
      BY <1>2, <1>5, <1>7, <3>1 DEF Word
    <3> QED
      BY <3>2, <3>3, <3>4
  <2>2. HolderInWord' /\ Owned'
    <3>1. \A n \in Locks : tag'[n].owner = tag[n].owner
      BY <2>1
    <3>2. pc' = pc /\ addr' = addr /\ held' = held
      BY <1>1
    <3> HIDE DEF m, w
    <3>3. HolderInWord'
      BY <3>1, <3>2 DEF CondInv, TypeOK, WordInv, HolderInWord
    <3>4. Owned'
      BY <3>1, <3>2 DEF CondInv, TypeOK, WordInv, Owned
    <3> QED
      BY <3>3, <3>4
  <2>3. CASE r = "waits"
    <3>1. o \in Threads /\ kt' = AddWaiter(kt, o, w, m)
          /\ tree' = Resorted(rest, kt, kt') /\ UNCHANGED <<queue, result, timed>>
      BY <1>5, <1>7, <2>3 DEF NoWake
    <3> HIDE DEF o
    <3>2. /\ kt' \in ThreadTables
          /\ kt'.waits = [kt.waits EXCEPT ![w] = [owner |-> o, lock |-> m]]
      BY <1>2, <1>5, <3>1, AddWaiterKeeps
    <3>3. /\ kt'.waits[w] = [owner |-> o, lock |-> m] /\ LockOwner(kt', w) = o
          /\ \A u \in Threads \ {w} : kt'.waits[u] = kt.waits[u]
                                      /\ LockOwner(kt', u) = LockOwner(kt, u)
      BY <1>2, <1>5, <3>2 DEF LockOwner, ThreadTables
    <3>4. Tree(tree') /\ ToSet(tree') = ToSet(tree) \ {w}
      BY <1>3, <3>1, ResortedTree
    <3>5. TypeOK' /\ LockInv' /\ PlaceInv'
      <4>1. /\ queue' \in [Threads -> {"none", "address", "condvar"}]
            /\ result' \in [Threads -> {"Success", "TimedOut", "Terminated", "InvalidState"}]
            /\ timed' \subseteq timed /\ queue'[w] = "condvar"
        BY <1>2, <3>1 DEF CondInv, TypeOK
      <4> QED
        BY <2>1, <3>1, <3>2, <3>3, <3>4, <4>1, SignalPlaces
    <3> HIDE DEF m, w
    <3>6. Handed'
      <4> SUFFICES ASSUME NEW u \in Threads, pc[u] = "waiting", queue[u] = "none",
                          result[u] = "Success"
                   PROVE  tag'[addr[u]].owner = u
        BY <1>1, <1>4, <3>1 DEF Handed
      <4>1. addr[u] \in Locks /\ tag[addr[u]].owner = u
        BY <1>4 DEF CondInv, TypeOK, WordInv, Handed
      <4> QED
        BY <2>1, <4>1
    <3>7. Told'
      <4> SUFFICES ASSUME NEW u \in Threads, NEW k \in Locks,
                          LockOwner(kt', u) # NoThread, kt'.waits[u].lock = k
                   PROVE  tag'[k] = [owner |-> LockOwner(kt', u), mask |-> TRUE]
        BY <1>4 DEF Told, LockOwner
      <4>1. CASE u = w
        <5>1. k = m /\ LockOwner(kt', u) = o
          BY <3>3, <4>1
        <5> QED
          BY <2>1, <5>1
      <4>2. CASE u # w
        <5>1. kt.waits[u].lock = k /\ LockOwner(kt', u) = LockOwner(kt, u)
          BY <3>3, <4>2
        <5>2. tag[k] = [owner |-> LockOwner(kt, u), mask |-> TRUE]
          BY <1>4, <5>1 DEF CondInv, WordInv, Told
        <5>3. k = m => o = LockOwner(kt, u)
          BY <5>2 DEF o
        <5> QED
          BY <2>1, <5>1, <5>2, <5>3
      <4> QED
        BY <4>1, <4>2
    <3> QED
      BY <2>2, <3>5, <3>6, <3>7 DEF CondInv, WordInv
  <2>4. CASE r = "dies"
    <3>1. tree' = rest /\ Wake(w, "InvalidState") /\ kt' = kt
      BY <1>7, <2>4
    <3>2. /\ queue'[w] = "none" /\ w \notin timed' /\ timed' \subseteq timed
          /\ result'[w] = "InvalidState"
          /\ queue' \in [Threads -> {"none", "address", "condvar"}]
          /\ result' \in [Threads -> {"Success", "TimedOut", "Terminated", "InvalidState"}]
          /\ \A u \in Threads \ {w} : queue'[u] = queue[u] /\ result'[u] = result[u]
      BY <1>2, <3>1 DEF Wake, CondInv, TypeOK
    <3>3. TypeOK' /\ LockInv' /\ PlaceInv'
      BY <1>2, <1>3, <1>5, <2>1, <3>1, <3>2, SignalPlaces
    <3> HIDE DEF m, w
    <3>4. Handed'
      <4> SUFFICES ASSUME NEW u \in Threads, pc[u] = "waiting", queue'[u] = "none",
                          result'[u] = "Success"
                   PROVE  tag'[addr[u]].owner = u
        BY <1>1, <1>4 DEF Handed
      <4>1. queue[u] = "none" /\ result[u] = "Success"
        BY <3>2
      <4>2. addr[u] \in Locks /\ tag[addr[u]].owner = u
        BY <1>4, <4>1 DEF CondInv, TypeOK, WordInv, Handed
      <4> QED
        BY <2>1, <4>2
    <3>5. Told'
      <4> SUFFICES ASSUME NEW u \in Threads, NEW k \in Locks,
                          LockOwner(kt, u) # NoThread, kt.waits[u].lock = k
                   PROVE  tag'[k] = [owner |-> LockOwner(kt, u), mask |-> TRUE]
        BY <1>4, <3>1 DEF Told, LockOwner
      <4>1. tag[k] = [owner |-> LockOwner(kt, u), mask |-> TRUE]
        BY <1>4 DEF CondInv, WordInv, Told
      <4>2. k = m => o = LockOwner(kt, u)
        BY <4>1
      <4> QED
        BY <2>1, <4>1, <4>2
    <3> QED
      BY <2>2, <3>3, <3>4, <3>5 DEF CondInv, WordInv
  <2> QED
    BY <2>3, <2>4
<1> HIDE DEF rest, o, m, w
<1>8. \/ tag[m] = Free /\ tag' = [tag EXCEPT ![m].owner = w] /\ Wake(w, "Success")
         /\ tree' = rest /\ UNCHANGED kt
      \/ /\ tag[m] # Free /\ tag' = [tag EXCEPT ![m].mask = TRUE]
         /\ \/ /\ o \in handles /\ kt' = AddWaiter(kt, o, w, m)
               /\ tree' = Resorted(rest, kt, kt') /\ NoWake
            \/ o \notin handles /\ tree' = rest /\ Wake(w, "InvalidState") /\ UNCHANGED kt
  BY DEF SignalOne, rest, o, m, w
<1> QED
  BY <1>6, <1>7, <1>8

-----------------------------------------------------------------------------
(* The steps together.                                                     *)

LEMMA CondNext == CondInv /\ [Next]_vars => CondInv'
<1> SUFFICES ASSUME CondInv, [Next]_vars
             PROVE  CondInv'
  OBVIOUS
<1>1. CASE UNCHANGED vars
  <2> USE <1>1 DEF vars, guestVars, waitVars, callVars, lifeVars
  <2>1. TypeOK' /\ LockInv' /\ PlaceInv'
    BY DEF CondInv, TypeOK, LockInv, PlaceInv, PlaceOf, Tree
  <2>2. \A m : WordToBe(m)' = WordToBe(m)
    BY DEF WordToBe, Pending, Storing, NextValue
  <2>3. WordInv'
    BY <2>2, StillWords
  <2> QED
    BY <2>1, <2>3 DEF CondInv
<1>2. ASSUME NEW t \in Threads, Guest(t)
      PROVE  CondInv'
  BY <1>2, GuestTryStep, GuestRecheckStep, GuestLockStep, GuestUnlockStep, GuestWaitStep,
     SignalBegins DEF Guest
<1>3. ASSUME NEW t \in Threads, Kernel(t)
      PROVE  CondInv'
  BY <1>3, WaitForAddressReturnStep, WaitForAddressStep, SignalToAddressStep,
     SignalToAddressStoreStep, WaitTerminatingStep, WaitStep, WaitStoreStep, SignalOneStep,
     SignalEndStep, WaitReturnStep DEF Kernel
<1>4. ASSUME NEW t \in Threads, Environment(t)
      PROVE  CondInv'
  BY <1>4, TimeoutStep, SetPriorityStep, RequestTerminateStep, ExitStep, CloseHandleStep,
     FinalizeStep DEF Environment
<1> QED
  BY <1>1, <1>2, <1>3, <1>4 DEF Next

LEMMA CondInvariant == Spec => []CondInv
  BY CondInit, CondNext, PTL DEF Spec

\* A thread that waits is in one place, on a mutex's owner or in m_tree, and a timeout
\* task belongs to a wait for a signal, through every race of a signal, a timeout, a
\* termination and the end of an owner (k_condition_variable.cpp, KThread).
THEOREM WaitersInOnePlace == Spec => []WellFormed
<1>1. CondInv => WellFormed
  <2> SUFFICES ASSUME CondInv PROVE WellFormed
    OBVIOUS
  <2>1. TypeOK /\ TimerOnlyWhileWaiting
    BY DEF CondInv, TypeOK, PlaceInv, PlaceOf, TimerOnlyWhileWaiting
  <2>2. WaitsInOnePlace
    <3> SUFFICES ASSUME NEW t \in Threads
                 PROVE  CASE queue[t] = "none" -> ~(LockOwner(kt, t) # NoThread) /\ ~InTree(t)
                          [] queue[t] = "address" -> LockOwner(kt, t) # NoThread /\ ~InTree(t)
                          [] queue[t] = "condvar" -> (LockOwner(kt, t) # NoThread) # InTree(t)
      BY DEF WaitsInOnePlace
    <3>1. PlaceOf(t) /\ queue[t] \in {"none", "address", "condvar"}
      BY DEF CondInv, PlaceInv, TypeOK
    <3> QED
      BY <3>1 DEF PlaceOf, InTree
  <2> QED
    BY <2>1, <2>2 DEF WellFormed
<1> QED
  BY <1>1, CondInvariant, PTL

\* For any number of mutexes: whoever believes it holds a mutex is named by its word, so
\* that no two do, and a mutex somebody waits for shows the mask that sends its holder's
\* unlock to the kernel, though the guest changes the words while the kernel is at work
\* (SignalToAddress, WaitForAddress, Wait and SignalImpl of KConditionVariable).
THEOREM WordsTellHolders == Spec => [](HolderInWord /\ WaitersInWord)
<1>1. CondInv => HolderInWord /\ WaitersInWord
  <2> SUFFICES ASSUME CondInv, SchedulerFree, NEW w \in Threads, LockOwner(kt, w) # NoThread
               PROVE  tag[kt.waits[w].lock] = [owner |-> LockOwner(kt, w), mask |-> TRUE]
    BY DEF CondInv, WordInv, WaitersInWord
  <2>1. \A s \in Threads : ~Storing(s)
    BY LabelsOf
  <2>2. kt.waits[w].lock \in Locks
    BY DEF CondInv, TypeOK, ThreadTables, LockOwner, NotWaiting
  <2> DEFINE k == kt.waits[w].lock
  <2> HIDE DEF k
  <2>3. WordToBe(k) = [owner |-> LockOwner(kt, w), mask |-> TRUE]
    BY <2>2 DEF CondInv, WordInv, Told, k
  <2>4. WordToBe(k) = tag[k]
    BY <2>1, WordsNow
  <2> QED
    BY <2>3, <2>4 DEF k
<1> QED
  BY <1>1, CondInvariant, PTL

-----------------------------------------------------------------------------
(* The word at cv_key, with one mutex.  A broadcast sorts the tree again behind *)
(* its iterator only when the owner of a signalled thread's mutex waits in the  *)
(* tree itself: with one mutex it cannot, it gave that mutex up to wait.        *)

\* Nobody who waits for a signal, or is about to, has a mutex; who is about to has set
\* the word at cv_key; and Signal's iterator is at the front of the tree.
FlagInv ==
    /\ \A u \in Threads : u \in ToSet(tree) \/ pc[u] = "waitStore" =>
          \A m \in Locks : WordToBe(m).owner # u
    /\ \A u \in Threads : pc[u] = "waitStore" => cvFlag = 1
    /\ \A u \in Threads : pc[u] = "signal" => local.it = Begin(tree)
    /\ WaitersInFlag

LEMMA EmptyTree ==
    ASSUME NEW q, Tree(q)
    PROVE  q = <<>> <=> ToSet(q) = {}
  BY Iterator, ToSetIs DEF Tree, ToSet

LEMMA FlagInit == Init => FlagInv
<1> SUFFICES ASSUME Init PROVE FlagInv
  OBVIOUS
<1>1. tree = <<>> /\ \A u \in Threads : pc[u] = "idle"
  BY DEF Init
<1>2. ToSet(tree) = {}
  BY <1>1 DEF ToSet
<1> QED
  BY <1>1, <1>2 DEF FlagInv, WaitersInFlag

\* A step that adds nobody to the tree but who was about to go there, gives no mutex to
\* anybody of it, and leaves the word at cv_key, and Signal's iterator, alone.
LEMMA FlagKept ==
    ASSUME CondInv, CondInv', FlagInv, cvFlag' = cvFlag,
           \A u \in Threads :
               /\ u \in ToSet(tree') => u \in ToSet(tree) \/ pc[u] = "waitStore"
               /\ pc'[u] = "waitStore" => pc[u] = "waitStore"
               /\ pc'[u] = "signal" => pc[u] = "signal" /\ local' = local /\ tree' = tree
               /\ u \in ToSet(tree) \/ pc[u] = "waitStore" =>
                     \A m \in Locks : WordToBe(m)'.owner = u => WordToBe(m).owner = u
    PROVE  FlagInv'
<1>1. \A u \in Threads : u \in ToSet(tree') \/ pc'[u] = "waitStore" =>
          \A m \in Locks : WordToBe(m)'.owner # u
  BY DEF FlagInv
<1>2. \A u \in Threads : pc'[u] = "waitStore" => cvFlag' = 1
  BY DEF FlagInv
<1>3. \A u \in Threads : pc'[u] = "signal" => local'.it = Begin(tree')
  BY DEF FlagInv
<1>4. WaitersInFlag'
  <2> SUFFICES ASSUME tree' # <<>> PROVE cvFlag = 1
    BY DEF WaitersInFlag
  <2>1. PICK u \in ToSet(tree') : TRUE
    BY EmptyTree DEF CondInv, PlaceInv
  <2>2. u \in Threads
    BY ToSetIs DEF CondInv, PlaceInv, Tree
  <2>3. CASE pc[u] = "waitStore"
    BY <2>2, <2>3 DEF FlagInv
  <2>4. CASE u \in ToSet(tree)
    BY <2>4, EmptyTree DEF FlagInv, WaitersInFlag, CondInv, PlaceInv
  <2> QED
    BY <2>1, <2>2, <2>3, <2>4
<1> QED
  BY <1>1, <1>2, <1>3, <1>4 DEF FlagInv

\* A thread that does not wait, outside the kernel: a word it writes names it or nobody.
LEMMA FlagMove ==
    ASSUME CondInv, CondInv', FlagInv, NEW t \in Threads, NEW l \in Quiet,
           pc[t] \notin {"unlockStore", "waitStore", "signal"}, queue[t] = "none",
           pc' = [pc EXCEPT ![t] = l], UNCHANGED <<kt, tree, timed, queue, schedLock, local>>,
           \A u \in Threads \ {t} : addr'[u] = addr[u] /\ result'[u] = result[u],
           cvFlag' = cvFlag,
           \A m \in Locks : tag'[m].owner \in {tag[m].owner, t, NoThread}
    PROVE  FlagInv'
<1>1. pc'[t] = l /\ \A u \in Threads \ {t} : pc'[u] = pc[u]
  BY DEF CondInv, TypeOK
<1>2. \A m \in Locks : WordToBe(m)' = IF Pending(m) THEN WordToBe(m) ELSE tag'[m]
  BY QuietMove
<1>3. \A m \in Locks : WordToBe(m)'.owner \in {WordToBe(m).owner, t, NoThread}
  BY <1>2 DEF WordToBe
<1>4. t \notin ToSet(tree)
  BY DEF CondInv, PlaceInv, PlaceOf
<1>5. \A u \in Threads : u \in ToSet(tree) \/ pc[u] = "waitStore" =>
          \A m \in Locks : WordToBe(m)'.owner = u => WordToBe(m).owner = u
  BY <1>3, <1>4, WaitersAssumption
<1>6. \A u \in Threads : /\ pc'[u] = "waitStore" => pc[u] = "waitStore"
                         /\ pc'[u] = "signal" => pc[u] = "signal"
  BY <1>1 DEF Quiet
<1> QED
  BY <1>5, <1>6, FlagKept

LEMMA FlagGuest ==
    ASSUME CondInv, CondInv', FlagInv, NEW t \in Threads,
           \/ GuestTry(t) \/ GuestRecheck(t)
           \/ \E m \in Locks : GuestLock(t, m) \/ GuestUnlock(t, m) \/ GuestWait(t, m)
    PROVE  FlagInv'
<1> USE DEF At, Goto, guestVars, waitVars, lifeVars
<1>1. /\ addr[t] \in Locks /\ tag \in [Locks -> Word]
      /\ addr \in [Threads -> Locks] /\ result' = result
      /\ UNCHANGED <<kt, tree, timed, queue, schedLock, local, cvFlag>>
  BY DEF CondInv, TypeOK, GuestTry, GuestRecheck, GuestLock, GuestUnlock, GuestWait
<1>2. PICK l \in {"idle", "lock", "arbitrate", "unlock", "wait"} : pc' = [pc EXCEPT ![t] = l]
  <2>1. CASE GuestTry(t)
    BY <2>1 DEF GuestTry
  <2>2. CASE GuestRecheck(t)
    BY <2>2 DEF GuestRecheck
  <2>3. ASSUME NEW m \in Locks, GuestLock(t, m) \/ GuestUnlock(t, m) \/ GuestWait(t, m)
        PROVE  \E l \in {"idle", "lock", "arbitrate", "unlock", "wait"} :
                  pc' = [pc EXCEPT ![t] = l]
    <3>1. pc = [pc EXCEPT ![t] = pc[t]]
      BY DEF CondInv, TypeOK
    <3> QED
      BY <2>3, <3>1 DEF GuestLock, GuestUnlock, GuestWait
  <2> QED
    BY <2>1, <2>2, <2>3
<1>3. pc[t] \in {"idle", "lock", "recheck"} /\ queue[t] = "none"
  BY DEF GuestTry, GuestRecheck, GuestLock, GuestUnlock, GuestWait, CondInv, PlaceInv,
     PlaceOf, TypeOK
<1>4. \A u \in Threads \ {t} : addr'[u] = addr[u]
  BY <1>1 DEF GuestTry, GuestRecheck, GuestLock, GuestUnlock, GuestWait
<1>5. \A m \in Locks : tag'[m].owner \in {tag[m].owner, t, NoThread}
  <2>1. CASE GuestTry(t)
    BY <1>1, <2>1 DEF GuestTry, Word
  <2>2. CASE GuestRecheck(t)
    BY <1>1, <2>2 DEF GuestRecheck, Word
  <2>3. ASSUME NEW m \in Locks, GuestLock(t, m)
        PROVE  tag' = tag
    BY <2>3 DEF GuestLock
  <2>4. ASSUME NEW m \in Locks, GuestUnlock(t, m)
        PROVE  \A n \in Locks : tag'[n].owner \in {tag[n].owner, t, NoThread}
    BY <1>1, <2>4 DEF GuestUnlock, Free, Word
  <2>5. ASSUME NEW m \in Locks, GuestWait(t, m)
        PROVE  tag' = tag
    BY <2>5 DEF GuestWait
  <2> QED
    BY <2>1, <2>2, <2>3, <2>4, <2>5
<1>6. l \in Quiet
  BY DEF Quiet, Labels
<1> HIDE DEF At, Goto, guestVars, waitVars, lifeVars
<1> QED
  BY <1>1, <1>2, <1>3, <1>4, <1>5, <1>6, FlagMove

LEMMA FlagReturn ==
    ASSUME CondInv, CondInv', FlagInv, NEW t \in Threads,
           \/ WaitForAddressReturn(t) \/ WaitTerminating(t) \/ WaitReturn(t) \/ Exit(t)
    PROVE  FlagInv'
<1> USE DEF At, Goto, guestVars, waitVars, lifeVars, WaitForAddressReturn, WaitTerminating,
            WaitReturn, Exit
<1>1. UNCHANGED <<kt, tree, timed, queue, schedLock, local, cvFlag, tag, addr>>
  OBVIOUS
<1>2. PICK l \in Labels : pc' = [pc EXCEPT ![t] = l] /\ l \in Quiet
  BY DEF Quiet, Labels
<1>3. pc[t] \notin {"unlockStore", "waitStore", "signal"} /\ queue[t] = "none"
  BY DEF CondInv, PlaceInv, PlaceOf, TypeOK
<1>4. \A u \in Threads \ {t} : result'[u] = result[u]
  BY DEF CondInv, TypeOK
<1> HIDE DEF At, Goto, guestVars, waitVars, lifeVars, WaitForAddressReturn, WaitTerminating,
             WaitReturn, Exit
<1> QED
  BY <1>1, <1>2, <1>3, <1>4, FlagMove

\* While the scheduler lock is free no word is about to be written.
LEMMA FreeWords ==
    ASSUME CondInv, SchedulerFree, tag' = tag,
           \A u \in Threads : Storing(u)' => Storing(u)
    PROVE  \A m \in Locks : WordToBe(m)' = WordToBe(m)
<1>1. \A u \in Threads : ~Storing(u) /\ ~Storing(u)'
  BY LabelsOf
<1> QED
  BY <1>1 DEF WordToBe, Pending

\* Nor is anybody in Signal: what changes waits and priorities then keeps the tree's threads.
LEMMA FlagFree ==
    ASSUME CondInv, CondInv', FlagInv, SchedulerFree, UNCHANGED <<tag, cvFlag>>,
           ToSet(tree') \subseteq ToSet(tree), NEW t \in Threads, NEW l \in Labels,
           l \notin {"unlockStore", "waitStore", "signal"},
           pc' = pc \/ pc' = [pc EXCEPT ![t] = l]
    PROVE  FlagInv'
<1>1. \A u \in Threads : ~Storing(u) /\ pc[u] # "signal"
  BY LabelsOf
<1>2. \A u \in Threads : pc'[u] \in {pc[u], l}
  BY DEF CondInv, TypeOK
<1>3. \A m \in Locks : WordToBe(m)' = WordToBe(m)
  BY <1>2, FreeWords DEF Storing
<1> QED
  BY <1>1, <1>2, <1>3, FlagKept DEF Storing

LEMMA FlagEnvironment ==
    ASSUME CondInv, CondInv', FlagInv, NEW t \in Threads, Environment(t) \/ WaitForAddress(t)
    PROVE  FlagInv'
<1> USE DEF guestVars, callVars, waitVars, lifeVars
<1>1. Tree(tree) /\ kt \in ThreadTables
  BY DEF CondInv, PlaceInv, TypeOK
<1>2. "dead" \in Labels \ {"unlockStore", "waitStore", "signal"}
  BY DEF Labels
<1>3. CASE Timeout(t)
  <2>1. Tree(Without(tree, t)) /\ ToSet(Without(tree, t)) \subseteq ToSet(tree)
    BY <1>1, WithoutTree
  <2>2. tree' = Resorted(Without(tree, t), kt, kt')
    BY <1>3 DEF Timeout, CancelWait
  <2>3. ToSet(tree') \subseteq ToSet(tree)
    BY <2>1, <2>2, ResortedTree
  <2> QED
    BY <1>2, <1>3, <2>3, FlagFree DEF Timeout
<1>4. ASSUME NEW p \in GuestPriorities, SetPriority(t, p)
      PROVE  FlagInv'
  <2>1. ToSet(tree') \subseteq ToSet(tree)
    BY <1>1, <1>4, ResortedTree DEF SetPriority
  <2> QED
    BY <1>2, <1>4, <2>1, FlagFree DEF SetPriority
<1>5. CASE RequestTerminate(t)
  <2> DEFINE raised == IncreaseBasePriority(kt, t, TerminatingPriority)
             sorted == Resorted(tree, kt, raised)
  <2>1. Tree(sorted) /\ ToSet(sorted) = ToSet(tree)
    BY <1>1, ResortedTree
  <2>2. tree' = sorted \/ tree' = Resorted(Without(sorted, t), raised, kt')
    BY <1>5 DEF RequestTerminate, CancelWait
  <2> HIDE DEF sorted, raised
  <2>3. Tree(Without(sorted, t)) /\ ToSet(Without(sorted, t)) \subseteq ToSet(tree)
    BY <2>1, WithoutTree
  <2>4. ToSet(tree') \subseteq ToSet(tree)
    BY <2>1, <2>2, <2>3, ResortedTree
  <2> QED
    BY <1>2, <1>5, <2>4, FlagFree DEF RequestTerminate
<1>6. CASE Exit(t)
  BY <1>6, FlagReturn
<1>7. CASE CloseHandle(t)
  <2>1. UNCHANGED <<tag, cvFlag, tree, pc, local, addr>>
    BY <1>7 DEF CloseHandle
  <2>2. \A m \in Locks : WordToBe(m)' = WordToBe(m)
    BY <2>1 DEF WordToBe, Pending, Storing, NextValue
  <2> QED
    BY <2>1, <2>2, FlagKept
<1>8. CASE Finalize(t)
  <2>1. /\ SchedulerFree /\ UNCHANGED <<tag, cvFlag, tree>> /\ "gone" \in Labels
        /\ pc' = [pc EXCEPT ![t] = "gone"]
    BY <1>8 DEF Finalize, Goto, Labels
  <2> QED
    BY <2>1, FlagFree
<1>9. CASE WaitForAddress(t)
  <2>1. /\ SchedulerFree /\ UNCHANGED <<tag, cvFlag>> /\ "waiting" \in Labels
        /\ pc' = [pc EXCEPT ![t] = "waiting"] /\ tree' = Resorted(tree, kt, kt')
    BY <1>9 DEF WaitForAddress, Goto, Labels
  <2>2. ToSet(tree') \subseteq ToSet(tree)
    BY <1>1, <2>1, ResortedTree
  <2> QED
    BY <2>1, <2>2, FlagFree
<1> QED
  BY <1>3, <1>4, <1>5, <1>6, <1>7, <1>8, <1>9 DEF Environment

\* The first halves of ArbitrateUnlock and Wait name an owner that does not wait for a
\* signal; with one mutex the thread that is to wait has no other.
LEMMA FlagPassOn ==
    ASSUME \A m, n \in Locks : m = n, CondInv, CondInv', FlagInv, NEW t \in Threads,
           SignalToAddress(t) \/ Wait(t)
    PROVE  FlagInv'
<1>1. PICK l \in {"unlockStore", "waitStore"} :
         /\ pc' = [pc EXCEPT ![t] = l]
         /\ l = "unlockStore" => cvFlag' = cvFlag
         /\ l = "waitStore" => cvFlag' = 1
  BY DEF SignalToAddress, Wait, Goto, guestVars
<1>2. /\ pc[t] \in {"unlock", "wait"} /\ SchedulerFree /\ PassOn(t) /\ schedLock' = t
      /\ UNCHANGED <<tag, addr, held>>
  BY DEF SignalToAddress, Wait, At, guestVars
<1>3. ToSet(tree') = ToSet(tree) /\ local'.next # t /\ local'.next \notin ToSet(tree)
  BY <1>1, <1>2, PassOnStep
<1>4. \A u \in Threads : ~Storing(u) /\ pc[u] # "signal"
  BY <1>2, LabelsOf
<1>5. pc'[t] = l /\ \A u \in Threads \ {t} : pc'[u] = pc[u]
  BY <1>1 DEF CondInv, TypeOK
<1>6. \A m \in Locks : WordToBe(m)' = NextValue'
  <2>1. addr[t] \in Locks /\ addr' = addr
    BY <1>2 DEF CondInv, TypeOK
  <2>2. Storing(t)'
    BY <1>5 DEF Storing
  <2>3. \A m \in Locks : addr'[t] = m
    BY <2>1
  <2>4. \A m \in Locks : Pending(m)'
    BY <2>2, <2>3 DEF Pending
  <2> QED
    BY <2>4 DEF WordToBe
<1>7. \A m \in Locks : WordToBe(m)'.owner = local'.next
  BY <1>6 DEF NextValue
<1>8. \A u \in Threads : u \in ToSet(tree') \/ pc'[u] = "waitStore" =>
          \A m \in Locks : WordToBe(m)'.owner # u
  BY <1>3, <1>4, <1>5, <1>7 DEF Storing
<1>9. \A u \in Threads : /\ pc'[u] = "waitStore" => cvFlag' = 1
                         /\ pc'[u] # "signal"
  BY <1>1, <1>4, <1>5 DEF Storing
<1>10. WaitersInFlag'
  <2>1. tree' # <<>> => tree # <<>>
    BY <1>3, EmptyTree DEF CondInv, PlaceInv
  <2>2. cvFlag' \in {cvFlag, 1}
    BY <1>1
  <2> QED
    BY <2>1, <2>2 DEF FlagInv, WaitersInFlag
<1> QED
  BY <1>8, <1>9, <1>10 DEF FlagInv

LEMMA FlagStore ==
    ASSUME CondInv, CondInv', FlagInv, NEW t \in Threads,
           SignalToAddressStore(t) \/ \E timeout \in Timeouts : WaitStore(t, timeout)
    PROVE  FlagInv'
<1> USE DEF At, Goto, waitVars, lifeVars
<1>1. /\ Storing(t) /\ queue[t] = "none" /\ cvFlag' = cvFlag
      /\ tag' = [tag EXCEPT ![addr[t]] = NextValue] /\ schedLock' = NoThread
      /\ UNCHANGED <<addr, held, kt, result>>
  BY DEF SignalToAddressStore, WaitStore, Storing, CondInv, PlaceInv, PlaceOf, TypeOK
<1>2. PICK l \in {"dying", "idle", "lock", "waiting"} : pc' = [pc EXCEPT ![t] = l]
  BY DEF SignalToAddressStore, WaitStore
<1>3. pc'[t] = l /\ \A u \in Threads \ {t} : pc'[u] = pc[u]
  BY <1>2 DEF CondInv, TypeOK
<1>4. /\ \A u \in Threads \ {t} : queue'[u] = queue[u]
      /\ l = "waiting" => queue'[t] # "none"
      /\ ToSet(tree') \subseteq ToSet(tree) \cup {t}
      /\ tree' = tree \/ pc[t] = "waitStore"
  <2>1. CASE SignalToAddressStore(t)
    BY <1>3, <2>1 DEF SignalToAddressStore
  <2>2. ASSUME NEW timeout \in Timeouts, WaitStore(t, timeout), timeout = "zero"
        PROVE  l = "lock" /\ queue' = queue /\ tree' = tree /\ pc[t] = "waitStore"
    BY <1>3, <2>2 DEF WaitStore, CondInv, TypeOK
  <2>3. ASSUME NEW timeout \in Timeouts, WaitStore(t, timeout), timeout # "zero"
        PROVE  /\ queue' = [queue EXCEPT ![t] = "condvar"] /\ tree' = Inserted(tree, kt, t)
               /\ pc[t] = "waitStore"
    BY <2>3 DEF WaitStore
  <2>4. queue \in [Threads -> {"none", "address", "condvar"}]
    BY DEF CondInv, TypeOK
  <2>5. Tree(tree) /\ t \notin ToSet(tree)
    BY <1>1 DEF CondInv, PlaceInv, PlaceOf
  <2>6. ToSet(Inserted(tree, kt, t)) = ToSet(tree) \cup {t}
    BY <2>5, InsertedTree
  <2>7. CASE \E timeout \in Timeouts : WaitStore(t, timeout)
    BY <2>2, <2>3, <2>4, <2>6, <2>7
  <2> QED
    BY <2>1, <2>7
<1>5. \A m \in Locks : WordToBe(m)' = WordToBe(m)
  BY <1>1, <1>2, <1>4, StoreWords
<1>6. \A u \in Threads : pc[u] # "signal"
  BY <1>1 DEF CondInv, LockInv, Storing
<1>7. \A u \in Threads :
         /\ u \in ToSet(tree') => u \in ToSet(tree) \/ pc[u] = "waitStore"
         /\ pc'[u] = "waitStore" => pc[u] = "waitStore"
         /\ pc'[u] # "signal"
  BY <1>3, <1>4, <1>6
<1> QED
  BY <1>1, <1>5, <1>7, FlagKept

LEMMA FlagSignalBegins ==
    ASSUME CondInv, CondInv', FlagInv, NEW t \in Threads, NEW count \in Counts,
           Signal(t, count)
    PROVE  FlagInv'
<1> USE DEF Signal, At, Goto, guestVars, waitVars
<1>1. pc'[t] = "signal" /\ \A u \in Threads \ {t} : pc'[u] = pc[u]
  BY DEF CondInv, TypeOK
<1>2. tree' = tree /\ cvFlag' = cvFlag /\ tag' = tag /\ local'.it = Begin(tree)
  BY DEF NoLocal
<1>3. \A m \in Locks : WordToBe(m)' = WordToBe(m)
  BY <1>1, <1>2, FreeWords DEF Storing
<1>4. \A u \in Threads : pc'[u] = "waitStore" => pc[u] = "waitStore"
  BY <1>1
<1> QED
  BY <1>2, <1>3, <1>4 DEF FlagInv, WaitersInFlag

\* Whoever inherits a priority from a signalled thread is named by a word, and so is not in
\* the tree: the tree loses its first thread and is not sorted again.
LEMMA FlagSignalOne ==
    ASSUME CondInv, CondInv', FlagInv, NEW t \in Threads, SignalOne(t)
    PROVE  FlagInv'
<1> DEFINE w == local.it
           m == addr[w]
           o == tag[m].owner
           rest == Without(tree, w)
<1>1. /\ pc[t] = "signal" /\ w # NoThread /\ UNCHANGED <<pc, addr, cvFlag>>
      /\ local' = [local EXCEPT !.it = After(tree, w),
                                !.left = IF local.more THEN @ ELSE @ - 1]
      /\ \/ tag[m] = Free /\ tag' = [tag EXCEPT ![m].owner = w] /\ tree' = rest
         \/ /\ tag' = [tag EXCEPT ![m].mask = TRUE]
            /\ \/ /\ o \in handles /\ kt' = AddWaiter(kt, o, w, m)
                  /\ tree' = Resorted(rest, kt, kt')
               \/ tree' = rest
  BY DEF SignalOne, At
<1>2. /\ w \in ToSet(tree) /\ w \in Threads /\ Tree(tree) /\ m \in Locks
      /\ tag \in [Locks -> Word] /\ kt \in ThreadTables /\ handles \subseteq Threads
  BY <1>1, ToSetIs DEF CondInv, PlaceInv, PlaceOf, Tree, TypeOK
<1>3. \A n : WordToBe(n)' = tag'[n] /\ WordToBe(n) = tag[n]
  <2>1. \A u \in Threads : ~Storing(u)' /\ ~Storing(u)
    BY <1>1, InSignal DEF Storing
  <2> QED
    BY <2>1 DEF Pending, WordToBe
<1>4. Tree(rest) /\ ToSet(rest) = ToSet(tree) \ {w}
  BY <1>2, WithoutTree
<1>5. local'.it = After(tree, w)
  BY <1>1 DEF CondInv, TypeOK
<1>6. w = Begin(tree)
  BY <1>1 DEF FlagInv
<1> HIDE DEF w, m, o, rest
<1>7. \A n \in Locks : tag'[n].owner \in {tag[n].owner, w}
  BY <1>1, <1>2 DEF Word
<1>8. ASSUME o \in handles, kt' = AddWaiter(kt, o, w, m)
      PROVE  \A u \in Threads : kt'.prio[u] # kt.prio[u] =>
                \E x \in Threads : LockOwner(kt', x) = u
  <2>1. kt \in ThreadTables /\ o \in Threads /\ w \in Threads /\ m \in Locks
    BY <1>2, <1>8
  <2> QED
    BY <1>8, <2>1, AddWaiterInherits
<1>9. tree' = rest
  <2> SUFFICES ASSUME o \in handles, kt' = AddWaiter(kt, o, w, m),
                      tree' = Resorted(rest, kt, kt'), tag' = [tag EXCEPT ![m].mask = TRUE]
               PROVE  tree' = rest
    BY <1>1
  <2>1. \A n \in Locks : tag'[n].owner = tag[n].owner
    BY <1>2 DEF Word
  <2>2. ASSUME NEW u \in ToSet(rest)
        PROVE  kt'.prio[u] = kt.prio[u]
    <3> SUFFICES ASSUME kt'.prio[u] # kt.prio[u] PROVE FALSE
      OBVIOUS
    <3>1. u \in Threads /\ u \in ToSet(tree)
      BY <1>2, <1>4, ToSetIs DEF Tree
    <3>2. PICK x \in Threads : LockOwner(kt', x) = u
      BY <1>8, <3>1
    <3>3. LockOwner(kt', x) # NoThread
      BY <3>1, <3>2, WaitersAssumption
    <3>4. PICK n \in Locks : kt'.waits[x].lock = n
      BY <3>3 DEF CondInv, TypeOK, ThreadTables, LockOwner, NotWaiting
    <3>5. WordToBe(n)' = [owner |-> LockOwner(kt', x), mask |-> TRUE]
      BY <3>3, <3>4 DEF CondInv, WordInv, Told
    <3>6. tag[n].owner = u
      BY <1>3, <2>1, <3>2, <3>5
    <3>7. WordToBe(n).owner # u
      BY <3>1 DEF FlagInv
    <3> QED
      BY <1>3, <3>6, <3>7
  <2> QED
    BY <1>4, <2>2, ResortedTree
<1>10. \A u \in Threads : u \in ToSet(tree') \/ pc'[u] = "waitStore" =>
          \A n \in Locks : WordToBe(n)'.owner # u
  <2> SUFFICES ASSUME NEW u \in Threads, u \in ToSet(tree') \/ pc'[u] = "waitStore",
                      NEW n \in Locks
               PROVE  tag'[n].owner # u
    BY <1>3
  <2>1. u \in ToSet(tree) /\ u # w
    <3>1. pc'[u] # "waitStore"
      BY <1>1, InSignal DEF Storing
    <3> QED
      BY <1>4, <1>9, <3>1
  <2>2. tag[n].owner # u
    BY <1>3, <2>1 DEF FlagInv
  <2> QED
    BY <1>7, <2>1, <2>2
<1>11. \A u \in Threads : pc'[u] = "waitStore" => cvFlag' = 1
  BY <1>1 DEF FlagInv
<1>12. local'.it = Begin(tree')
  BY <1>2, <1>5, <1>6, <1>9, Iterator DEF rest
<1>13. WaitersInFlag'
  <2>1. tree # <<>>
    BY <1>2, EmptyTree
  <2> QED
    BY <1>1, <2>1 DEF FlagInv, WaitersInFlag
<1> QED
  BY <1>10, <1>11, <1>12, <1>13 DEF FlagInv

LEMMA FlagSignalEnd ==
    ASSUME CondInv, CondInv', FlagInv, NEW t \in Threads, SignalEnd(t)
    PROVE  FlagInv'
<1> USE DEF SignalEnd, At, Goto, waitVars
<1>1. pc[t] = "signal" /\ tree' = tree /\ tag' = tag /\ cvFlag' = FlagAfterSignal(local.it)
  OBVIOUS
<1>2. pc'[t] \in {"dying", "idle"} /\ \A u \in Threads \ {t} : pc'[u] = pc[u]
  BY DEF CondInv, TypeOK
<1>3. \A u \in Threads : ~Storing(u) /\ pc'[u] # "signal" /\ ~Storing(u)'
  BY <1>1, <1>2, InSignal DEF Storing
<1>4. \A m \in Locks : WordToBe(m)' = WordToBe(m)
  BY <1>1, <1>3 DEF Pending, WordToBe
<1>5. \A u \in Threads : pc'[u] # "waitStore"
  BY <1>3 DEF Storing
<1>6. WaitersInFlag'
  <2>1. CASE local.it = NoThread
    <3>1. Begin(tree) = NoThread
      BY <1>1, <2>1 DEF FlagInv
    <3>2. tree = <<>>
      BY <3>1, Iterator DEF CondInv, PlaceInv
    <3> QED
      BY <1>1, <3>2 DEF WaitersInFlag
  <2>2. CASE local.it # NoThread
    BY <1>1, <2>2 DEF FlagAfterSignal, FlagInv, WaitersInFlag
  <2> QED
    BY <2>1, <2>2
<1> QED
  BY <1>1, <1>3, <1>4, <1>5, <1>6 DEF FlagInv

LEMMA FlagNext ==
    ASSUME \A m, n \in Locks : m = n
    PROVE  CondInv /\ CondInv' /\ FlagInv /\ [Next]_vars => FlagInv'
<1> SUFFICES ASSUME CondInv, CondInv', FlagInv, [Next]_vars
             PROVE  FlagInv'
  OBVIOUS
<1>1. CASE UNCHANGED vars
  <2> USE <1>1 DEF vars, guestVars, waitVars, callVars, lifeVars
  <2>1. \A m \in Locks : WordToBe(m)' = WordToBe(m)
    BY DEF WordToBe, Pending, Storing, NextValue
  <2> QED
    BY <2>1, FlagKept
<1>2. ASSUME NEW t \in Threads, Guest(t)
      PROVE  FlagInv'
  BY <1>2, FlagGuest, FlagSignalBegins DEF Guest
<1>3. ASSUME NEW t \in Threads, Kernel(t)
      PROVE  FlagInv'
  BY <1>3, FlagReturn, FlagEnvironment, FlagPassOn, FlagStore, FlagSignalOne, FlagSignalEnd
     DEF Kernel
<1>4. ASSUME NEW t \in Threads, Environment(t)
      PROVE  FlagInv'
  BY <1>4, FlagEnvironment
<1> QED
  BY <1>1, <1>2, <1>3, <1>4 DEF Next

\* With one mutex all the words are exact, the one at cv_key too: it is 1 while anybody
\* waits for a signal, so that no guest does without the call of Signal wrongly, and a
\* broadcast, of however many threads, misses none (Signal's iterator and the flag it
\* clears, k_condition_variable.cpp).  With two mutexes Signal clears the flag too early.
THEOREM WordsExactWithOneMutex ==
    ASSUME \A m, n \in Locks : m = n
    PROVE  Spec => []WordsExact
<1>1. CondInv /\ CondInv' /\ FlagInv /\ [Next]_vars => FlagInv'
  BY FlagNext
<1>2. FlagInv => WaitersInFlag
  BY DEF FlagInv
<1>3. HolderInWord /\ WaitersInWord /\ WaitersInFlag => WordsExact
  BY DEF WordsExact
<1> QED
  BY <1>1, <1>2, <1>3, FlagInit, CondInvariant, WordsTellHolders, PTL DEF Spec

-----------------------------------------------------------------------------
(* Each guest mutex is a lock.                                             *)

\* The next owner of a mutex whose word is to be written waits for it still.
NextWaits ==
    \A t \in Threads : Storing(t) /\ local.next # NoThread =>
        local.next \in Threads /\ pc[local.next] = "waiting" /\ addr[local.next] = addr[t]

LEMMA MutexInit == Init => \A m \in Locks : Mutex(m)!Init
  BY DEF Init, Mutex!Init, Wanting, Inside, Free

\* What the lock's guarantees are about stays as it was, or somebody stops wanting it.
LEMMA MutexStill ==
    ASSUME NEW m \in Locks, tag'[m].owner = tag[m].owner,
           Wanting(m)' \subseteq Wanting(m), Inside(m)' = Inside(m)
    PROVE  [Mutex(m)!Next]_(Mutex(m)!vars)
  BY DEF Mutex!Next, Mutex!GiveUp

Wants == {"lock", "arbitrate", "recheck", "waiting"}

\* Who is inside a mutex once a thread has taken one, and once it has left one.
LEMMA Took ==
    ASSUME CondInv, NEW t \in Threads, NEW n \in Locks,
           held' = [held EXCEPT ![t] = @ \cup {n}], NEW m \in Locks
    PROVE  /\ m = n => Inside(m)' = Inside(m) \cup {t}
           /\ m # n => Inside(m)' = Inside(m)
<1>1. held'[t] = held[t] \cup {n} /\ \A u \in Threads \ {t} : held'[u] = held[u]
  BY DEF CondInv, TypeOK
<1> QED
  BY <1>1 DEF Inside

LEMMA Left ==
    ASSUME CondInv, NEW t \in Threads, NEW n \in Locks,
           held' = [held EXCEPT ![t] = @ \ {n}], NEW m \in Locks
    PROVE  /\ m = n => Inside(m)' = Inside(m) \ {t}
           /\ m # n => Inside(m)' = Inside(m)
<1>1. held'[t] = held[t] \ {n} /\ \A u \in Threads \ {t} : held'[u] = held[u]
  BY DEF CondInv, TypeOK
<1> QED
  BY <1>1 DEF Inside

\* A thread that goes on without taking, giving up or coming to want a mutex.
LEMMA MutexQuiet ==
    ASSUME CondInv, NEW t \in Threads, NEW l \in Labels,
           pc' = [pc EXCEPT ![t] = l] \/ pc' = pc, l \in Wants => pc[t] \in Wants,
           UNCHANGED <<addr, held>>, NEW m \in Locks, tag'[m].owner = tag[m].owner
    PROVE  [Mutex(m)!Next]_(Mutex(m)!vars)
<1>1. Inside(m)' = Inside(m)
  BY DEF Inside
<1>2. CASE pc' = pc
  <2>1. Wanting(m)' = Wanting(m)
    BY <1>2 DEF Wanting
  <2> QED
    BY <1>1, <2>1, MutexStill
<1>3. CASE pc' = [pc EXCEPT ![t] = l]
  <2>1. pc'[t] = l /\ \A u \in Threads \ {t} : pc'[u] = pc[u]
    BY <1>3 DEF CondInv, TypeOK
  <2>2. Wanting(m)' \subseteq Wanting(m)
    BY <2>1 DEF Wanting, Wants
  <2> QED
    BY <1>1, <2>2, MutexStill
<1> QED
  BY <1>2, <1>3

LEMMA MutexGuestLock ==
    ASSUME CondInv, NEW t \in Threads, NEW n \in Locks, GuestLock(t, n), NEW m \in Locks
    PROVE  [Mutex(m)!Next]_(Mutex(m)!vars)
<1>1. /\ pc[t] = "idle" /\ pc' = [pc EXCEPT ![t] = "lock"] /\ tag' = tag
      /\ addr' = [addr EXCEPT ![t] = n] /\ held' = held /\ "lock" \in Labels
  BY DEF GuestLock, At, Goto, guestVars, Labels
<1>2. addr'[t] = n /\ \A u \in Threads \ {t} : addr'[u] = addr[u]
  BY <1>1 DEF CondInv, TypeOK
<1>3. Inside(m)' = Inside(m) /\ pc'[t] = "lock" /\ \A u \in Threads \ {t} : pc'[u] = pc[u]
  BY <1>1 DEF Inside, CondInv, TypeOK
<1>4. CASE n = m /\ tag[m].owner # t
  <2>1. Wanting(m)' = Wanting(m) \cup {t}
    BY <1>1, <1>2, <1>3, <1>4 DEF Wanting
  <2>2. t \notin Wanting(m)
    BY <1>1 DEF Wanting
  <2> QED
    BY <1>1, <1>3, <1>4, <2>1, <2>2 DEF Mutex!Next, Mutex!Want
<1>5. CASE ~(n = m /\ tag[m].owner # t)
  <2>1. Wanting(m)' \subseteq Wanting(m)
    BY <1>1, <1>2, <1>3, <1>5 DEF Wanting
  <2> QED
    BY <1>1, <1>3, <2>1, MutexStill
<1> QED
  BY <1>4, <1>5

LEMMA MutexGuestTry ==
    ASSUME CondInv, NEW t \in Threads, GuestTry(t), NEW m \in Locks
    PROVE  [Mutex(m)!Next]_(Mutex(m)!vars)
<1> DEFINE n == addr[t]
<1>1. n \in Locks /\ pc[t] = "lock" /\ addr' = addr
  BY DEF GuestTry, At, CondInv, TypeOK
<1>2. CASE tag[n] = Free
  <2>1. /\ tag' = [tag EXCEPT ![n].owner = t] /\ held' = [held EXCEPT ![t] = @ \cup {n}]
        /\ pc' = [pc EXCEPT ![t] = "idle"] /\ "idle" \in Labels
    BY <1>2 DEF GuestTry, Goto, Labels
  <2>2. /\ tag'[n].owner = t /\ tag[n].owner = NoThread
        /\ \A k \in Locks \ {n} : tag'[k] = tag[k]
    BY <1>1, <1>2, <2>1 DEF CondInv, TypeOK, Word, Free
  <2>3. /\ m = n => Inside(m)' = Inside(m) \cup {t}
        /\ m # n => Inside(m)' = Inside(m)
    BY <1>1, <2>1, Took
  <2>4. pc'[t] = "idle" /\ \A u \in Threads \ {t} : pc'[u] = pc[u]
    BY <2>1 DEF CondInv, TypeOK
  <2>5. CASE m = n
    <3>1. t \in Wanting(m)
      BY <1>1, <2>2, <2>5, WaitersAssumption DEF Wanting
    <3>2. Wanting(m)' = Wanting(m) \ {t}
      BY <1>1, <2>2, <2>4, <2>5, WaitersAssumption DEF Wanting
    <3>3. Inside(m)' = Inside(m) \cup {t}
      BY <2>3, <2>5
    <3> QED
      BY <2>2, <2>5, <3>1, <3>2, <3>3 DEF Mutex!Next, Mutex!Acquire
  <2>6. CASE m # n
    <3>1. Wanting(m)' \subseteq Wanting(m)
      BY <1>1, <2>2, <2>4, <2>6 DEF Wanting
    <3> QED
      BY <2>2, <2>3, <2>6, <3>1, MutexStill
  <2> QED
    BY <2>5, <2>6
<1>3. CASE tag[n] # Free
  <2>1. /\ tag' = [tag EXCEPT ![n].mask = TRUE] /\ held' = held
        /\ pc' = [pc EXCEPT ![t] = "arbitrate"] /\ "arbitrate" \in Labels
    BY <1>3 DEF GuestTry, Goto, Labels
  <2>2. tag'[m].owner = tag[m].owner
    BY <1>1, <2>1 DEF CondInv, TypeOK, Word
  <2> QED
    BY <1>1, <2>1, <2>2, MutexQuiet DEF Wants
<1> QED
  BY <1>2, <1>3

LEMMA MutexGuestRecheck ==
    ASSUME CondInv, NEW t \in Threads, GuestRecheck(t), NEW m \in Locks
    PROVE  [Mutex(m)!Next]_(Mutex(m)!vars)
<1> DEFINE n == addr[t]
<1>1. n \in Locks /\ pc[t] = "recheck" /\ UNCHANGED <<addr, tag>>
  BY DEF GuestRecheck, At, guestVars, CondInv, TypeOK
<1>2. CASE tag[n].owner = t
  <2>1. /\ held' = [held EXCEPT ![t] = @ \cup {n}] /\ pc' = [pc EXCEPT ![t] = "idle"]
        /\ "idle" \in Labels
    BY <1>2 DEF GuestRecheck, Goto, Labels
  <2>2. /\ m = n => Inside(m)' = Inside(m) \cup {t}
        /\ m # n => Inside(m)' = Inside(m)
    BY <1>1, <2>1, Took
  <2>3. Wanting(m)' = Wanting(m) \ {t}
    <3>1. pc'[t] = "idle" /\ \A u \in Threads \ {t} : pc'[u] = pc[u]
      BY <2>1 DEF CondInv, TypeOK
    <3> QED
      BY <1>1, <3>1 DEF Wanting
  <2>4. CASE m = n
    <3>1. Wanting(m)' = Wanting(m)
      BY <1>2, <2>3, <2>4 DEF Wanting
    <3> QED
      BY <1>1, <1>2, <2>2, <2>4, <3>1 DEF Mutex!Next, Mutex!Enter
  <2>5. CASE m # n
    <3> QED
      BY <1>1, <2>2, <2>3, <2>5, MutexStill
  <2> QED
    BY <2>4, <2>5
<1>3. CASE tag[n].owner # t
  <2>1. held' = held /\ pc' = [pc EXCEPT ![t] = "lock"] /\ "lock" \in Labels
    BY <1>3 DEF GuestRecheck, Goto, Labels
  <2> QED
    BY <1>1, <2>1, MutexQuiet DEF Wants
<1> QED
  BY <1>2, <1>3

\* The holder's unlock, and the start of its wait on the condition variable.
LEMMA MutexGuestLeaves ==
    ASSUME CondInv, NEW t \in Threads, NEW n \in Locks, GuestUnlock(t, n) \/ GuestWait(t, n),
           NEW m \in Locks
    PROVE  [Mutex(m)!Next]_(Mutex(m)!vars)
<1>1. /\ pc[t] = "idle" /\ n \in held[t] /\ held' = [held EXCEPT ![t] = @ \ {n}]
      /\ tag[n].owner = t /\ t \notin Wanting(m) /\ "idle" \in Labels
  BY DEF GuestUnlock, GuestWait, At, CondInv, WordInv, HolderInWord, Wanting, Labels
<1>2. m = n => Inside(m)' = Inside(m) \ {t}
  BY <1>1, Left
<1>3. m # n => Inside(m)' = Inside(m)
  BY <1>1, Left
<1>4. CASE tag' = [tag EXCEPT ![n] = Free] /\ UNCHANGED <<addr, pc>>
  <2>1. tag'[n].owner = NoThread /\ \A k \in Locks \ {n} : tag'[k] = tag[k]
    BY <1>4 DEF CondInv, TypeOK, Free
  <2>2. CASE m = n
    <3>1. Wanting(m)' = Wanting(m)
      BY <1>1, <1>4, <2>1, <2>2, WaitersAssumption DEF Wanting
    <3> QED
      BY <1>1, <1>2, <2>1, <2>2, <3>1 DEF Mutex!Next, Mutex!Release
  <2>3. CASE m # n
    <3>1. Wanting(m)' = Wanting(m)
      BY <1>4, <2>1, <2>3 DEF Wanting
    <3> QED
      BY <1>3, <2>1, <2>3, <3>1, MutexStill
  <2> QED
    BY <2>2, <2>3
<1>5. ASSUME NEW l \in {"unlock", "wait"}, pc' = [pc EXCEPT ![t] = l], tag' = tag,
             addr' = [addr EXCEPT ![t] = n]
      PROVE  [Mutex(m)!Next]_(Mutex(m)!vars)
  <2>1. l \in Labels /\ l \notin Wants /\ \A u \in Threads \ {t} : addr'[u] = addr[u]
    BY <1>5 DEF CondInv, TypeOK, Labels, Wants
  <2>2. Wanting(m)' = Wanting(m)
    <3>1. pc'[t] = l /\ \A u \in Threads \ {t} : pc'[u] = pc[u]
      BY <1>5 DEF CondInv, TypeOK
    <3> QED
      BY <1>1, <1>5, <2>1, <3>1 DEF Wanting, Wants
  <2>3. CASE m = n
    BY <1>1, <1>2, <1>5, <2>2, <2>3 DEF Mutex!Next, Mutex!Leave
  <2>4. CASE m # n
    BY <1>3, <1>5, <2>2, <2>4, MutexStill
  <2> QED
    BY <2>3, <2>4
<1>6. \/ tag' = [tag EXCEPT ![n] = Free] /\ UNCHANGED <<addr, pc>>
      \/ \E l \in {"unlock", "wait"} :
            pc' = [pc EXCEPT ![t] = l] /\ tag' = tag /\ addr' = [addr EXCEPT ![t] = n]
  BY DEF GuestUnlock, GuestWait, Goto, guestVars
<1> QED
  BY <1>4, <1>5, <1>6

LEMMA MutexKernelQuiet ==
    ASSUME CondInv, NEW t \in Threads, NEW m \in Locks,
           \/ WaitForAddressReturn(t) \/ WaitForAddress(t) \/ SignalToAddress(t)
           \/ WaitTerminating(t) \/ Wait(t) \/ SignalEnd(t)
           \/ \E count \in Counts : Signal(t, count)
           \/ Environment(t)
    PROVE  [Mutex(m)!Next]_(Mutex(m)!vars)
<1>1. UNCHANGED <<addr, held>> /\ tag' = tag
  BY DEF WaitForAddressReturn, WaitForAddress, SignalToAddress, WaitTerminating, Wait,
     SignalEnd, Signal, Environment, Timeout, SetPriority, RequestTerminate, Exit,
     CloseHandle, Finalize, guestVars, callVars
<1>2. \/ pc' = pc
      \/ \E l \in Labels : pc' = [pc EXCEPT ![t] = l] /\ (l \in Wants => pc[t] \in Wants)
  <2> USE DEF At, Goto, callVars, Labels, Wants
  <2>1. CASE WaitForAddressReturn(t) \/ WaitForAddress(t) \/ WaitTerminating(t)
    BY <2>1 DEF WaitForAddressReturn, WaitForAddress, WaitTerminating
  <2>2. CASE SignalToAddress(t) \/ Wait(t) \/ SignalEnd(t)
    BY <2>2 DEF SignalToAddress, Wait, SignalEnd
  <2>3. CASE \E count \in Counts : Signal(t, count)
    BY <2>3 DEF Signal
  <2>4. CASE Environment(t)
    BY <2>4 DEF Environment, Timeout, SetPriority, RequestTerminate, Exit, CloseHandle, Finalize
  <2> QED
    BY <2>1, <2>2, <2>3, <2>4
<1>3. tag'[m].owner = tag[m].owner /\ "idle" \in Labels /\ "idle" \notin Wants
  BY <1>1 DEF Labels, Wants
<1> QED
  BY <1>1, <1>2, <1>3, MutexQuiet

\* SignalImpl takes a free mutex for a thread that waits for a signal.
LEMMA MutexSignalOne ==
    ASSUME CondInv, NEW t \in Threads, SignalOne(t), NEW m \in Locks
    PROVE  [Mutex(m)!Next]_(Mutex(m)!vars)
<1> DEFINE w == local.it
           n == addr[w]
<1>1. /\ pc[t] = "signal" /\ w # NoThread /\ UNCHANGED <<pc, addr, held>>
      /\ \/ tag[n] = Free /\ tag' = [tag EXCEPT ![n].owner = w]
         \/ tag' = [tag EXCEPT ![n].mask = TRUE]
  BY DEF SignalOne, At
<1>2. w \in Threads /\ pc[w] = "waiting" /\ n \in Locks /\ tag \in [Locks -> Word]
  BY <1>1, ToSetIs, LabelsOf DEF CondInv, PlaceInv, PlaceOf, Tree, TypeOK
<1>3. Inside(m)' = Inside(m)
  BY <1>1 DEF Inside
<1> HIDE DEF w, n
<1>4. CASE tag[n] = Free /\ tag' = [tag EXCEPT ![n].owner = w] /\ m = n
  <2>1. tag[m].owner = NoThread /\ tag'[m].owner = w
    BY <1>2, <1>4 DEF Free, Word
  <2>2. w \in Wanting(m) /\ Wanting(m)' = Wanting(m) \ {w}
    BY <1>1, <1>2, <1>4, <2>1, WaitersAssumption DEF Wanting, n
  <2> QED
    BY <1>2, <1>3, <2>1, <2>2 DEF Mutex!Next, Mutex!Acquire
<1>5. CASE tag' = [tag EXCEPT ![n].mask = TRUE] \/ m # n
  <2>1. tag'[m].owner = tag[m].owner
    BY <1>1, <1>2, <1>5 DEF Word
  <2>2. Wanting(m)' = Wanting(m)
    BY <1>1, <2>1 DEF Wanting
  <2> QED
    BY <1>3, <2>1, <2>2, MutexStill
<1> QED
  BY <1>1, <1>4, <1>5

LEMMA MutexWaitReturn ==
    ASSUME CondInv, NEW t \in Threads, WaitReturn(t), NEW m \in Locks
    PROVE  [Mutex(m)!Next]_(Mutex(m)!vars)
<1>1. /\ pc[t] = "waiting" /\ queue[t] = "none" /\ SchedulerFree /\ UNCHANGED <<tag, addr>>
  BY DEF WaitReturn, At, guestVars
<1>2. PICK l \in {"dying", "recheck", "idle", "lock"} :
         /\ pc' = [pc EXCEPT ![t] = l]
         /\ \/ held' = held
            \/ /\ result[t] = "Success" /\ held' = [held EXCEPT ![t] = @ \cup {addr[t]}]
               /\ l = "idle"
  BY DEF WaitReturn, Goto
<1>3. CASE held' = held
  BY <1>1, <1>2, <1>3, MutexQuiet DEF Labels, Wants
<1>4. CASE result[t] = "Success" /\ held' = [held EXCEPT ![t] = @ \cup {addr[t]}] /\ l = "idle"
  <2> DEFINE n == addr[t]
  <2>1. n \in Locks
    BY DEF CondInv, TypeOK
  <2>2. tag[n].owner = t
    <3>1. \A s \in Threads : ~Storing(s)
      BY <1>1, LabelsOf
    <3>2. WordToBe(n).owner = t
      BY <1>1, <1>4 DEF CondInv, WordInv, Handed
    <3> QED
      BY <3>1, <3>2, WordsNow
  <2>3. pc'[t] = "idle" /\ \A u \in Threads \ {t} : pc'[u] = pc[u]
    BY <1>2, <1>4 DEF CondInv, TypeOK
  <2>4. /\ m = n => Inside(m)' = Inside(m) \cup {t}
        /\ m # n => Inside(m)' = Inside(m)
    BY <1>4, <2>1, Took
  <2>5. Wanting(m)' = Wanting(m) \ {t}
    BY <1>1, <2>3 DEF Wanting
  <2>6. CASE m = n
    <3>1. Wanting(m)' = Wanting(m)
      BY <2>2, <2>5, <2>6 DEF Wanting
    <3> QED
      BY <1>1, <2>2, <2>4, <2>6, <3>1 DEF Mutex!Next, Mutex!Enter
  <2>7. CASE m # n
    BY <1>1, <2>4, <2>5, <2>7, MutexStill
  <2> QED
    BY <2>6, <2>7
<1> QED
  BY <1>2, <1>3, <1>4

\* The store of a mutex word gives it to the next owner, which waits for it, or to nobody.
LEMMA MutexStore ==
    ASSUME CondInv, NextWaits, NEW t \in Threads, NEW m \in Locks,
           SignalToAddressStore(t) \/ \E timeout \in Timeouts : WaitStore(t, timeout)
    PROVE  [Mutex(m)!Next]_(Mutex(m)!vars)
<1> DEFINE n == addr[t]
           w == local.next
<1>1. /\ Storing(t) /\ tag' = [tag EXCEPT ![n] = NextValue] /\ UNCHANGED <<addr, held>>
  BY DEF SignalToAddressStore, WaitStore, At, Storing
<1>2. PICK l \in {"dying", "idle", "lock", "waiting"} : pc' = [pc EXCEPT ![t] = l]
  BY DEF SignalToAddressStore, WaitStore, Goto
<1>3. pc'[t] = l /\ \A u \in Threads \ {t} : pc'[u] = pc[u]
  BY <1>2 DEF CondInv, TypeOK
<1>4. Inside(m)' = Inside(m)
  BY <1>1 DEF Inside
<1>5. n \in Locks /\ tag[n].owner = t /\ t \notin Inside(n) /\ pc[t] \notin Wants
  BY <1>1 DEF CondInv, TypeOK, WordInv, Owned, Storing, Inside, Wants
<1>6. tag'[n].owner = w /\ \A k \in Locks \ {n} : tag'[k] = tag[k]
  BY <1>1, <1>5 DEF CondInv, TypeOK, NextValue
<1> HIDE DEF w
<1>7. CASE m # n
  <2>1. Wanting(m)' \subseteq Wanting(m)
    BY <1>1, <1>3, <1>6, <1>7 DEF Wanting
  <2> QED
    BY <1>4, <1>6, <1>7, <2>1, MutexStill
<1>8. CASE m = n /\ w = NoThread
  <2>1. Wanting(m)' \in {Wanting(m), Wanting(m) \cup {t}}
    <3>1. Wanting(m)' \ {t} = Wanting(m) \ {t}
      BY <1>1, <1>3, <1>5, <1>6, <1>8, WaitersAssumption DEF Wanting
    <3>2. t \notin Wanting(m)
      BY <1>5, <1>8 DEF Wanting
    <3> QED
      BY <3>1, <3>2
  <2>2. Inside(m)' = Inside(m) \ {t}
    BY <1>4, <1>5, <1>8
  <2> QED
    BY <1>5, <1>6, <1>8, <2>1, <2>2 DEF Mutex!Next, Mutex!Release
<1>9. CASE m = n /\ w # NoThread
  <2>1. w \in Threads /\ pc[w] = "waiting" /\ addr[w] = n
    BY <1>1, <1>9 DEF NextWaits, w
  <2>2. w # t /\ w \in Wanting(m)
    BY <1>5, <1>9, <2>1 DEF Wanting, Wants
  <2>3. Wanting(m)' \ {t} = Wanting(m) \ {w}
    <3>1. t \notin Wanting(m)
      BY <1>5, <1>9 DEF Wanting
    <3>2. \A u \in Threads \ {t} : u \in Wanting(m)' <=> u \in Wanting(m) /\ u # w
      BY <1>1, <1>3, <1>5, <1>6, <1>9 DEF Wanting
    <3>3. Wanting(m)' \subseteq Threads /\ Wanting(m) \subseteq Threads
      BY DEF Wanting
    <3> QED
      BY <3>1, <3>2, <3>3
  <2> QED
    BY <1>4, <1>5, <1>6, <1>9, <2>1, <2>2, <2>3 DEF Mutex!Next, Mutex!HandOver
<1> QED
  BY <1>7, <1>8, <1>9

\* Only the first half of a call names a next owner, one that waits for the mutex.
LEMMA NextWaitsPassOn ==
    ASSUME CondInv, NEW t \in Threads, SignalToAddress(t) \/ Wait(t)
    PROVE  NextWaits'
<1>1. PICK l \in {"unlockStore", "waitStore"} : pc' = [pc EXCEPT ![t] = l]
  BY DEF SignalToAddress, Wait, Goto
<1>2. SchedulerFree /\ PassOn(t) /\ addr' = addr /\ pc[t] \in {"unlock", "wait"}
  BY DEF SignalToAddress, Wait, At
<1>3. local'.next = NoThread \/ local'.next \in WaitersByKey(kt, t, addr[t])
  <2>1. \/ local' = NoLocal
        \/ \E n \in WaitersByKey(kt, t, addr[t]), b \in BOOLEAN :
              local' = [NoLocal EXCEPT !.next = n, !.more = b]
    BY <1>2 DEF PassOn, Highest
  <2>2. CASE local' = NoLocal
    BY <2>2 DEF NoLocal
  <2>3. ASSUME NEW n \in WaitersByKey(kt, t, addr[t]), NEW b \in BOOLEAN,
               local' = [NoLocal EXCEPT !.next = n, !.more = b]
        PROVE  local'.next = n
    <3>1. [NoLocal EXCEPT !.next = n, !.more = b].next = n
      BY DEF NoLocal
    <3> QED
      BY ONLY <2>3, <3>1
  <2> QED
    BY <2>1, <2>2, <2>3
<1>4. pc'[t] = l /\ \A u \in Threads \ {t} : pc'[u] = pc[u] /\ ~Storing(u)
  BY <1>1, <1>2, LabelsOf DEF CondInv, TypeOK
<1>5. ASSUME NEW n \in WaitersByKey(kt, t, addr[t])
      PROVE  n \in Threads /\ pc[n] = "waiting" /\ addr[n] = addr[t]
  <2>1. n \in Threads /\ LockOwner(kt, n) = t /\ kt.waits[n].lock = addr[t]
    BY DEF WaitersByKey, Waiters
  <2>2. LockOwner(kt, n) # NoThread
    BY <2>1, WaitersAssumption
  <2>3. pc[n] = "waiting" /\ kt.waits[n] = [owner |-> LockOwner(kt, n), lock |-> addr[n]]
    BY <2>1, <2>2, LabelsOf
  <2> QED
    BY <2>1, <2>3
<1>6. \A u \in Threads : Storing(u)' => u = t
  BY <1>4 DEF Storing
<1>7. local'.next # NoThread =>
         local'.next \in Threads /\ pc'[local'.next] = "waiting" /\ addr[local'.next] = addr[t]
  BY <1>2, <1>3, <1>4, <1>5
<1> QED
  BY <1>2, <1>6, <1>7 DEF NextWaits

\* In every other step the calls in their second half are fewer, and the guest moves no
\* thread that waits.
LEMMA NextWaitsKept ==
    ASSUME CondInv, NextWaits, [Next]_vars,
           \A t \in Threads : ~SignalToAddress(t) /\ ~Wait(t)
    PROVE  NextWaits'
<1>1. SUFFICES ASSUME Next PROVE NextWaits'
  <2>1. CASE UNCHANGED vars
    BY <2>1 DEF vars, callVars, NextWaits, Storing
  <2> QED
    BY <1>1, <2>1
<1>2. PICK t \in Threads : Guest(t) \/ Kernel(t) \/ Environment(t)
  BY <1>1 DEF Next
<1>3. pc \in [Threads -> Labels] /\ addr \in [Threads -> Locks]
  BY DEF CondInv, TypeOK
<1>4. PICK l \in Labels \ {"unlockStore", "waitStore"} :
         pc' = pc \/ pc' = [pc EXCEPT ![t] = l]
  <2>0. \A k \in {"idle", "lock", "arbitrate", "recheck", "unlock", "wait", "waiting",
                  "signal", "dying", "dead", "gone"} :
           k \in Labels \ {"unlockStore", "waitStore"}
    BY DEF Labels
  <2>1. CASE Guest(t)
    BY <2>0, <2>1 DEF Guest, GuestTry, GuestRecheck, GuestLock, GuestUnlock, GuestWait, Signal,
       Goto
  <2>2. CASE Kernel(t)
    BY <2>0, <2>2 DEF Kernel, WaitForAddressReturn, WaitForAddress, SignalToAddressStore,
       WaitTerminating, WaitStore, SignalOne, SignalEnd, WaitReturn, Goto
  <2>3. CASE Environment(t)
    BY <2>0, <2>3 DEF Environment, Timeout, SetPriority, RequestTerminate, Exit, CloseHandle,
       Finalize, callVars, Goto
  <2> QED
    BY <1>2, <2>1, <2>2, <2>3
<1>5. \A u \in Threads : Storing(u)' => Storing(u) /\ pc'[u] = pc[u]
  BY <1>3, <1>4 DEF Storing
<1>6. CASE \A u \in Threads : ~Storing(u)
  BY <1>5, <1>6 DEF NextWaits
<1>7. CASE \E u \in Threads : Storing(u)
  <2>1. PICK u \in Threads : Storing(u)
    BY <1>7
  <2>2. ~SchedulerFree /\ pc[t] # "signal" /\ \A v \in Threads : Storing(v) => v = u
    BY <2>1, LabelsOf, InSignal
  <2>3. CASE SignalToAddressStore(t) \/ \E timeout \in Timeouts : WaitStore(t, timeout)
    <3>1. Storing(t) /\ ~Storing(t)'
      BY <1>3, <2>3 DEF SignalToAddressStore, WaitStore, At, Goto, Storing
    <3> QED
      BY <1>5, <2>2, <3>1 DEF NextWaits
  <2>4. CASE CloseHandle(t)
    BY <2>4 DEF CloseHandle, callVars, NextWaits, Storing
  <2>5. CASE \/ GuestTry(t) \/ GuestRecheck(t)
             \/ \E m \in Locks : GuestLock(t, m) \/ GuestUnlock(t, m) \/ GuestWait(t, m)
    <3>1. pc[t] \in {"idle", "lock", "recheck"} /\ local' = local
      BY <2>5 DEF GuestTry, GuestRecheck, GuestLock, GuestUnlock, GuestWait, At
    <3>2. \A v \in Threads \ {t} : addr'[v] = addr[v] /\ pc'[v] = pc[v]
      BY <1>3, <1>4, <2>5 DEF GuestTry, GuestRecheck, GuestLock, GuestUnlock, GuestWait, guestVars
    <3>3. \A v \in Threads : pc[v] = "waiting" \/ Storing(v) => v # t
      BY <3>1 DEF Storing
    <3> QED
      BY <1>5, <3>1, <3>2, <3>3 DEF NextWaits
  <2> QED
    BY <1>2, <2>2, <2>3, <2>4, <2>5 DEF Guest, Kernel, Environment, Signal,
       WaitForAddressReturn, WaitForAddress, WaitTerminating, SignalOne, SignalEnd,
       WaitReturn, Timeout, SetPriority, RequestTerminate, Exit, Finalize, At
<1> QED
  BY <1>6, <1>7

LEMMA NextWaitsInvariant == Spec => []NextWaits
<1>1. Init => NextWaits
  BY DEF Init, NextWaits, NoLocal
<1>2. CondInv /\ NextWaits /\ [Next]_vars => NextWaits'
  BY NextWaitsPassOn, NextWaitsKept
<1> QED
  BY <1>1, <1>2, CondInvariant, PTL DEF Spec

\* Each guest mutex implements the abstract lock, for any number of threads and mutexes
\* and any priorities: its word passes only from a holder that has left the mutex to a
\* thread that wants it, or to nobody, through ArbitrateUnlock, the wait on the condition
\* variable and its signals, cancelled waits and owners that die
\* (KConditionVariable::SignalToAddress, WaitForAddress, Wait and SignalImpl).
THEOREM MutexesAreLocks == Spec => ImplementsLock
<1>1. CondInv /\ NextWaits /\ [Next]_vars =>
         \A m \in Locks : [Mutex(m)!Next]_(Mutex(m)!vars)
  <2> SUFFICES ASSUME CondInv, NextWaits, [Next]_vars, NEW m \in Locks
               PROVE  [Mutex(m)!Next]_(Mutex(m)!vars)
    OBVIOUS
  <2>1. CASE UNCHANGED vars
    <3>1. tag' = tag /\ Wanting(m)' = Wanting(m) /\ Inside(m)' = Inside(m)
      BY <2>1 DEF vars, guestVars, callVars, Wanting, Inside
    <3> QED
      BY <3>1, MutexStill
  <2>2. ASSUME NEW t \in Threads, Guest(t)
        PROVE  [Mutex(m)!Next]_(Mutex(m)!vars)
    BY <2>2, MutexGuestTry, MutexGuestRecheck, MutexGuestLock, MutexGuestLeaves,
       MutexKernelQuiet DEF Guest
  <2>3. ASSUME NEW t \in Threads, Kernel(t)
        PROVE  [Mutex(m)!Next]_(Mutex(m)!vars)
    BY <2>3, MutexKernelQuiet, MutexStore, MutexSignalOne, MutexWaitReturn DEF Kernel
  <2>4. ASSUME NEW t \in Threads, Environment(t)
        PROVE  [Mutex(m)!Next]_(Mutex(m)!vars)
    BY <2>4, MutexKernelQuiet
  <2> QED
    BY <2>1, <2>2, <2>3, <2>4 DEF Next
<1> QED
  BY <1>1, MutexInit, CondInvariant, NextWaitsInvariant, PTL DEF Spec, ImplementsLock

-----------------------------------------------------------------------------
(* Priority inheritance, on tables: RestorePriority leaves every thread with the *)
(* priority it should have if all but the one it starts from had theirs.        *)

\* What Inherited chooses: the least of t's base priority and its waiters' priorities.
IsInherited(s, t, p) ==
    /\ p <= s.base[t]
    /\ \A w \in Threads : LockOwner(s, w) = t => p <= s.prio[w]
    /\ p = s.base[t] \/ \E w \in Threads : LockOwner(s, w) = t /\ s.prio[w] = p

LEMMA InheritedIs ==
    ASSUME NEW s \in ThreadTables, NEW t \in Threads
    PROVE  IsInherited(s, t, Inherited(s, t))
<1> DEFINE all == {s.base[t]} \cup {s.prio[w] : w \in Waiters(s, t)}
<1>1. all \subseteq Priorities /\ all # {}
  BY DEF ThreadTables, Waiters
<1>2. Inherited(s, t) = CHOOSE p \in all : \A q \in all : p <= q
  BY DEF Inherited
<1>3. all = {s.base[t]} \cup {s.prio[w] : w \in {x \in Threads : LockOwner(s, x) = t}}
  BY DEF Waiters
<1> HIDE DEF all
<1>4. all \subseteq Nat
  BY <1>1, WaitersAssumption
<1>5. \E p \in all : \A q \in all : p <= q
  BY <1>1, <1>4, Least
<1>6. Inherited(s, t) \in all /\ \A q \in all : Inherited(s, t) <= q
  BY <1>2, <1>5
<1> QED
  BY <1>3, <1>6 DEF IsInherited

LEMMA InheritedOnly ==
    ASSUME NEW s \in ThreadTables, NEW t \in Threads, NEW p \in Priorities, IsInherited(s, t, p)
    PROVE  Inherited(s, t) = p
<1>1. Inherited(s, t) \in Priorities /\ IsInherited(s, t, Inherited(s, t))
  BY InheritedType, InheritedIs
<1> DEFINE i == Inherited(s, t)
<1> HIDE DEF i
<1>2. i \in Nat /\ p \in Nat /\ IsInherited(s, t, i)
  BY <1>1, WaitersAssumption DEF i
<1>3. i <= p
  BY <1>2 DEF IsInherited
<1>4. p <= i
  BY <1>2 DEF IsInherited
<1> QED
  BY <1>2, <1>3, <1>4 DEF i

\* Does u run at the priority it should have?
Exact(s, u) == s.prio[u] = Inherited(s, u)

\* The threads that may be waited on are among those of L.
OwnersIn(s, L) == \A w \in Threads : LockOwner(s, w) \in L \cup {NoThread}

\* Everybody of L runs at the priority it should have.
AllExact(s, L) == \A u \in L : Exact(s, u)

LEMMA ExactIs ==
    ASSUME NEW s \in ThreadTables, NEW u \in Threads
    PROVE  Exact(s, u) <=> IsInherited(s, u, s.prio[u])
<1>1. s.prio[u] \in Priorities
  BY DEF ThreadTables
<1> QED
  BY <1>1, InheritedIs, InheritedOnly DEF Exact

\* What u should have depends on its base priority and on its waiters.
LEMMA SameInherited ==
    ASSUME NEW s \in ThreadTables, NEW r \in ThreadTables, NEW u \in Threads,
           r.base[u] = s.base[u],
           \A w \in Threads : LockOwner(r, w) = u <=> LockOwner(s, w) = u,
           \A w \in Threads : LockOwner(s, w) = u => r.prio[w] = s.prio[w]
    PROVE  Inherited(r, u) = Inherited(s, u)
<1>1. IsInherited(s, u, Inherited(s, u)) /\ Inherited(s, u) \in Priorities
  BY InheritedIs, InheritedType
<1> DEFINE i == Inherited(s, u)
<1> HIDE DEF i
<1>2. IsInherited(r, u, i)
  BY <1>1 DEF IsInherited, i
<1> QED
  BY <1>1, <1>2, InheritedOnly DEF i

\* The loop of RestorePriority is at a thread, or at the end, and everybody else of L is
\* exact.
OthersExact(s, L, loop) ==
    /\ loop.table \in ThreadTables
    /\ loop.table.base = s.base
    /\ loop.table.waits = s.waits
    /\ loop.at \in Threads \cup {NoThread}
    /\ \A u \in L \ {loop.at} : Exact(loop.table, u)

\* The thread where the loop is has more urgent waiters than it has priority: they are at
\* q, as everybody is whose priority was changed.
Raises(s, q, loop) ==
    /\ \A u \in Threads : loop.table.prio[u] \in {s.prio[u], q}
    /\ loop.at # NoThread /\ ~Exact(loop.table, loop.at) =>
          Inherited(loop.table, loop.at) = q /\ q < loop.table.prio[loop.at]

\* The thread where the loop is has lost the waiter that gave it priority p, as everybody
\* has whose priority was changed.
Lowers(s, p, loop) ==
    /\ \A u \in Threads : loop.table.prio[u] = s.prio[u]
                          \/ (s.prio[u] = p /\ p < loop.table.prio[u])
    /\ loop.at # NoThread /\ ~Exact(loop.table, loop.at) =>
          loop.table.prio[loop.at] = p /\ p < Inherited(loop.table, loop.at)

Changed(s, r) == {u \in Threads : r.prio[u] # s.prio[u]}

\* The turns of the loop that went on are as many as the priorities it changed.
Counted(s, n, loop) ==
    loop.at # NoThread /\ ~Exact(loop.table, loop.at) => Cardinality(Changed(s, loop.table)) = n

LEMMA TurnStops ==
    ASSUME NEW s \in ThreadTables, NEW L \in SUBSET Threads, NEW loop, OthersExact(s, L, loop),
           loop.at = NoThread \/ Exact(loop.table, loop.at)
    PROVE  /\ OthersExact(s, L, Turn(loop))
           /\ Turn(loop).at = NoThread /\ Turn(loop).table = loop.table
<1>1. Turn(loop) = [loop EXCEPT !.at = NoThread]
  BY DEF Turn, Exact
<1>2. Turn(loop).at = NoThread /\ Turn(loop).table = loop.table
  BY <1>1 DEF OthersExact
<1> DEFINE l == Turn(loop)
<1> HIDE DEF l
<1>3. l.at = NoThread /\ l.table = loop.table
  BY <1>2 DEF l
<1>4. \A u \in L : Exact(loop.table, u)
  BY WaitersAssumption DEF OthersExact
<1>5. OthersExact(s, L, l)
  BY <1>3, <1>4 DEF OthersExact
<1> QED
  BY <1>2, <1>5 DEF l

\* A turn that goes on: from a with priority v to a's owner b, and only b may be inexact.
LEMMA TurnGoes ==
    ASSUME NEW s \in ThreadTables, NEW L \in SUBSET Threads, OwnersIn(s, L),
           NEW loop, OthersExact(s, L, loop),
           loop.at # NoThread, ~Exact(loop.table, loop.at)
    PROVE  LET r == loop.table
               a == loop.at
               n == Turn(loop)
           IN /\ OthersExact(s, L, n)
              /\ a \in Threads
              /\ n.at = LockOwner(s, a)
              /\ n.at \in L \cup {NoThread}
              /\ n.table.prio[a] = Inherited(r, a)
              /\ \A u \in Threads \ {a} : n.table.prio[u] = r.prio[u]
<1> DEFINE r == loop.table
           a == loop.at
           v == Inherited(r, a)
           b == LockOwner(r, a)
           r2 == [r EXCEPT !.prio[a] = v]
           n == Turn(loop)
<1>1. n = [table |-> r2, at |-> b]
  BY DEF Turn, Exact
<1>2. a \in Threads /\ r \in ThreadTables /\ v \in Priorities
  BY InheritedType DEF OthersExact
<1>3. b = LockOwner(s, a) /\ b \in L \cup {NoThread}
  BY <1>2 DEF LockOwner, OthersExact, OwnersIn
<1> HIDE DEF v
<1>4. /\ r2 \in ThreadTables /\ r2.base = r.base /\ r2.waits = r.waits
      /\ r2.prio[a] = v /\ \A u \in Threads \ {a} : r2.prio[u] = r.prio[u]
  BY <1>2 DEF ThreadTables
<1>5. n.table = r2 /\ n.at = b
  BY <1>1
<1> HIDE DEF r2, b, n, r, a
<1>6. ASSUME NEW u \in Threads, u # b
      PROVE  Inherited(r2, u) = Inherited(r, u)
  <2>1. \A w \in Threads : LockOwner(r2, w) = LockOwner(r, w)
    BY <1>4 DEF LockOwner
  <2>2. \A w \in Threads : LockOwner(r, w) = u => w # a
    BY <1>6 DEF b
  <2>3. \A w \in Threads : LockOwner(r, w) = u => r2.prio[w] = r.prio[w]
    BY <1>4, <2>2
  <2> QED
    BY <1>2, <1>4, <2>1, <2>3, SameInherited
<1>7. ASSUME NEW u \in L \ {b}
      PROVE  Exact(r2, u)
  <2>1. u \in Threads /\ Inherited(r2, u) = Inherited(r, u)
    BY <1>6, <1>7
  <2>2. CASE u = a
    BY <1>4, <2>1, <2>2 DEF Exact, v
  <2>3. CASE u # a
    <3>1. Exact(r, u)
      BY <1>7, <2>3 DEF OthersExact, r, a
    <3> QED
      BY <1>4, <2>1, <2>3, <3>1 DEF Exact
  <2> QED
    BY <2>2, <2>3
<1>8. r.base = s.base /\ r.waits = s.waits
  BY DEF OthersExact, r
<1>9. OthersExact(s, L, n)
  BY <1>3, <1>4, <1>5, <1>7, <1>8 DEF OthersExact
<1>10. /\ a \in Threads /\ n.at = LockOwner(s, a) /\ n.at \in L \cup {NoThread}
       /\ n.table.prio[a] = v /\ \A u \in Threads \ {a} : n.table.prio[u] = r.prio[u]
  BY <1>2, <1>3, <1>4, <1>5
<1> QED
  BY <1>9, <1>10 DEF n, a, r, v

\* While the loop raises priorities to q, a turn leaves its owner exact or in need of q.
LEMMA TurnRaises ==
    ASSUME NEW s \in ThreadTables, NEW L \in SUBSET Threads, OwnersIn(s, L),
           NEW loop, OthersExact(s, L, loop), NEW q \in Priorities, Raises(s, q, loop),
           loop.at # NoThread, ~Exact(loop.table, loop.at)
    PROVE  Raises(s, q, Turn(loop))
<1> DEFINE r == loop.table
           a == loop.at
           n == Turn(loop)
           r2 == n.table
           b == n.at
<1>1. /\ OthersExact(s, L, n) /\ a \in Threads /\ b = LockOwner(s, a) /\ b \in L \cup {NoThread}
      /\ r2.prio[a] = Inherited(r, a)
      /\ \A u \in Threads \ {a} : r2.prio[u] = r.prio[u]
  BY TurnGoes
<1>2. Inherited(r, a) = q /\ q < r.prio[a] /\ \A u \in Threads : r.prio[u] \in {s.prio[u], q}
  BY DEF Raises
<1>3. /\ r \in ThreadTables /\ r.base = s.base /\ r.waits = s.waits
      /\ r2 \in ThreadTables /\ r2.base = s.base /\ r2.waits = s.waits
  BY <1>1 DEF OthersExact
<1>4. b # a /\ b # NoThread => Exact(r, b)
  BY <1>1 DEF OthersExact
<1> HIDE DEF r, a, n, r2, b
<1>5. \A u \in Threads : r2.prio[u] \in {s.prio[u], q}
  BY <1>1, <1>2
<1>6. \A w \in Threads : LockOwner(r, w) = LockOwner(s, w) /\ LockOwner(r2, w) = LockOwner(s, w)
  BY <1>3 DEF LockOwner
<1>7. \A w \in Threads : r.prio[w] \in Nat /\ r2.prio[w] \in Nat /\ s.base[w] \in Nat
  BY <1>3, WaitersAssumption DEF ThreadTables
<1>8. q \in Nat
  BY WaitersAssumption
<1>9. ASSUME b # NoThread
      PROVE  b \in Threads /\ (Exact(r2, b) \/ (Inherited(r2, b) = q /\ q < r2.prio[b]))
  <2>1. b \in Threads
    BY <1>1, <1>9
  <2>2. CASE b = a
    <3>1. IsInherited(r, a, q)
      BY <1>1, <1>2, <1>3, InheritedIs
    <3>2. \A w \in Threads : LockOwner(r2, w) = a => q <= r2.prio[w]
      BY <1>1, <1>2, <1>6, <1>8, <3>1 DEF IsInherited
    <3>3. q <= r2.base[a]
      BY <1>3, <3>1 DEF IsInherited
    <3>4. q = r2.base[a] \/ \E w \in Threads : LockOwner(r2, w) = a /\ r2.prio[w] = q
      BY <1>1, <1>2, <1>3, <1>6, <3>1 DEF IsInherited
    <3>5. IsInherited(r2, a, q)
      BY <3>2, <3>3, <3>4 DEF IsInherited
    <3>6. Inherited(r2, a) = q
      BY <1>1, <1>3, <3>5, InheritedOnly
    <3> QED
      BY <1>1, <1>2, <2>1, <2>2, <3>6 DEF Exact
  <2>3. CASE b # a
    <3>1. IsInherited(r, b, r.prio[b]) /\ r2.prio[b] = r.prio[b]
      BY <1>1, <1>3, <1>4, <1>9, <2>1, <2>3, ExactIs
    <3>2. CASE r.prio[b] <= q
      <4>1. r.prio[b] <= r2.base[b]
        BY <1>3, <3>1 DEF IsInherited
      <4>2. \A w \in Threads : LockOwner(r2, w) = b => r.prio[b] <= r2.prio[w]
        BY <1>1, <1>2, <1>6, <3>1, <3>2 DEF IsInherited
      <4>3. r.prio[b] = r2.base[b]
            \/ \E w \in Threads : LockOwner(r2, w) = b /\ r2.prio[w] = r.prio[b]
        <5>1. CASE r.prio[b] = r.base[b]
          BY <1>3, <5>1
        <5>2. ASSUME NEW w \in Threads, LockOwner(r, w) = b, r.prio[w] = r.prio[b]
              PROVE  LockOwner(r2, w) = b /\ r2.prio[w] = r.prio[b]
          <6>1. w # a
            BY <1>1, <1>2, <1>7, <1>8, <2>1, <3>2, <5>2
          <6> QED
            BY <1>1, <1>6, <5>2, <6>1
        <5> QED
          BY <3>1, <5>1, <5>2 DEF IsInherited
      <4>4. IsInherited(r2, b, r2.prio[b])
        BY <3>1, <4>1, <4>2, <4>3 DEF IsInherited
      <4> QED
        BY <1>3, <2>1, <4>4, ExactIs
    <3>3. CASE ~(r.prio[b] <= q)
      <4>1. q < r.prio[b]
        BY <1>7, <1>8, <2>1, <3>3
      <4>2. q <= r2.base[b]
        BY <1>3, <1>7, <1>8, <2>1, <3>1, <4>1 DEF IsInherited
      <4>3. ASSUME NEW w \in Threads, LockOwner(r2, w) = b
            PROVE  q <= r2.prio[w]
        BY <1>1, <1>2, <1>6, <1>7, <1>8, <2>1, <3>1, <4>1, <4>3 DEF IsInherited
      <4>4. LockOwner(r2, a) = b /\ r2.prio[a] = q
        BY <1>1, <1>2, <1>6
      <4>5. IsInherited(r2, b, q)
        BY <1>1, <4>2, <4>3, <4>4 DEF IsInherited
      <4>6. Inherited(r2, b) = q
        BY <1>3, <2>1, <4>5, InheritedOnly
      <4> QED
        BY <2>1, <3>1, <4>1, <4>6
    <3> QED
      BY <3>2, <3>3
  <2> QED
    BY <2>2, <2>3
<1>10. Raises(s, q, n)
  BY <1>5, <1>9 DEF Raises, r2, b
<1> QED
  BY <1>10 DEF n

\* While the loop takes priority p away, a turn leaves its owner exact or with p in vain.
LEMMA TurnLowers ==
    ASSUME NEW s \in ThreadTables, NEW L \in SUBSET Threads, OwnersIn(s, L),
           NEW loop, OthersExact(s, L, loop), NEW p \in Priorities, Lowers(s, p, loop),
           loop.at # NoThread, ~Exact(loop.table, loop.at)
    PROVE  Lowers(s, p, Turn(loop))
<1> DEFINE r == loop.table
           a == loop.at
           n == Turn(loop)
           r2 == n.table
           b == n.at
           v == Inherited(r, a)
<1>1. /\ OthersExact(s, L, n) /\ a \in Threads /\ b = LockOwner(s, a) /\ b \in L \cup {NoThread}
      /\ r2.prio[a] = v
      /\ \A u \in Threads \ {a} : r2.prio[u] = r.prio[u]
  BY TurnGoes
<1>2. /\ r.prio[a] = p /\ p < v
      /\ \A u \in Threads : r.prio[u] = s.prio[u] \/ (s.prio[u] = p /\ p < r.prio[u])
  BY DEF Lowers
<1>3. /\ r \in ThreadTables /\ r.base = s.base /\ r.waits = s.waits
      /\ r2 \in ThreadTables /\ r2.base = s.base /\ r2.waits = s.waits
  BY <1>1 DEF OthersExact
<1>4. b # a /\ b # NoThread => Exact(r, b)
  BY <1>1 DEF OthersExact
<1>5. v \in Priorities /\ IsInherited(r, a, v)
  BY <1>1, <1>3, InheritedType, InheritedIs
<1> HIDE DEF r, a, n, r2, b, v
<1>6. \A w \in Threads : LockOwner(r, w) = LockOwner(s, w) /\ LockOwner(r2, w) = LockOwner(s, w)
  BY <1>3 DEF LockOwner
<1>7. /\ \A w \in Threads : r.prio[w] \in Nat /\ r2.prio[w] \in Nat /\ s.base[w] \in Nat
      /\ p \in Nat /\ v \in Nat
  BY <1>3, <1>5, WaitersAssumption DEF ThreadTables
<1>8. \A u \in Threads : r2.prio[u] = s.prio[u] \/ (s.prio[u] = p /\ p < r2.prio[u])
  BY <1>1, <1>2, <1>7
<1>9. ASSUME b # NoThread
      PROVE  b \in Threads /\ (Exact(r2, b) \/ (r2.prio[b] = p /\ p < Inherited(r2, b)))
  <2>1. b \in Threads
    BY <1>1, <1>9
  <2>2. b # a
    <3>1. b = a => v <= r.prio[a]
      BY <1>1, <1>5, <1>6 DEF IsInherited
    <3> QED
      BY <1>1, <1>2, <1>7, <3>1
  <2>3. IsInherited(r, b, r.prio[b]) /\ r2.prio[b] = r.prio[b]
    BY <1>1, <1>3, <1>4, <1>9, <2>1, <2>2, ExactIs
  <2>4. r.prio[b] <= p
    BY <1>1, <1>2, <1>6, <2>3 DEF IsInherited
  <2>5. \A w \in Threads : LockOwner(r2, w) = b => r.prio[b] <= r2.prio[w]
    BY <1>1, <1>2, <1>6, <1>7, <2>1, <2>3, <2>4 DEF IsInherited
  <2>6. r.prio[b] <= r2.base[b]
    BY <1>3, <2>3 DEF IsInherited
  <2>7. CASE r.prio[b] # p
    <3>1. r.prio[b] = r2.base[b]
          \/ \E w \in Threads : LockOwner(r2, w) = b /\ r2.prio[w] = r.prio[b]
      <4>1. CASE r.prio[b] = r.base[b]
        BY <1>3, <4>1
      <4>2. ASSUME NEW w \in Threads, LockOwner(r, w) = b, r.prio[w] = r.prio[b]
            PROVE  LockOwner(r2, w) = b /\ r2.prio[w] = r.prio[b]
        BY <1>1, <1>2, <1>6, <2>7, <4>2
      <4> QED
        BY <2>3, <4>1, <4>2 DEF IsInherited
    <3>2. IsInherited(r2, b, r2.prio[b])
      BY <2>3, <2>5, <2>6, <3>1 DEF IsInherited
    <3> QED
      BY <1>3, <2>1, <3>2, ExactIs
  <2>8. CASE r.prio[b] = p
    <3> DEFINE i == Inherited(r2, b)
    <3>1. i \in Priorities /\ IsInherited(r2, b, i)
      BY <1>3, <2>1, InheritedType, InheritedIs
    <3>2. Exact(r2, b) <=> p = i
      BY <2>3, <2>8 DEF Exact
    <3> HIDE DEF i
    <3>3. i \in Nat
      BY <3>1, WaitersAssumption
    <3>4. p <= i
      BY <2>5, <2>6, <2>8, <3>1, <3>3 DEF IsInherited
    <3>5. p = i \/ p < i
      BY <1>7, <3>3, <3>4
    <3> QED
      BY <2>1, <2>3, <2>8, <3>2, <3>5 DEF i
  <2> QED
    BY <2>7, <2>8
<1>10. Lowers(s, p, n)
  BY <1>8, <1>9 DEF Lowers, r2, b
<1> QED
  BY <1>10 DEF n

\* With as many turns as there are threads the loop comes to its end.
LEMMA RestoreRuns ==
    ASSUME NEW s \in ThreadTables, NEW L \in SUBSET Threads, OwnersIn(s, L),
           NEW t \in Threads, \A u \in L \ {t} : Exact(s, u)
    PROVE  /\ RestorePriority(s, t) \in ThreadTables
           /\ RestorePriority(s, t).base = s.base
           /\ RestorePriority(s, t).waits = s.waits
           /\ AllExact(RestorePriority(s, t), L)
<1> DEFINE size == Cardinality(Threads)
           p == s.prio[t]
           q == Inherited(s, t)
           Sound(loop) == OthersExact(s, L, loop)
                          /\ (IF q <= p THEN Raises(s, q, loop) ELSE Lowers(s, p, loop))
           Good(n, loop) == Sound(loop) /\ Counted(s, n, loop)
<1>1. size \in Nat
  BY FS_CardinalityType, WaitersAssumption
<1>2. PICK f : /\ f = [n \in 0..size |->
                          IF n = 0 THEN [table |-> s, at |-> t] ELSE Turn(f[n - 1])]
               /\ RestorePriority(s, t) = f[size].table
  BY RestoreRecursion
<1> HIDE DEF size
<1>3. f[0] = [table |-> s, at |-> t]
  BY <1>1, <1>2
<1>4. ASSUME NEW n \in 1..size
      PROVE  f[n] = Turn(f[n - 1])
  <2>1. n \in 0..size /\ n # 0
    BY <1>1
  <2> QED
    BY <1>2, <2>1, Zenon
<1>5. p \in Priorities /\ q \in Priorities /\ p \in Nat /\ q \in Nat
  <2>1. p \in Priorities
    BY DEF ThreadTables
  <2>2. q \in Priorities
    BY InheritedType
  <2> QED
    BY <2>1, <2>2, WaitersAssumption
<1>6. Good(0, f[0])
  <2> DEFINE l == f[0]
  <2> HIDE DEF l
  <2>1. l.table = s /\ l.at = t
    BY <1>3 DEF l
  <2>2. OthersExact(s, L, l)
    BY <2>1 DEF OthersExact
  <2>3. Exact(s, t) <=> p = q
    BY DEF Exact
  <2> HIDE DEF p, q
  <2>4. q <= p => Raises(s, q, l)
    <3>1. s.prio[t] = p /\ Inherited(s, t) = q
      BY DEF p, q
    <3> QED
      BY <1>5, <2>1, <2>3, <3>1 DEF Raises
  <2>5. ~(q <= p) => Lowers(s, p, l)
    <3>1. s.prio[t] = p /\ Inherited(s, t) = q
      BY DEF p, q
    <3> QED
      BY <1>5, <2>1, <2>3, <3>1 DEF Lowers
  <2>6. Counted(s, 0, l)
    <3>1. Changed(s, l.table) = {}
      BY <2>1 DEF Changed
    <3>2. Cardinality(Changed(s, l.table)) = 0
      BY <3>1, FS_EmptySet
    <3> QED
      BY <3>2 DEF Counted
  <2>7. Sound(l)
    BY <2>2, <2>4, <2>5
  <2> HIDE DEF Sound
  <2> QED
    BY <2>6, <2>7 DEF l
<1> HIDE DEF p, q
\* Where the loop goes on it has not been before.
<1>7. ASSUME NEW loop, Sound(loop), loop.at # NoThread, ~Exact(loop.table, loop.at)
      PROVE  loop.at \in Threads /\ loop.at \notin Changed(s, loop.table)
  <2>1. loop.at \in Threads /\ loop.table \in ThreadTables
    BY <1>7 DEF OthersExact
  <2>2. loop.table.prio[loop.at] \in Nat
    BY <2>1, WaitersAssumption DEF ThreadTables
  <2>3. CASE q <= p
    <3>1. Raises(s, q, loop)
      BY <1>7, <2>3
    <3> QED
      BY <1>5, <1>7, <2>1, <2>2, <3>1 DEF Raises, Changed
  <2>4. CASE ~(q <= p)
    <3>1. Lowers(s, p, loop)
      BY <1>7, <2>4
    <3> QED
      BY <1>5, <1>7, <2>1, <2>2, <3>1 DEF Lowers, Changed
  <2> QED
    BY <2>3, <2>4
<1>8. ASSUME NEW loop, NEW n \in Nat, Good(n, loop)
      PROVE  Good(n + 1, Turn(loop))
  <2>1. CASE loop.at = NoThread \/ Exact(loop.table, loop.at)
    <3>1. OthersExact(s, L, Turn(loop)) /\ Turn(loop).at = NoThread /\ Turn(loop).table = loop.table
      BY <1>8, <2>1, TurnStops
    <3> DEFINE l == Turn(loop)
    <3> HIDE DEF l
    <3>2. OthersExact(s, L, l) /\ l.at = NoThread /\ l.table = loop.table
      BY <3>1 DEF l
    <3>3. q <= p => Raises(s, q, l)
      BY <1>8, <3>2 DEF Raises
    <3>4. ~(q <= p) => Lowers(s, p, l)
      BY <1>8, <3>2 DEF Lowers
    <3>5. Counted(s, n + 1, l)
      BY <3>2 DEF Counted
    <3> QED
      BY <3>2, <3>3, <3>4, <3>5 DEF l
  <2>2. CASE ~(loop.at = NoThread \/ Exact(loop.table, loop.at))
    <3>1. OthersExact(s, L, loop) /\ loop.at # NoThread /\ ~Exact(loop.table, loop.at)
      BY <1>8, <2>2
    <3> DEFINE l == Turn(loop)
               a == loop.at
    <3>2. /\ OthersExact(s, L, l) /\ l.table.prio[a] = Inherited(loop.table, a)
          /\ \A u \in Threads \ {a} : l.table.prio[u] = loop.table.prio[u]
      BY <3>1, TurnGoes
    <3>3. q <= p => Raises(s, q, l)
      BY <1>5, <1>8, <3>1, TurnRaises
    <3>4. ~(q <= p) => Lowers(s, p, l)
      BY <1>5, <1>8, <3>1, TurnLowers
    <3>5. a \in Threads /\ a \notin Changed(s, loop.table)
      BY <1>7, <1>8, <3>1
    <3>6. Cardinality(Changed(s, loop.table)) = n
      BY <1>8, <3>1 DEF Counted
    <3>7. l.table.prio[a] # loop.table.prio[a]
      BY <3>1, <3>2 DEF Exact
    <3> HIDE DEF l, a
    <3>8. Changed(s, l.table) = Changed(s, loop.table) \cup {a}
      BY <3>2, <3>5, <3>7 DEF Changed
    <3>9. IsFiniteSet(Changed(s, loop.table))
      <4>1. Changed(s, loop.table) \subseteq Threads
        BY DEF Changed
      <4> QED
        BY <4>1, FS_Subset, WaitersAssumption
    <3>10. Cardinality(Changed(s, l.table)) = n + 1
      BY <3>5, <3>6, <3>8, <3>9, FS_AddElement
    <3>11. Counted(s, n + 1, l)
      BY <3>10 DEF Counted
    <3> QED
      BY <3>2, <3>3, <3>4, <3>11 DEF l
  <2> QED
    BY <2>1, <2>2
<1> HIDE DEF Good
<1>9. \A n \in 0..size : Good(n, f[n])
  <2> DEFINE N == {n \in 0..size : ~Good(n, f[n])}
  <2> SUFFICES ASSUME N # {} PROVE FALSE
    OBVIOUS
  <2>1. N \subseteq Nat
    BY <1>1
  <2> HIDE DEF N
  <2>2. PICK n \in N : \A m \in N : n <= m
    BY <2>1, Least
  <2>3. n \in 0..size /\ ~Good(n, f[n])
    BY DEF N
  <2>4. n \in 1..size /\ n - 1 \in 0..size /\ n - 1 \in Nat /\ (n - 1) + 1 = n
    BY <1>1, <1>6, <2>3
  <2>5. Good(n - 1, f[n - 1])
    BY <2>2, <2>4 DEF N
  <2>6. Good((n - 1) + 1, Turn(f[n - 1]))
    BY <1>8, <2>4, <2>5
  <2> QED
    BY <1>4, <2>3, <2>4, <2>6
<1>10. Good(size, f[size])
  BY <1>1, <1>9
<1> DEFINE last == f[size]
<1> HIDE DEF last
<1>11. Good(size, last) /\ RestorePriority(s, t) = last.table
  BY <1>2, <1>10 DEF last
<1>12. OthersExact(s, L, last)
  BY <1>11 DEF Good
<1>13. last.at = NoThread \/ Exact(last.table, last.at)
  <2> SUFFICES ASSUME last.at # NoThread, ~Exact(last.table, last.at)
               PROVE  FALSE
    OBVIOUS
  <2> DEFINE C == Changed(s, last.table)
  <2>1. last.at \in Threads /\ last.at \notin C
    BY <1>7, <1>11 DEF Good
  <2>2. Cardinality(C) = size
    BY <1>11 DEF Good, Counted
  <2>3. C \subseteq Threads
    BY DEF Changed
  <2> HIDE DEF C
  <2>4. Cardinality(C) = Cardinality(Threads) => C = Threads
    BY <2>3, FS_Subset, WaitersAssumption
  <2> QED
    BY <2>1, <2>2, <2>4 DEF size
<1>14. /\ last.table \in ThreadTables /\ last.table.base = s.base /\ last.table.waits = s.waits
       /\ \A u \in L : Exact(last.table, u)
  BY <1>12, <1>13, WaitersAssumption DEF OthersExact
<1> QED
  BY <1>11, <1>14 DEF AllExact

\* A thread that comes to wait.  Its priority is passed on if it is above the owner's; if
\* not, the owner has what it should have.
LEMMA AddWaiterExact ==
    ASSUME NEW s \in ThreadTables, NEW L \in SUBSET Threads, OwnersIn(s, L), AllExact(s, L),
           NEW o \in L, NEW w \in Threads, LockOwner(s, w) = NoThread, NEW lock \in Locks
    PROVE  AllExact(AddWaiter(s, o, w, lock), L) /\ OwnersIn(AddWaiter(s, o, w, lock), L)
<1> DEFINE added == [s EXCEPT !.waits[w] = [owner |-> o, lock |-> lock]]
           r == AddWaiter(s, o, w, lock)
<1>1. /\ added \in ThreadTables /\ added.prio = s.prio /\ added.base = s.base
      /\ added.waits = [s.waits EXCEPT ![w] = [owner |-> o, lock |-> lock]]
  BY DEF ThreadTables
<1>2. r = IF s.prio[w] < s.prio[o] THEN RestorePriority(added, o) ELSE added
  BY DEF AddWaiter
<1> HIDE DEF added, r
<1>3. LockOwner(added, w) = o /\ \A x \in Threads \ {w} : LockOwner(added, x) = LockOwner(s, x)
  BY <1>1 DEF LockOwner, ThreadTables
<1>4. OwnersIn(added, L)
  BY <1>3 DEF OwnersIn
<1>5. o \in Threads /\ o # NoThread /\ \A u \in L : u \in Threads /\ u # NoThread
  BY WaitersAssumption
<1>6. ASSUME NEW u \in L \ {o}
      PROVE  Exact(added, u)
  <2>1. \A x \in Threads : LockOwner(added, x) = u <=> LockOwner(s, x) = u
    BY <1>3, <1>5, <1>6
  <2>2. Inherited(added, u) = Inherited(s, u)
    BY <1>1, <1>5, <2>1, SameInherited
  <2> QED
    BY <1>1, <2>2 DEF AllExact, Exact
<1>7. CASE s.prio[w] < s.prio[o]
  <2>1. AllExact(r, L) /\ r.waits = added.waits
    BY <1>1, <1>2, <1>4, <1>5, <1>6, <1>7, RestoreRuns
  <2> QED
    BY <1>4, <2>1 DEF OwnersIn, LockOwner, r
<1>8. CASE ~(s.prio[w] < s.prio[o])
  <2>1. IsInherited(s, o, s.prio[o])
    BY <1>5, ExactIs DEF AllExact
  <2>2. s.prio[w] \in Nat /\ s.prio[o] \in Nat
    BY <1>5, WaitersAssumption DEF ThreadTables
  <2>3. s.prio[o] <= s.prio[w]
    BY <1>8, <2>2
  <2>4. IsInherited(added, o, added.prio[o])
    <3>1. added.prio[o] <= added.base[o]
      BY <1>1, <2>1 DEF IsInherited
    <3>2. \A x \in Threads : LockOwner(added, x) = o => added.prio[o] <= added.prio[x]
      BY <1>1, <1>3, <2>1, <2>3 DEF IsInherited
    <3>3. added.prio[o] = added.base[o]
          \/ \E x \in Threads : LockOwner(added, x) = o /\ added.prio[x] = added.prio[o]
      BY <1>1, <1>3, <1>5, <2>1 DEF IsInherited
    <3> QED
      BY <3>1, <3>2, <3>3 DEF IsInherited
  <2>5. AllExact(added, L)
    BY <1>1, <1>5, <1>6, <2>4, ExactIs DEF AllExact
  <2> QED
    BY <1>2, <1>4, <1>8, <2>5 DEF r
<1> QED
  BY <1>7, <1>8

\* A thread that gives up waiting.  The priority it passed on is taken back if it is the
\* owner's and not the owner's own.
LEMMA RemoveWaiterExact ==
    ASSUME NEW s \in ThreadTables, NEW L \in SUBSET Threads, OwnersIn(s, L), AllExact(s, L),
           NEW w \in Threads, NEW o, o = LockOwner(s, w), o # NoThread
    PROVE  AllExact(RemoveWaiter(s, o, w), L) /\ OwnersIn(RemoveWaiter(s, o, w), L)
<1> DEFINE removed == [s EXCEPT !.waits[w] = NotWaiting]
           r == RemoveWaiter(s, o, w)
<1>1. /\ removed \in ThreadTables /\ removed.prio = s.prio /\ removed.base = s.base
      /\ removed.waits = [s.waits EXCEPT ![w] = NotWaiting]
  BY DEF ThreadTables
<1>2. r = IF InheritedFrom(s, o, w) THEN RestorePriority(removed, o) ELSE removed
  BY DEF RemoveWaiter
<1> HIDE DEF removed, r
<1>3. /\ LockOwner(removed, w) = NoThread
      /\ \A x \in Threads \ {w} : LockOwner(removed, x) = LockOwner(s, x)
  BY <1>1 DEF LockOwner, ThreadTables, NotWaiting
<1>4. OwnersIn(removed, L)
  BY <1>3 DEF OwnersIn
<1>5. o \in L /\ o \in Threads /\ \A u \in L : u \in Threads /\ u # NoThread
  BY WaitersAssumption DEF OwnersIn
<1>6. ASSUME NEW u \in L \ {o}
      PROVE  Exact(removed, u)
  <2>1. \A x \in Threads : LockOwner(removed, x) = u <=> LockOwner(s, x) = u
    BY <1>3, <1>5, <1>6
  <2>2. Inherited(removed, u) = Inherited(s, u)
    BY <1>1, <1>5, <2>1, SameInherited
  <2> QED
    BY <1>1, <2>2 DEF AllExact, Exact
<1>7. CASE InheritedFrom(s, o, w)
  <2>1. AllExact(r, L) /\ r.waits = removed.waits
    BY <1>1, <1>2, <1>4, <1>5, <1>6, <1>7, RestoreRuns
  <2> QED
    BY <1>4, <2>1 DEF OwnersIn, LockOwner, r
<1>8. CASE ~InheritedFrom(s, o, w)
  <2>1. IsInherited(s, o, s.prio[o])
    BY <1>5, ExactIs DEF AllExact
  <2>2. s.base[o] \in Nat /\ s.prio[o] \in Nat
    BY <1>5, WaitersAssumption DEF ThreadTables
  <2>3. s.prio[o] # s.prio[w] \/ s.prio[o] = s.base[o]
    BY <1>8, <2>1, <2>2 DEF InheritedFrom, IsInherited
  <2>4. IsInherited(removed, o, removed.prio[o])
    <3>1. removed.prio[o] <= removed.base[o]
      BY <1>1, <2>1 DEF IsInherited
    <3>2. \A x \in Threads : LockOwner(removed, x) = o => removed.prio[o] <= removed.prio[x]
      BY <1>1, <1>3, <1>5, <2>1 DEF IsInherited
    <3>3. removed.prio[o] = removed.base[o]
          \/ \E x \in Threads : LockOwner(removed, x) = o /\ removed.prio[x] = removed.prio[o]
      BY <1>1, <1>3, <1>5, <2>1, <2>3 DEF IsInherited
    <3> QED
      BY <3>1, <3>2, <3>3 DEF IsInherited
  <2>5. AllExact(removed, L)
    BY <1>1, <1>5, <1>6, <2>4, ExactIs DEF AllExact
  <2> QED
    BY <1>2, <1>4, <1>8, <2>5 DEF r
<1> QED
  BY <1>7, <1>8

\* A hand-over from t to its first waiter n: the others come to wait on n, which is as
\* urgent as any of them already.
LEMMA RemoveWaiterByKeyExact ==
    ASSUME NEW s \in ThreadTables, NEW L \in SUBSET Threads, OwnersIn(s, L), AllExact(s, L),
           NEW t \in L, NEW lock \in Locks, NEW n \in Highest(s, WaitersByKey(s, t, lock)),
           n \in L, n # t
    PROVE  /\ AllExact(RemoveWaiterByKey(s, t, lock, n), L)
           /\ OwnersIn(RemoveWaiterByKey(s, t, lock, n), L)
<1> DEFINE all == WaitersByKey(s, t, lock)
           waits == [w \in Threads |-> IF w = n THEN NotWaiting
                                       ELSE IF w \in all \ {n} THEN [owner |-> n, lock |-> lock]
                                       ELSE s.waits[w]]
           moved == [s EXCEPT !.waits = waits]
           r == RemoveWaiterByKey(s, t, lock, n)
<1>1. /\ n \in Threads /\ LockOwner(s, n) = t /\ n \in all
      /\ \A v \in all : s.prio[n] <= s.prio[v] /\ LockOwner(s, v) = t /\ v \in Threads
  BY DEF Highest, WaitersByKey, Waiters
<1>2. r = IF InheritedFrom(s, t, n) THEN RestorePriority(moved, t) ELSE moved
  BY DEF RemoveWaiterByKey
<1> HIDE DEF all
<1>3. waits \in [Threads -> [owner : Threads, lock : Locks] \cup {NotWaiting}]
  BY <1>1 DEF ThreadTables
<1>4. waits[n] = NotWaiting
  BY <1>1
<1>5. \A w \in Threads \ {n} :
         waits[w] = IF w \in all THEN [owner |-> n, lock |-> lock] ELSE s.waits[w]
  OBVIOUS
<1> HIDE DEF waits
<1>6. moved \in ThreadTables /\ moved.waits = waits /\ moved.prio = s.prio /\ moved.base = s.base
  BY <1>3 DEF ThreadTables
<1> HIDE DEF moved, r
<1>7. /\ LockOwner(moved, n) = NoThread
      /\ \A w \in Threads \ {n} :
            LockOwner(moved, w) = IF w \in all THEN n ELSE LockOwner(s, w)
  BY <1>4, <1>5, <1>6 DEF LockOwner, NotWaiting
<1>8. OwnersIn(moved, L)
  BY <1>7 DEF OwnersIn
<1>9. t \in Threads /\ \A u \in L : u \in Threads /\ u # NoThread
  BY WaitersAssumption
<1>10. ASSUME NEW u \in L \ {t, n}
       PROVE  Exact(moved, u)
  <2>1. \A x \in Threads : LockOwner(moved, x) = u <=> LockOwner(s, x) = u
    BY <1>1, <1>7, <1>9, <1>10
  <2>2. Inherited(moved, u) = Inherited(s, u)
    BY <1>6, <1>9, <2>1, SameInherited
  <2> QED
    BY <1>6, <2>2 DEF AllExact, Exact
<1>11. Exact(moved, n)
  <2>1. IsInherited(s, n, s.prio[n])
    BY <1>9, ExactIs DEF AllExact
  <2>2. n \notin {x \in Threads : LockOwner(s, x) = n}
    BY <1>1
  <2>3. \A x \in Threads : LockOwner(s, x) = n => x \notin all /\ x # n
    BY <1>1
  <2>4. \A x \in Threads : LockOwner(moved, x) = n <=> LockOwner(s, x) = n \/ x \in all \ {n}
    BY <1>1, <1>7, <1>9, <2>3
  <2>5. moved.prio[n] <= moved.base[n]
    BY <1>6, <2>1 DEF IsInherited
  <2>6. \A x \in Threads : LockOwner(moved, x) = n => moved.prio[n] <= moved.prio[x]
    BY <1>1, <1>6, <2>1, <2>4 DEF IsInherited
  <2>7. moved.prio[n] = moved.base[n]
        \/ \E x \in Threads : LockOwner(moved, x) = n /\ moved.prio[x] = moved.prio[n]
    BY <1>6, <2>1, <2>4 DEF IsInherited
  <2>8. IsInherited(moved, n, moved.prio[n])
    BY <2>5, <2>6, <2>7 DEF IsInherited
  <2> QED
    BY <1>1, <1>6, <2>8, ExactIs
<1>12. CASE InheritedFrom(s, t, n)
  <2>1. AllExact(r, L) /\ r.waits = moved.waits
    BY <1>2, <1>6, <1>8, <1>9, <1>10, <1>11, <1>12, RestoreRuns
  <2> QED
    BY <1>8, <2>1 DEF OwnersIn, LockOwner, r
<1>13. CASE ~InheritedFrom(s, t, n)
  <2>1. IsInherited(s, t, s.prio[t])
    BY <1>9, ExactIs DEF AllExact
  <2>2. s.base[t] \in Nat /\ s.prio[t] \in Nat /\ \A x \in Threads : s.prio[x] \in Nat
    BY <1>9, WaitersAssumption DEF ThreadTables
  <2>3. s.prio[t] # s.prio[n] \/ s.prio[t] = s.base[t]
    BY <1>13, <2>1, <2>2 DEF InheritedFrom, IsInherited
  <2>4. \A x \in Threads : LockOwner(moved, x) = t <=> LockOwner(s, x) = t /\ x \notin all
    BY <1>1, <1>7, <1>9
  <2>5. moved.prio[t] <= moved.base[t]
    BY <1>6, <2>1 DEF IsInherited
  <2>6. \A x \in Threads : LockOwner(moved, x) = t => moved.prio[t] <= moved.prio[x]
    BY <1>6, <2>1, <2>4 DEF IsInherited
  <2>7. moved.prio[t] = moved.base[t]
        \/ \E x \in Threads : LockOwner(moved, x) = t /\ moved.prio[x] = moved.prio[t]
    <3>1. CASE s.prio[t] = s.base[t]
      BY <1>6, <3>1
    <3>2. CASE s.prio[t] # s.base[t]
      <4>1. PICK x \in Threads : LockOwner(s, x) = t /\ s.prio[x] = s.prio[t]
        BY <2>1, <3>2 DEF IsInherited
      <4>2. s.prio[t] <= s.prio[n] /\ s.prio[t] # s.prio[n]
        BY <1>1, <2>1, <2>3, <3>2 DEF IsInherited
      <4>3. x \notin all
        BY <1>1, <2>2, <4>1, <4>2
      <4> QED
        BY <1>6, <2>4, <4>1, <4>3
    <3> QED
      BY <3>1, <3>2
  <2>8. IsInherited(moved, t, moved.prio[t])
    BY <2>5, <2>6, <2>7 DEF IsInherited
  <2>9. Exact(moved, t)
    BY <1>6, <1>9, <2>8, ExactIs
  <2>10. AllExact(moved, L)
    BY <1>10, <1>11, <2>9 DEF AllExact
  <2> QED
    BY <1>2, <1>8, <1>13, <2>10 DEF r
<1> QED
  BY <1>12, <1>13

LEMMA SetBasePriorityExact ==
    ASSUME NEW s \in ThreadTables, NEW L \in SUBSET Threads, OwnersIn(s, L), AllExact(s, L),
           NEW t \in Threads, NEW p \in Priorities
    PROVE  /\ AllExact(SetBasePriority(s, t, p), L) /\ OwnersIn(SetBasePriority(s, t, p), L)
           /\ AllExact(IncreaseBasePriority(s, t, p), L)
           /\ OwnersIn(IncreaseBasePriority(s, t, p), L)
<1> DEFINE changed == [s EXCEPT !.base[t] = p]
           r == SetBasePriority(s, t, p)
<1>1. /\ changed \in ThreadTables /\ changed.waits = s.waits /\ changed.prio = s.prio
      /\ \A u \in Threads \ {t} : changed.base[u] = s.base[u]
  BY DEF ThreadTables
<1>2. r = RestorePriority(changed, t)
  BY DEF SetBasePriority
<1> HIDE DEF changed, r
<1>3. \A x \in Threads : LockOwner(changed, x) = LockOwner(s, x)
  BY <1>1 DEF LockOwner
<1>4. OwnersIn(changed, L)
  BY <1>3 DEF OwnersIn
<1>5. ASSUME NEW u \in L \ {t}
      PROVE  Exact(changed, u)
  <2>1. Inherited(changed, u) = Inherited(s, u)
    BY <1>1, <1>3, <1>5, SameInherited
  <2> QED
    BY <1>1, <2>1 DEF AllExact, Exact
<1>6. AllExact(r, L) /\ r.waits = changed.waits
  BY <1>1, <1>2, <1>4, <1>5, RestoreRuns
<1>7. OwnersIn(r, L)
  BY <1>4, <1>6 DEF OwnersIn, LockOwner
<1> QED
  BY <1>6, <1>7 DEF IncreaseBasePriority, r

\* An owner that goes away leaves the others exact, and nobody waits on it.
LEMMA ReleaseWaitersExact ==
    ASSUME NEW s \in ThreadTables, NEW L \in SUBSET Threads, OwnersIn(s, L), AllExact(s, L),
           NEW t \in Threads
    PROVE  /\ AllExact(ReleaseWaiters(s, t), L \ {t})
           /\ OwnersIn(ReleaseWaiters(s, t), L \ {t})
<1> DEFINE r == ReleaseWaiters(s, t)
<1>1. r \in ThreadTables /\ r.prio = s.prio /\ r.base = s.base
  BY ReleaseWaitersKeeps DEF ReleaseWaiters, ThreadTables
<1>2. \A w \in Threads : r.waits[w] = IF LockOwner(s, w) = t THEN NotWaiting ELSE s.waits[w]
  BY ReleaseWaitersKeeps
<1> HIDE DEF r
<1>3. \A w \in Threads :
         LockOwner(r, w) = IF LockOwner(s, w) = t THEN NoThread ELSE LockOwner(s, w)
  BY <1>2 DEF LockOwner, NotWaiting
<1>4. OwnersIn(r, L \ {t})
  BY <1>3 DEF OwnersIn
<1>5. ASSUME NEW u \in L \ {t}
      PROVE  Exact(r, u)
  <2>1. u \in Threads /\ u # NoThread
    BY WaitersAssumption
  <2>2. \A x \in Threads : LockOwner(r, x) = u <=> LockOwner(s, x) = u
    BY <1>3, <1>5, <2>1
  <2>3. Inherited(r, u) = Inherited(s, u)
    BY <1>1, <2>1, <2>2, SameInherited
  <2> QED
    BY <1>1, <2>3 DEF AllExact, Exact
<1>6. AllExact(r, L \ {t})
  BY <1>5 DEF AllExact
<1> QED
  BY <1>4, <1>6 DEF r

-----------------------------------------------------------------------------
(* Priority inheritance, in every state.                                   *)

\* The threads that have not been finalized.
Present == {t \in Threads : pc[t] # "gone"}

\* They are the only ones that are waited on or that a handle names, and each is exact.
InheritInv ==
    /\ OwnersIn(kt, Present) /\ AllExact(kt, Present)
    /\ handles \subseteq Present

LEMMA InheritInit == Init => InheritInv
<1> SUFFICES ASSUME Init PROVE InheritInv
  OBVIOUS
<1>1. PICK b \in [Threads -> GuestPriorities] :
         kt = [base |-> b, prio |-> b, waits |-> [t \in Threads |-> NotWaiting]]
  BY DEF Init
<1>2. kt \in ThreadTables /\ kt.base = b /\ kt.prio = b
  BY CondInit, <1>1 DEF CondInv, TypeOK
<1>3. \A w \in Threads : LockOwner(kt, w) = NoThread
  BY <1>1 DEF LockOwner, NotWaiting
<1>4. ASSUME NEW u \in Present
      PROVE  Exact(kt, u)
  <2>1. u \in Threads /\ u # NoThread
    BY WaitersAssumption DEF Present
  <2>2. kt.prio[u] \in Nat /\ kt.prio[u] = kt.base[u]
    BY <1>2, <2>1, WaitersAssumption DEF ThreadTables
  <2>3. IsInherited(kt, u, kt.prio[u])
    BY <1>3, <2>1, <2>2 DEF IsInherited
  <2> QED
    BY <1>2, <2>1, <2>3, ExactIs
<1>5. handles \subseteq Present
  BY DEF Init, Present
<1> QED
  BY <1>3, <1>4, <1>5 DEF InheritInv, OwnersIn, AllExact

\* No step but Finalize takes a thread away or brings it back, and none opens a handle.
LEMMA PresentKept ==
    ASSUME CondInv, NEW t \in Threads, Guest(t) \/ Kernel(t) \/ Environment(t), ~Finalize(t)
    PROVE  Present' = Present /\ handles' \subseteq handles
<1>1. pc \in [Threads -> Labels]
  BY DEF CondInv, TypeOK
<1>2. handles' \subseteq handles
  <2>1. CASE Guest(t)
    BY <2>1 DEF Guest, GuestTry, GuestRecheck, GuestLock, GuestUnlock, GuestWait, Signal, lifeVars
  <2>2. CASE Kernel(t)
    BY <2>2 DEF Kernel, WaitForAddressReturn, WaitForAddress, SignalToAddress,
       SignalToAddressStore, WaitTerminating, Wait, WaitStore, SignalOne, SignalEnd, WaitReturn,
       lifeVars
  <2>3. CASE Environment(t)
    BY <2>3 DEF Environment, Timeout, SetPriority, RequestTerminate, Exit, CloseHandle,
       Finalize, lifeVars
  <2> QED
    BY <2>1, <2>2, <2>3
<1>3. pc' = pc \/ (pc[t] # "gone" /\ \E l : l # "gone" /\ pc' = [pc EXCEPT ![t] = l])
  <2>1. CASE Guest(t)
    BY <2>1 DEF Guest, GuestTry, GuestRecheck, GuestLock, GuestUnlock, GuestWait, Signal,
       Goto, At
  <2>2. CASE Kernel(t)
    BY <2>2 DEF Kernel, WaitForAddressReturn, WaitForAddress, SignalToAddress,
       SignalToAddressStore, WaitTerminating, Wait, WaitStore, SignalOne, SignalEnd, WaitReturn,
       Goto, At
  <2>3. CASE Environment(t)
    BY <2>3 DEF Environment, Timeout, SetPriority, RequestTerminate, Exit, CloseHandle,
       Finalize, callVars, Goto, At
  <2> QED
    BY <2>1, <2>2, <2>3
<1>4. CASE pc' = pc
  BY <1>2, <1>4 DEF Present
<1>5. CASE pc[t] # "gone" /\ \E l : l # "gone" /\ pc' = [pc EXCEPT ![t] = l]
  <2>1. pc'[t] # "gone" /\ pc[t] # "gone" /\ \A u \in Threads \ {t} : pc'[u] = pc[u]
    BY <1>1, <1>5
  <2> QED
    BY <1>2, <2>1 DEF Present
<1> QED
  BY <1>3, <1>4, <1>5

\* What a step leaves of a table, for the threads present.
Fine(s) == OwnersIn(s, Present) /\ AllExact(s, Present)

LEMMA FineNow ==
    ASSUME CondInv, InheritInv
    PROVE  /\ kt \in ThreadTables /\ Present \in SUBSET Threads /\ Fine(kt)
           /\ handles \subseteq Present
           /\ \A w \in Threads : pc[w] # "waiting" => LockOwner(kt, w) = NoThread
<1>1. \A w \in Threads : pc[w] # "waiting" => LockOwner(kt, w) = NoThread
  BY LabelsOf
<1> QED
  BY <1>1 DEF InheritInv, Fine, CondInv, TypeOK, Present

LEMMA FineAdded ==
    ASSUME CondInv, InheritInv, NEW o \in handles, NEW w \in Threads, NEW lock \in Locks,
           LockOwner(kt, w) = NoThread
    PROVE  Fine(AddWaiter(kt, o, w, lock))
<1>1. kt \in ThreadTables /\ Present \in SUBSET Threads /\ o \in Present
  BY FineNow
<1>2. OwnersIn(kt, Present) /\ AllExact(kt, Present)
  BY DEF InheritInv
<1> DEFINE P == Present
<1> HIDE DEF P
<1>3. AllExact(AddWaiter(kt, o, w, lock), P) /\ OwnersIn(AddWaiter(kt, o, w, lock), P)
  BY <1>1, <1>2, AddWaiterExact DEF P
<1> QED
  BY <1>3 DEF Fine, P

LEMMA FinePassOn ==
    ASSUME CondInv, InheritInv, NEW t \in Threads, pc[t] \in {"unlock", "wait"}, PassOn(t)
    PROVE  Fine(kt')
<1>1. kt \in ThreadTables /\ Present \in SUBSET Threads /\ Fine(kt)
  BY FineNow
<1>2. CASE kt' = kt
  BY <1>1, <1>2
<1>3. ASSUME NEW n \in Highest(kt, WaitersByKey(kt, t, addr[t])),
             kt' = RemoveWaiterByKey(kt, t, addr[t], n)
      PROVE  Fine(kt')
  <2>1. n \in Threads /\ LockOwner(kt, n) = t
    BY DEF Highest, WaitersByKey, Waiters
  <2>2. pc[n] = "waiting"
    BY <2>1, LabelsOf, WaitersAssumption
  <2>3. n # t /\ n \in Present /\ t \in Present /\ addr[t] \in Locks
    BY <2>1, <2>2 DEF Present, CondInv, TypeOK
  <2>4. OwnersIn(kt, Present) /\ AllExact(kt, Present)
    BY DEF InheritInv
  <2> DEFINE P == Present
             r == RemoveWaiterByKey(kt, t, addr[t], n)
  <2>5. AllExact(r, P) /\ OwnersIn(r, P)
    <3> HIDE DEF P
    <3>1. /\ P \in SUBSET Threads /\ OwnersIn(kt, P) /\ AllExact(kt, P)
          /\ n # t /\ n \in P /\ t \in P /\ addr[t] \in Locks
      BY <1>1, <2>3, <2>4 DEF P
    <3> QED
      BY <1>1, <3>1, RemoveWaiterByKeyExact
  <2> HIDE DEF r
  <2>6. kt' = r
    BY <1>3 DEF r
  <2> QED
    BY <2>5, <2>6 DEF Fine
<1> QED
  BY <1>2, <1>3 DEF PassOn

LEMMA FineCancelled ==
    ASSUME CondInv, InheritInv, NEW s \in ThreadTables, Fine(s), NEW t \in Threads, NEW q,
           NEW res, CancelWait(s, q, t, res)
    PROVE  Fine(kt')
<1> DEFINE o == LockOwner(s, t)
<1>1. kt' = IF o # NoThread THEN RemoveWaiter(s, o, t) ELSE s
  BY DEF CancelWait
<1>2. Present \in SUBSET Threads /\ OwnersIn(s, Present) /\ AllExact(s, Present)
  BY DEF Fine, Present
<1>3. CASE o = NoThread
  BY <1>1, <1>3
<1>4. CASE o # NoThread
  <2> DEFINE P == Present
             r == RemoveWaiter(s, o, t)
  <2>1. AllExact(r, P) /\ OwnersIn(r, P)
    <3> HIDE DEF P
    <3>1. P \in SUBSET Threads /\ OwnersIn(s, P) /\ AllExact(s, P)
      BY <1>2 DEF P
    <3> QED
      BY <1>4, <3>1, RemoveWaiterExact
  <2>2. kt' = r
    BY <1>1, <1>4
  <2> HIDE DEF r
  <2> QED
    BY <2>1, <2>2 DEF Fine
<1> QED
  BY <1>3, <1>4

LEMMA FinePriority ==
    ASSUME CondInv, InheritInv, NEW t \in Threads, NEW p \in Priorities
    PROVE  /\ Fine(SetBasePriority(kt, t, p))
           /\ Fine(IncreaseBasePriority(kt, t, p))
           /\ IncreaseBasePriority(kt, t, p) \in ThreadTables
<1>1. kt \in ThreadTables /\ Present \in SUBSET Threads
  BY FineNow
<1>2. OwnersIn(kt, Present) /\ AllExact(kt, Present)
  BY DEF InheritInv
<1> DEFINE P == Present
<1> HIDE DEF P
<1>3. /\ AllExact(SetBasePriority(kt, t, p), P) /\ OwnersIn(SetBasePriority(kt, t, p), P)
      /\ AllExact(IncreaseBasePriority(kt, t, p), P)
      /\ OwnersIn(IncreaseBasePriority(kt, t, p), P)
  BY <1>1, <1>2, SetBasePriorityExact DEF P
<1>4. IncreaseBasePriority(kt, t, p) \in ThreadTables
  BY <1>1, SetBasePriorityKeeps
<1> QED
  BY <1>3, <1>4 DEF Fine, P

LEMMA FineKernel ==
    ASSUME CondInv, InheritInv, NEW t \in Threads, Kernel(t)
    PROVE  Fine(kt')
<1>1. kt \in ThreadTables /\ Fine(kt) /\ addr \in [Threads -> Locks]
  BY FineNow DEF CondInv, TypeOK
<1>2. CASE WaitForAddress(t)
  <2>1. seen[t] \in handles /\ pc[t] = "arbitrate" /\ addr[t] \in Locks
        /\ kt' = AddWaiter(kt, seen[t], t, addr[t])
    BY <1>1, <1>2 DEF WaitForAddress, At
  <2>2. LockOwner(kt, t) = NoThread
    BY <2>1, FineNow
  <2>3. Fine(AddWaiter(kt, seen[t], t, addr[t]))
    BY <2>1, <2>2, FineAdded
  <2> QED
    BY <2>1, <2>3
<1>3. CASE SignalToAddress(t) \/ Wait(t)
  <2>1. pc[t] \in {"unlock", "wait"} /\ PassOn(t)
    BY <1>3 DEF SignalToAddress, Wait, At
  <2> QED
    BY <2>1, FinePassOn
<1>4. CASE SignalOne(t)
  <2> DEFINE w == local.it
             m == addr[w]
             o == tag[m].owner
  <2>1. kt' = kt \/ (o \in handles /\ kt' = AddWaiter(kt, o, w, m))
    BY <1>4 DEF SignalOne
  <2>2. w \in ToSet(tree) /\ Tree(tree)
    BY <1>4 DEF SignalOne, At, CondInv, PlaceInv, PlaceOf
  <2>3. w \in Threads
    BY <2>2, ToSetIs DEF Tree
  <2>4. LockOwner(kt, w) = NoThread /\ m \in Locks
    BY <1>1, <2>2, <2>3, LabelsOf
  <2> HIDE DEF o, m, w
  <2>5. o \in handles => Fine(AddWaiter(kt, o, w, m))
    BY <2>3, <2>4, FineAdded
  <2> QED
    BY <1>1, <2>1, <2>5
<1>5. CASE \/ WaitForAddressReturn(t) \/ SignalToAddressStore(t) \/ WaitTerminating(t)
           \/ \E timeout \in Timeouts : WaitStore(t, timeout)
           \/ SignalEnd(t) \/ WaitReturn(t)
  <2>1. kt' = kt
    BY <1>5 DEF WaitForAddressReturn, SignalToAddressStore, WaitTerminating, WaitStore,
       SignalEnd, WaitReturn, waitVars
  <2> QED
    BY <1>1, <2>1
<1> QED
  BY <1>2, <1>3, <1>4, <1>5 DEF Kernel

LEMMA FineEnvironment ==
    ASSUME CondInv, InheritInv, NEW t \in Threads, Environment(t), ~Finalize(t)
    PROVE  Fine(kt')
<1>1. kt \in ThreadTables /\ Fine(kt)
  BY FineNow
<1>2. CASE Timeout(t)
  BY <1>1, <1>2, FineCancelled DEF Timeout
<1>3. ASSUME NEW p \in GuestPriorities, SetPriority(t, p)
      PROVE  Fine(kt')
  <2>1. kt' = SetBasePriority(kt, t, p) /\ p \in Priorities
    BY <1>3 DEF SetPriority, GuestPriorities
  <2>2. Fine(SetBasePriority(kt, t, p))
    BY <2>1, FinePriority
  <2> QED
    BY <2>1, <2>2
<1>4. CASE RequestTerminate(t)
  <2> DEFINE raised == IncreaseBasePriority(kt, t, TerminatingPriority)
             sorted == Resorted(tree, kt, raised)
  <2>1. Fine(raised) /\ raised \in ThreadTables
    BY FinePriority, ConditionVariableAssumption
  <2>2. kt' = raised \/ CancelWait(raised, sorted, t, "Terminated")
    BY <1>4 DEF RequestTerminate
  <2> HIDE DEF raised, sorted
  <2> QED
    BY <2>1, <2>2, FineCancelled
<1>5. CASE Exit(t) \/ CloseHandle(t)
  <2>1. kt' = kt
    BY <1>5 DEF Exit, CloseHandle, waitVars
  <2> QED
    BY <1>1, <2>1
<1> QED
  BY <1>2, <1>3, <1>4, <1>5 DEF Environment

LEMMA InheritFinalize ==
    ASSUME CondInv, InheritInv, NEW t \in Threads, Finalize(t)
    PROVE  InheritInv'
<1>1. /\ t \notin handles /\ handles' = handles /\ kt' = ReleaseWaiters(kt, t)
      /\ pc' = [pc EXCEPT ![t] = "gone"]
  BY DEF Finalize, Goto
<1>2. Present' = Present \ {t}
  BY <1>1 DEF Present, CondInv, TypeOK
<1>3. kt \in ThreadTables /\ Present \in SUBSET Threads /\ handles \subseteq Present
  BY FineNow
<1>4. OwnersIn(kt, Present) /\ AllExact(kt, Present)
  BY DEF InheritInv
<1> DEFINE P == Present
           Q == P \ {t}
           r == ReleaseWaiters(kt, t)
<1>5. AllExact(r, Q) /\ OwnersIn(r, Q)
  <2> HIDE DEF P
  <2>1. P \in SUBSET Threads /\ OwnersIn(kt, P) /\ AllExact(kt, P)
    BY <1>3, <1>4 DEF P
  <2> QED
    BY <1>3, <2>1, ReleaseWaitersExact
<1>6. handles' \subseteq Present'
  BY <1>1, <1>2, <1>3
<1> HIDE DEF r
<1>7. kt' = r /\ Present' = Q
  BY <1>1, <1>2 DEF r
<1> HIDE DEF Q
<1>8. AllExact(kt', Present') /\ OwnersIn(kt', Present')
  BY <1>5, <1>7
<1> QED
  BY <1>6, <1>8 DEF InheritInv

LEMMA InheritNext == CondInv /\ InheritInv /\ [Next]_vars => InheritInv'
<1> SUFFICES ASSUME CondInv, InheritInv, [Next]_vars PROVE InheritInv'
  OBVIOUS
<1>1. CASE UNCHANGED vars
  <2>1. kt' = kt /\ pc' = pc /\ handles' = handles
    BY <1>1 DEF vars, waitVars, callVars, lifeVars
  <2>2. Present' = Present
    BY <2>1 DEF Present
  <2> QED
    BY <2>1, <2>2 DEF InheritInv, OwnersIn, AllExact, Exact
<1>2. ASSUME NEW t \in Threads, Guest(t) \/ Kernel(t) \/ Environment(t)
      PROVE  InheritInv'
  <2>1. CASE Finalize(t)
    BY <2>1, InheritFinalize
  <2>2. CASE ~Finalize(t)
    <3>1. Present' = Present /\ handles' \subseteq handles
      BY <1>2, <2>2, PresentKept
    <3>2. Fine(kt')
      <4>1. CASE Guest(t)
        <5>1. kt' = kt
          BY <4>1 DEF Guest, GuestTry, GuestRecheck, GuestLock, GuestUnlock, GuestWait, Signal,
             waitVars
        <5> QED
          BY <5>1, FineNow
      <4> QED
        BY <1>2, <2>2, <4>1, FineKernel, FineEnvironment
    <3>3. handles' \subseteq Present'
      BY <3>1 DEF InheritInv
    <3>4. OwnersIn(kt', Present') /\ AllExact(kt', Present')
      <4> DEFINE P == Present
      <4>1. OwnersIn(kt', P) /\ AllExact(kt', P)
        BY <3>2 DEF Fine
      <4> QED
        BY <3>1, <4>1
    <3> QED
      BY <3>3, <3>4 DEF InheritInv
  <2> QED
    BY <2>1, <2>2
<1> QED
  BY <1>1, <1>2 DEF Next

\* Between any two steps every thread that is not finalized runs at the most urgent of
\* its own priority and that of everybody who waits on it, along chains and cycles of
\* owners of any length and for any number of threads and mutexes, though the code does
\* without RestorePriority when it believes nothing changed, and changes the owner of the
\* other waiters in a hand-over (KThread::AddWaiter, RemoveWaiter, RemoveWaiterByKey,
\* SetBasePriority, RequestTerminate and RestorePriority).
THEOREM PrioritiesInherited == Spec => []Inheritance
<1>1. InheritInv => Inheritance
  BY DEF InheritInv, AllExact, Exact, Present, Inheritance
<1> QED
  BY <1>1, InheritInit, InheritNext, CondInvariant, PTL DEF Spec

=============================================================================
