-------------------- MODULE KSynchronizationObjectProofs --------------------
(***************************************************************************)
(* What is proved of KSynchronizationObject: that a cancellation is never  *)
(* held back from a thread whose wait it could end; that the lists, pointer*)
(* by pointer, are exact, and the walk of a signal through one of them gets*)
(* to all that is left of it; and that waiting implements the abstract     *)
(* wait.                                                                   *)
(***************************************************************************)
EXTENDS KSynchronizationObject, SequenceTheorems, FiniteSetTheorems,
        WellFoundedInduction, TLAPS

\* A thread in ThreadState::Waiting is inside Wait or Sleep, its timer task goes
\* with the wait, and whoever waits inside Wait can be cancelled.
Places ==
    /\ pc \in [Threads -> {"run", "waiting", "sleeping", "dead"}]
    /\ waiting \subseteq Threads
    /\ \A t \in waiting : pc[t] \in {"waiting", "sleeping"}
    /\ timed \subseteq waiting
    /\ Sleepers \subseteq cancellable

CancelInv == Places /\ CancelIsDelivered

\* The end of a wait, for whatever reason, keeps the rest of the kernel's books:
\* a thread that does not wait is nobody's sleeper.
LEMMA EndedWait ==
    ASSUME CancelInv, NEW t \in Threads,
           pc' = pc,
           waiting' = waiting \ {t},
           timed' = timed \ {t},
           cancellable \ {t} \subseteq cancellable',
           cancelled' \subseteq cancelled
    PROVE  CancelInv'
<1>1. Sleepers' = Sleepers \ {t}
  BY DEF Sleepers
<1> QED
  BY <1>1 DEF CancelInv, Places, CancelIsDelivered

LEMMA CancelWaitEnds ==
    ASSUME CancelInv, NEW t \in Threads, NEW r,
           CancelWait(t, r), pc' = pc, cancelled' \subseteq cancelled
    PROVE  CancelInv'
<1>1. waiting' = waiting \ {t} /\ timed' = timed \ {t}
      /\ cancellable \ {t} \subseteq cancellable'
  BY DEF CancelWait, TimerCancelled, ClearCancellable
<1> QED
  BY <1>1, EndedWait

LEMMA NothingEnds ==
    ASSUME CancelInv,
           UNCHANGED <<pc, waiting, timed, cancellable>>, cancelled' \subseteq cancelled
    PROVE  CancelInv'
<1>1. Sleepers' = Sleepers
  BY DEF Sleepers
<1> QED
  BY <1>1 DEF CancelInv, Places, CancelIsDelivered

LEMMA CancelInvKept ==
    ASSUME CancelInv, [Next]_vars
    PROVE  CancelInv'
<1>1. ASSUME NEW t \in Threads, NEW os \in Calls, NEW timeout,
             WaitIsCancelled(t, os, timeout)
      PROVE  CancelInv'
  BY <1>1, NothingEnds DEF WaitIsCancelled
<1>2. ASSUME NEW t \in Threads, NEW os \in Calls, NEW timeout,
             WaitBegins(t, os, timeout)
      PROVE  CancelInv'
  <2>1. Sleepers' = Sleepers \cup {t}
    BY <1>2 DEF WaitBegins, Sleepers, CancelInv, Places
  <2>2. timed' \subseteq waiting'
    BY <1>2 DEF WaitBegins, CancelInv, Places
  <2> QED
    BY <1>2, <2>1, <2>2
    DEF WaitBegins, IsWaitCancelled, CancelInv, Places, CancelIsDelivered
<1>3. ASSUME NEW t \in Threads, Sleep(t)
      PROVE  CancelInv'
  <2>1. Sleepers' = Sleepers
    BY <1>3 DEF Sleep, Sleepers, CancelInv, Places
  <2> QED
    BY <1>3, <2>1 DEF Sleep, CancelInv, Places, CancelIsDelivered
<1>4. ASSUME NEW t \in Threads, WaitReturn(t)
      PROVE  CancelInv'
  <2>1. Sleepers' = Sleepers
    BY <1>4 DEF WaitReturn, Sleepers, CancelInv, Places
  <2> QED
    BY <1>4, <2>1 DEF WaitReturn, CancelInv, Places, CancelIsDelivered
<1>5. ASSUME NEW t \in Threads, Timeout(t)
      PROVE  CancelInv'
  BY <1>5, CancelWaitEnds DEF Timeout
<1>6. ASSUME NEW t \in Threads, WaitCancel(t)
      PROVE  CancelInv'
  <2>1. CASE t \in waiting /\ t \in cancellable
    BY <1>6, <2>1, CancelWaitEnds DEF WaitCancel
  <2>2. CASE ~(t \in waiting /\ t \in cancellable)
    <3>1. Sleepers' = Sleepers /\ t \notin Sleepers
      BY <1>6, <2>2 DEF WaitCancel, Sleepers, CancelInv, Places
    <3> QED
      BY <1>6, <2>2, <3>1 DEF WaitCancel, CancelInv, Places, CancelIsDelivered
  <2> QED
    BY <2>1, <2>2
<1>7. ASSUME NEW t \in Threads, RequestTerminate(t)
      PROVE  CancelInv'
  <2>1. CASE t \in waiting
    BY <1>7, <2>1, CancelWaitEnds DEF RequestTerminate
  <2>2. CASE t \notin waiting
    BY <1>7, <2>2, NothingEnds DEF RequestTerminate
  <2> QED
    BY <2>1, <2>2
<1>8. ASSUME NEW t \in Threads, Exit(t)
      PROVE  CancelInv'
  <2>1. Sleepers' = Sleepers
    BY <1>8 DEF Exit, Sleepers, CancelInv, Places
  <2> QED
    BY <1>8, <2>1 DEF Exit, CancelInv, Places, CancelIsDelivered
<1>9. ASSUME NEW o \in Objects, Signal(o) \/ Reset(o)
      PROVE  CancelInv'
  BY <1>9, NothingEnds DEF Signal, Reset, threadVars
<1>10. CASE NotifyStep
  <2>1. CASE notify.cur[1] \in waiting
    <3>1. notify.cur[1] \in Threads
      BY <2>1 DEF CancelInv, Places
    <3>2. NotifyThread(notify.cur[1]) /\ pc' = pc /\ cancelled' = cancelled
      BY <1>10, <2>1 DEF NotifyStep
    <3> QED
      BY <3>1, <3>2, EndedWait DEF NotifyThread, TimerCancelled, ClearCancellable
  <2>2. CASE notify.cur[1] \notin waiting
    BY <1>10, <2>2, NothingEnds DEF NotifyStep
  <2> QED
    BY <2>1, <2>2
<1>11. CASE NotifyEnd
  BY <1>11, NothingEnds DEF NotifyEnd, threadVars
<1>12. CASE UNCHANGED vars
  BY <1>12, NothingEnds DEF vars, threadVars
<1> QED
  BY <1>1, <1>2, <1>3, <1>4, <1>5, <1>6, <1>7, <1>8, <1>9, <1>10, <1>11, <1>12
  DEF Next

\* A cancellation that is kept for the next wait (m_wait_cancelled) does not miss the
\* present one: no thread sleeps inside KSynchronizationObject::Wait while a
\* cancellation of it is pending, in whatever order waits, sleeps, cancellations,
\* signals, timeouts and terminations come.
THEOREM CancelsDelivered == Spec => []CancelIsDelivered
<1>1. Init => CancelInv
  BY DEF Init, CancelInv, Places, CancelIsDelivered, Sleepers
<1>2. CancelInv /\ [Next]_vars => CancelInv'
  BY CancelInvKept
<1>3. CancelInv => CancelIsDelivered
  BY DEF CancelInv
<1> QED
  BY <1>1, <1>2, <1>3, PTL DEF Spec

-----------------------------------------------------------------------------
(* Induction: of numbers that have some property one is the least.         *)

LEMMA Least ==
    ASSUME NEW N, N \subseteq Nat, N # {}
    PROVE  \E x \in N : \A y \in N : x <= y
<1> DEFINE R == OpToRel(<, Nat)
<1>1. IsWellFoundedOn(R, Nat)
  BY ONLY NatLessThanWellFounded
<1>2. R = {ss \in Nat \X Nat : ss[1] < ss[2]}
  BY DEF OpToRel
<1> HIDE DEF R
<1>3. PICK x \in N : \A y \in N : <<y, x>> \notin R
  BY <1>1, WFMin
<1>4. ASSUME NEW y \in Nat, NEW z \in Nat, y < z
      PROVE  <<y, z>> \in R
  BY <1>2, <1>4
<1>5. ASSUME NEW y \in N
      PROVE  x <= y
  <2>1. x \in Nat /\ y \in Nat /\ <<y, x>> \notin R
    BY <1>3
  <2>2. ~(y < x)
    BY <2>1, <1>4
  <2> QED
    BY <2>1, <2>2
<1> QED
  BY <1>5

-----------------------------------------------------------------------------
(* The list of one object.                                                 *)

\* The nodes of o's list, in order.
ListOf(l, o, q) ==
    /\ q \in Seq(Node)
    /\ \A i, j \in 1..Len(q) : q[i] = q[j] => i = j
    /\ l.head[o] = IF Len(q) = 0 THEN Null ELSE q[1]
    /\ l.tail[o] = IF Len(q) = 0 THEN Null ELSE q[Len(q)]
    /\ \A i \in 1..Len(q) : l.next[q[i]] = IF i = Len(q) THEN Null ELSE q[i + 1]

Has(q, n) == \E i \in 1..Len(q) : q[i] = n

LEMMA NodeFinite == IsFiniteSet(Node) /\ Cardinality(Node) \in Nat /\ Null \notin Node
<1>1. IsFiniteSet(1..MaxObjects)
  BY FS_Interval, SynchronizationAssumption
<1>2. IsFiniteSet(Threads \X (1..MaxObjects))
  BY <1>1, FS_Product, SynchronizationAssumption
<1> QED
  BY <1>2, FS_CardinalityType, SynchronizationAssumption DEF Node

LEMMA NoMoreThanNodes ==
    ASSUME NEW q \in Seq(Node), \A i, j \in 1..Len(q) : q[i] = q[j] => i = j
    PROVE  Len(q) <= Cardinality(Node)
<1>1. Len(q) \in Nat /\ IsFiniteSet(1..Len(q)) /\ Cardinality(1..Len(q)) = Len(q)
  <2>1. Len(q) \in Nat /\ 1 \in Int /\ Len(q) \in Int
    OBVIOUS
  <2>2. Cardinality(1..Len(q)) = IF 1 > Len(q) THEN 0 ELSE Len(q) - 1 + 1
    BY <2>1, FS_Interval
  <2>3. IsFiniteSet(1..Len(q))
    BY <2>1, FS_Interval
  <2> QED
    BY <2>1, <2>2, <2>3
<1>2. q \in Injection(1..Len(q), Node)
  <2>1. q \in [1..Len(q) -> Node]
    OBVIOUS
  <2>2. DOMAIN q = 1..Len(q)
    OBVIOUS
  <2> QED
    BY <2>1, <2>2 DEF Injection, IsInjective
<1>3. Cardinality(1..Len(q)) <= Cardinality(Node)
  BY <1>2, NodeFinite, FS_Injection
<1> QED
  BY <1>1, <1>3

\* Path goes through the list and then stays at Null.
LEMMA PathIs ==
    ASSUME NEW l, NEW o, NEW q, ListOf(l, o, q)
    PROVE  /\ Len(q) \in 0..Cardinality(Node)
           /\ DOMAIN Path(l, o) = 0..Cardinality(Node)
           /\ \A k \in 0..Cardinality(Node) :
                 Path(l, o)[k] = IF k < Len(q) THEN q[k + 1] ELSE Null
<1> DEFINE size == Cardinality(Node)
           Right(f) == f = [k \in 0..size |->
                               IF k = 0 THEN l.head[o]
                               ELSE IF f[k - 1] = Null THEN Null
                               ELSE l.next[f[k - 1]]]
           g == [k \in 0..size |-> IF k < Len(q) THEN q[k + 1] ELSE Null]
           p == Path(l, o)
<1>1. size \in Nat /\ Null \notin Node
  BY NodeFinite
<1>2. Len(q) \in Nat /\ Len(q) <= size
  BY NoMoreThanNodes DEF ListOf
<1> HIDE DEF size
<1>3. ASSUME NEW k \in 0..size
      PROVE  g[k] = IF k = 0 THEN l.head[o] ELSE IF g[k - 1] = Null THEN Null ELSE l.next[g[k - 1]]
  <2>1. CASE k = 0
    BY <1>1, <1>2, <2>1 DEF ListOf
  <2>2. CASE k # 0
    <3>1. k - 1 \in 0..size /\ (k - 1) + 1 = k
      BY <1>1, <2>2
    <3>2. g[k - 1] = IF k - 1 < Len(q) THEN q[k] ELSE Null
      BY <3>1
    <3>3. CASE k - 1 < Len(q)
      <4>1. k \in 1..Len(q) /\ g[k - 1] = q[k] /\ q[k] # Null
        BY <1>1, <1>2, <2>2, <3>2, <3>3 DEF ListOf
      <4>2. l.next[q[k]] = IF k = Len(q) THEN Null ELSE q[k + 1]
        BY <4>1 DEF ListOf
      <4> QED
        BY <1>2, <2>2, <4>1, <4>2
    <3>4. CASE ~(k - 1 < Len(q))
      BY <1>1, <1>2, <2>2, <3>2, <3>4
    <3> QED
      BY <3>3, <3>4
  <2> QED
    BY <2>1, <2>2
<1>4. Right(g)
  <2>1. g = [k \in 0..size |-> g[k]]
    OBVIOUS
  <2> HIDE DEF g
  <2> QED
    BY <1>3, <2>1
<1>5. p = CHOOSE f : Right(f)
  BY DEF Path, size
<1> HIDE DEF g
<1>6. Right(p)
  <2> HIDE DEF Right, p
  <2> QED
    BY <1>4, <1>5, Zenon
<1> HIDE DEF p
<1>7. DOMAIN p = 0..size
  BY <1>6
<1>8. ASSUME NEW k \in 0..size
      PROVE  p[k] = IF k = 0 THEN l.head[o] ELSE IF p[k - 1] = Null THEN Null ELSE l.next[p[k - 1]]
  BY <1>6
<1> HIDE DEF Right
<1> DEFINE N == {k \in 0..size : p[k] # g[k]}
<1>9. N = {}
  <2> SUFFICES ASSUME N # {} PROVE FALSE
    OBVIOUS
  <2>1. N \subseteq Nat
    BY <1>1
  <2> HIDE DEF N
  <2>2. PICK k \in N : \A j \in N : k <= j
    BY <2>1, Least
  <2>3. k \in 0..size /\ p[k] # g[k]
    BY DEF N
  <2>4. CASE k = 0
    BY <1>3, <1>8, <2>3, <2>4
  <2>5. CASE k # 0
    <3>1. k - 1 \in 0..size /\ k - 1 \notin N
      BY <1>1, <2>2, <2>3, <2>5
    <3>2. p[k - 1] = g[k - 1]
      BY <3>1 DEF N
    <3> QED
      BY <1>3, <1>8, <2>3, <2>5, <3>2
  <2> QED
    BY <2>4, <2>5
<1>10. \A k \in 0..size : p[k] = IF k < Len(q) THEN q[k + 1] ELSE Null
  BY <1>9 DEF g
<1> QED
  BY <1>1, <1>2, <1>7, <1>10 DEF p, size

LEMMA LinkedIs ==
    ASSUME NEW l, NEW o, NEW q, ListOf(l, o, q)
    PROVE  Linked(l, o) = {n \in Node : Has(q, n)}
<1> DEFINE size == Cardinality(Node)
           p == Path(l, o)
<1>1. size \in Nat /\ Null \notin Node
  BY NodeFinite
<1>2. Len(q) \in 0..size /\ \A k \in 0..size : p[k] = IF k < Len(q) THEN q[k + 1] ELSE Null
  BY PathIs
<1>3. Linked(l, o) = {p[k] : k \in 0..size} \ {Null}
  BY DEF Linked
<1> HIDE DEF size, p
<1>4. ASSUME NEW k \in 0..size, p[k] # Null
      PROVE  p[k] \in Node /\ Has(q, p[k])
  <2>1. k + 1 \in 1..Len(q) /\ p[k] = q[k + 1]
    BY <1>1, <1>2, <1>4
  <2> QED
    BY <2>1 DEF Has, ListOf
<1>5. ASSUME NEW n \in Node, Has(q, n)
      PROVE  n \in {p[k] : k \in 0..size} /\ n # Null
  <2>1. PICK i \in 1..Len(q) : q[i] = n
    BY <1>5 DEF Has
  <2>2. i - 1 \in 0..size /\ i - 1 < Len(q) /\ (i - 1) + 1 = i
    BY <1>1, <1>2
  <2>3. p[i - 1] = n
    BY <1>2, <2>1, <2>2
  <2> QED
    BY <1>1, <2>2, <2>3
<1> QED
  BY <1>3, <1>4, <1>5

-----------------------------------------------------------------------------
(* All lists: where says of each node in which object's list it is.        *)

Good(l, where) ==
    /\ l \in Lists
    /\ where \in [Node -> Objects \cup {NoObject}]
    /\ \A o \in Objects : \E q : /\ ListOf(l, o, q)
                                 /\ \A n \in Node : where[n] = o <=> Has(q, n)

\* A list is not touched by a change of another's head, tail or nodes.
LEMMA SameList ==
    ASSUME NEW l, NEW k, NEW o, NEW q, ListOf(l, o, q),
           k.head[o] = l.head[o], k.tail[o] = l.tail[o],
           \A n \in Node : Has(q, n) => k.next[n] = l.next[n]
    PROVE  ListOf(k, o, q)
<1>1. \A i \in 1..Len(q) : q[i] \in Node /\ Has(q, q[i])
  BY DEF ListOf, Has
<1>2. \A i \in 1..Len(q) : k.next[q[i]] = IF i = Len(q) THEN Null ELSE q[i + 1]
  BY <1>1 DEF ListOf
<1> QED
  BY <1>2 DEF ListOf

LEMMA LinkNodeGood ==
    ASSUME NEW l, NEW where, Good(l, where), NEW o \in Objects, NEW n \in Node,
           where[n] = NoObject, l.next[n] = Null
    PROVE  /\ Good(LinkNode(l, o, n), [where EXCEPT ![n] = o])
           /\ \A m \in Node : where[m] = NoObject => LinkNode(l, o, n).next[m] = l.next[m]
<1> DEFINE k == LinkNode(l, o, n)
           there == [where EXCEPT ![n] = o]
<1>1. PICK q : ListOf(l, o, q) /\ \A m \in Node : where[m] = o <=> Has(q, m)
  BY DEF Good
<1>2. l \in Lists /\ where \in [Node -> Objects \cup {NoObject}] /\ o # NoObject
  BY SynchronizationAssumption DEF Good
<1>3. /\ q \in Seq(Node) /\ Len(q) \in Nat /\ Null \notin Node
      /\ l.head[o] = IF Len(q) = 0 THEN Null ELSE q[1]
      /\ l.tail[o] = IF Len(q) = 0 THEN Null ELSE q[Len(q)]
  BY <1>1, NodeFinite DEF ListOf
<1>4. /\ k.head = IF l.tail[o] = Null THEN [l.head EXCEPT ![o] = n] ELSE l.head
      /\ k.next = IF l.tail[o] = Null THEN l.next ELSE [l.next EXCEPT ![l.tail[o]] = n]
      /\ k.tail = [l.tail EXCEPT ![o] = n]
      /\ k = [head |-> k.head, next |-> k.next, tail |-> k.tail]
  BY DEF LinkNode
<1> HIDE DEF k, there
<1>5. l.tail[o] # Null => l.tail[o] \in Node /\ where[l.tail[o]] = o
  BY <1>1, <1>3 DEF Has
<1>6. k.next = l.next \/ (l.tail[o] \in Node /\ k.next = [l.next EXCEPT ![l.tail[o]] = n])
  BY <1>4, <1>5
<1>7. \A m \in Node : where[m] # o => k.next[m] = l.next[m]
  BY <1>2, <1>3, <1>5, <1>6 DEF Lists
<1>8. k \in Lists
  <2>1. /\ l.head \in [Objects -> NodeOrNull] /\ l.next \in [Node -> NodeOrNull]
        /\ l.tail \in [Objects -> NodeOrNull] /\ n \in NodeOrNull
    BY <1>2 DEF Lists, NodeOrNull
  <2>2. k.head \in [Objects -> NodeOrNull]
    BY <1>4, <2>1
  <2>3. k.next \in [Node -> NodeOrNull]
    BY <1>6, <2>1
  <2>4. k.tail \in [Objects -> NodeOrNull]
    BY <1>4, <2>1
  <2> QED
    BY <1>4, <2>2, <2>3, <2>4 DEF Lists
<1>9. /\ there \in [Node -> Objects \cup {NoObject}] /\ there[n] = o
      /\ \A m \in Node \ {n} : there[m] = where[m]
  BY <1>2 DEF there
<1> DEFINE r == Append(q, n)
<1>10. /\ r \in Seq(Node) /\ Len(r) = Len(q) + 1 /\ r[Len(q) + 1] = n
       /\ \A i \in 1..Len(q) : r[i] = q[i]
  BY <1>3
<1> HIDE DEF r
<1>11. ~Has(q, n)
  BY <1>1, <1>2
<1>12. ListOf(k, o, r)
  <2>1. \A i \in 1..Len(r) : i \in 1..Len(q) \/ i = Len(q) + 1
    BY <1>3, <1>10
  <2>2. ASSUME NEW i \in 1..Len(r), NEW j \in 1..Len(r), r[i] = r[j]
        PROVE  i = j
    <3>1. \A a \in 1..Len(q) : q[a] # n
      BY <1>11 DEF Has
    <3> QED
      BY <1>1, <1>10, <2>1, <2>2, <3>1 DEF ListOf
  <2>3. k.head[o] = r[1] /\ k.tail[o] = r[Len(r)] /\ Len(r) # 0
    <3>1. k.tail[o] = n
      BY <1>2, <1>4 DEF Lists
    <3>2. CASE Len(q) = 0
      BY <1>2, <1>3, <1>4, <1>10, <3>1, <3>2 DEF Lists
    <3>3. CASE Len(q) # 0
      <4>1. q[Len(q)] \in Node /\ 1 \in 1..Len(q)
        BY <1>3, <3>3
      <4> QED
        BY <1>3, <1>4, <1>10, <3>1, <3>3, <4>1
    <3> QED
      BY <3>2, <3>3
  <2>4. ASSUME NEW i \in 1..Len(r)
        PROVE  k.next[r[i]] = IF i = Len(r) THEN Null ELSE r[i + 1]
    <3>1. CASE i = Len(q) + 1
      <4>1. r[i] = n /\ k.next[n] = l.next[n]
        BY <1>2, <1>7, <1>10, <3>1
      <4> QED
        BY <1>10, <3>1, <4>1
    <3>2. CASE i = Len(q)
      <4>1. l.tail[o] = q[i] /\ q[i] \in Node /\ r[i] = q[i] /\ r[i + 1] = n /\ i # Len(r)
        BY <1>3, <1>10, <3>2
      <4>2. k.next[q[i]] = n
        BY <1>2, <1>3, <1>4, <4>1 DEF Lists
      <4> QED
        BY <4>1, <4>2
    <3>3. CASE i \in 1..(Len(q) - 1)
      <4>1. /\ i \in 1..Len(q) /\ i + 1 \in 1..Len(q) /\ r[i] = q[i] /\ r[i + 1] = q[i + 1]
            /\ i # Len(r) /\ q[i] \in Node /\ Len(q) \in 1..Len(q)
        BY <1>3, <1>10, <3>3
      <4>2. q[i] # q[Len(q)] /\ l.next[q[i]] = q[i + 1]
        BY <1>1, <1>3, <3>3, <4>1 DEF ListOf
      <4>3. k.next[q[i]] = l.next[q[i]]
        <5>1. l.tail[o] = q[Len(q)]
          BY <1>3, <4>1
        <5> QED
          BY <1>2, <1>6, <4>1, <4>2, <5>1 DEF Lists
      <4> QED
        BY <4>1, <4>2, <4>3
    <3> QED
      BY <1>3, <1>10, <3>1, <3>2, <3>3
  <2> QED
    BY <1>10, <2>2, <2>3, <2>4 DEF ListOf
<1>13. \A m \in Node : there[m] = o <=> Has(r, m)
  <2>1. \A m \in Node : Has(r, m) <=> Has(q, m) \/ m = n
    BY <1>3, <1>10 DEF Has
  <2> QED
    BY <1>1, <1>9, <2>1
<1>14. ASSUME NEW p \in Objects, p # o
       PROVE  \E s : ListOf(k, p, s) /\ \A m \in Node : there[m] = p <=> Has(s, m)
  <2>1. PICK s : ListOf(l, p, s) /\ \A m \in Node : where[m] = p <=> Has(s, m)
    BY DEF Good
  <2>2. k.head[p] = l.head[p] /\ k.tail[p] = l.tail[p]
    BY <1>2, <1>4, <1>14 DEF Lists
  <2>3. \A m \in Node : Has(s, m) => k.next[m] = l.next[m]
    BY <1>7, <1>14, <2>1
  <2>4. ListOf(k, p, s)
    BY <2>1, <2>2, <2>3, SameList
  <2>5. p # NoObject
    BY SynchronizationAssumption
  <2> QED
    BY <1>2, <1>9, <1>14, <2>1, <2>4, <2>5
<1>15. Good(k, there)
  BY <1>8, <1>9, <1>12, <1>13, <1>14 DEF Good
<1>16. \A m \in Node : where[m] = NoObject => k.next[m] = l.next[m]
  BY <1>2, <1>7
<1> QED
  BY <1>15, <1>16 DEF k, there

\* What k, l without node n of o's list, still has of l.
OnlyListChanged(l, k, where, o, n) ==
    /\ \A m \in Node : where[m] # o \/ m = n => k.next[m] = l.next[m]
    /\ k.head[o] = IF l.head[o] = n THEN l.next[n] ELSE l.head[o]
    /\ \A p \in Objects \ {o} : k.head[p] = l.head[p]

\* UnlinkNode finds the node, closes the list behind it and keeps its next.
LEMMA UnlinkNodeGood ==
    ASSUME NEW l, NEW where, Good(l, where), NEW o \in Objects, NEW n \in Node, where[n] = o
    PROVE  /\ Good(UnlinkNode(l, o, n), [where EXCEPT ![n] = NoObject])
           /\ OnlyListChanged(l, UnlinkNode(l, o, n), where, o, n)
<1> DEFINE there == [where EXCEPT ![n] = NoObject]
           path == Path(l, o)
           a == CHOOSE a \in DOMAIN path : path[a] = n /\ \A j \in 0..(a - 1) : path[j] # n
           prev == PrevOf(l, o, a)
           k == UnlinkNode(l, o, n)
           size == Cardinality(Node)
<1>1. PICK q : ListOf(l, o, q) /\ \A m \in Node : where[m] = o <=> Has(q, m)
  BY DEF Good
<1>2. l \in Lists /\ where \in [Node -> Objects \cup {NoObject}] /\ o # NoObject
  BY SynchronizationAssumption DEF Good
<1>3. /\ q \in Seq(Node) /\ Len(q) \in Nat /\ Null \notin Node /\ size \in Nat
      /\ l.head[o] = IF Len(q) = 0 THEN Null ELSE q[1]
      /\ l.tail[o] = IF Len(q) = 0 THEN Null ELSE q[Len(q)]
      /\ \A i, j \in 1..Len(q) : q[i] = q[j] => i = j
  BY <1>1, NodeFinite DEF ListOf
<1>4. PICK c \in 1..Len(q) : q[c] = n
  BY <1>1 DEF Has
<1>5. /\ Len(q) \in 0..size /\ DOMAIN path = 0..size
      /\ \A i \in 0..size : path[i] = IF i < Len(q) THEN q[i + 1] ELSE Null
  BY <1>1, PathIs
<1>6. /\ k.head = IF a = 0 THEN [l.head EXCEPT ![o] = l.next[n]] ELSE l.head
      /\ k.next = IF a = 0 THEN l.next ELSE [l.next EXCEPT ![prev] = l.next[n]]
      /\ k.tail = IF l.tail[o] = n THEN [l.tail EXCEPT ![o] = prev] ELSE l.tail
      /\ k = [head |-> k.head, next |-> k.next, tail |-> k.tail]
  BY DEF UnlinkNode
<1> HIDE DEF k, there, path, size
<1>7. a = c - 1
  <2> DEFINE Is(i) == i \in DOMAIN path /\ path[i] = n /\ \A j \in 0..(i - 1) : path[j] # n
  <2>1. ASSUME NEW i \in DOMAIN path, path[i] = n
        PROVE  i = c - 1
    <3>1. i \in 0..size /\ i < Len(q) /\ q[i + 1] = n
      BY <1>3, <1>5, <2>1
    <3>2. i + 1 \in 1..Len(q)
      BY <1>3, <3>1
    <3>3. i + 1 = c
      BY <1>3, <1>4, <3>1, <3>2
    <3> QED
      BY <3>1, <3>3
  <2>2. c - 1 \in DOMAIN path /\ path[c - 1] = n
    <3>1. c - 1 \in 0..size /\ c - 1 < Len(q) /\ (c - 1) + 1 = c
      BY <1>3, <1>5
    <3> QED
      BY <1>4, <1>5, <3>1
  <2>3. ASSUME NEW j \in 0..((c - 1) - 1)
        PROVE  path[j] # n
    <3>1. j \in DOMAIN path /\ j # c - 1
      BY <1>3, <1>5
    <3> QED
      BY <2>1, <3>1
  <2>4. \E i \in DOMAIN path : path[i] = n /\ \A j \in 0..(i - 1) : path[j] # n
    BY <2>2, <2>3
  <2>5. a \in DOMAIN path /\ path[a] = n
    <3> HIDE DEF a
    <3>1. a = CHOOSE i \in DOMAIN path : path[i] = n /\ \A j \in 0..(i - 1) : path[j] # n
      BY DEF a
    <3> QED
      BY <2>4, <3>1
  <2> HIDE DEF a
  <2> QED
    BY <2>1, <2>5
<1>8. prev = IF c = 1 THEN Null ELSE q[c - 1]
  <2> HIDE DEF a
  <2>1. CASE c = 1
    BY <1>7, <2>1 DEF PrevOf
  <2>2. CASE c # 1
    <3>1. a # 0 /\ a - 1 = c - 2 /\ c - 2 \in 0..size /\ c - 2 < Len(q) /\ (c - 2) + 1 = c - 1
      BY <1>3, <1>5, <1>7, <2>2
    <3>2. prev = path[c - 2]
      BY <3>1 DEF PrevOf, path
    <3>3. path[c - 2] = q[c - 1]
      BY <1>5, <3>1
    <3> QED
      BY <2>2, <3>2, <3>3
  <2> QED
    BY <2>1, <2>2
<1> HIDE DEF prev, a
<1>9. a = 0 <=> c = 1
  BY <1>3, <1>7
<1>10. c # 1 => c - 1 \in 1..Len(q) /\ prev \in Node /\ prev = q[c - 1] /\ prev # n /\ where[prev] = o
  BY <1>1, <1>3, <1>4, <1>8 DEF Has
<1>11. \A m \in Node : m # prev \/ c = 1 => k.next[m] = l.next[m]
  BY <1>2, <1>6, <1>9, <1>10 DEF Lists
<1>12. c # 1 => k.next[prev] = l.next[n]
  BY <1>2, <1>6, <1>9, <1>10 DEF Lists
<1>13. l.head[o] = n <=> c = 1
  <2>1. 1 \in 1..Len(q)
    BY <1>3
  <2> QED
    BY <1>3, <1>4, <2>1
<1>14. /\ k.head[o] = IF l.head[o] = n THEN l.next[n] ELSE l.head[o]
       /\ \A p \in Objects \ {o} : k.head[p] = l.head[p] /\ k.tail[p] = l.tail[p]
  BY <1>2, <1>6, <1>9, <1>13 DEF Lists
<1>15. k \in Lists
  <2>1. /\ l.head \in [Objects -> NodeOrNull] /\ l.next \in [Node -> NodeOrNull]
        /\ l.tail \in [Objects -> NodeOrNull] /\ prev \in NodeOrNull /\ l.next[n] \in NodeOrNull
    BY <1>2, <1>8, <1>10 DEF Lists, NodeOrNull
  <2>2. k.head \in [Objects -> NodeOrNull]
    BY <1>6, <2>1
  <2>3. k.next \in [Node -> NodeOrNull]
    BY <1>6, <2>1
  <2>4. k.tail \in [Objects -> NodeOrNull]
    BY <1>6, <2>1
  <2> QED
    BY <1>6, <2>2, <2>3, <2>4 DEF Lists
<1>16. /\ there \in [Node -> Objects \cup {NoObject}] /\ there[n] = NoObject
       /\ \A m \in Node \ {n} : there[m] = where[m]
  BY <1>2 DEF there
<1> DEFINE r == [i \in 1..(Len(q) - 1) |-> IF i < c THEN q[i] ELSE q[i + 1]]
<1>17. /\ r \in Seq(Node) /\ Len(r) = Len(q) - 1
       /\ \A i \in 1..(Len(q) - 1) : r[i] = IF i < c THEN q[i] ELSE q[i + 1]
  <2>1. Len(q) - 1 \in Nat
    BY <1>3
  <2>2. \A i \in 1..(Len(q) - 1) : q[i] \in Node /\ q[i + 1] \in Node
    BY <1>3
  <2>3. r \in [1..(Len(q) - 1) -> Node]
    BY <2>2
  <2> QED
    BY <2>1, <2>3
<1> HIDE DEF r
\* From(i) is where r[i] was in q.
<1> DEFINE From(i) == IF i < c THEN i ELSE i + 1
<1>18. \A i \in 1..Len(r) : From(i) \in 1..Len(q) /\ From(i) # c /\ r[i] = q[From(i)]
  BY <1>3, <1>17
<1>19. \A j \in 1..Len(q) : j # c => \E i \in 1..Len(r) : From(i) = j
  <2> TAKE j \in 1..Len(q)
  <2> HAVE j # c
  <2>1. CASE j < c
    <3>1. j \in 1..Len(r) /\ From(j) = j
      BY <1>3, <1>17, <2>1
    <3> QED
      BY <3>1
  <2>2. CASE ~(j < c)
    <3>1. j - 1 \in 1..Len(r) /\ From(j - 1) = j
      BY <1>3, <1>17, <2>2
    <3> QED
      BY <3>1
  <2> QED
    BY <2>1, <2>2
<1>20. ListOf(k, o, r)
  <2>1. ASSUME NEW i \in 1..Len(r), NEW j \in 1..Len(r), r[i] = r[j]
        PROVE  i = j
    <3>1. From(i) = From(j)
      <4> HIDE DEF From
      <4> QED
        BY <1>3, <1>18, <2>1
    <3> QED
      BY <1>3, <1>17, <3>1
  <2>2. k.head[o] = IF Len(r) = 0 THEN Null ELSE r[1]
    <3>1. CASE c # 1
      <4>1. 1 \in 1..Len(r) /\ From(1) = 1
        BY <1>3, <1>17, <3>1
      <4> QED
        BY <1>3, <1>13, <1>14, <1>18, <3>1, <4>1
    <3>2. CASE c = 1
      <4>1. k.head[o] = l.next[q[1]] /\ 1 \in 1..Len(q)
        BY <1>3, <1>4, <1>13, <1>14, <3>2
      <4>2. l.next[q[1]] = IF 1 = Len(q) THEN Null ELSE q[1 + 1]
        <5>1. \A j \in 1..Len(q) : l.next[q[j]] = IF j = Len(q) THEN Null ELSE q[j + 1]
          BY <1>1 DEF ListOf
        <5> QED
          BY <4>1, <5>1
      <4> QED
        BY <1>3, <1>17, <3>2, <4>1, <4>2
    <3> QED
      BY <3>1, <3>2
  <2>3. k.tail[o] = IF Len(r) = 0 THEN Null ELSE r[Len(r)]
    <3>1. l.tail[o] = q[Len(q)] /\ Len(q) \in 1..Len(q)
      BY <1>3
    <3>2. CASE c = Len(q)
      <4>1. l.tail[o] = n /\ k.tail[o] = prev
        BY <1>2, <1>4, <1>6, <3>1, <3>2 DEF Lists
      <4>2. Len(r) # 0 => Len(r) = c - 1 /\ r[Len(r)] = q[c - 1] /\ c # 1
        BY <1>3, <1>17, <3>2
      <4> QED
        BY <1>3, <1>8, <1>17, <3>2, <4>1, <4>2
    <3>3. CASE c # Len(q)
      <4>1. l.tail[o] # n
        BY <1>3, <1>4, <3>1, <3>3
      <4>2. k.tail[o] = q[Len(q)]
        BY <1>6, <3>1, <4>1
      <4>3. Len(r) # 0 /\ r[Len(r)] = q[Len(q)]
        BY <1>3, <1>17, <3>3
      <4> QED
        BY <4>2, <4>3
    <3> QED
      BY <3>2, <3>3
  <2>4. ASSUME NEW i \in 1..Len(r)
        PROVE  k.next[r[i]] = IF i = Len(r) THEN Null ELSE r[i + 1]
    <3>1. \A j \in 1..Len(q) : l.next[q[j]] = IF j = Len(q) THEN Null ELSE q[j + 1]
      BY <1>1 DEF ListOf
    <3>2. CASE i + 1 = c
      <4>1. r[i] = q[c - 1] /\ c # 1 /\ r[i] = prev
        BY <1>3, <1>10, <1>17, <3>2
      <4>2. k.next[r[i]] = l.next[q[c]]
        BY <1>4, <1>12, <4>1
      <4>3. i = Len(r) <=> c = Len(q)
        BY <1>3, <1>17, <3>2
      <4>4. i # Len(r) => r[i + 1] = q[c + 1]
        BY <1>3, <1>17, <3>2
      <4> QED
        BY <3>1, <4>2, <4>3, <4>4
    <3>3. CASE i + 1 # c
      <4>1. r[i] = q[From(i)] /\ From(i) \in 1..Len(q) /\ From(i) # c /\ (c # 1 => From(i) # c - 1)
        BY <1>3, <1>17, <1>18, <3>3
      <4>2. r[i] \in Node /\ (r[i] # prev \/ c = 1)
        <5> HIDE DEF From
        <5> QED
          BY <1>3, <1>10, <4>1
      <4>3. k.next[r[i]] = l.next[q[From(i)]]
        <5> HIDE DEF From
        <5> QED
          BY <1>11, <4>1, <4>2
      <4>4. i = Len(r) <=> From(i) = Len(q)
        BY <1>3, <1>17, <3>3
      <4>5. i # Len(r) => r[i + 1] = q[From(i) + 1]
        BY <1>3, <1>17, <3>3
      <4> HIDE DEF From
      <4> QED
        BY <3>1, <4>1, <4>3, <4>4, <4>5
    <3> QED
      BY <3>2, <3>3
  <2> QED
    BY <1>17, <2>1, <2>2, <2>3, <2>4 DEF ListOf
<1>21. \A m \in Node : there[m] = o <=> Has(r, m)
  <2>1. \A m \in Node : Has(r, m) <=> Has(q, m) /\ m # n
    <3> HIDE DEF From
    <3>1. ASSUME NEW m \in Node, Has(r, m)
          PROVE  Has(q, m) /\ m # n
      BY <1>3, <1>4, <1>18, <3>1 DEF Has
    <3>2. ASSUME NEW m \in Node, Has(q, m), m # n
          PROVE  Has(r, m)
      <4>1. PICK j \in 1..Len(q) : q[j] = m
        BY <3>2 DEF Has
      <4>2. j # c
        BY <1>4, <3>2, <4>1
      <4> QED
        BY <1>18, <1>19, <4>1, <4>2 DEF Has
    <3> QED
      BY <3>1, <3>2
  <2> QED
    BY <1>1, <1>2, <1>16, <2>1
<1>22. ASSUME NEW p \in Objects, p # o
       PROVE  \E s : ListOf(k, p, s) /\ \A m \in Node : there[m] = p <=> Has(s, m)
  <2>1. PICK s : ListOf(l, p, s) /\ \A m \in Node : where[m] = p <=> Has(s, m)
    BY DEF Good
  <2>2. \A m \in Node : Has(s, m) => k.next[m] = l.next[m]
    BY <1>10, <1>11, <1>22, <2>1
  <2>3. ListOf(k, p, s)
    BY <1>14, <1>22, <2>1, <2>2, SameList
  <2>4. p # NoObject
    BY SynchronizationAssumption
  <2> QED
    BY <1>2, <1>16, <1>22, <2>1, <2>3, <2>4
<1>23. Good(k, there)
  BY <1>15, <1>16, <1>20, <1>21, <1>22 DEF Good
<1>24. \A m \in Node : where[m] # o \/ m = n => k.next[m] = l.next[m]
  BY <1>10, <1>11
<1>25. OnlyListChanged(l, k, where, o, n)
  BY <1>14, <1>24 DEF OnlyListChanged
<1> QED
  BY <1>23, <1>25 DEF k, there

\* The walk of NotifyAvailable in o's list, when the nodes D it has passed are out of it:
\* from cur the nexts lead through D, in vain, to the head of what is left.
Trail(l, where, o, cur, D) ==
    /\ D \subseteq Node
    /\ cur \in D \cup {l.head[o]}
    /\ \A n \in D : where[n] = NoObject /\ l.next[n] \in D \cup {l.head[o]}

LEMMA UnlinkNodeTrail ==
    ASSUME NEW l, NEW where, Good(l, where), NEW o \in Objects, NEW n \in Node, where[n] = o,
           NEW p \in Objects, NEW cur, NEW D, Trail(l, where, p, cur, D)
    PROVE  \E E \in SUBSET (D \cup {n}) :
              Trail(UnlinkNode(l, o, n), [where EXCEPT ![n] = NoObject], p, cur, E)
<1> DEFINE k == UnlinkNode(l, o, n)
           there == [where EXCEPT ![n] = NoObject]
<1>1. /\ \A m \in Node : where[m] # o \/ m = n => k.next[m] = l.next[m]
      /\ k.head[o] = IF l.head[o] = n THEN l.next[n] ELSE l.head[o]
      /\ \A r \in Objects \ {o} : k.head[r] = l.head[r]
  <2>1. Good(l, where) /\ o \in Objects /\ n \in Node /\ where[n] = o
    OBVIOUS
  <2>2. OnlyListChanged(l, k, where, o, n)
    BY <2>1, UnlinkNodeGood, Zenon
  <2> HIDE DEF k
  <2> QED
    BY <2>2 DEF OnlyListChanged
<1>2. o # NoObject
  BY SynchronizationAssumption
<1>3. there[n] = NoObject /\ \A m \in Node \ {n} : there[m] = where[m]
  BY DEF Good
<1> HIDE DEF k, there
<1>4. D \subseteq Node /\ \A m \in D : there[m] = NoObject /\ k.next[m] = l.next[m]
  BY <1>1, <1>2, <1>3 DEF Trail
<1>5. CASE p = o /\ l.head[o] = n
  <2> DEFINE E == D \cup {n}
  <2>1. k.head[p] = l.next[n] /\ k.next[n] = l.next[n]
    BY <1>1, <1>5
  <2>2. cur \in E /\ \A m \in E : there[m] = NoObject /\ k.next[m] \in E \cup {k.head[p]}
    BY <1>3, <1>4, <1>5, <2>1 DEF Trail
  <2>3. Trail(k, there, p, cur, E)
    BY <1>4, <2>2 DEF Trail
  <2> QED
    BY <2>3 DEF k, there
<1>6. CASE ~(p = o /\ l.head[o] = n)
  <2>1. k.head[p] = l.head[p]
    BY <1>1, <1>6
  <2>2. Trail(k, there, p, cur, D)
    BY <1>4, <2>1 DEF Trail
  <2> QED
    BY <2>2 DEF k, there
<1> QED
  BY <1>5, <1>6

\* One turn of the loops in Wait and in the end of a wait.
LinkTurn(kind, l, t, os, i) ==
    IF kind = "link" THEN LinkNode(l, os[i], <<t, i>>) ELSE UnlinkNode(l, os[i], <<t, i>>)
LinkLoop(f, kind, l, t, os, size) ==
    f = [i \in 0..size |-> IF i = 0 THEN l ELSE LinkTurn(kind, f[i - 1], t, os, i)]

LEMMA LoopRecursion ==
    ASSUME NEW kind, NEW l, NEW t, NEW os, NEW size \in Nat
    PROVE  \E f : LinkLoop(f, kind, l, t, os, size)
<1> DEFINE Upto(f, n) == f = [i \in 0..n |->
                                 IF i = 0 THEN l ELSE LinkTurn(kind, f[i - 1], t, os, i)]
           N == {n \in Nat : ~\E f : Upto(f, n)}
<1>1. N = {}
  <2> SUFFICES ASSUME N # {} PROVE FALSE
    OBVIOUS
  <2>1. PICK n \in N : \A m \in N : n <= m
    <3> HIDE DEF N
    <3>1. N \subseteq Nat
      BY DEF N
    <3> QED
      BY <3>1, Least
  <2>2. n # 0
    <3> SUFFICES ASSUME n = 0 PROVE FALSE
      OBVIOUS
    <3> DEFINE f == [i \in 0..n |-> l]
    <3>1. Upto(f, n)
      <4> SUFFICES \A i \in 0..n : l = IF i = 0 THEN l ELSE LinkTurn(kind, f[i - 1], t, os, i)
        OBVIOUS
      <4> QED
        OBVIOUS
    <3> HIDE DEF f, Upto
    <3> QED
      BY <2>1, <3>1, Zenon
  <2>3. n - 1 \in Nat /\ n - 1 \notin N
    <3>1. n \in Nat
      OBVIOUS
    <3> HIDE DEF N
    <3> QED
      BY <2>1, <2>2, <3>1
  <2>4. PICK g : Upto(g, n - 1)
    BY <2>3
  <2> DEFINE f == [i \in 0..n |-> IF i = n THEN LinkTurn(kind, g[n - 1], t, os, n) ELSE g[i]]
  <2>5. ASSUME NEW i \in 0..n
        PROVE  f[i] = IF i = 0 THEN l ELSE LinkTurn(kind, f[i - 1], t, os, i)
    <3>1. CASE i = n
      BY <3>1, <2>2, <2>3
    <3>2. CASE i # n
      <4>1. i \in 0..(n - 1) /\ (i # 0 => i - 1 \in 0..(n - 1))
        BY <3>2, <2>1
      <4>2. g[i] = IF i = 0 THEN l ELSE LinkTurn(kind, g[i - 1], t, os, i)
        BY <4>1, <2>4
      <4> QED
        BY <4>1, <4>2, <3>2
    <3> QED
      BY <3>1, <3>2
  <2>6. Upto(f, n)
    <3>1. DOMAIN f = 0..n /\ f = [i \in 0..n |-> f[i]]
      OBVIOUS
    <3> HIDE DEF f
    <3> QED
      BY <3>1, <2>5
  <2> QED
    BY <2>1, <2>6
<1> QED
  BY <1>1 DEF LinkLoop

LEMMA LinkNodesRuns ==
    ASSUME NEW l, NEW t, NEW os, Len(os) \in Nat
    PROVE  \E f : /\ f[0] = l
                  /\ \A i \in 1..Len(os) : f[i] = LinkNode(f[i - 1], os[i], <<t, i>>)
                  /\ LinkNodes(l, t, os) = f[Len(os)]
<1> DEFINE size == Len(os)
           Right(f) == f = [i \in 0..size |->
                               IF i = 0 THEN l ELSE LinkNode(f[i - 1], os[i], <<t, i>>)]
           h == CHOOSE f : Right(f)
<1>1. \E f : Right(f)
  <2>1. PICK f : LinkLoop(f, "link", l, t, os, size)
    <3>1. size \in Nat
      OBVIOUS
    <3> HIDE DEF size
    <3> QED
      BY <3>1, LoopRecursion, Zenon
  <2> HIDE DEF size
  <2>2. Right(f)
    BY <2>1 DEF LinkTurn, LinkLoop
  <2> QED
    BY <2>2
<1>2. Right(h)
  <2> HIDE DEF Right
  <2> QED
    BY <1>1, Zenon
<1>3. LinkNodes(l, t, os) = h[size]
  BY DEF LinkNodes
<1> HIDE DEF h
<1>4. h[0] = l /\ \A i \in 1..size : h[i] = LinkNode(h[i - 1], os[i], <<t, i>>)
  BY <1>2
<1> QED
  BY <1>3, <1>4

LEMMA UnlinkNodesRuns ==
    ASSUME NEW l, NEW t, NEW os, os = objects[t], Len(os) \in Nat
    PROVE  \E f : /\ f[0] = l
                  /\ \A i \in 1..Len(os) : f[i] = UnlinkNode(f[i - 1], os[i], <<t, i>>)
                  /\ UnlinkNodes(l, t) = f[Len(os)]
<1> DEFINE size == Len(os)
           Right(f) == f = [i \in 0..size |->
                               IF i = 0 THEN l ELSE UnlinkNode(f[i - 1], os[i], <<t, i>>)]
           h == CHOOSE f : Right(f)
<1>1. \E f : Right(f)
  <2>1. PICK f : LinkLoop(f, "unlink", l, t, os, size)
    <3>1. size \in Nat
      OBVIOUS
    <3> HIDE DEF size
    <3> QED
      BY <3>1, LoopRecursion, Zenon
  <2> HIDE DEF size
  <2>2. Right(f)
    BY <2>1 DEF LinkTurn, LinkLoop
  <2> QED
    BY <2>2
<1>2. Right(h)
  <2> HIDE DEF Right
  <2> QED
    BY <1>1, Zenon
<1>3. UnlinkNodes(l, t) = h[size]
  BY DEF UnlinkNodes
<1> HIDE DEF h
<1>4. h[0] = l /\ \A i \in 1..size : h[i] = UnlinkNode(h[i - 1], os[i], <<t, i>>)
  BY <1>2
<1> QED
  BY <1>3, <1>4

LEMMA CallsType ==
    ASSUME NEW os \in Calls
    PROVE  /\ Len(os) \in 0..MaxObjects /\ DOMAIN os = 1..Len(os)
           /\ os \in Seq(Objects)
           /\ \A i \in 1..Len(os) : os[i] \in Objects /\ i \in 1..MaxObjects
<1>1. PICK n \in 0..MaxObjects : os \in [1..n -> Objects]
  BY DEF Calls
<1>2. n \in Nat
  BY SynchronizationAssumption
<1>3. Len(os) = n /\ os \in Seq(Objects)
  BY <1>1, <1>2
<1> QED
  BY <1>1, <1>2, <1>3, SynchronizationAssumption

\* Wait: each of t's nodes, in no list before, comes into the list of its object.
LinkNodesDone(l, k, where, t, os) ==
    LET there == [n \in Node |-> IF n[1] = t /\ n[2] \in DOMAIN os THEN os[n[2]] ELSE where[n]]
    IN /\ Good(k, there)
       /\ \A n \in Node : n[1] # t /\ where[n] = NoObject => k.next[n] = l.next[n]

LEMMA LinkNodesGood ==
    ASSUME NEW l, NEW where, Good(l, where), NEW t \in Threads, NEW os \in Calls,
           \A n \in Node : n[1] = t => where[n] = NoObject /\ l.next[n] = Null
    PROVE  LinkNodesDone(l, LinkNodes(l, t, os), where, t, os)
<1> DEFINE size == Len(os)
           W(i) == [n \in Node |-> IF n[1] = t /\ n[2] \in 1..i THEN os[n[2]] ELSE where[n]]
<1>1. /\ size \in Nat /\ size <= MaxObjects /\ DOMAIN os = 1..size
      /\ \A i \in 1..size : os[i] \in Objects /\ <<t, i>> \in Node
  BY CallsType, SynchronizationAssumption DEF Node
<1>2. PICK f : /\ f[0] = l /\ \A i \in 1..size : f[i] = LinkNode(f[i - 1], os[i], <<t, i>>)
               /\ LinkNodes(l, t, os) = f[size]
  BY <1>1, LinkNodesRuns
<1> HIDE DEF size
<1> DEFINE Done(i) == /\ Good(f[i], W(i))
                      /\ \A n \in Node : W(i)[n] = NoObject => f[i].next[n] = l.next[n]
<1>3. where \in [Node -> Objects \cup {NoObject}]
  BY DEF Good
<1>4. Done(0)
  <2>1. W(0) = where
    BY <1>3
  <2> HIDE DEF W
  <2> QED
    BY <1>2, <2>1
<1>5. ASSUME NEW i \in 1..size, Done(i - 1)
      PROVE  Done(i)
  <2> DEFINE n == <<t, i>>
             w == W(i - 1)
             k == f[i - 1]
  <2>1. n \in Node /\ n[1] = t /\ n[2] = i /\ os[i] \in Objects
    BY <1>1
  <2>2. w[n] = NoObject
    <3>1. n[2] \notin 1..(i - 1) /\ where[n] = NoObject
      BY <1>1, <2>1
    <3> QED
      BY <2>1, <3>1
  <2>3. W(i) = [w EXCEPT ![n] = os[i]]
    <3>1. \A m \in Node : m[1] = t /\ m[2] \in 1..i <=> m = n \/ (m[1] = t /\ m[2] \in 1..(i - 1))
      BY <1>1, <2>1 DEF Node
    <3> QED
      BY <2>1, <3>1
  <2> DEFINE v == W(i)
  <2> HIDE DEF w, k, n, W
  <2>4. Good(k, w) /\ \A m \in Node : w[m] = NoObject => k.next[m] = l.next[m]
    BY <1>5 DEF w, k
  <2>5. k.next[n] = Null
    BY <2>1, <2>2, <2>4
  <2>6. /\ Good(LinkNode(k, os[i], n), [w EXCEPT ![n] = os[i]])
        /\ \A m \in Node : w[m] = NoObject => LinkNode(k, os[i], n).next[m] = k.next[m]
    BY <2>1, <2>2, <2>4, <2>5, LinkNodeGood
  <2>7. f[i] = LinkNode(k, os[i], n)
    BY <1>2 DEF k, n
  <2>8. \A m \in Node : v[m] = NoObject => w[m] = NoObject
    <3>1. os[i] # NoObject /\ w \in [Node -> Objects \cup {NoObject}]
      BY <2>1, <2>4, SynchronizationAssumption DEF Good
    <3> QED
      BY <2>3, <3>1 DEF v
  <2>9. Good(f[i], v)
    BY <2>3, <2>6, <2>7 DEF v
  <2>10. \A m \in Node : v[m] = NoObject => f[i].next[m] = l.next[m]
    BY <2>4, <2>6, <2>7, <2>8
  <2> QED
    BY <2>9, <2>10 DEF v
<1>6. Done(size)
  <2> HIDE DEF Done
  <2> DEFINE N == {i \in 0..size : ~Done(i)}
  <2> SUFFICES ASSUME N # {} PROVE FALSE
    BY <1>1
  <2>1. N \subseteq Nat
    BY <1>1
  <2> HIDE DEF N
  <2>2. PICK i \in N : \A j \in N : i <= j
    BY <2>1, Least
  <2>3. i \in 0..size /\ ~Done(i)
    BY DEF N
  <2>4. i \in 1..size /\ i - 1 \in 0..size
    BY <1>1, <1>4, <2>3
  <2>5. Done(i - 1)
    BY <2>2, <2>4 DEF N
  <2> QED
    BY <1>5, <2>3, <2>4, <2>5
<1>7. W(size) = [n \in Node |-> IF n[1] = t /\ n[2] \in DOMAIN os THEN os[n[2]] ELSE where[n]]
  BY <1>1
<1>8. \A n \in Node : n[1] # t /\ where[n] = NoObject => W(size)[n] = NoObject
  OBVIOUS
<1> HIDE DEF W
<1> QED
  BY <1>2, <1>6, <1>7, <1>8 DEF LinkNodesDone

\* The end of a wait: t's nodes leave all lists, and the walk of a signal, which stood at
\* the head of its list, goes on to what is left of it.
UnlinkNodesDone(l, k, where, t) ==
    LET there == [n \in Node |-> IF n[1] = t THEN NoObject ELSE where[n]]
    IN /\ Good(k, there)
       /\ \A n \in Node : where[n] = NoObject => k.next[n] = l.next[n]
       /\ \A o \in Objects : \E D \in SUBSET {n \in Node : n[1] = t} :
             Trail(k, there, o, l.head[o], D)

LEMMA UnlinkNodesGood ==
    ASSUME NEW l, NEW where, Good(l, where), NEW t \in Threads, NEW os \in Calls,
           os = objects[t],
           \A n \in Node : n[1] = t =>
               where[n] = IF n[2] \in DOMAIN os THEN os[n[2]] ELSE NoObject
    PROVE  UnlinkNodesDone(l, UnlinkNodes(l, t), where, t)
<1> DEFINE size == Len(os)
           T == {n \in Node : n[1] = t}
           W(i) == [n \in Node |-> IF n[1] = t /\ n[2] \in 1..i THEN NoObject ELSE where[n]]
<1>1. /\ size \in Nat /\ size <= MaxObjects /\ DOMAIN os = 1..size
      /\ \A i \in 1..size : os[i] \in Objects /\ <<t, i>> \in Node
  BY CallsType, SynchronizationAssumption DEF Node
<1>2. PICK f : /\ f[0] = l /\ \A i \in 1..size : f[i] = UnlinkNode(f[i - 1], os[i], <<t, i>>)
               /\ UnlinkNodes(l, t) = f[size]
  BY <1>1, UnlinkNodesRuns
<1> HIDE DEF size
<1> DEFINE Done(i) == /\ Good(f[i], W(i))
                      /\ \A n \in Node : where[n] = NoObject => f[i].next[n] = l.next[n]
                      /\ \A o \in Objects : \E D \in SUBSET T : Trail(f[i], W(i), o, l.head[o], D)
<1>3. where \in [Node -> Objects \cup {NoObject}]
  BY DEF Good
<1>4. Done(0)
  <2>1. W(0) = where
    BY <1>3
  <2> HIDE DEF W
  <2>2. \A o \in Objects : Trail(l, where, o, l.head[o], {})
    BY DEF Trail
  <2> QED
    BY <1>2, <2>1, <2>2
<1>5. ASSUME NEW i \in 1..size, Done(i - 1)
      PROVE  Done(i)
  <2> DEFINE n == <<t, i>>
             w == W(i - 1)
             k == f[i - 1]
  <2>1. n \in Node /\ n[1] = t /\ n[2] = i /\ os[i] \in Objects /\ n \in T
    BY <1>1
  <2>2. w[n] = os[i]
    <3>1. n[2] \notin 1..(i - 1) /\ where[n] = os[i]
      BY <1>1, <2>1
    <3> QED
      BY <2>1, <3>1
  <2>3. W(i) = [w EXCEPT ![n] = NoObject]
    <3>1. \A m \in Node : m[1] = t /\ m[2] \in 1..i <=> m = n \/ (m[1] = t /\ m[2] \in 1..(i - 1))
      BY <1>1, <2>1 DEF Node
    <3> QED
      BY <2>1, <3>1
  <2>4. \A m \in Node : where[m] = NoObject => w[m] = NoObject
    OBVIOUS
  <2> DEFINE v == W(i)
  <2> HIDE DEF w, k, n, W, T
  <2>5. /\ Good(k, w) /\ \A m \in Node : where[m] = NoObject => k.next[m] = l.next[m]
        /\ \A o \in Objects : \E D \in SUBSET T : Trail(k, w, o, l.head[o], D)
    BY <1>5 DEF w, k
  <2>6. /\ Good(UnlinkNode(k, os[i], n), [w EXCEPT ![n] = NoObject])
        /\ \A m \in Node : w[m] # os[i] => UnlinkNode(k, os[i], n).next[m] = k.next[m]
    <3>1. Good(k, w) /\ os[i] \in Objects /\ n \in Node /\ w[n] = os[i]
      BY <2>1, <2>2, <2>5
    <3>2. Good(UnlinkNode(k, os[i], n), [w EXCEPT ![n] = NoObject])
      BY <3>1, UnlinkNodeGood, Zenon
    <3>3. \A m \in Node : w[m] # os[i] => UnlinkNode(k, os[i], n).next[m] = k.next[m]
      <4>1. OnlyListChanged(k, UnlinkNode(k, os[i], n), w, os[i], n)
        BY <3>1, UnlinkNodeGood, Zenon
      <4> QED
        BY <4>1 DEF OnlyListChanged
    <3> QED
      BY <3>2, <3>3, Zenon
  <2>7. f[i] = UnlinkNode(k, os[i], n)
    BY <1>2 DEF k, n
  <2>8. Good(f[i], v)
    BY <2>3, <2>6, <2>7 DEF v
  <2>9. \A m \in Node : where[m] = NoObject => f[i].next[m] = l.next[m]
    BY <2>1, <2>4, <2>5, <2>6, <2>7, SynchronizationAssumption
  <2>10. ASSUME NEW o \in Objects
         PROVE  \E D \in SUBSET T : Trail(f[i], v, o, l.head[o], D)
    <3>1. PICK D \in SUBSET T : Trail(k, w, o, l.head[o], D)
      BY <2>5
    <3>2. \E E \in SUBSET (D \cup {n}) :
             Trail(UnlinkNode(k, os[i], n), [w EXCEPT ![n] = NoObject], o, l.head[o], E)
      BY <2>1, <2>2, <2>5, <3>1, UnlinkNodeTrail
    <3>3. D \cup {n} \subseteq T
      BY <2>1
    <3> QED
      BY <2>3, <2>7, <3>2, <3>3 DEF v
  <2> QED
    BY <2>8, <2>9, <2>10 DEF v
<1>6. Done(size)
  <2> HIDE DEF Done
  <2> DEFINE N == {i \in 0..size : ~Done(i)}
  <2> SUFFICES ASSUME N # {} PROVE FALSE
    BY <1>1
  <2>1. N \subseteq Nat
    BY <1>1
  <2> HIDE DEF N
  <2>2. PICK i \in N : \A j \in N : i <= j
    BY <2>1, Least
  <2>3. i \in 0..size /\ ~Done(i)
    BY DEF N
  <2>4. i \in 1..size /\ i - 1 \in 0..size
    BY <1>1, <1>4, <2>3
  <2>5. Done(i - 1)
    BY <2>2, <2>4 DEF N
  <2> QED
    BY <1>5, <2>3, <2>4, <2>5
<1> DEFINE there == [n \in Node |-> IF n[1] = t THEN NoObject ELSE where[n]]
<1>7. W(size) = there
  <2>1. \A n \in Node : n[1] = t /\ n[2] \notin 1..size => where[n] = NoObject
    BY <1>1
  <2> QED
    BY <2>1
<1> HIDE DEF W, T, there
<1>8. /\ Good(f[size], there)
      /\ \A n \in Node : where[n] = NoObject => f[size].next[n] = l.next[n]
      /\ \A o \in Objects : \E D \in SUBSET T : Trail(f[size], there, o, l.head[o], D)
  BY <1>6, <1>7
<1>9. UnlinkNodesDone(l, f[size], where, t)
  BY <1>8 DEF UnlinkNodesDone, T, there
<1> QED
  BY <1>2, <1>9

-----------------------------------------------------------------------------
(* The lists of the program, and the walk of a signal through one of them. *)

\* In which object's list each node is.
Where ==
    [n \in Node |-> IF n[1] \in Sleepers /\ n[2] \in DOMAIN objects[n[1]]
                    THEN objects[n[1]][n[2]] ELSE NoObject]

\* The nodes on the stacks of calls whose wait is over but which have not returned.
Passed == {n \in Node : pc[n[1]] = "waiting" /\ n[1] \notin waiting}

\* The nodes that are on nobody's stack lead nowhere.
FreshNodes == \A n \in Node : pc[n[1]] # "waiting" => list.next[n] = Null

\* The walk gets from where it stands to all that is left of the list.
WalkGoesOn ==
    notify # Idle =>
        \E D \in SUBSET Passed : Trail(list, Where, notify.obj, notify.cur, D)

ListsKept == Good(list, Where) /\ FreshNodes /\ WalkGoesOn
ListInv == TypeOK /\ CancelInv /\ ListsKept

\* The first node of a list that is not empty is in it.
LEMMA HeadOfList ==
    ASSUME NEW l, NEW where, Good(l, where), NEW o \in Objects
    PROVE  /\ l.head[o] # Null => l.head[o] \in Node /\ where[l.head[o]] = o
           /\ l.head[o] = Null => \A n \in Node : where[n] # o
<1>1. PICK q : ListOf(l, o, q) /\ \A n \in Node : where[n] = o <=> Has(q, n)
  BY DEF Good
<1>2. /\ q \in Seq(Node) /\ Len(q) \in Nat /\ Null \notin Node
      /\ l.head[o] = IF Len(q) = 0 THEN Null ELSE q[1]
  BY <1>1, NodeFinite DEF ListOf
<1>3. CASE Len(q) = 0
  BY <1>1, <1>2, <1>3 DEF Has
<1>4. CASE Len(q) # 0
  <2>1. 1 \in 1..Len(q) /\ q[1] \in Node
    BY <1>2, <1>4
  <2> QED
    BY <1>1, <1>2, <1>4, <2>1 DEF Has
<1> QED
  BY <1>3, <1>4

\* A node that is in no list may be given another next.
LEMMA FreeNodesGood ==
    ASSUME NEW l, NEW where, Good(l, where), NEW k \in Lists,
           k.head = l.head, k.tail = l.tail,
           \A n \in Node : where[n] # NoObject => k.next[n] = l.next[n]
    PROVE  Good(k, where)
<1>1. ASSUME NEW o \in Objects
      PROVE  \E q : ListOf(k, o, q) /\ \A n \in Node : where[n] = o <=> Has(q, n)
  <2>1. PICK q : ListOf(l, o, q) /\ \A n \in Node : where[n] = o <=> Has(q, n)
    BY DEF Good
  <2>2. o # NoObject
    BY SynchronizationAssumption
  <2>3. \A i \in 1..Len(q) : q[i] \in Node
    BY <2>1 DEF ListOf
  <2>4. \A n : Has(q, n) => n \in Node
    BY <2>3 DEF Has
  <2>5. \A n : Has(q, n) => k.next[n] = l.next[n]
    BY <2>1, <2>2, <2>4
  <2>6. ListOf(k, o, q)
    BY <2>1, <2>5, SameList
  <2> QED
    BY <2>1, <2>6
<1> QED
  BY <1>1 DEF Good

\* A step that neither begins nor ends a wait inside Wait.
LEMMA QuietStep ==
    ASSUME ListInv, list' = list, objects' = objects, notify' = notify,
           Sleepers' = Sleepers, \A t \in Threads : pc'[t] = "waiting" <=> pc[t] = "waiting"
    PROVE  ListsKept'
<1>1. Where' = Where
  BY DEF Where
<1>2. \A n \in Node : n[1] \in Threads
  BY DEF Node
<1>3. Passed' = Passed
  <2>1. Passed = {n \in Node : pc[n[1]] = "waiting" /\ n[1] \notin Sleepers}
    BY DEF Passed, Sleepers
  <2>2. Passed' = {n \in Node : pc'[n[1]] = "waiting" /\ n[1] \notin Sleepers'}
    BY DEF Passed, Sleepers
  <2> QED
    BY <1>2, <2>1, <2>2
<1>4. FreshNodes'
  BY <1>2 DEF ListInv, ListsKept, FreshNodes
<1>5. WalkGoesOn'
  BY <1>1, <1>3 DEF ListInv, ListsKept, WalkGoesOn
<1>6. Good(list', Where')
  BY <1>1 DEF ListInv, ListsKept
<1> QED
  BY <1>4, <1>5, <1>6 DEF ListsKept

\* What holds of the lists when t's wait on objects is over, for whatever reason.
LEMMA UnlinkedIs ==
    ASSUME ListInv, NEW t \in Sleepers, list' = UnlinkNodes(list, t),
           pc' = pc, objects' = objects, waiting' = waiting \ {t}
    PROVE  /\ Good(list', Where')
           /\ FreshNodes'
           /\ \A o \in Objects : \E D \in SUBSET {n \in Node : n[1] = t} :
                 Trail(list', Where', o, list.head[o], D)
<1> DEFINE os == objects[t]
           there == [n \in Node |-> IF n[1] = t THEN NoObject ELSE Where[n]]
           k == UnlinkNodes(list, t)
           w == Where
<1>1. t \in Threads /\ os \in Calls
  BY DEF ListInv, TypeOK, Sleepers
<1>2. Good(list, w)
  BY DEF ListInv, ListsKept
<1>3. \A n \in Node : n[1] = t => w[n] = IF n[2] \in DOMAIN os THEN os[n[2]] ELSE NoObject
  BY DEF Where
<1>4. Where' = there
  <2>1. Sleepers' = Sleepers \ {t}
    BY DEF Sleepers
  <2> QED
    BY <2>1 DEF Where
<1>5. \A n \in Node : pc[n[1]] # "waiting" => w[n] = NoObject
  BY DEF Where, Sleepers
<1> HIDE DEF os, w
<1>6. os = objects[t]
  BY DEF os
<1>7. UnlinkNodesDone(list, k, w, t)
  BY <1>1, <1>2, <1>3, <1>6, UnlinkNodesGood, Zenon
<1> HIDE DEF k
<1>8. Good(k, there) /\ \A n \in Node : w[n] = NoObject => k.next[n] = list.next[n]
  BY <1>7 DEF UnlinkNodesDone, w
<1>9. \A o \in Objects : \E D \in SUBSET {n \in Node : n[1] = t} :
         Trail(k, there, o, list.head[o], D)
  BY <1>7 DEF UnlinkNodesDone, w
<1>10. list' = k
  BY DEF k
<1> HIDE DEF there
<1>11. FreshNodes'
  BY <1>5, <1>8, <1>10 DEF ListInv, ListsKept, FreshNodes
<1> QED
  BY <1>4, <1>8, <1>9, <1>10, <1>11

\* The walk stands on a node of a call that has not returned.  If its thread still waits, it
\* waits for the object.
LEMMA CurIsNext ==
    ASSUME ListInv, notify # Idle, notify.cur # Null
    PROVE  /\ notify.cur \in Node /\ notify.cur[1] \in Threads
           /\ pc[notify.cur[1]] = "waiting"
           /\ notify.cur[1] \in waiting =>
                 /\ notify.cur[2] \in DOMAIN objects[notify.cur[1]]
                 /\ objects[notify.cur[1]][notify.cur[2]] = notify.obj
<1> DEFINE o == notify.obj
           cur == notify.cur
<1>1. o \in Objects /\ o # NoObject
  BY SynchronizationAssumption DEF ListInv, TypeOK
<1>2. PICK D \in SUBSET Passed : Trail(list, Where, o, cur, D)
  BY DEF ListInv, ListsKept, WalkGoesOn
<1>3. Good(list, Where)
  BY DEF ListInv, ListsKept
<1>4. cur \in D \/ (cur = list.head[o] /\ cur \in Node /\ Where[cur] = o)
  BY <1>1, <1>2, <1>3, HeadOfList DEF Trail
<1>5. CASE cur \in D
  BY <1>2, <1>5 DEF Passed, Node
<1>6. CASE cur \in Node /\ Where[cur] = o
  BY <1>1, <1>6 DEF Where, Sleepers, Node
<1> QED
  BY <1>4, <1>5, <1>6

\* One turn of the walk.  A thread that still waits is at the head of what is left of the
\* list; once it is woken its nodes lead on.
LEMMA NotifyStepKeeps ==
    ASSUME ListInv, NotifyStep
    PROVE  ListsKept'
<1> DEFINE o == notify.obj
           cur == notify.cur
           t == cur[1]
<1>1. /\ notify # Idle /\ cur # Null /\ o \in Objects
      /\ notify' = [notify EXCEPT !.cur = list'.next[cur]]
      /\ pc' = pc /\ objects' = objects
      /\ t \in waiting => list' = UnlinkNodes(list, t) /\ waiting' = waiting \ {t}
      /\ t \notin waiting => list' = list /\ waiting' = waiting
  BY DEF NotifyStep, NotifyThread, NodeAfter, ListInv, TypeOK
<1>2. notify'.obj = o /\ notify'.cur = list'.next[cur]
  BY <1>1 DEF ListInv, TypeOK
<1>3. PICK D \in SUBSET Passed : Trail(list, Where, o, cur, D)
  BY <1>1 DEF ListInv, ListsKept, WalkGoesOn
<1>4. Good(list, Where)
  BY DEF ListInv, ListsKept
<1>5. cur \in D \/ (cur = list.head[o] /\ cur \in Node /\ Where[cur] = o)
  BY <1>1, <1>3, <1>4, HeadOfList DEF Trail
<1>6. o # NoObject
  BY <1>1, SynchronizationAssumption
<1>7. cur \in D => pc[t] = "waiting" /\ t \notin waiting
  BY DEF Passed
<1>8. cur \notin D => t \in Sleepers /\ cur \in Node
  BY <1>5, <1>6 DEF Where
<1>9. CASE t \in waiting
  <2>1. t \in Sleepers /\ cur = list.head[o] /\ cur \in Node
    BY <1>5, <1>7, <1>8, <1>9
  <2>2. /\ Good(list', Where') /\ FreshNodes'
        /\ \A p \in Objects : \E E \in SUBSET {n \in Node : n[1] = t} :
              Trail(list', Where', p, list.head[p], E)
    BY <1>1, <1>9, <2>1, UnlinkedIs
  <2>3. PICK E \in SUBSET {n \in Node : n[1] = t} : Trail(list', Where', o, cur, E)
    BY <1>1, <2>1, <2>2
  <2>4. Where'[cur] = NoObject
    BY <1>1, <1>9, <2>1 DEF Where, Sleepers
  <2>5. cur \in E
    <3>1. list'.head[o] # Null => Where'[list'.head[o]] = o
      BY <1>1, <2>2, HeadOfList
    <3> QED
      BY <1>1, <1>6, <2>3, <2>4, <3>1 DEF Trail
  <2>6. list'.next[cur] \in E \cup {list'.head[o]}
    BY <2>3, <2>5 DEF Trail
  <2>7. Trail(list', Where', o, list'.next[cur], E)
    BY <2>3, <2>6 DEF Trail
  <2>8. E \in SUBSET Passed'
    <3>1. pc'[t] = "waiting" /\ t \notin waiting'
      BY <1>1, <1>9, <2>1 DEF Sleepers
    <3> QED
      BY <2>3, <3>1 DEF Passed
  <2>9. WalkGoesOn'
    BY <1>2, <2>7, <2>8 DEF WalkGoesOn
  <2> QED
    BY <2>2, <2>9 DEF ListsKept
<1>10. CASE t \notin waiting
  <2>1. cur \in D
    BY <1>8, <1>10 DEF Sleepers
  <2>2. Sleepers' = Sleepers /\ list' = list
    BY <1>1, <1>10 DEF Sleepers
  <2>3. Where' = Where /\ Passed' = Passed
    BY <1>1, <1>10, <2>2 DEF Where, Passed
  <2>4. Trail(list', Where', o, list'.next[cur], D)
    BY <1>3, <2>1, <2>2, <2>3 DEF Trail
  <2>5. WalkGoesOn'
    BY <1>2, <1>3, <2>3, <2>4 DEF WalkGoesOn
  <2>6. FreshNodes' /\ Good(list', Where')
    BY <1>1, <1>4, <2>2, <2>3 DEF ListInv, ListsKept, FreshNodes
  <2> QED
    BY <2>5, <2>6 DEF ListsKept
<1> QED
  BY <1>9, <1>10

LEMMA WaitBeginsKeeps ==
    ASSUME ListInv, NEW t \in Threads, NEW os \in Calls, NEW timeout, WaitBegins(t, os, timeout)
    PROVE  ListsKept'
<1> DEFINE w == Where
           k == LinkNodes(list, t, os)
           there == [n \in Node |-> IF n[1] = t /\ n[2] \in DOMAIN os THEN os[n[2]] ELSE w[n]]
<1>1. /\ pc[t] = "run" /\ notify = Idle /\ notify' = notify
      /\ list' = k /\ objects' = [objects EXCEPT ![t] = os]
      /\ pc' = [pc EXCEPT ![t] = "waiting"] /\ waiting' = waiting \cup {t}
  BY DEF WaitBegins, LockFree
<1>2. Good(list, w) /\ FreshNodes
  BY DEF ListInv, ListsKept
<1>3. /\ pc \in [Threads -> {"run", "waiting", "sleeping", "dead"}]
      /\ objects \in [Threads -> Calls]
  BY DEF ListInv, TypeOK
<1>4. \A n \in Node : n[1] = t => w[n] = NoObject /\ list.next[n] = Null
  BY <1>1, <1>2 DEF Where, Sleepers, FreshNodes
<1>5. Where' = there
  <2>1. Sleepers' = Sleepers \cup {t} /\ t \notin Sleepers
    BY <1>1, <1>3 DEF Sleepers, ListInv, CancelInv, Places
  <2> QED
    BY <1>1, <1>3, <2>1 DEF Where
<1>6. \A n \in Node : pc[n[1]] # "waiting" => w[n] = NoObject
  BY DEF Where, Sleepers
<1> HIDE DEF w
<1>7. LinkNodesDone(list, k, w, t, os)
  BY <1>2, <1>4, LinkNodesGood, Zenon
<1>8. /\ Good(k, there)
      /\ \A n \in Node : n[1] # t /\ w[n] = NoObject => k.next[n] = list.next[n]
  BY <1>7 DEF LinkNodesDone
<1> HIDE DEF k, there
<1>9. FreshNodes'
  <2>1. ASSUME NEW n \in Node, pc'[n[1]] # "waiting"
        PROVE  list'.next[n] = Null
    <3>1. n[1] # t /\ n[1] \in Threads
      BY <1>1, <1>3, <2>1 DEF Node
    <3>2. pc[n[1]] # "waiting"
      BY <1>1, <1>3, <2>1, <3>1
    <3>3. list.next[n] = Null
      BY <1>2, <3>2 DEF FreshNodes
    <3> QED
      BY <1>1, <1>6, <1>8, <3>1, <3>2, <3>3
  <2> QED
    BY <2>1 DEF FreshNodes
<1> QED
  BY <1>1, <1>5, <1>8, <1>9 DEF ListsKept, WalkGoesOn

\* The nodes of a call that returns are in no list.
LEMMA WaitReturnKeeps ==
    ASSUME ListInv, NEW t \in Threads, WaitReturn(t)
    PROVE  ListsKept'
<1>1. /\ t \notin waiting /\ notify = Idle /\ notify' = notify /\ waiting' = waiting
      /\ pc' = [pc EXCEPT ![t] = "run"] /\ objects' = [objects EXCEPT ![t] = <<>>]
      /\ list' = [list EXCEPT !.next = [n \in Node |-> IF n[1] = t THEN Null ELSE @[n]]]
  BY DEF WaitReturn, WokenCanRun, LockFree
<1>2. /\ pc \in [Threads -> {"run", "waiting", "sleeping", "dead"}]
      /\ objects \in [Threads -> Calls] /\ list \in Lists /\ waiting \subseteq Threads
  BY DEF ListInv, TypeOK
<1>3. Sleepers' = Sleepers /\ t \notin Sleepers
  BY <1>1, <1>2 DEF Sleepers
<1>4. Where' = Where
  BY <1>1, <1>2, <1>3 DEF Where, Sleepers
<1>5. /\ list'.head = list.head /\ list'.tail = list.tail
      /\ list'.next = [n \in Node |-> IF n[1] = t THEN Null ELSE list.next[n]]
      /\ list' \in Lists
  BY <1>1, <1>2 DEF Lists, NodeOrNull
<1>6. \A n \in Node : Where[n] # NoObject => n[1] # t
  BY <1>3 DEF Where
<1>7. Good(list', Where')
  <2>1. Good(list, Where)
    BY DEF ListInv, ListsKept
  <2>2. \A n \in Node : Where[n] # NoObject => list'.next[n] = list.next[n]
    BY <1>5, <1>6
  <2> DEFINE w == Where
             k == list'
  <2> HIDE DEF w, k
  <2>3. Good(k, w)
    BY <1>5, <2>1, <2>2, FreeNodesGood DEF w, k
  <2> QED
    BY <1>4, <2>3 DEF w, k
<1>8. FreshNodes'
  <2>1. ASSUME NEW n \in Node, pc'[n[1]] # "waiting"
        PROVE  list'.next[n] = Null
    <3>1. CASE n[1] = t
      BY <1>5, <3>1
    <3>2. CASE n[1] # t
      <4>1. pc[n[1]] # "waiting"
        BY <1>1, <1>2, <2>1, <3>2 DEF Node
      <4> QED
        BY <1>5, <3>2, <4>1 DEF ListInv, ListsKept, FreshNodes
    <3> QED
      BY <3>1, <3>2
  <2> QED
    BY <2>1 DEF FreshNodes
<1> QED
  BY <1>1, <1>7, <1>8 DEF ListsKept, WalkGoesOn

\* A timeout, a cancellation or a termination of a thread that waits.
LEMMA CancelWaitKeeps ==
    ASSUME ListInv, NEW t \in waiting, NEW r, CancelWait(t, r), LockFree,
           pc' = pc, objects' = objects, notify' = notify
    PROVE  ListsKept'
<1>1. notify' = Idle /\ waiting' = waiting \ {t} /\ t \in Threads
  BY DEF LockFree, CancelWait, ListInv, TypeOK
<1>2. CASE pc[t] = "waiting"
  <2>1. t \in Sleepers
    BY <1>2 DEF Sleepers
  <2>2. Good(list', Where') /\ FreshNodes'
    BY <1>1, <1>2, <2>1, UnlinkedIs DEF CancelWait
  <2> QED
    BY <1>1, <2>2 DEF ListsKept, WalkGoesOn
<1>3. CASE pc[t] # "waiting"
  <2>1. Sleepers' = Sleepers /\ list' = list
    BY <1>1, <1>3 DEF Sleepers, CancelWait
  <2> QED
    BY <2>1, QuietStep
<1> QED
  BY <1>2, <1>3

LEMMA ListsKeptKept ==
    ASSUME ListInv, [Next]_vars
    PROVE  ListsKept'
<1>1. ASSUME NEW t \in Threads, NEW os \in Calls, NEW timeout,
             WaitIsCancelled(t, os, timeout)
      PROVE  ListsKept'
  <2>1. Sleepers' = Sleepers
    BY <1>1 DEF WaitIsCancelled, Sleepers
  <2> QED
    BY <1>1, <2>1, QuietStep DEF WaitIsCancelled
<1>2. ASSUME NEW t \in Threads, NEW os \in Calls, NEW timeout,
             WaitBegins(t, os, timeout)
      PROVE  ListsKept'
  BY <1>2, WaitBeginsKeeps
<1>3. ASSUME NEW t \in Threads, Sleep(t)
      PROVE  ListsKept'
  <2>1. /\ pc[t] = "run" /\ pc' = [pc EXCEPT ![t] = "sleeping"] /\ waiting' = waiting \cup {t}
        /\ pc \in [Threads -> {"run", "waiting", "sleeping", "dead"}]
    BY <1>3 DEF Sleep, ListInv, TypeOK
  <2>2. Sleepers' = Sleepers
    BY <2>1 DEF Sleepers, ListInv, CancelInv, Places
  <2>3. \A u \in Threads : pc'[u] = "waiting" <=> pc[u] = "waiting"
    BY <2>1
  <2> QED
    BY <1>3, <2>2, <2>3, QuietStep DEF Sleep
<1>4. ASSUME NEW t \in Threads, WaitReturn(t)
      PROVE  ListsKept'
  BY <1>4, WaitReturnKeeps
<1>5. ASSUME NEW t \in Threads, Timeout(t)
      PROVE  ListsKept'
  <2>1. t \in waiting
    BY <1>5 DEF Timeout, ListInv, TypeOK
  <2> QED
    BY <1>5, <2>1, CancelWaitKeeps DEF Timeout
<1>6. ASSUME NEW t \in Threads, WaitCancel(t)
      PROVE  ListsKept'
  <2>1. CASE t \in waiting /\ t \in cancellable
    BY <1>6, <2>1, CancelWaitKeeps DEF WaitCancel
  <2>2. CASE ~(t \in waiting /\ t \in cancellable)
    <3>1. Sleepers' = Sleepers
      BY <1>6, <2>2 DEF WaitCancel, Sleepers
    <3> QED
      BY <1>6, <2>2, <3>1, QuietStep DEF WaitCancel
  <2> QED
    BY <2>1, <2>2
<1>7. ASSUME NEW t \in Threads, RequestTerminate(t)
      PROVE  ListsKept'
  <2>1. CASE t \in waiting
    BY <1>7, <2>1, CancelWaitKeeps DEF RequestTerminate
  <2>2. CASE t \notin waiting
    <3>1. Sleepers' = Sleepers
      BY <1>7, <2>2 DEF RequestTerminate, Sleepers
    <3> QED
      BY <1>7, <2>2, <3>1, QuietStep DEF RequestTerminate
  <2> QED
    BY <2>1, <2>2
<1>8. ASSUME NEW t \in Threads, Exit(t)
      PROVE  ListsKept'
  <2>1. /\ pc[t] = "run" /\ pc' = [pc EXCEPT ![t] = "dead"] /\ waiting' = waiting
        /\ pc \in [Threads -> {"run", "waiting", "sleeping", "dead"}]
    BY <1>8 DEF Exit, ListInv, TypeOK
  <2>2. Sleepers' = Sleepers
    BY <2>1 DEF Sleepers, ListInv, CancelInv, Places
  <2>3. \A u \in Threads : pc'[u] = "waiting" <=> pc[u] = "waiting"
    BY <2>1
  <2> QED
    BY <1>8, <2>2, <2>3, QuietStep DEF Exit
<1>9. ASSUME NEW o \in Objects, Signal(o)
      PROVE  ListsKept'
  <2>1. /\ list' = list /\ pc' = pc /\ objects' = objects /\ waiting' = waiting
        /\ notify' = [obj |-> o, cur |-> list.head[o]]
    BY <1>9 DEF Signal, threadVars
  <2>2. Sleepers' = Sleepers
    BY <2>1 DEF Sleepers
  <2>3. Where' = Where
    BY <2>1, <2>2 DEF Where
  <2>4. Trail(list', Where', notify'.obj, notify'.cur, {})
    BY <2>1 DEF Trail
  <2>5. WalkGoesOn'
    BY <2>4 DEF WalkGoesOn
  <2>6. Good(list', Where') /\ FreshNodes'
    BY <2>1, <2>3 DEF ListInv, ListsKept, FreshNodes
  <2> QED
    BY <2>5, <2>6 DEF ListsKept
<1>10. ASSUME NEW o \in Objects, Reset(o)
      PROVE  ListsKept'
  <2>1. Sleepers' = Sleepers
    BY <1>10 DEF Reset, threadVars, Sleepers
  <2> QED
    BY <1>10, <2>1, QuietStep DEF Reset, threadVars
<1>11. CASE NotifyStep
  BY <1>11, NotifyStepKeeps
<1>12. CASE NotifyEnd
  <2>1. /\ list' = list /\ pc' = pc /\ objects' = objects /\ waiting' = waiting
        /\ notify' = Idle
    BY <1>12 DEF NotifyEnd, threadVars
  <2>2. Sleepers' = Sleepers
    BY <2>1 DEF Sleepers
  <2>3. Where' = Where
    BY <2>1, <2>2 DEF Where
  <2>4. Good(list', Where') /\ FreshNodes'
    BY <2>1, <2>3 DEF ListInv, ListsKept, FreshNodes
  <2> QED
    BY <2>1, <2>4 DEF ListsKept, WalkGoesOn
<1>13. CASE UNCHANGED vars
  <2>1. Sleepers' = Sleepers
    BY <1>13 DEF vars, threadVars, Sleepers
  <2> QED
    BY <1>13, <2>1, QuietStep DEF vars, threadVars
<1> QED
  BY <1>1, <1>2, <1>3, <1>4, <1>5, <1>6, <1>7, <1>8, <1>9, <1>10, <1>11, <1>12, <1>13
  DEF Next

-----------------------------------------------------------------------------
(* The types, and what follows of the lists.                               *)

\* The first of the places where a call names the object is one of its places.
LEMMA SyncIndexType ==
    ASSUME TypeOK, NEW t \in Threads, NEW i \in DOMAIN objects[t], objects[t][i] = notify.obj
    PROVE  /\ SyncIndex(t) \in 0..(MaxObjects - 1)
           /\ SyncIndex(t) + 1 \in DOMAIN objects[t]
           /\ objects[t][SyncIndex(t) + 1] = notify.obj
<1> DEFINE os == objects[t]
           First(j) == /\ os[j] = notify.obj
                       /\ \A k \in 1..(j - 1) : os[k] # notify.obj
           N == {j \in DOMAIN os : os[j] = notify.obj}
           c == CHOOSE j \in DOMAIN os : First(j)
<1>1. os \in Calls
  BY DEF TypeOK
<1>2. DOMAIN os = 1..Len(os) /\ Len(os) \in 0..MaxObjects /\ MaxObjects \in Nat
  BY <1>1, CallsType, SynchronizationAssumption
<1> HIDE DEF os
<1>3. N \subseteq Nat /\ N # {}
  BY <1>2 DEF os
<1>4. PICK j \in N : \A k \in N : j <= k
  <2> HIDE DEF N
  <2> QED
    BY <1>3, Least
<1>5. j \in DOMAIN os /\ First(j)
  <2>1. ASSUME NEW k \in 1..(j - 1)
        PROVE  os[k] # notify.obj
    BY <1>2, <1>4
  <2> QED
    BY <1>4, <2>1
<1>6. c \in DOMAIN os /\ First(c)
  <2> HIDE DEF First
  <2> QED
    BY <1>5, Zenon
<1>7. SyncIndex(t) = c - 1
  BY DEF SyncIndex, os
<1> HIDE DEF c
<1> QED
  BY <1>2, <1>6, <1>7 DEF os

LEMMA TypeKept ==
    ASSUME ListInv, [Next]_vars
    PROVE  TypeOK'
<1>1. TypeOK /\ Places'
  BY CancelInvKept DEF ListInv, CancelInv
<1>2. list' \in Lists
  BY ListsKeptKept DEF ListsKept, Good
<1>3. ASSUME NEW t \in Threads, NEW os \in Calls, NEW timeout,
             WaitIsCancelled(t, os, timeout)
      PROVE  TypeOK'
  BY <1>1, <1>2, <1>3 DEF WaitIsCancelled, TypeOK
<1>4. ASSUME NEW t \in Threads, NEW os \in Calls, NEW timeout \in {"zero", "finite", "infinite"},
             WaitBegins(t, os, timeout)
      PROVE  TypeOK'
  <2>1. index' \in [Threads -> -1..(MaxObjects - 1)]
    BY <1>1, <1>4, SynchronizationAssumption DEF WaitBegins, TypeOK
  <2>2. objects' \in [Threads -> Calls] /\ pc' \in [Threads -> {"run", "waiting", "sleeping", "dead"}]
    BY <1>1, <1>4 DEF WaitBegins, TypeOK
  <2> QED
    BY <1>1, <1>2, <1>4, <2>1, <2>2 DEF WaitBegins, TypeOK, Places
<1>5. ASSUME NEW t \in Threads, Sleep(t)
      PROVE  TypeOK'
  BY <1>1, <1>2, <1>5 DEF Sleep, TypeOK, Places
<1>6. ASSUME NEW t \in Threads, WaitReturn(t)
      PROVE  TypeOK'
  <2>1. index' \in [Threads -> -1..(MaxObjects - 1)]
    BY <1>1, <1>6, SynchronizationAssumption DEF WaitReturn, TypeOK
  <2>2. objects' \in [Threads -> Calls]
    <3>1. <<>> \in Calls
      <4>1. <<>> \in [1..0 -> Objects] /\ 0 \in 0..MaxObjects
        BY SynchronizationAssumption
      <4> QED
        BY <4>1 DEF Calls
    <3> QED
      BY <1>1, <1>6, <3>1 DEF WaitReturn, TypeOK
  <2>3. pc' \in [Threads -> {"run", "waiting", "sleeping", "dead"}]
    BY <1>1, <1>6 DEF WaitReturn, TypeOK
  <2> QED
    BY <1>1, <1>2, <1>6, <2>1, <2>2, <2>3 DEF WaitReturn, TypeOK
<1>7. ASSUME NEW t \in Threads, NEW r \in {"TimedOut", "Cancelled", "Terminated"},
             CancelWait(t, r), UNCHANGED <<signaled, pc, objects, index, notify>>,
             cancelled' \subseteq Threads, termReq' \subseteq Mortal
      PROVE  TypeOK'
  <2>1. cancellable' \subseteq Threads /\ waiting' \subseteq Threads /\ timed' \subseteq waiting'
    BY <1>1, <1>7 DEF CancelWait, ClearCancellable, TypeOK, Places
  <2>2. result' \in [Threads -> {"Success", "TimedOut", "Cancelled", "Terminated"}]
    BY <1>1, <1>7 DEF CancelWait, TypeOK
  <2> QED
    BY <1>1, <1>2, <1>7, <2>1, <2>2 DEF TypeOK
<1>8. ASSUME NEW t \in Threads, Timeout(t)
      PROVE  TypeOK'
  BY <1>1, <1>7, <1>8 DEF Timeout, TypeOK
<1>9. ASSUME NEW t \in Threads, WaitCancel(t)
      PROVE  TypeOK'
  <2>1. CASE t \in waiting /\ t \in cancellable
    BY <1>1, <1>7, <1>9, <2>1 DEF WaitCancel, TypeOK
  <2>2. CASE ~(t \in waiting /\ t \in cancellable)
    BY <1>1, <1>2, <1>9, <2>2 DEF WaitCancel, TypeOK
  <2> QED
    BY <2>1, <2>2
<1>10. ASSUME NEW t \in Threads, RequestTerminate(t)
       PROVE  TypeOK'
  <2>1. termReq' \subseteq Mortal /\ cancelled' \subseteq Threads
    BY <1>1, <1>10 DEF RequestTerminate, TypeOK
  <2>2. CASE t \in waiting
    BY <1>7, <1>10, <2>1, <2>2 DEF RequestTerminate
  <2>3. CASE t \notin waiting
    BY <1>1, <1>2, <1>10, <2>1, <2>3 DEF RequestTerminate, TypeOK
  <2> QED
    BY <2>2, <2>3
<1>11. ASSUME NEW t \in Threads, Exit(t)
       PROVE  TypeOK'
  BY <1>1, <1>2, <1>11 DEF Exit, TypeOK
<1>12. ASSUME NEW o \in Objects, Signal(o)
       PROVE  TypeOK'
  <2>1. list.head[o] \in NodeOrNull
    BY <1>1 DEF TypeOK, Lists
  <2> QED
    BY <1>1, <1>2, <1>12, <2>1 DEF Signal, threadVars, TypeOK
<1>13. ASSUME NEW o \in Objects, Reset(o)
       PROVE  TypeOK'
  BY <1>1, <1>2, <1>13 DEF Reset, threadVars, TypeOK
<1>14. CASE NotifyStep
  <2> DEFINE t == notify.cur[1]
  <2>1. /\ notify # Idle /\ notify.obj \in Objects /\ notify.cur # Null /\ notify.cur \in Node
        /\ notify' = [notify EXCEPT !.cur = list'.next[notify.cur]]
        /\ UNCHANGED <<signaled, pc, objects, cancelled, termReq>>
    BY <1>1, <1>14 DEF NotifyStep, NodeAfter, TypeOK, NodeOrNull
  <2>2. list'.next[notify.cur] \in NodeOrNull /\ t \in Threads
    BY <1>2, <2>1 DEF Lists, Node
  <2>3. notify' \in [obj : Objects, cur : NodeOrNull]
    <3>1. notify \in [obj : Objects, cur : NodeOrNull]
      BY <1>1, <2>1 DEF TypeOK
    <3> QED
      BY <2>1, <2>2, <3>1
  <2>4. CASE t \in waiting
    <3>1. NotifyThread(t)
      BY <1>14, <2>4 DEF NotifyStep
    <3>2. cancellable' \subseteq Threads /\ waiting' \subseteq Threads /\ timed' \subseteq waiting'
      BY <1>1, <3>1 DEF NotifyThread, ClearCancellable, TypeOK, Places
    <3>3. result' \in [Threads -> {"Success", "TimedOut", "Cancelled", "Terminated"}]
      BY <1>1, <3>1 DEF NotifyThread, TypeOK
    <3>4. index' \in [Threads -> -1..(MaxObjects - 1)]
      <4>1. \E i \in DOMAIN objects[t] : objects[t][i] = notify.obj
        BY <2>1, <2>4, CurIsNext
      <4>2. SyncIndex(t) \in 0..(MaxObjects - 1)
        BY <1>1, <2>2, <4>1, SyncIndexType
      <4>3. SyncIndex(t) \in -1..(MaxObjects - 1)
        BY <4>2, SynchronizationAssumption
      <4> QED
        BY <1>1, <3>1, <4>3 DEF NotifyThread, TypeOK
    <3> QED
      BY <1>1, <1>2, <2>1, <2>3, <3>2, <3>3, <3>4 DEF TypeOK
  <2>5. CASE t \notin waiting
    BY <1>1, <1>2, <1>14, <2>1, <2>3, <2>5 DEF NotifyStep, TypeOK
  <2> QED
    BY <2>4, <2>5
<1>15. CASE NotifyEnd
  BY <1>1, <1>2, <1>15 DEF NotifyEnd, threadVars, TypeOK
<1>16. CASE UNCHANGED vars
  BY <1>1, <1>2, <1>16 DEF vars, threadVars, TypeOK
<1> QED
  BY <1>3, <1>4, <1>5, <1>6, <1>8, <1>9, <1>10, <1>11, <1>12, <1>13, <1>14, <1>15, <1>16
  DEF Next

LEMMA ListInvInit == Init => ListInv
<1> SUFFICES ASSUME Init PROVE ListInv
  OBVIOUS
<1>1. <<>> \in Calls
  <2>1. <<>> \in [1..0 -> Objects] /\ 0 \in 0..MaxObjects
    BY SynchronizationAssumption
  <2> QED
    BY <2>1 DEF Calls
<1>2. list \in Lists
  BY DEF Init, Lists, NodeOrNull
<1>3. TypeOK
  <2>1. -1 \in -1..(MaxObjects - 1)
    BY SynchronizationAssumption
  <2> QED
    BY <1>1, <1>2, <2>1 DEF Init, TypeOK
<1>4. CancelInv
  BY DEF Init, CancelInv, Places, CancelIsDelivered, Sleepers
<1>5. \A n \in Node : Where[n] = NoObject
  BY DEF Init, Where, Sleepers
<1>6. Good(list, Where)
  <2> DEFINE w == Where
  <2>1. w \in [Node -> Objects \cup {NoObject}] /\ \A n \in Node : w[n] = NoObject
    BY <1>5 DEF Init, Where, Sleepers
  <2> HIDE DEF w
  <2>2. ASSUME NEW o \in Objects
        PROVE  \E q : ListOf(list, o, q) /\ \A n \in Node : w[n] = o <=> Has(q, n)
    <3>1. o # NoObject
      BY SynchronizationAssumption
    <3>2. \A n : ~Has(<<>>, n)
      BY DEF Has
    <3>3. ListOf(list, o, <<>>)
      BY DEF Init, ListOf
    <3> QED
      BY <2>1, <3>1, <3>2, <3>3
  <2>3. Good(list, w)
    BY <1>2, <2>1, <2>2 DEF Good
  <2> QED
    BY <2>3 DEF w
<1>7. FreshNodes /\ WalkGoesOn
  BY DEF Init, FreshNodes, WalkGoesOn
<1> QED
  BY <1>3, <1>4, <1>6, <1>7 DEF ListInv, ListsKept

\* What the program's lists are, read off the pointers.
LEMMA ListsAreExact ==
    ASSUME ListInv
    PROVE  ListsExact
<1> SUFFICES ASSUME NEW o \in Objects
             PROVE  /\ Linked(list, o) =
                          {n \in Node : /\ n[1] \in Sleepers
                                        /\ n[2] \in DOMAIN objects[n[1]]
                                        /\ objects[n[1]][n[2]] = o}
                    /\ IF list.head[o] = Null THEN list.tail[o] = Null
                       ELSE list.tail[o] \in Linked(list, o) /\ list.next[list.tail[o]] = Null
  BY DEF ListsExact
<1>1. PICK q : ListOf(list, o, q) /\ \A n \in Node : Where[n] = o <=> Has(q, n)
  BY DEF ListInv, ListsKept, Good
<1>2. Linked(list, o) = {n \in Node : Has(q, n)}
  BY <1>1, LinkedIs
<1>3. o # NoObject
  BY SynchronizationAssumption
<1>4. \A n \in Node : Where[n] = o <=> /\ n[1] \in Sleepers
                                      /\ n[2] \in DOMAIN objects[n[1]]
                                      /\ objects[n[1]][n[2]] = o
  BY <1>3 DEF Where
<1>5. /\ q \in Seq(Node) /\ Len(q) \in Nat /\ Null \notin Node
      /\ list.head[o] = IF Len(q) = 0 THEN Null ELSE q[1]
      /\ list.tail[o] = IF Len(q) = 0 THEN Null ELSE q[Len(q)]
      /\ \A i \in 1..Len(q) : list.next[q[i]] = IF i = Len(q) THEN Null ELSE q[i + 1]
  BY <1>1, NodeFinite DEF ListOf
<1>6. CASE Len(q) = 0
  BY <1>1, <1>2, <1>4, <1>5, <1>6
<1>7. CASE Len(q) # 0
  <2>1. 1 \in 1..Len(q) /\ Len(q) \in 1..Len(q) /\ q[1] \in Node /\ q[Len(q)] \in Node
    BY <1>5, <1>7
  <2>2. Has(q, q[Len(q)])
    BY <2>1 DEF Has
  <2>3. list.head[o] # Null /\ list.tail[o] = q[Len(q)] /\ list.next[q[Len(q)]] = Null
    BY <1>5, <1>7, <2>1
  <2>4. list.tail[o] \in Linked(list, o)
    BY <1>2, <2>1, <2>2, <2>3
  <2> QED
    BY <1>1, <1>2, <1>4, <2>3, <2>4
<1> QED
  BY <1>6, <1>7

LEMMA ListInvKept ==
    ASSUME ListInv, [Next]_vars
    PROVE  ListInv'
BY CancelInvKept, ListsKeptKept, TypeKept DEF ListInv

LEMMA ListInvAlways == Spec => []ListInv
<1>1. ListInv /\ [Next]_vars => ListInv'
  BY ListInvKept
<1> QED
  BY <1>1, ListInvInit, PTL DEF Spec

\* The lists of nodes are exactly the sleeping calls', with the tails right, and the walk
\* of NotifyAvailable never stands on a node of a call that has returned: though it goes on
\* from nodes that were unlinked under it, of any number of threads that wait for any number
\* of objects, also for one several times.
THEOREM ListsStayExact == Spec => []WellFormed
<1>1. ListInv => WellFormed
  <2> SUFFICES ASSUME ListInv PROVE WellFormed
    OBVIOUS
  <2>1. NodeIsAlive
    <3> SUFFICES ASSUME notify.cur # Null PROVE pc[notify.cur[1]] = "waiting"
      BY DEF NodeIsAlive
    <3>1. notify # Idle
      BY DEF Idle
    <3> QED
      BY <3>1, CurIsNext
  <2> QED
    BY <2>1, ListsAreExact DEF ListInv, WellFormed
<1> QED
  BY <1>1, ListInvAlways, PTL

-----------------------------------------------------------------------------
(* Waiting implements the abstract wait.                                   *)

\* Only a signal under way has anybody still to wake, until its walk is through.
SignalsDone == notify = Idle \/ notify.cur = Null => ToBeWoken = {}

LEMMA NobodyToBeWoken ==
    ASSUME ListInv
    PROVE  SignalsDone
<1> SUFFICES ASSUME notify = Idle \/ notify.cur = Null PROVE ToBeWoken = {}
  BY DEF SignalsDone
<1>1. CASE notify = Idle
  <2>1. notify.obj \notin Objects
    BY <1>1, SynchronizationAssumption DEF Idle
  <2>2. ASSUME NEW t \in Sleepers, NEW i \in DOMAIN objects[t]
        PROVE  objects[t][i] \in Objects
    <3>1. objects[t] \in Calls
      BY DEF ListInv, TypeOK, Sleepers
    <3> QED
      BY <3>1, CallsType
  <2> QED
    BY <2>1, <2>2 DEF ToBeWoken
<1>2. CASE notify # Idle /\ notify.cur = Null
  <2> DEFINE o == notify.obj
  <2>1. PICK D \in SUBSET Passed : Trail(list, Where, o, notify.cur, D)
    BY <1>2 DEF ListInv, ListsKept, WalkGoesOn
  <2>2. o \in Objects /\ Null \notin D
    BY <1>2, NodeFinite DEF ListInv, TypeOK, Passed
  <2>3. list.head[o] = Null
    BY <1>2, <2>1, <2>2 DEF Trail
  <2>4. \A n \in Node : Where[n] # o
    BY <2>2, <2>3, HeadOfList DEF ListInv, ListsKept
  <2>5. ASSUME NEW t \in Sleepers, NEW i \in DOMAIN objects[t], objects[t][i] = o
        PROVE  FALSE
    <3>1. t \in Threads /\ objects[t] \in Calls
      BY DEF ListInv, TypeOK, Sleepers
    <3>2. <<t, i>> \in Node
      BY <3>1, CallsType DEF Node
    <3>3. Where[<<t, i>>] = o
      BY <2>5, <3>2 DEF Where
    <3> QED
      BY <2>4, <3>2, <3>3
  <2> QED
    BY <2>5 DEF ToBeWoken
<1> QED
  BY <1>1, <1>2

\* What the abstract wait is about stays as it was.
LEMMA QuietView ==
    ASSUME Sleepers' = Sleepers, objects' = objects, notify'.obj = notify.obj,
           index' = index, result' = result,
           \A t \in Threads : pc'[t] = "waiting" <=> pc[t] = "waiting"
    PROVE  Asleep' = Asleep /\ WaitsFor' = WaitsFor /\ WokenBy' = WokenBy
<1>1. ToBeWoken' = ToBeWoken
  BY DEF ToBeWoken
<1>2. Asleep' = Asleep
  BY <1>1 DEF Asleep
<1>3. WaitsFor' = WaitsFor
  BY <1>2 DEF WaitsFor
<1>4. \A t \in Threads : /\ pc[t] = "waiting" /\ t \notin waiting
                            <=> pc[t] = "waiting" /\ t \notin Sleepers
                         /\ pc'[t] = "waiting" /\ t \notin waiting'
                            <=> pc'[t] = "waiting" /\ t \notin Sleepers'
  BY DEF Sleepers
<1>5. WokenBy' = WokenBy
  BY <1>1, <1>4 DEF WokenBy
<1> QED
  BY <1>2, <1>3, <1>5

LEMMA QuietImplements ==
    ASSUME signaled' = signaled, Asleep' = Asleep, WaitsFor' = WaitsFor, WokenBy' = WokenBy
    PROVE  [Synchronization!Next]_(Synchronization!vars)
BY DEF Synchronization!vars

LEMMA BlockImplements ==
    ASSUME ListInv, SignalsDone, SignalsDone',
           NEW t \in Threads, NEW os \in Calls, NEW timeout, WaitBegins(t, os, timeout)
    PROVE  [Synchronization!Next]_(Synchronization!vars)
<1>1. /\ pc[t] = "run" /\ notify = Idle /\ notify' = notify /\ SignaledIndices(os) = {}
      /\ objects' = [objects EXCEPT ![t] = os] /\ index' = [index EXCEPT ![t] = -1]
      /\ pc' = [pc EXCEPT ![t] = "waiting"] /\ waiting' = waiting \cup {t}
      /\ signaled' = signaled /\ result' = result
  BY DEF WaitBegins, LockFree, NothingToWaitFor
<1>2. /\ pc \in [Threads -> {"run", "waiting", "sleeping", "dead"}]
      /\ objects \in [Threads -> Calls] /\ index \in [Threads -> -1..(MaxObjects - 1)]
  BY DEF ListInv, TypeOK
<1>3. ToBeWoken = {}
  BY <1>1 DEF SignalsDone
<1>4. Sleepers' = Sleepers \cup {t} /\ t \notin Sleepers
  BY <1>1, <1>2 DEF Sleepers, ListInv, CancelInv, Places
<1>5. \A i \in DOMAIN os : os[i] \in Objects \ signaled
  BY <1>1, CallsType DEF SignaledIndices
<1>6. ToBeWoken' = {}
  BY <1>1 DEF SignalsDone
<1>7. Asleep' = Asleep \cup {t} /\ t \notin Asleep
  BY <1>3, <1>4, <1>6 DEF Asleep
<1>8. WaitsFor' = [WaitsFor EXCEPT ![t] = ToSet(os)]
  BY <1>1, <1>2, <1>7 DEF WaitsFor
<1>9. WokenBy' = WokenBy /\ WokenBy[t] = NoObject
  BY <1>1, <1>2, <1>3, <1>6 DEF WokenBy
<1>10. ToSet(os) \in SUBSET (Objects \ signaled)
  BY <1>5 DEF ToSet
<1>11. Synchronization!Block(t)
  BY <1>1, <1>7, <1>8, <1>9, <1>10 DEF Synchronization!Block
<1> QED
  BY <1>11 DEF Synchronization!Next

\* A timeout, a cancellation or a termination of a thread that waits.
LEMMA GiveUpImplements ==
    ASSUME ListInv, SignalsDone, SignalsDone', LockFree,
           NEW t \in waiting, NEW r, r # "Success", CancelWait(t, r),
           signaled' = signaled, pc' = pc, objects' = objects, index' = index, notify' = notify
    PROVE  [Synchronization!Next]_(Synchronization!vars)
<1>1. /\ t \in Threads /\ result \in [Threads -> {"Success", "TimedOut", "Cancelled", "Terminated"}]
      /\ waiting' = waiting \ {t} /\ result' = [result EXCEPT ![t] = r]
  BY DEF ListInv, TypeOK, CancelWait
<1>2. ToBeWoken = {} /\ ToBeWoken' = {}
  BY DEF LockFree, SignalsDone
<1>3. \A u \in Threads \ {t} : result'[u] = result[u] /\ (u \in waiting' <=> u \in waiting)
  BY <1>1
<1>4. result'[t] = r
  BY <1>1
<1>5. WokenBy' = WokenBy
  <2>1. ASSUME NEW u \in Threads
        PROVE  (IF pc'[u] = "waiting" /\ u \notin waiting' /\ result'[u] = "Success"
                THEN objects'[u][index'[u] + 1] ELSE NoObject)
               = (IF pc[u] = "waiting" /\ u \notin waiting /\ result[u] = "Success"
                  THEN objects[u][index[u] + 1] ELSE NoObject)
    BY <1>3, <1>4
  <2> QED
    BY <1>2, <2>1 DEF WokenBy
<1>6. CASE pc[t] = "waiting"
  <2>1. Sleepers' = Sleepers \ {t} /\ t \in Sleepers
    BY <1>1, <1>6 DEF Sleepers
  <2>2. Asleep' = Asleep \ {t} /\ t \in Asleep
    BY <1>2, <2>1 DEF Asleep
  <2>3. WaitsFor' = [WaitsFor EXCEPT ![t] = {}]
    BY <2>2 DEF WaitsFor
  <2>4. Synchronization!GiveUp(t)
    BY <1>5, <2>2, <2>3 DEF Synchronization!GiveUp
  <2> QED
    BY <1>1, <2>4 DEF Synchronization!Next
<1>7. CASE pc[t] # "waiting"
  <2>1. Sleepers' = Sleepers
    BY <1>1, <1>7 DEF Sleepers
  <2>2. Asleep' = Asleep
    BY <1>2, <2>1 DEF Asleep
  <2>3. WaitsFor' = WaitsFor
    BY <2>2 DEF WaitsFor
  <2> QED
    BY <1>5, <2>2, <2>3, QuietImplements
<1> QED
  BY <1>6, <1>7

\* A woken thread takes its synced index with it when it returns.
LEMMA LookImplements ==
    ASSUME ListInv, SignalsDone, SignalsDone', NEW t \in Threads, WaitReturn(t)
    PROVE  [Synchronization!Next]_(Synchronization!vars)
<1>1. /\ t \notin waiting /\ notify = Idle /\ notify' = notify /\ waiting' = waiting
      /\ pc' = [pc EXCEPT ![t] = "run"] /\ objects' = [objects EXCEPT ![t] = <<>>]
      /\ index' = [index EXCEPT ![t] = -1] /\ result' = [result EXCEPT ![t] = "Success"]
      /\ signaled' = signaled
  BY DEF WaitReturn, WokenCanRun, LockFree
<1>2. pc \in [Threads -> {"run", "waiting", "sleeping", "dead"}] /\ pc'[t] = "run"
  BY <1>1 DEF ListInv, TypeOK
<1>3. ASSUME NEW u \in Threads \ {t}
      PROVE  pc'[u] = pc[u] /\ objects'[u] = objects[u] /\ index'[u] = index[u]
             /\ result'[u] = result[u]
  BY <1>1 DEF ListInv, TypeOK
<1>4. ToBeWoken = {} /\ ToBeWoken' = {}
  BY <1>1 DEF SignalsDone
<1>5. Sleepers' = Sleepers /\ t \notin Sleepers /\ Sleepers \subseteq Threads
  BY <1>1, <1>2 DEF Sleepers, ListInv, TypeOK
<1>6. Asleep' = Asleep /\ t \notin Asleep
  BY <1>4, <1>5 DEF Asleep
<1>7. WaitsFor' = WaitsFor
  BY <1>3, <1>6 DEF WaitsFor
<1>8. WokenBy' = [WokenBy EXCEPT ![t] = NoObject]
  <2>1. ASSUME NEW u \in Threads \ {t}
        PROVE  (IF pc'[u] = "waiting" /\ u \notin waiting' /\ result'[u] = "Success"
                THEN objects'[u][index'[u] + 1] ELSE NoObject)
               = (IF pc[u] = "waiting" /\ u \notin waiting /\ result[u] = "Success"
                  THEN objects[u][index[u] + 1] ELSE NoObject)
    BY <1>1, <1>3
  <2> QED
    BY <1>2, <1>4, <2>1 DEF WokenBy
<1>9. CASE WokenBy[t] # NoObject
  <2>1. Synchronization!Look(t)
    BY <1>1, <1>6, <1>7, <1>8, <1>9 DEF Synchronization!Look
  <2> QED
    BY <2>1 DEF Synchronization!Next
<1>10. CASE WokenBy[t] = NoObject
  <2>1. WokenBy' = WokenBy
    BY <1>8, <1>10 DEF WokenBy
  <2> QED
    BY <1>1, <1>6, <1>7, <2>1, QuietImplements
<1> QED
  BY <1>9, <1>10

\* Whoever waits for the object counts as woken when the signal is given.
LEMMA SignalImplements ==
    ASSUME ListInv, SignalsDone, NEW o \in Objects, Signal(o)
    PROVE  [Synchronization!Next]_(Synchronization!vars)
<1> DEFINE woken == {t \in Asleep : o \in WaitsFor[t]}
<1>1. /\ notify = Idle /\ notify'.obj = o /\ o \notin signaled /\ signaled' = signaled \cup {o}
      /\ UNCHANGED <<pc, objects, waiting, index, result>>
  BY DEF Signal, LockFree, threadVars
<1>2. ToBeWoken = {} /\ Asleep = Sleepers /\ Sleepers \subseteq Threads
  BY <1>1 DEF SignalsDone, Asleep, Sleepers, ListInv, TypeOK
<1>3. Sleepers' = Sleepers
  BY <1>1 DEF Sleepers
<1>4. ToBeWoken' = woken
  <2>1. ToBeWoken' = {t \in Sleepers : \E i \in DOMAIN objects[t] : objects[t][i] = o}
    BY <1>1, <1>3 DEF ToBeWoken
  <2>2. \A t \in Sleepers : o \in WaitsFor[t] <=> \E i \in DOMAIN objects[t] : objects[t][i] = o
    BY <1>2 DEF WaitsFor, ToSet
  <2> QED
    BY <1>2, <2>1, <2>2
<1>5. Asleep' = Asleep \ woken
  BY <1>2, <1>3, <1>4 DEF Asleep
<1>6. WaitsFor' = [t \in Threads |-> IF t \in woken THEN {} ELSE WaitsFor[t]]
  <2>1. \A t \in Threads : WaitsFor[t] = IF t \in Asleep THEN ToSet(objects[t]) ELSE {}
    BY DEF WaitsFor
  <2>2. WaitsFor' = [t \in Threads |-> IF t \in Asleep' THEN ToSet(objects[t]) ELSE {}]
    BY <1>1 DEF WaitsFor
  <2> HIDE DEF woken
  <2> QED
    BY <1>5, <2>1, <2>2
<1>7. WokenBy' = [t \in Threads |-> IF t \in woken THEN o ELSE WokenBy[t]]
  <2>1. \A t \in Threads : WokenBy[t] =
           IF pc[t] = "waiting" /\ t \notin waiting /\ result[t] = "Success"
           THEN objects[t][index[t] + 1] ELSE NoObject
    BY <1>2 DEF WokenBy
  <2>2. WokenBy' = [t \in Threads |->
           IF t \in woken THEN o
           ELSE IF pc[t] = "waiting" /\ t \notin waiting /\ result[t] = "Success"
                THEN objects[t][index[t] + 1] ELSE NoObject]
    <3> HIDE DEF woken
    <3> QED
      BY <1>1, <1>4 DEF WokenBy
  <2> HIDE DEF woken
  <2> QED
    BY <2>1, <2>2
<1>8. Synchronization!Signal(o)
  BY <1>1, <1>5, <1>6, <1>7 DEF Synchronization!Signal
<1> QED
  BY <1>8 DEF Synchronization!Next

\* A turn of the walk tells its thread which object it was, as the signal had it.
LEMMA NotifyStepImplements ==
    ASSUME ListInv, NotifyStep
    PROVE  [Synchronization!Next]_(Synchronization!vars)
<1> DEFINE t == notify.cur[1]
           o == notify.obj
<1>1. /\ notify # Idle /\ notify.cur # Null /\ notify'.obj = o
      /\ UNCHANGED <<signaled, pc, objects>>
  BY DEF NotifyStep, ListInv, TypeOK
<1>2. CASE t \in waiting
  <2>1. /\ index' = [index EXCEPT ![t] = SyncIndex(t)] /\ waiting' = waiting \ {t}
        /\ result' = [result EXCEPT ![t] = "Success"]
    BY <1>2 DEF NotifyStep, NotifyThread
  <2>2. /\ t \in Threads /\ pc[t] = "waiting"
        /\ \E i \in DOMAIN objects[t] : objects[t][i] = o
    BY <1>1, <1>2, CurIsNext
  <2>3. t \in Sleepers /\ t \in ToBeWoken
    BY <1>2, <2>2 DEF Sleepers, ToBeWoken
  <2>4. Sleepers' = Sleepers \ {t}
    BY <1>1, <2>1 DEF Sleepers
  <2>5. ToBeWoken' = ToBeWoken \ {t}
    BY <1>1, <2>4 DEF ToBeWoken
  <2>6. Asleep' = Asleep
    BY <2>3, <2>4, <2>5 DEF Asleep
  <2>7. WaitsFor' = WaitsFor
    BY <1>1, <2>6 DEF WaitsFor
  <2>8. index'[t] = SyncIndex(t) /\ result'[t] = "Success"
    BY <2>1, <2>2 DEF ListInv, TypeOK
  <2>9. objects[t][index'[t] + 1] = o
    BY <2>2, <2>8, SyncIndexType DEF ListInv
  <2>10. ASSUME NEW u \in Threads \ {t}
         PROVE  index'[u] = index[u] /\ result'[u] = result[u] /\ (u \in waiting' <=> u \in waiting)
    BY <2>1 DEF ListInv, TypeOK
  <2>11. WokenBy' = WokenBy
    <3>1. \A u \in Threads : WokenBy'[u] = WokenBy[u]
      <4>1. WokenBy'[t] = o /\ WokenBy[t] = o
        BY <1>1, <2>1, <2>2, <2>3, <2>5, <2>8, <2>9 DEF WokenBy
      <4>2. ASSUME NEW u \in Threads \ {t}
            PROVE  WokenBy'[u] = WokenBy[u]
        <5>1. u \in ToBeWoken' <=> u \in ToBeWoken
          BY <2>5
        <5> QED
          BY <1>1, <2>10, <5>1 DEF WokenBy
      <4> QED
        BY <4>1, <4>2
    <3>2. WokenBy = [u \in Threads |-> WokenBy[u]] /\ WokenBy' = [u \in Threads |-> WokenBy'[u]]
      BY DEF WokenBy
    <3> QED
      BY <3>1, <3>2
  <2> QED
    BY <1>1, <2>6, <2>7, <2>11, QuietImplements
<1>3. CASE t \notin waiting
  <2>1. UNCHANGED <<waiting, index, result>>
    BY <1>3 DEF NotifyStep
  <2>2. Sleepers' = Sleepers
    BY <1>1, <2>1 DEF Sleepers
  <2>3. Asleep' = Asleep /\ WaitsFor' = WaitsFor /\ WokenBy' = WokenBy
    BY <1>1, <2>1, <2>2, QuietView
  <2> QED
    BY <1>1, <2>3, QuietImplements
<1> QED
  BY <1>2, <1>3

LEMMA NotifyEndImplements ==
    ASSUME SignalsDone, SignalsDone', NotifyEnd
    PROVE  [Synchronization!Next]_(Synchronization!vars)
<1>1. ToBeWoken = {} /\ ToBeWoken' = {}
  BY DEF NotifyEnd, SignalsDone
<1>2. Sleepers' = Sleepers
  BY DEF NotifyEnd, threadVars, Sleepers
<1>3. Asleep' = Asleep
  BY <1>1, <1>2 DEF Asleep
<1>4. WaitsFor' = WaitsFor
  BY <1>3 DEF WaitsFor, NotifyEnd, threadVars
<1>5. WokenBy' = WokenBy
  BY <1>1 DEF WokenBy, NotifyEnd, threadVars
<1> QED
  BY <1>3, <1>4, <1>5, QuietImplements DEF NotifyEnd

\* The other steps are nothing to the abstract wait.
LEMMA QuietStepImplements ==
    ASSUME signaled' = signaled, objects' = objects, notify' = notify, index' = index,
           result' = result, Sleepers' = Sleepers,
           \A t \in Threads : pc'[t] = "waiting" <=> pc[t] = "waiting"
    PROVE  [Synchronization!Next]_(Synchronization!vars)
<1>1. Asleep' = Asleep /\ WaitsFor' = WaitsFor /\ WokenBy' = WokenBy
  BY QuietView
<1> QED
  BY <1>1, QuietImplements

LEMMA StepImplements ==
    ASSUME ListInv, SignalsDone, SignalsDone', [Next]_vars
    PROVE  [Synchronization!Next]_(Synchronization!vars)
<1>1. ASSUME NEW t \in Threads, NEW os \in Calls, NEW timeout,
             WaitIsCancelled(t, os, timeout)
      PROVE  [Synchronization!Next]_(Synchronization!vars)
  <2>1. Sleepers' = Sleepers
    BY <1>1 DEF WaitIsCancelled, Sleepers
  <2> QED
    BY <1>1, <2>1, QuietStepImplements DEF WaitIsCancelled
<1>2. ASSUME NEW t \in Threads, NEW os \in Calls, NEW timeout,
             WaitBegins(t, os, timeout)
      PROVE  [Synchronization!Next]_(Synchronization!vars)
  BY <1>2, BlockImplements
<1>3. ASSUME NEW t \in Threads, Sleep(t)
      PROVE  [Synchronization!Next]_(Synchronization!vars)
  <2>1. /\ pc[t] = "run" /\ pc' = [pc EXCEPT ![t] = "sleeping"] /\ waiting' = waiting \cup {t}
        /\ pc \in [Threads -> {"run", "waiting", "sleeping", "dead"}]
    BY <1>3 DEF Sleep, ListInv, TypeOK
  <2>2. Sleepers' = Sleepers
    BY <2>1 DEF Sleepers, ListInv, CancelInv, Places
  <2>3. \A u \in Threads : pc'[u] = "waiting" <=> pc[u] = "waiting"
    BY <2>1
  <2> QED
    BY <1>3, <2>2, <2>3, QuietStepImplements DEF Sleep
<1>4. ASSUME NEW t \in Threads, WaitReturn(t)
      PROVE  [Synchronization!Next]_(Synchronization!vars)
  BY <1>4, LookImplements
<1>5. ASSUME NEW t \in Threads, Timeout(t)
      PROVE  [Synchronization!Next]_(Synchronization!vars)
  <2>1. t \in waiting
    BY <1>5 DEF Timeout, ListInv, TypeOK
  <2> QED
    BY <1>5, <2>1, GiveUpImplements DEF Timeout
<1>6. ASSUME NEW t \in Threads, WaitCancel(t)
      PROVE  [Synchronization!Next]_(Synchronization!vars)
  <2>1. CASE t \in waiting /\ t \in cancellable
    BY <1>6, <2>1, GiveUpImplements DEF WaitCancel
  <2>2. CASE ~(t \in waiting /\ t \in cancellable)
    <3>1. Sleepers' = Sleepers
      BY <1>6, <2>2 DEF WaitCancel, Sleepers
    <3> QED
      BY <1>6, <2>2, <3>1, QuietStepImplements DEF WaitCancel
  <2> QED
    BY <2>1, <2>2
<1>7. ASSUME NEW t \in Threads, RequestTerminate(t)
      PROVE  [Synchronization!Next]_(Synchronization!vars)
  <2>1. CASE t \in waiting
    BY <1>7, <2>1, GiveUpImplements DEF RequestTerminate
  <2>2. CASE t \notin waiting
    <3>1. Sleepers' = Sleepers
      BY <1>7, <2>2 DEF RequestTerminate, Sleepers
    <3> QED
      BY <1>7, <2>2, <3>1, QuietStepImplements DEF RequestTerminate
  <2> QED
    BY <2>1, <2>2
<1>8. ASSUME NEW t \in Threads, Exit(t)
      PROVE  [Synchronization!Next]_(Synchronization!vars)
  <2>1. /\ pc[t] = "run" /\ pc' = [pc EXCEPT ![t] = "dead"] /\ waiting' = waiting
        /\ pc \in [Threads -> {"run", "waiting", "sleeping", "dead"}]
    BY <1>8 DEF Exit, ListInv, TypeOK
  <2>2. Sleepers' = Sleepers
    BY <2>1 DEF Sleepers, ListInv, CancelInv, Places
  <2>3. \A u \in Threads : pc'[u] = "waiting" <=> pc[u] = "waiting"
    BY <2>1
  <2> QED
    BY <1>8, <2>2, <2>3, QuietStepImplements DEF Exit
<1>9. ASSUME NEW o \in Objects, Signal(o)
      PROVE  [Synchronization!Next]_(Synchronization!vars)
  BY <1>9, SignalImplements
<1>10. ASSUME NEW o \in Objects, Reset(o)
       PROVE  [Synchronization!Next]_(Synchronization!vars)
  <2>1. Asleep' = Asleep /\ WaitsFor' = WaitsFor /\ WokenBy' = WokenBy
    <3>1. Sleepers' = Sleepers
      BY <1>10 DEF Reset, threadVars, Sleepers
    <3> QED
      BY <1>10, <3>1, QuietView DEF Reset, threadVars
  <2>2. Synchronization!Reset(o)
    BY <1>10, <2>1 DEF Reset, Synchronization!Reset
  <2> QED
    BY <2>2 DEF Synchronization!Next
<1>11. CASE NotifyStep
  BY <1>11, NotifyStepImplements
<1>12. CASE NotifyEnd
  BY <1>12, NotifyEndImplements
<1>13. CASE UNCHANGED vars
  <2>1. Sleepers' = Sleepers
    BY <1>13 DEF vars, threadVars, Sleepers
  <2> QED
    BY <1>13, <2>1, QuietStepImplements DEF vars, threadVars
<1> QED
  BY <1>1, <1>2, <1>3, <1>4, <1>5, <1>6, <1>7, <1>8, <1>9, <1>10, <1>11, <1>12, <1>13
  DEF Next

LEMMA InitImplements == Init => Synchronization!Init
<1> SUFFICES ASSUME Init PROVE Synchronization!Init
  OBVIOUS
<1>1. Sleepers = {} /\ ToBeWoken = {} /\ Asleep = {}
  BY DEF Init, Sleepers, ToBeWoken, Asleep
<1>2. WaitsFor = [t \in Threads |-> {}]
  BY <1>1 DEF WaitsFor
<1>3. WokenBy = [t \in Threads |-> NoObject]
  BY <1>1 DEF WokenBy, Init
<1> QED
  BY <1>1, <1>2, <1>3 DEF Init, Synchronization!Init

\* A signal wakes, at once, everybody who waits for its object and nobody else, and tells
\* each of them which object it was: KSynchronizationObject::Wait and NotifyAvailable, which
\* goes from node to node, implement that, for any number of threads and objects, and with
\* timeouts, cancellations, sleeps and terminations.
THEOREM SignalsAreAtomic == Spec => ImplementsSynchronization
<1>1. ListInv => SignalsDone
  BY NobodyToBeWoken
<1>2. ListInv /\ SignalsDone /\ SignalsDone' /\ [Next]_vars
      => [Synchronization!Next]_(Synchronization!vars)
  BY StepImplements
<1> QED
  BY <1>1, <1>2, InitImplements, ListInvAlways, PTL
  DEF Spec, ImplementsSynchronization, Synchronization!Spec

=============================================================================
