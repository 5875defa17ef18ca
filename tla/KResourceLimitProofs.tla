------------------------ MODULE KResourceLimitProofs ------------------------
(***************************************************************************)
(* Proofs about KResourceLimit, for any threads, resources, limits and     *)
(* amounts.                                                                *)
(*                                                                         *)
(* That somebody is about to give back what a sleeper waits for follows    *)
(* from what Reserve saw before it slept, which must still hold when the   *)
(* thread is put on the list: nobody changes a value while m_lock is held  *)
(* (LockExact), so what the loop found at label wait is still true there   *)
(* (WaitIsJustified).  That a release need not look at the list, only at   *)
(* m_waiter_count, takes the exact count.                                  *)
(***************************************************************************)
EXTENDS KResourceLimit, FiniteSetTheorems, TLAPS

\* The labels at which a thread holds m_lock are the owner's alone.
LockExact == \A t \in Threads :
    lockOwner = t <=> pc[t] \in {"wait", "retry", "broadcast"}

\* There is no room for c, and there will be once hints have become true.
Lacks(c) ==
    /\ current[c.which] + c.value > limit[c.which]
    /\ hints[c.which] + c.value <= limit[c.which]
WaitIsJustified == \A t \in Threads : pc[t] = "wait" => Lacks(call[t])

LimitInv ==
    /\ TypeOK
    /\ LimitsHold
    /\ CountExact
    /\ LockExact
    /\ WaitIsJustified
    /\ ReleaseIsComing

\* What the tests of Reserve mean as long as the sum is no s64 overflow.
LEMMA Tests ==
    ASSUME TypeOK, LimitsHold, NEW c \in Calls
    PROVE  /\ WouldOverflow(c) <=> current[c.which] + c.value > MaxS64
           /\ ~WouldOverflow(c) =>
                /\ WrappingAdd(current[c.which], c.value) = current[c.which] + c.value
                /\ Fits(c) <=> current[c.which] + c.value <= limit[c.which]
                /\ FitsByHint(c) <=> hints[c.which] + c.value <= limit[c.which]
<1>1. /\ c.which \in Resources
      /\ c.value \in 1..MaxS64
  BY LimitAssumption DEF Calls
<1>2. /\ current[c.which] \in 0..MaxS64
      /\ hints[c.which] \in 0..MaxS64
      /\ limit[c.which] \in 0..MaxS64
      /\ hints[c.which] <= current[c.which]
  BY <1>1, LimitAssumption DEF TypeOK, LimitsHold
<1> QED
  BY <1>1, <1>2, LimitAssumption DEF WouldOverflow, WrappingAdd, Fits, FitsByHint

\* The waiters are a finite set; one thread more or less counts for one.
LEMMA WaiterSets ==
    ASSUME NEW S \in SUBSET Threads, NEW t
    PROVE  /\ IsFiniteSet(S)
           /\ Cardinality(S) \in 0..Cardinality(Threads)
           /\ Cardinality(S \cup {t}) =
                IF t \in S THEN Cardinality(S) ELSE Cardinality(S) + 1
           /\ Cardinality(S \ {t}) =
                IF t \in S THEN Cardinality(S) - 1 ELSE Cardinality(S)
           /\ Cardinality(S) = 0 => S = {}
<1>1. IsFiniteSet(S) /\ Cardinality(S) <= Cardinality(Threads)
  BY FS_Subset, LimitAssumption
<1>2. Cardinality(S) \in Nat /\ Cardinality(Threads) \in Nat
  BY <1>1, FS_CardinalityType, LimitAssumption
<1>3. Cardinality(S \cup {t}) =
        IF t \in S THEN Cardinality(S) ELSE Cardinality(S) + 1
  BY <1>1, FS_AddElement
<1>4. Cardinality(S \ {t}) =
        IF t \in S THEN Cardinality(S) - 1 ELSE Cardinality(S)
  BY <1>1, FS_RemoveElement
<1>5. Cardinality(S) = 0 => S = {}
  BY <1>1, FS_EmptySet
<1> QED
  BY <1>1, <1>2, <1>3, <1>4, <1>5

LEMMA InitInv == Init => LimitInv
<1> SUFFICES ASSUME Init PROVE LimitInv
  OBVIOUS
<1>1. \A t \in Threads : pc[t] = "idle"
  BY DEF Init
<1>2. Waiters = {} /\ {t \in Threads : pc[t] = "asleep"} = {}
  BY <1>1 DEF Waiters
<1>3. Cardinality({}) = 0 /\ 0 \in 0..Cardinality(Threads)
  BY FS_EmptySet, FS_CardinalityType, LimitAssumption
<1>4. TypeOK
  BY <1>3, LimitAssumption DEF Init, TypeOK, Labels
<1>5. CountExact
  BY <1>2, <1>3 DEF Init, CountExact
<1>6. LimitsHold
  <2>1. \A r \in Resources : limit[r] \in 0..MaxS64
    BY LimitAssumption DEF Init
  <2>2. \A r \in Resources : current[r] = 0 /\ hints[r] = 0 /\ peak[r] = 0
    BY DEF Init
  <2> QED
    BY <2>1, <2>2, LimitAssumption DEF LimitsHold
<1>7. LockExact
  BY <1>1, LimitAssumption DEF Init, LockExact
<1>8. WaitIsJustified /\ ReleaseIsComing
  BY <1>1 DEF Init, WaitIsJustified, ReleaseIsComing
<1> QED
  BY <1>4, <1>5, <1>6, <1>7, <1>8 DEF LimitInv

\* Steps that move nobody among the waiters, between them or into the lock.
LEMMA Bystander ==
    ASSUME LimitInv,
           UNCHANGED <<values, lockOwner, waiterCount, waitList>>,
           call' \in [Threads -> Calls],
           late' \subseteq Threads, terminating' \subseteq Threads,
           pc' \in [Threads -> Labels],
           \A t \in Threads : \/ pc'[t] = pc[t] /\ call'[t] = call[t]
                              \/ /\ pc[t] \in {"idle", "enter"}
                                 /\ pc'[t] \in {"idle", "enter"}
    PROVE  LimitInv'
<1>1. /\ TypeOK /\ LimitsHold /\ CountExact /\ LockExact
      /\ WaitIsJustified /\ ReleaseIsComing
  BY DEF LimitInv
<1>2. TypeOK'
  BY <1>1 DEF TypeOK, values
<1>3. LimitsHold'
  BY <1>1 DEF LimitsHold, values
<1>4. Waiters' = Waiters
      /\ {t \in Threads : pc'[t] = "asleep"} = {t \in Threads : pc[t] = "asleep"}
  BY DEF Waiters
<1>5. CountExact'
  BY <1>1, <1>4 DEF CountExact
<1>6. LockExact'
  BY <1>1 DEF LockExact
<1>7. WaitIsJustified'
  BY <1>1 DEF WaitIsJustified, Lacks, values
<1>8. ReleaseIsComing'
  <2>1. \A t \in waitList : t \in Threads /\ call'[t] = call[t]
    BY <1>1 DEF CountExact
  <2>2. Broadcasting => Broadcasting'
    BY DEF Broadcasting
  <2> QED
    BY <1>1, <2>1, <2>2 DEF ReleaseIsComing, values
<1> QED
  BY <1>2, <1>3, <1>5, <1>6, <1>7, <1>8 DEF LimitInv

\* A round of Reserve's loop.  Without t, the waiters are those counted by n.
LEMMA TryReserveInv ==
    ASSUME LimitInv, NEW t \in Threads, NEW n, TryReserve(t, n),
           pc[t] \in {"enter", "retry", "relock"},
           lockOwner = IF pc[t] = "retry" THEN t ELSE NoThread,
           n = Cardinality(Waiters \ {t}),
           UNCHANGED <<waitList, call, late, terminating>>
    PROVE  LimitInv'
<1> DEFINE c == call[t]
           r == c.which
           Others == Waiters \ {t}
<1>1. /\ TypeOK /\ LimitsHold /\ CountExact /\ LockExact
      /\ WaitIsJustified /\ ReleaseIsComing
  BY DEF LimitInv
<1>2. c \in Calls /\ r \in Resources /\ c.value \in 1..MaxS64
  BY <1>1, LimitAssumption DEF TypeOK, Calls
<1>3. /\ current \in [Resources -> 0..MaxS64]
      /\ hints \in [Resources -> 0..MaxS64]
      /\ peak \in [Resources -> 0..MaxS64]
      /\ limit \in [Resources -> 0..MaxS64]
      /\ pc \in [Threads -> Labels]
      /\ MaxS64 \in Nat
  BY <1>1, LimitAssumption DEF TypeOK
<1>4. \A u \in Threads \ {t} : pc[u] \notin {"wait", "retry", "broadcast"}
  BY <1>1, LimitAssumption DEF LockExact
<1>5. t \notin waitList
  BY <1>1 DEF CountExact
<1>6. Waiters \subseteq Threads /\ Others \subseteq Threads /\ t \notin Others
  BY DEF Waiters
<1>7. n \in 0..Cardinality(Threads) /\ Cardinality(Threads) \in Nat
  <2>1. n \in 0..Cardinality(Threads)
    BY <1>6, WaiterSets
  <2> QED
    BY <2>1, FS_CardinalityType, LimitAssumption
<1>8. ~Broadcasting
  BY <1>4 DEF Broadcasting
\* All but the values and n: t goes to idle without the lock, or to wait with it.
<1>9. /\ pc' \in [Threads -> Labels]
      /\ pc' = [pc EXCEPT ![t] = pc'[t]]
      /\ \/ pc'[t] = "idle" /\ lockOwner' = NoThread /\ waiterCount' = n
         \/ pc'[t] = "wait" /\ lockOwner' = t /\ waiterCount' = n + 1
  BY <1>3 DEF TryReserve, Goto, Labels
<1>10. LockExact'
  BY <1>3, <1>4, <1>9, LimitAssumption DEF LockExact
<1>11. {u \in Threads : pc'[u] = "asleep"} = {u \in Threads : pc[u] = "asleep"}
  BY <1>3, <1>9
<1>12. CountExact'
  <2>1. CASE pc'[t] = "idle"
    <3>1. Waiters' = Others
      BY <1>3, <1>9, <2>1 DEF Waiters
    <3> QED
      BY <3>1, <1>1, <1>9, <1>11, <2>1 DEF CountExact
  <2>2. CASE pc'[t] = "wait"
    <3>1. Waiters' = Others \cup {t}
      BY <1>3, <1>9, <2>2 DEF Waiters
    <3>2. Cardinality(Others \cup {t}) = n + 1
      BY <1>6, WaiterSets
    <3> QED
      BY <3>1, <3>2, <1>1, <1>9, <1>11, <2>2 DEF CountExact
  <2> QED
    BY <1>9, <2>1, <2>2
<1>13. waiterCount' \in 0..Cardinality(Threads)
  <2>1. Waiters' \in SUBSET Threads
    BY DEF Waiters
  <2> QED
    BY <2>1, <1>12, WaiterSets DEF CountExact
<1>14. CASE UNCHANGED values
  <2>1. TypeOK'
    BY <1>1, <1>9, <1>13, <1>14 DEF TypeOK, values
  <2>2. LimitsHold'
    BY <1>1, <1>14 DEF LimitsHold, values
  <2>3. pc'[t] = "wait" => Lacks(c)
    BY <1>1, <1>2, <1>3, <1>9, Tests DEF TryReserve, MayWait, Lacks, Goto
  <2>4. WaitIsJustified'
    BY <1>3, <1>4, <1>9, <1>14, <2>3 DEF WaitIsJustified, Lacks, values
  <2>5. ReleaseIsComing'
    BY <1>1, <1>8, <1>14 DEF ReleaseIsComing, values
  <2> QED
    BY <1>10, <1>12, <2>1, <2>2, <2>4, <2>5 DEF LimitInv
<1>15. CASE ~ UNCHANGED values
  <2>1. /\ ~WouldOverflow(c) /\ Fits(c)
        /\ current' = [current EXCEPT ![r] = WrappingAdd(current[r], c.value)]
        /\ hints' = [hints EXCEPT ![r] = @ + c.value]
        /\ peak' = [peak EXCEPT ![r] = IF @ > WrappingAdd(current[r], c.value)
                                      THEN @ ELSE WrappingAdd(current[r], c.value)]
        /\ pc'[t] = "idle" /\ limit' = limit
    BY <1>3, <1>15 DEF TryReserve, Goto
  <2>2. /\ WrappingAdd(current[r], c.value) = current[r] + c.value
        /\ current[r] + c.value <= limit[r]
    BY <1>1, <1>2, <2>1, Tests
  <2>3. hints[r] <= current[r] /\ limit[r] <= MaxS64
    BY <1>1, <1>2, <1>3 DEF LimitsHold
  <2>4. /\ current[r] + c.value \in 0..MaxS64
        /\ hints[r] + c.value \in 0..MaxS64
        /\ hints[r] + c.value <= current[r] + c.value
    BY <1>2, <1>3, <2>2, <2>3
  <2>5. /\ current' \in [Resources -> 0..MaxS64]
        /\ hints' \in [Resources -> 0..MaxS64]
        /\ peak' \in [Resources -> 0..MaxS64]
    BY <1>3, <2>1, <2>2, <2>4
  <2>6. TypeOK'
    BY <1>1, <1>9, <1>13, <2>1, <2>5 DEF TypeOK
  <2>7. LimitsHold'
    BY <1>1, <1>2, <1>3, <2>1, <2>2, <2>4 DEF LimitsHold
  <2>8. WaitIsJustified'
    BY <1>3, <1>4, <1>9, <2>1 DEF WaitIsJustified
  <2>9. ReleaseIsComing'
    <3>1. \A q \in Resources : hints[q] < current[q] => hints'[q] < current'[q]
      BY <1>2, <1>3, <2>1, <2>2
    <3>2. \A u \in waitList : call[u].which \in Resources
      BY <1>1 DEF TypeOK, Calls
    <3> QED
      BY <1>1, <1>8, <3>1, <3>2 DEF ReleaseIsComing
  <2> QED
    BY <1>10, <1>12, <2>6, <2>7, <2>8, <2>9 DEF LimitInv
<1> QED
  BY <1>14, <1>15

LEMMA WaitInv ==
    ASSUME LimitInv, NEW t \in Threads, Wait(t)
    PROVE  LimitInv'
<1>1. /\ TypeOK /\ LimitsHold /\ CountExact /\ LockExact
      /\ WaitIsJustified /\ ReleaseIsComing
  BY DEF LimitInv
<1>2. /\ pc[t] = "wait" /\ pc \in [Threads -> Labels]
      /\ UNCHANGED <<values, call, late, terminating>>
  BY <1>1 DEF Wait, TypeOK
<1>3. lockOwner = t /\ \A u \in Threads \ {t} : pc[u] \notin {"wait", "retry", "broadcast"}
  BY <1>1, <1>2 DEF LockExact
<1>4. Waiters \in SUBSET Threads /\ t \in Waiters
  BY <1>2 DEF Waiters
<1>5. LimitsHold'
  BY <1>1, <1>2 DEF LimitsHold, values
<1>6. ~Broadcasting
  BY <1>2, <1>3 DEF Broadcasting
<1>7. CASE t \in terminating
  <2>1. /\ pc' = [pc EXCEPT ![t] = "retry"]
        /\ waiterCount' = waiterCount - 1
        /\ lockOwner' = lockOwner /\ waitList' = waitList
    BY <1>7 DEF Wait, Goto, CountAfterWait
  <2>2. Waiters' = Waiters \ {t}
    BY <1>2, <2>1 DEF Waiters
  <2>3. waiterCount' = Cardinality(Waiters')
    BY <1>1, <1>4, <2>1, <2>2, WaiterSets DEF CountExact
  <2>4. waiterCount' \in 0..Cardinality(Threads)
    BY <1>4, <2>2, <2>3, WaiterSets
  <2>5. TypeOK'
    BY <1>1, <1>2, <2>1, <2>4 DEF TypeOK, values, Labels
  <2>6. CountExact'
    BY <1>1, <1>2, <2>1, <2>3 DEF CountExact
  <2>7. LockExact'
    BY <1>2, <1>3, <2>1 DEF LockExact
  <2>8. WaitIsJustified' /\ ReleaseIsComing'
    BY <1>1, <1>2, <1>6, <2>1 DEF WaitIsJustified, ReleaseIsComing, Lacks, values
  <2> QED
    BY <1>5, <2>5, <2>6, <2>7, <2>8 DEF LimitInv
<1>8. CASE t \notin terminating
  <2>1. /\ pc' = [pc EXCEPT ![t] = "asleep"]
        /\ waiterCount' = waiterCount
        /\ lockOwner' = NoThread /\ waitList' = waitList \cup {t}
    BY <1>8 DEF Wait, Goto
  <2>2. Waiters' = Waiters
    BY <1>2, <2>1 DEF Waiters
  <2>3. TypeOK'
    BY <1>1, <1>2, <2>1 DEF TypeOK, values, Labels
  <2>4. CountExact'
    BY <1>1, <1>2, <2>1, <2>2 DEF CountExact
  <2>5. LockExact'
    BY <1>2, <1>3, <2>1, LimitAssumption DEF LockExact
  <2>6. WaitIsJustified'
    BY <1>1, <1>2, <2>1 DEF WaitIsJustified, Lacks, values
  \* Whoever falls asleep had found that the hints leave room for it.
  <2>7. hints[call[t].which] < current[call[t].which]
    <3>1. Lacks(call[t])
      BY <1>1, <1>2 DEF WaitIsJustified
    <3>2. /\ call[t].which \in Resources /\ call[t].value \in 1..MaxS64
      BY <1>1, LimitAssumption DEF TypeOK, Calls
    <3>3. /\ current[call[t].which] \in 0..MaxS64
          /\ hints[call[t].which] \in 0..MaxS64
          /\ limit[call[t].which] \in 0..MaxS64
      BY <1>1, <3>2, LimitAssumption DEF TypeOK
    <3> QED
      BY <3>1, <3>2, <3>3, LimitAssumption DEF Lacks
  <2>8. ReleaseIsComing'
    BY <1>1, <1>2, <1>6, <2>1, <2>7 DEF ReleaseIsComing, values
  <2> QED
    BY <1>5, <2>3, <2>4, <2>5, <2>6, <2>8 DEF LimitInv
<1> QED
  BY <1>7, <1>8

LEMMA CancelWaitInv ==
    ASSUME LimitInv, NEW t \in Threads, CancelWait(t), pc[t] = "asleep",
           UNCHANGED <<values, lockOwner, waiterCount, call, late>>,
           terminating' \subseteq Threads
    PROVE  LimitInv'
<1>1. /\ TypeOK /\ LimitsHold /\ CountExact /\ LockExact
      /\ WaitIsJustified /\ ReleaseIsComing
  BY DEF LimitInv
<1>2. /\ pc' = [pc EXCEPT ![t] = "relock"] /\ pc \in [Threads -> Labels]
      /\ waitList' = waitList \ {t}
  BY <1>1 DEF CancelWait, Goto, TypeOK
<1>3. TypeOK'
  BY <1>1, <1>2 DEF TypeOK, values, Labels
<1>4. Waiters' = Waiters
  BY <1>2 DEF Waiters
<1>5. CountExact'
  BY <1>1, <1>2, <1>4 DEF CountExact
<1>6. LimitsHold' /\ LockExact' /\ WaitIsJustified'
  BY <1>1, <1>2 DEF LimitsHold, LockExact, WaitIsJustified, Lacks, values
<1>7. Broadcasting => Broadcasting'
  BY <1>2 DEF Broadcasting
<1>8. ReleaseIsComing'
  BY <1>1, <1>2, <1>7 DEF ReleaseIsComing, values
<1> QED
  BY <1>3, <1>5, <1>6, <1>8 DEF LimitInv

LEMMA ReleaseInv ==
    ASSUME LimitInv, NEW t \in Threads, Release(t)
    PROVE  LimitInv'
<1>1. /\ TypeOK /\ LimitsHold /\ CountExact /\ LockExact
      /\ WaitIsJustified /\ ReleaseIsComing
  BY DEF LimitInv
<1>2. PICK r \in Resources : \E value \in 0..current[r], hint \in 0..hints[r] :
        /\ Held(r, value, hint)
        /\ current' = [current EXCEPT ![r] = @ - value]
        /\ hints' = [hints EXCEPT ![r] = @ - hint]
  BY DEF Release
<1>3. PICK value \in 0..current[r], hint \in 0..hints[r] :
        /\ Held(r, value, hint)
        /\ current' = [current EXCEPT ![r] = @ - value]
        /\ hints' = [hints EXCEPT ![r] = @ - hint]
  BY <1>2
<1>4. /\ current \in [Resources -> 0..MaxS64]
      /\ hints \in [Resources -> 0..MaxS64]
      /\ peak \in [Resources -> 0..MaxS64]
      /\ limit \in [Resources -> 0..MaxS64]
      /\ pc \in [Threads -> Labels]
      /\ MaxS64 \in Nat
  BY <1>1, LimitAssumption DEF TypeOK
<1>5. /\ current[r] - value \in 0..MaxS64
      /\ hints[r] - hint \in 0..MaxS64
      /\ hints[r] - hint <= current[r] - value
      /\ current[r] - value <= current[r]
  BY <1>3, <1>4 DEF Held
<1>6. /\ pc[t] = "idle" /\ lockOwner = NoThread
      /\ UNCHANGED <<limit, peak, waiterCount, waitList, call, late, terminating>>
  BY DEF Release
<1>7. \A u \in Threads : pc[u] \notin {"wait", "retry", "broadcast"}
  BY <1>1, <1>6, LimitAssumption DEF LockExact
<1>8. /\ current' \in [Resources -> 0..MaxS64]
      /\ hints' \in [Resources -> 0..MaxS64]
  BY <1>3, <1>4, <1>5
<1>9. LimitsHold'
  BY <1>1, <1>3, <1>4, <1>5, <1>6 DEF LimitsHold
<1>10. CASE waiterCount # 0
  <2>1. pc' = [pc EXCEPT ![t] = "broadcast"] /\ lockOwner' = t
    BY <1>10 DEF Release, Goto
  <2>2. TypeOK'
    BY <1>1, <1>6, <1>8, <2>1 DEF TypeOK, Labels
  <2>3. Waiters' = Waiters
    BY <1>4, <1>6, <2>1 DEF Waiters
  <2>4. CountExact'
    BY <1>1, <1>4, <1>6, <2>1, <2>3 DEF CountExact
  <2>5. LockExact'
    BY <1>4, <1>7, <2>1 DEF LockExact
  <2>6. WaitIsJustified'
    BY <1>4, <1>7, <2>1 DEF WaitIsJustified
  <2>7. Broadcasting'
    BY <1>4, <2>1 DEF Broadcasting
  <2> QED
    BY <1>9, <2>2, <2>4, <2>5, <2>6, <2>7 DEF LimitInv, ReleaseIsComing
<1>11. CASE waiterCount = 0
  <2>1. pc' = pc /\ lockOwner' = lockOwner
    BY <1>11 DEF Release
  <2>2. TypeOK'
    BY <1>1, <1>6, <1>8, <2>1 DEF TypeOK
  <2>3. Waiters = {}
    <3>1. Waiters \in SUBSET Threads
      BY DEF Waiters
    <3> QED
      BY <3>1, <1>1, <1>11, WaiterSets DEF CountExact
  <2>4. waitList = {}
    BY <1>1, <2>3 DEF CountExact, Waiters
  <2>5. CountExact' /\ LockExact'
    BY <1>1, <1>6, <2>1 DEF CountExact, LockExact, Waiters
  <2>6. WaitIsJustified'
    BY <1>7, <2>1 DEF WaitIsJustified
  <2>7. ReleaseIsComing'
    BY <1>6, <2>4 DEF ReleaseIsComing
  <2> QED
    BY <1>9, <2>2, <2>5, <2>6, <2>7 DEF LimitInv
<1> QED
  BY <1>10, <1>11

LEMMA BroadcastInv ==
    ASSUME LimitInv, NEW t \in Threads, Broadcast(t)
    PROVE  LimitInv'
<1>1. /\ TypeOK /\ LimitsHold /\ CountExact /\ LockExact
  BY DEF LimitInv
<1>2. /\ pc[t] = "broadcast" /\ pc \in [Threads -> Labels]
      /\ UNCHANGED <<values, waiterCount, call, late, terminating>>
      /\ waitList' = {} /\ lockOwner' = NoThread
      /\ pc' = [u \in Threads |-> IF u \in waitList THEN "relock"
                                  ELSE IF u = t THEN "idle" ELSE pc[u]]
  BY <1>1 DEF Broadcast, Woken, TypeOK
<1>3. \A u \in Threads \ {t} : pc[u] \notin {"wait", "retry", "broadcast"}
  BY <1>1, <1>2 DEF LockExact
<1>4. waitList = {u \in Threads : pc[u] = "asleep"} /\ t \notin waitList
  BY <1>1, <1>2 DEF CountExact
<1>5. pc' \in [Threads -> Labels]
  BY <1>2 DEF Labels
<1>6. TypeOK'
  BY <1>1, <1>2, <1>5 DEF TypeOK, values
<1>7. \A u \in Threads : pc'[u] \notin {"wait", "retry", "broadcast", "asleep"}
  BY <1>2, <1>3, <1>4
<1>8. Waiters' = Waiters
  BY <1>2, <1>4 DEF Waiters
<1>9. CountExact'
  BY <1>1, <1>2, <1>7, <1>8 DEF CountExact
<1>10. LimitsHold' /\ LockExact' /\ WaitIsJustified' /\ ReleaseIsComing'
  BY <1>1, <1>2, <1>7, LimitAssumption
     DEF LimitsHold, LockExact, WaitIsJustified, ReleaseIsComing, values
<1> QED
  BY <1>6, <1>9, <1>10 DEF LimitInv

LEMMA SetLimitValueInv ==
    ASSUME LimitInv, NEW t \in Threads, SetLimitValue(t)
    PROVE  LimitInv'
<1>1. /\ TypeOK /\ LimitsHold /\ CountExact /\ LockExact /\ ReleaseIsComing
  BY DEF LimitInv
<1>2. /\ lockOwner = NoThread
      /\ UNCHANGED <<current, hints, lockOwner, waiterCount, waitList, pc, call,
                     late, terminating>>
  BY DEF SetLimitValue
<1>3. PICK r \in Resources, value \in Limits :
        /\ current[r] <= value
        /\ limit' = [limit EXCEPT ![r] = value]
        /\ peak' = [peak EXCEPT ![r] = current[r]]
  BY DEF SetLimitValue
<1>4. \A u \in Threads : pc[u] # "wait"
  BY <1>1, <1>2, LimitAssumption DEF LockExact
<1>5. TypeOK'
  BY <1>1, <1>2, <1>3 DEF TypeOK
<1>6. LimitsHold'
  BY <1>1, <1>2, <1>3, LimitAssumption DEF TypeOK, LimitsHold
<1>7. CountExact' /\ LockExact' /\ WaitIsJustified'
  BY <1>1, <1>2, <1>4 DEF CountExact, LockExact, WaitIsJustified, Waiters
<1>8. ReleaseIsComing'
  BY <1>1, <1>2 DEF ReleaseIsComing, Broadcasting
<1> QED
  BY <1>5, <1>6, <1>7, <1>8 DEF LimitInv

LEMMA NextInv == LimitInv /\ [Next]_vars => LimitInv'
<1> SUFFICES ASSUME LimitInv, [Next]_vars PROVE LimitInv'
  OBVIOUS
<1>1. /\ TypeOK /\ LimitsHold /\ CountExact /\ LockExact
      /\ WaitIsJustified /\ ReleaseIsComing
  BY DEF LimitInv
<1>2. ASSUME NEW t \in Threads, CallReserve(t)
      PROVE  LimitInv'
  <2>1. /\ pc[t] = "idle" /\ pc' = [pc EXCEPT ![t] = "enter"]
        /\ \E c \in Calls : call' = [call EXCEPT ![t] = c]
        /\ late' = late \ {t}
        /\ UNCHANGED <<values, lockOwner, waiterCount, waitList, terminating>>
    BY <1>2 DEF CallReserve, Goto
  <2>2. /\ pc' \in [Threads -> Labels] /\ call' \in [Threads -> Calls]
        /\ pc'[t] = "enter"
        /\ \A u \in Threads \ {t} : pc'[u] = pc[u] /\ call'[u] = call[u]
    BY <1>1, <2>1 DEF TypeOK, Labels
  <2> QED
    BY <1>1, <2>1, <2>2, Bystander DEF TypeOK
<1>3. ASSUME NEW t \in Threads, Reserve(t)
      PROVE  LimitInv'
  <2>1. CASE hints[call[t].which] >= limit[call[t].which]
    <3>1. /\ pc[t] = "enter" /\ pc' = [pc EXCEPT ![t] = "idle"]
          /\ UNCHANGED <<values, lockOwner, waiterCount, waitList, call, late,
                         terminating>>
      BY <1>3, <2>1 DEF Reserve, Goto
    <3>2. /\ pc' \in [Threads -> Labels] /\ pc'[t] = "idle"
          /\ \A u \in Threads \ {t} : pc'[u] = pc[u]
      BY <1>1, <3>1 DEF TypeOK, Labels
    <3> QED
      BY <1>1, <3>1, <3>2, Bystander DEF TypeOK
  <2>2. CASE ~(hints[call[t].which] >= limit[call[t].which])
    <3>1. /\ pc[t] = "enter" /\ lockOwner = NoThread
          /\ TryReserve(t, waiterCount)
          /\ UNCHANGED <<waitList, call, late, terminating>>
      BY <1>3, <2>2 DEF Reserve
    <3>2. Waiters \ {t} = Waiters
      BY <3>1 DEF Waiters
    <3> QED
      BY <1>1, <3>1, <3>2, TryReserveInv DEF CountExact
  <2> QED
    BY <2>1, <2>2
<1>4. ASSUME NEW t \in Threads, Retry(t)
      PROVE  LimitInv'
  <2>1. /\ pc[t] = "retry" /\ lockOwner = t
        /\ TryReserve(t, waiterCount)
        /\ UNCHANGED <<waitList, call, late, terminating>>
    BY <1>1, <1>4 DEF Retry, LockExact
  <2>2. Waiters \ {t} = Waiters
    BY <2>1 DEF Waiters
  <2> QED
    BY <1>1, <2>1, <2>2, TryReserveInv DEF CountExact
<1>5. ASSUME NEW t \in Threads, Relock(t)
      PROVE  LimitInv'
  <2>1. /\ pc[t] = "relock" /\ lockOwner = NoThread
        /\ TryReserve(t, waiterCount - 1)
        /\ UNCHANGED <<waitList, call, late, terminating>>
    BY <1>5 DEF Relock, CountAfterWait
  <2>2. t \in Waiters /\ Waiters \in SUBSET Threads
    BY <2>1 DEF Waiters
  <2>3. waiterCount - 1 = Cardinality(Waiters \ {t})
    BY <1>1, <2>2, WaiterSets DEF CountExact
  <2> QED
    BY <2>1, <2>3, TryReserveInv
<1>6. ASSUME NEW t \in Threads, TimeOut(t)
      PROVE  LimitInv'
  BY <1>1, <1>6, CancelWaitInv DEF TimeOut, TypeOK
<1>7. ASSUME NEW t \in Threads, RequestTerminate(t)
      PROVE  LimitInv'
  <2>1. /\ terminating' \subseteq Threads
        /\ UNCHANGED <<values, lockOwner, waiterCount, call, late>>
    BY <1>1, <1>7 DEF RequestTerminate, TypeOK
  <2>2. CASE pc[t] = "asleep"
    BY <1>7, <2>1, <2>2, CancelWaitInv DEF RequestTerminate
  <2>3. CASE pc[t] # "asleep"
    <3>1. UNCHANGED <<waitList, pc>>
      BY <1>7, <2>3 DEF RequestTerminate
    <3> QED
      BY <1>1, <2>1, <3>1, Bystander DEF TypeOK
  <2> QED
    BY <2>2, <2>3
<1>8. ASSUME NEW t \in Threads, Pass(t)
      PROVE  LimitInv'
  <2>1. /\ late' = late \cup {t}
        /\ UNCHANGED <<values, lockOwner, waiterCount, waitList, pc, call,
                       terminating>>
    BY <1>8 DEF Pass
  <2> QED
    BY <1>1, <2>1, Bystander DEF TypeOK
<1>9. CASE UNCHANGED vars
  BY <1>1, <1>9, Bystander DEF vars, values, TypeOK
<1> QED
  BY <1>2, <1>3, <1>4, <1>5, <1>6, <1>7, <1>8, <1>9,
     WaitInv, ReleaseInv, BroadcastInv, SetLimitValueInv DEF Next

LEMMA Invariance == Spec => []LimitInv
BY InitInv, NextInv, PTL DEF Spec

\* What the assertions in KResourceLimit say is true, and no value, count or hint
\* leaves its range, also when a sum of two s64 does.
THEOREM AssertionsHold == Spec => []WellFormed
<1>1. LimitInv => WellFormed
  BY DEF LimitInv, WellFormed
<1> QED
  BY <1>1, Invariance, PTL

\* m_waiter_count never hides a sleeper from Release.
THEOREM WaitersCounted == Spec => []CountExact
<1>1. LimitInv => CountExact
  BY DEF LimitInv
<1> QED
  BY <1>1, Invariance, PTL

\* Nobody sleeps for a resource that no one is about to give back.
THEOREM SleepersHaveHope == Spec => []ReleaseIsComing
<1>1. LimitInv => ReleaseIsComing
  BY DEF LimitInv
<1> QED
  BY <1>1, Invariance, PTL

-----------------------------------------------------------------------------
(* With limits that never change *)

NoRoom(c) == current[c.which] + c.value > limit[c.which]
SleepersLackRoom == \A t \in waitList : Broadcasting \/ NoRoom(call[t])

\* The two tests of the loop together say that there is no room.
LEMMA NoRoomByTests ==
    ASSUME NEW a \in 0..MaxS64, NEW b \in 1..MaxS64, NEW l \in 0..MaxS64
    PROVE  (WrappingAdd(a, b) <= a \/ ~(WrappingAdd(a, b) <= l)) <=> a + b > l
BY LimitAssumption DEF WrappingAdd

LEMMA LackIsWhatTestsSay ==
    LimitInv /\ SleepersLackRoom => NobodySleepsBesideRoom
<1> SUFFICES ASSUME LimitInv, SleepersLackRoom, NEW t \in waitList, ~Broadcasting
             PROVE  WouldOverflow(call[t]) \/ ~Fits(call[t])
  BY DEF NobodySleepsBesideRoom
<1>1. call[t] \in Calls
  BY DEF LimitInv, TypeOK
<1>2. call[t].which \in Resources /\ call[t].value \in 1..MaxS64
  BY <1>1, LimitAssumption DEF Calls
<1>3. current[call[t].which] \in 0..MaxS64 /\ limit[call[t].which] \in 0..MaxS64
  BY <1>2, LimitAssumption DEF LimitInv, TypeOK
<1>4. NoRoom(call[t])
  BY DEF SleepersLackRoom
<1> QED
  BY <1>2, <1>3, <1>4, NoRoomByTests DEF NoRoom, WouldOverflow, Fits

LEMMA LackOfRoomStays ==
    ASSUME \A a, b \in Limits : a = b,
           LimitInv, LimitInv', [Next]_vars, SleepersLackRoom
    PROVE  SleepersLackRoom'
<1>1. /\ TypeOK /\ TypeOK' /\ CountExact /\ LockExact /\ WaitIsJustified
  BY DEF LimitInv
<1>2. limit' = limit
  BY <1>1 DEF TypeOK
<1>3. \A r \in Resources : current[r] \in 0..MaxS64 /\ current'[r] \in 0..MaxS64
                          /\ limit[r] \in 0..MaxS64
  BY <1>1, LimitAssumption DEF TypeOK
<1>4. \A u \in Threads : call[u].which \in Resources /\ call[u].value \in 1..MaxS64
  BY <1>1, LimitAssumption DEF TypeOK, Calls
\* Steps after which there is no more room than before, and no new sleeper.
<1>5. ASSUME waitList' \subseteq waitList,
             \A u \in waitList : call'[u] = call[u],
             \A r \in Resources : current[r] <= current'[r],
             Broadcasting => Broadcasting'
      PROVE  SleepersLackRoom'
  <2> SUFFICES ASSUME NEW u \in waitList', ~Broadcasting'
               PROVE  NoRoom(call[u])'
    BY DEF SleepersLackRoom
  <2>1. u \in Threads /\ NoRoom(call[u]) /\ call'[u] = call[u]
    BY <1>1, <1>5 DEF SleepersLackRoom, TypeOK
  <2>2. /\ call[u].which \in Resources /\ call[u].value \in 1..MaxS64
        /\ current[call[u].which] <= current'[call[u].which]
    BY <1>4, <1>5, <2>1
  <2> QED
    BY <1>2, <1>3, <2>1, <2>2, LimitAssumption DEF NoRoom
<1>6. ASSUME UNCHANGED current
      PROVE  \A r \in Resources : current[r] <= current'[r]
  BY <1>3, <1>6
<1>7. ASSUME NEW t \in Threads, NEW n, TryReserve(t, n), pc[t] \notin {"idle", "broadcast"},
             lockOwner \in {NoThread, t}, UNCHANGED <<waitList, call>>
      PROVE  SleepersLackRoom'
  <2>1. ~Broadcasting
    BY <1>1, <1>7, LimitAssumption DEF LockExact, Broadcasting
  <2>2. CASE UNCHANGED current
    BY <1>5, <1>6, <1>7, <2>1, <2>2
  <2>3. CASE ~ UNCHANGED current
    <3> DEFINE c == call[t]
    <3>1. /\ ~WouldOverflow(c)
          /\ current' = [current EXCEPT ![c.which] =
                           WrappingAdd(current[c.which], c.value)]
      BY <1>7, <2>3 DEF TryReserve, values
    <3>2. \A r \in Resources : current[r] <= current'[r]
      <4>1. current[c.which] <= WrappingAdd(current[c.which], c.value)
        BY <1>3, <1>4, <3>1, LimitAssumption DEF WouldOverflow, WrappingAdd
      <4> QED
        BY <1>1, <1>3, <3>1, <4>1 DEF TypeOK
    <3> QED
      BY <1>5, <1>7, <2>1, <3>2
  <2> QED
    BY <2>2, <2>3
<1>8. ASSUME NEW t \in Threads, CallReserve(t)
      PROVE  SleepersLackRoom'
  <2>1. /\ pc[t] = "idle" /\ pc' = [pc EXCEPT ![t] = "enter"]
        /\ \E c \in Calls : call' = [call EXCEPT ![t] = c]
        /\ UNCHANGED <<current, waitList>>
    BY <1>8 DEF CallReserve, Goto, values
  <2>2. t \notin waitList
    BY <1>1, <2>1 DEF CountExact
  <2>3. \A u \in waitList : call'[u] = call[u]
    BY <1>1, <2>1, <2>2 DEF TypeOK
  <2>4. Broadcasting => Broadcasting'
    BY <1>1, <2>1 DEF Broadcasting, TypeOK
  <2> QED
    BY <1>5, <1>6, <2>1, <2>3, <2>4
<1>9. ASSUME NEW t \in Threads, Reserve(t)
      PROVE  SleepersLackRoom'
  <2>1. CASE hints[call[t].which] >= limit[call[t].which]
    <3>1. /\ pc[t] = "enter" /\ pc' = [pc EXCEPT ![t] = "idle"]
          /\ UNCHANGED <<current, waitList, call>>
      BY <1>9, <2>1 DEF Reserve, Goto, values
    <3>2. Broadcasting => Broadcasting'
      BY <1>1, <3>1 DEF Broadcasting, TypeOK
    <3> QED
      BY <1>5, <1>6, <3>1, <3>2
  <2>2. CASE ~(hints[call[t].which] >= limit[call[t].which])
    BY <1>7, <1>9, <2>2 DEF Reserve
  <2> QED
    BY <2>1, <2>2
<1>10. ASSUME NEW t \in Threads, Retry(t) \/ Relock(t)
       PROVE  SleepersLackRoom'
  BY <1>1, <1>7, <1>10 DEF Retry, Relock, LockExact
<1>11. ASSUME NEW t \in Threads, Wait(t)
       PROVE  SleepersLackRoom'
  <2>1. /\ pc[t] = "wait" /\ UNCHANGED <<current, call>>
        /\ waitList' \subseteq waitList \cup {t}
    BY <1>11 DEF Wait, values
  <2>2. ~Broadcasting
    BY <1>1, <2>1, LimitAssumption DEF LockExact, Broadcasting
  <2>3. NoRoom(call[t])
    BY <1>1, <2>1 DEF WaitIsJustified, Lacks, NoRoom
  <2> QED
    BY <1>2, <2>1, <2>2, <2>3 DEF SleepersLackRoom, NoRoom
<1>12. ASSUME NEW t \in Threads, TimeOut(t) \/ RequestTerminate(t) \/ Pass(t)
       PROVE  SleepersLackRoom'
  <2>1. /\ UNCHANGED <<current, call>> /\ waitList' \subseteq waitList
        /\ pc' = pc \/ (pc[t] = "asleep" /\ pc' = [pc EXCEPT ![t] = "relock"])
    BY <1>12 DEF TimeOut, RequestTerminate, Pass, CancelWait, Goto, values
  <2>2. Broadcasting => Broadcasting'
    BY <1>1, <2>1 DEF Broadcasting, TypeOK
  <2> QED
    BY <1>5, <1>6, <2>1, <2>2
<1>13. ASSUME NEW t \in Threads, Release(t)
       PROVE  SleepersLackRoom'
  <2>1. CASE waiterCount # 0
    <3>1. pc' = [pc EXCEPT ![t] = "broadcast"]
      BY <1>13, <2>1 DEF Release, Goto
    <3>2. Broadcasting'
      BY <1>1, <3>1 DEF Broadcasting, TypeOK
    <3> QED
      BY <3>2 DEF SleepersLackRoom
  <2>2. CASE waiterCount = 0
    <3>1. Waiters \in SUBSET Threads
      BY DEF Waiters
    <3>2. Waiters = {}
      BY <1>1, <2>2, <3>1, WaiterSets DEF CountExact
    <3>3. waitList' = {}
      BY <1>1, <1>13, <3>2 DEF CountExact, Waiters, Release
    <3> QED
      BY <3>3 DEF SleepersLackRoom
  <2> QED
    BY <2>1, <2>2
<1>14. ASSUME NEW t \in Threads, Broadcast(t)
       PROVE  SleepersLackRoom'
  BY <1>14 DEF Broadcast, Woken, SleepersLackRoom
<1>15. ASSUME NEW t \in Threads, SetLimitValue(t)
       PROVE  SleepersLackRoom'
  BY <1>5, <1>6, <1>15 DEF SetLimitValue, Broadcasting
<1>16. CASE UNCHANGED vars
  BY <1>5, <1>6, <1>16 DEF vars, Broadcasting
<1> QED
  BY <1>8, <1>9, <1>10, <1>11, <1>12, <1>13, <1>14, <1>15, <1>16 DEF Next

\* While limits stay as they are, nobody sleeps beside room enough: no release
\* falls between a thread's look at the values and its sleep, or is missed by it.
THEOREM NoLostRelease ==
    ASSUME \A a, b \in Limits : a = b
    PROVE  Spec => []NobodySleepsBesideRoom
<1>1. Init => SleepersLackRoom
  BY DEF Init, SleepersLackRoom
<1>2. LimitInv /\ LimitInv' /\ SleepersLackRoom /\ [Next]_vars => SleepersLackRoom'
  BY LackOfRoomStays
<1> QED
  BY <1>1, <1>2, Invariance, LackIsWhatTestsSay, PTL DEF Spec
=============================================================================
