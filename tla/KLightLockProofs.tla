-------------------------- MODULE KLightLockProofs --------------------------
(***************************************************************************)
(* Proofs about KLightLock for any number of threads and any suspensions.  *)
(* The first part holds whatever the kernel does to the threads; the second*)
(* (mutual exclusion, no lost wake-up) where no thread that waits for the  *)
(* lock is terminated.                                                     *)
(***************************************************************************)
EXTENDS KLightLock, FiniteSetTheorems, TLAPS

USE LightLockAssumption

\* The has-waiters bit never stands alone in a tag.
WellFormed(x) == x.waiters => x.owner # NoThread

TagsWellFormed ==
    /\ WellFormed(tag)
    /\ \A t \in Threads : WellFormed(nextTag[t])

\* LockSlowPath is called with the tag of some owner, its bit set.
SlowPathSawOwner ==
    \A t \in Threads : pc[t] = "slow" => seen[t].owner \in Threads /\ seen[t].waiters

\* Only a thread inside LockSlowPath waits.
WaitsInSlowPath == \A t \in Threads : run[t] = "Waiting" => pc[t] = "wait"

\* The thread part of the state, correct under every environment.
ThreadInv ==
    /\ TypeOK
    /\ TagsWellFormed
    /\ SlowPathSawOwner
    /\ WaitsInSlowPath
    /\ WaitingIffRegistered
    /\ WaiterCountExact

\* The sets of waiters are finite, and their sizes are numbers.
LEMMA WaitersFinite ==
    \A t \in Threads : IsFiniteSet(WaitersOf(t)) /\ Cardinality(WaitersOf(t)) \in Nat
<1> TAKE t \in Threads
<1>1. WaitersOf(t) \in SUBSET Threads
  BY DEF WaitersOf
<1>2. IsFiniteSet(WaitersOf(t))
  BY <1>1, FS_Subset
<1> QED
  BY <1>2, FS_CardinalityType

\* 0 is a tag.
LEMMA UnlockedTag == Unlocked \in Tags /\ WellFormed(Unlocked)
BY DEF Unlocked, Tags, Owners, WellFormed

\* A tag without an owner is 0.
LEMMA UnownedTag ==
    \A x \in Tags : WellFormed(x) /\ x.owner = NoThread => x = Unlocked
BY DEF Tags, WellFormed, Unlocked

\* The initial state satisfies the thread invariant.
LEMMA ThreadInit == Init => ThreadInv
<1> SUFFICES ASSUME Init PROVE ThreadInv
  OBVIOUS
<1>1. TypeOK
  BY DEF Init, TypeOK, Unlocked, Owners, Tags
<1>2. TagsWellFormed /\ SlowPathSawOwner /\ WaitsInSlowPath /\ WaitingIffRegistered
  BY DEF Init, TagsWellFormed, WellFormed, SlowPathSawOwner, WaitsInSlowPath,
         WaitingIffRegistered, Unlocked
<1>3. WaiterCountExact
  <2>1. \A t \in Threads : WaitersOf(t) = {}
    BY DEF Init, WaitersOf
  <2> QED
    BY <2>1, FS_EmptySet DEF Init, WaiterCountExact
<1> QED
  BY <1>1, <1>2, <1>3 DEF ThreadInv

\* A step of Lock or Unlock that leaves the waiters alone preserves it.
LEMMA ThreadQuiet ==
    ASSUME ThreadInv, NEW t \in Threads
    PROVE  CallLock(t) \/ LockFast(t) \/ LockSlowRetry(t) \/ WaitReturn(t)
           \/ UnlockFast(t) \/ UnlockSlowNobody(t) \/ UnlockStore(t)
           => ThreadInv'
<1> USE DEF ThreadInv, Executing
<1>1. ASSUME CallLock(t) PROVE ThreadInv'
  BY <1>1 DEF CallLock, lockVars, threadVars, TypeOK, TagsWellFormed, WellFormed,
              SlowPathSawOwner, WaitsInSlowPath, WaitingIffRegistered,
              WaiterCountExact, WaitersOf
<1>2. ASSUME LockFast(t) PROVE ThreadInv'
  <2>1. tag' \in Tags /\ WellFormed(tag')
    <3>1. CASE LockFree
      <4>1. tag' = [owner |-> t, waiters |-> FALSE]
        BY <1>2, <3>1 DEF LockFast
      <4> QED
        BY <4>1 DEF Tags, Owners, WellFormed
    <3>2. CASE ~LockFree
      <4>1. tag \in Tags /\ tag.owner # NoThread
        BY <3>2, UnownedTag DEF TypeOK, TagsWellFormed, LockFree
      <4>2. tag' = [tag EXCEPT !.waiters = TRUE]
        BY <1>2, <3>2 DEF LockFast
      <4> QED
        BY <4>1, <4>2 DEF Tags, WellFormed
    <3> QED
      BY <3>1, <3>2
  <2>2. seen' \in [Threads -> Tags] /\ SlowPathSawOwner'
    <3>1. CASE LockFree
      BY <1>2, <3>1 DEF LockFast, TypeOK, SlowPathSawOwner
    <3>2. CASE ~LockFree
      <4>1. seen' = [seen EXCEPT ![t] = tag']
        BY <1>2, <3>2 DEF LockFast
      <4>2. tag.owner \in Threads /\ tag' = [tag EXCEPT !.waiters = TRUE]
        BY <1>2, <3>2, UnownedTag DEF LockFast, LockFree, TypeOK, Tags, Owners, TagsWellFormed
      <4>3. pc' = [pc EXCEPT ![t] = "slow"]
        BY <1>2, <3>2 DEF LockFast
      <4> QED
        BY <2>1, <4>1, <4>2, <4>3 DEF TypeOK, SlowPathSawOwner, Tags
    <3> QED
      BY <3>1, <3>2
  <2>3. pc' \in [Threads -> {"idle", "lock", "slow", "wait", "cs", "unlock", "store", "exited"}]
    BY <1>2 DEF LockFast, TypeOK
  <2>4. WaitsInSlowPath'
    BY <1>2 DEF LockFast, TypeOK, WaitsInSlowPath, threadVars
  <2> QED
    BY <1>2, <2>1, <2>2, <2>3, <2>4
    DEF LockFast, threadVars, TypeOK, TagsWellFormed, WellFormed, WaitingIffRegistered,
        WaiterCountExact, WaitersOf
<1>3. ASSUME LockSlowRetry(t) PROVE ThreadInv'
  BY <1>3 DEF LockSlowRetry, threadVars, TypeOK, Tags, Owners, Unlocked, TagsWellFormed,
              WellFormed, SlowPathSawOwner, WaitsInSlowPath, WaitingIffRegistered,
              WaiterCountExact, WaitersOf
<1>4. ASSUME WaitReturn(t) PROVE ThreadInv'
  BY <1>4 DEF WaitReturn, lockVars, threadVars, TypeOK, TagsWellFormed, WellFormed,
              SlowPathSawOwner, WaitsInSlowPath, WaitingIffRegistered,
              WaiterCountExact, WaitersOf
<1>5. ASSUME UnlockFast(t) PROVE ThreadInv'
  <2>1. tag' \in Tags /\ WellFormed(tag')
    <3>1. tag' = Unlocked \/ tag' = tag
      BY <1>5 DEF UnlockFast
    <3> QED
      BY <3>1, UnlockedTag DEF TypeOK, TagsWellFormed, WellFormed
  <2> QED
    BY <1>5, <2>1 DEF UnlockFast, threadVars, TypeOK, TagsWellFormed,
              WellFormed, SlowPathSawOwner, WaitsInSlowPath, WaitingIffRegistered,
              WaiterCountExact, WaitersOf
<1>6. ASSUME UnlockSlowNobody(t) PROVE ThreadInv'
  <2>1. susp' \in [Threads -> SUBSET SuspendTypes]
    BY <1>6 DEF UnlockSlowNobody, CatchUpOnSuspension, TrySuspend, SuspendFlags, TypeOK
  <2>2. nextTag' = [nextTag EXCEPT ![t] = Unlocked]
    BY <1>6 DEF UnlockSlowNobody
  <2>3. nextTag' \in [Threads -> Tags] /\ \A u \in Threads : WellFormed(nextTag'[u])
    BY <2>2, UnlockedTag DEF TypeOK, TagsWellFormed
  <2>4. TypeOK'
    BY <1>6, <2>1, <2>3 DEF UnlockSlowNobody, TypeOK, Owners
  <2>5. TagsWellFormed'
    BY <1>6, <2>3 DEF UnlockSlowNobody, TagsWellFormed, WellFormed
  <2> QED
    BY <1>6, <2>4, <2>5 DEF UnlockSlowNobody, TypeOK, SlowPathSawOwner, WaitsInSlowPath,
              WaitingIffRegistered, WaiterCountExact, WaitersOf
<1>7. ASSUME UnlockStore(t) PROVE ThreadInv'
  BY <1>7 DEF UnlockStore, threadVars, TypeOK, Tags, Owners, Unlocked, TagsWellFormed,
              WellFormed, SlowPathSawOwner, WaitsInSlowPath, WaitingIffRegistered,
              WaiterCountExact, WaitersOf
<1> QED
  BY <1>1, <1>2, <1>3, <1>4, <1>5, <1>6, <1>7

\* A thread that becomes a waiter is counted once, by its owner.
LEMMA ThreadWait ==
    ASSUME ThreadInv, NEW t \in Threads, LockSlowWait(t)
    PROVE  ThreadInv'
<1> USE DEF ThreadInv
<1>1. PICK o \in Threads : o = seen[t].owner /\ lockOwner[t] = NoThread
  BY DEF LockSlowWait, Executing, SlowPathSawOwner, WaitingIffRegistered
<1>2. /\ lockOwner' = [lockOwner EXCEPT ![t] = o]
      /\ numKernelWaiters' = [numKernelWaiters EXCEPT ![o] = @ + 1]
      /\ run' = [run EXCEPT ![t] = "Waiting"]
      /\ pc' = [pc EXCEPT ![t] = "wait"]
      /\ seen' = [seen EXCEPT ![t] = Unlocked]
      /\ UNCHANGED <<tag, nextTag, schedLock, req, allowed, termReq>>
  BY <1>1 DEF LockSlowWait, OneMoreWaiter
<1>3. susp' \in [Threads -> SUBSET SuspendTypes]
  BY <1>1 DEF LockSlowWait, ContinueIfHasKernelWaiters, TypeOK
<1>4. TypeOK'
  <2>1. seen' \in [Threads -> Tags]
    BY <1>2, UnlockedTag DEF TypeOK
  <2>2. lockOwner' \in [Threads -> Owners] /\ numKernelWaiters' \in [Threads -> Nat]
    BY <1>1, <1>2 DEF TypeOK, Owners
  <2> QED
    BY <1>2, <1>3, <2>1, <2>2 DEF TypeOK
<1>5. TagsWellFormed' /\ SlowPathSawOwner' /\ WaitsInSlowPath' /\ WaitingIffRegistered'
  BY <1>1, <1>2 DEF TypeOK, TagsWellFormed, WellFormed, SlowPathSawOwner,
                    WaitsInSlowPath, WaitingIffRegistered
<1>6. WaiterCountExact'
  <2>1. WaitersOf(o)' = WaitersOf(o) \cup {t} /\ t \notin WaitersOf(o)
    BY <1>1, <1>2 DEF WaitersOf, TypeOK
  <2>2. \A u \in Threads \ {o} : WaitersOf(u)' = WaitersOf(u)
    BY <1>1, <1>2 DEF WaitersOf, TypeOK
  <2>3. Cardinality(WaitersOf(o)') = Cardinality(WaitersOf(o)) + 1
    BY <1>1, <2>1, WaitersFinite, FS_AddElement
  <2> QED
    BY <1>1, <1>2, <2>2, <2>3 DEF WaiterCountExact, TypeOK
<1> QED
  BY <1>4, <1>5, <1>6

\* A hand-over moves every waiter of the unlocking thread to the next owner but
\* the next owner itself, and the counts with them.
LEMMA ThreadHandOver ==
    ASSUME ThreadInv, NEW t \in Threads, UnlockSlowHandOver(t)
    PROVE  ThreadInv'
<1> USE DEF ThreadInv
<1>1. PICK n \in WaitersOf(t) :
        /\ lockOwner' = [w \in Threads |->
                            IF w = n THEN NoThread
                            ELSE IF w \in WaitersOf(t) \ {n} THEN n ELSE lockOwner[w]]
        /\ numKernelWaiters' =
              [numKernelWaiters EXCEPT
                  ![t] = numKernelWaiters[t] - Cardinality(WaitersOf(t)),
                  ![n] = numKernelWaiters[n] + Cardinality(WaitersOf(t) \ {n})]
        /\ nextTag' = [nextTag EXCEPT ![t] = NextTag(n, WaitersOf(t) \ {n})]
        /\ run' = [run EXCEPT ![n] = "Runnable"]
        /\ susp' = CatchUpOnSuspension(
                ContinueIfHasKernelWaiters(susp, n,
                    numKernelWaiters[n] + Cardinality(WaitersOf(t) \ {n})),
                t, numKernelWaiters[t] - Cardinality(WaitersOf(t)))
  BY DEF UnlockSlowHandOver, WithMovedWaiters
<1> DEFINE rest == WaitersOf(t) \ {n}
<1>2. /\ pc' = [pc EXCEPT ![t] = "store"]
      /\ schedLock' = t
      /\ UNCHANGED <<tag, seen, req, allowed, termReq>>
  BY DEF UnlockSlowHandOver
<1>3. n \in Threads /\ lockOwner[n] = t /\ lockOwner[t] = NoThread /\ n # t
  BY DEF UnlockSlowHandOver, Executing, WaitersOf, WaitingIffRegistered
<1>4. susp' \in [Threads -> SUBSET SuspendTypes]
  BY <1>1, <1>3
  DEF CatchUpOnSuspension, TrySuspend, ContinueIfHasKernelWaiters, SuspendFlags, TypeOK
<1>5. NextTag(n, rest) \in Tags /\ WellFormed(NextTag(n, rest))
  BY <1>3 DEF NextTag, Tags, Owners, WellFormed
<1>6. rest \subseteq Threads /\ IsFiniteSet(rest) /\ Cardinality(rest) \in Nat
  <2>1. rest \subseteq Threads
    BY DEF WaitersOf
  <2> QED
    BY <2>1, FS_Subset, FS_CardinalityType
<1>7. /\ \A u \in Threads \ {t, n} : numKernelWaiters'[u] = numKernelWaiters[u]
      /\ numKernelWaiters'[t] = 0
      /\ numKernelWaiters'[n] = numKernelWaiters[n] + Cardinality(rest)
  <2>1. numKernelWaiters[t] - Cardinality(WaitersOf(t)) = 0
    BY WaitersFinite DEF WaiterCountExact
  <2> QED
    BY <1>1, <1>3, <2>1 DEF TypeOK
<1>8. numKernelWaiters' \in [Threads -> Nat]
  <2>1. \A u \in Threads : numKernelWaiters'[u] \in Nat
    BY <1>3, <1>6, <1>7 DEF TypeOK
  <2>2. numKernelWaiters' = [u \in Threads |-> numKernelWaiters'[u]]
    BY <1>1 DEF TypeOK
  <2> QED
    BY <2>1, <2>2
<1>9. TypeOK'
  BY <1>1, <1>2, <1>3, <1>4, <1>5, <1>8 DEF TypeOK, Owners
<1>10. TagsWellFormed'
  BY <1>1, <1>2, <1>5 DEF TypeOK, TagsWellFormed, WellFormed
<1>11. SlowPathSawOwner' /\ WaitsInSlowPath' /\ WaitingIffRegistered'
  <2>1. \A w \in Threads : lockOwner'[w] = NoThread <=> w = n \/ lockOwner[w] = NoThread
    BY <1>1, <1>3 DEF WaitersOf
  <2>2. \A w \in Threads : run'[w] = "Waiting" <=> w # n /\ run[w] = "Waiting"
    BY <1>1, <1>3 DEF TypeOK
  <2>3. run[t] = "Runnable"
    BY DEF UnlockSlowHandOver, Executing
  <2> QED
    BY <1>2, <2>1, <2>2, <2>3 DEF TypeOK, SlowPathSawOwner, WaitsInSlowPath, WaitingIffRegistered
<1>12. WaiterCountExact'
  <2>1. WaitersOf(t)' = {} /\ WaitersOf(n)' = WaitersOf(n) \cup rest
    BY <1>1, <1>3 DEF WaitersOf
  <2>2. \A u \in Threads \ {t, n} : WaitersOf(u)' = WaitersOf(u)
    BY <1>1, <1>3 DEF WaitersOf
  <2>3. WaitersOf(n) \cap rest = {}
    BY <1>3 DEF WaitersOf
  <2>4. Cardinality(WaitersOf(n)') = Cardinality(WaitersOf(n)) + Cardinality(rest)
    <3>1. IsFiniteSet(WaitersOf(n)) /\ Cardinality(WaitersOf(n)) \in Nat
      BY <1>3, WaitersFinite
    <3>2. Cardinality(WaitersOf(n) \cup rest)
            = Cardinality(WaitersOf(n)) + Cardinality(rest) - Cardinality(WaitersOf(n) \cap rest)
      BY <1>6, <3>1, FS_Union
    <3> QED
      <4>1. Cardinality(WaitersOf(n) \cap rest) = 0
        BY <2>3, FS_EmptySet
      <4> QED
        BY <1>6, <2>1, <3>1, <3>2, <4>1
  <2> QED
    BY <1>3, <1>7, <2>1, <2>2, <2>4, FS_EmptySet DEF WaiterCountExact
<1> QED
  BY <1>9, <1>10, <1>11, <1>12

\* What the rest of the kernel does to a thread preserves it, termination of a
\* waiting thread included.
LEMMA ThreadEnvironment ==
    ASSUME ThreadInv, NEW t \in Threads, Environment(t)
    PROVE  ThreadInv'
<1> USE DEF ThreadInv
<1>1. ASSUME NEW type \in SuspendTypes, RequestSuspend(t, type) PROVE ThreadInv'
  <2>1. susp' \in [Threads -> SUBSET SuspendTypes]
    BY <1>1 DEF RequestSuspend, TrySuspend, TypeOK
  <2>2. TypeOK'
    BY <1>1, <2>1 DEF RequestSuspend, lockVars, TypeOK
  <2> QED
    BY <1>1, <2>2 DEF RequestSuspend, lockVars, TagsWellFormed, WellFormed,
          SlowPathSawOwner, WaitsInSlowPath, WaitingIffRegistered, WaiterCountExact, WaitersOf
<1>2. ASSUME NEW type \in SuspendTypes, Resume(t, type) PROVE ThreadInv'
  BY <1>2 DEF Resume, lockVars, TypeOK, TagsWellFormed, WellFormed,
        SlowPathSawOwner, WaitsInSlowPath, WaitingIffRegistered, WaiterCountExact, WaitersOf
<1>3. ASSUME Exit(t) PROVE ThreadInv'
  BY <1>3 DEF Exit, Executing, lockVars, TypeOK, TagsWellFormed, WellFormed,
        SlowPathSawOwner, WaitsInSlowPath, WaitingIffRegistered, WaiterCountExact, WaitersOf
<1>4. ASSUME RequestTerminate(t) PROVE ThreadInv'
  <2>1. /\ UNCHANGED <<tag, seen, nextTag, schedLock, pc, req>>
        /\ termReq' \in [Threads -> BOOLEAN]
        /\ allowed' \in [Threads -> BOOLEAN]
        /\ susp' \in [Threads -> SUBSET SuspendTypes]
    BY <1>4 DEF RequestTerminate, lockVars, TypeOK
  <2>2. CASE run[t] # "Waiting"
    <3>1. UNCHANGED <<run, lockOwner, numKernelWaiters>>
      BY <1>4, <2>2 DEF RequestTerminate
    <3> QED
      BY <2>1, <3>1 DEF TypeOK, TagsWellFormed, WellFormed, SlowPathSawOwner,
           WaitsInSlowPath, WaitingIffRegistered, WaiterCountExact, WaitersOf
  <2>3. CASE run[t] = "Waiting"
    <3>1. PICK o \in Threads : lockOwner[t] = o
      BY <2>3 DEF TypeOK, WaitingIffRegistered, Owners
    <3>2. /\ run' = [run EXCEPT ![t] = "Runnable"]
          /\ lockOwner' = [lockOwner EXCEPT ![t] = NoThread]
          /\ numKernelWaiters' = [numKernelWaiters EXCEPT ![o] = @ - 1]
      BY <1>4, <2>3, <3>1 DEF RequestTerminate, LeaveOwner
    <3>3. t \in WaitersOf(o) /\ WaitersOf(o)' = WaitersOf(o) \ {t}
      BY <3>1, <3>2 DEF WaitersOf, TypeOK
    <3>4. \A u \in Threads \ {o} : WaitersOf(u)' = WaitersOf(u)
      BY <3>1, <3>2 DEF WaitersOf, TypeOK
    <3>5. /\ Cardinality(WaitersOf(o)') = Cardinality(WaitersOf(o)) - 1
          /\ Cardinality(WaitersOf(o)') \in Nat
      <4>1. IsFiniteSet(WaitersOf(o)) /\ IsFiniteSet(WaitersOf(o) \ {t})
        BY <3>1, WaitersFinite, FS_RemoveElement
      <4> QED
        BY <3>3, <4>1, FS_RemoveElement, FS_CardinalityType
    <3>6. WaiterCountExact' /\ numKernelWaiters' \in [Threads -> Nat]
      BY <3>1, <3>2, <3>4, <3>5 DEF WaiterCountExact, TypeOK
    <3>7. TypeOK'
      BY <2>1, <3>2, <3>6 DEF TypeOK, Owners
    <3> QED
      BY <2>1, <3>2, <3>6, <3>7 DEF TypeOK, TagsWellFormed, WellFormed, SlowPathSawOwner,
           WaitsInSlowPath, WaitingIffRegistered
  <2> QED
    BY <2>2, <2>3
<1> QED
  BY <1>1, <1>2, <1>3, <1>4 DEF Environment

\* The thread invariant holds in every reachable state: each waiting thread is
\* registered once, and m_num_kernel_waiters is exact, whatever the number of
\* threads, and whoever is suspended, resumed or terminated.
THEOREM ThreadInvariant == Spec => []ThreadInv
<1>1. ThreadInv /\ [Next]_vars => ThreadInv'
  <2> SUFFICES ASSUME ThreadInv, [Next]_vars PROVE ThreadInv'
    OBVIOUS
  <2>1. CASE UNCHANGED vars
    BY <2>1 DEF vars, ThreadInv, TypeOK, TagsWellFormed, WellFormed, SlowPathSawOwner,
         WaitsInSlowPath, WaitingIffRegistered, WaiterCountExact, WaitersOf
  <2>2. ASSUME NEW t \in Threads, LockStep(t) PROVE ThreadInv'
    BY <2>2, ThreadQuiet, ThreadWait DEF LockStep
  <2>3. ASSUME NEW t \in Threads, UnlockStep(t) PROVE ThreadInv'
    BY <2>3, ThreadQuiet, ThreadHandOver DEF UnlockStep
  <2> QED
    BY <2>1, <2>2, <2>3, ThreadEnvironment DEF Next
<1> QED
  BY ThreadInit, <1>1, PTL DEF Spec

\* The variables have their types, a thread has a lock owner exactly while it
\* waits, and m_num_kernel_waiters is the number of the threads that wait.
THEOREM ExactRegistration == Spec => []RegistrationExact
<1>1. ThreadInv => RegistrationExact
  BY DEF ThreadInv, RegistrationExact
<1> QED
  BY <1>1, ThreadInvariant, PTL

-----------------------------------------------------------------------------
(* Mutual exclusion, where no thread is terminated while it waits.         *)

\* The tag as it will be once the scheduler lock is free: while UnlockSlowPath
\* holds the scheduler lock, the one it is about to store.
TagToBe == IF SchedulerFree THEN tag ELSE nextTag[schedLock]

\* UnlockSlowPath has the scheduler lock from the hand-over to its store.
StoreInWindow == \A t \in Threads : pc[t] = "store" <=> schedLock = t

\* Whoever is inside, up to the store that ends Unlock, is in the tag.
InsideOwnsTag == \A t \in Threads : pc[t] \in {"cs", "unlock", "store"} => tag.owner = t

\* A woken waiter is the one the lock was handed to.
WokenOwnsTag ==
    \A t \in Threads : pc[t] = "wait" /\ run[t] = "Runnable" => TagToBe.owner = t

\* A waiter waits on the owner, and the tag says that somebody waits.
WaitersInTag ==
    \A w \in Threads : run[w] = "Waiting" => TagToBe.owner = lockOwner[w] /\ TagToBe.waiters

\* The next owner is in LockSlowPath until the store.
NextOwnerWaits ==
    \A t \in Threads :
        pc[t] = "store" /\ nextTag[t].owner # NoThread => pc[nextTag[t].owner] = "wait"

LockInv ==
    /\ ThreadInv
    /\ StoreInWindow
    /\ InsideOwnsTag
    /\ WokenOwnsTag
    /\ WaitersInTag
    /\ NextOwnerWaits

\* The initial state satisfies the lock invariant.
LEMMA LockInit == Init => LockInv
<1> SUFFICES ASSUME Init PROVE LockInv
  OBVIOUS
<1>1. StoreInWindow /\ InsideOwnsTag /\ WokenOwnsTag /\ WaitersInTag /\ NextOwnerWaits
  BY DEF Init, StoreInWindow, InsideOwnsTag, WokenOwnsTag, WaitersInTag, NextOwnerWaits
<1> QED
  BY <1>1, ThreadInit DEF LockInv

\* Every step of Lock preserves it: a compare-and-swap takes the lock only when
\* nobody is inside and nobody waits.
LEMMA LockStepKeeps ==
    ASSUME LockInv, ThreadInv', NEW t \in Threads, LockStep(t)
    PROVE  LockInv'
<1> USE DEF LockInv, Executing
<1>0. TypeOK
  BY DEF ThreadInv
<1>1. ASSUME CallLock(t) PROVE LockInv'
  BY <1>0, <1>1 DEF CallLock, lockVars, threadVars, TypeOK, StoreInWindow, InsideOwnsTag,
       WokenOwnsTag, WaitersInTag, NextOwnerWaits, TagToBe, SchedulerFree
<1>2. ASSUME LockFast(t) PROVE LockInv'
  <2>1. UNCHANGED <<schedLock, nextTag, run, lockOwner>> /\ pc[t] = "lock"
    BY <1>2 DEF LockFast, threadVars
  <2>2. CASE LockFree
    <3>1. tag.owner = NoThread /\ ~tag.waiters
      BY <2>2 DEF LockFree, Unlocked
    <3>2. tag' = [owner |-> t, waiters |-> FALSE] /\ pc' = [pc EXCEPT ![t] = "cs"]
      BY <1>2, <2>2 DEF LockFast
    <3>3. SchedulerFree
      BY <1>0, <3>1 DEF TypeOK, Owners, SchedulerFree, StoreInWindow, InsideOwnsTag
    <3>4. \A w \in Threads : run[w] # "Waiting" /\ ~(pc[w] = "wait" /\ run[w] = "Runnable")
      BY <3>1, <3>3 DEF WaitersInTag, WokenOwnsTag, TagToBe
    <3>5. InsideOwnsTag' /\ StoreInWindow'
      BY <1>0, <2>1, <3>1, <3>2 DEF InsideOwnsTag, StoreInWindow, TypeOK
    <3>6. WokenOwnsTag' /\ WaitersInTag'
      BY <1>0, <2>1, <3>2, <3>4 DEF WokenOwnsTag, WaitersInTag, TypeOK
    <3>7. NextOwnerWaits'
      BY <1>0, <2>1, <3>2 DEF NextOwnerWaits, TypeOK, Tags, Owners
    <3> QED
      BY <3>5, <3>6, <3>7
  <2>3. CASE ~LockFree
    <3>1. tag' = [tag EXCEPT !.waiters = TRUE] /\ pc' = [pc EXCEPT ![t] = "slow"]
      BY <1>2, <2>3 DEF LockFast
    <3>2. tag'.owner = tag.owner /\ tag'.waiters
      BY <1>0, <3>1 DEF TypeOK, Tags
    <3>3. TagToBe'.owner = TagToBe.owner /\ (TagToBe.waiters => TagToBe'.waiters)
      BY <2>1, <3>2 DEF TagToBe, SchedulerFree
    <3>4. StoreInWindow' /\ InsideOwnsTag' /\ NextOwnerWaits'
      BY <1>0, <2>1, <3>1, <3>2
      DEF StoreInWindow, InsideOwnsTag, NextOwnerWaits, TypeOK, Tags, Owners
    <3>5. WokenOwnsTag' /\ WaitersInTag'
      BY <1>0, <2>1, <3>1, <3>3 DEF WokenOwnsTag, WaitersInTag, TypeOK
    <3> QED
      BY <3>4, <3>5
  <2> QED
    BY <2>2, <2>3
<1>3. ASSUME LockSlowRetry(t) PROVE LockInv'
  BY <1>0, <1>3 DEF LockSlowRetry, threadVars, TypeOK, StoreInWindow, InsideOwnsTag,
       WokenOwnsTag, WaitersInTag, NextOwnerWaits, TagToBe, SchedulerFree
<1>4. ASSUME LockSlowWait(t) PROVE LockInv'
  <2>1. /\ SchedulerFree
        /\ tag.owner = seen[t].owner /\ tag.waiters
        /\ lockOwner' = [lockOwner EXCEPT ![t] = seen[t].owner]
        /\ run' = [run EXCEPT ![t] = "Waiting"]
        /\ pc' = [pc EXCEPT ![t] = "wait"]
        /\ UNCHANGED <<tag, nextTag, schedLock>>
    BY <1>4 DEF LockSlowWait, ThreadInv, SlowPathSawOwner
  <2>2. StoreInWindow' /\ InsideOwnsTag' /\ NextOwnerWaits'
    BY <1>0, <1>4, <2>1
    DEF LockSlowWait, StoreInWindow, InsideOwnsTag, NextOwnerWaits, TypeOK, Tags, Owners
  <2>3. WokenOwnsTag' /\ WaitersInTag'
    BY <1>0, <2>1 DEF WokenOwnsTag, WaitersInTag, TagToBe, SchedulerFree, TypeOK
  <2> QED
    BY <2>2, <2>3
<1>5. ASSUME WaitReturn(t) PROVE LockInv'
  BY <1>0, <1>5 DEF WaitReturn, lockVars, threadVars, TypeOK, StoreInWindow, InsideOwnsTag,
       WokenOwnsTag, WaitersInTag, NextOwnerWaits, TagToBe, SchedulerFree
<1> QED
  BY <1>1, <1>2, <1>3, <1>4, <1>5 DEF LockStep

\* Every step of Unlock preserves it: a hand-over names the thread it wakes.
LEMMA UnlockStepKeeps ==
    ASSUME LockInv, ThreadInv', NEW t \in Threads, UnlockStep(t)
    PROVE  LockInv'
<1> USE DEF LockInv, Executing
<1>0. TypeOK
  BY DEF ThreadInv
<1>1. ASSUME UnlockFast(t) PROVE LockInv'
  <2>1. tag.owner = t /\ pc[t] = "cs" /\ UNCHANGED <<schedLock, nextTag, run, lockOwner>>
    BY <1>1 DEF UnlockFast, threadVars, InsideOwnsTag
  <2>2. CASE tag = [owner |-> t, waiters |-> FALSE]
    <3>1. tag' = Unlocked /\ pc' = [pc EXCEPT ![t] = "idle"] /\ ~tag.waiters
      BY <1>1, <2>2 DEF UnlockFast
    <3>2. SchedulerFree
      BY <1>0, <2>1 DEF TypeOK, Owners, SchedulerFree, StoreInWindow, InsideOwnsTag
    <3>3. \A w \in Threads : run[w] # "Waiting" /\ ~(pc[w] = "wait" /\ run[w] = "Runnable")
      BY <2>1, <3>1, <3>2 DEF WaitersInTag, WokenOwnsTag, TagToBe
    <3>4. StoreInWindow' /\ InsideOwnsTag'
      BY <1>0, <2>1, <3>1 DEF StoreInWindow, InsideOwnsTag, TypeOK
    <3>5. WokenOwnsTag' /\ WaitersInTag' /\ NextOwnerWaits'
      BY <1>0, <2>1, <3>1, <3>2, <3>3
      DEF WokenOwnsTag, WaitersInTag, NextOwnerWaits, StoreInWindow, SchedulerFree, TypeOK
    <3> QED
      BY <3>4, <3>5
  <2>3. CASE tag # [owner |-> t, waiters |-> FALSE]
    <3>1. tag' = tag /\ pc' = [pc EXCEPT ![t] = "unlock"]
      BY <1>1, <2>3 DEF UnlockFast
    <3> QED
      BY <1>0, <2>1, <3>1 DEF TypeOK, Tags, Owners, StoreInWindow, InsideOwnsTag, WokenOwnsTag,
           WaitersInTag, NextOwnerWaits, TagToBe, SchedulerFree
  <2> QED
    BY <2>2, <2>3
<1>2. ASSUME UnlockSlowNobody(t) PROVE LockInv'
  <2>1. /\ SchedulerFree /\ tag.owner = t /\ pc[t] = "unlock"
        /\ nextTag' = [nextTag EXCEPT ![t] = Unlocked]
        /\ pc' = [pc EXCEPT ![t] = "store"] /\ schedLock' = t
        /\ UNCHANGED <<tag, run, lockOwner>>
    BY <1>2 DEF UnlockSlowNobody, InsideOwnsTag
  <2>2. \A w \in Threads : run[w] # "Waiting" /\ ~(pc[w] = "wait" /\ run[w] = "Runnable")
    BY <1>2, <2>1 DEF UnlockSlowNobody, WaitersOf, WaitersInTag, WokenOwnsTag, TagToBe
  <2>3. StoreInWindow' /\ InsideOwnsTag' /\ WokenOwnsTag' /\ WaitersInTag'
    BY <1>0, <2>1, <2>2
    DEF StoreInWindow, InsideOwnsTag, WokenOwnsTag, WaitersInTag, SchedulerFree, TypeOK
  <2>4. NextOwnerWaits'
    BY <1>0, <2>1 DEF NextOwnerWaits, StoreInWindow, SchedulerFree, TypeOK, Unlocked
  <2> QED
    BY <2>3, <2>4
<1>3. ASSUME UnlockSlowHandOver(t) PROVE LockInv'
  <2>1. /\ SchedulerFree /\ tag.owner = t /\ pc[t] = "unlock"
        /\ pc' = [pc EXCEPT ![t] = "store"] /\ schedLock' = t /\ UNCHANGED tag
    BY <1>3 DEF UnlockSlowHandOver, InsideOwnsTag
  <2>2. PICK n \in WaitersOf(t) :
          /\ lockOwner' = [w \in Threads |->
                            IF w = n THEN NoThread
                            ELSE IF w \in WaitersOf(t) \ {n} THEN n ELSE lockOwner[w]]
          /\ nextTag' = [nextTag EXCEPT ![t] = NextTag(n, WaitersOf(t) \ {n})]
          /\ run' = [run EXCEPT ![n] = "Runnable"]
    BY <1>3 DEF UnlockSlowHandOver
  <2>3. n \in Threads /\ run[n] = "Waiting" /\ pc[n] = "wait" /\ n # t
    BY <2>1 DEF WaitersOf, ThreadInv, WaitingIffRegistered, WaitsInSlowPath
  <2>4. \A w \in Threads : run[w] = "Waiting" => w \in WaitersOf(t)
    BY <2>1 DEF WaitersInTag, TagToBe, WaitersOf
  <2>5. \A w \in Threads : ~(pc[w] = "wait" /\ run[w] = "Runnable")
    BY <2>1 DEF WokenOwnsTag, TagToBe
  <2>6. TagToBe' = NextTag(n, WaitersOf(t) \ {n})
    BY <1>0, <2>1, <2>2 DEF TagToBe, SchedulerFree, TypeOK
  <2>7. StoreInWindow' /\ InsideOwnsTag'
    BY <1>0, <2>1 DEF StoreInWindow, InsideOwnsTag, SchedulerFree, TypeOK
  <2>8. WokenOwnsTag'
    BY <1>0, <2>1, <2>2, <2>3, <2>5, <2>6 DEF WokenOwnsTag, NextTag, TypeOK
  <2>9. WaitersInTag'
    <3>1. ASSUME NEW w \in Threads, run'[w] = "Waiting"
          PROVE  TagToBe'.owner = lockOwner'[w] /\ TagToBe'.waiters
      <4>1. w # n /\ run[w] = "Waiting"
        BY <1>0, <2>2, <2>3, <3>1 DEF TypeOK
      <4>2. w \in WaitersOf(t) \ {n} /\ lockOwner'[w] = n
        BY <2>2, <2>4, <4>1
      <4> QED
        BY <2>6, <4>2 DEF NextTag
    <3> QED
      BY <3>1 DEF WaitersInTag
  <2>10. NextOwnerWaits'
    BY <1>0, <2>1, <2>2, <2>3 DEF NextOwnerWaits, NextTag, StoreInWindow, SchedulerFree, TypeOK
  <2> QED
    BY <2>7, <2>8, <2>9, <2>10
<1>4. ASSUME UnlockStore(t) PROVE LockInv'
  <2>1. /\ schedLock = t /\ schedLock' = NoThread /\ tag.owner = t /\ pc[t] = "store"
        /\ tag' = nextTag[t]
        /\ nextTag' = [nextTag EXCEPT ![t] = Unlocked]
        /\ pc' = [pc EXCEPT ![t] = "idle"]
        /\ UNCHANGED <<run, lockOwner>>
    BY <1>4 DEF UnlockStore, threadVars, InsideOwnsTag
  <2>2. TagToBe' = TagToBe
    BY <2>1 DEF TagToBe, SchedulerFree
  <2>3. StoreInWindow' /\ InsideOwnsTag' /\ NextOwnerWaits'
    BY <1>0, <2>1 DEF StoreInWindow, InsideOwnsTag, NextOwnerWaits, TypeOK
  <2>4. WokenOwnsTag' /\ WaitersInTag'
    BY <1>0, <2>1, <2>2 DEF WokenOwnsTag, WaitersInTag, TypeOK
  <2> QED
    BY <2>3, <2>4
<1> QED
  BY <1>1, <1>2, <1>3, <1>4 DEF UnlockStep

\* Suspension, termination and exit do not touch the lock, when no thread is
\* asked to terminate while it waits for it.
LEMMA EnvironmentKeeps ==
    ASSUME Cancellable = {}, LockInv, ThreadInv', NEW t \in Threads, Environment(t)
    PROVE  /\ LockInv'
           /\ UNCHANGED tag
           /\ \A u \in Threads : pc'[u] = pc[u] \/ (pc[u] = "idle" /\ pc'[u] = "exited")
<1>0. TypeOK
  BY DEF LockInv, ThreadInv
<1>1. CASE Exit(t)
  <2>1. /\ UNCHANGED <<tag, nextTag, schedLock, lockOwner>>
        /\ pc[t] = "idle" /\ pc' = [pc EXCEPT ![t] = "exited"]
        /\ run' = [run EXCEPT ![t] = "Terminated"]
    BY <1>1 DEF Exit, Executing, lockVars
  <2>2. TagToBe' = TagToBe
    BY <2>1 DEF TagToBe, SchedulerFree
  <2>3. StoreInWindow' /\ InsideOwnsTag' /\ NextOwnerWaits'
    BY <1>0, <2>1 DEF LockInv, StoreInWindow, InsideOwnsTag, NextOwnerWaits, TypeOK, Tags, Owners
  <2>4. WokenOwnsTag' /\ WaitersInTag'
    BY <1>0, <2>1, <2>2 DEF LockInv, WokenOwnsTag, WaitersInTag, TypeOK
  <2>5. \A u \in Threads : pc'[u] = pc[u] \/ (pc[u] = "idle" /\ pc'[u] = "exited")
    BY <1>0, <2>1 DEF TypeOK
  <2> QED
    BY <2>1, <2>3, <2>4, <2>5 DEF LockInv
<1>2. CASE ~Exit(t)
  <2>1. UNCHANGED <<tag, nextTag, schedLock, pc, run, lockOwner>>
    BY <1>2 DEF Environment, RequestSuspend, Resume, RequestTerminate, lockVars
  <2> QED
    BY <2>1 DEF LockInv, StoreInWindow, InsideOwnsTag, WokenOwnsTag, WaitersInTag,
                NextOwnerWaits, TagToBe, SchedulerFree
<1> QED
  BY <1>1, <1>2

\* The lock invariant holds in every reachable state, when no wait is cancelled.
THEOREM LockInvariant ==
    ASSUME Cancellable = {}
    PROVE  Spec => []LockInv
<1>1. ThreadInv /\ ThreadInv' /\ LockInv /\ [Next]_vars => LockInv'
  <2> SUFFICES ASSUME ThreadInv, ThreadInv', LockInv, [Next]_vars PROVE LockInv'
    OBVIOUS
  <2>1. CASE UNCHANGED vars
    BY <2>1 DEF vars, LockInv, StoreInWindow, InsideOwnsTag, WokenOwnsTag, WaitersInTag,
                NextOwnerWaits, TagToBe, SchedulerFree
  <2>2. CASE Next
    BY <2>2, LockStepKeeps, UnlockStepKeeps, EnvironmentKeeps DEF Next
  <2> QED
    BY <2>1, <2>2
<1> QED
  BY LockInit, ThreadInvariant, <1>1, PTL DEF Spec

\* Mutual exclusion: unless a wait is cancelled, for any number of threads and
\* any suspensions, whoever is between Lock and Unlock is the owner in the tag.
THEOREM MutualExclusion ==
    ASSUME Cancellable = {}
    PROVE  Spec => []HolderOwnsTag
<1>1. LockInv => HolderOwnsTag
  BY DEF LockInv, InsideOwnsTag, HolderOwnsTag
<1> QED
  BY <1>1, LockInvariant, PTL

\* No lost wake-up: unless a wait is cancelled, the tag sends the Unlock of a thread
\* that others wait for to the slow path.
THEOREM NoLostWaiter ==
    ASSUME Cancellable = {}
    PROVE  Spec => []WaitersSeenByOwner
<1>1. LockInv => WaitersSeenByOwner
  <2> SUFFICES ASSUME LockInv, SchedulerFree, NEW w \in Threads, run[w] = "Waiting"
               PROVE  tag = [owner |-> lockOwner[w], waiters |-> TRUE]
    BY DEF WaitersSeenByOwner
  <2>1. tag.owner = lockOwner[w] /\ tag.waiters
    BY DEF LockInv, WaitersInTag, TagToBe
  <2>2. tag \in Tags
    BY DEF LockInv, ThreadInv, TypeOK
  <2> QED
    BY <2>1, <2>2 DEF Tags
<1> QED
  BY <1>1, LockInvariant, PTL

-----------------------------------------------------------------------------
(* The light lock implements the abstract lock.                            *)

\* Each step of Lock is a step of the abstract lock or a stutter.
LEMMA LockStepSimulates ==
    ASSUME LockInv, NEW t \in Threads, LockStep(t)
    PROVE  [Abstract!Next]_(Abstract!vars)
<1>0. TypeOK
  BY DEF LockInv, ThreadInv
<1> USE DEF Executing, Abstract!vars
<1>1. ASSUME CallLock(t) PROVE [Abstract!Next]_(Abstract!vars)
  <2>1. pc[t] = "idle" /\ pc' = [pc EXCEPT ![t] = "lock"] /\ tag' = tag
    BY <1>1 DEF CallLock, lockVars
  <2>2. CASE tag.owner = t
    <3>1. Wanting' = Wanting /\ Inside' = Inside
      BY <1>0, <2>1, <2>2 DEF Wanting, Inside, TypeOK
    <3> QED
      BY <2>1, <3>1
  <2>3. CASE tag.owner # t
    <3>1. Wanting' = Wanting \cup {t} /\ t \notin Wanting /\ Inside' = Inside
      BY <1>0, <2>1, <2>3 DEF Wanting, Inside, TypeOK
    <3> QED
      BY <2>1, <2>3, <3>1 DEF Abstract!Next, Abstract!Want
  <2> QED
    BY <2>2, <2>3
<1>2. ASSUME LockFast(t) PROVE [Abstract!Next]_(Abstract!vars)
  <2>1. CASE LockFree
    <3>1. /\ pc[t] = "lock" /\ tag.owner = NoThread
          /\ tag' = [owner |-> t, waiters |-> FALSE] /\ pc' = [pc EXCEPT ![t] = "cs"]
      BY <1>2, <2>1 DEF LockFast, LockFree, Unlocked
    <3>2. t \in Wanting /\ Wanting' = Wanting \ {t}
      BY <1>0, <3>1 DEF Wanting, TypeOK
    <3>3. Inside' = Inside \cup {t}
      BY <1>0, <3>1 DEF Inside, TypeOK
    <3> QED
      BY <3>1, <3>2, <3>3 DEF Abstract!Next, Abstract!Acquire
  <2>2. CASE ~LockFree
    <3>1. /\ pc[t] = "lock" /\ tag' = [tag EXCEPT !.waiters = TRUE]
          /\ pc' = [pc EXCEPT ![t] = "slow"]
      BY <1>2, <2>2 DEF LockFast
    <3>2. tag'.owner = tag.owner
      BY <1>0, <3>1 DEF TypeOK, Tags
    <3>3. Wanting' = Wanting /\ Inside' = Inside
      BY <1>0, <3>1, <3>2 DEF Wanting, Inside, TypeOK
    <3> QED
      BY <3>2, <3>3
  <2> QED
    BY <2>1, <2>2
<1>3. ASSUME LockSlowRetry(t) \/ LockSlowWait(t) PROVE [Abstract!Next]_(Abstract!vars)
  <2>1. /\ pc[t] = "slow" /\ tag' = tag
        /\ pc' = [pc EXCEPT ![t] = "lock"] \/ pc' = [pc EXCEPT ![t] = "wait"]
    BY <1>3 DEF LockSlowRetry, LockSlowWait
  <2>2. Wanting' = Wanting /\ Inside' = Inside
    BY <1>0, <2>1 DEF Wanting, Inside, TypeOK
  <2> QED
    BY <2>1, <2>2
<1>4. ASSUME WaitReturn(t) PROVE [Abstract!Next]_(Abstract!vars)
  <2>1. tag.owner = t /\ tag' = tag /\ pc' = [pc EXCEPT ![t] = "cs"]
    BY <1>4 DEF WaitReturn, lockVars, LockInv, WokenOwnsTag, TagToBe
  <2>2. Wanting' = Wanting /\ Inside' = Inside \cup {t}
    BY <1>0, <2>1 DEF Wanting, Inside, TypeOK
  <2> QED
    BY <2>1, <2>2 DEF Abstract!Next, Abstract!Enter
<1> QED
  BY <1>1, <1>2, <1>3, <1>4 DEF LockStep

\* Each step of Unlock is a step of the abstract lock or a stutter: the store of
\* the next tag is the hand-over.
LEMMA UnlockStepSimulates ==
    ASSUME LockInv, NEW t \in Threads, UnlockStep(t)
    PROVE  [Abstract!Next]_(Abstract!vars)
<1>0. TypeOK
  BY DEF LockInv, ThreadInv
<1> USE DEF Executing, Abstract!vars
<1>1. ASSUME UnlockFast(t) PROVE [Abstract!Next]_(Abstract!vars)
  <2>1. tag.owner = t /\ pc[t] = "cs"
    BY <1>1 DEF UnlockFast, LockInv, InsideOwnsTag
  <2>2. \/ tag'.owner = NoThread /\ pc' = [pc EXCEPT ![t] = "idle"]
        \/ tag' = tag /\ pc' = [pc EXCEPT ![t] = "unlock"]
    BY <1>1 DEF UnlockFast, Unlocked
  <2>3. Wanting' = Wanting /\ Inside' = Inside \ {t}
    BY <1>0, <2>1, <2>2 DEF Wanting, Inside, TypeOK
  <2> QED
    BY <2>1, <2>2, <2>3 DEF Abstract!Next, Abstract!Release, Abstract!Leave
<1>2. ASSUME UnlockSlowNobody(t) \/ UnlockSlowHandOver(t)
      PROVE  [Abstract!Next]_(Abstract!vars)
  <2>1. pc[t] = "unlock" /\ tag' = tag /\ pc' = [pc EXCEPT ![t] = "store"]
    BY <1>2 DEF UnlockSlowNobody, UnlockSlowHandOver
  <2>2. Wanting' = Wanting /\ Inside' = Inside
    BY <1>0, <2>1 DEF Wanting, Inside, TypeOK
  <2> QED
    BY <2>1, <2>2
<1>3. ASSUME UnlockStore(t) PROVE [Abstract!Next]_(Abstract!vars)
  <2>1. /\ tag.owner = t /\ pc[t] = "store" /\ tag' = nextTag[t]
        /\ pc' = [pc EXCEPT ![t] = "idle"]
    BY <1>3 DEF UnlockStore, LockInv, InsideOwnsTag
  <2>0. Inside' = Inside /\ t \notin Inside
    BY <1>0, <2>1 DEF Inside, TypeOK
  <2>2. CASE nextTag[t].owner = NoThread
    <3>1. Wanting' = Wanting
      BY <1>0, <2>1, <2>2 DEF Wanting, TypeOK
    <3> QED
      BY <2>0, <2>1, <2>2, <3>1 DEF Abstract!Next, Abstract!Release
  <2>3. CASE nextTag[t].owner # NoThread
    <3>1. PICK n \in Threads : n = nextTag[t].owner /\ pc[n] = "wait"
      BY <1>0, <2>1, <2>3 DEF TypeOK, Tags, Owners, LockInv, NextOwnerWaits
    <3>2. n \in Wanting /\ n # t
      BY <2>1, <3>1 DEF Wanting
    <3>3. Wanting' = Wanting \ {n} /\ t \notin Wanting
      BY <1>0, <2>1, <3>1 DEF Wanting, TypeOK
    <3> QED
      BY <2>0, <2>1, <3>1, <3>2, <3>3 DEF Abstract!Next, Abstract!HandOver
  <2> QED
    BY <2>2, <2>3
<1> QED
  BY <1>1, <1>2, <1>3 DEF UnlockStep

\* Refinement: unless a wait is cancelled the light lock implements the abstract
\* lock, for any number of threads.
THEOREM Refinement ==
    ASSUME Cancellable = {}
    PROVE  Spec => ImplementsLock
<1>1. Init => Abstract!Init
  BY DEF Init, Abstract!Init, Wanting, Inside, Unlocked
<1>2. LockInv /\ ThreadInv' /\ [Next]_vars => [Abstract!Next]_(Abstract!vars)
  <2> SUFFICES ASSUME LockInv, ThreadInv', [Next]_vars PROVE [Abstract!Next]_(Abstract!vars)
    OBVIOUS
  <2>1. CASE UNCHANGED vars
    BY <2>1 DEF vars, Abstract!vars, Wanting, Inside
  <2>2. ASSUME NEW t \in Threads, Environment(t) PROVE [Abstract!Next]_(Abstract!vars)
    <3>1. UNCHANGED tag /\ \A u \in Threads :
              pc'[u] = pc[u] \/ (pc[u] = "idle" /\ pc'[u] = "exited")
      BY <2>2, EnvironmentKeeps
    <3>2. UNCHANGED <<Wanting, Inside>>
      BY <3>1 DEF Wanting, Inside
    <3> QED
      BY <3>1, <3>2 DEF Abstract!vars
  <2> QED
    BY <2>1, <2>2, LockStepSimulates, UnlockStepSimulates DEF Next
<1> QED
  BY <1>1, <1>2, LockInvariant, ThreadInvariant, PTL
  DEF Spec, ImplementsLock, Abstract!Spec

-----------------------------------------------------------------------------
(* Suspensions.                                                            *)

\* A thread is suspended for nothing but what it is to be suspended for.
SuspendedWithinFlags == \A t \in Threads : susp[t] \subseteq SuspendFlags(t)

\* What the ends of the critical sections do to the suspend flags, for a thread
\* that is suspended within its flags: with waiters it is not suspended, without
\* any it is suspended as it should be.
LEMMA SuspensionHelpers ==
    ASSUME TypeOK, NEW s \in [Threads -> SUBSET SuspendTypes], NEW t \in Threads, NEW n \in Nat,
           s[t] \subseteq SuspendFlags(t)
    PROVE  /\ ContinueIfHasKernelWaiters(s, t, n) =
                [s EXCEPT ![t] = IF n > 0 THEN {} ELSE s[t]]
           /\ CatchUpOnSuspension(s, t, n) =
                [s EXCEPT ![t] = IF n > 0 THEN s[t] ELSE SuspendFlags(t)]
<1>1. SuspendFlags(t) = {} => s[t] = {}
  OBVIOUS
<1>2. s = [s EXCEPT ![t] = s[t]]
  OBVIOUS
<1> QED
  BY <1>1, <1>2
  DEF ContinueIfHasKernelWaiters, CatchUpOnSuspension, TrySuspend, IsSuspended

\* What the steps of Lock and Unlock do to the suspensions.
SuspensionsAlone == UNCHANGED <<susp, req, allowed, numKernelWaiters>>

LEMMA QuietSuspensions ==
    ASSUME NEW t, CallLock(t) \/ LockFast(t) \/ LockSlowRetry(t) \/ WaitReturn(t)
                  \/ UnlockFast(t) \/ UnlockStore(t)
    PROVE  SuspensionsAlone
BY DEF SuspensionsAlone, CallLock, LockFast, LockSlowRetry, WaitReturn, UnlockFast,
       UnlockStore, lockVars, threadVars

LEMMA WaitSuspensions ==
    ASSUME ThreadInv, SuspendedWithinFlags, NEW t \in Threads, LockSlowWait(t)
    PROVE  /\ seen[t].owner \in Threads
           /\ susp' = [susp EXCEPT ![seen[t].owner] = {}]
           /\ numKernelWaiters' = [numKernelWaiters EXCEPT ![seen[t].owner] = @ + 1]
           /\ UNCHANGED <<req, allowed>>
<1> DEFINE o == seen[t].owner
<1>1. TypeOK /\ susp \in [Threads -> SUBSET SuspendTypes]
  BY DEF ThreadInv, TypeOK
<1>2. o \in Threads
  BY DEF LockSlowWait, Executing, ThreadInv, SlowPathSawOwner
<1>3. numKernelWaiters[o] + 1 \in Nat /\ numKernelWaiters[o] + 1 > 0
  BY <1>1, <1>2 DEF TypeOK
<1>4. ContinueIfHasKernelWaiters(susp, o, numKernelWaiters[o] + 1)
        = [susp EXCEPT ![o] = IF numKernelWaiters[o] + 1 > 0 THEN {} ELSE susp[o]]
  BY <1>1, <1>2, <1>3, SuspensionHelpers DEF SuspendedWithinFlags
<1> QED
  BY <1>2, <1>3, <1>4 DEF LockSlowWait, OneMoreWaiter

LEMMA NobodySuspensions ==
    ASSUME ThreadInv, SuspendedWithinFlags, NEW t \in Threads, UnlockSlowNobody(t)
    PROVE  /\ susp' = [susp EXCEPT ![t] = SuspendFlags(t)]
           /\ UNCHANGED <<req, allowed, numKernelWaiters>>
           /\ numKernelWaiters[t] = 0
<1>1. TypeOK /\ susp \in [Threads -> SUBSET SuspendTypes]
  BY DEF ThreadInv, TypeOK
<1>2. numKernelWaiters[t] = 0
  BY FS_EmptySet DEF UnlockSlowNobody, ThreadInv, WaiterCountExact
<1>3. CatchUpOnSuspension(susp, t, 0) = [susp EXCEPT ![t] = SuspendFlags(t)]
  BY <1>1, SuspensionHelpers DEF SuspendedWithinFlags
<1> QED
  BY <1>2, <1>3 DEF UnlockSlowNobody

LEMMA HandOverSuspensions ==
    ASSUME ThreadInv, SuspendedWithinFlags, NEW t \in Threads, UnlockSlowHandOver(t)
    PROVE  \E n \in WaitersOf(t), got \in Nat :
              /\ n \in Threads /\ n # t
              /\ got = numKernelWaiters[n] + Cardinality(WaitersOf(t) \ {n})
              /\ susp'[t] = SuspendFlags(t)
              /\ susp'[n] = IF got > 0 THEN {} ELSE susp[n]
              /\ \A u \in Threads \ {t, n} : susp'[u] = susp[u]
              /\ numKernelWaiters'[t] = 0 /\ numKernelWaiters'[n] = got
              /\ \A u \in Threads \ {t, n} : numKernelWaiters'[u] = numKernelWaiters[u]
              /\ nextTag'[t] = NextTag(n, WaitersOf(t) \ {n})
              /\ UNCHANGED <<req, allowed>>
<1>1. /\ TypeOK /\ susp \in [Threads -> SUBSET SuspendTypes]
      /\ numKernelWaiters \in [Threads -> Nat] /\ nextTag \in [Threads -> Tags]
  BY DEF ThreadInv, TypeOK
<1>2. PICK n \in WaitersOf(t) :
        LET rest == WaitersOf(t) \ {n}
            left == numKernelWaiters[t] - Cardinality(WaitersOf(t))
            got == numKernelWaiters[n] + Cardinality(rest)
        IN /\ numKernelWaiters' = [numKernelWaiters EXCEPT ![t] = left, ![n] = got]
           /\ nextTag' = [nextTag EXCEPT ![t] = NextTag(n, rest)]
           /\ susp' = CatchUpOnSuspension(ContinueIfHasKernelWaiters(susp, n, got), t, left)
  BY DEF UnlockSlowHandOver, WithMovedWaiters
<1> DEFINE rest == WaitersOf(t) \ {n}
           got == numKernelWaiters[n] + Cardinality(rest)
           woken == [susp EXCEPT ![n] = IF got > 0 THEN {} ELSE susp[n]]
<1>3. n \in Threads /\ n # t
  BY DEF UnlockSlowHandOver, Executing, ThreadInv, WaitersOf, WaitingIffRegistered
<1>4. numKernelWaiters[t] - Cardinality(WaitersOf(t)) = 0
  BY WaitersFinite DEF ThreadInv, WaiterCountExact
<1>5. got \in Nat
  <2>1. IsFiniteSet(rest)
    BY WaitersFinite, FS_RemoveElement
  <2> QED
    BY <1>1, <1>3, <2>1, FS_CardinalityType
<1>6. ContinueIfHasKernelWaiters(susp, n, got) = woken
  BY <1>1, <1>3, <1>5, SuspensionHelpers DEF SuspendedWithinFlags
<1>7. /\ woken \in [Threads -> SUBSET SuspendTypes]
      /\ woken[t] \subseteq SuspendFlags(t)
      /\ woken[n] = IF got > 0 THEN {} ELSE susp[n]
      /\ \A u \in Threads \ {t, n} : woken[u] = susp[u]
  BY <1>1, <1>3 DEF SuspendedWithinFlags
<1> HIDE DEF woken
<1>8. CatchUpOnSuspension(woken, t, 0) = [woken EXCEPT ![t] = SuspendFlags(t)]
  BY <1>1, <1>7, SuspensionHelpers
<1>9. susp' = [woken EXCEPT ![t] = SuspendFlags(t)]
  BY <1>2, <1>4, <1>6, <1>8
<1>10. /\ susp'[t] = SuspendFlags(t)
       /\ susp'[n] = IF got > 0 THEN {} ELSE susp[n]
       /\ \A u \in Threads \ {t, n} : susp'[u] = susp[u]
  BY <1>3, <1>7, <1>9
<1>11. /\ numKernelWaiters'[t] = 0 /\ numKernelWaiters'[n] = got
       /\ \A u \in Threads \ {t, n} : numKernelWaiters'[u] = numKernelWaiters[u]
  BY <1>1, <1>2, <1>3, <1>4
<1>12. nextTag'[t] = NextTag(n, rest) /\ UNCHANGED <<req, allowed>>
  BY <1>1, <1>2 DEF UnlockSlowHandOver
<1> QED
  BY <1>3, <1>5, <1>10, <1>11, <1>12

\* No step suspends a thread for more than is asked for.
LEMMA WithinFlagsKeeps ==
    ASSUME ThreadInv, SuspendedWithinFlags, [Next]_vars
    PROVE  SuspendedWithinFlags'
<1>1. TypeOK
  BY DEF ThreadInv
<1>2. ASSUME NEW t \in Threads, LockStep(t) \/ UnlockStep(t)
      PROVE  SuspendedWithinFlags'
  <2>1. UNCHANGED <<req, allowed>>
        /\ \A u \in Threads : susp'[u] \in {susp[u], {}, SuspendFlags(u)}
    <3>1. CASE UnlockSlowHandOver(t)
      <4>1. PICK n \in Threads :
              /\ susp'[t] = SuspendFlags(t)
              /\ susp'[n] \in {{}, susp[n]}
              /\ \A u \in Threads \ {t, n} : susp'[u] = susp[u]
              /\ UNCHANGED <<req, allowed>>
        BY <3>1, HandOverSuspensions
      <4> QED
        BY <4>1
    <3>2. CASE LockSlowWait(t) \/ UnlockSlowNobody(t)
      BY <1>1, <3>2, WaitSuspensions, NobodySuspensions DEF TypeOK
    <3>3. CASE ~UnlockSlowHandOver(t) /\ ~(LockSlowWait(t) \/ UnlockSlowNobody(t))
      BY <1>2, <3>3, QuietSuspensions DEF LockStep, UnlockStep, SuspensionsAlone
    <3> QED
      BY <3>1, <3>2, <3>3
  <2> QED
    BY <2>1 DEF SuspendedWithinFlags, SuspendFlags
<1>3. ASSUME NEW t \in Threads, Environment(t) PROVE SuspendedWithinFlags'
  <2>1. ASSUME NEW type \in SuspendTypes, RequestSuspend(t, type) \/ Resume(t, type)
        PROVE  SuspendedWithinFlags'
    BY <1>1, <2>1
    DEF RequestSuspend, Resume, TrySuspend, SuspendedWithinFlags, SuspendFlags, TypeOK
  <2>2. ASSUME RequestTerminate(t) \/ Exit(t) PROVE SuspendedWithinFlags'
    <3>1. /\ UNCHANGED req
          /\ \/ UNCHANGED <<susp, allowed>>
             \/ susp' = [susp EXCEPT ![t] = {}] /\ allowed' = [allowed EXCEPT ![t] = FALSE]
      BY <2>2 DEF RequestTerminate, Exit
    <3> QED
      BY <1>1, <3>1 DEF SuspendedWithinFlags, SuspendFlags, TypeOK
  <2> QED
    BY <1>3, <2>1, <2>2 DEF Environment
<1>4. CASE UNCHANGED vars
  BY <1>4 DEF vars, SuspendedWithinFlags, SuspendFlags
<1> QED
  BY <1>2, <1>3, <1>4 DEF Next

LEMMA WithinFlagsInvariant == Spec => [](ThreadInv /\ SuspendedWithinFlags)
<1>1. Init => SuspendedWithinFlags
  BY DEF Init, SuspendedWithinFlags
<1> QED
  BY <1>1, WithinFlagsKeeps, ThreadInvariant, PTL DEF Spec

\* A thread others wait for in the kernel is suspended by nothing but Resume, which
\* lifts one of its suspensions and does not look at the waiters: neither by
\* RequestSuspend, nor at the end of its own Unlock; and LockSlowPath and a hand-over
\* continue whoever they make others wait for.
THEOREM WaitersKeepRunning == Spec => OnlyResumeSuspends
<1> DEFINE SuspendedByResume(u) ==
             numKernelWaiters'[u] > 0 /\ susp'[u] # {} =>
                 \/ susp[u] # {} /\ numKernelWaiters'[u] <= numKernelWaiters[u]
                 \/ \E type \in SuspendTypes : Resume(u, type)
<1>1. ThreadInv /\ SuspendedWithinFlags /\ [Next]_vars
      => [\A t \in Threads : numKernelWaiters'[t] > 0 /\ susp'[t] # {} =>
             \/ susp[t] # {} /\ numKernelWaiters'[t] <= numKernelWaiters[t]
             \/ \E type \in SuspendTypes : Resume(t, type)]_vars
  <2> SUFFICES ASSUME ThreadInv, SuspendedWithinFlags, Next, NEW u \in Threads
               PROVE  SuspendedByResume(u)
    OBVIOUS
  <2>1. TypeOK
    BY DEF ThreadInv
  <2>2. ASSUME NEW t \in Threads, LockStep(t) \/ UnlockStep(t)
        PROVE  SuspendedByResume(u)
    <3>1. CASE UnlockSlowHandOver(t)
      <4>1. PICK n \in Threads, got \in Nat :
              /\ susp'[n] = IF got > 0 THEN {} ELSE susp[n]
              /\ \A k \in Threads \ {t, n} : susp'[k] = susp[k]
              /\ numKernelWaiters'[t] = 0 /\ numKernelWaiters'[n] = got
              /\ \A k \in Threads \ {t, n} : numKernelWaiters'[k] = numKernelWaiters[k]
        BY <3>1, HandOverSuspensions
      <4> QED
        BY <2>1, <4>1 DEF TypeOK
    <3>2. CASE LockSlowWait(t) \/ UnlockSlowNobody(t)
      BY <2>1, <3>2, WaitSuspensions, NobodySuspensions DEF TypeOK
    <3>3. CASE ~UnlockSlowHandOver(t) /\ ~(LockSlowWait(t) \/ UnlockSlowNobody(t))
      BY <2>1, <2>2, <3>3, QuietSuspensions DEF LockStep, UnlockStep, SuspensionsAlone, TypeOK
    <3> QED
      BY <3>1, <3>2, <3>3
  <2>3. ASSUME NEW t \in Threads, Environment(t) PROVE SuspendedByResume(u)
    <3>1. ASSUME NEW type \in SuspendTypes, RequestSuspend(t, type)
          PROVE  SuspendedByResume(u)
      BY <2>1, <3>1 DEF RequestSuspend, TrySuspend, TypeOK
    <3>2. ASSUME NEW type \in SuspendTypes, Resume(t, type)
          PROVE  SuspendedByResume(u)
      <4>1. CASE u = t
        BY <3>2, <4>1
      <4>2. CASE u # t
        BY <2>1, <3>2, <4>2 DEF Resume, TypeOK
      <4> QED
        BY <4>1, <4>2
    <3>3. ASSUME RequestTerminate(t) \/ Exit(t) PROVE SuspendedByResume(u)
      <4>1. susp' = susp \/ susp' = [susp EXCEPT ![t] = {}]
        BY <3>3 DEF RequestTerminate, Exit
      <4>2. numKernelWaiters'[u] <= numKernelWaiters[u]
        <5>1. \/ UNCHANGED numKernelWaiters
              \/ numKernelWaiters' =
                   [numKernelWaiters EXCEPT ![lockOwner[t]] = @ - 1]
          BY <3>3 DEF RequestTerminate, Exit
        <5> QED
          BY <2>1, <5>1 DEF TypeOK
      <4> QED
        BY <2>1, <4>1, <4>2 DEF TypeOK
    <3> QED
      BY <2>3, <3>1, <3>2, <3>3 DEF Environment
  <2> QED
    BY <2>2, <2>3 DEF Next
<1> QED
  BY <1>1, WithinFlagsInvariant, PTL DEF Spec, OnlyResumeSuspends

\* Whoever is not suspended as it should be will be in the tag, with the bit.
PutOffInTag ==
    \A t \in Threads :
        susp[t] # SuspendFlags(t) => TagToBe = [owner |-> t, waiters |-> TRUE]

\* A step of Lock or Unlock puts a suspension off only for the owner with waiters,
\* and no owner gives up the lock with one put off.
LEMMA PutOffLockStep ==
    ASSUME LockInv, LockInv', SuspendedWithinFlags, PutOffInTag,
           NEW t \in Threads, LockStep(t) \/ UnlockStep(t)
    PROVE  PutOffInTag'
<1>1. TypeOK /\ TypeOK' /\ ThreadInv /\ ThreadInv'
  BY DEF LockInv, ThreadInv
<1>2. TagToBe \in Tags /\ \A x \in Tags : x.waiters => x = [owner |-> x.owner, waiters |-> TRUE]
  BY <1>1 DEF TagToBe, TypeOK, SchedulerFree, Owners, Tags
<1>3. \A u \in Threads : numKernelWaiters[u] > 0 =>
          TagToBe = [owner |-> u, waiters |-> TRUE]
  <2> SUFFICES ASSUME NEW u \in Threads, numKernelWaiters[u] > 0
               PROVE  TagToBe = [owner |-> u, waiters |-> TRUE]
    OBVIOUS
  <2>1. PICK w \in Threads : lockOwner[w] = u
    BY <1>1, FS_EmptySet DEF ThreadInv, WaiterCountExact, WaitersOf
  <2> QED
    BY <1>1, <1>2, <2>1 DEF LockInv, WaitersInTag, ThreadInv, WaitingIffRegistered
\* Nobody's suspension changes: the debtor is still in the tag.
<1>4. CASE CallLock(t) \/ LockSlowRetry(t) \/ WaitReturn(t)
  <2>1. SuspensionsAlone /\ UNCHANGED <<tag, nextTag, schedLock>>
    BY <1>1, <1>4, QuietSuspensions DEF CallLock, LockSlowRetry, WaitReturn, lockVars
  <2> QED
    BY <2>1 DEF SuspensionsAlone, PutOffInTag, SuspendFlags, TagToBe, SchedulerFree
<1>5. CASE LockFast(t) \/ UnlockFast(t)
  <2>1. SuspensionsAlone /\ UNCHANGED <<nextTag, schedLock>>
    BY <1>1, <1>5, QuietSuspensions DEF LockFast, UnlockFast
  <2>2. ASSUME NEW u \in Threads, tag = [owner |-> u, waiters |-> TRUE]
        PROVE  tag' = tag
    BY <1>5, <2>2 DEF LockFast, LockFree, UnlockFast, Unlocked
  <2> QED
    BY <2>1, <2>2 DEF SuspensionsAlone, PutOffInTag, SuspendFlags, TagToBe, SchedulerFree
<1>6. CASE UnlockStore(t)
  <2>1. SuspensionsAlone
    BY <1>1, <1>6, QuietSuspensions
  <2>2. TagToBe' = TagToBe
    BY <1>6 DEF UnlockStore, TagToBe, SchedulerFree
  <2> QED
    BY <2>1, <2>2 DEF SuspensionsAlone, PutOffInTag, SuspendFlags
\* The owner is continued because of its first waiter, which saw the tag.
<1>7. CASE LockSlowWait(t)
  <2>1. UNCHANGED TagToBe
    BY <1>7 DEF LockSlowWait, TagToBe, SchedulerFree
  <2>2. TagToBe = [owner |-> seen[t].owner, waiters |-> TRUE]
    BY <1>1, <1>2, <1>7
    DEF LockSlowWait, Executing, ThreadInv, SlowPathSawOwner, TagToBe, SchedulerFree
  <2>3. \A u \in Threads \ {seen[t].owner} :
           susp'[u] = susp[u] /\ SuspendFlags(u)' = SuspendFlags(u)
    BY <1>1, <1>7, WaitSuspensions DEF TypeOK, SuspendFlags
  <2> QED
    BY <2>1, <2>2, <2>3 DEF PutOffInTag
\* Unlock leaves nobody with a suspension put off but the next owner, which then
\* has waiters.
<1>8. ASSUME UnlockSlowNobody(t) \/ UnlockSlowHandOver(t)
      PROVE  /\ TagToBe' = nextTag'[t]
             /\ \A u \in Threads \ {t} : susp[u] = SuspendFlags(u)
             /\ UNCHANGED <<req, allowed>>
  <2>1. schedLock' = t /\ SchedulerFree /\ pc[t] = "unlock"
        /\ UNCHANGED <<req, allowed>>
    BY <1>8 DEF UnlockSlowNobody, UnlockSlowHandOver, Executing
  <2>2. TagToBe.owner = t
    BY <2>1 DEF LockInv, InsideOwnsTag, TagToBe
  <2> QED
    BY <2>1, <2>2 DEF PutOffInTag, TagToBe, SchedulerFree
<1>9. CASE UnlockSlowNobody(t)
  BY <1>1, <1>8, <1>9, NobodySuspensions DEF PutOffInTag, SuspendFlags, TypeOK
<1>10. CASE UnlockSlowHandOver(t)
  <2>1. PICK n \in WaitersOf(t), got \in Nat :
          /\ n \in Threads /\ n # t
          /\ got = numKernelWaiters[n] + Cardinality(WaitersOf(t) \ {n})
          /\ susp'[t] = SuspendFlags(t)
          /\ susp'[n] = IF got > 0 THEN {} ELSE susp[n]
          /\ \A u \in Threads \ {t, n} : susp'[u] = susp[u]
          /\ nextTag'[t] = NextTag(n, WaitersOf(t) \ {n})
    BY <1>10, HandOverSuspensions, <1>1
  <2>2. numKernelWaiters[n] = 0
    <3>1. TagToBe.owner = t
      BY <1>10 DEF UnlockSlowHandOver, Executing, LockInv, InsideOwnsTag, TagToBe
    <3> QED
      BY <1>1, <1>3, <2>1, <3>1 DEF TypeOK
  <2>3. got > 0 => nextTag'[t] = [owner |-> n, waiters |-> TRUE]
    <3>1. WaitersOf(t) \ {n} = {} => Cardinality(WaitersOf(t) \ {n}) = 0
      BY FS_EmptySet
    <3>2. got > 0 => WaitersOf(t) \ {n} # {}
      BY <2>1, <2>2, <3>1
    <3>3. WaitersOf(t) \ {n} # {} =>
            NextTag(n, WaitersOf(t) \ {n}) = [owner |-> n, waiters |-> TRUE]
      BY Zenon DEF NextTag
    <3> QED
      BY <2>1, <3>2, <3>3
  <2>4. \A u \in Threads : SuspendFlags(u)' = SuspendFlags(u)
    BY <1>8, <1>10 DEF SuspendFlags
  <2> QED
    BY <1>8, <1>10, <2>1, <2>3, <2>4 DEF PutOffInTag
<1> QED
  BY <1>4, <1>5, <1>6, <1>7, <1>9, <1>10 DEF LockStep, UnlockStep

LEMMA PutOffEnvironment ==
    ASSUME Cancellable = {}, LockInv, SuspendedWithinFlags, PutOffInTag,
           NEW t \in Threads, Environment(t)
    PROVE  PutOffInTag'
<1>1. TypeOK /\ ThreadInv
  BY DEF LockInv, ThreadInv
<1>2. UNCHANGED TagToBe
  BY DEF Environment, RequestSuspend, Resume, RequestTerminate, Exit, lockVars,
         TagToBe, SchedulerFree
<1>3. ASSUME NEW type \in SuspendTypes, RequestSuspend(t, type)
      PROVE  PutOffInTag'
  <2>1. CASE numKernelWaiters[t] > 0
    <3>1. PICK w \in Threads : lockOwner[w] = t
      BY <1>1, <2>1, FS_EmptySet DEF ThreadInv, WaiterCountExact, WaitersOf
    <3>2. TagToBe.owner = t /\ TagToBe.waiters /\ TagToBe \in Tags
      BY <1>1, <3>1
      DEF LockInv, WaitersInTag, ThreadInv, WaitingIffRegistered, TagToBe, TypeOK,
          SchedulerFree, Owners
    <3>3. TagToBe = [owner |-> t, waiters |-> TRUE]
      BY <3>2 DEF Tags
    <3>4. \A u \in Threads \ {t} :
             susp'[u] = susp[u] /\ SuspendFlags(u)' = SuspendFlags(u)
      BY <1>1, <1>3, <2>1 DEF RequestSuspend, TrySuspend, SuspendFlags, TypeOK
    <3> QED
      BY <1>2, <3>3, <3>4 DEF PutOffInTag
  <2>2. CASE ~(numKernelWaiters[t] > 0)
    <3>1. \A u \in Threads \ {t} :
             susp'[u] = susp[u] /\ SuspendFlags(u)' = SuspendFlags(u)
      BY <1>1, <1>3, <2>2 DEF RequestSuspend, TrySuspend, SuspendFlags, TypeOK
    <3>2. susp'[t] = SuspendFlags(t)'
      BY <1>1, <1>3, <2>2 DEF RequestSuspend, TrySuspend, SuspendFlags, TypeOK
    <3> QED
      BY <1>2, <3>1, <3>2 DEF PutOffInTag
  <2> QED
    BY <2>1, <2>2
<1>4. ASSUME NEW type \in SuspendTypes, Resume(t, type)
      PROVE  PutOffInTag'
  <2>1. \A u \in Threads \ {t} :
           susp'[u] = susp[u] /\ SuspendFlags(u)' = SuspendFlags(u)
    BY <1>1, <1>4 DEF Resume, SuspendFlags, TypeOK
  <2>2. susp'[t] = SuspendFlags(t)'
    BY <1>1, <1>4 DEF Resume, SuspendFlags, TypeOK
  <2> QED
    BY <1>2, <2>1, <2>2 DEF PutOffInTag
<1>5. ASSUME RequestTerminate(t) \/ Exit(t)
      PROVE  PutOffInTag'
  <2>1. /\ UNCHANGED req
        /\ \/ UNCHANGED <<susp, allowed>>
           \/ susp' = [susp EXCEPT ![t] = {}] /\ allowed' = [allowed EXCEPT ![t] = FALSE]
    BY <1>5 DEF RequestTerminate, Exit
  <2>2. \A u \in Threads :
           \/ susp'[u] = susp[u] /\ SuspendFlags(u)' = SuspendFlags(u)
           \/ susp'[u] = SuspendFlags(u)'
    BY <1>1, <2>1 DEF SuspendFlags, TypeOK
  <2> QED
    BY <1>2, <2>2 DEF PutOffInTag
<1> QED
  BY <1>3, <1>4, <1>5 DEF Environment

\* A suspension that was put off because of waiters is caught up with: unless a wait
\* is cancelled, whoever owes one is the owner in the tag, with the bit that sends
\* its Unlock to the slow path, which suspends it.
THEOREM SuspensionsCaughtUp ==
    ASSUME Cancellable = {}
    PROVE  Spec => []SuspensionNotForgotten
<1>1. Init => PutOffInTag
  BY DEF Init, PutOffInTag, SuspendFlags
<1>2. /\ LockInv /\ LockInv' /\ SuspendedWithinFlags /\ PutOffInTag /\ [Next]_vars
      => PutOffInTag'
  <2> SUFFICES ASSUME LockInv, LockInv', SuspendedWithinFlags, PutOffInTag, [Next]_vars
               PROVE  PutOffInTag'
    OBVIOUS
  <2>1. CASE UNCHANGED vars
    BY <2>1 DEF vars, PutOffInTag, SuspendFlags, TagToBe, SchedulerFree
  <2>2. CASE Next
    BY <2>2, PutOffLockStep, PutOffEnvironment DEF Next
  <2> QED
    BY <2>1, <2>2
<1>3. PutOffInTag => SuspensionNotForgotten
  BY DEF PutOffInTag, SuspensionNotForgotten, TagToBe
<1> QED
  BY <1>1, <1>2, <1>3, LockInvariant, WithinFlagsInvariant, PTL DEF Spec
=============================================================================
