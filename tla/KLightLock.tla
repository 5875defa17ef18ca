----------------------------- MODULE KLightLock -----------------------------
(***************************************************************************)
(* The kernel's light lock (src/src/core/hle/kernel/k_light_lock.cpp) with *)
(* the part of KThread it drives: kernel waiters, waiting, suspension and  *)
(* termination (k_thread.cpp, k_thread_queue.cpp).                         *)
(*                                                                         *)
(* m_tag is changed by compare-and-swap outside the scheduler lock and by  *)
(* a plain store under it; everything else is touched only under the       *)
(* scheduler lock.  A critical section of the scheduler lock is therefore  *)
(* one step, except UnlockSlowPath, whose hand-over and final store of     *)
(* m_tag are two steps with the scheduler lock held in between, so that    *)
(* the compare-and-swaps of other cores fall inside that window.           *)
(*                                                                         *)
(* The waiters of a lock are kept by the code in priority order; priorities*)
(* move while threads wait, so this module hands over to any waiter.       *)
(***************************************************************************)
EXTENDS Naturals, FiniteSets

CONSTANTS
    Threads,        \* the threads that use the lock
    NoThread,       \* a null KThread*
    SuspendTypes,   \* SuspendType: the reasons a thread may be suspended for
    Terminable,     \* the threads that may be asked to terminate
    Cancellable     \* those of them that may be asked while they wait for the lock

ASSUME LightLockAssumption ==
    /\ NoThread \notin Threads
    /\ Terminable \subseteq Threads /\ Cancellable \subseteq Terminable
    /\ IsFiniteSet(Threads)

VARIABLES
    tag,          \* KLightLock::m_tag: the owner and the has-waiters bit
    schedLock,    \* holder of the scheduler lock
    pc,           \* where each thread is in Lock / Unlock
    seen,         \* LockSlowPath's _owner: the tag its CAS left behind; Unlocked outside
    nextTag,      \* UnlockSlowPath's local next_tag; Unlocked outside
    run,          \* m_thread_state & ThreadState::Mask
    susp,         \* the suspend flags of m_thread_state
    req,          \* m_suspend_request_flags
    allowed,      \* m_suspend_allowed_flags is not 0
    lockOwner,    \* KThread::GetLockOwner: whom the thread waits on
    numKernelWaiters,   \* m_num_kernel_waiters
    termReq       \* m_termination_requested

lockVars == <<tag, seen, nextTag>>
threadVars == <<run, susp, req, allowed, lockOwner, numKernelWaiters, termReq>>
vars == <<tag, schedLock, pc, seen, nextTag, run, susp, req, allowed,
          lockOwner, numKernelWaiters, termReq>>

Owners == Threads \cup {NoThread}
Tags == [owner : Owners, waiters : BOOLEAN]
Unlocked == [owner |-> NoThread, waiters |-> FALSE]

TypeOK ==
    /\ tag \in Tags
    /\ schedLock \in Owners
    /\ pc \in [Threads -> {"idle", "lock", "slow", "wait", "cs", "unlock", "store", "exited"}]
    /\ seen \in [Threads -> Tags]
    /\ nextTag \in [Threads -> Tags]
    /\ run \in [Threads -> {"Runnable", "Waiting", "Terminated"}]
    /\ susp \in [Threads -> SUBSET SuspendTypes]
    /\ req \in [Threads -> SUBSET SuspendTypes]
    /\ allowed \in [Threads -> BOOLEAN]
    /\ lockOwner \in [Threads -> Owners]
    /\ numKernelWaiters \in [Threads -> Nat]
    /\ termReq \in [Threads -> BOOLEAN]

Init ==
    /\ tag = Unlocked
    /\ schedLock = NoThread
    /\ pc = [t \in Threads |-> "idle"]
    /\ seen = [t \in Threads |-> Unlocked]
    /\ nextTag = [t \in Threads |-> Unlocked]
    /\ run = [t \in Threads |-> "Runnable"]
    /\ susp = [t \in Threads |-> {}]
    /\ req = [t \in Threads |-> {}]
    /\ allowed = [t \in Threads |-> TRUE]
    /\ lockOwner = [t \in Threads |-> NoThread]
    /\ numKernelWaiters = [t \in Threads |-> 0]
    /\ termReq = [t \in Threads |-> FALSE]

-----------------------------------------------------------------------------
(* The thread's own bookkeeping.                                           *)

\* KThread::GetSuspendFlags: the requested suspensions that are allowed.
SuspendFlags(t) == IF allowed[t] THEN req[t] ELSE {}

\* KThread::IsSuspended.
IsSuspended(t) == SuspendFlags(t) # {}

\* The threads that wait on o.
WaitersOf(o) == {w \in Threads : lockOwner[w] = o}

\* The suspend flags, from s, after ContinueIfHasKernelWaiters on t when it is
\* suspended and has n kernel waiters.
NeverContinue(s, t, n) == s
ContinueIfHasKernelWaiters(s, t, n) ==
    IF IsSuspended(t) /\ n > 0 THEN [s EXCEPT ![t] = {}] ELSE s

\* The suspend flags, from s, after TrySuspend on t with n kernel waiters:
\* UpdateState, unless t still has kernel waiters.
SuspendAnyway(s, t, n, flags) == [s EXCEPT ![t] = flags]
TrySuspend(s, t, n, flags) == IF n > 0 THEN s ELSE [s EXCEPT ![t] = flags]

\* AddWaiterImpl: the kernel waiters of o after one more.
OneMoreWaiter(o) == numKernelWaiters[o] + 1

\* RemoveKernelWaiterByKey: the kernel waiters of the next owner n, which gets
\* the others.
CountNotMoved(n, others) == numKernelWaiters[n]
WithMovedWaiters(n, others) == numKernelWaiters[n] + Cardinality(others)

\* CancelWait of the light lock's wait queue: the lock owners without t.
LeaveOwner(t) == [lockOwner EXCEPT ![t] = NoThread]

\* Is thread t executing?  A thread that was just marked suspended goes on
\* until its core reschedules, so the suspend flags are no guard.
Executing(t, label) == pc[t] = label /\ run[t] = "Runnable"

SchedulerFree == schedLock = NoThread

-----------------------------------------------------------------------------
(* Lock.                                                                   *)

\* A thread calls Lock.
CallLock(t) ==
    /\ Executing(t, "idle")
    /\ pc' = [pc EXCEPT ![t] = "lock"]
    /\ UNCHANGED <<lockVars, schedLock, threadVars>>

\* The tag Lock may take.
NoWaiterBit == ~tag.waiters
LockFree == tag = Unlocked

\* Lock: the compare-and-swap loop, one atomic change of the tag.
LockFast(t) ==
    /\ Executing(t, "lock")
    /\ IF LockFree
       THEN /\ tag' = [owner |-> t, waiters |-> FALSE]
            /\ pc' = [pc EXCEPT ![t] = "cs"]
            /\ UNCHANGED seen
       ELSE /\ tag' = [tag EXCEPT !.waiters = TRUE]
            /\ seen' = [seen EXCEPT ![t] = tag']
            /\ pc' = [pc EXCEPT ![t] = "slow"]
    /\ UNCHANGED <<schedLock, nextTag, threadVars>>

\* LockSlowPath finds that the tag has moved on, and Lock starts again.
LockSlowRetry(t) ==
    /\ Executing(t, "slow")
    /\ SchedulerFree
    /\ tag # seen[t]
    /\ seen' = [seen EXCEPT ![t] = Unlocked]
    /\ pc' = [pc EXCEPT ![t] = "lock"]
    /\ UNCHANGED <<tag, nextTag, schedLock, threadVars>>

\* LockSlowPath: become a kernel waiter of the owner, which must not stay
\* suspended while somebody waits for it.
LockSlowWait(t) ==
    LET o == seen[t].owner IN
    /\ Executing(t, "slow")
    /\ SchedulerFree
    /\ tag = seen[t]
    /\ lockOwner' = [lockOwner EXCEPT ![t] = o]
    /\ numKernelWaiters' = [numKernelWaiters EXCEPT ![o] = OneMoreWaiter(o)]
    /\ run' = [run EXCEPT ![t] = "Waiting"]
    /\ pc' = [pc EXCEPT ![t] = "wait"]
    /\ susp' = ContinueIfHasKernelWaiters(susp, o, OneMoreWaiter(o))
    /\ seen' = [seen EXCEPT ![t] = Unlocked]
    /\ UNCHANGED <<tag, nextTag, schedLock, req, allowed, termReq>>

\* The wait is over; LockSlowPath returns true and Lock returns.
WaitReturn(t) ==
    /\ Executing(t, "wait")
    /\ SchedulerFree
    /\ pc' = [pc EXCEPT ![t] = "cs"]
    /\ UNCHANGED <<lockVars, schedLock, threadVars>>

-----------------------------------------------------------------------------
(* Unlock.                                                                 *)

\* Unlock: the compare-and-swap from "mine, no waiters" to 0.
UnlockFast(t) ==
    /\ Executing(t, "cs")
    /\ IF tag = [owner |-> t, waiters |-> FALSE]
       THEN tag' = Unlocked /\ pc' = [pc EXCEPT ![t] = "idle"]
       ELSE UNCHANGED tag /\ pc' = [pc EXCEPT ![t] = "unlock"]
    /\ UNCHANGED <<schedLock, seen, nextTag, threadVars>>

\* The end of UnlockSlowPath: the unlocking thread, left with n kernel waiters,
\* catches up on a suspension.
ForgetSuspension(s, t, n) == s
CatchUpOnSuspension(s, t, n) ==
    IF IsSuspended(t) THEN TrySuspend(s, t, n, SuspendFlags(t)) ELSE s

\* The next tag: the next owner, and whether others still wait.
BitDropped(n, others) == [owner |-> n, waiters |-> FALSE]
NextTag(n, others) == [owner |-> n, waiters |-> others # {}]

\* UnlockSlowPath, up to the store: nobody waits on the thread.
UnlockSlowNobody(t) ==
    /\ Executing(t, "unlock")
    /\ SchedulerFree
    /\ WaitersOf(t) = {}
    /\ nextTag' = [nextTag EXCEPT ![t] = Unlocked]
    /\ susp' = CatchUpOnSuspension(susp, t, numKernelWaiters[t])
    /\ schedLock' = t
    /\ pc' = [pc EXCEPT ![t] = "store"]
    /\ UNCHANGED <<tag, seen, run, req, allowed, lockOwner, numKernelWaiters, termReq>>

\* UnlockSlowPath, up to the store: RemoveKernelWaiterByKey gives the waiters
\* to the next owner n, n is woken, and a suspension put off because of the
\* waiters takes effect.
UnlockSlowHandOver(t) ==
    /\ Executing(t, "unlock")
    /\ SchedulerFree
    /\ \E n \in WaitersOf(t) :
        LET rest == WaitersOf(t) \ {n}
            left == numKernelWaiters[t] - Cardinality(WaitersOf(t))
            got == WithMovedWaiters(n, rest)
            woken == ContinueIfHasKernelWaiters(susp, n, got)
        IN /\ lockOwner' = [w \in Threads |->
                               IF w = n THEN NoThread
                               ELSE IF w \in rest THEN n ELSE lockOwner[w]]
           /\ numKernelWaiters' = [numKernelWaiters EXCEPT ![t] = left, ![n] = got]
           /\ nextTag' = [nextTag EXCEPT ![t] = NextTag(n, rest)]
           /\ run' = [run EXCEPT ![n] = "Runnable"]
           /\ susp' = CatchUpOnSuspension(woken, t, left)
    /\ schedLock' = t
    /\ pc' = [pc EXCEPT ![t] = "store"]
    /\ UNCHANGED <<tag, seen, req, allowed, termReq>>

\* UnlockSlowPath: store the new tag and leave the scheduler lock.
UnlockStore(t) ==
    /\ Executing(t, "store")
    /\ schedLock = t
    /\ tag' = nextTag[t]
    /\ nextTag' = [nextTag EXCEPT ![t] = Unlocked]
    /\ schedLock' = NoThread
    /\ pc' = [pc EXCEPT ![t] = "idle"]
    /\ UNCHANGED <<seen, threadVars>>

-----------------------------------------------------------------------------
(* What the rest of the kernel does to a thread.                           *)

\* KThread::RequestSuspend.
RequestSuspend(t, type) ==
    /\ SchedulerFree
    /\ req' = [req EXCEPT ![t] = @ \cup {type}]
    /\ susp' = TrySuspend(susp, t, numKernelWaiters[t],
                          IF allowed[t] THEN req[t] \cup {type} ELSE {})
    /\ UNCHANGED <<lockVars, schedLock, pc, run, allowed, lockOwner, numKernelWaiters, termReq>>

\* KThread::Resume: UpdateState, whether or not the thread has waiters.
Resume(t, type) ==
    /\ SchedulerFree
    /\ type \in req[t]
    /\ req' = [req EXCEPT ![t] = @ \ {type}]
    /\ susp' = [susp EXCEPT ![t] = IF allowed[t] THEN req[t] \ {type} ELSE {}]
    /\ UNCHANGED <<lockVars, schedLock, pc, run, allowed, lockOwner, numKernelWaiters, termReq>>

\* KThread::RequestTerminate: lift every suspension, and cancel a wait; the
\* lock's wait queue removes the waiter from its owner first.
RequestTerminate(t) ==
    LET waits == run[t] = "Waiting"
        o == lockOwner[t]
    IN
    /\ t \in Terminable
    /\ waits => t \in Cancellable
    /\ SchedulerFree
    /\ ~termReq[t]
    /\ termReq' = [termReq EXCEPT ![t] = TRUE]
    /\ allowed' = IF IsSuspended(t) THEN [allowed EXCEPT ![t] = FALSE] ELSE allowed
    /\ susp' = IF IsSuspended(t) THEN [susp EXCEPT ![t] = {}] ELSE susp
    /\ run' = IF waits THEN [run EXCEPT ![t] = "Runnable"] ELSE run
    /\ lockOwner' = IF waits THEN LeaveOwner(t) ELSE lockOwner
    /\ numKernelWaiters' = IF waits /\ o # NoThread
                           THEN [numKernelWaiters EXCEPT ![o] = @ - 1]
                           ELSE numKernelWaiters
    /\ UNCHANGED <<lockVars, schedLock, pc, req>>

\* KThread::Exit, from the supervisor call or on the way back to user mode.
Exit(t) ==
    /\ t \in Terminable
    /\ Executing(t, "idle")
    /\ SchedulerFree
    /\ allowed' = [allowed EXCEPT ![t] = FALSE]
    /\ susp' = [susp EXCEPT ![t] = {}]
    /\ run' = [run EXCEPT ![t] = "Terminated"]
    /\ pc' = [pc EXCEPT ![t] = "exited"]
    /\ UNCHANGED <<lockVars, schedLock, req, lockOwner, numKernelWaiters, termReq>>

-----------------------------------------------------------------------------
LockStep(t) ==
    \/ CallLock(t) \/ LockFast(t) \/ LockSlowRetry(t) \/ LockSlowWait(t) \/ WaitReturn(t)

UnlockStep(t) ==
    \/ UnlockFast(t) \/ UnlockSlowNobody(t) \/ UnlockSlowHandOver(t) \/ UnlockStore(t)

Environment(t) ==
    \/ \E type \in SuspendTypes : RequestSuspend(t, type) \/ Resume(t, type)
    \/ RequestTerminate(t)
    \/ Exit(t)

Next == \E t \in Threads : LockStep(t) \/ UnlockStep(t) \/ Environment(t)

Spec == Init /\ [][Next]_vars

\* A thread that is not suspended and not waiting keeps executing inside Lock
\* and Unlock: the host threads of the cores run it whenever it is scheduled;
\* and nothing takes the core from a thread that holds the scheduler lock.
\* Nobody has to call Lock, and the environment owes nothing.
Progress(t) ==
    \/ UnlockStore(t)
    \/ /\ susp[t] = {}
       /\ \/ LockFast(t) \/ LockSlowRetry(t) \/ LockSlowWait(t) \/ WaitReturn(t)
          \/ UnlockFast(t) \/ UnlockSlowNobody(t) \/ UnlockSlowHandOver(t)

FairSpec == Spec /\ \A t \in Threads : WF_vars(Progress(t))

-----------------------------------------------------------------------------
(* Properties.                                                             *)

\* IsLockedByCurrentThread holds for whoever is between Lock and Unlock: the
\* tag names it, so no two threads are inside, whatever compare-and-swaps fell
\* between a hand-over and its store.
HolderOwnsTag == \A t \in Threads : pc[t] \in {"cs", "unlock"} => tag.owner = t

\* No lost wake-up: outside UnlockSlowPath's window, a thread that waits does
\* so on the thread the tag names, and the tag carries the bit that sends the
\* owner's Unlock to the slow path.
WaitersSeenByOwner ==
    SchedulerFree => \A w \in Threads :
        run[w] = "Waiting" => tag = [owner |-> lockOwner[w], waiters |-> TRUE]

\* A thread has a lock owner exactly while it waits: hand-over, cancellation
\* and the moving of the other waiters leave nobody behind or registered twice.
WaitingIffRegistered ==
    \A w \in Threads : (run[w] = "Waiting") <=> (lockOwner[w] # NoThread)

\* m_num_kernel_waiters, moved in bulk by RemoveWaiterByKey, stays the number
\* of threads that wait on the thread.
WaiterCountExact ==
    \A t \in Threads : numKernelWaiters[t] = Cardinality(WaitersOf(t))

\* What the threads keep about each other is exact, whatever is handed over,
\* cancelled or moved, and the variables have their types.
RegistrationExact == TypeOK /\ WaitingIffRegistered /\ WaiterCountExact

\* A thread others wait for in the kernel is never left suspended.  Two suspensions
\* at once break this: Resume of one makes the other effective.
KernelWaitersKeepRunning ==
    \A t \in Threads : numKernelWaiters[t] > 0 => susp[t] = {}

\* Nothing else does: neither a suspension (TrySuspend) nor the end of its own Unlock
\* suspends a thread others wait for in the kernel, and whoever gets a waiter, by
\* LockSlowPath or by a hand-over, is continued (ContinueIfHasKernelWaiters).
OnlyResumeSuspends ==
    [][\A t \in Threads : numKernelWaiters'[t] > 0 /\ susp'[t] # {} =>
           \/ susp[t] # {} /\ numKernelWaiters'[t] <= numKernelWaiters[t]
           \/ \E type \in SuspendTypes : Resume(t, type)]_vars

\* A suspension that was put off because of waiters is not forgotten: whoever
\* owes one still holds the lock, with the bit that makes its Unlock suspend it.
SuspensionNotForgotten ==
    SchedulerFree => \A t \in Threads :
        susp[t] # SuspendFlags(t) => tag = [owner |-> t, waiters |-> TRUE]

\* Whoever others wait for lets them go, suspended meanwhile or not, as long as it
\* is never under two suspensions at once: its Unlock hands the lock, and the other
\* waiters, to one of them.
WaitersAreHandedOver ==
    \A o \in Threads : [](Cardinality(req[o]) <= 1) =>
        (WaitersOf(o) # {} ~> WaitersOf(o) = {})

\* The threads that asked for the lock and are not its owner yet.
Wanting == {t \in Threads : pc[t] \in {"lock", "slow", "wait"} /\ tag.owner # t}

\* The threads between Lock and Unlock.
Inside == {t \in Threads : pc[t] = "cs"}

Abstract ==
    INSTANCE AbstractLock WITH holder <- tag.owner, wanting <- Wanting, inside <- Inside

\* The light lock is a lock: its tag names one holder after another, each of
\* which asked for it and found it free, or was handed it by the one before after
\* that one left; and only the holder is inside.
ImplementsLock == Abstract!Spec
=============================================================================
