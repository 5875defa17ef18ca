----------------------------- MODULE KScheduler -----------------------------
(***************************************************************************)
(* The kernel's scheduler on several cores (k_scheduler.cpp), with what    *)
(* drives it: the scheduler lock (k_scheduler_lock.h), affinity and pins   *)
(* (k_thread.cpp, k_process.cpp), preemption (global_scheduler_context.cpp)*)
(* and the interrupts of the cores (k_interrupt_manager.cpp,               *)
(* physical_core.cpp, cpu_manager.cpp).                                    *)
(*                                                                         *)
(* A critical section of the scheduler lock ends by choosing the highest   *)
(* priority thread of every core; it is one step.  The cores learn of it   *)
(* afterwards, without the lock: through needs_scheduling, interrupts and  *)
(* the guard of a thread's context.  Each access of those is a step.       *)
(***************************************************************************)
EXTENDS KPriorityQueue

CONSTANTS
    Host,           \* the host thread of core timing, which wakes and preempts
    Free,           \* a context guard nobody holds
    Priorities,     \* priorities, 0 is the highest
    HighestCoreMigrationAllowedPriority,
    PreemptionPriority,   \* of each core, the priority PreemptThreads rotates
    Created,        \* with which priorities and masks the threads are created
    Masks,          \* the affinity masks SetCoreMask may be given
    Remasked,       \* the threads whose affinity changes
    Reprioritised,  \* the threads whose priority changes
    Pinnable,       \* the threads that use the user disable count
    Contended,      \* the threads others may wait for in the kernel
    Mortal,         \* the threads that may exit
    Yielders        \* the threads that yield

ASSUME SchedulerAssumption ==
    /\ Idle \notin Threads
    /\ NumCores \in Nat
    /\ Host \notin Cores /\ Free \notin Cores
    /\ Priorities \subseteq Nat /\ HighestCoreMigrationAllowedPriority \in Nat
    /\ Created \subseteq [Threads -> [prio : Priorities, mask : Masks]]
    /\ Masks \subseteq (SUBSET Cores) \ {{}}

VARIABLES
    queue,          \* the priority queue and the threads' active cores
    prio,           \* m_priority
    affinity,       \* m_physical_affinity_mask
    ownMask,        \* m_original_physical_affinity_mask, {} while not pinned
    runnable,       \* the threads whose raw state is Runnable
    exited,         \* the threads with DpcFlag::Terminated
    kernelWaiters,  \* the threads with kernel waiters
    pinned,         \* KProcess::m_pinned_threads
    spent,          \* the threads whose yield count is the process's scheduled count
    highest,        \* m_state.highest_priority_thread, Idle for null
    needs,          \* m_state.needs_scheduling
    cur,            \* m_current_thread
    phase,          \* where the core is: running a thread, or which step of a switch
    target,         \* ScheduleImplFiber's highest_priority_thread while it tries it
    guard,          \* m_context_guard: the core that holds it
    interrupted,    \* PhysicalCore::m_is_interrupted
    ipi             \* cores_needing_scheduling: whom a core still has to interrupt

threadVars == <<prio, affinity, ownMask, runnable, exited, kernelWaiters, pinned>>
choiceVars == <<queue, spent, highest>>
vars == <<queue, prio, affinity, ownMask, runnable, exited, kernelWaiters, pinned, spent,
          highest, needs, cur, phase, target, guard, interrupted, ipi>>

Runners == Threads \cup {Idle}

TypeOK ==
    /\ queue.scheduled \in [Cores -> Seq(Threads)]
    /\ queue.suggested \in [Cores -> Seq(Threads)]
    /\ queue.active \in [Threads -> Cores \cup {NoCore}]
    /\ prio \in [Threads -> Priorities]
    /\ affinity \in [Threads -> SUBSET Cores]
    /\ ownMask \in [Threads -> SUBSET Cores]
    /\ runnable \subseteq Threads /\ exited \subseteq Threads
    /\ kernelWaiters \subseteq Threads /\ spent \subseteq Threads
    /\ pinned \in [Cores -> Runners]
    /\ highest \in [Cores -> Runners]
    /\ needs \in [Cores -> BOOLEAN]
    /\ cur \in [Cores -> Runners]
    /\ phase \in [Cores -> {"run", "unlock", "load", "switch", "check", "reload"}]
    /\ target \in [Cores -> Runners]
    /\ guard \in [Threads -> Cores \cup {Free}]
    /\ interrupted \in [Cores -> BOOLEAN]
    /\ ipi \in [Cores -> SUBSET Cores]

\* The threads have been created but not started; the cores idle.
Init ==
    /\ \E made \in Created :
        /\ prio = [t \in Threads |-> made[t].prio]
        /\ affinity = [t \in Threads |-> made[t].mask]
    /\ \E a \in [Threads -> Cores] :
        /\ \A t \in Threads : a[t] \in affinity[t]
        /\ queue = [scheduled |-> [c \in Cores |-> <<>>], suggested |-> [c \in Cores |-> <<>>],
                    active |-> a]
    /\ ownMask = [t \in Threads |-> {}]
    /\ runnable = {} /\ exited = {} /\ kernelWaiters = {} /\ spent = {}
    /\ pinned = [c \in Cores |-> Idle]
    /\ highest = [c \in Cores |-> Idle]
    /\ needs = [c \in Cores |-> FALSE]
    /\ cur = [c \in Cores |-> Idle]
    /\ phase = [c \in Cores |-> "run"]
    /\ target = [c \in Cores |-> Idle]
    /\ guard = [t \in Threads |-> Free]
    /\ interrupted = [c \in Cores |-> FALSE]
    /\ ipi = [c \in Cores |-> {}]

-----------------------------------------------------------------------------
(* UpdateHighestPriorityThreads, at the end of a critical section.         *)

\* May a core give up a thread while top is its top thread?
AllowsMigration(top) == top = Idle \/ prio'[top] >= HighestCoreMigrationAllowedPriority

\* The top thread of a core before any migration: the front of its queue,
\* unless a pinned thread takes precedence over it.
TopThread(q, c) ==
    LET front == ScheduledFront(q, c)
        pin == pinned'[c]
    IN IF front # Idle /\ pin # Idle /\ pin # front /\ front \notin kernelWaiters'
       THEN IF pin \in runnable' THEN pin ELSE Idle
       ELSE front

\* The top thread of the core of t, none when t has no core.
TopOn(top, q, t) == IF q.active[t] = NoCore THEN Idle ELSE top[q.active[t]]

\* One idle core c: take the first suggested thread that is not its core's top
\* thread; failing that, the top thread of the first core that has another.
OnlyWaitingThreads(s, c) ==
    LET waiting == FirstOf(s.q.suggested[c], {t \in Threads : TopOn(s.top, s.q, t) # t})
    IN IF waiting = Idle THEN s
       ELSE [q |-> ChangeCore(s.q, waiting, c, prio', FALSE), top |-> [s.top EXCEPT ![c] = waiting]]
FillIdleCore(s, c) ==
    LET q == s.q
        waiting == FirstOf(q.suggested[c], {t \in Threads : TopOn(s.top, q, t) # t})
        spare(t) == NextOf(q.scheduled[q.active[t]], t)
        moved == FirstOf(q.suggested[c], {t \in ToSet(q.suggested[c]) : spare(t) # Idle})
    IN IF waiting # Idle
       THEN IF AllowsMigration(TopOn(s.top, q, waiting))
            THEN [q |-> ChangeCore(q, waiting, c, prio', FALSE),
                  top |-> [s.top EXCEPT ![c] = waiting]]
            ELSE s
       ELSE IF moved # Idle
            THEN [q |-> ChangeCore(q, moved, c, prio', FALSE),
                  top |-> [s.top EXCEPT ![q.active[moved]] = spare(moved), ![c] = moved]]
            ELSE s

\* The queue and the top threads after UpdateHighestPriorityThreadsImpl, which
\* fills the cores without a scheduled thread in their order: a set of one.
Selection(q) ==
    LET filled[n \in 0 .. NumCores] ==
            IF n = 0 THEN {[q |-> q, top |-> [c \in Cores |-> TopThread(q, c)]]}
            ELSE IF q.scheduled[n - 1] = <<>> THEN {FillIdleCore(s, n - 1) : s \in filled[n - 1]}
            ELSE filled[n - 1]
    IN filled[NumCores]

\* UpdateHighestPriorityThread, once for the top thread before any migration and
\* once more for those that change: note the cores whose choice changed, and
\* count each time a thread ceases to be the choice.  counted says that the
\* operation itself moved the process's scheduled count, which ends every "spent".
Publish(by, chosen, before, counted) ==
    LET changed == {c \in Cores : {highest[c], chosen.top[c]} # {before[c]}}
    IN /\ queue' = chosen.q
       /\ highest' = chosen.top
       /\ needs' = [c \in Cores |-> needs[c] \/ c \in changed]
       /\ IF by = Host
          THEN /\ interrupted' = [c \in Cores |-> interrupted[c] \/ c \in changed]
               /\ UNCHANGED ipi
          ELSE ipi' = [ipi EXCEPT ![by] = changed \ {by}]
       /\ spent' = IF counted \/ \E c \in changed :
                          highest[c] \notin {Idle, before[c]} \/ before[c] \notin {Idle, chosen.top[c]}
                   THEN {} ELSE spent

\* KAbstractSchedulerLock::Unlock when an update is needed.
Reselect(by, q, counted) ==
    \E from \in {q} : \E chosen \in Selection(from) :
        \E before \in {[c \in Cores |-> TopThread(from, c)]} :
            Publish(by, chosen, before, counted)

\* Unlock when no update is needed.
Keep(by, q, spentAfter) ==
    /\ queue' = q
    /\ spent' = spentAfter
    /\ UNCHANGED <<highest, needs, ipi>>

\* Who may enter a critical section: a core that runs a guest thread, or the
\* host thread.
Enters(by) == by # Host => phase[by] = "run" /\ cur[by] # Idle

\* A core that leaves it has interrupts to send, and itself to reschedule; the
\* host thread has sent its own at once, nobody waits for it in between.
Leaves(by) ==
    /\ IF by = Host THEN UNCHANGED phase
       ELSE phase' = [phase EXCEPT ![by] = "unlock"] /\ UNCHANGED interrupted
    /\ UNCHANGED <<cur, target, guard>>

-----------------------------------------------------------------------------
(* What changes a thread, from another thread or from the host's timers.   *)

\* OnThreadStateChanged: the thread stops being runnable (it waits, or somebody
\* suspends it).
StopThread(by, t) ==
    /\ Enters(by)
    /\ t \in runnable
    /\ runnable' = runnable \ {t}
    /\ UNCHANGED <<prio, affinity, ownMask, exited, kernelWaiters, pinned>>
    /\ Reselect(by, RemoveFrom(queue, t, queue.active[t], affinity[t]), TRUE)
    /\ Leaves(by)

\* OnThreadStateChanged without its count.
StartUncounted(by, t) ==
    /\ Enters(by)
    /\ t \notin runnable \cup exited
    /\ runnable' = runnable \cup {t}
    /\ UNCHANGED <<prio, affinity, ownMask, exited, kernelWaiters, pinned>>
    /\ Reselect(by, Push(queue, t, prio[t], affinity[t], prio, FALSE), FALSE)
    /\ Leaves(by)

\* OnThreadStateChanged: the thread becomes runnable (it is started, its wait
\* ends, its suspension is lifted).
StartThread(by, t) ==
    /\ Enters(by)
    /\ t \notin runnable \cup exited
    /\ runnable' = runnable \cup {t}
    /\ UNCHANGED <<prio, affinity, ownMask, exited, kernelWaiters, pinned>>
    /\ Reselect(by, Push(queue, t, prio[t], affinity[t], prio, FALSE), TRUE)
    /\ Leaves(by)


\* OnThreadPriorityChanged, from RestorePriority; a running thread stays ahead
\* of its equals.
SetPriority(c, t, p) ==
    /\ Enters(c)
    /\ t \in Reprioritised
    /\ p # prio[t]
    /\ prio' = [prio EXCEPT ![t] = p]
    /\ UNCHANGED <<affinity, ownMask, runnable, exited, kernelWaiters, pinned>>
    /\ IF t \in runnable
       THEN Reselect(c, ChangePriority(queue, t, p, affinity[t], prio, t = cur[c]), TRUE)
       ELSE Keep(c, queue, spent)
    /\ Leaves(c)

\* AddWaiterImpl and RemoveWaiterImpl: others begin, or cease, to wait for t.
ChangeKernelWaiters(c, t) ==
    /\ Enters(c)
    /\ t \in Contended
    /\ kernelWaiters' = IF t \in kernelWaiters THEN kernelWaiters \ {t} ELSE kernelWaiters \cup {t}
    /\ UNCHANGED <<prio, affinity, ownMask, runnable, exited, pinned>>
    /\ Reselect(c, queue, FALSE)
    /\ Leaves(c)

\* The core of a thread whose mask becomes mask: the one it has if that is
\* allowed, else its ideal core or, without one, the highest core of the mask.
NextCores(a, mask) == IF a = NoCore \/ a \in mask THEN {a} ELSE mask

\* A mutant of AffinityChanged: the queue keeps the thread where it was.
AffinityUnqueued(by, t, mask, a) == Keep(by, SetActiveCore(queue, t, a), spent)

\* t's mask becomes mask and its core a: OnThreadAffinityMaskChanged.
AffinityChanged(by, t, mask, a) ==
    IF t \in runnable
    THEN Reselect(by, ChangeAffinityMask(queue, t, affinity[t], mask, a, prio), TRUE)
    ELSE Keep(by, SetActiveCore(queue, t, a), spent)

\* SetCoreMask, its first critical section (the second only waits).  While the
\* thread is pinned the mask is kept for later.
SetCoreMask(c, t, mask) ==
    /\ Enters(c)
    /\ t \in Remasked
    /\ UNCHANGED <<prio, runnable, exited, kernelWaiters, pinned>>
    /\ \/ /\ ownMask[t] # {}
          /\ ownMask' = [ownMask EXCEPT ![t] = mask]
          /\ Keep(c, queue, spent)
          /\ UNCHANGED affinity
       \/ /\ ownMask[t] = {} /\ mask # affinity[t]
          /\ affinity' = [affinity EXCEPT ![t] = mask]
          /\ UNCHANGED ownMask
          /\ \E a \in NextCores(queue.active[t], mask) : AffinityChanged(c, t, mask, a)
    /\ Leaves(c)

\* Unpin, from SynchronizePreemptionState: the pinned thread gives up its pin.
Unpin(c) ==
    LET t == cur[c]
        mask == ownMask[t]
    IN
    /\ Enters(c)
    /\ pinned[c] = t
    /\ pinned' = [pinned EXCEPT ![c] = Idle]
    /\ ownMask' = [ownMask EXCEPT ![t] = {}]
    /\ affinity' = [affinity EXCEPT ![t] = mask]
    /\ UNCHANGED <<prio, runnable, exited, kernelWaiters>>
    /\ \E a \in NextCores(queue.active[t], mask) :
        IF t \in runnable /\ mask # affinity[t]
        THEN Reselect(c, ChangeAffinityMask(queue, t, affinity[t], mask, a, prio), TRUE)
        ELSE Reselect(c, SetActiveCore(queue, t, a), FALSE)
    /\ Leaves(c)

\* KThread::Exit: the current thread gives up its pin and ends; its context stays
\* locked.
ExitThread(c) ==
    LET t == cur[c]
        mask == IF pinned[c] = t THEN ownMask[t] ELSE affinity[t]
    IN
    /\ Enters(c)
    /\ t \in Mortal \cap runnable
    /\ runnable' = runnable \ {t}
    /\ exited' = exited \cup {t}
    /\ pinned' = IF pinned[c] = t THEN [pinned EXCEPT ![c] = Idle] ELSE pinned
    /\ ownMask' = IF pinned[c] = t THEN [ownMask EXCEPT ![t] = {}] ELSE ownMask
    /\ affinity' = [affinity EXCEPT ![t] = mask]
    /\ UNCHANGED <<prio, kernelWaiters>>
    /\ \E a \in NextCores(queue.active[t], mask) :
        Reselect(c, SetActiveCore(RemoveFrom(queue, t, queue.active[t], affinity[t]), t, a), TRUE)
    /\ Leaves(c)

-----------------------------------------------------------------------------
(* Yields.  The current thread does nothing while its yield is spent.      *)

\* A thread that yields; a pinned one is in a region that makes no such call.
Yields(c) ==
    /\ Enters(c)
    /\ cur[c] \in Yielders \cap runnable
    /\ cur[c] \notin spent
    /\ \A k \in Cores : pinned[k] # cur[c]
    /\ UNCHANGED threadVars

\* The front of the priority of t on its core, once t is behind its equals.
FrontOfPriority(q, c, p) == FirstOf(q.scheduled[c], {u \in Threads : prio[u] = p})

\* YieldWithoutCoreMigration.
YieldWithoutCoreMigration(c) ==
    LET t == cur[c]
        q == MoveToScheduledBack(queue, t, prio)
    IN
    /\ Yields(c)
    /\ IF FrontOfPriority(q, queue.active[t], prio[t]) # t
       THEN Reselect(c, q, TRUE)
       ELSE Keep(c, q, {t})
    /\ Leaves(c)

\* YieldWithCoreMigration: take over the first suggested thread that is not
\* its core's choice, unless the next thread here is a better one.  recent are
\* the threads scheduled later than the next thread (GetLastScheduledTick).
YieldWithCoreMigration(c) ==
    LET t == cur[c]
        a == queue.active[t]
        q == MoveToScheduledBack(queue, t, prio)
        next == FrontOfPriority(q, a, prio[t])
        RunningOn(u) == IF q.active[u] = NoCore THEN Idle ELSE highest[q.active[u]]
        Waits(u) == RunningOn(u) # u
        Rejected(u, recent) ==
            \/ prio[u] > prio[t]
            \/ prio[u] = prio[t] /\ next # t /\ u \in recent
    IN
    /\ Yields(c)
    /\ \E recent \in SUBSET {u \in runnable : prio[u] = prio[t]} :
        LET decides == FirstOf(q.suggested[a], {u \in Threads :
                           Waits(u) /\ (Rejected(u, recent) \/ AllowsMigration(RunningOn(u)))})
            comes == decides # Idle /\ ~Rejected(decides, recent)
            recheck == \E u \in ToSet(q.suggested[a]) :
                           Waits(u) /\ ~Rejected(u, recent) /\ ~AllowsMigration(RunningOn(u))
        IN IF comes THEN Reselect(c, ChangeCore(q, decides, a, prio, TRUE), TRUE)
           ELSE IF next # t THEN Reselect(c, q, TRUE)
           ELSE Keep(c, q, IF recheck THEN {} ELSE {t})
    /\ Leaves(c)

\* YieldToAnyThread: the thread leaves its core; when that leaves nothing
\* scheduled there, a suggested thread may come.
YieldToAnyThread(c) ==
    LET t == cur[c]
        a == queue.active[t]
        q == ChangeCore(queue, t, NoCore, prio, FALSE)
        TopThere(u) == ScheduledFront(q, q.active[u])
        first == FirstOf(q.suggested[a], {u \in Threads : TopThere(u) # u})
    IN
    /\ Yields(c)
    /\ IF ScheduledFront(q, a) # Idle \/ first = Idle THEN Reselect(c, q, TRUE)
       ELSE LET taken == IF AllowsMigration(TopThere(first))
                         THEN ChangeCore(q, first, a, prio, FALSE) ELSE q
            IN IF first # t THEN Reselect(c, taken, TRUE) ELSE Keep(c, taken, {t})
    /\ Leaves(c)

-----------------------------------------------------------------------------
(* Preemption, every 10 ms, by the host thread.                            *)

\* RotateScheduledQueue of core c at its preemption priority; recent are the
\* threads scheduled later than the next thread there.
RotateScheduledQueue(q, c, recent) ==
    LET p == PreemptionPriority[c]
        top == FrontOfPriority(q, c, p)
        rotated == IF top = Idle THEN q ELSE MoveToScheduledBack(q, top, prio)
        next == FrontOfPriority(rotated, c, p)
        TopThere(r, u) == ScheduledFront(r, r.active[u])
        Movable(r, u) == TopThere(r, u) # u /\ AllowsMigration(TopThere(r, u))
        \* The next thread here has waited longer than the suggestion.
        Rejected(u) == top # next /\ u \in recent
        equal == FirstOf(rotated.suggested[c], {u \in Threads :
                     /\ prio[u] = p /\ TopThere(rotated, u) # u
                     /\ Rejected(u) \/ Movable(rotated, u)})
        joined == IF equal = Idle THEN rotated
                  ELSE IF Rejected(equal) THEN rotated
                  ELSE ChangeCore(rotated, equal, c, prio, TRUE)
        best == ScheduledFront(joined, c)
        better == FirstOf(joined.suggested[c], {u \in Threads :
                      prio[u] < prio[best] /\ Movable(joined, u)})
    IN IF best # Idle /\ prio[best] >= p /\ better # Idle
       THEN ChangeCore(joined, better, c, prio, TRUE)
       ELSE joined

\* The threads suggested to core c at its preemption priority.
SuggestedAlike(q, c) == {t \in ToSet(q.suggested[c]) : prio[t] = PreemptionPriority[c]}

\* The queues there may be when every core has rotated, in their order.
Rotations ==
    LET rotated[n \in 0 .. NumCores] ==
            IF n = 0 THEN {queue}
            ELSE UNION {{RotateScheduledQueue(q, n - 1, recent) :
                            recent \in SUBSET SuggestedAlike(q, n - 1)} : q \in rotated[n - 1]}
    IN rotated[NumCores]

\* PreemptThreads: every core in turn.
PreemptThreads ==
    /\ Enters(Host)
    /\ UNCHANGED threadVars
    /\ \E q \in Rotations : Reselect(Host, q, q # queue)
    /\ Leaves(Host)

-----------------------------------------------------------------------------
(* The cores.                                                              *)

\* ScheduleImpl: clear needs_scheduling, and only then read the choice.
BeginsSchedule(c) ==
    /\ needs' = [needs EXCEPT ![c] = FALSE]
    /\ phase' = [phase EXCEPT ![c] = "load"]

\* RescheduleOtherCores: the cores that get an interrupt.
InterruptsUnlessRescheduling(c) == IF needs[c] THEN {} ELSE ipi[c]
InterruptedBy(c) == ipi[c]

\* EnableScheduling: interrupt the other cores, then reschedule this one when
\* its choice changed.
EnableScheduling(c) ==
    /\ phase[c] = "unlock"
    /\ interrupted' = [k \in Cores |-> interrupted[k] \/ k \in InterruptedBy(c)]
    /\ ipi' = [ipi EXCEPT ![c] = {}]
    /\ IF needs[c] THEN BeginsSchedule(c)
       ELSE UNCHANGED needs /\ phase' = [phase EXCEPT ![c] = "run"]
    /\ UNCHANGED <<choiceVars, threadVars, cur, target, guard>>

\* HandleInterrupt: RequestScheduleOnInterrupt.
HandleInterrupt(c) ==
    /\ phase[c] = "run" /\ interrupted[c]
    /\ interrupted' = [interrupted EXCEPT ![c] = FALSE]
    /\ BeginsSchedule(c)
    /\ UNCHANGED <<choiceVars, threadVars, cur, target, guard, ipi>>

\* HandleInterrupt when the thread's user disable count is set and its process
\* has no pinned thread here: before it requests the schedule, it pins the thread
\* to this core (PinCurrentThread, KThread::Pin).
HandleInterruptAndPin(c) ==
    LET t == cur[c]
        q == IF queue.active[t] # c \/ affinity[t] # {c}
             THEN IF t \in runnable
                  THEN ChangeAffinityMask(queue, t, affinity[t], {c}, c, prio)
                  ELSE SetActiveCore(queue, t, c)
             ELSE queue
    IN
    /\ Enters(c) /\ interrupted[c]
    /\ t \in Pinnable \ exited
    /\ pinned[c] = Idle /\ ownMask[t] = {}
    /\ pinned' = [pinned EXCEPT ![c] = t]
    /\ ownMask' = [ownMask EXCEPT ![t] = affinity[t]]
    /\ affinity' = [affinity EXCEPT ![t] = {c}]
    /\ UNCHANGED <<prio, runnable, exited, kernelWaiters>>
    /\ Reselect(c, q, t \in runnable /\ q # queue)
    /\ Leaves(c)

\* Unload: the context is unlocked, unless the thread has ended.
UnloadKeepsGuard(c) == guard
Unload(c) ==
    IF cur[c] \in Threads \ exited THEN [guard EXCEPT ![cur[c]] = Free] ELSE guard

\* ScheduleImpl: read the choice; when it is another thread, leave this one.
LeaveThread(c) ==
    /\ phase[c] = "load"
    /\ IF highest[c] = cur[c] /\ cur[c] # Idle
       THEN /\ phase' = [phase EXCEPT ![c] = "run"]
            /\ UNCHANGED <<target, guard>>
       ELSE /\ target' = [target EXCEPT ![c] = highest[c]]
            /\ guard' = Unload(c)
            /\ phase' = [phase EXCEPT ![c] = "switch"]
    /\ UNCHANGED <<choiceVars, threadVars, needs, cur, interrupted, ipi>>

\* ScheduleImplFiber, after a retry: read the choice again.
RefreshTarget(c) ==
    /\ phase[c] = "reload"
    /\ target' = [target EXCEPT ![c] = highest[c]]
    /\ phase' = [phase EXCEPT ![c] = "switch"]
    /\ UNCHANGED <<choiceVars, threadVars, needs, cur, guard, interrupted, ipi>>

\* ScheduleImplFiber: lock the context of the next thread, and make it the
\* current one (SwitchThread).  The idle thread's context is nobody else's.
GuardIgnored(c) == TRUE
GuardFree(c) == target[c] # Idle => guard[target[c]] = Free

LockContext(c) ==
    /\ phase[c] = "switch" /\ GuardFree(c)
    /\ guard' = IF target[c] = Idle THEN guard ELSE [guard EXCEPT ![target[c]] = c]
    /\ cur' = [cur EXCEPT ![c] = target[c]]
    /\ phase' = [phase EXCEPT ![c] = "check"]
    /\ UNCHANGED <<choiceVars, threadVars, needs, target, interrupted, ipi>>

\* ScheduleImplFiber's retry: clear needs_scheduling before the choice is read.
Retries(c) ==
    /\ needs[c]
    /\ needs' = [needs EXCEPT ![c] = FALSE]
    /\ phase' = [phase EXCEPT ![c] = "reload"]

\* ScheduleImplFiber: the context is locked elsewhere and the choice changed.
GiveUpTarget(c) ==
    /\ phase[c] = "switch" /\ ~GuardFree(c)
    /\ Retries(c)
    /\ target' = [target EXCEPT ![c] = Idle]
    /\ UNCHANGED <<choiceVars, threadVars, cur, guard, interrupted, ipi>>

\* ScheduleImplFiber: the choice changed during the switch; let the thread go.
UndoSwitch(c) ==
    /\ phase[c] = "check"
    /\ Retries(c)
    /\ guard' = IF target[c] = Idle THEN guard ELSE [guard EXCEPT ![target[c]] = Free]
    /\ target' = [target EXCEPT ![c] = Idle]
    /\ UNCHANGED <<choiceVars, threadVars, cur, interrupted, ipi>>

\* ScheduleImplFiber: run the thread.
FinishSwitch(c) ==
    /\ phase[c] = "check" /\ ~needs[c]
    /\ phase' = [phase EXCEPT ![c] = "run"]
    /\ target' = [target EXCEPT ![c] = Idle]
    /\ UNCHANGED <<choiceVars, threadVars, needs, cur, guard, interrupted, ipi>>

-----------------------------------------------------------------------------
\* What the running thread of a core may ask for.
Call(c) ==
    \/ \E t \in Threads :
        \/ StopThread(c, t) \/ StartThread(c, t)
        \/ \E p \in Priorities : SetPriority(c, t, p)
        \/ \E mask \in Masks : SetCoreMask(c, t, mask)
        \/ ChangeKernelWaiters(c, t)
    \/ ExitThread(c) \/ Unpin(c)
    \/ YieldWithoutCoreMigration(c) \/ YieldWithCoreMigration(c) \/ YieldToAnyThread(c)

\* What a core does by itself.
CoreStep(c) ==
    \/ EnableScheduling(c) \/ HandleInterrupt(c) \/ HandleInterruptAndPin(c)
    \/ LeaveThread(c) \/ RefreshTarget(c)
    \/ LockContext(c) \/ GiveUpTarget(c) \/ UndoSwitch(c) \/ FinishSwitch(c)

HostStep == PreemptThreads \/ \E t \in Threads : StartThread(Host, t)

Next == HostStep \/ \E c \in Cores : Call(c) \/ CoreStep(c)

Spec == Init /\ [][Next]_vars

\* The host runs every core's host thread; nobody has to make a call.
FairSpec == Spec /\ \A c \in Cores : WF_vars(CoreStep(c))

-----------------------------------------------------------------------------
(* Properties.                                                             *)

\* The core executes its thread: it is in guest code or in a call.
Executing(c) == phase[c] \in {"run", "unlock", "load"}

\* A thread never executes on two cores at once, though for a moment two cores
\* may name it their current thread.
ThreadOnOneCore ==
    \A c, k \in Cores :
        c # k /\ Executing(c) /\ Executing(k) /\ cur[c] \in Threads => cur[c] # cur[k]

\* Every runnable thread is in the scheduled queue of its core and in the
\* suggested queues of the other cores of its mask, once, in priority order.
QueuesExact ==
    \A c \in Cores :
        /\ \A s \in {queue.scheduled[c], queue.suggested[c]} :
            /\ IsInjective(s)
            /\ \A i, j \in DOMAIN s : i < j => prio[s[i]] <= prio[s[j]]
        /\ ToSet(queue.scheduled[c]) = {t \in runnable : queue.active[t] = c}
        /\ ToSet(queue.suggested[c]) =
               {t \in runnable : queue.active[t] # c /\ c \in affinity[t]}

\* The queue is as the threads are, and the variables have their types.
WellFormed == TypeOK /\ QueuesExact

\* A reschedule is not lost: a core whose thread is not the one chosen for it
\* still has the flag set, or is about to read the choice, and if it executes
\* guest code somebody has interrupted it or is about to.
Running(c) == IF phase[c] \in {"switch", "check"} THEN target[c] ELSE cur[c]

RescheduleNotLost ==
    \A c \in Cores :
        Running(c) # highest[c] =>
            /\ needs[c] \/ phase[c] \in {"load", "reload"}
            /\ phase[c] = "run" => interrupted[c] \/ \E k \in Cores : c \in ipi[k]

\* No core is left without a thread while some thread waits that may run there,
\* or that waits behind one that may run there, unless some core is at work for
\* a thread too important to be disturbed.  A core with a pinned thread may idle: when
\* that thread does not run, the last one waiting there may leave for an idle core,
\* and the core it leaves is filled only by the next choice.
NoCoreIdlesBesideWaiters ==
    \A c \in Cores, t \in runnable :
        LET waits == \A k \in Cores : highest[k] # t
            ahead == TopOn(highest, queue, t)
        IN /\ highest[c] = Idle /\ queue.scheduled[c] = <<>> /\ pinned[c] = Idle /\ waits
           /\ c \in affinity[t] \/ (ahead # Idle /\ c \in affinity[ahead])
           => \E k \in Cores : highest[k] # Idle
                               /\ prio[highest[k]] < HighestCoreMigrationAllowedPriority

\* Whoever's yield is known to be pointless is alone at its priority on its
\* core, so that leaving the yield out changes nothing.
SpentYieldIsPointless ==
    \A t \in spent \cap runnable, u \in runnable :
        t # u /\ queue.active[u] = queue.active[t] => prio[u] # prio[t]

\* A core's choice gets to run, or is changed.
ChoiceGetsToRun ==
    \A c \in Cores, t \in Threads :
        highest[c] = t ~> highest[c] # t \/ (Executing(c) /\ cur[c] = t)
=============================================================================
