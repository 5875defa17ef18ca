--------------------------- MODULE KHardwareTimer ---------------------------
(***************************************************************************)
(* The kernel's timer: threads that sleep with a timeout are tasks of      *)
(* KHardwareTimer (src/src/core/hle/kernel/k_hardware_timer.cpp and        *)
(* k_hardware_timer_base.h), which keeps one event scheduled in CoreTiming.*)
(*                                                                         *)
(* Tasks are registered, cancelled and run under the scheduler lock, each  *)
(* in one step.  CoreTiming takes a due event off its queue without any    *)
(* kernel lock, and only then calls DoTask, which has to wait for the      *)
(* scheduler lock: between the two, tasks come and go and the interrupt is *)
(* set anew.                                                               *)
(***************************************************************************)
EXTENDS Integers, FiniteSets

CONSTANTS
    Threads,    \* the threads that sleep; each is a KTimerTask
    NoTask,     \* a null KTimerTask*
    MaxTime,    \* bound: the clock stops here
    Never       \* the largest s64, an m_wakeup_time that means "disabled"

ASSUME TimerAssumption ==
    /\ NoTask \notin Threads
    /\ IsFiniteSet(Threads)
    /\ MaxTime \in Nat
    /\ Never \in Nat
    /\ MaxTime < Never

VARIABLES
    now,        \* the clock, as GetTick and CoreTiming read it
    waiting,    \* the threads in ThreadState::Waiting
    time,       \* KTimerTask::m_time: 0 while not in m_task_tree
    nextTask,   \* m_next_task
    wakeup,     \* m_wakeup_time
    event,      \* the times for which CoreTiming holds an event of the timer
    firing      \* CoreTiming has popped an event and is about to call DoTask

vars == <<now, waiting, time, nextTask, wakeup, event, firing>>

Times == 1..Never
TypeOK ==
    /\ now \in 0..MaxTime
    /\ waiting \subseteq Threads
    /\ time \in [Threads -> 0..Never]
    /\ nextTask \in Threads \cup {NoTask}
    /\ wakeup \in Times
    /\ event \subseteq Times
    /\ firing \in BOOLEAN

Init ==
    /\ now = 0
    /\ waiting = {}
    /\ time = [t \in Threads |-> 0]
    /\ nextTask = NoTask
    /\ wakeup = Never
    /\ event = {}
    /\ firing = FALSE

\* m_task_tree, for task times f.  Between equal times the tree keeps the order
\* of insertion; here any of them may be the first.
TreeWithIdle(f) == {t \in Threads : f[t] >= 0}
Tree(f) == {t \in Threads : f[t] > 0}
Earliest(f) == {t \in Tree(f) : \A u \in Tree(f) : f[t] <= f[u]}

\* GetInterruptEnabled.
InterruptEnabled == wakeup # Never

\* EnableInterrupt: whatever event there was is unscheduled, a new one scheduled.
EnableInterrupt(at) == wakeup' = at /\ event' = {at}

\* RemoveTaskFromTree for the tasks ts, which leaves task times f: if m_next_task
\* is gone, its successor follows.
NextIsForgotten(f, ts) == nextTask' = IF nextTask \in ts THEN NoTask ELSE nextTask
NextAfterRemoval(f, ts) ==
    IF nextTask \notin ts THEN nextTask' = nextTask
    ELSE IF Tree(f) = {} THEN nextTask' = NoTask
    ELSE nextTask' \in Earliest(f)

\* KScopedSchedulerLockAndSleep ends with RegisterAbsoluteTask for a thread that
\* waits until at, a time that may be past when the lock was long in coming.
Sleep(t, at) ==
    /\ t \notin waiting
    /\ waiting' = waiting \cup {t}
    /\ time' = [time EXCEPT ![t] = at]
    /\ IF nextTask # NoTask /\ time[nextTask] <= at
       THEN UNCHANGED <<nextTask, wakeup, event>>
       ELSE /\ nextTask' = t
            /\ IF at <= wakeup
               THEN EnableInterrupt(at)
               ELSE UNCHANGED <<wakeup, event>>
    /\ UNCHANGED <<now, firing>>

\* EndWait or CancelWait of a sleeping thread's queue: CancelTask.  The interrupt
\* stays as it is.
CancelTask(t) ==
    /\ t \in waiting
    /\ waiting' = waiting \ {t}
    /\ time' = [time EXCEPT ![t] = 0]
    /\ NextAfterRemoval(time', {t})
    /\ UNCHANGED <<now, wakeup, event, firing>>

\* CoreTiming::Advance pops a due event, to call DoTask.
PopEvent ==
    /\ ~firing
    /\ \E at \in event : at <= now /\ event' = event \ {at}
    /\ firing' = TRUE
    /\ UNCHANGED <<now, waiting, time, nextTask, wakeup>>

\* The tasks DoInterruptTaskImpl handles: from m_next_task on, all that are due.
DueTasks == IF nextTask = NoTask THEN {} ELSE {t \in Tree(time) : time[t] <= now}

\* m_wakeup_time when no task is left to enable the interrupt for.
WakeupKept == wakeup
WakeupWhenIdle == Never

\* DoTask, when the interrupt was not disabled in the meantime: due tasks are
\* removed, KThread::OnTimer cancels their waits, and the interrupt is set for
\* the next one.
DoTask ==
    /\ firing
    /\ InterruptEnabled
    /\ time' = [t \in Threads |-> IF t \in DueTasks THEN 0 ELSE time[t]]
    /\ waiting' = waiting \ DueTasks
    /\ NextAfterRemoval(time', DueTasks)
    /\ IF nextTask' # NoTask
       THEN EnableInterrupt(time'[nextTask'])
       ELSE wakeup' = WakeupWhenIdle /\ UNCHANGED event
    /\ firing' = FALSE
    /\ UNCHANGED now

\* DoTask ignores an event that is no longer wanted.
DoNothing ==
    /\ firing
    /\ ~InterruptEnabled
    /\ firing' = FALSE
    /\ UNCHANGED <<now, waiting, time, nextTask, wakeup, event>>

\* Time passes.
Tick ==
    /\ now < MaxTime
    /\ now' = now + 1
    /\ UNCHANGED <<waiting, time, nextTask, wakeup, event, firing>>

Next ==
    \/ \E t \in Threads : (\E at \in Times : Sleep(t, at)) \/ CancelTask(t)
    \/ PopEvent
    \/ DoTask
    \/ DoNothing
    \/ Tick

Spec == Init /\ [][Next]_vars

\* The host thread of CoreTiming runs, DoTask gets the scheduler lock, and time
\* passes.  Nobody has to sleep or to be woken.
FairSpec == Spec /\ WF_vars(PopEvent) /\ WF_vars(DoTask \/ DoNothing) /\ WF_vars(Tick)

-----------------------------------------------------------------------------
(* Properties.                                                             *)

\* m_next_task, kept by hand beside the tree, is the tree's earliest task, and
\* the tree holds whoever waits.
NextTaskIsEarliest ==
    /\ Tree(time) = waiting
    /\ IF Tree(time) = {} THEN nextTask = NoTask ELSE nextTask \in Earliest(time)

\* The earliest task is covered: the interrupt is set for its time or before,
\* and its event is still to fire or has been popped for a DoTask to come.  A
\* task at the largest time is never due; for it the interrupt is off.
InterruptCoversEarliest ==
    \A t \in Threads :
        0 < time[t] /\ time[t] < Never =>
            wakeup <= time[t] /\ (wakeup \in event \/ firing)

\* Whoever sleeps until a time the clock reaches is woken, however tasks are
\* registered and cancelled around the interrupt.
TimersFire == \A t \in Threads : (0 < time[t] /\ time[t] <= MaxTime) ~> (time[t] = 0)
=============================================================================
