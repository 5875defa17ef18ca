--------------------------- MODULE KResourceLimit ---------------------------
(***************************************************************************)
(* The limits a process has on its resources: KResourceLimit               *)
(* (src/src/core/hle/kernel/k_resource_limit.cpp) with the condition       *)
(* variable its waiters sleep on (k_light_condition_variable.cpp).         *)
(*                                                                         *)
(* A resource counts twice: a value is given back when an object is gone,  *)
(* a hint already when its end is certain.  Reserve sleeps while the hints *)
(* say that there will be room.                                            *)
(*                                                                         *)
(* m_lock is a light lock: here it has one owner (KLightLock), and any of  *)
(* the threads that ask for it gets it next.  It is handed to the most     *)
(* urgent of them, so no single one is sure of it.  Whatever a thread does *)
(* with m_lock held and nobody else can see is one step.                   *)
(***************************************************************************)
EXTENDS Integers, FiniteSets

CONSTANTS
    Threads,
    NoThread,
    Resources,  \* LimitableResource; all of them share the lock and the waiters
    MaxS64,     \* bound: the largest s64
    Limits,     \* the limits that are set
    Values,     \* the amounts that are reserved
    Terminable  \* the threads that may be terminated

ASSUME LimitAssumption ==
    /\ IsFiniteSet(Threads)
    /\ NoThread \notin Threads
    /\ MaxS64 \in Nat
    /\ Limits \subseteq 0..MaxS64
    /\ Values \subseteq 1..MaxS64

VARIABLES
    limit,          \* m_limit_values
    current,        \* m_current_values
    hints,          \* m_current_hints
    peak,           \* m_peak_values
    lockOwner,      \* the owner of m_lock
    waiterCount,    \* m_waiter_count
    waitList,       \* m_wait_list of m_cond_var
    pc,             \* where a thread is in Reserve or Release
    call,           \* the arguments of its Reserve
    late,           \* the threads whose timeout has passed
    terminating     \* the threads with a termination request

vars == <<limit, current, hints, peak, lockOwner, waiterCount, waitList, pc,
          call, late, terminating>>
values == <<limit, current, hints, peak>>

\* idle: outside.  enter: Reserve asks for m_lock.  wait: about to call Wait of
\* m_cond_var, m_lock held.  asleep: in it.  relock: woken, asks for m_lock.
\* retry: back in the loop of Reserve, m_lock never let go.  broadcast: Release
\* has changed the values and has m_lock.
Labels == {"idle", "enter", "wait", "asleep", "relock", "retry", "broadcast"}

Calls == [which : Resources, value : Values]
TypeOK ==
    /\ limit \in [Resources -> Limits]
    /\ {current, hints, peak} \subseteq [Resources -> 0..MaxS64]
    /\ lockOwner \in Threads \cup {NoThread}
    /\ waiterCount \in 0..Cardinality(Threads)
    /\ waitList \subseteq Threads
    /\ pc \in [Threads -> Labels]
    /\ call \in [Threads -> Calls]
    /\ late \subseteq Threads
    /\ terminating \subseteq Threads

\* Limits are 0 at first, and are set before anybody reserves.
Init ==
    /\ limit \in [Resources -> Limits]
    /\ current = [r \in Resources |-> 0]
    /\ hints = current
    /\ peak = current
    /\ lockOwner = NoThread
    /\ waiterCount = 0
    /\ waitList = {}
    /\ pc = [t \in Threads |-> "idle"]
    /\ call \in [Threads -> Calls]
    /\ late = {}
    /\ terminating = {}

Goto(t, label) == pc' = [pc EXCEPT ![t] = label]

\* Common::WrappingAdd, for a and b that are not negative.
WrappingAdd(a, b) == IF a + b > MaxS64 THEN a + b - 2 * MaxS64 - 2 ELSE a + b

\* The tests in the loop of Reserve.
WouldOverflow(c) ==
    WrappingAdd(current[c.which], c.value) <= current[c.which]
FitsByHint(c) == WrappingAdd(hints[c.which], c.value) <= limit[c.which]
Fits(c) == WrappingAdd(current[c.which], c.value) <= limit[c.which]
MayWaitForGood(t, c) == FitsByHint(c)
MayWaitForNothing(t, c) == t \notin late
MayWait(t, c) == FitsByHint(c) /\ t \notin late

\* One round of the loop of Reserve by t, with m_lock, from waiterCount n: it
\* reserves, goes to wait or fails.
TryReserve(t, n) ==
    LET c == call[t]
        sum == WrappingAdd(current[c.which], c.value)
    IN  \/ /\ ~WouldOverflow(c)
           /\ Fits(c)
           /\ current' = [current EXCEPT ![c.which] = sum]
           /\ hints' = [hints EXCEPT ![c.which] = @ + c.value]
           /\ peak' = [peak EXCEPT ![c.which] = IF @ > sum THEN @ ELSE sum]
           /\ lockOwner' = NoThread
           /\ waiterCount' = n
           /\ Goto(t, "idle")
           /\ UNCHANGED limit
        \/ /\ ~WouldOverflow(c)
           /\ ~Fits(c)
           /\ MayWait(t, c)
           /\ lockOwner' = t
           /\ waiterCount' = n + 1
           /\ Goto(t, "wait")
           /\ UNCHANGED values
        \/ /\ WouldOverflow(c) \/ (~Fits(c) /\ ~MayWait(t, c))
           /\ lockOwner' = NoThread
           /\ waiterCount' = n
           /\ Goto(t, "idle")
           /\ UNCHANGED values

\* Reserve is called, with a timeout in the future.
CallReserve(t) ==
    /\ pc[t] = "idle"
    /\ \E c \in Calls : call' = [call EXCEPT ![t] = c]
    /\ Goto(t, "enter")
    /\ late' = late \ {t}
    /\ UNCHANGED <<values, lockOwner, waiterCount, waitList, terminating>>

\* Reserve gets m_lock: it fails at once while the hints use up the limit.
Reserve(t) ==
    /\ pc[t] = "enter"
    /\ lockOwner = NoThread
    /\ IF hints[call[t].which] >= limit[call[t].which]
       THEN Goto(t, "idle") /\ UNCHANGED <<values, lockOwner, waiterCount>>
       ELSE TryReserve(t, waiterCount)
    /\ UNCHANGED <<waitList, call, late, terminating>>

\* m_waiter_count after a wait.
CountKept == waiterCount
CountAfterWait == waiterCount - 1

\* The critical section of the scheduler lock in KLightConditionVariable::Wait.
\* A thread that is to be terminated comes back at once, m_lock still its own,
\* and goes round the loop until its timeout has passed.
Wait(t) ==
    /\ pc[t] = "wait"
    /\ IF t \in terminating
       THEN /\ waiterCount' = CountAfterWait
            /\ Goto(t, "retry")
            /\ UNCHANGED <<lockOwner, waitList>>
       ELSE /\ lockOwner' = NoThread
            /\ waitList' = waitList \cup {t}
            /\ Goto(t, "asleep")
            /\ UNCHANGED waiterCount
    /\ UNCHANGED <<values, call, late, terminating>>

Retry(t) ==
    /\ pc[t] = "retry"
    /\ TryReserve(t, waiterCount)
    /\ UNCHANGED <<waitList, call, late, terminating>>

\* Whoever was woken has m_lock again and goes on with the loop.
Relock(t) ==
    /\ pc[t] = "relock"
    /\ lockOwner = NoThread
    /\ TryReserve(t, CountAfterWait)
    /\ UNCHANGED <<waitList, call, late, terminating>>

\* CancelWait of the wait queue, for the timer or for a termination request.
CancelWait(t) ==
    /\ waitList' = waitList \ {t}
    /\ Goto(t, "relock")

TimeOut(t) ==
    /\ pc[t] = "asleep"
    /\ t \in late
    /\ CancelWait(t)
    /\ UNCHANGED <<values, lockOwner, waiterCount, call, late, terminating>>

\* KThread::RequestTerminate.  Threads that wait for m_lock itself are left
\* alone here: what becomes of those is KLightLock's matter.
RequestTerminate(t) ==
    /\ t \in Terminable \ terminating
    /\ pc[t] \notin {"enter", "relock"}
    /\ terminating' = terminating \cup {t}
    /\ IF pc[t] = "asleep" THEN CancelWait(t) ELSE UNCHANGED <<waitList, pc>>
    /\ UNCHANGED <<values, lockOwner, waiterCount, call, late>>

\* The timeout of t's Reserve passes.
Pass(t) ==
    /\ pc[t] # "idle"
    /\ late' = late \cup {t}
    /\ UNCHANGED <<values, lockOwner, waiterCount, waitList, pc, call, terminating>>

\* What callers release is what they hold: of the values that are in use, hints
\* are held too for a part, and gone for the rest.
Held(r, value, hint) ==
    /\ value <= current[r]
    /\ hint <= hints[r]
    /\ value - hint <= current[r] - hints[r]

\* Release(which, value, hint), up to the broadcast.
Release(t) ==
    /\ pc[t] = "idle"
    /\ lockOwner = NoThread
    /\ \E r \in Resources : \E value \in 0..current[r], hint \in 0..hints[r] :
        /\ Held(r, value, hint)
        /\ current' = [current EXCEPT ![r] = @ - value]
        /\ hints' = [hints EXCEPT ![r] = @ - hint]
    /\ IF waiterCount # 0
       THEN lockOwner' = t /\ Goto(t, "broadcast")
       ELSE UNCHANGED <<lockOwner, pc>>
    /\ UNCHANGED <<limit, peak, waiterCount, waitList, call, late, terminating>>

\* The threads a broadcast wakes.
OneWoken == IF waitList = {} THEN {} ELSE {CHOOSE u \in waitList : TRUE}
Woken == waitList

\* Broadcast, and the end of Release.
Broadcast(t) ==
    /\ pc[t] = "broadcast"
    /\ waitList' = waitList \ Woken
    /\ pc' = [u \in Threads |->
                IF u \in Woken THEN "relock"
                ELSE IF u = t THEN "idle" ELSE pc[u]]
    /\ lockOwner' = NoThread
    /\ UNCHANGED <<values, waiterCount, call, late, terminating>>

\* SetLimitValue, when it succeeds.  Nobody is woken by a new limit.
SetLimitValue(t) ==
    /\ pc[t] = "idle"
    /\ lockOwner = NoThread
    /\ \E r \in Resources, value \in Limits :
        /\ current[r] <= value
        /\ limit' = [limit EXCEPT ![r] = value]
        /\ peak' = [peak EXCEPT ![r] = current[r]]
    /\ UNCHANGED <<current, hints, lockOwner, waiterCount, waitList, pc, call,
                   late, terminating>>

Next == \E t \in Threads :
    \/ CallReserve(t) \/ Reserve(t) \/ Wait(t) \/ Retry(t) \/ Relock(t)
    \/ TimeOut(t) \/ Pass(t) \/ RequestTerminate(t)
    \/ Release(t) \/ Broadcast(t) \/ SetLimitValue(t)

Spec == Init /\ [][Next]_vars

\* A thread in the kernel goes on; a lock that stays free is taken by one of the
\* threads that ask for it; timeouts pass and the timer sees them.
FairSpec ==
    /\ Spec
    /\ WF_vars(\E t \in Threads : Reserve(t) \/ Relock(t))
    /\ \A t \in Threads :
        /\ WF_vars(Wait(t) \/ Retry(t) \/ Broadcast(t))
        /\ WF_vars(Pass(t)) /\ WF_vars(TimeOut(t))

-----------------------------------------------------------------------------
(* Properties *)

\* What the assertions of every operation say: hints never exceed the values in
\* use nor these the limit, whatever happened while a Reserve slept.
LimitsHold == \A r \in Resources :
    /\ hints[r] <= current[r]
    /\ current[r] <= limit[r]
    /\ current[r] <= peak[r]

\* The values are as the assertions say, and no variable leaves its range.
WellFormed == TypeOK /\ LimitsHold

\* Release looks at m_waiter_count to see whether it has to wake anyone: the
\* count is that of the threads between its increment and its decrement, and the
\* list holds those of them that sleep.
Waiters == {t \in Threads : pc[t] \in {"wait", "asleep", "relock"}}
CountExact ==
    /\ waiterCount = Cardinality(Waiters)
    /\ waitList = {t \in Threads : pc[t] = "asleep"}

\* Nobody sleeps in Reserve for want of a resource that no one is about to give
\* back: while a thread sleeps, a part of the resource is in use without a hint,
\* or the broadcast of a release is on its way.
Broadcasting == \E u \in Threads : pc[u] = "broadcast"
ReleaseIsComing == \A t \in waitList :
    Broadcasting \/ hints[call[t].which] < current[call[t].which]

\* No wake-up is lost between a look at the values and the sleep: nobody sleeps
\* beside room enough for it.  This takes limits that stay as they are, since
\* SetLimitValue wakes nobody.
NobodySleepsBesideRoom == \A t \in waitList :
    Broadcasting \/ WouldOverflow(call[t]) \/ ~Fits(call[t])

\* Unless threads go on calling Reserve and Release for ever, and so may pass
\* others in the line for m_lock, every Reserve comes back; also beside that of a
\* thread to be terminated, which runs round its loop with m_lock until its timeout
\* and keeps all others out of it meanwhile.
ReserveEnds ==
    <>[][\A u \in Threads : ~CallReserve(u) /\ ~Release(u)]_vars
    => \A t \in Threads : pc[t] # "idle" ~> pc[t] = "idle"
=============================================================================
