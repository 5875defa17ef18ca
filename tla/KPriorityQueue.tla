--------------------------- MODULE KPriorityQueue ---------------------------
(***************************************************************************)
(* The scheduler's priority queue (k_priority_queue.h): for each core a    *)
(* scheduled queue with the threads whose active core it is, and a         *)
(* suggested queue with the other threads that may run there.              *)
(*                                                                         *)
(* The code keeps one list per core and priority and a bitmap of the       *)
(* priorities in use; its GetFront and GetNext walk them in order, so one  *)
(* list per core, ordered by priority, says the same.  A queue q is a      *)
(* record of the two families of lists and the active cores (the code's    *)
(* KThread::m_core_id), which every mutator reads; prio and affinity are   *)
(* passed in.                                                              *)
(***************************************************************************)
EXTENDS Integers, Sequences, SequencesExt

CONSTANTS
    Threads,    \* the guest threads
    Idle,       \* a null KThread*, which the scheduler replaces by its idle thread
    NumCores    \* NUM_CPU_CORES

Cores == 0 .. NumCores - 1


\* SetActiveCore(-1): the thread is in no scheduled queue.
NoCore == -1

\* GetFront: the front of the highest non-empty priority.
FrontOf(s) == IF s = <<>> THEN Idle ELSE s[1]

\* GetScheduledFront, Idle for a thread with no core.
ScheduledFront(q, c) == IF c = NoCore THEN Idle ELSE FrontOf(q.scheduled[c])

\* The first of the list s among ts, Idle when there is none.
FirstOf(s, ts) ==
    LET found == {i \in DOMAIN s : s[i] \in ts}
    IN IF found = {} THEN Idle ELSE s[CHOOSE i \in found : \A j \in found : i <= j]

\* GetNext: the one behind t, at its priority or a lower one.
NextOf(s, t) == FirstOf(s, {s[i] : i \in {j \in 2 .. Len(s) : s[j - 1] = t}})

\* The list s with t behind every thread of priority p or a more urgent one.
Inserted(s, t, p, prio) ==
    InsertAt(s, 1 + CHOOSE i \in 0 .. Len(s) : /\ i = 0 \/ prio[s[i]] <= p
                                               /\ \A j \in i + 1 .. Len(s) : prio[s[j]] > p, t)

\* KPerCoreQueue::PushBack and PushFront, at priority p of the list s.
Behind(s, t, p, prio) == Inserted(s, t, p, prio)
Before(s, t, p, prio) == Inserted(s, t, p - 1, prio)

\* KPerCoreQueue::Remove.
Without(s, t) ==
    IF t \in ToSet(s) THEN RemoveAt(s, CHOOSE i \in DOMAIN s : s[i] = t) ELSE s

\* The cores that t is suggested to, when its mask is mask and its core is c.
SuggestedTo(mask, c) == mask \ {c}

\* SetActiveCore, of a thread in no queue.
SetActiveCore(q, t, a) ==
    [scheduled |-> q.scheduled, suggested |-> q.suggested, active |-> [q.active EXCEPT ![t] = a]]

\* PushBack, or PushFront when toFront: scheduled on its core, suggested (at
\* the back) to every other core of its mask.
Push(q, t, p, mask, prio, toFront) ==
    LET a == q.active[t] IN
    [scheduled |-> [c \in Cores |->
        IF c # a THEN q.scheduled[c]
        ELSE IF toFront THEN Before(q.scheduled[c], t, p, prio)
        ELSE Behind(q.scheduled[c], t, p, prio)],
     suggested |-> [c \in Cores |->
        IF c \in SuggestedTo(mask, a) THEN Behind(q.suggested[c], t, p, prio)
        ELSE q.suggested[c]],
     active |-> q.active]

\* Remove, from where a thread with core a and mask mask is.
RemoveFrom(q, t, a, mask) ==
    [scheduled |-> [c \in Cores |->
        IF c = a THEN Without(q.scheduled[c], t) ELSE q.scheduled[c]],
     suggested |-> [c \in Cores |->
        IF c \in SuggestedTo(mask, a) THEN Without(q.suggested[c], t) ELSE q.suggested[c]],
     active |-> q.active]

\* ChangePriority; prio is still the old one of t.
ChangePriority(q, t, p, mask, prio, isRunning) ==
    Push(RemoveFrom(q, t, q.active[t], mask), t, p, mask, prio, isRunning)

\* ChangeAffinityMask, when t's core becomes a (or stays): out of the queues of
\* the old mask, to the back of those of the new one.
ChangeAffinityMask(q, t, oldMask, mask, a, prio) ==
    LET old == q.active[t]
        Moved(s, leaves, joins) ==
            LET rest == IF leaves THEN Without(s, t) ELSE s
            IN IF joins THEN Behind(rest, t, prio[t], prio) ELSE rest
    IN [scheduled |-> [c \in Cores |->
            Moved(q.scheduled[c], c \in oldMask /\ c = old, c \in mask /\ c = a)],
        suggested |-> [c \in Cores |->
            Moved(q.suggested[c], c \in oldMask \ {old}, c \in mask \ {a})],
        active |-> [q.active EXCEPT ![t] = a]]

\* ChangeCore that forgets that the thread was suggested to the core a.
StaysSuggested(q, t, a, prio, toFront) ==
    LET old == q.active[t] IN
    [scheduled |-> [c \in Cores |->
        CASE c = old -> Without(q.scheduled[c], t)
          [] c = a   -> Behind(q.scheduled[c], t, prio[t], prio)
          [] OTHER   -> q.scheduled[c]],
     suggested |-> q.suggested,
     active |-> [q.active EXCEPT ![t] = a]]

\* SetActiveCore and ChangeCore: off the scheduled queue of the core it had,
\* which it is then suggested to, and onto the one of the core a.
ChangeCore(q, t, a, prio, toFront) ==
    LET old == q.active[t]
        p == prio[t]
    IN IF a = old THEN q
       ELSE [scheduled |-> [c \in Cores |->
                CASE c = old -> Without(q.scheduled[c], t)
                  [] c = a   -> IF toFront THEN Before(q.scheduled[c], t, p, prio)
                                ELSE Behind(q.scheduled[c], t, p, prio)
                  [] OTHER   -> q.scheduled[c]],
             suggested |-> [c \in Cores |->
                CASE c = a   -> Without(q.suggested[c], t)
                  [] c = old -> Behind(q.suggested[c], t, p, prio)
                  [] OTHER   -> q.suggested[c]],
             active |-> [q.active EXCEPT ![t] = a]]

\* MoveToScheduledBack.
MoveToScheduledBack(q, t, prio) ==
    [scheduled |-> [c \in Cores |->
        IF c = q.active[t] THEN Behind(Without(q.scheduled[c], t), t, prio[t], prio)
        ELSE q.scheduled[c]],
     suggested |-> q.suggested,
     active |-> q.active]
=============================================================================
