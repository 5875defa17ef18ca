----------------------- MODULE KSynchronizationObject -----------------------
(***************************************************************************)
(* Waiting on several kernel objects at once, and events                   *)
(* (src/src/core/hle/kernel/k_synchronization_object.cpp and .h,           *)
(* k_readable_event.cpp, and what k_thread.cpp does to a waiting thread).  *)
(*                                                                         *)
(* A thread that waits has one list node per object, on the stack of its   *)
(* call of Wait, and each object keeps a singly linked list of nodes with  *)
(* head and tail.  The lists are modelled pointer by pointer, because      *)
(* NotifyAvailable walks one of them while the threads it wakes take their *)
(* nodes, the one it stands on included, out of this list and of others.   *)
(*                                                                         *)
(* All of this happens under the scheduler lock: a call is one step, but   *)
(* for NotifyAvailable, which is one step per node with the lock held.     *)
(***************************************************************************)
EXTENDS Integers, FiniteSets, SequencesExt

CONSTANTS
    Threads,    \* the threads of the process
    Objects,    \* the objects they wait on, all readable events
    MaxObjects, \* bound: how many objects a call names (ArgumentHandleCountMax)
    Null,       \* a null ThreadListNode*
    NoObject,   \* no object
    Mortal      \* the threads that may be asked to terminate

ASSUME SynchronizationAssumption ==
    /\ IsFiniteSet(Threads)
    /\ MaxObjects \in Nat
    /\ Null \notin Threads \X (1..MaxObjects)
    /\ NoObject \notin Objects
    /\ Mortal \subseteq Threads

VARIABLES
    signaled,       \* the objects with m_is_signaled
    list,           \* m_thread_list_head and _tail of each object, next of each node
    pc,             \* where each thread is
    objects,        \* the arguments of the call it waits in, with repetitions
    waiting,        \* the threads in ThreadState::Waiting
    timed,          \* the threads that have a timer task
    cancellable,    \* m_cancellable
    cancelled,      \* m_wait_cancelled
    index,          \* m_synced_index, until it is read
    result,         \* m_wait_result
    termReq,        \* m_termination_requested
    notify          \* the object NotifyAvailable is at, and cur_node

threadVars == <<pc, objects, waiting, timed, cancellable, cancelled,
                index, result, termReq>>
vars == <<signaled, list, threadVars, notify>>

Node == Threads \X (1..MaxObjects)
NodeOrNull == Node \cup {Null}
Lists == [head : [Objects -> NodeOrNull],
          tail : [Objects -> NodeOrNull],
          next : [Node -> NodeOrNull]]
Idle == [obj |-> NoObject, cur |-> Null]
Calls == UNION {[1..n -> Objects] : n \in 0..MaxObjects}

TypeOK ==
    /\ signaled \subseteq Objects
    /\ list \in Lists
    /\ pc \in [Threads -> {"run", "waiting", "sleeping", "dead"}]
    /\ objects \in [Threads -> Calls]
    /\ waiting \subseteq Threads
    /\ timed \subseteq waiting
    /\ cancellable \subseteq Threads
    /\ cancelled \subseteq Threads
    /\ index \in [Threads -> -1..(MaxObjects - 1)]
    /\ result \in [Threads -> {"Success", "TimedOut", "Cancelled", "Terminated"}]
    /\ termReq \subseteq Mortal
    /\ notify \in [obj : Objects, cur : NodeOrNull] \cup {Idle}

Init ==
    /\ signaled = {}
    /\ list = [head |-> [o \in Objects |-> Null], tail |-> [o \in Objects |-> Null],
               next |-> [n \in Node |-> Null]]
    /\ pc = [t \in Threads |-> "run"]
    /\ objects = [t \in Threads |-> <<>>]
    /\ waiting = {}
    /\ timed = {}
    /\ cancellable = {}
    /\ cancelled = {}
    /\ index = [t \in Threads |-> -1]
    /\ result = [t \in Threads |-> "Success"]
    /\ termReq = {}
    /\ notify = Idle

\* Nobody is inside NotifyAvailable, so the scheduler lock can be had.
LockFree == notify = Idle

-----------------------------------------------------------------------------
(* The lists.                                                              *)

\* The nodes of o's list l, from the head on, and Null behind them.
Path(l, o) ==
    LET node[k \in 0..Cardinality(Node)] ==
            IF k = 0 THEN l.head[o]
            ELSE IF node[k - 1] = Null THEN Null
            ELSE l.next[node[k - 1]]
    IN node
Linked(l, o) == {Path(l, o)[k] : k \in 0..Cardinality(Node)} \ {Null}

LinkNode(l, o, n) ==
    [head |-> IF l.tail[o] = Null THEN [l.head EXCEPT ![o] = n] ELSE l.head,
     next |-> IF l.tail[o] = Null THEN l.next ELSE [l.next EXCEPT ![l.tail[o]] = n],
     tail |-> [l.tail EXCEPT ![o] = n]]

\* UnlinkNode walks from the head to n.  The node's own next stays as it is.
PrevOf(l, o, k) == IF k = 0 THEN Null ELSE Path(l, o)[k - 1]
UnlinkNode(l, o, n) ==
    LET k == CHOOSE k \in DOMAIN Path(l, o) :
                 Path(l, o)[k] = n /\ \A j \in 0..(k - 1) : Path(l, o)[j] # n
        prev == PrevOf(l, o, k)
    IN [head |-> IF k = 0 THEN [l.head EXCEPT ![o] = l.next[n]] ELSE l.head,
        next |-> IF k = 0 THEN l.next ELSE [l.next EXCEPT ![prev] = l.next[n]],
        tail |-> IF l.tail[o] = n THEN [l.tail EXCEPT ![o] = prev] ELSE l.tail]

\* Wait links a node of t to each object.
LinkNodes(l, t, os) ==
    LET linked[i \in 0..Len(os)] ==
            IF i = 0 THEN l ELSE LinkNode(linked[i - 1], os[i], <<t, i>>)
    IN linked[Len(os)]

\* The wait is over: t's nodes leave the lists.
UnlinkFirstNode(l, t) ==
    IF objects[t] = <<>> THEN l ELSE UnlinkNode(l, objects[t][1], <<t, 1>>)
UnlinkNodes(l, t) ==
    LET unlinked[i \in 0..Len(objects[t])] ==
            IF i = 0 THEN l ELSE UnlinkNode(unlinked[i - 1], objects[t][i], <<t, i>>)
    IN unlinked[Len(objects[t])]

-----------------------------------------------------------------------------
(* WaitSynchronization.                                                    *)

SignaledIndices(os) == {i \in DOMAIN os : os[i] \in signaled}

\* The calls of Wait, for objects os and a timeout, that come back at once and
\* change nothing: for a termination, an object already signaled or a timeout of
\* zero.  Only then is an earlier cancellation looked at.
NothingToWaitFor(t, os, timeout) ==
    t \in termReq \/ SignaledIndices(os) # {} \/ timeout = "zero"

\* IsWaitCancelled.
CancelForgotten(t) == FALSE
IsWaitCancelled(t) == t \in cancelled

WaitIsCancelled(t, os, timeout) ==
    /\ pc[t] = "run"
    /\ LockFree
    /\ ~NothingToWaitFor(t, os, timeout)
    /\ IsWaitCancelled(t)
    /\ cancelled' = cancelled \ {t}
    /\ UNCHANGED <<signaled, list, pc, objects, waiting, timed, cancellable, index,
                   result, termReq, notify>>

WaitBegins(t, os, timeout) ==
    /\ pc[t] = "run"
    /\ LockFree
    /\ ~NothingToWaitFor(t, os, timeout)
    /\ ~IsWaitCancelled(t)
    /\ list' = LinkNodes(list, t, os)
    /\ objects' = [objects EXCEPT ![t] = os]
    /\ cancellable' = cancellable \cup {t}
    /\ index' = [index EXCEPT ![t] = -1]
    /\ pc' = [pc EXCEPT ![t] = "waiting"]
    /\ waiting' = waiting \cup {t}
    /\ timed' = IF timeout = "finite" THEN timed \cup {t} ELSE timed
    /\ UNCHANGED <<signaled, cancelled, result, termReq, notify>>

\* KThread::Sleep, a wait that cannot be cancelled.
Sleep(t) ==
    /\ pc[t] = "run"
    /\ LockFree
    /\ t \notin termReq
    /\ pc' = [pc EXCEPT ![t] = "sleeping"]
    /\ waiting' = waiting \cup {t}
    /\ timed' = timed \cup {t}
    /\ UNCHANGED <<signaled, list, objects, cancellable, cancelled, index,
                   result, termReq, notify>>

\* A thread that was woken goes on.  A core's thread is switched to, and a host's
\* is notified, at the end of the critical section that woke it, not before.  Its
\* nodes, which were on its stack, are gone, and so is what it learned.
WokenCanRun == LockFree
WaitReturn(t) ==
    /\ pc[t] \in {"waiting", "sleeping"}
    /\ t \notin waiting
    /\ WokenCanRun
    /\ pc' = [pc EXCEPT ![t] = "run"]
    /\ objects' = [objects EXCEPT ![t] = <<>>]
    /\ list' = [list EXCEPT !.next = [n \in Node |-> IF n[1] = t THEN Null ELSE @[n]]]
    /\ index' = [index EXCEPT ![t] = -1]
    /\ result' = [result EXCEPT ![t] = "Success"]
    /\ UNCHANGED <<signaled, waiting, timed, cancellable, cancelled, termReq, notify>>

-----------------------------------------------------------------------------
(* The end of a wait.                                                      *)

\* The timer task of t is cancelled with the wait; after a timeout it is gone.
TimerCancelled(t) == timed \ {t}

\* ClearCancellable.
ClearCancellable(t) == cancellable \ {t}

\* CancelWait of the wait queue t waits in, for result r.
CancelWait(t, r) ==
    /\ list' = IF pc[t] = "waiting" THEN UnlinkNodes(list, t) ELSE list
    /\ cancellable' = IF pc[t] = "waiting" THEN ClearCancellable(t) ELSE cancellable
    /\ waiting' = waiting \ {t}
    /\ timed' = TimerCancelled(t)
    /\ result' = [result EXCEPT ![t] = r]

Timeout(t) ==
    /\ LockFree
    /\ t \in timed
    /\ CancelWait(t, "TimedOut")
    /\ UNCHANGED <<signaled, pc, objects, cancelled, index, termReq, notify>>

\* WaitCancel ends a cancellable wait, or is remembered for the next one.
WaitCancel(t) ==
    /\ LockFree
    /\ IF t \in waiting /\ t \in cancellable
       THEN /\ cancelled' = cancelled \ {t}
            /\ CancelWait(t, "Cancelled")
       ELSE /\ cancelled' = cancelled \cup {t}
            /\ UNCHANGED <<list, cancellable, waiting, timed, result>>
    /\ UNCHANGED <<signaled, pc, objects, index, termReq, notify>>

RequestTerminate(t) ==
    /\ LockFree
    /\ t \in Mortal \ termReq
    /\ termReq' = termReq \cup {t}
    /\ IF t \in waiting
       THEN CancelWait(t, "Terminated")
       ELSE UNCHANGED <<list, cancellable, waiting, timed, result>>
    /\ UNCHANGED <<signaled, pc, objects, cancelled, index, notify>>

\* A thread that is to terminate does so on its way out of the kernel.
Exit(t) ==
    /\ pc[t] = "run"
    /\ t \in termReq
    /\ pc' = [pc EXCEPT ![t] = "dead"]
    /\ UNCHANGED <<signaled, list, objects, waiting, timed, cancellable,
                   cancelled, index, result, termReq, notify>>

-----------------------------------------------------------------------------
(* KReadableEvent.                                                         *)

\* Signal sets the flag; NotifyAvailable starts at the head of the list.
Signal(o) ==
    /\ LockFree
    /\ o \notin signaled
    /\ signaled' = signaled \cup {o}
    /\ notify' = [obj |-> o, cur |-> list.head[o]]
    /\ UNCHANGED <<list, threadVars>>

\* The first index of the object in t's call, counted from 0.
SyncIndex(t) ==
    (CHOOSE i \in DOMAIN objects[t] :
         /\ objects[t][i] = notify.obj
         /\ \A j \in 1..(i - 1) : objects[t][j] # notify.obj) - 1

\* NotifyAvailable of the thread's queue: all nodes unlinked, the wait over.
NotifyThread(t) ==
    /\ list' = UnlinkNodes(list, t)
    /\ index' = [index EXCEPT ![t] = SyncIndex(t)]
    /\ cancellable' = ClearCancellable(t)
    /\ waiting' = waiting \ {t}
    /\ timed' = TimerCancelled(t)
    /\ result' = [result EXCEPT ![t] = "Success"]

\* One turn of the loop in KSynchronizationObject::NotifyAvailable.  A thread that
\* waits on the object twice has been woken when its second node is reached.  The
\* loop goes on from a node that was just unlinked.
OnlyTheFirst(l, n) == Null
NodeAfter(l, n) == l.next[n]
NotifyStep ==
    /\ notify # Idle
    /\ notify.cur # Null
    /\ LET t == notify.cur[1]
       IN IF t \in waiting
          THEN NotifyThread(t)
          ELSE UNCHANGED <<list, index, cancellable, waiting, timed, result>>
    /\ notify' = [notify EXCEPT !.cur = NodeAfter(list', notify.cur)]
    /\ UNCHANGED <<signaled, pc, objects, cancelled, termReq>>

NotifyEnd ==
    /\ notify # Idle
    /\ notify.cur = Null
    /\ notify' = Idle
    /\ UNCHANGED <<signaled, list, threadVars>>

Reset(o) ==
    /\ LockFree
    /\ o \in signaled
    /\ signaled' = signaled \ {o}
    /\ UNCHANGED <<list, threadVars, notify>>

Next ==
    \/ \E t \in Threads :
          \/ \E os \in Calls, timeout \in {"zero", "finite", "infinite"} :
                \/ WaitIsCancelled(t, os, timeout)
                \/ WaitBegins(t, os, timeout)
          \/ Sleep(t) \/ WaitReturn(t)
          \/ Timeout(t) \/ WaitCancel(t) \/ RequestTerminate(t) \/ Exit(t)
    \/ \E o \in Objects : Signal(o) \/ Reset(o)
    \/ NotifyStep
    \/ NotifyEnd

Spec == Init /\ [][Next]_vars

\* Whoever is inside NotifyAvailable goes on.
FairSpec == Spec /\ WF_vars(NotifyStep \/ NotifyEnd)

-----------------------------------------------------------------------------
(* Properties.                                                             *)

\* The threads inside KSynchronizationObject::Wait that nobody has woken.
Sleepers == {t \in waiting : pc[t] = "waiting"}

\* A thread that waits is linked to all of its objects, one that does not to none,
\* and every tail is the last node from the head on.
ListsExact ==
    \A o \in Objects :
        /\ Linked(list, o) =
              {n \in Node : /\ n[1] \in Sleepers
                            /\ n[2] \in DOMAIN objects[n[1]]
                            /\ objects[n[1]][n[2]] = o}
        /\ IF list.head[o] = Null THEN list.tail[o] = Null
           ELSE list.tail[o] \in Linked(list, o) /\ list.next[list.tail[o]] = Null

\* While NotifyAvailable stands on a node, the call whose stack holds the node has
\* not returned.
NodeIsAlive == notify.cur # Null => pc[notify.cur[1]] = "waiting"

\* The lists are what the sleeping calls need, their nodes are alive, and the
\* variables have their types.
WellFormed == TypeOK /\ ListsExact /\ NodeIsAlive

\* A cancellation is never held back from a thread whose wait it could end.
CancelIsDelivered == cancelled \cap Sleepers = {}

\* Who is still to be woken by the signal under way counts as awake already.
ToBeWoken == {t \in Sleepers : \E i \in DOMAIN objects[t] : objects[t][i] = notify.obj}
Asleep == Sleepers \ ToBeWoken

\* A signal reaches everybody who waits for the object when it is given, though
\* the list changes under the walk.
SignalReachesSleepers == \A t \in Threads : (t \in ToBeWoken) ~> (t \notin Sleepers)

\* For which objects a sleeper waits, and which of them ended a wait: until the call has
\* returned its synced index tells.
WaitsFor == [t \in Threads |-> IF t \in Asleep THEN ToSet(objects[t]) ELSE {}]
WokenBy ==
    [t \in Threads |->
        IF t \in ToBeWoken THEN notify.obj
        ELSE IF pc[t] = "waiting" /\ t \notin waiting /\ result[t] = "Success"
             THEN objects[t][index[t] + 1]
             ELSE NoObject]

\* Waiting on objects implements the abstract wait: a signal wakes everybody who
\* waits for the object and nobody else, although it takes many steps.
Synchronization == INSTANCE AbstractSynchronization WITH
    asleep <- Asleep, waitsFor <- WaitsFor, wokenBy <- WokenBy
ImplementsSynchronization == Synchronization!Spec
=============================================================================
