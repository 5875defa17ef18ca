--------------------------- MODULE KThreadWaiters ---------------------------
(***************************************************************************)
(* The waiter lists of KThread (src/src/core/hle/kernel/k_thread.cpp and   *)
(* k_thread.h): who waits on whom for which lock, and the priority a thread*)
(* inherits from those that wait on it.                                    *)
(*                                                                         *)
(* A thread table s is one value, the part of every KThread these functions*)
(* read and write; each operator is a function of the code, from the table *)
(* it finds to the table it leaves.  Lower numbers are higher priorities,  *)
(* as on the console.  The code keeps the waiters of a lock in a tree      *)
(* sorted by priority and, between equals, by insertion; a waiter that is  *)
(* sorted again goes behind its equals, so the table keeps no order        *)
(* between equals and the next owner may be any of them.                   *)
(***************************************************************************)
EXTENDS Naturals, FiniteSets

CONSTANTS
    Threads,    \* KThread objects
    NoThread,   \* a null KThread*
    Locks,      \* address keys
    Priorities  \* the thread priorities in use

ASSUME WaitersAssumption ==
    /\ NoThread \notin Threads
    /\ IsFiniteSet(Threads)
    /\ Locks # {}
    /\ Priorities \subseteq Nat

\* m_waiting_lock_info of a thread that waits on nobody.
NotWaiting == [owner |-> NoThread, lock |-> NoThread]

\* m_base_priority, m_priority, and the lock info a thread is a waiter of: its
\* owner and its address key.
ThreadTables ==
    [base : [Threads -> Priorities],
     prio : [Threads -> Priorities],
     waits : [Threads -> [owner : Threads, lock : Locks] \cup {NotWaiting}]]

\* KThread::GetLockOwner.
LockOwner(s, t) == s.waits[t].owner

\* Everybody who waits on t, over all the lock infos in its held list.
Waiters(s, t) == {w \in Threads : LockOwner(s, w) = t}

\* The waiters of one lock info of t.
KeyIgnored(s, t, lock) == Waiters(s, t)
WaitersByKey(s, t, lock) == {w \in Waiters(s, t) : s.waits[w].lock = lock}

\* GetHighestPriorityWaiter: the waiters among which the tree's front is.
Highest(s, waiters) ==
    {w \in waiters : \A v \in waiters : s.prio[w] <= s.prio[v]}

\* The priority t should have: its own, or that of its most urgent waiter.
Inherited(s, t) ==
    LET all == {s.base[t]} \cup {s.prio[w] : w \in Waiters(s, t)}
    IN CHOOSE p \in all : \A q \in all : p <= q

\* One turn of the loop in KThread::RestorePriority: correct the priority of the
\* thread it is at and go on to the thread that one waits on, or stop.
Turn(loop) ==
    IF loop.at = NoThread \/ Inherited(loop.table, loop.at) = loop.table.prio[loop.at]
    THEN [loop EXCEPT !.at = NoThread]
    ELSE [table |-> [loop.table EXCEPT !.prio[loop.at] = Inherited(loop.table, loop.at)],
          at |-> LockOwner(loop.table, loop.at)]

\* KThread::RestorePriority, from t on.  The loop changes no priority twice.
RestorePriority(s, t) ==
    LET turn[n \in 0..Cardinality(Threads)] ==
            IF n = 0 THEN [table |-> s, at |-> t] ELSE Turn(turn[n - 1])
    IN turn[Cardinality(Threads)].table

\* KThread::AddWaiter: w waits on o for lock; o inherits if w is more urgent.
AddWaiter(s, o, w, lock) ==
    LET added == [s EXCEPT !.waits[w] = [owner |-> o, lock |-> lock]]
    IN IF s.prio[w] < s.prio[o] THEN RestorePriority(added, o) ELSE added

\* Is t's priority the one it got from w, and not its own?
NeverInherited(s, t, w) == FALSE
InheritedFrom(s, t, w) == s.prio[t] = s.prio[w] /\ s.prio[t] < s.base[t]

\* KThread::RemoveWaiter: w gives up waiting on o.
RemoveWaiter(s, o, w) ==
    LET removed == [s EXCEPT !.waits[w] = NotWaiting]
    IN IF InheritedFrom(s, o, w) THEN RestorePriority(removed, o) ELSE removed

\* KThread::RemoveWaiterByKey, when t has waiters for lock and n is the first:
\* n leaves the lock info, which becomes n's with the waiters that remain.
RemoveWaiterByKey(s, t, lock, n) ==
    LET rest == WaitersByKey(s, t, lock) \ {n}
        moved == [s EXCEPT !.waits = [w \in Threads |->
                     IF w = n THEN NotWaiting
                     ELSE IF w \in rest THEN [owner |-> n, lock |-> lock]
                     ELSE s.waits[w]]]
    IN IF InheritedFrom(s, t, n) THEN RestorePriority(moved, t) ELSE moved

\* KThread::SetBasePriority.
SetBasePriority(s, t, p) == RestorePriority([s EXCEPT !.base[t] = p], t)

\* KThread::IncreaseBasePriority.
IncreaseBasePriority(s, t, p) == IF s.base[t] > p THEN SetBasePriority(s, t, p) ELSE s

\* The removal of every waiter of t in KThread::Finalize; no priority is
\* restored, t is going away.
ReleaseWaiters(s, t) ==
    [s EXCEPT !.waits = [w \in Threads |->
        IF LockOwner(s, w) = t THEN NotWaiting ELSE s.waits[w]]]

=============================================================================
