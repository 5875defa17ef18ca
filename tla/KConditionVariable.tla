------------------------- MODULE KConditionVariable -------------------------
(***************************************************************************)
(* Guest mutexes and one condition variable, as a guest process uses them  *)
(* through the supervisor calls ArbitrateLock, ArbitrateUnlock,            *)
(* WaitProcessWideKeyAtomic and SignalProcessWideKey                       *)
(* (src/src/core/hle/kernel/k_condition_variable.cpp), over the waiter     *)
(* lists of KThreadWaiters.                                                *)
(*                                                                         *)
(* A mutex is a word of guest memory: 0, or the handle of its owner with   *)
(* HandleWaitMask when the kernel must be told of the unlock.  The guest   *)
(* changes the word with exclusive loads and stores on any core, also while*)
(* another core is inside the kernel; the kernel writes it under the       *)
(* scheduler lock.  Each kernel step below touches guest memory at most    *)
(* once; where a function does so twice it is cut in two, and the scheduler*)
(* lock is held from one part to the next.                                 *)
(*                                                                         *)
(* The guest's half of the protocol is not in this repository: it is what  *)
(* the calls require of it (lock by exclusive access, arbitrate when the   *)
(* word was taken, look again after ArbitrateLock, hold the mutex after a  *)
(* successful wait).                                                       *)
(***************************************************************************)
EXTENDS KThreadWaiters, SequencesExt

CONSTANTS
    Timeouts,   \* of Wait: a subset of {"zero", "finite", "infinite"}
    Counts,     \* of Signal: how many to wake, 0 for all
    Closable,   \* the threads whose handle the guest may close
    Mortal,     \* the threads that may exit or be asked to terminate
    TerminatingPriority     \* TerminatingThreadPriority, above the guest's own

ASSUME ConditionVariableAssumption ==
    /\ Timeouts \subseteq {"zero", "finite", "infinite"}
    /\ Counts \subseteq Nat
    /\ Closable \subseteq Threads
    /\ Mortal \subseteq Threads
    /\ TerminatingPriority \in Priorities

GuestPriorities == Priorities \ {TerminatingPriority}

VARIABLES
    kt,         \* the threads' waiter lists and priorities
    tag,        \* the mutex words
    cvFlag,     \* the word at cv_key: 1 when somebody may be waiting
    tree,       \* KConditionVariable::m_tree, for one cv_key, in order
    schedLock,  \* holder of the scheduler lock
    pc,         \* where each thread is
    addr,       \* the mutex a thread is about: its argument, or m_address_key
    seen,       \* the owner a thread read in the word, to give to ArbitrateLock
    held,       \* the mutexes the guest code of a thread believes it holds
    timed,      \* the threads whose wait has a timeout task
    queue,      \* m_wait_queue: "none", "address" or "condvar"
    result,     \* m_wait_result
    local,      \* locals of the call that holds the scheduler lock
    handles,    \* the threads with an open handle in the process
    opened,     \* the thread WaitForAddress keeps a reference to
    termReq,    \* m_termination_requested
    nullDeref   \* a null lock owner was dereferenced

guestVars == <<tag, cvFlag>>
waitVars == <<kt, tree, timed, queue, result>>
callVars == <<schedLock, pc, addr, seen, held, local>>
lifeVars == <<handles, opened, termReq, nullDeref>>
vars == <<guestVars, waitVars, callVars, lifeVars>>

Owners == Threads \cup {NoThread}
Word == [owner : Owners, mask : BOOLEAN]
Free == [owner |-> NoThread, mask |-> FALSE]
NoLocal == [next |-> NoThread, it |-> NoThread, more |-> FALSE, left |-> 0]

Labels == {"idle", "lock", "arbitrate", "recheck", "unlock", "unlockStore",
           "wait", "waitStore", "waiting", "signal", "dying", "dead", "gone"}

TypeOK ==
    /\ kt \in ThreadTables
    /\ tag \in [Locks -> Word]
    /\ cvFlag \in {0, 1}
    /\ tree \in Seq(Threads)
    /\ schedLock \in Owners
    /\ pc \in [Threads -> Labels]
    /\ addr \in [Threads -> Locks]
    /\ seen \in [Threads -> Owners]
    /\ held \in [Threads -> SUBSET Locks]
    /\ timed \subseteq Threads
    /\ queue \in [Threads -> {"none", "address", "condvar"}]
    /\ result \in [Threads -> {"Success", "TimedOut", "Terminated", "InvalidState"}]
    /\ local \in [next : Owners, it : Owners, more : BOOLEAN, left : Nat]
    /\ handles \subseteq Threads
    /\ opened \in [Threads -> Owners]
    /\ termReq \in [Threads -> BOOLEAN]
    /\ nullDeref \in BOOLEAN

AnyLock == CHOOSE m \in Locks : TRUE

Init ==
    /\ \E b \in [Threads -> GuestPriorities] :
          kt = [base |-> b, prio |-> b, waits |-> [t \in Threads |-> NotWaiting]]
    /\ tag = [m \in Locks |-> Free]
    /\ cvFlag = 0
    /\ tree = <<>>
    /\ schedLock = NoThread
    /\ pc = [t \in Threads |-> "idle"]
    /\ addr = [t \in Threads |-> AnyLock]
    /\ seen = [t \in Threads |-> NoThread]
    /\ held = [t \in Threads |-> {}]
    /\ timed = {}
    /\ queue = [t \in Threads |-> "none"]
    /\ result = [t \in Threads |-> "Success"]
    /\ local = NoLocal
    /\ handles = Threads
    /\ opened = [t \in Threads |-> NoThread]
    /\ termReq = [t \in Threads |-> FALSE]
    /\ nullDeref = FALSE

SchedulerFree == schedLock = NoThread
At(t, label) == pc[t] = label
Goto(t, label) == pc' = [pc EXCEPT ![t] = label]

-----------------------------------------------------------------------------
(* m_tree: sorted by priority, a thread that is inserted goes behind its    *)
(* equals.                                                                 *)

Inserted(q, s, t) ==
    InsertAt(q, Cardinality({i \in DOMAIN q : s.prio[q[i]] <= s.prio[t]}) + 1, t)

\* The tree without t.
Without(q, t) ==
    IF t \in ToSet(q) THEN RemoveAt(q, CHOOSE i \in DOMAIN q : q[i] = t) ELSE q

\* BeforeUpdatePriority and AfterUpdatePriority, for the thread of the tree, at
\* most one, whose priority is another in the table s than before.
Resorted(q, before, s) ==
    LET moved == {t \in ToSet(q) : s.prio[t] # before.prio[t]}
    IN IF moved = {} THEN q
       ELSE LET t == CHOOSE t \in moved : TRUE IN Inserted(Without(q, t), s, t)

\* An iterator: the first thread of the tree, the one after t, NoThread at the end.
Begin(q) == IF q = <<>> THEN NoThread ELSE Head(q)
After(q, t) ==
    LET i == CHOOSE i \in DOMAIN q : q[i] = t
    IN IF i = Len(q) THEN NoThread ELSE q[i + 1]

-----------------------------------------------------------------------------
(* The guest, outside the kernel.                                          *)

\* The guest starts to lock a mutex it does not hold.
GuestLock(t, m) ==
    /\ At(t, "idle")
    /\ m \notin held[t]
    /\ addr' = [addr EXCEPT ![t] = m]
    /\ Goto(t, "lock")
    /\ UNCHANGED <<guestVars, waitVars, schedLock, seen, held, local, lifeVars>>

\* The guest's exclusive load and store: take a free word, or leave the mask
\* in it for the owner and turn to the kernel.
GuestTry(t) ==
    LET m == addr[t] IN
    /\ At(t, "lock")
    /\ IF tag[m] = Free
       THEN /\ tag' = [tag EXCEPT ![m].owner = t]
            /\ held' = [held EXCEPT ![t] = @ \cup {m}]
            /\ Goto(t, "idle")
            /\ UNCHANGED seen
       ELSE /\ tag' = [tag EXCEPT ![m].mask = TRUE]
            /\ seen' = [seen EXCEPT ![t] = tag[m].owner]
            /\ Goto(t, "arbitrate")
            /\ UNCHANGED held
    /\ UNCHANGED <<cvFlag, waitVars, schedLock, addr, local, lifeVars>>

\* After ArbitrateLock the guest looks whether the word names it.
GuestRecheck(t) ==
    /\ At(t, "recheck")
    /\ IF tag[addr[t]].owner = t
       THEN held' = [held EXCEPT ![t] = @ \cup {addr[t]}] /\ Goto(t, "idle")
       ELSE UNCHANGED held /\ Goto(t, "lock")
    /\ UNCHANGED <<guestVars, waitVars, schedLock, addr, seen, local, lifeVars>>

\* The guest gives up a mutex: its word back to 0 when nobody asked for the
\* kernel, ArbitrateUnlock otherwise.
GuestUnlock(t, m) ==
    /\ At(t, "idle")
    /\ m \in held[t]
    /\ held' = [held EXCEPT ![t] = @ \ {m}]
    /\ IF tag[m] = [owner |-> t, mask |-> FALSE]
       THEN /\ tag' = [tag EXCEPT ![m] = Free]
            /\ UNCHANGED <<addr, pc>>
       ELSE /\ addr' = [addr EXCEPT ![t] = m]
            /\ Goto(t, "unlock")
            /\ UNCHANGED tag
    /\ UNCHANGED <<cvFlag, waitVars, schedLock, seen, local, lifeVars>>

\* The guest waits on the condition variable with a mutex it holds.
GuestWait(t, m) ==
    /\ Timeouts # {}
    /\ At(t, "idle")
    /\ m \in held[t]
    /\ held' = [held EXCEPT ![t] = @ \ {m}]
    /\ addr' = [addr EXCEPT ![t] = m]
    /\ Goto(t, "wait")
    /\ UNCHANGED <<guestVars, waitVars, schedLock, seen, local, lifeVars>>

-----------------------------------------------------------------------------
(* The supervisor calls.                                                   *)

\* KThreadQueue::EndWait and CancelWait: the thread gets its result and is
\* runnable, its timeout task is cancelled.
Wake(t, res) ==
    /\ queue' = [queue EXCEPT ![t] = "none"]
    /\ result' = [result EXCEPT ![t] = res]
    /\ timed' = timed \ {t}

NoWake == UNCHANGED <<queue, result, timed>>

\* WaitForAddress returns without waiting.
WaitForAddressReturn(t) ==
    /\ At(t, "arbitrate")
    /\ SchedulerFree
    /\ \/ termReq[t] /\ Goto(t, "dying")
       \/ /\ ~termReq[t]
          /\ tag[addr[t]] # [owner |-> seen[t], mask |-> TRUE]
          /\ Goto(t, "recheck")
       \/ /\ ~termReq[t]
          /\ tag[addr[t]] = [owner |-> seen[t], mask |-> TRUE]
          /\ seen[t] \notin handles
          /\ Goto(t, "dying")
    /\ seen' = [seen EXCEPT ![t] = NoThread]
    /\ UNCHANGED <<guestVars, waitVars, schedLock, addr, held, local, lifeVars>>

\* WaitForAddress: open the owner, become its waiter, wait.
WaitForAddress(t) ==
    /\ At(t, "arbitrate")
    /\ SchedulerFree
    /\ ~termReq[t]
    /\ tag[addr[t]] = [owner |-> seen[t], mask |-> TRUE]
    /\ seen[t] \in handles
    /\ opened' = [opened EXCEPT ![t] = seen[t]]
    /\ kt' = AddWaiter(kt, seen[t], t, addr[t])
    /\ tree' = Resorted(tree, kt, kt')
    /\ queue' = [queue EXCEPT ![t] = "address"]
    /\ seen' = [seen EXCEPT ![t] = NoThread]
    /\ Goto(t, "waiting")
    /\ UNCHANGED <<guestVars, timed, result, schedLock, addr, held, local,
                   handles, termReq, nullDeref>>

\* RemoveUserWaiterByKey on the calling thread for its mutex: the table it
\* leaves, and the locals next_owner_thread and has_waiters.
PassOn(t) ==
    LET waiters == WaitersByKey(kt, t, addr[t]) IN
    \/ /\ waiters = {}
       /\ local' = NoLocal
       /\ UNCHANGED <<kt, tree>>
       /\ NoWake
    \/ \E n \in Highest(kt, waiters) :
       /\ local' = [NoLocal EXCEPT !.next = n, !.more = waiters # {n}]
       /\ kt' = RemoveWaiterByKey(kt, t, addr[t], n)
       /\ tree' = Resorted(tree, kt, kt')
       /\ Wake(n, "Success")

\* The word that gives the mutex to the next owner.
MaskDropped == [owner |-> local.next, mask |-> FALSE]
NextValue == [owner |-> local.next, mask |-> local.more]

\* SignalToAddress: choose the next owner ...
SignalToAddress(t) ==
    /\ At(t, "unlock")
    /\ SchedulerFree
    /\ PassOn(t)
    /\ schedLock' = t
    /\ Goto(t, "unlockStore")
    /\ UNCHANGED <<guestVars, addr, seen, held, lifeVars>>

\* ... and write the word.
SignalToAddressStore(t) ==
    /\ At(t, "unlockStore")
    /\ tag' = [tag EXCEPT ![addr[t]] = NextValue]
    /\ local' = NoLocal
    /\ schedLock' = NoThread
    /\ Goto(t, IF termReq[t] THEN "dying" ELSE "idle")
    /\ UNCHANGED <<cvFlag, waitVars, addr, seen, held, lifeVars>>

\* Wait by a thread that is to terminate.
WaitTerminating(t) ==
    /\ At(t, "wait")
    /\ SchedulerFree
    /\ termReq[t]
    /\ Goto(t, "dying")
    /\ UNCHANGED <<guestVars, waitVars, schedLock, addr, seen, held, local, lifeVars>>

\* Wait: pass the mutex on, and tell that the condition variable has a waiter ...
Wait(t) ==
    /\ At(t, "wait")
    /\ SchedulerFree
    /\ ~termReq[t]
    /\ PassOn(t)
    /\ cvFlag' = 1
    /\ schedLock' = t
    /\ Goto(t, "waitStore")
    /\ UNCHANGED <<tag, addr, seen, held, lifeVars>>

\* ... write the mutex word, and wait unless the timeout is zero.
WaitStore(t, timeout) ==
    /\ At(t, "waitStore")
    /\ tag' = [tag EXCEPT ![addr[t]] = NextValue]
    /\ IF timeout = "zero"
       THEN /\ Goto(t, "lock")
            /\ UNCHANGED <<tree, queue, timed>>
       ELSE /\ tree' = Inserted(tree, kt, t)
            /\ queue' = [queue EXCEPT ![t] = "condvar"]
            /\ timed' = IF timeout = "finite" THEN timed \cup {t} ELSE timed
            /\ Goto(t, "waiting")
    /\ local' = NoLocal
    /\ schedLock' = NoThread
    /\ UNCHANGED <<cvFlag, kt, result, addr, seen, held, lifeVars>>

\* Signal takes the scheduler lock.  The guest may do without the call while
\* the word at cv_key says that nobody waits.
Signal(t, count) ==
    /\ At(t, "idle")
    /\ SchedulerFree
    /\ cvFlag = 1
    /\ local' = [NoLocal EXCEPT !.it = Begin(tree), !.left = count, !.more = count = 0]
    /\ schedLock' = t
    /\ Goto(t, "signal")
    /\ UNCHANGED <<guestVars, waitVars, addr, seen, held, lifeVars>>

\* Signal's loop condition on its count.
MoreToSignal == local.more \/ local.left > 0

\* The word at cv_key after Signal, whose iterator has come to it.
FlagAfterSignal(it) == IF it = NoThread THEN 0 ELSE cvFlag

\* One round of Signal's loop with SignalImpl: w leaves the tree, and its mutex
\* is claimed for it; w is woken with it, or waits on the mutex's owner, which
\* may be sorted again in the tree behind the iterator's back.
SignalOne(t) ==
    LET w == local.it
        m == addr[w]
        o == tag[m].owner
        rest == Without(tree, w)
    IN
    /\ At(t, "signal")
    /\ w # NoThread
    /\ MoreToSignal
    /\ \/ /\ tag[m] = Free
          /\ tag' = [tag EXCEPT ![m].owner = w]
          /\ Wake(w, "Success")
          /\ tree' = rest
          /\ UNCHANGED kt
       \/ /\ tag[m] # Free
          /\ tag' = [tag EXCEPT ![m].mask = TRUE]
          /\ \/ /\ o \in handles
                /\ kt' = AddWaiter(kt, o, w, m)
                /\ tree' = Resorted(rest, kt, kt')
                /\ NoWake
             \/ /\ o \notin handles
                /\ tree' = rest
                /\ Wake(w, "InvalidState")
                /\ UNCHANGED kt
    /\ local' = [local EXCEPT !.it = After(tree, w),
                              !.left = IF local.more THEN @ ELSE @ - 1]
    /\ UNCHANGED <<cvFlag, schedLock, pc, addr, seen, held, lifeVars>>

\* The end of Signal: without waiters from the iterator on, say so at cv_key.
SignalEnd(t) ==
    /\ At(t, "signal")
    /\ local.it = NoThread \/ ~MoreToSignal
    /\ cvFlag' = FlagAfterSignal(local.it)
    /\ local' = NoLocal
    /\ schedLock' = NoThread
    /\ Goto(t, IF termReq[t] THEN "dying" ELSE "idle")
    /\ UNCHANGED <<tag, waitVars, addr, seen, held, lifeVars>>

\* A woken thread goes back to the guest with its result: WaitForAddress closes
\* the thread it opened; after Wait the guest holds its mutex, or after a
\* timeout locks it again.  A thread that is to terminate never gets there.
WaitReturn(t) ==
    /\ At(t, "waiting")
    /\ queue[t] = "none"
    /\ SchedulerFree
    /\ opened' = [opened EXCEPT ![t] = NoThread]
    /\ \/ /\ termReq[t] \/ result[t] \in {"Terminated", "InvalidState"}
          /\ Goto(t, "dying")
          /\ UNCHANGED held
       \/ /\ ~termReq[t]
          /\ result[t] = "Success"
          /\ IF opened[t] # NoThread
             THEN UNCHANGED held /\ Goto(t, "recheck")
             ELSE held' = [held EXCEPT ![t] = @ \cup {addr[t]}] /\ Goto(t, "idle")
       \/ /\ ~termReq[t]
          /\ result[t] = "TimedOut"
          /\ Goto(t, "lock")
          /\ UNCHANGED held
    /\ result' = [result EXCEPT ![t] = "Success"]
    /\ UNCHANGED <<guestVars, kt, tree, timed, queue, schedLock, addr, seen, local,
                   handles, termReq, nullDeref>>

-----------------------------------------------------------------------------
(* Cancellation: timeouts, termination, the death of an owner.             *)

\* The CancelWait of either wait queue, for a thread that waits, on table s
\* and tree q: leave the owner, leave the tree, wake up with res.
StayInTree(s, q, t, res) ==
    LET o == LockOwner(s, t) IN
    /\ kt' = IF o # NoThread THEN RemoveWaiter(s, o, t) ELSE s
    /\ tree' = Resorted(q, s, kt')
    /\ Wake(t, res)
    /\ UNCHANGED nullDeref

CancelWait(s, q, t, res) ==
    LET o == LockOwner(s, t) IN
    /\ kt' = IF o # NoThread THEN RemoveWaiter(s, o, t) ELSE s
    /\ nullDeref' = (nullDeref \/ (o = NoThread /\ queue[t] = "address"))
    /\ tree' = Resorted(Without(q, t), s, kt')
    /\ Wake(t, res)

\* KThread::OnTimer.
Timeout(t) ==
    /\ t \in timed
    /\ SchedulerFree
    /\ CancelWait(kt, tree, t, "TimedOut")
    /\ UNCHANGED <<guestVars, callVars, handles, opened, termReq>>

\* KThread::SetBasePriority.
SetPriority(t, p) ==
    /\ SchedulerFree
    /\ p # kt.base[t]
    /\ pc[t] \notin {"dead", "gone"}
    /\ kt' = SetBasePriority(kt, t, p)
    /\ tree' = Resorted(tree, kt, kt')
    /\ UNCHANGED <<guestVars, timed, queue, result, callVars, lifeVars>>

\* KThread::RequestTerminate: the thread gets a priority above all others, and
\* a wait is cancelled.
RequestTerminate(t) ==
    LET raised == IncreaseBasePriority(kt, t, TerminatingPriority)
        sorted == Resorted(tree, kt, raised)
    IN
    /\ t \in Mortal
    /\ SchedulerFree
    /\ ~termReq[t]
    /\ termReq' = [termReq EXCEPT ![t] = TRUE]
    /\ IF queue[t] # "none"
       THEN CancelWait(raised, sorted, t, "Terminated")
       ELSE /\ kt' = raised
            /\ tree' = sorted
            /\ UNCHANGED <<queue, result, timed, nullDeref>>
    /\ UNCHANGED <<guestVars, callVars, handles, opened>>

\* KThread::Exit: by the thread's own call, in user mode, or in a supervisor
\* call's return when it is to terminate.  Its mutexes stay as they are.
Exit(t) ==
    /\ \/ t \in Mortal /\ pc[t] \in {"idle", "lock", "recheck"}
       \/ At(t, "dying")
    /\ SchedulerFree
    /\ Goto(t, "dead")
    /\ UNCHANGED <<guestVars, waitVars, schedLock, addr, seen, held, local, lifeVars>>

\* The guest closes its handle of a thread.
CloseHandle(t) ==
    /\ t \in Closable \cap handles
    /\ handles' = handles \ {t}
    /\ UNCHANGED <<guestVars, waitVars, callVars, opened, termReq, nullDeref>>

\* KThread::Finalize, once nobody has a reference: every waiter is taken off
\* and its wait cancelled.  The wait queue of WaitForAddress asks the waiter
\* for its lock owner, which it has no more.
Finalize(t) ==
    LET waiters == Waiters(kt, t) IN
    /\ At(t, "dead")
    /\ SchedulerFree
    /\ t \notin handles
    /\ \A w \in Threads : opened[w] # t
    /\ kt' = ReleaseWaiters(kt, t)
    /\ nullDeref' = (nullDeref \/ \E w \in waiters : queue[w] = "address")
    /\ queue' = [w \in Threads |-> IF w \in waiters THEN "none" ELSE queue[w]]
    /\ result' = [w \in Threads |-> IF w \in waiters THEN "InvalidState" ELSE result[w]]
    /\ timed' = timed \ waiters
    /\ Goto(t, "gone")
    /\ UNCHANGED <<guestVars, tree, schedLock, addr, seen, held, local,
                   handles, opened, termReq>>

-----------------------------------------------------------------------------
Guest(t) ==
    \/ GuestTry(t) \/ GuestRecheck(t)
    \/ \E m \in Locks : GuestLock(t, m) \/ GuestUnlock(t, m) \/ GuestWait(t, m)
    \/ \E count \in Counts : Signal(t, count)

Kernel(t) ==
    \/ WaitForAddressReturn(t) \/ WaitForAddress(t)
    \/ SignalToAddress(t) \/ SignalToAddressStore(t)
    \/ WaitTerminating(t) \/ Wait(t) \/ \E timeout \in Timeouts : WaitStore(t, timeout)
    \/ SignalOne(t) \/ SignalEnd(t)
    \/ WaitReturn(t)

Environment(t) ==
    \/ Timeout(t)
    \/ \E p \in GuestPriorities : SetPriority(t, p)
    \/ RequestTerminate(t) \/ Exit(t) \/ CloseHandle(t) \/ Finalize(t)

Next == \E t \in Threads : Guest(t) \/ Kernel(t) \/ Environment(t)

Spec == Init /\ [][Next]_vars

-----------------------------------------------------------------------------
(* Properties.                                                             *)

\* Mutual exclusion between guest threads: whoever believes it holds a mutex is
\* named by its word, whether it took it itself, was handed it by
\* SignalToAddress or Wait, or was given it by SignalImpl.
HolderInWord == \A t \in Threads : \A m \in held[t] : tag[m].owner = t

\* No lost wake-up of a mutex: outside the kernel's critical sections the word
\* of a mutex somebody waits for names the thread it is waited for on, with the
\* mask that sends that thread's unlock to the kernel.
WaitersInWord ==
    SchedulerFree => \A w \in Threads :
        LockOwner(kt, w) # NoThread =>
            tag[kt.waits[w].lock] = [owner |-> LockOwner(kt, w), mask |-> TRUE]

\* No lost signal: the guest, which looks at cv_key to do without the call,
\* reads 1 while somebody waits on the condition variable.
WaitersInFlag == tree # <<>> => cvFlag = 1

InTree(t) == t \in ToSet(tree)

\* A thread that waits is in one place: on a mutex's owner, or in the tree when
\* it waits for a signal; and nobody else is in either.
WaitsInOnePlace ==
    \A t \in Threads :
        LET onOwner == LockOwner(kt, t) # NoThread IN
        CASE queue[t] = "none" -> ~onOwner /\ ~InTree(t)
          [] queue[t] = "address" -> onOwner /\ ~InTree(t)
          [] queue[t] = "condvar" -> onOwner # InTree(t)

\* What the guest reads without a call says what the kernel knows: each mutex word
\* names its holder and shows its waiters, and cv_key shows those of the condition
\* variable.
WordsExact == HolderInWord /\ WaitersInWord /\ WaitersInFlag

\* Priority inheritance is exact between any two steps: each thread runs at the
\* most urgent of its own priority and that of everybody who waits on it, in
\* spite of the cases in which the code does without RestorePriority.
Inheritance ==
    \A t \in Threads : pc[t] # "gone" => kt.prio[t] = Inherited(kt, t)

\* The wait queue of WaitForAddress is only asked to cancel the wait of a thread
\* that has a lock owner, which it dereferences unasked.
LockOwnerNotNull == ~nullDeref

\* No timeout task outlives the wait it was set for: it would cut short the
\* thread's next wait, which may have no timeout at all.
TimerOnlyWhileWaiting == \A t \in timed : queue[t] = "condvar"

\* Each thread is where its wait says, its timeout task too, and the variables
\* have their types.
WellFormed == TypeOK /\ WaitsInOnePlace /\ TimerOnlyWhileWaiting

Wanting(m) ==
    {t \in Threads : /\ addr[t] = m
                     /\ pc[t] \in {"lock", "arbitrate", "recheck", "waiting"}
                     /\ tag[m].owner # t}

Inside(m) == {t \in Threads : m \in held[t]}

Mutex(m) ==
    INSTANCE AbstractLock
    WITH holder <- tag[m].owner, wanting <- Wanting(m), inside <- Inside(m)

\* A guest mutex is a lock, the condition variable included: its word names one
\* holder after another, each of which wanted it, and passes on only after the
\* holder's guest code has left.
ImplementsLock ==
    /\ \A m \in Locks : Mutex(m)!Init
    /\ [][\A m \in Locks : [Mutex(m)!Next]_(Mutex(m)!vars)]_vars
=============================================================================
