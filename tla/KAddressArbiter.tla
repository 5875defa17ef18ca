--------------------------- MODULE KAddressArbiter ---------------------------
(***************************************************************************)
(* The address arbiter (src/src/core/hle/kernel/k_address_arbiter.cpp):    *)
(* threads wait while a word of guest memory has some value, and other     *)
(* threads signal the word's address, two of the three kinds of signal with*)
(* a change of the word.                                                   *)
(*                                                                         *)
(* The calls run under the scheduler lock, but the guest changes the words *)
(* on other cores all the while.  A call reads or updates the word once, by*)
(* an exclusive access that is tried again until it succeeds; a wait is two*)
(* steps, the access and what follows from it, with the lock held from one *)
(* to the other.  For a signal nothing the guest can see lies between the  *)
(* access and the wake-ups, and it is one step.                            *)
(*                                                                         *)
(* What the guest does is not in this repository: it calls the kernel in   *)
(* any order it likes.  With a word it uses as a futex it is consistent:   *)
(* whatever changes the word is followed by a signal to all, or is one, and*)
(* no wait changes it.                                                     *)
(***************************************************************************)
EXTENDS Integers, FiniteSets, SequencesExt

CONSTANTS
    Threads,    \* the threads of the process
    NoThread,   \* nobody
    Addresses,  \* the words
    Half,       \* half the number of values of a word, 2^31 in the code
    Priorities, \* the thread priorities in use, lower numbers first
    Waits,      \* the kinds of wait the guest uses
    Signals,    \* the kinds of signal the guest uses
    Counts,     \* how many a signal is to wake, 0 for all
    Timeouts,   \* of waits: a subset of {"zero", "finite", "infinite"}
    Mortal      \* the threads that may be asked to terminate

ASSUME ArbiterAssumption ==
    /\ NoThread \notin Threads
    /\ Addresses # {}
    /\ Half \in Nat \ {0}
    /\ Priorities \subseteq Nat
    /\ Waits \subseteq {"WaitIfLessThan", "DecrementAndWaitIfLessThan", "WaitIfEqual"}
    /\ Signals \subseteq {"Signal", "SignalAndIncrementIfEqual",
                          "SignalAndModifyByWaitingCountIfEqual"}
    /\ Counts \subseteq Nat
    /\ Timeouts \subseteq {"zero", "finite", "infinite"}
    /\ Mortal \subseteq Threads

VARIABLES
    futexes,    \* the words the guest uses as futexes; it never changes its mind
    word,       \* the guest's memory
    tree,       \* m_tree: the threads that wait, in order
    prio,       \* KThread::m_priority
    schedLock,  \* holder of the scheduler lock
    pc,         \* where each thread is
    call,       \* the arguments of the call a thread is in, or about to make
    timed,      \* the threads that have a timer task
    result,     \* m_wait_result
    termReq     \* m_termination_requested

vars == <<futexes, word, tree, prio, schedLock, pc, call, timed, result, termReq>>

\* Two's complement of the given width.
Int32 == -Half .. (Half - 1)
Unbounded(v) == v
Wrapped(v) == ((v + Half) % (2 * Half)) - Half

Kinds == Waits \cup Signals \cup {"Signal", "none"}
NoCall == [kind |-> "none", addr |-> CHOOSE a \in Addresses : TRUE, value |-> 0,
           count |-> 0, timeout |-> "zero"]

TypeOK ==
    /\ futexes \subseteq Addresses
    /\ word \in [Addresses -> Int32]
    /\ tree \in Seq(Threads)
    /\ prio \in [Threads -> Priorities]
    /\ schedLock \in Threads \cup {NoThread}
    /\ pc \in [Threads -> {"guest", "signal", "begin", "waiting", "dead"}]
    /\ call \in [Threads -> [kind : Kinds, addr : Addresses, value : Int32,
                             count : Nat, timeout : Timeouts \cup {"zero"}]]
    /\ timed \subseteq ToSet(tree)
    /\ result \in [Threads -> {"Success", "TimedOut", "Terminated"}]
    /\ termReq \subseteq Mortal

Init ==
    /\ futexes \in SUBSET Addresses
    /\ word = [a \in Addresses |-> 0]
    /\ tree = <<>>
    /\ prio \in [Threads -> Priorities]
    /\ schedLock = NoThread
    /\ pc = [t \in Threads |-> "guest"]
    /\ call = [t \in Threads |-> NoCall]
    /\ timed = {}
    /\ result = [t \in Threads |-> "Success"]
    /\ termReq = {}

SchedulerFree == schedLock = NoThread
Waiting(t) == t \in ToSet(tree)

-----------------------------------------------------------------------------
(* m_tree: by address and, for one address, by priority; a thread that is  *)
(* inserted goes behind its equals.  The order of different addresses shows*)
(* nowhere, and is left out.                                               *)

Before(p, u, t) == call[u].addr = call[t].addr /\ p[u] <= p[t]
LastBefore(q, p, t) ==
    CHOOSE i \in 0..Len(q) : /\ i = 0 \/ Before(p, q[i], t)
                             /\ \A j \in (i + 1)..Len(q) : ~Before(p, q[j], t)
Inserted(q, p, t) == InsertAt(q, LastBefore(q, p, t) + 1, t)

\* The threads of ts in the order of q.
Among(q, ts) ==
    LET upTo[i \in 0..Len(q)] ==
            IF i = 0 THEN <<>>
            ELSE IF q[i] \in ts THEN Append(upTo[i - 1], q[i])
            ELSE upTo[i - 1]
    IN upTo[Len(q)]

\* From nfind_key on, as long as the key is addr.
WaitersAt(addr) == Among(tree, {t \in Threads : call[t].addr = addr})

\* The threads a signal with this count wakes.
Woken(addr, count) ==
    LET ws == WaitersAt(addr)
    IN ToSet(IF count <= 0 \/ count > Len(ws) THEN ws ELSE SubSeq(ws, 1, count))

Wake(ts, r) ==
    /\ tree' = Among(tree, Threads \ ts)
    /\ timed' = timed \ ts
    /\ result' = [t \in Threads |-> IF t \in ts THEN r ELSE result[t]]

-----------------------------------------------------------------------------
(* The guest.                                                              *)

\* The guest stores to a word, and goes on to signal everybody who waits for it.
GuestStore(t, a, v) ==
    /\ pc[t] = "guest"
    /\ word[a] # v
    /\ word' = [word EXCEPT ![a] = v]
    /\ pc' = [pc EXCEPT ![t] = "signal"]
    /\ call' = [call EXCEPT ![t] = [NoCall EXCEPT !.kind = "Signal", !.addr = a]]
    /\ UNCHANGED <<tree, prio, schedLock, timed, result, termReq>>

-----------------------------------------------------------------------------
(* SignalToAddress.                                                        *)

\* A signal of kind Signal, after a store or without one.
Signal(t) ==
    /\ pc[t] = "signal"
    /\ SchedulerFree
    /\ Wake(Woken(call[t].addr, call[t].count), "Success")
    /\ pc' = [pc EXCEPT ![t] = "guest"]
    /\ call' = [call EXCEPT ![t] = NoCall]
    /\ UNCHANGED <<word, prio, schedLock, termReq>>

\* UpdateIfEqual succeeds: the word is value and becomes new.  Otherwise the call
\* returns InvalidState and has changed nothing.
UpdateIfEqual(a, value, new) ==
    /\ word[a] = value
    /\ word' = [word EXCEPT ![a] = new]

\* A signal that changes a futex is one to all.
AllIfFutex(a, count) == a \in futexes => count <= 0

SignalAndIncrementIfEqual(t, a, value, count) ==
    /\ pc[t] = "guest"
    /\ AllIfFutex(a, count)
    /\ SchedulerFree
    /\ UpdateIfEqual(a, value, Wrapped(value + 1))
    /\ Wake(Woken(a, count), "Success")
    /\ UNCHANGED <<prio, schedLock, pc, call, termReq>>

\* The new value, from a look at the waiters: the first, and how many there are
\* behind it.
AtMostCount(others, count) == others <= count
FewerThanCount(others, count) == others < count
NewValue(a, value, count) ==
    LET waiters == Len(WaitersAt(a))
    IN IF waiters = 0 THEN Wrapped(value + 1)
       ELSE IF count <= 0 THEN Wrapped(value - 2)
       ELSE IF FewerThanCount(waiters - 1, count) THEN Wrapped(value - 1)
       ELSE value

SignalAndModifyByWaitingCountIfEqual(t, a, value, count) ==
    /\ pc[t] = "guest"
    /\ AllIfFutex(a, count)
    /\ SchedulerFree
    /\ UpdateIfEqual(a, value, NewValue(a, value, count))
    /\ Wake(Woken(a, count), "Success")
    /\ UNCHANGED <<prio, schedLock, pc, call, termReq>>

-----------------------------------------------------------------------------
(* WaitForAddress.                                                         *)

\* The word lets a wait of this kind go on.
Holds(kind, v, value) == IF kind = "WaitIfEqual" THEN v = value ELSE v < value

\* The word is read, or decremented, under the scheduler lock; a thread that is to
\* terminate has returned before, one whose condition fails returns now and has
\* changed nothing.
ReadAnyTime == TRUE
ReadUnderLock == SchedulerFree
WaitReads(t, kind, a, value, timeout) ==
    /\ pc[t] = "guest"
    /\ a \in futexes => kind # "DecrementAndWaitIfLessThan"
    /\ ReadUnderLock
    /\ t \notin termReq
    /\ Holds(kind, word[a], value)
    /\ IF kind = "DecrementAndWaitIfLessThan"
       THEN word' = [word EXCEPT ![a] = Wrapped(@ - 1)]
       ELSE UNCHANGED word
    /\ IF timeout = "zero"
       THEN UNCHANGED <<schedLock, pc, call>>
       ELSE /\ schedLock' = t
            /\ pc' = [pc EXCEPT ![t] = "begin"]
            /\ call' = [call EXCEPT ![t] = [kind |-> kind, addr |-> a, value |-> value,
                                            count |-> 0, timeout |-> timeout]]
    /\ UNCHANGED <<tree, prio, timed, result, termReq>>

WaitBegins(t) ==
    /\ pc[t] = "begin"
    /\ tree' = Inserted(tree, prio, t)
    /\ timed' = IF call[t].timeout = "finite" THEN timed \cup {t} ELSE timed
    /\ schedLock' = NoThread
    /\ pc' = [pc EXCEPT ![t] = "waiting"]
    /\ UNCHANGED <<word, prio, call, result, termReq>>

WaitReturn(t) ==
    /\ pc[t] = "waiting"
    /\ ~Waiting(t)
    /\ SchedulerFree
    /\ pc' = [pc EXCEPT ![t] = "guest"]
    /\ call' = [call EXCEPT ![t] = NoCall]
    /\ result' = [result EXCEPT ![t] = "Success"]
    /\ UNCHANGED <<word, tree, prio, schedLock, timed, termReq>>

-----------------------------------------------------------------------------
(* What the rest of the kernel does to a waiter.                           *)

\* ThreadQueueImplForKAddressArbiter::CancelWait, for a timeout or a termination.
Timeout(t) ==
    /\ SchedulerFree
    /\ t \in timed
    /\ Wake({t}, "TimedOut")
    /\ UNCHANGED <<word, prio, schedLock, pc, call, termReq>>

RequestTerminate(t) ==
    /\ SchedulerFree
    /\ t \in Mortal \ termReq
    /\ termReq' = termReq \cup {t}
    /\ IF Waiting(t) THEN Wake({t}, "Terminated") ELSE UNCHANGED <<tree, timed, result>>
    /\ UNCHANGED <<word, prio, schedLock, pc, call>>

Exit(t) ==
    /\ pc[t] = "guest"
    /\ t \in termReq
    /\ pc' = [pc EXCEPT ![t] = "dead"]
    /\ UNCHANGED <<word, tree, prio, schedLock, call, timed, result, termReq>>

\* A change of priority sorts a waiter again.
NotResorted(p, t) == tree
Resorted(p, t) ==
    IF Waiting(t) THEN Inserted(Among(tree, Threads \ {t}), p, t) ELSE tree
SetPriority(t, p) ==
    /\ SchedulerFree
    /\ p # prio[t]
    /\ prio' = [prio EXCEPT ![t] = p]
    /\ tree' = Resorted(prio', t)
    /\ UNCHANGED <<word, schedLock, pc, call, timed, result, termReq>>

-----------------------------------------------------------------------------

\* A guest that signals without a store.
GuestSignal(t, a, count) ==
    /\ pc[t] = "guest"
    /\ pc' = [pc EXCEPT ![t] = "signal"]
    /\ call' = [call EXCEPT ![t] = [NoCall EXCEPT !.kind = "Signal", !.addr = a,
                                                  !.count = count]]
    /\ UNCHANGED <<word, tree, prio, schedLock, timed, result, termReq>>

Next ==
    /\ UNCHANGED futexes
    /\ \E t \in Threads :
        \/ \E a \in Addresses, v \in Int32 : GuestStore(t, a, v)
        \/ Signal(t)
        \/ \E a \in Addresses, count \in Counts :
              \/ "Signal" \in Signals /\ GuestSignal(t, a, count)
              \/ \E v \in Int32 :
                    \/ /\ "SignalAndIncrementIfEqual" \in Signals
                       /\ SignalAndIncrementIfEqual(t, a, v, count)
                    \/ /\ "SignalAndModifyByWaitingCountIfEqual" \in Signals
                       /\ SignalAndModifyByWaitingCountIfEqual(t, a, v, count)
        \/ \E kind \in Waits, a \in Addresses, v \in Int32, timeout \in Timeouts :
              WaitReads(t, kind, a, v, timeout)
        \/ WaitBegins(t)
        \/ WaitReturn(t)
        \/ Timeout(t)
        \/ RequestTerminate(t)
        \/ Exit(t)
        \/ \E p \in Priorities : SetPriority(t, p)

Spec == Init /\ [][Next]_vars

-----------------------------------------------------------------------------
(* Properties.                                                             *)

\* Nobody sleeps through a change of a futex: as long as a thread waits although
\* its condition does not hold any more, somebody who changed the word is on its
\* way to signal everyone.
ChangeIsSignalled ==
    \A t \in ToSet(tree) :
        call[t].addr \in futexes =>
        \/ Holds(call[t].kind, word[call[t].addr], call[t].value)
        \/ \E s \in Threads : /\ pc[s] = "signal"
                             /\ call[s].addr = call[t].addr /\ call[s].count = 0

\* The value SignalAndModifyByWaitingCountIfEqual computed from the waiters, before
\* it wakes any, says what the wake-ups then do: nobody was there, or all are gone,
\* or some are left.
ModifiedBy(a, d) == word'[a] = Wrapped(word[a] + d)
WordTellsWaiters ==
    [][\A t \in Threads, a \in Addresses, v \in Int32, count \in Counts :
          SignalAndModifyByWaitingCountIfEqual(t, a, v, count) =>
              LET woken == ToSet(tree) \ ToSet(tree')
                  left == {u \in ToSet(tree') : call[u].addr = a}
              IN CASE woken = {} -> left = {} /\ ModifiedBy(a, 1)
                   [] woken # {} /\ left # {} -> ModifiedBy(a, 0)
                   [] woken # {} /\ left = {} -> ModifiedBy(a, IF count <= 0 THEN -2 ELSE -1)]_vars

\* A signal wakes the highest priorities at its address, and nobody elsewhere.
HighestFirst ==
    [][LET woken == {u \in ToSet(tree) \ ToSet(tree') : result'[u] = "Success"}
       IN \A u \in woken :
              /\ \A w \in woken : call[w].addr = call[u].addr
              /\ \A w \in ToSet(tree') :
                    call[w].addr = call[u].addr => prio[u] <= prio[w]]_vars
=============================================================================
