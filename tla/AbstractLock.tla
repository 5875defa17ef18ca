---------------------------- MODULE AbstractLock ----------------------------
(***************************************************************************)
(* What a kernel or guest lock promises: one holder at a time, the lock    *)
(* passes only to a thread that asked for it, and only once the holder has *)
(* left what the lock protects.                                            *)
(***************************************************************************)
CONSTANTS Threads, NoThread

VARIABLES
    holder,     \* the thread the lock belongs to, or NoThread
    wanting,    \* the threads that asked for the lock and do not hold it
    inside      \* the threads inside what the lock protects

vars == <<holder, wanting, inside>>

Init == holder = NoThread /\ wanting = {} /\ inside = {}

\* A thread asks for the lock.
Want(t) ==
    /\ t # holder
    /\ t \notin wanting
    /\ wanting' = wanting \cup {t}
    /\ UNCHANGED <<holder, inside>>

\* A free lock is taken by one of the threads that want it, or for it.
Acquire(t) ==
    /\ holder = NoThread
    /\ t \in wanting
    /\ holder' = t
    /\ wanting' = wanting \ {t}
    /\ inside' \in {inside, inside \cup {t}}

\* Threads that want the lock may stop wanting it.
GiveUp ==
    /\ wanting' \subseteq wanting
    /\ UNCHANGED <<holder, inside>>

\* The holder goes in.
Enter(t) ==
    /\ holder = t
    /\ inside' = inside \cup {t}
    /\ UNCHANGED <<holder, wanting>>

\* A thread leaves, the lock being its own still.
Leave(t) ==
    /\ holder = t
    /\ inside' = inside \ {t}
    /\ UNCHANGED <<holder, wanting>>

\* The holder leaves; nobody has the lock.  It may want it back at once, as in
\* the wait on a condition variable.
Release(t) ==
    /\ holder = t
    /\ holder' = NoThread
    /\ inside' = inside \ {t}
    /\ wanting' \in {wanting, wanting \cup {t}}

\* The lock goes straight from a holder that has left to n, who wanted it.
HandOver(t, n) ==
    /\ holder = t
    /\ t \notin inside
    /\ n \in wanting
    /\ holder' = n
    /\ wanting' \ {t} = wanting \ {n}
    /\ UNCHANGED inside

Next ==
    \/ GiveUp
    \/ \E t \in Threads :
        \/ Want(t) \/ Acquire(t) \/ Enter(t) \/ Leave(t) \/ Release(t)
        \/ \E n \in Threads : HandOver(t, n)

Spec == Init /\ [][Next]_vars
=============================================================================
