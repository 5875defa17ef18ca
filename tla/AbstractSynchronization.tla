----------------------- MODULE AbstractSynchronization -----------------------
(***************************************************************************)
(* What waiting on kernel objects promises: a thread sleeps only while none*)
(* of its objects is signaled; the signal of an object wakes all who wait  *)
(* for it, at once, and tells each of them which object it was; a sleeper  *)
(* may give up at any time.                                                *)
(***************************************************************************)
CONSTANTS Threads, Objects, NoObject

VARIABLES
    signaled,   \* the objects that are signaled
    asleep,     \* the threads that wait
    waitsFor,   \* for which objects each of them waits
    wokenBy     \* the object that ended a wait, until the thread has looked

vars == <<signaled, asleep, waitsFor, wokenBy>>

Init ==
    /\ signaled = {}
    /\ asleep = {}
    /\ waitsFor = [t \in Threads |-> {}]
    /\ wokenBy = [t \in Threads |-> NoObject]

Block(t) ==
    /\ t \notin asleep
    /\ wokenBy[t] = NoObject
    /\ \E os \in SUBSET (Objects \ signaled) : waitsFor' = [waitsFor EXCEPT ![t] = os]
    /\ asleep' = asleep \cup {t}
    /\ UNCHANGED <<signaled, wokenBy>>

Signal(o) ==
    /\ o \notin signaled
    /\ signaled' = signaled \cup {o}
    /\ LET woken == {t \in asleep : o \in waitsFor[t]}
       IN /\ asleep' = asleep \ woken
          /\ waitsFor' = [t \in Threads |-> IF t \in woken THEN {} ELSE waitsFor[t]]
          /\ wokenBy' = [t \in Threads |-> IF t \in woken THEN o ELSE wokenBy[t]]

Reset(o) ==
    /\ o \in signaled
    /\ signaled' = signaled \ {o}
    /\ UNCHANGED <<asleep, waitsFor, wokenBy>>

GiveUp(t) ==
    /\ t \in asleep
    /\ asleep' = asleep \ {t}
    /\ waitsFor' = [waitsFor EXCEPT ![t] = {}]
    /\ UNCHANGED <<signaled, wokenBy>>

Look(t) ==
    /\ wokenBy[t] # NoObject
    /\ wokenBy' = [wokenBy EXCEPT ![t] = NoObject]
    /\ UNCHANGED <<signaled, asleep, waitsFor>>

Next ==
    \/ \E t \in Threads : Block(t) \/ GiveUp(t) \/ Look(t)
    \/ \E o \in Objects : Signal(o) \/ Reset(o)

Spec == Init /\ [][Next]_vars
=============================================================================
