---------------------------- MODULE MCKScheduler ----------------------------
(* Instances of KScheduler for TLC. *)
EXTENDS KScheduler, TLC

OneOrBoth == {{0}, {0, 1}}
Symmetric == Permutations(Threads)

\* One thread has another priority than the others: the one of which no core gives
\* up its top thread, or the lowest; and one, the same or another, may run on one
\* core only.
OneApartOneBound ==
    {[u \in Threads |-> [prio |-> IF u = t THEN p ELSE 2,
                        mask |-> IF u = b THEN {0} ELSE {0, 1}]] :
        t, b \in Threads, p \in {1, 3}}

\* The last core preempts at a lower priority than the others.
LastLower == [c \in {0, 1} |-> IF c = 1 THEN 3 ELSE 2]
Alike == [c \in {0, 1} |-> 2]
Equal == {[u \in Threads |-> [prio |-> 2, mask |-> {0, 1}]]}
=============================================================================
