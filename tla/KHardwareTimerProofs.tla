------------------------ MODULE KHardwareTimerProofs ------------------------
(***************************************************************************)
(* Proofs about KHardwareTimer, for any set of threads and any times.      *)
(*                                                                         *)
(* InterruptCoversEarliest is not inductive: when the tree is empty it says*)
(* nothing, and the next task may find an interrupt left over from a       *)
(* cancelled one, which it relies on.  ArmedInterruptComes adds that such  *)
(* an interrupt, too, is still to come.                                    *)
(***************************************************************************)
EXTENDS KHardwareTimer, TLAPS

ArmedInterruptComes == wakeup # Never => wakeup \in event \/ firing

TimerInv ==
    /\ TypeOK
    /\ NextTaskIsEarliest
    /\ InterruptCoversEarliest
    /\ ArmedInterruptComes

\* Whatever a removal does to m_next_task, it leaves it at the earliest task
\* of those that remain.
LEMMA RemovalKeepsNext ==
    ASSUME TypeOK, NextTaskIsEarliest,
           NEW ts \in SUBSET Tree(time),
           NEW f, f = [t \in Threads |-> IF t \in ts THEN 0 ELSE time[t]],
           nextTask \notin ts => ts = {} \/ nextTask # NoTask,
           NextAfterRemoval(f, ts)
    PROVE  /\ Tree(f) = Tree(time) \ ts
           /\ IF Tree(f) = {} THEN nextTask' = NoTask ELSE nextTask' \in Earliest(f)
<1>1. f \in [Threads -> 0..Never]
  BY TimerAssumption DEF TypeOK
<1>2. Tree(f) = Tree(time) \ ts
  BY <1>1 DEF Tree, TypeOK
<1>3. CASE nextTask \in ts
  BY <1>2, <1>3 DEF NextAfterRemoval, Earliest
<1>4. CASE nextTask \notin ts
  <2>1. nextTask' = nextTask
    BY <1>4 DEF NextAfterRemoval
  <2>2. CASE Tree(time) = {}
    BY <2>1, <2>2, <1>2 DEF NextTaskIsEarliest
  <2>3. CASE Tree(time) # {}
    <3>1. nextTask \in Earliest(time)
      BY <2>3 DEF NextTaskIsEarliest
    <3>2. nextTask \in Tree(f)
      BY <3>1, <1>2, <1>4 DEF Earliest
    <3>3. \A u \in Tree(f) : f[u] = time[u]
      BY <1>2 DEF Tree
    <3>4. nextTask \in Earliest(f)
      BY <3>1, <3>2, <3>3, <1>2 DEF Earliest
    <3> QED
      BY <2>1, <3>2, <3>4, <1>2
  <2> QED
    BY <2>2, <2>3
<1> QED
  BY <1>3, <1>4

LEMMA InitInv == Init => TimerInv
<1> SUFFICES ASSUME Init PROVE TimerInv
  OBVIOUS
<1>1. 0 \in 0..Never /\ Never \in Times /\ 0 \in 0..MaxTime
  BY TimerAssumption DEF Times
<1>2. TypeOK
  BY <1>1 DEF Init, TypeOK
<1>3. Tree(time) = {}
  BY DEF Init, Tree
<1>4. NextTaskIsEarliest
  BY <1>3 DEF Init, NextTaskIsEarliest
<1>5. InterruptCoversEarliest
  BY DEF Init, InterruptCoversEarliest
<1>6. ArmedInterruptComes
  BY DEF Init, ArmedInterruptComes
<1> QED
  BY <1>2, <1>4, <1>5, <1>6 DEF TimerInv

LEMMA SleepInv ==
    ASSUME TimerInv, NEW t \in Threads, NEW at \in Times, Sleep(t, at)
    PROVE  TimerInv'
<1> USE TimerAssumption DEF Times
<1>1. /\ TypeOK /\ NextTaskIsEarliest /\ InterruptCoversEarliest
      /\ ArmedInterruptComes
  BY DEF TimerInv
<1>2. /\ t \notin waiting
      /\ waiting' = waiting \cup {t}
      /\ time' = [time EXCEPT ![t] = at]
      /\ now' = now /\ firing' = firing
  BY DEF Sleep
<1>3. time \in [Threads -> 0..Never] /\ time' \in [Threads -> 0..Never]
  BY <1>1, <1>2 DEF TypeOK
<1>4. Tree(time') = Tree(time) \cup {t} /\ Tree(time) = waiting /\ t \notin Tree(time)
  BY <1>1, <1>2, <1>3 DEF Tree, NextTaskIsEarliest
<1>5. \A u \in Threads \ {t} : time'[u] = time[u]
  BY <1>2, <1>3
<1>6. time'[t] = at
  BY <1>2, <1>3
<1>7. CASE nextTask # NoTask /\ time[nextTask] <= at
  <2>1. nextTask' = nextTask /\ wakeup' = wakeup /\ event' = event
    BY <1>7 DEF Sleep
  <2>2. nextTask \in Earliest(time) /\ nextTask \in Threads /\ nextTask \in Tree(time)
    BY <1>1, <1>7 DEF NextTaskIsEarliest, Earliest, Tree
  <2>3. nextTask \in Earliest(time')
    <3>1. time'[nextTask] = time[nextTask]
      BY <2>2, <1>4, <1>5
    <3>2. \A u \in Tree(time') : time'[nextTask] <= time'[u]
      BY <3>1, <2>2, <1>4, <1>5, <1>6, <1>7 DEF Earliest, Tree
    <3> QED
      BY <3>2, <2>2, <1>4 DEF Earliest
  <2>4. TypeOK'
    BY <1>1, <1>2, <1>3, <2>1 DEF TypeOK
  <2>5. NextTaskIsEarliest'
    BY <1>2, <1>4, <2>1, <2>3 DEF NextTaskIsEarliest
  <2>6. ASSUME NEW u \in Threads, 0 < time'[u], time'[u] < Never
        PROVE  wakeup <= time'[u] /\ (wakeup \in event \/ firing)
    <3>1. CASE u = t
      <4>1. 0 < time[nextTask] /\ time[nextTask] < Never
        BY <3>1, <2>2, <2>6, <1>3, <1>6, <1>7 DEF Tree
      <4>2. wakeup <= time[nextTask] /\ (wakeup \in event \/ firing)
        BY <4>1, <2>2, <1>1 DEF InterruptCoversEarliest
      <4> QED
        BY <4>2, <3>1, <2>2, <1>1, <1>3, <1>6, <1>7 DEF TypeOK
    <3>2. CASE u # t
      BY <3>2, <2>6, <1>1, <1>5 DEF InterruptCoversEarliest
    <3> QED
      BY <3>1, <3>2
  <2>7. InterruptCoversEarliest' /\ ArmedInterruptComes'
    BY <1>1, <1>2, <2>1, <2>6 DEF InterruptCoversEarliest, ArmedInterruptComes
  <2> QED
    BY <2>4, <2>5, <2>7 DEF TimerInv
<1>8. CASE ~(nextTask # NoTask /\ time[nextTask] <= at)
  <2>1. nextTask' = t
    BY <1>8 DEF Sleep
  <2>2. \A u \in Tree(time) : at <= time[u]
    <3>1. CASE nextTask = NoTask
      BY <3>1, <1>1 DEF NextTaskIsEarliest, Earliest, Tree, TypeOK
    <3>2. CASE nextTask # NoTask
      <4>1. nextTask \in Earliest(time)
        BY <3>2, <1>1 DEF NextTaskIsEarliest
      <4> QED
        BY <4>1, <3>2, <1>3, <1>8 DEF Earliest, Tree
    <3> QED
      BY <3>1, <3>2
  <2>3. t \in Earliest(time')
    BY <2>2, <1>4, <1>5, <1>6 DEF Earliest, Tree
  <2>4. NextTaskIsEarliest'
    BY <2>1, <2>3, <1>2, <1>4 DEF NextTaskIsEarliest
  <2>5. CASE at <= wakeup
    <3>1. wakeup' = at /\ event' = {at}
      BY <1>8, <2>5 DEF Sleep, EnableInterrupt
    <3>2. TypeOK'
      BY <1>1, <1>2, <1>3, <2>1, <3>1 DEF TypeOK
    <3>3. \A u \in Threads : 0 < time'[u] => at <= time'[u]
      BY <1>4, <1>5, <1>6, <2>2 DEF Tree
    <3>4. InterruptCoversEarliest' /\ ArmedInterruptComes'
      BY <3>1, <3>3 DEF InterruptCoversEarliest, ArmedInterruptComes
    <3> QED
      BY <2>4, <3>2, <3>4 DEF TimerInv
  <2>6. CASE ~(at <= wakeup)
    <3>1. wakeup' = wakeup /\ event' = event
      BY <1>8, <2>6 DEF Sleep
    <3>2. TypeOK'
      BY <1>1, <1>2, <1>3, <2>1, <3>1 DEF TypeOK
    <3>3. wakeup < at /\ wakeup # Never /\ (wakeup \in event \/ firing)
      BY <2>6, <1>1 DEF TypeOK, ArmedInterruptComes
    <3>4. \A u \in Threads : 0 < time'[u] => wakeup <= time'[u]
      BY <3>3, <1>1, <1>3, <1>4, <1>5, <1>6, <2>2 DEF Tree, TypeOK
    <3>5. InterruptCoversEarliest' /\ ArmedInterruptComes'
      BY <1>1, <1>2, <3>1, <3>3, <3>4
      DEF InterruptCoversEarliest, ArmedInterruptComes
    <3> QED
      BY <2>4, <3>2, <3>5 DEF TimerInv
  <2> QED
    BY <2>5, <2>6
<1> QED
  BY <1>7, <1>8

LEMMA CancelTaskInv ==
    ASSUME TimerInv, NEW t \in Threads, CancelTask(t)
    PROVE  TimerInv'
<1> USE TimerAssumption DEF Times
<1>1. /\ TypeOK /\ NextTaskIsEarliest /\ InterruptCoversEarliest
      /\ ArmedInterruptComes
  BY DEF TimerInv
<1>2. /\ t \in waiting
      /\ waiting' = waiting \ {t}
      /\ time' = [time EXCEPT ![t] = 0]
      /\ NextAfterRemoval(time', {t})
      /\ wakeup' = wakeup /\ event' = event /\ firing' = firing /\ now' = now
  BY DEF CancelTask
<1>3. time' = [u \in Threads |-> IF u \in {t} THEN 0 ELSE time[u]]
  BY <1>1, <1>2 DEF TypeOK
<1>4. {t} \in SUBSET Tree(time) /\ nextTask # NoTask
  BY <1>1, <1>2 DEF NextTaskIsEarliest, Earliest, Tree
<1>5. /\ Tree(time') = Tree(time) \ {t}
      /\ IF Tree(time') = {} THEN nextTask' = NoTask ELSE nextTask' \in Earliest(time')
  BY <1>1, <1>2, <1>3, <1>4, RemovalKeepsNext
<1>6. NextTaskIsEarliest'
  BY <1>1, <1>2, <1>5 DEF NextTaskIsEarliest
<1>7. TypeOK'
  BY <1>1, <1>2, <1>3, <1>5 DEF TypeOK, Earliest, Tree
<1>8. InterruptCoversEarliest' /\ ArmedInterruptComes'
  BY <1>1, <1>2, <1>3 DEF InterruptCoversEarliest, ArmedInterruptComes
<1> QED
  BY <1>6, <1>7, <1>8 DEF TimerInv

LEMMA DoTaskInv ==
    ASSUME TimerInv, DoTask
    PROVE  TimerInv'
<1> USE TimerAssumption DEF Times
<1>1. /\ TypeOK /\ NextTaskIsEarliest /\ InterruptCoversEarliest
      /\ ArmedInterruptComes
  BY DEF TimerInv
<1>2. /\ time' = [t \in Threads |-> IF t \in DueTasks THEN 0 ELSE time[t]]
      /\ waiting' = waiting \ DueTasks
      /\ NextAfterRemoval(time', DueTasks)
      /\ now' = now /\ firing' = FALSE
  BY DEF DoTask
<1>3. DueTasks \in SUBSET Tree(time)
  BY DEF DueTasks, Tree
<1>4. nextTask \notin DueTasks => DueTasks = {} \/ nextTask # NoTask
  BY DEF DueTasks
<1>5. /\ Tree(time') = Tree(time) \ DueTasks
      /\ IF Tree(time') = {} THEN nextTask' = NoTask ELSE nextTask' \in Earliest(time')
  BY <1>1, <1>2, <1>3, <1>4, RemovalKeepsNext
<1>6. NextTaskIsEarliest'
  BY <1>1, <1>2, <1>5 DEF NextTaskIsEarliest
<1>7. time' \in [Threads -> 0..Never] /\ nextTask' \in Threads \cup {NoTask}
  BY <1>1, <1>2, <1>5 DEF TypeOK, Earliest, Tree
<1>8. CASE nextTask' = NoTask
  <2>1. wakeup' = Never /\ event' = event
    BY <1>8 DEF DoTask, WakeupWhenIdle
  <2>2. \A t \in Threads : ~(0 < time'[t])
    BY <1>5, <1>7, <1>8 DEF Earliest, Tree
  <2>3. TypeOK'
    <3>1. waiting' \subseteq Threads /\ wakeup' \in Times
      BY <1>1, <1>2, <2>1 DEF TypeOK
    <3> QED
      BY <1>1, <1>2, <1>7, <2>1, <3>1 DEF TypeOK
  <2> QED
    BY <1>6, <2>1, <2>2, <2>3
    DEF TimerInv, InterruptCoversEarliest, ArmedInterruptComes
<1>9. CASE nextTask' # NoTask
  <2>1. wakeup' = time'[nextTask'] /\ event' = {time'[nextTask']}
    BY <1>9 DEF DoTask, EnableInterrupt
  <2>2. nextTask' \in Earliest(time')
    BY <1>5, <1>9
  <2>3. time'[nextTask'] \in Times /\ \A t \in Threads : 0 < time'[t] => wakeup' <= time'[t]
    BY <2>1, <2>2, <1>7 DEF Earliest, Tree
  <2>4. TypeOK'
    <3>1. wakeup' \in Times /\ event' \subseteq Times
      BY <2>1, <2>3
    <3>2. waiting' \subseteq Threads
      BY <1>1, <1>2 DEF TypeOK
    <3> QED
      BY <1>1, <1>2, <1>7, <3>1, <3>2 DEF TypeOK
  <2> QED
    BY <1>6, <2>1, <2>3, <2>4
    DEF TimerInv, InterruptCoversEarliest, ArmedInterruptComes
<1> QED
  BY <1>8, <1>9

LEMMA StepInv == TimerInv /\ [Next]_vars => TimerInv'
<1> SUFFICES ASSUME TimerInv, [Next]_vars PROVE TimerInv'
  OBVIOUS
<1>1. ASSUME NEW t \in Threads, NEW at \in Times, Sleep(t, at) PROVE TimerInv'
  BY <1>1, SleepInv
<1>2. ASSUME NEW t \in Threads, CancelTask(t) PROVE TimerInv'
  BY <1>2, CancelTaskInv
<1>3. CASE PopEvent
  BY <1>3 DEF PopEvent, TimerInv, TypeOK, NextTaskIsEarliest, Earliest, Tree,
              InterruptCoversEarliest, ArmedInterruptComes
<1>4. CASE DoTask
  BY <1>4, DoTaskInv
<1>5. CASE DoNothing
  <2>1. wakeup = Never
    BY <1>5 DEF DoNothing, InterruptEnabled
  <2>2. \A t \in Threads : ~(0 < time[t] /\ time[t] < Never)
    BY <2>1, TimerAssumption DEF TimerInv, TypeOK, InterruptCoversEarliest
  <2> QED
    BY <1>5, <2>1, <2>2
    DEF DoNothing, TimerInv, TypeOK, NextTaskIsEarliest, Earliest, Tree,
        InterruptCoversEarliest, ArmedInterruptComes
<1>6. CASE Tick
  BY <1>6, TimerAssumption
  DEF Tick, TimerInv, TypeOK, NextTaskIsEarliest, Earliest, Tree,
      InterruptCoversEarliest, ArmedInterruptComes
<1>7. CASE UNCHANGED vars
  BY <1>7 DEF vars, TimerInv, TypeOK, NextTaskIsEarliest, Earliest, Tree,
              InterruptCoversEarliest, ArmedInterruptComes
<1> QED
  BY <1>1, <1>2, <1>3, <1>4, <1>5, <1>6, <1>7 DEF Next

LEMMA Invariance == Spec => []TimerInv
  BY InitInv, StepInv, PTL DEF Spec

\* The timer's variables keep their types; in particular the interrupt is never
\* enabled for time 0, which the clock has passed.
THEOREM TypeCorrect == Spec => []TypeOK
<1>1. TimerInv => TypeOK
  BY DEF TimerInv
<1> QED
  BY Invariance, <1>1, PTL

\* m_next_task is the earliest task of the tree, and the tree holds whoever waits.
THEOREM NextTaskCorrect == Spec => []NextTaskIsEarliest
<1>1. TimerInv => NextTaskIsEarliest
  BY DEF TimerInv
<1> QED
  BY Invariance, <1>1, PTL

\* The earliest task is covered by an interrupt that is still to come, however
\* registering and cancelling fall between the event's pop and DoTask.
THEOREM EarliestIsCovered == Spec => []InterruptCoversEarliest
<1>1. TimerInv => InterruptCoversEarliest
  BY DEF TimerInv
<1> QED
  BY Invariance, <1>1, PTL
=============================================================================
