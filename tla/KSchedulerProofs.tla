--------------------------- MODULE KSchedulerProofs ---------------------------
(***************************************************************************)
(* What holds of KScheduler for any threads, any number of cores, any      *)
(* priorities and any masks: a thread never executes on two cores, a       *)
(* reschedule is never lost, the priority queue is exact, no core idles    *)
(* beside a thread it could take, and a yield is skipped only when it is   *)
(* pointless.  The first two do not depend on how the threads are chosen,  *)
(* only on what a critical section says about its choice.  The others are  *)
(* about the choice itself, with every migration on the way to it.         *)
(***************************************************************************)
EXTENDS KScheduler, SequenceTheorems, FiniteSetTheorems, WellFoundedInduction, TLAPS

-----------------------------------------------------------------------------
(* A critical section, as far as the cores are concerned.                  *)

\* The cores whose choice changed are told to reschedule.
Announces(by) ==
    \E changed \in SUBSET Cores :
        /\ \A c \in Cores : highest'[c] # highest[c] => c \in changed
        /\ needs' = [c \in Cores |-> needs[c] \/ c \in changed]
        /\ IF by = Host
           THEN /\ interrupted' = [c \in Cores |-> interrupted[c] \/ c \in changed]
                /\ UNCHANGED ipi
           ELSE ipi' = [ipi EXCEPT ![by] = changed \ {by}]

Section(by) ==
    /\ Announces(by) \/ (by # Host /\ UNCHANGED <<highest, needs, ipi>>)
    /\ by = Host => UNCHANGED phase
    /\ by # Host => /\ phase[by] = "run" /\ phase' = [phase EXCEPT ![by] = "unlock"]
                    /\ UNCHANGED interrupted
    /\ UNCHANGED <<cur, target, guard>>

\* Reselect announces every change of its choice, whatever it chooses.
LEMMA ReselectAnnounces ==
    ASSUME NEW by, NEW q, NEW counted, Reselect(by, q, counted)
    PROVE  Announces(by)
<1>1. PICK chosen, before : Publish(by, chosen, before, counted)
  BY DEF Reselect
<1> DEFINE changed == {c \in Cores : {highest[c], chosen.top[c]} # {before[c]}}
<1>2. \A c \in Cores : highest'[c] # highest[c] => c \in changed
  BY <1>1 DEF Publish
<1> QED
  BY <1>1, <1>2 DEF Announces, Publish

\* Keep changes no choice.
LEMMA KeepIsQuiet ==
    ASSUME NEW by, NEW q, NEW after, Keep(by, q, after)
    PROVE  UNCHANGED <<highest, needs, ipi>>
BY DEF Keep

LEMMA EntersAndLeaves ==
    ASSUME NEW by, Enters(by), Leaves(by),
           Announces(by) \/ (by # Host /\ UNCHANGED <<highest, needs, ipi>>)
    PROVE  Section(by)
BY DEF Enters, Leaves, Section

\* Whatever a thread asks for is one critical section.
LEMMA CallIsSection ==
    ASSUME SchedulerAssumption, NEW c \in Cores, Call(c)
    PROVE  Section(c)
<1>0. c # Host
  BY DEF SchedulerAssumption
<1>1. CASE \E t \in Threads : StopThread(c, t)
  BY <1>0, <1>1, ReselectAnnounces, EntersAndLeaves, KeepIsQuiet DEF StopThread
<1>2. CASE \E t \in Threads : StartThread(c, t)
  BY <1>0, <1>2, ReselectAnnounces, EntersAndLeaves, KeepIsQuiet DEF StartThread
<1>3. CASE \E t \in Threads, p \in Priorities : SetPriority(c, t, p)
  BY <1>0, <1>3, ReselectAnnounces, EntersAndLeaves, KeepIsQuiet DEF SetPriority
<1>4. CASE \E t \in Threads, mask \in Masks : SetCoreMask(c, t, mask)
  BY <1>0, <1>4, ReselectAnnounces, EntersAndLeaves, KeepIsQuiet DEF SetCoreMask, AffinityChanged
<1>5. CASE \E t \in Threads : ChangeKernelWaiters(c, t)
  BY <1>0, <1>5, ReselectAnnounces, EntersAndLeaves DEF ChangeKernelWaiters
<1>6. CASE ExitThread(c)
  BY <1>0, <1>6, ReselectAnnounces, EntersAndLeaves DEF ExitThread
<1>7. CASE Unpin(c)
  BY <1>0, <1>7, ReselectAnnounces, EntersAndLeaves DEF Unpin
<1>8. CASE YieldWithoutCoreMigration(c)
  BY <1>0, <1>8, ReselectAnnounces, EntersAndLeaves, KeepIsQuiet DEF YieldWithoutCoreMigration, Yields
<1>9. CASE YieldWithCoreMigration(c)
  BY <1>0, <1>9, ReselectAnnounces, EntersAndLeaves, KeepIsQuiet DEF YieldWithCoreMigration, Yields
<1>10. CASE YieldToAnyThread(c)
  <2>1. Yields(c) /\ Leaves(c)
    BY <1>10, Zenon DEF YieldToAnyThread
  <2>2. \E q, x : Reselect(c, q, x) \/ Keep(c, q, x)
    BY <1>10, Zenon DEF YieldToAnyThread
  <2> QED
    BY <1>0, <2>1, <2>2, ReselectAnnounces, EntersAndLeaves, KeepIsQuiet DEF Yields
<1> QED
  BY <1>1, <1>2, <1>3, <1>4, <1>5, <1>6, <1>7, <1>8, <1>9, <1>10 DEF Call

\* So is what the host thread does.
LEMMA HostStepIsSection ==
    ASSUME HostStep
    PROVE  Section(Host)
<1>1. CASE PreemptThreads
  BY <1>1, ReselectAnnounces, EntersAndLeaves DEF PreemptThreads
<1>2. CASE \E t \in Threads : StartThread(Host, t)
  BY <1>2, ReselectAnnounces, EntersAndLeaves DEF StartThread
<1> QED
  BY <1>1, <1>2 DEF HostStep

\* An interrupt that pins the thread is another critical section.
LEMMA PinIsSection ==
    ASSUME SchedulerAssumption, NEW c \in Cores, HandleInterruptAndPin(c)
    PROVE  Section(c)
<1>1. c # Host
  BY DEF SchedulerAssumption
<1> QED
  BY <1>1, ReselectAnnounces, EntersAndLeaves DEF HandleInterruptAndPin

-----------------------------------------------------------------------------
(* The inductive invariant.                                                *)

Domains ==
    /\ DOMAIN needs = Cores /\ DOMAIN interrupted = Cores
    /\ phase \in [Cores -> {"run", "unlock", "load", "switch", "check", "reload"}]
    /\ DOMAIN cur = Cores /\ DOMAIN target = Cores /\ DOMAIN ipi = Cores
    /\ DOMAIN guard = Threads

\* A core holds the context of the thread it executes or is about to, and what
\* is about to execute is the choice the core had read.
ContextHeld ==
    \A c \in Cores :
        /\ Executing(c) \/ phase[c] = "check" =>
               (cur[c] \in Threads => guard[cur[c]] = c)
        /\ phase[c] = "check" => cur[c] = target[c]

\* Nobody has interrupts to send but who leaves a critical section.
SendersUnlock == \A c \in Cores : phase[c] # "unlock" => ipi[c] = {}

SchedulerInv == Domains /\ ContextHeld /\ SendersUnlock /\ RescheduleNotLost

LEMMA InitInv ==
    ASSUME SchedulerAssumption, Init
    PROVE  SchedulerInv
<1>1. Domains
  BY DEF Init, Domains
<1>2. ContextHeld /\ SendersUnlock
  BY DEF Init, ContextHeld, Executing, SendersUnlock, SchedulerAssumption
<1>3. RescheduleNotLost
  BY DEF Init, RescheduleNotLost, Running
<1> QED
  BY <1>1, <1>2, <1>3 DEF SchedulerInv

\* A critical section of a core or of the host thread.
LEMMA SectionKeepsInv ==
    ASSUME SchedulerAssumption, SchedulerInv, NEW by \in Cores \cup {Host}, Section(by)
    PROVE  SchedulerInv'
<1> USE DEF SchedulerInv
<1>1. by = Host \/ (by \in Cores /\ by # Host)
  BY DEF SchedulerAssumption
<1>2. /\ UNCHANGED <<cur, target, guard>>
      /\ by = Host => UNCHANGED phase
      /\ by # Host =>
             /\ phase[by] = "run" /\ phase' = [phase EXCEPT ![by] = "unlock"]
             /\ UNCHANGED interrupted
  BY DEF Section
<1>3. Domains'
  BY <1>1, <1>2 DEF Section, Announces, Domains
<1>4. ContextHeld'
  BY <1>1, <1>2 DEF ContextHeld, Executing, Domains
<1>5. SendersUnlock'
  BY <1>1, <1>2 DEF Section, Announces, SendersUnlock, Domains
<1>6. RescheduleNotLost'
  <2>1. CASE Announces(by)
    <3>1. PICK changed \in SUBSET Cores :
            /\ \A c \in Cores : highest'[c] # highest[c] => c \in changed
            /\ needs' = [c \in Cores |-> needs[c] \/ c \in changed]
            /\ IF by = Host
               THEN /\ interrupted' = [c \in Cores |-> interrupted[c] \/ c \in changed]
                    /\ UNCHANGED ipi
               ELSE ipi' = [ipi EXCEPT ![by] = changed \ {by}]
      BY <2>1 DEF Announces
    <3>2. SUFFICES ASSUME NEW c \in Cores, Running(c)' # highest'[c]
                   PROVE  /\ needs'[c] \/ phase'[c] \in {"load", "reload"}
                          /\ phase'[c] = "run" =>
                                 interrupted'[c] \/ \E k \in Cores : c \in ipi'[k]
      BY DEF RescheduleNotLost
    <3>3. CASE c \in changed
      <4>1. needs'[c]
        BY <3>1, <3>3
      <4>2. CASE by = Host
        BY <3>1, <3>3, <4>1, <4>2
      <4>3. CASE by \in Cores /\ by # Host /\ c # by
        <5>1. c \in ipi'[by]
          BY <3>1, <3>3, <4>3 DEF Domains
        <5> QED
          BY <4>1, <4>3, <5>1
      <4>4. CASE by # Host /\ c = by
        BY <1>2, <4>1, <4>4 DEF Domains
      <4> QED
        BY <1>1, <4>2, <4>3, <4>4
    <3>4. CASE c \notin changed
      <4>1. highest'[c] = highest[c]
        BY <3>1, <3>4
      <4>2. Running(c)' = Running(c)
        BY <1>1, <1>2 DEF Running, Domains
      <4>3. /\ needs[c] \/ phase[c] \in {"load", "reload"}
            /\ phase[c] = "run" => interrupted[c] \/ \E k \in Cores : c \in ipi[k]
        BY <3>2, <4>1, <4>2 DEF RescheduleNotLost
      <4>4. by # Host => ipi[by] = {}
        BY <1>1, <1>2 DEF SendersUnlock
      <4>5. needs[c] => needs'[c]
        BY <3>1
      <4>6. CASE by = Host
        <5>1. (interrupted[c] => interrupted'[c]) /\ UNCHANGED <<phase, ipi>>
          BY <1>2, <3>1, <4>6
        <5> QED
          BY <4>5, <4>3, <5>1
      <4>7. CASE by \in Cores /\ by # Host /\ c # by
        <5>1. phase'[c] = phase[c] /\ interrupted'[c] = interrupted[c]
          BY <1>2, <4>7 DEF Domains
        <5>2. \A k \in Cores : k # by => ipi'[k] = ipi[k]
          BY <3>1, <4>7 DEF Domains
        <5> QED
          BY <4>5, <4>3, <4>4, <4>7, <5>1, <5>2
      <4>8. CASE by # Host /\ c = by
        <5>1. phase'[c] = "unlock" /\ needs[c]
          BY <1>2, <4>3, <4>8 DEF Domains
        <5> QED
          BY <3>1, <5>1
      <4> QED
        BY <1>1, <4>6, <4>7, <4>8
    <3> QED
      BY <3>3, <3>4
  <2>2. CASE by # Host /\ UNCHANGED <<highest, needs, ipi>>
    BY <1>1, <1>2, <2>2 DEF RescheduleNotLost, Running, Domains
  <2> QED
    BY <2>1, <2>2 DEF Section
<1> QED
  BY <1>3, <1>4, <1>5, <1>6

\* A core by itself.
LEMMA CoreStepKeepsInv ==
    ASSUME SchedulerAssumption, SchedulerInv, NEW c \in Cores, CoreStep(c)
    PROVE  SchedulerInv'
<1> USE DEF SchedulerInv
<1>1. CASE EnableScheduling(c)
  <2>1. /\ phase[c] = "unlock"
        /\ interrupted' = [k \in Cores |-> interrupted[k] \/ k \in ipi[c]]
        /\ ipi' = [ipi EXCEPT ![c] = {}]
        /\ UNCHANGED <<highest, cur, target, guard>>
    BY <1>1 DEF EnableScheduling, InterruptedBy, choiceVars
  <2>2. \/ needs' = [needs EXCEPT ![c] = FALSE] /\ phase' = [phase EXCEPT ![c] = "load"]
        \/ ~needs[c] /\ UNCHANGED needs /\ phase' = [phase EXCEPT ![c] = "run"]
    BY <1>1 DEF EnableScheduling, BeginsSchedule
  <2>3. Domains'
    BY <2>1, <2>2 DEF Domains
  <2>4. ContextHeld'
    BY <2>1, <2>2 DEF ContextHeld, Executing, Domains
  <2>5. SendersUnlock'
    BY <2>1, <2>2 DEF SendersUnlock, Domains
  <2>6. RescheduleNotLost'
    <3>1. SUFFICES ASSUME NEW k \in Cores, Running(k)' # highest'[k]
                   PROVE  /\ needs'[k] \/ phase'[k] \in {"load", "reload"}
                          /\ phase'[k] = "run" =>
                                 interrupted'[k] \/ \E i \in Cores : k \in ipi'[i]
      BY DEF RescheduleNotLost
    <3>2. Running(k)' = Running(k)
      BY <2>1, <2>2 DEF Running, Domains
    <3>3. /\ needs[k] \/ phase[k] \in {"load", "reload"}
          /\ phase[k] = "run" => interrupted[k] \/ \E i \in Cores : k \in ipi[i]
      BY <2>1, <3>1, <3>2 DEF RescheduleNotLost
    <3>4. CASE k = c
      BY <2>1, <2>2, <3>3, <3>4 DEF Domains
    <3>5. CASE k # c
      <4>1. needs'[k] = needs[k] /\ phase'[k] = phase[k]
        BY <2>2, <3>5 DEF Domains
      <4>2. interrupted[k] \/ k \in ipi[c] => interrupted'[k]
        BY <2>1
      <4>3. \A i \in Cores : k \in ipi[i] => i = c \/ k \in ipi'[i]
        BY <2>1 DEF Domains
      <4> QED
        BY <3>3, <4>1, <4>2, <4>3
    <3> QED
      BY <3>4, <3>5
  <2> QED
    BY <2>3, <2>4, <2>5, <2>6
<1>2. CASE HandleInterrupt(c)
  <2> USE <1>2 DEF HandleInterrupt, BeginsSchedule, choiceVars, threadVars
  <2>1. Domains'
    BY DEF Domains
  <2>2. ContextHeld'
    BY DEF ContextHeld, Executing, Domains
  <2>3. SendersUnlock'
    BY DEF SendersUnlock, Domains
  <2>4. RescheduleNotLost'
    BY DEF RescheduleNotLost, Running, Domains
  <2> QED BY <2>1, <2>2, <2>3, <2>4
<1>3. CASE HandleInterruptAndPin(c)
  BY <1>3, PinIsSection, SectionKeepsInv
<1>4. CASE LeaveThread(c)
  <2> USE <1>4 DEF LeaveThread, Unload, choiceVars, threadVars
  <2>1. Domains'
    BY DEF Domains
  <2>2. ContextHeld'
    BY DEF ContextHeld, Executing, Domains
  <2>3. SendersUnlock'
    BY DEF SendersUnlock, Domains
  <2>4. RescheduleNotLost'
    BY DEF RescheduleNotLost, Running, Domains
  <2> QED BY <2>1, <2>2, <2>3, <2>4
<1>5. CASE RefreshTarget(c)
  <2> USE <1>5 DEF RefreshTarget, choiceVars, threadVars
  <2>1. Domains'
    BY DEF Domains
  <2>2. ContextHeld'
    BY DEF ContextHeld, Executing, Domains
  <2>3. SendersUnlock'
    BY DEF SendersUnlock, Domains
  <2>4. RescheduleNotLost'
    BY DEF RescheduleNotLost, Running, Domains
  <2> QED BY <2>1, <2>2, <2>3, <2>4
<1>6. CASE LockContext(c)
  <2> USE <1>6 DEF LockContext, GuardFree, choiceVars, threadVars
  <2>1. Domains'
    BY DEF Domains
  <2>2. ContextHeld'
    BY DEF ContextHeld, Executing, Domains, SchedulerAssumption
  <2>3. SendersUnlock'
    BY DEF SendersUnlock, Domains
  <2>4. RescheduleNotLost'
    BY DEF RescheduleNotLost, Running, Domains
  <2> QED BY <2>1, <2>2, <2>3, <2>4
<1>7. CASE GiveUpTarget(c)
  <2> USE <1>7 DEF GiveUpTarget, Retries, choiceVars, threadVars
  <2>1. Domains'
    BY DEF Domains
  <2>2. ContextHeld'
    BY DEF ContextHeld, Executing, Domains
  <2>3. SendersUnlock'
    BY DEF SendersUnlock, Domains
  <2>4. RescheduleNotLost'
    BY DEF RescheduleNotLost, Running, Domains
  <2> QED BY <2>1, <2>2, <2>3, <2>4
<1>8. CASE UndoSwitch(c)
  <2> USE <1>8 DEF UndoSwitch, Retries, choiceVars, threadVars
  <2>1. Domains'
    BY DEF Domains
  <2>2. ContextHeld'
    BY DEF ContextHeld, Executing, Domains
  <2>3. SendersUnlock'
    BY DEF SendersUnlock, Domains
  <2>4. RescheduleNotLost'
    BY DEF RescheduleNotLost, Running, Domains
  <2> QED BY <2>1, <2>2, <2>3, <2>4
<1>9. CASE FinishSwitch(c)
  <2> USE <1>9 DEF FinishSwitch, choiceVars, threadVars
  <2>1. Domains'
    BY DEF Domains
  <2>2. ContextHeld'
    BY DEF ContextHeld, Executing, Domains
  <2>3. SendersUnlock'
    BY DEF SendersUnlock, Domains
  <2>4. RescheduleNotLost'
    BY DEF ContextHeld, RescheduleNotLost, Running, Domains
  <2> QED BY <2>1, <2>2, <2>3, <2>4
<1> QED
  BY <1>1, <1>2, <1>3, <1>4, <1>5, <1>6, <1>7, <1>8, <1>9 DEF CoreStep

LEMMA NextKeepsInv ==
    ASSUME SchedulerAssumption, SchedulerInv, [Next]_vars
    PROVE  SchedulerInv'
<1>1. CASE HostStep
  BY <1>1, HostStepIsSection, SectionKeepsInv
<1>2. CASE \E c \in Cores : Call(c)
  BY <1>2, CallIsSection, SectionKeepsInv
<1>3. CASE \E c \in Cores : CoreStep(c)
  BY <1>3, CoreStepKeepsInv
<1>4. CASE UNCHANGED vars
  <2>1. UNCHANGED <<highest, needs, cur, phase, target, guard, interrupted, ipi>>
    BY <1>4 DEF vars
  <2> QED
    BY <2>1 DEF SchedulerInv, Domains, ContextHeld, Executing, SendersUnlock,
                RescheduleNotLost, Running
<1> QED
  BY <1>1, <1>2, <1>3, <1>4 DEF Next

-----------------------------------------------------------------------------

\* The inductive invariant holds in every behaviour of the scheduler.
THEOREM Invariance == Spec => []SchedulerInv
<1>1. Init => SchedulerInv
  BY InitInv, SchedulerAssumption
<1>2. SchedulerInv /\ [Next]_vars => SchedulerInv'
  BY NextKeepsInv, SchedulerAssumption
<1> QED
  BY <1>1, <1>2, PTL DEF Spec

\* The context guard keeps a thread from executing on two cores, however the
\* cores' switches interleave with the migrations of the thread.
THEOREM ThreadsOnOneCore == Spec => []ThreadOnOneCore
<1>1. SchedulerInv => ThreadOnOneCore
  BY DEF SchedulerInv, ContextHeld, ThreadOnOneCore, Executing
<1> QED
  BY <1>1, Invariance, PTL

\* No change of a core's choice is forgotten between the critical section, the
\* interrupt and the flag.
THEOREM ReschedulesNotLost == Spec => []RescheduleNotLost
<1>1. SchedulerInv => RescheduleNotLost
  BY DEF SchedulerInv
<1> QED
  BY <1>1, Invariance, PTL


-----------------------------------------------------------------------------
(* Numbers and sequences.                                                  *)

\* Of numbers that have some property one is the least.
LEMMA Least ==
    ASSUME NEW N, N \subseteq Nat, N # {}
    PROVE  \E x \in N : \A y \in N : x <= y
<1> DEFINE R == OpToRel(<, Nat)
<1>1. IsWellFoundedOn(R, Nat)
  BY ONLY NatLessThanWellFounded
<1>2. R = {ss \in Nat \X Nat : ss[1] < ss[2]}
  BY DEF OpToRel
<1> HIDE DEF R
<1>3. PICK x \in N : \A y \in N : <<y, x>> \notin R
  BY <1>1, WFMin
<1>4. ASSUME NEW y \in Nat, NEW z \in Nat, y < z
      PROVE  <<y, z>> \in R
  BY <1>2, <1>4
<1>5. ASSUME NEW y \in N
      PROVE  x <= y
  <2>1. x \in Nat /\ y \in Nat /\ <<y, x>> \notin R
    BY <1>3
  <2>2. ~(y < x)
    BY <2>1, <1>4
  <2> QED
    BY <2>1, <2>2
<1> QED
  BY <1>5

LEMMA ToSetIs ==
    ASSUME NEW q \in Seq(Threads)
    PROVE  /\ Len(q) \in Nat
           /\ \A k \in 1..Len(q) : q[k] \in ToSet(q)
           /\ \A u \in ToSet(q) : \E k \in 1..Len(q) : q[k] = u
           /\ ToSet(q) \subseteq Threads
  BY DEF ToSet

LEMMA Concatenated ==
    ASSUME NEW a \in Seq(Threads), NEW b \in Seq(Threads)
    PROVE  /\ a \o b \in Seq(Threads)
           /\ Len(a \o b) = Len(a) + Len(b)
  BY ConcatProperties

\* SequencesExt's InsertAt and RemoveAt, element by element.
LEMMA InsertAtIs ==
    ASSUME NEW q \in Seq(Threads), NEW n \in 1..(Len(q) + 1), NEW t \in Threads
    PROVE  LET r == InsertAt(q, n, t)
           IN /\ r \in Seq(Threads)
              /\ Len(r) = Len(q) + 1
              /\ r[n] = t
              /\ \A k \in 1..(n - 1) : r[k] = q[k]
              /\ \A k \in (n + 1)..(Len(q) + 1) : r[k] = q[k - 1]
<1>1. Len(q) \in Nat
  OBVIOUS
<1> DEFINE a == SubSeq(q, 1, n - 1)
           b == SubSeq(q, n, Len(q))
           c == a \o <<t>>
           r == c \o b
<1>2. InsertAt(q, n, t) = r
  BY DEF InsertAt
<1>3. /\ a \in Seq(Threads) /\ Len(a) = n - 1
      /\ \A k \in 1..(n - 1) : a[k] = q[k]
  BY <1>1
<1>4. /\ b \in Seq(Threads) /\ Len(b) = Len(q) - n + 1
      /\ \A k \in 1..(Len(q) - n + 1) : b[k] = q[n + k - 1]
  BY <1>1
<1> HIDE DEF a, b
<1>5. /\ c \in Seq(Threads) /\ Len(c) = n /\ c[n] = t
      /\ \A k \in 1..(n - 1) : c[k] = a[k]
  BY <1>1, <1>3
<1> HIDE DEF c
<1>6. r \in Seq(Threads) /\ Len(r) = Len(q) + 1
  <2>1. r \in Seq(Threads) /\ Len(r) = Len(c) + Len(b)
    BY <1>4, <1>5, Concatenated
  <2> HIDE DEF r
  <2> QED
    BY <1>1, <1>4, <1>5, <2>1
<1>7. ASSUME NEW k \in 1..n
      PROVE  r[k] = c[k]
  BY <1>1, <1>4, <1>5
<1>8. ASSUME NEW k \in (n + 1)..(Len(q) + 1)
      PROVE  r[k] = q[k - 1]
  <2>1. k - n \in 1..(Len(q) - n + 1) /\ n + (k - n) - 1 = k - 1
    BY <1>1
  <2>2. r[k] = b[k - n]
    BY <1>1, <1>4, <1>5
  <2> QED
    BY <1>4, <2>1, <2>2
<1> HIDE DEF r
<1>9. r[n] = t /\ \A k \in 1..(n - 1) : r[k] = q[k]
  BY <1>3, <1>5, <1>7
<1> QED
  BY <1>2, <1>6, <1>8, <1>9

LEMMA RemoveAtIs ==
    ASSUME NEW q \in Seq(Threads), NEW i \in 1..Len(q)
    PROVE  LET r == RemoveAt(q, i)
           IN /\ r \in Seq(Threads)
              /\ Len(r) = Len(q) - 1
              /\ \A k \in 1..(i - 1) : r[k] = q[k]
              /\ \A k \in i..(Len(q) - 1) : r[k] = q[k + 1]
<1>1. Len(q) \in Nat
  OBVIOUS
<1> DEFINE a == SubSeq(q, 1, i - 1)
           b == SubSeq(q, i + 1, Len(q))
           r == a \o b
<1>2. RemoveAt(q, i) = r
  BY DEF RemoveAt
<1>3. /\ a \in Seq(Threads) /\ Len(a) = i - 1
      /\ \A k \in 1..(i - 1) : a[k] = q[k]
  BY <1>1
<1>4. /\ b \in Seq(Threads) /\ Len(b) = Len(q) - i
      /\ \A k \in 1..(Len(q) - i) : b[k] = q[i + k]
  BY <1>1
<1> HIDE DEF a, b
<1>5. r \in Seq(Threads) /\ Len(r) = Len(q) - 1
  <2>1. a \in Seq(Threads) /\ b \in Seq(Threads) /\ Len(a) = i - 1 /\ Len(b) = Len(q) - i
    BY <1>3, <1>4
  <2>2. r \in Seq(Threads) /\ Len(r) = Len(a) + Len(b)
    BY <2>1, Concatenated
  <2> HIDE DEF r
  <2> QED
    BY <1>1, <2>1, <2>2
<1>6. ASSUME NEW k \in 1..(i - 1)
      PROVE  r[k] = q[k]
  <2>1. k \in 1..Len(a)
    BY <1>3
  <2> QED
    BY <1>1, <1>3, <1>4, <2>1
<1>7. ASSUME NEW k \in i..(Len(q) - 1)
      PROVE  r[k] = q[k + 1]
  <2>1. k - i + 1 \in 1..(Len(q) - i) /\ i + (k - i + 1) = k + 1
    BY <1>1
  <2>2. r[k] = b[k - i + 1]
    BY <1>1, <1>3, <1>4
  <2> QED
    BY <1>4, <2>1, <2>2
<1> HIDE DEF r
<1> QED
  BY <1>2, <1>5, <1>6, <1>7


-----------------------------------------------------------------------------
(* The lists of the priority queue.                                        *)

\* A list holds the threads ts, once each, in the order of the priorities pr.
Ordered(s, pr, ts) ==
    /\ s \in Seq(Threads)
    /\ \A i, j \in 1 .. Len(s) : s[i] = s[j] => i = j
    /\ \A i, j \in 1 .. Len(s) : i < j => pr[s[i]] <= pr[s[j]]
    /\ ToSet(s) = ts

\* Of the threads run, those whose core is c, and those that may run there besides.
Scheduled(active, run, c) == {t \in run : active[t] = c}
Suggested(active, aff, run, c) == {t \in run : active[t] # c /\ c \in aff[t]}

\* The queue is that of the threads run, with priorities pr and masks aff, and each
\* thread's core is one of its mask, if it has one.
QueueInv(q, pr, aff, run) ==
    /\ pr \in [Threads -> Nat] /\ aff \in [Threads -> SUBSET Cores] /\ run \in SUBSET Threads
    /\ q.scheduled \in [Cores -> Seq(Threads)]
    /\ q.suggested \in [Cores -> Seq(Threads)]
    /\ q.active \in [Threads -> Cores \cup {NoCore}]
    /\ \A c \in Cores :
        /\ Ordered(q.scheduled[c], pr, Scheduled(q.active, run, c))
        /\ Ordered(q.suggested[c], pr, Suggested(q.active, aff, run, c))
    /\ \A t \in Threads : q.active[t] = NoCore \/ q.active[t] \in aff[t]

\* Threads have other cores in r than in q only if their masks aff have these.
Moves(q, r, aff) ==
    \A t \in Threads : r.active[t] = q.active[t] \/ r.active[t] \in aff[t]

-----------------------------------------------------------------------------
(* What makes the queue's invariant inductive.                             *)

\* A pinned thread may run on that core only, which is the one it has, and its own
\* mask is kept.
PinInv ==
    /\ \A t \in Threads : affinity[t] # {}
    /\ \A c \in Cores : pinned[c] \in Threads =>
           /\ ownMask[pinned[c]] # {}
           /\ affinity[pinned[c]] = {c}
           /\ queue.active[pinned[c]] = c

\* A thread that is a core's choice, or calls the kernel, has a core: only the thread
\* itself gives its core up, and is then nobody's choice.
HomeInv ==
    \A c \in Cores :
        /\ highest[c] \in Threads => queue.active[highest[c]] \in Cores
        /\ phase[c] = "run" /\ cur[c] \in Threads => queue.active[cur[c]] \in Cores

ChoiceInv == TypeOK /\ QueueInv(queue, prio, affinity, runnable) /\ PinInv /\ HomeInv

LEMMA OrderedIs ==
    ASSUME NEW s, NEW pr, NEW ts, Ordered(s, pr, ts)
    PROVE  /\ s \in Seq(Threads) /\ Len(s) \in Nat
           /\ \A k \in 1 .. Len(s) : s[k] \in ts
           /\ \A u \in ts : \E k \in 1 .. Len(s) : s[k] = u
           /\ ts \subseteq Threads
BY ToSetIs DEF Ordered

LEMMA OrderedFrom ==
    ASSUME NEW s \in Seq(Threads), NEW pr, NEW ts,
           \A i, j \in 1 .. Len(s) : s[i] = s[j] => i = j,
           \A i, j \in 1 .. Len(s) : i < j => pr[s[i]] <= pr[s[j]],
           \A k \in 1 .. Len(s) : s[k] \in ts,
           \A u \in ts : \E k \in 1 .. Len(s) : s[k] = u
    PROVE  Ordered(s, pr, ts)
<1>1. \A u : u \in ToSet(s) <=> u \in ts
  BY ToSetIs
<1>2. ToSet(s) = ts
  BY <1>1
<1> QED
  BY <1>2 DEF Ordered

\* Where a thread is inserted: behind the last of a priority up to p.
LEMMA InsertedPoint ==
    ASSUME NEW s \in Seq(Threads), NEW pr \in [Threads -> Nat], NEW p \in Int
    PROVE  \E i \in 0 .. Len(s) :
               /\ i = 0 \/ pr[s[i]] <= p
               /\ \A j \in i + 1 .. Len(s) : pr[s[j]] > p
<1> DEFINE N == {n \in 0 .. Len(s) : \A j \in n + 1 .. Len(s) : pr[s[j]] > p}
<1>1. Len(s) \in Nat
  OBVIOUS
<1>2. Len(s) \in N
  BY <1>1
<1>3. N \subseteq Nat
  BY <1>1
<1>4. PICK n \in N : \A m \in N : n <= m
  <2> HIDE DEF N
  <2> QED
    BY <1>2, <1>3, Least
<1>5. n = 0 \/ pr[s[n]] <= p
  <2> SUFFICES ASSUME n # 0, ~(pr[s[n]] <= p) PROVE FALSE
    OBVIOUS
  <2>1. n \in 1 .. Len(s) /\ n - 1 \in 0 .. Len(s)
    BY <1>1
  <2>2. pr[s[n]] \in Nat
    BY <2>1
  <2>3. pr[s[n]] > p
    BY <2>2
  <2>4. \A j \in (n - 1) + 1 .. Len(s) : j = n \/ j \in n + 1 .. Len(s)
    BY <1>1, <2>1
  <2>5. \A j \in (n - 1) + 1 .. Len(s) : pr[s[j]] > p
    BY <2>3, <2>4
  <2>6. n - 1 \in N
    BY <2>1, <2>5, Zenon
  <2>7. n <= n - 1 /\ n \in Int
    <3> HIDE DEF N
    <3> QED
      BY <1>4, <2>1, <2>6
  <2> QED
    BY <2>7
<1> QED
  BY <1>5

LEMMA InsertedOrdered ==
    ASSUME NEW pr \in [Threads -> Nat], NEW pr2 \in [Threads -> Nat], NEW s, NEW ts,
           Ordered(s, pr, ts), NEW t \in Threads, t \notin ts,
           \A u \in ts : pr2[u] = pr[u], NEW p \in Int, p = pr2[t] \/ p = pr2[t] - 1
    PROVE  Ordered(Inserted(s, t, p, pr), pr2, ts \cup {t})
<1> DEFINE Point(n) == /\ n = 0 \/ pr[s[n]] <= p
                       /\ \A j \in n + 1 .. Len(s) : pr[s[j]] > p
           r == Inserted(s, t, p, pr)
<1>1. /\ s \in Seq(Threads) /\ Len(s) \in Nat
      /\ \A k \in 1 .. Len(s) : s[k] \in ts /\ s[k] \in Threads
      /\ \A u \in ts : \E k \in 1 .. Len(s) : s[k] = u
  BY OrderedIs
<1>2. PICK i \in 0 .. Len(s) : Point(i) /\ r = InsertAt(s, 1 + i, t)
  BY <1>1, InsertedPoint DEF Inserted
<1> HIDE DEF r
<1>4. /\ r \in Seq(Threads) /\ Len(r) = Len(s) + 1 /\ r[i + 1] = t
      /\ \A k \in 1 .. i : r[k] = s[k]
      /\ \A k \in i + 2 .. Len(s) + 1 : r[k] = s[k - 1]
  <2> DEFINE n == 1 + i
  <2>1. n \in 1 .. Len(s) + 1 /\ n - 1 = i /\ n + 1 = i + 2 /\ n = i + 1
    BY <1>1
  <2>2. r = InsertAt(s, n, t)
    BY <1>2
  <2> HIDE DEF n, Point
  <2>3. /\ r \in Seq(Threads) /\ Len(r) = Len(s) + 1 /\ r[n] = t
        /\ \A k \in 1 .. n - 1 : r[k] = s[k]
        /\ \A k \in n + 1 .. Len(s) + 1 : r[k] = s[k - 1]
    <3>1. s \in Seq(Threads) /\ n \in 1 .. Len(s) + 1 /\ t \in Threads
      BY <1>1, <2>1
    <3> QED
      BY ONLY <2>2, <3>1, InsertAtIs, Zenon
  <2> QED
    BY <2>1, <2>3
<1>14. i \in Nat /\ i <= Len(s) /\ Len(s) \in Nat /\ Len(r) = Len(s) + 1
  BY <1>1, <1>2, <1>4
<1>5. ASSUME NEW k \in 1 .. i
      PROVE  k \in 1 .. Len(s) /\ pr2[s[k]] <= pr2[t]
  <2>1. k \in 1 .. Len(s) /\ i \in 1 .. Len(s) /\ k <= i
    BY <1>14
  <2>2. pr[s[k]] <= pr[s[i]]
    <3>1. CASE k = i
      BY <1>1, <2>1, <3>1
    <3>2. CASE k < i
      BY <2>1, <3>2 DEF Ordered
    <3> QED
      BY <1>1, <1>2, <2>1, <3>1, <3>2
  <2>3. pr[s[i]] <= p
    BY <1>1, <1>2, <2>1
  <2>4. pr[s[k]] \in Nat /\ pr[s[i]] \in Nat /\ pr2[t] \in Nat /\ pr2[s[k]] = pr[s[k]]
    BY <1>1, <2>1
  <2>5. p <= pr2[t]
    BY <2>4
  <2> QED
    BY <2>1, <2>2, <2>3, <2>4, <2>5
<1>6. ASSUME NEW k \in i + 1 .. Len(s)
      PROVE  k \in 1 .. Len(s) /\ pr2[t] <= pr2[s[k]]
  <2>1. k \in 1 .. Len(s) /\ pr[s[k]] > p
    BY <1>1, <1>2
  <2>2. pr[s[k]] \in Nat /\ pr2[t] \in Nat /\ pr2[s[k]] = pr[s[k]]
    BY <1>1, <2>1
  <2> QED
    BY <2>1, <2>2
<1> DEFINE From(k) == IF k <= i THEN k ELSE k - 1
<1>7. ASSUME NEW k \in 1 .. Len(r), k # i + 1
      PROVE  From(k) \in 1 .. Len(s) /\ r[k] = s[From(k)] /\ (k <= i <=> From(k) <= i)
  <2>1. CASE k <= i
    <3>1. k \in 1 .. i /\ k \in 1 .. Len(s) /\ From(k) = k
      BY <1>14, <2>1
    <3> QED
      BY <1>4, <2>1, <3>1
  <2>2. CASE ~(k <= i)
    <3>1. k \in i + 2 .. Len(s) + 1
      BY <1>14, <1>7, <2>2
    <3>2. From(k) = k - 1 /\ k - 1 \in 1 .. Len(s) /\ ~(k - 1 <= i)
      BY <1>14, <2>2, <3>1
    <3>3. r[k] = s[k - 1]
      BY <1>4, <3>1
    <3> HIDE DEF From
    <3> QED
      BY <2>2, <3>2, <3>3
  <2> QED
    BY <2>1, <2>2
<1>8. \A k, l \in (1 .. Len(r)) \ {i + 1} : k < l => From(k) < From(l)
  BY <1>14
<1> HIDE DEF From
<1>9. i + 1 \in 1 .. Len(r)
  BY <1>1, <1>2, <1>4
<1>10. ASSUME NEW k \in 1 .. Len(r), NEW l \in 1 .. Len(r), k < l
       PROVE  r[k] # r[l] /\ pr2[r[k]] <= pr2[r[l]]
  <2>1. CASE k = i + 1
    <3>1. l # i + 1 /\ ~(l <= i)
      BY <1>2, <1>10, <2>1
    <3>2. From(l) \in 1 .. Len(s) /\ r[l] = s[From(l)] /\ ~(From(l) <= i)
      BY <1>7, <3>1
    <3>3. From(l) \in i + 1 .. Len(s)
      BY <1>1, <1>2, <3>2
    <3> QED
      BY <1>1, <1>4, <1>6, <2>1, <3>2, <3>3
  <2>2. CASE l = i + 1
    <3>1. k # i + 1 /\ k <= i
      BY <1>2, <1>10, <2>2
    <3>2. From(k) \in 1 .. Len(s) /\ r[k] = s[From(k)] /\ From(k) <= i
      BY <1>7, <3>1
    <3>3. From(k) \in 1 .. i
      BY <1>1, <1>2, <3>2
    <3> QED
      BY <1>1, <1>4, <1>5, <2>2, <3>2, <3>3
  <2>3. CASE k # i + 1 /\ l # i + 1
    <3>1. /\ From(k) \in 1 .. Len(s) /\ r[k] = s[From(k)]
          /\ From(l) \in 1 .. Len(s) /\ r[l] = s[From(l)]
          /\ From(k) < From(l)
      BY <1>7, <1>8, <1>10, <2>3
    <3>2. s[From(k)] # s[From(l)] /\ pr[s[From(k)]] <= pr[s[From(l)]]
      <4>1. From(k) # From(l)
        BY <1>14, <3>1
      <4> QED
        BY <3>1, <4>1 DEF Ordered
    <3>3. s[From(k)] \in ts /\ s[From(l)] \in ts
      BY <1>1, <3>1
    <3> QED
      BY <3>1, <3>2, <3>3
  <2> QED
    BY <2>1, <2>2, <2>3
<1>11. \A k, l \in 1 .. Len(r) : r[k] = r[l] => k = l
  BY <1>1, <1>4, <1>10
<1>12. \A k \in 1 .. Len(r) : r[k] \in ts \cup {t}
  BY <1>1, <1>4, <1>7
<1>13. ASSUME NEW u \in ts \cup {t}
       PROVE  \E k \in 1 .. Len(r) : r[k] = u
  <2>1. CASE u = t
    BY <1>4, <1>9, <2>1
  <2>2. CASE u \in ts
    <3>1. PICK k \in 1 .. Len(s) : s[k] = u
      BY <1>1, <2>2
    <3>2. CASE k <= i
      <4>1. k \in 1 .. i /\ k \in 1 .. Len(r)
        BY <1>1, <1>2, <1>4, <3>2
      <4> QED
        BY <1>4, <3>1, <4>1
    <3>3. CASE ~(k <= i)
      <4>1. k + 1 \in i + 2 .. Len(s) + 1 /\ k + 1 \in 1 .. Len(r) /\ (k + 1) - 1 = k
        BY <1>14, <3>3
      <4>2. r[k + 1] = s[k]
        BY <1>4, <4>1
      <4> QED
        BY <3>1, <4>1, <4>2
    <3> QED
      BY <3>2, <3>3
  <2> QED
    BY <2>1, <2>2
<1> QED
  BY <1>4, <1>10, <1>11, <1>12, <1>13, OrderedFrom DEF r

LEMMA WithoutOrdered ==
    ASSUME NEW pr, NEW s, NEW ts, Ordered(s, pr, ts), NEW t
    PROVE  Ordered(Without(s, t), pr, ts \ {t})
<1>1. /\ s \in Seq(Threads) /\ Len(s) \in Nat /\ DOMAIN s = 1 .. Len(s)
      /\ \A k \in 1 .. Len(s) : s[k] \in ts
      /\ \A u \in ts : \E k \in 1 .. Len(s) : s[k] = u
      /\ ToSet(s) = ts
  BY OrderedIs DEF Ordered
<1>2. CASE t \notin ts
  <2>1. Without(s, t) = s /\ ts \ {t} = ts
    BY <1>1, <1>2 DEF Without
  <2> QED
    BY <2>1
<1>3. CASE t \in ts
  <2> DEFINE n == CHOOSE i \in DOMAIN s : s[i] = t
             r == RemoveAt(s, n)
             From(k) == IF k < n THEN k ELSE k + 1
  <2>1. n \in 1 .. Len(s) /\ s[n] = t
    BY <1>1, <1>3
  <2>2. Without(s, t) = r
    BY <1>1, <1>3 DEF Without
  <2> HIDE DEF n
  <2>3. /\ r \in Seq(Threads) /\ Len(r) = Len(s) - 1
        /\ \A k \in 1 .. n - 1 : r[k] = s[k]
        /\ \A k \in n .. Len(s) - 1 : r[k] = s[k + 1]
    BY <1>1, <2>1, RemoveAtIs
  <2> HIDE DEF r
  <2>4. ASSUME NEW k \in 1 .. Len(r)
        PROVE  From(k) \in 1 .. Len(s) /\ From(k) # n /\ r[k] = s[From(k)]
    <3>1. CASE k < n
      BY <1>1, <2>1, <2>3, <3>1
    <3>2. CASE ~(k < n)
      BY <1>1, <2>1, <2>3, <3>2
    <3> QED
      BY <3>1, <3>2
  <2>5. \A k, l \in 1 .. Len(r) : k < l => From(k) < From(l)
    BY <1>1, <2>1, <2>3
  <2> HIDE DEF From
  <2>6. \A k, l \in 1 .. Len(r) : k < l => r[k] # r[l] /\ pr[r[k]] <= pr[r[l]]
    BY <2>4, <2>5 DEF Ordered
  <2>7. \A k, l \in 1 .. Len(r) : r[k] = r[l] => k = l
    BY <1>1, <2>3, <2>6
  <2>8. \A k \in 1 .. Len(r) : r[k] \in ts \ {t}
    BY <1>1, <2>1, <2>4 DEF Ordered
  <2>9. ASSUME NEW u \in ts \ {t}
        PROVE  \E k \in 1 .. Len(r) : r[k] = u
    <3>1. PICK k \in 1 .. Len(s) : s[k] = u
      BY <1>1
    <3>2. CASE k < n
      BY <1>1, <2>1, <2>3, <3>1, <3>2
    <3>3. CASE k > n
      <4>1. k - 1 \in n .. Len(s) - 1 /\ k - 1 \in 1 .. Len(r) /\ (k - 1) + 1 = k
        BY <1>1, <2>1, <2>3, <3>3
      <4> QED
        BY <2>3, <3>1, <4>1
    <3> QED
      BY <1>1, <2>1, <2>9, <3>1, <3>2, <3>3
  <2> QED
    BY <2>2, <2>3, <2>6, <2>7, <2>8, <2>9, OrderedFrom
<1> QED
  BY <1>2, <1>3

LEMMA FirstOfIs ==
    ASSUME NEW s \in Seq(Threads), NEW ts
    PROVE  \/ FirstOf(s, ts) = Idle /\ ToSet(s) \cap ts = {}
           \/ FirstOf(s, ts) \in ToSet(s) \cap ts
<1> DEFINE found == {i \in DOMAIN s : s[i] \in ts}
           i == CHOOSE i \in found : \A j \in found : i <= j
<1>1. FirstOf(s, ts) = IF found = {} THEN Idle ELSE s[i]
  BY DEF FirstOf
<1>2. DOMAIN s = 1 .. Len(s) /\ Len(s) \in Nat
  OBVIOUS
<1>3. CASE found = {}
  BY <1>1, <1>2, <1>3, ToSetIs
<1>4. CASE found # {}
  <2>1. i \in found
    <3>1. found \subseteq Nat
      BY <1>2
    <3> HIDE DEF found
    <3>2. \E x \in found : \A y \in found : x <= y
      BY <1>4, <3>1, Least
    <3> QED
      BY <3>2
  <2> HIDE DEF i
  <2> QED
    BY <1>1, <1>2, <1>4, <2>1, ToSetIs
<1> QED
  BY <1>3, <1>4

LEMMA FrontOfIs ==
    ASSUME NEW s \in Seq(Threads)
    PROVE  IF s = <<>> THEN FrontOf(s) = Idle ELSE FrontOf(s) \in ToSet(s)
<1>1. s # <<>> => 1 \in 1 .. Len(s)
  OBVIOUS
<1> QED
  BY <1>1, ToSetIs DEF FrontOf

\* The list r is s without t, or with t at its new priority pr2 when t is in ts.
Relisted(r, s, t, ts, pr, pr2) ==
    LET rest == Without(s, t) IN
    IF t \notin ts THEN r = rest
    ELSE \/ r = Behind(rest, t, pr2[t], pr)
         \/ r = Before(rest, t, pr2[t], pr)
         \/ r = s /\ t \in ToSet(s) /\ pr2[t] = pr[t]

LEMMA OrderedSame ==
    ASSUME NEW s, NEW pr, NEW ts, Ordered(s, pr, ts), NEW pr2,
           \A u \in ts : pr2[u] = pr[u]
    PROVE  Ordered(s, pr2, ts)
<1>1. \A k \in 1 .. Len(s) : pr2[s[k]] = pr[s[k]]
  BY OrderedIs
<1> QED
  BY <1>1 DEF Ordered

LEMMA RelistedOrdered ==
    ASSUME NEW pr \in [Threads -> Nat], NEW pr2 \in [Threads -> Nat], NEW s, NEW ts,
           Ordered(s, pr, ts), NEW t \in Threads, \A u \in ts \ {t} : pr2[u] = pr[u],
           NEW ts2, ts2 \ {t} = ts \ {t}, NEW r, Relisted(r, s, t, ts2, pr, pr2)
    PROVE  Ordered(r, pr2, ts2)
<1> DEFINE rest == Without(s, t)
           without == ts \ {t}
<1>1. Ordered(rest, pr, without)
  BY WithoutOrdered
<1>2. CASE t \notin ts2
  <2>1. r = rest
    BY <1>2 DEF Relisted
  <2>2. \A u \in without : pr2[u] = pr[u]
    OBVIOUS
  <2>3. Ordered(rest, pr2, without)
    <3> HIDE DEF rest, without
    <3> QED
      BY <1>1, <2>2, OrderedSame
  <2>4. without = ts2
    BY <1>2
  <2> QED
    BY <2>1, <2>3, <2>4
<1>3. CASE t \in ts2 /\ r = s /\ t \in ToSet(s) /\ pr2[t] = pr[t]
  <2>1. ToSet(s) = ts
    BY DEF Ordered
  <2>2. \A u \in ts : pr2[u] = pr[u]
    BY <1>3
  <2>3. Ordered(s, pr2, ts)
    BY <2>2, OrderedSame
  <2>4. ts2 = ts
    BY <1>3, <2>1
  <2> QED
    BY <1>3, <2>3, <2>4
<1>4. CASE t \in ts2 /\ (r = Behind(rest, t, pr2[t], pr) \/ r = Before(rest, t, pr2[t], pr))
  <2>1. t \notin without /\ \A u \in without : pr2[u] = pr[u]
    OBVIOUS
  <2>2. without \cup {t} = ts2
    BY <1>4
  <2> HIDE DEF rest, without
  <2>3. PICK p \in {pr2[t], pr2[t] - 1} : r = Inserted(rest, t, p, pr)
    BY <1>4 DEF Behind, Before
  <2>4. p \in Int /\ (p = pr2[t] \/ p = pr2[t] - 1)
    OBVIOUS
  <2>5. Ordered(Inserted(rest, t, p, pr), pr2, without \cup {t})
    BY ONLY <1>1, <2>1, <2>4, pr \in [Threads -> Nat], pr2 \in [Threads -> Nat],
            t \in Threads, InsertedOrdered, Zenon
  <2> QED
    BY <1>4, <2>2, <2>3, <2>5
<1> QED
  BY <1>2, <1>3, <1>4 DEF Relisted

-----------------------------------------------------------------------------
(* The operations on the priority queue: each moves one thread.            *)

\* Which threads a queue's lists hold, and what a list without t is.
LEMMA QueueHolds ==
    ASSUME NEW q, NEW pr, NEW aff, NEW run, QueueInv(q, pr, aff, run),
           NEW c \in Cores, NEW t \in Threads
    PROVE  /\ t \in ToSet(q.scheduled[c]) <=> t \in run /\ q.active[t] = c
           /\ t \in ToSet(q.suggested[c]) <=> t \in run /\ q.active[t] # c /\ c \in aff[t]
           /\ ~(t \in run /\ q.active[t] = c) =>
                  Without(q.scheduled[c], t) = q.scheduled[c]
           /\ ~(t \in run /\ q.active[t] # c /\ c \in aff[t]) =>
                  Without(q.suggested[c], t) = q.suggested[c]
<1>1. /\ ToSet(q.scheduled[c]) = Scheduled(q.active, run, c)
      /\ ToSet(q.suggested[c]) = Suggested(q.active, aff, run, c)
  BY DEF QueueInv, Ordered
<1> QED
  BY <1>1 DEF Scheduled, Suggested, Without

\* The functions f and g differ in t only.
SameBut(f, g, t) == \A u \in Threads \ {t} : f[u] = g[u]

\* The queue r differs from q in the thread t only, and every list is relisted.
MovesIn(r, q, t, pr, pr2, aff, aff2, run, run2) ==
    /\ pr2 \in [Threads -> Nat] /\ aff2 \in [Threads -> SUBSET Cores]
    /\ run2 \in SUBSET Threads /\ run2 \ {t} = run \ {t}
    /\ r.active \in [Threads -> Cores \cup {NoCore}]
    /\ SameBut(pr2, pr, t) /\ SameBut(aff2, aff, t) /\ SameBut(r.active, q.active, t)
    /\ r.active[t] = NoCore \/ r.active[t] \in aff2[t]
    /\ r.scheduled = [c \in Cores |-> r.scheduled[c]]
    /\ r.suggested = [c \in Cores |-> r.suggested[c]]
    /\ \A c \in Cores :
        /\ Relisted(r.scheduled[c], q.scheduled[c], t, Scheduled(r.active, run2, c), pr, pr2)
        /\ Relisted(r.suggested[c], q.suggested[c], t, Suggested(r.active, aff2, run2, c),
                    pr, pr2)

LEMMA Moved ==
    ASSUME NEW pr, NEW pr2, NEW aff, NEW aff2, NEW run, NEW run2, NEW q, QueueInv(q, pr, aff, run), NEW t \in Threads,
           NEW r, MovesIn(r, q, t, pr, pr2, aff, aff2, run, run2)
    PROVE  QueueInv(r, pr2, aff2, run2)
<1> USE DEF MovesIn, SameBut
<1>1. ASSUME NEW c \in Cores
      PROVE  /\ Ordered(r.scheduled[c], pr2, Scheduled(r.active, run2, c))
             /\ Ordered(r.suggested[c], pr2, Suggested(r.active, aff2, run2, c))
  <2> DEFINE ts == Scheduled(q.active, run, c)
             us == Suggested(q.active, aff, run, c)
             ts2 == Scheduled(r.active, run2, c)
             us2 == Suggested(r.active, aff2, run2, c)
  <2>1. Ordered(q.scheduled[c], pr, ts) /\ Ordered(q.suggested[c], pr, us)
    BY DEF QueueInv
  <2>2. /\ \A u \in ts \ {t} : pr2[u] = pr[u]
        /\ \A u \in us \ {t} : pr2[u] = pr[u]
    BY DEF Scheduled, Suggested
  <2>3. ts2 \ {t} = ts \ {t} /\ us2 \ {t} = us \ {t}
    BY DEF Scheduled, Suggested
  <2>4. /\ Relisted(r.scheduled[c], q.scheduled[c], t, ts2, pr, pr2)
        /\ Relisted(r.suggested[c], q.suggested[c], t, us2, pr, pr2)
    OBVIOUS
  <2>7. pr \in [Threads -> Nat] /\ pr2 \in [Threads -> Nat] /\ t \in Threads
    BY DEF QueueInv
  <2> HIDE DEF ts, us, ts2, us2
  <2>5. Ordered(r.scheduled[c], pr2, ts2)
    BY ONLY <2>1, <2>2, <2>3, <2>4, <2>7, RelistedOrdered
  <2>6. Ordered(r.suggested[c], pr2, us2)
    BY ONLY <2>1, <2>2, <2>3, <2>4, <2>7, RelistedOrdered
  <2> QED
    BY <2>5, <2>6 DEF ts2, us2
<1>2. r.scheduled \in [Cores -> Seq(Threads)] /\ r.suggested \in [Cores -> Seq(Threads)]
  BY <1>1 DEF Ordered
<1>3. \A u \in Threads : r.active[u] = NoCore \/ r.active[u] \in aff2[u]
  BY DEF QueueInv
<1> QED
  BY <1>1, <1>2, <1>3 DEF QueueInv

\* A thread that is in no list may get another priority, mask or core.
LEMMA OutsideExact ==
    ASSUME NEW pr, NEW pr2 \in [Threads -> Nat],
           NEW aff, NEW aff2 \in [Threads -> SUBSET Cores], NEW run,
           NEW q, QueueInv(q, pr, aff, run), NEW t \in Threads, t \notin run,
           NEW a \in Cores \cup {NoCore}, a = NoCore \/ a \in aff2[t],
           SameBut(pr2, pr, t), SameBut(aff2, aff, t)
    PROVE  QueueInv(SetActiveCore(q, t, a), pr2, aff2, run)
<1> DEFINE r == SetActiveCore(q, t, a)
<1>1. /\ r.scheduled = q.scheduled /\ r.suggested = q.suggested
      /\ r.active = [q.active EXCEPT ![t] = a]
  BY DEF SetActiveCore
<1>2. /\ q.active \in [Threads -> Cores \cup {NoCore}]
      /\ q.scheduled \in [Cores -> Seq(Threads)] /\ q.suggested \in [Cores -> Seq(Threads)]
  BY DEF QueueInv
<1> HIDE DEF r
<1>3. ASSUME NEW c \in Cores
      PROVE  /\ Relisted(r.scheduled[c], q.scheduled[c], t, Scheduled(r.active, run, c), pr, pr2)
             /\ Relisted(r.suggested[c], q.suggested[c], t, Suggested(r.active, aff2, run, c),
                         pr, pr2)
  <2>1. /\ Without(q.scheduled[c], t) = q.scheduled[c]
        /\ Without(q.suggested[c], t) = q.suggested[c]
    BY QueueHolds
  <2>2. /\ t \notin Scheduled(r.active, run, c)
        /\ t \notin Suggested(r.active, aff2, run, c)
    BY DEF Scheduled, Suggested
  <2> QED
    BY <1>1, <2>1, <2>2 DEF Relisted
<1>4. /\ r.active \in [Threads -> Cores \cup {NoCore}]
      /\ r.active[t] = NoCore \/ r.active[t] \in aff2[t]
      /\ SameBut(r.active, q.active, t) /\ run \in SUBSET Threads
      /\ r.scheduled = [c \in Cores |-> r.scheduled[c]]
      /\ r.suggested = [c \in Cores |-> r.suggested[c]]
  BY <1>1, <1>2 DEF SameBut, QueueInv
<1>5. MovesIn(r, q, t, pr, pr2, aff, aff2, run, run)
  BY <1>3, <1>4 DEF MovesIn
<1>6. QueueInv(r, pr2, aff2, run)
  BY <1>5, Moved
<1> QED
  BY <1>6 DEF r

LEMMA PushExact ==
    ASSUME NEW pr, NEW pr2 \in [Threads -> Nat], NEW aff, NEW run,
           NEW q, QueueInv(q, pr, aff, run), NEW t \in Threads, t \notin run,
           SameBut(pr2, pr, t), NEW toFront
    PROVE  /\ QueueInv(Push(q, t, pr2[t], aff[t], pr, toFront), pr2, aff, run \cup {t})
           /\ Push(q, t, pr2[t], aff[t], pr, toFront).active = q.active
<1> DEFINE a == q.active[t]
           x == [c \in Cores |-> IF c # a THEN q.scheduled[c]
                                 ELSE IF toFront THEN Before(q.scheduled[c], t, pr2[t], pr)
                                 ELSE Behind(q.scheduled[c], t, pr2[t], pr)]
           y == [c \in Cores |-> IF c \in SuggestedTo(aff[t], a)
                                 THEN Behind(q.suggested[c], t, pr2[t], pr)
                                 ELSE q.suggested[c]]
           run2 == run \cup {t}
           r == Push(q, t, pr2[t], aff[t], pr, toFront)
<1>1. r = [scheduled |-> x, suggested |-> y, active |-> q.active]
  BY DEF Push
<1>2. ASSUME NEW c \in Cores
      PROVE  /\ Relisted(x[c], q.scheduled[c], t, Scheduled(q.active, run2, c), pr, pr2)
             /\ Relisted(y[c], q.suggested[c], t, Suggested(q.active, aff, run2, c), pr, pr2)
  <2>1. /\ Without(q.scheduled[c], t) = q.scheduled[c]
        /\ Without(q.suggested[c], t) = q.suggested[c]
    BY QueueHolds
  <2>2. /\ t \in Scheduled(q.active, run2, c) <=> c = a
        /\ t \in Suggested(q.active, aff, run2, c) <=> c \in SuggestedTo(aff[t], a)
    BY DEF Scheduled, Suggested, SuggestedTo
  <2>3. /\ c # a => x[c] = q.scheduled[c]
        /\ c = a => x[c] \in {Before(q.scheduled[c], t, pr2[t], pr),
                              Behind(q.scheduled[c], t, pr2[t], pr)}
        /\ y[c] = IF c \in SuggestedTo(aff[t], a) THEN Behind(q.suggested[c], t, pr2[t], pr)
                  ELSE q.suggested[c]
    OBVIOUS
  <2> HIDE DEF x, y, a, run2
  <2> QED
    BY <2>1, <2>2, <2>3 DEF Relisted
<1>3. /\ x = [c \in Cores |-> x[c]] /\ y = [c \in Cores |-> y[c]]
      /\ run2 \in SUBSET Threads /\ run2 \ {t} = run \ {t}
      /\ pr \in [Threads -> Nat] /\ aff \in [Threads -> SUBSET Cores]
      /\ q.active \in [Threads -> Cores \cup {NoCore}]
      /\ q.active[t] = NoCore \/ q.active[t] \in aff[t]
      /\ SameBut(pr, pr, t) /\ SameBut(aff, aff, t) /\ SameBut(q.active, q.active, t)
  BY DEF QueueInv, SameBut
<1> HIDE DEF x, y, a, run2
<1> HIDE DEF r
<1>4. r.scheduled = x /\ r.suggested = y /\ r.active = q.active
  BY <1>1
<1>5. MovesIn(r, q, t, pr, pr2, aff, aff, run, run2)
  BY <1>2, <1>3, <1>4 DEF MovesIn
<1>6. QueueInv(r, pr2, aff, run2)
  BY <1>3, <1>5, Moved
<1> QED
  BY <1>4, <1>6 DEF run2, r

LEMMA RemoveExact ==
    ASSUME NEW pr, NEW aff, NEW run, NEW q, QueueInv(q, pr, aff, run), NEW t \in Threads
    PROVE  /\ QueueInv(RemoveFrom(q, t, q.active[t], aff[t]), pr, aff, run \ {t})
           /\ RemoveFrom(q, t, q.active[t], aff[t]).active = q.active
<1> DEFINE a == q.active[t]
           x == [c \in Cores |-> IF c = a THEN Without(q.scheduled[c], t) ELSE q.scheduled[c]]
           y == [c \in Cores |-> IF c \in SuggestedTo(aff[t], a) THEN Without(q.suggested[c], t)
                                 ELSE q.suggested[c]]
           run2 == run \ {t}
           r == RemoveFrom(q, t, a, aff[t])
<1>1. r = [scheduled |-> x, suggested |-> y, active |-> q.active]
  BY DEF RemoveFrom
<1>2. ASSUME NEW c \in Cores
      PROVE  /\ Relisted(x[c], q.scheduled[c], t, Scheduled(q.active, run2, c), pr, pr)
             /\ Relisted(y[c], q.suggested[c], t, Suggested(q.active, aff, run2, c), pr, pr)
  <2>1. /\ c # a => Without(q.scheduled[c], t) = q.scheduled[c]
        /\ c \notin SuggestedTo(aff[t], a) => Without(q.suggested[c], t) = q.suggested[c]
    BY QueueHolds DEF SuggestedTo
  <2>2. /\ t \notin Scheduled(q.active, run2, c)
        /\ t \notin Suggested(q.active, aff, run2, c)
    BY DEF Scheduled, Suggested
  <2>3. /\ x[c] = IF c = a THEN Without(q.scheduled[c], t) ELSE q.scheduled[c]
        /\ y[c] = IF c \in SuggestedTo(aff[t], a) THEN Without(q.suggested[c], t)
                  ELSE q.suggested[c]
    OBVIOUS
  <2> HIDE DEF x, y, a, run2
  <2> QED
    BY <2>1, <2>2, <2>3 DEF Relisted
<1>3. /\ x = [c \in Cores |-> x[c]] /\ y = [c \in Cores |-> y[c]]
      /\ run2 \in SUBSET Threads /\ run2 \ {t} = run \ {t}
      /\ pr \in [Threads -> Nat] /\ aff \in [Threads -> SUBSET Cores]
      /\ q.active \in [Threads -> Cores \cup {NoCore}]
      /\ q.active[t] = NoCore \/ q.active[t] \in aff[t]
      /\ SameBut(pr, pr, t) /\ SameBut(aff, aff, t) /\ SameBut(q.active, q.active, t)
  BY DEF QueueInv, SameBut
<1> HIDE DEF x, y, a, run2, r
<1>4. r.scheduled = x /\ r.suggested = y /\ r.active = q.active
  BY <1>1
<1>5. MovesIn(r, q, t, pr, pr, aff, aff, run, run2)
  BY <1>2, <1>3, <1>4 DEF MovesIn
<1>6. QueueInv(r, pr, aff, run2)
  BY <1>3, <1>5, Moved
<1> QED
  BY <1>4, <1>6 DEF run2, r, a

LEMMA PriorityExact ==
    ASSUME NEW pr, NEW pr2 \in [Threads -> Nat], NEW aff, NEW run,
           NEW q, QueueInv(q, pr, aff, run), NEW t \in run, SameBut(pr2, pr, t), NEW isRunning
    PROVE  /\ QueueInv(ChangePriority(q, t, pr2[t], aff[t], pr, isRunning), pr2, aff, run)
           /\ ChangePriority(q, t, pr2[t], aff[t], pr, isRunning).active = q.active
<1> DEFINE out == RemoveFrom(q, t, q.active[t], aff[t])
           rest == run \ {t}
<1>1. t \in Threads
  BY DEF QueueInv
<1>2. QueueInv(out, pr, aff, rest) /\ out.active = q.active
  BY ONLY <1>1, QueueInv(q, pr, aff, run), RemoveExact, Z3
<1>3. t \notin rest /\ rest \cup {t} = run
  OBVIOUS
<1> HIDE DEF out, rest
<1>4. /\ QueueInv(Push(out, t, pr2[t], aff[t], pr, isRunning), pr2, aff, rest \cup {t})
      /\ Push(out, t, pr2[t], aff[t], pr, isRunning).active = out.active
  BY <1>1, <1>2, <1>3, PushExact
<1> QED
  BY <1>2, <1>3, <1>4 DEF ChangePriority, out

\* The queue r differs from q in that t has the core a.
HasCore(r, q, t, a) == r.active = [q.active EXCEPT ![t] = a]

LEMMA AffinityExact ==
    ASSUME NEW pr, NEW aff, NEW aff2 \in [Threads -> SUBSET Cores],
           NEW run, NEW q, QueueInv(q, pr, aff, run), NEW t \in run,
           NEW a \in Cores \cup {NoCore}, a = NoCore \/ a \in aff2[t], SameBut(aff2, aff, t)
    PROVE  /\ QueueInv(ChangeAffinityMask(q, t, aff[t], aff2[t], a, pr), pr, aff2, run)
           /\ HasCore(ChangeAffinityMask(q, t, aff[t], aff2[t], a, pr), q, t, a)
<1> DEFINE old == q.active[t]
           M(s, leaves, joins) ==
               LET rest == IF leaves THEN Without(s, t) ELSE s
               IN IF joins THEN Behind(rest, t, pr[t], pr) ELSE rest
           x == [c \in Cores |-> M(q.scheduled[c], c \in aff[t] /\ c = old,
                                   c \in aff2[t] /\ c = a)]
           y == [c \in Cores |-> M(q.suggested[c], c \in aff[t] \ {old}, c \in aff2[t] \ {a})]
           active == [q.active EXCEPT ![t] = a]
           r == ChangeAffinityMask(q, t, aff[t], aff2[t], a, pr)
<1>1. r = [scheduled |-> x, suggested |-> y, active |-> active]
  BY DEF ChangeAffinityMask
<1>2. /\ q.active \in [Threads -> Cores \cup {NoCore}]
      /\ active \in [Threads -> Cores \cup {NoCore}] /\ active[t] = a
      /\ SameBut(active, q.active, t) /\ SameBut(pr, pr, t)
      /\ t \in Threads /\ run \in SUBSET Threads /\ pr \in [Threads -> Nat]
      /\ old = NoCore \/ old \in aff[t]
  BY DEF QueueInv, SameBut
<1>3. ASSUME NEW c \in Cores
      PROVE  /\ Relisted(x[c], q.scheduled[c], t, Scheduled(active, run, c), pr, pr)
             /\ Relisted(y[c], q.suggested[c], t, Suggested(active, aff2, run, c), pr, pr)
  <2>1. /\ ~(c \in aff[t] /\ c = old) => Without(q.scheduled[c], t) = q.scheduled[c]
        /\ ~(c \in aff[t] \ {old}) => Without(q.suggested[c], t) = q.suggested[c]
    BY <1>2, QueueHolds DEF NoCore, Cores, SchedulerAssumption
  <2>2. /\ t \in Scheduled(active, run, c) <=> c \in aff2[t] /\ c = a
        /\ t \in Suggested(active, aff2, run, c) <=> c \in aff2[t] \ {a}
    BY <1>2 DEF Scheduled, Suggested, NoCore, Cores, SchedulerAssumption
  <2>3. /\ x[c] = M(q.scheduled[c], c \in aff[t] /\ c = old, c \in aff2[t] /\ c = a)
        /\ y[c] = M(q.suggested[c], c \in aff[t] \ {old}, c \in aff2[t] \ {a})
    OBVIOUS
  <2>4. /\ x[c] = IF c \in aff2[t] /\ c = a THEN Behind(Without(q.scheduled[c], t), t, pr[t], pr)
                  ELSE Without(q.scheduled[c], t)
        /\ y[c] = IF c \in aff2[t] \ {a} THEN Behind(Without(q.suggested[c], t), t, pr[t], pr)
                  ELSE Without(q.suggested[c], t)
    <3> HIDE DEF x, y, old, active
    <3> QED
      BY <2>1, <2>3
  <2> HIDE DEF x, y, old, active, M
  <2> QED
    BY <2>2, <2>4 DEF Relisted
<1>4. x = [c \in Cores |-> x[c]] /\ y = [c \in Cores |-> y[c]]
  OBVIOUS
<1> HIDE DEF x, y, old, active, r
<1>5. r.scheduled = x /\ r.suggested = y /\ r.active = active
  BY <1>1
<1>6. MovesIn(r, q, t, pr, pr, aff, aff2, run, run)
  BY <1>2, <1>3, <1>4, <1>5 DEF MovesIn
<1>7. QueueInv(r, pr, aff2, run)
  BY <1>2, <1>6, Moved
<1> QED
  BY <1>5, <1>7 DEF active, r, HasCore

LEMMA CoreExact ==
    ASSUME SchedulerAssumption, NEW pr, NEW aff, NEW run, NEW q, QueueInv(q, pr, aff, run),
           NEW t \in run, NEW a \in Cores \cup {NoCore}, a = NoCore \/ a \in aff[t], NEW toFront
    PROVE  /\ QueueInv(ChangeCore(q, t, a, pr, toFront), pr, aff, run)
           /\ HasCore(ChangeCore(q, t, a, pr, toFront), q, t, a)
<1> DEFINE old == q.active[t]
           p == pr[t]
           x == [c \in Cores |->
                    CASE c = old -> Without(q.scheduled[c], t)
                      [] c = a   -> IF toFront THEN Before(q.scheduled[c], t, p, pr)
                                    ELSE Behind(q.scheduled[c], t, p, pr)
                      [] OTHER   -> q.scheduled[c]]
           y == [c \in Cores |->
                    CASE c = a   -> Without(q.suggested[c], t)
                      [] c = old -> Behind(q.suggested[c], t, p, pr)
                      [] OTHER   -> q.suggested[c]]
           active == [q.active EXCEPT ![t] = a]
           r == ChangeCore(q, t, a, pr, toFront)
<1>1. /\ q.active \in [Threads -> Cores \cup {NoCore}]
      /\ active \in [Threads -> Cores \cup {NoCore}] /\ active[t] = a
      /\ SameBut(active, q.active, t) /\ SameBut(pr, pr, t) /\ SameBut(aff, aff, t)
      /\ t \in Threads /\ run \in SUBSET Threads /\ pr \in [Threads -> Nat]
      /\ aff \in [Threads -> SUBSET Cores]
      /\ old = NoCore \/ old \in aff[t]
  BY DEF QueueInv, SameBut
<1>2. CASE a = old
  <2>1. r = q /\ active = q.active
    BY <1>1, <1>2 DEF ChangeCore
  <2> QED
    BY <2>1 DEF HasCore
<1>3. CASE a # old
  <2>1. r = [scheduled |-> x, suggested |-> y, active |-> active]
    BY <1>3 DEF ChangeCore
  <2>2. ASSUME NEW c \in Cores
        PROVE  /\ Relisted(x[c], q.scheduled[c], t, Scheduled(active, run, c), pr, pr)
               /\ Relisted(y[c], q.suggested[c], t, Suggested(active, aff, run, c), pr, pr)
    <3>1. c # NoCore
      BY DEF NoCore, Cores, SchedulerAssumption
    <3>2. /\ c # old => Without(q.scheduled[c], t) = q.scheduled[c]
          /\ ~(c # old /\ c \in aff[t]) => Without(q.suggested[c], t) = q.suggested[c]
          /\ t \in ToSet(q.suggested[c]) <=> c # old /\ c \in aff[t]
      BY <1>1, QueueHolds
    <3>3. /\ t \in Scheduled(active, run, c) <=> c = a
          /\ t \in Suggested(active, aff, run, c) <=> c # a /\ c \in aff[t]
      BY <1>1 DEF Scheduled, Suggested
    <3>4. x[c] = CASE c = old -> Without(q.scheduled[c], t)
                   [] c = a   -> IF toFront THEN Before(q.scheduled[c], t, p, pr)
                                 ELSE Behind(q.scheduled[c], t, p, pr)
                   [] OTHER   -> q.scheduled[c]
      OBVIOUS
    <3>5. y[c] = CASE c = a   -> Without(q.suggested[c], t)
                   [] c = old -> Behind(q.suggested[c], t, p, pr)
                   [] OTHER   -> q.suggested[c]
      OBVIOUS
    <3> HIDE DEF x, y, old, active, r
    <3>6. Relisted(x[c], q.scheduled[c], t, Scheduled(active, run, c), pr, pr)
      <4>1. CASE c = old
        BY <1>3, <3>2, <3>3, <3>4, <4>1 DEF Relisted
      <4>2. CASE c = a
        <5>1. x[c] = IF toFront THEN Before(q.scheduled[c], t, p, pr)
                     ELSE Behind(q.scheduled[c], t, p, pr)
          BY <1>3, <3>4, <4>2
        <5> QED
          BY <1>3, <3>2, <3>3, <4>2, <5>1 DEF Relisted
      <4>3. CASE c # old /\ c # a
        BY <3>2, <3>3, <3>4, <4>3 DEF Relisted
      <4> QED
        BY <4>1, <4>2, <4>3
    <3>7. Relisted(y[c], q.suggested[c], t, Suggested(active, aff, run, c), pr, pr)
      <4>1. CASE c = a
        BY <1>3, <3>2, <3>3, <3>5, <4>1 DEF Relisted
      <4>2. CASE c = old
        BY <1>1, <1>3, <3>1, <3>2, <3>3, <3>5, <4>2 DEF Relisted
      <4>3. CASE c # old /\ c # a
        BY <3>2, <3>3, <3>5, <4>3 DEF Relisted
      <4> QED
        BY <4>1, <4>2, <4>3
    <3> QED
      BY <3>6, <3>7
  <2>3. x = [c \in Cores |-> x[c]] /\ y = [c \in Cores |-> y[c]]
    OBVIOUS
  <2> HIDE DEF x, y, old, active, r
  <2>4. r.scheduled = x /\ r.suggested = y /\ r.active = active
    BY <2>1
  <2>5. MovesIn(r, q, t, pr, pr, aff, aff, run, run)
    BY <1>1, <2>2, <2>3, <2>4 DEF MovesIn
  <2>6. QueueInv(r, pr, aff, run)
    BY <1>1, <2>5, Moved
  <2> QED
    BY <2>4, <2>6 DEF active, r, HasCore
<1> QED
  BY <1>2, <1>3

LEMMA BackExact ==
    ASSUME NEW pr, NEW aff, NEW run, NEW q, QueueInv(q, pr, aff, run), NEW t \in run
    PROVE  /\ QueueInv(MoveToScheduledBack(q, t, pr), pr, aff, run)
           /\ MoveToScheduledBack(q, t, pr).active = q.active
<1> DEFINE x == [c \in Cores |-> IF c = q.active[t]
                                 THEN Behind(Without(q.scheduled[c], t), t, pr[t], pr)
                                 ELSE q.scheduled[c]]
           r == MoveToScheduledBack(q, t, pr)
<1>1. r.scheduled = x /\ r.suggested = q.suggested /\ r.active = q.active
  BY DEF MoveToScheduledBack
<1>2. /\ q.active \in [Threads -> Cores \cup {NoCore}]
      /\ SameBut(q.active, q.active, t) /\ SameBut(pr, pr, t) /\ SameBut(aff, aff, t)
      /\ t \in Threads /\ run \in SUBSET Threads /\ pr \in [Threads -> Nat]
      /\ aff \in [Threads -> SUBSET Cores]
      /\ q.active[t] = NoCore \/ q.active[t] \in aff[t]
      /\ q.suggested = [c \in Cores |-> q.suggested[c]]
  BY DEF QueueInv, SameBut
<1>3. ASSUME NEW c \in Cores
      PROVE  /\ Relisted(x[c], q.scheduled[c], t, Scheduled(q.active, run, c), pr, pr)
             /\ Relisted(q.suggested[c], q.suggested[c], t, Suggested(q.active, aff, run, c),
                         pr, pr)
  <2>1. /\ c # q.active[t] => Without(q.scheduled[c], t) = q.scheduled[c]
        /\ t \in ToSet(q.suggested[c]) <=> q.active[t] # c /\ c \in aff[t]
        /\ ~(q.active[t] # c /\ c \in aff[t]) => Without(q.suggested[c], t) = q.suggested[c]
    BY <1>2, QueueHolds
  <2>2. /\ t \in Scheduled(q.active, run, c) <=> c = q.active[t]
        /\ t \in Suggested(q.active, aff, run, c) <=> q.active[t] # c /\ c \in aff[t]
    BY DEF Scheduled, Suggested
  <2>3. x[c] = IF c = q.active[t] THEN Behind(Without(q.scheduled[c], t), t, pr[t], pr)
               ELSE q.scheduled[c]
    OBVIOUS
  <2> HIDE DEF x
  <2> QED
    BY <2>1, <2>2, <2>3 DEF Relisted
<1>4. x = [c \in Cores |-> x[c]]
  OBVIOUS
<1> HIDE DEF x, r
<1>5. MovesIn(r, q, t, pr, pr, aff, aff, run, run)
  BY <1>1, <1>2, <1>3, <1>4 DEF MovesIn
<1>6. QueueInv(r, pr, aff, run)
  BY <1>2, <1>5, Moved
<1> QED
  BY <1>1, <1>6 DEF r

-----------------------------------------------------------------------------
(* What a critical section's end chooses.                                  *)

\* The queue r is one that q may become, and the top threads have cores in it.
Chosen(r, top, q) ==
    /\ QueueInv(r, prio', affinity', runnable')
    /\ Moves(q, r, affinity')
    /\ top \in [Cores -> Runners]
    /\ \A c \in Cores : top[c] \in Threads => r.active[top[c]] \in Cores

LEMMA SuggestedMay ==
    ASSUME NEW q, NEW pr, NEW aff, NEW run, QueueInv(q, pr, aff, run), NEW c \in Cores,
           NEW t \in ToSet(q.suggested[c])
    PROVE  t \in run /\ t \in Threads /\ c \in aff[t]
<1>1. ToSet(q.suggested[c]) = Suggested(q.active, aff, run, c) /\ run \in SUBSET Threads
  BY DEF QueueInv, Ordered
<1> QED
  BY <1>1 DEF Suggested

\* A core takes a thread that is suggested to it.
LEMMA TakesSuggested ==
    ASSUME SchedulerAssumption, NEW q, NEW r, NEW top, Chosen(r, top, q), NEW c \in Cores,
           NEW t \in ToSet(r.suggested[c]), NEW top2 \in [Cores -> Runners],
           \A k \in Cores : \/ top2[k] \in {top[k], t}
                            \/ top2[k] \in Threads /\ r.active[top2[k]] \in Cores
    PROVE  Chosen(ChangeCore(r, t, c, prio', FALSE), top2, q)
<1> DEFINE r2 == ChangeCore(r, t, c, prio', FALSE)
<1>1. /\ QueueInv(r, prio', affinity', runnable')
      /\ r.active \in [Threads -> Cores \cup {NoCore}]
      /\ Moves(q, r, affinity')
      /\ \A k \in Cores : top[k] \in Threads => r.active[top[k]] \in Cores
  BY DEF Chosen, QueueInv
<1>2. t \in runnable' /\ t \in Threads /\ c \in affinity'[t]
  BY ONLY <1>1, SuggestedMay, c \in Cores, t \in ToSet(r.suggested[c]), Z3
<1>8. c \in Cores \cup {NoCore} /\ (c = NoCore \/ c \in affinity'[t])
  BY <1>2
<1>3. QueueInv(r2, prio', affinity', runnable')
  BY <1>1, <1>2, <1>8, CoreExact, Zenon
<1>9. HasCore(r2, r, t, c)
  BY <1>1, <1>2, <1>8, CoreExact, Zenon
<1> HIDE DEF r2
<1>4. /\ r2.active[t] = c
      /\ \A u \in Threads : u # t => r2.active[u] = r.active[u]
  BY <1>1, <1>2, <1>9 DEF HasCore
<1>5. Moves(q, r2, affinity')
  BY <1>1, <1>2, <1>4 DEF Moves
<1>6. \A u \in Threads : r.active[u] \in Cores => r2.active[u] \in Cores
  BY <1>4
<1>7. \A k \in Cores : top2[k] \in Threads => r2.active[top2[k]] \in Cores
  BY <1>1, <1>4, <1>6
<1> QED
  BY <1>3, <1>5, <1>7 DEF Chosen, r2

\* The thread behind t on its core has the same core.
LEMMA SpareHasCore ==
    ASSUME NEW q, NEW pr, NEW aff, NEW run, QueueInv(q, pr, aff, run), NEW t \in Threads,
           q.active[t] \in Cores, NextOf(q.scheduled[q.active[t]], t) # Idle
    PROVE  /\ NextOf(q.scheduled[q.active[t]], t) \in Threads
           /\ q.active[NextOf(q.scheduled[q.active[t]], t)] \in Cores
<1> DEFINE c == q.active[t]
           l == q.scheduled[c]
           us == {l[i] : i \in {j \in 2 .. Len(l) : l[j - 1] = t}}
           u == NextOf(l, t)
<1>1. /\ l \in Seq(Threads) /\ ToSet(l) = Scheduled(q.active, run, c)
      /\ run \in SUBSET Threads
  BY DEF QueueInv, Ordered
<1>2. u = FirstOf(l, us)
  BY DEF NextOf
<1>3. u # Idle /\ c \in Cores
  OBVIOUS
<1> HIDE DEF l, us, u, c
<1>4. u \in ToSet(l)
  BY <1>1, <1>2, <1>3, FirstOfIs
<1>5. u \in Threads /\ q.active[u] = c
  BY <1>1, <1>4 DEF Scheduled
<1> QED
  BY <1>3, <1>5 DEF u, l, c

LEMMA FillKeeps ==
    ASSUME SchedulerAssumption, NEW q, NEW s, Chosen(s.q, s.top, q), NEW c \in Cores
    PROVE  Chosen(FillIdleCore(s, c).q, FillIdleCore(s, c).top, q)
<1> DEFINE r == s.q
           top == s.top
           waits == {t \in Threads : TopOn(s.top, r, t) # t}
           waiting == FirstOf(r.suggested[c], waits)
           spare(t) == NextOf(r.scheduled[r.active[t]], t)
           spares == {t \in ToSet(r.suggested[c]) : spare(t) # Idle}
           moved == FirstOf(r.suggested[c], spares)
           f == FillIdleCore(s, c)
           u == spare(moved)
           top1 == [top EXCEPT ![c] = waiting]
           top2 == [top EXCEPT ![r.active[moved]] = u, ![c] = moved]
<1>1. \/ f = s
      \/ /\ waiting # Idle
         /\ f = [q |-> ChangeCore(r, waiting, c, prio', FALSE), top |-> top1]
      \/ /\ waiting = Idle /\ moved # Idle
         /\ f = [q |-> ChangeCore(r, moved, c, prio', FALSE), top |-> top2]
  BY DEF FillIdleCore
<1>2. /\ QueueInv(r, prio', affinity', runnable')
      /\ r.active \in [Threads -> Cores \cup {NoCore}]
      /\ r.suggested[c] \in Seq(Threads)
      /\ top \in [Cores -> Runners]
  BY DEF Chosen, QueueInv
<1>3. Chosen(r, top, q)
  OBVIOUS
<1>4. waits = {t \in Threads : TopOn(top, r, t) # t}
  OBVIOUS
<1>5. waiting # Idle => waiting \in ToSet(r.suggested[c])
  BY <1>2, FirstOfIs
<1>6. waiting = Idle /\ Idle \notin Threads => ToSet(r.suggested[c]) \cap waits = {}
  <2>1. waits \subseteq Threads
    OBVIOUS
  <2> HIDE DEF r, waits
  <2> QED
    BY <1>2, <2>1, FirstOfIs
<1>7. moved # Idle => moved \in ToSet(r.suggested[c]) /\ spare(moved) # Idle
  <2>1. moved # Idle => moved \in ToSet(r.suggested[c]) \cap spares
    <3> HIDE DEF r, spares
    <3> QED
      BY <1>2, FirstOfIs
  <2> HIDE DEF moved, r
  <2> QED
    BY <2>1
<1>8. ASSUME NEW t \in ToSet(r.suggested[c])
      PROVE  t \in Threads
  BY <1>2, <1>8, SuggestedMay
<1> HIDE DEF f, r, top, waits, waiting, moved
<1>9. CASE waiting # Idle /\ f = [q |-> ChangeCore(r, waiting, c, prio', FALSE), top |-> top1]
  <2>1. waiting \in ToSet(r.suggested[c]) /\ waiting \in Threads
    BY <1>5, <1>8, <1>9
  <2>2. top1 \in [Cores -> Runners] /\ \A k \in Cores : top1[k] \in {top[k], waiting}
    BY <1>2, <2>1 DEF Runners
  <2> HIDE DEF top1
  <2>3. Chosen(ChangeCore(r, waiting, c, prio', FALSE), top1, q)
    BY <1>3, <2>1, <2>2, TakesSuggested
  <2>4. f.q = ChangeCore(r, waiting, c, prio', FALSE) /\ f.top = top1
    BY <1>9
  <2>5. Chosen(f.q, f.top, q)
    BY <2>3, <2>4
  <2> QED
    BY <2>5 DEF f
<1>10. CASE /\ waiting = Idle /\ moved # Idle
            /\ f = [q |-> ChangeCore(r, moved, c, prio', FALSE), top |-> top2]
  <2>1. moved \in ToSet(r.suggested[c]) /\ moved \in Threads /\ u # Idle
    BY <1>7, <1>8, <1>10
  <2>2. TopOn(top, r, moved) = moved
    BY <1>4, <1>6, <1>10, <2>1 DEF SchedulerAssumption
  <2>3. r.active[moved] \in Cores
    <3>1. r.active[moved] # NoCore
      BY <2>1, <2>2 DEF TopOn, SchedulerAssumption
    <3> QED
      BY <1>2, <2>1, <3>1
  <2>4. u \in Threads /\ r.active[u] \in Cores
    BY <1>2, <2>1, <2>3, SpareHasCore
  <2> HIDE DEF u
  <2>5. \A k \in Cores :
            \/ top2[k] \in {top[k], moved}
            \/ top2[k] \in Threads /\ r.active[top2[k]] \in Cores
    BY <1>2, <2>4
  <2>6. top2 \in [Cores -> Runners]
    BY <1>2, <2>1, <2>4 DEF Runners
  <2> HIDE DEF top2
  <2>7. Chosen(ChangeCore(r, moved, c, prio', FALSE), top2, q)
    BY <1>3, <2>1, <2>4, <2>5, <2>6, TakesSuggested
  <2>8. f.q = ChangeCore(r, moved, c, prio', FALSE) /\ f.top = top2
    BY <1>10
  <2>9. Chosen(f.q, f.top, q)
    BY <2>7, <2>8
  <2> QED
    BY <2>9 DEF f
<1> QED
  BY <1>1, <1>3, <1>9, <1>10 DEF f, r, top

\* The recursion of Selection.
LEMMA SelectionRecursion ==
    ASSUME SchedulerAssumption, NEW q
    PROVE  \E f : /\ \A n \in 0 .. NumCores :
                         f[n] = IF n = 0
                                THEN {[q |-> q, top |-> [c \in Cores |-> TopThread(q, c)]]}
                                ELSE IF q.scheduled[n - 1] = <<>>
                                THEN {FillIdleCore(s, n - 1) : s \in f[n - 1]}
                                ELSE f[n - 1]
                  /\ Selection(q) = f[NumCores]
<1> DEFINE first == {[q |-> q, top |-> [c \in Cores |-> TopThread(q, c)]]}
           Then(l, n) == IF q.scheduled[n - 1] = <<>>
                         THEN {FillIdleCore(s, n - 1) : s \in l} ELSE l
           Upto(f, n) == f = [i \in 0 .. n |-> IF i = 0 THEN first ELSE Then(f[i - 1], i)]
           N == {n \in Nat : ~\E f : Upto(f, n)}
<1>1. N = {}
  <2> HIDE DEF first, Then
  <2> SUFFICES ASSUME N # {} PROVE FALSE
    OBVIOUS
  <2>1. PICK n \in N : \A m \in N : n <= m
    <3> HIDE DEF N
    <3>1. N \subseteq Nat
      BY DEF N
    <3> QED
      BY <3>1, Least
  <2>2. n # 0
    <3> SUFFICES ASSUME n = 0 PROVE FALSE
      OBVIOUS
    <3> DEFINE f == [i \in 0 .. n |-> first]
    <3>1. Upto(f, n)
      <4> SUFFICES \A i \in 0 .. n : first = IF i = 0 THEN first ELSE Then(f[i - 1], i)
        OBVIOUS
      <4> QED
        OBVIOUS
    <3> HIDE DEF f, Upto
    <3> QED
      BY <2>1, <3>1, Zenon
  <2>3. n - 1 \in Nat /\ n - 1 \notin N
    <3>1. n \in Nat
      OBVIOUS
    <3> HIDE DEF N
    <3> QED
      BY <2>1, <2>2, <3>1
  <2>4. PICK g : Upto(g, n - 1)
    BY <2>3
  <2> DEFINE f == [i \in 0 .. n |-> IF i = n THEN Then(g[n - 1], n) ELSE g[i]]
  <2>5. ASSUME NEW i \in 0 .. n
        PROVE  f[i] = IF i = 0 THEN first ELSE Then(f[i - 1], i)
    <3>1. CASE i = n
      BY <3>1, <2>2, <2>3
    <3>2. CASE i # n
      <4>1. i \in 0 .. (n - 1) /\ (i # 0 => i - 1 \in 0 .. (n - 1))
        BY <3>2, <2>1
      <4>2. g[i] = IF i = 0 THEN first ELSE Then(g[i - 1], i)
        BY <4>1, <2>4
      <4> QED
        BY <4>1, <4>2, <3>2
    <3> QED
      BY <3>1, <3>2
  <2>6. Upto(f, n)
    <3>1. DOMAIN f = 0 .. n /\ f = [i \in 0 .. n |-> f[i]]
      OBVIOUS
    <3> HIDE DEF f
    <3> QED
      BY <3>1, <2>5
  <2> QED
    BY <2>1, <2>6
<1> DEFINE filled == CHOOSE f : Upto(f, NumCores)
<1>2. \E f : Upto(f, NumCores)
  BY <1>1 DEF SchedulerAssumption
<1>3. Upto(filled, NumCores)
  <2> HIDE DEF Upto
  <2> QED
    BY <1>2, Zenon
<1>4. Selection(q) = filled[NumCores]
  BY DEF Selection
<1> HIDE DEF filled
<1>5. \A n \in 0 .. NumCores : filled[n] = IF n = 0 THEN first ELSE Then(filled[n - 1], n)
  <2> HIDE DEF first, Then
  <2> QED
    BY <1>3
<1> QED
  BY <1>4, <1>5

\* The pinned threads have cores.
PinsHaveCores(q) == \A c \in Cores : pinned'[c] \in Threads => q.active[pinned'[c]] \in Cores

\* The choice before any thread migrates.
LEMMA TopThreadsChosen ==
    ASSUME SchedulerAssumption, NEW q, QueueInv(q, prio', affinity', runnable'),
           PinsHaveCores(q), pinned' \in [Cores -> Runners]
    PROVE  Chosen(q, [c \in Cores |-> TopThread(q, c)], q)
<1> DEFINE top == [c \in Cores |-> TopThread(q, c)]
<1>1. ASSUME NEW c \in Cores
      PROVE  top[c] \in Runners /\ (top[c] \in Threads => q.active[top[c]] \in Cores)
  <2> DEFINE front == ScheduledFront(q, c)
             l == q.scheduled[c]
  <2>1. /\ l \in Seq(Threads) /\ ToSet(l) = Scheduled(q.active, runnable', c)
        /\ runnable' \in SUBSET Threads
    BY DEF QueueInv, Ordered
  <2>2. front = FrontOf(l)
    BY DEF ScheduledFront, NoCore, Cores, SchedulerAssumption
  <2> HIDE DEF front, l
  <2>3. front = Idle \/ front \in ToSet(l)
    BY <2>1, <2>2, FrontOfIs
  <2>4. front = Idle \/ (front \in Threads /\ q.active[front] = c)
    BY <2>1, <2>3 DEF Scheduled
  <2>5. top[c] \in {Idle, front, pinned'[c]}
    BY DEF TopThread, front
  <2> HIDE DEF top
  <2> QED
    BY <2>4, <2>5 DEF Runners, PinsHaveCores, SchedulerAssumption
<1>2. top \in [Cores -> Runners]
  BY <1>1
<1>3. Moves(q, q, affinity')
  BY DEF Moves
<1> HIDE DEF top
<1>4. Chosen(q, top, q)
  BY <1>1, <1>2, <1>3 DEF Chosen
<1> QED
  BY <1>4 DEF top

LEMMA SelectionChosen ==
    ASSUME SchedulerAssumption, NEW q, QueueInv(q, prio', affinity', runnable'),
           PinsHaveCores(q), pinned' \in [Cores -> Runners], NEW chosen \in Selection(q)
    PROVE  Chosen(chosen.q, chosen.top, q)
<1> DEFINE first == [q |-> q, top |-> [c \in Cores |-> TopThread(q, c)]]
           Fills(l, n) == {FillIdleCore(s, n - 1) : s \in l}
<1>1. PICK f : /\ \A n \in 0 .. NumCores :
                      f[n] = IF n = 0 THEN {first}
                             ELSE IF q.scheduled[n - 1] = <<>> THEN Fills(f[n - 1], n)
                             ELSE f[n - 1]
               /\ Selection(q) = f[NumCores]
  BY SelectionRecursion
<1>2. Chosen(first.q, first.top, q)
  <2>1. first.q = q /\ first.top = [c \in Cores |-> TopThread(q, c)]
    OBVIOUS
  <2> HIDE DEF first
  <2> QED
    BY <2>1, TopThreadsChosen
<1> HIDE DEF first, Fills
<1> DEFINE Good(l) == \A s \in l : Chosen(s.q, s.top, q)
           Bad == {n \in 0 .. NumCores : ~Good(f[n])}
<1>3. ASSUME Bad # {}
      PROVE  FALSE
  <2>1. Bad \subseteq Nat
    BY DEF SchedulerAssumption
  <2>2. PICK n \in Bad : \A m \in Bad : n <= m
    <3> HIDE DEF Bad
    <3> QED
      BY <1>3, <2>1, Least
  <2>3. n # 0
    BY <1>1, <1>2, <2>2
  <2>4. n \in 0 .. NumCores /\ n \in Nat /\ n - 1 \in Cores /\ n - 1 \in 0 .. NumCores /\ ~(n <= n - 1)
    BY <2>3 DEF Cores, SchedulerAssumption
  <2>5. Good(f[n - 1])
    BY <2>2, <2>4
  <2>6. Good(Fills(f[n - 1], n))
    <3> HIDE DEF Bad
    <3> SUFFICES ASSUME NEW s \in f[n - 1]
                 PROVE  Chosen(FillIdleCore(s, n - 1).q, FillIdleCore(s, n - 1).top, q)
      BY DEF Fills
    <3>1. Chosen(s.q, s.top, q)
      BY <2>5
    <3> QED
      BY <2>4, <3>1, FillKeeps, Zenon
  <2>7. Good(f[n])
    <3> HIDE DEF Good, Bad
    <3> QED
      BY <1>1, <2>3, <2>4, <2>5, <2>6
  <2> QED
    BY <2>2, <2>7
<1>4. NumCores \in 0 .. NumCores
  BY DEF SchedulerAssumption
<1> QED
  BY <1>1, <1>3, <1>4

\* A critical section that chooses leaves a queue that is as the threads are.
LEMMA ReselectGives ==
    ASSUME SchedulerAssumption, NEW by, NEW q, NEW counted, Reselect(by, q, counted),
           QueueInv(q, prio', affinity', runnable'), PinsHaveCores(q),
           pinned' \in [Cores -> Runners]
    PROVE  Chosen(queue', highest', q)
<1>1. PICK chosen \in Selection(q) : \E before : Publish(by, chosen, before, counted)
  BY DEF Reselect
<1>2. Chosen(chosen.q, chosen.top, q)
  BY SelectionChosen
<1>3. queue' = chosen.q /\ highest' = chosen.top
  BY <1>1 DEF Publish
<1> QED
  BY <1>2, <1>3

-----------------------------------------------------------------------------
(* A critical section, as far as the queue is concerned.                   *)

\* Whoever has a core has one in q still, but for the threads ts.
HomesKept(q, ts) == \A u \in Threads \ ts : queue.active[u] \in Cores => q.active[u] \in Cores

\* The threads' variables and pins after the section, with the queue q.
ThreadsSettle(q) ==
    /\ QueueInv(q, prio', affinity', runnable')
    /\ prio' \in [Threads -> Priorities] /\ ownMask' \in [Threads -> SUBSET Cores]
    /\ exited' \subseteq Threads /\ kernelWaiters' \subseteq Threads
    /\ pinned' \in [Cores -> Runners]
    /\ \A t \in Threads : affinity'[t] # {}
    /\ \A c \in Cores : pinned'[c] \in Threads =>
           /\ ownMask'[pinned'[c]] # {}
           /\ affinity'[pinned'[c]] = {c}
           /\ q.active[pinned'[c]] = c

\* A section ends by choosing the threads anew, or leaves the choice; the current
\* thread of its core gives its core up only when the choice is made anew.
Chooses(by, q) ==
    /\ \E counted : Reselect(by, q, counted)
    /\ HomesKept(q, IF by = Host THEN {} ELSE {cur[by]})
LeavesChoice(by, q) ==
    /\ by # Host
    /\ \E after \in SUBSET Threads : Keep(by, q, after)
    /\ HomesKept(q, {})

\* Runnable threads keep their priority and, in q, their core.
SamePlaces(q) ==
    /\ runnable' = runnable
    /\ \A u \in runnable : q.active[u] = queue.active[u] /\ prio'[u] = prio[u]
Rests(q) ==
    /\ SamePlaces(q) /\ pinned' = pinned
    /\ \A u \in runnable : affinity'[u] = affinity[u]

\* Only t may yield in vain, and no other thread of its priority has its core.
Alone(q, t) == \A u \in runnable : u # t /\ q.active[u] = q.active[t] => prio[u] # prio[t]
IdlyYields(q, after) ==
    after = {} \/ after = spent \/ \E t \in runnable : after = {t} /\ Alone(q, t)

\* How a section ends, with the queue q: with a choice, which is counted unless
\* runnable threads keep their places, or without.
Ends(by, q) ==
    \/ \E counted : counted /\ Reselect(by, q, counted)
    \/ SamePlaces(q) /\ \E counted : Reselect(by, q, counted)
    \/ /\ by # Host /\ Rests(q)
       /\ \E after \in SUBSET Threads : Keep(by, q, after) /\ IdlyYields(q, after)

Settles(by) ==
    /\ Enters(by) /\ Leaves(by)
    /\ \E q : /\ ThreadsSettle(q) /\ Ends(by, q)
              /\ Chooses(by, q) \/ LeavesChoice(by, q)

LEMMA NextHomes ==
    ASSUME SchedulerAssumption, TypeOK, SchedulerInv, HomeInv,
           NEW by \in Cores \cup {Host}, Enters(by), Leaves(by),
           NEW q, HomesKept(q, IF by = Host THEN {} ELSE {cur[by]}),
           \A u \in Threads : q.active[u] \in Cores => queue'.active[u] \in Cores,
           NEW c \in Cores, phase'[c] = "run", cur'[c] \in Threads
    PROVE  queue'.active[cur'[c]] \in Cores
<1>1. cur' = cur /\ c # by /\ phase[c] = "run" /\ cur[c] \in Threads
  BY DEF Leaves, TypeOK, SchedulerAssumption
<1>2. queue.active[cur[c]] \in Cores
  BY <1>1 DEF HomeInv
<1>3. by # Host => cur[by] # cur[c]
  <2>1. SUFFICES ASSUME by # Host, cur[by] = cur[c] PROVE FALSE
    OBVIOUS
  <2>2. by \in Cores /\ phase[by] = "run"
    BY <2>1 DEF Enters
  <2>3. guard[cur[c]] = c /\ guard[cur[by]] = by
    BY <1>1, <2>1, <2>2 DEF SchedulerInv, ContextHeld, Executing
  <2> QED
    BY <1>1, <2>1, <2>3
<1>4. q.active[cur[c]] \in Cores
  BY <1>1, <1>2, <1>3 DEF HomesKept
<1> QED
  BY <1>1, <1>4

\* What every section says of the variables that are not the threads'.
LEMMA SectionTypes ==
    ASSUME SchedulerAssumption, TypeOK, NEW by \in Cores \cup {Host}, Enters(by), Leaves(by),
           NEW q, Chooses(by, q) \/ LeavesChoice(by, q)
    PROVE  /\ spent' \subseteq Threads
           /\ needs' \in [Cores -> BOOLEAN]
           /\ cur' \in [Cores -> Runners]
           /\ phase' \in [Cores -> {"run", "unlock", "load", "switch", "check", "reload"}]
           /\ target' \in [Cores -> Runners]
           /\ guard' \in [Threads -> Cores \cup {Free}]
           /\ interrupted' \in [Cores -> BOOLEAN]
           /\ ipi' \in [Cores -> SUBSET Cores]
<1>1. /\ cur' \in [Cores -> Runners] /\ target' \in [Cores -> Runners]
      /\ guard' \in [Threads -> Cores \cup {Free}]
  BY DEF TypeOK, Leaves
<1>0. by = Host \/ (by # Host /\ by \in Cores)
  OBVIOUS
<1>2. phase' \in [Cores -> {"run", "unlock", "load", "switch", "check", "reload"}]
  <2> DEFINE Steps == {"run", "unlock", "load", "switch", "check", "reload"}
  <2>1. phase \in [Cores -> Steps] /\ "unlock" \in Steps
    BY DEF TypeOK
  <2>2. phase' = phase \/ (by \in Cores /\ phase' = [phase EXCEPT ![by] = "unlock"])
    BY <1>0 DEF Leaves
  <2> HIDE DEF Steps
  <2>3. phase' \in [Cores -> Steps]
    BY <2>1, <2>2
  <2> QED
    BY <2>3 DEF Steps
<1>3. CASE Chooses(by, q)
  <2>1. PICK counted : Reselect(by, q, counted)
    BY <1>3 DEF Chooses
  <2>2. PICK chosen, before : Publish(by, chosen, before, counted)
    BY <2>1 DEF Reselect
  <2> DEFINE changed == {c \in Cores : {highest[c], chosen.top[c]} # {before[c]}}
  <2>3. /\ needs' = [c \in Cores |-> needs[c] \/ c \in changed]
        /\ by = Host => /\ interrupted' = [c \in Cores |-> interrupted[c] \/ c \in changed]
                        /\ UNCHANGED ipi
        /\ by # Host => ipi' = [ipi EXCEPT ![by] = changed \ {by}]
    BY <2>2 DEF Publish
  <2>4. spent' \subseteq Threads
    BY <2>2 DEF Publish, TypeOK
  <2>5. changed \in SUBSET Cores
    OBVIOUS
  <2> HIDE DEF changed
  <2>6. needs' \in [Cores -> BOOLEAN]
    BY <2>3
  <2>7. interrupted' \in [Cores -> BOOLEAN]
    <3>1. CASE by = Host
      BY <2>3, <3>1
    <3>2. CASE by # Host
      BY <3>2 DEF TypeOK, Leaves
    <3> QED
      BY <3>1, <3>2
  <2>8. ipi' \in [Cores -> SUBSET Cores]
    <3>1. ipi \in [Cores -> SUBSET Cores] /\ changed \ {by} \in SUBSET Cores
      BY <2>5 DEF TypeOK
    <3>2. ipi' = ipi \/ (by \in Cores /\ ipi' = [ipi EXCEPT ![by] = changed \ {by}])
      BY <1>0, <2>3
    <3> QED
      BY <3>1, <3>2
  <2> QED
    BY <1>1, <1>2, <2>4, <2>6, <2>7, <2>8
<1>4. CASE LeavesChoice(by, q)
  <2>1. /\ UNCHANGED <<needs, ipi>> /\ spent' \subseteq Threads /\ UNCHANGED interrupted
    BY <1>4 DEF LeavesChoice, Keep, Leaves
  <2> QED
    BY <1>1, <1>2, <2>1 DEF TypeOK
<1> QED
  BY <1>3, <1>4

LEMMA SettlesKeeps ==
    ASSUME SchedulerAssumption, ChoiceInv, SchedulerInv, NEW by \in Cores \cup {Host},
           Settles(by)
    PROVE  ChoiceInv'
<1>1. PICK q : ThreadsSettle(q) /\ (Chooses(by, q) \/ LeavesChoice(by, q))
  BY DEF Settles
<1>2. Enters(by) /\ Leaves(by) /\ TypeOK /\ HomeInv
  BY DEF Settles, ChoiceInv
<1>3. /\ QueueInv(queue', prio', affinity', runnable')
      /\ Moves(q, queue', affinity')
      /\ highest' \in [Cores -> Runners]
      /\ \A c \in Cores : highest'[c] \in Threads => queue'.active[highest'[c]] \in Cores
  <2>1. CASE Chooses(by, q)
    <3>1. PICK counted : Reselect(by, q, counted)
      BY <2>1 DEF Chooses
    <3>2. /\ QueueInv(q, prio', affinity', runnable') /\ pinned' \in [Cores -> Runners]
          /\ PinsHaveCores(q)
      BY <1>1 DEF ThreadsSettle, PinsHaveCores
    <3>3. Chosen(queue', highest', q)
      BY <3>1, <3>2, ReselectGives, Zenon
    <3> QED
      BY <3>3 DEF Chosen
  <2>2. CASE LeavesChoice(by, q)
    <3>1. queue' = q /\ highest' = highest /\ HomesKept(q, {})
      BY <2>2 DEF LeavesChoice, Keep
    <3>2. QueueInv(queue', prio', affinity', runnable')
      BY <1>1, <3>1 DEF ThreadsSettle
    <3>3. highest' \in [Cores -> Runners]
      BY <1>2, <3>1 DEF TypeOK
    <3>4. \A c \in Cores : highest'[c] \in Threads => queue'.active[highest'[c]] \in Cores
      BY <1>2, <3>1 DEF HomeInv, HomesKept
    <3> QED
      BY <3>1, <3>2, <3>3, <3>4 DEF Moves
  <2> QED
    BY <1>1, <2>1, <2>2
<1>4. /\ affinity' \in [Threads -> SUBSET Cores] /\ runnable' \subseteq Threads
      /\ queue'.active \in [Threads -> Cores \cup {NoCore}]
      /\ queue'.scheduled \in [Cores -> Seq(Threads)]
      /\ queue'.suggested \in [Cores -> Seq(Threads)]
  BY <1>3 DEF QueueInv
<1>5. TypeOK'
  <2>1. /\ spent' \subseteq Threads
        /\ needs' \in [Cores -> BOOLEAN]
        /\ cur' \in [Cores -> Runners]
        /\ phase' \in [Cores -> {"run", "unlock", "load", "switch", "check", "reload"}]
        /\ target' \in [Cores -> Runners]
        /\ guard' \in [Threads -> Cores \cup {Free}]
        /\ interrupted' \in [Cores -> BOOLEAN]
        /\ ipi' \in [Cores -> SUBSET Cores]
    BY <1>1, <1>2, SectionTypes
  <2> QED
    BY <1>1, <1>3, <1>4, <2>1 DEF TypeOK, ThreadsSettle
<1>6. PinInv'
  <2>1. \A c \in Cores : pinned'[c] \in Threads =>
            /\ ownMask'[pinned'[c]] # {}
            /\ affinity'[pinned'[c]] = {c}
            /\ q.active[pinned'[c]] = c
    BY <1>1 DEF ThreadsSettle
  <2>2. \A c \in Cores : pinned'[c] \in Threads => queue'.active[pinned'[c]] = c
    BY <1>3, <2>1 DEF Moves
  <2> QED
    BY <1>1, <2>1, <2>2 DEF PinInv, ThreadsSettle
<1>7. HomeInv'
  <2>1. HomesKept(q, IF by = Host THEN {} ELSE {cur[by]})
    BY <1>1 DEF Chooses, LeavesChoice, HomesKept
  <2>2. \A u \in Threads : q.active[u] \in Cores => queue'.active[u] \in Cores
    BY <1>3, <1>4 DEF Moves
  <2>3. \A c \in Cores : phase'[c] = "run" /\ cur'[c] \in Threads =>
                             queue'.active[cur'[c]] \in Cores
    BY <1>2, <2>1, <2>2, NextHomes
  <2> QED
    BY <1>3, <2>3 DEF HomeInv
<1> QED
  BY <1>3, <1>5, <1>6, <1>7 DEF ChoiceInv

-----------------------------------------------------------------------------
(* The operations, one by one.                                             *)

LEMMA CountedEnds ==
    ASSUME NEW by, NEW q, NEW counted, counted, Reselect(by, q, counted)
    PROVE  Ends(by, q)
BY Zenon DEF Ends

LEMMA UncountedEnds ==
    ASSUME NEW by, NEW q, NEW counted, Reselect(by, q, counted), SamePlaces(q)
    PROVE  Ends(by, q)
BY Zenon DEF Ends

LEMMA KeepEnds ==
    ASSUME NEW by, by # Host, NEW q, NEW after \in SUBSET Threads, Keep(by, q, after),
           Rests(q), IdlyYields(q, after)
    PROVE  Ends(by, q)
BY Zenon DEF Ends

\* The parts of the invariant.
LEMMA ChoiceParts ==
    ASSUME SchedulerAssumption, ChoiceInv
    PROVE  /\ QueueInv(queue, prio, affinity, runnable)
           /\ prio \in [Threads -> Nat] /\ prio \in [Threads -> Priorities]
           /\ affinity \in [Threads -> SUBSET Cores] /\ ownMask \in [Threads -> SUBSET Cores]
           /\ runnable \in SUBSET Threads
           /\ exited \subseteq Threads /\ kernelWaiters \subseteq Threads
           /\ spent \subseteq Threads /\ pinned \in [Cores -> Runners]
           /\ queue.active \in [Threads -> Cores \cup {NoCore}]
BY DEF ChoiceInv, QueueInv, TypeOK

\* A section that leaves masks and pins alone, and moves threads only to cores of
\* their masks.
LEMMA SettlesByMoves ==
    ASSUME SchedulerAssumption, ChoiceInv, NEW by, Enters(by), Leaves(by),
           NEW q, Ends(by, q), Moves(queue, q, affinity),
           QueueInv(q, prio', affinity', runnable'), prio' \in [Threads -> Priorities],
           exited' \subseteq Threads, kernelWaiters' \subseteq Threads,
           UNCHANGED <<affinity, ownMask, pinned>>
    PROVE  Settles(by)
<1>1. \A ts : HomesKept(q, ts)
  BY ChoiceParts DEF HomesKept, Moves
<1>2. Chooses(by, q) \/ LeavesChoice(by, q)
  BY <1>1 DEF Ends, Chooses, LeavesChoice
<1>3. \A c \in Cores : pinned[c] \in Threads => q.active[pinned[c]] = c
  BY DEF ChoiceInv, PinInv, Moves
<1>4. ThreadsSettle(q)
  BY <1>3, ChoiceParts DEF ThreadsSettle, ChoiceInv, PinInv
<1> QED
  BY <1>2, <1>4 DEF Settles

LEMMA SameMoves ==
    ASSUME NEW q, NEW r, NEW aff, r.active = q.active
    PROVE  Moves(q, r, aff)
BY DEF Moves

LEMMA StopSettles ==
    ASSUME SchedulerAssumption, ChoiceInv, NEW by, NEW t \in Threads, StopThread(by, t)
    PROVE  Settles(by)
<1> DEFINE q == RemoveFrom(queue, t, queue.active[t], affinity[t])
<1>1. QueueInv(q, prio, affinity, runnable \ {t})
  BY ChoiceParts, RemoveExact, Zenon
<1>4. Moves(queue, q, affinity)
  BY SameMoves DEF RemoveFrom
<1>2. /\ Reselect(by, q, TRUE) /\ Enters(by) /\ Leaves(by) /\ runnable' = runnable \ {t}
      /\ UNCHANGED <<prio, affinity, ownMask, exited, kernelWaiters, pinned>>
  BY DEF StopThread
<1> HIDE DEF q
<1>3. Ends(by, q)
  BY <1>2, CountedEnds, Zenon
<1>5. QueueInv(q, prio', affinity', runnable')
  BY <1>1, <1>2
<1> QED
  BY <1>2, <1>3, <1>4, <1>5, ChoiceParts, SettlesByMoves

LEMMA StartSettles ==
    ASSUME SchedulerAssumption, ChoiceInv, NEW by, NEW t \in Threads, StartThread(by, t)
    PROVE  Settles(by)
<1> DEFINE q == Push(queue, t, prio[t], affinity[t], prio, FALSE)
<1>0. SameBut(prio, prio, t) /\ t \notin runnable
  BY DEF SameBut, StartThread
<1>1. QueueInv(q, prio, affinity, runnable \cup {t})
  BY <1>0, ChoiceParts, PushExact, Zenon
<1>6. Moves(queue, q, affinity)
  BY SameMoves DEF Push
<1>2. /\ Reselect(by, q, TRUE) /\ Enters(by) /\ Leaves(by) /\ runnable' = runnable \cup {t}
      /\ UNCHANGED <<prio, affinity, ownMask, exited, kernelWaiters, pinned>>
  BY DEF StartThread
<1> HIDE DEF q
<1>3. Ends(by, q)
  BY <1>2, CountedEnds, Zenon
<1>5. QueueInv(q, prio', affinity', runnable')
  BY <1>1, <1>2
<1> QED
  BY <1>2, <1>3, <1>6, <1>5, ChoiceParts, SettlesByMoves

LEMMA PrioritySettles ==
    ASSUME SchedulerAssumption, ChoiceInv, NEW c \in Cores, NEW t \in Threads,
           NEW p \in Priorities, SetPriority(c, t, p)
    PROVE  Settles(c)
<1>1. /\ Enters(c) /\ Leaves(c) /\ prio' = [prio EXCEPT ![t] = p]
      /\ UNCHANGED <<affinity, ownMask, runnable, exited, kernelWaiters, pinned>>
  BY DEF SetPriority
<1>2. /\ prio' \in [Threads -> Priorities] /\ prio' \in [Threads -> Nat] /\ prio'[t] = p
      /\ SameBut(prio', prio, t) /\ SameBut(affinity, affinity, t)
  <2>1. prio' \in [Threads -> Priorities] /\ prio'[t] = p
    BY <1>1, ChoiceParts
  <2>2. SameBut(prio', prio, t) /\ SameBut(affinity, affinity, t)
    BY <1>1, ChoiceParts DEF SameBut
  <2> QED
    BY <2>1, <2>2 DEF SchedulerAssumption
<1>3. CASE t \in runnable
  <2> DEFINE q == ChangePriority(queue, t, p, affinity[t], prio, t = cur[c])
  <2>1. Reselect(c, q, TRUE)
    BY <1>3 DEF SetPriority
  <2>2. q = ChangePriority(queue, t, prio'[t], affinity[t], prio, t = cur[c])
    BY <1>2
  <2>3. QueueInv(q, prio', affinity, runnable)
    BY <1>2, <1>3, <2>2, ChoiceParts, PriorityExact, Zenon
  <2>4. Moves(queue, q, affinity)
    BY SameMoves DEF ChangePriority, Push, RemoveFrom
  <2> HIDE DEF q
  <2>5. Ends(c, q)
    BY <2>1, CountedEnds, Zenon
  <2>6. QueueInv(q, prio', affinity', runnable')
    BY <1>1, <2>3
  <2> QED
    BY <1>1, <1>2, <2>4, <2>5, <2>6, ChoiceParts, SettlesByMoves
<1>4. CASE t \notin runnable
  <2>1. Keep(c, queue, spent)
    BY <1>4 DEF SetPriority
  <2>2. Ends(c, queue)
    <3>1. Rests(queue) /\ IdlyYields(queue, spent)
      BY <1>1, <1>2, <1>4, ChoiceParts DEF Rests, SamePlaces, SameBut, IdlyYields
    <3> QED
      BY <2>1, <3>1, ChoiceParts, KeepEnds DEF SchedulerAssumption
  <2>3. QueueInv(SetActiveCore(queue, t, queue.active[t]), prio', affinity, runnable)
    <3>1. /\ queue.active[t] \in Cores \cup {NoCore}
          /\ queue.active[t] = NoCore \/ queue.active[t] \in affinity[t]
      BY ChoiceParts DEF QueueInv
    <3> QED
      BY <1>2, <1>4, <3>1, ChoiceParts, OutsideExact
  <2>4. QueueInv(queue, prio', affinity', runnable')
    <3> DEFINE r == SetActiveCore(queue, t, queue.active[t])
    <3>1. r.scheduled = queue.scheduled /\ r.suggested = queue.suggested /\ r.active = queue.active
      BY ChoiceParts DEF SetActiveCore
    <3> HIDE DEF r
    <3>2. QueueInv(r, prio', affinity, runnable)
      BY <2>3 DEF r
    <3> QED
      BY <1>1, <3>1, <3>2 DEF QueueInv
  <2>5. Moves(queue, queue, affinity)
    BY SameMoves
  <2> QED
    BY <1>1, <1>2, <2>2, <2>4, <2>5, ChoiceParts, SettlesByMoves
<1> QED
  BY <1>3, <1>4

LEMMA WaitersSettle ==
    ASSUME SchedulerAssumption, ChoiceInv, NEW c \in Cores, NEW t \in Threads,
           ChangeKernelWaiters(c, t)
    PROVE  Settles(c)
<1>1. /\ Enters(c) /\ Leaves(c) /\ Reselect(c, queue, FALSE)
      /\ kernelWaiters' \in {kernelWaiters \ {t}, kernelWaiters \cup {t}}
      /\ UNCHANGED <<prio, affinity, ownMask, runnable, exited, pinned>>
  BY DEF ChangeKernelWaiters
<1>6. SamePlaces(queue)
  BY <1>1 DEF SamePlaces
<1>2. Ends(c, queue)
  BY <1>1, <1>6, UncountedEnds, Zenon
<1>3. Moves(queue, queue, affinity)
  BY SameMoves
<1>4. QueueInv(queue, prio', affinity', runnable')
  BY <1>1, ChoiceParts
<1>5. kernelWaiters' \subseteq Threads
  BY <1>1, ChoiceParts
<1> QED
  BY <1>1, <1>2, <1>3, <1>4, <1>5, ChoiceParts, SettlesByMoves

\* A thread that yields is runnable and has a core, to which it is not pinned.
LEMMA YieldsFrom ==
    ASSUME SchedulerAssumption, ChoiceInv, NEW c \in Cores, Yields(c)
    PROVE  /\ cur[c] \in runnable /\ cur[c] \in Threads
           /\ queue.active[cur[c]] \in Cores /\ queue.active[cur[c]] \in affinity[cur[c]]
           /\ \A k \in Cores : pinned[k] # cur[c]
           /\ Enters(c) /\ UNCHANGED threadVars
<1>1. cur[c] \in runnable /\ cur[c] \in Threads /\ phase[c] = "run"
  BY ChoiceParts DEF Yields, Enters, SchedulerAssumption
<1>2. queue.active[cur[c]] \in Cores
  BY <1>1 DEF ChoiceInv, HomeInv
<1>3. queue.active[cur[c]] \in affinity[cur[c]]
  <2>1. queue.active[cur[c]] # NoCore
    BY <1>2 DEF NoCore, Cores, SchedulerAssumption
  <2>2. \A t \in Threads : queue.active[t] = NoCore \/ queue.active[t] \in affinity[t]
    BY ChoiceParts DEF QueueInv
  <2> QED
    BY <1>1, <2>1, <2>2
<1> QED
  BY <1>1, <1>2, <1>3 DEF Yields

\* A yield that moves threads only to cores of their masks.
LEMMA YieldSettles ==
    ASSUME SchedulerAssumption, ChoiceInv, NEW c, Enters(c), UNCHANGED threadVars, Leaves(c),
           NEW q, Ends(c, q), QueueInv(q, prio, affinity, runnable), Moves(queue, q, affinity)
    PROVE  Settles(c)
<1>1. UNCHANGED <<prio, affinity, ownMask, runnable, exited, kernelWaiters, pinned>>
  BY DEF threadVars
<1>2. QueueInv(q, prio', affinity', runnable')
  BY <1>1
<1> QED
  BY <1>1, <1>2, ChoiceParts, SettlesByMoves

\* A thread inserted behind its equals has none behind it.
LEMMA BehindIsLast ==
    ASSUME NEW s \in Seq(Threads), NEW pr \in [Threads -> Nat], NEW t \in Threads, t \notin ToSet(s),
           NEW p \in Int, NEW r, r = Behind(s, t, p, pr),
           NEW n \in 1 .. Len(r), r[n] = t, NEW k \in 1 .. Len(r), k > n
    PROVE  pr[r[k]] > p
<1> DEFINE Point(i) == /\ i = 0 \/ pr[s[i]] <= p
                       /\ \A j \in i + 1 .. Len(s) : pr[s[j]] > p
           i == CHOOSE i \in 0 .. Len(s) : Point(i)
<1>1. i \in 0 .. Len(s) /\ Point(i)
  <2>1. \E j \in 0 .. Len(s) : Point(j)
    BY InsertedPoint
  <2> HIDE DEF Point
  <2> QED
    BY <2>1
<1>2. r = InsertAt(s, 1 + i, t)
  BY DEF Behind, Inserted
<1> HIDE DEF i
<1>3. PICK m \in 1 .. (Len(s) + 1) : m = 1 + i
  BY <1>1
<1>4. /\ r \in Seq(Threads) /\ Len(r) = Len(s) + 1
      /\ \A j \in 1 .. (m - 1) : r[j] = s[j]
      /\ \A j \in (m + 1) .. (Len(s) + 1) : r[j] = s[j - 1]
  <2>1. r = InsertAt(s, m, t) /\ m \in 1 .. (Len(s) + 1)
    BY <1>2, <1>3
  <2> QED
    BY ONLY <2>1, s \in Seq(Threads), t \in Threads, InsertAtIs, Zenon
<1>5. (\A j \in 1 .. Len(s) : s[j] # t) /\ Len(s) \in Nat
  BY ToSetIs
<1>6. n = m
  <2>4. 1 .. (m - 1) \subseteq 1 .. Len(s)
    BY <1>3, <1>5
  <2>1. n \notin 1 .. (m - 1)
    BY <1>4, <1>5, <2>4
  <2>2. n \in (m + 1) .. (Len(s) + 1) => n - 1 \in 1 .. Len(s)
    BY <1>3, <1>5
  <2>3. n \notin (m + 1) .. (Len(s) + 1)
    BY <1>4, <1>5, <2>2
  <2> QED
    BY <1>3, <1>4, <1>5, <2>1, <2>3
<1>7. k \in (m + 1) .. (Len(s) + 1) /\ k - 1 \in i + 1 .. Len(s)
  BY <1>1, <1>3, <1>4, <1>5, <1>6
<1>8. r[k] = s[k - 1]
  BY <1>4, <1>7
<1> QED
  BY <1>1, <1>7, <1>8

\* FirstOf is the first: those ahead of it are not searched for.
LEMMA FirstOfLeads ==
    ASSUME NEW s \in Seq(Threads), NEW ts, FirstOf(s, ts) # Idle
    PROVE  \E i \in 1 .. Len(s) : s[i] = FirstOf(s, ts) /\ \A j \in 1 .. Len(s) : s[j] \in ts => i <= j
<1> DEFINE found == {i \in DOMAIN s : s[i] \in ts}
           i == CHOOSE i \in found : \A j \in found : i <= j
<1>1. FirstOf(s, ts) = s[i] /\ found # {}
  BY DEF FirstOf
<1>2. DOMAIN s = 1 .. Len(s) /\ Len(s) \in Nat
  OBVIOUS
<1>3. found \subseteq Nat
  BY <1>2
<1>4. i \in found /\ \A j \in found : i <= j
  <2>1. \E x \in found : \A y \in found : x <= y
    <3> HIDE DEF found
    <3> QED
      BY <1>1, <1>3, Least
  <2> HIDE DEF found
  <2> QED
    BY <2>1
<1> HIDE DEF i
<1> QED
  BY <1>1, <1>2, <1>4

\* A thread that is at the front of its priority once it is behind its equals has none.
LEMMA BackRests ==
    ASSUME SchedulerAssumption, ChoiceInv, NEW t \in runnable, queue.active[t] \in Cores,
           UNCHANGED threadVars,
           FrontOfPriority(MoveToScheduledBack(queue, t, prio), queue.active[t], prio[t]) = t
    PROVE  /\ Rests(MoveToScheduledBack(queue, t, prio))
           /\ IdlyYields(MoveToScheduledBack(queue, t, prio), {t})
<1> DEFINE q == MoveToScheduledBack(queue, t, prio)
           a == queue.active[t]
           l == queue.scheduled[a]
           rest == Without(l, t)
           r == q.scheduled[a]
<1>1. q.active = queue.active /\ r = Behind(rest, t, prio[t], prio)
  BY DEF MoveToScheduledBack
<1>2. QueueInv(q, prio, affinity, runnable)
  BY ChoiceParts, BackExact, Zenon
<1>3. /\ Ordered(r, prio, Scheduled(queue.active, runnable, a))
      /\ Ordered(l, prio, Scheduled(queue.active, runnable, a))
  <2> HIDE DEF q
  <2> QED
    BY <1>1, <1>2, ChoiceParts DEF QueueInv
<1>4. Ordered(rest, prio, Scheduled(queue.active, runnable, a) \ {t})
  BY <1>3, WithoutOrdered
<1>5. FirstOf(r, {u \in Threads : prio[u] = prio[t]}) = t
  BY DEF FrontOfPriority
<1>6. t \in Threads /\ prio[t] \in Int /\ t # Idle
  BY ChoiceParts DEF SchedulerAssumption
<1> HIDE DEF q, l, rest, r, a
<1>7. rest \in Seq(Threads) /\ t \notin ToSet(rest)
  BY <1>4 DEF Ordered
<1>8. /\ r \in Seq(Threads)
      /\ \A i, j \in 1 .. Len(r) : r[i] = r[j] => i = j
      /\ \A u \in Scheduled(queue.active, runnable, a) : \E k \in 1 .. Len(r) : r[k] = u
  BY <1>3, OrderedIs DEF Ordered
<1>9. ASSUME NEW u \in runnable, u # t, queue.active[u] = a, prio[u] = prio[t]
      PROVE  FALSE
  <2>1. u \in Threads /\ u \in {x \in Threads : prio[x] = prio[t]}
    BY <1>9, ChoiceParts
  <2>2. PICK k \in 1 .. Len(r) : r[k] = u
    BY <1>8, <1>9 DEF Scheduled
  <2> DEFINE ts == {x \in Threads : prio[x] = prio[t]}
  <2>3. u \in ts /\ FirstOf(r, ts) = t
    BY <1>5, <2>1
  <2> HIDE DEF ts
  <2>4. PICK n \in 1 .. Len(r) : r[n] = t /\ \A j \in 1 .. Len(r) : r[j] \in ts => n <= j
    BY <1>6, <1>8, <2>3, FirstOfLeads
  <2>5. n <= k /\ n # k
    BY <1>9, <2>2, <2>3, <2>4
  <2>6. k > n
    BY <2>5
  <2>7. prio[r[k]] > prio[t]
    BY <1>1, <1>6, <1>7, <2>2, <2>4, <2>6, BehindIsLast, ChoiceParts
  <2> QED
    BY <1>6, <1>9, <2>2, <2>7, ChoiceParts
<1>10. Alone(q, t)
  BY <1>1, <1>9 DEF Alone, a
<1>11. UNCHANGED <<runnable, prio, affinity, pinned>>
  BY DEF threadVars
<1>12. Rests(q)
  BY <1>1, <1>11 DEF Rests, SamePlaces
<1>13. IdlyYields(q, {t})
  BY <1>10 DEF IdlyYields
<1> QED
  BY <1>12, <1>13 DEF q

\* A core without a front has no thread.
LEMMA NobodyThere ==
    ASSUME SchedulerAssumption, NEW q, NEW pr, NEW aff, NEW run, QueueInv(q, pr, aff, run),
           NEW c \in Cores, ScheduledFront(q, c) = Idle
    PROVE  q.scheduled[c] = <<>> /\ \A u \in run : q.active[u] # c
<1> DEFINE l == q.scheduled[c]
<1>1. /\ l \in Seq(Threads) /\ ToSet(l) = Scheduled(q.active, run, c)
  BY DEF QueueInv, Ordered
<1>2. FrontOf(l) = Idle
  BY DEF ScheduledFront, NoCore, Cores, SchedulerAssumption
<1> HIDE DEF l
<1>3. l = <<>>
  BY <1>1, <1>2, FrontOfIs, ToSetIs DEF SchedulerAssumption
<1>4. ToSet(l) = {}
  BY <1>3 DEF ToSet
<1> QED
  BY <1>1, <1>3, <1>4 DEF Scheduled, l

LEMMA StaySettles ==
    ASSUME SchedulerAssumption, ChoiceInv, NEW c \in Cores, YieldWithoutCoreMigration(c)
    PROVE  Settles(c)
<1> DEFINE t == cur[c]
           q == MoveToScheduledBack(queue, t, prio)
<1>1. /\ Yields(c) /\ Leaves(c)
      /\ \/ Reselect(c, q, TRUE)
         \/ Keep(c, q, {t}) /\ FrontOfPriority(q, queue.active[t], prio[t]) = t
  BY DEF YieldWithoutCoreMigration
<1>2. /\ t \in runnable /\ t \in Threads /\ Enters(c) /\ UNCHANGED threadVars
      /\ queue.active[t] \in Cores
  BY <1>1, YieldsFrom
<1>3. QueueInv(q, prio, affinity, runnable)
  <2> HIDE DEF t
  <2> QED
    BY <1>2, ChoiceParts, BackExact, Zenon
<1>4. Moves(queue, q, affinity)
  BY SameMoves DEF MoveToScheduledBack
<1>6. ASSUME FrontOfPriority(q, queue.active[t], prio[t]) = t
      PROVE  Rests(q) /\ IdlyYields(q, {t})
  BY <1>2, <1>6, BackRests DEF t
<1> HIDE DEF q, t
<1>5. Ends(c, q)
  <2>1. CASE Reselect(c, q, TRUE)
    BY <2>1, CountedEnds, Zenon
  <2>2. CASE Keep(c, q, {t}) /\ FrontOfPriority(q, queue.active[t], prio[t]) = t
    BY <1>2, <1>6, <2>2, KeepEnds DEF SchedulerAssumption
  <2> QED
    BY <1>1, <2>1, <2>2
<1> QED
  BY <1>1, <1>2, <1>3, <1>4, <1>5, YieldSettles

\* A queue that takes in a suggested thread.
LEMMA TakesIn ==
    ASSUME SchedulerAssumption, NEW q, NEW pr, NEW aff, NEW run, QueueInv(q, pr, aff, run),
           NEW a \in Cores, NEW t \in ToSet(q.suggested[a])
    PROVE  /\ QueueInv(ChangeCore(q, t, a, pr, TRUE), pr, aff, run)
           /\ Moves(q, ChangeCore(q, t, a, pr, TRUE), aff)
           /\ QueueInv(ChangeCore(q, t, a, pr, FALSE), pr, aff, run)
           /\ Moves(q, ChangeCore(q, t, a, pr, FALSE), aff)
<1>1. t \in run /\ t \in Threads /\ a \in aff[t]
  BY SuggestedMay
<1>2. a \in Cores \cup {NoCore} /\ (a = NoCore \/ a \in aff[t])
  BY <1>1
<1>3. QueueInv(ChangeCore(q, t, a, pr, TRUE), pr, aff, run)
  BY <1>1, <1>2, CoreExact, Zenon
<1>4. QueueInv(ChangeCore(q, t, a, pr, FALSE), pr, aff, run)
  BY <1>1, <1>2, CoreExact, Zenon
<1>5. HasCore(ChangeCore(q, t, a, pr, TRUE), q, t, a)
  BY <1>1, <1>2, CoreExact, Zenon
<1>6. HasCore(ChangeCore(q, t, a, pr, FALSE), q, t, a)
  BY <1>1, <1>2, CoreExact, Zenon
<1>7. ASSUME NEW r, HasCore(r, q, t, a)
      PROVE  Moves(q, r, aff)
  BY <1>1, <1>7 DEF HasCore, Moves, QueueInv
<1> QED
  BY <1>3, <1>4, <1>5, <1>6, <1>7, Zenon

LEMMA MovesTwice ==
    ASSUME NEW q, NEW r, NEW s, NEW aff, Moves(q, r, aff), Moves(r, s, aff)
    PROVE  Moves(q, s, aff)
BY DEF Moves

LEMMA MigrateSettles ==
    ASSUME SchedulerAssumption, ChoiceInv, NEW c \in Cores, YieldWithCoreMigration(c)
    PROVE  Settles(c)
<1> DEFINE t == cur[c]
           a == queue.active[t]
           q == MoveToScheduledBack(queue, t, prio)
<1>1. Yields(c) /\ Leaves(c)
  BY DEF YieldWithCoreMigration
<1>2. /\ t \in runnable /\ t \in Threads /\ Enters(c) /\ UNCHANGED threadVars
      /\ a \in Cores
  BY <1>1, YieldsFrom
<1>3. QueueInv(q, prio, affinity, runnable)
  <2> HIDE DEF t
  <2> QED
    BY <1>2, ChoiceParts, BackExact, Zenon
<1>4. Moves(queue, q, affinity)
  BY SameMoves DEF MoveToScheduledBack
<1>5. \/ \E us : LET u == FirstOf(q.suggested[a], us)
                 IN u # Idle /\ Reselect(c, ChangeCore(q, u, a, prio, TRUE), TRUE)
      \/ Reselect(c, q, TRUE)
      \/ /\ Keep(c, q, {}) \/ Keep(c, q, {t})
         /\ FrontOfPriority(q, a, prio[t]) = t
  BY DEF YieldWithCoreMigration
<1>6. CASE \E us : LET u == FirstOf(q.suggested[a], us)
                   IN u # Idle /\ Reselect(c, ChangeCore(q, u, a, prio, TRUE), TRUE)
  <2>1. PICK us : LET u == FirstOf(q.suggested[a], us)
                  IN u # Idle /\ Reselect(c, ChangeCore(q, u, a, prio, TRUE), TRUE)
    BY <1>6
  <2> DEFINE u == FirstOf(q.suggested[a], us)
             r == ChangeCore(q, u, a, prio, TRUE)
  <2>2. Reselect(c, r, TRUE) /\ u # Idle
    BY <2>1
  <2> HIDE DEF q, a, t
  <2>3. q.suggested[a] \in Seq(Threads)
    BY <1>2, <1>3 DEF QueueInv
  <2>4. u \in ToSet(q.suggested[a])
    BY <2>2, <2>3, FirstOfIs
  <2> HIDE DEF u
  <2>5. QueueInv(r, prio, affinity, runnable)
    BY <1>2, <1>3, <2>4, TakesIn, Zenon
  <2>6. Moves(q, r, affinity)
    BY <1>2, <1>3, <2>4, TakesIn, Zenon
  <2> HIDE DEF r
  <2>7. Moves(queue, r, affinity)
    BY <1>4, <2>6, MovesTwice
  <2>8. Ends(c, r)
    BY <2>2, CountedEnds, Zenon
  <2> QED
    BY <1>1, <1>2, <2>5, <2>7, <2>8, YieldSettles
<1>7. CASE \/ Reselect(c, q, TRUE)
           \/ /\ Keep(c, q, {}) \/ Keep(c, q, {t})
              /\ FrontOfPriority(q, a, prio[t]) = t
  <2>2. ASSUME FrontOfPriority(q, a, prio[t]) = t
        PROVE  Rests(q) /\ IdlyYields(q, {t})
    BY <1>2, <2>2, BackRests DEF t
  <2> HIDE DEF q, a, t
  <2>1. Ends(c, q)
    <3>1. CASE Reselect(c, q, TRUE)
      BY <3>1, CountedEnds, Zenon
    <3>2. CASE /\ Keep(c, q, {}) \/ Keep(c, q, {t})
               /\ FrontOfPriority(q, a, prio[t]) = t
      <4>1. Rests(q) /\ IdlyYields(q, {t}) /\ IdlyYields(q, {})
        BY <2>2, <3>2 DEF IdlyYields
      <4> QED
        BY <1>2, <3>2, <4>1, KeepEnds DEF SchedulerAssumption
    <3> QED
      BY <1>7, <3>1, <3>2
  <2> QED
    BY <1>1, <1>2, <1>3, <1>4, <2>1, YieldSettles
<1> QED
  BY <1>5, <1>6, <1>7

\* Threads have other cores in r than in q only if their masks have these, but for t.
MovesBut(q, r, aff, t) ==
    \A u \in Threads \ {t} : r.active[u] = q.active[u] \/ r.active[u] \in aff[u]

\* A yield that takes the current thread off its core.
LEMMA LeaveSettles ==
    ASSUME SchedulerAssumption, ChoiceInv, NEW c \in Cores, Yields(c), Leaves(c),
           NEW q, Reselect(c, q, TRUE),
           QueueInv(q, prio, affinity, runnable), MovesBut(queue, q, affinity, cur[c])
    PROVE  Settles(c)
<1>1. /\ cur[c] \in Threads /\ Enters(c)
      /\ \A k \in Cores : pinned[k] # cur[c]
      /\ UNCHANGED <<prio, affinity, ownMask, runnable, exited, kernelWaiters, pinned>>
  BY YieldsFrom DEF threadVars
<1>2. HomesKept(q, IF c = Host THEN {} ELSE {cur[c]})
  <2>1. c # Host
    BY DEF SchedulerAssumption
  <2> QED
    BY <2>1, ChoiceParts DEF HomesKept, MovesBut
<1>3. \A k \in Cores : pinned[k] \in Threads => q.active[pinned[k]] = k
  BY <1>1 DEF ChoiceInv, PinInv, MovesBut
<1>4. QueueInv(q, prio', affinity', runnable')
  BY <1>1
<1>5. ThreadsSettle(q)
  BY <1>1, <1>3, <1>4, ChoiceParts DEF ThreadsSettle, ChoiceInv, PinInv
<1>6. Chooses(c, q)
  BY <1>2 DEF Chooses
<1>7. Ends(c, q)
  BY CountedEnds, Zenon
<1> QED
  BY <1>1, <1>5, <1>6, <1>7 DEF Settles

LEMMA AwaySettles ==
    ASSUME SchedulerAssumption, ChoiceInv, NEW c \in Cores, YieldToAnyThread(c)
    PROVE  Settles(c)
<1> DEFINE t == cur[c]
           a == queue.active[t]
           q == ChangeCore(queue, t, NoCore, prio, FALSE)
           TopThere(u) == ScheduledFront(q, q.active[u])
           first == FirstOf(q.suggested[a], {u \in Threads : TopThere(u) # u})
           joined == ChangeCore(q, first, a, prio, FALSE)
           taken == IF AllowsMigration(TopThere(first)) THEN joined ELSE q
<1>1. /\ Yields(c) /\ Leaves(c)
      /\ \/ Reselect(c, q, TRUE)
         \/ first # Idle /\ first # t /\ Reselect(c, taken, TRUE)
         \/ /\ first # Idle /\ first = t /\ Keep(c, taken, {t})
            /\ ScheduledFront(q, a) = Idle
  BY DEF YieldToAnyThread
<1>2. /\ t \in runnable /\ t \in Threads /\ a \in Cores /\ a \in affinity[t]
      /\ Enters(c) /\ UNCHANGED threadVars
  BY <1>1, YieldsFrom
<1>3. QueueInv(q, prio, affinity, runnable)
  <2> HIDE DEF t
  <2> QED
    BY <1>2, ChoiceParts, CoreExact, Zenon
<1>4. HasCore(q, queue, t, NoCore)
  <2> HIDE DEF t
  <2> QED
    BY <1>2, ChoiceParts, CoreExact, Zenon
<1> HIDE DEF t, a, q
<1>5. q.active[t] = NoCore /\ \A u \in Threads \ {t} : q.active[u] = queue.active[u]
  BY <1>2, <1>4, ChoiceParts DEF HasCore
<1>6. MovesBut(queue, q, affinity, t)
  BY <1>5 DEF MovesBut
<1>7. q.suggested[a] \in Seq(Threads)
  BY <1>2, <1>3 DEF QueueInv
<1>8. first # Idle => first \in ToSet(q.suggested[a])
  <2> DEFINE us == {u \in Threads : TopThere(u) # u}
  <2>1. first = FirstOf(q.suggested[a], us)
    OBVIOUS
  <2> HIDE DEF us, first
  <2> QED
    BY <1>7, <2>1, FirstOfIs
<1>9. taken = joined \/ taken = q
  OBVIOUS
<1>10. ASSUME first # Idle
       PROVE  /\ QueueInv(joined, prio, affinity, runnable)
              /\ Moves(q, joined, affinity)
  <2>1. first \in ToSet(q.suggested[a])
    BY <1>8, <1>10
  <2> HIDE DEF first
  <2>2. QueueInv(joined, prio, affinity, runnable)
    BY <1>2, <1>3, <2>1, TakesIn, Zenon
  <2>3. Moves(q, joined, affinity)
    BY <1>2, <1>3, <2>1, TakesIn, Zenon
  <2> QED
    BY <2>2, <2>3
<1>11. CASE Reselect(c, q, TRUE)
  BY <1>1, <1>3, <1>6, <1>11, LeaveSettles, Zenon DEF t
<1>12. CASE first # Idle /\ Reselect(c, taken, TRUE)
  <2>1. QueueInv(taken, prio, affinity, runnable)
    BY <1>3, <1>9, <1>10, <1>12
  <2>2. MovesBut(queue, taken, affinity, t)
    BY <1>6, <1>9, <1>10, <1>12 DEF MovesBut, Moves
  <2> HIDE DEF taken
  <2> QED
    BY <1>1, <1>12, <2>1, <2>2, LeaveSettles, Zenon DEF t
<1>13. CASE /\ first # Idle /\ first = t /\ Keep(c, taken, {t})
            /\ ScheduledFront(q, a) = Idle
  <2>1. TopThere(first) = Idle
    BY <1>5, <1>13 DEF ScheduledFront
  <2>2. taken = joined
    BY <2>1 DEF AllowsMigration
  <2>3. QueueInv(taken, prio, affinity, runnable)
    BY <1>10, <1>13, <2>2
  <2>4. HasCore(joined, q, t, a)
    <3>1. joined = ChangeCore(q, t, a, prio, FALSE)
      BY <1>13
    <3>2. a \in Cores \cup {NoCore} /\ (a = NoCore \/ a \in affinity[t])
      BY <1>2
    <3>3. HasCore(ChangeCore(q, t, a, prio, FALSE), q, t, a)
      BY <1>2, <1>3, <3>2, CoreExact, Zenon
    <3> QED
      BY <3>1, <3>3
  <2> HIDE DEF taken, joined
  <2>5. \A u \in Threads : taken.active[u] = queue.active[u]
    <3>1. q.active \in [Threads -> Cores \cup {NoCore}] /\ a = queue.active[t]
      BY <1>3 DEF QueueInv, a
    <3> QED
      BY <1>2, <1>5, <2>2, <2>4, <3>1 DEF HasCore
  <2>6. Moves(queue, taken, affinity)
    BY <2>5 DEF Moves
  <2>8. \A u \in runnable : u # t => taken.active[u] # a
    <3>1. \A u \in runnable : q.active[u] # a
      BY <1>2, <1>3, <1>13, NobodyThere DEF t
    <3> QED
      BY <1>5, <2>5, <3>1, ChoiceParts
  <2>9. Rests(taken) /\ IdlyYields(taken, {t})
    <3>1. UNCHANGED <<runnable, prio, affinity, pinned>>
      BY <1>2 DEF threadVars
    <3>2. Rests(taken)
      BY <2>5, <3>1, ChoiceParts DEF Rests, SamePlaces
    <3>3. Alone(taken, t)
      BY <2>5, <2>8, <1>2 DEF Alone, a
    <3> QED
      BY <1>2, <3>2, <3>3 DEF IdlyYields
  <2>7. Ends(c, taken)
    BY <1>2, <1>13, <2>9, KeepEnds DEF SchedulerAssumption
  <2> QED
    BY <1>1, <1>2, <2>3, <2>6, <2>7, YieldSettles
<1> QED
  BY <1>1, <1>11, <1>12, <1>13

\* A section that gives t another mask and a core of it: the queue follows the threads.
LEMMA MaskedExact ==
    ASSUME SchedulerAssumption, ChoiceInv, NEW t \in Threads, NEW mask \in SUBSET Cores,
           NEW a \in Cores \cup {NoCore}, a = NoCore \/ a \in mask,
           affinity' = [affinity EXCEPT ![t] = mask],
           NEW q, \/ t \in runnable /\ q = ChangeAffinityMask(queue, t, affinity[t], mask, a, prio)
                  \/ t \notin runnable /\ q = SetActiveCore(queue, t, a)
    PROVE  /\ QueueInv(q, prio, affinity', runnable)
           /\ HasCore(q, queue, t, a)
<1>1. /\ affinity' \in [Threads -> SUBSET Cores] /\ affinity'[t] = mask
      /\ SameBut(affinity', affinity, t) /\ SameBut(prio, prio, t)
  BY ChoiceParts DEF SameBut
<1>2. CASE t \in runnable /\ q = ChangeAffinityMask(queue, t, affinity[t], mask, a, prio)
  <2>1. q = ChangeAffinityMask(queue, t, affinity[t], affinity'[t], a, prio)
    BY <1>1, <1>2
  <2>2. t \in runnable /\ (a = NoCore \/ a \in affinity'[t])
    BY <1>1, <1>2
  <2>3. QueueInv(q, prio, affinity', runnable)
    BY <1>1, <2>1, <2>2, ChoiceParts, AffinityExact, Zenon
  <2>4. HasCore(q, queue, t, a)
    BY <1>1, <2>1, <2>2, ChoiceParts, AffinityExact, Zenon
  <2> QED
    BY <2>3, <2>4
<1>3. CASE t \notin runnable /\ q = SetActiveCore(queue, t, a)
  <2>1. a = NoCore \/ a \in affinity'[t]
    BY <1>1
  <2>2. QueueInv(q, prio, affinity', runnable)
    BY <1>1, <1>3, <2>1, ChoiceParts, OutsideExact, Zenon
  <2>3. HasCore(q, queue, t, a)
    BY <1>3 DEF SetActiveCore, HasCore
  <2> QED
    BY <2>2, <2>3
<1> QED
  BY <1>2, <1>3

\* A change of t's mask leaves the others' cores.
LEMMA CoreOfOthers ==
    ASSUME SchedulerAssumption, ChoiceInv, NEW t \in Threads, NEW a, NEW q,
           HasCore(q, queue, t, a)
    PROVE  q.active[t] = a /\ \A u \in Threads \ {t} : q.active[u] = queue.active[u]
BY ChoiceParts DEF HasCore

\* The section of a mask change of t, whose core becomes a, with the pins as they
\* should be.
Remasks(c, t, a, q) ==
    /\ Enters(c) /\ Leaves(c) /\ Ends(c, q)
    /\ a \in Cores \/ queue.active[t] \notin Cores
    /\ HasCore(q, queue, t, a) /\ QueueInv(q, prio, affinity', runnable)
    /\ UNCHANGED <<prio, runnable, exited, kernelWaiters>>
    /\ ownMask' \in [Threads -> SUBSET Cores] /\ pinned' \in [Cores -> Runners]
    /\ affinity'[t] # {} /\ \A u \in Threads \ {t} : affinity'[u] = affinity[u]
    /\ \A k \in Cores : pinned'[k] \in Threads =>
           /\ ownMask'[pinned'[k]] # {}
           /\ affinity'[pinned'[k]] = {k}
           /\ q.active[pinned'[k]] = k

LEMMA MaskSettles ==
    ASSUME SchedulerAssumption, ChoiceInv, NEW t \in Threads, NEW c, NEW a, NEW q,
           Remasks(c, t, a, q)
    PROVE  Settles(c)
<1> USE DEF Remasks
<1>1. q.active[t] = a /\ \A u \in Threads \ {t} : q.active[u] = queue.active[u]
  BY CoreOfOthers
<1>2. \A ts : HomesKept(q, ts)
  BY <1>1 DEF HomesKept
<1>3. Chooses(c, q) \/ LeavesChoice(c, q)
  BY <1>2 DEF Ends, Chooses, LeavesChoice
<1>4. \A u \in Threads : affinity'[u] # {}
  BY DEF ChoiceInv, PinInv
<1>5. QueueInv(q, prio', affinity', runnable')
  OBVIOUS
<1>6. ThreadsSettle(q)
  BY <1>4, <1>5, ChoiceParts DEF ThreadsSettle
<1> QED
  BY <1>3, <1>6 DEF Settles

\* The core a thread has after its mask became mask.
LEMMA NextCoresIs ==
    ASSUME SchedulerAssumption, ChoiceInv, NEW t \in Threads, NEW mask \in SUBSET Cores,
           NEW a \in NextCores(queue.active[t], mask)
    PROVE  /\ a \in Cores \cup {NoCore} /\ (a = NoCore \/ a \in mask)
           /\ a \in Cores \/ queue.active[t] \notin Cores
<1>1. NoCore \notin Cores
  BY DEF NoCore, Cores, SchedulerAssumption
<1>2. queue.active[t] \in Cores \cup {NoCore}
  BY ChoiceParts
<1> QED
  BY <1>1, <1>2 DEF NextCores

LEMMA CoreMaskSettles ==
    ASSUME SchedulerAssumption, ChoiceInv, NEW c \in Cores, NEW t \in Threads, NEW mask \in Masks,
           SetCoreMask(c, t, mask)
    PROVE  Settles(c)
<1>1. /\ Enters(c) /\ Leaves(c)
      /\ UNCHANGED <<prio, runnable, exited, kernelWaiters, pinned>>
      /\ mask \in SUBSET Cores /\ mask # {}
  BY DEF SetCoreMask, SchedulerAssumption
<1>2. CASE /\ ownMask[t] # {}
           /\ ownMask' = [ownMask EXCEPT ![t] = mask]
           /\ Keep(c, queue, spent)
           /\ UNCHANGED affinity
  <2>1. Ends(c, queue)
    <3>1. Rests(queue) /\ IdlyYields(queue, spent)
      BY <1>1, <1>2 DEF Rests, SamePlaces, IdlyYields
    <3> QED
      BY <1>2, <3>1, ChoiceParts, KeepEnds DEF SchedulerAssumption
  <2>9. PICK a : a = queue.active[t]
    OBVIOUS
  <2>2. HasCore(queue, queue, t, a)
    BY <2>9, ChoiceParts DEF HasCore
  <2>3. QueueInv(queue, prio, affinity', runnable)
    BY <1>2, ChoiceParts
  <2>4. /\ ownMask' \in [Threads -> SUBSET Cores]
        /\ \A u \in Threads : ownMask[u] # {} => ownMask'[u] # {}
    BY <1>1, <1>2, ChoiceParts
  <2>5. \A k \in Cores : pinned'[k] \in Threads =>
               /\ ownMask'[pinned'[k]] # {}
               /\ affinity'[pinned'[k]] = {k}
               /\ queue.active[pinned'[k]] = k
    BY <1>1, <1>2, <2>4 DEF ChoiceInv, PinInv
  <2>6. pinned' \in [Cores -> Runners] /\ affinity'[t] # {}
    BY <1>1, <1>2, ChoiceParts DEF ChoiceInv, PinInv
  <2>7. a \in Cores \/ queue.active[t] \notin Cores
    BY <2>9
  <2>8. \A u \in Threads \ {t} : affinity'[u] = affinity[u]
    BY <1>2
  <2>10. Remasks(c, t, a, queue)
    BY <1>1, <2>1, <2>2, <2>3, <2>4, <2>5, <2>6, <2>7, <2>8 DEF Remasks
  <2> QED
    BY <2>10, MaskSettles
<1>3. CASE /\ ownMask[t] = {}
           /\ affinity' = [affinity EXCEPT ![t] = mask]
           /\ UNCHANGED ownMask
           /\ \E a \in NextCores(queue.active[t], mask) : AffinityChanged(c, t, mask, a)
  <2>1. PICK a \in NextCores(queue.active[t], mask) : AffinityChanged(c, t, mask, a)
    BY <1>3
  <2>2. /\ a \in Cores \cup {NoCore} /\ (a = NoCore \/ a \in mask)
        /\ a \in Cores \/ queue.active[t] \notin Cores
    BY <1>1, NextCoresIs
  <2> DEFINE q == IF t \in runnable
                  THEN ChangeAffinityMask(queue, t, affinity[t], mask, a, prio)
                  ELSE SetActiveCore(queue, t, a)
  <2>3. \/ t \in runnable /\ q = ChangeAffinityMask(queue, t, affinity[t], mask, a, prio)
        \/ t \notin runnable /\ q = SetActiveCore(queue, t, a)
    OBVIOUS
  <2>4. Reselect(c, q, TRUE) \/ (t \notin runnable /\ Keep(c, q, spent))
    BY <2>1 DEF AffinityChanged
  <2> HIDE DEF q
  <2>6. QueueInv(q, prio, affinity', runnable) /\ HasCore(q, queue, t, a)
    BY <1>1, <1>3, <2>2, <2>3, MaskedExact
  <2>5. Ends(c, q)
    <3>1. CASE Reselect(c, q, TRUE)
      BY <3>1, CountedEnds, Zenon
    <3>2. CASE t \notin runnable /\ Keep(c, q, spent)
      <4>1. \A u \in Threads \ {t} : q.active[u] = queue.active[u] /\ affinity'[u] = affinity[u]
        BY <1>1, <1>3, <2>6, CoreOfOthers, ChoiceParts
      <4>2. Rests(q) /\ IdlyYields(q, spent)
        BY <1>1, <3>2, <4>1, ChoiceParts DEF Rests, SamePlaces, IdlyYields
      <4> QED
        BY <3>2, <4>2, ChoiceParts, KeepEnds DEF SchedulerAssumption
    <3> QED
      BY <2>4, <3>1, <3>2
  <2>7. /\ affinity'[t] # {} /\ \A u \in Threads \ {t} : affinity'[u] = affinity[u]
    BY <1>1, <1>3, ChoiceParts
  <2>8. \A k \in Cores : pinned[k] # t
    BY <1>3 DEF ChoiceInv, PinInv
  <2>9. \A k \in Cores : pinned'[k] \in Threads =>
               /\ ownMask'[pinned'[k]] # {}
               /\ affinity'[pinned'[k]] = {k}
               /\ q.active[pinned'[k]] = k
    <3>1. \A u \in Threads \ {t} : q.active[u] = queue.active[u]
      BY <2>6, CoreOfOthers
    <3> QED
      BY <1>1, <1>3, <2>7, <2>8, <3>1 DEF ChoiceInv, PinInv
  <2>10. pinned' \in [Cores -> Runners] /\ ownMask' \in [Threads -> SUBSET Cores]
    BY <1>1, <1>3, ChoiceParts
  <2>11. Remasks(c, t, a, q)
    BY <1>1, <2>2, <2>5, <2>6, <2>7, <2>9, <2>10 DEF Remasks
  <2> QED
    BY <2>11, MaskSettles
<1> QED
  BY <1>2, <1>3 DEF SetCoreMask

LEMMA UnpinSettles ==
    ASSUME SchedulerAssumption, ChoiceInv, NEW c \in Cores, Unpin(c)
    PROVE  Settles(c)
<1> DEFINE t == cur[c]
           mask == ownMask[t]
<1>1. /\ Enters(c) /\ Leaves(c) /\ pinned[c] = t
      /\ pinned' = [pinned EXCEPT ![c] = Idle]
      /\ ownMask' = [ownMask EXCEPT ![t] = {}]
      /\ affinity' = [affinity EXCEPT ![t] = mask]
      /\ UNCHANGED <<prio, runnable, exited, kernelWaiters>>
      /\ \E a \in NextCores(queue.active[t], mask) :
             IF t \in runnable /\ mask # affinity[t]
             THEN Reselect(c, ChangeAffinityMask(queue, t, affinity[t], mask, a, prio), TRUE)
             ELSE Reselect(c, SetActiveCore(queue, t, a), FALSE)
  BY DEF Unpin
<1>2. t \in Threads
  BY <1>1, ChoiceParts DEF Enters, Runners, SchedulerAssumption
<1>3. mask \in SUBSET Cores /\ mask # {}
  BY <1>1, <1>2, ChoiceParts DEF ChoiceInv, PinInv
<1> HIDE DEF t, mask
<1>4. PICK a \in NextCores(queue.active[t], mask) :
          IF t \in runnable /\ mask # affinity[t]
          THEN Reselect(c, ChangeAffinityMask(queue, t, affinity[t], mask, a, prio), TRUE)
          ELSE Reselect(c, SetActiveCore(queue, t, a), FALSE)
  BY <1>1
<1>5. /\ a \in Cores \cup {NoCore} /\ (a = NoCore \/ a \in mask)
      /\ a \in Cores \/ queue.active[t] \notin Cores
  BY <1>2, <1>3, <1>4, NextCoresIs
<1> DEFINE q == IF t \in runnable /\ mask # affinity[t]
                THEN ChangeAffinityMask(queue, t, affinity[t], mask, a, prio)
                ELSE SetActiveCore(queue, t, a)
<1>6. QueueInv(q, prio, affinity', runnable) /\ HasCore(q, queue, t, a)
  <2>1. CASE t \in runnable /\ mask = affinity[t]
    <3>1. queue.active[t] = NoCore \/ queue.active[t] \in mask
      BY <1>2, <2>1, ChoiceParts DEF QueueInv
    <3>2. a = queue.active[t]
      BY <1>4, <3>1 DEF NextCores
    <3>3. q = SetActiveCore(queue, t, queue.active[t])
      BY <2>1, <3>2
    <3>4. /\ q.scheduled = queue.scheduled /\ q.suggested = queue.suggested
          /\ q.active = queue.active
      BY <3>3, ChoiceParts DEF SetActiveCore
    <3>5. affinity' = affinity
      BY <1>1, <2>1, ChoiceParts
    <3>6. HasCore(q, queue, t, a)
      BY <1>2, <3>2, <3>4, ChoiceParts DEF HasCore
    <3> HIDE DEF q
    <3>7. QueueInv(q, prio, affinity, runnable)
      BY <3>4, ChoiceParts DEF QueueInv
    <3> QED
      BY <3>5, <3>6, <3>7
  <2>2. CASE ~(t \in runnable /\ mask = affinity[t])
    <3>1. \/ t \in runnable /\ q = ChangeAffinityMask(queue, t, affinity[t], mask, a, prio)
          \/ t \notin runnable /\ q = SetActiveCore(queue, t, a)
      BY <2>2
    <3> HIDE DEF q
    <3> QED
      BY <1>1, <1>2, <1>3, <1>5, <3>1, MaskedExact
  <2> QED
    BY <2>1, <2>2
<1>7. Ends(c, q)
  <2>1. CASE t \in runnable /\ mask # affinity[t]
    <3>1. Reselect(c, q, TRUE)
      BY <1>4, <2>1
    <3> HIDE DEF q
    <3> QED
      BY <3>1, CountedEnds, Zenon
  <2>2. CASE ~(t \in runnable /\ mask # affinity[t])
    <3>1. Reselect(c, q, FALSE)
      BY <1>4, <2>2
    <3>2. t \in runnable => a = queue.active[t]
      <4>1. t \in runnable => queue.active[t] = NoCore \/ queue.active[t] \in mask
        BY <1>2, <2>2, ChoiceParts DEF QueueInv
      <4> QED
        BY <1>4, <4>1 DEF NextCores
    <3> HIDE DEF q
    <3>3. q.active[t] = a /\ \A u \in Threads \ {t} : q.active[u] = queue.active[u]
      BY <1>2, <1>6, CoreOfOthers
    <3>4. SamePlaces(q)
      BY <1>1, <3>2, <3>3, ChoiceParts DEF SamePlaces
    <3> QED
      BY <3>1, <3>4, UncountedEnds, Zenon
  <2> QED
    BY <2>1, <2>2
<1> HIDE DEF q
<1>8. affinity'[t] # {} /\ \A u \in Threads \ {t} : affinity'[u] = affinity[u]
  BY <1>1, <1>2, <1>3, ChoiceParts
<1>9. \A k \in Cores : pinned'[k] \in Threads =>
             /\ ownMask'[pinned'[k]] # {}
             /\ affinity'[pinned'[k]] = {k}
             /\ q.active[pinned'[k]] = k
  <2>1. \A u \in Threads \ {t} : q.active[u] = queue.active[u]
    BY <1>2, <1>6, CoreOfOthers
  <2>2. SUFFICES ASSUME NEW k \in Cores, pinned'[k] \in Threads
                 PROVE  /\ ownMask'[pinned'[k]] # {}
                        /\ affinity'[pinned'[k]] = {k}
                        /\ q.active[pinned'[k]] = k
    OBVIOUS
  <2>3. k # c /\ pinned'[k] = pinned[k]
    BY <1>1, <2>2, ChoiceParts DEF SchedulerAssumption
  <2>4. pinned[k] # t
    BY <1>1, <1>2, <2>2, <2>3 DEF ChoiceInv, PinInv
  <2> QED
    BY <1>1, <1>8, <2>1, <2>2, <2>3, <2>4, ChoiceParts DEF ChoiceInv, PinInv
<1>10. pinned' \in [Cores -> Runners] /\ ownMask' \in [Threads -> SUBSET Cores]
  BY <1>1, ChoiceParts DEF Runners
<1>11. Remasks(c, t, a, q)
  BY <1>1, <1>2, <1>5, <1>6, <1>7, <1>8, <1>9, <1>10 DEF Remasks
<1> QED
  BY <1>2, <1>11, MaskSettles

\* t gives up its pin to core c, if it has one; nothing else changes that concerns pins.
GivesUpPin(c, t, q) ==
    /\ \A u \in Threads \ {t} : /\ q.active[u] = queue.active[u] /\ affinity'[u] = affinity[u]
                               /\ ownMask'[u] = ownMask[u]
    /\ \/ pinned[c] = t /\ pinned' = [pinned EXCEPT ![c] = Idle]
       \/ /\ pinned[c] # t /\ pinned' = pinned
          /\ affinity'[t] = affinity[t] /\ ownMask'[t] = ownMask[t]
          /\ q.active[t] = queue.active[t]

\* The other pins stay.
LEMMA PinsWithout ==
    ASSUME SchedulerAssumption, ChoiceInv, NEW c \in Cores, NEW t \in Threads, NEW q,
           GivesUpPin(c, t, q)
    PROVE  \A k \in Cores : pinned'[k] \in Threads =>
               /\ ownMask'[pinned'[k]] # {}
               /\ affinity'[pinned'[k]] = {k}
               /\ q.active[pinned'[k]] = k
<1> USE DEF GivesUpPin
<1> SUFFICES ASSUME NEW k \in Cores, pinned'[k] \in Threads
             PROVE  /\ ownMask'[pinned'[k]] # {}
                    /\ affinity'[pinned'[k]] = {k}
                    /\ q.active[pinned'[k]] = k
  OBVIOUS
<1>1. CASE pinned[c] = t /\ pinned' = [pinned EXCEPT ![c] = Idle]
  <2>1. k # c /\ pinned'[k] = pinned[k]
    BY <1>1, ChoiceParts DEF SchedulerAssumption
  <2>2. pinned[k] # t
    BY <1>1, <2>1 DEF ChoiceInv, PinInv
  <2> QED
    BY <2>1, <2>2 DEF ChoiceInv, PinInv
<1>2. CASE /\ pinned[c] # t /\ pinned' = pinned
           /\ affinity'[t] = affinity[t] /\ ownMask'[t] = ownMask[t]
           /\ q.active[t] = queue.active[t]
  <2>1. \A u \in Threads : q.active[u] = queue.active[u] /\ affinity'[u] = affinity[u]
                           /\ ownMask'[u] = ownMask[u]
    BY <1>2
  <2> QED
    BY <1>2, <2>1 DEF ChoiceInv, PinInv
<1> QED
  BY <1>1, <1>2

LEMMA ExitSettles ==
    ASSUME SchedulerAssumption, ChoiceInv, NEW c \in Cores, ExitThread(c)
    PROVE  Settles(c)
<1> DEFINE t == cur[c]
           mask == IF pinned[c] = t THEN ownMask[t] ELSE affinity[t]
           r == RemoveFrom(queue, t, queue.active[t], affinity[t])
<1>1. /\ Enters(c) /\ Leaves(c) /\ t \in Threads
      /\ runnable' = runnable \ {t} /\ exited' = exited \cup {t}
      /\ pinned' = IF pinned[c] = t THEN [pinned EXCEPT ![c] = Idle] ELSE pinned
      /\ ownMask' = IF pinned[c] = t THEN [ownMask EXCEPT ![t] = {}] ELSE ownMask
      /\ affinity' = [affinity EXCEPT ![t] = mask]
      /\ UNCHANGED <<prio, kernelWaiters>>
      /\ \E a \in NextCores(queue.active[t], mask) : Reselect(c, SetActiveCore(r, t, a), TRUE)
  BY ChoiceParts DEF ExitThread
<1>2. mask \in SUBSET Cores /\ mask # {}
  BY <1>1, ChoiceParts DEF ChoiceInv, PinInv
<1>3. pinned[c] # t => mask = affinity[t]
  OBVIOUS
<1> HIDE DEF t, mask
<1>4. QueueInv(r, prio, affinity, runnable \ {t}) /\ r.active = queue.active
  <2>1. t \in Threads /\ QueueInv(queue, prio, affinity, runnable)
    BY <1>1, ChoiceParts
  <2>2. QueueInv(r, prio, affinity, runnable \ {t})
    BY <2>1, RemoveExact, Zenon
  <2>3. r.active = queue.active
    BY DEF RemoveFrom
  <2> QED
    BY <2>2, <2>3
<1> HIDE DEF r
<1>5. PICK a \in NextCores(queue.active[t], mask) : Reselect(c, SetActiveCore(r, t, a), TRUE)
  BY <1>1
<1>6. /\ a \in Cores \cup {NoCore} /\ (a = NoCore \/ a \in mask)
      /\ a \in Cores \/ queue.active[t] \notin Cores
  BY <1>1, <1>2, <1>5, NextCoresIs
<1> DEFINE q == SetActiveCore(r, t, a)
<1>7. /\ affinity' \in [Threads -> SUBSET Cores] /\ affinity'[t] = mask
      /\ SameBut(affinity', affinity, t) /\ SameBut(prio, prio, t)
  BY <1>1, <1>2, ChoiceParts DEF SameBut
<1>8. QueueInv(q, prio, affinity', runnable \ {t})
  <2>1. t \notin runnable \ {t} /\ (a = NoCore \/ a \in affinity'[t])
    BY <1>6, <1>7
  <2> QED
    BY <1>1, <1>4, <1>6, <1>7, <2>1, ChoiceParts, OutsideExact, Zenon
<1>9. q.active[t] = a /\ \A u \in Threads \ {t} : q.active[u] = queue.active[u]
  <2>1. q.active = [queue.active EXCEPT ![t] = a]
    BY <1>4 DEF SetActiveCore
  <2> QED
    BY <1>1, <2>1, ChoiceParts
<1> HIDE DEF q
<1>10. Ends(c, q)
  BY <1>5, CountedEnds, Zenon DEF q
<1>11. \A ts : HomesKept(q, ts)
  BY <1>6, <1>9 DEF HomesKept
<1>12. pinned[c] # t => a = queue.active[t]
  BY <1>1, <1>3, <1>5, ChoiceParts DEF NextCores, QueueInv
<1>13. /\ ownMask' \in [Threads -> SUBSET Cores] /\ pinned' \in [Cores -> Runners]
       /\ \A u \in Threads : affinity'[u] # {}
       /\ exited' \subseteq Threads
  <2>1. \A u \in Threads \ {t} : affinity'[u] = affinity[u]
    BY <1>7 DEF SameBut
  <2> QED
    BY <1>1, <1>2, <1>7, <2>1, ChoiceParts DEF Runners, ChoiceInv, PinInv
<1>14. \A k \in Cores : pinned'[k] \in Threads =>
             /\ ownMask'[pinned'[k]] # {}
             /\ affinity'[pinned'[k]] = {k}
             /\ q.active[pinned'[k]] = k
  <2>1. \A u \in Threads \ {t} : q.active[u] = queue.active[u] /\ affinity'[u] = affinity[u]
                                 /\ ownMask'[u] = ownMask[u]
    BY <1>1, <1>7, <1>9, ChoiceParts DEF SameBut
  <2>2. \/ pinned[c] = t /\ pinned' = [pinned EXCEPT ![c] = Idle]
        \/ /\ pinned[c] # t /\ pinned' = pinned
           /\ affinity'[t] = affinity[t] /\ ownMask'[t] = ownMask[t]
           /\ q.active[t] = queue.active[t]
    BY <1>1, <1>3, <1>7, <1>9, <1>12
  <2>3. GivesUpPin(c, t, q)
    BY <2>1, <2>2, Zenon DEF GivesUpPin
  <2>4. t \in Threads
    BY <1>1
  <2> QED
    BY <2>3, <2>4, PinsWithout
<1>15. ThreadsSettle(q)
  BY <1>1, <1>8, <1>13, <1>14, ChoiceParts DEF ThreadsSettle
<1>16. Chooses(c, q) \/ LeavesChoice(c, q)
  BY <1>10, <1>11 DEF Ends, Chooses, LeavesChoice
<1> QED
  BY <1>1, <1>10, <1>15, <1>16 DEF Settles

LEMMA PinSettles ==
    ASSUME SchedulerAssumption, ChoiceInv, NEW c \in Cores, HandleInterruptAndPin(c)
    PROVE  Settles(c)
<1> DEFINE t == cur[c]
           q == IF queue.active[t] # c \/ affinity[t] # {c}
                THEN IF t \in runnable
                     THEN ChangeAffinityMask(queue, t, affinity[t], {c}, c, prio)
                     ELSE SetActiveCore(queue, t, c)
                ELSE queue
<1>1. /\ Enters(c) /\ Leaves(c)
      /\ ownMask[t] = {}
      /\ pinned' = [pinned EXCEPT ![c] = t]
      /\ ownMask' = [ownMask EXCEPT ![t] = affinity[t]]
      /\ affinity' = [affinity EXCEPT ![t] = {c}]
      /\ UNCHANGED <<prio, runnable, exited, kernelWaiters>>
      /\ Reselect(c, q, t \in runnable /\ q # queue)
  BY DEF HandleInterruptAndPin
<1>2. t \in Threads
  <2>1. cur[c] # Idle /\ cur[c] \in Runners
    BY <1>1 DEF Enters, ChoiceInv, TypeOK, SchedulerAssumption
  <2> QED
    BY <2>1 DEF Runners
<1> HIDE DEF t
<1>3. QueueInv(q, prio, affinity', runnable) /\ HasCore(q, queue, t, c)
  <2>1. CASE queue.active[t] = c /\ affinity[t] = {c}
    <3>1. q = queue /\ affinity' = affinity
      BY <1>1, <2>1, ChoiceParts
    <3> HIDE DEF q
    <3> QED
      BY <2>1, <3>1, ChoiceParts DEF HasCore
  <2>2. CASE queue.active[t] # c \/ affinity[t] # {c}
    <3>1. \/ t \in runnable /\ q = ChangeAffinityMask(queue, t, affinity[t], {c}, c, prio)
          \/ t \notin runnable /\ q = SetActiveCore(queue, t, c)
      BY <2>2
    <3> HIDE DEF q
    <3>2. {c} \in SUBSET Cores /\ c \in Cores \cup {NoCore} /\ (c = NoCore \/ c \in {c})
      OBVIOUS
    <3> QED
      BY <1>1, <1>2, <3>1, <3>2, MaskedExact
  <2> QED
    BY <2>1, <2>2
<1> HIDE DEF q
<1>4. Ends(c, q)
  <2>1. CASE t \in runnable /\ q # queue
    BY <1>1, <2>1, CountedEnds, Zenon
  <2>2. CASE ~(t \in runnable /\ q # queue)
    <3>1. \A u \in Threads \ {t} : q.active[u] = queue.active[u]
      BY <1>2, <1>3, CoreOfOthers
    <3>2. SamePlaces(q)
      BY <1>1, <2>2, <3>1, ChoiceParts DEF SamePlaces
    <3> QED
      BY <1>1, <3>2, UncountedEnds, Zenon
  <2> QED
    BY <2>1, <2>2
<1>5. affinity'[t] = {c} /\ \A u \in Threads \ {t} : affinity'[u] = affinity[u]
  BY <1>1, <1>2, ChoiceParts
<1>6. /\ ownMask'[t] # {} /\ \A u \in Threads \ {t} : ownMask'[u] = ownMask[u]
      /\ pinned' \in [Cores -> Runners] /\ ownMask' \in [Threads -> SUBSET Cores]
  BY <1>1, <1>2, ChoiceParts DEF ChoiceInv, PinInv, Runners
<1>7. \A k \in Cores : pinned'[k] \in Threads =>
             /\ ownMask'[pinned'[k]] # {}
             /\ affinity'[pinned'[k]] = {k}
             /\ q.active[pinned'[k]] = k
  <2>1. q.active[t] = c /\ \A u \in Threads \ {t} : q.active[u] = queue.active[u]
    BY <1>2, <1>3, CoreOfOthers
  <2>2. SUFFICES ASSUME NEW k \in Cores, pinned'[k] \in Threads
                 PROVE  /\ ownMask'[pinned'[k]] # {}
                        /\ affinity'[pinned'[k]] = {k}
                        /\ q.active[pinned'[k]] = k
    OBVIOUS
  <2>3. CASE k = c
    BY <1>1, <1>5, <1>6, <2>1, <2>3, ChoiceParts
  <2>4. CASE k # c
    <3>1. pinned'[k] = pinned[k] /\ pinned[k] \in Threads
      BY <1>1, <2>2, <2>4, ChoiceParts
    <3>2. /\ ownMask[pinned[k]] # {} /\ affinity[pinned[k]] = {k}
          /\ queue.active[pinned[k]] = k
      BY <3>1 DEF ChoiceInv, PinInv
    <3>3. pinned[k] # t
      BY <1>1, <3>2
    <3> QED
      BY <1>5, <1>6, <2>1, <3>1, <3>2, <3>3
  <2> QED
    BY <2>3, <2>4
<1>8. Remasks(c, t, c, q)
  BY <1>1, <1>2, <1>3, <1>4, <1>5, <1>6, <1>7 DEF Remasks
<1> QED
  BY <1>2, <1>8, MaskSettles

-----------------------------------------------------------------------------
(* Preemption.                                                             *)

\* A queue that the preemption may make of this one.
Turned(q) == QueueInv(q, prio, affinity, runnable) /\ Moves(queue, q, affinity)

LEMMA RotateKeeps ==
    ASSUME SchedulerAssumption, NEW q, Turned(q), NEW c \in Cores, NEW recent
    PROVE  Turned(RotateScheduledQueue(q, c, recent))
<1> DEFINE p == PreemptionPriority[c]
           top == FrontOfPriority(q, c, p)
           rotated == IF top = Idle THEN q ELSE MoveToScheduledBack(q, top, prio)
<1>1. Turned(rotated)
  <2>1. CASE top = Idle
    BY <2>1
  <2>2. CASE top # Idle
    <3> DEFINE l == q.scheduled[c]
               us == {u \in Threads : prio[u] = p}
               r == MoveToScheduledBack(q, top, prio)
    <3>1. /\ l \in Seq(Threads) /\ ToSet(l) = Scheduled(q.active, runnable, c)
      BY DEF Turned, QueueInv, Ordered
    <3>2. top = FirstOf(l, us)
      BY DEF FrontOfPriority
    <3> HIDE DEF l, us, top
    <3>3. top \in ToSet(l)
      BY <2>2, <3>1, <3>2, FirstOfIs
    <3>4. top \in runnable
      BY <3>1, <3>3 DEF Scheduled
    <3>5. QueueInv(r, prio, affinity, runnable)
      BY <3>4, BackExact, Zenon DEF Turned
    <3>6. r.active = q.active
      BY DEF MoveToScheduledBack
    <3> HIDE DEF r
    <3>7. Turned(r)
      BY <3>5, <3>6 DEF Turned, Moves
    <3> QED
      BY <2>2, <3>7 DEF r
  <2> QED
    BY <2>1, <2>2
<1>2. ASSUME NEW q2, Turned(q2), NEW u \in ToSet(q2.suggested[c])
      PROVE  Turned(ChangeCore(q2, u, c, prio, TRUE))
  <2> DEFINE r == ChangeCore(q2, u, c, prio, TRUE)
  <2>1. QueueInv(q2, prio, affinity, runnable)
    BY <1>2 DEF Turned
  <2>2. QueueInv(r, prio, affinity, runnable)
    BY <1>2, <2>1, TakesIn, Zenon
  <2>3. Moves(q2, r, affinity)
    BY <1>2, <2>1, TakesIn, Zenon
  <2> HIDE DEF r
  <2>4. Turned(r)
    BY <1>2, <2>2, <2>3, MovesTwice DEF Turned
  <2> QED
    BY <2>4 DEF r
<1> HIDE DEF rotated, top
<1> DEFINE next == FrontOfPriority(rotated, c, p)
           TopThere(r, u) == ScheduledFront(r, r.active[u])
           Movable(r, u) == TopThere(r, u) # u /\ AllowsMigration(TopThere(r, u))
           Rejected(u) == top # next /\ u \in recent
           equals == {u \in Threads :
                          /\ prio[u] = p /\ TopThere(rotated, u) # u
                          /\ Rejected(u) \/ Movable(rotated, u)}
           equal == FirstOf(rotated.suggested[c], equals)
           joined == IF equal = Idle THEN rotated
                     ELSE IF Rejected(equal) THEN rotated
                     ELSE ChangeCore(rotated, equal, c, prio, TRUE)
           best == ScheduledFront(joined, c)
           betters == {u \in Threads : prio[u] < prio[best] /\ Movable(joined, u)}
           better == FirstOf(joined.suggested[c], betters)
<1>3. RotateScheduledQueue(q, c, recent) =
          IF best # Idle /\ prio[best] >= p /\ better # Idle
          THEN ChangeCore(joined, better, c, prio, TRUE)
          ELSE joined
  BY DEF RotateScheduledQueue, rotated, top
<1>4. Turned(joined)
  <2>1. \/ joined = rotated
        \/ equal # Idle /\ joined = ChangeCore(rotated, equal, c, prio, TRUE)
    OBVIOUS
  <2>2. rotated.suggested[c] \in Seq(Threads)
    BY <1>1 DEF Turned, QueueInv
  <2>3. equal # Idle => equal \in ToSet(rotated.suggested[c])
    <3> HIDE DEF equals
    <3> QED
      BY <2>2, FirstOfIs
  <2> HIDE DEF joined, equal
  <2>4. equal # Idle => Turned(ChangeCore(rotated, equal, c, prio, TRUE))
    BY <1>1, <1>2, <2>3, Zenon
  <2> QED
    BY <1>1, <2>1, <2>4
<1>5. better # Idle => Turned(ChangeCore(joined, better, c, prio, TRUE))
  <2> HIDE DEF joined
  <2>1. joined.suggested[c] \in Seq(Threads)
    BY <1>4 DEF Turned, QueueInv
  <2>2. better # Idle => better \in ToSet(joined.suggested[c])
    <3> HIDE DEF betters
    <3> QED
      BY <2>1, FirstOfIs
  <2> HIDE DEF better
  <2> QED
    BY <1>2, <1>4, <2>2, Zenon
<1> HIDE DEF joined, better, best
<1> QED
  BY <1>3, <1>4, <1>5

\* The recursion of Rotations.
LEMMA RotationsRecursion ==
    ASSUME SchedulerAssumption
    PROVE  \E f : /\ \A n \in 0 .. NumCores :
                         f[n] = IF n = 0 THEN {queue}
                                ELSE UNION {{RotateScheduledQueue(q, n - 1, recent) :
                                                recent \in SUBSET SuggestedAlike(q, n - 1)} : q \in f[n - 1]}
                  /\ Rotations = f[NumCores]
<1> DEFINE first == {queue}
           Then(l, n) == UNION {{RotateScheduledQueue(q, n - 1, recent) :
                                     recent \in SUBSET SuggestedAlike(q, n - 1)} : q \in l}
           Upto(f, n) == f = [i \in 0 .. n |-> IF i = 0 THEN first ELSE Then(f[i - 1], i)]
           N == {n \in Nat : ~\E f : Upto(f, n)}
<1>1. N = {}
  <2> HIDE DEF first, Then
  <2> SUFFICES ASSUME N # {} PROVE FALSE
    OBVIOUS
  <2>1. PICK n \in N : \A m \in N : n <= m
    <3> HIDE DEF N
    <3>1. N \subseteq Nat
      BY DEF N
    <3> QED
      BY <3>1, Least
  <2>2. n # 0
    <3> SUFFICES ASSUME n = 0 PROVE FALSE
      OBVIOUS
    <3> DEFINE f == [i \in 0 .. n |-> first]
    <3>1. Upto(f, n)
      <4> SUFFICES \A i \in 0 .. n : first = IF i = 0 THEN first ELSE Then(f[i - 1], i)
        OBVIOUS
      <4> QED
        OBVIOUS
    <3> HIDE DEF f, Upto
    <3> QED
      BY <2>1, <3>1, Zenon
  <2>3. n - 1 \in Nat /\ n - 1 \notin N
    <3>1. n \in Nat
      OBVIOUS
    <3> HIDE DEF N
    <3> QED
      BY <2>1, <2>2, <3>1
  <2>4. PICK g : Upto(g, n - 1)
    BY <2>3
  <2> DEFINE f == [i \in 0 .. n |-> IF i = n THEN Then(g[n - 1], n) ELSE g[i]]
  <2>5. ASSUME NEW i \in 0 .. n
        PROVE  f[i] = IF i = 0 THEN first ELSE Then(f[i - 1], i)
    <3>1. CASE i = n
      BY <3>1, <2>2, <2>3
    <3>2. CASE i # n
      <4>1. i \in 0 .. (n - 1) /\ (i # 0 => i - 1 \in 0 .. (n - 1))
        BY <3>2, <2>1
      <4>2. g[i] = IF i = 0 THEN first ELSE Then(g[i - 1], i)
        BY <4>1, <2>4
      <4> QED
        BY <4>1, <4>2, <3>2
    <3> QED
      BY <3>1, <3>2
  <2>6. Upto(f, n)
    <3>1. DOMAIN f = 0 .. n /\ f = [i \in 0 .. n |-> f[i]]
      OBVIOUS
    <3> HIDE DEF f
    <3> QED
      BY <3>1, <2>5
  <2> QED
    BY <2>1, <2>6
<1> DEFINE rotated == CHOOSE f : Upto(f, NumCores)
<1>2. \E f : Upto(f, NumCores)
  BY <1>1 DEF SchedulerAssumption
<1>3. Upto(rotated, NumCores)
  <2> HIDE DEF Upto
  <2> QED
    BY <1>2, Zenon
<1>4. Rotations = rotated[NumCores]
  BY DEF Rotations
<1> HIDE DEF rotated
<1>5. \A n \in 0 .. NumCores : rotated[n] = IF n = 0 THEN first ELSE Then(rotated[n - 1], n)
  <2> HIDE DEF first, Then
  <2> QED
    BY <1>3
<1> QED
  BY <1>4, <1>5

LEMMA RotationsTurned ==
    ASSUME SchedulerAssumption, Turned(queue), NEW q \in Rotations
    PROVE  Turned(q)
<1> DEFINE Turns(l, n) == UNION {{RotateScheduledQueue(r, n - 1, recent) :
                                      recent \in SUBSET SuggestedAlike(r, n - 1)} : r \in l}
<1>1. PICK f : /\ \A n \in 0 .. NumCores :
                      f[n] = IF n = 0 THEN {queue} ELSE Turns(f[n - 1], n)
               /\ Rotations = f[NumCores]
  BY RotationsRecursion
<1> HIDE DEF Turns
<1> DEFINE Good(l) == \A r \in l : Turned(r)
           Bad == {n \in 0 .. NumCores : ~Good(f[n])}
<1>2. ASSUME Bad # {}
      PROVE  FALSE
  <2>1. Bad \subseteq Nat
    BY DEF SchedulerAssumption
  <2>2. PICK n \in Bad : \A m \in Bad : n <= m
    <3> HIDE DEF Bad
    <3> QED
      BY <1>2, <2>1, Least
  <2>3. n # 0
    BY <1>1, <2>2
  <2>4. /\ n \in 0 .. NumCores /\ n \in Nat /\ n - 1 \in Cores /\ n - 1 \in 0 .. NumCores
        /\ ~(n <= n - 1)
    BY <2>3 DEF Cores, SchedulerAssumption
  <2>5. Good(f[n - 1])
    BY <2>2, <2>4
  <2>6. Good(Turns(f[n - 1], n))
    <3> HIDE DEF Bad
    <3> SUFFICES ASSUME NEW r \in f[n - 1], NEW recent
                 PROVE  Turned(RotateScheduledQueue(r, n - 1, recent))
      BY DEF Turns
    <3>1. Turned(r)
      BY <2>5
    <3> QED
      BY <2>4, <3>1, RotateKeeps, Zenon
  <2>7. Good(f[n])
    <3> HIDE DEF Good, Bad
    <3> QED
      BY <1>1, <2>3, <2>4, <2>6
  <2> QED
    BY <2>2, <2>7
<1>3. NumCores \in 0 .. NumCores
  BY DEF SchedulerAssumption
<1> QED
  BY <1>1, <1>2, <1>3

LEMMA PreemptSettles ==
    ASSUME SchedulerAssumption, ChoiceInv, PreemptThreads
    PROVE  Settles(Host)
<1>1. /\ Enters(Host) /\ Leaves(Host) /\ UNCHANGED threadVars
      /\ \E q \in Rotations : Reselect(Host, q, q # queue)
  BY DEF PreemptThreads
<1>3. PICK q \in Rotations : Reselect(Host, q, q # queue)
  BY <1>1
<1>4. Turned(queue)
  BY ChoiceParts, SameMoves DEF Turned
<1>5. QueueInv(q, prio, affinity, runnable) /\ Moves(queue, q, affinity)
  BY <1>3, <1>4, RotationsTurned DEF Turned
<1>6. Ends(Host, q)
  <2>1. CASE q # queue
    BY <1>3, <2>1, CountedEnds, Zenon
  <2>2. CASE q = queue
    <3>1. SamePlaces(q)
      BY <1>1, <2>2 DEF SamePlaces, threadVars
    <3> QED
      BY <1>3, <3>1, UncountedEnds, Zenon
  <2> QED
    BY <2>1, <2>2
<1> QED
  BY <1>1, <1>5, <1>6, YieldSettles

-----------------------------------------------------------------------------
(* The steps of the cores that leave the queue alone.                      *)

Steps == {"run", "unlock", "load", "switch", "check", "reload"}

\* The types of what these steps change.
CoreTypes ==
    /\ needs \in [Cores -> BOOLEAN]
    /\ cur \in [Cores -> Runners]
    /\ phase \in [Cores -> Steps]
    /\ target \in [Cores -> Runners]
    /\ guard \in [Threads -> Cores \cup {Free}]
    /\ interrupted \in [Cores -> BOOLEAN]
    /\ ipi \in [Cores -> SUBSET Cores]

\* Nobody comes to call the kernel but with a core.
CallersHaveCores ==
    \A c \in Cores : phase[c] = "run" /\ cur[c] \in Threads => queue.active[cur[c]] \in Cores

LEMMA QuietKeeps ==
    ASSUME SchedulerAssumption, ChoiceInv, UNCHANGED <<choiceVars, threadVars>>,
           CoreTypes', CallersHaveCores'
    PROVE  ChoiceInv'
<1>1. UNCHANGED <<queue, spent, highest, prio, affinity, ownMask, runnable, exited,
                  kernelWaiters, pinned>>
  BY DEF choiceVars, threadVars
<1>2. TypeOK'
  BY <1>1 DEF ChoiceInv, TypeOK, CoreTypes, Steps
<1>3. QueueInv(queue', prio', affinity', runnable')
  BY <1>1 DEF ChoiceInv
<1>4. PinInv'
  BY <1>1 DEF ChoiceInv, PinInv
<1>5. HomeInv'
  BY <1>1 DEF ChoiceInv, HomeInv, CallersHaveCores
<1> QED
  BY <1>2, <1>3, <1>4, <1>5 DEF ChoiceInv

LEMMA StepTypes ==
    ASSUME SchedulerAssumption, TypeOK, NEW c \in Cores, CoreStep(c), ~HandleInterruptAndPin(c)
    PROVE  UNCHANGED <<choiceVars, threadVars>> /\ CoreTypes'
<1>1. CoreTypes /\ highest \in [Cores -> Runners]
  BY DEF TypeOK, CoreTypes, Steps
<1>2. {"run", "load", "switch", "check", "reload"} \subseteq Steps
  BY DEF Steps
<1>3. CASE EnableScheduling(c)
  <2>1. /\ UNCHANGED <<choiceVars, threadVars, cur, target, guard>>
        /\ interrupted' = [k \in Cores |-> interrupted[k] \/ k \in InterruptedBy(c)]
        /\ ipi' = [ipi EXCEPT ![c] = {}]
        /\ needs' = [needs EXCEPT ![c] = FALSE] \/ needs' = needs
        /\ phase' = [phase EXCEPT ![c] = "load"] \/ phase' = [phase EXCEPT ![c] = "run"]
    BY <1>3 DEF EnableScheduling, BeginsSchedule
  <2>2. phase' \in [Cores -> Steps]
    BY <1>1, <1>2, <2>1 DEF CoreTypes
  <2>3. interrupted' \in [Cores -> BOOLEAN] /\ needs' \in [Cores -> BOOLEAN]
    BY <1>1, <2>1 DEF CoreTypes
  <2> QED
    BY <1>1, <2>1, <2>2, <2>3 DEF CoreTypes
<1>4. CASE HandleInterrupt(c)
  <2>1. phase' \in [Cores -> Steps]
    BY <1>1, <1>2, <1>4 DEF CoreTypes, HandleInterrupt, BeginsSchedule
  <2> QED
    BY <1>1, <1>4, <2>1 DEF CoreTypes, HandleInterrupt, BeginsSchedule
<1>5. CASE LeaveThread(c)
  <2>1. phase' \in [Cores -> Steps]
    BY <1>1, <1>2, <1>5 DEF CoreTypes, LeaveThread
  <2>2. guard' \in [Threads -> Cores \cup {Free}]
    <3>1. guard' = guard \/ (cur[c] \in Threads /\ guard' = [guard EXCEPT ![cur[c]] = Free])
      BY <1>5 DEF LeaveThread, Unload
    <3> QED
      BY <1>1, <3>1 DEF CoreTypes
  <2>3. target' \in [Cores -> Runners]
    BY <1>1, <1>5 DEF CoreTypes, LeaveThread
  <2> QED
    BY <1>1, <1>5, <2>1, <2>2, <2>3 DEF CoreTypes, LeaveThread
<1>6. CASE RefreshTarget(c)
  <2>1. phase' \in [Cores -> Steps]
    BY <1>1, <1>2, <1>6 DEF CoreTypes, RefreshTarget
  <2> QED
    BY <1>1, <1>6, <2>1 DEF CoreTypes, RefreshTarget
<1>7. CASE LockContext(c)
  <2>1. phase' \in [Cores -> Steps]
    BY <1>1, <1>2, <1>7 DEF CoreTypes, LockContext
  <2>2. target[c] \in Threads \/ target[c] = Idle
    BY <1>1 DEF CoreTypes, Runners
  <2>3. guard' \in [Threads -> Cores \cup {Free}]
    BY <1>1, <1>7, <2>2 DEF CoreTypes, LockContext
  <2>4. cur' \in [Cores -> Runners]
    BY <1>1, <1>7 DEF CoreTypes, LockContext
  <2> QED
    BY <1>1, <1>7, <2>1, <2>3, <2>4 DEF CoreTypes, LockContext
<1>8. CASE GiveUpTarget(c)
  <2>1. phase' \in [Cores -> Steps]
    BY <1>1, <1>2, <1>8 DEF CoreTypes, GiveUpTarget, Retries
  <2> QED
    BY <1>1, <1>8, <2>1 DEF CoreTypes, GiveUpTarget, Retries, Runners
<1>9. CASE UndoSwitch(c)
  <2>1. phase' \in [Cores -> Steps]
    BY <1>1, <1>2, <1>9 DEF CoreTypes, UndoSwitch, Retries
  <2>2. target[c] \in Threads \/ target[c] = Idle
    BY <1>1 DEF CoreTypes, Runners
  <2>3. guard' \in [Threads -> Cores \cup {Free}]
    BY <1>1, <1>9, <2>2 DEF CoreTypes, UndoSwitch
  <2> QED
    BY <1>1, <1>9, <2>1, <2>3 DEF CoreTypes, UndoSwitch, Retries, Runners
<1>10. CASE FinishSwitch(c)
  <2>1. phase' \in [Cores -> Steps]
    BY <1>1, <1>2, <1>10 DEF CoreTypes, FinishSwitch
  <2> QED
    BY <1>1, <1>10, <2>1 DEF CoreTypes, FinishSwitch, Runners
<1> QED
  BY <1>3, <1>4, <1>5, <1>6, <1>7, <1>8, <1>9, <1>10 DEF CoreStep

\* A core comes to run its thread only when this is its choice.
LEMMA ComesToRun ==
    ASSUME SchedulerAssumption, TypeOK, SchedulerInv, NEW c \in Cores, CoreStep(c),
           ~HandleInterruptAndPin(c), NEW k \in Cores, phase'[k] = "run"
    PROVE  cur'[k] = cur[k] /\ (phase[k] = "run" \/ cur[k] = highest[k])
<1>1. phase \in [Cores -> Steps] /\ cur \in [Cores -> Runners]
  BY DEF TypeOK, Steps
<1>2. CASE k # c
  <2>1. phase'[k] = phase[k]
    BY <1>1, <1>2 DEF CoreStep, EnableScheduling, HandleInterrupt, LeaveThread, RefreshTarget,
       LockContext, GiveUpTarget, UndoSwitch, FinishSwitch, BeginsSchedule, Retries
  <2>2. cur'[k] = cur[k]
    BY <1>1, <1>2 DEF CoreStep, EnableScheduling, HandleInterrupt, LeaveThread, RefreshTarget,
       LockContext, GiveUpTarget, UndoSwitch, FinishSwitch, BeginsSchedule, Retries
  <2> QED
    BY <2>1, <2>2
<1>3. CASE k = c
  <2>1. ~HandleInterrupt(c) /\ ~RefreshTarget(c) /\ ~LockContext(c) /\ ~GiveUpTarget(c)
        /\ ~UndoSwitch(c)
    BY <1>1, <1>3 DEF HandleInterrupt, RefreshTarget, LockContext, GiveUpTarget, UndoSwitch,
                      BeginsSchedule, Retries
  <2>2. CASE EnableScheduling(c)
    <3>1. phase[c] = "unlock" /\ ~needs[c] /\ cur' = cur
      BY <1>1, <1>3, <2>2 DEF EnableScheduling, BeginsSchedule
    <3>2. Running(c) = highest[c] /\ Running(c) = cur[c]
      BY <3>1 DEF SchedulerInv, RescheduleNotLost, Running
    <3> QED
      BY <1>3, <3>1, <3>2
  <2>3. CASE LeaveThread(c)
    <3>1. highest[c] = cur[c] /\ cur' = cur
      BY <1>1, <1>3, <2>3 DEF LeaveThread
    <3> QED
      BY <1>3, <3>1
  <2>4. CASE FinishSwitch(c)
    <3>1. phase[c] = "check" /\ ~needs[c] /\ cur' = cur
      BY <2>4 DEF FinishSwitch
    <3>2. Running(c) = highest[c] /\ Running(c) = target[c] /\ cur[c] = target[c]
      BY <3>1 DEF SchedulerInv, RescheduleNotLost, Running, ContextHeld
    <3> QED
      BY <1>3, <3>1, <3>2
  <2> QED
    BY <2>1, <2>2, <2>3, <2>4 DEF CoreStep
<1> QED
  BY <1>2, <1>3

LEMMA CoreStepKeepsChoice ==
    ASSUME SchedulerAssumption, ChoiceInv, SchedulerInv, NEW c \in Cores, CoreStep(c)
    PROVE  ChoiceInv'
<1>1. CASE HandleInterruptAndPin(c)
  BY <1>1, PinSettles, SettlesKeeps
<1>2. CASE ~HandleInterruptAndPin(c)
  <2>1. TypeOK /\ HomeInv
    BY DEF ChoiceInv
  <2>2. UNCHANGED <<choiceVars, threadVars>> /\ CoreTypes'
    BY <1>2, <2>1, StepTypes
  <2>3. queue' = queue
    BY <2>2 DEF choiceVars
  <2>4. ASSUME NEW k \in Cores, phase'[k] = "run", cur'[k] \in Threads
        PROVE  queue.active[cur'[k]] \in Cores
    <3>1. cur'[k] = cur[k] /\ (phase[k] = "run" \/ cur[k] = highest[k])
      BY <1>2, <2>1, <2>4, ComesToRun
    <3> QED
      BY <2>1, <2>4, <3>1 DEF HomeInv
  <2>5. CallersHaveCores'
    BY <2>3, <2>4 DEF CallersHaveCores
  <2> QED
    BY <2>2, <2>5, QuietKeeps
<1> QED
  BY <1>1, <1>2

-----------------------------------------------------------------------------
(* The queue is exact in every behaviour.                                  *)

LEMMA EmptyOrdered ==
    ASSUME NEW s, s = <<>>, NEW pr, NEW ts, ts = {}
    PROVE  Ordered(s, pr, ts)
<1>1. s \in Seq(Threads) /\ 1 .. Len(s) = {}
  OBVIOUS
<1>2. /\ \A i, j \in 1 .. Len(s) : s[i] = s[j] => i = j
      /\ \A i, j \in 1 .. Len(s) : i < j => pr[s[i]] <= pr[s[j]]
      /\ \A k \in 1 .. Len(s) : s[k] \in ts
      /\ \A u \in ts : \E k \in 1 .. Len(s) : s[k] = u
  BY <1>1
<1> QED
  BY <1>1, <1>2, OrderedFrom

LEMMA InitChoice ==
    ASSUME SchedulerAssumption, Init
    PROVE  ChoiceInv
<1>1. PICK made \in Created : /\ prio = [t \in Threads |-> made[t].prio]
                              /\ affinity = [t \in Threads |-> made[t].mask]
  BY DEF Init
<1>2. \A t \in Threads : made[t] \in [prio : Priorities, mask : Masks]
  BY DEF SchedulerAssumption
<1>3. \A t \in Threads : made[t].prio \in Priorities /\ made[t].mask \in Masks
  BY <1>2
<1>4. /\ prio \in [Threads -> Priorities] /\ prio \in [Threads -> Nat]
      /\ affinity \in [Threads -> SUBSET Cores] /\ \A t \in Threads : affinity[t] # {}
  BY <1>1, <1>3 DEF SchedulerAssumption
<1>5. PICK a \in [Threads -> Cores] :
          /\ \A t \in Threads : a[t] \in affinity[t]
          /\ queue = [scheduled |-> [c \in Cores |-> <<>>], suggested |-> [c \in Cores |-> <<>>],
                      active |-> a]
  BY DEF Init
<1>6. /\ queue.scheduled = [c \in Cores |-> <<>>] /\ queue.suggested = [c \in Cores |-> <<>>]
      /\ queue.active = a
  BY <1>5
<1>7. /\ ownMask = [t \in Threads |-> {}]
      /\ runnable = {} /\ exited = {} /\ kernelWaiters = {} /\ spent = {}
      /\ pinned = [c \in Cores |-> Idle]
      /\ highest = [c \in Cores |-> Idle]
      /\ needs = [c \in Cores |-> FALSE]
      /\ cur = [c \in Cores |-> Idle]
      /\ phase = [c \in Cores |-> "run"]
      /\ target = [c \in Cores |-> Idle]
      /\ guard = [t \in Threads |-> Free]
      /\ interrupted = [c \in Cores |-> FALSE]
      /\ ipi = [c \in Cores |-> {}]
  BY DEF Init
<1>8. <<>> \in Seq(Threads)
  OBVIOUS
<1>9. QueueInv(queue, prio, affinity, runnable)
  <2>1. \A c \in Cores : /\ Scheduled(queue.active, runnable, c) = {}
                         /\ Suggested(queue.active, affinity, runnable, c) = {}
    BY <1>7 DEF Scheduled, Suggested
  <2>2. \A c \in Cores : queue.scheduled[c] = <<>> /\ queue.suggested[c] = <<>>
    BY <1>6
  <2>3. \A c \in Cores : /\ Ordered(queue.scheduled[c], prio, Scheduled(queue.active, runnable, c))
                         /\ Ordered(queue.suggested[c], prio,
                                    Suggested(queue.active, affinity, runnable, c))
    BY <2>1, <2>2, EmptyOrdered, Zenon
  <2>4. /\ queue.scheduled \in [Cores -> Seq(Threads)]
        /\ queue.suggested \in [Cores -> Seq(Threads)]
        /\ queue.active \in [Threads -> Cores \cup {NoCore}]
    BY <1>6, <1>8
  <2>5. \A t \in Threads : queue.active[t] \in affinity[t]
    BY <1>5, <1>6
  <2>6. runnable \in SUBSET Threads
    BY <1>7
  <2> QED
    BY <1>4, <2>3, <2>4, <2>5, <2>6 DEF QueueInv
<1>10. TypeOK
  <2>1. /\ queue.scheduled \in [Cores -> Seq(Threads)]
        /\ queue.suggested \in [Cores -> Seq(Threads)]
        /\ queue.active \in [Threads -> Cores \cup {NoCore}]
    BY <1>9 DEF QueueInv
  <2> QED
    BY <1>4, <1>7, <2>1 DEF TypeOK, Runners
<1>11. PinInv /\ HomeInv
  BY <1>4, <1>7 DEF PinInv, HomeInv, SchedulerAssumption
<1> QED
  BY <1>9, <1>10, <1>11 DEF ChoiceInv

LEMMA NextKeepsChoice ==
    ASSUME SchedulerAssumption, ChoiceInv, SchedulerInv, [Next]_vars
    PROVE  ChoiceInv'
<1>1. CASE PreemptThreads
  BY <1>1, PreemptSettles, SettlesKeeps
<1>2. CASE \E t \in Threads : StartThread(Host, t)
  BY <1>2, StartSettles, SettlesKeeps
<1>3. ASSUME NEW c \in Cores, Call(c)
      PROVE  ChoiceInv'
  <2>1. CASE \E t \in Threads : StopThread(c, t)
    BY <2>1, StopSettles, SettlesKeeps
  <2>2. CASE \E t \in Threads : StartThread(c, t)
    BY <2>2, StartSettles, SettlesKeeps
  <2>3. CASE \E t \in Threads : \E p \in Priorities : SetPriority(c, t, p)
    BY <2>3, PrioritySettles, SettlesKeeps
  <2>4. CASE \E t \in Threads : \E mask \in Masks : SetCoreMask(c, t, mask)
    BY <2>4, CoreMaskSettles, SettlesKeeps
  <2>5. CASE \E t \in Threads : ChangeKernelWaiters(c, t)
    BY <2>5, WaitersSettle, SettlesKeeps
  <2>6. CASE ExitThread(c)
    BY <2>6, ExitSettles, SettlesKeeps
  <2>7. CASE Unpin(c)
    BY <2>7, UnpinSettles, SettlesKeeps
  <2>8. CASE YieldWithoutCoreMigration(c)
    BY <2>8, StaySettles, SettlesKeeps
  <2>9. CASE YieldWithCoreMigration(c)
    BY <2>9, MigrateSettles, SettlesKeeps
  <2>10. CASE YieldToAnyThread(c)
    BY <2>10, AwaySettles, SettlesKeeps
  <2> QED
    BY <1>3, <2>1, <2>2, <2>3, <2>4, <2>5, <2>6, <2>7, <2>8, <2>9, <2>10 DEF Call
<1>4. CASE \E c \in Cores : CoreStep(c)
  BY <1>4, CoreStepKeepsChoice
<1>5. CASE UNCHANGED vars
  <2>1. UNCHANGED <<choiceVars, threadVars>> /\ UNCHANGED <<needs, cur, phase, target, guard,
                                                            interrupted, ipi>>
    BY <1>5 DEF vars, choiceVars, threadVars
  <2>2. CoreTypes'
    BY <2>1 DEF CoreTypes, ChoiceInv, TypeOK, Steps
  <2>3. CallersHaveCores'
    BY <2>1 DEF CallersHaveCores, ChoiceInv, HomeInv, choiceVars
  <2> QED
    BY <2>1, <2>2, <2>3, QuietKeeps
<1> QED
  BY <1>1, <1>2, <1>3, <1>4, <1>5 DEF Next, HostStep

THEOREM ChoiceInvariance == Spec => []ChoiceInv
<1>1. Init => ChoiceInv
  BY InitChoice, SchedulerAssumption
<1>2. ChoiceInv /\ SchedulerInv /\ [Next]_vars => ChoiceInv'
  BY NextKeepsChoice, SchedulerAssumption
<1> QED
  BY <1>1, <1>2, Invariance, PTL DEF Spec

\* Whatever the threads do and however they migrate, every runnable thread is in
\* exactly the lists it belongs in, once and in its place.
THEOREM QueuesStayExact == Spec => []WellFormed
<1>1. ASSUME ChoiceInv
      PROVE  WellFormed
  <2>1. TypeOK /\ QueueInv(queue, prio, affinity, runnable)
    BY <1>1 DEF ChoiceInv
  <2>2. ASSUME NEW c \in Cores
        PROVE  /\ \A s \in {queue.scheduled[c], queue.suggested[c]} :
                      /\ IsInjective(s)
                      /\ \A i, j \in DOMAIN s : i < j => prio[s[i]] <= prio[s[j]]
               /\ ToSet(queue.scheduled[c]) = {t \in runnable : queue.active[t] = c}
               /\ ToSet(queue.suggested[c]) =
                      {t \in runnable : queue.active[t] # c /\ c \in affinity[t]}
    <3>1. /\ Ordered(queue.scheduled[c], prio, Scheduled(queue.active, runnable, c))
          /\ Ordered(queue.suggested[c], prio, Suggested(queue.active, affinity, runnable, c))
      BY <2>1 DEF QueueInv
    <3>2. ASSUME NEW s, NEW ts, Ordered(s, prio, ts)
          PROVE  /\ IsInjective(s)
                 /\ \A i, j \in DOMAIN s : i < j => prio[s[i]] <= prio[s[j]]
                 /\ ToSet(s) = ts
      <4>1. DOMAIN s = 1 .. Len(s)
        BY <3>2 DEF Ordered
      <4> QED
        BY <3>2, <4>1 DEF Ordered, IsInjective
    <3> QED
      BY <3>1, <3>2 DEF Scheduled, Suggested
  <2> QED
    BY <2>1, <2>2 DEF WellFormed, QueuesExact
<1> QED
  BY <1>1, ChoiceInvariance, PTL

-----------------------------------------------------------------------------
(* Who waits while a core idles.                                           *)

\* Without a thread that is not its front a list keeps its front.
LEMMA FrontStays ==
    ASSUME NEW pr, NEW s, NEW ts, Ordered(s, pr, ts), NEW t \in Threads, FrontOf(s) # t
    PROVE  FrontOf(Without(s, t)) = FrontOf(s)
<1>1. s \in Seq(Threads) /\ Len(s) \in Nat /\ DOMAIN s = 1 .. Len(s)
  BY OrderedIs DEF Ordered
<1>2. CASE t \notin ToSet(s)
  BY <1>2 DEF Without
<1>3. CASE t \in ToSet(s)
  <2> DEFINE n == CHOOSE i \in DOMAIN s : s[i] = t
             r == RemoveAt(s, n)
  <2>1. n \in 1 .. Len(s) /\ s[n] = t
    BY <1>1, <1>3, ToSetIs
  <2>2. Without(s, t) = r
    BY <1>3 DEF Without
  <2> HIDE DEF n
  <2>3. r \in Seq(Threads) /\ Len(r) = Len(s) - 1 /\ \A k \in 1 .. n - 1 : r[k] = s[k]
    BY <1>1, <2>1, RemoveAtIs
  <2> HIDE DEF r
  <2>4. s # <<>> /\ n # 1
    BY <1>1, <2>1 DEF FrontOf
  <2>5. r # <<>> /\ r[1] = s[1]
    BY <1>1, <2>1, <2>3, <2>4
  <2> QED
    BY <2>2, <2>4, <2>5 DEF FrontOf
<1> QED
  BY <1>2, <1>3

\* Without its front a list has the next thread at its front, which is there when
\* the list has another thread.
LEMMA FrontLeaves ==
    ASSUME SchedulerAssumption, NEW pr, NEW s, NEW ts, Ordered(s, pr, ts), NEW t \in Threads,
           FrontOf(s) = t
    PROVE  /\ NextOf(s, t) # Idle => FrontOf(Without(s, t)) = NextOf(s, t)
           /\ \A u \in ts : u # t => NextOf(s, t) # Idle
<1>1. s \in Seq(Threads) /\ Len(s) \in Nat /\ DOMAIN s = 1 .. Len(s) /\ ToSet(s) = ts
  BY OrderedIs DEF Ordered
<1>2. s # <<>> /\ s[1] = t
  BY DEF FrontOf, SchedulerAssumption
<1>3. \A i \in 1 .. Len(s) : s[i] = t => i = 1
  BY <1>1, <1>2 DEF Ordered
<1> DEFINE us == {s[i] : i \in {j \in 2 .. Len(s) : s[j - 1] = t}}
           u == FirstOf(s, us)
           r == RemoveAt(s, 1)
<1>4. NextOf(s, t) = u
  BY DEF NextOf
<1>5. \A v \in us : v = s[2] /\ 2 \in 1 .. Len(s)
  BY <1>1, <1>3
<1>6. 2 \in 1 .. Len(s) => s[2] \in us
  BY <1>1, <1>2
<1>7. 1 \in 1 .. Len(s) /\ t \in ToSet(s)
  BY <1>1, <1>2, ToSetIs
<1>8. Without(s, t) = r
  <2>1. (CHOOSE i \in DOMAIN s : s[i] = t) = 1
    BY <1>1, <1>2, <1>3, <1>7
  <2> QED
    BY <1>7, <2>1 DEF Without
<1>9. /\ r \in Seq(Threads) /\ Len(r) = Len(s) - 1
      /\ \A k \in 1 .. Len(s) - 1 : r[k] = s[k + 1]
  BY <1>1, <1>7, RemoveAtIs
<1> HIDE DEF us, u, r
<1>10. (u = Idle /\ ToSet(s) \cap us = {}) \/ u \in ToSet(s) \cap us
  BY <1>1, FirstOfIs DEF u
<1>11. ASSUME u # Idle
       PROVE  FrontOf(r) = u
  <2>1. u = s[2] /\ 2 \in 1 .. Len(s)
    BY <1>5, <1>10, <1>11
  <2>2. r # <<>> /\ r[1] = s[2]
    BY <1>1, <1>9, <2>1
  <2> QED
    BY <2>1, <2>2 DEF FrontOf
<1>12. ASSUME NEW v \in ts, v # t
       PROVE  u # Idle
  <2>1. PICK i \in 1 .. Len(s) : s[i] = v
    BY <1>1, ToSetIs
  <2>2. 2 \in 1 .. Len(s)
    BY <1>1, <1>2, <1>12, <2>1
  <2>3. s[2] \in ToSet(s) \cap us
    BY <1>1, <1>6, <2>2, ToSetIs
  <2>4. u \in Threads
    BY <1>1, <1>10, <2>3, ToSetIs
  <2> QED
    BY <2>4 DEF SchedulerAssumption
<1> QED
  BY <1>4, <1>8, <1>11, <1>12

\* A core is at work for a thread too important to be disturbed.
Urgent(top) ==
    \E k \in Cores : top[k] # Idle /\ prio'[top[k]] < HighestCoreMigrationAllowedPriority

\* With the queue r and the top threads top, the thread t waits for a core although
\* it, or the thread it waits behind, could have c, which has nobody.
Neglects(r, top, c, t) ==
    /\ r.scheduled[c] = <<>> /\ pinned'[c] = Idle /\ TopOn(top, r, t) # t
    /\ c \in affinity'[t] \/ (TopOn(top, r, t) # Idle /\ c \in affinity'[TopOn(top, r, t)])

Served(r, top, c) == \A t \in runnable' : Neglects(r, top, c, t) => Urgent(top)

\* The top threads run on their cores, where they are pinned or the front of their
\* list, and a core with a list goes without one only beside a pinned thread.
Tops(r, top) ==
    \A c \in Cores :
        /\ top[c] \in Threads => top[c] \in runnable' /\ r.active[top[c]] = c
        /\ top[c] \in {Idle, pinned'[c], FrontOf(r.scheduled[c])}
        /\ r.scheduled[c] # <<>> /\ pinned'[c] = Idle => top[c] # Idle

\* Threads that share a core in r share one in q.
Apart(q, r) ==
    \A t, u \in runnable' : t # u /\ r.active[t] = r.active[u] => q.active[t] = q.active[u]

\* The queue and the top threads when the first n of the cores that had nobody in q
\* have been filled.
Filled(q, n, r, top) ==
    /\ Tops(r, top) /\ Apart(q, r)
    /\ \A c \in Cores :
        /\ c >= n /\ q.scheduled[c] = <<>> => r.scheduled[c] = <<>>
        /\ q.scheduled[c] # <<>> /\ pinned'[c] = Idle => r.scheduled[c] # <<>>
        /\ c < n => Served(r, top, c)

\* A pinned thread may run on that core only, which is the one it has.
PinsStay(q) ==
    \A c \in Cores : pinned'[c] \in Threads =>
        affinity'[pinned'[c]] = {c} /\ q.active[pinned'[c]] = c

\* A list is empty when no thread that runs has its core.
LEMMA ListEmpty ==
    ASSUME NEW q, NEW pr, NEW aff, NEW run, QueueInv(q, pr, aff, run), NEW c \in Cores
    PROVE  q.scheduled[c] = <<>> <=> \A t \in run : q.active[t] # c
<1>1. /\ Ordered(q.scheduled[c], pr, Scheduled(q.active, run, c))
      /\ q.scheduled[c] \in Seq(Threads)
  BY DEF QueueInv
<1> DEFINE s == q.scheduled[c]
<1>2. /\ s \in Seq(Threads) /\ Len(s) \in Nat
      /\ \A k \in 1 .. Len(s) : s[k] \in Scheduled(q.active, run, c)
      /\ \A u \in Scheduled(q.active, run, c) : \E k \in 1 .. Len(s) : s[k] = u
  BY <1>1, OrderedIs
<1> HIDE DEF s
<1>3. s = <<>> => \A t \in run : q.active[t] # c
  BY <1>2 DEF Scheduled
<1>4. s # <<>> => 1 \in 1 .. Len(s)
  BY <1>2
<1>5. s # <<>> => \E t \in run : q.active[t] = c
  BY <1>2, <1>4 DEF Scheduled
<1> QED
  BY <1>3, <1>5 DEF s

\* The front of a list that is not empty is a thread of the core that runs.
LEMMA FrontRuns ==
    ASSUME NEW q, NEW pr, NEW aff, NEW run, QueueInv(q, pr, aff, run), NEW c \in Cores
    PROVE  IF q.scheduled[c] = <<>> THEN FrontOf(q.scheduled[c]) = Idle
           ELSE /\ FrontOf(q.scheduled[c]) \in run /\ FrontOf(q.scheduled[c]) \in Threads
                /\ q.active[FrontOf(q.scheduled[c])] = c
<1>1. /\ q.scheduled[c] \in Seq(Threads) /\ run \in SUBSET Threads
      /\ ToSet(q.scheduled[c]) = Scheduled(q.active, run, c)
  BY DEF QueueInv, Ordered
<1> QED
  BY <1>1, FrontOfIs DEF Scheduled

\* The top threads before any migration.
LEMMA FirstFilled ==
    ASSUME SchedulerAssumption, NEW q, QueueInv(q, prio', affinity', runnable'),
           PinsStay(q), pinned' \in [Cores -> Runners]
    PROVE  Filled(q, 0, q, [c \in Cores |-> TopThread(q, c)])
<1> DEFINE top == [c \in Cores |-> TopThread(q, c)]
<1>1. ASSUME NEW c \in Cores
      PROVE  /\ top[c] \in Threads => top[c] \in runnable' /\ q.active[top[c]] = c
             /\ top[c] \in {Idle, pinned'[c], FrontOf(q.scheduled[c])}
             /\ q.scheduled[c] # <<>> /\ pinned'[c] = Idle => top[c] # Idle
  <2> DEFINE front == FrontOf(q.scheduled[c])
  <2>1. ScheduledFront(q, c) = front
    BY DEF ScheduledFront, NoCore, Cores, SchedulerAssumption
  <2>2. IF q.scheduled[c] = <<>> THEN front = Idle
        ELSE front \in runnable' /\ front \in Threads /\ q.active[front] = c
    BY FrontRuns
  <2> HIDE DEF front
  <2>3. \/ top[c] = front
        \/ pinned'[c] # Idle /\ top[c] = Idle
        \/ pinned'[c] # Idle /\ top[c] = pinned'[c] /\ pinned'[c] \in runnable'
    BY <2>1 DEF TopThread
  <2> HIDE DEF top
  <2>4. Idle \notin Threads
    BY DEF SchedulerAssumption
  <2> QED
    BY <2>2, <2>3, <2>4 DEF front, PinsStay, Runners
<1> HIDE DEF top
<1>2. Tops(q, top) /\ Apart(q, q)
  BY <1>1 DEF Tops, Apart
<1>3. \A c \in Cores : ~(c < 0)
  BY DEF Cores, SchedulerAssumption
<1>4. Filled(q, 0, q, top)
  BY <1>2, <1>3 DEF Filled
<1> QED
  BY <1>4 DEF top

\* The core c, which has nobody, takes the thread w that is suggested to it; a core
\* whose top thread w was has another one at the front of its list.
Takes(r, top, w, c, r2, top2) ==
    /\ w \in ToSet(r.suggested[c]) /\ r.scheduled[c] = <<>>
    /\ r2 = ChangeCore(r, w, c, prio', FALSE)
    /\ top2[c] = w
    /\ \A k \in Cores \ {c} :
           IF top[k] = w THEN top2[k] = FrontOf(r2.scheduled[k]) /\ top2[k] \in Threads
           ELSE top2[k] = top[k]

\* What it does to the cores and the fronts.
Taken(r, w, c, r2) ==
    /\ QueueInv(r2, prio', affinity', runnable')
    /\ w \in runnable' /\ w \in Threads /\ c \in affinity'[w]
    /\ r2.active[w] = c /\ \A u \in Threads : u # w => r2.active[u] = r.active[u]
    /\ \A u \in runnable' : r.active[u] # c
    /\ FrontOf(r2.scheduled[c]) = w
    /\ \A k \in Cores \ {c} :
           FrontOf(r.scheduled[k]) # w => FrontOf(r2.scheduled[k]) = FrontOf(r.scheduled[k])

LEMMA TakesIs ==
    ASSUME SchedulerAssumption, NEW r, QueueInv(r, prio', affinity', runnable'),
           NEW top, NEW w, NEW c \in Cores, NEW r2, NEW top2, Takes(r, top, w, c, r2, top2)
    PROVE  Taken(r, w, c, r2)
<1>1. w \in ToSet(r.suggested[c]) /\ r.scheduled[c] = <<>>
  BY DEF Takes
<1>2. w \in runnable' /\ w \in Threads /\ c \in affinity'[w]
  BY <1>1, SuggestedMay
<1>3. c \in Cores \cup {NoCore} /\ (c = NoCore \/ c \in affinity'[w])
  BY <1>2
<1>4. QueueInv(ChangeCore(r, w, c, prio', FALSE), prio', affinity', runnable')
  BY <1>2, <1>3, CoreExact, Zenon
<1>5. HasCore(ChangeCore(r, w, c, prio', FALSE), r, w, c)
  BY <1>2, <1>3, CoreExact, Zenon
<1>6. r2 = ChangeCore(r, w, c, prio', FALSE)
  BY DEF Takes
<1>7. QueueInv(r2, prio', affinity', runnable') /\ HasCore(r2, r, w, c)
  BY <1>4, <1>5, <1>6
<1>8. r.active \in [Threads -> Cores \cup {NoCore}]
  BY DEF QueueInv
<1>9. r2.active[w] = c /\ \A u \in Threads : u # w => r2.active[u] = r.active[u]
  BY <1>2, <1>7, <1>8 DEF HasCore
<1>10. \A u \in runnable' : r.active[u] # c
  BY <1>1, ListEmpty
<1>11. runnable' \subseteq Threads
  BY DEF QueueInv
<1>12. FrontOf(r2.scheduled[c]) = w
  <2>1. r2.scheduled[c] # <<>>
    BY <1>2, <1>7, <1>9, ListEmpty
  <2>2. FrontOf(r2.scheduled[c]) \in runnable' /\ r2.active[FrontOf(r2.scheduled[c])] = c
    BY <1>7, <2>1, FrontRuns
  <2> QED
    BY <1>9, <1>10, <1>11, <2>2
<1>13. ASSUME NEW k \in Cores \ {c}, FrontOf(r.scheduled[k]) # w
       PROVE  FrontOf(r2.scheduled[k]) = FrontOf(r.scheduled[k])
  <2>1. Ordered(r.scheduled[k], prio', Scheduled(r.active, runnable', k))
    BY DEF QueueInv
  <2>2. FrontOf(Without(r.scheduled[k], w)) = FrontOf(r.scheduled[k])
    BY <1>2, <1>13, <2>1, FrontStays
  <2>3. r2.scheduled[k] \in {Without(r.scheduled[k], w), r.scheduled[k]}
    BY <1>6, <1>13 DEF ChangeCore
  <2> QED
    BY <2>2, <2>3
<1> QED
  BY <1>2, <1>7, <1>9, <1>10, <1>12, <1>13 DEF Taken

\* The top threads are still where they should be.
LEMMA TakesTops ==
    ASSUME SchedulerAssumption, NEW r, QueueInv(r, prio', affinity', runnable'),
           NEW top \in [Cores -> Runners], Tops(r, top), NEW w, NEW c \in Cores, NEW r2, NEW top2,
           Takes(r, top, w, c, r2, top2)
    PROVE  Tops(r2, top2)
<1>1. Taken(r, w, c, r2)
  BY TakesIs
<1>2. QueueInv(r2, prio', affinity', runnable') /\ Idle \notin Threads /\ w \in Threads
  BY <1>1 DEF Taken, SchedulerAssumption
<1>3. ASSUME NEW k \in Cores
      PROVE  /\ top2[k] \in Threads => top2[k] \in runnable' /\ r2.active[top2[k]] = k
             /\ top2[k] \in {Idle, pinned'[k], FrontOf(r2.scheduled[k])}
             /\ r2.scheduled[k] # <<>> /\ pinned'[k] = Idle => top2[k] # Idle
  <2>1. CASE k = c
    <3>1. top2[k] = w /\ top2[k] = FrontOf(r2.scheduled[k])
      BY <1>1, <2>1 DEF Takes, Taken
    <3> QED
      BY <1>1, <1>2, <2>1, <3>1 DEF Taken
  <2>2. CASE k # c /\ top[k] = w
    <3>1. top2[k] = FrontOf(r2.scheduled[k]) /\ top2[k] \in Threads
      BY <2>2 DEF Takes
    <3>2. top2[k] \in runnable' /\ r2.active[top2[k]] = k
      BY <1>2, <3>1, FrontRuns
    <3> QED
      BY <1>2, <3>1, <3>2
  <2>3. CASE k # c /\ top[k] # w
    <3>1. top2[k] = top[k]
      BY <2>3 DEF Takes
    <3>2. /\ top[k] \in Threads => top[k] \in runnable' /\ r.active[top[k]] = k
          /\ top[k] \in {Idle, pinned'[k], FrontOf(r.scheduled[k])}
          /\ r.scheduled[k] # <<>> /\ pinned'[k] = Idle => top[k] # Idle
      BY DEF Tops
    <3>3. top2[k] \in Threads => top2[k] \in runnable' /\ r2.active[top2[k]] = k
      BY <1>1, <2>3, <3>1, <3>2 DEF Taken
    <3>4. top2[k] \in {Idle, pinned'[k], FrontOf(r2.scheduled[k])}
      BY <1>1, <2>3, <3>1, <3>2 DEF Taken
    <3>5. r2.scheduled[k] # <<>> => r.scheduled[k] # <<>>
      <4>1. ASSUME r2.scheduled[k] # <<>>
            PROVE  \E u \in runnable' : r.active[u] = k
        <5>1. PICK u \in runnable' : r2.active[u] = k
          BY <1>2, <4>1, ListEmpty
        <5>2. u \in Threads /\ u # w
          BY <1>1, <2>3, <5>1 DEF Taken, QueueInv
        <5> QED
          BY <1>1, <5>1, <5>2 DEF Taken
      <4> QED
        BY <4>1, ListEmpty
    <3> QED
      BY <3>1, <3>2, <3>3, <3>4, <3>5
  <2> QED
    BY <2>1, <2>2, <2>3
<1> QED
  BY <1>3 DEF Tops

\* No core but one that is pinned loses its last thread.
LEMMA TakesNoLast ==
    ASSUME SchedulerAssumption, NEW r, QueueInv(r, prio', affinity', runnable'),
           NEW top \in [Cores -> Runners], Tops(r, top), NEW w, NEW c \in Cores, NEW r2, NEW top2,
           Takes(r, top, w, c, r2, top2), NEW k \in Cores, pinned'[k] = Idle, r.scheduled[k] # <<>>
    PROVE  r2.scheduled[k] # <<>>
<1>1. Taken(r, w, c, r2)
  BY TakesIs
<1>2. QueueInv(r2, prio', affinity', runnable') /\ Idle \notin Threads /\ w \in Threads /\ k # c
  BY <1>1 DEF Taken, SchedulerAssumption, Takes
<1>3. top[k] \in Threads /\ top[k] \in runnable' /\ r.active[top[k]] = k
  BY <1>2 DEF Tops, Runners
<1>4. CASE top[k] = w
  <2>1. FrontOf(r2.scheduled[k]) \in Threads
    BY <1>2, <1>4 DEF Takes
  <2> QED
    BY <1>2, <2>1, FrontRuns
<1>5. CASE top[k] # w
  <2>1. r2.active[top[k]] = k
    BY <1>1, <1>3, <1>5 DEF Taken
  <2> QED
    BY <1>2, <1>3, <2>1, ListEmpty
<1> QED
  BY <1>4, <1>5

\* A core that had nobody, and everybody who waits for it a reason, still has.
LEMMA TakesServed ==
    ASSUME SchedulerAssumption, NEW r, QueueInv(r, prio', affinity', runnable'),
           NEW top \in [Cores -> Runners], Tops(r, top), NEW w, NEW c \in Cores, NEW r2, NEW top2,
           Takes(r, top, w, c, r2, top2), NEW k \in Cores, Served(r, top, k)
    PROVE  Served(r2, top2, k)
<1>1. Taken(r, w, c, r2)
  BY TakesIs
<1>2. QueueInv(r2, prio', affinity', runnable') /\ Idle \notin Threads /\ w \in Threads
  BY <1>1 DEF Taken, SchedulerAssumption
<1>3. runnable' \subseteq Threads /\ \A t \in Threads : r.active[t] \in Cores \cup {NoCore}
  BY DEF QueueInv
<1>4. NoCore \notin Cores
  BY DEF NoCore, Cores, SchedulerAssumption
<1>5. Urgent(top) => Urgent(top2)
  <2>1. ASSUME NEW j \in Cores, top[j] # Idle, prio'[top[j]] < HighestCoreMigrationAllowedPriority
        PROVE  Urgent(top2)
    <3>1. top[j] \in Threads /\ top[j] \in runnable' /\ r.active[top[j]] = j
      BY <2>1 DEF Tops, Runners
    <3>2. j # c
      BY <1>1, <3>1 DEF Taken
    <3>3. top2[c] = top[j] \/ top2[j] = top[j]
      BY <3>2 DEF Takes
    <3> QED
      BY <2>1, <3>3 DEF Urgent
  <2> QED
    BY <2>1 DEF Urgent
<1>6. SUFFICES ASSUME NEW t \in runnable', Neglects(r2, top2, k, t)
               PROVE  Urgent(top)
  BY <1>5 DEF Served
<1>7. r.scheduled[k] = <<>>
  BY <1>6, TakesNoLast DEF Neglects
<1>8. TopOn(top2, r2, w) = w
  BY <1>1, <1>4 DEF TopOn, Taken, Takes
<1>9. t # w /\ t \in Threads
  BY <1>3, <1>6, <1>8 DEF Neglects
<1>10. r2.active[t] = r.active[t] /\ r.active[t] # c
  BY <1>1, <1>9 DEF Taken
<1>11. CASE r.active[t] = NoCore
  <2>1. TopOn(top2, r2, t) = Idle /\ TopOn(top, r, t) = Idle
    BY <1>10, <1>11 DEF TopOn
  <2>2. Neglects(r, top, k, t)
    BY <1>6, <1>7, <2>1 DEF Neglects
  <2> QED
    BY <2>2 DEF Served
<1>12. CASE r.active[t] \in Cores /\ top[r.active[t]] # w
  <2>1. TopOn(top2, r2, t) = TopOn(top, r, t)
    BY <1>4, <1>10, <1>12 DEF TopOn, Takes
  <2>2. Neglects(r, top, k, t)
    BY <1>6, <1>7, <2>1 DEF Neglects
  <2> QED
    BY <2>2 DEF Served
<1>13. CASE r.active[t] \in Cores /\ top[r.active[t]] = w
  <2> DEFINE j == r.active[t]
             u == top2[j]
  <2>1. j \in Cores /\ j # c /\ top[j] = w /\ j # NoCore
    BY <1>4, <1>10, <1>13
  <2>2. u = FrontOf(r2.scheduled[j]) /\ u \in Threads
    BY <2>1 DEF Takes
  <2>3. TopOn(top2, r2, t) = u /\ TopOn(top, r, t) = w
    BY <1>10, <2>1 DEF TopOn
  <2> HIDE DEF u, j
  <2>4. u \in runnable' /\ r2.active[u] = j
    BY <1>2, <2>1, <2>2, FrontRuns
  <2>5. u # w /\ r.active[u] = j
    BY <1>1, <2>1, <2>2, <2>4 DEF Taken
  <2>6. TopOn(top, r, u) = w
    BY <2>1, <2>5 DEF TopOn
  <2>7. pinned'[k] = Idle /\ (k \in affinity'[t] \/ k \in affinity'[u])
    BY <1>6, <2>3 DEF Neglects
  <2>8. Neglects(r, top, k, t) \/ Neglects(r, top, k, u)
    BY <1>7, <1>9, <2>3, <2>5, <2>6, <2>7 DEF Neglects
  <2> QED
    BY <1>6, <2>4, <2>8 DEF Served
<1> QED
  BY <1>3, <1>9, <1>11, <1>12, <1>13

LEMMA TakesFilled ==
    ASSUME SchedulerAssumption, NEW q, NEW r, QueueInv(r, prio', affinity', runnable'),
           NEW top \in [Cores -> Runners], NEW c \in Cores, q.scheduled[c] = <<>>,
           Filled(q, c, r, top), NEW w, NEW r2, NEW top2, Takes(r, top, w, c, r2, top2)
    PROVE  Filled(q, c + 1, r2, top2)
<1>1. Taken(r, w, c, r2)
  BY TakesIs
<1>2. QueueInv(r2, prio', affinity', runnable') /\ w \in Threads /\ runnable' \subseteq Threads
  BY <1>1 DEF Taken, QueueInv
<1>3. Tops(r, top) /\ Apart(q, r)
  BY DEF Filled
<1>4. Tops(r2, top2)
  BY <1>3, TakesTops
<1>5. Apart(q, r2)
  BY <1>1, <1>2, <1>3 DEF Apart, Taken
<1>6. ASSUME NEW k \in Cores
      PROVE  /\ k >= c + 1 /\ q.scheduled[k] = <<>> => r2.scheduled[k] = <<>>
             /\ q.scheduled[k] # <<>> /\ pinned'[k] = Idle => r2.scheduled[k] # <<>>
             /\ k < c + 1 => Served(r2, top2, k)
  <2>1. k \in Int /\ c \in Int
    BY DEF Cores, SchedulerAssumption
  <2>2. /\ k >= c /\ q.scheduled[k] = <<>> => r.scheduled[k] = <<>>
        /\ q.scheduled[k] # <<>> /\ pinned'[k] = Idle => r.scheduled[k] # <<>>
        /\ k < c => Served(r, top, k)
    BY DEF Filled
  <2>3. ASSUME k >= c + 1, q.scheduled[k] = <<>>
        PROVE  r2.scheduled[k] = <<>>
    <3>1. r.scheduled[k] = <<>> /\ k # c
      BY <2>1, <2>2, <2>3
    <3>2. \A u \in runnable' : r.active[u] # k
      BY <3>1, ListEmpty
    <3>3. \A u \in runnable' : r2.active[u] # k
      BY <1>1, <1>2, <3>1, <3>2 DEF Taken
    <3> QED
      BY <1>2, <3>3, ListEmpty
  <2>4. q.scheduled[k] # <<>> /\ pinned'[k] = Idle => r2.scheduled[k] # <<>>
    BY <1>3, <2>2, TakesNoLast
  <2>5. CASE k < c
    <3>1. Served(r2, top2, k)
      BY <1>3, <2>2, <2>5, TakesServed
    <3> QED
      BY <2>3, <2>4, <3>1
  <2>6. CASE k = c
    <3>1. r2.scheduled[k] # <<>>
      BY <1>1, <1>2, <2>6, ListEmpty DEF Taken
    <3>2. Served(r2, top2, k)
      BY <3>1 DEF Served, Neglects
    <3> QED
      BY <2>3, <2>4, <3>2
  <2> QED
    BY <2>1, <2>3, <2>4, <2>5, <2>6
<1> QED
  BY <1>4, <1>5, <1>6 DEF Filled

\* A core that is left as it is.
LEMMA LeavesFilled ==
    ASSUME SchedulerAssumption, NEW q, NEW r, NEW top, NEW c \in Cores, Filled(q, c, r, top),
           Served(r, top, c)
    PROVE  Filled(q, c + 1, r, top)
<1>1. ASSUME NEW k \in Cores
      PROVE  (k >= c + 1 => k >= c) /\ (k < c + 1 => k < c \/ k = c)
  BY DEF Cores, SchedulerAssumption
<1> QED
  BY <1>1 DEF Filled

\* Nobody waits for a core to which only top threads are suggested, none of them
\* with another thread behind it.
LEMMA NobodyNeglected ==
    ASSUME SchedulerAssumption, NEW r, QueueInv(r, prio', affinity', runnable'),
           NEW top \in [Cores -> Runners], Tops(r, top), NEW c \in Cores,
           \A k \in Cores : pinned'[k] \in Threads => affinity'[pinned'[k]] = {k},
           \A t \in ToSet(r.suggested[c]) :
               TopOn(top, r, t) = t /\ NextOf(r.scheduled[r.active[t]], t) = Idle
    PROVE  Served(r, top, c)
<1>1. SUFFICES ASSUME NEW t \in runnable', Neglects(r, top, c, t)
               PROVE  FALSE
  BY DEF Served
<1>2. runnable' \subseteq Threads /\ \A u \in Threads : r.active[u] \in Cores \cup {NoCore}
  BY DEF QueueInv
<1>3. r.scheduled[c] = <<>> /\ TopOn(top, r, t) # t
  BY <1>1 DEF Neglects
<1>4. \A u \in runnable' : r.active[u] # c
  BY <1>3, ListEmpty
<1>5. \A u \in runnable' : c \in affinity'[u] => u \in ToSet(r.suggested[c])
  BY <1>2, <1>4, QueueHolds
<1>6. c \notin affinity'[t]
  BY <1>3, <1>5
<1> DEFINE u == TopOn(top, r, t)
           j == r.active[t]
<1>7. u # Idle /\ c \in affinity'[u] /\ u # t
  BY <1>1, <1>6 DEF Neglects
<1>8. u = top[j] /\ j \in Cores
  BY <1>2, <1>7 DEF TopOn
<1> HIDE DEF u
<1>9. u \in Threads /\ u \in runnable' /\ r.active[u] = j
  BY <1>7, <1>8 DEF Tops, Runners
<1>10. NextOf(r.scheduled[j], u) = Idle
  BY <1>5, <1>7, <1>9
<1>11. u # pinned'[j]
  BY <1>4, <1>7, <1>8, <1>9
<1>12. u = FrontOf(r.scheduled[j])
  BY <1>7, <1>8, <1>11 DEF Tops
<1>13. Ordered(r.scheduled[j], prio', Scheduled(r.active, runnable', j))
  BY <1>8 DEF QueueInv
<1>14. t \in Scheduled(r.active, runnable', j)
  BY DEF Scheduled
<1> HIDE DEF j
<1> QED
  BY <1>7, <1>9, <1>10, <1>12, <1>13, <1>14, FrontLeaves

\* FillIdleCore fills the core, or leaves nobody who waits for it without a reason.
LEMMA FillServes ==
    ASSUME SchedulerAssumption, NEW q, PinsStay(q), NEW s, Chosen(s.q, s.top, q), NEW c \in Cores,
           q.scheduled[c] = <<>>, Filled(q, c, s.q, s.top)
    PROVE  Filled(q, c + 1, FillIdleCore(s, c).q, FillIdleCore(s, c).top)
<1> DEFINE r == s.q
           top == s.top
           waits == {t \in Threads : TopOn(s.top, r, t) # t}
           waiting == FirstOf(r.suggested[c], waits)
           spare(t) == NextOf(r.scheduled[r.active[t]], t)
           spares == {t \in ToSet(r.suggested[c]) : spare(t) # Idle}
           moved == FirstOf(r.suggested[c], spares)
           f == FillIdleCore(s, c)
           j == r.active[moved]
           u == spare(moved)
           top1 == [top EXCEPT ![c] = waiting]
           top2 == [top EXCEPT ![r.active[moved]] = u, ![c] = moved]
<1>1. \/ waiting # Idle /\ ~AllowsMigration(TopOn(top, r, waiting)) /\ f = s
      \/ waiting = Idle /\ moved = Idle /\ f = s
      \/ waiting # Idle /\ f = [q |-> ChangeCore(r, waiting, c, prio', FALSE), top |-> top1]
      \/ /\ waiting = Idle /\ moved # Idle
         /\ f = [q |-> ChangeCore(r, moved, c, prio', FALSE), top |-> top2]
  BY DEF FillIdleCore
<1>2. /\ QueueInv(r, prio', affinity', runnable')
      /\ r.active \in [Threads -> Cores \cup {NoCore}]
      /\ r.suggested[c] \in Seq(Threads)
      /\ top \in [Cores -> Runners]
      /\ prio' \in [Threads -> Nat]
  BY DEF Chosen, QueueInv
<1>3. Filled(q, c, r, top) /\ Tops(r, top)
  BY DEF Filled
<1>4. \A t \in Threads : t \in waits <=> TopOn(top, r, t) # t
  OBVIOUS
<1>5. \/ waiting = Idle /\ ToSet(r.suggested[c]) \cap waits = {}
      \/ waiting \in ToSet(r.suggested[c]) /\ waiting \in waits /\ waiting # Idle
  <2>1. waits \subseteq Threads
    OBVIOUS
  <2> HIDE DEF r, waits
  <2>2. \/ waiting = Idle /\ ToSet(r.suggested[c]) \cap waits = {}
        \/ waiting \in ToSet(r.suggested[c]) \cap waits
    BY <1>2, FirstOfIs
  <2> HIDE DEF waiting
  <2> QED
    BY <2>1, <2>2 DEF SchedulerAssumption
<1>6. ASSUME NEW t \in ToSet(r.suggested[c])
      PROVE  t \in Threads /\ t \in runnable' /\ c \in affinity'[t] /\ r.active[t] # c
  <2>1. t \in Threads
    BY <1>2, <1>6, SuggestedMay
  <2> QED
    BY <1>2, <1>6, <2>1, QueueHolds
<1>7. \/ moved = Idle /\ \A t \in ToSet(r.suggested[c]) : spare(t) = Idle
      \/ moved \in ToSet(r.suggested[c]) /\ spare(moved) # Idle /\ moved # Idle
  <2> HIDE DEF r
  <2>1. \/ moved = Idle /\ ToSet(r.suggested[c]) \cap spares = {}
        \/ moved \in ToSet(r.suggested[c]) \cap spares
    <3> HIDE DEF spares
    <3> QED
      BY <1>2, FirstOfIs
  <2> HIDE DEF moved
  <2> QED
    BY <1>6, <2>1 DEF SchedulerAssumption
<1>8. r.scheduled[c] = <<>>
  <2>1. c >= c
    BY DEF Cores, SchedulerAssumption
  <2> QED
    BY <1>3, <2>1 DEF Filled
<1>9. \A k \in Cores : pinned'[k] \in Threads => affinity'[pinned'[k]] = {k}
  BY DEF PinsStay
<1> HIDE DEF f, r, top, waits, waiting, moved
<1>10. CASE waiting # Idle /\ ~AllowsMigration(TopOn(top, r, waiting)) /\ f = s
  <2> DEFINE a == TopOn(top, r, waiting)
  <2>1. a # Idle /\ ~(prio'[a] >= HighestCoreMigrationAllowedPriority)
    BY <1>10 DEF AllowsMigration
  <2>2. waiting \in Threads
    BY <1>5, <1>6, <1>10
  <2>3. \E k \in Cores : a = top[k]
    BY <1>2, <2>1, <2>2 DEF TopOn
  <2> HIDE DEF a
  <2>4. a \in Threads
    BY <1>2, <2>1, <2>3 DEF Runners
  <2>5. prio'[a] < HighestCoreMigrationAllowedPriority
    BY <1>2, <2>1, <2>4 DEF SchedulerAssumption
  <2>6. Urgent(top)
    BY <2>1, <2>3, <2>5 DEF Urgent
  <2>7. Filled(q, c + 1, r, top)
    BY <1>3, <2>6, LeavesFilled DEF Served
  <2> QED
    BY <1>10, <2>7 DEF f, r, top
<1>11. CASE waiting = Idle /\ moved = Idle /\ f = s
  <2>1. \A t \in ToSet(r.suggested[c]) :
            TopOn(top, r, t) = t /\ NextOf(r.scheduled[r.active[t]], t) = Idle
    BY <1>4, <1>5, <1>6, <1>7, <1>11
  <2>2. Served(r, top, c)
    BY <1>2, <1>3, <1>9, <2>1, NobodyNeglected
  <2>3. Filled(q, c + 1, r, top)
    BY <1>3, <2>2, LeavesFilled
  <2> QED
    BY <1>11, <2>3 DEF f, r, top
<1>12. CASE waiting # Idle /\ f = [q |-> ChangeCore(r, waiting, c, prio', FALSE), top |-> top1]
  <2> DEFINE r2 == ChangeCore(r, waiting, c, prio', FALSE)
  <2>1. /\ waiting \in ToSet(r.suggested[c]) /\ waiting \in Threads /\ waiting \in runnable'
        /\ TopOn(top, r, waiting) # waiting
    BY <1>4, <1>5, <1>6, <1>12
  <2>2. NoCore \notin Cores
    BY DEF NoCore, Cores, SchedulerAssumption
  <2>3. \A k \in Cores : top[k] # waiting
    BY <1>3, <2>1, <2>2 DEF Tops, TopOn
  <2>4. top1[c] = waiting /\ \A k \in Cores \ {c} : top1[k] = top[k]
    BY <1>2
  <2>5. r2 = ChangeCore(r, waiting, c, prio', FALSE)
    OBVIOUS
  <2> HIDE DEF top1, r2
  <2>6. Takes(r, top, waiting, c, r2, top1)
    BY <1>8, <2>1, <2>3, <2>4, <2>5 DEF Takes
  <2>7. Filled(q, c + 1, r2, top1)
    BY <1>2, <1>3, <2>6, TakesFilled
  <2>8. f.q = r2 /\ f.top = top1
    BY <1>12, <2>5
  <2>9. Filled(q, c + 1, f.q, f.top)
    BY <2>7, <2>8
  <2> QED
    BY <2>9 DEF f
<1>13. CASE /\ waiting = Idle /\ moved # Idle
            /\ f = [q |-> ChangeCore(r, moved, c, prio', FALSE), top |-> top2]
  <2> DEFINE r2 == ChangeCore(r, moved, c, prio', FALSE)
  <2>1. /\ moved \in ToSet(r.suggested[c]) /\ moved \in Threads /\ moved \in runnable'
        /\ c \in affinity'[moved] /\ j # c /\ u # Idle
    BY <1>6, <1>7, <1>13
  <2>2. TopOn(top, r, moved) = moved
    BY <1>4, <1>5, <1>13, <2>1
  <2>3. j \in Cores /\ top[j] = moved
    BY <1>2, <2>1, <2>2 DEF TopOn, SchedulerAssumption
  <2>4. u = NextOf(r.scheduled[j], moved)
    OBVIOUS
  <2>5. u \in Threads
    BY <1>2, <2>1, <2>3, SpareHasCore
  <2>6. top2[c] = moved /\ top2[j] = u /\ \A k \in Cores \ {c, j} : top2[k] = top[k]
    BY <1>2, <2>1, <2>3
  <2>7. r2 = ChangeCore(r, moved, c, prio', FALSE)
    OBVIOUS
  <2>8. r2.scheduled[j] = Without(r.scheduled[j], moved)
    BY <2>1, <2>3 DEF ChangeCore
  <2>9. \A k \in Cores : top[k] = moved => k = j
    BY <1>3, <2>1 DEF Tops
  <2> HIDE DEF top2, r2, u, j
  <2>10. moved # pinned'[j]
    BY <1>9, <2>1, <2>3
  <2>11. moved = FrontOf(r.scheduled[j])
    BY <1>3, <1>13, <2>3, <2>10 DEF Tops
  <2>12. Ordered(r.scheduled[j], prio', Scheduled(r.active, runnable', j))
    BY <1>2, <2>3 DEF QueueInv
  <2>13. FrontOf(r2.scheduled[j]) = u
    BY <2>1, <2>4, <2>8, <2>11, <2>12, FrontLeaves
  <2>14. Takes(r, top, moved, c, r2, top2)
    BY <1>8, <2>1, <2>3, <2>5, <2>6, <2>7, <2>9, <2>13 DEF Takes
  <2>15. Filled(q, c + 1, r2, top2)
    BY <1>2, <1>3, <2>14, TakesFilled
  <2>16. f.q = r2 /\ f.top = top2
    BY <1>13, <2>7
  <2>17. Filled(q, c + 1, f.q, f.top)
    BY <2>15, <2>16
  <2> QED
    BY <2>17 DEF f
<1> QED
  BY <1>1, <1>10, <1>11, <1>12, <1>13

LEMMA SelectionFills ==
    ASSUME SchedulerAssumption, NEW q, QueueInv(q, prio', affinity', runnable'),
           PinsStay(q), pinned' \in [Cores -> Runners], NEW chosen \in Selection(q)
    PROVE  Filled(q, NumCores, chosen.q, chosen.top)
<1> DEFINE first == [q |-> q, top |-> [c \in Cores |-> TopThread(q, c)]]
           Fills(l, n) == {FillIdleCore(s, n - 1) : s \in l}
<1>1. PICK f : /\ \A n \in 0 .. NumCores :
                      f[n] = IF n = 0 THEN {first}
                             ELSE IF q.scheduled[n - 1] = <<>> THEN Fills(f[n - 1], n)
                             ELSE f[n - 1]
               /\ Selection(q) = f[NumCores]
  BY SelectionRecursion
<1>2. Chosen(first.q, first.top, q) /\ Filled(q, 0, first.q, first.top)
  <2>1. first.q = q /\ first.top = [c \in Cores |-> TopThread(q, c)]
    OBVIOUS
  <2>2. PinsHaveCores(q)
    BY DEF PinsHaveCores, PinsStay
  <2>3. Chosen(q, [c \in Cores |-> TopThread(q, c)], q)
    BY <2>2, TopThreadsChosen
  <2>4. Filled(q, 0, q, [c \in Cores |-> TopThread(q, c)])
    BY FirstFilled
  <2> HIDE DEF first
  <2> QED
    BY <2>1, <2>3, <2>4
<1> HIDE DEF first, Fills
<1> DEFINE Good(l, n) == \A s \in l : Chosen(s.q, s.top, q) /\ Filled(q, n, s.q, s.top)
           Bad == {n \in 0 .. NumCores : ~Good(f[n], n)}
<1>3. ASSUME Bad # {}
      PROVE  FALSE
  <2>1. Bad \subseteq Nat
    BY DEF SchedulerAssumption
  <2>2. PICK n \in Bad : \A m \in Bad : n <= m
    <3> HIDE DEF Bad
    <3> QED
      BY <1>3, <2>1, Least
  <2>3. n # 0
    BY <1>1, <1>2, <2>2
  <2>4. PICK c : c = n - 1
    OBVIOUS
  <2>5. n \in 0 .. NumCores /\ c \in Cores /\ c \in 0 .. NumCores /\ ~(n <= c) /\ n = c + 1
    BY <2>3, <2>4 DEF Cores, SchedulerAssumption
  <2>6. Good(f[c], c)
    BY <2>2, <2>5
  <2>7. CASE q.scheduled[c] = <<>>
    <3>1. Good(Fills(f[c], n), n)
      <4> HIDE DEF Bad
      <4> SUFFICES ASSUME NEW s \in f[c]
                   PROVE  /\ Chosen(FillIdleCore(s, c).q, FillIdleCore(s, c).top, q)
                          /\ Filled(q, c + 1, FillIdleCore(s, c).q, FillIdleCore(s, c).top)
        BY <2>4, <2>5 DEF Fills
      <4>1. Chosen(s.q, s.top, q) /\ Filled(q, c, s.q, s.top)
        BY <2>6
      <4>2. Chosen(FillIdleCore(s, c).q, FillIdleCore(s, c).top, q)
        BY <2>5, <4>1, FillKeeps, Zenon
      <4>3. Filled(q, c + 1, FillIdleCore(s, c).q, FillIdleCore(s, c).top)
        BY <2>5, <2>7, <4>1, FillServes, Zenon
      <4> QED
        BY <4>2, <4>3
    <3>2. Good(f[n], n)
      <4> HIDE DEF Good, Bad
      <4> QED
        BY <1>1, <2>3, <2>4, <2>5, <2>7, <3>1
    <3> QED
      BY <2>2, <3>2
  <2>8. CASE q.scheduled[c] # <<>>
    <3>1. f[n] = f[c]
      BY <1>1, <2>3, <2>4, <2>5, <2>8
    <3>2. ASSUME NEW s \in f[c]
          PROVE  Chosen(s.q, s.top, q) /\ Filled(q, c + 1, s.q, s.top)
      <4>1. Chosen(s.q, s.top, q) /\ Filled(q, c, s.q, s.top)
        BY <2>6, <3>2
      <4>2. Served(s.q, s.top, c)
        BY <2>5, <2>8, <4>1 DEF Filled, Served, Neglects
      <4>3. Filled(q, c + 1, s.q, s.top)
        BY <2>5, <4>1, <4>2, LeavesFilled
      <4> QED
        BY <4>1, <4>3
    <3>3. Good(f[n], n)
      BY <2>5, <3>1, <3>2
    <3> QED
      BY <2>2, <3>3
  <2> QED
    BY <2>7, <2>8
<1>4. NumCores \in 0 .. NumCores
  BY DEF SchedulerAssumption
<1> QED
  BY <1>1, <1>3, <1>4

\* What a critical section that chooses leaves.
LEMMA ReselectFills ==
    ASSUME SchedulerAssumption, NEW by, NEW q, NEW counted, Reselect(by, q, counted),
           ThreadsSettle(q)
    PROVE  /\ Chosen(queue', highest', q) /\ Filled(q, NumCores, queue', highest')
           /\ spent' = {} \/ spent' = spent
<1>1. /\ QueueInv(q, prio', affinity', runnable') /\ pinned' \in [Cores -> Runners]
      /\ PinsStay(q)
  BY DEF ThreadsSettle, PinsStay
<1>2. PinsHaveCores(q)
  BY <1>1 DEF PinsHaveCores, PinsStay
<1>3. PICK chosen \in Selection(q) : \E before : Publish(by, chosen, before, counted)
  BY DEF Reselect
<1>4. Filled(q, NumCores, chosen.q, chosen.top)
  BY <1>1, SelectionFills
<1>5. queue' = chosen.q /\ highest' = chosen.top
  BY <1>3 DEF Publish
<1>6. Chosen(queue', highest', q)
  BY <1>1, <1>2, ReselectGives
<1>7. spent' = {} \/ spent' = spent
  BY <1>3 DEF Publish
<1> QED
  BY <1>4, <1>5, <1>6, <1>7

LEMMA CountedSpends ==
    ASSUME NEW by, NEW q, NEW counted, counted, Reselect(by, q, counted)
    PROVE  spent' = {}
<1>1. PICK chosen, before : Publish(by, chosen, before, counted)
  BY DEF Reselect
<1> DEFINE changes == \E c \in {k \in Cores : {highest[k], chosen.top[k]} # {before[k]}} :
                          highest[c] \notin {Idle, before[c]} \/ before[c] \notin {Idle, chosen.top[c]}
<1>2. spent' = IF counted \/ changes THEN {} ELSE spent
  BY <1>1, Zenon DEF Publish
<1> HIDE DEF changes
<1> QED
  BY <1>2, Zenon

\* A core's choice runs on that core.
HighestInv ==
    \A c \in Cores : highest[c] \in Threads =>
        highest[c] \in runnable /\ queue.active[highest[c]] = c

BestInv == HighestInv /\ NoCoreIdlesBesideWaiters /\ SpentYieldIsPointless

\* A choice made anew serves everybody who waits.
LEMMA FilledServes ==
    ASSUME SchedulerAssumption, NEW q, Chosen(queue', highest', q),
           Filled(q, NumCores, queue', highest')
    PROVE  HighestInv' /\ NoCoreIdlesBesideWaiters'
<1>1. Tops(queue', highest') /\ \A c \in Cores : Served(queue', highest', c)
  <2>1. \A c \in Cores : c < NumCores
    BY DEF Cores, SchedulerAssumption
  <2> QED
    BY <2>1 DEF Filled
<1>2. /\ runnable' \subseteq Threads /\ Idle \notin Threads
      /\ \A u \in Threads : queue'.active[u] \in Cores \cup {NoCore}
  BY DEF Chosen, QueueInv, SchedulerAssumption
<1>3. HighestInv'
  BY <1>1 DEF HighestInv, Tops
<1>4. ASSUME NEW c \in Cores, NEW t \in runnable', \A k \in Cores : highest'[k] # t,
             queue'.scheduled[c] = <<>>, pinned'[c] = Idle,
             \/ c \in affinity'[t]
             \/ /\ TopOn(highest', queue', t) # Idle
                /\ c \in affinity'[TopOn(highest', queue', t)]
      PROVE  Urgent(highest')
  <2>1. TopOn(highest', queue', t) # t
    BY <1>2, <1>4 DEF TopOn
  <2>2. Neglects(queue', highest', c, t)
    BY <1>4, <2>1 DEF Neglects
  <2> QED
    BY <1>1, <2>2 DEF Served
<1>5. NoCoreIdlesBesideWaiters'
  BY <1>4 DEF NoCoreIdlesBesideWaiters, Urgent
<1> QED
  BY <1>3, <1>5

\* A section that leaves the choice leaves the threads where they are.
LEMMA RestServes ==
    ASSUME SchedulerAssumption, ChoiceInv, HighestInv, NoCoreIdlesBesideWaiters,
           NEW q, Rests(q), QueueInv(q, prio', affinity', runnable'), queue' = q,
           highest' = highest
    PROVE  HighestInv' /\ NoCoreIdlesBesideWaiters'
<1>1. /\ runnable' = runnable /\ pinned' = pinned
      /\ \A u \in runnable : /\ queue'.active[u] = queue.active[u]
                             /\ prio'[u] = prio[u] /\ affinity'[u] = affinity[u]
  BY DEF Rests, SamePlaces
<1>2. /\ QueueInv(queue, prio, affinity, runnable) /\ runnable \subseteq Threads
      /\ \A u \in Threads : queue.active[u] \in Cores \cup {NoCore}
      /\ highest \in [Cores -> Runners]
  BY DEF ChoiceInv, QueueInv, TypeOK
<1>3. QueueInv(queue', prio', affinity', runnable')
  OBVIOUS
<1>4. HighestInv'
  BY <1>1 DEF HighestInv
<1>5. \A c \in Cores : queue'.scheduled[c] = <<>> => queue.scheduled[c] = <<>>
  BY <1>1, <1>2, <1>3, ListEmpty
<1>6. \A c \in Cores : highest[c] = Idle \/ highest[c] \in runnable
  BY <1>2 DEF HighestInv, Runners
<1>7. ASSUME NEW t \in runnable
      PROVE  /\ TopOn(highest', queue', t) = TopOn(highest, queue, t)
             /\ TopOn(highest, queue, t) = Idle \/ TopOn(highest, queue, t) \in runnable
  BY <1>1, <1>2, <1>6 DEF TopOn
<1>8. ASSUME NEW c \in Cores, NEW t \in runnable, \A k \in Cores : highest'[k] # t,
             highest'[c] = Idle,
             queue'.scheduled[c] = <<>>, pinned'[c] = Idle,
             \/ c \in affinity'[t]
             \/ /\ TopOn(highest', queue', t) # Idle
                /\ c \in affinity'[TopOn(highest', queue', t)]
      PROVE  \E k \in Cores : highest'[k] # Idle
                              /\ prio'[highest'[k]] < HighestCoreMigrationAllowedPriority
  <2>1. /\ highest[c] = Idle /\ queue.scheduled[c] = <<>> /\ pinned[c] = Idle
        /\ \A k \in Cores : highest[k] # t
    BY <1>1, <1>5, <1>8
  <2>2. \/ c \in affinity[t]
        \/ TopOn(highest, queue, t) # Idle /\ c \in affinity[TopOn(highest, queue, t)]
    BY <1>1, <1>7, <1>8
  <2>3. \E k \in Cores : highest[k] # Idle
                         /\ prio[highest[k]] < HighestCoreMigrationAllowedPriority
    BY <2>1, <2>2 DEF NoCoreIdlesBesideWaiters
  <2> QED
    BY <1>1, <1>6, <2>3
<1>9. NoCoreIdlesBesideWaiters'
  BY <1>1, <1>8 DEF NoCoreIdlesBesideWaiters
<1> QED
  BY <1>4, <1>9

-----------------------------------------------------------------------------
(* Whose yield is known to be pointless.                                   *)

LEMMA FilledSpends ==
    ASSUME SchedulerAssumption, SpentYieldIsPointless, NEW q, Apart(q, queue'),
           SamePlaces(q), spent' = {} \/ spent' = spent
    PROVE  SpentYieldIsPointless'
<1>1. /\ runnable' = runnable
      /\ \A u \in runnable : q.active[u] = queue.active[u] /\ prio'[u] = prio[u]
  BY DEF SamePlaces
<1>2. ASSUME NEW t \in spent' \cap runnable', NEW u \in runnable', t # u,
             queue'.active[u] = queue'.active[t]
      PROVE  prio'[u] # prio'[t]
  <2>1. t \in spent \cap runnable /\ u \in runnable
    BY <1>1, <1>2
  <2>2. q.active[u] = q.active[t]
    BY <1>2 DEF Apart
  <2>3. queue.active[u] = queue.active[t]
    BY <1>1, <2>1, <2>2
  <2>4. prio[u] # prio[t]
    BY <1>2, <2>1, <2>3 DEF SpentYieldIsPointless
  <2> QED
    BY <1>1, <2>1, <2>4
<1> QED
  BY <1>2 DEF SpentYieldIsPointless

LEMMA RestSpends ==
    ASSUME SchedulerAssumption, SpentYieldIsPointless, NEW q, Rests(q), queue' = q,
           IdlyYields(q, spent')
    PROVE  SpentYieldIsPointless'
<1>1. /\ runnable' = runnable
      /\ \A u \in runnable : q.active[u] = queue.active[u] /\ prio'[u] = prio[u]
  BY DEF Rests, SamePlaces
<1>2. ASSUME NEW t \in spent' \cap runnable', NEW u \in runnable', t # u,
             queue'.active[u] = queue'.active[t]
      PROVE  prio'[u] # prio'[t]
  <2>1. t \in runnable /\ u \in runnable /\ q.active[u] = q.active[t]
    BY <1>1, <1>2
  <2>2. queue.active[u] = queue.active[t]
    BY <1>1, <2>1
  <2>3. t \in spent \/ Alone(q, t)
    BY <1>2 DEF IdlyYields
  <2>4. prio[u] # prio[t]
    BY <1>2, <2>1, <2>2, <2>3 DEF SpentYieldIsPointless, Alone
  <2> QED
    BY <1>1, <2>1, <2>4
<1> QED
  BY <1>2 DEF SpentYieldIsPointless

\* What the properties are about stays.
LEMMA QuietServes ==
    ASSUME BestInv, UNCHANGED <<queue, highest, runnable, affinity, pinned, prio, spent>>
    PROVE  BestInv'
BY DEF BestInv, HighestInv, NoCoreIdlesBesideWaiters, SpentYieldIsPointless, TopOn

LEMMA SettlesServes ==
    ASSUME SchedulerAssumption, ChoiceInv, BestInv, NEW by, Settles(by)
    PROVE  BestInv'
<1>1. PICK q : ThreadsSettle(q) /\ Ends(by, q)
  BY DEF Settles
<1>2. HighestInv /\ NoCoreIdlesBesideWaiters /\ SpentYieldIsPointless
  BY DEF BestInv
<1>3. CASE \E counted : counted /\ Reselect(by, q, counted)
  <2>1. PICK counted : counted /\ Reselect(by, q, counted)
    BY <1>3
  <2>2. Chosen(queue', highest', q) /\ Filled(q, NumCores, queue', highest')
    BY <1>1, <2>1, ReselectFills
  <2>3. spent' = {}
    BY <2>1, CountedSpends, Zenon
  <2>4. HighestInv' /\ NoCoreIdlesBesideWaiters'
    BY <2>2, FilledServes
  <2>5. SpentYieldIsPointless'
    BY <2>3 DEF SpentYieldIsPointless
  <2> QED
    BY <2>4, <2>5 DEF BestInv
<1>4. CASE SamePlaces(q) /\ \E counted : Reselect(by, q, counted)
  <2>1. PICK counted : Reselect(by, q, counted)
    BY <1>4
  <2>2. /\ Chosen(queue', highest', q) /\ Filled(q, NumCores, queue', highest')
        /\ spent' = {} \/ spent' = spent
    BY <1>1, <2>1, ReselectFills
  <2>3. HighestInv' /\ NoCoreIdlesBesideWaiters'
    BY <2>2, FilledServes
  <2>4. Apart(q, queue')
    BY <2>2 DEF Filled
  <2>5. SpentYieldIsPointless'
    BY <1>2, <1>4, <2>2, <2>4, FilledSpends
  <2> QED
    BY <2>3, <2>5 DEF BestInv
<1>5. CASE /\ by # Host /\ Rests(q)
           /\ \E after \in SUBSET Threads : Keep(by, q, after) /\ IdlyYields(q, after)
  <2>1. queue' = q /\ highest' = highest /\ IdlyYields(q, spent')
    BY <1>5 DEF Keep
  <2>2. QueueInv(q, prio', affinity', runnable')
    BY <1>1 DEF ThreadsSettle
  <2>3. HighestInv' /\ NoCoreIdlesBesideWaiters'
    BY <1>2, <1>5, <2>1, <2>2, RestServes
  <2>4. SpentYieldIsPointless'
    BY <1>2, <1>5, <2>1, RestSpends
  <2> QED
    BY <2>3, <2>4 DEF BestInv
<1> QED
  BY <1>1, <1>3, <1>4, <1>5 DEF Ends

LEMMA NextServes ==
    ASSUME SchedulerAssumption, ChoiceInv, BestInv, [Next]_vars
    PROVE  BestInv'
<1>1. CASE PreemptThreads
  BY <1>1, PreemptSettles, SettlesServes
<1>2. CASE \E t \in Threads : StartThread(Host, t)
  BY <1>2, StartSettles, SettlesServes
<1>3. ASSUME NEW c \in Cores, Call(c)
      PROVE  BestInv'
  <2>1. CASE \E t \in Threads : StopThread(c, t)
    BY <2>1, StopSettles, SettlesServes
  <2>2. CASE \E t \in Threads : StartThread(c, t)
    BY <2>2, StartSettles, SettlesServes
  <2>3. CASE \E t \in Threads : \E p \in Priorities : SetPriority(c, t, p)
    BY <2>3, PrioritySettles, SettlesServes
  <2>4. CASE \E t \in Threads : \E mask \in Masks : SetCoreMask(c, t, mask)
    BY <2>4, CoreMaskSettles, SettlesServes
  <2>5. CASE \E t \in Threads : ChangeKernelWaiters(c, t)
    BY <2>5, WaitersSettle, SettlesServes
  <2>6. CASE ExitThread(c)
    BY <2>6, ExitSettles, SettlesServes
  <2>7. CASE Unpin(c)
    BY <2>7, UnpinSettles, SettlesServes
  <2>8. CASE YieldWithoutCoreMigration(c)
    BY <2>8, StaySettles, SettlesServes
  <2>9. CASE YieldWithCoreMigration(c)
    BY <2>9, MigrateSettles, SettlesServes
  <2>10. CASE YieldToAnyThread(c)
    BY <2>10, AwaySettles, SettlesServes
  <2> QED
    BY <1>3, <2>1, <2>2, <2>3, <2>4, <2>5, <2>6, <2>7, <2>8, <2>9, <2>10 DEF Call
<1>4. ASSUME NEW c \in Cores, CoreStep(c)
      PROVE  BestInv'
  <2>1. CASE HandleInterruptAndPin(c)
    BY <2>1, PinSettles, SettlesServes
  <2>2. CASE ~HandleInterruptAndPin(c)
    <3>1. TypeOK
      BY DEF ChoiceInv
    <3>2. UNCHANGED <<choiceVars, threadVars>>
      BY <1>4, <2>2, <3>1, StepTypes
    <3> QED
      BY <3>2, QuietServes DEF choiceVars, threadVars
  <2> QED
    BY <2>1, <2>2
<1>5. CASE UNCHANGED vars
  BY <1>5, QuietServes DEF vars
<1> QED
  BY <1>1, <1>2, <1>3, <1>4, <1>5 DEF Next, HostStep

THEOREM BestInvariance == Spec => []BestInv
<1>1. Init => BestInv
  <2> SUFFICES ASSUME Init PROVE BestInv
    OBVIOUS
  <2>1. runnable = {} /\ highest = [c \in Cores |-> Idle] /\ Idle \notin Threads
    BY SchedulerAssumption DEF Init, SchedulerAssumption
  <2> QED
    BY <2>1 DEF BestInv, HighestInv, NoCoreIdlesBesideWaiters, SpentYieldIsPointless
<1>2. ChoiceInv /\ BestInv /\ [Next]_vars => BestInv'
  BY NextServes, SchedulerAssumption
<1> QED
  BY <1>1, <1>2, ChoiceInvariance, PTL DEF Spec

\* However the threads stop, start, yield, change and migrate, no core idles that
\* could take a waiting thread, but for the sake of an urgent one.
THEOREM CoresDoNotIdle == Spec => []NoCoreIdlesBesideWaiters
<1>1. BestInv => NoCoreIdlesBesideWaiters
  BY DEF BestInv
<1> QED
  BY <1>1, BestInvariance, PTL

\* A yield that is skipped would have found no other thread of its priority on the
\* core, whatever happened since the thread's last yield.
THEOREM SkippedYieldsArePointless == Spec => []SpentYieldIsPointless
<1>1. BestInv => SpentYieldIsPointless
  BY DEF BestInv
<1> QED
  BY <1>1, BestInvariance, PTL

=============================================================================
