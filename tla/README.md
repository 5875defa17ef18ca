# A specification of the STORM SWITCH kernel core

STORM SWITCH is an emulator: it runs programs written for another console. Most
of its source is formats, drivers and compilers. What carries its own logic, and
what is hard to test, is the re-implementation of the console's kernel under
`src/src/core/hle/kernel`: threads, locks, condition variables, timers and the
scheduler, which many host threads (one per emulated core, plus service and host
threads) enter at once. This project models that core in TLA+, checks it with
TLC and proves its central lock, its scheduler's hand-over between cores, its timer
and its resource limits correct with TLAPS.

## Inventory

| Part | State | Operations | Hard behaviour | What makes it correct |
| --- | --- | --- | --- | --- |
| Light lock (`k_light_lock.cpp`) | `m_tag`: owner and has-waiters bit | `Lock`, `Unlock` and their slow paths | compare-and-swaps on other cores between hand-over and store; suspension put off while others wait | mutual exclusion, no lost wake-up, no forgotten suspension |
| Thread waiters (`k_thread.cpp`) | held locks with their waiters, base and current priority, suspend flags | `AddWaiter`, `RemoveWaiter`, `RemoveWaiterByKey`, `RestorePriority`, `SetBasePriority`, suspend and resume, termination | chains of owners, hand-over of waiters, finalization of an owner | exact priority inheritance, each waiter in one place |
| Guest mutexes and condition variables (`k_condition_variable.cpp`) | guest words, tree of waiters | `WaitForAddress`, `SignalToAddress`, `Wait`, `Signal` | the guest changes the words without the kernel; timeouts race signals | mutual exclusion between guest threads, no lost signal |
| Address arbiter (`k_address_arbiter.cpp`) | tree of waiters, guest word | three kinds of wait, three of signal | exclusive access between read and write | a waiter is woken by whoever changed the word |
| Synchronization objects, events (`k_synchronization_object.cpp`, `k_readable_event.cpp`) | waiter list of each object, signalled flag | `Wait` on several objects, `Signal`, `Clear`, `Reset` | the object is signalled between the look and the wait; cancellation; timeouts | a signalled object has no waiter left |
| Hardware timer (`k_hardware_timer.cpp`) | tree of tasks, armed wake-up time | register, cancel, interrupt | a task earlier than the armed time; late interrupts | the earliest task is always covered |
| Scheduler (`k_scheduler.cpp`, `k_priority_queue.h`, `k_scheduler_lock.h`) | queues per core and priority, highest thread per core, needs-scheduling flags | `UpdateHighestPriorityThreads`, `ScheduleImpl`, yields | selection by one core, switching on another, migration of idle cores | each thread on one core; no choice lost on its way to a core; no core idle beside work; a yield left out only when it is pointless |
| Sessions and ports (`k_server_session.cpp`, `k_session.cpp`, ...) | request list, current request, state, references | send, receive, reply, close | either end closes, and clients are terminated, at any time | each call is answered once, by its own answer; each reference is given back once; no server sleeps beside work |
| Resource limits (`k_resource_limit.cpp`, `k_light_condition_variable.cpp`) | limit, current, hint and peak values, waiter count and list | `Reserve` with timeout, `Release`, `SetLimitValue` | releases between the look at the values and the sleep; timeouts and terminations race broadcasts; sums that overflow | never above the limit, nobody sleeps beside room or for nothing |
| Handle table, object references (`k_handle_table.cpp`, `k_auto_object.h`) | entries, free list, linear ids, counts | add, reserve, register, remove, open, close | a handle is used after its entry was reused | a stale handle finds nothing |
| Thread life cycle, workers (`k_thread.cpp`, `k_worker_task_manager.cpp`, `k_process.cpp`) | thread state, termination flags, task list | run, exit, terminate, suspend, pin | termination of a waiting, suspended or pinned thread | whoever waits for the end is woken |
| Page heap, memory blocks (`k_page_heap.cpp`, `k_memory_block_manager.cpp`) | bitmaps, block tree | allocate, free, update | splitting and coalescing | every page is free or used once |
| Core timing (`core_timing.cpp`, `cpu_manager.cpp`) | event queue, pause flags | schedule, unschedule, advance | an event that removes itself while it runs | every event fires once, in order |
| Buffer queues (`nvnflinger`) | slots, queue of items | dequeue, queue, acquire, release, cancel | a slot used by both sides | each slot has one user |
| GPU thread, fences, syncpoints | command queue, fence queue, waiters | push, signal, wait | order of release and wait | a fence is signalled after its work |
| Queues of `src/common` | ring, mutexes, condition variables | push, pop, close, wait | full and empty, stop requests | no item lost, nobody asleep for ever |
| Audio, network room | mailboxes, member list | send, receive, join, leave | | |

File formats, services, the shader recompiler, the renderers, dynarmic and the
frontends are not modelled: their states are files, programs and device objects.

How the parts meet. A thread enters the kernel by a supervisor call on its core's
host thread. The scheduler lock serialises almost everything in the table's first
rows; it is taken by `KScopedSchedulerLock`, and on its release the scheduler
picks the next threads. A thread that has to wait puts itself into a wait queue
object on its own stack (`BeginWait`), gives the scheduler lock back and is
switched away; whoever ends the wait calls `EndWait` or, for a timeout,
termination or cancellation, `CancelWait` of that queue, which takes the thread
out of whatever structure it waits in. Timeouts come from the hardware timer,
under the same lock. Light locks protect longer kernel operations (page tables,
ports, resource limits); their waiters are kept by the same lists as those of
guest mutexes, in `KThread`.

## Modules

| Module | Models |
| --- | --- |
| `KLightLock` | the light lock with waiting, suspension and termination of its threads |
| `AbstractLock` | what a lock promises: one holder, and the lock passes to who wants it |
| `KLightLockProofs` | theorems about `KLightLock` |
| `KThreadWaiters` | the waiter lists and priority inheritance of `KThread`, as operators on a thread table |
| `KConditionVariable` | guest mutexes and a condition variable over `KThreadWaiters` |
| `KConditionVariableProofs` | theorems about `KConditionVariable` and lemmas about `KThreadWaiters` |
| `KAddressArbiter` | the address arbiter: waits and signals on words the guest changes meanwhile |
| `KAddressArbiterProofs` | theorems about `KAddressArbiter` |
| `KSynchronizationObject` | waits on several objects at once, events, cancellation, with the intrusive lists node by node |
| `AbstractSynchronization` | what such a wait promises: a signal wakes, at once, all who wait for the object and nobody else |
| `KSynchronizationObjectProofs` | theorems about `KSynchronizationObject` |
| `KHardwareTimer` | the tree of timed tasks and the one event `CoreTiming` holds for them |
| `KHardwareTimerProofs` | theorems about `KHardwareTimer` |
| `KResourceLimit` | resource limits and the light condition variable their waiters sleep on |
| `KResourceLimitProofs` | theorems about `KResourceLimit` |
| `KPriorityQueue` | the scheduler's priority queue, as operators on a queue |
| `KScheduler` | critical sections that choose each core's thread, and the cores that follow |
| `KSchedulerProofs` | theorems about `KScheduler` |
| `KServerSession` | one session: requests, replies and the end of either side |
| `KServerSessionProofs` | theorems about `KServerSession` |
| `MC...` | instances for TLC |

`KLightLock` and `KConditionVariable` are shown to implement `AbstractLock`,
`KSynchronizationObject` to implement `AbstractSynchronization`. `KResourceLimit`
and `KServerSession` use a lock with the properties shown for `KLightLock`; all
modules take a timeout as something that happens to a waiter under the scheduler
lock, which is what `KHardwareTimer` shows to come. `KScheduler` shows what all the
others presume: a thread that is made runnable gets to run, on one core at a time.
`KServerSession` takes the wait on a session as one step, which is what
`AbstractSynchronization` promises.

### KLightLock

One thread step of `KLightLock` is one atomic action of the code: the
compare-and-swap loop of `Lock` (`LockFast`), the one of `Unlock` (`UnlockFast`),
a critical section of the scheduler lock (`LockSlowRetry`, `LockSlowWait`), and
for `UnlockSlowPath` two steps with the scheduler lock held in between: the
hand-over (`UnlockSlowNobody`, `UnlockSlowHandOver`), then the store of the new
tag (`UnlockStore`). Between these two, `LockFast` and `UnlockFast` of other
cores may run; that is the window the algorithm is about. `RequestSuspend`,
`Resume`, `RequestTerminate` and `Exit` are what the rest of the kernel does to
the threads. The thread state is kept as the code keeps it: the run state
(`run`), the suspend flags in effect (`susp`), the requested (`req`) and allowed
ones, the lock owner and the count of kernel waiters. The waiters' order by
priority is left out (any waiter may be next), since priorities change while
they wait.

### KThreadWaiters and KConditionVariable

`KThreadWaiters` has no variables: each operator is one function of `k_thread.cpp`
from a thread table to the next, so that the modules that use the lists cannot
disagree about them. The waiters of one lock are sorted by priority; equals are
left unordered, because any of them may come first after priorities moved.
`RestorePriority` is the code's loop, turn by turn (`Turn`), for at most as many
turns as there are threads. The code's loop has no such bound and needs none: a turn
that goes on has corrected a priority, and the chain of owners it follows is no longer
than the threads are many. That the bound cuts nothing off is what `Inheritance`
checks in two runs and `RestoreRuns` of the proofs shows for any number of threads.

`KConditionVariable` composes these lists with the guest's words. Each step
touches guest memory at most once, so an exclusive access of the guest on another
core may fall between the choice of the next owner and the store of its handle
(`SignalToAddress`, `SignalToAddressStore`; `Wait`, `WaitStore`). In
`SignalToAddress` the code wakes the next owner after the store; the owner cannot
run before the scheduler lock is free, so the model wakes it with the choice. The
tree of the condition variable is a sequence, with the code's order: by priority,
a thread that is inserted or sorted again behind its equals; `Signal` walks it
with an iterator, as the code does. The tree holds the waiters of one `cv_key`;
other keys are other subsequences of the same tree that do not meet.
The guest's half (`Guest*`, `CloseHandle`) is not in the repository. It is what
the calls presume: a mutex word is taken by exclusive access, the mask is left in
it for an owner, `ArbitrateLock` is called with the owner read, the word is looked
at again afterwards, and `SignalProcessWideKey` is left out while the word at
`cv_key` is 0.

### KAddressArbiter

The tree is one sequence, sorted among equal addresses by priority, new threads
behind their equals. A wait is two steps: the access of the word (`WaitReads`) and
what follows from it (`WaitBegins`, `WaitReturn`), with the scheduler lock held
between them, so that the guest's stores on other cores fall in between. A signal
is one step: nothing the guest can see lies between its access and its wake-ups.
Words have `2 * Half` values and wrap as the code's do. `GuestStore` followed by
`GuestSignal` is the guest's use of an address as a futex, `Signal` on its own any
other use. Which addresses are futexes is the program's choice, made in `Init`
(`futexes`): there every signal that changes the word wakes all (`AllIfFutex`), and
nobody waits by decrementing.

### KSynchronizationObject and AbstractSynchronization

Each call of `Wait` puts one node per object on its stack, and each object keeps a
singly linked list of them. The model keeps head, tail and next of every node,
since the hazard is the walk: `NotifyAvailable` (`Signal`, `NotifyStep`,
`NotifyEnd`) stands on a node while the wake-up of its thread takes that node, and
the thread's others, out of their lists, and only then reads that node's next
pointer, which `UnlinkNode` has left as it was. Handles may name one object twice. The refinement maps the threads a
signal still has to reach to threads already awake: the abstract signal is one
step, the code's as many as there are nodes. Only readable events are modelled;
for other objects (`KServerSession`, `KThread`, `KProcess`, ports) the wait is the
same code and `IsSignaled` another function of their state.

### KHardwareTimer

Tasks are registered, cancelled and run under the scheduler lock (`Sleep`,
`CancelTask`, `DoTask`). `CoreTiming` takes a due event from its queue without any
kernel lock (`PopEvent`); `DoTask` follows when it gets the scheduler lock, and by
then tasks may have come and gone and the interrupt may have been enabled anew,
also for the time of the event already popped, or disabled, and then it does
nothing (`DoNothing`). `Never` is the largest s64, which stands for "disabled" and
is also the time of a sleep whose timeout overflowed.

### KResourceLimit

A step is what a thread does with `m_lock` held and nobody sees: one round of the
loop of `Reserve` (`TryReserve`, from `Reserve`, `Retry` or `Relock`), the critical
section of the scheduler lock in `KLightConditionVariable::Wait`, `Release` up to
the broadcast, the broadcast. Between `Release` and `Broadcast` a sleeper may time
out or be terminated. All resources share lock, count and list, as in the code.
The clock is reduced to whether the timeout of a call has passed (`Pass`), since
calls compare the clock with nothing else. A thread releases what is held (`Held`):
a hint when its end is certain (`KThread::Exit`), the value when the object is gone
(`KThread::PostDestroy`). Who gets `m_lock` next is left open: the light lock hands over
by priority. Threads are not terminated while they wait for `m_lock`
itself: what then happens is finding 1 and belongs to the light lock.

### KPriorityQueue and KScheduler

`KPriorityQueue` has no variables. The code keeps a list per core and priority; one
list per core in order of priority holds the same, since the code only asks for a
front, a next or the front of one priority. The suggested queue's order among equals
decides which thread an idle core takes, so it is kept exactly: a thread is inserted
behind (`Behind`) or ahead of (`Before`) its equals. The code's searches, a loop from
the front by `GetSuggestedNext` until a condition holds, are `FirstOf` the list among
the threads for which it holds.

In `KScheduler` a critical section of the scheduler lock is one step
(`StopThread`, `StartThread`, `SetPriority`, `SetCoreMask`, `Unpin`, the yields,
`PreemptThreads`, ...), which ends with `Reselect`: `Selection` is the whole of
`UpdateHighestPriorityThreadsImpl`, the migration of idle cores included, in the
code's order of cores; `Publish` is what `UpdateHighestPriorityThread` tells the
cores of it. What follows happens without the lock, each access a step:
the interrupts to other cores (`EnableScheduling`; `ipi` are those still to be sent),
the flag and the choice (`HandleInterrupt`, `LeaveThread`), the context guard and the
second look at the flag (`LockContext`, `GiveUpTarget`, `UndoSwitch`,
`FinishSwitch`), the retry (`RefreshTarget`). Between any two, other cores may
choose anew for this core.

The last-scheduled ticks that two yields compare are abstracted to "was scheduled
later or not" (`recent`), any combination of which may be true, for each core that
`PreemptThreads` rotates anew (`Rotations`). The cores are rotated at priorities of their
own (`PreemptionPriority`; 59 in the code, 63 on the last core). A thread may exit
pinned: `StartTermination` then gives the pin up first (`ExitThread`). The yield count is
kept as the set of threads for which it equals the process's scheduled count
(`spent`): the count only grows, so that the set is emptied whenever it moves. All
threads belong to one process. An interrupt that pins leaves `interrupted` set, so that
`HandleInterrupt` follows with the request for a schedule, as in
`KInterruptManager::HandleInterrupt`.

`NoCoreIdlesBesideWaiters` leaves out cores with a pinned thread. The code notes which
cores are idle before it migrates anything: a core whose pinned thread cannot run shows
no top thread although others wait there, and when the last of these leaves for an idle
core, its own core is not filled until the next critical section. Three cores and five
threads show it.

Left out: dummy threads, which never enter the queue; interrupt tasks; single-core
mode; the waits of `SetCoreMask` and `FinishTermination` until a thread has left its
core. The host thread's interrupts are sent in the step of its section, since nothing
of it can come in between that the cores could tell.

### KServerSession

A step is one critical section of the scheduler lock, one access of the session's
state outside it, or the closing of a reference. `m_lock` is a plain mutex (the light
lock, by its own run) that is held from `ReceiveRequest` to the end of the receipt,
from `SendReply` to the end of the reply, and through `OnClientClosed` and
`CleanupRequests`. References are counts, as in `KAutoObject`: of requests, of the
client threads they hold, of the two ends and of the parent. `SetState` is a step of
its own after the test of the state in `Destroy`, because no lock covers the two.
`NotifyAvailable` tests `IsSignaled` itself, as in the code: a request sent while
another is current wakes nobody, whether or not the list was empty, and whoever clears
the current request has to (`NotifyIfPending`).

A request's slab entry may be used again at once, so that a late use of a request
would be a use of somebody else's. A client that is terminated in its wait comes back
while its request stays in the list or with a server. A client may be terminated
anywhere in its call or in `OnClientClosed`, except while it waits for `m_lock` there
(`WaitsForLock`): the wait would be cancelled and the client go on without the lock,
which is finding 1 again; references are then not exact, since two threads may close
the same request. A client that was terminated before waits for the lock like any other:
a wait is cancelled by the first request only. `SendFails` is a call that finds the slab
empty, since other sessions use it too.

Left out: what messages hold and map, the event object's own references (an event
is signalled or dropped with the request), handle tables beyond "the handle is still
there", ports and the creation of sessions, light sessions, HLE contexts, and the
release of the session count at the very end of the parent.

## Runs

| Run | Shows | Bounds |
| --- | --- | --- |
| `light_lock` | exact waiter lists and counts, no lost wake-up, no forgotten suspension, nothing but `Resume` suspends a thread with kernel waiters, implements `AbstractLock`, every owner that is never under two suspensions at once hands over | 3 threads, 2 suspension types, 2 threads that may be terminated while they do not wait for the lock |
| `light_lock_terminate_owner` | finding 1: a terminated waiter comes out of `Lock` as if it owned the lock | 3 threads, one of them terminable in its wait |
| `condvar_terminate` | types and places of waiters, words, tree, timers, priority inheritance and the flag at `cv_key` through exit, termination, closed handles, finalization | 3 threads, 1 mutex, 1 guest priority and the terminating one, all kinds of timeout, signals of one and of all |
| `condvar_mutex` | priority inheritance along chains of owners; each guest mutex implements `AbstractLock` | 3 threads, 2 mutexes, 2 guest priorities, finite timeouts |
| `condvar_broadcast` | finding 4: a broadcast passes over a waiter | 4 threads, 2 mutexes |
| `arbiter` | no change of a futex word is slept through; word against waiters for the signal that counts them; the highest priority is woken first | 3 threads, 1 address, a futex or not, words of 2 bits, 2 priorities, counts 0 (all) and 1, two of the three waits, termination |
| `sync_object` | exact lists, live nodes, cancellation; implements `AbstractSynchronization`, the index of the signalled object included; a signal reaches everybody who waits when it is given | 2 threads, 2 objects, calls with up to 2 handles, repetitions included |
| `hardware_timer` | the earliest task is known and covered; every sleeper is woken | 3 threads, times 1 to 4, clock to 2 |
| `resource_limit` | the code's assertions, exact counts, every sleeper has something to wait for and no room beside it, every `Reserve` returns once no new calls are made | 3 threads, constant limit 1, amounts 1 and 2, largest s64 2, 1 terminable |
| `scheduler` | exact queues; no core idles beside a thread that waits; a yield is left out only when it is pointless | 2 cores, 3 threads that start, stop, yield and are preempted, one of them urgent and one, the same or another, bound to one core, 3 priorities, the two cores preempted at different ones |
| `scheduler_pins` | exact queues; a thread on one core at a time; no reschedule is lost; every choice gets to run or is changed | 2 cores, 2 threads, one pinned, unpinned, remasked and ended, pinned or not, the other reprioritised and waited for, preemption |
| `server_session` | exact references; waiting clients are in line; servers do not sleep beside work; answers end their own calls; calls end with the server | 2 clients, one also asynchronous, one terminable, 2 servers, 3 requests |

Three threads are the least that show an owner, a next owner and a waiter moved
from one to the other, and with two mutexes a chain of two owners; the broadcast of
finding 4 takes four. A second suspension type lets one be
lifted while the other lasts, which is finding 2; a third, and more keys, add no
behaviour. In `light_lock` no wait is cancelled (`Cancellable = {}`), because of finding
1: that registrations stay exact through cancelled waits is proved only
(`ExactRegistration`). The two runs of the condition variable divide the
work: with termination and closed handles two mutexes are too many states. The
termination priority is 0, above the guest's own.

In the arbiter, 2 bits hold a value below, equal to and above the compared one and
wrap on both sides; 3 threads leave up to 2 waiters for the counted signal: none, as
many as its count 1, and one more. `WaitIfLessThan` is left out of the run:
it is `DecrementAndWaitIfLessThan` without the store. In the synchronization objects,
the walk must survive that a woken thread takes two nodes out of the walked list, and
nodes out of another one, with a neighbour on either side: 2 threads with 2 handles
each give lists of 4 nodes. The timer's 3 tasks give an earliest one, one before it and one after it; time 4 is
never reached and time 3 beyond the clock's end, which are the overflowed and the
merely distant sleep. In the resource limit, of the amounts 1 and 2 the first fits
once and then waits, the second never fits the limit and overflows on top of the
first. Limits that change are in the module, in `LimitsHold` and in the theorems;
the run holds the limit constant because `NobodySleepsBesideRoom` is about constant
limits.

In the scheduler, an idle core beside a busy one with two threads is the least that
shows both kinds of migration: 2 cores and 3 threads. Priority 1 is above
`HighestCoreMigrationAllowedPriority` (2 in the code too); core 0 is preempted at
priority 2, core 1 at 3. `SpentYieldIsPointless` speaks of the equals a yield could give
way to on its own core; that a yield with migration could not have taken a suggested
thread meanwhile is not claimed. Pins and masks multiply the states, and show themselves on 2 threads, so
they have a run of their own, with the end of a thread: to the queues of the first
run it is what `StopThread` is; the pinned thread is the one that ends, since the end
of another is a special case of it. In the session, 2 servers are one that works and one
that sleeps, which the first must wake or leave asleep; 2 clients are one that is
answered while the other waits behind it, and 3 requests leave the slab one entry that
is free, so that entries are reused while a terminated client's request is still with
the server. The guests may make any number of calls in all of these runs.

Deadlock is checked in `resource_limit`, `scheduler` and `scheduler_pins`. It is not
where threads may all have exited or be terminated, where the guest may deadlock
itself with two mutexes, where the bounded clock ends, and where nobody need signal
or, with both handles closed, can call.

Fairness. In `KLightLock` a thread that is neither waiting nor suspended goes on:
the host thread of its core runs it; a holder of the scheduler lock is never
preempted for good. Nothing is assumed of the environment, and nobody has to call
`Lock`. In `KHardwareTimer` the host thread of `CoreTiming` runs, `DoTask` gets the
scheduler lock (WF), and time passes up to `MaxTime`. In `KSynchronizationObject`
only whoever is inside `NotifyAvailable` goes on (WF): it holds the scheduler lock.
In `KResourceLimit` a thread in the kernel goes on (WF), timeouts pass and the timer
notices (the claim of `hardware_timer`); nobody has to release anything. That `m_lock`
comes to every waiter is not assumed: it is handed over by priority, so that one waiter
may be passed over as long as others keep calling. `ReserveEnds` is therefore about
behaviours in which new calls cease some time; without that TLC finds the waiter that
is passed over for ever. In `KScheduler` each core's host thread goes on with
what the core does by itself (WF); no thread has to call the kernel, and no
interrupt comes that nobody sent. In `KServerSession` a thread inside a supervisor
call goes on (WF, which is enough: once the server end is gone only the thread that cleans
up wants `m_lock`, and its holder never waits for anything else); guests owe no call
and servers no reply. In `KResourceLimit` and `KServerSession` it is presumed that
nobody stays suspended for good inside a supervisor call.

Every property has a mutant: an operator defined before the one it replaces
(`NeverContinue` before `ContinueIfHasKernelWaiters`) is a plausible mistake in
that place, and PROJECT.json names the run that catches it.

## Findings

1. `KLightLock::LockSlowPath` returns true after any wait, also one cancelled by
   `RequestTerminate`. The terminated thread comes out of `Lock` without the lock;
   two threads are inside, and its `Unlock` stores over the owner's tag. Run:
   `light_lock_terminate_owner`.
2. `KThread::Resume` calls `UpdateState`, which does not look at kernel waiters as
   `TrySuspend` does. With two suspensions pending, lifting one makes the other
   effective on a thread others wait for. See below.
3. `KThread::Finalize` takes a waiter off its lock, then cancels its wait; the
   queue of `WaitForAddress` dereferences the lock owner without a test. A waiter
   that `RemoveWaiterByKey` moved to a new owner holds no reference on that owner.
   See below.
4. `KConditionVariable::Signal` walks the tree with an iterator, and `SignalImpl`
   may raise the priority of another waiter of the tree, which holds the mutex of
   the one just signalled. That waiter moves before the iterator, is passed over,
   and the flag at `cv_key` is cleared although it still waits. Run:
   `condvar_broadcast`.

### Known violations without a run

Findings 2 and 3 have no cfg of their own. TLC finds them on these instances:

- Finding 2: `MCKLightLock` with `SPECIFICATION Spec`, two threads, two elements in
  `SuspendTypes`, `Terminable = {}`, `Cancellable = {}`, and the invariant
  `KernelWaitersKeepRunning`.
- Finding 3: `MCKConditionVariable` with `SPECIFICATION Spec`, three threads, one
  mutex, `Priorities = {0, 1}`, `TerminatingPriority = 0`, `Timeouts = {}`,
  `Counts = {}`, two threads in both `Closable` and `Mortal`, and the invariant
  `LockOwnerNotNull`.

## Proofs

`KLightLockProofs` proves for any set of threads and of suspension types:

- `ExactRegistration`: for all behaviours, with terminations in and out of a wait. It
  follows from the invariant `ThreadInv`: a thread is registered
  on an owner exactly while it waits and is then at label `wait`; counts are the
  cardinalities of the waiter sets; the scheduler lock is held exactly by the
  thread at label `store`. The counts need `FiniteSetTheorems` for the bulk move
  of a hand-over.
- `MutualExclusion`, `NoLostWaiter`, `Refinement`: under `Cancellable = {}`, that is
  for threads that are not terminated while they wait for the lock,
  because of finding 1. The tag alone is no invariant inside the window of
  `UnlockSlowPath`. The proof uses the tag *to be*: the value the pending store
  will write if there is one, and the tag otherwise. `LockInv` says that whoever
  is inside is named by the tag to be, that whoever waits does so on the thread it
  names with the bit set, and that until the store the tag still names the
  unlocking thread with the bit set, so that no compare-and-swap in the window can
  take or free the lock.

`KSchedulerProofs` proves for any threads, any number of cores, any priorities and
masks `ThreadsOnOneCore`, `ReschedulesNotLost`, `QueuesStayExact`, `CoresDoNotIdle` and
`SkippedYieldsArePointless`. The first two do not depend on which threads are chosen,
and the proofs say so: the first lemmas reduce every critical section to `Section`,
which says of it only that a core whose choice changed has its flag set and is
interrupted or about to be. `SchedulerInv` adds two
parts to `RescheduleNotLost`: a core holds the guard of the thread it executes or is
about to (`ContextHeld`, which makes execution on two cores a contradiction), and
nobody but a core that leaves a critical section has interrupts still to send
(`SendersUnlock`, without which an interrupt could be sent and forgotten).

`QueuesStayExact` is `WellFormed`, and is about the choice itself. `Ordered` says of a
list that it holds given threads, once and by priority, and lemmas on `Inserted` and
`Without` say what each mutator of the queue makes of one list; `Moved` puts the lists
of all cores together when one thread changes its core, mask, priority or state. Each
mutator asks something of the thread it moves: `ChangeCore` onto a core that is not in
the thread's mask would leave it in no suggested queue of the core it came from, and a
yield or a migration of a thread without a core would look at the queue of core -1.
`ChoiceInv` therefore adds to the exact queue that a thread's core, if it has one, is
in its mask, that a pinned thread's mask is its core alone and its own mask is kept for
later (`PinInv`), and that a core's choice, and whoever calls the kernel, has a core
(`HomeInv`): only a thread itself gives up its core, in `YieldToAnyThread`, and is then
nobody's choice until a core takes it. That takes the choice made by `Selection`, by
induction on the cores it fills: each step leaves an exact queue in which every
core's top thread has a core (`Chosen`). `PreemptThreads` rotates core after core by
the same induction. That a caller has a core uses `ReschedulesNotLost`'s invariant: a
core that comes back to its thread with the flag clear has been told of every change,
so its thread is its choice, and has a core.

`CoresDoNotIdle` is `NoCoreIdlesBesideWaiters`: the choice not only keeps the queue, it
is good. The induction on the cores now carries `Filled`. A top thread runs on its
core and is the pin or the front there (`Tops`), so that the one an idle core takes
leaves another at the front, and no core loses its last thread unless it has a pin;
and every core filled so far is `Served`: whoever could still come to it is held
back by a core at work for an urgent thread. That a later migration does not undo this
is `TakesServed`: who waits behind the new top thread waited, with it, behind the old
one. A core is left as it is when only top threads are suggested to it, none with
another behind it, or when the first other one is behind an urgent thread. Sections
that do not choose must leave every runnable thread's core, priority, mask and pin as
they are (`Rests`).

`SkippedYieldsArePointless` is `SpentYieldIsPointless`. The count must move whenever a
thread may come to share a core and priority with another: `Ends` says of every
section that it is counted, or leaves each runnable thread's core and priority, with a
choice or without. An uncounted choice still migrates, but only to cores that nobody
has, so that threads that share a core afterwards did before (`Apart`). Whoever yields
in vain was the front of its priority after it went behind its equals, and so has none
(`BackRests`).

`KHardwareTimerProofs` proves for any threads and times `TypeCorrect`,
`NextTaskCorrect` and `EarliestIsCovered`. The cover of the earliest task is not
inductive: with an empty tree it says nothing, and the next task may find the
interrupt left over from a cancelled one and rely on it, since `EnableInterrupt` is
called only for times before the armed one. `ArmedInterruptComes` adds that an armed
interrupt, whoever it was armed for, is still to come.

`KResourceLimitProofs` proves for any threads, resources, limits and amounts
`AssertionsHold`, `WaitersCounted` and `SleepersHaveHope`, and, if the
limits do not change, `NoLostRelease`. The invariant `LimitInv` adds that labels with
`m_lock` held are the owner's alone, and that what a thread saw before it chose to
wait still holds when it enters the list. A release that finds `m_waiter_count` 0
wakes nobody; that nobody is then asleep takes the exact count, and
`FiniteSetTheorems`. `NoLostRelease` needs its hypothesis: `SetLimitValue` wakes
nobody, and after a raised limit a thread may sleep beside room until the next
release or its timeout.

`KLightLockProofs` also proves `WaitersKeepRunning`, for any suspension types, and
`SuspensionsCaughtUp`, if no wait is cancelled. The first says that `Resume` is the only
step that suspends a thread with kernel waiters (`OnlyResumeSuspends`); that such a
thread is never suspended (`KernelWaitersKeepRunning`) is false, by finding 2. It needs
the count of `ThreadInv`: a hand-over leaves its owner without waiters. The second adds to `LockInv` that
whoever owes a suspension is the owner in the tag to be, with the bit set.

`KConditionVariableProofs` proves, for any threads, mutexes and priorities and with
everything the module has (timeouts of all kinds, terminations, closed handles, owners
that are finalized), `WaitersInOnePlace` and `WordsTellHolders`, and, if there is one
mutex, `WordsExactWithOneMutex`; and that each guest mutex is a lock
(`MutexesAreLocks`). The argument is that of the light lock, for many
locks at once and a guest that stores to the words all the time. The word *to be*
(`WordToBe`) is the one the pending second half of a call will write, or else the word
itself. `CondInv` says of it that it names whoever was woken with the mutex (`Handed`)
and that it shows, with the mask, the owner of every waiter (`Told`); of the word
itself it says that it names whoever holds the mutex (`HolderInWord`) and whoever is
giving it up until the kernel has written it (`Owned`), which is why no exclusive
store of the guest can fall on a word the kernel is about to write other than to set
the mask. `PlaceInv` is the other half: a tree without duplicates, everybody in one
place, waiting for the mutex its call is about, and Signal's iterator in the tree. What
the lists of `KThread` do to the table is proved once, about the operators: each
keeps the table's type and changes only the waits it says it does, whichever
priorities `RestorePriority` moves (`RestoreKeeps`, by induction on its turns). The
lemmas on the tree (`InsertedTree`, `WithoutTree`, `ResortedTree`, `Iterator`) say
who is in it afterwards; its order by priority plays no part in these theorems.

`WordsExactWithOneMutex` says that with one mutex the flag at `cv_key` is never clear
beside a waiter. `FlagInv` says why: nobody in the tree is to be named by a word, so
that none inherits from a thread that is signalled, the tree is not sorted again
under `Signal`, and its iterator stays at the front. With two mutexes a waiter in the
tree may own the other one: that is finding 4, and the proof fails at the first half of
`Wait`, where the hypothesis is used.

`MutexesAreLocks` is the refinement of `AbstractLock`, step by step over `CondInv`. An
exclusive store of the guest to a free word (`GuestTry`) and `SignalImpl` acquire; the
store at the end of `SignalToAddress` or `Wait` hands over or releases;
`GuestRecheck` and the return from a wait enter; the guest's unlock and its call to
wait leave, and an unlock that needs no call releases as well; the rest are stutters or
give up. One thing `CondInv` does not say is needed: the store comes in a
later step than the choice of the next owner, and `NextWaits` says that this thread
still waits for that mutex by then, because all that could end its wait in between
needs the scheduler lock, which the call holds.

`PrioritiesInherited` is `Inheritance` for any threads, mutexes and priorities. Two
questions are in it. One is about the loop of `RestorePriority` (`RestoreRuns`): if
everybody but the thread it starts from has the right priority, then everybody has it
at the end. Either that thread is not urgent enough, and every turn raises one more
thread of the chain to the same priority (`Raises`), or it has lost the waiter it had its
priority from, and every turn lowers a thread that had just this priority (`Lowers`);
so no thread is changed twice, a chain that closes to a cycle included, and as many turns
as there are threads suffice (`Counted`). The other is where the code leaves the loop
out: `AddWaiterExact`, `RemoveWaiterExact`, `RemoveWaiterByKeyExact`,
`SetBasePriorityExact` and `ReleaseWaitersExact` show for each change of the lists that
the skip is right. `InheritInv` puts them together; it takes in that only threads that
are not finalized are waited on or have handles, for the others' priorities are not kept.

`KAddressArbiterProofs` proves for any threads, addresses, priorities and word size
`TypesKept`, `NoChangeSleptThrough`, `MostUrgentFirst` and `CountsTellWaiters`.
`ChangeIsSignalled` speaks of sleepers; `Noticed` says the same of a wait from the
moment it has read the word, so that a store between the read and the place in the tree
is already covered. The two properties of wake-ups need the tree's order
(`Ordered`: by priority at each address), that an insertion and a new priority keep
it, and that the threads of one address, of which a signal takes the first so many,
come in the tree's order (`Among`: there are increasing places of the tree that it
takes, by induction on the tree's length as a least counterexample).

`KSynchronizationObjectProofs` proves for any finite set of threads, any events and any
number of objects per call `CancelsDelivered`, `ListsStayExact` and `SignalsAreAtomic`.
For the first, with the places of threads (`Places`) every end of a wait either takes
the sleeper out of `Sleepers` or leaves no cancellation kept.

The second is about pointers. `ListOf` ties an object's head, tail and nexts to a
sequence of nodes without repetitions, and `Good` says that every object has such a
sequence and of which nodes. `LinkNodeGood` and `UnlinkNodeGood` show that one more and
one less keep it so, the search of `UnlinkNode` included; `LinkNodesGood` and
`UnlinkNodesGood` extend this to the loops of `Wait` and of the end of a wait, by
induction on their turns. The lists alone do not say that a walk from an unlinked node
gets anywhere: its next was right when the node was unlinked, and may lead to nodes
unlinked since. So `ListInv` adds `WalkGoesOn`: from where `NotifyAvailable` stands the
next pointers lead through nodes of calls that are over but have not returned (`Trail`),
and out of them only to the head of what is left of the list. A thread that is woken
stands at that head, whichever of its nodes come behind it (`UnlinkNodeTrail`), and a
walk that ends has left nobody (`NobodyToBeWoken`). `FreshNodes` says that the nodes of
a new call lead nowhere.

`SignalsAreAtomic` is the refinement of `AbstractSynchronization`, step by step over
`ListInv`: `Wait` blocks, `Signal` wakes at once all whom the walk will reach, each end
of a wait by other means gives up, a return looks, and the walk itself is a stutter,
since `SyncIndex` finds the object of the signal.

`KServerSessionProofs` proves for any clients, servers and requests, all finite,
`ReferencesCounted`, `CallsNotLost`, `NoServerOversleeps` and `AnswersAreOwn`.
`SessionInv` has five parts. `QueueInv`: a request is in one place, the list, current
or in somebody's hands, and its references are those places plus the call that made
it. `EndsInv`: each end's references are its handle and the calls inside it, the
parent's are its open ends and the calls, and one thread at most destroys an end.
`ThreadsInv`: a client thread is open once for each of its requests, for who receives
one and for who took it out. `WaitInv`: who waits has its request in line and an end
that still has to answer, and the client end that closed has yet to wake the
servers. All counts are of sets that grow or shrink by one, by `FiniteSetTheorems`.
`ReferencesExact` of the module follows from these, not the other way round: the
assertion at one `Close` rests on who else may hold the object at that moment.

The assumptions are those of the modules' constants, and nothing else, but for the
hypotheses named above: no cancelled waits of the light lock (finding 1), one mutex
(finding 4), and constant limits. Each holds in
the configuration of the run that checks the same property.

Every safety property, action property and refinement of a passing run is stated by a
theorem. Only model-checked is liveness (`WaitersAreHandedOver`, `TimersFire`,
`SignalReachesSleepers`, `ReserveEnds`, `ChoiceGetsToRun`, `CallsEndWithServer`), which
is out of the prover's reach.

## Not modelled

Of the parts in the inventory:

- Within modelled components: what each section under "Modules" names as left out.
- Thread creation, the waits for the end of a thread, process termination and its
  worker tasks, handle tables, page heap and memory blocks, core timing, buffer queues,
  GPU fences, the queues of `src/common`, the audio mailboxes, the network room, the
  service server: each could be modelled, and none is yet.
- Page tables: their states are memory layouts of a size out of a model checker's
  reach; the lock around them is the light lock.
- File formats, services, the shader recompiler, the renderers, dynarmic and the
  frontends: their states are files, programs and device objects.

## Plan

1. Done: light lock with proofs; thread waiters, guest mutexes and condition
   variables; hardware timer with proofs; address arbiter; synchronization objects;
   resource limits with proofs; scheduler with proofs; sessions.
2. Proofs, done: sessions, the arbiter, guest mutexes and condition variables, the
   light lock's suspensions, the inheritance of priorities, the lists and the signals of
   synchronization objects, the scheduler's queues, its migrations and its skipped
   yields.
3. Handle table with reference counts (a stale handle finds nothing, an object is
   destroyed once); ports and the creation of sessions in front of `KServerSession`;
   the service server behind it.
4. Thread life cycle: run, exit, terminate, suspend, pin, with the worker tasks; the
   waits of `SetCoreMask` and `FinishTermination` composed with `KScheduler`.
5. Core timing (an unscheduled event stays quiet, every event fires, a reset ends);
   queues of `src/common`; buffer queues; GPU fences; memory blocks and page heap as
   algorithms against a reference definition.
