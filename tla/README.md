# EdgeX kernel: TLA+ models, TLC runs and TLAPS proofs

Models of the task scheduler, the IPC objects, the page directories and the
interrupt handling of the EdgeX kernel, written from the C code under `src/kernel/`. `PROJECT.json` maps each definition to the
lines it models and lists components, runs, mutants, hazards, findings and
theorems.

## 1. The system

EdgeX runs on one processor. `boot.S` and `main.c` set up the machine;
`init_scheduler` creates the idle task, starts the timer and does not return. The
Makefile builds `kernel/*.c` only: `kernel/ipc/**` and `kernel/memory/**`, which hold
second versions of some parts, the queue registry and the page directories, are not
in the build.

| Part | Source | Modules | State |
|---|---|---|---|
| Scheduler | `scheduler.c` | `TaskQueues`, `Scheduler` | modelled, proved |
| Mutexes | `ipc.c` | `WaitQueue`, `Mutex` | modelled, proved |
| Semaphores | `ipc.c` | `WaitQueue`, `Semaphore` | modelled, proved |
| Message queues | `message.c` | `MessageQueue`, `PriorityChannel` | modelled, proved |
| Events and event sets | `event.c` | `WaitQueue`, `Event` | modelled, proved |
| Shared memory | `shared_memory.c` | `SharedMemory` | modelled, proved |
| Timeouts of `ipc.c` waits | `ipc.c` | | every wait has timeout 0; `check_all_timeouts` has no caller |
| Registry of message queues | `ipc/message/queue_registry.c` | `QueueRegistry`, `MessageService` | modelled, proved; not built |
| Ring-buffer message queues | `ipc/message/message.c` | `MessageRing`, `MessageList`, `MessageService` | but for `check_message_timeouts`; proved; not built |
| Page directories | `memory/page_directory.c` | `PageTables`, `PageDirectory` | but for statistics and dumps; not built |
| Interrupts and exceptions | `interrupt.c` | `Interrupts` | but for `register_isr_handler`; proved |
| Physical memory | `memory.c` | | hands out nothing as built, see section 6 |
| IPC initialisation | `ipc_init.c` | | a straight line of calls |
| Shared memory (second version) | `memory/shared_memory.c` | | not built |
| Events (second version) | `ipc/event/event.c` | | fragments out of order, nothing to translate |
| Boot, console | `init.c`, `main.c`, `boot.S` | | straight-line start-up |
| Crypto, sync engine, libc | | | the files are empty |

How the parts meet: every IPC object blocks its callers with `block_task` and wakes
them with `unblock_task`. Message queues stand on a mutex and two semaphores, events
and shared memory on a mutex. `ipc_init.c` registers `cleanup_task_ipc` (for
terminated tasks) and `check_ipc_timeouts` (periodic); the two functions it
registers them with are not in the tree, and `init_ipc_subsystems` itself has no
caller. `check_event_timeouts` is `static` in `event.c` and `extern` in
`ipc_init.c`. The models take the intent of `ipc_init.c`: timeouts and cleanup of
events and of shared memory happen. Of its other cleanups only
`cleanup_task_messages` has a definition, in `kernel/ipc/message/message.c`.
Replies to messages go to the queue that the registry names for the sender of the
original. The timer interrupt of `interrupt.c` drives the scheduler.
`event.c`, `message.c` and `shared_memory.c` each define a static and a public
destroy function of the same name; a call passing through a `destroy_fn` or from
the file's own clean-up code is read as a call of the static one.

## 2. The modules

**TaskQueues, Scheduler.** Tasks are pids. The intrusive lists are modelled as they
lie in memory (`links`: the heads, and one `next` and `prev` per task, which the
list of all tasks shares with the queues), because the interesting behaviour comes
from that sharing. Every call of `scheduler.c` is an action, atomic as in the code
(interrupts off). The timer handler is split where it is not atomic:
`timer_tick_handler` starts it, `check_sleeping_tasks` is one round of its loop,
`AccountTick` ends it. A walk along a cyclic list sets `links.hung`, after which
nothing runs. The counters wrap at `CountMod`, which stands for 2^32.

**WaitQueue.** What blocking does to a task. `enq` is the moment between queueing and
`block_task`: an `unblock_task` in it is lost. `MayRun` says that no other *task*
runs in it, which is the theorem `SchedulerNeverPreempts`: true of the code, and not of
the preemption that its comments mean (section 4).

**Mutex, Semaphore.** The pools with creation, destruction and reuse of slots.
History variables: `held` (locks granted and not undone), `initial`, `posts`,
`taken`, `permit` (what a semaphore's users are owed), `unlisted` (tasks that block
although no waiter could be allocated for them). `Semaphore` also has
`terminate_task`: nothing takes the waiter of a terminated task out of its queue.

**MessageQueue, PriorityChannel.** A call is one action, or two when it waits.
`message.h:94` defines `MESSAGE_FLAG_BLOCKING` as 0, so as built no call waits. The
flag is a constant: run `message` uses 1, for which the waiting branches of
`message.c` are written. `PriorityChannel` is the abstract
specification, a bounded channel that delivers by priority and first in first out
within one; `IsPriorityChannel` is the refinement.

**Event.** Manual and automatic events, sets, last-in-first-out waiter lists, timed
waits, terminated waiters (`dead`) and their cleanup (`gone`). `check_event_timeouts`
may expire any set of timed waiters, at any time a task is between calls or in `enq`.

**SharedMemory.** Regions, mappings and frames. The frame allocator and the address
spaces are external. `vm_unmap_pages` may fail for the tasks in `Sticky`; the code goes
on all the same, and `stale` holds the frames that such a task still sees. `torn` marks
a resize that failed half way; what an allocator does with a frame freed twice is
unknown, so the model ends there.

**PageTables, PageDirectory.** `PageTables` holds the four levels of tables as
functions and the loops over them as folds over a loop state; `PageDirectory` has one
action per call, since a call runs under the directory's lock on the one processor.
2MB and 1GB pages are entries of the upper levels. The allocator is external: it may
run out at any allocation, and `lost` counts the tables nothing leads to any more.
`wild` ends a behaviour once a call reads the data of a large page as a table, or a
frame is free and still mapped. `sized` and `plain` record that a directory has been
given large pages, and that a copy was made without copy-on-write.

**MessageRing, QueueRegistry, MessageList, MessageService.** The ring with its head,
tail and the shifting of messages, and the registry with its entries, are pure
operators; `MessageService` composes them and has the actions. The semaphores take a
time limit that the ones of `ipc.c` do not, so they are external. A call that waits is
three actions (it starts to wait, is granted a place, runs on) and may time out in the
first; the end of a task (`cleanup_task_messages`) may come at any point. As in
`MessageQueue` the blocking flag, 0 in the header, is a constant. `MessageList` is the
abstract specification, a list into which a message is inserted by priority, where code
and header agree on the place, and at either place where they do not;
`BehavesAsLists` is the refinement. History: `claims` (registrations that found room
and were not undone) and `allowed` (those that some call explains), `raced` (a cleanup set up semaphores again under a
granted call), `lost` (a task ended with a place it had been granted).

**Interrupts.** The two controllers, the interrupt flag and the stack of handlers that
have been entered. The controllers are external, modelled from how `reprogram_pic`
sets them up: fixed priorities, and a signal that ends the service of the highest
one. A handler may set the interrupt flag before its line's end is signalled, as
`timer_tick_handler` does through `schedule`, so handlers nest. `enable_irq` and
`disable_irq` are split between the read and the write of the mask register; `overtaken`
holds the lines that a handler masked in between. `WalkNeverEnds` is a queue of the
scheduler that has become a ring: the walk along it goes on for ever, in a handler or in
a critical section. Spurious interrupts (7 and 15) of the controllers are not modelled.

The `MC` modules instantiate the modules for TLC. The tasks of `Mutex`, `Semaphore`,
`MessageQueue` and `Event`, the frames of `SharedMemory` and its tasks other than the
kernel's, and the handles of page directories are symmetric: no operator orders them.
`interrupts`, the one run with a liveness property, uses no symmetry.

Several modules have history variables that record a step the code should not take, and
state their invariants up to it: `leaked` (a slot lost to a failed send), `unlisted`
(a task that blocks where nobody finds it), `torn`, `stale`, `overtaken`, `raced`, `lost`
and `sized`. Such an invariant shows that nothing *else* breaks what it says. It does not
show that the recorded step cannot happen; it can, and section 4 or the note of the
hazard says how.

## 3. The runs

| Run | Instance | Shows |
|---|---|---|
| `scheduler` | the idle task and 2 others, a valid and an invalid priority, 1 tick | `RunningIsCurrent`, `BlockedCountCovers`, `LosesProcessorOnlyWhenDue` |
| `scheduler_hang` | the idle task and 3 others | violated: `NeverHangs` |
| `mutex` | 4 tasks, 2 slots, nesting 2 | `CountMatchesOwner`, `NoStrandedWaiter`, `WokenInTurn` |
| `mutex_exclusion` | 2 tasks, 1 mutex | violated: `MutualExclusion` |
| `semaphore` | 3 tasks, 2 slots, maximum 2 | `WaitersMeanNoPermit`, `PermitsConserved`, `BlockedIsQueued` |
| `message` | 3 tasks, 2 queues, capacities 1 and 2 | `SlotsAccounted`, `NotBothStuck`, `IsPriorityChannel` |
| `event` | 3 tasks, 2 events, 1 set of size 1 | `AutoResetOnce`, `ListsMatchWaits`, `SignalsAreNotLost` |
| `event_signal` | 2 tasks | violated: `SignalEndsWait` |
| `shared_memory` | 3 tasks, 2 regions, 3 frames, unmappings of one task may fail | `FramesAccounted`, `ViewsAgree`, `NothingLeftUnshared` |
| `page_directory` | 2 directories, 8 pages, 4 frames, 8 table pages | `WritableIsPrivate`, `NoDanglingMapping`, `ValidationPasses`, `TablesAccountedFor`, `MappedStaysPut` |
| `message_service` | 5 workloads over 4 queues of capacities 1, 1, 2, 3 | `RingIsWhole`, `PlacesAccountedFor`, `RegistryMatchesCalls`, `RepliesAreNotRedirected`, `BehavesAsLists` |
| `interrupts` | lines 0, 1, 2 and 9, 3 nested handlers | `EachSignalEndsItsOwn`, `MasksMatchCalls`, `TimerIsTaken` |

Each passing run also checks the type invariant. Each property of a passing run has a
mutant of the code that breaks it.

**Bounds.** Three tasks are a signaller (or owner) and two competing waiters, the
least with which a wake-up can go to the wrong one; in `mutex` there are four, so that
three can queue and a wake-up out of turn shows. Two slots let one be destroyed and reused while a task
still refers to it. Pids start at 2, which is the idle task. With `MaxPid` = 4 there are
two tasks besides it, which can share a queue; the three of `MaxPid` = 5 are what it
takes to tie a list into a ring and walk along it.
The clock of the scheduler stops at `MaxTick` = 1, enough for a task with the one
sleep time 1 to fall asleep and be woken; the ticks themselves keep coming. The
message run covers sizes 0 and 1001 (refused) and priorities 0 and 9 (9 is out of
range and becomes normal); one queue of two is destroyed, and the properties are
about the other, because a task that waited on a destroyed queue carries on with the
slot. `MaxId`, `MaxPosts` and `MaxNesting` bound what would count for ever. Event
signals are unbounded. In `event`, `message` and
`semaphore` allocations may fail; in `mutex` they may not, since a task without a
waiter is simply never woken (hazard at `ipc.c:338`) and nothing could be said of its
lock call. The two boot regions have one page each instead of
four and two.

A page table has 2 entries and the PML4 one, so a 2MB page covers 2 pages and a 1GB
page 4: every level can be partly full, and both large sizes occur. 8 table pages are
what one full directory takes, or two sparse ones, so that copies both succeed and run
out. The page counters wrap at 4, so that an underflow is reached; the calls map at
most three single pages in a directory, which a counter can hold. The workloads of
`message_service` separate what does not interact: one task that fills and drains a
ring of three places, in which an insertion in the middle shifts across the end of the
array, with messages of all four priorities; the same with messages to two tasks, so that
a cleanup removes some from the middle; two tasks on a ring of two places; replies to a task that
registers two queues; and three tasks in a registry with room for two. Line 9 of `interrupts` is the
slave's; three nested frames are what lines 9, 1 and 0 can reach by priority.

**Deadlock** is checked in `message_service`, where the time limits always let a call
go on. Elsewhere the tasks may all end up waiting or terminated, the scheduler may
hang, the kernel may panic or a behaviour end (`torn`, `wild`), and the system then
really stops.

**Fairness.** Only `Interrupts!FairSpec` states any. It assumes that the processor goes
on with the handler it is in, and with a critical section (weak: the flag is clear, so
nothing else can run), unless a walk never ends, and that the processor takes a timer
interrupt that is offered again and again while the flag is set (strong: it is the line
of the highest priority, and is taken at the first instruction at which it may be). That
a task ever runs again, or leaves a mutex, is assumed nowhere: the scheduler does not
guarantee it (section 4), and nothing is claimed about a blocked call's return beyond the
order in which waiters are woken.

## 4. Where code and documents disagree

With a run (`findings` quotes the lines):

- Tasks share one pair of links between two lists; two tasks of one priority suffice
  to tie a list into a cycle, and the next walk along it never ends.
- A woken waiter takes a mutex that a third task may have locked in the meantime.
- `event_signal` resets an automatic event before the task it woke has looked at it,
  and the wait returns -1. A test asserts the opposite.

Without a run, met while modelling:

- `schedule()` returns on the flag that its own `enter_critical` has set
  (`scheduler.c:529`), so neither `yield` nor an expired slice ever switches, and the
  idle task, which by its comment (`scheduler.c:731`) runs when nothing else does,
  keeps the processor. The comments mean otherwise: `:40` "Is preemptive multitasking
  enabled?", `:541` "voluntarily give up CPU time", `:723` "If time slice expired,
  schedule next task". `LosesProcessorOnlyWhenDue` is what both have in common, and TLC
  finds that it also holds without the early return; `SwitchOnlyWhenGivenUp` is what the
  code does beyond that.
- A receive in blocking mode returns -1 at once from an empty queue: `message.h:94`
  defines the flag as 0, while `message.h:350` and `test_ipc.c:931` rely on it.
- Creating or moving tasks drops others from the list of all tasks
  (`scheduler.c:23`); `terminate_task` of a blocked task leaves `blocked_count` as it
  was (`scheduler.c:35`), which is why only `>=` is an invariant.
- A wait on a mutex or semaphore that is destroyed returns 0 (`mutex.h:75`,
  `semaphore.h:73`); locking twice works though `mutex.h:13` rules it out.
- A send that takes a slot and cannot allocate its node loses the slot
  (`message.c:221`); `leaked` counts them.
- `event_signal` wakes all waiters of a manual event, and an automatic event for which a
  task waited does not stay signaled; `event.h:137` says that one task is woken and the
  event "remains in the signaled state". `SignalsAreNotLost` holds either way.
- No signal wakes a task that waits on a set (`wake_event_set_waiters` is not called).
- `event_timedwait` takes timeout 0 as for ever; `event.h:105` says immediate.
- `destroy_shared_memory` destroys at once; `shared_memory.h:113` says when all tasks
  have unmapped. An unmapping that fails is ignored (`shared_memory.c:174`, `:252`,
  `:380`, `:553`), and `unmap_shared_memory` removes the mapping before it reports the
  failure (`:286`), so the task goes on seeing pages that may since have been freed
  (`stale`). A region whose creator ended while others had it mapped can never be
  destroyed.
- `PAGE_FLAG_FREE` is 0, so tests of it in `memory.c` never succeed.

In `kernel/ipc/message/`:

- The branches of `send_message` and `receive_message` marked "Shouldn't happen"
  (`message.c:280`, `:349`) are reached after `cleanup_task_messages` has set up the
  semaphores again under a call that was granted a place. A task that ends with a
  granted place takes it along.
- A message overtakes only when its priority is high or urgent, so normal does not
  overtake low, and the urgent flag puts a message first whatever its priority.
  `message.h:35`, `:41` and `:71` promise strict order by priority, and
  `test_message.c:326` expects normal before low. `MessageList` allows both orders there.
- Creating a queue does not register it (`message.h:233` says it does) and destroying it
  does not unregister it (`message.h:276`). `RegistryMatchesCalls` and
  `RepliesAreNotRedirected` hold of the code and are not in conflict with the header.
- A full registry is not reported, and a reply to a task without a queue goes to the
  first queue of anybody.

In `memory/page_directory.c`:

- Large pages are not counted when mapped and are subtracted when unmapped (`:612`);
  `total_user_pages` is never decremented, because the entry is cleared before its
  flag is tested.
- Unmapping part of a large page that does not hold its first page does not unmap it,
  though the comment at `:595` says so, and reads its data as a table.
- The old frame of a resolved copy-on-write fault is never released; destroying a
  directory, a copy that fails and a large page over a table lose tables.
- `mark_pages_cow` marks every page, not only "writable pages" (`:894`), so a read-only
  page becomes writable after a copy and a write fault.

In `interrupt.c`:

- `enable_irq` is to make sure that the cascade line is enabled as well (`:462`), but
  tests `irq >= 8` after subtracting 8, so a line of the slave stays silent until line
  2 is enabled by a call of its own. `MasksMatchCalls` lets line 2 be unmasked without
  one, as the comment has it.
- A handler's `disable_irq` between the read and the write of a task's call is undone.
- Software interrupts go to `handle_exception`, which panics for them; `handle_isr` has
  no caller.

## 5. The proofs

Each theorem holds for every value of the constants that satisfies the named
assumptions; TLC evaluates the assumptions in the runs of the same part.

### Scheduler

`SchedulerProofs`, for every number of pids, every set of
priorities and sleep times, every time slice and clock bound, and any counter range
above the number of pids:

- `SchedulerTypes`: `Spec => []TypeOK`;
- `SchedulerInvariant`: `Spec => []RunningIsCurrent`;
- `SchedulerCountsBlocked`: `Spec => []BlockedCountCovers`;
- `SchedulerNeverPreempts`: `Spec => SwitchOnlyWhenGivenUp`, a fact about the code;
- `SchedulerPreemptsOnlyWhenDue`: `Spec => LosesProcessorOnlyWhenDue`, which follows from
  it.

The inductive invariant `IInv` is the conjunction of the three invariants; TLC checks
each of them in run `scheduler`. `BlockedCountCovers` rests on two facts about finite
sets: one call adds at most one blocked task (and always 1 to the counter), and
`unblock_task` takes 1 off only for a task that is blocked. It also rests on a bound:
`block_task` of the model stops when the counter is at `CountMod - 1`. The code has no
such test. Because `terminate_task` leaves the counter as it is and a blocked task may
be blocked again, the counter can run ahead of the tasks, and after 2^32 such calls it
would wrap; the theorem is about executions shorter than that. The argument assumes
nothing about the shape of the lists, which can be cyclic or lose tasks: the lemmas
`AddType` and `RemoveType` only say that the queue operations keep the links typed.
There is one lemma per action (`TimerSteps` takes the timer, `yield` and a hang
together), each giving `IInv'` and `GivenUp` (the step gave the processor
away properly or not at all); steps that switch go through `AfterSwitch`, the others
through `NoSwitch`. The assumptions are `PidAssumption` and `SchedulerAssumption`.

### Semaphores

`SemaphoreProofs`, for any finite set of tasks, any pool, initial values, `INT32_MAX`
and number of posts, with or without failing allocations:

- `SemaphoreTypes`: `Spec => []TypeOK`;
- `SemaphoreInvariant`: `Spec => []PermitsConserved`;
- `SemaphoreWaitsForPermits`: `Spec => []WaitersMeanNoPermit`;
- `SemaphoreFindsBlocked`: `Spec => []BlockedIsQueued`.

`PermitsConserved` is not inductive: a post hands its permit to the first waiter, and
the sum only comes out if that task was owed nothing before and is counted for this
semaphore. `IInv` therefore adds that a queued task waits for this semaphore or has
ended there, and holds no permit (`QueuedWaits`), that no task is queued twice
(`QueuedOnce`), that a permit handed over belongs to a task that is woken or has ended
(`PermitPending`), and that a task about to block is queued already
(`WaitingIsQueued`). `MayRun` is what makes the last two inductive: no wake-up
falls between the queueing and `block_task`. Assumptions: `SemaphoreAssumption`.

### Mutexes

`MutexProofs`, for any tasks, pool and depth of nesting:

- `MutexTypes`: `Spec => []TypeOK`;
- `MutexCounts`: `Spec => []CountMatchesOwner`;
- `MutexStrandsNobody`: `Spec => []NoStrandedWaiter`, if allocations do not fail. With a
  failing `kmalloc` in `add_waiter` a task blocks without a waiter and nobody finds it,
  which is also why run `mutex` sets `MallocMayFail` to `FALSE`;
- `MutexWakesInTurn`: `Spec => WokenInTurn`.

The inductive invariant adds the same facts about the queues. The proof modules of the
objects with wait queues each begin with the lemmas on `WaitQueue` that they need: what
adding, waking and taking the first waiter do to a queue, and that the search for a free
slot finds one (the naturals are well founded). Assumptions: `MutexAssumption`. Mutual exclusion is
not a theorem; run `mutex_exclusion` refutes it.

### Interrupts

`InterruptsProofs`, for any lines of the two controllers, any behaviour of the handlers
and any depth of nesting:

- `InterruptsTypes`: `Spec => []TypeOK`;
- `InterruptsInvariant`: `Spec => []EachSignalEndsItsOwn`;
- `InterruptsMasksMatch`: `Spec => []MasksMatchCalls`.

A signal ends whatever the controller serves at the highest priority, so
`EachSignalEndsItsOwn` needs the order of the whole stack of handlers: of two that have
not signalled the master yet, the newer one has the higher priority (`Nested`).
`MasksMatchCalls` needs `WriteIsCurrent`: the value a call has read and changed is still
right for every line when it is written, but for those that a handler masked in between.
Assumptions: `InterruptAssumption`.

### Message queues

`MessageQueueProofs`, for any finite set of tasks, any slots, sizes, priorities and
number of messages, for calls that wait and for the flag as built, with or without
failing allocations:

- `MessageQueueTypes`: `Spec => []TypeOK`;
- `MessageQueueAccounts`: `Spec => []SlotsAccounted`;
- `MessageQueueNotBothStuck`: `Spec => []NotBothStuck`;
- `MessageQueueIsPriorityChannel`: `Spec => IsPriorityChannel`, the refinement: `Init`
  maps to `Channel!Init`, and each step to a send, a receive, a creation, a destruction
  or a stutter of `PriorityChannel` (`StepIsChannelStep`).

The last three are about the queues `Sound`: all of them as built, and with waiting calls
those that are never destroyed (a destruction under waiting calls leaves tasks that go on
with a slot that is gone). Slots lost to failed sends are counted in `leaked`, and
`NotBothStuck` is about queues that have not lost all of theirs.

`SlotsAccounted` adds up two semaphores, the lists and the tasks that have been woken but
have not run. To be inductive it needs to know who those tasks are. `IInv` adds that
whoever is in a wait queue is blocked in a call of that kind on that queue, once
(`Queued`), that nobody waits on a semaphore that is not zero (`WaitersMeanNoSlot`), that
a waiting or woken task is in a call on a slot, whose queue is live if it is in `Sound`
(`InCall`), that as built nobody waits at all (`NobodyWaitsAsBuilt`),
that the count is the length of the lists (`CountsMessages`) and that a dead slot has no
capacity (`DeadHasNoRoom`). `NotBothStuck` and the bound of the channel then follow by
arithmetic: a waiting sender means no free slot, a waiting receiver no message announced.
Sends and receives are each split in two steps by the wait; the lemmas `EnqueueInv`,
`FailInv` and `DequeueInv` treat both ends of a call at once. Assumptions:
`MessageAssumption` and `WaitAssumption`.

### Events

`EventProofs`, for any tasks, events, sets and set size, with failing allocations,
timeouts, destruction, termination and clean-up:

- `EventTypes`: `Spec => []TypeOK`;
- `EventAutoResetOnce`: `Spec => []AutoResetOnce`;
- `EventListsMatchWaits`: `Spec => []ListsMatchWaits`;
- `EventSignalsAreNotLost`: `Spec => SignalsAreNotLost`.

The inductive invariant is the conjunction of the three, restated over the members of the
lists (`Match`), with what the code has beyond the header, that nobody is in the list of a
signaled event (`NobodyWaitsOnSignaled`), and two additions that `ListsMatchWaits` needs:
a task in a wait names
an event or a set (`InWait`), and a list holds a task once, so that taking it out once is
enough. `SignalsAreNotLost` follows action by action: a signal that finds the list empty
stays, and otherwise the list's members are waiting or terminated tasks by `Match`.
Nearly every step either lets a set W of tasks leave the lists (`Leaves(W)`: a signal,
a broadcast, a destruction, a timeout, a clean-up, and with W empty a call that changes
no list) or puts one task into one list (`JoinsEvent`, `JoinsSet`); `LeavesMatch` does
the first kind once and for all. The lists are treated by lemmas on `Cons`,
`RemoveFirst` and `Without`; the last is a recursive function, and what it computes is
shown by taking the least place where it would be wrong. Assumptions: `EventAssumption`.

### Shared memory

`SharedMemoryProofs`, for any tasks, regions, frames, sizes and limits, with failing
allocations, failing expansions and failing unmappings:

- `SharedMemoryTypes`: `Spec => []TypeOK`;
- `SharedMemoryKeepsFrames`: `Spec => []FramesAccounted`;
- `SharedMemoryViewsAgree`: `Spec => []ViewsAgree`;
- `SharedMemoryLeavesNothingUnshared`: `Spec => NothingLeftUnshared`.

The invariants lack one thing: a slot that is not in use has neither pages nor mappings
(`UnusedIsEmpty`), without which a creation would drop the old ones. With it, every step
on one region is an exchange of pages with the free frames (`Exchange`), and a clean-up
returns the pages of several regions (`Release`). The action property rests on the
counter: a region of the dead task is destroyed when `MappingsLeft` is 0, and
`LeftFacts` says that this is when nobody else has it mapped. `UnmapFacts` and
`StaleOnly` say that an unmapping adds frames only to what tasks in `Sticky` see, and
touches nothing else. Assumptions:
`SharedMemoryAssumption`. Like the invariants, the theorems say nothing of the frames
and views after a torn resize.

### Ring-buffer queues and their registry

`MessageServiceProofs`, for any finite sets of tasks and queues, any capacities, limits
of the registry, priorities and workloads, for calls that wait and for the flag as built:

- `MessageServiceTypes`: `Spec => []TypeOK`;
- `RingsStayWhole`: `Spec => []RingIsWhole`;
- `SemaphoresAccount`: `Spec => []PlacesAccountedFor`;
- `RegistryIsRight`: `Spec => []RegistryMatchesCalls`;
- `RepliesStay`: `Spec => RepliesAreNotRedirected`;
- `RingsImplementLists`: `Spec => BehavesAsLists`, the refinement: `Init` maps to
  `List!Init` and each step to a step or a stutter of `MessageList` (`ListStep`).

The first part of the module is about the registry. `RegistryOperations` says which queue
is found as which one of which task before and after a call, so that the shifting of
entries changes nothing else. The second part is about one ring. A place is a number
modulo the capacity (`Place`), found with one addition or subtraction (step `Wrap`);
`RingOperations` says that sending, receiving and cleaning up keep a ring `Whole` and what
they do to its contents. The loop of `cleanup_task_messages` is a recursive function over
its turns; that it leaves exactly the messages of other tasks, in their order, is shown by
taking the least turn after which it would not. The proofs of the two lemmas are laid out
as named steps, each a lemma that is used only there.

`IInv` adds to the invariants what they need to be inductive. A queue is listed once
(`QueuesDistinct`), or destroying it would leave it listed. A task has one entry and a
queue is in it once (`EntriesDistinct`), or withdrawing a registration would leave a
second one. Memory that is not part of a queue is as a new queue needs it
(`FreedAreFresh`; the code clears it at creation), so that creation does not change a
list. The queue of a call that waits exists (`CallsAreLive`), or the tasks that were
granted places could not be counted by queue. `PlacesAccountedFor` is split in its two
halves, `Enough` and `Once`, each a statement about one ring and two numbers of granted
tasks; `PutStep`, `TakeStep` and `CleanStep` say how the halves survive a step and the
`Counts` lemmas how the numbers change. TLC finds that `IInv` holds on the instance of run
`message_service`. Assumptions: `ServiceAssumption`.

### Only model-checked

- Liveness (`TimerIsTaken`), which is out of the prover's reach together with `ENABLED`.
- `PageDirectory`: its steps fold an operator over a set of pages (`ForPages`), and the
  provers cannot instantiate a theorem that takes an operator.
- The behaviours that the runs with a violation exhibit.

## 6. Not modelled

- Physical memory (`memory.c`): `early_init` calls `init_memory` after
  `parse_multiboot_info`, and `init_memory` zeroes the sizes of the zones just found
  (`main.c:158`, `:340`). The zones are then skipped, no page is marked free and every
  allocation fails, so a model has no behaviour worth checking. The models that
  allocate take an external allocator that may fail.
- IPC initialisation, boot and console: straight-line code.
- The second versions of shared memory and of events: the first is another layout of
  what `SharedMemory` models, the second is not a program.
- Termination of a task that waits on a mutex or on a queue of `MessageQueue`: its
  waiter stays and swallows a wake-up, as `Semaphore` shows.
- Spurious interrupts 7 and 15.
- The timer handler entering an event's mutex beside the task it interrupts, which
  needs the list operations split at each store.
- `check_message_timeouts`, which sets a bit that nothing reads; `register_isr_handler`
  and `irq_mask`, which nothing that runs reads; page fault statistics and dumps.
- Lengths of timeouts, names, permissions, payloads and statistics, stacks and
  contexts.

## 7. Plan

1. Proofs: the invariants of PageDirectory, with its loops written as recursive functions.
2. Termination of waiting tasks in `Mutex` and `MessageQueue`.
