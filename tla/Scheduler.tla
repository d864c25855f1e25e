----------------------------- MODULE Scheduler -----------------------------
(***************************************************************************)
(* The task scheduler of kernel/scheduler.c, over the queue operations of  *)
(* TaskQueues.                                                             *)
(*                                                                         *)
(* A task is named by its pid; the idle task is the first one created.     *)
(* Every operation runs between enter_critical and exit_critical on one    *)
(* processor and is one action.  Its caller is whatever code is running:   *)
(* the current task or an interrupt handler.  A list walk that never ends  *)
(* leaves the processor spinning with interrupts off: the flag hung.       *)
(***************************************************************************)
EXTENDS TaskQueues, FiniteSets

CONSTANTS Priorities,  \* priorities passed to create_task, valid or not
          Terminable,  \* pids passed to terminate_task
          SleepTimes,  \* arguments of sleep_task
          TimeSlice,   \* DEFAULT_TIME_SLICE
          MaxTick,     \* the clock stops advancing here
          CountMod     \* stands for 2^32, the range of the uint32_t counters

NoTimer == -1  \* the timer interrupt handler is not running

ASSUME SchedulerAssumption ==
  /\ Priorities \subseteq Nat
  /\ Terminable \subseteq Pids
  /\ SleepTimes \subseteq Nat
  /\ TimeSlice \in Nat \ {0}
  /\ MaxTick \in Nat
  /\ CountMod \in Nat /\ CountMod > MaxPid

TaskStates == {"none", "ready", "running", "blocked", "sleeping", "terminated"}

VARIABLES
  links,           \* head of each queue, next and prev of each task, hung
  state,           \* task->state ("none": not created yet)
  priority,        \* task->priority
  wake_tick,       \* task->wake_tick
  remaining_ticks, \* task->remaining_ticks
  current_task,
  tick_count,
  next_pid,
  ready_count,
  blocked_count,
  sleeping_count,
  timer_task       \* check_sleeping_tasks: its variable task, while it runs

vars == <<links, state, priority, wake_tick, remaining_ticks, current_task,
          tick_count, next_pid, ready_count, blocked_count, sleeping_count,
          timer_task>>

-----------------------------------------------------------------------------
\* The loop over the five ready queues in block_task, sleep_task and
\* terminate_task.
RemoveFromReadyQueues(L, t) ==
  LET L0 == remove_task_from_queue(L, 0, t)
      L1 == remove_task_from_queue(L0, 1, t)
      L2 == remove_task_from_queue(L1, 2, t)
      L3 == remove_task_from_queue(L2, 3, t)
  IN  remove_task_from_queue(L3, 4, t)

\* find_task_by_pid walks the list of all tasks along next.
Found(pid) == pid \in OnList(links.next, links.head[TaskList])

FindNeverReturns(pid) ==
  ~Found(pid) /\ Endless(links.next, links.head[TaskList])

\* The counters are uint32_t.
Inc(c) == IF c = CountMod - 1 THEN 0 ELSE c + 1

Dec(c) == IF c = 0 THEN CountMod - 1 ELSE c - 1

ValidPriority(p) == IF p > TASK_PRIORITY_REALTIME THEN TASK_PRIORITY_NORMAL ELSE p

add_task_to_ready_queue(L, t) == add_task_to_queue(L, ValidPriority(priority[t]), t)

-----------------------------------------------------------------------------
(* Switching.  The operators of this section take the links L, the states  *)
(* st, the ready count rc and the remaining ticks rem as their caller has  *)
(* left them, and give the next values of these and of current_task.       *)

\* Mutant: current_task is not updated.
SwitchKeepsCurrent(t, L, st, rc, rem) ==
  /\ links' = L
  /\ state' = [st EXCEPT ![t] = "running"]
  /\ ready_count' = rc
  /\ remaining_ticks' = [rem EXCEPT ![t] = TimeSlice]
  /\ UNCHANGED current_task

\* The page directory and the register contexts are not modelled.
switch_to_task(t, L, st, rc, rem) ==
  LET old == current_task
      st1 == [st EXCEPT ![t] = "running"]
  IN  \/ /\ old = t
         /\ links' = L
         /\ state' = st
         /\ ready_count' = rc
         /\ remaining_ticks' = rem
         /\ UNCHANGED current_task
      \/ /\ old # t
         /\ current_task' = t
         /\ remaining_ticks' = [rem EXCEPT ![t] = TimeSlice]
         /\ IF st[old] = "running"
            THEN /\ links' = add_task_to_ready_queue(L, old)
                 /\ state' = [st1 EXCEPT ![old] = "ready"]
                 /\ ready_count' = Inc(rc)
            ELSE /\ links' = L
                 /\ state' = st1
                 /\ ready_count' = rc

\* schedule_next_task with get_next_ready_task: the head of the highest
\* non-empty ready queue, or the idle task.
schedule_next_task(L, st, rc, rem) ==
  LET nonEmpty == {p \in ReadyQueues : L.head[p] # NULL}
      top == CHOOSE p \in nonEmpty : \A q \in nonEmpty : q <= p
      t   == L.head[top]
  IN  IF nonEmpty = {}
      THEN switch_to_task(Idle, L, st, rc, rem)
      ELSE switch_to_task(t, remove_task_from_queue(L, top, t), st, Dec(rc), rem)

\* schedule() sets in_critical_section (enter_critical) and then returns
\* because in_critical_section is set.
schedule(L, st, rc, rem) ==
  LET in_critical_section == TRUE
  IN  IF in_critical_section
      THEN /\ links' = L
           /\ state' = st
           /\ ready_count' = rc
           /\ remaining_ticks' = rem
           /\ UNCHANGED current_task
      ELSE schedule_next_task(L, st, rc, rem)

-----------------------------------------------------------------------------
(* Operations.  A call that returns early changes nothing and is not an    *)
(* action: a failed kmalloc in create_task, a pid that is not found, a     *)
(* task in the wrong state, block_task or sleep_task for the idle task.    *)
(* A call whose list walk never ends is the action Hangs.                  *)

\* The links create_task leaves: the new task is put on the list of all tasks
\* and then on its ready queue, with the same pair of links.
LinksAfterCreate(prio) ==
  add_task_to_queue(add_task_to_queue(links, TaskList, next_pid),
                    ValidPriority(prio), next_pid)

Callable == ~links.hung /\ timer_task = NoTimer

create_task(prio) ==
  LET t == next_pid
  IN  /\ Callable
      /\ next_pid <= MaxPid
      /\ ~LinksAfterCreate(prio).hung
      /\ links' = LinksAfterCreate(prio)
      /\ state' = [state EXCEPT ![t] = "ready"]
      /\ priority' = [priority EXCEPT ![t] = prio]
      /\ remaining_ticks' = [remaining_ticks EXCEPT ![t] = TimeSlice]
      /\ next_pid' = next_pid + 1
      /\ ready_count' = Inc(ready_count)
      /\ UNCHANGED <<wake_tick, current_task, tick_count, blocked_count,
                     sleeping_count, timer_task>>

\* The counters of the queues the task is removed from are left alone, and
\* the task stays on the list of all tasks.
terminate_task(pid) ==
  LET st == [state EXCEPT ![pid] = "terminated"]
      L1 == RemoveFromReadyQueues(links, pid)
      L2 == remove_task_from_queue(L1, Blocked, pid)
      L3 == remove_task_from_queue(L2, Sleeping, pid)
  IN  /\ Callable
      /\ pid > PID_KERNEL
      /\ Found(pid)
      /\ IF current_task = pid
         THEN schedule_next_task(L3, st, ready_count, remaining_ticks)
         ELSE /\ links' = L3
              /\ state' = st
              /\ UNCHANGED <<ready_count, remaining_ticks, current_task>>
      /\ UNCHANGED <<priority, wake_tick, tick_count, next_pid, blocked_count,
                     sleeping_count, timer_task>>

\* yield(), and the handler of the yield interrupt.
yield ==
  /\ Callable
  /\ schedule(links, state, ready_count, remaining_ticks)
  /\ UNCHANGED <<priority, wake_tick, tick_count, next_pid, blocked_count,
                 sleeping_count, timer_task>>

LinksAfterSleep ==
  add_task_to_queue(RemoveFromReadyQueues(links, current_task), Sleeping, current_task)

sleep_task(ms) ==
  LET t == current_task
  IN  /\ Callable
      /\ t # Idle
      /\ tick_count + ms <= MaxTick
      /\ ~LinksAfterSleep.hung
      /\ wake_tick' = [wake_tick EXCEPT ![t] = tick_count + ms]
      /\ sleeping_count' = Inc(sleeping_count)
      /\ schedule_next_task(LinksAfterSleep, [state EXCEPT ![t] = "sleeping"],
                            ready_count, remaining_ticks)
      /\ UNCHANGED <<priority, tick_count, next_pid, blocked_count,
                     timer_task>>

\* From the queue q to the ready queue: wake_task and unblock_task.
LinksAfterReady(q, pid) ==
  add_task_to_ready_queue(remove_task_from_queue(links, q, pid), pid)

MakeReady(q, pid) ==
  /\ Callable
  /\ ~LinksAfterReady(q, pid).hung
  /\ links' = LinksAfterReady(q, pid)
  /\ state' = [state EXCEPT ![pid] = "ready"]
  /\ ready_count' = Inc(ready_count)
  /\ UNCHANGED <<priority, wake_tick, remaining_ticks, current_task, tick_count,
                 next_pid, timer_task>>

wake_task(pid) ==
  /\ Found(pid)
  /\ state[pid] = "sleeping"
  /\ MakeReady(Sleeping, pid)
  /\ sleeping_count' = Dec(sleeping_count)
  /\ UNCHANGED blocked_count

\* The state of the task is not tested, and the task is removed from the
\* ready queues only: a blocked, sleeping or terminated task can be blocked.
LinksAfterBlock(pid) ==
  add_task_to_queue(RemoveFromReadyQueues(links, pid), Blocked, pid)

block_task(pid) ==
  LET st == [state EXCEPT ![pid] = "blocked"]
  IN  /\ Callable
      /\ Found(pid)
      /\ pid # Idle
      /\ blocked_count < CountMod - 1  \* the model stops short of 2^32 calls
      /\ ~LinksAfterBlock(pid).hung
      /\ blocked_count' = Inc(blocked_count)
      /\ IF current_task = pid
         THEN schedule_next_task(LinksAfterBlock(pid), st, ready_count, remaining_ticks)
         ELSE /\ links' = LinksAfterBlock(pid)
              /\ state' = st
              /\ UNCHANGED <<ready_count, remaining_ticks, current_task>>
      /\ UNCHANGED <<priority, wake_tick, tick_count, next_pid, sleeping_count, timer_task>>

\* Mutant: the state of the task is not tested.
UnblockAnyTask(pid) ==
  /\ Found(pid)
  /\ MakeReady(Blocked, pid)
  /\ blocked_count' = Dec(blocked_count)
  /\ UNCHANGED sleeping_count

\* Mutant: the unblocked task gets the processor at once.
UnblockSwitches(pid) ==
  /\ Callable
  /\ Found(pid)
  /\ state[pid] = "blocked"
  /\ switch_to_task(pid, remove_task_from_queue(links, Blocked, pid), state,
                    ready_count, remaining_ticks)
  /\ blocked_count' = Dec(blocked_count)
  /\ UNCHANGED <<priority, wake_tick, tick_count, next_pid, sleeping_count, timer_task>>

unblock_task(pid) ==
  /\ Found(pid)
  /\ state[pid] = "blocked"
  /\ MakeReady(Blocked, pid)
  /\ blocked_count' = Dec(blocked_count)
  /\ UNCHANGED sleeping_count

-----------------------------------------------------------------------------
(* The timer interrupt.  Its handler runs with interrupts off, so nothing  *)
(* else happens between its first and its last step; the loop over the     *)
(* sleeping queue is one action per round.                                 *)

NextTick == IF tick_count < MaxTick THEN tick_count + 1 ELSE tick_count

timer_tick_handler ==
  /\ Callable
  /\ tick_count' = NextTick
  /\ timer_task' = IF sleeping_count > 0 THEN links.head[Sleeping] ELSE NULL
  /\ UNCHANGED <<links, state, priority, wake_tick, remaining_ticks, current_task,
                 next_pid, ready_count, blocked_count, sleeping_count>>

\* One round of the loop: it visits the tasks it finds along next, whatever
\* their state, and reads next before it moves the task.
check_sleeping_tasks ==
  LET t == timer_task
  IN  /\ ~links.hung
      /\ t \in Pids
      /\ timer_task' = links.next[t]
      /\ IF tick_count >= wake_tick[t]
         THEN /\ ~LinksAfterReady(Sleeping, t).hung
              /\ links' = LinksAfterReady(Sleeping, t)
              /\ state' = [state EXCEPT ![t] = "ready"]
              /\ ready_count' = Inc(ready_count)
              /\ sleeping_count' = Dec(sleeping_count)
         ELSE UNCHANGED <<links, state, ready_count, sleeping_count>>
      /\ UNCHANGED <<priority, wake_tick, remaining_ticks, current_task, tick_count,
                     next_pid, blocked_count>>

\* Mutant: the remaining ticks are not tested.
ConsumeTickUnguarded(t) == [remaining_ticks EXCEPT ![t] = @ - 1]

ConsumeTick(t) ==
  IF remaining_ticks[t] > 0 THEN [remaining_ticks EXCEPT ![t] = @ - 1] ELSE remaining_ticks

\* The rest of timer_tick_handler.  preemption_enabled is TRUE from
\* init_scheduler on.
AccountTick ==
  LET t   == current_task
      rem == ConsumeTick(t)
      charged == t # Idle /\ state[t] = "running"
  IN  /\ ~links.hung
      /\ timer_task = NULL
      /\ timer_task' = NoTimer
      /\ IF charged /\ rem[t] = 0
         THEN schedule(links, state, ready_count, rem)
         ELSE /\ remaining_ticks' = IF charged THEN rem ELSE remaining_ticks
              /\ UNCHANGED <<links, state, ready_count, current_task>>
      /\ UNCHANGED <<priority, wake_tick, tick_count, next_pid, blocked_count,
                     sleeping_count>>

-----------------------------------------------------------------------------
\* A call of one of the operations walks a cyclic list.
Hangs ==
  /\ ~links.hung
  /\ \/ /\ Callable
        /\ \/ \E pid \in Pids : FindNeverReturns(pid)
           \/ next_pid <= MaxPid /\ \E p \in Priorities : LinksAfterCreate(p).hung
           \/ current_task # Idle /\ LinksAfterSleep.hung
           \/ \E pid \in Pids :
                /\ Found(pid)
                /\ \/ state[pid] = "sleeping" /\ LinksAfterReady(Sleeping, pid).hung
                   \/ state[pid] = "blocked" /\ LinksAfterReady(Blocked, pid).hung
                   \/ pid # Idle /\ LinksAfterBlock(pid).hung
     \/ /\ timer_task \in Pids
        /\ tick_count >= wake_tick[timer_task]
        /\ LinksAfterReady(Sleeping, timer_task).hung
  /\ links' = [links EXCEPT !.hung = TRUE]
  /\ UNCHANGED <<state, priority, wake_tick, remaining_ticks, current_task,
                 tick_count, next_pid, ready_count, blocked_count, sleeping_count,
                 timer_task>>

\* init_scheduler: the idle task is created, which puts it on its ready
\* queue, and then run without being taken off that queue.
Init ==
  /\ links = [head |-> [q \in Queues |-> IF q \in {TASK_PRIORITY_IDLE, TaskList}
                                         THEN Idle ELSE NULL],
              next |-> [t \in Pids |-> NULL],
              prev |-> [t \in Pids |-> NULL],
              hung |-> FALSE]
  /\ state = [t \in Pids |-> IF t = Idle THEN "running" ELSE "none"]
  /\ priority = [t \in Pids |-> TASK_PRIORITY_IDLE]
  /\ wake_tick = [t \in Pids |-> 0]
  /\ remaining_ticks = [t \in Pids |-> IF t = Idle THEN TimeSlice ELSE 0]
  /\ current_task = Idle
  /\ tick_count = 0
  /\ next_pid = Idle + 1
  /\ ready_count = 1
  /\ blocked_count = 0
  /\ sleeping_count = 0
  /\ timer_task = NoTimer

Next ==
  \/ \E p \in Priorities : create_task(p)
  \/ \E pid \in Terminable : terminate_task(pid)
  \/ yield
  \/ \E ms \in SleepTimes : sleep_task(ms)
  \/ \E pid \in Pids : wake_task(pid)
  \/ \E pid \in Pids : block_task(pid)
  \/ \E pid \in Pids : unblock_task(pid)
  \/ timer_tick_handler
  \/ check_sleeping_tasks
  \/ AccountTick
  \/ Hangs

Spec == Init /\ [][Next]_vars

-----------------------------------------------------------------------------
(* Properties. *)

\* Type invariant: every link and every head is a task or NULL, every counter
\* is a uint32_t.
TypeOK ==
  /\ links \in [head: [Queues -> Pids \cup {NULL}], next: [Pids -> Pids \cup {NULL}],
                prev: [Pids -> Pids \cup {NULL}], hung: BOOLEAN]
  /\ state \in [Pids -> TaskStates]
  /\ priority \in [Pids -> Nat]
  /\ wake_tick \in [Pids -> Nat]
  /\ remaining_ticks \in [Pids -> 0 .. TimeSlice]
  /\ current_task \in Pids
  /\ tick_count \in 0 .. MaxTick
  /\ next_pid \in Idle + 1 .. MaxPid + 1
  /\ ready_count \in 0 .. CountMod - 1
  /\ blocked_count \in 0 .. CountMod - 1
  /\ sleeping_count \in 0 .. CountMod - 1
  /\ timer_task \in Pids \cup {NULL, NoTimer}

\* Only the current task is in TASK_STATE_RUNNING, whatever order blocks,
\* wake-ups and switches come in and however the queues are linked
\* (switch_to_task demotes the task it replaces).
RunningIsCurrent == \A t \in Pids : state[t] = "running" => t = current_task

\* blocked_count is never below the number of blocked tasks, so the
\* decrement in unblock_task never wraps around (short of 2^32 calls of
\* block_task, see there).
BlockedCountCovers ==
  blocked_count >= Cardinality({t \in Pids : state[t] = "blocked"})

\* A task that has neither blocked nor gone to sleep nor terminated loses the
\* processor only to a tick that finds its time slice used up, or by yielding:
\* never because a task is created, woken or unblocked, whatever its priority.
\* So a task that has queued itself for an object is not overtaken between the
\* exit_critical of the call and its block_task, unless its time is up.
LosesProcessorOnlyWhenDue ==
  [][current_task' # current_task =>
       \/ state'[current_task] \in {"blocked", "sleeping", "terminated"}
       \/ AccountTick /\ remaining_ticks'[current_task] = 0
       \/ yield]_vars

\* What the code does beyond that: schedule() returns early, so that not even a
\* tick or a yield takes the processor from a task.  The comments on
\* preemption_enabled, yield and timer_tick_handler say otherwise.
SwitchOnlyWhenGivenUp ==
  [][current_task' # current_task =>
       state'[current_task] \in {"blocked", "sleeping", "terminated"}]_vars

-----------------------------------------------------------------------------
(* What the comments of the code say, and the code does not do. *)

\* Tasks of equal priority can coexist: no operation leaves a list cyclic and
\* so keeps the processor for ever.
NeverHangs == ~links.hung

=============================================================================
