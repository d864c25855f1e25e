--------------------------- MODULE SchedulerProofs ---------------------------
(***************************************************************************)
(* Proofs about Scheduler, for any number of tasks, priorities and ticks:  *)
(* the links stay well typed whatever the queues look like, only the       *)
(* current task is running, blocked_count never wraps, and a task loses    *)
(* the processor only by giving it up.                                     *)
(***************************************************************************)
EXTENDS Scheduler, FiniteSetTheorems, TLAPS

-----------------------------------------------------------------------------
(* The queue operations keep the links well typed, whatever shape the      *)
(* queues are in.                                                          *)

LinkRecords ==
  [head: [Queues -> Pids \cup {NULL}], next: [Pids -> Pids \cup {NULL}],
   prev: [Pids -> Pids \cup {NULL}], hung: BOOLEAN]

\* Appending a task to a queue leaves links to tasks only.
LEMMA AddType ==
  ASSUME NEW L \in LinkRecords, NEW q \in Queues, NEW t \in Pids
  PROVE  add_task_to_queue(L, q, t) \in LinkRecords
<1> DEFINE nxt == [L.next EXCEPT ![t] = NULL]
           prv == [L.prev EXCEPT ![t] = NULL]
           h == L.head[q]
           last == CHOOSE n \in OnList(nxt, h) : nxt[n] = NULL
<1>1. nxt \in [Pids -> Pids \cup {NULL}] /\ prv \in [Pids -> Pids \cup {NULL}]
  BY DEF LinkRecords
<1>2. CASE L.hung
  BY <1>2 DEF add_task_to_queue
<1>3. CASE ~L.hung /\ h = NULL
  <2>1. [L.head EXCEPT ![q] = t] \in [Queues -> Pids \cup {NULL}]
    BY DEF LinkRecords
  <2>2. add_task_to_queue(L, q, t)
          = [head |-> [L.head EXCEPT ![q] = t], next |-> nxt, prev |-> prv, hung |-> FALSE]
    BY <1>3 DEF add_task_to_queue
  <2> HIDE DEF nxt, prv
  <2> QED  BY <2>1, <2>2, <1>1 DEF LinkRecords
<1>4. CASE ~L.hung /\ h # NULL /\ Endless(nxt, h)
  BY <1>4 DEF add_task_to_queue, LinkRecords
<1>5. CASE ~L.hung /\ h # NULL /\ ~Endless(nxt, h)
  <2>1. PICK n \in OnList(nxt, h) : nxt[n] = NULL
    BY <1>5 DEF Endless
  <2>2. last \in OnList(nxt, h)
    BY <2>1
  <2>3. last \in Pids
    BY <2>2 DEF OnList
  <2>4. add_task_to_queue(L, q, t)
          = [head |-> L.head, next |-> [nxt EXCEPT ![last] = t],
             prev |-> [prv EXCEPT ![t] = last], hung |-> FALSE]
    BY <1>5 DEF add_task_to_queue
  <2> HIDE DEF nxt, prv, last
  <2>5. /\ [nxt EXCEPT ![last] = t] \in [Pids -> Pids \cup {NULL}]
        /\ [prv EXCEPT ![t] = last] \in [Pids -> Pids \cup {NULL}]
    BY <2>3, <1>1
  <2> QED  BY <2>5, <2>4 DEF LinkRecords
<1> QED  BY <1>2, <1>3, <1>4, <1>5

\* So does unlinking one.
LEMMA RemoveType ==
  ASSUME NEW L \in LinkRecords, NEW q \in Queues, NEW t \in Pids
  PROVE  remove_task_from_queue(L, q, t) \in LinkRecords
<1> DEFINE h == L.head[q]
           succ == L.next[t]
           pred == L.prev[t]
           nxt == IF h # t /\ pred # NULL THEN [L.next EXCEPT ![pred] = succ] ELSE L.next
           prv == IF succ # NULL
                  THEN [L.prev EXCEPT ![succ] = IF h = t THEN NULL ELSE pred] ELSE L.prev
           hd == IF h = t THEN [L.head EXCEPT ![q] = succ] ELSE L.head
           FNull == [Pids -> Pids \cup {NULL}]
<1>1. succ \in Pids \cup {NULL} /\ pred \in Pids \cup {NULL}
  BY DEF LinkRecords
<1>2. L.next \in FNull /\ L.prev \in FNull /\ L.head \in [Queues -> Pids \cup {NULL}]
  BY DEF LinkRecords
<1>3. CASE h = NULL
  <2>1. remove_task_from_queue(L, q, t) = L
    BY <1>3 DEF remove_task_from_queue
  <2> QED  BY <2>1
<1>4. CASE h # NULL
  <2>1. nxt \in FNull
    BY <1>1, <1>2
  <2>2. prv \in FNull
    BY <1>1, <1>2
  <2>3. hd \in [Queues -> Pids \cup {NULL}]
    BY <1>1, <1>2
  <2>4. remove_task_from_queue(L, q, t) = Unlinked(L, q, t)
    BY <1>4 DEF remove_task_from_queue
  <2>6. Unlinked(L, q, t)
          = [head |-> hd, next |-> [nxt EXCEPT ![t] = NULL],
             prev |-> [prv EXCEPT ![t] = NULL], hung |-> L.hung]
    BY DEF Unlinked
  <2> HIDE DEF nxt, prv, hd
  <2>5. [nxt EXCEPT ![t] = NULL] \in FNull /\ [prv EXCEPT ![t] = NULL] \in FNull
    BY <2>1, <2>2
  <2> QED  BY <2>3, <2>4, <2>5, <2>6 DEF LinkRecords
<1> QED  BY <1>3, <1>4

-----------------------------------------------------------------------------

Counts == 0 .. CountMod - 1

\* So does taking a task off the queues of all priorities.
LEMMA RemoveReadyType ==
  ASSUME NEW L \in LinkRecords, NEW t \in Pids
  PROVE  RemoveFromReadyQueues(L, t) \in LinkRecords
<1>1. \A M \in LinkRecords, p \in 0 .. 4 : remove_task_from_queue(M, p, t) \in LinkRecords
  BY RemoveType, Zenon DEF Queues, ReadyQueues, TASK_PRIORITY_IDLE, TASK_PRIORITY_REALTIME
<1> QED  BY <1>1 DEF RemoveFromReadyQueues

\* A pid, and each queue a task is put on, is what the lemmas on the queue
\* operations ask for.
LEMMA QueueFacts ==
  /\ Idle \in Pids
  /\ NULL \notin Pids
  /\ Blocked \in Queues /\ Sleeping \in Queues /\ TaskList \in Queues
  /\ ReadyQueues \subseteq Queues
  /\ \A p \in Nat : ValidPriority(p) \in ReadyQueues
BY PidAssumption DEF Pids, Idle, PID_KERNEL, NULL, Blocked, Sleeping, TaskList, Queues,
   ReadyQueues, ValidPriority, TASK_PRIORITY_IDLE, TASK_PRIORITY_REALTIME,
   TASK_PRIORITY_NORMAL

\* A counter of the scheduler stays in its range, whichever way it wraps.
LEMMA CountFacts ==
  ASSUME NEW c \in Counts
  PROVE  Inc(c) \in Counts /\ Dec(c) \in Counts
BY PidAssumption, SchedulerAssumption DEF Counts, Inc, Dec, Idle, PID_KERNEL

Slices == [Pids -> 0 .. TimeSlice]

\* What a switch may do, whichever task it picks: the new state is typed, at
\* most the new current task is running, no task becomes blocked, and the task
\* that is replaced is no longer running.
SwitchEffect(st) ==
  /\ links' \in LinkRecords
  /\ state' \in [Pids -> TaskStates]
  /\ ready_count' \in Counts
  /\ remaining_ticks' \in Slices
  /\ current_task' \in Pids
  /\ (\A t \in Pids : st[t] = "running" => t = current_task)
        => \A t \in Pids : state'[t] = "running" => t = current_task'
  /\ \A t \in Pids : state'[t] = "blocked" => st[t] = "blocked"
  /\ current_task' # current_task =>
        state'[current_task] = IF st[current_task] = "running" THEN "ready"
                               ELSE st[current_task]

\* switch_to_task has this effect, whatever the links and counters it starts from.
LEMMA SwitchLemma ==
  ASSUME TypeOK, NEW L \in LinkRecords, NEW st \in [Pids -> TaskStates],
         NEW rc \in Counts, NEW rem \in Slices, NEW t \in Pids,
         switch_to_task(t, L, st, rc, rem)
  PROVE  SwitchEffect(st)
<1> DEFINE old == current_task
           st1 == [st EXCEPT ![t] = "running"]
<1>1. old \in Pids /\ priority \in [Pids -> Nat]
  BY DEF TypeOK
<1>2. CASE old = t
  BY <1>1, <1>2 DEF switch_to_task, SwitchEffect
<1>3. CASE old # t
  <2>1. /\ current_task' = t
        /\ remaining_ticks' = [rem EXCEPT ![t] = TimeSlice]
    BY <1>3 DEF switch_to_task
  <2>2. remaining_ticks' \in Slices
    BY <2>1, SchedulerAssumption DEF Slices
  <2>3. CASE st[old] = "running"
    <3>1. /\ links' = add_task_to_ready_queue(L, old)
          /\ state' = [st1 EXCEPT ![old] = "ready"]
          /\ ready_count' = Inc(rc)
      BY <1>3, <2>3 DEF switch_to_task
    <3>2. links' \in LinkRecords
      BY <3>1, <1>1, QueueFacts, AddType, Zenon DEF add_task_to_ready_queue
    <3>3. ready_count' \in Counts
      BY <3>1, CountFacts
    <3>4. state' \in [Pids -> TaskStates]
      BY <3>1, <1>1 DEF TaskStates
    <3> QED  BY <3>1, <3>2, <3>3, <3>4, <2>1, <2>2, <2>3, <1>1, <1>3 DEF SwitchEffect
  <2>4. CASE st[old] # "running"
    <3>1. /\ links' = L
          /\ state' = st1
          /\ ready_count' = rc
      BY <1>3, <2>4 DEF switch_to_task
    <3>4. state' \in [Pids -> TaskStates]
      BY <3>1, <1>1 DEF TaskStates
    <3> QED  BY <3>1, <3>4, <2>1, <2>2, <2>4, <1>1, <1>3 DEF SwitchEffect
  <2> QED  BY <2>3, <2>4
<1> QED  BY <1>2, <1>3

\* So does schedule_next_task: the task it picks is a task, or the idle one.
LEMMA ScheduleNextLemma ==
  ASSUME TypeOK, NEW L \in LinkRecords, NEW st \in [Pids -> TaskStates],
         NEW rc \in Counts, NEW rem \in Slices,
         schedule_next_task(L, st, rc, rem)
  PROVE  SwitchEffect(st)
<1> DEFINE nonEmpty == {p \in ReadyQueues : L.head[p] # NULL}
           top == CHOOSE p \in nonEmpty : \A q \in nonEmpty : q <= p
           t == L.head[top]
<1>1. CASE nonEmpty = {}
  <2>1. switch_to_task(Idle, L, st, rc, rem)
    BY <1>1 DEF schedule_next_task
  <2> QED  BY <2>1, QueueFacts, SwitchLemma
<1>2. CASE nonEmpty # {}
  <2>1. \E p \in nonEmpty : \A q \in nonEmpty : q <= p
    BY <1>2 DEF ReadyQueues, TASK_PRIORITY_IDLE, TASK_PRIORITY_REALTIME
  <2>2. top \in nonEmpty
    BY <2>1
  <2>3. top \in Queues /\ t \in Pids
    BY <2>2, QueueFacts DEF LinkRecords
  <2>4. switch_to_task(t, remove_task_from_queue(L, top, t), st, Dec(rc), rem)
    BY <1>2 DEF schedule_next_task
  <2>5. remove_task_from_queue(L, top, t) \in LinkRecords
    BY <2>3, RemoveType
  <2>6. Dec(rc) \in Counts
    BY CountFacts
  <2> HIDE DEF top
  <2> QED  BY <2>3, <2>4, <2>5, <2>6, SwitchLemma
<1> QED  BY <1>1, <1>2

\* schedule() changes nothing by itself.
LEMMA ScheduleLemma ==
  ASSUME NEW L, NEW st, NEW rc, NEW rem, schedule(L, st, rc, rem)
  PROVE  /\ links' = L /\ state' = st /\ ready_count' = rc
         /\ remaining_ticks' = rem /\ current_task' = current_task
BY DEF schedule

IInv == TypeOK /\ RunningIsCurrent /\ BlockedCountCovers

BlockedSet(st) == {t \in Pids : st[t] = "blocked"}

\* The number of blocked tasks and how a step changes it.
LEMMA BlockedSetFacts ==
  ASSUME NEW st \in [Pids -> TaskStates]
  PROVE  /\ IsFiniteSet(BlockedSet(st))
         /\ Cardinality(BlockedSet(st)) \in Nat
         /\ \A st2 \in [Pids -> TaskStates] :
              (\A t \in Pids : st2[t] = "blocked" => st[t] = "blocked")
                => Cardinality(BlockedSet(st2)) <= Cardinality(BlockedSet(st))
         /\ \A st2 \in [Pids -> TaskStates], p \in Pids :
              (\A t \in Pids : st2[t] = "blocked" => st[t] = "blocked" \/ t = p)
                => Cardinality(BlockedSet(st2)) <= Cardinality(BlockedSet(st)) + 1
         /\ \A st2 \in [Pids -> TaskStates], p \in Pids :
              /\ st[p] = "blocked"
              /\ st2[p] # "blocked"
              /\ \A t \in Pids : st2[t] = "blocked" => st[t] = "blocked"
              => Cardinality(BlockedSet(st2)) <= Cardinality(BlockedSet(st)) - 1
<1>1. IsFiniteSet(Pids)
  BY PidAssumption, FS_Interval DEF Pids, Idle, PID_KERNEL
<1>2. \A s \in [Pids -> TaskStates] :
        IsFiniteSet(BlockedSet(s)) /\ Cardinality(BlockedSet(s)) \in Nat
  BY <1>1, FS_Subset, FS_CardinalityType DEF BlockedSet
<1>3. ASSUME NEW st2 \in [Pids -> TaskStates],
             \A t \in Pids : st2[t] = "blocked" => st[t] = "blocked"
      PROVE  Cardinality(BlockedSet(st2)) <= Cardinality(BlockedSet(st))
  <2>1. BlockedSet(st2) \subseteq BlockedSet(st)
    BY <1>3 DEF BlockedSet
  <2> QED  BY <2>1, <1>2, FS_Subset
<1>4. ASSUME NEW st2 \in [Pids -> TaskStates], NEW p \in Pids,
             \A t \in Pids : st2[t] = "blocked" => st[t] = "blocked" \/ t = p
      PROVE  Cardinality(BlockedSet(st2)) <= Cardinality(BlockedSet(st)) + 1
  <2>1. BlockedSet(st2) \subseteq BlockedSet(st) \cup {p}
    BY <1>4 DEF BlockedSet
  <2>2. /\ IsFiniteSet(BlockedSet(st) \cup {p})
        /\ Cardinality(BlockedSet(st) \cup {p}) <= Cardinality(BlockedSet(st)) + 1
    BY <1>2, FS_AddElement
  <2>3. /\ Cardinality(BlockedSet(st2)) <= Cardinality(BlockedSet(st) \cup {p})
        /\ Cardinality(BlockedSet(st) \cup {p}) \in Nat
    BY <2>1, <2>2, FS_Subset, FS_CardinalityType
  <2> QED  BY <2>2, <2>3, <1>2
<1>5. ASSUME NEW st2 \in [Pids -> TaskStates], NEW p \in Pids,
             st[p] = "blocked", st2[p] # "blocked",
             \A t \in Pids : st2[t] = "blocked" => st[t] = "blocked"
      PROVE  Cardinality(BlockedSet(st2)) <= Cardinality(BlockedSet(st)) - 1
  <2>1. BlockedSet(st2) \subseteq BlockedSet(st) \ {p} /\ p \in BlockedSet(st)
    BY <1>5 DEF BlockedSet
  <2>2. /\ IsFiniteSet(BlockedSet(st) \ {p})
        /\ Cardinality(BlockedSet(st) \ {p}) = Cardinality(BlockedSet(st)) - 1
    BY <1>2, <2>1, FS_RemoveElement
  <2>3. Cardinality(BlockedSet(st2)) <= Cardinality(BlockedSet(st) \ {p})
    BY <2>1, <2>2, FS_Subset
  <2> QED  BY <2>2, <2>3
<1> QED  BY <1>2, <1>3, <1>4, <1>5

\* init_scheduler establishes the invariant.
LEMMA InitIInv == Init => IInv
<1> SUFFICES ASSUME Init PROVE IInv
  OBVIOUS
<1> USE PidAssumption, SchedulerAssumption
<1>1. TypeOK
  <2>1. links \in LinkRecords
    <3>1. [q \in Queues |-> IF q \in {TASK_PRIORITY_IDLE, TaskList} THEN Idle ELSE NULL]
            \in [Queues -> Pids \cup {NULL}]
      BY QueueFacts
    <3>2. [t \in Pids |-> NULL] \in [Pids -> Pids \cup {NULL}]
      OBVIOUS
    <3> QED  BY <3>1, <3>2 DEF Init, LinkRecords
  <2>2. state \in [Pids -> TaskStates]
    BY DEF Init, TaskStates
  <2>3. priority \in [Pids -> Nat] /\ wake_tick \in [Pids -> Nat]
    BY DEF Init, TASK_PRIORITY_IDLE
  <2>4. remaining_ticks \in [Pids -> 0 .. TimeSlice]
    BY DEF Init
  <2>5. current_task \in Pids
    BY QueueFacts DEF Init
  <2>6. /\ tick_count \in 0 .. MaxTick
        /\ next_pid \in Idle + 1 .. MaxPid + 1
        /\ ready_count \in 0 .. CountMod - 1
        /\ blocked_count \in 0 .. CountMod - 1
        /\ sleeping_count \in 0 .. CountMod - 1
        /\ timer_task \in Pids \cup {NULL, NoTimer}
    BY DEF Init, Idle, PID_KERNEL
  <2> QED  BY <2>1, <2>2, <2>3, <2>4, <2>5, <2>6 DEF TypeOK, LinkRecords
<1>2. RunningIsCurrent
  BY DEF Init, RunningIsCurrent
<1>3. BlockedCountCovers
  <2>1. {t \in Pids : state[t] = "blocked"} = {}
    BY DEF Init
  <2>2. Cardinality({}) = 0
    BY FS_EmptySet
  <2> QED  BY <2>1, <2>2, SMTT(30) DEF BlockedCountCovers, Init
<1> QED  BY <1>1, <1>2, <1>3 DEF IInv

\* The parts of the state that a switch does not touch.
RestOK ==
  /\ priority \in [Pids -> Nat]
  /\ wake_tick \in [Pids -> Nat]
  /\ tick_count \in 0 .. MaxTick
  /\ next_pid \in Idle + 1 .. MaxPid + 1
  /\ blocked_count \in Counts
  /\ sleeping_count \in Counts
  /\ timer_task \in Pids \cup {NULL, NoTimer}

\* The type invariant, with the parts that a switch changes set apart.
LEMMA TypeSplit ==
  TypeOK <=> /\ links \in LinkRecords
             /\ state \in [Pids -> TaskStates]
             /\ ready_count \in Counts
             /\ remaining_ticks \in Slices
             /\ current_task \in Pids
             /\ RestOK
BY DEF TypeOK, RestOK, LinkRecords, Counts, Slices

GivenUp ==
  current_task' # current_task =>
    state'[current_task] \in {"blocked", "sleeping", "terminated"}

\* A step that puts a task, not the running one or no longer running, on
\* another queue and then switches.
LEMMA AfterSwitch ==
  ASSUME IInv, NEW st \in [Pids -> TaskStates], SwitchEffect(st), RestOK',
         \A t \in Pids : st[t] = "running" => t = current_task,
         st[current_task] \in {"blocked", "sleeping", "terminated"},
         blocked_count' >= Cardinality(BlockedSet(st))
  PROVE  IInv' /\ GivenUp
<1>1. TypeOK'
  BY DEF SwitchEffect, TypeOK, RestOK, LinkRecords, Counts, Slices
<1>2. RunningIsCurrent'
  BY DEF SwitchEffect, RunningIsCurrent
<1>3. BlockedCountCovers'
  <2>1. Cardinality(BlockedSet(state')) <= Cardinality(BlockedSet(st))
    BY BlockedSetFacts DEF SwitchEffect
  <2>2. /\ Cardinality(BlockedSet(state')) \in Nat
        /\ Cardinality(BlockedSet(st)) \in Nat
    BY BlockedSetFacts DEF SwitchEffect
  <2>3. blocked_count' \in Nat
    BY SchedulerAssumption, PidAssumption DEF RestOK, Counts
  <2> QED  BY <2>1, <2>2, <2>3 DEF BlockedCountCovers, BlockedSet
<1>4. GivenUp
  BY DEF SwitchEffect, GivenUp
<1> QED  BY <1>1, <1>2, <1>3, <1>4 DEF IInv

\* A step that changes no counter of blocked tasks and makes no task running
\* or blocked.
LEMMA NoSwitch ==
  ASSUME IInv, links' \in LinkRecords, state' \in [Pids -> TaskStates],
         ready_count' \in Counts, remaining_ticks' \in Slices,
         current_task' = current_task, RestOK',
         \A t \in Pids : state'[t] = "running" => state[t] = "running",
         blocked_count' >= Cardinality(BlockedSet(state'))
  PROVE  IInv' /\ GivenUp
<1>1. TypeOK'
  BY SMTT(30) DEF IInv, TypeOK, RestOK, LinkRecords, Counts, Slices
<1>2. RunningIsCurrent'
  BY DEF IInv, RunningIsCurrent
<1>3. BlockedCountCovers'
  BY DEF BlockedCountCovers, BlockedSet
<1> QED  BY <1>1, <1>2, <1>3 DEF IInv, GivenUp

\* The counter covers any state with no more blocked tasks.
LEMMA FewerBlocked ==
  ASSUME IInv, NEW st \in [Pids -> TaskStates],
         \A t \in Pids : st[t] = "blocked" => state[t] = "blocked"
  PROVE  blocked_count >= Cardinality(BlockedSet(st))
<1>1. state \in [Pids -> TaskStates] /\ blocked_count \in Nat
  BY PidAssumption, SchedulerAssumption DEF IInv, TypeOK
<1>2. Cardinality(BlockedSet(st)) <= Cardinality(BlockedSet(state))
  BY <1>1, BlockedSetFacts
<1>3. Cardinality(BlockedSet(st)) \in Nat /\ Cardinality(BlockedSet(state)) \in Nat
  BY <1>1, BlockedSetFacts
<1> QED  BY <1>1, <1>2, <1>3 DEF IInv, BlockedCountCovers, BlockedSet

\* create_task keeps the invariant and takes the processor from nobody.
LEMMA CreateStep ==
  ASSUME IInv, NEW p \in Priorities, create_task(p)
  PROVE  IInv' /\ GivenUp
<1> USE PidAssumption, SchedulerAssumption
<1>0. TypeOK
  BY DEF IInv
<1>1. next_pid \in Pids
  BY <1>0 DEF create_task, TypeOK, Pids, Idle, PID_KERNEL
<1>2. links' \in LinkRecords
  <2>1. add_task_to_queue(links, TaskList, next_pid) \in LinkRecords
    BY <1>0, <1>1, QueueFacts, AddType, TypeSplit
  <2> QED  BY <2>1, <1>1, QueueFacts, AddType DEF create_task, LinksAfterCreate
<1>3. state' = [state EXCEPT ![next_pid] = "ready"]
  BY DEF create_task
<1>4. state' \in [Pids -> TaskStates]
  BY <1>0, <1>3, Zenon DEF TypeOK, TaskStates
<1>5. ready_count' \in Counts /\ remaining_ticks' \in Slices
  <2>1. ready_count' = Inc(ready_count)
        /\ remaining_ticks' = [remaining_ticks EXCEPT ![next_pid] = TimeSlice]
    BY DEF create_task
  <2> QED  BY <2>1, <1>0, <1>1, CountFacts, TypeSplit DEF Slices
<1>6. RestOK'
  <2>1. RestOK
    BY <1>0, TypeSplit
  <2>2. /\ priority' = [priority EXCEPT ![next_pid] = p] /\ next_pid' = next_pid + 1
        /\ UNCHANGED <<wake_tick, tick_count, blocked_count, sleeping_count, timer_task>>
        /\ next_pid <= MaxPid
    BY DEF create_task
  <2>3. priority' \in [Pids -> Nat]
    BY <2>1, <2>2, <1>1 DEF RestOK
  <2>4. next_pid' \in Idle + 1 .. MaxPid + 1
    BY <2>1, <2>2 DEF RestOK, Idle, PID_KERNEL
  <2> QED  BY <2>1, <2>2, <2>3, <2>4 DEF RestOK
<1>7. blocked_count' >= Cardinality(BlockedSet(state'))
  BY <1>0, <1>1, <1>3, <1>4, FewerBlocked, Zenon DEF create_task, TypeOK
<1>8. \A t \in Pids : state'[t] = "running" => state[t] = "running"
  BY <1>0, <1>1, <1>3 DEF TypeOK
<1>9. current_task' = current_task
  BY DEF create_task
<1> QED  BY <1>2, <1>4, <1>5, <1>6, <1>7, <1>8, <1>9, NoSwitch

\* terminate_task keeps the invariant; a task that ends itself gives up the processor.
LEMMA TerminateStep ==
  ASSUME IInv, NEW pid \in Pids, terminate_task(pid)
  PROVE  IInv' /\ GivenUp
<1> DEFINE st == [state EXCEPT ![pid] = "terminated"]
           L1 == RemoveFromReadyQueues(links, pid)
           L2 == remove_task_from_queue(L1, Blocked, pid)
           L3 == remove_task_from_queue(L2, Sleeping, pid)
<1>0. TypeOK
  BY DEF IInv
<1>1. L3 \in LinkRecords
  <2>1. L1 \in LinkRecords
    BY <1>0, RemoveReadyType, TypeSplit
  <2>2. L2 \in LinkRecords
    BY <2>1, RemoveType, QueueFacts
  <2> QED  BY <2>2, RemoveType, QueueFacts
<1>2. st \in [Pids -> TaskStates]
  BY <1>0 DEF TypeOK, TaskStates
<1>3. /\ \A t \in Pids : st[t] = "running" => state[t] = "running"
      /\ \A t \in Pids : st[t] = "running" => t = current_task
      /\ blocked_count >= Cardinality(BlockedSet(st))
  <2>1. \A t \in Pids : st[t] = "blocked" => state[t] = "blocked"
    BY <1>0 DEF TypeOK
  <2>2. \A t \in Pids : st[t] = "running" => state[t] = "running"
    BY <1>0 DEF TypeOK
  <2> QED  BY <2>1, <2>2, <1>2, FewerBlocked, Zenon DEF IInv, RunningIsCurrent
<1>4. RestOK' /\ blocked_count' = blocked_count
  BY <1>0, TypeSplit DEF terminate_task, RestOK
<1>5. CASE current_task = pid
  <2>1. schedule_next_task(L3, st, ready_count, remaining_ticks)
    BY <1>5 DEF terminate_task
  <2> HIDE DEF L3, st
  <2>2. SwitchEffect(st)
    BY <2>1, <1>0, <1>1, <1>2, TypeSplit, ScheduleNextLemma
  <2>3. st[current_task] = "terminated"
    BY <1>0, <1>5 DEF st, TypeOK
  <2> QED  BY <2>2, <2>3, <1>2, <1>3, <1>4, AfterSwitch
<1>6. CASE current_task # pid
  <2>1. /\ links' = L3 /\ state' = st /\ ready_count' = ready_count
        /\ remaining_ticks' = remaining_ticks /\ current_task' = current_task
    BY <1>6 DEF terminate_task
  <2> HIDE DEF L3, st
  <2> QED  BY <2>1, <1>0, <1>1, <1>2, <1>3, <1>4, TypeSplit, NoSwitch
<1> QED  BY <1>5, <1>6

\* sleep_task keeps the invariant; the task gives up the processor.
LEMMA SleepStep ==
  ASSUME IInv, NEW ms \in SleepTimes, sleep_task(ms)
  PROVE  IInv' /\ GivenUp
<1> DEFINE t == current_task
           st == [state EXCEPT ![t] = "sleeping"]
<1>0. TypeOK /\ t \in Pids
  BY DEF IInv, TypeOK
<1>1. LinksAfterSleep \in LinkRecords
  BY <1>0, RemoveReadyType, AddType, QueueFacts, TypeSplit DEF LinksAfterSleep
<1>2. st \in [Pids -> TaskStates]
  BY <1>0 DEF TypeOK, TaskStates
<1>3. \A u \in Pids : st[u] = "blocked" => state[u] = "blocked"
  BY <1>0 DEF TypeOK
<1>4. \A u \in Pids : st[u] = "running" => u = current_task
  BY <1>0 DEF TypeOK, IInv, RunningIsCurrent
<1>5. st[current_task] = "sleeping"
  BY <1>0 DEF TypeOK
<1>6. RestOK' /\ blocked_count' = blocked_count
  <2>1. wake_tick' = [wake_tick EXCEPT ![t] = tick_count + ms]
        /\ sleeping_count' = Inc(sleeping_count)
    BY DEF sleep_task
  <2>2. wake_tick' \in [Pids -> Nat]
    BY <2>1, <1>0, SchedulerAssumption DEF TypeOK
  <2>3. sleeping_count' \in Counts
    BY <2>1, <1>0, CountFacts, TypeSplit DEF RestOK
  <2> QED  BY <2>2, <2>3, <1>0, TypeSplit, SMTT(30) DEF sleep_task, RestOK
<1>7. SwitchEffect(st)
  <2>1. schedule_next_task(LinksAfterSleep, st, ready_count, remaining_ticks)
    BY DEF sleep_task
  <2> HIDE DEF st
  <2> QED  BY <2>1, <1>0, <1>1, <1>2, TypeSplit, ScheduleNextLemma
<1> HIDE DEF st
<1>8. blocked_count >= Cardinality(BlockedSet(st))
  BY <1>2, <1>3, FewerBlocked
<1> QED  BY <1>2, <1>4, <1>5, <1>6, <1>7, <1>8, AfterSwitch

\* Making a task ready: wake_task, unblock_task and a round of
\* check_sleeping_tasks.
LEMMA ReadyType ==
  ASSUME TypeOK, NEW pid \in Pids, NEW q \in {Blocked, Sleeping}
  PROVE  /\ LinksAfterReady(q, pid) \in LinkRecords
         /\ [state EXCEPT ![pid] = "ready"] \in [Pids -> TaskStates]
<1>1. remove_task_from_queue(links, q, pid) \in LinkRecords
  BY RemoveType, QueueFacts, TypeSplit
<1>2. priority[pid] \in Nat
  BY DEF TypeOK
<1>3. LinksAfterReady(q, pid) \in LinkRecords
  BY <1>1, <1>2, AddType, QueueFacts DEF LinksAfterReady, add_task_to_ready_queue
<1> QED  BY <1>3 DEF TypeOK, TaskStates

\* wake_task keeps the invariant and takes the processor from nobody.
LEMMA WakeStep ==
  ASSUME IInv, NEW pid \in Pids, wake_task(pid)
  PROVE  IInv' /\ GivenUp
<1>0. TypeOK
  BY DEF IInv
<1>1. /\ links' = LinksAfterReady(Sleeping, pid)
      /\ state' = [state EXCEPT ![pid] = "ready"]
      /\ ready_count' = Inc(ready_count)
      /\ sleeping_count' = Dec(sleeping_count)
      /\ blocked_count' = blocked_count
      /\ current_task' = current_task
      /\ remaining_ticks' = remaining_ticks
  BY DEF wake_task, MakeReady
<1>2. links' \in LinkRecords /\ state' \in [Pids -> TaskStates]
  BY <1>0, <1>1, ReadyType
<1>3. \A t \in Pids : /\ state'[t] = "running" => state[t] = "running"
                      /\ state'[t] = "blocked" => state[t] = "blocked"
  BY <1>0, <1>1 DEF TypeOK
<1>4. RestOK'
  BY <1>0, <1>1, CountFacts, TypeSplit DEF wake_task, MakeReady, RestOK
<1>5. blocked_count' >= Cardinality(BlockedSet(state'))
  BY <1>1, <1>2, <1>3, FewerBlocked, Zenon
<1>6. ready_count' \in Counts /\ remaining_ticks' \in Slices
  BY <1>0, <1>1, CountFacts, TypeSplit
<1> QED  BY <1>1, <1>2, <1>3, <1>4, <1>5, <1>6, NoSwitch

\* unblock_task keeps the invariant: there is a blocked task to count down for.
LEMMA UnblockStep ==
  ASSUME IInv, NEW pid \in Pids, unblock_task(pid)
  PROVE  IInv' /\ GivenUp
<1>0. TypeOK
  BY DEF IInv
<1>1. /\ links' = LinksAfterReady(Blocked, pid)
      /\ state' = [state EXCEPT ![pid] = "ready"]
      /\ ready_count' = Inc(ready_count)
      /\ sleeping_count' = sleeping_count
      /\ blocked_count' = Dec(blocked_count)
      /\ current_task' = current_task
      /\ remaining_ticks' = remaining_ticks
      /\ state[pid] = "blocked"
  BY DEF unblock_task, MakeReady
<1>2. links' \in LinkRecords /\ state' \in [Pids -> TaskStates]
  BY <1>0, <1>1, ReadyType
<1>3. \A t \in Pids : /\ state'[t] = "running" => state[t] = "running"
                      /\ state'[t] = "blocked" => state[t] = "blocked"
  BY <1>0, <1>1 DEF TypeOK
<1>4. RestOK'
  BY <1>0, <1>1, CountFacts, TypeSplit DEF unblock_task, MakeReady, RestOK
<1>5. blocked_count' >= Cardinality(BlockedSet(state'))
  <2>1. state'[pid] # "blocked" /\ state \in [Pids -> TaskStates]
    BY <1>0, <1>1 DEF TypeOK
  <2>2. Cardinality(BlockedSet(state')) <= Cardinality(BlockedSet(state)) - 1
    BY <2>1, <1>1, <1>2, <1>3, BlockedSetFacts, Zenon
  <2>3. Cardinality(BlockedSet(state')) \in Nat /\ Cardinality(BlockedSet(state)) \in Nat
    BY <2>1, <1>2, BlockedSetFacts
  <2>4. blocked_count >= Cardinality(BlockedSet(state)) /\ blocked_count \in Nat
    BY <1>0, PidAssumption, SchedulerAssumption
       DEF IInv, BlockedCountCovers, BlockedSet, TypeOK
  <2>5. blocked_count' = blocked_count - 1
    BY <2>2, <2>3, <2>4, <1>1 DEF Dec
  <2> QED  BY <2>2, <2>3, <2>4, <2>5
<1>6. ready_count' \in Counts /\ remaining_ticks' \in Slices
  BY <1>0, <1>1, CountFacts, TypeSplit
<1> QED  BY <1>1, <1>2, <1>3, <1>4, <1>5, <1>6, NoSwitch

\* block_task keeps the invariant; a task that blocks itself gives up the processor.
LEMMA BlockStep ==
  ASSUME IInv, NEW pid \in Pids, block_task(pid)
  PROVE  IInv' /\ GivenUp
<1> DEFINE st == [state EXCEPT ![pid] = "blocked"]
<1>0. TypeOK
  BY DEF IInv
<1>1. LinksAfterBlock(pid) \in LinkRecords
  BY <1>0, RemoveReadyType, AddType, QueueFacts, TypeSplit DEF LinksAfterBlock
<1>2. st \in [Pids -> TaskStates] /\ state \in [Pids -> TaskStates]
  BY <1>0 DEF TypeOK, TaskStates
<1>3. \A t \in Pids : st[t] = "running" => state[t] = "running" /\ t = current_task
  BY <1>0, SMTT(30) DEF TypeOK, IInv, RunningIsCurrent
<1>4. /\ blocked_count' = blocked_count + 1
      /\ blocked_count \in Nat
      /\ blocked_count' \in Counts
  <2>1. blocked_count' = Inc(blocked_count) /\ blocked_count < CountMod - 1
    BY DEF block_task
  <2> QED  BY <2>1, <1>0, PidAssumption, SchedulerAssumption DEF TypeOK, Inc, Counts
<1>5. RestOK'
  BY <1>0, <1>4, TypeSplit DEF block_task, RestOK
<1>6. blocked_count' >= Cardinality(BlockedSet(st))
  <2>1. \A t \in Pids : st[t] = "blocked" => state[t] = "blocked" \/ t = pid
    BY <1>0 DEF TypeOK
  <2>2. Cardinality(BlockedSet(st)) <= Cardinality(BlockedSet(state)) + 1
    BY <2>1, <1>2, BlockedSetFacts, Zenon
  <2>3. Cardinality(BlockedSet(st)) \in Nat /\ Cardinality(BlockedSet(state)) \in Nat
    BY <1>2, BlockedSetFacts, Zenon
  <2> QED  BY <2>2, <2>3, <1>4 DEF IInv, BlockedCountCovers, BlockedSet
<1>7. CASE current_task = pid
  <2>1. schedule_next_task(LinksAfterBlock(pid), st, ready_count, remaining_ticks)
    BY <1>7 DEF block_task
  <2>2. st[current_task] = "blocked"
    BY <1>0, <1>7 DEF TypeOK
  <2> HIDE DEF st
  <2>3. SwitchEffect(st)
    BY <2>1, <1>0, <1>1, <1>2, TypeSplit, ScheduleNextLemma
  <2> QED  BY <2>2, <2>3, <1>2, <1>3, <1>5, <1>6, AfterSwitch
<1>8. CASE current_task # pid
  <2>1. /\ links' = LinksAfterBlock(pid) /\ state' = st /\ ready_count' = ready_count
        /\ remaining_ticks' = remaining_ticks /\ current_task' = current_task
    BY <1>8, SMTT(30) DEF block_task
  <2> HIDE DEF st
  <2> QED  BY <2>1, <1>0, <1>1, <1>2, <1>3, <1>5, <1>6, TypeSplit, NoSwitch, SMTT(30)
<1> QED  BY <1>7, <1>8

\* The steps that move no task: a tick, a yield, the end of the timer handler
\* and a hang.
LEMMA QuietStep ==
  ASSUME IInv, links' \in LinkRecords, state' = state, ready_count' = ready_count,
         remaining_ticks' \in Slices, current_task' = current_task, RestOK',
         blocked_count' = blocked_count
  PROVE  IInv' /\ GivenUp
<1>1. state' \in [Pids -> TaskStates] /\ ready_count' \in Counts
  BY TypeSplit DEF IInv
<1>2. blocked_count' >= Cardinality(BlockedSet(state'))
  BY <1>1, FewerBlocked
<1> QED  BY <1>1, <1>2, NoSwitch

\* The timer and yield keep the invariant and take the processor from nobody.
LEMMA TimerSteps ==
  ASSUME IInv
  PROVE  /\ timer_tick_handler => IInv' /\ GivenUp
         /\ check_sleeping_tasks => IInv' /\ GivenUp
         /\ AccountTick => IInv' /\ GivenUp
         /\ yield => IInv' /\ GivenUp
         /\ Hangs => IInv' /\ GivenUp
<1> USE PidAssumption, SchedulerAssumption
<1>0. TypeOK /\ links \in LinkRecords /\ remaining_ticks \in Slices /\ RestOK
  BY TypeSplit DEF IInv
<1>1. ASSUME timer_tick_handler PROVE IInv' /\ GivenUp
  <2>1. tick_count' \in 0 .. MaxTick
    BY <1>0, <1>1, SMTT(30) DEF timer_tick_handler, NextTick, TypeOK
  <2>2. links.head[Sleeping] \in Pids \cup {NULL}
    BY <1>0, QueueFacts DEF LinkRecords
  <2>3. timer_task' \in Pids \cup {NULL, NoTimer}
    BY <1>1, <2>2 DEF timer_tick_handler
  <2>4. RestOK'
    BY <1>0, <1>1, <2>1, <2>3, SMTT(30) DEF timer_tick_handler, RestOK
  <2> QED  BY <1>0, <1>1, <2>4, QuietStep DEF timer_tick_handler
<1>2. ASSUME check_sleeping_tasks PROVE IInv' /\ GivenUp
  <2> DEFINE t == timer_task
  <2>0. t \in Pids
    BY <1>2, SMTT(30) DEF check_sleeping_tasks
  <2>1. timer_task' \in Pids \cup {NULL, NoTimer}
    BY <1>0, <1>2, <2>0, SMTT(30) DEF check_sleeping_tasks, LinkRecords
  <2>2. CASE tick_count >= wake_tick[t]
    <3>1. /\ links' = LinksAfterReady(Sleeping, t)
          /\ state' = [state EXCEPT ![t] = "ready"]
          /\ ready_count' = Inc(ready_count)
          /\ sleeping_count' = Dec(sleeping_count)
      BY <1>2, <2>2, SMTT(30) DEF check_sleeping_tasks
    <3>2. links' \in LinkRecords /\ state' \in [Pids -> TaskStates]
      BY <1>0, <2>0, <3>1, ReadyType
    <3>3. \A u \in Pids : /\ state'[u] = "running" => state[u] = "running"
                          /\ state'[u] = "blocked" => state[u] = "blocked"
      BY <1>0, <2>0, <3>1, SMTT(30) DEF TypeOK
    <3>4. ready_count' \in Counts /\ sleeping_count' \in Counts
      BY <1>0, <3>1, CountFacts, TypeSplit, SMTT(30) DEF RestOK
    <3>5. RestOK'
      BY <1>0, <1>2, <2>1, <3>4, SMTT(30) DEF check_sleeping_tasks, RestOK
    <3>6. blocked_count >= Cardinality(BlockedSet(state'))
      BY <3>2, <3>3, FewerBlocked
    <3> QED  BY <1>0, <1>2, <3>2, <3>3, <3>4, <3>5, <3>6, NoSwitch, SMTT(30) DEF check_sleeping_tasks
  <2>3. CASE ~(tick_count >= wake_tick[t])
    <3>1. UNCHANGED <<links, state, ready_count, sleeping_count>>
      BY <1>2, <2>3, SMTT(30) DEF check_sleeping_tasks
    <3>2. RestOK'
      BY <1>0, <1>2, <2>1, <3>1, SMTT(30) DEF check_sleeping_tasks, RestOK
    <3> QED  BY <1>0, <1>2, <3>1, <3>2, QuietStep, SMTT(30) DEF check_sleeping_tasks
  <2> QED  BY <2>2, <2>3
<1>3. ASSUME AccountTick PROVE IInv' /\ GivenUp
  <2> DEFINE rem == ConsumeTick(current_task)
  <2>1. rem \in Slices
    BY <1>0, SMTT(30) DEF ConsumeTick, Slices, TypeOK
  <2>2. /\ links' = links /\ state' = state /\ ready_count' = ready_count
        /\ current_task' = current_task
        /\ remaining_ticks' \in {rem, remaining_ticks}
    BY <1>3, ScheduleLemma, SMTT(30) DEF AccountTick
  <2>3. RestOK'
    BY <1>0, <1>3, SMTT(30) DEF AccountTick, RestOK
  <2> QED  BY <1>0, <1>3, <2>1, <2>2, <2>3, QuietStep, SMTT(30) DEF AccountTick
<1>4. ASSUME yield PROVE IInv' /\ GivenUp
  <2>1. RestOK'
    BY <1>0, <1>4 DEF yield, RestOK
  <2> QED  BY <1>0, <1>4, <2>1, ScheduleLemma, QuietStep DEF yield
<1>5. ASSUME Hangs PROVE IInv' /\ GivenUp
  <2>1. links' = [links EXCEPT !.hung = TRUE]
    BY <1>5 DEF Hangs
  <2>2. links' \in LinkRecords
    BY <1>0, <2>1, Zenon DEF LinkRecords
  <2>3. RestOK'
    BY <1>0, <1>5 DEF Hangs, RestOK
  <2> QED  BY <1>0, <1>5, <2>2, <2>3, QuietStep DEF Hangs
<1> QED  BY <1>1, <1>2, <1>3, <1>4, <1>5

\* Every step of the scheduler does.
LEMMA NextStep == IInv /\ [Next]_vars => IInv' /\ (GivenUp \/ UNCHANGED vars)
<1> SUFFICES ASSUME IInv, [Next]_vars PROVE IInv' /\ (GivenUp \/ UNCHANGED vars)
  OBVIOUS
<1>1. ASSUME NEW p \in Priorities, create_task(p) PROVE IInv' /\ GivenUp
  BY <1>1, CreateStep
<1>2. ASSUME NEW pid \in Terminable, terminate_task(pid) PROVE IInv' /\ GivenUp
  BY <1>2, TerminateStep, SchedulerAssumption
<1>3. ASSUME NEW ms \in SleepTimes, sleep_task(ms) PROVE IInv' /\ GivenUp
  BY <1>3, SleepStep
<1>4. ASSUME NEW pid \in Pids, wake_task(pid) PROVE IInv' /\ GivenUp
  BY <1>4, WakeStep
<1>5. ASSUME NEW pid \in Pids, block_task(pid) PROVE IInv' /\ GivenUp
  BY <1>5, BlockStep
<1>6. ASSUME NEW pid \in Pids, unblock_task(pid) PROVE IInv' /\ GivenUp
  BY <1>6, UnblockStep
<1>7. CASE UNCHANGED vars
  BY <1>7, SMTT(30) DEF vars, IInv, TypeOK, RunningIsCurrent, BlockedCountCovers
<1> QED  BY <1>1, <1>2, <1>3, <1>4, <1>5, <1>6, <1>7, TimerSteps DEF Next

\* The invariant holds in every state the scheduler reaches.
LEMMA InductiveInvariant == Spec => []IInv
<1>1. IInv /\ [Next]_vars => IInv'
  BY NextStep
<1> QED  BY <1>1, InitIInv, PTL DEF Spec

\* In every reachable state, for any number of tasks: the links of the queues
\* are tasks or NULL, even after a queue has been corrupted (add_task_to_queue,
\* remove_task_from_queue).
THEOREM SchedulerTypes == Spec => []TypeOK
BY InductiveInvariant, PTL DEF IInv

\* Only the current task is ever in TASK_STATE_RUNNING (switch_to_task demotes
\* the task it replaces).
THEOREM SchedulerInvariant == Spec => []RunningIsCurrent
BY InductiveInvariant, PTL DEF IInv

\* blocked_count is at least the number of blocked tasks, so the decrement in
\* unblock_task never wraps around, in executions in which block_task has not
\* been called 2^32 times.
THEOREM SchedulerCountsBlocked == Spec => []BlockedCountCovers
BY InductiveInvariant, PTL DEF IInv

\* No step of the scheduler takes the processor from a task that has not blocked,
\* gone to sleep or terminated: schedule() returns before it switches, so that
\* yield and the timer handler do not switch either.
THEOREM SchedulerNeverPreempts == Spec => SwitchOnlyWhenGivenUp
<1>1. IInv /\ [Next]_vars => IInv'
  BY NextStep
<1>2. IInv /\ [Next]_vars =>
        [current_task' # current_task =>
           state'[current_task] \in {"blocked", "sleeping", "terminated"}]_vars
  BY NextStep DEF GivenUp
<1> QED  BY <1>1, <1>2, InitIInv, PTL DEF Spec, SwitchOnlyWhenGivenUp

\* Creating, waking and unblocking tasks takes the processor from nobody
\* (create_task, wake_task, unblock_task, check_sleeping_tasks).
THEOREM SchedulerPreemptsOnlyWhenDue == Spec => LosesProcessorOnlyWhenDue
<1>1. IInv /\ [Next]_vars => IInv'
  BY NextStep
<1>2. IInv /\ [Next]_vars =>
        [current_task' # current_task =>
           \/ state'[current_task] \in {"blocked", "sleeping", "terminated"}
           \/ AccountTick /\ remaining_ticks'[current_task] = 0
           \/ yield]_vars
  BY NextStep DEF GivenUp
<1> QED  BY <1>1, <1>2, InitIInv, PTL DEF Spec, LosesProcessorOnlyWhenDue

=============================================================================
