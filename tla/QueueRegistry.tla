--------------------------- MODULE QueueRegistry ---------------------------
(***************************************************************************)
(* The registry of kernel/ipc/message/queue_registry.c: for each task the  *)
(* queues registered with it, the first of which is its default.           *)
(* task_registry is the sequence of the entries in use.                    *)
(*                                                                         *)
(* recv_queue_idx and send_queue_idx are only ever assigned 0, so every    *)
(* lookup mode finds the first queue of the entry.                         *)
(***************************************************************************)
EXTENDS Integers, Sequences

CONSTANTS MAX_TASK_QUEUES, MAX_REGISTERED_TASKS, NoQueue

\* The place where a search from the first one on stops.
First(places) == CHOOSE i \in places : \A j \in places : i <= j

\* memmove: everything behind place i moves down by one.
MovedDown(s, i) == SubSeq(s, 1, i - 1) \o SubSeq(s, i + 1, Len(s))

\* The index of a task's entry, 0 when it has none (-1 in the code).
find_registry_entry(registry, task_id) ==
  LET found == {i \in DOMAIN registry : registry[i].task_id = task_id}
  IN  IF found = {} THEN 0 ELSE First(found)

\* Mutant: off by one at the limit of entries.
RoomForOneMore(registry, task_id) ==
  IF \/ find_registry_entry(registry, task_id) # 0
     \/ Len(registry) > MAX_REGISTERED_TASKS
  THEN registry
  ELSE Append(registry, [task_id |-> task_id, queues |-> <<>>])

find_or_create_registry_entry(registry, task_id) ==
  IF \/ find_registry_entry(registry, task_id) # 0
     \/ Len(registry) >= MAX_REGISTERED_TASKS
  THEN registry
  ELSE Append(registry, [task_id |-> task_id, queues |-> <<>>])

\* Mutant: a new queue becomes the default.
RegisteredInFront(registry, task_id, queue) ==
  LET new == find_or_create_registry_entry(registry, task_id)
      idx == find_registry_entry(new, task_id)
      queues == new[idx].queues
  IN  IF \/ idx = 0
         \/ \E i \in DOMAIN queues : queues[i] = queue
         \/ Len(queues) >= MAX_TASK_QUEUES
      THEN new
      ELSE [new EXCEPT ![idx].queues = <<queue>> \o @]

\* The registry after register_task_queue: unchanged but for the new entry
\* when the queue is registered already or the entry is full.
Registered(registry, task_id, queue) ==
  LET new == find_or_create_registry_entry(registry, task_id)
      idx == find_registry_entry(new, task_id)
      queues == new[idx].queues
  IN  IF \/ idx = 0
         \/ \E i \in DOMAIN queues : queues[i] = queue
         \/ Len(queues) >= MAX_TASK_QUEUES
      THEN new
      ELSE [new EXCEPT ![idx].queues = Append(@, queue)]

Unregistered(registry, task_id, queue) ==
  LET idx == find_registry_entry(registry, task_id)
      found == {i \in DOMAIN registry[idx].queues : registry[idx].queues[i] = queue}
  IN  IF idx = 0 \/ found = {} THEN registry
      ELSE [registry EXCEPT ![idx].queues = MovedDown(@, First(found))]

\* Mutant: the count is decremented and the entries are not moved.
DropsLastEntry(registry, task_id) ==
  IF find_registry_entry(registry, task_id) = 0 THEN registry
  ELSE SubSeq(registry, 1, Len(registry) - 1)

\* The entries behind the task's own are moved down by one.
WithoutEntry(registry, task_id) ==
  LET idx == find_registry_entry(registry, task_id)
  IN  IF idx = 0 THEN registry ELSE MovedDown(registry, idx)

find_task_queue(registry, task_id) ==
  LET idx == find_registry_entry(registry, task_id)
  IN  IF idx = 0 \/ registry[idx].queues = <<>> THEN NoQueue
      ELSE Head(registry[idx].queues)

\* Whether one more queue can be registered for a task.
HasRoom(registry, task_id) ==
  LET idx == find_registry_entry(registry, task_id)
  IN  IF idx = 0 THEN Len(registry) < MAX_REGISTERED_TASKS
      ELSE Len(registry[idx].queues) < MAX_TASK_QUEUES

\* Every task with every queue it can be found by.
Registrations(registry) ==
  UNION {{<<registry[i].task_id, registry[i].queues[j]>> :
           j \in DOMAIN registry[i].queues} : i \in DOMAIN registry}

=============================================================================
