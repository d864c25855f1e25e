---------------------------- MODULE MessageQueue ----------------------------
(***************************************************************************)
(* The message queues of kernel/message.c: a pool of queues, each with a   *)
(* mutex, a semaphore for its free and one for its used slots, and a list  *)
(* of messages for each of four priorities.                                *)
(*                                                                         *)
(* A task runs until it blocks (Scheduler, SwitchOnlyWhenGivenUp) and no   *)
(* code between locking and unlocking a queue's mutex blocks, so a call is *)
(* one action, or two when it waits for a slot in between, and the mutex   *)
(* is free whenever a call begins.  The two semaphores are those of        *)
(* Semaphore; a message is its message_id.                                 *)
(*                                                                         *)
(* The code waits only when flags & MESSAGE_FLAG_BLOCKING is not zero.     *)
(* The one definition of that flag in the tree (ipc/message.h:94) is 0, so *)
(* as built no call waits; the flag is a constant here and the waiting     *)
(* branches are modelled for the other values, which message.c is written  *)
(* for.                                                                    *)
(***************************************************************************)
EXTENDS WaitQueue, FiniteSets

CONSTANTS Slots,        \* MAX_MESSAGE_QUEUES slots of message_queue_pool, 1 .. n
          Destroyable,  \* the slots that are ever destroyed
          Sizes,        \* max_messages arguments, valid or not
          Priorities,   \* header.priority of the messages, valid or not
          NoTask,       \* owner 0
          MaxId,        \* ids that the model hands out
          MESSAGE_FLAG_BLOCKING

MaxMessages == 1000

MESSAGE_PRIORITY_NORMAL == 1

MESSAGE_PRIORITY_URGENT == 3

Levels == 0 .. MESSAGE_PRIORITY_URGENT

ASSUME MessageAssumption ==
  /\ IsFiniteSet(Tasks)
  /\ NoTask \notin Tasks
  /\ Slots \subseteq Nat \ {0}
  /\ Destroyable \subseteq Slots
  /\ Sizes \subseteq Nat
  /\ Priorities \subseteq Nat
  /\ MaxId \in Nat
  /\ MESSAGE_FLAG_BLOCKING \in Nat

VARIABLES live,           \* header.type is IPC_TYPE_MESSAGE_QUEUE
          owner,          \* the task that created the queue
          max_messages,
          message_count,
          messages,       \* the lists from head to tail, by priority
          free_slots,     \* value of the semaphore
          free_waiters,   \* its wait queue
          used_slots,
          used_waiters,
          next_message_id,
          pc,             \* "idle", "blocked" or "woken"
          op,             \* of a blocked or woken task: the call it is in
          leaked          \* slots taken by sends that then failed (history)

queueVars == <<live, owner, max_messages>>

vars == <<queueVars, message_count, messages, free_slots, free_waiters, used_slots,
          used_waiters, next_message_id, pc, op, leaked>>

NoMessages == [p \in Levels |-> <<>>]

NoCall == [kind |-> "none", q |-> 0, id |-> 0, level |-> 0]

Init ==
  /\ live = [q \in Slots |-> FALSE]
  /\ owner = [q \in Slots |-> NoTask]
  /\ max_messages = [q \in Slots |-> 0]
  /\ message_count = [q \in Slots |-> 0]
  /\ messages = [q \in Slots |-> NoMessages]
  /\ free_slots = [q \in Slots |-> 0]
  /\ free_waiters = [q \in Slots |-> <<>>]
  /\ used_slots = [q \in Slots |-> 0]
  /\ used_waiters = [q \in Slots |-> <<>>]
  /\ next_message_id = 1
  /\ pc = [t \in Tasks |-> "idle"]
  /\ op = [t \in Tasks |-> NoCall]
  /\ leaked = [q \in Slots |-> 0]

FreeQueues == {q \in Slots : ~live[q]}

find_free_message_queue == CHOOSE q \in FreeQueues : \A r \in FreeQueues : q <= r

\* The slots Q with max_messages n, no message and nobody waiting.
Reset(Q, n) ==
  /\ max_messages' = [q \in Slots |-> IF q \in Q THEN n ELSE max_messages[q]]
  /\ message_count' = [q \in Slots |-> IF q \in Q THEN 0 ELSE message_count[q]]
  /\ messages' = [q \in Slots |-> IF q \in Q THEN NoMessages ELSE messages[q]]
  /\ free_slots' = [q \in Slots |-> IF q \in Q THEN n ELSE free_slots[q]]
  /\ free_waiters' = [q \in Slots |-> IF q \in Q THEN <<>> ELSE free_waiters[q]]
  /\ used_slots' = [q \in Slots |-> IF q \in Q THEN 0 ELSE used_slots[q]]
  /\ used_waiters' = [q \in Slots |-> IF q \in Q THEN <<>> ELSE used_waiters[q]]
  /\ leaked' = [q \in Slots |-> IF q \in Q THEN 0 ELSE leaked[q]]

\* A mutex or a semaphore that cannot be created undoes what was done.
create_message_queue(t, n) ==
  LET q == find_free_message_queue
  IN  /\ pc[t] = "idle"
      /\ n \in 1 .. MaxMessages
      /\ FreeQueues # {}
      /\ live' = [live EXCEPT ![q] = TRUE]
      /\ owner' = [owner EXCEPT ![q] = t]
      /\ Reset({q}, n)
      /\ UNCHANGED <<next_message_id, pc, op>>

\* The internal function, on each of Q: the semaphores are destroyed, which
\* wakes every task that waits on them.
Destroy(Q) ==
  /\ live' = [q \in Slots |-> live[q] /\ q \notin Q]
  /\ owner' = [q \in Slots |-> IF q \in Q THEN NoTask ELSE owner[q]]
  /\ Reset(Q, 0)
  /\ pc' = Unblock(pc, UNION {WokenAll(free_waiters[q]) \cup WokenAll(used_waiters[q]) :
                                q \in Q})
  /\ UNCHANGED <<next_message_id, op>>

\* The public function.
destroy_message_queue(t, q) ==
  /\ pc[t] = "idle"
  /\ live[q]
  /\ owner[q] = t
  /\ Destroy({q})

Owned(pid) == {q \in Slots : live[q] /\ owner[q] = pid}

\* By any task.  (The call's name is that of both functions above; resolved
\* to the public one, it does nothing unless the caller is pid itself.)
cleanup_task_message_queues(pid) ==
  /\ \E t \in Tasks : pc[t] = "idle"
  /\ Owned(pid) # {}
  /\ Destroy(Owned(pid))

-----------------------------------------------------------------------------
(* Sending. *)

\* Mutant: a priority that is not one of the four is kept.
LevelUnchecked(p) == p

Level(p) == IF p > MESSAGE_PRIORITY_URGENT THEN MESSAGE_PRIORITY_NORMAL ELSE p

\* Mutant: the message is not announced.
EnqueueTellsNobody(t, q, id, level) ==
  /\ messages' = [messages EXCEPT ![q][level] = Append(@, id)]
  /\ message_count' = [message_count EXCEPT ![q] = @ + 1]
  /\ pc' = [pc EXCEPT ![t] = "idle"]
  /\ UNCHANGED <<used_slots, used_waiters, leaked>>

\* The end of a send by t: enqueue_message, which posts used_slots.  In a slot
\* that was destroyed the semaphore handle is NULL and the post fails.
enqueue_message(t, q, id, level) ==
  /\ messages' = [messages EXCEPT ![q][level] = Append(@, id)]
  /\ message_count' = [message_count EXCEPT ![q] = @ + 1]
  /\ used_slots' = [used_slots EXCEPT
                      ![q] = IF live[q] /\ used_waiters[q] = <<>> THEN @ + 1 ELSE @]
  /\ used_waiters' = [used_waiters EXCEPT ![q] = AfterWakeFirst(@)]
  /\ pc' = Unblock([pc EXCEPT ![t] = "idle"], WokenFirst(used_waiters[q]))
  /\ UNCHANGED leaked

\* The node cannot be allocated: the slot that was taken is not given back.
EnqueueFails(t, q) ==
  /\ MallocMayFail
  /\ leaked' = [leaked EXCEPT ![q] = @ + 1]
  /\ pc' = [pc EXCEPT ![t] = "idle"]
  /\ UNCHANGED <<messages, message_count, used_slots, used_waiters>>

send_message(t, q, p) ==
  /\ pc[t] = "idle"
  /\ live[q]
  /\ next_message_id <= MaxId
  /\ next_message_id' = next_message_id + 1
  /\ free_slots[q] > 0
  /\ free_slots' = [free_slots EXCEPT ![q] = @ - 1]
  /\ \/ enqueue_message(t, q, next_message_id, Level(p))
     \/ EnqueueFails(t, q)
  /\ UNCHANGED <<queueVars, free_waiters, op>>

\* No free slot: semaphore_trywait fails.
SendRefused(t, q) ==
  /\ pc[t] = "idle"
  /\ live[q]
  /\ next_message_id <= MaxId
  /\ next_message_id' = next_message_id + 1
  /\ free_slots[q] = 0
  /\ UNCHANGED <<queueVars, message_count, messages, free_slots, free_waiters,
                 used_slots, used_waiters, pc, op, leaked>>

\* No free slot: semaphore_wait blocks.
SendWaits(t, q, p) ==
  /\ pc[t] = "idle"
  /\ live[q]
  /\ next_message_id <= MaxId
  /\ next_message_id' = next_message_id + 1
  /\ free_slots[q] = 0
  /\ MESSAGE_FLAG_BLOCKING # 0
  /\ \E w \in AddWaiterOutcomes(free_waiters[q], t) :
       free_waiters' = [free_waiters EXCEPT ![q] = w]
  /\ pc' = [pc EXCEPT ![t] = "blocked"]
  /\ op' = [op EXCEPT ![t] = [kind |-> "send", q |-> q, id |-> next_message_id,
                              level |-> Level(p)]]
  /\ UNCHANGED <<queueVars, message_count, messages, free_slots, used_slots,
                 used_waiters, leaked>>

\* semaphore_wait returns 0 and the send goes on with the slot it was called
\* for, whatever that slot is now.
SendResumes(t) ==
  /\ pc[t] = "woken"
  /\ op[t].kind = "send"
  /\ \/ enqueue_message(t, op[t].q, op[t].id, op[t].level)
     \/ EnqueueFails(t, op[t].q)
  /\ op' = [op EXCEPT ![t] = NoCall]
  /\ UNCHANGED <<queueVars, free_slots, free_waiters, next_message_id>>

\* The reply is numbered and, so far, sent nowhere.
reply_to_message(t) ==
  /\ pc[t] = "idle"
  /\ next_message_id <= MaxId
  /\ next_message_id' = next_message_id + 1
  /\ UNCHANGED <<queueVars, message_count, messages, free_slots, free_waiters,
                 used_slots, used_waiters, pc, op, leaked>>

-----------------------------------------------------------------------------
(* Receiving. *)

NonEmpty(q) == {p \in Levels : messages[q][p] # <<>>}

\* Mutant: the scan starts at the lowest priority.
LowestFirst(q) == CHOOSE p \in NonEmpty(q) : \A r \in NonEmpty(q) : p <= r

HighestPriority(q) == CHOOSE p \in NonEmpty(q) : \A r \in NonEmpty(q) : r <= p

\* Mutant: the free slot is not signalled.
DequeueKeepsSlot(t, q) ==
  /\ NonEmpty(q) # {}
  /\ messages' = [messages EXCEPT ![q][HighestPriority(q)] = Tail(@)]
  /\ message_count' = [message_count EXCEPT ![q] = @ - 1]
  /\ pc' = [pc EXCEPT ![t] = "idle"]
  /\ UNCHANGED <<free_slots, free_waiters>>

\* The end of a receive by t: dequeue_message, which posts free_slots.
dequeue_message(t, q) ==
  \/ /\ NonEmpty(q) = {}
     /\ pc' = [pc EXCEPT ![t] = "idle"]
     /\ UNCHANGED <<messages, message_count, free_slots, free_waiters>>
  \/ /\ NonEmpty(q) # {}
     /\ messages' = [messages EXCEPT ![q][HighestPriority(q)] = Tail(@)]
     /\ message_count' = [message_count EXCEPT ![q] = @ - 1]
     /\ free_slots' = [free_slots EXCEPT
                         ![q] = IF live[q] /\ free_waiters[q] = <<>> THEN @ + 1 ELSE @]
     /\ free_waiters' = [free_waiters EXCEPT ![q] = AfterWakeFirst(@)]
     /\ pc' = Unblock([pc EXCEPT ![t] = "idle"], WokenFirst(free_waiters[q]))

\* No queue is ever private: its flags are 0 and nothing sets them.  A receive
\* that finds no message and does not wait changes nothing.
receive_message(t, q) ==
  /\ pc[t] = "idle"
  /\ live[q]
  /\ used_slots[q] > 0
  /\ used_slots' = [used_slots EXCEPT ![q] = @ - 1]
  /\ dequeue_message(t, q)
  /\ UNCHANGED <<queueVars, used_waiters, next_message_id, op, leaked>>

ReceiveWaits(t, q) ==
  /\ pc[t] = "idle"
  /\ live[q]
  /\ used_slots[q] = 0
  /\ MESSAGE_FLAG_BLOCKING # 0
  /\ \E w \in AddWaiterOutcomes(used_waiters[q], t) :
       used_waiters' = [used_waiters EXCEPT ![q] = w]
  /\ pc' = [pc EXCEPT ![t] = "blocked"]
  /\ op' = [op EXCEPT ![t] = [kind |-> "receive", q |-> q, id |-> 0, level |-> 0]]
  /\ UNCHANGED <<queueVars, message_count, messages, free_slots, free_waiters,
                 used_slots, next_message_id, leaked>>

ReceiveResumes(t) ==
  /\ pc[t] = "woken"
  /\ op[t].kind = "receive"
  /\ dequeue_message(t, op[t].q)
  /\ op' = [op EXCEPT ![t] = NoCall]
  /\ UNCHANGED <<queueVars, used_slots, used_waiters, next_message_id, leaked>>

Next ==
  \/ \E t \in Tasks, n \in Sizes : create_message_queue(t, n)
  \/ \E t \in Tasks, q \in Destroyable : destroy_message_queue(t, q)
  \/ \E pid \in Tasks : /\ Owned(pid) \subseteq Destroyable
                        /\ cleanup_task_message_queues(pid)
  \/ \E t \in Tasks, q \in Slots, p \in Priorities :
       \/ send_message(t, q, p)
       \/ SendWaits(t, q, p)
  \/ \E t \in Tasks, q \in Slots :
       \/ SendRefused(t, q)
       \/ receive_message(t, q)
       \/ ReceiveWaits(t, q)
  \/ \E t \in Tasks : \/ SendResumes(t)
                     \/ ReceiveResumes(t)
                     \/ reply_to_message(t)

Spec == Init /\ [][Next]_vars

-----------------------------------------------------------------------------
(* Properties. *)

Total(q) == Len(messages[q][0]) + Len(messages[q][1]) + Len(messages[q][2])
              + Len(messages[q][3])

Woken(kind, q) == {t \in Tasks : pc[t] = "woken" /\ op[t].kind = kind /\ op[t].q = q}

\* Type invariant.
TypeOK ==
  /\ live \in [Slots -> BOOLEAN]
  /\ owner \in [Slots -> Tasks \cup {NoTask}]
  /\ max_messages \in [Slots -> 0 .. MaxMessages]
  /\ message_count \in [Slots -> Nat]
  /\ messages \in [Slots -> [Levels -> Seq(1 .. MaxId)]]
  /\ free_slots \in [Slots -> Nat] /\ used_slots \in [Slots -> Nat]
  /\ free_waiters \in [Slots -> Seq(Tasks)] /\ used_waiters \in [Slots -> Seq(Tasks)]
  /\ next_message_id \in 1 .. MaxId + 1
  /\ pc \in [Tasks -> {"idle", "blocked", "woken"}]
  /\ op \in [Tasks -> [kind: {"none", "send", "receive"}, q: Slots \cup {0},
                       id: 0 .. MaxId, level: Levels]]
  /\ leaked \in [Slots -> Nat]

\* The queues that no task can wait on while they are destroyed: all of them
\* as built, where nobody waits, and otherwise those that are not destroyed.
Sound == IF MESSAGE_FLAG_BLOCKING = 0 THEN Slots ELSE Slots \ Destroyable

\* Every slot of a queue is free, given to a woken sender, filled with a
\* message or lost to a failed send: so a queue never holds more than
\* max_messages, and no slot is lost in any other way.  Every message is
\* announced exactly once, by a used slot or to a woken receiver: a receiver
\* that got through its semaphore never finds the queue empty, and no message
\* is left that nobody was told of (enqueue_message, dequeue_message).
SlotsAccounted ==
  \A q \in Sound :
    /\ free_slots[q] + Cardinality(Woken("send", q)) + message_count[q] + leaked[q]
         = max_messages[q]
    /\ used_slots[q] + Cardinality(Woken("receive", q)) = message_count[q]
    /\ message_count[q] = Total(q)

\* Senders and receivers do not wait for each other: when both wait on a
\* queue that has a slot left, some woken task is about to use it.
NotBothStuck ==
  \A q \in Sound :
    free_waiters[q] # <<>> /\ used_waiters[q] # <<>> /\ leaked[q] < max_messages[q]
      => Woken("send", q) \cup Woken("receive", q) # {}

\* The queue is a bounded channel that delivers by priority, in FIFO order
\* within a priority: every step is one of PriorityChannel or leaves the
\* content alone.
Channel ==
  INSTANCE PriorityChannel WITH Queues <- Sound, Messages <- 1 .. MaxId,
                                Sizes <- Sizes \cap (1 .. MaxMessages),
                                capacity <- [q \in Sound |-> max_messages[q]],
                                content <- [q \in Sound |-> messages[q]]

IsPriorityChannel == Channel!Spec

=============================================================================
