---------------------------- MODULE MessageRing ----------------------------
(***************************************************************************)
(* The buffer of one queue of kernel/ipc/message/message.c: a ring of      *)
(* messages between head and tail with a semaphore that counts the free    *)
(* and one that counts the used places.  Every operator maps a queue to    *)
(* the queue that a locked section of message.c leaves behind.             *)
(*                                                                         *)
(* A message is its priority, sender, receiver and whether its flags make  *)
(* it urgent.  A place that holds no queued message holds NoMessage: the   *)
(* code leaves an old copy there that it never reads.  The counters        *)
(* high_priority_count and urgent_priority_count are only ever printed and *)
(* are left out.                                                           *)
(***************************************************************************)
EXTENDS Integers, Sequences

CONSTANT NoMessage

MESSAGE_PRIORITY_HIGH == 2

MESSAGE_PRIORITY_URGENT == 3

Lesser(a, b) == IF a < b THEN a ELSE b

NewQueue(max) ==
  [max_size |-> max, messages |-> [i \in 0 .. max - 1 |-> NoMessage],
   head |-> 0, tail |-> 0, current_size |-> 0,
   msg_available |-> 0, space_available |-> max]

\* The message i places behind the head.
At(queue, i) == queue.messages[(queue.head + i) % queue.max_size]

\* The queued messages in the order in which they are received.
Contents(queue) == [i \in 1 .. queue.current_size |-> At(queue, i - 1)]

semaphore_post(queue, sem) ==
  [queue EXCEPT ![sem] = Lesser(@ + 1, queue.max_size)]

IsFull(queue) == queue.current_size >= queue.max_size

\* An urgent message is placed in front of the head.
InsertAtHead(queue, message) ==
  LET prev_head == IF queue.head > 0 THEN queue.head - 1 ELSE queue.max_size - 1
  IN  [queue EXCEPT !.head = prev_head, !.messages[prev_head] = message,
                    !.current_size = @ + 1]

\* Mutant: the walk also passes messages of the same priority.
OvertakesEquals(queue, priority) ==
  LET Behind(i) == queue.messages[(queue.tail - 1 - i) % queue.max_size].priority
  IN  IF priority \in {MESSAGE_PRIORITY_HIGH, MESSAGE_PRIORITY_URGENT}
      THEN CHOOSE n \in 0 .. queue.current_size :
             /\ \A i \in 0 .. n - 1 : Behind(i) <= priority
             /\ n < queue.current_size => Behind(n) > priority
      ELSE 0

\* How many messages, counted from the tail, a message of this priority
\* overtakes.
Overtaken(queue, priority) ==
  LET Behind(i) == queue.messages[(queue.tail - 1 - i) % queue.max_size].priority
  IN  IF priority \in {MESSAGE_PRIORITY_HIGH, MESSAGE_PRIORITY_URGENT}
      THEN CHOOSE n \in 0 .. queue.current_size :
             /\ \A i \in 0 .. n - 1 : Behind(i) < priority
             /\ n < queue.current_size => Behind(n) >= priority
      ELSE 0

\* The overtaken messages are moved one place towards the tail.
insert_message_by_priority(queue, message) ==
  LET max == queue.max_size
      count == Overtaken(queue, message.priority)
      insert_pos == (queue.tail - count) % max
      moved == {(queue.tail - i) % max : i \in 0 .. count - 1}
  IN  [queue EXCEPT
         !.messages = [p \in 0 .. max - 1 |->
                         IF p = insert_pos THEN message
                         ELSE IF p \in moved THEN @[(p - 1) % max] ELSE @[p]],
         !.tail = (@ + 1) % max,
         !.current_size = @ + 1]

\* What send_message does once it has a place: it hands on a used place, or
\* gives the free one back when the queue is full.
PutMessage(queue, message) ==
  IF IsFull(queue) THEN semaphore_post(queue, "space_available")
  ELSE semaphore_post(IF message.urgent THEN InsertAtHead(queue, message)
                      ELSE insert_message_by_priority(queue, message),
                      "msg_available")

\* What receive_message does once it has been promised a message.
TakeMessage(queue) ==
  IF queue.current_size > 0
  THEN semaphore_post([queue EXCEPT !.messages[queue.head] = NoMessage,
                                    !.head = (@ + 1) % queue.max_size,
                                    !.current_size = @ - 1],
                      "space_available")
  ELSE semaphore_post(queue, "msg_available")

\* Mutant: the tail stays where it is.
RemoveKeepsTail(queue, j) ==
  LET max == queue.max_size
      last == queue.current_size - 1
      moved == {(queue.head + k) % max : k \in j .. last - 1}
  IN  [queue EXCEPT
         !.messages = [p \in 0 .. max - 1 |->
                         IF p \in moved THEN @[(p + 1) % max]
                         ELSE IF p = (queue.head + last) % max THEN NoMessage ELSE @[p]],
         !.current_size = @ - 1]

\* cleanup_task_messages takes out the message j places behind the head.
RemoveAt(queue, j) ==
  LET max == queue.max_size
      last == queue.current_size - 1
      moved == {(queue.head + k) % max : k \in j .. last - 1}
  IN  [queue EXCEPT
         !.messages = [p \in 0 .. max - 1 |->
                         IF p \in moved THEN @[(p + 1) % max]
                         ELSE IF p = (queue.head + last) % max THEN NoMessage ELSE @[p]],
         !.tail = IF @ > 0 THEN @ - 1 ELSE max - 1,
         !.current_size = @ - 1]

Involves(message, pid) == message.sender = pid \/ message.receiver = pid

\* One turn of the loop over a queue that has been searched up to place j.  A
\* turn that removes a message looks at the same place again.
Turn(s, pid) ==
  IF Involves(At(s.q, s.j), pid) THEN [q |-> RemoveAt(s.q, s.j), j |-> s.j]
  ELSE [q |-> s.q, j |-> s.j + 1]

Purge(queue, pid) ==
  LET after[n \in 0 .. queue.current_size] ==
        IF n = 0 THEN [q |-> queue, j |-> 0] ELSE Turn(after[n - 1], pid)
  IN  after[queue.current_size].q

\* Mutant: the semaphores are left as they were.
CleanKeepsCounts(queue, pid) == Purge(queue, pid)

\* The two semaphores are made anew when a message was removed.
CleanQueue(queue, pid) ==
  LET purged == Purge(queue, pid)
  IN  IF purged.current_size = queue.current_size THEN queue
      ELSE [purged EXCEPT !.msg_available = purged.current_size,
                          !.space_available = purged.max_size - purged.current_size]

=============================================================================
