--------------------------- MODULE MessageService ---------------------------
(***************************************************************************)
(* The message queues of kernel/ipc/message/message.c together with the    *)
(* registry that replies are routed by.  The two semaphores of a queue,    *)
(* with their time limits, are used by message.c and not defined anywhere  *)
(* in the tree with these arguments: they are external.                    *)
(*                                                                         *)
(* A task runs until it blocks (Scheduler, SwitchOnlyWhenGivenUp) and the  *)
(* sections under a queue's lock do not block, so a call is one action, or *)
(* three when it waits: it starts to wait, a semaphore grants it a place,  *)
(* and later it runs on.  The flag that makes a call wait is a constant,   *)
(* as in MessageQueue.                                                     *)
(*                                                                         *)
(* A caller passes queues that exist and destroys none that a call is in.  *)
(***************************************************************************)
EXTENDS MessageRing, QueueRegistry, FiniteSets

CONSTANTS Queues,       \* addresses of queues, used again after kfree
          Tasks,
          MAX_QUEUES,
          Capacity,     \* max_messages of the queues
          Priorities,   \* of the messages that are sent
          Workloads,    \* the queues and tasks that take part, see Init
          MESSAGE_FLAG_BLOCKING

ASSUME ServiceAssumption ==
  /\ IsFiniteSet(Tasks) /\ IsFiniteSet(Queues) /\ NoQueue \notin Queues
  /\ MAX_QUEUES \in Nat \ {0}
  /\ MAX_TASK_QUEUES \in Nat \ {0} /\ MAX_REGISTERED_TASKS \in Nat \ {0}
  /\ Capacity \in [Queues -> Nat \ {0}]
  /\ Priorities \subseteq 0 .. MESSAGE_PRIORITY_URGENT
  /\ Workloads \subseteq [queues : SUBSET Queues, callers : SUBSET Tasks,
                          receivers : SUBSET Tasks, owners : SUBSET Tasks,
                          priorities : SUBSET Priorities]
  /\ MESSAGE_FLAG_BLOCKING \in Nat
  /\ NoMessage \notin [priority : Nat, sender : Tasks, receiver : Tasks, urgent : BOOLEAN]

VARIABLES load,            \* who takes part, chosen at the start
          message_queues,  \* the addresses of the queues there are
          queue,           \* the queue at each address
          task_registry,
          pc,              \* "idle", "waiting" or "granted"
          call,            \* of a task that is not idle: the call it is in
          claims,          \* registrations that the calls ask for (history)
          allowed,         \* registrations that the calls can explain (history)
          raced,           \* cleanup reset a semaphore under a call (history)
          lost             \* a task ended with a place it was granted (history)

vars == <<load, message_queues, queue, task_registry, pc, call, claims, allowed, raced,
          lost>>

Live == {message_queues[i] : i \in DOMAIN message_queues}

Messages == [priority : Priorities \union {MESSAGE_PRIORITY_HIGH},
             sender : Tasks, receiver : Tasks, urgent : BOOLEAN]

NoCall == [op |-> "none"]

Calls == {NoCall} \union [op : {"receive"}, queue : Queues]
         \union [op : {"send"}, queue : Queues, message : Messages]

Init ==
  /\ load \in Workloads
  /\ message_queues = <<>>
  /\ queue = [q \in Queues |-> NewQueue(Capacity[q])]
  /\ task_registry = <<>>
  /\ pc = [t \in Tasks |-> "idle"]
  /\ call = [t \in Tasks |-> NoCall]
  /\ claims = {}
  /\ allowed = {}
  /\ raced = FALSE
  /\ lost = FALSE

InCall(q) == {t \in Tasks : pc[t] # "idle" /\ call[t].queue = q}

Granted(q, op) == {t \in InCall(q) : pc[t] = "granted" /\ call[t].op = op}

(***************************************************************************)
(* Queues and the registry                                                 *)
(***************************************************************************)

\* With no memory or no room in message_queues everything is undone.
create_message_queue(q) ==
  /\ q \in load.queues \ Live
  /\ Len(message_queues) < MAX_QUEUES
  /\ message_queues' = Append(message_queues, q)
  /\ queue' = [queue EXCEPT ![q] = NewQueue(Capacity[q])]
  /\ UNCHANGED <<load, pc, call, raced, lost>>

\* message.h has the new queue registered for the task that calls, which can be
\* any that uses the registry; the code registers it for none.
CreateUnregistered(q) ==
  /\ create_message_queue(q)
  /\ allowed' = allowed \union (load.owners \X {q})
  /\ UNCHANGED <<task_registry, claims>>

\* A registration that finds no room has no effect, and the caller is not told.
register_task_queue(t, q) ==
  /\ task_registry' = Registered(task_registry, t, q)
  /\ claims' = claims \union
       IF HasRoom(task_registry, t) \/ <<t, q>> \in Registrations(task_registry)
       THEN {<<t, q>>} ELSE {}
  /\ allowed' = allowed \union {<<t, q>>}

create_task_message_queue(t, q) ==
  create_message_queue(q) /\ register_task_queue(t, q)

Register(t, q) ==
  /\ q \in Live
  /\ register_task_queue(t, q)
  /\ UNCHANGED <<load, message_queues, queue, pc, call, raced, lost>>

unregister_task_queue(t, q) ==
  /\ task_registry' = Unregistered(task_registry, t, q)
  /\ claims' = claims \ {<<t, q>>}
  /\ allowed' = allowed \ {<<t, q>>}
  /\ UNCHANGED <<load, message_queues, queue, pc, call, raced, lost>>

cleanup_task_queues(t) ==
  /\ task_registry' = WithoutEntry(task_registry, t)
  /\ claims' = {c \in claims : c[1] # t}
  /\ allowed' = {c \in allowed : c[1] # t}
  /\ UNCHANGED <<load, message_queues, queue, pc, call, raced, lost>>

\* The last queue takes the freed index.  The registry is not told; message.h
\* has the queue unregistered, so that nobody can count on the registration.
destroy_message_queue(q) ==
  /\ q \in Live
  /\ InCall(q) = {}
  /\ LET n == Len(message_queues)
         index == CHOOSE i \in 1 .. n : message_queues[i] = q
     IN  message_queues' = SubSeq([message_queues EXCEPT ![index] = message_queues[n]],
                                  1, n - 1)
  /\ queue' = [queue EXCEPT ![q] = NewQueue(Capacity[q])]
  /\ claims' = {c \in claims : c[2] # q}
  /\ allowed' = {c \in allowed : c[2] # q \/ c \in Registrations(task_registry)}
  /\ UNCHANGED <<load, task_registry, pc, call, raced, lost>>

(***************************************************************************)
(* Calls.  A call that need not wait is one action; a send that finds no   *)
(* place, or a receive that finds no message, returns and changes nothing. *)
(***************************************************************************)

\* A call that may wait stands in semaphore_wait until it is granted a
\* place; the queue it uses was chosen before.
StartWaiting(t, c) ==
  /\ MESSAGE_FLAG_BLOCKING # 0
  /\ pc' = [pc EXCEPT ![t] = "waiting"]
  /\ call' = [call EXCEPT ![t] = c]
  /\ UNCHANGED queue

send_message(t, q, message) ==
  /\ pc[t] = "idle"
  /\ \/ StartWaiting(t, [op |-> "send", queue |-> q, message |-> message])
     \/ /\ queue[q].space_available > 0
        /\ queue' = [queue EXCEPT ![q] =
             PutMessage([queue[q] EXCEPT !.space_available = @ - 1], message)]
        /\ UNCHANGED <<pc, call>>
  /\ UNCHANGED <<load, message_queues, task_registry, claims, allowed, raced, lost>>

receive_message(t, q) ==
  /\ pc[t] = "idle"
  /\ \/ StartWaiting(t, [op |-> "receive", queue |-> q])
     \/ /\ queue[q].msg_available > 0
        /\ queue' = [queue EXCEPT ![q] = TakeMessage([queue[q] EXCEPT !.msg_available = @ - 1])]
        /\ UNCHANGED <<pc, call>>
  /\ UNCHANGED <<load, message_queues, task_registry, claims, allowed, raced, lost>>

\* The queue a reply is sent to: the default queue of the task that sent the
\* original, or else the first queue there is.
ReplyQueue(sender) ==
  LET target == find_task_queue(task_registry, sender)
  IN  IF target # NoQueue THEN target
      ELSE IF message_queues # <<>> THEN message_queues[1] ELSE NoQueue

\* A registered queue that was destroyed is memory that was freed: the model
\* takes no step then.
reply_to_message(t, sender, urgent) ==
  /\ ReplyQueue(sender) \in Live
  /\ send_message(t, ReplyQueue(sender),
       [priority |-> MESSAGE_PRIORITY_HIGH, sender |-> t, receiver |-> sender,
        urgent |-> urgent])

\* External: a semaphore that is not zero lets a waiting task pass.
Grant(t) ==
  LET c == call[t]
      sem == IF c.op = "send" THEN "space_available" ELSE "msg_available"
  IN  /\ pc[t] = "waiting"
      /\ queue[c.queue][sem] > 0
      /\ queue' = [queue EXCEPT ![c.queue][sem] = @ - 1]
      /\ pc' = [pc EXCEPT ![t] = "granted"]
      /\ UNCHANGED <<load, message_queues, task_registry, call, claims, allowed, raced, lost>>

TimesOut(t) ==
  /\ pc[t] = "waiting"
  /\ pc' = [pc EXCEPT ![t] = "idle"]
  /\ call' = [call EXCEPT ![t] = NoCall]
  /\ UNCHANGED <<load, message_queues, queue, task_registry, claims, allowed, raced, lost>>

\* The task runs again and finishes its call.
RunsOn(t) ==
  LET c == call[t]
  IN  /\ pc[t] = "granted"
      /\ queue' = [queue EXCEPT ![c.queue] =
           IF c.op = "send" THEN PutMessage(@, c.message) ELSE TakeMessage(@)]
      /\ pc' = [pc EXCEPT ![t] = "idle"]
      /\ call' = [call EXCEPT ![t] = NoCall]
      /\ UNCHANGED <<load, message_queues, task_registry, claims, allowed, raced, lost>>

\* A task has ended.  The call it was in, if any, goes no further.
cleanup_task_messages(pid) ==
  /\ queue' = [q \in Queues |-> IF q \in Live THEN CleanQueue(queue[q], pid) ELSE queue[q]]
  /\ pc' = [pc EXCEPT ![pid] = "idle"]
  /\ call' = [call EXCEPT ![pid] = NoCall]
  /\ raced' = (raced \/ \E q \in Live :
       /\ queue'[q].current_size # queue[q].current_size
       /\ (Granted(q, "send") \union Granted(q, "receive")) \ {pid} # {})
  /\ lost' = (lost \/ pc[pid] = "granted")
  /\ UNCHANGED <<load, message_queues, task_registry, claims, allowed>>

Next ==
  \/ \E q \in load.queues :
       CreateUnregistered(q) \/ destroy_message_queue(q)
  \/ \E t \in load.owners :
       \/ cleanup_task_queues(t)
       \/ \E q \in load.queues :
            create_task_message_queue(t, q) \/ Register(t, q) \/ unregister_task_queue(t, q)
  \/ \E pid \in load.callers \union load.receivers \union load.owners :
       cleanup_task_messages(pid)
  \/ \E t \in load.callers :
       \/ Grant(t) \/ TimesOut(t) \/ RunsOn(t)
       \/ \E s \in load.owners, urgent \in BOOLEAN : reply_to_message(t, s, urgent)
       \/ \E q \in Live : receive_message(t, q)
       \/ \E q \in Live, p \in load.priorities, r \in load.receivers, urgent \in BOOLEAN :
            send_message(t, q, [priority |-> p, sender |-> t, receiver |-> r,
                                urgent |-> urgent])

Spec == Init /\ [][Next]_vars

(***************************************************************************)
(* Properties                                                              *)
(***************************************************************************)

Rings(max) ==
  [max_size : {max}, messages : [0 .. max - 1 -> Messages \union {NoMessage}],
   head : 0 .. max - 1, tail : 0 .. max - 1,
   current_size : 0 .. max, msg_available : 0 .. max, space_available : 0 .. max]

\* Type invariant: indices, counts and the registry stay within their limits.
TypeOK ==
  /\ load \in Workloads
  /\ message_queues \in Seq(Queues) /\ Len(message_queues) <= MAX_QUEUES
  /\ queue = [q \in Queues |-> queue[q]] /\ \A q \in Queues : queue[q] \in Rings(Capacity[q])
  /\ task_registry \in Seq([task_id : Tasks, queues : Seq(Queues)])
  /\ Len(task_registry) <= MAX_REGISTERED_TASKS
  /\ \A i \in DOMAIN task_registry : Len(task_registry[i].queues) <= MAX_TASK_QUEUES
  /\ pc \in [Tasks -> {"idle", "waiting", "granted"}]
  /\ call \in [Tasks -> Calls]
  /\ claims \subseteq Tasks \X Queues /\ allowed \subseteq Tasks \X Queues
  /\ raced \in BOOLEAN /\ lost \in BOOLEAN

\* Head, tail and size of a queue agree, and the places between head and tail
\* are exactly the ones that hold a message, whatever mix of insertions at
\* the head, in the middle and at the tail and of removals came before
\* (send_message, insert_message_by_priority, cleanup_task_messages).
RingIsWhole ==
  \A q \in Queues :
    LET Q == queue[q]
    IN  /\ Q.tail = (Q.head + Q.current_size) % Q.max_size
        /\ \A i \in 0 .. Q.max_size - 1 : At(Q, i) # NoMessage <=> i < Q.current_size

\* Every queued message is counted by msg_available or promised to a receiver
\* that has yet to run, and every free place by space_available or promised
\* to a sender.  None becomes unusable, whatever calls a cleanup overtakes,
\* unless a task ends between being granted a place and running on
\* (cleanup_task_messages does not give that place back).  And none is
\* promised twice, so that the "shouldn't happen" branches of send_message and
\* receive_message are not taken, until a cleanup resets the semaphores under
\* a call that was granted a place and has yet to run.
PlacesAccountedFor ==
  \A q \in Live :
    LET Q == queue[q]
        messages == Q.msg_available + Cardinality(Granted(q, "receive"))
        places == Q.space_available + Cardinality(Granted(q, "send"))
    IN  /\ ~ lost => messages >= Q.current_size /\ places >= Q.max_size - Q.current_size
        /\ ~ raced => messages <= Q.current_size /\ places <= Q.max_size - Q.current_size

\* A queue that was registered for a task when there was room, and that was
\* neither unregistered, nor cleaned up after, nor destroyed since, is found
\* in the registry.  And the registry names no queue for a task without a call
\* that explains it: it was registered for the task, or created, and not
\* withdrawn since (register_task_queue, unregister_task_queue,
\* cleanup_task_queues).  What the registry should say of a queue that was
\* destroyed, where message.h and the code differ, is left open.
RegistryMatchesCalls ==
  /\ claims \subseteq Registrations(task_registry)
  /\ Registrations(task_registry) \subseteq allowed

\* As long as the queue to which replies to a task go exists, they go there
\* until it is unregistered, the task's entry is removed or the queue is
\* destroyed: no operation on other tasks or on other queues, and no shifting
\* of entries, redirects the replies (find_task_queue).
RepliesAreNotRedirected ==
  [][\A t \in Tasks :
       LET q == find_task_queue(task_registry, t)
       IN  q \in Live /\ find_task_queue(task_registry', t) # q =>
             \/ unregister_task_queue(t, q)
             \/ cleanup_task_queues(t)
             \/ destroy_message_queue(q)]_vars

List == INSTANCE MessageList
          WITH exists <- Live, content <- [q \in Queues |-> Contents(queue[q])],
               Priorities <- Priorities \union {MESSAGE_PRIORITY_HIGH}

\* The rings behave as lists: a message joins where its priority allows, only
\* the first is delivered, a full queue takes none, and a cleanup removes
\* exactly the messages of the task that ended (send_message, receive_message,
\* cleanup_task_messages).
BehavesAsLists == List!Spec

=============================================================================
