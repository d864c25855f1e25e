---------------------------- MODULE MessageList ----------------------------
(***************************************************************************)
(* What the queues of kernel/ipc/message promise: each is a bounded list.  *)
(* A message never joins in front of one that has its priority or a higher *)
(* one, unless it is sent as urgent.  A message of high or urgent priority *)
(* passes the less important ones at the end; one that is sent as urgent   *)
(* passes all of them.  Only the first message is ever delivered.  When a  *)
(* task ends, exactly the messages from and to it disappear and the others *)
(* keep their order.                                                       *)
(*                                                                         *)
(* Where the code and message.h differ, both are allowed: a message of     *)
(* normal priority may pass low ones (message.h) or not (the code), and    *)
(* one that is sent as urgent may pass others of its priority or higher    *)
(* (the code) or not (message.h).                                          *)
(***************************************************************************)
EXTENDS Integers, Sequences

CONSTANTS Queues, Tasks, Priorities, Capacity

HIGH == 2

Messages == [priority : Priorities, sender : Tasks, receiver : Tasks,
             urgent : BOOLEAN]

VARIABLES exists, content

Init ==
  /\ exists = {}
  /\ content = [q \in Queues |-> <<>>]

Create(q) ==
  /\ q \notin exists
  /\ exists' = exists \union {q}
  /\ UNCHANGED content

Destroy(q) ==
  /\ exists' = exists \ {q}
  /\ content' = [content EXCEPT ![q] = <<>>]

\* m can join behind the first n messages.
Joins(q, m, n) ==
  LET s == content[q]
  IN  IF m.urgent THEN \A i \in 1 .. n : s[i].priority >= m.priority
      ELSE /\ \A i \in n + 1 .. Len(s) : s[i].priority < m.priority
           /\ m.priority >= HIGH /\ n > 0 => s[n].priority >= m.priority

\* The list with m behind its first n messages.
Inserted(s, n, m) == SubSeq(s, 1, n) \o <<m>> \o SubSeq(s, n + 1, Len(s))

Send(q, m, n) ==
  /\ q \in exists
  /\ Len(content[q]) < Capacity[q]
  /\ Joins(q, m, n)
  /\ content' = [content EXCEPT ![q] = Inserted(@, n, m)]
  /\ UNCHANGED exists

Receive(q) ==
  /\ content[q] # <<>>
  /\ content' = [content EXCEPT ![q] = Tail(@)]
  /\ UNCHANGED exists

\* The messages that are neither from t nor to t, in their order.
Others(s, t) ==
  LET kept[n \in 0 .. Len(s)] ==
        IF n = 0 THEN <<>>
        ELSE IF t \in {s[n].sender, s[n].receiver} THEN kept[n - 1]
        ELSE Append(kept[n - 1], s[n])
  IN  kept[Len(s)]

TaskEnds(t) ==
  /\ content' = [q \in Queues |-> Others(content[q], t)]
  /\ UNCHANGED exists

Next ==
  \/ \E q \in Queues : Create(q) \/ Destroy(q) \/ Receive(q)
  \/ \E q \in Queues, m \in Messages :
       \E n \in 0 .. Len(content[q]) : Send(q, m, n)
  \/ \E t \in Tasks : TaskEnds(t)

Spec == Init /\ [][Next]_<<exists, content>>

=============================================================================
