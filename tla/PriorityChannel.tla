--------------------------- MODULE PriorityChannel ---------------------------
(***************************************************************************)
(* What a message queue promises its clients: a bounded channel that       *)
(* delivers the oldest message of the highest priority that has any.       *)
(***************************************************************************)
EXTENDS Integers, Sequences

CONSTANTS Queues, Messages, Sizes

Levels == 0 .. 3

VARIABLES capacity,  \* 0: the queue does not exist
          content    \* the messages of each queue, by priority

Empty == [p \in Levels |-> <<>>]

Total(c) == Len(c[0]) + Len(c[1]) + Len(c[2]) + Len(c[3])

Init ==
  /\ capacity = [q \in Queues |-> 0]
  /\ content = [q \in Queues |-> Empty]

Create(q, n) ==
  /\ capacity[q] = 0
  /\ capacity' = [capacity EXCEPT ![q] = n]
  /\ UNCHANGED content

\* Its messages are discarded.
Destroy(Q) ==
  /\ capacity' = [q \in Queues |-> IF q \in Q THEN 0 ELSE capacity[q]]
  /\ content' = [q \in Queues |-> IF q \in Q THEN Empty ELSE content[q]]

Send(q, p, m) ==
  /\ Total(content[q]) < capacity[q]
  /\ content' = [content EXCEPT ![q][p] = Append(@, m)]
  /\ UNCHANGED capacity

Receive(q, p) ==
  /\ content[q][p] # <<>>
  /\ \A r \in Levels : r > p => content[q][r] = <<>>
  /\ content' = [content EXCEPT ![q][p] = Tail(@)]
  /\ UNCHANGED capacity

Next ==
  \/ \E q \in Queues, n \in Sizes : Create(q, n)
  \/ \E Q \in SUBSET Queues : Destroy(Q)
  \/ \E q \in Queues, p \in Levels, m \in Messages : Send(q, p, m)
  \/ \E q \in Queues, p \in Levels : Receive(q, p)

Spec == Init /\ [][Next]_<<capacity, content>>

=============================================================================
