----------------------------- MODULE TaskQueues -----------------------------
(***************************************************************************)
(* The queue operations of kernel/scheduler.c, at the level of the list    *)
(* pointers.  A task control block has ONE pair of links (next, prev), and *)
(* that pair is used for the list of all tasks and for every queue: what   *)
(* an operation on one queue does to another one is part of the model.     *)
(*                                                                         *)
(* The links are a record: the head of each queue, next and prev of each   *)
(* task, and hung, which is set by a walk that never ends.                 *)
(***************************************************************************)
EXTENDS Integers

CONSTANT MaxPid  \* the last pid the model hands out

PID_KERNEL == 1

NULL == 0

Idle == PID_KERNEL + 1

Pids == Idle .. MaxPid

TASK_PRIORITY_IDLE == 0

TASK_PRIORITY_NORMAL == 2

TASK_PRIORITY_REALTIME == 4

ReadyQueues == TASK_PRIORITY_IDLE .. TASK_PRIORITY_REALTIME

Blocked == 5

Sleeping == 6

TaskList == 7

Queues == ReadyQueues \cup {Blocked, Sleeping, TaskList}

ASSUME PidAssumption == MaxPid \in Nat /\ MaxPid >= Idle

-----------------------------------------------------------------------------
\* The tasks a walk from h along nxt visits: the least set that holds h and is
\* closed under nxt.
OnList(nxt, h) ==
  {n \in Pids : \A S \in SUBSET Pids :
     (/\ h # NULL => h \in S
      /\ \A m \in S : nxt[m] # NULL => nxt[m] \in S) => n \in S}

\* A walk that meets no task without a successor never ends.
Endless(nxt, h) == h # NULL /\ \A n \in OnList(nxt, h) : nxt[n] # NULL

\* add_task_to_queue: the links of the task are cleared before the walk.
add_task_to_queue(L, q, t) ==
  LET nxt == [L.next EXCEPT ![t] = NULL]
      prv == [L.prev EXCEPT ![t] = NULL]
      h   == L.head[q]
      last == CHOOSE n \in OnList(nxt, h) : nxt[n] = NULL
  IN  IF L.hung THEN L
      ELSE IF h = NULL
           THEN [head |-> [L.head EXCEPT ![q] = t], next |-> nxt, prev |-> prv,
                 hung |-> FALSE]
      ELSE IF Endless(nxt, h)
           THEN [head |-> L.head, next |-> L.next, prev |-> L.prev, hung |-> TRUE]
      ELSE [head |-> L.head, next |-> [nxt EXCEPT ![last] = t],
            prev |-> [prv EXCEPT ![t] = last], hung |-> FALSE]

\* The links without the task: its neighbours are joined, and the head moved on if it is the
\* head of q.
Unlinked(L, q, t) ==
  LET h == L.head[q]
      succ == L.next[t]
      pred == L.prev[t]
      nxt == IF h # t /\ pred # NULL THEN [L.next EXCEPT ![pred] = succ] ELSE L.next
      prv == IF succ # NULL
             THEN [L.prev EXCEPT ![succ] = IF h = t THEN NULL ELSE pred] ELSE L.prev
  IN  [head |-> IF h = t THEN [L.head EXCEPT ![q] = succ] ELSE L.head,
       next |-> [nxt EXCEPT ![t] = NULL],
       prev |-> [prv EXCEPT ![t] = NULL],
       hung |-> L.hung]

\* remove_task_from_queue does not check that the task is on this queue: for
\* a task that is not its head, it unlinks the task from wherever it is.
remove_task_from_queue(L, q, t) ==
  IF L.head[q] = NULL THEN L ELSE Unlinked(L, q, t)

=============================================================================
