------------------------------ MODULE WaitQueue ------------------------------
(***************************************************************************)
(* The wait queues of kernel/ipc.c and what blocking on one does to a      *)
(* task.  A wait queue is the sequence of its waiters (waiter_count is its *)
(* length); every wait in ipc.c has timeout 0 and check_timeouts never     *)
(* finds one that has expired.                                             *)
(*                                                                         *)
(* A task inside a blocking call is, in this order:                        *)
(*   "enq"      in the wait queue, interrupts on again, block_task not yet *)
(*              called (unblock_task ignores a task that is not blocked);  *)
(*   "blocked"  off the processor;                                         *)
(*   "woken"    ready, and at the statement after block_task.              *)
(* Between calls it is "idle".                                             *)
(***************************************************************************)
EXTENDS Sequences, Integers

CONSTANTS Tasks,         \* the tasks that use the objects
          MallocMayFail  \* may the kmalloc in add_waiter fail?

ASSUME WaitAssumption == MallocMayFail \in BOOLEAN

PCs == {"idle", "enq", "blocked", "woken"}

\* A waiter that cannot be allocated is not queued, and the caller goes on to
\* block all the same.
AddWaiterOutcomes(q, t) == {Append(q, t)} \cup IF MallocMayFail THEN {q} ELSE {}

\* wake_waiters(queue, count) for count 0 (all of them) and 1.
WokenAll(q) == {q[i] : i \in 1 .. Len(q)}

WokenFirst(q) == IF q = <<>> THEN {} ELSE {Head(q)}

AfterWakeFirst(q) == IF q = <<>> THEN q ELSE Tail(q)

\* unblock_task for each task of woken.
Unblock(pc, woken) ==
  [u \in Tasks |-> IF u \in woken /\ pc[u] = "blocked" THEN "woken" ELSE pc[u]]

\* Mutant: a scheduler that preempts.
AnyTaskRuns(pc, t) == TRUE

\* The scheduler switches only when the current task blocks, sleeps or ends
\* (Scheduler, SwitchOnlyWhenGivenUp), so no other task runs between the sti
\* of a blocking call and its block_task.
MayRun(pc, t) == \A u \in Tasks \ {t} : pc[u] # "enq"

=============================================================================
