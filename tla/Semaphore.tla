------------------------------ MODULE Semaphore ------------------------------
(***************************************************************************)
(* The counting semaphores of kernel/ipc.c: the pool, and every operation  *)
(* on it.  semaphore_post hands a permit to the first waiter instead of    *)
(* incrementing the value.  A handle is the address of a pool slot.        *)
(*                                                                         *)
(* History variables, for what the callers are owed: initial, posts and    *)
(* taken count a semaphore's initial permits, its successful posts and the *)
(* successful waits they paid for; permit[t] says that a post has handed   *)
(* its permit to the waiting task t; unlisted holds the tasks that block   *)
(* without a waiter, for want of memory.                                   *)
(*                                                                         *)
(* A terminated task is "ended" for good.  Nothing takes its waiter out of *)
(* the queue: remove_waiter has no caller.                                 *)
(***************************************************************************)
EXTENDS WaitQueue, FiniteSets

CONSTANTS Slots,          \* MAX_WAIT_QUEUES slots of semaphore_pool, 1 .. n
          Destroyable,    \* the slots that are ever destroyed
          InitialValues,  \* initial_value arguments, converted to int32_t
          MaxValue,       \* stands for INT32_MAX
          MaxPosts        \* posts per semaphore that the model follows

ASSUME SemaphoreAssumption ==
  /\ IsFiniteSet(Tasks)
  /\ Slots \subseteq Nat \ {0}
  /\ 1 \in Slots
  /\ Destroyable \subseteq Slots
  /\ MaxValue \in Nat \ {0}
  /\ InitialValues \subseteq {v \in Int : v <= MaxValue}
  /\ MaxPosts \in Nat

VARIABLES live,        \* header.type of a slot is IPC_TYPE_SEMAPHORE
          value,
          wait_queue,
          pc,          \* where each task is in a blocking call
          on,          \* the slot a task in a blocking call operates on
          initial, posts, taken, permit, unlisted

vars == <<live, value, wait_queue, pc, on, initial, posts, taken, permit,
          unlisted>>

\* init_ipc creates the kernel semaphore, with value 1, in the first slot.
Init ==
  /\ live = [s \in Slots |-> s = 1]
  /\ value = [s \in Slots |-> IF s = 1 THEN 1 ELSE 0]
  /\ wait_queue = [s \in Slots |-> <<>>]
  /\ pc = [t \in Tasks |-> "idle"]
  /\ on = [t \in Tasks |-> 1]
  /\ initial = value
  /\ posts = [s \in Slots |-> 0]
  /\ taken = [s \in Slots |-> 0]
  /\ permit = [t \in Tasks |-> FALSE]
  /\ unlisted = {}

Calls(t) == pc[t] = "idle" /\ MayRun(pc, t)

FreeSlots == {s \in Slots : ~live[s]}

find_free_semaphore == CHOOSE s \in FreeSlots : \A r \in FreeSlots : s <= r

\* Value v, nobody waiting, nothing owed.
Reset(s, v) ==
  /\ value' = [value EXCEPT ![s] = v]
  /\ wait_queue' = [wait_queue EXCEPT ![s] = <<>>]
  /\ initial' = [initial EXCEPT ![s] = v]
  /\ posts' = [posts EXCEPT ![s] = 0]
  /\ taken' = [taken EXCEPT ![s] = 0]
  /\ permit' = [t \in Tasks |-> permit[t] /\ on[t] # s]

create_semaphore(t, v) ==
  /\ Calls(t)
  /\ FreeSlots # {}
  /\ live' = [live EXCEPT ![find_free_semaphore] = TRUE]
  /\ Reset(find_free_semaphore, v)
  /\ UNCHANGED <<pc, on, unlisted>>

\* Mutant: the waiters are not woken.
DestroyLeavesWaiters(t, s) ==
  /\ Calls(t)
  /\ live[s]
  /\ live' = [live EXCEPT ![s] = FALSE]
  /\ Reset(s, 0)
  /\ UNCHANGED <<pc, on, unlisted>>

destroy_semaphore(t, s) ==
  /\ Calls(t)
  /\ live[s]
  /\ live' = [live EXCEPT ![s] = FALSE]
  /\ pc' = Unblock(pc, WokenAll(wait_queue[s]))
  /\ Reset(s, 0)
  /\ UNCHANGED <<on, unlisted>>

\* Mutant: off by one.
HasPermitToSpare(s) == value[s] > 1

HasPermit(s) == value[s] > 0

\* The part of semaphore_wait that does not block, which is also
\* semaphore_trywait.
semaphore_trywait(t, s) ==
  /\ Calls(t)
  /\ live[s]
  /\ HasPermit(s)
  /\ value' = [value EXCEPT ![s] = @ - 1]
  /\ taken' = [taken EXCEPT ![s] = @ + 1]
  /\ UNCHANGED <<live, wait_queue, pc, on, initial, posts, permit, unlisted>>

\* semaphore_wait when there is no permit, up to sti.
semaphore_wait(t, s) ==
  /\ Calls(t)
  /\ live[s]
  /\ ~HasPermit(s)
  /\ \E q \in AddWaiterOutcomes(wait_queue[s], t) :
       /\ wait_queue' = [wait_queue EXCEPT ![s] = q]
       /\ unlisted' = IF q = wait_queue[s] THEN unlisted \cup {t} ELSE unlisted
  /\ pc' = [pc EXCEPT ![t] = "enq"]
  /\ on' = [on EXCEPT ![t] = s]
  /\ UNCHANGED <<live, value, initial, posts, taken, permit>>

block_task(t) ==
  /\ pc[t] = "enq"
  /\ pc' = [pc EXCEPT ![t] = "blocked"]
  /\ UNCHANGED <<live, value, wait_queue, on, initial, posts, taken, permit,
                 unlisted>>

\* semaphore_wait after block_task: "the semaphore has been decremented for
\* us".  The semaphore is not looked at again.
WaitReturns(t) ==
  /\ pc[t] = "woken"
  /\ MayRun(pc, t)
  /\ pc' = [pc EXCEPT ![t] = "idle"]
  /\ taken' = IF permit[t] THEN [taken EXCEPT ![on[t]] = @ + 1] ELSE taken
  /\ permit' = [permit EXCEPT ![t] = FALSE]
  /\ UNCHANGED <<live, value, wait_queue, on, initial, posts, unlisted>>

\* Mutant: no test for the maximum.
NeverAtMaximum(s) == FALSE

AtMaximum(s) == value[s] = MaxValue

\* Mutant: the value is incremented although a waiter gets the permit.
AlwaysIncremented(s) == value[s] + 1

PostedValue(s) == IF wait_queue[s] = <<>> THEN value[s] + 1 ELSE value[s]

semaphore_post(t, s) ==
  /\ Calls(t)
  /\ live[s]
  /\ ~AtMaximum(s)
  /\ posts[s] < MaxPosts
  /\ pc' = Unblock(pc, WokenFirst(wait_queue[s]))
  /\ wait_queue' = [wait_queue EXCEPT ![s] = AfterWakeFirst(@)]
  /\ permit' = [u \in Tasks |-> permit[u] \/ u \in WokenFirst(wait_queue[s])]
  /\ value' = [value EXCEPT ![s] = PostedValue(s)]
  /\ posts' = [posts EXCEPT ![s] = @ + 1]
  /\ UNCHANGED <<live, on, initial, taken, unlisted>>

\* terminate_task (by exit_task, when u is t): the task leaves the queues of
\* the scheduler, and no queue of ipc.c.
terminate_task(t, u) ==
  /\ Calls(t)
  /\ pc[u] # "ended"
  /\ pc' = [pc EXCEPT ![u] = "ended"]
  /\ UNCHANGED <<live, value, wait_queue, on, initial, posts, taken, permit,
                 unlisted>>

Next ==
  \E t \in Tasks :
    \/ \E v \in InitialValues : create_semaphore(t, v)
    \/ \E s \in Destroyable : destroy_semaphore(t, s)
    \/ \E s \in Slots : semaphore_trywait(t, s)
    \/ \E s \in Slots : semaphore_wait(t, s)
    \/ block_task(t)
    \/ WaitReturns(t)
    \/ \E s \in Slots : semaphore_post(t, s)
    \/ \E u \in Tasks : terminate_task(t, u)

Spec == Init /\ [][Next]_vars

-----------------------------------------------------------------------------
(* Properties. *)

Waits(t, s) == \E i \in 1 .. Len(wait_queue[s]) : wait_queue[s][i] = t

Owed(s) == {t \in Tasks : permit[t] /\ on[t] = s}

\* Type invariant: the value never passes INT32_MAX.
TypeOK ==
  /\ live \in [Slots -> BOOLEAN]
  /\ value \in [Slots -> {v \in Int : v <= MaxValue}]
  /\ wait_queue \in [Slots -> Seq(Tasks)]
  /\ pc \in [Tasks -> PCs \cup {"ended"}]
  /\ on \in [Tasks -> Slots]
  /\ initial \in [Slots -> Int]
  /\ posts \in [Slots -> Nat]
  /\ taken \in [Slots -> Nat]
  /\ permit \in [Tasks -> BOOLEAN]
  /\ unlisted \subseteq Tasks

\* Nobody waits for a semaphore that has a permit left.
WaitersMeanNoPermit == \A s \in Slots : wait_queue[s] # <<>> => value[s] <= 0

\* No permit is made up, and none is lost but with a terminated task: what a
\* semaphore started with and what was posted is what successful waits have
\* taken, what was handed to tasks that are about to take it or have ended,
\* and what is left in the value, through any order of waits, posts,
\* destructions and terminations.
PermitsConserved ==
  \A s \in Slots : live[s] =>
    initial[s] + posts[s] = value[s] + taken[s] + Cardinality(Owed(s))

\* A blocked task is in the wait queue of a live semaphore, where a post or
\* a destruction finds it, unless there was no memory for its waiter: no wake
\* up meant for it is spent before it has blocked.
BlockedIsQueued ==
  \A t \in Tasks : pc[t] = "blocked" /\ t \notin unlisted =>
    live[on[t]] /\ Waits(t, on[t])

=============================================================================
