-------------------------------- MODULE Mutex --------------------------------
(***************************************************************************)
(* The mutexes of kernel/ipc.c: the pool, and every operation on it.  A    *)
(* handle is the address of a pool slot, so it stays usable after          *)
(* destroy_mutex, and names the next mutex created in that slot.           *)
(*                                                                         *)
(* held is a history variable: how many of its successful lock calls a     *)
(* task has not yet undone by a successful unlock.                         *)
(***************************************************************************)
EXTENDS WaitQueue

CONSTANTS Slots,        \* MAX_WAIT_QUEUES slots of mutex_pool, 1 .. n
          Destroyable,  \* the slots that are ever destroyed
          MaxNesting,   \* a task locks a mutex at most this often at a time
          NoTask        \* owner 0

ASSUME MutexAssumption ==
  /\ Slots \subseteq Nat \ {0}
  /\ 1 \in Slots
  /\ Destroyable \subseteq Slots
  /\ MaxNesting \in Nat \ {0}
  /\ NoTask \notin Tasks

VARIABLES live,        \* header.type of a slot is IPC_TYPE_MUTEX
          owner,
          lock_count,
          wait_queue,
          pc,          \* where each task is in a blocking call
          on,          \* the slot a task in a blocking call operates on
          held

vars == <<live, owner, lock_count, wait_queue, pc, on, held>>

\* init_ipc creates the kernel mutex in the first slot.
Init ==
  /\ live = [m \in Slots |-> m = 1]
  /\ owner = [m \in Slots |-> NoTask]
  /\ lock_count = [m \in Slots |-> 0]
  /\ wait_queue = [m \in Slots |-> <<>>]
  /\ pc = [t \in Tasks |-> "idle"]
  /\ on = [t \in Tasks |-> 1]
  /\ held = [t \in Tasks |-> [m \in Slots |-> 0]]

Calls(t) == pc[t] = "idle" /\ MayRun(pc, t)

FreeSlots == {m \in Slots : ~live[m]}

find_free_mutex == CHOOSE m \in FreeSlots : \A n \in FreeSlots : m <= n

\* Unowned, nobody waiting, no lock of it counted.
Clear(m) ==
  /\ owner' = [owner EXCEPT ![m] = NoTask]
  /\ lock_count' = [lock_count EXCEPT ![m] = 0]
  /\ wait_queue' = [wait_queue EXCEPT ![m] = <<>>]
  /\ held' = [t \in Tasks |-> [held[t] EXCEPT ![m] = 0]]

create_mutex(t) ==
  /\ Calls(t)
  /\ FreeSlots # {}
  /\ live' = [live EXCEPT ![find_free_mutex] = TRUE]
  /\ Clear(find_free_mutex)
  /\ UNCHANGED <<pc, on>>

\* Any task may destroy a mutex, locked or not.
destroy_mutex(t, m) ==
  /\ Calls(t)
  /\ live[m]
  /\ live' = [live EXCEPT ![m] = FALSE]
  /\ pc' = Unblock(pc, WokenAll(wait_queue[m]))
  /\ Clear(m)
  /\ UNCHANGED on

\* The part of mutex_lock that does not wait, which is also mutex_trylock.
mutex_trylock(t, m) ==
  /\ Calls(t)
  /\ live[m]
  /\ held[t][m] < MaxNesting
  /\ owner[m] \in {t, NoTask}
  /\ owner' = [owner EXCEPT ![m] = t]
  /\ lock_count' = [lock_count EXCEPT ![m] = IF owner[m] = t THEN @ + 1 ELSE 1]
  /\ held' = [held EXCEPT ![t][m] = @ + 1]
  /\ UNCHANGED <<live, wait_queue, pc, on>>

\* mutex_lock when another task owns the mutex, up to sti.
mutex_lock(t, m) ==
  /\ Calls(t)
  /\ live[m]
  /\ held[t][m] < MaxNesting
  /\ owner[m] \notin {t, NoTask}
  /\ \E q \in AddWaiterOutcomes(wait_queue[m], t) :
       wait_queue' = [wait_queue EXCEPT ![m] = q]
  /\ pc' = [pc EXCEPT ![t] = "enq"]
  /\ on' = [on EXCEPT ![t] = m]
  /\ UNCHANGED <<live, owner, lock_count, held>>

block_task(t) ==
  /\ pc[t] = "enq"
  /\ pc' = [pc EXCEPT ![t] = "blocked"]
  /\ UNCHANGED <<live, owner, lock_count, wait_queue, on, held>>

\* mutex_lock after block_task: "When we're unblocked, the mutex should be
\* ours".  Neither the type nor the owner of the slot is tested.
LockReturns(t) ==
  /\ pc[t] = "woken"
  /\ MayRun(pc, t)
  /\ pc' = [pc EXCEPT ![t] = "idle"]
  /\ owner' = [owner EXCEPT ![on[t]] = t]
  /\ lock_count' = [lock_count EXCEPT ![on[t]] = 1]
  /\ held' = [held EXCEPT ![t][on[t]] = @ + 1]
  /\ on' = [on EXCEPT ![t] = 1]
  /\ UNCHANGED <<live, wait_queue>>

\* Mutant: the owner is not reset when the count reaches 0.
UnlockKeepsOwner(t, m) ==
  /\ Calls(t)
  /\ live[m]
  /\ owner[m] = t
  /\ held' = [held EXCEPT ![t][m] = @ - 1]
  /\ lock_count' = [lock_count EXCEPT ![m] = @ - 1]
  /\ UNCHANGED <<live, owner, wait_queue, pc, on>>

\* Mutant: no waiter is woken.
UnlockWakesNobody(t, m) ==
  /\ Calls(t)
  /\ live[m]
  /\ owner[m] = t
  /\ held' = [held EXCEPT ![t][m] = @ - 1]
  /\ lock_count' = [lock_count EXCEPT ![m] = @ - 1]
  /\ owner' = [owner EXCEPT ![m] = IF lock_count[m] = 1 THEN NoTask ELSE t]
  /\ UNCHANGED <<live, wait_queue, pc, on>>

\* Mutant: the waiter that came last is woken.
UnlockWakesLast(t, m) ==
  LET q == wait_queue[m]
  IN  /\ Calls(t)
      /\ live[m]
      /\ owner[m] = t
      /\ held' = [held EXCEPT ![t][m] = @ - 1]
      /\ lock_count' = [lock_count EXCEPT ![m] = @ - 1]
      /\ IF lock_count[m] = 1 /\ q # <<>>
         THEN /\ wait_queue' = [wait_queue EXCEPT ![m] = SubSeq(@, 1, Len(@) - 1)]
              /\ pc' = Unblock(pc, {q[Len(q)]})
         ELSE UNCHANGED <<wait_queue, pc>>
      /\ owner' = [owner EXCEPT ![m] = IF lock_count[m] = 1 THEN NoTask ELSE t]
      /\ UNCHANGED <<live, on>>

mutex_unlock(t, m) ==
  /\ Calls(t)
  /\ live[m]
  /\ owner[m] = t
  /\ held' = [held EXCEPT ![t][m] = @ - 1]
  /\ lock_count' = [lock_count EXCEPT ![m] = @ - 1]
  /\ IF lock_count[m] = 1
     THEN /\ owner' = [owner EXCEPT ![m] = NoTask]
          /\ wait_queue' = [wait_queue EXCEPT ![m] = AfterWakeFirst(@)]
          /\ pc' = Unblock(pc, WokenFirst(wait_queue[m]))
     ELSE UNCHANGED <<owner, wait_queue, pc>>
  /\ UNCHANGED <<live, on>>

Next ==
  \E t \in Tasks :
    \/ create_mutex(t)
    \/ \E m \in Destroyable : destroy_mutex(t, m)
    \/ \E m \in Slots : mutex_trylock(t, m)
    \/ \E m \in Slots : mutex_lock(t, m)
    \/ block_task(t)
    \/ LockReturns(t)
    \/ \E m \in Slots : mutex_unlock(t, m)

Spec == Init /\ [][Next]_vars

-----------------------------------------------------------------------------
(* Properties. *)

Waits(t, m) == \E i \in 1 .. Len(wait_queue[m]) : wait_queue[m][i] = t

\* t is u, or waits ahead of u.
NotBehind(t, u, m) ==
  \E i, j \in 1 .. Len(wait_queue[m]) :
    i <= j /\ wait_queue[m][i] = t /\ wait_queue[m][j] = u

\* Type invariant.
TypeOK ==
  /\ live \in [Slots -> BOOLEAN]
  /\ owner \in [Slots -> Tasks \cup {NoTask}]
  /\ lock_count \in [Slots -> Nat]
  /\ wait_queue \in [Slots -> Seq(Tasks)]
  /\ pc \in [Tasks -> PCs]
  /\ on \in [Tasks -> Slots]
  /\ held \in [Tasks -> [Slots -> Nat]]

\* A mutex without an owner has lock count 0; the count of an owned one is
\* positive and at most the number of locks its owner was granted, also after
\* a woken task has taken the mutex from its owner or has taken a slot that
\* was destroyed or reused while it waited.
CountMatchesOwner ==
  \A m \in Slots :
    /\ owner[m] = NoTask => lock_count[m] = 0
    /\ \A t \in Tasks : owner[m] = t => lock_count[m] \in 1 .. held[t][m]

\* While tasks wait for a mutex, it has an owner or a woken task is about to
\* take it: nobody is left waiting for a free mutex.  And a blocked task is in
\* the wait queue of the mutex it wants, which still exists, so an unlock or a
\* destroy will find it.
NoStrandedWaiter ==
  /\ \A m \in Slots :
       wait_queue[m] # <<>> => \/ owner[m] # NoTask
                               \/ \E t \in Tasks : pc[t] = "woken" /\ on[t] = m
  /\ \A t \in Tasks : pc[t] = "blocked" => live[on[t]] /\ Waits(t, on[t])

\* A waiter leaves the queue of a mutex only to be woken, by mutex_unlock or
\* destroy_mutex, and not before the waiters ahead of it: a lock call waits for
\* as many unlocks as there were waiters when it came, whoever locks and unlocks
\* the mutex meanwhile, or finds it free before a woken task has run.
WokenInTurn ==
  [][\A m \in Slots, t, u \in Tasks :
       NotBehind(t, u, m) /\ ~ Waits(u, m)' => ~ Waits(t, m)' /\ pc'[t] = "woken"]_vars

-----------------------------------------------------------------------------
(* What mutex.h says, and the code does not do. *)

\* "Critical section - only one task can execute this at a time": two tasks do
\* not both have an undone successful lock of the same live mutex.
MutualExclusion ==
  \A m \in Slots : live[m] =>
    \A t, u \in Tasks : held[t][m] > 0 /\ held[u][m] > 0 => t = u

=============================================================================
