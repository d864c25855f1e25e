----------------------------- MODULE MutexProofs -----------------------------
(***************************************************************************)
(* Proofs about Mutex, for any tasks, pool and depth of nesting: the count *)
(* matches what the owner was granted, nobody is left waiting for a mutex  *)
(* that is free, and the waiters are woken in the order they came.         *)
(***************************************************************************)
EXTENDS Mutex, WellFoundedInduction, TLAPS

-----------------------------------------------------------------------------
(* The wait queues of kernel/ipc.c, and the search for a free slot of a pool. *)

\* The search of a pool from its first slot on has a result.
LEMMA LeastExists ==
  ASSUME NEW S \in SUBSET Nat, S # {}
  PROVE  \E s \in S : \A r \in S : s <= r
<1>1. \E s \in S : \A r \in S : ~ (<<r, s>> \in OpToRel(<, Nat))
  BY NatLessThanWellFounded, WFMin
<1>2. \A r, s \in Nat : r < s => <<r, s>> \in OpToRel(<, Nat)
  BY DEF OpToRel
<1>3. PICK s \in S : \A r \in S : ~ (r < s)
  BY <1>1, <1>2
<1> QED  BY <1>3

\* What wake_waiters does to the tasks it wakes: while another task runs, none of
\* them is still on its way to block.
LEMMA UnblockFacts ==
  ASSUME NEW P, "woken" \in P, NEW p \in [Tasks -> P],
         NEW t \in Tasks, p[t] = "idle", MayRun(p, t),
         NEW W \in SUBSET Tasks, \A u \in W : p[u] \in {"enq", "blocked", "ended"}
  PROVE  /\ Unblock(p, W) \in [Tasks -> P]
         /\ \A u \in W : Unblock(p, W)[u] = IF p[u] = "ended" THEN "ended" ELSE "woken"
         /\ \A u \in Tasks \ W : Unblock(p, W)[u] = p[u]
<1>1. \A u \in W : p[u] # "enq"
  BY DEF MayRun
<1> QED  BY <1>1 DEF Unblock

\* A queue whose first waiter is taken: the others move up by one.
LEMMA TailFacts ==
  ASSUME NEW q \in Seq(Tasks), q # <<>>
  PROVE  /\ Len(q) \in Nat \ {0} /\ Head(q) = q[1] /\ q[1] \in Tasks
         /\ Tail(q) \in Seq(Tasks) /\ Len(Tail(q)) = Len(q) - 1
         /\ \A i \in 1 .. Len(Tail(q)) : i + 1 \in 2 .. Len(q) /\ Tail(q)[i] = q[i + 1]
         /\ \A i \in 2 .. Len(q) : i - 1 \in 1 .. Len(Tail(q)) /\ Tail(q)[i - 1] = q[i]
<1>1. /\ Len(q) \in Nat \ {0} /\ Head(q) = q[1] /\ q[1] \in Tasks
      /\ Tail(q) \in Seq(Tasks) /\ Len(Tail(q)) = Len(q) - 1
  OBVIOUS
<1>2. \A i \in 1 .. Len(Tail(q)) : i + 1 \in 2 .. Len(q) /\ Tail(q)[i] = q[i + 1]
  BY <1>1
<1>3. \A i \in 2 .. Len(q) : i - 1 \in 1 .. Len(Tail(q)) /\ (i - 1) + 1 = i
  BY <1>1
<1>4. \A i \in 2 .. Len(q) : Tail(q)[i - 1] = q[i]
  BY <1>2, <1>3
<1> QED  BY <1>1, <1>2, <1>3, <1>4

\* add_waiter leaves the waiters where they are, and puts the new one behind them
\* or nowhere.
LEMMA AddWaiterFacts ==
  ASSUME NEW q \in Seq(Tasks), NEW t \in Tasks, NEW r \in AddWaiterOutcomes(q, t)
  PROVE  /\ r \in Seq(Tasks) /\ Len(r) \in Nat /\ Len(q) \in Nat
         /\ r = q => MallocMayFail
         /\ r # q => Len(r) = Len(q) + 1 /\ r[Len(r)] = t
         /\ \A i \in 1 .. Len(q) : i \in 1 .. Len(r) /\ r[i] = q[i]
<1>1. r = Append(q, t) \/ (r = q /\ MallocMayFail)
  BY DEF AddWaiterOutcomes
<1>2. CASE r = Append(q, t)
  BY <1>2
<1>3. CASE r = q /\ MallocMayFail
  BY <1>3
<1> QED  BY <1>1, <1>2, <1>3

\* Nobody else is in the queue that add_waiter leaves.
LEMMA AddedLast ==
  ASSUME NEW q \in Seq(Tasks), NEW t \in Tasks, NEW r \in AddWaiterOutcomes(q, t),
         NEW i \in 1 .. Len(r)
  PROVE  (i \in 1 .. Len(q) /\ r[i] = q[i]) \/ (i = Len(q) + 1 /\ r[i] = t)
<1>1. r = Append(q, t) \/ r = q
  BY DEF AddWaiterOutcomes
<1> QED  BY <1>1

-----------------------------------------------------------------------------

\* A waiter in the queue of a mutex is of a task that waits for this mutex.
QueuedWaits ==
  \A m \in Slots : \A i \in 1 .. Len(wait_queue[m]) :
    /\ live[m]
    /\ on[wait_queue[m][i]] = m
    /\ pc[wait_queue[m][i]] \in {"enq", "blocked"}

\* No task has two waiters in a queue.
QueuedOnce ==
  \A m \in Slots : \A i, j \in 1 .. Len(wait_queue[m]) :
    wait_queue[m][i] = wait_queue[m][j] => i = j

\* A task that waits, or is about to, is in the queue, if every waiter can be
\* allocated.
WaitingIsQueued ==
  MallocMayFail \/ \A t \in Tasks : pc[t] \in {"enq", "blocked"} =>
                     live[on[t]] /\ Waits(t, on[t])

\* The first part of NoStrandedWaiter.
Taker(m) == owner[m] # NoTask \/ \E t \in Tasks : pc[t] = "woken" /\ on[t] = m

QueuesHaveTakers == \A m \in Slots : wait_queue[m] # <<>> => Taker(m)

IInv ==
  /\ TypeOK
  /\ CountMatchesOwner
  /\ QueuesHaveTakers
  /\ QueuedWaits
  /\ QueuedOnce
  /\ WaitingIsQueued

-----------------------------------------------------------------------------

\* Who waits is in the type.
LEMMA QueueType ==
  ASSUME TypeOK, NEW m \in Slots
  PROVE  /\ wait_queue[m] \in Seq(Tasks) /\ Len(wait_queue[m]) \in Nat
         /\ \A i \in 1 .. Len(wait_queue[m]) : wait_queue[m][i] \in Tasks
<1>1. wait_queue[m] \in Seq(Tasks)
  BY DEF TypeOK
<1> QED  BY <1>1

\* find_free_mutex finds a free slot when there is one.
LEMMA FindsFree ==
  ASSUME FreeSlots # {}
  PROVE  find_free_mutex \in FreeSlots
<1>1. FreeSlots \in SUBSET Nat
  BY MutexAssumption, Zenon DEF FreeSlots
<1>2. \E m \in FreeSlots : \A n \in FreeSlots : m <= n
  BY <1>1, LeastExists
<1> QED  BY <1>2 DEF find_free_mutex

\* At boot only the kernel mutex exists, and nobody owns it.
LEMMA InitHolds == Init => IInv
<1> SUFFICES ASSUME Init PROVE IInv
  OBVIOUS
<1> USE MutexAssumption DEF Init
<1>1. TypeOK
  BY DEF TypeOK, PCs
<1>2. CountMatchesOwner
  BY DEF CountMatchesOwner
<1>3. QueuesHaveTakers /\ QueuedWaits /\ QueuedOnce /\ WaitingIsQueued
  BY DEF QueuesHaveTakers, QueuedWaits, QueuedOnce, WaitingIsQueued
<1> QED  BY <1>1, <1>2, <1>3 DEF IInv

\* A mutex that is created or destroyed starts afresh, provided that no task stays
\* waiting in its queue.
LEMMA ClearStep ==
  ASSUME IInv, NEW f \in Slots, NEW b \in BOOLEAN,
         live' = [live EXCEPT ![f] = b], Clear(f), UNCHANGED on,
         pc' \in [Tasks -> PCs],
         \A u \in Tasks : \/ pc'[u] = pc[u]
                          \/ Waits(u, f) /\ pc'[u] = "woken",
         \A u \in Tasks : Waits(u, f) => pc'[u] \notin {"enq", "blocked"}
  PROVE  IInv'
<1> USE DEF IInv
<1>1. /\ \A m \in Slots \ {f} : /\ owner'[m] = owner[m] /\ wait_queue'[m] = wait_queue[m]
                                /\ lock_count'[m] = lock_count[m] /\ live'[m] = live[m]
      /\ owner'[f] = NoTask /\ wait_queue'[f] = <<>> /\ lock_count'[f] = 0
  BY DEF TypeOK, Clear
<1>2. \A t \in Tasks : \A m \in Slots \ {f} : held'[t][m] = held[t][m]
  BY DEF TypeOK, Clear
<1>3. TypeOK'
  <2>1. live' \in [Slots -> BOOLEAN] /\ owner' \in [Slots -> Tasks \cup {NoTask}]
    BY DEF TypeOK, Clear
  <2>2. lock_count' \in [Slots -> Nat] /\ wait_queue' \in [Slots -> Seq(Tasks)]
    BY DEF TypeOK, Clear
  <2>3. held' \in [Tasks -> [Slots -> Nat]]
    BY DEF TypeOK, Clear
  <2> QED  BY <2>1, <2>2, <2>3 DEF TypeOK
<1>4. CountMatchesOwner'
  BY <1>1, <1>2, MutexAssumption DEF CountMatchesOwner
<1>5. \A m \in Slots \ {f}, u \in Tasks : Waits(u, m) => ~ Waits(u, f)
  BY DEF Waits, QueuedWaits
<1>6. QueuesHaveTakers'
  <2> SUFFICES ASSUME NEW m \in Slots \ {f}, wait_queue[m] # <<>>
               PROVE  Taker(m)'
    BY <1>1 DEF QueuesHaveTakers
  <2>1. Taker(m)
    BY DEF QueuesHaveTakers
  <2>2. \A u \in Tasks : pc[u] = "woken" => pc'[u] = "woken"
    OBVIOUS
  <2> QED  BY <1>1, <2>1, <2>2 DEF Taker
<1>7. QueuedWaits'
  <2> SUFFICES ASSUME NEW m \in Slots, NEW i \in 1 .. Len(wait_queue'[m])
               PROVE  /\ live'[m] /\ on[wait_queue'[m][i]] = m
                      /\ pc'[wait_queue'[m][i]] \in {"enq", "blocked"}
    BY DEF QueuedWaits
  <2>1. m # f
    BY <1>1
  <2>2. wait_queue'[m] = wait_queue[m] /\ live'[m] = live[m]
    BY <1>1, <2>1
  <2> DEFINE u == wait_queue[m][i]
  <2>3. u \in Tasks /\ live[m] /\ on[u] = m /\ pc[u] \in {"enq", "blocked"} /\ Waits(u, m)
    BY <2>2, QueueType DEF QueuedWaits, Waits
  <2> QED  BY <1>5, <2>1, <2>2, <2>3
<1>8. QueuedOnce'
  <2>1. \A m \in Slots : m = f \/ wait_queue'[m] = wait_queue[m]
    BY <1>1
  <2> QED  BY <1>1, <2>1 DEF QueuedOnce
<1>9. WaitingIsQueued'
  <2> SUFFICES ASSUME ~ MallocMayFail, NEW u \in Tasks, pc'[u] \in {"enq", "blocked"}
               PROVE  live'[on[u]] /\ Waits(u, on[u])'
    BY DEF WaitingIsQueued
  <2>1. pc[u] \in {"enq", "blocked"} /\ ~ Waits(u, f)
    OBVIOUS
  <2>2. live[on[u]] /\ Waits(u, on[u]) /\ on[u] \in Slots
    BY <2>1 DEF WaitingIsQueued, TypeOK
  <2>3. on[u] \in Slots \ {f}
    BY <2>1, <2>2
  <2> QED  BY <1>1, <2>2, <2>3 DEF Waits
<1> QED  BY <1>3, <1>4, <1>6, <1>7, <1>8, <1>9

\* create_mutex takes a free slot, in whose queue nobody waits.
LEMMA CreateStep ==
  ASSUME IInv, NEW t \in Tasks, create_mutex(t)
  PROVE  IInv'
<1> DEFINE f == find_free_mutex
<1>1. f \in Slots /\ ~ live[f]
  BY FindsFree DEF create_mutex, FreeSlots
<1>2. \A u \in Tasks : ~ Waits(u, f)
  BY <1>1 DEF IInv, QueuedWaits, Waits
<1>3. live' = [live EXCEPT ![f] = TRUE] /\ Clear(f) /\ UNCHANGED on /\ pc' = pc
  BY DEF create_mutex
<1>4. pc' \in [Tasks -> PCs]
  BY <1>3 DEF IInv, TypeOK
<1> HIDE DEF f
<1> QED  BY <1>1, <1>2, <1>3, <1>4, ClearStep, Zenon

\* Every waiter that is woken runs on, and no other task is changed.
LEMMA WakeFacts ==
  ASSUME IInv, NEW t \in Tasks, Calls(t), NEW m \in Slots, NEW W \in SUBSET Tasks,
         \A u \in W : Waits(u, m), pc' = Unblock(pc, W)
  PROVE  /\ pc' \in [Tasks -> PCs]
         /\ \A u \in W : pc'[u] = "woken"
         /\ \A u \in Tasks \ W : pc'[u] = pc[u]
<1>1. pc \in [Tasks -> PCs] /\ "woken" \in PCs
  BY DEF IInv, TypeOK, PCs
<1>2. \A u \in W : pc[u] \in {"enq", "blocked"}
  BY DEF IInv, QueuedWaits, Waits
<1>3. pc[t] = "idle" /\ MayRun(pc, t)
  BY DEF Calls
<1>4. /\ Unblock(pc, W) \in [Tasks -> PCs]
      /\ \A u \in W : Unblock(pc, W)[u] = IF pc[u] = "ended" THEN "ended" ELSE "woken"
      /\ \A u \in Tasks \ W : Unblock(pc, W)[u] = pc[u]
  BY <1>1, <1>2, <1>3, UnblockFacts
<1> QED  BY <1>2, <1>4

\* destroy_mutex wakes every waiter before it clears the slot.
LEMMA DestroyStep ==
  ASSUME IInv, NEW t \in Tasks, NEW m \in Slots, destroy_mutex(t, m)
  PROVE  IInv'
<1> DEFINE W == WokenAll(wait_queue[m])
<1>1. W \subseteq Tasks /\ \A u \in Tasks : u \in W <=> Waits(u, m)
  BY QueueType DEF IInv, WokenAll, Waits
<1>2. /\ Calls(t) /\ live' = [live EXCEPT ![m] = FALSE] /\ Clear(m)
      /\ UNCHANGED on /\ pc' = Unblock(pc, W)
  BY DEF destroy_mutex
<1> HIDE DEF W
<1>3. /\ pc' \in [Tasks -> PCs]
      /\ \A u \in W : pc'[u] = "woken"
      /\ \A u \in Tasks \ W : pc'[u] = pc[u]
  BY <1>1, <1>2, WakeFacts
<1>4. \A u \in Tasks : Waits(u, m) => pc'[u] \notin {"enq", "blocked"}
  BY <1>1, <1>3
<1>5. \A u \in Tasks : pc'[u] = pc[u] \/ (Waits(u, m) /\ pc'[u] = "woken")
  BY <1>1, <1>3
<1> QED  BY <1>2, <1>3, <1>4, <1>5, ClearStep, Zenon

\* The locks of m that t was granted become k, and no other count changes.
Counted(t, m, k) == TypeOK /\ held' = [held EXCEPT ![t][m] = k]

\* What counting a lock, or its undoing, changes of held.
LEMMA HeldFacts ==
  ASSUME NEW t \in Tasks, NEW m \in Slots, NEW k \in Nat, Counted(t, m, k)
  PROVE  /\ held' \in [Tasks -> [Slots -> Nat]]
         /\ held'[t][m] = k
         /\ \A u \in Tasks, n \in Slots : u # t \/ n # m => held'[u][n] = held[u][n]
<1> DEFINE h == [held[t] EXCEPT ![m] = k]
<1>1. held \in [Tasks -> [Slots -> Nat]] /\ held[t] \in [Slots -> Nat]
  BY DEF Counted, TypeOK
<1>2. h \in [Slots -> Nat] /\ h[m] = k /\ \A n \in Slots \ {m} : h[n] = held[t][n]
  BY <1>1
<1> HIDE DEF h
<1>3. held' = [held EXCEPT ![t] = h]
  BY DEF h, Counted
<1>4. /\ held' \in [Tasks -> [Slots -> Nat]]
      /\ held'[t] = h /\ \A u \in Tasks \ {t} : held'[u] = held[u]
  BY <1>1, <1>2, <1>3
<1> QED  BY <1>2, <1>4

\* A lock that need not wait: the count and what the caller was granted grow alike.
LEMMA TrylockStep ==
  ASSUME IInv, NEW t \in Tasks, NEW m \in Slots, mutex_trylock(t, m)
  PROVE  IInv'
<1> USE DEF IInv
<1>1. /\ UNCHANGED <<live, wait_queue, pc, on>>
      /\ owner[m] \in {t, NoTask} /\ owner' = [owner EXCEPT ![m] = t]
      /\ lock_count' = [lock_count EXCEPT ![m] = IF owner[m] = t THEN @ + 1 ELSE 1]
      /\ held' = [held EXCEPT ![t][m] = held[t][m] + 1]
  BY DEF mutex_trylock
<1>2. lock_count[m] \in Nat /\ held[t][m] \in Nat /\ held[t][m] + 1 \in Nat
  BY DEF TypeOK
<1>3. /\ owner'[m] = t /\ \A n \in Slots \ {m} : owner'[n] = owner[n]
      /\ lock_count'[m] = IF owner[m] = t THEN lock_count[m] + 1 ELSE 1
      /\ \A n \in Slots \ {m} : lock_count'[n] = lock_count[n]
  BY <1>1 DEF TypeOK
<1>4. /\ held' \in [Tasks -> [Slots -> Nat]] /\ held'[t][m] = held[t][m] + 1
      /\ \A u \in Tasks, n \in Slots : u # t \/ n # m => held'[u][n] = held[u][n]
  <2> PICK k \in Nat : k = held[t][m] + 1
    BY <1>2
  <2>1. Counted(t, m, k)
    BY <1>1 DEF Counted
  <2>2. /\ held' \in [Tasks -> [Slots -> Nat]] /\ held'[t][m] = k
        /\ \A u \in Tasks, n \in Slots : u # t \/ n # m => held'[u][n] = held[u][n]
    BY <2>1, HeldFacts
  <2> QED  BY <2>2
<1>5. TypeOK'
  <2>1. lock_count[m] + 1 \in Nat
    BY <1>2
  <2>2. owner' \in [Slots -> Tasks \cup {NoTask}] /\ lock_count' \in [Slots -> Nat]
    BY <1>1, <2>1 DEF TypeOK
  <2> QED  BY <1>1, <1>4, <2>2 DEF TypeOK
<1>6. CountMatchesOwner'
  <2>1. lock_count'[m] \in 1 .. held'[t][m]
    BY <1>2, <1>3, <1>4 DEF CountMatchesOwner
  <2> QED  BY <1>3, <1>4, <2>1, MutexAssumption DEF CountMatchesOwner
<1>7. QueuesHaveTakers'
  BY <1>1, <1>3, MutexAssumption DEF QueuesHaveTakers, Taker
<1>8. QueuedWaits' /\ QueuedOnce' /\ WaitingIsQueued'
  BY <1>1 DEF QueuedWaits, QueuedOnce, WaitingIsQueued, Waits
<1> QED  BY <1>5, <1>6, <1>7, <1>8

\* A lock that waits: the caller, which is in no queue, joins the queue of a mutex
\* with an owner.
LEMMA LockStep ==
  ASSUME IInv, NEW t \in Tasks, NEW m \in Slots, mutex_lock(t, m)
  PROVE  IInv'
<1> USE DEF IInv
<1>1. /\ UNCHANGED <<live, owner, lock_count, held>>
      /\ pc' = [pc EXCEPT ![t] = "enq"] /\ on' = [on EXCEPT ![t] = m]
      /\ pc[t] = "idle" /\ live[m] /\ owner[m] # NoTask
  BY DEF mutex_lock, Calls
<1>2. PICK q \in AddWaiterOutcomes(wait_queue[m], t) :
        wait_queue' = [wait_queue EXCEPT ![m] = q]
  BY Zenon DEF mutex_lock
<1>3. q \in Seq(Tasks) /\ Len(q) \in Nat
  BY QueueType, AddWaiterFacts
<1>4. MallocMayFail \/ (Len(q) \in 1 .. Len(q) /\ q[Len(q)] = t)
  BY QueueType, AddWaiterFacts
<1>5. \A i \in 1 .. Len(wait_queue[m]) : i \in 1 .. Len(q) /\ q[i] = wait_queue[m][i]
  BY QueueType, AddWaiterFacts
<1>6. \A i \in 1 .. Len(q) : \/ i \in 1 .. Len(wait_queue[m]) /\ q[i] = wait_queue[m][i]
                             \/ i = Len(wait_queue[m]) + 1 /\ q[i] = t
  BY QueueType, AddedLast
<1>7. \A n \in Slots : \A i \in 1 .. Len(wait_queue[n]) : wait_queue[n][i] # t
  BY <1>1 DEF QueuedWaits
<1>8. wait_queue'[m] = q /\ \A n \in Slots \ {m} : wait_queue'[n] = wait_queue[n]
  BY <1>2 DEF TypeOK
<1>9. /\ pc'[t] = "enq" /\ on'[t] = m
      /\ \A u \in Tasks \ {t} : pc'[u] = pc[u] /\ on'[u] = on[u]
  BY <1>1 DEF TypeOK
<1>10. TypeOK'
  <2>1. pc' \in [Tasks -> PCs] /\ on' \in [Tasks -> Slots]
    BY <1>1, SMTT(30) DEF TypeOK, PCs
  <2>2. wait_queue' \in [Slots -> Seq(Tasks)]
    BY <1>2, <1>3 DEF TypeOK
  <2> QED  BY <1>1, <2>1, <2>2, SMTT(30) DEF TypeOK
<1>11. CountMatchesOwner'
  BY <1>1 DEF CountMatchesOwner
<1>12. QueuesHaveTakers'
  <2> SUFFICES ASSUME NEW n \in Slots \ {m}, wait_queue[n] # <<>>
               PROVE  Taker(n)'
    BY <1>1, <1>8 DEF QueuesHaveTakers, Taker
  <2>1. Taker(n)
    BY DEF QueuesHaveTakers
  <2>2. \A u \in Tasks : pc[u] = "woken" => pc'[u] = "woken" /\ on'[u] = on[u]
    BY <1>1, <1>9
  <2> QED  BY <1>1, <2>1, <2>2 DEF Taker
<1>13. QueuedWaits'
  <2> SUFFICES ASSUME NEW n \in Slots, NEW i \in 1 .. Len(wait_queue'[n])
               PROVE  /\ live[n] /\ on'[wait_queue'[n][i]] = n
                      /\ pc'[wait_queue'[n][i]] \in {"enq", "blocked"}
    BY <1>1 DEF QueuedWaits
  <2>1. CASE n = m /\ wait_queue'[n][i] = t
    BY <2>1, <1>1, <1>9
  <2>2. CASE i \in 1 .. Len(wait_queue[n]) /\ wait_queue'[n][i] = wait_queue[n][i]
    <3>1. wait_queue[n][i] \in Tasks \ {t}
      BY <2>2, <1>7, QueueType
    <3> QED  BY <2>2, <3>1, <1>9 DEF QueuedWaits
  <2> QED  BY <2>1, <2>2, <1>6, <1>8
<1>14. QueuedOnce'
  <2> SUFFICES ASSUME NEW n \in Slots, NEW i \in 1 .. Len(wait_queue'[n]),
                      NEW j \in 1 .. Len(wait_queue'[n]), wait_queue'[n][i] = wait_queue'[n][j]
               PROVE  i = j
    BY DEF QueuedOnce
  <2>1. CASE n = m
    BY <2>1, <1>6, <1>7, <1>8 DEF QueuedOnce
  <2>2. CASE n # m
    BY <2>2, <1>8 DEF QueuedOnce
  <2> QED  BY <2>1, <2>2
<1>15. WaitingIsQueued'
  <2> SUFFICES ASSUME ~ MallocMayFail, NEW u \in Tasks, pc'[u] \in {"enq", "blocked"}
               PROVE  live[on'[u]] /\ Waits(u, on[u])'
    BY <1>1 DEF WaitingIsQueued
  <2>1. CASE u = t
    BY <2>1, <1>1, <1>4, <1>8, <1>9 DEF Waits
  <2>2. CASE u # t
    <3>1. on'[u] = on[u] /\ on[u] \in Slots /\ live[on[u]] /\ Waits(u, on[u])
      BY <2>2, <1>9, SMTT(30) DEF WaitingIsQueued, TypeOK
    <3>2. PICK i \in 1 .. Len(wait_queue[on[u]]) : wait_queue[on[u]][i] = u
      BY <3>1 DEF Waits
    <3>3. i \in 1 .. Len(wait_queue'[on[u]]) /\ wait_queue'[on[u]][i] = u
      BY <3>1, <3>2, <1>5, <1>8
    <3> QED  BY <3>1, <3>3 DEF Waits
  <2> QED  BY <2>1, <2>2
<1> QED  BY <1>10, <1>11, <1>12, <1>13, <1>14, <1>15

\* block_task moves a task that is about to block on to blocked.
LEMMA BlockStep ==
  ASSUME IInv, NEW t \in Tasks, block_task(t)
  PROVE  IInv'
<1> USE DEF IInv
<1>1. /\ UNCHANGED <<live, owner, lock_count, wait_queue, on, held>>
      /\ pc[t] = "enq" /\ pc' = [pc EXCEPT ![t] = "blocked"]
  BY DEF block_task
<1>2. pc'[t] = "blocked" /\ \A u \in Tasks \ {t} : pc'[u] = pc[u]
  BY <1>1 DEF TypeOK
<1>3. TypeOK'
  BY <1>1 DEF TypeOK, PCs
<1>4. CountMatchesOwner' /\ QueuedOnce'
  BY <1>1 DEF CountMatchesOwner, QueuedOnce
<1>5. QueuedWaits'
  BY <1>1, <1>2, QueueType DEF QueuedWaits
<1>6. QueuesHaveTakers'
  <2>1. \A u \in Tasks : pc[u] = "woken" => pc'[u] = "woken"
    BY <1>1, <1>2
  <2>2. \A m \in Slots : Taker(m) => Taker(m)'
    BY <1>1, <2>1 DEF Taker
  <2> QED  BY <1>1, <2>2 DEF QueuesHaveTakers
<1>7. WaitingIsQueued'
  BY <1>1, <1>2 DEF WaitingIsQueued, Waits
<1> QED  BY <1>3, <1>4, <1>5, <1>6, <1>7

\* A woken task takes the mutex, whoever owns it by then and even if it is gone.
LEMMA ReturnsStep ==
  ASSUME IInv, NEW t \in Tasks, LockReturns(t)
  PROVE  IInv'
<1> USE DEF IInv
<1> PICK m \in Slots : m = on[t]
  BY DEF TypeOK
<1>1. /\ UNCHANGED <<live, wait_queue>>
      /\ pc[t] = "woken" /\ pc' = [pc EXCEPT ![t] = "idle"] /\ on' = [on EXCEPT ![t] = 1]
      /\ owner' = [owner EXCEPT ![m] = t] /\ lock_count' = [lock_count EXCEPT ![m] = 1]
      /\ held' = [held EXCEPT ![t][m] = held[t][m] + 1]
  BY DEF LockReturns
<1>2. held[t][m] \in Nat /\ held[t][m] + 1 \in Nat
  BY DEF TypeOK
<1>3. /\ held' \in [Tasks -> [Slots -> Nat]] /\ held'[t][m] = held[t][m] + 1
      /\ \A u \in Tasks, n \in Slots : u # t \/ n # m => held'[u][n] = held[u][n]
  <2> PICK k \in Nat : k = held[t][m] + 1
    BY <1>2
  <2>1. Counted(t, m, k)
    BY <1>1 DEF Counted
  <2>2. /\ held' \in [Tasks -> [Slots -> Nat]] /\ held'[t][m] = k
        /\ \A u \in Tasks, n \in Slots : u # t \/ n # m => held'[u][n] = held[u][n]
    BY <2>1, HeldFacts
  <2> QED  BY <2>2
<1>4. /\ owner'[m] = t /\ lock_count'[m] = 1
      /\ \A n \in Slots \ {m} : owner'[n] = owner[n] /\ lock_count'[n] = lock_count[n]
  BY <1>1, <1>2 DEF TypeOK
<1>5. pc'[t] = "idle" /\ \A u \in Tasks \ {t} : pc'[u] = pc[u] /\ on'[u] = on[u]
  BY <1>1 DEF TypeOK
<1>6. TypeOK'
  <2>1. pc' \in [Tasks -> PCs] /\ on' \in [Tasks -> Slots]
    BY <1>1, MutexAssumption DEF TypeOK, PCs
  <2>2. owner' \in [Slots -> Tasks \cup {NoTask}] /\ lock_count' \in [Slots -> Nat]
    BY <1>1, <1>2 DEF TypeOK
  <2> QED  BY <1>1, <1>3, <2>1, <2>2, SMTT(30) DEF TypeOK
<1>7. CountMatchesOwner'
  <2>1. lock_count'[m] \in 1 .. held'[t][m]
    BY <1>2, <1>3, <1>4
  <2> QED  BY <1>3, <1>4, <2>1, MutexAssumption DEF CountMatchesOwner
<1>8. QueuesHaveTakers'
  <2>1. Taker(m)'
    BY <1>4, MutexAssumption DEF Taker
  <2>2. \A n \in Slots \ {m} : Taker(n) => Taker(n)'
    BY <1>4, <1>5 DEF Taker
  <2> QED  BY <1>1, <2>1, <2>2 DEF QueuesHaveTakers
<1>9. QueuedWaits' /\ QueuedOnce'
  <2>1. \A n \in Slots : \A i \in 1 .. Len(wait_queue[n]) : wait_queue[n][i] \in Tasks \ {t}
    BY <1>1, QueueType DEF QueuedWaits
  <2> QED  BY <1>1, <1>5, <2>1, SMTT(30) DEF QueuedWaits, QueuedOnce
<1>10. WaitingIsQueued'
  BY <1>1, <1>5 DEF WaitingIsQueued, Waits
<1> QED  BY <1>6, <1>7, <1>8, <1>9, <1>10

\* What an unlock, partial or last, does to the counts.
LEMMA UnlockCounts ==
  ASSUME IInv, NEW t \in Tasks, NEW m \in Slots, mutex_unlock(t, m)
  PROVE  /\ held' \in [Tasks -> [Slots -> Nat]] /\ lock_count' \in [Slots -> Nat]
         /\ owner' \in [Slots -> Tasks \cup {NoTask}]
         /\ CountMatchesOwner'
<1> USE DEF IInv
<1>1. /\ owner[m] = t
      /\ lock_count' = [lock_count EXCEPT ![m] = lock_count[m] - 1]
      /\ held' = [held EXCEPT ![t][m] = held[t][m] - 1]
      /\ owner' = IF lock_count[m] = 1 THEN [owner EXCEPT ![m] = NoTask] ELSE owner
  BY DEF mutex_unlock
<1>2. /\ lock_count[m] \in Nat /\ held[t][m] \in Nat /\ lock_count[m] \in 1 .. held[t][m]
      /\ lock_count[m] - 1 \in Nat /\ held[t][m] - 1 \in Nat
  <2>1. lock_count[m] \in Nat /\ held[t][m] \in Nat
    BY DEF TypeOK
  <2>2. lock_count[m] \in 1 .. held[t][m]
    BY <1>1 DEF CountMatchesOwner
  <2> QED  BY <2>1, <2>2
<1>3. /\ held' \in [Tasks -> [Slots -> Nat]] /\ held'[t][m] = held[t][m] - 1
      /\ \A u \in Tasks, n \in Slots : u # t \/ n # m => held'[u][n] = held[u][n]
  <2> PICK k \in Nat : k = held[t][m] - 1
    BY <1>2
  <2>1. Counted(t, m, k)
    BY <1>1 DEF Counted
  <2>2. /\ held' \in [Tasks -> [Slots -> Nat]] /\ held'[t][m] = k
        /\ \A u \in Tasks, n \in Slots : u # t \/ n # m => held'[u][n] = held[u][n]
    BY <2>1, HeldFacts
  <2> QED  BY <2>2
<1>4. /\ lock_count' \in [Slots -> Nat] /\ owner' \in [Slots -> Tasks \cup {NoTask}]
      /\ lock_count'[m] = lock_count[m] - 1
      /\ owner'[m] = IF lock_count[m] = 1 THEN NoTask ELSE t
      /\ \A n \in Slots \ {m} : owner'[n] = owner[n] /\ lock_count'[n] = lock_count[n]
  BY <1>1, <1>2, SMTT(30) DEF TypeOK
<1>5. CountMatchesOwner'
  <2>1. owner'[m] = NoTask => lock_count'[m] = 0
    BY <1>4, MutexAssumption
  <2>2. owner'[m] = t => lock_count'[m] \in 1 .. held'[t][m]
    BY <1>2, <1>3, <1>4, MutexAssumption, SMTT(30)
  <2>3. owner'[m] \in {t, NoTask}
    BY <1>4
  <2> QED  BY <1>3, <1>4, <2>1, <2>2, <2>3, MutexAssumption DEF CountMatchesOwner
<1> QED  BY <1>3, <1>4, <1>5

\* An unlock with nobody to wake: the queues stay as they are.
LEMMA UnlockWithoutWaking ==
  ASSUME IInv, NEW t \in Tasks, NEW m \in Slots, mutex_unlock(t, m),
         lock_count[m] # 1 \/ wait_queue[m] = <<>>
  PROVE  IInv'
<1> USE DEF IInv
<1>1. UNCHANGED <<live, on>> /\ owner' = IF lock_count[m] = 1 THEN [owner EXCEPT ![m] = NoTask] ELSE owner
  BY DEF mutex_unlock
<1>2. wait_queue' = wait_queue
  BY DEF mutex_unlock, AfterWakeFirst, TypeOK
<1>3. pc' = pc
  BY DEF mutex_unlock, WokenFirst, Unblock, TypeOK
<1>4. TypeOK' /\ CountMatchesOwner'
  BY <1>1, <1>2, <1>3, UnlockCounts, Zenon DEF TypeOK
<1>5. QueuesHaveTakers'
  <2>1. \A n \in Slots : wait_queue[n] # <<>> => owner'[n] = owner[n]
    BY <1>1 DEF TypeOK
  <2> QED  BY <1>1, <1>2, <1>3, <2>1 DEF QueuesHaveTakers, Taker
<1>6. QueuedWaits' /\ QueuedOnce' /\ WaitingIsQueued'
  BY <1>1, <1>2, <1>3, SMTT(30) DEF QueuedWaits, QueuedOnce, WaitingIsQueued, Waits
<1> QED  BY <1>4, <1>5, <1>6

\* The last unlock of a mutex with waiters: the first one leaves the queue, wakes up
\* and will take the mutex.
LEMMA UnlockWakes ==
  ASSUME IInv, NEW t \in Tasks, NEW m \in Slots, mutex_unlock(t, m),
         lock_count[m] = 1, wait_queue[m] # <<>>
  PROVE  IInv'
<1> USE DEF IInv
<1> DEFINE q == wait_queue[m]
           w == Head(q)
<1>1. UNCHANGED <<live, on>> /\ owner' = [owner EXCEPT ![m] = NoTask] /\ Calls(t)
  BY DEF mutex_unlock
<1>2. wait_queue' = [wait_queue EXCEPT ![m] = Tail(q)] /\ pc' = Unblock(pc, {w})
  BY Zenon DEF mutex_unlock, WokenFirst, AfterWakeFirst, TypeOK
<1>3. q \in Seq(Tasks) /\ Len(q) \in Nat \ {0}
  BY QueueType, TailFacts
<1>4. /\ w = q[1] /\ w \in Tasks
      /\ Tail(q) \in Seq(Tasks) /\ Len(Tail(q)) = Len(q) - 1
      /\ \A i \in 1 .. Len(Tail(q)) : i + 1 \in 2 .. Len(q) /\ Tail(q)[i] = q[i + 1]
      /\ \A i \in 2 .. Len(q) : i - 1 \in 1 .. Len(Tail(q)) /\ Tail(q)[i - 1] = q[i]
  BY <1>3, TailFacts
<1>5. 1 \in 1 .. Len(q) /\ Waits(w, m) /\ on[w] = m
  BY <1>3, <1>4 DEF Waits, QueuedWaits
<1>6. wait_queue'[m] = Tail(q) /\ \A n \in Slots \ {m} : wait_queue'[n] = wait_queue[n]
  BY <1>2 DEF TypeOK
<1> HIDE DEF w, q
<1>7. pc' \in [Tasks -> PCs] /\ pc'[w] = "woken" /\ \A u \in Tasks \ {w} : pc'[u] = pc[u]
  <2>1. {w} \in SUBSET Tasks /\ \A u \in {w} : Waits(u, m)
    BY <1>4, <1>5
  <2> QED  BY <1>1, <1>2, <2>1, WakeFacts, Zenon
<1>8. \A n \in Slots : \A i \in 1 .. Len(wait_queue'[n]) :
        \E j \in 1 .. Len(wait_queue[n]) : wait_queue[n][j] = wait_queue'[n][i] /\ wait_queue[n][j] # w
  <2> SUFFICES ASSUME NEW n \in Slots, NEW i \in 1 .. Len(wait_queue'[n])
               PROVE  \E j \in 1 .. Len(wait_queue[n]) :
                        wait_queue[n][j] = wait_queue'[n][i] /\ wait_queue[n][j] # w
    OBVIOUS
  <2>1. CASE n = m
    <3>1. wait_queue'[n][i] = q[i + 1] /\ i + 1 \in 2 .. Len(q)
      BY <2>1, <1>4, <1>6
    <3>2. i + 1 \in 1 .. Len(q) /\ i + 1 # 1
      BY <3>1, <1>3
    <3>3. q[i + 1] # q[1]
      BY <3>2, <1>5 DEF QueuedOnce, q
    <3> QED  BY <2>1, <3>1, <3>2, <3>3, <1>4 DEF q
  <2>2. CASE n # m
    <3>1. wait_queue'[n] = wait_queue[n]
      BY <2>2, <1>6
    <3>2. on[wait_queue[n][i]] = n
      BY <3>1, SMTT(30) DEF QueuedWaits
    <3> QED  BY <2>2, <3>1, <3>2, <1>5
  <2> QED  BY <2>1, <2>2
<1>9. TypeOK' /\ CountMatchesOwner'
  <2>1. wait_queue' \in [Slots -> Seq(Tasks)]
    BY <1>2, <1>4 DEF TypeOK
  <2> QED  BY <1>1, <1>7, <2>1, UnlockCounts, Zenon DEF TypeOK
<1>10. QueuesHaveTakers'
  <2>1. Taker(m)'
    BY <1>1, <1>4, <1>5, <1>7 DEF Taker
  <2>2. \A u \in Tasks : pc[u] = "woken" => pc'[u] = "woken"
    BY <1>7
  <2>3. \A n \in Slots \ {m} : Taker(n) => Taker(n)'
    BY <1>1, <2>2 DEF Taker, TypeOK
  <2> QED  BY <1>6, <2>1, <2>3 DEF QueuesHaveTakers
<1>11. QueuedWaits'
  <2> SUFFICES ASSUME NEW n \in Slots, NEW i \in 1 .. Len(wait_queue'[n])
               PROVE  /\ live[n] /\ on[wait_queue'[n][i]] = n
                      /\ pc'[wait_queue'[n][i]] \in {"enq", "blocked"}
    BY <1>1 DEF QueuedWaits
  <2>1. PICK j \in 1 .. Len(wait_queue[n]) :
          wait_queue[n][j] = wait_queue'[n][i] /\ wait_queue[n][j] # w
    BY <1>8, Zenon
  <2>2. wait_queue[n][j] \in Tasks \ {w}
    BY <2>1, QueueType
  <2> QED  BY <2>1, <2>2, <1>7, SMTT(30) DEF QueuedWaits
<1>12. QueuedOnce'
  <2> SUFFICES ASSUME NEW n \in Slots, NEW i \in 1 .. Len(wait_queue'[n]),
                      NEW j \in 1 .. Len(wait_queue'[n]), wait_queue'[n][i] = wait_queue'[n][j]
               PROVE  i = j
    BY DEF QueuedOnce
  <2>1. CASE n = m
    <3>1. i + 1 \in 2 .. Len(q) /\ j + 1 \in 2 .. Len(q) /\ q[i + 1] = q[j + 1]
      BY <2>1, <1>4, <1>6
    <3>2. i + 1 \in 1 .. Len(q) /\ j + 1 \in 1 .. Len(q) /\ i \in Int /\ j \in Int
      BY <2>1, <3>1, <1>3, <1>4, <1>6
    <3>3. i + 1 = j + 1
      BY <3>1, <3>2, SMTT(30) DEF QueuedOnce, q
    <3> QED  BY <3>2, <3>3
  <2>2. CASE n # m
    BY <2>2, <1>6 DEF QueuedOnce
  <2> QED  BY <2>1, <2>2
<1>13. WaitingIsQueued'
  <2> SUFFICES ASSUME ~ MallocMayFail, NEW u \in Tasks, pc'[u] \in {"enq", "blocked"}
               PROVE  live[on[u]] /\ Waits(u, on[u])'
    BY <1>1, SMTT(30) DEF WaitingIsQueued
  <2>1. u # w /\ pc'[u] = pc[u]
    BY <1>7
  <2>2. live[on[u]] /\ Waits(u, on[u]) /\ on[u] \in Slots
    BY <2>1, Zenon DEF WaitingIsQueued, TypeOK
  <2>3. PICK i \in 1 .. Len(wait_queue[on[u]]) : wait_queue[on[u]][i] = u
    BY <2>2, SMTT(30) DEF Waits
  <2>4. CASE on[u] = m
    <3>1. i \in 1 .. Len(q) /\ q[i] = u /\ i # 1
      BY <2>1, <2>3, <2>4, <1>4 DEF q
    <3>2. i \in 2 .. Len(q)
      BY <3>1, <1>3
    <3>3. i - 1 \in 1 .. Len(Tail(q)) /\ Tail(q)[i - 1] = u
      BY <3>1, <3>2, <1>4
    <3> QED  BY <2>2, <2>4, <3>3, <1>1, <1>6, Zenon DEF Waits
  <2>5. CASE on[u] # m
    BY <2>2, <2>3, <2>5, <1>1, <1>6, SMTT(30) DEF Waits
  <2> QED  BY <2>4, <2>5
<1> QED  BY <1>9, <1>10, <1>11, <1>12, <1>13

\* Every step of the specification keeps the invariant.
LEMMA StepHolds == IInv /\ [Next]_vars => IInv'
<1> SUFFICES ASSUME IInv, [Next]_vars PROVE IInv'
  OBVIOUS
<1>1. CASE UNCHANGED vars
  BY <1>1, SMTT(30) DEF vars, IInv, TypeOK, CountMatchesOwner, QueuesHaveTakers, Taker, QueuedWaits,
              QueuedOnce, WaitingIsQueued, Waits
<1>2. CASE Next
  <2>1. PICK t \in Tasks :
          \/ create_mutex(t)
          \/ \E m \in Destroyable : destroy_mutex(t, m)
          \/ \E m \in Slots : mutex_trylock(t, m) \/ mutex_lock(t, m)
          \/ block_task(t) \/ LockReturns(t)
          \/ \E m \in Slots : mutex_unlock(t, m)
    BY <1>2 DEF Next
  <2>2. CASE create_mutex(t)
    BY <2>2, CreateStep
  <2>3. CASE \E m \in Destroyable : destroy_mutex(t, m)
    BY <2>3, DestroyStep, MutexAssumption
  <2>4. CASE \E m \in Slots : mutex_trylock(t, m) \/ mutex_lock(t, m)
    BY <2>4, TrylockStep, LockStep
  <2>5. CASE block_task(t) \/ LockReturns(t)
    BY <2>5, BlockStep, ReturnsStep
  <2>6. CASE \E m \in Slots : mutex_unlock(t, m)
    BY <2>6, UnlockWithoutWaking, UnlockWakes
  <2> QED  BY <2>1, <2>2, <2>3, <2>4, <2>5, <2>6
<1> QED  BY <1>1, <1>2

\* The waiters that leave a queue are its first one, or all of them, and each of
\* these wakes up.
LEMMA TurnStep ==
  ASSUME IInv, Next, NEW m \in Slots, NEW t \in Tasks, NEW u \in Tasks,
         NotBehind(t, u, m), ~ Waits(u, m)'
  PROVE  ~ Waits(t, m)' /\ pc'[t] = "woken"
<1> DEFINE q == wait_queue[m]
<1>1. PICK i \in 1 .. Len(q), j \in 1 .. Len(q) : i <= j /\ q[i] = t /\ q[j] = u
  BY DEF NotBehind
<1>2. q \in Seq(Tasks) /\ Len(q) \in Nat /\ live[m] /\ wait_queue \in [Slots -> Seq(Tasks)]
  BY <1>1, QueueType DEF IInv, QueuedWaits, TypeOK
<1>3. wait_queue'[m] # q
  BY <1>1 DEF Waits
<1>4. PICK a \in Tasks :
        \/ create_mutex(a)
        \/ \E n \in Destroyable : destroy_mutex(a, n)
        \/ \E n \in Slots : mutex_trylock(a, n) \/ mutex_lock(a, n)
        \/ block_task(a) \/ LockReturns(a)
        \/ \E n \in Slots : mutex_unlock(a, n)
  BY DEF Next
<1>5. CASE create_mutex(a)
  <2>1. find_free_mutex \in Slots /\ ~ live[find_free_mutex]
    BY <1>5, FindsFree DEF create_mutex, FreeSlots
  <2>2. find_free_mutex # m
    BY <1>2, <2>1
  <2>3. wait_queue' = [wait_queue EXCEPT ![find_free_mutex] = <<>>]
    BY <1>5 DEF create_mutex, Clear
  <2> QED  BY <1>2, <1>3, <2>2, <2>3
<1>6. ASSUME NEW n \in Slots, destroy_mutex(a, n) PROVE ~ Waits(t, m)' /\ pc'[t] = "woken"
  <2>1. wait_queue' = [wait_queue EXCEPT ![n] = <<>>]
    BY <1>6 DEF destroy_mutex, Clear
  <2>2. n = m /\ wait_queue'[m] = <<>>
    BY <1>2, <1>3, <2>1
  <2>3. Calls(a) /\ pc' = Unblock(pc, WokenAll(q))
    BY <1>6, <2>2 DEF destroy_mutex
  <2>4. WokenAll(q) \in SUBSET Tasks /\ t \in WokenAll(q) /\ \A x \in WokenAll(q) : Waits(x, m)
    BY <1>1, <1>2 DEF WokenAll, Waits
  <2>5. \A x \in WokenAll(q) : pc'[x] = "woken"
    BY <2>3, <2>4, WakeFacts, Zenon
  <2>6. ~ Waits(t, m)'
    BY <2>2 DEF Waits
  <2> QED  BY <2>4, <2>5, <2>6, Zenon
<1>7. ASSUME NEW n \in Slots, mutex_lock(a, n) PROVE FALSE
  <2>1. PICK r \in AddWaiterOutcomes(wait_queue[n], a) :
          wait_queue' = [wait_queue EXCEPT ![n] = r]
    BY <1>7 DEF mutex_lock
  <2>2. n = m /\ wait_queue'[m] = r
    BY <1>2, <1>3, <2>1
  <2>3. j \in 1 .. Len(r) /\ r[j] = u
    BY <1>1, <1>2, <2>1, <2>2, AddWaiterFacts
  <2> QED  BY <2>2, <2>3 DEF Waits
<1>8. CASE \E n \in Slots : mutex_trylock(a, n)
  BY <1>3, <1>8 DEF mutex_trylock
<1>9. CASE block_task(a) \/ LockReturns(a)
  BY <1>3, <1>9 DEF block_task, LockReturns
<1>10. ASSUME NEW n \in Slots, mutex_unlock(a, n) PROVE ~ Waits(t, m)' /\ pc'[t] = "woken"
  <2>1. /\ wait_queue' = [wait_queue EXCEPT ![n] = AfterWakeFirst(@)] /\ Calls(a)
        /\ pc' = Unblock(pc, WokenFirst(wait_queue[n]))
    BY <1>3, <1>10 DEF mutex_unlock
  <2>2. n = m /\ wait_queue'[m] = Tail(q) /\ pc' = Unblock(pc, {Head(q)}) /\ q # <<>>
    BY <1>2, <1>3, <2>1 DEF AfterWakeFirst, WokenFirst
  <2>3. /\ Head(q) = q[1] /\ q[1] \in Tasks /\ Len(Tail(q)) = Len(q) - 1
        /\ \A k \in 1 .. Len(Tail(q)) : k + 1 \in 2 .. Len(q) /\ Tail(q)[k] = q[k + 1]
        /\ \A k \in 2 .. Len(q) : k - 1 \in 1 .. Len(Tail(q)) /\ Tail(q)[k - 1] = q[k]
    BY <1>2, <2>2, TailFacts
  <2>4. j = 1
    <3>1. ASSUME j \in 2 .. Len(q) PROVE FALSE
      <4>1. j - 1 \in 1 .. Len(Tail(q)) /\ Tail(q)[j - 1] = u
        BY <1>1, <2>3, <3>1
      <4> QED  BY <2>2, <4>1, Zenon DEF Waits
    <3> QED  BY <1>1, <1>2, <3>1
  <2>5. i = 1 /\ t = q[1]
    BY <1>1, <2>4
  <2>6. {t} \in SUBSET Tasks /\ \A x \in {t} : Waits(x, m)
    BY <1>1, <2>5 DEF Waits
  <2>7. pc'[t] = "woken"
    <3>1. pc' = Unblock(pc, {t})
      BY <2>2, <2>3, <2>5
    <3>2. \A x \in {t} : pc'[x] = "woken"
      BY <2>1, <2>6, <3>1, WakeFacts, Zenon
    <3> QED  BY <3>2
  <2>8. ~ Waits(t, m)'
    <3> SUFFICES ASSUME NEW k \in 1 .. Len(Tail(q)), Tail(q)[k] = t PROVE FALSE
      BY <2>2 DEF Waits
    <3>1. k + 1 \in 1 .. Len(q) /\ q[k + 1] = q[1] /\ 1 \in 1 .. Len(q) /\ k + 1 # 1
      BY <1>1, <1>2, <2>3, <2>5
    <3> QED  BY <3>1 DEF IInv, QueuedOnce
  <2> QED  BY <2>7, <2>8
<1> QED  BY <1>4, <1>5, <1>6, <1>7, <1>8, <1>9, <1>10, MutexAssumption

\* The state is well typed.
THEOREM MutexTypes == Spec => []TypeOK
<1>1. IInv => TypeOK
  BY DEF IInv
<1> QED  BY InitHolds, StepHolds, <1>1, PTL DEF Spec

\* However locks, nested locks, unlocks, creations and destructions interleave, and
\* though a woken task takes the mutex without looking (mutex_lock): an owned mutex
\* has a positive count that its owner's unlocks can bring to 0, and a free one has
\* count 0.
THEOREM MutexCounts == Spec => []CountMatchesOwner
<1>1. IInv => CountMatchesOwner
  BY DEF IInv
<1> QED  BY InitHolds, StepHolds, <1>1, PTL DEF Spec

\* While add_waiter can allocate, mutex_unlock and destroy_mutex leave nobody behind:
\* a blocked task is in the queue of a live mutex, and a queue that is not empty has
\* an owner, or a woken task, to come and wake its first waiter.
THEOREM MutexStrandsNobody ==
  ASSUME ~ MallocMayFail
  PROVE  Spec => []NoStrandedWaiter
<1>1. IInv => NoStrandedWaiter
  BY DEF IInv, WaitingIsQueued, QueuesHaveTakers, Taker, NoStrandedWaiter
<1> QED  BY InitHolds, StepHolds, <1>1, PTL DEF Spec

\* Whatever the tasks do meanwhile, and also when waiters cannot be allocated, the
\* waiters of a mutex are woken in the order in which add_waiter queued them, and
\* none leaves the queue otherwise (mutex_unlock, destroy_mutex).
THEOREM MutexWakesInTurn == Spec => WokenInTurn
<1>1. IInv /\ [Next]_vars =>
        [\A m \in Slots, t, u \in Tasks :
           NotBehind(t, u, m) /\ ~ Waits(u, m)' => ~ Waits(t, m)' /\ pc'[t] = "woken"]_vars
  BY TurnStep
<1> QED  BY <1>1, InitHolds, StepHolds, PTL DEF Spec, WokenInTurn

=============================================================================
