--------------------------- MODULE SemaphoreProofs ---------------------------
(***************************************************************************)
(* Proofs about Semaphore, for any tasks, pool, initial values and number  *)
(* of posts, with and without failing allocations: permits are conserved,  *)
(* nobody waits while there is one, and a task that blocks can be found.   *)
(***************************************************************************)
EXTENDS Semaphore, FiniteSetTheorems, WellFoundedInduction, TLAPS

-----------------------------------------------------------------------------
(* The wait queues of kernel/ipc.c, and the search for a free slot of a pool. *)

\* The search of a pool from its first slot on has a result.
LEMMA LeastExists ==
  ASSUME NEW S \in SUBSET Nat, S # {}
  PROVE  \E s \in S : \A r \in S : s <= r
<1>1. \E s \in S : \A r \in S : ~ (<<r, s>> \in OpToRel(<, Nat))
  BY NatLessThanWellFounded, WFMin
<1>2. \A r, s \in Nat : r < s => <<r, s>> \in OpToRel(<, Nat)
  BY DEF OpToRel
<1>3. PICK s \in S : \A r \in S : ~ (r < s)
  BY <1>1, <1>2
<1> QED  BY <1>3

\* What wake_waiters does to the tasks it wakes: while another task runs, none of
\* them is still on its way to block.
LEMMA UnblockFacts ==
  ASSUME NEW P, "woken" \in P, NEW p \in [Tasks -> P],
         NEW t \in Tasks, p[t] = "idle", MayRun(p, t),
         NEW W \in SUBSET Tasks, \A u \in W : p[u] \in {"enq", "blocked", "ended"}
  PROVE  /\ Unblock(p, W) \in [Tasks -> P]
         /\ \A u \in W : Unblock(p, W)[u] = IF p[u] = "ended" THEN "ended" ELSE "woken"
         /\ \A u \in Tasks \ W : Unblock(p, W)[u] = p[u]
<1>1. \A u \in W : p[u] # "enq"
  BY DEF MayRun
<1> QED  BY <1>1 DEF Unblock

\* A queue whose first waiter is taken: the others move up by one.
LEMMA TailFacts ==
  ASSUME NEW q \in Seq(Tasks), q # <<>>
  PROVE  /\ Len(q) \in Nat \ {0} /\ Head(q) = q[1] /\ q[1] \in Tasks
         /\ Tail(q) \in Seq(Tasks) /\ Len(Tail(q)) = Len(q) - 1
         /\ \A i \in 1 .. Len(Tail(q)) : i + 1 \in 2 .. Len(q) /\ Tail(q)[i] = q[i + 1]
         /\ \A i \in 2 .. Len(q) : i - 1 \in 1 .. Len(Tail(q)) /\ Tail(q)[i - 1] = q[i]
<1>1. /\ Len(q) \in Nat \ {0} /\ Head(q) = q[1] /\ q[1] \in Tasks
      /\ Tail(q) \in Seq(Tasks) /\ Len(Tail(q)) = Len(q) - 1
  OBVIOUS
<1>2. \A i \in 1 .. Len(Tail(q)) : i + 1 \in 2 .. Len(q) /\ Tail(q)[i] = q[i + 1]
  BY <1>1
<1>3. \A i \in 2 .. Len(q) : i - 1 \in 1 .. Len(Tail(q)) /\ (i - 1) + 1 = i
  BY <1>1
<1>4. \A i \in 2 .. Len(q) : Tail(q)[i - 1] = q[i]
  BY <1>2, <1>3
<1> QED  BY <1>1, <1>2, <1>3, <1>4

\* add_waiter leaves the waiters where they are, and puts the new one behind them
\* or nowhere.
LEMMA AddWaiterFacts ==
  ASSUME NEW q \in Seq(Tasks), NEW t \in Tasks, NEW r \in AddWaiterOutcomes(q, t)
  PROVE  /\ r \in Seq(Tasks) /\ Len(r) \in Nat /\ Len(q) \in Nat
         /\ r = q => MallocMayFail
         /\ r # q => Len(r) = Len(q) + 1 /\ r[Len(r)] = t
         /\ \A i \in 1 .. Len(q) : i \in 1 .. Len(r) /\ r[i] = q[i]
<1>1. r = Append(q, t) \/ (r = q /\ MallocMayFail)
  BY DEF AddWaiterOutcomes
<1>2. CASE r = Append(q, t)
  BY <1>2
<1>3. CASE r = q /\ MallocMayFail
  BY <1>3
<1> QED  BY <1>1, <1>2, <1>3

\* Nobody else is in the queue that add_waiter leaves.
LEMMA AddedLast ==
  ASSUME NEW q \in Seq(Tasks), NEW t \in Tasks, NEW r \in AddWaiterOutcomes(q, t),
         NEW i \in 1 .. Len(r)
  PROVE  (i \in 1 .. Len(q) /\ r[i] = q[i]) \/ (i = Len(q) + 1 /\ r[i] = t)
<1>1. r = Append(q, t) \/ r = q
  BY DEF AddWaiterOutcomes
<1> QED  BY <1>1

-----------------------------------------------------------------------------

\* A waiter in the queue of a semaphore is of a task in a wait on it, or of one
\* that has ended there, and no post has served that task yet.
QueuedWaits ==
  \A s \in Slots : \A i \in 1 .. Len(wait_queue[s]) :
    /\ live[s]
    /\ on[wait_queue[s][i]] = s
    /\ pc[wait_queue[s][i]] \in {"enq", "blocked", "ended"}
    /\ ~ permit[wait_queue[s][i]]

\* No task has two waiters in a queue.
QueuedOnce ==
  \A s \in Slots : \A i, j \in 1 .. Len(wait_queue[s]) :
    wait_queue[s][i] = wait_queue[s][j] => i = j

\* A task that was handed a permit has yet to return from its wait, if it lives.
PermitPending == \A t \in Tasks : permit[t] => pc[t] \in {"woken", "ended"}

\* BlockedIsQueued, and the same of a task that is about to block.
WaitingIsQueued ==
  \A t \in Tasks : pc[t] \in {"enq", "blocked"} /\ t \notin unlisted =>
    live[on[t]] /\ Waits(t, on[t])

IInv ==
  /\ TypeOK
  /\ WaitersMeanNoPermit
  /\ PermitsConserved
  /\ QueuedWaits
  /\ QueuedOnce
  /\ PermitPending
  /\ WaitingIsQueued

-----------------------------------------------------------------------------
(* Facts about one state. *)

\* The tasks owed a permit can be counted.
LEMMA OwedIsFinite ==
  ASSUME NEW s \in Slots
  PROVE  IsFiniteSet(Owed(s)) /\ Cardinality(Owed(s)) \in Nat
<1>1. Owed(s) \in SUBSET Tasks
  BY DEF Owed
<1> QED  BY <1>1, SemaphoreAssumption, FS_Subset, FS_CardinalityType

\* find_free_semaphore finds a free slot when there is one.
LEMMA FindsFree ==
  ASSUME FreeSlots # {}
  PROVE  find_free_semaphore \in FreeSlots
<1>1. FreeSlots \in SUBSET Nat
  BY SemaphoreAssumption, Zenon DEF FreeSlots
<1>2. \E s \in FreeSlots : \A r \in FreeSlots : s <= r
  BY <1>1, LeastExists
<1> QED  BY <1>2 DEF find_free_semaphore

\* At boot only the kernel semaphore exists, with its one permit.
LEMMA InitHolds == Init => IInv
<1> SUFFICES ASSUME Init PROVE IInv
  OBVIOUS
<1> USE SemaphoreAssumption DEF Init
<1>1. TypeOK
  BY DEF TypeOK, PCs
<1>2. WaitersMeanNoPermit /\ QueuedWaits /\ QueuedOnce /\ PermitPending /\ WaitingIsQueued
  BY DEF WaitersMeanNoPermit, QueuedWaits, QueuedOnce, PermitPending, WaitingIsQueued
<1>3. PermitsConserved
  <2>1. \A s \in Slots : Owed(s) = {}
    BY DEF Owed
  <2>2. \A s \in Slots : Cardinality(Owed(s)) = 0
    BY <2>1, FS_EmptySet, Zenon
  <2>3. \A s \in Slots : initial[s] \in Int /\ initial[s] = value[s] /\ posts[s] = 0 /\ taken[s] = 0
    OBVIOUS
  <2> QED  BY <2>2, <2>3 DEF PermitsConserved
<1> QED  BY <1>1, <1>2, <1>3 DEF IInv

-----------------------------------------------------------------------------
(* The steps. *)

\* Who waits is in the type.
LEMMA QueueType ==
  ASSUME TypeOK, NEW s \in Slots
  PROVE  /\ wait_queue[s] \in Seq(Tasks) /\ Len(wait_queue[s]) \in Nat
         /\ \A i \in 1 .. Len(wait_queue[s]) : wait_queue[s][i] \in Tasks
<1>1. wait_queue[s] \in Seq(Tasks)
  BY DEF TypeOK
<1> QED  BY <1>1

\* A semaphore that is created or destroyed starts afresh, provided that no task
\* stays waiting in its queue.
LEMMA ResetStep ==
  ASSUME IInv, NEW f \in Slots, NEW v \in Int, v <= MaxValue, NEW b \in BOOLEAN,
         live' = [live EXCEPT ![f] = b], Reset(f, v), UNCHANGED <<on, unlisted>>,
         pc' \in [Tasks -> PCs \cup {"ended"}],
         \A u \in Tasks : \/ pc'[u] = pc[u]
                          \/ Waits(u, f) /\ pc'[u] = "woken",
         \A u \in Tasks : Waits(u, f) => pc'[u] \notin {"enq", "blocked"}
  PROVE  IInv'
<1> USE DEF IInv
<1>1. TypeOK'
  <2>1. /\ live' \in [Slots -> BOOLEAN]
        /\ value' \in [Slots -> {w \in Int : w <= MaxValue}]
        /\ initial' \in [Slots -> Int] /\ posts' \in [Slots -> Nat] /\ taken' \in [Slots -> Nat]
    BY DEF TypeOK, Reset
  <2>2. wait_queue' \in [Slots -> Seq(Tasks)]
    BY DEF TypeOK, Reset
  <2>3. permit' \in [Tasks -> BOOLEAN]
    BY Zenon DEF TypeOK, Reset
  <2> QED  BY <2>1, <2>2, <2>3, SMTT(30) DEF TypeOK
<1>2. \A s \in Slots \ {f} : /\ value'[s] = value[s] /\ wait_queue'[s] = wait_queue[s]
                             /\ initial'[s] = initial[s] /\ posts'[s] = posts[s]
                             /\ taken'[s] = taken[s] /\ live'[s] = live[s]
  BY DEF TypeOK, Reset
<1>3. /\ value'[f] = v /\ wait_queue'[f] = <<>> /\ initial'[f] = v
      /\ posts'[f] = 0 /\ taken'[f] = 0
  BY DEF TypeOK, Reset
<1>4. \A u \in Tasks : permit'[u] <=> permit[u] /\ on[u] # f
  BY Zenon DEF Reset
<1>5. WaitersMeanNoPermit'
  BY <1>2, <1>3 DEF WaitersMeanNoPermit
<1>6. PermitsConserved'
  <2>1. Owed(f)' = {}
    BY <1>4 DEF Owed
  <2>2. \A s \in Slots \ {f} : Owed(s)' = Owed(s)
    BY <1>4 DEF Owed
  <2>3. Cardinality(Owed(f)') = 0
    BY <2>1, FS_EmptySet
  <2>4. v + 0 = v + 0 + 0
    OBVIOUS
  <2>5. ASSUME NEW s \in Slots, live'[s]
        PROVE  initial'[s] + posts'[s] = value'[s] + taken'[s] + Cardinality(Owed(s)')
    <3>1. CASE s = f
      BY <3>1, <1>3, <2>3, <2>4
    <3>2. CASE s # f
      BY <3>2, <1>2, <2>2, <2>5 DEF PermitsConserved
    <3> QED  BY <3>1, <3>2
  <2> QED  BY <2>5 DEF PermitsConserved
<1>7. QueuedWaits'
  <2> SUFFICES ASSUME NEW s \in Slots, NEW i \in 1 .. Len(wait_queue'[s])
               PROVE  /\ live'[s] /\ on[wait_queue'[s][i]] = s
                      /\ pc'[wait_queue'[s][i]] \in {"enq", "blocked", "ended"}
                      /\ ~ permit'[wait_queue'[s][i]]
    BY DEF QueuedWaits
  <2>1. s # f
    BY <1>3
  <2> DEFINE u == wait_queue[s][i]
  <2>2. wait_queue'[s] = wait_queue[s] /\ live'[s] = live[s] /\ i \in 1 .. Len(wait_queue[s])
    BY <1>2, <2>1
  <2>3. /\ u \in Tasks /\ live[s] /\ on[u] = s /\ pc[u] \in {"enq", "blocked", "ended"}
        /\ ~ permit[u]
    BY <2>2, QueueType DEF QueuedWaits
  <2>4. ~ Waits(u, f)
    BY <2>1, <2>3 DEF Waits, QueuedWaits
  <2> QED  BY <1>4, <2>2, <2>3, <2>4, Zenon
<1>8. QueuedOnce'
  <2>1. \A s \in Slots : s = f \/ wait_queue'[s] = wait_queue[s]
    BY <1>2
  <2> QED  BY <1>3, <2>1 DEF QueuedOnce
<1>9. PermitPending'
  BY <1>4 DEF PermitPending
<1>10. WaitingIsQueued'
  <2> SUFFICES ASSUME NEW u \in Tasks, pc'[u] \in {"enq", "blocked"}, u \notin unlisted
               PROVE  live'[on[u]] /\ Waits(u, on[u])'
    BY DEF WaitingIsQueued
  <2>1. pc[u] \in {"enq", "blocked"} /\ ~ Waits(u, f)
    OBVIOUS
  <2>2. live[on[u]] /\ Waits(u, on[u]) /\ on[u] \in Slots
    BY <2>1, SMTT(30) DEF WaitingIsQueued, TypeOK
  <2>3. on[u] \in Slots \ {f}
    BY <2>1, <2>2
  <2> QED  BY <1>2, <2>2, <2>3 DEF Waits
<1> QED  BY <1>1, <1>5, <1>6, <1>7, <1>8, <1>9, <1>10

\* create_semaphore takes a free slot, in whose queue nobody waits.
LEMMA CreateStep ==
  ASSUME IInv, NEW t \in Tasks, NEW v \in InitialValues, create_semaphore(t, v)
  PROVE  IInv'
<1> DEFINE f == find_free_semaphore
<1>1. f \in Slots /\ ~ live[f]
  BY FindsFree DEF create_semaphore, FreeSlots
<1>2. \A u \in Tasks : ~ Waits(u, f)
  BY <1>1 DEF IInv, QueuedWaits, Waits
<1>3. v \in Int /\ v <= MaxValue
  BY SemaphoreAssumption
<1>4. /\ live' = [live EXCEPT ![f] = TRUE] /\ Reset(f, v) /\ UNCHANGED <<on, unlisted>>
      /\ pc' = pc
  BY DEF create_semaphore
<1>5. pc' \in [Tasks -> PCs \cup {"ended"}]
  BY <1>4 DEF IInv, TypeOK
<1> HIDE DEF f
<1> QED  BY <1>1, <1>2, <1>3, <1>4, <1>5, ResetStep, Zenon

\* Waking waiters of a semaphore changes those that have not ended, and no others.
LEMMA WakeFacts ==
  ASSUME IInv, NEW t \in Tasks, Calls(t), NEW s \in Slots, NEW W \in SUBSET Tasks,
         \A u \in W : Waits(u, s), pc' = Unblock(pc, W)
  PROVE  /\ pc' \in [Tasks -> PCs \cup {"ended"}]
         /\ \A u \in W : (pc'[u] = pc[u] /\ pc'[u] = "ended") \/ pc'[u] = "woken"
         /\ \A u \in Tasks \ W : pc'[u] = pc[u]
<1> DEFINE P == PCs \cup {"ended"}
<1>1. pc \in [Tasks -> P] /\ "woken" \in P
  BY DEF IInv, TypeOK, PCs
<1>2. \A u \in W : pc[u] \in {"enq", "blocked", "ended"}
  BY DEF IInv, QueuedWaits, Waits
<1>3. pc[t] = "idle" /\ MayRun(pc, t)
  BY DEF Calls
<1> HIDE DEF P
<1>4. /\ Unblock(pc, W) \in [Tasks -> P]
      /\ \A u \in W : Unblock(pc, W)[u] = IF pc[u] = "ended" THEN "ended" ELSE "woken"
      /\ \A u \in Tasks \ W : Unblock(pc, W)[u] = pc[u]
  BY <1>1, <1>2, <1>3, UnblockFacts
<1> QED  BY <1>4 DEF P

\* destroy_semaphore wakes every waiter before it clears the slot.
LEMMA DestroyStep ==
  ASSUME IInv, NEW t \in Tasks, NEW s \in Slots, destroy_semaphore(t, s)
  PROVE  IInv'
<1> DEFINE W == WokenAll(wait_queue[s])
<1>1. W \subseteq Tasks /\ \A u \in Tasks : u \in W <=> Waits(u, s)
  BY QueueType DEF IInv, WokenAll, Waits
<1>2. /\ Calls(t) /\ live' = [live EXCEPT ![s] = FALSE] /\ Reset(s, 0)
      /\ UNCHANGED <<on, unlisted>> /\ pc' = Unblock(pc, W)
  BY DEF destroy_semaphore
<1> HIDE DEF W
<1>3. /\ pc' \in [Tasks -> PCs \cup {"ended"}]
      /\ \A u \in W : (pc'[u] = pc[u] /\ pc'[u] = "ended") \/ pc'[u] = "woken"
      /\ \A u \in Tasks \ W : pc'[u] = pc[u]
  BY <1>1, <1>2, WakeFacts
<1>4. \A u \in Tasks : Waits(u, s) => pc'[u] \notin {"enq", "blocked"}
  BY <1>1, <1>3
<1>5. \A u \in Tasks : pc'[u] = pc[u] \/ (Waits(u, s) /\ pc'[u] = "woken")
  BY <1>1, <1>3
<1>6. 0 \in Int /\ 0 <= MaxValue
  BY SemaphoreAssumption
<1> QED  BY <1>2, <1>3, <1>4, <1>5, <1>6, ResetStep, Zenon

\* semaphore_trywait finds an empty queue, and moves a permit from the value to the
\* caller.
LEMMA TrywaitStep ==
  ASSUME IInv, NEW t \in Tasks, NEW s \in Slots, semaphore_trywait(t, s)
  PROVE  IInv'
<1> USE DEF IInv
<1>1. /\ UNCHANGED <<live, wait_queue, pc, on, initial, posts, permit, unlisted>>
      /\ value' = [value EXCEPT ![s] = @ - 1] /\ taken' = [taken EXCEPT ![s] = @ + 1]
      /\ value[s] > 0
  BY DEF semaphore_trywait, HasPermit
<1>2. /\ value[s] \in Int /\ value[s] <= MaxValue /\ MaxValue \in Int /\ taken[s] \in Nat
      /\ \A r \in Slots : value[r] \in Int /\ taken[r] \in Nat
  BY SemaphoreAssumption DEF TypeOK
<1>3. /\ value'[s] = value[s] - 1 /\ taken'[s] = taken[s] + 1
      /\ \A r \in Slots \ {s} : value'[r] = value[r] /\ taken'[r] = taken[r]
  BY <1>1 DEF TypeOK
<1>4. TypeOK'
  <2>1. value[s] - 1 \in {v \in Int : v <= MaxValue} /\ taken[s] + 1 \in Nat
    BY <1>2
  <2>2. value' \in [Slots -> {v \in Int : v <= MaxValue}] /\ taken' \in [Slots -> Nat]
    BY <1>1, <2>1, SMTT(30) DEF TypeOK
  <2> QED  BY <1>1, <2>2, SMTT(30) DEF TypeOK
<1>5. WaitersMeanNoPermit'
  BY <1>1, <1>2, <1>3 DEF WaitersMeanNoPermit
<1>6. PermitsConserved'
  <2>1. \A r \in Slots : Owed(r)' = Owed(r)
    BY <1>1 DEF Owed
  <2>2. ASSUME NEW r \in Slots
        PROVE  value'[r] + taken'[r] = value[r] + taken[r] /\ value'[r] \in Int /\ taken'[r] \in Int
    BY <1>2, <1>3
  <2>3. ASSUME NEW r \in Slots, live[r]
        PROVE  initial[r] + posts[r] = value'[r] + taken'[r] + Cardinality(Owed(r))
    BY <2>2, <2>3 DEF PermitsConserved
  <2> QED  BY <1>1, <2>1, <2>3, SMTT(30) DEF PermitsConserved
<1>7. QueuedWaits' /\ QueuedOnce' /\ PermitPending' /\ WaitingIsQueued'
  BY <1>1, SMTT(30) DEF QueuedWaits, QueuedOnce, PermitPending, WaitingIsQueued, Waits
<1> QED  BY <1>4, <1>5, <1>6, <1>7

\* semaphore_wait without a permit: the caller, which is in no queue and is owed
\* nothing, joins the queue or is known to have no waiter.
LEMMA WaitStep ==
  ASSUME IInv, NEW t \in Tasks, NEW s \in Slots, semaphore_wait(t, s)
  PROVE  IInv'
<1> USE DEF IInv
<1>1. /\ UNCHANGED <<live, value, initial, posts, taken, permit>>
      /\ pc' = [pc EXCEPT ![t] = "enq"] /\ on' = [on EXCEPT ![t] = s]
      /\ pc[t] = "idle" /\ live[s]
  BY DEF semaphore_wait, Calls
<1>2. value[s] <= 0
  BY DEF semaphore_wait, HasPermit, TypeOK
<1>3. PICK q \in AddWaiterOutcomes(wait_queue[s], t) :
        /\ wait_queue' = [wait_queue EXCEPT ![s] = q]
        /\ unlisted' = IF q = wait_queue[s] THEN unlisted \cup {t} ELSE unlisted
  BY Zenon DEF semaphore_wait
<1>4. wait_queue[s] \in Seq(Tasks) /\ q \in Seq(Tasks) /\ Len(q) \in Nat
  BY QueueType, AddWaiterFacts
<1>5. q # wait_queue[s] => Len(q) \in 1 .. Len(q) /\ q[Len(q)] = t
  BY <1>4, AddWaiterFacts
<1>6. \A i \in 1 .. Len(wait_queue[s]) : i \in 1 .. Len(q) /\ q[i] = wait_queue[s][i]
  BY <1>4, AddWaiterFacts
<1>7. ~ permit[t] /\ \A r \in Slots : \A i \in 1 .. Len(wait_queue[r]) : wait_queue[r][i] # t
  BY <1>1 DEF PermitPending, QueuedWaits
<1>8. \A i \in 1 .. Len(q) : \/ i \in 1 .. Len(wait_queue[s]) /\ q[i] = wait_queue[s][i]
                             \/ i = Len(wait_queue[s]) + 1 /\ q[i] = t
  BY <1>3, <1>4, AddedLast
<1>9. /\ wait_queue'[s] = q
      /\ \A r \in Slots \ {s} : wait_queue'[r] = wait_queue[r]
  BY <1>3 DEF TypeOK
<1>10. /\ pc'[t] = "enq" /\ on'[t] = s
       /\ \A u \in Tasks \ {t} : pc'[u] = pc[u] /\ on'[u] = on[u]
  BY <1>1 DEF TypeOK
<1>11. TypeOK'
  <2>1. pc' \in [Tasks -> PCs \cup {"ended"}] /\ on' \in [Tasks -> Slots]
    BY <1>1, SMTT(30) DEF TypeOK, PCs
  <2>2. wait_queue' \in [Slots -> Seq(Tasks)] /\ unlisted' \subseteq Tasks
    BY <1>3, <1>4, SMTT(30) DEF TypeOK
  <2> QED  BY <1>1, <2>1, <2>2, SMTT(30) DEF TypeOK
<1>12. WaitersMeanNoPermit'
  BY <1>1, <1>2, <1>9 DEF WaitersMeanNoPermit
<1>13. PermitsConserved'
  <2>1. \A r \in Slots : Owed(r)' = Owed(r)
    BY <1>1, <1>7, <1>10 DEF Owed
  <2> QED  BY <1>1, <2>1 DEF PermitsConserved
<1>14. QueuedWaits'
  <2> SUFFICES ASSUME NEW r \in Slots, NEW i \in 1 .. Len(wait_queue'[r])
               PROVE  /\ live[r] /\ on'[wait_queue'[r][i]] = r
                      /\ pc'[wait_queue'[r][i]] \in {"enq", "blocked", "ended"}
                      /\ ~ permit[wait_queue'[r][i]]
    BY <1>1, SMTT(30) DEF QueuedWaits
  <2>1. CASE r = s /\ wait_queue'[r][i] = t
    BY <2>1, <1>1, <1>7, <1>10
  <2>2. CASE i \in 1 .. Len(wait_queue[r]) /\ wait_queue'[r][i] = wait_queue[r][i]
    <3>1. wait_queue[r][i] \in Tasks \ {t}
      BY <2>2, <1>7, QueueType
    <3> QED  BY <2>2, <3>1, <1>10, SMTT(30) DEF QueuedWaits
  <2> QED  BY <2>1, <2>2, <1>8, <1>9
<1>15. QueuedOnce'
  <2> SUFFICES ASSUME NEW r \in Slots, NEW i \in 1 .. Len(wait_queue'[r]),
                      NEW j \in 1 .. Len(wait_queue'[r]), wait_queue'[r][i] = wait_queue'[r][j]
               PROVE  i = j
    BY DEF QueuedOnce
  <2>1. CASE r = s
    BY <2>1, <1>7, <1>8, <1>9, SMTT(30) DEF QueuedOnce
  <2>2. CASE r # s
    BY <2>2, <1>9 DEF QueuedOnce
  <2> QED  BY <2>1, <2>2
<1>16. PermitPending'
  BY <1>1, <1>7, <1>10 DEF PermitPending
<1>17. WaitingIsQueued'
  <2> SUFFICES ASSUME NEW u \in Tasks, pc'[u] \in {"enq", "blocked"}, u \notin unlisted'
               PROVE  live[on'[u]] /\ Waits(u, on[u])'
    BY <1>1, SMTT(30) DEF WaitingIsQueued
  <2>1. CASE u = t
    <3>1. q # wait_queue[s]
      BY <2>1, <1>3
    <3> QED  BY <2>1, <3>1, <1>1, <1>5, <1>9, <1>10 DEF Waits
  <2>2. CASE u # t
    <3>1. on'[u] = on[u] /\ on[u] \in Slots /\ live[on[u]] /\ Waits(u, on[u])
      BY <2>2, <1>3, <1>10, SMTT(30) DEF WaitingIsQueued, TypeOK
    <3>2. PICK i \in 1 .. Len(wait_queue[on[u]]) : wait_queue[on[u]][i] = u
      BY <3>1, SMTT(30) DEF Waits
    <3>3. i \in 1 .. Len(wait_queue'[on[u]]) /\ wait_queue'[on[u]][i] = u
      BY <3>1, <3>2, <1>6, <1>9
    <3> QED  BY <3>1, <3>3, SMTT(30) DEF Waits
  <2> QED  BY <2>1, <2>2
<1> QED  BY <1>11, <1>12, <1>13, <1>14, <1>15, <1>16, <1>17

\* block_task moves a task that is about to block on to blocked.
LEMMA BlockStep ==
  ASSUME IInv, NEW t \in Tasks, block_task(t)
  PROVE  IInv'
<1> USE DEF IInv
<1>1. /\ UNCHANGED <<live, value, wait_queue, on, initial, posts, taken, permit, unlisted>>
      /\ pc[t] = "enq" /\ pc' = [pc EXCEPT ![t] = "blocked"]
  BY DEF block_task
<1>2. pc'[t] = "blocked" /\ \A u \in Tasks \ {t} : pc'[u] = pc[u]
  BY <1>1 DEF TypeOK
<1>3. TypeOK'
  BY <1>1 DEF TypeOK, PCs
<1>4. WaitersMeanNoPermit' /\ PermitsConserved' /\ QueuedOnce'
  BY <1>1 DEF WaitersMeanNoPermit, PermitsConserved, Owed, QueuedOnce
<1>5. QueuedWaits'
  BY <1>1, <1>2, QueueType, SMTT(30) DEF QueuedWaits
<1>6. PermitPending' /\ WaitingIsQueued'
  BY <1>1, <1>2 DEF PermitPending, WaitingIsQueued, Waits
<1> QED  BY <1>3, <1>4, <1>5, <1>6

\* A woken task takes the permit it was handed, if a post and not a destruction
\* woke it.
LEMMA ReturnsStep ==
  ASSUME IInv, NEW t \in Tasks, WaitReturns(t)
  PROVE  IInv'
<1> USE DEF IInv
<1> DEFINE s == on[t]
<1>1. /\ UNCHANGED <<live, value, wait_queue, on, initial, posts, unlisted>>
      /\ pc[t] = "woken" /\ pc' = [pc EXCEPT ![t] = "idle"]
      /\ permit' = [permit EXCEPT ![t] = FALSE]
      /\ taken' = IF permit[t] THEN [taken EXCEPT ![s] = @ + 1] ELSE taken
  BY DEF WaitReturns
<1>2. pc'[t] = "idle" /\ \A u \in Tasks \ {t} : pc'[u] = pc[u]
  BY <1>1 DEF TypeOK
<1>3. ~ permit'[t] /\ \A u \in Tasks \ {t} : permit'[u] = permit[u]
  BY <1>1 DEF TypeOK
<1>4. s \in Slots /\ taken[s] \in Nat /\ taken[s] + 1 \in Nat
  BY DEF TypeOK
<1>5. TypeOK'
  <2>1. pc' \in [Tasks -> PCs \cup {"ended"}] /\ taken' \in [Slots -> Nat]
    BY <1>1, <1>4, SMTT(30) DEF TypeOK, PCs
  <2>2. permit' \in [Tasks -> BOOLEAN]
    BY <1>1, Zenon DEF TypeOK
  <2> QED  BY <1>1, <2>1, <2>2, SMTT(30) DEF TypeOK
<1>6. WaitersMeanNoPermit' /\ QueuedOnce'
  BY <1>1 DEF WaitersMeanNoPermit, QueuedOnce
<1>7. PermitsConserved'
  <2> SUFFICES ASSUME NEW r \in Slots, live[r]
               PROVE  initial[r] + posts[r] = value[r] + taken'[r] + Cardinality(Owed(r)')
    BY <1>1 DEF PermitsConserved
  <2>1. initial[r] + posts[r] = value[r] + taken[r] + Cardinality(Owed(r))
    BY DEF PermitsConserved
  <2>2. CASE permit[t] /\ r = s
    <3>1. Owed(r)' = Owed(r) \ {t} /\ t \in Owed(r)
      BY <2>2, <1>1, <1>3 DEF Owed
    <3>2. Cardinality(Owed(r)') = Cardinality(Owed(r)) - 1 /\ Cardinality(Owed(r)) \in Nat
      BY <3>1, OwedIsFinite, FS_RemoveElement, Zenon
    <3>3. taken'[r] = taken[r] + 1 /\ taken[r] \in Nat /\ value[r] \in Int
      BY <2>2, <1>1, <1>4 DEF TypeOK
    <3> QED  BY <2>1, <3>2, <3>3, SMTT(30)
  <2>3. CASE ~ (permit[t] /\ r = s)
    <3>1. Owed(r)' = Owed(r)
      BY <2>3, <1>1, <1>3 DEF Owed
    <3>2. taken'[r] = taken[r]
      BY <2>3, <1>1, <1>4 DEF TypeOK
    <3> QED  BY <2>1, <3>1, <3>2
  <2> QED  BY <2>2, <2>3
<1>8. QueuedWaits'
  <2>1. \A r \in Slots : \A i \in 1 .. Len(wait_queue[r]) : wait_queue[r][i] \in Tasks \ {t}
    BY <1>1, QueueType, SMTT(30) DEF QueuedWaits
  <2> QED  BY <1>1, <1>2, <1>3, <2>1, SMTT(30) DEF QueuedWaits
<1>9. PermitPending' /\ WaitingIsQueued'
  BY <1>1, <1>2, <1>3 DEF PermitPending, WaitingIsQueued, Waits
<1> QED  BY <1>5, <1>6, <1>7, <1>8, <1>9

\* terminate_task leaves the waiter of a task, and the permit it was handed, where
\* they are.
LEMMA TerminateStep ==
  ASSUME IInv, NEW t \in Tasks, NEW u \in Tasks, terminate_task(t, u)
  PROVE  IInv'
<1> USE DEF IInv
<1>1. /\ UNCHANGED <<live, value, wait_queue, on, initial, posts, taken, permit, unlisted>>
      /\ pc' = [pc EXCEPT ![u] = "ended"]
  BY DEF terminate_task
<1>2. pc'[u] = "ended" /\ \A r \in Tasks \ {u} : pc'[r] = pc[r]
  BY <1>1 DEF TypeOK
<1>3. TypeOK'
  BY <1>1, SMTT(30) DEF TypeOK, PCs
<1>4. WaitersMeanNoPermit' /\ PermitsConserved' /\ QueuedOnce'
  BY <1>1, SMTT(30) DEF WaitersMeanNoPermit, PermitsConserved, Owed, QueuedOnce
<1>5. QueuedWaits'
  BY <1>1, <1>2, QueueType, SMTT(30) DEF QueuedWaits
<1>6. PermitPending' /\ WaitingIsQueued'
  BY <1>1, <1>2 DEF PermitPending, WaitingIsQueued, Waits
<1> QED  BY <1>3, <1>4, <1>5, <1>6

\* A post without waiters adds a permit to the value.
LEMMA PostToValue ==
  ASSUME IInv, NEW t \in Tasks, NEW s \in Slots, semaphore_post(t, s), wait_queue[s] = <<>>
  PROVE  IInv'
<1> USE DEF IInv
<1>1. /\ UNCHANGED <<live, on, initial, taken, unlisted>>
      /\ value' = [value EXCEPT ![s] = value[s] + 1] /\ posts' = [posts EXCEPT ![s] = @ + 1]
      /\ value[s] # MaxValue
  BY DEF semaphore_post, PostedValue, AtMaximum
<1>2. wait_queue' = wait_queue
  BY DEF semaphore_post, AfterWakeFirst, TypeOK
<1>3. pc' = pc
  BY DEF semaphore_post, WokenFirst, Unblock, TypeOK
<1>4. permit' = permit
  <2>1. permit' = [u \in Tasks |-> permit[u] \/ u \in {}]
    BY DEF semaphore_post, WokenFirst
  <2>2. permit \in [Tasks -> BOOLEAN]
    BY DEF TypeOK
  <2> QED  BY <2>1, <2>2
<1>5. /\ value[s] \in Int /\ value[s] <= MaxValue /\ MaxValue \in Int
      /\ \A r \in Slots : value[r] \in Int /\ taken[r] \in Nat /\ posts[r] \in Nat /\ initial[r] \in Int
  BY SemaphoreAssumption DEF TypeOK
<1>6. /\ value'[s] = value[s] + 1 /\ posts'[s] = posts[s] + 1
      /\ \A r \in Slots \ {s} : value'[r] = value[r] /\ posts'[r] = posts[r]
  BY <1>1 DEF TypeOK
<1>7. TypeOK'
  <2>1. value[s] + 1 \in {v \in Int : v <= MaxValue} /\ posts[s] + 1 \in Nat
    BY <1>1, <1>5
  <2>2. value' \in [Slots -> {v \in Int : v <= MaxValue}] /\ posts' \in [Slots -> Nat]
    BY <1>1, <2>1, SMTT(30) DEF TypeOK
  <2> QED  BY <1>1, <1>2, <1>3, <1>4, <2>2, SMTT(30) DEF TypeOK
<1>8. WaitersMeanNoPermit'
  BY <1>2, <1>6 DEF WaitersMeanNoPermit
<1>9. PermitsConserved'
  <2>1. \A r \in Slots : Owed(r)' = Owed(r)
    BY <1>1, <1>4, SMTT(30) DEF Owed
  <2>2. ASSUME NEW r \in Slots, live[r]
        PROVE  initial[r] + posts'[r] = value'[r] + taken[r] + Cardinality(Owed(r))
    <3>1. /\ initial[r] + posts[r] = value[r] + taken[r] + Cardinality(Owed(r))
          /\ Cardinality(Owed(r)) \in Nat
      BY <2>2, OwedIsFinite, SMTT(30) DEF PermitsConserved
    <3>2. value[r] \in Int /\ taken[r] \in Nat /\ posts[r] \in Nat /\ initial[r] \in Int
      BY <1>5
    <3>3. \/ value'[r] = value[r] + 1 /\ posts'[r] = posts[r] + 1
          \/ value'[r] = value[r] /\ posts'[r] = posts[r]
      BY <1>6
    <3> DEFINE a == initial[r]
               b == posts[r]
               b1 == posts'[r]
               c == value[r]
               c1 == value'[r]
               d == taken[r]
               e == Cardinality(Owed(r))
    <3>4. /\ a \in Int /\ b \in Nat /\ c \in Int /\ d \in Nat /\ e \in Nat
          /\ a + b = c + d + e
          /\ (c1 = c + 1 /\ b1 = b + 1) \/ (c1 = c /\ b1 = b)
      BY <3>1, <3>2, <3>3, SMTT(30)
    <3> HIDE DEF a, b, b1, c, c1, d, e, IInv
    <3>5. a + b1 = c1 + d + e
      BY <3>4, SMTT(30)
    <3> QED  BY <3>5 DEF a, b1, c1, d, e
  <2> QED  BY <1>1, <2>1, <2>2, SMTT(30) DEF PermitsConserved
<1>10. QueuedWaits' /\ QueuedOnce' /\ PermitPending' /\ WaitingIsQueued'
  BY <1>1, <1>2, <1>3, <1>4, SMTT(30) DEF QueuedWaits, QueuedOnce, PermitPending, WaitingIsQueued, Waits
<1> QED  BY <1>7, <1>8, <1>9, <1>10

\* A post with waiters hands its permit to the first one, which leaves the queue and,
\* unless it has ended, wakes up.
LEMMA PostToWaiter ==
  ASSUME IInv, NEW t \in Tasks, NEW s \in Slots, semaphore_post(t, s), wait_queue[s] # <<>>
  PROVE  IInv'
<1> USE DEF IInv
<1> DEFINE q == wait_queue[s]
           w == Head(q)
<1>1. /\ UNCHANGED <<live, on, initial, taken, unlisted>>
      /\ value' = [value EXCEPT ![s] = value[s]] /\ posts' = [posts EXCEPT ![s] = @ + 1]
      /\ Calls(t) /\ live[s]
  BY DEF semaphore_post, PostedValue
<1>2. /\ wait_queue' = [wait_queue EXCEPT ![s] = Tail(q)]
      /\ pc' = Unblock(pc, {w})
      /\ permit' = [u \in Tasks |-> permit[u] \/ u \in {w}]
  BY DEF semaphore_post, WokenFirst, AfterWakeFirst, TypeOK
<1>3. q \in Seq(Tasks) /\ Len(q) \in Nat \ {0}
  <2>1. q \in Seq(Tasks)
    BY QueueType
  <2> QED  BY <2>1, TailFacts, Zenon
<1>4. /\ w = q[1] /\ w \in Tasks
      /\ Tail(q) \in Seq(Tasks) /\ Len(Tail(q)) = Len(q) - 1
      /\ \A i \in 1 .. Len(Tail(q)) : i + 1 \in 2 .. Len(q) /\ Tail(q)[i] = q[i + 1]
      /\ \A i \in 2 .. Len(q) : i - 1 \in 1 .. Len(Tail(q)) /\ Tail(q)[i - 1] = q[i]
  BY <1>3, TailFacts, SMTT(30)
<1>5. 1 \in 1 .. Len(q) /\ Waits(w, s) /\ on[w] = s /\ ~ permit[w]
  BY <1>3, <1>4, SMTT(30) DEF Waits, QueuedWaits
<1>6. /\ wait_queue'[s] = Tail(q)
      /\ \A r \in Slots \ {s} : wait_queue'[r] = wait_queue[r]
  BY <1>2 DEF TypeOK
<1>7. /\ pc' \in [Tasks -> PCs \cup {"ended"}]
      /\ pc'[w] \in {"woken", "ended"}
      /\ \A u \in Tasks \ {w} : pc'[u] = pc[u]
  <2> HIDE DEF w, q
  <2>1. {w} \in SUBSET Tasks /\ \A u \in {w} : Waits(u, s)
    BY <1>4, <1>5
  <2> QED  BY <1>1, <1>2, <2>1, WakeFacts, ZenonT(30)
<1>8. permit'[w] /\ \A u \in Tasks \ {w} : permit'[u] <=> permit[u]
  BY <1>2, <1>4, Zenon
<1>9. value' = value
  BY <1>1 DEF TypeOK
<1>10. /\ posts'[s] = posts[s] + 1 /\ posts[s] \in Nat
       /\ \A r \in Slots \ {s} : posts'[r] = posts[r]
  BY <1>1 DEF TypeOK
<1> HIDE DEF w, q
<1>11. \A r \in Slots : \A i \in 1 .. Len(wait_queue'[r]) :
         wait_queue'[r][i] # w /\ \E j \in 1 .. Len(wait_queue[r]) : wait_queue[r][j] = wait_queue'[r][i]
  <2> SUFFICES ASSUME NEW r \in Slots, NEW i \in 1 .. Len(wait_queue'[r])
               PROVE  /\ wait_queue'[r][i] # w
                      /\ \E j \in 1 .. Len(wait_queue[r]) : wait_queue[r][j] = wait_queue'[r][i]
    OBVIOUS
  <2>1. CASE r = s
    <3>1. i \in 1 .. Len(Tail(q)) /\ wait_queue'[r][i] = q[i + 1] /\ i + 1 \in 1 .. Len(q)
      BY <2>1, <1>4, <1>6
    <3>2. i + 1 # 1
      BY <3>1, <1>3, <1>4
    <3>3. q[i + 1] # q[1]
      BY <3>1, <3>2, <1>5, SMTT(30) DEF QueuedOnce, q
    <3> QED  BY <2>1, <3>1, <3>3, <1>4, SMTT(30) DEF q
  <2>2. CASE r # s
    <3>1. wait_queue'[r] = wait_queue[r]
      BY <2>2, <1>6
    <3>2. on[wait_queue[r][i]] = r
      BY <3>1, SMTT(30) DEF QueuedWaits
    <3> QED  BY <2>2, <3>1, <3>2, <1>5
  <2> QED  BY <2>1, <2>2
<1>12. TypeOK'
  <2>1. posts' \in [Slots -> Nat]
    <3>1. posts[s] + 1 \in Nat
      BY <1>10
    <3> QED  BY <1>1, <3>1 DEF TypeOK
  <2>2. wait_queue' \in [Slots -> Seq(Tasks)]
    BY <1>2, <1>4, SMTT(30) DEF TypeOK
  <2>3. permit' \in [Tasks -> BOOLEAN]
    BY <1>2, Zenon
  <2> QED  BY <1>1, <1>7, <1>9, <2>1, <2>2, <2>3, Zenon DEF TypeOK
<1>13. WaitersMeanNoPermit'
  <2>1. value[s] <= 0
    BY DEF WaitersMeanNoPermit
  <2> QED  BY <2>1, <1>6, <1>9 DEF WaitersMeanNoPermit
<1>14. PermitsConserved'
  <2> SUFFICES ASSUME NEW r \in Slots, live[r]
               PROVE  initial[r] + posts'[r] = value[r] + taken[r] + Cardinality(Owed(r)')
    BY <1>1, <1>9 DEF PermitsConserved
  <2>1. initial[r] + posts[r] = value[r] + taken[r] + Cardinality(Owed(r))
    BY SMTT(30) DEF PermitsConserved
  <2>2. CASE r = s
    <3>1. Owed(r)' = Owed(r) \cup {w} /\ w \notin Owed(r)
      BY <2>2, <1>1, <1>4, <1>5, <1>8, SMTT(30) DEF Owed
    <3>2. Cardinality(Owed(r)') = Cardinality(Owed(r)) + 1 /\ Cardinality(Owed(r)) \in Nat
      BY <3>1, OwedIsFinite, FS_AddElement, Zenon
    <3>3. value[r] \in Int /\ taken[r] \in Nat /\ initial[r] \in Int
      BY DEF TypeOK
    <3> QED  BY <2>1, <2>2, <3>2, <3>3, <1>10, SMTT(30)
  <2>3. CASE r # s
    <3>1. Owed(r)' = Owed(r)
      BY <2>3, <1>1, <1>5, <1>8 DEF Owed
    <3> QED  BY <2>1, <2>3, <3>1, <1>10, SMTT(30)
  <2> QED  BY <2>2, <2>3, SMTT(30)
<1>15. QueuedWaits'
  <2> SUFFICES ASSUME NEW r \in Slots, NEW i \in 1 .. Len(wait_queue'[r])
               PROVE  /\ live[r] /\ on[wait_queue'[r][i]] = r
                      /\ pc'[wait_queue'[r][i]] \in {"enq", "blocked", "ended"}
                      /\ ~ permit'[wait_queue'[r][i]]
    BY <1>1, SMTT(30) DEF QueuedWaits
  <2>1. PICK j \in 1 .. Len(wait_queue[r]) :
          wait_queue[r][j] = wait_queue'[r][i] /\ wait_queue[r][j] # w
    BY <1>11, SMTT(30)
  <2>2. wait_queue[r][j] \in Tasks \ {w}
    BY <2>1, QueueType
  <2> QED  BY <2>1, <2>2, <1>7, <1>8, SMTT(30) DEF QueuedWaits
<1>16. QueuedOnce'
  <2> SUFFICES ASSUME NEW r \in Slots, NEW i \in 1 .. Len(wait_queue'[r]),
                      NEW j \in 1 .. Len(wait_queue'[r]), wait_queue'[r][i] = wait_queue'[r][j]
               PROVE  i = j
    BY DEF QueuedOnce
  <2>1. CASE r = s
    <3>1. i + 1 \in 1 .. Len(q) /\ j + 1 \in 1 .. Len(q) /\ q[i + 1] = q[j + 1]
      BY <2>1, <1>4, <1>6
    <3>2. i + 1 = j + 1
      BY <3>1, SMTT(30) DEF QueuedOnce, q
    <3>3. i \in Int /\ j \in Int
      BY <2>1, <1>3, <1>4, <1>6
    <3> QED  BY <3>2, <3>3
  <2>2. CASE r # s
    BY <2>2, <1>6, SMTT(30) DEF QueuedOnce
  <2> QED  BY <2>1, <2>2
<1>17. PermitPending'
  BY <1>4, <1>7, <1>8, SMTT(30) DEF PermitPending
<1>18. WaitingIsQueued'
  <2> SUFFICES ASSUME NEW u \in Tasks, pc'[u] \in {"enq", "blocked"}, u \notin unlisted
               PROVE  live[on[u]] /\ Waits(u, on[u])'
    BY <1>1 DEF WaitingIsQueued
  <2>1. u # w /\ pc'[u] = pc[u]
    BY <1>7
  <2>2. live[on[u]] /\ Waits(u, on[u]) /\ on[u] \in Slots
    BY <2>1, Zenon DEF WaitingIsQueued, TypeOK
  <2>3. PICK i \in 1 .. Len(wait_queue[on[u]]) : wait_queue[on[u]][i] = u
    BY <2>2, SMTT(30) DEF Waits
  <2>4. CASE on[u] = s
    <3>1. i \in 1 .. Len(q) /\ q[i] = u /\ i # 1
      BY <2>1, <2>3, <2>4, <1>4, SMTT(30) DEF q
    <3>2. i \in 2 .. Len(q)
      BY <3>1, <1>3, SMTT(30)
    <3>3. i - 1 \in 1 .. Len(Tail(q)) /\ Tail(q)[i - 1] = u
      BY <3>1, <3>2, <1>4
    <3> QED  BY <2>2, <2>4, <3>3, <1>1, <1>6, SMTT(30) DEF Waits
  <2>5. CASE on[u] # s
    BY <2>2, <2>3, <2>5, <1>1, <1>6, SMTT(30) DEF Waits
  <2> QED  BY <2>4, <2>5
<1> QED  BY <1>12, <1>13, <1>14, <1>15, <1>16, <1>17, <1>18

\* Every step of the specification keeps the invariant.
LEMMA StepHolds == IInv /\ [Next]_vars => IInv'
<1> SUFFICES ASSUME IInv, [Next]_vars PROVE IInv'
  OBVIOUS
<1>1. CASE UNCHANGED vars
  BY <1>1, SMTT(30) DEF vars, IInv, TypeOK, WaitersMeanNoPermit, PermitsConserved, Owed, QueuedWaits,
              QueuedOnce, PermitPending, WaitingIsQueued, Waits
<1>2. CASE Next
  <2>1. PICK t \in Tasks :
          \/ \E v \in InitialValues : create_semaphore(t, v)
          \/ \E s \in Destroyable : destroy_semaphore(t, s)
          \/ \E s \in Slots : semaphore_trywait(t, s) \/ semaphore_wait(t, s) \/ semaphore_post(t, s)
          \/ block_task(t) \/ WaitReturns(t)
          \/ \E u \in Tasks : terminate_task(t, u)
    BY <1>2 DEF Next
  <2>2. CASE \E v \in InitialValues : create_semaphore(t, v)
    BY <2>2, CreateStep
  <2>3. CASE \E s \in Destroyable : destroy_semaphore(t, s)
    BY <2>3, DestroyStep, SemaphoreAssumption
  <2>4. CASE \E s \in Slots : semaphore_trywait(t, s) \/ semaphore_wait(t, s) \/ semaphore_post(t, s)
    BY <2>4, TrywaitStep, WaitStep, PostToValue, PostToWaiter
  <2>5. CASE block_task(t) \/ WaitReturns(t)
    BY <2>5, BlockStep, ReturnsStep
  <2>6. CASE \E u \in Tasks : terminate_task(t, u)
    BY <2>6, TerminateStep
  <2> QED  BY <2>1, <2>2, <2>3, <2>4, <2>5, <2>6
<1> QED  BY <1>1, <1>2

\* The invariant holds in every state the semaphore code reaches.
LEMMA InductiveInvariant == Spec => []IInv
BY InitHolds, StepHolds, PTL DEF Spec

\* The state is well typed.
THEOREM SemaphoreTypes == Spec => []TypeOK
<1>1. IInv => TypeOK
  BY DEF IInv
<1> QED  BY InductiveInvariant, <1>1, PTL

\* Whatever the tasks, the pool, the initial values and the order of waits, posts,
\* destructions and terminations: semaphore_post and semaphore_wait neither make up
\* nor lose a permit.
THEOREM SemaphoreInvariant == Spec => []PermitsConserved
<1>1. IInv => PermitsConserved
  BY DEF IInv
<1> QED  BY InductiveInvariant, <1>1, PTL

\* Nobody waits for a semaphore with a permit left (semaphore_wait, semaphore_post).
THEOREM SemaphoreWaitsForPermits == Spec => []WaitersMeanNoPermit
<1>1. IInv => WaitersMeanNoPermit
  BY DEF IInv
<1> QED  BY InductiveInvariant, <1>1, PTL

\* Every task that blocks with a waiter stays where a post or a destruction finds it
\* (semaphore_wait, semaphore_post, destroy_semaphore).
THEOREM SemaphoreFindsBlocked == Spec => []BlockedIsQueued
<1>1. IInv => BlockedIsQueued
  BY SMTT(30) DEF IInv, WaitingIsQueued, BlockedIsQueued
<1> QED  BY InductiveInvariant, <1>1, PTL

=============================================================================
