-------------------------- MODULE MessageQueueProofs --------------------------
(***************************************************************************)
(* Proofs about MessageQueue, for any tasks, slots, sizes, priorities and  *)
(* number of messages, for waiting calls and as built, with and without    *)
(* failing allocations: every slot of a queue is accounted for, senders    *)
(* and receivers do not wait for each other, and the queue is a            *)
(* PriorityChannel.                                                        *)
(*                                                                         *)
(* The lemmas about the two wait queues and the tasks in them are stated   *)
(* for any queues w, states p and calls o of the tasks: they are used for  *)
(* senders and for receivers, before and after a step.                     *)
(***************************************************************************)
EXTENDS MessageQueue, FiniteSetTheorems, WellFoundedInduction, TLAPS

-----------------------------------------------------------------------------
(* The wait queues of kernel/ipc.c, and the search for a free slot of a pool. *)

\* The search of a pool from its first slot on has a result.
LEMMA LeastExists ==
  ASSUME NEW S \in SUBSET Nat, S # {}
  PROVE  \E s \in S : \A r \in S : s <= r
<1>1. \E s \in S : \A r \in S : ~ (<<r, s>> \in OpToRel(<, Nat))
  BY NatLessThanWellFounded, WFMin
<1>2. \A r, s \in Nat : r < s => <<r, s>> \in OpToRel(<, Nat)
  BY DEF OpToRel
<1>3. PICK s \in S : \A r \in S : ~ (r < s)
  BY <1>1, <1>2
<1> QED  BY <1>3

\* A queue whose first waiter is taken: the others move up by one.
LEMMA TailFacts ==
  ASSUME NEW q \in Seq(Tasks), q # <<>>
  PROVE  /\ Len(q) \in Nat \ {0} /\ Head(q) = q[1] /\ q[1] \in Tasks
         /\ Tail(q) \in Seq(Tasks) /\ Len(Tail(q)) = Len(q) - 1
         /\ \A i \in 1 .. Len(Tail(q)) : i + 1 \in 2 .. Len(q) /\ Tail(q)[i] = q[i + 1]
         /\ \A i \in 2 .. Len(q) : i - 1 \in 1 .. Len(Tail(q)) /\ Tail(q)[i - 1] = q[i]
<1>1. /\ Len(q) \in Nat \ {0} /\ Head(q) = q[1] /\ q[1] \in Tasks
      /\ Tail(q) \in Seq(Tasks) /\ Len(Tail(q)) = Len(q) - 1
  OBVIOUS
<1>2. \A i \in 1 .. Len(Tail(q)) : i + 1 \in 2 .. Len(q) /\ Tail(q)[i] = q[i + 1]
  BY <1>1
<1>3. \A i \in 2 .. Len(q) : i - 1 \in 1 .. Len(Tail(q)) /\ (i - 1) + 1 = i
  BY <1>1
<1>4. \A i \in 2 .. Len(q) : Tail(q)[i - 1] = q[i]
  BY <1>2, <1>3
<1> QED  BY <1>1, <1>2, <1>3, <1>4

\* add_waiter leaves the waiters where they are, and puts the new one behind them
\* or nowhere.
LEMMA AddWaiterFacts ==
  ASSUME NEW q \in Seq(Tasks), NEW t \in Tasks, NEW r \in AddWaiterOutcomes(q, t)
  PROVE  /\ r \in Seq(Tasks) /\ Len(r) \in Nat /\ Len(q) \in Nat
         /\ r = q => MallocMayFail
         /\ r # q => Len(r) = Len(q) + 1 /\ r[Len(r)] = t
         /\ \A i \in 1 .. Len(q) : i \in 1 .. Len(r) /\ r[i] = q[i]
<1>1. r = Append(q, t) \/ (r = q /\ MallocMayFail)
  BY DEF AddWaiterOutcomes
<1>2. CASE r = Append(q, t)
  BY <1>2
<1>3. CASE r = q /\ MallocMayFail
  BY <1>3
<1> QED  BY <1>1, <1>2, <1>3

\* Nobody else is in the queue that add_waiter leaves.
LEMMA AddedLast ==
  ASSUME NEW q \in Seq(Tasks), NEW t \in Tasks, NEW r \in AddWaiterOutcomes(q, t),
         NEW i \in 1 .. Len(r)
  PROVE  (i \in 1 .. Len(q) /\ r[i] = q[i]) \/ (i = Len(q) + 1 /\ r[i] = t)
<1>1. r = Append(q, t) \/ r = q
  BY DEF AddWaiterOutcomes
<1> QED  BY <1>1

-----------------------------------------------------------------------------

Calls == [kind: {"none", "send", "receive"}, q: Slots \cup {0},
          id: 0 .. MaxId, level: Levels]

States == {"idle", "blocked", "woken"}

\* The tasks in a call of a kind on q, in a state.
At(st, p, o, kind, q) == {t \in Tasks : p[t] = st /\ o[t].kind = kind /\ o[t].q = q}

\* Whoever is in one of the wait queues w is blocked in a call on that queue, and
\* is in it once.
Queued(w, p, o, kind) ==
  \A q \in Slots :
    /\ \A i \in 1 .. Len(w[q]) : w[q][i] \in At("blocked", p, o, kind, q)
    /\ \A i, j \in 1 .. Len(w[q]) : w[q][i] = w[q][j] => i = j

\* A task that is not idle is in a call on a slot; a queue that can not be destroyed
\* under a call is there as long as one is in it.
InCall ==
  \A t \in Tasks : pc[t] # "idle" =>
    /\ op[t].q \in Slots
    /\ op[t].kind \in {"send", "receive"}
    /\ op[t].q \in Sound => live[op[t].q]
    /\ op[t].kind = "send" => op[t].id \in 1 .. MaxId

\* Nobody waits on a semaphore that is not zero.
WaitersMeanNoSlot ==
  \A q \in Slots : /\ free_waiters[q] # <<>> => free_slots[q] = 0
                   /\ used_waiters[q] # <<>> => used_slots[q] = 0

\* A slot without a queue has no capacity.
DeadHasNoRoom == \A q \in Slots : ~ live[q] => max_messages[q] = 0

\* The count of a queue is the length of its lists, whether it is there or not.
CountsMessages == \A q \in Slots : message_count[q] = Total(q)

\* As built, no call is ever interrupted by a wait.
NobodyWaitsAsBuilt == MESSAGE_FLAG_BLOCKING = 0 => \A t \in Tasks : pc[t] = "idle"

TaskInv ==
  /\ Queued(free_waiters, pc, op, "send")
  /\ Queued(used_waiters, pc, op, "receive")
  /\ InCall
  /\ NobodyWaitsAsBuilt

IInv ==
  /\ TypeOK
  /\ TaskInv
  /\ WaitersMeanNoSlot
  /\ DeadHasNoRoom
  /\ CountsMessages
  /\ SlotsAccounted

-----------------------------------------------------------------------------
(* Wait queues. *)

\* A step that leaves the blocked tasks alone leaves the wait queues right.
LEMMA QueuedFrame ==
  ASSUME NEW w, NEW p, NEW o, NEW kind, Queued(w, p, o, kind), NEW p2, NEW o2,
         \A u \in Tasks : p[u] = "blocked" => p2[u] = "blocked" /\ o2[u] = o[u]
  PROVE  Queued(w, p2, o2, kind)
<1>1. \A q \in Slots : At("blocked", p, o, kind, q) \subseteq At("blocked", p2, o2, kind, q)
  BY DEF At
<1> QED  BY <1>1 DEF Queued

\* add_waiter puts a task that blocks into the wait queue of its call, or nowhere.
LEMMA QueuedJoin ==
  ASSUME NEW w \in [Slots -> Seq(Tasks)], NEW p \in [Tasks -> States], NEW o \in [Tasks -> Calls],
         NEW kind, Queued(w, p, o, kind), NEW t \in Tasks, p[t] = "idle", NEW q \in Slots,
         NEW r \in AddWaiterOutcomes(w[q], t), NEW c \in Calls, c.kind = kind, c.q = q
  PROVE  Queued([w EXCEPT ![q] = r], [p EXCEPT ![t] = "blocked"], [o EXCEPT ![t] = c], kind)
<1> DEFINE w2 == [w EXCEPT ![q] = r]
           p2 == [p EXCEPT ![t] = "blocked"]
           o2 == [o EXCEPT ![t] = c]
<1>1. /\ p2[t] = "blocked" /\ o2[t] = c
      /\ \A u \in Tasks \ {t} : p2[u] = p[u] /\ o2[u] = o[u]
      /\ w2[q] = r /\ \A x \in Slots \ {q} : w2[x] = w[x]
  OBVIOUS
<1>2. t \in At("blocked", p2, o2, kind, q)
  BY <1>1 DEF At
<1>3. \A x \in Slots : /\ At("blocked", p, o, kind, x) \subseteq At("blocked", p2, o2, kind, x)
                       /\ t \notin At("blocked", p, o, kind, x)
  BY <1>1 DEF At
<1> HIDE DEF w2, p2, o2
<1>4. w[q] \in Seq(Tasks)
  OBVIOUS
<1>5. \A i \in 1 .. Len(r) : \/ i \in 1 .. Len(w[q]) /\ r[i] = w[q][i]
                             \/ i = Len(w[q]) + 1 /\ r[i] = t
  BY <1>4, AddedLast
<1>6. \A i \in 1 .. Len(r) : r[i] \in At("blocked", p2, o2, kind, q)
  BY <1>2, <1>3, <1>5 DEF Queued
<1>7. \A i, j \in 1 .. Len(r) : r[i] = r[j] => i = j
  <2>1. \A i \in 1 .. Len(w[q]) : w[q][i] # t
    BY <1>3 DEF Queued
  <2> QED  BY <1>5, <2>1, Zenon DEF Queued
<1>8. \A x \in Slots : x # q => w2[x] = w[x]
  BY <1>1
<1>9. Queued(w2, p2, o2, kind)
  BY <1>1, <1>3, <1>6, <1>7, <1>8 DEF Queued
<1> QED  BY <1>9 DEF w2, p2, o2

\* wake_waiters for one task: of the waiters w[q], in calls of a kind, the first, if any,
\* is woken, in a step in which t ends its call.
Wakes(w, kind, q, t, p, o, p2, o2) ==
  /\ w \in [Slots -> Seq(Tasks)] /\ p \in [Tasks -> States] /\ o \in [Tasks -> Calls]
  /\ Queued(w, p, o, kind)
  /\ q \in Slots /\ t \in Tasks
  /\ p2 = Unblock([p EXCEPT ![t] = "idle"], WokenFirst(w[q]))
  /\ \/ p[t] = "idle" /\ o2 = o
     \/ p[t] = "woken" /\ o2 = [o EXCEPT ![t] = NoCall]

\* What a wake-up does to the states of the tasks.
LEMMA WakesFacts ==
  ASSUME NEW w, NEW kind, NEW q, NEW t, NEW p, NEW o, NEW p2, NEW o2,
         Wakes(w, kind, q, t, p, o, p2, o2)
  PROVE  /\ p2 \in [Tasks -> States]
         /\ WokenFirst(w[q]) \subseteq At("blocked", p, o, kind, q)
         /\ t \notin WokenFirst(w[q])
         /\ p2[t] = "idle"
         /\ \A u \in WokenFirst(w[q]) : p2[u] = "woken" /\ o2[u] = o[u]
         /\ \A u \in Tasks \ WokenFirst(w[q]) : u # t => p2[u] = p[u] /\ o2[u] = o[u]
<1>1. /\ w[q] \in Seq(Tasks) /\ p \in [Tasks -> States] /\ o \in [Tasks -> Calls]
      /\ Queued(w, p, o, kind) /\ q \in Slots /\ t \in Tasks
  BY DEF Wakes
<1>2. WokenFirst(w[q]) \subseteq At("blocked", p, o, kind, q)
  <2>1. CASE w[q] = <<>>
    BY <2>1 DEF WokenFirst
  <2>2. CASE w[q] # <<>>
    <3>1. Len(w[q]) \in Nat \ {0} /\ Head(w[q]) = w[q][1]
      BY <1>1, <2>2, TailFacts
    <3>2. w[q][1] \in At("blocked", p, o, kind, q)
      BY <1>1, <3>1 DEF Queued
    <3> QED  BY <2>2, <3>1, <3>2 DEF WokenFirst
  <2> QED  BY <2>1, <2>2
<1>3. t \notin WokenFirst(w[q])
  BY <1>2 DEF At, Wakes
<1>4. /\ p2 \in [Tasks -> States] /\ p2[t] = "idle"
      /\ \A u \in WokenFirst(w[q]) : p2[u] = "woken"
      /\ \A u \in Tasks \ WokenFirst(w[q]) : u # t => p2[u] = p[u]
  <2> DEFINE p1 == [p EXCEPT ![t] = "idle"]
  <2>1. p1 \in [Tasks -> States] /\ p1[t] = "idle" /\ \A u \in Tasks \ {t} : p1[u] = p[u]
    BY <1>1 DEF States
  <2>2. \A u \in WokenFirst(w[q]) : u \in Tasks \ {t} /\ p1[u] = "blocked"
    BY <1>2, <1>3, <2>1 DEF At
  <2>3. p2 = Unblock(p1, WokenFirst(w[q]))
    BY DEF Wakes
  <2> HIDE DEF p1
  <2>4. /\ p2 \in [Tasks -> States]
        /\ \A u \in Tasks : p2[u] = IF u \in WokenFirst(w[q]) THEN "woken" ELSE p1[u]
    BY <2>1, <2>2, <2>3 DEF Unblock, States
  <2> QED  BY <1>1, <1>3, <2>1, <2>2, <2>4
<1>5. \A u \in Tasks : u # t => o2[u] = o[u]
  BY <1>1 DEF Wakes
<1>6. WokenFirst(w[q]) \subseteq Tasks
  BY <1>2 DEF At
<1> QED  BY <1>2, <1>3, <1>4, <1>5, <1>6

\* The other wait queues, after a wake-up.
LEMMA QueuedOther ==
  ASSUME NEW w, NEW kind, NEW q, NEW t, NEW p, NEW o, NEW p2, NEW o2,
         Wakes(w, kind, q, t, p, o, p2, o2),
         NEW x, NEW k, k # kind, Queued(x, p, o, k)
  PROVE  Queued(x, p2, o2, k)
<1>1. /\ WokenFirst(w[q]) \subseteq At("blocked", p, o, kind, q)
      /\ \A u \in Tasks \ WokenFirst(w[q]) : u # t => p2[u] = p[u] /\ o2[u] = o[u]
  BY WakesFacts
<1>2. p[t] # "blocked"
  BY DEF Wakes
<1>3. ASSUME NEW r \in Slots, NEW u \in At("blocked", p, o, k, r)
      PROVE  u \in At("blocked", p2, o2, k, r)
  BY <1>1, <1>2 DEF At
<1> QED  BY <1>3 DEF Queued

\* The wait queue from which a task was woken.
LEMMA QueuedWake ==
  ASSUME NEW w, NEW kind, NEW q, NEW t, NEW p, NEW o, NEW p2, NEW o2,
         Wakes(w, kind, q, t, p, o, p2, o2)
  PROVE  Queued([w EXCEPT ![q] = AfterWakeFirst(@)], p2, o2, kind)
<1> DEFINE W == WokenFirst(w[q])
           w2 == [w EXCEPT ![q] = AfterWakeFirst(@)]
<1>1. /\ W \subseteq At("blocked", p, o, kind, q)
      /\ \A u \in Tasks \ W : u # t => p2[u] = p[u] /\ o2[u] = o[u]
  BY WakesFacts
<1>2. /\ w \in [Slots -> Seq(Tasks)] /\ q \in Slots /\ w[q] \in Seq(Tasks)
      /\ Queued(w, p, o, kind) /\ p[t] # "blocked"
  BY DEF Wakes
<1>3. ASSUME NEW r \in Slots, NEW u \in At("blocked", p, o, kind, r), r # q \/ u \notin W
      PROVE  u \in At("blocked", p2, o2, kind, r)
  BY <1>1, <1>2, <1>3 DEF At
<1>4. w2[q] = AfterWakeFirst(w[q]) /\ \A r \in Slots \ {q} : w2[r] = w[r]
  BY <1>2
<1> HIDE DEF w2
<1>5. CASE w[q] = <<>>
  <2>1. \A r \in Slots : w2[r] = w[r]
    BY <1>4, <1>5 DEF AfterWakeFirst
  <2>2. W = {}
    BY <1>5 DEF WokenFirst
  <2>3. Queued(w2, p2, o2, kind)
    BY <1>2, <1>3, <2>1, <2>2 DEF Queued
  <2> QED  BY <2>3 DEF w2
<1>6. CASE w[q] # <<>>
  <2>1. w2[q] = Tail(w[q]) /\ W = {w[q][1]} /\ Len(w[q]) \in Nat \ {0}
    BY <1>2, <1>4, <1>6, TailFacts DEF AfterWakeFirst, WokenFirst
  <2>2. \A i \in 1 .. Len(w2[q]) : i + 1 \in 2 .. Len(w[q]) /\ w2[q][i] = w[q][i + 1]
    BY <1>2, <1>6, <2>1, TailFacts
  <2>3. \A i \in 2 .. Len(w[q]) : i \in 1 .. Len(w[q]) /\ 1 \in 1 .. Len(w[q]) /\ i # 1
    BY <2>1
  <2>4. \A i \in 2 .. Len(w[q]) : w[q][i] \in At("blocked", p, o, kind, q) \ W
    BY <1>2, <2>1, <2>3 DEF Queued
  <2>5. \A i \in 1 .. Len(w2[q]) : w2[q][i] \in At("blocked", p2, o2, kind, q)
    BY <1>2, <1>3, <2>2, <2>4, Zenon
  <2>6. \A i, j \in 1 .. Len(w2[q]) : w2[q][i] = w2[q][j] => i = j
    <3>1. \A i, j \in 1 .. Len(w[q]) : w[q][i] = w[q][j] => i = j
      BY <1>2 DEF Queued
    <3>2. \A i \in 1 .. Len(w2[q]) : i + 1 \in 1 .. Len(w[q]) /\ w2[q][i] = w[q][i + 1]
      BY <2>2, <2>3
    <3>3. \A i, j \in 1 .. Len(w2[q]) : w2[q][i] = w2[q][j] => i + 1 = j + 1
      BY <3>1, <3>2
    <3>4. \A i, j \in 1 .. Len(w2[q]) : i + 1 = j + 1 => i = j
      OBVIOUS
    <3> QED  BY <3>3, <3>4
  <2>7. ASSUME NEW r \in Slots \ {q}
        PROVE  /\ \A i \in 1 .. Len(w2[r]) : w2[r][i] \in At("blocked", p2, o2, kind, r)
               /\ \A i, j \in 1 .. Len(w2[r]) : w2[r][i] = w2[r][j] => i = j
    BY <1>2, <1>3, <1>4 DEF Queued
  <2>8. Queued(w2, p2, o2, kind)
    BY <2>5, <2>6, <2>7 DEF Queued
  <2> QED  BY <2>8 DEF w2
<1> QED  BY <1>5, <1>6

\* Destroy of the slots Q: their waiters f and g are all woken and the two wait queues
\* are emptied.
Destroys(f, g, p, o, Q, f2, g2, p2) ==
  /\ f \in [Slots -> Seq(Tasks)] /\ g \in [Slots -> Seq(Tasks)]
  /\ p \in [Tasks -> States] /\ o \in [Tasks -> Calls]
  /\ Queued(f, p, o, "send") /\ Queued(g, p, o, "receive")
  /\ Q \in SUBSET Slots
  /\ f2 = [q \in Slots |-> IF q \in Q THEN <<>> ELSE f[q]]
  /\ g2 = [q \in Slots |-> IF q \in Q THEN <<>> ELSE g[q]]
  /\ p2 = Unblock(p, UNION {WokenAll(f[q]) \cup WokenAll(g[q]) : q \in Q})

\* Destroying the queues Q wakes whoever waits on them, and nobody else.
LEMMA QueuedDestroy ==
  ASSUME NEW f, NEW g, NEW p, NEW o, NEW Q, NEW f2, NEW g2, NEW p2,
         Destroys(f, g, p, o, Q, f2, g2, p2)
  PROVE  /\ p2 \in [Tasks -> States]
         /\ \A u \in Tasks : p2[u] = p[u] \/ (p[u] = "blocked" /\ o[u].q \in Q)
         /\ Queued(f2, p2, o, "send")
         /\ Queued(g2, p2, o, "receive")
<1>0. /\ f \in [Slots -> Seq(Tasks)] /\ g \in [Slots -> Seq(Tasks)]
      /\ p \in [Tasks -> States] /\ o \in [Tasks -> Calls]
      /\ Queued(f, p, o, "send") /\ Queued(g, p, o, "receive")
      /\ Q \in SUBSET Slots
      /\ p2 = Unblock(p, UNION {WokenAll(f[q]) \cup WokenAll(g[q]) : q \in Q})
  BY DEF Destroys
<1>f. /\ f2 = [q \in Slots |-> IF q \in Q THEN <<>> ELSE f[q]]
      /\ g2 = [q \in Slots |-> IF q \in Q THEN <<>> ELSE g[q]]
  BY DEF Destroys
<1> DEFINE W == UNION {WokenAll(f[q]) \cup WokenAll(g[q]) : q \in Q}
<1>1. \A u \in W : p[u] = "blocked" /\ o[u].q \in Q
  <2> SUFFICES ASSUME NEW u \in W PROVE p[u] = "blocked" /\ o[u].q \in Q
    OBVIOUS
  <2>1. PICK q \in Q : u \in WokenAll(f[q]) \/ u \in WokenAll(g[q])
    OBVIOUS
  <2>2. u \in At("blocked", p, o, "send", q) \/ u \in At("blocked", p, o, "receive", q)
    BY <1>0, <2>1 DEF WokenAll, Queued
  <2> QED  BY <2>2 DEF At
<1>2. p2 = Unblock(p, W)
  BY <1>0
<1> HIDE DEF W
<1>3. p2 \in [Tasks -> States] /\ \A u \in Tasks : p2[u] = p[u] \/ (p[u] = "blocked" /\ u \in W)
  BY <1>0, <1>2 DEF Unblock, States
<1>4. \A u \in Tasks : p2[u] = p[u] \/ (p[u] = "blocked" /\ o[u].q \in Q)
  BY <1>1, <1>3
<1>5. ASSUME NEW w, NEW k, Queued(w, p, o, k)
      PROVE  Queued([q \in Slots |-> IF q \in Q THEN <<>> ELSE w[q]], p2, o, k)
  <2>1. \A q \in Slots \ Q : At("blocked", p, o, k, q) \subseteq At("blocked", p2, o, k, q)
    BY <1>4 DEF At
  <2> DEFINE w2 == [q \in Slots |-> IF q \in Q THEN <<>> ELSE w[q]]
  <2>2. (\A q \in Q : w2[q] = <<>>) /\ \A q \in Slots \ Q : w2[q] = w[q]
    BY <1>0
  <2> HIDE DEF w2
  <2>3. ASSUME NEW q \in Slots
        PROVE  /\ \A i \in 1 .. Len(w2[q]) : w2[q][i] \in At("blocked", p2, o, k, q)
               /\ \A i, j \in 1 .. Len(w2[q]) : w2[q][i] = w2[q][j] => i = j
    <3>1. CASE q \in Q
      <4>1. Len(w2[q]) = 0
        BY <3>1, <2>2
      <4> QED  BY <4>1
    <3>2. CASE q \notin Q
      BY <1>5, <2>1, <2>2, <3>2 DEF Queued
    <3> QED  BY <3>1, <3>2
  <2>4. Queued(w2, p2, o, k)
    BY <2>3 DEF Queued
  <2> QED  BY <2>4 DEF w2
<1> QED  BY <1>0, <1>f, <1>3, <1>4, <1>5, Zenon

-----------------------------------------------------------------------------
(* Counting. *)

\* The tasks in a call can be counted.
LEMMA AtIsFinite ==
  ASSUME NEW st, NEW p, NEW o, NEW kind, NEW q
  PROVE  /\ IsFiniteSet(At(st, p, o, kind, q))
         /\ Cardinality(At(st, p, o, kind, q)) \in Nat
<1>1. At(st, p, o, kind, q) \in SUBSET Tasks
  BY DEF At
<1> QED  BY <1>1, MessageAssumption, FS_Subset, FS_CardinalityType

\* The number of elements of a set that t leaves.
LEMMA CountLeaves ==
  ASSUME NEW S, IsFiniteSet(S), NEW t
  PROVE  /\ IsFiniteSet(S \ {t})
         /\ Cardinality(S \ {t}) = Cardinality(S) - (IF t \in S THEN 1 ELSE 0)
<1>1. Cardinality(S) \in Nat
  BY FS_CardinalityType
<1>2. CASE t \in S
  BY <1>1, <1>2, FS_RemoveElement
<1>3. CASE t \notin S
  <2>1. S \ {t} = S
    BY <1>3
  <2>2. Cardinality(S) = Cardinality(S) - 0
    BY <1>1
  <2> QED  BY <1>3, <2>1, <2>2
<1> QED  BY <1>2, <1>3

\* How many tasks are woken in a call of each kind on each queue, after a step that wakes
\* the first of the waiters w[q] and in which t ends its call.
LEMMA WokenCount ==
  ASSUME NEW w, NEW kind, NEW q, NEW t, NEW p, NEW o, NEW p2, NEW o2,
         Wakes(w, kind, q, t, p, o, p2, o2)
  PROVE  \A k : \A r \in Slots :
           Cardinality(At("woken", p2, o2, k, r)) =
             Cardinality(At("woken", p, o, k, r))
               - (IF t \in At("woken", p, o, k, r) THEN 1 ELSE 0)
               + (IF k = kind /\ r = q /\ w[q] # <<>> THEN 1 ELSE 0)
<1> DEFINE W == WokenFirst(w[q])
<1>1. /\ W \subseteq At("blocked", p, o, kind, q)
      /\ t \notin W /\ p2[t] = "idle"
      /\ \A u \in W : p2[u] = "woken" /\ o2[u] = o[u]
      /\ \A u \in Tasks \ W : u # t => p2[u] = p[u] /\ o2[u] = o[u]
  BY WakesFacts
<1> TAKE k
<1> TAKE r \in Slots
<1> DEFINE A == At("woken", p, o, k, r)
           B == At("woken", p2, o2, k, r)
<1>2. \A u \in W : u \in Tasks /\ p[u] = "blocked" /\ o[u].kind = kind /\ o[u].q = q
  BY <1>1 DEF At
<1>3. IsFiniteSet(A) /\ Cardinality(A) \in Nat
  BY AtIsFinite
<1>4. IsFiniteSet(A \ {t}) /\ Cardinality(A \ {t}) = Cardinality(A) - (IF t \in A THEN 1 ELSE 0)
  BY <1>3, CountLeaves
<1>5. CASE k = kind /\ r = q /\ w[q] # <<>>
  <2>1. W = {Head(w[q])}
    BY <1>5 DEF WokenFirst
  <2>2. B = (A \ {t}) \cup {Head(w[q])}
    BY <1>1, <1>2, <1>5, <2>1 DEF At
  <2>3. Head(w[q]) \notin A \ {t}
    BY <1>2, <2>1 DEF At
  <2>4. Cardinality(B) = Cardinality(A \ {t}) + 1
    BY <1>4, <2>2, <2>3, FS_AddElement, Zenon
  <2> QED  BY <1>3, <1>4, <1>5, <2>4
<1>6. CASE ~ (k = kind /\ r = q /\ w[q] # <<>>)
  <2>1. \A u \in W : u \notin B
    <3>1. CASE w[q] = <<>>
      BY <3>1 DEF WokenFirst
    <3>2. CASE ~ (k = kind /\ r = q)
      BY <1>1, <1>2, <3>2 DEF At
    <3> QED  BY <1>6, <3>1, <3>2
  <2>2. B = A \ {t}
    BY <1>1, <1>2, <2>1 DEF At
  <2>3. Cardinality(B) = Cardinality(A) - (IF t \in A THEN 1 ELSE 0)
    BY <1>4, <2>2
  <2> HIDE DEF A, B
  <2>4. Cardinality(B) = Cardinality(A) - (IF t \in A THEN 1 ELSE 0) + 0
    BY <1>3, <2>3
  <2> QED  BY <1>6, <2>4 DEF A, B
<1> QED  BY <1>5, <1>6

\* A message that is added is one more, at whatever priority.
LEMMA TotalMore ==
  ASSUME NEW M, NEW c \in [Levels -> Seq(M)], NEW l \in Levels, NEW m \in M
  PROVE  Channel!Total([c EXCEPT ![l] = Append(@, m)]) = Channel!Total(c) + 1
<1> DEFINE a == Len(c[0])
           b == Len(c[1])
           d == Len(c[2])
           e == Len(c[3])
<1>1. Levels = {0, 1, 2, 3}
  BY DEF Levels, MESSAGE_PRIORITY_URGENT
<1>2. /\ a \in Nat /\ b \in Nat /\ d \in Nat /\ e \in Nat
      /\ Channel!Total(c) = a + b + d + e
  BY <1>1 DEF Channel!Total
<1> HIDE DEF a, b, d, e
<1> DEFINE c2 == [c EXCEPT ![l] = Append(@, m)]
<1>3. Len(c2[l]) = Len(c[l]) + 1 /\ \A i \in Levels \ {l} : c2[i] = c[i]
  OBVIOUS
<1>4. Channel!Total(c2) = Len(c2[0]) + Len(c2[1]) + Len(c2[2]) + Len(c2[3])
  BY DEF Channel!Total
<1> HIDE DEF c2
<1>5. /\ Len(c2[0]) = IF l = 0 THEN a + 1 ELSE a
      /\ Len(c2[1]) = IF l = 1 THEN b + 1 ELSE b
      /\ Len(c2[2]) = IF l = 2 THEN d + 1 ELSE d
      /\ Len(c2[3]) = IF l = 3 THEN e + 1 ELSE e
  BY <1>1, <1>3, Zenon DEF a, b, d, e
<1>6. l = 0 \/ l = 1 \/ l = 2 \/ l = 3
  BY <1>1
<1>7. Channel!Total(c2) = a + b + d + e + 1
  BY <1>2, <1>4, <1>5, <1>6, SMTT(30)
<1> QED  BY <1>2, <1>7 DEF c2

\* A message that is taken is one less.
LEMMA TotalLess ==
  ASSUME NEW M, NEW c \in [Levels -> Seq(M)], NEW l \in Levels
  PROVE  /\ Channel!Total(c) \in Nat
         /\ c[l] # <<>> => Channel!Total([c EXCEPT ![l] = Tail(@)]) = Channel!Total(c) - 1
<1> DEFINE a == Len(c[0])
           b == Len(c[1])
           d == Len(c[2])
           e == Len(c[3])
<1>1. Levels = {0, 1, 2, 3}
  BY DEF Levels, MESSAGE_PRIORITY_URGENT
<1>2. /\ a \in Nat /\ b \in Nat /\ d \in Nat /\ e \in Nat
      /\ Channel!Total(c) = a + b + d + e
  BY <1>1 DEF Channel!Total
<1> HIDE DEF a, b, d, e
<1>4. ASSUME c[l] # <<>>
      PROVE  Channel!Total([c EXCEPT ![l] = Tail(@)]) = Channel!Total(c) - 1
  <2> DEFINE c2 == [c EXCEPT ![l] = Tail(@)]
  <2>1. Len(c2[l]) = Len(c[l]) - 1 /\ \A i \in Levels \ {l} : c2[i] = c[i]
    BY <1>4
  <2>2. Channel!Total(c2) = Len(c2[0]) + Len(c2[1]) + Len(c2[2]) + Len(c2[3])
    BY DEF Channel!Total
  <2> HIDE DEF c2
  <2>3. /\ Len(c2[0]) = IF l = 0 THEN a - 1 ELSE a
        /\ Len(c2[1]) = IF l = 1 THEN b - 1 ELSE b
        /\ Len(c2[2]) = IF l = 2 THEN d - 1 ELSE d
        /\ Len(c2[3]) = IF l = 3 THEN e - 1 ELSE e
    BY <1>1, <2>1, Zenon DEF a, b, d, e
  <2>4. l = 0 \/ l = 1 \/ l = 2 \/ l = 3
    BY <1>1
  <2>5. Channel!Total(c2) = a + b + d + e - 1
    BY <1>2, <2>2, <2>3, <2>4, SMTT(30)
  <2> QED  BY <1>2, <2>5 DEF c2
<1>5. Channel!Total(c) \in Nat
  BY <1>2
<1> QED  BY <1>4, <1>5

-----------------------------------------------------------------------------
(* Facts about one state. *)

\* Woken is about the states and calls of the tasks now.
LEMMA WokenIsAt ==
  ASSUME NEW kind, NEW q
  PROVE  /\ Woken(kind, q) = At("woken", pc, op, kind, q)
         /\ Woken(kind, q)' = At("woken", pc', op', kind, q)
         /\ Cardinality(Woken(kind, q)) \in Nat /\ Cardinality(Woken(kind, q)') \in Nat
<1>1. /\ Woken(kind, q) = At("woken", pc, op, kind, q)
      /\ Woken(kind, q)' = At("woken", pc', op', kind, q)
  BY DEF Woken, At
<1> QED  BY <1>1, AtIsFinite

\* The parts of the type invariant that the lemmas about tasks need.
LEMMA TaskTypes ==
  ASSUME TypeOK
  PROVE  /\ pc \in [Tasks -> States] /\ op \in [Tasks -> Calls]
         /\ free_waiters \in [Slots -> Seq(Tasks)] /\ used_waiters \in [Slots -> Seq(Tasks)]
BY DEF TypeOK, States, Calls

\* A call that is over is a call.
LEMMA NoCallType == NoCall \in Calls /\ NoCall.kind = "none"
<1>1. 0 \in 0 .. MaxId /\ 0 \in Levels
  BY MessageAssumption DEF Levels, MESSAGE_PRIORITY_URGENT
<1> QED  BY <1>1 DEF NoCall, Calls

\* A priority that is out of range becomes one of the four.
LEMMA LevelType == \A p \in Priorities : Level(p) \in Levels
BY MessageAssumption DEF Level, Levels, MESSAGE_PRIORITY_URGENT, MESSAGE_PRIORITY_NORMAL

\* find_free_message_queue finds a free slot when there is one.
LEMMA FindsFree ==
  ASSUME FreeQueues # {}
  PROVE  find_free_message_queue \in Slots /\ ~ live[find_free_message_queue]
<1>1. FreeQueues \in SUBSET Nat
  BY MessageAssumption, Zenon DEF FreeQueues
<1>2. \E q \in FreeQueues : \A r \in FreeQueues : q <= r
  BY <1>1, LeastExists
<1>3. find_free_message_queue \in FreeQueues
  BY <1>2, Zenon DEF find_free_message_queue
<1> QED  BY <1>3 DEF FreeQueues

\* The total of a queue is that of its lists.
LEMMA TotalIs ==
  ASSUME NEW q
  PROVE  Total(q) = Channel!Total(messages[q]) /\ Total(q)' = Channel!Total(messages'[q])
BY DEF Total, Channel!Total

\* dequeue_message finds a message where there is one, in a list with no list of a
\* higher priority that has any.
LEMMA HighestFacts ==
  ASSUME TypeOK, NEW q \in Slots
  PROVE  /\ Total(q) \in Nat
         /\ Total(q) # 0 => NonEmpty(q) # {}
         /\ NonEmpty(q) # {} => /\ HighestPriority(q) \in Levels
                                /\ messages[q][HighestPriority(q)] # <<>>
                                /\ \A r \in Levels : r > HighestPriority(q) => messages[q][r] = <<>>
<1>1. Levels = {0, 1, 2, 3}
  BY DEF Levels, MESSAGE_PRIORITY_URGENT
<1>2. messages[q] \in [Levels -> Seq(1 .. MaxId)]
  BY DEF TypeOK
<1>3. Total(q) \in Nat
  <2> DEFINE c == messages[q]
  <2>1. c \in [Levels -> Seq(1 .. MaxId)] /\ 0 \in Levels
    BY <1>1, <1>2
  <2> HIDE DEF c
  <2>2. Channel!Total(c) \in Nat
    BY <2>1, TotalLess, Zenon
  <2> QED  BY <2>2, TotalIs DEF c
<1>4. ASSUME NonEmpty(q) = {} PROVE Total(q) = 0
  <2>1. \A p \in Levels : messages[q][p] = <<>>
    BY <1>4 DEF NonEmpty
  <2>2. /\ Len(messages[q][0]) = 0 /\ Len(messages[q][1]) = 0
        /\ Len(messages[q][2]) = 0 /\ Len(messages[q][3]) = 0
    BY <1>1, <2>1
  <2>3. Total(q) = 0 + 0 + 0 + 0
    BY <2>2 DEF Total
  <2> QED  BY <2>3
<1>5. ASSUME NonEmpty(q) # {}
      PROVE  \E p \in NonEmpty(q) : \A r \in NonEmpty(q) : r <= p
  BY <1>1, <1>5 DEF NonEmpty
<1>6. ASSUME NonEmpty(q) # {}
      PROVE  /\ HighestPriority(q) \in NonEmpty(q)
             /\ \A r \in NonEmpty(q) : r <= HighestPriority(q)
  BY <1>5, <1>6, Zenon DEF HighestPriority
<1>7. ASSUME NonEmpty(q) # {}
      PROVE  /\ HighestPriority(q) \in Levels
             /\ messages[q][HighestPriority(q)] # <<>>
             /\ \A r \in Levels : r > HighestPriority(q) => messages[q][r] = <<>>
  <2> DEFINE h == HighestPriority(q)
  <2>1. h \in NonEmpty(q) /\ \A r \in NonEmpty(q) : r <= h
    BY <1>6, <1>7
  <2> HIDE DEF h
  <2>2. h \in Levels /\ messages[q][h] # <<>>
    BY <2>1 DEF NonEmpty
  <2>3. \A r \in Levels : r > h => r \notin NonEmpty(q)
    BY <1>1, <2>1, <2>2
  <2>4. \A r \in Levels : r > h => messages[q][r] = <<>>
    BY <2>3 DEF NonEmpty
  <2> QED  BY <2>2, <2>4 DEF h
<1> QED  BY <1>3, <1>4, <1>7

\* At boot there is no queue and no call.
LEMMA InitHolds == Init => IInv
<1> SUFFICES ASSUME Init PROVE IInv
  OBVIOUS
<1> USE MessageAssumption DEF Init
<1>1. TypeOK
  <2>1. NoMessages \in [Levels -> Seq(1 .. MaxId)]
    BY DEF NoMessages
  <2>2. next_message_id \in 1 .. MaxId + 1 /\ 0 \in 0 .. MaxMessages
    BY DEF MaxMessages
  <2>3. op \in [Tasks -> Calls]
    BY NoCallType
  <2> QED  BY <2>1, <2>2, <2>3 DEF TypeOK, Calls
<1>2. TaskInv
  <2>1. Queued(free_waiters, pc, op, "send") /\ Queued(used_waiters, pc, op, "receive")
    BY DEF Queued
  <2> QED  BY <2>1 DEF TaskInv, InCall, NobodyWaitsAsBuilt
<1>3. WaitersMeanNoSlot /\ DeadHasNoRoom
  BY DEF WaitersMeanNoSlot, DeadHasNoRoom
<1>4. CountsMessages /\ SlotsAccounted
  <2> SUFFICES ASSUME NEW q \in Slots
               PROVE  /\ free_slots[q] + Cardinality(Woken("send", q)) + message_count[q] + leaked[q]
                            = max_messages[q]
                      /\ used_slots[q] + Cardinality(Woken("receive", q)) = message_count[q]
                      /\ message_count[q] = Total(q)
    BY DEF CountsMessages, SlotsAccounted, Sound
  <2>1. Woken("send", q) = {} /\ Woken("receive", q) = {}
    BY DEF Woken
  <2>2. Cardinality(Woken("send", q)) = 0 /\ Cardinality(Woken("receive", q)) = 0
    BY <2>1, FS_EmptySet, Zenon
  <2>3. NonEmpty(q) = {}
    BY DEF NonEmpty, NoMessages
  <2>4. Total(q) = 0
    BY <1>1, <2>3, HighestFacts
  <2>5. /\ free_slots[q] = 0 /\ message_count[q] = 0 /\ leaked[q] = 0 /\ max_messages[q] = 0
        /\ used_slots[q] = 0
    OBVIOUS
  <2> QED  BY <2>2, <2>4, <2>5
<1> QED  BY <1>1, <1>2, <1>3, <1>4 DEF IInv

-----------------------------------------------------------------------------
(* The steps. *)

\* The tasks after a step that wakes the first of the waiters w[q] and in which t ends
\* its call.
LEMMA WakesCalls ==
  ASSUME TypeOK, TaskInv, NEW w, NEW kind, NEW q, NEW t,
         Wakes(w, kind, q, t, pc, op, pc', op'), live' = live
  PROVE  /\ pc' \in [Tasks -> States] /\ op' \in [Tasks -> Calls]
         /\ InCall' /\ NobodyWaitsAsBuilt'
<1> DEFINE W == WokenFirst(w[q])
<1>1. pc \in [Tasks -> States] /\ op \in [Tasks -> Calls]
  BY TaskTypes
<1>2. /\ pc' \in [Tasks -> States] /\ W \subseteq At("blocked", pc, op, kind, q)
      /\ pc'[t] = "idle"
      /\ \A u \in W : pc'[u] = "woken" /\ op'[u] = op[u]
      /\ \A u \in Tasks \ W : u # t => pc'[u] = pc[u] /\ op'[u] = op[u]
  BY <1>1, WakesFacts
<1>3. op' \in [Tasks -> Calls]
  BY <1>1, NoCallType, Zenon DEF Wakes
<1>4. \A u \in W : pc[u] = "blocked"
  BY <1>2 DEF At
<1>5. \A u \in Tasks : pc'[u] # "idle" => pc[u] # "idle" /\ op'[u] = op[u]
  BY <1>2, <1>4
<1>6. InCall'
  BY <1>5 DEF TaskInv, InCall
<1>7. NobodyWaitsAsBuilt'
  BY <1>5 DEF TaskInv, NobodyWaitsAsBuilt
<1> QED  BY <1>2, <1>3, <1>6, <1>7

\* What enqueue_message leaves of the invariant, and how it changes the counts.
LEMMA EnqueueStep ==
  ASSUME TypeOK, TaskInv, WaitersMeanNoSlot, NEW t \in Tasks, NEW q \in Slots,
         NEW id \in 1 .. MaxId, NEW level \in Levels, enqueue_message(t, q, id, level),
         Wakes(used_waiters, "receive", q, t, pc, op, pc', op'),
         UNCHANGED <<queueVars, free_waiters>>
  PROVE  /\ messages' \in [Slots -> [Levels -> Seq(1 .. MaxId)]]
         /\ message_count' \in [Slots -> Nat] /\ used_slots' \in [Slots -> Nat]
         /\ used_waiters' \in [Slots -> Seq(Tasks)]
         /\ pc' \in [Tasks -> States] /\ op' \in [Tasks -> Calls]
         /\ TaskInv'
         /\ \A r \in Slots : used_waiters'[r] # <<>> => used_slots'[r] = 0
         /\ Total(q)' = Total(q) + 1 /\ \A r \in Slots \ {q} : Total(r)' = Total(r)
<1>1. /\ pc \in [Tasks -> States] /\ op \in [Tasks -> Calls]
      /\ used_waiters \in [Slots -> Seq(Tasks)] /\ free_waiters \in [Slots -> Seq(Tasks)]
  BY TaskTypes
<1>2. /\ Queued(used_waiters, pc, op, "receive") /\ Queued(free_waiters, pc, op, "send")
      /\ live' = live /\ free_waiters' = free_waiters
      /\ used_waiters' = [used_waiters EXCEPT ![q] = AfterWakeFirst(@)]
  BY DEF TaskInv, queueVars, enqueue_message
<1>3. /\ pc' \in [Tasks -> States] /\ op' \in [Tasks -> Calls]
      /\ InCall' /\ NobodyWaitsAsBuilt'
  BY <1>2, WakesCalls
<1>4. "send" # "receive"
  OBVIOUS
<1>5. TaskInv'
  <2>1. Queued([used_waiters EXCEPT ![q] = AfterWakeFirst(@)], pc', op', "receive")
    BY QueuedWake
  <2>2. Queued(free_waiters, pc', op', "send")
    BY <1>2, <1>4, QueuedOther
  <2> QED  BY <1>2, <1>3, <2>1, <2>2, Zenon DEF TaskInv
<1>6. AfterWakeFirst(used_waiters[q]) \in Seq(Tasks)
  <2>1. used_waiters[q] \in Seq(Tasks)
    BY <1>1
  <2> QED  BY <2>1, TailFacts, Zenon DEF AfterWakeFirst
<1>7. used_waiters' \in [Slots -> Seq(Tasks)]
  BY <1>1, <1>2, <1>6
<1>8. messages' = [messages EXCEPT ![q][level] = Append(@, id)]
  BY DEF enqueue_message
<1>9. messages \in [Slots -> [Levels -> Seq(1 .. MaxId)]]
  BY DEF TypeOK
<1>10. /\ messages' \in [Slots -> [Levels -> Seq(1 .. MaxId)]]
       /\ messages'[q] = [messages[q] EXCEPT ![level] = Append(@, id)]
       /\ \A r \in Slots \ {q} : messages'[r] = messages[r]
  BY <1>8, <1>9
<1>11. Total(q)' = Total(q) + 1 /\ \A r \in Slots \ {q} : Total(r)' = Total(r)
  <2> DEFINE c == messages[q]
             M == 1 .. MaxId
  <2>1. c \in [Levels -> Seq(M)] /\ id \in M
    BY <1>9
  <2> HIDE DEF c, M
  <2>2. \A x \in [Levels -> Seq(M)], l \in Levels, m \in M :
          Channel!Total([x EXCEPT ![l] = Append(@, m)]) = Channel!Total(x) + 1
    BY TotalMore, Zenon
  <2>3. Channel!Total([c EXCEPT ![level] = Append(@, id)]) = Channel!Total(c) + 1
    BY <2>1, <2>2, Zenon
  <2> QED  BY <1>10, <2>3, TotalIs, Zenon DEF c
<1>12. message_count' \in [Slots -> Nat] /\ used_slots' \in [Slots -> Nat]
  <2>1. message_count \in [Slots -> Nat] /\ used_slots \in [Slots -> Nat]
    BY DEF TypeOK
  <2>2. message_count[q] + 1 \in Nat /\ used_slots[q] + 1 \in Nat
    BY <2>1
  <2> QED  BY <2>1, <2>2 DEF enqueue_message
<1>13. ASSUME NEW r \in Slots, used_waiters'[r] # <<>> PROVE used_slots'[r] = 0
  <2>1. used_waiters[r] # <<>>
    BY <1>1, <1>2, <1>13 DEF AfterWakeFirst
  <2>2. used_slots'[r] = used_slots[r]
    BY <2>1 DEF enqueue_message, TypeOK
  <2> QED  BY <2>1, <2>2 DEF WaitersMeanNoSlot
<1> QED  BY <1>3, <1>5, <1>7, <1>10, <1>11, <1>12, <1>13, Zenon

\* What the second branch of dequeue_message leaves of the invariant, and how it changes
\* the counts.
LEMMA DequeueStep ==
  ASSUME TypeOK, TaskInv, WaitersMeanNoSlot, NEW t \in Tasks, NEW q \in Slots,
         NonEmpty(q) # {}, dequeue_message(t, q),
         Wakes(free_waiters, "send", q, t, pc, op, pc', op'),
         UNCHANGED <<queueVars, used_waiters>>
  PROVE  /\ messages' \in [Slots -> [Levels -> Seq(1 .. MaxId)]]
         /\ free_slots' \in [Slots -> Nat]
         /\ free_waiters' \in [Slots -> Seq(Tasks)]
         /\ pc' \in [Tasks -> States] /\ op' \in [Tasks -> Calls]
         /\ TaskInv'
         /\ \A r \in Slots : free_waiters'[r] # <<>> => free_slots'[r] = 0
         /\ Total(q)' = Total(q) - 1 /\ \A r \in Slots \ {q} : Total(r)' = Total(r)
<1>1. /\ pc \in [Tasks -> States] /\ op \in [Tasks -> Calls]
      /\ used_waiters \in [Slots -> Seq(Tasks)] /\ free_waiters \in [Slots -> Seq(Tasks)]
  BY TaskTypes
<1>2. /\ Queued(used_waiters, pc, op, "receive") /\ Queued(free_waiters, pc, op, "send")
      /\ live' = live /\ used_waiters' = used_waiters
      /\ free_waiters' = [free_waiters EXCEPT ![q] = AfterWakeFirst(@)]
  BY DEF TaskInv, queueVars, dequeue_message
<1>3. /\ pc' \in [Tasks -> States] /\ op' \in [Tasks -> Calls]
      /\ InCall' /\ NobodyWaitsAsBuilt'
  BY <1>2, WakesCalls
<1>4. "receive" # "send"
  OBVIOUS
<1>5. TaskInv'
  <2>1. Queued([free_waiters EXCEPT ![q] = AfterWakeFirst(@)], pc', op', "send")
    BY QueuedWake
  <2>2. Queued(used_waiters, pc', op', "receive")
    BY <1>2, <1>4, QueuedOther
  <2> QED  BY <1>2, <1>3, <2>1, <2>2, Zenon DEF TaskInv
<1>6. AfterWakeFirst(free_waiters[q]) \in Seq(Tasks)
  <2>1. free_waiters[q] \in Seq(Tasks)
    BY <1>1
  <2> QED  BY <2>1, TailFacts, Zenon DEF AfterWakeFirst
<1>7. free_waiters' \in [Slots -> Seq(Tasks)]
  BY <1>1, <1>2, <1>6
<1> DEFINE h == HighestPriority(q)
<1>8. h \in Levels /\ messages[q][h] # <<>>
  BY HighestFacts, Zenon
<1>9. messages \in [Slots -> [Levels -> Seq(1 .. MaxId)]]
  BY DEF TypeOK
<1>10. messages' = [messages EXCEPT ![q][h] = Tail(@)]
  BY DEF dequeue_message
<1> HIDE DEF h
<1>11. Tail(messages[q][h]) \in Seq(1 .. MaxId)
  <2> DEFINE c == messages[q][h]
  <2>1. c \in Seq(1 .. MaxId) /\ c # <<>>
    BY <1>8, <1>9
  <2> HIDE DEF c
  <2>2. Tail(c) \in Seq(1 .. MaxId)
    BY <2>1
  <2> QED  BY <2>2 DEF c
<1>12. /\ messages' \in [Slots -> [Levels -> Seq(1 .. MaxId)]]
       /\ messages'[q] = [messages[q] EXCEPT ![h] = Tail(@)]
       /\ \A r \in Slots \ {q} : messages'[r] = messages[r]
  BY <1>8, <1>9, <1>10, <1>11
<1>13. Total(q)' = Total(q) - 1 /\ \A r \in Slots \ {q} : Total(r)' = Total(r)
  <2> DEFINE c == messages[q]
  <2>1. c \in [Levels -> Seq(1 .. MaxId)] /\ c[h] # <<>>
    BY <1>8, <1>9
  <2> HIDE DEF c
  <2>2. Channel!Total([c EXCEPT ![h] = Tail(@)]) = Channel!Total(c) - 1
    BY <1>8, <2>1, TotalLess, Zenon
  <2> QED  BY <1>12, <2>2, TotalIs, Zenon DEF c
<1>14. free_slots' \in [Slots -> Nat]
  <2>1. free_slots \in [Slots -> Nat]
    BY DEF TypeOK
  <2>2. free_slots[q] + 1 \in Nat
    BY <2>1
  <2> QED  BY <2>1, <2>2 DEF dequeue_message
<1>15. ASSUME NEW r \in Slots, free_waiters'[r] # <<>> PROVE free_slots'[r] = 0
  <2>1. free_waiters[r] # <<>>
    BY <1>1, <1>2, <1>15 DEF AfterWakeFirst
  <2>2. free_slots'[r] = free_slots[r]
    BY <2>1, Zenon DEF dequeue_message, TypeOK
  <2> QED  BY <2>1, <2>2 DEF WaitersMeanNoSlot
<1> QED  BY <1>3, <1>5, <1>7, <1>12, <1>13, <1>14, <1>15, Zenon

\* A task that ends its call without waking another: the wake-up from a wait queue in
\* which nobody is.
LEMMA EndsCall ==
  ASSUME TypeOK, NEW t \in Tasks, NEW q \in Slots, pc' = [pc EXCEPT ![t] = "idle"],
         \/ pc[t] = "idle" /\ op' = op
         \/ pc[t] = "woken" /\ op' = [op EXCEPT ![t] = NoCall]
  PROVE  Wakes([r \in Slots |-> <<>>], "none", q, t, pc, op, pc', op')
<1> DEFINE w == [r \in Slots |-> <<>>]
<1>1. w \in [Slots -> Seq(Tasks)] /\ pc \in [Tasks -> States] /\ op \in [Tasks -> Calls]
  BY TaskTypes
<1>2. Queued(w, pc, op, "none")
  BY DEF Queued
<1>3. WokenFirst(w[q]) = {}
  BY DEF WokenFirst
<1>4. Unblock([pc EXCEPT ![t] = "idle"], {}) = [pc EXCEPT ![t] = "idle"]
  BY <1>1, Zenon DEF Unblock
<1> HIDE DEF w
<1>5. Wakes(w, "none", q, t, pc, op, pc', op')
  BY <1>1, <1>2, <1>3, <1>4 DEF Wakes
<1> QED  BY <1>5 DEF w

\* The tasks after such a step.
LEMMA EndsCallStep ==
  ASSUME TypeOK, TaskInv, NEW t \in Tasks, NEW q \in Slots, pc' = [pc EXCEPT ![t] = "idle"],
         \/ pc[t] = "idle" /\ op' = op
         \/ pc[t] = "woken" /\ op' = [op EXCEPT ![t] = NoCall],
         UNCHANGED <<live, free_waiters, used_waiters>>
  PROVE  /\ pc' \in [Tasks -> States] /\ op' \in [Tasks -> Calls]
         /\ TaskInv'
         /\ \A k : \A r \in Slots :
              Cardinality(Woken(k, r)') =
                Cardinality(Woken(k, r)) - (IF t \in Woken(k, r) THEN 1 ELSE 0)
<1> DEFINE w == [r \in Slots |-> <<>>]
<1>1. Wakes(w, "none", q, t, pc, op, pc', op')
  BY EndsCall, Zenon
<1>2. \A r \in Slots : w[r] = <<>>
  OBVIOUS
<1> HIDE DEF w
<1>3. /\ pc' \in [Tasks -> States] /\ op' \in [Tasks -> Calls]
      /\ InCall' /\ NobodyWaitsAsBuilt'
  BY <1>1, WakesCalls, Zenon
<1>4. "send" # "none" /\ "receive" # "none"
  OBVIOUS
<1>5. Queued(free_waiters, pc', op', "send") /\ Queued(used_waiters, pc', op', "receive")
  BY <1>1, <1>4, QueuedOther DEF TaskInv
<1>6. TaskInv'
  BY <1>3, <1>5 DEF TaskInv
<1>7. ASSUME NEW k, NEW r \in Slots
      PROVE  Cardinality(Woken(k, r)') =
               Cardinality(Woken(k, r)) - (IF t \in Woken(k, r) THEN 1 ELSE 0)
  <2> DEFINE A == At("woken", pc, op, k, r)
             B == At("woken", pc', op', k, r)
  <2>1. Cardinality(B) = Cardinality(A) - (IF t \in A THEN 1 ELSE 0)
                           + (IF k = "none" /\ r = q /\ w[q] # <<>> THEN 1 ELSE 0)
    BY <1>1, WokenCount, SMTT(30)
  <2>2. Woken(k, r) = A /\ Woken(k, r)' = B /\ Cardinality(A) \in Nat
    BY WokenIsAt, Zenon
  <2> HIDE DEF A, B
  <2>3. Cardinality(B) = Cardinality(A) - (IF t \in A THEN 1 ELSE 0)
    BY <1>2, <2>1, <2>2
  <2> QED  BY <2>2, <2>3
<1> QED  BY <1>3, <1>6, <1>7

\* enqueue_message keeps the account, if the slot that it fills was taken from the
\* free ones or was the caller's.
LEMMA EnqueueAccounted ==
  ASSUME IInv, NEW t \in Tasks, NEW q \in Slots, NEW id \in 1 .. MaxId, NEW level \in Levels,
         enqueue_message(t, q, id, level),
         Wakes(used_waiters, "receive", q, t, pc, op, pc', op'),
         UNCHANGED <<queueVars, free_waiters>>, q \in Sound => live[q],
         free_slots' \in [Slots -> Nat], \A r \in Slots : t \notin Woken("receive", r),
         \A r \in Slots : free_slots'[r] - (IF t \in Woken("send", r) THEN 1 ELSE 0) =
                            free_slots[r] - (IF r = q THEN 1 ELSE 0)
  PROVE  SlotsAccounted'
<1> SUFFICES ASSUME NEW r \in Sound
             PROVE  /\ free_slots'[r] + Cardinality(Woken("send", r)') + message_count'[r]
                         + leaked'[r] = max_messages'[r]
                    /\ used_slots'[r] + Cardinality(Woken("receive", r)') = message_count'[r]
                    /\ message_count'[r] = Total(r)'
  BY Zenon DEF SlotsAccounted
<1>1. r \in Slots
  BY Zenon DEF Sound
<1> DEFINE F == free_slots[r]
           F2 == free_slots'[r]
           S == Cardinality(Woken("send", r))
           S2 == Cardinality(Woken("send", r)')
           C == message_count[r]
           U == used_slots[r]
           U2 == used_slots'[r]
           R == Cardinality(Woken("receive", r))
           R2 == Cardinality(Woken("receive", r)')
           L == leaked[r]
           m == max_messages[r]
           T == Total(r)
<1>2. /\ F \in Nat /\ F2 \in Nat /\ S \in Nat /\ C \in Nat /\ U \in Nat /\ R \in Nat
      /\ L \in Nat /\ m \in Nat
  BY <1>1, WokenIsAt, SMTT(30) DEF IInv, TypeOK
<1>3. F + S + C + L = m /\ U + R = C /\ C = T
  BY Zenon DEF IInv, SlotsAccounted
<1>4. S2 = S - (IF t \in Woken("send", r) THEN 1 ELSE 0)
  <2> DEFINE A == At("woken", pc, op, "send", r)
             B == At("woken", pc', op', "send", r)
  <2>1. Cardinality(B) = Cardinality(A) - (IF t \in A THEN 1 ELSE 0)
                  + (IF "send" = "receive" /\ r = q /\ used_waiters[q] # <<>> THEN 1 ELSE 0)
    BY <1>1, WokenCount, SMTT(30)
  <2>2. Woken("send", r) = A /\ Woken("send", r)' = B /\ Cardinality(A) \in Nat
    BY WokenIsAt, Zenon
  <2> HIDE DEF A, B
  <2>3. Cardinality(B) = Cardinality(A) - (IF t \in A THEN 1 ELSE 0)
    BY <2>1, <2>2, SMTT(30)
  <2> QED  BY <2>2, <2>3, Zenon
<1>5. R2 = R + (IF r = q /\ used_waiters[q] # <<>> THEN 1 ELSE 0)
  <2> DEFINE A == At("woken", pc, op, "receive", r)
             B == At("woken", pc', op', "receive", r)
  <2>1. Cardinality(B) = Cardinality(A) - (IF t \in A THEN 1 ELSE 0)
                  + (IF "receive" = "receive" /\ r = q /\ used_waiters[q] # <<>> THEN 1 ELSE 0)
    BY <1>1, WokenCount, SMTT(30)
  <2>2. Woken("receive", r) = A /\ Woken("receive", r)' = B /\ Cardinality(A) \in Nat
    BY WokenIsAt, Zenon
  <2>3. t \notin A
    BY <1>1, <2>2, Zenon
  <2> HIDE DEF A, B
  <2>4. Cardinality(B) = Cardinality(A) + (IF r = q /\ used_waiters[q] # <<>> THEN 1 ELSE 0)
    BY <2>1, <2>2, <2>3, SMTT(30)
  <2> QED  BY <2>2, <2>4, Zenon
<1>6. U2 = U + (IF r = q /\ used_waiters[q] = <<>> THEN 1 ELSE 0)
  <2>1. used_slots \in [Slots -> Nat]
    BY DEF IInv, TypeOK
  <2>2. used_slots' = [used_slots EXCEPT ![q] = IF live[q] /\ used_waiters[q] = <<>> THEN @ + 1 ELSE @]
    BY DEF enqueue_message
  <2>3. U2 = IF r = q /\ used_waiters[q] = <<>> THEN U + 1 ELSE U
    BY <1>1, <2>1, <2>2, Zenon
  <2> QED  BY <1>2, <2>3, SMTT(30)
<1>7. message_count'[r] = C + (IF r = q THEN 1 ELSE 0)
  <2>1. message_count \in [Slots -> Nat]
    BY DEF IInv, TypeOK
  <2>2. message_count' = [message_count EXCEPT ![q] = @ + 1]
    BY DEF enqueue_message
  <2>3. message_count'[r] = IF r = q THEN C + 1 ELSE C
    BY <1>1, <2>1, <2>2, Zenon
  <2> QED  BY <1>2, <2>3, SMTT(30)
<1>8. Total(r)' = T + (IF r = q THEN 1 ELSE 0)
  <2>1. Total(q)' = Total(q) + 1 /\ \A x \in Slots \ {q} : Total(x)' = Total(x)
    BY EnqueueStep, Zenon DEF IInv
  <2>2. T \in Nat
    BY <1>2, <1>3, Zenon
  <2>3. CASE r = q
    BY <2>1, <2>3, Zenon
  <2>4. CASE r # q
    <3>1. Total(r)' = T
      BY <1>1, <2>1, <2>4, Zenon
    <3> HIDE DEF T
    <3> QED  BY <2>2, <2>4, <3>1, SMTT(30)
  <2> QED  BY <2>3, <2>4, Zenon
<1>9. leaked'[r] = L /\ max_messages'[r] = m
  BY DEF enqueue_message, queueVars
<1>10. F2 - (IF t \in Woken("send", r) THEN 1 ELSE 0) = F - (IF r = q THEN 1 ELSE 0)
  BY <1>1, Zenon
<1> HIDE DEF F, F2, S, S2, C, U, U2, R, R2, L, m, T
<1>11. F2 + S2 + (C + (IF r = q THEN 1 ELSE 0)) + L = m
  BY <1>2, <1>3, <1>4, <1>10, SMTT(30)
<1>12. U2 + R2 = C + (IF r = q THEN 1 ELSE 0)
  BY <1>2, <1>3, <1>5, <1>6, SMTT(30)
<1>13. C + (IF r = q THEN 1 ELSE 0) = T + (IF r = q THEN 1 ELSE 0)
  BY <1>3, Zenon
<1> QED  BY <1>7, <1>8, <1>9, <1>11, <1>12, <1>13, Zenon DEF F2, S2, U2, R2

\* dequeue_message keeps the account, if the message that it takes was announced to the
\* caller or by a used slot.
LEMMA DequeueAccounted ==
  ASSUME IInv, NEW t \in Tasks, NEW q \in Slots, NonEmpty(q) # {}, dequeue_message(t, q),
         Wakes(free_waiters, "send", q, t, pc, op, pc', op'),
         UNCHANGED <<queueVars, used_waiters, leaked>>, q \in Sound => live[q],
         used_slots' \in [Slots -> Nat], \A r \in Slots : t \notin Woken("send", r),
         \A r \in Slots : used_slots'[r] - (IF t \in Woken("receive", r) THEN 1 ELSE 0) =
                            used_slots[r] - (IF r = q THEN 1 ELSE 0)
  PROVE  SlotsAccounted'
<1> SUFFICES ASSUME NEW r \in Sound
             PROVE  /\ free_slots'[r] + Cardinality(Woken("send", r)') + message_count'[r]
                         + leaked'[r] = max_messages'[r]
                    /\ used_slots'[r] + Cardinality(Woken("receive", r)') = message_count'[r]
                    /\ message_count'[r] = Total(r)'
  BY Zenon DEF SlotsAccounted
<1>1. r \in Slots
  BY Zenon DEF Sound
<1> DEFINE F == free_slots[r]
           F2 == free_slots'[r]
           S == Cardinality(Woken("send", r))
           S2 == Cardinality(Woken("send", r)')
           C == message_count[r]
           U == used_slots[r]
           U2 == used_slots'[r]
           R == Cardinality(Woken("receive", r))
           R2 == Cardinality(Woken("receive", r)')
           L == leaked[r]
           m == max_messages[r]
           T == Total(r)
<1>2. /\ F \in Nat /\ U2 \in Nat /\ S \in Nat /\ C \in Nat /\ U \in Nat /\ R \in Nat
      /\ L \in Nat /\ m \in Nat
  BY <1>1, WokenIsAt, SMTT(30) DEF IInv, TypeOK
<1>3. F + S + C + L = m /\ U + R = C /\ C = T
  BY Zenon DEF IInv, SlotsAccounted
<1>4. R2 = R - (IF t \in Woken("receive", r) THEN 1 ELSE 0)
  <2> DEFINE A == At("woken", pc, op, "receive", r)
             B == At("woken", pc', op', "receive", r)
  <2>1. Cardinality(B) = Cardinality(A) - (IF t \in A THEN 1 ELSE 0)
                  + (IF "receive" = "send" /\ r = q /\ free_waiters[q] # <<>> THEN 1 ELSE 0)
    BY <1>1, WokenCount, SMTT(30)
  <2>2. Woken("receive", r) = A /\ Woken("receive", r)' = B /\ Cardinality(A) \in Nat
    BY WokenIsAt, Zenon
  <2> HIDE DEF A, B
  <2>3. Cardinality(B) = Cardinality(A) - (IF t \in A THEN 1 ELSE 0)
    BY <2>1, <2>2, SMTT(30)
  <2> QED  BY <2>2, <2>3, Zenon
<1>5. S2 = S + (IF r = q /\ free_waiters[q] # <<>> THEN 1 ELSE 0)
  <2> DEFINE A == At("woken", pc, op, "send", r)
             B == At("woken", pc', op', "send", r)
  <2>1. Cardinality(B) = Cardinality(A) - (IF t \in A THEN 1 ELSE 0)
                  + (IF "send" = "send" /\ r = q /\ free_waiters[q] # <<>> THEN 1 ELSE 0)
    BY <1>1, WokenCount, SMTT(30)
  <2>2. Woken("send", r) = A /\ Woken("send", r)' = B /\ Cardinality(A) \in Nat
    BY WokenIsAt, Zenon
  <2>3. t \notin A
    BY <1>1, <2>2, Zenon
  <2> HIDE DEF A, B
  <2>4. Cardinality(B) = Cardinality(A) + (IF r = q /\ free_waiters[q] # <<>> THEN 1 ELSE 0)
    BY <2>1, <2>2, <2>3, SMTT(30)
  <2> QED  BY <2>2, <2>4, Zenon
<1>6. F2 = F + (IF r = q /\ free_waiters[q] = <<>> THEN 1 ELSE 0)
  <2>1. free_slots \in [Slots -> Nat]
    BY DEF IInv, TypeOK
  <2>2. free_slots' = [free_slots EXCEPT ![q] = IF live[q] /\ free_waiters[q] = <<>> THEN @ + 1 ELSE @]
    BY Zenon DEF dequeue_message
  <2>3. F2 = IF r = q /\ free_waiters[q] = <<>> THEN F + 1 ELSE F
    BY <1>1, <2>1, <2>2, Zenon
  <2> QED  BY <1>2, <2>3, SMTT(30)
<1>7. message_count'[r] = C - (IF r = q THEN 1 ELSE 0)
  <2>1. message_count \in [Slots -> Nat]
    BY DEF IInv, TypeOK
  <2>2. message_count' = [message_count EXCEPT ![q] = @ - 1]
    BY DEF dequeue_message
  <2>3. message_count'[r] = IF r = q THEN C - 1 ELSE C
    BY <1>1, <2>1, <2>2, Zenon
  <2> QED  BY <1>2, <2>3, SMTT(30)
<1>8. Total(r)' = T - (IF r = q THEN 1 ELSE 0)
  <2>1. Total(q)' = Total(q) - 1 /\ \A x \in Slots \ {q} : Total(x)' = Total(x)
    BY DequeueStep, Zenon DEF IInv
  <2>2. T \in Nat
    BY <1>2, <1>3, Zenon
  <2>3. CASE r = q
    BY <2>1, <2>3, Zenon
  <2>4. CASE r # q
    <3>1. Total(r)' = T
      BY <1>1, <2>1, <2>4, Zenon
    <3> HIDE DEF T
    <3> QED  BY <2>2, <2>4, <3>1, SMTT(30)
  <2> QED  BY <2>3, <2>4, Zenon
<1>9. leaked'[r] = L /\ max_messages'[r] = m
  BY Zenon DEF queueVars
<1>10. U2 - (IF t \in Woken("receive", r) THEN 1 ELSE 0) = U - (IF r = q THEN 1 ELSE 0)
  BY <1>1, Zenon
<1> HIDE DEF F, F2, S, S2, C, U, U2, R, R2, L, m, T
<1>11. F2 + S2 + (C - (IF r = q THEN 1 ELSE 0)) + L = m
  BY <1>2, <1>3, <1>5, <1>6, SMTT(30)
<1>12. U2 + R2 = C - (IF r = q THEN 1 ELSE 0)
  BY <1>2, <1>3, <1>4, <1>10, SMTT(30)
<1>13. C - (IF r = q THEN 1 ELSE 0) = T - (IF r = q THEN 1 ELSE 0)
  BY <1>3, Zenon
<1> QED  BY <1>7, <1>8, <1>9, <1>11, <1>12, <1>13, Zenon DEF F2, S2, U2, R2

\* A slot that is lost to a failed send is accounted for.
LEMMA FailAccounted ==
  ASSUME IInv, NEW t \in Tasks, NEW q \in Slots, EnqueueFails(t, q),
         UNCHANGED <<queueVars, free_waiters>>,
         free_slots' \in [Slots -> Nat], \A r \in Slots : t \notin Woken("receive", r),
         \A r \in Slots : free_slots'[r] - (IF t \in Woken("send", r) THEN 1 ELSE 0) =
                            free_slots[r] - (IF r = q THEN 1 ELSE 0),
         \A k : \A r \in Slots :
              Cardinality(Woken(k, r)') =
                Cardinality(Woken(k, r)) - (IF t \in Woken(k, r) THEN 1 ELSE 0)
  PROVE  SlotsAccounted'
<1> SUFFICES ASSUME NEW r \in Sound
             PROVE  /\ free_slots'[r] + Cardinality(Woken("send", r)') + message_count'[r]
                         + leaked'[r] = max_messages'[r]
                    /\ used_slots'[r] + Cardinality(Woken("receive", r)') = message_count'[r]
                    /\ message_count'[r] = Total(r)'
  BY Zenon DEF SlotsAccounted
<1>1. r \in Slots
  BY DEF Sound
<1> DEFINE F == free_slots[r]
           F2 == free_slots'[r]
           S == Cardinality(Woken("send", r))
           S2 == Cardinality(Woken("send", r)')
           R == Cardinality(Woken("receive", r))
           C == message_count[r]
           L == leaked[r]
           m == max_messages[r]
<1>2. /\ F \in Nat /\ F2 \in Nat /\ S \in Nat /\ C \in Nat /\ L \in Nat /\ m \in Nat /\ R \in Nat
  BY <1>1, WokenIsAt, SMTT(30) DEF IInv, TypeOK
<1>3. F + S + C + L = m /\ used_slots[r] + R = C /\ C = Total(r)
  BY Zenon DEF IInv, SlotsAccounted
<1>4. S2 = S - (IF t \in Woken("send", r) THEN 1 ELSE 0)
  BY <1>1
<1>5. Cardinality(Woken("receive", r)') = R
  <2>1. Cardinality(Woken("receive", r)') = R - (IF t \in Woken("receive", r) THEN 1 ELSE 0)
    BY <1>1
  <2>2. t \notin Woken("receive", r)
    BY <1>1
  <2> HIDE DEF R
  <2> QED  BY <1>2, <2>1, <2>2, SMTT(30)
<1>6. leaked'[r] = L + (IF r = q THEN 1 ELSE 0)
  <2>1. leaked \in [Slots -> Nat]
    BY DEF IInv, TypeOK
  <2>2. leaked' = [leaked EXCEPT ![q] = @ + 1]
    BY DEF EnqueueFails
  <2>3. leaked'[r] = IF r = q THEN L + 1 ELSE L
    BY <1>1, <2>1, <2>2
  <2> QED  BY <1>2, <2>3, SMTT(30)
<1>7. /\ message_count' = message_count /\ used_slots' = used_slots /\ max_messages' = max_messages
      /\ messages' = messages
  BY Zenon DEF EnqueueFails, queueVars
<1>8. Total(r)' = Total(r)
  BY <1>7 DEF Total
<1>9. F2 - (IF t \in Woken("send", r) THEN 1 ELSE 0) = F - (IF r = q THEN 1 ELSE 0)
  BY <1>1
<1> HIDE DEF F, F2, S, S2, C, L, m
<1>10. F2 + S2 + C + (L + (IF r = q THEN 1 ELSE 0)) = m
  BY <1>2, <1>3, <1>4, <1>9, SMTT(30)
<1> QED  BY <1>3, <1>5, <1>6, <1>7, <1>8, <1>10, Zenon DEF F2, S2, C, m, R

\* A step that changes no count and wakes nobody keeps the account.
LEMMA SameAccounted ==
  ASSUME IInv, UNCHANGED <<max_messages, message_count, messages, free_slots, used_slots, leaked>>,
         \A k \in {"send", "receive"} : \A r \in Slots : Woken(k, r)' = Woken(k, r)
  PROVE  SlotsAccounted'
<1>1. \A r \in Slots : Total(r)' = Total(r)
  BY DEF Total
<1>2. Sound \subseteq Slots
  BY DEF Sound
<1>3. \A r \in Slots : /\ Cardinality(Woken("send", r)') = Cardinality(Woken("send", r))
                       /\ Cardinality(Woken("receive", r)') = Cardinality(Woken("receive", r))
  OBVIOUS
<1> QED  BY <1>1, <1>2, <1>3, Zenon DEF IInv, SlotsAccounted

-----------------------------------------------------------------------------
(* The ends of the calls keep the invariant. *)

\* The end of a send, with a slot that the caller took or was given.
LEMMA EnqueueInv ==
  ASSUME IInv, NEW t \in Tasks, NEW q \in Slots, NEW id \in 1 .. MaxId, NEW level \in Levels,
         enqueue_message(t, q, id, level),
         Wakes(used_waiters, "receive", q, t, pc, op, pc', op'),
         UNCHANGED <<queueVars, free_waiters>>, q \in Sound => live[q],
         next_message_id' \in 1 .. MaxId + 1,
         free_slots' \in [Slots -> Nat], \A r \in Slots : t \notin Woken("receive", r),
         \A r \in Slots : free_slots'[r] - (IF t \in Woken("send", r) THEN 1 ELSE 0) =
                            free_slots[r] - (IF r = q THEN 1 ELSE 0),
         \A r \in Slots : free_waiters[r] # <<>> => free_slots'[r] = 0
  PROVE  IInv'
<1>0. TypeOK /\ TaskInv /\ WaitersMeanNoSlot /\ DeadHasNoRoom /\ CountsMessages
  BY Zenon DEF IInv
<1>1. /\ messages' \in [Slots -> [Levels -> Seq(1 .. MaxId)]]
      /\ message_count' \in [Slots -> Nat] /\ used_slots' \in [Slots -> Nat]
      /\ used_waiters' \in [Slots -> Seq(Tasks)]
      /\ pc' \in [Tasks -> States] /\ op' \in [Tasks -> Calls]
      /\ TaskInv'
      /\ \A r \in Slots : used_waiters'[r] # <<>> => used_slots'[r] = 0
      /\ Total(q)' = Total(q) + 1 /\ \A r \in Slots \ {q} : Total(r)' = Total(r)
  BY <1>0, EnqueueStep, Zenon
<1>2. SlotsAccounted'
  BY EnqueueAccounted, Zenon
<1>3. /\ live' = live /\ owner' = owner /\ max_messages' = max_messages
      /\ free_waiters' = free_waiters /\ leaked' = leaked
      /\ message_count' = [message_count EXCEPT ![q] = @ + 1]
  BY Zenon DEF queueVars, enqueue_message
<1>4. TypeOK'
  BY <1>0, <1>1, <1>3, Zenon DEF TypeOK, States, Calls
<1>5. WaitersMeanNoSlot'
  BY <1>1, <1>3, Zenon DEF WaitersMeanNoSlot
<1>6. DeadHasNoRoom'
  BY <1>0, <1>3, Zenon DEF DeadHasNoRoom
<1>7. CountsMessages'
  <2>1. message_count \in [Slots -> Nat] /\ \A r \in Slots : message_count[r] = Total(r)
    BY <1>0, Zenon DEF TypeOK, CountsMessages
  <2>2. message_count'[q] = Total(q)'
    BY <1>1, <1>3, <2>1, Zenon
  <2>3. \A r \in Slots \ {q} : message_count'[r] = Total(r)'
    BY <1>1, <1>3, <2>1, Zenon
  <2> QED  BY <2>2, <2>3, Zenon DEF CountsMessages
<1> QED  BY <1>1, <1>2, <1>4, <1>5, <1>6, <1>7, Zenon DEF IInv

\* The end of a send that has its slot and fails.
LEMMA FailInv ==
  ASSUME IInv, NEW t \in Tasks, NEW q \in Slots, EnqueueFails(t, q),
         \/ pc[t] = "idle" /\ op' = op
         \/ pc[t] = "woken" /\ op' = [op EXCEPT ![t] = NoCall],
         UNCHANGED <<queueVars, free_waiters>>,
         next_message_id' \in 1 .. MaxId + 1,
         free_slots' \in [Slots -> Nat], \A r \in Slots : t \notin Woken("receive", r),
         \A r \in Slots : free_slots'[r] - (IF t \in Woken("send", r) THEN 1 ELSE 0) =
                            free_slots[r] - (IF r = q THEN 1 ELSE 0),
         \A r \in Slots : free_waiters[r] # <<>> => free_slots'[r] = 0
  PROVE  IInv'
<1>0. TypeOK /\ TaskInv /\ WaitersMeanNoSlot /\ DeadHasNoRoom /\ CountsMessages
  BY Zenon DEF IInv
<1>1. /\ live' = live /\ owner' = owner /\ max_messages' = max_messages
      /\ free_waiters' = free_waiters /\ messages' = messages
      /\ message_count' = message_count /\ used_slots' = used_slots
      /\ used_waiters' = used_waiters /\ leaked' = [leaked EXCEPT ![q] = @ + 1]
      /\ pc' = [pc EXCEPT ![t] = "idle"]
  BY Zenon DEF queueVars, EnqueueFails
<1>2. /\ pc' \in [Tasks -> States] /\ op' \in [Tasks -> Calls]
      /\ TaskInv'
      /\ \A k : \A r \in Slots :
           Cardinality(Woken(k, r)') =
             Cardinality(Woken(k, r)) - (IF t \in Woken(k, r) THEN 1 ELSE 0)
  BY <1>0, <1>1, EndsCallStep, Zenon
<1>3. SlotsAccounted'
  BY <1>2, FailAccounted, Zenon
<1>4. TypeOK'
  <2>1. leaked' \in [Slots -> Nat]
    BY <1>0, <1>1, SMTT(30) DEF TypeOK
  <2> QED  BY <1>0, <1>1, <1>2, <2>1, Zenon DEF TypeOK, States, Calls
<1>5. WaitersMeanNoSlot'
  BY <1>0, <1>1, Zenon DEF WaitersMeanNoSlot
<1>6. DeadHasNoRoom' /\ CountsMessages'
  BY <1>0, <1>1, Zenon DEF DeadHasNoRoom, CountsMessages, Total
<1> QED  BY <1>2, <1>3, <1>4, <1>5, <1>6, Zenon DEF IInv

\* The end of a receive, with a message that was announced to the caller.
LEMMA DequeueInv ==
  ASSUME IInv, NEW t \in Tasks, NEW q \in Slots, NonEmpty(q) # {}, dequeue_message(t, q),
         Wakes(free_waiters, "send", q, t, pc, op, pc', op'),
         UNCHANGED <<queueVars, used_waiters, next_message_id, leaked>>, q \in Sound => live[q],
         used_slots' \in [Slots -> Nat], \A r \in Slots : t \notin Woken("send", r),
         \A r \in Slots : used_slots'[r] - (IF t \in Woken("receive", r) THEN 1 ELSE 0) =
                            used_slots[r] - (IF r = q THEN 1 ELSE 0),
         \A r \in Slots : used_waiters[r] # <<>> => used_slots'[r] = 0
  PROVE  IInv'
<1>0. TypeOK /\ TaskInv /\ WaitersMeanNoSlot /\ DeadHasNoRoom /\ CountsMessages
  BY Zenon DEF IInv
<1>1. /\ messages' \in [Slots -> [Levels -> Seq(1 .. MaxId)]]
      /\ free_slots' \in [Slots -> Nat]
      /\ free_waiters' \in [Slots -> Seq(Tasks)]
      /\ pc' \in [Tasks -> States] /\ op' \in [Tasks -> Calls]
      /\ TaskInv'
      /\ \A r \in Slots : free_waiters'[r] # <<>> => free_slots'[r] = 0
      /\ Total(q)' = Total(q) - 1 /\ \A r \in Slots \ {q} : Total(r)' = Total(r)
  BY <1>0, DequeueStep, Zenon
<1>2. SlotsAccounted'
  BY DequeueAccounted, Zenon
<1>3. /\ live' = live /\ owner' = owner /\ max_messages' = max_messages
      /\ used_waiters' = used_waiters /\ leaked' = leaked /\ next_message_id' = next_message_id
      /\ message_count' = [message_count EXCEPT ![q] = @ - 1]
  BY Zenon DEF queueVars, dequeue_message
<1>4. CountsMessages' /\ message_count' \in [Slots -> Nat]
  <2>1. message_count \in [Slots -> Nat] /\ \A r \in Slots : message_count[r] = Total(r)
    BY <1>0, Zenon DEF TypeOK, CountsMessages
  <2>2. message_count'[q] = Total(q)' /\ Total(q)' \in Nat
    <3>1. Total(q)' \in Nat
      <4>1. messages'[q] \in [Levels -> Seq(1 .. MaxId)] /\ 0 \in Levels
        BY <1>1, SMTT(30) DEF Levels, MESSAGE_PRIORITY_URGENT
      <4> QED  BY <4>1, TotalLess, TotalIs, Zenon
    <3> QED  BY <1>1, <1>3, <2>1, <3>1, Zenon
  <2>3. \A r \in Slots \ {q} : message_count'[r] = Total(r)'
    BY <1>1, <1>3, <2>1, Zenon
  <2>4. message_count' \in [Slots -> Nat]
    BY <1>3, <2>1, <2>2, Zenon
  <2> QED  BY <2>2, <2>3, <2>4, Zenon DEF CountsMessages
<1>5. TypeOK'
  BY <1>0, <1>1, <1>3, <1>4, Zenon DEF TypeOK, States, Calls
<1>6. WaitersMeanNoSlot'
  BY <1>1, <1>3, Zenon DEF WaitersMeanNoSlot
<1>7. DeadHasNoRoom'
  BY <1>0, <1>3, Zenon DEF DeadHasNoRoom
<1> QED  BY <1>1, <1>2, <1>4, <1>5, <1>6, <1>7, Zenon DEF IInv

\* A receive that comes through its semaphore finds a message, in a queue that is not
\* destroyed under it.
LEMMA ReceiverFindsMessage ==
  ASSUME IInv, NEW t \in Tasks, NEW q \in Sound, used_slots[q] > 0 \/ t \in Woken("receive", q)
  PROVE  NonEmpty(q) # {}
<1> DEFINE R == Cardinality(Woken("receive", q))
           U == used_slots[q]
<1>1. q \in Slots
  BY DEF Sound
<1>2. U \in Nat /\ R \in Nat
  BY <1>1, WokenIsAt, Zenon DEF IInv, TypeOK
<1>3. U + R = Total(q)
  BY Zenon DEF IInv, SlotsAccounted
<1>4. t \in Woken("receive", q) => R # 0
  <2>1. IsFiniteSet(Woken("receive", q))
    BY AtIsFinite, WokenIsAt, SMTT(30)
  <2> QED  BY <2>1, FS_EmptySet
<1> HIDE DEF U, R
<1>5. Total(q) # 0
  BY <1>2, <1>3, <1>4 DEF U
<1> QED  BY <1>1, <1>5, HighestFacts, Zenon DEF IInv

\* The end of a receive that finds nothing, in a queue that was destroyed under it.
LEMMA NothingInv ==
  ASSUME IInv, NEW t \in Tasks, NEW q \in Slots \ Sound, pc' = [pc EXCEPT ![t] = "idle"],
         \/ pc[t] = "idle" /\ op' = op
         \/ pc[t] = "woken" /\ op[t].q = q /\ op' = [op EXCEPT ![t] = NoCall],
         UNCHANGED <<queueVars, message_count, messages, free_slots, free_waiters,
                     used_waiters, next_message_id, leaked>>,
         used_slots' \in [Slots -> Nat], \A r \in Slots \ {q} : used_slots'[r] = used_slots[r],
         \A r \in Slots : used_waiters[r] # <<>> => used_slots'[r] = 0
  PROVE  IInv'
<1>0. TypeOK /\ TaskInv /\ WaitersMeanNoSlot /\ DeadHasNoRoom /\ CountsMessages
  BY Zenon DEF IInv
<1>1. live' = live /\ owner' = owner /\ max_messages' = max_messages
  BY DEF queueVars
<1>2. /\ pc' \in [Tasks -> States] /\ op' \in [Tasks -> Calls]
      /\ TaskInv'
      /\ \A k : \A r \in Slots :
           Cardinality(Woken(k, r)') =
             Cardinality(Woken(k, r)) - (IF t \in Woken(k, r) THEN 1 ELSE 0)
  BY <1>0, <1>1, EndsCallStep, Zenon
<1>3. TypeOK'
  BY <1>0, <1>1, <1>2 DEF TypeOK, States, Calls
<1>4. WaitersMeanNoSlot'
  BY <1>0, Zenon DEF WaitersMeanNoSlot
<1>5. DeadHasNoRoom' /\ CountsMessages'
  BY <1>0, <1>1, Zenon DEF DeadHasNoRoom, CountsMessages, Total
<1>6. SlotsAccounted'
  <2> SUFFICES ASSUME NEW r \in Sound
               PROVE  /\ free_slots'[r] + Cardinality(Woken("send", r)') + message_count'[r]
                           + leaked'[r] = max_messages'[r]
                      /\ used_slots'[r] + Cardinality(Woken("receive", r)') = message_count'[r]
                      /\ message_count'[r] = Total(r)'
    BY Zenon DEF SlotsAccounted
  <2>1. r \in Slots /\ r # q
    BY Zenon DEF Sound
  <2>2. t \notin Woken("send", r) /\ t \notin Woken("receive", r)
    BY <2>1, Zenon DEF Woken
  <2>3. \A k : Cardinality(Woken(k, r)) \in Nat
    BY WokenIsAt, Zenon
  <2>4. /\ Cardinality(Woken("send", r)') = Cardinality(Woken("send", r))
        /\ Cardinality(Woken("receive", r)') = Cardinality(Woken("receive", r))
    <3>1. /\ Cardinality(Woken("send", r)') = Cardinality(Woken("send", r)) - 0
          /\ Cardinality(Woken("receive", r)') = Cardinality(Woken("receive", r)) - 0
      BY <1>2, <2>1, <2>2, Zenon
    <3> QED  BY <2>3, <3>1, SMTT(30)
  <2>5. used_slots'[r] = used_slots[r] /\ Total(r)' = Total(r)
    BY <2>1, Zenon DEF Total
  <2> QED  BY <1>1, <2>4, <2>5, Zenon DEF IInv, SlotsAccounted
<1> QED  BY <1>2, <1>3, <1>4, <1>5, <1>6, Zenon DEF IInv

-----------------------------------------------------------------------------
(* The invariant is inductive. *)

\* create_message_queue keeps the invariant: the slot it takes starts empty.
LEMMA CreateInv ==
  ASSUME IInv, NEW t \in Tasks, NEW n \in Sizes, create_message_queue(t, n)
  PROVE  IInv'
<1>0. TypeOK /\ TaskInv /\ WaitersMeanNoSlot /\ DeadHasNoRoom /\ CountsMessages
  BY DEF IInv
<1>1. PICK q \in Slots : q = find_free_message_queue /\ ~ live[q]
  BY FindsFree DEF create_message_queue
<1>2. /\ n \in 1 .. MaxMessages
      /\ live' = [live EXCEPT ![q] = TRUE] /\ owner' = [owner EXCEPT ![q] = t]
      /\ Reset({q}, n) /\ next_message_id' = next_message_id /\ pc' = pc /\ op' = op
  BY <1>1 DEF create_message_queue
<1>3. /\ max_messages'[q] = n /\ message_count'[q] = 0 /\ messages'[q] = NoMessages
      /\ free_slots'[q] = n /\ free_waiters'[q] = <<>> /\ used_slots'[q] = 0
      /\ used_waiters'[q] = <<>> /\ leaked'[q] = 0
  BY <1>1, <1>2, Zenon DEF Reset
<1>4. \A r \in Slots \ {q} :
        /\ max_messages'[r] = max_messages[r] /\ message_count'[r] = message_count[r]
        /\ messages'[r] = messages[r] /\ free_slots'[r] = free_slots[r]
        /\ free_waiters'[r] = free_waiters[r] /\ used_slots'[r] = used_slots[r]
        /\ used_waiters'[r] = used_waiters[r] /\ leaked'[r] = leaked[r]
  BY <1>2, Zenon DEF Reset
<1>5. live'[q] /\ \A r \in Slots \ {q} : live'[r] = live[r]
  BY <1>0, <1>1, <1>2, Zenon DEF TypeOK
<1>6. TypeOK'
  <2>1. NoMessages \in [Levels -> Seq(1 .. MaxId)] /\ n \in Nat /\ n \in 0 .. MaxMessages
    BY <1>2, SMTT(30) DEF NoMessages, MaxMessages
  <2>2. live' \in [Slots -> BOOLEAN] /\ owner' \in [Slots -> Tasks \cup {NoTask}]
    BY <1>0, <1>1, <1>2 DEF TypeOK
  <2>3. max_messages' \in [Slots -> 0 .. MaxMessages] /\ message_count' \in [Slots -> Nat]
    BY <1>0, <1>2, <2>1, Zenon DEF TypeOK, Reset
  <2>5. messages' \in [Slots -> [Levels -> Seq(1 .. MaxId)]]
    BY <1>0, <1>2, <2>1, Zenon DEF TypeOK, Reset
  <2>4. /\ free_slots' \in [Slots -> Nat] /\ used_slots' \in [Slots -> Nat]
        /\ free_waiters' \in [Slots -> Seq(Tasks)] /\ used_waiters' \in [Slots -> Seq(Tasks)]
        /\ leaked' \in [Slots -> Nat]
    BY <1>0, <1>2, <2>1, SMTT(30) DEF TypeOK, Reset
  <2> QED  BY <1>0, <1>2, <2>2, <2>3, <2>4, <2>5, Zenon DEF TypeOK
<1>7. Total(q)' = 0 /\ \A r \in Slots \ {q} : Total(r)' = Total(r)
  <2>1. Total(q)' = 0
    <3>1. /\ Len(messages'[q][0]) = 0 /\ Len(messages'[q][1]) = 0
          /\ Len(messages'[q][2]) = 0 /\ Len(messages'[q][3]) = 0
      BY <1>3, SMTT(30) DEF NoMessages, Levels, MESSAGE_PRIORITY_URGENT
    <3> QED  BY <3>1 DEF Total
  <2> QED  BY <1>4, <2>1, Zenon DEF Total
<1>8. TaskInv'
  <2>1. Queued(free_waiters, pc, op, "send") /\ Queued(used_waiters, pc, op, "receive")
    BY <1>0 DEF TaskInv
  <2>2. Queued(free_waiters', pc', op', "send") /\ Queued(used_waiters', pc', op', "receive")
    <3>1. ASSUME NEW r \in Slots
          PROVE  /\ free_waiters'[r] = <<>> \/ free_waiters'[r] = free_waiters[r]
                 /\ used_waiters'[r] = <<>> \/ used_waiters'[r] = used_waiters[r]
      BY <1>3, <1>4
    <3>2. Len(<<>>) = 0 /\ 1 .. 0 = {}
      OBVIOUS
    <3>3. pc' = pc /\ op' = op
      BY <1>2
    <3>4. Queued(free_waiters', pc, op, "send")
      <4> SUFFICES ASSUME NEW r \in Slots
                   PROVE  /\ \A i \in 1 .. Len(free_waiters'[r]) :
                               free_waiters'[r][i] \in At("blocked", pc, op, "send", r)
                          /\ \A i, j \in 1 .. Len(free_waiters'[r]) :
                               free_waiters'[r][i] = free_waiters'[r][j] => i = j
        BY Zenon DEF Queued
      <4>1. CASE free_waiters'[r] = free_waiters[r]
        BY <2>1, <4>1, Zenon DEF Queued
      <4>2. CASE free_waiters'[r] = <<>>
        BY <3>2, <4>2
      <4> QED  BY <3>1, <4>1, <4>2, Zenon
    <3>5. Queued(used_waiters', pc, op, "receive")
      <4> SUFFICES ASSUME NEW r \in Slots
                   PROVE  /\ \A i \in 1 .. Len(used_waiters'[r]) :
                               used_waiters'[r][i] \in At("blocked", pc, op, "receive", r)
                          /\ \A i, j \in 1 .. Len(used_waiters'[r]) :
                               used_waiters'[r][i] = used_waiters'[r][j] => i = j
        BY Zenon DEF Queued
      <4>1. CASE used_waiters'[r] = used_waiters[r]
        BY <2>1, <4>1, Zenon DEF Queued
      <4>2. CASE used_waiters'[r] = <<>>
        BY <3>2, <4>2
      <4> QED  BY <3>1, <4>1, <4>2, Zenon
    <3> QED  BY <3>3, <3>4, <3>5
  <2>3. InCall'
    BY <1>0, <1>2, <1>5, Zenon DEF TaskInv, InCall
  <2> QED  BY <1>0, <1>2, <2>2, <2>3, Zenon DEF TaskInv, NobodyWaitsAsBuilt
<1>9. WaitersMeanNoSlot' /\ DeadHasNoRoom' /\ CountsMessages'
  <2>1. WaitersMeanNoSlot'
    BY <1>0, <1>3, <1>4, Zenon DEF WaitersMeanNoSlot
  <2>2. DeadHasNoRoom'
    BY <1>0, <1>4, <1>5, Zenon DEF DeadHasNoRoom
  <2>3. CountsMessages'
    BY <1>0, <1>3, <1>4, <1>7, Zenon DEF CountsMessages
  <2> QED  BY <2>1, <2>2, <2>3
<1>10. SlotsAccounted'
  <2> SUFFICES ASSUME NEW r \in Sound
               PROVE  /\ free_slots'[r] + Cardinality(Woken("send", r)') + message_count'[r]
                           + leaked'[r] = max_messages'[r]
                      /\ used_slots'[r] + Cardinality(Woken("receive", r)') = message_count'[r]
                      /\ message_count'[r] = Total(r)'
    BY Zenon DEF SlotsAccounted
  <2>1. r \in Slots
    BY DEF Sound
  <2>2. \A k : Woken(k, r)' = Woken(k, r)
    BY <1>2, Zenon DEF Woken
  <2>3. CASE r = q
    <3>1. Woken("send", r) = {} /\ Woken("receive", r) = {}
      BY <1>0, <1>1, <2>3, Zenon DEF TaskInv, InCall, Woken
    <3>2. Cardinality(Woken("send", r)') = 0 /\ Cardinality(Woken("receive", r)') = 0
      BY <2>2, <3>1, FS_EmptySet
    <3>3. n \in Nat
      BY <1>2
    <3>4. n + 0 + 0 + 0 = n /\ 0 + 0 = 0
      BY <3>3
    <3> QED  BY <1>3, <1>7, <2>3, <3>2, <3>4, Zenon
  <2>4. CASE r # q
    BY <1>4, <1>7, <2>1, <2>2, <2>4, Zenon DEF IInv, SlotsAccounted
  <2> QED  BY <2>3, <2>4, Zenon
<1> QED  BY <1>6, <1>8, <1>9, <1>10 DEF IInv

\* Both destroy functions: as built nobody is in a call on the slots, and otherwise they
\* are not among the sound ones.
LEMMA DestroyInv ==
  ASSUME IInv, NEW Q \in SUBSET Destroyable, Destroy(Q)
  PROVE  IInv'
<1>0. TypeOK /\ TaskInv /\ WaitersMeanNoSlot /\ DeadHasNoRoom /\ CountsMessages
  BY DEF IInv
<1>1. Q \in SUBSET Slots
  BY MessageAssumption
<1>2. /\ live' = [q \in Slots |-> live[q] /\ q \notin Q]
      /\ owner' = [q \in Slots |-> IF q \in Q THEN NoTask ELSE owner[q]]
      /\ Reset(Q, 0) /\ next_message_id' = next_message_id /\ op' = op
  BY Zenon DEF Destroy
<1>3. \A r \in Q :
      /\ max_messages'[r] = 0 /\ message_count'[r] = 0 /\ messages'[r] = NoMessages
      /\ free_slots'[r] = 0 /\ free_waiters'[r] = <<>> /\ used_slots'[r] = 0
      /\ used_waiters'[r] = <<>> /\ leaked'[r] = 0
  BY <1>1, <1>2, Zenon DEF Reset
<1>4. \A r \in Slots \ Q :
        /\ max_messages'[r] = max_messages[r] /\ message_count'[r] = message_count[r]
        /\ messages'[r] = messages[r] /\ free_slots'[r] = free_slots[r]
        /\ free_waiters'[r] = free_waiters[r] /\ used_slots'[r] = used_slots[r]
        /\ used_waiters'[r] = used_waiters[r] /\ leaked'[r] = leaked[r]
  BY <1>2, Zenon DEF Reset
<1>5. /\ pc' \in [Tasks -> States]
      /\ \A u \in Tasks : pc'[u] = pc[u] \/ (pc[u] = "blocked" /\ op[u].q \in Q)
      /\ Queued(free_waiters', pc', op', "send")
      /\ Queued(used_waiters', pc', op', "receive")
  <2>1. /\ Queued(free_waiters, pc, op, "send") /\ Queued(used_waiters, pc, op, "receive")
        /\ pc' = Unblock(pc, UNION {WokenAll(free_waiters[q]) \cup WokenAll(used_waiters[q]) : q \in Q})
    BY <1>0, Zenon DEF TaskInv, Destroy
  <2>2. /\ pc \in [Tasks -> States] /\ op \in [Tasks -> Calls]
        /\ free_waiters \in [Slots -> Seq(Tasks)] /\ used_waiters \in [Slots -> Seq(Tasks)]
    BY <1>0, TaskTypes
  <2>3. /\ free_waiters' = [q \in Slots |-> IF q \in Q THEN <<>> ELSE free_waiters[q]]
        /\ used_waiters' = [q \in Slots |-> IF q \in Q THEN <<>> ELSE used_waiters[q]]
    BY <1>2, Zenon DEF Reset
  <2>4. Destroys(free_waiters, used_waiters, pc, op, Q, free_waiters', used_waiters', pc')
    BY <1>1, <2>1, <2>2, <2>3, Zenon DEF Destroys
  <2> QED  BY <1>2, <2>4, QueuedDestroy, SMTT(30)
<1>6. TypeOK'
  <2>1. NoMessages \in [Levels -> Seq(1 .. MaxId)] /\ 0 \in 0 .. MaxMessages
    BY DEF NoMessages, MaxMessages
  <2>2. live' \in [Slots -> BOOLEAN]
    BY <1>2, Zenon
  <2>3. owner' \in [Slots -> Tasks \cup {NoTask}]
    BY <1>0, <1>2, Zenon DEF TypeOK
  <2>4. max_messages' \in [Slots -> 0 .. MaxMessages] /\ message_count' \in [Slots -> Nat]
    BY <1>0, <1>2, <2>1, Zenon DEF TypeOK, Reset
  <2>6. messages' \in [Slots -> [Levels -> Seq(1 .. MaxId)]]
    BY <1>0, <1>2, <2>1, Zenon DEF TypeOK, Reset
  <2>5. /\ free_slots' \in [Slots -> Nat] /\ used_slots' \in [Slots -> Nat]
        /\ free_waiters' \in [Slots -> Seq(Tasks)] /\ used_waiters' \in [Slots -> Seq(Tasks)]
        /\ leaked' \in [Slots -> Nat]
    BY <1>0, <1>2, SMTT(30) DEF TypeOK, Reset
  <2> QED  BY <1>0, <1>2, <1>5, <2>2, <2>3, <2>4, <2>5, <2>6, Zenon DEF TypeOK, States
<1>7. /\ \A r \in Q : Total(r)' = 0
      /\ \A r \in Slots \ Q : Total(r)' = Total(r)
  <2>1. ASSUME NEW r \in Q PROVE Total(r)' = 0
    <3>1. /\ Len(messages'[r][0]) = 0 /\ Len(messages'[r][1]) = 0
          /\ Len(messages'[r][2]) = 0 /\ Len(messages'[r][3]) = 0
      BY <1>3 DEF NoMessages, Levels, MESSAGE_PRIORITY_URGENT
    <3> QED  BY <3>1 DEF Total
  <2> QED  BY <1>4, <2>1, Zenon DEF Total
<1>8. Q \cap Sound = {} \/ \A u \in Tasks : pc[u] = "idle"
  BY <1>0 DEF Sound, TaskInv, NobodyWaitsAsBuilt
<1>9. \A u \in Tasks : pc[u] = "idle" => pc'[u] = "idle"
  BY <1>5, Zenon
<1>10. TaskInv'
  <2>1. InCall'
    <3>1. \A u \in Tasks : op[u].q \in Slots => (live'[op[u].q] <=> live[op[u].q] /\ op[u].q \notin Q)
      BY <1>2, Zenon
    <3> QED  BY <1>0, <1>2, <1>8, <1>9, <3>1, Zenon DEF TaskInv, InCall
  <2> QED  BY <1>0, <1>5, <1>9, <2>1, Zenon DEF TaskInv, NobodyWaitsAsBuilt
<1>11. WaitersMeanNoSlot' /\ CountsMessages'
  BY <1>0, <1>3, <1>4, <1>7, SMTT(30) DEF WaitersMeanNoSlot, CountsMessages
<1>12. DeadHasNoRoom'
  <2>1. \A r \in Slots \ Q : live'[r] <=> live[r]
    BY <1>2, Zenon
  <2> QED  BY <1>0, <1>3, <1>4, <2>1, Zenon DEF DeadHasNoRoom
<1>13. SlotsAccounted'
  <2> SUFFICES ASSUME NEW r \in Sound
               PROVE  /\ free_slots'[r] + Cardinality(Woken("send", r)') + message_count'[r]
                           + leaked'[r] = max_messages'[r]
                      /\ used_slots'[r] + Cardinality(Woken("receive", r)') = message_count'[r]
                      /\ message_count'[r] = Total(r)'
    BY Zenon DEF SlotsAccounted
  <2>1. r \in Slots
    BY DEF Sound
  <2>2. CASE r \in Q
    <3>1. Woken("send", r)' = {} /\ Woken("receive", r)' = {}
      BY <1>8, <1>9, <2>2 DEF Woken
    <3>2. Cardinality(Woken("send", r)') = 0 /\ Cardinality(Woken("receive", r)') = 0
      BY <3>1, FS_EmptySet
    <3> QED  BY <1>3, <1>7, <2>2, <3>2, SMTT(30)
  <2>3. CASE r \notin Q
    <3>1. \A k : Woken(k, r)' = Woken(k, r)
      BY <1>2, <1>5, <2>3, Zenon DEF Woken
    <3> QED  BY <1>4, <1>7, <2>1, <2>3, <3>1, Zenon DEF IInv, SlotsAccounted
  <2> QED  BY <2>2, <2>3, Zenon
<1> QED  BY <1>6, <1>10, <1>11, <1>12, <1>13 DEF IInv

\* A task that blocks in a call c on q: what this does to the tasks.
LEMMA BlocksStep ==
  ASSUME TypeOK, TaskInv, NEW t \in Tasks, NEW q \in Slots, pc[t] = "idle", live[q],
         MESSAGE_FLAG_BLOCKING # 0, NEW c \in Calls, c.kind \in {"send", "receive"}, c.q = q,
         c.kind = "send" => c.id \in 1 .. MaxId,
         pc' = [pc EXCEPT ![t] = "blocked"], op' = [op EXCEPT ![t] = c], live' = live
  PROVE  /\ pc' \in [Tasks -> States] /\ op' \in [Tasks -> Calls]
         /\ InCall' /\ NobodyWaitsAsBuilt'
         /\ \A u \in Tasks : pc[u] = "blocked" => pc'[u] = "blocked" /\ op'[u] = op[u]
         /\ \A k : \A r \in Slots : Woken(k, r)' = Woken(k, r)
<1>1. pc \in [Tasks -> States] /\ op \in [Tasks -> Calls]
  BY TaskTypes, Zenon
<1>2. /\ pc'[t] = "blocked" /\ op'[t] = c
      /\ \A u \in Tasks \ {t} : pc'[u] = pc[u] /\ op'[u] = op[u]
  BY <1>1, Zenon
<1>3. pc' \in [Tasks -> States] /\ op' \in [Tasks -> Calls]
  BY <1>1, Zenon DEF States
<1>4. InCall'
  <2> SUFFICES ASSUME NEW u \in Tasks, pc'[u] # "idle"
               PROVE  /\ op'[u].q \in Slots
                      /\ op'[u].kind \in {"send", "receive"}
                      /\ op'[u].q \in Sound => live'[op'[u].q]
                      /\ op'[u].kind = "send" => op'[u].id \in 1 .. MaxId
    BY Zenon DEF InCall
  <2>1. CASE u = t
    BY <1>2, <2>1, Zenon
  <2>2. CASE u # t
    BY <1>2, <2>2, Zenon DEF TaskInv, InCall
  <2> QED  BY <2>1, <2>2, Zenon
<1>5. \A k : \A r \in Slots : Woken(k, r)' = Woken(k, r)
  BY <1>2, Zenon DEF Woken
<1> QED  BY <1>2, <1>3, <1>4, <1>5, Zenon DEF NobodyWaitsAsBuilt

\* A sender that starts to wait for a free slot keeps the invariant.
LEMMA SendWaitsInv ==
  ASSUME IInv, NEW t \in Tasks, NEW q \in Slots, NEW p \in Priorities, SendWaits(t, q, p)
  PROVE  IInv'
<1>0. TypeOK /\ TaskInv /\ WaitersMeanNoSlot /\ DeadHasNoRoom /\ CountsMessages
  BY DEF IInv
<1>1. /\ pc[t] = "idle" /\ live[q] /\ next_message_id <= MaxId
      /\ next_message_id' = next_message_id + 1
      /\ free_slots[q] = 0 /\ MESSAGE_FLAG_BLOCKING # 0
      /\ pc' = [pc EXCEPT ![t] = "blocked"]
      /\ live' = live /\ owner' = owner /\ max_messages' = max_messages
      /\ message_count' = message_count /\ messages' = messages /\ free_slots' = free_slots
      /\ used_slots' = used_slots /\ used_waiters' = used_waiters /\ leaked' = leaked
  BY Zenon DEF SendWaits, queueVars
<1>2. PICK w \in AddWaiterOutcomes(free_waiters[q], t) :
        free_waiters' = [free_waiters EXCEPT ![q] = w]
  BY Zenon DEF SendWaits
<1>3. PICK c \in Calls : /\ c.kind = "send" /\ c.q = q /\ c.id \in 1 .. MaxId
                         /\ op' = [op EXCEPT ![t] = c]
  <2> DEFINE c == [kind |-> "send", q |-> q, id |-> next_message_id, level |-> Level(p)]
  <2>1. next_message_id \in 1 .. MaxId
    BY <1>0, <1>1, MessageAssumption, SMTT(30) DEF TypeOK
  <2>2. c \in Calls /\ op' = [op EXCEPT ![t] = c]
    BY <2>1, LevelType, SMTT(30) DEF Calls, SendWaits
  <2> QED  BY <2>1, <2>2, Zenon
<1>4. /\ pc' \in [Tasks -> States] /\ op' \in [Tasks -> Calls]
      /\ InCall' /\ NobodyWaitsAsBuilt'
      /\ \A u \in Tasks : pc[u] = "blocked" => pc'[u] = "blocked" /\ op'[u] = op[u]
      /\ \A k : \A r \in Slots : Woken(k, r)' = Woken(k, r)
  BY <1>0, <1>1, <1>3, BlocksStep, Zenon
<1>5. /\ pc \in [Tasks -> States] /\ op \in [Tasks -> Calls]
      /\ free_waiters \in [Slots -> Seq(Tasks)] /\ used_waiters \in [Slots -> Seq(Tasks)]
      /\ Queued(free_waiters, pc, op, "send") /\ Queued(used_waiters, pc, op, "receive")
  BY <1>0, TaskTypes, Zenon DEF TaskInv
<1>6. Queued(free_waiters', pc', op', "send")
  BY <1>1, <1>2, <1>3, <1>5, QueuedJoin, Zenon
<1>7. Queued(used_waiters', pc', op', "receive")
  BY <1>1, <1>4, <1>5, QueuedFrame, Zenon
<1>8. free_waiters' \in [Slots -> Seq(Tasks)]
  <2>1. free_waiters[q] \in Seq(Tasks)
    BY <1>5, Zenon
  <2>2. w \in Seq(Tasks)
    BY <2>1, AddWaiterFacts, Zenon
  <2> QED  BY <1>2, <1>5, <2>2, Zenon
<1>9. TypeOK'
  <2>1. next_message_id' \in 1 .. MaxId + 1
    BY <1>0, <1>1, MessageAssumption, SMTT(30) DEF TypeOK
  <2> QED  BY <1>0, <1>1, <1>4, <1>8, <2>1, Zenon DEF TypeOK, States, Calls
<1>10. WaitersMeanNoSlot'
  <2>1. \A r \in Slots \ {q} : free_waiters'[r] = free_waiters[r]
    BY <1>2, <1>5, Zenon
  <2> QED  BY <1>0, <1>1, <2>1, Zenon DEF WaitersMeanNoSlot
<1>11. DeadHasNoRoom' /\ CountsMessages'
  BY <1>0, <1>1, Zenon DEF DeadHasNoRoom, CountsMessages, Total
<1>12. SlotsAccounted'
  BY <1>1, <1>4, SameAccounted, Zenon
<1> QED  BY <1>4, <1>6, <1>7, <1>9, <1>10, <1>11, <1>12, Zenon DEF IInv, TaskInv

\* A receiver that starts to wait for a message keeps the invariant.
LEMMA ReceiveWaitsInv ==
  ASSUME IInv, NEW t \in Tasks, NEW q \in Slots, ReceiveWaits(t, q)
  PROVE  IInv'
<1>0. TypeOK /\ TaskInv /\ WaitersMeanNoSlot /\ DeadHasNoRoom /\ CountsMessages
  BY DEF IInv
<1>1. /\ pc[t] = "idle" /\ live[q] /\ used_slots[q] = 0 /\ MESSAGE_FLAG_BLOCKING # 0
      /\ pc' = [pc EXCEPT ![t] = "blocked"]
      /\ live' = live /\ owner' = owner /\ max_messages' = max_messages
      /\ message_count' = message_count /\ messages' = messages /\ free_slots' = free_slots
      /\ free_waiters' = free_waiters /\ used_slots' = used_slots
      /\ next_message_id' = next_message_id /\ leaked' = leaked
  BY Zenon DEF ReceiveWaits, queueVars
<1>2. PICK w \in AddWaiterOutcomes(used_waiters[q], t) :
        used_waiters' = [used_waiters EXCEPT ![q] = w]
  BY Zenon DEF ReceiveWaits
<1>3. PICK c \in Calls : c.kind = "receive" /\ c.q = q /\ op' = [op EXCEPT ![t] = c]
  <2> DEFINE c == [kind |-> "receive", q |-> q, id |-> 0, level |-> 0]
  <2>1. 0 \in 0 .. MaxId /\ 0 \in Levels
    BY MessageAssumption DEF Levels, MESSAGE_PRIORITY_URGENT
  <2>2. c \in Calls /\ op' = [op EXCEPT ![t] = c]
    BY <2>1, Zenon DEF Calls, ReceiveWaits
  <2> QED  BY <2>2, Zenon
<1>4. /\ pc' \in [Tasks -> States] /\ op' \in [Tasks -> Calls]
      /\ InCall' /\ NobodyWaitsAsBuilt'
      /\ \A u \in Tasks : pc[u] = "blocked" => pc'[u] = "blocked" /\ op'[u] = op[u]
      /\ \A k : \A r \in Slots : Woken(k, r)' = Woken(k, r)
  BY <1>0, <1>1, <1>3, BlocksStep, Zenon
<1>5. /\ pc \in [Tasks -> States] /\ op \in [Tasks -> Calls]
      /\ free_waiters \in [Slots -> Seq(Tasks)] /\ used_waiters \in [Slots -> Seq(Tasks)]
      /\ Queued(free_waiters, pc, op, "send") /\ Queued(used_waiters, pc, op, "receive")
  BY <1>0, TaskTypes DEF TaskInv
<1>6. Queued(used_waiters', pc', op', "receive")
  BY <1>1, <1>2, <1>3, <1>5, QueuedJoin, Zenon
<1>7. Queued(free_waiters', pc', op', "send")
  BY <1>1, <1>4, <1>5, QueuedFrame, Zenon
<1>8. used_waiters' \in [Slots -> Seq(Tasks)]
  <2>1. used_waiters[q] \in Seq(Tasks)
    BY <1>5
  <2>2. w \in Seq(Tasks)
    BY <2>1, AddWaiterFacts
  <2> QED  BY <1>2, <1>5, <2>2
<1>9. TypeOK'
  BY <1>0, <1>1, <1>4, <1>8, Zenon DEF TypeOK, States, Calls
<1>10. WaitersMeanNoSlot'
  <2>1. \A r \in Slots \ {q} : used_waiters'[r] = used_waiters[r]
    BY <1>2, <1>5
  <2> QED  BY <1>0, <1>1, <2>1, Zenon DEF WaitersMeanNoSlot
<1>11. DeadHasNoRoom' /\ CountsMessages'
  BY <1>0, <1>1, Zenon DEF DeadHasNoRoom, CountsMessages, Total
<1>12. SlotsAccounted'
  BY <1>1, <1>4, SameAccounted, Zenon
<1> QED  BY <1>4, <1>6, <1>7, <1>9, <1>10, <1>11, <1>12, Zenon DEF IInv, TaskInv

\* A call that does no more than take a message id.
LEMMA NumberedInv ==
  ASSUME IInv, next_message_id' \in 1 .. MaxId + 1,
         UNCHANGED <<queueVars, message_count, messages, free_slots, free_waiters,
                     used_slots, used_waiters, pc, op, leaked>>
  PROVE  IInv'
<1>1. live' = live /\ owner' = owner /\ max_messages' = max_messages
  BY DEF queueVars
<1>2. TypeOK'
  BY <1>1, Zenon DEF IInv, TypeOK
<1>3. TaskInv' /\ WaitersMeanNoSlot' /\ DeadHasNoRoom' /\ CountsMessages'
  BY <1>1, Zenon DEF IInv, TaskInv, InCall, NobodyWaitsAsBuilt, WaitersMeanNoSlot, DeadHasNoRoom,
              CountsMessages, Total
<1>4. \A k : \A r \in Slots : Woken(k, r)' = Woken(k, r)
  BY Zenon DEF Woken
<1>5. SlotsAccounted'
  BY <1>1, <1>4, SameAccounted, Zenon
<1> QED  BY <1>2, <1>3, <1>5 DEF IInv

\* The two ends of a send and the two of a receive wake by the rule.
LEMMA SendWakes ==
  ASSUME TypeOK, TaskInv, NEW t \in Tasks, NEW q \in Slots, NEW id, NEW level,
         enqueue_message(t, q, id, level),
         \/ pc[t] = "idle" /\ op' = op
         \/ pc[t] = "woken" /\ op' = [op EXCEPT ![t] = NoCall]
  PROVE  Wakes(used_waiters, "receive", q, t, pc, op, pc', op')
BY TaskTypes, Zenon DEF TaskInv, Wakes, enqueue_message

\* Likewise, taking a message wakes the first sender that waits.
LEMMA ReceiveWakes ==
  ASSUME TypeOK, TaskInv, NEW t \in Tasks, NEW q \in Slots, NonEmpty(q) # {},
         dequeue_message(t, q),
         \/ pc[t] = "idle" /\ op' = op
         \/ pc[t] = "woken" /\ op' = [op EXCEPT ![t] = NoCall]
  PROVE  Wakes(free_waiters, "send", q, t, pc, op, pc', op')
BY TaskTypes, Zenon DEF TaskInv, Wakes, dequeue_message

\* send_message keeps the invariant when it need not wait.
LEMMA SendInv ==
  ASSUME IInv, NEW t \in Tasks, NEW q \in Slots, NEW p \in Priorities, send_message(t, q, p)
  PROVE  IInv'
<1>0. TypeOK /\ TaskInv /\ WaitersMeanNoSlot
  BY DEF IInv
<1>1. /\ pc[t] = "idle" /\ live[q] /\ next_message_id <= MaxId
      /\ next_message_id' = next_message_id + 1
      /\ free_slots[q] > 0 /\ free_slots' = [free_slots EXCEPT ![q] = @ - 1]
      /\ UNCHANGED <<queueVars, free_waiters>> /\ op' = op
  BY DEF send_message
<1>2. next_message_id \in 1 .. MaxId /\ next_message_id' \in 1 .. MaxId + 1
  BY <1>0, <1>1, MessageAssumption, SMTT(30) DEF TypeOK
<1>3. Level(p) \in Levels
  BY LevelType
<1>4. \A k, r : t \notin Woken(k, r)
  BY <1>1, Zenon DEF Woken
<1>5. free_slots \in [Slots -> Nat]
  BY <1>0, Zenon DEF TypeOK
<1>6. free_slots' \in [Slots -> Nat]
  BY <1>1, <1>5
<1>7. \A r \in Slots : free_slots'[r] - (IF t \in Woken("send", r) THEN 1 ELSE 0) =
                         free_slots[r] - (IF r = q THEN 1 ELSE 0)
  <2> TAKE r \in Slots
  <2>1. free_slots'[r] = IF r = q THEN free_slots[r] - 1 ELSE free_slots[r]
    BY <1>1, <1>5
  <2>2. free_slots[r] \in Nat
    BY <1>5
  <2> QED  BY <1>4, <2>1, <2>2, SMTT(30)
<1>8. \A r \in Slots : free_waiters[r] # <<>> => free_slots'[r] = 0
  BY <1>0, <1>1, <1>5, SMTT(30) DEF WaitersMeanNoSlot
<1>9. CASE enqueue_message(t, q, next_message_id, Level(p))
  <2>1. PICK id \in 1 .. MaxId : id = next_message_id
    BY <1>2
  <2>2. enqueue_message(t, q, id, Level(p))
    BY <1>9, <2>1
  <2>3. Wakes(used_waiters, "receive", q, t, pc, op, pc', op')
    BY <1>0, <1>1, <2>2, SendWakes, Zenon
  <2> QED  BY <1>1, <1>2, <1>3, <1>4, <1>6, <1>7, <1>8, <2>2, <2>3, EnqueueInv, Zenon
<1>10. CASE EnqueueFails(t, q)
  BY <1>1, <1>2, <1>4, <1>6, <1>7, <1>8, <1>10, FailInv, Zenon
<1> QED  BY <1>9, <1>10, Zenon DEF send_message

\* A sender that goes on after its wait keeps the invariant.
LEMMA SendResumesInv ==
  ASSUME IInv, NEW t \in Tasks, SendResumes(t)
  PROVE  IInv'
<1>0. TypeOK /\ TaskInv /\ WaitersMeanNoSlot
  BY DEF IInv
<1>1. /\ pc[t] = "woken" /\ op[t].kind = "send"
      /\ op' = [op EXCEPT ![t] = NoCall] /\ free_slots' = free_slots
      /\ UNCHANGED <<queueVars, free_waiters>> /\ next_message_id' = next_message_id
  BY Zenon DEF SendResumes
<1>2. PICK q \in Slots : q = op[t].q
  BY <1>0, <1>1, Zenon DEF TaskInv, InCall
<1>3. PICK id \in 1 .. MaxId : id = op[t].id
  BY <1>0, <1>1, Zenon DEF TaskInv, InCall
<1>4. PICK level \in Levels : level = op[t].level
  BY <1>0, Zenon DEF TypeOK
<1>5. q \in Sound => live[q]
  BY <1>0, <1>1, <1>2, Zenon DEF TaskInv, InCall
<1>6. /\ \A r \in Slots : t \notin Woken("receive", r)
      /\ \A r \in Slots : t \in Woken("send", r) <=> r = q
  BY <1>1, <1>2, Zenon DEF Woken
<1>7. free_slots' \in [Slots -> Nat] /\ next_message_id' \in 1 .. MaxId + 1
  BY <1>0, <1>1, Zenon DEF TypeOK
<1>8. \A r \in Slots : free_slots'[r] - (IF t \in Woken("send", r) THEN 1 ELSE 0) =
                         free_slots[r] - (IF r = q THEN 1 ELSE 0)
  BY <1>1, <1>6, Zenon
<1>9. \A r \in Slots : free_waiters[r] # <<>> => free_slots'[r] = 0
  BY <1>0, <1>1, Zenon DEF WaitersMeanNoSlot
<1>10. CASE enqueue_message(t, q, id, level)
  <2>1. Wakes(used_waiters, "receive", q, t, pc, op, pc', op')
    BY <1>0, <1>1, <1>10, SendWakes, Zenon
  <2> QED  BY <1>1, <1>5, <1>6, <1>7, <1>8, <1>9, <1>10, <2>1, EnqueueInv, Zenon
<1>11. CASE EnqueueFails(t, q)
  BY <1>1, <1>6, <1>7, <1>8, <1>9, <1>11, FailInv, Zenon
<1> QED  BY <1>2, <1>3, <1>4, <1>10, <1>11, Zenon DEF SendResumes

\* receive_message keeps the invariant when it need not wait.
LEMMA ReceiveInv ==
  ASSUME IInv, NEW t \in Tasks, NEW q \in Slots, receive_message(t, q)
  PROVE  IInv'
<1>0. TypeOK /\ TaskInv /\ WaitersMeanNoSlot
  BY DEF IInv
<1>1. /\ pc[t] = "idle" /\ live[q] /\ used_slots[q] > 0
      /\ used_slots' = [used_slots EXCEPT ![q] = @ - 1] /\ dequeue_message(t, q)
      /\ UNCHANGED <<queueVars, used_waiters, next_message_id, leaked>> /\ op' = op
  BY Zenon DEF receive_message
<1>2. \A k, r : t \notin Woken(k, r)
  BY <1>1, Zenon DEF Woken
<1>3. used_slots \in [Slots -> Nat]
  BY <1>0, Zenon DEF TypeOK
<1>4. used_slots' \in [Slots -> Nat]
  BY <1>1, <1>3, SMTT(30)
<1>5. \A r \in Slots : used_slots'[r] - (IF t \in Woken("receive", r) THEN 1 ELSE 0) =
                         used_slots[r] - (IF r = q THEN 1 ELSE 0)
  <2> TAKE r \in Slots
  <2>1. used_slots'[r] = IF r = q THEN used_slots[r] - 1 ELSE used_slots[r]
    BY <1>1, <1>3, Zenon
  <2>2. used_slots[r] \in Nat
    BY <1>3
  <2> QED  BY <1>2, <2>1, <2>2, SMTT(30)
<1>6. \A r \in Slots : used_waiters[r] # <<>> => used_slots'[r] = 0
  BY <1>0, <1>1, <1>3, SMTT(30) DEF WaitersMeanNoSlot
<1>7. CASE NonEmpty(q) # {}
  <2>1. Wakes(free_waiters, "send", q, t, pc, op, pc', op')
    BY <1>0, <1>1, <1>7, ReceiveWakes, Zenon
  <2>2. \A r \in Slots : t \notin Woken("send", r)
    BY <1>2, Zenon
  <2>4. q \in Sound => live[q]
    BY <1>1, Zenon
  <2>3. UNCHANGED <<queueVars, used_waiters, next_message_id, leaked>> /\ dequeue_message(t, q)
    BY <1>1, Zenon
  <2> QED  BY <1>4, <1>5, <1>6, <1>7, <2>1, <2>2, <2>3, <2>4, DequeueInv, ZenonT(60)
<1>8. CASE NonEmpty(q) = {}
  <2>1. q \notin Sound
    BY <1>1, <1>8, ReceiverFindsMessage, Zenon
  <2>2. /\ pc' = [pc EXCEPT ![t] = "idle"]
        /\ UNCHANGED <<messages, message_count, free_slots, free_waiters>>
    BY <1>1, <1>8, Zenon DEF dequeue_message
  <2>3. \A r \in Slots \ {q} : used_slots'[r] = used_slots[r]
    BY <1>1, <1>3, Zenon
  <2> QED  BY <1>1, <1>4, <1>6, <2>1, <2>2, <2>3, NothingInv, Zenon
<1> QED  BY <1>7, <1>8

\* A receiver that goes on after its wait keeps the invariant.
LEMMA ReceiveResumesInv ==
  ASSUME IInv, NEW t \in Tasks, ReceiveResumes(t)
  PROVE  IInv'
<1>0. TypeOK /\ TaskInv /\ WaitersMeanNoSlot
  BY DEF IInv
<1>1. /\ pc[t] = "woken" /\ op[t].kind = "receive"
      /\ op' = [op EXCEPT ![t] = NoCall] /\ used_slots' = used_slots
      /\ UNCHANGED <<queueVars, used_waiters, next_message_id, leaked>>
  BY Zenon DEF ReceiveResumes
<1>2. PICK q \in Slots : q = op[t].q
  BY <1>0, <1>1, Zenon DEF TaskInv, InCall
<1>3. dequeue_message(t, q)
  BY <1>2, Zenon DEF ReceiveResumes
<1>4. q \in Sound => live[q]
  BY <1>0, <1>1, <1>2, Zenon DEF TaskInv, InCall
<1>5. /\ \A r \in Slots : t \notin Woken("send", r)
      /\ \A r \in Slots : t \in Woken("receive", r) <=> r = q
  BY <1>1, <1>2 DEF Woken
<1>6. used_slots' \in [Slots -> Nat]
  BY <1>0, <1>1, Zenon DEF TypeOK
<1>7. \A r \in Slots : used_slots'[r] - (IF t \in Woken("receive", r) THEN 1 ELSE 0) =
                         used_slots[r] - (IF r = q THEN 1 ELSE 0)
  BY <1>1, <1>5, Zenon
<1>8. \A r \in Slots : used_waiters[r] # <<>> => used_slots'[r] = 0
  BY <1>0, <1>1, Zenon DEF WaitersMeanNoSlot
<1>9. CASE NonEmpty(q) # {}
  <2>1. Wakes(free_waiters, "send", q, t, pc, op, pc', op')
    BY <1>0, <1>1, <1>3, <1>9, ReceiveWakes, Zenon
  <2> QED  BY <1>1, <1>3, <1>4, <1>5, <1>6, <1>7, <1>8, <1>9, <2>1, DequeueInv, Zenon
<1>10. CASE NonEmpty(q) = {}
  <2>1. q \notin Sound
    BY <1>5, <1>10, ReceiverFindsMessage
  <2>2. /\ pc' = [pc EXCEPT ![t] = "idle"]
        /\ UNCHANGED <<messages, message_count, free_slots, free_waiters>>
    BY <1>3, <1>10, Zenon DEF dequeue_message
  <2> QED  BY <1>1, <1>2, <1>6, <1>8, <2>1, <2>2, NothingInv, Zenon
<1> QED  BY <1>9, <1>10

\* Every step keeps the invariant, a step that changes nothing included.
LEMMA NextStep ==
  ASSUME IInv, [Next]_vars
  PROVE  IInv'
<1>1. CASE UNCHANGED vars
  <2>1. /\ next_message_id' = next_message_id
        /\ UNCHANGED <<queueVars, message_count, messages, free_slots, free_waiters,
                       used_slots, used_waiters, pc, op, leaked>>
    BY <1>1 DEF vars
  <2>2. next_message_id' \in 1 .. MaxId + 1
    BY <2>1, Zenon DEF IInv, TypeOK
  <2> QED  BY <2>1, <2>2, NumberedInv
<1>2. ASSUME NEW t \in Tasks, NEW n \in Sizes, create_message_queue(t, n) PROVE IInv'
  BY <1>2, CreateInv
<1>3. ASSUME NEW t \in Tasks, NEW q \in Destroyable, destroy_message_queue(t, q) PROVE IInv'
  BY <1>3, DestroyInv DEF destroy_message_queue
<1>4. ASSUME NEW pid \in Tasks, Owned(pid) \subseteq Destroyable,
             cleanup_task_message_queues(pid)
      PROVE  IInv'
  <2>1. PICK Q \in SUBSET Destroyable : Q = Owned(pid)
    BY <1>4
  <2>2. Destroy(Q)
    BY <1>4, <2>1 DEF cleanup_task_message_queues
  <2> QED  BY <2>2, DestroyInv
<1>5. ASSUME NEW t \in Tasks, NEW q \in Slots, NEW p \in Priorities,
             send_message(t, q, p) \/ SendWaits(t, q, p)
      PROVE  IInv'
  BY <1>5, SendInv, SendWaitsInv, Zenon
<1>6. ASSUME NEW t \in Tasks, NEW q \in Slots,
             SendRefused(t, q) \/ receive_message(t, q) \/ ReceiveWaits(t, q)
      PROVE  IInv'
  <2>1. CASE SendRefused(t, q)
    <3>1. next_message_id' \in 1 .. MaxId + 1
      BY <2>1, MessageAssumption, SMTT(30) DEF SendRefused, IInv, TypeOK
    <3> QED  BY <2>1, <3>1, NumberedInv, Zenon DEF SendRefused
  <2> QED  BY <1>6, <2>1, ReceiveInv, ReceiveWaitsInv, Zenon
<1>7. ASSUME NEW t \in Tasks, SendResumes(t) \/ ReceiveResumes(t) \/ reply_to_message(t)
      PROVE  IInv'
  <2>1. CASE reply_to_message(t)
    <3>1. next_message_id' \in 1 .. MaxId + 1
      BY <2>1, MessageAssumption, SMTT(30) DEF reply_to_message, IInv, TypeOK
    <3> QED  BY <2>1, <3>1, NumberedInv, Zenon DEF reply_to_message
  <2> QED  BY <1>7, <2>1, SendResumesInv, ReceiveResumesInv
<1> QED  BY <1>1, <1>2, <1>3, <1>4, <1>5, <1>6, <1>7, Zenon DEF Next

\* The inductive invariant holds.
LEMMA InductiveInvariant == Spec => []IInv
<1>1. IInv /\ [Next]_vars => IInv'
  BY NextStep
<1> QED  BY InitHolds, <1>1, PTL DEF Spec

\* The types hold in every state (message.c as a whole).
THEOREM MessageQueueTypes == Spec => []TypeOK
<1>1. IInv => TypeOK
  BY DEF IInv
<1> QED  BY InductiveInvariant, <1>1, PTL

\* No slot and no announcement of a message is lost or counted twice between the two
\* semaphores and the lists, whoever was woken in between (send_message, receive_message,
\* enqueue_message, dequeue_message), for any number of tasks and queues of any size:
\* all queues as built, where no call waits, and otherwise those that are never destroyed.
\* Slots lost to failed sends are counted apart.
THEOREM MessageQueueAccounts == Spec => []SlotsAccounted
<1>1. IInv => SlotsAccounted
  BY DEF IInv
<1> QED  BY InductiveInvariant, <1>1, PTL

\* Senders and receivers of a queue that is never destroyed do not wait for each
\* other with nobody woken, unless failed sends have lost all its slots (the two calls of
\* semaphore_wait in send_message and receive_message).
THEOREM MessageQueueNotBothStuck == Spec => []NotBothStuck
<1>1. IInv => NotBothStuck
  <2> SUFFICES ASSUME IInv, NEW q \in Sound, free_waiters[q] # <<>>, used_waiters[q] # <<>>,
                      leaked[q] < max_messages[q], Woken("send", q) \cup Woken("receive", q) = {}
               PROVE  FALSE
    BY Zenon DEF NotBothStuck
  <2>1. q \in Slots
    BY Zenon DEF Sound
  <2>2. free_slots[q] = 0 /\ used_slots[q] = 0
    BY <2>1, Zenon DEF IInv, WaitersMeanNoSlot
  <2>3. Woken("send", q) = {} /\ Woken("receive", q) = {}
    BY Zenon
  <2>4. Cardinality(Woken("send", q)) = 0 /\ Cardinality(Woken("receive", q)) = 0
    BY <2>3, FS_EmptySet, Zenon
  <2>5. 0 + 0 + message_count[q] + leaked[q] = max_messages[q] /\ 0 + 0 = message_count[q]
    BY <2>2, <2>4, Zenon DEF IInv, SlotsAccounted
  <2>6. leaked[q] \in Nat /\ max_messages[q] \in Nat
    BY <2>1, SMTT(30) DEF IInv, TypeOK
  <2> QED  BY <2>5, <2>6, SMTT(30)
<1> QED  BY InductiveInvariant, <1>1, PTL

-----------------------------------------------------------------------------
(* The queue is a PriorityChannel. *)

Capacity == [q \in Sound |-> max_messages[q]]

Content == [q \in Sound |-> messages[q]]

\* What does not touch a sound queue does not touch the channel.
LEMMA ChannelStutters ==
  ASSUME \A q \in Sound : max_messages'[q] = max_messages[q] /\ messages'[q] = messages[q]
  PROVE  [Channel!Next]_<<Capacity, Content>>
BY Zenon DEF Capacity, Content

\* A queue without capacity is empty.
LEMMA NoRoomIsEmpty ==
  ASSUME IInv, NEW q \in Sound, max_messages[q] = 0
  PROVE  messages[q] = NoMessages
<1>1. q \in Slots
  BY DEF Sound
<1>2. /\ Cardinality(Woken("send", q)) \in Nat /\ free_slots[q] \in Nat
      /\ message_count[q] \in Nat /\ leaked[q] \in Nat
      /\ messages[q] \in [Levels -> Seq(1 .. MaxId)]
  BY <1>1, WokenIsAt, Zenon DEF IInv, TypeOK
<1>3. Total(q) = 0
  <2>1. /\ free_slots[q] + Cardinality(Woken("send", q)) + message_count[q] + leaked[q] = 0
        /\ message_count[q] = Total(q)
    BY Zenon DEF IInv, SlotsAccounted
  <2> QED  BY <1>2, <2>1, SMTT(30)
<1>4. \A l \in Levels : Len(messages[q][l]) = 0
  <2> DEFINE a == Len(messages[q][0])
             b == Len(messages[q][1])
             d == Len(messages[q][2])
             e == Len(messages[q][3])
  <2>0. 0 \in Levels /\ 1 \in Levels /\ 2 \in Levels /\ 3 \in Levels
    BY SMTT(30) DEF Levels, MESSAGE_PRIORITY_URGENT
  <2>1. a \in Nat /\ b \in Nat /\ d \in Nat /\ e \in Nat
    BY <1>2, <2>0, SMTT(30)
  <2>2. a + b + d + e = 0
    BY <1>3, Zenon DEF Total
  <2> HIDE DEF a, b, d, e
  <2>3. a = 0 /\ b = 0 /\ d = 0 /\ e = 0
    BY <2>1, <2>2
  <2> QED  BY <2>3 DEF a, b, d, e, Levels, MESSAGE_PRIORITY_URGENT
<1>5. \A l \in Levels : messages[q][l] = <<>>
  BY <1>2, <1>4, SMTT(30)
<1> QED  BY <1>2, <1>5, Zenon DEF NoMessages

\* A new queue, for the channel.
LEMMA CreateIsCreate ==
  ASSUME IInv, NEW t \in Tasks, NEW n \in Sizes, create_message_queue(t, n)
  PROVE  [Channel!Next]_<<Capacity, Content>>
<1>1. PICK q \in Slots : q = find_free_message_queue /\ ~ live[q]
  BY FindsFree DEF create_message_queue
<1>2. n \in 1 .. MaxMessages /\ Reset({q}, n)
  BY <1>1, Zenon DEF create_message_queue
<1>3. /\ max_messages'[q] = n /\ messages'[q] = NoMessages
      /\ \A r \in Slots \ {q} : max_messages'[r] = max_messages[r] /\ messages'[r] = messages[r]
  BY <1>1, <1>2, Zenon DEF Reset
<1>4. Sound \subseteq Slots
  BY DEF Sound
<1>5. CASE q \in Sound
  <2>1. max_messages[q] = 0
    BY <1>1, Zenon DEF IInv, DeadHasNoRoom
  <2>2. messages[q] = NoMessages
    BY <1>5, <2>1, NoRoomIsEmpty, Zenon
  <2>3. Content' = Content
    BY <1>3, <1>4, <2>2, Zenon DEF Content
  <2>4. Capacity' = [Capacity EXCEPT ![q] = n]
    BY <1>3, <1>4, Zenon DEF Capacity
  <2>5. Channel!Create(q, n)
    BY <1>5, <2>1, <2>3, <2>4, Zenon DEF Channel!Create, Capacity, Content
  <2> QED  BY <1>2, <1>5, <2>5, Zenon DEF Channel!Next
<1>6. CASE q \notin Sound
  BY <1>3, <1>4, <1>6, ChannelStutters, Zenon
<1> QED  BY <1>5, <1>6

\* Destroyed queues, for the channel.
LEMMA DestroyIsDestroy ==
  ASSUME IInv, NEW Q \in SUBSET Destroyable, Destroy(Q)
  PROVE  [Channel!Next]_<<Capacity, Content>>
<1> DEFINE S == Q \cap Sound
<1>1. Sound \subseteq Slots
  BY DEF Sound
<1>2. /\ max_messages' = [q \in Slots |-> IF q \in Q THEN 0 ELSE max_messages[q]]
      /\ messages' = [q \in Slots |-> IF q \in Q THEN NoMessages ELSE messages[q]]
  BY Zenon DEF Destroy, Reset
<1>3. Capacity' = [q \in Sound |-> IF q \in S THEN 0 ELSE Capacity[q]]
  BY <1>1, <1>2, Zenon DEF Capacity
<1>4. Content' = [q \in Sound |-> IF q \in S THEN Channel!Empty ELSE Content[q]]
  <2>1. NoMessages = Channel!Empty
    BY DEF NoMessages, Channel!Empty, Levels, MESSAGE_PRIORITY_URGENT, Channel!Levels
  <2> QED  BY <1>1, <1>2, <2>1, Zenon DEF Content
<1>5. Channel!Destroy(S)
  BY <1>3, <1>4, Zenon DEF Channel!Destroy, Capacity, Content
<1> QED  BY <1>5 DEF Channel!Next

\* A send that has a slot, for the channel: there is room.
LEMMA EnqueueIsSend ==
  ASSUME IInv, NEW t \in Tasks, NEW q \in Slots, NEW id \in 1 .. MaxId, NEW level \in Levels,
         enqueue_message(t, q, id, level), max_messages' = max_messages,
         free_slots[q] > 0 \/ t \in Woken("send", q)
  PROVE  [Channel!Next]_<<Capacity, Content>>
<1>1. Sound \subseteq Slots
  BY Zenon DEF Sound
<1>2. /\ messages \in [Slots -> [Levels -> Seq(1 .. MaxId)]]
      /\ messages' = [messages EXCEPT ![q][level] = Append(@, id)]
  BY Zenon DEF IInv, TypeOK, enqueue_message
<1>3. CASE q \in Sound
  <2>1. Total(q) < max_messages[q]
    <3> DEFINE F == free_slots[q]
               S == Cardinality(Woken("send", q))
               C == message_count[q]
               L == leaked[q]
    <3>1. F \in Nat /\ S \in Nat /\ C \in Nat /\ L \in Nat
      BY WokenIsAt, Zenon DEF IInv, TypeOK
    <3>2. F + S + C + L = max_messages[q] /\ C = Total(q)
      BY <1>3, Zenon DEF IInv, SlotsAccounted
    <3>3. t \in Woken("send", q) => S # 0
      <4>1. IsFiniteSet(Woken("send", q))
        BY AtIsFinite, WokenIsAt, SMTT(30)
      <4> QED  BY <4>1, FS_EmptySet, Zenon
    <3>4. F > 0 \/ S # 0
      BY <3>3
    <3> HIDE DEF F, S, C, L
    <3> QED  BY <3>1, <3>2, <3>4, SMTT(30)
  <2>2. Channel!Total(Content[q]) < Capacity[q]
    BY <1>3, <2>1, TotalIs, Zenon DEF Content, Capacity
  <2>3. Content' = [Content EXCEPT ![q][level] = Append(@, id)]
    BY <1>1, <1>2, <1>3, Zenon DEF Content
  <2>4. Channel!Send(q, level, id)
    BY <2>2, <2>3, Zenon DEF Channel!Send, Capacity, Content
  <2>5. level \in Channel!Levels
    BY DEF Levels, MESSAGE_PRIORITY_URGENT, Channel!Levels
  <2> QED  BY <1>3, <2>4, <2>5, Zenon DEF Channel!Next
<1>4. CASE q \notin Sound
  BY <1>1, <1>2, <1>4, ChannelStutters, Zenon
<1> QED  BY <1>3, <1>4, Zenon

\* A receive, for the channel: it takes the oldest message of the highest priority.
LEMMA DequeueIsReceive ==
  ASSUME IInv, NEW t \in Tasks, NEW q \in Slots, dequeue_message(t, q),
         max_messages' = max_messages
  PROVE  [Channel!Next]_<<Capacity, Content>>
<1>1. Sound \subseteq Slots
  BY DEF Sound
<1>2. CASE NonEmpty(q) = {} \/ q \notin Sound
  BY <1>1, <1>2, ChannelStutters, Zenon DEF IInv, TypeOK, dequeue_message
<1>3. CASE NonEmpty(q) # {} /\ q \in Sound
  <2>1. PICK h \in Levels : /\ h = HighestPriority(q) /\ messages[q][h] # <<>>
                            /\ \A r \in Levels : r > h => messages[q][r] = <<>>
    BY <1>3, HighestFacts, Zenon DEF IInv
  <2>2. /\ messages \in [Slots -> [Levels -> Seq(1 .. MaxId)]]
        /\ messages' = [messages EXCEPT ![q][h] = Tail(@)]
    BY <1>3, <2>1 DEF IInv, TypeOK, dequeue_message
  <2>3. Content' = [Content EXCEPT ![q][h] = Tail(@)]
    BY <1>1, <1>3, <2>2, Zenon DEF Content
  <2>4. Levels = Channel!Levels
    BY DEF Levels, MESSAGE_PRIORITY_URGENT, Channel!Levels
  <2>5. Content[q] = messages[q]
    BY <1>3 DEF Content
  <2>6. Channel!Receive(q, h)
    BY <2>1, <2>3, <2>4, <2>5, Zenon DEF Channel!Receive, Capacity, Content
  <2> QED  BY <1>3, <2>4, <2>6 DEF Channel!Next
<1> QED  BY <1>2, <1>3

\* Every step is one of the channel or leaves it alone.
LEMMA StepIsChannelStep ==
  ASSUME IInv, [Next]_vars
  PROVE  [Channel!Next]_<<Capacity, Content>>
<1> DEFINE Goal == [Channel!Next]_<<Capacity, Content>>
<1>0. ASSUME max_messages' = max_messages, messages' = messages PROVE Goal
  BY <1>0, ChannelStutters, Zenon
<1> HIDE DEF Goal
<1>1. ASSUME UNCHANGED vars PROVE Goal
  BY <1>0, <1>1, Zenon DEF vars, queueVars
<1>2. ASSUME NEW t \in Tasks, NEW n \in Sizes, create_message_queue(t, n) PROVE Goal
  BY <1>2, CreateIsCreate, Zenon DEF Goal
<1>3. ASSUME NEW t \in Tasks, NEW q \in Destroyable, destroy_message_queue(t, q) PROVE Goal
  BY <1>3, DestroyIsDestroy, Zenon DEF destroy_message_queue, Goal
<1>4. ASSUME NEW pid \in Tasks, Owned(pid) \subseteq Destroyable,
             cleanup_task_message_queues(pid)
      PROVE  Goal
  <2>1. PICK Q \in SUBSET Destroyable : Q = Owned(pid)
    BY <1>4
  <2>2. Destroy(Q)
    BY <1>4, <2>1 DEF cleanup_task_message_queues
  <2> QED  BY <2>2, DestroyIsDestroy DEF Goal
<1>5. ASSUME NEW t \in Tasks, NEW q \in Slots, NEW p \in Priorities, send_message(t, q, p)
      PROVE  Goal
  <2>1. CASE enqueue_message(t, q, next_message_id, Level(p))
    <3>1. PICK id \in 1 .. MaxId : id = next_message_id
      BY <1>5, MessageAssumption, SMTT(30) DEF IInv, TypeOK, send_message
    <3>2. /\ enqueue_message(t, q, id, Level(p)) /\ max_messages' = max_messages
          /\ free_slots[q] > 0 /\ Level(p) \in Levels
      BY <1>5, <2>1, <3>1, LevelType, Zenon DEF send_message, queueVars
    <3> QED  BY <3>2, EnqueueIsSend, Zenon DEF Goal
  <2>2. CASE EnqueueFails(t, q)
    BY <1>0, <1>5, <2>2, Zenon DEF EnqueueFails, send_message, queueVars
  <2> QED  BY <1>5, <2>1, <2>2, Zenon DEF send_message
<1>6. ASSUME NEW t \in Tasks, SendResumes(t) PROVE Goal
  <2>1. /\ pc[t] = "woken" /\ op[t].kind = "send" /\ max_messages' = max_messages
    BY <1>6, Zenon DEF SendResumes, queueVars
  <2>2. PICK q \in Slots : q = op[t].q
    BY <2>1, Zenon DEF IInv, TaskInv, InCall
  <2>3. PICK id \in 1 .. MaxId : id = op[t].id
    BY <2>1, Zenon DEF IInv, TaskInv, InCall
  <2>4. PICK level \in Levels : level = op[t].level
    BY Zenon DEF IInv, TypeOK
  <2>5. t \in Woken("send", q)
    BY <2>1, <2>2, Zenon DEF Woken
  <2>6. CASE enqueue_message(t, q, id, level)
    BY <2>1, <2>5, <2>6, EnqueueIsSend, Zenon DEF Goal
  <2>7. CASE EnqueueFails(t, q)
    BY <1>0, <2>1, <2>7, Zenon DEF EnqueueFails
  <2> QED  BY <1>6, <2>2, <2>3, <2>4, <2>6, <2>7, Zenon DEF SendResumes
<1>7. ASSUME NEW t \in Tasks, NEW q \in Slots, receive_message(t, q) PROVE Goal
  BY <1>7, DequeueIsReceive, Zenon DEF receive_message, queueVars, Goal
<1>8. ASSUME NEW t \in Tasks, ReceiveResumes(t) PROVE Goal
  <2>1. /\ pc[t] = "woken" /\ max_messages' = max_messages /\ dequeue_message(t, op[t].q)
    BY <1>8, Zenon DEF ReceiveResumes, queueVars
  <2>2. PICK q \in Slots : q = op[t].q
    BY <2>1, Zenon DEF IInv, TaskInv, InCall
  <2> QED  BY <2>1, <2>2, DequeueIsReceive, Zenon DEF Goal
<1>9. ASSUME NEW t \in Tasks, NEW q \in Slots, NEW p \in Priorities,
             SendWaits(t, q, p)
      PROVE  Goal
  BY <1>0, <1>9, Zenon DEF SendWaits, queueVars
<1>10. ASSUME NEW t \in Tasks, NEW q \in Slots, SendRefused(t, q) \/ ReceiveWaits(t, q)
       PROVE  Goal
  BY <1>0, <1>10, Zenon DEF SendRefused, ReceiveWaits, queueVars
<1>11. ASSUME NEW t \in Tasks, reply_to_message(t) PROVE Goal
  BY <1>0, <1>11, Zenon DEF reply_to_message, queueVars
<1>12. Goal
  BY <1>1, <1>2, <1>3, <1>4, <1>5, <1>6, <1>7, <1>8, <1>9, <1>10, <1>11, Zenon DEF Next
<1> QED  BY <1>12 DEF Goal

\* The message queues, all as built and otherwise those never destroyed, implement
\* PriorityChannel: bounded, and in the order of priority and age, in every interleaving of senders and
\* receivers (enqueue_message, dequeue_message).
THEOREM MessageQueueIsPriorityChannel == Spec => IsPriorityChannel
<1>1. Init => Channel!Init
  <2>1. NoMessages = Channel!Empty
    BY DEF NoMessages, Channel!Empty, Levels, MESSAGE_PRIORITY_URGENT, Channel!Levels
  <2>2. Sound \subseteq Slots
    BY DEF Sound
  <2> QED  BY <2>1, <2>2, Zenon DEF Init, Channel!Init
<1>2. IInv /\ [Next]_vars => [Channel!Next]_<<Capacity, Content>>
  BY StepIsChannelStep
<1>3. IInv /\ [Next]_vars =>
        [Channel!Next]_<<[q \in Sound |-> max_messages[q]], [q \in Sound |-> messages[q]]>>
  BY <1>2, Zenon DEF Capacity, Content
<1> QED  BY InductiveInvariant, <1>1, <1>3, PTL DEF Spec, IsPriorityChannel, Channel!Spec

=============================================================================
