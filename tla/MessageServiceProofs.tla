------------------------ MODULE MessageServiceProofs ------------------------
(***************************************************************************)
(* Proofs about MessageService, for any tasks, queues and capacities: the  *)
(* rings stay whole, the places are accounted for, the registry matches    *)
(* the calls made of it, and the rings implement MessageList.              *)
(***************************************************************************)
EXTENDS MessageService, FiniteSetTheorems, WellFoundedInduction, TLAPS

-----------------------------------------------------------------------------

\* A search from the first place on has a result.
LEMMA LeastExists ==
  ASSUME NEW S \in SUBSET Nat, S # {}
  PROVE  \E s \in S : \A r \in S : s <= r
<1>1. \E s \in S : \A r \in S : ~ (<<r, s>> \in OpToRel(<, Nat))
  BY NatLessThanWellFounded, WFMin, Zenon
<1>2. \A r, s \in Nat : r < s => <<r, s>> \in OpToRel(<, Nat)
  BY Zenon DEF OpToRel
<1>3. PICK s \in S : \A r \in S : ~ (r < s)
  BY <1>1, <1>2, Zenon
<1> QED  BY <1>3

-----------------------------------------------------------------------------
(* The registry. *)

Entries == [task_id : Tasks, queues : Seq(Queues)]

\* A task has one entry at most, and a queue is in an entry once at most.
EntriesDistinct(registry) ==
  /\ \A i, j \in 1 .. Len(registry) : registry[i].task_id = registry[j].task_id => i = j
  /\ \A i \in 1 .. Len(registry) : \A j, k \in 1 .. Len(registry[i].queues) :
       registry[i].queues[j] = registry[i].queues[k] => j = k

\* q is queue number j of task t.
Holds(registry, t, j, q) ==
  \E i \in 1 .. Len(registry) :
    registry[i].task_id = t /\ j \in 1 .. Len(registry[i].queues) /\ registry[i].queues[j] = q

\* A registry of the right type in which a task has one entry at most, and a queue is in
\* an entry once at most.
Sound(registry) == registry \in Seq(Entries) /\ EntriesDistinct(registry)

\* The fields of an entry.
LEMMA EntryFields ==
  ASSUME NEW registry, Sound(registry), NEW i \in 1 .. Len(registry)
  PROVE  /\ registry[i] \in Entries /\ registry[i].task_id \in Tasks
         /\ registry[i].queues \in Seq(Queues) /\ Len(registry[i].queues) \in Nat
<1>1. registry[i] \in Entries
  BY DEF Sound
<1> QED  BY <1>1 DEF Entries

\* The registrations, by the numbers of the queues.
LEMMA RegistrationsFacts ==
  ASSUME NEW registry, Sound(registry)
  PROVE  /\ \A t, q : <<t, q>> \in Registrations(registry) <=> \E j : Holds(registry, t, j, q)
         /\ \A c \in Registrations(registry) : c \in Tasks \X Queues
<1>1. DOMAIN registry = 1 .. Len(registry)
  BY DEF Sound
<1>2. \A i \in 1 .. Len(registry) : DOMAIN registry[i].queues = 1 .. Len(registry[i].queues)
  BY EntryFields
<1>3. \A t, q : <<t, q>> \in Registrations(registry) <=> \E j : Holds(registry, t, j, q)
  BY <1>1, <1>2 DEF Registrations, Holds
<1>4. ASSUME NEW c \in Registrations(registry) PROVE c \in Tasks \X Queues
  <2>1. PICK i \in 1 .. Len(registry) :
          c \in {<<registry[i].task_id, registry[i].queues[j]>> : j \in DOMAIN registry[i].queues}
    BY <1>1, <1>4, Zenon DEF Registrations
  <2>2. PICK j \in 1 .. Len(registry[i].queues) : c = <<registry[i].task_id, registry[i].queues[j]>>
    BY <1>2, <2>1, Zenon
  <2> QED  BY <2>2, EntryFields
<1> QED  BY <1>3, <1>4, Zenon

\* r has the entries of the registry and one without queues behind them.
OneMore(r, registry) ==
  \A i \in 1 .. Len(r) : (r[i] = registry[i] /\ i \in 1 .. Len(registry))
                          \/ (i = Len(r) /\ Len(r[i].queues) = 0)

\* The queues of one entry are replaced by others.
Replaced(registry, idx, new) == [registry EXCEPT ![idx].queues = new]

\* r has the queues new where the registry has others, and is otherwise the same.
Rewritten(r, registry, idx, new) ==
  /\ Len(r) = Len(registry)
  /\ \A i \in 1 .. Len(registry) \ {idx} : r[i] = registry[i]
  /\ r[idx].queues = new
  /\ \A u, j, q : u # registry[idx].task_id => (Holds(r, u, j, q) <=> Holds(registry, u, j, q))
  /\ \A j, q : Holds(r, registry[idx].task_id, j, q) <=> j \in 1 .. Len(new) /\ new[j] = q
  /\ \A j, q : Holds(registry, registry[idx].task_id, j, q) <=>
                 j \in 1 .. Len(registry[idx].queues) /\ registry[idx].queues[j] = q

\* The list r over S is the list s, of length n, without its k-th element.
WithoutPlace(r, s, k, n, S) ==
  /\ r \in Seq(S) /\ Len(r) = n - 1
  /\ \A i \in 1 .. k - 1 : r[i] = s[i]
  /\ \A i \in k .. n - 1 : r[i] = s[i + 1]

\* The registry is within its limits.
Bounded(registry) ==
  /\ Len(registry) <= MAX_REGISTERED_TASKS
  /\ \A i \in 1 .. Len(registry) : Len(registry[i].queues) <= MAX_TASK_QUEUES

\* Task t may have gained queue q, and every queue has kept its number.
Gained(registry, r, t, q) ==
  /\ \A u, j, p : Holds(registry, u, j, p) => Holds(r, u, j, p)
  /\ \A u, j, p : Holds(r, u, j, p) => Holds(registry, u, j, p) \/ (u = t /\ p = q)

\* Task t does not have queue q any more, and no other task or queue is affected but for the
\* numbers of the queues behind it.
Lost(registry, r, t, q) ==
  /\ \A j : ~ Holds(r, t, j, q)
  /\ \A u, j, p : Holds(r, u, j, p) => \E k : Holds(registry, u, k, p)
  /\ \A u, j, p : Holds(registry, u, j, p) /\ ~ (u = t /\ p = q) => \E k : Holds(r, u, k, p)
  /\ \A u, p : Holds(registry, u, 1, p) /\ ~ (u = t /\ p = q) => Holds(r, u, 1, p)

\* find_task_queue.
LookupWorks ==
  \A registry, t : Sound(registry) =>
    /\ find_task_queue(registry, t) \in Queues \union {NoQueue}
    /\ \A q \in Queues : find_task_queue(registry, t) = q <=> Holds(registry, t, 1, q)

\* register_task_queue.
RegisterWorks ==
  \A t \in Tasks, q \in Queues : \A registry, r :
    Sound(registry) /\ Bounded(registry) /\ r = Registered(registry, t, q) =>
      /\ Sound(r) /\ Bounded(r) /\ Gained(registry, r, t, q)
      /\ HasRoom(registry, t) => \E j : Holds(r, t, j, q)

\* unregister_task_queue.
UnregisterWorks ==
  \A registry, t, q, r :
    Sound(registry) /\ Bounded(registry) /\ r = Unregistered(registry, t, q) =>
      Sound(r) /\ Bounded(r) /\ Lost(registry, r, t, q)

\* cleanup_task_queues.
CleanupWorks ==
  \A registry, t, r :
    Sound(registry) /\ Bounded(registry) /\ r = WithoutEntry(registry, t) =>
      /\ Sound(r) /\ Bounded(r)
      /\ \A u, j, p : Holds(r, u, j, p) <=> Holds(registry, u, j, p) /\ u # t

\* What every operation does to a registry that is sound.  The steps up to the last are
\* lemmas that only this proof needs.
LEMMA RegistryOperations == LookupWorks /\ RegisterWorks /\ UnregisterWorks /\ CleanupWorks
\* A search finds the first place.
<1>FirstFacts.
  ASSUME NEW S \in SUBSET Nat, S # {}
  PROVE  First(S) \in S /\ \A j \in S : First(S) <= j
  BY <1>FirstFacts, LeastExists, Zenon DEF First
\* find_registry_entry finds the entry of a task.
<1>FindFacts.
  ASSUME NEW registry, Sound(registry), NEW t, NEW idx, idx = find_registry_entry(registry, t)
  PROVE  \/ idx = 0 /\ \A i \in 1 .. Len(registry) : registry[i].task_id # t
         \/ /\ idx \in 1 .. Len(registry) /\ registry[idx].task_id = t
            /\ \A i \in 1 .. Len(registry) : registry[i].task_id = t => i = idx
  <2> USE <1>FindFacts
  <2> DEFINE found == {i \in DOMAIN registry : registry[i].task_id = t}
  <2>1. DOMAIN registry = 1 .. Len(registry) /\ Len(registry) \in Nat
    BY DEF Sound
  <2>2. idx = IF found = {} THEN 0 ELSE First(found)
    BY Zenon DEF find_registry_entry
  <2>3. CASE found = {}
    BY <2>1, <2>2, <2>3, Zenon
  <2>4. CASE found # {}
    <3>1. found \in SUBSET Nat
      BY <2>1
    <3>2. idx \in found
      BY <2>2, <2>4, <3>1, <1>FirstFacts, Zenon
    <3> QED  BY <2>1, <3>2, Zenon DEF Sound, EntriesDistinct
  <2> QED  BY <2>3, <2>4, Zenon
\* find_task_queue finds queue number 1 of a task.
<1>DefaultFacts.
  ASSUME NEW registry, Sound(registry), NEW t
  PROVE  /\ find_task_queue(registry, t) \in Queues \union {NoQueue}
         /\ \A q \in Queues : find_task_queue(registry, t) = q <=> Holds(registry, t, 1, q)
  <2> USE <1>DefaultFacts
  <2>1. PICK idx : idx = find_registry_entry(registry, t)
    BY Zenon
  <2>2. NoQueue \notin Queues
    BY ServiceAssumption, Zenon
  <2>3. \/ idx = 0 /\ \A i \in 1 .. Len(registry) : registry[i].task_id # t
        \/ /\ idx \in 1 .. Len(registry) /\ registry[idx].task_id = t
           /\ \A i \in 1 .. Len(registry) : registry[i].task_id = t => i = idx
    BY <2>1, <1>FindFacts, Zenon
  <2>4. find_task_queue(registry, t) = IF idx = 0 \/ registry[idx].queues = <<>> THEN NoQueue
                                       ELSE Head(registry[idx].queues)
    BY <2>1, Zenon DEF find_task_queue
  <2>5. CASE idx = 0
    <3>1. \A i \in 1 .. Len(registry) : registry[i].task_id # t
      BY <2>3, <2>5 DEF Sound
    <3> QED  BY <2>2, <2>4, <2>5, <3>1, Zenon DEF Holds
  <2>6. CASE idx # 0
    <3>1. /\ idx \in 1 .. Len(registry) /\ registry[idx].task_id = t
          /\ \A i \in 1 .. Len(registry) : registry[i].task_id = t => i = idx
      BY <2>3, <2>6, Zenon
    <3>2. registry[idx].queues \in Seq(Queues)
      BY <3>1, EntryFields, Zenon
    <3>3. CASE registry[idx].queues = <<>>
      <4>1. \A q \in Queues : ~ Holds(registry, t, 1, q)
        BY <3>1, <3>3 DEF Holds
      <4> QED  BY <2>2, <2>4, <3>3, <4>1, Zenon
    <3>4. CASE registry[idx].queues # <<>>
      <4>1. /\ Head(registry[idx].queues) = registry[idx].queues[1]
            /\ registry[idx].queues[1] \in Queues /\ 1 \in 1 .. Len(registry[idx].queues)
        BY <3>2, <3>4
      <4>2. find_task_queue(registry, t) = registry[idx].queues[1]
        BY <2>4, <2>6, <3>4, <4>1, Zenon
      <4> QED  BY <3>1, <4>1, <4>2, Zenon DEF Holds
    <3> QED  BY <3>3, <3>4, Zenon
  <2> QED  BY <2>5, <2>6, Zenon
\* find_or_create_registry_entry adds an entry without queues.
<1>NewEntryFacts.
  ASSUME NEW registry, Sound(registry), NEW t \in Tasks,
         \A i \in 1 .. Len(registry) : registry[i].task_id # t,
         NEW r, r = Append(registry, [task_id |-> t, queues |-> <<>>])
  PROVE  /\ Sound(r) /\ Len(r) = Len(registry) + 1
         /\ \A u, j, q : Holds(r, u, j, q) <=> Holds(registry, u, j, q)
         /\ OneMore(r, registry)
  <2> USE <1>NewEntryFacts
  <2>1. PICK e : e = [task_id |-> t, queues |-> <<>>]
    BY Zenon
  <2>2. e \in Entries /\ e.task_id = t /\ e.queues = <<>> /\ Len(e.queues) = 0
    BY <2>1 DEF Entries
  <2>3. PICK n \in Nat : n = Len(registry)
    BY DEF Sound
  <2>4. /\ r \in Seq(Entries) /\ Len(r) = n + 1 /\ r[n + 1] = e
        /\ \A i \in 1 .. n : r[i] = registry[i]
    BY <2>1, <2>2, <2>3 DEF Sound
  <2>5. \A i \in 1 .. n + 1 : i = n + 1 \/ i \in 1 .. n
    OBVIOUS
  <2>6. EntriesDistinct(r)
    <3>1. ASSUME NEW i \in 1 .. n + 1, NEW j \in 1 .. n + 1, r[i].task_id = r[j].task_id
          PROVE  i = j
      BY <2>2, <2>3, <2>4, <2>5, <3>1 DEF Sound, EntriesDistinct
    <3>2. ASSUME NEW i \in 1 .. n + 1
          PROVE  \A j, k \in 1 .. Len(r[i].queues) : r[i].queues[j] = r[i].queues[k] => j = k
      <4>1. CASE i = n + 1
        BY <2>2, <2>4, <4>1
      <4>2. CASE i \in 1 .. n
        BY <2>3, <2>4, <4>2 DEF Sound, EntriesDistinct
      <4> QED  BY <2>5, <4>1, <4>2, Zenon
    <3> QED  BY <2>4, <3>1, <3>2, Zenon DEF EntriesDistinct
  <2>7. ASSUME NEW u, NEW j, NEW q PROVE Holds(r, u, j, q) <=> Holds(registry, u, j, q)
    <3>1. \A i \in 1 .. n : i \in 1 .. n + 1
      OBVIOUS
    <3>2. ASSUME Holds(registry, u, j, q) PROVE Holds(r, u, j, q)
      BY <2>3, <2>4, <3>1, <3>2, Zenon DEF Holds
    <3>3. ASSUME Holds(r, u, j, q) PROVE Holds(registry, u, j, q)
      <4>1. PICK i \in 1 .. n + 1 :
              r[i].task_id = u /\ j \in 1 .. Len(r[i].queues) /\ r[i].queues[j] = q
        BY <2>4, <3>3, Zenon DEF Holds
      <4>2. i # n + 1
        BY <2>2, <2>4, <4>1
      <4>3. i \in 1 .. n
        BY <2>5, <4>2, Zenon
      <4> QED  BY <2>3, <2>4, <4>1, <4>3, Zenon DEF Holds
    <3> QED  BY <3>2, <3>3, Zenon
  <2>8. \A i \in 1 .. Len(r) : (r[i] = registry[i] /\ i \in 1 .. Len(registry))
                               \/ (i = Len(r) /\ Len(r[i].queues) = 0)
    <3> SUFFICES ASSUME NEW i \in 1 .. n + 1
                 PROVE  (r[i] = registry[i] /\ i \in 1 .. n) \/ (i = n + 1 /\ Len(r[i].queues) = 0)
      BY <2>3, <2>4, Zenon
    <3>1. CASE i = n + 1
      BY <2>2, <2>4, <3>1, Zenon
    <3>2. CASE i \in 1 .. n
      BY <2>4, <3>2, Zenon
    <3> QED  BY <2>5, <3>1, <3>2, Zenon
  <2> QED  BY <2>3, <2>4, <2>6, <2>7, <2>8, Zenon DEF Sound, OneMore
\* The other entries stay as they are.
<1>QueuesReplaced.
  ASSUME NEW registry, Sound(registry), NEW idx \in 1 .. Len(registry),
         NEW new \in Seq(Queues), \A j, k \in 1 .. Len(new) : new[j] = new[k] => j = k,
         NEW r, r = Replaced(registry, idx, new)
  PROVE  Sound(r) /\ Rewritten(r, registry, idx, new)
  <2> USE <1>QueuesReplaced
  <2>1. PICK n \in Nat : n = Len(registry)
    BY DEF Sound
  <2>2. PICK e : e = [registry[idx] EXCEPT !.queues = new]
    BY Zenon
  <2>3. e \in Entries /\ e.task_id = registry[idx].task_id /\ e.queues = new
    BY <2>2, EntryFields, Zenon DEF Entries
  <2>4. r = [registry EXCEPT ![idx] = e]
    BY <2>2, Zenon DEF Replaced
  <2>5. /\ r \in Seq(Entries) /\ Len(r) = n /\ r[idx] = e
        /\ \A i \in 1 .. n \ {idx} : r[i] = registry[i]
    BY <2>1, <2>3, <2>4 DEF Sound
  <2>6. \A i \in 1 .. n : r[i].task_id = registry[i].task_id
    BY <2>3, <2>5, Zenon
  <2>7. EntriesDistinct(r)
    <3>1. ASSUME NEW i \in 1 .. n
          PROVE  \A j, k \in 1 .. Len(r[i].queues) : r[i].queues[j] = r[i].queues[k] => j = k
      <4>1. CASE i = idx
        BY <2>3, <2>5, <4>1
      <4>2. CASE i # idx
        BY <2>1, <2>5, <4>2 DEF Sound, EntriesDistinct
      <4> QED  BY <4>1, <4>2, Zenon
    <3>2. \A i, j \in 1 .. n : registry[i].task_id = registry[j].task_id => i = j
      BY <2>1, Zenon DEF Sound, EntriesDistinct
    <3>3. \A i, j \in 1 .. n : r[i].task_id = r[j].task_id => i = j
      BY <2>6, <3>2, Zenon
    <3> QED  BY <2>5, <3>1, <3>3, Zenon DEF EntriesDistinct
  <2>8. \A i \in 1 .. n : registry[i].task_id = registry[idx].task_id => i = idx
    BY <2>1, Zenon DEF Sound, EntriesDistinct
  <2>9. ASSUME NEW u, NEW j, NEW q, u # registry[idx].task_id
        PROVE  Holds(r, u, j, q) <=> Holds(registry, u, j, q)
    BY <2>1, <2>5, <2>6, <2>9, Zenon DEF Holds
  <2>10. \A j, q : Holds(r, registry[idx].task_id, j, q) <=> j \in 1 .. Len(new) /\ new[j] = q
    <3>1. idx \in 1 .. n
      BY <2>1, Zenon
    <3>2. Len(r) = n /\ r[idx].task_id = registry[idx].task_id /\ r[idx].queues = new
      BY <2>3, <2>5, Zenon
    <3>3. \A i \in 1 .. n : r[i].task_id = registry[idx].task_id => i = idx
      BY <2>6, <2>8, Zenon
    <3> QED  BY <3>1, <3>2, <3>3, Zenon DEF Holds
  <2>11. \A j, q : Holds(registry, registry[idx].task_id, j, q) <=>
                     j \in 1 .. Len(registry[idx].queues) /\ registry[idx].queues[j] = q
    BY <2>1, <2>8, Zenon DEF Holds
  <2> QED  BY <2>1, <2>3, <2>5, <2>7, <2>9, <2>10, <2>11, Zenon DEF Sound, Rewritten
\* memmove over the place that becomes free.
<1>MovedDownFacts.
  ASSUME NEW S, NEW s \in Seq(S), NEW k \in 1 .. Len(s), NEW r, r = MovedDown(s, k)
  PROVE  WithoutPlace(r, s, k, Len(s), S)
  <2> USE <1>MovedDownFacts
  <2>1. PICK n \in Nat : n = Len(s)
    OBVIOUS
  <2>2. PICK a, b : a = SubSeq(s, 1, k - 1) /\ b = SubSeq(s, k + 1, n)
    BY Zenon
  <2>3. a \in Seq(S) /\ Len(a) = k - 1 /\ \A i \in 1 .. k - 1 : a[i] = s[i]
    BY <2>1, <2>2
  <2>4. b \in Seq(S) /\ Len(b) = n - k /\ \A i \in 1 .. n - k : b[i] = s[k + i]
    BY <2>1, <2>2
  <2>5. r = a \o b
    BY <2>1, <2>2, Zenon DEF MovedDown
  <2>6. r \in Seq(S) /\ Len(r) = n - 1
    <3>1. a \in Seq(S) /\ Len(a) = k - 1 /\ b \in Seq(S) /\ Len(b) = n - k
      BY <2>3, <2>4, Zenon
    <3> QED  BY <2>1, <2>5, <3>1
  <2>7. \A i \in 1 .. k - 1 : r[i] = s[i]
    BY <2>1, <2>3, <2>4, <2>5
  <2>8. ASSUME NEW i \in k .. n - 1 PROVE r[i] = s[i + 1]
    <3>1. r[i] = b[i - (k - 1)]
      BY <2>1, <2>3, <2>4, <2>5
    <3>2. i - (k - 1) \in 1 .. n - k /\ k + (i - (k - 1)) = i + 1
      BY <2>1
    <3> QED  BY <2>4, <3>1, <3>2, Zenon
  <2> QED  BY <2>1, <2>6, <2>7, <2>8, Zenon DEF WithoutPlace
\* find_or_create_registry_entry.
<1>CreateFacts.
  ASSUME NEW registry, Sound(registry), Bounded(registry), NEW t \in Tasks,
         NEW r, r = find_or_create_registry_entry(registry, t)
  PROVE  /\ Sound(r) /\ Bounded(r)
         /\ \A u, j, q : Holds(r, u, j, q) <=> Holds(registry, u, j, q)
  <2> USE <1>CreateFacts
  <2>1. CASE r = registry
    BY <2>1, Zenon
  <2>2. CASE r # registry
    <3>1. PICK idx : idx = find_registry_entry(registry, t)
      BY Zenon
    <3>2. /\ idx = 0 /\ ~ (Len(registry) >= MAX_REGISTERED_TASKS)
          /\ r = Append(registry, [task_id |-> t, queues |-> <<>>])
      <4>1. PICK e : e = [task_id |-> t, queues |-> <<>>]
        BY Zenon
      <4>2. r = IF idx # 0 \/ Len(registry) >= MAX_REGISTERED_TASKS THEN registry
                ELSE Append(registry, e)
        BY <3>1, <4>1, Zenon DEF find_or_create_registry_entry
      <4> QED  BY <2>2, <4>1, <4>2, Zenon
    <3>3. \A i \in 1 .. Len(registry) : registry[i].task_id # t
      <4>1. \/ idx = 0 /\ \A i \in 1 .. Len(registry) : registry[i].task_id # t
            \/ idx \in 1 .. Len(registry)
        BY <3>1, <1>FindFacts, Zenon
      <4> QED  BY <3>2, <4>1
    <3>4. /\ Sound(r) /\ Len(r) = Len(registry) + 1
          /\ \A u, j, q : Holds(r, u, j, q) <=> Holds(registry, u, j, q)
          /\ \A i \in 1 .. Len(r) : (r[i] = registry[i] /\ i \in 1 .. Len(registry))
                                    \/ (i = Len(r) /\ Len(r[i].queues) = 0)
      <4>1. r = Append(registry, [task_id |-> t, queues |-> <<>>])
        BY <3>2, Zenon
      <4> HIDE <3>2
      <4>2. Sound(r) /\ Len(r) = Len(registry) + 1
        BY <3>3, <4>1, <1>NewEntryFacts, Zenon
      <4>3. \A u, j, q : Holds(r, u, j, q) <=> Holds(registry, u, j, q)
        BY <3>3, <4>1, <1>NewEntryFacts, Zenon
      <4>4. OneMore(r, registry)
        BY <3>3, <4>1, <1>NewEntryFacts, Zenon
      <4> QED  BY <4>2, <4>3, <4>4, Zenon DEF OneMore
    <3>5. MAX_TASK_QUEUES \in Nat /\ MAX_REGISTERED_TASKS \in Nat /\ Len(registry) \in Nat
      BY ServiceAssumption DEF Sound
    <3>6. ASSUME NEW i \in 1 .. Len(r) PROVE Len(r[i].queues) <= MAX_TASK_QUEUES
      <4>1. CASE r[i] = registry[i] /\ i \in 1 .. Len(registry)
        BY <4>1, Zenon DEF Bounded
      <4>2. CASE Len(r[i].queues) = 0
        BY <3>5, <4>2
      <4> QED  BY <3>4, <4>1, <4>2, Zenon
    <3>7. Bounded(r)
      BY <3>2, <3>4, <3>5, <3>6 DEF Bounded
    <3> QED  BY <3>4, <3>7, Zenon
  <2> QED  BY <2>1, <2>2, Zenon
\* register_task_queue: no queue gets another number, and none but the new one is added.
<1>RegisteredFacts.
  ASSUME NEW registry, Sound(registry), Bounded(registry), NEW t \in Tasks, NEW q \in Queues,
         NEW r, r = Registered(registry, t, q)
  PROVE  /\ Sound(r) /\ Bounded(r)
         /\ Gained(registry, r, t, q)
  <2> USE <1>RegisteredFacts
  <2>1. PICK new : new = find_or_create_registry_entry(registry, t)
    BY Zenon
  <2>2. /\ Sound(new) /\ Bounded(new)
        /\ \A u, j, p : Holds(new, u, j, p) <=> Holds(registry, u, j, p)
    BY <2>1, <1>CreateFacts, Zenon
  <2>3. CASE r = new
    BY <2>2, <2>3, Zenon DEF Gained
  <2>4. CASE r # new
    <3>1. PICK idx : idx = find_registry_entry(new, t)
      BY Zenon
    <3>2. PICK old : old = new[idx].queues
      BY Zenon
    <3>3. /\ idx # 0 /\ ~ (\E i \in DOMAIN old : old[i] = q) /\ ~ (Len(old) >= MAX_TASK_QUEUES)
          /\ r = [new EXCEPT ![idx].queues = Append(@, q)]
      BY <2>1, <2>4, <3>1, <3>2, Zenon DEF Registered
    <3>4. idx \in 1 .. Len(new) /\ new[idx].task_id = t
      BY <2>2, <3>1, <3>3, <1>FindFacts
    <3>5. PICK n \in Nat : n = Len(old)
      BY <2>2, <3>2, <3>4, EntryFields, Zenon
    <3>6. old \in Seq(Queues)
      BY <2>2, <3>2, <3>4, EntryFields, Zenon
    <3>7. PICK longer : longer = Append(old, q)
      BY Zenon
    <3>8. /\ longer \in Seq(Queues) /\ Len(longer) = n + 1 /\ longer[n + 1] = q
          /\ \A i \in 1 .. n : longer[i] = old[i]
      BY <3>5, <3>6, <3>7
    <3>9. \A i \in 1 .. n : old[i] # q
      BY <3>3, <3>5, <3>6
    <3>10. \A i, j \in 1 .. n : old[i] = old[j] => i = j
      BY <2>2, <3>2, <3>4, <3>5, Zenon DEF Sound, EntriesDistinct
    <3>11. \A i \in 1 .. n + 1 : i = n + 1 \/ i \in 1 .. n
      OBVIOUS
    <3>12. \A i, j \in 1 .. Len(longer) : longer[i] = longer[j] => i = j
      BY <3>8, <3>9, <3>10, <3>11, Zenon
    <3>13. r = Replaced(new, idx, longer)
      BY <3>2, <3>3, <3>7, Zenon DEF Replaced
    <3>14. /\ Sound(r) /\ Len(r) = Len(new)
           /\ \A i \in 1 .. Len(new) \ {idx} : r[i] = new[i]
           /\ r[idx].queues = longer
           /\ \A u, j, p : u # t => (Holds(r, u, j, p) <=> Holds(new, u, j, p))
           /\ \A j, p : Holds(r, t, j, p) <=> j \in 1 .. n + 1 /\ longer[j] = p
           /\ \A j, p : Holds(new, t, j, p) <=> j \in 1 .. n /\ old[j] = p
      <4>1. Sound(r) /\ Rewritten(r, new, idx, longer)
        BY <2>2, <3>4, <3>8, <3>12, <3>13, <1>QueuesReplaced, Zenon
      <4> QED  BY <3>2, <3>4, <3>5, <3>8, <4>1, Zenon DEF Rewritten
    <3>15. Bounded(r)
      <4>1. MAX_TASK_QUEUES \in Nat
        BY ServiceAssumption, Zenon
      <4>2. Len(longer) <= MAX_TASK_QUEUES
        BY <3>3, <3>5, <3>8, <4>1
      <4>3. \A i \in 1 .. Len(new) : Len(r[i].queues) <= MAX_TASK_QUEUES
        BY <2>2, <3>14, <4>2, Zenon DEF Bounded
      <4> QED  BY <2>2, <3>14, <4>3, Zenon DEF Bounded
    <3>16. \A j \in 1 .. n : j \in 1 .. n + 1
      OBVIOUS
    <3>17. \A u, j, p : Holds(new, u, j, p) => Holds(r, u, j, p)
      <4>1. TAKE u, j, p
      <4>2. HAVE Holds(new, u, j, p)
      <4>3. CASE u = t
        <5>1. j \in 1 .. n /\ old[j] = p
          BY <3>14, <4>2, <4>3, Zenon
        <5>2. j \in 1 .. n + 1 /\ longer[j] = p
          BY <3>8, <3>16, <5>1, Zenon
        <5> QED  BY <3>14, <4>3, <5>2, Zenon
      <4>4. CASE u # t
        BY <3>14, <4>2, <4>4, Zenon
      <4> QED  BY <4>3, <4>4, Zenon
    <3>18. \A u, j, p : Holds(r, u, j, p) => Holds(new, u, j, p) \/ (u = t /\ p = q)
      <4>1. TAKE u, j, p
      <4>2. HAVE Holds(r, u, j, p)
      <4>3. CASE u = t
        <5>1. j \in 1 .. n + 1 /\ longer[j] = p
          BY <3>14, <4>2, <4>3, Zenon
        <5>2. CASE j \in 1 .. n
          <6>1. old[j] = p
            BY <3>8, <5>1, <5>2, Zenon
          <6> QED  BY <3>14, <4>3, <5>2, <6>1, Zenon
        <5>3. CASE j = n + 1
          BY <3>8, <4>3, <5>1, <5>3, Zenon
        <5> QED  BY <3>11, <5>1, <5>2, <5>3, Zenon
      <4>4. CASE u # t
        BY <3>14, <4>2, <4>4, Zenon
      <4> QED  BY <4>3, <4>4, Zenon
    <3>19. \A u, j, p : Holds(registry, u, j, p) => Holds(r, u, j, p)
      BY <2>2, <3>17, Zenon
    <3>20. \A u, j, p : Holds(r, u, j, p) => Holds(registry, u, j, p) \/ (u = t /\ p = q)
      <4>1. TAKE u, j, p
      <4>2. HAVE Holds(r, u, j, p)
      <4>3. Holds(new, u, j, p) \/ (u = t /\ p = q)
        BY <3>18, <4>2, SMT
      <4>4. Holds(new, u, j, p) => Holds(registry, u, j, p)
        BY <2>2, Zenon
      <4> QED  BY <4>3, <4>4, Zenon
    <3> QED  BY <3>14, <3>15, <3>19, <3>20, Zenon DEF Gained
  <2> QED  BY <2>3, <2>4, Zenon
\* register_task_queue: with room the queue is registered.
<1>RoomFacts.
  ASSUME NEW registry, Sound(registry), Bounded(registry), NEW t \in Tasks, NEW q \in Queues,
         HasRoom(registry, t), NEW r, r = Registered(registry, t, q)
  PROVE  \E j : Holds(r, t, j, q)
  <2> USE <1>RoomFacts
  <2>1. PICK new : new = find_or_create_registry_entry(registry, t)
    BY Zenon
  <2>2. Sound(new)
    BY <2>1, <1>CreateFacts, Zenon
  <2>3. PICK was : was = find_registry_entry(registry, t)
    BY Zenon
  <2>4. PICK idx : idx = find_registry_entry(new, t)
    BY Zenon
  <2>5. PICK old : old = new[idx].queues
    BY Zenon
  <2>6. /\ idx \in 1 .. Len(new) /\ new[idx].task_id = t
        /\ ~ (Len(old) >= MAX_TASK_QUEUES)
    <3>1. MAX_TASK_QUEUES \in Nat \ {0} /\ MAX_REGISTERED_TASKS \in Nat /\ Len(registry) \in Nat
      BY ServiceAssumption DEF Sound
    <3>2. CASE was # 0
      <4>1. new = registry /\ idx = was
        BY <2>1, <2>3, <2>4, <3>2, Zenon DEF find_or_create_registry_entry
      <4>2. Len(registry[was].queues) < MAX_TASK_QUEUES
        BY <2>3, <3>2, Zenon DEF HasRoom
      <4>3. idx \in 1 .. Len(new) /\ new[idx].task_id = t
        BY <2>3, <3>2, <4>1, <1>FindFacts, Zenon
      <4>4. Len(old) \in Nat
        BY <2>2, <2>5, <4>3, EntryFields, Zenon
      <4> QED  BY <2>5, <3>1, <4>1, <4>2, <4>3, <4>4
    <3>3. CASE was = 0
      <4>1. Len(registry) < MAX_REGISTERED_TASKS
        BY <2>3, <3>3, Zenon DEF HasRoom
      <4>2. ~ (Len(registry) >= MAX_REGISTERED_TASKS)
        BY <3>1, <4>1
      <4>3. PICK e : e = [task_id |-> t, queues |-> <<>>]
        BY Zenon
      <4>4. new = Append(registry, e)
        BY <2>1, <2>3, <3>3, <4>2, <4>3, Zenon DEF find_or_create_registry_entry
      <4>5. PICK n \in Nat : n = Len(registry)
        BY <3>1, Zenon
      <4>6. e.task_id = t /\ Len(e.queues) = 0 /\ e \in Entries
        BY <4>3 DEF Entries
      <4>7. Len(new) = n + 1 /\ new[n + 1] = e /\ n + 1 \in 1 .. n + 1
        BY <4>4, <4>5, <4>6 DEF Sound
      <4>8. idx = n + 1
        <5>1. \/ idx = 0 /\ \A i \in 1 .. Len(new) : new[i].task_id # t
              \/ \A i \in 1 .. Len(new) : new[i].task_id = t => i = idx
          BY <2>2, <2>4, <1>FindFacts, Zenon
        <5> QED  BY <4>6, <4>7, <5>1, Zenon
      <4> QED  BY <2>5, <3>1, <4>6, <4>7, <4>8
    <3> QED  BY <3>2, <3>3, Zenon
  <2>7. old \in Seq(Queues) /\ Len(old) \in Nat /\ DOMAIN old = 1 .. Len(old)
    <3>1. old \in Seq(Queues)
      BY <2>2, <2>5, <2>6, EntryFields, Zenon
    <3> QED  BY <3>1
  <2>8. CASE \E i \in DOMAIN old : old[i] = q
    <3>1. r = new
      BY <2>1, <2>4, <2>5, <2>8, Zenon DEF Registered
    <3> QED  BY <2>5, <2>6, <2>7, <2>8, <3>1, Zenon DEF Holds
  <2>9. CASE ~ \E i \in DOMAIN old : old[i] = q
    <3>1. idx # 0
      BY <2>6
    <3>2. r = [new EXCEPT ![idx].queues = Append(@, q)]
      BY <2>1, <2>4, <2>5, <2>6, <2>9, <3>1, Zenon DEF Registered
    <3>3. PICK longer : longer = Append(old, q)
      BY Zenon
    <3>4. /\ longer[Len(old) + 1] = q /\ Len(old) + 1 \in 1 .. Len(longer)
      BY <2>7, <3>3
    <3>5. /\ Len(r) = Len(new) /\ r[idx].task_id = t /\ r[idx].queues = longer
      <4>1. new[idx] \in Entries
        BY <2>2, <2>6, EntryFields, Zenon
      <4>2. PICK e : e = [new[idx] EXCEPT !.queues = longer]
        BY Zenon
      <4>3. e.task_id = t /\ e.queues = longer
        BY <2>6, <4>1, <4>2, Zenon DEF Entries
      <4>4. r = [new EXCEPT ![idx] = e]
        BY <2>5, <3>2, <3>3, <4>2, Zenon
      <4>5. r[idx] = e /\ Len(r) = Len(new)
        BY <2>2, <2>6, <4>4 DEF Sound
      <4> QED  BY <4>3, <4>5, Zenon
    <3> QED  BY <2>6, <3>4, <3>5, Zenon DEF Holds
  <2> QED  BY <2>8, <2>9, Zenon
\* unregister_task_queue: that queue goes, and a task's first queue stays its first.
<1>UnregisteredFacts.
  ASSUME NEW registry, Sound(registry), Bounded(registry), NEW t, NEW q,
         NEW r, r = Unregistered(registry, t, q)
  PROVE  /\ Sound(r) /\ Bounded(r)
         /\ Lost(registry, r, t, q)
  <2> USE <1>UnregisteredFacts
  <2>1. PICK idx : idx = find_registry_entry(registry, t)
    BY Zenon
  <2>2. \/ idx = 0 /\ \A i \in 1 .. Len(registry) : registry[i].task_id # t
        \/ /\ idx \in 1 .. Len(registry) /\ registry[idx].task_id = t
           /\ \A i \in 1 .. Len(registry) : registry[i].task_id = t => i = idx
    BY <2>1, <1>FindFacts, Zenon
  <2>3. PICK old : old = registry[idx].queues
    BY Zenon
  <2>4. PICK found : found = {i \in DOMAIN old : old[i] = q}
    BY Zenon
  <2>5. r = IF idx = 0 \/ found = {} THEN registry
            ELSE [registry EXCEPT ![idx].queues = MovedDown(@, First(found))]
    BY <2>1, <2>3, <2>4, Zenon DEF Unregistered
  <2>6. CASE idx = 0 \/ found = {}
    <3>1. r = registry
      BY <2>5, <2>6, Zenon
    <3>2. ASSUME NEW j, Holds(registry, t, j, q) PROVE FALSE
      <4>1. PICK i \in 1 .. Len(registry) :
              registry[i].task_id = t /\ j \in 1 .. Len(registry[i].queues) /\ registry[i].queues[j] = q
        BY <3>2, Zenon DEF Holds
      <4>2. idx # 0 /\ i = idx
        BY <2>2, <4>1
      <4>3. DOMAIN old = 1 .. Len(old)
        BY <2>3, <4>1, <4>2, EntryFields
      <4>4. j \in found
        BY <2>3, <2>4, <4>1, <4>2, <4>3, Zenon
      <4> QED  BY <2>6, <4>2, <4>4, Zenon
    <3> QED  BY <3>1, <3>2, Zenon DEF Lost
  <2>7. CASE idx # 0 /\ found # {}
    <3>1. idx \in 1 .. Len(registry) /\ registry[idx].task_id = t
      BY <2>2, <2>7, Zenon
    <3>2. old \in Seq(Queues)
      BY <2>3, <3>1, EntryFields, Zenon
    <3>3. PICK n \in Nat : n = Len(old)
      BY <3>2
    <3>4. DOMAIN old = 1 .. n
      BY <3>2, <3>3
    <3>5. found \in SUBSET Nat
      BY <2>4, <3>4
    <3>6. PICK k : k = First(found)
      BY Zenon
    <3>7. k \in 1 .. n /\ old[k] = q
      <4>1. k \in found
        BY <2>7, <3>5, <3>6, <1>FirstFacts, Zenon
      <4> QED  BY <2>4, <3>4, <4>1, Zenon
    <3>8. PICK new : new = MovedDown(old, k)
      BY Zenon
    <3>9. /\ new \in Seq(Queues) /\ Len(new) = n - 1
          /\ \A i \in 1 .. k - 1 : new[i] = old[i]
          /\ \A i \in k .. n - 1 : new[i] = old[i + 1]
      <4>1. k \in 1 .. Len(old)
        BY <3>3, <3>7, Zenon
      <4>2. WithoutPlace(new, old, k, Len(old), Queues)
        BY <3>2, <3>8, <4>1, <1>MovedDownFacts, Zenon
      <4> QED  BY <3>3, <4>2, Zenon DEF WithoutPlace
    <3>10. \A i, j \in 1 .. n : old[i] = old[j] => i = j
      BY <2>3, <3>1, <3>3, Zenon DEF Sound, EntriesDistinct
    <3>11. \A i \in 1 .. n - 1 : \E j \in 1 .. n : /\ new[i] = old[j] /\ j # k
                                                   /\ j = (IF i < k THEN i ELSE i + 1)
      <4> SUFFICES ASSUME NEW i \in 1 .. n - 1
                   PROVE  \E j \in 1 .. n : /\ new[i] = old[j] /\ j # k
                                            /\ j = (IF i < k THEN i ELSE i + 1)
        BY Zenon
      <4>1. CASE i < k
        <5>1. i \in 1 .. n /\ i # k /\ new[i] = old[i]
          BY <3>7, <3>9, <4>1
        <5> QED  BY <4>1, <5>1, Zenon
      <4>2. CASE ~ (i < k)
        <5>1. i + 1 \in 1 .. n /\ i + 1 # k /\ new[i] = old[i + 1]
          BY <3>7, <3>9, <4>2
        <5> QED  BY <4>2, <5>1, Zenon
      <4> QED  BY <4>1, <4>2, Zenon
    <3>12. \A i, j \in 1 .. Len(new) : new[i] = new[j] => i = j
      <4> SUFFICES ASSUME NEW i \in 1 .. n - 1, NEW j \in 1 .. n - 1, new[i] = new[j]
                   PROVE  i = j
        BY <3>9, Zenon
      <4>1. PICK a \in 1 .. n : new[i] = old[a] /\ a = (IF i < k THEN i ELSE i + 1)
        BY <3>11, Zenon
      <4>2. PICK b \in 1 .. n : new[j] = old[b] /\ b = (IF j < k THEN j ELSE j + 1)
        BY <3>11, Zenon
      <4>3. a = b
        BY <3>10, <4>1, <4>2, Zenon
      <4> QED  BY <3>7, <4>1, <4>2, <4>3
    <3>13. r = Replaced(registry, idx, new)
      BY <2>3, <2>5, <2>7, <3>6, <3>8, Zenon DEF Replaced
    <3>14. Sound(r) /\ Rewritten(r, registry, idx, new)
      BY <3>1, <3>9, <3>12, <3>13, <1>QueuesReplaced, Zenon
    <3>15. /\ \A u, j, p : u # t => (Holds(r, u, j, p) <=> Holds(registry, u, j, p))
           /\ \A j, p : Holds(r, t, j, p) <=> j \in 1 .. n - 1 /\ new[j] = p
           /\ \A j, p : Holds(registry, t, j, p) <=> j \in 1 .. n /\ old[j] = p
      BY <2>3, <3>1, <3>3, <3>9, <3>14, Zenon DEF Rewritten
    <3>16. Bounded(r)
      <4>1. MAX_TASK_QUEUES \in Nat /\ n <= MAX_TASK_QUEUES
        BY <2>3, <3>1, <3>3, ServiceAssumption, Zenon DEF Bounded
      <4>2. Len(new) <= MAX_TASK_QUEUES
        BY <3>9, <4>1
      <4>3. \A i \in 1 .. Len(registry) : Len(r[i].queues) <= MAX_TASK_QUEUES
        BY <3>14, <4>2, Zenon DEF Bounded, Rewritten
      <4> QED  BY <3>14, <4>3, Zenon DEF Bounded, Rewritten
    <3>17. \A i \in 1 .. n - 1 : new[i] # q
      BY <3>7, <3>10, <3>11, Zenon
    <3>18. \A j : ~ Holds(r, t, j, q)
      BY <3>15, <3>17, Zenon
    <3>19. ASSUME NEW u, NEW j, NEW p, Holds(r, u, j, p) PROVE \E i : Holds(registry, u, i, p)
      <4>1. CASE u = t
        <5>1. j \in 1 .. n - 1 /\ new[j] = p
          BY <3>15, <3>19, <4>1, Zenon
        <5>2. PICK i \in 1 .. n : new[j] = old[i]
          BY <3>11, <5>1, Zenon
        <5> QED  BY <3>15, <4>1, <5>1, <5>2, Zenon
      <4>2. CASE u # t
        BY <3>15, <3>19, <4>2, Zenon
      <4> QED  BY <4>1, <4>2, Zenon
    <3>20. ASSUME NEW u, NEW j, NEW p, Holds(registry, u, j, p), ~ (u = t /\ p = q)
           PROVE  \E i : Holds(r, u, i, p) /\ (j = 1 => i = 1)
      <4>1. CASE u = t
        <5>1. j \in 1 .. n /\ old[j] = p /\ j # k
          BY <3>7, <3>15, <3>20, <4>1, Zenon
        <5>2. CASE j < k
          <6>1. j \in 1 .. n - 1 /\ new[j] = p
            BY <3>7, <3>9, <5>1, <5>2
          <6> QED  BY <3>15, <4>1, <6>1, Zenon
        <5>3. CASE ~ (j < k)
          <6>1. j - 1 \in 1 .. n - 1 /\ new[j - 1] = p /\ j # 1
            BY <3>7, <3>9, <5>1, <5>3
          <6> QED  BY <3>15, <4>1, <6>1, Zenon
        <5> QED  BY <5>2, <5>3, Zenon
      <4>2. CASE u # t
        BY <3>15, <3>20, <4>2, Zenon
      <4> QED  BY <4>1, <4>2, Zenon
    <3>21. \A u, p : Holds(registry, u, 1, p) /\ ~ (u = t /\ p = q) => Holds(r, u, 1, p)
      BY <3>20, Zenon
    <3>22. \A u, j, p : Holds(registry, u, j, p) /\ ~ (u = t /\ p = q) => \E i : Holds(r, u, i, p)
      BY <3>20, Zenon
    <3> QED  BY <3>14, <3>16, <3>18, <3>19, <3>21, <3>22, Zenon DEF Lost
  <2> QED  BY <2>6, <2>7, Zenon
\* cleanup_task_queues: the entry of the task goes, the others stay.
<1>WithoutEntryFacts.
  ASSUME NEW registry, Sound(registry), Bounded(registry), NEW t,
         NEW r, r = WithoutEntry(registry, t)
  PROVE  /\ Sound(r) /\ Bounded(r)
         /\ \A u, j, p : Holds(r, u, j, p) <=> Holds(registry, u, j, p) /\ u # t
  <2> USE <1>WithoutEntryFacts
  <2>1. PICK idx : idx = find_registry_entry(registry, t)
    BY Zenon
  <2>2. \/ idx = 0 /\ \A i \in 1 .. Len(registry) : registry[i].task_id # t
        \/ /\ idx \in 1 .. Len(registry) /\ registry[idx].task_id = t
           /\ \A i \in 1 .. Len(registry) : registry[i].task_id = t => i = idx
    BY <2>1, <1>FindFacts, Zenon
  <2>3. r = IF idx = 0 THEN registry ELSE MovedDown(registry, idx)
    BY <2>1, Zenon DEF WithoutEntry
  <2>4. CASE idx = 0
    <3>1. r = registry /\ \A i \in 1 .. Len(registry) : registry[i].task_id # t
      BY <2>2, <2>3, <2>4
    <3>2. \A u, j, p : Holds(registry, u, j, p) => u # t
      BY <3>1, Zenon DEF Holds
    <3> QED  BY <3>1, <3>2, Zenon
  <2>5. CASE idx # 0
    <3>1. /\ idx \in 1 .. Len(registry) /\ registry[idx].task_id = t /\ r = MovedDown(registry, idx)
          /\ \A i \in 1 .. Len(registry) : registry[i].task_id = t => i = idx
      BY <2>2, <2>3, <2>5, Zenon
    <3>2. PICK n \in Nat : n = Len(registry)
      BY DEF Sound
    <3>3. /\ r \in Seq(Entries) /\ Len(r) = n - 1
          /\ \A i \in 1 .. idx - 1 : r[i] = registry[i]
          /\ \A i \in idx .. n - 1 : r[i] = registry[i + 1]
      <4>1. registry \in Seq(Entries)
        BY Zenon DEF Sound
      <4>2. WithoutPlace(r, registry, idx, Len(registry), Entries)
        BY <3>1, <4>1, <1>MovedDownFacts, Zenon
      <4> QED  BY <3>2, <4>2, Zenon DEF WithoutPlace
    <3>4. \A i \in 1 .. n - 1 : \E j \in 1 .. n : /\ r[i] = registry[j] /\ j # idx
                                                  /\ j = (IF i < idx THEN i ELSE i + 1)
      <4> SUFFICES ASSUME NEW i \in 1 .. n - 1
                   PROVE  \E j \in 1 .. n : /\ r[i] = registry[j] /\ j # idx
                                            /\ j = (IF i < idx THEN i ELSE i + 1)
        BY Zenon
      <4>1. CASE i < idx
        <5>1. i \in 1 .. n /\ i # idx /\ r[i] = registry[i]
          BY <3>1, <3>2, <3>3, <4>1
        <5> QED  BY <4>1, <5>1, Zenon
      <4>2. CASE ~ (i < idx)
        <5>1. i + 1 \in 1 .. n /\ i + 1 # idx /\ r[i] = registry[i + 1]
          BY <3>1, <3>2, <3>3, <4>2
        <5> QED  BY <4>2, <5>1, Zenon
      <4> QED  BY <4>1, <4>2, Zenon
    <3>5. \A j \in 1 .. n : j # idx => \E i \in 1 .. n - 1 : r[i] = registry[j]
      <4> SUFFICES ASSUME NEW j \in 1 .. n, j # idx PROVE \E i \in 1 .. n - 1 : r[i] = registry[j]
        BY Zenon
      <4>1. CASE j < idx
        <5>1. j \in 1 .. n - 1 /\ r[j] = registry[j]
          BY <3>1, <3>2, <3>3, <4>1
        <5> QED  BY <5>1, Zenon
      <4>2. CASE ~ (j < idx)
        <5>1. j - 1 \in 1 .. n - 1 /\ r[j - 1] = registry[j]
          BY <3>1, <3>2, <3>3, <4>2
        <5> QED  BY <5>1, Zenon
      <4> QED  BY <4>1, <4>2, Zenon
    <3>6. EntriesDistinct(r)
      <4>1. ASSUME NEW i \in 1 .. n - 1, NEW j \in 1 .. n - 1, r[i].task_id = r[j].task_id
            PROVE  i = j
        <5>1. PICK a \in 1 .. n : r[i] = registry[a] /\ a = (IF i < idx THEN i ELSE i + 1)
          BY <3>4, Zenon
        <5>2. PICK b \in 1 .. n : r[j] = registry[b] /\ b = (IF j < idx THEN j ELSE j + 1)
          BY <3>4, Zenon
        <5>3. a = b
          BY <3>2, <4>1, <5>1, <5>2, Zenon DEF Sound, EntriesDistinct
        <5> QED  BY <3>1, <5>1, <5>2, <5>3
      <4>2. ASSUME NEW i \in 1 .. n - 1
            PROVE  \A j, k \in 1 .. Len(r[i].queues) : r[i].queues[j] = r[i].queues[k] => j = k
        <5>1. PICK a \in 1 .. n : r[i] = registry[a]
          BY <3>4, Zenon
        <5>2. \A j, k \in 1 .. Len(registry[a].queues) :
                registry[a].queues[j] = registry[a].queues[k] => j = k
          BY <3>2, Zenon DEF Sound, EntriesDistinct
        <5> QED  BY <5>1, <5>2, Zenon
      <4> QED  BY <3>3, <4>1, <4>2, Zenon DEF EntriesDistinct
    <3>7. Bounded(r)
      <4>1. ASSUME NEW i \in 1 .. n - 1 PROVE Len(r[i].queues) <= MAX_TASK_QUEUES
        <5>1. PICK a \in 1 .. n : r[i] = registry[a]
          BY <3>4, Zenon
        <5> QED  BY <3>2, <5>1, Zenon DEF Bounded
      <4>2. n - 1 <= MAX_REGISTERED_TASKS
        BY <3>2, ServiceAssumption DEF Bounded
      <4> QED  BY <3>3, <4>1, <4>2, Zenon DEF Bounded
    <3>8. ASSUME NEW u, NEW j, NEW p, Holds(r, u, j, p) PROVE Holds(registry, u, j, p) /\ u # t
      <4>1. PICK i \in 1 .. n - 1 :
              r[i].task_id = u /\ j \in 1 .. Len(r[i].queues) /\ r[i].queues[j] = p
        BY <3>3, <3>8, Zenon DEF Holds
      <4>2. PICK a \in 1 .. n : r[i] = registry[a] /\ a # idx
        BY <3>4, Zenon
      <4> QED  BY <3>1, <3>2, <4>1, <4>2, Zenon DEF Holds
    <3>9. ASSUME NEW u, NEW j, NEW p, Holds(registry, u, j, p), u # t PROVE Holds(r, u, j, p)
      <4>1. PICK a \in 1 .. n : registry[a].task_id = u /\ j \in 1 .. Len(registry[a].queues)
                                /\ registry[a].queues[j] = p
        BY <3>2, <3>9, Zenon DEF Holds
      <4>2. PICK i \in 1 .. n - 1 : r[i] = registry[a]
        BY <3>1, <3>5, <3>9, <4>1, Zenon
      <4> QED  BY <3>3, <4>1, <4>2, Zenon DEF Holds
    <3> QED  BY <3>3, <3>6, <3>7, <3>8, <3>9, Zenon DEF Sound
  <2> QED  BY <2>4, <2>5, Zenon
  
<1>1. LookupWorks
  BY <1>DefaultFacts, Zenon DEF LookupWorks
<1>2. RegisterWorks
  BY <1>RegisteredFacts, <1>RoomFacts, Zenon DEF RegisterWorks
<1>3. UnregisterWorks
  BY <1>UnregisteredFacts, Zenon DEF UnregisterWorks
<1>4. CleanupWorks
  BY <1>WithoutEntryFacts, Zenon DEF CleanupWorks
<1> QED  BY <1>1, <1>2, <1>3, <1>4, Zenon

-----------------------------------------------------------------------------
(* The rings. *)

\* The place k steps from place h of a ring with b places.
Place(h, k, b) == (h + k) % b

\* Head, tail and size agree, and the places between head and tail are the used ones.
Whole(Q) ==
  /\ Q.tail = Place(Q.head, Q.current_size, Q.max_size)
  /\ \A i \in 0 .. Q.max_size - 1 : At(Q, i) # NoMessage <=> i < Q.current_size

\* The fields of a queue.
LEMMA RingFields ==
  ASSUME NEW max \in Nat \ {0}, NEW Q \in Rings(max)
  PROVE  /\ Q.max_size = max /\ Q.messages \in [0 .. max - 1 -> Messages \union {NoMessage}]
         /\ Q.head \in 0 .. max - 1 /\ Q.tail \in 0 .. max - 1 /\ Q.current_size \in 0 .. max
         /\ Q.msg_available \in 0 .. max /\ Q.space_available \in 0 .. max
BY Zenon DEF Rings

\* The ring without its first message.
Taken(Q) ==
  [Q EXCEPT !.messages[Q.head] = NoMessage, !.head = (@ + 1) % Q.max_size,
            !.current_size = @ - 1]

\* Two queues that differ in their semaphores only.
SameRing(Q, R) ==
  /\ R.max_size = Q.max_size /\ R.messages = Q.messages
  /\ R.head = Q.head /\ R.tail = Q.tail /\ R.current_size = Q.current_size

\* The semaphores are not part of the ring.
LEMMA SameRingFacts ==
  ASSUME NEW Q, NEW R, SameRing(Q, R)
  PROVE  /\ Whole(Q) => Whole(R)
         /\ \A i : At(R, i) = At(Q, i)
         /\ Contents(R) = Contents(Q) /\ R.current_size = Q.current_size
<1>1. \A i : At(R, i) = At(Q, i)
  BY Zenon DEF At, SameRing
<1>2. Whole(Q) => Whole(R)
  BY <1>1, Zenon DEF Whole, SameRing
<1>3. Contents(R) = Contents(Q)
  BY <1>1, Zenon DEF Contents, SameRing
<1> QED  BY <1>1, <1>2, <1>3, Zenon DEF SameRing

\* The list r is the list s with m behind its first n messages.
Insertion(r, s, n, m) ==
  /\ r \in Seq(Messages) /\ Len(r) = Len(s) + 1
  /\ \A i \in 1 .. n : r[i] = s[i]
  /\ r[n + 1] = m
  /\ \A i \in n + 2 .. Len(s) + 1 : r[i] = s[i - 1]

\* Where a message is put: in front when it is urgent, else in front of lower priorities
\* only, and of all of them at the end when its own is high.
PutBehind(s, m, k) ==
  IF m.urgent THEN k = 0
  ELSE /\ \A i \in k + 1 .. Len(s) : s[i].priority < m.priority
       /\ m.priority >= List!HIGH /\ k > 0 => s[k].priority >= m.priority

\* What a send does to a ring with n messages that is not full.
PutResult(Q, R, m, n, max) ==
  /\ R \in Rings(max) /\ Whole(R) /\ R.current_size = n + 1
  /\ R.space_available = Q.space_available
  /\ R.msg_available = IF Q.msg_available < max THEN Q.msg_available + 1 ELSE max
  /\ \E k \in 0 .. n : /\ Contents(R) = List!Inserted(Contents(Q), k, m)
                       /\ PutBehind(Contents(Q), m, k)

\* What a send does to a full ring.
PutFullResult(Q, R, max) ==
  /\ R \in Rings(max) /\ Whole(R) /\ R.current_size = max
  /\ R.msg_available = Q.msg_available
  /\ R.space_available = IF Q.space_available < max THEN Q.space_available + 1 ELSE max
  /\ Contents(R) = Contents(Q)

\* What a receive does to a ring with n messages.
TakeResult(Q, R, n, max) ==
  /\ R \in Rings(max) /\ Whole(R) /\ R.current_size = n - 1
  /\ R.msg_available = Q.msg_available
  /\ R.space_available = IF Q.space_available < max THEN Q.space_available + 1 ELSE max
  /\ Contents(Q) # <<>> /\ Contents(R) = Tail(Contents(Q))

\* What a receive does to an empty ring.
TakeEmptyResult(Q, R, max) ==
  /\ R \in Rings(max) /\ Whole(R) /\ R.current_size = 0
  /\ R.msg_available = IF Q.msg_available < max THEN Q.msg_available + 1 ELSE max
  /\ R.space_available = Q.space_available
  /\ Contents(R) = Contents(Q)

\* What is kept of a list, up to position n.
Keeps(w, s, t, n) ==
  /\ w = [i \in 0 .. n |-> w[i]]
  /\ w[0] = <<>>
  /\ \A i \in 1 .. n : w[i] = IF t \in {s[i].sender, s[i].receiver} THEN w[i - 1]
                              ELSE Append(w[i - 1], s[i])

\* This recursion has a result, for a list of any length.
LEMMA KeepsExists ==
  ASSUME NEW s, NEW t, NEW n \in Nat
  PROVE  \E w : Keeps(w, s, t, n)
<1> DEFINE Bad == {m \in Nat : ~ \E w : Keeps(w, s, t, m)}
           Next1(w, i) == IF t \in {s[i].sender, s[i].receiver} THEN w[i - 1]
                          ELSE Append(w[i - 1], s[i])
<1> SUFFICES ASSUME Bad # {} PROVE FALSE
  BY Zenon
<1>1. PICK m \in Bad : \A r \in Bad : m <= r
  BY LeastExists, Zenon
<1>2. m # 0
  <2>1. Keeps([i \in 0 .. 0 |-> <<>>], s, t, 0)
    BY DEF Keeps
  <2> QED  BY <1>1, <2>1, Zenon
<1>3. m \in Nat \ {0} /\ m - 1 \in Nat /\ m - 1 \notin Bad
  BY <1>1, <1>2
<1>4. PICK w : Keeps(w, s, t, m - 1)
  BY <1>3, Zenon
<1> DEFINE v == [i \in 0 .. m |-> IF i = m THEN Next1(w, m) ELSE w[i]]
<1>5. /\ v = [i \in 0 .. m |-> v[i]] /\ \A i \in 0 .. m - 1 : v[i] = w[i]
      /\ v[m] = Next1(w, m)
  <2> HIDE DEF Next1
  <2> QED  BY <1>3
<1> HIDE DEF v
<1>6. Keeps(v, s, t, m)
  <2>1. v[0] = <<>>
    <3>1. 0 \in 0 .. m - 1
      BY <1>3
    <3> QED  BY <1>4, <1>5, <3>1, Zenon DEF Keeps
  <2>2. ASSUME NEW i \in 1 .. m PROVE v[i] = Next1(v, i)
    <3>1. CASE i = m
      <4>0. m - 1 \in 0 .. m - 1
        BY <1>3
      <4>1. v[m - 1] = w[m - 1]
        BY <1>5, <4>0, Zenon
      <4> QED  BY <1>5, <3>1, <4>1, Zenon
    <3>2. CASE i # m
      <4>1. i \in 1 .. m - 1 /\ i \in 0 .. m - 1 /\ i - 1 \in 0 .. m - 1
        BY <1>3, <3>2
      <4>2. w[i] = Next1(w, i)
        BY <1>4, <4>1, Zenon DEF Keeps
      <4> QED  BY <1>5, <4>1, <4>2, Zenon
    <3> QED  BY <3>1, <3>2, Zenon
  <2> QED  BY <1>5, <2>1, <2>2, Zenon DEF Keeps
<1> QED  BY <1>1, <1>6, Zenon

\* MessageList: the messages that stay when a task ends.
LEMMA OthersFacts ==
  ASSUME NEW s, NEW t, NEW n \in Nat, n = Len(s)
  PROVE  \E w : Keeps(w, s, t, n) /\ List!Others(s, t) = w[n]
<1> DEFINE kept[i \in 0 .. Len(s)] ==
             IF i = 0 THEN <<>>
             ELSE IF t \in {s[i].sender, s[i].receiver} THEN kept[i - 1]
             ELSE Append(kept[i - 1], s[i])
           Def(f) == [i \in 0 .. Len(s) |->
                        IF i = 0 THEN <<>>
                        ELSE IF t \in {s[i].sender, s[i].receiver} THEN f[i - 1]
                        ELSE Append(f[i - 1], s[i])]
<1>1. PICK w : Keeps(w, s, t, Len(s))
  BY KeepsExists, Zenon
<1>2. w = Def(w)
  <2>1. w = [i \in 0 .. Len(s) |-> w[i]]
    BY <1>1, Zenon DEF Keeps
  <2>2. \A i \in 0 .. Len(s) : i # 0 => i \in 1 .. Len(s)
    OBVIOUS
  <2>3. \A i \in 0 .. Len(s) : w[i] = Def(w)[i]
    BY <1>1, <2>2, Zenon DEF Keeps
  <2> QED  BY <2>1, <2>3, Zenon
<1>3. kept = CHOOSE f : f = Def(f)
  BY Zenon DEF kept
<1>4. kept = Def(kept)
  BY <1>2, <1>3, Zenon
<1>5. List!Others(s, t) = kept[Len(s)]
  BY Zenon DEF List!Others
<1> HIDE DEF kept
<1>6. kept = [i \in 0 .. Len(s) |-> kept[i]] /\ kept[0] = <<>>
  <2>1. 0 \in 0 .. Len(s)
    OBVIOUS
  <2> QED  BY <1>4, <2>1, Zenon
<1>7. \A i \in 1 .. Len(s) : i \in 0 .. Len(s) /\ i # 0
  OBVIOUS
<1>8. \A i \in 1 .. Len(s) : kept[i] = IF t \in {s[i].sender, s[i].receiver} THEN kept[i - 1]
                                       ELSE Append(kept[i - 1], s[i])
  BY <1>4, <1>7, Zenon
<1>9. Keeps(kept, s, t, Len(s))
  BY <1>6, <1>8, Zenon DEF Keeps
<1> QED  BY <1>5, <1>9, Zenon

\* The turns of the loop of cleanup_task_messages, up to turn n.
Turns(w, Q, pid, n) ==
  /\ w = [i \in 0 .. n |-> w[i]]
  /\ w[0] = [q |-> Q, j |-> 0]
  /\ \A i \in 1 .. n : w[i] = Turn(w[i - 1], pid)

\* After n turns over a queue Q that held the list c, of which k is kept: the first
\* messages are those of k, the others those that have yet to be looked at.
Searched(S, k, Q, c, n) ==
  /\ k \in Seq(Messages) /\ Len(k) <= n /\ S.j = Len(k)
  /\ S.q \in Rings(Q.max_size) /\ Whole(S.q)
  /\ S.q.current_size = Len(k) + Len(c) - n
  /\ \A i \in 1 .. Len(k) : At(S.q, i - 1) = k[i]
  /\ \A i \in n + 1 .. Len(c) : At(S.q, Len(k) + i - n - 1) = c[i]
  /\ Len(k) = n => \A i \in 1 .. n : k[i] = c[i]

\* What the end of a task does to a ring.
CleanResult(Q, R, pid, max) ==
  /\ R \in Rings(max) /\ Whole(R)
  /\ Contents(R) = List!Others(Contents(Q), pid)
  /\ R.current_size = Q.current_size => R = Q
  /\ R.current_size # Q.current_size =>
       R.msg_available = R.current_size /\ R.space_available = max - R.current_size

\* A ring that is whole has its messages from the head on.
ContentsWork ==
  \A max \in Nat \ {0}, n \in Nat : \A Q \in Rings(max) :
    Whole(Q) /\ Q.current_size = n =>
      /\ Contents(Q) \in Seq(Messages) /\ Len(Contents(Q)) = n
      /\ \A i \in 1 .. n : Contents(Q)[i] = At(Q, i - 1)

\* create_message_queue.
CreateWorks ==
  \A max \in Nat \ {0} :
    /\ NewQueue(max) \in Rings(max) /\ Whole(NewQueue(max))
    /\ Contents(NewQueue(max)) = <<>>

\* A send to a ring that is not full.
PutWorks ==
  \A max \in Nat \ {0}, m \in Messages : \A n \in 0 .. max - 1, Q \in Rings(max) : \A R :
    Whole(Q) /\ Q.current_size = n /\ R = PutMessage(Q, m) => PutResult(Q, R, m, n, max)

\* A send to a full ring.
PutFullWorks ==
  \A max \in Nat \ {0} : \A Q \in Rings(max) : \A m, R :
    Whole(Q) /\ Q.current_size = max /\ R = PutMessage(Q, m) => PutFullResult(Q, R, max)

\* A receive from a ring that is not empty.
TakeWorks ==
  \A max \in Nat \ {0} : \A n \in 1 .. max, Q \in Rings(max) : \A R :
    Whole(Q) /\ Q.current_size = n /\ R = TakeMessage(Q) => TakeResult(Q, R, n, max)

\* A receive from an empty ring.
TakeEmptyWorks ==
  \A max \in Nat \ {0} : \A Q \in Rings(max) : \A R :
    Whole(Q) /\ Q.current_size = 0 /\ R = TakeMessage(Q) => TakeEmptyResult(Q, R, max)

\* The end of a task.
CleanWorks ==
  \A max \in Nat \ {0} : \A Q \in Rings(max) : \A pid, R :
    Whole(Q) /\ R = CleanQueue(Q, pid) => CleanResult(Q, R, pid, max)

\* What every operation does to a ring that is whole, as a ring and as a list.  The steps
\* up to the last are lemmas that only this proof needs.
LEMMA RingOperations ==
  /\ CreateWorks /\ ContentsWork /\ PutWorks /\ PutFullWorks
  /\ TakeWorks /\ TakeEmptyWorks /\ CleanWorks
\* It is found with one addition or subtraction.
<1>Wrap.
  ASSUME NEW b \in Nat, NEW h \in Nat, h < b, NEW k \in Int, 0 - b <= k, k <= b
  PROVE  /\ Place(h, k, b) = IF h + k < 0 THEN h + k + b
                             ELSE IF h + k < b THEN h + k ELSE h + k - b
         /\ Place(h, k, b) \in Nat /\ Place(h, k, b) < b
  <2> USE <1>Wrap
  <2>1. CASE h + k < 0
    BY <2>1 DEF Place
  <2>2. CASE 0 <= h + k /\ h + k < b
    BY <2>2 DEF Place
  <2>3. CASE b <= h + k
    BY <2>3 DEF Place
  <2> QED  BY <2>1, <2>2, <2>3
\* Steps add up, and fewer than b of them lead to different places.
<1>Steps.
  ASSUME NEW b \in Nat, NEW h \in Nat, h < b,
         NEW j \in Int, 0 - b <= j, j <= b, NEW k \in Int, 0 - b <= k, k <= b
  PROVE  /\ 0 - b <= j + k /\ j + k <= b => Place(Place(h, j, b), k, b) = Place(h, j + k, b)
         /\ Place(h, j, b) = Place(h, k, b) /\ j - k < b /\ k - j < b => j = k
  <2> USE <1>Steps
  <2>1. /\ Place(h, j, b) = IF h + j < 0 THEN h + j + b ELSE IF h + j < b THEN h + j ELSE h + j - b
        /\ Place(h, j, b) \in Nat /\ Place(h, j, b) < b
    BY <1>Wrap, Zenon
  <2>2. Place(h, k, b) = IF h + k < 0 THEN h + k + b ELSE IF h + k < b THEN h + k ELSE h + k - b
    BY <1>Wrap, Zenon
  <2>3. ASSUME 0 - b <= j + k, j + k <= b
        PROVE  Place(Place(h, j, b), k, b) = Place(h, j + k, b)
    <3> DEFINE g == Place(h, j, b)
               l == j + k
    <3>1. l \in Int /\ 0 - b <= l /\ l <= b /\ g \in Nat /\ g < b
      BY <2>1, <2>3
    <3>4. g = IF h + j < 0 THEN h + j + b ELSE IF h + j < b THEN h + j ELSE h + j - b
      BY <2>1, Zenon
    <3> HIDE DEF g, l
    <3>2. Place(g, k, b) = IF g + k < 0 THEN g + k + b ELSE IF g + k < b THEN g + k ELSE g + k - b
      BY <3>1, <1>Wrap, Zenon
    <3>3. Place(h, l, b) = IF h + l < 0 THEN h + l + b ELSE IF h + l < b THEN h + l ELSE h + l - b
      BY <3>1, <1>Wrap, Zenon
    <3>5. Place(g, k, b) = Place(h, l, b)
      BY <3>1, <3>2, <3>3, <3>4 DEF l
    <3> QED  BY <3>5, Zenon DEF g, l
  <2> QED  BY <2>1, <2>2, <2>3
\* NoMessage marks a place that holds none.
<1>NoMessageIsNone. NoMessage \notin Messages
  <2>1. Priorities \union {MESSAGE_PRIORITY_HIGH} \subseteq Nat
    BY ServiceAssumption DEF MESSAGE_PRIORITY_HIGH, MESSAGE_PRIORITY_URGENT
  <2>2. Messages \subseteq [priority : Nat, sender : Tasks, receiver : Tasks, urgent : BOOLEAN]
    BY <2>1, Zenon DEF Messages
  <2> QED  BY <2>2, ServiceAssumption, Zenon
\* A place of the ring, counted from the head.
<1>AtPlace.
  ASSUME NEW max \in Nat \ {0}, NEW Q \in Rings(max), NEW i
  PROVE  At(Q, i) = Q.messages[Place(Q.head, i, max)]
  BY RingFields, Zenon DEF At, Place
\* A queue that has just been made.
<1>NewQueueFacts.
  ASSUME NEW max \in Nat \ {0}
  PROVE  /\ NewQueue(max) \in Rings(max) /\ Whole(NewQueue(max))
         /\ Contents(NewQueue(max)) = <<>>
  <2>1. NewQueue(max) \in Rings(max)
    BY DEF NewQueue, Rings
  <2>2. /\ NewQueue(max).max_size = max /\ NewQueue(max).head = 0 /\ NewQueue(max).tail = 0
        /\ NewQueue(max).current_size = 0
        /\ \A p \in 0 .. max - 1 : NewQueue(max).messages[p] = NoMessage
    BY Zenon DEF NewQueue
  <2>3. \A i \in 0 .. max - 1 : Place(0, i, max) = i
    BY <1>Wrap
  <2>4. Whole(NewQueue(max))
    <3>1. 0 = Place(0, 0, max)
      BY <2>3
    <3>2. \A i \in 0 .. max - 1 : At(NewQueue(max), i) = NoMessage
      BY <2>1, <2>2, <2>3, <1>AtPlace, Zenon
    <3> QED  BY <2>2, <3>1, <3>2 DEF Whole
  <2>5. Contents(NewQueue(max)) = <<>>
    BY <2>2 DEF Contents
  <2> QED  BY <2>1, <2>4, <2>5, Zenon
\* The used places of a queue hold messages.
<1>UsedPlaces.
  ASSUME NEW max \in Nat \ {0}, NEW Q \in Rings(max), Whole(Q)
  PROVE  \A i \in 0 .. Q.current_size - 1 : At(Q, i) \in Messages
  <2> USE <1>UsedPlaces
  <2> SUFFICES ASSUME NEW i \in 0 .. Q.current_size - 1 PROVE At(Q, i) \in Messages
    BY Zenon
  <2>0. PICK h \in 0 .. max - 1 : Q.head = h
    BY RingFields, Zenon
  <2>1. i \in 0 .. max - 1 /\ i < Q.current_size
    BY RingFields
  <2>2. Place(h, i, max) \in 0 .. max - 1
    BY <2>1, <1>Wrap
  <2>3. At(Q, i) \in Messages \union {NoMessage}
    BY <2>0, <2>2, RingFields, <1>AtPlace
  <2>4. At(Q, i) # NoMessage
    BY <2>1, RingFields, Zenon DEF Whole
  <2> QED  BY <2>3, <2>4, Zenon
\* send_message of an urgent message: it comes in front of all others.
<1>InsertAtHeadFacts.
  ASSUME NEW max \in Nat \ {0}, NEW Q \in Rings(max), Whole(Q), Q.current_size < max,
         NEW m \in Messages, NEW R, R = InsertAtHead(Q, m)
  PROVE  /\ R \in Rings(max) /\ Whole(R) /\ R.current_size = Q.current_size + 1
         /\ R.msg_available = Q.msg_available /\ R.space_available = Q.space_available
         /\ At(R, 0) = m
         /\ \A i \in 1 .. Q.current_size : At(R, i) = At(Q, i - 1)
  <2> USE <1>InsertAtHeadFacts
  <2>1. PICK h \in 0 .. max - 1, n \in 0 .. max - 1 : Q.head = h /\ Q.current_size = n
    BY RingFields
  <2>2. PICK g \in 0 .. max - 1 : /\ g = Place(h, 0 - 1, max)
                                /\ g = IF h > 0 THEN h - 1 ELSE max - 1
    BY <1>Wrap
  <2>3. R = [Q EXCEPT !.head = g, !.messages[g] = m, !.current_size = n + 1]
    BY <2>1, <2>2, RingFields, Zenon DEF InsertAtHead
  <2>4. /\ R.max_size = max /\ R.head = g /\ R.tail = Q.tail /\ R.current_size = n + 1
        /\ R.messages = [Q.messages EXCEPT ![g] = m]
        /\ R.msg_available = Q.msg_available /\ R.space_available = Q.space_available
    BY <2>3, RingFields DEF Rings
  <2>5. R \in Rings(max)
    <3>1. [Q.messages EXCEPT ![g] = m] \in [0 .. max - 1 -> Messages \union {NoMessage}]
      BY <2>2, RingFields, Zenon
    <3>2. n + 1 \in 0 .. max
      OBVIOUS
    <3> QED  BY <2>2, <2>3, <3>1, <3>2, Zenon DEF Rings
  <2>6. At(R, 0) = m
    <3>1. Place(g, 0, max) = g
      BY <2>2, <1>Wrap
    <3> QED  BY <2>2, <2>4, <2>5, <3>1, RingFields, <1>AtPlace
  <2>7. \A i \in 1 .. max - 1 : At(R, i) = At(Q, i - 1)
    <3> SUFFICES ASSUME NEW i \in 1 .. max - 1 PROVE At(R, i) = At(Q, i - 1)
      BY Zenon
    <3>1. Place(g, i, max) = Place(h, i - 1, max)
      BY <2>2, <1>Steps
    <3>2. /\ Place(g, i, max) = IF g + i < max THEN g + i ELSE g + i - max
          /\ Place(g, i, max) \in Nat /\ Place(g, i, max) < max
      BY <1>Wrap
    <3>6. Place(g, i, max) \in 0 .. max - 1 /\ Place(g, i, max) # g
      BY <3>2
    <3>3. R.messages[Place(g, i, max)] = Q.messages[Place(h, i - 1, max)]
      BY <2>4, <3>1, <3>6, RingFields
    <3>7. At(R, i) = R.messages[Place(R.head, i, max)]
      BY <2>5, <1>AtPlace, Zenon
    <3>8. R.head = g
      BY <2>4, Zenon
    <3>4. At(R, i) = R.messages[Place(g, i, max)]
      BY <3>7, <3>8, Zenon
    <3>5. At(Q, i - 1) = Q.messages[Place(h, i - 1, max)]
      BY <2>1, <1>AtPlace, Zenon
    <3> QED  BY <3>3, <3>4, <3>5, Zenon
  <2>8. Whole(R)
    <3>1. Place(g, n + 1, max) = Place(h, n, max)
      BY <2>2, <1>Steps
    <3>2. R.tail = Place(R.head, R.current_size, max)
      BY <2>1, <2>4, <3>1, RingFields DEF Whole
    <3>3. ASSUME NEW i \in 0 .. max - 1 PROVE At(R, i) # NoMessage <=> i < n + 1
      <4>1. CASE i = 0
        BY <2>6, <4>1, <1>NoMessageIsNone
      <4>2. CASE i # 0
        <5>1. i \in 1 .. max - 1 /\ i - 1 \in 0 .. max - 1
          BY <4>2
        <5>2. At(R, i) # NoMessage <=> i - 1 < n
          BY <2>1, <2>7, <5>1, RingFields, Zenon DEF Whole
        <5> QED  BY <5>1, <5>2
      <4> QED  BY <4>1, <4>2, Zenon
    <3> QED  BY <2>4, <3>2, <3>3, Zenon DEF Whole
  <2> QED  BY <2>1, <2>4, <2>5, <2>6, <2>7, <2>8
\* Messages have priorities that can be compared.
<1>MessageFields.
  ASSUME NEW m \in Messages
  PROVE  /\ m.priority \in 0 .. 3 /\ m.priority \in Priorities \union {MESSAGE_PRIORITY_HIGH}
         /\ m.sender \in Tasks /\ m.receiver \in Tasks /\ m.urgent \in BOOLEAN
  <2>1. Priorities \union {MESSAGE_PRIORITY_HIGH} \subseteq 0 .. 3
    BY ServiceAssumption DEF MESSAGE_PRIORITY_HIGH, MESSAGE_PRIORITY_URGENT
  <2>2. /\ m.priority \in Priorities \union {MESSAGE_PRIORITY_HIGH}
        /\ m.sender \in Tasks /\ m.receiver \in Tasks /\ m.urgent \in BOOLEAN
    BY Zenon DEF Messages
  <2> QED  BY <2>1, <2>2, Zenon
\* insert_message_by_priority walks from the tail past the messages of a lower
\* priority and stops at the first other one.
<1>OvertakenFacts.
  ASSUME NEW max \in Nat \ {0}, NEW Q \in Rings(max), Whole(Q), NEW p \in 0 .. 3,
         NEW n \in Nat, n = Q.current_size, NEW c, c = Overtaken(Q, p)
  PROVE  /\ c \in 0 .. n
         /\ \A i \in n - c .. n - 1 : At(Q, i).priority < p
         /\ c > 0 => p >= MESSAGE_PRIORITY_HIGH
         /\ c < n /\ p >= MESSAGE_PRIORITY_HIGH => ~ (At(Q, n - c - 1).priority < p)
  <2> USE <1>OvertakenFacts
  <2>1. PICK h \in 0 .. max - 1, t \in 0 .. max - 1 : Q.head = h /\ Q.tail = t
    BY RingFields, Zenon
  <2>2. n \in 0 .. max /\ n \in Nat /\ t = Place(h, n, max)
    BY <2>1, RingFields, Zenon DEF Whole
  <2> DEFINE Behind(i) == Q.messages[(Q.tail - 1 - i) % Q.max_size].priority
  <2>3. \A i \in 0 .. n - 1 : Behind(i) = At(Q, n - 1 - i).priority /\ Behind(i) \in 0 .. 3
    <3> SUFFICES ASSUME NEW i \in 0 .. n - 1
                 PROVE  Behind(i) = At(Q, n - 1 - i).priority /\ Behind(i) \in 0 .. 3
      BY Zenon
    <3>0. PICK k \in Int : /\ k = 0 - 1 - i /\ 0 - max <= k /\ k <= max
                           /\ n + k = n - 1 - i /\ 0 - max <= n + k /\ n + k <= max
      BY <2>2
    <3>1. Place(t, k, max) = Place(h, n + k, max)
      BY <2>2, <3>0, <1>Steps
    <3>2. (t - 1 - i) % max = Place(t, k, max)
      BY <3>0 DEF Place
    <3>3. Q.messages[Place(h, n - 1 - i, max)] = At(Q, n - 1 - i)
      BY <2>1, <1>AtPlace, Zenon
    <3>4. n - 1 - i \in 0 .. Q.current_size - 1
      BY <2>2
    <3>5. At(Q, n - 1 - i) \in Messages
      BY <3>4, <1>UsedPlaces, Zenon
    <3>6. Behind(i) = At(Q, n - 1 - i).priority
      <4>1. Behind(i) = Q.messages[(t - 1 - i) % max].priority
        BY <2>1, RingFields, Zenon
      <4> QED  BY <3>0, <3>1, <3>2, <3>3, <4>1, Zenon
    <3> QED  BY <3>5, <3>6, <1>MessageFields, Zenon
  <2> HIDE DEF Behind
  <2> DEFINE Stops(k) == /\ \A i \in 0 .. k - 1 : Behind(i) < p
                         /\ k < n => Behind(k) >= p
  <2>4. \E k \in 0 .. n : Stops(k)
    <3> DEFINE S == {k \in 0 .. n : k < n => Behind(k) >= p}
    <3>1. S \in SUBSET Nat /\ n \in S
      BY <2>2
    <3>2. PICK k \in S : \A r \in S : k <= r
      BY <3>1, LeastExists, Zenon
    <3>3. ASSUME NEW i \in 0 .. k - 1 PROVE Behind(i) < p
      <4>1. i \in 0 .. n - 1 /\ i \notin S
        BY <2>2, <3>2
      <4>2. i < n /\ ~ (Behind(i) >= p) /\ Behind(i) \in 0 .. 3
        BY <2>3, <4>1
      <4> QED  BY <4>2
    <3> QED  BY <3>2, <3>3, Zenon
  <2>5. c = IF p \in {2, 3} THEN CHOOSE k \in 0 .. n : Stops(k) ELSE 0
    BY DEF Overtaken, MESSAGE_PRIORITY_HIGH, MESSAGE_PRIORITY_URGENT, Behind
  <2>6. CASE p \in {2, 3}
    <3>1. c \in 0 .. n /\ Stops(c)
      BY <2>4, <2>5, <2>6, Zenon
    <3>2. ASSUME NEW i \in n - c .. n - 1 PROVE At(Q, i).priority < p
      <4>1. n - 1 - i \in 0 .. c - 1 /\ n - 1 - i \in 0 .. n - 1 /\ n - 1 - (n - 1 - i) = i
        BY <2>2, <3>1
      <4> QED  BY <2>3, <3>1, <4>1, Zenon
    <3>3. ASSUME c < n PROVE ~ (At(Q, n - c - 1).priority < p)
      <4>1. c \in 0 .. n - 1 /\ n - 1 - c = n - c - 1
        BY <2>2, <3>1, <3>3
      <4> QED  BY <2>3, <3>1, <3>3, <4>1
    <3> QED  BY <2>6, <3>1, <3>2, <3>3 DEF MESSAGE_PRIORITY_HIGH
  <2>7. CASE p \notin {2, 3}
    BY <2>2, <2>5, <2>7 DEF MESSAGE_PRIORITY_HIGH
  <2> QED  BY <2>6, <2>7, Zenon
\* A step back from a place.
<1>StepFrom.
  ASSUME NEW b \in Nat, NEW h \in Nat, h < b, NEW j \in 0 .. b, NEW k \in 0 .. b, k <= j
  PROVE  (Place(h, j, b) - k) % b = Place(h, j - k, b)
  <2> USE <1>StepFrom
  <2>1. PICK l \in Int : l = 0 - k /\ 0 - b <= l /\ l <= b /\ j + l = j - k /\ 0 - b <= j + l /\ j + l <= b
    OBVIOUS
  <2>2. Place(Place(h, j, b), l, b) = Place(h, j + l, b)
    BY <2>1, <1>Steps
  <2>3. PICK g \in Nat : g = Place(h, j, b)
    BY <1>Wrap
  <2>4. Place(g, l, b) = (g - k) % b
    BY <2>1 DEF Place
  <2> QED  BY <2>1, <2>2, <2>3, <2>4, Zenon
\* A step forward from a place.
<1>StepOn.
  ASSUME NEW b \in Nat, NEW h \in Nat, h < b, NEW j \in 0 .. b - 1
  PROVE  (Place(h, j, b) + 1) % b = Place(h, j + 1, b)
  <2> USE <1>StepOn
  <2>1. Place(Place(h, j, b), 1, b) = Place(h, j + 1, b)
    BY <1>Steps
  <2> QED  BY <2>1, Zenon DEF Place
\* Different places of a ring.
<1>Apart.
  ASSUME NEW b \in Nat, NEW h \in Nat, h < b, NEW j \in 0 .. b - 1, NEW k \in 0 .. b - 1
  PROVE  Place(h, j, b) \in 0 .. b - 1 /\ (Place(h, j, b) = Place(h, k, b) => j = k)
  <2> USE <1>Apart
  <2>1. Place(h, j, b) \in Nat /\ Place(h, j, b) < b
    BY <1>Wrap
  <2>2. Place(h, j, b) = Place(h, k, b) => j = k
    BY <1>Steps
  <2> QED  BY <2>1, <2>2
\* send_message of any other message: it comes in front of the ones it overtakes.
<1>InsertByPriorityFacts.
  ASSUME NEW max \in Nat \ {0}, NEW Q \in Rings(max), Whole(Q), NEW n \in 0 .. max - 1,
         Q.current_size = n, NEW m \in Messages, NEW R, R = insert_message_by_priority(Q, m),
         NEW c \in 0 .. n, c = Overtaken(Q, m.priority)
  PROVE  /\ R \in Rings(max) /\ Whole(R) /\ R.current_size = n + 1
         /\ R.msg_available = Q.msg_available /\ R.space_available = Q.space_available
         /\ \A i \in 0 .. n - c - 1 : At(R, i) = At(Q, i)
         /\ At(R, n - c) = m
         /\ \A i \in n - c + 1 .. n : At(R, i) = At(Q, i - 1)
  <2> USE <1>InsertByPriorityFacts
  <2>1. PICK h \in 0 .. max - 1 : Q.head = h
    BY RingFields, Zenon
  <2>2. Q.tail = Place(h, n, max)
    BY <2>1, RingFields, Zenon DEF Whole
  <2> DEFINE moved == {Place(h, n - k, max) : k \in 0 .. c - 1}
             A == Q.messages
             B == [p \in 0 .. max - 1 |-> IF p = Place(h, n - c, max) THEN m
                                          ELSE IF p \in moved THEN A[(p - 1) % max] ELSE A[p]]
  <2>3. R = [Q EXCEPT !.messages = B, !.tail = Place(h, n + 1, max), !.current_size = n + 1]
    <3>1. (Q.tail - c) % max = Place(h, n - c, max)
      BY <2>2, <1>StepFrom
    <3>2. \A k \in 0 .. c - 1 : (Q.tail - k) % max = Place(h, n - k, max)
      BY <2>2, <1>StepFrom
    <3>3. {(Q.tail - k) % max : k \in 0 .. c - 1} = moved
      BY <3>2, Zenon
    <3>4. (Q.tail + 1) % max = Place(h, n + 1, max)
      BY <2>2, <1>StepOn
    <3>5. Q.max_size = max
      BY RingFields, Zenon
    <3>6. R = insert_message_by_priority(Q, m)
      BY Zenon
    <3>7. Overtaken(Q, m.priority) = c
      BY Zenon
    <3>8. Q.current_size = n
      BY Zenon
    <3> HIDE <1>InsertByPriorityFacts
    <3> HIDE DEF moved
    <3> QED  BY <3>1, <3>3, <3>4, <3>5, <3>6, <3>7, <3>8, Zenon DEF insert_message_by_priority
  <2>4. A \in [0 .. max - 1 -> Messages \union {NoMessage}]
    BY RingFields, Zenon
  <2>5. B \in [0 .. max - 1 -> Messages \union {NoMessage}]
    <3>1. \A p \in 0 .. max - 1 : (p - 1) % max \in 0 .. max - 1
      OBVIOUS
    <3> QED  BY <2>4, <3>1, Zenon
  <2>6. Place(h, n + 1, max) \in 0 .. max - 1 /\ n + 1 \in 0 .. max
    BY <1>Wrap
  <2>7. \A i \in 0 .. max - 1 :
          B[Place(h, i, max)] = IF i = n - c THEN m
                                ELSE IF i \in n - c + 1 .. n THEN A[Place(h, i - 1, max)]
                                ELSE A[Place(h, i, max)]
    <3> SUFFICES ASSUME NEW i \in 0 .. max - 1
                 PROVE  B[Place(h, i, max)] = IF i = n - c THEN m
                                ELSE IF i \in n - c + 1 .. n THEN A[Place(h, i - 1, max)]
                                ELSE A[Place(h, i, max)]
      BY Zenon
    <3>1. PICK p \in 0 .. max - 1 : p = Place(h, i, max)
      BY <1>Apart
    <3>0. max \in Nat /\ h \in Nat /\ h < max /\ \A k \in 0 .. c : n - k \in 0 .. max - 1
      OBVIOUS
    <3>2. p = Place(h, n - c, max) <=> i = n - c
      <4>1. c \in 0 .. c
        OBVIOUS
      <4> QED  BY <3>0, <3>1, <4>1, <1>Apart, Zenon
    <3>3. p \in moved <=> i \in n - c + 1 .. n
      <4>1. ASSUME p \in moved PROVE i \in n - c + 1 .. n
        <5>1. PICK k \in 0 .. c - 1 : p = Place(h, n - k, max)
          BY <4>1, Zenon
        <5>3. k \in 0 .. c
          OBVIOUS
        <5>2. i = n - k
          BY <3>0, <3>1, <5>1, <5>3, <1>Apart, Zenon
        <5> QED  BY <5>2
      <4>2. ASSUME i \in n - c + 1 .. n PROVE p \in moved
        <5>1. n - i \in 0 .. c - 1 /\ n - (n - i) = i
          BY <4>2
        <5> QED  BY <3>1, <5>1, Zenon
      <4> QED  BY <4>1, <4>2, Zenon
    <3>4. ASSUME i \in n - c + 1 .. n PROVE (p - 1) % max = Place(h, i - 1, max)
      BY <3>1, <3>4, <1>StepFrom
    <3>5. B[p] = IF p = Place(h, n - c, max) THEN m ELSE IF p \in moved THEN A[(p - 1) % max] ELSE A[p]
      BY Zenon
    <3> HIDE DEF B, moved, A
    <3> QED  BY <3>1, <3>2, <3>3, <3>4, <3>5, Zenon
  <2> HIDE DEF B, A
  <2>8. /\ R \in Rings(max)
        /\ R.head = h /\ R.tail = Place(h, n + 1, max) /\ R.current_size = n + 1 /\ R.messages = B
        /\ R.msg_available = Q.msg_available /\ R.space_available = Q.space_available
    BY <2>1, <2>3, <2>5, <2>6, Zenon DEF Rings
  <2>9. \A i : At(R, i) = B[Place(h, i, max)]
    BY <2>8, <1>AtPlace, Zenon
  <2>10. \A i : At(Q, i) = A[Place(h, i, max)]
    BY <2>1, <1>AtPlace, Zenon DEF A
  <2>11. \A i \in 0 .. max - 1 :
           At(R, i) = IF i = n - c THEN m
                      ELSE IF i \in n - c + 1 .. n THEN At(Q, i - 1) ELSE At(Q, i)
    BY <2>7, <2>9, <2>10, Zenon
  <2>12. Whole(R)
    <3>1. ASSUME NEW i \in 0 .. max - 1 PROVE At(R, i) # NoMessage <=> i < n + 1
      <4>1. \A j \in 0 .. max - 1 : At(Q, j) # NoMessage <=> j < n
        BY <2>1, RingFields, Zenon DEF Whole
      <4>2. m # NoMessage
        BY <1>NoMessageIsNone, Zenon
      <4>3. CASE i = n - c
        BY <2>11, <4>2, <4>3
      <4>4. CASE i \in n - c + 1 .. n
        <5>1. i - 1 \in 0 .. max - 1 /\ i # n - c /\ i - 1 < n /\ i < n + 1
          BY <4>4
        <5> QED  BY <2>11, <4>1, <4>4, <5>1, Zenon
      <4>5. CASE i # n - c /\ i \notin n - c + 1 .. n
        <5>1. i < n <=> i < n + 1
          BY <4>5
        <5> QED  BY <2>11, <4>1, <4>5, <5>1, Zenon
      <4> QED  BY <4>3, <4>4, <4>5, Zenon
    <3> QED  BY <2>8, <3>1, RingFields, Zenon DEF Whole
  <2>13. \A i \in 0 .. n - c - 1 : At(R, i) = At(Q, i)
    BY <2>11
  <2>14. At(R, n - c) = m /\ \A i \in n - c + 1 .. n : At(R, i) = At(Q, i - 1)
    BY <2>11
  <2> QED  BY <2>8, <2>12, <2>13, <2>14, Zenon
\* receive_message: the first message leaves the ring.
<1>FirstLeaves.
  ASSUME NEW max \in Nat \ {0}, NEW Q \in Rings(max), Whole(Q), NEW n \in 1 .. max,
         Q.current_size = n, NEW R, R = Taken(Q)
  PROVE  /\ R \in Rings(max) /\ Whole(R) /\ R.current_size = n - 1
         /\ R.msg_available = Q.msg_available /\ R.space_available = Q.space_available
         /\ \A i \in 0 .. n - 2 : At(R, i) = At(Q, i + 1)
  <2> USE <1>FirstLeaves
  <2>1. PICK h \in 0 .. max - 1 : Q.head = h
    BY RingFields, Zenon
  <2>2. PICK g \in 0 .. max - 1 : g = Place(h, 1, max)
    <3>1. Place(h, 1, max) \in Nat /\ Place(h, 1, max) < max
      BY <1>Wrap
    <3> QED  BY <3>1
  <2>3. Q.messages \in [0 .. max - 1 -> Messages \union {NoMessage}]
    BY RingFields, Zenon
  <2> DEFINE B == [Q.messages EXCEPT ![h] = NoMessage]
  <2>4. R = [Q EXCEPT !.messages = B, !.head = g, !.current_size = n - 1]
    BY <2>1, <2>2, RingFields, Zenon DEF Rings, Place, Taken
  <2>5. B \in [0 .. max - 1 -> Messages \union {NoMessage}] /\ n - 1 \in 0 .. max
    BY <2>3
  <2>6. /\ R \in Rings(max)
        /\ R.head = g /\ R.tail = Q.tail /\ R.current_size = n - 1 /\ R.messages = B
        /\ R.msg_available = Q.msg_available /\ R.space_available = Q.space_available
    <3> HIDE DEF B
    <3> QED  BY <2>4, <2>5, Zenon DEF Rings
  <2>7. \A i : At(R, i) = B[Place(g, i, max)] /\ At(Q, i) = Q.messages[Place(h, i, max)]
    <3> HIDE DEF B
    <3>1. \A i : At(R, i) = R.messages[Place(g, i, max)]
      BY <2>6, <1>AtPlace, Zenon
    <3>2. \A i : At(Q, i) = Q.messages[Place(h, i, max)]
      BY <2>1, <1>AtPlace, Zenon
    <3> QED  BY <2>6, <3>1, <3>2, Zenon
  <2>8. \A i \in 0 .. max - 2 : At(R, i) = At(Q, i + 1)
    <3> SUFFICES ASSUME NEW i \in 0 .. max - 2 PROVE At(R, i) = At(Q, i + 1)
      BY Zenon
    <3>1. Place(g, i, max) = Place(h, i + 1, max)
      BY <2>2, <1>Steps
    <3>2. Place(h, 0, max) = h
      BY <1>Wrap
    <3>3. Place(h, i + 1, max) \in 0 .. max - 1 /\ Place(h, i + 1, max) # h
      <4>1. i + 1 \in 0 .. max - 1 /\ 0 \in 0 .. max - 1 /\ i + 1 # 0 /\ max \in Nat /\ h \in Nat /\ h < max
        OBVIOUS
      <4> QED  BY <3>2, <4>1, <1>Apart, Zenon
    <3>4. B[Place(h, i + 1, max)] = Q.messages[Place(h, i + 1, max)]
      BY <2>3, <3>3, Zenon
    <3> QED  BY <2>7, <3>1, <3>4, Zenon
  <2>9. At(R, max - 1) = NoMessage
    <3>1. Place(g, max - 1, max) = h
      <4>0. PICK k \in Int : k = max - 1 /\ 0 - max <= k /\ k <= max /\ 1 + k = max
        OBVIOUS
      <4>1. Place(g, k, max) = Place(h, 1 + k, max)
        BY <2>2, <4>0, <1>Steps
      <4>2. Place(h, max, max) = h
        BY <1>Wrap
      <4> QED  BY <4>0, <4>1, <4>2, Zenon
    <3>2. B[h] = NoMessage
      BY <2>3, Zenon
    <3> QED  BY <2>7, <3>1, <3>2, Zenon
  <2> HIDE DEF B
  <2>10. Whole(R)
    <3>1. \A i \in 0 .. max - 1 : At(Q, i) # NoMessage <=> i < n
      BY <2>1, RingFields, Zenon DEF Whole
    <3>2. ASSUME NEW i \in 0 .. max - 1 PROVE At(R, i) # NoMessage <=> i < n - 1
      <4>1. CASE i = max - 1
        BY <2>9, <4>1
      <4>2. CASE i # max - 1
        <5>1. i \in 0 .. max - 2 /\ i + 1 \in 0 .. max - 1 /\ (i + 1 < n <=> i < n - 1)
          BY <4>2
        <5> QED  BY <2>8, <3>1, <5>1, Zenon
      <4> QED  BY <4>1, <4>2, Zenon
    <3>3. R.tail = Place(g, n - 1, max)
      <4>1. Place(g, n - 1, max) = Place(h, n, max)
        BY <2>2, <1>Steps
      <4>2. Q.tail = Place(h, n, max)
        BY <2>1, RingFields, Zenon DEF Whole
      <4> QED  BY <2>6, <4>1, <4>2, Zenon
    <3>4. R \in Rings(max) /\ R.head = g /\ R.current_size = n - 1
      BY <2>6, Zenon
    <3> QED  BY <3>2, <3>3, <3>4, RingFields, Zenon DEF Whole
  <2>11. \A i \in 0 .. n - 2 : At(R, i) = At(Q, i + 1)
    BY <2>8
  <2> QED  BY <2>6, <2>10, <2>11, Zenon
\* cleanup_task_messages: a message leaves the ring and the ones behind it move up.
<1>RemoveAtFacts.
  ASSUME NEW max \in Nat \ {0}, NEW Q \in Rings(max), Whole(Q), NEW n \in 1 .. max,
         Q.current_size = n, NEW j \in 0 .. n - 1, NEW R, R = RemoveAt(Q, j)
  PROVE  /\ R \in Rings(max) /\ Whole(R) /\ R.current_size = n - 1
         /\ R.msg_available = Q.msg_available /\ R.space_available = Q.space_available
         /\ \A i \in 0 .. j - 1 : At(R, i) = At(Q, i)
         /\ \A i \in j .. n - 2 : At(R, i) = At(Q, i + 1)
  <2> USE <1>RemoveAtFacts
  <2>1. PICK h \in 0 .. max - 1, t \in 0 .. max - 1 : Q.head = h /\ Q.tail = t
    BY RingFields, Zenon
  <2>2. t = Place(h, n, max)
    BY <2>1, RingFields, Zenon DEF Whole
  <2> DEFINE moved == {Place(h, k, max) : k \in j .. n - 2}
             A == Q.messages
             B == [p \in 0 .. max - 1 |-> IF p \in moved THEN A[(p + 1) % max]
                                          ELSE IF p = Place(h, n - 1, max) THEN NoMessage ELSE A[p]]
  <2>3. R = [Q EXCEPT !.messages = B, !.tail = Place(h, n - 1, max), !.current_size = n - 1]
    <3>1. Place(h, n - 1, max) = IF t > 0 THEN t - 1 ELSE max - 1
      <4>1. Place(t, 0 - 1, max) = Place(h, n - 1, max)
        BY <2>2, <1>Steps
      <4>2. Place(t, 0 - 1, max) = IF t > 0 THEN t - 1 ELSE max - 1
        BY <1>Wrap
      <4> QED  BY <4>1, <4>2, Zenon
    <3>2. {(Q.head + k) % max : k \in j .. (n - 1) - 1} = moved
      <4>1. (n - 1) - 1 = n - 2
        OBVIOUS
      <4> QED  BY <2>1, <4>1, Zenon DEF Place
    <3>3. (Q.head + (n - 1)) % max = Place(h, n - 1, max)
      BY <2>1, Zenon DEF Place
    <3>5. Q.max_size = max
      BY RingFields, Zenon
    <3>6. R = RemoveAt(Q, j)
      BY Zenon
    <3>7. Q.current_size = n
      BY Zenon
    <3> HIDE <1>RemoveAtFacts
    <3> HIDE DEF moved
    <3> QED  BY <2>1, <3>1, <3>2, <3>3, <3>5, <3>6, <3>7, ZenonT(60) DEF RemoveAt
  <2>4. A \in [0 .. max - 1 -> Messages \union {NoMessage}]
    BY RingFields, Zenon
  <2>5. B \in [0 .. max - 1 -> Messages \union {NoMessage}]
    <3>1. \A p \in 0 .. max - 1 : (p + 1) % max \in 0 .. max - 1
      OBVIOUS
    <3> QED  BY <2>4, <3>1, Zenon
  <2>6. Place(h, n - 1, max) \in 0 .. max - 1 /\ n - 1 \in 0 .. max
    BY <1>Wrap
  <2>7. \A i \in 0 .. max - 1 :
          B[Place(h, i, max)] = IF i \in j .. n - 2 THEN A[Place(h, i + 1, max)]
                                ELSE IF i = n - 1 THEN NoMessage ELSE A[Place(h, i, max)]
    <3> SUFFICES ASSUME NEW i \in 0 .. max - 1
                 PROVE  B[Place(h, i, max)] = IF i \in j .. n - 2 THEN A[Place(h, i + 1, max)]
                                ELSE IF i = n - 1 THEN NoMessage ELSE A[Place(h, i, max)]
      BY Zenon
    <3>0. max \in Nat /\ h \in Nat /\ h < max /\ \A k \in j .. n - 1 : k \in 0 .. max - 1
      OBVIOUS
    <3>1. PICK p \in 0 .. max - 1 : p = Place(h, i, max)
      BY <1>Apart
    <3>2. p = Place(h, n - 1, max) <=> i = n - 1
      <4>1. n - 1 \in 0 .. max - 1
        OBVIOUS
      <4> QED  BY <3>0, <3>1, <4>1, <1>Apart, Zenon
    <3>3. p \in moved <=> i \in j .. n - 2
      <4>1. ASSUME p \in moved PROVE i \in j .. n - 2
        <5>1. PICK k \in j .. n - 2 : p = Place(h, k, max)
          BY <4>1, Zenon
        <5>2. k \in 0 .. max - 1
          OBVIOUS
        <5>3. i = k
          BY <3>0, <3>1, <5>1, <5>2, <1>Apart, Zenon
        <5> QED  BY <5>3, Zenon
      <4>2. ASSUME i \in j .. n - 2 PROVE p \in moved
        BY <3>1, <4>2, Zenon
      <4> QED  BY <4>1, <4>2, Zenon
    <3>4. (p + 1) % max = Place(h, i + 1, max)
      BY <3>1, <1>StepOn
    <3>5. B[p] = IF p \in moved THEN A[(p + 1) % max]
                 ELSE IF p = Place(h, n - 1, max) THEN NoMessage ELSE A[p]
      BY Zenon
    <3> HIDE DEF B, moved, A
    <3> QED  BY <3>1, <3>2, <3>3, <3>4, <3>5, Zenon
  <2> HIDE DEF B, A
  <2>8. /\ R \in Rings(max)
        /\ R.head = h /\ R.tail = Place(h, n - 1, max) /\ R.current_size = n - 1 /\ R.messages = B
        /\ R.msg_available = Q.msg_available /\ R.space_available = Q.space_available
    BY <2>1, <2>3, <2>5, <2>6, Zenon DEF Rings
  <2>9. \A i : At(R, i) = B[Place(h, i, max)]
    BY <2>8, <1>AtPlace, Zenon
  <2>10. \A i : At(Q, i) = A[Place(h, i, max)]
    BY <2>1, <1>AtPlace, Zenon DEF A
  <2>11. \A i \in 0 .. max - 1 :
           At(R, i) = IF i \in j .. n - 2 THEN At(Q, i + 1)
                      ELSE IF i = n - 1 THEN NoMessage ELSE At(Q, i)
    BY <2>7, <2>9, <2>10, Zenon
  <2>12. Whole(R)
    <3>1. ASSUME NEW i \in 0 .. max - 1 PROVE At(R, i) # NoMessage <=> i < n - 1
      <4>1. \A k \in 0 .. max - 1 : At(Q, k) # NoMessage <=> k < n
        BY <2>1, RingFields, Zenon DEF Whole
      <4>3. CASE i \in j .. n - 2
        <5>1. i + 1 \in 0 .. max - 1 /\ i + 1 < n /\ i < n - 1
          BY <4>3
        <5> QED  BY <2>11, <4>1, <4>3, <5>1, Zenon
      <4>4. CASE i = n - 1
        <5>1. i \notin j .. n - 2 /\ ~ (i < n - 1)
          BY <4>4
        <5> QED  BY <2>11, <4>4, <5>1, Zenon
      <4>5. CASE i # n - 1 /\ i \notin j .. n - 2
        <5>1. i < n <=> i < n - 1
          BY <4>5
        <5> QED  BY <2>11, <4>1, <4>5, <5>1, Zenon
      <4> QED  BY <4>3, <4>4, <4>5, Zenon
    <3> QED  BY <2>8, <3>1, RingFields, Zenon DEF Whole
  <2>13. \A i \in 0 .. j - 1 : At(R, i) = At(Q, i)
    BY <2>11
  <2>14. \A i \in j .. n - 2 : At(R, i) = At(Q, i + 1)
    BY <2>11
  <2> QED  BY <2>8, <2>12, <2>13, <2>14, Zenon
\* The list of the queued messages.
<1>ContentsFacts.
  ASSUME NEW max \in Nat \ {0}, NEW Q \in Rings(max), Whole(Q), NEW n \in Nat, Q.current_size = n
  PROVE  /\ Contents(Q) \in Seq(Messages) /\ Len(Contents(Q)) = n
         /\ \A i \in 1 .. n : Contents(Q)[i] = At(Q, i - 1)
  <2> USE <1>ContentsFacts
  <2>1. Contents(Q) = [i \in 1 .. n |-> At(Q, i - 1)]
    BY Zenon DEF Contents
  <2>2. \A i \in 1 .. n : At(Q, i - 1) \in Messages
    BY <1>UsedPlaces
  <2> QED  BY <2>1, <2>2
\* A list is known by its members.
<1>ContentsAre.
  ASSUME NEW max \in Nat \ {0}, NEW Q \in Rings(max), Whole(Q),
         NEW s \in Seq(Messages), Q.current_size = Len(s),
         \A i \in 1 .. Len(s) : s[i] = At(Q, i - 1)
  PROVE  Contents(Q) = s
  <2> USE <1>ContentsAre
  <2>1. Contents(Q) = [i \in 1 .. Len(s) |-> At(Q, i - 1)]
    BY Zenon DEF Contents
  <2>2. s = [i \in 1 .. Len(s) |-> s[i]]
    OBVIOUS
  <2> QED  BY <2>1, <2>2, Zenon
\* A message put into a list.
<1>InsertedFacts.
  ASSUME NEW s \in Seq(Messages), NEW m \in Messages, NEW n \in 0 .. Len(s)
  PROVE  Insertion(List!Inserted(s, n, m), s, n, m)
  <2>0. PICK r : r = List!Inserted(s, n, m)
    BY Zenon
  <2> DEFINE a == SubSeq(s, 1, n)
             b == SubSeq(s, n + 1, Len(s))
  <2>1. /\ a \in Seq(Messages) /\ Len(a) = n /\ \A i \in 1 .. n : a[i] = s[i]
        /\ b \in Seq(Messages) /\ Len(b) = Len(s) - n
        /\ \A i \in 1 .. Len(s) - n : b[i] = s[n + i]
    OBVIOUS
  <2>2. r = a \o <<m>> \o b
    BY <2>0, Zenon DEF List!Inserted
  <2> HIDE DEF a, b
  <2>3. /\ a \o <<m>> \in Seq(Messages) /\ Len(a \o <<m>>) = n + 1
        /\ \A i \in 1 .. n : (a \o <<m>>)[i] = s[i]
        /\ (a \o <<m>>)[n + 1] = m
    BY <2>1
  <2> DEFINE c == a \o <<m>>
  <2>7. c \in Seq(Messages) /\ Len(c) = n + 1
    BY <2>3, Zenon
  <2> HIDE DEF c
  <2>8. b \in Seq(Messages) /\ Len(b) = Len(s) - n
    BY <2>1, Zenon
  <2>4. c \o b \in Seq(Messages) /\ Len(c \o b) = Len(s) + 1
    BY <2>7, <2>8
  <2>5. \A i \in 1 .. n + 1 : (c \o b)[i] = c[i]
    BY <2>1, <2>3 DEF c
  <2>6. \A i \in n + 2 .. Len(s) + 1 : (c \o b)[i] = s[i - 1]
    <3> SUFFICES ASSUME NEW i \in n + 2 .. Len(s) + 1 PROVE (c \o b)[i] = s[i - 1]
      BY Zenon
    <3>1. (c \o b)[i] = b[i - (n + 1)]
      BY <2>1, <2>3 DEF c
    <3>2. i - (n + 1) \in 1 .. Len(s) - n /\ n + (i - (n + 1)) = i - 1
      OBVIOUS
    <3> QED  BY <2>1, <3>1, <3>2, Zenon
  <2>9. Insertion(r, s, n, m)
    BY <2>2, <2>3, <2>4, <2>5, <2>6 DEF c, Insertion
  <2> QED  BY <2>0, <2>9, Zenon
\* semaphore_post on msg_available counts up to the limit of the semaphore.
<1>MessagePosted.
  ASSUME NEW max \in Nat \ {0}, NEW Q \in Rings(max), Whole(Q),
         NEW R, R = semaphore_post(Q, "msg_available")
  PROVE  /\ R \in Rings(max) /\ Whole(R) /\ R.current_size = Q.current_size
         /\ R.msg_available = IF Q.msg_available < max THEN Q.msg_available + 1 ELSE max
         /\ R.space_available = Q.space_available
         /\ \A i : At(R, i) = At(Q, i)
         /\ Contents(R) = Contents(Q)
  <2> USE <1>MessagePosted
  <2>1. /\ R \in Rings(max) /\ SameRing(Q, R) /\ R.space_available = Q.space_available
        /\ R.msg_available = IF Q.msg_available < max THEN Q.msg_available + 1 ELSE max
    <3>1. PICK v \in 0 .. max : v = IF Q.msg_available < max THEN Q.msg_available + 1 ELSE max
      BY RingFields
    <3>3. Lesser(Q.msg_available + 1, Q.max_size) = v
      BY <3>1, RingFields DEF Lesser
    <3>2. R = [Q EXCEPT !.msg_available = v]
      BY <3>3, Zenon DEF semaphore_post, Rings
    <3> QED  BY <3>1, <3>2, Zenon DEF Rings, SameRing
  <2> QED  BY <2>1, SameRingFacts, Zenon
\* semaphore_post on space_available counts up to the limit of the semaphore.
<1>SpacePosted.
  ASSUME NEW max \in Nat \ {0}, NEW Q \in Rings(max), Whole(Q),
         NEW R, R = semaphore_post(Q, "space_available")
  PROVE  /\ R \in Rings(max) /\ Whole(R) /\ R.current_size = Q.current_size
         /\ R.space_available = IF Q.space_available < max THEN Q.space_available + 1 ELSE max
         /\ R.msg_available = Q.msg_available
         /\ \A i : At(R, i) = At(Q, i)
         /\ Contents(R) = Contents(Q)
  <2> USE <1>SpacePosted
  <2>1. /\ R \in Rings(max) /\ SameRing(Q, R) /\ R.msg_available = Q.msg_available
        /\ R.space_available = IF Q.space_available < max THEN Q.space_available + 1 ELSE max
    <3>1. PICK v \in 0 .. max : v = IF Q.space_available < max THEN Q.space_available + 1 ELSE max
      BY RingFields
    <3>3. Lesser(Q.space_available + 1, Q.max_size) = v
      BY <3>1, RingFields DEF Lesser
    <3>2. R = [Q EXCEPT !.space_available = v]
      BY <3>3, Zenon DEF semaphore_post, Rings
    <3> QED  BY <3>1, <3>2, Zenon DEF Rings, SameRing
  <2> QED  BY <2>1, SameRingFacts, Zenon
\* send_message with a free place: the message joins the list at its place.
<1>PutFacts.
  ASSUME NEW max \in Nat \ {0}, NEW Q \in Rings(max), Whole(Q), NEW m \in Messages,
         NEW n \in 0 .. max - 1, Q.current_size = n, NEW R, R = PutMessage(Q, m)
  PROVE  PutResult(Q, R, m, n, max)
  <2> USE <1>PutFacts
  <2> DEFINE P == IF m.urgent THEN InsertAtHead(Q, m) ELSE insert_message_by_priority(Q, m)
  <2>9. PICK s : s = Contents(Q)
    BY Zenon
  <2>0. s \in Seq(Messages) /\ Len(s) = n /\ \A i \in 1 .. n : s[i] = At(Q, i - 1)
    BY <2>9, <1>ContentsFacts
  <2>1. R = semaphore_post(P, "msg_available")
    BY RingFields DEF PutMessage, IsFull
  <2>2. /\ P \in Rings(max) /\ Whole(P) /\ P.current_size = n + 1
        /\ P.msg_available = Q.msg_available /\ P.space_available = Q.space_available
        /\ \E k \in 0 .. n : /\ PutBehind(s, m, k)
                             /\ \A i \in 0 .. k - 1 : At(P, i) = At(Q, i)
                             /\ At(P, k) = m
                             /\ \A i \in k + 1 .. n : At(P, i) = At(Q, i - 1)
    <3>1. CASE m.urgent
      <4>1. P = InsertAtHead(Q, m)
        BY <3>1, Zenon
      <4> HIDE DEF P
      <4>2. /\ P \in Rings(max) /\ Whole(P) /\ P.current_size = n + 1
            /\ P.msg_available = Q.msg_available /\ P.space_available = Q.space_available
            /\ At(P, 0) = m
            /\ \A i \in 1 .. n : At(P, i) = At(Q, i - 1)
        BY <4>1, <1>InsertAtHeadFacts
      <4>3. PutBehind(s, m, 0)
        BY <3>1, Zenon DEF PutBehind
      <4> QED  BY <4>2, <4>3
    <3>2. CASE ~ m.urgent
      <4>1. P = insert_message_by_priority(Q, m)
        BY <3>2, Zenon
      <4> HIDE DEF P
      <4>2. PICK p \in 0 .. 3 : p = m.priority
        BY <1>MessageFields, Zenon
      <4>3. PICK c : c = Overtaken(Q, p)
        BY Zenon
      <4>4. /\ c \in 0 .. n
            /\ \A i \in n - c .. n - 1 : At(Q, i).priority < p
            /\ c > 0 => p >= MESSAGE_PRIORITY_HIGH
            /\ c < n /\ p >= MESSAGE_PRIORITY_HIGH => ~ (At(Q, n - c - 1).priority < p)
        BY <4>3, <1>OvertakenFacts
      <4>5. PICK k \in 0 .. n : k = n - c
        BY <4>4
      <4>6. /\ P \in Rings(max) /\ Whole(P) /\ P.current_size = n + 1
            /\ P.msg_available = Q.msg_available /\ P.space_available = Q.space_available
            /\ \A i \in 0 .. n - c - 1 : At(P, i) = At(Q, i)
            /\ At(P, n - c) = m
            /\ \A i \in n - c + 1 .. n : At(P, i) = At(Q, i - 1)
        BY <4>1, <4>2, <4>3, <4>4, <1>InsertByPriorityFacts
      <4>7. ASSUME NEW i \in k + 1 .. n PROVE s[i].priority < m.priority
        <5>1. i - 1 \in n - c .. n - 1 /\ i \in 1 .. n /\ c > 0
          BY <4>4, <4>5
        <5>2. s[i].priority < p
          BY <2>0, <4>4, <5>1, Zenon
        <5> QED  BY <4>2, <5>2, Zenon
      <4>8. ASSUME k > 0, m.priority >= List!HIGH PROVE s[k].priority >= m.priority
        <5>1. k - 1 = n - c - 1 /\ k \in 1 .. n /\ c < n
          BY <4>4, <4>5, <4>8
        <5>2. s[k] = At(Q, n - c - 1)
          BY <2>0, <5>1, Zenon
        <5>3. p >= MESSAGE_PRIORITY_HIGH
          BY <4>2, <4>8, Zenon DEF List!HIGH, MESSAGE_PRIORITY_HIGH
        <5>4. ~ (s[k].priority < p)
          BY <4>4, <5>1, <5>2, <5>3, Zenon
        <5>5. s[k] \in Messages
          BY <2>0, <5>1
        <5>6. s[k].priority \in 0 .. 3
          BY <5>5, <1>MessageFields, Zenon
        <5> QED  BY <4>2, <5>4, <5>6
      <4>9. PutBehind(s, m, k)
        BY <2>0, <3>2, <4>7, <4>8, Zenon DEF PutBehind
      <4> QED  BY <4>4, <4>5, <4>6, <4>9, Zenon
    <3> QED  BY <3>1, <3>2, Zenon
  <2> HIDE DEF P
  <2>3. /\ R \in Rings(max) /\ Whole(R) /\ R.current_size = P.current_size
        /\ R.msg_available = IF P.msg_available < max THEN P.msg_available + 1 ELSE max
        /\ R.space_available = P.space_available
        /\ \A i : At(R, i) = At(P, i)
        /\ Contents(R) = Contents(P)
    BY <2>1, <2>2, <1>MessagePosted, Zenon
  <2>4. PICK k \in 0 .. n : /\ PutBehind(s, m, k)
                            /\ \A i \in 0 .. k - 1 : At(P, i) = At(Q, i)
                            /\ At(P, k) = m
                            /\ \A i \in k + 1 .. n : At(P, i) = At(Q, i - 1)
    BY <2>2, Zenon
  <2>5. Contents(R) = List!Inserted(s, k, m)
    <3>0. PICK r : r = List!Inserted(s, k, m)
      BY Zenon
    <3>1. /\ r \in Seq(Messages) /\ Len(r) = n + 1
          /\ \A i \in 1 .. k : r[i] = s[i]
          /\ r[k + 1] = m
          /\ \A i \in k + 2 .. n + 1 : r[i] = s[i - 1]
      <4>1. n = Len(s) /\ s \in Seq(Messages)
        BY <2>0, Zenon
      <4>2. k \in 0 .. Len(s)
        BY <4>1, Zenon
      <4>3. Insertion(r, s, k, m)
        BY <3>0, <4>1, <4>2, <1>InsertedFacts, Zenon
      <4> QED  BY <4>1, <4>3, Zenon DEF Insertion
    <3>2. ASSUME NEW i \in 1 .. n + 1 PROVE r[i] = At(R, i - 1)
      <4>1. CASE i \in 1 .. k
        <5>1. i \in 1 .. n /\ i - 1 \in 0 .. k - 1
          BY <4>1
        <5> QED  BY <2>0, <2>3, <2>4, <3>1, <4>1, <5>1, Zenon
      <4>2. CASE i = k + 1
        <5>1. i - 1 = k
          BY <4>2
        <5> QED  BY <2>3, <2>4, <3>1, <4>2, <5>1, Zenon
      <4>3. CASE i \in k + 2 .. n + 1
        <5>1. i - 1 \in 1 .. n /\ i - 1 \in k + 1 .. n
          BY <4>3
        <5> QED  BY <2>0, <2>3, <2>4, <3>1, <4>3, <5>1, Zenon
      <4> QED  BY <4>1, <4>2, <4>3
    <3>3. R.current_size = n + 1 /\ Len(r) = n + 1
      BY <2>2, <2>3, <3>1, Zenon
    <3>4. Contents(R) = r
      BY <2>3, <3>1, <3>2, <3>3, <1>ContentsAre, Zenon
    <3> QED  BY <3>0, <3>4, Zenon
  <2>6. R.space_available = P.space_available
    BY <2>3, Zenon
  <2>7. R.msg_available = IF P.msg_available < max THEN P.msg_available + 1 ELSE max
    BY <2>3, Zenon
  <2> QED  BY <2>2, <2>3, <2>4, <2>5, <2>6, <2>7, <2>9, Zenon DEF PutResult
\* send_message that finds the queue full gives the place back.
<1>PutFullFacts.
  ASSUME NEW max \in Nat \ {0}, NEW Q \in Rings(max), Whole(Q), NEW m,
         Q.current_size = max, NEW R, R = PutMessage(Q, m)
  PROVE  PutFullResult(Q, R, max)
  <2> USE <1>PutFullFacts
  <2>1. R = semaphore_post(Q, "space_available")
    BY RingFields DEF PutMessage, IsFull
  <2>2. /\ R \in Rings(max) /\ Whole(R) /\ R.current_size = Q.current_size
        /\ R.space_available = IF Q.space_available < max THEN Q.space_available + 1 ELSE max
        /\ R.msg_available = Q.msg_available
        /\ \A i : At(R, i) = At(Q, i)
        /\ Contents(R) = Contents(Q)
    BY <2>1, <1>SpacePosted
  <2>3. Contents(R) = Contents(Q)
    BY <2>2, Zenon DEF Contents
  <2>4. R.msg_available = Q.msg_available
    BY <2>2, Zenon
  <2> QED  BY <2>2, <2>3, <2>4, Zenon DEF PutFullResult
\* receive_message that finds a message: the list loses its first one.
<1>TakeFacts.
  ASSUME NEW max \in Nat \ {0}, NEW Q \in Rings(max), Whole(Q),
         NEW n \in 1 .. max, Q.current_size = n, NEW R, R = TakeMessage(Q)
  PROVE  TakeResult(Q, R, n, max)
  <2> USE <1>TakeFacts
  <2>1. PICK P : P = Taken(Q)
    BY Zenon
  <2>2. R = semaphore_post(P, "space_available")
    BY <2>1 DEF TakeMessage, Taken
  <2>3. /\ P \in Rings(max) /\ Whole(P) /\ P.current_size = n - 1
        /\ P.msg_available = Q.msg_available /\ P.space_available = Q.space_available
        /\ \A i \in 0 .. n - 2 : At(P, i) = At(Q, i + 1)
    BY <2>1, <1>FirstLeaves
  <2>4. /\ R \in Rings(max) /\ Whole(R) /\ R.current_size = P.current_size
        /\ R.space_available = IF P.space_available < max THEN P.space_available + 1 ELSE max
        /\ R.msg_available = P.msg_available
        /\ \A i : At(R, i) = At(P, i)
        /\ Contents(R) = Contents(P)
    BY <2>2, <2>3, <1>SpacePosted, Zenon
  <2>5. PICK s : s = Contents(Q)
    BY Zenon
  <2>6. s \in Seq(Messages) /\ Len(s) = n /\ \A i \in 1 .. n : s[i] = At(Q, i - 1)
    BY <2>5, <1>ContentsFacts
  <2>7. /\ s # <<>> /\ Tail(s) \in Seq(Messages) /\ Len(Tail(s)) = n - 1
        /\ \A i \in 1 .. n - 1 : Tail(s)[i] = s[i + 1]
    BY <2>6
  <2>8. \A i \in 1 .. n - 1 : Tail(s)[i] = At(R, i - 1)
    <3> SUFFICES ASSUME NEW i \in 1 .. n - 1 PROVE Tail(s)[i] = At(R, i - 1)
      BY Zenon
    <3>1. i - 1 \in 0 .. n - 2 /\ i + 1 \in 1 .. n /\ (i + 1) - 1 = (i - 1) + 1
      OBVIOUS
    <3> QED  BY <2>3, <2>4, <2>6, <2>7, <3>1, Zenon
  <2>9. R.current_size = Len(Tail(s))
    BY <2>3, <2>4, <2>7, Zenon
  <2>10. Contents(R) = Tail(s)
    BY <2>4, <2>7, <2>8, <2>9, <1>ContentsAre, Zenon
  <2>11. R.msg_available = P.msg_available
    BY <2>4, Zenon
  <2> QED  BY <2>3, <2>4, <2>5, <2>7, <2>10, <2>11, Zenon DEF TakeResult
\* receive_message that finds none gives the promise back.
<1>TakeEmptyFacts.
  ASSUME NEW max \in Nat \ {0}, NEW Q \in Rings(max), Whole(Q),
         Q.current_size = 0, NEW R, R = TakeMessage(Q)
  PROVE  TakeEmptyResult(Q, R, max)
  <2> USE <1>TakeEmptyFacts
  <2>1. R = semaphore_post(Q, "msg_available")
    BY DEF TakeMessage
  <2>2. /\ R \in Rings(max) /\ Whole(R) /\ R.current_size = Q.current_size
        /\ R.msg_available = IF Q.msg_available < max THEN Q.msg_available + 1 ELSE max
        /\ R.space_available = Q.space_available
        /\ \A i : At(R, i) = At(Q, i)
        /\ Contents(R) = Contents(Q)
    BY <2>1, <1>MessagePosted
  <2>3. Contents(R) = Contents(Q)
    BY <2>2, Zenon DEF Contents
  <2>4. R.space_available = Q.space_available
    BY <2>2, Zenon
  <2> QED  BY <2>2, <2>3, <2>4, Zenon DEF TakeEmptyResult
\* It takes any number of turns.
<1>TurnsExist.
  ASSUME NEW Q, NEW pid, NEW n \in Nat
  PROVE  \E w : Turns(w, Q, pid, n)
  <2> DEFINE Bad == {m \in Nat : ~ \E w : Turns(w, Q, pid, m)}
  <2> SUFFICES ASSUME Bad # {} PROVE FALSE
    BY Zenon
  <2>1. PICK m \in Bad : \A r \in Bad : m <= r
    BY LeastExists, Zenon
  <2>2. m # 0
    <3>1. Turns([i \in 0 .. 0 |-> [q |-> Q, j |-> 0]], Q, pid, 0)
      BY DEF Turns
    <3> QED  BY <2>1, <3>1, Zenon
  <2>3. m \in Nat \ {0} /\ m - 1 \in Nat /\ m - 1 \notin Bad
    BY <2>1, <2>2
  <2>4. PICK w : Turns(w, Q, pid, m - 1)
    BY <2>3, Zenon
  <2> DEFINE v == [i \in 0 .. m |-> IF i = m THEN Turn(w[m - 1], pid) ELSE w[i]]
  <2>5. /\ v = [i \in 0 .. m |-> v[i]] /\ \A i \in 0 .. m - 1 : v[i] = w[i]
        /\ v[m] = Turn(w[m - 1], pid)
    BY <2>3
  <2> HIDE DEF v
  <2>6. Turns(v, Q, pid, m)
    <3>1. v[0] = [q |-> Q, j |-> 0]
      <4>1. 0 \in 0 .. m - 1
        BY <2>3
      <4> QED  BY <2>4, <2>5, <4>1, Zenon DEF Turns
    <3>2. ASSUME NEW i \in 1 .. m PROVE v[i] = Turn(v[i - 1], pid)
      <4>1. CASE i = m
        <5>0. m - 1 \in 0 .. m - 1
          BY <2>3
        <5>1. v[m - 1] = w[m - 1]
          BY <2>5, <5>0, Zenon
        <5> QED  BY <2>5, <4>1, <5>1, Zenon
      <4>2. CASE i # m
        <5>1. i \in 1 .. m - 1 /\ i \in 0 .. m - 1 /\ i - 1 \in 0 .. m - 1
          BY <2>3, <4>2
        <5>2. w[i] = Turn(w[i - 1], pid)
          BY <2>4, <5>1, Zenon DEF Turns
        <5> QED  BY <2>5, <5>1, <5>2, Zenon
      <4> QED  BY <4>1, <4>2, Zenon
    <3> QED  BY <2>5, <3>1, <3>2, Zenon DEF Turns
  <2> QED  BY <2>1, <2>6, Zenon
\* The queue that the loop leaves behind.
<1>PurgeTurns.
  ASSUME NEW Q, NEW pid, NEW n \in Nat, n = Q.current_size
  PROVE  \E w : Turns(w, Q, pid, n) /\ Purge(Q, pid) = w[n].q
  <2> USE <1>PurgeTurns
  <2> DEFINE after[i \in 0 .. Q.current_size] ==
               IF i = 0 THEN [q |-> Q, j |-> 0] ELSE Turn(after[i - 1], pid)
             Def(f) == [i \in 0 .. Q.current_size |->
                          IF i = 0 THEN [q |-> Q, j |-> 0] ELSE Turn(f[i - 1], pid)]
  <2>1. PICK w : Turns(w, Q, pid, Q.current_size)
    BY <1>TurnsExist, Zenon
  <2>2. w = Def(w)
    <3>1. w = [i \in 0 .. Q.current_size |-> w[i]]
      BY <2>1, Zenon DEF Turns
    <3>2. \A i \in 0 .. Q.current_size : i # 0 => i \in 1 .. Q.current_size
      OBVIOUS
    <3>3. \A i \in 0 .. Q.current_size : w[i] = Def(w)[i]
      BY <2>1, <3>2, Zenon DEF Turns
    <3> QED  BY <3>1, <3>3, Zenon
  <2>3. after = CHOOSE f : f = Def(f)
    BY Zenon DEF after
  <2>4. after = Def(after)
    BY <2>2, <2>3, Zenon
  <2>5. Purge(Q, pid) = after[Q.current_size].q
    BY Zenon DEF Purge
  <2> HIDE DEF after
  <2>6. after = [i \in 0 .. Q.current_size |-> after[i]] /\ after[0] = [q |-> Q, j |-> 0]
    <3>1. 0 \in 0 .. Q.current_size
      OBVIOUS
    <3> QED  BY <2>4, <3>1, Zenon
  <2>7. \A i \in 1 .. Q.current_size : i \in 0 .. Q.current_size /\ i # 0
    OBVIOUS
  <2>8. \A i \in 1 .. Q.current_size : after[i] = Turn(after[i - 1], pid)
    BY <2>4, <2>7, Zenon
  <2>9. Turns(after, Q, pid, Q.current_size)
    BY <2>6, <2>8, Zenon DEF Turns
  <2> QED  BY <2>5, <2>9, Zenon
\* One turn of the loop.
<1>TurnFacts.
  ASSUME NEW max \in Nat \ {0}, NEW Q, Q.max_size = max, NEW c \in Seq(Messages),
         NEW pid, NEW n \in 1 .. Len(c), NEW S, NEW k, Searched(S, k, Q, c, n - 1)
  PROVE  Searched(Turn(S, pid), IF pid \in {c[n].sender, c[n].receiver} THEN k ELSE Append(k, c[n]),
                  Q, c, n)
  <2> USE <1>TurnFacts
  <2>1. PICK l \in Nat, j \in Nat : l = Len(c) /\ j = Len(k)
    <3>1. k \in Seq(Messages)
      BY Zenon DEF Searched
    <3>2. Len(c) \in Nat /\ Len(k) \in Nat
      BY <3>1
    <3> QED  BY <3>2, Zenon
  <2>2. PICK P : P = S.q
    BY Zenon
  <2>3. /\ k \in Seq(Messages) /\ j <= n - 1 /\ S.j = j
        /\ P \in Rings(max) /\ Whole(P) /\ P.current_size = j + l - n + 1
        /\ \A i \in 1 .. j : At(P, i - 1) = k[i]
        /\ \A i \in n .. l : At(P, j + i - n) = c[i]
        /\ j = n - 1 => \A i \in 1 .. n - 1 : k[i] = c[i]
    <3>1. /\ k \in Seq(Messages) /\ j <= n - 1 /\ S.j = j
          /\ P \in Rings(max) /\ Whole(P) /\ P.current_size = j + l - (n - 1)
          /\ \A i \in 1 .. j : At(P, i - 1) = k[i]
          /\ \A i \in (n - 1) + 1 .. l : At(P, j + i - (n - 1) - 1) = c[i]
          /\ j = n - 1 => \A i \in 1 .. n - 1 : k[i] = c[i]
      BY <2>1, <2>2, Zenon DEF Searched
    <3>2. ASSUME NEW i \in n .. l PROVE At(P, j + i - n) = c[i]
      <4>1. i \in (n - 1) + 1 .. l /\ j + i - (n - 1) - 1 = j + i - n
        OBVIOUS
      <4> QED  BY <3>1, <4>1, Zenon
    <3> QED  BY <3>1, <3>2
  <2>4. l \in Nat /\ n \in 1 .. l /\ c[n] \in Messages
    BY <2>1
  <2>5. At(P, j) = c[n]
    <3>1. n \in n .. l /\ j + n - n = j
      BY <2>4
    <3> QED  BY <2>3, <3>1, Zenon
  <2>6. PICK L \in 1 .. max : L = j + l - n + 1 /\ j \in 0 .. L - 1
    <3>1. P.current_size \in 0 .. max
      BY <2>3, RingFields, Zenon
    <3> QED  BY <2>3, <2>4, <3>1
  <2>7. CASE pid \in {c[n].sender, c[n].receiver}
    <3>1. PICK R : R = RemoveAt(P, j)
      BY Zenon
    <3>2. PICK T : T = Turn(S, pid)
      BY Zenon
    <3>3. T = [q |-> R, j |-> j]
      BY <2>2, <2>3, <2>5, <2>7, <3>1, <3>2, Zenon DEF Turn, Involves
    <3>4. /\ R \in Rings(max) /\ Whole(R) /\ R.current_size = L - 1
          /\ \A i \in 0 .. j - 1 : At(R, i) = At(P, i)
          /\ \A i \in j .. L - 2 : At(R, i) = At(P, i + 1)
      BY <2>3, <2>6, <3>1, <1>RemoveAtFacts
    <3>5. \A i \in 1 .. j : At(R, i - 1) = k[i]
      BY <2>3, <3>4
    <3>6. ASSUME NEW i \in n + 1 .. l PROVE At(R, j + i - n - 1) = c[i]
      <4>1. /\ j + i - n - 1 \in j .. L - 2 /\ (j + i - n - 1) + 1 = j + i - n
            /\ i \in n .. l
        BY <2>4, <2>6
      <4> QED  BY <2>3, <3>4, <4>1
    <3>7. T.q = R /\ T.j = j
      BY <3>3, Zenon
    <3>8. R.current_size = j + l - n /\ j <= n /\ j # n
      BY <2>3, <2>6, <3>4
    <3>9. Searched(T, k, Q, c, n)
      BY <2>1, <2>3, <2>4, <3>4, <3>5, <3>6, <3>7, <3>8, Zenon DEF Searched
    <3> QED  BY <2>7, <3>2, <3>9, Zenon
  <2>8. CASE pid \notin {c[n].sender, c[n].receiver}
    <3>1. PICK r : r = Append(k, c[n])
      BY Zenon
    <3>2. PICK T : T = Turn(S, pid)
      BY Zenon
    <3>3. T = [q |-> P, j |-> j + 1]
      BY <2>2, <2>3, <2>5, <2>8, <3>2, Zenon DEF Turn, Involves
    <3>4. /\ r \in Seq(Messages) /\ Len(r) = j + 1 /\ r[j + 1] = c[n]
          /\ \A i \in 1 .. j : r[i] = k[i]
      BY <2>1, <2>3, <2>4, <3>1
    <3>5. ASSUME NEW i \in 1 .. j + 1 PROVE At(P, i - 1) = r[i]
      <4>1. CASE i = j + 1
        BY <2>5, <3>4, <4>1
      <4>2. CASE i # j + 1
        <5>1. i \in 1 .. j
          BY <4>2
        <5> QED  BY <2>3, <3>4, <5>1, Zenon
      <4> QED  BY <4>1, <4>2, Zenon
    <3>6. ASSUME NEW i \in n + 1 .. l PROVE At(P, (j + 1) + i - n - 1) = c[i]
      <4>1. i \in n .. l /\ (j + 1) + i - n - 1 = j + i - n
        BY <2>4
      <4> QED  BY <2>3, <4>1, Zenon
    <3>7. T.q = P /\ T.j = j + 1
      BY <3>3, Zenon
    <3>8. P.current_size = (j + 1) + l - n /\ j + 1 <= n
      BY <2>3
    <3>10. ASSUME j + 1 = n, NEW i \in 1 .. n PROVE r[i] = c[i]
      <4>1. CASE i = n
        BY <3>4, <3>10, <4>1, Zenon
      <4>2. CASE i # n
        <5>1. i \in 1 .. n - 1 /\ i \in 1 .. j /\ j = n - 1
          BY <3>10, <4>2
        <5> QED  BY <2>3, <3>4, <5>1, Zenon
      <4> QED  BY <4>1, <4>2, Zenon
    <3>9. Searched(T, r, Q, c, n)
      BY <2>1, <2>3, <2>4, <3>4, <3>5, <3>6, <3>7, <3>8, <3>10 DEF Searched
    <3> QED  BY <2>8, <3>1, <3>2, <3>9, Zenon
  <2> QED  BY <2>7, <2>8, Zenon
\* The loop: what it leaves is what MessageList says.
<1>PurgeFacts.
  ASSUME NEW max \in Nat \ {0}, NEW Q \in Rings(max), Whole(Q), NEW pid,
         NEW R, R = Purge(Q, pid)
  PROVE  /\ R \in Rings(max) /\ Whole(R)
         /\ Contents(R) = List!Others(Contents(Q), pid)
         /\ R.current_size = Q.current_size => Contents(R) = Contents(Q)
  <2> USE <1>PurgeFacts
  <2>0. PICK n \in Nat : n = Q.current_size
    BY RingFields
  <2>1. PICK c : c = Contents(Q) /\ n = Q.current_size
    BY <2>0, Zenon
  <2>2. c \in Seq(Messages) /\ Len(c) = n /\ \A i \in 1 .. n : c[i] = At(Q, i - 1)
    BY <2>1, <1>ContentsFacts, Zenon
  <2>3. PICK w : Turns(w, Q, pid, n) /\ R = w[n].q
    <3>1. \E w : Turns(w, Q, pid, n) /\ Purge(Q, pid) = w[n].q
      BY <2>0, <1>PurgeTurns
    <3> QED  BY <3>1, Zenon
  <2>4. PICK u : Keeps(u, c, pid, n) /\ List!Others(c, pid) = u[n]
    BY <2>2, OthersFacts
  <2>5. Q.max_size = max
    BY RingFields, Zenon
  <2> DEFINE Bad == {i \in 0 .. n : ~ Searched(w[i], u[i], Q, c, i)}
  <2>6. Bad = {}
    <3> SUFFICES ASSUME Bad # {} PROVE FALSE
      BY Zenon
    <3>0. Bad \in SUBSET Nat
      OBVIOUS
    <3>1. PICK m \in Bad : \A r \in Bad : m <= r
      BY <3>0, LeastExists, Zenon
    <3>2. CASE m = 0
      <4>1. w[0] = [q |-> Q, j |-> 0] /\ u[0] = <<>>
        BY <2>3, <2>4, Zenon DEF Turns, Keeps
      <4>2. PICK S : S = [q |-> Q, j |-> 0]
        BY Zenon
      <4>3. S.q = Q /\ S.j = 0
        BY <4>2, Zenon
      <4>4. <<>> \in Seq(Messages) /\ Len(<<>>) = 0
        OBVIOUS
      <4>5. \A i \in 1 .. n : At(Q, 0 + i - 0 - 1) = c[i]
        <5>1. \A i \in 1 .. n : i - 1 = 0 + i - 0 - 1
          OBVIOUS
        <5> QED  BY <2>2, <5>1, SMTT(30)
      <4>6. Searched(S, <<>>, Q, c, 0)
        BY <2>1, <2>2, <2>5, <4>3, <4>4, <4>5 DEF Searched
      <4> QED  BY <3>1, <3>2, <4>1, <4>2, <4>6, Zenon
    <3>3. CASE m # 0
      <4>1. m \in 1 .. n /\ m - 1 \in 0 .. n /\ m - 1 \notin Bad
        BY <3>1, <3>3
      <4>2. Searched(w[m - 1], u[m - 1], Q, c, m - 1)
        BY <4>1, Zenon
      <4>3. w[m] = Turn(w[m - 1], pid)
        BY <2>3, <4>1, Zenon DEF Turns
      <4>4. u[m] = IF pid \in {c[m].sender, c[m].receiver} THEN u[m - 1] ELSE Append(u[m - 1], c[m])
        BY <2>4, <4>1, Zenon DEF Keeps
      <4>5. m \in 1 .. Len(c)
        BY <2>2, <4>1, Zenon
      <4>6. Searched(w[m], u[m], Q, c, m)
        <5>1. Searched(Turn(w[m - 1], pid),
                IF pid \in {c[m].sender, c[m].receiver} THEN u[m - 1] ELSE Append(u[m - 1], c[m]),
                Q, c, m)
          BY <2>2, <2>5, <4>2, <4>5, <1>TurnFacts, Zenon
        <5> QED  BY <4>3, <4>4, <5>1, Zenon
      <4> QED  BY <3>1, <4>6, Zenon
    <3> QED  BY <3>2, <3>3, Zenon
  <2>7. Searched(w[n], u[n], Q, c, n)
    <3>1. n \in 0 .. n
      OBVIOUS
    <3> QED  BY <2>6, <3>1, Zenon
  <2>8. PICK k : k = u[n]
    BY Zenon
  <2>9. /\ k \in Seq(Messages) /\ Len(k) <= n /\ R \in Rings(max) /\ Whole(R)
        /\ R.current_size = Len(k) /\ \A i \in 1 .. Len(k) : At(R, i - 1) = k[i]
        /\ Len(k) = n => \A i \in 1 .. n : k[i] = c[i]
    <3>1. /\ k \in Seq(Messages) /\ Len(k) <= n /\ R \in Rings(max) /\ Whole(R)
          /\ R.current_size = Len(k) + Len(c) - n
          /\ \A i \in 1 .. Len(k) : At(R, i - 1) = k[i]
          /\ Len(k) = n => \A i \in 1 .. n : k[i] = c[i]
      BY <2>3, <2>5, <2>7, <2>8, Zenon DEF Searched
    <3>2. Len(k) \in Nat /\ Len(k) + Len(c) - n = Len(k)
      BY <2>2, <3>1
    <3> QED  BY <3>1, <3>2, Zenon
  <2>10. Contents(R) = k
    BY <2>9, <1>ContentsAre, Zenon
  <2>11. ASSUME R.current_size = n PROVE k = c
    <3>1. k = [i \in 1 .. Len(k) |-> k[i]] /\ c = [i \in 1 .. Len(c) |-> c[i]]
      BY <2>2, <2>9
    <3>2. Len(k) = n /\ \A i \in 1 .. n : k[i] = c[i]
      BY <2>9, <2>11, Zenon
    <3> QED  BY <2>2, <3>1, <3>2, Zenon
  <2> QED  BY <2>1, <2>4, <2>8, <2>9, <2>10, <2>11, Zenon
\* cleanup_task_messages for one queue.
<1>CleanFacts.
  ASSUME NEW max \in Nat \ {0}, NEW Q \in Rings(max), Whole(Q), NEW pid,
         NEW R, R = CleanQueue(Q, pid)
  PROVE  CleanResult(Q, R, pid, max)
  <2> USE <1>CleanFacts
  <2> USE DEF CleanResult
  <2>1. PICK P : P = Purge(Q, pid)
    BY Zenon
  <2>2. /\ P \in Rings(max) /\ Whole(P) /\ Contents(P) = List!Others(Contents(Q), pid)
        /\ P.current_size = Q.current_size => Contents(P) = Contents(Q)
    BY <2>1, <1>PurgeFacts
  <2>3. CASE P.current_size = Q.current_size
    <3>1. R = Q
      BY <2>1, <2>3, Zenon DEF CleanQueue
    <3> QED  BY <2>2, <2>3, <3>1, Zenon
  <2>4. CASE P.current_size # Q.current_size
    <3>1. PICK n \in 0 .. max : n = P.current_size
      BY <2>2, RingFields, Zenon
    <3>2. R = [P EXCEPT !.msg_available = n, !.space_available = max - n]
      BY <2>1, <2>2, <2>4, <3>1, RingFields, Zenon DEF CleanQueue
    <3>3. max - n \in 0 .. max
      OBVIOUS
    <3>4. /\ R \in Rings(max) /\ SameRing(P, R)
          /\ R.msg_available = n /\ R.space_available = max - n
      BY <2>2, <3>1, <3>2, <3>3, Zenon DEF Rings, SameRing
    <3>5. Whole(R) /\ Contents(R) = Contents(P) /\ R.current_size = n
      BY <2>2, <3>1, <3>4, SameRingFacts, Zenon
    <3> QED  BY <2>2, <2>4, <3>1, <3>4, <3>5, Zenon
  <2> QED  BY <2>3, <2>4, Zenon
  
<1>1. ContentsWork
  BY <1>ContentsFacts, Zenon DEF ContentsWork
<1>2. CreateWorks
  BY <1>NewQueueFacts, Zenon DEF CreateWorks
<1>3. PutWorks
  BY <1>PutFacts, Zenon DEF PutWorks
<1>4. PutFullWorks
  BY <1>PutFullFacts, Zenon DEF PutFullWorks
<1>5. TakeWorks
  BY <1>TakeFacts, Zenon DEF TakeWorks
<1>6. TakeEmptyWorks
  BY <1>TakeEmptyFacts, Zenon DEF TakeEmptyWorks
<1>7. CleanWorks
  BY <1>CleanFacts, Zenon DEF CleanWorks
<1> QED  BY <1>1, <1>2, <1>3, <1>4, <1>5, <1>6, <1>7, Zenon

\* A queue that has just been made.
LEMMA NewQueueFacts ==
  ASSUME NEW max \in Nat \ {0}
  PROVE  /\ NewQueue(max) \in Rings(max) /\ Whole(NewQueue(max))
         /\ Contents(NewQueue(max)) = <<>>
BY RingOperations, Zenon DEF CreateWorks

-----------------------------------------------------------------------------
(* What is promised of a ring: r receivers and s senders were granted a place and have   *)
(* yet to run.                                                                            *)

\* No message and no place is out of reach.
Enough(Q, r, s) ==
  /\ Q.msg_available + r >= Q.current_size
  /\ Q.space_available + s >= Q.max_size - Q.current_size

\* No message and no place is promised twice.
Once(Q, r, s) ==
  /\ Q.msg_available + r <= Q.current_size
  /\ Q.space_available + s <= Q.max_size - Q.current_size

\* A sender passes semaphore_wait.
LEMMA SpacePromised ==
  ASSUME NEW max \in Nat \ {0}, NEW Q \in Rings(max), Q.space_available > 0,
         NEW r \in Nat, NEW s \in Nat, NEW R, R = [Q EXCEPT !.space_available = @ - 1]
  PROVE  /\ R \in Rings(max) /\ SameRing(Q, R)
         /\ Enough(Q, r, s) => Enough(R, r, s + 1)
         /\ Once(Q, r, s) => Once(R, r, s + 1)
<1>1. PICK n \in 0 .. max, a \in 0 .. max, b \in 0 .. max :
        Q.current_size = n /\ Q.msg_available = a /\ Q.space_available = b
  BY RingFields, Zenon
<1>2. R \in Rings(max)
  BY <1>1 DEF Rings
<1>3. /\ SameRing(Q, R) /\ R.current_size = n /\ R.msg_available = a /\ R.space_available = b - 1
      /\ R.max_size = max /\ Q.max_size = max
  BY <1>1, RingFields, Zenon DEF Rings, SameRing
<1> QED  BY <1>1, <1>2, <1>3 DEF Enough, Once

\* A receiver passes semaphore_wait.
LEMMA MessagePromised ==
  ASSUME NEW max \in Nat \ {0}, NEW Q \in Rings(max), Q.msg_available > 0,
         NEW r \in Nat, NEW s \in Nat, NEW R, R = [Q EXCEPT !.msg_available = @ - 1]
  PROVE  /\ R \in Rings(max) /\ SameRing(Q, R)
         /\ Enough(Q, r, s) => Enough(R, r + 1, s)
         /\ Once(Q, r, s) => Once(R, r + 1, s)
<1>1. PICK n \in 0 .. max, a \in 0 .. max, b \in 0 .. max :
        Q.current_size = n /\ Q.msg_available = a /\ Q.space_available = b
  BY RingFields, Zenon
<1>2. R \in Rings(max)
  BY <1>1 DEF Rings
<1>3. /\ SameRing(Q, R) /\ R.current_size = n /\ R.msg_available = a - 1 /\ R.space_available = b
      /\ R.max_size = max /\ Q.max_size = max
  BY <1>1, RingFields, Zenon DEF Rings, SameRing
<1> QED  BY <1>1, <1>2, <1>3 DEF Enough, Once

\* R has the contents of Q, or m among them where its priority puts it.
Joined(Q, R, m, max) ==
  \/ Contents(R) = Contents(Q)
  \/ /\ Len(Contents(Q)) < max
     /\ \E k \in 0 .. Len(Contents(Q)) : /\ Contents(R) = List!Inserted(Contents(Q), k, m)
                                         /\ PutBehind(Contents(Q), m, k)

\* R has the contents of Q, or all of them but the first.
Delivered(Q, R) ==
  \/ Contents(R) = Contents(Q)
  \/ Contents(Q) # <<>> /\ Contents(R) = Tail(Contents(Q))

\* Q becomes R when a sender of m runs on, one of s + 1 that were granted a place.
PutKeeps(Q, R, m, r, s, max) ==
  /\ R \in Rings(max) /\ Whole(R) /\ Joined(Q, R, m, max)
  /\ Enough(Q, r, s + 1) => Enough(R, r, s)
  /\ Once(Q, r, s + 1) => Once(R, r, s)

\* Q becomes R when a receiver runs on, one of r + 1 that were granted a message.
TakeKeeps(Q, R, r, s, max) ==
  /\ R \in Rings(max) /\ Whole(R) /\ Delivered(Q, R)
  /\ Enough(Q, r + 1, s) => Enough(R, r, s)
  /\ Once(Q, r + 1, s) => Once(R, r, s)

\* A sender that was granted a place runs on.
LEMMA PutStep ==
  ASSUME NEW max \in Nat \ {0}, NEW Q \in Rings(max), Whole(Q), NEW m \in Messages,
         NEW r \in Nat, NEW s \in Nat, NEW R, R = PutMessage(Q, m)
  PROVE  PutKeeps(Q, R, m, r, s, max)
<1>1. PICK n \in 0 .. max, a \in 0 .. max, b \in 0 .. max :
        Q.current_size = n /\ Q.msg_available = a /\ Q.space_available = b
  BY RingFields, Zenon
<1>2. Len(Contents(Q)) = n
  BY <1>1, RingOperations DEF ContentsWork
<1>3. Q.max_size = max
  BY RingFields, Zenon
<1>4. CASE n < max
  <2>1. n \in 0 .. max - 1
    BY <1>4
  <2>2. /\ R \in Rings(max) /\ Whole(R) /\ R.current_size = n + 1 /\ R.space_available = b
        /\ R.msg_available = IF a < max THEN a + 1 ELSE max
    <3>1. PutResult(Q, R, m, n, max)
      BY <1>1, <2>1, RingOperations, Zenon DEF PutWorks
    <3> QED  BY <1>1, <3>1, Zenon DEF PutResult
  <2>3. \E k \in 0 .. n : /\ Contents(R) = List!Inserted(Contents(Q), k, m)
                          /\ PutBehind(Contents(Q), m, k)
    <3>1. PutResult(Q, R, m, n, max)
      BY <1>1, <2>1, RingOperations, Zenon DEF PutWorks
    <3> QED  BY <3>1, Zenon DEF PutResult
  <2>4. Joined(Q, R, m, max)
    BY <1>2, <1>4, <2>3, Zenon DEF Joined
  <2>5. R.max_size = max
    BY <2>2, RingFields, Zenon
  <2>6. Enough(Q, r, s + 1) => Enough(R, r, s)
    BY <1>1, <1>3, <1>4, <2>2, <2>5 DEF Enough
  <2>7. Once(Q, r, s + 1) => Once(R, r, s)
    BY <1>1, <1>3, <1>4, <2>2, <2>5 DEF Once
  <2> QED  BY <2>2, <2>4, <2>6, <2>7, Zenon DEF PutKeeps
<1>5. CASE n = max
  <2>1. Q.current_size = max
    BY <1>1, <1>5, Zenon
  <2>2. /\ R \in Rings(max) /\ Whole(R) /\ R.current_size = max /\ R.msg_available = a
        /\ R.space_available = IF b < max THEN b + 1 ELSE max
    <3>1. PutFullResult(Q, R, max)
      BY <2>1, RingOperations, Zenon DEF PutFullWorks
    <3> QED  BY <1>1, <3>1, Zenon DEF PutFullResult
  <2>3. Joined(Q, R, m, max)
    <3>1. PutFullResult(Q, R, max)
      BY <2>1, RingOperations, Zenon DEF PutFullWorks
    <3> QED  BY <3>1, Zenon DEF PutFullResult, Joined
  <2>4. R.max_size = max
    BY <2>2, RingFields, Zenon
  <2>5. Enough(Q, r, s + 1) => Enough(R, r, s)
    BY <1>1, <1>3, <1>5, <2>2, <2>4 DEF Enough
  <2>6. Once(Q, r, s + 1) => Once(R, r, s)
    BY <1>1, <1>3, <1>5, <2>2, <2>4 DEF Once
  <2> QED  BY <2>2, <2>3, <2>5, <2>6, Zenon DEF PutKeeps
<1> QED  BY <1>4, <1>5

\* A receiver that was granted a message runs on.
LEMMA TakeStep ==
  ASSUME NEW max \in Nat \ {0}, NEW Q \in Rings(max), Whole(Q),
         NEW r \in Nat, NEW s \in Nat, NEW R, R = TakeMessage(Q)
  PROVE  TakeKeeps(Q, R, r, s, max)
<1>1. PICK n \in 0 .. max, a \in 0 .. max, b \in 0 .. max :
        Q.current_size = n /\ Q.msg_available = a /\ Q.space_available = b
  BY RingFields, Zenon
<1>2. Q.max_size = max
  BY RingFields, Zenon
<1>3. CASE n > 0
  <2>1. n \in 1 .. max
    BY <1>3
  <2>2. /\ R \in Rings(max) /\ Whole(R) /\ R.current_size = n - 1 /\ R.msg_available = a
        /\ R.space_available = IF b < max THEN b + 1 ELSE max
    <3>1. TakeResult(Q, R, n, max)
      BY <1>1, <2>1, RingOperations, Zenon DEF TakeWorks
    <3> QED  BY <1>1, <3>1, Zenon DEF TakeResult
  <2>3. Delivered(Q, R)
    <3>1. TakeResult(Q, R, n, max)
      BY <1>1, <2>1, RingOperations, Zenon DEF TakeWorks
    <3> QED  BY <3>1, Zenon DEF TakeResult, Delivered
  <2>4. R.max_size = max
    BY <2>2, RingFields, Zenon
  <2>5. Enough(Q, r + 1, s) => Enough(R, r, s)
    BY <1>1, <1>2, <1>3, <2>2, <2>4 DEF Enough
  <2>6. Once(Q, r + 1, s) => Once(R, r, s)
    BY <1>1, <1>2, <1>3, <2>2, <2>4 DEF Once
  <2> QED  BY <2>2, <2>3, <2>5, <2>6, Zenon DEF TakeKeeps
<1>4. CASE n = 0
  <2>1. Q.current_size = 0
    BY <1>1, <1>4, Zenon
  <2>2. /\ R \in Rings(max) /\ Whole(R) /\ R.current_size = 0 /\ R.space_available = b
        /\ R.msg_available = IF a < max THEN a + 1 ELSE max
    <3>1. TakeEmptyResult(Q, R, max)
      BY <2>1, RingOperations, Zenon DEF TakeEmptyWorks
    <3> QED  BY <1>1, <3>1, Zenon DEF TakeEmptyResult
  <2>3. Delivered(Q, R)
    <3>1. TakeEmptyResult(Q, R, max)
      BY <2>1, RingOperations, Zenon DEF TakeEmptyWorks
    <3> QED  BY <3>1, Zenon DEF TakeEmptyResult, Delivered
  <2>4. R.max_size = max
    BY <2>2, RingFields, Zenon
  <2>5. Enough(Q, r + 1, s) => Enough(R, r, s)
    BY <1>1, <1>2, <1>4, <2>2, <2>4 DEF Enough
  <2>6. Once(Q, r + 1, s) => Once(R, r, s)
    BY <1>1, <1>2, <1>4, <2>2, <2>4 DEF Once
  <2> QED  BY <2>2, <2>3, <2>5, <2>6, Zenon DEF TakeKeeps
<1> QED  BY <1>3, <1>4

\* A task ends: a ring that loses messages has its counts set anew, whoever was promised
\* what, and a ring that does not is left alone.
LEMMA CleanStep ==
  ASSUME NEW max \in Nat \ {0}, NEW Q \in Rings(max), Whole(Q), NEW pid,
         NEW R, R = CleanQueue(Q, pid)
  PROVE  /\ R.current_size = Q.current_size => R = Q
         /\ R.current_size # Q.current_size =>
              Once(R, 0, 0) /\ \A r, s \in Nat : Enough(R, r, s)
<1>0. CleanResult(Q, R, pid, max)
  BY RingOperations, Zenon DEF CleanWorks
<1>1. R \in Rings(max) /\ (R.current_size = Q.current_size => R = Q)
  BY <1>0, Zenon DEF CleanResult
<1>2. CASE R.current_size # Q.current_size
  <2>1. PICK n \in 0 .. max : R.current_size = n
    BY <1>1, RingFields, Zenon
  <2>2. R.msg_available = n /\ R.space_available = max - n
    <3>1. R.msg_available = R.current_size /\ R.space_available = max - R.current_size
      BY <1>0, <1>2, Zenon DEF CleanResult
    <3> QED  BY <2>1, <3>1, Zenon
  <2>3. R.max_size = max
    BY <1>1, RingFields, Zenon
  <2>4. Once(R, 0, 0)
    BY <2>1, <2>2, <2>3 DEF Once
  <2>5. \A r, s \in Nat : Enough(R, r, s)
    BY <2>1, <2>2, <2>3 DEF Enough
  <2> QED  BY <1>2, <2>4, <2>5, Zenon
<1> QED  BY <1>1, <1>2, Zenon

\* A queue that was just made.
LEMMA NewQueueStep ==
  ASSUME NEW max \in Nat \ {0}
  PROVE  Enough(NewQueue(max), 0, 0) /\ Once(NewQueue(max), 0, 0)
<1>1. PICK Q : Q = NewQueue(max)
  BY Zenon
<1>2. Q.msg_available = 0 /\ Q.current_size = 0 /\ Q.space_available = max /\ Q.max_size = max
  BY <1>1, Zenon DEF NewQueue
<1>3. Enough(Q, 0, 0) /\ Once(Q, 0, 0)
  BY <1>2 DEF Enough, Once
<1> QED  BY <1>1, <1>3, Zenon

-----------------------------------------------------------------------------
(* The inductive invariant, in three parts: the queues there are, the registry, and the   *)
(* rings with the calls that use them.                                                    *)

\* No queue is in message_queues twice.
QueuesDistinct ==
  \A i, j \in 1 .. Len(message_queues) : message_queues[i] = message_queues[j] => i = j

QueuesInv ==
  /\ message_queues \in Seq(Queues) /\ Len(message_queues) <= MAX_QUEUES /\ QueuesDistinct

RegistryInv ==
  /\ Sound(task_registry) /\ Bounded(task_registry)
  /\ claims \subseteq Tasks \X Queues /\ allowed \subseteq Tasks \X Queues
  /\ RegistryMatchesCalls

RingsInv ==
  /\ queue = [q \in Queues |-> queue[q]]
  /\ \A q \in Queues : queue[q] \in Rings(Capacity[q]) /\ Whole(queue[q])

\* The memory that create_message_queue gets is not part of a queue.
FreedAreFresh == \A q \in Queues \ Live : queue[q] = NewQueue(Capacity[q])

\* The queue that a call uses has not been destroyed.
CallsAreLive == \A t \in Tasks : pc[t] # "idle" => call[t] # NoCall /\ call[t].queue \in Live

CallsInv ==
  /\ pc \in [Tasks -> {"idle", "waiting", "granted"}] /\ call \in [Tasks -> Calls]
  /\ raced \in BOOLEAN /\ lost \in BOOLEAN
  /\ CallsAreLive

Receivers(q) == Cardinality(Granted(q, "receive"))

Senders(q) == Cardinality(Granted(q, "send"))

Accounted ==
  \A q \in Live : /\ ~ lost => Enough(queue[q], Receivers(q), Senders(q))
                  /\ ~ raced => Once(queue[q], Receivers(q), Senders(q))

IInv ==
  load \in Workloads /\ QueuesInv /\ RegistryInv /\ RingsInv /\ FreedAreFresh /\ CallsInv /\ Accounted

\* The invariant implies what the runs check.
LEMMA Implied == IInv => TypeOK /\ RingIsWhole /\ PlacesAccountedFor /\ RegistryMatchesCalls
<1> SUFFICES ASSUME IInv PROVE TypeOK /\ RingIsWhole /\ PlacesAccountedFor /\ RegistryMatchesCalls
  BY Zenon
<1>1. DOMAIN task_registry = 1 .. Len(task_registry)
  BY DEF IInv, RegistryInv, Sound
<1>2. TypeOK
  BY <1>1, Zenon DEF IInv, QueuesInv, RegistryInv, RingsInv, CallsInv, Sound, Entries, Bounded, TypeOK
<1>3. RingIsWhole
  BY Zenon DEF IInv, RingsInv, Whole, Place, RingIsWhole
<1>4. PlacesAccountedFor
  BY Zenon DEF IInv, Accounted, Enough, Once, Receivers, Senders, PlacesAccountedFor
<1> QED  BY <1>2, <1>3, <1>4, Zenon DEF IInv, RegistryInv

-----------------------------------------------------------------------------
(* The queues there are. *)

\* Live is the range of message_queues.
LEMMA LiveFacts ==
  ASSUME QueuesInv
  PROVE  /\ Len(message_queues) \in Nat /\ DOMAIN message_queues = 1 .. Len(message_queues)
         /\ Live \in SUBSET Queues
         /\ \A q : q \in Live <=> \E i \in 1 .. Len(message_queues) : message_queues[i] = q
BY DEF QueuesInv, Live

\* create_message_queue.
LEMMA QueueAdded ==
  ASSUME QueuesInv, NEW q \in Queues, q \notin Live, Len(message_queues) < MAX_QUEUES,
         message_queues' = Append(message_queues, q)
  PROVE  QueuesInv' /\ Live' = Live \union {q}
<1>1. PICK n \in Nat : n = Len(message_queues)
  BY LiveFacts, Zenon
<1>2. PICK s : s = message_queues
  BY Zenon
<1>3. PICK r : r = message_queues'
  BY Zenon
<1>4. s \in Seq(Queues) /\ Len(s) = n /\ r = Append(s, q)
  BY <1>1, <1>2, <1>3, Zenon DEF QueuesInv
<1>5. /\ r \in Seq(Queues) /\ Len(r) = n + 1 /\ r[n + 1] = q /\ \A i \in 1 .. n : r[i] = s[i]
      /\ DOMAIN r = 1 .. n + 1
  BY <1>4
<1>6. \A i \in 1 .. n + 1 : i \in 1 .. n \/ i = n + 1
  OBVIOUS
<1>7. \A p : p \in Live <=> \E i \in 1 .. n : s[i] = p
  BY <1>1, <1>2, LiveFacts, Zenon
<1>8. \A i, j \in 1 .. n : s[i] = s[j] => i = j
  BY <1>1, <1>2, Zenon DEF QueuesInv, QueuesDistinct
<1>9. \A i, j \in 1 .. n + 1 : r[i] = r[j] => i = j
  BY <1>5, <1>6, <1>7, <1>8, Zenon
<1>10. QueuesInv'
  <2>1. n + 1 <= MAX_QUEUES
    BY <1>1, ServiceAssumption
  <2> QED  BY <1>3, <1>5, <1>9, <2>1, Zenon DEF QueuesInv, QueuesDistinct
<1>11. Live' = {r[i] : i \in 1 .. n + 1}
  BY <1>3, <1>5, Zenon DEF Live
<1>12. ASSUME NEW p PROVE p \in {r[i] : i \in 1 .. n + 1} <=> p \in Live \/ p = q
  <2>1. n + 1 \in 1 .. n + 1 /\ \A i \in 1 .. n : i \in 1 .. n + 1
    OBVIOUS
  <2> QED  BY <1>5, <1>6, <1>7, <2>1
<1> QED  BY <1>10, <1>11, <1>12, Zenon

\* destroy_message_queue: the last queue takes the freed index.
LEMMA QueueRemoved ==
  ASSUME QueuesInv, NEW q, q \in Live, destroy_message_queue(q)
  PROVE  QueuesInv' /\ Live' = Live \ {q}
<1>1. PICK n \in Nat : n = Len(message_queues)
  BY LiveFacts, Zenon
<1>2. PICK s : s = message_queues
  BY Zenon
<1>3. PICK r : r = message_queues'
  BY Zenon
<1>4. s \in Seq(Queues) /\ Len(s) = n
  BY <1>1, <1>2, Zenon DEF QueuesInv
<1>5. \A p : p \in Live <=> \E i \in 1 .. n : s[i] = p
  BY <1>1, <1>2, LiveFacts, Zenon
<1>6. \A i, j \in 1 .. n : s[i] = s[j] => i = j
  BY <1>1, <1>2, Zenon DEF QueuesInv, QueuesDistinct
<1>7. PICK k : k = CHOOSE i \in 1 .. n : s[i] = q
  BY Zenon
<1>8. k \in 1 .. n /\ s[k] = q
  BY <1>5, <1>7, Zenon
<1>9. r = SubSeq([s EXCEPT ![k] = s[n]], 1, n - 1)
  BY <1>1, <1>2, <1>3, <1>7, Zenon DEF destroy_message_queue
<1>10. /\ r \in Seq(Queues) /\ Len(r) = n - 1 /\ DOMAIN r = 1 .. n - 1
       /\ \A i \in 1 .. n - 1 : r[i] = IF i = k THEN s[n] ELSE s[i]
  <2>1. PICK e : e = [s EXCEPT ![k] = s[n]]
    BY Zenon
  <2>2. n \in 1 .. n
    BY <1>8
  <2>3. e \in Seq(Queues) /\ Len(e) = n /\ \A i \in 1 .. n : e[i] = IF i = k THEN s[n] ELSE s[i]
    BY <1>4, <1>8, <2>1, <2>2
  <2> QED  BY <1>8, <1>9, <2>1, <2>3
<1>11. \A i, j \in 1 .. n - 1 : r[i] = r[j] => i = j
  <2> SUFFICES ASSUME NEW i \in 1 .. n - 1, NEW j \in 1 .. n - 1, r[i] = r[j] PROVE i = j
    BY Zenon
  <2>1. PICK a \in 1 .. n : r[i] = s[a] /\ a = (IF i = k THEN n ELSE i)
    BY <1>8, <1>10
  <2>2. PICK b \in 1 .. n : r[j] = s[b] /\ b = (IF j = k THEN n ELSE j)
    BY <1>8, <1>10
  <2>3. a = b
    BY <1>6, <2>1, <2>2, Zenon
  <2> QED  BY <2>1, <2>2, <2>3
<1>12. QueuesInv'
  <2>1. n - 1 <= MAX_QUEUES
    BY <1>1, ServiceAssumption DEF QueuesInv
  <2> QED  BY <1>3, <1>10, <1>11, <2>1, Zenon DEF QueuesInv, QueuesDistinct
<1>13. Live' = {r[i] : i \in 1 .. n - 1}
  BY <1>3, <1>10, Zenon DEF Live
<1>14. ASSUME NEW p, p \in {r[i] : i \in 1 .. n - 1} PROVE p \in Live /\ p # q
  <2>1. PICK i \in 1 .. n - 1 : p = r[i]
    BY <1>14, Zenon
  <2>2. PICK a \in 1 .. n : r[i] = s[a] /\ a = (IF i = k THEN n ELSE i)
    BY <1>8, <1>10
  <2>3. a # k
    BY <1>8, <2>2
  <2> QED  BY <1>5, <1>6, <1>8, <2>1, <2>2, <2>3, Zenon
<1>15. ASSUME NEW p, p \in Live, p # q PROVE p \in {r[i] : i \in 1 .. n - 1}
  <2>1. PICK a \in 1 .. n : s[a] = p /\ a # k
    BY <1>5, <1>8, <1>15, Zenon
  <2>2. PICK i \in 1 .. n - 1 : i = (IF a = n THEN k ELSE a)
    BY <1>8, <2>1
  <2>3. r[i] = p
    BY <1>10, <2>1, <2>2, Zenon
  <2> QED  BY <2>3, Zenon
<1> QED  BY <1>12, <1>13, <1>14, <1>15, Zenon

\* A step that leaves message_queues alone.
LEMMA QueuesKept ==
  ASSUME QueuesInv, UNCHANGED message_queues
  PROVE  QueuesInv' /\ Live' = Live
BY Zenon DEF QueuesInv, QueuesDistinct, Live

-----------------------------------------------------------------------------
(* The registry. *)

\* register_task_queue.
LEMMA RegisterInv ==
  ASSUME RegistryInv, NEW t \in Tasks, NEW q \in Queues, register_task_queue(t, q)
  PROVE  /\ RegistryInv'
         /\ \A u, p : Holds(task_registry, u, 1, p) => Holds(task_registry', u, 1, p)
<1>1. PICK old, new : old = task_registry /\ new = task_registry'
  BY Zenon
<1>2. Sound(old) /\ Bounded(old) /\ new = Registered(old, t, q)
  BY <1>1, Zenon DEF RegistryInv, register_task_queue
<1>0. Sound(new) /\ Bounded(new) /\ Gained(old, new, t, q)
  BY <1>2, RegistryOperations, Zenon DEF RegisterWorks
<1>3. /\ Sound(new) /\ Bounded(new)
      /\ \A u, j, p : Holds(old, u, j, p) => Holds(new, u, j, p)
  BY <1>0, Zenon DEF Gained
<1>4. \A u, j, p : Holds(new, u, j, p) => Holds(old, u, j, p) \/ (u = t /\ p = q)
  BY <1>0, Zenon DEF Gained
<1>5. /\ \A u, p : <<u, p>> \in Registrations(old) <=> \E j : Holds(old, u, j, p)
      /\ \A c \in Registrations(old) : c \in Tasks \X Queues
  BY <1>2, RegistrationsFacts, Zenon
<1>6. /\ \A u, p : <<u, p>> \in Registrations(new) <=> \E j : Holds(new, u, j, p)
      /\ \A c \in Registrations(new) : c \in Tasks \X Queues
  BY <1>3, RegistrationsFacts, Zenon
<1>7. /\ claims' = claims \union (IF HasRoom(old, t) \/ <<t, q>> \in Registrations(old)
                                   THEN {<<t, q>>} ELSE {})
      /\ allowed' = allowed \union {<<t, q>>}
      /\ claims \subseteq Tasks \X Queues /\ allowed \subseteq Tasks \X Queues
      /\ claims \subseteq Registrations(old) /\ Registrations(old) \subseteq allowed
  BY <1>1, Zenon DEF RegistryInv, register_task_queue, RegistryMatchesCalls
<1>8. ASSUME NEW c, c \in Registrations(new) PROVE c \in allowed'
  <2>1. PICK u \in Tasks, p \in Queues : c = <<u, p>>
    BY <1>6, <1>8
  <2>2. PICK j : Holds(new, u, j, p)
    BY <1>6, <1>8, <2>1, Zenon
  <2>3. CASE Holds(old, u, j, p)
    BY <1>5, <1>7, <2>1, <2>3, Zenon
  <2>4. CASE u = t /\ p = q
    BY <1>7, <2>1, <2>4, Zenon
  <2> QED  BY <1>4, <2>2, <2>3, <2>4, SMT
<1>9. ASSUME NEW c, c \in Registrations(old) PROVE c \in Registrations(new)
  <2>1. PICK u \in Tasks, p \in Queues : c = <<u, p>>
    BY <1>5, <1>9
  <2>2. PICK j : Holds(old, u, j, p)
    BY <1>5, <1>9, <2>1, Zenon
  <2> QED  BY <1>3, <1>6, <2>1, <2>2, Zenon
<1>10. HasRoom(old, t) => <<t, q>> \in Registrations(new)
  <2>1. HasRoom(old, t) => \E j : Holds(new, t, j, q)
    BY <1>2, RegistryOperations, Zenon DEF RegisterWorks
  <2> QED  BY <1>6, <2>1, Zenon
<1>11. claims' \subseteq Registrations(new)
  BY <1>7, <1>9, <1>10, Zenon
<1>12. claims' \subseteq Tasks \X Queues /\ allowed' \subseteq Tasks \X Queues
  BY <1>7
<1>13. RegistryInv'
  BY <1>1, <1>3, <1>8, <1>11, <1>12, Zenon DEF RegistryInv, RegistryMatchesCalls
<1> QED  BY <1>1, <1>3, <1>13, Zenon

\* unregister_task_queue.
LEMMA UnregisterInv ==
  ASSUME RegistryInv, NEW t, NEW q, unregister_task_queue(t, q)
  PROVE  /\ RegistryInv'
         /\ \A u, p : Holds(task_registry, u, 1, p) /\ ~ (u = t /\ p = q) =>
                        Holds(task_registry', u, 1, p)
<1>1. PICK old, new : old = task_registry /\ new = task_registry'
  BY Zenon
<1>2. Sound(old) /\ Bounded(old) /\ new = Unregistered(old, t, q)
  BY <1>1, Zenon DEF RegistryInv, unregister_task_queue
<1>0. Sound(new) /\ Bounded(new) /\ Lost(old, new, t, q)
  BY <1>2, RegistryOperations, Zenon DEF UnregisterWorks
<1>3. Sound(new) /\ Bounded(new) /\ \A j : ~ Holds(new, t, j, q)
  BY <1>0, Zenon DEF Lost
<1>4. /\ \A u, j, p : Holds(new, u, j, p) => \E k : Holds(old, u, k, p)
      /\ \A u, j, p : Holds(old, u, j, p) /\ ~ (u = t /\ p = q) => \E k : Holds(new, u, k, p)
      /\ \A u, p : Holds(old, u, 1, p) /\ ~ (u = t /\ p = q) => Holds(new, u, 1, p)
  BY <1>0, Zenon DEF Lost
<1>5. /\ \A u, p : <<u, p>> \in Registrations(old) <=> \E j : Holds(old, u, j, p)
      /\ \A c \in Registrations(old) : c \in Tasks \X Queues
  BY <1>2, RegistrationsFacts, Zenon
<1>6. /\ \A u, p : <<u, p>> \in Registrations(new) <=> \E j : Holds(new, u, j, p)
      /\ \A c \in Registrations(new) : c \in Tasks \X Queues
  BY <1>3, RegistrationsFacts, Zenon
<1>7. /\ claims' = claims \ {<<t, q>>} /\ claims \subseteq Tasks \X Queues
      /\ allowed' = allowed \ {<<t, q>>} /\ allowed \subseteq Tasks \X Queues
      /\ claims \subseteq Registrations(old) /\ Registrations(old) \subseteq allowed
  BY <1>1, Zenon DEF RegistryInv, unregister_task_queue, RegistryMatchesCalls
<1>8. ASSUME NEW c, c \in Registrations(new) PROVE c \in allowed'
  <2>1. PICK u \in Tasks, p \in Queues : c = <<u, p>>
    BY <1>6, <1>8
  <2>2. PICK j : Holds(new, u, j, p)
    BY <1>6, <1>8, <2>1, Zenon
  <2>3. c \in allowed
    BY <1>4, <1>5, <1>7, <2>1, <2>2, Zenon
  <2>4. ~ (u = t /\ p = q)
    BY <1>3, <2>2, Zenon
  <2>5. c # <<t, q>>
    BY <2>1, <2>4, Zenon
  <2> QED  BY <1>7, <2>3, <2>5, Zenon
<1>9. ASSUME NEW c, c \in claims' PROVE c \in Registrations(new)
  <2>1. c \in claims /\ c # <<t, q>> /\ c \in Registrations(old)
    BY <1>7, <1>9, Zenon
  <2>2. PICK u \in Tasks, p \in Queues : c = <<u, p>>
    BY <1>7, <2>1
  <2>3. PICK j : Holds(old, u, j, p)
    BY <1>5, <2>1, <2>2, Zenon
  <2>4. ~ (u = t /\ p = q)
    BY <2>1, <2>2, Zenon
  <2>5. \E k : Holds(new, u, k, p)
    BY <1>4, <2>3, <2>4, SMT
  <2> QED  BY <1>6, <2>2, <2>5, Zenon
<1>10. claims' \subseteq Tasks \X Queues /\ allowed' \subseteq Tasks \X Queues
  BY <1>7, Zenon
<1>11. RegistryInv'
  BY <1>1, <1>3, <1>8, <1>9, <1>10, Zenon DEF RegistryInv, RegistryMatchesCalls
<1> QED  BY <1>1, <1>4, <1>11, Zenon

\* cleanup_task_queues.
LEMMA CleanupInv ==
  ASSUME RegistryInv, NEW t, cleanup_task_queues(t)
  PROVE  /\ RegistryInv'
         /\ \A u, p : Holds(task_registry, u, 1, p) /\ u # t => Holds(task_registry', u, 1, p)
<1>1. PICK old, new : old = task_registry /\ new = task_registry'
  BY Zenon
<1>2. Sound(old) /\ Bounded(old) /\ new = WithoutEntry(old, t)
  BY <1>1, Zenon DEF RegistryInv, cleanup_task_queues
<1>3. /\ Sound(new) /\ Bounded(new)
      /\ \A u, j, p : Holds(new, u, j, p) <=> Holds(old, u, j, p) /\ u # t
  BY <1>2, RegistryOperations, Zenon DEF CleanupWorks
<1>4. /\ \A u, p : <<u, p>> \in Registrations(old) <=> \E j : Holds(old, u, j, p)
      /\ \A c \in Registrations(old) : c \in Tasks \X Queues
  BY <1>2, RegistrationsFacts, Zenon
<1>5. /\ \A u, p : <<u, p>> \in Registrations(new) <=> \E j : Holds(new, u, j, p)
      /\ \A c \in Registrations(new) : c \in Tasks \X Queues
  BY <1>3, RegistrationsFacts, Zenon
<1>6. /\ claims' = {c \in claims : c[1] # t} /\ claims \subseteq Tasks \X Queues
      /\ allowed' = {c \in allowed : c[1] # t} /\ allowed \subseteq Tasks \X Queues
      /\ claims \subseteq Registrations(old) /\ Registrations(old) \subseteq allowed
  BY <1>1, Zenon DEF RegistryInv, cleanup_task_queues, RegistryMatchesCalls
<1>7. ASSUME NEW c, c \in Registrations(new) PROVE c \in allowed'
  <2>1. PICK u \in Tasks, p \in Queues : c = <<u, p>>
    BY <1>5, <1>7
  <2>2. PICK j : Holds(new, u, j, p)
    BY <1>5, <1>7, <2>1, Zenon
  <2>3. c \in allowed /\ u # t
    BY <1>3, <1>4, <1>6, <2>1, <2>2, Zenon
  <2> QED  BY <1>6, <2>1, <2>3, Zenon
<1>8. ASSUME NEW c, c \in claims' PROVE c \in Registrations(new)
  <2>1. c \in claims /\ c[1] # t /\ c \in Registrations(old)
    BY <1>6, <1>8, Zenon
  <2>2. PICK u \in Tasks, p \in Queues : c = <<u, p>>
    BY <1>6, <2>1
  <2>3. PICK j : Holds(old, u, j, p)
    BY <1>4, <2>1, <2>2, Zenon
  <2>4. u # t
    BY <2>1, <2>2, Zenon
  <2> QED  BY <1>3, <1>5, <2>2, <2>3, <2>4, Zenon
<1>9. claims' \subseteq Tasks \X Queues /\ allowed' \subseteq Tasks \X Queues
  BY <1>6, Zenon
<1>10. RegistryInv'
  BY <1>1, <1>3, <1>7, <1>8, <1>9, Zenon DEF RegistryInv, RegistryMatchesCalls
<1> QED  BY <1>1, <1>3, <1>10, Zenon

\* The registry is left alone, by a step that can take away claims and explain more.
LeftAlone ==
  /\ task_registry' = task_registry
  /\ claims' \subseteq claims
  /\ allowed' \subseteq allowed \union (Tasks \X Queues)
  /\ \A c \in Registrations(task_registry) : c \in allowed => c \in allowed'

\* create_message_queue, destroy_message_queue and the calls on queues.
LEMMA RegistryKept ==
  ASSUME RegistryInv, LeftAlone
  PROVE  RegistryInv'
<1>1. Sound(task_registry') /\ Bounded(task_registry')
  BY Zenon DEF RegistryInv, LeftAlone
<1>2. claims' \subseteq Tasks \X Queues /\ allowed' \subseteq Tasks \X Queues
  BY Zenon DEF RegistryInv, LeftAlone
<1>3. RegistryMatchesCalls'
  BY Zenon DEF RegistryInv, RegistryMatchesCalls, LeftAlone
<1> QED  BY <1>1, <1>2, <1>3, Zenon DEF RegistryInv

-----------------------------------------------------------------------------
(* The tasks that were granted a place and have yet to run. *)

\* Sets of tasks are finite.
LEMMA TaskSets ==
  ASSUME NEW G, G \in SUBSET Tasks
  PROVE  /\ IsFiniteSet(G) /\ Cardinality(G) \in Nat /\ (Cardinality(G) = 0 <=> G = {})
         /\ \A t : t \in G => Cardinality(G) = Cardinality(G \ {t}) + 1
         /\ \A t \in Tasks : t \notin G => Cardinality(G \union {t}) = Cardinality(G) + 1
<1>1. IsFiniteSet(Tasks)
  BY ServiceAssumption, Zenon
<1>2. IsFiniteSet(G)
  BY <1>1, FS_Subset, Zenon
<1>3. Cardinality(G) \in Nat /\ (Cardinality(G) = 0 <=> G = {})
  BY <1>2, FS_CardinalityType, FS_EmptySet, Zenon
<1>4. ASSUME NEW t, t \in G PROVE Cardinality(G) = Cardinality(G \ {t}) + 1
  <2>1. Cardinality(G \ {t}) = Cardinality(G) - 1
    BY <1>2, <1>4, FS_RemoveElement, Zenon
  <2> QED  BY <1>3, <2>1
<1>5. ASSUME NEW t, t \notin G PROVE Cardinality(G \union {t}) = Cardinality(G) + 1
  BY <1>2, <1>5, FS_AddElement, Zenon
<1> QED  BY <1>2, <1>3, <1>4, <1>5, Zenon

\* A task that was granted a place is in a call that uses that queue.
LEMMA GrantedFacts ==
  ASSUME NEW q
  PROVE  /\ Receivers(q) \in Nat /\ Senders(q) \in Nat
         /\ \A op : Granted(q, op) \in SUBSET Tasks
<1>1. \A op : Granted(q, op) \in SUBSET Tasks
  BY Zenon DEF Granted, InCall
<1>2. Granted(q, "receive") \in SUBSET Tasks /\ Granted(q, "send") \in SUBSET Tasks
  BY <1>1, Zenon
<1> QED  BY <1>1, <1>2, TaskSets, Zenon DEF Receivers, Senders

\* The counts as they are after the step.
LEMMA GrantedNext ==
  ASSUME NEW q
  PROVE  /\ Receivers(q)' \in Nat /\ Senders(q)' \in Nat
         /\ \A op : Granted(q, op)' \in SUBSET Tasks
<1>1. \A op : Granted(q, op)' \in SUBSET Tasks
  BY Zenon DEF Granted, InCall
<1>2. Granted(q, "receive")' \in SUBSET Tasks /\ Granted(q, "send")' \in SUBSET Tasks
  BY <1>1, Zenon
<1> QED  BY <1>1, <1>2, TaskSets, Zenon DEF Receivers, Senders

\* Calls other than t's are as they were, and t has not been granted a place.
LEMMA GrantedLoses ==
  ASSUME CallsInv, NEW t \in Tasks, NEW v, v # "granted", NEW c,
         pc' = [pc EXCEPT ![t] = v], call' = [call EXCEPT ![t] = c]
  PROVE  \A q, op : Granted(q, op)' = Granted(q, op) \ {t}
<1>1. \A u \in Tasks : u # t => pc'[u] = pc[u] /\ call'[u] = call[u]
  BY Zenon DEF CallsInv
<1>2. pc'[t] # "granted"
  BY Zenon DEF CallsInv
<1> SUFFICES ASSUME NEW q, NEW op PROVE Granted(q, op)' = Granted(q, op) \ {t}
  BY Zenon
<1>3. \A u : u \in Granted(q, op)' <=>
               u \in Tasks /\ pc'[u] # "idle" /\ call'[u].queue = q /\ pc'[u] = "granted" /\ call'[u].op = op
  BY Zenon DEF Granted, InCall
<1>4. \A u : u \in Granted(q, op) <=>
               u \in Tasks /\ pc[u] # "idle" /\ call[u].queue = q /\ pc[u] = "granted" /\ call[u].op = op
  BY Zenon DEF Granted, InCall
<1>5. ASSUME NEW u, u \in Granted(q, op)' PROVE u \in Granted(q, op) \ {t}
  <2>1. u \in Tasks /\ u # t
    BY <1>2, <1>3, <1>5, Zenon
  <2> QED  BY <1>1, <1>3, <1>4, <1>5, <2>1, Zenon
<1>6. ASSUME NEW u, u \in Granted(q, op), u # t PROVE u \in Granted(q, op)'
  <2>1. u \in Tasks /\ pc'[u] = pc[u] /\ call'[u] = call[u]
    BY <1>1, <1>4, <1>6, Zenon
  <2>2. pc[u] # "idle" /\ call[u].queue = q /\ pc[u] = "granted" /\ call[u].op = op
    BY <1>4, <1>6, Zenon
  <2> QED  BY <1>3, <2>1, <2>2, Zenon
<1> QED  BY <1>5, <1>6, Zenon

\* A task that was not granted a place is not counted.
LEMMA CountsKept ==
  ASSUME CallsInv, NEW t \in Tasks, pc[t] # "granted", NEW v, v # "granted", NEW c,
         pc' = [pc EXCEPT ![t] = v], call' = [call EXCEPT ![t] = c]
  PROVE  \A q : Receivers(q)' = Receivers(q) /\ Senders(q)' = Senders(q)
<1>1. \A q, op : Granted(q, op)' = Granted(q, op) \ {t}
  BY GrantedLoses, Zenon
<1>2. \A q, op : t \notin Granted(q, op)
  BY Zenon DEF Granted
<1>3. \A q, op : Granted(q, op)' = Granted(q, op)
  BY <1>1, <1>2, Zenon
<1> QED  BY <1>3, Zenon DEF Receivers, Senders

\* A step that leaves the calls alone leaves the counts alone.
LEMMA CountsSame ==
  ASSUME UNCHANGED <<pc, call>>
  PROVE  \A q : Receivers(q)' = Receivers(q) /\ Senders(q)' = Senders(q)
BY Zenon DEF Receivers, Senders, Granted, InCall

\* What a call is about.
LEMMA CallFields ==
  ASSUME NEW c \in Calls, c # NoCall
  PROVE  c.queue \in Queues /\ (c.op = "receive" \/ (c.op = "send" /\ c.message \in Messages))
BY Zenon DEF Calls

\* One more task is counted by its queue when a semaphore lets it pass.
LEMMA CountsGrow ==
  ASSUME CallsInv, NEW t \in Tasks, pc[t] = "waiting", pc' = [pc EXCEPT ![t] = "granted"],
         UNCHANGED call, NEW q, q = call[t].queue
  PROVE  /\ \A p : p # q => Receivers(p)' = Receivers(p) /\ Senders(p)' = Senders(p)
         /\ call[t].op = "send" => Receivers(q)' = Receivers(q) /\ Senders(q)' = Senders(q) + 1
         /\ call[t].op = "receive" => Receivers(q)' = Receivers(q) + 1 /\ Senders(q)' = Senders(q)
<1>1. (\A u \in Tasks : u # t => pc'[u] = pc[u]) /\ pc'[t] = "granted"
  BY Zenon DEF CallsInv
<1>2. \A p, op : t \notin Granted(p, op)
  <2>1. "waiting" # "granted"
    BY Zenon
  <2> QED  BY <2>1, Zenon DEF Granted
<1>3. ASSUME NEW p, NEW op PROVE /\ p # q \/ op # call[t].op => Granted(p, op)' = Granted(p, op)
                                 /\ p = q /\ op = call[t].op =>
                                      Granted(p, op)' = Granted(p, op) \union {t}
  <2>1. \A u : u \in Granted(p, op)' <=>
                 u \in Tasks /\ pc'[u] # "idle" /\ call[u].queue = p /\ pc'[u] = "granted" /\ call[u].op = op
    BY Zenon DEF Granted, InCall
  <2>2. \A u : u \in Granted(p, op) <=>
                 u \in Tasks /\ pc[u] # "idle" /\ call[u].queue = p /\ pc[u] = "granted" /\ call[u].op = op
    BY Zenon DEF Granted, InCall
  <2>3. \A u : u # t => (u \in Granted(p, op)' <=> u \in Granted(p, op))
    BY <1>1, <2>1, <2>2, Zenon
  <2>4. t \in Granted(p, op)' <=> p = q /\ op = call[t].op
    <3>1. "granted" # "idle"
      BY Zenon
    <3> QED  BY <1>1, <2>1, <3>1, Zenon
  <2>5. CASE p = q /\ op = call[t].op
    <3>1. \A u : u \in Granted(p, op)' <=> u \in Granted(p, op) \union {t}
      BY <2>3, <2>4, <2>5, Zenon
    <3>2. Granted(p, op)' = Granted(p, op) \union {t}
      BY <3>1, Zenon
    <3> QED  BY <2>5, <3>2, Zenon
  <2>6. CASE ~ (p = q /\ op = call[t].op)
    <3>1. \A u : u \in Granted(p, op)' <=> u \in Granted(p, op)
      BY <1>2, <2>3, <2>4, <2>6, Zenon
    <3>2. Granted(p, op)' = Granted(p, op)
      BY <3>1, Zenon
    <3> QED  BY <2>6, <3>2, Zenon
  <2> QED  BY <2>5, <2>6, Zenon
<1>4. \A op : Cardinality(Granted(q, op) \union {t}) = Cardinality(Granted(q, op)) + 1
  BY <1>2, GrantedFacts, TaskSets, Zenon
<1>5. ASSUME NEW p, p # q PROVE Receivers(p)' = Receivers(p) /\ Senders(p)' = Senders(p)
  BY <1>3, <1>5, Zenon DEF Receivers, Senders
<1>6. ASSUME call[t].op = "send"
      PROVE  Receivers(q)' = Receivers(q) /\ Senders(q)' = Senders(q) + 1
  <2>1. Granted(q, "receive")' = Granted(q, "receive")
    BY <1>3, <1>6, Zenon
  <2>2. Granted(q, "send")' = Granted(q, "send") \union {t}
    BY <1>3, <1>6, Zenon
  <2> QED  BY <1>4, <2>1, <2>2, Zenon DEF Receivers, Senders
<1>7. ASSUME call[t].op = "receive"
      PROVE  Receivers(q)' = Receivers(q) + 1 /\ Senders(q)' = Senders(q)
  <2>1. Granted(q, "send")' = Granted(q, "send")
    BY <1>3, <1>7, Zenon
  <2>2. Granted(q, "receive")' = Granted(q, "receive") \union {t}
    BY <1>3, <1>7, Zenon
  <2> QED  BY <1>4, <2>1, <2>2, Zenon DEF Receivers, Senders
<1> QED  BY <1>5, <1>6, <1>7, Zenon

\* One task less is counted by its queue when it runs on.
LEMMA CountsShrink ==
  ASSUME CallsInv, NEW t \in Tasks, pc[t] = "granted", pc' = [pc EXCEPT ![t] = "idle"],
         NEW c, call' = [call EXCEPT ![t] = c], NEW q, q = call[t].queue
  PROVE  /\ \A p : p # q => Receivers(p)' = Receivers(p) /\ Senders(p)' = Senders(p)
         /\ call[t].op = "send" => Receivers(q) = Receivers(q)' /\ Senders(q) = Senders(q)' + 1
         /\ call[t].op = "receive" => Receivers(q) = Receivers(q)' + 1 /\ Senders(q) = Senders(q)'
<1>1. \A p, op : Granted(p, op)' = Granted(p, op) \ {t}
  <2>1. "idle" # "granted"
    BY Zenon
  <2> QED  BY <2>1, GrantedLoses, Zenon
<1>2. \A p, op : t \in Granted(p, op) <=> p = q /\ op = call[t].op
  <2>1. "granted" # "idle"
    BY Zenon
  <2> QED  BY <2>1, Zenon DEF Granted, InCall
<1>3. ASSUME NEW p, NEW op, t \notin Granted(p, op) PROVE Granted(p, op)' = Granted(p, op)
  <2>1. Granted(p, op) \ {t} = Granted(p, op)
    BY <1>3, Zenon
  <2> QED  BY <1>1, <2>1, Zenon
<1>4. \A op : t \in Granted(q, op) =>
                Cardinality(Granted(q, op)) = Cardinality(Granted(q, op) \ {t}) + 1
  BY GrantedFacts, TaskSets, Zenon
<1>5. ASSUME NEW p, p # q PROVE Receivers(p)' = Receivers(p) /\ Senders(p)' = Senders(p)
  BY <1>2, <1>3, <1>5, Zenon DEF Receivers, Senders
<1>6. ASSUME call[t].op = "send"
      PROVE  Receivers(q) = Receivers(q)' /\ Senders(q) = Senders(q)' + 1
  <2>1. t \notin Granted(q, "receive") /\ t \in Granted(q, "send")
    BY <1>2, <1>6
  <2> QED  BY <1>1, <1>3, <1>4, <2>1, Zenon DEF Receivers, Senders
<1>7. ASSUME call[t].op = "receive"
      PROVE  Receivers(q) = Receivers(q)' + 1 /\ Senders(q) = Senders(q)'
  <2>1. t \notin Granted(q, "send") /\ t \in Granted(q, "receive")
    BY <1>2, <1>7
  <2> QED  BY <1>1, <1>3, <1>4, <2>1, Zenon DEF Receivers, Senders
<1> QED  BY <1>5, <1>6, <1>7, Zenon

-----------------------------------------------------------------------------
(* The rings and the calls that use them. *)

MessagesInv == RingsInv /\ FreedAreFresh /\ CallsInv /\ Accounted

\* One ring is replaced by another.
LEMMA RingSet ==
  ASSUME RingsInv, NEW q \in Queues, NEW R, R \in Rings(Capacity[q]), Whole(R),
         queue' = [queue EXCEPT ![q] = R]
  PROVE  /\ RingsInv' /\ queue'[q] = R
         /\ \A p \in Queues : p # q => queue'[p] = queue[p]
<1>1. queue'[q] = R /\ \A p \in Queues : p # q => queue'[p] = queue[p]
  BY Zenon DEF RingsInv
<1>2. queue' = [p \in Queues |-> queue'[p]]
  BY Zenon DEF RingsInv
<1>3. \A p \in Queues : queue'[p] \in Rings(Capacity[p]) /\ Whole(queue'[p])
  BY <1>1, Zenon DEF RingsInv
<1> QED  BY <1>1, <1>2, <1>3, Zenon DEF RingsInv

\* The ring of a queue.
LEMMA RingOf ==
  ASSUME RingsInv, NEW q \in Queues
  PROVE  Capacity[q] \in Nat \ {0} /\ queue[q] \in Rings(Capacity[q]) /\ Whole(queue[q])
BY ServiceAssumption, Zenon DEF RingsInv

\* Only queues that exist are used.
LEMMA FreshKept ==
  ASSUME FreedAreFresh, Live' = Live, NEW q \in Live,
         \A p \in Queues : p # q => queue'[p] = queue[p]
  PROVE  FreedAreFresh'
BY Zenon DEF FreedAreFresh

\* A task starts, or ends, a call.
LEMMA CallsSet ==
  ASSUME CallsInv, NEW t \in Tasks, NEW v \in {"idle", "waiting", "granted"}, NEW c \in Calls,
         v # "idle" => c # NoCall /\ c.queue \in Live, Live' = Live,
         pc' = [pc EXCEPT ![t] = v], call' = [call EXCEPT ![t] = c],
         raced' \in BOOLEAN, lost' \in BOOLEAN
  PROVE  CallsInv'
<1>1. pc' \in [Tasks -> {"idle", "waiting", "granted"}] /\ call' \in [Tasks -> Calls]
  BY Zenon DEF CallsInv
<1>2. \A u \in Tasks : pc'[u] # "idle" => call'[u] # NoCall /\ call'[u].queue \in Live
  <2>1. pc'[t] = v /\ call'[t] = c /\ \A u \in Tasks : u # t => pc'[u] = pc[u] /\ call'[u] = call[u]
    BY Zenon DEF CallsInv
  <2> QED  BY <2>1, Zenon DEF CallsInv, CallsAreLive
<1> QED  BY <1>1, <1>2, Zenon DEF CallsInv, CallsAreLive

\* What remains true of one queue when the counts of the others and their rings stay.
LEMMA AccountedKept ==
  ASSUME Accounted, Live' = Live, UNCHANGED <<raced, lost>>, NEW q \in Live, Live \in SUBSET Queues,
         \A p \in Queues : p # q => queue'[p] = queue[p],
         \A p : p # q => Receivers(p)' = Receivers(p) /\ Senders(p)' = Senders(p),
         Enough(queue[q], Receivers(q), Senders(q)) => Enough(queue'[q], Receivers(q)', Senders(q)'),
         Once(queue[q], Receivers(q), Senders(q)) => Once(queue'[q], Receivers(q)', Senders(q)')
  PROVE  Accounted'
<1>1. ASSUME NEW p \in Live, p # q
      PROVE  /\ ~ lost => Enough(queue'[p], Receivers(p)', Senders(p)')
             /\ ~ raced => Once(queue'[p], Receivers(p)', Senders(p)')
  <2>1. queue'[p] = queue[p] /\ Receivers(p)' = Receivers(p) /\ Senders(p)' = Senders(p)
    BY <1>1, Zenon
  <2> QED  BY <2>1, Zenon DEF Accounted
<1>2. /\ ~ lost => Enough(queue'[q], Receivers(q)', Senders(q)')
      /\ ~ raced => Once(queue'[q], Receivers(q)', Senders(q)')
  BY Zenon DEF Accounted
<1>3. \A p \in Live : /\ ~ lost => Enough(queue'[p], Receivers(p)', Senders(p)')
                      /\ ~ raced => Once(queue'[p], Receivers(p)', Senders(p)')
  BY <1>1, <1>2, Zenon
<1> QED  BY <1>3, Zenon DEF Accounted

\* create_message_queue.
LEMMA CreateInv ==
  ASSUME QueuesInv, MessagesInv, NEW q \in Queues, create_message_queue(q)
  PROVE  QueuesInv' /\ MessagesInv' /\ Live' = Live \union {q} /\ queue' = queue
<1>1. /\ q \notin Live /\ Len(message_queues) < MAX_QUEUES
      /\ message_queues' = Append(message_queues, q)
      /\ queue' = [queue EXCEPT ![q] = NewQueue(Capacity[q])]
      /\ UNCHANGED <<pc, call, raced, lost>>
  BY Zenon DEF create_message_queue
<1>2. QueuesInv' /\ Live' = Live \union {q}
  BY <1>1, QueueAdded, Zenon
<1>3. queue' = queue
  <2>1. queue[q] = NewQueue(Capacity[q])
    BY <1>1, Zenon DEF MessagesInv, FreedAreFresh
  <2>2. queue = [p \in Queues |-> queue[p]]
    BY Zenon DEF MessagesInv, RingsInv
  <2> QED  BY <1>1, <2>1, <2>2, Zenon
<1>4. RingsInv' /\ FreedAreFresh'
  BY <1>2, <1>3, Zenon DEF MessagesInv, RingsInv, FreedAreFresh
<1>5. CallsInv'
  BY <1>1, <1>2, Zenon DEF MessagesInv, CallsInv, CallsAreLive
<1>6. \A p : Receivers(p)' = Receivers(p) /\ Senders(p)' = Senders(p)
  BY <1>1, CountsSame, Zenon
<1>7. Receivers(q) = 0 /\ Senders(q) = 0
  <2>1. Granted(q, "receive") = {} /\ Granted(q, "send") = {}
    BY <1>1, Zenon DEF MessagesInv, CallsInv, CallsAreLive, Granted, InCall
  <2> QED  BY <2>1, GrantedFacts, TaskSets, Zenon DEF Receivers, Senders
<1>8. Enough(queue[q], 0, 0) /\ Once(queue[q], 0, 0)
  <2>1. queue[q] = NewQueue(Capacity[q]) /\ Capacity[q] \in Nat \ {0}
    BY <1>1, RingOf, Zenon DEF MessagesInv, FreedAreFresh
  <2> QED  BY <2>1, NewQueueStep, Zenon
<1>9. Accounted'
  <2>1. \A p \in Live \union {q} : /\ ~ lost => Enough(queue[p], Receivers(p), Senders(p))
                                   /\ ~ raced => Once(queue[p], Receivers(p), Senders(p))
    BY <1>7, <1>8, Zenon DEF MessagesInv, Accounted
  <2> QED  BY <1>1, <1>2, <1>3, <1>6, <2>1, Zenon DEF Accounted
<1> QED  BY <1>2, <1>3, <1>4, <1>5, <1>9, Zenon DEF MessagesInv

\* destroy_message_queue.
LEMMA DestroyInv ==
  ASSUME QueuesInv, MessagesInv, NEW q, destroy_message_queue(q)
  PROVE  /\ QueuesInv' /\ MessagesInv' /\ Live' = Live \ {q} /\ q \in Queues
         /\ queue' = [queue EXCEPT ![q] = NewQueue(Capacity[q])]
<1>1. /\ q \in Live /\ InCall(q) = {}
      /\ queue' = [queue EXCEPT ![q] = NewQueue(Capacity[q])]
      /\ UNCHANGED <<pc, call, raced, lost>>
  BY Zenon DEF destroy_message_queue
<1>2. QueuesInv' /\ Live' = Live \ {q}
  BY <1>1, QueueRemoved, Zenon
<1>3. q \in Queues /\ Live \in SUBSET Queues
  BY <1>1, LiveFacts, Zenon
<1>4. Capacity[q] \in Nat \ {0}
  BY <1>3, RingOf, Zenon DEF MessagesInv
<1>5. PICK R : R = NewQueue(Capacity[q])
  BY Zenon
<1>6. R \in Rings(Capacity[q]) /\ Whole(R) /\ queue' = [queue EXCEPT ![q] = R]
  BY <1>1, <1>4, <1>5, NewQueueFacts, Zenon
<1>7. RingsInv' /\ queue'[q] = R /\ \A p \in Queues : p # q => queue'[p] = queue[p]
  BY <1>3, <1>6, RingSet, Zenon DEF MessagesInv
<1>8. FreedAreFresh'
  BY <1>2, <1>5, <1>7, Zenon DEF MessagesInv, FreedAreFresh
<1>9. CallsInv'
  <2>1. \A t \in Tasks : pc[t] # "idle" => call[t].queue # q
    BY <1>1, Zenon DEF InCall
  <2> QED  BY <1>1, <1>2, <2>1, Zenon DEF MessagesInv, CallsInv, CallsAreLive
<1>10. \A p : Receivers(p)' = Receivers(p) /\ Senders(p)' = Senders(p)
  BY <1>1, CountsSame, Zenon
<1>11. Accounted'
  <2>1. \A p \in Live \ {q} : /\ queue'[p] = queue[p]
                              /\ ~ lost => Enough(queue[p], Receivers(p), Senders(p))
                              /\ ~ raced => Once(queue[p], Receivers(p), Senders(p))
    BY <1>3, <1>7, Zenon DEF MessagesInv, Accounted
  <2> QED  BY <1>1, <1>2, <1>10, <2>1, Zenon DEF Accounted
<1> QED  BY <1>1, <1>2, <1>3, <1>7, <1>8, <1>9, <1>11, Zenon DEF MessagesInv

\* A step that uses neither rings nor calls.
LEMMA MessagesKept ==
  ASSUME QueuesInv, MessagesInv, UNCHANGED <<message_queues, queue, pc, call, raced, lost>>
  PROVE  QueuesInv' /\ MessagesInv' /\ Live' = Live
<1>1. QueuesInv' /\ Live' = Live
  BY QueuesKept, Zenon
<1>2. \A p : Receivers(p)' = Receivers(p) /\ Senders(p)' = Senders(p)
  BY CountsSame, Zenon
<1>3. Accounted'
  BY <1>1, <1>2, Zenon DEF MessagesInv, Accounted
<1>4. RingsInv' /\ FreedAreFresh'
  BY <1>1, Zenon DEF MessagesInv, RingsInv, FreedAreFresh
<1>5. CallsInv'
  BY <1>1, Zenon DEF MessagesInv, CallsInv, CallsAreLive
<1> QED  BY <1>1, <1>3, <1>4, <1>5, Zenon DEF MessagesInv

\* What a step of a call may do to the lists that the rings stand for.
Sent(q, m) ==
  /\ \A p \in Queues : p # q => queue'[p] = queue[p]
  /\ Joined(queue[q], queue'[q], m, Capacity[q])

Received(q) ==
  /\ \A p \in Queues : p # q => queue'[p] = queue[p]
  /\ Delivered(queue[q], queue'[q])

CallStep ==
  \/ queue' = queue
  \/ \E q \in Live, m \in Messages : Sent(q, m)
  \/ \E q \in Live : Received(q)

\* A step of a call of task t, which leaves queue q with ring R.
LEMMA CallInv ==
  ASSUME QueuesInv, MessagesInv, NEW t \in Tasks, NEW q \in Live, NEW R,
         R \in Rings(Capacity[q]), Whole(R), queue' = [queue EXCEPT ![q] = R],
         NEW v \in {"idle", "waiting", "granted"}, NEW c \in Calls,
         v # "idle" => c # NoCall /\ c.queue \in Live,
         pc' = [pc EXCEPT ![t] = v], call' = [call EXCEPT ![t] = c],
         UNCHANGED <<message_queues, raced, lost>>,
         \A p : p # q => Receivers(p)' = Receivers(p) /\ Senders(p)' = Senders(p),
         Enough(queue[q], Receivers(q), Senders(q)) => Enough(R, Receivers(q)', Senders(q)'),
         Once(queue[q], Receivers(q), Senders(q)) => Once(R, Receivers(q)', Senders(q)')
  PROVE  QueuesInv' /\ MessagesInv' /\ Live' = Live
<1>1. QueuesInv' /\ Live' = Live
  BY QueuesKept, Zenon
<1>2. Live \in SUBSET Queues /\ q \in Queues
  BY LiveFacts, Zenon
<1>3. RingsInv' /\ queue'[q] = R /\ \A p \in Queues : p # q => queue'[p] = queue[p]
  BY <1>2, RingSet, Zenon DEF MessagesInv
<1>4. FreedAreFresh'
  BY <1>1, <1>3, FreshKept, Zenon DEF MessagesInv
<1>5. CallsInv'
  <2>1. raced' \in BOOLEAN /\ lost' \in BOOLEAN
    BY Zenon DEF MessagesInv, CallsInv
  <2> QED  BY <1>1, <2>1, CallsSet, Zenon DEF MessagesInv
<1>6. Accounted'
  <2>1. /\ Enough(queue[q], Receivers(q), Senders(q)) => Enough(queue'[q], Receivers(q)', Senders(q)')
        /\ Once(queue[q], Receivers(q), Senders(q)) => Once(queue'[q], Receivers(q)', Senders(q)')
    BY <1>3, Zenon
  <2> QED  BY <1>1, <1>2, <1>3, <2>1, AccountedKept, Zenon DEF MessagesInv
<1> QED  BY <1>1, <1>3, <1>4, <1>5, <1>6, Zenon DEF MessagesInv

\* A step of a call that uses no ring and counts for none.
LEMMA WaitInv ==
  ASSUME QueuesInv, MessagesInv, NEW t \in Tasks, pc[t] # "granted",
         NEW v \in {"idle", "waiting"}, NEW c \in Calls,
         v # "idle" => c # NoCall /\ c.queue \in Live,
         pc' = [pc EXCEPT ![t] = v], call' = [call EXCEPT ![t] = c],
         UNCHANGED <<message_queues, queue, raced, lost>>
  PROVE  QueuesInv' /\ MessagesInv' /\ Live' = Live
<1>1. QueuesInv' /\ Live' = Live
  BY QueuesKept, Zenon
<1>2. v \in {"idle", "waiting", "granted"} /\ v # "granted"
  BY Zenon
<1>3. CallsInv'
  <2>1. raced' \in BOOLEAN /\ lost' \in BOOLEAN
    BY Zenon DEF MessagesInv, CallsInv
  <2> QED  BY <1>1, <1>2, <2>1, CallsSet, Zenon DEF MessagesInv
<1>4. \A p : Receivers(p)' = Receivers(p) /\ Senders(p)' = Senders(p)
  BY <1>2, CountsKept, Zenon DEF MessagesInv
<1>5. Accounted'
  BY <1>1, <1>4, Zenon DEF MessagesInv, Accounted
<1>6. RingsInv' /\ FreedAreFresh'
  BY <1>1, Zenon DEF MessagesInv, RingsInv, FreedAreFresh
<1> QED  BY <1>1, <1>3, <1>5, <1>6, Zenon DEF MessagesInv

\* The same when the calls are left alone.
LEMMA DirectInv ==
  ASSUME QueuesInv, MessagesInv, NEW q \in Live, NEW R,
         R \in Rings(Capacity[q]), Whole(R), queue' = [queue EXCEPT ![q] = R],
         UNCHANGED <<message_queues, pc, call, raced, lost>>,
         Enough(queue[q], Receivers(q), Senders(q)) => Enough(R, Receivers(q), Senders(q)),
         Once(queue[q], Receivers(q), Senders(q)) => Once(R, Receivers(q), Senders(q))
  PROVE  QueuesInv' /\ MessagesInv' /\ Live' = Live
<1>1. QueuesInv' /\ Live' = Live
  BY QueuesKept, Zenon
<1>2. Live \in SUBSET Queues /\ q \in Queues
  BY LiveFacts, Zenon
<1>3. RingsInv' /\ queue'[q] = R /\ \A p \in Queues : p # q => queue'[p] = queue[p]
  BY <1>2, RingSet, Zenon DEF MessagesInv
<1>4. FreedAreFresh'
  BY <1>1, <1>3, FreshKept, Zenon DEF MessagesInv
<1>5. CallsInv'
  BY <1>1, Zenon DEF MessagesInv, CallsInv, CallsAreLive
<1>6. \A p : Receivers(p)' = Receivers(p) /\ Senders(p)' = Senders(p)
  BY CountsSame, Zenon
<1>7. Accounted'
  <2>1. /\ Enough(queue[q], Receivers(q), Senders(q)) => Enough(queue'[q], Receivers(q)', Senders(q)')
        /\ Once(queue[q], Receivers(q), Senders(q)) => Once(queue'[q], Receivers(q)', Senders(q)')
    BY <1>3, <1>6, Zenon
  <2> QED  BY <1>1, <1>2, <1>3, <1>6, <2>1, AccountedKept, Zenon DEF MessagesInv
<1> QED  BY <1>1, <1>3, <1>4, <1>5, <1>7, Zenon DEF MessagesInv

\* send_message, whether it waits or not; reply_to_message ends in it.
LEMMA SendInv ==
  ASSUME QueuesInv, MessagesInv, NEW t \in Tasks, NEW q \in Live, NEW m \in Messages,
         send_message(t, q, m)
  PROVE  QueuesInv' /\ MessagesInv' /\ Live' = Live /\ CallStep
<1>1. q \in Queues
  BY LiveFacts, Zenon
<1>2. pc[t] = "idle" /\ UNCHANGED <<message_queues, raced, lost>>
  BY Zenon DEF send_message
<1>3. CASE StartWaiting(t, [op |-> "send", queue |-> q, message |-> m])
  <2>1. PICK c : c = [op |-> "send", queue |-> q, message |-> m]
    BY Zenon
  <2>2. c \in Calls /\ c.queue = q /\ c.op = "send"
    BY <1>1, <2>1, Zenon DEF Calls
  <2>3. c # NoCall
    BY <2>2 DEF NoCall
  <2>4. /\ pc' = [pc EXCEPT ![t] = "waiting"] /\ call' = [call EXCEPT ![t] = c]
        /\ UNCHANGED <<message_queues, queue, raced, lost>>
    BY <1>2, <1>3, <2>1, Zenon DEF StartWaiting
  <2>5. pc[t] # "granted" /\ "waiting" \in {"idle", "waiting"}
    BY <1>2, Zenon
  <2>6. QueuesInv' /\ MessagesInv' /\ Live' = Live
    BY <2>2, <2>3, <2>4, <2>5, WaitInv, Zenon
  <2> QED  BY <2>4, <2>6, Zenon DEF CallStep
<1>4. CASE /\ queue[q].space_available > 0
           /\ queue' = [queue EXCEPT ![q] = PutMessage([queue[q] EXCEPT !.space_available = @ - 1], m)]
           /\ UNCHANGED <<pc, call>>
  <2>1. PICK max, Q : max = Capacity[q] /\ Q = queue[q]
    BY Zenon
  <2>2. max \in Nat \ {0} /\ Q \in Rings(max) /\ Whole(Q)
    BY <1>1, <2>1, RingOf, Zenon DEF MessagesInv
  <2>3. PICK r \in Nat, n \in Nat : r = Receivers(q) /\ n = Senders(q)
    BY GrantedFacts, Zenon
  <2>4. PICK P : P = [Q EXCEPT !.space_available = @ - 1]
    BY Zenon
  <2>5. Q.space_available > 0
    BY <1>4, <2>1, Zenon
  <2>6. /\ P \in Rings(max) /\ SameRing(Q, P)
        /\ Enough(Q, r, n) => Enough(P, r, n + 1)
        /\ Once(Q, r, n) => Once(P, r, n + 1)
    BY <2>2, <2>4, <2>5, SpacePromised, Zenon
  <2>7. Whole(P) /\ Contents(P) = Contents(Q)
    BY <2>2, <2>6, SameRingFacts, Zenon
  <2>8. PICK R : R = PutMessage(P, m)
    BY Zenon
  <2>9. /\ R \in Rings(max) /\ Whole(R) /\ Joined(P, R, m, max)
        /\ Enough(P, r, n + 1) => Enough(R, r, n)
        /\ Once(P, r, n + 1) => Once(R, r, n)
    <3>1. PutKeeps(P, R, m, r, n, max)
      BY <2>2, <2>6, <2>7, <2>8, PutStep, Zenon
    <3> QED  BY <3>1, Zenon DEF PutKeeps
  <2>10. queue' = [queue EXCEPT ![q] = R]
    BY <1>4, <2>1, <2>4, <2>8, Zenon
  <2>11. QueuesInv' /\ MessagesInv' /\ Live' = Live
    BY <1>2, <1>4, <2>1, <2>3, <2>6, <2>9, <2>10, DirectInv, Zenon
  <2>12. queue'[q] = R /\ \A p \in Queues : p # q => queue'[p] = queue[p]
    BY <1>1, <2>1, <2>9, <2>10, RingSet, Zenon DEF MessagesInv
  <2>13. Joined(Q, R, m, max)
    BY <2>7, <2>9, Zenon DEF Joined
  <2>14. Sent(q, m)
    BY <2>1, <2>12, <2>13, Zenon DEF Sent
  <2> QED  BY <2>11, <2>14, Zenon DEF CallStep
<1> QED  BY <1>3, <1>4, Zenon DEF send_message

\* receive_message, whether it waits or not.
LEMMA ReceiveInv ==
  ASSUME QueuesInv, MessagesInv, NEW t \in Tasks, NEW q \in Live, receive_message(t, q)
  PROVE  QueuesInv' /\ MessagesInv' /\ Live' = Live /\ CallStep
<1>1. q \in Queues
  BY LiveFacts, Zenon
<1>2. pc[t] = "idle" /\ UNCHANGED <<message_queues, raced, lost>>
  BY Zenon DEF receive_message
<1>3. CASE StartWaiting(t, [op |-> "receive", queue |-> q])
  <2>1. PICK c : c = [op |-> "receive", queue |-> q]
    BY Zenon
  <2>2. c \in Calls /\ c.queue = q /\ c.op = "receive"
    BY <1>1, <2>1, Zenon DEF Calls
  <2>3. c # NoCall
    BY <2>2 DEF NoCall
  <2>4. /\ pc' = [pc EXCEPT ![t] = "waiting"] /\ call' = [call EXCEPT ![t] = c]
        /\ UNCHANGED <<message_queues, queue, raced, lost>>
    BY <1>2, <1>3, <2>1, Zenon DEF StartWaiting
  <2>5. pc[t] # "granted" /\ "waiting" \in {"idle", "waiting"}
    BY <1>2, Zenon
  <2>6. QueuesInv' /\ MessagesInv' /\ Live' = Live
    BY <2>2, <2>3, <2>4, <2>5, WaitInv, Zenon
  <2> QED  BY <2>4, <2>6, Zenon DEF CallStep
<1>4. CASE /\ queue[q].msg_available > 0
           /\ queue' = [queue EXCEPT ![q] = TakeMessage([queue[q] EXCEPT !.msg_available = @ - 1])]
           /\ UNCHANGED <<pc, call>>
  <2>1. PICK max, Q : max = Capacity[q] /\ Q = queue[q]
    BY Zenon
  <2>2. max \in Nat \ {0} /\ Q \in Rings(max) /\ Whole(Q)
    BY <1>1, <2>1, RingOf, Zenon DEF MessagesInv
  <2>3. PICK r \in Nat, n \in Nat : r = Receivers(q) /\ n = Senders(q)
    BY GrantedFacts, Zenon
  <2>4. PICK P : P = [Q EXCEPT !.msg_available = @ - 1]
    BY Zenon
  <2>5. Q.msg_available > 0
    BY <1>4, <2>1, Zenon
  <2>6. /\ P \in Rings(max) /\ SameRing(Q, P)
        /\ Enough(Q, r, n) => Enough(P, r + 1, n)
        /\ Once(Q, r, n) => Once(P, r + 1, n)
    BY <2>2, <2>4, <2>5, MessagePromised, Zenon
  <2>7. Whole(P) /\ Contents(P) = Contents(Q)
    BY <2>2, <2>6, SameRingFacts, Zenon
  <2>8. PICK R : R = TakeMessage(P)
    BY Zenon
  <2>9. /\ R \in Rings(max) /\ Whole(R) /\ Delivered(P, R)
        /\ Enough(P, r + 1, n) => Enough(R, r, n)
        /\ Once(P, r + 1, n) => Once(R, r, n)
    <3>1. TakeKeeps(P, R, r, n, max)
      BY <2>2, <2>6, <2>7, <2>8, TakeStep, Zenon
    <3> QED  BY <3>1, Zenon DEF TakeKeeps
  <2>10. queue' = [queue EXCEPT ![q] = R]
    BY <1>4, <2>1, <2>4, <2>8, Zenon
  <2>11. QueuesInv' /\ MessagesInv' /\ Live' = Live
    BY <1>2, <1>4, <2>1, <2>3, <2>6, <2>9, <2>10, DirectInv, Zenon
  <2>12. queue'[q] = R /\ \A p \in Queues : p # q => queue'[p] = queue[p]
    BY <1>1, <2>1, <2>9, <2>10, RingSet, Zenon DEF MessagesInv
  <2>13. Delivered(Q, R)
    BY <2>7, <2>9, Zenon DEF Delivered
  <2>14. Received(q)
    BY <2>1, <2>12, <2>13, Zenon DEF Received
  <2> QED  BY <2>11, <2>14, Zenon DEF CallStep
<1> QED  BY <1>3, <1>4, Zenon DEF receive_message

\* A task that is in a call.
LEMMA CallOf ==
  ASSUME QueuesInv, MessagesInv, NEW t \in Tasks, pc[t] # "idle", NEW c, c = call[t]
  PROVE  /\ c \in Calls /\ c # NoCall /\ c.queue \in Live /\ c.queue \in Queues
         /\ c.op = "receive" \/ (c.op = "send" /\ c.message \in Messages)
         /\ call = [call EXCEPT ![t] = c]
<1>1. c \in Calls /\ call = [call EXCEPT ![t] = c]
  BY Zenon DEF MessagesInv, CallsInv
<1>2. c # NoCall /\ c.queue \in Live
  BY Zenon DEF MessagesInv, CallsInv, CallsAreLive
<1>3. c.queue \in Queues /\ (c.op = "receive" \/ (c.op = "send" /\ c.message \in Messages))
  BY <1>1, <1>2, CallFields, Zenon
<1> QED  BY <1>1, <1>2, <1>3, Zenon

\* Grant, for a sender.
LEMMA GrantSendInv ==
  ASSUME QueuesInv, MessagesInv, NEW t \in Tasks, Grant(t), call[t].op = "send"
  PROVE  QueuesInv' /\ MessagesInv' /\ Live' = Live /\ CallStep
<1>1. PICK c, q : c = call[t] /\ q = c.queue
  BY Zenon
<1>2. /\ pc[t] = "waiting" /\ pc' = [pc EXCEPT ![t] = "granted"]
      /\ UNCHANGED <<message_queues, call, raced, lost>>
  BY Zenon DEF Grant
<1>3. queue[q].space_available > 0 /\ queue' = [queue EXCEPT ![q]["space_available"] = @ - 1]
  BY <1>1, Zenon DEF Grant
<1>4. c \in Calls /\ c # NoCall /\ q \in Live /\ q \in Queues /\ call' = [call EXCEPT ![t] = c]
  <2>1. pc[t] # "idle"
    BY <1>2, Zenon
  <2> QED  BY <1>1, <1>2, <2>1, CallOf, Zenon
<1>5. PICK max, Q : max = Capacity[q] /\ Q = queue[q]
  BY Zenon
<1>6. max \in Nat \ {0} /\ Q \in Rings(max) /\ Whole(Q)
  BY <1>4, <1>5, RingOf, Zenon DEF MessagesInv
<1>7. PICK r \in Nat, n \in Nat : r = Receivers(q) /\ n = Senders(q)
  BY GrantedFacts, Zenon
<1>8. /\ \A p : p # q => Receivers(p)' = Receivers(p) /\ Senders(p)' = Senders(p)
      /\ Receivers(q)' = r /\ Senders(q)' = n + 1
  <2>1. /\ \A p : p # q => Receivers(p)' = Receivers(p) /\ Senders(p)' = Senders(p)
        /\ call[t].op = "send" => Receivers(q)' = Receivers(q) /\ Senders(q)' = Senders(q) + 1
    BY <1>1, <1>2, CountsGrow, Zenon DEF MessagesInv
  <2> QED  BY <1>7, <2>1, Zenon
<1>9. PICK R : R = [Q EXCEPT !.space_available = @ - 1]
  BY Zenon
<1>10. Q.space_available > 0
  BY <1>3, <1>5, Zenon
<1>11. /\ R \in Rings(max) /\ SameRing(Q, R)
       /\ Enough(Q, r, n) => Enough(R, r, n + 1)
       /\ Once(Q, r, n) => Once(R, r, n + 1)
  BY <1>6, <1>9, <1>10, SpacePromised, Zenon
<1>12. Whole(R) /\ Contents(R) = Contents(Q)
  BY <1>6, <1>11, SameRingFacts, Zenon
<1>13. queue' = [queue EXCEPT ![q] = R]
  BY <1>3, <1>5, <1>9, Zenon
<1>14. "granted" \in {"idle", "waiting", "granted"}
  BY Zenon
<1>15. QueuesInv' /\ MessagesInv' /\ Live' = Live
  <2>1. /\ Enough(queue[q], Receivers(q), Senders(q)) => Enough(R, Receivers(q)', Senders(q)')
        /\ Once(queue[q], Receivers(q), Senders(q)) => Once(R, Receivers(q)', Senders(q)')
    BY <1>5, <1>7, <1>8, <1>11, Zenon
  <2>2. c \in Calls /\ c # NoCall /\ c.queue \in Live /\ call' = [call EXCEPT ![t] = c]
    BY <1>1, <1>4, Zenon
  <2>3. pc' = [pc EXCEPT ![t] = "granted"] /\ UNCHANGED <<message_queues, raced, lost>>
    BY <1>2, Zenon
  <2>4. q \in Live /\ R \in Rings(Capacity[q]) /\ Whole(R)
    BY <1>4, <1>5, <1>11, <1>12, Zenon
  <2>5. \A p : p # q => Receivers(p)' = Receivers(p) /\ Senders(p)' = Senders(p)
    BY <1>8, Zenon
  <2> QED  BY <1>13, <1>14, <2>1, <2>2, <2>3, <2>4, <2>5, CallInv, Zenon
<1>16. queue'[q] = R /\ \A p \in Queues : p # q => queue'[p] = queue[p]
  BY <1>4, <1>5, <1>11, <1>12, <1>13, RingSet, Zenon DEF MessagesInv
<1>17. Received(q)
  BY <1>5, <1>12, <1>16, Zenon DEF Received, Delivered
<1> QED  BY <1>4, <1>15, <1>17, Zenon DEF CallStep

\* Grant, for a receiver.
LEMMA GrantReceiveInv ==
  ASSUME QueuesInv, MessagesInv, NEW t \in Tasks, Grant(t), call[t].op = "receive"
  PROVE  QueuesInv' /\ MessagesInv' /\ Live' = Live /\ CallStep
<1>1. PICK c, q : c = call[t] /\ q = c.queue
  BY Zenon
<1>2. /\ pc[t] = "waiting" /\ pc' = [pc EXCEPT ![t] = "granted"]
      /\ UNCHANGED <<message_queues, call, raced, lost>>
  BY Zenon DEF Grant
<1>3. queue[q].msg_available > 0 /\ queue' = [queue EXCEPT ![q]["msg_available"] = @ - 1]
  BY <1>1, Zenon DEF Grant
<1>4. c \in Calls /\ c # NoCall /\ q \in Live /\ q \in Queues /\ call' = [call EXCEPT ![t] = c]
  <2>1. pc[t] # "idle"
    BY <1>2, Zenon
  <2> QED  BY <1>1, <1>2, <2>1, CallOf, Zenon
<1>5. PICK max, Q : max = Capacity[q] /\ Q = queue[q]
  BY Zenon
<1>6. max \in Nat \ {0} /\ Q \in Rings(max) /\ Whole(Q)
  BY <1>4, <1>5, RingOf, Zenon DEF MessagesInv
<1>7. PICK r \in Nat, n \in Nat : r = Receivers(q) /\ n = Senders(q)
  BY GrantedFacts, Zenon
<1>8. /\ \A p : p # q => Receivers(p)' = Receivers(p) /\ Senders(p)' = Senders(p)
      /\ Receivers(q)' = r + 1 /\ Senders(q)' = n
  <2>1. /\ \A p : p # q => Receivers(p)' = Receivers(p) /\ Senders(p)' = Senders(p)
        /\ call[t].op = "receive" => Receivers(q)' = Receivers(q) + 1 /\ Senders(q)' = Senders(q)
    BY <1>1, <1>2, CountsGrow, Zenon DEF MessagesInv
  <2> QED  BY <1>7, <2>1, Zenon
<1>9. PICK R : R = [Q EXCEPT !.msg_available = @ - 1]
  BY Zenon
<1>10. Q.msg_available > 0
  BY <1>3, <1>5, Zenon
<1>11. /\ R \in Rings(max) /\ SameRing(Q, R)
       /\ Enough(Q, r, n) => Enough(R, r + 1, n)
       /\ Once(Q, r, n) => Once(R, r + 1, n)
  BY <1>6, <1>9, <1>10, MessagePromised, Zenon
<1>12. Whole(R) /\ Contents(R) = Contents(Q)
  BY <1>6, <1>11, SameRingFacts, Zenon
<1>13. queue' = [queue EXCEPT ![q] = R]
  BY <1>3, <1>5, <1>9, Zenon
<1>14. "granted" \in {"idle", "waiting", "granted"}
  BY Zenon
<1>15. QueuesInv' /\ MessagesInv' /\ Live' = Live
  <2>1. /\ Enough(queue[q], Receivers(q), Senders(q)) => Enough(R, Receivers(q)', Senders(q)')
        /\ Once(queue[q], Receivers(q), Senders(q)) => Once(R, Receivers(q)', Senders(q)')
    BY <1>5, <1>7, <1>8, <1>11, Zenon
  <2>2. c \in Calls /\ c # NoCall /\ c.queue \in Live /\ call' = [call EXCEPT ![t] = c]
    BY <1>1, <1>4, Zenon
  <2>3. pc' = [pc EXCEPT ![t] = "granted"] /\ UNCHANGED <<message_queues, raced, lost>>
    BY <1>2, Zenon
  <2>4. q \in Live /\ R \in Rings(Capacity[q]) /\ Whole(R)
    BY <1>4, <1>5, <1>11, <1>12, Zenon
  <2>5. \A p : p # q => Receivers(p)' = Receivers(p) /\ Senders(p)' = Senders(p)
    BY <1>8, Zenon
  <2> QED  BY <1>13, <1>14, <2>1, <2>2, <2>3, <2>4, <2>5, CallInv, Zenon
<1>16. queue'[q] = R /\ \A p \in Queues : p # q => queue'[p] = queue[p]
  BY <1>4, <1>5, <1>11, <1>12, <1>13, RingSet, Zenon DEF MessagesInv
<1>17. Received(q)
  BY <1>5, <1>12, <1>16, Zenon DEF Received, Delivered
<1> QED  BY <1>4, <1>15, <1>17, Zenon DEF CallStep

\* TimesOut.
LEMMA TimesOutInv ==
  ASSUME QueuesInv, MessagesInv, NEW t \in Tasks, TimesOut(t)
  PROVE  QueuesInv' /\ MessagesInv' /\ Live' = Live /\ CallStep
<1>1. /\ pc[t] = "waiting" /\ pc' = [pc EXCEPT ![t] = "idle"]
      /\ call' = [call EXCEPT ![t] = NoCall]
      /\ UNCHANGED <<message_queues, queue, raced, lost>>
  BY Zenon DEF TimesOut
<1>2. NoCall \in Calls /\ pc[t] # "granted" /\ "idle" \in {"idle", "waiting"}
  BY <1>1, Zenon DEF Calls
<1>3. QueuesInv' /\ MessagesInv' /\ Live' = Live
  BY <1>1, <1>2, WaitInv, Zenon
<1> QED  BY <1>1, <1>3, Zenon DEF CallStep

\* RunsOn.
LEMMA RunsOnInv ==
  ASSUME QueuesInv, MessagesInv, NEW t \in Tasks, RunsOn(t)
  PROVE  QueuesInv' /\ MessagesInv' /\ Live' = Live /\ CallStep
<1>1. PICK c, q : c = call[t] /\ q = c.queue
  BY Zenon
<1>2. /\ pc[t] = "granted" /\ pc' = [pc EXCEPT ![t] = "idle"] /\ call' = [call EXCEPT ![t] = NoCall]
      /\ UNCHANGED <<message_queues, raced, lost>>
  BY Zenon DEF RunsOn
<1>3. /\ q \in Live /\ q \in Queues
      /\ c.op = "receive" \/ (c.op = "send" /\ c.message \in Messages)
  <2>1. pc[t] # "idle"
    BY <1>2, Zenon
  <2> QED  BY <1>1, <2>1, CallOf, Zenon
<1>4. PICK max, Q : max = Capacity[q] /\ Q = queue[q]
  BY Zenon
<1>5. max \in Nat \ {0} /\ Q \in Rings(max) /\ Whole(Q)
  BY <1>3, <1>4, RingOf, Zenon DEF MessagesInv
<1>6. NoCall \in Calls /\ "idle" \in {"idle", "waiting", "granted"}
  BY Zenon DEF Calls
<1>7. PICK r \in Nat, n \in Nat : r = Receivers(q)' /\ n = Senders(q)'
  BY GrantedNext, Zenon
<1>8. /\ \A p : p # q => Receivers(p)' = Receivers(p) /\ Senders(p)' = Senders(p)
      /\ c.op = "send" => Receivers(q) = r /\ Senders(q) = n + 1
      /\ c.op = "receive" => Receivers(q) = r + 1 /\ Senders(q) = n
  <2>1. /\ \A p : p # q => Receivers(p)' = Receivers(p) /\ Senders(p)' = Senders(p)
        /\ call[t].op = "send" => Receivers(q) = Receivers(q)' /\ Senders(q) = Senders(q)' + 1
        /\ call[t].op = "receive" => Receivers(q) = Receivers(q)' + 1 /\ Senders(q) = Senders(q)'
    BY <1>1, <1>2, CountsShrink, Zenon DEF MessagesInv
  <2> QED  BY <1>1, <1>7, <2>1, Zenon
<1>9. CASE c.op = "send"
  <2>1. PICK R : R = PutMessage(Q, c.message)
    BY Zenon
  <2>2. c.message \in Messages
    BY <1>3, <1>9, Zenon
  <2>3. /\ R \in Rings(max) /\ Whole(R) /\ Joined(Q, R, c.message, max)
        /\ Enough(Q, r, n + 1) => Enough(R, r, n)
        /\ Once(Q, r, n + 1) => Once(R, r, n)
    <3>1. PutKeeps(Q, R, c.message, r, n, max)
      BY <1>5, <2>1, <2>2, PutStep, Zenon
    <3> QED  BY <3>1, Zenon DEF PutKeeps
  <2>4. queue' = [queue EXCEPT ![q] = R]
    BY <1>1, <1>4, <1>9, <2>1, Zenon DEF RunsOn
  <2>5. QueuesInv' /\ MessagesInv' /\ Live' = Live
    BY <1>2, <1>3, <1>4, <1>6, <1>7, <1>8, <1>9, <2>3, <2>4, CallInv, Zenon
  <2>6. queue'[q] = R /\ \A p \in Queues : p # q => queue'[p] = queue[p]
    BY <1>3, <1>4, <2>3, <2>4, RingSet, Zenon DEF MessagesInv
  <2>7. Sent(q, c.message)
    BY <1>4, <2>3, <2>6, Zenon DEF Sent
  <2> QED  BY <1>3, <2>2, <2>5, <2>7, Zenon DEF CallStep
<1>10. CASE c.op = "receive"
  <2>1. PICK R : R = TakeMessage(Q)
    BY Zenon
  <2>2. /\ R \in Rings(max) /\ Whole(R) /\ Delivered(Q, R)
        /\ Enough(Q, r + 1, n) => Enough(R, r, n)
        /\ Once(Q, r + 1, n) => Once(R, r, n)
    <3>1. TakeKeeps(Q, R, r, n, max)
      BY <1>5, <2>1, TakeStep, Zenon
    <3> QED  BY <3>1, Zenon DEF TakeKeeps
  <2>3. c.op # "send"
    BY <1>10, Zenon
  <2>4. queue' = [queue EXCEPT ![q] = R]
    BY <1>1, <1>4, <2>1, <2>3, Zenon DEF RunsOn
  <2>5. QueuesInv' /\ MessagesInv' /\ Live' = Live
    BY <1>2, <1>3, <1>4, <1>6, <1>7, <1>8, <1>10, <2>2, <2>4, CallInv, Zenon
  <2>6. queue'[q] = R /\ \A p \in Queues : p # q => queue'[p] = queue[p]
    BY <1>3, <1>4, <2>2, <2>4, RingSet, Zenon DEF MessagesInv
  <2>7. Received(q)
    BY <1>4, <2>2, <2>6, Zenon DEF Received
  <2> QED  BY <1>3, <2>5, <2>7, Zenon DEF CallStep
<1> QED  BY <1>3, <1>9, <1>10, Zenon

\* Fewer tasks than before were granted a place.
LEMMA OnceFewer ==
  ASSUME NEW max \in Nat \ {0}, NEW Q \in Rings(max), NEW r \in Nat, NEW s \in Nat,
         NEW a \in Nat, NEW b \in Nat, a <= r, b <= s, Once(Q, r, s)
  PROVE  Once(Q, a, b)
<1>1. PICK n \in 0 .. max, x \in 0 .. max, y \in 0 .. max :
        Q.current_size = n /\ Q.msg_available = x /\ Q.space_available = y
  BY RingFields, Zenon
<1>2. Q.max_size = max
  BY RingFields, Zenon
<1> QED  BY <1>1, <1>2 DEF Once

\* What cleanup_task_messages does to the lists that the rings stand for.
Cleaned(pid) ==
  /\ \A q \in Live : Contents(queue'[q]) = List!Others(Contents(queue[q]), pid)
  /\ \A q \in Queues \ Live : queue'[q] = queue[q]

\* cleanup_task_messages.
LEMMA CleanupMessagesInv ==
  ASSUME QueuesInv, MessagesInv, NEW pid \in Tasks, cleanup_task_messages(pid)
  PROVE  QueuesInv' /\ MessagesInv' /\ Live' = Live /\ Cleaned(pid)
<1>1. /\ queue' = [q \in Queues |-> IF q \in Live THEN CleanQueue(queue[q], pid) ELSE queue[q]]
      /\ pc' = [pc EXCEPT ![pid] = "idle"] /\ call' = [call EXCEPT ![pid] = NoCall]
      /\ lost' = (lost \/ pc[pid] = "granted") /\ UNCHANGED message_queues
  BY Zenon DEF cleanup_task_messages
<1>2. raced' = (raced \/ \E q \in Live :
                  /\ queue'[q].current_size # queue[q].current_size
                  /\ (Granted(q, "send") \union Granted(q, "receive")) \ {pid} # {})
  BY Zenon DEF cleanup_task_messages
<1>3. QueuesInv' /\ Live' = Live
  BY <1>1, QueuesKept, Zenon
<1>4. Live \in SUBSET Queues
  BY LiveFacts, Zenon
<1>5. /\ \A q \in Live : queue'[q] = CleanQueue(queue[q], pid)
      /\ \A q \in Queues \ Live : queue'[q] = queue[q]
  BY <1>1, <1>4, Zenon
<1>6. ASSUME NEW q \in Live
      PROVE  /\ queue'[q] \in Rings(Capacity[q]) /\ Whole(queue'[q])
             /\ Contents(queue'[q]) = List!Others(Contents(queue[q]), pid)
             /\ queue'[q].current_size = queue[q].current_size => queue'[q] = queue[q]
             /\ queue'[q].current_size # queue[q].current_size =>
                  Once(queue'[q], 0, 0) /\ \A r, n \in Nat : Enough(queue'[q], r, n)
  <2>1. PICK max, Q, R : max = Capacity[q] /\ Q = queue[q] /\ R = queue'[q]
    BY Zenon
  <2>2. max \in Nat \ {0} /\ Q \in Rings(max) /\ Whole(Q)
    BY <1>4, <2>1, RingOf, Zenon DEF MessagesInv
  <2>3. R = CleanQueue(Q, pid)
    BY <1>5, <2>1, Zenon
  <2>4. R \in Rings(max) /\ Whole(R) /\ Contents(R) = List!Others(Contents(Q), pid)
    <3>1. CleanResult(Q, R, pid, max)
      BY <2>2, <2>3, RingOperations, Zenon DEF CleanWorks
    <3> QED  BY <3>1, Zenon DEF CleanResult
  <2>5. /\ R.current_size = Q.current_size => R = Q
        /\ R.current_size # Q.current_size =>
             Once(R, 0, 0) /\ \A r, n \in Nat : Enough(R, r, n)
    BY <2>2, <2>3, CleanStep, Zenon
  <2> QED  BY <2>1, <2>4, <2>5, Zenon
<1>7. RingsInv'
  <2>1. \A q \in Queues : queue'[q] \in Rings(Capacity[q]) /\ Whole(queue'[q])
    BY <1>5, <1>6, Zenon DEF MessagesInv, RingsInv
  <2>2. queue' = [q \in Queues |-> queue'[q]]
    BY <1>1, Zenon
  <2> QED  BY <2>1, <2>2, Zenon DEF RingsInv
<1>8. FreedAreFresh'
  BY <1>3, <1>5, Zenon DEF MessagesInv, FreedAreFresh
<1>9. CallsInv'
  <2>1. raced' \in BOOLEAN /\ lost' \in BOOLEAN
    BY <1>1, <1>2, Zenon
  <2>2. NoCall \in Calls /\ "idle" \in {"idle", "waiting", "granted"}
    BY Zenon DEF Calls
  <2> QED  BY <1>1, <1>3, <2>1, <2>2, CallsSet, Zenon DEF MessagesInv
<1>10. \A q, op : Granted(q, op)' = Granted(q, op) \ {pid}
  <2>1. "idle" # "granted"
    BY Zenon
  <2> QED  BY <1>1, <2>1, GrantedLoses, Zenon DEF MessagesInv
<1>11. ASSUME NEW q \in Live, ~ lost' PROVE Enough(queue'[q], Receivers(q)', Senders(q)')
  <2>1. ~ lost /\ pc[pid] # "granted"
    BY <1>1, <1>11, Zenon
  <2>2. CASE queue'[q].current_size # queue[q].current_size
    BY <1>6, <2>2, GrantedNext, Zenon
  <2>3. CASE queue'[q].current_size = queue[q].current_size
    <3>1. Enough(queue[q], Receivers(q), Senders(q))
      BY <2>1, Zenon DEF MessagesInv, Accounted
    <3>2. "idle" # "granted"
      BY Zenon
    <3>3. Receivers(q)' = Receivers(q) /\ Senders(q)' = Senders(q)
      BY <1>1, <2>1, <3>2, CountsKept, Zenon DEF MessagesInv
    <3>4. queue'[q] = queue[q]
      BY <1>6, <2>3, Zenon
    <3> QED  BY <3>1, <3>3, <3>4, Zenon
  <2> QED  BY <2>2, <2>3, Zenon
<1>12. ASSUME NEW q \in Live, ~ raced' PROVE Once(queue'[q], Receivers(q)', Senders(q)')
  <2>1. ~ raced
    BY <1>2, <1>12, Zenon
  <2>2. CASE queue'[q].current_size # queue[q].current_size
    <3>1. (Granted(q, "send") \union Granted(q, "receive")) \ {pid} = {}
      BY <1>2, <1>12, <2>2, Zenon
    <3>2. Granted(q, "send") \ {pid} = {} /\ Granted(q, "receive") \ {pid} = {}
      BY <3>1, Zenon
    <3>3. Granted(q, "send")' = {} /\ Granted(q, "receive")' = {}
      BY <1>10, <3>2, Zenon
    <3>4. {} \in SUBSET Tasks
      BY Zenon
    <3>5. Receivers(q)' = 0 /\ Senders(q)' = 0
      BY <3>3, <3>4, TaskSets, Zenon DEF Receivers, Senders
    <3> QED  BY <1>6, <2>2, <3>5, Zenon
  <2>3. CASE queue'[q].current_size = queue[q].current_size
    <3>1. Once(queue[q], Receivers(q), Senders(q))
      BY <2>1, Zenon DEF MessagesInv, Accounted
    <3>2. ASSUME NEW op PROVE Cardinality(Granted(q, op)') <= Cardinality(Granted(q, op))
      <4>1. Granted(q, op) \in SUBSET Tasks
        BY GrantedFacts, Zenon
      <4>2. PICK G : G = Granted(q, op)
        BY Zenon
      <4>3. IsFiniteSet(G) /\ G \ {pid} \subseteq G
        BY <4>1, <4>2, TaskSets, Zenon
      <4>4. Cardinality(G \ {pid}) <= Cardinality(G)
        BY <4>3, FS_Subset, Zenon
      <4> QED  BY <1>10, <4>2, <4>4, Zenon
    <3>3. Receivers(q)' <= Receivers(q) /\ Senders(q)' <= Senders(q)
      BY <3>2, Zenon DEF Receivers, Senders
    <3>4. queue'[q] = queue[q]
      BY <1>6, <2>3, Zenon
    <3>5. Capacity[q] \in Nat \ {0} /\ queue[q] \in Rings(Capacity[q])
      BY <1>4, RingOf, Zenon DEF MessagesInv
    <3>6. Receivers(q) \in Nat /\ Senders(q) \in Nat /\ Receivers(q)' \in Nat /\ Senders(q)' \in Nat
      BY GrantedFacts, GrantedNext, Zenon
    <3>7. Once(queue[q], Receivers(q)', Senders(q)')
      BY <3>1, <3>3, <3>5, <3>6, OnceFewer, Zenon
    <3> QED  BY <3>4, <3>7, Zenon
  <2> QED  BY <2>2, <2>3, Zenon
<1>13. Accounted'
  BY <1>3, <1>11, <1>12, Zenon DEF Accounted
<1>14. Cleaned(pid)
  BY <1>5, <1>6, Zenon DEF Cleaned
<1> QED  BY <1>3, <1>7, <1>8, <1>9, <1>13, <1>14, Zenon DEF MessagesInv

-----------------------------------------------------------------------------
(* Every step keeps the invariant. *)

\* The queues and tasks that take part.
LEMMA LoadFacts ==
  ASSUME load \in Workloads
  PROVE  /\ load.queues \in SUBSET Queues /\ load.callers \in SUBSET Tasks
         /\ load.receivers \in SUBSET Tasks /\ load.owners \in SUBSET Tasks
         /\ load.priorities \in SUBSET Priorities
BY ServiceAssumption, Zenon

\* What a step does to the queues there are and to the lists that they stand for.
Stepped ==
  \/ \E q \in Queues : q \notin Live /\ Live' = Live \union {q} /\ queue' = queue
  \/ \E q \in Queues : Live' = Live \ {q} /\ queue' = [queue EXCEPT ![q] = NewQueue(Capacity[q])]
  \/ Live' = Live /\ CallStep
  \/ \E pid \in Tasks : Live' = Live /\ Cleaned(pid)

\* Every step, as far as queues and messages are concerned.
LEMMA MessageSteps ==
  ASSUME load \in Workloads, QueuesInv, MessagesInv, [Next]_vars
  PROVE  QueuesInv' /\ MessagesInv' /\ Stepped
<1>1. /\ load.queues \in SUBSET Queues /\ load.callers \in SUBSET Tasks
      /\ load.receivers \in SUBSET Tasks /\ load.owners \in SUBSET Tasks
      /\ load.priorities \in SUBSET Priorities
  BY LoadFacts, Zenon
<1>2. ASSUME NEW q \in load.queues, create_message_queue(q) PROVE QueuesInv' /\ MessagesInv' /\ Stepped
  <2>1. QueuesInv' /\ MessagesInv' /\ Live' = Live \union {q} /\ queue' = queue
    BY <1>1, <1>2, CreateInv, Zenon
  <2>2. q \notin Live
    BY <1>2, Zenon DEF create_message_queue
  <2> QED  BY <1>1, <2>1, <2>2, Zenon DEF Stepped
<1>3. ASSUME NEW q \in load.queues, destroy_message_queue(q) PROVE QueuesInv' /\ MessagesInv' /\ Stepped
  <2>1. /\ QueuesInv' /\ MessagesInv' /\ Live' = Live \ {q} /\ q \in Queues
        /\ queue' = [queue EXCEPT ![q] = NewQueue(Capacity[q])]
    BY <1>3, DestroyInv, Zenon
  <2> QED  BY <2>1, Zenon DEF Stepped
<1>4. ASSUME UNCHANGED <<message_queues, queue, pc, call, raced, lost>>
      PROVE  QueuesInv' /\ MessagesInv' /\ Stepped
  <2>1. QueuesInv' /\ MessagesInv' /\ Live' = Live
    BY <1>4, MessagesKept, Zenon
  <2>2. CallStep
    BY <1>4, Zenon DEF CallStep
  <2> QED  BY <2>1, <2>2, Zenon DEF Stepped
<1>5. ASSUME NEW t \in load.owners, cleanup_task_queues(t) PROVE QueuesInv' /\ MessagesInv' /\ Stepped
  BY <1>4, <1>5, Zenon DEF cleanup_task_queues
<1>6. ASSUME NEW t \in load.owners, NEW q \in load.queues,
             create_task_message_queue(t, q) \/ Register(t, q) \/ unregister_task_queue(t, q)
      PROVE  QueuesInv' /\ MessagesInv' /\ Stepped
  <2>1. CASE create_task_message_queue(t, q)
    BY <1>2, <2>1, Zenon DEF create_task_message_queue
  <2>2. CASE Register(t, q)
    BY <1>4, <2>2, Zenon DEF Register
  <2>3. CASE unregister_task_queue(t, q)
    BY <1>4, <2>3, Zenon DEF unregister_task_queue
  <2> QED  BY <1>6, <2>1, <2>2, <2>3, Zenon
<1>7. ASSUME NEW pid \in load.callers \union load.receivers \union load.owners,
             cleanup_task_messages(pid)
      PROVE  QueuesInv' /\ MessagesInv' /\ Stepped
  <2>1. pid \in Tasks
    BY <1>1, Zenon
  <2>2. QueuesInv' /\ MessagesInv' /\ Live' = Live /\ Cleaned(pid)
    BY <1>7, <2>1, CleanupMessagesInv, Zenon
  <2> QED  BY <2>1, <2>2, Zenon DEF Stepped
<1>8. ASSUME NEW t \in load.callers, Grant(t) \/ TimesOut(t) \/ RunsOn(t)
      PROVE  QueuesInv' /\ MessagesInv' /\ Stepped
  <2>1. t \in Tasks
    BY <1>1, Zenon
  <2>2. CASE Grant(t)
    <3>1. pc[t] # "idle"
      <4>1. pc[t] = "waiting"
        BY <2>2, Zenon DEF Grant
      <4> QED  BY <4>1, Zenon
    <3>2. call[t].op = "send" \/ call[t].op = "receive"
      BY <2>1, <3>1, CallOf, Zenon
    <3>3. QueuesInv' /\ MessagesInv' /\ Live' = Live /\ CallStep
      BY <2>1, <2>2, <3>2, GrantSendInv, GrantReceiveInv, Zenon
    <3> QED  BY <3>3, Zenon DEF Stepped
  <2>3. CASE TimesOut(t)
    BY <2>1, <2>3, TimesOutInv, Zenon DEF Stepped
  <2>4. CASE RunsOn(t)
    BY <2>1, <2>4, RunsOnInv, Zenon DEF Stepped
  <2> QED  BY <1>8, <2>2, <2>3, <2>4, Zenon
<1>9. ASSUME NEW t \in Tasks, NEW q \in Live, NEW m \in Messages, send_message(t, q, m)
      PROVE  QueuesInv' /\ MessagesInv' /\ Stepped
  BY <1>9, SendInv, Zenon DEF Stepped
<1>10. ASSUME NEW t \in load.callers, NEW s \in load.owners, NEW urgent \in BOOLEAN,
              reply_to_message(t, s, urgent)
       PROVE  QueuesInv' /\ MessagesInv' /\ Stepped
  <2>1. PICK m : m = [priority |-> MESSAGE_PRIORITY_HIGH, sender |-> t, receiver |-> s,
                      urgent |-> urgent]
    BY Zenon
  <2>2. t \in Tasks /\ s \in Tasks
    BY <1>1, Zenon
  <2>3. m \in Messages
    BY <2>1, <2>2, Zenon DEF Messages
  <2>4. ReplyQueue(s) \in Live /\ send_message(t, ReplyQueue(s), m)
    BY <1>10, <2>1, Zenon DEF reply_to_message
  <2> QED  BY <1>9, <2>2, <2>3, <2>4, Zenon
<1>11. ASSUME NEW t \in load.callers, NEW q \in Live, receive_message(t, q)
       PROVE  QueuesInv' /\ MessagesInv' /\ Stepped
  <2>1. t \in Tasks
    BY <1>1, Zenon
  <2> QED  BY <1>11, <2>1, ReceiveInv, Zenon DEF Stepped
<1>12. ASSUME NEW t \in load.callers, NEW q \in Live, NEW p \in load.priorities,
              NEW r \in load.receivers, NEW urgent \in BOOLEAN,
              send_message(t, q, [priority |-> p, sender |-> t, receiver |-> r, urgent |-> urgent])
       PROVE  QueuesInv' /\ MessagesInv' /\ Stepped
  <2>1. PICK m : m = [priority |-> p, sender |-> t, receiver |-> r, urgent |-> urgent]
    BY Zenon
  <2>2. t \in Tasks /\ r \in Tasks /\ p \in Priorities
    BY <1>1, Zenon
  <2>3. m \in Messages
    BY <2>1, <2>2, Zenon DEF Messages
  <2>4. send_message(t, q, m)
    BY <1>12, <2>1, Zenon
  <2> QED  BY <1>9, <2>2, <2>3, <2>4, Zenon
<1>13. CASE UNCHANGED vars
  BY <1>4, <1>13, Zenon DEF vars
<1> QED  BY <1>2, <1>3, <1>5, <1>6, <1>7, <1>8, <1>10, <1>11, <1>12, <1>13, Zenon DEF Next, CreateUnregistered

\* Every step, as far as the registry is concerned.
LEMMA RegistrySteps ==
  ASSUME load \in Workloads, [Next]_vars
  PROVE  /\ load' = load
         /\ \/ LeftAlone
            \/ \E t \in Tasks, q \in Queues : register_task_queue(t, q) \/ unregister_task_queue(t, q)
            \/ \E t \in Tasks : cleanup_task_queues(t)
<1> DEFINE Kept == load' = load /\ LeftAlone
<1>1. load.queues \in SUBSET Queues /\ load.owners \in SUBSET Tasks
  BY LoadFacts, Zenon
<1>0. ASSUME UNCHANGED <<task_registry, claims, allowed>> PROVE LeftAlone
  BY <1>0, Zenon DEF LeftAlone
<1>2. ASSUME NEW q \in load.queues, CreateUnregistered(q) PROVE Kept
  <2>1. /\ load' = load /\ UNCHANGED <<task_registry, claims>>
        /\ allowed' = allowed \union (load.owners \X {q})
    BY <1>2, Zenon DEF CreateUnregistered, create_message_queue
  <2>2. load.owners \X {q} \subseteq Tasks \X Queues
    BY <1>1
  <2> QED  BY <2>1, <2>2, Zenon DEF LeftAlone
<1>3. ASSUME NEW q, destroy_message_queue(q) PROVE Kept
  <2>1. /\ load' = load /\ task_registry' = task_registry
        /\ claims' = {c \in claims : c[2] # q}
        /\ allowed' = {c \in allowed : c[2] # q \/ c \in Registrations(task_registry)}
    BY <1>3, Zenon DEF destroy_message_queue
  <2> QED  BY <2>1, Zenon DEF LeftAlone
<1>4. ASSUME NEW t, cleanup_task_queues(t) PROVE load' = load
  BY <1>4, Zenon DEF cleanup_task_queues
<1>5. ASSUME NEW t, NEW q, create_task_message_queue(t, q)
      PROVE  load' = load /\ register_task_queue(t, q)
  BY <1>5, Zenon DEF create_task_message_queue, create_message_queue
<1>6. ASSUME NEW t, NEW q, Register(t, q) PROVE load' = load /\ register_task_queue(t, q)
  BY <1>6, Zenon DEF Register
<1>7. ASSUME NEW t, NEW q, unregister_task_queue(t, q) PROVE load' = load
  BY <1>7, Zenon DEF unregister_task_queue
<1>8. ASSUME NEW pid, cleanup_task_messages(pid) PROVE Kept
  BY <1>0, <1>8, Zenon DEF cleanup_task_messages
<1>9. ASSUME NEW t, Grant(t) \/ TimesOut(t) \/ RunsOn(t) PROVE Kept
  BY <1>0, <1>9, Zenon DEF Grant, TimesOut, RunsOn
<1>10. ASSUME NEW t, NEW q, NEW m, send_message(t, q, m) PROVE Kept
  BY <1>0, <1>10, Zenon DEF send_message
<1>11. ASSUME NEW t, NEW s, NEW urgent, reply_to_message(t, s, urgent) PROVE Kept
  BY <1>10, <1>11, Zenon DEF reply_to_message
<1>12. ASSUME NEW t, NEW q, receive_message(t, q) PROVE Kept
  BY <1>0, <1>12, Zenon DEF receive_message
<1>13. CASE UNCHANGED vars
  BY <1>0, <1>13, Zenon DEF vars
<1> HIDE DEF Kept
<1>14. CASE Next
  <2>2. CASE \E t \in load.owners :
               \/ cleanup_task_queues(t)
               \/ \E q \in load.queues :
                    create_task_message_queue(t, q) \/ Register(t, q) \/ unregister_task_queue(t, q)
    BY <1>1, <1>4, <1>5, <1>6, <1>7, <2>2, Zenon
  <2>3. CASE ~ \E t \in load.owners :
               \/ cleanup_task_queues(t)
               \/ \E q \in load.queues :
                    create_task_message_queue(t, q) \/ Register(t, q) \/ unregister_task_queue(t, q)
    <3>1. Kept
      BY <1>2, <1>3, <1>8, <1>9, <1>10, <1>11, <1>12, <1>14, <2>3, Zenon DEF Next
    <3> QED  BY <3>1, Zenon DEF Kept
  <2> QED  BY <2>2, <2>3, Zenon
<1> QED  BY <1>13, <1>14, Zenon DEF Kept

\* The invariant is inductive.
LEMMA StepInv == IInv /\ [Next]_vars => IInv' /\ Stepped
<1> SUFFICES ASSUME IInv, [Next]_vars PROVE IInv' /\ Stepped
  BY Zenon
<1>1. load \in Workloads /\ QueuesInv /\ RegistryInv /\ MessagesInv
  BY Zenon DEF IInv, MessagesInv
<1>2. QueuesInv' /\ MessagesInv' /\ Stepped
  BY <1>1, MessageSteps, Zenon
<1>3. load' = load /\ RegistryInv'
  <2>1. /\ load' = load
        /\ \/ LeftAlone
           \/ \E t \in Tasks, q \in Queues : register_task_queue(t, q) \/ unregister_task_queue(t, q)
           \/ \E t \in Tasks : cleanup_task_queues(t)
    BY <1>1, RegistrySteps, Zenon
  <2>2. CASE LeftAlone
    BY <1>1, <2>1, <2>2, RegistryKept, Zenon
  <2>3. ASSUME NEW t \in Tasks, NEW q \in Queues, register_task_queue(t, q) PROVE RegistryInv'
    BY <1>1, <2>3, RegisterInv, Zenon
  <2>4. ASSUME NEW t \in Tasks, NEW q \in Queues, unregister_task_queue(t, q) PROVE RegistryInv'
    BY <1>1, <2>4, UnregisterInv, Zenon
  <2>5. ASSUME NEW t \in Tasks, cleanup_task_queues(t) PROVE RegistryInv'
    BY <1>1, <2>5, CleanupInv, Zenon
  <2> QED  BY <2>1, <2>2, <2>3, <2>4, <2>5, Zenon
<1>4. IInv'
  BY <1>1, <1>2, <1>3, Zenon DEF IInv, MessagesInv
<1> QED  BY <1>2, <1>4, Zenon

\* It holds when the service starts.
LEMMA InitInv == Init => IInv
<1> SUFFICES ASSUME Init PROVE IInv
  BY Zenon
<1>1. Live = {}
  BY DEF Init, Live
<1>2. QueuesInv
  BY ServiceAssumption DEF Init, QueuesInv, QueuesDistinct
<1>3. RegistryInv
  <2>1. Sound(task_registry) /\ Bounded(task_registry)
    BY ServiceAssumption DEF Init, Sound, EntriesDistinct, Bounded
  <2>2. Registrations(task_registry) = {}
    BY DEF Init, Registrations
  <2> QED  BY <2>1, <2>2, Zenon DEF Init, RegistryInv, RegistryMatchesCalls
<1>4. RingsInv
  <2>1. \A q \in Queues : Capacity[q] \in Nat \ {0}
    BY ServiceAssumption, Zenon
  <2>2. \A q \in Queues : NewQueue(Capacity[q]) \in Rings(Capacity[q]) /\ Whole(NewQueue(Capacity[q]))
    BY <2>1, NewQueueFacts, Zenon
  <2>3. queue = [q \in Queues |-> NewQueue(Capacity[q])]
    BY Zenon DEF Init
  <2> QED  BY <2>2, <2>3, Zenon DEF RingsInv
<1>5. FreedAreFresh
  BY Zenon DEF Init, FreedAreFresh
<1>6. CallsInv
  BY Zenon DEF Init, CallsInv, CallsAreLive, Calls
<1>7. Accounted
  BY <1>1, Zenon DEF Accounted
<1> QED  BY <1>2, <1>3, <1>4, <1>5, <1>6, <1>7, Zenon DEF Init, IInv

-----------------------------------------------------------------------------
(* The rings behave as lists. *)

Content == [q \in Queues |-> Contents(queue[q])]

\* The messages of the abstract specification.
LEMMA ListMessages == List!Messages = Messages
BY Zenon DEF List!Messages, Messages

\* One list changes.
LEMMA ContentSet ==
  ASSUME NEW q \in Queues, \A p \in Queues : p # q => queue'[p] = queue[p]
  PROVE  Content' = [Content EXCEPT ![q] = Contents(queue'[q])]
BY Zenon DEF Content

\* An empty list stays empty when a task ends.
LEMMA OthersOfNone == ASSUME NEW t PROVE List!Others(<<>>, t) = <<>>
<1>1. 0 \in Nat /\ 0 = Len(<<>>)
  BY Zenon
<1>2. PICK w : Keeps(w, <<>>, t, 0) /\ List!Others(<<>>, t) = w[0]
  BY <1>1, OthersFacts, Zenon
<1> QED  BY <1>2, Zenon DEF Keeps

\* A step of the service is a step of the lists, or changes none of them.
LEMMA ListStep ==
  ASSUME IInv, Stepped
  PROVE  List!Next \/ UNCHANGED <<Live, Content>>
<1>1. QueuesInv /\ RingsInv /\ FreedAreFresh /\ Live \in SUBSET Queues
  BY LiveFacts, Zenon DEF IInv
<1>2. ASSUME NEW q \in Queues, q \notin Live, Live' = Live \union {q}, queue' = queue
      PROVE  List!Next
  <2>1. Content' = Content
    BY <1>2, Zenon DEF Content
  <2>2. List!Create(q)
    BY <1>2, <2>1, Zenon DEF List!Create, Content
  <2> QED  BY <2>2, Zenon DEF List!Next
<1>3. ASSUME NEW q \in Queues, Live' = Live \ {q},
             queue' = [queue EXCEPT ![q] = NewQueue(Capacity[q])]
      PROVE  List!Next
  <2>1. PICK R : R = NewQueue(Capacity[q])
    BY Zenon
  <2>2. queue = [p \in Queues |-> queue[p]] /\ queue' = [queue EXCEPT ![q] = R]
    BY <1>1, <1>3, <2>1, Zenon DEF RingsInv
  <2>3. queue'[q] = R /\ \A p \in Queues : p # q => queue'[p] = queue[p]
    BY <2>2, Zenon
  <2>4. Contents(R) = <<>>
    <3>1. Capacity[q] \in Nat \ {0}
      BY ServiceAssumption, Zenon
    <3> QED  BY <2>1, <3>1, NewQueueFacts, Zenon
  <2>5. Content' = [Content EXCEPT ![q] = <<>>]
    BY <2>3, <2>4, ContentSet, Zenon
  <2>6. List!Destroy(q)
    BY <1>3, <2>5, Zenon DEF List!Destroy, Content
  <2> QED  BY <2>6, Zenon DEF List!Next
<1>4. ASSUME NEW q \in Live, NEW m \in Messages, Live' = Live, Sent(q, m)
      PROVE  List!Next \/ UNCHANGED <<Live, Content>>
  <2>1. q \in Queues
    BY <1>1, Zenon
  <2>2. PICK old, new : old = Contents(queue[q]) /\ new = Contents(queue'[q])
    BY Zenon
  <2>3. Content' = [Content EXCEPT ![q] = new] /\ Content[q] = old
    <3>1. \A p \in Queues : p # q => queue'[p] = queue[p]
      BY <1>4, Zenon DEF Sent
    <3> QED  BY <2>1, <2>2, <3>1, ContentSet, Zenon DEF Content
  <2>4. CASE new = old
    <3>1. Content' = Content
      BY <2>3, <2>4, Zenon DEF Content
    <3> QED  BY <1>4, <3>1, Zenon
  <2>5. CASE new # old
    <3>1. PICK k \in 0 .. Len(old) : /\ Len(old) < Capacity[q] /\ new = List!Inserted(old, k, m)
                                     /\ PutBehind(old, m, k)
      BY <1>4, <2>2, <2>5, Zenon DEF Sent, Joined
    <3>2. Content' = [Content EXCEPT ![q] = List!Inserted(@, k, m)]
      BY <2>3, <3>1, Zenon
    <3>3. List!Joins(q, m, k)
      <4>1. \A i \in 1 .. 0 : FALSE
        OBVIOUS
      <4> QED  BY <2>3, <3>1, <4>1, Zenon DEF PutBehind, List!Joins, Content
    <3>4. Len(Content[q]) < Capacity[q] /\ k \in 0 .. Len(Content[q])
      BY <2>3, <3>1, Zenon
    <3>5. List!Send(q, m, k)
      BY <1>4, <3>2, <3>3, <3>4, Zenon DEF List!Send, Content
    <3>6. k \in 0 .. Len([p \in Queues |-> Contents(queue[p])][q])
      BY <3>4, Zenon DEF Content
    <3>7. List!Next
      BY <2>1, <3>5, <3>6, ListMessages, Zenon DEF List!Next
    <3> QED  BY <3>7, Zenon
  <2> QED  BY <2>4, <2>5, Zenon
<1>5. ASSUME NEW q \in Live, Live' = Live, Received(q)
      PROVE  List!Next \/ UNCHANGED <<Live, Content>>
  <2>1. q \in Queues
    BY <1>1, Zenon
  <2>2. PICK old, new : old = Contents(queue[q]) /\ new = Contents(queue'[q])
    BY Zenon
  <2>3. Content' = [Content EXCEPT ![q] = new] /\ Content[q] = old
    <3>1. \A p \in Queues : p # q => queue'[p] = queue[p]
      BY <1>5, Zenon DEF Received
    <3> QED  BY <2>1, <2>2, <3>1, ContentSet, Zenon DEF Content
  <2>4. CASE new = old
    <3>1. Content' = Content
      BY <2>3, <2>4, Zenon DEF Content
    <3> QED  BY <1>5, <3>1, Zenon
  <2>5. CASE new # old
    <3>1. old # <<>> /\ new = Tail(old)
      BY <1>5, <2>2, <2>5, Zenon DEF Received, Delivered
    <3>2. Content' = [Content EXCEPT ![q] = Tail(@)] /\ Content[q] # <<>>
      BY <2>3, <3>1, Zenon
    <3>3. List!Receive(q)
      BY <1>5, <3>2, Zenon DEF List!Receive, Content
    <3> QED  BY <2>1, <3>3, Zenon DEF List!Next
  <2> QED  BY <2>4, <2>5, Zenon
<1>6. ASSUME NEW pid \in Tasks, Live' = Live, Cleaned(pid) PROVE List!Next
  <2>1. ASSUME NEW q \in Queues PROVE Contents(queue'[q]) = List!Others(Contents(queue[q]), pid)
    <3>1. CASE q \in Live
      BY <1>6, <3>1, Zenon DEF Cleaned
    <3>2. CASE q \notin Live
      <4>1. queue'[q] = queue[q] /\ queue[q] = NewQueue(Capacity[q])
        BY <1>1, <1>6, <3>2, Zenon DEF Cleaned, FreedAreFresh
      <4>2. Capacity[q] \in Nat \ {0}
        BY ServiceAssumption, Zenon
      <4>3. Contents(NewQueue(Capacity[q])) = <<>>
        BY <4>2, NewQueueFacts, Zenon
      <4>4. List!Others(<<>>, pid) = <<>>
        BY OthersOfNone, Zenon
      <4> QED  BY <4>1, <4>3, <4>4, Zenon
    <3> QED  BY <3>1, <3>2, Zenon
  <2>2. Content' = [q \in Queues |-> List!Others(Content[q], pid)]
    BY <2>1, Zenon DEF Content
  <2>3. List!TaskEnds(pid)
    BY <1>6, <2>2, Zenon DEF List!TaskEnds, Content
  <2> QED  BY <2>3, Zenon DEF List!Next
<1>7. ASSUME Live' = Live, queue' = queue PROVE UNCHANGED <<Live, Content>>
  BY <1>7, Zenon DEF Content
<1> QED  BY <1>2, <1>3, <1>4, <1>5, <1>6, <1>7, Zenon DEF Stepped, CallStep

-----------------------------------------------------------------------------
(* Theorems. *)

\* Indices, counts, calls and the registry stay within their types and limits, for any
\* numbers of queues and tasks, any capacities and any workload.
THEOREM MessageServiceTypes == Spec => []TypeOK
BY InitInv, StepInv, Implied, PTL DEF Spec

\* However urgent sends, insertions by priority, receives and the cleanup after a task
\* (send_message, insert_message_by_priority, receive_message, cleanup_task_messages) follow
\* each other, head, tail and size of a ring of any capacity agree and exactly the places
\* between head and tail hold messages.
THEOREM RingsStayWhole == Spec => []RingIsWhole
BY InitInv, StepInv, Implied, PTL DEF Spec

\* The semaphores of a queue account for its messages and its places: none becomes
\* unusable unless a task ends between the grant of a place and its use, and none is
\* promised twice until cleanup_task_messages resets the semaphores under a granted call.
THEOREM SemaphoresAccount == Spec => []PlacesAccountedFor
BY InitInv, StepInv, Implied, PTL DEF Spec

\* A queue that was registered for a task when there was room is found in the registry
\* until it is unregistered, cleaned up after or destroyed, and the registry names no queue
\* that no call explains (register_task_queue, unregister_task_queue, cleanup_task_queues).
THEOREM RegistryIsRight == Spec => []RegistryMatchesCalls
BY InitInv, StepInv, Implied, PTL DEF Spec

\* As long as it exists, the queue that reply_to_message finds for a task is changed only
\* by unregister_task_queue for that queue, cleanup_task_queues for that task and the end
\* of the queue (find_task_queue).
THEOREM RepliesStay == Spec => RepliesAreNotRedirected
<1>1. ASSUME IInv, [Next]_vars, NEW t \in Tasks, NEW q, q = find_task_queue(task_registry, t),
             q \in Live, find_task_queue(task_registry', t) # q
      PROVE  unregister_task_queue(t, q) \/ cleanup_task_queues(t)
  <2>1. load \in Workloads /\ RegistryInv /\ RegistryInv'
    BY <1>1, StepInv, Zenon DEF IInv
  <2>2. Sound(task_registry) /\ Sound(task_registry')
    BY <2>1, Zenon DEF RegistryInv
  <2>3. q \in Queues /\ Holds(task_registry, t, 1, q)
    <3>1. q \in Queues
      BY <1>1, LiveFacts, Zenon DEF IInv
    <3> QED  BY <1>1, <2>2, <3>1, RegistryOperations, Zenon DEF LookupWorks
  <2>4. ~ Holds(task_registry', t, 1, q)
    BY <1>1, <2>2, <2>3, RegistryOperations, Zenon DEF LookupWorks
  <2>5. \/ LeftAlone
        \/ \E u \in Tasks, p \in Queues : register_task_queue(u, p) \/ unregister_task_queue(u, p)
        \/ \E u \in Tasks : cleanup_task_queues(u)
    BY <1>1, <2>1, RegistrySteps, Zenon
  <2>6. CASE LeftAlone
    BY <1>1, <2>6, Zenon DEF LeftAlone
  <2>7. ASSUME NEW u \in Tasks, NEW p \in Queues, register_task_queue(u, p) PROVE FALSE
    BY <2>1, <2>3, <2>4, <2>7, RegisterInv, Zenon
  <2>8. ASSUME NEW u \in Tasks, NEW p \in Queues, unregister_task_queue(u, p)
        PROVE  unregister_task_queue(t, q)
    <3>1. \A x, y : Holds(task_registry, x, 1, y) /\ ~ (x = u /\ y = p) =>
                      Holds(task_registry', x, 1, y)
      BY <2>1, <2>8, UnregisterInv, SMT
    <3>2. t = u /\ q = p
      BY <2>3, <2>4, <3>1, SMT
    <3> QED  BY <2>8, <3>2, Zenon
  <2>9. ASSUME NEW u \in Tasks, cleanup_task_queues(u) PROVE cleanup_task_queues(t)
    <3>1. \A x, y : Holds(task_registry, x, 1, y) /\ x # u => Holds(task_registry', x, 1, y)
      BY <2>1, <2>9, CleanupInv, Zenon
    <3>2. t = u
      BY <2>3, <2>4, <3>1, Zenon
    <3> QED  BY <2>9, <3>2, Zenon
  <2> QED  BY <2>5, <2>6, <2>7, <2>8, <2>9, Zenon
<1>2. IInv /\ [Next]_vars =>
        [\A t \in Tasks :
           LET q == find_task_queue(task_registry, t)
           IN  q \in Live /\ find_task_queue(task_registry', t) # q =>
                 \/ unregister_task_queue(t, q)
                 \/ cleanup_task_queues(t)
                 \/ destroy_message_queue(q)]_vars
  BY <1>1, Zenon
<1> QED  BY InitInv, StepInv, <1>2, PTL DEF Spec, RepliesAreNotRedirected

\* The rings implement MessageList: a message joins where
\* its priority allows, only the first message is delivered, a full queue takes none, and
\* a cleanup removes exactly the messages of the task that ended, whatever the capacities.
THEOREM RingsImplementLists == Spec => BehavesAsLists
<1>1. Init => List!Init
  <2> SUFFICES ASSUME Init PROVE List!Init
    BY Zenon
  <2>1. Live = {}
    BY DEF Init, Live
  <2>2. \A q \in Queues : Contents(queue[q]) = <<>>
    <3>1. \A q \in Queues : Capacity[q] \in Nat \ {0} /\ queue[q] = NewQueue(Capacity[q])
      BY ServiceAssumption, Zenon DEF Init
    <3> QED  BY <3>1, NewQueueFacts, Zenon
  <2> QED  BY <2>1, <2>2, Zenon DEF List!Init
<1>2. IInv /\ [Next]_vars => [List!Next]_<<Live, Content>>
  BY StepInv, ListStep, Zenon
<1>3. IInv /\ [Next]_vars => [List!Next]_<<Live, [q \in Queues |-> Contents(queue[q])]>>
  BY <1>2, Zenon DEF Content
<1> QED  BY InitInv, StepInv, <1>1, <1>3, PTL DEF Spec, BehavesAsLists, List!Spec

=============================================================================
