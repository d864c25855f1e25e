------------------------------ MODULE EventProofs ------------------------------
(***************************************************************************)
(* Proofs about Event, for any tasks, events and sets, with and without    *)
(* failing allocations: the lists of waiters and the waiting tasks match,  *)
(* one signal of an automatic event lets one task through, and no signal   *)
(* is lost.                                                                *)
(*                                                                         *)
(* The first part says what the operations on lists do to the set of their *)
(* members; the second needs no more of the lists than that.               *)
(***************************************************************************)
EXTENDS Event, WellFoundedInduction, TLAPS

-----------------------------------------------------------------------------
(* The wait queues of kernel/ipc.c, and the search for a free slot of a pool. *)

\* The search of a pool from its first slot on has a result.
LEMMA LeastExists ==
  ASSUME NEW S \in SUBSET Nat, S # {}
  PROVE  \E s \in S : \A r \in S : s <= r
<1>1. \E s \in S : \A r \in S : ~ (<<r, s>> \in OpToRel(<, Nat))
  BY NatLessThanWellFounded, WFMin
<1>2. \A r, s \in Nat : r < s => <<r, s>> \in OpToRel(<, Nat)
  BY DEF OpToRel
<1>3. PICK s \in S : \A r \in S : ~ (r < s)
  BY <1>1, <1>2
<1> QED  BY <1>3

\* A queue whose first waiter is taken: the others move up by one.
LEMMA TailFacts ==
  ASSUME NEW q \in Seq(Tasks), q # <<>>
  PROVE  /\ Len(q) \in Nat \ {0} /\ Head(q) = q[1] /\ q[1] \in Tasks
         /\ Tail(q) \in Seq(Tasks) /\ Len(Tail(q)) = Len(q) - 1
         /\ \A i \in 1 .. Len(Tail(q)) : i + 1 \in 2 .. Len(q) /\ Tail(q)[i] = q[i + 1]
         /\ \A i \in 2 .. Len(q) : i - 1 \in 1 .. Len(Tail(q)) /\ Tail(q)[i - 1] = q[i]
<1>1. /\ Len(q) \in Nat \ {0} /\ Head(q) = q[1] /\ q[1] \in Tasks
      /\ Tail(q) \in Seq(Tasks) /\ Len(Tail(q)) = Len(q) - 1
  OBVIOUS
<1>2. \A i \in 1 .. Len(Tail(q)) : i + 1 \in 2 .. Len(q) /\ Tail(q)[i] = q[i + 1]
  BY <1>1
<1>3. \A i \in 2 .. Len(q) : i - 1 \in 1 .. Len(Tail(q)) /\ (i - 1) + 1 = i
  BY <1>1
<1>4. \A i \in 2 .. Len(q) : Tail(q)[i - 1] = q[i]
  BY <1>2, <1>3
<1> QED  BY <1>1, <1>2, <1>3, <1>4

-----------------------------------------------------------------------------
(* Lists without repetition. *)

\* A list of members of S, each in it once.
List(q, S) == q \in Seq(S) /\ Once(q)

\* The members of a list are found by their positions.
LEMMA Members ==
  ASSUME NEW S, NEW q \in Seq(S)
  PROVE  /\ \A x : x \in ToSet(q) <=> \E i \in 1 .. Len(q) : q[i] = x
         /\ \A x : Contains(q, x) <=> x \in ToSet(q)
         /\ ToSet(q) \subseteq S /\ WokenAll(q) = ToSet(q)
         /\ ToSet(q) = {} <=> q = <<>>
<1>1. DOMAIN q = 1 .. Len(q) /\ Len(q) \in Nat
  OBVIOUS
<1>2. \A x : x \in ToSet(q) <=> \E i \in 1 .. Len(q) : q[i] = x
  BY <1>1 DEF ToSet
<1>3. \A x : Contains(q, x) <=> x \in ToSet(q)
  BY <1>2 DEF Contains
<1>4. ToSet(q) \subseteq S
  BY <1>2
<1>5. WokenAll(q) = ToSet(q)
  BY <1>1 DEF ToSet, WokenAll
<1>6. ToSet(q) = {} => q = <<>>
  <2> SUFFICES ASSUME ToSet(q) = {}, Len(q) # 0 PROVE FALSE
    OBVIOUS
  <2>1. 1 \in 1 .. Len(q)
    BY <1>1
  <2> QED  BY <1>2, <2>1
<1>7. q = <<>> => ToSet(q) = {}
  BY DEF ToSet
<1> QED  BY <1>2, <1>3, <1>4, <1>5, <1>6, <1>7

\* An empty list.
LEMMA EmptyList == \A S : List(<<>>, S) /\ ToSet(<<>>) = {}
BY DEF List, Once, ToSet

\* add_event_waiter puts a new waiter in front, or nowhere.
LEMMA ConsFacts ==
  ASSUME NEW S, NEW q, List(q, S), NEW t \in S, t \notin ToSet(q)
  PROVE  List(Cons(t, q), S) /\ ToSet(Cons(t, q)) = ToSet(q) \cup {t} /\ Cons(t, q) # q
<1> DEFINE r == Cons(t, q)
<1>1. q \in Seq(S) /\ Len(q) \in Nat /\ \A i \in 1 .. Len(q) : q[i] # t
  BY Members DEF List, ToSet
<1>2. /\ r \in Seq(S) /\ Len(r) = Len(q) + 1 /\ r[1] = t
      /\ \A i \in 2 .. Len(r) : r[i] = q[i - 1]
  BY <1>1 DEF Cons
<1> HIDE DEF r
<1>3. Once(r)
  BY <1>1, <1>2, SMTT(30) DEF List, Once
<1>4. ToSet(r) = ToSet(q) \cup {t}
  <2>1. \A i \in 1 .. Len(q) : i + 1 \in 2 .. Len(r) /\ r[i + 1] = q[i]
    BY <1>1, <1>2
  <2>2. \A i \in 1 .. Len(r) : r[i] = t \/ \E j \in 1 .. Len(q) : r[i] = q[j]
    BY <1>1, <1>2
  <2>3. 1 \in 1 .. Len(r) /\ \A i \in 2 .. Len(r) : i \in 1 .. Len(r)
    BY <1>1, <1>2
  <2>4. \A x : x \in ToSet(r) <=> \E i \in 1 .. Len(r) : r[i] = x
    BY <1>2, Members
  <2>5. \A x : x \in ToSet(q) <=> \E i \in 1 .. Len(q) : q[i] = x
    BY <1>1, Members
  <2>6. \A x \in ToSet(r) : x \in ToSet(q) \cup {t}
    BY <2>2, <2>4, <2>5
  <2>7. \A x \in ToSet(q) : x \in ToSet(r)
    BY <2>1, <2>3, <2>4, <2>5
  <2>8. t \in ToSet(r)
    BY <1>2, <2>3, <2>4
  <2> QED  BY <2>6, <2>7, <2>8
<1>5. r # q
  BY <1>1, <1>2
<1> QED  BY <1>2, <1>3, <1>4, <1>5 DEF List, r

\* An event is appended to those of a set.
LEMMA AppendFacts ==
  ASSUME NEW S, NEW q, List(q, S), NEW t \in S, ~ Contains(q, t)
  PROVE  List(Append(q, t), S) /\ Len(Append(q, t)) = Len(q) + 1
BY DEF List, Once, Contains

\* The first waiter leaves the list.
LEMMA WakeFirstFacts ==
  ASSUME NEW q, List(q, Tasks)
  PROVE  /\ List(AfterWakeFirst(q), Tasks)
         /\ ToSet(AfterWakeFirst(q)) = ToSet(q) \ WokenFirst(q)
         /\ WokenFirst(q) \subseteq ToSet(q)
<1>1. CASE q = <<>>
  BY <1>1, EmptyList DEF AfterWakeFirst, WokenFirst
<1>2. CASE q # <<>>
  <2>1. q \in Seq(Tasks)
    BY DEF List
  <2>2. /\ Len(q) \in Nat \ {0} /\ Head(q) = q[1] /\ q[1] \in Tasks
        /\ Tail(q) \in Seq(Tasks) /\ Len(Tail(q)) = Len(q) - 1
        /\ \A i \in 1 .. Len(Tail(q)) : i + 1 \in 2 .. Len(q) /\ Tail(q)[i] = q[i + 1]
        /\ \A i \in 2 .. Len(q) : i - 1 \in 1 .. Len(Tail(q)) /\ Tail(q)[i - 1] = q[i]
    BY <1>2, <2>1, TailFacts
  <2>3. AfterWakeFirst(q) = Tail(q) /\ WokenFirst(q) = {q[1]}
    BY <1>2, <2>2 DEF AfterWakeFirst, WokenFirst
  <2> DEFINE r == Tail(q)
  <2>4. /\ r \in Seq(Tasks) /\ Len(r) = Len(q) - 1
        /\ \A i \in 1 .. Len(r) : i + 1 \in 2 .. Len(q) /\ r[i] = q[i + 1]
        /\ \A i \in 2 .. Len(q) : i - 1 \in 1 .. Len(r) /\ r[i - 1] = q[i]
    BY <2>2
  <2> HIDE DEF r
  <2>5. \A i \in 2 .. Len(q) : q[i] # q[1]
    BY <2>2 DEF List, Once
  <2>6. Once(r)
    BY <2>2, <2>4 DEF List, Once
  <2>7. ToSet(r) = ToSet(q) \ {q[1]}
    <3>1. \A i \in 1 .. Len(q) : i = 1 \/ i \in 2 .. Len(q)
      BY <2>2
    <3>2. \A x : x \in ToSet(r) <=> \E i \in 2 .. Len(q) : q[i] = x
      BY <2>4, Members, SMTT(30)
    <3>3. \A x : x \in ToSet(q) <=> x = q[1] \/ \E i \in 2 .. Len(q) : q[i] = x
      BY <2>1, <2>2, <3>1, Members
    <3> QED  BY <2>5, <3>2, <3>3
  <2>8. q[1] \in ToSet(q)
    BY <2>1, <2>2 DEF ToSet
  <2> QED  BY <2>3, <2>4, <2>6, <2>7, <2>8 DEF List, r
<1> QED  BY <1>1, <1>2

\* remove_event_waiter: the waiter of t, if it has one, leaves the list.
LEMMA RemoveFirstFacts ==
  ASSUME NEW S, NEW q, List(q, S), NEW t
  PROVE  /\ List(RemoveFirst(q, t), S) /\ Len(RemoveFirst(q, t)) <= Len(q)
         /\ ToSet(RemoveFirst(q, t)) = ToSet(q) \ {t}
         /\ t \notin ToSet(q) => RemoveFirst(q, t) = q
<1>1. q \in Seq(S) /\ Len(q) \in Nat
  BY DEF List
<1>2. CASE \E i \in 1 .. Len(q) : q[i] = t
  <2> DEFINE I == {i \in 1 .. Len(q) : q[i] = t}
             k == SelectInSeq(q, LAMBDA v : v = t)
             r == RemoveFirst(q, t)
  <2>1. k = Min(I)
    BY <1>2 DEF SelectInSeq
  <2>2. k \in I
    <3>1. I \in SUBSET Nat /\ I # {}
      BY <1>2
    <3>2. \E s \in I : \A x \in I : s <= x
      BY <3>1, LeastExists, Zenon
    <3> QED  BY <2>1, <3>2, Zenon DEF Min
  <2>3. r = SubSeq(q, 1, k - 1) \o SubSeq(q, k + 1, Len(q))
    BY <1>2, Zenon DEF RemoveFirst, RemoveAt
  <2> HIDE DEF k, r
  <2>4. k \in 1 .. Len(q) /\ q[k] = t
    BY <2>2
  <2>5. /\ r \in Seq(S) /\ Len(r) = Len(q) - 1
        /\ \A i \in 1 .. Len(r) : r[i] = IF i < k THEN q[i] ELSE q[i + 1]
    <3> DEFINE a == SubSeq(q, 1, k - 1)
               b == SubSeq(q, k + 1, Len(q))
    <3>1. a \in Seq(S) /\ Len(a) = k - 1 /\ \A i \in 1 .. k - 1 : a[i] = q[i]
      BY <1>1, <2>4
    <3>2. /\ b \in Seq(S) /\ Len(b) = Len(q) - k
          /\ \A i \in 1 .. Len(q) - k : b[i] = q[k + i]
      BY <1>1, <2>4
    <3>3. r = a \o b
      BY <2>3
    <3> HIDE DEF a, b
    <3>4. r \in Seq(S) /\ Len(r) = Len(q) - 1
      BY <1>1, <2>4, <3>1, <3>2, <3>3, SMTT(30)
    <3>5. ASSUME NEW i \in 1 .. Len(r) PROVE r[i] = IF i < k THEN q[i] ELSE q[i + 1]
      <4>1. CASE i < k
        BY <1>1, <2>4, <3>1, <3>2, <3>3, <3>4, <4>1
      <4>2. CASE ~ (i < k)
        <5>1. r[i] = b[i - (k - 1)]
          BY <1>1, <2>4, <3>1, <3>2, <3>3, <3>4, <4>2, SMTT(30)
        <5>2. i - (k - 1) \in 1 .. Len(q) - k /\ k + (i - (k - 1)) = i + 1
          BY <1>1, <2>4, <3>4, <4>2
        <5> QED  BY <3>2, <4>2, <5>1, <5>2
      <4> QED  BY <4>1, <4>2
    <3> QED  BY <3>4, <3>5
  <2>6. Once(r)
    BY <1>1, <2>4, <2>5, SMTT(30) DEF List, Once
  <2>7. ToSet(r) = ToSet(q) \ {t}
    <3>1. \A i \in 1 .. Len(q) : q[i] = t => i = k
      BY <2>4 DEF List, Once
    <3>2. \A i \in 1 .. Len(r) : r[i] # t /\ \E j \in 1 .. Len(q) : r[i] = q[j]
      BY <1>1, <2>4, <2>5, <3>1
    <3>3. ASSUME NEW i \in 1 .. Len(q), q[i] # t PROVE \E j \in 1 .. Len(r) : q[i] = r[j]
      <4>1. CASE i < k
        BY <1>1, <2>4, <2>5, <4>1
      <4>2. CASE i > k
        <5>1. i - 1 \in 1 .. Len(r) /\ ~ (i - 1 < k) /\ (i - 1) + 1 = i
          BY <1>1, <2>4, <2>5, <4>2
        <5>2. r[i - 1] = q[i]
          BY <2>5, <5>1
        <5> QED  BY <5>1, <5>2
      <4> QED  BY <2>4, <3>3, <4>1, <4>2
    <3>4. \A x : x \in ToSet(r) <=> \E i \in 1 .. Len(r) : r[i] = x
      BY <2>5, Members
    <3>5. \A x : x \in ToSet(q) <=> \E i \in 1 .. Len(q) : q[i] = x
      BY <1>1, Members
    <3>6. \A x \in ToSet(r) : x \in ToSet(q) /\ x # t
      BY <3>2, <3>4, <3>5, Zenon
    <3>7. \A x \in ToSet(q) : x # t => x \in ToSet(r)
      BY <3>3, <3>4, <3>5
    <3> QED  BY <3>6, <3>7
  <2>8. t \in ToSet(q)
    BY <1>1, <2>4 DEF ToSet
  <2> QED  BY <1>1, <2>5, <2>6, <2>7, <2>8 DEF List, r
<1>3. CASE ~ \E i \in 1 .. Len(q) : q[i] = t
  <2>1. RemoveFirst(q, t) = q
    BY <1>3 DEF RemoveFirst
  <2>2. t \notin ToSet(q)
    BY <1>1, <1>3 DEF ToSet
  <2> QED  BY <1>1, <2>1, <2>2
<1> QED  BY <1>2, <1>3

\* The recursion that removes the expired waiters from a list, up to position n.
Keeps(w, q, X, n) ==
  /\ w = [i \in 0 .. n |-> w[i]]
  /\ w[0] = <<>>
  /\ \A i \in 1 .. n : w[i] = IF q[i] \in X THEN w[i - 1] ELSE Append(w[i - 1], q[i])

\* It has a result, for a list of any length.
LEMMA KeepsExists ==
  ASSUME NEW q, NEW X, NEW n \in Nat
  PROVE  \E w : Keeps(w, q, X, n)
<1> DEFINE Bad == {m \in Nat : ~ \E w : Keeps(w, q, X, m)}
<1> SUFFICES ASSUME Bad # {} PROVE FALSE
  OBVIOUS
<1>1. PICK m \in Bad : \A r \in Bad : m <= r
  BY LeastExists, Zenon
<1>2. m # 0
  <2>1. Keeps([i \in 0 .. 0 |-> <<>>], q, X, 0)
    BY DEF Keeps
  <2> QED  BY <1>1, <2>1
<1>3. m \in Nat \ {0} /\ m - 1 \in Nat /\ m - 1 \notin Bad
  BY <1>1, <1>2
<1>4. PICK w : Keeps(w, q, X, m - 1)
  BY <1>3
<1> DEFINE v == [i \in 0 .. m |->
                   IF i = m THEN (IF q[m] \in X THEN w[m - 1] ELSE Append(w[m - 1], q[m]))
                   ELSE w[i]]
<1>5. /\ v = [i \in 0 .. m |-> v[i]] /\ \A i \in 0 .. m - 1 : v[i] = w[i]
      /\ v[m] = IF q[m] \in X THEN w[m - 1] ELSE Append(w[m - 1], q[m])
  BY <1>3
<1> HIDE DEF v
<1>6. Keeps(v, q, X, m)
  <2>1. v[0] = <<>>
    BY <1>3, <1>4, <1>5, SMTT(30) DEF Keeps
  <2>2. ASSUME NEW i \in 1 .. m
        PROVE  v[i] = IF q[i] \in X THEN v[i - 1] ELSE Append(v[i - 1], q[i])
    <3>1. CASE i = m
      <4>0. m - 1 \in 0 .. m - 1
        BY <1>3
      <4>1. v[m - 1] = w[m - 1]
        BY <1>5, <4>0, Zenon
      <4> QED  BY <1>5, <3>1, <4>1, Zenon
    <3>2. CASE i # m
      <4>1. i \in 1 .. m - 1 /\ i \in 0 .. m - 1 /\ i - 1 \in 0 .. m - 1
        BY <1>3, <3>2
      <4>2. w[i] = IF q[i] \in X THEN w[i - 1] ELSE Append(w[i - 1], q[i])
        BY <1>4, <4>1, Zenon DEF Keeps
      <4> QED  BY <1>5, <4>1, <4>2, Zenon
    <3> QED  BY <3>1, <3>2
  <2> QED  BY <1>5, <2>1, <2>2, Zenon DEF Keeps
<1> QED  BY <1>1, <1>6

\* What is kept of the first i members of a list, in their order.
KeptOf(r, q, X, S, i) ==
  /\ r \in Seq(S)
  /\ \A x : x \in ToSet(r) <=> x \notin X /\ \E j \in 1 .. i : q[j] = x
  /\ Once(r)

\* check_event_timeouts: the waiters of X leave the list.
LEMMA WithoutFacts ==
  ASSUME NEW S, NEW q, List(q, S), NEW X
  PROVE  List(Without(q, X), S) /\ ToSet(Without(q, X)) = ToSet(q) \ X
<1>1. q \in Seq(S) /\ Len(q) \in Nat
  BY DEF List
<1> DEFINE kept[i \in 0 .. Len(q)] ==
             IF i = 0 THEN <<>>
             ELSE IF q[i] \in X THEN kept[i - 1] ELSE Append(kept[i - 1], q[i])
<1>2. Keeps(kept, q, X, Len(q))
  <2> DEFINE Def(f) == [i \in 0 .. Len(q) |->
                          IF i = 0 THEN <<>>
                          ELSE IF q[i] \in X THEN f[i - 1] ELSE Append(f[i - 1], q[i])]
  <2>1. PICK w : Keeps(w, q, X, Len(q))
    BY <1>1, KeepsExists, Zenon
  <2>2. w = Def(w)
    <3>0. w = [i \in 0 .. Len(q) |-> w[i]]
      BY <2>1 DEF Keeps
    <3>1. \A i \in 0 .. Len(q) : i # 0 => i \in 1 .. Len(q)
      BY <1>1
    <3>2. \A i \in 0 .. Len(q) : w[i] = Def(w)[i]
      BY <2>1, <3>1, Zenon DEF Keeps
    <3> QED  BY <2>1, <3>0, <3>2, Zenon DEF Keeps
  <2>3. kept = CHOOSE f : f = Def(f)
    BY DEF kept
  <2>4. kept = Def(kept)
    BY <2>2, <2>3, Zenon
  <2> HIDE DEF kept
  <2>5. kept = [i \in 0 .. Len(q) |-> kept[i]] /\ kept[0] = <<>>
    BY <1>1, <2>4
  <2>7. \A i \in 1 .. Len(q) : i \in 0 .. Len(q) /\ i # 0
    BY <1>1
  <2>6. \A i \in 1 .. Len(q) :
          kept[i] = IF q[i] \in X THEN kept[i - 1] ELSE Append(kept[i - 1], q[i])
    BY <2>4, <2>7, Zenon
  <2> QED  BY <2>5, <2>6, Zenon DEF Keeps
<1>3. Without(q, X) = kept[Len(q)]
  BY DEF Without
<1> HIDE DEF kept
<1> DEFINE Bad == {i \in 0 .. Len(q) : ~ KeptOf(kept[i], q, X, S, i)}
<1>4. Bad = {}
  <2> SUFFICES ASSUME Bad # {} PROVE FALSE
    OBVIOUS
  <2>1. PICK m \in Bad : \A r \in Bad : m <= r
    <3>1. Bad \in SUBSET Nat
      BY <1>1
    <3> QED  BY <3>1, LeastExists, Zenon
  <2>2. CASE m = 0
    <3>1. kept[0] = <<>>
      BY <1>2 DEF Keeps
    <3>2. <<>> \in Seq(S) /\ Once(<<>>) /\ ToSet(<<>>) = {}
      BY EmptyList DEF List
    <3>3. KeptOf(<<>>, q, X, S, 0)
      BY <3>2 DEF KeptOf
    <3> QED  BY <2>1, <2>2, <3>1, <3>3
  <2>3. CASE m # 0
    <3>1. m \in 1 .. Len(q) /\ m - 1 \in 0 .. Len(q) /\ m - 1 \notin Bad /\ m \in Nat
      BY <1>1, <2>1, <2>3
    <3> DEFINE r == kept[m - 1]
               s == kept[m]
    <3>2. KeptOf(r, q, X, S, m - 1)
      BY <3>1
    <3>3. s = IF q[m] \in X THEN r ELSE Append(r, q[m])
      BY <1>2, <3>1, Zenon DEF Keeps
    <3> HIDE DEF r, s
    <3>4. \A j \in 1 .. m : j = m \/ j \in 1 .. m - 1
      BY <3>1
    <3>5. \A j \in 1 .. m - 1 : j \in 1 .. m /\ j \in 1 .. Len(q) /\ j # m
      BY <1>1, <3>1
    <3>6. m \in 1 .. m
      BY <3>1
    <3>7. CASE q[m] \in X
      <4>1. s = r
        BY <3>3, <3>7
      <4>2. \A x : x \in ToSet(r) <=> x \notin X /\ \E j \in 1 .. m : q[j] = x
        BY <3>2, <3>4, <3>5, <3>6, <3>7 DEF KeptOf
      <4>3. KeptOf(r, q, X, S, m)
        BY <3>2, <4>2, Zenon DEF KeptOf
      <4> QED  BY <2>1, <4>1, <4>3 DEF s
    <3>8. CASE q[m] \notin X
      <4>0. r \in Seq(S) /\ Len(r) \in Nat /\ q[m] \in S
        BY <1>1, <3>1, <3>2, SMTT(30) DEF KeptOf
      <4>1. /\ s \in Seq(S) /\ Len(s) = Len(r) + 1 /\ s[Len(r) + 1] = q[m]
            /\ \A i \in 1 .. Len(r) : s[i] = r[i]
        BY <3>3, <3>8, <4>0
      <4>2. \A j \in 1 .. m - 1 : q[j] # q[m]
        BY <3>1, <3>5 DEF List, Once
      <4>3. q[m] \notin ToSet(r)
        BY <3>2, <4>2, Zenon DEF KeptOf
      <4>4. \A i \in 1 .. Len(r) : r[i] # q[m]
        BY <4>0, <4>3, Members
      <4>5. \A i \in 1 .. Len(s) : i = Len(r) + 1 \/ i \in 1 .. Len(r)
        BY <4>0, <4>1
      <4>6. Once(s)
        BY <3>2, <4>1, <4>4, <4>5, Zenon DEF KeptOf, Once
      <4>7. \A x : x \in ToSet(s) <=> x = q[m] \/ x \in ToSet(r)
        <5>1. \A x : x \in ToSet(s) <=> \E i \in 1 .. Len(s) : s[i] = x
          BY <4>1, Members
        <5>2. \A x : x \in ToSet(r) <=> \E i \in 1 .. Len(r) : r[i] = x
          BY <4>0, Members
        <5>3. Len(r) + 1 \in 1 .. Len(s) /\ \A i \in 1 .. Len(r) : i \in 1 .. Len(s)
          BY <4>0, <4>1
        <5> QED  BY <4>1, <4>5, <5>1, <5>2, <5>3
      <4>8. \A x : x \in ToSet(s) <=> x \notin X /\ \E j \in 1 .. m : q[j] = x
        BY <3>2, <3>4, <3>5, <3>6, <3>8, <4>7 DEF KeptOf
      <4>9. KeptOf(s, q, X, S, m)
        BY <4>1, <4>6, <4>8 DEF KeptOf
      <4> QED  BY <2>1, <4>9 DEF s
    <3> QED  BY <3>7, <3>8
  <2> QED  BY <2>2, <2>3
<1>5. KeptOf(Without(q, X), q, X, S, Len(q))
  BY <1>1, <1>3, <1>4
<1>6. \A x : x \in ToSet(q) <=> \E i \in 1 .. Len(q) : q[i] = x
  BY <1>1, Members
<1> QED  BY <1>5, <1>6 DEF KeptOf, List

-----------------------------------------------------------------------------
(* The inductive invariant. *)

Objects == [kind: {"none", "event", "set"}, slot: Nat]

Places == PCs \cup {"dead", "gone"}

Types ==
  /\ live \in [Events -> BOOLEAN] /\ manual \in [Events -> BOOLEAN]
  /\ signaled \in [Events -> BOOLEAN] /\ fresh \in [Events -> BOOLEAN]
  /\ waiters \in [Events -> Seq(Tasks)]
  /\ set_live \in [Sets -> BOOLEAN] /\ set_waiters \in [Sets -> Seq(Tasks)]
  /\ pc \in [Tasks -> Places] /\ on \in [Tasks -> Objects]
  /\ timed \in [Tasks -> BOOLEAN] /\ told \in [Tasks -> BOOLEAN]
  /\ unlisted \subseteq Tasks

\* The events of a set.
SetsOK ==
  /\ events \in [Sets -> Seq(Events)]
  /\ \A s \in Sets : List(events[s], Events) /\ Len(events[s]) <= SetSize

InList == {"enq", "blocked", "dead"}

\* A task in a wait waits for an event or a set.
InWait ==
  \A t \in Tasks : pc[t] \in InList \cup {"woken"} =>
    \/ on[t].kind = "event" /\ on[t].slot \in Events
    \/ on[t].kind = "set" /\ on[t].slot \in Sets

\* The lists w of the objects D of a kind, of which lv are there: they hold tasks that wait.
Lists(w, lv, kind, D, p, o) ==
  \A d \in D :
    /\ List(w[d], Tasks)
    /\ \A t \in ToSet(w[d]) : lv[d] /\ o[t] = [kind |-> kind, slot |-> d] /\ p[t] \in InList

\* A task that waits is in the list of its object.
Found(w, sw, p, o, un) ==
  \A t \in Tasks \ un : p[t] \in {"enq", "blocked"} =>
    IF o[t].kind = "event" THEN t \in ToSet(w[o[t].slot]) ELSE t \in ToSet(sw[o[t].slot])

Match ==
  /\ Lists(waiters, live, "event", Events, pc, on)
  /\ Lists(set_waiters, set_live, "set", Sets, pc, on)
  /\ Found(waiters, set_waiters, pc, on, unlisted)

\* A signal that leaves an event signaled wakes every task in its list, not one
\* of them (event_signal, event_broadcast).
NobodyWaitsOnSignaled == \A e \in Events : signaled[e] => waiters[e] = <<>>

IInv ==
  /\ Types
  /\ SetsOK
  /\ InWait
  /\ Match
  /\ AutoResetOnce
  /\ NobodyWaitsOnSignaled

\* The invariant is what the runs check, and more.
LEMMA InvariantImplies ==
  ASSUME IInv
  PROVE  TypeOK /\ AutoResetOnce /\ ListsMatchWaits
<1>1. TypeOK
  BY Zenon DEF IInv, Types, SetsOK, Match, Lists, List, TypeOK, Places
<1>2. ListsMatchWaits
  <2>1. /\ \A e \in Events : waiters[e] \in Seq(Tasks)
        /\ \A s \in Sets : set_waiters[s] \in Seq(Tasks)
    BY DEF IInv, Types
  <2>2. /\ \A e \in Events : \A t \in ToSet(waiters[e]) :
             live[e] /\ on[t] = [kind |-> "event", slot |-> e] /\ pc[t] \in InList
        /\ \A s \in Sets : \A t \in ToSet(set_waiters[s]) :
             set_live[s] /\ on[t] = [kind |-> "set", slot |-> s] /\ pc[t] \in InList
    BY DEF IInv, Match, Lists
  <2>3. ASSUME NEW t \in Tasks \ unlisted, pc[t] \in {"enq", "blocked"}
        PROVE  IF on[t].kind = "event" THEN Contains(waiters[on[t].slot], t)
                                       ELSE Contains(set_waiters[on[t].slot], t)
    <3>1. IF on[t].kind = "event" THEN t \in ToSet(waiters[on[t].slot])
                                  ELSE t \in ToSet(set_waiters[on[t].slot])
      BY <2>3, Zenon DEF IInv, Match, Found
    <3>2. \/ on[t].kind = "event" /\ on[t].slot \in Events
          \/ on[t].kind = "set" /\ on[t].slot \in Sets
      BY <2>3 DEF IInv, InWait, InList
    <3> QED  BY <2>1, <3>1, <3>2, Members, SMTT(30)
  <2> QED  BY <2>2, <2>3, Zenon DEF ListsMatchWaits, InList
<1> QED  BY <1>1, <1>2 DEF IInv

\* At boot there is one event and no wait.
LEMMA InitHolds == Init => IInv
<1> SUFFICES ASSUME Init PROVE IInv
  OBVIOUS
<1>1. <<>> \in Seq(Tasks) /\ <<>> \in Seq(Events) /\ NoObject \in Objects /\ "idle" \in Places
  BY DEF NoObject, Objects, Places, PCs
<1>2. Types
  <2>1. live \in [Events -> BOOLEAN] /\ manual \in [Events -> BOOLEAN]
    BY Zenon DEF Init
  <2> QED  BY <1>1, <2>1 DEF Init, Types
<1>3. SetsOK
  BY <1>1, EmptyList, EventAssumption DEF Init, SetsOK
<1>4. InWait /\ AutoResetOnce /\ NobodyWaitsOnSignaled
  BY DEF Init, InWait, InList, AutoResetOnce, NobodyWaitsOnSignaled
<1>5. Match
  BY EmptyList DEF Init, Match, Lists, Found
<1> QED  BY <1>2, <1>3, <1>4, <1>5 DEF IInv

-----------------------------------------------------------------------------
(* What a step does to the lists and the waits. *)

\* The tasks W leave the lists, and no wait begins.
Leaves(W) ==
  /\ \A e \in Events : /\ List(waiters'[e], Tasks) /\ ToSet(waiters'[e]) = ToSet(waiters[e]) \ W
                       /\ live[e] /\ ToSet(waiters'[e]) # {} => live'[e]
  /\ \A s \in Sets : /\ List(set_waiters'[s], Tasks)
                     /\ ToSet(set_waiters'[s]) = ToSet(set_waiters[s]) \ W
                     /\ set_live[s] /\ ToSet(set_waiters'[s]) # {} => set_live'[s]
  /\ \A t \in Tasks \ W : pc[t] \in InList => pc'[t] \in InList /\ on'[t] = on[t]
  /\ \A t \in Tasks : pc'[t] \in InList \cup {"woken"} =>
                        pc[t] \in InList \cup {"woken"} /\ on'[t] = on[t]
  /\ \A t \in Tasks \ unlisted' : pc'[t] \in {"enq", "blocked"} =>
                                    t \notin W /\ t \notin unlisted /\ pc[t] \in {"enq", "blocked"}

\* Then the lists and the waits still match.
LEMMA LeavesMatch ==
  ASSUME Types, InWait, Match, NEW W, Leaves(W)
  PROVE  InWait' /\ Match'
<1>1. InWait'
  BY Zenon DEF Leaves, InWait
<1>2. \A e \in Events : ToSet(waiters[e]) \subseteq Tasks
  BY Members DEF Types
<1>3. \A s \in Sets : ToSet(set_waiters[s]) \subseteq Tasks
  BY Members DEF Types
<1>4. Lists(waiters', live', "event", Events, pc', on')
  BY <1>2, SMTT(30) DEF Leaves, Match, Lists
<1>5. Lists(set_waiters', set_live', "set", Sets, pc', on')
  BY <1>3, SMTT(30) DEF Leaves, Match, Lists
<1>6. Found(waiters', set_waiters', pc', on', unlisted')
  <2> SUFFICES ASSUME NEW t \in Tasks \ unlisted', pc'[t] \in {"enq", "blocked"}
               PROVE  IF on'[t].kind = "event" THEN t \in ToSet(waiters'[on'[t].slot])
                                               ELSE t \in ToSet(set_waiters'[on'[t].slot])
    BY DEF Found
  <2>1. t \notin W /\ t \notin unlisted /\ pc[t] \in {"enq", "blocked"}
    BY Zenon DEF Leaves
  <2>2. on'[t] = on[t]
    BY DEF Leaves, InList
  <2>3. IF on[t].kind = "event" THEN t \in ToSet(waiters[on[t].slot])
                                ELSE t \in ToSet(set_waiters[on[t].slot])
    BY <2>1, Zenon DEF Match, Found
  <2>4. \/ on[t].kind = "event" /\ on[t].slot \in Events
        \/ on[t].kind = "set" /\ on[t].slot \in Sets
    BY <2>1 DEF InWait, InList
  <2>5. CASE on[t].kind = "event"
    BY <2>1, <2>2, <2>3, <2>4, <2>5, Zenon DEF Leaves
  <2>6. CASE on[t].kind # "event"
    BY <2>1, <2>2, <2>3, <2>4, <2>6 DEF Leaves
  <2> QED  BY <2>5, <2>6, Zenon
<1> QED  BY <1>1, <1>4, <1>5, <1>6 DEF Match

\* A task that is not in a wait is in no list.
LEMMA ListedWait ==
  ASSUME Types, Match
  PROVE  /\ \A e \in Events : /\ ToSet(waiters[e]) \subseteq Tasks
                              /\ \A t \in ToSet(waiters[e]) : live[e] /\ pc[t] \in InList
         /\ \A s \in Sets : /\ ToSet(set_waiters[s]) \subseteq Tasks
                            /\ \A t \in ToSet(set_waiters[s]) : set_live[s] /\ pc[t] \in InList
<1>1. /\ \A e \in Events : waiters[e] \in Seq(Tasks)
      /\ \A s \in Sets : set_waiters[s] \in Seq(Tasks)
  BY DEF Types
<1>2. /\ \A e \in Events : ToSet(waiters[e]) \subseteq Tasks
      /\ \A s \in Sets : ToSet(set_waiters[s]) \subseteq Tasks
  BY <1>1, Members
<1> QED  BY <1>2, Zenon DEF Match, Lists

\* A task is in the list of no more than one object.
LEMMA InOneList ==
  ASSUME Match
  PROVE  /\ \A e, f \in Events : \A t : t \in ToSet(waiters[e]) /\ t \in ToSet(waiters[f]) => e = f
         /\ \A r, s \in Sets : \A t :
              t \in ToSet(set_waiters[r]) /\ t \in ToSet(set_waiters[s]) => r = s
         /\ \A e \in Events, s \in Sets : \A t :
              ~ (t \in ToSet(waiters[e]) /\ t \in ToSet(set_waiters[s]))
<1>1. ASSUME NEW e \in Events, NEW t \in ToSet(waiters[e])
      PROVE  on[t].kind = "event" /\ on[t].slot = e
  <2>1. on[t] = [kind |-> "event", slot |-> e]
    BY Zenon DEF Match, Lists
  <2> QED  BY <2>1, SMTT(30)
<1>2. ASSUME NEW s \in Sets, NEW t \in ToSet(set_waiters[s])
      PROVE  on[t].kind = "set" /\ on[t].slot = s
  <2>1. on[t] = [kind |-> "set", slot |-> s]
    BY Zenon DEF Match, Lists
  <2> QED  BY <2>1
<1> QED  BY <1>1, <1>2, SMTT(30)

\* unblock_task for W, by a task that runs: whoever was in a list is woken, unless it has
\* been terminated.
LEMMA UnblockWaiters ==
  ASSUME Types, NEW t \in Tasks, Calls(t), NEW W \in SUBSET Tasks,
         \A u \in W : pc[u] \in InList, pc' = Unblock(pc, W)
  PROVE  /\ pc' \in [Tasks -> Places]
         /\ \A u \in Tasks \ W : pc'[u] = pc[u]
         /\ \A u \in W : pc'[u] \in {"woken", "dead"}
<1>1. pc \in [Tasks -> Places] /\ \A u \in Tasks : pc[u] # "enq"
  BY DEF Types, Calls, MayRun
<1> QED  BY <1>1 DEF Unblock, Places, PCs, InList

\* The waiters W of the event e leave its list, which is then q, and are unblocked.
LEMMA EventLeaves ==
  ASSUME Types, Match, NEW t \in Tasks, Calls(t), NEW e \in Events, NEW q, List(q, Tasks),
         NEW W, W \subseteq ToSet(waiters[e]), ToSet(q) = ToSet(waiters[e]) \ W,
         waiters' = [waiters EXCEPT ![e] = q], pc' = Unblock(pc, W),
         \A f \in Events : live[f] => live'[f] \/ (f = e /\ ToSet(q) = {}),
         UNCHANGED <<set_live, set_waiters, on, unlisted>>
  PROVE  Leaves(W) /\ waiters' \in [Events -> Seq(Tasks)] /\ pc' \in [Tasks -> Places]
<1>1. W \subseteq Tasks /\ \A u \in W : pc[u] \in InList
  BY Members, Zenon DEF Types, Match, Lists
<1>2. /\ pc' \in [Tasks -> Places]
      /\ \A u \in Tasks \ W : pc'[u] = pc[u]
      /\ \A u \in W : pc'[u] \in {"woken", "dead"}
  BY <1>1, UnblockWaiters, Zenon
<1>3. waiters'[e] = q /\ \A f \in Events \ {e} : waiters'[f] = waiters[f]
  BY DEF Types
<1>4. q \in Seq(Tasks)
  BY Zenon DEF List
<1>5. waiters' \in [Events -> Seq(Tasks)]
  BY <1>4 DEF Types
<1>6. ASSUME NEW f \in Events
      PROVE  /\ List(waiters'[f], Tasks) /\ ToSet(waiters'[f]) = ToSet(waiters[f]) \ W
             /\ live[f] /\ ToSet(waiters'[f]) # {} => live'[f]
  <2>1. CASE f = e
    BY <1>3, <2>1, Zenon
  <2>2. CASE f # e
    BY <1>3, <2>2, InOneList, Zenon DEF Match, Lists
  <2> QED  BY <2>1, <2>2, Zenon
<1>7. ASSUME NEW s \in Sets
      PROVE  /\ List(set_waiters'[s], Tasks) /\ ToSet(set_waiters'[s]) = ToSet(set_waiters[s]) \ W
             /\ set_live[s] => set_live'[s]
  BY InOneList, Zenon DEF Match, Lists
<1>8. Leaves(W)
  BY <1>1, <1>2, <1>6, <1>7, Zenon DEF Leaves, InList
<1> QED  BY <1>2, <1>5, <1>8, Zenon

\* The same, for the waiters of a set.
LEMMA SetLeaves ==
  ASSUME Types, Match, NEW t \in Tasks, Calls(t), NEW s \in Sets, NEW q, List(q, Tasks),
         NEW W, W \subseteq ToSet(set_waiters[s]), ToSet(q) = ToSet(set_waiters[s]) \ W,
         set_waiters' = [set_waiters EXCEPT ![s] = q], pc' = Unblock(pc, W),
         \A f \in Sets : set_live[f] => set_live'[f] \/ (f = s /\ ToSet(q) = {}),
         UNCHANGED <<live, waiters, on, unlisted>>
  PROVE  Leaves(W) /\ set_waiters' \in [Sets -> Seq(Tasks)] /\ pc' \in [Tasks -> Places]
<1>1. W \subseteq Tasks /\ \A u \in W : pc[u] \in InList
  BY Members, Zenon DEF Types, Match, Lists
<1>2. /\ pc' \in [Tasks -> Places]
      /\ \A u \in Tasks \ W : pc'[u] = pc[u]
      /\ \A u \in W : pc'[u] \in {"woken", "dead"}
  BY <1>1, UnblockWaiters
<1>3. set_waiters'[s] = q /\ \A f \in Sets \ {s} : set_waiters'[f] = set_waiters[f]
  BY DEF Types
<1>4. q \in Seq(Tasks)
  BY DEF List
<1>5. set_waiters' \in [Sets -> Seq(Tasks)]
  BY <1>4 DEF Types
<1>6. ASSUME NEW f \in Sets
      PROVE  /\ List(set_waiters'[f], Tasks) /\ ToSet(set_waiters'[f]) = ToSet(set_waiters[f]) \ W
             /\ set_live[f] /\ ToSet(set_waiters'[f]) # {} => set_live'[f]
  <2>1. CASE f = s
    BY <1>3, <2>1
  <2>2. CASE f # s
    BY <1>3, <2>2, InOneList, Zenon DEF Match, Lists
  <2> QED  BY <2>1, <2>2
<1>7. ASSUME NEW e \in Events
      PROVE  /\ List(waiters'[e], Tasks) /\ ToSet(waiters'[e]) = ToSet(waiters[e]) \ W
             /\ live[e] => live'[e]
  BY InOneList, ZenonT(30) DEF Match, Lists
<1>8. Leaves(W)
  BY <1>1, <1>2, <1>6, <1>7, Zenon DEF Leaves, InList
<1> QED  BY <1>2, <1>5, <1>8

\* A step that changes no list, and in which no wait begins or ends unseen.
LEMMA NobodyLeaves ==
  ASSUME Types, Match, UNCHANGED <<waiters, set_waiters>>,
         \A e \in Events : live[e] => live'[e], \A s \in Sets : set_live[s] => set_live'[s],
         \A t \in Tasks : pc[t] \in InList => pc'[t] \in InList /\ on'[t] = on[t],
         \A t \in Tasks : pc'[t] \in InList \cup {"woken"} =>
                            pc[t] \in InList \cup {"woken"} /\ on'[t] = on[t],
         \A t \in Tasks \ unlisted' : pc'[t] \in {"enq", "blocked"} =>
                                        t \notin unlisted /\ pc[t] \in {"enq", "blocked"}
  PROVE  Leaves({})
<1>1. /\ \A e \in Events : List(waiters'[e], Tasks) /\ ToSet(waiters'[e]) = ToSet(waiters[e]) \ {}
      /\ \A s \in Sets : /\ List(set_waiters'[s], Tasks)
                         /\ ToSet(set_waiters'[s]) = ToSet(set_waiters[s]) \ {}
  BY Zenon DEF Match, Lists
<1> QED  BY <1>1, Zenon DEF Leaves

\* An event that lets a task through: it was signaled, and stays so only with manual reset.
LEMMA LetThroughFacts ==
  ASSUME Types, AutoResetOnce, NobodyWaitsOnSignaled, NEW e \in Events, signaled[e],
         LetThrough(e), UNCHANGED <<manual, waiters>>
  PROVE  /\ signaled' \in [Events -> BOOLEAN] /\ fresh' \in [Events -> BOOLEAN]
         /\ AutoResetOnce' /\ NobodyWaitsOnSignaled'
<1>1. /\ signaled' = [signaled EXCEPT ![e] = manual[e]] /\ fresh' = [fresh EXCEPT ![e] = FALSE]
      /\ signaled \in [Events -> BOOLEAN] /\ fresh \in [Events -> BOOLEAN]
      /\ manual[e] \in BOOLEAN
  BY DEF LetThrough, Types
<1>2. signaled' \in [Events -> BOOLEAN] /\ fresh' \in [Events -> BOOLEAN]
  BY <1>1
<1>3. /\ signaled'[e] = manual[e]
      /\ \A f \in Events \ {e} : signaled'[f] = signaled[f] /\ fresh'[f] = fresh[f]
  BY <1>1
<1>4. AutoResetOnce'
  BY <1>3 DEF AutoResetOnce
<1>5. NobodyWaitsOnSignaled'
  BY <1>3, Zenon DEF NobodyWaitsOnSignaled
<1> QED  BY <1>2, <1>4, <1>5

\* A step that leaves the state of the events alone.
LEMMA SameSignals ==
  ASSUME Types, AutoResetOnce, NobodyWaitsOnSignaled, NEW W, Leaves(W),
         UNCHANGED <<manual, signaled, fresh>>
  PROVE  AutoResetOnce' /\ NobodyWaitsOnSignaled'
<1>1. \A e \in Events : waiters[e] = <<>> => waiters'[e] = <<>>
  <2> SUFFICES ASSUME NEW e \in Events, waiters[e] = <<>> PROVE waiters'[e] = <<>>
    OBVIOUS
  <2>1. waiters'[e] \in Seq(Tasks) /\ ToSet(waiters'[e]) = ToSet(waiters[e]) \ W
    BY Zenon DEF Leaves, List
  <2>2. ToSet(waiters'[e]) = {}
    BY <2>1, EmptyList, Zenon
  <2> QED  BY <2>1, <2>2, Members, Zenon
<1> QED  BY <1>1 DEF AutoResetOnce, NobodyWaitsOnSignaled

\* A wait that begins: t, which is in no list, enters that of its object or none.
LEMMA JoinsEvent ==
  ASSUME Types, InWait, Match, NEW t \in Tasks, pc[t] = "idle", NEW e \in Events, live[e],
         NEW q \in add_event_waiter(waiters[e], t), waiters' = [waiters EXCEPT ![e] = q],
         StartWait(t, [kind |-> "event", slot |-> e], q # waiters[e]),
         UNCHANGED <<live, set_live, set_waiters>>
  PROVE  /\ InWait' /\ Match' /\ waiters' \in [Events -> Seq(Tasks)]
         /\ pc' \in [Tasks -> Places] /\ on' \in [Tasks -> Objects]
         /\ timed' \in [Tasks -> BOOLEAN] /\ unlisted' \subseteq Tasks
<1> DEFINE c == [kind |-> "event", slot |-> e]
<1>1. /\ pc' = [pc EXCEPT ![t] = "enq"] /\ on' = [on EXCEPT ![t] = c]
      /\ unlisted' = IF q # waiters[e] THEN unlisted ELSE unlisted \cup {t}
  BY Zenon DEF StartWait
<1>2. timed' \in [Tasks -> BOOLEAN]
  BY Zenon DEF StartWait, Types
<1>3. c \in Objects /\ c.kind = "event" /\ c.slot = e
  BY EventAssumption, Zenon DEF Objects
<1> HIDE DEF c
<1>4. /\ pc' \in [Tasks -> Places] /\ on' \in [Tasks -> Objects] /\ unlisted' \subseteq Tasks
  BY <1>1, <1>3, Zenon DEF Types, Places, PCs
<1>5. /\ pc'[t] = "enq" /\ on'[t] = c
      /\ \A u \in Tasks \ {t} : pc'[u] = pc[u] /\ on'[u] = on[u]
  BY <1>1, Zenon DEF Types
<1>6. /\ \A f \in Events : t \notin ToSet(waiters[f]) /\ ToSet(waiters[f]) \subseteq Tasks
      /\ \A s \in Sets : t \notin ToSet(set_waiters[s]) /\ ToSet(set_waiters[s]) \subseteq Tasks
  BY ListedWait, Zenon DEF InList
<1>7. List(q, Tasks) /\ (q = waiters[e] \/ ToSet(q) = ToSet(waiters[e]) \cup {t})
  <2>1. q = Cons(t, waiters[e]) \/ q = waiters[e]
    BY Zenon DEF add_event_waiter
  <2>2. List(waiters[e], Tasks)
    BY Zenon DEF Match, Lists
  <2> QED  BY <1>6, <2>1, <2>2, ConsFacts, SMTT(30)
<1>8. waiters'[e] = q /\ \A f \in Events \ {e} : waiters'[f] = waiters[f]
  BY Zenon DEF Types
<1>9. waiters' \in [Events -> Seq(Tasks)]
  BY <1>7, Zenon DEF Types, List
<1>10. InWait'
  BY <1>3, <1>5, Zenon DEF InWait
<1>11. Lists(waiters', live', "event", Events, pc', on')
  <2> SUFFICES ASSUME NEW f \in Events
               PROVE  /\ List(waiters'[f], Tasks)
                      /\ \A u \in ToSet(waiters'[f]) :
                           live'[f] /\ on'[u] = [kind |-> "event", slot |-> f] /\ pc'[u] \in InList
    BY Zenon DEF Lists
  <2>1. /\ List(waiters[f], Tasks)
        /\ \A u \in ToSet(waiters[f]) :
             live'[f] /\ on'[u] = [kind |-> "event", slot |-> f] /\ pc'[u] \in InList
    BY <1>5, <1>6, SMTT(30) DEF Match, Lists
  <2>2. CASE f # e
    BY <1>8, <2>1, <2>2, Zenon
  <2>3. CASE f = e
    <3>1. live'[e] /\ on'[t] = [kind |-> "event", slot |-> e] /\ pc'[t] \in InList
      BY <1>5, Zenon DEF c, InList
    <3> QED  BY <1>7, <1>8, <2>1, <2>3, <3>1, SMTT(30)
  <2> QED  BY <2>2, <2>3, Zenon
<1>12. Lists(set_waiters', set_live', "set", Sets, pc', on')
  BY <1>5, <1>6, SMTT(30) DEF Match, Lists
<1>13. Found(waiters', set_waiters', pc', on', unlisted')
  <2> SUFFICES ASSUME NEW u \in Tasks \ unlisted', pc'[u] \in {"enq", "blocked"}
               PROVE  IF on'[u].kind = "event" THEN u \in ToSet(waiters'[on'[u].slot])
                                               ELSE u \in ToSet(set_waiters'[on'[u].slot])
    BY Zenon DEF Found
  <2>1. CASE u = t
    BY <1>1, <1>3, <1>5, <1>7, <1>8, <2>1, SMTT(30)
  <2>2. CASE u # t
    <3>1. IF on[u].kind = "event" THEN u \in ToSet(waiters[on[u].slot])
                                  ELSE u \in ToSet(set_waiters[on[u].slot])
      BY <1>1, <1>5, <2>2, Zenon DEF Match, Found
    <3>2. \A f \in Events : ToSet(waiters[f]) \subseteq ToSet(waiters'[f])
      BY <1>7, <1>8, Zenon
    <3>3. on[u].kind = "event" => on[u].slot \in Events
      BY <1>5, <2>2, Zenon DEF InWait, InList
    <3> QED  BY <1>5, <2>2, <3>1, <3>2, <3>3, Zenon
  <2> QED  BY <2>1, <2>2, Zenon
<1> QED  BY <1>2, <1>4, <1>9, <1>10, <1>11, <1>12, <1>13, Zenon DEF Match

\* The same, for a set.
LEMMA JoinsSet ==
  ASSUME Types, InWait, Match, NEW t \in Tasks, pc[t] = "idle", NEW s \in Sets, set_live[s],
         NEW q \in add_event_waiter(set_waiters[s], t), set_waiters' = [set_waiters EXCEPT ![s] = q],
         StartWait(t, [kind |-> "set", slot |-> s], q # set_waiters[s]),
         UNCHANGED <<live, set_live, waiters>>
  PROVE  /\ InWait' /\ Match' /\ set_waiters' \in [Sets -> Seq(Tasks)]
         /\ pc' \in [Tasks -> Places] /\ on' \in [Tasks -> Objects]
         /\ timed' \in [Tasks -> BOOLEAN] /\ unlisted' \subseteq Tasks
<1> DEFINE c == [kind |-> "set", slot |-> s]
<1>1. /\ pc' = [pc EXCEPT ![t] = "enq"] /\ on' = [on EXCEPT ![t] = c]
      /\ unlisted' = IF q # set_waiters[s] THEN unlisted ELSE unlisted \cup {t}
  BY Zenon DEF StartWait
<1>2. timed' \in [Tasks -> BOOLEAN]
  BY Zenon DEF StartWait, Types
<1>3. c \in Objects /\ c.kind = "set" /\ c.slot = s
  BY EventAssumption, Zenon DEF Objects
<1> HIDE DEF c
<1>4. /\ pc' \in [Tasks -> Places] /\ on' \in [Tasks -> Objects] /\ unlisted' \subseteq Tasks
  BY <1>1, <1>3, Zenon DEF Types, Places, PCs
<1>5. /\ pc'[t] = "enq" /\ on'[t] = c
      /\ \A u \in Tasks \ {t} : pc'[u] = pc[u] /\ on'[u] = on[u]
  BY <1>1, Zenon DEF Types
<1>6. /\ \A f \in Events : t \notin ToSet(waiters[f]) /\ ToSet(waiters[f]) \subseteq Tasks
      /\ \A f \in Sets : t \notin ToSet(set_waiters[f]) /\ ToSet(set_waiters[f]) \subseteq Tasks
  BY ListedWait, Zenon DEF InList
<1>7. List(q, Tasks) /\ (q = set_waiters[s] \/ ToSet(q) = ToSet(set_waiters[s]) \cup {t})
  <2>1. q = Cons(t, set_waiters[s]) \/ q = set_waiters[s]
    BY Zenon DEF add_event_waiter
  <2>2. List(set_waiters[s], Tasks)
    BY Zenon DEF Match, Lists
  <2> QED  BY <1>6, <2>1, <2>2, ConsFacts, SMTT(30)
<1>8. set_waiters'[s] = q /\ \A f \in Sets \ {s} : set_waiters'[f] = set_waiters[f]
  BY Zenon DEF Types
<1>9. set_waiters' \in [Sets -> Seq(Tasks)]
  BY <1>7, Zenon DEF Types, List
<1>10. InWait'
  BY <1>3, <1>5, Zenon DEF InWait
<1>11. Lists(set_waiters', set_live', "set", Sets, pc', on')
  <2> SUFFICES ASSUME NEW f \in Sets
               PROVE  /\ List(set_waiters'[f], Tasks)
                      /\ \A u \in ToSet(set_waiters'[f]) :
                           set_live'[f] /\ on'[u] = [kind |-> "set", slot |-> f] /\ pc'[u] \in InList
    BY Zenon DEF Lists
  <2>1. /\ List(set_waiters[f], Tasks)
        /\ \A u \in ToSet(set_waiters[f]) :
             set_live'[f] /\ on'[u] = [kind |-> "set", slot |-> f] /\ pc'[u] \in InList
    BY <1>5, <1>6, SMTT(30) DEF Match, Lists
  <2>2. CASE f # s
    BY <1>8, <2>1, <2>2, Zenon
  <2>3. CASE f = s
    <3>1. set_live'[s] /\ on'[t] = [kind |-> "set", slot |-> s] /\ pc'[t] \in InList
      BY <1>5, Zenon DEF c, InList
    <3> QED  BY <1>7, <1>8, <2>1, <2>3, <3>1, SMTT(30)
  <2> QED  BY <2>2, <2>3, Zenon
<1>12. Lists(waiters', live', "event", Events, pc', on')
  BY <1>5, <1>6, SMTT(30) DEF Match, Lists
<1>13. Found(waiters', set_waiters', pc', on', unlisted')
  <2> SUFFICES ASSUME NEW u \in Tasks \ unlisted', pc'[u] \in {"enq", "blocked"}
               PROVE  IF on'[u].kind = "event" THEN u \in ToSet(waiters'[on'[u].slot])
                                               ELSE u \in ToSet(set_waiters'[on'[u].slot])
    BY Zenon DEF Found
  <2>1. CASE u = t
    BY <1>1, <1>3, <1>5, <1>7, <1>8, <2>1, SMTT(30)
  <2>2. CASE u # t
    <3>1. IF on[u].kind = "event" THEN u \in ToSet(waiters[on[u].slot])
                                  ELSE u \in ToSet(set_waiters[on[u].slot])
      BY <1>1, <1>5, <2>2, Zenon DEF Match, Found
    <3>2. \A f \in Sets : ToSet(set_waiters[f]) \subseteq ToSet(set_waiters'[f])
      BY <1>7, <1>8, Zenon
    <3>3. on[u].kind # "event" => on[u].slot \in Sets
      BY <1>5, <2>2, Zenon DEF InWait, InList
    <3> QED  BY <1>5, <2>2, <3>1, <3>2, <3>3, Zenon
  <2> QED  BY <2>1, <2>2, Zenon
<1> QED  BY <1>2, <1>4, <1>9, <1>10, <1>11, <1>12, <1>13, Zenon DEF Match

-----------------------------------------------------------------------------
(* The invariant is inductive. *)

\* find_free_event and find_free_event_set find a free slot when there is one.
LEMMA FindsFree ==
  /\ FreeEvents # {} => find_free_event \in Events /\ ~ live[find_free_event]
  /\ FreeSets # {} => find_free_event_set \in Sets /\ ~ set_live[find_free_event_set]
<1>1. ASSUME FreeEvents # {} PROVE find_free_event \in FreeEvents
  <2>1. FreeEvents \in SUBSET Nat
    BY EventAssumption, Zenon DEF FreeEvents
  <2>2. \E e \in FreeEvents : \A f \in FreeEvents : e <= f
    BY <1>1, <2>1, LeastExists
  <2> QED  BY <2>2 DEF find_free_event
<1>2. ASSUME FreeSets # {} PROVE find_free_event_set \in FreeSets
  <2>1. FreeSets \in SUBSET Nat
    BY EventAssumption, Zenon DEF FreeSets
  <2>2. \E s \in FreeSets : \A r \in FreeSets : s <= r
    BY <1>2, <2>1, LeastExists
  <2> QED  BY <2>2 DEF find_free_event_set
<1> QED  BY <1>1, <1>2 DEF FreeEvents, FreeSets

\* An event that is cleared is not signaled.
LEMMA ClearFacts ==
  ASSUME Types, AutoResetOnce, NobodyWaitsOnSignaled, NEW e \in Events, Clear(e)
  PROVE  /\ manual' \in [Events -> BOOLEAN] /\ signaled' \in [Events -> BOOLEAN]
         /\ fresh' \in [Events -> BOOLEAN]
         /\ AutoResetOnce' /\ NobodyWaitsOnSignaled'
<1>1. /\ manual' = [manual EXCEPT ![e] = FALSE] /\ signaled' = [signaled EXCEPT ![e] = FALSE]
      /\ waiters' = [waiters EXCEPT ![e] = <<>>] /\ fresh' = [fresh EXCEPT ![e] = FALSE]
      /\ manual \in [Events -> BOOLEAN] /\ signaled \in [Events -> BOOLEAN]
      /\ waiters \in [Events -> Seq(Tasks)] /\ fresh \in [Events -> BOOLEAN]
  BY Zenon DEF Clear, Types
<1>2. /\ ~ signaled'[e]
      /\ \A f \in Events \ {e} : /\ manual'[f] = manual[f] /\ signaled'[f] = signaled[f]
                                 /\ waiters'[f] = waiters[f] /\ fresh'[f] = fresh[f]
  BY <1>1, Zenon
<1>3. /\ manual' \in [Events -> BOOLEAN] /\ signaled' \in [Events -> BOOLEAN]
      /\ fresh' \in [Events -> BOOLEAN]
  BY <1>1, Zenon
<1>4. AutoResetOnce'
  BY <1>2, Zenon DEF AutoResetOnce
<1>5. NobodyWaitsOnSignaled'
  BY <1>2, Zenon DEF NobodyWaitsOnSignaled
<1> QED  BY <1>3, <1>4, <1>5

\* create_event keeps the invariant: the slot it takes has no waiters left.
LEMMA CreateEventInv ==
  ASSUME IInv, NEW t \in Tasks, create_event(t)
  PROVE  IInv'
<1>0. Types /\ SetsOK /\ InWait /\ Match /\ AutoResetOnce /\ NobodyWaitsOnSignaled
  BY DEF IInv
<1>1. PICK e \in Events : e = find_free_event /\ ~ live[e]
  BY FindsFree DEF create_event
<1>2. live' = [live EXCEPT ![e] = TRUE] /\ Clear(e) /\ UNCHANGED <<setVars, taskVars>>
  BY <1>1, Zenon DEF create_event
<1>3. waiters' = waiters
  <2>1. waiters[e] \in Seq(Tasks) /\ waiters \in [Events -> Seq(Tasks)]
    BY <1>0, Zenon DEF Types
  <2>2. waiters[e] = <<>>
    BY <1>0, <1>1, <2>1, ListedWait, Members, SMTT(30)
  <2> QED  BY <1>2, <2>1, <2>2 DEF Clear
<1>4. live' \in [Events -> BOOLEAN] /\ \A f \in Events : live[f] => live'[f]
  BY <1>0, <1>2, Zenon DEF Types
<1>5. /\ manual' \in [Events -> BOOLEAN] /\ signaled' \in [Events -> BOOLEAN]
      /\ fresh' \in [Events -> BOOLEAN] /\ AutoResetOnce' /\ NobodyWaitsOnSignaled'
  BY <1>0, <1>2, ClearFacts, Zenon
<1>6. /\ set_live' = set_live /\ events' = events /\ set_waiters' = set_waiters
      /\ pc' = pc /\ on' = on /\ timed' = timed /\ told' = told /\ unlisted' = unlisted
  BY <1>2 DEF setVars, taskVars
<1>7. Leaves({})
  BY <1>0, <1>3, <1>4, <1>6, NobodyLeaves, Zenon
<1>8. InWait' /\ Match'
  BY <1>0, <1>7, LeavesMatch, Zenon
<1>9. Types' /\ SetsOK'
  BY <1>0, <1>3, <1>4, <1>5, <1>6, Zenon DEF Types, SetsOK
<1> QED  BY <1>5, <1>8, <1>9, Zenon DEF IInv

\* destroy_event keeps the invariant: every waiter it had is woken.
LEMMA DestroyEventInv ==
  ASSUME IInv, NEW t \in Tasks, NEW e \in Events, destroy_event(t, e)
  PROVE  IInv'
<1>0. Types /\ SetsOK /\ InWait /\ Match /\ AutoResetOnce /\ NobodyWaitsOnSignaled
  BY DEF IInv
<1>1. /\ Calls(t) /\ live' = [live EXCEPT ![e] = FALSE] /\ Clear(e)
      /\ pc' = Unblock(pc, WokenAll(waiters[e]))
      /\ set_live' = set_live /\ events' = events /\ set_waiters' = set_waiters
      /\ on' = on /\ timed' = timed /\ told' = told /\ unlisted' = unlisted
  BY Zenon DEF destroy_event, setVars
<1>2. live' \in [Events -> BOOLEAN] /\ \A f \in Events : live[f] => live'[f] \/ f = e
  BY <1>0, <1>1, Zenon DEF Types
<1>3. /\ manual' \in [Events -> BOOLEAN] /\ signaled' \in [Events -> BOOLEAN]
      /\ fresh' \in [Events -> BOOLEAN] /\ AutoResetOnce' /\ NobodyWaitsOnSignaled'
  BY <1>0, <1>1, ClearFacts, Zenon
<1>4. PICK W : W = ToSet(waiters[e])
  OBVIOUS
<1>5. W = WokenAll(waiters[e])
  BY <1>0, <1>4, Members, SMTT(30) DEF Types
<1>6. PICK q : q = <<>> /\ List(q, Tasks) /\ ToSet(q) = {}
  BY EmptyList
<1>7. waiters' = [waiters EXCEPT ![e] = q] /\ pc' = Unblock(pc, W)
  BY <1>1, <1>5, <1>6, Zenon DEF Clear
<1>8. Leaves(W) /\ waiters' \in [Events -> Seq(Tasks)] /\ pc' \in [Tasks -> Places]
  BY <1>0, <1>1, <1>2, <1>4, <1>6, <1>7, EventLeaves, Zenon
<1>9. InWait' /\ Match'
  BY <1>0, <1>8, LeavesMatch
<1>10. Types' /\ SetsOK'
  BY <1>0, <1>1, <1>2, <1>3, <1>8, Zenon DEF Types, SetsOK
<1> QED  BY <1>3, <1>9, <1>10, Zenon DEF IInv

\* A step that wakes the waiters W of an event and makes it signaled or not: it must not
\* leave it signaled with waiters.
LEMMA SignalInv ==
  ASSUME IInv, NEW t \in Tasks, Calls(t), NEW e \in Events, NEW q, List(q, Tasks), NEW W,
         W \subseteq ToSet(waiters[e]), ToSet(q) = ToSet(waiters[e]) \ W,
         waiters' = [waiters EXCEPT ![e] = q], Tell(W),
         NEW b \in BOOLEAN, signaled' = [signaled EXCEPT ![e] = b], b => q = <<>>,
         fresh' = [fresh EXCEPT ![e] = TRUE],
         UNCHANGED <<live, manual, setVars, on, timed, unlisted>>
  PROVE  IInv'
<1>0. Types /\ SetsOK /\ InWait /\ Match /\ AutoResetOnce /\ NobodyWaitsOnSignaled
  BY Zenon DEF IInv
<1>1. /\ live' = live /\ manual' = manual /\ set_live' = set_live /\ events' = events
      /\ set_waiters' = set_waiters /\ on' = on /\ timed' = timed /\ unlisted' = unlisted
      /\ pc' = Unblock(pc, W)
  BY Zenon DEF setVars, Tell
<1>2. told' \in [Tasks -> BOOLEAN]
  BY Zenon DEF Tell
<1>3. Leaves(W) /\ waiters' \in [Events -> Seq(Tasks)] /\ pc' \in [Tasks -> Places]
  BY <1>0, <1>1, EventLeaves, Zenon
<1>4. InWait' /\ Match'
  BY <1>0, <1>3, LeavesMatch, Zenon
<1>5. signaled' \in [Events -> BOOLEAN] /\ fresh' \in [Events -> BOOLEAN]
  BY <1>0, Zenon DEF Types
<1>6. /\ signaled'[e] = b /\ fresh'[e] /\ waiters'[e] = q
      /\ \A f \in Events \ {e} : /\ signaled'[f] = signaled[f] /\ fresh'[f] = fresh[f]
                                 /\ waiters'[f] = waiters[f]
  BY <1>0, Zenon DEF Types
<1>7. AutoResetOnce'
  BY <1>0, <1>1, <1>6, Zenon DEF AutoResetOnce
<1>8. NobodyWaitsOnSignaled'
  BY <1>0, <1>6, Zenon DEF NobodyWaitsOnSignaled
<1>9. Types' /\ SetsOK'
  BY <1>0, <1>1, <1>2, <1>3, <1>5, Zenon DEF Types, SetsOK
<1> QED  BY <1>4, <1>7, <1>8, <1>9, Zenon DEF IInv

\* event_signal and event_broadcast keep the invariant.
LEMMA EventSignalInv ==
  ASSUME IInv, NEW t \in Tasks, NEW e \in Events, event_signal(t, e) \/ event_broadcast(t, e)
  PROVE  IInv'
<1>0. waiters[e] \in Seq(Tasks) /\ List(waiters[e], Tasks) /\ manual[e] \in BOOLEAN
  BY Zenon DEF IInv, Types, Match, Lists
<1>1. WokenAll(waiters[e]) = ToSet(waiters[e])
  BY <1>0, Members, Zenon
<1>2. CASE event_broadcast(t, e) \/ (event_signal(t, e) /\ manual[e])
  <2>1. PICK q : q = <<>> /\ List(q, Tasks) /\ ToSet(q) = {}
    BY EmptyList
  <2>2. PICK W : W = ToSet(waiters[e])
    OBVIOUS
  <2>3. /\ Calls(t) /\ waiters' = [waiters EXCEPT ![e] = q]
        /\ signaled' = [signaled EXCEPT ![e] = TRUE] /\ fresh' = [fresh EXCEPT ![e] = TRUE]
        /\ UNCHANGED <<live, manual, setVars, on, timed, unlisted>>
    BY <1>2, <2>1, Zenon DEF event_signal, event_broadcast
  <2>4. Tell(W)
    BY <1>1, <1>2, <2>2, Zenon DEF event_signal, event_broadcast
  <2> QED  BY <2>1, <2>2, <2>3, <2>4, SignalInv, Zenon
<1>3. CASE event_signal(t, e) /\ ~ manual[e]
  <2>1. PICK q : q = AfterWakeFirst(waiters[e])
    OBVIOUS
  <2>2. PICK W : W = WokenFirst(waiters[e])
    OBVIOUS
  <2>3. List(q, Tasks) /\ ToSet(q) = ToSet(waiters[e]) \ W /\ W \subseteq ToSet(waiters[e])
    BY <1>0, <2>1, <2>2, WakeFirstFacts, Zenon
  <2>4. PICK b \in BOOLEAN : b <=> waiters[e] = <<>>
    BY Zenon
  <2>5. signaled' = [signaled EXCEPT ![e] = b]
    <3>1. (manual[e] \/ waiters[e] = <<>>) = b
      BY <1>0, <1>3, <2>4, Zenon
    <3> QED  BY <1>3, <3>1, Zenon DEF event_signal
  <2>6. b => q = <<>>
    BY <2>1, <2>4, Zenon DEF AfterWakeFirst
  <2>7. /\ Calls(t) /\ waiters' = [waiters EXCEPT ![e] = q] /\ Tell(W)
        /\ fresh' = [fresh EXCEPT ![e] = TRUE]
        /\ UNCHANGED <<live, manual, setVars, on, timed, unlisted>>
    BY <1>3, <2>1, <2>2, Zenon DEF event_signal
  <2> QED  BY <2>3, <2>4, <2>5, <2>6, <2>7, SignalInv, Zenon
<1> QED  BY <1>0, <1>2, <1>3, Zenon

\* event_reset keeps the invariant.
LEMMA EventResetInv ==
  ASSUME IInv, NEW t \in Tasks, NEW e \in Events, event_reset(t, e)
  PROVE  IInv'
<1>0. Types /\ SetsOK /\ InWait /\ Match /\ AutoResetOnce /\ NobodyWaitsOnSignaled
  BY DEF IInv
<1>1. /\ signaled' = [signaled EXCEPT ![e] = FALSE]
      /\ live' = live /\ manual' = manual /\ waiters' = waiters /\ fresh' = fresh
      /\ set_live' = set_live /\ events' = events /\ set_waiters' = set_waiters
      /\ pc' = pc /\ on' = on /\ timed' = timed /\ told' = told /\ unlisted' = unlisted
  BY DEF event_reset, setVars, taskVars
<1>2. signaled' \in [Events -> BOOLEAN] /\ \A f \in Events : signaled'[f] => signaled[f]
  BY <1>0, <1>1, Zenon DEF Types
<1>3. Leaves({})
  BY <1>0, <1>1, NobodyLeaves, Zenon
<1>4. InWait' /\ Match'
  BY <1>0, <1>3, LeavesMatch
<1>5. AutoResetOnce' /\ NobodyWaitsOnSignaled'
  BY <1>0, <1>1, <1>2, Zenon DEF AutoResetOnce, NobodyWaitsOnSignaled
<1>6. Types' /\ SetsOK'
  BY <1>0, <1>1, <1>2, Zenon DEF Types, SetsOK
<1> QED  BY <1>4, <1>5, <1>6 DEF IInv

\* event_timedwait keeps the invariant, whether it passes or queues.
LEMMA EventWaitInv ==
  ASSUME IInv, NEW t \in Tasks, NEW e \in Events, event_timedwait(t, e)
  PROVE  IInv'
<1>0. Types /\ SetsOK /\ InWait /\ Match /\ AutoResetOnce /\ NobodyWaitsOnSignaled
  BY DEF IInv
<1>1. /\ pc[t] = "idle" /\ live[e] /\ live' = live /\ manual' = manual /\ set_live' = set_live
      /\ events' = events /\ set_waiters' = set_waiters
  BY Zenon DEF event_timedwait, Calls, setVars
<1>2. CASE signaled[e]
  <2>1. /\ LetThrough(e) /\ waiters' = waiters /\ pc' = pc /\ on' = on /\ timed' = timed
        /\ told' = told /\ unlisted' = unlisted
    BY <1>2, Zenon DEF event_timedwait, taskVars
  <2>2. /\ signaled' \in [Events -> BOOLEAN] /\ fresh' \in [Events -> BOOLEAN]
        /\ AutoResetOnce' /\ NobodyWaitsOnSignaled'
    BY <1>0, <1>1, <1>2, <2>1, LetThroughFacts, Zenon
  <2>3. Leaves({})
    BY <1>0, <1>1, <2>1, NobodyLeaves, Zenon
  <2>4. InWait' /\ Match'
    BY <1>0, <2>3, LeavesMatch
  <2>5. Types' /\ SetsOK'
    BY <1>0, <1>1, <2>1, <2>2, Zenon DEF Types, SetsOK
  <2> QED  BY <2>2, <2>4, <2>5, Zenon DEF IInv
<1>3. CASE ~ signaled[e]
  <2>1. PICK q \in add_event_waiter(waiters[e], t) :
          /\ waiters' = [waiters EXCEPT ![e] = q]
          /\ StartWait(t, [kind |-> "event", slot |-> e], q # waiters[e])
    BY <1>3, Zenon DEF event_timedwait
  <2>2. signaled' = signaled /\ fresh' = fresh /\ told' = told
    BY <1>3, Zenon DEF event_timedwait
  <2>3. /\ InWait' /\ Match' /\ waiters' \in [Events -> Seq(Tasks)]
        /\ pc' \in [Tasks -> Places] /\ on' \in [Tasks -> Objects]
        /\ timed' \in [Tasks -> BOOLEAN] /\ unlisted' \subseteq Tasks
    BY <1>0, <1>1, <2>1, JoinsEvent, Zenon
  <2>4. Types' /\ SetsOK'
    BY <1>0, <1>1, <2>2, <2>3, Zenon DEF Types, SetsOK
  <2>5. AutoResetOnce'
    BY <1>0, <1>1, <2>2, Zenon DEF AutoResetOnce
  <2>6. NobodyWaitsOnSignaled'
    <3>1. \A f \in Events \ {e} : waiters'[f] = waiters[f]
      BY <1>0, <2>1, Zenon DEF Types
    <3> QED  BY <1>0, <1>3, <2>2, <3>1, Zenon DEF NobodyWaitsOnSignaled
  <2> QED  BY <2>3, <2>4, <2>5, <2>6, Zenon DEF IInv
<1> QED  BY <1>2, <1>3

\* block_task keeps the invariant: the task stays in its list.
LEMMA BlockTaskInv ==
  ASSUME IInv, NEW t \in Tasks, block_task(t)
  PROVE  IInv'
<1>0. Types /\ SetsOK /\ InWait /\ Match /\ AutoResetOnce /\ NobodyWaitsOnSignaled
  BY DEF IInv
<1>1. /\ pc[t] = "enq" /\ pc' = [pc EXCEPT ![t] = "blocked"]
      /\ live' = live /\ manual' = manual /\ signaled' = signaled /\ waiters' = waiters
      /\ fresh' = fresh /\ set_live' = set_live /\ events' = events
      /\ set_waiters' = set_waiters /\ on' = on /\ timed' = timed /\ told' = told
      /\ unlisted' = unlisted
  BY Zenon DEF block_task, eventVars, setVars
<1>2. /\ pc' \in [Tasks -> Places] /\ pc'[t] = "blocked"
      /\ \A u \in Tasks \ {t} : pc'[u] = pc[u]
  BY <1>0, <1>1, Zenon DEF Types, Places, PCs
<1>3. Leaves({})
  BY <1>0, <1>1, <1>2, NobodyLeaves, Zenon DEF InList
<1>4. InWait' /\ Match'
  BY <1>0, <1>3, LeavesMatch
<1>5. AutoResetOnce' /\ NobodyWaitsOnSignaled'
  BY <1>0, <1>1, <1>3, SameSignals, Zenon
<1>6. Types' /\ SetsOK'
  BY <1>0, <1>1, <1>2, Zenon DEF Types, SetsOK
<1> QED  BY <1>4, <1>5, <1>6 DEF IInv

\* terminate_task keeps the invariant: the dead task stays listed.
LEMMA TerminateInv ==
  ASSUME IInv, NEW t \in Tasks, NEW u \in Tasks, terminate_task(t, u)
  PROVE  IInv'
<1>0. Types /\ SetsOK /\ InWait /\ Match /\ AutoResetOnce /\ NobodyWaitsOnSignaled
  BY DEF IInv
<1>1. /\ pc[u] \in {"blocked", "woken"} /\ pc' = [pc EXCEPT ![u] = "dead"]
      /\ live' = live /\ manual' = manual /\ signaled' = signaled /\ waiters' = waiters
      /\ fresh' = fresh /\ set_live' = set_live /\ events' = events
      /\ set_waiters' = set_waiters /\ on' = on /\ timed' = timed /\ told' = told
      /\ unlisted' = unlisted
  BY Zenon DEF terminate_task, eventVars, setVars
<1>2. /\ pc' \in [Tasks -> Places] /\ pc'[u] = "dead"
      /\ \A v \in Tasks \ {u} : pc'[v] = pc[v]
  BY <1>0, <1>1, Zenon DEF Types, Places, PCs
<1>3. Leaves({})
  BY <1>0, <1>1, <1>2, NobodyLeaves, Zenon DEF InList
<1>4. InWait' /\ Match'
  BY <1>0, <1>3, LeavesMatch
<1>5. AutoResetOnce' /\ NobodyWaitsOnSignaled'
  BY <1>0, <1>1, <1>3, SameSignals, Zenon
<1>6. Types' /\ SetsOK'
  BY <1>0, <1>1, <1>2, Zenon DEF Types, SetsOK
<1> QED  BY <1>4, <1>5, <1>6 DEF IInv

\* What the end of a wait does to the tasks.
LEMMA EndWaitFacts ==
  ASSUME Types, NEW t \in Tasks, NEW after \in {"idle", "gone"}, EndWait(t, after)
  PROVE  /\ pc' \in [Tasks -> Places] /\ on' \in [Tasks -> Objects]
         /\ timed' \in [Tasks -> BOOLEAN] /\ told' \in [Tasks -> BOOLEAN]
         /\ unlisted' \subseteq Tasks /\ unlisted' = unlisted \ {t}
         /\ pc'[t] = after /\ \A u \in Tasks \ {t} : pc'[u] = pc[u] /\ on'[u] = on[u]
<1>1. NoObject \in Objects
  BY DEF NoObject, Objects
<1> QED  BY <1>1, Zenon DEF Types, EndWait, Places, PCs

\* A wait that returns: its task was in no list any more.
LEMMA ReturnLeaves ==
  ASSUME Types, Match, NEW t \in Tasks, pc[t] = "woken", EndWait(t, "idle"),
         UNCHANGED <<live, set_live, waiters, set_waiters>>
  PROVE  Leaves({})
BY EndWaitFacts, NobodyLeaves, Zenon DEF InList

\* The return of event_timedwait keeps the invariant.
LEMMA EventWaitReturnsInv ==
  ASSUME IInv, NEW t \in Tasks, EventWaitReturns(t)
  PROVE  IInv'
<1>0. Types /\ SetsOK /\ InWait /\ Match /\ AutoResetOnce /\ NobodyWaitsOnSignaled
  BY DEF IInv
<1>1. /\ pc[t] = "woken" /\ on[t].kind = "event" /\ EndWait(t, "idle")
      /\ live' = live /\ manual' = manual /\ set_live' = set_live
      /\ events' = events /\ set_waiters' = set_waiters
  BY Zenon DEF EventWaitReturns, setVars
<1>2. PICK e \in Events : e = on[t].slot
  BY <1>0, <1>1, Zenon DEF InWait
<1>3. \/ signaled[e] /\ LetThrough(e) /\ waiters' = waiters
      \/ /\ waiters' = [waiters EXCEPT ![e] = RemoveFirst(@, t)]
         /\ signaled' = signaled /\ fresh' = fresh
  BY <1>2, Zenon DEF EventWaitReturns
<1>4. waiters' = waiters
  <2>1. List(waiters[e], Tasks) /\ t \notin ToSet(waiters[e])
    BY <1>0, <1>1, ListedWait, Zenon DEF Match, Lists, InList
  <2>2. RemoveFirst(waiters[e], t) = waiters[e]
    BY <2>1, RemoveFirstFacts
  <2>3. waiters \in [Events -> Seq(Tasks)]
    BY <1>0 DEF Types
  <2> QED  BY <1>3, <2>2, <2>3
<1>5. Leaves({})
  BY <1>0, <1>1, <1>4, ReturnLeaves, Zenon
<1>6. InWait' /\ Match'
  BY <1>0, <1>5, LeavesMatch
<1>7. /\ signaled' \in [Events -> BOOLEAN] /\ fresh' \in [Events -> BOOLEAN]
      /\ AutoResetOnce' /\ NobodyWaitsOnSignaled'
  <2>1. CASE signaled[e] /\ LetThrough(e)
    BY <1>0, <1>1, <1>4, <2>1, LetThroughFacts, Zenon
  <2>2. CASE signaled' = signaled /\ fresh' = fresh
    BY <1>0, <1>1, <1>5, <2>2, SameSignals, Zenon DEF Types
  <2> QED  BY <1>3, <2>1, <2>2
<1>8. Types' /\ SetsOK'
  <2>1. /\ pc' \in [Tasks -> Places] /\ on' \in [Tasks -> Objects]
        /\ timed' \in [Tasks -> BOOLEAN] /\ told' \in [Tasks -> BOOLEAN]
        /\ unlisted' \subseteq Tasks
    BY <1>0, <1>1, EndWaitFacts, Zenon
  <2> QED  BY <1>0, <1>1, <1>4, <1>7, <2>1, Zenon DEF Types, SetsOK
<1> QED  BY <1>6, <1>7, <1>8 DEF IInv

\* The event that the scan of a set stops at is signaled.
LEMMA TakeFirstFacts ==
  ASSUME SetsOK, NEW s \in Sets, Ready(s) # {}, TakeFirst(s)
  PROVE  \E e \in Events : signaled[e] /\ LetThrough(e)
<1>1. events[s] \in Seq(Events)
  BY Zenon DEF SetsOK
<1>2. Ready(s) \in SUBSET Nat
  BY DEF Ready
<1>3. \E i \in Ready(s) : \A j \in Ready(s) : i <= j
  BY <1>2, LeastExists
<1>4. PICK i \in Ready(s) : i = CHOOSE k \in Ready(s) : \A j \in Ready(s) : k <= j
  BY <1>3
<1>5. LetThrough(events[s][i])
  BY <1>4 DEF TakeFirst
<1>6. PICK e \in Events : e = events[s][i] /\ signaled[e]
  BY <1>1, SMTT(30) DEF Ready
<1>7. LetThrough(e)
  BY <1>5, <1>6, Zenon
<1> QED  BY <1>6, <1>7, Zenon

\* The return of event_set_timedwait keeps the invariant.
LEMMA SetWaitReturnsInv ==
  ASSUME IInv, NEW t \in Tasks, SetWaitReturns(t)
  PROVE  IInv'
<1>0. Types /\ SetsOK /\ InWait /\ Match /\ AutoResetOnce /\ NobodyWaitsOnSignaled
  BY DEF IInv
<1>1. /\ pc[t] = "woken" /\ on[t].kind = "set" /\ EndWait(t, "idle")
      /\ live' = live /\ manual' = manual /\ waiters' = waiters /\ set_live' = set_live
      /\ events' = events
  BY Zenon DEF SetWaitReturns
<1>2. PICK s \in Sets : s = on[t].slot
  BY <1>0, <1>1, Zenon DEF InWait
<1>3. /\ (Ready(s) # {} /\ TakeFirst(s)) \/ (signaled' = signaled /\ fresh' = fresh)
      /\ set_waiters' = [set_waiters EXCEPT ![s] = RemoveFirst(@, t)]
  BY <1>2, Zenon DEF SetWaitReturns
<1>4. set_waiters' = set_waiters
  <2>1. List(set_waiters[s], Tasks) /\ t \notin ToSet(set_waiters[s])
    BY <1>0, <1>1, ListedWait, Zenon DEF Match, Lists, InList
  <2>2. RemoveFirst(set_waiters[s], t) = set_waiters[s]
    BY <2>1, RemoveFirstFacts
  <2>3. set_waiters \in [Sets -> Seq(Tasks)]
    BY <1>0, Zenon DEF Types
  <2> QED  BY <1>3, <2>2, <2>3, Zenon
<1>5. Leaves({})
  BY <1>0, <1>1, <1>4, ReturnLeaves, Zenon
<1>6. InWait' /\ Match'
  BY <1>0, <1>5, LeavesMatch
<1>7. /\ signaled' \in [Events -> BOOLEAN] /\ fresh' \in [Events -> BOOLEAN]
      /\ AutoResetOnce' /\ NobodyWaitsOnSignaled'
  <2>1. CASE Ready(s) # {} /\ TakeFirst(s)
    <3>1. PICK e \in Events : signaled[e] /\ LetThrough(e)
      BY <1>0, <2>1, TakeFirstFacts, Zenon
    <3> QED  BY <1>0, <1>1, <3>1, LetThroughFacts, Zenon
  <2>2. CASE signaled' = signaled /\ fresh' = fresh
    BY <1>0, <1>1, <1>5, <2>2, SameSignals, Zenon DEF Types
  <2> QED  BY <1>3, <2>1, <2>2, Zenon
<1>8. Types' /\ SetsOK'
  <2>1. /\ pc' \in [Tasks -> Places] /\ on' \in [Tasks -> Objects]
        /\ timed' \in [Tasks -> BOOLEAN] /\ told' \in [Tasks -> BOOLEAN]
        /\ unlisted' \subseteq Tasks
    BY <1>0, <1>1, EndWaitFacts, Zenon
  <2> QED  BY <1>0, <1>1, <1>4, <1>7, <2>1, Zenon DEF Types, SetsOK
<1> QED  BY <1>6, <1>7, <1>8, Zenon DEF IInv

\* event_set_timedwait keeps the invariant, whether it passes or queues.
LEMMA SetWaitInv ==
  ASSUME IInv, NEW t \in Tasks, NEW s \in Sets, event_set_timedwait(t, s)
  PROVE  IInv'
<1>0. Types /\ SetsOK /\ InWait /\ Match /\ AutoResetOnce /\ NobodyWaitsOnSignaled
  BY DEF IInv
<1>1. /\ pc[t] = "idle" /\ set_live[s] /\ live' = live /\ manual' = manual
      /\ waiters' = waiters /\ set_live' = set_live /\ events' = events
  BY Zenon DEF event_set_timedwait, Calls
<1>2. CASE Ready(s) # {}
  <2>1. /\ TakeFirst(s) /\ set_waiters' = set_waiters /\ pc' = pc /\ on' = on
        /\ timed' = timed /\ told' = told /\ unlisted' = unlisted
    BY <1>2, Zenon DEF event_set_timedwait, taskVars
  <2>2. PICK e \in Events : signaled[e] /\ LetThrough(e)
    BY <1>0, <1>2, <2>1, TakeFirstFacts
  <2>3. /\ signaled' \in [Events -> BOOLEAN] /\ fresh' \in [Events -> BOOLEAN]
        /\ AutoResetOnce' /\ NobodyWaitsOnSignaled'
    BY <1>0, <1>1, <2>2, LetThroughFacts, Zenon
  <2>4. Leaves({})
    BY <1>0, <1>1, <2>1, NobodyLeaves, Zenon
  <2>5. InWait' /\ Match'
    BY <1>0, <2>4, LeavesMatch
  <2>6. Types' /\ SetsOK'
    BY <1>0, <1>1, <2>1, <2>3, Zenon DEF Types, SetsOK
  <2> QED  BY <2>3, <2>5, <2>6, Zenon DEF IInv
<1>3. CASE Ready(s) = {}
  <2>1. PICK q \in add_event_waiter(set_waiters[s], t) :
          /\ set_waiters' = [set_waiters EXCEPT ![s] = q]
          /\ StartWait(t, [kind |-> "set", slot |-> s], q # set_waiters[s])
    BY <1>3, Zenon DEF event_set_timedwait
  <2>2. signaled' = signaled /\ fresh' = fresh /\ told' = told
    BY <1>3, Zenon DEF event_set_timedwait
  <2>3. /\ InWait' /\ Match' /\ set_waiters' \in [Sets -> Seq(Tasks)]
        /\ pc' \in [Tasks -> Places] /\ on' \in [Tasks -> Objects]
        /\ timed' \in [Tasks -> BOOLEAN] /\ unlisted' \subseteq Tasks
    BY <1>0, <1>1, <2>1, JoinsSet, Zenon
  <2>4. Types' /\ SetsOK'
    BY <1>0, <1>1, <2>2, <2>3, Zenon DEF Types, SetsOK
  <2>5. AutoResetOnce' /\ NobodyWaitsOnSignaled'
    BY <1>0, <1>1, <2>2, Zenon DEF AutoResetOnce, NobodyWaitsOnSignaled
  <2> QED  BY <2>3, <2>4, <2>5 DEF IInv
<1> QED  BY <1>2, <1>3, Zenon

\* create_event_set keeps the invariant.
LEMMA CreateSetInv ==
  ASSUME IInv, NEW t \in Tasks, create_event_set(t)
  PROVE  IInv'
<1>0. Types /\ SetsOK /\ InWait /\ Match /\ AutoResetOnce /\ NobodyWaitsOnSignaled
  BY DEF IInv
<1>1. PICK s \in Sets : s = find_free_event_set /\ ~ set_live[s]
  BY FindsFree DEF create_event_set
<1>2. /\ set_live' = [set_live EXCEPT ![s] = TRUE] /\ events' = [events EXCEPT ![s] = <<>>]
      /\ set_waiters' = [set_waiters EXCEPT ![s] = <<>>]
      /\ live' = live /\ manual' = manual /\ signaled' = signaled /\ waiters' = waiters
      /\ fresh' = fresh /\ pc' = pc /\ on' = on /\ timed' = timed /\ told' = told
      /\ unlisted' = unlisted
  BY <1>1, Zenon DEF create_event_set, eventVars, taskVars
<1>3. set_waiters' = set_waiters
  <2>1. set_waiters[s] \in Seq(Tasks) /\ set_waiters \in [Sets -> Seq(Tasks)]
    BY <1>0, Zenon DEF Types
  <2>2. set_waiters[s] = <<>>
    BY <1>0, <1>1, <2>1, ListedWait, Members, SMTT(30)
  <2> QED  BY <1>2, <2>1, <2>2, Zenon
<1>4. set_live' \in [Sets -> BOOLEAN] /\ \A f \in Sets : set_live[f] => set_live'[f]
  BY <1>0, <1>2, Zenon DEF Types
<1>5. Leaves({})
  BY <1>0, <1>2, <1>3, <1>4, NobodyLeaves, Zenon
<1>6. InWait' /\ Match'
  BY <1>0, <1>5, LeavesMatch
<1>7. AutoResetOnce' /\ NobodyWaitsOnSignaled'
  BY <1>0, <1>2, <1>5, SameSignals, Zenon
<1>8. SetsOK'
  <2>1. /\ events \in [Sets -> Seq(Events)] /\ Len(<<>>) <= SetSize
        /\ List(<<>>, Events) /\ <<>> \in Seq(Events)
    BY <1>0, EmptyList, EventAssumption, SMTT(30) DEF SetsOK
  <2>2. events' \in [Sets -> Seq(Events)]
    BY <1>2, <2>1, Zenon
  <2>3. events'[s] = <<>> /\ \A r \in Sets \ {s} : events'[r] = events[r]
    BY <1>2, <2>1, Zenon
  <2> QED  BY <1>0, <2>1, <2>2, <2>3, Zenon DEF SetsOK
<1>9. Types'
  BY <1>0, <1>2, <1>3, <1>4, Zenon DEF Types
<1> QED  BY <1>6, <1>7, <1>8, <1>9 DEF IInv

\* destroy_event_set keeps the invariant: every waiter it had is woken.
LEMMA DestroySetInv ==
  ASSUME IInv, NEW t \in Tasks, NEW s \in Sets, destroy_event_set(t, s)
  PROVE  IInv'
<1>0. Types /\ SetsOK /\ InWait /\ Match /\ AutoResetOnce /\ NobodyWaitsOnSignaled
  BY DEF IInv
<1>1. /\ Calls(t) /\ set_live' = [set_live EXCEPT ![s] = FALSE]
      /\ events' = [events EXCEPT ![s] = <<>>]
      /\ set_waiters' = [set_waiters EXCEPT ![s] = <<>>]
      /\ pc' = Unblock(pc, WokenAll(set_waiters[s]))
      /\ live' = live /\ manual' = manual /\ signaled' = signaled /\ waiters' = waiters
      /\ fresh' = fresh /\ on' = on /\ timed' = timed /\ told' = told /\ unlisted' = unlisted
  BY Zenon DEF destroy_event_set, eventVars
<1>2. set_live' \in [Sets -> BOOLEAN] /\ \A f \in Sets : set_live[f] => set_live'[f] \/ f = s
  BY <1>0, <1>1, Zenon DEF Types
<1>3. PICK W : W = ToSet(set_waiters[s])
  OBVIOUS
<1>4. W = WokenAll(set_waiters[s])
  BY <1>0, <1>3, Members, SMTT(30) DEF Types
<1>5. PICK q : q = <<>> /\ List(q, Tasks) /\ ToSet(q) = {}
  BY EmptyList
<1>6. set_waiters' = [set_waiters EXCEPT ![s] = q] /\ pc' = Unblock(pc, W)
  BY <1>1, <1>4, <1>5, Zenon
<1>7. Leaves(W) /\ set_waiters' \in [Sets -> Seq(Tasks)] /\ pc' \in [Tasks -> Places]
  BY <1>0, <1>1, <1>2, <1>3, <1>5, <1>6, SetLeaves, Zenon
<1>8. InWait' /\ Match'
  BY <1>0, <1>7, LeavesMatch
<1>9. AutoResetOnce' /\ NobodyWaitsOnSignaled'
  BY <1>0, <1>1, <1>7, SameSignals, Zenon
<1>10. SetsOK'
  <2>1. /\ events \in [Sets -> Seq(Events)] /\ Len(<<>>) <= SetSize
        /\ List(<<>>, Events) /\ <<>> \in Seq(Events)
    BY <1>0, EmptyList, EventAssumption, SMTT(30) DEF SetsOK
  <2>2. events' \in [Sets -> Seq(Events)]
    BY <1>1, <2>1, Zenon
  <2>3. events'[s] = <<>> /\ \A r \in Sets \ {s} : events'[r] = events[r]
    BY <1>1, <2>1, Zenon
  <2> QED  BY <1>0, <2>1, <2>2, <2>3, Zenon DEF SetsOK
<1>11. Types'
  BY <1>0, <1>1, <1>2, <1>7, Zenon DEF Types
<1> QED  BY <1>8, <1>9, <1>10, <1>11, Zenon DEF IInv

\* event_set_add and event_set_remove keep the invariant.
LEMMA SetMemberInv ==
  ASSUME IInv, NEW t \in Tasks, NEW s \in Sets, NEW e \in Events,
         event_set_add(t, s, e) \/ event_set_remove(t, s, e)
  PROVE  IInv'
<1>0. Types /\ SetsOK /\ InWait /\ Match /\ AutoResetOnce /\ NobodyWaitsOnSignaled
  BY DEF IInv
<1>1. /\ live' = live /\ manual' = manual /\ signaled' = signaled /\ waiters' = waiters
      /\ fresh' = fresh /\ set_live' = set_live /\ set_waiters' = set_waiters
      /\ pc' = pc /\ on' = on /\ timed' = timed /\ told' = told /\ unlisted' = unlisted
  BY Zenon DEF event_set_add, event_set_remove, eventVars, taskVars
<1>2. events \in [Sets -> Seq(Events)] /\ List(events[s], Events) /\ Len(events[s]) <= SetSize
  BY <1>0, Zenon DEF SetsOK
<1>3. \E q : /\ events' = [events EXCEPT ![s] = q]
             /\ List(q, Events) /\ Len(q) <= SetSize
  <2>0. Len(events[s]) \in Nat /\ SetSize \in Nat
    BY <1>2, EventAssumption
  <2>1. CASE event_set_add(t, s, e)
    <3> DEFINE q == Append(events[s], e)
    <3>1. /\ ~ Contains(events[s], e) /\ Len(events[s]) < SetSize
          /\ events' = [events EXCEPT ![s] = q]
      BY <2>1, Zenon DEF event_set_add
    <3>2. List(q, Events) /\ Len(q) = Len(events[s]) + 1
      BY <1>2, <3>1, AppendFacts, Zenon
    <3> HIDE DEF q
    <3>3. Len(q) <= SetSize
      BY <2>0, <3>1, <3>2, SMTT(30)
    <3> QED  BY <3>1, <3>2, <3>3, Zenon
  <2>2. CASE event_set_remove(t, s, e)
    <3> DEFINE q == RemoveFirst(events[s], e)
    <3>1. events' = [events EXCEPT ![s] = q]
      BY <2>2, Zenon DEF event_set_remove
    <3>2. List(q, Events) /\ Len(q) <= Len(events[s])
      BY <1>2, RemoveFirstFacts, Zenon
    <3>3. Len(q) \in Nat
      BY <3>2 DEF List
    <3> HIDE DEF q
    <3>4. Len(q) <= SetSize
      BY <1>2, <2>0, <3>2, <3>3
    <3> QED  BY <3>1, <3>2, <3>4, Zenon
  <2> QED  BY <2>1, <2>2, Zenon
<1>4. SetsOK'
  <2>1. PICK q : /\ events' = [events EXCEPT ![s] = q]
                 /\ List(q, Events) /\ Len(q) <= SetSize
    BY <1>3, Zenon
  <2>2. q \in Seq(Events)
    BY <2>1 DEF List
  <2>3. events' \in [Sets -> Seq(Events)]
    BY <1>2, <2>1, <2>2
  <2>4. events'[s] = q /\ \A r \in Sets \ {s} : events'[r] = events[r]
    BY <1>2, <2>1
  <2> QED  BY <1>0, <2>1, <2>3, <2>4, Zenon DEF SetsOK
<1>5. Leaves({})
  BY <1>0, <1>1, NobodyLeaves, Zenon
<1>6. InWait' /\ Match'
  BY <1>0, <1>5, LeavesMatch
<1>7. AutoResetOnce' /\ NobodyWaitsOnSignaled'
  BY <1>0, <1>1, <1>5, SameSignals, Zenon
<1>8. Types'
  BY <1>0, <1>1, Zenon DEF Types
<1> QED  BY <1>4, <1>6, <1>7, <1>8, Zenon DEF IInv

\* The lists lose the tasks W, all of them at once.
LEMMA AllLeave ==
  ASSUME Types, Match, NEW W,
         \A e \in Events : /\ List(waiters'[e], Tasks)
                           /\ ToSet(waiters'[e]) = ToSet(waiters[e]) \ W,
         \A s \in Sets : /\ List(set_waiters'[s], Tasks)
                         /\ ToSet(set_waiters'[s]) = ToSet(set_waiters[s]) \ W,
         UNCHANGED <<live, set_live>>,
         \A t \in Tasks \ W : pc'[t] = pc[t] /\ on'[t] = on[t],
         \A t \in W : /\ pc'[t] \in InList \cup {"woken"} =>
                           pc[t] \in InList \cup {"woken"} /\ on'[t] = on[t]
                      /\ pc'[t] \in {"enq", "blocked"} => t \in unlisted',
         unlisted \ W \subseteq unlisted'
  PROVE  Leaves(W)
BY Zenon DEF Leaves

\* check_event_timeouts keeps the invariant: what it wakes it also unlists.
LEMMA TimeoutsInv ==
  ASSUME IInv, NEW X \in SUBSET Tasks, check_event_timeouts(X)
  PROVE  IInv'
<1>0. Types /\ SetsOK /\ InWait /\ Match /\ AutoResetOnce /\ NobodyWaitsOnSignaled
  BY DEF IInv
<1>1. /\ ExpireAll(X) /\ pc' = Unblock(pc, X)
      /\ unlisted' = unlisted \cup {t \in X : pc[t] = "enq"}
      /\ live' = live /\ manual' = manual /\ signaled' = signaled /\ fresh' = fresh
      /\ set_live' = set_live /\ events' = events /\ on' = on /\ timed' = timed /\ told' = told
  BY Zenon DEF check_event_timeouts
<1>2. \A t \in X : pc[t] \in InList
  <2> SUFFICES ASSUME NEW t \in X PROVE pc[t] \in InList
    OBVIOUS
  <2>1. t \in Listed
    BY Zenon DEF check_event_timeouts
  <2>2. \/ \E e \in Events : t \in ToSet(waiters[e])
        \/ \E s \in Sets : t \in ToSet(set_waiters[s])
    BY <2>1, Zenon DEF Listed
  <2> QED  BY <1>0, <2>2, ListedWait, Zenon
<1>3. /\ pc' \in [Tasks -> Places]
      /\ \A t \in Tasks \ X : pc'[t] = pc[t]
      /\ \A t \in X : pc'[t] = IF pc[t] = "blocked" THEN "woken" ELSE pc[t]
  BY <1>0, <1>1, Zenon DEF Types, Unblock, Places, PCs
<1>4. \A e \in Events : List(waiters'[e], Tasks) /\ ToSet(waiters'[e]) = ToSet(waiters[e]) \ X
  <2> SUFFICES ASSUME NEW e \in Events
               PROVE  List(waiters'[e], Tasks) /\ ToSet(waiters'[e]) = ToSet(waiters[e]) \ X
    BY Zenon
  <2>1. waiters'[e] = Without(waiters[e], X) /\ List(waiters[e], Tasks)
    BY <1>0, <1>1, Zenon DEF ExpireAll, Match, Lists
  <2> QED  BY <2>1, WithoutFacts, SMTT(30)
<1>5. \A s \in Sets : /\ List(set_waiters'[s], Tasks)
                      /\ ToSet(set_waiters'[s]) = ToSet(set_waiters[s]) \ X
  <2> SUFFICES ASSUME NEW s \in Sets
               PROVE  List(set_waiters'[s], Tasks) /\ ToSet(set_waiters'[s]) = ToSet(set_waiters[s]) \ X
    BY Zenon
  <2>1. set_waiters'[s] = Without(set_waiters[s], X) /\ List(set_waiters[s], Tasks)
    BY <1>0, <1>1, Zenon DEF ExpireAll, Match, Lists
  <2> QED  BY <2>1, WithoutFacts
<1>6. Leaves(X)
  BY <1>0, <1>1, <1>2, <1>3, <1>4, <1>5, AllLeave, Zenon
<1>7. InWait' /\ Match'
  BY <1>0, <1>6, LeavesMatch, Zenon
<1>8. AutoResetOnce' /\ NobodyWaitsOnSignaled'
  BY <1>0, <1>1, <1>6, SameSignals, Zenon
<1>9. waiters' \in [Events -> Seq(Tasks)] /\ set_waiters' \in [Sets -> Seq(Tasks)]
  BY <1>1, <1>4, <1>5, Zenon DEF ExpireAll, List
<1>10. Types' /\ SetsOK'
  BY <1>0, <1>1, <1>3, <1>9, Zenon DEF Types, SetsOK
<1> QED  BY <1>7, <1>8, <1>10 DEF IInv

\* cleanup_task_events keeps the invariant: it unlists the dead task.
LEMMA CleanupInv ==
  ASSUME IInv, NEW u \in Tasks, cleanup_task_events(u)
  PROVE  IInv'
<1>0. Types /\ SetsOK /\ InWait /\ Match /\ AutoResetOnce /\ NobodyWaitsOnSignaled
  BY DEF IInv
<1>1. /\ pc[u] = "dead" /\ EndWait(u, "gone")
      /\ waiters' = [e \in Events |-> RemoveFirst(waiters[e], u)]
      /\ set_waiters' = [s \in Sets |-> RemoveFirst(set_waiters[s], u)]
      /\ live' = live /\ manual' = manual /\ signaled' = signaled /\ fresh' = fresh
      /\ set_live' = set_live /\ events' = events
  BY Zenon DEF cleanup_task_events
<1>2. /\ pc' \in [Tasks -> Places] /\ on' \in [Tasks -> Objects]
      /\ timed' \in [Tasks -> BOOLEAN] /\ told' \in [Tasks -> BOOLEAN]
      /\ unlisted' \subseteq Tasks /\ unlisted' = unlisted \ {u}
      /\ pc'[u] = "gone" /\ \A t \in Tasks \ {u} : pc'[t] = pc[t] /\ on'[t] = on[t]
  BY <1>0, <1>1, EndWaitFacts, Zenon
<1>3. \A e \in Events : List(waiters'[e], Tasks) /\ ToSet(waiters'[e]) = ToSet(waiters[e]) \ {u}
  <2> SUFFICES ASSUME NEW e \in Events
               PROVE  List(waiters'[e], Tasks) /\ ToSet(waiters'[e]) = ToSet(waiters[e]) \ {u}
    BY Zenon
  <2>1. waiters'[e] = RemoveFirst(waiters[e], u) /\ List(waiters[e], Tasks)
    BY <1>0, <1>1, Zenon DEF Match, Lists
  <2> QED  BY <2>1, RemoveFirstFacts, SMTT(30)
<1>4. \A s \in Sets : /\ List(set_waiters'[s], Tasks)
                      /\ ToSet(set_waiters'[s]) = ToSet(set_waiters[s]) \ {u}
  <2> SUFFICES ASSUME NEW s \in Sets
               PROVE  List(set_waiters'[s], Tasks) /\ ToSet(set_waiters'[s]) = ToSet(set_waiters[s]) \ {u}
    BY Zenon
  <2>1. set_waiters'[s] = RemoveFirst(set_waiters[s], u) /\ List(set_waiters[s], Tasks)
    BY <1>0, <1>1, Zenon DEF Match, Lists
  <2> QED  BY <2>1, RemoveFirstFacts
<1>5. Leaves({u})
  BY <1>0, <1>1, <1>2, <1>3, <1>4, AllLeave, Zenon DEF InList
<1>6. InWait' /\ Match'
  BY <1>0, <1>5, LeavesMatch, Zenon
<1>7. AutoResetOnce' /\ NobodyWaitsOnSignaled'
  BY <1>0, <1>1, <1>5, SameSignals, Zenon
<1>8. waiters' \in [Events -> Seq(Tasks)] /\ set_waiters' \in [Sets -> Seq(Tasks)]
  BY <1>1, <1>3, <1>4, Zenon DEF List
<1>9. Types' /\ SetsOK'
  BY <1>0, <1>1, <1>2, <1>8, Zenon DEF Types, SetsOK
<1> QED  BY <1>6, <1>7, <1>9 DEF IInv

\* Every step of the system keeps the invariant.
LEMMA NextStep ==
  ASSUME IInv, [Next]_vars
  PROVE  IInv'
<1>1. CASE UNCHANGED vars
  <2>1. UNCHANGED <<live, manual, signaled, waiters, fresh, set_live, events, set_waiters,
                    pc, on, timed, told, unlisted>>
    BY <1>1, Zenon DEF vars, eventVars, setVars, taskVars
  <2> QED  BY <2>1, Zenon DEF IInv, Types, SetsOK, InWait, Match, Lists, Found, AutoResetOnce,
                       NobodyWaitsOnSignaled
<1>2. CASE \E X \in SUBSET Tasks : check_event_timeouts(X)
  BY <1>2, TimeoutsInv, Zenon
<1>3. ASSUME NEW t \in Tasks,
             \/ create_event(t) \/ create_event_set(t)
             \/ block_task(t) \/ EventWaitReturns(t) \/ SetWaitReturns(t)
             \/ cleanup_task_events(t)
             \/ \E u \in Tasks : terminate_task(t, u)
      PROVE  IInv'
  BY <1>3, CreateEventInv, CreateSetInv, BlockTaskInv, EventWaitReturnsInv,
     SetWaitReturnsInv, CleanupInv, TerminateInv, Zenon
<1>4. ASSUME NEW t \in Tasks, NEW e \in Events,
             \/ destroy_event(t, e) \/ event_timedwait(t, e) \/ event_signal(t, e)
             \/ event_broadcast(t, e) \/ event_reset(t, e)
      PROVE  IInv'
  BY <1>4, DestroyEventInv, EventWaitInv, EventSignalInv, EventResetInv, Zenon
<1>5. ASSUME NEW t \in Tasks, NEW s \in Sets,
             \/ destroy_event_set(t, s) \/ event_set_timedwait(t, s)
             \/ \E e \in Events : event_set_add(t, s, e) \/ event_set_remove(t, s, e)
      PROVE  IInv'
  BY <1>5, DestroySetInv, SetWaitInv, SetMemberInv, Zenon
<1> QED  BY <1>1, <1>2, <1>3, <1>4, <1>5, Zenon DEF Next

\* The invariant holds in every state the event code reaches.
LEMMA InductiveInvariant == Spec => []IInv
BY InitHolds, NextStep, PTL DEF Spec

\* The state is well typed; a list holds a task once, and a set holds an event
\* once and never more than SetSize of them (add_event_waiter, event_set_add).
THEOREM EventTypes == Spec => []TypeOK
<1>1. IInv => TypeOK
  BY InvariantImplies
<1> QED  BY InductiveInvariant, <1>1, PTL

\* However many tasks signal, wait, time out or wait on sets, one signal of an
\* automatic event lets at most one wait through (event_timedwait,
\* event_set_timedwait).
THEOREM EventAutoResetOnce == Spec => []AutoResetOnce
<1>1. IInv => AutoResetOnce
  BY InvariantImplies
<1> QED  BY InductiveInvariant, <1>1, PTL

\* Through signals, destruction, timeouts, termination and clean-up, the lists hold
\* only waits that have not ended and tasks that await clean-up, and every wait that
\* could be listed and did not expire before it blocked (add_event_waiter,
\* remove_event_waiter, check_event_timeouts, cleanup_task_events).
THEOREM EventListsMatchWaits == Spec => []ListsMatchWaits
<1>1. IInv => ListsMatchWaits
  BY InvariantImplies
<1> QED  BY InductiveInvariant, <1>1, PTL

\* A signal is kept or wakes a waiter: the waiters of a list are blocked or dead.
LEMMA SignalStep ==
  ASSUME IInv, NEW t \in Tasks, NEW e \in Events, event_signal(t, e) \/ event_broadcast(t, e)
  PROVE  \/ signaled'[e]
         \/ \E u \in ToSet(waiters[e]) : pc[u] = "blocked" /\ pc'[u] = "woken"
         \/ \E u \in ToSet(waiters[e]) : pc[u] = "dead"
<1>1. /\ waiters[e] \in Seq(Tasks) /\ signaled \in [Events -> BOOLEAN] /\ Calls(t)
      /\ \A u \in ToSet(waiters[e]) : pc[u] \in InList
  BY Zenon DEF IInv, Types, Match, Lists, event_signal, event_broadcast
<1>2. \A u \in ToSet(waiters[e]) : u \in Tasks /\ pc[u] \in {"blocked", "dead"}
  <2>1. \A u \in ToSet(waiters[e]) : u \in Tasks
    BY <1>1, Members, Zenon
  <2>2. pc[t] = "idle" /\ \A u \in Tasks \ {t} : pc[u] # "enq"
    BY <1>1, Zenon DEF Calls, MayRun
  <2>3. \A u \in Tasks : pc[u] # "enq"
    BY <2>2
  <2> QED  BY <1>1, <2>1, <2>3, Zenon DEF InList
<1>3. CASE event_broadcast(t, e) \/ manual[e] \/ waiters[e] = <<>>
  <2>1. \/ signaled' = [signaled EXCEPT ![e] = TRUE]
        \/ /\ signaled' = [signaled EXCEPT ![e] = manual[e] \/ waiters[e] = <<>>]
           /\ manual[e] \/ waiters[e] = <<>>
    BY <1>3, Zenon DEF event_signal, event_broadcast
  <2> QED  BY <1>1, <2>1, Zenon
<1>4. CASE event_signal(t, e) /\ ~ manual[e] /\ waiters[e] # <<>>
  <2>1. pc' = Unblock(pc, WokenFirst(waiters[e])) /\ WokenFirst(waiters[e]) = {Head(waiters[e])}
    BY <1>4, Zenon DEF event_signal, Tell, WokenFirst
  <2>2. Head(waiters[e]) \in ToSet(waiters[e])
    <3>1. 1 \in 1 .. Len(waiters[e]) /\ Head(waiters[e]) = waiters[e][1]
      BY <1>1, <1>4, TailFacts, SMTT(30)
    <3> QED  BY <1>1, <3>1, Members, Zenon
  <2>3. PICK u \in ToSet(waiters[e]) : u = Head(waiters[e])
    BY <2>2, Zenon
  <2>4. pc[u] = "dead" \/ (pc[u] = "blocked" /\ pc'[u] = "woken")
    BY <1>2, <2>1, <2>3, Zenon DEF Unblock
  <2> QED  BY <2>4, Zenon
<1> QED  BY <1>3, <1>4, Zenon

\* Only the calls that wait make a task wait, and they look for a signal first.
LEMMA WaitStep ==
  ASSUME IInv, [Next]_vars, NEW t \in Tasks
  PROVE  NothingToWaitFor(t)
<1> SUFFICES ASSUME pc[t] = "idle", pc'[t] = "enq"
             PROVE  IF on'[t].kind = "event" THEN ~signaled[on'[t].slot]
                                             ELSE Ready(on'[t].slot) = {}
  BY Zenon DEF NothingToWaitFor
<1>0. pc \in [Tasks -> Places] /\ on \in [Tasks -> Objects]
  BY Zenon DEF IInv, Types
<1>1. ASSUME NEW W, pc' = Unblock(pc, W)
      PROVE  FALSE
  BY <1>0, <1>1, Zenon DEF Unblock
<1>2. ASSUME NEW u \in Tasks, NEW after \in {"idle", "gone", "blocked", "dead"},
             pc' = [pc EXCEPT ![u] = after]
      PROVE  FALSE
  BY <1>0, <1>2, SMTT(30)
<1>3. pc' # pc
  BY Zenon
<1>4. ASSUME NEW u \in Tasks, NEW object, NEW b, StartWait(u, object, b)
      PROVE  u = t /\ on'[t] = object
  BY <1>0, <1>4, Zenon DEF StartWait
<1>5. CASE \E X \in SUBSET Tasks : check_event_timeouts(X)
  BY <1>1, <1>5, Zenon DEF check_event_timeouts
<1>6. ASSUME NEW u \in Tasks,
             \/ create_event(u) \/ create_event_set(u)
             \/ block_task(u) \/ EventWaitReturns(u) \/ SetWaitReturns(u)
             \/ cleanup_task_events(u)
             \/ \E v \in Tasks : terminate_task(u, v)
      PROVE  FALSE
  BY <1>2, <1>3, <1>6, Zenon
     DEF create_event, create_event_set, block_task, EventWaitReturns, SetWaitReturns,
         cleanup_task_events, terminate_task, EndWait, taskVars
<1>7. ASSUME NEW u \in Tasks, NEW e \in Events,
             \/ destroy_event(u, e) \/ event_signal(u, e)
             \/ event_broadcast(u, e) \/ event_reset(u, e)
      PROVE  FALSE
  BY <1>1, <1>3, <1>7, Zenon
     DEF destroy_event, event_signal, event_broadcast, event_reset, Tell, taskVars
<1>8. ASSUME NEW u \in Tasks, NEW e \in Events, event_timedwait(u, e)
      PROVE  on'[t].kind = "event" /\ ~signaled[on'[t].slot]
  <2>1. ~signaled[e] /\ \E b : StartWait(u, [kind |-> "event", slot |-> e], b)
    BY <1>3, <1>8, Zenon DEF event_timedwait, taskVars
  <2>2. on'[t] = [kind |-> "event", slot |-> e]
    BY <1>4, <2>1, Zenon
  <2> QED  BY <2>1, <2>2
<1>9. ASSUME NEW u \in Tasks, NEW s \in Sets, event_set_timedwait(u, s)
      PROVE  on'[t].kind = "set" /\ Ready(on'[t].slot) = {}
  <2>1. Ready(s) = {} /\ \E b : StartWait(u, [kind |-> "set", slot |-> s], b)
    BY <1>3, <1>9, Zenon DEF event_set_timedwait, taskVars
  <2>2. on'[t] = [kind |-> "set", slot |-> s]
    BY <1>4, <2>1, Zenon
  <2>3. on'[t].kind = "set" /\ on'[t].slot = s
    BY <2>2
  <2> QED  BY <2>1, <2>3, Zenon
<1>10. ASSUME NEW u \in Tasks, NEW s \in Sets,
              \/ destroy_event_set(u, s)
              \/ \E e \in Events : event_set_add(u, s, e) \/ event_set_remove(u, s, e)
       PROVE  FALSE
  BY <1>1, <1>3, <1>10, Zenon DEF destroy_event_set, event_set_add, event_set_remove, taskVars
<1>11. ~ UNCHANGED vars
  BY <1>3, Zenon DEF vars, taskVars
<1>12. on'[t].kind = "set" => on'[t].kind # "event"
  OBVIOUS
<1> QED  BY <1>5, <1>6, <1>7, <1>8, <1>9, <1>10, <1>11, <1>12, Zenon DEF Next

\* No signal is lost, whatever waits time out, are destroyed, return or are
\* terminated: it is kept until a task comes, or wakes one that waits
\* (event_signal, event_broadcast, event_timedwait, event_set_timedwait).
THEOREM EventSignalsAreNotLost == Spec => SignalsAreNotLost
<1>1. ASSUME IInv, [Next]_vars
      PROVE  (\A e \in Events : SignalArrives(e)) /\ (\A t \in Tasks : NothingToWaitFor(t))
  BY <1>1, SignalStep, WaitStep, Zenon DEF SignalArrives
<1>2. IInv /\ [Next]_vars =>
        [(\A e \in Events : SignalArrives(e)) /\ (\A t \in Tasks : NothingToWaitFor(t))]_vars
  BY <1>1
<1> QED  BY <1>2, InductiveInvariant, PTL DEF Spec, SignalsAreNotLost

=============================================================================
