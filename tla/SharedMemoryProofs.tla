------------------------- MODULE SharedMemoryProofs -------------------------
(***************************************************************************)
(* Proofs about SharedMemory, for any tasks, regions, frames and sizes,    *)
(* with failing allocations, expansions and unmappings: frames are neither *)
(* lost nor shared by two regions, the tasks see the pages of what they    *)
(* have mapped and, but for failed unmappings, nothing else, and a task    *)
(* that is gone leaves nothing unshared.                                   *)
(***************************************************************************)
EXTENDS SharedMemory, FiniteSetTheorems, WellFoundedInduction, TLAPS

-----------------------------------------------------------------------------
(* Lists of pages. *)

\* The frames of a list are those at its places.
LEMMA Members ==
  ASSUME NEW S, NEW q \in Seq(S)
  PROVE  /\ \A x : x \in ToSet(q) <=> \E i \in 1 .. Len(q) : x = q[i]
         /\ ToSet(q) \subseteq S /\ DOMAIN q = 1 .. Len(q) /\ Len(q) \in Nat
BY DEF ToSet

\* No pages.
LEMMA NoPages ==
  ASSUME NEW S
  PROVE  <<>> \in Seq(S) /\ ToSet(<<>>) = {} /\ IsInjective(<<>>)
BY DEF ToSet, IsInjective

\* Frames that the allocator hands out: some of the free ones, each once.
LEMMA AllocationFacts ==
  ASSUME NEW n \in Nat, NEW p \in Allocations(n), free \subseteq Frames
  PROVE  p \in Seq(Frames) /\ IsInjective(p) /\ ToSet(p) \subseteq free
<1>1. p \in [1 .. n -> free] /\ IsInjective(p)
  BY DEF Allocations
<1>2. p \in Seq(free)
  BY <1>1
<1> QED  BY <1>1, <1>2, Members

\* The pages of a region that grows (resize_shared_memory).
LEMMA ConcatFacts ==
  ASSUME NEW S, NEW q \in Seq(S), NEW p \in Seq(S), IsInjective(q), IsInjective(p),
         ToSet(q) \cap ToSet(p) = {}
  PROVE  /\ q \o p \in Seq(S) /\ IsInjective(q \o p)
         /\ ToSet(q \o p) = ToSet(q) \cup ToSet(p)
<1> DEFINE c == q \o p
<1>1. /\ c \in Seq(S) /\ Len(c) = Len(q) + Len(p) /\ Len(q) \in Nat /\ Len(p) \in Nat
      /\ \A i \in 1 .. Len(c) : c[i] = IF i <= Len(q) THEN q[i] ELSE p[i - Len(q)]
  OBVIOUS
<1> HIDE DEF c
<1>2. ToSet(c) = ToSet(q) \cup ToSet(p)
  <2>1. ASSUME NEW x \in ToSet(c) PROVE x \in ToSet(q) \cup ToSet(p)
    <3>1. PICK i \in 1 .. Len(c) : x = c[i]
      BY <1>1, Members
    <3>2. CASE i <= Len(q)
      BY <1>1, <3>1, <3>2, Members
    <3>3. CASE i > Len(q)
      <4>1. i - Len(q) \in 1 .. Len(p) /\ x = p[i - Len(q)]
        BY <1>1, <3>1, <3>3
      <4> QED  BY <4>1, Members
    <3> QED  BY <1>1, <3>1, <3>2, <3>3
  <2>2. ASSUME NEW x \in ToSet(q) PROVE x \in ToSet(c)
    <3>1. PICK i \in 1 .. Len(q) : x = q[i]
      BY Members
    <3>2. i \in 1 .. Len(c) /\ c[i] = x
      BY <1>1, <3>1
    <3> QED  BY <1>1, <3>2, Members, Zenon
  <2>3. ASSUME NEW x \in ToSet(p) PROVE x \in ToSet(c)
    <3>1. PICK i \in 1 .. Len(p) : x = p[i]
      BY Members
    <3>2. i + Len(q) \in 1 .. Len(c) /\ c[i + Len(q)] = x
      BY <1>1, <3>1, SMTT(30)
    <3> QED  BY <1>1, <3>2, Members, Zenon
  <2> QED  BY <2>1, <2>2, <2>3
<1>3. IsInjective(c)
  <2> SUFFICES ASSUME NEW i \in 1 .. Len(c), NEW j \in 1 .. Len(c), c[i] = c[j]
               PROVE  i = j
    BY <1>1 DEF IsInjective
  <2>1. CASE i <= Len(q) /\ j <= Len(q)
    BY <1>1, <2>1, SMTT(30) DEF IsInjective
  <2>2. CASE i > Len(q) /\ j > Len(q)
    <3>1. /\ i - Len(q) \in DOMAIN p /\ j - Len(q) \in DOMAIN p
          /\ p[i - Len(q)] = p[j - Len(q)]
      BY <1>1, <2>2
    <3>2. i - Len(q) = j - Len(q)
      BY <3>1 DEF IsInjective
    <3> QED  BY <1>1, <3>2
  <2>3. ASSUME NEW k \in 1 .. Len(c), NEW m \in 1 .. Len(c), k <= Len(q), m > Len(q)
        PROVE  c[k] # c[m]
    <3>1. k \in 1 .. Len(q) /\ c[k] = q[k]
      BY <1>1, <2>3
    <3>2. m - Len(q) \in 1 .. Len(p) /\ c[m] = p[m - Len(q)]
      BY <1>1, <2>3
    <3>3. c[k] \in ToSet(q) /\ c[m] \in ToSet(p)
      BY <3>1, <3>2, Members, Zenon
    <3> QED  BY <3>3
  <2> QED  BY <1>1, <2>1, <2>2, <2>3
<1> QED  BY <1>1, <1>2, <1>3 DEF c

\* The pages that a region keeps, and those it gives back, when it shrinks.
LEMMA CutFacts ==
  ASSUME NEW S, NEW q \in Seq(S), NEW n \in 0 .. Len(q), IsInjective(q)
  PROVE  /\ SubSeq(q, 1, n) \in Seq(S) /\ IsInjective(SubSeq(q, 1, n))
         /\ Len(SubSeq(q, 1, n)) = n
         /\ ToSet(SubSeq(q, n + 1, Len(q))) = ToSet(q) \ ToSet(SubSeq(q, 1, n))
         /\ ToSet(SubSeq(q, 1, n)) \subseteq ToSet(q)
<1> DEFINE a == SubSeq(q, 1, n)
           b == SubSeq(q, n + 1, Len(q))
<1>1. /\ a \in Seq(S) /\ Len(a) = n /\ \A i \in 1 .. n : a[i] = q[i]
      /\ Len(q) \in Nat /\ n \in Nat
  OBVIOUS
<1>2. b \in Seq(S) /\ Len(b) = Len(q) - n /\ \A i \in 1 .. Len(q) - n : b[i] = q[i + n]
  OBVIOUS
<1> HIDE DEF a, b
<1>3. IsInjective(a)
  BY <1>1 DEF IsInjective
<1>4. ASSUME NEW x \in ToSet(a) PROVE x \in ToSet(q) /\ x \notin ToSet(b)
  <2>1. PICK i \in 1 .. n : x = q[i]
    BY <1>1, <1>4, Members
  <2>2. x \in ToSet(q)
    BY <1>1, <2>1, Members
  <2>3. ASSUME x \in ToSet(b) PROVE FALSE
    <3>1. PICK j \in 1 .. Len(q) - n : x = q[j + n]
      BY <1>2, <2>3, Members
    <3>2. i \in DOMAIN q /\ j + n \in DOMAIN q /\ q[i] = q[j + n] /\ i # j + n
      BY <1>1, <2>1, <3>1
    <3> QED  BY <3>2 DEF IsInjective
  <2> QED  BY <2>2, <2>3
<1>5. ASSUME NEW x \in ToSet(b) PROVE x \in ToSet(q)
  <2>1. PICK j \in 1 .. Len(q) - n : x = q[j + n]
    BY <1>2, <1>5, Members, SMTT(30)
  <2>2. j + n \in 1 .. Len(q)
    BY <1>1, <2>1
  <2> QED  BY <2>1, <2>2, Members
<1>6. ASSUME NEW x \in ToSet(q), x \notin ToSet(a) PROVE x \in ToSet(b)
  <2>1. PICK i \in 1 .. Len(q) : x = q[i]
    BY <1>6, Members
  <2>2. CASE i <= n
    BY <1>1, <1>6, <2>1, <2>2, Members
  <2>3. CASE i > n
    <3>1. i - n \in 1 .. Len(q) - n /\ b[i - n] = x
      BY <1>1, <1>2, <2>1, <2>3
    <3> QED  BY <1>2, <3>1, Members
  <2> QED  BY <1>1, <2>1, <2>2, <2>3
<1> QED  BY <1>1, <1>3, <1>4, <1>5, <1>6 DEF a, b

-----------------------------------------------------------------------------
(* The invariant. *)

\* Each frame is free or in one place of one region.
Accounted(p, f) ==
  /\ \A x \in Frames : x \in f \/ \E r \in Regions : x \in ToSet(p[r])
  /\ \A r \in Regions : IsInjective(p[r]) /\ \A x \in ToSet(p[r]) : x \notin f
  /\ \A r, s \in Regions : r # s => \A x \in ToSet(p[r]) : x \notin ToSet(p[s])

Types ==
  /\ live \in [Regions -> BOOLEAN] /\ creator \in [Regions -> Tasks]
  /\ pages \in [Regions -> Seq(Frames)] /\ mapped \in [Regions -> SUBSET Tasks]
  /\ mapping_count \in [Regions -> Int]
  /\ free \subseteq Frames
  /\ view \in [Regions -> [Tasks -> Seq(Frames)]]
  /\ state \in [Tasks -> {"alive", "dead", "gone"}] /\ torn \in BOOLEAN

\* mapping_count counts the mappings, and there is room for all of them.
Counted ==
  \A r \in Regions : /\ IsFiniteSet(mapped[r])
                     /\ mapping_count[r] = Cardinality(mapped[r])
                     /\ mapping_count[r] <= MaxMappings

Views ==
  \A r \in Regions, t \in Tasks :
    view[r][t] = IF t \in mapped[r] THEN pages[r] ELSE <<>>

\* Only the tasks for which an unmapping may fail see more than their mappings.
StaleOnly ==
  /\ stale \in [Tasks -> SUBSET Frames]
  /\ \A t \in Tasks : stale[t] # {} => t \in Sticky

\* A slot of the pool that is not in use has no pages and no mappings.
UnusedIsEmpty == \A r \in Regions : ~ live[r] => pages[r] = <<>> /\ mapped[r] = {}

IInv ==
  /\ Types /\ Counted /\ UnusedIsEmpty /\ StaleOnly
  /\ ~ torn => Accounted(pages, free) /\ Views

\* The frames, as the run's invariant states it.
LEMMA AccountedMeans ==
  ASSUME free \subseteq Frames, pages \in [Regions -> Seq(Frames)], Accounted(pages, free)
  PROVE  /\ free \cup UNION {ToSet(pages[r]) : r \in Regions} = Frames
         /\ \A r \in Regions : IsInjective(pages[r]) /\ ToSet(pages[r]) \cap free = {}
         /\ \A r, s \in Regions : r # s => ToSet(pages[r]) \cap ToSet(pages[s]) = {}
<1>1. \A r \in Regions : ToSet(pages[r]) \subseteq Frames
  BY Members
<1>2. \A x \in free \cup UNION {ToSet(pages[r]) : r \in Regions} : x \in Frames
  BY <1>1
<1>3. \A x \in Frames : x \in free \cup UNION {ToSet(pages[r]) : r \in Regions}
  BY DEF Accounted
<1> QED  BY <1>2, <1>3 DEF Accounted

\* The invariant is what the run checks, and more.
LEMMA InvariantImplies ==
  ASSUME IInv
  PROVE  TypeOK /\ FramesAccounted /\ ViewsAgree
<1>0. Types /\ Counted /\ StaleOnly /\ (~ torn => Accounted(pages, free) /\ Views)
  BY DEF IInv
<1>1. \A r \in Regions : mapping_count[r] \in 0 .. MaxMappings
  <2> TAKE r \in Regions
  <2>1. /\ mapping_count[r] = Cardinality(mapped[r]) /\ Cardinality(mapped[r]) \in Nat
        /\ mapping_count[r] <= MaxMappings
    BY <1>0, FS_CardinalityType DEF Counted
  <2> QED  BY <2>1, SharedMemoryAssumption
<1>2. mapping_count \in [Regions -> 0 .. MaxMappings]
  BY <1>0, <1>1 DEF Types
<1>3. TypeOK
  BY <1>0, <1>2 DEF Types, StaleOnly, TypeOK
<1>4. FramesAccounted
  BY <1>0, AccountedMeans DEF Types, FramesAccounted
<1>5. ViewsAgree
  BY <1>0 DEF Counted, Views, StaleOnly, ViewsAgree
<1> QED  BY <1>3, <1>4, <1>5

\* init_shared_memory_system.
LEMMA InitHolds == Init => IInv
<1> SUFFICES ASSUME Init PROVE IInv
  OBVIOUS
<1>1. PICK p \in BootPages :
        /\ pages = [r \in Regions |-> IF r \in DOMAIN Boot THEN p[r] ELSE <<>>]
        /\ free = Frames \ UNION {ToSet(p[r]) : r \in DOMAIN Boot}
        /\ view = [r \in Regions |->
                     [NoView EXCEPT ![Kernel] = IF r \in DOMAIN Boot THEN p[r] ELSE <<>>]]
  BY DEF Init
<1>2. /\ live = [r \in Regions |-> r \in DOMAIN Boot]
      /\ creator = [r \in Regions |-> Kernel]
      /\ mapped = [r \in Regions |-> IF r \in DOMAIN Boot THEN {Kernel} ELSE {}]
      /\ mapping_count = [r \in Regions |-> IF r \in DOMAIN Boot THEN 1 ELSE 0]
      /\ stale = [t \in Tasks |-> {}]
      /\ state = [t \in Tasks |-> "alive"]
      /\ torn = FALSE
  BY DEF Init
<1>3. /\ \A r \in DOMAIN Boot : p[r] \in Seq(Frames) /\ IsInjective(p[r])
      /\ \A r, s \in DOMAIN Boot : r # s => ToSet(p[r]) \cap ToSet(p[s]) = {}
  <2>1. /\ p \in [DOMAIN Boot -> UNION {[1 .. n -> Frames] : n \in ToSet(Boot)}]
        /\ \A r \in DOMAIN Boot : DOMAIN p[r] = 1 .. Boot[r] /\ IsInjective(p[r])
        /\ \A r, s \in DOMAIN Boot : r # s => ToSet(p[r]) \cap ToSet(p[s]) = {}
    BY DEF BootPages
  <2>2. ASSUME NEW r \in DOMAIN Boot PROVE p[r] \in Seq(Frames)
    <3>1. PICK n \in ToSet(Boot) : p[r] \in [1 .. n -> Frames]
      BY <2>1
    <3>2. n \in Nat
      BY <3>1, SharedMemoryAssumption, Members
    <3> QED  BY <3>1, <3>2
  <2> QED  BY <2>1, <2>2
<1>4. \A r \in Regions : /\ pages[r] \in Seq(Frames) /\ IsInjective(pages[r])
                         /\ r \in DOMAIN Boot => pages[r] = p[r]
                         /\ r \notin DOMAIN Boot => pages[r] = <<>> /\ ToSet(pages[r]) = {}
  BY <1>1, <1>3, NoPages
<1>5. Types
  <2>1. pages \in [Regions -> Seq(Frames)]
    BY <1>1, <1>4
  <2>2. view \in [Regions -> [Tasks -> Seq(Frames)]]
    <3>1. NoView \in [Tasks -> Seq(Frames)]
      BY NoPages DEF NoView
    <3>2. view = [r \in Regions |-> [NoView EXCEPT ![Kernel] = pages[r]]]
      BY <1>1
    <3> QED  BY <1>4, <3>1, <3>2, Zenon
  <2>3. mapping_count \in [Regions -> Int] /\ mapped \in [Regions -> SUBSET Tasks]
    BY <1>2, SharedMemoryAssumption
  <2>4. live \in [Regions -> BOOLEAN] /\ creator \in [Regions -> Tasks]
    BY <1>2, SharedMemoryAssumption
  <2>5. /\ free \subseteq Frames
        /\ state \in [Tasks -> {"alive", "dead", "gone"}] /\ torn \in BOOLEAN
    BY <1>1, <1>2, Zenon
  <2> QED  BY <2>1, <2>2, <2>3, <2>4, <2>5 DEF Types
<1>6. Counted
  <2>1. /\ IsFiniteSet({Kernel}) /\ Cardinality({Kernel}) = 1
        /\ IsFiniteSet({}) /\ Cardinality({}) = 0
    BY FS_Singleton, FS_EmptySet
  <2>2. 0 <= MaxMappings /\ 1 <= MaxMappings
    BY SharedMemoryAssumption
  <2> QED  BY <1>2, <2>1, <2>2 DEF Counted
<1>7. UnusedIsEmpty
  BY <1>2, <1>4, Zenon DEF UnusedIsEmpty
<1>8. Accounted(pages, free)
  <2>1. ASSUME NEW x \in Frames, x \notin free
        PROVE  \E r \in Regions : x \in ToSet(pages[r])
    <3>1. PICK r \in DOMAIN Boot : x \in ToSet(p[r])
      BY <1>1, <2>1
    <3> QED  BY <1>4, <3>1, SharedMemoryAssumption
  <2>2. ASSUME NEW r \in Regions, NEW x \in ToSet(pages[r]) PROVE x \notin free
    <3>1. r \in DOMAIN Boot /\ x \in ToSet(p[r])
      BY <1>4, <2>2, Zenon
    <3> QED  BY <1>1, <3>1
  <2>3. ASSUME NEW r \in Regions, NEW s \in Regions, r # s, NEW x \in ToSet(pages[r])
        PROVE  x \notin ToSet(pages[s])
    BY <1>3, <1>4, <2>3, Zenon
  <2> QED  BY <1>4, <2>1, <2>2, <2>3 DEF Accounted
<1>9. Views
  BY <1>1, <1>2, <1>4 DEF Views, NoView
<1>10. StaleOnly
  BY <1>2 DEF StaleOnly
<1> QED  BY <1>5, <1>6, <1>7, <1>8, <1>9, <1>10 DEF IInv

-----------------------------------------------------------------------------
(* The frames. *)

\* One region exchanges pages with the free frames: an allocation, a
\* destruction or a resize.
LEMMA Exchange ==
  ASSUME pages \in [Regions -> Seq(Frames)], free \subseteq Frames, Accounted(pages, free),
         NEW r \in Regions, NEW q \in Seq(Frames), IsInjective(q),
         ToSet(q) \subseteq ToSet(pages[r]) \cup free,
         pages' = [pages EXCEPT ![r] = q],
         free' = (free \cup ToSet(pages[r])) \ ToSet(q)
  PROVE  /\ Accounted(pages', free') /\ free' \subseteq Frames
         /\ pages' \in [Regions -> Seq(Frames)]
<1>1. /\ pages' \in [Regions -> Seq(Frames)]
      /\ pages'[r] = q /\ \A s \in Regions \ {r} : pages'[s] = pages[s]
  OBVIOUS
<1>2. ToSet(pages[r]) \subseteq Frames
  BY Members
<1>3. free' \subseteq Frames
  BY <1>2
<1>4. ASSUME NEW x \in Frames PROVE x \in free' \/ \E s \in Regions : x \in ToSet(pages'[s])
  <2>1. CASE x \in ToSet(q)
    BY <1>1, <2>1
  <2>2. CASE x \notin ToSet(q) /\ x \in free \cup ToSet(pages[r])
    BY <2>2
  <2>3. CASE x \notin free \cup ToSet(pages[r])
    <3>1. PICK s \in Regions : x \in ToSet(pages[s])
      BY <2>3 DEF Accounted
    <3> QED  BY <1>1, <2>3, <3>1, Zenon
  <2> QED  BY <2>1, <2>2, <2>3
<1>5. ASSUME NEW s \in Regions
      PROVE  IsInjective(pages'[s]) /\ \A x \in ToSet(pages'[s]) : x \notin free'
  <2>1. CASE s = r
    BY <1>1, <2>1
  <2>2. CASE s # r
    <3>1. pages'[s] = pages[s]
      BY <1>1, <2>2
    <3>2. \A x \in ToSet(pages[s]) : x \notin free /\ x \notin ToSet(pages[r])
      BY <2>2 DEF Accounted
    <3>3. IsInjective(pages[s])
      BY DEF Accounted
    <3> QED  BY <3>1, <3>2, <3>3
  <2> QED  BY <2>1, <2>2
<1>6. ASSUME NEW s \in Regions \ {r}, NEW x \in ToSet(pages[s]) PROVE x \notin ToSet(q)
  <2>1. x \notin free /\ x \notin ToSet(pages[r])
    BY <1>6 DEF Accounted
  <2> QED  BY <2>1
<1>7. ASSUME NEW s \in Regions, NEW u \in Regions, s # u, NEW x \in ToSet(pages'[s])
      PROVE  x \notin ToSet(pages'[u])
  <2>1. CASE s # r /\ u # r
    BY <1>1, <1>7, <2>1 DEF Accounted
  <2>2. CASE s = r \/ u = r
    BY <1>1, <1>6, <1>7, <2>2
  <2> QED  BY <2>1, <2>2
<1> QED  BY <1>1, <1>3, <1>4, <1>5, <1>7 DEF Accounted

\* Several regions give all their pages back.
LEMMA Release ==
  ASSUME pages \in [Regions -> Seq(Frames)], free \subseteq Frames, Accounted(pages, free),
         NEW R \in SUBSET Regions,
         pages' = [r \in Regions |-> IF r \in R THEN <<>> ELSE pages[r]],
         free' = free \cup UNION {ToSet(pages[r]) : r \in R}
  PROVE  /\ Accounted(pages', free') /\ free' \subseteq Frames
         /\ pages' \in [Regions -> Seq(Frames)]
<1>1. /\ \A r \in R : pages'[r] = <<>> /\ ToSet(pages'[r]) = {} /\ IsInjective(pages'[r])
      /\ \A r \in Regions \ R : pages'[r] = pages[r]
      /\ pages' \in [Regions -> Seq(Frames)]
  BY NoPages
<1>2. \A x : x \in free' <=> x \in free \/ \E r \in R : x \in ToSet(pages[r])
  OBVIOUS
<1>3. \A r \in Regions : ToSet(pages[r]) \subseteq Frames
  BY Members
<1>4. free' \subseteq Frames
  BY <1>2, <1>3
<1>5. ASSUME NEW x \in Frames PROVE x \in free' \/ \E r \in Regions : x \in ToSet(pages'[r])
  <2>1. CASE x \in free
    BY <1>2, <2>1
  <2>2. CASE \E r \in Regions : x \in ToSet(pages[r])
    BY <1>1, <1>2, <2>2
  <2> QED  BY <2>1, <2>2 DEF Accounted
<1>6. ASSUME NEW r \in Regions
      PROVE  IsInjective(pages'[r]) /\ \A x \in ToSet(pages'[r]) : x \notin free'
  <2>1. CASE r \in R
    BY <1>1, <2>1, Zenon
  <2>2. CASE r \notin R
    <3>1. IsInjective(pages[r]) /\ \A x \in ToSet(pages[r]) : x \notin free
      BY DEF Accounted
    <3>2. \A x \in ToSet(pages[r]) : \A s \in R : x \notin ToSet(pages[s])
      BY <2>2 DEF Accounted
    <3>3. pages'[r] = pages[r]
      BY <1>1, <2>2
    <3> QED  BY <1>2, <3>1, <3>2, <3>3
  <2> QED  BY <2>1, <2>2
<1>7. ASSUME NEW r \in Regions, NEW s \in Regions, r # s, NEW x \in ToSet(pages'[r])
      PROVE  x \notin ToSet(pages'[s])
  <2>1. r \notin R
    BY <1>1, <1>7, Zenon
  <2>2. CASE s \in R
    BY <1>1, <2>2, Zenon
  <2>3. CASE s \notin R
    BY <1>1, <1>7, <2>1, <2>3 DEF Accounted
  <2> QED  BY <2>2, <2>3
<1> QED  BY <1>1, <1>4, <1>5, <1>6, <1>7 DEF Accounted

-----------------------------------------------------------------------------
(* The steps. *)

\* The search of the pool from its first slot on has a result.
LEMMA FindsUnused ==
  ASSUME FreeRegions # {}
  PROVE  find_free_shared_memory \in Regions /\ ~ live[find_free_shared_memory]
<1>1. FreeRegions \in SUBSET Nat
  BY SharedMemoryAssumption, Zenon DEF FreeRegions
<1>2. \E s \in FreeRegions : \A r \in FreeRegions : ~ (<<r, s>> \in OpToRel(<, Nat))
  BY <1>1, NatLessThanWellFounded, WFMin
<1>3. \A r, s \in Nat : r < s => <<r, s>> \in OpToRel(<, Nat)
  BY DEF OpToRel
<1>4. PICK s \in FreeRegions : \A r \in FreeRegions : ~ (r < s)
  BY <1>1, <1>2, <1>3
<1>5. \A r \in FreeRegions : s <= r
  BY <1>1, <1>4
<1>6. find_free_shared_memory \in FreeRegions
  BY <1>5 DEF find_free_shared_memory
<1> QED  BY <1>6 DEF FreeRegions

\* vm_unmap_pages, whether it fails or not, adds frames to what sticky tasks see.
LEMMA UnmapFacts ==
  ASSUME StaleOnly, view \in [Regions -> [Tasks -> Seq(Frames)]], NEW P, vm_unmap_pages(P)
  PROVE  StaleOnly'
<1>1. PICK F \in SUBSET {x \in P : x[2] \in Sticky} :
        stale' = [u \in Tasks |->
                    stale[u] \cup UNION {ToSet(view[r][u]) \ ToSet(view'[r][u]) :
                                           r \in {s \in Regions : <<s, u>> \in F}}]
  BY Zenon DEF vm_unmap_pages
<1>2. \A r \in Regions, u \in Tasks : ToSet(view[r][u]) \subseteq Frames
  BY Members
<1>3. ASSUME NEW u \in Tasks
      PROVE  stale'[u] \subseteq Frames /\ (stale'[u] # {} => u \in Sticky)
  <2>1. stale[u] \subseteq Frames /\ (stale[u] # {} => u \in Sticky)
    BY DEF StaleOnly
  <2>2. ASSUME NEW x \in stale'[u], x \notin stale[u] PROVE x \in Frames /\ u \in Sticky
    <3>1. PICK r \in Regions : <<r, u>> \in F /\ x \in ToSet(view[r][u])
      BY <1>1, <2>2
    <3>2. <<r, u>>[2] \in Sticky
      BY <1>1, <3>1, Zenon
    <3> QED  BY <1>2, <3>1, <3>2
  <2> QED  BY <2>1, <2>2
<1> QED  BY <1>1, <1>3, Zenon DEF StaleOnly

\* What a step that only changes one region's mappings, pages or view leaves.
OneRegion(r) ==
  /\ live' \in [Regions -> BOOLEAN] /\ creator' \in [Regions -> Tasks]
  /\ mapped' \in [Regions -> SUBSET Tasks] /\ mapping_count' \in [Regions -> Int]
  /\ view' \in [Regions -> [Tasks -> Seq(Frames)]]
  /\ \A s \in Regions \ {r} : /\ live'[s] = live[s] /\ pages'[s] = pages[s]
                              /\ mapped'[s] = mapped[s] /\ view'[s] = view[s]
                              /\ mapping_count'[s] = mapping_count[s]

\* The invariant needs looking at in that region only.
LEMMA OneRegionStep ==
  ASSUME IInv, NEW r \in Regions, OneRegion(r), ~ torn,
         pages' \in [Regions -> Seq(Frames)], free' \subseteq Frames,
         torn' \in BOOLEAN, UNCHANGED state, StaleOnly',
         IsFiniteSet(mapped'[r]), mapping_count'[r] = Cardinality(mapped'[r]),
         mapping_count'[r] <= MaxMappings,
         ~ live'[r] => pages'[r] = <<>> /\ mapped'[r] = {},
         ~ torn' => /\ Accounted(pages', free')
                    /\ \A t \in Tasks :
                         view'[r][t] = IF t \in mapped'[r] THEN pages'[r] ELSE <<>>
  PROVE  IInv'
<1>0. Types /\ Counted /\ UnusedIsEmpty /\ Views
  BY DEF IInv
<1>1. Types'
  BY <1>0 DEF Types, OneRegion
<1>2. Counted'
  BY <1>0, Zenon DEF Counted, OneRegion
<1>3. UnusedIsEmpty'
  BY <1>0, Zenon DEF UnusedIsEmpty, OneRegion
<1>4. ASSUME ~ torn' PROVE Views'
  <2> SUFFICES ASSUME NEW s \in Regions, NEW t \in Tasks
               PROVE  view'[s][t] = IF t \in mapped'[s] THEN pages'[s] ELSE <<>>
    BY DEF Views
  <2>1. CASE s = r
    BY <1>4, <2>1
  <2>2. CASE s # r
    <3>1. view'[s] = view[s] /\ mapped'[s] = mapped[s] /\ pages'[s] = pages[s]
      BY <2>2 DEF OneRegion
    <3>2. view[s][t] = IF t \in mapped[s] THEN pages[s] ELSE <<>>
      BY <1>0, Zenon DEF Views
    <3> QED  BY <3>1, <3>2
  <2> QED  BY <2>1, <2>2
<1>5. ~ torn' => Accounted(pages, free)'
  OBVIOUS
<1> QED  BY <1>1, <1>2, <1>3, <1>4, <1>5, Zenon DEF IInv

\* create_shared_memory keeps the invariant: the slot it takes was empty.
LEMMA CreateInv ==
  ASSUME IInv, NEW t \in Tasks, NEW n \in Int, create_shared_memory(t, n)
  PROVE  IInv'
<1>0. Types /\ Counted /\ UnusedIsEmpty /\ ~ torn /\ Accounted(pages, free) /\ Views
      /\ StaleOnly
  BY DEF IInv, create_shared_memory, In
<1>1. PICK r \in Regions : r = find_free_shared_memory /\ ~ live[r]
  BY FindsUnused DEF create_shared_memory
<1>2. PICK p \in Allocations(n) :
        /\ pages' = [pages EXCEPT ![r] = p] /\ free' = free \ ToSet(p)
        /\ view' = [view EXCEPT ![r][t] = p]
  BY <1>1, Zenon DEF create_shared_memory
<1>3. /\ live' = [live EXCEPT ![r] = TRUE] /\ creator' = [creator EXCEPT ![r] = t]
      /\ mapped' = [mapped EXCEPT ![r] = {t}]
      /\ mapping_count' = [mapping_count EXCEPT ![r] = 1]
      /\ state' = state /\ torn' = torn /\ stale' = stale
  BY <1>1 DEF create_shared_memory
<1>4. n \in Nat
  BY DEF create_shared_memory
<1>5. p \in Seq(Frames) /\ IsInjective(p) /\ ToSet(p) \subseteq free
  BY <1>0, <1>4, AllocationFacts DEF Types
<1>6. pages[r] = <<>> /\ mapped[r] = {} /\ ToSet(pages[r]) = {}
  BY <1>0, <1>1, NoPages DEF UnusedIsEmpty
<1>7. /\ Accounted(pages', free') /\ free' \subseteq Frames
      /\ pages' \in [Regions -> Seq(Frames)]
  <2>1. free' = (free \cup ToSet(pages[r])) \ ToSet(p)
    BY <1>2, <1>6
  <2>2. ToSet(p) \subseteq ToSet(pages[r]) \cup free
    BY <1>5
  <2> QED  BY <1>0, <1>2, <1>5, <2>1, <2>2, Exchange, Zenon DEF Types
<1>8. /\ view' \in [Regions -> [Tasks -> Seq(Frames)]] /\ view'[r][t] = p
      /\ \A u \in Tasks \ {t} : view'[r][u] = view[r][u]
      /\ \A s \in Regions \ {r} : view'[s] = view[s]
  BY <1>0, <1>2, <1>5 DEF Types
<1>9. OneRegion(r)
  BY <1>0, <1>2, <1>3, <1>8 DEF Types, OneRegion
<1>10. /\ mapped'[r] = {t} /\ mapping_count'[r] = 1 /\ live'[r] /\ pages'[r] = p
  BY <1>0, <1>2, <1>3 DEF Types
<1>11. /\ IsFiniteSet(mapped'[r]) /\ mapping_count'[r] = Cardinality(mapped'[r])
       /\ mapping_count'[r] <= MaxMappings
  <2>1. IsFiniteSet({t}) /\ Cardinality({t}) = 1
    BY FS_Singleton, Zenon
  <2>2. 1 <= MaxMappings
    BY SharedMemoryAssumption
  <2> QED  BY <1>10, <2>1, <2>2
<1>12. \A u \in Tasks : view'[r][u] = IF u \in mapped'[r] THEN pages'[r] ELSE <<>>
  <2>1. \A u \in Tasks : view[r][u] = <<>>
    BY <1>0, <1>6 DEF Views
  <2> QED  BY <1>8, <1>10, <2>1, Zenon
<1>13. torn' \in BOOLEAN
  BY <1>0, <1>3 DEF Types
<1>14. StaleOnly'
  BY <1>0, <1>3, Zenon DEF StaleOnly
<1> QED  BY <1>0, <1>3, <1>7, <1>9, <1>10, <1>11, <1>12, <1>13, <1>14, OneRegionStep, Zenon

\* destroy_shared_memory keeps the invariant: the pages go back to the free frames.
LEMMA DestroyInv ==
  ASSUME IInv, NEW t \in Tasks, NEW r \in Regions, destroy_shared_memory(t, r)
  PROVE  IInv'
<1>0. Types /\ Counted /\ UnusedIsEmpty /\ ~ torn /\ Accounted(pages, free) /\ Views
      /\ StaleOnly
  BY DEF IInv, destroy_shared_memory, In
<1>1. /\ live' = [s \in Regions |-> live[s] /\ s \notin {r}]
      /\ creator' = [s \in Regions |-> IF s \in {r} THEN Kernel ELSE creator[s]]
      /\ pages' = [s \in Regions |-> IF s \in {r} THEN <<>> ELSE pages[s]]
      /\ free' = free \cup UNION {ToSet(pages[s]) : s \in {r}}
  BY Zenon DEF destroy_shared_memory, Destroy
<1>2. /\ view' = [view EXCEPT ![r] = NoView] /\ mapped' = [mapped EXCEPT ![r] = {}]
      /\ mapping_count' = [mapping_count EXCEPT ![r] = 0]
      /\ state' = state /\ torn' = torn /\ vm_unmap_pages({r} \X mapped[r])
  BY Zenon DEF destroy_shared_memory
<1>3. /\ Accounted(pages', free') /\ free' \subseteq Frames
      /\ pages' \in [Regions -> Seq(Frames)]
  <2>1. {r} \in SUBSET Regions
    OBVIOUS
  <2> QED  BY <1>0, <1>1, <2>1, Release, Zenon DEF Types
<1>4. NoView \in [Tasks -> Seq(Frames)] /\ \A u \in Tasks : NoView[u] = <<>>
  BY NoPages DEF NoView
<1>5. /\ view' \in [Regions -> [Tasks -> Seq(Frames)]] /\ view'[r] = NoView
      /\ \A s \in Regions \ {r} : view'[s] = view[s]
  BY <1>0, <1>2, <1>4, Zenon DEF Types
<1>6. creator' \in [Regions -> Tasks] /\ live' \in [Regions -> BOOLEAN]
  BY <1>0, <1>1, SharedMemoryAssumption DEF Types
<1>7. OneRegion(r)
  BY <1>0, <1>1, <1>2, <1>5, <1>6, SMTT(30) DEF Types, OneRegion
<1>8. mapped'[r] = {} /\ mapping_count'[r] = 0 /\ ~ live'[r] /\ pages'[r] = <<>>
  BY <1>0, <1>1, <1>2 DEF Types
<1>9. /\ IsFiniteSet(mapped'[r]) /\ mapping_count'[r] = Cardinality(mapped'[r])
      /\ mapping_count'[r] <= MaxMappings
  BY <1>8, FS_EmptySet, SharedMemoryAssumption, SMTT(30)
<1>10. \A u \in Tasks : view'[r][u] = IF u \in mapped'[r] THEN pages'[r] ELSE <<>>
  BY <1>4, <1>5, <1>8
<1>11. torn' \in BOOLEAN
  BY <1>0, <1>2 DEF Types
<1>12. StaleOnly'
  BY <1>0, <1>2, UnmapFacts, Zenon DEF Types
<1> QED  BY <1>0, <1>2, <1>3, <1>7, <1>8, <1>9, <1>10, <1>11, <1>12, OneRegionStep, Zenon

\* map_shared_memory and unmap_shared_memory keep the invariant: the counter
\* follows the mappings.
LEMMA MapInv ==
  ASSUME IInv, NEW t \in Tasks, NEW r \in Regions,
         map_shared_memory(t, r) \/ unmap_shared_memory(t, r)
  PROVE  IInv'
<1>0. Types /\ Counted /\ UnusedIsEmpty /\ ~ torn /\ Accounted(pages, free) /\ Views
      /\ StaleOnly
  BY DEF IInv, map_shared_memory, unmap_shared_memory, In
<1>1. /\ live' = live /\ creator' = creator /\ pages' = pages /\ free' = free
      /\ state' = state /\ torn' = torn /\ live[r]
  BY DEF map_shared_memory, unmap_shared_memory
<1>2. IsFiniteSet(mapped[r]) /\ mapping_count[r] = Cardinality(mapped[r]) /\ mapping_count[r] \in Int
  BY <1>0 DEF Counted, Types
<1>3. \E M \in SUBSET Tasks, c \in Int, v \in Seq(Frames) :
        /\ view' = [view EXCEPT ![r][t] = v] /\ mapped' = [mapped EXCEPT ![r] = M]
        /\ mapping_count' = [mapping_count EXCEPT ![r] = c]
        /\ IsFiniteSet(M) /\ c = Cardinality(M) /\ c <= MaxMappings
        /\ v = (IF t \in M THEN pages[r] ELSE <<>>)
        /\ \A u \in Tasks \ {t} : u \in M <=> u \in mapped[r]
  <2>1. CASE map_shared_memory(t, r)
    <3> DEFINE M == mapped[r] \cup {t}
               c == mapping_count[r] + 1
    <3>1. /\ t \notin mapped[r] /\ mapping_count[r] < MaxMappings
          /\ view' = [view EXCEPT ![r][t] = pages[r]] /\ mapped' = [mapped EXCEPT ![r] = M]
          /\ mapping_count' = [mapping_count EXCEPT ![r] = c]
      BY <2>1 DEF map_shared_memory
    <3>2. IsFiniteSet(M) /\ c = Cardinality(M)
      BY <1>2, <3>1, FS_AddElement, Zenon
    <3>3. c \in Int /\ c <= MaxMappings
      BY <1>2, <3>1, SharedMemoryAssumption
    <3>4. M \in SUBSET Tasks /\ t \in M /\ \A u \in Tasks \ {t} : u \in M <=> u \in mapped[r]
      BY <1>0 DEF Types
    <3>5. pages[r] \in Seq(Frames)
      BY <1>0 DEF Types
    <3> HIDE DEF M, c
    <3> QED  BY <3>1, <3>2, <3>3, <3>4, <3>5, Zenon
  <2>2. CASE unmap_shared_memory(t, r)
    <3> DEFINE M == mapped[r] \ {t}
               c == mapping_count[r] - 1
    <3>1. /\ t \in mapped[r]
          /\ view' = [view EXCEPT ![r][t] = <<>>] /\ mapped' = [mapped EXCEPT ![r] = M]
          /\ mapping_count' = [mapping_count EXCEPT ![r] = c]
      BY <2>2 DEF unmap_shared_memory
    <3>2. IsFiniteSet(M) /\ c = Cardinality(M)
      BY <1>2, <3>1, FS_RemoveElement
    <3>3. c \in Int /\ c <= MaxMappings
      BY <1>0, <1>2, SharedMemoryAssumption DEF Counted
    <3>4. M \in SUBSET Tasks /\ t \notin M /\ \A u \in Tasks \ {t} : u \in M <=> u \in mapped[r]
      BY <1>0 DEF Types
    <3>5. <<>> \in Seq(Frames)
      BY NoPages
    <3> HIDE DEF M, c
    <3> QED  BY <3>1, <3>2, <3>3, <3>4, <3>5, Zenon
  <2> QED  BY <2>1, <2>2
<1>4. PICK M \in SUBSET Tasks, c \in Int, v \in Seq(Frames) :
        /\ view' = [view EXCEPT ![r][t] = v] /\ mapped' = [mapped EXCEPT ![r] = M]
        /\ mapping_count' = [mapping_count EXCEPT ![r] = c]
        /\ IsFiniteSet(M) /\ c = Cardinality(M) /\ c <= MaxMappings
        /\ v = (IF t \in M THEN pages[r] ELSE <<>>)
        /\ \A u \in Tasks \ {t} : u \in M <=> u \in mapped[r]
  BY <1>3, Zenon
<1>5. /\ view' \in [Regions -> [Tasks -> Seq(Frames)]] /\ view'[r][t] = v
      /\ \A u \in Tasks \ {t} : view'[r][u] = view[r][u]
      /\ \A s \in Regions \ {r} : view'[s] = view[s]
  BY <1>0, <1>4, Zenon DEF Types
<1>6. OneRegion(r)
  BY <1>0, <1>1, <1>4, <1>5, Zenon DEF Types, OneRegion
<1>7. mapped'[r] = M /\ mapping_count'[r] = c
  BY <1>0, <1>4 DEF Types
<1>8. /\ IsFiniteSet(mapped'[r]) /\ mapping_count'[r] = Cardinality(mapped'[r])
      /\ mapping_count'[r] <= MaxMappings
  BY <1>4, <1>7
<1>9. \A u \in Tasks : view'[r][u] = IF u \in mapped'[r] THEN pages'[r] ELSE <<>>
  BY <1>0, <1>1, <1>4, <1>5, <1>7, SMTT(30) DEF Views
<1>10. Accounted(pages', free') /\ pages' \in [Regions -> Seq(Frames)] /\ free' \subseteq Frames
  BY <1>0, <1>1, Zenon DEF Types
<1>11. torn' \in BOOLEAN /\ live'[r]
  BY <1>0, <1>1, Zenon DEF Types
<1>12. StaleOnly'
  <2>1. CASE map_shared_memory(t, r)
    BY <1>0, <2>1, Zenon DEF map_shared_memory, StaleOnly
  <2>2. CASE unmap_shared_memory(t, r)
    <3>1. vm_unmap_pages({<<r, t>>})
      BY <2>2 DEF unmap_shared_memory
    <3> QED  BY <1>0, <3>1, UnmapFacts, Zenon DEF Types
  <2> QED  BY <2>1, <2>2
<1> QED  BY <1>0, <1>1, <1>6, <1>8, <1>9, <1>10, <1>11, <1>12, OneRegionStep, Zenon

\* A step that changes no region, view, frame or task keeps the invariant.
LEMMA NothingChanges ==
  ASSUME IInv, UNCHANGED <<live, creator, pages, mapped, mapping_count, free, view, stale, torn>>,
         state' \in [Tasks -> {"alive", "dead", "gone"}]
  PROVE  IInv'
<1>1. Types'
  BY DEF IInv, Types
<1>2. Counted' /\ UnusedIsEmpty' /\ StaleOnly'
  BY Zenon DEF IInv, Counted, UnusedIsEmpty, StaleOnly
<1>3. ~ torn' => Accounted(pages, free)' /\ Views'
  BY Zenon DEF IInv, Accounted, Views
<1> QED  BY <1>1, <1>2, <1>3 DEF IInv

\* A region that grows keeps the invariant, unless an address space could not
\* be expanded and nobody was told.
LEMMA GrowInv ==
  ASSUME IInv, NEW t \in Tasks, NEW r \in Regions, NEW n \in Int, Grow(t, r, n)
  PROVE  IInv'
<1>0. Types /\ Counted /\ UnusedIsEmpty /\ ~ torn /\ Accounted(pages, free) /\ Views
      /\ StaleOnly
  BY Zenon DEF IInv, Grow, MayResize, In
<1>1. /\ live' = live /\ creator' = creator /\ mapped' = mapped
      /\ mapping_count' = mapping_count /\ state' = state /\ live[r] /\ n > Len(pages[r])
      /\ stale' = stale
  BY Zenon DEF Grow, MayResize
<1>2. PICK p \in Allocations(n - Len(pages[r])), F \in SUBSET Tasks :
        /\ pages' = [pages EXCEPT ![r] = @ \o p] /\ free' = free \ ToSet(p)
        /\ view' = [view EXCEPT ![r] =
                      [u \in Tasks |-> IF u \in mapped[r] \ F THEN @[u] \o p ELSE @[u]]]
        /\ torn' = (torn \/ F # {})
  <2>1. (IF ExpandMayFail THEN mapped[r] ELSE {}) \subseteq Tasks
    BY <1>0 DEF Types
  <2> QED  BY <2>1, Zenon DEF Grow
<1>3. pages[r] \in Seq(Frames) /\ n - Len(pages[r]) \in Nat
  BY <1>0, <1>1, SMTT(30) DEF Types
<1>4. p \in Seq(Frames) /\ IsInjective(p) /\ ToSet(p) \subseteq free
  BY <1>0, <1>3, AllocationFacts, Zenon DEF Types
<1>5. PICK q : q = pages[r] \o p
  BY Zenon
<1>6. q \in Seq(Frames) /\ IsInjective(q) /\ ToSet(q) = ToSet(pages[r]) \cup ToSet(p)
  <2>1. IsInjective(pages[r]) /\ ToSet(pages[r]) \cap ToSet(p) = {}
    BY <1>0, <1>4 DEF Accounted
  <2> QED  BY <1>3, <1>4, <1>5, <2>1, ConcatFacts, SMTT(30)
<1>7. pages' = [pages EXCEPT ![r] = q]
  BY <1>2, <1>5, Zenon
<1>8. /\ Accounted(pages', free') /\ free' \subseteq Frames
      /\ pages' \in [Regions -> Seq(Frames)]
  <2>1. \A x \in ToSet(pages[r]) : x \notin free
    BY <1>0 DEF Accounted
  <2>2. free' = (free \cup ToSet(pages[r])) \ ToSet(q)
    BY <1>2, <1>6, <2>1, Zenon
  <2>3. ToSet(q) \subseteq ToSet(pages[r]) \cup free
    BY <1>4, <1>6
  <2> QED  BY <1>0, <1>6, <1>7, <2>2, <2>3, Exchange, Zenon DEF Types
<1>9. PICK v : v = [u \in Tasks |-> IF u \in mapped[r] \ F THEN view[r][u] \o p ELSE view[r][u]]
  BY Zenon
<1>10. v \in [Tasks -> Seq(Frames)]
  <2>1. ASSUME NEW u \in Tasks PROVE v[u] \in Seq(Frames)
    <3>1. view[r][u] \in Seq(Frames)
      BY <1>0, Zenon DEF Types
    <3>2. view[r][u] \o p \in Seq(Frames)
      BY <1>4, <3>1
    <3> QED  BY <1>9, <3>1, <3>2, Zenon
  <2> QED  BY <1>9, <2>1, Zenon
<1>11. view' = [view EXCEPT ![r] = v]
  BY <1>2, <1>9, Zenon
<1>12. OneRegion(r)
  BY <1>0, <1>1, <1>7, <1>10, <1>11, Zenon DEF Types, OneRegion
<1>13. /\ IsFiniteSet(mapped'[r]) /\ mapping_count'[r] = Cardinality(mapped'[r])
       /\ mapping_count'[r] <= MaxMappings
  BY <1>0, <1>1, Zenon DEF Counted
<1>14. ASSUME ~ torn', NEW u \in Tasks
       PROVE  view'[r][u] = IF u \in mapped'[r] THEN pages'[r] ELSE <<>>
  <2>1. F = {}
    BY <1>2, <1>14, Zenon
  <2>2. view'[r][u] = v[u] /\ pages'[r] = q
    BY <1>0, <1>7, <1>11, Zenon DEF Types
  <2>3. view[r][u] = IF u \in mapped[r] THEN pages[r] ELSE <<>>
    BY <1>0, Zenon DEF Views
  <2> QED  BY <1>1, <1>5, <1>9, <2>1, <2>2, <2>3, Zenon
<1>15. torn' \in BOOLEAN /\ live'[r]
  BY <1>0, <1>1, <1>2, Zenon
<1>16. StaleOnly'
  BY <1>0, <1>1, Zenon DEF StaleOnly
<1> QED  BY <1>0, <1>1, <1>8, <1>12, <1>13, <1>14, <1>15, <1>16, OneRegionStep, Zenon

\* A growth that fails gives back all it took.
LEMMA GrowFailsInv ==
  ASSUME IInv, NEW t \in Tasks, NEW r \in Regions, NEW n \in Int, GrowFails(t, r, n)
  PROVE  IInv'
<1>0. Types
  BY DEF IInv
<1>1. PICK p \in Allocations(n - Len(pages[r])) : free' = (free \ ToSet(p)) \cup ToSet(p)
  BY DEF GrowFails, free_physical_pages
<1>2. n - Len(pages[r]) \in Nat
  BY <1>0 DEF Types, GrowFails
<1>3. ToSet(p) \subseteq free
  BY <1>0, <1>2, AllocationFacts, Zenon DEF Types
<1>4. free' = free
  BY <1>1, <1>3
<1>5. UNCHANGED <<live, creator, pages, mapped, mapping_count, view, stale, torn, state>>
  BY DEF GrowFails, regionVars
<1> QED  BY <1>0, <1>4, <1>5, NothingChanges, Zenon DEF Types

\* A region that shrinks keeps the invariant, unless the smaller array could
\* not be allocated.
LEMMA ShrinkInv ==
  ASSUME IInv, NEW t \in Tasks, NEW r \in Regions, NEW n \in Nat, Shrink(t, r, n)
  PROVE  IInv'
<1>0. Types /\ Counted /\ UnusedIsEmpty /\ ~ torn /\ Accounted(pages, free) /\ Views
      /\ StaleOnly
  BY Zenon DEF IInv, Shrink, MayResize, In
<1>1. /\ live' = live /\ creator' = creator /\ mapped' = mapped
      /\ mapping_count' = mapping_count /\ state' = state /\ live[r] /\ n < Len(pages[r])
      /\ view' = [view EXCEPT ![r] = [u \in Tasks |-> LoseBeyond(@[u], n)]]
      /\ free' = free \cup ToSet(SubSeq(pages[r], n + 1, Len(pages[r])))
      /\ vm_unmap_pages({r} \X mapped[r])
  BY Zenon DEF Shrink, MayResize, free_physical_pages
<1>2. PICK q : q = SubSeq(pages[r], 1, n)
  BY Zenon
<1>3. \/ pages' = [pages EXCEPT ![r] = q] /\ torn' = torn
      \/ torn' = TRUE /\ pages' = pages
  BY <1>2 DEF Shrink
<1>4. /\ pages[r] \in Seq(Frames) /\ n \in 0 .. Len(pages[r]) /\ IsInjective(pages[r])
      /\ \A x \in ToSet(pages[r]) : x \notin free
  BY <1>0, <1>1, SMTT(30) DEF Types, Accounted
<1>5. /\ q \in Seq(Frames) /\ IsInjective(q) /\ ToSet(q) \subseteq ToSet(pages[r])
      /\ ToSet(SubSeq(pages[r], n + 1, Len(pages[r]))) = ToSet(pages[r]) \ ToSet(q)
  BY <1>2, <1>4, CutFacts
<1>6. free' = (free \cup ToSet(pages[r])) \ ToSet(q) /\ free' \subseteq Frames
  <2>1. free' = free \cup (ToSet(pages[r]) \ ToSet(q))
    BY <1>1, <1>5, Zenon
  <2>2. ToSet(pages[r]) \subseteq Frames /\ free \subseteq Frames
    BY <1>0, <1>4, Members, Zenon DEF Types
  <2> QED  BY <1>4, <1>5, <2>1, <2>2, Zenon
<1>7. /\ ~ torn' => Accounted(pages', free')
      /\ pages' \in [Regions -> Seq(Frames)]
  <2>1. CASE pages' = [pages EXCEPT ![r] = q]
    BY <1>0, <1>5, <1>6, <2>1, Exchange, Zenon DEF Types
  <2>2. CASE torn' = TRUE /\ pages' = pages
    BY <1>0, <2>2 DEF Types
  <2> QED  BY <1>3, <2>1, <2>2, Zenon
<1>8. PICK v : v = [u \in Tasks |-> LoseBeyond(view[r][u], n)]
  BY Zenon
<1>9. v \in [Tasks -> Seq(Frames)]
  <2>1. ASSUME NEW u \in Tasks PROVE v[u] \in Seq(Frames)
    <3>1. PICK w \in Seq(Frames) : w = view[r][u]
      BY <1>0 DEF Types
    <3>2. v[u] = LoseBeyond(w, n)
      BY <1>8, <3>1
    <3>3. LoseBeyond(w, n) \in Seq(Frames)
      BY DEF LoseBeyond
    <3> QED  BY <3>2, <3>3
  <2> QED  BY <1>8, <2>1
<1>10. view' = [view EXCEPT ![r] = v]
  BY <1>1, <1>8
<1>11. \A s \in Regions \ {r} : pages'[s] = pages[s]
  BY <1>0, <1>3, Zenon DEF Types
<1>12. OneRegion(r)
  BY <1>0, <1>1, <1>9, <1>10, <1>11, Zenon DEF Types, OneRegion
<1>13. /\ IsFiniteSet(mapped'[r]) /\ mapping_count'[r] = Cardinality(mapped'[r])
       /\ mapping_count'[r] <= MaxMappings
  BY <1>0, <1>1, Zenon DEF Counted
<1>14. ASSUME ~ torn', NEW u \in Tasks
       PROVE  view'[r][u] = IF u \in mapped'[r] THEN pages'[r] ELSE <<>>
  <2>1. view'[r][u] = LoseBeyond(view[r][u], n)
    BY <1>0, <1>8, <1>10 DEF Types
  <2>2. pages'[r] = q
    BY <1>0, <1>3, <1>14 DEF Types
  <2>3. CASE u \in mapped[r]
    <3>1. view[r][u] = pages[r]
      BY <1>0, <2>3 DEF Views
    <3>2. LoseBeyond(pages[r], n) = q
      BY <1>1, <1>2, Zenon DEF LoseBeyond
    <3> QED  BY <1>1, <2>1, <2>2, <2>3, <3>1, <3>2, Zenon
  <2>4. CASE u \notin mapped[r]
    <3>1. view[r][u] = <<>>
      BY <1>0, <2>4, Zenon DEF Views
    <3>2. LoseBeyond(<<>>, n) = <<>>
      BY DEF LoseBeyond
    <3> QED  BY <1>1, <2>1, <2>4, <3>1, <3>2, Zenon
  <2> QED  BY <2>3, <2>4, Zenon
<1>15. torn' \in BOOLEAN /\ live'[r]
  BY <1>0, <1>1, <1>3, Zenon DEF Types
<1>16. StaleOnly'
  BY <1>0, <1>1, UnmapFacts, Zenon DEF Types
<1> QED  BY <1>0, <1>1, <1>6, <1>7, <1>12, <1>13, <1>14, <1>15, <1>16, OneRegionStep, Zenon

\* The mappings that a task leaves behind are counted.
LEMMA LeftFacts ==
  ASSUME Counted, NEW r \in Regions, NEW t
  PROVE  /\ IsFiniteSet(mapped[r] \ {t}) /\ MappingsLeft(r, t) = Cardinality(mapped[r] \ {t})
         /\ MappingsLeft(r, t) \in Nat /\ MappingsLeft(r, t) <= MaxMappings
         /\ MappingsLeft(r, t) = 0 <=> mapped[r] \ {t} = {}
<1>0. /\ IsFiniteSet(mapped[r]) /\ mapping_count[r] = Cardinality(mapped[r])
      /\ mapping_count[r] <= MaxMappings
  BY Zenon DEF Counted
<1>1. Cardinality(mapped[r]) \in Nat /\ MaxMappings \in Nat
  BY <1>0, FS_CardinalityType, SharedMemoryAssumption
<1>2. IsFiniteSet(mapped[r] \ {t}) /\ MappingsLeft(r, t) = Cardinality(mapped[r] \ {t})
  <2>1. CASE t \in mapped[r]
    <3>1. IsFiniteSet(mapped[r] \ {t}) /\ Cardinality(mapped[r] \ {t}) = Cardinality(mapped[r]) - 1
      BY <1>0, <2>1, FS_RemoveElement, Zenon
    <3> QED  BY <1>0, <2>1, <3>1 DEF MappingsLeft
  <2>2. CASE t \notin mapped[r]
    <3>1. mapped[r] \ {t} = mapped[r]
      BY <2>2
    <3>2. MappingsLeft(r, t) = mapping_count[r]
      BY <1>0, <1>1, <2>2, SMTT(30) DEF MappingsLeft
    <3> QED  BY <1>0, <3>1, <3>2, Zenon
  <2> QED  BY <2>1, <2>2
<1>3. MappingsLeft(r, t) \in Nat /\ (MappingsLeft(r, t) = 0 <=> mapped[r] \ {t} = {})
  BY <1>2, FS_CardinalityType, FS_EmptySet, Zenon
<1>4. MappingsLeft(r, t) <= MaxMappings
  BY <1>0, <1>1, SMTT(30) DEF MappingsLeft
<1> QED  BY <1>2, <1>3, <1>4, Zenon

\* cleanup_task_shared_memory keeps the invariant: what it destroys nobody has
\* mapped any more.
LEMMA CleanupInv ==
  ASSUME IInv, NEW t \in Tasks, cleanup_task_shared_memory(t)
  PROVE  IInv'
<1>0. Types /\ Counted /\ UnusedIsEmpty /\ ~ torn /\ Accounted(pages, free) /\ Views
      /\ StaleOnly
  BY Zenon DEF IInv, cleanup_task_shared_memory, In
<1>1. PICK R : R = Orphaned(t)
  OBVIOUS
<1>2. /\ view' = [r \in Regions |-> [view[r] EXCEPT ![t] = <<>>]]
      /\ mapped' = [r \in Regions |-> mapped[r] \ {t}]
      /\ mapping_count' = [r \in Regions |-> MappingsLeft(r, t)]
      /\ live' = [r \in Regions |-> live[r] /\ r \notin R]
      /\ creator' = [r \in Regions |-> IF r \in R THEN Kernel ELSE creator[r]]
      /\ pages' = [r \in Regions |-> IF r \in R THEN <<>> ELSE pages[r]]
      /\ free' = free \cup UNION {ToSet(pages[r]) : r \in R}
      /\ state' = [state EXCEPT ![t] = "gone"] /\ torn' = torn
      /\ vm_unmap_pages({r \in Regions : t \in mapped[r]} \X {t})
  BY <1>1, Zenon DEF cleanup_task_shared_memory, Destroy
<1>3. R \in SUBSET Regions /\ \A r \in R : mapped[r] \ {t} = {}
  BY <1>0, <1>1, LeftFacts, Zenon DEF Orphaned
<1>4. /\ Accounted(pages', free') /\ free' \subseteq Frames
      /\ pages' \in [Regions -> Seq(Frames)]
  BY <1>0, <1>2, <1>3, Release, Zenon DEF Types
<1>5. Counted'
  <2> SUFFICES ASSUME NEW r \in Regions
               PROVE  /\ IsFiniteSet(mapped'[r]) /\ mapping_count'[r] = Cardinality(mapped'[r])
                      /\ mapping_count'[r] <= MaxMappings
    BY Zenon DEF Counted
  <2>1. mapped'[r] = mapped[r] \ {t} /\ mapping_count'[r] = MappingsLeft(r, t)
    BY <1>2, Zenon
  <2> QED  BY <1>0, <2>1, LeftFacts, SMTT(30)
<1>6. UnusedIsEmpty'
  <2> SUFFICES ASSUME NEW r \in Regions, ~ live'[r]
               PROVE  pages'[r] = <<>> /\ mapped'[r] = {}
    BY DEF UnusedIsEmpty
  <2>1. CASE r \in R
    BY <1>2, <1>3, <2>1, Zenon
  <2>2. CASE r \notin R
    <3>1. ~ live[r]
      BY <1>2, <2>2, Zenon
    <3>2. pages[r] = <<>> /\ mapped[r] = {}
      BY <1>0, <3>1 DEF UnusedIsEmpty
    <3> QED  BY <1>2, <2>2, <3>2, Zenon
  <2> QED  BY <2>1, <2>2
<1>7. \A r \in Regions : /\ view'[r] \in [Tasks -> Seq(Frames)] /\ view'[r][t] = <<>>
                         /\ \A u \in Tasks \ {t} : view'[r][u] = view[r][u]
  <2> TAKE r \in Regions
  <2>1. view'[r] = [view[r] EXCEPT ![t] = <<>>]
    BY <1>2, Zenon
  <2>2. view[r] \in [Tasks -> Seq(Frames)] /\ <<>> \in Seq(Frames)
    BY <1>0, NoPages DEF Types
  <2> QED  BY <2>1, <2>2, Zenon
<1>8. Views'
  <2> SUFFICES ASSUME NEW r \in Regions, NEW u \in Tasks
               PROVE  view'[r][u] = IF u \in mapped'[r] THEN pages'[r] ELSE <<>>
    BY DEF Views
  <2>1. mapped'[r] = mapped[r] \ {t}
    BY <1>2, Zenon
  <2>2. CASE u = t
    BY <1>7, <2>1, <2>2, Zenon
  <2>3. CASE u # t
    <3>1. view'[r][u] = IF u \in mapped[r] THEN pages[r] ELSE <<>>
      BY <1>0, <1>7, <2>3, Zenon DEF Views
    <3>2. u \in mapped[r] => r \notin R
      BY <1>3, <2>3, SMTT(30)
    <3>3. r \notin R => pages'[r] = pages[r]
      BY <1>2, Zenon
    <3> QED  BY <2>1, <2>3, <3>1, <3>2, <3>3, Zenon
  <2> QED  BY <2>2, <2>3
<1>9. Types'
  <2>1. mapping_count' \in [Regions -> Int]
    <3>1. \A r \in Regions : MappingsLeft(r, t) \in Nat
      BY <1>0, LeftFacts, Zenon
    <3> QED  BY <1>2, <3>1, SMTT(30)
  <2>2. view' \in [Regions -> [Tasks -> Seq(Frames)]]
    BY <1>2, <1>7, Zenon
  <2>3. mapped' \in [Regions -> SUBSET Tasks]
    BY <1>0, <1>2, Zenon DEF Types
  <2>4. live' \in [Regions -> BOOLEAN] /\ creator' \in [Regions -> Tasks]
    BY <1>0, <1>2, SharedMemoryAssumption, Zenon DEF Types
  <2>5. state' \in [Tasks -> {"alive", "dead", "gone"}] /\ torn' \in BOOLEAN
    BY <1>0, <1>2, Zenon DEF Types
  <2> QED  BY <1>4, <2>1, <2>2, <2>3, <2>4, <2>5 DEF Types
<1>10. Accounted(pages, free)'
  BY <1>4
<1>11. StaleOnly'
  BY <1>0, <1>2, UnmapFacts, Zenon DEF Types
<1> QED  BY <1>5, <1>6, <1>8, <1>9, <1>10, <1>11 DEF IInv

\* Every step of the system keeps the invariant.
LEMMA NextStep ==
  ASSUME IInv, [Next]_vars
  PROVE  IInv'
<1>1. CASE UNCHANGED vars
  BY <1>1, NothingChanges, Zenon DEF vars, regionVars, IInv, Types
<1>2. ASSUME NEW t \in Tasks, terminate_task(t) PROVE IInv'
  BY <1>2, NothingChanges, Zenon DEF terminate_task, regionVars, IInv, Types
<1>3. ASSUME NEW t \in Tasks, NEW n \in 0 .. Cardinality(Frames),
             create_shared_memory(t, n)
      PROVE  IInv'
  BY <1>3, CreateInv
<1>4. ASSUME NEW t \in Tasks, NEW r \in Regions,
             \/ destroy_shared_memory(t, r) \/ map_shared_memory(t, r)
             \/ unmap_shared_memory(t, r)
      PROVE  IInv'
  BY <1>4, DestroyInv, MapInv
<1>5. ASSUME NEW t \in Tasks, NEW r \in Regions, NEW n \in 0 .. Cardinality(Frames),
             Grow(t, r, n) \/ GrowFails(t, r, n) \/ Shrink(t, r, n)
      PROVE  IInv'
  <2>1. n \in Int /\ n \in Nat
    OBVIOUS
  <2> QED  BY <1>5, <2>1, GrowInv, GrowFailsInv, ShrinkInv, Zenon
<1>6. ASSUME NEW t \in Tasks, cleanup_task_shared_memory(t) PROVE IInv'
  BY <1>6, CleanupInv
<1> QED  BY <1>1, <1>2, <1>3, <1>4, <1>5, <1>6, Zenon DEF Next

\* Only cleanup_task_shared_memory makes a task "gone", and of its regions it
\* leaves those that another task has mapped.
LEMMA GoneStep ==
  ASSUME IInv, [Next]_vars, NEW t \in Tasks, state[t] = "dead", state'[t] = "gone",
         NEW r \in Regions
  PROVE  /\ t \notin mapped'[r]
         /\ live'[r] /\ creator'[r] = t => mapped'[r] # {}
<1>0. Types /\ Counted
  BY Zenon DEF IInv
<1>1. state' # state
  OBVIOUS
<1>2. PICK u \in Tasks : terminate_task(u) \/ cleanup_task_shared_memory(u)
  <2>1. Next
    BY <1>1 DEF vars
  <2>2. PICK u \in Tasks :
          \/ terminate_task(u) \/ cleanup_task_shared_memory(u)
          \/ \E n \in 0 .. Cardinality(Frames) : create_shared_memory(u, n)
          \/ \E s \in Regions :
               \/ destroy_shared_memory(u, s) \/ map_shared_memory(u, s)
               \/ unmap_shared_memory(u, s)
               \/ \E n \in 0 .. Cardinality(Frames) :
                    Grow(u, s, n) \/ GrowFails(u, s, n) \/ Shrink(u, s, n)
    BY <2>1, Zenon DEF Next
  <2>3. \A n : create_shared_memory(u, n) => state' = state
    BY DEF create_shared_memory
  <2>4. \A s : /\ destroy_shared_memory(u, s) => state' = state
               /\ map_shared_memory(u, s) => state' = state
               /\ unmap_shared_memory(u, s) => state' = state
    BY Zenon DEF destroy_shared_memory, map_shared_memory, unmap_shared_memory
  <2>5. \A s, n : /\ Grow(u, s, n) => state' = state
                  /\ GrowFails(u, s, n) => state' = state
                  /\ Shrink(u, s, n) => state' = state
    BY Zenon DEF Grow, GrowFails, Shrink
  <2> QED  BY <1>1, <2>2, <2>3, <2>4, <2>5, Zenon
<1>3. cleanup_task_shared_memory(u) /\ u = t
  <2>1. CASE terminate_task(u)
    <3>1. state' = [state EXCEPT ![u] = "dead"]
      BY <2>1 DEF terminate_task
    <3>2. state'[t] = "dead"
      BY <1>0, <3>1 DEF Types
    <3> QED  BY <3>2
  <2>2. CASE cleanup_task_shared_memory(u)
    <3>1. state' = [state EXCEPT ![u] = "gone"]
      BY <2>2, Zenon DEF cleanup_task_shared_memory
    <3> QED  BY <1>0, <2>2, <3>1 DEF Types
  <2> QED  BY <1>2, <2>1, <2>2
<1>4. /\ mapped'[r] = mapped[r] \ {t}
      /\ live'[r] => live[r] /\ r \notin Orphaned(t)
      /\ r \notin Orphaned(t) => creator'[r] = creator[r]
  BY <1>3, Zenon DEF cleanup_task_shared_memory, Destroy
<1>5. ASSUME live'[r], creator'[r] = t PROVE mapped'[r] # {}
  <2>1. live[r] /\ creator[r] = t /\ r \notin Orphaned(t)
    BY <1>4, <1>5, Zenon
  <2>2. MappingsLeft(r, t) # 0
    BY <2>1 DEF Orphaned
  <2> QED  BY <1>0, <1>4, <2>2, LeftFacts, Zenon
<1> QED  BY <1>4, <1>5, Zenon

\* The invariant holds in every state the shared memory code reaches.
LEMMA InductiveInvariant == Spec => []IInv
BY InitHolds, NextStep, PTL DEF Spec

\* The state is well typed, and a region never has more mappings than its
\* array has entries (map_shared_memory).
THEOREM SharedMemoryTypes == Spec => []TypeOK
<1>1. IInv => TypeOK
  BY InvariantImplies
<1> QED  BY InductiveInvariant, <1>1, PTL

\* Creations, resizes that succeed or fail, destructions and clean-ups neither
\* lose a frame nor give one to two regions, until a resize has been torn
\* (resize_shared_memory).
THEOREM SharedMemoryKeepsFrames == Spec => []FramesAccounted
<1>1. IInv => FramesAccounted
  BY InvariantImplies
<1> QED  BY InductiveInvariant, <1>1, PTL

\* Through a region the tasks that have it mapped see its pages and nobody else
\* sees any, until a resize has been torn; elsewhere only tasks for which an
\* unmapping may fail see pages; and mapping_count is the number of mappings
\* (map_shared_memory, unmap_shared_memory, resize_shared_memory,
\* destroy_shared_memory, cleanup_task_shared_memory).
THEOREM SharedMemoryViewsAgree == Spec => []ViewsAgree
<1>1. IInv => ViewsAgree
  BY InvariantImplies
<1> QED  BY InductiveInvariant, <1>1, PTL

\* A task that has been cleaned up after has no mapping left, and owns only
\* regions that another task still has mapped (cleanup_task_shared_memory).
THEOREM SharedMemoryLeavesNothingUnshared == Spec => NothingLeftUnshared
<1>1. IInv /\ [Next]_vars =>
        [\A t \in Tasks : state[t] = "dead" /\ state'[t] = "gone" =>
           \A r \in Regions : /\ t \notin mapped'[r]
                              /\ live'[r] /\ creator'[r] = t => mapped'[r] # {}]_vars
  BY GoneStep, Zenon
<1> QED  BY <1>1, InductiveInvariant, PTL DEF Spec, NothingLeftUnshared

=============================================================================
