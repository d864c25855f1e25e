---------------------------- MODULE SharedMemory ----------------------------
(***************************************************************************)
(* The shared memory regions of kernel/shared_memory.c (up to              *)
(* init_shared_memory_subsystem; the text after it repeats parts of the    *)
(* file out of place).  No call blocks, so each is one action.             *)
(*                                                                         *)
(* The frame allocator (allocate_physical_page, free_physical_page) and    *)
(* the address spaces (vm_map_physical_pages, vm_expand_mapping,           *)
(* vm_unmap_pages) are not in the tree.  The allocator is taken to hand    *)
(* out any free frame; an address space is, for each region, the frames    *)
(* that a task sees there in order, and the frames it still sees where an  *)
(* unmapping has failed.  Names, permissions, fixed addresses and the      *)
(* access counter are left out.                                            *)
(***************************************************************************)
EXTENDS SequencesExt

CONSTANTS Tasks,
          Kernel,        \* the task that runs init_shared_memory_system
          Regions,       \* slots of shm_pool, 1 .. n
          Frames,        \* the physical pages
          Boot,          \* pages of the first regions: <<4, 2>> in the code
          MaxPages,      \* size limit of a region, in pages
          MaxMappings,   \* MAX_MAPPINGS_PER_REGION
          MallocMayFail, \* may kmalloc fail?
          ExpandMayFail, \* may vm_expand_mapping fail?
          Sticky         \* the tasks for which vm_unmap_pages may fail

ASSUME SharedMemoryAssumption ==
  /\ Kernel \in Tasks
  /\ Regions \subseteq Nat \ {0}
  /\ Boot \in Seq(Nat) /\ DOMAIN Boot \subseteq Regions
  /\ MaxPages \in Nat /\ MaxMappings \in Nat \ {0}
  /\ MallocMayFail \in BOOLEAN /\ ExpandMayFail \in BOOLEAN
  /\ Sticky \subseteq Tasks

VARIABLES live,          \* header.type is IPC_TYPE_SHARED_MEMORY
          creator,
          pages,         \* the array, as far as page_count
          mapped,        \* the tasks with an active entry in mappings
          mapping_count,
          free,          \* the frames that the allocator may hand out
          view,          \* the frames that a task sees through a region
          stale,         \* those it sees where an unmapping has failed
          state,         \* of a task: "alive", "dead" or "gone" (cleaned up)
          torn           \* a resize has failed half way (history)

regionVars == <<live, creator, pages, mapped, mapping_count>>

vars == <<regionVars, free, view, stale, state, torn>>

NoView == [t \in Tasks |-> <<>>]

\* allocate_physical_pages(n) when it succeeds; when kmalloc or a frame is
\* wanting it gives back the frames it took.
Allocations(n) == {p \in [1 .. n -> free] : IsInjective(p)}

\* vm_unmap_pages, for pairs P of a region and a task: where it fails the task
\* goes on seeing what leaves its view.  Only unmap_shared_memory passes the
\* error on, and all the callers proceed as if there were none.
vm_unmap_pages(P) ==
  \E F \in SUBSET {x \in P : x[2] \in Sticky} :
    stale' = [u \in Tasks |->
                stale[u] \cup UNION {ToSet(view[r][u]) \ ToSet(view'[r][u]) :
                                       r \in {s \in Regions : <<s, u>> \in F}}]

\* free_physical_pages
free_physical_pages(f, p) == f \cup ToSet(p)

BootPages == {p \in [DOMAIN Boot -> UNION {[1 .. n -> Frames] : n \in ToSet(Boot)}] :
                /\ \A r \in DOMAIN Boot : DOMAIN p[r] = 1 .. Boot[r] /\ IsInjective(p[r])
                /\ \A r, s \in DOMAIN Boot : r # s => ToSet(p[r]) \cap ToSet(p[s]) = {}}

Init ==
  /\ \E p \in BootPages :
       /\ pages = [r \in Regions |-> IF r \in DOMAIN Boot THEN p[r] ELSE <<>>]
       /\ free = Frames \ UNION {ToSet(p[r]) : r \in DOMAIN Boot}
       /\ view = [r \in Regions |->
                    [NoView EXCEPT ![Kernel] = IF r \in DOMAIN Boot THEN p[r] ELSE <<>>]]
  /\ live = [r \in Regions |-> r \in DOMAIN Boot]
  /\ creator = [r \in Regions |-> Kernel]
  /\ mapped = [r \in Regions |-> IF r \in DOMAIN Boot THEN {Kernel} ELSE {}]
  /\ mapping_count = [r \in Regions |-> IF r \in DOMAIN Boot THEN 1 ELSE 0]
  /\ stale = [t \in Tasks |-> {}]
  /\ state = [t \in Tasks |-> "alive"]
  /\ torn = FALSE

\* After a torn resize the region lists frames that the allocator has back;
\* what that does with a frame freed twice is not known, and the model ends.
In(t, st) == state[t] = st /\ ~torn

FreeRegions == {r \in Regions : ~live[r]}

find_free_shared_memory == CHOOSE r \in FreeRegions : \A s \in FreeRegions : r <= s

\* The region is mapped into its creator.  Where a mutex, the pages or the
\* mapping cannot be had, all that was done is undone.
create_shared_memory(t, n) ==
  LET r == find_free_shared_memory
  IN  /\ In(t, "alive")
      /\ n \in 1 .. MaxPages
      /\ FreeRegions # {}
      /\ \E p \in Allocations(n) :
           /\ pages' = [pages EXCEPT ![r] = p]
           /\ free' = free \ ToSet(p)
           /\ view' = [view EXCEPT ![r][t] = p]
      /\ live' = [live EXCEPT ![r] = TRUE]
      /\ creator' = [creator EXCEPT ![r] = t]
      /\ mapped' = [mapped EXCEPT ![r] = {t}]
      /\ mapping_count' = [mapping_count EXCEPT ![r] = 1]
      /\ UNCHANGED <<stale, state, torn>>

\* The static destroy_shared_memory, for the regions R: the pages are freed,
\* whatever became of the unmappings before.
Destroy(R) ==
  /\ live' = [r \in Regions |-> live[r] /\ r \notin R]
  /\ creator' = [r \in Regions |-> IF r \in R THEN Kernel ELSE creator[r]]
  /\ pages' = [r \in Regions |-> IF r \in R THEN <<>> ELSE pages[r]]
  /\ free' = free \cup UNION {ToSet(pages[r]) : r \in R}

destroy_shared_memory(t, r) ==
  /\ In(t, "alive")
  /\ live[r]
  /\ creator[r] = t
  /\ Destroy({r})
  /\ view' = [view EXCEPT ![r] = NoView]
  /\ vm_unmap_pages({r} \X mapped[r])
  /\ mapped' = [mapped EXCEPT ![r] = {}]
  /\ mapping_count' = [mapping_count EXCEPT ![r] = 0]
  /\ UNCHANGED <<state, torn>>

\* A mapping that the address space refuses changes nothing.  add_mapping looks
\* for an entry that is not active; it would undo the mapping if all were,
\* which by ViewsAgree the test of mapping_count rules out.
map_shared_memory(t, r) ==
  /\ In(t, "alive")
  /\ live[r]
  /\ t \notin mapped[r]
  /\ mapping_count[r] < MaxMappings
  /\ Cardinality(mapped[r]) < MaxMappings
  /\ view' = [view EXCEPT ![r][t] = pages[r]]
  /\ mapped' = [mapped EXCEPT ![r] = @ \cup {t}]
  /\ mapping_count' = [mapping_count EXCEPT ![r] = @ + 1]
  /\ UNCHANGED <<live, creator, pages, free, stale, state, torn>>

\* The entry is removed even where the unmapping failed.
unmap_shared_memory(t, r) ==
  /\ In(t, "alive")
  /\ live[r]
  /\ t \in mapped[r]
  /\ view' = [view EXCEPT ![r][t] = <<>>]
  /\ vm_unmap_pages({<<r, t>>})
  /\ mapped' = [mapped EXCEPT ![r] = @ \ {t}]
  /\ mapping_count' = [mapping_count EXCEPT ![r] = @ - 1]
  /\ UNCHANGED <<live, creator, pages, free, state, torn>>

-----------------------------------------------------------------------------
(* resize_shared_memory: only the creator resizes, and a region that has the *)
(* new size already is left alone.                                           *)

MayResize(t, r) == In(t, "alive") /\ live[r] /\ creator[r] = t

\* Where an address space cannot be expanded (the tasks F) nobody is told.
Grow(t, r, n) ==
  /\ MayResize(t, r)
  /\ n > Len(pages[r])
  /\ \E p \in Allocations(n - Len(pages[r])) :
     \E F \in SUBSET (IF ExpandMayFail THEN mapped[r] ELSE {}) :
       /\ pages' = [pages EXCEPT ![r] = @ \o p]
       /\ free' = free \ ToSet(p)
       /\ view' = [view EXCEPT ![r] =
                     [u \in Tasks |-> IF u \in mapped[r] \ F THEN @[u] \o p ELSE @[u]]]
       /\ torn' = (torn \/ F # {})
  /\ UNCHANGED <<live, creator, mapped, mapping_count, stale, state>>

\* Mutant: the new pages are not given back.
GrowFailsAndLeaks(t, r, n) ==
  /\ MallocMayFail
  /\ MayResize(t, r)
  /\ n > Len(pages[r])
  /\ \E p \in Allocations(n - Len(pages[r])) : free' = free \ ToSet(p)
  /\ UNCHANGED <<regionVars, view, stale, state, torn>>

\* The combined array cannot be allocated.
GrowFails(t, r, n) ==
  /\ MallocMayFail
  /\ MayResize(t, r)
  /\ n > Len(pages[r])
  /\ \E p \in Allocations(n - Len(pages[r])) :
       free' = free_physical_pages(free \ ToSet(p), p)
  /\ UNCHANGED <<regionVars, view, stale, state, torn>>

\* Mutant: the tasks keep the pages beyond the new size.
LoseNothing(v, n) == v

\* A mapping cut off behind the n-th page.
LoseBeyond(v, n) == IF Len(v) > n THEN SubSeq(v, 1, n) ELSE v

\* When the smaller array cannot be allocated, the pages are freed and the
\* region keeps them; an array of no pages can always be allocated.
Shrink(t, r, n) ==
  /\ MayResize(t, r)
  /\ n < Len(pages[r])
  /\ view' = [view EXCEPT ![r] = [u \in Tasks |-> LoseBeyond(@[u], n)]]
  /\ vm_unmap_pages({r} \X mapped[r])
  /\ free' = free_physical_pages(free, SubSeq(pages[r], n + 1, Len(pages[r])))
  /\ \/ pages' = [pages EXCEPT ![r] = SubSeq(@, 1, n)] /\ UNCHANGED torn
     \/ MallocMayFail /\ n > 0 /\ torn' = TRUE /\ UNCHANGED pages
  /\ UNCHANGED <<live, creator, mapped, mapping_count, state>>

-----------------------------------------------------------------------------
(* The end of a task. *)

terminate_task(t) ==
  /\ t # Kernel
  /\ In(t, "alive")
  /\ state' = [state EXCEPT ![t] = "dead"]
  /\ UNCHANGED <<regionVars, free, view, stale, torn>>

\* Mutant: a mapping is counted off for every task, with or without one.
CountsOffAnyway(r, t) == mapping_count[r] - 1

\* remove_mapping, for a task that may have none.
MappingsLeft(r, t) == mapping_count[r] - (IF t \in mapped[r] THEN 1 ELSE 0)

\* Mutant: the creator's mapping keeps its own region alive.
OrphanedUnmapped(t) == {r \in Regions : live[r] /\ creator[r] = t /\ mapping_count[r] = 0}

\* The regions that end with their creator t.
Orphaned(t) == {r \in Regions : live[r] /\ creator[r] = t /\ MappingsLeft(r, t) = 0}

\* Called through cleanup_task_ipc (kernel/ipc_init.c) after terminate_task.
cleanup_task_shared_memory(t) ==
  /\ In(t, "dead")
  /\ view' = [r \in Regions |-> [view[r] EXCEPT ![t] = <<>>]]
  /\ vm_unmap_pages({r \in Regions : t \in mapped[r]} \X {t})
  /\ mapped' = [r \in Regions |-> mapped[r] \ {t}]
  /\ mapping_count' = [r \in Regions |-> MappingsLeft(r, t)]
  /\ Destroy(Orphaned(t))
  /\ state' = [state EXCEPT ![t] = "gone"]
  /\ UNCHANGED torn

Next ==
  \E t \in Tasks :
    \/ terminate_task(t) \/ cleanup_task_shared_memory(t)
    \/ \E n \in 0 .. Cardinality(Frames) : create_shared_memory(t, n)
    \/ \E r \in Regions :
         \/ destroy_shared_memory(t, r) \/ map_shared_memory(t, r)
         \/ unmap_shared_memory(t, r)
         \/ \E n \in 0 .. Cardinality(Frames) :
              Grow(t, r, n) \/ GrowFails(t, r, n) \/ Shrink(t, r, n)

Spec == Init /\ [][Next]_vars

-----------------------------------------------------------------------------
(* Properties. *)

\* The type invariant; a region has at most MaxMappings mappings.
TypeOK ==
  /\ live \in [Regions -> BOOLEAN] /\ creator \in [Regions -> Tasks]
  /\ \A r \in Regions : pages[r] \in Seq(Frames) /\ mapped[r] \subseteq Tasks
  /\ mapping_count \in [Regions -> 0 .. MaxMappings]
  /\ free \subseteq Frames
  /\ \A r \in Regions, t \in Tasks : view[r][t] \in Seq(Frames)
  /\ stale \in [Tasks -> SUBSET Frames]
  /\ state \in [Tasks -> {"alive", "dead", "gone"}] /\ torn \in BOOLEAN

\* Every frame is free or is one page of one region: failed and successful
\* resizes, destroyed regions and cleaned-up tasks neither lose a frame nor
\* free one twice.  A shrink without memory for the smaller array, or an
\* expansion that failed unnoticed (resize_shared_memory), voids this.
FramesAccounted ==
  ~torn =>
    /\ free \cup UNION {ToSet(pages[r]) : r \in Regions} = Frames
    /\ \A r \in Regions : IsInjective(pages[r]) /\ ToSet(pages[r]) \cap free = {}
    /\ \A r, s \in Regions : r # s => ToSet(pages[r]) \cap ToSet(pages[s]) = {}

\* Through a region the tasks with a mapping see just its pages, in order, and
\* the other tasks nothing, whoever resized or unmapped it, and whichever
\* unmappings failed meanwhile.  Outside their mappings tasks see pages only
\* where an unmapping failed: unmap_shared_memory removes the entry, and
\* destroy_shared_memory, resize_shared_memory and cleanup_task_shared_memory
\* free the pages, all the same.  mapping_count is the number of tasks with a
\* mapping, so the limit in map_shared_memory and the test for the last mapping
\* in cleanup_task_shared_memory mean what they say.
ViewsAgree ==
  /\ ~torn => \A r \in Regions, t \in Tasks :
                view[r][t] = IF t \in mapped[r] THEN pages[r] ELSE <<>>
  /\ \A t \in Tasks : stale[t] # {} => t \in Sticky
  /\ \A r \in Regions : mapping_count[r] = Cardinality(mapped[r])

\* What a task that has been cleaned up after leaves behind: no mapping, and a
\* region of its own only if another task had it mapped, in which case nobody
\* can destroy it any more.
NothingLeftUnshared ==
  [][\A t \in Tasks : state[t] = "dead" /\ state'[t] = "gone" =>
       \A r \in Regions : /\ t \notin mapped'[r]
                          /\ live'[r] /\ creator'[r] = t => mapped'[r] # {}]_vars

=============================================================================
