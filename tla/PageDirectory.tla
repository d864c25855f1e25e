---------------------------- MODULE PageDirectory ----------------------------
(***************************************************************************)
(* The page directories of kernel/memory/page_directory.c.  One processor  *)
(* runs every call to its end under the lock of the directory, so a call   *)
(* is one action.  The caller maps frames it has allocated for the         *)
(* purpose.  The allocator is not in the repository: it hands out free     *)
(* frames, aligned to the size of the request, and keeps a number of pages *)
(* (spare) for tables; it may run out at any allocation.                   *)
(*                                                                         *)
(* The model ends (wild) when a call reads the data of a large page as a   *)
(* page table, and when a mapped frame is free: the program then works on  *)
(* memory that is not its own.                                             *)
(***************************************************************************)
EXTENDS PageTables

CONSTANTS Dirs,         \* handles of page directories
          NTables,      \* pages the allocator has for tables
          MapCalls,     \* <<first page, number of pages, flags>> of map calls
          UnmapCalls,   \* <<first page, number of pages>> of unmap calls
          FaultPages,   \* pages on which faults happen
          CowModes,     \* the values of the argument cow of copy_page_directory
          CounterSize   \* page counters are unsigned, modulo CounterSize

ASSUME PageDirectoryAssumption ==
  /\ NTables \in Nat
  /\ MapCalls \subseteq Pages \X Pages \X SUBSET PageFlags
  /\ UnmapCalls \subseteq Pages \X Pages
  /\ FaultPages \subseteq Pages
  /\ CowModes \subseteq BOOLEAN
  /\ CounterSize \in Nat \ {0}

VARIABLES live,                 \* the directories in all_page_directories
          tables,               \* of each directory
          pool, spare,          \* the allocator's free frames, and pages for tables
          total_mapped_pages,
          total_user_pages,
          wild,
          lost,                 \* history: tables that nothing leads to any more
          sized,                \* history: PAGE_SIZE was asked for in this directory
          plain                 \* history: a directory was copied without COW

counters == <<total_mapped_pages, total_user_pages>>
vars     == <<live, tables, pool, spare, counters, wild, lost, sized, plain>>

Init ==
  /\ live = {}
  /\ tables = [d \in Dirs |-> EmptyTables]
  /\ pool = Frames
  /\ spare = NTables
  /\ total_mapped_pages = [d \in Dirs |-> 0]
  /\ total_user_pages = [d \in Dirs |-> 0]
  /\ wild = FALSE
  /\ lost = 0
  /\ sized = [d \in Dirs |-> FALSE]
  /\ plain = FALSE

FreeRuns(n) == {f \in Frames : f % n = 0 /\ f .. f + n - 1 \subseteq pool}

alloc_pages(n) == CHOOSE f \in FreeRuns(n) : \A g \in FreeRuns(n) : f <= g

\* A mapped frame is free.
Dangling ==
  \E d \in live : \E v \in Pages : get_physical_address(tables[d], v) \in pool

\* The state of a loop before its first turn, at page v.
LoopStart(D, d, v, st) ==
  [D |-> D, pool |-> pool, spare |-> spare, lost |-> lost, next |-> v, st |-> st,
   mapped |-> total_mapped_pages[d], user |-> total_user_pages[d]]

SetCounters(d, mapped, user) ==
  /\ total_mapped_pages' = [total_mapped_pages EXCEPT ![d] = mapped % CounterSize]
  /\ total_user_pages' = [total_user_pages EXCEPT ![d] = user % CounterSize]

-----------------------------------------------------------------------------
(* Operations. *)

create_page_directory(d) ==
  /\ d \notin live
  /\ spare > 0
  /\ live' = live \cup {d}
  /\ spare' = spare - 1
  /\ UNCHANGED <<tables, pool, counters, wild, lost, sized, plain>>

\* ref_count is always 1.  Of the tables only the PML4 is freed.
destroy_page_directory(d) ==
  /\ d \in live
  /\ live' = live \ {d}
  /\ tables' = [tables EXCEPT ![d] = EmptyTables]
  /\ spare' = spare + 1
  /\ lost' = lost + NumTables(tables[d])
  /\ SetCounters(d, 0, 0)
  /\ sized' = [sized EXCEPT ![d] = FALSE]
  /\ UNCHANGED <<pool, wild, plain>>

\* The caller allocates n frames and maps them at page v.  After an error the
\* pages mapped so far stay mapped.
map_memory_range(d, v, n, flags) ==
  LET f          == alloc_pages(n)
      Turn(w, s) == MapPage(w, s, v, n, f, flags)
      s          == ForPages(Turn, LoopStart(tables[d], d, v, "done"), v .. v + n - 1)
  IN  /\ d \in live
      /\ FreeRuns(n) # {}
      /\ tables' = [tables EXCEPT ![d] = s.D]
      /\ pool' = pool \ (f .. f + n - 1)
      /\ spare' = s.spare
      /\ SetCounters(d, s.mapped, s.user)
      /\ lost' = s.lost
      /\ sized' = [sized EXCEPT ![d] = @ \/ "PAGE_SIZE" \in flags]
      /\ UNCHANGED <<live, wild, plain>>

unmap_memory_range(d, v, n, free_phys, zeroed) ==
  LET Turn(w, s) == UnmapPage(w, s, free_phys, zeroed)
      s          == ForPages(Turn, LoopStart(tables[d], d, v, "go"), v .. v + n - 1)
  IN  /\ d \in live
      /\ tables' = [tables EXCEPT ![d] = s.D]
      /\ pool' = s.pool
      /\ spare' = s.spare
      /\ SetCounters(d, s.mapped, s.user)
      /\ UNCHANGED <<live, lost, sized, plain>>
      /\ wild' = (s.st = "wild" \/ Dangling')

\* copy_page_tables, after a PML4 table was allocated for the new directory.
CopyTables(d, zeroed) ==
  LET Turn(v, s) == CopyPage(v, s, tables[d], zeroed)
      start      == LoopStart(EmptyTables, d, 0, "go")
  IN  ForPages(Turn, [start EXCEPT !.spare = @ - 1], MappedPages(tables[d]))

copy_page_directory(d, e, cow, zeroed) ==
  LET c == CopyTables(d, zeroed)
  IN  /\ d \in live /\ e \notin live
      /\ spare > 0
      /\ c.st # "ENOMEM"
      /\ live' = live \cup {e}
      /\ tables' = IF cow THEN [tables EXCEPT ![d] = mark_pages_cow(@), ![e] = mark_pages_cow(c.D)]
                   ELSE [tables EXCEPT ![e] = c.D]
      /\ spare' = c.spare
      /\ SetCounters(e, total_mapped_pages[d], total_user_pages[d])
      /\ wild' = (c.st = "wild")
      /\ sized' = [sized EXCEPT ![e] = sized[d]]
      /\ plain' = (plain \/ ~cow)
      /\ UNCHANGED <<pool, lost>>

\* The allocator runs out during the copy: the new directory is destroyed, the
\* tables below its PML4 are lost.
CopyFails(d, e) ==
  LET c == CopyTables(d, TRUE)
  IN  /\ d \in live /\ e \notin live
      /\ spare > 0
      /\ c.st = "ENOMEM"
      /\ spare' = c.spare + 1
      /\ lost' = lost + NumTables(c.D)
      /\ UNCHANGED <<live, tables, pool, counters, wild, sized, plain>>

\* A private copy for a copy-on-write page of 4K; other pages and a failing
\* allocation leave the tables as they are.  The frame that was shared is not
\* freed.  The statistics of track_page_fault are left out.
handle_cow_page_fault(d, v) ==
  LET e == tables[d][3][v]
      f == alloc_pages(1)
  IN  IF "PAGE_COW" \in e.flags /\ FreeRuns(1) # {}
      THEN /\ tables' = [tables EXCEPT ![d] = Store(@, v, 3,
                [to |-> f, flags |-> (e.flags \cup {"PAGE_WRITABLE"}) \ {"PAGE_COW"}])]
           /\ pool' = pool \ {f}
      ELSE UNCHANGED <<tables, pool>>

\* Other faults are not handled.
handle_page_fault(d, v, error_code) ==
  /\ d \in live
  /\ "MEM_ACCESS_WRITE" \in error_code /\ "MEM_ACCESS_RESERVED" \notin error_code
  /\ handle_cow_page_fault(d, v)
  /\ UNCHANGED <<live, spare, counters, wild, lost, sized, plain>>

Next ==
  /\ ~wild
  /\ \E d \in Dirs :
       \/ create_page_directory(d)
       \/ destroy_page_directory(d)
       \/ \E c \in MapCalls : map_memory_range(d, c[1], c[2], c[3])
       \/ \E c \in UnmapCalls, free_phys, zeroed \in BOOLEAN :
            unmap_memory_range(d, c[1], c[2], free_phys, zeroed)
       \/ \E e \in Dirs, cow \in CowModes, zeroed \in BOOLEAN :
            copy_page_directory(d, e, cow, zeroed)
       \/ \E e \in Dirs : CopyFails(d, e)
       \/ \E v \in FaultPages, code \in SUBSET {"MEM_ACCESS_WRITE", "MEM_ACCESS_RESERVED"} :
            handle_page_fault(d, v, code)

Spec == Init /\ [][Next]_vars

-----------------------------------------------------------------------------
(* Properties. *)

\* Type invariant.
TypeOK ==
  /\ live \subseteq Dirs
  /\ \A d \in Dirs, l \in Levels : tables[d][l] \in [Keys(l) -> Entries]
  /\ pool \subseteq Frames
  /\ spare \in 0 .. NTables /\ lost \in 0 .. NTables
  /\ total_mapped_pages \in [Dirs -> 0 .. CounterSize - 1]
  /\ total_user_pages \in [Dirs -> 0 .. CounterSize - 1]
  /\ wild \in BOOLEAN /\ sized \in [Dirs -> BOOLEAN] /\ plain \in BOOLEAN

\* While all copies are copy-on-write, what is written through one page of one
\* directory is seen nowhere else: a frame that is mapped writable is mapped
\* once.
WritableIsPrivate ==
  ~plain => \A d, e \in live : \A v \in MappedPages(tables[d]), w \in MappedPages(tables[e]) :
              /\ "PAGE_WRITABLE" \in LeafEntry(tables[d], v).flags
              /\ get_physical_address(tables[d], v) = get_physical_address(tables[e], w)
              => d = e /\ v = w

\* While all copies are copy-on-write, unmap_memory_range frees no frame that a
\* directory still maps.
NoDanglingMapping == ~plain => ~Dangling

\* The check of validate_page_tables, flags of the entries and number of mapped
\* pages against the counter, succeeds after every call, failed ones included,
\* in a directory in which no large page was asked for.
ValidationPasses ==
  \A d \in live : ~sized[d] => validate_page_tables(tables[d], total_mapped_pages[d])

\* Every mapped page and every table is reached from the PML4 table: the entry
\* above a present entry leads to a table.  Table pages are not freed twice and
\* none is lost by map_memory_range and unmap_memory_range, except below an
\* entry overwritten by a large page; the others that are lost were below a
\* PML4 table that was freed.
TablesAccountedFor ==
  /\ \A d \in live : \A l \in 1 .. 3 : \A v \in Pages :
       Present(tables[d][l][Key(v, l)]) => IsTable(tables[d][l - 1][Key(v, l - 1)])
  /\ NTables = spare + lost + Cardinality(live)
                 + MapThenSumSet(LAMBDA d : NumTables(tables[d]), Dirs)

\* The step resolves a copy-on-write fault on page v of d: the page has a frame
\* of its own and is no longer copy-on-write.
ResolvesFault(d, v) ==
  /\ "PAGE_COW" \in LeafEntry(tables[d], v).flags \ LeafEntry(tables'[d], v).flags
  /\ pool \ pool' = {get_physical_address(tables'[d], v)}

\* The step lays a large page, of frames just allocated, over page v of d.
MapsLargeOver(d, v) ==
  /\ LeafLevel(tables'[d], v) \in {1, 2}
  /\ get_physical_address(tables'[d], v) \in pool \ pool'

\* A page that stays mapped keeps its frame, unless this very step resolves a
\* copy-on-write fault on it or maps a large page over it: map_memory_range
\* refuses 4K pages that are mapped, also when it fails half-way, a fault moves
\* no other page, and no call on one directory moves a page of another.
MappedStaysPut ==
  [][\A d \in live \cap live' : \A v \in MappedPages(tables[d]) \cap MappedPages(tables'[d]) :
       \/ get_physical_address(tables'[d], v) = get_physical_address(tables[d], v)
       \/ ResolvesFault(d, v)
       \/ MapsLargeOver(d, v)]_vars

=============================================================================
