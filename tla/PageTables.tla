------------------------------ MODULE PageTables ------------------------------
(***************************************************************************)
(* The page tables of kernel/memory/page_directory.c, as pure operators.   *)
(*                                                                         *)
(* The address space has Top * Fan^3 pages; Fan and Top are                *)
(* PTE_COUNT_PER_TABLE, 512 in the code.  The tables of a directory are    *)
(* kept by level (0 PML4, 1 PDPT, 2 PD, 3 PT): D[l] holds the entries of   *)
(* all tables of level l, and page v is found behind entry v \div Span(l)  *)
(* of it.  A "2MB" page is one entry of level 2 and covers Fan pages, a    *)
(* "1GB" page one of level 1.                                              *)
(* A frame is identified by its number, phys_addr >> 12.                   *)
(***************************************************************************)
EXTENDS Integers, FiniteSetsExt

CONSTANTS Fan,      \* entries of a table,
          Top,      \* and of the PML4 table
          NFrames   \* frames of memory for data

ASSUME PageTablesAssumption ==
  /\ Fan \in Nat /\ Fan > 1
  /\ Top \in Nat \ {0}
  /\ NFrames \in Nat

Frames == 0 .. NFrames - 1
Levels == 0 .. 3
Pages  == 0 .. Top * Fan^3 - 1

Span(l)     == Fan^(3 - l)               \* pages behind one entry of level l
Keys(l)     == 0 .. Top * Fan^l - 1
Key(v, l)   == v \div Span(l)
First(v, l) == v % Span(l) = 0

NoFrame == -1
ATable  == -2                            \* an entry that leads to a table

\* The flag bits that the code looks at; PAGE_PRESENT is "to # NoFrame".
PageFlags == {"PAGE_WRITABLE", "PAGE_USER", "PAGE_SIZE", "PAGE_COW", "PAGE_READ_ONLY"}
Entries   == [to : Frames \cup {NoFrame, ATable}, flags : SUBSET PageFlags]

NotPresent  == [to |-> NoFrame, flags |-> {}]
Present(e)  == e.to # NoFrame
IsTable(e)  == e.to = ATable
EmptyTables == [l \in Levels |-> [k \in Keys(l) |-> NotPresent]]

Store(D, v, l, e) == [D EXCEPT ![l] = [@ EXCEPT ![Key(v, l)] = e]]

\* The entries of level n behind the entry of level l for v.
Behind(v, l, n) == Key(v, l) * Fan^(n - l) .. (Key(v, l) + 1) * Fan^(n - l) - 1

\* Everything behind the entry of level l for v becomes unreachable.
Detach(D, v, l) ==
  [n \in Levels |-> [k \in Keys(n) |->
     IF n > l /\ k \in Behind(v, l, n) THEN NotPresent ELSE D[n][k]]]

NumTables(D) ==
  Cardinality({p \in (0 .. 2) \X Keys(2) : p[2] \in Keys(p[1]) /\ IsTable(D[p[1]][p[2]])})

-----------------------------------------------------------------------------
(* Looking pages up. *)

\* The level of the entry that maps v: 1 for a 1GB page, 2 for a 2MB page, 3
\* for a 4K page, 0 when v is not mapped.
LeafLevel(D, v) ==
  LET Maps(l) == D[l][Key(v, l)].to \in Frames
  IN  IF Maps(1) THEN 1 ELSE IF Maps(2) THEN 2 ELSE IF Maps(3) THEN 3 ELSE 0

LeafEntry(D, v) ==
  LET l == LeafLevel(D, v) IN IF l = 0 THEN NotPresent ELSE D[l][Key(v, l)]

MappedPages(D) == {v \in Pages : LeafLevel(D, v) # 0}

\* The frame behind v, NoFrame when it is not mapped.
get_physical_address(D, v) ==
  LET l == LeafLevel(D, v)
  IN  IF l = 0 THEN NoFrame ELSE LeafEntry(D, v).to + (v % Span(l))

set_page_flags(D, v, flags, mask) ==
  LET e == LeafEntry(D, v)
  IN  Store(D, v, LeafLevel(D, v), [e EXCEPT !.flags = (@ \ mask) \cup flags])

\* The turns of a loop, in the order of its pages.
ForPages(Turn(_, _), s, pages) == MapThenFoldSet(Turn, s, LAMBDA v : v, Max, pages)

\* Mutant: the pages stay writable.
MarkKeepsWritable(D) ==
  LET Turn(v, q) == set_page_flags(q, v, {"PAGE_COW"}, {})
  IN  ForPages(Turn, D, MappedPages(D))

\* set_page_flags does nothing for the other pages.
mark_pages_cow(D) ==
  LET Turn(v, q) == set_page_flags(q, v, {"PAGE_COW"}, {"PAGE_WRITABLE"})
  IN  ForPages(Turn, D, MappedPages(D))

-----------------------------------------------------------------------------
(* The loops.  A loop state s carries the tables D, the free frames pool,   *)
(* the number spare of pages the allocator still has for tables, the number *)
(* lost of tables that nothing leads to any more, the page counters of the  *)
(* directory, next, the page with which the loop goes on, and st: "go"      *)
(* while the loop runs, "done" when the page in hand is finished, an error  *)
(* code or "wild" otherwise.                                                *)

\* Mutant: a failing allocation is not noticed.
EnterTableUnchecked(s, v, l, flags) ==
  LET e == s.D[l][Key(v, l)]
  IN  IF s.st # "go" \/ IsTable(e) THEN s
      ELSE IF Present(e) THEN [s EXCEPT !.st = "EEXIST"]
      ELSE [s EXCEPT !.D = Store(@, v, l, [to |-> ATable, flags |-> flags]),
                     !.spare = @ - 1]

\* The table behind the entry of level l for v, created if there is none.
EnterTable(s, v, l, flags) ==
  LET e == s.D[l][Key(v, l)]
  IN  IF s.st # "go" \/ IsTable(e) THEN s
      ELSE IF Present(e) THEN [s EXCEPT !.st = "EEXIST"]
      ELSE IF s.spare = 0 THEN [s EXCEPT !.st = "ENOMEM"]
      ELSE [s EXCEPT !.D = Store(@, v, l, [to |-> ATable, flags |-> flags]),
                     !.spare = @ - 1]

TableFlags(flags) == {"PAGE_WRITABLE"} \cup (flags \cap {"PAGE_USER"})

\* An entry of level l for a large page, if the caller asked for one and the
\* addresses and the rest of the range allow it.  What the entry held before is
\* not looked at, nor freed, and the page counters are not changed.
MapLarge(s, v, f, left, flags, l) ==
  IF /\ s.st = "go"
     /\ "PAGE_SIZE" \in flags
     /\ First(v, l) /\ First(f, l)
     /\ Span(l) <= left
  THEN [s EXCEPT !.D = Store(Detach(@, v, l), v, l, [to |-> f, flags |-> flags \ {"PAGE_COW"}]),
                 !.lost = @ + NumTables(s.D) - NumTables(Store(Detach(s.D, v, l), v, l, NotPresent)),
                 !.next = v + Span(l),
                 !.st = "done"]
  ELSE s

\* Mutant: a page that is mapped is mapped again.
MapSmallOver(s, v, f, flags) ==
  IF s.st # "go" THEN s
  ELSE [s EXCEPT !.D = Store(@, v, 3, [to |-> f, flags |-> flags \ {"PAGE_COW"}]),
                 !.mapped = IF Present(s.D[3][v]) THEN @ ELSE @ + 1,
                 !.user = IF "PAGE_USER" \in flags THEN @ + 1 ELSE @,
                 !.next = v + 1,
                 !.st = "done"]

MapSmall(s, v, f, flags) ==
  IF s.st # "go" THEN s
  ELSE IF Present(s.D[3][v]) THEN [s EXCEPT !.st = "EEXIST"]
  ELSE [s EXCEPT !.D = Store(@, v, 3, [to |-> f, flags |-> flags \ {"PAGE_COW"}]),
                 !.mapped = @ + 1,
                 !.user = IF "PAGE_USER" \in flags THEN @ + 1 ELSE @,
                 !.next = v + 1,
                 !.st = "done"]

\* One turn of the loop of map_memory_range: page v, of the n pages from v0 on.
MapPage(v, s, v0, n, f0, flags) ==
  LET f    == f0 + (v - v0)
      left == v0 + n - v
      s0   == IF v = s.next /\ s.st = "done" THEN [s EXCEPT !.st = "go"] ELSE s
      s1   == EnterTable(s0, v, 0, TableFlags(flags))
      s2   == MapLarge(s1, v, f, left, flags, 1)
      s3   == EnterTable(s2, v, 1, TableFlags(flags))
      s4   == MapLarge(s3, v, f, left, flags, 2)
      s5   == EnterTable(s4, v, 2, TableFlags(flags))
  IN  MapSmall(s5, v, f, flags)

\* A page inside a large page and not its first: the frame of the large page
\* is read as if it were a table.  Data that is zero there reads as "not
\* present"; any other data sends the walk anywhere.
IntoLarge(s, zeroed) == IF zeroed THEN s ELSE [s EXCEPT !.st = "wild"]

\* Mutant: only the first half of a table is looked at.
PruneHalf(s, v, l) ==
  LET Pruned[k \in 0 .. l] ==
        IF k = 0 THEN s
        ELSE LET q == Pruned[k - 1]
                 n == l - k
             IN  IF Present(q.D[n + 1][Key(v, n) * Fan]) THEN q
                 ELSE [q EXCEPT !.D = Store(@, v, n, NotPresent), !.spare = @ + 1]
  IN  Pruned[l]

\* After the entry of level l for v was cleared: the table it is in, and upwards
\* its parents, are freed when empty.  The PML4 table stays.
Prune(s, v, l) ==
  LET Pruned[k \in 0 .. l] ==
        IF k = 0 THEN s
        ELSE LET q == Pruned[k - 1]
                 n == l - k
             IN  IF \E i \in Behind(v, n, n + 1) : Present(q.D[n + 1][i]) THEN q
                 ELSE [q EXCEPT !.D = Store(@, v, n, NotPresent), !.spare = @ + 1]
  IN  Pruned[l]

\* Mutant: copy-on-write pages are freed too.
ClearFreesCow(s, v, l, free_phys) ==
  LET e == s.D[l][Key(v, l)]
  IN  [s EXCEPT !.D = Store(@, v, l, NotPresent),
                !.pool = IF free_phys THEN @ \cup (e.to .. e.to + Span(l) - 1) ELSE @,
                !.mapped = @ - Span(l),
                !.next = v + Span(l)]

\* Mutant: the page stays counted.
ClearKeepsCount(s, v, l, free_phys) ==
  LET e == s.D[l][Key(v, l)]
  IN  [s EXCEPT !.D = Store(@, v, l, NotPresent),
                !.pool = IF free_phys /\ "PAGE_COW" \notin e.flags
                         THEN @ \cup (e.to .. e.to + Span(l) - 1)
                         ELSE @,
                !.next = v + Span(l)]

\* The entry of level l that maps v is cleared, and the memory behind it freed
\* if the caller wants that and the page is not copy-on-write.  The entry is
\* cleared before its PAGE_USER flag is tested, so total_user_pages stays.
ClearEntry(s, v, l, free_phys) ==
  LET e == s.D[l][Key(v, l)]
  IN  [s EXCEPT !.D = Store(@, v, l, NotPresent),
                !.pool = IF free_phys /\ "PAGE_COW" \notin e.flags
                         THEN @ \cup (e.to .. e.to + Span(l) - 1)
                         ELSE @,
                !.mapped = @ - Span(l),
                !.next = v + Span(l)]

\* One turn of the loop of unmap_memory_range.
UnmapPage(v, s, free_phys, zeroed) ==
  LET l == LeafLevel(s.D, v)
  IN  IF v < s.next \/ s.st # "go" \/ l = 0 THEN s
      ELSE IF ~First(v, l) THEN IntoLarge(s, zeroed)
      ELSE Prune(ClearEntry(s, v, l, free_phys), v, l)

\* The tables that the entry of level l for v needs in the destination, with the
\* flags they have in the source.
EnterCopy(s, src, v, l) ==
  LET Entered[k \in 0 .. l] ==
        IF k = 0 THEN s
        ELSE EnterTable(Entered[k - 1], v, k - 1, src[k - 1][Key(v, k - 1)].flags)
  IN  Entered[l]

\* One turn of the loop of copy_page_tables, for a page v mapped in the source;
\* other pages are skipped.  The loop counts bytes, and adds a number of pages
\* to skip a large page: its next turn is still inside that page.
CopyPage(v, s, src, zeroed) ==
  LET l == LeafLevel(src, v)
      c == EnterCopy(s, src, v, l)
  IN  IF s.st # "go" THEN s
      ELSE IF ~First(v, l) THEN IntoLarge(s, zeroed)
      ELSE IF c.st # "go" THEN c
      ELSE [c EXCEPT !.D = Store(@, v, l, src[l][Key(v, l)])]

-----------------------------------------------------------------------------
(* validate_page_tables. *)

ValidEntry(e, l) ==
  /\ l \in {0, 3} => "PAGE_SIZE" \notin e.flags
  /\ ~IsTable(e) => /\ ~({"PAGE_COW", "PAGE_WRITABLE"} \subseteq e.flags)
                    /\ e.to % Span(l) = 0

\* 1GB and 2MB pages count for all the pages they cover.
validate_page_tables(D, total_mapped_pages) ==
  /\ \A l \in Levels : \A k \in Keys(l) : Present(D[l][k]) => ValidEntry(D[l][k], l)
  /\ Cardinality(MappedPages(D)) = total_mapped_pages

=============================================================================
