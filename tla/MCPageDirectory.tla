--------------------------- MODULE MCPageDirectory ---------------------------
(* Instance of PageDirectory for TLC. *)
EXTENDS PageDirectory, TLC

Symmetry == Permutations(Dirs)

RW     == {"PAGE_WRITABLE"}
RWHuge == {"PAGE_WRITABLE", "PAGE_SIZE"}

\* A single page, a range over a 1GB boundary, a 1GB page and a 2MB page; the
\* large pages may lie over mapped single pages.
MCMapCalls == {<<0, 1, RW>>, <<3, 2, RW>>, <<0, 4, RWHuge>>, <<2, 2, RWHuge>>}

\* The second range starts inside a large page.
MCUnmapCalls == {<<0, 1>>, <<1, 3>>}

=============================================================================
