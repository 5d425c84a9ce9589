------------------------------ MODULE PfaBoot ------------------------------
(***************************************************************************)
(* How the page frame allocator gets its pages at boot (stage0.c, pfa.c,   *)
(* stage1.c): regions of physical memory, reserved regions, the mapping of *)
(* page frames at PFA_VIRT_OFFSET that the free list is written through.   *)
(* Pages are numbers (pfn_t); the free list is the set of its pages, of    *)
(* which pf_alloc takes the highest because they are freed in order.       *)
(***************************************************************************)
EXTENDS Integers, Sequences, FiniteSetsExt

CONSTANTS
    CONVENTIONAL_PAGES, MEG_PAGES,
    TABLE,              \* entries of a page table: pages in 4 MB
    s_reserved0,        \* the reserved regions pfa.c starts with
    KernelStarts, KernelPages, ExtendedPages    \* images and machines considered

VARIABLES
    phase,          \* the next step of the boot
    phys_regions,   \* sequence of [start, pages, ignore]
    s_reserved,     \* sequence of [start, pages]
    free,           \* pages on the free list
    tables,         \* pages taken for page tables
    mapped          \* pages reachable at PFA_VIRT_OFFSET

vars == <<phase, phys_regions, s_reserved, free, tables, mapped>>

PagesOf(r) == r.start..(r.start + r.pages - 1)

\* set_up_stage0_page_tables maps the first 4 MB; _stage0_init registers three
\* regions, the last as large as the BIOS says.
Init ==
    /\ phase = "kernel"
    /\ \E ext \in ExtendedPages :
          phys_regions = << [start |-> 0, pages |-> CONVENTIONAL_PAGES, ignore |-> TRUE],
                            [start |-> CONVENTIONAL_PAGES, pages |-> MEG_PAGES - CONVENTIONAL_PAGES,
                             ignore |-> TRUE],
                            [start |-> MEG_PAGES, pages |-> ext, ignore |-> FALSE] >>
    /\ s_reserved = s_reserved0
    /\ free = {} /\ tables = {}
    /\ mapped = 0..TABLE - 1

\* The bound is inclusive: the page after a reserved region is kept too.
is_reserved(p) ==
    \E i \in 1..Len(s_reserved) :
        LET r == s_reserved[i] IN r.start <= p /\ p <= r.start + r.pages

\* Does the region start, or end, in r?
region_overlaps(r, start, pages) ==
    \/ start >= r.start /\ start < r.start + r.pages
    \/ start + pages >= r.start /\ start + pages < r.start + r.pages

\* pfa_register_reserved_region for the kernel image.
pfa_register_reserved_region(start, pages) ==
    /\ phase = "kernel"
    /\ IF \E i \in 1..Len(s_reserved) : region_overlaps(s_reserved[i], start, pages)
       THEN phase' = "panic" /\ UNCHANGED s_reserved
       ELSE phase' = "low" /\ s_reserved' = Append(s_reserved, [start |-> start, pages |-> pages])
    /\ UNCHANGED <<phys_regions, free, tables, mapped>>

\* map_phys_region: what it frees.
FreedOf(r) == {p \in PagesOf(r) : ~is_reserved(p)}

\* Conventional memory first, so that there are pages for page tables.
MapConventional ==
    /\ phase = "low"
    /\ free' = free \cup FreedOf(phys_regions[1])
    /\ phase' = "tables"
    /\ UNCHANGED <<phys_regions, s_reserved, tables, mapped>>

\* The n highest pages of the free list.
Top(n) == {p \in free : Cardinality({q \in free : q > p}) < n}

PageTables_NoExtra(above) == (above - (TABLE - MEG_PAGES)) \div TABLE

\* Page tables for the memory beyond 4 MB.
PageTables(above) == (above - (TABLE - MEG_PAGES)) \div TABLE + 1

map_above_4_meg_freelist_Leak ==
    /\ phase = "tables"
    /\ LET above   == FoldSet(LAMBDA i, n : n + phys_regions[i].pages, 0,
                              {i \in 1..Len(phys_regions) : phys_regions[i].start >= MEG_PAGES})
           scratch == Top(1)
           n       == PageTables(above)
       IN  IF above + MEG_PAGES <= TABLE
           THEN phase' = "rest" /\ UNCHANGED <<free, tables, mapped>>
           ELSE IF free = {} \/ Cardinality(free) - 2 < n
           THEN phase' = "panic" /\ UNCHANGED <<free, tables, mapped>>
           ELSE /\ tables' = Top(n + 1) \ scratch
                /\ free' = free \ (tables' \cup scratch)
                /\ mapped' = mapped \cup TABLE..(TABLE + n * TABLE - 1)
                /\ phase' = "rest"
    /\ UNCHANGED <<phys_regions, s_reserved>>

\* map_above_4_meg_freelist (the scratch page is given back at the end).
map_above_4_meg_freelist ==
    /\ phase = "tables"
    /\ LET above   == FoldSet(LAMBDA i, n : n + phys_regions[i].pages, 0,
                              {i \in 1..Len(phys_regions) : phys_regions[i].start >= MEG_PAGES})
           scratch == Top(1)
           n       == PageTables(above)
       IN  IF above + MEG_PAGES <= TABLE
           THEN phase' = "rest" /\ UNCHANGED <<free, tables, mapped>>
           ELSE IF free = {} \/ Cardinality(free) - 2 < n
           THEN phase' = "panic" /\ UNCHANGED <<free, tables, mapped>>
           ELSE /\ tables' = Top(n + 1) \ scratch
                /\ free' = free \ tables'
                /\ mapped' = mapped \cup TABLE..(TABLE + n * TABLE - 1)
                /\ phase' = "rest"
    /\ UNCHANGED <<phys_regions, s_reserved>>

map_phys_regions ==
    /\ phase = "rest"
    /\ free' = free \cup UNION {FreedOf(phys_regions[i]) :
                                  i \in {j \in 1..Len(phys_regions) : ~phys_regions[j].ignore}}
    /\ phase' = "elf"
    /\ UNCHANGED <<phys_regions, s_reserved, tables, mapped>>

\* stage1_init gives back the page of the ELF header, the first of the image.
FreeElfHeader ==
    /\ phase = "elf"
    /\ free' = free \cup {s_reserved[Len(s_reserved)].start}
    /\ phase' = "done"
    /\ UNCHANGED <<phys_regions, s_reserved, tables, mapped>>

Next ==
    \/ \E start \in KernelStarts, pages \in KernelPages : pfa_register_reserved_region(start, pages)
    \/ MapConventional \/ map_above_4_meg_freelist \/ map_phys_regions \/ FreeElfHeader

Spec == Init /\ [][Next]_vars

-----------------------------------------------------------------------------

Elf == IF Len(s_reserved) > Len(s_reserved0) THEN {s_reserved[Len(s_reserved)].start} ELSE {}

\* Nothing reserved is ever handed out: not the boot page tables, the boot
\* stack, the DMA buffer or the image (but for its ELF header), nor video
\* memory, nor the new page tables.
NoReservedFree ==
    /\ \A i \in 1..Len(s_reserved) : free \cap PagesOf(s_reserved[i]) \subseteq Elf
    /\ free \cap PagesOf(phys_regions[2]) = {}
    /\ free \cap tables = {}

\* pf_free writes a link into every page it is given: the page is mapped by
\* then, for every size of memory, on both sides of each page table's end.
FreeIsMapped == free \cup tables \subseteq mapped

\* An image linked anywhere, of any size, is refused if it overlaps a
\* reserved region, although region_overlaps does not look for a region that
\* lies inside the image.
ReservedDisjoint ==
    \A i, j \in 1..Len(s_reserved) :
        i # j => PagesOf(s_reserved[i]) \cap PagesOf(s_reserved[j]) = {}

\* Once the boot is done all memory is accounted for: a page of RAM is on the
\* list, is a page table, or is kept for a reserved region.
AllAccounted ==
    phase = "done" =>
        \A p \in PagesOf(phys_regions[1]) \cup PagesOf(phys_regions[3]) :
            p \in free \/ p \in tables \/ is_reserved(p)
=============================================================================
