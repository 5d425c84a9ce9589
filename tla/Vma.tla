-------------------------------- MODULE Vma --------------------------------
(***************************************************************************)
(* The kernel's virtual memory (mm/vma.c): vmalloc, vmfree and the         *)
(* defragmenter, over a range of page addresses.  Areas are structs named  *)
(* by Ids and sit on one of three lists; page tables are frames, found     *)
(* through the page directory.  List operations are single steps; the      *)
(* steps of vm_map and vm_unmap are the accesses to directory and tables.  *)
(***************************************************************************)
EXTENDS Integers, Sequences, SequencesExt, FiniteSetsExt

CONSTANTS
    Ids, Frames, None, Tasks,
    SPACE,              \* pages of the address range
    TABLE,              \* entries of a page table (1024)
    WORD,               \* sizes are computed modulo this (2^32)
    Sizes,              \* pages asked for
    INTERVAL,           \* VMA_DEFRAG_INTERVAL
    CALLS,              \* bound on the posts kvmdefrag has not got yet
    SlabWaits,          \* may slab_alloc wait, and so yield, inside find_space?
    Preempts            \* may a task be preempted in vm_map and vm_unmap?

VARIABLES
    area,               \* for each struct vma: [start, size], in pages
    vma_freelist, vma_list, defrag_queue,
    defrag_call, pends, \* the semaphore's count; how often kvmdefrag got it
    pde,                \* page directory: the frame of each table, or None
    pte,                \* for each frame, its present entries
    held,               \* for each task, areas vmalloc gave it
    pc

vars == <<area, vma_freelist, vma_list, defrag_queue, defrag_call, pends, pde, pte, held, pc>>

Tables == 0..(WORD \div TABLE)
Addresses == 0..SPACE - 1
VA_PD_IDX(va) == va \div TABLE
VA_PT_IDX(va) == va % TABLE

VmaAssumption ==
    /\ TABLE \in Nat \ {0} /\ SPACE \in Nat \ {0} /\ WORD > SPACE
    /\ Sizes \subseteq 1..SPACE /\ INTERVAL \in Nat \ {0}
    /\ None \notin Ids \cup Frames

Idle == [at |-> "idle"]
Unused == [start |-> 0, size |-> 0]     \* a struct that is not allocated

\* vma_init: one free area.
Init ==
    /\ \E first \in Ids :
       /\ area = [i \in Ids |-> IF i = first THEN [start |-> 0, size |-> SPACE] ELSE Unused]
       /\ vma_freelist = <<first>>
    /\ vma_list = <<>> /\ defrag_queue = <<>>
    /\ defrag_call = 0 /\ pends = 0
    /\ pde = [p \in Tables |-> None]
    /\ pte = [f \in Frames |-> {}]
    /\ held = [t \in Tasks |-> {}]
    /\ pc = [t \in Tasks |-> Idle]

\* Nobody else is in a section that this instance does not interrupt.
Undisturbed(others) ==
    \A u \in others :
        /\ pc[u].at = "split" => SlabWaits
        /\ pc[u].at \notin {"idle", "split"} => Preempts
        /\ pc[u].at \notin {"panic", "assert"}

At(t, a) == pc[t].at = a /\ Undisturbed(Tasks \ {t})
Goto(t, x) == pc' = [pc EXCEPT ![t] = x]
End(a) == (a.start + a.size) % WORD

(* -------------------------------- vmalloc ------------------------------- *)

InUse == ToSet(vma_freelist) \cup ToSet(vma_list) \cup ToSet(defrag_queue)

\* The first of the smallest areas that are large enough.
BestFit(n) ==
    LET fits == SelectSeq(vma_freelist, LAMBDA i : area[i].size >= n)
        best == SelectSeq(fits, LAMBDA i : \A j \in ToSet(fits) : area[i].size <= area[j].size)
    IN  IF fits = <<>> THEN None ELSE best[1]

\* find_space, interrupts off: no room is a panic; an area of the right size
\* moves to the list of used ones, a larger one will be split.
find_space(t, n) ==
    /\ At(t, "idle")
    /\ LET fit == BestFit(n) IN
       \/ /\ fit = None
          /\ Goto(t, [at |-> "panic"])
          /\ UNCHANGED <<vma_freelist, vma_list>>
       \/ /\ fit # None /\ area[fit].size = n
          /\ vma_freelist' = SelectSeq(vma_freelist, LAMBDA i : i # fit)
          /\ vma_list' = Append(vma_list, fit)
          /\ Goto(t, [at |-> "pde", a |-> fit, va |-> area[fit].start])
       \/ /\ fit # None /\ area[fit].size # n
          /\ Ids # InUse
          /\ Goto(t, [at |-> "split", fit |-> fit, n |-> n])
          /\ UNCHANGED <<vma_freelist, vma_list>>
    /\ UNCHANGED <<area, defrag_queue, defrag_call, pends, pde, pte, held>>

\* vma_split, once slab_alloc has returned a struct.
vma_split(t) ==
    /\ At(t, "split")
    /\ LET fit == pc[t].fit IN
       \E new \in Ids \ InUse :
           /\ area' = [area EXCEPT ![new] = [start |-> area[fit].start, size |-> pc[t].n],
                                   ![fit] = [start |-> (@.start + pc[t].n) % WORD,
                                             size |-> (@.size - pc[t].n) % WORD]]
           /\ vma_list' = Append(vma_list, new)
           /\ Goto(t, [at |-> "pde", a |-> new, va |-> area[fit].start])
    /\ UNCHANGED <<vma_freelist, defrag_queue, defrag_call, pends, pde, pte, held>>

\* vm_map, a page: find its table, a new one if need be (pf_zalloc) ...
MapPde(t) ==
    /\ At(t, "pde") /\ pc[t].va < End(area[pc[t].a])
    /\ LET p   == VA_PD_IDX(pc[t].va)
           new == Frames \ {pde[q] : q \in Tables}
       IN  \E f \in IF pde[p] = None THEN new ELSE {pde[p]} :
              /\ pde' = [pde EXCEPT ![p] = f]
              /\ pte' = IF pde[p] = None THEN [pte EXCEPT ![f] = {}] ELSE pte
              /\ Goto(t, [at |-> "pte", a |-> pc[t].a, va |-> pc[t].va, table |-> f])
    /\ UNCHANGED <<area, vma_freelist, vma_list, defrag_queue, defrag_call, pends, held>>

\* ... and make its entry in it present.
MapPte(t) ==
    /\ At(t, "pte")
    /\ pte' = [pte EXCEPT ![pc[t].table] = @ \cup {VA_PT_IDX(pc[t].va)}]
    /\ Goto(t, [at |-> "pde", a |-> pc[t].a, va |-> pc[t].va + 1])
    /\ UNCHANGED <<area, vma_freelist, vma_list, defrag_queue, defrag_call, pends, pde, held>>

vmalloc_return(t) ==
    /\ At(t, "pde") /\ pc[t].va = End(area[pc[t].a])
    /\ held' = [held EXCEPT ![t] = @ \cup {pc[t].a}]
    /\ Goto(t, Idle)
    /\ UNCHANGED <<area, vma_freelist, vma_list, defrag_queue, defrag_call, pends, pde, pte>>

(* -------------------------------- vmfree -------------------------------- *)

vmfree(t, a) ==
    /\ At(t, "idle") /\ defrag_call < CALLS
    /\ held' = [held EXCEPT ![t] = @ \ {a}]
    /\ Goto(t, [at |-> "unmap", a |-> a, va |-> area[a].start])
    /\ UNCHANGED <<area, vma_freelist, vma_list, defrag_queue, defrag_call, pends, pde, pte>>

\* vm_unmap, a page: its entry is asserted to be present, and cleared.
Unmap(t) ==
    /\ At(t, "unmap") /\ pc[t].va < End(area[pc[t].a])
    /\ LET f == pde[VA_PD_IDX(pc[t].va)]
           i == VA_PT_IDX(pc[t].va)
       IN  IF f # None /\ i \in pte[f]
           THEN /\ pte' = [pte EXCEPT ![f] = @ \ {i}]
                /\ Goto(t, [pc[t] EXCEPT !.va = @ + 1])
           ELSE UNCHANGED pte /\ Goto(t, [at |-> "assert"])
    /\ UNCHANGED <<area, vma_freelist, vma_list, defrag_queue, defrag_call, pends, pde, held>>

Sweep_Any(t) ==
    /\ \/ /\ At(t, "unmap") /\ pc[t].va = End(area[pc[t].a])
          /\ Goto(t, [at |-> "sweep", a |-> pc[t].a, p |-> VA_PD_IDX(area[pc[t].a].start)])
       \/ /\ At(t, "sweep") /\ pc[t].p < VA_PD_IDX(End(area[pc[t].a]))
          /\ Goto(t, [pc[t] EXCEPT !.at = "drop"])
    /\ UNCHANGED <<area, vma_freelist, vma_list, defrag_queue, defrag_call, pends, pde, pte, held>>

\* Then the tables from that of the area's start up to, not including, that of
\* the address after its end: which are empty?
Sweep(t) ==
    /\ \/ /\ At(t, "unmap") /\ pc[t].va = End(area[pc[t].a])
          /\ Goto(t, [at |-> "sweep", a |-> pc[t].a, p |-> VA_PD_IDX(area[pc[t].a].start)])
       \/ /\ At(t, "sweep") /\ pc[t].p < VA_PD_IDX(End(area[pc[t].a]))
          /\ IF pde[pc[t].p] # None /\ pte[pde[pc[t].p]] = {}
             THEN Goto(t, [pc[t] EXCEPT !.at = "drop"])
             ELSE Goto(t, [pc[t] EXCEPT !.p = @ + 1])
    /\ UNCHANGED <<area, vma_freelist, vma_list, defrag_queue, defrag_call, pends, pde, pte, held>>

\* An empty one is taken out of the directory and freed.
Drop(t) ==
    /\ At(t, "drop")
    /\ pde' = [pde EXCEPT ![pc[t].p] = None]
    /\ Goto(t, [pc[t] EXCEPT !.at = "sweep", !.p = @ + 1])
    /\ UNCHANGED <<area, vma_freelist, vma_list, defrag_queue, defrag_call, pends, pte, held>>

\* The area waits for the defragmenter.
vmfree_queue(t) ==
    /\ At(t, "sweep") /\ pc[t].p >= VA_PD_IDX(End(area[pc[t].a]))
    /\ vma_list' = SelectSeq(vma_list, LAMBDA i : i # pc[t].a)
    /\ defrag_queue' = Append(defrag_queue, pc[t].a)
    /\ defrag_call' = defrag_call + 1
    /\ Goto(t, Idle)
    /\ UNCHANGED <<area, vma_freelist, pends, pde, pte, held>>

(* ----------------------------- the defragmenter ------------------------- *)

\* vma_cmp, and where v_ilist_insert puts an area: before the first one it is
\* not greater than.
Greater(a, b) == a.start >= End(b)

Insert(list, i) ==
    LET stops == {k \in DOMAIN list : ~Greater(area[i], area[list[k]])}
        n     == Min(stops \cup {Len(list) + 1})
    IN  SubSeq(list, 1, n - 1) \o <<i>> \o SubSeq(list, n, Len(list))

vma_merge_Lost(ar, a, into) ==
    [area |-> [ar EXCEPT ![a] = Unused],
     merged |-> End(ar[a]) = ar[into].start \/ ar[a].start = End(ar[into])]

\* vma_merge(a, into): [area, did it merge].
vma_merge(ar, a, into) ==
    IF End(ar[a]) = ar[into].start
    THEN [area |-> [ar EXCEPT ![into] = [start |-> ar[a].start, size |-> @.size + ar[a].size],
                              ![a] = Unused], merged |-> TRUE]
    ELSE IF ar[a].start = End(ar[into])
    THEN [area |-> [ar EXCEPT ![into].size = @ + ar[a].size, ![a] = Unused], merged |-> TRUE]
    ELSE [area |-> ar, merged |-> FALSE]

\* An area of the free list, with its left then its right neighbour.
MergeOne(d, a) ==
    LET k   == CHOOSE i \in DOMAIN d.list : d.list[i] = a
        lhs == IF k > 1 THEN vma_merge(d.area, a, d.list[k - 1]) ELSE [merged |-> FALSE]
        rhs == IF k < Len(d.list) THEN vma_merge(d.area, a, d.list[k + 1]) ELSE [merged |-> FALSE]
        without == SelectSeq(d.list, LAMBDA i : i # a)
    IN  IF lhs.merged THEN [area |-> lhs.area, list |-> without]
        ELSE IF rhs.merged THEN [area |-> rhs.area, list |-> without]
        ELSE d

do_defrag_NoMerge ==
    /\ vma_freelist' = FoldLeft(Insert, vma_freelist, defrag_queue)
    /\ defrag_queue' = <<>>
    /\ UNCHANGED area

\* Sort the queue into the free list, then merge what is contiguous.
do_defrag ==
    LET sorted == FoldLeft(Insert, vma_freelist, defrag_queue)
        merged == FoldLeft(MergeOne, [area |-> area, list |-> sorted], sorted)
    IN  /\ area' = merged.area /\ vma_freelist' = merged.list
        /\ defrag_queue' = <<>>

\* kvmdefrag: works each time it has got the semaphore INTERVAL times.
vma_defrag ==
    /\ Undisturbed(Tasks)
    /\ defrag_call > 0 /\ defrag_call' = defrag_call - 1
    /\ pends' = (pends + 1) % INTERVAL
    /\ IF pends' = 0 THEN do_defrag ELSE UNCHANGED <<area, vma_freelist, defrag_queue>>
    /\ UNCHANGED <<vma_list, pde, pte, held, pc>>

-----------------------------------------------------------------------------

Next ==
    \/ \E t \in Tasks, n \in Sizes : find_space(t, n)
    \/ \E t \in Tasks : \E a \in held[t] : vmfree(t, a)
    \/ \E t \in Tasks : \/ vma_split(t) \/ MapPde(t) \/ MapPte(t) \/ vmalloc_return(t)
                        \/ Unmap(t) \/ Sweep(t) \/ Drop(t) \/ vmfree_queue(t)
    \/ vma_defrag

Spec == Init /\ [][Next]_vars

-----------------------------------------------------------------------------

PagesOf(i) == {(area[i].start + k) % WORD : k \in 0..area[i].size - 1}
Disjoint(i, j) == PagesOf(i) \cap PagesOf(j) = {}

\* The areas on the three lists never overlap (assert_invariants: "Check they
\* don't overlap").
AreasDisjoint == \A i, j \in InUse : i # j => Disjoint(i, j)

\* No address is ever lost: splitting, queueing, sorting and merging keep the
\* lists a partition of the whole range.
SpaceConserved == UNION {PagesOf(i) : i \in InUse} = Addresses

\* What vmalloc has returned is mapped, every page of it, until it is freed:
\* freeing a neighbour does not take the page table they share away.
HeldIsMapped ==
    \A t \in Tasks : \A a \in held[t] : \A va \in PagesOf(a) :
        pde[VA_PD_IDX(va)] # None /\ VA_PT_IDX(va) \in pte[pde[VA_PD_IDX(va)]]

\* After do_defrag no two free areas touch.
DefragMerges ==
    [][defrag_queue # <<>> /\ defrag_queue' = <<>> =>
          \A k \in 1..Len(vma_freelist') - 1 :
              End(area'[vma_freelist'[k]]) # area'[vma_freelist'[k + 1]].start]_vars
=============================================================================
