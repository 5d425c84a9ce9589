------------------------------ MODULE MCMemory ------------------------------
(***************************************************************************)
(* Memory management for TLC: the boot of the page frame allocator         *)
(* (PfaBoot), the slab allocator (Slab), the kernel's address range (Vma)  *)
(* and the programs' (Exec).  Each is sequential and keeps its state to    *)
(* itself, so a behaviour is one of the part it starts with; the variables *)
(* of the others are <<>>.                                                 *)
(***************************************************************************)
EXTENDS Integers, Sequences, TLC

CONSTANTS p1, p2, p3, p4, p5, bootstrap, t1, f1, f2, f3, a1, a2, a3, a4, None

VARIABLES
    part,
    phase, phys_regions, s_reserved, free, tables, mapped,
    slabs, chunks, meta, pool, live,
    area, vma_freelist, vma_list, defrag_queue, defrag_call, pends, pde, pte, held, pc,
    user_pde, user_pte, vmas, stack, leaked, lost, kbuf, task, prog, exec_pc, i

bootVars == <<phase, phys_regions, s_reserved, free, tables, mapped>>
slabVars == <<slabs, chunks, meta, pool, live>>
vmaVars  == <<area, vma_freelist, vma_list, defrag_queue, defrag_call, pends, pde, pte, held, pc>>
execVars == <<user_pde, user_pte, vmas, stack, leaked, lost, kbuf, task, prog, exec_pc, i>>

-----------------------------------------------------------------------------
\* The boot with the numbers of the code: null page, stage0 page directory and
\* tables, boot stack and DMA buffer, and memory sizes around the places where
\* one more page table is needed.
Region(s, n) == [start |-> s, pages |-> n]

Boot == INSTANCE PfaBoot WITH
    CONVENTIONAL_PAGES <- 160, MEG_PAGES <- 256, TABLE <- 1024,
    s_reserved0 <- << Region(0, 1), Region(1, 1), Region(2, 1), Region(3, 1),
                      Region(4, 4), Region(8, 5) >>,
    KernelStarts <- {0, 3, 7, 12, 13, 14, 30},
    KernelPages <- {1, 20, 100},
    ExtendedPages <- {0, 1, 767, 768, 769, 1791, 1792, 1793}

\* Small pages: chunks of 2, 4 and 8 units, metas of 2.
Slabs == INSTANCE Slab WITH
    free <- chunks, Pages <- {p1, p2, p3, p4, p5}, PAGE_SIZE <- 8, chunk_sizes <- <<2, 4, 8>>,
    META <- 2, bootstrap_meta <- bootstrap, Requests <- {1, 2, 3}, Pinned <- 4

\* Six page addresses, two to a page table; one task, so that calls do not
\* overlap.
VmaIds == {a1, a2, a3, a4}
VmaFrames == {f1, f2, f3}
Areas == INSTANCE Vma WITH
    Ids <- VmaIds, Frames <- VmaFrames, Tasks <- {t1}, SPACE <- 6, TABLE <- 2, WORD <- 16,
    Sizes <- {1, 2, 3}, INTERVAL <- 2, CALLS <- 4, SlabWaits <- FALSE, Preempts <- FALSE

\* Addresses in bytes, pages of 2: a segment within a page, one across two
\* page tables, two programs that share addresses, a text that is no program.
seg(a, n) == [addr |-> a, len |-> n]
Programs == {
    [kind |-> "elf", segs |-> <<seg(1, 1), seg(3, 4)>>],
    [kind |-> "elf", segs |-> <<seg(0, 5)>>],
    [kind |-> "elf", segs |-> <<seg(4, 2), seg(0, 3)>>],
    [kind |-> "other", segs |-> <<>>],
    [kind |-> "unreadable", segs |-> <<>>]}

Run == INSTANCE Exec WITH
    pde <- user_pde, pte <- user_pte, pc <- exec_pc,
    PAGE <- 2, TABLE <- 2, UserPages <- 6, KernelPages <- 4, StackPages <- 2

ASSUME Slabs!SlabAssumption /\ Areas!VmaAssumption /\ Run!ExecAssumption

\* Structs and page table frames of Vma are interchangeable.
Symmetry == Permutations(VmaIds) \cup Permutations(VmaFrames)

-----------------------------------------------------------------------------
bootOff ==
    /\ phase = <<>> /\ phys_regions = <<>> /\ s_reserved = <<>> /\ free = <<>> /\ tables = <<>>
    /\ mapped = <<>>
slabOff ==
    /\ slabs = <<>> /\ chunks = <<>> /\ meta = <<>> /\ pool = <<>> /\ live = <<>>
vmaOff ==
    /\ area = <<>> /\ vma_freelist = <<>> /\ vma_list = <<>> /\ defrag_queue = <<>> /\ defrag_call = <<>>
    /\ pends = <<>> /\ pde = <<>> /\ pte = <<>> /\ held = <<>> /\ pc = <<>>
execOff ==
    /\ user_pde = <<>> /\ user_pte = <<>> /\ vmas = <<>> /\ stack = <<>> /\ leaked = <<>>
    /\ lost = <<>> /\ kbuf = <<>> /\ task = <<>> /\ prog = <<>> /\ exec_pc = <<>> /\ i = <<>>

Init ==
    \/ part = "boot" /\ Boot!Init /\ slabOff /\ vmaOff /\ execOff
    \/ part = "slab" /\ Slabs!Init /\ bootOff /\ vmaOff /\ execOff
    \/ part = "vma" /\ Areas!Init /\ bootOff /\ slabOff /\ execOff
    \/ part = "exec" /\ Run!Init /\ bootOff /\ slabOff /\ vmaOff

Next ==
    /\ UNCHANGED part
    /\ \/ part = "boot" /\ Boot!Next /\ UNCHANGED <<slabVars, vmaVars, execVars>>
       \/ part = "slab" /\ Slabs!Next /\ UNCHANGED <<bootVars, vmaVars, execVars>>
       \/ part = "vma" /\ Areas!Next /\ UNCHANGED <<bootVars, slabVars, execVars>>
       \/ part = "exec" /\ Run!Next /\ UNCHANGED <<bootVars, slabVars, vmaVars>>

Spec == Init /\ [][Next]_<<part, bootVars, slabVars, vmaVars, execVars>>

-----------------------------------------------------------------------------
\* Every page of RAM is free, a page table or reserved, exactly one of these,
\* and an image that overlaps a reserved region was refused; a page is mapped
\* when pf_free writes its link into it (PfaBoot).
RamPartition ==
    part = "boot" =>
        Boot!NoReservedFree /\ Boot!ReservedDisjoint /\ Boot!AllAccounted /\ Boot!FreeIsMapped

\* A page is in one slab or free; a chunk is free, in use or a meta, exactly
\* one of these, and as large as what was asked for; a meta can always be had
\* without a new slab of metas (Slab).
SlabPartition ==
    part = "slab" =>
        Slabs!PagesOnce /\ Slabs!ChunksOnce /\ Slabs!ChunkFits /\ Slabs!MetaAvailable

\* Areas of kernel addresses never overlap, no address is lost, and what
\* vmalloc returned stays mapped until vmfree (Vma).
AreaPartition == part = "vma" => Areas!AreasDisjoint /\ Areas!SpaceConserved /\ Areas!HeldIsMapped

\* After do_defrag no two free areas touch (Vma).
DefragMerges == Areas!DefragMerges

\* A running program has all its pages, the user's and writable; user mode
\* reaches pages of programs and user stacks only; and when exec has returned no
\* user page is left mapped, but for those of a program whose struct task was
\* reused before task_unmap read it (Exec).
UserPagesRight == part = "exec" => Run!RunsMapped /\ Run!UserReachesOwn /\ Run!NothingLeft
=============================================================================
