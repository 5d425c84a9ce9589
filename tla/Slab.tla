-------------------------------- MODULE Slab --------------------------------
(***************************************************************************)
(* The slab allocator (mm/slab.c).  A slab is a page cut into chunks of    *)
(* one size; its slab_meta is itself a chunk of a slab, except the one of  *)
(* the first slab, so allocating and freeing recurse.  The whole of a call *)
(* runs under s_sem_slab and is one step.                                  *)
(***************************************************************************)
EXTENDS Integers, Sequences, SequencesExt, FiniteSetsExt

CONSTANTS
    Pages,              \* page frames pf_alloc may return
    PAGE_SIZE,
    chunk_sizes,        \* increasing powers of two, the last one PAGE_SIZE
    META,               \* sizeof(struct slab_meta)
    bootstrap_meta,     \* where the first slab's meta is
    Requests,           \* sizes asked for
    Pinned              \* size of a chunk allocated at boot and never freed

VARIABLES
    slabs,      \* for each size index, the slabs in list order, each a page
    free,       \* for each page, the free chunks of its slab, in list order
    meta,       \* for each page, the chunk its slab_meta is in
    pool,       \* page frames free in the page frame allocator
    live        \* chunks in the callers' hands, with the size asked for

vars == <<slabs, free, meta, pool, live>>

N_SIZES == Len(chunk_sizes)
Slots(size) == PAGE_SIZE \div chunk_sizes[size]

\* The smallest power of two not below v.
round_up_pow2(v) == Min({p \in {2^k : k \in 0..30} : p >= v})

\* The switch, whose default is the largest size: also for requests smaller
\* than the smallest one.
size_idx(bytes) ==
    LET same == {i \in 1..N_SIZES : chunk_sizes[i] = round_up_pow2(bytes)}
    IN  IF same = {} THEN N_SIZES ELSE Min(same)

MetaIdx == size_idx(META)

SlabAssumption ==
    /\ chunk_sizes[N_SIZES] = PAGE_SIZE
    /\ \A i \in 1..N_SIZES : chunk_sizes[i] \in {2^k : k \in 0..12}
    /\ \A i \in 1..N_SIZES - 1 : chunk_sizes[i] < chunk_sizes[i + 1]
    /\ Slots(MetaIdx) > 1
    /\ Cardinality(Pages) > 2

-----------------------------------------------------------------------------
(* S is a state of the allocator: [slabs, free, meta, pool]. *)

\* prepare_slab, then v_ilist_prepend (to the list's end): a page cut into
\* chunks, the last one put first.
prepare_slab(S, size, m) ==
    LET p == CHOOSE q \in S.pool : TRUE
    IN  [slabs |-> [S.slabs EXCEPT ![size] = Append(@, p)],
         free  |-> [S.free EXCEPT ![p] = [i \in 1..Slots(size) |-> <<p, Slots(size) - i>>]],
         meta  |-> [S.meta EXCEPT ![p] = m],
         pool  |-> S.pool \ {p}]

\* chunk_get from the slab in page p.
chunk_get(S, p) == [S EXCEPT !.free[p] = Tail(@)]

chunk_put(S, c) == [S EXCEPT !.free[c[1]] = <<c>> \o @]

WithSpace(S, size) == SelectSeq(S.slabs[size], LAMBDA p : S.free[p] # <<>>)

FromList_NotEager(S, size) ==
    LET p == WithSpace(S, size)[1] IN [S |-> chunk_get(S, p), chunk |-> S.free[p][1]]

\* The loop of do_slab_alloc, when it finds a slab with space.  The last chunk
\* of a slab of metas becomes the meta of a new one before anything else.
FromList(S, size) ==
    LET p     == WithSpace(S, size)[1]
        c     == S.free[p][1]
        eager == prepare_slab(chunk_get(S, p), size, c)
        q     == Last(eager.slabs[size])
    IN  IF size = MetaIdx /\ Len(S.free[p]) = 1
        THEN [S |-> chunk_get(eager, q), chunk |-> eager.free[q][1]]
        ELSE [S |-> chunk_get(S, p), chunk |-> c]

\* do_slab_alloc: from the list, or from a new slab whose meta is allocated
\* first (grab_a_slab).
do_slab_alloc(S, bytes) ==
    LET size == size_idx(bytes)
        m    == FromList(S, MetaIdx)
        new  == prepare_slab(m.S, size, m.chunk)
        p    == Last(new.slabs[size])
    IN  IF WithSpace(S, size) # <<>> THEN FromList(S, size)
        ELSE [S |-> chunk_get(new, p), chunk |-> new.free[p][1]]

FreeOne_NoRemove(S, c) ==
    LET size == CHOOSE i \in 1..N_SIZES : c[1] \in ToSet(S.slabs[i])
        put  == chunk_put(S, c)
    IN  IF Len(put.free[c[1]]) # Slots(size) THEN [S |-> put, chunk |-> bootstrap_meta]
        ELSE [S |-> [slabs |-> put.slabs,
                     free  |-> [put.free EXCEPT ![c[1]] = <<>>],
                     meta  |-> put.meta,
                     pool  |-> put.pool \cup {c[1]}],
              chunk |-> put.meta[c[1]]]

\* One call of do_slab_free: the state after it and the chunk it recurses with
\* (the meta of a slab that has become free), or bootstrap_meta, which is in
\* no slab, to stop.
FreeOne(S, c) ==
    LET size == CHOOSE i \in 1..N_SIZES : c[1] \in ToSet(S.slabs[i])
        put  == chunk_put(S, c)
    IN  IF Len(put.free[c[1]]) # Slots(size) THEN [S |-> put, chunk |-> bootstrap_meta]
        ELSE [S |-> [slabs |-> [put.slabs EXCEPT ![size] = SelectSeq(@, LAMBDA p : p # c[1])],
                     free  |-> [put.free EXCEPT ![c[1]] = <<>>],
                     meta  |-> put.meta,
                     pool  |-> put.pool \cup {c[1]}],
              chunk |-> put.meta[c[1]]]

do_slab_free(S, c) ==
    LET after[n \in 0..Cardinality(Pages)] ==
            IF n = 0 THEN [S |-> S, chunk |-> c]
            ELSE IF after[n - 1].chunk = bootstrap_meta THEN after[n - 1]
            ELSE FreeOne(after[n - 1].S, after[n - 1].chunk)
    IN  after[Cardinality(Pages)].S

-----------------------------------------------------------------------------

Now == [slabs |-> slabs, free |-> free, meta |-> meta, pool |-> pool]
Becomes(S) == slabs' = S.slabs /\ free' = S.free /\ meta' = S.meta /\ pool' = S.pool

\* slab_init, and what the boot allocates for good (vma_init and the like):
\* without it the first slab could be freed with the last chunk in it.
Init ==
    LET empty == [slabs |-> [i \in 1..N_SIZES |-> <<>>],
                  free  |-> [p \in Pages |-> <<>>],
                  meta  |-> [p \in Pages |-> bootstrap_meta],
                  pool  |-> Pages]
        boot  == do_slab_alloc(prepare_slab(empty, MetaIdx, bootstrap_meta), Pinned)
    IN  /\ slabs = boot.S.slabs /\ free = boot.S.free /\ meta = boot.S.meta /\ pool = boot.S.pool
        /\ live = {[chunk |-> boot.chunk, bytes |-> Pinned, pinned |-> TRUE]}

\* An allocation takes two pages at most; it is not modelled without them.
slab_alloc(bytes) ==
    /\ Cardinality(pool) >= 2
    /\ LET r == do_slab_alloc(Now, bytes) IN
       /\ Becomes(r.S)
       /\ live' = live \cup {[chunk |-> r.chunk, bytes |-> bytes, pinned |-> FALSE]}

slab_free(l) ==
    /\ ~l.pinned
    /\ Becomes(do_slab_free(Now, l.chunk))
    /\ live' = live \ {l}

Next == (\E bytes \in Requests : slab_alloc(bytes)) \/ (\E l \in live : slab_free(l))

Spec == Init /\ [][Next]_vars

-----------------------------------------------------------------------------

InSlabs == UNION {ToSet(slabs[i]) : i \in 1..N_SIZES}
Chunks(p) == {l.chunk : l \in {k \in live : k.chunk[1] = p}}
Metas(p) == {meta[q] : q \in {r \in InSlabs : meta[r] # bootstrap_meta /\ meta[r][1] = p}}

\* The chunks of every slab are free, in use by a caller, or the meta of
\* another slab: each exactly one of these.  Nothing is handed out twice,
\* nothing is lost, and whatever is freed is found in a slab.
ChunksOnce ==
    /\ \A l \in live : l.chunk[1] \in InSlabs
    /\ \A i \in 1..N_SIZES : IsInjective(slabs[i]) /\ \A p \in ToSet(slabs[i]) :
          /\ IsInjective(free[p])
          /\ ToSet(free[p]) \cup Chunks(p) \cup Metas(p) = {<<p, n>> : n \in 0..Slots(i) - 1}
          /\ Len(free[p]) + Cardinality(Chunks(p)) + Cardinality(Metas(p)) = Slots(i)

\* A page is in one slab, or is free in the page frame allocator.
PagesOnce ==
    /\ InSlabs \cap pool = {} /\ InSlabs \cup pool = Pages
    /\ \A i, j \in 1..N_SIZES : i # j => ToSet(slabs[i]) \cap ToSet(slabs[j]) = {}

\* A chunk is at least as large as what was asked for.
ChunkFits ==
    \A l \in live : \A i \in 1..N_SIZES : l.chunk[1] \in ToSet(slabs[i]) => chunk_sizes[i] >= l.bytes

\* There is always a free chunk for a meta, so that allocating one never
\* needs a new slab of metas first (the recursion would not end).
MetaAvailable == WithSpace(Now, MetaIdx) # <<>>

=============================================================================
