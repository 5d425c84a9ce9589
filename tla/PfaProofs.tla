------------------------------ MODULE PfaProofs ------------------------------
(***************************************************************************)
(* Proofs about the list of free page frames (Pfa), for any pages and      *)
(* tasks: pf_alloc and pf_free are the pool of PagePool as long as no two  *)
(* tasks are at the list in pf_alloc at once.                              *)
(***************************************************************************)
EXTENDS Pfa, FiniteSetTheorems, WellFoundedInduction, TLAPS

\* A step is for Zenon unless it names the SMT solver.
USE ZenonT(60)

\* A pointer to a page frame.
Page0 == Pages \cup {NULL}

\* What a task is in the middle of, with its locals.
Ops == [at : {"idle", "cli", "purge", "asleep", "frees", "old", "fault"}] \cup [at : {"next"}, old : Page0]
       \cup [at : {"cas"}, old : Page0, new : Page0]
       \cup [at : {"link", "read"}, frame : Pages] \cup [at : {"swap"}, frame : Pages, old : Page0]

PfaTypeOK ==
    /\ page_freelist \in Page0 /\ next \in [Pages -> Page0]
    /\ used \subseteq Pages /\ cache \subseteq Pages
    /\ op \in [Tasks -> Ops] /\ off \subseteq Tasks /\ Masked \subseteq off

\* t is in pf_alloc, on its way to frames or with frames on the list for it to
\* take, and in pf_free.
Purges(t) == op[t].at \in {"cli", "purge", "asleep"}
Allocs(t) == op[t].at \in {"frees", "old", "next", "cas"}
Frees(t) == op[t].at \in {"link", "read", "swap"}

\* The page frames that are nowhere else: they have to be on the list.
Free == Pages \ (used \cup Freeing \cup cache)

\* No frame is in two places outside of the list.
Placed ==
    /\ used \cap cache = {}
    /\ \A t \in Tasks : Frees(t) => op[t].frame \notin used \cup cache
    /\ \A t, u \in Tasks : Frees(t) /\ Frees(u) /\ op[t].frame = op[u].frame => t = u

\* What the locals of a call are worth: pf_alloc's old is on the list, with new
\* after it, for as long as pf_alloc may use them, because nobody else takes a
\* frame from the list; pf_free's frame is linked to the old it compares with.
Calls ==
    /\ \A t \in Tasks : op[t].at # "fault" /\ (Purges(t) \/ Allocs(t) => t \in Allocators)
    /\ \A t \in Tasks : op[t].at \in {"frees", "old"} => page_freelist # NULL
    /\ \A t \in Tasks : op[t].at \in {"next", "cas"} => op[t].old \in Free
    /\ \A t \in Tasks : op[t].at = "cas" => op[t].new = next[op[t].old]
    /\ \A t \in Tasks : op[t].at = "swap" => op[t].old = next[op[t].frame]
    /\ \A t, u \in Tasks : Allocs(t) /\ Allocs(u) => t = u

\* The list, followed along next, is the n frames of list, each once: the free
\* ones.
Chain(n, list) ==
    /\ page_freelist = IF n = 0 THEN NULL ELSE list[1]
    /\ \A i \in 1..n : next[list[i]] = IF i = n THEN NULL ELSE list[i + 1]
    /\ \A i, j \in 1..n : list[i] = list[j] => i = j
    /\ \A p \in Pages : p \in Free <=> \E i \in 1..n : list[i] = p

Chained == \E n \in Nat : \E list \in [1..n -> Pages] : Chain(n, list)

\* No two tasks are at the list in pf_alloc at once: there is one, or those
\* that call it have interrupts off (and sleep in the purge only).  The other
\* tasks call pf_free whenever they like.
AllocatorsApart == \A t \in Allocators : Allocators = {t} \/ Allocators \subseteq Masked

\* The inductive invariant.
PfaInv == PfaTypeOK /\ Placed /\ Calls /\ Chained

\* A step of t changes what t does, and nobody else.
LEMMA OpSet ==
    ASSUME PfaTypeOK, NEW t \in Tasks, NEW o \in Ops, Goto(t, o)
    PROVE  op' \in [Tasks -> Ops] /\ op'[t] = o /\ \A u \in Tasks \ {t} : op'[u] = op[u]
BY DEF PfaTypeOK, Goto

\* Which locals there are, by where a task is.
LEMMA OpKinds ==
    ASSUME PfaTypeOK, NEW t \in Tasks
    PROVE  /\ op[t] \in Ops
           /\ op[t].at \in {"idle", "cli", "purge", "asleep", "frees", "old", "fault", "next", "cas", "link", "read", "swap"}
           /\ op[t].at = "idle" => op[t] = Idle
           /\ op[t].at \in {"next", "cas", "swap"} => op[t].old \in Page0
           /\ op[t].at = "cas" => op[t].new \in Page0
           /\ Frees(t) => op[t].frame \in Pages
<1>1. op[t] \in Ops
  BY DEF PfaTypeOK
<1>2. CASE op[t] \in [at : {"idle", "cli", "purge", "asleep", "frees", "old", "fault"}]
  BY <1>1, <1>2 DEF Idle, Frees
<1>3. CASE op[t] \in [at : {"next"}, old : Page0]
  BY <1>1, <1>3 DEF Idle, Frees
<1>4. CASE op[t] \in [at : {"cas"}, old : Page0, new : Page0]
  BY <1>1, <1>4 DEF Idle, Frees
<1>5. CASE op[t] \in [at : {"link", "read"}, frame : Pages]
  BY <1>1, <1>5 DEF Idle, Frees
<1>6. CASE op[t] \in [at : {"swap"}, frame : Pages, old : Page0]
  BY <1>1, <1>6 DEF Idle, Frees
<1>. QED
  BY <1>1, <1>2, <1>3, <1>4, <1>5, <1>6 DEF Ops

\* The free frames, by who has the others.
LEMMA FreeIs ==
    \A p : p \in Free <=> p \in Pages /\ p \notin used /\ p \notin cache
                              /\ \A t \in Tasks : Frees(t) => op[t].frame # p
BY DEF Free, Freeing, Frees

\* The same after a step.
LEMMA FreeIsNext ==
    \A p : p \in Free' <=> p \in Pages /\ p \notin used' /\ p \notin cache'
                              /\ \A t \in Tasks : Frees(t)' => op'[t].frame # p
BY DEF Free, Freeing, Frees

\* A step that leaves the list and the links of the free frames alone.
LEMMA ChainKept ==
    ASSUME PfaTypeOK, Chained, page_freelist' = page_freelist, \A p \in Pages : p \in Free' <=> p \in Free,
           \A p \in Free : next'[p] = next[p]
    PROVE  Chained'
<1>0. PICK n \in Nat : \E list \in [1..n -> Pages] : Chain(n, list)
  BY DEF Chained
<1>1. PICK list \in [1..n -> Pages] : Chain(n, list)
  BY <1>0
<1>2. \A i \in 1..n : list[i] \in Pages /\ list[i] \in Free
  BY <1>1 DEF Chain
<1>3. Chain(n, list)'
  BY <1>1, <1>2 DEF Chain
<1>. QED
  BY <1>3 DEF Chained

\* A frame that is linked to the head goes before it.
LEMMA ChainPush ==
    ASSUME PfaAssumption, PfaTypeOK, Chained, NEW p \in Pages, p \notin Free, page_freelist' = p,
           next'[p] = page_freelist, \A q \in Pages \ {p} : next'[q] = next[q],
           \A q : q \in Free' <=> q \in Free \/ q = p
    PROVE  Chained'
<1>0. PICK n \in Nat : \E list \in [1..n -> Pages] : Chain(n, list)
  BY DEF Chained
<1>1. PICK list \in [1..n -> Pages] : Chain(n, list)
  BY <1>0
<1>. DEFINE m == n + 1
            l == [i \in 1..m |-> IF i = 1 THEN p ELSE list[i - 1]]
<1>2. m \in Nat /\ 1 \in 1..m /\ l[1] = p /\ \A i \in 1..m : i # 1 => i - 1 \in 1..n /\ l[i] = list[i - 1]
  BY SMTT(30)
<1>3. l \in [1..m -> Pages]
  BY SMTT(30)
<1>. HIDE DEF l
<1>4. \A i \in 1..n : list[i] # p
  BY SMTT(30), <1>1 DEF Chain
<1>5. \A i \in 1..m : next'[l[i]] = IF i = m THEN NULL ELSE l[i + 1]
  <2>. TAKE i \in 1..m
  <2>1. CASE i = 1
    <3>1. n # 0 => l[2] = list[1]
      BY SMTT(30), <1>2
    <3>. QED
      BY SMTT(30), <1>1, <1>2, <2>1, <3>1 DEF Chain
  <2>2. CASE i # 1
    <3>1. i - 1 \in 1..n /\ next[list[i - 1]] = IF i - 1 = n THEN NULL ELSE list[(i - 1) + 1]
      BY <1>1, <1>2, <2>2 DEF Chain
    <3>2. i # m => l[i + 1] = list[(i + 1) - 1] /\ (i + 1) - 1 = (i - 1) + 1
      BY SMTT(30), <1>2
    <3>3. next'[l[i]] = next[list[i - 1]]
      BY <1>2, <1>4, <2>2, <3>1
    <3>. QED
      BY SMTT(30), <2>2, <3>1, <3>2, <3>3
  <2>. QED
    BY <2>1, <2>2
<1>6. \A i, j \in 1..m : l[i] = l[j] => i = j
  <2>. TAKE i, j \in 1..m
  <2>1. i # 1 /\ j # 1 /\ list[i - 1] = list[j - 1] => i - 1 = j - 1
    BY <1>1, <1>2 DEF Chain
  <2>. QED
    BY SMTT(30), <1>2, <1>4, <2>1
<1>7. \A q \in Pages : q \in Free' <=> \E i \in 1..m : l[i] = q
  <2>. TAKE q \in Pages
  <2>1. ASSUME NEW i \in 1..m, l[i] = q PROVE q \in Free'
    BY <1>1, <1>2, <2>1 DEF Chain
  <2>2. ASSUME q \in Free' PROVE \E i \in 1..m : l[i] = q
    <3>1. CASE q = p
      BY <1>2, <3>1
    <3>2. CASE q # p
      <4>1. PICK i \in 1..n : list[i] = q
        BY <1>1, <2>2, <3>2 DEF Chain
      <4>2. i + 1 \in 1..m /\ l[i + 1] = list[(i + 1) - 1] /\ (i + 1) - 1 = i
        BY SMTT(30), <1>2
      <4>. QED
        BY <4>1, <4>2
    <3>. QED
      BY <3>1, <3>2
  <2>. QED
    BY <2>1, <2>2
<1>8. page_freelist' = IF m = 0 THEN NULL ELSE l[1]
  BY SMTT(30), <1>2
<1>. HIDE DEF m
<1>9. Chain(m, l)'
  BY <1>5, <1>6, <1>7, <1>8 DEF Chain
<1>. QED
  BY <1>2, <1>3, <1>9 DEF Chained

-----------------------------------------------------------------------------

\* Who comes to the list in pf_alloc is alone there.
LEMMA BeginAlone ==
    ASSUME AllocatorsApart, PfaAssumption, PfaInv, NEW t \in Allocators, Runs(t), ~Allocs(t)
    PROVE  \A u \in Tasks : ~Allocs(u)
<1>. SUFFICES ASSUME NEW u \in Tasks, Allocs(u) PROVE FALSE
  OBVIOUS
<1>1. u \in Allocators
  BY DEF PfaInv, Calls
<1>2. u # t
  OBVIOUS
<1>3. u \in off
  BY <1>1, <1>2 DEF AllocatorsApart, PfaInv, PfaTypeOK
<1>4. op[u].at \notin {"idle", "asleep"}
  BY DEF Allocs
<1>. QED
  BY <1>2, <1>3, <1>4 DEF Runs, Unpreempted

\* pf_alloc finds a frame on the list, or none.
LEMMA TestStep ==
    ASSUME AllocatorsApart, PfaAssumption, PfaInv, NEW t \in Allocators, AllocTest(t)
    PROVE  PfaInv'
<1>. USE DEF PfaInv
<1>p. PICK o : o = [at |-> IF page_freelist = NULL THEN "cli" ELSE "old"]
  OBVIOUS
<1>0. o.at = IF page_freelist = NULL THEN "cli" ELSE "old"
  BY <1>p
<1>1. t \in Tasks /\ o \in Ops /\ op[t].at = "idle" /\ Goto(t, o)
  BY <1>p DEF PfaAssumption, Ops, AllocTest, At
<1>2. op' \in [Tasks -> Ops] /\ op'[t] = o /\ \A u \in Tasks \ {t} : op'[u] = op[u]
  BY <1>1, OpSet
<1>3. \A u \in Tasks : ~Allocs(u)
  BY <1>1, BeginAlone DEF AllocTest, At, Allocs
<1>4. PfaTypeOK'
  BY <1>2 DEF PfaTypeOK, AllocTest
<1>5. \A u \in Tasks : (Frees(u)' <=> Frees(u)) /\ (Frees(u) => op'[u] = op[u])
  BY SMTT(30), <1>0, <1>1, <1>2 DEF Frees
<1>6. \A p : p \in Free' <=> p \in Free
  BY <1>5, FreeIs, FreeIsNext DEF AllocTest
<1>7. Placed'
  BY <1>5 DEF Placed, AllocTest
<1>8. Calls'
  BY SMTT(30), <1>0, <1>1, <1>2, <1>3, <1>6 DEF Calls, Allocs, Purges, AllocTest
<1>9. Chained'
  BY <1>6, ChainKept DEF AllocTest
<1>. QED
  BY <1>4, <1>7, <1>8, <1>9

\* On its way to the purge, and while it sleeps there, pf_alloc changes nothing.
LEMMA MoveStep ==
    ASSUME PfaAssumption, PfaInv, NEW t \in Tasks, AllocCli(t) \/ PurgeSleep(t) \/ PurgeWake(t)
    PROVE  PfaInv' /\ Freeing' = Freeing /\ used' = used /\ cache' = cache
<1>. USE DEF PfaInv
<1>0. PICK o \in Ops : o.at \in {"purge", "asleep"} /\ Goto(t, o)
  BY DEF Ops, AllocCli, PurgeSleep, PurgeWake
<1>1. op[t].at \in {"cli", "purge", "asleep"} /\ UNCHANGED <<page_freelist, next, used, cache, off>>
  BY DEF AllocCli, PurgeSleep, PurgeWake, At
<1>2. op' \in [Tasks -> Ops] /\ op'[t] = o /\ \A u \in Tasks \ {t} : op'[u] = op[u]
  BY <1>0, OpSet
<1>4. PfaTypeOK'
  BY <1>1, <1>2 DEF PfaTypeOK
<1>5. \A u \in Tasks : (Frees(u)' <=> Frees(u)) /\ (Frees(u) => op'[u] = op[u])
  BY SMTT(30), <1>0, <1>1, <1>2 DEF Frees
<1>6. \A p : p \in Free' <=> p \in Free
  BY <1>1, <1>5, FreeIs, FreeIsNext
<1>7. Placed'
  BY <1>1, <1>5 DEF Placed
<1>8. Calls'
  BY SMTT(30), <1>0, <1>1, <1>2, <1>6 DEF Calls, Allocs, Purges
<1>9. Chained'
  BY <1>1, <1>6, ChainKept
<1>10. Freeing' = Freeing
  BY <1>5 DEF Freeing, Frees
<1>. QED
  BY <1>1, <1>4, <1>7, <1>8, <1>9, <1>10

\* The assertion after the purge holds: the frames are still on the list.
LEMMA EndStep ==
    ASSUME PfaAssumption, PfaInv, NEW t \in Tasks, PurgeEnd(t)
    PROVE  PfaInv' /\ Freeing' = Freeing /\ used' = used /\ cache' = cache
<1>. USE DEF PfaInv
<1>. DEFINE o == [at |-> "old"]
<1>0. op[t].at = "frees" /\ page_freelist # NULL
  BY DEF PurgeEnd, At, Calls
<1>1. o \in Ops /\ o.at = "old" /\ Goto(t, o) /\ UNCHANGED <<page_freelist, next, used, cache, off>>
  BY <1>0 DEF PurgeEnd, Ops
<1>. HIDE DEF o
<1>2. op' \in [Tasks -> Ops] /\ op'[t] = o /\ \A u \in Tasks \ {t} : op'[u] = op[u]
  BY <1>1, OpSet
<1>4. PfaTypeOK'
  BY <1>1, <1>2 DEF PfaTypeOK
<1>5. \A u \in Tasks : (Frees(u)' <=> Frees(u)) /\ (Frees(u) => op'[u] = op[u])
  BY SMTT(30), <1>0, <1>1, <1>2 DEF Frees
<1>6. \A p : p \in Free' <=> p \in Free
  BY <1>1, <1>5, FreeIs, FreeIsNext
<1>7. Placed'
  BY <1>1, <1>5 DEF Placed
<1>8. Calls'
  BY SMTT(30), <1>0, <1>1, <1>2, <1>6 DEF Calls, Allocs, Purges
<1>9. Chained'
  BY <1>1, <1>6, ChainKept
<1>10. Freeing' = Freeing
  BY <1>5 DEF Freeing, Frees
<1>. QED
  BY <1>1, <1>4, <1>7, <1>8, <1>9, <1>10

\* The list is not empty when pf_alloc reads its head.
LEMMA OldStep ==
    ASSUME PfaAssumption, PfaInv, NEW t \in Tasks, AllocOld(t)
    PROVE  PfaInv'
<1>. USE DEF PfaInv
<1>. DEFINE o == [at |-> "next", old |-> page_freelist]
<1>1. o \in Ops /\ op[t].at = "old" /\ Goto(t, o)
  BY DEF Ops, AllocOld, At, PfaTypeOK
<1>2. op' \in [Tasks -> Ops] /\ op'[t] = o /\ \A u \in Tasks \ {t} : op'[u] = op[u]
  BY <1>1, OpSet
<1>3. page_freelist \in Free
  <2>0. PICK n \in Nat : \E list \in [1..n -> Pages] : Chain(n, list)
    BY DEF Chained
  <2>1. PICK list \in [1..n -> Pages] : Chain(n, list)
    BY <2>0
  <2>2. page_freelist # NULL
    BY <1>1 DEF Calls
  <2>3. n # 0 /\ 1 \in 1..n /\ page_freelist = list[1]
    BY SMTT(30), <2>1, <2>2 DEF Chain
  <2>. QED
    BY SMTT(30), <2>1, <2>3 DEF Chain
<1>4. PfaTypeOK'
  BY <1>2 DEF PfaTypeOK, AllocOld
<1>5. \A u \in Tasks : (Frees(u)' <=> Frees(u)) /\ (Frees(u) => op'[u] = op[u])
  BY SMTT(30), <1>1, <1>2 DEF Frees
<1>6. \A p : p \in Free' <=> p \in Free
  BY <1>5, FreeIs, FreeIsNext DEF AllocOld
<1>7. Placed'
  BY <1>5 DEF Placed, AllocOld
<1>8. Calls'
  BY SMTT(30), <1>1, <1>2, <1>3, <1>6 DEF Calls, Allocs, Purges, AllocOld
<1>9. Chained'
  BY <1>6, ChainKept DEF AllocOld
<1>. QED
  BY <1>4, <1>7, <1>8, <1>9

\* The head it has read is on the list, so old->next is the next free frame.
LEMMA NextStep ==
    ASSUME PfaAssumption, PfaInv, NEW t \in Tasks, AllocNext(t)
    PROVE  PfaInv'
<1>. USE DEF PfaInv
<1>. DEFINE o == [at |-> "cas", old |-> op[t].old, new |-> next[op[t].old]]
<1>0. op[t].at = "next" /\ op[t].old \in Free /\ op[t].old \in Pages /\ op[t].old # NULL
  BY DEF AllocNext, At, Calls, Free, PfaAssumption
<1>1. o \in Ops /\ Goto(t, o)
  BY <1>0 DEF Ops, AllocNext, PfaTypeOK, Page0
<1>2. op' \in [Tasks -> Ops] /\ op'[t] = o /\ \A u \in Tasks \ {t} : op'[u] = op[u]
  BY <1>1, OpSet
<1>4. PfaTypeOK'
  BY <1>2 DEF PfaTypeOK, AllocNext
<1>5. \A u \in Tasks : (Frees(u)' <=> Frees(u)) /\ (Frees(u) => op'[u] = op[u])
  BY SMTT(30), <1>0, <1>2 DEF Frees
<1>6. \A p : p \in Free' <=> p \in Free
  BY <1>5, FreeIs, FreeIsNext DEF AllocNext
<1>7. Placed'
  BY <1>5 DEF Placed, AllocNext
<1>8. Calls'
  BY SMTT(30), <1>0, <1>2, <1>6 DEF Calls, Allocs, Purges, AllocNext
<1>9. Chained'
  BY <1>6, ChainKept DEF AllocNext
<1>. QED
  BY <1>4, <1>7, <1>8, <1>9

\* pf_alloc gives up.
LEMMA FailStep ==
    ASSUME PfaAssumption, PfaInv, NEW t \in Tasks, AllocFail(t)
    PROVE  PfaInv' /\ Freeing' = Freeing /\ used' = used /\ cache' = cache
<1>. USE DEF PfaInv
<1>0. Idle \in Ops /\ Idle.at = "idle" /\ op[t].at = "purge" /\ Goto(t, Idle)
  BY DEF Ops, Idle, AllocFail, At
<1>1. UNCHANGED <<page_freelist, next, used, cache>> /\ off' = off \cup {t}
  BY DEF AllocFail
<1>2. op' \in [Tasks -> Ops] /\ op'[t] = Idle /\ \A u \in Tasks \ {t} : op'[u] = op[u]
  BY <1>0, OpSet
<1>4. PfaTypeOK'
  BY <1>1, <1>2 DEF PfaTypeOK
<1>5. \A u \in Tasks : (Frees(u)' <=> Frees(u)) /\ (Frees(u) => op'[u] = op[u])
  BY SMTT(30), <1>0, <1>2 DEF Frees
<1>6. \A p : p \in Free' <=> p \in Free
  BY <1>1, <1>5, FreeIs, FreeIsNext
<1>7. Placed'
  BY <1>1, <1>5 DEF Placed
<1>8. Calls'
  BY SMTT(30), <1>0, <1>1, <1>2, <1>6 DEF Calls, Allocs, Purges
<1>9. Chained'
  BY <1>1, <1>6, ChainKept
<1>10. Freeing' = Freeing
  BY <1>5 DEF Freeing, Frees
<1>. QED
  BY <1>1, <1>4, <1>7, <1>8, <1>9, <1>10

\* A purged frame goes before the others on the list.
LEMMA PurgeStep ==
    ASSUME AllocatorsApart, PfaAssumption, PfaInv, NEW t \in Tasks, PurgeFrame(t)
    PROVE  /\ PfaInv' /\ Freeing' = Freeing /\ used' = used
           /\ \E p \in cache : cache' = cache \ {p} /\ \A q : q \in Free' <=> q \in Free \/ q = p
<1>. USE DEF PfaInv
<1>. DEFINE o == [at |-> "frees"]
<1>1. o \in Ops /\ o.at = "frees" /\ op[t].at \in {"purge", "frees"} /\ Goto(t, o) /\ Runs(t)
  BY DEF Ops, PurgeFrame
<1>. HIDE DEF o
<1>2. op' \in [Tasks -> Ops] /\ op'[t] = o /\ \A u \in Tasks \ {t} : op'[u] = op[u]
  BY <1>1, OpSet
<1>0. t \in Allocators
  BY <1>1 DEF Calls, Purges, Allocs
<1>3. \A u \in Tasks \ {t} : ~Allocs(u)
  <2>1. CASE op[t].at = "purge"
    BY <1>0, <1>1, <2>1, BeginAlone DEF Allocs
  <2>2. CASE op[t].at = "frees"
    BY <2>2 DEF Calls, Allocs, Purges
  <2>. QED
    BY <1>1, <2>1, <2>2
<1>p. PICK p \in cache : /\ cache' = cache \ {p} /\ page_freelist' = p
                         /\ next' = [next EXCEPT ![p] = page_freelist]
  BY DEF PurgeFrame
<1>a. used' = used /\ off' = off
  BY DEF PurgeFrame
<1>4. p \in Pages /\ p # NULL /\ next'[p] = page_freelist /\ \A q \in Pages \ {p} : next'[q] = next[q]
  BY <1>p DEF PfaTypeOK, PfaAssumption
<1>5. PfaTypeOK'
  BY <1>2, <1>a, <1>p, <1>4 DEF PfaTypeOK, Page0
<1>6. \A u \in Tasks : (Frees(u)' <=> Frees(u)) /\ (Frees(u) => op'[u] = op[u])
  BY SMTT(30), <1>1, <1>2 DEF Frees
<1>7. p \notin Free /\ p \notin used /\ \A u \in Tasks : Frees(u) => op[u].frame # p
  BY <1>p, FreeIs DEF Placed
<1>8. \A q : q \in Free' <=> q \in Free \/ q = p
  <2>1. \A q : q # p => (q \in Free' <=> q \in Free)
    BY <1>6, <1>a, <1>p, FreeIs, FreeIsNext
  <2>2. p \in Free'
    BY <1>4, <1>6, <1>7, <1>a, <1>p, FreeIsNext
  <2>. QED
    BY <2>1, <2>2
<1>9. Placed'
  BY <1>6, <1>a, <1>p DEF Placed
<1>10. Calls'
  <2>1. \A u \in Tasks : op[u].at = "swap" => op[u].frame \in Pages /\ op[u].frame # p
    BY <1>7, OpKinds DEF Frees
  <2>. QED
    BY SMTT(30), <1>0, <1>1, <1>2, <1>3, <1>4, <1>p, <2>1 DEF Calls, Allocs, Purges
<1>11. Chained'
  BY <1>4, <1>7, <1>8, <1>p, ChainPush
<1>12. Freeing' = Freeing
  BY <1>6 DEF Freeing, Frees
<1>. QED
  BY <1>5, <1>8, <1>9, <1>10, <1>11, <1>12, <1>a, <1>p

\* pf_alloc's cmpxchg takes the first frame off the list, and no other.
LEMMA CasStep ==
    ASSUME PfaAssumption, PfaInv, NEW t \in Tasks, AllocCas(t), page_freelist = op[t].old
    PROVE  /\ PfaInv'
           /\ op[t].old \in Free /\ \A q : q \in Free' <=> q \in Free /\ q # op[t].old
<1>. USE DEF PfaInv
<1>. DEFINE old == op[t].old
<1>0. op[t].at = "cas" /\ old \in Free /\ old \in Pages /\ old # NULL /\ op[t].new = next[old] /\ Allocs(t)
  BY DEF AllocCas, At, Calls, Free, PfaAssumption, Allocs
<1>1. Idle \in Ops /\ Goto(t, Idle)
  BY DEF Ops, AllocCas, Idle
<1>2. op' \in [Tasks -> Ops] /\ op'[t] = Idle /\ \A u \in Tasks \ {t} : op'[u] = op[u]
  BY <1>1, OpSet
<1>3. page_freelist' = next[old] /\ used' = used \cup {old} /\ cache' = cache /\ off' = off
  BY <1>0 DEF AllocCas
<1>4. next' \in [Pages -> Page0] /\ \A q \in Pages \ {old} : next'[q] = next[q]
  BY <1>0 DEF AllocCas, PfaTypeOK, Page0
<1>. HIDE DEF old
<1>5. PfaTypeOK'
  BY <1>0, <1>2, <1>3, <1>4 DEF PfaTypeOK
<1>6. \A u \in Tasks : (Frees(u)' <=> Frees(u)) /\ (Frees(u) => op'[u] = op[u])
  BY SMTT(30), <1>0, <1>2 DEF Frees, Idle
<1>7. \A q : q \in Free' <=> q \in Free /\ q # old
  BY <1>3, <1>6, FreeIs, FreeIsNext
<1>8. old \notin used \cup cache /\ \A u \in Tasks : Frees(u) => op[u].frame # old
  BY <1>0, FreeIs
<1>9. Placed'
  BY <1>3, <1>6, <1>8 DEF Placed
<1>10. \A u \in Tasks \ {t} : ~Allocs(u)
  BY <1>0 DEF Calls
<1>11. Calls'
  <2>1. \A u \in Tasks : op[u].at = "swap" => op[u].frame \in Pages /\ op[u].frame # old
    BY <1>8, OpKinds DEF Frees
  <2>2. \A u \in Tasks : ~Allocs(u)'
    BY SMTT(30), <1>2, <1>10 DEF Allocs, Idle
  <2>3. \A u \in Tasks : op'[u].at # "fault"
    BY SMTT(30), <1>2 DEF Calls, Idle
  <2>4. \A u \in Tasks : op'[u].at = "swap" => op'[u].old = next'[op'[u].frame]
    BY SMTT(30), <1>2, <1>4, <2>1 DEF Calls, Idle
  <2>5. \A u \in Tasks : Purges(u)' => u \in Allocators
    BY SMTT(30), <1>2 DEF Calls, Purges, Idle
  <2>. QED
    BY <2>2, <2>3, <2>4, <2>5 DEF Calls, Allocs
<1>12. Chained'
  <2>0. PICK n \in Nat : \E list \in [1..n -> Pages] : Chain(n, list)
    BY DEF Chained
  <2>1. PICK list \in [1..n -> Pages] : Chain(n, list)
    BY <2>0
  <2>2. n # 0 /\ 1 \in 1..n /\ list[1] = old
    BY SMTT(30), <1>0, <2>1 DEF Chain, old
  <2>. DEFINE m == n - 1
              l == [i \in 1..m |-> list[i + 1]]
  <2>3. m \in Nat /\ l \in [1..m -> Pages] /\ \A i \in 1..m : i + 1 \in 1..n /\ l[i] = list[i + 1]
    BY SMTT(30), <2>2
  <2>. HIDE DEF l
  <2>4. page_freelist' = IF m = 0 THEN NULL ELSE l[1]
    BY SMTT(30), <1>3, <2>1, <2>2, <2>3 DEF Chain
  <2>5. \A i \in 1..m : l[i] # old
    BY SMTT(30), <2>1, <2>2, <2>3 DEF Chain
  <2>6. \A i \in 1..m : next'[l[i]] = IF i = m THEN NULL ELSE l[i + 1]
    <3>. TAKE i \in 1..m
    <3>1. next'[l[i]] = next[list[i + 1]] /\ i + 1 \in 1..n
      BY <1>4, <2>3, <2>5
    <3>2. next[list[i + 1]] = IF i + 1 = n THEN NULL ELSE list[(i + 1) + 1]
      BY <2>1, <3>1 DEF Chain
    <3>3. i # m => l[i + 1] = list[(i + 1) + 1]
      BY SMTT(30), <2>3
    <3>. QED
      BY SMTT(30), <3>1, <3>2, <3>3
  <2>7. \A i, j \in 1..m : l[i] = l[j] => i = j
    <3>. TAKE i, j \in 1..m
    <3>1. list[i + 1] = list[j + 1] => i + 1 = j + 1
      BY <2>1, <2>3 DEF Chain
    <3>. QED
      BY SMTT(30), <2>3, <3>1
  <2>8. \A p \in Pages : p \in Free' <=> \E i \in 1..m : l[i] = p
    <3>. TAKE p \in Pages
    <3>1. ASSUME NEW i \in 1..m, l[i] = p PROVE p \in Free'
      BY <1>7, <2>1, <2>3, <2>5, <3>1 DEF Chain
    <3>2. ASSUME p \in Free' PROVE \E i \in 1..m : l[i] = p
      <4>1. PICK i \in 1..n : list[i] = p
        BY <1>7, <2>1, <3>2 DEF Chain
      <4>2. i # 1
        BY <1>7, <2>2, <3>2, <4>1
      <4>3. i - 1 \in 1..m /\ l[i - 1] = list[(i - 1) + 1] /\ (i - 1) + 1 = i
        BY SMTT(30), <2>3, <4>2
      <4>. QED
        BY <4>1, <4>3
    <3>. QED
      BY <3>1, <3>2
  <2>9. Chain(m, l)'
    BY <2>4, <2>6, <2>7, <2>8 DEF Chain
  <2>. QED
    BY <2>3, <2>9 DEF Chained
<1>. QED
  BY <1>0, <1>5, <1>7, <1>9, <1>11, <1>12 DEF old

\* pf_alloc's cmpxchg fails, because frames have come back: it goes round.
LEMMA RetryStep ==
    ASSUME PfaAssumption, PfaInv, NEW t \in Tasks, AllocCas(t), page_freelist # op[t].old
    PROVE  PfaInv' /\ used' = used /\ cache' = cache /\ \A p : p \in Free' <=> p \in Free
<1>. USE DEF PfaInv
<1>. DEFINE o == [at |-> "old"]
<1>1. o \in Ops /\ op[t].at = "cas" /\ op[t].old \in Free /\ Goto(t, o)
  BY DEF Ops, AllocCas, At, Calls
<1>2. op' \in [Tasks -> Ops] /\ op'[t] = o /\ \A u \in Tasks \ {t} : op'[u] = op[u]
  BY <1>1, OpSet
<1>3. UNCHANGED <<page_freelist, next, used, cache, off>>
  BY DEF AllocCas
\* A frame is on the list, so it is not empty.
<1>4. page_freelist # NULL
  <2>0. PICK n \in Nat : \E list \in [1..n -> Pages] : Chain(n, list)
    BY DEF Chained
  <2>1. PICK list \in [1..n -> Pages] : Chain(n, list)
    BY <2>0
  <2>2. \E i \in 1..n : list[i] = op[t].old
    BY <1>1, <2>1 DEF Chain, Free
  <2>3. n # 0 /\ 1 \in 1..n
    BY SMTT(30), <2>2
  <2>4. page_freelist = list[1] /\ list[1] \in Pages
    BY <2>1, <2>3 DEF Chain
  <2>. QED
    BY <2>4 DEF PfaAssumption
<1>5. PfaTypeOK'
  BY <1>2, <1>3 DEF PfaTypeOK
<1>6. \A u \in Tasks : (Frees(u)' <=> Frees(u)) /\ (Frees(u) => op'[u] = op[u])
  BY SMTT(30), <1>1, <1>2 DEF Frees
<1>7. \A p : p \in Free' <=> p \in Free
  BY <1>3, <1>6, FreeIs, FreeIsNext
<1>8. Placed'
  BY <1>3, <1>6 DEF Placed
<1>9. Calls'
  BY SMTT(30), <1>1, <1>2, <1>3, <1>4, <1>7 DEF Calls, Allocs, Purges
<1>10. Chained'
  BY <1>3, <1>7, ChainKept
<1>. QED
  BY <1>3, <1>5, <1>7, <1>8, <1>9, <1>10

-----------------------------------------------------------------------------

\* pf_free has a frame that is nowhere else.
LEMMA BeginStep ==
    ASSUME PfaAssumption, PfaInv, NEW t \in Tasks, NEW p \in used \cup cache, FreeBegin(t, p)
    PROVE  /\ PfaInv' /\ used' = used \ {p} /\ cache' = cache \ {p} /\ \A q : q \in Free' <=> q \in Free
           /\ p \notin Freeing /\ \A q : q \in Freeing' <=> q \in Freeing \/ q = p
<1>. USE DEF PfaInv
<1>. DEFINE o == [at |-> "link", frame |-> p]
<1>1. p \in Pages /\ o \in Ops /\ op[t].at = "idle" /\ Goto(t, o)
  BY DEF Ops, FreeBegin, At, PfaTypeOK
<1>2. op' \in [Tasks -> Ops] /\ op'[t] = o /\ \A u \in Tasks \ {t} : op'[u] = op[u]
  BY <1>1, OpSet
<1>3. UNCHANGED <<page_freelist, next, off>> /\ used' = used \ {p} /\ cache' = cache \ {p}
  BY DEF FreeBegin
<1>4. PfaTypeOK'
  BY <1>2, <1>3 DEF PfaTypeOK
<1>5. /\ \A u \in Tasks \ {t} : (Frees(u)' <=> Frees(u)) /\ op'[u] = op[u]
      /\ ~Frees(t) /\ Frees(t)' /\ op'[t].frame = p
  BY SMTT(30), <1>1, <1>2 DEF Frees
<1>6. \A u \in Tasks : Frees(u) => op[u].frame # p
  BY DEF Placed
<1>7. \A q : q \in Free' <=> q \in Free
  BY SMTT(30), <1>3, <1>5, FreeIs, FreeIsNext
<1>8. Placed'
  BY <1>3, <1>5, <1>6 DEF Placed
<1>9. Calls'
  BY SMTT(30), <1>1, <1>2, <1>3, <1>7 DEF Calls, Allocs, Purges
<1>10. Chained'
  BY <1>3, <1>7, ChainKept
<1>11. p \notin Freeing
  BY <1>6 DEF Freeing, Frees
<1>12. \A q : q \in Freeing' <=> q \in Freeing \/ q = p
  BY SMTT(30), <1>5 DEF Freeing, Frees
<1>. QED
  BY <1>3, <1>4, <1>7, <1>8, <1>9, <1>10, <1>11, <1>12

\* pf_free writes to its own frame only.
LEMMA LinkStep ==
    ASSUME PfaAssumption, PfaInv, NEW t \in Tasks, FreeLink(t)
    PROVE  PfaInv' /\ \A q : q \in Freeing' <=> q \in Freeing
<1>. USE DEF PfaInv
<1>. DEFINE o == [op[t] EXCEPT !.at = "read"]
            p == op[t].frame
<1>0. op[t].at = "link" /\ op[t] \in Ops /\ Goto(t, o)
  BY OpKinds DEF FreeLink, At
<1>1. op[t] \in [at : {"link", "read"}, frame : Pages]
  BY <1>0 DEF Ops
<1>2. o \in [at : {"link", "read"}, frame : Pages] /\ o.at = "read" /\ o.frame = p /\ p \in Pages
  BY <1>1
<1>3. o \in Ops
  BY <1>2 DEF Ops
<1>. HIDE DEF o, p
<1>4. op' \in [Tasks -> Ops] /\ op'[t] = o /\ \A u \in Tasks \ {t} : op'[u] = op[u]
  BY <1>0, <1>3, OpSet
<1>5. UNCHANGED <<page_freelist, used, cache, off>> /\ next' = [next EXCEPT ![p] = page_freelist]
  BY DEF FreeLink, p
<1>6. next' \in [Pages -> Page0] /\ \A q \in Pages \ {p} : next'[q] = next[q]
  BY <1>2, <1>5 DEF PfaTypeOK
<1>7. PfaTypeOK'
  BY <1>4, <1>5, <1>6 DEF PfaTypeOK
<1>8. \A u \in Tasks : (Frees(u)' <=> Frees(u)) /\ (Frees(u) => op'[u].frame = op[u].frame)
  BY <1>0, <1>2, <1>4 DEF Frees, p
<1>9. \A q : q \in Free' <=> q \in Free
  BY <1>5, <1>8, FreeIs, FreeIsNext
<1>10. p \notin Free /\ \A u \in Tasks \ {t} : Frees(u) => op[u].frame # p
  BY <1>0, FreeIs DEF Placed, Frees, p
<1>11. Placed'
  BY <1>5, <1>8 DEF Placed
<1>12. Calls'
  <2>1. \A u \in Tasks \ {t} : op[u].at = "swap" => op[u].frame \in Pages /\ op[u].frame # p
    BY <1>10, OpKinds DEF Frees
  <2>2. \A u \in Tasks : op[u].at = "cas" => op[u].old \in Pages /\ op[u].old # p
    BY <1>10 DEF Calls, Free
  <2>3. \A u \in Tasks : op'[u].at = "swap" => op'[u].old = next'[op'[u].frame]
    BY SMTT(30), <1>2, <1>4, <1>6, <2>1 DEF Calls
  <2>4. \A u \in Tasks : op'[u].at = "cas" => op'[u].new = next'[op'[u].old]
    BY SMTT(30), <1>2, <1>4, <1>6, <2>2 DEF Calls
  <2>. QED
    BY SMTT(30), <1>2, <1>4, <1>5, <1>9, <2>3, <2>4 DEF Calls, Allocs, Purges
<1>13. Chained'
  <2>1. \A q \in Free : next'[q] = next[q]
    BY <1>6, <1>10 DEF Free
  <2>. QED
    BY <1>5, <1>9, <2>1, ChainKept
<1>14. \A q : q \in Freeing' <=> q \in Freeing
  BY <1>8 DEF Freeing, Frees
<1>. QED
  BY <1>7, <1>11, <1>12, <1>13, <1>14

\* pf_free reads back what it wrote.
LEMMA ReadStep ==
    ASSUME PfaAssumption, PfaInv, NEW t \in Tasks, FreeRead(t)
    PROVE  PfaInv' /\ \A q : q \in Freeing' <=> q \in Freeing
<1>. USE DEF PfaInv
<1>. DEFINE o == [at |-> "swap", frame |-> op[t].frame, old |-> next[op[t].frame]]
<1>1. op[t].at = "read" /\ op[t].frame \in Pages
  BY OpKinds DEF FreeRead, At, Frees
<1>2. o \in Ops /\ Goto(t, o)
  BY <1>1 DEF Ops, FreeRead, PfaTypeOK
<1>3. op' \in [Tasks -> Ops] /\ op'[t] = o /\ \A u \in Tasks \ {t} : op'[u] = op[u]
  BY <1>2, OpSet
<1>4. UNCHANGED <<page_freelist, next, used, cache, off>>
  BY DEF FreeRead
<1>5. PfaTypeOK'
  BY <1>3, <1>4 DEF PfaTypeOK
<1>6. \A u \in Tasks : (Frees(u)' <=> Frees(u)) /\ (Frees(u) => op'[u].frame = op[u].frame)
  BY SMTT(30), <1>1, <1>3 DEF Frees
<1>7. \A q : q \in Free' <=> q \in Free
  BY <1>4, <1>6, FreeIs, FreeIsNext
<1>8. Placed'
  BY <1>4, <1>6 DEF Placed
<1>9. Calls'
  BY SMTT(30), <1>1, <1>3, <1>4, <1>7 DEF Calls, Allocs, Purges
<1>10. Chained'
  BY <1>4, <1>7, ChainKept
<1>11. \A q : q \in Freeing' <=> q \in Freeing
  BY <1>6 DEF Freeing, Frees
<1>. QED
  BY <1>5, <1>8, <1>9, <1>10, <1>11

\* pf_free's cmpxchg fails: it goes round.
LEMMA SwapFailStep ==
    ASSUME PfaAssumption, PfaInv, NEW t \in Tasks, FreeSwap(t), page_freelist # op[t].old
    PROVE  PfaInv' /\ \A q : q \in Freeing' <=> q \in Freeing
<1>. USE DEF PfaInv
<1>. DEFINE o == [at |-> "link", frame |-> op[t].frame]
<1>1. op[t].at = "swap" /\ op[t].frame \in Pages
  BY OpKinds DEF FreeSwap, At, Frees
<1>2. o \in Ops /\ Goto(t, o)
  BY <1>1 DEF Ops, FreeSwap
<1>3. op' \in [Tasks -> Ops] /\ op'[t] = o /\ \A u \in Tasks \ {t} : op'[u] = op[u]
  BY <1>2, OpSet
<1>4. UNCHANGED <<page_freelist, next, used, cache, off>>
  BY DEF FreeSwap
<1>5. PfaTypeOK'
  BY <1>3, <1>4 DEF PfaTypeOK
<1>6. \A u \in Tasks : (Frees(u)' <=> Frees(u)) /\ (Frees(u) => op'[u].frame = op[u].frame)
  BY SMTT(30), <1>1, <1>3 DEF Frees
<1>7. \A q : q \in Free' <=> q \in Free
  BY <1>4, <1>6, FreeIs, FreeIsNext
<1>8. Placed'
  BY <1>4, <1>6 DEF Placed
<1>9. Calls'
  BY SMTT(30), <1>1, <1>3, <1>4, <1>7 DEF Calls, Allocs, Purges
<1>10. Chained'
  BY <1>4, <1>7, ChainKept
<1>11. \A q : q \in Freeing' <=> q \in Freeing
  BY <1>6 DEF Freeing, Frees
<1>. QED
  BY <1>5, <1>8, <1>9, <1>10, <1>11

\* pf_free's cmpxchg puts the frame before the list it is linked to.
LEMMA SwapStep ==
    ASSUME PfaAssumption, PfaInv, NEW t \in Tasks, FreeSwap(t), page_freelist = op[t].old
    PROVE  /\ PfaInv' /\ op[t].frame \in Freeing
           /\ \A q : q \in Freeing' <=> q \in Freeing /\ q # op[t].frame
           /\ \A q : q \in Free' <=> q \in Free \/ q = op[t].frame
<1>. USE DEF PfaInv
<1>p. PICK p : p = op[t].frame
  OBVIOUS
<1>0. op[t].at = "swap" /\ p \in Pages /\ p # NULL /\ Frees(t) /\ next[p] = page_freelist
  BY <1>p, OpKinds DEF FreeSwap, At, Frees, PfaAssumption, Calls
<1>1. Idle \in Ops /\ Goto(t, Idle)
  BY DEF Ops, FreeSwap, Idle
<1>2. op' \in [Tasks -> Ops] /\ op'[t] = Idle /\ \A u \in Tasks \ {t} : op'[u] = op[u]
  BY <1>1, OpSet
<1>3. UNCHANGED <<next, used, cache, off>> /\ page_freelist' = p
  BY <1>p DEF FreeSwap
<1>4. PfaTypeOK'
  BY <1>0, <1>2, <1>3 DEF PfaTypeOK, Page0
<1>5. /\ \A u \in Tasks \ {t} : (Frees(u)' <=> Frees(u)) /\ op'[u] = op[u]
      /\ ~Frees(t)'
  BY SMTT(30), <1>2 DEF Frees, Idle
<1>6. p \notin used \cup cache /\ \A u \in Tasks \ {t} : Frees(u) => op[u].frame # p
  BY <1>0, <1>p DEF Placed
<1>7. \A q : q \in Free' <=> q \in Free \/ q = p
  BY SMTT(30), <1>0, <1>3, <1>5, <1>6, <1>p, FreeIs, FreeIsNext
<1>8. Placed'
  BY <1>3, <1>5 DEF Placed
<1>9. Calls'
  <2>1. \A u \in Tasks \ {t} : op'[u] = op[u]
    BY <1>2
  <2>2. op'[t].at = "idle"
    BY SMTT(30), <1>2 DEF Idle
  <2>. QED
    BY SMTT(30), <1>0, <1>3, <1>7, <2>1, <2>2 DEF Calls, Allocs, Purges
<1>10. p \notin Free
  BY <1>0, <1>p, FreeIs
<1>11. Chained'
  <2>1. \A q \in Pages \ {p} : next'[q] = next[q]
    BY <1>3
  <2>. QED
    BY <1>0, <1>3, <1>7, <1>10, <2>1, ChainPush
<1>12. p \in Freeing /\ \A q : q \in Freeing' <=> q \in Freeing /\ q # p
  BY SMTT(30), <1>0, <1>5, <1>6, <1>p DEF Freeing, Frees
<1>. QED
  BY <1>4, <1>7, <1>8, <1>9, <1>11, <1>12, <1>p

-----------------------------------------------------------------------------

\* The list that pfa_init builds is a chain of all free frames.
LEMMA PfaInvInit == ASSUME PfaAssumption, Init PROVE PfaInv
<1>. DEFINE S == Pages \ (Used \cup Cached)
            n == Cardinality(S)
<1>1. IsFiniteSet(S) /\ n \in Nat
  <2>1. S \in SUBSET Pages
    OBVIOUS
  <2>2. IsFiniteSet(S)
    BY <2>1, FS_Subset DEF PfaAssumption
  <2>. QED
    BY <2>2, FS_CardinalityType
<1>2. PICK list \in [1..n -> S] :
          /\ \A i, j \in 1..n : list[i] = list[j] => i = j
          /\ page_freelist = IF n = 0 THEN NULL ELSE list[1]
          /\ next = [p \in Pages |->
                       IF \E i \in 1..n - 1 : list[i] = p
                       THEN list[1 + CHOOSE i \in 1..n : list[i] = p] ELSE NULL]
  BY DEF Init
<1>a. used = Used /\ cache = Cached /\ op = [t \in Tasks |-> Idle] /\ off = Masked
  BY DEF Init
<1>3. list \in Surjection(1..n, S)
  <2>1. Cardinality(1..n) = n
    <3>1. n \in Int /\ 1 \in Int /\ n >= 0
      BY SMTT(30), <1>1
    <3>2. Cardinality(1..n) = IF 1 > n THEN 0 ELSE n - 1 + 1
      BY <3>1, FS_Interval
    <3>. QED
      BY SMTT(30), <3>1, <3>2
  <2>2. list \in Injection(1..n, S)
    BY <1>2 DEF Injection, IsInjective
  <2>. QED
    BY <1>1, <2>1, <2>2, FS_Injection
<1>. HIDE DEF n
<1>6. \A i \in 1..n : list[i] \in S /\ list[i] \in Pages
  BY <1>2
<1>7. \A p \in S : \E i \in 1..n : list[i] = p
  BY <1>3 DEF Surjection
<1>8. ASSUME NEW i \in 1..n PROVE next[list[i]] = IF i = n THEN NULL ELSE list[i + 1]
  <2>1. (CHOOSE j \in 1..n : list[j] = list[i]) = i
    BY <1>2
  <2>2. CASE i = n
    <3>1. \A j \in 1..n - 1 : list[j] # list[i]
      BY SMTT(30), <1>1, <1>2, <2>2
    <3>. QED
      BY <1>2, <1>6, <2>2, <3>1
  <2>3. CASE i # n
    <3>1. i \in 1..n - 1
      BY SMTT(30), <1>1, <2>3
    <3>2. next[list[i]] = list[1 + i]
      BY <1>2, <1>6, <2>1, <3>1
    <3>. QED
      BY SMTT(30), <2>3, <3>2
  <2>. QED
    BY <2>2, <2>3
<1>9. next \in [Pages -> Page0]
  <2>1. ASSUME NEW p \in Pages PROVE next[p] \in Page0
    <3>1. CASE \E i \in 1..n - 1 : list[i] = p
      <4>1. PICK i \in 1..n - 1 : list[i] = p
        BY <3>1
      <4>2. i \in 1..n /\ i # n /\ i + 1 \in 1..n
        BY SMTT(30), <1>1
      <4>. QED
        BY <1>6, <1>8, <4>1, <4>2 DEF Page0
    <3>2. CASE ~ \E i \in 1..n - 1 : list[i] = p
      BY <1>2, <3>2 DEF Page0
    <3>. QED
      BY <3>1, <3>2
  <2>. QED
    BY <1>2, <2>1
<1>11. page_freelist \in Page0
  BY SMTT(30), <1>1, <1>2, <1>6 DEF Page0
<1>12. Idle \in Ops /\ Idle.at = "idle"
  BY DEF Idle, Ops
<1>13. op \in [Tasks -> Ops] /\ \A t \in Tasks : op[t].at = "idle"
  BY <1>a, <1>12
<1>14. PfaTypeOK
  BY <1>9, <1>11, <1>13, <1>a DEF PfaTypeOK, PfaAssumption
<1>15. Placed /\ Calls
  BY <1>13, <1>a DEF Placed, Calls, Frees, Allocs, Purges, PfaAssumption
<1>16. \A p : p \in Free <=> p \in S
  BY <1>13, <1>a, FreeIs DEF Frees
<1>17. Chain(n, list)
  <2>1. \A p \in Pages : p \in Free <=> \E i \in 1..n : list[i] = p
    BY <1>6, <1>7, <1>16
  <2>. QED
    BY <1>2, <1>8, <2>1 DEF Chain
<1>18. list \in [1..n -> Pages]
  BY <1>2
<1>. QED
  BY <1>1, <1>14, <1>15, <1>17, <1>18 DEF PfaInv, Chained

-----------------------------------------------------------------------------

\* A set of numbers has a least one: induction.
LEMMA NatMin == ASSUME NEW S, S \subseteq Nat, S # {} PROVE \E n \in S : \A m \in S : n <= m
<1>0. IsWellFoundedOn({ss \in Nat \X Nat : ss[1] < ss[2]}, Nat)
  BY NatLessThanWellFounded DEF OpToRel
<1>1. PICK n \in S : \A m \in S : ~(<<m, n>> \in {ss \in Nat \X Nat : ss[1] < ss[2]})
  BY <1>0, WFMin
<1>2. \A m \in S : ~(m < n)
  BY <1>1
<1>. QED
  BY SMTT(30), <1>2

\* Following next as often as there are pages finds the free frames, by
\* induction along the chain.
LEMMA OnListIsFree == PfaInv => OnList = Free
<1>. SUFFICES ASSUME PfaInv PROVE OnList = Free
  OBVIOUS
<1>. USE PfaAssumption
<1>. USE DEF PfaInv
<1>1. PICK n \in Nat : \E list \in [1..n -> Pages] : Chain(n, list)
  BY DEF Chained
<1>2. PICK list \in [1..n -> Pages] : Chain(n, list)
  BY <1>1
<1>. DEFINE C == Cardinality(Pages)
            Body(g, k) == IF k = 0 THEN {page_freelist} \ {NULL}
                          ELSE g[k - 1] \cup ({next[p] : p \in g[k - 1]} \ {NULL})
            pre(k) == {list[i] : i \in {j \in 1..n : j <= k + 1}}
            f == [k \in 0..C |-> pre(k)]
<1>3. C \in Nat /\ n <= C
  <2>1. list \in Injection(1..n, Pages)
    BY SMTT(30), <1>2 DEF Injection, IsInjective, Chain
  <2>2. Cardinality(1..n) = n
    <3>1. n \in Int /\ 1 \in Int /\ n >= 0
      BY SMTT(30)
    <3>2. Cardinality(1..n) = IF 1 > n THEN 0 ELSE n - 1 + 1
      BY <3>1, FS_Interval
    <3>. QED
      BY SMTT(30), <3>1, <3>2
  <2>. QED
    BY SMTT(30), <2>1, <2>2, FS_Injection, FS_CardinalityType DEF PfaAssumption
<1>4. OnList = (CHOOSE g : g = [k \in 0..C |-> Body(g, k)])[C]
  BY DEF OnList
<1>. HIDE DEF C
<1>5. pre(0) = {page_freelist} \ {NULL}
  <2>1. CASE n = 0
    BY SMTT(30), <1>2, <2>1 DEF Chain
  <2>2. CASE n # 0
    <3>1. page_freelist = list[1] /\ list[1] \in Pages /\ {j \in 1..n : j <= 0 + 1} = {1}
      BY SMTT(30), <1>2, <2>2 DEF Chain
    <3>. QED
      BY <3>1 DEF PfaAssumption
  <2>. QED
    BY <2>1, <2>2
<1>6. ASSUME NEW k \in 1..C PROVE pre(k - 1) \cup ({next[p] : p \in pre(k - 1)} \ {NULL}) = pre(k)
  <2>1. ASSUME NEW x \in pre(k) PROVE x \in pre(k - 1) \/ \E p \in pre(k - 1) : x = next[p] /\ x # NULL
    <3>1. PICK i \in 1..n : i <= k + 1 /\ list[i] = x
      BY <2>1
    <3>2. CASE i <= k
      BY SMTT(30), <3>1, <3>2
    <3>3. CASE i = k + 1
      <4>1. i - 1 \in 1..n /\ i - 1 <= (k - 1) + 1 /\ list[i - 1] \in pre(k - 1)
        BY SMTT(30), <3>3
      <4>2. next[list[i - 1]] = list[(i - 1) + 1] /\ (i - 1) + 1 = i
        BY SMTT(30), <1>2, <4>1 DEF Chain
      <4>3. list[i] # NULL
        BY DEF PfaAssumption
      <4>. QED
        BY <3>1, <4>1, <4>2, <4>3
    <3>. QED
      BY SMTT(30), <3>1, <3>2, <3>3
  <2>2. ASSUME NEW x \in pre(k - 1) PROVE x \in pre(k)
    BY SMTT(30)
  <2>3. ASSUME NEW p \in pre(k - 1), next[p] # NULL PROVE next[p] \in pre(k)
    <3>1. PICK i \in 1..n : i <= (k - 1) + 1 /\ list[i] = p
      BY <2>3
    <3>2. next[p] = IF i = n THEN NULL ELSE list[i + 1]
      BY <1>2, <3>1 DEF Chain
    <3>3. i # n /\ i + 1 \in 1..n /\ i + 1 <= k + 1 /\ next[p] = list[i + 1]
      BY SMTT(30), <2>3, <3>1, <3>2
    <3>. QED
      BY <3>3
  <2>. HIDE DEF pre
  <2>. QED
    BY <2>1, <2>2, <2>3
<1>7. pre(C) = Free
  <2>1. \A p \in Free : p \in pre(C)
    BY SMTT(30), <1>2, <1>3 DEF Chain, Free
  <2>2. \A p \in pre(C) : p \in Free
    BY SMTT(30), <1>2 DEF Chain
  <2>. QED
    BY <2>1, <2>2
<1>. HIDE DEF pre
<1>8. f = [k \in 0..C |-> Body(f, k)]
  <2>1. ASSUME NEW k \in 0..C PROVE Body(f, k) = pre(k)
    <3>1. CASE k = 0
      BY <1>5, <3>1
    <3>2. CASE k # 0
      <4>1. k \in 1..C /\ f[k - 1] = pre(k - 1)
        BY SMTT(30), <1>3, <3>2
      <4>. QED
        BY <1>6, <3>2, <4>1
    <3>. QED
      BY <3>1, <3>2
  <2>. QED
    BY <2>1
<1>9. ASSUME NEW g, g = [k \in 0..C |-> Body(g, k)] PROVE g[C] = Free
  <2>. DEFINE Bad == {k \in 0..C : g[k] # pre(k)}
  <2>1. ASSUME Bad # {} PROVE FALSE
    <3>1. PICK k \in Bad : \A m \in Bad : k <= m
      <4>1. Bad \subseteq Nat
        BY SMTT(30)
      <4>. QED
        BY <2>1, <4>1, NatMin
    <3>2. g[k] = Body(g, k)
      BY <1>9
    <3>3. k # 0
      BY <1>5, <3>1, <3>2
    <3>4. k \in 1..C /\ g[k - 1] = pre(k - 1)
      BY SMTT(30), <1>3, <3>1, <3>3
    <3>. QED
      BY <1>6, <3>1, <3>2, <3>3, <3>4
  <2>2. g[C] = pre(C)
    BY SMTT(30), <1>3, <2>1
  <2>. QED
    BY <1>7, <2>2
<1>. HIDE DEF f, Body
<1>. QED
  BY <1>4, <1>8, <1>9

\* Every step keeps the invariant.
LEMMA PfaStep ==
    ASSUME AllocatorsApart, PfaAssumption, PfaInv, [Next]_vars
    PROVE  PfaInv'
<1>1. ASSUME NEW t \in Allocators, AllocTest(t) PROVE PfaInv'
  BY <1>1, TestStep
<1>2. ASSUME NEW t \in Tasks, NEW p \in used \cup cache, FreeBegin(t, p) PROVE PfaInv'
  BY <1>2, BeginStep
<1>3. ASSUME NEW t \in Tasks, PurgeSleep(t) \/ PurgeWake(t) \/ Continue(t) PROVE PfaInv'
  BY <1>3, MoveStep, PurgeStep, EndStep, FailStep, OldStep, NextStep, CasStep, RetryStep, LinkStep, ReadStep, SwapStep, SwapFailStep DEF Continue
<1>4. CASE UNCHANGED vars
  <2>. USE <1>4 DEF vars, PfaInv
  <2>1. PfaTypeOK' /\ Placed'
    BY DEF PfaTypeOK, Placed, Frees
  <2>2. Free' = Free
    BY DEF Free, Freeing
  <2>3. Calls'
    BY <2>2 DEF Calls, Allocs, Purges
  <2>4. Chained'
    BY <2>2, ChainKept
  <2>. QED
    BY <2>1, <2>3, <2>4
<1>. QED
  BY <1>1, <1>2, <1>3, <1>4 DEF Next

-----------------------------------------------------------------------------

\* A step of pf_alloc changes nothing about the frames that are being freed.
LEMMA AllocFrees ==
    ASSUME PfaInv, NEW t \in Tasks, ~Frees(t), NEW o \in Ops,
           o.at \notin {"link", "read", "swap"}, Goto(t, o)
    PROVE  Freeing' = Freeing
<1>1. op'[t] = o /\ \A u \in Tasks \ {t} : op'[u] = op[u]
  BY OpSet DEF PfaInv
<1>2. \A u \in Tasks : (Frees(u)' <=> Frees(u)) /\ (Frees(u) => op'[u] = op[u])
  BY <1>1 DEF Frees
<1>. QED
  BY <1>2 DEF Freeing, Frees

\* Until its cmpxchg succeeds, pf_alloc moves no frame.
LEMMA AllocSame ==
    ASSUME AllocatorsApart, PfaAssumption, PfaInv, NEW t \in Tasks,
           \/ AllocTest(t) \/ AllocOld(t) \/ AllocNext(t)
           \/ AllocCas(t) /\ page_freelist # op[t].old
    PROVE  Freeing' = Freeing /\ used' = used /\ cache' = cache
<1>1. CASE AllocTest(t)
  BY <1>1, AllocFrees DEF AllocTest, At, Frees, Ops
<1>3. CASE AllocOld(t)
  BY <1>3, AllocFrees DEF AllocOld, At, Frees, Ops, PfaInv, PfaTypeOK
<1>4. CASE AllocNext(t)
  <2>. DEFINE o == [at |-> "cas", old |-> op[t].old, new |-> next[op[t].old]]
  <2>1. op[t].at = "next" /\ op[t].old \in Pages /\ op[t].old # NULL
    BY <1>4 DEF AllocNext, At, Calls, Free, PfaAssumption, PfaInv
  <2>2. o \in Ops /\ o.at = "cas" /\ Goto(t, o)
    BY <1>4, <2>1 DEF AllocNext, Ops, Page0, PfaInv, PfaTypeOK
  <2>. QED
    BY <1>4, <2>1, <2>2, AllocFrees DEF AllocNext, Frees
<1>5. CASE AllocCas(t) /\ page_freelist # op[t].old
  BY <1>5, AllocFrees DEF AllocCas, At, Frees, Ops
<1>. QED
  BY <1>1, <1>3, <1>4, <1>5

\* Every step is a step of the pool, or none: the cmpxchg of pf_alloc takes a
\* frame, that of pf_free gives it, a frame of the purge comes from the cache.
LEMMA PoolStep ==
    ASSUME AllocatorsApart, PfaAssumption, PfaInv, PfaInv', [Next]_vars
    PROVE  [Pool!PoolNext]_(Pool!poolVars)
<1>. DEFINE Same == Freeing' = Freeing /\ used' = used /\ cache' = cache
<1>1. OnList = Free /\ OnList' = Free'
  <2>1. OnList = Free
    BY OnListIsFree
  <2>2. (OnList = Free)'
    BY OnListIsFree, PTL
  <2>. QED
    BY <2>1, <2>2
<1>. HIDE DEF Same
<1>2. ASSUME Same PROVE [Pool!PoolNext]_(Pool!poolVars)
  BY <1>1, <1>2 DEF Same, Free, Pool!poolVars
<1>3. ASSUME NEW t \in Tasks, PurgeFrame(t) PROVE Pool!PoolNext
  <2>1. PICK p \in cache : cache' = cache \ {p} /\ \A q : q \in Free' <=> q \in Free \/ q = p
    BY <1>3, PurgeStep
  <2>2. p \in Pages /\ Free' = Free \cup {p}
    BY <2>1 DEF PfaInv, PfaTypeOK
  <2>3. Freeing' = Freeing /\ used' = used
    BY <1>3, PurgeStep
  <2>4. Pool!Purge(p)
    BY <1>1, <2>1, <2>2, <2>3 DEF Pool!Purge
  <2>. QED
    BY <2>2, <2>4 DEF Pool!PoolNext
<1>4. ASSUME NEW t \in Tasks, NEW p \in used \cup cache, FreeBegin(t, p) PROVE Pool!PoolNext
  <2>1. /\ used' = used \ {p} /\ cache' = cache \ {p} /\ p \in Pages
        /\ \A q : q \in Free' <=> q \in Free
        /\ \A q : q \in Freeing' <=> q \in Freeing \/ q = p
    BY <1>4, BeginStep DEF FreeBegin, PfaInv, PfaTypeOK
  <2>2. Free' = Free /\ Freeing' = Freeing \cup {p}
    BY <2>1
  <2>3. Pool!Drop(p)
    BY <1>1, <2>1, <2>2 DEF Pool!Drop
  <2>. QED
    BY <2>1, <2>3 DEF Pool!PoolNext
<1>5. ASSUME NEW t \in Tasks, AllocCas(t), page_freelist = op[t].old PROVE Pool!PoolNext
  <2>. DEFINE p == op[t].old
  <2>1. p \in Free /\ p \in Pages /\ \A q : q \in Free' <=> q \in Free /\ q # p
    BY <1>5, CasStep DEF Free
  <2>2. used' = used \cup {p} /\ cache' = cache /\ Goto(t, Idle) /\ op[t].at = "cas"
    BY <1>5 DEF AllocCas, At
  <2>3. Freeing' = Freeing
    BY <2>2, AllocFrees DEF Frees, Ops, Idle
  <2>. HIDE DEF p
  <2>4. Free' = Free \ {p}
    BY <2>1
  <2>5. Pool!Take(p)
    BY <1>1, <2>1, <2>2, <2>3, <2>4 DEF Pool!Take
  <2>. QED
    BY <2>1, <2>5 DEF Pool!PoolNext
<1>6. ASSUME NEW t \in Tasks, FreeSwap(t), page_freelist = op[t].old PROVE Pool!PoolNext
  <2>. DEFINE p == op[t].frame
  <2>1. /\ p \in Freeing /\ used' = used /\ cache' = cache
        /\ \A q : q \in Freeing' <=> q \in Freeing /\ q # p
        /\ \A q : q \in Free' <=> q \in Free \/ q = p
    BY <1>6, SwapStep DEF FreeSwap
  <2>2. p \in Pages
    BY <1>6, OpKinds DEF FreeSwap, At, Frees, PfaInv
  <2>. HIDE DEF p
  <2>3. Free' = Free \cup {p} /\ Freeing' = Freeing \ {p}
    BY <2>1
  <2>4. Pool!Give(p)
    BY <1>1, <2>1, <2>3 DEF Pool!Give
  <2>. QED
    BY <2>2, <2>4 DEF Pool!PoolNext
<1>7. ASSUME NEW t \in Tasks, FreeLink(t) \/ FreeRead(t) \/ (FreeSwap(t) /\ page_freelist # op[t].old)
      PROVE  Same
  <2>1. \A q : q \in Freeing' <=> q \in Freeing
    BY <1>7, LinkStep, ReadStep, SwapFailStep
  <2>2. Freeing' = Freeing
    BY <2>1
  <2>3. used' = used /\ cache' = cache
    BY <1>7 DEF FreeLink, FreeRead, FreeSwap
  <2>. QED
    BY <2>2, <2>3 DEF Same
<1>8. ASSUME NEW t \in Allocators, AllocTest(t) PROVE Same
  <2>1. t \in Tasks
    BY DEF PfaAssumption
  <2>. QED
    BY <1>8, <2>1, AllocSame DEF Same
<1>9. ASSUME NEW t \in Tasks, AllocOld(t) \/ AllocNext(t) \/ (AllocCas(t) /\ page_freelist # op[t].old)
      PROVE  Same
  BY <1>9, AllocSame DEF Same
<1>10. CASE UNCHANGED vars
  BY <1>2, <1>10 DEF vars, Same, Freeing
<1>11. ASSUME NEW t \in Tasks,
             \/ AllocCli(t) \/ PurgeSleep(t) \/ PurgeWake(t) \/ PurgeEnd(t) \/ AllocFail(t)
      PROVE  Same
  BY <1>11, MoveStep, EndStep, FailStep DEF Same
<1>. QED
  BY <1>2, <1>3, <1>4, <1>5, <1>6, <1>7, <1>8, <1>9, <1>10, <1>11 DEF Next, Continue

\* pfa_init leaves a pool.
LEMMA PoolStart == Init /\ PfaInv => Pool!PoolInit
<1>. SUFFICES ASSUME Init, PfaInv PROVE Pool!PoolInit
  OBVIOUS
<1>1. OnList = Free
  BY OnListIsFree
<1>2. used = Used /\ cache = Cached /\ \A t \in Tasks : op[t].at = "idle"
  BY DEF Init, Idle
<1>3. Freeing = {}
  BY <1>2 DEF Freeing
<1>. QED
  BY <1>1, <1>2, <1>3, PfaAssumption DEF Free, Pool!PoolInit, PfaAssumption

\* For any pages, tasks and frames in use at the start, any number of frees
\* interleaved with pf_alloc at every access to memory, and no two calls of
\* pf_alloc interleaved with each other: the lock-free list is a pool of page
\* frames, from which each goes to one caller and to which it comes back.
THEOREM ListIsPool == ASSUME AllocatorsApart PROVE Spec => ImplementsPool
<1>1. Init => PfaInv
  BY PfaInvInit, PfaAssumption
<1>2. PfaInv /\ [Next]_vars => PfaInv'
  BY PfaStep, PfaAssumption
<1>3. PfaInv /\ PfaInv' /\ [Next]_vars => [Pool!PoolNext]_(Pool!poolVars)
  BY PoolStep, PfaAssumption
<1>. QED
  BY <1>1, <1>2, <1>3, PoolStart, PTL DEF Spec, ImplementsPool, Pool!PoolSpec

\* Under the same condition, no page frame is ever lost or in two places, and
\* pf_alloc never follows a NULL head.
THEOREM PagesInOnePlace == ASSUME AllocatorsApart PROVE Spec => []PagesOnce
<1>1. Init => PfaInv
  BY PfaInvInit, PfaAssumption
<1>2. PfaInv /\ [Next]_vars => PfaInv'
  BY PfaStep, PfaAssumption
<1>3. PfaInv => PagesOnce
  <2>. SUFFICES ASSUME PfaInv PROVE PagesOnce
    OBVIOUS
  <2>1. OnList = Free
    BY OnListIsFree
  <2>2. Freeing \subseteq Pages
    BY OpKinds DEF PfaInv, Freeing, Frees
  <2>. QED
    BY <2>1, <2>2 DEF PagesOnce, PfaInv, Calls, PfaTypeOK, Free
<1>. QED
  BY <1>1, <1>2, <1>3, PTL DEF Spec

=============================================================================
