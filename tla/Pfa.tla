-------------------------------- MODULE Pfa --------------------------------
(***************************************************************************)
(* The page frame allocator (mm/pfa.c): pf_alloc and pf_free, one access   *)
(* to shared memory per step, on a list of free page frames linked through *)
(* the frames themselves.  A call made with interrupts off is not          *)
(* preempted, but sleeps where purgeable_purge waits for a semaphore: how  *)
(* long is for Purge to say, here it is any time.  Regions and the building*)
(* of the list are in PfaBoot.                                             *)
(***************************************************************************)
EXTENDS Naturals, FiniteSets

CONSTANTS
    Pages, NULL,
    Tasks, Allocators,  \* Allocators: the tasks that call pf_alloc; any task frees
    Masked,             \* tasks that have interrupts off from the start
    Used,               \* page frames allocated at the start
    Cached              \* page frames of purgeable buffers

ASSUME PfaAssumption ==
    /\ NULL \notin Pages /\ IsFiniteSet(Pages)
    /\ Allocators \subseteq Tasks /\ Masked \subseteq Tasks
    /\ Used \subseteq Pages /\ Cached \subseteq Pages /\ Used \cap Cached = {}

VARIABLES
    page_freelist,
    next,       \* frame->next, the first word of each page
    used,       \* page frames in some caller's hands
    cache,      \* page frames in purgeable buffers
    op,         \* what each task is doing in pf_alloc or pf_free
    off         \* the tasks that have interrupts off outside of pf_alloc

vars == <<page_freelist, next, used, cache, op, off>>

Idle == [at |-> "idle"]

\* The list as pfa_init leaves it, in some order.
Init ==
    LET S == Pages \ (Used \cup Cached)
        n == Cardinality(S)
    IN
    /\ \E list \in [1..n -> S] :
          /\ \A i, j \in 1..n : list[i] = list[j] => i = j
          /\ page_freelist = IF n = 0 THEN NULL ELSE list[1]
          /\ next = [p \in Pages |->
                       IF \E i \in 1..n - 1 : list[i] = p
                       THEN list[1 + CHOOSE i \in 1..n : list[i] = p] ELSE NULL]
    /\ used = Used
    /\ cache = Cached
    /\ op = [t \in Tasks |-> Idle]
    /\ off = Masked

\* The tasks a timer interrupt does not take off the CPU: interrupts are off in
\* pf_alloc's purge, and in all that a task in off does, until it sleeps.
Unpreempted == {t \in Tasks : \/ op[t].at \in {"purge", "frees"}
                              \/ t \in off /\ op[t].at \notin {"idle", "asleep"}}

\* t may run.
Runs(t) == Unpreempted \subseteq {t}

At(t, a) == Runs(t) /\ op[t].at = a
Goto(t, o) == op' = [op EXCEPT ![t] = o]

(* -------------------------------- pf_alloc ------------------------------ *)

AllocTest_NoTest(t) ==
    /\ At(t, "idle")
    /\ Goto(t, [at |-> "old"])
    /\ UNCHANGED <<page_freelist, next, used, cache, off>>

\* if (!page_freelist), with interrupts on unless the caller has them off
AllocTest(t) ==
    /\ At(t, "idle")
    /\ Goto(t, [at |-> IF page_freelist = NULL THEN "cli" ELSE "old"])
    /\ UNCHANGED <<page_freelist, next, used, cache, off>>

\* cli_push(), on the way into purgeable_purge: frames may have come back, or
\* have been purged by another task, since the test
AllocCli(t) ==
    /\ At(t, "cli")
    /\ Goto(t, [at |-> "purge"])
    /\ UNCHANGED <<page_freelist, next, used, cache, off>>

\* The list of buffers, or a buffer, is locked: sem_pend sleeps, other tasks
\* run, with interrupts on, ...
PurgeSleep(t) ==
    /\ At(t, "purge")
    /\ Goto(t, [at |-> "asleep"])
    /\ UNCHANGED <<page_freelist, next, used, cache, off>>

\* ... and the sleeper is back with interrupts off when it is woken.
PurgeWake(t) ==
    /\ At(t, "asleep")
    /\ Goto(t, [at |-> "purge"])
    /\ UNCHANGED <<page_freelist, next, used, cache, off>>

PurgeFrame_Keep(t) ==
    /\ op[t].at \in {"purge", "frees"} /\ Runs(t)
    /\ \E p \in cache :
          /\ page_freelist' = p
          /\ next' = [next EXCEPT ![p] = page_freelist]
    /\ Goto(t, [at |-> "frees"])
    /\ UNCHANGED <<used, cache, off>>

\* kfree of a buffer gives its frames to pf_free, one after the other and, as
\* interrupts are off, without anything in between.
PurgeFrame(t) ==
    /\ op[t].at \in {"purge", "frees"} /\ Runs(t)
    /\ \E p \in cache :
          /\ cache' = cache \ {p}
          /\ page_freelist' = p
          /\ next' = [next EXCEPT ![p] = page_freelist]
    /\ Goto(t, [at |-> "frees"])
    /\ UNCHANGED <<used, off>>

\* A buffer has more than a page (it is vmalloc'ed), so one is enough:
\* assert(page_freelist), and cli_pop().
PurgeEnd(t) ==
    /\ At(t, "frees")
    /\ Goto(t, [at |-> IF page_freelist = NULL THEN "fault" ELSE "old"])
    /\ UNCHANGED <<page_freelist, next, used, cache, off>>

\* Nothing to purge: pf_alloc returns NULL without cli_pop().
AllocFail(t) ==
    /\ At(t, "purge")
    /\ cache = {}
    /\ off' = off \cup {t}
    /\ Goto(t, Idle)
    /\ UNCHANGED <<page_freelist, next, used, cache>>

\* old = page_freelist
AllocOld(t) ==
    /\ At(t, "old")
    /\ Goto(t, [at |-> "next", old |-> page_freelist])
    /\ UNCHANGED <<page_freelist, next, used, cache, off>>

\* new = old->next, which faults when old is NULL
AllocNext(t) ==
    /\ At(t, "next")
    /\ Goto(t, IF op[t].old = NULL THEN [at |-> "fault"]
               ELSE [at |-> "cas", old |-> op[t].old, new |-> next[op[t].old]])
    /\ UNCHANGED <<page_freelist, next, used, cache, off>>

\* cmpxchg(&page_freelist, old, new); the caller may clear the page (pf_zalloc)
AllocCas(t) ==
    /\ At(t, "cas")
    /\ IF page_freelist = op[t].old
       THEN /\ page_freelist' = op[t].new
            /\ used' = used \cup {op[t].old}
            /\ next' \in {next, [next EXCEPT ![op[t].old] = NULL]}
            /\ Goto(t, Idle)
       ELSE /\ Goto(t, [at |-> "old"])
            /\ UNCHANGED <<page_freelist, next, used>>
    /\ UNCHANGED <<cache, off>>

(* -------------------------------- pf_free ------------------------------- *)

\* A page is freed once: by whoever has it, or by a task that purges for the
\* console, with interrupts on.
FreeBegin(t, p) ==
    /\ At(t, "idle")
    /\ used' = used \ {p}
    /\ cache' = cache \ {p}
    /\ Goto(t, [at |-> "link", frame |-> p])
    /\ UNCHANGED <<page_freelist, next, off>>

\* frame->next = page_freelist
FreeLink(t) ==
    /\ At(t, "link")
    /\ next' = [next EXCEPT ![op[t].frame] = page_freelist]
    /\ Goto(t, [op[t] EXCEPT !.at = "read"])
    /\ UNCHANGED <<page_freelist, used, cache, off>>

\* old = frame->next
FreeRead(t) ==
    /\ At(t, "read")
    /\ Goto(t, [at |-> "swap", frame |-> op[t].frame, old |-> next[op[t].frame]])
    /\ UNCHANGED <<page_freelist, next, used, cache, off>>

FreeSwap_NoRetry(t) ==
    /\ At(t, "swap")
    /\ page_freelist' = IF page_freelist = op[t].old THEN op[t].frame ELSE page_freelist
    /\ Goto(t, Idle)
    /\ UNCHANGED <<next, used, cache, off>>

FreeSwap_Stuck(t) ==
    /\ At(t, "swap")
    /\ IF page_freelist = op[t].old
       THEN page_freelist' = op[t].frame /\ Goto(t, Idle)
       ELSE UNCHANGED page_freelist /\ Goto(t, [op[t] EXCEPT !.at = "swap"])
    /\ UNCHANGED <<next, used, cache, off>>

\* cmpxchg(&page_freelist, old, frame)
FreeSwap(t) ==
    /\ At(t, "swap")
    /\ IF page_freelist = op[t].old
       THEN page_freelist' = op[t].frame /\ Goto(t, Idle)
       ELSE UNCHANGED page_freelist /\ Goto(t, [at |-> "link", frame |-> op[t].frame])
    /\ UNCHANGED <<next, used, cache, off>>

-----------------------------------------------------------------------------

Continue(t) == \/ AllocCli(t) \/ PurgeFrame(t) \/ PurgeEnd(t) \/ AllocFail(t)
               \/ AllocOld(t) \/ AllocNext(t) \/ AllocCas(t)
               \/ FreeLink(t) \/ FreeRead(t) \/ FreeSwap(t)

Next ==
    \/ \E t \in Allocators : AllocTest(t)
    \/ \E t \in Tasks, p \in used \cup cache : FreeBegin(t, p)
    \/ \E t \in Tasks : PurgeSleep(t) \/ PurgeWake(t) \/ Continue(t)

Spec == Init /\ [][Next]_vars

\* One CPU: whoever has it goes on with the call it is in.  Nothing is assumed
\* of who sleeps in the purge.
FairSpec == Spec /\ WF_vars(\E t \in Tasks : Continue(t))

-----------------------------------------------------------------------------

\* The frames on the free list, following next as often as there are pages.
OnList ==
    LET after[n \in 0..Cardinality(Pages)] ==
            IF n = 0 THEN {page_freelist} \ {NULL}
            ELSE after[n - 1] \cup ({next[p] : p \in after[n - 1]} \ {NULL})
    IN  after[Cardinality(Pages)]

Freeing == {op[t].frame : t \in {u \in Tasks : op[u].at \in {"link", "read", "swap"}}}

\* Every page frame is in one place: on the list, with a caller, in a
\* purgeable buffer or on its way back, and none is lost.  Nor does pf_alloc
\* ever follow a NULL head, or fail its assertion: it tested the list, or has
\* put frames there, and nobody else emptied it.
PagesOnce ==
    /\ \A t \in Tasks : op[t].at # "fault"
    /\ OnList \cap used = {} /\ OnList \cap Freeing = {} /\ OnList \cap cache = {}
    /\ OnList \cup used \cup Freeing \cup cache = Pages

Pool == INSTANCE PagePool WITH free <- OnList, back <- Freeing

\* pf_alloc and pf_free behave like a pool: a page goes to one caller only,
\* at the cmpxchg, comes back at the other one or from a purgeable buffer, and
\* is not lost on the way.
ImplementsPool == Pool!PoolSpec

\* Lock-free: a call is repeated only because another one got through, so
\* either all calls end, or sleep in the purge, or some call ends again and
\* again.
LockFree ==
    \/ []<>(\A t \in Tasks : op[t].at \in {"idle", "asleep"})
    \/ []<><<\E t \in Tasks : op[t] # Idle /\ op'[t] = Idle>>_vars
=============================================================================
