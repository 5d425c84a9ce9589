------------------------------- MODULE Purge -------------------------------
(***************************************************************************)
(* Purgeable memory (mm/purge.c): buffers a cache can do without, given up *)
(* when page frames run out.  A semaphore is its abstract form here (AbsSem*)
(* is what Sync is shown to implement): pend waits for a positive count.   *)
(* Each buffer has one user, as in the floppy driver's cylinder cache;     *)
(* purges come from anybody: the console, or pf_alloc in any allocation,   *)
(* the one in purgeable_get included.                                      *)
(***************************************************************************)
EXTENDS Naturals, Sequences

CONSTANTS
    Bufs, Users, Purgers,
    User,           \* for each buffer, the task that uses it
    LowInGet,       \* may memory run out in purgeable_get's kmalloc?
    Freers,         \* users that also call purgeable_free
    MaxFrees        \* bound: calls of purgeable_free

VARIABLES
    s_purgeable,    \* the list of registered buffers
    s_list,         \* the semaphore that protects it
    lock,           \* for each buffer, its semaphore
    buf,            \* for each buffer, is there memory behind it
    pc,             \* what each task does, with its locals
    purged,         \* history: purged since it was last accessed
    frees

purgeVars == <<s_purgeable, s_list, lock, buf, pc, purged, frees>>

Callers == Users \cup Purgers

PurgeAssumption ==
    /\ User \in [Bufs -> Users] /\ Users \cap Purgers = {} /\ Freers \subseteq Users
    /\ LowInGet \in BOOLEAN /\ MaxFrees \in Nat /\ "return" \notin Bufs

NoCall == [at |-> "idle"]

PurgeInit ==
    /\ s_purgeable = <<>> /\ s_list = 1
    /\ lock = [p \in Bufs |-> 1]
    /\ buf = [p \in Bufs |-> FALSE]
    /\ pc = [t \in Callers |-> NoCall]
    /\ purged = [p \in Bufs |-> FALSE]
    /\ frees = 0

PurgeAt(t, a) == pc[t].at = a
PurgeGoto(t, x) == pc' = [pc EXCEPT ![t] = x]
Registered(p) == \E i \in 1..Len(s_purgeable) : s_purgeable[i] = p

(* ---------------------------- purgeable_alloc --------------------------- *)

\* The struct and its buffer (a purge that the kmalloc needs is one by a
\* task that holds nothing, as the Purgers do) ...
purgeable_alloc(t, p) ==
    /\ PurgeAt(t, "idle") /\ User[p] = t /\ ~Registered(p)
    /\ buf' = [buf EXCEPT ![p] = TRUE]
    /\ lock' = [lock EXCEPT ![p] = 1]
    /\ purged' = [purged EXCEPT ![p] = FALSE]
    /\ PurgeGoto(t, [at |-> "register", p |-> p])
    /\ UNCHANGED <<s_purgeable, s_list, frees>>

\* ... and the list.
Register(t) ==
    /\ PurgeAt(t, "register") /\ s_list > 0
    /\ s_purgeable' = Append(s_purgeable, pc[t].p)
    /\ PurgeGoto(t, NoCall)
    /\ UNCHANGED <<s_list, lock, buf, purged, frees>>

(* ------------------------- purgeable_get and _put ----------------------- *)

Hold(t, p, was) == PurgeGoto(t, [at |-> "hold", p |-> p, was |-> was])

\* sem_pend(&p->lock); *was_purged = p->buf ? 0 : 1; and kmalloc if need be
purgeable_get(t, p) ==
    /\ PurgeAt(t, "idle") /\ User[p] = t /\ Registered(p)
    /\ lock[p] > 0
    /\ lock' = [lock EXCEPT ![p] = 0]
    /\ purged' = [purged EXCEPT ![p] = FALSE]
    /\ \/ /\ buf' = [buf EXCEPT ![p] = TRUE]
          /\ Hold(t, p, ~buf[p])
       \/ /\ ~buf[p] /\ LowInGet
          /\ PurgeGoto(t, [at |-> "purge", bytes |-> 1, then |-> p])
          /\ UNCHANGED buf
    /\ UNCHANGED <<s_purgeable, s_list, frees>>

\* The buffer is looked up by its address; it is there, being locked.
purgeable_put(t) ==
    /\ PurgeAt(t, "hold")
    /\ lock' = IF Registered(pc[t].p) /\ buf[pc[t].p] THEN [lock EXCEPT ![pc[t].p] = 1] ELSE lock
    /\ PurgeGoto(t, NoCall)
    /\ UNCHANGED <<s_purgeable, s_list, buf, purged, frees>>

(* ----------------------------- purgeable_free --------------------------- *)

\* sem_pend(&p->lock), then sem_pend(&s_list)
FreeLock(t, p) ==
    /\ PurgeAt(t, "idle") /\ User[p] = t /\ Registered(p) /\ frees < MaxFrees
    /\ lock[p] > 0
    /\ lock' = [lock EXCEPT ![p] = 0]
    /\ PurgeGoto(t, [at |-> "free", p |-> p])
    /\ frees' = frees + 1
    /\ UNCHANGED <<s_purgeable, s_list, buf, purged>>

\* v_ilist_remove
Without(s, i) == SubSeq(s, 1, i - 1) \o SubSeq(s, i + 1, Len(s))

FreeList(t) ==
    /\ PurgeAt(t, "free") /\ s_list > 0
    /\ \E i \in 1..Len(s_purgeable) :
           s_purgeable[i] = pc[t].p /\ s_purgeable' = Without(s_purgeable, i)
    /\ buf' = [buf EXCEPT ![pc[t].p] = FALSE]
    /\ PurgeGoto(t, NoCall)
    /\ UNCHANGED <<s_list, lock, purged, frees>>

(* ---------------------------- purgeable_purge --------------------------- *)

\* purgeable_purge(0) from the console, or for a page from pf_alloc.
PurgeBegin(t, bytes) ==
    /\ PurgeAt(t, "idle")
    /\ PurgeGoto(t, [at |-> "purge", bytes |-> bytes, then |-> "return"])
    /\ UNCHANGED <<s_purgeable, s_list, lock, buf, purged, frees>>

PurgeLock(t) ==
    /\ PurgeAt(t, "purge") /\ s_list > 0
    /\ s_list' = 0
    /\ PurgeGoto(t, [at |-> "scan", bytes |-> pc[t].bytes, then |-> pc[t].then, i |-> 1, total |-> 0])
    /\ UNCHANGED <<s_purgeable, lock, buf, purged, frees>>

More(x) == x.i <= Len(s_purgeable) /\ (x.bytes = 0 \/ x.total < x.bytes)

mem_purge_NoLock(t) ==
    /\ PurgeAt(t, "scan") /\ More(pc[t])
    /\ LET p == s_purgeable[pc[t].i] IN
       /\ buf' = [buf EXCEPT ![p] = FALSE]
       /\ purged' = [purged EXCEPT ![p] = @ \/ buf[p]]
       /\ PurgeGoto(t, [pc[t] EXCEPT !.i = @ + 1, !.total = @ + IF buf[p] THEN 1 ELSE 0])
    /\ UNCHANGED <<s_purgeable, s_list, lock, frees>>

mem_purge_NoNull(t) ==
    /\ PurgeAt(t, "scan") /\ More(pc[t])
    /\ LET p == s_purgeable[pc[t].i] IN
       /\ lock[p] > 0
       /\ UNCHANGED buf
       /\ purged' = [purged EXCEPT ![p] = @ \/ buf[p]]
       /\ PurgeGoto(t, [pc[t] EXCEPT !.i = @ + 1, !.total = @ + IF buf[p] THEN 1 ELSE 0])
    /\ UNCHANGED <<s_purgeable, s_list, lock, frees>>

mem_purge_Again(t) ==
    /\ PurgeAt(t, "scan") /\ More(pc[t])
    /\ LET p == s_purgeable[pc[t].i] IN
       /\ lock[p] > 0
       /\ buf' = [buf EXCEPT ![p] = FALSE]
       /\ purged' = [purged EXCEPT ![p] = @ \/ buf[p]]
       /\ PurgeGoto(t, [pc[t] EXCEPT !.i = @ + IF buf[p] THEN 1 ELSE 0, !.total = @ + IF buf[p] THEN 1 ELSE 0])
    /\ UNCHANGED <<s_purgeable, s_list, lock, frees>>

\* mem_purge of the next buffer, under its lock (free at the end again): the
\* on_purge callback, kfree, and the bytes it had, if it had any.
mem_purge(t) ==
    /\ PurgeAt(t, "scan") /\ More(pc[t])
    /\ LET p == s_purgeable[pc[t].i] IN
       /\ lock[p] > 0
       /\ buf' = [buf EXCEPT ![p] = FALSE]
       /\ purged' = [purged EXCEPT ![p] = @ \/ buf[p]]
       /\ PurgeGoto(t, [pc[t] EXCEPT !.i = @ + 1, !.total = @ + IF buf[p] THEN 1 ELSE 0])
    /\ UNCHANGED <<s_purgeable, s_list, lock, frees>>

\* sem_post(&s_list), and back to the caller: purgeable_get's kmalloc now
\* succeeds, or it has returned NULL, which is used all the same.
PurgeDone(t) ==
    /\ PurgeAt(t, "scan") /\ ~More(pc[t])
    /\ s_list' = 1
    /\ IF pc[t].then = "return"
       THEN UNCHANGED buf /\ PurgeGoto(t, [at |-> "purged", bytes |-> pc[t].bytes, total |-> pc[t].total])
       ELSE IF pc[t].total > 0
       THEN buf' = [buf EXCEPT ![pc[t].then] = TRUE] /\ Hold(t, pc[t].then, TRUE)
       ELSE UNCHANGED buf /\ PurgeGoto(t, [at |-> "fault"])
    /\ UNCHANGED <<s_purgeable, lock, purged, frees>>

PurgeReturn(t) ==
    /\ PurgeAt(t, "purged")
    /\ PurgeGoto(t, NoCall)
    /\ UNCHANGED <<s_purgeable, s_list, lock, buf, purged, frees>>

-----------------------------------------------------------------------------

PurgeContinue(t) == \/ Register(t) \/ purgeable_put(t) \/ FreeList(t)
               \/ PurgeLock(t) \/ mem_purge(t) \/ PurgeDone(t) \/ PurgeReturn(t)

PurgeNext ==
    \/ \E t \in Users, p \in Bufs : purgeable_alloc(t, p) \/ purgeable_get(t, p)
    \/ \E t \in Freers, p \in Bufs : FreeLock(t, p)
    \/ \E t \in Purgers, bytes \in {0, 1} : PurgeBegin(t, bytes)
    \/ \E t \in Callers : PurgeContinue(t)

PurgeSpec == PurgeInit /\ [][PurgeNext]_purgeVars

\* A task goes on when it has the CPU and nobody has what it waits for; the
\* semaphores wake their waiters in turn.
PurgeFairSpec == PurgeSpec /\ \A t \in Callers : SF_purgeVars(PurgeContinue(t))

-----------------------------------------------------------------------------

\* Between purgeable_get and purgeable_put the buffer stays: no purge, of
\* whoever, frees it under its user.
HeldIsThere == \A t \in Callers : PurgeAt(t, "hold") => buf[pc[t].p] /\ lock[pc[t].p] = 0

\* was_purged tells, at the next purgeable_get, exactly whether the buffer has
\* been purged since it was last accessed.
PurgesKnown == \A p \in Bufs : Registered(p) /\ lock[p] > 0 => (purged[p] <=> ~buf[p])

\* Both: a purge takes no buffer that somebody holds, and its owner learns of
\* every purge of one that nobody held.
PurgesSafe == HeldIsThere /\ PurgesKnown

\* The two orders of locking meet: a purge that has s_list waits for a buffer
\* that is locked by purgeable_free, which waits for s_list, or by a
\* purgeable_get whose kmalloc needs a purge, be it this one.
Crossed ==
    \E t, u \in Callers :
        /\ PurgeAt(t, "scan") /\ More(pc[t])
        /\ \/ PurgeAt(u, "free") /\ pc[u].p = s_purgeable[pc[t].i]
           \/ pc[u].at \in {"purge", "scan"} /\ pc[u].then = s_purgeable[pc[t].i]

\* What a call may wait for in vain: that, or a buffer whose user died of a
\* NULL from kmalloc in purgeable_get.
Stuck == Crossed \/ \E t \in Callers : PurgeAt(t, "fault")

\* Every call ends, but for the cases of Stuck.
PurgeCallsReturn == \A t \in Callers : pc[t] # NoCall ~> pc[t] = NoCall \/ Stuck
=============================================================================
