----------------------------- MODULE PurgeProofs -----------------------------
(***************************************************************************)
(* Proofs about Purge, for any buffers, users and purgers, whether memory  *)
(* runs out in purgeable_get or not: who has a buffer's semaphore is the   *)
(* only one that can have its memory taken away or given.                  *)
(***************************************************************************)
EXTENDS Purge, SequenceTheorems, TLAPS

\* A step is for Zenon unless it names the SMT solver.
USE ZenonT(60)

\* The locals of a task, by where it is.
Locals ==
    [at : {"idle", "fault"}]
    \cup [at : {"register", "free"}, p : Bufs]
    \cup [at : {"hold"}, p : Bufs, was : BOOLEAN]
    \cup [at : {"purge"}, bytes : Nat, then : Bufs \cup {"return"}]
    \cup [at : {"scan"}, bytes : Nat, then : Bufs \cup {"return"}, i : Nat \ {0}, total : Nat]
    \cup [at : {"purged"}, bytes : Nat, total : Nat]

PurgeType ==
    /\ s_purgeable \in Seq(Bufs)
    /\ lock \in [Bufs -> {0, 1}]
    /\ buf \in [Bufs -> BOOLEAN]
    /\ purged \in [Bufs -> BOOLEAN]
    /\ pc \in [Callers -> Locals]

\* A buffer is on the list once.
NoDuplicates == \A i, j \in 1..Len(s_purgeable) : s_purgeable[i] = s_purgeable[j] => i = j

\* t has taken p's semaphore: it uses the buffer, frees it, or purges others
\* to get memory for it.
Owns(t, p) ==
    \/ pc[t].at \in {"hold", "free"} /\ pc[t].p = p
    \/ pc[t].at \in {"purge", "scan"} /\ pc[t].then = p

Owned ==
    \A t \in Callers, p \in Bufs :
        Owns(t, p) => /\ User[p] = t /\ lock[p] = 0 /\ Registered(p)
                      /\ pc[t].at # "free" => ~purged[p]

\* A buffer that is not on the list yet is with the task that allocated it.
New ==
    \A t \in Callers : pc[t].at = "register" =>
        /\ User[pc[t].p] = t /\ lock[pc[t].p] = 1 /\ ~Registered(pc[t].p)
        /\ buf[pc[t].p] /\ ~purged[pc[t].p]

Holding == \A t \in Callers : pc[t].at = "hold" => buf[pc[t].p]

Known == \A p \in Bufs : Registered(p) /\ lock[p] = 1 => (purged[p] <=> ~buf[p])

PurgeInv == PurgeType /\ NoDuplicates /\ Owned /\ New /\ Holding /\ Known

-----------------------------------------------------------------------------

\* The inductive invariant says what PurgesSafe asks.
LEMMA InvSafe == ASSUME PurgeInv PROVE PurgesSafe
<1>1. HeldIsThere
  BY DEF PurgeInv, PurgeType, Locals, HeldIsThere, Holding, Owned, Owns, PurgeAt
<1>2. PurgesKnown
  BY SMTT(30) DEF PurgeInv, PurgeType, PurgesKnown, Known
<1>. QED
  BY <1>1, <1>2 DEF PurgesSafe

\* Before the first purgeable_alloc there is nothing to lose.
LEMMA PurgeInvInit == PurgeInit => PurgeInv
BY SMTT(30) DEF PurgeInit, PurgeInv, PurgeType, Locals, NoCall, NoDuplicates, Owned, Owns, New, Holding, Known,
         Registered

\* A task that moves, without a change of the buffers or of the list, to
\* where it owns and holds nothing that it did not own and hold before.
LEMMA MoveStep ==
    ASSUME PurgeInv, NEW t \in Callers, NEW x \in Locals, pc' = [pc EXCEPT ![t] = x],
           UNCHANGED <<s_purgeable, lock, buf, purged>>,
           x.at # "register",
           \A p \in Bufs : Owns(t, p)' => Owns(t, p) /\ pc[t].at # "free",
           x.at # "hold"
    PROVE  PurgeInv'
<1>1. pc' \in [Callers -> Locals] /\ pc'[t] = x /\ \A u \in Callers \ {t} : pc'[u] = pc[u]
  BY DEF PurgeInv, PurgeType
<1>2. PurgeType' /\ NoDuplicates' /\ Known'
  BY SMTT(30), <1>1 DEF PurgeInv, PurgeType, NoDuplicates, Known, Registered
<1>3. Owned'
  BY SMTT(30), <1>1 DEF PurgeInv, Owned, Owns, Registered
<1>4. New' /\ Holding'
  BY SMTT(30), <1>1 DEF PurgeInv, New, Holding, Registered
<1>. QED
  BY <1>2, <1>3, <1>4 DEF PurgeInv

\* purgeable_purge, but for the purging itself and the return into
\* purgeable_get.
LEMMA PurgeStep ==
    ASSUME PurgeInv, NEW t \in Callers,
           \/ \E bytes \in {0, 1} : PurgeBegin(t, bytes)
           \/ PurgeLock(t) \/ PurgeReturn(t)
           \/ PurgeDone(t) /\ UNCHANGED buf /\ pc'[t].at # "hold",
           PurgeAssumption
    PROVE  PurgeInv'
<1>. USE DEF PurgeInv, PurgeType
<1>1. ASSUME NEW bytes \in {0, 1}, PurgeBegin(t, bytes)
      PROVE  PurgeInv'
  <2>. DEFINE x == [at |-> "purge", bytes |-> bytes, then |-> "return"]
  <2>1. x \in Locals
    BY SMTT(30) DEF Locals
  <2>2. \A p \in Bufs : Owns(t, p)' => Owns(t, p) /\ pc[t].at # "free"
    BY <1>1 DEF PurgeBegin, PurgeGoto, Owns, PurgeAssumption
  <2>. QED
    BY <1>1, <2>1, <2>2, MoveStep DEF PurgeBegin, PurgeGoto
<1>2. CASE PurgeLock(t)
  <2>. DEFINE x == [at |-> "scan", bytes |-> pc[t].bytes, then |-> pc[t].then, i |-> 1, total |-> 0]
  <2>1. x \in Locals
    <3>1. pc[t].at = "purge" /\ pc[t] \in Locals
      BY <1>2 DEF PurgeLock, PurgeAt
    <3>2. pc[t].bytes \in Nat /\ pc[t].then \in Bufs \cup {"return"}
      BY <3>1 DEF Locals
    <3>. QED
      BY SMTT(30), <3>2 DEF Locals
  <2>2. \A p \in Bufs : Owns(t, p)' => Owns(t, p) /\ pc[t].at # "free"
    BY <1>2 DEF PurgeLock, PurgeGoto, Owns, PurgeAt
  <2>. QED
    BY <1>2, <2>1, <2>2, MoveStep DEF PurgeLock, PurgeGoto
<1>3. CASE PurgeReturn(t)
  <2>1. NoCall \in Locals
    BY DEF Locals, NoCall
  <2>2. \A p \in Bufs : Owns(t, p)' => Owns(t, p) /\ pc[t].at # "free"
    BY <1>3 DEF PurgeReturn, PurgeGoto, Owns, NoCall
  <2>. QED
    BY <1>3, <2>1, <2>2, MoveStep DEF PurgeReturn, PurgeGoto, NoCall
<1>4. CASE PurgeDone(t) /\ UNCHANGED buf /\ pc'[t].at # "hold"
  <2>. DEFINE x == [at |-> "purged", bytes |-> pc[t].bytes, total |-> pc[t].total]
              y == [at |-> "fault"]
  <2>1. x \in Locals /\ y \in Locals
    <3>1. pc[t].at = "scan" /\ pc[t] \in Locals
      BY <1>4 DEF PurgeDone, PurgeAt
    <3>2. pc[t].bytes \in Nat /\ pc[t].total \in Nat
      BY <3>1 DEF Locals
    <3>. QED
      BY <3>2 DEF Locals
  <2>2. pc' = [pc EXCEPT ![t] = x] \/ pc' = [pc EXCEPT ![t] = y]
    BY SMTT(30), <1>4 DEF PurgeDone, PurgeGoto, Hold
  <2>3. \A p \in Bufs : Owns(t, p)' => Owns(t, p) /\ pc[t].at # "free"
    BY SMTT(30), <2>2 DEF Owns
  <2>. QED
    BY <1>4, <2>1, <2>2, <2>3, MoveStep DEF PurgeDone
<1>. QED
  BY <1>1, <1>2, <1>3, <1>4

\* Memory for the buffer whose semaphore t has.
LEMMA RefillStep ==
    ASSUME PurgeInv, NEW t \in Callers, PurgeDone(t), pc'[t].at = "hold", PurgeAssumption
    PROVE  PurgeInv'
<1>. USE DEF PurgeInv, PurgeType
<1>1. pc[t].at = "scan" /\ pc[t] \in Locals
  BY DEF PurgeDone, PurgeAt
<1>. DEFINE p == pc[t].then
<1>2. /\ p \in Bufs /\ buf' = [buf EXCEPT ![p] = TRUE]
      /\ pc' = [pc EXCEPT ![t] = [at |-> "hold", p |-> p, was |-> TRUE]]
      /\ UNCHANGED <<s_purgeable, lock, purged>>
  <2>1. p \in Bufs \cup {"return"}
    BY <1>1 DEF Locals
  <2>. QED
    BY SMTT(30), <2>1 DEF PurgeDone, PurgeGoto, Hold
<1>. HIDE DEF p
<1>3. Owns(t, p)
  BY <1>1 DEF Owns, p
<1>4. /\ pc' \in [Callers -> Locals]
      /\ pc'[t] = [at |-> "hold", p |-> p, was |-> TRUE]
      /\ \A u \in Callers \ {t} : pc'[u] = pc[u]
  BY <1>2 DEF Locals
<1>5. PurgeType' /\ NoDuplicates'
  BY <1>2, <1>4 DEF NoDuplicates
<1>6. Owned'
  <2>1. /\ User[p] = t /\ lock[p] = 0 /\ Registered(p) /\ ~purged[p]
    BY <1>1, <1>2, <1>3 DEF Owned
  <2>2. \A q \in Bufs : Owns(t, q)' => q = p
    BY SMTT(30), <1>4 DEF Owns
  <2>3. \A u \in Callers \ {t}, q \in Bufs : Owns(u, q)' => Owns(u, q) /\ pc'[u].at = pc[u].at
    BY <1>4 DEF Owns
  <2>. QED
    BY SMTT(30), <1>2, <2>1, <2>2, <2>3 DEF Owned, Registered
<1>7. New'
  BY SMTT(30), <1>2, <1>4 DEF New, Registered, Locals
<1>8. Holding'
  BY <1>2, <1>4 DEF Holding, Locals
<1>9. Known'
  BY SMTT(30), <1>2, <1>3 DEF Known, Owned, Registered
<1>. QED
  BY <1>5, <1>6, <1>7, <1>8, <1>9

\* mem_purge: a buffer on the list, whose semaphore is free.
LEMMA MemPurgeStep ==
    ASSUME PurgeInv, NEW t \in Callers, mem_purge(t)
    PROVE  PurgeInv'
<1>. USE DEF PurgeInv, PurgeType
<1>. DEFINE x == pc[t]
            p == s_purgeable[x.i]
            y == [x EXCEPT !.i = @ + 1, !.total = @ + IF buf[p] THEN 1 ELSE 0]
<1>1. x.at = "scan" /\ x \in Locals
  BY DEF mem_purge, PurgeAt
<1>2. x \in [at : {"scan"}, bytes : Nat, then : Bufs \cup {"return"}, i : Nat \ {0}, total : Nat]
  BY <1>1 DEF Locals
<1>3. y \in Locals /\ y.at = "scan" /\ y.then = x.then
  <2>1. x.i + 1 \in Nat \ {0} /\ x.total + (IF buf[p] THEN 1 ELSE 0) \in Nat
    BY SMTT(30), <1>2
  <2>2. y \in [at : {"scan"}, bytes : Nat, then : Bufs \cup {"return"}, i : Nat \ {0}, total : Nat]
    BY <1>2, <2>1
  <2>. QED
    BY <1>2, <2>2 DEF Locals
<1>4. x.i \in 1..Len(s_purgeable) /\ p \in Bufs
  BY SMTT(30), <1>2 DEF mem_purge, More
<1>5. /\ lock[p] > 0 /\ buf' = [buf EXCEPT ![p] = FALSE]
      /\ purged' = [purged EXCEPT ![p] = @ \/ buf[p]]
      /\ pc' = [pc EXCEPT ![t] = y] /\ UNCHANGED <<s_purgeable, lock>>
  BY DEF mem_purge, PurgeGoto
<1>6. Registered(p) /\ lock[p] = 1
  BY SMTT(30), <1>4, <1>5 DEF Registered
<1>. HIDE DEF y, p
<1>7. pc' \in [Callers -> Locals] /\ pc'[t] = y /\ \A u \in Callers \ {t} : pc'[u] = pc[u]
  BY <1>3, <1>5
<1>8. PurgeType' /\ NoDuplicates'
  BY <1>4, <1>5, <1>7 DEF NoDuplicates
<1>9. \A q \in Bufs \ {p} : purged'[q] = purged[q] /\ buf'[q] = buf[q]
  BY <1>5
<1>10. ~buf'[p] /\ purged'[p]
  <2>1. purged[p] \/ buf[p]
    BY <1>4, <1>6 DEF Known
  <2>2. buf'[p] = FALSE /\ purged'[p] = (purged[p] \/ buf[p])
    BY <1>4, <1>5
  <2>. QED
    BY <2>1, <2>2
<1>11. \A u \in Callers, q \in Bufs : Owns(u, q)' => Owns(u, q) /\ q # p /\ pc'[u].at = pc[u].at
  <2>1. \A u \in Callers, q \in Bufs : Owns(u, q)' => Owns(u, q) /\ pc'[u].at = pc[u].at
    BY <1>1, <1>3, <1>7 DEF Owns
  <2>2. \A u \in Callers, q \in Bufs : Owns(u, q) => q # p
    BY SMTT(30), <1>6 DEF Owned
  <2>. QED
    BY <2>1, <2>2
<1>12. Owned'
  BY SMTT(30), <1>5, <1>9, <1>11 DEF Owned, Registered
<1>13. New'
  BY SMTT(30), <1>3, <1>5, <1>6, <1>7, <1>9 DEF New, Registered, Locals
<1>14. Holding'
  <2>1. ASSUME NEW u \in Callers, pc'[u].at = "hold" PROVE buf'[pc'[u].p]
    <3>1. u # t /\ pc'[u] = pc[u] /\ pc[u].p \in Bufs
      BY <1>3, <1>7, <2>1 DEF Locals
    <3>2. pc[u].p # p
      BY SMTT(30), <1>6, <2>1, <3>1 DEF Owned, Owns
    <3>. QED
      BY <1>9, <2>1, <3>1, <3>2 DEF Holding
  <2>. QED
    BY <2>1 DEF Holding
<1>15. Known'
  BY SMTT(30), <1>5, <1>9, <1>10 DEF Known, Registered
<1>. QED
  BY <1>8, <1>12, <1>13, <1>14, <1>15

\* purgeable_alloc, and the buffer put on the list.
LEMMA AllocStep ==
    ASSUME PurgeInv, NEW t \in Callers, NEW p \in Bufs, purgeable_alloc(t, p)
    PROVE  PurgeInv'
<1>. USE DEF PurgeInv, PurgeType
<1>. DEFINE x == [at |-> "register", p |-> p]
<1>1. /\ pc[t].at = "idle" /\ User[p] = t /\ ~Registered(p)
      /\ buf' = [buf EXCEPT ![p] = TRUE] /\ lock' = [lock EXCEPT ![p] = 1]
      /\ purged' = [purged EXCEPT ![p] = FALSE]
      /\ pc' = [pc EXCEPT ![t] = x] /\ UNCHANGED s_purgeable
  BY DEF purgeable_alloc, PurgeAt, PurgeGoto
<1>2. x \in Locals
  BY DEF Locals
<1>3. pc' \in [Callers -> Locals] /\ pc'[t] = x /\ \A u \in Callers \ {t} : pc'[u] = pc[u]
  BY <1>1, <1>2
<1>4. PurgeType' /\ NoDuplicates'
  BY <1>1, <1>3 DEF NoDuplicates
<1>5. \A q \in Bufs \ {p} : purged'[q] = purged[q] /\ buf'[q] = buf[q] /\ lock'[q] = lock[q]
  BY <1>1
<1>6. buf'[p] /\ ~purged'[p] /\ lock'[p] = 1
  BY <1>1
<1>7. \A u \in Callers, q \in Bufs : Owns(u, q)' => Owns(u, q) /\ q # p /\ pc'[u].at = pc[u].at
  BY SMTT(30), <1>1, <1>3 DEF Owned, Owns
<1>8. Owned'
  BY SMTT(30), <1>1, <1>5, <1>7 DEF Owned, Registered
<1>9. New'
  <2>1. ASSUME NEW u \in Callers \ {t}, pc[u].at = "register" PROVE pc[u].p \in Bufs \ {p}
    BY <1>1, <2>1 DEF New, Locals
  <2>. QED
    BY SMTT(30), <1>1, <1>3, <1>5, <1>6, <2>1 DEF New, Registered
<1>10. Holding'
  <2>1. ASSUME NEW u \in Callers \ {t}, pc[u].at = "hold" PROVE pc[u].p \in Bufs
    BY <2>1 DEF Locals
  <2>. QED
    BY SMTT(30), <1>3, <1>5, <1>6, <2>1 DEF Holding
<1>11. Known'
  BY SMTT(30), <1>1, <1>5 DEF Known, Registered
<1>. QED
  BY <1>4, <1>8, <1>9, <1>10, <1>11

\* purgeable_alloc puts a new buffer on the list, once.
LEMMA RegisterStep ==
    ASSUME PurgeInv, NEW t \in Callers, Register(t)
    PROVE  PurgeInv'
<1>. USE DEF PurgeInv, PurgeType
<1>. DEFINE p == pc[t].p
<1>1. /\ pc[t].at = "register" /\ s_purgeable' = Append(s_purgeable, p)
      /\ pc' = [pc EXCEPT ![t] = NoCall] /\ UNCHANGED <<lock, buf, purged>>
  BY DEF Register, PurgeAt, PurgeGoto
<1>2. p \in Bufs
  BY <1>1 DEF Locals
<1>3. User[p] = t /\ ~Registered(p) /\ buf[p] /\ ~purged[p]
  BY <1>1 DEF New
<1>. HIDE DEF p
<1>4. NoCall \in Locals /\ NoCall.at = "idle"
  BY DEF Locals, NoCall
<1>5. pc' \in [Callers -> Locals] /\ pc'[t].at = "idle" /\ \A u \in Callers \ {t} : pc'[u] = pc[u]
  BY <1>1, <1>4
<1>6. s_purgeable' \in Seq(Bufs) /\ NoDuplicates'
  BY SMTT(30), <1>1, <1>2, <1>3 DEF NoDuplicates, Registered
<1>7. \A q : Registered(q)' <=> Registered(q) \/ q = p
  BY SMTT(30), <1>1, <1>2 DEF Registered
<1>8. Owned'
  BY SMTT(30), <1>1, <1>5, <1>7 DEF Owned, Owns
<1>9. New'
  <2>1. ASSUME NEW u \in Callers \ {t}, pc[u].at = "register" PROVE pc[u].p # p
    BY <1>3, <2>1 DEF New
  <2>. QED
    BY SMTT(30), <1>1, <1>5, <1>7, <2>1 DEF New
<1>10. Holding' /\ Known'
  BY <1>1, <1>3, <1>5, <1>7 DEF Holding, Known
<1>. QED
  BY <1>1, <1>5, <1>6, <1>8, <1>9, <1>10

\* sem_pend(&p->lock): purgeable_get and purgeable_free.
LEMMA TakeStep ==
    ASSUME PurgeInv, NEW t \in Callers, NEW p \in Bufs, NEW x \in Locals,
           pc[t].at = "idle", User[p] = t, Registered(p), lock[p] = 1,
           lock' = [lock EXCEPT ![p] = 0], pc' = [pc EXCEPT ![t] = x], UNCHANGED s_purgeable,
           purged' \in [Bufs -> BOOLEAN], buf' \in [Bufs -> BOOLEAN],
           \A q \in Bufs \ {p} : purged'[q] = purged[q] /\ buf'[q] = buf[q],
           x.at # "free" => ~purged'[p],
           x.at # "register", x.at = "hold" => x.p = p /\ buf'[p],
           \A q \in Bufs : Owns(t, q)' => q = p
    PROVE  PurgeInv'
<1>. USE DEF PurgeInv, PurgeType
<1>1. pc' \in [Callers -> Locals] /\ pc'[t] = x /\ \A u \in Callers \ {t} : pc'[u] = pc[u]
  OBVIOUS
<1>2. PurgeType' /\ NoDuplicates'
  BY <1>1 DEF NoDuplicates
<1>3. lock'[p] = 0 /\ \A q \in Bufs \ {p} : lock'[q] = lock[q]
  OBVIOUS
<1>4. \A u \in Callers \ {t}, q \in Bufs : Owns(u, q)' => Owns(u, q) /\ q # p /\ pc'[u].at = pc[u].at
  BY SMTT(30), <1>1 DEF Owned, Owns
<1>5. Owned'
  BY SMTT(30), <1>1, <1>3, <1>4 DEF Owned, Registered
<1>6. New'
  <2>1. ASSUME NEW u \in Callers \ {t}, pc[u].at = "register" PROVE pc[u].p \in Bufs \ {p}
    BY SMTT(30), <2>1 DEF New, Locals
  <2>. QED
    BY SMTT(30), <1>1, <1>3, <2>1 DEF New, Registered
<1>7. Holding'
  <2>1. ASSUME NEW u \in Callers \ {t}, pc[u].at = "hold" PROVE pc[u].p \in Bufs \ {p}
    BY <2>1 DEF Owned, Owns, Locals
  <2>. QED
    BY SMTT(30), <1>1, <2>1 DEF Holding
<1>8. Known'
  BY SMTT(30), <1>3 DEF Known, Registered
<1>. QED
  BY <1>2, <1>5, <1>6, <1>7, <1>8

\* purgeable_get locks the buffer and brings it back if it was purged.
LEMMA GetStep ==
    ASSUME PurgeInv, NEW t \in Callers, NEW p \in Bufs, purgeable_get(t, p), PurgeAssumption
    PROVE  PurgeInv'
<1>. USE DEF PurgeInv, PurgeType
<1>1. /\ pc[t].at = "idle" /\ User[p] = t /\ Registered(p) /\ lock[p] = 1
      /\ lock' = [lock EXCEPT ![p] = 0] /\ purged' = [purged EXCEPT ![p] = FALSE]
      /\ UNCHANGED s_purgeable
  BY SMTT(30) DEF purgeable_get, PurgeAt
<1>2. /\ purged' \in [Bufs -> BOOLEAN] /\ ~purged'[p]
      /\ \A q \in Bufs \ {p} : purged'[q] = purged[q]
  BY <1>1
<1>3. CASE buf' = [buf EXCEPT ![p] = TRUE] /\ Hold(t, p, ~buf[p])
  <2>. DEFINE x == [at |-> "hold", p |-> p, was |-> ~buf[p]]
  <2>1. x \in Locals
    BY DEF Locals
  <2>2. buf' \in [Bufs -> BOOLEAN] /\ buf'[p] /\ \A q \in Bufs \ {p} : buf'[q] = buf[q]
    BY <1>3
  <2>3. pc' = [pc EXCEPT ![t] = x]
    BY <1>3 DEF Hold, PurgeGoto
  <2>4. \A q \in Bufs : Owns(t, q)' => q = p
    BY <2>3 DEF Owns
  <2>. QED
    BY <1>1, <1>2, <2>1, <2>2, <2>3, <2>4, TakeStep
<1>4. CASE PurgeGoto(t, [at |-> "purge", bytes |-> 1, then |-> p]) /\ UNCHANGED buf
  <2>. DEFINE x == [at |-> "purge", bytes |-> 1, then |-> p]
  <2>1. x \in Locals
    BY DEF Locals
  <2>2. pc' = [pc EXCEPT ![t] = x]
    BY <1>4 DEF PurgeGoto
  <2>3. \A q \in Bufs : Owns(t, q)' => q = p
    BY <2>2 DEF Owns
  <2>. QED
    BY <1>1, <1>2, <1>4, <2>1, <2>2, <2>3, TakeStep
<1>. QED
  BY <1>3, <1>4 DEF purgeable_get

\* purgeable_free takes the buffer's lock for good.
LEMMA FreeLockStep ==
    ASSUME PurgeInv, NEW t \in Callers, NEW p \in Bufs, FreeLock(t, p)
    PROVE  PurgeInv'
<1>. USE DEF PurgeInv, PurgeType
<1>. DEFINE x == [at |-> "free", p |-> p]
<1>1. /\ pc[t].at = "idle" /\ User[p] = t /\ Registered(p) /\ lock[p] = 1
      /\ lock' = [lock EXCEPT ![p] = 0] /\ pc' = [pc EXCEPT ![t] = x]
      /\ UNCHANGED <<s_purgeable, buf, purged>>
  BY SMTT(30) DEF FreeLock, PurgeAt, PurgeGoto
<1>2. x \in Locals
  BY DEF Locals
<1>3. \A q \in Bufs : Owns(t, q)' => q = p
  BY <1>1 DEF Owns
<1>. QED
  BY <1>1, <1>2, <1>3, TakeStep

\* sem_post(&p->lock)
LEMMA PutStep ==
    ASSUME PurgeInv, NEW t \in Callers, purgeable_put(t)
    PROVE  PurgeInv'
<1>. USE DEF PurgeInv, PurgeType
<1>. DEFINE p == pc[t].p
<1>1. pc[t].at = "hold" /\ pc' = [pc EXCEPT ![t] = NoCall] /\ UNCHANGED <<s_purgeable, buf, purged>>
  BY DEF purgeable_put, PurgeAt, PurgeGoto
<1>2. p \in Bufs
  BY <1>1 DEF Locals
<1>3. Owns(t, p) /\ User[p] = t /\ Registered(p) /\ ~purged[p] /\ buf[p]
  BY <1>1, <1>2 DEF Owned, Owns, Holding
<1>4. lock' = [lock EXCEPT ![p] = 1]
  BY <1>3 DEF purgeable_put
<1>. HIDE DEF p
<1>5. NoCall \in Locals /\ NoCall.at = "idle"
  BY DEF Locals, NoCall
<1>6. pc' \in [Callers -> Locals] /\ pc'[t].at = "idle" /\ \A u \in Callers \ {t} : pc'[u] = pc[u]
  BY <1>1, <1>5
<1>7. lock' \in [Bufs -> {0, 1}] /\ \A q \in Bufs \ {p} : lock'[q] = lock[q]
  BY <1>4
<1>8. \A u \in Callers, q \in Bufs : Owns(u, q)' => Owns(u, q) /\ q # p /\ pc'[u].at = pc[u].at
  BY SMTT(30), <1>3, <1>6 DEF Owned, Owns
<1>9. Owned'
  BY SMTT(30), <1>1, <1>7, <1>8 DEF Owned, Registered
<1>10. New'
  <2>1. ASSUME NEW u \in Callers \ {t}, pc[u].at = "register" PROVE pc[u].p \in Bufs \ {p}
    BY <1>3, <2>1 DEF New, Locals
  <2>. QED
    BY SMTT(30), <1>1, <1>6, <1>7, <2>1 DEF New, Registered
<1>11. Holding' /\ Known'
  BY SMTT(30), <1>1, <1>3, <1>6, <1>7 DEF Holding, Known, Registered
<1>12. NoDuplicates'
  BY <1>1 DEF NoDuplicates
<1>. QED
  BY <1>1, <1>6, <1>7, <1>9, <1>10, <1>11, <1>12

\* What is left of the list without its i-th buffer.
LEMMA Removed ==
    ASSUME NEW s \in Seq(Bufs), NEW i \in 1..Len(s)
    PROVE  /\ Without(s, i) \in Seq(Bufs)
           /\ Len(Without(s, i)) = Len(s) - 1
           /\ \A j \in 1..Len(s) - 1 : Without(s, i)[j] = IF j < i THEN s[j] ELSE s[j + 1]
<1>. DEFINE a == SubSeq(s, 1, i - 1)
            b == SubSeq(s, i + 1, Len(s))
<1>1. /\ a \in Seq(Bufs) /\ Len(a) = i - 1
      /\ \A j \in 1..i - 1 : a[j] = s[j]
  <2>1. \A j \in 1..i - 1 : s[j] \in Bufs
    BY SMTT(30)
  <2>. QED
    BY SMTT(30), <2>1, SubSeqProperties
<1>2. /\ b \in Seq(Bufs) /\ Len(b) = Len(s) - i
      /\ \A j \in 1..Len(s) - i : b[j] = s[i + j]
  <2>1. \A j \in i + 1..Len(s) : s[j] \in Bufs
    BY SMTT(30)
  <2>. QED
    BY SMTT(30), <2>1, SubSeqProperties
<1>3. Without(s, i) = a \o b
  BY DEF Without
<1>. HIDE DEF a, b
<1>4. /\ a \o b \in Seq(Bufs) /\ Len(a \o b) = Len(s) - 1
      /\ \A j \in 1..Len(s) - 1 : (a \o b)[j] = IF j <= i - 1 THEN a[j] ELSE b[j - (i - 1)]
  <2>1. Len(a) + Len(b) = Len(s) - 1
    BY SMTT(30), <1>1, <1>2
  <2>2. a \in Seq(Bufs) /\ b \in Seq(Bufs)
    BY <1>1, <1>2
  <2>3. /\ a \o b \in Seq(Bufs) /\ Len(a \o b) = Len(a) + Len(b)
        /\ \A j \in 1..Len(a) + Len(b) : (a \o b)[j] = IF j <= Len(a) THEN a[j] ELSE b[j - Len(a)]
    BY <2>2, ConcatProperties
  <2>4. Len(a) = i - 1
    BY <1>1
  <2>. QED
    BY <2>1, <2>3, <2>4
<1>5. ASSUME NEW j \in 1..Len(s) - 1 PROVE (a \o b)[j] = IF j < i THEN s[j] ELSE s[j + 1]
  <2>0. j < i \/ j >= i
    BY SMTT(30)
  <2>1. CASE j < i
    BY SMTT(30), <1>1, <1>4, <2>1
  <2>2. CASE j >= i
    <3>1. j - (i - 1) \in 1..Len(s) - i /\ i + (j - (i - 1)) = j + 1
      BY SMTT(30), <2>2
    <3>. QED
      BY SMTT(30), <1>2, <1>4, <2>2, <3>1
  <2>. QED
    BY <2>0, <2>1, <2>2
<1>. QED
  BY <1>3, <1>4, <1>5

\* purgeable_free takes the buffer off the list.
LEMMA FreeListStep ==
    ASSUME PurgeInv, NEW t \in Callers, FreeList(t)
    PROVE  PurgeInv'
<1>. USE DEF PurgeInv, PurgeType
<1>. DEFINE p == pc[t].p
<1>1. /\ pc[t].at = "free" /\ pc' = [pc EXCEPT ![t] = NoCall]
      /\ buf' = [buf EXCEPT ![p] = FALSE] /\ UNCHANGED <<lock, purged>>
  BY DEF FreeList, PurgeAt, PurgeGoto
<1>2. p \in Bufs
  BY <1>1 DEF Locals
<1>3. Owns(t, p) /\ User[p] = t
  BY <1>1, <1>2 DEF Owned, Owns
<1>4. PICK i \in 1..Len(s_purgeable) : s_purgeable[i] = p /\ s_purgeable' = Without(s_purgeable, i)
  BY DEF FreeList
<1>. HIDE DEF p
<1>5. /\ s_purgeable' \in Seq(Bufs) /\ Len(s_purgeable') = Len(s_purgeable) - 1
      /\ \A j \in 1..Len(s_purgeable) - 1 :
            s_purgeable'[j] = IF j < i THEN s_purgeable[j] ELSE s_purgeable[j + 1]
  BY <1>4, Removed
<1>6. NoDuplicates'
  BY SMTT(30), <1>5 DEF NoDuplicates
<1>7. \A q : Registered(q)' <=> Registered(q) /\ q # p
  <2>1. ASSUME NEW q, Registered(q)' PROVE Registered(q) /\ q # p
    BY SMTT(30), <1>4, <1>5, <2>1 DEF Registered, NoDuplicates
  <2>2. ASSUME NEW q, Registered(q), q # p PROVE Registered(q)'
    <3>1. PICK k \in 1..Len(s_purgeable) : s_purgeable[k] = q
      BY <2>2 DEF Registered
    <3>2. CASE k < i
      BY SMTT(30), <1>4, <1>5, <3>1, <3>2 DEF Registered
    <3>3. CASE k > i
      <4>1. k - 1 \in 1..Len(s_purgeable) - 1 /\ ~(k - 1 < i) /\ (k - 1) + 1 = k
        BY SMTT(30), <3>3
      <4>. QED
        BY <1>5, <3>1, <4>1 DEF Registered
    <3>. QED
      BY SMTT(30), <1>4, <2>2, <3>1, <3>2, <3>3
  <2>. QED
    BY <2>1, <2>2
<1>8. NoCall \in Locals /\ NoCall.at = "idle"
  BY DEF Locals, NoCall
<1>9. pc' \in [Callers -> Locals] /\ pc'[t].at = "idle" /\ \A u \in Callers \ {t} : pc'[u] = pc[u]
  BY <1>1, <1>8
<1>10. \A u \in Callers, q \in Bufs : Owns(u, q)' => Owns(u, q) /\ q # p /\ pc'[u].at = pc[u].at
  BY SMTT(30), <1>3, <1>9 DEF Owned, Owns
<1>11. Owned'
  BY SMTT(30), <1>1, <1>7, <1>10 DEF Owned
<1>12. New'
  <2>1. ASSUME NEW u \in Callers \ {t}, pc[u].at = "register" PROVE pc[u].p \in Bufs \ {p}
    BY <1>3, <2>1 DEF New, Locals
  <2>. QED
    BY SMTT(30), <1>1, <1>7, <1>9, <2>1 DEF New
<1>13. Holding'
  <2>1. ASSUME NEW u \in Callers \ {t}, pc[u].at = "hold" PROVE pc[u].p \in Bufs \ {p}
    BY SMTT(30), <1>3, <2>1 DEF Owned, Owns, Locals
  <2>. QED
    BY <1>1, <1>9, <2>1 DEF Holding
<1>14. Known'
  BY <1>1, <1>7 DEF Known
<1>15. buf' \in [Bufs -> BOOLEAN]
  BY <1>1, <1>2
<1>. QED
  BY <1>1, <1>5, <1>6, <1>9, <1>11, <1>12, <1>13, <1>14, <1>15

\* Whoever purges, and whenever: the buffer that a task has got stays until it
\* puts it back, and was_purged tells whether a buffer was purged.
THEOREM BuffersSafe == ASSUME PurgeAssumption PROVE PurgeSpec => []PurgesSafe
<1>1. PurgeInv /\ [PurgeNext]_purgeVars => PurgeInv'
  <2>. SUFFICES ASSUME PurgeInv, [PurgeNext]_purgeVars PROVE PurgeInv'
    OBVIOUS
  <2>1. CASE UNCHANGED purgeVars
    BY SMTT(30), <2>1 DEF purgeVars, PurgeInv, PurgeType, NoDuplicates, Owned, Owns, New, Holding, Known, Registered
  <2>2. ASSUME NEW t \in Users, NEW p \in Bufs, purgeable_alloc(t, p) \/ purgeable_get(t, p)
        PROVE  PurgeInv'
    BY <2>2, AllocStep, GetStep DEF Callers
  <2>3. ASSUME NEW t \in Freers, NEW p \in Bufs, FreeLock(t, p)
        PROVE  PurgeInv'
    BY <2>3, FreeLockStep DEF Callers, PurgeAssumption
  <2>4. ASSUME NEW t \in Purgers, NEW bytes \in {0, 1}, PurgeBegin(t, bytes)
        PROVE  PurgeInv'
    BY <2>4, PurgeStep DEF Callers
  <2>5. ASSUME NEW t \in Callers, PurgeContinue(t)
        PROVE  PurgeInv'
    <3>1. PurgeDone(t) /\ pc'[t].at # "hold" => UNCHANGED buf
      BY SMTT(30), <2>5 DEF PurgeDone, Hold, PurgeGoto, PurgeInv, PurgeType
    <3>. QED
      BY <2>5, <3>1, RegisterStep, PutStep, FreeListStep, PurgeStep, MemPurgeStep, RefillStep
           DEF PurgeContinue
  <2>. QED
    BY <2>1, <2>2, <2>3, <2>4, <2>5 DEF PurgeNext
<1>. QED
  BY <1>1, PurgeInvInit, InvSafe, PTL DEF PurgeSpec
=============================================================================
