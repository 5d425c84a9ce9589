------------------------------ MODULE RingBuf ------------------------------
(***************************************************************************)
(* The ring buffer of lib/ringbuf.c over the semaphores of Sync, with its  *)
(* two users: tasks that write and read (serial_debug.c's output buffer),  *)
(* and the keyboard, written by the interrupt handler (drivers/kbd.c) and  *)
(* read by tasks.  Items are one byte, as every caller's are.              *)
(***************************************************************************)
EXTENDS Sync

CONSTANTS
    queue, n_free, n_used,  \* struct ringbuf's semaphores
    Cap,                    \* rb->cap
    Values,                 \* bytes
    Writers, Readers        \* tasks that call rb_write, rb_read

\* rb_initialize.
RbInitCount == [s \in Sems |-> IF s = queue THEN 1 ELSE IF s = n_free THEN Cap ELSE 0]

\* rb->cap is a power of two: indices are reduced with & (cap - 1).
ASSUME RingBufAssumption ==
    /\ Idle \notin Tasks /\ Nobody \notin AllTasks
    /\ Handlers \cap AllTasks = {}
    /\ AllTasks \cap Sems = {}
    /\ Sems = {queue, n_free, n_used}
    /\ queue # n_free /\ queue # n_used /\ n_free # n_used
    /\ TRIES \in Nat \ {0}
    /\ Cap \in Nat \ {0} /\ \E k \in 0..31 : Cap = 2^k
    /\ InitCount = RbInitCount
    /\ Writers \subseteq Tasks /\ Readers \subseteq Tasks
    /\ Values # {}
    /\ IsFiniteSet(Contexts)

VARIABLES
    buf, head, tail,    \* rb->buf, rb->head, rb->tail
    pc,                 \* where each context is in _rb_write or _rb_read
    val                 \* the byte a context writes or has read

vars == <<current, state, count, links, op, host, buf, head, tail, pc, val>>
dataVars == <<buf, head, tail, val>>

Index(i) == i % Cap

\* The buffers and struct ringbufs are zero-filled statics (kbd.c) or fresh
\* memory that is only read where it has been written (serial_debug.c).
Init ==
    /\ SyncInit
    /\ buf \in {[i \in 0..Cap - 1 |-> v] : v \in Values}
    /\ head = 0 /\ tail = 0
    /\ pc = [c \in Contexts |-> "idle"]
    /\ val \in {[c \in Contexts |-> v] : v \in Values}

\* The next call of the code is made once the one before has returned.
Call(c, from, to, o) ==
    /\ pc[c] = from /\ op[c].at = "idle"
    /\ pc' = [pc EXCEPT ![c] = to]
    /\ Goto(c, o)
    /\ UNCHANGED <<current, state, count, links, host>>

\* Inside _rb_write or _rb_read.
Busy == {t \in Tasks : pc[t] # "idle" \/ op[t].at # "idle"}

(* -------------------------------- _rb_write ---------------------------- *)

\* Mutant: a writer does not wait for room.
WriteBegin_NoWait(c, from) ==
    /\ \E v \in Values : val' = [val EXCEPT ![c] = v]
    /\ Call(c, from, "w_free", NoOp)
    /\ UNCHANGED <<buf, head, tail>>

WriteBegin(c, from) ==
    /\ \E v \in Values : val' = [val EXCEPT ![c] = v]
    /\ Call(c, from, "w_free", PendOp(n_free))
    /\ UNCHANGED <<buf, head, tail>>

\* Mutant: a writer does not take the lock.
WriteLock_NoLock(c) == Call(c, "w_free", "w_copy", NoOp) /\ UNCHANGED dataVars

WriteLock(c) == Call(c, "w_free", "w_copy", PendOp(queue)) /\ UNCHANGED dataVars

WriteCopy(c) ==
    /\ buf' = [buf EXCEPT ![Index(head + 1)] = val[c]]
    /\ Call(c, "w_copy", "w_head", NoOp)
    /\ UNCHANGED <<head, tail, val>>

WriteHead(c) ==
    /\ head' = Index(head + 1)
    /\ Call(c, "w_head", "w_used", PostOp(queue))
    /\ UNCHANGED <<buf, tail, val>>

WritePost(c) == Call(c, "w_used", "idle", PostOp(n_used)) /\ UNCHANGED dataVars

(* -------------------------------- _rb_read ----------------------------- *)

ReadBegin(c) == Call(c, "idle", "r_used", PendOp(n_used)) /\ UNCHANGED dataVars

ReadLock(c) == Call(c, "r_used", "r_copy", PendOp(queue)) /\ UNCHANGED dataVars

ReadCopy(c) ==
    /\ val' = [val EXCEPT ![c] = buf[Index(tail + 1)]]
    /\ Call(c, "r_copy", "r_tail", NoOp)
    /\ UNCHANGED <<buf, head, tail>>

ReadTail(c) ==
    /\ tail' = Index(tail + 1)
    /\ Call(c, "r_tail", "r_free", PostOp(queue))
    /\ UNCHANGED <<buf, head, val>>

ReadPost(c) == Call(c, "r_free", "idle", PostOp(n_free)) /\ UNCHANGED dataVars

(* ------------------------------- the keyboard -------------------------- *)

\* kbd_irq: a key goes down that has a byte (modifiers, releases and the
\* rest return at once and touch nothing here).
KbdIrq(h) ==
    /\ Interrupt(h, Busy)
    /\ pc' = [pc EXCEPT ![h] = "kbd_test"]
    /\ UNCHANGED <<op, buf, head, tail, val>>

\* received_scancode: rb_write, or drop the byte when the buffer is full.
KbdDrop(h) ==
    /\ pc[h] = "kbd_test" /\ count[n_free] = 0
    /\ Iret(h)
    /\ pc' = [pc EXCEPT ![h] = "idle"]
    /\ UNCHANGED <<op, buf, head, tail, val>>

\* Mutant: the handler does not look whether there is room.
KbdWrite_NoTest(h) == WriteBegin(h, "kbd_test")

KbdWrite(h) == count[n_free] # 0 /\ WriteBegin(h, "kbd_test")

KbdReturn(h) ==
    /\ pc[h] = "idle" /\ Iret(h)
    /\ UNCHANGED <<op, pc, buf, head, tail, val>>

-----------------------------------------------------------------------------

RbStep(c) ==
    \/ WriteLock(c) \/ WriteCopy(c) \/ WriteHead(c) \/ WritePost(c)
    \/ ReadLock(c) \/ ReadCopy(c) \/ ReadTail(c) \/ ReadPost(c)
    \/ SemStep(c) /\ UNCHANGED <<pc, buf, head, tail, val>>

Step(t) ==
    /\ Runs(t)
    /\ \/ t \in Writers /\ WriteBegin(t, "idle")
       \/ t \in Readers /\ ReadBegin(t)
       \/ RbStep(t)

HandlerStep(h) == Runs(h) /\ (KbdDrop(h) \/ KbdWrite(h) \/ KbdReturn(h) \/ RbStep(h))

Switch(t) == Preempt(t, Busy) /\ UNCHANGED <<pc, buf, head, tail, val>>

Next ==
    \/ \E t \in Tasks : Step(t)
    \/ \E h \in Handlers : KbdIrq(h) \/ HandlerStep(h)
    \/ \E t \in AllTasks : Switch(t)

Spec == Init /\ [][Next]_vars

-----------------------------------------------------------------------------

\* c is between sem_pend(&b->queue) and the increment of sem_post(&b->queue).
Holds(c) ==
    \/ pc[c] \in {"w_copy", "r_copy"} /\ op[c].at = "idle"
    \/ pc[c] \in {"w_head", "r_tail"}
    \/ pc[c] \in {"w_used", "r_free"} /\ op[c].at = "v_inc"

\* The queue semaphore is a lock: its holder excludes every other context
\* from the indices and the bytes, and a free lock has no holder.
MutualExclusion ==
    /\ \A c, d \in Contexts : Holds(c) /\ Holds(d) => c = d
    /\ count[queue] = IF \E c \in Contexts : Holds(c) THEN 0 ELSE 1

\* Items in the buffer, those a reader is committed to included: n_used, plus
\* the items whose reader has passed sem_pend(&b->n_used) and not copied
\* them, plus those written whose sem_post(&b->n_used) is still to come.
Claimed == {c \in Contexts : \/ pc[c] = "r_used" /\ op[c].at = "idle"
                             \/ pc[c] = "r_copy"}
Unannounced == {c \in Contexts : \/ pc[c] = "w_used"
                                 \/ /\ pc[c] = "idle" /\ op[c].at = "v_inc"
                                    /\ op[c].s = n_used}
Used == count[n_used] + Cardinality(Claimed) + Cardinality(Unannounced)

\* The item a reader has copied but not yet passed with tail.
Copied == Cardinality({c \in Contexts : pc[c] = "r_tail"})

Contents == [i \in 1..Used |-> buf[Index(tail + Copied + i)]]

F == INSTANCE Fifo WITH Users <- Contexts, q <- Contents

\* Whatever the interleaving of writers, readers and the interrupt handler,
\* the buffer is a bounded first-in-first-out queue.
ImplementsFifo == F!Spec

\* A handler never gives up the CPU: it returns before any task runs again.
\* And it never waits for the lock that the very task it runs on holds: the
\* check of n_free is there "to avoid deadlocking the system".
HandlerNeverSleeps ==
    \A h \in Handlers : host[h] # Nobody =>
        /\ host[h] = current
        /\ InPend(h, queue) => ~\E c \in Contexts : c = current /\ Holds(c)
=============================================================================
