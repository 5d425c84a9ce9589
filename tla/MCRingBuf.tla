------------------------------ MODULE MCRingBuf ------------------------------
(***************************************************************************)
(* RingBuf for TLC, twice: "kbd", interrupt handlers that write and tasks  *)
(* that read through a system call (the instance of the .cfg); and         *)
(* "tasks", a writer and a reader with interrupts on, preempted between    *)
(* any two accesses, with variables of its own.  The initial state chooses *)
(* a part; the other's variables keep their initial values.                *)
(***************************************************************************)
EXTENDS RingBuf

CONSTANTS t1, t2, t3, x

VARIABLES part, tcurrent, tstate, tcount, tlinks, top, thost, tbuf, thead, ttail, tpc, tval
tvars == <<tcurrent, tstate, tcount, tlinks, top, thost, tbuf, thead, ttail, tpc, tval>>

\* sem_init's values, for the .cfg.
MCInitCount == RbInitCount

\* No keyboard writes into this buffer: the handlers take no step.
T == INSTANCE RingBuf WITH
    Writers <- {t1}, Readers <- {t3}, Masked <- {},
    InitCount <- RbInitCount, TRIES <- 1, Values <- {x},
    current <- tcurrent, state <- tstate, count <- tcount, links <- tlinks, op <- top, host <- thost,
    buf <- tbuf, head <- thead, tail <- ttail, pc <- tpc, val <- tval

MCInit ==
    /\ Init /\ T!Init
    /\ part = "kbd" \/ (part = "tasks" /\ buf[0] = x /\ \A c \in Contexts : val[c] = x)

MCNext ==
    \/ part = "kbd" /\ Next /\ UNCHANGED <<part, tvars>>
    \/ /\ part = "tasks" /\ UNCHANGED <<part, vars>>
       /\ (\E t \in Tasks : T!Step(t)) \/ (\E t \in AllTasks : T!Switch(t))

\* Round robin: a task that is runnable again and again runs again and
\* again; a reader (a shell) always reads on.
MCFairSpec ==
    /\ MCInit /\ [][MCNext]_<<part, vars, tvars>>
    /\ \A t \in Readers \cup {Idle} : SF_vars(part = "kbd" /\ Switch(t))
    /\ \A t \in Readers : SF_vars(part = "kbd" /\ Step(t))
    /\ \A h \in Handlers : WF_vars(part = "kbd" /\ HandlerStep(h))

\* Tasks preempted between any two accesses share the buffer all the same: no
\* step gets past the queue semaphore, a lock on the indices and the bytes, and
\* the buffer is a bounded first-in-first-out queue (RingBuf).
SharedByTasks == [][T!MutualExclusion']_tvars /\ T!ImplementsFifo

\* The bytes keep flowing: once the keyboard's handler is writing one, a byte
\* comes out at the other end, whichever readers sleep on which semaphore.
BytesFlow ==
    (part = "kbd" /\ \E h \in Handlers : pc[h] = "w_head")
        ~> (part = "kbd" /\ \E t \in Readers : pc[t] = "r_tail")
=============================================================================
