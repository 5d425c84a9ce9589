------------------------------- MODULE Sync -------------------------------
(***************************************************************************)
(* Counting semaphores (sync.c) on one preemptive CPU, one memory access   *)
(* per step.  The build is -O0, so every access of the C text is a separate *)
(* access of the machine; the timer may switch tasks between any two of    *)
(* them unless interrupts are off.  They are off                            *)
(*   - for the tasks of Masked while they are inside a call: those enter    *)
(*     through an interrupt gate (every IDT entry is one, the system        *)
(*     call's too) or under cli_push();                                     *)
(*   - in an interrupt handler, which runs on the stack of the task it      *)
(*     interrupted: when a handler sleeps, it is that task that sleeps.     *)
(* Which runnable task the scheduler picks is left open here (see Sched).   *)
(* This module is the machine; its clients (SemClient, RingBuf) say who     *)
(* calls what, by setting op.                                               *)
(***************************************************************************)
EXTENDS IList, Integers, FiniteSets

CONSTANTS
    Tasks,      \* the tasks that make calls
    Idle,       \* kidle: runs when no task is runnable
    Handlers,   \* interrupt handler activations
    Nobody,     \* host of a handler that is not active
    Sems,
    InitCount,  \* sem_init's value for each semaphore
    Masked,     \* tasks that make their calls with interrupts off
    TRIES       \* sync.c's TRIES

VARIABLES
    current,    \* the task on the CPU
    state,      \* task->state: "runnable", "wait_semaphore" or (kidle) "wait"
    count,      \* semaphore->count
    links,      \* task->waiting_on and semaphore->waiters, one pool of list nodes
    op,         \* the semaphore call each context is in: program point and locals
    host        \* the task a handler activation runs on top of

syncVars == <<current, state, count, links, op, host>>

AllTasks == Tasks \cup {Idle}
Contexts == Tasks \cup Handlers
Nodes == AllTasks \cup Sems

NoOp == [at |-> "idle"]

PendPoints == {"p_read", "p_cas", "p_sleep"}
WakePoints == {"v_test", "v_first", "v_load", "v_next", "v_prev", "v_self", "v_wake"}

InPend(c, s) == op[c].at \in PendPoints /\ op[c].s = s

\* The task a context runs as (what `current` is while it runs).
TaskOf(c) == IF c \in Handlers THEN host[c] ELSE c

\* c is what the CPU executes: a task with no handler on top of it, or the
\* handler on top of the current task.
Runs(c) == IF c \in Handlers THEN host[c] = current
           ELSE c = current /\ \A h \in Handlers : host[h] # c

\* Mutant: calls are entered with interrupts left on.
Interruptible_InCall(busy) == \A h \in Handlers : host[h] # current

\* Interrupts are on: no handler runs, and no task of Masked that is busy with
\* a call.
Interruptible(busy) == /\ current \notin Masked \cap busy
                       /\ \A h \in Handlers : host[h] # current

\* sched(): some runnable task, kidle when there is none.
SchedNext(st) ==
    LET runnable == {t \in AllTasks : st[t] = "runnable"}
    IN  IF runnable = {} THEN {Idle} ELSE runnable

\* sched_init: kidle is in state ts_wait; every other task is runnable.
SyncInit ==
    /\ current = Idle
    /\ state = [t \in AllTasks |-> IF t = Idle THEN "wait" ELSE "runnable"]
    /\ count = InitCount
    /\ links = v_ilist_init(Nodes)
    /\ op = [c \in Contexts |-> NoOp]
    /\ host = [h \in Handlers |-> Nobody]

Goto(c, o) == op' = [op EXCEPT ![c] = o]

PendOp(s) == [at |-> "p_read", s |-> s, try |-> 0]
PostOp(s) == [at |-> "v_inc", s |-> s]

(* ------------------------------- sem_pend ------------------------------ *)

\* The rest of one round of the TRIES loop that did not get a unit.
Missed(c) ==
    Goto(c, IF op[c].try + 1 < TRIES
            THEN [at |-> "p_read", s |-> op[c].s, try |-> op[c].try + 1]
            ELSE [at |-> "p_sleep", s |-> op[c].s])

\* Mutant: the test of val is dropped.
PendRead_NoTest(c) ==
    /\ op[c].at = "p_read"
    /\ Goto(c, [at |-> "p_cas", s |-> op[c].s, try |-> op[c].try, val |-> count[op[c].s]])
    /\ UNCHANGED <<current, state, count, links, host>>

\* val = s->count
PendRead(c) ==
    /\ op[c].at = "p_read"
    /\ IF count[op[c].s] # 0
       THEN Goto(c, [at |-> "p_cas", s |-> op[c].s, try |-> op[c].try, val |-> count[op[c].s]])
       ELSE Missed(c)
    /\ UNCHANGED <<current, state, count, links, host>>

\* Mutant: the pend returns without taking the unit.
PendCas_NoTake(c) ==
    /\ op[c].at = "p_cas"
    /\ Goto(c, NoOp)
    /\ UNCHANGED <<current, state, count, links, host>>

\* Mutant: a plain store of val - 1.
PendCas_Store(c) ==
    /\ op[c].at = "p_cas"
    /\ count' = [count EXCEPT ![op[c].s] = op[c].val - 1]
    /\ Goto(c, NoOp)
    /\ UNCHANGED <<current, state, links, host>>

\* cmpxchg(&s->count, val, val - 1) == val
PendCas(c) ==
    /\ op[c].at = "p_cas"
    /\ IF count[op[c].s] = op[c].val
       THEN count' = [count EXCEPT ![op[c].s] = op[c].val - 1] /\ Goto(c, NoOp)
       ELSE UNCHANGED count /\ Missed(c)
    /\ UNCHANGED <<current, state, links, host>>

\* Mutant: the sleeper goes to the front of the list.
PendSleep_Append(c) ==
    /\ op[c].at = "p_sleep"
    /\ state' = [state EXCEPT ![TaskOf(c)] = "wait_semaphore"]
    /\ links' = v_ilist_append(links, TaskOf(c), op[c].s)
    /\ current' \in SchedNext(state')
    /\ Goto(c, PendOp(op[c].s))
    /\ UNCHANGED <<count, host>>

\* cli_push; state and list; sched(); and, once switched back to, cli_pop and
\* round the loop again.  Interrupts are off throughout, so this is one step.
PendSleep(c) ==
    /\ op[c].at = "p_sleep"
    /\ state' = [state EXCEPT ![TaskOf(c)] = "wait_semaphore"]
    /\ links' = v_ilist_prepend(links, TaskOf(c), op[c].s)
    /\ current' \in SchedNext(state')
    /\ Goto(c, PendOp(op[c].s))
    /\ UNCHANGED <<count, host>>

(* ------------------------------- sem_post ------------------------------ *)

\* lock inc count
PostInc(c) ==
    /\ op[c].at = "v_inc"
    /\ count' = [count EXCEPT ![op[c].s] = @ + 1]
    /\ Goto(c, [at |-> "v_test", s |-> op[c].s])
    /\ UNCHANGED <<current, state, links, host>>

\* v_ilist_is_empty(&s->waiters)
PostTest(c) ==
    /\ op[c].at = "v_test"
    /\ IF v_ilist_is_empty(links, op[c].s)
       THEN Goto(c, NoOp)
       ELSE Goto(c, [at |-> "v_first", s |-> op[c].s])
    /\ UNCHANGED <<current, state, count, links, host>>

\* waiter = v_ilist_get_first(&s->waiters): head->next is read again.
PostFirst(c) ==
    /\ op[c].at = "v_first"
    /\ Goto(c, [at |-> "v_load", s |-> op[c].s, w |-> links.next[op[c].s]])
    /\ UNCHANGED <<current, state, count, links, host>>

\* v_ilist_remove(&waiter->waiting_on): prev and next are loaded ...
PostLoad(c) ==
    /\ op[c].at = "v_load"
    /\ Goto(c, [at |-> "v_next", s |-> op[c].s, w |-> op[c].w,
                prev |-> links.prev[op[c].w], next |-> links.next[op[c].w]])
    /\ UNCHANGED <<current, state, count, links, host>>

\* ... prev->next = next ...
PostNext(c) ==
    /\ op[c].at = "v_next"
    /\ links' = [links EXCEPT !.next[op[c].prev] = op[c].next]
    /\ Goto(c, [op[c] EXCEPT !.at = "v_prev"])
    /\ UNCHANGED <<current, state, count, host>>

\* ... next->prev = prev ...
PostPrev(c) ==
    /\ op[c].at = "v_prev"
    /\ links' = [links EXCEPT !.prev[op[c].next] = op[c].prev]
    /\ Goto(c, [at |-> "v_self", s |-> op[c].s, w |-> op[c].w])
    /\ UNCHANGED <<current, state, count, host>>

\* Mutant: the removed node keeps its old links.
PostSelf_NoInit(c) ==
    /\ op[c].at = "v_self"
    /\ Goto(c, [op[c] EXCEPT !.at = "v_wake"])
    /\ UNCHANGED <<current, state, count, links, host>>

\* ... v_ilist_init(node).
PostSelf(c) ==
    /\ op[c].at = "v_self"
    /\ links' = [links EXCEPT !.prev[op[c].w] = op[c].w, !.next[op[c].w] = op[c].w]
    /\ Goto(c, [op[c] EXCEPT !.at = "v_wake"])
    /\ UNCHANGED <<current, state, count, host>>

\* Mutant: the waiter's state is not set.
PostWake_NoState(c) ==
    /\ op[c].at = "v_wake"
    /\ Goto(c, NoOp)
    /\ UNCHANGED <<current, state, count, links, host>>

\* waiter->state = ts_runnable.  If the list emptied between the test and
\* the fetch, waiter is computed from the list head and the store goes to
\* memory outside any task: no task's state changes.
PostWake(c) ==
    /\ op[c].at = "v_wake"
    /\ state' = [u \in AllTasks |-> IF u = op[c].w THEN "runnable" ELSE state[u]]
    /\ Goto(c, NoOp)
    /\ UNCHANGED <<current, count, links, host>>

-----------------------------------------------------------------------------

SemStep(c) ==
    \/ PendRead(c) \/ PendCas(c) \/ PendSleep(c)
    \/ PostInc(c) \/ PostTest(c) \/ PostFirst(c) \/ PostLoad(c)
    \/ PostNext(c) \/ PostPrev(c) \/ PostSelf(c) \/ PostWake(c)

\* do_timer -> sched(): another task gets the CPU.
Preempt(t, busy) ==
    /\ Interruptible(busy)
    /\ t # current /\ t \in SchedNext(state)
    /\ current' = t
    /\ UNCHANGED <<state, count, links, op, host>>

\* An interrupt is taken on top of the current task (do_irq), and returns.
Interrupt(h, busy) ==
    /\ Interruptible(busy) /\ host[h] = Nobody
    /\ host' = [host EXCEPT ![h] = current]
    /\ UNCHANGED <<current, state, count, links>>

Iret(h) ==
    /\ op[h].at = "idle"
    /\ host' = [host EXCEPT ![h] = Nobody]
    /\ UNCHANGED <<current, state, count, links>>

-----------------------------------------------------------------------------

OpType ==
    {NoOp}
    \cup [at : {"p_read"}, s : Sems, try : 0..TRIES - 1]
    \cup [at : {"p_cas"}, s : Sems, try : 0..TRIES - 1, val : Nat \ {0}]
    \cup [at : {"p_sleep", "v_inc", "v_test", "v_first"}, s : Sems]
    \cup [at : {"v_load", "v_self", "v_wake"}, s : Sems, w : Nodes]
    \cup [at : {"v_next", "v_prev"}, s : Sems, w : Nodes, prev : Nodes, next : Nodes]

\* Types of the state; a count is never negative.
SyncTypeOK ==
    /\ current \in AllTasks
    /\ state \in [AllTasks -> {"runnable", "wait_semaphore", "wait"}]
    /\ count \in [Sems -> Nat]
    /\ links \in [next : [Nodes -> Nodes], prev : [Nodes -> Nodes]]
    /\ op \in [Contexts -> OpType]
    /\ host \in [Handlers -> AllTasks \cup {Nobody}]

\* The contexts whose task sleeps in sem_pend(s).
Asleep(s) == {c \in Contexts : InPend(c, s) /\ state[TaskOf(c)] = "wait_semaphore"}

\* sync.c's list of sleepers, in the order they are woken.
Waiters(s) == v_ilist_for_each(links, s, Cardinality(Nodes))
=============================================================================
