-------------------------- MODULE SemClientProofs --------------------------
(***************************************************************************)
(* For any set of tasks and semaphores, any initial counts, any number of  *)
(* retries and any tasks running with interrupts on: the semaphores of     *)
(* sync.c keep their types and implement AbsSem.  If every call is made    *)
(* with interrupts off, the lists of waiters are intact at every store of  *)
(* a removal, and a task that sleeps is found on the list of the semaphore *)
(* it sleeps on.                                                           *)
(***************************************************************************)
EXTENDS SemClient, TLAPS

\* A step is for Zenon unless it names the SMT solver.
USE ZenonT(60)

USE ClientAssumption

\* The semaphore named by an operation in progress, and its other fields.
LEMMA OpFields ==
    ASSUME SyncTypeOK, NEW t \in Tasks
    PROVE  /\ op[t].at # "idle" => op[t].s \in Sems
           /\ op[t].at \in {"p_read", "p_cas"} => op[t].try \in 0..TRIES - 1
           /\ op[t].at = "p_cas" => op[t].val \in Nat \ {0}
           /\ op[t].at \in {"v_load", "v_next", "v_prev", "v_self", "v_wake"} => op[t].w \in Nodes
           /\ op[t].at \in {"v_next", "v_prev"} => op[t].prev \in Nodes /\ op[t].next \in Nodes
  BY SMTT(30) DEF SyncTypeOK, OpType, NoOp, Contexts

\* sem_init leaves every semaphore and list well typed.
LEMMA InitTypeOK == Init => SyncTypeOK
  BY SMTT(30) DEF Init, SyncInit, SyncTypeOK, AllTasks, v_ilist_init, Nodes, OpType, NoOp, Contexts

\* Whatever sched() picks is a task.
LEMMA SchedType ==
    ASSUME NEW st PROVE SchedNext(st) \subseteq AllTasks
  BY DEF SchedNext, AllTasks

\* Moving a call on to a point of the right type.
LEMMA GotoType ==
    ASSUME SyncTypeOK, NEW t \in Tasks, NEW o \in OpType, Goto(t, o)
    PROVE  op' \in [Contexts -> OpType]
  BY DEF SyncTypeOK, Goto

\* A pender that missed tries again, or goes on to sleep.
LEMMA MissedType ==
    ASSUME SyncTypeOK, NEW t \in Tasks, op[t].at \in {"p_read", "p_cas"}, Missed(t)
    PROVE  op' \in [Contexts -> OpType]
  <1>1. op[t].s \in Sems /\ op[t].try \in 0..TRIES - 1
    BY OpFields
  <1>2. [at |-> "p_sleep", s |-> op[t].s] \in OpType
    BY <1>1 DEF OpType
  <1>3. op[t].try + 1 < TRIES =>
          [at |-> "p_read", s |-> op[t].s, try |-> op[t].try + 1] \in OpType
    BY SMTT(30), <1>1 DEF OpType
  <1> QED BY <1>2, <1>3 DEF Missed, Goto, SyncTypeOK, Contexts

\* Linking a node in keeps every pointer inside the pool.
LEMMA PrependType ==
    ASSUME NEW L \in [next : [Nodes -> Nodes], prev : [Nodes -> Nodes]],
           NEW node \in Nodes, NEW next \in Nodes
    PROVE  v_ilist_prepend(L, node, next) \in [next : [Nodes -> Nodes], prev : [Nodes -> Nodes]]
  <1>1. L.next \in [Nodes -> Nodes] /\ L.prev \in [Nodes -> Nodes]
    OBVIOUS
  <1>2. L.prev[next] \in Nodes
    BY <1>1
  <1> QED BY <1>1, <1>2 DEF v_ilist_prepend, V_ILIST_LINK

\* Every access of sem_pend and sem_post keeps the types.
LEMMA SemStepType ==
    ASSUME SyncTypeOK, NEW t \in Tasks, SemStep(t)
    PROVE  SyncTypeOK'
  <1> USE DEF AllTasks, Contexts
  <1>1. /\ op[t] \in OpType /\ op \in [Contexts -> OpType]
        /\ count \in [Sems -> Nat]
        /\ links.next \in [Nodes -> Nodes] /\ links.prev \in [Nodes -> Nodes]
        /\ TaskOf(t) = t
    BY DEF SyncTypeOK, TaskOf
  <1>2. CASE PendRead(t)
    <2>1. op[t].s \in Sems /\ op[t].try \in 0..TRIES - 1
      BY <1>2, OpFields DEF PendRead
    <2>2. CASE count[op[t].s] # 0
      <3>1. count[op[t].s] \in Nat \ {0}
        BY <2>1, <2>2, <1>1
      <3>2. [at |-> "p_cas", s |-> op[t].s, try |-> op[t].try, val |-> count[op[t].s]] \in OpType
        BY <2>1, <3>1 DEF OpType
      <3>3. op' \in [Contexts -> OpType]
        BY <1>2, <2>2, <3>2, GotoType DEF PendRead
      <3> QED BY <1>2, <3>3 DEF PendRead, SyncTypeOK
    <2>3. CASE count[op[t].s] = 0
      BY <1>2, <2>3, MissedType DEF PendRead, SyncTypeOK
    <2> QED BY <2>2, <2>3
  <1>3. CASE PendCas(t)
    <2>1. op[t].s \in Sems /\ op[t].val \in Nat \ {0}
      BY <1>3, OpFields DEF PendCas
    <2>2. CASE count[op[t].s] = op[t].val
      <3>1. count' \in [Sems -> Nat]
        BY SMTT(30), <1>1, <1>3, <2>1, <2>2 DEF PendCas
      <3>2. op' \in [Contexts -> OpType]
        BY SMTT(30), <1>1, <1>3, <2>2 DEF PendCas, Goto, OpType
      <3> QED BY <1>3, <3>1, <3>2 DEF PendCas, SyncTypeOK
    <2>3. CASE count[op[t].s] # op[t].val
      BY <1>3, <2>3, MissedType DEF PendCas, SyncTypeOK
    <2> QED BY <2>2, <2>3
  <1>4. CASE PendSleep(t)
    <2>1. op[t].s \in Sems
      BY <1>4, OpFields DEF PendSleep
    <2>2. links' \in [next : [Nodes -> Nodes], prev : [Nodes -> Nodes]]
      <3>1. t \in Nodes /\ op[t].s \in Nodes
        BY <2>1 DEF Nodes
      <3> QED BY <1>1, <1>4, <3>1, PrependType DEF PendSleep, SyncTypeOK
    <2>3. op' \in [Contexts -> OpType]
      <3>1. PendOp(op[t].s) \in OpType
        BY SMTT(30), <2>1 DEF PendOp, OpType
      <3> QED BY <1>1, <1>4, <3>1 DEF PendSleep, Goto
    <2>4. state' \in [AllTasks -> {"runnable", "wait_semaphore", "wait"}]
      BY <1>1, <1>4 DEF PendSleep, SyncTypeOK
    <2>5. current' \in AllTasks
      BY <1>4, SchedType DEF PendSleep
    <2> QED BY <1>4, <2>2, <2>3, <2>4, <2>5 DEF PendSleep, SyncTypeOK
  <1>5. CASE PostInc(t)
    <2>1. op[t].s \in Sems
      BY <1>5, OpFields DEF PostInc
    <2>2. [at |-> "v_test", s |-> op[t].s] \in OpType
      BY <2>1 DEF OpType
    <2>3. count' \in [Sems -> Nat]
      BY SMTT(30), <1>1, <1>5, <2>1 DEF PostInc
    <2>4. op' \in [Contexts -> OpType]
      BY <1>5, <2>2, GotoType DEF PostInc
    <2> QED BY <1>5, <2>3, <2>4 DEF PostInc, SyncTypeOK
  <1>6. CASE PostTest(t)
    <2>1. op[t].s \in Sems
      BY <1>6, OpFields DEF PostTest
    <2>2. [at |-> "v_first", s |-> op[t].s] \in OpType /\ NoOp \in OpType
      BY <2>1 DEF OpType
    <2>3. op' \in [Contexts -> OpType]
      BY <1>6, <2>2, GotoType DEF PostTest
    <2> QED BY <1>6, <2>3 DEF PostTest, SyncTypeOK
  <1>7. CASE PostFirst(t)
    <2>1. op[t].s \in Sems
      BY <1>7, OpFields DEF PostFirst
    <2>2. links.next[op[t].s] \in Nodes
      BY <1>1, <2>1 DEF Nodes
    <2>3. [at |-> "v_load", s |-> op[t].s, w |-> links.next[op[t].s]] \in OpType
      BY <2>1, <2>2 DEF OpType
    <2>4. op' \in [Contexts -> OpType]
      BY <1>7, <2>3, GotoType DEF PostFirst
    <2> QED BY <1>7, <2>4 DEF PostFirst, SyncTypeOK
  <1>8. CASE PostLoad(t)
    <2>1. op[t].s \in Sems /\ op[t].w \in Nodes
      BY <1>8, OpFields DEF PostLoad
    <2>2. links.prev[op[t].w] \in Nodes /\ links.next[op[t].w] \in Nodes
      BY <1>1, <2>1
    <2>3. [at |-> "v_next", s |-> op[t].s, w |-> op[t].w,
           prev |-> links.prev[op[t].w], next |-> links.next[op[t].w]] \in OpType
      BY <2>1, <2>2 DEF OpType
    <2>4. op' \in [Contexts -> OpType]
      BY <1>8, <2>3, GotoType DEF PostLoad
    <2> QED BY <1>8, <2>4 DEF PostLoad, SyncTypeOK
  <1>9. CASE PostNext(t)
    <2>1. /\ op[t] \in [at : {"v_next", "v_prev"}, s : Sems, w : Nodes, prev : Nodes, next : Nodes]
      BY SMTT(30), <1>1, <1>9 DEF PostNext, OpType, NoOp
    <2>2. [op[t] EXCEPT !.at = "v_prev"] \in OpType
      BY <2>1 DEF OpType
    <2>3. links' \in [next : [Nodes -> Nodes], prev : [Nodes -> Nodes]]
      BY <1>1, <1>9, <2>1 DEF PostNext, SyncTypeOK
    <2>4. op' \in [Contexts -> OpType]
      BY <1>9, <2>2, GotoType DEF PostNext
    <2> QED BY <1>9, <2>3, <2>4 DEF PostNext, SyncTypeOK
  <1>10. CASE PostPrev(t)
    <2>1. op[t].s \in Sems /\ op[t].w \in Nodes /\ op[t].prev \in Nodes /\ op[t].next \in Nodes
      BY <1>10, OpFields DEF PostPrev
    <2>2. [at |-> "v_self", s |-> op[t].s, w |-> op[t].w] \in OpType
      BY <2>1 DEF OpType
    <2>3. links' \in [next : [Nodes -> Nodes], prev : [Nodes -> Nodes]]
      BY <1>1, <1>10, <2>1 DEF PostPrev, SyncTypeOK
    <2>4. op' \in [Contexts -> OpType]
      BY <1>10, <2>2, GotoType DEF PostPrev
    <2> QED BY <1>10, <2>3, <2>4 DEF PostPrev, SyncTypeOK
  <1>11. CASE PostSelf(t)
    <2>1. op[t] \in [at : {"v_load", "v_self", "v_wake"}, s : Sems, w : Nodes]
      BY SMTT(30), <1>1, <1>11 DEF PostSelf, OpType, NoOp
    <2>2. [op[t] EXCEPT !.at = "v_wake"] \in OpType
      BY <2>1 DEF OpType
    <2>3. links' \in [next : [Nodes -> Nodes], prev : [Nodes -> Nodes]]
      BY <1>1, <1>11, <2>1 DEF PostSelf, SyncTypeOK
    <2>4. op' \in [Contexts -> OpType]
      BY <1>11, <2>2, GotoType DEF PostSelf
    <2> QED BY <1>11, <2>3, <2>4 DEF PostSelf, SyncTypeOK
  <1>12. CASE PostWake(t)
    <2>1. NoOp \in OpType
      BY DEF OpType
    <2>2. op' \in [Contexts -> OpType]
      BY <1>12, <2>1, GotoType DEF PostWake
    <2> QED BY <1>12, <2>2 DEF PostWake, SyncTypeOK
  <1> QED BY <1>2, <1>3, <1>4, <1>5, <1>6, <1>7, <1>8, <1>9, <1>10, <1>11, <1>12 DEF SemStep

\* SyncTypeOK is inductive.
LEMMA NextType == SyncTypeOK /\ [Next]_syncVars => SyncTypeOK'
  <1> SUFFICES ASSUME SyncTypeOK, [Next]_syncVars PROVE SyncTypeOK'
    OBVIOUS
  <1>1. ASSUME NEW t \in Tasks, Begin(t) PROVE SyncTypeOK'
    <2>1. PICK s \in Sems : Goto(t, PendOp(s)) \/ Goto(t, PostOp(s))
      BY <1>1 DEF Begin
    <2>2. PendOp(s) \in OpType /\ PostOp(s) \in OpType
      BY SMTT(30) DEF PendOp, PostOp, OpType
    <2> QED BY SMTT(30), <1>1, <2>1, <2>2 DEF Begin, Goto, SyncTypeOK, Contexts
  <1>2. ASSUME NEW t \in AllTasks, NEW busy, Preempt(t, busy) PROVE SyncTypeOK'
    BY <1>2 DEF Preempt, SyncTypeOK
  <1>3. CASE UNCHANGED syncVars
    BY <1>3 DEF syncVars, SyncTypeOK
  <1> QED BY <1>1, <1>2, <1>3, SemStepType DEF Next

\* Every reachable state is well typed; in particular no count ever goes
\* below zero, although sem_pend decrements a value it read earlier.
THEOREM TypeCorrect == Spec => []SyncTypeOK
  BY InitTypeOK, NextType, PTL DEF Spec

-----------------------------------------------------------------------------
(* The refinement: a call is over, for AbsSem, at its atomic step.         *)

\* A call that moves on without reaching its atomic step is a stutter.
LEMMA StutterStep ==
    ASSUME SyncTypeOK, NEW t \in Tasks, NEW o, Goto(t, o), UNCHANGED count,
           \/ /\ op[t].at \in PendPoints /\ o.at \in PendPoints /\ o.s = op[t].s
           \/ op[t].at \notin PendPoints \cup {"v_inc"} /\ o.at \notin PendPoints \cup {"v_inc"}
    PROVE  UNCHANGED A!vars
  <1>1. op'[t] = o /\ \A u \in Tasks : u # t => op'[u] = op[u]
    BY DEF Goto, SyncTypeOK, Contexts
  <1>2. \A u \in Tasks : Doing(u)' = Doing(u)
    BY <1>1 DEF Doing, PendPoints
  <1> QED BY <1>2 DEF A!vars

\* A round of the TRIES loop that missed changes nothing for AbsSem.
LEMMA MissedStutters ==
    ASSUME SyncTypeOK, NEW t \in Tasks, op[t].at \in {"p_read", "p_cas"}, Missed(t), UNCHANGED count
    PROVE  UNCHANGED A!vars
  <1>1. PICK o : /\ Goto(t, o) /\ o.at \in PendPoints /\ o.s = op[t].s
    BY SMTT(30) DEF Missed, PendPoints
  <1> QED BY <1>1, StutterStep DEF PendPoints

\* A call that does reach it.
LEMMA EffectStep ==
    ASSUME SyncTypeOK, NEW t \in Tasks, NEW o, Goto(t, o)
    PROVE  /\ op'[t] = o
           /\ [u \in Tasks |-> Doing(u)]' =
                [[u \in Tasks |-> Doing(u)] EXCEPT ![t] = Doing(t)']
  <1>1. op'[t] = o /\ \A u \in Tasks : u # t => op'[u] = op[u]
    BY DEF Goto, SyncTypeOK, Contexts
  <1>2. \A u \in Tasks : u # t => Doing(u)' = Doing(u)
    BY <1>1 DEF Doing
  <1> QED BY <1>1, <1>2

\* Every access of sem_pend and sem_post is a step of AbsSem or none.
LEMMA SemStepRefines ==
    ASSUME SyncTypeOK, NEW t \in Tasks, SemStep(t)
    PROVE  [A!Next]_(A!vars)
  <1>1. CASE PendRead(t)
    <2>1. CASE count[op[t].s] # 0
      BY <1>1, <2>1, StutterStep DEF PendRead, PendPoints
    <2>2. CASE count[op[t].s] = 0
      BY <1>1, <2>2, MissedStutters DEF PendRead
    <2> QED BY <2>1, <2>2
  <1>2. CASE PendCas(t)
    <2>1. op[t].s \in Sems /\ op[t].val \in Nat \ {0}
      BY <1>2, OpFields DEF PendCas
    <2>2. CASE count[op[t].s] = op[t].val
      <3>1. Goto(t, NoOp) /\ count' = [count EXCEPT ![op[t].s] = @ - 1] /\ count[op[t].s] > 0
        BY SMTT(30), <1>2, <2>1, <2>2 DEF PendCas
      <3>2. op'[t] = NoOp
        BY <3>1, EffectStep
      <3>3. Doing(t) = <<"pend", op[t].s>> /\ Doing(t)' = <<>>
        BY SMTT(30), <1>2, <3>2 DEF PendCas, Doing, PendPoints, NoOp
      <3>4. A!Take(t, op[t].s)
        BY <3>1, <3>3, EffectStep DEF A!Take
      <3> QED BY <2>1, <3>4 DEF A!Next
    <2>3. CASE count[op[t].s] # op[t].val
      BY <1>2, <2>3, MissedStutters DEF PendCas
    <2> QED BY <2>2, <2>3
  <1>3. CASE PendSleep(t)
    BY <1>3, StutterStep DEF PendSleep, PendOp, PendPoints
  <1>4. CASE PostInc(t)
    <2>1. op[t].s \in Sems
      BY <1>4, OpFields DEF PostInc
    <2>2. op'[t] = [at |-> "v_test", s |-> op[t].s]
      BY <1>4, EffectStep DEF PostInc
    <2>3. Doing(t) = <<"post", op[t].s>> /\ Doing(t)' = <<>>
      BY SMTT(30), <1>4, <2>2 DEF PostInc, Doing, PendPoints
    <2>4. A!Give(t, op[t].s)
      BY <1>4, <2>3, EffectStep DEF PostInc, A!Give
    <2> QED BY <2>1, <2>4 DEF A!Next
  <1>5. CASE PostTest(t)
    BY <1>5, StutterStep DEF PostTest, PendPoints, NoOp
  <1>6. CASE PostFirst(t)
    BY <1>6, StutterStep DEF PostFirst, PendPoints
  <1>7. CASE PostLoad(t)
    BY <1>7, StutterStep DEF PostLoad, PendPoints
  <1>8. CASE PostNext(t)
    <2>1. [op[t] EXCEPT !.at = "v_prev"].at = "v_prev"
      BY SMTT(30), <1>8 DEF PostNext, SyncTypeOK, OpType, NoOp, Contexts
    <2> QED BY <1>8, <2>1, StutterStep DEF PostNext, PendPoints
  <1>9. CASE PostPrev(t)
    BY <1>9, StutterStep DEF PostPrev, PendPoints
  <1>10. CASE PostSelf(t)
    <2>1. [op[t] EXCEPT !.at = "v_wake"].at = "v_wake"
      BY SMTT(30), <1>10 DEF PostSelf, SyncTypeOK, OpType, NoOp, Contexts
    <2> QED BY <1>10, <2>1, StutterStep DEF PostSelf, PendPoints
  <1>11. CASE PostWake(t)
    BY <1>11, StutterStep DEF PostWake, PendPoints, NoOp
  <1> QED BY <1>1, <1>2, <1>3, <1>4, <1>5, <1>6, <1>7, <1>8, <1>9, <1>10, <1>11 DEF SemStep

\* So is every step of the clients.
LEMMA NextRefines == SyncTypeOK /\ [Next]_syncVars => [A!Next]_(A!vars)
  <1> SUFFICES ASSUME SyncTypeOK, [Next]_syncVars PROVE [A!Next]_(A!vars)
    OBVIOUS
  <1>1. ASSUME NEW t \in Tasks, Begin(t) PROVE A!Next
    <2>1. PICK s \in Sems : Goto(t, PendOp(s)) \/ Goto(t, PostOp(s))
      BY <1>1 DEF Begin
    <2>2. Doing(t) = <<>> /\ UNCHANGED count
      BY <1>1 DEF Begin, Doing, PendPoints
    <2>3. CASE Goto(t, PendOp(s))
      <3>1. Doing(t)' = <<"pend", s>>
        <4>1. op'[t] = PendOp(s)
          BY <2>3, EffectStep
        <4> QED BY SMTT(30), <4>1 DEF Doing, PendOp, PendPoints
      <3>2. A!Begin(t, "pend", s)
        BY <2>2, <2>3, <3>1, EffectStep DEF A!Begin
      <3> QED BY <3>2 DEF A!Next
    <2>4. CASE Goto(t, PostOp(s))
      <3>1. Doing(t)' = <<"post", s>>
        <4>1. op'[t] = PostOp(s)
          BY <2>4, EffectStep
        <4> QED BY SMTT(30), <4>1 DEF Doing, PostOp, PendPoints
      <3>2. A!Begin(t, "post", s)
        BY <2>2, <2>4, <3>1, EffectStep DEF A!Begin
      <3> QED BY <3>2 DEF A!Next
    <2> QED BY <2>1, <2>3, <2>4
  <1>2. ASSUME NEW t \in AllTasks, NEW busy, Preempt(t, busy) PROVE UNCHANGED A!vars
    BY <1>2 DEF Preempt, A!vars, Doing
  <1>3. CASE UNCHANGED syncVars
    BY <1>3 DEF syncVars, A!vars, Doing
  <1> QED BY <1>1, <1>2, <1>3, SemStepRefines DEF Next

\* sem_pend and sem_post are a counting semaphore under every interleaving
\* of their memory accesses.
THEOREM ImplementsCountingSemaphore == Spec => CountingSemaphore
  <1>1. Init => A!Init
    BY SMTT(30) DEF Init, SyncInit, A!Init, Doing, NoOp, PendPoints, Contexts
  <1> QED BY <1>1, NextRefines, TypeCorrect, PTL DEF Spec, CountingSemaphore, A!Spec

(* ------------------------- the lists of waiters ------------------------ *)

InterruptsOff == Tasks \subseteq Masked /\ IsFiniteSet(Tasks)

\* Whoever does not have the processor is outside of any call, or sleeps or
\* has been woken in sem_pend; so nobody interferes between a read of count
\* and what follows from it.
Serial ==
    /\ \A t \in Tasks : t # current => op[t].at \in {"idle", "p_read"}
    /\ \A t \in Tasks : state[t] \in {"runnable", "wait_semaphore"}
    /\ \A t \in Tasks : state[t] = "wait_semaphore" => op[t].at = "p_read" /\ t # current
    /\ \A t \in Tasks : op[t].at = "p_cas" => count[op[t].s] = op[t].val
    /\ \A t \in Tasks : op[t].at = "p_sleep" => count[op[t].s] = 0

Sleeps(t, s) == op[t].at = "p_read" /\ op[t].s = s /\ state[t] = "wait_semaphore"

\* A poster has taken t from the list of s and will wake it.
Taken(t, s) == \E u \in Tasks : op[u].at \in {"v_prev", "v_self", "v_wake"} /\ op[u].s = s /\ op[u].w = t

\* The i-th node of the ring through s and then the tasks of w.
Node(s, w, i) == IF i \in 1..Len(w) THEN w[i] ELSE s

On(w, t) == \E i \in 1..Len(w) : w[i] = t

Members(s, w) ==
    /\ w \in Seq(Tasks)
    /\ \A i, j \in 1..Len(w) : w[i] = w[j] => i = j
    /\ \A t \in Tasks : On(w, t) <=> Sleeps(t, s) /\ ~Taken(t, s)

Unlinking(s) == \E u \in Tasks : op[u].at = "v_prev" /\ op[u].s = s

\* The forward links are right; so are the backward links of the head and of
\* the first node, which are those that are used, but for the moment between
\* the two stores of a removal.
Ring(s, w) ==
    /\ \A i \in 0..Len(w) : links.next[Node(s, w, i)] = Node(s, w, i + 1)
    /\ ~Unlinking(s) => links.prev[Node(s, w, 1)] = s
    /\ Unlinking(s) => Len(w) = 0 \/ links.prev[s] = Node(s, w, Len(w))
    /\ ~Unlinking(s) => links.prev[s] = Node(s, w, Len(w))

\* What a poster that has found a sleeper knows of it.
Removal(t, s, w) ==
    op[t].s = s =>
        /\ op[t].at \in {"v_first", "v_load", "v_next"} => Len(w) > 0
        /\ op[t].at \in {"v_load", "v_next"} => op[t].w = w[1]
        /\ op[t].at = "v_next" => op[t].prev = s /\ op[t].next = Node(s, w, 2)
        /\ op[t].at = "v_prev" => op[t].prev = s /\ op[t].next = Node(s, w, 1)
        /\ op[t].at \in {"v_prev", "v_self", "v_wake"} => op[t].w \in Tasks /\ Sleeps(op[t].w, s)

List(s, w) == Members(s, w) /\ Ring(s, w) /\ \A t \in Tasks : Removal(t, s, w)

Lists == \A s \in Sems : \E w \in Seq(Tasks) : List(s, w)

Inv == SyncTypeOK /\ Serial /\ Lists

-----------------------------------------------------------------------------

\* Without handlers, a step of a call is one of its task.
LEMMA OpStep ==
    ASSUME SyncTypeOK, NEW t \in Tasks, NEW o, Goto(t, o)
    PROVE  op'[t] = o /\ \A u \in Tasks \ {t} : op'[u] = op[u]
BY DEF SyncTypeOK, Goto, Contexts

\* At boot nobody is in a call.
LEMMA SerialInit == Init => Serial
BY SMTT(30) DEF Init, SyncInit, Serial, NoOp, Contexts, AllTasks

\* Who runs has the processor, and is not asleep.
LEMMA RunsCurrent ==
    ASSUME Serial, NEW t \in Tasks, Runs(t)
    PROVE  t = current /\ state[t] = "runnable" /\ TaskOf(t) = t
BY DEF Serial, Runs, TaskOf

\* A step of the current task's call that leaves the processor, the states
\* and the other calls alone.
LEMMA SerialKeep ==
    ASSUME SyncTypeOK, Serial, NEW t \in Tasks, t = current, state[t] = "runnable",
           UNCHANGED <<current, state>>,
           \A u \in Tasks \ {t} : op'[u] = op[u],
           op'[t].at = "p_cas" => count'[op'[t].s] = op'[t].val,
           op'[t].at = "p_sleep" => count'[op'[t].s] = 0
    PROVE  Serial'
BY SMTT(30) DEF Serial

\* A round of sem_pend that saw a count of 0 goes on to another, or to sleep.
LEMMA MissedSerial ==
    ASSUME SyncTypeOK, Serial, NEW t \in Tasks, t = current, state[t] = "runnable",
           UNCHANGED <<current, state, count>>, Missed(t), count[op[t].s] = 0
    PROVE  Serial'
<1>1. CASE op[t].try + 1 < TRIES
  <2>1. op'[t].at = "p_read" /\ \A u \in Tasks \ {t} : op'[u] = op[u]
    BY SMTT(30), <1>1, OpStep DEF Missed
  <2>. QED
    BY <2>1, SerialKeep
<1>2. CASE ~(op[t].try + 1 < TRIES)
  <2>1. op'[t] = [at |-> "p_sleep", s |-> op[t].s] /\ \A u \in Tasks \ {t} : op'[u] = op[u]
    BY <1>2, OpStep DEF Missed
  <2>. QED
    BY SMTT(30), <2>1, SerialKeep
<1>. QED
  BY <1>1, <1>2

\* A step of the running task's call leaves the others outside of theirs.
LEMMA SerialStep ==
    ASSUME SyncTypeOK, Serial, NEW t \in Tasks, Runs(t), Begin(t) \/ SemStep(t)
    PROVE  Serial'
<1>0. t = current /\ state[t] = "runnable" /\ TaskOf(t) = t
  BY RunsCurrent
<1>1. CASE Begin(t)
  <2>1. PICK s \in Sems : Goto(t, PendOp(s)) \/ Goto(t, PostOp(s))
    BY <1>1 DEF Begin
  <2>2. op'[t].at \in {"p_read", "v_inc"} /\ \A u \in Tasks \ {t} : op'[u] = op[u]
    BY SMTT(30), <2>1, OpStep DEF PendOp, PostOp
  <2>. QED
    BY <1>0, <1>1, <2>2, SerialKeep DEF Begin
<1>2. CASE PendRead(t)
  <2>1. op[t].s \in Sems
    BY <1>2, OpFields DEF PendRead
  <2>2. CASE count[op[t].s] # 0
    <3>. DEFINE o == [at |-> "p_cas", s |-> op[t].s, try |-> op[t].try, val |-> count[op[t].s]]
    <3>1. op'[t] = o /\ \A u \in Tasks \ {t} : op'[u] = op[u]
      BY <1>2, <2>2, OpStep DEF PendRead
    <3>. QED
      BY SMTT(30), <1>0, <1>2, <3>1, SerialKeep DEF PendRead
  <2>3. CASE count[op[t].s] = 0
    BY <1>0, <1>2, <2>3, MissedSerial DEF PendRead
  <2>. QED
    BY <2>2, <2>3
<1>3. CASE PendCas(t)
  <2>1. count[op[t].s] = op[t].val
    BY <1>3 DEF PendCas, Serial
  <2>2. op'[t].at = "idle" /\ \A u \in Tasks \ {t} : op'[u] = op[u]
    BY SMTT(30), <1>3, <2>1, OpStep DEF PendCas, NoOp
  <2>. QED
    BY <1>0, <1>3, <2>2, SerialKeep DEF PendCas
<1>4. CASE PendSleep(t)
  <2>1. op'[t].at = "p_read" /\ \A u \in Tasks \ {t} : op'[u] = op[u]
    BY SMTT(30), <1>4, OpStep DEF PendSleep, PendOp
  <2>2. state' = [state EXCEPT ![t] = "wait_semaphore"] /\ t \in AllTasks /\ count' = count
    BY <1>0, <1>4 DEF PendSleep, AllTasks
  <2>3. state'[t] = "wait_semaphore" /\ \A u \in Tasks \ {t} : state'[u] = state[u]
    BY SMTT(30), <2>2 DEF SyncTypeOK
  <2>4. current' = Idle \/ state'[current'] = "runnable"
    BY <1>4 DEF PendSleep, SchedNext
  <2>. QED
    BY SMTT(30), <1>0, <2>1, <2>2, <2>3, <2>4 DEF Serial
<1>5. CASE PostInc(t)
  <2>1. op'[t].at = "v_test" /\ \A u \in Tasks \ {t} : op'[u] = op[u]
    BY SMTT(30), <1>5, OpStep DEF PostInc
  <2>. QED
    BY <1>0, <1>5, <2>1, SerialKeep DEF PostInc
<1>6. CASE PostTest(t) \/ PostFirst(t) \/ PostLoad(t) \/ PostNext(t) \/ PostPrev(t) \/ PostSelf(t)
  <2>1. op'[t].at \notin {"p_cas", "p_sleep"}
    <3>1. CASE PostTest(t)
      BY SMTT(30), <3>1, OpStep DEF PostTest, NoOp
    <3>2. CASE PostFirst(t) \/ PostLoad(t) \/ PostPrev(t)
      BY SMTT(30), <3>2, OpStep DEF PostFirst, PostLoad, PostPrev
    <3>3. CASE PostNext(t) \/ PostSelf(t)
      <4>1. op[t] \in OpType /\ op[t].at \in {"v_next", "v_self"}
        BY <3>3 DEF PostNext, PostSelf, SyncTypeOK, Contexts
      <4>2. op[t] \in [at : {"v_self"}, s : Sems, w : Nodes]
                \cup [at : {"v_next"}, s : Sems, w : Nodes, prev : Nodes, next : Nodes]
        BY SMTT(30), <4>1 DEF OpType, NoOp
      <4>. QED
        BY SMTT(30), <3>3, <4>2, OpStep DEF PostNext, PostSelf
    <3>. QED
      BY <1>6, <3>1, <3>2, <3>3
  <2>2. \A u \in Tasks \ {t} : op'[u] = op[u]
    BY <1>6, OpStep DEF PostTest, PostFirst, PostLoad, PostNext, PostPrev, PostSelf
  <2>. QED
    BY <1>0, <1>6, <2>1, <2>2, SerialKeep DEF PostTest, PostFirst, PostLoad, PostNext, PostPrev, PostSelf
<1>7. CASE PostWake(t)
  <2>1. op'[t].at = "idle" /\ \A u \in Tasks \ {t} : op'[u] = op[u]
    BY SMTT(30), <1>7, OpStep DEF PostWake, NoOp
  <2>2. \A u \in Tasks : state'[u] = "runnable" \/ state'[u] = state[u]
    BY <1>7 DEF PostWake, AllTasks
  <2>. QED
    BY SMTT(30), <1>0, <1>7, <2>1, <2>2 DEF Serial, PostWake
<1>. QED
  BY <1>1, <1>2, <1>3, <1>4, <1>5, <1>6, <1>7 DEF SemStep

\* Nobody is preempted in a call.
LEMMA PreemptSerial ==
    ASSUME InterruptsOff, SyncTypeOK, Serial, NEW t \in AllTasks,
           Preempt(t, {u \in Tasks : op[u].at # "idle"})
    PROVE  Serial'
<1>1. current \in Tasks => op[current].at = "idle"
  BY DEF Preempt, Interruptible, InterruptsOff
<1>2. t = Idle \/ state[t] = "runnable"
  BY DEF Preempt, SchedNext
<1>. QED
  BY <1>1, <1>2 DEF Serial, Preempt

-----------------------------------------------------------------------------

Late == {"v_prev", "v_self", "v_wake"}

\* sem_init: every list is empty.
LEMMA ListsInit == Init => Lists
<1>. SUFFICES ASSUME Init, NEW s \in Sems PROVE \E w \in Seq(Tasks) : List(s, w)
  BY DEF Lists
<1>1. \A t \in Tasks : op[t].at = "idle"
  BY DEF Init, SyncInit, NoOp, Contexts
<1>2. links.next[s] = s /\ links.prev[s] = s
  BY DEF Init, SyncInit, v_ilist_init, Nodes
<1>3. Members(s, <<>>)
  BY SMTT(30), <1>1 DEF Members, On, Sleeps
<1>4. Ring(s, <<>>)
  BY SMTT(30), <1>1, <1>2 DEF Ring, Node, Unlinking
<1>5. \A t \in Tasks : Removal(t, s, <<>>)
  BY <1>1 DEF Removal
<1>6. <<>> \in Seq(Tasks) /\ List(s, <<>>)
  BY SMTT(30), <1>3, <1>4, <1>5 DEF List
<1>. QED
  BY <1>6

\* A step of t's call that leaves the list of s as it is.
LEMMA ListFrame ==
    ASSUME NEW t \in Tasks, NEW s \in Sems, NEW w \in Seq(Tasks), List(s, w),
           \A u \in Tasks \ {t} : op'[u] = op[u],
           \A u \in Tasks : Sleeps(u, s)' <=> Sleeps(u, s),
           op[t].s = s => op[t].at \notin Late,
           op'[t].s = s => op'[t].at \notin Late,
           links'.next[s] = links.next[s] /\ links'.prev[s] = links.prev[s],
           \A i \in 1..Len(w) : links'.next[w[i]] = links.next[w[i]] /\ links'.prev[w[i]] = links.prev[w[i]],
           Removal(t, s, w)'
    PROVE  List(s, w)'
<1>. USE DEF List
<1>1. \A u \in Tasks : Taken(u, s)' <=> Taken(u, s)
  BY DEF Taken, Late
<1>2. Unlinking(s)' <=> Unlinking(s)
  BY DEF Unlinking, Late
<1>3. Members(s, w)'
  BY <1>1 DEF Members, On
<1>4. \A i \in 0..Len(w) + 1 : /\ links'.next[Node(s, w, i)] = links.next[Node(s, w, i)]
                               /\ links'.prev[Node(s, w, i)] = links.prev[Node(s, w, i)]
  BY DEF Node
<1>5. Ring(s, w)'
  <2>1. \A i \in 0..Len(w) : links'.next[Node(s, w, i)] = Node(s, w, i + 1)
    BY SMTT(30), <1>4 DEF Ring
  <2>2. links'.prev[Node(s, w, 1)] = links.prev[Node(s, w, 1)]
    BY SMTT(30), <1>4
  <2>. QED
    BY <1>2, <2>1, <2>2 DEF Ring
<1>6. ASSUME NEW u \in Tasks \ {t} PROVE Removal(u, s, w)'
  BY SMTT(30), <1>6 DEF Removal
<1>. QED
  BY <1>3, <1>5, <1>6

\* A step of a call on s touches the links of s, of tasks that sleep on s and
\* of the running task only, and so leaves the list of any other semaphore.
LEMMA ListApart ==
    ASSUME SyncTypeOK, NEW t \in Tasks, state[t] = "runnable", NEW s \in Sems,
           op[t].s = s, op'[t].at = "idle" \/ op'[t].s = s,
           \A u \in Tasks \ {t} : op'[u] = op[u],
           NEW r \in Sems \ {s}, NEW w \in Seq(Tasks), List(r, w),
           \A u \in Tasks : Sleeps(u, r)' <=> Sleeps(u, r),
           \A n \in Nodes : n # s /\ n # t /\ ~(n \in Tasks /\ Sleeps(n, s)) =>
               links'.next[n] = links.next[n] /\ links'.prev[n] = links.prev[n]
    PROVE  List(r, w)'
<1>1. ASSUME NEW i \in 1..Len(w)
      PROVE  links'.next[w[i]] = links.next[w[i]] /\ links'.prev[w[i]] = links.prev[w[i]]
  <2>1. w[i] \in Tasks /\ On(w, w[i])
    BY SMTT(30) DEF On
  <2>2. Sleeps(w[i], r)
    BY <2>1 DEF List, Members
  <2>. QED
    BY <2>1, <2>2 DEF Sleeps, AllTasks, Nodes
<1>2. links'.next[r] = links.next[r] /\ links'.prev[r] = links.prev[r]
  BY DEF Nodes, AllTasks
<1>3. op'[t].s = r => op'[t].at = "idle"
  OBVIOUS
<1>4. Removal(t, r, w)'
  BY <1>3 DEF Removal
<1>. QED
  BY <1>1, <1>2, <1>3, <1>4, ListFrame DEF Late

\* Steps that store nothing in a list: sem_pend until it sleeps, sem_post
\* until it removes.
LEMMA PlainLists ==
    ASSUME SyncTypeOK, Lists, NEW t \in Tasks, state[t] = "runnable",
           UNCHANGED <<state, links>>,
           \A u \in Tasks \ {t} : op'[u] = op[u],
           op[t].at \notin Late, op'[t].at \notin Late,
           \A s \in Sems, w \in Seq(Tasks) : List(s, w) => Removal(t, s, w)'
    PROVE  Lists'
<1>. SUFFICES ASSUME NEW s \in Sems PROVE \E w \in Seq(Tasks) : List(s, w)'
  BY DEF Lists
<1>1. PICK w \in Seq(Tasks) : List(s, w)
  BY DEF Lists
<1>2. \A u \in Tasks : Sleeps(u, s)' <=> Sleeps(u, s)
  BY DEF Sleeps
<1>3. Removal(t, s, w)'
  BY <1>1
<1>4. List(s, w)'
  BY <1>1, <1>2, <1>3, ListFrame
<1>. QED
  BY <1>4

\* sem_pend's sleep puts the task at the end of the list.
LEMMA SleepLists ==
    ASSUME Inv, NEW t \in Tasks, t = current, state[t] = "runnable", TaskOf(t) = t, PendSleep(t),
           NEW s \in Sems, op[t].s = s
    PROVE  Lists'
<1>. DEFINE last == links.prev[s]
<1>. USE DEF Inv
<1>1. s \in Sems /\ op[t].at = "p_sleep"
  BY DEF PendSleep
<1>2. op'[t] = PendOp(s) /\ \A u \in Tasks \ {t} : op'[u] = op[u]
  BY OpStep DEF PendSleep
<1>3. \A u \in Tasks : state'[u] = IF u = t THEN "wait_semaphore" ELSE state[u]
  BY DEF PendSleep, SyncTypeOK, AllTasks
<1>4. \A n \in Nodes : /\ links'.next[n] = IF n = t THEN s ELSE IF n = last THEN t ELSE links.next[n]
                       /\ links'.prev[n] = IF n = s THEN t ELSE IF n = t THEN last ELSE links.prev[n]
  BY <1>1 DEF PendSleep, v_ilist_prepend, V_ILIST_LINK, SyncTypeOK, Nodes, AllTasks
<1>5. \A u \in Tasks : op[u].at \notin Late \cup {"v_first", "v_load", "v_next"}
  BY <1>1 DEF Serial, Late
<1>6. \A r \in Sems, u \in Tasks : ~Taken(u, r) /\ ~Unlinking(r)
  BY <1>5 DEF Taken, Unlinking, Late
<1>7. \A u \in Tasks : op'[u].at \notin Late \cup {"v_first", "v_load", "v_next"}
  BY SMTT(30), <1>2, <1>5 DEF PendOp, Late
<1>8. \A r \in Sems, u \in Tasks : ~Taken(u, r)' /\ ~Unlinking(r)'
  BY <1>7 DEF Taken, Unlinking, Late
<1>9. \A r \in Sems, u \in Tasks : Sleeps(u, r)' <=> Sleeps(u, r) \/ (u = t /\ r = s)
  BY SMTT(30), <1>1, <1>2, <1>3 DEF Sleeps, PendOp
<1>10. \A r \in Sems : ~Sleeps(t, r)
  BY DEF Sleeps
<1>11. PICK w \in Seq(Tasks) : List(s, w)
  BY <1>1 DEF Lists
<1>12. last = Node(s, w, Len(w))
  BY <1>1, <1>6, <1>11 DEF List, Ring
<1>13. \A i \in 1..Len(w) : w[i] \in Tasks /\ w[i] # t /\ w[i] # s /\ Sleeps(w[i], s)
  <2>. TAKE i \in 1..Len(w)
  <2>1. w[i] \in Tasks /\ On(w, w[i])
    BY SMTT(30) DEF On
  <2>2. Sleeps(w[i], s)
    BY <1>11, <2>1 DEF List, Members
  <2>. QED
    BY <1>1, <1>10, <2>1, <2>2 DEF AllTasks
<1>14. ASSUME NEW r \in Sems \ {s} PROVE \E v \in Seq(Tasks) : List(r, v)'
  <2>1. PICK v \in Seq(Tasks) : List(r, v)
    BY DEF Lists
  <2>2. last = s \/ (last \in Tasks /\ Sleeps(last, s))
    BY <1>12, <1>13 DEF Node
  <2>3. \A n \in Nodes : n # s /\ n # t /\ ~(n \in Tasks /\ Sleeps(n, s)) =>
               links'.next[n] = links.next[n] /\ links'.prev[n] = links.prev[n]
    BY <1>4, <2>2
  <2>4. op'[t].s = s
    BY SMTT(30), <1>2 DEF PendOp
  <2>5. \A u \in Tasks : Sleeps(u, r)' <=> Sleeps(u, r)
    BY <1>9
  <2>6. List(r, v)'
    BY <1>1, <1>2, <2>1, <2>3, <2>4, <2>5, ListApart
  <2>. QED
    BY <2>6
<1>. DEFINE v == Append(w, t)
<1>15. /\ v \in Seq(Tasks) /\ Len(v) = Len(w) + 1 /\ Len(w) \in Nat
       /\ v[Len(w) + 1] = t
       /\ \A i \in 1..Len(w) : v[i] = w[i]
  BY SMTT(30)
<1>. HIDE DEF v
<1>16. Members(s, v)'
  <2>1. \A i, j \in 1..Len(v) : v[i] = v[j] => i = j
    <3>. TAKE i, j \in 1..Len(v)
    <3>1. i \in 1..Len(w) \/ i = Len(w) + 1
      BY SMTT(30), <1>15
    <3>2. j \in 1..Len(w) \/ j = Len(w) + 1
      BY SMTT(30), <1>15
    <3>3. \A k, l \in 1..Len(w) : w[k] = w[l] => k = l
      BY <1>11 DEF List, Members
    <3>. QED
      BY <1>13, <1>15, <3>1, <3>2, <3>3
  <2>2. \A u \in Tasks : On(v, u) <=> On(w, u) \/ u = t
    <3>. TAKE u \in Tasks
    <3>1. ASSUME On(v, u) PROVE On(w, u) \/ u = t
      <4>1. PICK i \in 1..Len(v) : v[i] = u
        BY <3>1 DEF On
      <4>2. i \in 1..Len(w) \/ i = Len(w) + 1
        BY SMTT(30), <1>15
      <4>. QED
        BY <1>15, <4>1, <4>2 DEF On
    <3>2. ASSUME On(w, u) PROVE On(v, u)
      BY SMTT(30), <1>15, <3>2 DEF On
    <3>3. ASSUME u = t PROVE On(v, u)
      BY SMTT(30), <1>15, <3>3 DEF On
    <3>. QED
      BY <3>1, <3>2, <3>3
  <2>3. \A u \in Tasks : On(w, u) <=> Sleeps(u, s)
    BY <1>1, <1>6, <1>11 DEF List, Members
  <2>4. \A u \in Tasks : On(v, u) <=> Sleeps(u, s)' /\ ~Taken(u, s)'
    BY <1>1, <1>8, <1>9, <2>2, <2>3
  <2>. QED
    BY <1>15, <2>1, <2>4 DEF Members, On
<1>17. Ring(s, v)'
  <2>1. \A i \in 0..Len(w) : Node(s, v, i) = Node(s, w, i) /\ Node(s, w, i) \in Nodes /\ Node(s, w, i) # t
    BY SMTT(30), <1>1, <1>13, <1>15 DEF Node, Nodes, AllTasks
  <2>2. Node(s, v, Len(v)) = t /\ Node(s, v, Len(v) + 1) = s
    BY SMTT(30), <1>15 DEF Node
  <2>3. t \in Nodes /\ s \in Nodes /\ s # t
    BY <1>1 DEF Nodes, AllTasks
  <2>4. \A i, j \in 0..Len(w) : Node(s, w, i) = Node(s, w, j) => i = j
    <3>1. \A i, j \in 1..Len(w) : w[i] = w[j] => i = j
      BY <1>11 DEF List, Members
    <3>. QED
      BY SMTT(30), <1>13, <3>1 DEF Node
  <2>5. ASSUME NEW i \in 0..Len(v) PROVE links'.next[Node(s, v, i)] = Node(s, v, i + 1)
    <3>1. CASE i = Len(v)
      BY <1>4, <2>2, <2>3, <3>1
    <3>2. CASE i = Len(w)
      BY SMTT(30), <1>4, <1>12, <1>15, <2>1, <2>2, <3>2
    <3>3. CASE i \in 0..Len(w) - 1
      <4>1. i \in 0..Len(w) /\ i + 1 \in 0..Len(w) /\ i # Len(w) /\ Len(w) \in 0..Len(w)
        BY SMTT(30), <1>15, <3>3
      <4>2. Node(s, w, i) # last
        BY <1>12, <2>4, <4>1
      <4>3. links'.next[Node(s, w, i)] = links.next[Node(s, w, i)]
        BY <1>4, <2>1, <4>1, <4>2
      <4>4. links.next[Node(s, w, i)] = Node(s, w, i + 1)
        BY <1>11, <4>1 DEF List, Ring
      <4>. QED
        BY <2>1, <4>1, <4>3, <4>4
    <3>. QED
      BY SMTT(30), <1>15, <3>1, <3>2, <3>3
  <2>6. links'.prev[Node(s, v, 1)] = s
    <3>1. CASE Len(w) = 0
      <4>1. Node(s, v, 1) = t /\ last = s
        BY SMTT(30), <1>12, <1>15, <3>1 DEF Node
      <4>. QED
        BY <1>4, <2>3, <4>1
    <3>2. CASE Len(w) # 0
      <4>1. Node(s, v, 1) = w[1] /\ Node(s, w, 1) = w[1] /\ w[1] \in Nodes /\ w[1] # t /\ w[1] # s
        BY SMTT(30), <1>13, <1>15, <3>2 DEF Node, Nodes, AllTasks
      <4>2. links.prev[w[1]] = s
        BY <1>6, <1>11, <4>1 DEF List, Ring
      <4>. QED
        BY <1>4, <4>1, <4>2
    <3>. QED
      BY <3>1, <3>2
  <2>7. links'.prev[s] = Node(s, v, Len(v))
    BY <1>4, <2>2, <2>3
  <2>8. ~Unlinking(s)'
    BY <1>8
  <2>. QED
    BY <2>5, <2>6, <2>7, <2>8 DEF Ring
<1>18. \A u \in Tasks : Removal(u, s, v)'
  BY <1>7 DEF Removal, Late
<1>19. List(s, v)'
  BY <1>16, <1>17, <1>18 DEF List
<1>. QED
  BY <1>14, <1>15, <1>19 DEF Lists

\* The first store of a removal takes the first task from the list.
LEMMA NextLists ==
    ASSUME Inv, NEW t \in Tasks, t = current, state[t] = "runnable", PostNext(t),
           NEW s \in Sems, op[t].s = s
    PROVE  Lists'
<1>. USE DEF Inv
<1>1. op[t].at = "v_next" /\ \A u \in Tasks \ {t} : op[u].at \in {"idle", "p_read"}
  BY DEF PostNext, Serial
<1>2. /\ op'[t].at = "v_prev" /\ op'[t].s = s /\ op'[t].w = op[t].w
      /\ op'[t].prev = op[t].prev /\ op'[t].next = op[t].next
      /\ \A u \in Tasks \ {t} : op'[u] = op[u]
  <2>1. op[t] \in [at : {"v_next", "v_prev"}, s : Sems, w : Nodes, prev : Nodes, next : Nodes]
    <3>1. op[t] \in OpType
      BY DEF SyncTypeOK, Contexts
    <3>. QED
      BY SMTT(30), <1>1, <3>1 DEF OpType, NoOp
  <2>2. op'[t] = [op[t] EXCEPT !.at = "v_prev"] /\ \A u \in Tasks \ {t} : op'[u] = op[u]
    BY OpStep DEF PostNext
  <2>. QED
    BY <2>1, <2>2, SMT
<1>3. \A r \in Sems, u \in Tasks : Sleeps(u, r)' <=> Sleeps(u, r)
  BY <1>1, <1>2 DEF Sleeps, PostNext
<1>4. PICK w \in Seq(Tasks) : List(s, w)
  BY DEF Lists
<1>5. Len(w) > 0 /\ op[t].w = w[1] /\ op[t].prev = s /\ op[t].next = Node(s, w, 2) /\ w[1] \in Tasks
  BY SMTT(30), <1>1, <1>4 DEF List, Removal
<1>6. /\ \A n \in Nodes : links'.next[n] = IF n = s THEN Node(s, w, 2) ELSE links.next[n]
      /\ links'.prev = links.prev
  BY <1>5 DEF PostNext, SyncTypeOK, Nodes
<1>7. \A i \in 1..Len(w) : w[i] \in Tasks /\ w[i] # s /\ Sleeps(w[i], s)
  <2>. TAKE i \in 1..Len(w)
  <2>1. w[i] \in Tasks /\ On(w, w[i])
    BY SMTT(30) DEF On
  <2>. QED
    BY <1>4, <2>1 DEF List, Members, AllTasks
<1>8. ASSUME NEW r \in Sems \ {s} PROVE \E v \in Seq(Tasks) : List(r, v)'
  <2>1. PICK v \in Seq(Tasks) : List(r, v)
    BY DEF Lists
  <2>2. List(r, v)'
    BY SMTT(30), <1>2, <1>3, <1>6, <2>1, ListApart
  <2>. QED
    BY <2>2
<1>9. \A u \in Tasks : ~Taken(u, s) /\ ~Unlinking(s)
  BY <1>1 DEF Taken, Unlinking
<1>10. Unlinking(s)' /\ \A u \in Tasks : Taken(u, s)' <=> u = w[1]
  BY SMTT(30), <1>1, <1>2, <1>5 DEF Taken, Unlinking
<1>. DEFINE v == Tail(w)
<1>11. /\ v \in Seq(Tasks) /\ Len(v) = Len(w) - 1 /\ Len(w) \in Nat
       /\ \A i \in 1..Len(v) : v[i] = w[i + 1] /\ i + 1 \in 1..Len(w)
  BY SMTT(30), <1>5
<1>. HIDE DEF v
<1>12. \A i, j \in 1..Len(w) : w[i] = w[j] => i = j
  BY <1>4 DEF List, Members
<1>13. Members(s, v)'
  <2>1. \A i, j \in 1..Len(v) : v[i] = v[j] => i = j
    <3>. TAKE i, j \in 1..Len(v)
    <3>1. i + 1 \in 1..Len(w) /\ j + 1 \in 1..Len(w) /\ v[i] = w[i + 1] /\ v[j] = w[j + 1]
      BY <1>11
    <3>2. v[i] = v[j] => i + 1 = j + 1
      BY <1>12, <3>1
    <3>. QED
      BY SMTT(30), <1>11, <3>2
  <2>2. \A u \in Tasks : On(v, u) <=> On(w, u) /\ u # w[1]
    <3>. TAKE u \in Tasks
    <3>1. ASSUME On(v, u) PROVE On(w, u) /\ u # w[1]
      <4>1. PICK i \in 1..Len(v) : v[i] = u
        BY <3>1 DEF On
      <4>2. w[i + 1] = u /\ i + 1 \in 1..Len(w) /\ i + 1 # 1 /\ 1 \in 1..Len(w)
        BY SMTT(30), <1>11, <4>1
      <4>. QED
        BY <1>12, <4>2 DEF On
    <3>2. ASSUME On(w, u), u # w[1] PROVE On(v, u)
      <4>1. PICK i \in 1..Len(w) : w[i] = u
        BY <3>2 DEF On
      <4>2. i - 1 \in 1..Len(v) /\ (i - 1) + 1 = i
        BY SMTT(30), <1>11, <3>2, <4>1
      <4>3. v[i - 1] = u
        BY <1>11, <4>1, <4>2
      <4>. QED
        BY <4>2, <4>3 DEF On
    <3>. QED
      BY <3>1, <3>2
  <2>3. \A u \in Tasks : On(w, u) <=> Sleeps(u, s)
    BY <1>9, <1>4 DEF List, Members
  <2>4. \A u \in Tasks : On(v, u) <=> Sleeps(u, s)' /\ ~Taken(u, s)'
    BY <1>3, <1>10, <2>2, <2>3
  <2>. QED
    BY <1>11, <2>1, <2>4 DEF Members, On
<1>14. \A i \in 1..Len(v) + 1 : Node(s, v, i) = Node(s, w, i + 1)
  BY SMTT(30), <1>11 DEF Node
<1>15. Ring(s, v)'
  <2>1. ASSUME NEW i \in 0..Len(v) PROVE links'.next[Node(s, v, i)] = Node(s, v, i + 1)
    <3>1. CASE i = 0
      <4>1. Node(s, v, 0) = s /\ Node(s, v, 1) = Node(s, w, 2)
        BY SMTT(30), <1>11, <1>14 DEF Node
      <4>. QED
        BY SMTT(30), <1>6, <3>1, <4>1 DEF Nodes
    <3>2. CASE i # 0
      <4>1. i \in 1..Len(v) /\ i + 1 \in 1..Len(w) /\ i \in 1..Len(v) + 1 /\ i + 1 \in 1..Len(v) + 1
        BY SMTT(30), <1>11, <3>2
      <4>2. Node(s, v, i) = w[i + 1] /\ Node(s, w, i + 1) = w[i + 1] /\ w[i + 1] # s /\ w[i + 1] \in Nodes
        BY <1>7, <1>11, <4>1 DEF Node, Nodes, AllTasks
      <4>3. links.next[Node(s, w, i + 1)] = Node(s, w, (i + 1) + 1)
        BY SMTT(30), <1>4, <4>1 DEF List, Ring
      <4>. QED
        BY SMTT(30), <1>6, <1>14, <4>1, <4>2, <4>3
    <3>. QED
      BY <3>1, <3>2
  <2>2. Len(v) # 0 => links'.prev[s] = Node(s, v, Len(v))
    <3>1. links.prev[s] = Node(s, w, Len(w))
      BY <1>4, <1>9 DEF List, Ring
    <3>. QED
      BY SMTT(30), <1>6, <1>11, <1>14, <3>1
  <2>. QED
    BY <1>10, <2>1, <2>2 DEF Ring
<1>16. \A u \in Tasks : Removal(u, s, v)'
  <2>1. Node(s, w, 2) = Node(s, v, 1)
    BY SMTT(30), <1>11, <1>14
  <2>2. Sleeps(w[1], s)' /\ op'[t].w = w[1]
    <3>1. Sleeps(w[1], s)
      BY SMTT(30), <1>5, <1>7
    <3>. QED
      BY <1>2, <1>3, <1>5, <3>1
  <2>3. Removal(t, s, v)'
    BY <1>2, <1>5, <2>1, <2>2 DEF Removal
  <2>. QED
    BY SMTT(30), <1>1, <1>2, <2>3 DEF Removal
<1>17. List(s, v)'
  BY <1>13, <1>15, <1>16 DEF List
<1>. QED
  BY <1>8, <1>11, <1>17 DEF Lists

\* The last steps of a removal: the back link, the removed node's own links,
\* and the wake-up.  The list of s stays w.
LEMMA TakenOne ==
    ASSUME Inv, NEW t \in Tasks, t = current, op[t].at \in Late,
           NEW s \in Sems, op[t].s = s, NEW w \in Seq(Tasks), List(s, w)
    PROVE  /\ \A u \in Tasks \ {t} : op[u].at \in {"idle", "p_read"}
           /\ op[t].w \in Tasks /\ Sleeps(op[t].w, s)
           /\ \A u \in Tasks : Taken(u, s) <=> u = op[t].w
           /\ \A u \in Tasks : On(w, u) <=> Sleeps(u, s) /\ u # op[t].w
           /\ Unlinking(s) <=> op[t].at = "v_prev"
           /\ \A i \in 1..Len(w) : w[i] \in Tasks /\ w[i] # s /\ w[i] # op[t].w
<1>. USE DEF Inv
<1>1. \A u \in Tasks \ {t} : op[u].at \in {"idle", "p_read"}
  BY DEF Serial
<1>2. op[t].w \in Tasks /\ Sleeps(op[t].w, s)
  BY DEF List, Removal, Late
<1>3. \A u \in Tasks : Taken(u, s) <=> u = op[t].w
  BY <1>1 DEF Taken, Late
<1>4. Unlinking(s) <=> op[t].at = "v_prev"
  BY <1>1 DEF Unlinking
<1>5. \A u \in Tasks : On(w, u) <=> Sleeps(u, s) /\ u # op[t].w
  BY <1>3 DEF List, Members
<1>6. \A i \in 1..Len(w) : w[i] \in Tasks /\ w[i] # s /\ w[i] # op[t].w
  <2>. TAKE i \in 1..Len(w)
  <2>1. w[i] \in Tasks /\ On(w, w[i])
    BY SMTT(30) DEF On
  <2>. QED
    BY <1>5, <2>1 DEF AllTasks
<1>. QED
  BY <1>1, <1>2, <1>3, <1>4, <1>5, <1>6

\* The back link of the new first node: next->prev = prev.
LEMMA PrevLists ==
    ASSUME Inv, NEW t \in Tasks, t = current, state[t] = "runnable", PostPrev(t),
           NEW s \in Sems, op[t].s = s
    PROVE  Lists'
<1>. USE DEF Inv
<1>1. op[t].at = "v_prev" /\ op[t].at \in Late
  BY DEF PostPrev, Late
<1>2. /\ op'[t] = [at |-> "v_self", s |-> s, w |-> op[t].w]
      /\ \A u \in Tasks \ {t} : op'[u] = op[u]
  BY OpStep DEF PostPrev
<1>3. \A r \in Sems, u \in Tasks : Sleeps(u, r)' <=> Sleeps(u, r)
  BY <1>1, <1>2 DEF Sleeps, PostPrev
<1>4. PICK w \in Seq(Tasks) : List(s, w)
  BY DEF Lists
<1>5. /\ \A u \in Tasks \ {t} : op[u].at \in {"idle", "p_read"}
      /\ op[t].w \in Tasks /\ Sleeps(op[t].w, s)
      /\ \A u \in Tasks : On(w, u) <=> Sleeps(u, s) /\ u # op[t].w
      /\ \A i \in 1..Len(w) : w[i] \in Tasks /\ w[i] # s /\ w[i] # op[t].w
      /\ Unlinking(s)
  BY SMTT(30), <1>1, <1>4, TakenOne
<1>6. op[t].prev = s /\ op[t].next = Node(s, w, 1)
  BY <1>1, <1>4 DEF List, Removal
<1>7. Node(s, w, 1) \in Nodes /\ (Node(s, w, 1) # s => Node(s, w, 1) = w[1] /\ 1 \in 1..Len(w))
  BY <1>5 DEF Node, Nodes, AllTasks
<1>8. /\ \A n \in Nodes : links'.prev[n] = IF n = Node(s, w, 1) THEN s ELSE links.prev[n]
      /\ links'.next = links.next
  BY <1>6, <1>7 DEF PostPrev, SyncTypeOK
<1>9. ASSUME NEW r \in Sems \ {s} PROVE \E v \in Seq(Tasks) : List(r, v)'
  <2>1. PICK v \in Seq(Tasks) : List(r, v)
    BY DEF Lists
  <2>2. Node(s, w, 1) = s \/ (Node(s, w, 1) \in Tasks /\ Sleeps(Node(s, w, 1), s))
    BY <1>5, <1>7 DEF On
  <2>3. \A n \in Nodes : n # s /\ n # t /\ ~(n \in Tasks /\ Sleeps(n, s)) =>
               links'.next[n] = links.next[n] /\ links'.prev[n] = links.prev[n]
    BY <1>8, <2>2
  <2>4. List(r, v)'
    BY SMTT(30), <1>2, <1>3, <2>1, <2>3, ListApart
  <2>. QED
    BY <2>4
<1>10. ~Unlinking(s)' /\ \A u \in Tasks : Taken(u, s)' <=> u = op[t].w
  <2>1. op'[t].at = "v_self" /\ op'[t].s = s /\ op'[t].w = op[t].w
    BY SMTT(30), <1>2
  <2>2. \A u \in Tasks \ {t} : op'[u].at \in {"idle", "p_read"}
    BY <1>2, <1>5
  <2>3. ~Unlinking(s)'
    BY <2>1, <2>2 DEF Unlinking
  <2>. QED
    BY <2>1, <2>2, <2>3 DEF Taken
<1>11. Members(s, w)'
  BY <1>3, <1>4, <1>5, <1>10 DEF List, Members, On
<1>12. Ring(s, w)'
  <2>1. \A i \in 0..Len(w) : links'.next[Node(s, w, i)] = Node(s, w, i + 1)
    BY <1>4, <1>8 DEF List, Ring
  <2>2. links'.prev[Node(s, w, 1)] = s
    BY <1>7, <1>8
  <2>3. links'.prev[s] = Node(s, w, Len(w))
    <3>1. CASE Len(w) = 0
      BY SMTT(30), <2>2, <3>1 DEF Node
    <3>2. CASE Len(w) # 0
      <4>1. Node(s, w, 1) # s
        BY SMTT(30), <1>5, <3>2 DEF Node
      <4>2. links.prev[s] = Node(s, w, Len(w))
        BY <1>4, <1>5, <3>2 DEF List, Ring
      <4>. QED
        BY <1>8, <4>1, <4>2 DEF Nodes
    <3>. QED
      BY <3>1, <3>2
  <2>. QED
    BY <1>10, <2>1, <2>2, <2>3 DEF Ring
<1>13. \A u \in Tasks : Removal(u, s, w)'
  <2>1. PICK x \in Tasks : x = op[t].w
    BY <1>5
  <2>2. op'[t].w = x /\ Sleeps(x, s)'
    BY SMTT(30), <1>2, <1>3, <1>5, <2>1
  <2>3. Removal(t, s, w)'
    BY SMTT(30), <1>2, <2>2 DEF Removal
  <2>. QED
    BY <1>2, <1>5, <2>3 DEF Removal
<1>14. List(s, w)'
  BY <1>11, <1>12, <1>13 DEF List
<1>. QED
  BY <1>9, <1>14 DEF Lists

\* The removed node becomes a ring of its own.
LEMMA SelfLists ==
    ASSUME Inv, NEW t \in Tasks, t = current, state[t] = "runnable", PostSelf(t),
           NEW s \in Sems, op[t].s = s
    PROVE  Lists'
<1>. USE DEF Inv
<1>1. op[t].at = "v_self" /\ op[t].at \in Late
  BY DEF PostSelf, Late
<1>2. /\ op'[t].at = "v_wake" /\ op'[t].s = s /\ op'[t].w = op[t].w
      /\ \A u \in Tasks \ {t} : op'[u] = op[u]
  <2>1. op[t] \in [at : {"v_load", "v_self", "v_wake"}, s : Sems, w : Nodes]
    <3>1. op[t] \in OpType
      BY DEF SyncTypeOK, Contexts
    <3>. QED
      BY SMTT(30), <1>1, <3>1 DEF OpType, NoOp
  <2>2. op'[t] = [op[t] EXCEPT !.at = "v_wake"] /\ \A u \in Tasks \ {t} : op'[u] = op[u]
    BY OpStep DEF PostSelf
  <2>. QED
    BY <2>1, <2>2, SMT
<1>3. \A r \in Sems, u \in Tasks : Sleeps(u, r)' <=> Sleeps(u, r)
  BY <1>1, <1>2 DEF Sleeps, PostSelf
<1>4. PICK w \in Seq(Tasks) : List(s, w)
  BY DEF Lists
<1>5. /\ \A u \in Tasks \ {t} : op[u].at \in {"idle", "p_read"}
      /\ op[t].w \in Tasks /\ Sleeps(op[t].w, s)
      /\ \A u \in Tasks : On(w, u) <=> Sleeps(u, s) /\ u # op[t].w
      /\ \A i \in 1..Len(w) : w[i] \in Tasks /\ w[i] # s /\ w[i] # op[t].w
      /\ ~Unlinking(s)
  BY SMTT(30), <1>1, <1>4, TakenOne
<1>6. \A n \in Nodes : n # op[t].w => links'.next[n] = links.next[n] /\ links'.prev[n] = links.prev[n]
  BY <1>5 DEF PostSelf, SyncTypeOK
<1>7. ASSUME NEW r \in Sems \ {s} PROVE \E v \in Seq(Tasks) : List(r, v)'
  <2>1. PICK v \in Seq(Tasks) : List(r, v)
    BY DEF Lists
  <2>2. \A n \in Nodes : n # s /\ n # t /\ ~(n \in Tasks /\ Sleeps(n, s)) =>
               links'.next[n] = links.next[n] /\ links'.prev[n] = links.prev[n]
    BY <1>5, <1>6
  <2>3. List(r, v)'
    BY <1>2, <1>3, <2>1, <2>2, ListApart
  <2>. QED
    BY <2>3
<1>8. ~Unlinking(s)' /\ \A u \in Tasks : Taken(u, s)' <=> u = op[t].w
  BY <1>2, <1>5 DEF Taken, Unlinking
<1>9. Members(s, w)'
  BY <1>3, <1>4, <1>5, <1>8 DEF List, Members, On
<1>10. Ring(s, w)'
  <2>1. \A i \in 0..Len(w) + 1 : Node(s, w, i) \in Nodes /\ Node(s, w, i) # op[t].w
    BY <1>5 DEF Node, Nodes, AllTasks
  <2>2. \A i \in 0..Len(w) : links'.next[Node(s, w, i)] = Node(s, w, i + 1)
    <3>. TAKE i \in 0..Len(w)
    <3>1. links.next[Node(s, w, i)] = Node(s, w, i + 1)
      BY <1>4 DEF List, Ring
    <3>. QED
      BY SMTT(30), <1>6, <2>1, <3>1
  <2>3. links'.prev[Node(s, w, 1)] = s
    <3>1. links.prev[Node(s, w, 1)] = s
      BY <1>4, <1>5 DEF List, Ring
    <3>2. Node(s, w, 1) \in Nodes /\ Node(s, w, 1) # op[t].w
      BY SMTT(30), <2>1
    <3>. QED
      BY <1>6, <3>1, <3>2
  <2>4. links'.prev[s] = Node(s, w, Len(w))
    BY <1>4, <1>5, <1>6 DEF List, Ring, Nodes, AllTasks
  <2>. QED
    BY <1>8, <2>2, <2>3, <2>4 DEF Ring
<1>11. \A u \in Tasks : Removal(u, s, w)'
  <2>1. PICK x \in Tasks : x = op[t].w
    BY <1>5
  <2>2. op'[t].w = x /\ Sleeps(x, s)'
    BY <1>2, <1>3, <1>5, <2>1
  <2>3. Removal(t, s, w)'
    BY <1>2, <2>2 DEF Removal
  <2>. QED
    BY <1>2, <1>5, <2>3 DEF Removal
<1>12. List(s, w)'
  BY <1>9, <1>10, <1>11 DEF List
<1>. QED
  BY <1>7, <1>12 DEF Lists

\* The removed task is woken, and is neither asleep nor on the list.
LEMMA WakeLists ==
    ASSUME Inv, NEW t \in Tasks, t = current, state[t] = "runnable", PostWake(t),
           NEW s \in Sems, op[t].s = s
    PROVE  Lists'
<1>. USE DEF Inv
<1>1. op[t].at = "v_wake" /\ op[t].at \in Late
  BY DEF PostWake, Late
<1>2. op'[t].at = "idle" /\ \A u \in Tasks \ {t} : op'[u] = op[u]
  BY SMTT(30), OpStep DEF PostWake, NoOp
<1>3. PICK w \in Seq(Tasks) : List(s, w)
  BY DEF Lists
<1>4. /\ \A u \in Tasks \ {t} : op[u].at \in {"idle", "p_read"}
      /\ op[t].w \in Tasks /\ Sleeps(op[t].w, s)
      /\ \A u \in Tasks : On(w, u) <=> Sleeps(u, s) /\ u # op[t].w
      /\ ~Unlinking(s)
  BY <1>1, <1>3, TakenOne
<1>5. \A u \in Tasks : state'[u] = IF u = op[t].w THEN "runnable" ELSE state[u]
  BY DEF PostWake, AllTasks
<1>6. \A r \in Sems, u \in Tasks : Sleeps(u, r)' <=> Sleeps(u, r) /\ u # op[t].w
  BY <1>1, <1>2, <1>5 DEF Sleeps
<1>7. links' = links
  BY DEF PostWake
<1>8. ASSUME NEW r \in Sems \ {s} PROVE \E v \in Seq(Tasks) : List(r, v)'
  <2>1. PICK v \in Seq(Tasks) : List(r, v)
    BY DEF Lists
  <2>2. \A u \in Tasks : Sleeps(u, r)' <=> Sleeps(u, r)
    BY SMTT(30), <1>4, <1>6 DEF Sleeps
  <2>3. List(r, v)'
    BY <1>2, <1>7, <2>1, <2>2, ListApart
  <2>. QED
    BY <2>3
<1>9. ~Unlinking(s)' /\ \A u \in Tasks : ~Taken(u, s)'
  BY <1>2, <1>4 DEF Taken, Unlinking
<1>10. Members(s, w)'
  BY <1>3, <1>4, <1>6, <1>9 DEF List, Members, On
<1>11. Ring(s, w)'
  BY <1>3, <1>4, <1>7, <1>9 DEF List, Ring
<1>12. \A u \in Tasks : Removal(u, s, w)'
  BY <1>2, <1>4 DEF Removal
<1>13. List(s, w)'
  BY <1>10, <1>11, <1>12 DEF List
<1>. QED
  BY <1>8, <1>13 DEF Lists

\* Every access of sem_pend and sem_post keeps the lists.
LEMMA ListsStep ==
    ASSUME Inv, NEW t \in Tasks, Runs(t), Begin(t) \/ SemStep(t)
    PROVE  Lists'
<1>. USE DEF Inv
<1>0. t = current /\ state[t] = "runnable" /\ TaskOf(t) = t
  BY RunsCurrent
<1>. DEFINE Found == {"v_first", "v_load", "v_next"}
<1>a. ASSUME UNCHANGED <<state, links>>, \A u \in Tasks \ {t} : op'[u] = op[u],
             op[t].at \notin Late, op'[t].at \notin Late \cup Found
      PROVE  Lists'
  <2>1. \A s \in Sems, w \in Seq(Tasks) : Removal(t, s, w)'
    BY <1>a DEF Removal, Late
  <2>. QED
    BY <1>0, <1>a, <2>1, PlainLists
<1>1. CASE Begin(t)
  <2>1. PICK s \in Sems : Goto(t, PendOp(s)) \/ Goto(t, PostOp(s))
    BY <1>1 DEF Begin
  <2>2. op'[t].at \in {"p_read", "v_inc"} /\ \A u \in Tasks \ {t} : op'[u] = op[u]
    BY SMTT(30), <2>1, OpStep DEF PendOp, PostOp
  <2>. QED
    BY <1>1, <1>a, <2>2 DEF Begin, Late
<1>2. CASE PendRead(t)
  <2>1. op'[t].at \in PendPoints /\ \A u \in Tasks \ {t} : op'[u] = op[u]
    <3>1. PICK o : Goto(t, o) /\ o.at \in PendPoints
      BY SMTT(30), <1>2 DEF PendRead, Missed, PendPoints
    <3>. QED
      BY <3>1, OpStep
  <2>. QED
    BY <1>2, <1>a, <2>1 DEF PendRead, Late, PendPoints
<1>3. CASE PendCas(t)
  <2>1. op'[t].at \in PendPoints \cup {"idle"} /\ \A u \in Tasks \ {t} : op'[u] = op[u]
    <3>1. PICK o : Goto(t, o) /\ o.at \in PendPoints \cup {"idle"}
      BY SMTT(30), <1>3 DEF PendCas, Missed, PendPoints, NoOp
    <3>. QED
      BY <3>1, OpStep
  <2>. QED
    BY <1>3, <1>a, <2>1 DEF PendCas, Late, PendPoints
<1>4. CASE PendSleep(t)
  <2>1. op[t].s \in Sems
    BY <1>4, OpFields DEF PendSleep
  <2>. QED
    BY <1>0, <1>4, <2>1, SleepLists
<1>5. CASE PostInc(t)
  <2>1. op'[t].at = "v_test" /\ \A u \in Tasks \ {t} : op'[u] = op[u]
    BY SMTT(30), <1>5, OpStep DEF PostInc
  <2>. QED
    BY <1>5, <1>a, <2>1 DEF PostInc, Late
<1>6. CASE PostTest(t)
  <2>1. op[t].s \in Sems
    BY <1>6, OpFields DEF PostTest
  <2>2. CASE v_ilist_is_empty(links, op[t].s)
    <3>0. Goto(t, NoOp)
      BY <1>6, <2>2 DEF PostTest
    <3>1. op'[t].at = "idle" /\ \A u \in Tasks \ {t} : op'[u] = op[u]
      BY SMTT(30), <3>0, OpStep DEF NoOp
    <3>. QED
      BY <1>6, <1>a, <3>1 DEF PostTest, Late
  <2>3. CASE ~v_ilist_is_empty(links, op[t].s)
    <3>1. op'[t] = [at |-> "v_first", s |-> op[t].s] /\ \A u \in Tasks \ {t} : op'[u] = op[u]
      BY <1>6, <2>3, OpStep DEF PostTest
    <3>2. ASSUME NEW s \in Sems, NEW w \in Seq(Tasks), List(s, w), op[t].s = s PROVE Len(w) > 0
      <4>1. links.next[Node(s, w, 0)] = Node(s, w, 1)
        BY SMTT(30), <3>2 DEF List, Ring
      <4>. QED
        BY SMTT(30), <2>3, <3>2, <4>1 DEF Node, v_ilist_is_empty
    <3>3. \A s \in Sems, w \in Seq(Tasks) : List(s, w) => Removal(t, s, w)'
      BY SMTT(30), <3>1, <3>2 DEF Removal
    <3>4. UNCHANGED <<state, links>> /\ op[t].at \notin Late /\ op'[t].at \notin Late
      <4>1. UNCHANGED <<state, links>> /\ op[t].at = "v_test"
        BY <1>6 DEF PostTest
      <4>2. op'[t].at = "v_first"
        BY SMTT(30), <3>1
      <4>. QED
        BY <4>1, <4>2 DEF Late
    <3>. QED
      BY <1>0, <3>1, <3>3, <3>4, PlainLists
  <2>. QED
    BY <2>2, <2>3
<1>7. CASE PostFirst(t)
  <2>1. op'[t] = [at |-> "v_load", s |-> op[t].s, w |-> links.next[op[t].s]]
        /\ \A u \in Tasks \ {t} : op'[u] = op[u]
    BY <1>7, OpStep DEF PostFirst
  <2>2. ASSUME NEW s \in Sems, NEW w \in Seq(Tasks), List(s, w), op[t].s = s
        PROVE  Len(w) > 0 /\ links.next[s] = w[1]
    <3>1. Len(w) > 0
      BY <1>7, <2>2 DEF List, Removal, PostFirst
    <3>2. links.next[Node(s, w, 0)] = Node(s, w, 1)
      BY SMTT(30), <2>2 DEF List, Ring
    <3>. QED
      BY SMTT(30), <3>1, <3>2 DEF Node
  <2>3. \A s \in Sems, w \in Seq(Tasks) : List(s, w) => Removal(t, s, w)'
    BY SMTT(30), <2>1, <2>2 DEF Removal
  <2>4. UNCHANGED <<state, links>> /\ op[t].at \notin Late /\ op'[t].at \notin Late
    <3>1. UNCHANGED <<state, links>> /\ op[t].at = "v_first"
      BY <1>7 DEF PostFirst
    <3>2. op'[t].at = "v_load"
      BY SMTT(30), <2>1
    <3>. QED
      BY <3>1, <3>2 DEF Late
  <2>. QED
    BY <1>0, <2>1, <2>3, <2>4, PlainLists
<1>8. CASE PostLoad(t)
  <2>1. op'[t] = [at |-> "v_next", s |-> op[t].s, w |-> op[t].w,
                  prev |-> links.prev[op[t].w], next |-> links.next[op[t].w]]
        /\ \A u \in Tasks \ {t} : op'[u] = op[u]
    BY <1>8, OpStep DEF PostLoad
  <2>2. ASSUME NEW s \in Sems, NEW w \in Seq(Tasks), List(s, w), op[t].s = s
        PROVE  /\ Len(w) > 0 /\ op[t].w = w[1]
               /\ links.prev[w[1]] = s /\ links.next[w[1]] = Node(s, w, 2)
    <3>1. Len(w) > 0 /\ op[t].w = w[1]
      BY <1>8, <2>2 DEF List, Removal, PostLoad
    <3>2. ~Unlinking(s)
      BY <1>0, <1>8 DEF Unlinking, Serial, PostLoad
    <3>3. Node(s, w, 1) = w[1] /\ 1 \in 0..Len(w)
      BY SMTT(30), <3>1 DEF Node
    <3>4. links.next[Node(s, w, 1)] = Node(s, w, 1 + 1) /\ links.prev[Node(s, w, 1)] = s
      BY <2>2, <3>2, <3>3 DEF List, Ring
    <3>. QED
      BY SMTT(30), <3>1, <3>3, <3>4
  <2>3. ASSUME NEW s \in Sems, NEW w \in Seq(Tasks), List(s, w) PROVE Removal(t, s, w)'
    <3>1. op'[t].at = "v_next" /\ op'[t].s = op[t].s
      BY SMTT(30), <2>1
    <3>2. ASSUME op[t].s = s
          PROVE  Len(w) > 0 /\ op'[t].w = w[1] /\ op'[t].prev = s /\ op'[t].next = Node(s, w, 2)
      <4>1. op'[t].w = op[t].w /\ op'[t].prev = links.prev[op[t].w] /\ op'[t].next = links.next[op[t].w]
        BY SMTT(30), <2>1
      <4>2. /\ Len(w) > 0 /\ op[t].w = w[1]
            /\ links.prev[w[1]] = s /\ links.next[w[1]] = Node(s, w, 2)
        BY <2>2, <2>3, <3>2
      <4>. QED
        BY <4>1, <4>2
    <3>. QED
      BY <3>1, <3>2 DEF Removal
  <2>4. UNCHANGED <<state, links>> /\ op[t].at \notin Late /\ op'[t].at \notin Late
    <3>1. UNCHANGED <<state, links>> /\ op[t].at = "v_load"
      BY <1>8 DEF PostLoad
    <3>2. op'[t].at = "v_next"
      BY SMTT(30), <2>1
    <3>. QED
      BY <3>1, <3>2 DEF Late
  <2>. QED
    BY <1>0, <2>1, <2>3, <2>4, PlainLists
<1>9. CASE PostNext(t) \/ PostPrev(t) \/ PostSelf(t) \/ PostWake(t)
  <2>1. op[t].s \in Sems
    <3>1. op[t].at # "idle"
      BY <1>9 DEF PostNext, PostPrev, PostSelf, PostWake
    <3>. QED
      BY <3>1, OpFields
  <2>2. CASE PostNext(t)
    BY <1>0, <2>1, <2>2, NextLists
  <2>3. CASE PostPrev(t)
    BY <1>0, <2>1, <2>3, PrevLists
  <2>4. CASE PostSelf(t)
    BY <1>0, <2>1, <2>4, SelfLists
  <2>5. CASE PostWake(t)
    BY <1>0, <2>1, <2>5, WakeLists
  <2>. QED
    BY <1>9, <2>2, <2>3, <2>4, <2>5
<1>. QED
  BY <1>1, <1>2, <1>3, <1>4, <1>5, <1>6, <1>7, <1>8, <1>9 DEF SemStep

\* The timer and stuttering leave the calls and the lists alone.
LEMMA ListsKeep ==
    ASSUME Lists, UNCHANGED <<state, links, op>>
    PROVE  Lists'
<1>. SUFFICES ASSUME NEW s \in Sems, NEW w \in Seq(Tasks), List(s, w) PROVE List(s, w)'
  BY DEF Lists
<1>1. Members(s, w)'
  BY SMTT(30) DEF List, Members, Sleeps, Taken, On
<1>2. Ring(s, w)'
  BY DEF List, Ring, Unlinking
<1>3. \A t \in Tasks : Removal(t, s, w)'
  BY DEF List, Removal, Sleeps
<1>. QED
  BY <1>1, <1>2, <1>3 DEF List

\* The invariant holds at boot.
LEMMA InvInit == Init => Inv
BY InitTypeOK, SerialInit, ListsInit DEF Inv

\* Every step keeps it.
LEMMA InvNext ==
    ASSUME InterruptsOff, Inv, [Next]_syncVars
    PROVE  Inv'
<1>1. SyncTypeOK'
  BY NextType DEF Inv
<1>2. CASE UNCHANGED syncVars
  <2>1. Serial'
    BY <1>2 DEF Inv, Serial, syncVars
  <2>2. Lists'
    BY <1>2, ListsKeep DEF Inv, syncVars
  <2>. QED
    BY <1>1, <2>1, <2>2 DEF Inv
<1>3. ASSUME NEW t \in Tasks, Runs(t), Begin(t) \/ SemStep(t) PROVE Inv'
  <2>1. Serial'
    BY <1>3, SerialStep DEF Inv
  <2>2. Lists'
    BY <1>3, ListsStep
  <2>. QED
    BY <1>1, <2>1, <2>2 DEF Inv
<1>4. ASSUME NEW t \in AllTasks, Preempt(t, {u \in Tasks : op[u].at # "idle"}) PROVE Inv'
  <2>1. Serial'
    BY <1>4, PreemptSerial DEF Inv
  <2>2. Lists'
    BY <1>4, ListsKeep DEF Inv, Preempt
  <2>. QED
    BY <1>1, <2>1, <2>2 DEF Inv
<1>. QED
  BY <1>2, <1>3, <1>4 DEF Next

\* The list of waiters of every semaphore is a ring through exactly the tasks
\* that sleep on it and have not been taken off by a sem_post about to wake
\* them, at every access of sem_pend and sem_post made with interrupts off.
THEOREM WaitersOnList == ASSUME InterruptsOff PROVE Spec => []Inv
BY InvInit, InvNext, PTL DEF Spec
=============================================================================
