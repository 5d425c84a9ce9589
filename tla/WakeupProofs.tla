---------------------------- MODULE WakeupProofs ----------------------------
(***************************************************************************)
(* For any number of tasks and semaphores, if every call is made with      *)
(* interrupts off: no wake-up of sem_pend is lost.  What has to be known   *)
(* for it is that a sleeping task is found on the semaphore's list, which  *)
(* SemClientProofs shows.                                                  *)
(***************************************************************************)
EXTENDS SemClientProofs, FiniteSetTheorems

\* A step is for Zenon unless it names the SMT solver.
USE ZenonT(60)

USE ClientAssumption

\* Who can still use a unit of s, as NoLostWakeup counts them.
Awake(s) == {t \in Tasks : InPend(t, s) /\ state[t] = "runnable"}
Posting(s) == {t \in Tasks : op[t].at \in WakePoints /\ op[t].s = s}

Enough(s) == Asleep(s) # {} => count[s] <= Cardinality(Awake(s)) + Cardinality(Posting(s))

\* NoLostWakeup, one semaphore at a time.
LEMMA EnoughAll == NoLostWakeup <=> \A s \in Sems : Enough(s)
BY DEF NoLostWakeup, Enough, Awake, Posting

\* Asleep in terms of the tasks only, as there are no handlers.
LEMMA AsleepSleeps ==
    ASSUME Serial, NEW s
    PROVE  Asleep(s) = {t \in Tasks : Sleeps(t, s)}
BY DEF Asleep, Sleeps, Serial, Contexts, TaskOf, InPend, PendPoints

\* With finitely many tasks the two sets can be counted.
LEMMA FiniteParts ==
    ASSUME InterruptsOff, NEW s
    PROVE  /\ IsFiniteSet(Awake(s)) /\ Cardinality(Awake(s)) \in Nat
           /\ IsFiniteSet(Posting(s)) /\ Cardinality(Posting(s)) \in Nat
<1>1. Awake(s) \subseteq Tasks /\ Posting(s) \subseteq Tasks /\ IsFiniteSet(Tasks)
  BY DEF Awake, Posting, InterruptsOff
<1>2. IsFiniteSet(Awake(s)) /\ IsFiniteSet(Posting(s))
  BY <1>1, FS_Subset
<1>. QED
  BY <1>2, FS_CardinalityType

\* A step that takes nobody from the two sets, no unit in, nobody to sleep.
LEMMA EnoughKeep ==
    ASSUME InterruptsOff, NEW s \in Sems, Enough(s),
           count[s] \in Nat, count'[s] \in Nat, count'[s] <= count[s],
           Asleep(s)' # {} => Asleep(s) # {},
           Awake(s) \subseteq Awake(s)', Posting(s) \subseteq Posting(s)'
    PROVE  Enough(s)'
<1>1. IsFiniteSet(Awake(s)') /\ IsFiniteSet(Posting(s)')
  <2>1. Awake(s)' \subseteq Tasks /\ Posting(s)' \subseteq Tasks /\ IsFiniteSet(Tasks)
    BY DEF Awake, Posting, InterruptsOff
  <2>. QED
    BY <2>1, FS_Subset
<1>2. Cardinality(Awake(s)) <= Cardinality(Awake(s)')
  BY <1>1, FS_Subset
<1>3. Cardinality(Posting(s)) <= Cardinality(Posting(s)')
  BY <1>1, FS_Subset
<1>4. Cardinality(Awake(s)') \in Nat /\ Cardinality(Posting(s)') \in Nat
  BY <1>1, FS_CardinalityType
<1>5. Cardinality(Awake(s)) \in Nat /\ Cardinality(Posting(s)) \in Nat
  BY FiniteParts
<1>6. ASSUME Asleep(s)' # {} PROVE count'[s] <= Cardinality(Awake(s)') + Cardinality(Posting(s)')
  BY SMTT(30), <1>2, <1>3, <1>4, <1>5, <1>6 DEF Enough
<1>. QED
  BY <1>6 DEF Enough

\* A step of t's call that gives up neither a place in sem_pend(s) nor one in
\* sem_post(s).
LEMMA EnoughFrame ==
    ASSUME InterruptsOff, SyncTypeOK, Serial, Serial', NEW t \in Tasks, NEW s \in Sems, Enough(s),
           \A u \in Tasks \ {t} : op'[u] = op[u],
           \A u \in Tasks \ {t} : InPend(u, s) => state'[u] = state[u],
           InPend(t, s) => InPend(t, s)' /\ state'[t] = state[t],
           ~Sleeps(t, s)',
           t \in Posting(s) => t \in Posting(s)',
           count'[s] = count[s]
    PROVE  Enough(s)'
<1>1. Awake(s) \subseteq Awake(s)'
  <2>. SUFFICES ASSUME NEW u \in Awake(s) PROVE u \in Awake(s)'
    OBVIOUS
  <2>1. u \in Tasks /\ InPend(u, s) /\ state[u] = "runnable"
    BY DEF Awake
  <2>2. InPend(u, s)' /\ state'[u] = "runnable"
    BY <2>1 DEF InPend
  <2>. QED
    BY <2>1, <2>2 DEF Awake
<1>2. Posting(s) \subseteq Posting(s)'
  BY DEF Posting
<1>3. \A u \in Tasks : Sleeps(u, s)' => Sleeps(u, s)
  BY DEF Sleeps, InPend, PendPoints
<1>4. Asleep(s)' # {} => Asleep(s) # {}
  <2>1. Asleep(s)' = {u \in Tasks : Sleeps(u, s)'}
    BY DEF Asleep, Sleeps, Serial, Contexts, TaskOf, InPend, PendPoints
  <2>. QED
    BY <1>3, <2>1, AsleepSleeps
<1>5. count[s] \in Nat
  BY DEF SyncTypeOK
<1>. QED
  BY SMTT(30), <1>1, <1>2, <1>4, <1>5, EnoughKeep

\* sem_pend takes a unit, and stops being one of those that can.
LEMMA TakeEnough ==
    ASSUME InterruptsOff, SyncTypeOK, Serial, Serial', NEW t \in Tasks, t = current, state[t] = "runnable",
           PendCas(t), NEW s \in Sems, op[t].s = s, Enough(s)
    PROVE  Enough(s)'
<1>1. op[t].at = "p_cas" /\ count[s] = op[t].val /\ count[s] \in Nat
  BY DEF PendCas, Serial, SyncTypeOK
<1>2. op'[t].at = "idle" /\ \A u \in Tasks \ {t} : op'[u] = op[u]
  BY SMTT(30), <1>1, OpStep DEF PendCas, NoOp
<1>3. count'[s] = count[s] - 1 /\ state' = state
  BY SMTT(30), <1>1 DEF PendCas, SyncTypeOK
<1>4. t \in Awake(s) /\ Awake(s)' = Awake(s) \ {t}
  <2>1. \A u \in Tasks : InPend(u, s)' <=> InPend(u, s) /\ u # t
    BY <1>1, <1>2 DEF InPend, PendPoints
  <2>2. InPend(t, s)
    BY <1>1 DEF InPend, PendPoints
  <2>. QED
    BY <1>3, <2>1, <2>2 DEF Awake
<1>5. Posting(s)' = Posting(s)
  <2>1. op[t].at \notin WakePoints /\ op'[t].at \notin WakePoints
    BY <1>1, <1>2 DEF WakePoints
  <2>. QED
    BY <1>2, <2>1 DEF Posting
<1>6. IsFiniteSet(Awake(s)) /\ Cardinality(Awake(s)) \in Nat /\ Cardinality(Posting(s)) \in Nat
  BY FiniteParts
<1>7. Cardinality(Awake(s)') = Cardinality(Awake(s)) - 1
  <2>1. Cardinality(Awake(s) \ {t}) = Cardinality(Awake(s)) - 1
    BY <1>4, <1>6, FS_RemoveElement
  <2>. QED
    BY <1>4, <2>1
<1>8. Asleep(s)' # {} => Asleep(s) # {}
  <2>1. Asleep(s)' = {u \in Tasks : Sleeps(u, s)'}
    BY DEF Asleep, Sleeps, Serial, Contexts, TaskOf, InPend, PendPoints
  <2>2. \A u \in Tasks : Sleeps(u, s)' => Sleeps(u, s)
    BY <1>2, <1>3 DEF Sleeps
  <2>. QED
    BY <2>1, <2>2, AsleepSleeps
<1>9. ASSUME Asleep(s)' # {} PROVE count'[s] <= Cardinality(Awake(s)') + Cardinality(Posting(s)')
  BY SMTT(30), <1>1, <1>3, <1>5, <1>6, <1>7, <1>8, <1>9 DEF Enough
<1>. QED
  BY <1>9 DEF Enough

\* sem_post adds a unit, and has still to wake a task.
LEMMA IncEnough ==
    ASSUME InterruptsOff, SyncTypeOK, Serial, Serial', NEW t \in Tasks, t = current, state[t] = "runnable",
           PostInc(t), NEW s \in Sems, op[t].s = s, Enough(s)
    PROVE  Enough(s)'
<1>1. op[t].at = "v_inc" /\ count[s] \in Nat
  BY DEF PostInc, SyncTypeOK
<1>2. op'[t] = [at |-> "v_test", s |-> s] /\ \A u \in Tasks \ {t} : op'[u] = op[u]
  BY <1>1, OpStep DEF PostInc
<1>3. count'[s] = count[s] + 1 /\ state' = state
  BY <1>1 DEF PostInc, SyncTypeOK
<1>4. t \notin Posting(s) /\ Posting(s)' = Posting(s) \cup {t}
  <2>1. op[t].at \notin WakePoints /\ op'[t].at \in WakePoints /\ op'[t].s = s
    BY SMTT(30), <1>1, <1>2 DEF WakePoints
  <2>. QED
    BY <1>2, <2>1 DEF Posting
<1>5. Awake(s)' = Awake(s)
  BY SMTT(30), <1>1, <1>2, <1>3 DEF Awake, InPend, PendPoints
<1>6. IsFiniteSet(Posting(s)) /\ Cardinality(Awake(s)) \in Nat /\ Cardinality(Posting(s)) \in Nat
  BY FiniteParts
<1>7. Cardinality(Posting(s)') = Cardinality(Posting(s)) + 1
  <2>1. Cardinality(Posting(s) \cup {t}) = Cardinality(Posting(s)) + 1
    BY <1>4, <1>6, FS_AddElement
  <2>. QED
    BY <1>4, <2>1
<1>8. Asleep(s)' # {} => Asleep(s) # {}
  <2>1. Asleep(s)' = {u \in Tasks : Sleeps(u, s)'}
    BY DEF Asleep, Sleeps, Serial, Contexts, TaskOf, InPend, PendPoints
  <2>2. \A u \in Tasks : Sleeps(u, s)' => Sleeps(u, s)
    BY <1>2, <1>3 DEF Sleeps
  <2>. QED
    BY <2>1, <2>2, AsleepSleeps
<1>9. ASSUME Asleep(s)' # {} PROVE count'[s] <= Cardinality(Awake(s)') + Cardinality(Posting(s)')
  BY SMTT(30), <1>1, <1>3, <1>5, <1>6, <1>7, <1>8, <1>9 DEF Enough
<1>. QED
  BY <1>9 DEF Enough

\* sem_post is done with a waiter that can take the unit from here on.
LEMMA WakeEnough ==
    ASSUME InterruptsOff, Inv, Serial', NEW t \in Tasks, t = current, state[t] = "runnable",
           PostWake(t), NEW s \in Sems, op[t].s = s, Enough(s)
    PROVE  Enough(s)'
<1>. USE DEF Inv
<1>1. op[t].at = "v_wake" /\ op[t].at \in Late /\ count[s] \in Nat /\ count' = count
  BY DEF PostWake, SyncTypeOK, Late
<1>2. op'[t].at = "idle" /\ \A u \in Tasks \ {t} : op'[u] = op[u]
  BY SMTT(30), OpStep DEF PostWake, NoOp
<1>3. PICK w \in Seq(Tasks) : List(s, w)
  BY DEF Lists
<1>4. PICK x \in Tasks : x = op[t].w /\ Sleeps(x, s)
  BY SMTT(30), <1>1, <1>3, TakenOne
<1>5. \A u \in Tasks : state'[u] = IF u = x THEN "runnable" ELSE state[u]
  BY <1>4 DEF PostWake, AllTasks
<1>6. \A u \in Tasks : InPend(u, s)' <=> InPend(u, s)
  BY <1>1, <1>2 DEF InPend, PendPoints
<1>7. InPend(x, s) /\ state[x] # "runnable"
  BY <1>4 DEF Sleeps, InPend, PendPoints
<1>8. x \notin Awake(s) /\ Awake(s)' = Awake(s) \cup {x}
  BY <1>5, <1>6, <1>7 DEF Awake
<1>9. t \in Posting(s) /\ Posting(s)' = Posting(s) \ {t}
  <2>1. op[t].at \in WakePoints /\ op'[t].at \notin WakePoints
    BY <1>1, <1>2 DEF WakePoints
  <2>. QED
    BY <1>2, <2>1 DEF Posting
<1>10. /\ IsFiniteSet(Awake(s)) /\ Cardinality(Awake(s)) \in Nat
       /\ IsFiniteSet(Posting(s)) /\ Cardinality(Posting(s)) \in Nat
  BY FiniteParts
<1>11. Cardinality(Awake(s)') = Cardinality(Awake(s)) + 1
  <2>1. Cardinality(Awake(s) \cup {x}) = Cardinality(Awake(s)) + 1
    BY <1>8, <1>10, FS_AddElement
  <2>. QED
    BY <1>8, <2>1
<1>12. Cardinality(Posting(s)') = Cardinality(Posting(s)) - 1
  <2>1. Cardinality(Posting(s) \ {t}) = Cardinality(Posting(s)) - 1
    BY <1>9, <1>10, FS_RemoveElement
  <2>. QED
    BY <1>9, <2>1
<1>13. Asleep(s) # {}
  BY <1>4, AsleepSleeps
<1>14. count'[s] <= Cardinality(Awake(s)') + Cardinality(Posting(s)')
  BY SMTT(30), <1>1, <1>10, <1>11, <1>12, <1>13 DEF Enough
<1>. QED
  BY <1>14 DEF Enough

\* sem_post finds the list empty: nobody sleeps on s.
LEMMA EmptyEnough ==
    ASSUME Inv, Serial', NEW t \in Tasks, t = current, state[t] = "runnable",
           PostTest(t), NEW s \in Sems, op[t].s = s, v_ilist_is_empty(links, s)
    PROVE  Enough(s)'
<1>. USE DEF Inv
<1>1. op[t].at = "v_test" /\ \A u \in Tasks \ {t} : op[u].at \in {"idle", "p_read"}
  BY DEF PostTest, Serial
<1>2. op'[t].at = "idle" /\ \A u \in Tasks \ {t} : op'[u] = op[u]
  BY SMTT(30), OpStep DEF PostTest, NoOp
<1>3. PICK w \in Seq(Tasks) : List(s, w)
  BY DEF Lists
<1>4. Len(w) = 0
  <2>1. links.next[Node(s, w, 0)] = Node(s, w, 1)
    BY SMTT(30), <1>3 DEF List, Ring
  <2>2. Node(s, w, 1) = s
    BY SMTT(30), <2>1 DEF Node, v_ilist_is_empty
  <2>. SUFFICES ASSUME Len(w) # 0 PROVE FALSE
    OBVIOUS
  <2>3. w[1] \in Tasks /\ w[1] = s
    BY SMTT(30), <2>2 DEF Node
  <2>. QED
    BY <2>3 DEF AllTasks
<1>5. \A u \in Tasks : ~Taken(u, s)
  BY <1>1 DEF Taken
<1>6. \A u \in Tasks : ~Sleeps(u, s)
  BY SMTT(30), <1>3, <1>4, <1>5 DEF List, Members, On
<1>7. \A u \in Tasks : ~Sleeps(u, s)'
  BY <1>2, <1>6 DEF Sleeps, PostTest
<1>8. Asleep(s)' = {u \in Tasks : Sleeps(u, s)'}
  BY DEF Asleep, Sleeps, Serial, Contexts, TaskOf, InPend, PendPoints
<1>. QED
  BY <1>7, <1>8 DEF Enough

\* sem_pend sleeps only on a semaphore without units.
LEMMA SleepEnough ==
    ASSUME InterruptsOff, Inv, NEW t \in Tasks, PendSleep(t), NEW s \in Sems, op[t].s = s
    PROVE  Enough(s)'
<1>1. count'[s] = 0
  BY DEF PendSleep, Inv, Serial
<1>2. IsFiniteSet(Awake(s)') /\ IsFiniteSet(Posting(s)')
  <2>1. Awake(s)' \subseteq Tasks /\ Posting(s)' \subseteq Tasks /\ IsFiniteSet(Tasks)
    BY DEF Awake, Posting, InterruptsOff
  <2>. QED
    BY <2>1, FS_Subset
<1>3. Cardinality(Awake(s)') \in Nat /\ Cardinality(Posting(s)') \in Nat
  BY <1>2, FS_CardinalityType
<1>4. count'[s] <= Cardinality(Awake(s)') + Cardinality(Posting(s)')
  BY SMTT(30), <1>1, <1>3
<1>. QED
  BY <1>4 DEF Enough

\* Every access of sem_pend and sem_post keeps enough tasks awake.
LEMMA EnoughStep ==
    ASSUME InterruptsOff, Inv, Serial', NEW t \in Tasks, Runs(t), Begin(t) \/ SemStep(t),
           NEW s \in Sems, Enough(s)
    PROVE  Enough(s)'
<1>. USE DEF Inv
<1>0. t = current /\ state[t] = "runnable" /\ TaskOf(t) = t
  BY RunsCurrent
\* A step that goes on with the same call, or begins one.
<1>a. ASSUME UNCHANGED <<state, count>>, \A u \in Tasks \ {t} : op'[u] = op[u],
             op[t].at \in PendPoints => op'[t].at \in PendPoints /\ op'[t].s = op[t].s,
             op[t].at \in WakePoints => op'[t].at \in WakePoints /\ op'[t].s = op[t].s
      PROVE  Enough(s)'
  <2>1. ~Sleeps(t, s)'
    BY <1>0, <1>a DEF Sleeps
  <2>2. InPend(t, s) => InPend(t, s)'
    BY <1>a DEF InPend
  <2>3. t \in Posting(s) => t \in Posting(s)'
    BY <1>a DEF Posting
  <2>. QED
    BY <1>a, <2>1, <2>2, <2>3, EnoughFrame
\* A step of a call on another semaphore.
<1>b. ASSUME op[t].s # s, op'[t].at = "idle" \/ op'[t].s # s,
             \A u \in Tasks \ {t} : op'[u] = op[u], count'[s] = count[s],
             \A u \in Tasks \ {t} : InPend(u, s) => state'[u] = state[u]
      PROVE  Enough(s)'
  <2>1. ~Sleeps(t, s)'
    BY <1>b DEF Sleeps
  <2>2. ~InPend(t, s)
    BY <1>b DEF InPend
  <2>3. t \notin Posting(s)
    BY <1>b DEF Posting
  <2>. QED
    BY <1>b, <2>1, <2>2, <2>3, EnoughFrame
<1>1. CASE Begin(t)
  <2>1. PICK r \in Sems : Goto(t, PendOp(r)) \/ Goto(t, PostOp(r))
    BY <1>1 DEF Begin
  <2>2. op[t].at = "idle" /\ \A u \in Tasks \ {t} : op'[u] = op[u]
    BY <1>1, <2>1, OpStep DEF Begin
  <2>. QED
    BY <1>1, <1>a, <2>2 DEF Begin, PendPoints, WakePoints
<1>2. CASE PendRead(t)
  <2>1. op'[t].at \in PendPoints /\ op'[t].s = op[t].s /\ \A u \in Tasks \ {t} : op'[u] = op[u]
    BY SMTT(30), <1>2, OpStep DEF PendRead, Missed, PendPoints
  <2>. QED
    BY <1>2, <1>a, <2>1 DEF PendRead, WakePoints
<1>3. CASE PendCas(t)
  <2>1. op[t].s \in Sems /\ op[t].at = "p_cas" /\ count[op[t].s] = op[t].val
    BY <1>3, OpFields DEF PendCas, Serial
  <2>2. op'[t].at = "idle" /\ \A u \in Tasks \ {t} : op'[u] = op[u]
    <3>1. Goto(t, NoOp)
      BY <1>3, <2>1 DEF PendCas
    <3>. QED
      BY SMTT(30), <3>1, OpStep DEF NoOp
  <2>3. CASE op[t].s = s
    BY <1>0, <1>3, <2>3, TakeEnough
  <2>4. CASE op[t].s # s
    BY <1>3, <1>b, <2>1, <2>2, <2>4 DEF PendCas, SyncTypeOK
  <2>. QED
    BY <2>3, <2>4
<1>4. CASE PendSleep(t)
  <2>1. op[t].s \in Sems
    BY <1>4, OpFields DEF PendSleep
  <2>2. op'[t].s = op[t].s /\ \A u \in Tasks \ {t} : op'[u] = op[u]
    BY SMTT(30), <1>4, OpStep DEF PendSleep, PendOp
  <2>3. \A u \in Tasks \ {t} : state'[u] = state[u]
    BY <1>0, <1>4 DEF PendSleep, SyncTypeOK, AllTasks
  <2>4. CASE op[t].s = s
    BY <1>4, <2>4, SleepEnough
  <2>5. CASE op[t].s # s
    BY <1>4, <1>b, <2>2, <2>3, <2>5 DEF PendSleep
  <2>. QED
    BY <2>4, <2>5
<1>5. CASE PostInc(t)
  <2>1. op[t].s \in Sems
    BY <1>5, OpFields DEF PostInc
  <2>2. op'[t].s = op[t].s /\ \A u \in Tasks \ {t} : op'[u] = op[u]
    BY SMTT(30), <1>5, OpStep DEF PostInc
  <2>3. CASE op[t].s = s
    BY <1>0, <1>5, <2>3, IncEnough
  <2>4. CASE op[t].s # s
    BY <1>5, <1>b, <2>1, <2>2, <2>4 DEF PostInc, SyncTypeOK
  <2>. QED
    BY <2>3, <2>4
<1>6. CASE PostTest(t)
  <2>1. CASE ~v_ilist_is_empty(links, op[t].s)
    <3>1. op'[t] = [at |-> "v_first", s |-> op[t].s] /\ \A u \in Tasks \ {t} : op'[u] = op[u]
      BY <1>6, <2>1, OpStep DEF PostTest
    <3>2. op[t].at \notin PendPoints /\ op'[t].at \in WakePoints /\ op'[t].s = op[t].s
      BY SMTT(30), <1>6, <3>1 DEF PostTest, WakePoints, PendPoints
    <3>. QED
      BY <1>6, <1>a, <3>1, <3>2 DEF PostTest
  <2>2. CASE v_ilist_is_empty(links, op[t].s)
    <3>1. op'[t].at = "idle" /\ \A u \in Tasks \ {t} : op'[u] = op[u]
      BY SMTT(30), <1>6, <2>2, OpStep DEF PostTest, NoOp
    <3>2. CASE op[t].s = s
      BY <1>0, <1>6, <2>2, <3>2, EmptyEnough
    <3>3. CASE op[t].s # s
      BY <1>6, <1>b, <3>1, <3>3 DEF PostTest
    <3>. QED
      BY <3>2, <3>3
  <2>. QED
    BY <2>1, <2>2
<1>7. CASE PostFirst(t) \/ PostLoad(t) \/ PostPrev(t)
  <2>1. /\ op[t].at \in {"v_first", "v_load", "v_prev"}
        /\ op'[t].at \in {"v_load", "v_next", "v_self"} /\ op'[t].s = op[t].s
        /\ \A u \in Tasks \ {t} : op'[u] = op[u]
    BY SMTT(30), <1>7, OpStep DEF PostFirst, PostLoad, PostPrev
  <2>2. op[t].at \notin PendPoints /\ op'[t].at \in WakePoints
    BY <2>1 DEF WakePoints, PendPoints
  <2>. QED
    BY <1>7, <1>a, <2>1, <2>2 DEF PostFirst, PostLoad, PostPrev
<1>8. CASE PostNext(t) \/ PostSelf(t)
  <2>1. op[t].at \in {"v_next", "v_self"}
    BY <1>8 DEF PostNext, PostSelf
  <2>2. op[t] \in [at : {"v_load", "v_self", "v_wake"}, s : Sems, w : Nodes]
             \cup [at : {"v_next", "v_prev"}, s : Sems, w : Nodes, prev : Nodes, next : Nodes]
    <3>1. op[t] \in OpType
      BY DEF SyncTypeOK, Contexts
    <3>. QED
      BY SMTT(30), <2>1, <3>1 DEF OpType, NoOp
  <2>3. PICK p \in {"v_prev", "v_wake"} : /\ op'[t] = [op[t] EXCEPT !.at = p]
                                         /\ \A u \in Tasks \ {t} : op'[u] = op[u]
    BY <1>8, OpStep DEF PostNext, PostSelf
  <2>4. op'[t].at = p /\ op'[t].s = op[t].s
    BY <2>2, <2>3, SMT
  <2>5. op[t].at \notin PendPoints /\ op'[t].at \in WakePoints
    BY <2>1, <2>4 DEF WakePoints, PendPoints
  <2>. QED
    BY <1>8, <1>a, <2>3, <2>4, <2>5 DEF PostNext, PostSelf
<1>9. CASE PostWake(t)
  <2>1. op[t].s \in Sems /\ op[t].at \in Late
    BY <1>9, OpFields DEF PostWake, Late
  <2>2. op'[t].at = "idle" /\ \A u \in Tasks \ {t} : op'[u] = op[u]
    BY SMTT(30), <1>9, OpStep DEF PostWake, NoOp
  <2>3. CASE op[t].s = s
    BY <1>0, <1>9, <2>3, WakeEnough
  <2>4. CASE op[t].s # s
    <3>1. PICK w \in Seq(Tasks) : List(op[t].s, w)
      BY <2>1 DEF Lists
    <3>2. Sleeps(op[t].w, op[t].s)
      BY <1>0, <2>1, <3>1, TakenOne
    <3>3. \A u \in Tasks : InPend(u, s) => u # op[t].w
      BY <2>4, <3>2 DEF InPend, Sleeps
    <3>4. \A u \in Tasks \ {t} : InPend(u, s) => state'[u] = state[u]
      BY <1>9, <3>3 DEF PostWake, AllTasks
    <3>. QED
      BY <1>9, <1>b, <2>2, <2>4, <3>4 DEF PostWake
  <2>. QED
    BY <2>3, <2>4
<1>. QED
  BY <1>1, <1>2, <1>3, <1>4, <1>5, <1>6, <1>7, <1>8, <1>9 DEF SemStep

\* At boot nobody sleeps.
LEMMA WakeupInit == Init => NoLostWakeup
BY SMTT(30) DEF Init, SyncInit, NoLostWakeup, Asleep, InPend, PendPoints, NoOp, Contexts

\* Every step keeps the wake-ups.
LEMMA WakeupNext ==
    ASSUME InterruptsOff, Inv, Inv', NoLostWakeup, [Next]_syncVars
    PROVE  NoLostWakeup'
<1>1. ASSUME UNCHANGED <<state, count, links, op>> PROVE NoLostWakeup'
  BY <1>1 DEF NoLostWakeup, Asleep, InPend, TaskOf, Contexts
<1>2. CASE UNCHANGED syncVars
  BY <1>1, <1>2 DEF syncVars
<1>3. ASSUME NEW t \in Tasks, Runs(t), Begin(t) \/ SemStep(t) PROVE NoLostWakeup'
  <2>1. Serial'
    BY DEF Inv
  <2>2. \A s \in Sems : Enough(s)'
    BY <1>3, <2>1, EnoughAll, EnoughStep
  <2>. QED
    BY <2>2 DEF NoLostWakeup, Enough, Awake, Posting
<1>4. ASSUME NEW t \in AllTasks, Preempt(t, {u \in Tasks : op[u].at # "idle"}) PROVE NoLostWakeup'
  BY <1>1, <1>4 DEF Preempt
<1>. QED
  BY <1>2, <1>3, <1>4 DEF Next

\* A unit that sem_post adds always has somebody awake to use it while tasks
\* sleep in sem_pend: for any number of tasks and semaphores, if every call is
\* made with interrupts off, as the calls of interrupt gates are.
THEOREM NoWakeupLost == ASSUME InterruptsOff PROVE Spec => []NoLostWakeup
BY WaitersOnList, WakeupInit, WakeupNext, PTL DEF Spec
=============================================================================
