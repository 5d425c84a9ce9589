--------------------------- MODULE WaitOrderProofs --------------------------
(***************************************************************************)
(* What a walk along the list of waiters finds (WakeupProofs and SemClient-*)
(* Proofs speak of some sequence that is on the list; v_ilist_for_each is  *)
(* the program that reads it off the links), and from that that tasks are  *)
(* woken in the order they went to sleep.                                  *)
(***************************************************************************)
EXTENDS WakeupProofs, WellFoundedInduction

\* A step is for Zenon unless it names the SMT solver.
USE ZenonT(60)

USE ClientAssumption

-----------------------------------------------------------------------------

(* ------------------------------ v_ilist_for_each ------------------------ *)

\* w is what next leads through, from head and back to it.
Chain(L, head, w) ==
    /\ L.next[head] = IF w = <<>> THEN head ELSE w[1]
    /\ \A i \in 1..Len(w) : w[i] # head /\ L.next[w[i]] = IF i = Len(w) THEN head ELSE w[i + 1]

\* A set of numbers has a least one: the induction of the next lemma.
LEMMA NatMin == ASSUME NEW S, S \subseteq Nat, S # {} PROVE \E n \in S : \A m \in S : n <= m
<1>0. IsWellFoundedOn({ss \in Nat \X Nat : ss[1] < ss[2]}, Nat)
  BY NatLessThanWellFounded DEF OpToRel
<1>1. PICK n \in S : \A m \in S : ~(<<m, n>> \in {ss \in Nat \X Nat : ss[1] < ss[2]})
  BY <1>0, WFMin
<1>2. \A m \in S : ~(m < n)
  BY <1>1
<1>. QED
  BY SMTT(30), <1>2

\* The walk of v_ilist_for_each visits the nodes of a chain, in their order:
\* after k steps it has the first k of them.
LEMMA WalkOfChain ==
    ASSUME NEW T, NEW w \in Seq(T), NEW L, NEW head, Chain(L, head, w), NEW bound \in Nat, Len(w) <= bound
    PROVE  v_ilist_for_each(L, head, bound) = w
<1>. DEFINE After(v) == L.next[IF v = <<>> THEN head ELSE v[Len(v)]]
            Grow(v, k) == IF After(v) = head \/ Len(v) < k - 1 THEN v ELSE Append(v, After(v))
            Body(g, k) == IF k = 0 THEN <<>> ELSE Grow(g[k - 1], k)
            pre(k) == [i \in 1..(IF k <= Len(w) THEN k ELSE Len(w)) |-> w[i]]
            f == [k \in 0..bound |-> pre(k)]
<1>1. v_ilist_for_each(L, head, bound) = (CHOOSE g : g = [k \in 0..bound |-> Body(g, k)])[bound]
  BY DEF v_ilist_for_each
<1>2. \A k \in Nat : /\ pre(k) \in Seq(T)
                     /\ Len(pre(k)) = IF k <= Len(w) THEN k ELSE Len(w)
                     /\ \A i \in 1..Len(pre(k)) : pre(k)[i] = w[i]
  BY SMTT(30)
<1>3. \A k \in Nat : k < Len(w) => Append(pre(k), w[k + 1]) = pre(k + 1)
  BY SMTT(30)
<1>4. pre(0) = <<>> /\ \A k \in Nat : k >= Len(w) => pre(k) = w
  BY SMTT(30)
<1>. HIDE DEF pre
<1>5. ASSUME NEW k \in 1..bound PROVE Grow(pre(k - 1), k) = pre(k)
  <2>1. CASE k <= Len(w)
    <3>0. k - 1 \in Nat /\ k - 1 <= Len(w)
      BY SMTT(30), <2>1
    <3>1. Len(pre(k - 1)) = k - 1 /\ pre(k - 1) \in Seq(T)
      BY <3>0, <1>2
    <3>2. After(pre(k - 1)) = w[k]
      <4>1. CASE k = 1
        BY SMTT(30), <2>1, <4>1, <1>4 DEF Chain
      <4>2. CASE k > 1
        <5>1. pre(k - 1) # <<>> /\ pre(k - 1)[k - 1] = w[k - 1]
          BY SMTT(30), <3>1, <4>2, <1>2
        <5>. QED
          BY SMTT(30), <2>1, <3>1, <4>2, <5>1 DEF Chain
      <4>. QED
        BY SMTT(30), <4>1, <4>2
    <3>3. w[k] # head
      BY SMTT(30), <2>1 DEF Chain
    <3>4. Append(pre(k - 1), w[k]) = pre(k)
      BY SMTT(30), <2>1, <1>3
    <3>. QED
      BY SMTT(30), <3>1, <3>2, <3>3, <3>4
  <2>2. CASE k > Len(w)
    <3>1. pre(k - 1) = w /\ pre(k) = w
      BY SMTT(30), <2>2, <1>4
    <3>2. After(w) = head
      BY SMTT(30) DEF Chain
    <3>. QED
      BY <3>1, <3>2
  <2>. QED
    BY SMTT(30), <2>1, <2>2
<1>. HIDE DEF Grow
<1>6. ASSUME NEW k \in 0..bound PROVE Body(f, k) = pre(k)
  <2>1. CASE k = 0
    BY <2>1, <1>4
  <2>2. CASE k # 0
    <3>1. k \in 1..bound /\ f[k - 1] = pre(k - 1)
      BY SMTT(30), <2>2
    <3>. QED
      BY SMTT(30), <3>1, <1>5
  <2>. QED
    BY <2>1, <2>2
<1>7. f = [k \in 0..bound |-> Body(f, k)]
  BY <1>6
<1>8. ASSUME NEW g, g = [k \in 0..bound |-> Body(g, k)] PROVE g[bound] = w
  <2>. DEFINE Bad == {k \in 0..bound : g[k] # pre(k)}
  <2>1. ASSUME Bad # {} PROVE FALSE
    <3>1. PICK k \in Bad : \A m \in Bad : k <= m
      <4>1. Bad \subseteq Nat
        BY SMTT(30)
      <4>. QED
        BY <2>1, <4>1, NatMin
    <3>2. g[k] = Body(g, k)
      BY <1>8
    <3>3. k # 0
      BY <3>1, <3>2, <1>4
    <3>4. g[k - 1] = pre(k - 1)
      BY SMTT(30), <3>1, <3>3
    <3>. QED
      BY SMTT(30), <3>1, <3>2, <3>3, <3>4, <1>5
  <2>2. g[bound] = pre(bound)
    BY SMTT(30), <2>1
  <2>. QED
    BY <2>2, <1>4
<1>. HIDE DEF f, Body
<1>. QED
  BY <1>1, <1>7, <1>8

-----------------------------------------------------------------------------

\* The forward links through s and the tasks of w are what v_ilist_for_each
\* walks along; they are right at every access, also during a removal.
LEMMA ListChain ==
    ASSUME NEW s \in Sems, NEW w \in Seq(Tasks), List(s, w)
    PROVE  Chain(links, s, w)
<1>1. links.next[Node(s, w, 0)] = Node(s, w, 0 + 1)
  BY SMTT(30) DEF List, Ring
<1>2. ASSUME NEW i \in 1..Len(w)
      PROVE  w[i] # s /\ links.next[w[i]] = IF i = Len(w) THEN s ELSE w[i + 1]
  <2>1. links.next[Node(s, w, i)] = Node(s, w, i + 1)
    BY SMTT(30) DEF List, Ring
  <2>. QED
    BY SMTT(30), <2>1 DEF Node, AllTasks
<1>. QED
  BY SMTT(30), <1>1, <1>2 DEF Chain, Node

\* A list without duplicates is no longer than the bound of the walk.
LEMMA ListBound ==
    ASSUME IsFiniteSet(Tasks), IsFiniteSet(Sems), NEW w \in Seq(Tasks),
           \A i, j \in 1..Len(w) : w[i] = w[j] => i = j
    PROVE  Cardinality(Nodes) \in Nat /\ Len(w) <= Cardinality(Nodes)
<1>1. IsFiniteSet(Nodes)
  <2>1. IsFiniteSet(AllTasks)
    BY FS_AddElement DEF AllTasks
  <2>. QED
    BY <2>1, FS_Union DEF Nodes
<1>2. Tasks \in SUBSET Nodes
  BY DEF Nodes, AllTasks
<1>3. w \in Injection(1..Len(w), Tasks)
  BY SMTT(30) DEF Injection, IsInjective
<1>4. Cardinality(1..Len(w)) = Len(w)
  <2>1. Len(w) \in Int /\ 1 \in Int /\ Len(w) >= 0
    BY SMTT(30)
  <2>2. Cardinality(1..Len(w)) = IF 1 > Len(w) THEN 0 ELSE Len(w) - 1 + 1
    BY <2>1, FS_Interval
  <2>. QED
    BY SMTT(30), <2>1, <2>2
<1>5. Cardinality(1..Len(w)) <= Cardinality(Tasks)
  BY <1>3, FS_Injection
<1>6. Cardinality(Tasks) <= Cardinality(Nodes) /\ Cardinality(Tasks) \in Nat /\ Cardinality(Nodes) \in Nat
  BY <1>1, <1>2, FS_Subset, FS_CardinalityType
<1>. QED
  BY SMTT(30), <1>4, <1>5, <1>6

\* The walk over the waiters of s visits exactly the tasks of its list.
LEMMA WaitersAre ==
    ASSUME IsFiniteSet(Tasks), IsFiniteSet(Sems), NEW s \in Sems, NEW w \in Seq(Tasks), List(s, w)
    PROVE  Waiters(s) = w
<1>1. Cardinality(Nodes) \in Nat /\ Len(w) <= Cardinality(Nodes)
  BY ListBound DEF List, Members
<1>. QED
  BY <1>1, ListChain, WalkOfChain DEF Waiters

\* A walk ends because there are finitely many nodes.
Finite == IsFiniteSet(Tasks) /\ IsFiniteSet(Sems)

\* Who is on a list sleeps on that semaphore, and is nobody's to wake yet.
LEMMA ListMember ==
    ASSUME NEW s \in Sems, NEW w \in Seq(Tasks), List(s, w), NEW i \in 1..Len(w)
    PROVE  w[i] \in Tasks /\ w[i] \in Nodes /\ w[i] \notin Sems /\ Sleeps(w[i], s) /\ ~Taken(w[i], s)
<1>1. w[i] \in Tasks /\ On(w, w[i])
  BY SMTT(30) DEF On
<1>. QED
  BY <1>1 DEF List, Members, Nodes, AllTasks

(* ---------------------- the stores of sem_pend and sem_post -------------- *)

\* sem_pend's v_ilist_prepend puts the task between the last waiter and the
\* semaphore.
LEMMA SleepLinks ==
    ASSUME Inv, NEW t \in Tasks, t = current, TaskOf(t) = t, PendSleep(t),
           NEW s \in Sems, op[t].s = s, NEW w \in Seq(Tasks), List(s, w)
    PROVE  /\ \A n \in Nodes : links'.next[n] = IF n = t THEN s ELSE IF n = Node(s, w, Len(w)) THEN t
                                                ELSE links.next[n]
           /\ \A n \in Nodes : links'.prev[n] = IF n = s THEN t ELSE IF n = t THEN Node(s, w, Len(w))
                                                ELSE links.prev[n]
<1>. USE DEF Inv
<1>1. ~Unlinking(s)
  BY DEF Unlinking, Serial, PendSleep
<1>2. links.prev[s] = Node(s, w, Len(w))
  BY <1>1 DEF List, Ring
<1>. QED
  BY <1>2 DEF PendSleep, v_ilist_prepend, V_ILIST_LINK, SyncTypeOK, Nodes, AllTasks

\* The first store of a removal takes the first waiter out of the forward links.
LEMMA NextLinks ==
    ASSUME Inv, NEW t \in Tasks, t = current, PostNext(t),
           NEW s \in Sems, op[t].s = s, NEW w \in Seq(Tasks), List(s, w)
    PROVE  /\ Len(w) > 0 /\ op[t].w = w[1]
           /\ \A n \in Nodes : links'.next[n] = IF n = s THEN Node(s, w, 2) ELSE links.next[n]
           /\ links'.prev = links.prev
<1>. USE DEF Inv
<1>1. Len(w) > 0 /\ op[t].w = w[1] /\ op[t].prev = s /\ op[t].next = Node(s, w, 2)
  BY DEF List, Removal, PostNext
<1>. QED
  BY <1>1 DEF PostNext, SyncTypeOK, Nodes

\* The second store makes the next waiter point back at the semaphore.
LEMMA PrevLinks ==
    ASSUME Inv, NEW t \in Tasks, t = current, PostPrev(t),
           NEW s \in Sems, op[t].s = s, NEW w \in Seq(Tasks), List(s, w)
    PROVE  /\ links'.next = links.next
           /\ \A n \in Nodes : links'.prev[n] = IF n = Node(s, w, 1) THEN s ELSE links.prev[n]
<1>. USE DEF Inv
<1>1. op[t].prev = s /\ op[t].next = Node(s, w, 1)
  BY DEF List, Removal, PostPrev
<1>2. Node(s, w, 1) \in Nodes
  BY ListMember DEF Node, Nodes
<1>. QED
  BY <1>1, <1>2 DEF PostPrev, SyncTypeOK

\* The last store makes the node that was taken off a ring of its own.
LEMMA SelfLinks ==
    ASSUME Inv, NEW t \in Tasks, t = current, PostSelf(t), NEW s \in Sems, op[t].s = s
    PROVE  /\ op[t].w \in Tasks /\ Sleeps(op[t].w, s) /\ Taken(op[t].w, s)
           /\ \A n \in Nodes : /\ links'.next[n] = IF n = op[t].w THEN n ELSE links.next[n]
                               /\ links'.prev[n] = IF n = op[t].w THEN n ELSE links.prev[n]
<1>. USE DEF Inv
<1>1. PICK w \in Seq(Tasks) : List(s, w)
  BY DEF Lists
<1>2. op[t].at \in Late
  BY DEF PostSelf, Late
<1>3. op[t].w \in Tasks /\ Sleeps(op[t].w, s) /\ Taken(op[t].w, s)
  BY <1>1, <1>2, TakenOne
<1>. QED
  BY <1>3 DEF PostSelf, SyncTypeOK

-----------------------------------------------------------------------------

\* The rest of the backward links, those of the second node and on.
Back(s, w) == \A i \in 2..Len(w) : links.prev[w[i]] = w[i - 1]

\* A list no node of which a step has touched.
LEMMA OrderFrame ==
    ASSUME Finite, NEW s \in Sems, NEW w \in Seq(Tasks), List(s, w), Back(s, w),
           links'.next[s] = links.next[s],
           \A i \in 1..Len(w) : links'.next[w[i]] = links.next[w[i]],
           \A i \in 2..Len(w) : links'.prev[w[i]] = links.prev[w[i]]
    PROVE  Waiters(s)' = w /\ Back(s, w)'
<1>1. Chain(links', s, w)
  BY SMTT(30), ListChain DEF Chain
<1>2. Cardinality(Nodes) \in Nat /\ Len(w) <= Cardinality(Nodes)
  BY ListBound DEF List, Members, Finite
<1>3. Waiters(s)' = w
  BY <1>1, <1>2, WalkOfChain DEF Waiters
<1>. QED
  BY <1>3 DEF Back

\* A sleeper goes to the end.
LEMMA OrderSleep ==
    ASSUME Finite, Inv, NEW t \in Tasks, t = current, TaskOf(t) = t, state[t] = "runnable", PendSleep(t),
           NEW s \in Sems, op[t].s = s, NEW w \in Seq(Tasks), List(s, w), Back(s, w)
    PROVE  Waiters(s)' = Append(w, t) /\ Back(s, Append(w, t))'
<1>. DEFINE v == Append(w, t)
<1>1. /\ v \in Seq(Tasks) /\ Len(v) = Len(w) + 1 /\ Len(w) \in Nat /\ v # <<>>
      /\ v[Len(w) + 1] = t
      /\ \A i \in 1..Len(w) : v[i] = w[i]
  BY SMTT(30)
<1>. HIDE DEF v
<1>2. \A i \in 1..Len(w) : w[i] # t /\ w[i] # s /\ w[i] \in Nodes
  BY SMTT(30), ListMember DEF Sleeps
<1>3. \A i, j \in 1..Len(w) : w[i] = w[j] => i = j
  BY DEF List, Members
<1>4. t \in Nodes /\ s \in Nodes /\ t # s
  BY DEF Nodes, AllTasks
<1>5. Node(s, w, Len(w)) = IF Len(w) = 0 THEN s ELSE w[Len(w)]
  BY SMTT(30) DEF Node
<1>6. Chain(links, s, w)
  BY ListChain
<1>7. Chain(links', s, v)
  <2>1. links'.next[s] = v[1]
    <3>1. CASE Len(w) = 0
      <4>1. Node(s, w, Len(w)) = s /\ v[1] = t
        BY SMTT(30), <1>1, <1>5, <3>1
      <4>. QED
        BY SMTT(30), <1>4, <4>1, SleepLinks
    <3>2. CASE Len(w) # 0
      <4>1. w[Len(w)] # s /\ w # <<>> /\ v[1] = w[1]
        BY SMTT(30), <1>1, <1>2, <3>2
      <4>2. links'.next[s] = links.next[s]
        BY SMTT(30), <1>4, <1>5, <3>2, <4>1, SleepLinks
      <4>. QED
        BY <1>6, <4>1, <4>2 DEF Chain
    <3>. QED
      BY <3>1, <3>2
  <2>2. ASSUME NEW i \in 1..Len(v) PROVE v[i] # s /\ links'.next[v[i]] = IF i = Len(v) THEN s ELSE v[i + 1]
    <3>1. CASE i = Len(v)
      <4>1. v[i] = t
        BY <1>1, <3>1
      <4>2. links'.next[t] = s
        BY <1>4, SleepLinks
      <4>. QED
        BY <1>4, <3>1, <4>1, <4>2
    <3>2. CASE i = Len(w)
      <4>1. /\ v[i] = w[i] /\ w[i] = Node(s, w, Len(w)) /\ w[i] # t /\ w[i] # s /\ w[i] \in Nodes
            /\ v[i + 1] = t /\ i # Len(v)
        BY SMTT(30), <1>1, <1>2, <1>5, <3>2
      <4>2. links'.next[w[i]] = t
        BY SMTT(30), <4>1, SleepLinks
      <4>. QED
        BY <4>1, <4>2
    <3>3. CASE i \in 1..Len(w) - 1
      <4>1. i \in 1..Len(w) /\ i + 1 \in 1..Len(w) /\ i # Len(w) /\ i # Len(v) /\ Len(w) \in 1..Len(w)
        BY SMTT(30), <1>1, <3>3
      <4>2. v[i] = w[i] /\ v[i + 1] = w[i + 1] /\ w[i] # t /\ w[i] # s /\ w[i] # w[Len(w)] /\ w[i] \in Nodes
        BY <1>1, <1>2, <1>3, <4>1
      <4>3. links'.next[w[i]] = links.next[w[i]]
        BY SMTT(30), <1>5, <4>1, <4>2, SleepLinks
      <4>4. links.next[w[i]] = w[i + 1]
        BY <1>6, <4>1 DEF Chain
      <4>. QED
        BY <4>1, <4>2, <4>3, <4>4
    <3>. QED
      BY SMTT(30), <1>1, <3>1, <3>2, <3>3
  <2>. QED
    BY <1>1, <2>1, <2>2 DEF Chain
<1>8. Cardinality(Nodes) \in Nat /\ Len(v) <= Cardinality(Nodes)
  <2>1. \A i, j \in 1..Len(v) : v[i] = v[j] => i = j
    <3>. TAKE i, j \in 1..Len(v)
    <3>1. i \in 1..Len(w) \/ i = Len(w) + 1
      BY SMTT(30), <1>1
    <3>2. j \in 1..Len(w) \/ j = Len(w) + 1
      BY SMTT(30), <1>1
    <3>. QED
      BY <1>1, <1>2, <1>3, <3>1, <3>2
  <2>. QED
    BY <1>1, <2>1, ListBound DEF Finite
<1>9. Waiters(s)' = v
  BY SMTT(30), <1>1, <1>7, <1>8, WalkOfChain DEF Waiters
<1>10. ASSUME NEW i \in 2..Len(v) PROVE links'.prev[v[i]] = v[i - 1]
  <2>1. CASE i = Len(v)
    <3>1. v[i] = t /\ i - 1 = Len(w) /\ Len(w) # 0 /\ v[i - 1] = w[Len(w)]
      BY SMTT(30), <1>1, <2>1
    <3>2. links'.prev[t] = w[Len(w)]
      BY SMTT(30), <1>4, <1>5, <3>1, SleepLinks
    <3>. QED
      BY <3>1, <3>2
  <2>2. CASE i # Len(v)
    <3>1. i \in 1..Len(w) /\ i \in 2..Len(w) /\ i - 1 \in 1..Len(w)
      BY SMTT(30), <1>1, <2>2
    <3>2. v[i] = w[i] /\ v[i - 1] = w[i - 1] /\ w[i] # t /\ w[i] # s /\ w[i] \in Nodes
      BY <1>1, <1>2, <3>1
    <3>3. links'.prev[w[i]] = links.prev[w[i]]
      BY SMTT(30), <3>2, SleepLinks
    <3>. QED
      BY <3>1, <3>2, <3>3 DEF Back
  <2>. QED
    BY <2>1, <2>2
<1>. QED
  BY <1>9, <1>10 DEF Back, v

\* The first sleeper is taken off.
LEMMA OrderNext ==
    ASSUME Finite, Inv, NEW t \in Tasks, t = current, PostNext(t),
           NEW s \in Sems, op[t].s = s, NEW w \in Seq(Tasks), List(s, w), Back(s, w)
    PROVE  w # <<>> /\ Waiters(s)' = Tail(w) /\ Back(s, Tail(w))'
<1>. DEFINE v == Tail(w)
<1>0. Len(w) > 0
  BY NextLinks
<1>1. /\ v \in Seq(Tasks) /\ Len(v) = Len(w) - 1 /\ Len(w) \in Nat /\ w # <<>>
      /\ \A i \in 1..Len(v) : v[i] = w[i + 1] /\ i + 1 \in 1..Len(w)
      /\ (v = <<>> <=> Len(w) = 1)
  <2>1. w # <<>> /\ Len(w) \in Nat
    BY SMTT(30), <1>0
  <2>2. v \in Seq(Tasks) /\ Len(v) = Len(w) - 1
    BY SMTT(30), <2>1
  <2>3. \A i \in 1..Len(v) : v[i] = w[i + 1] /\ i + 1 \in 1..Len(w)
    BY SMTT(30), <2>1, <2>2
  <2>. HIDE DEF v
  <2>4. v = <<>> <=> Len(w) = 1
    BY SMTT(30), <2>1, <2>2
  <2>. QED
    BY <2>1, <2>2, <2>3, <2>4
<1>. HIDE DEF v
<1>2. \A i \in 1..Len(w) : w[i] # s /\ w[i] \in Nodes
  BY ListMember
<1>3. s \in Nodes
  BY DEF Nodes
<1>4. \A i \in 1..Len(w) : links'.next[w[i]] = links.next[w[i]] /\ links'.prev[w[i]] = links.prev[w[i]]
  BY SMTT(30), <1>2, NextLinks
<1>5. links'.next[s] = IF v = <<>> THEN s ELSE v[1]
  <2>1. Node(s, w, 2) = IF v = <<>> THEN s ELSE v[1]
    BY SMTT(30), <1>0, <1>1 DEF Node
  <2>. QED
    BY SMTT(30), <1>3, <2>1, NextLinks
<1>6. Chain(links', s, v)
  <2>1. ASSUME NEW i \in 1..Len(v) PROVE v[i] # s /\ links'.next[v[i]] = IF i = Len(v) THEN s ELSE v[i + 1]
    <3>1. v[i] = w[i + 1] /\ i + 1 \in 1..Len(w) /\ (i = Len(v) <=> i + 1 = Len(w))
      BY SMTT(30), <1>1
    <3>2. links.next[w[i + 1]] = IF i + 1 = Len(w) THEN s ELSE w[(i + 1) + 1]
      BY SMTT(30), <3>1, ListChain DEF Chain
    <3>3. i # Len(v) => v[i + 1] = w[(i + 1) + 1]
      BY SMTT(30), <1>1
    <3>. QED
      BY <1>2, <1>4, <3>1, <3>2, <3>3
  <2>. QED
    BY <1>5, <2>1 DEF Chain
<1>7. Cardinality(Nodes) \in Nat /\ Len(v) <= Cardinality(Nodes)
  <2>1. Cardinality(Nodes) \in Nat /\ Len(w) <= Cardinality(Nodes)
    BY ListBound DEF List, Members, Finite
  <2>. QED
    BY SMTT(30), <1>1, <2>1
<1>8. Waiters(s)' = v
  BY SMTT(30), <1>1, <1>6, <1>7, WalkOfChain DEF Waiters
<1>9. ASSUME NEW i \in 2..Len(v) PROVE links'.prev[v[i]] = v[i - 1]
  <2>1. /\ i \in 1..Len(v) /\ i - 1 \in 1..Len(v) /\ i + 1 \in 2..Len(w) /\ i + 1 \in 1..Len(w)
        /\ (i - 1) + 1 = i /\ (i + 1) - 1 = i
    BY SMTT(30), <1>1
  <2>2. v[i] = w[i + 1] /\ v[i - 1] = w[i]
    BY <1>1, <2>1
  <2>3. links.prev[w[i + 1]] = w[i]
    BY <2>1 DEF Back
  <2>. QED
    BY <1>4, <2>1, <2>2, <2>3
<1>. QED
  BY <1>1, <1>8, <1>9 DEF Back, v

\* A step's effect on one waiter list, as WokenInOrder states it.
Ordered(s) ==
    \/ Waiters(s)' = Waiters(s)
    \/ Waiters(s) # <<>> /\ Waiters(s)' = Tail(Waiters(s))
    \/ \E t \in Tasks : Waiters(s)' = Append(Waiters(s), t)

\* The links back agree with the walk forth.
BackLinks == \A s \in Sems : Back(s, Waiters(s))

\* Every step of a call keeps the order and the backward links.
LEMMA OrderStep ==
    ASSUME Finite, Inv, BackLinks, NEW t \in Tasks, Runs(t), Begin(t) \/ SemStep(t), NEW r \in Sems
    PROVE  Ordered(r) /\ Back(r, Waiters(r))'
<1>0. t = current /\ state[t] = "runnable" /\ TaskOf(t) = t
  BY RunsCurrent DEF Inv
<1>1. PICK w \in Seq(Tasks) : List(r, w)
  BY DEF Inv, Lists
<1>2. Waiters(r) = w /\ Back(r, w)
  BY <1>1, WaitersAre DEF Finite, BackLinks
<1>3. r \in Nodes /\ t \in Nodes /\ t \notin Sems
  BY DEF Nodes, AllTasks
<1>4. op[t].at # "idle" => op[t].s \in Sems
  BY OpFields DEF Inv
\* The list is left alone.
<1>a. ASSUME links'.next[r] = links.next[r],
             \A i \in 1..Len(w) : links'.next[w[i]] = links.next[w[i]],
             \A i \in 2..Len(w) : links'.prev[w[i]] = links.prev[w[i]]
      PROVE  Ordered(r) /\ Back(r, Waiters(r))'
  <2>1. Waiters(r)' = w /\ Back(r, w)'
    BY <1>1, <1>2, <1>a, OrderFrame
  <2>. QED
    BY <1>2, <2>1 DEF Ordered, Back
<1>5. CASE PendSleep(t)
  <2>. DEFINE s == op[t].s
  <2>1. s \in Sems
    BY <1>4, <1>5 DEF PendSleep
  <2>2. CASE r = s
    <3>1. Waiters(r)' = Append(w, t) /\ Back(r, Append(w, t))'
      BY <1>0, <1>1, <1>2, <1>5, <2>2, OrderSleep
    <3>. QED
      BY <1>2, <3>1 DEF Ordered, Back
  <2>3. CASE r # s
    <3>1. PICK x \in Seq(Tasks) : List(s, x)
      BY <2>1 DEF Inv, Lists
    <3>. DEFINE last == Node(s, x, Len(x))
    <3>2. last = s \/ (last \in Tasks /\ Sleeps(last, s))
      <4>1. CASE Len(x) = 0
        BY SMTT(30), <4>1 DEF Node
      <4>2. CASE Len(x) # 0
        <5>1. Len(x) \in 1..Len(x)
          BY SMTT(30), <4>2
        <5>. QED
          BY <2>1, <3>1, <5>1, ListMember DEF Node
      <4>. QED
        BY <4>1, <4>2
    <3>. HIDE DEF last, s
    <3>3. \A i \in 1..Len(w) : w[i] # t /\ w[i] # s /\ w[i] # last /\ w[i] \in Nodes
      BY SMTT(30), <1>0, <1>1, <2>1, <2>3, <3>2, ListMember DEF Sleeps
    <3>4. r # t /\ r # last
      BY <1>3, <2>3, <3>2 DEF AllTasks
    <3>5. \A n \in Nodes : n # t /\ n # s /\ n # last =>
             links'.next[n] = links.next[n] /\ links'.prev[n] = links.prev[n]
      BY SMTT(30), <1>0, <1>5, <2>1, <3>1, SleepLinks DEF s, last
    <3>. QED
      BY SMTT(30), <1>3, <1>a, <2>3, <3>3, <3>4, <3>5
  <2>. QED
    BY <2>2, <2>3
<1>6. CASE PostNext(t)
  <2>. DEFINE s == op[t].s
  <2>1. s \in Sems
    BY <1>4, <1>6 DEF PostNext
  <2>2. CASE r = s
    <3>1. w # <<>> /\ Waiters(r)' = Tail(w) /\ Back(r, Tail(w))'
      BY <1>0, <1>1, <1>2, <1>6, <2>2, OrderNext
    <3>. QED
      BY <1>2, <3>1 DEF Ordered, Back
  <2>3. CASE r # s
    <3>1. PICK x \in Seq(Tasks) : List(s, x)
      BY <2>1 DEF Inv, Lists
    <3>2. links'.prev = links.prev /\ \A n \in Nodes : n # s => links'.next[n] = links.next[n]
      BY SMTT(30), <1>0, <1>6, <2>1, <3>1, NextLinks
    <3>3. \A i \in 1..Len(w) : w[i] \notin Sems /\ w[i] \in Nodes
      BY <1>1, ListMember
    <3>. QED
      BY <1>3, <1>a, <2>1, <2>3, <3>2, <3>3
  <2>. QED
    BY <2>2, <2>3
<1>7. CASE PostPrev(t)
  <2>. DEFINE s == op[t].s
  <2>1. s \in Sems
    BY <1>4, <1>7 DEF PostPrev
  <2>2. PICK x \in Seq(Tasks) : List(s, x)
    BY <2>1 DEF Inv, Lists
  <2>3. links'.next = links.next /\ \A n \in Nodes : n # Node(s, x, 1) => links'.prev[n] = links.prev[n]
    BY SMTT(30), <1>0, <1>7, <2>1, <2>2, PrevLinks
  <2>4. ASSUME NEW i \in 2..Len(w) PROVE w[i] \in Nodes /\ w[i] # Node(s, x, 1)
    <3>1. i \in 1..Len(w) /\ 1 \in 1..Len(w) /\ i # 1
      BY SMTT(30)
    <3>2. w[i] \in Nodes /\ w[i] \notin Sems /\ Sleeps(w[i], r) /\ On(w, w[i])
      BY <1>1, <3>1, ListMember DEF On
    <3>3. CASE r = s
      <4>1. x = w
        BY <1>1, <1>2, <2>2, <3>3, WaitersAre DEF Finite
      <4>2. w[i] # w[1]
        BY <1>1, <3>1 DEF List, Members
      <4>. QED
        BY <2>1, <3>1, <3>2, <4>1, <4>2 DEF Node
    <3>4. CASE r # s
      <4>1. \A j \in 1..Len(x) : x[j] # w[i]
        BY SMTT(30), <2>1, <2>2, <3>2, <3>4, ListMember DEF Sleeps
      <4>. QED
        BY <2>1, <3>2, <4>1 DEF Node
    <3>. QED
      BY <3>3, <3>4
  <2>. QED
    BY <1>a, <2>3, <2>4
<1>8. CASE PostSelf(t)
  <2>1. op[t].s \in Sems
    BY <1>4, <1>8 DEF PostSelf
  <2>2. /\ Sleeps(op[t].w, op[t].s) /\ Taken(op[t].w, op[t].s) /\ op[t].w \in Tasks
        /\ \A n \in Nodes : n # op[t].w => links'.next[n] = links.next[n] /\ links'.prev[n] = links.prev[n]
    BY <1>0, <1>8, <2>1, SelfLinks
  <2>3. \A i \in 1..Len(w) : w[i] \in Nodes /\ w[i] # op[t].w
    BY SMTT(30), <1>1, <2>2, ListMember DEF Sleeps
  <2>4. r # op[t].w
    BY <2>2 DEF AllTasks
  <2>. QED
    BY SMTT(30), <1>3, <1>a, <2>2, <2>3, <2>4
<1>9. CASE links' = links
  BY <1>9, <1>a
<1>10. links' = links \/ PendSleep(t) \/ PostNext(t) \/ PostPrev(t) \/ PostSelf(t)
  BY DEF SemStep, Begin, PendRead, PendCas, PostInc, PostTest, PostFirst, PostLoad, PostWake
<1>. QED
  BY <1>5, <1>6, <1>7, <1>8, <1>9, <1>10

\* The timer and stuttering leave the links alone.
LEMMA OrderNextStep ==
    ASSUME Finite, Inv, BackLinks, [Next]_syncVars, NEW r \in Sems
    PROVE  Ordered(r) /\ Back(r, Waiters(r))'
<1>1. CASE UNCHANGED links
  BY <1>1 DEF Ordered, BackLinks, Back, Waiters
<1>2. ASSUME NEW t \in Tasks, Runs(t), Begin(t) \/ SemStep(t) PROVE Ordered(r) /\ Back(r, Waiters(r))'
  BY <1>2, OrderStep
<1>. QED
  BY <1>1, <1>2 DEF Next, Preempt, syncVars

\* At first every list is empty.
LEMMA BackInit == ASSUME Finite, Init PROVE BackLinks
<1>. SUFFICES ASSUME NEW s \in Sems PROVE Back(s, Waiters(s))
  BY DEF BackLinks
<1>1. links.next[s] = s
  BY DEF Init, SyncInit, v_ilist_init, Nodes
<1>2. PICK w \in Seq(Tasks) : w = <<>>
  <2>1. <<>> \in Seq(Tasks)
    BY SMTT(30)
  <2>. QED
    BY <2>1
<1>3. Len(w) = 0 /\ \A i, j \in 1..Len(w) : w[i] = w[j] => i = j
  BY SMTT(30), <1>2
<1>4. Chain(links, s, w)
  BY SMTT(30), <1>1, <1>2, <1>3 DEF Chain
<1>5. Cardinality(Nodes) \in Nat /\ Len(w) <= Cardinality(Nodes)
  BY <1>3, ListBound DEF Finite
<1>6. Waiters(s) = w
  BY <1>4, <1>5, WalkOfChain DEF Waiters
<1>. QED
  BY SMTT(30), <1>3, <1>6 DEF Back

\* Every step keeps the backward links.
LEMMA BackNext == ASSUME Finite, Inv, BackLinks, [Next]_syncVars PROVE BackLinks'
BY OrderNextStep DEF BackLinks

\* Sleepers are woken in the order they went to sleep: a step leaves a waiter
\* list as it is, takes its first task off or adds one at its end, although
\* sem_pend and sem_post change it one store at a time.
THEOREM WokenFirstInFirstOut == ASSUME InterruptsOff, IsFiniteSet(Sems) PROVE Spec => WokenInOrder
<1>1. Finite
  BY DEF Finite, InterruptsOff
<1>2. Init => BackLinks
  BY <1>1, BackInit
<1>3. Inv /\ BackLinks /\ [Next]_syncVars => BackLinks'
  BY <1>1, BackNext
<1>4. Inv /\ BackLinks /\ [Next]_syncVars =>
        [\A s \in Sems :
          \/ Waiters(s)' = Waiters(s)
          \/ Waiters(s) # <<>> /\ Waiters(s)' = Tail(Waiters(s))
          \/ \E t \in Tasks : Waiters(s)' = Append(Waiters(s), t)]_syncVars
  BY <1>1, OrderNextStep DEF Ordered
<1>. QED
  BY <1>2, <1>3, <1>4, WaitersOnList, PTL DEF Spec, WokenInOrder

-----------------------------------------------------------------------------

(* ------------------------- nodes that are on no list --------------------- *)

Single(n) == links.next[n] = n /\ links.prev[n] = n

\* Nodes on no list are rings of their own, and so is a task about to be woken.
Alone ==
    /\ \A n \in AllTasks : n = Idle \/ state[n] = "runnable" => Single(n)
    /\ \A u \in Tasks : op[u].at = "v_wake" => Single(op[u].w)

\* v_ilist_init makes every node a ring of its own.
LEMMA AloneInit == Init => Alone
BY SMTT(30) DEF Init, SyncInit, Alone, Single, v_ilist_init, Nodes, AllTasks, NoOp, Contexts

\* A step of a call keeps it: only the last store of a removal makes a node
\* single that was not, and only tasks with such a node are made runnable.
LEMMA AloneStep ==
    ASSUME Inv, Alone, NEW t \in Tasks, Runs(t), Begin(t) \/ SemStep(t)
    PROVE  Alone'
<1>0. t = current /\ state[t] = "runnable" /\ TaskOf(t) = t
  BY RunsCurrent DEF Inv
<1>3. AllTasks \subseteq Nodes /\ t \in AllTasks /\ t # Idle /\ Idle \in AllTasks /\ AllTasks \cap Sems = {}
  BY DEF Nodes, AllTasks
<1>4. op[t].at # "idle" => op[t].s \in Sems
  BY OpFields DEF Inv
<1>5. \A u \in Tasks \ {t} : op[u].at # "v_wake"
  BY <1>0 DEF Inv, Serial
<1>6. \A u \in Tasks \ {t} : op'[u] = op[u]
  <2>1. PICK o : Goto(t, o)
    BY DEF SemStep, Begin, PendRead, PendCas, PendSleep, Missed, PostInc, PostTest, PostFirst, PostLoad,
           PostNext, PostPrev, PostSelf, PostWake
  <2>. QED
    BY <2>1, OpStep DEF Inv
\* The steps that store no link and wake nobody.
<1>a. ASSUME op'[t].at # "v_wake", UNCHANGED <<links, state>> PROVE Alone'
  BY <1>5, <1>6, <1>a DEF Alone, Single
<1>7. CASE PendSleep(t)
  <2>. DEFINE s == op[t].s
  <2>1. s \in Sems
    BY <1>4, <1>7 DEF PendSleep
  <2>2. PICK x \in Seq(Tasks) : List(s, x)
    BY <2>1 DEF Inv, Lists
  <2>. DEFINE last == Node(s, x, Len(x))
  <2>3. last = s \/ (last \in Tasks /\ Sleeps(last, s))
    <3>1. CASE Len(x) = 0
      BY SMTT(30), <3>1 DEF Node
    <3>2. CASE Len(x) # 0
      <4>1. Len(x) \in 1..Len(x)
        BY SMTT(30), <3>2
      <4>. QED
        BY <2>1, <2>2, <4>1, ListMember DEF Node
    <3>. QED
      BY <3>1, <3>2
  <2>. HIDE DEF s, last
  <2>4. \A n \in Nodes : n # t /\ n # s /\ n # last =>
           links'.next[n] = links.next[n] /\ links'.prev[n] = links.prev[n]
    <3>1. \A n \in Nodes : links'.next[n] = IF n = t THEN s ELSE IF n = last THEN t ELSE links.next[n]
      BY SMTT(30), <1>0, <1>7, <2>1, <2>2, SleepLinks DEF s, last
    <3>2. \A n \in Nodes : links'.prev[n] = IF n = s THEN t ELSE IF n = t THEN last ELSE links.prev[n]
      BY SMTT(30), <1>0, <1>7, <2>1, <2>2, SleepLinks DEF s, last
    <3>. QED
      BY <3>1, <3>2
  <2>5. op'[t].at = "p_read"
    BY SMTT(30), <1>7, OpStep DEF PendSleep, PendOp, Inv
  <2>6. state' = [state EXCEPT ![t] = "wait_semaphore"]
    BY <1>0, <1>7 DEF PendSleep
  <2>7. state'[t] = "wait_semaphore" /\ \A n \in AllTasks \ {t} : state'[n] = state[n]
    BY <1>3, <2>6 DEF Inv, SyncTypeOK
  <2>8. ASSUME NEW n \in AllTasks, n = Idle \/ state'[n] = "runnable" PROVE Single(n)'
    <3>1. n # t
      BY <1>3, <2>7, <2>8
    <3>2. n = Idle \/ state[n] = "runnable"
      BY <2>7, <2>8, <3>1
    <3>3. n # s /\ n # last /\ n \in Nodes
      BY <1>3, <2>1, <2>3, <3>2 DEF Sleeps
    <3>. QED
      BY <2>4, <3>1, <3>2, <3>3 DEF Alone, Single
  <2>. QED
    BY <1>5, <1>6, <2>5, <2>8 DEF Alone
<1>8. CASE PostNext(t)
  <2>. DEFINE s == op[t].s
  <2>1. s \in Sems
    BY <1>4, <1>8 DEF PostNext
  <2>2. PICK x \in Seq(Tasks) : List(s, x)
    BY <2>1 DEF Inv, Lists
  <2>3. links'.prev = links.prev /\ \A n \in Nodes : n # s => links'.next[n] = links.next[n]
    BY SMTT(30), <1>0, <1>8, <2>1, <2>2, NextLinks
  <2>4. op'[t].at = "v_prev" /\ state' = state
    <3>1. op[t] \in OpType /\ op[t].at = "v_next"
      BY <1>8 DEF PostNext, Inv, SyncTypeOK, Contexts
    <3>2. op'[t] = [op[t] EXCEPT !.at = "v_prev"]
      BY <1>8, OpStep DEF PostNext, Inv
    <3>3. op[t] \in [at : {"v_next", "v_prev"}, s : Sems, w : Nodes, prev : Nodes, next : Nodes]
      BY SMTT(30), <3>1 DEF OpType, NoOp
    <3>. QED
      BY <1>8, <3>2, <3>3 DEF PostNext
  <2>. HIDE DEF s
  <2>5. \A n \in AllTasks : Single(n) => Single(n)'
    BY <1>3, <2>1, <2>3 DEF Single
  <2>. QED
    BY <1>5, <1>6, <2>4, <2>5 DEF Alone
<1>9. CASE PostPrev(t)
  <2>. DEFINE s == op[t].s
  <2>1. s \in Sems
    BY <1>4, <1>9 DEF PostPrev
  <2>2. PICK x \in Seq(Tasks) : List(s, x)
    BY <2>1 DEF Inv, Lists
  <2>. DEFINE first == Node(s, x, 1)
  <2>3. links'.next = links.next /\ \A n \in Nodes : n # first => links'.prev[n] = links.prev[n]
    BY <1>0, <1>9, <2>1, <2>2, PrevLinks
  <2>4. op'[t].at = "v_self" /\ state' = state
    BY SMTT(30), <1>9, OpStep DEF PostPrev, Inv
  <2>5. first = s \/ (first \in Tasks /\ Sleeps(first, s))
    BY <2>1, <2>2, ListMember DEF Node
  <2>. HIDE DEF s, first
  <2>6. \A n \in AllTasks : n = Idle \/ state[n] = "runnable" => n # first
    BY <1>3, <2>1, <2>5 DEF Sleeps
  <2>7. \A n \in AllTasks : n = Idle \/ state[n] = "runnable" => Single(n)'
    BY <1>3, <2>3, <2>6 DEF Alone, Single
  <2>. QED
    BY <1>5, <1>6, <2>4, <2>7 DEF Alone
<1>10. CASE PostSelf(t)
  <2>1. op[t].s \in Sems
    BY <1>4, <1>10 DEF PostSelf
  <2>2. /\ op[t].w \in Tasks
        /\ \A n \in Nodes : /\ links'.next[n] = IF n = op[t].w THEN n ELSE links.next[n]
                            /\ links'.prev[n] = IF n = op[t].w THEN n ELSE links.prev[n]
    BY <1>0, <1>10, <2>1, SelfLinks
  <2>3. op'[t] = [op[t] EXCEPT !.at = "v_wake"] /\ state' = state
    BY <1>10, OpStep DEF PostSelf, Inv
  <2>4. op'[t].w = op[t].w /\ op'[t].at = "v_wake"
    <3>1. op[t] \in OpType /\ op[t].at = "v_self"
      BY <1>10 DEF PostSelf, Inv, SyncTypeOK, Contexts
    <3>2. op[t] \in [at : {"v_load", "v_self", "v_wake"}, s : Sems, w : Nodes]
      BY SMTT(30), <3>1 DEF OpType, NoOp
    <3>. QED
      BY <2>3, <3>2
  <2>5. op[t].w \in Nodes
    BY <2>2 DEF Nodes, AllTasks
  <2>6. Single(op[t].w)'
    BY <2>2, <2>4, <2>5 DEF Single
  <2>7. \A n \in AllTasks : Single(n) => Single(n)'
    BY <1>3, <2>2 DEF Single
  <2>. QED
    BY <1>5, <1>6, <2>3, <2>6, <2>7 DEF Alone
<1>11. CASE PostWake(t)
  <2>1. op'[t].at = "idle" /\ links' = links
    BY SMTT(30), <1>11, OpStep DEF PostWake, Inv, NoOp
  <2>2. \A n \in AllTasks : state'[n] = IF n = op[t].w THEN "runnable" ELSE state[n]
    BY <1>11 DEF PostWake
  <2>3. Single(op[t].w)
    BY <1>11 DEF PostWake, Alone
  <2>. QED
    BY <1>5, <1>6, <2>1, <2>2, <2>3 DEF Alone, Single
<1>12. CASE Begin(t)
  <2>1. op'[t].at \in {"p_read", "v_inc"}
    BY SMTT(30), <1>12, OpStep DEF Begin, PendOp, PostOp, Inv
  <2>. QED
    BY <1>12, <1>a, <2>1 DEF Begin
<1>13. CASE PendRead(t) \/ PendCas(t) \/ PostInc(t) \/ PostTest(t) \/ PostFirst(t) \/ PostLoad(t)
  <2>. USE DEF Inv
  <2>1. ASSUME Missed(t) PROVE op'[t].at # "v_wake"
    <3>1. CASE op[t].try + 1 < TRIES
      BY SMTT(30), <2>1, <3>1, OpStep DEF Missed
    <3>2. CASE ~(op[t].try + 1 < TRIES)
      BY SMTT(30), <2>1, <3>2, OpStep DEF Missed
    <3>. QED
      BY <3>1, <3>2
  <2>2. op'[t].at # "v_wake"
    <3>1. CASE PendRead(t)
      <4>. DEFINE o == [at |-> "p_cas", s |-> op[t].s, try |-> op[t].try, val |-> count[op[t].s]]
      <4>1. Missed(t) \/ Goto(t, o)
        BY <3>1 DEF PendRead
      <4>2. CASE Goto(t, o)
        BY SMTT(30), <4>2, OpStep
      <4>. QED
        BY <2>1, <4>1, <4>2
    <3>2. CASE PendCas(t)
      <4>1. Missed(t) \/ Goto(t, NoOp)
        BY <3>2 DEF PendCas
      <4>2. CASE Goto(t, NoOp)
        BY SMTT(30), <4>2, OpStep DEF NoOp
      <4>. QED
        BY <2>1, <4>1, <4>2
    <3>3. CASE PostInc(t)
      BY SMTT(30), <3>3, OpStep DEF PostInc
    <3>4. CASE PostTest(t)
      BY SMTT(30), <3>4, OpStep DEF PostTest, NoOp
    <3>5. CASE PostFirst(t)
      BY SMTT(30), <3>5, OpStep DEF PostFirst, NoOp
    <3>6. CASE PostLoad(t)
      BY SMTT(30), <3>6, OpStep DEF PostLoad
    <3>. QED
      BY <1>13, <3>1, <3>2, <3>3, <3>4, <3>5, <3>6
  <2>. QED
    BY <1>13, <1>a, <2>2 DEF PendRead, PendCas, PostInc, PostTest, PostFirst, PostLoad
<1>. QED
  BY <1>7, <1>8, <1>9, <1>10, <1>11, <1>12, <1>13 DEF SemStep

\* So does every step.
LEMMA AloneNext == ASSUME Inv, Alone, [Next]_syncVars PROVE Alone'
<1>1. CASE UNCHANGED <<links, state, op>>
  BY <1>1 DEF Alone, Single
<1>. QED
  BY <1>1, AloneStep DEF Next, Preempt, syncVars

\* The invariant gives what WaitersExact promises.
LEMMA Exact == ASSUME Finite, Inv, BackLinks, Alone PROVE WaitersExact
<1>. USE DEF Inv
<1>1. SUFFICES ASSUME \A t \in Tasks : op[t].at \notin {"v_next", "v_prev", "v_self", "v_wake"}
               PROVE  /\ LinksConsistent(links)
                      /\ \A s \in Sems : {Waiters(s)[i] : i \in 1..Len(Waiters(s))} = Asleep(s)
  BY DEF WaitersExact
<1>2. \A t \in Tasks, s \in Sems : ~Taken(t, s)
  BY <1>1 DEF Taken
<1>3. \A s \in Sems : ~Unlinking(s)
  BY <1>1 DEF Unlinking
<1>4. ASSUME NEW s \in Sems
      PROVE  {Waiters(s)[i] : i \in 1..Len(Waiters(s))} = Asleep(s)
  <2>1. PICK w \in Seq(Tasks) : List(s, w)
    BY DEF Lists
  <2>2. Waiters(s) = w
    BY <2>1, WaitersAre DEF Finite
  <2>3. \A t \in Tasks : On(w, t) <=> Sleeps(t, s)
    BY <1>2, <2>1 DEF List, Members
  <2>4. Asleep(s) = {t \in Tasks : Sleeps(t, s)}
    BY AsleepSleeps
  <2>. QED
    BY SMTT(30), <2>2, <2>3, <2>4 DEF On
<1>5. ASSUME NEW s \in Sems, NEW w \in Seq(Tasks), List(s, w), NEW k \in 0..Len(w)
      PROVE  LET n == Node(s, w, k) IN links.prev[links.next[n]] = n /\ links.next[links.prev[n]] = n
  <2>. DEFINE m == Len(w)
  <2>0. m \in Nat /\ Waiters(s) = w
    BY SMTT(30), <1>5, WaitersAre DEF Finite
  <2>1. \A i \in 0..m : links.next[Node(s, w, i)] = Node(s, w, i + 1)
    BY <1>5 DEF List, Ring
  <2>2. links.prev[Node(s, w, 1)] = s /\ links.prev[s] = Node(s, w, m)
    BY <1>3, <1>5 DEF List, Ring
  <2>3. \A i \in 2..m : links.prev[Node(s, w, i)] = Node(s, w, i - 1)
    <3>1. \A i \in 2..m : links.prev[w[i]] = w[i - 1]
      BY <2>0 DEF BackLinks, Back
    <3>2. \A i \in 2..m : Node(s, w, i) = w[i] /\ Node(s, w, i - 1) = w[i - 1]
      BY SMTT(30), <2>0 DEF Node
    <3>. QED
      BY <3>1, <3>2
  <2>4. Node(s, w, 0) = s /\ Node(s, w, m + 1) = s
    BY SMTT(30), <2>0 DEF Node
  <2>. HIDE DEF m
  <2>5. \A i \in 1..m + 1 : links.prev[Node(s, w, i)] = Node(s, w, i - 1)
    <3>. TAKE i \in 1..m + 1
    <3>1. CASE i = 1
      BY SMTT(30), <2>2, <2>4, <3>1
    <3>2. CASE i = m + 1
      BY SMTT(30), <2>0, <2>2, <2>4, <3>2
    <3>3. CASE i \in 2..m
      BY <2>3, <3>3
    <3>. QED
      BY SMTT(30), <2>0, <3>1, <3>2, <3>3
  <2>6. links.prev[links.next[Node(s, w, k)]] = Node(s, w, k)
    <3>1. k \in 0..m /\ k + 1 \in 1..m + 1 /\ (k + 1) - 1 = k
      BY SMTT(30), <2>0 DEF m
    <3>. QED
      BY <2>1, <2>5, <3>1
  <2>7. links.next[links.prev[Node(s, w, k)]] = Node(s, w, k)
    <3>1. CASE k = 0
      <4>1. links.prev[s] = Node(s, w, m) /\ m \in 0..m
        BY SMTT(30), <2>0, <2>2
      <4>. QED
        BY <2>1, <2>4, <3>1, <4>1
    <3>2. CASE k # 0
      <4>1. k \in 1..m + 1 /\ k - 1 \in 0..m /\ (k - 1) + 1 = k
        BY SMTT(30), <2>0, <3>2 DEF m
      <4>. QED
        BY <2>1, <2>5, <4>1
    <3>. QED
      BY <3>1, <3>2
  <2>. QED
    BY <2>6, <2>7
<1>6. ASSUME NEW n \in Nodes PROVE links.prev[links.next[n]] = n /\ links.next[links.prev[n]] = n
  <2>1. CASE n \in Sems
    <3>1. PICK w \in Seq(Tasks) : List(n, w)
      BY <2>1 DEF Lists
    <3>2. Node(n, w, 0) = n /\ 0 \in 0..Len(w)
      BY SMTT(30), <3>1 DEF Node
    <3>. QED
      BY SMTT(30), <1>5, <2>1, <3>1, <3>2
  <2>2. CASE n = Idle \/ (n \in Tasks /\ state[n] = "runnable")
    BY <2>2 DEF Alone, Single, AllTasks
  <2>3. CASE n \in Tasks /\ state[n] # "runnable"
    <3>1. op[n].at = "p_read" /\ op[n].s \in Sems /\ Sleeps(n, op[n].s)
      BY <2>3, OpFields DEF Serial, Sleeps
    <3>2. PICK w \in Seq(Tasks) : List(op[n].s, w)
      BY <3>1 DEF Lists
    <3>3. On(w, n)
      BY <1>2, <2>3, <3>1, <3>2 DEF List, Members
    <3>4. PICK i \in 1..Len(w) : w[i] = n
      BY <3>3 DEF On
    <3>5. i \in 0..Len(w) /\ Node(op[n].s, w, i) = n
      BY SMTT(30), <3>4 DEF Node
    <3>. QED
      BY <1>5, <3>1, <3>2, <3>5
  <2>. QED
    BY <2>1, <2>2, <2>3 DEF Nodes, AllTasks
<1>7. LinksConsistent(links)
  BY <1>6 DEF LinksConsistent, SyncTypeOK
<1>. QED
  BY <1>4, <1>7

\* Whenever no sem_post is halfway through a removal, the sleepers of a
\* semaphore are exactly the tasks its waiter list goes through, and the links
\* of all nodes agree in both directions.
THEOREM SleepersAreListed == ASSUME InterruptsOff, IsFiniteSet(Sems) PROVE Spec => []WaitersExact
<1>1. Finite
  BY DEF Finite, InterruptsOff
<1>2. Init => BackLinks /\ Alone
  BY <1>1, BackInit, AloneInit
<1>3. Inv /\ BackLinks /\ Alone /\ [Next]_syncVars => BackLinks' /\ Alone'
  BY <1>1, BackNext, AloneNext
<1>4. Inv /\ BackLinks /\ Alone => WaitersExact
  BY <1>1, Exact
<1>. QED
  BY <1>2, <1>3, <1>4, WaitersOnList, PTL DEF Spec
=============================================================================
