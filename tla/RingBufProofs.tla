--------------------------- MODULE RingBufProofs ---------------------------
(***************************************************************************)
(* For any tasks, handlers, capacity and bytes, whoever is preempted where: *)
(* the queue semaphore is a lock and the ring buffer a bounded first-in-    *)
(* first-out queue; and when tasks make their calls with interrupts off,   *)
(* the keyboard's handler never waits.                                     *)
(***************************************************************************)
EXTENDS RingBuf, FiniteSetTheorems, TLAPS

\* A step is for Zenon unless it names the SMT solver.
USE ZenonT(60)

(* --------------------------- semaphore calls --------------------------- *)

\* Where a context can be in a semaphore call.
Points == {"idle", "v_inc"} \cup PendPoints \cup WakePoints

\* What the proofs need to know of a semaphore call in progress.
OpOK(o) ==
    /\ o.at \in Points
    /\ o.at # "idle" => o.s \in Sems
    /\ o.at = "p_cas" => o.val \in Nat \ {0}
    /\ o.at \in WakePoints => {"at", "s"} \subseteq DOMAIN o

\* What an access of a semaphore call is to the ring buffer.
SemKind(c) ==
    \/ /\ op[c].at = "p_cas" /\ op'[c] = NoOp /\ count[op[c].s] \in Nat \ {0}
       /\ count' = [count EXCEPT ![op[c].s] = @ - 1]
    \/ /\ op[c].at = "v_inc" /\ op'[c].at = "v_test" /\ op'[c].s = op[c].s
       /\ count' = [count EXCEPT ![op[c].s] = @ + 1]
    \/ /\ op[c].at \in PendPoints /\ op'[c].at \in PendPoints /\ op'[c].s = op[c].s /\ UNCHANGED count
    \/ /\ op[c].at \in WakePoints /\ op'[c].at \in WakePoints /\ op'[c].s = op[c].s /\ UNCHANGED count
    \/ /\ op[c].at \in WakePoints /\ op'[c] = NoOp /\ UNCHANGED count

\* Types of the semaphores.
SemOK ==
    /\ current \in AllTasks
    /\ count \in [Sems -> Nat]
    /\ DOMAIN op = Contexts /\ op = [c \in Contexts |-> op[c]] /\ \A c \in Contexts : OpOK(op[c])

\* Setting the call of one context.
LEMMA OpSet ==
    ASSUME SemOK, NEW c \in Contexts, NEW o, OpOK(o), Goto(c, o)
    PROVE  /\ op'[c] = o /\ \A d \in Contexts \ {c} : op'[d] = op[d]
           /\ DOMAIN op' = Contexts /\ op' = [d \in Contexts |-> op'[d]] /\ \A d \in Contexts : OpOK(op'[d])
<1>1. op'[c] = o /\ \A d \in Contexts \ {c} : op'[d] = op[d]
  BY DEF SemOK, Goto
<1>2. DOMAIN op' = Contexts /\ op' = [d \in Contexts |-> op'[d]]
  BY DEF SemOK, Goto
<1>. QED
  BY <1>1, <1>2 DEF SemOK

\* Every access of a semaphore call is of one of those kinds, and the others
\* calls are left alone.
LEMMA SemStepKind ==
    ASSUME SemOK, NEW c \in Contexts, SemStep(c)
    PROVE  SemOK' /\ SemKind(c) /\ host' = host /\ \A d \in Contexts \ {c} : op'[d] = op[d]
<1>c. host' = host
  BY DEF SemStep, PendRead, PendCas, PendSleep, PostInc, PostTest, PostFirst, PostLoad, PostNext, PostPrev,
         PostSelf, PostWake
<1>d. current' \in AllTasks
  BY DEF SemOK, SemStep, PendRead, PendCas, PendSleep, PostInc, PostTest, PostFirst, PostLoad, PostNext,
           PostPrev,
         PostSelf, PostWake, SchedNext, AllTasks
<1>. SUFFICES SemOK' /\ SemKind(c) /\ \A d \in Contexts \ {c} : op'[d] = op[d]
  BY <1>c
<1>0. OpOK(op[c]) /\ op[c].at \in Points
  BY DEF SemOK, OpOK
<1>a. ASSUME NEW o, OpOK(o), Goto(c, o), UNCHANGED count, current' \in AllTasks,
             \/ op[c].at \in PendPoints /\ o.at \in PendPoints /\ o.s = op[c].s
             \/ op[c].at \in WakePoints /\ o.at \in WakePoints /\ o.s = op[c].s
             \/ op[c].at \in WakePoints /\ o = NoOp
      PROVE  SemOK' /\ SemKind(c) /\ \A d \in Contexts \ {c} : op'[d] = op[d]
  <2>1. /\ op'[c] = o /\ \A d \in Contexts \ {c} : op'[d] = op[d]
        /\ DOMAIN op' = Contexts /\ op' = [d \in Contexts |-> op'[d]] /\ \A d \in Contexts : OpOK(op'[d])
    BY <1>a, <1>d, OpSet
  <2>. QED
    BY <1>a, <1>d, <2>1 DEF SemOK, SemKind
<1>m. ASSUME Missed(c), UNCHANGED count, current' \in AllTasks, op[c].at \in {"p_read", "p_cas"}
      PROVE  SemOK' /\ SemKind(c) /\ \A d \in Contexts \ {c} : op'[d] = op[d]
  <2>1. op[c].s \in Sems
    BY <1>0, <1>m DEF OpOK
  <2>. DEFINE o1 == [at |-> "p_read", s |-> op[c].s, try |-> op[c].try + 1]
              o2 == [at |-> "p_sleep", s |-> op[c].s]
  <2>2. OpOK(o1) /\ o1.at = "p_read" /\ o1.s = op[c].s
    BY <2>1 DEF OpOK, Points, PendPoints, WakePoints
  <2>3. OpOK(o2) /\ o2.at = "p_sleep" /\ o2.s = op[c].s
    BY <2>1 DEF OpOK, Points, PendPoints, WakePoints
  <2>4. Goto(c, o1) \/ Goto(c, o2)
    BY <1>m DEF Missed
  <2>. HIDE DEF o1, o2
  <2>. QED
    BY <1>a, <1>d, <1>m, <2>2, <2>3, <2>4 DEF PendPoints
<1>1. CASE PendRead(c)
  <2>1. op[c].s \in Sems /\ count[op[c].s] \in Nat /\ op[c].at = "p_read"
    BY <1>0, <1>1 DEF OpOK, PendRead, SemOK
  <2>. DEFINE o == [at |-> "p_cas", s |-> op[c].s, try |-> op[c].try, val |-> count[op[c].s]]
  <2>2. CASE count[op[c].s] # 0
    <3>1. OpOK(o) /\ o.at = "p_cas" /\ o.s = op[c].s
      BY <2>1, <2>2 DEF OpOK, Points, PendPoints
    <3>2. Goto(c, o) /\ UNCHANGED count
      BY <1>1, <2>2 DEF PendRead
    <3>. HIDE DEF o
    <3>. QED
      BY <1>a, <1>d, <2>1, <3>1, <3>2 DEF PendPoints
  <2>3. CASE count[op[c].s] = 0
    BY <1>1, <1>d, <1>m, <2>1, <2>3 DEF PendRead
  <2>. QED
    BY <2>2, <2>3
<1>2. CASE PendCas(c)
  <2>1. op[c].s \in Sems /\ op[c].val \in Nat \ {0} /\ op[c].at = "p_cas"
    BY <1>0, <1>2 DEF OpOK, PendCas
  <2>2. CASE count[op[c].s] = op[c].val
    <3>1. count' = [count EXCEPT ![op[c].s] = op[c].val - 1] /\ Goto(c, NoOp)
      BY <1>2, <2>2 DEF PendCas
    <3>2. OpOK(NoOp)
      BY DEF OpOK, NoOp, Points, PendPoints, WakePoints
    <3>3. /\ op'[c] = NoOp /\ \A d \in Contexts \ {c} : op'[d] = op[d]
          /\ DOMAIN op' = Contexts /\ op' = [d \in Contexts |-> op'[d]] /\ \A d \in Contexts : OpOK(op'[d])
      BY <3>1, <3>2, OpSet
    <3>4. count' \in [Sems -> Nat]
      BY SMTT(30), <2>1, <3>1 DEF SemOK
    <3>5. SemKind(c)
      BY <2>1, <2>2, <3>1, <3>3 DEF SemKind
    <3>. QED
      BY <1>d, <3>3, <3>4, <3>5 DEF SemOK
  <2>3. CASE count[op[c].s] # op[c].val
    BY <1>2, <1>d, <1>m, <2>1, <2>3 DEF PendCas
  <2>. QED
    BY <2>2, <2>3
<1>3. CASE PendSleep(c)
  <2>1. op[c].s \in Sems /\ op[c].at = "p_sleep"
    BY <1>0, <1>3 DEF OpOK, PendSleep
  <2>2. OpOK(PendOp(op[c].s)) /\ PendOp(op[c].s).at = "p_read" /\ PendOp(op[c].s).s = op[c].s
    BY <2>1 DEF OpOK, PendOp, Points, PendPoints, WakePoints
  <2>3. Goto(c, PendOp(op[c].s)) /\ UNCHANGED count
    BY <1>3 DEF PendSleep
  <2>. QED
    BY <1>a, <1>d, <2>1, <2>2, <2>3 DEF PendPoints
<1>4. CASE PostInc(c)
  <2>1. op[c].s \in Sems /\ op[c].at = "v_inc"
    BY <1>0, <1>4 DEF OpOK, PostInc
  <2>. DEFINE o == [at |-> "v_test", s |-> op[c].s]
  <2>2. OpOK(o) /\ o.at = "v_test" /\ o.s = op[c].s
    BY <2>1 DEF OpOK, Points, PendPoints, WakePoints
  <2>3. Goto(c, o) /\ count' = [count EXCEPT ![op[c].s] = @ + 1]
    BY <1>4 DEF PostInc
  <2>. HIDE DEF o
  <2>4. /\ op'[c] = o /\ \A d \in Contexts \ {c} : op'[d] = op[d]
        /\ DOMAIN op' = Contexts /\ op' = [d \in Contexts |-> op'[d]] /\ \A d \in Contexts : OpOK(op'[d])
    BY <2>2, <2>3, OpSet
  <2>5. count' \in [Sems -> Nat]
    BY SMTT(30), <2>1, <2>3 DEF SemOK
  <2>6. SemKind(c)
    BY <2>1, <2>2, <2>3, <2>4 DEF SemKind
  <2>. QED
    BY <1>d, <2>4, <2>5, <2>6 DEF SemOK
<1>. USE DEF WakePoints
<1>n. OpOK(NoOp)
  BY DEF OpOK, NoOp, Points, PendPoints, WakePoints
<1>5. CASE PostTest(c)
  <2>1. op[c].s \in Sems /\ op[c].at = "v_test"
    BY <1>0, <1>5 DEF OpOK, PostTest
  <2>. DEFINE o == [at |-> "v_first", s |-> op[c].s]
  <2>2. OpOK(o) /\ o.at = "v_first" /\ o.s = op[c].s
    BY <2>1 DEF OpOK, Points, PendPoints, WakePoints
  <2>3. (Goto(c, o) \/ Goto(c, NoOp)) /\ UNCHANGED count
    BY <1>5 DEF PostTest
  <2>. HIDE DEF o
  <2>. QED
    BY <1>a, <1>d, <1>n, <2>1, <2>2, <2>3
<1>6. CASE PostFirst(c)
  <2>1. op[c].s \in Sems /\ op[c].at = "v_first"
    BY <1>0, <1>6 DEF OpOK, PostFirst
  <2>. DEFINE o == [at |-> "v_load", s |-> op[c].s, w |-> links.next[op[c].s]]
  <2>2. OpOK(o) /\ o.at = "v_load" /\ o.s = op[c].s
    BY <2>1 DEF OpOK, Points, PendPoints, WakePoints
  <2>3. Goto(c, o) /\ UNCHANGED count
    BY <1>6 DEF PostFirst
  <2>. HIDE DEF o
  <2>. QED
    BY <1>a, <1>d, <2>1, <2>2, <2>3
<1>7. CASE PostLoad(c)
  <2>1. op[c].s \in Sems /\ op[c].at = "v_load"
    BY <1>0, <1>7 DEF OpOK, PostLoad
  <2>. DEFINE o == [at |-> "v_next", s |-> op[c].s, w |-> op[c].w,
                    prev |-> links.prev[op[c].w], next |-> links.next[op[c].w]]
  <2>2. OpOK(o) /\ o.at = "v_next" /\ o.s = op[c].s
    BY <2>1 DEF OpOK, Points, PendPoints, WakePoints
  <2>3. Goto(c, o) /\ UNCHANGED count
    BY <1>7 DEF PostLoad
  <2>. HIDE DEF o
  <2>. QED
    BY <1>a, <1>d, <2>1, <2>2, <2>3
<1>8. CASE PostNext(c)
  <2>0. op[c].at = "v_next" /\ op[c].s \in Sems /\ {"at", "s"} \subseteq DOMAIN op[c]
    BY <1>0, <1>8 DEF PostNext, OpOK
  <2>. DEFINE o == [op[c] EXCEPT !.at = "v_prev"]
  <2>3. o.at = "v_prev" /\ o.s = op[c].s /\ DOMAIN o = DOMAIN op[c]
    BY <2>0
  <2>4. Goto(c, o) /\ UNCHANGED count
    BY <1>8 DEF PostNext
  <2>. HIDE DEF o
  <2>5. OpOK(o)
    BY <2>0, <2>3 DEF OpOK, Points
  <2>. QED
    BY <1>a, <1>d, <2>0, <2>3, <2>4, <2>5
<1>9. CASE PostPrev(c)
  <2>1. op[c].s \in Sems /\ op[c].at = "v_prev"
    BY <1>0, <1>9 DEF OpOK, PostPrev
  <2>. DEFINE o == [at |-> "v_self", s |-> op[c].s, w |-> op[c].w]
  <2>2. OpOK(o) /\ o.at = "v_self" /\ o.s = op[c].s
    BY <2>1 DEF OpOK, Points, PendPoints, WakePoints
  <2>3. Goto(c, o) /\ UNCHANGED count
    BY <1>9 DEF PostPrev
  <2>. HIDE DEF o
  <2>. QED
    BY <1>a, <1>d, <2>1, <2>2, <2>3
<1>10. CASE PostSelf(c)
  <2>0. op[c].at = "v_self" /\ op[c].s \in Sems /\ {"at", "s"} \subseteq DOMAIN op[c]
    BY <1>0, <1>10 DEF PostSelf, OpOK
  <2>. DEFINE o == [op[c] EXCEPT !.at = "v_wake"]
  <2>3. o.at = "v_wake" /\ o.s = op[c].s /\ DOMAIN o = DOMAIN op[c]
    BY <2>0
  <2>4. Goto(c, o) /\ UNCHANGED count
    BY <1>10 DEF PostSelf
  <2>. HIDE DEF o
  <2>5. OpOK(o)
    BY <2>0, <2>3 DEF OpOK, Points
  <2>. QED
    BY <1>a, <1>d, <2>0, <2>3, <2>4, <2>5
<1>11. CASE PostWake(c)
  BY <1>11, <1>d, <1>a, <1>n DEF PostWake
<1>. QED
  BY <1>1, <1>2, <1>3, <1>4, <1>5, <1>6, <1>7, <1>8, <1>9, <1>10, <1>11 DEF SemStep

(* ------------------------- indices and counting ------------------------ *)

\* Where it can be in the ring buffer's code.
Pcs == {"idle", "w_free", "w_copy", "w_head", "w_used", "r_used", "r_copy", "r_tail", "r_free", "kbd_test"}

\* Quotient zero or one.
LEMMA IndexIs ==
    ASSUME NEW i \in 0..2 * Cap - 1
    PROVE  Index(i) = IF i < Cap THEN i ELSE i - Cap
<1>1. Cap \in Nat \ {0}
  BY RingBufAssumption
<1>. DEFINE r == i % Cap
            q == i \div Cap
<1>2. i = Cap * q + r /\ r \in 0..Cap - 1 /\ q \in Nat
  BY SMTT(30), <1>1
<1>. HIDE DEF r, q
<1>3. q < 2
  <2>1. SUFFICES ASSUME q >= 2 PROVE FALSE
    BY SMTT(30), <1>2
  <2>2. Cap * q >= Cap * 2
    BY SMTT(30), <1>1, <1>2, <2>1
  <2>. QED
    BY SMTT(30), <1>1, <1>2, <2>2
<1>4. CASE q = 0
  BY SMTT(30), <1>1, <1>2, <1>4 DEF Index, r
<1>5. CASE q = 1
  BY SMTT(30), <1>1, <1>2, <1>5 DEF Index, r
<1>. QED
  BY SMTT(30), <1>2, <1>3, <1>4, <1>5

\* 1 or 0.
Bit(b) == IF b THEN 1 ELSE 0

\* A set that changes at one element.
LEMMA CardShift ==
    ASSUME NEW U, IsFiniteSet(U), NEW S, S \subseteq U, NEW T, T \subseteq U, NEW c, T \ {c} = S \ {c}
    PROVE  /\ Cardinality(S) \in Nat /\ Cardinality(T) \in Nat
           /\ Cardinality(T) = Cardinality(S) + Bit(c \in T) - Bit(c \in S)
<1>1. IsFiniteSet(S) /\ IsFiniteSet(T) /\ IsFiniteSet(S \ {c})
  BY FS_Subset
<1>2. Cardinality(S) \in Nat /\ Cardinality(T) \in Nat
  BY <1>1, FS_CardinalityType
<1>3. Cardinality(S \ {c}) = IF c \in S THEN Cardinality(S) - 1 ELSE Cardinality(S)
  BY <1>1, FS_RemoveElement
<1>4. Cardinality(T \ {c}) = IF c \in T THEN Cardinality(T) - 1 ELSE Cardinality(T)
  BY <1>1, FS_RemoveElement
<1>. QED
  BY SMTT(30), <1>2, <1>3, <1>4 DEF Bit

\* Places that are promised to a writer, and those a reader has left.
Reserved == {c \in Contexts : \/ pc[c] = "w_free" /\ op[c].at = "idle"
                              \/ pc[c] \in {"w_copy", "w_head"}}
Returning == {c \in Contexts : \/ pc[c] \in {"r_tail", "r_free"}
                               \/ pc[c] = "idle" /\ op[c].at = "v_inc" /\ op[c].s = n_free}
InTail == {c \in Contexts : pc[c] = "r_tail"}

\* Only c moves.
Others(c) == \A d \in Contexts \ {c} : pc'[d] = pc[d] /\ op'[d] = op[d]

\* When only c moves, each of the counted sets changes at most at c.
LEMMA SetsMove ==
    ASSUME NEW c \in Contexts, Others(c)
    PROVE  /\ Cardinality(Claimed') = Cardinality(Claimed) + Bit(c \in Claimed') - Bit(c \in Claimed)
           /\ Cardinality(Unannounced') = Cardinality(Unannounced) + Bit(c \in Unannounced') - Bit(c \in Unannounced)
           /\ Cardinality(Reserved') = Cardinality(Reserved) + Bit(c \in Reserved') - Bit(c \in Reserved)
           /\ Cardinality(Returning') = Cardinality(Returning) + Bit(c \in Returning') - Bit(c \in Returning)
           /\ Cardinality(InTail') = Cardinality(InTail) + Bit(c \in InTail') - Bit(c \in InTail)
<1>0. IsFiniteSet(Contexts)
  BY RingBufAssumption
<1>1. Claimed \subseteq Contexts /\ Claimed' \subseteq Contexts /\ Claimed' \ {c} = Claimed \ {c}
  BY DEF Claimed, Others
<1>2. Unannounced \subseteq Contexts /\ Unannounced' \subseteq Contexts /\ Unannounced' \ {c} = Unannounced \ {c}
  BY DEF Unannounced, Others
<1>3. Reserved \subseteq Contexts /\ Reserved' \subseteq Contexts /\ Reserved' \ {c} = Reserved \ {c}
  BY DEF Reserved, Others
<1>4. Returning \subseteq Contexts /\ Returning' \subseteq Contexts /\ Returning' \ {c} = Returning \ {c}
  BY DEF Returning, Others
<1>5. InTail \subseteq Contexts /\ InTail' \subseteq Contexts /\ InTail' \ {c} = InTail \ {c}
  BY DEF InTail, Others
<1>. QED
  BY SMTT(30), <1>0, <1>1, <1>2, <1>3, <1>4, <1>5, CardShift

\* They are finite.
LEMMA SetsNat ==
    /\ Cardinality(Claimed) \in Nat /\ Cardinality(Unannounced) \in Nat /\ Cardinality(Reserved) \in Nat
    /\ Cardinality(Returning) \in Nat /\ Cardinality(InTail) \in Nat
<1>0. IsFiniteSet(Contexts)
  BY RingBufAssumption
<1>1. /\ Claimed \subseteq Contexts /\ Unannounced \subseteq Contexts /\ Reserved \subseteq Contexts
      /\ Returning \subseteq Contexts /\ InTail \subseteq Contexts
  BY DEF Claimed, Unannounced, Reserved, Returning, InTail
<1>. QED
  BY <1>0, <1>1, FS_Subset, FS_CardinalityType

(* ------------------- where a context is in its calls ------------------- *)

\* The call o is a post of one of S; a pend of s.
Posting(o, S) == o.at \in {"v_inc"} \cup WakePoints /\ o.s \in S
Pending(o, s) == o.at \in PendPoints /\ o.s = s

\* Which call of a semaphore is possible where.
Shape(p, o) ==
    /\ p = "idle" => o.at = "idle" \/ Posting(o, {n_used, n_free})
    /\ p = "w_free" => o.at = "idle" \/ Pending(o, n_free)
    /\ p = "r_used" => o.at = "idle" \/ Pending(o, n_used)
    /\ p \in {"w_copy", "r_copy"} => o.at = "idle" \/ Pending(o, queue)
    /\ p \in {"w_head", "r_tail", "kbd_test"} => o.at = "idle"
    /\ p \in {"w_used", "r_free"} => o.at = "idle" \/ Posting(o, {queue})

\* Every context is where its call belongs; a handler that is not active is
\* outside of the code.
PcOK ==
    /\ pc \in [Contexts -> Pcs]
    /\ host \in [Handlers -> AllTasks \cup {Nobody}]
    /\ \A c \in Contexts : Shape(pc[c], op[c])
    /\ \A h \in Handlers : host[h] = Nobody => pc[h] = "idle" /\ op[h].at = "idle"

\* Types of the data.
DataOK ==
    /\ buf \in [0..Cap - 1 -> Values]
    /\ head \in 0..Cap - 1 /\ tail \in 0..Cap - 1
    /\ val \in [Contexts -> Values]

\* A call of the code.
LEMMA CallMove ==
    ASSUME SemOK, PcOK, NEW c \in Contexts, NEW from, NEW to \in Pcs, NEW o, OpOK(o), Call(c, from, to, o)
    PROVE  /\ pc[c] = from /\ op[c].at = "idle" /\ pc'[c] = to /\ op'[c] = o /\ Others(c)
           /\ pc' \in [Contexts -> Pcs] /\ SemOK'
           /\ current' = current /\ host' = host /\ count' = count
<1>1. /\ op'[c] = o /\ \A d \in Contexts \ {c} : op'[d] = op[d]
      /\ DOMAIN op' = Contexts /\ op' = [d \in Contexts |-> op'[d]] /\ \A d \in Contexts : OpOK(op'[d])
  BY OpSet DEF Call
<1>2. pc'[c] = to /\ (\A d \in Contexts \ {c} : pc'[d] = pc[d]) /\ pc' \in [Contexts -> Pcs]
  BY DEF Call, PcOK
<1>. QED
  BY <1>1, <1>2 DEF Call, SemOK, Others

\* A step of c from one point to another, with what becomes of the counts.
Moves(c, from, to, o) ==
    /\ pc[c] = from /\ op[c].at = "idle" /\ pc'[c] = to /\ op'[c] = o /\ Others(c)
    /\ count' = count

\* The calls the code makes.
LEMMA Ops ==
    /\ OpOK(NoOp) /\ NoOp.at = "idle"
    /\ \A s \in Sems : /\ OpOK(PendOp(s)) /\ PendOp(s).at = "p_read" /\ PendOp(s).s = s
                       /\ OpOK(PostOp(s)) /\ PostOp(s).at = "v_inc" /\ PostOp(s).s = s
BY DEF OpOK, NoOp, PendOp, PostOp, Points, PendPoints, WakePoints

\* The three semaphores of a ring buffer.
LEMMA SemsAre ==
    /\ queue \in Sems /\ n_free \in Sems /\ n_used \in Sems
    /\ queue # n_free /\ queue # n_used /\ n_free # n_used /\ Sems = {queue, n_free, n_used}
BY RingBufAssumption

\* The others stay in shape.
LEMMA ShapeOthers ==
    ASSUME PcOK, NEW c \in Contexts, Others(c), pc' \in [Contexts -> Pcs], Shape(pc'[c], op'[c]),
           host' \in [Handlers -> AllTasks \cup {Nobody}],
           \A h \in Handlers : host'[h] = Nobody => \/ h # c /\ host[h] = Nobody
                                                    \/ pc'[h] = "idle" /\ op'[h].at = "idle"
    PROVE  PcOK'
<1>1. \A d \in Contexts : Shape(pc'[d], op'[d])
  BY SMTT(30) DEF PcOK, Others, Shape, Posting, Pending
<1>2. \A h \in Handlers : h \in Contexts
  BY DEF Contexts
<1>3. \A h \in Handlers : host'[h] = Nobody => pc'[h] = "idle" /\ op'[h].at = "idle"
  BY <1>2 DEF PcOK, Others
<1>. QED
  BY <1>1, <1>3 DEF PcOK

\* Whoever takes a step is not an idle handler.
Active(c) == c \in Handlers => host[c] # Nobody

\* Whoever has the CPU is active.
LEMMA RunsActive ==
    ASSUME SemOK, PcOK, NEW c \in Contexts, Runs(c)
    PROVE  Active(c)
<1>1. Nobody \notin AllTasks
  BY RingBufAssumption
<1>. QED
  BY <1>1 DEF Runs, Active, SemOK

\* Each call of the code leads to a place where it belongs.
LEMMA CallShape ==
    ASSUME SemOK, PcOK, NEW c \in Contexts, Active(c), NEW from, NEW to \in Pcs, NEW o, OpOK(o),
           Call(c, from, to, o),
           \/ to = "w_free" /\ o = PendOp(n_free)
           \/ to = "r_used" /\ o = PendOp(n_used)
           \/ to \in {"w_copy", "r_copy"} /\ o = PendOp(queue)
           \/ to \in {"w_head", "r_tail"} /\ o = NoOp
           \/ to \in {"w_used", "r_free"} /\ o = PostOp(queue)
           \/ to = "idle" /\ o \in {PostOp(n_free), PostOp(n_used)}
    PROVE  PcOK' /\ SemOK' /\ Moves(c, from, to, o)
<1>1. /\ pc[c] = from /\ op[c].at = "idle" /\ pc'[c] = to /\ op'[c] = o /\ Others(c)
      /\ pc' \in [Contexts -> Pcs] /\ SemOK'
      /\ current' = current /\ host' = host /\ count' = count
  BY CallMove
<1>2. Shape(pc'[c], op'[c])
  BY SMTT(30), <1>1, Ops, SemsAre DEF Shape, Posting, Pending, PendPoints
<1>3. \A h \in Handlers : host'[h] = Nobody => h # c /\ host[h] = Nobody
  BY <1>1 DEF Active
<1>4. PcOK'
  <2>1. host' \in [Handlers -> AllTasks \cup {Nobody}]
    BY <1>1 DEF PcOK
  <2>. QED
    BY <1>1, <1>2, <1>3, <2>1, ShapeOthers
<1>. QED
  BY <1>1, <1>4 DEF Moves

\* So does each access of a semaphore call.
LEMMA SemShape ==
    ASSUME SemOK, PcOK, NEW c \in Contexts, Active(c), SemStep(c), pc' = pc
    PROVE  PcOK' /\ SemOK' /\ SemKind(c) /\ Others(c)
<1>1. SemOK' /\ SemKind(c) /\ host' = host /\ \A d \in Contexts \ {c} : op'[d] = op[d]
  BY SemStepKind
<1>2. Others(c)
  BY <1>1 DEF Others
<1>3. Shape(pc'[c], op'[c])
  BY <1>1, Ops DEF PcOK, Shape, Posting, Pending, SemKind, PendPoints, WakePoints
<1>4. PcOK'
  <2>1. host' \in [Handlers -> AllTasks \cup {Nobody}] /\ pc' \in [Contexts -> Pcs]
    BY <1>1 DEF PcOK
  <2>2. \A h \in Handlers : host'[h] = Nobody => h # c /\ host[h] = Nobody
    BY <1>1 DEF Active
  <2>. QED
    BY <1>1, <1>2, <1>3, <2>1, <2>2, ShapeOthers
<1>. QED
  BY <1>1, <1>2, <1>4

(* --------------------------- units and items --------------------------- *)

\* The places of the buffer that hold no item: free, promised to a writer, or
\* left by a reader and not yet posted.
Rest == count[n_free] + Cardinality(Reserved) + Cardinality(Returning)

\* The sums are natural numbers.
LEMMA SumsInt ==
    ASSUME SemOK
    PROVE  Rest \in Nat /\ Used \in Nat /\ Copied \in Nat /\ Copied = Cardinality(InTail)
BY SMTT(30), SetsNat, SemsAre DEF SemOK, Rest, Used, Copied, InTail

\* What a step does to the sums, by the changes at c.
LEMMA SumsMove ==
    ASSUME SemOK, SemOK', NEW c \in Contexts, Others(c)
    PROVE  /\ Used' = Used + (count'[n_used] - count[n_used])
                      + (Bit(c \in Claimed') - Bit(c \in Claimed))
                      + (Bit(c \in Unannounced') - Bit(c \in Unannounced))
           /\ Rest' = Rest + (count'[n_free] - count[n_free])
                      + (Bit(c \in Reserved') - Bit(c \in Reserved))
                      + (Bit(c \in Returning') - Bit(c \in Returning))
           /\ Copied' = Copied + (Bit(c \in InTail') - Bit(c \in InTail))
<1>1. count[n_used] \in Nat /\ count'[n_used] \in Nat /\ count[n_free] \in Nat /\ count'[n_free] \in Nat
  BY SemsAre DEF SemOK
<1>2. /\ Cardinality(Claimed') = Cardinality(Claimed) + Bit(c \in Claimed') - Bit(c \in Claimed)
      /\ Cardinality(Unannounced') = Cardinality(Unannounced) + Bit(c \in Unannounced') - Bit(c \in Unannounced)
      /\ Cardinality(Reserved') = Cardinality(Reserved) + Bit(c \in Reserved') - Bit(c \in Reserved)
      /\ Cardinality(Returning') = Cardinality(Returning) + Bit(c \in Returning') - Bit(c \in Returning)
      /\ Cardinality(InTail') = Cardinality(InTail) + Bit(c \in InTail') - Bit(c \in InTail)
  BY SetsMove
<1>3. /\ Cardinality(Claimed) \in Nat /\ Cardinality(Unannounced) \in Nat /\ Cardinality(Reserved) \in Nat
      /\ Cardinality(Returning) \in Nat /\ Cardinality(InTail) \in Nat
  BY SetsNat
<1>4. \A b : Bit(b) \in 0..1
  BY SMTT(30) DEF Bit
<1>5. Used' = count'[n_used] + Cardinality(Claimed') + Cardinality(Unannounced')
  BY DEF Used
<1>6. Rest' = count'[n_free] + Cardinality(Reserved') + Cardinality(Returning')
  BY DEF Rest
<1>7. Copied' = Cardinality(InTail') /\ Copied = Cardinality(InTail)
  BY DEF Copied, InTail
<1>8. Used' = Used + (count'[n_used] - count[n_used])
                      + (Bit(c \in Claimed') - Bit(c \in Claimed))
                      + (Bit(c \in Unannounced') - Bit(c \in Unannounced))
  BY SMTT(30), <1>1, <1>2, <1>3, <1>4, <1>5 DEF Used
<1>9. Rest' = Rest + (count'[n_free] - count[n_free])
                      + (Bit(c \in Reserved') - Bit(c \in Reserved))
                      + (Bit(c \in Returning') - Bit(c \in Returning))
  BY SMTT(30), <1>1, <1>2, <1>3, <1>4, <1>6 DEF Rest
<1>10. Copied' = Copied + (Bit(c \in InTail') - Bit(c \in InTail))
  BY <1>2, <1>3, <1>4, <1>7
<1>. QED
  BY <1>8, <1>9, <1>10

\* Whether c is in the sets, by where it is.
LEMMA InSets ==
    ASSUME NEW c \in Contexts
    PROVE  /\ c \in Claimed <=> (pc[c] = "r_used" /\ op[c].at = "idle") \/ pc[c] = "r_copy"
           /\ c \in Unannounced <=> pc[c] = "w_used" \/ (pc[c] = "idle" /\ op[c].at = "v_inc" /\ op[c].s = n_used)
           /\ c \in Reserved <=> (pc[c] = "w_free" /\ op[c].at = "idle") \/ pc[c] \in {"w_copy", "w_head"}
           /\ c \in Returning <=> \/ pc[c] \in {"r_tail", "r_free"}
                                  \/ pc[c] = "idle" /\ op[c].at = "v_inc" /\ op[c].s = n_free
           /\ c \in InTail <=> pc[c] = "r_tail"
BY DEF Claimed, Unannounced, Reserved, Returning, InTail

\* The same after a step.
LEMMA InSetsNext ==
    ASSUME NEW c \in Contexts
    PROVE  /\ c \in Claimed' <=> (pc'[c] = "r_used" /\ op'[c].at = "idle") \/ pc'[c] = "r_copy"
           /\ c \in Unannounced' <=> \/ pc'[c] = "w_used"
                                     \/ pc'[c] = "idle" /\ op'[c].at = "v_inc" /\ op'[c].s = n_used
           /\ c \in Reserved' <=> (pc'[c] = "w_free" /\ op'[c].at = "idle") \/ pc'[c] \in {"w_copy", "w_head"}
           /\ c \in Returning' <=> \/ pc'[c] \in {"r_tail", "r_free"}
                                   \/ pc'[c] = "idle" /\ op'[c].at = "v_inc" /\ op'[c].s = n_free
           /\ c \in InTail' <=> pc'[c] = "r_tail"
BY DEF Claimed, Unannounced, Reserved, Returning, InTail

\* What a step adds to items, other places and copied items.
Sums(u, r, k) == Used' = Used + u /\ Rest' = Rest + r /\ Copied' = Copied + k

\* A call moves a context from one set to another.
LEMMA CallSums ==
    ASSUME SemOK, SemOK', NEW c \in Contexts, NEW from, NEW to, NEW o, Moves(c, from, to, o)
    PROVE  /\ from \in {"idle", "kbd_test"} /\ to = "w_free" /\ o = PendOp(n_free) => Sums(0, 0, 0)
           /\ from = "w_free" /\ to = "w_copy" => Sums(0, 0, 0)
           /\ from = "w_copy" /\ to = "w_head" => Sums(0, 0, 0)
           /\ from = "w_head" /\ to = "w_used" => Sums(1, -1, 0)
           /\ from = "w_used" /\ to = "idle" /\ o = PostOp(n_used) => Sums(0, 0, 0)
           /\ from = "idle" /\ to = "r_used" /\ o = PendOp(n_used) => Sums(0, 0, 0)
           /\ from = "r_used" /\ to = "r_copy" => Sums(0, 0, 0)
           /\ from = "r_copy" /\ to = "r_tail" => Sums(-1, 1, 1)
           /\ from = "r_tail" /\ to = "r_free" => Sums(0, 0, -1)
           /\ from = "r_free" /\ to = "idle" /\ o = PostOp(n_free) => Sums(0, 0, 0)
           /\ from \in {"idle", "kbd_test"} /\ to \in {"idle", "kbd_test"} /\ o.at = "idle" => Sums(0, 0, 0)
<1>1. /\ pc[c] = from /\ op[c].at = "idle" /\ pc'[c] = to /\ op'[c] = o /\ Others(c)
      /\ count' = count
  BY DEF Moves
<1>2. count[n_used] \in Nat /\ count[n_free] \in Nat
  BY SemsAre DEF SemOK
<1>3. Used \in Nat /\ Rest \in Nat /\ Copied \in Nat
  BY SumsInt
<1>. DEFINE u == (Bit(c \in Claimed') - Bit(c \in Claimed)) + (Bit(c \in Unannounced') - Bit(c \in Unannounced))
            r == (Bit(c \in Reserved') - Bit(c \in Reserved)) + (Bit(c \in Returning') - Bit(c \in Returning))
            k == Bit(c \in InTail') - Bit(c \in InTail)
<1>4. u \in Int /\ r \in Int /\ k \in Int
  BY SMTT(30) DEF Bit
<1>5. Sums(u, r, k)
  BY SMTT(30), <1>1, <1>2, <1>3, SumsMove DEF Sums, Bit
<1>6. /\ from \in {"idle", "kbd_test"} /\ to = "w_free" /\ o = PendOp(n_free) => u = 0 /\ r = 0 /\ k = 0
      /\ from = "w_free" /\ to = "w_copy" => u = 0 /\ r = 0 /\ k = 0
      /\ from = "w_copy" /\ to = "w_head" => u = 0 /\ r = 0 /\ k = 0
      /\ from = "w_head" /\ to = "w_used" => u = 1 /\ r = -1 /\ k = 0
      /\ from = "w_used" /\ to = "idle" /\ o = PostOp(n_used) => u = 0 /\ r = 0 /\ k = 0
      /\ from = "idle" /\ to = "r_used" /\ o = PendOp(n_used) => u = 0 /\ r = 0 /\ k = 0
  BY SMTT(30), <1>1, Ops, SemsAre, InSets, InSetsNext DEF Bit
<1>7. /\ from = "r_used" /\ to = "r_copy" => u = 0 /\ r = 0 /\ k = 0
      /\ from = "r_copy" /\ to = "r_tail" => u = -1 /\ r = 1 /\ k = 1
      /\ from = "r_tail" /\ to = "r_free" => u = 0 /\ r = 0 /\ k = -1
      /\ from = "r_free" /\ to = "idle" /\ o = PostOp(n_free) => u = 0 /\ r = 0 /\ k = 0
      /\ from \in {"idle", "kbd_test"} /\ to \in {"idle", "kbd_test"} /\ o.at = "idle" => u = 0 /\ r = 0 /\ k = 0
  BY SMTT(30), <1>1, Ops, SemsAre, InSets, InSetsNext DEF Bit
<1>. HIDE DEF u, r, k
<1>. QED
  BY SMTT(30), <1>5, <1>6, <1>7

\* An access of a semaphore call leaves the sums.
LEMMA SemSums ==
    ASSUME SemOK, SemOK', PcOK, NEW c \in Contexts, SemKind(c), Others(c), pc' = pc
    PROVE  Sums(0, 0, 0)
<1>1. Used \in Nat /\ Rest \in Nat /\ Copied \in Nat
  BY SumsInt
<1>2. op[c].at # "idle" => op[c].s \in Sems
  BY DEF SemOK, OpOK
<1>3. Shape(pc[c], op[c]) /\ pc[c] \in Pcs
  BY DEF PcOK
<1>4. CASE count' = count
  <2>. DEFINE u == (Bit(c \in Claimed') - Bit(c \in Claimed)) + (Bit(c \in Unannounced') - Bit(c \in Unannounced))
              r == (Bit(c \in Reserved') - Bit(c \in Reserved)) + (Bit(c \in Returning') - Bit(c \in Returning))
              k == Bit(c \in InTail') - Bit(c \in InTail)
  <2>1. op[c].at # "v_inc" /\ op[c].at # "idle" /\ op'[c].at # "v_inc"
    <3>1. op[c].at # "idle"
      BY DEF SemKind, PendPoints, WakePoints
    <3>2. count[op[c].s] \in Nat /\ op[c].s \in DOMAIN count
      BY <1>2, <3>1 DEF SemOK
    <3>. QED
      BY SMTT(30), <1>4, <3>1, <3>2, Ops DEF SemKind, PendPoints, WakePoints
  <2>2. op'[c].at = "idle" => op[c].at \in WakePoints
    BY SMTT(30), <1>4, <1>2 DEF SemKind, PendPoints, WakePoints, SemOK
  <2>3. u = 0 /\ r = 0 /\ k = 0
    BY SMTT(30), <1>3, <2>1, <2>2, InSets, InSetsNext DEF Bit, Shape, Posting, Pending, PendPoints,
             WakePoints
  <2>4. count[n_used] \in Nat /\ count[n_free] \in Nat
    BY SemsAre DEF SemOK
  <2>5. Sums(u, r, k)
    BY SMTT(30), <1>1, <1>4, <2>4, SumsMove DEF Sums, Bit
  <2>. HIDE DEF u, r, k
  <2>. QED
    BY <2>3, <2>5
<1>5. CASE op[c].at = "p_cas" /\ op'[c] = NoOp /\ count' = [count EXCEPT ![op[c].s] = @ - 1]
  <2>1. op[c].s \in Sems /\ Pending(op[c], op[c].s)
    BY <1>2, <1>5 DEF Pending, PendPoints
  <2>2. count[n_used] \in Nat /\ count[n_free] \in Nat
    BY SemsAre DEF SemOK
  <2>3. /\ count'[n_used] = count[n_used] - Bit(op[c].s = n_used)
        /\ count'[n_free] = count[n_free] - Bit(op[c].s = n_free)
    BY SMTT(30), <1>5, <2>1, <2>2, SemsAre DEF SemOK, Bit
  <2>4. /\ op[c].s = n_used <=> pc[c] = "r_used"
        /\ op[c].s = n_free <=> pc[c] = "w_free"
        /\ pc[c] \in {"r_used", "w_free", "w_copy", "r_copy"}
    BY <1>3, <1>5, <2>1, SemsAre DEF Shape, Posting, Pending, PendPoints, WakePoints, Pcs
  <2>5. /\ Bit(c \in Claimed') - Bit(c \in Claimed) = Bit(op[c].s = n_used)
        /\ Bit(c \in Unannounced') - Bit(c \in Unannounced) = 0
        /\ Bit(c \in Reserved') - Bit(c \in Reserved) = Bit(op[c].s = n_free)
        /\ Bit(c \in Returning') - Bit(c \in Returning) = 0
        /\ Bit(c \in InTail') - Bit(c \in InTail) = 0
    BY SMTT(30), <1>5, <2>4, Ops, InSets, InSetsNext DEF Bit
  <2>6. \A b : Bit(b) \in 0..1
    BY SMTT(30) DEF Bit
  <2>. QED
    BY SMTT(30), <1>1, <2>2, <2>3, <2>5, <2>6, SumsMove DEF Sums
<1>6. CASE op[c].at = "v_inc" /\ op'[c].at = "v_test" /\ count' = [count EXCEPT ![op[c].s] = @ + 1]
  <2>1. op[c].s \in Sems
    BY <1>2, <1>6
  <2>2. count[n_used] \in Nat /\ count[n_free] \in Nat
    BY SemsAre DEF SemOK
  <2>3. /\ count'[n_used] = count[n_used] + Bit(op[c].s = n_used)
        /\ count'[n_free] = count[n_free] + Bit(op[c].s = n_free)
    BY SMTT(30), <1>6, <2>1, <2>2, SemsAre DEF SemOK, Bit
  <2>4. /\ op[c].s \in {n_used, n_free} <=> pc[c] = "idle"
        /\ pc[c] \in {"idle", "w_used", "r_free"}
    BY <1>3, <1>6, <2>1, SemsAre DEF Shape, Posting, Pending, PendPoints, WakePoints, Pcs
  <2>5. /\ Bit(c \in Claimed') - Bit(c \in Claimed) = 0
        /\ Bit(c \in Unannounced') - Bit(c \in Unannounced) = 0 - Bit(op[c].s = n_used)
        /\ Bit(c \in Reserved') - Bit(c \in Reserved) = 0
        /\ Bit(c \in Returning') - Bit(c \in Returning) = 0 - Bit(op[c].s = n_free)
        /\ Bit(c \in InTail') - Bit(c \in InTail) = 0
    BY SMTT(30), <1>6, <2>4, SemsAre, InSets, InSetsNext DEF Bit
  <2>6. \A b : Bit(b) \in 0..1
    BY SMTT(30) DEF Bit
  <2>. QED
    BY SMTT(30), <1>1, <2>2, <2>3, <2>5, <2>6, SumsMove DEF Sums
<1>. QED
  BY <1>4, <1>5, <1>6 DEF SemKind

(* ------------------------------- the lock ------------------------------ *)

\* RingBuf's Holds, of a place and a call.
HeldAt(p, o) == \/ p \in {"w_copy", "r_copy"} /\ o.at = "idle"
                \/ p \in {"w_head", "r_tail"}
                \/ p \in {"w_used", "r_free"} /\ o.at = "v_inc"

\* The lock changes hands at most at c.
LEMMA MutexMove ==
    ASSUME SemOK, MutualExclusion, NEW c \in Contexts, Others(c),
           \/ (HeldAt(pc'[c], op'[c]) <=> HeldAt(pc[c], op[c])) /\ count'[queue] = count[queue]
           \/ /\ ~HeldAt(pc[c], op[c]) /\ HeldAt(pc'[c], op'[c])
              /\ count[queue] # 0 /\ count'[queue] = count[queue] - 1
           \/ /\ HeldAt(pc[c], op[c]) /\ ~HeldAt(pc'[c], op'[c])
              /\ count'[queue] = count[queue] + 1
    PROVE  MutualExclusion'
<1>1. \A d \in Contexts : Holds(d) <=> HeldAt(pc[d], op[d])
  BY DEF Holds, HeldAt
<1>2. \A d \in Contexts \ {c} : HeldAt(pc'[d], op'[d]) <=> HeldAt(pc[d], op[d])
  BY DEF Others
<1>. DEFINE Ex == \A a, b \in Contexts : HeldAt(pc[a], op[a]) /\ HeldAt(pc[b], op[b]) => a = b
            Some == \E d \in Contexts : HeldAt(pc[d], op[d])
<1>3. Ex /\ count[queue] = IF Some THEN 0 ELSE 1
  BY <1>1 DEF MutualExclusion
<1>4. /\ \A a, b \in Contexts : HeldAt(pc'[a], op'[a]) /\ HeldAt(pc'[b], op'[b]) => a = b
      /\ count'[queue] = IF \E d \in Contexts : HeldAt(pc'[d], op'[d]) THEN 0 ELSE 1
  <2>1. CASE (HeldAt(pc'[c], op'[c]) <=> HeldAt(pc[c], op[c])) /\ count'[queue] = count[queue]
    <3>1. HeldAt(pc'[c], op'[c]) <=> HeldAt(pc[c], op[c])
      BY <2>1
    <3>2. \A d \in Contexts : HeldAt(pc'[d], op'[d]) <=> HeldAt(pc[d], op[d])
      BY <1>2, <3>1
    <3>. QED
      BY <1>3, <2>1, <3>2
  <2>2. CASE /\ ~HeldAt(pc[c], op[c]) /\ HeldAt(pc'[c], op'[c])
             /\ count[queue] # 0 /\ count'[queue] = count[queue] - 1
    <3>1. ~Some /\ count'[queue] = 0
      BY SMTT(30), <1>3, <2>2
    <3>. QED
      BY <1>2, <2>2, <3>1
  <2>3. CASE /\ HeldAt(pc[c], op[c]) /\ ~HeldAt(pc'[c], op'[c])
             /\ count'[queue] = count[queue] + 1
    <3>1. count'[queue] = 1 /\ \A d \in Contexts : HeldAt(pc[d], op[d]) => d = c
      BY SMTT(30), <1>3, <2>3
    <3>. QED
      BY <1>2, <2>3, <3>1
  <2>. QED
    BY <2>1, <2>2, <2>3
<1>. HIDE DEF HeldAt
<1>5. \A d \in Contexts : (Holds(d))' <=> HeldAt(pc'[d], op'[d])
  BY DEF Holds, HeldAt
<1>. QED
  BY <1>4, <1>5 DEF MutualExclusion

\* Items and other places make up the buffer; the items end at head; the byte
\* of a writer about to move head is where head will point.
Counted == Rest + Used = Cap
Ends == head = Index(tail + Copied + Used)
Ready == \A c \in Contexts : pc[c] = "w_head" => buf[Index(head + 1)] = val[c]

\* The inductive invariant.
RbInv == SemOK /\ PcOK /\ DataOK /\ MutualExclusion /\ Counted /\ Ends /\ Ready

\* A buffer has room for one byte at least.
LEMMA CapIs == Cap \in Nat \ {0}
BY RingBufAssumption

\* Who has the lock is the only one to be between copying and moving tail.
LEMMA HolderTail ==
    ASSUME MutualExclusion, NEW c \in Contexts, HeldAt(pc[c], op[c])
    PROVE  Copied = Bit(pc[c] = "r_tail")
<1>1. \A d \in Contexts : pc[d] = "r_tail" => d = c
  BY DEF MutualExclusion, Holds, HeldAt
<1>2. InTail = IF pc[c] = "r_tail" THEN {c} ELSE {}
  BY <1>1 DEF InTail
<1>3. Cardinality({}) = 0 /\ Cardinality({c}) = 1
  BY FS_EmptySet, FS_Singleton
<1>. QED
  BY <1>2, <1>3 DEF Copied, InTail, Bit

\* A member counts.
LEMMA Member ==
    ASSUME SemOK, NEW c \in Contexts
    PROVE  /\ c \in Reserved \/ c \in Returning => Rest >= 1
           /\ c \in Claimed => Used >= 1
<1>1. \A S : S \subseteq Contexts /\ c \in S => Cardinality(S) >= 1
  <2>1. SUFFICES ASSUME NEW S, S \subseteq Contexts, c \in S PROVE Cardinality(S) >= 1
    OBVIOUS
  <2>2. IsFiniteSet(Contexts)
    BY RingBufAssumption
  <2>3. IsFiniteSet(S) /\ Cardinality(S) \in Nat
    BY <2>1, <2>2, FS_Subset, FS_CardinalityType
  <2>4. Cardinality(S) # 0
    BY <2>1, <2>3, FS_EmptySet
  <2>. QED
    BY SMTT(30), <2>3, <2>4
<1>2. Reserved \subseteq Contexts /\ Returning \subseteq Contexts /\ Claimed \subseteq Contexts
  BY DEF Reserved, Returning, Claimed
<1>3. count[n_free] \in Nat /\ count[n_used] \in Nat
  BY SemsAre DEF SemOK
<1>. QED
  BY SMTT(30), <1>1, <1>2, <1>3, SetsNat DEF Rest, Used

\* A step that leaves the sums and the bytes.
LEMMA QuietStep ==
    ASSUME RbInv, SemOK', PcOK', MutualExclusion', NEW c \in Contexts, Others(c), Sums(0, 0, 0),
           buf' = buf, head' = head, tail' = tail, val' \in [Contexts -> Values],
           \A d \in Contexts \ {c} : val'[d] = val[d],
           pc'[c] = "w_head" => pc[c] = "w_head" /\ val'[c] = val[c]
    PROVE  RbInv' /\ Contents' = Contents
<1>1. Rest \in Nat /\ Used \in Nat /\ Copied \in Nat
  BY SumsInt DEF RbInv
<1>2. Used' = Used /\ Rest' = Rest /\ Copied' = Copied
  BY SMTT(30), <1>1 DEF Sums
<1>3. Counted' /\ Ends'
  BY <1>2 DEF RbInv, Counted, Ends, Index
<1>4. Ready'
  BY DEF RbInv, Ready, Others, Index
<1>5. DataOK'
  BY DEF RbInv, DataOK
<1>6. Contents' = Contents
  BY <1>2 DEF Contents, Index
<1>. QED
  BY <1>3, <1>4, <1>5, <1>6 DEF RbInv

(* ------------------------ steps inside the lock ------------------------ *)

\* A call that takes no part of the lock.
LEMMA QuietCall ==
    ASSUME RbInv, NEW c \in Contexts, Active(c), NEW from, NEW to \in Pcs, NEW o, Call(c, from, to, o),
           \/ from \in {"idle", "kbd_test"} /\ to = "w_free" /\ o = PendOp(n_free)
           \/ from = "w_free" /\ to = "w_copy" /\ o = PendOp(queue)
           \/ from = "w_used" /\ to = "idle" /\ o = PostOp(n_used)
           \/ from = "idle" /\ to = "r_used" /\ o = PendOp(n_used)
           \/ from = "r_used" /\ to = "r_copy" /\ o = PendOp(queue)
           \/ from = "r_free" /\ to = "idle" /\ o = PostOp(n_free),
           buf' = buf, head' = head, tail' = tail, val' \in [Contexts -> Values],
           \A d \in Contexts \ {c} : val'[d] = val[d]
    PROVE  RbInv' /\ Contents' = Contents
<1>1. OpOK(o) /\ o.at \in {"p_read", "v_inc"}
  BY Ops, SemsAre
<1>2. PcOK' /\ SemOK' /\ Moves(c, from, to, o)
  BY <1>1, CallShape DEF RbInv
<1>3. pc[c] = from /\ op[c].at = "idle" /\ pc'[c] = to /\ op'[c] = o /\ Others(c) /\ count' = count
  BY <1>2 DEF Moves
<1>4. Sums(0, 0, 0)
  BY <1>2, CallSums DEF RbInv
<1>5. ~HeldAt(pc[c], op[c]) /\ ~HeldAt(pc'[c], op'[c])
  BY <1>1, <1>3 DEF HeldAt
<1>6. MutualExclusion'
  BY <1>3, <1>5, MutexMove DEF RbInv
<1>. QED
  BY <1>2, <1>3, <1>4, <1>6, QuietStep

\* An access of a semaphore call: the lock is taken by the cmpxchg on queue and
\* given up by its increment.
LEMMA SemCase ==
    ASSUME RbInv, NEW c \in Contexts, Active(c), SemStep(c), UNCHANGED <<pc, buf, head, tail, val>>
    PROVE  RbInv' /\ Contents' = Contents
<1>1. PcOK' /\ SemOK' /\ SemKind(c) /\ Others(c)
  BY SemShape DEF RbInv
<1>2. Sums(0, 0, 0)
  BY <1>1, SemSums DEF RbInv
<1>3. MutualExclusion'
  <2>0. op[c].at # "idle" => op[c].s \in Sems
    BY DEF RbInv, SemOK, OpOK
  <2>1. Shape(pc[c], op[c]) /\ pc[c] \in Pcs /\ pc' = pc /\ count \in [Sems -> Nat]
    BY DEF RbInv, PcOK, SemOK
  <2>2. CASE /\ op[c].at = "p_cas" /\ op'[c] = NoOp /\ count[op[c].s] \in Nat \ {0}
             /\ count' = [count EXCEPT ![op[c].s] = @ - 1]
    <3>1. CASE op[c].s = queue
      <4>1. ~HeldAt(pc[c], op[c]) /\ HeldAt(pc'[c], op'[c])
        BY <2>1, <2>2, <3>1, Ops, SemsAre DEF HeldAt, Shape, Posting, Pending, PendPoints, WakePoints, Pcs
      <4>2. count[queue] # 0 /\ count'[queue] = count[queue] - 1
        BY <2>1, <2>2, <3>1, SemsAre
      <4>. QED
        BY <1>1, <4>1, <4>2, MutexMove DEF RbInv
    <3>2. CASE op[c].s # queue
      <4>1. ~HeldAt(pc[c], op[c]) /\ ~HeldAt(pc'[c], op'[c])
        BY <2>1, <2>2, <3>2, Ops, SemsAre DEF HeldAt, Shape, Posting, Pending, PendPoints, WakePoints, Pcs
      <4>2. count'[queue] = count[queue]
        BY <2>1, <2>2, <3>2, SemsAre
      <4>. QED
        BY <1>1, <4>1, <4>2, MutexMove DEF RbInv
    <3>. QED
      BY <3>1, <3>2
  <2>3. CASE /\ op[c].at = "v_inc" /\ op'[c].at = "v_test"
             /\ count' = [count EXCEPT ![op[c].s] = @ + 1]
    <3>1. CASE op[c].s = queue
      <4>1. HeldAt(pc[c], op[c]) /\ ~HeldAt(pc'[c], op'[c])
        BY <2>1, <2>3, <3>1, SemsAre DEF HeldAt, Shape, Posting, Pending, PendPoints, WakePoints, Pcs
      <4>2. count'[queue] = count[queue] + 1
        BY <2>1, <2>3, <3>1, SemsAre
      <4>. QED
        BY <1>1, <4>1, <4>2, MutexMove DEF RbInv
    <3>2. CASE op[c].s # queue
      <4>1. ~HeldAt(pc[c], op[c]) /\ ~HeldAt(pc'[c], op'[c])
        BY <2>0, <2>1, <2>3, <3>2, SemsAre DEF HeldAt, Shape, Posting, Pending, PendPoints, WakePoints, Pcs
      <4>2. count'[queue] = count[queue]
        BY <2>1, <2>3, <3>2, SemsAre
      <4>. QED
        BY <1>1, <4>1, <4>2, MutexMove DEF RbInv
    <3>. QED
      BY <3>1, <3>2
  <2>4. CASE /\ count' = count
             /\ op[c].at \in PendPoints \cup WakePoints
             /\ op'[c].at \in PendPoints \cup WakePoints \/ (op[c].at \in WakePoints /\ op'[c].at = "idle")
    <3>1. ~HeldAt(pc[c], op[c]) /\ ~HeldAt(pc'[c], op'[c])
      BY <2>1, <2>4, SemsAre DEF HeldAt, Shape, Posting, Pending, PendPoints, WakePoints, Pcs
    <3>. QED
      BY <1>1, <2>4, <3>1, MutexMove DEF RbInv
  <2>. QED
    BY <1>1, <2>2, <2>3, <2>4, Ops DEF SemKind
<1>4. ASSUME pc'[c] = "w_head" PROVE pc[c] = "w_head" /\ val'[c] = val[c]
  BY <1>4
<1>5. val' \in [Contexts -> Values]
  BY DEF RbInv, DataOK
<1>. QED
  BY <1>1, <1>2, <1>3, <1>4, <1>5, QuietStep

\* The index arithmetic of a full round.
LEMMA Indices ==
    ASSUME RbInv
    PROVE  /\ Used \in Nat /\ Copied \in Nat /\ Rest \in Nat /\ Used + Rest = Cap
           /\ head \in 0..Cap - 1 /\ tail \in 0..Cap - 1
BY SMTT(30), SumsInt, CapIs DEF RbInv, Counted, DataOK

\* _rb_write copies the byte behind the last item: no item is overwritten.
LEMMA WriteCopyCase ==
    ASSUME RbInv, NEW c \in Contexts, Active(c), WriteCopy(c)
    PROVE  RbInv' /\ Contents' = Contents
<1>1. OpOK(NoOp) /\ NoOp.at = "idle" /\ "w_head" \in Pcs
  BY Ops DEF Pcs
<1>2. PcOK' /\ SemOK' /\ Moves(c, "w_copy", "w_head", NoOp)
  BY <1>1, CallShape DEF RbInv, WriteCopy
<1>3. pc[c] = "w_copy" /\ op[c].at = "idle" /\ pc'[c] = "w_head" /\ op'[c] = NoOp /\ Others(c) /\ count' = count
  BY <1>2 DEF Moves
<1>4. Used \in Nat /\ Copied \in Nat /\ Rest \in Nat /\ Used + Rest = Cap
      /\ head \in 0..Cap - 1 /\ tail \in 0..Cap - 1
  BY Indices
<1>5. Used' = Used /\ Rest' = Rest /\ Copied' = Copied
  BY SMTT(30), <1>2, <1>4, CallSums DEF RbInv, Sums
<1>6. HeldAt(pc[c], op[c]) /\ HeldAt(pc'[c], op'[c])
  BY <1>1, <1>3 DEF HeldAt
<1>7. MutualExclusion'
  BY <1>3, <1>6, MutexMove DEF RbInv
<1>8. Copied = 0
  BY <1>3, <1>6, HolderTail DEF RbInv, Bit
<1>9. Used < Cap
  <2>1. c \in Reserved
    BY <1>3, InSets
  <2>. QED
    BY SMTT(30), <1>4, <2>1, Member DEF RbInv
<1>10. buf' = [buf EXCEPT ![Index(head + 1)] = val[c]] /\ head' = head /\ tail' = tail /\ val' = val
  BY DEF WriteCopy
<1>11. head = Index(tail + Used)
  BY SMTT(30), <1>4, <1>8 DEF RbInv, Ends
<1>12. Index(head + 1) = Index(tail + Used + 1) /\ Index(head + 1) \in 0..Cap - 1
  <2>1. /\ tail + Used \in 0..2 * Cap - 1 /\ tail + Used + 1 \in 0..2 * Cap - 1 /\ head + 1 \in 0..2 * Cap - 1
    BY SMTT(30), <1>4, <1>9, CapIs
  <2>. QED
    BY SMTT(30), <1>4, <1>9, <1>11, <2>1, CapIs, IndexIs
<1>13. \A i \in 1..Used : Index(tail + Copied + i) \in 0..Cap - 1 /\ Index(tail + Copied + i) # Index(head + 1)
  <2>1. SUFFICES ASSUME NEW i \in 1..Used
                 PROVE  Index(tail + i) \in 0..Cap - 1 /\ Index(tail + i) # Index(tail + Used + 1)
    BY SMTT(30), <1>4, <1>8, <1>12
  <2>2. tail + i \in 0..2 * Cap - 1 /\ tail + Used + 1 \in 0..2 * Cap - 1
    BY SMTT(30), <1>4, <1>9, CapIs
  <2>. QED
    BY SMTT(30), <1>4, <1>9, <2>2, CapIs, IndexIs
<1>14. Contents' = Contents
  <2>1. Contents' = [i \in 1..Used |-> buf'[Index(tail + Copied + i)]]
    BY SMTT(30), <1>5, <1>10 DEF Contents, Index
  <2>2. \A i \in 1..Used : buf'[Index(tail + Copied + i)] = buf[Index(tail + Copied + i)]
    BY <1>10, <1>13 DEF RbInv, DataOK
  <2>. QED
    BY <2>1, <2>2 DEF Contents
<1>15. Counted' /\ Ends'
  BY <1>5, <1>10 DEF RbInv, Counted, Ends, Index
<1>16. DataOK'
  BY <1>10 DEF RbInv, DataOK
<1>17. Ready'
  <2>1. \A d \in Contexts : pc'[d] = "w_head" => d = c
    BY <1>3, <1>7, <1>6 DEF MutualExclusion, Holds, HeldAt
  <2>2. buf'[Index(head + 1)] = val[c]
    BY <1>10, <1>12 DEF RbInv, DataOK
  <2>. QED
    BY <1>10, <2>1, <2>2 DEF Ready, Index
<1>. QED
  BY <1>2, <1>7, <1>14, <1>15, <1>16, <1>17 DEF RbInv

(* ------------------- a byte goes in, a byte comes out ------------------ *)

\* Sequences given by their elements.
LEMMA SeqIs ==
    ASSUME NEW S, NEW n \in Nat, NEW s \in [1..n -> S]
    PROVE  s \in Seq(S) /\ Len(s) = n
BY SMTT(30)

\* Append, by its elements.
LEMMA AppendIs ==
    ASSUME NEW S, NEW n \in Nat, NEW s \in [1..n -> S], NEW t \in [1..n + 1 -> S], NEW e,
           \A i \in 1..n : t[i] = s[i], t[n + 1] = e
    PROVE  t = Append(s, e)
<1>1. s \in Seq(S) /\ Len(s) = n /\ t \in Seq(S) /\ Len(t) = n + 1
  BY SMTT(30), SeqIs
<1>. QED
  BY SMTT(30), <1>1

\* Head and Tail, by their elements.
LEMMA TailIs ==
    ASSUME NEW S, NEW n \in Nat, NEW s \in [1..n + 1 -> S], NEW t \in [1..n -> S],
           \A i \in 1..n : t[i] = s[i + 1]
    PROVE  s # <<>> /\ t = Tail(s) /\ Head(s) = s[1]
<1>1. s \in Seq(S) /\ Len(s) = n + 1 /\ t \in Seq(S) /\ Len(t) = n
  BY SMTT(30), SeqIs
<1>2. s # <<>> /\ Head(s) = s[1]
  BY SMTT(30), <1>1
<1>3. Tail(s) \in Seq(S) /\ Len(Tail(s)) = n /\ \A i \in 1..n : Tail(s)[i] = s[i + 1]
  BY SMTT(30), <1>1, <1>2
<1>4. t = Tail(s)
  BY SMTT(30), <1>1, <1>3
<1>. QED
  BY <1>2, <1>4

\* The items are where the indices say.
LEMMA ContentsType ==
    ASSUME DataOK, NEW u \in Nat, NEW k \in Nat, k + u <= Cap
    PROVE  \A i \in 1..u : buf[Index(tail + k + i)] \in Values
<1>1. SUFFICES ASSUME NEW i \in 1..u PROVE Index(tail + k + i) \in 0..Cap - 1
  BY DEF DataOK
<1>2. tail + k + i \in 0..2 * Cap - 1
  BY SMTT(30), CapIs DEF DataOK
<1>. QED
  BY SMTT(30), <1>2, CapIs, IndexIs

\* _rb_write moves head: a Put of Fifo.
LEMMA WriteHeadCase ==
    ASSUME RbInv, NEW c \in Contexts, Active(c), WriteHead(c)
    PROVE  RbInv' /\ Len(Contents) < Cap /\ Contents' = Append(Contents, val[c]) /\ val' = val
<1>1. queue \in Sems /\ OpOK(PostOp(queue)) /\ PostOp(queue).at = "v_inc" /\ "w_used" \in Pcs
  BY Ops, SemsAre DEF Pcs
<1>2. PcOK' /\ SemOK' /\ Moves(c, "w_head", "w_used", PostOp(queue))
  BY <1>1, CallShape DEF RbInv, WriteHead
<1>3. /\ pc[c] = "w_head" /\ op[c].at = "idle" /\ pc'[c] = "w_used" /\ op'[c] = PostOp(queue)
      /\ Others(c) /\ count' = count
  BY <1>2 DEF Moves
<1>4. Used \in Nat /\ Copied \in Nat /\ Rest \in Nat /\ Used + Rest = Cap
      /\ head \in 0..Cap - 1 /\ tail \in 0..Cap - 1
  BY Indices
<1>5. Used' = Used + 1 /\ Rest' = Rest - 1 /\ Copied' = Copied
  BY SMTT(30), <1>2, <1>4, CallSums DEF RbInv, Sums
<1>6. HeldAt(pc[c], op[c]) /\ HeldAt(pc'[c], op'[c])
  BY <1>1, <1>3 DEF HeldAt
<1>7. MutualExclusion'
  BY <1>3, <1>6, MutexMove DEF RbInv
<1>8. Copied = 0
  BY <1>3, <1>6, HolderTail DEF RbInv, Bit
<1>9. Used < Cap
  <2>1. c \in Reserved
    BY <1>3, InSets
  <2>. QED
    BY SMTT(30), <1>4, <2>1, Member DEF RbInv
<1>10. head' = Index(head + 1) /\ buf' = buf /\ tail' = tail /\ val' = val
  BY DEF WriteHead
<1>11. head = Index(tail + Used)
  BY SMTT(30), <1>4, <1>8 DEF RbInv, Ends
<1>12. Index(head + 1) = Index(tail + Used + 1) /\ Index(head + 1) \in 0..Cap - 1
  <2>1. /\ tail + Used \in 0..2 * Cap - 1 /\ tail + Used + 1 \in 0..2 * Cap - 1 /\ head + 1 \in 0..2 * Cap - 1
    BY SMTT(30), <1>4, <1>9, CapIs
  <2>. QED
    BY SMTT(30), <1>4, <1>9, <1>11, <2>1, CapIs, IndexIs
<1>13. Contents' = Append(Contents, val[c]) /\ Len(Contents) < Cap
  <2>. DEFINE at(i) == buf[Index(tail + i)]
  <2>1. Contents = [i \in 1..Used |-> buf[Index(tail + 0 + i)]]
    BY <1>8 DEF Contents
  <2>2. Contents' = [i \in 1..Used + 1 |-> buf[Index(tail + 0 + i)]]
    BY <1>5, <1>8, <1>10 DEF Contents, Index
  <2>3. Contents \in [1..Used -> Values]
    <3>1. Used \in Nat /\ 0 \in Nat /\ 0 + Used <= Cap
      BY SMTT(30), <1>4, <1>9, CapIs
    <3>2. \A i \in 1..Used : buf[Index(tail + 0 + i)] \in Values
      BY <3>1, ContentsType DEF RbInv
    <3>. QED
      BY <2>1, <3>2
  <2>4. Contents' \in [1..Used + 1 -> Values]
    <3>1. Used + 1 \in Nat /\ 0 \in Nat /\ 0 + (Used + 1) <= Cap
      BY SMTT(30), <1>4, <1>9, CapIs
    <3>2. \A i \in 1..Used + 1 : buf[Index(tail + 0 + i)] \in Values
      BY <3>1, ContentsType DEF RbInv
    <3>. QED
      BY <2>2, <3>2
  <2>5. \A i \in 1..Used : Contents'[i] = Contents[i]
    BY SMTT(30), <1>4, <2>1, <2>2
  <2>6. Contents'[Used + 1] = val[c]
    <3>1. Contents'[Used + 1] = buf[Index(tail + 0 + (Used + 1))]
      BY SMTT(30), <1>4, <2>2
    <3>2. tail + 0 + (Used + 1) = tail + Used + 1
      BY SMTT(30), <1>4
    <3>3. buf[Index(head + 1)] = val[c]
      BY <1>3 DEF RbInv, Ready
    <3>. QED
      BY <1>12, <3>1, <3>2, <3>3
  <2>7. Len(Contents) = Used
    BY <1>4, <2>3, SeqIs
  <2>. QED
    BY SMTT(30), <1>4, <1>9, <2>3, <2>4, <2>5, <2>6, <2>7, AppendIs
<1>14. Counted'
  BY SMTT(30), <1>4, <1>5 DEF RbInv, Counted
<1>15. Ends'
  <2>1. tail + Copied' + Used' = tail + Used + 1
    BY SMTT(30), <1>4, <1>5, <1>8
  <2>. QED
    BY <1>10, <1>12, <2>1 DEF Ends, Index
<1>16. DataOK'
  BY <1>10, <1>12 DEF RbInv, DataOK
<1>17. Ready'
  <2>1. \A d \in Contexts : pc'[d] # "w_head"
    BY <1>3, <1>7, <1>6 DEF MutualExclusion, Holds, HeldAt
  <2>. QED
    BY <2>1 DEF Ready
<1>. QED
  BY <1>2, <1>7, <1>10, <1>13, <1>14, <1>15, <1>16, <1>17 DEF RbInv

\* _rb_read copies the oldest byte: a Get of Fifo.
LEMMA ReadCopyCase ==
    ASSUME RbInv, NEW c \in Contexts, Active(c), ReadCopy(c)
    PROVE  /\ RbInv' /\ Contents # <<>> /\ Contents' = Tail(Contents)
           /\ val' = [val EXCEPT ![c] = Head(Contents)]
<1>1. OpOK(NoOp) /\ NoOp.at = "idle" /\ "r_tail" \in Pcs
  BY Ops DEF Pcs
<1>2. PcOK' /\ SemOK' /\ Moves(c, "r_copy", "r_tail", NoOp)
  BY <1>1, CallShape DEF RbInv, ReadCopy
<1>3. pc[c] = "r_copy" /\ op[c].at = "idle" /\ pc'[c] = "r_tail" /\ op'[c] = NoOp /\ Others(c) /\ count' = count
  BY <1>2 DEF Moves
<1>4. Used \in Nat /\ Copied \in Nat /\ Rest \in Nat /\ Used + Rest = Cap
      /\ head \in 0..Cap - 1 /\ tail \in 0..Cap - 1
  BY Indices
<1>5. Used' = Used - 1 /\ Rest' = Rest + 1 /\ Copied' = Copied + 1
  BY <1>2, <1>4, CallSums DEF RbInv, Sums
<1>6. HeldAt(pc[c], op[c]) /\ HeldAt(pc'[c], op'[c])
  BY <1>1, <1>3 DEF HeldAt
<1>7. MutualExclusion'
  BY <1>3, <1>6, MutexMove DEF RbInv
<1>8. Copied = 0
  BY <1>3, <1>6, HolderTail DEF RbInv, Bit
<1>9. Used >= 1
  <2>1. c \in Claimed
    BY <1>3, InSets
  <2>. QED
    BY <1>4, <2>1, Member DEF RbInv
<1>10. head' = head /\ buf' = buf /\ tail' = tail /\ val' = [val EXCEPT ![c] = buf[Index(tail + 1)]]
  BY DEF ReadCopy
<1>11. PICK n \in Nat : Used = n + 1
  <2>1. Used - 1 \in Nat /\ Used = (Used - 1) + 1
    BY SMTT(30), <1>4, <1>9
  <2>. QED
    BY <2>1
<1>12. Contents # <<>> /\ Contents' = Tail(Contents) /\ Head(Contents) = buf[Index(tail + 1)]
  <2>1. Contents = [i \in 1..n + 1 |-> buf[Index(tail + 0 + i)]]
    BY <1>8, <1>11 DEF Contents
  <2>2. Contents' = [i \in 1..n |-> buf[Index(tail + 1 + i)]]
    <3>1. Used' = n /\ Copied' = 1
      BY SMTT(30), <1>5, <1>8, <1>11
    <3>. QED
      BY <1>10, <3>1 DEF Contents, Index
  <2>3. Contents \in [1..n + 1 -> Values]
    <3>1. n + 1 \in Nat /\ 0 \in Nat /\ 0 + (n + 1) <= Cap
      BY SMTT(30), <1>4, <1>11, CapIs
    <3>2. \A i \in 1..n + 1 : buf[Index(tail + 0 + i)] \in Values
      BY <3>1, ContentsType DEF RbInv
    <3>. QED
      BY <2>1, <3>2
  <2>4. Contents' \in [1..n -> Values]
    <3>1. n \in Nat /\ 1 \in Nat /\ 1 + n <= Cap
      BY SMTT(30), <1>4, <1>11, CapIs
    <3>2. \A i \in 1..n : buf[Index(tail + 1 + i)] \in Values
      BY <3>1, ContentsType DEF RbInv
    <3>. QED
      BY <2>2, <3>2
  <2>5. \A i \in 1..n : Contents'[i] = Contents[i + 1]
    <3>1. SUFFICES ASSUME NEW i \in 1..n PROVE Contents'[i] = Contents[i + 1]
      OBVIOUS
    <3>2. tail + 1 + i = tail + 0 + (i + 1)
      BY SMTT(30), <1>4
    <3>3. i + 1 \in 1..n + 1
      BY SMTT(30)
    <3>. QED
      BY <2>1, <2>2, <3>2, <3>3
  <2>6. Contents[1] = buf[Index(tail + 1)]
    <3>1. tail + 0 + 1 = tail + 1 /\ 1 \in 1..n + 1
      BY SMTT(30), <1>4
    <3>. QED
      BY <2>1, <3>1
  <2>. QED
    BY SMTT(30), <2>3, <2>4, <2>5, <2>6, TailIs
<1>13. Counted'
  BY SMTT(30), <1>4, <1>5 DEF RbInv, Counted
<1>14. Ends'
  <2>1. tail + Copied' + Used' = tail + Copied + Used
    BY SMTT(30), <1>4, <1>5, <1>8
  <2>. QED
    BY <1>10, <2>1 DEF RbInv, Ends, Index
<1>15. DataOK'
  <2>1. tail + 1 \in 0..2 * Cap - 1
    BY SMTT(30), <1>4, CapIs
  <2>2. Index(tail + 1) \in 0..Cap - 1
    BY SMTT(30), <1>4, <2>1, CapIs, IndexIs
  <2>3. buf[Index(tail + 1)] \in Values
    BY <2>2 DEF RbInv, DataOK
  <2>. QED
    BY <1>10, <2>3 DEF RbInv, DataOK
<1>16. Ready'
  <2>1. \A d \in Contexts : pc'[d] # "w_head"
    BY <1>3, <1>7, <1>6 DEF MutualExclusion, Holds, HeldAt
  <2>. QED
    BY <2>1 DEF Ready
<1>. QED
  BY <1>2, <1>7, <1>10, <1>12, <1>13, <1>14, <1>15, <1>16 DEF RbInv

\* _rb_read moves tail past the byte it has copied: nothing to Fifo.
LEMMA ReadTailCase ==
    ASSUME RbInv, NEW c \in Contexts, Active(c), ReadTail(c)
    PROVE  RbInv' /\ Contents' = Contents /\ val' = val
<1>1. queue \in Sems /\ OpOK(PostOp(queue)) /\ PostOp(queue).at = "v_inc" /\ "r_free" \in Pcs
  BY Ops, SemsAre DEF Pcs
<1>2. PcOK' /\ SemOK' /\ Moves(c, "r_tail", "r_free", PostOp(queue))
  BY <1>1, CallShape DEF RbInv, ReadTail
<1>3. /\ pc[c] = "r_tail" /\ op[c].at = "idle" /\ pc'[c] = "r_free" /\ op'[c] = PostOp(queue)
      /\ Others(c) /\ count' = count
  BY <1>2 DEF Moves
<1>4. Used \in Nat /\ Copied \in Nat /\ Rest \in Nat /\ Used + Rest = Cap
      /\ head \in 0..Cap - 1 /\ tail \in 0..Cap - 1
  BY Indices
<1>5. Used' = Used /\ Rest' = Rest /\ Copied' = Copied - 1
  BY SMTT(30), <1>2, <1>4, CallSums DEF RbInv, Sums
<1>6. HeldAt(pc[c], op[c]) /\ HeldAt(pc'[c], op'[c])
  BY <1>1, <1>3 DEF HeldAt
<1>7. MutualExclusion'
  BY <1>3, <1>6, MutexMove DEF RbInv
<1>8. Copied = 1
  BY <1>3, <1>6, HolderTail DEF RbInv, Bit
<1>9. Used + 1 <= Cap
  <2>1. c \in Returning
    BY <1>3, InSets
  <2>. QED
    BY SMTT(30), <1>4, <2>1, Member DEF RbInv
<1>10. tail' = Index(tail + 1) /\ buf' = buf /\ head' = head /\ val' = val
  BY DEF ReadTail
<1>11. tail' \in 0..Cap - 1 /\ \A i \in 0..Used : Index(tail' + i) = Index(tail + 1 + i)
  <2>1. SUFFICES ASSUME NEW i \in 0..Used
                 PROVE  tail' \in 0..Cap - 1 /\ Index(tail' + i) = Index(tail + 1 + i)
    BY SMTT(30), <1>4
  <2>2. tail + 1 \in 0..2 * Cap - 1 /\ tail + 1 + i \in 0..2 * Cap - 1
    BY SMTT(30), <1>4, <1>9, CapIs
  <2>3. tail' = IF tail + 1 < Cap THEN tail + 1 ELSE 0
    BY SMTT(30), <1>4, <1>10, <2>2, CapIs, IndexIs
  <2>4. tail' + i \in 0..2 * Cap - 1 /\ tail' \in 0..Cap - 1
    BY SMTT(30), <1>4, <1>9, <2>3, CapIs
  <2>. QED
    BY SMTT(30), <1>4, <1>9, <2>2, <2>3, <2>4, CapIs, IndexIs
<1>12. Contents' = Contents
  <2>1. Contents' = [i \in 1..Used |-> buf[Index(tail' + 0 + i)]]
    BY SMTT(30), <1>5, <1>8, <1>10 DEF Contents, Index
  <2>2. Contents = [i \in 1..Used |-> buf[Index(tail + 1 + i)]]
    BY <1>8 DEF Contents
  <2>3. \A i \in 1..Used : Index(tail' + 0 + i) = Index(tail + 1 + i)
    BY SMTT(30), <1>4, <1>11
  <2>. QED
    BY <2>1, <2>2, <2>3
<1>13. Counted'
  BY <1>4, <1>5 DEF RbInv, Counted
<1>14. Ends'
  <2>1. head' = Index(tail + 1 + Used)
    BY <1>8, <1>10 DEF RbInv, Ends
  <2>2. Index(tail' + Used) = Index(tail + 1 + Used)
    BY SMTT(30), <1>4, <1>11
  <2>3. tail' + Copied' + Used' = tail' + Used
    BY SMTT(30), <1>4, <1>5, <1>8, <1>11
  <2>. QED
    BY <2>1, <2>2, <2>3 DEF Ends, Index
<1>15. DataOK'
  BY <1>10, <1>11 DEF RbInv, DataOK
<1>16. Ready'
  <2>1. \A d \in Contexts : pc'[d] # "w_head"
    BY <1>3, <1>7, <1>6 DEF MutualExclusion, Holds, HeldAt
  <2>. QED
    BY <2>1 DEF Ready
<1>. QED
  BY <1>2, <1>7, <1>10, <1>12, <1>13, <1>14, <1>15, <1>16 DEF RbInv

(* ---------------------------- the refinement --------------------------- *)

\* A step that touches neither the code's points nor the data.
LEMMA Still ==
    ASSUME RbInv, pc' = pc, op' = op, count' = count, host' = host, current' \in AllTasks,
           buf' = buf, head' = head, tail' = tail, val' = val
    PROVE  RbInv' /\ Contents' = Contents
<1>1. SemOK' /\ PcOK' /\ DataOK'
  BY DEF RbInv, SemOK, PcOK, DataOK
<1>2. MutualExclusion'
  BY DEF RbInv, MutualExclusion, Holds
<1>3. Used' = Used /\ Rest' = Rest /\ Copied' = Copied
  BY DEF Used, Rest, Copied, Claimed, Unannounced, Reserved, Returning
<1>4. Counted' /\ Ends' /\ Ready' /\ Contents' = Contents
  BY <1>3 DEF RbInv, Counted, Ends, Ready, Contents, Index
<1>. QED
  BY <1>1, <1>2, <1>4 DEF RbInv

\* A step of an interrupt's entry or return.
LEMMA KbdStill ==
    ASSUME RbInv, NEW h \in Handlers, NEW to \in {"idle", "kbd_test"},
           pc[h] \in {"idle", "kbd_test"}, op[h].at = "idle", op' = op, pc' = [pc EXCEPT ![h] = to],
           count' = count, current' = current, buf' = buf, head' = head, tail' = tail, val' = val,
           NEW t \in AllTasks \cup {Nobody}, host' = [host EXCEPT ![h] = t], t = Nobody => to = "idle"
    PROVE  RbInv' /\ Contents' = Contents
<1>0. h \in Contexts
  BY DEF Contexts
<1>1. SemOK'
  BY DEF RbInv, SemOK
<1>2. Others(h) /\ pc'[h] = to /\ pc' \in [Contexts -> Pcs]
  BY <1>0 DEF RbInv, PcOK, Others, Pcs
<1>3. Shape(pc'[h], op'[h])
  BY <1>2 DEF Shape
<1>4. host' \in [Handlers -> AllTasks \cup {Nobody}] /\ host'[h] = t
  BY DEF RbInv, PcOK
<1>5. \A g \in Handlers : host'[g] = Nobody => \/ g # h /\ host[g] = Nobody
                                               \/ pc'[g] = "idle" /\ op'[g].at = "idle"
  BY <1>2, <1>4 DEF RbInv, PcOK
<1>6. PcOK'
  BY <1>0, <1>2, <1>3, <1>4, <1>5, ShapeOthers DEF RbInv
<1>7. Moves(h, pc[h], to, op[h])
  BY <1>2 DEF Moves
<1>8. Sums(0, 0, 0)
  BY <1>0, <1>1, <1>7, CallSums DEF RbInv
<1>9. ~HeldAt(pc[h], op[h]) /\ ~HeldAt(pc'[h], op'[h])
  BY <1>2 DEF HeldAt
<1>10. MutualExclusion'
  BY <1>0, <1>2, <1>9, MutexMove DEF RbInv
<1>11. val' \in [Contexts -> Values]
  BY DEF RbInv, DataOK
<1>. QED
  BY <1>0, <1>1, <1>2, <1>6, <1>8, <1>10, <1>11, QuietStep

\* A writer with its byte: an Offer of Fifo.
LEMMA WriteBeginCase ==
    ASSUME RbInv, NEW c \in Contexts, Active(c), NEW from \in {"idle", "kbd_test"}, WriteBegin(c, from)
    PROVE  RbInv' /\ F!Next
<1>1. PICK v \in Values : val' = [val EXCEPT ![c] = v]
  BY DEF WriteBegin
<1>2. val' \in [Contexts -> Values] /\ \A d \in Contexts \ {c} : val'[d] = val[d]
  BY <1>1 DEF RbInv, DataOK
<1>3. Call(c, from, "w_free", PendOp(n_free)) /\ buf' = buf /\ head' = head /\ tail' = tail /\ "w_free" \in Pcs
  BY DEF WriteBegin, Pcs
<1>4. RbInv' /\ Contents' = Contents
  BY <1>2, <1>3, QuietCall
<1>5. F!Offer(c, v)
  BY <1>1, <1>4 DEF F!Offer
<1>. QED
  BY <1>4, <1>5 DEF F!Next

\* A step inside _rb_write or _rb_read.
LEMMA RbStepCase ==
    ASSUME RbInv, NEW c \in Contexts, Active(c), RbStep(c)
    PROVE  RbInv' /\ (F!Next \/ UNCHANGED F!vars)
<1>0. val \in [Contexts -> Values] /\ Pcs = Pcs /\ {"w_copy", "idle", "r_copy"} \subseteq Pcs
  BY DEF RbInv, DataOK, Pcs
<1>a. ASSUME RbInv', Contents' = Contents, val' = val
      PROVE  RbInv' /\ (F!Next \/ UNCHANGED F!vars)
  BY <1>a DEF F!vars
<1>1. CASE WriteLock(c)
  <2>1. Call(c, "w_free", "w_copy", PendOp(queue)) /\ buf' = buf /\ head' = head /\ tail' = tail /\ val' = val
    BY <1>1 DEF WriteLock, dataVars
  <2>. QED
    BY <1>0, <1>a, <2>1, QuietCall
<1>2. CASE WriteCopy(c)
  <2>1. val' = val
    BY <1>2 DEF WriteCopy
  <2>. QED
    BY <1>2, <1>a, <2>1, WriteCopyCase
<1>3. CASE WriteHead(c)
  <2>1. RbInv' /\ Len(Contents) < Cap /\ Contents' = Append(Contents, val[c]) /\ val' = val
    BY <1>3, WriteHeadCase
  <2>2. F!Put(c)
    BY <2>1 DEF F!Put
  <2>. QED
    BY <2>1, <2>2 DEF F!Next
<1>4. CASE WritePost(c)
  <2>1. Call(c, "w_used", "idle", PostOp(n_used)) /\ buf' = buf /\ head' = head /\ tail' = tail /\ val' = val
    BY <1>4 DEF WritePost, dataVars
  <2>. QED
    BY <1>0, <1>a, <2>1, QuietCall
<1>5. CASE ReadLock(c)
  <2>1. Call(c, "r_used", "r_copy", PendOp(queue)) /\ buf' = buf /\ head' = head /\ tail' = tail /\ val' = val
    BY <1>5 DEF ReadLock, dataVars
  <2>. QED
    BY <1>0, <1>a, <2>1, QuietCall
<1>6. CASE ReadCopy(c)
  <2>1. /\ RbInv' /\ Contents # <<>> /\ Contents' = Tail(Contents)
        /\ val' = [val EXCEPT ![c] = Head(Contents)]
    BY <1>6, ReadCopyCase
  <2>2. F!Get(c)
    BY <2>1 DEF F!Get
  <2>. QED
    BY <2>1, <2>2 DEF F!Next
<1>7. CASE ReadTail(c)
  BY <1>7, <1>a, ReadTailCase
<1>8. CASE ReadPost(c)
  <2>1. Call(c, "r_free", "idle", PostOp(n_free)) /\ buf' = buf /\ head' = head /\ tail' = tail /\ val' = val
    BY <1>8 DEF ReadPost, dataVars
  <2>. QED
    BY <1>0, <1>a, <2>1, QuietCall
<1>9. CASE SemStep(c) /\ UNCHANGED <<pc, buf, head, tail, val>>
  BY <1>9, <1>a, SemCase
<1>. QED
  BY <1>1, <1>2, <1>3, <1>4, <1>5, <1>6, <1>7, <1>8, <1>9 DEF RbStep

\* Every step keeps the invariant and is a step of Fifo or none.
LEMMA RbNext ==
    ASSUME RbInv, [Next]_vars
    PROVE  RbInv' /\ (F!Next \/ UNCHANGED F!vars)
<1>a. ASSUME RbInv', Contents' = Contents, val' = val
      PROVE  RbInv' /\ (F!Next \/ UNCHANGED F!vars)
  BY <1>a DEF F!vars
<1>b. current \in AllTasks /\ val \in [Contexts -> Values]
  BY DEF RbInv, SemOK, DataOK
<1>c. \A c \in Contexts : Runs(c) => Active(c)
  BY RunsActive DEF RbInv
<1>1. ASSUME NEW t \in Tasks, Step(t) PROVE RbInv' /\ (F!Next \/ UNCHANGED F!vars)
  <2>1. t \in Contexts /\ Active(t)
    BY <1>1, <1>c DEF Contexts, Step
  <2>2. CASE WriteBegin(t, "idle")
    BY <2>1, <2>2, WriteBeginCase
  <2>3. CASE ReadBegin(t)
    <3>1. Call(t, "idle", "r_used", PendOp(n_used)) /\ buf' = buf /\ head' = head /\ tail' = tail /\ val' = val
      BY <2>3 DEF ReadBegin, dataVars
    <3>2. "r_used" \in Pcs
      BY DEF Pcs
    <3>. QED
      BY <1>a, <1>b, <2>1, <3>1, <3>2, QuietCall
  <2>4. CASE RbStep(t)
    BY <2>1, <2>4, RbStepCase
  <2>. QED
    BY <1>1, <2>2, <2>3, <2>4 DEF Step
<1>2. ASSUME NEW h \in Handlers, KbdIrq(h) PROVE RbInv' /\ (F!Next \/ UNCHANGED F!vars)
  <2>1. pc[h] = "idle" /\ op[h].at = "idle"
    BY <1>2 DEF KbdIrq, Interrupt, RbInv, PcOK
  <2>2. /\ op' = op /\ pc' = [pc EXCEPT ![h] = "kbd_test"] /\ host' = [host EXCEPT ![h] = current]
        /\ count' = count /\ current' = current /\ buf' = buf /\ head' = head /\ tail' = tail /\ val' = val
    BY <1>2 DEF KbdIrq, Interrupt
  <2>3. current # Nobody
    BY <1>b, RingBufAssumption
  <2>. QED
    BY <1>a, <1>b, <2>1, <2>2, <2>3, KbdStill
<1>3. ASSUME NEW h \in Handlers, HandlerStep(h) PROVE RbInv' /\ (F!Next \/ UNCHANGED F!vars)
  <2>1. h \in Contexts /\ Active(h)
    BY <1>3, <1>c DEF Contexts, HandlerStep
  <2>2. CASE KbdDrop(h)
    <3>1. /\ pc[h] = "kbd_test" /\ op[h].at = "idle" /\ op' = op /\ pc' = [pc EXCEPT ![h] = "idle"]
          /\ host' = [host EXCEPT ![h] = Nobody]
          /\ count' = count /\ current' = current /\ buf' = buf /\ head' = head /\ tail' = tail /\ val' = val
      BY <2>2 DEF KbdDrop, Iret
    <3>. QED
      BY <1>a, <3>1, KbdStill
  <2>3. CASE KbdWrite(h)
    BY <2>1, <2>3, WriteBeginCase DEF KbdWrite
  <2>4. CASE KbdReturn(h)
    <3>1. /\ pc[h] = "idle" /\ op[h].at = "idle" /\ op' = op /\ pc' = pc
          /\ host' = [host EXCEPT ![h] = Nobody]
          /\ count' = count /\ current' = current /\ buf' = buf /\ head' = head /\ tail' = tail /\ val' = val
      BY <2>4 DEF KbdReturn, Iret
    <3>2. pc' = [pc EXCEPT ![h] = "idle"]
      BY <2>1, <3>1 DEF RbInv, PcOK
    <3>. QED
      BY <1>a, <3>1, <3>2, KbdStill
  <2>5. CASE RbStep(h)
    BY <2>1, <2>5, RbStepCase
  <2>. QED
    BY <1>3, <2>2, <2>3, <2>4, <2>5 DEF HandlerStep
<1>4. ASSUME NEW t \in AllTasks, Switch(t) PROVE RbInv' /\ (F!Next \/ UNCHANGED F!vars)
  BY <1>4, <1>a, Still DEF Switch, Preempt
<1>5. CASE UNCHANGED vars
  BY <1>5, <1>a, <1>b, Still DEF vars
<1>. QED
  BY <1>1, <1>2, <1>3, <1>4, <1>5 DEF Next

\* An empty buffer.
LEMMA RbInit ==
    ASSUME Init
    PROVE  RbInv /\ F!Init
<1>1. /\ current = Idle /\ count = RbInitCount /\ op = [c \in Contexts |-> NoOp]
      /\ host = [h \in Handlers |-> Nobody]
  BY RingBufAssumption DEF Init, SyncInit
<1>2. PICK v \in Values : buf = [i \in 0..Cap - 1 |-> v]
  BY DEF Init
<1>3. PICK w \in Values : val = [c \in Contexts |-> w]
  BY DEF Init
<1>4. head = 0 /\ tail = 0 /\ pc = [c \in Contexts |-> "idle"]
  BY DEF Init
<1>5. SemOK
  <2>1. RbInitCount \in [Sems -> Nat]
    BY CapIs DEF RbInitCount
  <2>. QED
    BY <1>1, <2>1, Ops DEF SemOK, AllTasks
<1>6. PcOK
  BY <1>1, <1>4, Ops DEF PcOK, Shape, Contexts, Pcs
<1>7. DataOK
  BY SMTT(30), <1>2, <1>3, <1>4, CapIs DEF DataOK
<1>8. MutualExclusion
  <2>1. \A c \in Contexts : ~Holds(c)
    BY <1>1, <1>4, Ops DEF Holds
  <2>. QED
    BY <1>1, <2>1, SemsAre DEF MutualExclusion, RbInitCount
<1>9. /\ Claimed = {} /\ Unannounced = {} /\ Reserved = {} /\ Returning = {} /\ InTail = {}
  BY <1>1, <1>4, Ops DEF Claimed, Unannounced, Reserved, Returning, InTail
<1>10. Cardinality({}) = 0
  BY FS_EmptySet
<1>11. Used = 0 /\ Rest = Cap /\ Copied = 0
  BY SMTT(30), <1>1, <1>9, <1>10, SemsAre, CapIs DEF Used, Rest, Copied, InTail, RbInitCount
<1>12. Counted /\ Ready
  BY SMTT(30), <1>4, <1>11, CapIs DEF Counted, Ready
<1>13. Ends
  <2>1. 0 \in 0..2 * Cap - 1 /\ 0 < Cap
    BY SMTT(30), CapIs
  <2>. QED
    BY SMTT(30), <1>4, <1>11, <2>1, IndexIs DEF Ends
<1>14. F!Init
  BY SMTT(30), <1>3, <1>11 DEF F!Init, Contents
<1>. QED
  BY <1>5, <1>6, <1>7, <1>8, <1>12, <1>13, <1>14 DEF RbInv

\* The inductive invariant.
LEMMA RbAlways == Spec => []RbInv
<1>1. Init => RbInv
  BY RbInit
<1>2. RbInv /\ [Next]_vars => RbInv'
  BY RbNext
<1>. QED
  BY <1>1, <1>2, PTL DEF Spec

\* The queue semaphore of lib/ringbuf.c is a lock: one context at most is between
\* the pend and the increment of the post, and the count says whether there is one.
THEOREM LockHeldOnce == Spec => []MutualExclusion
<1>1. RbInv => MutualExclusion
  BY DEF RbInv
<1>. QED
  BY <1>1, RbAlways, PTL

\* _rb_write and _rb_read implement Fifo: no byte is lost, duplicated, reordered or
\* overwritten, and no more than cap are in the buffer.
THEOREM BufferIsQueue == Spec => ImplementsFifo
<1>1. Init => F!Init
  BY RbInit
<1>2. RbInv /\ [Next]_vars => [F!Next]_F!vars
  BY RbNext
<1>. QED
  BY <1>1, <1>2, RbAlways, PTL DEF Spec, ImplementsFifo, F!Spec

(* ------------------------ the interrupt handler ------------------------ *)

\* Tasks make their calls with interrupts off, or no handler is there.
CallsMasked == Handlers = {} \/ Tasks \subseteq Masked

\* Only the current task is beyond a sem_pend; a handler runs on it alone,
\* while it is outside of any call, and finds what it pends for.
Undisturbed ==
    /\ \A h \in Handlers : host[h] # Nobody => host[h] = current
    /\ \A h, g \in Handlers : host[h] # Nobody /\ host[g] # Nobody => h = g
    /\ \A h \in Handlers : host[h] # Nobody => current \notin Busy
    /\ \A t \in Tasks : t # current => (pc[t] = "idle" /\ op[t].at = "idle") \/ op[t].at = "p_read"
    /\ \A h \in Handlers : /\ pc[h] \notin {"r_used", "r_copy", "r_tail", "r_free"}
                           /\ op[h].at # "p_sleep"
                           /\ op[h].at \in {"p_read", "p_cas"} => count[op[h].s] # 0
                           /\ op[h].at = "p_cas" => op[h].val = count[op[h].s]

\* What a step of a context leaves alone.
LEMMA OneMoves ==
    ASSUME RbInv, NEW c \in Contexts,
           RbStep(c) \/ ReadBegin(c) \/ \E from : WriteBegin(c, from)
    PROVE  /\ Others(c) /\ host' = host
           /\ current' = current \/ (op[c].at = "p_sleep" /\ op'[c].at = "p_read")
<1>a. ASSUME NEW from, NEW to, NEW o, Call(c, from, to, o)
      PROVE  Others(c) /\ host' = host /\ current' = current
  BY <1>a DEF Call, Goto, RbInv, PcOK, SemOK, Others
<1>1. CASE ReadBegin(c)
  BY <1>1, <1>a DEF ReadBegin
<1>2. CASE \E from : WriteBegin(c, from)
  BY <1>2, <1>a DEF WriteBegin
<1>3. CASE WriteLock(c) \/ WriteCopy(c) \/ WriteHead(c) \/ WritePost(c)
  BY <1>3, <1>a DEF WriteLock, WriteCopy, WriteHead, WritePost
<1>4. CASE ReadLock(c) \/ ReadCopy(c) \/ ReadTail(c) \/ ReadPost(c)
  BY <1>4, <1>a DEF ReadLock, ReadCopy, ReadTail, ReadPost
<1>5. CASE SemStep(c) /\ UNCHANGED <<pc, buf, head, tail, val>>
  <2>1. host' = host /\ \A d \in Contexts \ {c} : op'[d] = op[d]
    BY <1>5, SemStepKind DEF RbInv
  <2>2. Others(c)
    BY <1>5, <2>1 DEF Others
  <2>3. CASE PendSleep(c)
    <3>1. op[c].at = "p_sleep" /\ op'[c] = PendOp(op[c].s)
      BY <2>3 DEF PendSleep, Goto, RbInv, SemOK
    <3>. QED
      BY SMTT(30), <2>1, <2>2, <3>1 DEF PendOp
  <2>4. CASE ~PendSleep(c)
    <3>1. current' = current
      BY <1>5, <2>4 DEF SemStep, PendRead, PendCas, PostInc, PostTest, PostFirst, PostLoad, PostNext,
               PostPrev,
                        PostSelf, PostWake
    <3>. QED
      BY <2>1, <2>2, <3>1
  <2>. QED
    BY <2>3, <2>4
<1>. QED
  BY <1>1, <1>2, <1>3, <1>4, <1>5 DEF RbStep

\* Tasks, handlers and kidle are distinct.
LEMMA Disjoint == Tasks \cap Handlers = {} /\ Idle \notin Tasks /\ Nobody \notin AllTasks
BY RingBufAssumption DEF AllTasks

\* A task runs only while no handler does.
LEMMA TaskUndisturbed ==
    ASSUME RbInv, Undisturbed, NEW t \in Tasks, Step(t)
    PROVE  Undisturbed'
<1>1. t \in Contexts /\ t = current /\ \A h \in Handlers : host[h] = Nobody
  BY Disjoint DEF Step, Runs, Contexts, Undisturbed
<1>2. /\ Others(t) /\ host' = host
      /\ current' = current \/ op'[t].at = "p_read"
  BY <1>1, OneMoves DEF Step
<1>3. \A h \in Handlers : h \in Contexts \ {t} /\ pc[h] = "idle" /\ op[h].at = "idle"
  BY <1>1, Disjoint DEF RbInv, PcOK, Contexts
<1>4. \A h \in Handlers : host'[h] = Nobody /\ pc'[h] = "idle" /\ op'[h].at = "idle"
  BY <1>1, <1>2, <1>3 DEF Others
<1>5. \A u \in Tasks : u # current' => (pc'[u] = "idle" /\ op'[u].at = "idle") \/ op'[u].at = "p_read"
  <2>1. SUFFICES ASSUME NEW u \in Tasks, u # current'
                 PROVE  (pc'[u] = "idle" /\ op'[u].at = "idle") \/ op'[u].at = "p_read"
    OBVIOUS
  <2>2. CASE u = t
    BY <1>1, <1>2, <2>1, <2>2
  <2>3. CASE u # t
    BY <1>1, <1>2, <2>3 DEF Undisturbed, Others, Contexts
  <2>. QED
    BY <2>2, <2>3
<1>. QED
  BY <1>4, <1>5 DEF Undisturbed

\* A handler does not read, does not sleep, and finds a unit of what it pends for.
HandlerOK(p, o, n) ==
    /\ p \notin {"r_used", "r_copy", "r_tail", "r_free"}
    /\ o.at # "p_sleep"
    /\ o.at \in {"p_read", "p_cas"} => n[o.s] # 0
    /\ o.at = "p_cas" => o.val = n[o.s]

\* While a handler runs nobody has the lock, unless it is the handler itself.
LEMMA LockIsFree ==
    ASSUME RbInv, Undisturbed, NEW h \in Handlers, host[h] # Nobody, ~HeldAt(pc[h], op[h])
    PROVE  count[queue] = 1
<1>1. \A t \in Tasks : ~HeldAt(pc[t], op[t])
  <2>1. SUFFICES ASSUME NEW t \in Tasks PROVE ~HeldAt(pc[t], op[t])
    OBVIOUS
  <2>2. (pc[t] = "idle" /\ op[t].at = "idle") \/ op[t].at = "p_read"
    BY DEF Undisturbed, Busy
  <2>3. Shape(pc[t], op[t])
    BY DEF RbInv, PcOK, Contexts
  <2>. QED
    BY <2>2, <2>3 DEF HeldAt, Shape
<1>2. \A g \in Handlers : ~HeldAt(pc[g], op[g])
  BY DEF Undisturbed, RbInv, PcOK, HeldAt
<1>3. \A c \in Contexts : ~Holds(c)
  BY <1>1, <1>2 DEF Holds, HeldAt, Contexts
<1>. QED
  BY <1>3 DEF RbInv, MutualExclusion

\* A handler keeps the CPU, and finds a unit of what it pends for.
LEMMA HandlerMoves ==
    ASSUME RbInv, Undisturbed, NEW h \in Handlers, HandlerStep(h)
    PROVE  /\ host[h] = current /\ Others(h) /\ current' = current
           /\ host' \in {host, [host EXCEPT ![h] = Nobody]}
           /\ HandlerOK(pc'[h], op'[h], count')
<1>0. h \in Contexts /\ host[h] = current /\ current \in AllTasks /\ current # Nobody
  BY Disjoint DEF HandlerStep, Runs, Contexts, RbInv, SemOK
<1>1. HandlerOK(pc[h], op[h], count) /\ Shape(pc[h], op[h]) /\ OpOK(op[h]) /\ pc[h] \in Pcs
  BY <1>0 DEF Undisturbed, HandlerOK, RbInv, PcOK, SemOK
<1>2. CASE RbStep(h)
  <2>1. Others(h) /\ host' = host /\ current' = current
    BY <1>0, <1>1, <1>2, OneMoves DEF HandlerOK
  <2>2. HandlerOK(pc'[h], op'[h], count')
    <3>a. ASSUME NEW from, NEW to, NEW o, Call(h, from, to, o)
          PROVE  pc'[h] = to /\ op'[h] = o /\ count' = count /\ pc[h] = from /\ op[h].at = "idle"
      BY <1>0, <3>a DEF Call, Goto, RbInv, PcOK, SemOK
    <3>1. CASE WriteLock(h)
      <4>1. pc[h] = "w_free" /\ pc'[h] = "w_copy" /\ op'[h] = PendOp(queue) /\ count' = count
        BY <3>1, <3>a DEF WriteLock
      <4>2. count[queue] = 1
        BY <1>0, <4>1, LockIsFree DEF HeldAt
      <4>. QED
        BY SMTT(30), <4>1, <4>2 DEF HandlerOK, PendOp
    <3>2. CASE WriteCopy(h)
      <4>1. pc'[h] = "w_head" /\ op'[h] = NoOp
        BY <3>2, <3>a DEF WriteCopy
      <4>. QED
        BY SMTT(30), <4>1 DEF HandlerOK, NoOp
    <3>3. CASE WriteHead(h)
      <4>1. pc'[h] = "w_used" /\ op'[h] = PostOp(queue)
        BY <3>3, <3>a DEF WriteHead
      <4>. QED
        BY SMTT(30), <4>1 DEF HandlerOK, PostOp
    <3>4. CASE WritePost(h)
      <4>1. pc'[h] = "idle" /\ op'[h] = PostOp(n_used)
        BY <3>4, <3>a DEF WritePost
      <4>. QED
        BY SMTT(30), <4>1 DEF HandlerOK, PostOp
    <3>5. CASE ReadLock(h) \/ ReadCopy(h) \/ ReadTail(h) \/ ReadPost(h)
      <4>1. pc[h] \in {"r_used", "r_copy", "r_tail", "r_free"}
        BY <3>5 DEF ReadLock, ReadCopy, ReadTail, ReadPost, Call
      <4>. QED
        BY <1>1, <4>1 DEF HandlerOK
    <3>6. CASE SemStep(h) /\ pc' = pc
      <4>1. SemKind(h) /\ SemOK'
        BY <1>0, <3>6, SemStepKind DEF RbInv
      <4>2. CASE PendRead(h)
        <5>1. op[h].at = "p_read" /\ count[op[h].s] # 0 /\ count' = count
          BY <1>1, <4>2 DEF PendRead, HandlerOK
        <5>2. op'[h] = [at |-> "p_cas", s |-> op[h].s, try |-> op[h].try, val |-> count[op[h].s]]
          BY <1>0, <4>2, <5>1 DEF PendRead, Goto, RbInv, SemOK
        <5>. QED
          BY SMTT(30), <1>1, <3>6, <5>1, <5>2 DEF HandlerOK
      <4>3. CASE PendCas(h)
        <5>1. op[h].at = "p_cas" /\ count[op[h].s] = op[h].val
          BY <1>1, <4>3 DEF PendCas, HandlerOK
        <5>2. op'[h] = NoOp
          BY <1>0, <4>3, <5>1 DEF PendCas, Goto, RbInv, SemOK
        <5>. QED
          BY SMTT(30), <1>1, <3>6, <5>2 DEF HandlerOK, NoOp
      <4>4. CASE PendSleep(h)
        BY <1>1, <4>4 DEF HandlerOK, PendSleep
      <4>5. CASE op[h].at \in {"v_inc"} \cup WakePoints
        <5>1. op'[h].at \in {"idle"} \cup WakePoints
          BY <4>1, <4>5, Ops DEF SemKind, PendPoints, WakePoints
        <5>. QED
          BY <1>1, <3>6, <5>1 DEF HandlerOK, WakePoints
      <4>6. op[h].at \in {"v_inc"} \cup WakePoints \/ PendRead(h) \/ PendCas(h) \/ PendSleep(h)
        BY <3>6 DEF SemStep, PostInc, PostTest, PostFirst, PostLoad, PostNext, PostPrev, PostSelf, PostWake,
                    WakePoints
      <4>. QED
        BY <4>2, <4>3, <4>4, <4>5, <4>6
    <3>. QED
      BY <1>2, <3>1, <3>2, <3>3, <3>4, <3>5, <3>6 DEF RbStep
  <2>. QED
    BY <1>0, <2>1, <2>2
<1>3. CASE KbdWrite(h)
  <2>1. Others(h) /\ host' = host /\ current' = current
    BY <1>0, <1>1, <1>3, OneMoves DEF KbdWrite, HandlerOK
  <2>2. pc'[h] = "w_free" /\ op'[h] = PendOp(n_free) /\ count' = count /\ count[n_free] # 0
    BY <1>0, <1>3 DEF KbdWrite, WriteBegin, Call, Goto, RbInv, PcOK, SemOK
  <2>3. HandlerOK(pc'[h], op'[h], count')
    BY SMTT(30), <2>2 DEF HandlerOK, PendOp
  <2>. QED
    BY <1>0, <2>1, <2>3
<1>4. CASE KbdDrop(h) \/ KbdReturn(h)
  <2>1. op[h].at = "idle" /\ op' = op /\ host' = [host EXCEPT ![h] = Nobody] /\ current' = current
    BY <1>4 DEF KbdDrop, KbdReturn, Iret
  <2>2. pc'[h] = "idle" /\ \A d \in Contexts \ {h} : pc'[d] = pc[d]
    BY <1>0, <1>4 DEF KbdDrop, KbdReturn, RbInv, PcOK
  <2>. QED
    BY <1>0, <2>1, <2>2 DEF Others, HandlerOK
<1>. QED
  BY <1>2, <1>3, <1>4 DEF HandlerStep

\* A step of a handler.
LEMMA HandlerUndisturbed ==
    ASSUME RbInv, Undisturbed, NEW h \in Handlers, HandlerStep(h)
    PROVE  Undisturbed'
<1>1. /\ host[h] = current /\ Others(h) /\ current' = current
      /\ host' \in {host, [host EXCEPT ![h] = Nobody]}
      /\ HandlerOK(pc'[h], op'[h], count')
  BY HandlerMoves
<1>2. current # Nobody /\ h \notin Tasks
  BY Disjoint DEF RbInv, SemOK
<1>3. \A g \in Handlers \ {h} : host[g] = Nobody /\ host'[g] = Nobody /\ pc'[g] = "idle" /\ op'[g].at = "idle"
  <2>1. \A g \in Handlers \ {h} : host[g] = Nobody
    BY <1>1, <1>2 DEF Undisturbed
  <2>2. \A g \in Handlers \ {h} : g \in Contexts \ {h} /\ host'[g] = host[g]
    BY <1>1 DEF Contexts, RbInv, PcOK
  <2>. QED
    BY <1>1, <2>1, <2>2 DEF RbInv, PcOK, Others
<1>4. host'[h] \in {current, Nobody}
  BY <1>1 DEF RbInv, PcOK
<1>5. \A t \in Tasks : pc'[t] = pc[t] /\ op'[t] = op[t]
  BY <1>1, <1>2 DEF Others, Contexts
<1>6. Busy' = Busy
  BY <1>5 DEF Busy
<1>7. current \notin Busy
  BY <1>1, <1>2 DEF Undisturbed
<1>8. \A g \in Handlers : HandlerOK(pc'[g], op'[g], count')
  BY <1>1, <1>3 DEF HandlerOK
<1>9. \A t \in Tasks : t # current => (pc'[t] = "idle" /\ op'[t].at = "idle") \/ op'[t].at = "p_read"
  BY <1>5 DEF Undisturbed
<1>. QED
  BY <1>1, <1>3, <1>4, <1>6, <1>7, <1>8, <1>9 DEF Undisturbed, HandlerOK

\* Any step, when tasks make their calls with interrupts off.
LEMMA NextUndisturbed ==
    ASSUME Tasks \subseteq Masked, RbInv, Undisturbed, [Next]_vars
    PROVE  Undisturbed'
<1>0. current \in AllTasks /\ current # Nobody
  BY Disjoint DEF RbInv, SemOK
<1>1. ASSUME NEW h \in Handlers, KbdIrq(h) PROVE Undisturbed'
  <2>1. /\ current \notin Busy /\ \A g \in Handlers : host[g] = Nobody
    BY <1>1 DEF KbdIrq, Interrupt, Interruptible, Undisturbed, Busy
  <2>2. /\ host' = [host EXCEPT ![h] = current] /\ current' = current /\ count' = count /\ op' = op
        /\ pc' = [pc EXCEPT ![h] = "kbd_test"]
    BY <1>1 DEF KbdIrq, Interrupt
  <2>3. \A g \in Handlers : host'[g] = IF g = h THEN current ELSE Nobody
    BY <2>1, <2>2 DEF RbInv, PcOK
  <2>4. \A g \in Handlers : op'[g].at = "idle" /\ pc'[g] \in {"idle", "kbd_test"}
    BY <2>1, <2>2 DEF RbInv, PcOK, Contexts
  <2>5. \A t \in Tasks : pc'[t] = pc[t] /\ op'[t] = op[t]
    BY <2>2, Disjoint DEF RbInv, PcOK, Contexts
  <2>6. Busy' = Busy
    BY <2>5 DEF Busy
  <2>7. \A t \in Tasks : t # current => (pc'[t] = "idle" /\ op'[t].at = "idle") \/ op'[t].at = "p_read"
    BY <2>5 DEF Undisturbed
  <2>. QED
    BY SMTT(30), <2>1, <2>2, <2>3, <2>4, <2>6, <2>7 DEF Undisturbed
<1>2. ASSUME NEW t \in AllTasks, Switch(t) PROVE Undisturbed'
  <2>1. /\ current \notin Busy /\ \A g \in Handlers : host[g] = Nobody
    BY <1>2 DEF Switch, Preempt, Interruptible, Undisturbed, Busy
  <2>2. host' = host /\ count' = count /\ op' = op /\ pc' = pc
    BY <1>2 DEF Switch, Preempt
  <2>3. \A u \in Tasks : u # current' => (pc[u] = "idle" /\ op[u].at = "idle") \/ op[u].at = "p_read"
    BY <2>1 DEF Undisturbed, Busy
  <2>. QED
    BY <2>1, <2>2, <2>3 DEF Undisturbed
<1>3. CASE UNCHANGED vars
  BY <1>3 DEF vars, Undisturbed, Busy
<1>. QED
  BY <1>1, <1>2, <1>3, TaskUndisturbed, HandlerUndisturbed DEF Next

\* At boot no handler runs.
LEMMA InitUndisturbed == Init => Undisturbed
<1>1. SUFFICES ASSUME Init PROVE Undisturbed
  OBVIOUS
<1>2. /\ op = [c \in Contexts |-> NoOp] /\ host = [h \in Handlers |-> Nobody]
      /\ pc = [c \in Contexts |-> "idle"]
  BY <1>1 DEF Init, SyncInit
<1>. QED
  BY <1>2, Ops DEF Undisturbed, Contexts

\* kbd_irq never waits, and never for the lock of the task it runs on, when
\* the tasks make their calls with interrupts off: the test of n_free is enough.
THEOREM HandlerGetsThrough ==
    ASSUME CallsMasked
    PROVE  Spec => []HandlerNeverSleeps
<1>1. CASE Handlers = {}
  <2>1. HandlerNeverSleeps
    BY <1>1 DEF HandlerNeverSleeps
  <2>. QED
    BY <2>1, PTL
<1>2. CASE Tasks \subseteq Masked
  <2>1. RbInv /\ Undisturbed /\ [Next]_vars => Undisturbed'
    BY <1>2, NextUndisturbed
  <2>2. RbInv /\ Undisturbed => HandlerNeverSleeps
    <3>1. SUFFICES ASSUME RbInv, Undisturbed, NEW h \in Handlers, host[h] # Nobody
                   PROVE  host[h] = current /\ ~\E c \in Contexts : c = current /\ Holds(c)
      BY DEF HandlerNeverSleeps
    <3>2. host[h] = current /\ current \in AllTasks /\ current \notin Busy
      BY <3>1 DEF Undisturbed, RbInv, SemOK
    <3>3. ASSUME NEW c \in Contexts, c = current, Holds(c) PROVE FALSE
      <4>1. c \in Tasks
        BY <3>2, <3>3, RingBufAssumption DEF Contexts
      <4>2. pc[c] = "idle"
        BY <3>2, <3>3, <4>1 DEF Busy
      <4>. QED
        BY <3>3, <4>2 DEF Holds
    <3>. QED
      BY <3>2, <3>3
  <2>. QED
    BY <2>1, <2>2, InitUndisturbed, RbAlways, PTL DEF Spec
<1>. QED
  BY <1>1, <1>2 DEF CallsMasked
=============================================================================
