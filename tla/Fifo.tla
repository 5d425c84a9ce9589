------------------------------- MODULE Fifo -------------------------------
(***************************************************************************)
(* What a ring buffer promises its users: a bounded first-in-first-out     *)
(* queue.  Nothing is lost, duplicated, reordered or overwritten, and a    *)
(* reader gets the oldest item.                                            *)
(***************************************************************************)
EXTENDS Naturals, Sequences

CONSTANTS Users, Values, Cap

VARIABLES
    q,      \* the items held
    val     \* the item each user last offered or got

vars == <<q, val>>

Init == q = <<>> /\ val \in [Users -> Values]

Offer(u, v) == val' = [val EXCEPT ![u] = v] /\ UNCHANGED q

Put(u) == Len(q) < Cap /\ q' = Append(q, val[u]) /\ UNCHANGED val

Get(u) == q # <<>> /\ q' = Tail(q) /\ val' = [val EXCEPT ![u] = Head(q)]

Next == \E u \in Users : Put(u) \/ Get(u) \/ \E v \in Values : Offer(u, v)

Spec == Init /\ [][Next]_vars
=============================================================================
