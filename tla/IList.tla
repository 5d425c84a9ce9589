------------------------------- MODULE IList -------------------------------
(***************************************************************************)
(* The intrusive doubly-linked list of include/lib/v.h (v_ilist), at the   *)
(* level of its pointers.  A list is a ring of nodes through a head node;  *)
(* an unlinked node is a ring of its own.  Every queue of the kernel (run  *)
(* queue, semaphore waiters, vma lists, drivers, slabs) is one of these.   *)
(* The links of all nodes are one value L = [next |-> f, prev |-> g].      *)
(***************************************************************************)
EXTENDS Naturals, Sequences

\* V_ILIST_INIT / v_ilist_init on every node: each node is its own ring.
v_ilist_init(Nodes) == [next |-> [n \in Nodes |-> n], prev |-> [n \in Nodes |-> n]]

\* V__ILIST_LINK: the four stores that put node between prev and next, in
\* the order of the code (the order shows when node is already linked).
V_ILIST_LINK(L, node, prev, next) ==
    [next |-> [[L.next EXCEPT ![prev] = node] EXCEPT ![node] = next],
     prev |-> [[L.prev EXCEPT ![node] = prev] EXCEPT ![next] = node]]

v_ilist_prepend(L, node, next) == V_ILIST_LINK(L, node, L.prev[next], next)

v_ilist_append(L, node, prev) == V_ILIST_LINK(L, node, prev, L.next[prev])

\* v_ilist_remove: bridge the neighbours, then make node its own ring again.
v_ilist_remove(L, node) ==
    LET prev == L.prev[node]
        next == L.next[node]
    IN  [next |-> [[L.next EXCEPT ![prev] = next] EXCEPT ![node] = node],
         prev |-> [[L.prev EXCEPT ![next] = prev] EXCEPT ![node] = node]]

v_ilist_is_empty(L, head) == L.next[head] = head

\* The nodes a v_ilist_for_each loop visits, in order: the walk along next
\* from head, cut off at bound nodes should it never come back to head.
v_ilist_for_each(L, head, bound) ==
    LET walk[k \in 0..bound] ==
          IF k = 0 THEN <<>>
          ELSE LET w    == walk[k - 1]
                   last == IF w = <<>> THEN head ELSE w[Len(w)]
                   n    == L.next[last]
               IN  IF n = head \/ Len(w) < k - 1 THEN w ELSE Append(w, n)
    IN  walk[bound]

\* Both directions of every link agree: all rings are intact.
LinksConsistent(L) ==
    \A n \in DOMAIN L.next : L.prev[L.next[n]] = n /\ L.next[L.prev[n]] = n
=============================================================================
