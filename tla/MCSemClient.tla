------------------------------ MODULE MCSemClient ------------------------------
(* Instances of SemClient for TLC. *)
EXTENDS SemClient

CONSTANTS t1, t2, t3, s1, s2

\* One semaphore with one unit; every task pends and posts.
OneInit == [s \in Sems |-> 1]
AllCalls == [t \in Tasks |-> {"pend", "post"} \X Sems]

\* Two penders and a poster of an initially empty semaphore.
EmptyInit == [s \in Sems |-> 0]
RoleCalls == [t \in Tasks |-> IF t = t3 THEN {"post"} \X Sems ELSE {"pend"} \X Sems]
=============================================================================
