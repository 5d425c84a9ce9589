------------------------------ MODULE AbsSem ------------------------------
(***************************************************************************)
(* What include/sync.h promises of a counting semaphore, with no waiter    *)
(* list, no retries and no scheduler: a pend returns by taking one unit    *)
(* that is there, a post adds one unit.                                    *)
(***************************************************************************)
EXTENDS Naturals

CONSTANTS Tasks, Sems, InitCount

VARIABLES
    avail,  \* units each semaphore has
    doing   \* the call each task is in: <<>>, <<"pend", s>> or <<"post", s>>

vars == <<avail, doing>>

Init == avail = InitCount /\ doing = [t \in Tasks |-> <<>>]

Begin(t, call, s) ==
    /\ doing[t] = <<>>
    /\ doing' = [doing EXCEPT ![t] = <<call, s>>]
    /\ UNCHANGED avail

Take(t, s) ==
    /\ doing[t] = <<"pend", s>>
    /\ avail[s] > 0
    /\ avail' = [avail EXCEPT ![s] = @ - 1]
    /\ doing' = [doing EXCEPT ![t] = <<>>]

Give(t, s) ==
    /\ doing[t] = <<"post", s>>
    /\ avail' = [avail EXCEPT ![s] = @ + 1]
    /\ doing' = [doing EXCEPT ![t] = <<>>]

Next == \E t \in Tasks, s \in Sems :
            Begin(t, "pend", s) \/ Begin(t, "post", s) \/ Take(t, s) \/ Give(t, s)

Spec == Init /\ [][Next]_vars
=============================================================================
