------------------------------ MODULE MCFrames ------------------------------
(***************************************************************************)
(* Page frames for TLC: the free list (Pfa) and the purgeable buffers      *)
(* (Purge), with memory that runs out while a buffer is being filled again *)
(* and buffers that are given up.  A behaviour is one of the part it       *)
(* starts with.                                                            *)
(***************************************************************************)
EXTENDS Pfa, Purge, TLC

CONSTANTS a, b, c, p1, p2, p4, u1, u2, k1, b1, b2

VARIABLE part

MCUser == (b1 :> u1) @@ (b2 :> u2)

ASSUME PurgeAssumption

MCInit == part \in {"list", "buffers"} /\ Init /\ PurgeInit

MCNext ==
    /\ UNCHANGED part
    /\ \/ part = "list" /\ Next /\ UNCHANGED purgeVars
       \/ part = "buffers" /\ PurgeNext /\ UNCHANGED vars
       \/ part = "buffers" /\ Stuck /\ UNCHANGED <<vars, purgeVars>>    \* all may wait

\* FairSpec of Pfa, and PurgeFairSpec.
MCFairSpec ==
    /\ MCInit /\ [][MCNext]_<<part, vars, purgeVars>>
    /\ WF_vars(part = "list" /\ \E t \in Tasks : Continue(t))
    /\ \A t \in Callers : SF_purgeVars(part = "buffers" /\ PurgeContinue(t))

\* Every call of the purgeable buffers' interface ends, unless two orders of
\* locking meet or a user got no memory (Purge).
CallsReturn == PurgeCallsReturn
=============================================================================
