------------------------------ MODULE PagePool ------------------------------
(* What pfa.c promises: a pool of page frames, each free, in the caller's *)
(* hands, kept by someone who can do without it, or on its way back from  *)
(* there (a purge for pf_alloc gives it back at once).                    *)
CONSTANTS Pages, Cached
VARIABLES free, used, back, cache

poolVars == <<free, used, back, cache>>

PoolInit ==
    /\ free \cup used = Pages \ Cached /\ free \cap used = {}
    /\ back = {} /\ cache = Cached

Take(p)  == p \in free /\ free' = free \ {p} /\ used' = used \cup {p} /\ UNCHANGED <<back, cache>>
Drop(p)  ==
    /\ p \in used \cup cache
    /\ used' = used \ {p} /\ cache' = cache \ {p} /\ back' = back \cup {p} /\ UNCHANGED free
Give(p)  == p \in back /\ back' = back \ {p} /\ free' = free \cup {p} /\ UNCHANGED <<used, cache>>
Purge(p) == p \in cache /\ cache' = cache \ {p} /\ free' = free \cup {p} /\ UNCHANGED <<used, back>>

PoolNext == \E p \in Pages : Take(p) \/ Drop(p) \/ Give(p) \/ Purge(p)

PoolSpec == PoolInit /\ [][PoolNext]_poolVars
=============================================================================
