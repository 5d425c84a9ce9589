----------------------------- MODULE SemClient -----------------------------
(***************************************************************************)
(* The most general use of the semaphores of Sync: any task may call       *)
(* sem_pend or sem_post on the semaphores Calls gives it, at any time.     *)
(***************************************************************************)
EXTENDS Sync

CONSTANTS
    Calls,      \* Calls[t]: the <<"pend" | "post", semaphore>> pairs task t may call
    MaxCount    \* bound: no post is begun on a semaphore that holds this much

ASSUME ClientAssumption ==
    /\ Handlers = {} /\ Idle \notin Tasks
    /\ AllTasks \cap Sems = {}
    /\ InitCount \in [Sems -> Nat]
    /\ TRIES \in Nat \ {0}
    /\ MaxCount \in Nat

Begin(t) ==
    /\ op[t].at = "idle"
    /\ \E s \in Sems :
          \/ <<"pend", s>> \in Calls[t] /\ Goto(t, PendOp(s))
          \/ <<"post", s>> \in Calls[t] /\ count[s] < MaxCount /\ Goto(t, PostOp(s))
    /\ UNCHANGED <<current, state, count, links, host>>

Init == SyncInit

Next == \/ \E t \in Tasks : Runs(t) /\ (Begin(t) \/ SemStep(t))
        \/ \E t \in AllTasks : Preempt(t, {u \in Tasks : op[u].at # "idle"})

Spec == Init /\ [][Next]_syncVars

-----------------------------------------------------------------------------

\* The call a task is in, as the abstract semaphore sees it: a post is over
\* once the count is incremented, what follows only wakes a waiter.
Doing(t) ==
    IF op[t].at \in PendPoints THEN <<"pend", op[t].s>>
    ELSE IF op[t].at = "v_inc" THEN <<"post", op[t].s>>
    ELSE <<>>

A == INSTANCE AbsSem WITH avail <- count, doing <- [t \in Tasks |-> Doing(t)]

\* sem_pend and sem_post implement a counting semaphore: whatever the
\* interleaving of reads, compare-and-exchange and wake-ups, a pend returns
\* only by taking a unit that was there and every post adds exactly one.
CountingSemaphore == A!Spec

\* While a task sleeps on a semaphore, every unit the semaphore holds has
\* someone awake to use it: a pender that will try again, or a poster that
\* has still to wake one ("awoken one at a time for each sem_post() call",
\* README).  Otherwise the sleeper's wake-up is lost.
NoLostWakeup ==
    \A s \in Sems :
        Asleep(s) # {} =>
          count[s] <= Cardinality({t \in Tasks : InPend(t, s) /\ state[t] = "runnable"})
                      + Cardinality({t \in Tasks : op[t].at \in WakePoints /\ op[t].s = s})

\* The sleepers of a semaphore are exactly the tasks on its list (when no
\* poster is halfway through removing one), each once, and all links agree.
WaitersExact ==
    (\A t \in Tasks : op[t].at \notin {"v_next", "v_prev", "v_self", "v_wake"}) =>
        /\ LinksConsistent(links)
        /\ \A s \in Sems : {Waiters(s)[i] : i \in 1..Len(Waiters(s))} = Asleep(s)

\* Sleepers are woken in the order they went to sleep: a step leaves a
\* waiter list alone, adds at its end or takes its first element.
WokenInOrder ==
    [][\A s \in Sems :
          \/ Waiters(s)' = Waiters(s)
          \/ Waiters(s) # <<>> /\ Waiters(s)' = Tail(Waiters(s))
          \/ \E t \in Tasks : Waiters(s)' = Append(Waiters(s), t)]_syncVars

=============================================================================
