------------------------------- MODULE Sched -------------------------------
(***************************************************************************)
(* The scheduler and the life of a task (sched.c, timer.c): run queue,     *)
(* ticks and their recharge, the timer interrupt, sleep(), task_create,    *)
(* exit, wait_tid and the reaper.  A step of a task is one access that     *)
(* another task can see, or one section with interrupts off.  Semaphores   *)
(* appear here only as the reaper's (reaper_call); see Sync for how they   *)
(* work inside.                                                            *)
(***************************************************************************)
EXTENDS Integers, Sequences, SequencesExt, FiniteSets

CONSTANTS
    Idle, Reaper,       \* kidle, kreaper
    Boot,               \* other tasks there are at the start
    Spare,              \* task structs that task_create may get from kmalloc
    None,
    Spawners, Sleepers, \* tasks that call task_create (then wait_tid), sleep
    Masked,             \* tasks that call sleep through the system call: interrupts off
    Exiters,            \* tasks that return, are killed by a fault or call sys$exit
    Strays,             \* tasks that may make an unknown system call
    Deep,               \* tasks whose stack may reach into the redzone
    PRIO,               \* new->priority
    SleepMs, Rets,      \* arguments of sleep, return values of tasks
    WRAP,               \* system_uptime_ms counts modulo this (2^32)
    FRAC,               \* ticks per extra millisecond (irq0_fractions overflows)
    MaxTid,             \* bound: tasks created
    MaxUptime           \* bound: clock ticks

TaskStructs == {Idle, Reaper} \cup Boot \cup Spare

SchedAssumption ==
    /\ Idle # Reaper /\ {Idle, Reaper} \cap (Boot \cup Spare) = {} /\ Boot \cap Spare = {}
    /\ PRIO \in Nat \ {0} /\ WRAP \in Nat \ {0} /\ FRAC \in Nat \ {0}
    /\ SleepMs \subseteq Nat /\ Rets \subseteq Int

VARIABLES
    runqueue, current,
    state, ticks,
    sleep_till, uptime, fractions,
    tid, last_tid,
    waiters,        \* t->waiters
    ret,            \* t->ret
    retval,         \* t->wait_retval
    cli_depth,
    reaper_call,    \* its count
    deep,           \* t's saved stack pointer is in the redzone
    pc,             \* where a task is in a call, with its locals
    left,           \* history: milliseconds a sleeper still has to sleep
    exited,         \* history: what the task with a given id returned
    given           \* history: how many tasks were given an id

taskVars == <<tid, last_tid, waiters, ret, retval, given>>
vars == <<runqueue, current, state, ticks, sleep_till, uptime, fractions, tid, last_tid,
          waiters, ret, retval, cli_depth, reaper_call, deep, pc, left, exited, given>>

Run == [at |-> "run"]

\* After stage1_init and the first timer interrupt, which picks the first of
\* the runnable tasks.
Init ==
    LET boot == SetToSeq(Boot) IN
    /\ runqueue = <<Idle, Reaper>> \o boot
    /\ current = Reaper
    /\ state = [t \in TaskStructs |-> IF t = Idle THEN "wait" ELSE IF t \in Spare THEN "dead" ELSE "runnable"]
    /\ ticks = [t \in TaskStructs |-> IF t \in Spare THEN 0 ELSE PRIO]
    /\ sleep_till = [t \in TaskStructs |-> 0]
    /\ uptime = 1 % WRAP /\ fractions = 1 % FRAC
    /\ tid = [t \in TaskStructs |-> IF t = Idle THEN 0 ELSE IF t = Reaper THEN 1
                              ELSE IF t \in Boot THEN 1 + CHOOSE i \in 1..Len(boot) : boot[i] = t
                              ELSE -1]
    /\ last_tid = 2 + Cardinality(Boot)
    /\ waiters = [t \in TaskStructs |-> <<>>]
    /\ ret = [t \in TaskStructs |-> 0] /\ retval = [t \in TaskStructs |-> 0]
    /\ cli_depth = [t \in TaskStructs |-> 0]
    /\ reaper_call = 0
    /\ deep = {}
    /\ pc = [t \in TaskStructs |-> IF t = Reaper THEN [at |-> "pend"] ELSE Run]
    /\ left = [t \in TaskStructs |-> 0]
    /\ exited = [i \in 0..MaxTid |-> None]
    /\ given = [i \in 0..MaxTid |-> IF i < last_tid THEN 1 ELSE 0]

-----------------------------------------------------------------------------

\* sem_post(&reaper_call) with interrupts off: [state, reaper_call] after it.
Post(st, calls) ==
    [st |-> IF st[Reaper] = "wait_semaphore" THEN [st EXCEPT ![Reaper] = "runnable"] ELSE st,
     calls |-> calls + 1]

\* update_task_state for every task of the run queue: one whose saved stack
\* pointer is in the redzone is stopped, a sleeper past its deadline runs.
Overrun(st) == {t \in ToSet(runqueue) : st[t] = "runnable" /\ t \in deep}

update_task_state_Early(st, ms) ==
    [t \in TaskStructs |->
        IF t \in Overrun(st) THEN "stopping"
        ELSE IF t \in ToSet(runqueue) /\ st[t] = "sleeping" /\ ms + 1 >= sleep_till[t] THEN "runnable"
        ELSE IF t = Reaper /\ Overrun(st) # {} THEN Post(st, 0).st[Reaper]
        ELSE st[t]]

update_task_state(st, ms) ==
    [t \in TaskStructs |->
        IF t \in Overrun(st) THEN "stopping"
        ELSE IF t \in ToSet(runqueue) /\ st[t] = "sleeping" /\ ms >= sleep_till[t] THEN "runnable"
        ELSE IF t = Reaper /\ Overrun(st) # {} THEN Post(st, 0).st[Reaper]
        ELSE st[t]]

\* (t->ticks >> 1) + t->priority for the runnable tasks.
Recharge(tk, st) ==
    [t \in TaskStructs |-> IF t \in ToSet(runqueue) /\ st[t] = "runnable"
                     THEN tk[t] \div 2 + PRIO ELSE tk[t]]

MostTicks_First(R, tk) ==
    IF R = {} THEN None ELSE SelectSeq(runqueue, LAMBDA t : t \in R)[1]

\* The first task of the run queue, among those of R, with the most ticks.
MostTicks(R, tk) ==
    LET best == {t \in R : \A u \in R : tk[u] <= tk[t]}
    IN  IF R = {} THEN None ELSE SelectSeq(runqueue, LAMBDA t : t \in best)[1]

\* find_next_runnable: scan; if the best has no ticks left, recharge and scan
\* again (once is enough: a runnable task then has PRIO ticks).  The first scan
\* has gone by kreaper, the second in the run queue, when a task found in its
\* redzone makes it runnable.
find_next_runnable(st, ms, tk) ==
    LET st1   == update_task_state(st, ms)
        ready == {t \in ToSet(runqueue) : st1[t] = "runnable"}
        seen  == IF st[Reaper] = "wait_semaphore" THEN ready \ {Reaper} ELSE ready
        next  == MostTicks(seen, tk)
        tk2   == Recharge(tk, st1)
    IN  IF next # None /\ tk[next] = 0
        THEN [st |-> st1, tk |-> tk2, next |-> MostTicks(ready, tk2)]
        ELSE [st |-> st1, tk |-> tk, next |-> next]

\* sched(): st, calls, ms and tk are the state, reaper_call, clock and ticks
\* its caller has already written.  Where the task that is switched out has
\* its stack pointer is its own business.
sched(st, calls, ms, tk) ==
    LET f    == find_next_runnable(st, ms, tk)
        next == IF f.next = None THEN Idle ELSE f.next
    IN  /\ state' = f.st /\ ticks' = f.tk
        /\ reaper_call' = calls + Cardinality(Overrun(st))
        /\ current' = next
        /\ IF next = current THEN UNCHANGED deep
           ELSE IF current \in Deep THEN deep' \in {deep \cup {current}, deep \ {current}}
           ELSE UNCHANGED deep

Interruptible ==
    /\ cli_depth[current] = 0
    /\ ~(current \in Masked /\ pc[current].at # "run")

\* do_timer.
do_timer ==
    /\ Interruptible
    /\ uptime < MaxUptime
    /\ fractions' = (fractions + 1) % FRAC
    /\ LET ms == IF fractions' = 0 THEN 2 ELSE 1
           slice == ticks[current] - 1
           up == (uptime + ms) % WRAP
       IN  /\ uptime' = up
           /\ left' = [t \in TaskStructs |-> IF left[t] > ms THEN left[t] - ms ELSE 0]
           /\ IF slice > 0
              THEN ticks' = [ticks EXCEPT ![current] = slice]
                   /\ UNCHANGED <<current, state, reaper_call, deep>>
              ELSE sched(state, reaper_call, up, [ticks EXCEPT ![current] = 0])
    /\ UNCHANGED <<runqueue, sleep_till, cli_depth, pc, exited, taskVars>>

Goto(t, p) == pc' = [pc EXCEPT ![t] = p]
At(t, p) == current = t /\ pc[t].at = p

(* --------------------------------- sleep() ----------------------------- *)

SleepState(t, ms) ==
    /\ At(t, "run")
    /\ state' = [state EXCEPT ![t] = "sleeping"]
    /\ left' = [left EXCEPT ![t] = ms]
    /\ Goto(t, [at |-> "sleep_till", ms |-> ms])
    /\ UNCHANGED <<runqueue, current, ticks, sleep_till, uptime, fractions, cli_depth,
                   reaper_call, deep, exited, taskVars>>

SleepTill(t) ==
    /\ At(t, "sleep_till")
    /\ sleep_till' = [sleep_till EXCEPT ![t] = (uptime + pc[t].ms) % WRAP]
    /\ Goto(t, [at |-> "sleep_sched"])
    /\ UNCHANGED <<runqueue, current, state, ticks, uptime, fractions, cli_depth,
                   reaper_call, deep, left, exited, taskVars>>

\* cli_push(); sched()
SleepSched(t) ==
    /\ At(t, "sleep_sched")
    /\ cli_depth' = [cli_depth EXCEPT ![t] = @ + 1]
    /\ sched(state, reaper_call, uptime, ticks)
    /\ Goto(t, [at |-> "sleep_ret"])
    /\ UNCHANGED <<runqueue, sleep_till, uptime, fractions, left, exited, taskVars>>

\* cli_pop(); sleep_till = 0
SleepReturn(t) ==
    /\ At(t, "sleep_ret")
    /\ cli_depth' = [cli_depth EXCEPT ![t] = @ - 1]
    /\ sleep_till' = [sleep_till EXCEPT ![t] = 0]
    /\ Goto(t, Run)
    /\ UNCHANGED <<runqueue, current, state, ticks, uptime, fractions, reaper_call, deep,
                   left, exited, taskVars>>

(* ------------------------------- task_create --------------------------- *)

\* task_prepare: the struct is allocated (zeroed) and last_tid read ...
CreateRead(t, u) ==
    /\ At(t, "run") /\ last_tid < MaxTid
    /\ state[u] = "dead"
    /\ state' = [state EXCEPT ![u] = "fresh"]
    /\ Goto(t, [at |-> "create_id", u |-> u, id |-> last_tid])
    /\ UNCHANGED <<runqueue, current, ticks, sleep_till, uptime, fractions, cli_depth,
                   reaper_call, deep, left, exited, taskVars>>

\* ... incremented and stored, and the rest filled in.
CreateId(t) ==
    /\ At(t, "create_id")
    /\ LET u == pc[t].u IN
       /\ last_tid' = pc[t].id + 1
       /\ tid' = [tid EXCEPT ![u] = pc[t].id]
       /\ state' = [state EXCEPT ![u] = "runnable"]
       /\ ticks' = [ticks EXCEPT ![u] = PRIO]
       /\ sleep_till' = [sleep_till EXCEPT ![u] = 0]
       /\ ret' = [ret EXCEPT ![u] = 0] /\ retval' = [retval EXCEPT ![u] = 0]
       /\ waiters' = [waiters EXCEPT ![u] = <<>>]
       /\ cli_depth' = [cli_depth EXCEPT ![u] = 0]
       /\ deep' = deep \ {u}
       /\ left' = [left EXCEPT ![u] = 0]
       /\ pc' = [pc EXCEPT ![u] = Run, ![t] = [at |-> "create_queue", u |-> u, id |-> pc[t].id]]
       /\ given' = [given EXCEPT ![pc[t].id] = @ + 1]
    /\ UNCHANGED <<runqueue, current, uptime, fractions, reaper_call, exited>>

\* to_runqueue; then wait_tid (cmd_run_task, exec, init) or not (cmd_spawn_job).
CreateQueue(t) ==
    /\ At(t, "create_queue")
    /\ runqueue' = Append(runqueue, pc[t].u)
    /\ Goto(t, Run) \/ Goto(t, [at |-> "wait", id |-> pc[t].id])
    /\ UNCHANGED <<current, state, ticks, sleep_till, uptime, fractions, cli_depth,
                   reaper_call, deep, left, exited, taskVars>>

(* -------------------------------- wait_tid ----------------------------- *)

\* find_task: the first task of the run queue with that id.
find_task(id) ==
    LET with == SelectSeq(runqueue, LAMBDA t : tid[t] = id)
    IN  IF with = <<>> THEN None ELSE with[1]

\* No such task: return -1, and cli_pop() is not called.
WaitNone(t) ==
    /\ At(t, "wait") /\ find_task(pc[t].id) = None
    /\ cli_depth' = [cli_depth EXCEPT ![t] = @ + 1]
    /\ Goto(t, Run)
    /\ UNCHANGED <<runqueue, current, state, ticks, sleep_till, uptime, fractions,
                   reaper_call, deep, left, exited, taskVars>>

WaitSched(t) ==
    /\ At(t, "wait")
    /\ LET w == find_task(pc[t].id) IN
       /\ w # None
       /\ waiters' = [waiters EXCEPT ![w] = Append(@, t)]
    /\ cli_depth' = [cli_depth EXCEPT ![t] = @ + 1]
    /\ sched([state EXCEPT ![t] = "wait_task"], reaper_call, uptime, ticks)
    /\ Goto(t, [at |-> "wait_ret", id |-> pc[t].id])
    /\ UNCHANGED <<runqueue, sleep_till, uptime, fractions, left, exited, given, tid, last_tid,
                   ret, retval>>

WaitReturn(t) ==
    /\ At(t, "wait_ret")
    /\ cli_depth' = [cli_depth EXCEPT ![t] = @ - 1]
    /\ retval' = [retval EXCEPT ![t] = 0]
    /\ Goto(t, Run)
    /\ UNCHANGED <<runqueue, current, state, ticks, sleep_till, uptime, fractions,
                   reaper_call, deep, left, exited, given, tid, last_tid, waiters, ret>>

(* ----------------------------- exit and reaping ------------------------ *)

Stop(t, r, p) ==
    /\ ret' = [ret EXCEPT ![t] = r]
    /\ exited' = [exited EXCEPT ![tid[t]] = r]
    /\ sched(p.st, p.calls, uptime, ticks)
    /\ Goto(t, [at |-> "gone"])
    /\ UNCHANGED <<runqueue, sleep_till, uptime, fractions, cli_depth, left, given, tid, last_tid,
                   waiters, retval>>

\* The end of task_entry_point, and task_kill(current) (sys$exit, faults).
Exit(t, r) ==
    /\ At(t, "run")
    /\ Stop(t, r, Post([state EXCEPT ![t] = "stopping"], reaper_call))

\* do_syscall with an unknown number: stopping, but nobody tells the reaper.
Stray(t) ==
    /\ At(t, "run")
    /\ Stop(t, ret[t], [st |-> [state EXCEPT ![t] = "stopping"], calls |-> reaper_call])

\* sem_pend(&reaper_call), interrupts on: its last look at the count ...
ReaperPend ==
    /\ At(Reaper, "pend")
    /\ IF reaper_call > 0
       THEN reaper_call' = reaper_call - 1 /\ Goto(Reaper, [at |-> "reap"])
       ELSE UNCHANGED reaper_call /\ Goto(Reaper, [at |-> "nap"])
    /\ UNCHANGED <<runqueue, current, state, ticks, sleep_till, uptime, fractions, cli_depth,
                   deep, left, exited, taskVars>>

\* ... and going to sleep, interrupts off.
ReaperNap ==
    /\ At(Reaper, "nap")
    /\ sched([state EXCEPT ![Reaper] = "wait_semaphore"], reaper_call, uptime, ticks)
    /\ Goto(Reaper, [at |-> "pend"])
    /\ UNCHANGED <<runqueue, sleep_till, uptime, fractions, cli_depth, left, exited, taskVars>>

reaper_NoWake ==
    /\ At(Reaper, "reap")
    /\ LET gone  == {t \in ToSet(runqueue) : state[t] = "stopping"}
           woken == UNION {ToSet(waiters[t]) : t \in gone}
           of(w) == CHOOSE t \in gone : w \in ToSet(waiters[t])
       IN  /\ runqueue' = SelectSeq(runqueue, LAMBDA t : t \notin gone)
           /\ state' = [t \in TaskStructs |-> IF t \in gone THEN "dead" ELSE state[t]]
           /\ retval' = [t \in TaskStructs |-> IF t \in woken THEN ret[of(t)] ELSE retval[t]]
           /\ waiters' = [t \in TaskStructs |-> IF t \in gone THEN <<>> ELSE waiters[t]]
    /\ Goto(Reaper, [at |-> "pend"])
    /\ UNCHANGED <<current, ticks, sleep_till, uptime, fractions, cli_depth, reaper_call,
                   deep, left, exited, given, tid, last_tid, ret>>

reaper_NoRet ==
    /\ At(Reaper, "reap")
    /\ LET gone  == {t \in ToSet(runqueue) : state[t] = "stopping"}
           woken == UNION {ToSet(waiters[t]) : t \in gone}
       IN  /\ runqueue' = SelectSeq(runqueue, LAMBDA t : t \notin gone)
           /\ state' = [t \in TaskStructs |-> IF t \in gone THEN "dead"
                                        ELSE IF t \in woken THEN "runnable" ELSE state[t]]
           /\ UNCHANGED retval
           /\ waiters' = [t \in TaskStructs |-> IF t \in gone THEN <<>> ELSE waiters[t]]
    /\ Goto(Reaper, [at |-> "pend"])
    /\ UNCHANGED <<current, ticks, sleep_till, uptime, fractions, cli_depth, reaper_call,
                   deep, left, exited, given, tid, last_tid, ret>>

\* The pass over the run queue, interrupts off: every stopping task is taken
\* off it, its waiters get its return value and run, its memory is freed.
reaper ==
    /\ At(Reaper, "reap")
    /\ LET gone  == {t \in ToSet(runqueue) : state[t] = "stopping"}
           woken == UNION {ToSet(waiters[t]) : t \in gone}
           of(w) == CHOOSE t \in gone : w \in ToSet(waiters[t])
       IN  /\ runqueue' = SelectSeq(runqueue, LAMBDA t : t \notin gone)
           /\ state' = [t \in TaskStructs |-> IF t \in gone THEN "dead"
                                        ELSE IF t \in woken THEN "runnable" ELSE state[t]]
           /\ retval' = [t \in TaskStructs |-> IF t \in woken THEN ret[of(t)] ELSE retval[t]]
           /\ waiters' = [t \in TaskStructs |-> IF t \in gone THEN <<>> ELSE waiters[t]]
    /\ Goto(Reaper, [at |-> "pend"])
    /\ UNCHANGED <<current, ticks, sleep_till, uptime, fractions, cli_depth, reaper_call,
                   deep, left, exited, given, tid, last_tid, ret>>

-----------------------------------------------------------------------------

\* A task goes on with a call it is in.
Continue ==
    \/ \E t \in TaskStructs : \/ SleepTill(t) \/ SleepSched(t) \/ SleepReturn(t)
                        \/ CreateId(t) \/ CreateQueue(t)
                        \/ WaitNone(t) \/ WaitSched(t) \/ WaitReturn(t)
    \/ ReaperPend \/ ReaperNap \/ reaper

Begin ==
    \/ \E t \in Sleepers, ms \in SleepMs : SleepState(t, ms)
    \/ \E t \in Spawners, u \in Spare : CreateRead(t, u)
    \/ \E t \in Exiters, r \in Rets : Exit(t, r)
    \/ \E t \in Strays : Stray(t)

Next == do_timer \/ Continue \/ Begin

Spec == Init /\ [][Next]_vars

-----------------------------------------------------------------------------

\* Whoever waits for a task waits for one that will still be reaped: the
\* reaper forgets no waiter and leaves none on the list of a freed task.
WaiterHasWaitee ==
    \A t \in TaskStructs : state[t] = "wait_task" =>
        \E w \in ToSet(runqueue) : t \in ToSet(waiters[w]) /\ state[w] # "dead"

\* wait_tid returns what the task it waited for returned, although the struct
\* is freed and may have been reused by then (0 for one killed in its redzone);
\* but not where two tasks that start others at once have given the same id.
WaitReturnsRet ==
    \A t \in TaskStructs :
        pc[t].at = "wait_ret" /\ state[t] = "runnable" /\ given[pc[t].id] = 1 =>
            retval[t] = IF exited[pc[t].id] = None THEN 0 ELSE exited[pc[t].id]

\* sleep(ms) returns no sooner than ms milliseconds later ("deadline + yield()",
\* README).
SleepsUntilDeadline == \A t \in TaskStructs : pc[t].at = "sleep_ret" /\ state[t] = "runnable" => left[t] = 0
=============================================================================
