------------------------------ MODULE MCSched ------------------------------
(***************************************************************************)
(* Semaphores and the scheduler for TLC: "sem", SemClient; and Sched four  *)
(* times: "life", tasks that start others at once, wait for them, exit and *)
(* are killed; "reuse", where a struct is used again and again; "sleep";   *)
(* and "fair", tasks that run and sleep for ever, the clock going round.   *)
(* Where nobody sleeps the clock stands still.  A behaviour is one of the  *)
(* part it starts with; SemClient stays in its initial state in the others.*)
(***************************************************************************)
EXTENDS MCSemClient, SequencesExt

CONSTANTS a, b, c, d, Reaper, None

VARIABLES
    part,
    runqueue, running, task_state, ticks, sleep_till, uptime, fractions, tid, last_tid,
    waiters, ret, retval, cli_depth, reaper_call, deep, pc, left, exited, given

schedVars == <<runqueue, running, task_state, ticks, sleep_till, uptime, fractions, tid, last_tid,
               waiters, ret, retval, cli_depth, reaper_call, deep, pc, left, exited, given>>

Life == INSTANCE Sched WITH
    Boot <- {a, b}, Spare <- {c, d}, Spawners <- {a, b}, Sleepers <- {}, Masked <- {},
    Exiters <- {c, d}, Strays <- {d}, Deep <- {c}, PRIO <- 1, SleepMs <- {0}, Rets <- {0, 7},
    WRAP <- 1, FRAC <- 1, MaxTid <- 5, MaxUptime <- 1,
    current <- running, state <- task_state

Reuse == INSTANCE Sched WITH
    Boot <- {a, b}, Spare <- {c}, Spawners <- {a, b}, Sleepers <- {}, Masked <- {},
    Exiters <- {c}, Strays <- {c}, Deep <- {c}, PRIO <- 1, SleepMs <- {0}, Rets <- {0, 7},
    WRAP <- 1, FRAC <- 1, MaxTid <- 7, MaxUptime <- 1,
    current <- running, state <- task_state

Sleep == INSTANCE Sched WITH
    Boot <- {a, b}, Spare <- {}, Spawners <- {}, Sleepers <- {a, b}, Masked <- {a, b},
    Exiters <- {}, Strays <- {}, Deep <- {}, PRIO <- 2, SleepMs <- {0, 2}, Rets <- {0},
    WRAP <- 100, FRAC <- 2, MaxTid <- 3, MaxUptime <- 22,
    current <- running, state <- task_state

Fair == INSTANCE Sched WITH
    Boot <- {a, b}, Spare <- {}, Spawners <- {}, Sleepers <- {a}, Masked <- {},
    Exiters <- {}, Strays <- {}, Deep <- {}, PRIO <- 2, SleepMs <- {1}, Rets <- {0},
    WRAP <- 6, FRAC <- 3, MaxTid <- 3, MaxUptime <- 1000,
    current <- running, state <- task_state

ASSUME Life!SchedAssumption /\ Reuse!SchedAssumption /\ Sleep!SchedAssumption /\ Fair!SchedAssumption

schedOff ==
    /\ runqueue = <<>> /\ running = <<>> /\ task_state = <<>> /\ ticks = <<>> /\ sleep_till = <<>>
    /\ uptime = <<>> /\ fractions = <<>> /\ tid = <<>> /\ last_tid = <<>> /\ waiters = <<>> /\ ret = <<>>
    /\ retval = <<>> /\ cli_depth = <<>> /\ reaper_call = <<>> /\ deep = <<>> /\ pc = <<>> /\ left = <<>>
    /\ exited = <<>> /\ given = <<>>

MCInit ==
    /\ Init
    /\ \/ part = "sem" /\ schedOff
       \/ part = "life" /\ Life!Init
       \/ part = "reuse" /\ Reuse!Init
       \/ part = "sleep" /\ Sleep!Init
       \/ part = "fair" /\ Fair!Init

MCNext ==
    /\ UNCHANGED part
    /\ \/ part = "sem" /\ Next /\ UNCHANGED schedVars
       \/ part = "life" /\ Life!Next /\ UNCHANGED syncVars
       \/ part = "reuse" /\ Reuse!Next /\ UNCHANGED syncVars
       \/ part = "sleep" /\ Sleep!Next /\ UNCHANGED syncVars
       \/ part = "fair" /\ Fair!Next /\ UNCHANGED syncVars

\* The timer never stops and the PIC keeps its interrupt pending while
\* interrupts are off; a task in the middle of a call goes on with it when it
\* has the CPU again and again.
MCFairSpec ==
    /\ MCInit /\ [][MCNext]_<<part, syncVars, schedVars>>
    /\ SF_schedVars(part = "fair" /\ Fair!do_timer)
    /\ \A t \in {a, b, Idle, Reaper} : SF_schedVars(part = "fair" /\ running = t /\ Fair!Continue)

\* Whoever waits for a task waits for one that will still be reaped (Sched).
WaiterHasWaitee == (part = "life" => Life!WaiterHasWaitee) /\ (part = "reuse" => Reuse!WaiterHasWaitee)

\* wait_tid returns what the task it waited for returned (Sched).
WaitReturnsRet == (part = "life" => Life!WaitReturnsRet) /\ (part = "reuse" => Reuse!WaitReturnsRet)

\* sleep returns no sooner than asked (Sched).
SleepsUntilDeadline == part = "sleep" => Sleep!SleepsUntilDeadline

\* Round robin: every runnable task gets the CPU.
Runnable(t) == part = "fair" /\ t \in ToSet(runqueue) /\ task_state[t] = "runnable"
NoStarvation == \A t \in {a, b, Idle, Reaper} : Runnable(t) ~> (running = t)
=============================================================================
