------------------------------- MODULE Motor --------------------------------
(***************************************************************************)
(* The motors of the floppy drives (drivers/floppy.c): one task that uses  *)
(* the drives in turn, and for each drive a task that switches its motor   *)
(* off some time after the last use.  The tasks share the drives' fields   *)
(* and the controller's output register without a lock, so a step here is  *)
(* one access to either.                                                   *)
(* A function of the driver is a sequence of read_dir and of commands.     *)
(***************************************************************************)
EXTENDS Integers, FiniteSets

CONSTANTS
    Drives,             \* on one controller
    MOTOR_TIMEOUT,      \* motor_timeout_ms, in units of fdc_timeout_granularity
    Timers              \* names for the time-out tasks of a drive

ASSUME MotorAssumption == MOTOR_TIMEOUT \in Nat /\ MOTOR_TIMEOUT > 1 /\ Cardinality(Timers) > 1

VARIABLES
    dor,                \* the output register: drive selected, motors enabled
    motor_state, motor_ms, timer,       \* struct floppy_drive
    user,               \* the task that uses the drives: where it is, and the drive
    old_state,          \* of read_dir
    timeout,            \* where each time-out task is; "none" if there is no such task
    prompt              \* drives whose task may end its sleep (see Tick)

driveFields == <<motor_state, motor_ms, timer>>
motorVars == <<dor, driveFields, user, old_state, timeout, prompt>>

MotorInit ==
    /\ \E d \in Drives : dor = [sel |-> d, motors |-> {}] /\ user = [at |-> "idle", d |-> d]
    /\ motor_state = [d \in Drives |-> "off"]
    /\ motor_ms = [d \in Drives |-> 0]
    /\ timer = [d \in Drives |-> FALSE]
    /\ old_state = "off"
    /\ timeout = [d \in Drives |-> [t \in Timers |-> "none"]]
    /\ prompt = Drives

\* The register is written as a whole: motors of other drives stop.
motor_set_direct(d, on) == dor' = [sel |-> d, motors |-> IF on THEN {d} ELSE {}]

(* --------------------------- the time-out task -------------------------- *)

TimerAt(d, t, label) == timeout[d][t] = label
TimerGoto(d, t, label) == timeout' = [timeout EXCEPT ![d][t] = label]

\* A task that is not asleep gets the processor before another has slept, and
\* a task is not kept from it for as long as a time-out task sleeps.
Awake == \E d \in Drives, t \in Timers : timeout[d][t] \notin {"none", "sleep"}
Asleep == user.at \in {"idle", "spinup", "command"}

\* The end of a sleep, and the look at motor_state.
Tick(d, t) ==
    /\ TimerAt(d, t, "sleep") /\ motor_state[d] = "timeout"
    /\ Asleep \/ d \in prompt
    /\ prompt' = prompt \ {d}
    /\ TimerGoto(d, t, "expire")
    /\ UNCHANGED <<dor, driveFields, user, old_state>>

\* Mutant: the task sleeps without counting.
Expire_NoCount(d, t) ==
    /\ TimerAt(d, t, "expire")
    /\ TimerGoto(d, t, IF motor_ms[d] <= 0 THEN "kill" ELSE "sleep")
    /\ UNCHANGED <<dor, driveFields, user, old_state, prompt>>

Expire(d, t) ==
    /\ TimerAt(d, t, "expire")
    /\ motor_ms' = [motor_ms EXCEPT ![d] = @ - 1]
    /\ TimerGoto(d, t, IF motor_ms'[d] <= 0 THEN "kill" ELSE "sleep")
    /\ UNCHANGED <<dor, motor_state, timer, user, old_state, prompt>>

\* motor_kill: the register, then the state.
motor_kill(d, t) ==
    \/ /\ TimerAt(d, t, "kill")
       /\ motor_set_direct(d, FALSE)
       /\ TimerGoto(d, t, "off")
       /\ UNCHANGED <<driveFields, user, old_state, prompt>>
    \/ /\ TimerAt(d, t, "off")
       /\ motor_state' = [motor_state EXCEPT ![d] = "off"]
       /\ TimerGoto(d, t, "clear")
       /\ UNCHANGED <<dor, motor_ms, timer, user, old_state, prompt>>

TimerFinish(d, t) ==
    /\ TimerAt(d, t, "clear")
    /\ timer' = [timer EXCEPT ![d] = FALSE]
    /\ TimerGoto(d, t, "none")
    /\ UNCHANGED <<dor, motor_state, motor_ms, user, old_state, prompt>>

floppy_timeout(d, t) == Tick(d, t) \/ Expire(d, t) \/ motor_kill(d, t) \/ TimerFinish(d, t)

(* ------------------------- the task that uses them ---------------------- *)

\* A step of the user, from one label to another.
Move(from, to) ==
    /\ user.at = from
    /\ user' = [user EXCEPT !.at = to]
    /\ prompt' = Drives

\* Every use of a drive is a look at the disk changed line, or a command between
\* a motor_set(d, 1) and a motor_set(d, 0).  cmd_seek has one after the other; the
\* other callers, and the debug menu, begin with either on any drive.
UseBegin(d, op) ==
    /\ user.at = "idle"
    /\ user' = [at |-> op, d |-> d]
    /\ prompt' = Drives
    /\ UNCHANGED <<dor, driveFields, old_state, timeout>>

\* read_dir: the motor on, and what it was before again.
read_dir ==
    LET d == user.d IN
    \/ /\ Move("read_dir", "dir_on")
       /\ old_state' = motor_state[d]
       /\ UNCHANGED <<dor, driveFields, timeout>>
    \/ /\ Move("dir_on", "dir_back")
       /\ motor_set_direct(d, TRUE)
       /\ UNCHANGED <<driveFields, old_state, timeout>>
    \/ /\ Move("dir_back", "idle")
       /\ motor_set_direct(d, old_state # "off")
       /\ UNCHANGED <<driveFields, old_state, timeout>>

\* motor_set(d, 1): a motor that is off is switched on and given time.
MotorOn ==
    LET d == user.d IN
    \/ /\ Move("motor_on", IF motor_state[d] = "off" THEN "direct" ELSE "on")
       /\ UNCHANGED <<dor, driveFields, old_state, timeout>>
    \/ /\ Move("direct", "spinup")
       /\ motor_set_direct(d, TRUE)
       /\ UNCHANGED <<driveFields, old_state, timeout>>
    \/ /\ Move("spinup", "on") /\ ~Awake
       /\ UNCHANGED <<dor, driveFields, old_state, timeout>>
    \/ /\ Move("on", "command")
       /\ motor_state' = [motor_state EXCEPT ![d] = "on"]
       /\ UNCHANGED <<dor, motor_ms, timer, old_state, timeout>>

\* cmd_recalibrate leaves the motor on when its bytes are not taken.
NotTaken == Move("command", "idle")

\* The command, which sleeps.
Command ==
    /\ Move("command", "motor_off") \/ NotTaken
    /\ ~Awake
    /\ UNCHANGED <<dor, driveFields, old_state, timeout>>

task_create(d) == \E t \in Timers : TimerAt(d, t, "none") /\ TimerGoto(d, t, "sleep")

\* Mutant: every use has a time-out task of its own.
MotorOff_Always ==
    LET d == user.d IN
    \/ /\ Move("motor_off", "off")
       /\ motor_ms' = [motor_ms EXCEPT ![d] = MOTOR_TIMEOUT]
       /\ UNCHANGED <<dor, motor_state, timer, old_state, timeout>>
    \/ /\ Move("off", "create")
       /\ motor_state' = [motor_state EXCEPT ![d] = "timeout"]
       /\ UNCHANGED <<dor, motor_ms, timer, old_state, timeout>>
    \/ /\ Move("create", "store") /\ task_create(d)
       /\ UNCHANGED <<dor, driveFields, old_state>>
    \/ /\ Move("store", "idle")
       /\ timer' = [timer EXCEPT ![d] = TRUE]
       /\ UNCHANGED <<dor, motor_state, motor_ms, old_state, timeout>>

\* motor_set(d, 0): the time-out starts, with a task if the drive has none.
MotorOff ==
    LET d == user.d IN
    \/ /\ Move("motor_off", "off")
       /\ motor_ms' = [motor_ms EXCEPT ![d] = MOTOR_TIMEOUT]
       /\ UNCHANGED <<dor, motor_state, timer, old_state, timeout>>
    \/ /\ Move("off", "test")
       /\ motor_state' = [motor_state EXCEPT ![d] = "timeout"]
       /\ UNCHANGED <<dor, motor_ms, timer, old_state, timeout>>
    \/ /\ Move("test", IF timer[d] THEN "idle" ELSE "create")
       /\ UNCHANGED <<dor, driveFields, old_state, timeout>>
    \/ /\ Move("create", "store") /\ task_create(d)
       /\ UNCHANGED <<dor, driveFields, old_state>>
    \/ /\ Move("store", "idle")
       /\ timer' = [timer EXCEPT ![d] = TRUE]
       /\ UNCHANGED <<dor, motor_state, motor_ms, old_state, timeout>>

Use == read_dir \/ MotorOn \/ Command \/ MotorOff

MotorNext ==
    \/ \E d \in Drives : \E op \in {"read_dir", "motor_on"} : UseBegin(d, op)
    \/ Use
    \/ \E d \in Drives, t \in Timers : floppy_timeout(d, t)

MotorSpec == MotorInit /\ [][MotorNext]_motorVars

\* Tasks that are runnable run; sleeps end.
MotorFairness ==
    /\ WF_motorVars(Use)
    /\ \A d \in Drives, t \in Timers : WF_motorVars(floppy_timeout(d, t))

MotorFairSpec == MotorSpec /\ MotorFairness

-----------------------------------------------------------------------------

\* A drive has one time-out task at most, and timer knows of it: whatever the
\* moment at which motor_set finds the last one ending, none is started beside
\* it, and none is thought to be there when it is not.
OneTimer ==
    \A d \in Drives :
        LET live == {t \in Timers : timeout[d][t] # "none"} IN
        /\ \A t, u \in live : t = u
        /\ timer[d] => live # {}
        /\ ~timer[d] /\ live # {} => user = [at |-> "store", d |-> d]

\* A motor that is timing out is switched off, or used again: no motor_set
\* counts on a task that has already decided to end.
TimesOut == \A d \in Drives : (motor_state[d] = "timeout") ~> (motor_state[d] # "timeout")
=============================================================================
