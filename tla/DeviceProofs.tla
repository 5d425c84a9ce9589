----------------------------- MODULE DeviceProofs ----------------------------
(***************************************************************************)
(* Proofs about the devices: Irq, for any lines in use and any drivers;    *)
(* Motor, for any drives, any time-out and any time-out tasks; Fdc, for    *)
(* any numbers of retries and of interrupts that pile up.                  *)
(***************************************************************************)
EXTENDS Irq, Motor, Fdc, TLAPS

\* A step is for Zenon unless it names the SMT solver.
USE ZenonT(60)

(* ----------------------------- interrupts: Irq ----------------------------- *)

IrqType ==
    /\ irr \subseteq Lines
    /\ isr \subseteq 0..15
    /\ owed \subseteq Lines
    /\ seen \in Lines \cup {-1}
    /\ cpu \in [v : Int, in : {"task", "entry", "handler"}]

\* The CPU has taken the vector of line l, which it acknowledged.
Requested(l) == cpu.v = IRQ0_OFFSET + l /\ isr = {l, OnMaster(l)} /\ owed = {l}

\* It has taken a vector that no request stands behind.
Unrequested ==
    /\ owed = {}
    /\ \/ cpu.v = IRQ0_OFFSET + 7 /\ isr = {}
       \/ cpu.v = IRQ0_OFFSET + 15 /\ isr = {CASCADE_IRQ}
       \/ cpu.v = SYSCALL /\ isr = {}

Entered == cpu.in = "entry" => Unrequested \/ \E l \in Lines : Requested(l)

\* do_irq has ended the request, and its handler is what is left to do.
Handled ==
    cpu.in = "handler" =>
        /\ isr = {}
        /\ \/ cpu.v = SYSCALL /\ owed = {}
           \/ \E l \in Lines : cpu.v = IRQ0_OFFSET + l /\ owed = {l}

IrqInv == IrqType /\ AllServed /\ Entered /\ Handled

-----------------------------------------------------------------------------

\* A non-specific EOI of a controller with one request in service ends it.
LEMMA EoiOfOne ==
    ASSUME NEW s, NEW chip, NEW l \in 0..15, s \cap chip = {l}
    PROVE  EoiTo(chip, s) = s \ {l}
<1>1. Rank(l) \in Int
  BY SMTT(30) DEF Rank, CASCADE_IRQ
<1>2. HighestOf({l}) = {l}
  BY SMTT(30), <1>1 DEF HighestOf
<1>. QED
  BY <1>2 DEF EoiTo

\* pic_eoi of the vector taken leaves nothing in service.
LEMMA EoiClears ==
    ASSUME NEW l \in 0..15, isr = {l, OnMaster(l)}
    PROVE  pic_eoi(IRQ0_OFFSET + l) = {}
<1>1. CASE l < 8
  <2>1. isr = {l} /\ isr \cap Master = {l}
    <3>1. OnMaster(l) = l /\ l \in Master
      BY SMTT(30), <1>1 DEF OnMaster, Master
    <3>. QED
      BY <3>1
  <2>2. EoiTo(Master, isr) = {}
    BY SMTT(30), <2>1, EoiOfOne
  <2>3. ~(IRQ0_OFFSET + l >= IRQ0_OFFSET + 8)
    BY SMTT(30), <1>1 DEF IRQ0_OFFSET
  <2>. QED
    BY <2>2, <2>3 DEF pic_eoi
<1>2. CASE l >= 8
  <2>1. isr = {l, CASCADE_IRQ}
    BY SMTT(30), <1>2 DEF OnMaster
  <2>2. isr \cap Slave = {l}
    <3>1. l \in Slave /\ CASCADE_IRQ \notin Slave
      BY SMTT(30), <1>2 DEF Slave, CASCADE_IRQ
    <3>. QED
      BY <2>1, <3>1
  <2>3. EoiTo(Slave, isr) = {CASCADE_IRQ}
    <3>1. EoiTo(Slave, isr) = isr \ {l}
      BY <2>2, EoiOfOne
    <3>. QED
      BY SMTT(30), <1>2, <2>1, <3>1 DEF CASCADE_IRQ
  <2>4. EoiTo(Master, {CASCADE_IRQ}) = {}
    <3>1. {CASCADE_IRQ} \cap Master = {CASCADE_IRQ} /\ CASCADE_IRQ \in 0..15
      BY SMTT(30) DEF Master, CASCADE_IRQ
    <3>. QED
      BY SMTT(30), <3>1, EoiOfOne
  <2>5. IRQ0_OFFSET + l >= IRQ0_OFFSET + 8
    BY SMTT(30), <1>2 DEF IRQ0_OFFSET
  <2>. QED
    BY <2>3, <2>4, <2>5 DEF pic_eoi
<1>. QED
  BY SMTT(30), <1>1, <1>2

\* At boot no line is requested and nothing is in service.
LEMMA IrqInvInit == IrqInit => IrqInv
<1>. SUFFICES ASSUME IrqInit PROVE IrqInv
  OBVIOUS
<1>1. cpu.in = "task" /\ cpu \in [v : Int, in : {"task", "entry", "handler"}]
  BY SMTT(30) DEF IrqInit, Task
<1>2. ~stray
  BY DEF IrqInit
<1>. QED
  BY <1>1, <1>2 DEF IrqInit, IrqInv, IrqType, AllServed, Entered, Handled

\* Requests that come and go, tasks that call and attach: nothing is
\* acknowledged.
LEMMA OutsideStep ==
    ASSUME IrqInv,
           (\E l \in Lines : Raise(l) \/ Drop(l) \/ attach_irq(l)) \/ See \/ Syscall \/ UNCHANGED irqVars
    PROVE  IrqInv'
<1>. USE DEF IrqInv, IrqType, AllServed, AtTask, Entered, Handled, Unrequested, Requested
<1>1. CASE \E l \in Lines : Raise(l) \/ Drop(l) \/ attach_irq(l)
  <2>1. UNCHANGED <<isr, seen, cpu, owed, stray>> /\ irr' \subseteq Lines
    BY <1>1 DEF Raise, Drop, attach_irq
  <2>. QED
    BY <2>1
<1>2. CASE See
  BY <1>2 DEF See, HighestOf, Deliverable
<1>3. CASE Syscall
  <2>1. cpu'.in = "entry" /\ cpu'.v = SYSCALL /\ cpu' \in [v : Int, in : {"task", "entry", "handler"}]
    BY SMTT(30), <1>3 DEF Syscall, SYSCALL
  <2>2. UNCHANGED <<irr, isr, seen, owed, stray>> /\ isr = {} /\ owed = {}
    BY <1>3 DEF Syscall
  <2>. QED
    BY <2>1, <2>2
<1>4. CASE UNCHANGED irqVars
  BY <1>4 DEF irqVars
<1>. QED
  BY <1>1, <1>2, <1>3, <1>4

\* The acknowledgement: of a request, or of one that has gone.
LEMMA AcceptStep ==
    ASSUME IrqInv, Accept
    PROVE  IrqInv'
<1>. USE DEF IrqInv, IrqType, AllServed, AtTask
<1>1. isr = {} /\ owed = {} /\ ~stray /\ UNCHANGED stray /\ seen' = -1
  BY DEF Accept
<1>2. ASSUME NEW l \in HighestOf(Deliverable(irr)),
             irr' = irr \ {l}, isr' = isr \cup {l, OnMaster(l)}, owed' = owed \cup {l}, Vector(l)
      PROVE  IrqInv'
  <2>1. l \in Lines /\ l \in 0..15 /\ OnMaster(l) \in 0..15
    BY SMTT(30), <1>2, IrqAssumption DEF HighestOf, Deliverable, OnMaster, CASCADE_IRQ
  <2>2. cpu'.v = IRQ0_OFFSET + l /\ cpu'.in = "entry" /\ cpu' \in [v : Int, in : {"task", "entry", "handler"}]
    BY SMTT(30), <1>2, <2>1 DEF Vector, IRQ0_OFFSET
  <2>3. isr' = {l, OnMaster(l)} /\ owed' = {l} /\ irr' \subseteq Lines
    BY <1>1, <1>2
  <2>4. Entered'
    BY <2>1, <2>2, <2>3 DEF Entered, Requested, OnMaster
  <2>5. Handled' /\ AllServed'
    BY <1>1, <2>2 DEF Handled
  <2>6. isr' \subseteq 0..15 /\ owed' \subseteq Lines
    BY <2>1, <2>3
  <2>. QED
    BY <1>1, <2>2, <2>3, <2>4, <2>5, <2>6
<1>3. ASSUME Vector(7), UNCHANGED <<irr, isr, owed>>
      PROVE  IrqInv'
  <2>1. cpu'.v = IRQ0_OFFSET + 7 /\ cpu'.in = "entry" /\ cpu' \in [v : Int, in : {"task", "entry", "handler"}]
    BY SMTT(30), <1>3 DEF Vector, IRQ0_OFFSET
  <2>2. Entered' /\ Handled' /\ AllServed'
    BY <1>1, <1>3, <2>1 DEF Entered, Unrequested, Handled
  <2>. QED
    BY <1>1, <1>3, <2>1, <2>2
<1>4. ASSUME Vector(15), isr' = isr \cup {CASCADE_IRQ}, UNCHANGED <<irr, owed>>
      PROVE  IrqInv'
  <2>1. cpu'.v = IRQ0_OFFSET + 15 /\ cpu'.in = "entry" /\ cpu' \in [v : Int, in : {"task", "entry", "handler"}]
    BY SMTT(30), <1>4 DEF Vector, IRQ0_OFFSET
  <2>2. isr' = {CASCADE_IRQ} /\ CASCADE_IRQ \in 0..15
    BY SMTT(30), <1>1, <1>4 DEF CASCADE_IRQ
  <2>3. Entered' /\ Handled' /\ AllServed'
    BY <1>1, <1>4, <2>1, <2>2 DEF Entered, Unrequested, Handled
  <2>. QED
    BY <1>1, <1>4, <2>1, <2>2, <2>3
<1>. QED
  BY <1>2, <1>3, <1>4 DEF Accept

\* do_irq: what no request stands behind is not handled, and ends where it is
\* in service on the first controller; what one stands behind is ended.
LEMMA DoIrqStep ==
    ASSUME IrqInv, do_irq
    PROVE  IrqInv'
<1>. USE DEF IrqInv, IrqType, AllServed, AtTask
<1>0. cpu.in = "entry" /\ UNCHANGED <<irr, seen, owed, stray>>
  BY DEF do_irq
<1>1. CASE Unrequested
  <2>1. CASE cpu.v = IRQ0_OFFSET + 7 /\ isr = {}
    <3>1. cpu' = Task /\ isr' = {}
      BY SMTT(30), <2>1 DEF do_irq, pic_get_isr, IRQ0_OFFSET
    <3>. QED
      BY SMTT(30), <1>0, <1>1, <3>1 DEF Unrequested, Entered, Handled, Task
  <2>2. CASE cpu.v = IRQ0_OFFSET + 15 /\ isr = {CASCADE_IRQ}
    <3>1. ~pic_get_isr(15)
      BY SMTT(30), <2>2 DEF pic_get_isr, CASCADE_IRQ
    <3>2. cpu' = Task /\ isr' = EoiTo(Master, isr)
      BY SMTT(30), <2>2, <3>1 DEF do_irq, IRQ0_OFFSET
    <3>3. isr' = {}
      <4>1. isr \cap Master = {CASCADE_IRQ} /\ CASCADE_IRQ \in 0..15
        BY SMTT(30), <2>2 DEF Master, CASCADE_IRQ
      <4>. QED
        BY SMTT(30), <2>2, <3>2, <4>1, EoiOfOne
    <3>. QED
      BY SMTT(30), <1>0, <1>1, <3>2, <3>3 DEF Unrequested, Entered, Handled, Task
  <2>3. CASE cpu.v = SYSCALL /\ isr = {}
    <3>1. cpu' = [cpu EXCEPT !.in = "handler"] /\ isr' = {}
      BY SMTT(30), <2>3 DEF do_irq, SYSCALL, IRQ0_OFFSET
    <3>. QED
      BY <1>0, <1>1, <2>3, <3>1 DEF Unrequested, Entered, Handled
  <2>. QED
    BY <1>1, <2>1, <2>2, <2>3 DEF Unrequested
<1>2. ASSUME NEW l \in Lines, Requested(l)
      PROVE  IrqInv'
  <2>1. l \in 0..15 /\ cpu.v = IRQ0_OFFSET + l /\ isr = {l, OnMaster(l)} /\ owed = {l}
    BY <1>2, IrqAssumption DEF Requested
  <2>2. pic_get_isr(l)
    BY <2>1 DEF pic_get_isr
  <2>3. isr' = pic_eoi(cpu.v) /\ cpu' = [cpu EXCEPT !.in = "handler"]
    BY SMTT(30), <2>1, <2>2 DEF do_irq, IRQ0_OFFSET
  <2>4. isr' = {}
    BY <2>1, <2>3, EoiClears
  <2>. QED
    BY <1>0, <2>1, <2>3, <2>4 DEF Entered, Handled
<1>. QED
  BY <1>0, <1>1, <1>2 DEF Entered

\* The handler of what was acknowledged is called, or the kernel halts in it.
LEMMA HandleStep ==
    ASSUME IrqInv, Handle \/ halt
    PROVE  IrqInv'
<1>. USE DEF IrqInv, IrqType, AllServed, AtTask, Task
<1>1. CASE Handle
  <2>1. cpu.in = "handler" /\ cpu' = Task /\ UNCHANGED <<irr, isr, seen>>
    BY <1>1 DEF Handle
  <2>2. isr = {}
    BY <2>1 DEF Handled
  <2>3. CASE cpu.v = SYSCALL /\ owed = {}
    <3>1. owed' = {} /\ ~(cpu.v - IRQ0_OFFSET \in 0..15)
      BY SMTT(30), <1>1, <2>3 DEF Handle, SYSCALL, IRQ0_OFFSET
    <3>2. ~stray'
      BY <1>1, <3>1 DEF Handle
    <3>. QED
      BY SMTT(30), <2>1, <2>2, <3>1, <3>2 DEF Entered, Handled
  <2>4. ASSUME NEW l \in Lines, cpu.v = IRQ0_OFFSET + l, owed = {l}
        PROVE  IrqInv'
    <3>1. cpu.v - IRQ0_OFFSET = l
      BY SMTT(30), <2>4, IrqAssumption DEF IRQ0_OFFSET
    <3>2. owed' = {} /\ cpu.v - IRQ0_OFFSET \in owed
      BY <1>1, <2>4, <3>1 DEF Handle
    <3>3. ~stray'
      BY <1>1, <3>2 DEF Handle
    <3>. QED
      BY SMTT(30), <2>1, <2>2, <3>2, <3>3 DEF Entered, Handled
  <2>. QED
    BY <2>1, <2>3, <2>4 DEF Handled
<1>2. CASE halt
  <2>1. cpu.in \in {"task", "handler"} /\ cpu' = Task /\ owed' = owed \ {cpu.v - IRQ0_OFFSET}
        /\ UNCHANGED <<irr, isr, seen, stray>>
    BY <1>2 DEF halt
  <2>2. isr = {}
    BY <2>1 DEF Handled
  <2>3. owed' = {}
    <3>1. ASSUME NEW l \in Lines, cpu.v = IRQ0_OFFSET + l, owed = {l}
          PROVE  owed' = {}
      <4>1. cpu.v - IRQ0_OFFSET = l
        BY SMTT(30), <3>1, IrqAssumption DEF IRQ0_OFFSET
      <4>. QED
        BY <2>1, <3>1, <4>1
    <3>. QED
      BY <2>1, <3>1 DEF Handled
  <2>. QED
    BY SMTT(30), <2>1, <2>2, <2>3 DEF Entered, Handled
<1>. QED
  BY <1>1, <1>2

\* Whatever lines interrupt in whatever order, spurious requests of either
\* controller and system calls included: no line stays in service when a task
\* runs, every request acknowledged is handled once, and nothing else is.
THEOREM EveryLineServed == IrqSpec => []AllServed
<1>1. IrqInv /\ [IrqNext]_irqVars => IrqInv'
  BY OutsideStep, AcceptStep, DoIrqStep, HandleStep DEF IrqNext
<1>2. IrqInv => AllServed
  BY DEF IrqInv
<1>. QED
  BY <1>1, <1>2, IrqInvInit, PTL DEF IrqSpec

(* ---------------------------- the motors: Motor ---------------------------- *)

UserLabels == {"idle", "read_dir", "dir_on", "dir_back", "motor_on", "direct", "spinup", "on", "command",
               "motor_off", "off", "test", "create", "store"}
TaskLabels == {"none", "sleep", "expire", "kill", "off", "clear"}

MotorType ==
    /\ motor_state \in [Drives -> {"off", "on", "timeout"}]
    /\ motor_ms \in [Drives -> Int]
    /\ timer \in [Drives -> BOOLEAN]
    /\ user \in [at : UserLabels, d : Drives]
    /\ timeout \in [Drives -> [Timers -> TaskLabels]]
    /\ prompt \in SUBSET Drives

Live(d, t) == timeout[d][t] # "none"
NoneAwake(d) == \A t \in Timers : timeout[d][t] \in {"none", "sleep"}

\* OneTimer, with a quantifier for the set.
TimersKnown ==
    \A d \in Drives :
        /\ \A t, u \in Timers : Live(d, t) /\ Live(d, u) => t = u
        /\ timer[d] => \E t \in Timers : Live(d, t)
        /\ ~timer[d] => \A t \in Timers : Live(d, t) => user.at = "store" /\ user.d = d

\* The time-out has just been set: the drive's task has not ended a sleep
\* since, has ended one, or has counted it.
Fresh(d) == d \in prompt /\ motor_ms[d] = MOTOR_TIMEOUT /\ NoneAwake(d)
Ticked(d) ==
    /\ d \notin prompt /\ motor_ms[d] = MOTOR_TIMEOUT
    /\ \E t \in Timers : timeout[d][t] = "expire"
    /\ \A t \in Timers : timeout[d][t] \in {"none", "expire"}
Counted(d) ==
    /\ d \notin prompt /\ motor_ms[d] = MOTOR_TIMEOUT - 1 /\ NoneAwake(d)
    /\ \E t \in Timers : Live(d, t)

\* Where motor_set is tells what the task can have done.
MotorPlaces ==
    /\ user.at \in {"command", "motor_off", "off"} => motor_state[user.d] # "timeout"
    /\ user.at \in {"motor_off", "off"} => NoneAwake(user.d)
    /\ user.at = "off" => motor_ms[user.d] = MOTOR_TIMEOUT
    /\ user.at \in {"test", "store"} => Fresh(user.d) \/ Ticked(user.d) \/ Counted(user.d)
    /\ user.at = "create" => ~timer[user.d] /\ motor_ms[user.d] = MOTOR_TIMEOUT
    /\ user.at = "store" => \E t \in Timers : Live(user.d, t)

MotorInv == MotorType /\ TimersKnown /\ MotorPlaces

-----------------------------------------------------------------------------

\* The strengthened invariant holds at the start.
LEMMA MotorInvInit == MotorInit => MotorInv
BY SMTT(30) DEF MotorInit, MotorInv, MotorType, TimersKnown, MotorPlaces, Live, NoneAwake, UserLabels, TaskLabels

\* It implies the property.
LEMMA MotorImplies == MotorInv => OneTimer
BY SMTT(30) DEF MotorInv, TimersKnown, MotorType, Live, OneTimer

\* A task that goes on is at one of its labels.
LEMMA TimerGotoType ==
    ASSUME MotorType, NEW d \in Drives, NEW t \in Timers, NEW l \in TaskLabels, TimerGoto(d, t, l)
    PROVE  timeout' \in [Drives -> [Timers -> TaskLabels]]
BY DEF MotorType, TimerGoto

\* It is kept by each step of a time-out task.
LEMMA TimeoutStep ==
    ASSUME MotorInv, NEW d \in Drives, NEW t \in Timers, floppy_timeout(d, t)
    PROVE  MotorInv'
<1>1. CASE Tick(d, t)
  <2>1. MotorType'
    BY <1>1 DEF MotorInv, MotorType, Tick, TimerAt, TimerGoto, driveFields, TaskLabels
  <2>2. TimersKnown'
    BY SMTT(30), <1>1, <2>1 DEF MotorInv, MotorType, TimersKnown, Live, Tick, TimerAt, TimerGoto, driveFields
  <2>3. MotorPlaces'
    BY SMTT(30), <1>1, <2>1, MotorAssumption DEF MotorInv, MotorType, TimersKnown, MotorPlaces, Live, NoneAwake,
             Fresh, Ticked, Counted, Tick, TimerAt, TimerGoto,
        driveFields, Asleep
  <2> QED BY <2>1, <2>2, <2>3 DEF MotorInv
<1>2. CASE Expire(d, t)
  <2>1. MotorType'
    BY SMTT(30), <1>2 DEF MotorInv, MotorType, Expire, TimerAt, TimerGoto, TaskLabels
  <2>2. TimersKnown'
    BY SMTT(30), <1>2, <2>1 DEF MotorInv, MotorType, TimersKnown, Live, Expire, TimerAt, TimerGoto
  <2>3. MotorPlaces'
    BY SMTT(30), <1>2, <2>1, MotorAssumption DEF MotorInv, MotorType, TimersKnown, MotorPlaces, Live, NoneAwake,
             Fresh, Ticked, Counted, Expire, TimerAt, TimerGoto
  <2> QED BY <2>1, <2>2, <2>3 DEF MotorInv
<1>3. CASE motor_kill(d, t)
  <2>0. timeout' \in [Drives -> [Timers -> TaskLabels]]
    BY <1>3, TimerGotoType DEF MotorInv, motor_kill, TaskLabels
  <2>1. MotorType'
    BY <1>3, <2>0 DEF MotorInv, MotorType, motor_kill, driveFields
  <2>2. \E l \in {"off", "clear"} :
           timeout[d][t] \in {"kill", "off"} /\ timeout' = [timeout EXCEPT ![d][t] = l]
    BY <1>3 DEF motor_kill, TimerAt, TimerGoto
  <2>3. /\ UNCHANGED <<user, motor_ms, timer, prompt>>
        /\ motor_state[user.d] # "timeout" => motor_state'[user.d] # "timeout"
    BY <1>3 DEF MotorInv, MotorType, motor_kill, driveFields
  <2>4. TimersKnown'
    BY SMTT(30), <2>1, <2>2, <2>3 DEF MotorInv, MotorType, TimersKnown, Live
  <2>5. d = user.d => user.at \notin {"motor_off", "off", "test", "create", "store"}
    BY SMTT(30), <2>2 DEF MotorInv, MotorType, TimersKnown, MotorPlaces, Live, NoneAwake, Fresh, Ticked, Counted
  <2>6. d # user.d => timeout'[user.d] = timeout[user.d]
    BY <2>2 DEF MotorInv, MotorType
  <2>7. MotorPlaces'
    BY <2>3, <2>5, <2>6 DEF MotorInv, MotorPlaces, Live, NoneAwake, Fresh, Ticked, Counted
  <2> QED BY <2>1, <2>4, <2>7 DEF MotorInv
<1>4. CASE TimerFinish(d, t)
  <2>1. MotorType'
    BY <1>4 DEF MotorInv, MotorType, TimerFinish, TimerAt, TimerGoto, TaskLabels
  <2>2. TimersKnown'
    BY SMTT(30), <1>4, <2>1 DEF MotorInv, MotorType, TimersKnown, Live, TimerFinish, TimerAt, TimerGoto
  <2>3. MotorPlaces'
    BY SMTT(30), <1>4, <2>1, MotorAssumption DEF MotorInv, MotorType, TimersKnown, MotorPlaces, Live, NoneAwake,
             Fresh, Ticked, Counted, TimerFinish, TimerAt, TimerGoto
  <2> QED BY <2>1, <2>2, <2>3 DEF MotorInv
<1> QED BY <1>1, <1>2, <1>3, <1>4 DEF floppy_timeout

\* It is kept by each step of the task that uses the drives.
LEMMA UseStep ==
    ASSUME MotorInv, Use
    PROVE  MotorInv'
<1>1. CASE read_dir
  <2>1. /\ UNCHANGED <<driveFields, timeout>> /\ prompt' = Drives /\ user'.d = user.d
        /\ user'.at \in {"dir_on", "dir_back", "idle"} /\ user.at \in {"read_dir", "dir_on", "dir_back"}
        /\ user' \in [at : UserLabels, d : Drives]
    BY <1>1 DEF MotorInv, MotorType, read_dir, Move, UserLabels
  <2> QED BY SMTT(30), <2>1 DEF MotorInv, MotorType, TimersKnown, MotorPlaces, Live, NoneAwake, driveFields
<1>2. CASE MotorOn
  <2>1. MotorType'
    BY <1>2 DEF MotorInv, MotorType, MotorOn, Move, UserLabels, driveFields
  <2>2. UNCHANGED <<timer, timeout>> /\ user.at # "store"
    BY <1>2 DEF MotorOn, Move, driveFields
  <2>3. TimersKnown'
    BY <2>2 DEF MotorInv, MotorType, TimersKnown, Live
  <2>4. MotorPlaces'
    BY <1>2 DEF MotorInv, MotorType, MotorPlaces, MotorOn, Move, driveFields
  <2> QED BY <2>1, <2>3, <2>4 DEF MotorInv
<1>3. CASE Command
  <2>1. MotorType'
    BY <1>3 DEF MotorInv, MotorType, Command, NotTaken, Move, UserLabels, driveFields
  <2>2. TimersKnown'
    BY SMTT(30), <1>3 DEF MotorInv, MotorType, TimersKnown, Live, Command, NotTaken, Move, driveFields
  <2>3. MotorPlaces'
    BY <1>3 DEF MotorInv, MotorType, MotorPlaces, NoneAwake, Command, NotTaken, Awake, Move, driveFields
  <2> QED BY <2>1, <2>2, <2>3 DEF MotorInv
<1>4. CASE MotorOff
  <2>1. user.at \in {"motor_off", "off", "test", "create", "store"} /\ prompt' = Drives
    BY <1>4 DEF MotorOff, Move
  <2>2. CASE user.at = "motor_off"
    <3>1. /\ user' = [user EXCEPT !.at = "off"] /\ motor_ms' = [motor_ms EXCEPT ![user.d] = MOTOR_TIMEOUT]
          /\ UNCHANGED <<motor_state, timer, timeout>>
      BY <1>4, <2>2 DEF MotorOff, Move
    <3> QED BY SMTT(30), <2>1, <2>2, <3>1, MotorAssumption DEF MotorInv, MotorType, TimersKnown, MotorPlaces, Live,
             NoneAwake, UserLabels
  <2>3. CASE user.at = "off"
    <3>1. /\ user' = [user EXCEPT !.at = "test"] /\ motor_state' = [motor_state EXCEPT ![user.d] = "timeout"]
          /\ UNCHANGED <<motor_ms, timer, timeout>>
      BY <1>4, <2>3 DEF MotorOff, Move
    <3> QED BY SMTT(30), <2>1, <2>3, <3>1 DEF MotorInv, MotorType, TimersKnown, MotorPlaces, Live, NoneAwake, Fresh,
             UserLabels
  <2>4. CASE user.at = "test"
    <3>1. /\ user' = [user EXCEPT !.at = IF timer[user.d] THEN "idle" ELSE "create"]
          /\ UNCHANGED <<motor_state, motor_ms, timer, timeout>>
      BY <1>4, <2>4 DEF MotorOff, Move, driveFields
    <3>2. ~timer[user.d] => motor_ms[user.d] = MOTOR_TIMEOUT
      BY <2>4 DEF MotorInv, MotorType, TimersKnown, MotorPlaces, Live, Fresh, Ticked, Counted
    <3> QED BY SMTT(30), <2>1, <2>4, <3>1, <3>2 DEF MotorInv, MotorType, TimersKnown, MotorPlaces, Live, UserLabels
  <2>5. CASE user.at = "create"
    <3>1. /\ user' = [user EXCEPT !.at = "store"] /\ task_create(user.d)
          /\ UNCHANGED <<motor_state, motor_ms, timer>>
      BY <1>4, <2>5 DEF MotorOff, Move, driveFields
    <3>2. PICK t \in Timers : timeout' = [timeout EXCEPT ![user.d][t] = "sleep"]
      BY <3>1 DEF task_create, TimerGoto
    <3>3. \A u \in Timers : timeout[user.d][u] = "none"
      BY <2>5 DEF MotorInv, MotorType, TimersKnown, MotorPlaces, Live
    <3>4. MotorType'
      BY <2>1, <3>1, <3>2 DEF MotorInv, MotorType, UserLabels, TaskLabels
    <3>5. TimersKnown'
      BY SMTT(30), <2>5, <3>1, <3>2, <3>3 DEF MotorInv, MotorType, TimersKnown, Live
    <3>6. MotorPlaces'
      BY SMTT(30), <2>1, <2>5, <3>1, <3>2, <3>3 DEF MotorInv, MotorType, MotorPlaces, Live, NoneAwake, Fresh
    <3> QED BY <3>4, <3>5, <3>6 DEF MotorInv
  <2>6. CASE user.at = "store"
    <3>1. /\ user' = [user EXCEPT !.at = "idle"] /\ timer' = [timer EXCEPT ![user.d] = TRUE]
          /\ UNCHANGED <<motor_state, motor_ms, timeout>>
      BY <1>4, <2>6 DEF MotorOff, Move
    <3> QED BY SMTT(30), <2>1, <2>6, <3>1 DEF MotorInv, MotorType, TimersKnown, MotorPlaces, Live, UserLabels
  <2> QED BY <2>1, <2>2, <2>3, <2>4, <2>5, <2>6
<1> QED BY <1>1, <1>2, <1>3, <1>4 DEF Use

\* For any drives and any time-out of more than one unit, a drive has one
\* time-out task at most and timer knows of it: motor_set's test of the field
\* and its store of the new task's number race with the task's own end.
THEOREM TimerUnique == MotorSpec => []OneTimer
<1>1. MotorInv /\ [MotorNext]_motorVars => MotorInv'
  <2> SUFFICES ASSUME MotorInv, [MotorNext]_motorVars PROVE MotorInv'
    OBVIOUS
  <2>1. ASSUME NEW d \in Drives, NEW op \in {"read_dir", "motor_on"}, UseBegin(d, op)
        PROVE  MotorInv'
    BY SMTT(30), <2>1 DEF MotorInv, MotorType, TimersKnown, MotorPlaces, Live, NoneAwake, UseBegin, driveFields,
             UserLabels
  <2>2. CASE UNCHANGED motorVars
    BY SMTT(30), <2>2 DEF motorVars, driveFields, MotorInv, MotorType, TimersKnown, MotorPlaces, Live, NoneAwake,
             Fresh, Ticked, Counted
  <2> QED BY <2>1, <2>2, TimeoutStep, UseStep DEF MotorNext
<1> QED BY <1>1, MotorInvInit, MotorImplies, PTL DEF MotorSpec

(* ------------------------ commands and results: Fdc ------------------------ *)

FdcNames == {"recalibrate", "seek", "sense", "read_id", "data"}
FdcLabels == {"idle", "send", "wait", "sense", "sense_st0", "sense_pcn", "sensed", "results", "check", "id_ok",
           "data_ok", "panic"}
Statuses == {"ok", "error"}

FdcType ==
    /\ fdc_phase \in {"idle", "command", "execution", "result"}
    /\ command \in FdcNames \cup {"none"} /\ fdc_op \in FdcNames \cup {"none"}
    /\ left \in Int /\ fdc_status \in Statuses /\ mine \in BOOLEAN
    /\ fdc_at \in FdcLabels /\ fdc_n \in Int
    /\ fdc_bytes \in [have : Int, status : Statuses, mine : BOOLEAN]

\* The command the driver has begun to send is the one the controller is at,
\* or has refused with its first byte.
Sending ==
    /\ mine /\ command = fdc_op
    /\ \/ fdc_phase = "command" /\ left = Length[fdc_op] - fdc_n
       \/ fdc_phase = "result" /\ left = 1

\* While its result is read: none yet, some of it, a refusal, or all there is.
Reading ==
    /\ mine /\ command = fdc_op /\ fdc_bytes.mine
    /\ \/ fdc_phase = "execution" /\ fdc_bytes.have = 0 /\ fdc_bytes.status = "ok"
       \/ fdc_phase = "result" /\ fdc_bytes.have + left = Results
       \/ fdc_phase = "result" /\ fdc_bytes.have = 0 /\ left = 1
       \/ fdc_phase = "idle" /\ fdc_bytes.have \in {1, Results}
    /\ fdc_bytes.have >= 0 /\ (fdc_at = "results" => fdc_bytes.have <= fdc_n)
    /\ fdc_bytes.status = "error" => fdc_phase = "idle" \/ (fdc_at = "results" /\ fdc_bytes.have = fdc_n)

FdcPlaces ==
    /\ fdc_phase = "command" => fdc_at = "send" /\ fdc_n > 0
    /\ fdc_phase = "result" => left > 0
    /\ fdc_at = "send" => fdc_op \in FdcNames \ {"sense"} /\ fdc_n >= 0 /\ fdc_n < Length[fdc_op]
    /\ fdc_at = "send" /\ fdc_n > 0 => Sending
    /\ fdc_at = "send" /\ fdc_n = 0 /\ fdc_op = "data" => fdc_phase = "idle"
    /\ fdc_at = "wait" => fdc_op \in FdcNames \ {"sense"}
    /\ fdc_at = "wait" /\ fdc_op \in {"read_id", "data"} =>
          /\ mine /\ command = fdc_op
          /\ fdc_phase = "execution" \/ (fdc_phase = "result" /\ left \in {1, Results})
    /\ fdc_at \in {"sense", "sense_st0", "sense_pcn", "sensed"} => fdc_op \in {"seek", "recalibrate"}
    /\ fdc_at \in {"results", "check"} => fdc_op \in {"read_id", "data"} /\ Reading
    /\ fdc_at = "results" => fdc_n \in 0 .. Results - 1

FdcInv == FdcType /\ FdcPlaces /\ ResultsAreOwn

-----------------------------------------------------------------------------

\* The lengths of the commands, one by one.
LEMMA FdcLengths ==
    /\ Length["recalibrate"] = 2 /\ Length["seek"] = 3 /\ Length["sense"] = 1
    /\ Length["read_id"] = 2 /\ Length["data"] = 9
    /\ DOMAIN Length = FdcNames
BY DEF Length, FdcNames

\* The strengthened invariant holds at the start.
LEMMA FdcInvInit == FdcInit => FdcInv
<1> SUFFICES ASSUME FdcInit PROVE FdcInv
  OBVIOUS
<1>1. FdcType
  <2>1. mine \in BOOLEAN
    BY DEF FdcInit
  <2>2. fdc_bytes \in [have : Int, status : Statuses, mine : BOOLEAN]
    BY SMTT(30) DEF FdcInit, NoBytes, Statuses
  <2> QED BY SMTT(30), <2>1, <2>2 DEF FdcInit, FdcType, FdcLabels, Statuses
<1>2. FdcPlaces /\ ResultsAreOwn
  BY DEF FdcInit, FdcPlaces, ResultsAreOwn
<1> QED BY <1>1, <1>2 DEF FdcInv

\* It is kept by the controller's own steps.
LEMMA ControllerStep ==
    ASSUME FdcInv, SeekEnds \/ ExecutionEnds
    PROVE  FdcInv'
<1>1. CASE SeekEnds
  BY SMTT(30), <1>1 DEF SeekEnds, driver, FdcInv, FdcType, FdcPlaces, Sending, Reading, ResultsAreOwn
<1>2. CASE ExecutionEnds
  <2>1. FdcType'
    BY SMTT(30), <1>2 DEF ExecutionEnds, Give, driver, FdcInv, FdcType, Results, Statuses
  <2>2. FdcPlaces'
    BY SMTT(30), <1>2 DEF ExecutionEnds, Give, driver, FdcInv, FdcType, FdcPlaces, Sending, Reading, Results
  <2>3. ResultsAreOwn'
    BY <1>2 DEF ExecutionEnds, driver, FdcInv, ResultsAreOwn
  <2> QED BY <2>1, <2>2, <2>3 DEF FdcInv
<1> QED BY <1>1, <1>2

\* It is kept when a command is begun.
LEMMA FdcBeginStep ==
    ASSUME FdcInv, NEW c \in DOMAIN Length, FdcBegin(c)
    PROVE  FdcInv'
<1>1. FdcType'
  <2>1. mine' \in BOOLEAN
    BY DEF FdcBegin
  <2> QED BY SMTT(30), <2>1, FdcLengths DEF FdcBegin, FdcGoto, FdcInv, FdcType, FdcLabels
<1>2. FdcPlaces'
  <2>1. /\ c \in FdcNames \ {"sense"} /\ Length[c] > 0 /\ fdc_phase # "command"
        /\ c = "data" => fdc_phase = "idle"
    BY SMTT(30), FdcLengths DEF FdcBegin, FdcInv, FdcPlaces, ResultsAreOwn, FdcNames
  <2>2. fdc_at' = "send" /\ fdc_n' = 0 /\ fdc_op' = c /\ UNCHANGED <<fdc_phase, left>>
    BY DEF FdcBegin, FdcGoto
  <2> QED BY SMTT(30), <2>1, <2>2 DEF FdcInv, FdcPlaces
<1>3. ResultsAreOwn'
  BY DEF FdcBegin, FdcGoto, ResultsAreOwn
<1> QED BY <1>1, <1>2, <1>3 DEF FdcInv

\* It is kept by each byte of a command that is sent, or not taken.
LEMMA SendStep ==
    ASSUME FdcInv, send_byte \/ SendFails
    PROVE  FdcInv'
<1>1. CASE SendFails
  <2>1. FdcType'
    BY SMTT(30), <1>1 DEF SendFails, NotSent, FdcGoto, fdc, FdcInv, FdcType, FdcLabels
  <2>2. FdcPlaces' /\ ResultsAreOwn'
    BY <1>1 DEF SendFails, NotSent, CanTake, FdcGoto, fdc, FdcInv, FdcType, FdcPlaces, ResultsAreOwn
  <2> QED BY <2>1, <2>2 DEF FdcInv
<1>2. CASE send_byte /\ NotSent
  <2>1. fdc_op = "data" /\ fdc_at = "send" /\ fdc_n > 0 /\ fdc_phase = "result"
    BY SMTT(30), <1>2 DEF send_byte, Sent, NotSent, CanTake, FdcInv, FdcType, FdcPlaces, Sending
  <2>2. FdcType'
    BY SMTT(30), <1>2 DEF send_byte, NotSent, FdcGoto, fdc, FdcInv, FdcType, FdcLabels
  <2>3. FdcPlaces' /\ ResultsAreOwn'
    BY SMTT(30), <1>2, <2>1, FdcLengths DEF send_byte, NotSent, FdcGoto, fdc, FdcInv, FdcType, FdcPlaces, Sending,
             ResultsAreOwn,
        FdcNames
  <2> QED BY <2>2, <2>3 DEF FdcInv
<1>3. CASE send_byte /\ TakeFirst(fdc_op)
  <2>1. fdc_at = "send" /\ fdc_n = 0 /\ fdc_op \in FdcNames \ {"sense"} /\ Length[fdc_op] > 1 /\ Length[fdc_op] \in Int
    BY SMTT(30), <1>3, FdcLengths DEF send_byte, TakeFirst, FdcInv, FdcType, FdcPlaces, Sending, FdcNames
  <2>2. /\ fdc_at' = "send" /\ fdc_n' = 1 /\ command' = fdc_op /\ mine' = TRUE
        /\ UNCHANGED <<fdc_op, fdc_bytes>>
        /\ \/ fdc_phase' = "result" /\ left' = 1 /\ fdc_status' = "error"
           \/ fdc_phase' = "command" /\ left' = Length[fdc_op] - 1 /\ fdc_status' = fdc_status
    BY SMTT(30), <1>3, <2>1 DEF send_byte, TakeFirst, Give, FdcGoto
  <2>3. FdcType'
    BY SMTT(30), <2>1, <2>2 DEF FdcInv, FdcType, FdcLabels, FdcNames, Statuses
  <2>4. FdcPlaces' /\ ResultsAreOwn'
    BY SMTT(30), <2>1, <2>2 DEF FdcInv, FdcType, FdcPlaces, Sending, ResultsAreOwn
  <2> QED BY <2>3, <2>4 DEF FdcInv
<1>4. CASE send_byte /\ TakeNext
  <2>1. /\ fdc_at = "send" /\ fdc_n > 0 /\ fdc_op \in FdcNames \ {"sense"}
        /\ Length[fdc_op] \in Int /\ fdc_n < Length[fdc_op]
        /\ Sending /\ fdc_phase = "command"
    BY SMTT(30), <1>4, FdcLengths DEF send_byte, TakeNext, FdcInv, FdcType, FdcPlaces, FdcNames
  <2>2. /\ left' = left - 1 /\ UNCHANGED <<command, fdc_status, mine, fdc_op, fdc_bytes>>
        /\ fdc_phase' = IF left > 1 THEN "command"
                    ELSE IF command \in {"seek", "recalibrate"} THEN "idle" ELSE "execution"
        /\ IF fdc_n + 1 = Length[fdc_op] THEN fdc_at' = "wait" /\ fdc_n' = 0 ELSE fdc_n' = fdc_n + 1 /\ fdc_at' = "send"
    BY <1>4, <2>1 DEF send_byte, TakeNext, FdcGoto
  <2>3. FdcType'
    BY SMTT(30), <2>1, <2>2 DEF FdcInv, FdcType, FdcLabels
  <2>4. FdcPlaces' /\ ResultsAreOwn'
    BY SMTT(30), <2>1, <2>2 DEF FdcInv, FdcType, FdcPlaces, Sending, ResultsAreOwn, FdcNames
  <2> QED BY <2>3, <2>4 DEF FdcInv
<1> QED BY <1>1, <1>2, <1>3, <1>4 DEF send_byte, Sent, Take

\* It is kept when the interrupt comes, or is waited for in vain.
LEMMA WaitStep ==
    ASSUME FdcInv, wait_irq
    PROVE  FdcInv'
<1>1. FdcType'
  BY SMTT(30) DEF wait_irq, FdcGoto, NoBytes, fdc, FdcInv, FdcType, FdcLabels, Statuses
<1>2. FdcPlaces' /\ ResultsAreOwn'
  BY SMTT(30) DEF wait_irq, FdcGoto, NoBytes, fdc, FdcInv, FdcType, FdcPlaces, Reading, ResultsAreOwn, Results,
           FdcNames
<1> QED BY <1>1, <1>2 DEF FdcInv

\* It is kept while a seek is sensed, and when it is tried again.
LEMMA SenseStep ==
    ASSUME FdcInv, cmd_sense_interrupt \/ Sensed
    PROVE  FdcInv'
<1>1. CASE Sensed
  <2>1. fdc_op \in {"seek", "recalibrate"} /\ fdc_op \in FdcNames \ {"sense"} /\ Length[fdc_op] > 0 /\ fdc_phase # "command"
    BY SMTT(30), <1>1, FdcLengths DEF Sensed, FdcInv, FdcPlaces, FdcNames
  <2>2. /\ fdc_at' \in {"idle", "send"} /\ fdc_n' = 0 /\ mine' \in BOOLEAN
        /\ UNCHANGED <<fdc_phase, command, left, fdc_status, fdc_op, fdc_bytes>>
    BY <1>1 DEF Sensed, FdcGoto, FdcInv, FdcType
  <2>3. FdcType'
    BY SMTT(30), <2>2 DEF FdcInv, FdcType, FdcLabels
  <2>4. FdcPlaces' /\ ResultsAreOwn'
    BY SMTT(30), <2>1, <2>2 DEF FdcInv, FdcPlaces, ResultsAreOwn
  <2> QED BY <2>3, <2>4 DEF FdcInv
<1>2. CASE cmd_sense_interrupt
  <2>1. fdc_op \in {"seek", "recalibrate"} /\ fdc_phase # "command"
    BY <1>2 DEF cmd_sense_interrupt, FdcInv, FdcPlaces
  <2>2. fdc_at' \in {"sense_st0", "sense_pcn", "sensed"} /\ fdc_n' = 0 /\ UNCHANGED <<fdc_op, fdc_bytes>>
    BY <1>2 DEF cmd_sense_interrupt, FdcGoto
  <2>3. \/ TakeFirst("sense") \/ (CanGive /\ GiveNext) \/ UNCHANGED fdc
    BY <1>2, <2>1 DEF cmd_sense_interrupt, Sent, Take, TakeNext, NotSent, Received, NotReceived
  <2>4. /\ fdc_phase' \in {"idle", "execution", "result"} /\ command' \in FdcNames \cup {"none"}
        /\ left' \in Int /\ fdc_status' \in Statuses /\ mine' \in BOOLEAN
        /\ fdc_phase' = "result" => left' > 0
    <3>1. CASE TakeFirst("sense")
      BY SMTT(30), <3>1 DEF TakeFirst, Give, FdcNames, Statuses
    <3>2. CASE CanGive /\ GiveNext
      BY SMTT(30), <3>2 DEF CanGive, GiveNext, FdcInv, FdcType, FdcPlaces
    <3>3. CASE UNCHANGED fdc
      BY <3>3, <2>1 DEF fdc, FdcInv, FdcType, FdcPlaces
    <3> QED BY <2>3, <3>1, <3>2, <3>3
  <2>5. FdcType'
    BY SMTT(30), <2>2, <2>4 DEF FdcInv, FdcType, FdcLabels
  <2>6. FdcPlaces' /\ ResultsAreOwn'
    BY <2>1, <2>2, <2>4 DEF FdcPlaces, ResultsAreOwn
  <2> QED BY <2>5, <2>6 DEF FdcInv
<1> QED BY <1>1, <1>2

\* It is kept by each byte of a result that is read, or missing.
LEMMA ReadStep ==
    ASSUME FdcInv, read_byte
    PROVE  FdcInv'
<1>1. fdc_at = "results" /\ fdc_n \in 0 .. Results - 1 /\ fdc_op \in {"read_id", "data"} /\ Reading
  BY DEF read_byte, FdcInv, FdcPlaces
<1>2. CASE Received
  <2>1. FdcType'
    BY SMTT(30), <1>1, <1>2 DEF read_byte, Received, GiveNext, FdcGoto, FdcInv, FdcType, FdcLabels
  <2>2. FdcPlaces'
    <3>1. /\ fdc_bytes'.have = fdc_bytes.have + 1 /\ fdc_bytes'.status = IF fdc_n = 0 THEN fdc_status ELSE fdc_bytes.status
          /\ left' = left - 1 /\ fdc_phase' = (IF left = 1 THEN "idle" ELSE "result")
          /\ fdc_phase = "result" /\ left > 0 /\ left \in Int /\ fdc_bytes.have \in Int
          /\ UNCHANGED <<command, mine, fdc_op>>
      BY SMTT(30), <1>2 DEF read_byte, Received, CanGive, GiveNext, NotReceived, FdcInv, FdcType, FdcPlaces
    <3>2. fdc_bytes'.mine
      <4>1. fdc_bytes'.mine = (fdc_bytes.mine /\ mine)
        BY SMTT(30), <1>2 DEF read_byte, Received, NotReceived
      <4>2. fdc_bytes.mine /\ mine
        BY <1>1 DEF Reading
      <4> QED BY <4>1, <4>2
    <3>3. \/ fdc_n + 1 = Results /\ fdc_at' = "check" /\ fdc_n' = 0
          \/ fdc_n + 1 # Results /\ fdc_at' = "results" /\ fdc_n' = fdc_n + 1
      BY <1>1 DEF read_byte, FdcGoto
    <3>4. Reading'
      BY SMTT(30), <1>1, <3>1, <3>2, <3>3 DEF Reading, Results
    <3>5. (fdc_at = "results" => fdc_n \in 0 .. Results - 1)'
      BY SMTT(30), <1>1, <3>3 DEF Results
    <3>6. (fdc_phase # "command" /\ (fdc_phase = "result" => left > 0))'
      BY SMTT(30), <3>1
    <3> QED BY <1>1, <3>1, <3>3, <3>4, <3>5, <3>6 DEF FdcPlaces
  <2>3. ResultsAreOwn'
    BY <1>1 DEF read_byte, FdcGoto, ResultsAreOwn
  <2> QED BY <2>1, <2>2, <2>3 DEF FdcInv
<1>3. CASE NotReceived
  <2>1. FdcType'
    BY SMTT(30), <1>1, <1>3 DEF read_byte, Received, NotReceived, FdcGoto, fdc, FdcInv, FdcType, FdcLabels
  <2>2. FdcPlaces'
    BY SMTT(30), <1>1, <1>3 DEF read_byte, Received, CanGive, NotReceived, FdcGoto, fdc, FdcInv, FdcType, FdcPlaces,
             Reading, Results
  <2>3. ResultsAreOwn'
    BY <1>1 DEF read_byte, FdcGoto, ResultsAreOwn
  <2> QED BY <2>1, <2>2, <2>3 DEF FdcInv
<1> QED BY <1>2, <1>3 DEF read_byte

\* It is kept when a result is looked at, and when it has been used.
LEMMA CheckStep ==
    ASSUME FdcInv, check_error \/ Detected \/ Done
    PROVE  FdcInv'
<1>1. CASE check_error
  <2>1. fdc_at = "check" /\ fdc_op \in {"read_id", "data"} /\ Reading
    BY <1>1 DEF check_error, FdcInv, FdcPlaces
  <2>2. fdc_n' = 0 /\ UNCHANGED <<fdc_phase, command, left, fdc_status, fdc_op, fdc_bytes>>
    BY <1>1 DEF check_error, FdcGoto
  <2>3. \/ fdc_at' \in {"panic", "idle"} /\ mine' = mine
        \/ fdc_at' = "send" /\ fdc_op = "data" /\ fdc_bytes.status = "error" /\ mine' = FALSE
        \/ fdc_at' \in {"id_ok", "data_ok"} /\ fdc_bytes.status = "ok" /\ fdc_bytes.have = Results /\ mine' = mine
    BY <1>1 DEF check_error, FdcGoto
  <2>4. FdcType'
    <3>1. mine' \in BOOLEAN
      BY <2>3 DEF FdcInv, FdcType
    <3>2. fdc_at' \in FdcLabels
      BY <2>3 DEF FdcLabels
    <3> QED BY SMTT(30), <2>2, <3>1, <3>2 DEF FdcInv, FdcType
  <2>5. fdc_phase # "command" /\ (fdc_phase = "result" => left > 0) /\ left \in Int
    BY <2>1 DEF FdcInv, FdcType, FdcPlaces
  <2>6. fdc_bytes.status = "error" => fdc_phase = "idle"
    BY <2>1 DEF Reading
  <2>7. fdc_bytes.have = Results => fdc_phase = "idle"
    BY SMTT(30), <2>1, <2>5 DEF Reading, Results
  <2>8. Length["data"] = 9 /\ "data" \in FdcNames \ {"sense"}
    BY FdcLengths DEF FdcNames
  <2>9. FdcPlaces'
    BY SMTT(30), <2>2, <2>3, <2>5, <2>6, <2>8 DEF FdcPlaces
  <2>10. ResultsAreOwn'
    BY <2>1, <2>2, <2>3, <2>7 DEF ResultsAreOwn, Reading
  <2> QED BY <2>4, <2>9, <2>10 DEF FdcInv
<1>2. CASE Detected \/ Done
  BY SMTT(30), <1>2 DEF Detected, Done, FdcGoto, fdc, FdcInv, FdcType, FdcPlaces, ResultsAreOwn, FdcLabels
<1> QED BY <1>1, <1>2

\* For any number of retries and of interrupts not yet waited for, a result
\* that check_error accepts is the one of the command sent last: wait_irq may
\* return for the interrupt of a command given up long ago, and the result read
\* then is missing, not another's.
THEOREM LateResultsRefused == FdcSpec => []ResultsAreOwn
<1>1. FdcInv /\ [FdcNext]_fdcVars => FdcInv'
  <2> SUFFICES ASSUME FdcInv, [FdcNext]_fdcVars PROVE FdcInv'
    OBVIOUS
  <2>1. CASE UNCHANGED fdcVars
    BY SMTT(30), <2>1 DEF fdcVars, fdc, driver, FdcInv, FdcType, FdcPlaces, Sending, Reading, ResultsAreOwn
  <2> QED BY <2>1, ControllerStep, FdcBeginStep, SendStep, WaitStep, SenseStep, ReadStep, CheckStep
       DEF FdcNext
<1>2. FdcInv => ResultsAreOwn
  BY DEF FdcInv
<1> QED BY <1>1, <1>2, FdcInvInit, PTL DEF FdcSpec
=============================================================================
