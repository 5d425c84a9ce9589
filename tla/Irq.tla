-------------------------------- MODULE Irq ---------------------------------
(***************************************************************************)
(* Hardware interrupts: the two 8259 interrupt controllers, do_irq and     *)
(* attach_irq (idt.c).  The controllers are external: a request is latched *)
(* in irr, is in service (isr) from its acknowledgement to its EOI, and    *)
(* while it is those of lower priority wait.  A request may go away after  *)
(* the CPU has seen it and before it acknowledges it: then the controller  *)
(* gives the vector of line 7, or of line 15, with no bit of isr set.      *)
(*                                                                         *)
(* All gates are interrupt gates, so interrupts are off from the entry on; *)
(* they are on again when the handler returns, or when the scheduler takes *)
(* the CPU away from it and another task runs.                             *)
(***************************************************************************)
EXTENDS Integers

CONSTANTS
    Lines,          \* request lines in use, of 0..15
    Drivers         \* those a driver attaches a handler to

CASCADE_IRQ == 2
IRQ0_OFFSET == 32
SYSCALL == 128

ASSUME IrqAssumption == Lines \subseteq (0..15) \ {CASCADE_IRQ} /\ Drivers \subseteq Lines

VARIABLES
    irr, isr, imr,      \* requests, in service, masked
    seen,               \* the line whose request the CPU has seen, or -1
    cpu,                \* in: "task", "entry" or "handler"; v: the vector taken
    irq_handlers,       \* line |-> "do_default", or "driver"
    owed,               \* acknowledged lines whose handler has not been called
    stray,              \* a handler was called for no request
    halted

irqVars == <<irr, isr, imr, seen, cpu, irq_handlers, owed, stray, halted>>

Task == [v |-> 0, in |-> "task"]
AtTask == cpu.in = "task"

\* Handlers before any is attached, those of the hardware lines.
IRQ_LIST == [l \in Lines |-> "do_default"]

\* idt_init and pic_remap: every line is unmasked.
IrqInit ==
    /\ irr = {} /\ isr = {} /\ imr = {}
    /\ seen = -1 /\ cpu = Task
    /\ irq_handlers = IRQ_LIST
    /\ owed = {} /\ stray = FALSE /\ halted = FALSE

(* ---------------------------- the controllers --------------------------- *)

OnMaster(l) == IF l < 8 THEN l ELSE CASCADE_IRQ
Rank(l) == IF l < 8 THEN 10 * l ELSE 10 * CASCADE_IRQ + l - 7
HighestOf(s) == {l \in s : \A k \in s : Rank(l) <= Rank(k)}
Masked(l) == {l, OnMaster(l)} \cap imr # {}
Deliverable(s) == {l \in s : ~Masked(l) /\ \A k \in isr : Rank(OnMaster(l)) < Rank(k)}

Raise(l) ==
    /\ l \notin irr
    /\ irr' = irr \cup {l}
    /\ UNCHANGED <<isr, imr, seen, cpu, irq_handlers, owed, stray, halted>>

\* The line goes low before it was acknowledged.
Drop(l) ==
    /\ l \in irr
    /\ irr' = irr \ {l}
    /\ UNCHANGED <<isr, imr, seen, cpu, irq_handlers, owed, stray, halted>>

See ==
    /\ AtTask /\ seen = -1
    /\ \E l \in HighestOf(Deliverable(irr)) : seen' = l
    /\ UNCHANGED <<irr, isr, imr, cpu, irq_handlers, owed, stray, halted>>

Vector(l) == cpu' = [v |-> IRQ0_OFFSET + l, in |-> "entry"]

\* The CPU acknowledges.
Accept ==
    LET now == Deliverable(irr) IN
    /\ AtTask /\ seen # -1 /\ seen' = -1
    /\ \/ \E l \in HighestOf(now) :
             /\ irr' = irr \ {l} /\ isr' = isr \cup {l, OnMaster(l)}
             /\ owed' = owed \cup {l} /\ Vector(l)
       \/ /\ now = {} /\ Vector(7)
          /\ UNCHANGED <<irr, isr, owed>>
       \/ /\ now = {} /\ seen >= 8 /\ Vector(15)
          /\ isr' = isr \cup {CASCADE_IRQ}
          /\ UNCHANGED <<irr, owed>>
    /\ UNCHANGED <<imr, irq_handlers, stray, halted>>

\* A non-specific EOI ends the request of the highest priority in service.
EoiTo(chip, s) == s \ HighestOf(s \cap chip)
Master == 0..7
Slave == 8..15

(* -------------------------------- the kernel ---------------------------- *)

pic_get_isr(l) == l \in isr

pic_eoi(v) == IF v >= IRQ0_OFFSET + 8 THEN EoiTo(Master, EoiTo(Slave, isr)) ELSE EoiTo(Master, isr)

\* Mutant: a spurious interrupt of the second controller is not ended.
do_irq_NoEoi ==
    /\ cpu.in = "entry"
    /\ \/ /\ \E l \in {7, 15} : cpu.v = IRQ0_OFFSET + l /\ ~pic_get_isr(l)
          /\ cpu' = Task /\ UNCHANGED isr
       \/ /\ \A l \in {7, 15} : cpu.v = IRQ0_OFFSET + l => pic_get_isr(l)
          /\ isr' = (IF cpu.v \in IRQ0_OFFSET..IRQ0_OFFSET + 15 THEN pic_eoi(cpu.v) ELSE isr)
          /\ cpu' = [cpu EXCEPT !.in = "handler"]
    /\ UNCHANGED <<irr, imr, seen, irq_handlers, owed, stray, halted>>

\* The request is ended before its handler is called.
do_irq ==
    /\ cpu.in = "entry"
    /\ \/ /\ cpu.v = IRQ0_OFFSET + 7 /\ ~pic_get_isr(7)
          /\ cpu' = Task /\ UNCHANGED isr
       \/ /\ cpu.v = IRQ0_OFFSET + 15 /\ ~pic_get_isr(15)
          /\ isr' = EoiTo(Master, isr) /\ cpu' = Task
       \/ /\ \A l \in {7, 15} : cpu.v = IRQ0_OFFSET + l => pic_get_isr(l)
          /\ isr' = (IF cpu.v \in IRQ0_OFFSET..IRQ0_OFFSET + 15 THEN pic_eoi(cpu.v) ELSE isr)
          /\ cpu' = [cpu EXCEPT !.in = "handler"]
    /\ UNCHANGED <<irr, imr, seen, irq_handlers, owed, stray, halted>>

\* irq_handlers[irq_num]->handler, to its return or to where it gives up the
\* CPU: irq_common's iret, or another task's, sets IF again.
Handle ==
    /\ cpu.in = "handler"
    /\ LET l == cpu.v - IRQ0_OFFSET IN
       /\ owed' = owed \ {l}
       /\ stray' = (stray \/ (l \in 0..15 /\ l \notin owed))
    /\ cpu' = Task
    /\ UNCHANGED <<irr, isr, imr, seen, irq_handlers, halted>>

\* int 128 in a task: no controller has to do with it.
Syscall ==
    /\ AtTask /\ seen = -1
    /\ cpu' = [v |-> SYSCALL, in |-> "entry"]
    /\ UNCHANGED <<irr, isr, imr, seen, irq_handlers, owed, stray, halted>>

\* Drivers attach while interrupts come in; a second one is refused.
attach_irq(l) ==
    /\ AtTask /\ l \in Drivers
    /\ irq_handlers' = (IF irq_handlers[l] = "do_default"
                        THEN [irq_handlers EXCEPT ![l] = "driver"] ELSE irq_handlers)
    /\ UNCHANGED <<irr, isr, imr, seen, cpu, owed, stray, halted>>

\* panic, in a task or in a handler: only the keyboard is left, for
\* Ctrl-Alt-Del.
halt ==
    /\ cpu.in # "entry" /\ seen = -1 /\ ~halted
    /\ halted' = TRUE
    /\ imr' = Master \ {1}
    /\ owed' = owed \ {cpu.v - IRQ0_OFFSET}
    /\ cpu' = Task
    /\ UNCHANGED <<irr, isr, seen, irq_handlers, stray>>

-----------------------------------------------------------------------------

IrqNext ==
    \/ \E l \in Lines : Raise(l) \/ Drop(l) \/ attach_irq(l)
    \/ See \/ Accept \/ Syscall \/ do_irq \/ Handle \/ halt

IrqSpec == IrqInit /\ [][IrqNext]_irqVars

-----------------------------------------------------------------------------

\* Whenever a task runs with interrupts on nothing is in service, so that no
\* line is held back for ever by one whose EOI was forgotten; every request
\* acknowledged has had its handler called, and no other has: spurious
\* interrupts of either controller are ended and not handled.
AllServed == (AtTask => isr = {} /\ owed = {}) /\ ~stray
=============================================================================
