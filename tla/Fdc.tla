-------------------------------- MODULE Fdc ---------------------------------
(***************************************************************************)
(* The floppy driver and the controller, byte by byte (drivers/floppy.c):  *)
(* commands are sent, an interrupt says they are done, and results are     *)
(* read.  Commands may take longer than the driver waits for them, so that *)
(* interrupts and results come when it is already at another command.      *)
(* The controller is reset by probe only, before all of this.              *)
(***************************************************************************)
EXTENDS Integers

CONSTANTS
    HANDLE_CYLINDER_RETRIES,
    SEEK_RETRIES,       \* of cmd_seek_internal and cmd_recalibrate
    MaxIrqs             \* bound: interrupts not yet waited for

ASSUME FdcAssumption == HANDLE_CYLINDER_RETRIES > 1 /\ SEEK_RETRIES > 0 /\ MaxIrqs > 1

VARIABLES
    fdc_phase, command, \* of the controller, and the command it is at
    left,               \* bytes it still wants, or has to give
    fdc_status,         \* of its result: "ok" or "error"
    mine,               \* history: has the driver sent this command since Begin?
    seeking,            \* "no", "busy", or "done" and not sensed
    floppy_interrupts,
    fdc_at, fdc_op,     \* the driver: label, command,
    fdc_n, retry,       \* bytes sent or read, and tries
    st0,                \* the last status sensed
    fdc_bytes           \* result read: how many bytes there were, the status, all mine?

fdc == <<fdc_phase, command, left, fdc_status, mine, seeking>>
driver == <<fdc_at, fdc_op, fdc_n, retry, st0, fdc_bytes>>
fdcVars == <<fdc, floppy_interrupts, driver>>

\* Bytes of a command, and of its result.
Length == [recalibrate |-> 2, seek |-> 3, sense |-> 1, read_id |-> 2, data |-> 9]
Results == 7
NoBytes == [have |-> 0, status |-> "ok", mine |-> TRUE]

FdcInit ==
    /\ fdc_phase = "idle" /\ command = "none" /\ left = 0 /\ fdc_status = "ok" /\ mine = FALSE
    /\ seeking = "no" /\ floppy_interrupts = 0
    /\ fdc_at = "idle" /\ fdc_op = "none" /\ fdc_n = 0 /\ retry = 0 /\ st0 = "ok" /\ fdc_bytes = NoBytes

(* ---------------------------- the controller ---------------------------- *)

\* A result of k bytes.
Give(k, s) == fdc_phase' = "result" /\ left' = k /\ fdc_status' = s

\* The first byte.  Sense is invalid unless a seek has ended, and a seek that
\* has not been sensed may make another command invalid.
TakeFirst(c) ==
    /\ fdc_phase = "idle" /\ command' = c /\ mine' = TRUE
    /\ \/ /\ c = "sense" /\ seeking = "done"
          /\ \E s \in {"ok", "error"} : Give(2, s)
          /\ seeking' = "no"
       \/ /\ \/ c = "sense" /\ seeking # "done"
             \/ c # "sense" /\ seeking = "done"
          /\ Give(1, "error") /\ UNCHANGED seeking
       \/ /\ c # "sense"
          /\ fdc_phase' = "command" /\ left' = Length[c] - 1 /\ UNCHANGED <<fdc_status, seeking>>

\* The others; the command starts with the last one.
TakeNext ==
    /\ fdc_phase = "command"
    /\ left' = left - 1
    /\ fdc_phase' = IF left > 1 THEN "command"
                ELSE IF command \in {"seek", "recalibrate"} THEN "idle" ELSE "execution"
    /\ seeking' = IF left = 1 /\ command \in {"seek", "recalibrate"} THEN "busy" ELSE seeking
    /\ UNCHANGED <<command, fdc_status, mine>>

CanTake == fdc_phase \in {"idle", "command"}
Take(c) == TakeFirst(c) \/ TakeNext

CanGive == fdc_phase = "result"
GiveNext ==
    /\ left' = left - 1
    /\ fdc_phase' = IF left = 1 THEN "idle" ELSE "result"
    /\ UNCHANGED <<command, fdc_status, mine, seeking>>

fdc_irq == floppy_interrupts < MaxIrqs /\ floppy_interrupts' = floppy_interrupts + 1

SeekEnds ==
    /\ seeking = "busy" /\ seeking' = "done"
    /\ fdc_irq
    /\ UNCHANGED <<fdc_phase, command, left, fdc_status, mine, driver>>

ExecutionEnds ==
    /\ fdc_phase = "execution"
    /\ \E s \in {"ok", "error"} : Give(Results, s)
    /\ fdc_irq
    /\ UNCHANGED <<command, mine, seeking, driver>>

(* ---------------------- bytes and interrupts waited for ----------------- *)

\* send_byte: taken, or not within fifo_timeout_ms.
Sent(c) == CanTake /\ Take(c)
NotSent == ~CanTake /\ UNCHANGED fdc

\* read_byte: there is none while a command is executed, until it is too late.
Received == CanGive /\ GiveNext
NotReceived == ~CanGive /\ UNCHANGED fdc

\* wait_irq: an interrupt, whichever; or none within irq_timeout_ms.
Interrupted == floppy_interrupts > 0 /\ floppy_interrupts' = floppy_interrupts - 1
NotInterrupted == floppy_interrupts = 0 /\ UNCHANGED floppy_interrupts

(* ------------------------------ the driver ------------------------------ *)

FdcGoto(label) == fdc_at' = label /\ fdc_n' = 0

\* A command is begun.  After read_id has succeeded data may be read; nothing
\* else comes between.
FdcBegin(c) ==
    /\ \/ fdc_at = "idle" /\ c \in {"recalibrate", "seek", "read_id"}
       \/ fdc_at = "id_ok" /\ c = "data"
    /\ fdc_op' = c /\ retry' = 0 /\ mine' = FALSE /\ FdcGoto("send")
    /\ UNCHANGED <<fdc_phase, command, left, fdc_status, seeking, floppy_interrupts, st0, fdc_bytes>>

\* A call of detect_media ends with the ID.
Detected ==
    /\ fdc_at = "id_ok" /\ FdcGoto("idle")
    /\ UNCHANGED <<fdc, floppy_interrupts, fdc_op, retry, st0, fdc_bytes>>

\* The bytes of a command.  do_handle_cylinder does not look at whether they
\* are sent; the others give up.
send_byte ==
    /\ fdc_at = "send"
    /\ \/ Sent(fdc_op) \/ (fdc_op = "data" /\ NotSent)
    /\ IF fdc_n + 1 = Length[fdc_op] THEN FdcGoto("wait") ELSE fdc_n' = fdc_n + 1 /\ UNCHANGED fdc_at
    /\ UNCHANGED <<floppy_interrupts, fdc_op, retry, st0, fdc_bytes>>

SendFails ==
    /\ fdc_at = "send" /\ fdc_op # "data" /\ NotSent /\ FdcGoto("idle")
    /\ UNCHANGED <<floppy_interrupts, fdc_op, retry, st0, fdc_bytes>>

\* Mutant: a read that is not done in time is sent again.
wait_irq_Retry ==
    /\ fdc_at = "wait"
    /\ \/ Interrupted /\ FdcGoto(IF fdc_op \in {"seek", "recalibrate"} THEN "sense" ELSE "results")
          /\ UNCHANGED <<retry, mine>>
       \/ NotInterrupted /\ fdc_op # "data" /\ FdcGoto("idle") /\ UNCHANGED <<retry, mine>>
       \/ NotInterrupted /\ fdc_op = "data" /\ retry + 1 < HANDLE_CYLINDER_RETRIES
          /\ FdcGoto("send") /\ retry' = retry + 1 /\ mine' = FALSE
    /\ fdc_bytes' = NoBytes
    /\ UNCHANGED <<fdc_phase, command, left, fdc_status, seeking, fdc_op, st0>>

wait_irq ==
    /\ fdc_at = "wait"
    /\ \/ Interrupted /\ FdcGoto(IF fdc_op \in {"seek", "recalibrate"} THEN "sense" ELSE "results")
       \/ NotInterrupted /\ FdcGoto("idle")
    /\ fdc_bytes' = NoBytes
    /\ UNCHANGED <<fdc, fdc_op, retry, st0>>

\* cmd_sense_interrupt: one byte sent, the status and the cylinder read.  What
\* is not received stays as it was.
cmd_sense_interrupt ==
    /\ \/ fdc_at = "sense" /\ Sent("sense") /\ FdcGoto("sense_st0") /\ UNCHANGED st0
       \/ fdc_at = "sense_st0" /\ Received /\ st0' = fdc_status /\ FdcGoto("sense_pcn")
       \/ fdc_at = "sense_pcn" /\ Received /\ FdcGoto("sensed") /\ UNCHANGED st0
       \/ fdc_at = "sense" /\ NotSent /\ FdcGoto("sensed") /\ UNCHANGED st0
       \/ fdc_at \in {"sense_st0", "sense_pcn"} /\ NotReceived /\ FdcGoto("sensed") /\ UNCHANGED st0
    /\ UNCHANGED <<floppy_interrupts, fdc_op, retry, fdc_bytes>>

\* The head is where it should be, or not, or the status is bad: once more.
Sensed ==
    /\ fdc_at = "sensed"
    /\ \/ st0 = "ok" /\ FdcGoto("idle") /\ UNCHANGED <<retry, mine>>
       \/ retry + 1 < SEEK_RETRIES /\ FdcGoto("send") /\ retry' = retry + 1 /\ mine' = FALSE
       \/ retry + 1 = SEEK_RETRIES /\ FdcGoto("idle") /\ UNCHANGED <<retry, mine>>
    /\ UNCHANGED <<fdc_phase, command, left, fdc_status, seeking, floppy_interrupts, fdc_op, st0, fdc_bytes>>

\* The seven bytes of a result; one that is missing is taken for 0xFF.
read_byte ==
    /\ fdc_at = "results"
    /\ \/ /\ Received
          /\ fdc_bytes' = [have |-> fdc_bytes.have + 1, mine |-> fdc_bytes.mine /\ mine,
                       status |-> IF fdc_n = 0 THEN fdc_status ELSE fdc_bytes.status]
       \/ NotReceived /\ UNCHANGED fdc_bytes
    /\ IF fdc_n + 1 = Results THEN FdcGoto("check") ELSE fdc_n' = fdc_n + 1 /\ UNCHANGED fdc_at
    /\ UNCHANGED <<floppy_interrupts, fdc_op, retry, st0>>

\* check_error: its asserts fail when one of the first three bytes is missing,
\* or a later one and the status is good.  Data with a bad status is read again.
check_error ==
    /\ fdc_at = "check"
    /\ \/ /\ fdc_bytes.have < 3 \/ (fdc_bytes.status = "ok" /\ fdc_bytes.have < Results)
          /\ FdcGoto("panic") /\ UNCHANGED <<retry, mine>>
       \/ /\ fdc_bytes.status = "error" /\ fdc_bytes.have >= 3
          /\ IF fdc_op = "data" /\ retry + 1 < HANDLE_CYLINDER_RETRIES
             THEN FdcGoto("send") /\ retry' = retry + 1 /\ mine' = FALSE
             ELSE FdcGoto("idle") /\ UNCHANGED <<retry, mine>>
       \/ /\ fdc_bytes.status = "ok" /\ fdc_bytes.have = Results
          /\ FdcGoto(IF fdc_op = "data" THEN "data_ok" ELSE "id_ok") /\ UNCHANGED <<retry, mine>>
    /\ UNCHANGED <<fdc_phase, command, left, fdc_status, seeking, floppy_interrupts, fdc_op, st0, fdc_bytes>>

\* dma_buf is taken for the cylinder that was asked for.
Done ==
    /\ fdc_at = "data_ok" /\ FdcGoto("idle")
    /\ UNCHANGED <<fdc, floppy_interrupts, fdc_op, retry, st0, fdc_bytes>>

FdcNext ==
    \/ SeekEnds \/ ExecutionEnds
    \/ \E c \in DOMAIN Length : FdcBegin(c)
    \/ send_byte \/ SendFails \/ wait_irq \/ read_byte \/ check_error
    \/ cmd_sense_interrupt \/ Sensed \/ Detected \/ Done

FdcSpec == FdcInit /\ [][FdcNext]_fdcVars

-----------------------------------------------------------------------------

\* A result that is accepted is the one of the command that was sent last:
\* whichever commands were given up before, and whichever of them the
\* interrupt was of, a late answer is never taken for this one's.
ResultsAreOwn ==
    fdc_at \in {"id_ok", "data_ok"} =>
        fdc_bytes.mine /\ command = fdc_op /\ fdc_phase = "idle"
=============================================================================
