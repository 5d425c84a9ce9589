-------------------------------- MODULE Dma ---------------------------------
(***************************************************************************)
(* dma_setup (dma.c) and channel 2 of the 8237: registers of 16 bits are   *)
(* written byte by byte through a flip-flop all of them share, while the   *)
(* floppy controller may still be asking for bytes of a transfer the       *)
(* driver has given up.  A byte has Base values, so that 16 bits have      *)
(* K64 of them, 24 bits Base times as many and 32 bits K64 times.          *)
(***************************************************************************)
EXTENDS Integers

CONSTANTS
    Base,
    Bufs, DmaSizes      \* arguments dma_setup is called with

K64 == Base * Base

\* Arguments are of 32 bits.
ASSUME DmaAssumption ==
    Base \in Nat /\ Base > 1 /\ Bufs \cup DmaSizes \subseteq 0..K64 * K64 - 1

VARIABLES
    flipflop,           \* 0: the next byte is the low one
    addr, dma_page,     \* the channel's current registers
    count,
    masked,
    dma_at,             \* the next port dma_setup writes; "idle", "panic"
    arg,                \* its arguments
    ready, touched      \* history: arguments of the last call that is done, and the
                        \* address of the last byte transferred, or -1

dmaVars == <<flipflop, addr, dma_page, count, masked, dma_at, arg, ready, touched>>

Bits16 == 0..K64 - 1
Low(v) == v % Base
High(v) == (v \div Base) % Base

DmaInit ==
    /\ flipflop \in {0, 1} /\ addr \in Bits16 /\ dma_page \in 0..Base - 1 /\ count \in Bits16
    /\ masked = TRUE /\ dma_at = "idle" /\ arg = [buf |-> 0, bytes |-> 0] /\ ready = arg /\ touched = -1

(* ------------------------------- dma_setup ------------------------------ *)

\* Beyond 24 bits, more than 64k (or no) bytes, or across a boundary of 64k.
bad_dma_buf(buf, bytes) ==
    LET c == (bytes - 1) % (K64 * K64) IN
    \/ buf \div (Base * K64) # 0
    \/ c \div K64 # 0
    \/ (((buf % K64) + c) % (K64 * K64)) \div K64 # 0

dma_setup(buf, bytes) ==
    /\ dma_at = "idle"
    /\ dma_at' = IF bad_dma_buf(buf, bytes) THEN "panic" ELSE "mask"
    /\ arg' = [buf |-> buf, bytes |-> bytes]
    /\ UNCHANGED <<flipflop, addr, dma_page, count, masked, ready, touched>>

DmaGoto(from, to) ==
    /\ dma_at = from /\ dma_at' = to
    /\ ready' = IF from = "unmask" THEN arg ELSE ready
    /\ UNCHANGED <<arg, touched>>

\* A byte of a 16 bit register, as the 8237 takes it.
Half(reg, byte) == IF flipflop = 0 THEN High(reg) * Base + byte ELSE byte * Base + Low(reg)

reset_flipflop ==
    /\ DmaGoto("reset_addr", "addr_low") \/ DmaGoto("reset_count", "count_low")
    /\ flipflop' = 0
    /\ UNCHANGED <<addr, dma_page, count, masked>>

\* dma_reg_write16 of the address, and of the count.
dma_reg_write16 ==
    /\ \/ DmaGoto("addr_low", "addr_high") /\ addr' = Half(addr, Low(arg.buf)) /\ UNCHANGED count
       \/ DmaGoto("addr_high", "page") /\ addr' = Half(addr, High(arg.buf)) /\ UNCHANGED count
       \/ DmaGoto("count_low", "count_high") /\ count' = Half(count, Low(arg.bytes - 1)) /\ UNCHANGED addr
       \/ DmaGoto("count_high", "mode") /\ count' = Half(count, High(arg.bytes - 1)) /\ UNCHANGED addr
    /\ flipflop' = 1 - flipflop
    /\ UNCHANGED <<dma_page, masked>>

\* Mutant: the channel is not masked first.
dma_reg_write_NoMask ==
    /\ \/ DmaGoto("mask", "reset_addr") /\ UNCHANGED <<masked, dma_page>>
       \/ DmaGoto("page", "reset_count") /\ dma_page' = (arg.buf \div K64) % Base /\ UNCHANGED masked
       \/ DmaGoto("mode", "unmask") /\ UNCHANGED <<masked, dma_page>>
       \/ DmaGoto("unmask", "idle") /\ masked' = FALSE /\ UNCHANGED dma_page
    /\ UNCHANGED <<flipflop, addr, count>>

\* The registers of one byte: the mask, the page, the mode, the mask again.
dma_reg_write ==
    /\ \/ DmaGoto("mask", "reset_addr") /\ masked' = TRUE /\ UNCHANGED dma_page
       \/ DmaGoto("page", "reset_count") /\ dma_page' = (arg.buf \div K64) % Base /\ UNCHANGED masked
       \/ DmaGoto("mode", "unmask") /\ UNCHANGED <<masked, dma_page>>
       \/ DmaGoto("unmask", "idle") /\ masked' = FALSE /\ UNCHANGED dma_page
    /\ UNCHANGED <<flipflop, addr, count>>

(* --------------------------------- the 8237 ----------------------------- *)

\* A byte is transferred.  The address wraps within its page; the channel is
\* masked after the last byte.
Transfer ==
    /\ ~masked
    /\ touched' = dma_page * K64 + addr
    /\ addr' = (addr + 1) % K64
    /\ count' = (count - 1) % K64
    /\ masked' = (count = 0)
    /\ UNCHANGED <<flipflop, dma_page, dma_at, arg, ready>>

DmaNext ==
    \/ \E b \in Bufs, s \in DmaSizes : dma_setup(b, s)
    \/ dma_reg_write \/ reset_flipflop \/ dma_reg_write16
    \/ Transfer

DmaSpec == DmaInit /\ [][DmaNext]_dmaVars

-----------------------------------------------------------------------------

\* Bytes go to the buffer of the last dma_setup and nowhere else, for whatever
\* was in the registers before and however far an earlier transfer had come:
\* a channel that is half programmed moves nothing, an address never wraps, and
\* as many bytes as asked for are to come when it is ready.
InBuffer ==
    /\ touched' # touched => touched' \in ready.buf..ready.buf + ready.bytes - 1
    /\ dma_at = "unmask" /\ dma_at' = "idle" => dma_page * K64 + addr = arg.buf /\ count = arg.bytes - 1

TransfersInBuffer == [][InBuffer]_dmaVars
=============================================================================
