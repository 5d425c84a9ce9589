------------------------------ MODULE MCKernel -----------------------------
(***************************************************************************)
(* The smaller parts of the kernel for TLC.  A behaviour is one of the     *)
(* part it starts with.  The parts extended here stay where they start     *)
(* while another runs; the variables of the others are empty then.         *)
(***************************************************************************)
EXTENDS Integers, Sequences, MCExt2, Irq, Motor, Fdc, Dma, Boot, File, Term

CONSTANTS NULL, x, y, Fresh, h1, h2, Ring

VARIABLES
    part,
    node, mounted, parent, parent_node, unused, freed, cwd, covered, dangling, state,
    g_drivers, g_drivers_initialized, g_drivers_failed, on_demand, devices, pos, temp, phase,
    task, handles, leaked, panicked,
    stack_user, fault_at, fault_kind, level, ebp, depth, frame,
    modifiers, rb, keystrokes, machine, shell_at, line, outside, parts, arena, shell_cmd, words, down, typed,
    items, fmt, fmt_i, vl, out

ext2Vars == vars
vfsVars == <<node, mounted, parent, parent_node, unused, freed, cwd, covered, dangling, state>>
drvVars == <<g_drivers, g_drivers_initialized, g_drivers_failed, on_demand, devices, pos, temp, phase>>
consoleVars == <<task, handles, leaked, panicked>>
faultVars == <<stack_user, fault_at, fault_kind, level, ebp, depth, frame>>
shellVars == <<modifiers, rb, keystrokes, machine, shell_at, line, outside, parts, arena, shell_cmd, words, down,
               typed>>
kprintfVars == <<items, fmt, fmt_i, vl, out>>

(* -------------------------------- the trees ----------------------------- *)

Abs(names) == [abs |-> TRUE, parts |-> names]
Rel(names) == [abs |-> FALSE, parts |-> names]
Entry(name, i) == [name |-> <<name>>, inode |-> i]
Tree == [i \in {2, 11, 12} |->
    CASE i = 2  -> [dir |-> TRUE, entries |-> << Entry(".", 2), Entry("..", 2), Entry("a", 11), Entry("b", 12) >>]
      [] i = 11 -> [dir |-> TRUE, entries |-> << Entry(".", 11), Entry("..", 2) >>]
      [] i = 12 -> [dir |-> FALSE, entries |-> << >>]]
SameName(s, t) == s = t

V == INSTANCE Vfs WITH
    MemFss <- {"m1", "m2"}, Ext2Fss <- {"e1"}, image <- Tree, Prefix <- SameName, MaxNodes <- 3,
    Paths <- {Abs(<<"a">>), Abs(<<"a", "b">>), Abs(<<"dev">>), Rel(<<"..">>)}

(* ------------------------- drivers and the console ---------------------- *)

D == INSTANCE Drv WITH
    Drivers <- {"kbd", "chardev", "cmos", "floppy"}, OnDemand <- {"cmos"}, MayFail <- {"floppy"},
    Deps <- [d \in {"kbd", "chardev", "cmos", "floppy"} |-> IF d = "floppy" THEN <<"cmos">> ELSE <<>>],
    Devices <- [d \in {"kbd", "chardev", "cmos", "floppy"} |->
        CASE d = "kbd" -> <<"kbd">> [] d = "chardev" -> <<"null", "zero", "full">>
          [] d = "floppy" -> <<"fd0">> [] d = "cmos" -> <<>>]

Item(key, kind, fn) == [key |-> key, kind |-> kind, fn |-> fn]
List == Item("0", "FUNC", "cmd_list")
Exit == Item("ESC", "FUNC", "cmd_exit")

C == INSTANCE Console WITH
    Tasks <- {"t1", "t2", "t3"}, Keys <- {"0", "ESC", "d", "h", "j", "s"}, Results <- {0, 1, -1}, MaxLeaks <- 2,
    Cmds <- [m \in {"console", "debug", "slab"} |->
        CASE m = "console" -> << List, Item("d", "SUBMENU", "debug"), Item("j", "JOB", "vga_flasher") >>
          [] m = "debug"   -> << List, Exit, Item("s", "CMD", "slab"), Item("h", "CMD", "vfs_debug_shell") >>
          [] m = "slab"    -> << List, Exit, Item("s", "CMD", "dump_slabs"), Item("j", "JOB", "dump_loop") >>]

(* ----------------------- faults, the shell, kprintf --------------------- *)

Ft == INSTANCE Fault WITH s_bt_maxdepth <- 3, at <- fault_at, kind <- fault_kind, f <- ebp

Sh == INSTANCE Shell WITH
    RB_CAP <- 2, LINE_MAX <- 6, PTR <- 1, MaxTyped <- 2, Script <- <<" ", "a", " ", "a", "\n">>,
    at <- shell_at, cmd <- shell_cmd

\* The ends of the ranges, and where a number gets longer.
Kp == INSTANCE Kprintf WITH
    HEX <- 4, MaxItems <- 2, i <- fmt_i,
    Numbers <- {0, 9, 10, 99, 100, 255, 256, 32767, 32768, 65535}

ASSUME D!DrvAssumption /\ Ext2Assumption /\ C!ConsoleAssumption
ASSUME Ft!FaultAssumption /\ Sh!ShellAssumption /\ Kp!KprintfAssumption

(* ------------------------------- composition ---------------------------- *)

vfsOff == node = <<>> /\ mounted = <<>> /\ parent = <<>> /\ parent_node = <<>> /\ unused = <<>>
          /\ freed = <<>> /\ cwd = <<>> /\ covered = <<>> /\ dangling = <<>> /\ state = <<>>
drvOff == g_drivers = <<>> /\ g_drivers_initialized = <<>> /\ g_drivers_failed = <<>> /\ on_demand = <<>>
          /\ devices = <<>> /\ pos = <<>> /\ temp = <<>> /\ phase = <<>>
ext2Off == pc = <<>> /\ bdesc = <<>> /\ inode = <<>> /\ id = <<>> /\ offset = <<>> /\ call = <<>>
           /\ buf = <<>> /\ result = <<>> /\ reads = <<>>
consoleOff == task = <<>> /\ handles = <<>> /\ leaked = <<>> /\ panicked = <<>>
faultOff == stack_user = <<>> /\ fault_at = <<>> /\ fault_kind = <<>> /\ level = <<>> /\ ebp = <<>>
            /\ depth = <<>> /\ frame = <<>>
shellOff == modifiers = <<>> /\ rb = <<>> /\ keystrokes = <<>> /\ machine = <<>> /\ shell_at = <<>>
            /\ line = <<>> /\ outside = <<>> /\ parts = <<>> /\ arena = <<>> /\ shell_cmd = <<>> /\ words = <<>>
            /\ down = <<>> /\ typed = <<>>
kprintfOff == items = <<>> /\ fmt = <<>> /\ fmt_i = <<>> /\ vl = <<>> /\ out = <<>>

\* One of its initial states is enough for a part that does not run.
motorOff == MotorInit /\ user.d = 0
dmaOff == DmaInit /\ flipflop = 0 /\ addr = 0 /\ dma_page = 0 /\ count = 0
bootOff == BootInit /\ a20

filesOff == vfsOff /\ FileInit /\ ext2Off
devicesOff == IrqInit /\ motorOff /\ FdcInit /\ dmaOff /\ bootOff
screenOff == TermInit /\ consoleOff /\ shellOff /\ kprintfOff
otherOff == drvOff /\ faultOff
filesVars == <<vfsVars, fileVars, ext2Vars>>
devicesVars == <<irqVars, motorVars, fdcVars, dmaVars, bootVars>>
screenVars == <<termVars, consoleVars, shellVars, kprintfVars>>
otherVars == <<drvVars, faultVars>>

FilesInit ==
    \/ part = "vfs" /\ V!Init /\ FileInit /\ ext2Off
    \/ part = "file" /\ FileInit /\ vfsOff /\ ext2Off
    \/ part = "ext2" /\ Init /\ vfsOff /\ FileInit
DevicesInit ==
    \/ part = "irq" /\ IrqInit /\ motorOff /\ FdcInit /\ dmaOff /\ bootOff
    \/ part = "motor" /\ MotorInit /\ IrqInit /\ FdcInit /\ dmaOff /\ bootOff
    \/ part = "fdc" /\ FdcInit /\ IrqInit /\ motorOff /\ dmaOff /\ bootOff
    \/ part = "dma" /\ DmaInit /\ IrqInit /\ motorOff /\ FdcInit /\ bootOff
    \/ part = "boot" /\ BootInit /\ IrqInit /\ motorOff /\ FdcInit /\ dmaOff
ScreenInit ==
    \/ part = "term" /\ TermInit /\ consoleOff /\ shellOff /\ kprintfOff
    \/ part = "console" /\ C!Init /\ TermInit /\ shellOff /\ kprintfOff
    \/ part = "shell" /\ Sh!Init /\ TermInit /\ consoleOff /\ kprintfOff
    \/ part = "kprintf" /\ Kp!Init /\ TermInit /\ consoleOff /\ shellOff
OtherInit ==
    \/ part = "drv" /\ D!Init /\ faultOff
    \/ part = "fault" /\ Ft!Init /\ drvOff

MCInit ==
    \/ FilesInit /\ devicesOff /\ screenOff /\ otherOff
    \/ DevicesInit /\ filesOff /\ screenOff /\ otherOff
    \/ ScreenInit /\ filesOff /\ devicesOff /\ otherOff
    \/ OtherInit /\ filesOff /\ devicesOff /\ screenOff

FilesNext ==
    \/ part = "vfs" /\ V!Next /\ UNCHANGED <<fileVars, ext2Vars>>
    \/ part = "file" /\ FileNext /\ UNCHANGED <<vfsVars, ext2Vars>>
    \/ part = "ext2" /\ Next /\ UNCHANGED <<vfsVars, fileVars>>
DevicesNext ==
    \/ part = "irq" /\ IrqNext /\ UNCHANGED <<motorVars, fdcVars, dmaVars, bootVars>>
    \/ part = "motor" /\ MotorNext /\ UNCHANGED <<irqVars, fdcVars, dmaVars, bootVars>>
    \/ part = "fdc" /\ FdcNext /\ UNCHANGED <<irqVars, motorVars, dmaVars, bootVars>>
    \/ part = "dma" /\ DmaNext /\ UNCHANGED <<irqVars, motorVars, fdcVars, bootVars>>
    \/ part = "boot" /\ BootNext /\ UNCHANGED <<irqVars, motorVars, fdcVars, dmaVars>>
ScreenNext ==
    \/ part = "term" /\ TermNext /\ UNCHANGED <<consoleVars, shellVars, kprintfVars>>
    \/ part = "console" /\ C!Next /\ UNCHANGED <<termVars, shellVars, kprintfVars>>
    \/ part = "shell" /\ Sh!Next /\ UNCHANGED <<termVars, consoleVars, kprintfVars>>
    \/ part = "kprintf" /\ Kp!Next /\ UNCHANGED <<termVars, consoleVars, shellVars>>
OtherNext ==
    \/ part = "drv" /\ D!Next /\ UNCHANGED faultVars
    \/ part = "fault" /\ Ft!Next /\ UNCHANGED drvVars

MCNext ==
    /\ UNCHANGED part
    /\ \/ FilesNext /\ UNCHANGED <<devicesVars, screenVars, otherVars>>
       \/ DevicesNext /\ UNCHANGED <<filesVars, screenVars, otherVars>>
       \/ ScreenNext /\ UNCHANGED <<filesVars, devicesVars, otherVars>>
       \/ OtherNext /\ UNCHANGED <<filesVars, devicesVars, screenVars>>

\* driver_init is a loop that waits for nothing; tasks that can run do, sleeps
\* end, and the processor goes on in a handler.
MCFairSpec ==
    /\ MCInit /\ [][MCNext]_<<part, filesVars, devicesVars, screenVars, otherVars>>
    /\ WF_drvVars(part = "drv" /\ D!driver_init)
    /\ WF_motorVars(part = "motor" /\ Use)
    /\ \A d \in Drives, t \in Timers : WF_motorVars(part = "motor" /\ floppy_timeout(d, t))
    /\ WF_faultVars(part = "fault" /\ Ft!Handler)

-----------------------------------------------------------------------------


\* A read from the start of a file gives its bytes in order (Ext2).
FirstReadRight == part = "ext2" => ReadFromStart

\* One task at a time reads the keyboard (Console).
OneReader == part = "console" => C!OneReader

\* driver_init ends with every needed driver loaded after those it depends on
\* (Drv).
DriversSettle == (part = "drv") ~> (part = "drv" => D!Settled)

\* A user task's fault ends with that task killed (Fault).
FaultContained == (part = "fault" /\ fault_at = "frame") ~> (part = "fault" => Ft!Contained)

\* A command gets the words that were typed (Shell).
WordsAsTyped == part = "shell" => Sh!WordsAsTyped

\* kprintf prints what its format means (Kprintf).
PrintsItems == part = "kprintf" => Kp!PrintsItems
=============================================================================
