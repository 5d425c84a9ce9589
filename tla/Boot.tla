-------------------------------- MODULE Boot --------------------------------
(***************************************************************************)
(* The boot sector (mbr.S): address line 20 is enabled, by the first of    *)
(* three ways that works; the kernel's image is read from the disk, sector *)
(* by sector, by cylinder, head and sector; the BIOS is asked for the size *)
(* of memory; and the kernel is called.  Every error is fatal.             *)
(***************************************************************************)
EXTENDS Integers, Sequences

CONSTANTS
    SECTORS_PER_TRACK,
    KIMG_SECTORS,       \* sectors of the image, as scripts/get_sectors.sh counts them
    heads,
    LOAD_SEG,           \* KERNEL_PHYS_ADDR >> 4
    PARA,               \* paragraphs to a sector: 0x20
    SEGS                \* values of a segment register: 2^16

\* The image is on the disk, whose tracks a byte can number, and the segment of its
\* last sector is one: es does not wrap.  Nothing in the build looks at either.
ASSUME BootAssumption ==
    /\ SECTORS_PER_TRACK \in 1..255 /\ heads = 2
    /\ KIMG_SECTORS \in 2..256 * SECTORS_PER_TRACK
    /\ LOAD_SEG \in Nat /\ PARA \in Nat \ {0} /\ SEGS \in Nat
    /\ LOAD_SEG + PARA * (KIMG_SECTORS - 2) < SEGS

VARIABLES
    loader, a20,
    tried,          \* ways of enabling A20 tried so far
    cur_lba, es,
    ram             \* segment |-> the sector that is there

bootVars == <<loader, a20, tried, cur_lba, es, ram>>

Ways == <<"bios", "8042", "fast">>

BootInit ==
    /\ loader = "a20" /\ a20 \in BOOLEAN /\ tried = 0
    /\ cur_lba = 1 /\ es = LOAD_SEG /\ ram = [s \in {} |-> 0]

\* check_a20, and the next way if the line is still off.
enable_a20 ==
    /\ loader = "a20"
    /\ IF a20 THEN loader' = "load" /\ UNCHANGED <<a20, tried>>
       ELSE IF tried = Len(Ways) THEN loader' = "fatal" /\ UNCHANGED <<a20, tried>>
       ELSE tried' = tried + 1 /\ a20' \in BOOLEAN /\ UNCHANGED loader
    /\ UNCHANGED <<cur_lba, es, ram>>

\* Mutant: the track is taken for the cylinder.
convert_lba_to_chs_NoShift(lba) ==
    [cl |-> (lba % SECTORS_PER_TRACK) + 1,
     ch |-> (lba \div SECTORS_PER_TRACK) % 256,
     dh |-> (lba \div SECTORS_PER_TRACK) % heads]

\* The cylinder is the low byte of the track, shifted.
convert_lba_to_chs(lba) ==
    [cl |-> (lba % SECTORS_PER_TRACK) + 1,
     ch |-> ((lba \div SECTORS_PER_TRACK) % 256) \div 2,
     dh |-> (lba \div SECTORS_PER_TRACK) % heads]

\* int 13h, the BIOS: the sector at an address of the disk, if there is one.
OnDisk(chs) == chs.cl \in 1..SECTORS_PER_TRACK
SectorAt(chs) == (chs.ch * heads + chs.dh) * SECTORS_PER_TRACK + chs.cl - 1

\* One round of sector_loop.
sector_loop ==
    LET chs == convert_lba_to_chs(cur_lba) IN
    /\ loader = "load"
    /\ \/ /\ OnDisk(chs)
          /\ ram' = [s \in DOMAIN ram \cup {es} |-> IF s = es THEN SectorAt(chs) ELSE ram[s]]
          /\ cur_lba' = cur_lba + 1
          /\ IF cur_lba' = KIMG_SECTORS THEN loader' = "memory" /\ UNCHANGED es
             ELSE es' = (es + PARA) % SEGS /\ UNCHANGED loader
       \/ loader' = "fatal" /\ UNCHANGED <<cur_lba, es, ram>>
    /\ UNCHANGED <<a20, tried>>

get_mem_kb ==
    /\ loader = "memory"
    /\ loader' \in {"protected_mode", "fatal"}
    /\ UNCHANGED <<a20, tried, cur_lba, es, ram>>

protected_mode ==
    /\ loader = "protected_mode"
    /\ loader' = "kernel"
    /\ UNCHANGED <<a20, tried, cur_lba, es, ram>>

BootNext == enable_a20 \/ sector_loop \/ get_mem_kb \/ protected_mode

BootSpec == BootInit /\ [][BootNext]_bootVars

-----------------------------------------------------------------------------

\* The image's sectors are those after the boot sector.
Image == 1..KIMG_SECTORS

\* The loop ends before it reads the last one.
NotRead == {KIMG_SECTORS}

\* When the kernel is called all memory can be addressed, and the sectors of the
\* image, but for the last, lie one after the other from KERNEL_PHYS_ADDR on, over
\* every change of head and cylinder, with nothing else written.
ImageInPlace ==
    loader = "kernel" =>
        /\ a20
        /\ DOMAIN ram = {LOAD_SEG + PARA * (k - 1) : k \in Image \ NotRead}
        /\ \A k \in Image \ NotRead : ram[LOAD_SEG + PARA * (k - 1)] = k
=============================================================================
