-------------------------------- MODULE File --------------------------------
(***************************************************************************)
(* Open files (fs/vfs.c's file operations) of memfs (fs/mem.c) and of      *)
(* devices (fs/dev.c).  Several handles may be open on a file; each has    *)
(* its offset, and the bytes are in one buffer that a write behind its end *)
(* replaces by a larger one.  Offsets and sizes are 32-bit.                *)
(***************************************************************************)
EXTENDS Integers, Sequences, FiniteSets

CONSTANTS
    Handles,
    MemFiles,       \* files of memfs
    CharDevs,       \* /dev/null, /dev/zero, /dev/full
    BlockDevs,
    Bytes,          \* bytes written
    Garbage,        \* what fresh memory holds
    Lengths,        \* lengths of reads and writes
    Seeks,          \* offsets given to seek
    WRAP,           \* 2^32
    MaxSize,        \* bound on a file's size
    NoFile

ASSUME FileAssumption ==
    /\ IsFiniteSet(Handles) /\ Garbage \notin Bytes
    /\ WRAP \in Nat /\ MaxSize \in 0..WRAP - 1 /\ Lengths \subseteq 1..MaxSize /\ Seeks \subseteq Int
    /\ NoFile \notin [node : MemFiles \cup CharDevs \cup BlockDevs, offset : 0..WRAP - 1]

VARIABLES
    data,       \* memfs_node->data, ->capacity bytes
    file,       \* handle |-> [node, offset], or NoFile
    refs,       \* device->refs
    written,    \* history: file |-> byte last written at a position, or Garbage
    got,        \* the last read of a file: [node, at, bytes], or NoFile
    filestate   \* "up", or "wild" after a write outside a buffer

fileVars == <<data, file, refs, written, got, filestate>>

Devices == CharDevs \cup BlockDevs

\* Files are made empty; mem.c and dev.c count nothing else.
FileInit ==
    /\ data = [f \in MemFiles |-> <<>>] /\ written = [f \in MemFiles |-> <<>>]
    /\ file = [h \in Handles |-> NoFile] /\ refs = [d \in Devices |-> 0]
    /\ got = NoFile /\ filestate = "up"

capacity(f) == Len(data[f])

\* file->ops of each kind of file: what is not there is -ENOTSUP.
Ops(n) ==
    IF n \in MemFiles THEN {"read", "write", "seek", "stat"}
    ELSE IF n \in CharDevs THEN {"read", "write", "stat"}
    ELSE {"read_at", "write_at", "stat"}

(* --------------------------- opening and closing ------------------------ *)

vfs_open(h, n) ==
    /\ file[h] = NoFile
    /\ file' = [file EXCEPT ![h] = [node |-> n, offset |-> 0]]
    /\ refs' = (IF n \in Devices THEN [refs EXCEPT ![n] = @ + 1] ELSE refs)
    /\ got' = NoFile
    /\ UNCHANGED <<data, written, filestate>>

vfs_close(h) ==
    /\ file[h] # NoFile
    /\ file' = [file EXCEPT ![h] = NoFile]
    /\ refs' = (IF file[h].node \in Devices THEN [refs EXCEPT ![file[h].node] = @ - 1] ELSE refs)
    /\ got' = NoFile
    /\ UNCHANGED <<data, written, filestate>>

(* ---------------------------------- memfs ------------------------------- *)

Smaller(a, b) == IF a <= b THEN a ELSE b

memfs_read(h, bytes) ==
    LET f  == file[h].node
        at == file[h].offset
        n  == IF at >= capacity(f) THEN 0 ELSE Smaller(bytes, capacity(f) - at)
    IN  /\ got' = [node |-> f, at |-> at, bytes |-> SubSeq(data[f], at + 1, at + n)]
        /\ file' = [file EXCEPT ![h].offset = at + n]
        /\ UNCHANGED <<data, refs, written, filestate>>

\* Mutant: the new buffer is not given the old one's bytes.
Grown_NoCopy(d, size) == [k \in 1..size |-> Garbage]

\* kmalloc and memcpy of what there was.
Grown(d, size) == [k \in 1..size |-> IF k <= Len(d) THEN d[k] ELSE Garbage]

\* bytes at position at of a sequence, which they must be within.
Put(d, at, bytes) == [k \in DOMAIN d |-> IF k \in at + 1..at + Len(bytes) THEN bytes[k - at] ELSE d[k]]

\* The bytes go into buf, and f->data is buf from now on.
Stored(h, buf, at, end, bytes) ==
    LET f == file[h].node IN
    /\ IF at + Len(bytes) <= Len(buf)
       THEN /\ data' = [data EXCEPT ![f] = Put(buf, at, bytes)]
            /\ written' = [written EXCEPT ![f] =
                  Put([k \in 1..Len(buf) |-> IF k <= Len(@) THEN @[k] ELSE Garbage], at, bytes)]
            /\ UNCHANGED filestate
       ELSE filestate' = "wild" /\ UNCHANGED <<data, written>>
    /\ file' = [file EXCEPT ![h].offset = end]
    /\ got' = NoFile
    /\ UNCHANGED refs

\* The end of the write is computed modulo 2^32; memcpy is not.  kmalloc may
\* fail.
memfs_write(h, bytes) ==
    LET f   == file[h].node
        at  == file[h].offset
        end == (at + Len(bytes)) % WRAP
        buf == IF end > capacity(f) THEN Grown(data[f], end) ELSE data[f]
    IN  \/ end > capacity(f) /\ got' = NoFile /\ UNCHANGED <<data, file, refs, written, filestate>>
        \/ /\ end <= MaxSize
           /\ Stored(h, buf, at, end, bytes)

\* SEEK_SET, SEEK_CUR, SEEK_END.
memfs_seek(h, by) ==
    /\ \E from \in {0, file[h].offset, capacity(file[h].node)} :
          file' = [file EXCEPT ![h].offset = (from + by) % WRAP]
    /\ got' = NoFile
    /\ UNCHANGED <<data, refs, written, filestate>>

-----------------------------------------------------------------------------

\* An operation of the file's table; those of devices, and stat, change
\* nothing here (the keyboard's is in RingBuf, the drive's in Floppy).
Operate(h, op) ==
    /\ file[h] # NoFile /\ op \in Ops(file[h].node)
    /\ IF file[h].node \in Devices \/ op = "stat"
       THEN got' = NoFile /\ UNCHANGED <<data, file, refs, written, filestate>>
       ELSE \/ op = "read" /\ \E n \in Lengths : memfs_read(h, n)
            \/ op = "write" /\ \E n \in Lengths : \E b \in Bytes : memfs_write(h, [k \in 1..n |-> b])
            \/ op = "seek" /\ \E by \in Seeks : memfs_seek(h, by)

FileNext ==
    /\ filestate = "up"
    /\ \E h \in Handles :
          \/ \E n \in MemFiles \cup Devices : vfs_open(h, n)
          \/ vfs_close(h)
          \/ \E op \in {"read", "read_at", "write", "write_at", "seek", "stat"} : Operate(h, op)

FileSpec == FileInit /\ [][FileNext]_fileVars

-----------------------------------------------------------------------------

\* A read through any handle gives the bytes last written at its positions,
\* through whichever handle and however often the buffer has been replaced
\* since; and a device counts the handles open on it.
ReadsBack ==
    /\ got # NoFile => \A k \in DOMAIN got.bytes : LET b == written[got.node][got.at + k] IN
          b # Garbage => got.bytes[k] = b
    /\ \A d \in Devices : refs[d] = Cardinality({h \in Handles : file[h] # NoFile /\ file[h].node = d})
=============================================================================
