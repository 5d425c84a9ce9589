-------------------------------- MODULE Ext2 --------------------------------
(***************************************************************************)
(* Reading of files from an ext2 file system (fs/ext2/ext2.c): mount reads *)
(* the group descriptors and the root's inode, look-up reads the inode of  *)
(* a file, read copies block after block of it.  Look-up by name is in     *)
(* Vfs.  Of the disk it matters what a block holds: descriptors, inodes,   *)
(* addresses of blocks, or a block of a file; a byte of a file is          *)
(* <<inode, index of the block, index in the block>>.  Every read of the   *)
(* device may fail.                                                        *)
(***************************************************************************)
EXTENDS Integers, Sequences

CONSTANTS
    disk,               \* block address |-> what it holds
    inodes_per_bgroup, inodes_per_block,
    NDIR,               \* blocks an inode names itself: 12
    apb,                \* addresses per block
    block_size,
    Files,              \* inodes of the files read
    Sizes,              \* amounts read at a time
    Ats,                \* offsets given to ext2_read_at
    Chunks,             \* bound on reads of a file
    NONE

Ext2Assumption ==
    /\ inodes_per_bgroup > 0 /\ inodes_per_block > 0 /\ NDIR > 0 /\ apb > 0 /\ block_size > 0
    /\ inodes_per_bgroup % inodes_per_block = 0

VARIABLES
    pc,             \* "device", "new", "mounted", "open", "reading", "refused"
    bdesc,          \* fs->bdesc
    inode,          \* the open file's inode, as read
    id,             \* its number
    offset,         \* file->offset
    call,           \* the read under way: [to_read, bytes_read, at, moves]
    buf,            \* the reader's buffer: what was copied to each byte
    result,         \* what the last read returned
    reads           \* reads so far

vars == <<pc, bdesc, inode, id, offset, call, buf, result, reads>>

Init ==
    /\ pc = "device" /\ bdesc = <<>> /\ inode = NONE /\ id = 0 /\ offset = 0
    /\ call = NONE /\ buf = <<>> /\ result = NONE /\ reads = 0

(* ------------------------------- the disk ------------------------------- *)

\* Where get_inode looks: the block of the inode table, and the place in it.
Group(i) == (i - 1) \div inodes_per_bgroup
TableIndex(i) == (i - 1) % inodes_per_bgroup
InodeBlock(i) == bdesc[Group(i) + 1] + (TableIndex(i) \div inodes_per_block)
get_inode(i) == disk[InodeBlock(i)].inodes[(TableIndex(i) % inodes_per_block) + 1]

\* Mutant: the levels of a tree of addresses are taken in the wrong order.
IndirectIndex_Swapped(idx, depth) ==
    CASE depth = 0 -> (idx \div apb) % apb
      [] depth = 1 -> idx % apb
      [] depth = 2 -> (idx \div (apb * apb)) % (apb * apb)

\* The entry read_indirect takes at a depth.
IndirectIndex(idx, depth) ==
    CASE depth = 0 -> idx % apb
      [] depth = 1 -> (idx \div apb) % apb
      [] depth = 2 -> (idx \div (apb * apb)) % (apb * apb)

\* The address that read_indirect ends at, below the block at "at"; 0 is a
\* hole, which is an error at depth 0 and leads to block 0 above it.
RECURSIVE read_indirect(_, _, _)
read_indirect(at, idx, depth) ==
    LET next == disk[at].addrs[IndirectIndex(idx, depth) + 1]
    IN  IF depth = 0 THEN next ELSE read_indirect(next, idx, depth - 1)

\* read_i_block: the address of block idx of the file, or 0.  A hole among the
\* first blocks makes idx - 12 wrap, which is no index of a block.
read_i_block(ino, idx) ==
    LET i1 == idx - NDIR
        i2 == i1 - apb
        i3 == i2 - apb * apb
    IN  IF idx < NDIR THEN ino.dir_blocks[idx + 1]
        ELSE IF i1 < apb /\ ino.singly_linked # 0 THEN read_indirect(ino.singly_linked, i1, 0)
        ELSE IF i1 >= apb /\ i2 < apb * apb /\ ino.doubly_linked # 0
        THEN read_indirect(ino.doubly_linked, i2, 1)
        ELSE IF i2 >= apb * apb /\ i3 < apb * apb * apb /\ ino.triply_linked # 0
        THEN read_indirect(ino.triply_linked, i3, 2)
        ELSE 0

(* ------------------------------ operations ------------------------------ *)

\* The device may hold no ext2 file system, or one of another size.
ext2_new ==
    /\ pc = "device"
    /\ pc' \in {"new", "refused"}
    /\ UNCHANGED <<bdesc, inode, id, offset, call, buf, result, reads>>

\* Without the descriptors or the root's inode there is no file system.
ext2_mount ==
    /\ pc = "new"
    /\ \/ pc' = "mounted" /\ bdesc' = disk[2].tables
       \/ pc' = "refused" /\ UNCHANGED bdesc
    /\ UNCHANGED <<inode, id, offset, call, buf, result, reads>>

\* ext2_lookup's get_node, and ext2_open; a node whose inode cannot be read
\* is a failed look-up.
ext2_open(i) ==
    /\ pc = "mounted"
    /\ \/ pc' = "open" /\ inode' = get_inode(i) /\ id' = i
       \/ UNCHANGED <<pc, inode, id>>
    /\ offset' = 0 /\ buf' = <<>> /\ result' = NONE /\ reads' = 0
    /\ UNCHANGED <<bdesc, call>>

ext2_close ==
    /\ pc = "open"
    /\ pc' = "mounted" /\ inode' = NONE /\ id' = 0
    /\ offset' = 0 /\ buf' = <<>> /\ result' = NONE /\ reads' = 0
    /\ UNCHANGED <<bdesc, call>>

MinOf(a, b) == IF a <= b THEN a ELSE b

Call(bytes, at, moves) ==
    /\ pc = "open" /\ reads < Chunks
    /\ call' = [to_read |-> IF at <= inode.bytes THEN MinOf(bytes, inode.bytes - at) ELSE bytes,
                bytes_read |-> 0, at |-> at, moves |-> moves]
    /\ pc' = "reading" /\ buf' = <<>> /\ result' = NONE /\ reads' = reads + 1
    /\ UNCHANGED <<bdesc, inode, id, offset>>

\* file_bytes - at wraps behind the end, so that bytes is less.
ext2_read(bytes) == Call(bytes, offset, TRUE)
ext2_read_at(bytes, at) == Call(bytes, at, FALSE)

Blk(c) == c.bytes_read \div block_size

\* What memcpy takes out of the block at address a: bytes behind the end of
\* the buffer it was read into are no file's.
Copied(a, n, from) ==
    [k \in 1..n |-> IF from + k <= block_size THEN <<disk[a].of, disk[a].nth, from + k - 1>> ELSE NONE]

BlkBytes(c) == MinOf(c.to_read - c.bytes_read, block_size)

Return(r) == pc' = "open" /\ call' = NONE /\ result' = r /\ UNCHANGED <<bdesc, inode, id, reads>>

\* One round of the loop of ext2_read or ext2_read_at; it is made at least once,
\* even with nothing to read.  An error returns 1, without the offset moving.
ReadLoop ==
    LET a    == read_i_block(inode, Blk(call))
        n    == BlkBytes(call)
        got  == call.bytes_read + n
    IN  /\ pc = "reading"
        /\ \/ /\ a # 0
              /\ buf' = buf \o Copied(a, n, call.at % block_size)
              /\ IF got < call.to_read
                 THEN /\ call' = [call EXCEPT !.bytes_read = got]
                      /\ UNCHANGED <<pc, bdesc, inode, id, offset, result, reads>>
                 ELSE /\ offset' = (IF call.moves THEN offset + got ELSE offset)
                      /\ Return([bytes |-> got, at |-> call.at, ok |-> TRUE])
           \/ Return([bytes |-> 1, at |-> call.at, ok |-> FALSE]) /\ UNCHANGED <<offset, buf>>

-----------------------------------------------------------------------------

Next ==
    \/ ext2_new \/ ext2_mount
    \/ \E i \in Files : ext2_open(i)
    \/ ext2_close
    \/ \E n \in Sizes : ext2_read(n) \/ \E at \in Ats : ext2_read_at(n, at)
    \/ ReadLoop

Spec == Init /\ [][Next]_vars

-----------------------------------------------------------------------------

\* Byte k of a file, counting from 0.
FileByte(i, k) == <<i, k \div block_size, k % block_size>>

\* The last read has succeeded, and the buffer holds the bytes of the file
\* from where it began.
Succeeded == pc = "open" /\ result # NONE /\ result.ok
Delivered ==
    /\ Len(buf) = result.bytes
    /\ \A k \in DOMAIN buf : buf[k] = FileByte(id, result.at + k - 1)

\* What a program is loaded with: a read from the start of a file that meets
\* no error gives the bytes of that very file, each in its place, through
\* however many levels of addresses.
ReadFromStart == Succeeded /\ result.at = 0 => Delivered

\* A read from anywhere gives the bytes that are there: read_i_block is to be
\* given the "'absolute' block of an inode".
ReadFromAnywhere == Succeeded => Delivered
=============================================================================
