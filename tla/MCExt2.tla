------------------------------- MODULE MCExt2 -------------------------------
(***************************************************************************)
(* Ext2 for TLC: a disk of two groups of four inodes, two to a block; one  *)
(* direct block, two addresses to a block, two bytes to a block.  Inode 3  *)
(* has three bytes, 6 reaches into the tree of depth three, 7 is empty and *)
(* 8 has a hole.                                                           *)
(***************************************************************************)
EXTENDS Ext2

Inode(bytes, direct, one, two, three) ==
    [bytes |-> bytes, dir_blocks |-> <<direct>>, singly_linked |-> one, doubly_linked |-> two,
     triply_linked |-> three]
Unused == Inode(0, 0, 0, 0, 0)

Addrs(a, b) == [addrs |-> <<a, b>>]
Data(i, n) == [of |-> i, nth |-> n]

Disk == [a \in {0, 2, 3, 4, 20, 21} \cup (50..59) \cup (100..109) \cup {200, 201, 300, 302} |->
    CASE a = 0  -> Addrs(0, 0)
      [] a = 2  -> [tables |-> <<3, 20>>]
      [] a = 3  -> [inodes |-> <<Unused, Unused>>]
      [] a = 4  -> [inodes |-> <<Inode(3, 200, 58, 0, 0), Unused>>]
      [] a = 20 -> [inodes |-> <<Unused, Inode(19, 100, 50, 51, 54)>>]
      [] a = 21 -> [inodes |-> <<Inode(0, 0, 0, 0, 0), Inode(6, 300, 59, 0, 0)>>]
      [] a = 50 -> Addrs(101, 102)
      [] a = 51 -> Addrs(52, 53)
      [] a = 52 -> Addrs(103, 104)
      [] a = 53 -> Addrs(105, 106)
      [] a = 54 -> Addrs(55, 0)
      [] a = 55 -> Addrs(56, 57)
      [] a = 56 -> Addrs(107, 108)
      [] a = 57 -> Addrs(109, 0)
      [] a = 58 -> Addrs(201, 0)
      [] a = 59 -> Addrs(0, 302)
      [] a \in 100..109 -> Data(6, a - 100)
      [] a \in {200, 201} -> Data(3, a - 200)
      [] a \in {300, 302} -> Data(8, a - 300)]
=============================================================================
