------------------------------ MODULE MCFloppy ------------------------------
(* Floppy for TLC: a drive that is tried with two formats, disks of each. *)
EXTENDS Floppy, TLC

CONSTANTS x, y, z

Formats == [hd |-> [cyls |-> 3, heads |-> 2, spt |-> 2, datarate |-> 0],
            dd |-> [cyls |-> 2, heads |-> 2, spt |-> 1, datarate |-> 2]]
Order == << "hd", "dd" >>
DiskFormat == (x :> "hd") @@ (y :> "hd") @@ (z :> "dd")
=============================================================================
