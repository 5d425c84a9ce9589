------------------------------- MODULE Fault --------------------------------
(***************************************************************************)
(* Page faults and general protection faults (mm/vma.c): a backtrace of    *)
(* the task's frames is printed, then the task is killed or the kernel     *)
(* stops.  The frames of a user task are whatever it has left in ebp and   *)
(* on its stack, and following them may fault again, in the handler.       *)
(* A task of the kernel has frames of its functions, up to the first one.  *)
(* There is a current task: faults before the scheduler runs are left out. *)
(***************************************************************************)
EXTENDS Integers

CONSTANT s_bt_maxdepth

FaultAssumption == s_bt_maxdepth \in Nat /\ s_bt_maxdepth > 1

VARIABLES
    stack_user,         \* is the task a user task?
    at,                 \* "running", in the backtrace, "kill"; "killed", "panic"
    kind,               \* of the fault: "page" or "gp"
    level,              \* handlers entered and not left
    f, depth,           \* of dump_backtrace: an address, and frames printed
    frame               \* what is at f

vars == <<stack_user, at, kind, level, f, depth, frame>>

\* Addresses: of the part of the task's stack that is in use; the one just
\* above it, which valid_frame lets pass; of the stack the handlers run on, if
\* it is another one; anything else.
Addresses == {"stack", "edge", "kernel_stack", "other", "NULL"}
Readable(a) == IF a \in {"stack", "kernel_stack", "code"} THEN {TRUE} ELSE {TRUE, FALSE}

\* What a frame of the task may hold.
Frames == [prev : Addresses, return_address : {"code", "other", "NULL"}]
Contents == IF stack_user THEN Frames
            ELSE {fr \in Frames : fr.prev \in {"stack", "NULL"} /\ fr.return_address # "other"}

Init ==
    /\ stack_user \in BOOLEAN
    /\ at = "running" /\ kind = "page" /\ level = 0 /\ f = "NULL" /\ depth = 0
    /\ frame = [prev |-> "NULL", return_address |-> "NULL"]

(* ------------------------------ the handlers ---------------------------- *)

\* The processor enters a handler, do_page_fault or do_gp_fault; level is not
\* followed beyond 3.
Enter(k, ebp) ==
    /\ kind' = k /\ level' = IF level < 3 THEN level + 1 ELSE level
    /\ f' = ebp /\ depth' = 0 /\ at' = "frame"
    /\ UNCHANGED <<stack_user, frame>>

\* The task faults.  A user task's ebp holds anything.
Faults(k) ==
    /\ at = "running"
    /\ \E ebp \in IF stack_user THEN Addresses ELSE {"stack"} : Enter(k, ebp)

\* The handler itself faults: its own frame is next.
FaultsAgain == Enter("page", "kernel_stack")

\* Mutant: frames are followed as far as they go.
valid_frame_NoDepth ==
    /\ at = "frame"
    /\ \/ /\ f = "NULL" /\ at' = "kill"
          /\ UNCHANGED <<stack_user, kind, level, f, depth, frame>>
       \/ f # "NULL" /\ FALSE \in Readable(f) /\ FaultsAgain
       \/ /\ f # "NULL" /\ TRUE \in Readable(f)
          /\ frame' \in Contents
          /\ at' = IF frame'.return_address # "NULL" /\ f \in {"stack", "edge"} THEN "call" ELSE "kill"
          /\ UNCHANGED <<stack_user, kind, level, f, depth>>

\* valid_frame: looks at the frame first, then at its address; and the bound
\* on the frames printed.
valid_frame ==
    /\ at = "frame"
    /\ \/ /\ f = "NULL" /\ at' = "kill"
          /\ UNCHANGED <<stack_user, kind, level, f, depth, frame>>
       \/ f # "NULL" /\ FALSE \in Readable(f) /\ FaultsAgain
       \/ /\ f # "NULL" /\ TRUE \in Readable(f)
          /\ frame' \in Contents
          /\ at' = IF frame'.return_address # "NULL" /\ f \in {"stack", "edge"} /\ depth < s_bt_maxdepth
                   THEN "call" ELSE "kill"
          /\ UNCHANGED <<stack_user, kind, level, f, depth>>

\* get_call_address looks at the instruction before the return address; then
\* the frame is printed, and the one before it is next.
get_call_address ==
    /\ at = "call"
    /\ \/ FALSE \in Readable(frame.return_address) /\ FaultsAgain
       \/ /\ at' = "frame" /\ f' = frame.prev
          /\ depth' = IF depth < s_bt_maxdepth THEN depth + 1 ELSE depth
          /\ UNCHANGED <<stack_user, kind, level, frame>>

\* do_page_fault kills the task; so does do_gp_fault if it is a user task, else
\* the kernel stops.
KillOrPanic ==
    /\ at = "kill"
    /\ at' = IF kind = "page" \/ stack_user THEN "killed" ELSE "panic"
    /\ UNCHANGED <<stack_user, kind, level, f, depth, frame>>

Handler == valid_frame \/ get_call_address \/ KillOrPanic

Next == (\E k \in {"page", "gp"} : Faults(k)) \/ Handler

Spec == Init /\ [][Next]_vars

\* The processor goes on.
FairSpec == Spec /\ WF_vars(Handler)

-----------------------------------------------------------------------------

\* A user task that faults is killed and the kernel goes on, whatever its ebp
\* and its stack hold: following them ends, and takes the handler into at most
\* one fault of its own.
Contained == stack_user => at = "killed" /\ level <= 2
FaultContained == (at = "frame") ~> Contained
=============================================================================
