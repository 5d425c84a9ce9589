------------------------------ MODULE TermTasks -----------------------------
(***************************************************************************)
(* terminal_putchar (terminal.c) called by several tasks, each preempted   *)
(* between any two accesses to the cursor.  Only terminal_scroll disables  *)
(* interrupts.  What is shown is left to Term.                             *)
(***************************************************************************)
EXTENDS Integers

CONSTANTS Tasks, TERM_WIDTH, TERM_HEIGH, TAB_WIDTH

VARIABLES
    g_row, g_col,
    pc,         \* of each task; "idle" between characters
    tabs        \* of each task: blanks of a tab still to be written

vars == <<g_row, g_col, pc, tabs>>

Init == g_row = 0 /\ g_col = 0 /\ pc = [t \in Tasks |-> "idle"] /\ tabs = [t \in Tasks |-> 0]

Move(t, from, to) == pc[t] = from /\ pc' = [pc EXCEPT ![t] = to]

terminal_putchar(t) ==
    /\ UNCHANGED <<g_row, g_col>>
    /\ \/ \E c \in {"newline", "return", "backspace", "put"} : Move(t, "idle", c) /\ UNCHANGED tabs
       \/ Move(t, "idle", "put") /\ tabs' = [tabs EXCEPT ![t] = TAB_WIDTH - 1]

\* A character has been written; the next blank of a tab follows.
Written(t) ==
    /\ IF tabs[t] > 0 THEN Move(t, "written", "put") /\ tabs' = [tabs EXCEPT ![t] = @ - 1]
       ELSE Move(t, "written", "idle") /\ UNCHANGED tabs
    /\ UNCHANGED <<g_row, g_col>>

\* terminal_putentryat and its assertions.
terminal_putentryat(t) ==
    /\ Move(t, "put", IF g_col < TERM_WIDTH /\ g_row < TERM_HEIGH THEN "advance" ELSE "assert")
    /\ UNCHANGED <<g_row, g_col, tabs>>

\* ++g_col, and a new line when it is TERM_WIDTH.
Advance(t) ==
    /\ g_col' = g_col + 1
    /\ Move(t, "advance", IF g_col' = TERM_WIDTH THEN "newline" ELSE "written")
    /\ UNCHANGED <<g_row, tabs>>

\* g_col = 0, then ++g_row.
Newline(t) ==
    /\ g_col' = 0
    /\ Move(t, "newline", "down") \/ Move(t, "return", "written")
    /\ UNCHANGED <<g_row, tabs>>

Down(t) ==
    /\ g_row' = g_row + 1
    /\ Move(t, "down", IF g_row' = TERM_HEIGH THEN "scroll" ELSE "written")
    /\ UNCHANGED <<g_col, tabs>>

terminal_scroll(t) ==
    /\ Move(t, "scroll", "written")
    /\ g_col' = 0 /\ g_row' = TERM_HEIGH - 1
    /\ UNCHANGED tabs

Backspace(t) ==
    /\ \/ Move(t, "backspace", IF g_row = 0 THEN "idle" ELSE "up") /\ g_col = 0 /\ UNCHANGED <<g_row, g_col>>
       \/ Move(t, "up", "end") /\ g_row' = g_row - 1 /\ UNCHANGED g_col
       \/ Move(t, "end", "written") /\ g_col' = TERM_WIDTH - 1 /\ UNCHANGED g_row
       \/ Move(t, "backspace", "blank") /\ g_col # 0 /\ g_col' = g_col - 1 /\ UNCHANGED g_row
       \/ /\ Move(t, "blank", IF g_col < TERM_WIDTH /\ g_row < TERM_HEIGH THEN "written" ELSE "assert")
          /\ UNCHANGED <<g_row, g_col>>
    /\ UNCHANGED tabs

Next ==
    \E t \in Tasks :
        \/ terminal_putchar(t) \/ Written(t) \/ terminal_putentryat(t) \/ Advance(t)
        \/ Newline(t) \/ Down(t) \/ terminal_scroll(t) \/ Backspace(t)

Spec == Init /\ [][Next]_vars

-----------------------------------------------------------------------------

\* terminal_putentryat's "assert(x < TERM_WIDTH)" and "assert(y < TERM_HEIGH)" hold,
\* whichever tasks print.
PutsInside == \A t \in Tasks : pc[t] # "assert"
=============================================================================
