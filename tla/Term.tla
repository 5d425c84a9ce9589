-------------------------------- MODULE Term --------------------------------
(***************************************************************************)
(* The VGA text terminal (terminal.c), written to by one task at a time.   *)
(* page and top are the reference: the lines written since the screen was  *)
(* last cleared, kept for ever, and the one at the top of the screen.      *)
(***************************************************************************)
EXTENDS Integers

CONSTANTS
    TERM_WIDTH, TERM_HEIGH, TAB_WIDTH,
    Chars,          \* printable characters other than the blank
    MaxRows         \* bound: lines written since the last clear

ASSUME TermAssumption ==
    /\ TERM_WIDTH \in Nat /\ TERM_WIDTH > 1 /\ TERM_HEIGH \in Nat /\ TERM_HEIGH > 1
    /\ TAB_WIDTH \in Nat /\ MaxRows \in Nat /\ MaxRows >= TERM_HEIGH

VARIABLES g_row, g_col, g_cur_color, g_buf, page, top

termVars == <<g_row, g_col, g_cur_color, g_buf, page, top>>

Rows == 0..TERM_HEIGH - 1
Cols == 0..TERM_WIDTH - 1
Blank == " "
vga_entry(c, color) == [char |-> c, color |-> color]

TermInit ==
    /\ g_row = 0 /\ g_col = 0 /\ g_cur_color = "dark"
    /\ g_buf = [y \in Rows |-> [x \in Cols |-> vga_entry(Blank, "dark")]]
    /\ page = [y \in 0..MaxRows |-> [x \in Cols |-> Blank]] /\ top = 0

(* A terminal: [row, col, buf] and the reference's [page, top]. *)
Screen == [row |-> g_row, col |-> g_col, buf |-> g_buf, page |-> page, top |-> top]

terminal_putentryat(t, c, x, y) ==
    [t EXCEPT !.buf[y][x] = vga_entry(c, g_cur_color), !.page[t.top + y][x] = c]

\* Mutant: the last line is kept.
terminal_scroll_Last(t) ==
    [t EXCEPT !.buf = [y \in Rows |-> IF y < TERM_HEIGH - 1 THEN t.buf[y + 1] ELSE t.buf[y]],
              !.col = 0, !.row = TERM_HEIGH - 1, !.top = @ + 1]

\* Lines move up one by one, each after the one above has been copied away.
terminal_scroll(t) ==
    [t EXCEPT !.buf = [y \in Rows |-> IF y < TERM_HEIGH - 1 THEN t.buf[y + 1]
                                      ELSE [x \in Cols |-> vga_entry(Blank, g_cur_color)]],
              !.col = 0, !.row = TERM_HEIGH - 1, !.top = @ + 1]

LineFeed(t) ==
    LET down == [t EXCEPT !.col = 0, !.row = @ + 1] IN
    IF down.row = TERM_HEIGH THEN terminal_scroll(down) ELSE down

Backspace(t) ==
    IF t.col # 0 THEN terminal_putentryat([t EXCEPT !.col = @ - 1], Blank, t.col - 1, t.row)
    ELSE IF t.row = 0 THEN t
    ELSE [t EXCEPT !.row = @ - 1, !.col = TERM_WIDTH - 1]

Printable(t, c) ==
    LET put == terminal_putentryat(t, c, t.col, t.row) IN
    IF t.col + 1 = TERM_WIDTH THEN LineFeed(put) ELSE [put EXCEPT !.col = @ + 1]

Tab[n \in 0..TAB_WIDTH] == IF n = 0 THEN Screen ELSE Printable(Tab[n - 1], Blank)

terminal_putchar(c) ==
    LET t == CASE c = "\n" -> LineFeed(Screen)
               [] c = "\r" -> [Screen EXCEPT !.col = 0]
               [] c = "\t" -> Tab[TAB_WIDTH]
               [] c = "BS" -> Backspace(Screen)
               [] OTHER -> Printable(Screen, c)
    IN /\ t.top + TERM_HEIGH <= MaxRows
       /\ g_row' = t.row /\ g_col' = t.col /\ g_buf' = t.buf
       /\ page' = t.page /\ top' = t.top
       /\ UNCHANGED g_cur_color

toggle_dark_mode ==
    /\ g_cur_color' = (IF g_cur_color = "light" THEN "dark" ELSE "light")
    /\ g_buf' = [y \in Rows |-> [x \in Cols |-> vga_entry(g_buf[y][x].char, g_cur_color')]]
    /\ UNCHANGED <<g_row, g_col, page, top>>

terminal_clear ==
    /\ g_row' = 0 /\ g_col' = 0 /\ g_cur_color' = "dark"
    /\ g_buf' = [y \in Rows |-> [x \in Cols |-> vga_entry(Blank, "dark")]]
    /\ page' = [y \in 0..MaxRows |-> [x \in Cols |-> Blank]] /\ top' = 0

TermNext ==
    \/ \E c \in Chars \cup {Blank, "\n", "\r", "\t", "BS"} : terminal_putchar(c)
    \/ toggle_dark_mode \/ terminal_clear

TermSpec == TermInit /\ [][TermNext]_termVars

-----------------------------------------------------------------------------

\* The screen shows the last lines written, all in the current colour, the
\* cursor within it: nothing is lost or shown twice by wrapping, scrolling or
\* erasing, and a change of colour leaves no cell behind.
ShowsTail ==
    /\ g_row \in Rows /\ g_col \in Cols
    /\ \A y \in Rows, x \in Cols : g_buf[y][x] = vga_entry(page[top + y][x], g_cur_color)
=============================================================================
