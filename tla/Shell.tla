-------------------------------- MODULE Shell --------------------------------
(***************************************************************************)
(* From keys to the words of a command: the keyboard's interrupt handler   *)
(* (kbd.c), the file shell's getline (vfs.c), and the tokenizer and arena  *)
(* that run_cmd takes the line apart with (v.h).  RingBuf has the steps    *)
(* inside the ring buffer; here it is a queue of at most RB_CAP bytes.     *)
(* The keyboard has one shift key: two of them share one flag.             *)
(***************************************************************************)
EXTENDS Integers, Sequences, SequencesExt, FiniteSetsExt

CONSTANTS
    RB_CAP, LINE_MAX,
    PTR,                \* size and alignment of a char *
    Script,             \* DEBUG_KEYSTROKES
    MaxTyped            \* bound: characters accepted from keys, of lines not yet run

ShellAssumption ==
    RB_CAP \in Nat \ {0} /\ LINE_MAX \in Nat \ {0} /\ MaxTyped \in Nat /\ PTR \in Nat \ {0} /\ LINE_MAX % PTR = 0

VARIABLES
    modifiers,          \* key |-> its flag
    rb,                 \* s_rb
    keystrokes,         \* dbg_keystrokes: what is left of the script
    machine,            \* "on", "halted" (by a panic), "reboot"
    at,                 \* the shell's task: "getline", "run_cmd", "paths", "return", "abort"
    line,               \* the bytes getline has stored
    outside,            \* a byte was stored outside of the line's buffer or the arena
    parts, arena,       \* run_cmd: the tokenizer's place and the arena's bytes left
    cmd,                \* which command it is, once its word is taken
    words,              \* the words taken so far
    down,               \* history: the modifier keys held down
    typed               \* history: the characters meant and not dropped,
                        \* from the start of the line on

vars == <<modifiers, rb, keystrokes, machine, at, line, outside, parts, arena, cmd, words, down, typed>>

(* ------------------------------ the keyboard ---------------------------- *)

get_mod == {"shift", "ctrl", "alt"}

\* A key's byte, plain and with shift; a key with no byte has none here.
codes == [a |-> <<"a", "A">>, space |-> <<" ", " ">>, backspace |-> <<"\\b", "\\b">>,
          return |-> <<"\n", "\n">>, del |-> <<"del", "del">>]

\* What the keys do: a modifier goes down, also again and again while it is held,
\* or up, and any other key goes down.  One of the others goes up for all of them.
Strokes == (get_mod \X BOOLEAN) \cup ((DOMAIN codes \cup {"f1"}) \X {FALSE}) \cup {<<"del", TRUE>>}

Init ==
    /\ modifiers = [m \in get_mod |-> FALSE] /\ down = {}
    /\ rb = <<>> /\ keystrokes = Script /\ typed = <<>>
    /\ machine = "on" /\ at = "getline" /\ line = <<>> /\ outside = FALSE
    /\ parts = 1 /\ arena = LINE_MAX /\ cmd = "none" /\ words = <<>>

shellVars == <<at, line, outside, parts, arena, cmd, words>>

\* Mutant: what a key that goes up says is not looked at.
check_special_Down(key, key_up) ==
    key \in get_mod /\ modifiers' = [modifiers EXCEPT ![key] = TRUE]

check_special(key, key_up) ==
    key \in get_mod /\ modifiers' = [modifiers EXCEPT ![key] = ~key_up]

\* A byte for which there is no room is dropped ('!' is shown).
Accept(byte, meant) ==
    IF Len(rb) = RB_CAP THEN UNCHANGED <<rb, typed>>
    ELSE /\ Len(typed) < MaxTyped
         /\ rb' = Append(rb, byte) /\ typed' = Append(typed, meant)

received_scancode(key, key_up) ==
    LET Byte(shift) == codes[key][IF shift THEN 2 ELSE 1] IN
    IF key \in DOMAIN codes /\ ~key_up THEN Accept(Byte(modifiers["shift"]), Byte("shift" \in down))
    ELSE UNCHANGED <<rb, typed>>

kbd_irq(key, key_up) ==
    /\ machine # "reboot" /\ ~outside
    /\ down' = IF key \notin get_mod THEN down ELSE IF key_up THEN down \ {key} ELSE down \cup {key}
    /\ \/ check_special(key, key_up) /\ UNCHANGED <<machine, rb, typed>>
       \/ /\ key \notin get_mod /\ UNCHANGED modifiers
          /\ IF key = "del" /\ modifiers["ctrl"] /\ modifiers["alt"]
             THEN machine' = "reboot" /\ UNCHANGED <<rb, typed>>
             ELSE /\ UNCHANGED machine
                  /\ IF machine = "halted" THEN UNCHANGED <<rb, typed>> ELSE received_scancode(key, key_up)
    /\ UNCHANGED <<keystrokes, shellVars>>

\* The task that types the script waits for room.
do_debug_keystrokes ==
    /\ machine = "on" /\ ~outside /\ keystrokes # <<>> /\ Len(rb) < RB_CAP
    /\ keystrokes' = Tail(keystrokes)
    /\ rb' = Append(rb, Head(keystrokes)) /\ typed' = Append(typed, Head(keystrokes))
    /\ UNCHANGED <<modifiers, machine, down, shellVars>>

\* Some other task panics.  No task runs again, so what the shell had is forgotten.
Halt ==
    /\ machine = "on" /\ ~outside /\ machine' = "halted"
    /\ rb' = <<>> /\ keystrokes' = <<>> /\ typed' = <<>> /\ at' = "getline" /\ line' = <<>>
    /\ parts' = 1 /\ arena' = LINE_MAX /\ cmd' = "none" /\ words' = <<>>
    /\ UNCHANGED <<modifiers, down, outside>>

(* ------------------------------- the shell ------------------------------ *)

Runs == machine = "on" /\ ~outside
envVars == <<modifiers, keystrokes, machine, down, typed>>

\* One round of getline: getchar waits for a byte.  A backspace at the start of
\* the line and the end of a full one are stored outside of the buffer.
getline ==
    /\ Runs /\ at = "getline" /\ Len(line) < LINE_MAX /\ rb # <<>>
    /\ rb' = Tail(rb)
    /\ LET c == Head(rb) IN
       \/ c = "\n" /\ at' = "run_cmd" /\ UNCHANGED <<line, outside>>
       \/ /\ c = "\\b" /\ UNCHANGED at
          /\ outside' = (line = <<>>)
          /\ line' = IF line = <<>> THEN line ELSE Front(line)
       \/ /\ c \notin {"\n", "\\b"} /\ UNCHANGED <<at, outside>>
          /\ line' = Append(line, c)
    /\ UNCHANGED <<envVars, parts, arena, cmd, words>>

getline_Full ==
    /\ Runs /\ at = "getline" /\ Len(line) = LINE_MAX /\ outside' = TRUE
    /\ UNCHANGED <<rb, envVars, at, line, parts, arena, cmd, words>>

\* The first place from i on where there is a blank, or where there is none.
Find(i, blank) ==
    IF i > Len(line) THEN i
    ELSE Min({j \in i .. Len(line) : (line[j] = " ") = blank} \cup {Len(line) + 1})

v_tok_consume ==
    LET beg == Find(parts, FALSE)
        end == Find(beg, TRUE)
    IN  [beg |-> beg, end |-> end, next |-> end + 1]

\* _v_ma_alloc: what is left of the arena, or -1 where it aborts.
_v_ma_alloc(left, bytes, align) ==
    LET available == left - (left % align) IN
    IF available <= 0 \/ bytes > available THEN -1 ELSE available - bytes

v__abort == at' = "abort" /\ machine' = "halted"

\* The commands that take more from the arena than their words, and any other.
PathCommands == {"mkdir", "touch", "dirname", "basename"}
Commands == PathCommands \cup {"other"}

\* v_tok_consume_cstr copies the word, and a zero, to the arena.  The first
\* word is the command.  A command may leave the rest of its words.
v_tok_consume_cstr ==
    LET tok  == v_tok_consume
        len  == tok.end - tok.beg
        left == _v_ma_alloc(arena, len + 1, 1)
    IN  /\ Runs /\ at = "run_cmd" /\ line # <<>>
        /\ parts' = tok.next
        /\ \/ len = 0 /\ at' = "return" /\ UNCHANGED <<arena, cmd, words, machine>>
           \/ len # 0 /\ left = -1 /\ v__abort /\ UNCHANGED <<arena, cmd, words>>
           \/ /\ len # 0 /\ left # -1
              /\ arena' = left
              /\ words' = Append(words, SubSeq(line, tok.beg, tok.end - 1))
              /\ cmd' \in IF cmd = "none" THEN Commands ELSE {cmd}
              /\ at' = IF cmd \in PathCommands THEN "paths" ELSE "run_cmd"
              /\ UNCHANGED machine
        /\ UNCHANGED <<rb, modifiers, keystrokes, down, typed, line, outside>>

\* The zero that basename puts behind the bytes it has asked for is outside of
\* the arena when they were the last ones.
basename(left, len) == [left |-> _v_ma_alloc(left, len, 1), outside |-> left = len]

\* All but basename take the path's dirname, "." here, from the arena; mkdir and
\* basename its basename.
Paths ==
    LET dir  == IF cmd = "basename" THEN arena ELSE _v_ma_alloc(arena, PTR, PTR)
        base == IF cmd \in {"mkdir", "basename"} THEN basename(dir, Len(Last(words)))
                ELSE [left |-> dir, outside |-> FALSE]
    IN  /\ Runs /\ at = "paths"
        /\ IF dir = -1 \/ base.left = -1
           THEN v__abort /\ UNCHANGED <<arena, outside>>
           ELSE /\ at' = "run_cmd" /\ UNCHANGED machine
                /\ arena' = base.left /\ outside' = base.outside
        /\ UNCHANGED <<rb, modifiers, keystrokes, down, typed, line, parts, cmd, words>>

\* The line that was typed ends at the first return.
Typed == SubSeq(typed, 1, Min({i \in DOMAIN typed : typed[i] = "\n"}) - 1)

\* run_cmd returns, which ends its locals (the arena is one: it has it by value),
\* and the next line begins.
run_cmd ==
    /\ Runs /\ (at = "return" \/ (at = "run_cmd" /\ (line = <<>> \/ words # <<>>)))
    /\ at' = "getline" /\ line' = <<>>
    /\ typed' = SubSeq(typed, Len(Typed) + 2, Len(typed))
    /\ parts' = 1 /\ arena' = LINE_MAX /\ cmd' = "none" /\ words' = <<>>
    /\ UNCHANGED <<modifiers, keystrokes, rb, machine, down, outside>>

Next ==
    \/ \E s \in Strokes : kbd_irq(s[1], s[2])
    \/ do_debug_keystrokes \/ Halt
    \/ getline \/ getline_Full \/ v_tok_consume_cstr \/ Paths \/ run_cmd

Spec == Init /\ [][Next]_vars

-----------------------------------------------------------------------------

Edit(l, c) == IF c = "\\b" THEN Front(l) ELSE Append(l, c)
Edited(t) == FoldLeft(Edit, <<>>, t)

\* The words of a line, by their first characters.
Words(l) ==
    LET Starts == {i \in DOMAIN l : l[i] # " " /\ (i = 1 \/ l[i - 1] = " ")}
        Ends(i) == Min({j \in i .. Len(l) : l[j] = " "} \cup {Len(l) + 1}) - 1
    IN  [k \in 1 .. Cardinality(Starts) |->
            LET i == CHOOSE s \in Starts : Cardinality({r \in Starts : r < s}) = k - 1
            IN  SubSeq(l, i, Ends(i))]

\* run_cmd gets the words that were typed: each key meant with the shift key as
\* it was, but for the ones dropped with a '!'; backspaces done; and all words
\* once it has been told there are no more.  The arena, as long as the longest
\* line, has room for the words of every line; it runs out only where a
\* command takes more than its words.
WordsAsTyped ==
    /\ (~outside /\ at \in {"run_cmd", "paths", "return"}) =>
           LET W == Words(Edited(Typed)) IN
           /\ IsPrefix(words, W)
           /\ at = "return" => words = W
    /\ at = "abort" => cmd \in PathCommands
=============================================================================
