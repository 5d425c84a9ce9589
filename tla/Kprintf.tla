------------------------------ MODULE Kprintf -------------------------------
(***************************************************************************)
(* kprintf: a format with its arguments becomes the characters given to    *)
(* the terminal.  The digits of %h have the base HEX instead of 16, so a   *)
(* byte is HEX^2 and a word, of four bytes, HEX^8.                         *)
(***************************************************************************)
EXTENDS Integers, Sequences, SequencesExt, FiniteSetsExt

CONSTANTS
    HEX,
    Numbers,            \* numbers printed
    MaxItems            \* bound: items of a format

BYTE == HEX^2
WORD == BYTE^4
KprintfAssumption == HEX \in 2 .. 16 /\ WORD <= 10^9 /\ Numbers \subseteq 0 .. WORD - 1

Digits == <<"0", "1", "2", "3", "4", "5", "6", "7", "8", "9", "A", "B", "C", "D", "E", "F">>
Digit(d) == Digits[d + 1]

(* -------------------------- formats and arguments ----------------------- *)

\* What the callers of kprintf write between the quotes: a character, %% or a
\* conversion, with a width or not; a % that no conversion follows prints itself.
\* A string is its characters; Null is the null pointer.
Null == <<"NULL">>
Item(kind, width, n, s) == [kind |-> kind, width |-> width, n |-> n, s |-> s]
Items ==
    {Item(kind, <<>>, 0, <<>>) : kind \in {"z", "%", "x"}}
    \cup {Item(kind, <<>>, n, <<>>) : kind \in {"u", "i"}, n \in Numbers}
    \cup {Item("h", w, n, <<>>) : w \in {<<>>, <<"0">>, <<"1">>, <<"2">>, <<"3">>, <<"4">>}, n \in Numbers}
    \cup {Item("s", w, 0, s) : w \in {<<>>, <<"1">>, <<"1", "0">>}, s \in {Null, <<>>, <<"p", "q">>}}
    \cup {Item("c", <<>>, 0, <<"p">>)}

Text(item) == IF item.kind = "z" THEN <<"z">> ELSE <<"%">> \o item.width \o <<item.kind>>
TakesArg(item) == item.kind \in {"u", "i", "h", "s", "c"}

VARIABLES
    items,              \* what the caller means
    fmt, i,             \* its text, and the place in it
    vl,                 \* the arguments not taken yet
    out                 \* what the terminal was given

vars == <<items, fmt, i, vl, out>>

Init ==
    /\ items \in UNION {[1 .. k -> Items] : k \in 0 .. MaxItems}
    /\ fmt = FlattenSeq([k \in DOMAIN items |-> Text(items[k])])
    /\ vl = SelectSeq(items, TakesArg)
    /\ i = 1 /\ out = <<>>

(* ------------------------------ conversions ----------------------------- *)

places(n) == Min({k \in 1 .. 9 : n < 10^k})
pru32(n) == [k \in 1 .. places(n) |-> Digit((n \div 10^(places(n) - k)) % 10)]

\* num is two's complement, as is -num.
pri32(n) == IF n >= WORD \div 2 THEN <<"-">> \o pru32((-n) % WORD) ELSE pru32(n)

kprinthex_internal(byte) == << Digit((byte \div HEX) % HEX), Digit(byte % HEX) >>

\* kprinthex1 to kprinthex4: so many bytes, the high ones first.
kprinthex(bytes, n) ==
    FlattenSeq([k \in 1 .. bytes |-> kprinthex_internal((n \div BYTE^(bytes - k)) % BYTE)])

Hex(num_chars, num, n) ==
    IF num_chars = 0 THEN <<"0", "x">> \o kprinthex(4, n)
    ELSE IF num = 0 THEN kprinthex(1, n)
    ELSE <<"0", "x">> \o kprinthex(Min({num, 4}), n)

String(num_chars, num, s) ==
    IF s = Null THEN <<"(", "n", "u", "l", "l", ")">>
    ELSE SubSeq(s, 1, IF num_chars > 0 THEN Min({Len(s), num}) ELSE Len(s))

is_num(c) == c \in {Digit(d) : d \in 0 .. 9}
Value(c) == CHOOSE d \in 0 .. 9 : Digit(d) = c

\* Mutant: the places are not scaled as further digits are found.
try_get_num_Sum(k) ==
    LET idx == Min({n \in 0 .. Len(fmt) : k + n > Len(fmt) \/ ~is_num(fmt[k + n])})
        Add(sum, c) == sum + Value(c)
    IN  [num_chars |-> idx, num |-> FoldLeft(Add, 0, SubSeq(fmt, k, k + idx - 1))]

\* The digits from fmt[k] on, and the number they are.
try_get_num(k) ==
    LET idx == Min({n \in 0 .. Len(fmt) : k + n > Len(fmt) \/ ~is_num(fmt[k + n])})
        Add(sum, c) == 10 * sum + Value(c)
    IN  [num_chars |-> idx, num |-> FoldLeft(Add, 0, SubSeq(fmt, k, k + idx - 1))]

\* One round of the loop of do_kprintf_internal.
Round ==
    IF fmt[i] # "%"
    THEN out' = Append(out, fmt[i]) /\ i' = i + 1 /\ UNCHANGED vl
    ELSE LET t == try_get_num(i + 1)
             j == i + t.num_chars
             c == IF j < Len(fmt) THEN fmt[j + 1] ELSE "NUL"
             Arg == Head(vl)
         IN  \/ /\ c = "%" /\ out' = Append(out, "%")
                /\ i' = j + 2 /\ UNCHANGED vl
             \/ /\ c \in {"h", "u", "i", "s", "c"}
                /\ out' = out \o CASE c = "h" -> Hex(t.num_chars, t.num, Arg.n)
                                   [] c = "u" -> pru32(Arg.n)
                                   [] c = "i" -> pri32(Arg.n)
                                   [] c = "s" -> String(t.num_chars, t.num, Arg.s)
                                   [] c = "c" -> Arg.s
                /\ i' = j + 2 /\ vl' = Tail(vl)
             \/ /\ c \notin {"%", "h", "u", "i", "s", "c"}
                /\ out' = Append(out, fmt[j]) /\ i' = j + 1 /\ UNCHANGED vl

do_kprintf_internal == i <= Len(fmt) /\ Round /\ UNCHANGED <<items, fmt>>

Next == do_kprintf_internal

Spec == Init /\ [][Next]_vars

-----------------------------------------------------------------------------

\* The digits of n in a base, and with zeros up to so many of them.
Numeral[base \in 2 .. 16, n \in 0 .. WORD] ==
    IF n < base THEN <<Digit(n)>> ELSE Append(Numeral[base, n \div base], Digit(n % base))
Padded(len, s) == [k \in 1 .. len - Len(s) |-> "0"] \o s

Meaning(item) ==
    LET width == IF item.width = <<>> THEN 4 ELSE Value(item.width[1])
        bytes == Max({1, width})
    IN  CASE item.kind = "x" -> <<"%", "x">>
          [] item.kind \in {"z", "%"} -> <<item.kind>>
          [] item.kind = "u" -> Numeral[10, item.n]
          [] item.kind = "i" -> IF item.n < WORD \div 2 THEN Numeral[10, item.n]
                                ELSE <<"-">> \o Numeral[10, WORD - item.n]
          [] item.kind = "h" -> (IF width = 0 THEN <<>> ELSE <<"0", "x">>)
                                \o Padded(2 * bytes, Numeral[HEX, item.n % BYTE^bytes])
          [] item.kind = "s" -> IF item.s = Null THEN <<"(", "n", "u", "l", "l", ")">>
                                ELSE IF item.width = <<"1">> THEN SubSeq(item.s, 1, Min({1, Len(item.s)}))
                                ELSE item.s
          [] item.kind = "c" -> item.s

\* What kprintf prints is what its items mean one by one, each with its own
\* argument and width: no conversion takes a neighbour's character or argument.
PrintsItems ==
    i > Len(fmt) => vl = <<>> /\ out = FlattenSeq([k \in DOMAIN items |-> Meaning(items[k])])
=============================================================================
