-------------------------------- MODULE Console --------------------------------
(***************************************************************************)
(* The command console of console.c: a line editor, and the commands on the  *)
(* parameters of the application. One step reads one key. A key is a         *)
(* character, or a word as if it were one: what is true of the console does  *)
(* not depend on how words are spelled. A number is what its text stands     *)
(* for; a float is counted in units of the last digit that "%f" prints.      *)
(***************************************************************************)
EXTENDS Integers, Sequences, FiniteSets, SequencesExt

CONSTANTS
  Parameters,      \* a sequence of [name, type, min_val, max_val, init]
  Lines,           \* the user types prefixes of these, and corrects them
  IntegerText,     \* the number that a word stands for in base 10 ...
  FloatText,       \* ... and as a float, or NaN
  NaN, NULL,
  WIDTH,           \* bits of an integer: 32
  Floats,          \* the values of a float but NaN ...
  INFINITY,        \* ... the infinite ones as one step beyond the others: 2^128
  BUFFER,          \* sizeof(input_buffer), and MAX_CMD_LEN: 256
  MAX_CMD_TOKENS,  \* 16
  DIGITS,          \* the text of a uint32 holds numbers down to -DIGITS: 999999999
  TABSTOP, COLUMNS \* of the terminal: 8, and its last tab stop

Keys == UNION {{l[i] : i \in DOMAIN l} : l \in Lines}

CRLF == "CRLF"
BS == "BS"

\* Keys that are not one column wide. ESC stands for all that take no column.
TAB == "TAB"
NUL == "NUL"
Controls == {TAB, NUL, "ESC"}

ASSUME ConsoleAssumption ==
  /\ Parameters \in Seq({Parameters[i] : i \in DOMAIN Parameters})
  /\ \A i, j \in DOMAIN Parameters : Parameters[i].name = Parameters[j].name => i = j
  /\ WIDTH \in Nat \ {0} /\ BUFFER \in Nat \ {0, 1} /\ MAX_CMD_TOKENS \in Nat \ {0, 1, 2, 3}
  /\ DIGITS \in Nat /\ TABSTOP \in Nat \ {0} /\ COLUMNS \in Nat

ASSUME FloatsAssumption ==
  INFINITY \in Nat /\ Floats \subseteq -INFINITY .. INFINITY /\ {-INFINITY, INFINITY} \subseteq Floats

\* The values of a type, and how the application starts: within its limits.
UInt == 0 .. 2^WIDTH - 1
SInt == -(2^(WIDTH - 1)) .. 2^(WIDTH - 1) - 1

ASSUME ParametersAssumption ==
  \A i \in DOMAIN Parameters :
    LET p == Parameters[i] IN
    /\ p.type \in {"uint32", "int32", "float", "string"}
    /\ p.type = "uint32" => p.init \in UInt
    /\ p.type = "int32" => p.init \in SInt
    /\ p.type = "float" => {p.init, p.min_val, p.max_val} \subseteq Floats
    /\ p.type # "string" =>
         /\ p.min_val \in Int /\ p.max_val \in Int
         /\ p.min_val # p.max_val => p.init \in p.min_val .. p.max_val
    /\ p.type = "string" =>
         /\ p.max_val \in Nat /\ p.init \in Seq(Keys)
         /\ p.max_val > 0 => Len(p.init) < p.max_val

\* The two keys that are not characters have branches of their own.
ASSUME KeysAssumption == CRLF \notin Keys /\ BS \notin Keys

ASSUME NumeralsAssumption ==
  /\ NaN \notin Int
  /\ \A word \in DOMAIN IntegerText : IntegerText[word] \in Int
  /\ \A word \in DOMAIN FloatText : FloatText[word] \in Int \cup {NaN}

\* True of every WIDTH; said because the provers do not compute powers.
ASSUME PowerAssumption ==
  2^(WIDTH - 1) \in Nat \ {0} /\ 2^WIDTH = 2 * 2^(WIDTH - 1)

VARIABLES
  line,    \* input_buffer up to input_index
  value,   \* of each parameter
  screen,  \* the row of the terminal, and the column its cursor is in
  typed,   \* history: what the last command has set, or NULL
  plain    \* history: since the prompt, no key of Controls has been echoed

vars == <<line, value, screen, typed, plain>>

Names == {Parameters[i].name : i \in DOMAIN Parameters}
Parameter(name) == CHOOSE p \in {Parameters[i] : i \in DOMAIN Parameters} : p.name = name

Prompt == <<">", " ">>

\* A terminal: a tab moves the cursor to the next stop, if there is one.
WriteKey(s, k) ==
  CASE k = CRLF -> [row |-> <<>>, col |-> 0]
    [] k = BS -> [s EXCEPT !.col = IF @ = 0 THEN 0 ELSE @ - 1]
    [] k = TAB ->
         LET stop == (s.col \div TABSTOP + 1) * TABSTOP
         IN IF stop > COLUMNS THEN s
            ELSE [row |-> s.row \o [i \in 1 .. stop - Len(s.row) |-> " "], col |-> stop]
    [] k \in Controls \ {TAB} -> s
    [] OTHER ->
         [row |-> SubSeq(s.row, 1, s.col) \o <<k>> \o SubSeq(s.row, s.col + 2, Len(s.row)),
          col |-> s.col + 1]

write(s, text) ==
  LET after[n \in 0 .. Len(text)] == IF n = 0 THEN s ELSE WriteKey(after[n - 1], text[n])
  IN after[Len(text)]

console_init == write([row |-> <<>>, col |-> 0], Prompt)

Init ==
  /\ line = <<>>
  /\ value = [name \in Names |-> Parameter(name).init]
  /\ screen = console_init
  /\ typed = NULL
  /\ plain = TRUE

----------------------------------------------------------------------------
(* Reading and printing values.                                            *)

\* A text in memory ends before its first zero byte.
CString(text) ==
  SubSeq(text, 1, Cardinality({i \in DOMAIN text : \A j \in 1 .. i : text[j] # NUL}))

\* Mutant: no room is left for the terminating zero.
NoTerminator(src, n) ==
  LET text == CString(src) IN SubSeq(text, 1, IF Len(text) < n THEN Len(text) ELSE n)

strcopy(src, n) ==
  LET text == CString(src) IN SubSeq(text, 1, IF Len(text) < n THEN Len(text) ELSE n - 1)

\* Mutant: wraps where it should saturate.
Truncated(n) ==
  LET low == n % 2^WIDTH IN IF low >= 2^(WIDTH - 1) THEN low - 2^WIDTH ELSE low

\* Both saturate; strtoul also takes a minus sign, and wraps.
strtoul(n) ==
  IF n >= 2^WIDTH \/ n <= -(2^WIDTH) THEN 2^WIDTH - 1 ELSE n % 2^WIDTH
strtol(n) ==
  IF n >= 2^(WIDTH - 1) THEN 2^(WIDTH - 1) - 1
  ELSE IF n < -(2^(WIDTH - 1)) THEN -(2^(WIDTH - 1)) ELSE n

\* The nearest float; beyond the greatest by half a step it is infinite.
Distance(a, b) == IF a < b THEN b - a ELSE a - b
strtof(n) ==
  IF n = NaN THEN NaN
  ELSE CHOOSE v \in Floats : \A u \in Floats : Distance(v, n) <= Distance(u, n)

\* Mutant: "%lu" for either type of integer.
Unsigned(v) == v % 2^WIDTH

\* "%ld", for either type of integer.
Signed(v) == IF v >= 2^(WIDTH - 1) THEN v - 2^WIDTH ELSE v

\* The text of a uint32 has 11 bytes: minus and ten digits lose the last one.
Shortened(n) == IF n < -DIGITS THEN -((-n) \div 10) ELSE n

\* The buffer has no room for the last character of a float: "na" and "in" are
\* no numbers.
WithoutLastDigit(v) ==
  IF v \in {NaN, INFINITY, -INFINITY} THEN NULL
  ELSE IF v < 0 THEN -((-v) \div 10) * 10 ELSE (v \div 10) * 10

\* What print_parameter_value prints, as the number or string it stands for.
Printed(p, v) ==
  CASE p.type = "uint32" -> Shortened(Signed(v))
    [] p.type = "int32" -> Signed(v)
    [] p.type = "float" -> WithoutLastDigit(v)
    [] p.type = "string" -> v

\* No comparison with NaN is true.
Less(a, b) == a # NaN /\ b # NaN /\ a < b

\* Mutant: the lower limit is forgotten.
AboveRange(p, v) == p.min_val # p.max_val /\ Less(p.max_val, v)

OutOfRange(p, v) ==
  p.min_val # p.max_val /\ (Less(v, p.min_val) \/ Less(p.max_val, v))

\* The value that a number in a text gives, before the range is checked.
Converted(p, number) ==
  CASE p.type = "uint32" -> strtoul(number)
    [] p.type = "int32" -> strtol(number)
    [] p.type = "float" -> strtof(number)

Numerals(p) == IF p.type = "float" THEN FloatText ELSE IntegerText

\* The value, if the text is accepted.
set_parameter_value(p, token) ==
  LET refused == [ok |-> FALSE, val |-> NULL]
      set(v) == [ok |-> TRUE, val |-> v]
  IN IF p.type = "string"
     THEN IF p.max_val = 0 THEN refused ELSE set(strcopy(token, p.max_val))
     ELSE IF Len(token) # 1 \/ token[1] \notin DOMAIN Numerals(p) THEN refused
     ELSE LET v == Converted(p, Numerals(p)[token[1]])
          IN IF OutOfRange(p, v) THEN refused ELSE set(v)

----------------------------------------------------------------------------
(* Commands: what they write and what they set.                             *)

\* strtok: the maximal runs of keys that are not blanks, up to the limit.
Blank(text, i) == i \notin DOMAIN text \/ text[i] \in {" ", TAB}

TokenAt(text, i) ==
  LET end == CHOOSE j \in i .. Len(text) :
               Blank(text, j + 1) /\ \A k \in i .. j : ~Blank(text, k)
  IN SubSeq(text, i, end)

Tokens(text) ==
  LET starts == {i \in DOMAIN text : ~Blank(text, i) /\ Blank(text, i - 1)}
      count == Cardinality(starts)
      nth(n) == CHOOSE i \in starts : Cardinality(starts \cap 1 .. i) = n
  IN [n \in 1 .. (IF count < MAX_CMD_TOKENS THEN count ELSE MAX_CMD_TOKENS) |->
        TokenAt(text, nth(n))]

find_parameter(token) == IF Len(token) = 1 /\ token[1] \in Names THEN token[1] ELSE NULL

\* Values, lists, help, errors and what the application's own commands write:
\* whole lines, all the same to the console.
Answer == <<"text", CRLF>>

Says == [out |-> Answer, name |-> NULL, val |-> NULL]

set(tokens) ==
  LET name == find_parameter(tokens[2])
      result == set_parameter_value(Parameter(name), tokens[3])
  IN IF Len(tokens) # 3 \/ name = NULL \/ ~result.ok THEN Says
     ELSE [out |-> Answer, name |-> name, val |-> result.val]

\* Every other command answers and changes nothing.
console_execute_command(command) ==
  LET tokens == Tokens(strcopy(command, BUFFER)) IN
  IF tokens = <<>> THEN [Says EXCEPT !.out = <<>>]
  ELSE IF tokens[1] = <<"set">> THEN set(tokens) ELSE Says

----------------------------------------------------------------------------
(* console_process: one key.                                               *)

\* Mutant: erases the prompt as well.
EraseAlways ==
  /\ line' = IF line = <<>> THEN <<>> ELSE SubSeq(line, 1, Len(line) - 1)
  /\ screen' = write(screen, <<BS, " ", BS>>)
  /\ typed' = NULL
  /\ UNCHANGED <<value, plain>>

Backspace ==
  /\ IF line = <<>> THEN UNCHANGED <<line, screen>>
     ELSE /\ line' = SubSeq(line, 1, Len(line) - 1)
          /\ screen' = write(screen, <<BS, " ", BS>>)
  /\ typed' = NULL
  /\ UNCHANGED <<value, plain>>

Enter ==
  /\ line # <<>>
  /\ LET done == console_execute_command(line)
         tokens == Tokens(strcopy(line, BUFFER))
     IN
       /\ screen' = write(screen, <<CRLF>> \o done.out \o Prompt)
       /\ value' = IF done.name = NULL THEN value ELSE [value EXCEPT ![done.name] = done.val]
       /\ typed' = IF done.name = NULL THEN NULL
                   ELSE [name |-> done.name, token |-> tokens[3], old |-> value]
  /\ line' = <<>>
  /\ plain' = TRUE

\* Mutant: no room is left for the terminating zero.
TypeOneMore(k) ==
  /\ IF Len(line) < BUFFER
     THEN /\ line' = Append(line, k) /\ screen' = write(screen, <<k>>)
          /\ plain' = (plain /\ k \notin Controls)
     ELSE UNCHANGED <<line, screen, plain>>
  /\ typed' = NULL
  /\ UNCHANGED value

\* A key that finds the buffer full is lost, and not shown.
Type(k) ==
  /\ IF Len(line) < BUFFER - 1
     THEN /\ line' = Append(line, k) /\ screen' = write(screen, <<k>>)
          /\ plain' = (plain /\ k \notin Controls)
     ELSE UNCHANGED <<line, screen, plain>>
  /\ typed' = NULL
  /\ UNCHANGED value

\* What the user types next.
Typing(k) ==
  \E l \in Lines : Len(l) > Len(line) /\ l[Len(line) + 1] = k /\ SubSeq(l, 1, Len(line)) = line

Next == Backspace \/ Enter \/ \E k \in Keys : Typing(k) /\ Type(k)

Spec == Init /\ [][Next]_vars

----------------------------------------------------------------------------
(* Properties.                                                             *)

\* The line leaves room in its buffer for the terminating zero
\* (console_process), and every parameter holds a value of its type.
TypeOK ==
  /\ line \in Seq(Keys) /\ Len(line) < BUFFER
  /\ plain \in BOOLEAN
  /\ \A name \in Names :
       LET p == Parameter(name) v == value[name] IN
       CASE p.type = "uint32" -> v \in UInt
         [] p.type = "int32" -> v \in SInt
         [] p.type = "float" -> v \in Floats \cup {NaN}
         [] p.type = "string" -> v \in Seq(Keys)

\* The row shows the prompt and the text, with the cursor behind them.
RowShows(text) ==
  LET shown == Prompt \o text IN
  /\ screen.col = Len(shown)
  /\ SubSeq(screen.row, 1, screen.col) = shown
  /\ \A i \in screen.col + 1 .. Len(screen.row) : screen.row[i] = " "

\* As long as only keys of one column are typed, the row shows the command that
\* Enter will execute: whatever was corrected, typed in excess or written by
\* the commands before (console_process). A tab, a zero byte or an escape
\* spoils the row at most until Enter.
ScreenShowsLine == plain => RowShows(strcopy(line, BUFFER))

\* The range that list prints holds, except that NaN passes the comparisons
\* of set_parameter_value.
InListedRange ==
  \A name \in Names :
    LET p == Parameter(name) IN
    p.type # "string" /\ p.min_val # p.max_val =>
      value[name] \in {NaN} \cup p.min_val .. p.max_val

\* A string and its terminating zero fit into the max_val bytes of its
\* parameter.
StringFits ==
  \A name \in Names : Parameter(name).type = "string" /\ Parameter(name).max_val > 0 =>
    Len(value[name]) < Parameter(name).max_val

\* What get prints can be given to set, which then leaves an integer as it is,
\* a uint32 below 2^31 that is. A finite float has lost its last digit: it
\* moves by less than two units of the digit before, and stays in its range if
\* the limits have one digit less themselves (print_parameter_value).
ShownSetsBack ==
  \A name \in Names :
    LET p == Parameter(name)
        v == value[name]
        shown == Printed(p, v)
    IN CASE p.type = "uint32" /\ v < 2^(WIDTH - 1) -> strtoul(shown) = v
         [] p.type = "int32" -> strtol(shown) = v
         [] p.type = "float" /\ v \notin {NaN, INFINITY, -INFINITY} ->
              /\ v - strtof(shown) \in -18 .. 18
              /\ p.min_val % 10 = 0 /\ p.max_val % 10 = 0 => ~OutOfRange(p, strtof(shown))
         [] OTHER -> TRUE

\* The comment on the text of a uint32, of which the greatest is said to be
\* 4294967296 (print_parameter_value): a uint32 is shown as the number it is.
\* Violated: it is printed as if it were signed, and a long one is cut.
UnsignedShown ==
  \A name \in Names : Parameter(name).type = "uint32" =>
    Printed(Parameter(name), value[name]) = value[name]

\* A number that set accepts is the number that was typed, if the range leaves
\* out the values that strtoul and strtol saturate to, and the number for a
\* uint32 is not negative. And no other parameter changes.
AcceptedAsTyped ==
  typed # NULL =>
    LET p == Parameter(typed.name)
        n == IntegerText[typed.token[1]]
        h == 2^(WIDTH - 1)
    IN
    /\ \A name \in Names \ {typed.name} : value[name] = typed.old[name]
    /\ p.type = "int32" /\ -h < p.min_val /\ p.min_val < p.max_val /\ p.max_val < h - 1 =>
         value[typed.name] = n
    /\ p.type = "uint32" /\ p.min_val < p.max_val /\ p.max_val < 2 * h - 1 /\ n >= 0 =>
         value[typed.name] = n
==============================================================================
