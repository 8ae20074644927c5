------------------------------ MODULE LibFormat ------------------------------
(***************************************************************************)
(* lib/printfmt.c: printnum and vprintfmt as functions from a format and   *)
(* its arguments to the characters given to putch; and the buffer between  *)
(* them and sys_cputs in lib/printf.c.  Characters are those of LibString: *)
(* digits and lower case letters are their values in base 36.              *)
(***************************************************************************)
EXTENDS LibString

CONSTANTS
  UINT,     \* stands for 2^32
  BUFSIZE   \* stands for 256

dot == -5
star == -6
hash == -7
percent == -10
question == -8
unprintable == -98   \* a character outside ' ' .. '~'
nul == -99
NULL == <<nul>>      \* the null pointer, in place of a string
null_text == <<-96, 23, 30, 21, 21, -95>>   \* "(null)"
conv_c == 12
conv_d == 13
conv_e == 14
conv_l == 21
conv_m == 22
conv_o == 24
conv_p == 25
conv_s == 28
conv_u == 30
conv_x == letter_x

Rep(c, n) == [k \in 1 .. (IF n > 0 THEN n ELSE 0) |-> c]

\* The digits of num, most significant first.
Digits[num \in Nat, base \in Nat] ==
  IF num >= base THEN Append(Digits[num \div base, base], num % base) ELSE <<num>>

\* Mutant: the width counts one digit too few.
printnum_narrow(num, base, width, padc) ==
  Rep(padc, width - Len(Digits[num, base]) - 1) \o Digits[num, base]

printnum(num, base, width, padc) ==
  Rep(padc, width - Len(Digits[num, base])) \o Digits[num, base]

\* The conversion e: the text of an error is one character of its own.
error_string == [e \in 1 .. 8 |-> 500 + e]
print_error(e) ==
  LET err == IF e < 0 THEN -e ELSE e
  IN IF err \in DOMAIN error_string THEN <<error_string[err]>>
     ELSE <<500>> \o printnum(err, 10, -1, space)

\* The conversion s of a string, or of the null pointer.
print_string(arg, width, precision, padc, alt) ==
  LET p == IF arg = NULL THEN null_text ELSE arg
      n == IF precision < 0 \/ Len(p) < precision THEN Len(p) ELSE precision
      left == IF width > 0 /\ padc # minus THEN width - n ELSE 0
      shown == [k \in 1 .. n |-> IF alt /\ p[k] = unprintable THEN question ELSE p[k]]
      rest == IF width > 0 /\ padc # minus THEN -n ELSE width - n
  IN Rep(padc, left) \o shown \o Rep(space, rest)

(***************************************************************************)
(* The loop of vprintfmt: i is the next character of the format, esc the   *)
(* place behind the % of an escape sequence, 0 outside of one.             *)
(***************************************************************************)
FmtInit(args) ==
  [i |-> 1, esc |-> 0, padc |-> space, width |-> -1, precision |-> -1, lflag |-> 0, alt |-> FALSE,
   args |-> args, out |-> <<>>, done |-> FALSE]

Emit(st, cs) == [st EXCEPT !.out = @ \o cs, !.esc = 0, !.i = @ + 1]
Flag(st) == [st EXCEPT !.i = @ + 1]
Shift(st) == [st EXCEPT !.args = Tail(@)]

\* process_precision, with the number n that ends before j.
precision_is(st, n, j) ==
  IF st.width < 0 THEN [st EXCEPT !.width = n, !.precision = -1, !.i = j]
                  ELSE [st EXCEPT !.precision = n, !.i = j]

\* The size of an integer argument: int and long are the same, ll is longer.
Size(lflag) == IF lflag >= 2 THEN UINT * UINT ELSE UINT
getuint(lflag, arg) == arg % Size(lflag)
getint(lflag, arg) ==
  IF 2 * getuint(lflag, arg) < Size(lflag) THEN getuint(lflag, arg)
  ELSE getuint(lflag, arg) - Size(lflag)

number(st, sign, num, base) ==
  Emit(Shift(st), sign \o printnum(num, base, st.width, st.padc))

\* Mutant: an unknown escape sequence is dropped up to the unknown character.
unknown_dropped(st) == [st EXCEPT !.out = Append(@, percent), !.esc = 0]

\* An unrecognized escape sequence: back to the %.
unknown(st) == [st EXCEPT !.out = Append(@, percent), !.i = st.esc, !.esc = 0]

FmtStep(fmt, st) ==
  LET ch == IF st.i > Len(fmt) THEN nul ELSE fmt[st.i]
      arg == Head(st.args)
      j == DigitsEnd(fmt, st.i, 10)
  IN CASE st.esc = 0 /\ ch = nul -> [st EXCEPT !.done = TRUE]
       [] st.esc = 0 /\ ch = percent ->
            [st EXCEPT !.i = @ + 1, !.esc = st.i + 1, !.padc = space, !.width = -1,
                       !.precision = -1, !.lflag = 0, !.alt = FALSE]
       [] st.esc = 0 /\ ch \notin {nul, percent} -> Emit(st, <<ch>>)
       [] st.esc > 0 /\ ch = minus -> Flag([st EXCEPT !.padc = minus])
       [] st.esc > 0 /\ ch = 0 -> Flag([st EXCEPT !.padc = 0])
       [] st.esc > 0 /\ ch \in 1 .. 9 ->
            precision_is(st, FoldLeft(LAMBDA v, k : v * 10 + k, 0, SubSeq(fmt, st.i, j - 1)), j)
       [] st.esc > 0 /\ ch = star -> precision_is(Shift(st), arg, st.i + 1)
       [] st.esc > 0 /\ ch = dot -> Flag([st EXCEPT !.width = IF @ < 0 THEN 0 ELSE @])
       [] st.esc > 0 /\ ch = hash -> Flag([st EXCEPT !.alt = TRUE])
       [] st.esc > 0 /\ ch = conv_l -> Flag([st EXCEPT !.lflag = @ + 1])
       [] st.esc > 0 /\ ch = conv_c -> Emit(Shift(st), <<arg>>)
       [] st.esc > 0 /\ ch = conv_e -> Emit(Shift(st), print_error(arg))
       [] st.esc > 0 /\ ch = conv_m -> Emit(Shift(st), <<>>)
       [] st.esc > 0 /\ ch = conv_s ->
            Emit(Shift(st), print_string(arg, st.width, st.precision, st.padc, st.alt))
       [] st.esc > 0 /\ ch = conv_d ->
            LET num == getint(st.lflag, arg)
            IN number(st, IF num < 0 THEN <<minus>> ELSE <<>>, IF num < 0 THEN -num ELSE num, 10)
       [] st.esc > 0 /\ ch = conv_u -> number(st, <<>>, getuint(st.lflag, arg), 10)
       [] st.esc > 0 /\ ch = conv_o -> number(st, <<>>, getuint(st.lflag, arg), 8)
       [] st.esc > 0 /\ ch = conv_p -> number(st, <<0, letter_x>>, arg % UINT, 16)
       [] st.esc > 0 /\ ch = conv_x -> number(st, <<>>, getuint(st.lflag, arg), 16)
       [] st.esc > 0 /\ ch = percent -> Emit(st, <<percent>>)
       [] OTHER -> unknown(st)

\* Every character is read at most twice.
vprintfmt(fmt, args) ==
  FoldLeft(LAMBDA st, k : IF st.done THEN st ELSE FmtStep(fmt, st), FmtInit(args),
           [k \in 1 .. 2 * Len(fmt) + 2 |-> k]).out

(***************************************************************************)
(* lib/printf.c: putch collects characters and flushes a full buffer.      *)
(***************************************************************************)
\* Mutant: a full buffer is printed without the character that fills it.
putch_lost(b, ch) ==
  IF Len(b.buf) + 1 = BUFSIZE - 1 THEN [buf |-> <<>>, cputs |-> Append(b.cputs, b.buf)]
  ELSE [b EXCEPT !.buf = Append(@, ch)]

putch(b, ch) ==
  IF Len(b.buf) + 1 = BUFSIZE - 1
  THEN [buf |-> <<>>, cputs |-> Append(b.cputs, Append(b.buf, ch))]
  ELSE [b EXCEPT !.buf = Append(@, ch)]

\* The system calls of cprintf.
vcprintf(fmt, args) ==
  LET b == FoldLeft(putch, [buf |-> <<>>, cputs |-> <<>>], vprintfmt(fmt, args))
  IN Append(b.cputs, b.buf)

-----------------------------------------------------------------------------
\* What is printed with zeros up to a width is read back as the same number
\* by strtol, in every base and with every number of l, and fills the width.
ReadsBack(num, conv, l, width) ==
  LET base == CASE conv = conv_o -> 8 [] conv = conv_x -> 16 [] conv \in {conv_d, conv_u} -> 10
      out == vprintfmt(<<percent, 0, width>> \o Rep(conv_l, l) \o <<conv>>, <<num>>)
      r == strtol(out, base)
  IN /\ r.endptr = Len(out) + 1
     /\ r.val = IF conv = conv_d THEN num ELSE num % (IF l = 2 THEN UINT * UINT ELSE UINT)
     /\ Len(out) >= width

\* An escape sequence that has no conversion is printed as it stands in the
\* format, whatever flags and widths it begins with.
PrintsUnknown(fmt) == vprintfmt(fmt, <<>>) = fmt

\* A string fills its field: no more characters than the precision allows,
\* blanks on the side the flag says up to the width, and sys_cputs gets all
\* of them in order, in pieces that fit the buffer.  The null pointer is
\* printed as a text of its own.
FillsField(left, width, precision, arg) ==
  LET p == IF arg = NULL THEN null_text ELSE arg
      fmt == (IF left THEN <<percent, minus>> ELSE <<percent>>)
               \o <<width, dot, star, conv_s>>
      n == IF precision >= 0 /\ precision < Len(p) THEN precision ELSE Len(p)
      blanks == Rep(space, width - n)
      calls == vcprintf(fmt, <<precision, arg>>)
  IN /\ FlattenSeq(calls) = IF left THEN SubSeq(p, 1, n) \o blanks ELSE blanks \o SubSeq(p, 1, n)
     /\ \A k \in DOMAIN calls : Len(calls[k]) < BUFSIZE
=============================================================================
