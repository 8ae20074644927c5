------------------------------ MODULE LibString ------------------------------
(***************************************************************************)
(* lib/string.c: the functions that walk over memory, as functions of a    *)
(* memory (addresses to bytes), and strtol.  A byte is a number; 0 ends a  *)
(* string.  WORD is the size of the words the string instructions move.    *)
(***************************************************************************)
EXTENDS Integers, Sequences, FiniteSets, FiniteSetsExt, SequencesExt

CONSTANT WORD

(***************************************************************************)
(* Strings in memory.                                                      *)
(***************************************************************************)
strlen(mem, s) == Min({n \in 0 .. Cardinality(DOMAIN mem) : s + n \in DOMAIN mem /\ mem[s + n] = 0})

strnlen(mem, s, size) ==
  Min({size} \cup {n \in 0 .. size - 1 : mem[s + n] = 0})

\* Mutant: the size counts the characters without the 0.
strlcpy_full(mem, dst, src, size) ==
  IF size = 0 THEN [mem |-> mem, ret |-> 0]
  ELSE LET n == strnlen(mem, src, size)
       IN [mem |-> [a \in DOMAIN mem |-> IF a \in dst .. dst + n - 1 THEN mem[src + (a - dst)]
                                         ELSE IF a = dst + n THEN 0 ELSE mem[a]],
           ret |-> n]

strlcpy(mem, dst, src, size) ==
  IF size = 0 THEN [mem |-> mem, ret |-> 0]
  ELSE LET n == strnlen(mem, src, size - 1)
       IN [mem |-> [a \in DOMAIN mem |-> IF a \in dst .. dst + n - 1 THEN mem[src + (a - dst)]
                                         ELSE IF a = dst + n THEN 0 ELSE mem[a]],
           ret |-> n]

\* The first place, below n, where the strings differ or p ends; n if none.
FirstStop(mem, p, q, n) ==
  Min({n} \cup {k \in 0 .. n - 1 : mem[p + k] = 0 \/ mem[p + k] # mem[q + k]})

strncmp(mem, p, q, n) ==
  LET k == FirstStop(mem, p, q, n) IN IF k = n THEN 0 ELSE mem[p + k] - mem[q + k]

strcmp(mem, p, q) ==
  LET k == FirstStop(mem, p, q, strlen(mem, p) + 1) IN mem[p + k] - mem[q + k]

(***************************************************************************)
(* memmove: rep movs moves units of u bytes, one after the other, from the *)
(* end if the ranges overlap that way.                                     *)
(***************************************************************************)
Unit(mem, d, s, u) ==
  [a \in DOMAIN mem |-> IF a \in d .. d + u - 1 THEN mem[s + (a - d)] ELSE mem[a]]

movs(mem, d, s, n, u, down) ==
  FoldLeft(LAMBDA x, k : Unit(x, d + k * u, s + k * u, u), mem,
           [k \in 1 .. n \div u |-> IF down THEN n \div u - k ELSE k - 1])

\* Mutant: always from the beginning.
memmove_up(mem, d, s, n) ==
  LET u == IF s % WORD = 0 /\ d % WORD = 0 /\ n % WORD = 0 THEN WORD ELSE 1
  IN movs(mem, d, s, n, u, FALSE)

memmove(mem, d, s, n) ==
  LET down == s < d /\ s + n > d
      u == IF down
           THEN IF (s + n) % WORD = 0 /\ (d + n) % WORD = 0 /\ n % WORD = 0 THEN WORD ELSE 1
           ELSE IF s % WORD = 0 /\ d % WORD = 0 /\ n % WORD = 0 THEN WORD ELSE 1
  IN movs(mem, d, s, n, u, down)

(***************************************************************************)
(* strtol, on a sequence of characters.  A digit or lower case letter is   *)
(* its value as a digit, other characters are negative.  The result does   *)
(* not detect overflow.                                                    *)
(***************************************************************************)
space == -1
tab == -2
plus == -3
minus == -4
letter_x == 33

\* Where the digits of the base end that begin at i.
DigitsEnd(s, i, base) ==
  Min({Len(s) + 1} \cup {k \in i .. Len(s) : s[k] < 0 \/ s[k] >= base})

strtol(s, base0) ==
  LET b == Min({Len(s) + 1} \cup {k \in DOMAIN s : s[k] \notin {space, tab}})
      neg == b <= Len(s) /\ s[b] = minus
      p == IF b <= Len(s) /\ s[b] \in {plus, minus} THEN b + 1 ELSE b
      zero == p <= Len(s) /\ s[p] = 0
      hex == base0 \in {0, 16} /\ zero /\ p < Len(s) /\ s[p + 1] = letter_x
      base == IF hex THEN 16 ELSE IF base0 # 0 THEN base0 ELSE IF zero THEN 8 ELSE 10
      d == IF hex THEN p + 2 ELSE IF base0 = 0 /\ zero THEN p + 1 ELSE p
      e == DigitsEnd(s, d, base)
      val == FoldLeft(LAMBDA v, k : v * base + k, 0, SubSeq(s, d, e - 1))
  IN [val |-> IF neg THEN -val ELSE val, endptr |-> e]

-----------------------------------------------------------------------------
\* memmove copies the source as it was, whichever way the ranges overlap and
\* whether words or bytes are moved, and nothing else changes.
MovesAll(mem, d, s, n) ==
  memmove(mem, d, s, n) =
    [a \in DOMAIN mem |-> IF a \in d .. d + n - 1 THEN mem[s + (a - d)] ELSE mem[a]]

\* strlcpy leaves a string that fits into size bytes, a prefix of the source
\* and all of it if there is room, and writes nothing behind it; strncmp up
\* to what was copied finds the two equal.
CopyFits(mem, dst, src, size) ==
  LET r == strlcpy(mem, dst, src, size)
  IN size > 0 =>
       /\ r.mem[dst + r.ret] = 0 /\ r.ret < size
       /\ \A a \in DOMAIN mem \ (dst .. dst + size - 1) : r.mem[a] = mem[a]
       /\ strncmp(r.mem, dst, src, r.ret) = 0
       /\ (strlen(mem, src) < size => strcmp(r.mem, dst, src) = 0)
=============================================================================
