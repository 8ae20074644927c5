------------------------------- MODULE Console -------------------------------
(***************************************************************************)
(* The console of the kernel monitor: the input ring buffer and the CGA    *)
(* display of kern/console.c and readline of lib/readline.c.  The monitor  *)
(* holds the big kernel lock, and nothing calls kbd_intr or serial_intr    *)
(* from a trap: characters are only taken from the devices by cons_getc,   *)
(* and once by kbd_init.                                                   *)
(*                                                                         *)
(* A character is a printable one or a control one; attributes (csa), the  *)
(* serial and the parallel output are left out.                            *)
(***************************************************************************)
EXTENDS Integers, Sequences, SequencesExt

CONSTANTS
  Printable,    \* characters >= ' ' other than ' ' and DEL
  CONSBUFSIZE, BUFLEN, CRT_ROWS, CRT_COLS

CRT_SIZE == CRT_ROWS * CRT_COLS

ASSUME ConsoleAssumption ==
  /\ CONSBUFSIZE \in Nat \ {0} /\ BUFLEN \in Nat \ {0}
  /\ CRT_ROWS \in Nat \ {0} /\ CRT_COLS \in Nat \ {0}
  /\ Printable \cap {"bs", "del", "nl", "nul", "cr", "tab", "ctl", "space"} = {}

\* What readline may put into the line: everything from the space on, DEL too.
Text == Printable \cup {"space", "del"}
\* What a device can give: also the 0 of a key that makes no character, and a
\* control character that readline ignores (ctl; a tab is one of them).  The
\* end of a line is nl or cr, which readline does not tell apart.
Input == Text \cup {"bs", "nl", "nul", "ctl"}
Output == Text \cup {"bs", "nl", "cr", "tab"}

VARIABLES
  buf, rpos, wpos,   \* cons
  crt_buf, crt_pos,  \* the display
  line,              \* buf[0 .. i-1] of readline, empty before and after it
  mode,              \* readline, or run: a command of the monitor prints
  proc               \* the device in cons_intr's loop, then take; none outside cons_getc

vars == <<buf, rpos, wpos, crt_buf, crt_pos, line, mode, proc>>

\* cga_init with the cursor where the BIOS left it, at the first column;
\* kbd_init is about to empty the keyboard's buffer.
Init ==
  /\ buf = [k \in 0 .. CONSBUFSIZE - 1 |-> "nul"] /\ rpos = 0 /\ wpos = 0
  /\ crt_buf = [k \in 0 .. CRT_SIZE - 1 |-> "space"] /\ crt_pos = 0
  /\ line = <<>>
  /\ mode = "run" /\ proc = "kbd"

(***************************************************************************)
(* Output.                                                                 *)
(***************************************************************************)
Screen(b, p) == [buf |-> b, pos |-> p]
RowStart(p) == p - (p % CRT_COLS)

\* The end of cga_putc: one line up when the cursor is below the last one.
scroll(s) ==
  IF s.pos >= CRT_SIZE
  THEN Screen([k \in 0 .. CRT_SIZE - 1 |->
                 IF k < CRT_SIZE - CRT_COLS THEN s.buf[k + CRT_COLS] ELSE "space"],
              s.pos - CRT_COLS)
  ELSE s

put_char(s, c) == scroll(Screen([s.buf EXCEPT ![s.pos] = c], s.pos + 1))

blank(s) == put_char(s, "space")

\* Mutant: a backspace at the beginning of a row is ignored.
cga_putc_row(s, c) ==
  CASE c = "bs" -> IF s.pos % CRT_COLS > 0
                   THEN Screen([s.buf EXCEPT ![s.pos - 1] = "space"], s.pos - 1) ELSE s
    [] c = "nl" -> scroll(Screen(s.buf, RowStart(s.pos + CRT_COLS)))
    [] c = "cr" -> Screen(s.buf, RowStart(s.pos))
    [] c = "tab" -> blank(blank(blank(blank(blank(s)))))
    [] OTHER -> put_char(s, c)

cga_putc(s, c) ==
  CASE c = "bs" -> IF s.pos > 0
                   THEN Screen([s.buf EXCEPT ![s.pos - 1] = "space"], s.pos - 1) ELSE s
    [] c = "nl" -> scroll(Screen(s.buf, RowStart(s.pos + CRT_COLS)))
    [] c = "cr" -> Screen(s.buf, RowStart(s.pos))
    [] c = "tab" -> blank(blank(blank(blank(blank(s)))))
    [] OTHER -> put_char(s, c)

cputchar(c) ==
  LET s == cga_putc(Screen(crt_buf, crt_pos), c) IN crt_buf' = s.buf /\ crt_pos' = s.pos

(***************************************************************************)
(* Input.                                                                  *)
(***************************************************************************)
\* Mutant: the write position stops at the end instead of wrapping.
cons_intr_stuck(c) ==
  /\ proc \in {"serial", "kbd"}
  /\ \/ c = "nul" /\ UNCHANGED <<buf, wpos>>
     \/ /\ c # "nul"
        /\ buf' = [buf EXCEPT ![wpos] = c]
        /\ wpos' = IF wpos + 1 = CONSBUFSIZE THEN wpos ELSE wpos + 1
  /\ UNCHANGED <<rpos, crt_buf, crt_pos, line, mode, proc>>

\* A round of the loop of cons_intr: the device has c.
cons_intr(c) ==
  /\ proc \in {"serial", "kbd"}
  /\ \/ c = "nul" /\ UNCHANGED <<buf, wpos>>
     \/ /\ c # "nul"
        /\ buf' = [buf EXCEPT ![wpos] = c]
        /\ wpos' = IF wpos + 1 = CONSBUFSIZE THEN 0 ELSE wpos + 1
  /\ UNCHANGED <<rpos, crt_buf, crt_pos, line, mode, proc>>

\* The end of the loop: the device has nothing.  The keyboard comes after
\* the serial port, and is the only one in kbd_init.
cons_intr_end ==
  /\ \/ proc = "serial" /\ proc' = "kbd"
     \/ proc = "kbd" /\ proc' = IF mode = "run" THEN "none" ELSE "take"
  /\ UNCHANGED <<buf, rpos, wpos, crt_buf, crt_pos, line, mode>>

\* The cases of readline for one character, with room for max of them and
\* the end of a line under guard, which hands the line over to the monitor.
\* A DEL in an empty line is text.
Edit(c, max, guard) ==
  \/ /\ c \in {"bs", "del"} /\ line # <<>>
     /\ line' = Front(line) /\ cputchar("bs")
     /\ UNCHANGED mode
  \/ /\ c \in Text /\ ~(c = "del" /\ line # <<>>) /\ Len(line) < max
     /\ line' = Append(line, c) /\ cputchar(c)
     /\ UNCHANGED mode
  \/ /\ c = "nl" /\ guard
     /\ cputchar("nl") /\ mode' = "run"
     /\ line' = <<>>
  \/ /\ \/ c = "ctl"
        \/ c = "bs" /\ line = <<>>
        \/ c \in Text /\ ~(c = "del" /\ line # <<>>) /\ Len(line) >= max
        \/ c = "nl" /\ ~guard
     /\ UNCHANGED <<line, crt_buf, crt_pos, mode>>

\* Mutant: the check of the line's length is off by one.
edit_long(c) == Edit(c, BUFLEN, TRUE)

\* Mutant: only a line that is not empty is returned.
edit_blank(c) == Edit(c, BUFLEN - 1, line # <<>>)

\* What readline does with a character.
edit(c) == Edit(c, BUFLEN - 1, TRUE)

\* The end of cons_getc, with the test of getchar's loop and what readline
\* does with the character; then the devices are polled again.
cons_getc ==
  /\ proc = "take"
  /\ \/ /\ rpos = wpos
        /\ UNCHANGED <<rpos, line, crt_buf, crt_pos, mode>>
     \/ /\ rpos # wpos
        /\ rpos' = IF rpos + 1 = CONSBUFSIZE THEN 0 ELSE rpos + 1
        /\ edit(buf[rpos])
  /\ proc' = IF mode' = "run" THEN "none" ELSE "serial"
  /\ UNCHANGED <<buf, wpos>>

\* The monitor's commands print, and then it calls readline again.
monitor_print(c) ==
  /\ mode = "run" /\ proc = "none"
  /\ cputchar(c)
  /\ UNCHANGED <<buf, rpos, wpos, line, mode, proc>>

readline ==
  /\ mode = "run" /\ proc = "none"
  /\ mode' = "readline" /\ proc' = "serial"
  /\ UNCHANGED <<buf, rpos, wpos, crt_buf, crt_pos, line>>

Next ==
  \/ \E c \in Input : cons_intr(c)
  \/ cons_intr_end \/ cons_getc
  \/ \E c \in Output : monitor_print(c)
  \/ readline

Spec == Init /\ [][Next]_vars

\* The monitor goes on, and no device has a character for ever; nobody has
\* to type.
FairSpec == Spec /\ WF_vars(cons_intr_end) /\ WF_vars(cons_getc) /\ WF_vars(readline)

-----------------------------------------------------------------------------
\* Every variable has its type: the cursor stays on the display and the end
\* of the line, with its 0, in the buffer.
TypeOK ==
  /\ buf \in [0 .. CONSBUFSIZE - 1 -> Input]
  /\ rpos \in 0 .. CONSBUFSIZE - 1 /\ wpos \in 0 .. CONSBUFSIZE - 1
  /\ crt_buf \in [0 .. CRT_SIZE - 1 -> Text]
  /\ crt_pos \in 0 .. CRT_SIZE - 1
  /\ line \in Seq(Text) /\ Len(line) <= BUFLEN - 1
  /\ mode \in {"readline", "run"} /\ proc \in {"serial", "kbd", "take", "none"}

\* The display shows what readline will return: as far as it is still on the
\* screen, the line stands in front of the cursor, through wrapping,
\* scrolling and backspaces over the ends of rows.
ScreenShowsLine ==
  mode = "readline" =>
    \A k \in 1 .. Len(line) :
      k <= crt_pos => crt_buf[crt_pos - k] = line[Len(line) + 1 - k]

\* The characters that wait, from the positions of the ring buffer.
waiting == (wpos - rpos) % CONSBUFSIZE
queue == [k \in 1 .. waiting |-> buf[(rpos + k - 1) % CONSBUFSIZE]]

Chars == Input \ {"nul"}

Queue == INSTANCE InputQueue WITH Size <- CONSBUFSIZE, queue <- queue

\* The ring buffer is a queue: cons_intr puts each character behind what
\* waits, readline gets the oldest, nothing is given twice or out of order,
\* and a buffer that overflows starts again empty; no other step touches it.
InputIsQueued ==
  /\ Queue!Init
  /\ [][\/ \E c \in Chars : cons_intr(c) /\ Queue!Put(c)
        \/ \E c \in Chars : cons_getc /\ Queue!Take(c) /\ edit(c)
        \/ cons_getc /\ Queue!Empty
        \/ /\ cons_intr("nul") \/ cons_intr_end \/ readline \/ \E c \in Output : monitor_print(c)
           /\ UNCHANGED queue]_vars

Ended == \E k \in 1 .. waiting : queue[k] = "nl"

\* A line whose end is in the buffer is returned by readline, whatever else
\* is typed meanwhile, unless the buffer overflows and loses it.
LinesReturn == Ended ~> (mode = "run" \/ ~Ended)
=============================================================================
