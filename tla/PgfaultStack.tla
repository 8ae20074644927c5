---------------------------- MODULE PgfaultStack ----------------------------
(***************************************************************************)
(* The exception stack of one environment: the frame that                  *)
(* page_fault_handler (kern/trap.c) pushes, and the way _pgfault_upcall    *)
(* (lib/pfentry.S) returns from it, one instruction at a time.  A fault    *)
(* can come from the program, from the C handler, and from the upcall's    *)
(* own write to a trap-time stack that is copy-on-write.                   *)
(*                                                                         *)
(* Addresses count words.  The eight registers of a frame are one word,    *)
(* of which eax and edx are told apart.  Three pages follow each other:    *)
(* the user stack, the unmapped guard page and the exception stack.        *)
(***************************************************************************)
EXTENDS Integers, Sequences, SequencesExt

CONSTANTS
  PGWORDS,     \* words in a page
  UserEsp      \* where the program may have its stack pointer

ASSUME PgfaultAssumption ==
  /\ PGWORDS \in Nat \ {0}
  /\ UserEsp \subseteq 0 .. PGWORDS   \* env_alloc starts it at USTACKTOP

USTACKTOP == PGWORDS
UXBASE == 2 * PGWORDS
UXSTACKTOP == 3 * PGWORDS
UserStack == 0 .. USTACKTOP - 1
XStack == UXBASE .. UXSTACKTOP - 1
Mapped == UserStack \cup XStack

\* struct UTrapframe: fault_va, err, regs, eip, eflags and esp; the offsets
\* of those the upcall uses, and its size.
utf_regs == 2
utf_eip == 3
utf_eflags == 4
utf_esp == 5
FRAME == 6

VARIABLES
  eip, esp, regs, eflags,   \* the processor; eip names a step of the upcall
  mem,                      \* the mapped words
  cow,                      \* the user stack is copy-on-write
  env,                      \* run, or killed by the kernel
  trapped                   \* history: the trap-time states to return to, innermost first

pfvars == <<eip, esp, regs, eflags, mem, cow, env, trapped>>

PfInit ==
  /\ eip = "user" /\ esp \in UserEsp
  /\ regs = [eax |-> "A", edx |-> "D"] /\ eflags = "F"
  /\ mem = [a \in Mapped |-> IF a \in UserStack THEN "U" ELSE "X"]
  /\ cow = FALSE /\ env = "run" /\ trapped = <<>>

\* The words in use of the stack that sp points into.
Live(sp) == IF sp <= USTACKTOP THEN sp .. USTACKTOP - 1 ELSE sp .. UXSTACKTOP - 1

(***************************************************************************)
(* The kernel.                                                             *)
(***************************************************************************)
OnXStack(sp) == UXBASE <= sp /\ sp <= UXSTACKTOP - 1

\* Mutant: a nested fault starts again at the top of the exception stack.
utf_addr_top(sp) == UXSTACKTOP - FRAME

utf_addr(sp) == IF OnXStack(sp) THEN sp - FRAME - 1 ELSE UXSTACKTOP - FRAME

\* Mutant: only the end of the frame is checked.
user_mem_assert_end(a) == (a + FRAME - 1) \in Mapped

user_mem_assert(a) == \A k \in 0 .. FRAME - 1 : (a + k) \in Mapped

\* page_fault_handler, for an environment with an upcall.
page_fault_handler ==
  LET a == utf_addr(esp)
      frame == <<"va", "err", regs, eip, eflags, esp>>
  IN \/ /\ user_mem_assert(a)
        /\ mem' = [w \in Mapped |-> IF w \in a .. a + FRAME - 1 THEN frame[w - a + 1] ELSE mem[w]]
        /\ eip' = "push_esp" /\ esp' = a
        /\ trapped' = <<[eip |-> eip, esp |-> esp, regs |-> regs, eflags |-> eflags,
                         live |-> [w \in Live(esp) |-> mem[w]]]>> \o trapped
        /\ UNCHANGED <<regs, eflags, cow, env>>
     \/ /\ ~user_mem_assert(a)
        /\ env' = "killed"
        /\ UNCHANGED <<eip, esp, regs, eflags, mem, cow, trapped>>

(***************************************************************************)
(* The program and the upcall, one action per instruction.                 *)
(***************************************************************************)
At(e) == env = "run" /\ eip = e

\* Writes v at a and goes on at e with stack pointer sp, or faults.
Store(a, v, e, sp) ==
  \/ /\ a \in Mapped /\ ~(a \in UserStack /\ cow)
     /\ mem' = [mem EXCEPT ![a] = v]
     /\ eip' = e /\ esp' = sp
     /\ UNCHANGED <<regs, eflags, cow, env, trapped>>
  \/ /\ ~(a \in Mapped /\ ~(a \in UserStack /\ cow))
     /\ page_fault_handler

Goto(e, sp) == eip' = e /\ esp' = sp

\* The program faults, or forks and has its stack marked copy-on-write.
user_fault == At("user") /\ page_fault_handler

user_fork ==
  /\ At("user") /\ ~cow
  /\ cow' = TRUE
  /\ UNCHANGED <<eip, esp, regs, eflags, mem, env, trapped>>

push_esp == At("push_esp") /\ Store(esp - 1, esp, "call", esp - 1)

\* The handler's address goes to eax, the return address on the stack.
call ==
  /\ At("call")
  /\ Store(esp - 1, "pop_arg", "handler_entry", esp - 1)

\* The C handler: it pushes a word, may fault itself, clobbers registers
\* and flags, may make the user stack writable, and returns.
handler_entry == At("handler_entry") /\ Store(esp - 1, "local", "handler", esp - 1)

handler_fault == At("handler") /\ page_fault_handler

handler_return ==
  /\ At("handler")
  /\ Goto(mem[esp + 1], esp + 2)
  /\ regs' = [eax |-> "?", edx |-> "?"] /\ eflags' = "?"
  /\ cow' \in {FALSE, cow}
  /\ UNCHANGED <<mem, env, trapped>>

pop_arg ==
  /\ At("pop_arg")
  /\ Goto("load_eip", esp + 1) /\ eflags' = "?"
  /\ UNCHANGED <<regs, mem, cow, env, trapped>>

load_eip ==
  /\ At("load_eip")
  /\ regs' = [regs EXCEPT !.edx = mem[esp + utf_eip]]
  /\ Goto("sub_esp", esp)
  /\ UNCHANGED <<eflags, mem, cow, env, trapped>>

sub_esp ==
  /\ At("sub_esp")
  /\ mem' = [mem EXCEPT ![esp + utf_esp] = @ - 1]
  /\ Goto("load_esp", esp) /\ eflags' = "?"
  /\ UNCHANGED <<regs, cow, env, trapped>>

load_esp ==
  /\ At("load_esp")
  /\ regs' = [regs EXCEPT !.eax = mem[esp + utf_esp]]
  /\ Goto("store_eip", esp)
  /\ UNCHANGED <<eflags, mem, cow, env, trapped>>

store_eip == At("store_eip") /\ Store(regs.eax, regs.edx, "skip", esp)

\* addl $8, %esp; popal; addl $4, %esp; popfl: nothing comes between them.
skip ==
  /\ At("skip")
  /\ regs' = mem[esp + utf_regs]
  /\ Goto("popfl", esp + utf_eip)
  /\ UNCHANGED <<eflags, mem, cow, env, trapped>>

popfl ==
  /\ At("popfl")
  /\ eflags' = mem[esp + 1]
  /\ Goto("pop_esp", esp + 2)
  /\ UNCHANGED <<regs, mem, cow, env, trapped>>

pop_esp ==
  /\ At("pop_esp")
  /\ Goto("ret", mem[esp])
  /\ UNCHANGED <<regs, eflags, mem, cow, env, trapped>>

ret ==
  /\ At("ret")
  /\ Goto(mem[esp], esp + 1)
  /\ trapped' = Tail(trapped)
  /\ UNCHANGED <<regs, eflags, mem, cow, env>>

upcall ==
  \/ push_esp \/ call \/ handler_entry \/ handler_return \/ pop_arg
  \/ load_eip \/ sub_esp \/ load_esp \/ store_eip \/ skip \/ popfl \/ pop_esp \/ ret

PfNext == user_fault \/ user_fork \/ handler_fault \/ upcall

PfSpec == PfInit /\ [][PfNext]_pfvars

-----------------------------------------------------------------------------
\* A return from the upcall restores what the fault interrupted: registers,
\* flags, stack pointer and every word the interrupted code had on its
\* stack, however deep the faults were nested.
ReturnsToTrapState ==
  [][ret => LET t == Head(trapped)
            IN /\ eip' = t.eip /\ esp' = t.esp /\ regs' = t.regs /\ eflags' = t.eflags
               /\ \A w \in DOMAIN t.live : mem'[w] = t.live[w]]_pfvars

\* The kernel never faults on the frame it pushes: every word of it is
\* mapped, and a program whose exception stack overflows is destroyed before
\* anything is written.
FrameIsMapped ==
  [][Len(trapped') > Len(trapped) => esp' .. esp' + FRAME - 1 \subseteq XStack]_pfvars
=============================================================================
