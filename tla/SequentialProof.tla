--------------------------- MODULE SequentialProof ---------------------------
(***************************************************************************)
(* Proofs about the parts that one processor runs on its own, for every    *)
(* size of their buffers.  PgfaultStack: a page fault comes back to where  *)
(* it came from, however deep the faults are nested.  Console: the ring    *)
(* buffer is a queue and the display shows the line that readline edits.   *)
(* AddressRanges, LibString: user_mem_check, mmio_map_region and strlcpy   *)
(* keep to their ranges.                                                   *)
(***************************************************************************)
EXTENDS PgfaultStack, Console, AddressRanges, LibString,
        SequenceTheorems, FiniteSetTheorems, WellFoundedInduction, TLAPS

(***************************************************************************)
(* PgfaultStack.                                                           *)
(***************************************************************************)

\* Until sub_esp the frame has the trap-time esp as the kernel saved it.
Early == {"push_esp", "call", "handler_entry", "handler", "pop_arg", "load_eip", "sub_esp"}
Late  == {"load_esp", "store_eip", "skip", "popfl", "pop_esp", "ret"}

\* Where the upcall has its stack pointer, from the address of its frame.
Offsets(t, e, sp) ==
  LET b == utf_addr(t.esp)
  IN /\ e \in {"push_esp", "load_eip", "sub_esp", "load_esp", "store_eip", "skip"} => sp = b
     /\ e \in {"call", "pop_arg"} => sp = b - 1
     /\ e = "handler_entry" => sp = b - 2
     /\ e = "handler" => sp = b - 3
     /\ e = "popfl" => sp = b + utf_eip
     /\ e = "pop_esp" => sp = b + utf_esp
     /\ e = "ret" => sp = t.esp - 1
     /\ e # "ret" => UXBASE <= sp

\* The frame of a trap is on the exception stack, with what the kernel saved.
Saved(t, e, m) ==
  LET b == utf_addr(t.esp)
  IN /\ UXBASE <= b /\ b + FRAME <= UXSTACKTOP
     /\ m[b + utf_regs] = t.regs /\ m[b + utf_eip] = t.eip /\ m[b + utf_eflags] = t.eflags
     /\ e \in Early => m[b + utf_esp] = t.esp
     /\ e \in Late => m[b + utf_esp] = t.esp - 1
     /\ e \in {"handler_entry", "handler"} => m[b - 2] = "pop_arg"

\* What the upcall has restored so far.
Restored(t, e, r, f, m) ==
  /\ e \in {"sub_esp", "load_esp", "store_eip"} => r.edx = t.eip
  /\ e = "store_eip" => r.eax = t.esp - 1
  /\ e \in {"skip", "popfl", "pop_esp", "ret"} => m[t.esp - 1] = t.eip
  /\ e \in {"popfl", "pop_esp", "ret"} => r = t.regs
  /\ e \in {"pop_esp", "ret"} => f = t.eflags

\* The words the interrupted code had on its stack are as it left them.
Intact(t, m) == \A w \in Live(t.esp) : m[w] = t.live[w]

\* The upcall for trap t is at e with stack pointer sp, registers r, flags f.
Level(t, e, sp, r, f, m) ==
  /\ e \in Early \cup Late
  /\ Offsets(t, e, sp) /\ Saved(t, e, m) /\ Restored(t, e, r, f, m) /\ Intact(t, m)

\* The upcall for trap t was itself interrupted, by trap u.
Under(t, u, m) == Level(t, u.eip, u.esp, u.regs, u.eflags, m)

Registers == {"eax", "edx"}

\* The first trap came from the program, each other one from the handler of
\* the one before, or from its write to the program's stack.
Trapped ==
  \A i \in 1 .. Len(trapped) :
    /\ DOMAIN trapped[i].regs = Registers /\ DOMAIN trapped[i].live = Live(trapped[i].esp)
    /\ trapped[i].esp \in Int
    /\ i = Len(trapped) => trapped[i].eip = "user" /\ trapped[i].esp \in UserEsp
    /\ i < Len(trapped) => trapped[i].eip \in {"handler", "store_eip"} /\ OnXStack(trapped[i].esp)

\* The exception stack grows down.
Descending == \A i, j \in 1 .. Len(trapped) - 1 : i < j => trapped[i].esp < trapped[j].esp

\* Every upcall that waits for an inner one to return finds its frame again.
Nested == \A i \in 1 .. Len(trapped) - 1 : Under(trapped[i + 1], trapped[i], mem)

\* The processor is in the program, or in the innermost upcall.
Current ==
  /\ Len(trapped) = 0 => eip = "user" /\ esp \in UserEsp
  /\ Len(trapped) > 0 => Level(trapped[1], eip, esp, regs, eflags, mem)

Shapes ==
  /\ trapped \in Seq({trapped[i] : i \in DOMAIN trapped})
  /\ DOMAIN mem = Mapped /\ DOMAIN regs = Registers

\* The inductive invariant.
PfInv == Shapes /\ Trapped /\ Descending /\ Nested /\ Current

-----------------------------------------------------------------------------
\* A sequence with one more element in front.
LEMMA PushSeq ==
  ASSUME NEW s, s \in Seq({s[i] : i \in DOMAIN s}), NEW t
  PROVE  LET u == <<t>> \o s
         IN /\ u \in Seq({u[i] : i \in DOMAIN u})
            /\ Len(u) = Len(s) + 1 /\ u[1] = t /\ \A i \in 1 .. Len(s) : u[i + 1] = s[i]
<1> DEFINE S == {s[i] : i \in DOMAIN s}
           T == S \cup {t}
           u == <<t>> \o s
<1>1. s \in Seq(T) /\ <<t>> \in Seq(T)
  <2>1. s \in Seq(S) /\ S \subseteq T
    OBVIOUS
  <2> HIDE DEF S, T
  <2> QED BY <2>1 DEF T
<1> HIDE DEF T
<1>2. u \in Seq(T) /\ Len(u) = Len(s) + 1 /\ u[1] = t /\ \A i \in 1 .. Len(s) : u[i + 1] = s[i]
  BY <1>1
<1> HIDE DEF u
<1>3. u \in Seq({u[i] : i \in DOMAIN u})
  BY <1>2
<1> QED BY <1>2, <1>3 DEF u

\* A sequence without its first element.
LEMMA PopSeq ==
  ASSUME NEW s, s \in Seq({s[i] : i \in DOMAIN s}), Len(s) > 0
  PROVE  LET u == Tail(s)
         IN /\ u \in Seq({u[i] : i \in DOMAIN u})
            /\ Len(u) = Len(s) - 1 /\ \A i \in 1 .. Len(s) - 1 : u[i] = s[i + 1]
<1> DEFINE S == {s[i] : i \in DOMAIN s}
           u == Tail(s)
<1> HIDE DEF S
<1>1. u \in Seq(S) /\ Len(u) = Len(s) - 1 /\ \A i \in 1 .. Len(s) - 1 : u[i] = s[i + 1]
  BY DEF S
<1> HIDE DEF u
<1>2. u \in Seq({u[i] : i \in DOMAIN u})
  BY <1>1
<1> QED BY <1>1, <1>2 DEF u

\* The addresses of the three pages.
LEMMA Layout ==
  /\ PGWORDS \in Int /\ PGWORDS > 0
  /\ USTACKTOP = PGWORDS /\ UXBASE = 2 * PGWORDS /\ UXSTACKTOP = 3 * PGWORDS
  /\ \A w \in Int : /\ w \in UserStack <=> 0 <= w /\ w < PGWORDS
                    /\ w \in XStack <=> 2 * PGWORDS <= w /\ w < 3 * PGWORDS
  /\ \A x \in UserEsp : x \in Int /\ 0 <= x /\ x <= PGWORDS /\ ~OnXStack(x)
BY PgfaultAssumption DEF USTACKTOP, UXBASE, UXSTACKTOP, UserStack, XStack, OnXStack

\* An upcall that waits keeps its state as long as nobody writes above its
\* stack pointer, or to the words its trap found in use.
LEMMA UnderKept ==
  ASSUME NEW t, NEW u, NEW m, NEW m2, Under(t, u, m), t.esp \in Int,
         u.eip \in {"handler", "store_eip"},
         \A w \in XStack : w >= u.esp => m2[w] = m[w],
         \A w \in Live(t.esp) : m2[w] = m[w]
  PROVE  Under(t, u, m2)
<1> DEFINE b == utf_addr(t.esp)
<1>1. b \in Int
  BY Layout DEF utf_addr, FRAME
<1> HIDE DEF b
<1>2. Offsets(t, u.eip, u.esp) /\ Saved(t, u.eip, m) /\ Restored(t, u.eip, u.regs, u.eflags, m)
  BY DEF Under, Level
<1>3. /\ u.eip = "handler" => u.esp = b - 3
      /\ u.eip = "store_eip" => u.esp = b
      /\ UXBASE <= u.esp
  BY <1>2 DEF Offsets, b
<1>4. /\ UXBASE <= b /\ b + FRAME <= UXSTACKTOP
      /\ \A k \in 0 .. FRAME - 1 : m2[b + k] = m[b + k]
      /\ u.eip = "handler" => m2[b - 2] = m[b - 2]
  <2>1. UXBASE <= b /\ b + FRAME <= UXSTACKTOP
    BY <1>2 DEF Saved, b
  <2>2. \A k \in 0 .. FRAME - 1 : b + k \in XStack /\ b + k >= u.esp
    BY <1>1, <1>3, <2>1, Layout DEF FRAME
  <2>3. u.eip = "handler" => b - 2 \in XStack /\ b - 2 >= u.esp
    BY <1>1, <1>3, <2>1, Layout DEF FRAME
  <2> QED BY <2>1, <2>2, <2>3
<1>5. Saved(t, u.eip, m2)
  <2>1. /\ m2[b + utf_regs] = m[b + utf_regs] /\ m2[b + utf_eip] = m[b + utf_eip]
        /\ m2[b + utf_eflags] = m[b + utf_eflags] /\ m2[b + utf_esp] = m[b + utf_esp]
    BY <1>4 DEF FRAME, utf_regs, utf_eip, utf_eflags, utf_esp
  <2> QED BY <1>2, <1>4, <2>1 DEF Saved, b
<1>6. Restored(t, u.eip, u.regs, u.eflags, m2)
  BY <1>2 DEF Restored
<1>7. Intact(t, m2)
  BY DEF Under, Level, Intact
<1> QED BY <1>2, <1>5, <1>6, <1>7 DEF Under, Level

\* What the code under a trap has on its stack is in the user stack, or on
\* the exception stack above its stack pointer.
LEMMA LiveWords ==
  ASSUME NEW x, x \in UserEsp \/ (x \in Int /\ OnXStack(x))
  PROVE  \A w \in Live(x) : /\ w \in Int /\ w >= x
                            /\ x \in UserEsp => w \in UserStack
                            /\ OnXStack(x) => w \in XStack
BY Layout DEF Live, OnXStack

\* Upcalls that wait are not disturbed by writes below the innermost trap.
LEMMA OuterKept ==
  ASSUME PfInv, NEW m2,
         Len(trapped) > 1 =>
           /\ \A w \in XStack : w >= trapped[1].esp => m2[w] = mem[w]
           /\ \A w \in UserStack : m2[w] = mem[w],
         NEW i \in 1 .. Len(trapped) - 1
  PROVE  Under(trapped[i + 1], trapped[i], m2)
<1> DEFINE t == trapped[i + 1]
           u == trapped[i]
<1>1. Len(trapped) \in Nat /\ Len(trapped) > 1 /\ i \in 1 .. Len(trapped) /\ i + 1 \in 1 .. Len(trapped)
  BY DEF PfInv, Shapes
<1>2. /\ t.esp \in Int /\ u.esp \in Int /\ trapped[1].esp \in Int
      /\ u.eip \in {"handler", "store_eip"}
      /\ t.esp \in UserEsp \/ OnXStack(t.esp)
  BY <1>1 DEF PfInv, Trapped
<1>3. u.esp >= trapped[1].esp
  <2>1. CASE i = 1
    BY <1>2, <2>1
  <2>2. CASE i # 1
    BY <1>1, <1>2, <2>2 DEF PfInv, Descending
  <2> QED BY <2>1, <2>2
<1>4. OnXStack(t.esp) => t.esp > u.esp
  <2>1. CASE i + 1 = Len(trapped)
    BY <1>1, <2>1, Layout DEF PfInv, Trapped
  <2>2. CASE i + 1 # Len(trapped)
    BY <1>1, <2>2 DEF PfInv, Descending
  <2> QED BY <2>1, <2>2
<1>5. Under(t, u, mem)
  BY DEF PfInv, Nested
<1> HIDE DEF t, u
<1>6. \A w \in Live(t.esp) : m2[w] = mem[w]
  BY <1>1, <1>2, <1>3, <1>4, LiveWords
<1>7. \A w \in XStack : w >= u.esp => m2[w] = mem[w]
  BY <1>1, <1>2, <1>3, Layout DEF XStack
<1>8. Under(t, u, m2)
  BY <1>2, <1>5, <1>6, <1>7, UnderKept
<1> QED BY <1>8 DEF t, u

\* A step of the innermost upcall keeps the invariant if the upcall comes to
\* its next place and the others are left alone.
LEMMA StepKept ==
  ASSUME PfInv, trapped' = trapped, Len(trapped) > 0,
         DOMAIN mem' = Mapped, DOMAIN regs' = Registers,
         Len(trapped) > 1 =>
           /\ \A w \in XStack : w >= trapped[1].esp => mem'[w] = mem[w]
           /\ \A w \in UserStack : mem'[w] = mem[w],
         Level(trapped[1], eip', esp', regs', eflags', mem')
  PROVE  PfInv'
<1>1. Nested'
  BY OuterKept DEF Nested
<1>2. Current'
  BY DEF Current, PfInv, Shapes
<1>3. Shapes' /\ Trapped' /\ Descending'
  BY DEF PfInv, Shapes, Trapped, Descending
<1> QED BY <1>1, <1>2, <1>3 DEF PfInv

\* The innermost upcall: its frame, and where its trap came from.
LEMMA InUpcall ==
  ASSUME PfInv, eip # "user", NEW b, b = utf_addr(trapped[1].esp)
  PROVE  /\ Len(trapped) \in Nat /\ Len(trapped) > 0
         /\ Level(trapped[1], eip, esp, regs, eflags, mem)
         /\ trapped[1].esp \in Int /\ b \in Int
         /\ UXBASE <= b /\ b + FRAME <= UXSTACKTOP
         /\ trapped[1].esp \in UserEsp \/ OnXStack(trapped[1].esp)
         /\ OnXStack(trapped[1].esp) => b = trapped[1].esp - FRAME - 1
         /\ Len(trapped) > 1 => OnXStack(trapped[1].esp)
         /\ DOMAIN trapped[1].regs = Registers
         /\ eip # "ret" => OnXStack(esp) /\ esp \in Int
<1>1. Len(trapped) \in Nat /\ Len(trapped) > 0 /\ Level(trapped[1], eip, esp, regs, eflags, mem)
  BY DEF PfInv, Shapes, Current
<1>2. /\ trapped[1].esp \in Int /\ DOMAIN trapped[1].regs = Registers
      /\ trapped[1].esp \in UserEsp \/ OnXStack(trapped[1].esp)
      /\ Len(trapped) > 1 => OnXStack(trapped[1].esp)
  BY <1>1 DEF PfInv, Trapped
<1>3. /\ b \in Int /\ UXBASE <= b /\ b + FRAME <= UXSTACKTOP
      /\ OnXStack(trapped[1].esp) => b = trapped[1].esp - FRAME - 1
  BY <1>1, <1>2, Layout DEF Level, Saved, utf_addr, FRAME
<1>4. eip # "ret" => OnXStack(esp) /\ esp \in Int
  BY <1>1, <1>3, Layout
     DEF Level, Offsets, Early, Late, OnXStack, FRAME, utf_eip, utf_esp
<1> QED BY <1>1, <1>2, <1>3, <1>4

\* A word of the innermost upcall's own part of the exception stack is
\* written: neither the other upcalls nor the interrupted code see it.
LEMMA OwnWord ==
  ASSUME PfInv, eip # "user", NEW a \in XStack, NEW v,
         a <= utf_addr(trapped[1].esp) + FRAME, mem' = [mem EXCEPT ![a] = v]
  PROVE  /\ DOMAIN mem' = Mapped /\ mem'[a] = v /\ \A w \in Mapped : w # a => mem'[w] = mem[w]
         /\ Len(trapped) > 1 =>
              /\ \A w \in XStack : w >= trapped[1].esp => mem'[w] = mem[w]
              /\ \A w \in UserStack : mem'[w] = mem[w]
         /\ Intact(trapped[1], mem')
<1> DEFINE b == utf_addr(trapped[1].esp)
<1>1. /\ Intact(trapped[1], mem) /\ trapped[1].esp \in Int /\ b \in Int
      /\ trapped[1].esp \in UserEsp \/ OnXStack(trapped[1].esp)
      /\ OnXStack(trapped[1].esp) => b = trapped[1].esp - FRAME - 1
      /\ Len(trapped) > 1 => OnXStack(trapped[1].esp)
  BY InUpcall DEF Level
<1> HIDE DEF b
<1>2. a \in Int /\ a \notin UserStack /\ a \in Mapped
  BY Layout DEF XStack, Mapped
<1>3. DOMAIN mem' = Mapped /\ mem'[a] = v /\ \A w \in Mapped : w # a => mem'[w] = mem[w]
  BY <1>2 DEF PfInv, Shapes
<1>4. OnXStack(trapped[1].esp) => a < trapped[1].esp
  BY <1>1, <1>2 DEF b, FRAME
<1>5. a \notin Live(trapped[1].esp)
  BY <1>1, <1>2, <1>4, LiveWords
<1>6. Intact(trapped[1], mem')
  BY <1>1, <1>3, <1>5 DEF Intact
<1>7. Len(trapped) > 1 =>
        /\ \A w \in XStack : w >= trapped[1].esp => mem'[w] = mem[w]
        /\ \A w \in UserStack : mem'[w] = mem[w]
  BY <1>1, <1>2, <1>3, <1>4
<1> QED BY <1>3, <1>6, <1>7

\* The steps of the upcall that write nothing.
LEMMA QuietStep ==
  ASSUME PfInv, eip # "user", UNCHANGED <<mem, trapped>>, DOMAIN regs' = Registers,
         Level(trapped[1], eip', esp', regs', eflags', mem)
  PROVE  PfInv'
<1>1. Len(trapped) > 0
  BY InUpcall
<1>2. DOMAIN mem' = Mapped
  BY DEF PfInv, Shapes
<1> QED BY <1>1, <1>2, StepKept

LEMMA Quiet ==
  ASSUME PfInv,
         handler_return \/ pop_arg \/ load_eip \/ load_esp \/ skip \/ popfl \/ pop_esp
  PROVE  PfInv'
<1> DEFINE t == trapped[1]
           b == utf_addr(t.esp)
<1>1. eip \in {"handler", "pop_arg", "load_eip", "load_esp", "skip", "popfl", "pop_esp"}
  BY DEF handler_return, pop_arg, load_eip, load_esp, skip, popfl, pop_esp, At
<1>2. /\ Level(t, eip, esp, regs, eflags, mem) /\ t.esp \in Int /\ b \in Int
      /\ DOMAIN t.regs = Registers /\ DOMAIN regs = Registers /\ UXBASE <= b
      /\ b + FRAME <= UXSTACKTOP
  BY <1>1, InUpcall DEF PfInv, Shapes
<1>3. UXBASE <= esp
  BY <1>1, <1>2 DEF Level, Offsets
<1>4. UNCHANGED <<mem, trapped>>
  BY DEF handler_return, pop_arg, load_eip, load_esp, skip, popfl, pop_esp
<1> SUFFICES Level(t, eip', esp', regs', eflags', mem) /\ DOMAIN regs' = Registers
  BY <1>1, <1>4, QuietStep
<1> HIDE DEF t, b
<1>5. CASE handler_return
  <2>1. /\ eip = "handler" /\ eip' = mem[esp + 1] /\ esp' = esp + 2
        /\ DOMAIN regs' = Registers
    BY <1>5 DEF handler_return, At, Goto, Registers
  <2>2. esp = b - 3 /\ mem[b - 2] = "pop_arg"
    BY <1>2, <2>1 DEF Level, Offsets, Saved, b
  <2>3. eip' = "pop_arg" /\ esp' = b - 1
    BY <1>2, <2>1, <2>2
  <2> QED
    BY <1>2, <1>3, <2>1, <2>2, <2>3, Layout DEF Level, Offsets, Saved, Restored, Early, Late, b
<1>6. CASE pop_arg
  BY <1>2, <1>3, <1>6, Layout
     DEF pop_arg, At, Goto, Level, Offsets, Saved, Restored, Early, Late, b
<1>7. CASE load_eip
  BY <1>2, <1>3, <1>7, Layout
     DEF load_eip, At, Goto, Level, Offsets, Saved, Restored, Early, Late, b, Registers
<1>8. CASE load_esp
  BY <1>2, <1>3, <1>8, Layout
     DEF load_esp, At, Goto, Level, Offsets, Saved, Restored, Early, Late, b, Registers
<1>9. CASE skip
  BY <1>2, <1>3, <1>9, Layout
     DEF skip, At, Goto, Level, Offsets, Saved, Restored, Early, Late, b, utf_eip, utf_regs
<1>10. CASE popfl
  BY <1>2, <1>3, <1>10, Layout
     DEF popfl, At, Goto, Level, Offsets, Saved, Restored, Early, Late, b, utf_eip, utf_eflags, utf_esp
<1>11. CASE pop_esp
  BY <1>2, <1>3, <1>11, Layout
     DEF pop_esp, At, Goto, Level, Offsets, Saved, Restored, Early, Late, b, utf_esp
<1> QED BY <1>5, <1>6, <1>7, <1>8, <1>9, <1>10, <1>11

\* The kernel destroys the program: nothing else changes.
LEMMA Killed ==
  ASSUME PfInv, UNCHANGED <<eip, esp, regs, eflags, mem, cow, trapped>>
  PROVE  PfInv'
<1>1. Shapes' /\ Trapped' /\ Descending'
  BY DEF PfInv, Shapes, Trapped, Descending
<1>2. Nested' /\ Current'
  BY DEF PfInv, Nested, Current
<1> QED BY <1>1, <1>2 DEF PfInv

\* The upcall's pushes: a push that leaves the page is the end of the
\* program, the guard page has no room for a frame.
LEMMA Push ==
  ASSUME PfInv, push_esp \/ call \/ handler_entry
  PROVE  PfInv' /\ UNCHANGED trapped
<1> DEFINE t == trapped[1]
           b == utf_addr(t.esp)
           a == esp - 1
<1>1. eip \in {"push_esp", "call", "handler_entry"}
  BY DEF push_esp, call, handler_entry, At
<1>2. /\ Level(t, eip, esp, regs, eflags, mem) /\ t.esp \in Int /\ b \in Int
      /\ UXBASE <= b /\ b + FRAME <= UXSTACKTOP
      /\ OnXStack(esp) /\ esp \in Int /\ Len(trapped) > 0
  BY <1>1, InUpcall
<1>3. /\ esp <= b
      /\ eip = "push_esp" => esp = b
      /\ eip = "call" => esp = b - 1
      /\ eip = "handler_entry" => esp = b - 2 /\ mem[b - 2] = "pop_arg"
  BY <1>1, <1>2 DEF Level, Offsets, Saved
<1>4. PICK v, e : /\ Store(a, v, e, a)
                  /\ \/ eip = "push_esp" /\ e = "call"
                     \/ eip = "call" /\ e = "handler_entry" /\ v = "pop_arg"
                     \/ eip = "handler_entry" /\ e = "handler"
  BY DEF push_esp, call, handler_entry, At
<1>5. a \in Mapped => a \in XStack /\ a >= UXBASE
  BY <1>2, Layout DEF Mapped, OnXStack
<1> HIDE DEF t, b
<1>6. CASE a \in XStack /\ mem' = [mem EXCEPT ![a] = v] /\ eip' = e /\ esp' = a
           /\ UNCHANGED <<regs, eflags, cow, env, trapped>>
  <2>1. a <= b + FRAME
    BY <1>1, <1>2, <1>3 DEF FRAME
  <2>2. /\ DOMAIN mem' = Mapped /\ mem'[a] = v /\ \A w \in Mapped : w # a => mem'[w] = mem[w]
        /\ Len(trapped) > 1 =>
             /\ \A w \in XStack : w >= trapped[1].esp => mem'[w] = mem[w]
             /\ \A w \in UserStack : mem'[w] = mem[w]
        /\ Intact(t, mem')
    BY <1>1, <1>6, <2>1, OwnWord DEF t, b
  <2>3. UXBASE <= a
    BY <1>2, <1>6, Layout
  <2>4. /\ \A k \in 0 .. FRAME - 1 : mem'[b + k] = mem[b + k]
        /\ eip = "handler_entry" => mem'[b - 2] = "pop_arg"
    <3>1. /\ \A k \in 0 .. FRAME - 1 : b + k \in Mapped /\ b + k # a
          /\ eip = "handler_entry" => b - 2 \in Mapped /\ b - 2 # a
      BY <1>1, <1>2, <1>3, Layout DEF Mapped, FRAME, OnXStack
    <3> QED BY <1>3, <2>2, <3>1
  <2>5. /\ mem'[b + utf_regs] = mem[b + utf_regs] /\ mem'[b + utf_eip] = mem[b + utf_eip]
        /\ mem'[b + utf_eflags] = mem[b + utf_eflags] /\ mem'[b + utf_esp] = mem[b + utf_esp]
    BY <2>4 DEF FRAME, utf_regs, utf_eip, utf_eflags, utf_esp
  <2>6. Saved(t, e, mem')
    <3>1. eip = "call" => mem'[b - 2] = "pop_arg"
      BY <1>2, <1>3, <1>4, <2>2
    <3> QED BY <1>2, <1>4, <2>4, <2>5, <3>1 DEF Level, Saved, Early, Late, b
  <2>7. Offsets(t, e, a) /\ Restored(t, e, regs, eflags, mem')
    BY <1>2, <1>3, <1>4, <2>3 DEF Offsets, Restored, b
  <2>8. Level(trapped[1], eip', esp', regs', eflags', mem')
    BY <1>4, <1>6, <2>2, <2>6, <2>7 DEF Level, Early, t
  <2>9. DOMAIN regs' = Registers
    BY <1>6 DEF PfInv, Shapes
  <2> QED BY <1>2, <1>6, <2>2, <2>8, <2>9, StepKept DEF t
<1>7. CASE a \notin XStack /\ page_fault_handler
  <2>1. esp = UXBASE
    BY <1>2, <1>7, Layout DEF OnXStack
  <2>2. ~user_mem_assert(utf_addr(esp))
    <3>1. \/ utf_addr(esp) + (FRAME - 1) \notin Mapped /\ FRAME - 1 \in 0 .. FRAME - 1
          \/ utf_addr(esp) + 0 \notin Mapped /\ 0 \in 0 .. FRAME - 1
      BY <1>2, <2>1, Layout DEF utf_addr, FRAME, Mapped
    <3> QED BY <3>1 DEF user_mem_assert
  <2>3. UNCHANGED <<eip, esp, regs, eflags, mem, cow, trapped>>
    BY <1>7, <2>2 DEF page_fault_handler
  <2> QED BY <2>3, Killed
<1>8. a \in Mapped => ~(a \in UserStack)
  BY <1>2, <1>5, Layout
<1> QED BY <1>4, <1>5, <1>6, <1>7, <1>8 DEF Store, Mapped

\* The frame the kernel writes: six words on the exception stack, below
\* everything the interrupted code has on its stack.
LEMMA FrameWords ==
  ASSUME esp \in UserEsp \/ (OnXStack(esp) /\ esp \in Int), DOMAIN mem = Mapped,
         user_mem_assert(utf_addr(esp)), page_fault_handler,
         NEW a, a = utf_addr(esp)
  PROVE  /\ a \in Int /\ UXBASE <= a /\ a + FRAME <= UXSTACKTOP /\ (OnXStack(esp) => a + FRAME < esp)
         /\ DOMAIN mem' = Mapped
         /\ mem'[a + utf_regs] = regs /\ mem'[a + utf_eip] = eip
         /\ mem'[a + utf_eflags] = eflags /\ mem'[a + utf_esp] = esp
         /\ \A w \in XStack : OnXStack(esp) /\ w >= esp => mem'[w] = mem[w]
         /\ \A w \in UserStack : mem'[w] = mem[w]
<1>1. /\ a \in Int
      /\ ~OnXStack(esp) => a = UXSTACKTOP - FRAME
      /\ OnXStack(esp) => a = esp - FRAME - 1 /\ esp < UXSTACKTOP /\ UXBASE <= esp /\ esp \in Int
  BY Layout DEF utf_addr, OnXStack, FRAME
<1>2. UXBASE <= a
  <2> SUFFICES ASSUME a < UXBASE PROVE FALSE
    BY <1>1, Layout
  <2>1. \A k \in 0 .. FRAME - 1 : a + k \in UserStack \/ a + k \in XStack
    BY DEF user_mem_assert, Mapped
  <2>2. CASE UXBASE - 1 - a \in 0 .. FRAME - 1
    <3>1. a + (UXBASE - 1 - a) = UXBASE - 1
      BY <1>1, Layout
    <3>2. UXBASE - 1 \in UserStack \/ UXBASE - 1 \in XStack
      BY <2>1, <2>2, <3>1
    <3> QED BY <3>2, Layout
  <2>3. CASE UXBASE - 1 - a \notin 0 .. FRAME - 1
    <3>1. esp = UXBASE /\ a = UXBASE - FRAME - 1
      BY <1>1, <2>3, Layout DEF FRAME
    <3>2. a + 0 \in UserStack /\ a + (FRAME - 1) \in UserStack
      BY <2>1, <3>1, Layout DEF FRAME
    <3> QED BY <1>1, <3>1, <3>2, Layout DEF FRAME
  <2> QED BY <2>2, <2>3
<1>3. a + FRAME <= UXSTACKTOP /\ (OnXStack(esp) => a + FRAME < esp)
  BY <1>1, Layout DEF FRAME
<1>4. \A k \in 0 .. FRAME - 1 : a + k \in Mapped
  BY DEF user_mem_assert
<1>5. DOMAIN mem' = Mapped /\ \A w \in Mapped : w \notin a .. a + FRAME - 1 => mem'[w] = mem[w]
  BY DEF page_fault_handler
<1>6. /\ mem'[a + utf_regs] = regs /\ mem'[a + utf_eip] = eip
      /\ mem'[a + utf_eflags] = eflags /\ mem'[a + utf_esp] = esp
  <2>1. /\ a + 2 \in Mapped /\ a + 3 \in Mapped /\ a + 4 \in Mapped /\ a + 5 \in Mapped
        /\ a + 2 \in a .. a + 5 /\ a + 3 \in a .. a + 5 /\ a + 4 \in a .. a + 5 /\ a + 5 \in a .. a + 5
        /\ ((a + 2) - a) + 1 = 3 /\ ((a + 3) - a) + 1 = 4 /\ ((a + 4) - a) + 1 = 5 /\ ((a + 5) - a) + 1 = 6
    BY <1>1, <1>4 DEF FRAME
  <2> DEFINE frame == <<"va", "err", regs, eip, eflags, esp>>
  <2>2. mem' = [w \in Mapped |-> IF w \in a .. a + FRAME - 1 THEN frame[w - a + 1] ELSE mem[w]]
    BY DEF page_fault_handler
  <2>3. frame[3] = regs /\ frame[4] = eip /\ frame[5] = eflags /\ frame[6] = esp
    OBVIOUS
  <2> HIDE DEF frame
  <2>4. a + FRAME - 1 = a + 5
    BY <1>1 DEF FRAME
  <2>5. /\ mem'[a + 2] = frame[((a + 2) - a) + 1] /\ mem'[a + 3] = frame[((a + 3) - a) + 1]
        /\ mem'[a + 4] = frame[((a + 4) - a) + 1] /\ mem'[a + 5] = frame[((a + 5) - a) + 1]
    <3>1. ASSUME NEW w \in Mapped, w \in a .. a + 5 PROVE mem'[w] = frame[w - a + 1]
      BY <2>2, <2>4, <3>1
    <3> QED BY <2>1, <3>1
  <2> QED BY <2>1, <2>3, <2>5 DEF utf_regs, utf_eip, utf_eflags, utf_esp
<1>7. \A w \in XStack : OnXStack(esp) /\ w >= esp => mem'[w] = mem[w]
  BY <1>1, <1>3, <1>5, Layout DEF Mapped, FRAME, XStack
<1>8. \A w \in UserStack : mem'[w] = mem[w]
  BY <1>1, <1>2, <1>5, Layout DEF Mapped, FRAME, UserStack
<1> QED BY <1>1, <1>2, <1>3, <1>5, <1>6, <1>7, <1>8

\* A fault of the program, of the C handler or of the write to the
\* program's stack: another level, or the end of the program.
LEMMA Fault ==
  ASSUME PfInv, page_fault_handler, eip \in {"user", "handler", "store_eip"}
  PROVE  /\ PfInv'
         /\ Len(trapped') > Len(trapped) => esp' .. esp' + FRAME - 1 \subseteq XStack
<1> DEFINE a == utf_addr(esp)
           n == Len(trapped)
           t == trapped[1]
           new == [eip |-> eip, esp |-> esp, regs |-> regs, eflags |-> eflags,
                   live |-> [w \in Live(esp) |-> mem[w]]]
<1>1. CASE ~user_mem_assert(a)
  <2>1. UNCHANGED <<eip, esp, regs, eflags, mem, cow, trapped>>
    BY <1>1 DEF page_fault_handler
  <2> QED BY <2>1, Killed DEF PfInv, Shapes
<1>2. CASE user_mem_assert(a)
  <2>1. /\ n \in Nat
        /\ eip = "user" => n = 0 /\ esp \in UserEsp
        /\ eip # "user" => n > 0 /\ OnXStack(esp) /\ esp \in Int
    <3>1. n \in Nat /\ (eip = "user" => n = 0 /\ esp \in UserEsp)
      BY DEF PfInv, Shapes, Current, Level, Early, Late
    <3> QED BY <3>1, InUpcall
  <2>2. n > 0 => /\ Level(t, eip, esp, regs, eflags, mem) /\ t.esp \in Int
                 /\ t.esp \in UserEsp \/ OnXStack(t.esp)
                 /\ OnXStack(t.esp) => esp < t.esp
    <3>1. n > 0 => /\ Level(t, eip, esp, regs, eflags, mem) /\ t.esp \in Int
                   /\ t.esp \in UserEsp \/ OnXStack(t.esp)
                   /\ utf_addr(t.esp) \in Int
                   /\ OnXStack(t.esp) => utf_addr(t.esp) = t.esp - FRAME - 1
      BY <2>1, InUpcall
    <3>2. n > 0 => esp <= utf_addr(t.esp)
      BY <2>1, <3>1 DEF Level, Offsets
    <3> QED BY <2>1, <3>1, <3>2 DEF FRAME
  <2>3. /\ a \in Int /\ UXBASE <= a /\ a + FRAME <= UXSTACKTOP /\ (OnXStack(esp) => a + FRAME < esp)
        /\ DOMAIN mem' = Mapped
        /\ mem'[a + utf_regs] = regs /\ mem'[a + utf_eip] = eip
        /\ mem'[a + utf_eflags] = eflags /\ mem'[a + utf_esp] = esp
        /\ \A w \in XStack : OnXStack(esp) /\ w >= esp => mem'[w] = mem[w]
        /\ \A w \in UserStack : mem'[w] = mem[w]
    BY <1>2, <2>1, FrameWords DEF PfInv, Shapes
  <2>4. /\ eip' = "push_esp" /\ esp' = a /\ trapped' = <<new>> \o trapped
        /\ UNCHANGED <<regs, eflags>>
    BY <1>2 DEF page_fault_handler
  <2>5. /\ trapped' \in Seq({trapped'[i] : i \in DOMAIN trapped'})
        /\ Len(trapped') = n + 1 /\ trapped'[1] = new /\ \A i \in 1 .. n : trapped'[i + 1] = trapped[i]
    <3>1. trapped \in Seq({trapped[i] : i \in DOMAIN trapped})
      BY DEF PfInv, Shapes
    <3> HIDE DEF new
    <3> DEFINE u == <<new>> \o trapped
    <3>2. /\ u \in Seq({u[i] : i \in DOMAIN u})
          /\ Len(u) = n + 1 /\ u[1] = new /\ \A i \in 1 .. n : u[i + 1] = trapped[i]
      BY <3>1, PushSeq
    <3> QED BY <2>4, <3>2
  <2>6. /\ new.eip = eip /\ new.esp = esp /\ new.regs = regs /\ new.eflags = eflags
        /\ new.live = [w \in Live(esp) |-> mem[w]]
    OBVIOUS
  <2> HIDE DEF a, n, t, new
  <2>7. Shapes'
    BY <2>3, <2>4, <2>5 DEF PfInv, Shapes
  <2>8. Level(new, "push_esp", a, regs, eflags, mem')
    <3>1. Intact(new, mem')
      <4>1. esp \in UserEsp \/ (esp \in Int /\ OnXStack(esp))
        BY <2>1
      <4>2. \A w \in Live(esp) : mem'[w] = mem[w]
        BY <2>1, <2>3, <4>1, LiveWords
      <4> QED BY <2>6, <4>2 DEF Intact
    <3>2. Saved(new, "push_esp", mem')
      BY <2>3, <2>6 DEF Saved, Early, Late, a
    <3>3. Offsets(new, "push_esp", a) /\ Restored(new, "push_esp", regs, eflags, mem')
      BY <2>3, <2>6 DEF Offsets, Restored, a
    <3> QED BY <3>1, <3>2, <3>3 DEF Level, Early
  <2>9. Current'
    BY <2>1, <2>4, <2>5, <2>8 DEF Current
  <2>10. Trapped'
    <3>1. ASSUME NEW i \in 1 .. n + 1
          PROVE  /\ DOMAIN trapped'[i].regs = Registers
                 /\ DOMAIN trapped'[i].live = Live(trapped'[i].esp) /\ trapped'[i].esp \in Int
                 /\ i = n + 1 => trapped'[i].eip = "user" /\ trapped'[i].esp \in UserEsp
                 /\ i < n + 1 => /\ trapped'[i].eip \in {"handler", "store_eip"}
                                 /\ OnXStack(trapped'[i].esp)
      <4>1. CASE i = 1
        BY <2>1, <2>5, <2>6, <4>1, Layout DEF PfInv, Shapes
      <4>2. CASE i # 1
        <5>1. i - 1 \in 1 .. n /\ (i - 1) + 1 = i
          BY <2>1, <4>2
        <5>2. trapped'[i] = trapped[i - 1]
          BY <2>5, <5>1
        <5> QED BY <2>1, <5>1, <5>2 DEF PfInv, Trapped, n
      <4> QED BY <4>1, <4>2
    <3> QED BY <2>5, <3>1 DEF Trapped
  <2>11. Descending'
    <3>1. ASSUME NEW i \in 1 .. n, NEW j \in 1 .. n, i < j
          PROVE  trapped'[i].esp < trapped'[j].esp
      <4>1. j - 1 \in 1 .. n - 1 /\ j - 1 \in 1 .. n /\ (j - 1) + 1 = j
        BY <2>1, <3>1
      <4>2. trapped'[j] = trapped[j - 1]
        BY <2>5, <4>1
      <4>3. CASE i = 1
        <5>1. OnXStack(t.esp) /\ t.esp \in Int
          BY <2>1, <4>1 DEF PfInv, Trapped, n, t
        <5>2. esp < t.esp /\ esp \in Int
          BY <2>1, <2>2, <4>1, <5>1
        <5>3. t.esp <= trapped[j - 1].esp /\ trapped[j - 1].esp \in Int
          <6>1. CASE j - 1 = 1
            BY <5>1, <6>1 DEF t
          <6>2. CASE j - 1 # 1
            BY <2>1, <4>1, <5>1, <6>2 DEF PfInv, Trapped, Descending, n, t
          <6> QED BY <6>1, <6>2
        <5> QED BY <2>5, <2>6, <4>2, <4>3, <5>1, <5>2, <5>3
      <4>4. CASE i # 1
        <5>1. i - 1 \in 1 .. n - 1 /\ i - 1 \in 1 .. n /\ (i - 1) + 1 = i /\ i - 1 < j - 1
          BY <2>1, <3>1, <4>1, <4>4
        <5>2. trapped'[i] = trapped[i - 1]
          BY <2>5, <5>1
        <5> QED BY <4>1, <4>2, <5>1, <5>2 DEF PfInv, Descending, n
      <4> QED BY <4>3, <4>4
    <3> QED BY <2>1, <2>5, <3>1 DEF Descending
  <2>12. Nested'
    <3>1. n > 0 => Under(t, new, mem')
      <4> HAVE n > 0
      <4>1. Under(t, new, mem)
        BY <2>2, <2>6 DEF Under
      <4>2. new.eip \in {"handler", "store_eip"} /\ OnXStack(esp) /\ esp \in Int
        BY <2>1, <2>6
      <4>3. \A w \in XStack : w >= new.esp => mem'[w] = mem[w]
        BY <2>3, <2>6, <4>2
      <4>4. \A w \in Live(t.esp) : mem'[w] = mem[w]
        BY <2>2, <2>3, <4>2, LiveWords
      <4> QED BY <2>2, <4>1, <4>2, <4>3, <4>4, UnderKept
    <3>2. ASSUME NEW i \in 1 .. n - 1
          PROVE  Under(trapped[i + 1], trapped[i], mem')
      <4>1. n > 1 /\ OnXStack(esp) /\ esp \in Int /\ esp < t.esp /\ t.esp \in Int
        BY <2>1, <2>2 DEF PfInv, Trapped, n, t
      <4>2. \A w \in XStack : w >= t.esp => mem'[w] = mem[w]
        BY <2>3, <4>1, Layout DEF XStack
      <4> QED BY <2>3, <4>2, OuterKept DEF n, t
    <3>3. ASSUME NEW i \in 1 .. n
          PROVE  Under(trapped'[i + 1], trapped'[i], mem')
      <4>1. CASE i = 1
        BY <2>1, <2>5, <3>1, <4>1 DEF t
      <4>2. CASE i # 1
        <5>1. i - 1 \in 1 .. n - 1 /\ i - 1 \in 1 .. n /\ (i - 1) + 1 = i
          BY <2>1, <4>2
        <5>2. trapped'[i] = trapped[i - 1] /\ trapped'[i + 1] = trapped[(i - 1) + 1]
          BY <2>5, <5>1
        <5> QED BY <3>2, <5>1, <5>2
      <4> QED BY <4>1, <4>2
    <3> QED BY <2>1, <2>5, <3>3 DEF Nested
  <2>13. a .. a + FRAME - 1 \subseteq XStack
    BY <2>3, Layout DEF FRAME, XStack
  <2> QED BY <2>4, <2>7, <2>9, <2>10, <2>11, <2>12, <2>13 DEF PfInv
<1> QED BY <1>1, <1>2

\* The upcall takes one word off the saved stack pointer, in its frame.
LEMMA SubEsp ==
  ASSUME PfInv, sub_esp
  PROVE  PfInv'
<1> DEFINE t == trapped[1]
           b == utf_addr(t.esp)
           a == b + utf_esp
<1>1. eip = "sub_esp" /\ eip' = "load_esp" /\ UNCHANGED <<esp, regs, trapped>>
      /\ mem' = [mem EXCEPT ![esp + utf_esp] = @ - 1]
  BY DEF sub_esp, At, Goto
<1>2. /\ Level(t, eip, esp, regs, eflags, mem) /\ t.esp \in Int /\ b \in Int
      /\ UXBASE <= b /\ b + FRAME <= UXSTACKTOP /\ Len(trapped) > 0
  BY <1>1, InUpcall
<1>3. esp = b /\ mem[a] = t.esp
  BY <1>1, <1>2 DEF Level, Offsets, Saved, Early
<1>4. a \in XStack /\ a <= b + FRAME /\ mem' = [mem EXCEPT ![a] = mem[a] - 1]
  BY <1>1, <1>2, <1>3, Layout DEF FRAME, utf_esp
<1> HIDE DEF t, b, a
<1>5. /\ DOMAIN mem' = Mapped /\ mem'[a] = mem[a] - 1 /\ \A w \in Mapped : w # a => mem'[w] = mem[w]
      /\ Len(trapped) > 1 =>
           /\ \A w \in XStack : w >= trapped[1].esp => mem'[w] = mem[w]
           /\ \A w \in UserStack : mem'[w] = mem[w]
      /\ Intact(t, mem')
  BY <1>1, <1>4, OwnWord DEF t, b
<1>6. /\ mem'[b + utf_regs] = mem[b + utf_regs] /\ mem'[b + utf_eip] = mem[b + utf_eip]
      /\ mem'[b + utf_eflags] = mem[b + utf_eflags] /\ mem'[b + utf_esp] = t.esp - 1
  <2>1. /\ b + utf_regs \in Mapped /\ b + utf_eip \in Mapped /\ b + utf_eflags \in Mapped
        /\ b + utf_regs # a /\ b + utf_eip # a /\ b + utf_eflags # a
    BY <1>2, Layout DEF Mapped, FRAME, utf_regs, utf_eip, utf_eflags, utf_esp, a
  <2> QED BY <1>3, <1>5, <2>1 DEF a
<1>7. Saved(t, "load_esp", mem')
  BY <1>2, <1>6 DEF Level, Saved, Early, Late, b
<1>8. Offsets(t, "load_esp", esp) /\ Restored(t, "load_esp", regs, eflags', mem')
  BY <1>1, <1>2, <1>3 DEF Level, Offsets, Restored, b
<1>9. Level(trapped[1], eip', esp', regs', eflags', mem')
  BY <1>1, <1>5, <1>7, <1>8 DEF Level, Late, t
<1>10. DOMAIN regs' = Registers
  BY <1>1 DEF PfInv, Shapes
<1> QED BY <1>1, <1>2, <1>5, <1>9, <1>10, StepKept DEF t

\* The trap-time eip goes below the trap-time stack pointer: into the user
\* stack, or into the word the kernel left free above the frame.
LEMMA StoreEip ==
  ASSUME PfInv, store_eip
  PROVE  /\ PfInv'
         /\ Len(trapped') > Len(trapped) => esp' .. esp' + FRAME - 1 \subseteq XStack
<1> DEFINE t == trapped[1]
           b == utf_addr(t.esp)
           a == t.esp - 1
<1>1. eip = "store_eip" /\ Store(regs.eax, regs.edx, "skip", esp)
  BY DEF store_eip, At
<1>2. /\ Level(t, eip, esp, regs, eflags, mem) /\ t.esp \in Int /\ b \in Int
      /\ UXBASE <= b /\ b + FRAME <= UXSTACKTOP /\ Len(trapped) > 0 /\ Len(trapped) \in Nat
      /\ t.esp \in UserEsp \/ OnXStack(t.esp)
      /\ OnXStack(t.esp) => b = t.esp - FRAME - 1
      /\ Len(trapped) > 1 => OnXStack(t.esp)
  BY <1>1, InUpcall
<1>3. esp = b /\ regs.eax = a /\ regs.edx = t.eip
  BY <1>1, <1>2 DEF Level, Offsets, Restored
<1>4. CASE page_fault_handler
  BY <1>1, <1>4, Fault
<1> HIDE DEF t, b, a
<1>5. CASE /\ a \in Mapped /\ mem' = [mem EXCEPT ![a] = t.eip] /\ eip' = "skip" /\ esp' = esp
           /\ UNCHANGED <<regs, eflags, cow, env, trapped>>
  <2>1. a \in Int /\ (a \in XStack \/ a \in UserStack)
    BY <1>2, <1>5 DEF Mapped, a
  <2>2. /\ DOMAIN mem' = Mapped /\ mem'[a] = t.eip /\ \A w \in Mapped : w # a => mem'[w] = mem[w]
        /\ Len(trapped) > 1 =>
             /\ \A w \in XStack : w >= trapped[1].esp => mem'[w] = mem[w]
             /\ \A w \in UserStack : mem'[w] = mem[w]
        /\ Intact(t, mem')
    <3>1. CASE a \in XStack
      <4>1. a <= b + FRAME
        BY <1>2, <3>1, Layout DEF a, FRAME
      <4> QED BY <1>1, <1>5, <3>1, <4>1, OwnWord DEF t, b
    <3>2. CASE a \in UserStack
      <4>1. t.esp \in UserEsp /\ ~OnXStack(t.esp)
        BY <1>2, <2>1, <3>2, Layout DEF a, OnXStack
      <4>2. a \notin Live(t.esp)
        BY <1>2, <4>1, LiveWords DEF a
      <4>3. DOMAIN mem' = Mapped /\ mem'[a] = t.eip /\ \A w \in Mapped : w # a => mem'[w] = mem[w]
        BY <1>5 DEF PfInv, Shapes
      <4>4. \A w \in Live(t.esp) : w \in Mapped /\ w # a
        BY <4>1, <4>2, LiveWords DEF Mapped
      <4>5. Intact(t, mem')
        BY <1>2, <4>3, <4>4 DEF Level, Intact
      <4> QED BY <1>2, <4>1, <4>3, <4>5
    <3> QED BY <2>1, <3>1, <3>2
  <2>3. /\ mem'[b + utf_regs] = mem[b + utf_regs] /\ mem'[b + utf_eip] = mem[b + utf_eip]
        /\ mem'[b + utf_eflags] = mem[b + utf_eflags] /\ mem'[b + utf_esp] = mem[b + utf_esp]
    <3>1. /\ b + utf_regs \in Mapped /\ b + utf_eip \in Mapped
          /\ b + utf_eflags \in Mapped /\ b + utf_esp \in Mapped
      BY <1>2, Layout DEF Mapped, FRAME, utf_regs, utf_eip, utf_eflags, utf_esp
    <3>2. /\ b + utf_regs # a /\ b + utf_eip # a
          /\ b + utf_eflags # a /\ b + utf_esp # a
      BY <1>2, <2>1, Layout DEF FRAME, utf_regs, utf_eip, utf_eflags, utf_esp, a
    <3> QED BY <2>2, <3>1, <3>2
  <2>4. Saved(t, "skip", mem')
    BY <1>1, <1>2, <2>3 DEF Level, Saved, Early, Late, b
  <2>5. Offsets(t, "skip", esp) /\ Restored(t, "skip", regs, eflags, mem')
    BY <1>2, <1>3, <2>2 DEF Level, Offsets, Restored, a, b
  <2>6. Level(trapped[1], eip', esp', regs', eflags', mem')
    BY <1>5, <2>2, <2>4, <2>5 DEF Level, Late, t
  <2>7. DOMAIN regs' = Registers
    BY <1>5 DEF PfInv, Shapes
  <2> QED BY <1>2, <1>5, <2>2, <2>6, <2>7, StepKept DEF t
<1> QED BY <1>1, <1>3, <1>4, <1>5 DEF Store

\* The return: the state is the one of the trap, and the upcall that was
\* interrupted, if any, is the innermost one again.
LEMMA Ret ==
  ASSUME PfInv, ret
  PROVE  /\ PfInv'
         /\ LET t == Head(trapped)
            IN /\ eip' = t.eip /\ esp' = t.esp /\ regs' = t.regs /\ eflags' = t.eflags
               /\ \A w \in DOMAIN t.live : mem'[w] = t.live[w]
<1> DEFINE t == trapped[1]
           n == Len(trapped)
<1>1. /\ eip = "ret" /\ eip' = mem[esp] /\ esp' = esp + 1 /\ trapped' = Tail(trapped)
      /\ UNCHANGED <<regs, eflags, mem>>
  BY DEF ret, At, Goto
<1>2. /\ n \in Nat /\ n > 0 /\ Level(t, eip, esp, regs, eflags, mem) /\ t.esp \in Int
      /\ DOMAIN t.regs = Registers /\ DOMAIN t.live = Live(t.esp)
  <2>1. n \in Nat /\ n > 0 /\ Level(t, eip, esp, regs, eflags, mem)
    BY <1>1, InUpcall
  <2> QED BY <2>1 DEF PfInv, Trapped
<1>3. /\ esp = t.esp - 1 /\ mem[esp] = t.eip /\ regs = t.regs /\ eflags = t.eflags /\ Intact(t, mem)
  BY <1>1, <1>2 DEF Level, Offsets, Restored
<1>4. eip' = t.eip /\ esp' = t.esp /\ regs' = t.regs /\ eflags' = t.eflags
  BY <1>1, <1>2, <1>3
<1>5. t = Head(trapped)
  BY <1>2 DEF PfInv, Shapes
<1>6. /\ trapped' \in Seq({trapped'[i] : i \in DOMAIN trapped'})
      /\ Len(trapped') = n - 1 /\ \A i \in 1 .. n - 1 : trapped'[i] = trapped[i + 1]
  <2> DEFINE u == Tail(trapped)
  <2>1. /\ u \in Seq({u[i] : i \in DOMAIN u})
        /\ Len(u) = n - 1 /\ \A i \in 1 .. n - 1 : u[i] = trapped[i + 1]
    BY <1>2, PopSeq DEF PfInv, Shapes
  <2> QED BY <1>1, <2>1
<1> HIDE DEF t, n
<1>7. Shapes'
  BY <1>1, <1>6 DEF PfInv, Shapes
<1>8. Trapped' /\ Descending'
  <2>1. \A i \in 1 .. n - 1 : i + 1 \in 1 .. n /\ trapped'[i] = trapped[i + 1]
    BY <1>2, <1>6
  <2>2. Trapped'
    <3>1. ASSUME NEW i \in 1 .. n - 1
          PROVE  /\ DOMAIN trapped'[i].regs = Registers
                 /\ DOMAIN trapped'[i].live = Live(trapped'[i].esp) /\ trapped'[i].esp \in Int
                 /\ i = n - 1 => trapped'[i].eip = "user" /\ trapped'[i].esp \in UserEsp
                 /\ i < n - 1 => /\ trapped'[i].eip \in {"handler", "store_eip"}
                                 /\ OnXStack(trapped'[i].esp)
      BY <1>2, <2>1 DEF PfInv, Trapped, n
    <3> QED BY <1>6, <3>1 DEF Trapped
  <2>3. Descending'
    <3>1. ASSUME NEW i \in 1 .. n - 2, NEW j \in 1 .. n - 2, i < j
          PROVE  trapped'[i].esp < trapped'[j].esp
      <4>1. i + 1 \in 1 .. n - 1 /\ j + 1 \in 1 .. n - 1 /\ i + 1 < j + 1
        BY <1>2, <3>1
      <4>2. trapped'[i] = trapped[i + 1] /\ trapped'[j] = trapped[j + 1]
        BY <1>2, <2>1
      <4> QED BY <4>1, <4>2 DEF PfInv, Descending, n
    <3>2. Len(trapped') - 1 = n - 2
      BY <1>2, <1>6
    <3> QED BY <3>1, <3>2 DEF Descending
  <2> QED BY <2>2, <2>3
<1>9. Nested'
  <2>1. ASSUME NEW i \in 1 .. Len(trapped') - 1
        PROVE  Under(trapped'[i + 1], trapped'[i], mem')
    <3>1. i + 1 \in 1 .. n - 1 /\ i \in 1 .. n - 1
      BY <1>2, <1>6
    <3>2. trapped'[i] = trapped[i + 1] /\ trapped'[i + 1] = trapped[(i + 1) + 1]
      BY <1>6, <3>1
    <3> QED BY <1>1, <3>1, <3>2 DEF PfInv, Nested, n
  <2> QED BY <2>1 DEF Nested
<1>10. Current'
  <2>1. CASE n = 1
    <3>1. t.esp \in UserEsp /\ t.eip = "user"
      BY <2>1 DEF PfInv, Trapped, t, n
    <3> QED BY <1>4, <1>6, <2>1, <3>1 DEF Current
  <2>2. CASE n > 1
    <3>1. Under(trapped[1 + 1], t, mem) /\ trapped'[1] = trapped[1 + 1]
      BY <1>2, <1>6, <2>2 DEF PfInv, Nested, n, t
    <3> QED BY <1>1, <1>2, <1>4, <1>6, <2>2, <3>1 DEF Current, Under
  <2> QED BY <1>2, <2>1, <2>2
<1> QED BY <1>1, <1>2, <1>3, <1>4, <1>5, <1>7, <1>8, <1>9, <1>10 DEF PfInv, Intact

\* The program starts with nothing on the exception stack.
LEMMA PfStart == PfInit => PfInv
<1> SUFFICES ASSUME PfInit PROVE PfInv
  OBVIOUS
<1>1. trapped = <<>> /\ Len(trapped) = 0
  BY DEF PfInit
<1>2. Shapes
  BY <1>1 DEF PfInit, Shapes, Registers
<1>3. Trapped /\ Descending /\ Nested
  BY <1>1 DEF Trapped, Descending, Nested
<1>4. Current
  BY <1>1 DEF PfInit, Current
<1> QED BY <1>2, <1>3, <1>4 DEF PfInv

\* Every step keeps the invariant.
LEMMA PfStep == PfInv /\ [PfNext]_pfvars => PfInv'
<1> SUFFICES ASSUME PfInv, [PfNext]_pfvars PROVE PfInv'
  OBVIOUS
<1>1. CASE user_fault
  BY <1>1, Fault DEF user_fault, At
<1>2. CASE user_fork
  <2>1. Shapes' /\ Trapped' /\ Descending'
    BY <1>2 DEF user_fork, PfInv, Shapes, Trapped, Descending
  <2>2. Nested' /\ Current'
    BY <1>2 DEF user_fork, PfInv, Nested, Current
  <2> QED BY <2>1, <2>2 DEF PfInv
<1>3. CASE handler_fault
  BY <1>3, Fault DEF handler_fault, At
<1>4. CASE upcall
  BY <1>4, Push, Quiet, SubEsp, StoreEip, Ret DEF upcall
<1>5. CASE UNCHANGED pfvars
  BY <1>5, Killed DEF pfvars
<1> QED BY <1>1, <1>2, <1>3, <1>4, <1>5 DEF PfNext

\* A return from the upcall of pfentry.S restores what the page fault
\* interrupted, for every depth of nesting and every size of the stacks.
THEOREM FaultsReturn == PfSpec => ReturnsToTrapState
<1>1. PfInv /\ [PfNext]_pfvars =>
        [ret => LET t == Head(trapped)
                IN /\ eip' = t.eip /\ esp' = t.esp /\ regs' = t.regs /\ eflags' = t.eflags
                   /\ \A w \in DOMAIN t.live : mem'[w] = t.live[w]]_pfvars
  BY Ret
<1> QED
  BY <1>1, PfStart, PfStep, PTL DEF PfSpec, ReturnsToTrapState

\* The kernel writes its frame to mapped words of the exception stack, for
\* every depth of nesting and every size of the stacks.
THEOREM FramesStayMapped == PfSpec => FrameIsMapped
<1> DEFINE Pushed == Len(trapped') > Len(trapped) => esp' .. esp' + FRAME - 1 \subseteq XStack
<1>1. ASSUME PfInv, [PfNext]_pfvars PROVE Pushed
  <2>1. Len(trapped) \in Nat
    BY <1>1 DEF PfInv, Shapes
  <2>2. UNCHANGED trapped => Pushed
    BY <2>1
  <2>3. CASE user_fault \/ handler_fault
    BY <1>1, <2>3, Fault DEF user_fault, handler_fault, At
  <2>4. CASE push_esp \/ call \/ handler_entry
    BY <1>1, <2>2, <2>4, Push
  <2>5. CASE store_eip
    BY <1>1, <2>5, StoreEip
  <2>6. CASE ret
    <3>1. trapped' = Tail(trapped) /\ Len(trapped) > 0
      BY <1>1, <2>6, InUpcall DEF ret, At
    <3>2. Len(trapped') = Len(trapped) - 1
      BY <1>1, <3>1, PopSeq DEF PfInv, Shapes
    <3> QED BY <2>1, <3>2
  <2>7. CASE user_fork \/ handler_return \/ pop_arg \/ load_eip \/ sub_esp \/ load_esp
             \/ skip \/ popfl \/ pop_esp \/ UNCHANGED pfvars
    BY <2>2, <2>7 DEF user_fork, handler_return, pop_arg, load_eip, sub_esp, load_esp, skip, popfl,
       pop_esp, pfvars
  <2> QED BY <1>1, <2>3, <2>4, <2>5, <2>6, <2>7 DEF PfNext, upcall
<1>2. PfInv /\ [PfNext]_pfvars => [Pushed]_pfvars
  BY <1>1
<1> QED
  BY <1>2, PfStart, PfStep, PTL DEF PfSpec, FrameIsMapped

(***************************************************************************)
(* Console.                                                                *)
(***************************************************************************)
Cells == [0 .. CRT_SIZE - 1 -> Text]

\* A display with its cursor on it.
OnScreen(s) == s.buf \in Cells /\ s.pos \in 0 .. CRT_SIZE - 1

\* The line l stands in front of the cursor.
Shows(s, l) ==
  \A k \in 1 .. Len(l) : k <= s.pos => s.buf[s.pos - k] = l[Len(l) + 1 - k]

\* readline begins with an empty line, and the devices are polled for it only.
Reading ==
  /\ mode = "run" => line = <<>>
  /\ proc \in {"serial", "take"} => mode = "readline"

\* The inductive invariant.
ConsoleInv == TypeOK /\ Reading /\ ScreenShowsLine

-----------------------------------------------------------------------------
\* The display has at least one row.
LEMMA Sizes ==
  /\ CRT_SIZE \in Nat /\ CRT_COLS \in Nat /\ CRT_COLS > 0 /\ CRT_SIZE >= CRT_COLS
  /\ CONSBUFSIZE \in Nat /\ CONSBUFSIZE > 0 /\ BUFLEN \in Nat /\ BUFLEN > 0
<1>1. ASSUME NEW r \in Nat \ {0}, NEW n \in Nat \ {0} PROVE r * n \in Nat /\ r * n >= n
  OBVIOUS
<1> QED BY <1>1, ConsoleAssumption DEF CRT_SIZE

LEMMA ScreenFields ==
  ASSUME NEW b, NEW p
  PROVE  Screen(b, p).buf = b /\ Screen(b, p).pos = p
BY DEF Screen

\* What the end of cga_putc makes of the display: one row up, if needed.
LEMMA ScrollMoves ==
  ASSUME NEW b \in Cells, NEW p \in 0 .. CRT_SIZE + CRT_COLS - 1,
         NEW s, s = scroll(Screen(b, p))
  PROVE  /\ OnScreen(s)
         /\ p < CRT_SIZE => s.buf = b /\ s.pos = p
         /\ p >= CRT_SIZE =>
              /\ s.pos = p - CRT_COLS
              /\ \A k \in 0 .. CRT_SIZE - CRT_COLS - 1 : s.buf[k] = b[k + CRT_COLS]
<1>1. CASE p < CRT_SIZE
  <2>1. s = Screen(b, p)
    BY <1>1, ScreenFields, Sizes DEF scroll
  <2> QED BY <1>1, <2>1, ScreenFields, Sizes DEF OnScreen
<1>2. CASE p >= CRT_SIZE
  <2> DEFINE up == [k \in 0 .. CRT_SIZE - 1 |->
                      IF k < CRT_SIZE - CRT_COLS THEN b[k + CRT_COLS] ELSE "space"]
  <2>1. s = Screen(up, p - CRT_COLS)
    BY <1>2, ScreenFields DEF scroll
  <2>2. up \in Cells
    <3>1. \A k \in 0 .. CRT_SIZE - 1 : k < CRT_SIZE - CRT_COLS => k + CRT_COLS \in 0 .. CRT_SIZE - 1
      BY Sizes
    <3> QED BY <3>1 DEF Cells, Text
  <2>3. \A k \in 0 .. CRT_SIZE - CRT_COLS - 1 : up[k] = b[k + CRT_COLS]
    BY Sizes
  <2> HIDE DEF up
  <2> QED BY <1>2, <2>1, <2>2, <2>3, ScreenFields, Sizes DEF OnScreen
<1> QED BY <1>1, <1>2, Sizes

\* A character behind the line, on a display that shows the line.
LEMMA PutChar ==
  ASSUME NEW s, OnScreen(s), NEW c \in Text
  PROVE  /\ OnScreen(put_char(s, c))
         /\ \A l \in Seq(Text) : Shows(s, l) => Shows(put_char(s, c), Append(l, c))
<1> DEFINE b == [s.buf EXCEPT ![s.pos] = c]
           u == put_char(s, c)
<1>1. /\ s.pos \in 0 .. CRT_SIZE - 1 /\ s.buf \in Cells /\ b \in Cells
      /\ b[s.pos] = c /\ \A k \in 0 .. CRT_SIZE - 1 : k # s.pos => b[k] = s.buf[k]
  BY DEF OnScreen, Cells
<1>2. u = scroll(Screen(b, s.pos + 1)) /\ s.pos + 1 \in 0 .. CRT_SIZE + CRT_COLS - 1
  BY <1>1, Sizes DEF put_char
<1> HIDE DEF b, u
<1>3. /\ OnScreen(u)
      /\ s.pos + 1 < CRT_SIZE => u.buf = b /\ u.pos = s.pos + 1
      /\ s.pos + 1 >= CRT_SIZE =>
           /\ u.pos = (s.pos + 1) - CRT_COLS
           /\ \A k \in 0 .. CRT_SIZE - CRT_COLS - 1 : u.buf[k] = b[k + CRT_COLS]
  BY <1>1, <1>2, ScrollMoves
<1>4. \A k \in 1 .. u.pos : u.buf[u.pos - k] = b[s.pos + 1 - k] /\ k <= s.pos + 1
  <2>1. CASE s.pos + 1 < CRT_SIZE
    BY <1>1, <1>3, <2>1
  <2>2. CASE s.pos + 1 >= CRT_SIZE
    <3> SUFFICES ASSUME NEW k \in 1 .. u.pos
                 PROVE  u.buf[u.pos - k] = b[s.pos + 1 - k] /\ k <= s.pos + 1
      OBVIOUS
    <3>0. s.pos + 1 = CRT_SIZE /\ u.pos = CRT_SIZE - CRT_COLS /\ u.pos \in Int /\ s.pos \in Int
      BY <1>1, <1>3, <2>2, Sizes
    <3>1. /\ u.pos - k \in 0 .. CRT_SIZE - CRT_COLS - 1
          /\ (u.pos - k) + CRT_COLS = s.pos + 1 - k /\ k <= s.pos + 1
      BY <3>0, Sizes
    <3> QED BY <1>3, <2>2, <3>1
  <2> QED BY <1>1, <2>1, <2>2, Sizes
<1>5. ASSUME NEW l \in Seq(Text), Shows(s, l)
      PROVE  Shows(u, Append(l, c))
  <2> SUFFICES ASSUME NEW k \in 1 .. Len(l) + 1, k <= u.pos
               PROVE  u.buf[u.pos - k] = Append(l, c)[Len(l) + 2 - k]
    BY <1>5 DEF Shows
  <2>1. u.pos \in Nat
    BY <1>3, Sizes DEF OnScreen
  <2>2. u.buf[u.pos - k] = b[s.pos + 1 - k] /\ k <= s.pos + 1
    BY <1>4, <2>1
  <2>3. CASE k = 1
    <3>1. s.pos + 1 - k = s.pos /\ Len(l) + 2 - k = Len(l) + 1
      BY <1>1, <2>3
    <3> QED BY <1>1, <1>5, <2>2, <3>1
  <2>4. CASE k # 1
    <3>1. /\ k - 1 \in 1 .. Len(l) /\ k - 1 <= s.pos /\ s.pos - (k - 1) = s.pos + 1 - k
          /\ s.pos + 1 - k \in 0 .. CRT_SIZE - 1 /\ s.pos + 1 - k # s.pos
          /\ Len(l) + 1 - (k - 1) = Len(l) + 2 - k /\ Len(l) + 2 - k \in 1 .. Len(l)
      BY <1>1, <2>2, <2>4, Sizes
    <3>2. s.buf[s.pos + 1 - k] = l[Len(l) + 2 - k]
      BY <1>5, <3>1 DEF Shows
    <3>3. b[s.pos + 1 - k] = s.buf[s.pos + 1 - k]
      BY <1>1, <3>1
    <3>4. Append(l, c)[Len(l) + 2 - k] = l[Len(l) + 2 - k]
      BY <3>1
    <3> QED BY <2>2, <3>2, <3>3, <3>4
  <2> QED BY <2>3, <2>4
<1> QED BY <1>3, <1>5 DEF u

\* The cases of cga_putc.
LEMMA Cases ==
  ASSUME NEW s
  PROVE  /\ cga_putc(s, "bs") = IF s.pos > 0
                                THEN Screen([s.buf EXCEPT ![s.pos - 1] = "space"], s.pos - 1) ELSE s
         /\ cga_putc(s, "nl") = scroll(Screen(s.buf, RowStart(s.pos + CRT_COLS)))
         /\ cga_putc(s, "cr") = Screen(s.buf, RowStart(s.pos))
         /\ cga_putc(s, "tab") = blank(blank(blank(blank(blank(s)))))
         /\ \A c \in Text : cga_putc(s, c) = put_char(s, c)
<1>1. \A c \in Text : c # "bs" /\ c # "nl" /\ c # "cr" /\ c # "tab"
  BY ConsoleAssumption DEF Text
<1>2. ASSUME NEW c \in Text PROVE cga_putc(s, c) = put_char(s, c)
  <2>1. c # "bs" /\ c # "nl" /\ c # "cr" /\ c # "tab"
    BY <1>1
  <2> QED BY <2>1, Zenon DEF cga_putc
<1>3. cga_putc(s, "bs") = IF s.pos > 0
                          THEN Screen([s.buf EXCEPT ![s.pos - 1] = "space"], s.pos - 1) ELSE s
  BY Zenon DEF cga_putc
<1>4. cga_putc(s, "nl") = scroll(Screen(s.buf, RowStart(s.pos + CRT_COLS)))
  BY Zenon DEF cga_putc
<1>5. cga_putc(s, "cr") = Screen(s.buf, RowStart(s.pos))
  BY Zenon DEF cga_putc
<1>6. cga_putc(s, "tab") = blank(blank(blank(blank(blank(s)))))
  BY Zenon DEF cga_putc
<1> QED BY <1>2, <1>3, <1>4, <1>5, <1>6

\* The beginning of a row.
LEMMA RowStarts ==
  ASSUME NEW p \in Nat
  PROVE  RowStart(p) \in 0 .. p
<1>1. p % CRT_COLS \in 0 .. CRT_COLS - 1 /\ p % CRT_COLS <= p
  BY Sizes
<1> QED BY <1>1, Sizes DEF RowStart

\* The cursor stays on the display, whatever is printed.
LEMMA Putc ==
  ASSUME NEW s, OnScreen(s), NEW c \in Output
  PROVE  OnScreen(cga_putc(s, c))
<1>1. s.buf \in Cells /\ s.pos \in 0 .. CRT_SIZE - 1 /\ "space" \in Text
  BY DEF OnScreen, Text
<1>2. CASE c \in Text
  BY <1>2, Cases, PutChar
<1>3. CASE c = "bs"
  <2>1. CASE s.pos > 0
    <3>1. cga_putc(s, c) = Screen([s.buf EXCEPT ![s.pos - 1] = "space"], s.pos - 1)
      BY <1>3, <2>1, Cases
    <3>2. [s.buf EXCEPT ![s.pos - 1] = "space"] \in Cells
      BY <1>1 DEF Cells
    <3> QED BY <1>1, <2>1, <3>1, <3>2, ScreenFields, Sizes DEF OnScreen
  <2>2. CASE ~(s.pos > 0)
    <3>1. cga_putc(s, c) = s
      BY <1>3, <2>2, Cases
    <3> QED BY <3>1
  <2> QED BY <2>1, <2>2
<1>4. CASE c = "nl"
  <2> DEFINE p == RowStart(s.pos + CRT_COLS)
  <2>1. p \in 0 .. s.pos + CRT_COLS
    BY <1>1, RowStarts, Sizes
  <2> HIDE DEF p
  <2>2. p \in 0 .. CRT_SIZE + CRT_COLS - 1
    BY <1>1, <2>1, Sizes
  <2>3. cga_putc(s, c) = scroll(Screen(s.buf, p))
    BY <1>4, Cases DEF p
  <2> QED BY <1>1, <2>2, <2>3, ScrollMoves
<1>5. CASE c = "cr"
  <2>1. cga_putc(s, c) = Screen(s.buf, RowStart(s.pos))
    BY <1>5, Cases
  <2>2. RowStart(s.pos) \in 0 .. CRT_SIZE - 1
    BY <1>1, RowStarts, Sizes
  <2> QED BY <1>1, <2>1, <2>2, ScreenFields DEF OnScreen
<1>6. CASE c = "tab"
  <2>1. ASSUME NEW u, OnScreen(u) PROVE OnScreen(blank(u))
    BY <1>1, <2>1, PutChar DEF blank
  <2>2. OnScreen(blank(blank(blank(blank(blank(s))))))
    BY <2>1
  <2> QED BY <1>6, <2>2, Cases
<1> QED BY <1>2, <1>3, <1>4, <1>5, <1>6 DEF Output

\* A line without its last character.
LEMMA FrontOf ==
  ASSUME NEW l \in Seq(Text), l # <<>>
  PROVE  /\ Len(l) \in Nat /\ Len(l) > 0 /\ Front(l) \in Seq(Text) /\ Len(Front(l)) = Len(l) - 1
         /\ \A i \in 1 .. Len(l) - 1 : Front(l)[i] = l[i]
<1>1. Len(l) \in Nat /\ Len(l) > 0
  OBVIOUS
<1>2. Front(l) = SubSeq(l, 1, Len(l) - 1)
  BY DEF Front
<1>3. Front(l) \in Seq(Text)
  BY <1>1, <1>2
<1>4. \A i \in 1 .. Len(l) - 1 : Front(l)[i] = l[i]
  BY <1>1, <1>2
<1>5. Len(Front(l)) = Len(l) - 1
  <2>1. Len(SubSeq(l, 1, Len(l) - 1)) = IF 1 <= Len(l) - 1 THEN (Len(l) - 1) - 1 + 1 ELSE 0
    BY <1>1, SubSeqProperties
  <2>2. \A n \in Nat : n > 0 => (IF 1 <= n - 1 THEN (n - 1) - 1 + 1 ELSE 0) = n - 1
    OBVIOUS
  <2> QED BY <1>1, <1>2, <2>1, <2>2
<1> QED BY <1>1, <1>3, <1>4, <1>5

\* A backspace takes the last character of the line off the display.
LEMMA Backspace ==
  ASSUME NEW s, OnScreen(s), NEW l \in Seq(Text), l # <<>>, Shows(s, l)
  PROVE  Shows(cga_putc(s, "bs"), Front(l))
<1> DEFINE u == cga_putc(s, "bs")
<1>1. s.pos \in 0 .. CRT_SIZE - 1 /\ s.buf \in Cells
  BY DEF OnScreen
<1>2. /\ Len(l) \in Nat /\ Len(l) > 0 /\ Front(l) \in Seq(Text) /\ Len(Front(l)) = Len(l) - 1
      /\ \A i \in 1 .. Len(l) - 1 : Front(l)[i] = l[i]
  BY FrontOf
<1>3. CASE s.pos > 0
  <2> DEFINE b == [s.buf EXCEPT ![s.pos - 1] = "space"]
  <2>1. u = Screen(b, s.pos - 1)
    BY <1>3, Cases
  <2>2. \A k \in 0 .. CRT_SIZE - 1 : k # s.pos - 1 => b[k] = s.buf[k]
    BY <1>1 DEF Cells
  <2>3. u.buf = b /\ u.pos = s.pos - 1
    BY <2>1, ScreenFields
  <2> HIDE DEF b, u
  <2> SUFFICES ASSUME NEW k \in 1 .. Len(l) - 1, k <= s.pos - 1
               PROVE  b[(s.pos - 1) - k] = Front(l)[(Len(l) - 1) + 1 - k]
    BY <1>2, <2>3 DEF Shows, u
  <2>4. ASSUME NEW n \in Nat, NEW p \in Nat, k \in 1 .. n - 1, k <= p - 1, p < CRT_SIZE
        PROVE  /\ k + 1 \in 1 .. n /\ k + 1 <= p /\ p - (k + 1) = (p - 1) - k
               /\ n + 1 - (k + 1) = (n - 1) + 1 - k /\ (n - 1) + 1 - k \in 1 .. n - 1
               /\ (p - 1) - k \in 0 .. CRT_SIZE - 1 /\ (p - 1) - k # p - 1
    BY <2>4, Sizes
  <2>6. /\ k + 1 \in 1 .. Len(l) /\ k + 1 <= s.pos /\ s.pos - (k + 1) = (s.pos - 1) - k
        /\ Len(l) + 1 - (k + 1) = (Len(l) - 1) + 1 - k /\ (Len(l) - 1) + 1 - k \in 1 .. Len(l) - 1
        /\ (s.pos - 1) - k \in 0 .. CRT_SIZE - 1 /\ (s.pos - 1) - k # s.pos - 1
    <3>1. s.pos \in Nat /\ s.pos < CRT_SIZE /\ Len(l) \in Nat
      BY <1>1, <1>2, Sizes
    <3> QED BY <2>4, <3>1
  <2>5. s.buf[(s.pos - 1) - k] = l[(Len(l) - 1) + 1 - k]
    BY <2>6 DEF Shows
  <2> QED BY <1>2, <2>2, <2>6, <2>5
<1>4. CASE s.pos = 0
  <2>1. ~(s.pos > 0)
    BY <1>4
  <2>2. u = s
    BY <2>1, Cases
  <2> QED BY <1>2, <1>4, <2>2 DEF Shows
<1> QED BY <1>1, <1>3, <1>4

-----------------------------------------------------------------------------
\* What cputchar does to the display.
LEMMA Cputchar ==
  ASSUME TypeOK, NEW c \in Output, cputchar(c)
  PROVE  /\ OnScreen(Screen(crt_buf, crt_pos))
         /\ crt_buf' \in Cells /\ crt_pos' \in 0 .. CRT_SIZE - 1
         /\ Screen(crt_buf', crt_pos').buf = cga_putc(Screen(crt_buf, crt_pos), c).buf
         /\ Screen(crt_buf', crt_pos').pos = cga_putc(Screen(crt_buf, crt_pos), c).pos
<1>1. OnScreen(Screen(crt_buf, crt_pos))
  BY ScreenFields DEF OnScreen, Cells, TypeOK
<1> DEFINE u == cga_putc(Screen(crt_buf, crt_pos), c)
<1>2. OnScreen(u)
  BY <1>1, Putc
<1>3. crt_buf' = u.buf /\ crt_pos' = u.pos
  BY DEF cputchar
<1> HIDE DEF u
<1>4. u.buf \in Cells /\ u.pos \in 0 .. CRT_SIZE - 1
  BY <1>2 DEF OnScreen
<1> QED BY <1>1, <1>3, <1>4, ScreenFields DEF u

\* ScreenShowsLine in the terms of the lemmas above.
LEMMA ShownLine ==
  ASSUME NEW b, NEW p, NEW l
  PROVE  Shows(Screen(b, p), l) <=>
           \A k \in 1 .. Len(l) : k <= p => b[p - k] = l[Len(l) + 1 - k]
BY ScreenFields DEF Shows

\* The editing of the line keeps the display and the line together.
LEMMA EditKeeps ==
  ASSUME ConsoleInv, mode = "readline", NEW c, edit(c)
  PROVE  /\ crt_buf' \in Cells /\ crt_pos' \in 0 .. CRT_SIZE - 1
         /\ line' \in Seq(Text) /\ Len(line') <= BUFLEN - 1
         /\ mode' \in {"readline", "run"} /\ (mode' = "run" => line' = <<>>)
         /\ ScreenShowsLine'
<1> DEFINE s == Screen(crt_buf, crt_pos)
           t == Screen(crt_buf', crt_pos')
<1>1. /\ line \in Seq(Text) /\ Len(line) \in Nat /\ Len(line) <= BUFLEN - 1
      /\ crt_buf \in Cells /\ crt_pos \in 0 .. CRT_SIZE - 1
  BY DEF ConsoleInv, TypeOK, Cells
<1>2. Shows(s, line)
  BY ShownLine DEF ConsoleInv, ScreenShowsLine
<1>3. ASSUME Shows(t, line') PROVE ScreenShowsLine'
  BY <1>3, ShownLine DEF ScreenShowsLine
<1>4. ASSUME NEW a \in Output, cputchar(a)
      PROVE  /\ OnScreen(s) /\ crt_buf' \in Cells /\ crt_pos' \in 0 .. CRT_SIZE - 1
             /\ \A l \in Seq(Text) : Shows(cga_putc(s, a), l) => Shows(t, l)
  <2>1. /\ OnScreen(s) /\ crt_buf' \in Cells /\ crt_pos' \in 0 .. CRT_SIZE - 1
        /\ t.buf = cga_putc(s, a).buf /\ t.pos = cga_putc(s, a).pos
    BY <1>4, Cputchar DEF ConsoleInv
  <2> HIDE DEF s, t
  <2>2. \A l \in Seq(Text) : Shows(cga_putc(s, a), l) => Shows(t, l)
    BY <2>1 DEF Shows
  <2> QED BY <2>1, <2>2
<1> HIDE DEF s, t
<1>5. CASE /\ c \in {"bs", "del"} /\ line # <<>>
           /\ line' = Front(line) /\ cputchar("bs")
           /\ UNCHANGED mode
  <2>1. /\ OnScreen(s) /\ crt_buf' \in Cells /\ crt_pos' \in 0 .. CRT_SIZE - 1
        /\ \A l \in Seq(Text) : Shows(cga_putc(s, "bs"), l) => Shows(t, l)
    BY <1>4, <1>5 DEF Output
  <2>2. Front(line) \in Seq(Text) /\ Len(Front(line)) = Len(line) - 1
    BY <1>1, <1>5, FrontOf
  <2>3. Shows(cga_putc(s, "bs"), Front(line))
    BY <1>1, <1>2, <1>5, <2>1, Backspace
  <2>4. Shows(t, line')
    BY <1>5, <2>1, <2>2, <2>3
  <2>5. Len(Front(line)) <= BUFLEN - 1
    BY <1>1, <2>2, Sizes
  <2> QED BY <1>3, <1>5, <2>1, <2>2, <2>4, <2>5
<1>6. CASE /\ c \in Text /\ ~(c = "del" /\ line # <<>>) /\ Len(line) < BUFLEN - 1
           /\ line' = Append(line, c) /\ cputchar(c)
           /\ UNCHANGED mode
  <2>1. /\ OnScreen(s) /\ crt_buf' \in Cells /\ crt_pos' \in 0 .. CRT_SIZE - 1
        /\ \A l \in Seq(Text) : Shows(cga_putc(s, c), l) => Shows(t, l)
    BY <1>4, <1>6 DEF Output
  <2>2. Append(line, c) \in Seq(Text) /\ Len(Append(line, c)) = Len(line) + 1
    BY <1>1, <1>6
  <2>3. Shows(cga_putc(s, c), Append(line, c))
    <3>1. cga_putc(s, c) = put_char(s, c)
      BY <1>6, Cases
    <3> QED BY <1>1, <1>2, <1>6, <2>1, <3>1, PutChar
  <2>4. Shows(t, line')
    BY <1>6, <2>1, <2>2, <2>3
  <2>5. Len(Append(line, c)) <= BUFLEN - 1
    BY <1>1, <1>6, <2>2, Sizes
  <2> QED BY <1>3, <1>6, <2>1, <2>2, <2>4, <2>5
<1>7. CASE /\ c = "nl" /\ TRUE
           /\ cputchar("nl") /\ mode' = "run"
           /\ line' = <<>>
  <2>1. crt_buf' \in Cells /\ crt_pos' \in 0 .. CRT_SIZE - 1
    BY <1>4, <1>7 DEF Output
  <2>2. <<>> \in Seq(Text) /\ Len(<<>>) <= BUFLEN - 1
    BY Sizes
  <2>3. ScreenShowsLine'
    BY <1>7 DEF ScreenShowsLine
  <2> QED BY <1>7, <2>1, <2>2, <2>3
<1>8. CASE UNCHANGED <<line, crt_buf, crt_pos, mode>>
  BY <1>1, <1>8 DEF ConsoleInv, ScreenShowsLine
<1> QED BY <1>5, <1>6, <1>7, <1>8 DEF edit, Edit

\* What the ring buffer keeps to.
LEMMA RingTyped ==
  ASSUME NEW p \in 0 .. CONSBUFSIZE - 1
  PROVE  (IF p + 1 = CONSBUFSIZE THEN 0 ELSE p + 1) \in 0 .. CONSBUFSIZE - 1
BY Sizes

LEMMA ConsoleInit == Init => ConsoleInv
<1> SUFFICES ASSUME Init PROVE ConsoleInv
  OBVIOUS
<1>1. TypeOK
  <2>1. 0 \in 0 .. CONSBUFSIZE - 1 /\ 0 \in 0 .. CRT_SIZE - 1
    BY Sizes
  <2>2. line \in Seq(Text) /\ Len(line) <= BUFLEN - 1
    BY Sizes DEF Init
  <2> QED BY <2>1, <2>2 DEF Init, TypeOK, Input, Text
<1>2. Reading /\ ScreenShowsLine
  BY DEF Init, Reading, ScreenShowsLine
<1> QED BY <1>1, <1>2 DEF ConsoleInv

\* The invariant is preserved.
LEMMA ConsoleStep == ConsoleInv /\ [Next]_vars => ConsoleInv'
<1> SUFFICES ASSUME ConsoleInv, [Next]_vars PROVE ConsoleInv'
  OBVIOUS
<1>0. TypeOK /\ Reading /\ ScreenShowsLine
  BY DEF ConsoleInv
<1>1. ASSUME NEW c \in Input, cons_intr(c) PROVE ConsoleInv'
  <2>1. buf' \in [0 .. CONSBUFSIZE - 1 -> Input] /\ wpos' \in 0 .. CONSBUFSIZE - 1
    BY <1>0, <1>1, RingTyped DEF TypeOK, cons_intr
  <2>2. TypeOK'
    BY <1>0, <1>1, <2>1 DEF TypeOK, cons_intr
  <2> QED BY <1>0, <1>1, <2>2 DEF ConsoleInv, Reading, ScreenShowsLine, cons_intr
<1>2. CASE cons_intr_end
  <2>1. TypeOK'
    BY <1>0, <1>2 DEF TypeOK, cons_intr_end
  <2>2. Reading'
    BY <1>0, <1>2 DEF Reading, TypeOK, cons_intr_end
  <2> QED BY <1>0, <1>2, <2>1, <2>2 DEF ConsoleInv, ScreenShowsLine, cons_intr_end
<1>3. CASE cons_getc
  <2>0. mode = "readline"
    BY <1>0, <1>3 DEF cons_getc, Reading
  <2>1. CASE rpos = wpos
    BY <1>0, <1>3, <2>0, <2>1 DEF ConsoleInv, TypeOK, Reading, ScreenShowsLine, cons_getc
  <2>2. CASE rpos # wpos
    <3>1. edit(buf[rpos])
      BY <1>3, <2>2 DEF cons_getc
    <3>2. /\ crt_buf' \in Cells /\ crt_pos' \in 0 .. CRT_SIZE - 1
          /\ line' \in Seq(Text) /\ Len(line') <= BUFLEN - 1
          /\ mode' \in {"readline", "run"} /\ (mode' = "run" => line' = <<>>)
          /\ ScreenShowsLine'
      BY <2>0, <3>1, EditKeeps
    <3>3. rpos' \in 0 .. CONSBUFSIZE - 1 /\ UNCHANGED <<buf, wpos>>
      BY <1>0, <1>3, <2>2, RingTyped DEF TypeOK, cons_getc
    <3>4. proc' = IF mode' = "run" THEN "none" ELSE "serial"
      BY <1>3 DEF cons_getc
    <3>5. TypeOK'
      BY <1>0, <3>2, <3>3, <3>4 DEF TypeOK, Cells
    <3>6. Reading'
      BY <3>2, <3>4 DEF Reading
    <3> QED BY <3>2, <3>5, <3>6 DEF ConsoleInv
  <2> QED BY <2>1, <2>2
<1>4. ASSUME NEW c \in Output, monitor_print(c) PROVE ConsoleInv'
  <2>1. crt_buf' \in Cells /\ crt_pos' \in 0 .. CRT_SIZE - 1
    BY <1>0, <1>4, Cputchar DEF monitor_print
  <2>2. mode = "run" /\ UNCHANGED <<buf, rpos, wpos, line, mode, proc>>
    BY <1>4 DEF monitor_print
  <2> QED BY <1>0, <2>1, <2>2 DEF ConsoleInv, TypeOK, Reading, ScreenShowsLine, Cells
<1>5. CASE readline
  <2>1. line = <<>> /\ line' = <<>>
    BY <1>0, <1>5 DEF readline, Reading
  <2>2. ScreenShowsLine'
    BY <2>1 DEF ScreenShowsLine
  <2>3. TypeOK' /\ Reading'
    BY <1>0, <1>5 DEF TypeOK, Reading, readline
  <2> QED BY <2>2, <2>3 DEF ConsoleInv
<1>6. CASE UNCHANGED vars
  BY <1>0, <1>6 DEF ConsoleInv, TypeOK, Reading, ScreenShowsLine, vars
<1> QED BY <1>1, <1>2, <1>3, <1>4, <1>5, <1>6 DEF Next

\* The invariant holds of every behaviour of the console.
LEMMA ConsoleInvariant == Spec => []ConsoleInv
BY ConsoleInit, ConsoleStep, PTL DEF Spec

\* The cursor never leaves the display, the positions of the ring buffer never
\* leave it, and the line always leaves room for the 0 that ends it, however
\* much is typed and printed.
THEOREM ConsoleTyped == Spec => []TypeOK
<1>1. ConsoleInv => TypeOK
  BY DEF ConsoleInv
<1> QED BY <1>1, ConsoleInvariant, PTL

\* While readline edits a line, the display shows it in front of the cursor,
\* as far as it has not scrolled away: for displays and lines of any size, so
\* also for a line longer than a row or than the whole display.
THEOREM ConsoleShowsLine == Spec => []ScreenShowsLine
<1>1. ConsoleInv => ScreenShowsLine
  BY DEF ConsoleInv
<1> QED BY <1>1, ConsoleInvariant, PTL

-----------------------------------------------------------------------------
\* The ring buffer as a queue: what waits between the positions r and w.
Positions == 0 .. CONSBUFSIZE - 1
Gap(r, w) == IF w >= r THEN w - r ELSE w - r + CONSBUFSIZE
Slot(i) == IF i < CONSBUFSIZE THEN i ELSE i - CONSBUFSIZE
After(p) == IF p + 1 = CONSBUFSIZE THEN 0 ELSE p + 1
Waiting(b, r, w) == [k \in 1 .. Gap(r, w) |-> b[Slot(r + k - 1)]]

\* The remainders of the ring buffer without division.
LEMMA Remainders ==
  /\ \A i \in 0 .. 2 * CONSBUFSIZE - 1 : i % CONSBUFSIZE = Slot(i)
  /\ \A r, w \in Positions : (w - r) % CONSBUFSIZE = Gap(r, w) /\ Gap(r, w) \in Positions
<1>0. CONSBUFSIZE \in Nat /\ CONSBUFSIZE > 0
  BY Sizes
<1>1. ASSUME NEW i \in Positions PROVE i % CONSBUFSIZE = i
  BY <1>0 DEF Positions
<1>2. ASSUME NEW i \in Positions PROVE (i + CONSBUFSIZE) % CONSBUFSIZE = i
  BY <1>0 DEF Positions
<1>3. ASSUME NEW i \in Positions, i > 0 PROVE (i - CONSBUFSIZE) % CONSBUFSIZE = i
  BY <1>0, <1>3 DEF Positions
<1>4. ASSUME NEW i \in 0 .. 2 * CONSBUFSIZE - 1 PROVE i % CONSBUFSIZE = Slot(i)
  <2>1. CASE i < CONSBUFSIZE
    BY <1>0, <1>1, <2>1 DEF Positions, Slot
  <2>2. CASE i >= CONSBUFSIZE
    <3>1. i - CONSBUFSIZE \in Positions /\ (i - CONSBUFSIZE) + CONSBUFSIZE = i
      BY <1>0, <2>2 DEF Positions
    <3> QED BY <1>0, <1>2, <2>2, <3>1 DEF Slot
  <2> QED BY <1>0, <2>1, <2>2
<1>5. ASSUME NEW r \in Positions, NEW w \in Positions
      PROVE  (w - r) % CONSBUFSIZE = Gap(r, w) /\ Gap(r, w) \in Positions
  <2>1. CASE w >= r
    BY <1>0, <1>1, <2>1 DEF Positions, Gap
  <2>2. CASE w < r
    <3>1. /\ w - r + CONSBUFSIZE \in Positions /\ w - r + CONSBUFSIZE > 0
          /\ (w - r + CONSBUFSIZE) - CONSBUFSIZE = w - r
      BY <1>0, <2>2 DEF Positions
    <3> QED BY <1>0, <1>3, <2>2, <3>1 DEF Gap, Positions
  <2> QED BY <1>0, <2>1, <2>2 DEF Positions
<1> QED BY <1>4, <1>5

\* What waits is a sequence of characters.
LEMMA WaitingSeq ==
  ASSUME NEW b \in [Positions -> Input], NEW r \in Positions, NEW w \in Positions
  PROVE  /\ Gap(r, w) \in Positions /\ Gap(r, w) \in Nat
         /\ Waiting(b, r, w) \in Seq(Input) /\ Len(Waiting(b, r, w)) = Gap(r, w)
         /\ \A k \in 1 .. Gap(r, w) : /\ Waiting(b, r, w)[k] = b[Slot(r + k - 1)]
                                      /\ Slot(r + k - 1) \in Positions
<1>1. Gap(r, w) \in Positions /\ Gap(r, w) \in Nat
  <2>1. Gap(r, w) \in Positions
    BY Remainders
  <2> QED BY <2>1, Sizes DEF Positions
<1>2. \A k \in 1 .. Gap(r, w) : Slot(r + k - 1) \in Positions
  BY <1>1, Sizes DEF Slot, Positions
<1>3. Waiting(b, r, w) \in [1 .. Gap(r, w) -> Input]
  BY <1>1, <1>2 DEF Waiting
<1>4. Waiting(b, r, w) \in Seq(Input) /\ Len(Waiting(b, r, w)) = Gap(r, w)
  BY <1>1, <1>3
<1> QED BY <1>1, <1>2, <1>4 DEF Waiting

\* queue is what waits.
LEMMA QueueIsWaiting ==
  ASSUME NEW b \in [Positions -> Input], NEW r \in Positions, NEW w \in Positions
  PROVE  [k \in 1 .. (w - r) % CONSBUFSIZE |-> b[(r + k - 1) % CONSBUFSIZE]] = Waiting(b, r, w)
<1>1. (w - r) % CONSBUFSIZE = Gap(r, w) /\ Gap(r, w) \in Positions
  BY Remainders
<1>2. \A k \in 1 .. Gap(r, w) : (r + k - 1) % CONSBUFSIZE = Slot(r + k - 1)
  <2>1. \A k \in 1 .. Gap(r, w) : r + k - 1 \in 0 .. 2 * CONSBUFSIZE - 1
    BY <1>1, Sizes DEF Positions
  <2> QED BY <2>1, Remainders
<1> QED BY <1>1, <1>2 DEF Waiting

\* cons_intr puts a character behind what waits, or empties a full buffer.
LEMMA RingPut ==
  ASSUME NEW b \in [Positions -> Input], NEW r \in Positions, NEW w \in Positions,
         NEW c \in Input
  PROVE  Waiting([b EXCEPT ![w] = c], r, After(w)) =
           IF Len(Waiting(b, r, w)) = CONSBUFSIZE - 1 THEN <<>> ELSE Append(Waiting(b, r, w), c)
<1> DEFINE d == [b EXCEPT ![w] = c]
<1>1. /\ d \in [Positions -> Input] /\ d[w] = c
      /\ \A k \in Positions : k # w => d[k] = b[k]
  OBVIOUS
<1>2. After(w) \in Positions
  BY Sizes DEF After, Positions
<1>3. /\ Gap(r, w) \in Positions /\ Gap(r, w) \in Nat
      /\ Waiting(b, r, w) \in Seq(Input) /\ Len(Waiting(b, r, w)) = Gap(r, w)
      /\ \A k \in 1 .. Gap(r, w) : /\ Waiting(b, r, w)[k] = b[Slot(r + k - 1)]
                                   /\ Slot(r + k - 1) \in Positions
  BY WaitingSeq
<1> HIDE DEF d
<1>4. /\ Waiting(d, r, After(w)) \in Seq(Input) /\ Len(Waiting(d, r, After(w))) = Gap(r, After(w))
      /\ \A k \in 1 .. Gap(r, After(w)) : Waiting(d, r, After(w))[k] = d[Slot(r + k - 1)]
  BY <1>1, <1>2, WaitingSeq
<1>5. CASE Gap(r, w) = CONSBUFSIZE - 1
  <2>1. Gap(r, After(w)) = 0
    BY <1>5, Sizes DEF Gap, After, Positions
  <2>2. Waiting(d, r, After(w)) = <<>>
    BY <1>4, <2>1, EmptySeq
  <2> QED BY <1>3, <1>5, <2>2 DEF d
<1>6. CASE Gap(r, w) # CONSBUFSIZE - 1
  <2>1. Gap(r, After(w)) = Gap(r, w) + 1
    BY <1>6, Sizes DEF Gap, After, Positions
  <2>2. Slot(r + (Gap(r, w) + 1) - 1) = w
    BY Sizes DEF Gap, Slot, Positions
  <2>3. ASSUME NEW k \in 1 .. Gap(r, w) PROVE Slot(r + k - 1) # w
    BY <1>3, Sizes DEF Gap, Slot, Positions
  <2>4. ASSUME NEW k \in 1 .. Gap(r, w) + 1
        PROVE  Waiting(d, r, After(w))[k] = Append(Waiting(b, r, w), c)[k]
    <3>1. Waiting(d, r, After(w))[k] = d[Slot(r + k - 1)]
      BY <1>4, <2>1
    <3>2. CASE k = Gap(r, w) + 1
      BY <1>1, <1>3, <2>2, <3>1, <3>2
    <3>3. CASE k # Gap(r, w) + 1
      <4>1. k \in 1 .. Gap(r, w)
        BY <1>3, <3>3
      <4>2. d[Slot(r + k - 1)] = b[Slot(r + k - 1)]
        BY <1>1, <1>3, <2>3, <4>1
      <4>3. Append(Waiting(b, r, w), c)[k] = Waiting(b, r, w)[k]
        BY <1>3, <4>1
      <4> QED BY <1>3, <3>1, <4>1, <4>2, <4>3
    <3> QED BY <3>2, <3>3
  <2>5. /\ Append(Waiting(b, r, w), c) \in Seq(Input)
        /\ Len(Append(Waiting(b, r, w), c)) = Gap(r, w) + 1
    BY <1>3
  <2>6. Waiting(d, r, After(w)) = Append(Waiting(b, r, w), c)
    BY <1>4, <2>1, <2>4, <2>5, SeqEqual
  <2> QED BY <1>3, <1>6, <2>6 DEF d
<1> QED BY <1>5, <1>6

\* cons_getc takes the oldest character.
LEMMA RingTake ==
  ASSUME NEW b \in [Positions -> Input], NEW r \in Positions, NEW w \in Positions, r # w
  PROVE  /\ Waiting(b, r, w) # <<>> /\ Head(Waiting(b, r, w)) = b[r]
         /\ Waiting(b, After(r), w) = Tail(Waiting(b, r, w))
<1>1. After(r) \in Positions
  BY Sizes DEF After, Positions
<1>2. /\ Gap(r, w) \in Positions /\ Gap(r, w) \in Nat
      /\ Waiting(b, r, w) \in Seq(Input) /\ Len(Waiting(b, r, w)) = Gap(r, w)
      /\ \A k \in 1 .. Gap(r, w) : Waiting(b, r, w)[k] = b[Slot(r + k - 1)]
  BY WaitingSeq
<1>3. /\ Waiting(b, After(r), w) \in Seq(Input) /\ Len(Waiting(b, After(r), w)) = Gap(After(r), w)
      /\ \A k \in 1 .. Gap(After(r), w) : Waiting(b, After(r), w)[k] = b[Slot(After(r) + k - 1)]
  BY <1>1, WaitingSeq
<1>4. Gap(r, w) > 0 /\ Gap(After(r), w) = Gap(r, w) - 1
  BY Sizes DEF Gap, After, Positions
<1>5. Slot(r + 1 - 1) = r
  BY Sizes DEF Slot, Positions
<1>6. ASSUME NEW k \in 1 .. Gap(r, w) - 1
      PROVE  Slot(After(r) + k - 1) = Slot(r + (k + 1) - 1) /\ k + 1 \in 1 .. Gap(r, w)
  BY <1>2, Sizes DEF Gap, Slot, After, Positions
<1>7. Waiting(b, r, w) # <<>>
  BY <1>2, <1>4
<1>8. Head(Waiting(b, r, w)) = b[r]
  BY <1>2, <1>4, <1>5, <1>7
<1>9. /\ Tail(Waiting(b, r, w)) \in Seq(Input) /\ Len(Tail(Waiting(b, r, w))) = Gap(r, w) - 1
      /\ \A k \in 1 .. Gap(r, w) - 1 : Tail(Waiting(b, r, w))[k] = Waiting(b, r, w)[k + 1]
  BY <1>2, <1>7, HeadTailProperties
<1>10. ASSUME NEW k \in 1 .. Gap(r, w) - 1
       PROVE  Waiting(b, After(r), w)[k] = Tail(Waiting(b, r, w))[k]
  BY <1>2, <1>3, <1>4, <1>6, <1>9
<1>11. Waiting(b, After(r), w) = Tail(Waiting(b, r, w))
  BY <1>3, <1>4, <1>9, <1>10, SeqEqual
<1> QED BY <1>7, <1>8, <1>11

\* readline acts on every character but 0, and only on those.
LEMMA EditsChars ==
  ASSUME NEW c, edit(c)
  PROVE  c \in Chars
<1>1. "nul" \notin Text
  BY ConsoleAssumption DEF Text
<1> QED BY <1>1 DEF edit, Edit, Chars, Input, Text

\* The steps of InputIsQueued.
QueueStep ==
  \/ \E c \in Chars : cons_intr(c) /\ Queue!Put(c)
  \/ \E c \in Chars : cons_getc /\ Queue!Take(c) /\ edit(c)
  \/ cons_getc /\ Queue!Empty
  \/ /\ cons_intr("nul") \/ cons_intr_end \/ readline \/ \E c \in Output : monitor_print(c)
     /\ UNCHANGED queue

\* Every step of the console is one of the queue.
LEMMA ConsoleQueues == ConsoleInv /\ ConsoleInv' /\ [Next]_vars => [QueueStep]_vars
<1> SUFFICES ASSUME ConsoleInv, ConsoleInv', Next PROVE QueueStep
  OBVIOUS
<1>1. /\ buf \in [Positions -> Input] /\ rpos \in Positions /\ wpos \in Positions
      /\ buf' \in [Positions -> Input] /\ rpos' \in Positions /\ wpos' \in Positions
  BY DEF ConsoleInv, TypeOK, Positions
<1>2. queue = Waiting(buf, rpos, wpos) /\ queue' = Waiting(buf', rpos', wpos')
  BY <1>1, QueueIsWaiting DEF queue, waiting
<1>3. ASSUME UNCHANGED <<buf, rpos, wpos>> PROVE UNCHANGED queue
  BY <1>2, <1>3
<1>4. ASSUME NEW c \in Input, cons_intr(c) PROVE QueueStep
  <2>1. CASE c = "nul"
    <3>1. cons_intr("nul") /\ UNCHANGED <<buf, rpos, wpos>>
      BY <1>4, <2>1 DEF cons_intr
    <3> QED BY <1>3, <3>1 DEF QueueStep
  <2>2. CASE c # "nul"
    <3>1. buf' = [buf EXCEPT ![wpos] = c] /\ wpos' = After(wpos) /\ rpos' = rpos
      BY <1>4, <2>2 DEF cons_intr, After
    <3>2. queue' = IF Len(queue) = CONSBUFSIZE - 1 THEN <<>> ELSE Append(queue, c)
      <4>1. Waiting([buf EXCEPT ![wpos] = c], rpos, After(wpos)) =
              IF Len(Waiting(buf, rpos, wpos)) = CONSBUFSIZE - 1
              THEN <<>> ELSE Append(Waiting(buf, rpos, wpos), c)
        BY <1>1, RingPut
      <4>2. queue' = Waiting([buf EXCEPT ![wpos] = c], rpos, After(wpos))
        BY <1>2, <3>1
      <4> QED BY <1>2, <4>1, <4>2
    <3>3. Queue!Put(c)
      BY <3>2 DEF Queue!Put
    <3> QED BY <1>4, <2>2, <3>3 DEF QueueStep, Chars
  <2> QED BY <2>1, <2>2
<1>5. CASE cons_getc
  <2>1. CASE rpos = wpos
    <3>1. UNCHANGED <<buf, rpos, wpos>>
      BY <1>5, <2>1 DEF cons_getc
    <3>2. queue = <<>>
      <4>1. Gap(rpos, wpos) = 0
        BY <1>1, <2>1, Sizes DEF Gap, Positions
      <4> QED BY <1>1, <1>2, <4>1, WaitingSeq, EmptySeq
    <3>3. Queue!Empty
      BY <1>3, <3>1, <3>2 DEF Queue!Empty
    <3> QED BY <1>5, <3>3 DEF QueueStep
  <2>2. CASE rpos # wpos
    <3>1. edit(buf[rpos]) /\ rpos' = After(rpos) /\ UNCHANGED <<buf, wpos>>
      BY <1>5, <2>2 DEF cons_getc, After
    <3>2. queue # <<>> /\ buf[rpos] = Head(queue) /\ queue' = Tail(queue)
      BY <1>1, <1>2, <2>2, <3>1, RingTake
    <3>3. buf[rpos] \in Chars
      BY <3>1, EditsChars
    <3>4. Queue!Take(buf[rpos])
      BY <3>2 DEF Queue!Take
    <3> QED BY <1>5, <3>1, <3>3, <3>4 DEF QueueStep
  <2> QED BY <2>1, <2>2
<1>6. CASE cons_intr_end
  BY <1>3, <1>6 DEF cons_intr_end, QueueStep
<1>7. ASSUME NEW c \in Output, monitor_print(c) PROVE QueueStep
  BY <1>3, <1>7 DEF monitor_print, QueueStep
<1>8. CASE readline
  BY <1>3, <1>8 DEF readline, QueueStep
<1> QED BY <1>4, <1>5, <1>6, <1>7, <1>8 DEF Next

\* The ring buffer implements the queue of InputQueue, for every size: each
\* character cons_intr takes from a device goes behind what waits, readline
\* acts on the oldest one, and only the character that fills the buffer
\* loses what waits.
THEOREM ConsoleInputIsQueued == Spec => InputIsQueued
<1>1. ConsoleInv /\ Init => Queue!Init
  <2> SUFFICES ASSUME ConsoleInv, Init PROVE Queue!Init
    OBVIOUS
  <2>1. buf \in [Positions -> Input] /\ rpos = 0 /\ wpos = 0 /\ 0 \in Positions
    BY Sizes DEF Init, ConsoleInv, TypeOK, Positions
  <2>2. queue = Waiting(buf, 0, 0)
    BY <2>1, QueueIsWaiting DEF queue, waiting
  <2>3. Gap(0, 0) = 0
    BY DEF Gap
  <2> QED BY <2>1, <2>2, <2>3, WaitingSeq, EmptySeq DEF Queue!Init
<1> QED BY <1>1, ConsoleInit, ConsoleInvariant, ConsoleQueues, PTL DEF Spec, InputIsQueued, QueueStep

(***************************************************************************)
(* AddressRanges and LibString.                                            *)
(***************************************************************************)
\* Every set of natural numbers has a smallest one.
LEMMA LeastNatural ==
  ASSUME NEW T, T \subseteq Nat, T # {}
  PROVE  Min(T) \in T /\ \A y \in T : Min(T) <= y
<1>1. PICK x \in T : \A y \in T : ~(<<y, x>> \in OpToRel(<, Nat))
  BY NatLessThanWellFounded, WFMin
<1>2. \A y \in T : x <= y
  <2>1. ASSUME NEW y \in Nat, NEW z \in Nat, y < z PROVE <<y, z>> \in OpToRel(<, Nat)
    BY <2>1 DEF OpToRel
  <2>2. \A y \in T : ~(y < x)
    BY <1>1, <2>1
  <2> QED BY <2>2
<1> QED BY <1>2 DEF Min

LEMMA LeastIs ==
  ASSUME NEW T, T \subseteq Nat, NEW x \in T, \A y \in T : x <= y
  PROVE  Min(T) = x
<1>1. Min(T) \in T /\ \A y \in T : Min(T) <= y
  BY LeastNatural
<1>2. Min(T) \in Nat /\ x \in Nat /\ Min(T) <= x /\ x <= Min(T)
  BY <1>1
<1> QED BY <1>2

\* Rounding down to a page.
LEMMA Rounds ==
  ASSUME NEW a \in Nat
  PROVE  /\ ROUNDDOWN(a) \in Nat /\ ROUNDDOWN(a) <= a /\ a < ROUNDDOWN(a) + PGSIZE
         /\ ROUNDDOWN(a) % PGSIZE = 0
<1>0. PGSIZE \in Nat /\ PGSIZE > 0
  BY RangeAssumption
<1>1. a % PGSIZE \in 0 .. PGSIZE - 1 /\ a % PGSIZE <= a
  BY <1>0
<1>2. (a - (a % PGSIZE)) % PGSIZE = 0
  BY <1>0
<1> QED BY <1>0, <1>1, <1>2 DEF ROUNDDOWN

\* Pages do not overlap.
LEMMA PagesApart ==
  ASSUME NEW i \in Nat, NEW j \in Nat, i % PGSIZE = 0, j % PGSIZE = 0, i < j
  PROVE  i + PGSIZE <= j
<1>0. PGSIZE \in Nat /\ PGSIZE > 0
  BY RangeAssumption
<1>1. ASSUME NEW n \in Nat, n % PGSIZE = 0 PROVE n = PGSIZE * (n \div PGSIZE) /\ n \div PGSIZE \in Nat
  BY <1>0, <1>1
<1>2. PICK q \in Nat, r \in Nat : i = PGSIZE * q /\ j = PGSIZE * r
  BY <1>1
<1>3. q + 1 <= r
  BY <1>0, <1>2
<1>4. PGSIZE * (q + 1) <= PGSIZE * r
  BY <1>0, <1>3
<1> QED BY <1>0, <1>2, <1>4

\* A page is accessible as a whole or not at all.
LEMMA WholePages ==
  ASSUME NEW pte, NEW perm, NEW a \in Nat, NEW i \in Nat,
         i % PGSIZE = 0, i <= a, a < i + PGSIZE
  PROVE  ROUNDDOWN(a) = i /\ (Accessible(pte, a, perm) <=> Accessible(pte, i, perm))
<1>0. PGSIZE \in Nat /\ PGSIZE > 0 /\ ULIM \in Nat /\ ULIM % PGSIZE = 0
  BY RangeAssumption
<1>1. ASSUME NEW b \in Nat, i <= b, b < i + PGSIZE PROVE ROUNDDOWN(b) = i
  <2> DEFINE d == ROUNDDOWN(b)
  <2>1. d \in Nat /\ d <= b /\ b < d + PGSIZE /\ d % PGSIZE = 0
    BY Rounds
  <2> HIDE DEF d
  <2>2. ~(d < i)
    <3> SUFFICES ASSUME d < i PROVE FALSE
      OBVIOUS
    <3>1. d + PGSIZE <= i
      BY <2>1, PagesApart
    <3> QED BY <1>0, <1>1, <2>1, <3>1
  <2>3. ~(i < d)
    <3> SUFFICES ASSUME i < d PROVE FALSE
      OBVIOUS
    <3>1. i + PGSIZE <= d
      BY <2>1, PagesApart
    <3> QED BY <1>0, <1>1, <2>1, <3>1
  <2>4. d = i
    BY <2>1, <2>2, <2>3
  <2> QED BY <2>4 DEF d
<1>2. ROUNDDOWN(a) = i /\ ROUNDDOWN(i) = i
  BY <1>0, <1>1
<1>3. i < ULIM => a < ULIM
  BY <1>0, PagesApart
<1>4. a < ULIM <=> i < ULIM
  BY <1>0, <1>3
<1> QED BY <1>2, <1>4 DEF Accessible

LEMMA FirstPage ==
  ASSUME NEW a \in Nat, a < PGSIZE
  PROVE  ROUNDDOWN(a) = 0
<1>1. PGSIZE \in Nat /\ PGSIZE > 0
  BY RangeAssumption
<1>2. a % PGSIZE = a
  BY <1>1
<1> QED BY <1>2 DEF ROUNDDOWN

\* user_mem_check keeps what its comment promises for every page table, page
\* size and permission, and for every range that is not empty and ends before
\* the last page of the address space: what it looks at, one address per page,
\* is enough, and the address it reports is the first bad byte of the range.
THEOREM UserMemCheckExact ==
  ASSUME NEW pte, NEW va \in 0 .. NADDR - 1, NEW len \in Nat, NEW perm,
         RoundsInside(va, len)
  PROVE  ChecksEveryByte(pte, va, len, perm)
<1> DEFINE end == va + len
           hi == ROUNDDOWN(end + PGSIZE - 1)
           pages == {i \in ROUNDDOWN(va) .. hi - 1 : i % PGSIZE = 0 /\ ~Accessible(pte, i, perm)}
           bytes == {a \in va .. end - 1 : ~Accessible(pte, a, perm)}
           r == user_mem_check(pte, va, len, perm)
<1> SUFFICES ASSUME len > 0, end <= NADDR - PGSIZE
             PROVE  IF bytes = {} THEN r.ok ELSE ~r.ok /\ r.addr = Min(bytes)
  BY DEF ChecksEveryByte, RoundsInside
<1>0. PGSIZE \in Nat /\ PGSIZE > 0 /\ NADDR \in Nat /\ va \in Nat /\ end \in Nat /\ va < end
  BY RangeAssumption
<1>1. end % NADDR = end /\ (end + PGSIZE - 1) % NADDR = end + PGSIZE - 1 /\ end + PGSIZE - 1 \in Nat
  BY <1>0
<1>2. r = IF pages = {} THEN [ok |-> TRUE, addr |-> 0]
          ELSE [ok |-> FALSE, addr |-> IF Min(pages) < va THEN va ELSE Min(pages)]
  <2>1. ROUNDUP(end % NADDR) = hi
    BY <1>1 DEF ROUNDUP
  <2> QED BY <2>1, Zenon DEF user_mem_check
<1>3. /\ ROUNDDOWN(va) \in Nat /\ ROUNDDOWN(va) <= va /\ va < ROUNDDOWN(va) + PGSIZE
      /\ ROUNDDOWN(va) % PGSIZE = 0
      /\ hi \in Nat /\ hi <= end + PGSIZE - 1 /\ end + PGSIZE - 1 < hi + PGSIZE /\ hi % PGSIZE = 0
  BY <1>0, <1>1, Rounds
<1> HIDE DEF hi, r, end
<1>4. ASSUME NEW a \in bytes PROVE ROUNDDOWN(a) \in pages /\ ROUNDDOWN(a) <= a /\ a \in Nat /\ va <= a
  <2> DEFINE i == ROUNDDOWN(a)
  <2>1. a \in Nat /\ va <= a /\ a < end /\ ~Accessible(pte, a, perm)
    BY <1>0
  <2>2. i \in Nat /\ i <= a /\ a < i + PGSIZE /\ i % PGSIZE = 0
    BY <2>1, Rounds
  <2> HIDE DEF i
  <2>3. ~Accessible(pte, i, perm)
    BY <2>1, <2>2, WholePages
  <2>4. ROUNDDOWN(va) <= i
    <3> SUFFICES ASSUME i < ROUNDDOWN(va) PROVE FALSE
      BY <1>3, <2>2
    <3>1. i + PGSIZE <= ROUNDDOWN(va)
      BY <1>3, <2>2, PagesApart
    <3> QED BY <1>0, <1>3, <2>1, <2>2, <3>1
  <2>5. i < hi
    BY <1>0, <1>3, <2>1, <2>2
  <2>6. i \in pages
    BY <1>3, <2>2, <2>3, <2>4, <2>5
  <2> QED BY <2>1, <2>2, <2>6 DEF i
<1>5. ASSUME NEW i \in pages PROVE (IF i < va THEN va ELSE i) \in bytes
  <2>1. i \in Nat /\ ROUNDDOWN(va) <= i /\ i < hi /\ i % PGSIZE = 0 /\ ~Accessible(pte, i, perm)
    BY <1>3
  <2>2. i < end
    <3>1. i + PGSIZE <= hi
      BY <1>3, <2>1, PagesApart
    <3> QED BY <1>0, <1>3, <2>1, <3>1
  <2>3. CASE i < va
    <3>1. va < i + PGSIZE
      BY <1>0, <1>3, <2>1
    <3>2. ~Accessible(pte, va, perm)
      BY <1>0, <2>1, <2>3, <3>1, WholePages
    <3> QED BY <1>0, <2>3, <3>2
  <2>4. CASE ~(i < va)
    BY <1>0, <2>1, <2>2, <2>4
  <2> QED BY <2>3, <2>4
<1>6. pages \subseteq Nat /\ bytes \subseteq Nat
  BY <1>0, <1>3
<1>7. CASE pages = {}
  <2>1. bytes = {}
    BY <1>4, <1>7
  <2> QED BY <1>2, <1>7, <2>1
<1>8. CASE pages # {}
  <2> DEFINE least == Min(pages)
             first == IF least < va THEN va ELSE least
  <2>1. least \in pages /\ \A i \in pages : least <= i
    BY <1>6, <1>8, LeastNatural
  <2>2. first \in bytes
    BY <1>5, <2>1
  <2>3. \A a \in bytes : first <= a
    BY <1>0, <1>4, <1>6, <2>1
  <2>4. Min(bytes) = first
    BY <1>6, <2>2, <2>3, LeastIs
  <2> HIDE DEF least, pages, bytes
  <2>5. ~r.ok /\ r.addr = first
    BY <1>2, <1>8 DEF least
  <2> QED BY <2>2, <2>4, <2>5
<1> QED BY <1>7, <1>8

\* The condition on the end is needed.  Every range that reaches into or past
\* the last page of the address space, short of spanning nearly all of it, is
\* accepted whatever the page table says: its end, rounded up, has wrapped
\* around, and the loop of user_mem_check looks at nothing (kern/pmap.c:653).
\* As no address there is below ULIM, the comment over the function
\* (kern/pmap.c:637-645) asks for -E_FAULT.
THEOREM UserMemCheckLimit ==
  ASSUME NEW pte, NEW va \in 0 .. NADDR - 1, NEW len \in Nat, NEW perm,
         len > 0, len <= NADDR - 2 * PGSIZE, va + len > NADDR - PGSIZE,
         ULIM <= NADDR - PGSIZE
  PROVE  user_mem_check(pte, va, len, perm).ok /\ ~ChecksEveryByte(pte, va, len, perm)
<1> DEFINE end == (va + len) % NADDR
           up == (end + PGSIZE - 1) % NADDR
<1>0. PGSIZE \in Nat /\ PGSIZE > 0 /\ NADDR \in Nat /\ ULIM \in Nat /\ va \in Nat /\ va < NADDR
  BY RangeAssumption
<1>1. /\ \A n \in Nat : n < NADDR => n % NADDR = n
      /\ \A n \in Nat : NADDR <= n /\ n < 2 * NADDR => n % NADDR = n - NADDR
  BY <1>0
<1>2. ROUNDDOWN(va) \in Nat /\ ROUNDDOWN(va) <= va /\ va < ROUNDDOWN(va) + PGSIZE
  BY <1>0, Rounds
<1>3. up \in Nat /\ ROUNDDOWN(up) <= ROUNDDOWN(va)
  <2>1. CASE va + len < NADDR
    <3>1. end = va + len
      BY <1>0, <1>1, <2>1
    <3> HIDE DEF end
    <3>2. end + PGSIZE - 1 \in Nat /\ NADDR <= end + PGSIZE - 1 /\ end + PGSIZE - 1 < 2 * NADDR
      BY <1>0, <2>1, <3>1
    <3>3. up = (end + PGSIZE - 1) - NADDR
      BY <1>1, <3>2
    <3> HIDE DEF up
    <3>4. up \in Nat /\ up < PGSIZE
      BY <1>0, <2>1, <3>1, <3>2, <3>3
    <3> QED BY <1>2, <3>4, FirstPage
  <2>2. CASE va + len >= NADDR
    <3>1. end = va + len - NADDR
      BY <1>0, <1>1, <2>2
    <3> HIDE DEF end
    <3>2. end \in Nat /\ end + 2 * PGSIZE <= va
      BY <1>0, <2>2, <3>1
    <3>3. end + PGSIZE - 1 \in Nat /\ end + PGSIZE - 1 < NADDR
      BY <1>0, <3>2
    <3>4. up = end + PGSIZE - 1
      BY <1>1, <3>3
    <3> HIDE DEF up
    <3>5. up \in Nat /\ up + PGSIZE <= va
      BY <1>0, <3>2, <3>4
    <3>6. ROUNDDOWN(up) \in Nat /\ ROUNDDOWN(up) <= up
      BY <3>5, Rounds
    <3> QED BY <1>0, <1>2, <3>5, <3>6
  <2> QED BY <1>0, <2>1, <2>2
<1>4. ROUNDDOWN(up) \in Nat
  BY <1>3, Rounds
<1>5. {i \in ROUNDDOWN(va) .. ROUNDDOWN(up) - 1 : i % PGSIZE = 0 /\ ~Accessible(pte, i, perm)} = {}
  <2>1. \A x, y \in Nat : y <= x => x .. y - 1 = {}
    OBVIOUS
  <2>2. ROUNDDOWN(va) .. ROUNDDOWN(up) - 1 = {}
    BY <1>2, <1>3, <1>4, <2>1
  <2> QED BY <2>2
<1>6. user_mem_check(pte, va, len, perm) = [ok |-> TRUE, addr |-> 0]
  BY <1>5, Zenon DEF user_mem_check, ROUNDUP
<1>7. va + len - 1 \in {a \in va .. va + len - 1 : ~Accessible(pte, a, perm)}
  <2>1. va + len - 1 \in va .. va + len - 1 /\ ~(va + len - 1 < ULIM)
    BY <1>0
  <2> QED BY <2>1 DEF Accessible
<1> QED BY <1>6, <1>7 DEF ChecksEveryByte

-----------------------------------------------------------------------------
\* What the calls cs of mmio_map_region have left: every region is there as
\* RegionsHold wants it, and the regions fill the window up to base.
MmioOK(m, cs) ==
  /\ m.panic \in BOOLEAN /\ m.base \in MMIOBASE .. MMIOLIM - 1 /\ m.base % PGSIZE = 0
  /\ DOMAIN m.map = MMIOBASE .. m.base - 1
  /\ m.ret \in Seq(Nat) /\ (IF m.panic THEN Len(m.ret) <= Len(cs) ELSE Len(m.ret) = Len(cs))
  /\ \A k \in 1 .. Len(m.ret) : \A d \in 0 .. cs[k].size - 1 :
       LET a == m.ret[k] + (cs[k].pa % PGSIZE) + d
       IN a \in DOMAIN m.map /\ m.map[a] = cs[k].pa + d

Regions == [pa : Nat, size : Nat]

LEMMA Multiples ==
  ASSUME NEW i \in Nat, NEW j \in Nat, NEW k \in Nat, i <= j,
         i % PGSIZE = 0, j % PGSIZE = 0, k % PGSIZE = 0
  PROVE  (k + (j - i)) % PGSIZE = 0
<1>0. PGSIZE \in Nat /\ PGSIZE > 0
  BY RangeAssumption
<1>1. ASSUME NEW n \in Nat, n % PGSIZE = 0 PROVE n = PGSIZE * (n \div PGSIZE) /\ n \div PGSIZE \in Nat
  BY <1>0, <1>1
<1>2. PICK p \in Nat, q \in Nat, r \in Nat : i = PGSIZE * p /\ j = PGSIZE * q /\ k = PGSIZE * r
  BY <1>1
<1>3. p <= q
  BY <1>0, <1>2
<1>4. k + (j - i) = PGSIZE * (r + (q - p)) /\ r + (q - p) \in Nat
  BY <1>0, <1>2, <1>3
<1>5. \A n \in Nat : (PGSIZE * n) % PGSIZE = 0
  BY <1>0
<1> QED BY <1>4, <1>5

\* One call of mmio_map_region, for any sizes, as long as the device does not
\* reach into the last page of the address space and has no more pages than
\* lie above MMIOLIM, so that neither sum of the code wraps: it either panics
\* and changes nothing else, or adds a region that holds what was asked for,
\* apart from all others and below MMIOLIM.
THEOREM MmioKeepsRegions ==
  ASSUME NEW m, NEW cs \in Seq(Regions), MmioOK(m, cs),
         NEW c \in Regions, c.pa + c.size <= NADDR - PGSIZE,
         ROUNDUP(c.pa + c.size) - ROUNDDOWN(c.pa) <= NADDR - MMIOLIM
  PROVE  MmioOK(mmio_map_region(m, c), Append(cs, c))
<1> DEFINE pa == ROUNDDOWN(c.pa)
           end == ROUNDDOWN(c.pa + c.size + PGSIZE - 1)
           size == end - pa
           ds == Append(cs, c)
<1>0. /\ PGSIZE \in Nat /\ PGSIZE > 0 /\ NADDR \in Nat /\ MMIOBASE \in Nat /\ MMIOLIM \in Nat
      /\ c.pa \in Nat /\ c.size \in Nat
  BY RangeAssumption DEF Regions
<1>1. ROUNDUP(c.pa + c.size) = end
  <2>1. c.pa + c.size + PGSIZE - 1 \in 0 .. NADDR - 1
    BY <1>0
  <2>2. (c.pa + c.size + PGSIZE - 1) % NADDR = c.pa + c.size + PGSIZE - 1
    <3>1. \A n \in 0 .. NADDR - 1 : n % NADDR = n
      BY <1>0
    <3> QED BY <2>1, <3>1
  <2> QED BY <2>2 DEF ROUNDUP
<1>2. /\ pa \in Nat /\ pa <= c.pa /\ c.pa - pa = c.pa % PGSIZE /\ pa % PGSIZE = 0
      /\ end \in Nat /\ end % PGSIZE = 0 /\ pa <= end
      /\ c.pa % PGSIZE \in Nat /\ size \in Nat /\ (c.pa % PGSIZE) + c.size <= size
  <2>1. c.pa + c.size + PGSIZE - 1 \in Nat
    BY <1>0
  <2>2. /\ end \in Nat /\ end % PGSIZE = 0
        /\ c.pa + c.size + PGSIZE - 1 < end + PGSIZE
    BY <2>1, Rounds
  <2>3. pa \in Nat /\ pa <= c.pa /\ pa % PGSIZE = 0
    BY <1>0, Rounds
  <2>4. c.pa - pa = c.pa % PGSIZE
    BY <1>0 DEF ROUNDDOWN
  <2> HIDE DEF pa, end
  <2>5. c.pa + c.size <= end /\ pa <= end
    BY <1>0, <2>2, <2>3
  <2>6. \A q \in Int : c.pa - pa = q => q \in Nat /\ size \in Nat /\ q + c.size <= size
    <3>1. \A x, y, z, n, q \in Int :
            y <= x /\ y <= z /\ x + n <= z /\ x - y = q => q >= 0 /\ z - y >= 0 /\ q + n <= z - y
      OBVIOUS
    <3>2. c.pa \in Int /\ pa \in Int /\ end \in Int /\ c.size \in Int
      BY <1>0, <2>2, <2>3
    <3>3. \A q \in Int : c.pa - pa = q => q >= 0 /\ end - pa >= 0 /\ q + c.size <= end - pa
      BY <2>3, <2>5, <3>1, <3>2
    <3>4. end - pa \in Int
      BY <3>2
    <3> QED BY <3>3, <3>4
  <2>7. c.pa % PGSIZE \in Nat /\ size \in Nat /\ (c.pa % PGSIZE) + c.size <= size
    <3>1. c.pa % PGSIZE \in Int
      BY <1>0
    <3> QED BY <2>4, <2>6, <3>1
  <2> QED BY <2>2, <2>3, <2>4, <2>5, <2>7
<1> DEFINE u == mmio_map_region(m, c)
           map == [a \in DOMAIN m.map \cup m.base .. m.base + size - 1 |->
                     IF a \in DOMAIN m.map THEN m.map[a] ELSE pa + (a - m.base)]
<1>3. /\ m.panic \in BOOLEAN /\ m.base \in MMIOBASE .. MMIOLIM - 1 /\ m.base % PGSIZE = 0
      /\ DOMAIN m.map = MMIOBASE .. m.base - 1
      /\ m.ret \in Seq(Nat) /\ Len(m.ret) \in Nat /\ Len(m.ret) <= Len(cs)
      /\ m.panic \/ Len(m.ret) = Len(cs)
  BY DEF MmioOK
<1>4. size <= NADDR - MMIOLIM /\ end < NADDR /\ pa + size = end
  <2>1. end <= c.pa + c.size + PGSIZE - 1
    <3>1. c.pa + c.size + PGSIZE - 1 \in Nat
      BY <1>0
    <3> QED BY <3>1, Rounds
  <2>2. size <= NADDR - MMIOLIM
    BY <1>1
  <2> HIDE DEF pa, end
  <2> QED BY <1>0, <1>2, <2>1, <2>2
<1>5. /\ m.base \in Nat /\ m.base + size \in Nat /\ m.base + size < NADDR /\ size < NADDR
  <2>1. size \in Nat /\ size <= NADDR - MMIOLIM
    BY <1>2, <1>4
  <2>2. m.base \in Nat /\ m.base < MMIOLIM
    BY <1>0, <1>3
  <2>3. \A x, y \in Nat : x < MMIOLIM /\ y <= NADDR - MMIOLIM => x + y \in Nat /\ x + y < NADDR /\ y < NADDR
    BY <1>0
  <2> HIDE DEF size
  <2> QED BY <2>1, <2>2, <2>3
<1>6. \A n \in Nat : n < NADDR => n % NADDR = n
  BY <1>0
<1>7. boot_map_region(m.map, m.base, size, pa) = map
  <2> DEFINE span == {(m.base + d) % NADDR : d \in 0 .. size - 1}
             lo == m.base
  <2> HIDE DEF pa, end, size
  <2>0. lo \in Nat /\ size \in Nat /\ pa \in Nat /\ end \in Nat /\ lo + size < NADDR /\ pa + size = end /\ end < NADDR
    BY <1>2, <1>4, <1>5 DEF size
  <2>1. \A d \in 0 .. size - 1 : (lo + d) % NADDR = lo + d
    <3> HIDE DEF lo
    <3>1. \A d \in 0 .. size - 1 : lo + d \in Nat /\ lo + d < NADDR
      BY <1>0, <2>0
    <3> QED BY <1>6, <3>1
  <2>2. span = lo .. lo + size - 1
    <3>1. span = {lo + d : d \in 0 .. size - 1}
      BY <2>1
    <3> HIDE DEF span, lo
    <3>2. \A a \in lo .. lo + size - 1 : a - lo \in 0 .. size - 1 /\ a = lo + (a - lo)
      BY <2>0
    <3>3. \A d \in 0 .. size - 1 : lo + d \in lo .. lo + size - 1
      BY <2>0
    <3> QED BY <3>1, <3>2, <3>3
  <2>3. \A a \in span : (pa + ((a - lo) % NADDR)) % NADDR = pa + (a - lo)
    <3> HIDE DEF span, lo
    <3>1. \A a \in span : a - lo \in Nat /\ a - lo < NADDR /\ pa + (a - lo) \in Nat /\ pa + (a - lo) < NADDR
      BY <1>0, <2>0, <2>2
    <3> QED BY <1>6, <3>1
  <2>4. \A a \in DOMAIN m.map : a \notin span
    <3>1. DOMAIN m.map = MMIOBASE .. lo - 1
      BY <1>3
    <3> HIDE DEF span, lo
    <3> QED BY <1>0, <2>0, <2>2, <3>1
  <2>5. boot_map_region(m.map, m.base, size, pa) =
          [a \in DOMAIN m.map \cup span |->
             IF a \in span THEN (pa + ((a - lo) % NADDR)) % NADDR ELSE m.map[a]]
    BY DEF boot_map_region
  <2> HIDE DEF span
  <2>6. map = [a \in DOMAIN m.map \cup span |-> IF a \in DOMAIN m.map THEN m.map[a] ELSE pa + (a - lo)]
    BY <2>2
  <2>7. \A a \in DOMAIN m.map \cup span :
          (IF a \in span THEN (pa + ((a - lo) % NADDR)) % NADDR ELSE m.map[a])
          = (IF a \in DOMAIN m.map THEN m.map[a] ELSE pa + (a - lo))
    <3> HIDE DEF lo, map
    <3> QED BY <2>3, <2>4
  <2> QED BY <2>5, <2>6, <2>7
<1>8. u = IF m.panic \/ m.base + size >= MMIOLIM THEN [m EXCEPT !.panic = TRUE]
          ELSE [panic |-> FALSE, base |-> m.base + size, ret |-> Append(m.ret, m.base), map |-> map]
  <2>1. (ROUNDUP(c.pa + c.size) - ROUNDDOWN(c.pa)) % NADDR = size
    BY <1>1, <1>2, <1>5, <1>6
  <2>2. (m.base + size) % NADDR = m.base + size
    BY <1>5, <1>6
  <2> HIDE DEF size, map
  <2> QED BY <1>7, <2>1, <2>2 DEF mmio_map_region
<1>9. /\ ds \in Seq(Regions) /\ Len(ds) = Len(cs) + 1 /\ ds[Len(cs) + 1] = c
      /\ \A k \in 1 .. Len(cs) : ds[k] = cs[k]
  OBVIOUS
<1>10. ASSUME NEW k \in 1 .. Len(m.ret), NEW d \in 0 .. ds[k].size - 1
      PROVE  LET a == m.ret[k] + (ds[k].pa % PGSIZE) + d
             IN a \in DOMAIN m.map /\ m.map[a] = ds[k].pa + d
  <2>1. ds[k] = cs[k]
    BY <1>3, <1>9
  <2> QED BY <2>1 DEF MmioOK
<1>11. m.base \in Nat
  BY <1>0, <1>3
<1>12. (m.base + size) % PGSIZE = 0
  BY <1>2, <1>3, <1>11, Multiples
<1> DEFINE b == m.base
           q == c.pa % PGSIZE
<1>13. size \in Nat /\ pa \in Nat /\ q \in Nat /\ c.pa - pa = q /\ q + c.size <= size
  BY <1>2
<1>14. b \in Nat /\ MMIOBASE <= b /\ b < MMIOLIM
  BY <1>0, <1>3
<1> HIDE DEF u, ds, pa, end, size, b, q
<1>15. CASE m.panic \/ m.base + size >= MMIOLIM
  <2>1. u.panic = TRUE /\ u.base = m.base /\ u.ret = m.ret /\ u.map = m.map
    BY <1>8, <1>15
  <2>2. Len(m.ret) <= Len(ds)
    BY <1>3, <1>9
  <2>3. MmioOK(u, ds)
    <3>1. \A k \in 1 .. Len(u.ret) : \A d \in 0 .. ds[k].size - 1 :
            LET a == u.ret[k] + (ds[k].pa % PGSIZE) + d
            IN a \in DOMAIN u.map /\ u.map[a] = ds[k].pa + d
      BY <1>10, <2>1
    <3>2. /\ u.panic \in BOOLEAN /\ u.panic
          /\ u.base \in MMIOBASE .. MMIOLIM - 1 /\ u.base % PGSIZE = 0
          /\ DOMAIN u.map = MMIOBASE .. u.base - 1 /\ u.ret \in Seq(Nat) /\ Len(u.ret) <= Len(ds)
      BY <1>3, <2>1, <2>2
    <3> QED BY <3>1, <3>2 DEF MmioOK
  <2> QED BY <2>3 DEF u, ds
<1>16. CASE ~m.panic /\ ~(m.base + size >= MMIOLIM)
  <2>1. u.panic = FALSE /\ u.base = m.base + size /\ u.ret = Append(m.ret, m.base) /\ u.map = map
    BY <1>8, <1>16
  <2>2. b + size < MMIOLIM
    <3>1. ~(b + size >= MMIOLIM)
      BY <1>16 DEF b
    <3> QED BY <1>0, <1>13, <1>14, <3>1
  <2>3. b + size \in MMIOBASE .. MMIOLIM - 1
    BY <1>0, <1>13, <1>14, <2>2
  <2>4. /\ DOMAIN map = MMIOBASE .. b + size - 1
        /\ \A a \in MMIOBASE .. b - 1 : a \in DOMAIN map /\ map[a] = m.map[a]
        /\ \A a \in b .. b + size - 1 : a \in DOMAIN map /\ map[a] = pa + (a - b)
    <3>1. DOMAIN m.map = MMIOBASE .. b - 1
      BY <1>3 DEF b
    <3>2. (MMIOBASE .. b - 1) \cup (b .. b + size - 1) = MMIOBASE .. b + size - 1
      BY <1>0, <1>13, <1>14
    <3>3. map = [a \in MMIOBASE .. b + size - 1 |->
                   IF a \in MMIOBASE .. b - 1 THEN m.map[a] ELSE pa + (a - b)]
      BY <3>1, <3>2 DEF b
    <3> HIDE DEF map
    <3>4. \A a \in b .. b + size - 1 : a \notin MMIOBASE .. b - 1 /\ a \in MMIOBASE .. b + size - 1
      BY <1>0, <1>13, <1>14
    <3>5. \A a \in MMIOBASE .. b - 1 : a \in MMIOBASE .. b + size - 1
      BY <1>0, <1>13, <1>14
    <3> QED BY <3>3, <3>4, <3>5
  <2> HIDE DEF map
  <2>5. /\ u.ret \in Seq(Nat) /\ Len(u.ret) = Len(ds) /\ Len(u.ret) = Len(m.ret) + 1
        /\ u.ret[Len(m.ret) + 1] = m.base /\ \A k \in 1 .. Len(m.ret) : u.ret[k] = m.ret[k]
    <3>1. m.base \in Nat
      BY <1>0, <1>3
    <3> QED BY <1>3, <1>9, <1>16, <2>1, <3>1
  <2>6. ASSUME NEW k \in 1 .. Len(u.ret), NEW d \in 0 .. ds[k].size - 1
        PROVE  LET a == u.ret[k] + (ds[k].pa % PGSIZE) + d
               IN a \in DOMAIN map /\ map[a] = ds[k].pa + d
    <3>1. CASE k \in 1 .. Len(m.ret)
      <4> DEFINE a == m.ret[k] + (ds[k].pa % PGSIZE) + d
      <4>1. a \in MMIOBASE .. b - 1 /\ m.map[a] = ds[k].pa + d
        BY <1>3, <1>10, <3>1 DEF b
      <4> HIDE DEF a
      <4>2. a \in DOMAIN map /\ map[a] = ds[k].pa + d
        BY <2>4, <4>1
      <4> QED BY <2>5, <3>1, <4>2 DEF a
    <3>2. CASE k = Len(m.ret) + 1
      <4> DEFINE a == b + q + d
      <4>1. ds[k] = c /\ u.ret[k] = b
        BY <1>3, <1>9, <1>16, <2>5, <3>2 DEF b
      <4>2. d \in 0 .. c.size - 1
        BY <4>1
      <4>3. a \in b .. b + size - 1 /\ pa + (a - b) = c.pa + d
        <5>1. size \in Nat /\ q \in Nat /\ b \in Nat /\ c.size \in Nat /\ q + c.size <= size
          BY <1>0, <1>13, <1>14
        <5>2. a \in b .. b + size - 1 /\ a - b = q + d
          <6>1. d \in Nat /\ d < c.size
            BY <4>2, <5>1
          <6>2. a \in Int /\ b <= a /\ a - b = q + d
            <7>1. \A f, g, h \in Nat : f + g + h \in Int /\ f <= f + g + h /\ (f + g + h) - f = g + h
              OBVIOUS
            <7> QED BY <5>1, <6>1, <7>1
          <6>3. a <= b + size - 1
            <7>1. q + d <= size - 1
              BY <5>1, <6>1
            <7> HIDE DEF a
            <7> QED BY <5>1, <6>1, <6>2, <7>1
          <6> QED BY <5>1, <6>2, <6>3
        <5>3. pa + (q + d) = c.pa + d
          <6>1. \A x, y, g, h \in Int : x - y = g => y + (g + h) = x + h
            OBVIOUS
          <6>2. c.pa \in Int /\ pa \in Int /\ q \in Int /\ d \in Int /\ c.pa - pa = q
            BY <1>0, <1>13, <4>2
          <6> QED BY <6>1, <6>2
        <5> QED BY <5>2, <5>3
      <4> HIDE DEF a
      <4>4. a \in DOMAIN map /\ map[a] = c.pa + d
        BY <2>4, <4>3
      <4> QED BY <4>1, <4>4 DEF a, q
    <3> QED BY <1>3, <2>5, <3>1, <3>2
  <2>7. u.panic = FALSE /\ u.base = b + size /\ u.map = map /\ (b + size) % PGSIZE = 0
    BY <1>12, <2>1 DEF b
  <2>8. MmioOK(u, ds)
    <3>1. (b + size) - 1 = b + size - 1
      BY <1>13, <1>14
    <3>2. DOMAIN u.map = MMIOBASE .. u.base - 1
      BY <2>4, <2>7, <3>1
    <3>3. \A k \in 1 .. Len(u.ret) : \A d \in 0 .. ds[k].size - 1 :
            LET a == u.ret[k] + (ds[k].pa % PGSIZE) + d
            IN a \in DOMAIN u.map /\ u.map[a] = ds[k].pa + d
      BY <2>6, <2>7
    <3> QED BY <2>3, <2>5, <2>7, <3>2, <3>3 DEF MmioOK
  <2> QED BY <2>8 DEF u, ds
<1> QED BY <1>15, <1>16

\* Before the first call there is nothing.
LEMMA MmioStarts ==
  MmioOK([panic |-> FALSE, base |-> MMIOBASE, ret |-> <<>>, map |-> <<>>], <<>>)
<1>1. MMIOBASE \in MMIOBASE .. MMIOLIM - 1 /\ MMIOBASE % PGSIZE = 0 /\ MMIOBASE .. MMIOBASE - 1 = {}
  BY RangeAssumption
<1>2. DOMAIN <<>> = {}
  OBVIOUS
<1> QED BY <1>1, <1>2 DEF MmioOK

\* MmioOK is what RegionsHold asks for.
LEMMA MmioHolds ==
  ASSUME NEW cs, MmioOK(mmio_calls(cs), cs)
  PROVE  RegionsHold(cs)
<1> DEFINE m == mmio_calls(cs)
<1>1. MmioOK(m, cs)
  OBVIOUS
<1> HIDE DEF m
<1>2. DOMAIN m.map \subseteq MMIOBASE .. MMIOLIM - 1
  BY <1>1, RangeAssumption DEF MmioOK
<1>3. \A k \in DOMAIN m.ret : \A d \in 0 .. cs[k].size - 1 :
        LET a == m.ret[k] + (cs[k].pa % PGSIZE) + d
        IN a \in DOMAIN m.map /\ m.map[a] = cs[k].pa + d
  <2>1. DOMAIN m.ret = 1 .. Len(m.ret)
    <3>1. m.ret \in Seq(Nat)
      BY <1>1 DEF MmioOK
    <3> QED BY <3>1
  <2> QED BY <1>1, <2>1 DEF MmioOK
<1> QED BY <1>2, <1>3 DEF RegionsHold, m

-----------------------------------------------------------------------------
\* strlcpy, for every memory, size and string: the source ends somewhere and
\* the destination does not overlap it.
THEOREM StrlcpyFits ==
  ASSUME NEW N \in Nat, NEW M \in [0 .. N - 1 -> Int],
         NEW dst \in Nat, NEW src \in Nat, NEW size \in Nat, dst + size <= N,
         NEW z \in Nat, src + z < N, M[src + z] = 0,
         src + z < dst \/ dst + size <= src
  PROVE  CopyFits(M, dst, src, size)
<1> DEFINE r == strlcpy(M, dst, src, size)
<1> SUFFICES ASSUME size > 0
             PROVE  /\ r.mem[dst + r.ret] = 0 /\ r.ret < size
                    /\ \A a \in DOMAIN M \ (dst .. dst + size - 1) : r.mem[a] = M[a]
                    /\ strncmp(r.mem, dst, src, r.ret) = 0
                    /\ (strlen(M, src) < size => strcmp(r.mem, dst, src) = 0)
  BY DEF CopyFits
<1> DEFINE n == strnlen(M, src, size - 1)
           t == [a \in DOMAIN M |-> IF a \in dst .. dst + n - 1 THEN M[src + (a - dst)]
                                      ELSE IF a = dst + n THEN 0 ELSE M[a]]
<1>1. r.mem = t /\ r.ret = n
  BY DEF strlcpy
<1>2. /\ n \in Nat /\ n < size /\ n <= z
      /\ \A k \in 0 .. n - 1 : M[src + k] # 0
      /\ n # size - 1 => M[src + n] = 0
  <2> DEFINE S == {size - 1} \cup {k \in 0 .. (size - 1) - 1 : M[src + k] = 0}
  <2>1. S \subseteq Nat /\ S # {} /\ size - 1 \in S
    OBVIOUS
  <2>2. n = Min(S)
    BY DEF strnlen
  <2>3. n \in S /\ \A y \in S : n <= y
    <3>1. Min(S) \in S /\ \A y \in S : Min(S) <= y
      <4> HIDE DEF S
      <4> QED BY <2>1, LeastNatural
    <3> HIDE DEF S, n
    <3> QED BY <2>2, <3>1
  <2> HIDE DEF n
  <2>4. n \in Nat /\ n <= size - 1
    BY <2>1, <2>3
  <2>5. \A k \in 0 .. n - 1 : M[src + k] # 0
    <3> SUFFICES ASSUME NEW k \in 0 .. n - 1, M[src + k] = 0 PROVE FALSE
      OBVIOUS
    <3>1. k \in S
      BY <2>4
    <3>2. n <= k
      <4> HIDE DEF S
      <4> QED BY <2>3, <3>1
    <3> QED BY <2>4, <3>2
  <2>6. n <= z
    BY <2>4, <2>5
  <2>7. n # size - 1 => M[src + n] = 0
    BY <2>3
  <2> QED BY <2>4, <2>5, <2>6, <2>7
<1> HIDE DEF r, n, t
<1>3. /\ \A k \in 0 .. n - 1 : t[dst + k] = M[src + k] /\ t[dst + k] # 0
      /\ t[dst + n] = 0
      /\ \A k \in 0 .. n : t[src + k] = M[src + k] /\ M[src + k] \in Int
      /\ \A a \in 0 .. N - 1 : a \notin dst .. dst + n => t[a] = M[a]
      /\ DOMAIN t = 0 .. N - 1
  <2>1. \A k \in 0 .. n : /\ dst + k \in 0 .. N - 1 /\ src + k \in 0 .. N - 1
                          /\ src + k \notin dst .. dst + n
    BY <1>2
  <2>2. \A k \in 0 .. n - 1 : dst + k \in dst .. dst + n - 1 /\ src + ((dst + k) - dst) = src + k
    BY <1>2
  <2>3. dst + n \notin dst .. dst + n - 1 /\ n \in 0 .. n
    BY <1>2
  <2>4. dst .. dst + n - 1 \subseteq dst .. dst + n /\ dst + n \in dst .. dst + n /\ 0 .. n - 1 \subseteq 0 .. n
    BY <1>2
  <2>5. \A a \in 0 .. N - 1 : a \notin dst .. dst + n => t[a] = M[a]
    BY <2>4 DEF t
  <2>6. \A k \in 0 .. n - 1 : t[dst + k] = M[src + k]
    BY <2>1, <2>2, <2>4 DEF t
  <2>7. t[dst + n] = 0
    BY <2>1, <2>3 DEF t
  <2>8. \A k \in 0 .. n : t[src + k] = M[src + k] /\ M[src + k] \in Int
    BY <2>1, <2>5
  <2>9. DOMAIN t = 0 .. N - 1
    BY DEF t
  <2> QED BY <1>2, <2>5, <2>6, <2>7, <2>8, <2>9
<1>4. \A a \in DOMAIN M \ (dst .. dst + size - 1) : t[a] = M[a]
  BY <1>2, <1>3
<1>5. strncmp(t, dst, src, n) = 0
  <2> DEFINE S == {n} \cup {k \in 0 .. n - 1 : t[dst + k] = 0 \/ t[dst + k] # t[src + k]}
  <2>1. S = {n}
    <3>1. \A k \in 0 .. n - 1 : k \in 0 .. n
      BY <1>2
    <3> QED BY <1>3, <3>1
  <2>2. FirstStop(t, dst, src, n) = Min(S)
    BY DEF FirstStop
  <2>3. Min(S) = n
    <3>1. {n} \subseteq Nat /\ {n} # {}
      BY <1>2
    <3>2. Min({n}) \in {n}
      BY <3>1, LeastNatural
    <3> QED BY <2>1, <3>2
  <2> QED BY <2>2, <2>3 DEF strncmp
<1>6. ASSUME strlen(M, src) < size PROVE strcmp(t, dst, src) = 0
  <2>0. Cardinality(0 .. N - 1) = N
    <3>1. Cardinality(0 .. N - 1) = IF 0 > N - 1 THEN 0 ELSE (N - 1) - 0 + 1
      BY FS_Interval
    <3>2. (IF 0 > N - 1 THEN 0 ELSE (N - 1) - 0 + 1) = N
      OBVIOUS
    <3> QED BY <3>1, <3>2
  <2>1. M[src + n] = 0
    <3> SUFFICES ASSUME n = size - 1 PROVE M[src + n] = 0
      BY <1>2
    <3> DEFINE S == {k \in 0 .. N : src + k \in 0 .. N - 1 /\ M[src + k] = 0}
    <3>1. strlen(M, src) = Min(S)
      BY <2>0 DEF strlen
    <3>2. S \subseteq Nat /\ z \in S
      OBVIOUS
    <3>3. Min(S) \in S
      BY <3>2, LeastNatural
    <3> DEFINE l == Min(S)
    <3> HIDE DEF S
    <3>4. l \in Nat /\ M[src + l] = 0 /\ l < size
      BY <1>6, <3>1, <3>3 DEF S
    <3> HIDE DEF l
    <3>5. l = n
      BY <1>2, <3>4
    <3> QED BY <3>4, <3>5
  <2>2. strlen(t, dst) = n
    <3> DEFINE S == {k \in 0 .. N : dst + k \in 0 .. N - 1 /\ t[dst + k] = 0}
    <3>1. strlen(t, dst) = Min(S)
      BY <1>3, <2>0 DEF strlen
    <3>2. n \in S /\ S \subseteq Nat
      BY <1>2, <1>3
    <3>3. \A k \in S : n <= k
      BY <1>2, <1>3
    <3> QED BY <3>1, <3>2, <3>3, LeastIs
  <2>3. FirstStop(t, dst, src, n + 1) = n
    <3> DEFINE S == {n + 1} \cup {k \in 0 .. (n + 1) - 1 : t[dst + k] = 0 \/ t[dst + k] # t[src + k]}
    <3>1. FirstStop(t, dst, src, n + 1) = Min(S)
      BY DEF FirstStop
    <3>2. n \in S /\ S \subseteq Nat
      BY <1>2, <1>3
    <3>3. \A k \in S : n <= k
      <4>1. \A k \in 0 .. n - 1 : k \in 0 .. n
        BY <1>2
      <4> QED BY <1>2, <1>3, <4>1
    <3> QED BY <3>1, <3>2, <3>3, LeastIs
  <2>4. strcmp(t, dst, src) = t[dst + n] - t[src + n]
    BY <2>2, <2>3 DEF strcmp
  <2>5. t[src + n] = 0
    BY <1>2, <1>3, <2>1
  <2> QED BY <1>3, <2>4, <2>5
<1> QED BY <1>1, <1>2, <1>3, <1>4, <1>5, <1>6
=============================================================================
