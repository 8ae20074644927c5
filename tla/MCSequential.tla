---------------------------- MODULE MCSequential ----------------------------
(***************************************************************************)
(* The sequential parts of the kernel and of its library for TLC.  The     *)
(* exception stack is explored step by step; of every other part one call  *)
(* is made, with each input of a small set.                                *)
(***************************************************************************)
EXTENDS PgfaultStack, MemInit, AddressRanges, LibFormat, Keyboard, Kdebug, MpConfig

VARIABLE in    \* the function that is called, and its arguments

Init ==
  /\ PfInit
  /\ in \in [fn : {"none", "pgfault"}] /\ (in.fn = "none" => esp = Max(UserEsp))

SeqUpTo(S, n) == UNION {[1 .. k -> S] : k \in 0 .. n}

Call(f) == in' = f /\ UNCHANGED pfvars

CallMemInit ==
  in.fn = "none" /\ \E baseK \in {636, 640}, end \in {300, 384, 512, 700},
     extK \in {0, 1024, 2048, 3000, 3071, 3072, 3076, 8192, 31744, 65535} :
    Call([fn |-> "mem_init", baseK |-> baseK, extK |-> extK, end |-> end])

CallUserMemCheck ==
  in.fn = "none" /\ \E va \in ULIM - 10 .. ULIM + 6 \cup NADDR - 12 .. NADDR - 1, len \in 0 .. 9,
     hole \in {p \in 0 .. NADDR - 1 : p % PGSIZE = 0}, pte \in {{}, {"P", "U"}} :
    Call([fn |-> "user_mem_check", va |-> va, len |-> len,
          pte |-> [p \in {q \in 0 .. NADDR - 1 : q % PGSIZE = 0} |->
                     IF p = hole THEN pte ELSE {"P", "U", "W"}]])

CallMmio ==
  in.fn = "none" /\ \E cs \in SeqUpTo([pa : {0, 3, 5}, size : {1, 4, 5}], 3) :
    Call([fn |-> "mmio_map_region", calls |-> cs])

CallBootmain ==
  in.fn = "none" /\ \E segs \in SeqUpTo([pa : {32, 34, 37, 40, 43}, memsz : {1, 3, 6}, offset : {0, 4, 6, 9, 11}], 2), magic \in BOOLEAN :
    Call([fn |-> "bootmain", magic |-> magic, segs |-> segs])

CallMemmove ==
  in.fn = "none" /\ \E d, s \in 0 .. 7, n \in 0 .. 6 : Call([fn |-> "memmove", d |-> d, s |-> s, n |-> n])

CallStrlcpy ==
  in.fn = "none" /\ \E src \in SeqUpTo({1, 2}, 4), size \in 0 .. 6 :
    Call([fn |-> "strlcpy", size |-> size,
          mem |-> [a \in 0 .. 15 |-> IF a < 5 THEN (src \o <<0, 0, 0, 0, 0>>)[a + 1] ELSE 9]])

CallPrintNumber ==
  in.fn = "none" /\ \E num \in -20 .. 20 \cup 62 .. 66 \cup 253 .. 260 \cup {-UINT \div 2, UINT \div 2 - 1},
     conv \in {conv_d, conv_u, conv_o, conv_x}, l \in 0 .. 2, width \in 1 .. 6 :
    /\ conv = conv_d /\ l < 2 => num < UINT \div 2    \* an int
    /\ Call([fn |-> "printnum", num |-> num, conv |-> conv, l |-> l, width |-> width])

CallPrintUnknown ==
  in.fn = "none" /\ \E pre, post \in SeqUpTo({1, 26}, 1), flags \in SeqUpTo({minus, 0, 5, dot, hash, conv_l}, 3) :
    Call([fn |-> "unknown", fmt |-> pre \o <<percent>> \o flags \o <<26>> \o post])

CallPrintString ==
  in.fn = "none" /\ \E left \in BOOLEAN, width \in 1 .. 6, precision \in -1 .. 4,
     p \in {NULL} \cup {[k \in 1 .. n |-> 9 + k] : n \in 0 .. 5} :
    Call([fn |-> "cprintf", left |-> left, width |-> width, precision |-> precision, p |-> p])

CallKeyboard ==
  in.fn = "none" /\ \E evs \in SeqUpTo([key : Keys, down : BOOLEAN], 3) \ {<<>>} :
    Call([fn |-> "kbd", evs |-> evs])

CallBinsearch ==
  in.fn = "none" /\ \E n \in 0 .. 4, addr \in 0 .. 4 :
    \E types \in [0 .. n -> {"FUN", "X"}], values \in [0 .. n -> 0 .. 3] :
      /\ \A k \in 1 .. n : values[k - 1] <= values[k]
      /\ Call([fn |-> "stab_binsearch", addr |-> addr,
               stabs |-> [k \in 0 .. n |-> [type |-> types[k], value |-> values[k]]]])

Stab(t, v, d) == [type |-> t, value |-> v, desc |-> d]

CallDebuginfo ==
  in.fn = "none" /\ \E f2 \in 7 .. 8, l1, l2, l3 \in {0, 2, 5}, addr \in 0 .. 14, valid \in BOOLEAN :
    /\ l1 <= l2
    /\ Call([fn |-> "debuginfo_eip", addr |-> addr, valid |-> valid,
             stabs |-> [k \in 0 .. 8 |->
               <<Stab("HDR", 0, ""), Stab("SO", 1, ""), Stab("FUN", 1, "f"), Stab("PSYM", 0, ""),
                 Stab("SLINE", l1, 10), Stab("SLINE", l2, 11), Stab("FUN", f2, "g"),
                 Stab("SLINE", 0, 20), Stab("SLINE", l3, 21)>>[k + 1]]])

CallMpInit ==
  in.fn = "none" /\ \E entries \in SeqUpTo({"proc", "boot", "other", "unknown"}, 5) :
    Call([fn |-> "mp_init", entries |-> entries])

CallRuncmd ==
  in.fn = "none" /\ \E buf \in SeqUpTo({"w", "blank"}, 8) : Call([fn |-> "runcmd", buf |-> buf])

Next ==
  \/ in.fn = "pgfault" /\ PfNext /\ UNCHANGED in
  \/ CallMemInit \/ CallUserMemCheck \/ CallMmio \/ CallBootmain \/ CallMemmove \/ CallStrlcpy
  \/ CallPrintNumber \/ CallPrintUnknown \/ CallPrintString \/ CallKeyboard
  \/ CallBinsearch \/ CallDebuginfo \/ CallMpInit \/ CallRuncmd

Spec == Init /\ [][Next]_<<pfvars, in>>

-----------------------------------------------------------------------------
\* Starting up uses what there is.  For every size of memory the NVRAM can
\* report and kernels of up to 2.7 MB, mem_init touches only the 4 MB that
\* entry_pgdir maps (TouchesMapped) and leaves a free list of unused memory
\* (FreeIsUnused); bootmain loads every segment although readseg writes whole
\* sectors (SegmentsLoaded); the processors of the MP table are numbered
\* within the arrays (NumbersCpus).
BootFindsMachine ==
  /\ in.fn = "mem_init" =>
       LET m == mem_init(in.baseK, in.extK, in.end) IN TouchesMapped(m) /\ FreeIsUnused(m, in.end)
  /\ in.fn = "bootmain" => SegmentsLoaded([a \in 0 .. NADDR - 1 |-> -1], in.magic, in.segs)
  /\ in.fn = "mp_init" => NumbersCpus(in.entries)

\* Address ranges that are rounded to pages keep their bytes.  Of the ranges
\* that are not empty and end before the last page of the address space
\* (RoundsInside), user_mem_check accepts exactly those a program may use, and
\* reports the first bad byte of the others (ChecksEveryByte).  Nothing is
\* claimed of the rest, for which the code breaks that promise
\* (SequentialProof!UserMemCheckLimit).  mmio_map_region keeps device regions
\* apart, whole and below MMIOLIM (RegionsHold).
RangesHold ==
  /\ in.fn = "user_mem_check" /\ RoundsInside(in.va, in.len) =>
       ChecksEveryByte(in.pte, in.va, in.len, {"U", "W"})
  /\ in.fn = "mmio_map_region" => RegionsHold(in.calls)

\* The library computes what its callers rely on: memmove copies ranges that
\* overlap (MovesAll), strlcpy stays in its buffer and ends the string
\* (CopyFits), strtol reads back what printfmt prints (ReadsBack), unknown
\* escape sequences are printed as they are (PrintsUnknown), and a string
\* fills its field and reaches sys_cputs whole (FillsField).
LibraryExact ==
  /\ in.fn = "memmove" => MovesAll([a \in 0 .. 15 |-> a], in.d, in.s, in.n)
  /\ in.fn = "strlcpy" => CopyFits(in.mem, 8, 0, in.size)
  /\ in.fn = "printnum" => ReadsBack(in.num, in.conv, in.l, in.width)
  /\ in.fn = "unknown" => PrintsUnknown(in.fmt)
  /\ in.fn = "cprintf" => FillsField(in.left, in.width, in.precision, in.p)

\* The monitor understands keys, lines and return addresses: modifiers and
\* characters follow the scan codes (DecodesKeys), runcmd splits its line
\* within argv (SplitsLine), stab_binsearch ends with the region of the
\* address (Brackets) and debuginfo_eip with its function and line (FindsLine).
MonitorUnderstands ==
  /\ in.fn = "kbd" => DecodesKeys(in.evs)
  /\ in.fn = "runcmd" => SplitsLine(in.buf)
  /\ in.fn = "stab_binsearch" => Brackets(in.stabs, 0, Max(DOMAIN in.stabs), "FUN", in.addr)
  /\ in.fn = "debuginfo_eip" => FindsLine(in.stabs, in.addr, in.valid)
=============================================================================
