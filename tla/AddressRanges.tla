---------------------------- MODULE AddressRanges ----------------------------
(***************************************************************************)
(* Code that rounds address ranges to pages or sectors: user_mem_check and *)
(* mmio_map_region of kern/pmap.c, readseg and bootmain of boot/main.c.    *)
(* Addresses are bytes of a small address space: NADDR stands for 2^32,    *)
(* and every sum is taken modulo it.                                       *)
(***************************************************************************)
EXTENDS Integers, Sequences, FiniteSets, FiniteSetsExt, SequencesExt

CONSTANTS PGSIZE, NADDR, ULIM, MMIOBASE, MMIOLIM, SECTSIZE, ELFHDR

ASSUME RangeAssumption ==
  /\ PGSIZE \in Nat \ {0} /\ SECTSIZE \in Nat \ {0}
  /\ {NADDR, ULIM, MMIOBASE, MMIOLIM, ELFHDR} \subseteq Nat
  /\ NADDR % PGSIZE = 0 /\ ULIM % PGSIZE = 0 /\ MMIOBASE % PGSIZE = 0 /\ MMIOBASE < MMIOLIM

ROUNDDOWN(a) == a - (a % PGSIZE)
ROUNDUP(a) == ROUNDDOWN((a + PGSIZE - 1) % NADDR)

(***************************************************************************)
(* user_mem_check.  pte gives the permission bits of each mapped page.     *)
(***************************************************************************)
Accessible(pte, a, perm) ==
  a < ULIM /\ ROUNDDOWN(a) \in DOMAIN pte /\ perm \cup {"P"} \subseteq pte[ROUNDDOWN(a)]

\* Mutant: the range is not extended to the end of its last page.
user_mem_check_short(pte, va, len, perm) ==
  LET bad == {i \in ROUNDDOWN(va) .. ROUNDDOWN((va + len) % NADDR) - 1 :
                i % PGSIZE = 0 /\ ~Accessible(pte, i, perm)}
  IN IF bad = {} THEN [ok |-> TRUE, addr |-> 0]
     ELSE [ok |-> FALSE, addr |-> IF Min(bad) < va THEN va ELSE Min(bad)]

\* The result, and user_mem_check_addr if it is an error.
user_mem_check(pte, va, len, perm) ==
  LET bad == {i \in ROUNDDOWN(va) .. ROUNDUP((va + len) % NADDR) - 1 :
                i % PGSIZE = 0 /\ ~Accessible(pte, i, perm)}
  IN IF bad = {} THEN [ok |-> TRUE, addr |-> 0]
     ELSE [ok |-> FALSE, addr |-> IF Min(bad) < va THEN va ELSE Min(bad)]

(***************************************************************************)
(* mmio_map_region, with the static base and the mappings made so far.     *)
(***************************************************************************)
\* boot_map_region: size bytes from va on are mapped to pa, whatever was there.
boot_map_region(map, va, size, pa) ==
  LET span == {(va + d) % NADDR : d \in 0 .. size - 1}
  IN [a \in DOMAIN map \cup span |->
        IF a \in span THEN (pa + ((a - va) % NADDR)) % NADDR ELSE map[a]]

\* Mutant: the size is rounded, but not the start.
mmio_map_region_start(m, c) ==
  LET size == ROUNDUP(c.size) IN
  IF m.panic \/ (m.base + size) % NADDR >= MMIOLIM THEN [m EXCEPT !.panic = TRUE]
  ELSE [panic |-> FALSE, base |-> (m.base + size) % NADDR, ret |-> Append(m.ret, m.base),
        map |-> boot_map_region(m.map, m.base, size, ROUNDDOWN(c.pa))]

mmio_map_region(m, c) ==
  LET size == (ROUNDUP(c.pa + c.size) - ROUNDDOWN(c.pa)) % NADDR IN
  IF m.panic \/ (m.base + size) % NADDR >= MMIOLIM THEN [m EXCEPT !.panic = TRUE]
  ELSE [panic |-> FALSE, base |-> (m.base + size) % NADDR, ret |-> Append(m.ret, m.base),
        map |-> boot_map_region(m.map, m.base, size, ROUNDDOWN(c.pa))]

\* A sequence of calls, from the beginning.
mmio_calls(cs) ==
  FoldLeft(mmio_map_region, [panic |-> FALSE, base |-> MMIOBASE, ret |-> <<>>, map |-> <<>>], cs)

(***************************************************************************)
(* The boot loader.  Byte n of the kernel image is the number n; it starts *)
(* at sector 1 of the disk.                                                *)
(***************************************************************************)
SectorDown(a) == a - (a % SECTSIZE)

\* Mutant: the last sector of a segment is left out.
readseg_short(mem, s) ==
  LET first == SectorDown(s.pa)
      sector == s.offset \div SECTSIZE + 1
  IN [a \in DOMAIN mem |->
        IF \E k \in 0 .. s.memsz : /\ first + k * SECTSIZE + SECTSIZE <= s.pa + s.memsz
                                   /\ SectorDown(a) = first + k * SECTSIZE
        THEN (sector - 1) * SECTSIZE + (a - first) ELSE mem[a]]

\* readseg: whole sectors, from the one that pa lies in.
readseg(mem, s) ==
  LET first == SectorDown(s.pa)
      sector == s.offset \div SECTSIZE + 1
  IN [a \in DOMAIN mem |->
        IF \E k \in 0 .. s.memsz : /\ first + k * SECTSIZE < s.pa + s.memsz
                                   /\ SectorDown(a) = first + k * SECTSIZE
        THEN (sector - 1) * SECTSIZE + (a - first) ELSE mem[a]]

\* bootmain: the first page of the image, its magic number, then the segments
\* its program headers name.  enter: the kernel is called; else it spins.
Header == [pa |-> ELFHDR, memsz |-> 8 * SECTSIZE, offset |-> 0]
bootmain(mem, magic, segs) ==
  IF magic THEN [enter |-> TRUE, mem |-> FoldLeft(readseg, readseg(mem, Header), segs)]
  ELSE [enter |-> FALSE, mem |-> readseg(mem, Header)]

-----------------------------------------------------------------------------
\* What the comment over user_mem_check (kern/pmap.c:637-645) promises: a range
\* is accepted exactly if the environment may access every byte of it, and
\* otherwise the first byte it may not access is reported.
ChecksEveryByte(pte, va, len, perm) ==
  LET r == user_mem_check(pte, va, len, perm)
      bad == {a \in va .. va + len - 1 : ~Accessible(pte, a, perm)}
  IN IF bad = {} THEN r.ok ELSE ~r.ok /\ r.addr = Min(bad)

\* The ranges for which it keeps that promise: not empty, and ending before the
\* last page of the address space.  The end of any later one wraps around to 0
\* or beyond when it is rounded up, and the range is accepted unseen (unless it
\* spans nearly all memory); an empty range inside a page is judged by that page.
RoundsInside(va, len) == len > 0 /\ va + len <= NADDR - PGSIZE

\* The regions mmio_map_region returns hold what they were asked for, do not
\* overlap, and stay below MMIOLIM.  The regions are such that neither the
\* device nor the window reaches the end of the address space.
RegionsHold(cs) ==
  LET m == mmio_calls(cs)
  IN /\ DOMAIN m.map \subseteq MMIOBASE .. MMIOLIM - 1
     /\ \A k \in DOMAIN m.ret : \A d \in 0 .. cs[k].size - 1 :
          LET a == m.ret[k] + (cs[k].pa % PGSIZE) + d
          IN a \in DOMAIN m.map /\ m.map[a] = cs[k].pa + d

\* A kernel whose segments begin in sectors of their own, at the same place
\* in a sector in memory and on disk, is loaded: no segment loses bytes to
\* the sector that is read too much for its neighbour, and the program headers,
\* below the segments, stay as they are while they are read.  Without the magic
\* number the kernel is not entered.
SegmentsLoaded(mem, magic, segs) ==
  LET r == bootmain(mem, magic, segs) IN
  (/\ \A k \in DOMAIN segs : segs[k].pa % SECTSIZE = segs[k].offset % SECTSIZE
   /\ \A k \in 2 .. Len(segs) : SectorDown(segs[k].pa) >= segs[k - 1].pa + segs[k - 1].memsz)
  => /\ r.enter = magic
     /\ \A d \in 0 .. Header.memsz - 1 : r.mem[ELFHDR + d] = d
     /\ magic => \A k \in DOMAIN segs : \A d \in 0 .. segs[k].memsz - 1 :
                   r.mem[segs[k].pa + d] = segs[k].offset + d
=============================================================================
