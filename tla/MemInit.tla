------------------------------ MODULE MemInit ------------------------------
(***************************************************************************)
(* mem_init of kern/pmap.c as a function of the machine: how much memory   *)
(* the NVRAM reports and where the kernel image ends.  Everything counts   *)
(* pages, with the sizes of inc/memlayout.h, inc/mmu.h and inc/env.h.      *)
(*                                                                         *)
(* Until lcr3 the kernel runs on entry_pgdir (kern/entrypgdir.c), which    *)
(* maps the first 4 MB only, and the free list holds pages above them.     *)
(***************************************************************************)
EXTENDS Integers, Sequences, FiniteSets, FiniteSetsExt, SequencesExt

NPTENTRIES == 1024
IOPHYSMEM == 160
EXTPHYSMEM == 256
MPENTRY == 7
PagesPerPage == 512    \* struct PageInfo in a page
EnvPages == 32         \* NENV * sizeof(struct Env)

\* Page tables that are made before lcr3: for MMIO (check_page), UPAGES,
\* UENVS, the kernel stacks, and 2^32 - KERNBASE.
KernTables == 4 + 64

\* The page table of entry.S: what a kernel address is translated to.
entry_pgtable == [k \in 0 .. NPTENTRIES - 1 |-> k]
EntryMapped == DOMAIN entry_pgtable

\* i386_detect_memory, from the kilobytes in the NVRAM.
i386_detect_memory(baseK, extK) ==
  IF extK \div 4 > 0 THEN EXTPHYSMEM + extK \div 4 ELSE baseK \div 4

\* boot_alloc: where an allocation of n pages at nextfree leaves nextfree.
boot_alloc(nextfree, n) == nextfree + n

\* The first page behind kern_pgdir, pages and envs.
FirstFree(end, npages) ==
  boot_alloc(boot_alloc(boot_alloc(end, 1),
                        (npages + PagesPerPage - 1) \div PagesPerPage),
             EnvPages)

\* a, a - 1, ..., b: what pushing b .. a onto a list leaves.
Down(a, b) == [k \in 1 .. (IF a < b THEN 0 ELSE a - b + 1) |-> a - k + 1]

\* Mutant: the pages of envs are put on the list as well.
page_init_envs(end, npages) ==
  Down(npages - 1, FirstFree(end, npages) - EnvPages) \o Down(MPENTRY - 1, 1)

\* The free list, head first.
page_init(end, npages) ==
  Down(npages - 1, FirstFree(end, npages)) \o Down(MPENTRY - 1, 1)

\* Mutant: the pages stay in the order of page_init.
check_page_free_list_keep(list) == list

\* check_page_free_list(1) moves the pages entry_pgdir maps to the front.
check_page_free_list(list) ==
  SelectSeq(list, LAMBDA p : p < NPTENTRIES) \o SelectSeq(list, LAMBDA p : p >= NPTENTRIES)

\* The assertions of check_page_free_list and check_page_alloc, and the
\* panic of boot_map_region.
BootFails(list) ==
  \/ ~ \E k \in DOMAIN list : list[k] >= EXTPHYSMEM
  \/ Len(list) < 3 + KernTables

\* mem_init up to lcr3.  The self tests give back the pages they take.
mem_init(baseK, extK, end) ==
  LET npages == i386_detect_memory(baseK, extK)
      list == check_page_free_list(page_init(end, npages))
  IN [npages |-> npages,
      fails |-> BootFails(list),
      bootalloc |-> end .. FirstFree(end, npages) - 1,
      tables |-> {list[k] : k \in 1 .. (IF BootFails(list) THEN 0 ELSE KernTables)},
      free |-> IF BootFails(list) THEN <<>> ELSE SubSeq(list, KernTables + 1, Len(list))]

-----------------------------------------------------------------------------
\* mem_init touches nothing that entry_pgdir does not map: the arrays that
\* boot_alloc hands out and every page table page_alloc clears lie in the
\* first 4 MB, whatever the size of the memory, although the free list
\* begins with the highest page.
TouchesMapped(m) ==
  ~m.fails => m.bootalloc \cup m.tables \subseteq EntryMapped

\* What mem_init leaves on the free list is memory that nobody uses: not
\* page 0, the code the other processors start with, the I/O hole, the
\* kernel, its arrays or its page tables; no page is on the list twice.
FreeIsUnused(m, end) ==
  /\ \A k \in DOMAIN m.free :
       /\ m.free[k] \in 1 .. m.npages - 1
       /\ m.free[k] # MPENTRY
       /\ m.free[k] \notin IOPHYSMEM .. end - 1
       /\ m.free[k] \notin m.bootalloc \cup m.tables
  /\ Cardinality({m.free[k] : k \in DOMAIN m.free}) = Len(m.free)
=============================================================================
