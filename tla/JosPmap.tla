------------------------------- MODULE JosPmap -------------------------------
(***************************************************************************)
(* Physical pages, address spaces and TLBs: kern/pmap.c, env_setup_vm,     *)
(* region_alloc and env_free of kern/env.c and the page and IPC calls of   *)
(* kern/syscall.c of OSLab7-Mitjoslab4.                                    *)
(*                                                                         *)
(* A system call runs under the big kernel lock and is one action.  It is  *)
(* built from operators that take the memory m as the code before them     *)
(* left it and return it as they leave it.  Who runs where is JosKernel's  *)
(* matter: here a CPU switches between environments that run nowhere else. *)
(* Permission bits other than PTE_P are left out, so a call that fails for *)
(* them is a call that changes nothing.                                    *)
(***************************************************************************)
EXTENDS Integers, FiniteSets

CONSTANTS
  Envs,    \* slots of envs[]
  Boot,    \* the environment env_create makes
  Cpus,    \* processors
  Pages,   \* physical pages on page_free_list after page_init
  Pdx,     \* page directory indexes of user addresses
  Ptx,     \* page table indexes
  REFMOD,  \* pp_ref is unsigned and counts modulo this (2^16)
  Null     \* a null pointer, an entry without PTE_P, an address >= UTOP

ASSUME PmapAssumption ==
  /\ Boot \in Envs
  /\ IsFiniteSet(Envs) /\ IsFiniteSet(Pages) /\ IsFiniteSet(Pdx) /\ IsFiniteSet(Ptx)
  /\ REFMOD \in Nat /\ REFMOD >= 2
  /\ Null \notin Envs \cup Pages \cup (Pdx \X Ptx)

Va == Pdx \X Ptx

VARIABLES
  mem,            \* page tables and PageInfo, see Memory
  env_parent,     \* whose child an environment is
  env_ipc_dstva,  \* {} if not receiving, else {dstva}
  cpu_env,        \* curenv of each CPU
  tlb             \* user translations each CPU has cached

vars == <<mem, env_parent, env_ipc_dstva, cpu_env, tlb>>

\* ref is pp_ref, free says how often a page is on page_free_list, pgdir, pde
\* and pte are the page an environment's directory, page table or address is.
Memory ==
  [ref   : [Pages -> 0 .. REFMOD - 1],
   free  : [Pages -> 0 .. 2],
   pgdir : [Envs -> Pages \cup {Null}],
   pde   : [Envs -> [Pdx -> Pages \cup {Null}]],
   pte   : [Envs -> [Va -> Pages \cup {Null}]]]

-----------------------------------------------------------------------------
(***************************************************************************)
(* The page allocator.  page_alloc returns the head of the list; the order *)
(* of the list is abstracted, so it may return any page that is on it.     *)
(***************************************************************************)

Available(m) == {p \in Pages : m.free[p] > 0}

page_alloc(m, p) == [m EXCEPT !.free[p] = @ - 1]

page_free(m, p) == [m EXCEPT !.free[p] = @ + 1]

incref(m, p) == [m EXCEPT !.ref[p] = (@ + 1) % REFMOD]

\* Mutant: the page is freed one reference too early.
page_decref_early(m, p) ==
  LET n == [m EXCEPT !.ref[p] = (@ - 1) % REFMOD]
  IN  IF n.ref[p] <= 1 THEN page_free(n, p) ELSE n

page_decref(m, p) ==
  LET n == [m EXCEPT !.ref[p] = (@ - 1) % REFMOD]
  IN  IF n.ref[p] = 0 THEN page_free(n, p) ELSE n

-----------------------------------------------------------------------------
(***************************************************************************)
(* Page tables of one environment.                                         *)
(***************************************************************************)

\* pgdir_walk with create: the memory afterwards, for every page it may have
\* taken for a new page table; {} if it returns NULL.
pgdir_walk(m, e, va) ==
  IF m.pde[e][va[1]] # Null THEN {m}
  ELSE {[incref(page_alloc(m, p), p) EXCEPT !.pde[e][va[1]] = p] : p \in Available(m)}

\* Mutant: the page table entry is not cleared.
page_remove_no_clear(m, e, va) ==
  IF m.pte[e][va] = Null THEN m ELSE page_decref(m, m.pte[e][va])

page_remove(m, e, va) ==
  IF m.pte[e][va] = Null THEN m
  ELSE [page_decref(m, m.pte[e][va]) EXCEPT !.pte[e][va] = Null]

\* Mutant: the new page is counted only after the old one is removed, which
\* frees it when it is mapped again where it is mapped already.
page_insert_late(m, e, p, va) ==
  {[incref(page_remove(w, e, va), p) EXCEPT !.pte[e][va] = p] : w \in pgdir_walk(m, e, va)}

\* page_insert: the new page is counted before the old one is removed.
page_insert(m, e, p, va) ==
  {[page_remove(incref(w, p), e, va) EXCEPT !.pte[e][va] = p] : w \in pgdir_walk(m, e, va)}

\* env_setup_vm for slot e with page p as directory.
env_setup_vm(m, e, p) == [incref(page_alloc(m, p), p) EXCEPT !.pgdir[e] = p]

\* How many entries of the environments es point to page p: page directory,
\* page table and page.
Entries(m, es, p) ==
  Cardinality({e \in es : m.pgdir[e] = p})
  + Cardinality({x \in es \X Pdx : m.pde[x[1]][x[2]] = p})
  + Cardinality({x \in es \X Va : m.pte[x[1]][x[2]] = p})

\* env_free: page_remove of all user pages, then page_decref of the page
\* tables and of the directory.  A page is counted down once for each entry
\* that points to it and is freed every time its count gets to 0.
env_free(m, e) ==
  [m EXCEPT
     !.ref   = [p \in Pages |-> (m.ref[p] - Entries(m, {e}, p)) % REFMOD],
     !.free  = [p \in Pages |->
                  m.free[p] + Cardinality({i \in 1 .. Entries(m, {e}, p) :
                                             (m.ref[p] - i) % REFMOD = 0})],
     !.pgdir = [@ EXCEPT ![e] = Null],
     !.pde   = [@ EXCEPT ![e] = [d \in Pdx |-> Null]],
     !.pte   = [@ EXCEPT ![e] = [va \in Va |-> Null]]]

\* region_alloc of one page: page_insert counts it, once.
region_alloc(m, e, va) ==
  UNION {page_insert(page_alloc(m, p), e, p, va) : p \in Available(m)}

\* Nothing allocated yet: page_init has counted every page as free.
Unused ==
  [ref   |-> [p \in Pages |-> 0],
   free  |-> [p \in Pages |-> 1],
   pgdir |-> [e \in Envs |-> Null],
   pde   |-> [e \in Envs |-> [d \in Pdx |-> Null]],
   pte   |-> [e \in Envs |-> [va \in Va |-> Null]]]

\* env_create: a directory and, by load_icode, one page of the program.
Init ==
  /\ \E p \in Pages, va \in Va : mem \in region_alloc(env_setup_vm(Unused, Boot, p), Boot, va)
  /\ env_parent = [e \in Envs |-> Null]
  /\ env_ipc_dstva = [e \in Envs |-> {}]
  /\ cpu_env = [c \in Cpus |-> Null]
  /\ tlb = [c \in Cpus |-> {}]

-----------------------------------------------------------------------------
(***************************************************************************)
(* Processors.                                                             *)
(***************************************************************************)

InUse(e)   == mem.pgdir[e] # Null
OnCpu(e)   == \E c \in Cpus : cpu_env[c] = e
Running(c) == cpu_env[c] # Null

\* env_run of another environment: lcr3 flushes the TLB.
env_run(c, e) ==
  /\ InUse(e) /\ ~ OnCpu(e) /\ env_ipc_dstva[e] = {}
  /\ cpu_env' = [cpu_env EXCEPT ![c] = e]
  /\ tlb' = [tlb EXCEPT ![c] = {}]
  /\ UNCHANGED <<mem, env_parent, env_ipc_dstva>>

\* The program on c touches va and the MMU caches the translation.
access(c, va) ==
  /\ Running(c)
  /\ LET p == mem.pte[cpu_env[c]][va]
     IN  p # Null /\ tlb' = [tlb EXCEPT ![c] = @ \cup {<<va, p>>}]
  /\ UNCHANGED <<mem, env_parent, env_ipc_dstva, cpu_env>>

\* Mutant: invlpg is forgotten.
tlb_invalidate_none(c, e, va) == tlb

\* tlb_invalidate on c, when the entry of e at va was present: only the TLB
\* of this CPU, and only if e is the environment it runs.
tlb_invalidate(c, e, va) ==
  IF mem.pte[e][va] # Null /\ cpu_env[c] \in {e, Null}
  THEN [tlb EXCEPT ![c] = {t \in @ : t[1] # va}] ELSE tlb

-----------------------------------------------------------------------------
(***************************************************************************)
(* System calls of the environment that runs on c.                         *)
(***************************************************************************)

\* envid2env with checkperm: itself or a child.
Controls(c, e) ==
  Running(c) /\ InUse(e) /\ (e = cpu_env[c] \/ env_parent[e] = cpu_env[c])

\* sys_page_alloc counts the page before page_insert counts it again.  When
\* page_insert fails the page goes back to the list with that count.
sys_page_alloc(c, e, va) ==
  /\ Controls(c, e)
  /\ \E p \in Available(mem) :
       LET m == incref(page_alloc(mem, p), p)
       IN  \/ mem' \in page_insert(m, e, p, va) /\ tlb' = tlb_invalidate(c, e, va)
           \/ page_insert(m, e, p, va) = {} /\ mem' = page_free(m, p) /\ UNCHANGED tlb
  /\ UNCHANGED <<env_parent, env_ipc_dstva, cpu_env>>

sys_page_map(c, se, srcva, de, dstva) ==
  /\ Controls(c, se) /\ Controls(c, de)
  /\ mem.pte[se][srcva] # Null
  /\ mem' \in page_insert(mem, de, mem.pte[se][srcva], dstva)
  /\ tlb' = tlb_invalidate(c, de, dstva)
  /\ UNCHANGED <<env_parent, env_ipc_dstva, cpu_env>>

sys_page_unmap(c, e, va) ==
  /\ Controls(c, e)
  /\ mem' = page_remove(mem, e, va)
  /\ tlb' = tlb_invalidate(c, e, va)
  /\ UNCHANGED <<env_parent, env_ipc_dstva, cpu_env>>

\* sys_exofork: env_alloc and its env_setup_vm.
sys_exofork(c, e) ==
  /\ Running(c) /\ ~ InUse(e)
  /\ \E p \in Available(mem) : mem' = env_setup_vm(mem, e, p)
  /\ env_parent' = [env_parent EXCEPT ![e] = cpu_env[c]]
  /\ env_ipc_dstva' = [env_ipc_dstva EXCEPT ![e] = {}]
  /\ UNCHANGED <<cpu_env, tlb>>

\* env_destroy of the caller (exit, a fault, a zombie that traps) or of a
\* child that runs on no CPU.  The id of a freed environment names nobody.
sys_env_destroy(c, e) ==
  /\ Controls(c, e) /\ (e = cpu_env[c] \/ ~ OnCpu(e))
  /\ mem' = env_free(mem, e)
  /\ env_parent' = [x \in Envs |-> IF env_parent[x] = e THEN Null ELSE env_parent[x]]
  /\ IF e = cpu_env[c]
     THEN /\ cpu_env' = [cpu_env EXCEPT ![c] = Null]
          /\ tlb' = [tlb EXCEPT ![c] = {}]
     ELSE UNCHANGED <<cpu_env, tlb>>
  /\ UNCHANGED env_ipc_dstva

\* sys_ipc_recv: the scheduler loads another address space.
sys_ipc_recv(c, dstva) ==
  /\ Running(c)
  /\ env_ipc_dstva' = [env_ipc_dstva EXCEPT ![cpu_env[c]] = {dstva}]
  /\ cpu_env' = [cpu_env EXCEPT ![c] = Null]
  /\ tlb' = [tlb EXCEPT ![c] = {}]
  /\ UNCHANGED <<mem, env_parent>>

\* sys_ipc_try_send of a page, or of a value only (srcva = Null).
sys_ipc_try_send(c, e, srcva) ==
  /\ Running(c) /\ InUse(e) /\ env_ipc_dstva[e] # {}
  /\ LET cur   == cpu_env[c]
         dstva == CHOOSE va \in env_ipc_dstva[e] : TRUE
     IN  \/ /\ srcva # Null /\ dstva # Null
            /\ mem.pte[cur][srcva] # Null
            /\ mem' \in page_insert(mem, e, mem.pte[cur][srcva], dstva)
            /\ tlb' = tlb_invalidate(c, e, dstva)
         \/ /\ srcva = Null \/ dstva = Null
            /\ srcva # Null => mem.pte[cur][srcva] # Null
            /\ UNCHANGED <<mem, tlb>>
  /\ env_ipc_dstva' = [env_ipc_dstva EXCEPT ![e] = {}]
  /\ UNCHANGED <<env_parent, cpu_env>>

\* sys_yield or a clock interrupt with nothing else to run: sched_halt.
halt(c) ==
  /\ Running(c)
  /\ cpu_env' = [cpu_env EXCEPT ![c] = Null]
  /\ tlb' = [tlb EXCEPT ![c] = {}]
  /\ UNCHANGED <<mem, env_parent, env_ipc_dstva>>

-----------------------------------------------------------------------------

Machine(c) ==
  \/ halt(c)
  \/ \E e \in Envs : env_run(c, e) \/ sys_env_destroy(c, e)
  \/ \E va \in Va : access(c, va)
  \/ \E va \in Va \cup {Null} : sys_ipc_recv(c, va)

\* The library changes the address space of the caller, or that of a child
\* that does not run yet (fork, dumbfork).
Quiescent(c, e) == e = cpu_env[c] \/ ~ OnCpu(e)

\* The bound of the checks: a call, which counts a page at most twice, starts
\* only if no pp_ref can reach REFMOD.
Room == \A p \in Pages : mem.ref[p] + 2 < REFMOD

\* The calls that count pages, as the library uses them and in bounds.
lib_exofork(c, e)     == Room /\ sys_exofork(c, e)
lib_send(c, e, va)    == Room /\ sys_ipc_try_send(c, e, va)
lib_unmap(c, e, va)   == Quiescent(c, e) /\ sys_page_unmap(c, e, va)
lib_alloc(c, e, va)   == Room /\ Quiescent(c, e) /\ sys_page_alloc(c, e, va)
lib_map(c, se, srcva, de, dstva) ==
  Room /\ Quiescent(c, de) /\ sys_page_map(c, se, srcva, de, dstva)

Next ==
  \E c \in Cpus :
    \/ Machine(c)
    \/ \E e \in Envs :
         \/ lib_exofork(c, e)
         \/ \E va \in Va \cup {Null} : lib_send(c, e, va)
         \/ \E va \in Va : lib_alloc(c, e, va) \/ lib_unmap(c, e, va)
         \/ \E se \in Envs, srcva, dstva \in Va : lib_map(c, se, srcva, e, dstva)

Spec == Init /\ [][Next]_vars

-----------------------------------------------------------------------------
(***************************************************************************)
(* Properties.                                                             *)
(***************************************************************************)

\* Every variable has its type.
TypeOK ==
  /\ mem \in Memory
  /\ env_parent \in [Envs -> Envs \cup {Null}]
  /\ env_ipc_dstva \in [Envs -> {{}} \cup {{va} : va \in Va \cup {Null}}]
  /\ cpu_env \in [Cpus -> Envs \cup {Null}]
  /\ tlb \in [Cpus -> SUBSET (Va \X Pages)]

\* How many directories, page tables and mappings page p is.
Pointers(p) == Entries(mem, Envs, p)

\* No page is counted less often than it is used, so page_decref can never
\* free a page that is still mapped.
RefCoversPointers == \A p \in Pages : mem.ref[p] >= Pointers(p)

\* The page tables and the counts stay well formed when calls of pmap.c fail
\* half way, and the counts cover what the tables point to.
PagesCounted == TypeOK /\ RefCoversPointers

\* A page on page_free_list is there once, no page table leads to it, and no
\* CPU can still reach it through its TLB.
FreeIsUnreachable ==
  \A p \in Pages : mem.free[p] > 0 =>
    /\ mem.free[p] = 1
    /\ Pointers(p) = 0
    /\ \A c \in Cpus : \A t \in tlb[c] : t[2] # p

\* A cached translation is the one in the page table (page_remove: "The TLB
\* must be invalidated if you remove an entry from the page table").
TlbCoherent ==
  \A c \in Cpus : \A t \in tlb[c] : Running(c) /\ mem.pte[cpu_env[c]][t[1]] = t[2]

\* Frames are used for one thing: a page table or directory page belongs to
\* one environment and is mapped nowhere below UTOP.
TablesPrivate ==
  \A p \in Pages :
    (\E e \in Envs : mem.pgdir[e] = p \/ \E d \in Pdx : mem.pde[e][d] = p)
      => Pointers(p) = 1

=============================================================================
