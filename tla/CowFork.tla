------------------------------- MODULE CowFork -------------------------------
(***************************************************************************)
(* The user-level copy-on-write fork of OSLab7-Mitjoslab4: lib/fork.c,     *)
(* lib/pgfault.c and the hand-over of page faults by kern/trap.c.          *)
(*                                                                         *)
(* fork is a sequence of system calls, and the code between them runs on a *)
(* stack that is itself one of the pages being marked copy-on-write: a     *)
(* write to the stack may come between any two steps and run the page      *)
(* fault handler in the middle of fork.  A system call is one step, since  *)
(* it runs under the big kernel lock.  A physical page is known here by    *)
(* the places that map it, and is free when there is none: reference       *)
(* counts are JosPmap's matter.                                            *)
(***************************************************************************)
EXTENDS Integers, FiniteSets

CONSTANTS
  Envs,      \* environments
  Boot,      \* the one that runs first
  NPAGES,    \* physical pages
  NVA,       \* pages of the program, in the order of their addresses
  ReadOnly,  \* those the program has mapped without PTE_W
  Values,    \* contents of a page, 0 is a page of zeros
  Null       \* no fault, no child

PFTEMP  == 0        \* where pgfault prepares a page, below the program
Va      == 1 .. NVA
Globals == 1        \* _pgfault_handler and thisenv are in this page
Stack   == NVA      \* the page below USTACKTOP
UXSTACK == NVA + 1  \* the exception stack, above USTACKTOP
Addrs   == 0 .. NVA + 1

Steps   == {"alloc", "copy", "map", "unmap"}  \* of the fault handler

ASSUME CowAssumption ==
  /\ Boot \in Envs
  /\ NVA \in Nat /\ NVA >= 2
  /\ ReadOnly \subseteq Va \ {Globals, Stack}
  /\ 0 \in Values
  /\ NPAGES \in Nat /\ NPAGES >= NVA
  /\ Null \notin Envs \cup [step : Steps, va : Va]

\* The permissions of a page table entry: absent, read-only, PTE_W, PTE_COW.
Perms  == {"none", "ro", "w", "cow"}
Places == Envs \X Addrs
Pages  == [at : SUBSET Places, value : Values]

VARIABLES
  pages,    \* the pages in use: where each is mapped, and its contents
  perm,     \* permissions of the page table entries
  status,   \* free, not_runnable or runnable
  upcall,   \* env_pgfault_upcall is set
  handler,  \* _pgfault_handler is set
  pc,       \* where each environment is, outside of the fault handler
  fault,    \* Null, or the step of the fault handler and the address
  addr,     \* the loop variable of fork
  child     \* the child fork is making

vars == <<pages, perm, status, upcall, handler, pc, fault, addr, child>>

Pc == {"run", "install", "upcall", "exofork", "child", "loop", "dup_child",
       "dup_self", "dup_ro", "xstack", "child_upcall", "set_status", "panic", "bad_fault"}

Unmapped == [x \in Addrs |-> "none"]

Mapped(e, x)  == perm[e][x] # "none"
PageOf(e, x)  == CHOOSE p \in pages : <<e, x>> \in p.at
Content(e, x) == PageOf(e, x).value

\* A program whose pages are loaded, each with a page of its own.
Init ==
  /\ pages = {[at |-> {<<Boot, x>>}, value |-> 0] : x \in Va}
  /\ perm = [e \in Envs |->
               IF e # Boot THEN Unmapped
               ELSE [x \in Addrs |-> IF x \in ReadOnly THEN "ro"
                                     ELSE IF x \in Va THEN "w" ELSE "none"]]
  /\ status = [e \in Envs |-> IF e = Boot THEN "runnable" ELSE "free"]
  /\ upcall = [e \in Envs |-> FALSE]
  /\ handler = [e \in Envs |-> FALSE]
  /\ pc = [e \in Envs |-> "run"]
  /\ fault = [e \in Envs |-> Null]
  /\ addr = [e \in Envs |-> 0]
  /\ child = [e \in Envs |-> Null]

-----------------------------------------------------------------------------
(***************************************************************************)
(* Execution outside of the handler.                                       *)
(***************************************************************************)

\* e executes the program or fork, not the handler.
AtUser(e) == status[e] = "runnable" /\ fault[e] = Null /\ pc[e] \notin {"panic", "bad_fault"}
At(e, p)  == AtUser(e) /\ pc[e] = p
Goto(e, p) == pc' = [pc EXCEPT ![e] = p]

\* The pages the code at this point writes to.
Touches(e, x) ==
  \/ x = Stack
  \/ x \in Va \ ReadOnly /\ pc[e] = "run"
  \/ x = Globals /\ pc[e] \in {"install", "child"}

\* The pages after a write of v at x.
Store(e, x, v) == (pages \ {PageOf(e, x)}) \cup {[PageOf(e, x) EXCEPT !.value = v]}

write(e, x, v) ==
  /\ AtUser(e) /\ Touches(e, x) /\ perm[e][x] = "w"
  /\ pages' = Store(e, x, v)
  /\ UNCHANGED <<perm, status, upcall, handler, pc, fault, addr, child>>

\* What page_fault_handler asks for: an upcall and an exception stack.
HasUpcall(e) == upcall[e] /\ perm[e][UXSTACK] = "w"

\* What pgfault asks of the address, before it does anything.
pgfault_check(e, x) == perm[e][x] = "cow"

\* A write without permission.  page_fault_handler gives it to the upcall, or
\* destroys the environment; pgfault goes on, or panics.  Nobody else changes
\* the entry it looks at, so its test is part of this step.
page_fault(e, x) ==
  /\ AtUser(e) /\ Touches(e, x)
  /\ perm[e][x] # "w"
  /\ IF HasUpcall(e) /\ pgfault_check(e, x)
     THEN fault' = [fault EXCEPT ![e] = [step |-> "alloc", va |-> x]] /\ UNCHANGED pc
     ELSE Goto(e, "bad_fault") /\ UNCHANGED fault
  /\ UNCHANGED <<pages, perm, status, upcall, handler, addr, child>>

\* The pages when the entries of a set of places are cleared.
Without(places) ==
  {p \in {[q EXCEPT !.at = @ \ places] : q \in pages} : p.at # {}}

\* exit: env_free gives everything back, the page of _pgfault_handler too;
\* the upcall of a free slot is not looked at and is cleared by env_alloc.
exit(e) ==
  /\ At(e, "run")
  /\ status' = [status EXCEPT ![e] = "free"]
  /\ pages' = Without({e} \X Addrs)
  /\ perm' = [perm EXCEPT ![e] = Unmapped]
  /\ upcall' = [upcall EXCEPT ![e] = FALSE]
  /\ handler' = [handler EXCEPT ![e] = FALSE]
  /\ UNCHANGED <<pc, fault, addr, child>>

-----------------------------------------------------------------------------
(***************************************************************************)
(* System calls.                                                           *)
(***************************************************************************)

\* sys_page_alloc by e for address x of f: a zeroed page, go is what e does
\* next; or a panic of e, when memory is short.  That may be any time: page
\* tables and pages that leaked (JosPmap) take pages which are not counted.
sys_page_alloc(e, f, x, go) ==
  \/ /\ Cardinality(pages) < NPAGES
     /\ pages' = Without({<<f, x>>}) \cup {[at |-> {<<f, x>>}, value |-> 0]}
     /\ perm' = [perm EXCEPT ![f][x] = "w"]
     /\ go
  \/ /\ Goto(e, "panic")
     /\ UNCHANGED <<pages, perm, fault>>

\* sys_page_map of page x of e at y of f.
sys_page_map(e, x, f, y, p) ==
  /\ pages' = {q \in {IF <<e, x>> \in r.at THEN [r EXCEPT !.at = @ \cup {<<f, y>>}]
                                           ELSE [r EXCEPT !.at = @ \ {<<f, y>>}] : r \in pages} :
                 q.at # {}}
  /\ perm' = [perm EXCEPT ![f][y] = p]

sys_env_set_pgfault_upcall(f) == upcall' = [upcall EXCEPT ![f] = TRUE]

-----------------------------------------------------------------------------
(***************************************************************************)
(* pgfault, the handler of fork, past its test of the address.             *)
(***************************************************************************)

InHandler(e, s) == status[e] = "runnable" /\ fault[e] # Null /\ fault[e].step = s /\ pc[e] # "panic"
Then(e, s) == fault' = [fault EXCEPT ![e].step = s]

pgfault_alloc(e) ==
  /\ InHandler(e, "alloc")
  /\ sys_page_alloc(e, e, PFTEMP, Then(e, "copy") /\ UNCHANGED pc)
  /\ UNCHANGED <<status, upcall, handler, addr, child>>

pgfault_copy(e) ==
  /\ InHandler(e, "copy")
  /\ pages' = Store(e, PFTEMP, Content(e, fault[e].va))
  /\ Then(e, "map")
  /\ UNCHANGED <<perm, status, upcall, handler, pc, addr, child>>

pgfault_map(e) ==
  /\ InHandler(e, "map")
  /\ sys_page_map(e, PFTEMP, e, fault[e].va, "w")
  /\ Then(e, "unmap")
  /\ UNCHANGED <<status, upcall, handler, pc, addr, child>>

pgfault_unmap(e) ==
  /\ InHandler(e, "unmap")
  /\ pages' = Without({<<e, PFTEMP>>})
  /\ perm' = [perm EXCEPT ![e][PFTEMP] = "none"]
  /\ fault' = [fault EXCEPT ![e] = Null]
  /\ UNCHANGED <<status, upcall, handler, pc, addr, child>>

pgfault(e) ==
  pgfault_alloc(e) \/ pgfault_copy(e) \/ pgfault_map(e) \/ pgfault_unmap(e)

-----------------------------------------------------------------------------
(***************************************************************************)
(* fork and pfork.                                                         *)
(***************************************************************************)

\* set_pgfault_handler: the first time an exception stack, then the two
\* pointers; _pgfault_handler is written to the Globals page.
set_pgfault_handler(e) ==
  \/ /\ At(e, "run") /\ handler[e]
     /\ Goto(e, "install")
     /\ UNCHANGED <<pages, perm, status, upcall, handler, fault, addr, child>>
  \/ /\ At(e, "run") /\ ~ handler[e]
     /\ sys_page_alloc(e, e, UXSTACK, Goto(e, "install") /\ UNCHANGED fault)
     /\ UNCHANGED <<status, upcall, handler, addr, child>>
  \/ /\ At(e, "install") /\ perm[e][Globals] = "w"
     /\ handler' = [handler EXCEPT ![e] = TRUE]
     /\ Goto(e, "upcall")
     /\ UNCHANGED <<pages, perm, status, upcall, fault, addr, child>>
  \/ /\ At(e, "upcall")
     /\ sys_env_set_pgfault_upcall(e)
     /\ Goto(e, "exofork")
     /\ UNCHANGED <<pages, perm, status, handler, fault, addr, child>>

\* sys_exofork: the child will return from it too, once it is runnable; its
\* memory, and with it _pgfault_handler, will be a copy of the parent's.  It
\* fails when no slot is free, and at any time for lack of a page for the page
\* directory (-E_NO_FREE_ENV, -E_NO_MEM); fork panics on both.
fork_exofork(e) ==
  /\ At(e, "exofork")
  /\ \/ \E c \in Envs :
          /\ status[c] = "free"
          /\ status' = [status EXCEPT ![c] = "not_runnable"]
          /\ upcall' = [upcall EXCEPT ![c] = FALSE]
          /\ handler' = [handler EXCEPT ![c] = handler[e]]
          /\ pc' = [pc EXCEPT ![e] = "loop", ![c] = "child"]
          /\ child' = [child EXCEPT ![e] = c, ![c] = Null]
     \/ /\ Goto(e, "panic")
        /\ UNCHANGED <<status, upcall, handler, child>>
  /\ addr' = [addr EXCEPT ![e] = 0]
  /\ UNCHANGED <<pages, perm, fault>>

\* Mutant: the loop forgets the page below USTACKTOP.
advance_short(e) ==
  IF addr[e] + 1 >= NVA
  THEN Goto(e, "xstack") /\ addr' = [addr EXCEPT ![e] = 0]
  ELSE Goto(e, "loop") /\ addr' = [addr EXCEPT ![e] = @ + 1]

\* The next address of the loop, up to USTACKTOP.
advance(e) ==
  IF addr[e] = NVA
  THEN Goto(e, "xstack") /\ addr' = [addr EXCEPT ![e] = 0]
  ELSE Goto(e, "loop") /\ addr' = [addr EXCEPT ![e] = @ + 1]

\* The tests on uvpt in the loop and at the start of duppage.
fork_loop(e) ==
  /\ At(e, "loop")
  /\ LET p == perm[e][addr[e]]
     IN  \/ p = "none" /\ advance(e)
         \/ p \in {"w", "cow"} /\ Goto(e, "dup_child") /\ UNCHANGED addr
         \/ p = "ro" /\ Goto(e, "dup_ro") /\ UNCHANGED addr
  /\ UNCHANGED <<pages, perm, status, upcall, handler, fault, child>>

\* A sys_page_map into the child may also find no page for a page table.
map_child(e, p) == sys_page_map(e, addr[e], child[e], addr[e], p)
map_self(e)     == sys_page_map(e, addr[e], e, addr[e], "cow")

\* Mutant: the parent's own mapping first, then the child's.
duppage_swapped(e) ==
  /\ \/ At(e, "dup_child") /\ map_self(e) /\ Goto(e, "dup_self") /\ UNCHANGED addr
     \/ At(e, "dup_self") /\ map_child(e, "cow") /\ advance(e)
     \/ At(e, "dup_ro") /\ map_child(e, "ro") /\ advance(e)
  /\ UNCHANGED <<status, upcall, handler, fault, child>>

\* Mutant: the parent's mapping keeps its permissions.
duppage_once(e) ==
  /\ \/ At(e, "dup_child") /\ map_child(e, "cow") /\ Goto(e, "dup_self") /\ UNCHANGED addr
     \/ At(e, "dup_self") /\ advance(e) /\ UNCHANGED <<pages, perm>>
     \/ At(e, "dup_ro") /\ map_child(e, "ro") /\ advance(e)
  /\ UNCHANGED <<status, upcall, handler, fault, child>>

\* duppage: the page into the child, then again into the parent, both
\* copy-on-write; the result of the call for a read-only page is ignored.
duppage(e) ==
  /\ \/ At(e, "dup_child") /\ map_child(e, "cow") /\ Goto(e, "dup_self") /\ UNCHANGED addr
     \/ At(e, "dup_child") /\ Goto(e, "panic") /\ UNCHANGED <<pages, perm, addr>>
     \/ At(e, "dup_self") /\ map_self(e) /\ advance(e)
     \/ At(e, "dup_ro") /\ map_child(e, "ro") /\ advance(e)
     \/ At(e, "dup_ro") /\ advance(e) /\ UNCHANGED <<pages, perm>>
  /\ UNCHANGED <<status, upcall, handler, fault, child>>

fork_xstack(e) ==
  /\ At(e, "xstack")
  /\ sys_page_alloc(e, child[e], UXSTACK, Goto(e, "child_upcall") /\ UNCHANGED fault)
  /\ UNCHANGED <<status, upcall, handler, addr, child>>

\* Mutant: the child's upcall is not set.
fork_upcall_none(e) ==
  /\ At(e, "child_upcall")
  /\ Goto(e, "set_status")
  /\ UNCHANGED <<pages, perm, status, upcall, handler, fault, addr, child>>

fork_upcall(e) ==
  /\ At(e, "child_upcall")
  /\ sys_env_set_pgfault_upcall(child[e])
  /\ Goto(e, "set_status")
  /\ UNCHANGED <<pages, perm, status, handler, fault, addr, child>>

fork_start(e) ==
  /\ At(e, "set_status")
  /\ status' = [status EXCEPT ![child[e]] = "runnable"]
  /\ child' = [child EXCEPT ![e] = Null]
  /\ Goto(e, "run")
  /\ UNCHANGED <<pages, perm, upcall, handler, fault, addr>>

\* The child assigns thisenv and returns 0 (pfork: after sys_change_pr).
fork_child(e) ==
  /\ At(e, "child") /\ perm[e][Globals] = "w"
  /\ Goto(e, "run")
  /\ UNCHANGED <<pages, perm, status, upcall, handler, fault, addr, child>>

fork(e) ==
  \/ set_pgfault_handler(e) \/ fork_exofork(e) \/ fork_loop(e) \/ duppage(e)
  \/ fork_xstack(e) \/ fork_upcall(e) \/ fork_start(e) \/ fork_child(e)

Next ==
  \E e \in Envs :
    \/ fork(e) \/ pgfault(e) \/ exit(e)
    \/ \E x \in Va : page_fault(e, x) \/ \E v \in Values : write(e, x, v)

Spec == Init /\ [][Next]_vars

-----------------------------------------------------------------------------
(***************************************************************************)
(* Properties.                                                             *)
(***************************************************************************)

\* Every variable has its type.
TypeOK ==
  /\ pages \subseteq Pages
  /\ perm \in [Envs -> [Addrs -> Perms]]
  /\ status \in [Envs -> {"free", "not_runnable", "runnable"}]
  /\ upcall \in [Envs -> BOOLEAN] /\ handler \in [Envs -> BOOLEAN]
  /\ pc \in [Envs -> Pc]
  /\ fault \in [Envs -> {Null} \cup [step : Steps, va : Va]]
  /\ addr \in [Envs -> 0 .. NVA]
  /\ child \in [Envs -> Envs \cup {Null}]

\* Environments do not see each other's writes: what a runnable environment
\* has in its pages changes only when it writes there itself, whatever its
\* parent, children and siblings do, and whatever its fault handler moves.
PrivateMemory ==
  [][\A e \in Envs, x \in Va :
       /\ status[e] = "runnable" /\ status'[e] = "runnable"
       /\ Mapped(e, x)
       /\ Mapped(e, x)' => Content(e, x)' # Content(e, x)
       => \E v \in Values : write(e, x, v)]_vars

\* A page that someone may write to is mapped nowhere else, except while
\* duppage is between its two calls and while pgfault has its new page at
\* two addresses.  An environment that has panicked, perhaps in the middle of
\* those, writes no more and is exempt.
WritableIsPrivate ==
  \A e \in Envs, x \in Addrs : perm[e][x] = "w" /\ pc[e] # "panic" =>
    \A place \in PageOf(e, x).at \ {<<e, x>>} :
      \/ /\ fault[e] # Null /\ fault[e].step = "unmap"
         /\ {place[2], x} = {PFTEMP, fault[e].va} /\ place[1] = e
      \/ pc[e] = "dup_self" /\ addr[e] = x /\ place = <<child[e], x>>

\* Wherever a system call of fork or of the fault handler fails, the tables
\* stay well formed, and what is writable stays private for every environment
\* that goes on (whoever panics is exempt from the second part).
SharingSound == TypeOK /\ WritableIsPrivate

\* "Copy our address space ... to the child" (fork): when the child is about
\* to start it has the parent's writable pages, with the same contents but
\* for the stack, on which fork itself has been running.
ChildIsCopy ==
  \A e \in Envs : pc[e] = "set_status" =>
    /\ \A x \in Va \ ReadOnly : Mapped(child[e], x)
    /\ \A x \in Va \ {Stack} : Mapped(child[e], x) => Content(child[e], x) = Content(e, x)

\* No environment dies of a write to a page of its own: the handler is never
\* called for a page that is not copy-on-write, and is never missing.
NoBadFault == \A e \in Envs : pc[e] # "bad_fault"
=============================================================================
