# JOS in TLA+

A verification project for the operating-system homework in this repository. Its
core is the JOS kernel of `src/OSLab7-Mitjoslab4`: a small exokernel-style kernel
for several x86 processors with preemptive scheduling, IPC, and a copy-on-write
`fork` written as a user library. Paths such as `kern/env.c` are relative to that
directory. Two small programs of other homeworks, OSLab2 and OSLab3, are modelled
as well. TLC checks every module on small instances; TLAPS proves the main safety
properties of the kernel, its lock, memory, message passing, start, page faults and console,
of `fork`, and of OSLab2 and OSLab3, for instances of every size.

Definitions keep the names of the C code (`env_destroy`, `sched_yield`,
`sys_page_map`, ...). `PROJECT.json` maps each one to its lines.

## The system

| part | state | operations | correct when |
|---|---|---|---|
| environments, `kern/env.c` | `envs[]`, `env_free_list`, `curenv` per CPU | `env_alloc`, `env_free`, `env_destroy`, `env_run`, `envid2env` | a slot is in one place only: free list, one CPU, or waiting; ids of dead environments name nobody |
| scheduler, `kern/sched.c` | none of its own | `sched_yield`, `sched_halt` | no environment on two CPUs, none starves |
| traps, `kern/trap.c` | saved trap frames | `trap`, `trap_dispatch`, `page_fault_handler` | a killed environment is reaped once, by the CPU that ran it |
| system calls, `kern/syscall.c` | fields of `struct Env` | the calls of `syscall` | each keeps the tables of the other parts consistent, on errors too |
| big kernel lock, `kern/spinlock.c` | `locked`, `cpu` | `spin_lock`, `spin_unlock`, `holding` | exclusive; its unlocked debugging checks raise no false alarm |
| memory, `kern/pmap.c` | `pages[]`, `page_free_list`, page tables, TLBs | `page_alloc`, `page_free`, `page_insert`, `page_remove`, `pgdir_walk`, `tlb_invalidate` | nothing is freed while something points to it; TLBs agree with page tables |
| processor start, `kern/init.c`, `mpentry.S` | `cpus[]`, `mpentry_kstack` | `boot_aps`, `mp_main` | each CPU gets its own stack |
| monitor, `kern/monitor.c` | none | command loop | never returns, keeps the lock |
| page fault upcall, `lib/pfentry.S` | the exception stack | `page_fault_handler`, `_pgfault_upcall` | nested faults return to what they interrupted, frames stay in the page |
| user library, `lib/fork.c`, `lib/pgfault.c` | page table entries, `_pgfault_handler` | `fork`, `pfork`, `pgfault`, `set_pgfault_handler` | parent and child do not see each other's writes |
| user library, `lib/ipc.c` | `env_ipc_*` | `ipc_send`, `ipc_recv` | each message is received once |
| console, `kern/console.c`, `lib/readline.c` | ring buffer, display, keyboard state | `cons_getc`, `cga_putc`, `readline` | input comes out in order, the display shows the line |
| symbols, `kern/kdebug.c` | the stabs, read only | `debuginfo_eip` | a backtrace names function and line |
| boot loader, `boot/main.c` | memory | `bootmain` | every segment is loaded |
| library, `lib/string.c`, `lib/printfmt.c` | none | copying, formatting | see `LibraryExact` |
| OSLab2 | counter, mutex, two condition variables | producer and consumer threads | counter stays within its limits |
| OSLab3 | child processes, pipes | shell commands | children are waited for |
| OSLab1, 4, 5, 6 | | | earlier stages of the same kernel |

Everything between `lock_kernel()` and `unlock_kernel()` excludes other CPUs, so a
handler is atomic for them. What is hard lies outside: other CPUs still execute
environments whose tables a handler changes; a CPU that trapped waits for the lock
while its environment is killed; TLBs of other CPUs are not touched; the user
library works through several system calls and is interrupted by its own page
faults; `pp_ref` and `env_id` wrap; memory runs out in the middle of a call. The
list with lines is under "hazards" in `PROJECT.json`.

## Modules

| module | what it is |
|---|---|
| `BigLock` | abstract: at most one CPU between `lock_kernel` and `unlock_kernel` |
| `Spinlock` | `kern/spinlock.c`, one step per access to the lock's fields; implements `BigLock` |
| `JosKernel` | environments, scheduler, traps and environment calls on several CPUs, built on the lock |
| `JosPmap` | physical pages, page tables and TLBs under the page and IPC calls |
| `CowFork` | `fork` and its page fault handler, one step per system call or access to memory |
| `Rendezvous` | abstract: a send and a receive meet |
| `JosIpc` | `lib/ipc.c` over the two IPC calls; implements `Rendezvous` |
| `BootAps` | start of the other processors: `kern/init.c`, `kern/mpentry.S`, `lapic_startap` |
| `InputQueue` | abstract: a queue of input that forgets everything when it overflows |
| `Console` | ring buffer, display and `readline`; the buffer implements `InputQueue` |
| `PgfaultStack` | the exception stack: `page_fault_handler` and `lib/pfentry.S`, instruction by instruction |
| `MemInit` | `i386_detect_memory`, `boot_alloc`, `page_init`, `check_page_free_list`, `mem_init`, `entry_pgdir` |
| `AddressRanges` | `user_mem_check`, `mmio_map_region`, `bootmain` and `readseg` |
| `LibString`, `LibFormat` | `lib/string.c`; `lib/printfmt.c`, `lib/printf.c` |
| `Keyboard`, `Kdebug`, `MpConfig` | `kbd_proc_data`; `kern/kdebug.c`; `kern/mpconfig.c` and `runcmd` of `kern/monitor.c` |
| `ProducerConsumer` | OSLab2, `main.c` |
| `MiniShell` | OSLab3, `main.c` |
| `MC*` | instances for TLC; `MCSequential` joins the modules without concurrency |
| `JosKernelProof`, `JosPmapProof`, `CowForkProof`, `SpinlockProof`, `JosIpcProof`, `BootApsProof` | theorems about the modules they are named after |
| `SequentialProof` | theorems about `PgfaultStack`, `Console`, `AddressRanges` and `LibString` |
| `LabProgramsProof` | theorems about `ProducerConsumer` and `MiniShell` |

Definitions that follow a comment "Mutant" are wrong variants of the definition after
them. No specification uses them; putting one in the place of the original
shows that the property it is paired with in `PROJECT.json` can fail.

### JosKernel

`env_status`, `env_gen`, `env_parent_id`, `env_pr` and `env_ipc_recving` are fields
of `envs[]`; an `env_id` is a pair of generation and slot, and generations wrap to 1
after `NGEN` as the 31-bit ids do. `cpu_pc` says where a CPU is:

- `user`: in an environment; `trap`: left it and spins on the lock;
- `halted`: in `hlt`; `wake`: an interrupt ended that and it spins on the lock;
- `boot`: about to make its first `sched_yield`; `monitor`: in the kernel monitor,
  with the lock, for good; `dead`: stopped because another CPU panicked.

`trap` is the entry up to the lock. Each other action is one whole handler: the
garbage collection of a zombie, what the trap or call does, and the way out through
`trap_return`, `sched_yield`, `env_run` or `sched_halt`. Those last four take the
status table as the handler left it. The scheduler is the modified one of this
repository: the smallest `pr`, the first in circular order among equals, and the
current environment stays if its `pr` is strictly smaller.

Programs are those written with the library: `fork` makes a child runnable once
(`fork_start`), and nobody kills a zombie a second time (`exit_or_kill`). What happens
without these two restrictions is told under observations. Exceptions, breakpoints
and device interrupts may happen to anybody at any time; in `StableSpec` there are
none and nobody exits.

### JosPmap

`mem` is a record of what `pages[]` and the page tables say: counts (`ref`, modulo
`REFMOD`), how often each page is on the free list, and the page behind each
directory, page table and address. The operators of `kern/pmap.c` take a memory and
return one; those that allocate return the set of possible results, which is empty
when the free list is. A call is one action with its error path, for example the
`sys_page_alloc` whose `page_insert` finds no page for a page table. The free list
is a set, since no property depends on its order. TLB entries appear at any time by
`access` and go by `lcr3` and `tlb_invalidate`. `Spec` edits only address spaces
that run on no other CPU, as `fork` does. `Room` bounds the counts (see below).
`env_free` decrements page by page in nested loops; the model has the sum of it, how many
`Entries` of the environment a page loses and how often its count passes 0.
`MCPmap` has the loops too, and TLC evaluates that the two agree (`EnvFreeIsLoop`).

### CowFork

A page in use is the set of places that map it together with its contents, so
sharing is visible directly. `pc` walks an environment through `set_pgfault_handler`,
`sys_exofork`, the loop with the two calls of `duppage`, and the set-up of the child.
`fault` is the step of `pgfault`. The code of `fork` uses the stack, so a write to
the stack is possible between any two of its steps, and if that page is
copy-on-write already the handler runs there. A panic stops the environment where
it is: it may come from every call that needs memory, at any time. The read-only
branch of `duppage` ignores failures, and so does the model.

### Spinlock and BigLock

`holding` reads `locked` and `cpu` in two steps without protection. The model is
sequentially consistent, which the code relies on: `xchg` is a locked instruction
and x86 keeps stores in order. `holder` in `Spinlock` is the refinement mapping.

### JosIpc and Rendezvous

A system call is one step. `ipc_send` is the loop of `sys_ipc_try_send` and
`sys_yield`; `ipc_recv` is its call and then three separate reads of `thisenv`, in the
order of the code, while others go on sending. Of an address only what the checks of the
kernel look at is kept: below `UTOP`, aligned, mapped, writable. A value carries the
identity of its message, so that a message mixed from two would be seen. A message names its
sender and the environment it is for, and `Meet` is with that one. The mapping to
`Rendezvous` calls an environment *waiting* while `env_ipc_recving` is set and its *box*
full from the delivery to the return of `ipc_recv`.

### BootAps

The boot processor's `pc` walks through `i386_init` and the loop of `boot_aps`; an INIT and
up to two STARTUP interrupts are under way at once and arrive in any order with its
steps. A processor reads `mpentry_kstack` in `mpentry.S` long before it sets `cpu_status`
in `mp_main`. The model ends where `JosKernel` begins.

### Console, InputQueue

`proc` walks through `cons_getc`: the loop of `cons_intr` for the serial port, the one for the
keyboard, each with any number of characters, then one character is taken from the ring
buffer and `readline` edits its line and echoes. The first loop is that of `kbd_init`, before
there is a `readline`. `cga_putc` moves the cursor, wraps and scrolls. Monitor commands print
anything in between. `queue` in `Console` is the refinement mapping: the buffer from `rpos`
to `wpos`, taken round the end.

### PgfaultStack

Three pages of words: user stack, guard page, exception stack. `page_fault_handler` chooses
the address of the frame from `esp`, tests it with `user_mem_assert` and pushes; the upcall
pushes the return address on the trap-time stack and pops its way back. Faults come from
the program, the handler, and from the write of the upcall itself when the user stack is
copy-on-write. `trapped` is a history variable with the states to return to.

### The sequential modules

Each function of the C code is an operator, or a step function on the loop's variables that
a fold runs, and next to it stands what it is for (`TouchesMapped`, `ChecksEveryByte`,
`ReadsBack`, `DecodesKeys`, `FindsLine`, ...) in terms that do not mention the algorithm.
`MCSequential` calls each with every input of a small set. `ChecksEveryByte` is the comment over
`user_mem_check` (`kern/pmap.c:637-645`) without conditions; `RangesHold` asks for it where
`RoundsInside` holds, for ranges that are not empty and end before the last page of the address
space. For later ones the code does something else, see the proofs and the observations.
What `user_mem_check` and the look at the string table say to `debuginfo_eip` is one input, `valid`;
whether the header has `ELF_MAGIC` is an input of `bootmain`.

### ProducerConsumer and MiniShell

Threads, mutex and condition variables are those of POSIX, except that
`pthread_cond_wait` returns only after a signal. In `MiniShell` a process is a place in
`main.c` or `run`, a program; descriptors 0 and 1 and the ends of pipes are its state. For a
pipeline the child of the shell makes the pipe, forks the writer and becomes the reader.
`main.c` does not check the result of `pipe` and would go on with an uninitialized `fd`; the model
has no failing `pipe` and waits until one of the bounded set is free.

## Runs

| run | result | shows |
|---|---|---|
| `kernel_safety` | 234k states | no environment on two CPUs, none freed under its CPU, every slot accounted for, with exceptions, panics and the monitor; a zombie is reaped, or a CPU is in the monitor |
| `kernel_round_robin` | 70k states | `NoStarvation` when nobody exits |
| `pmap_safety` | 258k states | counts cover pointers, free pages are unreachable, TLBs coherent, page tables private |
| `spinlock` | 351 states | no false panic, progress, refinement of `BigLock` |
| `cow_fork` | 1.6M states | private memory, writable pages not shared, child is a copy, no fault without handler |
| `ipc` | 518k states | refinement of `Rendezvous`, pages travel with their message, a message to a waiting environment arrives |
| `ipc_stale_perm` | violation | `ipc_recv` reports the permissions of an earlier message |
| `boot` | 370 states | own stacks, nobody schedules before there is work, all processors start |
| `console` | 1.3M states | refinement of `InputQueue`, the display shows the line, a line is returned unless an overflow loses its end |
| `sequential` | 65k states | nested page faults return to where they came from and stay in the page; memory detection, loading, range checks, library, keyboard, symbols, MP table and command line against their references |
| `producer_consumer` | 107 states | goods within the limits, no lost wake-up, both threads go on |
| `mini_shell` | 47k states | foreground programs are gone at the prompt, pipes belong to their pipeline, lines and programs end |

`ipc_stale_perm` is a finding, with the comments it contradicts, in `PROJECT.json`.

The type invariants of the modules with proofs are proved (as part of the inductive
invariants); those of `JosPmap` and `CowFork` are conjuncts of `PagesCounted` and
`SharingSound`, that of `Console` says that the cursor stays on the display and
the line in its buffer, that of `MiniShell` that no child ever gets into the shell's loop.

### Bounds

- *Kernel*: 2 CPUs and 3 slots are the least with which a third party kills, sends
  to or schedules something another CPU runs; with `NGEN` 1 every reuse of a slot
  gives the id of the dead environment again, the worst case of a wrap. The fairness
  run has 4 slots and two priorities, so that circular order and `pr` compete. No
  counter in the kernel model is bounded otherwise.
- *Memory*: 2 CPUs, 2 environments and 5 pages, with one directory and up to two
  page tables each, so memory runs out inside calls. `REFMOD` 5 stands for 2^16 and
  `Room` starts a call only if no count can reach it. That is a bound of the check:
  the code has no such test (see observations).
- *CowFork*: 3 environments, so that pages are shared by parent, child and
  grandchild or sibling; a page of globals, a read-only page and the stack; 7 pages,
  enough for three environments at once and too few for all to copy everything;
  2 values. The free slots are interchangeable and reduced by symmetry.
- *Spinlock*: 3 CPUs, an owner, a waiter, and one in the unlocked checks.
- *IPC*: 3 environments, so that two senders compete for one receiver that may itself be
  sent to; each starts `NMSG` = 1 send, which its loop repeats without bound.
- *Boot*: 4 processors with the boot processor second, so that the loop skips it in the
  middle; 2 environments, so that some processors find work and some halt.
- *Console*: a ring buffer of 3, a line of 4 and a display of 2 by 2, so that each overflows
  or wraps within one line. How many characters a device has at once is not bounded.
- *Sequential*: pages of 4 bytes in a space of 64, numbers of 8 bits, an output
  buffer of 4, 2 processors and 4 arguments, all crossed by the inputs. Memory sizes are real
  ones, in KB. An exception stack of 28 words takes four frames and is left by the fifth;
  the program's stack pointer is at `USTACKTOP`, where `env_alloc` puts it, or near the bottom.
- *OSLab2*: `TOTAL` 10 as in the program. *OSLab3*: 4 processes besides the shell and 3 pipes,
  two pipelines at once when a writer is left behind; forks fail as soon as none is free.

`CHECK_DEADLOCK FALSE` is set where the system really can stop: CPUs in the monitor
or behind it, environments all gone or blocked, all processors up, the algorithms called,
and the shell left with `exit`.

### Fairness

`Fairness` of `JosKernel` rests on the timer of the local APIC, which interrupts every
CPU periodically and also ends `hlt`: a CPU traps again (`WF trap`), infinitely
many of its traps are clock interrupts, whatever its program calls in between (`SF
trap_timer`), and a CPU that waits for a lock that is free obtains it. The last is
an assumption about the hardware: a spin lock without tickets gives no order, but
no CPU loses the race for ever. `Spinlock` itself assumes only that every CPU goes on, and
`Progress` promises only that some waiter obtains the lock.

`JosIpc` assumes that a runnable environment goes on with what it does in the library, which
is what the scheduler gives it; nobody has to send, receive or exit. In `BootAps` each
processor goes on and interrupts arrive; each takes the lock once, so weak fairness is
enough. The monitor goes on polling, and no device has another character for ever; nobody
has to type. In `ProducerConsumer` both
threads go on and neither is refused the mutex for ever (`SF`), since each sleeps a
second or more without it in every round. In `MiniShell` processes go on; a user need
not type, and a program need not end before its input does or its output is broken.

## Proofs

`JosKernelProof` proves of `Spec`, for every number of slots, CPUs, generations
and priorities (`KernelAssumption`), the invariants of `kernel_safety`: `TypeCorrect`,
`MutualExclusion`, `NoUseAfterFree`, `NothingLost` and `ReceiverStaysBlocked`. The
inductive invariant `IInv` is the conjunction of these properties and
`IdleHasNoEnv` (a CPU that boots or halts has no `curenv`). None of them is
inductive alone. That a CPU chosen by the scheduler gets an environment no other
CPU is in follows from `NeverFreedWhileRunning` (what another CPU is in is not
runnable). For that to survive a send, the receiver must not be running, which is
`ReceiverBlocked`; and `sys_exofork` must not take a slot in use, which is `FreeListExact`.

All handlers leave through the scheduler with some table `st` and current environment
`cur`. `Good(c, st, cur)` says what they must hand over and `LeaveOK(st)` what
holds afterwards; `YieldOK` and `ReturnOK` prove `Good => LeaveOK` once, and each
handler has a lemma that its assignments give `Good`.

`SpinlockProof` proves `LockExclusion`, `LockNoPanic` and the refinement
`LockRefinement` for any set of CPUs. `LockInv` adds that `locked` is 1 exactly
while there is an owner and that `lk->cpu` names a CPU exactly between the
assignments of `spin_lock` and `spin_unlock`. The latter is why the two unprotected
reads of `holding` are harmless: `lk->cpu = c` can only be true on CPU `c` if `c` set it.

`JosIpcProof` proves for any set of environments, pages and number of messages that the
library implements the rendezvous (`IpcRefinement`) and that pages come along
(`PagesTravelWithValues`). `IpcInv` says that whoever can be sent to is blocked in front of
its first read, and that what has been read belongs to the message in the fields: the three
unprotected reads are safe because `env_ipc_recving` is already clear. The refinement has a
lemma for each step of the library, and `PageInv` adds where the page is until the return.

`BootApsProof` proves `StacksArePrivate` and `BootFindsWork` for any number of
processors. `BootInv` puts each of them into one of three phases (untouched, being started, up)
and says that at most one is being started, that `mpentry_kstack` is its stack, and
that the boot processor has the lock until the environments exist.

`JosPmapProof` proves the four invariants of `pmap_safety` for any number of CPUs,
environments, pages, page tables and addresses, and any width of the counts
(`PmapAssumption`): `PmapPagesCounted`, `PmapFreeIsUnreachable`, `PmapTlbCoherent` and
`PmapTablesPrivate`. Pointers to a page are counted as the cardinalities of three sets of
entries (directories, page tables, addresses), and a first group of lemmas says what
setting one entry does to them. `Good(m)` is what every operator of `pmap.c` hands on: counts
cover pointers, a free page is on the list once and has no pointer, and a page that is a
table has one pointer. Between `page_alloc` and the new entry a page is only `Held`, with a
count nobody uses yet; this carries the proof through `pgdir_walk`, `page_remove` and
`page_insert` and their error paths. `PmapInv` adds that an environment runs on one CPU, and
on none while it waits in `sys_ipc_recv`: without it a send could replace a page under a TLB.

`CowForkProof` proves `CowSharingSound`, `CowPrivateMemory`, `CowChildIsCopy` and
`CowNoBadFault` for any number of environments, pages, addresses and values
(`CowAssumption`; its last part only says that `Null` is neither an environment nor the state
of a handler). Lemmas say what a write, `sys_page_alloc`, `sys_page_map` and the clearing of
entries do to `Share`, the places of a page, and `Val`, its contents. `CowInv` has a part
for control and one for pages. Control: a child in the making does not run and has one parent
(`Parents`), so its page table is the parent's to edit; the handler's page is still
copy-on-write when it is replaced, and in the middle of `fork` it is the stack (`Handling`);
whoever has a copy-on-write page has an upcall and an exception stack (`Prepared`); the
child has what lies below `addr` (`Copying`). Pages: writable pages are private (`Private`),
the page at `PFTEMP` holds what it is going to replace (`HandlerCopies`), and parent and
child agree but for the stack (`SameContents`). That a parent writes to its stack between
the two calls of `duppage`, when the child sees the page already, is harmless as the child does
not run yet. `Undisturbed` says of every other step that it changes nothing a running
environment has, which gives `CowPrivateMemory`.

`SequentialProof` proves of `PfSpec`, for pages of any size and faults nested to any depth
(`PgfaultAssumption`), that faults return to the state of their trap (`FaultsReturn`) and that
frames are only written to mapped words (`FramesStayMapped`). `PfInv` follows the
history variable: each trap's frame still has what the kernel saved (`Saved`), the stack
pointer has a fixed offset from it at each instruction (`Offsets`), what is restored so far is
the trap-time state (`Restored`), and the words of the interrupted code are intact
(`Intact`). This is said of the upcall that runs (`Current`) and of every one that is itself
interrupted (`Nested`). `Descending` has the frames in order, each below the one
before; it is why a store of an inner upcall, even the one to the trap-time stack, reaches no
outer frame: on the exception stack the spare word under the frame takes it.

For `Console` it proves, for any sizes of ring buffer, line and display (`ConsoleAssumption`),
`ConsoleTyped`, `ConsoleShowsLine` and the refinement `ConsoleInputIsQueued`. Lemmas on
`cga_putc` say that the cursor stays on the display, that a character after a shown line gives
the longer line, also when the display scrolls, and that a backspace gives the shorter one,
also when the cursor is at the first cell. `ConsoleInv` adds that a line is empty outside
`readline`, and that only `readline` waits for the devices. The ring buffer needs its types only:
`Remainders` replaces the arithmetic modulo `CONSBUFSIZE` by a case distinction,
`RingPut` and `RingTake` show that a round of `cons_intr` and the end of `cons_getc` are `Put`
and `Take` of `InputQueue`, with everything lost when the write position reaches the read position.

Of the sequential algorithms it proves three parts of the references that `sequential`
evaluates. `UserMemCheckExact`: for every page size (`RangeAssumption`), page table and range
that is not empty and ends before the last page of the address space (`RoundsInside`),
`ChecksEveryByte`; a page is accessible as a
whole (`WholePages`), because `ULIM` is a multiple of `PGSIZE`, and the smallest bad page gives
the first bad byte. `UserMemCheckLimit` shows that the condition on the end cannot be dropped: a
range that reaches into or past the last page, up to two pages short of all memory, is
accepted whatever the page table says, and `ChecksEveryByte` is false for it. `MmioKeepsRegions`: one call of `mmio_map_region` preserves `MmioOK`, which
holds before the first call (`MmioStarts`) and implies `RegionsHold` (`MmioHolds`), if the
device does not reach into the last page of the address space and has no more pages than lie
above `MMIOLIM`, so that neither sum of the code wraps. `StrlcpyFits`: `CopyFits` for
every memory, provided that the source ends and does not overlap the destination.

`LabProgramsProof` proves `GoodsStayInRange` and `NoLostWakeup` of OSLab2 for every `TOTAL` of
at least 3, the least for which the initial 2 is below the limit. `GoodsInv` ties the mutex
to the places of the threads; equality tests suffice because a thread at its limit sleeps. Of
OSLab3 it proves `ShellTyped`, `ShellForeground` and `ShellPipesArePrivate` for any number of
processes and pipes. `ShellInv` says that the shell has at most one child, while it waits, that
only this child makes pipes, and that a pipe has one process that reads or is going to read
from it (`OneReader`), and one for writing, in the middle of `dup2` and `close` too.

Only model-checked: all liveness (the prover does not handle fairness), and `MCSequential`'s
`BootFindsMachine`, `RangesHold`, `LibraryExact` and `MonitorUnderstands`, but for the parts just
named: the folds and loops of the sequential modules would need induction over data. That `env_free` sums up its
loops (`EnvFreeIsLoop`) is evaluated by TLC on the instance of `pmap_safety`, for the same reason.

## Observations without a run

Of programs that do what the library never does:

- `sys_env_set_status` on an environment that runs makes it runnable
  (`kern/syscall.c:129`), and a second CPU takes it (`kern/sched.c:39`).
- A second `sys_env_destroy` meets `ENV_DYING`, not `ENV_RUNNING`, and frees a zombie
  that a CPU still executes (`kern/env.c:465`).
- `tlb_invalidate` reaches only its own CPU (`kern/pmap.c:580`): a parent that unmaps
  a page of a running child leaves it in the other TLB.

Of ordinary programs:

- `sched_halt` does not count `ENV_DYING`: a CPU that finds nothing else enters the monitor
  with the lock while a zombie is still on another CPU, and it is never freed.
- An exit clears `curenv`, and the search of `sched_yield` starts at slot 0 again. Programs
  that fork and exit for ever in low slots can starve the higher ones.
- `sys_page_alloc` increments `pp_ref` and `page_insert` does so again (`kern/syscall.c:190`):
  the page never returns to the free list. When `page_insert` fails, the page goes back
  with `pp_ref` 1; its next user starts from there.
- `pp_ref` has 16 bits and is never checked: a page mapped at 2^16 addresses counts
  as unused. Without `Room`, `RefCoversPointers` fails.
- `env_alloc` does not reset `pr`. The dispatcher discards the result of `sys_env_destroy`.
- A device interrupt in user mode destroys the environment that happens to run; one
  that ends a `hlt` panics the kernel. Both are in `JosKernel`.
- `env_init` relies on zeroed memory for `env_status`; `Init` has the result.
- `user_mem_check` rounds `va + len` up in 32 bits (`kern/pmap.c:653`). When the range reaches
  into the last page of the address space, or past it, the rounded end is 0 or has wrapped, the loop
  looks at nothing and the range is accepted. Its comment says "you must test every page that
  contains any of that range" (`kern/pmap.c:633`) and allows addresses below `ULIM` only
  (`kern/pmap.c:637-645`).
  `UserMemCheckLimit` proves the disagreement for all such ranges. An empty range inside a page is
  judged by that page, although it has no byte.
- A stack pointer that has already left the exception page at the bottom is not taken for
  one on it (`kern/trap.c:388`), and the frame starts at the top again, over older ones.
- `page_init` puts pages above the 4 MB of `entry_pgdir` first on the free list; only the
  reordering in the self test `check_page_free_list` makes `mem_init` work.
- `mmio_map_region` panics when a region ends exactly at `MMIOLIM` (`kern/pmap.c:619`).
- `stab_binsearch` takes a stab at `addr + 1` for a match (`kern/kdebug.c:89`), and
  `debuginfo_eip` does not report a missing line.
- With more processors than `NCPU` in front of it, `bootcpu` is set to the element behind
  `cpus` (`kern/mpconfig.c:185`). `cpu_id` is an index, not an APIC id.
- A full ring buffer looks like an empty one, so a whole buffer is lost at once.
  DEL in an empty line is text. `ctlmap` has its `KEY_HOME` at 0x97.
- `putch` of `kern/printf.c` increments the pointer in `*cnt++`. A number is padded with `-`
  by `%-5d`, and its sign comes before the padding.
- OSLab2 relies on `pthread_cond_wait` returning only after a signal. With a spurious wake-up,
  which POSIX allows, `goods` leaves its range for good, since limits are tested by `==`.
- OSLab3 reads lines with `gets` into fixed arrays, and a line with more than one `|` writes
  behind its array of commands.

## Not modelled

Register contents, segments and the IDT; the serial and parallel ports and the
programming of PIC, LAPIC and clock (device I/O: only which interrupt may arrive where is
kept); `boot.S` and `entry.S` (straight-line code before anything runs concurrently); the
self tests `check_*` of `kern/pmap.c` but for the reordering above; the commands of the
monitor that only print or poke; how OSLab3 splits a line.

OSLab1, 4, 5 and 6 are earlier stages of the kernel in OSLab7, mostly line by line the same.
A model of OSLab7 is a model of them, and `PROJECT.json` maps to OSLab7 only. These four
copies, the page table constants of `entrypgdir.c`, the user test programs and
generated CMake files make up most lines of the repository, so that the part that is mapped
is a small share of all lines although it holds nearly all control flow of OSLab7, OSLab2 and
OSLab3. `PROJECT.json` lists every part with its status.

## Plan

Done: all modules above, and the proofs of every safety property but those of the sequential
algorithms. Left, in this order:

1. `kernel_round_robin` with exits and a scheduler that keeps its place, to state what it
   would take to lift the restriction.
2. The commands of the monitor that change memory, and `vsnprintf`.
