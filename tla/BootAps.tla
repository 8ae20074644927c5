------------------------------- MODULE BootAps -------------------------------
(***************************************************************************)
(* The start of the other processors: i386_init and boot_aps on the boot   *)
(* processor, mpentry.S and mp_main on the others, with the interprocessor *)
(* interrupts in between.  mpentry_kstack and cpu_status are shared, and   *)
(* nothing protects them.  The model ends with each processor's first      *)
(* sched_yield, where JosKernel begins.                                    *)
(*                                                                         *)
(* A processor accepts a STARTUP only after an INIT, as lapic_startap      *)
(* expects of "regular hardware", so the second one it sends is ignored.   *)
(***************************************************************************)
EXTENDS Integers

CONSTANTS
  ncpu,   \* processors found by mp_init
  Bsp,    \* index in cpus of the one that runs i386_init: cpunum()
  NBOOT   \* environments created by i386_init

Cpus == 0 .. ncpu - 1

ASSUME BootAssumption == ncpu \in Nat /\ Bsp \in Cpus /\ NBOOT \in Nat \ {0}

VARIABLES
  pc,              \* where each processor is
  c,               \* the loop variable of boot_aps
  mpentry_kstack,  \* whose stack the next processor will take
  init, startup,   \* INIT and STARTUP interrupts on their way
  esp,             \* whose stack a processor runs on; -1 before it has one
  cpu_status,
  kernel_lock,     \* the holder, or -1
  runnable,        \* environments that are ENV_RUNNABLE ...
  running          \* ... and ENV_RUNNING

vars == <<pc, c, mpentry_kstack, init, startup, esp, cpu_status, kernel_lock,
          runnable, running>>
locals == <<c, mpentry_kstack, init, startup, esp>>

\* The boot processor: lock, loop, init, startup1, startup2, wait, create,
\* sched.  The others: off, halted (after INIT), entry (mpentry.S), mp_main,
\* lock, sched.  All end in user, hlt or monitor.
Pc == {"lock", "loop", "init", "startup1", "startup2", "wait", "create", "sched",
       "off", "halted", "entry", "mp_main", "user", "hlt", "monitor"}

Goto(p, from, to) == pc[p] = from /\ pc' = [pc EXCEPT ![p] = to]

\* mp_init has marked the boot processor as started.
Init ==
  /\ pc = [p \in Cpus |-> IF p = Bsp THEN "lock" ELSE "off"]
  /\ c = 0
  /\ mpentry_kstack = -1
  /\ init = [p \in Cpus |-> FALSE]
  /\ startup = [p \in Cpus |-> 0]
  /\ esp = [p \in Cpus |-> IF p = Bsp THEN p ELSE -1]
  /\ cpu_status = [p \in Cpus |-> IF p = Bsp THEN "started" ELSE "unused"]
  /\ kernel_lock = -1
  /\ runnable = 0
  /\ running = 0

lock_kernel(p) == kernel_lock = -1 /\ kernel_lock' = p

\* Mutant: the boot processor does not take the lock before boot_aps.
lock_late(p) ==
  /\ Goto(p, "lock", IF p = Bsp THEN "loop" ELSE "sched")
  /\ IF p = Bsp THEN UNCHANGED kernel_lock ELSE lock_kernel(p)
  /\ UNCHANGED <<locals, cpu_status, runnable, running>>

\* lock_kernel of i386_init, and then boot_aps; of mp_main, and then the
\* scheduler.
lock(p) ==
  /\ Goto(p, "lock", IF p = Bsp THEN "loop" ELSE "sched")
  /\ lock_kernel(p)
  /\ UNCHANGED <<locals, cpu_status, runnable, running>>

\* The head of the loop of boot_aps, up to the stack for processor c.
boot_aps ==
  /\ \/ c >= ncpu /\ Goto(Bsp, "loop", "create") /\ UNCHANGED <<c, mpentry_kstack>>
     \/ c = Bsp /\ c' = c + 1 /\ pc[Bsp] = "loop" /\ UNCHANGED <<pc, mpentry_kstack>>
     \/ /\ c < ncpu /\ c # Bsp /\ Goto(Bsp, "loop", "init")
        /\ mpentry_kstack' = c /\ UNCHANGED c
  /\ UNCHANGED <<init, startup, esp, cpu_status, kernel_lock, runnable, running>>

\* lapic_startap: INIT, STARTUP, STARTUP, without waiting for any effect.
lapic_startap ==
  /\ \/ Goto(Bsp, "init", "startup1") /\ init' = [init EXCEPT ![c] = TRUE] /\ UNCHANGED startup
     \/ /\ Goto(Bsp, "startup1", "startup2") \/ Goto(Bsp, "startup2", "wait")
        /\ startup' = [startup EXCEPT ![c] = @ + 1] /\ UNCHANGED init
  /\ UNCHANGED <<c, mpentry_kstack, esp, cpu_status, kernel_lock, runnable, running>>

\* Mutant: boot_aps does not wait.
boot_aps_wait_none ==
  /\ Goto(Bsp, "wait", "loop")
  /\ c' = c + 1
  /\ UNCHANGED <<mpentry_kstack, init, startup, esp, cpu_status, kernel_lock,
                 runnable, running>>

\* while (c->cpu_status != CPU_STARTED)
boot_aps_wait ==
  /\ Goto(Bsp, "wait", "loop")
  /\ cpu_status[c] = "started"
  /\ c' = c + 1
  /\ UNCHANGED <<mpentry_kstack, init, startup, esp, cpu_status, kernel_lock,
                 runnable, running>>

\* The ENV_CREATEs of i386_init.
create ==
  /\ Goto(Bsp, "create", "sched")
  /\ runnable' = NBOOT
  /\ UNCHANGED <<locals, cpu_status, kernel_lock, running>>

\* The hardware of processor p: an INIT that arrives, then the STARTUPs.
deliver(p) ==
  /\ \/ /\ init[p] /\ init' = [init EXCEPT ![p] = FALSE]
        /\ pc' = [pc EXCEPT ![p] = "halted"] /\ UNCHANGED startup
     \/ /\ ~init[p] /\ startup[p] > 0 /\ startup' = [startup EXCEPT ![p] = @ - 1]
        /\ pc' = [pc EXCEPT ![p] = IF @ = "halted" THEN "entry" ELSE @] /\ UNCHANGED init
  /\ UNCHANGED <<c, mpentry_kstack, esp, cpu_status, kernel_lock, runnable, running>>

\* mpentry.S: to the load of mpentry_kstack and the call of mp_main.
mpentry(p) ==
  /\ Goto(p, "entry", "mp_main")
  /\ esp' = [esp EXCEPT ![p] = mpentry_kstack]
  /\ UNCHANGED <<c, mpentry_kstack, init, startup, cpu_status, kernel_lock, runnable, running>>

\* Mutant: mp_main does not report back.
mp_main_silent(p) ==
  /\ Goto(p, "mp_main", "lock")
  /\ UNCHANGED <<locals, cpu_status, kernel_lock, runnable, running>>

\* mp_main to the xchg of cpu_status.
mp_main(p) ==
  /\ Goto(p, "mp_main", "lock")
  /\ cpu_status' = [cpu_status EXCEPT ![p] = "started"]
  /\ UNCHANGED <<locals, kernel_lock, runnable, running>>

\* sched_yield and sched_halt: an environment, nothing for this processor,
\* or nothing in the system; the monitor keeps the lock.
sched_yield(p) ==
  /\ \/ /\ runnable > 0 /\ Goto(p, "sched", "user")
        /\ runnable' = runnable - 1 /\ running' = running + 1
        /\ kernel_lock' = -1 /\ UNCHANGED cpu_status
     \/ /\ runnable = 0 /\ running > 0 /\ Goto(p, "sched", "hlt")
        /\ cpu_status' = [cpu_status EXCEPT ![p] = "halted"]
        /\ kernel_lock' = -1 /\ UNCHANGED <<runnable, running>>
     \/ /\ runnable = 0 /\ running = 0 /\ Goto(p, "sched", "monitor")
        /\ UNCHANGED <<cpu_status, kernel_lock, runnable, running>>
  /\ UNCHANGED locals

boot == boot_aps \/ lapic_startap \/ boot_aps_wait \/ create
processor(p) == deliver(p) \/ mpentry(p) \/ mp_main(p) \/ lock(p) \/ sched_yield(p)

Next == boot \/ \E p \in Cpus : processor(p)

Spec == Init /\ [][Next]_vars

\* Processors execute and interrupts arrive.  Whoever waits for the lock
\* obtains it: the others take it once each.
FairSpec == Spec /\ WF_vars(boot) /\ \A p \in Cpus : WF_vars(processor(p))

-----------------------------------------------------------------------------
\* Every variable has its type.
TypeOK ==
  /\ pc \in [Cpus -> Pc]
  /\ c \in 0 .. ncpu
  /\ mpentry_kstack \in -1 .. ncpu - 1
  /\ init \in [Cpus -> BOOLEAN]
  /\ startup \in [Cpus -> 0 .. 2]
  /\ esp \in [Cpus -> -1 .. ncpu - 1]
  /\ cpu_status \in [Cpus -> {"unused", "started", "halted"}]
  /\ kernel_lock \in -1 .. ncpu - 1
  /\ runnable \in 0 .. NBOOT /\ running \in 0 .. NBOOT

\* Each processor runs on the stack that was set aside for it, so no two
\* share one, although all of them find it in the same variable.
OwnStack == \A p \in Cpus : pc[p] \notin {"off", "halted", "entry"} => esp[p] = p

\* No processor looks for work before there is some, which would send it to
\* the monitor with the lock.
NoMonitor == \A p \in Cpus : pc[p] # "monitor"

\* Every processor gets to its first environment or halts for want of one.
AllStart == <>(\A p \in Cpus : pc[p] \in {"user", "hlt"})
=============================================================================
