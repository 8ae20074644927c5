------------------------------ MODULE JosKernel ------------------------------
(***************************************************************************)
(* Environments, scheduler and trap handling of the JOS kernel on several  *)
(* CPUs: kern/env.c, kern/sched.c, kern/trap.c, kern/init.c and the        *)
(* environment calls of kern/syscall.c of OSLab7-Mitjoslab4.               *)
(*                                                                         *)
(* A CPU that leaves user mode, or is woken from its halt, first spins on  *)
(* the big kernel lock (pc "trap" or "wake").  From lock_kernel() to       *)
(* unlock_kernel() no other CPU runs kernel code, so everything a trap     *)
(* does under the lock is one action; what other CPUs did before the lock  *)
(* was obtained is seen by that action.  A CPU that enters the kernel      *)
(* monitor never leaves it and never gives the lock back.                  *)
(*                                                                         *)
(* An env_id is <<generation, slot>>; <<0, 0>> is the id 0.                *)
(***************************************************************************)
EXTENDS Integers, Sequences, FiniteSets

CONSTANTS
  NENV,    \* number of slots of envs[]
  NCPU,    \* number of processors, CPU 0 is the boot processor
  NGEN,    \* generations of an env_id before the 31-bit id wraps
  NBOOT,   \* environments created by i386_init
  Prios    \* values programs pass to sys_change_pr

ASSUME KernelAssumption ==
  /\ NENV \in Nat \ {0}
  /\ NCPU \in Nat \ {0}
  /\ NGEN \in Nat \ {0}
  /\ NBOOT \in 0 .. NENV
  /\ Prios \subseteq Int
  /\ 0 \in Prios

Slots == 0 .. NENV - 1
Cpus  == 0 .. NCPU - 1
BootCpu == 0

\* The null pointer of curenv, and "nobody" as the holder of the lock.
Null  == -1
NoCpu == -1

EnvStatus == {"free", "dying", "runnable", "running", "not_runnable"}
CpuPc     == {"boot", "user", "trap", "halted", "wake", "monitor", "dead"}
EnvIds    == (0 .. NGEN) \X Slots
ZeroId    == <<0, 0>>

VARIABLES
  env_status,       \* envs[e].env_status
  env_gen,          \* generation part of envs[e].env_id
  env_parent_id,    \* envs[e].env_parent_id
  env_pr,           \* envs[e].pr
  env_ipc_recving,  \* envs[e].env_ipc_recving
  env_free_list,    \* env_free_list, head first
  cpu_env,          \* curenv of each CPU
  cpu_status,       \* cpus[c].cpu_status
  cpu_pc,           \* where each CPU is
  kernel_lock,      \* holder of the big kernel lock between actions
  panicstr          \* a CPU has panicked

envVars == <<env_gen, env_parent_id, env_pr, env_ipc_recving, env_free_list>>
cpuVars == <<cpu_env, cpu_status, cpu_pc, kernel_lock, panicstr>>
vars    == <<env_status, envVars, cpuVars>>

IdOf(e) == <<env_gen[e], e>>

(***************************************************************************)
(* i386_init: env_init links all slots in order, ENV_CREATE allocates the  *)
(* first NBOOT of them, boot_aps starts the other CPUs while CPU 0 holds   *)
(* the lock.                                                               *)
(***************************************************************************)
Init ==
  /\ env_status = [e \in Slots |-> IF e < NBOOT THEN "runnable" ELSE "free"]
  /\ env_gen = [e \in Slots |-> IF e < NBOOT THEN 1 ELSE 0]
  /\ env_parent_id = [e \in Slots |-> ZeroId]
  /\ env_pr = [e \in Slots |-> 0]
  /\ env_ipc_recving = [e \in Slots |-> FALSE]
  /\ env_free_list = [i \in 1 .. NENV - NBOOT |-> NBOOT + i - 1]
  /\ cpu_env = [c \in Cpus |-> Null]
  /\ cpu_status = [c \in Cpus |-> "started"]
  /\ cpu_pc = [c \in Cpus |-> "boot"]
  /\ kernel_lock = BootCpu
  /\ panicstr = FALSE

-----------------------------------------------------------------------------
(***************************************************************************)
(* Leaving the kernel.  The operators below take the environment table as  *)
(* the handler left it: st is env_status, pr is the priorities and cur is  *)
(* curenv of CPU c.                                                        *)
(***************************************************************************)

\* Mutant: the previous environment is left marked running.
env_run_no_demote(c, st, cur, e) ==
  /\ env_status' = IF cur = e THEN st ELSE [st EXCEPT ![e] = "running"]
  /\ cpu_env' = [cpu_env EXCEPT ![c] = e]
  /\ cpu_pc' = [cpu_pc EXCEPT ![c] = "user"]
  /\ kernel_lock' = NoCpu
  /\ UNCHANGED <<cpu_status, panicstr>>

\* env_run: switch CPU c to e, return to user mode and drop the lock.
env_run(c, st, cur, e) ==
  /\ env_status' =
       IF cur = e THEN st
       ELSE [x \in Slots |->
               IF x = e THEN "running"
               ELSE IF x = cur /\ st[x] = "running" THEN "runnable" ELSE st[x]]
  /\ cpu_env' = [cpu_env EXCEPT ![c] = e]
  /\ cpu_pc' = [cpu_pc EXCEPT ![c] = "user"]
  /\ kernel_lock' = NoCpu
  /\ UNCHANGED <<cpu_status, panicstr>>

\* monitor(NULL) under the lock: none of its commands makes it return.
monitor(c, st, cur) ==
  /\ env_status' = st
  /\ cpu_env' = [cpu_env EXCEPT ![c] = cur]
  /\ cpu_pc' = [cpu_pc EXCEPT ![c] = "monitor"]
  /\ kernel_lock' = c
  /\ UNCHANGED cpu_status

\* sched_halt: the monitor if nothing can run any more, else hlt.
sched_halt(c, st, cur) ==
  \/ /\ \A e \in Slots : st[e] \notin {"runnable", "running"}
     /\ monitor(c, st, cur)
     /\ UNCHANGED panicstr
  \/ /\ \E e \in Slots : st[e] \in {"runnable", "running"}
     /\ env_status' = st
     /\ cpu_env' = [cpu_env EXCEPT ![c] = Null]
     /\ cpu_status' = [cpu_status EXCEPT ![c] = "halted"]
     /\ cpu_pc' = [cpu_pc EXCEPT ![c] = "halted"]
     /\ kernel_lock' = NoCpu
     /\ UNCHANGED panicstr

\* Mutant: every search starts at slot 0.
Dist_from_0(cur, e) == e

\* Distance of slot e from the slot the search of sched_yield starts at.
Dist(cur, e) == (e - (IF cur = Null THEN 0 ELSE cur)) % NENV

\* Mutant: environments that run on another CPU are chosen too.
Chosen_running(st, pr, cur) ==
  LET candidates == {e \in Slots : st[e] \in {"runnable", "running"} /\ e # cur}
  IN  {e \in candidates : \A f \in candidates :
         \/ pr[e] < pr[f]
         \/ pr[e] = pr[f] /\ Dist(cur, e) <= Dist(cur, f)}

\* The environment the search loop of sched_yield ends with: the lowest pr,
\* the first one in circular order among equals (empty if none is runnable).
Chosen(st, pr, cur) ==
  LET runnable == {e \in Slots : st[e] = "runnable"}
  IN  {e \in runnable : \A f \in runnable :
         \/ pr[e] < pr[f]
         \/ pr[e] = pr[f] /\ Dist(cur, e) <= Dist(cur, f)}

\* sched_yield: keep a running curenv of lower pr, else run the chosen one.
sched_yield(c, st, pr, cur) ==
  LET canKeep == cur # Null /\ st[cur] = "running"
  IN  \/ \E e \in Chosen(st, pr, cur) :
           \/ canKeep /\ pr[cur] < pr[e] /\ env_run(c, st, cur, cur)
           \/ ~ (canKeep /\ pr[cur] < pr[e]) /\ env_run(c, st, cur, e)
      \/ /\ \A e \in Slots : st[e] # "runnable"
         /\ \/ canKeep /\ env_run(c, st, cur, cur)
            \/ ~ canKeep /\ sched_halt(c, st, cur)

\* The end of trap(): back to curenv if it is still running.
trap_return(c, st, pr, cur) ==
  \/ /\ cur # Null /\ st[cur] = "running"
     /\ env_run(c, st, cur, cur)
  \/ /\ ~ (cur # Null /\ st[cur] = "running")
     /\ sched_yield(c, st, pr, cur)

-----------------------------------------------------------------------------
(***************************************************************************)
(* Environment table operations.                                           *)
(***************************************************************************)

\* envid2env: the slot an id stands for when curenv is cur, or Null.
envid2env(cur, id, checkperm) ==
  IF id = ZeroId THEN cur
  ELSE LET e == id[2]
       IN  IF \/ env_status[e] = "free"
              \/ IdOf(e) # id
              \/ checkperm /\ e # cur /\ env_parent_id[e] # IdOf(cur)
           THEN Null ELSE e

\* The generation env_alloc gives a slot: ids stay positive, so they wrap.
NextGen(g) == IF g = NGEN THEN 1 ELSE g + 1

\* env_alloc for a child of parent: everything of the slot but its status.
\* The slot keeps the pr of the environment that used it before.
env_alloc(e, parent) ==
  /\ env_free_list # <<>>
  /\ e = Head(env_free_list)
  /\ env_gen' = [env_gen EXCEPT ![e] = NextGen(@)]
  /\ env_parent_id' = [env_parent_id EXCEPT ![e] = parent]
  /\ env_ipc_recving' = [env_ipc_recving EXCEPT ![e] = FALSE]
  /\ env_free_list' = Tail(env_free_list)
  /\ UNCHANGED env_pr

\* env_free: the status the table has afterwards, and the free list.
freed(e) == [env_status EXCEPT ![e] = "free"]

\* Mutant: the slot is not put back on the list.
env_free_unlinked(e) ==
  UNCHANGED <<env_gen, env_parent_id, env_pr, env_ipc_recving, env_free_list>>

env_free(e) ==
  /\ env_free_list' = <<e>> \o env_free_list
  /\ UNCHANGED <<env_gen, env_parent_id, env_pr, env_ipc_recving>>

\* Mutant: freed at once, whoever runs it.
env_destroy_now(c, e) ==
  LET cur == cpu_env[c]
  IN  /\ env_free(e)
      /\ IF e = cur THEN sched_yield(c, freed(e), env_pr, Null)
                    ELSE trap_return(c, freed(e), env_pr, cur)

\* env_destroy(e) called on CPU c: an environment that runs on another CPU
\* only becomes a zombie.
env_destroy(c, e) ==
  LET cur == cpu_env[c]
  IN  \/ /\ env_status[e] = "running" /\ e # cur
         /\ trap_return(c, [env_status EXCEPT ![e] = "dying"], env_pr, cur)
         /\ UNCHANGED envVars
      \/ /\ env_status[e] # "running" \/ e = cur
         /\ env_free(e)
         /\ IF e = cur THEN sched_yield(c, freed(e), env_pr, Null)
                       ELSE trap_return(c, freed(e), env_pr, cur)

-----------------------------------------------------------------------------
(***************************************************************************)
(* Entering the kernel.                                                    *)
(***************************************************************************)

\* trap() up to the lock: an exception, a system call or an interrupt in
\* user mode, or an interrupt that ends a halt.  After a panic it halts for
\* good.
trap(c) ==
  /\ cpu_pc[c] \in {"user", "halted"}
  /\ \/ /\ panicstr
        /\ cpu_pc' = [cpu_pc EXCEPT ![c] = "dead"]
        /\ UNCHANGED cpu_status
     \/ /\ ~ panicstr
        /\ cpu_pc' = [cpu_pc EXCEPT ![c] = IF @ = "user" THEN "trap" ELSE "wake"]
        /\ cpu_status' = [cpu_status EXCEPT ![c] = "started"]
  /\ UNCHANGED <<env_status, envVars, cpu_env, kernel_lock, panicstr>>

\* The lock is obtained by a CPU that trapped from user mode ...
locked(c) == cpu_pc[c] = "trap" /\ kernel_lock = NoCpu
\* ... whose environment is a zombie,
zombie(c) == locked(c) /\ env_status[cpu_env[c]] = "dying"
\* ... or is still alive and has its trap dispatched.
live(c) == locked(c) /\ ~ zombie(c)

\* Mutant: a zombie that traps is resumed.
trap_zombie_resumed(c) ==
  /\ zombie(c)
  /\ cpu_pc' = [cpu_pc EXCEPT ![c] = "user"]
  /\ UNCHANGED <<env_status, envVars, cpu_env, cpu_status, kernel_lock, panicstr>>

\* trap(): garbage collection of a zombie environment.
trap_zombie(c) ==
  /\ zombie(c)
  /\ env_free(cpu_env[c])
  /\ sched_yield(c, freed(cpu_env[c]), env_pr, Null)

\* trap_dispatch: clock interrupt, and the system call sys_yield.
trap_timer(c) ==
  /\ live(c)
  /\ sched_yield(c, env_status, env_pr, cpu_env[c])
  /\ UNCHANGED envVars

\* trap_dispatch: an exception, a device interrupt, a page fault without a
\* usable upcall or a bad pointer given to a system call.
trap_fatal(c) ==
  /\ live(c)
  /\ env_destroy(c, cpu_env[c])

\* trap_dispatch: breakpoint.
trap_brkpt(c) ==
  /\ live(c)
  /\ monitor(c, env_status, cpu_env[c])
  /\ UNCHANGED <<envVars, panicstr>>

\* trap_dispatch: a page fault handed to the upcall, a spurious interrupt or
\* a system call that changes no environment (cputs, cgetc, getenvid, the
\* page calls, an unknown number, any call that returns an error).
trap_resume(c) ==
  /\ live(c)
  /\ trap_return(c, env_status, env_pr, cpu_env[c])
  /\ UNCHANGED envVars

\* An interrupt that ends a halt: clock and spurious ones schedule.
wake_timer(c) ==
  /\ cpu_pc[c] = "wake" /\ kernel_lock = NoCpu
  /\ sched_yield(c, env_status, env_pr, cpu_env[c])
  /\ UNCHANGED envVars

\* A device interrupt, routed to the boot CPU, is an unhandled kernel trap.
wake_irq(c) ==
  /\ c = BootCpu
  /\ cpu_pc[c] = "wake" /\ kernel_lock = NoCpu
  /\ monitor(c, env_status, cpu_env[c])
  /\ panicstr' = TRUE
  /\ UNCHANGED envVars

\* The sched_yield at the end of i386_init and of mp_main.
boot_yield(c) ==
  /\ cpu_pc[c] = "boot"
  /\ kernel_lock = IF c = BootCpu THEN c ELSE NoCpu
  /\ sched_yield(c, env_status, env_pr, cpu_env[c])
  /\ UNCHANGED envVars

-----------------------------------------------------------------------------
(***************************************************************************)
(* System calls of the running environment, the successful paths.          *)
(***************************************************************************)

sys_exofork(c) ==
  /\ live(c)
  /\ \E e \in Slots :
       /\ env_alloc(e, IdOf(cpu_env[c]))
       /\ trap_return(c, [env_status EXCEPT ![e] = "not_runnable"], env_pr, cpu_env[c])

sys_env_destroy(c, id) ==
  /\ live(c)
  /\ LET e == envid2env(cpu_env[c], id, TRUE)
     IN  e # Null /\ env_destroy(c, e)

sys_env_set_status(c, id, status) ==
  /\ live(c)
  /\ status \in {"runnable", "not_runnable"}
  /\ LET e == envid2env(cpu_env[c], id, TRUE)
     IN  /\ e # Null
         /\ trap_return(c, [env_status EXCEPT ![e] = status], env_pr, cpu_env[c])
  /\ UNCHANGED envVars

sys_ipc_try_send(c, id) ==
  /\ live(c)
  /\ LET e == envid2env(cpu_env[c], id, FALSE)
     IN  /\ e # Null /\ env_ipc_recving[e]
         /\ env_ipc_recving' = [env_ipc_recving EXCEPT ![e] = FALSE]
         /\ trap_return(c, [env_status EXCEPT ![e] = "runnable"], env_pr, cpu_env[c])
  /\ UNCHANGED <<env_gen, env_parent_id, env_pr, env_free_list>>

sys_ipc_recv(c) ==
  LET cur == cpu_env[c]
  IN  /\ live(c)
      /\ env_ipc_recving' = [env_ipc_recving EXCEPT ![cur] = TRUE]
      /\ trap_return(c, [env_status EXCEPT ![cur] = "not_runnable"], env_pr, cur)
      /\ UNCHANGED <<env_gen, env_parent_id, env_pr, env_free_list>>

sys_change_pr(c, p) ==
  LET cur == cpu_env[c]
  IN  /\ live(c)
      /\ env_pr' = [env_pr EXCEPT ![cur] = p]
      /\ trap_return(c, env_status, [env_pr EXCEPT ![cur] = p], cur)
      /\ UNCHANGED <<env_gen, env_parent_id, env_ipc_recving, env_free_list>>

-----------------------------------------------------------------------------
(***************************************************************************)
(* What programs built on lib/ ask for.                                    *)
(***************************************************************************)

\* fork, pfork and dumbfork make a child runnable once, after sys_exofork.
fork_start(c, id) ==
  LET e == id[2]
  IN  /\ id # ZeroId
      /\ env_status[e] = "not_runnable" /\ ~ env_ipc_recving[e]
      /\ sys_env_set_status(c, id, "runnable")

\* exit, and the parent in user/spin.c that kills its child once.
exit_or_kill(c, id) ==
  /\ id = ZeroId \/ env_status[id[2]] # "dying"
  /\ sys_env_destroy(c, id)

\* Traps and interrupts, with exceptions, breakpoints and devices or not.
Quiet(c) ==
  \/ trap(c) \/ trap_timer(c) \/ trap_resume(c) \/ wake_timer(c) \/ boot_yield(c)
Machine(c) ==
  Quiet(c) \/ trap_zombie(c) \/ trap_fatal(c) \/ trap_brkpt(c) \/ wake_irq(c)

\* System calls whose use by the library and by other programs is the same.
Calls(c) ==
  \/ sys_exofork(c) \/ sys_ipc_recv(c)
  \/ \E p \in Prios : sys_change_pr(c, p)
  \/ \E id \in EnvIds : sys_ipc_try_send(c, id)

Next ==
  \E c \in Cpus :
    \/ Machine(c) \/ Calls(c)
    \/ \E id \in EnvIds : fork_start(c, id) \/ exit_or_kill(c, id)

\* Programs as the library lets them behave.
Spec == Init /\ [][Next]_vars

\* Nobody meets an exception, a breakpoint or a device interrupt, and nobody
\* exits or is killed either.
StableNext ==
  \E c \in Cpus : Quiet(c) \/ Calls(c) \/ \E id \in EnvIds : fork_start(c, id)

\* The clock interrupts every CPU again and again (lapic timer, also out of
\* hlt), so a CPU always traps again, infinitely many of its traps are clock
\* interrupts, and a CPU that spins on a free lock obtains it.
Fairness ==
  \A c \in Cpus :
    /\ WF_vars(trap(c)) /\ WF_vars(boot_yield(c)) /\ WF_vars(wake_timer(c))
    /\ WF_vars(trap_zombie(c)) /\ SF_vars(trap_timer(c))

FairSpec == Init /\ [][Next]_vars /\ Fairness
StableSpec == Init /\ [][StableNext]_vars /\ Fairness

-----------------------------------------------------------------------------
(***************************************************************************)
(* Properties.                                                             *)
(***************************************************************************)

\* Every variable has its type.
TypeOK ==
  /\ env_status \in [Slots -> EnvStatus]
  /\ env_gen \in [Slots -> 0 .. NGEN]
  /\ env_parent_id \in [Slots -> EnvIds]
  /\ env_pr \in [Slots -> Prios]
  /\ env_ipc_recving \in [Slots -> BOOLEAN]
  /\ env_free_list \in Seq(Slots)
  /\ cpu_env \in [Cpus -> Slots \cup {Null}]
  /\ cpu_status \in [Cpus -> {"started", "halted"}]
  /\ cpu_pc \in [Cpus -> CpuPc]
  /\ kernel_lock \in Cpus \cup {NoCpu}
  /\ panicstr \in BOOLEAN

\* CPU c executes environment code, or has trapped out of it and not yet
\* obtained the lock; either way it will touch cpu_env[c] next.
InEnv(c) == cpu_pc[c] \in {"user", "trap"}

\* "Check that one environment doesn't run on two CPUs at once"
\* (user/stresssched.c): the scheduler never gives two CPUs one environment.
OneCpuPerEnv ==
  \A c, d \in Cpus : InEnv(c) /\ InEnv(d) /\ cpu_env[c] = cpu_env[d] => c = d

\* An environment is never freed under a CPU that is still running it: the
\* env_free of env_destroy waits for the CPU to trap (env.c, "A zombie
\* environment will be freed the next time it traps to the kernel").
NeverFreedWhileRunning ==
  \A c \in Cpus : InEnv(c) =>
    cpu_env[c] # Null /\ env_status[cpu_env[c]] \in {"running", "dying"}

\* No environment is marked running or dying without a CPU that runs it: it
\* could never be scheduled, or reaped, again.
RunningHasCpu ==
  \A e \in Slots : env_status[e] \in {"running", "dying"} =>
    \E c \in Cpus : cpu_env[c] = e /\ (InEnv(c) \/ cpu_pc[c] \in {"monitor", "dead"})

\* env_free_list holds exactly the free slots, each once: no slot leaks and
\* none is handed out twice.
FreeListExact ==
  /\ \A e \in Slots :
       env_status[e] = "free" <=> \E i \in 1 .. Len(env_free_list) : env_free_list[i] = e
  /\ \A i, j \in 1 .. Len(env_free_list) :
       env_free_list[i] = env_free_list[j] => i = j

\* Every slot is accounted for, however its environment was killed, faulted or
\* exited (env_run, env_destroy, env_free, env_alloc): what is marked running
\* or dying has its CPU, and what is free is on env_free_list, once.
SlotsAccounted == RunningHasCpu /\ FreeListExact

\* An environment that is waiting in sys_ipc_recv is blocked until a send
\* wakes it, and only a waiting one can be sent to.
ReceiverBlocked ==
  \A e \in Slots : env_ipc_recving[e] /\ env_status[e] # "free" =>
    env_status[e] = "not_runnable"

\* A CPU sits in the kernel monitor, with the big kernel lock.
InMonitor == \E c \in Cpus : cpu_pc[c] = "monitor"

\* The round robin of sched_yield starves nobody: an environment that no
\* other one has a smaller pr than is not runnable for ever without running.
NoStarvation ==
  \A e \in Slots :
    <>[](\A f \in Slots : env_status[f] # "free" => env_pr[e] <= env_pr[f])
      => []<>(env_status[e] # "runnable" \/ InMonitor)

\* "A zombie environment will be freed the next time it traps to the kernel"
\* (env.c, env_destroy): sooner or later it is not a zombie any more, unless a
\* CPU entered the kernel monitor, which keeps the lock the zombie waits for.
ZombieFreedOrMonitor ==
  \A e \in Slots : env_status[e] = "dying" ~> (env_status[e] # "dying" \/ InMonitor)

=============================================================================
