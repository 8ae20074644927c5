--------------------------- MODULE JosKernelProof ---------------------------
(***************************************************************************)
(* Proofs about the specification Spec of JosKernel, for any number of     *)
(* slots, processors, generations and priorities.                          *)
(*                                                                         *)
(* Every handler ends in env_run, sched_halt or the monitor, always        *)
(* through sched_yield or trap_return, which work on the table st and the  *)
(* curenv the handler hands them.  Good(c, st, cur) is what a handler has  *)
(* to hand them, LeaveOK(st) what they establish; with those two facts the *)
(* proof of an action is about its own assignments only.                   *)
(***************************************************************************)
EXTENDS JosKernel, TLAPS

\* A CPU that has just booted, is halted or is being woken has no curenv.
IdleHasNoEnv ==
  \A c \in Cpus : cpu_pc[c] \in {"boot", "halted", "wake"} => cpu_env[c] = Null

\* The inductive invariant.
IInv ==
  /\ TypeOK
  /\ OneCpuPerEnv
  /\ NeverFreedWhileRunning
  /\ RunningHasCpu
  /\ FreeListExact
  /\ ReceiverBlocked
  /\ IdleHasNoEnv

\* The types of what a CPU changes when it leaves the kernel.
CpuTypeOK ==
  /\ env_status \in [Slots -> EnvStatus]
  /\ cpu_env \in [Cpus -> Slots \cup {Null}]
  /\ cpu_status \in [Cpus -> {"started", "halted"}]
  /\ cpu_pc \in [Cpus -> CpuPc]
  /\ kernel_lock \in Cpus \cup {NoCpu}

\* CPU d accounts for environment e being running or dying.
Owns(d, e) == cpu_env[d] = e /\ (InEnv(d) \/ cpu_pc[d] \in {"monitor", "dead"})

\* What a handler on CPU c hands to the scheduler: only cur may be running
\* without another CPU behind it, no other CPU is in cur, and whatever the
\* other CPUs are in is running or dying.
Good(c, st, cur) ==
  /\ st \in [Slots -> EnvStatus]
  /\ cur \in Slots \cup {Null}
  /\ cur # Null => st[cur] \in {"running", "not_runnable"}
  /\ \A d \in Cpus : d # c /\ InEnv(d) =>
       /\ cpu_env[d] # Null
       /\ cpu_env[d] # cur
       /\ st[cpu_env[d]] \in {"running", "dying"}
  /\ \A e \in Slots : st[e] \in {"running", "dying"} =>
       e = cur \/ \E d \in Cpus \ {c} : Owns(d, e)

\* What leaving the kernel with the table st establishes.
LeaveOK(st) ==
  /\ CpuTypeOK'
  /\ panicstr' \in BOOLEAN
  /\ OneCpuPerEnv'
  /\ NeverFreedWhileRunning'
  /\ RunningHasCpu'
  /\ IdleHasNoEnv'
  /\ \A e \in Slots :
       /\ env_status'[e] = "free" <=> st[e] = "free"
       /\ st[e] = "not_runnable" => env_status'[e] = "not_runnable"

\* Null is not a slot and NoCpu not a processor.
LEMMA NullNotSlot == Null \notin Slots /\ NoCpu \notin Cpus
  BY KernelAssumption DEF Null, Slots, NoCpu, Cpus

\* Switching to a runnable environment, or going on with a running curenv.
LEMMA EnvRunOK ==
  ASSUME IInv, NEW c \in Cpus, NEW st, NEW cur, NEW e \in Slots,
         Good(c, st, cur),
         (e = cur /\ st[e] = "running") \/ st[e] = "runnable",
         env_run(c, st, cur, e)
  PROVE  LeaveOK(st)
<1> USE NullNotSlot
<1>0. (e # cur => st[e] = "runnable") /\ (e = cur => st[e] = "running")
  BY DEF Good
<1>1. cpu_env' = [cpu_env EXCEPT ![c] = e] /\ cpu_pc' = [cpu_pc EXCEPT ![c] = "user"]
  BY DEF env_run
<1>2. /\ cpu_env \in [Cpus -> Slots \cup {Null}]
      /\ cpu_pc \in [Cpus -> CpuPc]
      /\ st \in [Slots -> EnvStatus]
      /\ cur \in Slots \cup {Null}
  BY DEF IInv, TypeOK, Good
<1>3. \A d \in Cpus : d # c => cpu_env'[d] = cpu_env[d] /\ cpu_pc'[d] = cpu_pc[d]
  BY <1>1, <1>2
<1>4. cpu_env'[c] = e /\ cpu_pc'[c] = "user"
  BY <1>1, <1>2
<1>5. env_status' \in [Slots -> EnvStatus]
  <2>1. CASE cur = e
    BY <2>1, <1>2 DEF env_run
  <2>2. CASE cur # e
    BY <2>2, <1>2 DEF env_run, EnvStatus
  <2> QED BY <2>1, <2>2
<1>6. env_status'[e] = "running"
  BY <1>0, <1>2 DEF env_run, Good
<1>7. \A x \in Slots : x # e /\ x # cur => env_status'[x] = st[x]
  BY <1>2 DEF env_run
<1>8. cur # Null /\ cur # e =>
        env_status'[cur] = IF st[cur] = "running" THEN "runnable" ELSE st[cur]
  BY <1>2 DEF env_run
<1>9. CpuTypeOK'
  BY <1>1, <1>2, <1>5 DEF CpuTypeOK, env_run, CpuPc, IInv, TypeOK
<1>10. \A d \in Cpus : d # c /\ InEnv(d) => cpu_env[d] # e /\ cpu_env[d] \in Slots
  BY <1>0, <1>2 DEF Good
<1>11. OneCpuPerEnv'
  BY <1>3, <1>4, <1>10 DEF OneCpuPerEnv, InEnv, IInv
<1>12. NeverFreedWhileRunning'
  <2> SUFFICES ASSUME NEW d \in Cpus, InEnv(d)'
               PROVE  cpu_env'[d] # Null /\ env_status'[cpu_env'[d]] \in {"running", "dying"}
    BY DEF NeverFreedWhileRunning
  <2>1. CASE d = c
    BY <2>1, <1>4, <1>6
  <2>2. CASE d # c
    <3>1. InEnv(d)
      BY <2>2, <1>3 DEF InEnv
    <3>2. cpu_env[d] # e /\ cpu_env[d] # cur /\ cpu_env[d] \in Slots
      BY <3>1, <2>2, <1>10 DEF Good
    <3> QED BY <3>1, <3>2, <2>2, <1>3, <1>7 DEF Good
  <2> QED BY <2>1, <2>2
<1>13. RunningHasCpu'
  <2> SUFFICES ASSUME NEW x \in Slots, env_status'[x] \in {"running", "dying"}
               PROVE  \E d \in Cpus : cpu_env'[d] = x /\ (InEnv(d)' \/ cpu_pc'[d] \in {"monitor", "dead"})
    BY DEF RunningHasCpu
  <2>1. CASE x = e
    BY <2>1, <1>4 DEF InEnv
  <2>2. CASE x # e
    <3>1. x # cur
      BY <2>2, <1>8 DEF Good
    <3>2. st[x] \in {"running", "dying"}
      BY <2>2, <3>1, <1>7
    <3>3. PICK d \in Cpus \ {c} : Owns(d, x)
      BY <3>1, <3>2 DEF Good
    <3> QED BY <3>3, <1>3 DEF Owns, InEnv
  <2> QED BY <2>1, <2>2
<1>14. IdleHasNoEnv'
  BY <1>3, <1>4 DEF IdleHasNoEnv, IInv
<1>15. \A x \in Slots : (env_status'[x] = "free" <=> st[x] = "free")
                    /\ (st[x] = "not_runnable" => env_status'[x] = "not_runnable")
  <2> TAKE x \in Slots
  <2>1. CASE x = e
    BY <2>1, <1>6
  <2>2. CASE x # e /\ x = cur
    BY <2>2, <1>8
  <2>3. CASE x # e /\ x # cur
    BY <2>3, <1>7
  <2> QED BY <2>1, <2>2, <2>3
<1>16. panicstr' \in BOOLEAN
  BY DEF env_run, IInv, TypeOK
<1> QED BY <1>9, <1>11, <1>12, <1>13, <1>14, <1>15, <1>16 DEF LeaveOK

\* Entering the monitor for good.
LEMMA MonitorOK ==
  ASSUME IInv, NEW c \in Cpus, NEW st, NEW cur,
         Good(c, st, cur),
         panicstr' \in BOOLEAN,
         monitor(c, st, cur)
  PROVE  LeaveOK(st)
<1> USE NullNotSlot
<1>1. /\ cpu_env' = [cpu_env EXCEPT ![c] = cur]
      /\ cpu_pc' = [cpu_pc EXCEPT ![c] = "monitor"]
      /\ env_status' = st
      /\ kernel_lock' = c
      /\ cpu_status' = cpu_status
  BY DEF monitor
<1>2. /\ cpu_env \in [Cpus -> Slots \cup {Null}]
      /\ cpu_pc \in [Cpus -> CpuPc]
      /\ cpu_status \in [Cpus -> {"started", "halted"}]
      /\ st \in [Slots -> EnvStatus]
      /\ cur \in Slots \cup {Null}
  BY DEF IInv, TypeOK, Good
<1>3. \A d \in Cpus : d # c => cpu_env'[d] = cpu_env[d] /\ cpu_pc'[d] = cpu_pc[d]
  BY <1>1, <1>2
<1>4. cpu_env'[c] = cur /\ cpu_pc'[c] = "monitor"
  BY <1>1, <1>2
<1>5. CpuTypeOK'
  BY <1>1, <1>2 DEF CpuTypeOK, CpuPc
<1>6. OneCpuPerEnv'
  BY <1>3, <1>4 DEF OneCpuPerEnv, InEnv, IInv
<1>7. NeverFreedWhileRunning'
  BY <1>1, <1>3, <1>4 DEF NeverFreedWhileRunning, InEnv, Good
<1>8. RunningHasCpu'
  BY <1>1, <1>3, <1>4 DEF RunningHasCpu, Good, Owns, InEnv
<1>9. IdleHasNoEnv'
  BY <1>3, <1>4 DEF IdleHasNoEnv, IInv
<1> QED BY <1>1, <1>5, <1>6, <1>7, <1>8, <1>9 DEF LeaveOK

\* sched_halt is called only when curenv is not running any more.
LEMMA HaltOK ==
  ASSUME IInv, NEW c \in Cpus, NEW st, NEW cur,
         Good(c, st, cur),
         ~ (cur # Null /\ st[cur] = "running"),
         sched_halt(c, st, cur)
  PROVE  LeaveOK(st)
<1> USE NullNotSlot
<1>p. panicstr' = panicstr /\ panicstr \in BOOLEAN
  BY DEF sched_halt, IInv, TypeOK
<1>0. CASE monitor(c, st, cur)
  BY <1>0, <1>p, MonitorOK
<1>1. CASE /\ env_status' = st
           /\ cpu_env' = [cpu_env EXCEPT ![c] = Null]
           /\ cpu_status' = [cpu_status EXCEPT ![c] = "halted"]
           /\ cpu_pc' = [cpu_pc EXCEPT ![c] = "halted"]
           /\ kernel_lock' = NoCpu
  <2>2. /\ cpu_env \in [Cpus -> Slots \cup {Null}]
        /\ cpu_pc \in [Cpus -> CpuPc]
        /\ cpu_status \in [Cpus -> {"started", "halted"}]
        /\ st \in [Slots -> EnvStatus]
    BY DEF IInv, TypeOK, Good
  <2>3. \A d \in Cpus : d # c => cpu_env'[d] = cpu_env[d] /\ cpu_pc'[d] = cpu_pc[d]
    BY <1>1, <2>2
  <2>4. cpu_env'[c] = Null /\ cpu_pc'[c] = "halted"
    BY <1>1, <2>2
  <2>5. CpuTypeOK'
    BY <1>1, <2>2 DEF CpuTypeOK, CpuPc
  <2>6. OneCpuPerEnv'
    BY <2>3, <2>4 DEF OneCpuPerEnv, InEnv, IInv
  <2>7. NeverFreedWhileRunning'
    BY <1>1, <2>3, <2>4 DEF NeverFreedWhileRunning, InEnv, Good
  <2>8. RunningHasCpu'
    <3> SUFFICES ASSUME NEW x \in Slots, st[x] \in {"running", "dying"}
                 PROVE  \E d \in Cpus : cpu_env'[d] = x /\ (InEnv(d)' \/ cpu_pc'[d] \in {"monitor", "dead"})
      BY <1>1 DEF RunningHasCpu
    <3>1. PICK d \in Cpus \ {c} : Owns(d, x)
      BY DEF Good
    <3> QED BY <3>1, <2>3 DEF Owns, InEnv
  <2>9. IdleHasNoEnv'
    BY <2>3, <2>4 DEF IdleHasNoEnv, IInv
  <2> QED BY <1>1, <1>p, <2>5, <2>6, <2>7, <2>8, <2>9 DEF LeaveOK
<1> QED BY <1>0, <1>1 DEF sched_halt

\* The scheduler, whatever its search finds.
LEMMA YieldOK ==
  ASSUME IInv, NEW c \in Cpus, NEW st, NEW pr, NEW cur,
         Good(c, st, cur),
         sched_yield(c, st, pr, cur)
  PROVE  LeaveOK(st)
<1>1. CASE \E e \in Chosen(st, pr, cur) : env_run(c, st, cur, e)
  <2>1. PICK e \in Chosen(st, pr, cur) : env_run(c, st, cur, e)
    BY <1>1
  <2>2. e \in Slots /\ st[e] = "runnable"
    BY DEF Chosen
  <2> QED BY <2>1, <2>2, EnvRunOK
<1>2. CASE cur # Null /\ st[cur] = "running" /\ env_run(c, st, cur, cur)
  <2>1. cur \in Slots
    BY <1>2 DEF Good
  <2> QED BY <2>1, <1>2, EnvRunOK
<1>3. CASE ~ (cur # Null /\ st[cur] = "running") /\ sched_halt(c, st, cur)
  BY <1>3, HaltOK
<1> QED BY <1>1, <1>2, <1>3 DEF sched_yield

\* The end of trap().
LEMMA ReturnOK ==
  ASSUME IInv, NEW c \in Cpus, NEW st, NEW pr, NEW cur,
         Good(c, st, cur),
         trap_return(c, st, pr, cur)
  PROVE  LeaveOK(st)
<1>1. CASE cur # Null /\ st[cur] = "running" /\ env_run(c, st, cur, cur)
  <2>1. cur \in Slots
    BY <1>1 DEF Good
  <2> QED BY <2>1, <1>1, EnvRunOK
<1>2. CASE sched_yield(c, st, pr, cur)
  BY <1>2, YieldOK
<1> QED BY <1>1, <1>2 DEF trap_return

-----------------------------------------------------------------------------
(***************************************************************************)
(* What a handler has when it starts.                                      *)
(***************************************************************************)

\* The environment of a CPU that trapped and is not a zombie is running.
LEMMA LiveCur ==
  ASSUME IInv, NEW c \in Cpus, live(c)
  PROVE  cpu_env[c] \in Slots /\ env_status[cpu_env[c]] = "running" /\ InEnv(c)
BY NullNotSlot DEF IInv, TypeOK, NeverFreedWhileRunning, InEnv, live, zombie, locked

\* A table that treats the other environments alike is Good, with curenv
\* either kept or dropped.
LEMMA GoodWith ==
  ASSUME IInv, NEW c \in Cpus, InEnv(c), NEW st \in [Slots -> EnvStatus], NEW cur,
         \A x \in Slots : x # cpu_env[c] =>
           (env_status[x] \in {"running", "dying"} <=> st[x] \in {"running", "dying"}),
         \/ cur = cpu_env[c] /\ st[cur] \in {"running", "not_runnable"}
         \/ cur = Null /\ st[cpu_env[c]] \notin {"running", "dying"}
  PROVE  Good(c, st, cur)
<1> USE NullNotSlot
<1>1. cpu_env[c] \in Slots /\ cpu_env \in [Cpus -> Slots \cup {Null}]
  BY DEF IInv, TypeOK, NeverFreedWhileRunning
<1>2. \A d \in Cpus : d # c /\ InEnv(d) =>
        /\ cpu_env[d] \in Slots
        /\ cpu_env[d] # cpu_env[c]
        /\ env_status[cpu_env[d]] \in {"running", "dying"}
  BY <1>1 DEF IInv, OneCpuPerEnv, NeverFreedWhileRunning
<1>3. \A d \in Cpus : d # c /\ InEnv(d) =>
        /\ cpu_env[d] # Null
        /\ cpu_env[d] # cur
        /\ st[cpu_env[d]] \in {"running", "dying"}
  BY <1>2
<1>4. ASSUME NEW e \in Slots, st[e] \in {"running", "dying"}, e # cur
      PROVE  \E d \in Cpus \ {c} : Owns(d, e)
  <2>1. e # cpu_env[c] /\ env_status[e] \in {"running", "dying"}
    BY <1>4, <1>1
  <2>2. PICK d \in Cpus : Owns(d, e)
    BY <2>1 DEF IInv, RunningHasCpu, Owns
  <2> QED BY <2>1, <2>2 DEF Owns
<1> QED BY <1>1, <1>3, <1>4 DEF Good

\* A CPU that comes from boot or from a halt has no curenv to account for.
LEMMA GoodIdle ==
  ASSUME IInv, NEW c \in Cpus, cpu_pc[c] \in {"boot", "wake"}
  PROVE  cpu_env[c] = Null /\ Good(c, env_status, Null)
<1> USE NullNotSlot
<1>1. cpu_env[c] = Null /\ env_status \in [Slots -> EnvStatus]
  BY DEF IInv, TypeOK, IdleHasNoEnv
<1>2. \A d \in Cpus : InEnv(d) =>
        cpu_env[d] # Null /\ env_status[cpu_env[d]] \in {"running", "dying"}
  BY DEF IInv, NeverFreedWhileRunning
<1>3. \A e \in Slots : env_status[e] \in {"running", "dying"} =>
        \E d \in Cpus \ {c} : Owns(d, e)
  BY <1>1 DEF IInv, RunningHasCpu, Owns
<1> QED BY <1>1, <1>2, <1>3 DEF Good

\* The table when a handler changed no environment.
LEMMA GoodSame ==
  ASSUME IInv, NEW c \in Cpus, live(c)
  PROVE  Good(c, env_status, cpu_env[c])
<1>1. env_status \in [Slots -> EnvStatus]
  BY DEF IInv, TypeOK
<1> QED BY <1>1, LiveCur, GoodWith

-----------------------------------------------------------------------------
(***************************************************************************)
(* The environment table and the free list.                                *)
(***************************************************************************)

EnvTypeOK ==
  /\ env_gen \in [Slots -> 0 .. NGEN]
  /\ env_parent_id \in [Slots -> EnvIds]
  /\ env_pr \in [Slots -> Prios]
  /\ env_ipc_recving \in [Slots -> BOOLEAN]
  /\ env_free_list \in Seq(Slots)

\* The parts of the invariant a handler and its exit from the kernel prove.
LEMMA Finish ==
  ASSUME NEW st, LeaveOK(st), EnvTypeOK', FreeListExact', ReceiverBlocked'
  PROVE  IInv'
BY DEF LeaveOK, CpuTypeOK, EnvTypeOK, IInv, TypeOK

\* A handler that leaves the table but for one status that is not "free".
LEMMA SameEnvs ==
  ASSUME IInv, NEW st, LeaveOK(st), UNCHANGED envVars,
         \A e \in Slots : st[e] = "free" <=> env_status[e] = "free",
         \A e \in Slots : env_ipc_recving[e] /\ st[e] # "free" => st[e] = "not_runnable"
  PROVE  IInv'
<1>1. EnvTypeOK'
  BY DEF IInv, TypeOK, EnvTypeOK, envVars
<1>2. \A e \in Slots : env_status'[e] = "free" <=> env_status[e] = "free"
  BY DEF LeaveOK
<1>3. FreeListExact'
  BY <1>2 DEF FreeListExact, IInv, envVars
<1>4. ReceiverBlocked'
  BY DEF ReceiverBlocked, envVars, LeaveOK
<1> QED BY <1>1, <1>3, <1>4, Finish

\* env_free puts a slot on the list that was not there.
LEMMA PushFree ==
  ASSUME IInv, NEW e \in Slots, env_status[e] # "free", env_free(e),
         LeaveOK(freed(e))
  PROVE  IInv'
<1>1. EnvTypeOK'
  BY DEF IInv, TypeOK, EnvTypeOK, env_free
<1>2. env_status \in [Slots -> EnvStatus] /\ env_free_list \in Seq(Slots)
  BY DEF IInv, TypeOK
<1>3. \A x \in Slots : env_status'[x] = "free" <=> x = e \/ env_status[x] = "free"
  BY <1>2 DEF LeaveOK, freed
<1>4. FreeListExact'
  <2> DEFINE L == env_free_list
             M == env_free_list'
  <2>1. M = <<e>> \o L
    BY DEF env_free
  <2>2. Len(M) = Len(L) + 1 /\ Len(L) \in Nat /\ M[1] = e
    BY <2>1, <1>2
  <2>3. \A i \in 1 .. Len(L) : M[i + 1] = L[i]
    BY <2>1, <1>2
  <2>4. \A i \in 2 .. Len(M) : i - 1 \in 1 .. Len(L) /\ M[i] = L[i - 1]
    <3> TAKE i \in 2 .. Len(M)
    <3>1. i - 1 \in 1 .. Len(L) /\ (i - 1) + 1 = i
      BY <2>2
    <3> QED BY <3>1, <2>3
  <2>5. \A i \in 1 .. Len(L) : L[i] \in Slots /\ L[i] # e
    BY <1>2 DEF IInv, FreeListExact
  <2> HIDE DEF L, M
  <2>6. \A x \in Slots : (\E i \in 1 .. Len(M) : M[i] = x)
                           <=> x = e \/ \E i \in 1 .. Len(L) : L[i] = x
    <3> TAKE x \in Slots
    <3>1. ASSUME NEW i \in 1 .. Len(M), M[i] = x
          PROVE  x = e \/ \E j \in 1 .. Len(L) : L[j] = x
      <4>1. CASE i = 1
        BY <4>1, <3>1, <2>2
      <4>2. CASE i # 1
        <5>1. i \in 2 .. Len(M)
          BY <4>2, <2>2
        <5> QED BY <5>1, <3>1, <2>4
      <4> QED BY <4>1, <4>2
    <3>2. ASSUME x = e PROVE \E i \in 1 .. Len(M) : M[i] = x
      BY <3>2, <2>2
    <3>3. ASSUME NEW j \in 1 .. Len(L), L[j] = x
          PROVE  \E i \in 1 .. Len(M) : M[i] = x
      <4>1. j + 1 \in 1 .. Len(M)
        BY <2>2
      <4> QED BY <4>1, <3>3, <2>3
    <3> QED BY <3>1, <3>2, <3>3
  <2>7. \A i, j \in 1 .. Len(M) : M[i] = M[j] => i = j
    <3> SUFFICES ASSUME NEW i \in 1 .. Len(M), NEW j \in 1 .. Len(M), M[i] = M[j]
                 PROVE  i = j
      OBVIOUS
    <3>1. CASE i = 1 /\ j = 1
      BY <3>1
    <3>2. CASE i = 1 /\ j # 1
      <4>1. j \in 2 .. Len(M)
        BY <3>2, <2>2
      <4> QED BY <3>2, <4>1, <2>2, <2>4, <2>5
    <3>3. CASE i # 1 /\ j = 1
      <4>1. i \in 2 .. Len(M)
        BY <3>3, <2>2
      <4> QED BY <3>3, <4>1, <2>2, <2>4, <2>5
    <3>4. CASE i # 1 /\ j # 1
      <4>1. i \in 2 .. Len(M) /\ j \in 2 .. Len(M)
        BY <3>4, <2>2
      <4>2. L[i - 1] = L[j - 1] /\ i - 1 \in 1 .. Len(L) /\ j - 1 \in 1 .. Len(L)
        BY <4>1, <2>4
      <4>3. i - 1 = j - 1
        BY <4>2 DEF IInv, FreeListExact, L
      <4> QED BY <4>1, <4>3, <2>2
    <3> QED BY <3>1, <3>2, <3>3, <3>4
  <2>8. \A x \in Slots : env_status[x] = "free" <=> \E i \in 1 .. Len(L) : L[i] = x
    BY DEF IInv, FreeListExact, L
  <2>9. \A x \in Slots : env_status'[x] = "free" <=> \E i \in 1 .. Len(M) : M[i] = x
    BY <1>3, <2>6, <2>8
  <2> QED BY <2>7, <2>9 DEF FreeListExact, M
<1>5. ReceiverBlocked'
  BY <1>2 DEF ReceiverBlocked, IInv, LeaveOK, freed, env_free
<1> QED BY <1>1, <1>4, <1>5, Finish

\* env_alloc takes the first slot off the list; sys_exofork gives it a status.
LEMMA PopFree ==
  ASSUME IInv, NEW e \in Slots, NEW parent \in EnvIds, env_alloc(e, parent),
         LeaveOK([env_status EXCEPT ![e] = "not_runnable"])
  PROVE  IInv'
<1>1. env_status \in [Slots -> EnvStatus] /\ env_free_list \in Seq(Slots)
  BY DEF IInv, TypeOK
<1>2. EnvTypeOK'
  <2>1. env_gen' \in [Slots -> 0 .. NGEN]
    BY KernelAssumption DEF IInv, TypeOK, env_alloc, NextGen
  <2>2. env_parent_id' \in [Slots -> EnvIds] /\ env_pr' \in [Slots -> Prios]
        /\ env_ipc_recving' \in [Slots -> BOOLEAN]
    BY DEF IInv, TypeOK, env_alloc
  <2>3. env_free_list' \in Seq(Slots)
    BY <1>1 DEF env_alloc
  <2> QED BY <2>1, <2>2, <2>3 DEF EnvTypeOK
<1>3. \A x \in Slots : env_status'[x] = "free" <=> x # e /\ env_status[x] = "free"
  BY <1>1 DEF LeaveOK
<1>4. FreeListExact'
  <2> DEFINE L == env_free_list
             M == env_free_list'
  <2>1. L # <<>> /\ e = Head(L) /\ M = Tail(L)
    BY DEF env_alloc
  <2>2. Len(L) \in Nat /\ Len(L) >= 1 /\ Len(M) = Len(L) - 1 /\ L[1] = e
    BY <2>1, <1>1
  <2>3. \A i \in 1 .. Len(M) : i + 1 \in 1 .. Len(L) /\ M[i] = L[i + 1]
    BY <2>1, <2>2, <1>1
  <2>4. \A i, j \in 1 .. Len(L) : L[i] = L[j] => i = j
    BY DEF IInv, FreeListExact
  <2>5. \A x \in Slots : env_status[x] = "free" <=> \E i \in 1 .. Len(L) : L[i] = x
    BY DEF IInv, FreeListExact
  <2> HIDE DEF L, M
  <2>6. \A i, j \in 1 .. Len(M) : M[i] = M[j] => i = j
    <3> SUFFICES ASSUME NEW i \in 1 .. Len(M), NEW j \in 1 .. Len(M), M[i] = M[j]
                 PROVE  i = j
      OBVIOUS
    <3>1. i + 1 = j + 1
      BY <2>3, <2>4
    <3> QED BY <3>1, <2>2
  <2>7. \A x \in Slots : (\E i \in 1 .. Len(M) : M[i] = x)
                           <=> x # e /\ \E i \in 1 .. Len(L) : L[i] = x
    <3> TAKE x \in Slots
    <3>1. ASSUME NEW i \in 1 .. Len(M), M[i] = x
          PROVE  x # e /\ \E j \in 1 .. Len(L) : L[j] = x
      <4>1. i + 1 \in 1 .. Len(L) /\ L[i + 1] = x /\ i + 1 # 1 /\ 1 \in 1 .. Len(L)
        BY <3>1, <2>2, <2>3
      <4> QED BY <4>1, <2>2, <2>4
    <3>2. ASSUME NEW j \in 1 .. Len(L), L[j] = x, x # e
          PROVE  \E i \in 1 .. Len(M) : M[i] = x
      <4>1. j # 1
        BY <3>2, <2>2
      <4>2. j - 1 \in 1 .. Len(M) /\ (j - 1) + 1 = j
        BY <4>1, <2>2
      <4>3. M[j - 1] = L[j]
        BY <4>2, <2>3
      <4> QED BY <4>2, <4>3, <3>2
    <3> QED BY <3>1, <3>2
  <2>8. \A x \in Slots : env_status'[x] = "free" <=> \E i \in 1 .. Len(M) : M[i] = x
    BY <1>3, <2>5, <2>7
  <2> QED BY <2>6, <2>8 DEF FreeListExact, M
<1>5. ReceiverBlocked'
  <2> SUFFICES ASSUME NEW x \in Slots, env_ipc_recving'[x], env_status'[x] # "free"
               PROVE  env_status'[x] = "not_runnable"
    BY DEF ReceiverBlocked
  <2>1. x # e
    BY DEF env_alloc, IInv, TypeOK
  <2>2. env_ipc_recving[x] /\ env_status[x] # "free"
    BY <2>1, <1>3 DEF env_alloc, IInv, TypeOK
  <2>3. env_status[x] = "not_runnable"
    BY <2>2 DEF IInv, ReceiverBlocked
  <2> QED BY <2>1, <2>3, <1>1 DEF LeaveOK
<1> QED BY <1>2, <1>4, <1>5, Finish

-----------------------------------------------------------------------------
(***************************************************************************)
(* The actions.                                                            *)
(***************************************************************************)

\* envid2env returns a slot in use, or Null; never 0 for a free slot.
LEMMA Envid2envOK ==
  ASSUME IInv, NEW c \in Cpus, live(c), NEW id \in EnvIds, NEW perm \in BOOLEAN,
         envid2env(cpu_env[c], id, perm) # Null
  PROVE  /\ envid2env(cpu_env[c], id, perm) \in Slots
         /\ env_status[envid2env(cpu_env[c], id, perm)] # "free"
         /\ id = ZeroId => envid2env(cpu_env[c], id, perm) = cpu_env[c]
         /\ id # ZeroId => envid2env(cpu_env[c], id, perm) = id[2]
<1>1. cpu_env[c] \in Slots /\ env_status[cpu_env[c]] = "running"
  BY LiveCur
<1>2. id[2] \in Slots
  BY DEF EnvIds
<1> QED BY <1>1, <1>2 DEF envid2env

\* trap() up to the lock.
LEMMA TrapStep ==
  ASSUME IInv, NEW c \in Cpus, trap(c)
  PROVE  IInv'
<1> USE NullNotSlot
<1>1. TypeOK'
  BY DEF IInv, TypeOK, trap, envVars, CpuPc
<1>2. /\ cpu_env' = cpu_env
      /\ env_status' = env_status
      /\ \A d \in Cpus : d # c => cpu_pc'[d] = cpu_pc[d]
      /\ cpu_pc[c] \in {"user", "halted"}
      /\ cpu_pc[c] = "user" => cpu_pc'[c] \in {"trap", "dead"}
      /\ cpu_pc[c] = "halted" => cpu_pc'[c] \in {"wake", "dead"}
  BY DEF trap, IInv, TypeOK
<1>3. \A d \in Cpus : InEnv(d)' => InEnv(d)
  BY <1>2 DEF InEnv
<1>4. OneCpuPerEnv' /\ NeverFreedWhileRunning'
  BY <1>2, <1>3 DEF IInv, OneCpuPerEnv, NeverFreedWhileRunning
<1>5. \A d \in Cpus : InEnv(d) \/ cpu_pc[d] \in {"monitor", "dead"} =>
                      (InEnv(d) \/ cpu_pc[d] \in {"monitor", "dead"})'
  BY <1>2 DEF InEnv
<1>6. RunningHasCpu'
  BY <1>2, <1>5 DEF IInv, RunningHasCpu
<1>7. FreeListExact' /\ ReceiverBlocked'
  BY DEF trap, envVars, IInv, FreeListExact, ReceiverBlocked
<1>8. IdleHasNoEnv'
  BY <1>2 DEF IInv, IdleHasNoEnv
<1> QED BY <1>1, <1>4, <1>6, <1>7, <1>8 DEF IInv

\* Handlers that change no environment: the scheduler does the rest.
LEMMA QuietStep ==
  ASSUME IInv, NEW c \in Cpus,
         \/ trap_timer(c) \/ trap_resume(c) \/ trap_brkpt(c)
         \/ wake_timer(c) \/ wake_irq(c) \/ boot_yield(c)
  PROVE  IInv'
<1>1. LeaveOK(env_status) /\ UNCHANGED envVars
  <2>1. CASE trap_timer(c)
    BY <2>1, GoodSame, YieldOK DEF trap_timer
  <2>2. CASE trap_resume(c)
    BY <2>2, GoodSame, ReturnOK DEF trap_resume
  <2>3. CASE trap_brkpt(c)
    <3>1. panicstr' \in BOOLEAN
      BY <2>3 DEF trap_brkpt, IInv, TypeOK
    <3> QED BY <2>3, <3>1, GoodSame, MonitorOK DEF trap_brkpt
  <2>4. CASE wake_timer(c)
    BY <2>4, GoodIdle, YieldOK DEF wake_timer
  <2>5. CASE wake_irq(c)
    <3>1. panicstr' \in BOOLEAN
      BY <2>5 DEF wake_irq
    <3> QED BY <2>5, <3>1, GoodIdle, MonitorOK DEF wake_irq
  <2>6. CASE boot_yield(c)
    BY <2>6, GoodIdle, YieldOK DEF boot_yield
  <2> QED BY <2>1, <2>2, <2>3, <2>4, <2>5, <2>6
<1>2. \A e \in Slots : env_ipc_recving[e] /\ env_status[e] # "free" => env_status[e] = "not_runnable"
  BY DEF IInv, ReceiverBlocked
<1> QED BY <1>1, <1>2, SameEnvs

\* Freeing the environment this CPU is in, by trap_zombie or env_destroy.
LEMMA FreeCur ==
  ASSUME IInv, NEW c \in Cpus, InEnv(c), env_free(cpu_env[c]),
         sched_yield(c, freed(cpu_env[c]), env_pr, Null)
  PROVE  IInv'
<1> DEFINE e == cpu_env[c]
<1>1. e \in Slots /\ env_status[e] # "free" /\ env_status \in [Slots -> EnvStatus]
  BY NullNotSlot DEF IInv, TypeOK, NeverFreedWhileRunning
<1>2. /\ freed(e) \in [Slots -> EnvStatus]
      /\ freed(e)[e] = "free"
      /\ \A x \in Slots : x # e => freed(e)[x] = env_status[x]
  BY <1>1 DEF freed, EnvStatus
<1>3. Good(c, freed(e), Null)
  BY <1>1, <1>2, GoodWith
<1>4. LeaveOK(freed(e))
  BY <1>3, YieldOK
<1> QED BY <1>1, <1>4, PushFree

\* env_destroy of an environment in use that is not a zombie already.
LEMMA DestroyStep ==
  ASSUME IInv, NEW c \in Cpus, live(c), NEW e \in Slots,
         env_status[e] \notin {"free", "dying"}, env_destroy(c, e)
  PROVE  IInv'
<1> DEFINE cur == cpu_env[c]
<1>1. cur \in Slots /\ env_status[cur] = "running" /\ InEnv(c)
  BY LiveCur
<1>2. env_status \in [Slots -> EnvStatus]
  BY DEF IInv, TypeOK
<1>3. CASE env_status[e] = "running" /\ e # cur
  <2> DEFINE st == [env_status EXCEPT ![e] = "dying"]
  <2>1. trap_return(c, st, env_pr, cur) /\ UNCHANGED envVars
    BY <1>3 DEF env_destroy
  <2>2. /\ st \in [Slots -> EnvStatus]
        /\ st[e] = "dying"
        /\ \A x \in Slots : x # e => st[x] = env_status[x]
    BY <1>2 DEF EnvStatus
  <2> HIDE DEF st
  <2>3. Good(c, st, cur)
    BY <1>1, <1>3, <2>2, GoodWith
  <2>4. LeaveOK(st)
    BY <2>1, <2>3, ReturnOK
  <2>5. ~ env_ipc_recving[e]
    BY <1>3 DEF IInv, ReceiverBlocked
  <2>6. \A x \in Slots : st[x] = "free" <=> env_status[x] = "free"
    BY <1>3, <2>2
  <2>7. \A x \in Slots : env_ipc_recving[x] /\ st[x] # "free" => st[x] = "not_runnable"
    BY <2>2, <2>5 DEF IInv, ReceiverBlocked
  <2> QED BY <2>1, <2>4, <2>6, <2>7, SameEnvs
<1>4. CASE e = cur
  BY <1>1, <1>4, FreeCur DEF env_destroy
<1>5. CASE env_status[e] # "running" /\ e # cur
  <2>1. env_free(e) /\ trap_return(c, freed(e), env_pr, cur)
    BY <1>5 DEF env_destroy
  <2>2. /\ freed(e) \in [Slots -> EnvStatus]
        /\ freed(e)[e] = "free"
        /\ \A x \in Slots : x # e => freed(e)[x] = env_status[x]
    BY <1>2 DEF freed, EnvStatus
  <2>3. Good(c, freed(e), cur)
    BY <1>1, <1>5, <2>2, GoodWith
  <2>4. LeaveOK(freed(e))
    BY <2>1, <2>3, ReturnOK
  <2> QED BY <2>1, <2>4, PushFree
<1> QED BY <1>3, <1>4, <1>5

\* sys_exofork.
LEMMA ExoforkStep ==
  ASSUME IInv, NEW c \in Cpus, sys_exofork(c)
  PROVE  IInv'
<1>1. live(c)
  BY DEF sys_exofork
<1>2. PICK e \in Slots :
        /\ env_alloc(e, IdOf(cpu_env[c]))
        /\ trap_return(c, [env_status EXCEPT ![e] = "not_runnable"], env_pr, cpu_env[c])
  BY DEF sys_exofork
<1> DEFINE st == [env_status EXCEPT ![e] = "not_runnable"]
<1>3. cpu_env[c] \in Slots /\ env_status[cpu_env[c]] = "running" /\ InEnv(c)
  BY <1>1, LiveCur
<1>4. env_status \in [Slots -> EnvStatus] /\ env_free_list \in Seq(Slots)
  BY DEF IInv, TypeOK
<1>5. env_status[e] = "free"
  <2>1. env_free_list # <<>> /\ e = Head(env_free_list)
    BY <1>2 DEF env_alloc
  <2>2. 1 \in 1 .. Len(env_free_list) /\ env_free_list[1] = e
    BY <1>4, <2>1
  <2> QED BY <2>2 DEF IInv, FreeListExact
<1>6. /\ st \in [Slots -> EnvStatus]
      /\ st[e] = "not_runnable"
      /\ \A x \in Slots : x # e => st[x] = env_status[x]
  BY <1>4 DEF EnvStatus
<1>7. IdOf(cpu_env[c]) \in EnvIds
  BY <1>3 DEF IdOf, EnvIds, IInv, TypeOK
<1>8. LeaveOK(st)
  <2> HIDE DEF st
  <2>1. Good(c, st, cpu_env[c])
    BY <1>3, <1>5, <1>6, GoodWith
  <2>2. trap_return(c, st, env_pr, cpu_env[c])
    BY <1>2 DEF st
  <2> QED BY <2>1, <2>2, ReturnOK
<1> QED BY <1>2, <1>7, <1>8, PopFree

\* sys_ipc_recv blocks the caller.
LEMMA RecvStep ==
  ASSUME IInv, NEW c \in Cpus, sys_ipc_recv(c)
  PROVE  IInv'
<1> DEFINE cur == cpu_env[c]
           st == [env_status EXCEPT ![cur] = "not_runnable"]
<1>1. /\ live(c)
      /\ env_ipc_recving' = [env_ipc_recving EXCEPT ![cur] = TRUE]
      /\ trap_return(c, st, env_pr, cur)
      /\ UNCHANGED <<env_gen, env_parent_id, env_pr, env_free_list>>
  BY DEF sys_ipc_recv
<1>2. cur \in Slots /\ env_status[cur] = "running" /\ InEnv(c)
  BY <1>1, LiveCur
<1>3. env_status \in [Slots -> EnvStatus] /\ env_ipc_recving \in [Slots -> BOOLEAN]
  BY DEF IInv, TypeOK
<1>4. /\ st \in [Slots -> EnvStatus]
      /\ st[cur] = "not_runnable"
      /\ \A x \in Slots : x # cur => st[x] = env_status[x]
  BY <1>2, <1>3 DEF EnvStatus
<1> HIDE DEF st
<1>5. LeaveOK(st)
  <2>1. Good(c, st, cur)
    BY <1>2, <1>4, GoodWith
  <2> QED BY <1>1, <2>1, ReturnOK
<1>6. EnvTypeOK'
  BY <1>1, <1>3 DEF IInv, TypeOK, EnvTypeOK
<1>7. \A e \in Slots : env_status'[e] = "free" <=> env_status[e] = "free"
  BY <1>2, <1>4, <1>5 DEF LeaveOK
<1>8. FreeListExact'
  BY <1>1, <1>7 DEF FreeListExact, IInv
<1>9. ReceiverBlocked'
  <2> SUFFICES ASSUME NEW x \in Slots, env_ipc_recving'[x], env_status'[x] # "free"
               PROVE  env_status'[x] = "not_runnable"
    BY DEF ReceiverBlocked
  <2>1. CASE x = cur
    BY <2>1, <1>4, <1>5 DEF LeaveOK
  <2>2. CASE x # cur
    <3>1. env_ipc_recving[x] /\ env_status[x] # "free"
      BY <2>2, <1>1, <1>3, <1>7
    <3>2. st[x] = "not_runnable"
      BY <2>2, <3>1, <1>4 DEF IInv, ReceiverBlocked
    <3> QED BY <3>2, <1>5 DEF LeaveOK
  <2> QED BY <2>1, <2>2
<1> QED BY <1>5, <1>6, <1>8, <1>9, Finish

\* sys_ipc_try_send wakes the receiver, which no CPU is in.
LEMMA SendStep ==
  ASSUME IInv, NEW c \in Cpus, NEW id \in EnvIds, sys_ipc_try_send(c, id)
  PROVE  IInv'
<1> DEFINE cur == cpu_env[c]
           e == envid2env(cur, id, FALSE)
           st == [env_status EXCEPT ![e] = "runnable"]
<1>1. /\ live(c)
      /\ e # Null /\ env_ipc_recving[e]
      /\ env_ipc_recving' = [env_ipc_recving EXCEPT ![e] = FALSE]
      /\ trap_return(c, st, env_pr, cur)
      /\ UNCHANGED <<env_gen, env_parent_id, env_pr, env_free_list>>
  BY DEF sys_ipc_try_send
<1>2. cur \in Slots /\ env_status[cur] = "running" /\ InEnv(c)
  BY <1>1, LiveCur
<1>3. env_status \in [Slots -> EnvStatus] /\ env_ipc_recving \in [Slots -> BOOLEAN]
  BY DEF IInv, TypeOK
<1>4. e \in Slots /\ env_status[e] # "free"
  BY <1>1, Envid2envOK
<1> HIDE DEF e
<1>5. env_status[e] = "not_runnable" /\ e # cur
  BY <1>1, <1>2, <1>4 DEF IInv, ReceiverBlocked
<1>6. /\ st \in [Slots -> EnvStatus]
      /\ st[e] = "runnable"
      /\ \A x \in Slots : x # e => st[x] = env_status[x]
  BY <1>3, <1>4 DEF EnvStatus
<1> HIDE DEF st
<1>7. LeaveOK(st)
  <2>1. Good(c, st, cur)
    BY <1>2, <1>5, <1>6, GoodWith
  <2> QED BY <1>1, <2>1, ReturnOK
<1>8. EnvTypeOK'
  BY <1>1, <1>3 DEF IInv, TypeOK, EnvTypeOK
<1>9. \A x \in Slots : env_status'[x] = "free" <=> env_status[x] = "free"
  BY <1>5, <1>6, <1>7 DEF LeaveOK
<1>10. FreeListExact'
  BY <1>1, <1>9 DEF FreeListExact, IInv
<1>11. ReceiverBlocked'
  <2> SUFFICES ASSUME NEW x \in Slots, env_ipc_recving'[x], env_status'[x] # "free"
               PROVE  env_status'[x] = "not_runnable"
    BY DEF ReceiverBlocked
  <2>1. x # e /\ env_ipc_recving[x] /\ env_status[x] # "free"
    BY <1>1, <1>3, <1>4, <1>9
  <2>2. st[x] = "not_runnable"
    BY <2>1, <1>6 DEF IInv, ReceiverBlocked
  <2> QED BY <2>2, <1>7 DEF LeaveOK
<1> QED BY <1>7, <1>8, <1>10, <1>11, Finish

\* sys_change_pr changes no status.
LEMMA ChangePrStep ==
  ASSUME IInv, NEW c \in Cpus, NEW p \in Prios, sys_change_pr(c, p)
  PROVE  IInv'
<1> DEFINE cur == cpu_env[c]
<1>1. /\ live(c)
      /\ env_pr' = [env_pr EXCEPT ![cur] = p]
      /\ trap_return(c, env_status, [env_pr EXCEPT ![cur] = p], cur)
      /\ UNCHANGED <<env_gen, env_parent_id, env_ipc_recving, env_free_list>>
  BY DEF sys_change_pr
<1>2. LeaveOK(env_status)
  BY <1>1, GoodSame, ReturnOK
<1>3. EnvTypeOK'
  BY <1>1 DEF IInv, TypeOK, EnvTypeOK
<1>4. FreeListExact' /\ ReceiverBlocked'
  BY <1>1, <1>2 DEF LeaveOK, IInv, FreeListExact, ReceiverBlocked
<1> QED BY <1>2, <1>3, <1>4, Finish

\* fork makes runnable a child that has never run and does not wait for IPC.
LEMMA ForkStep ==
  ASSUME IInv, NEW c \in Cpus, NEW id \in EnvIds, fork_start(c, id)
  PROVE  IInv'
<1> DEFINE cur == cpu_env[c]
           e == id[2]
           st == [env_status EXCEPT ![e] = "runnable"]
<1>1. id # ZeroId /\ env_status[e] = "not_runnable" /\ ~ env_ipc_recving[e]
      /\ sys_env_set_status(c, id, "runnable")
  BY DEF fork_start
<1>2. /\ live(c)
      /\ envid2env(cur, id, TRUE) # Null
      /\ trap_return(c, [env_status EXCEPT ![envid2env(cur, id, TRUE)] = "runnable"], env_pr, cur)
      /\ UNCHANGED envVars
  BY <1>1 DEF sys_env_set_status
<1>3. envid2env(cur, id, TRUE) = e /\ e \in Slots
  BY <1>1, <1>2, Envid2envOK
<1>4. trap_return(c, st, env_pr, cur)
  BY <1>2, <1>3
<1>5. cur \in Slots /\ env_status[cur] = "running" /\ InEnv(c)
  BY <1>2, LiveCur
<1>6. /\ st \in [Slots -> EnvStatus]
      /\ st[e] = "runnable"
      /\ \A x \in Slots : x # e => st[x] = env_status[x]
  BY <1>3 DEF EnvStatus, IInv, TypeOK
<1> HIDE DEF st, e
<1>7. LeaveOK(st)
  <2>1. Good(c, st, cur)
    BY <1>1, <1>5, <1>6, GoodWith
  <2> QED BY <1>4, <2>1, ReturnOK
<1>8. \A x \in Slots : st[x] = "free" <=> env_status[x] = "free"
  BY <1>1, <1>6
<1>9. \A x \in Slots : env_ipc_recving[x] /\ st[x] # "free" => st[x] = "not_runnable"
  BY <1>1, <1>6 DEF IInv, ReceiverBlocked
<1> QED BY <1>2, <1>7, <1>8, <1>9, SameEnvs

\* exit, and a parent that kills a child once.
LEMMA ExitStep ==
  ASSUME IInv, NEW c \in Cpus, NEW id \in EnvIds, exit_or_kill(c, id)
  PROVE  IInv'
<1> DEFINE e == envid2env(cpu_env[c], id, TRUE)
<1>1. live(c) /\ e # Null /\ env_destroy(c, e)
      /\ (id = ZeroId \/ env_status[id[2]] # "dying")
  BY DEF exit_or_kill, sys_env_destroy
<1>2. e \in Slots /\ env_status[e] # "free"
      /\ (id = ZeroId => e = cpu_env[c]) /\ (id # ZeroId => e = id[2])
  BY <1>1, Envid2envOK
<1>3. env_status[e] # "dying"
  BY <1>1, <1>2, LiveCur
<1> QED BY <1>1, <1>2, <1>3, DestroyStep

-----------------------------------------------------------------------------
(***************************************************************************)
(* The invariant and what follows from it.                                 *)
(***************************************************************************)

\* After i386_init and boot_aps the invariant holds.
LEMMA InitOK == Init => IInv
<1> SUFFICES ASSUME Init PROVE IInv
  OBVIOUS
<1> USE KernelAssumption
<1>1. Len(env_free_list) = NENV - NBOOT
      /\ \A i \in 1 .. NENV - NBOOT : env_free_list[i] = NBOOT + i - 1
  BY DEF Init
<1>2. TypeOK
  <2>1. env_status \in [Slots -> EnvStatus] /\ env_gen \in [Slots -> 0 .. NGEN]
    BY DEF Init, EnvStatus
  <2>2. env_parent_id \in [Slots -> EnvIds] /\ env_pr \in [Slots -> Prios]
    BY DEF Init, EnvIds, ZeroId, Slots
  <2>3. env_ipc_recving \in [Slots -> BOOLEAN] /\ panicstr \in BOOLEAN
    BY DEF Init
  <2>4. env_free_list \in Seq(Slots)
    <3>1. \A i \in 1 .. NENV - NBOOT : NBOOT + i - 1 \in Slots
      BY DEF Slots
    <3>2. NENV - NBOOT \in Nat /\ env_free_list = [i \in 1 .. NENV - NBOOT |-> NBOOT + i - 1]
      BY DEF Init
    <3> QED BY <3>1, <3>2
  <2>5. cpu_env \in [Cpus -> Slots \cup {Null}] /\ cpu_status \in [Cpus -> {"started", "halted"}]
        /\ cpu_pc \in [Cpus -> CpuPc] /\ kernel_lock \in Cpus \cup {NoCpu}
    BY DEF Init, CpuPc, Cpus, BootCpu
  <2> QED BY <2>1, <2>2, <2>3, <2>4, <2>5 DEF TypeOK
<1>3. \A c \in Cpus : ~ InEnv(c) /\ cpu_env[c] = Null
  BY DEF Init, InEnv
<1>4. OneCpuPerEnv /\ NeverFreedWhileRunning /\ IdleHasNoEnv
  BY <1>3 DEF OneCpuPerEnv, NeverFreedWhileRunning, IdleHasNoEnv
<1>5. RunningHasCpu /\ ReceiverBlocked
  BY DEF Init, RunningHasCpu, ReceiverBlocked
<1>6. FreeListExact
  <2>1. \A e \in Slots : env_status[e] = "free" => e - NBOOT + 1 \in 1 .. NENV - NBOOT
                                                /\ env_free_list[e - NBOOT + 1] = e
    BY <1>1 DEF Init, Slots
  <2>2. \A e \in Slots, i \in 1 .. NENV - NBOOT : env_free_list[i] = e => env_status[e] = "free"
    BY <1>1 DEF Init, Slots
  <2>3. \A i, j \in 1 .. NENV - NBOOT : env_free_list[i] = env_free_list[j] => i = j
    BY <1>1
  <2> QED BY <1>1, <2>1, <2>2, <2>3 DEF FreeListExact
<1> QED BY <1>2, <1>4, <1>5, <1>6 DEF IInv

\* Every step of every CPU keeps the invariant.
LEMMA NextOK == IInv /\ [Next]_vars => IInv'
<1> SUFFICES ASSUME IInv, [Next]_vars PROVE IInv'
  OBVIOUS
<1>1. CASE UNCHANGED vars
  BY <1>1 DEF vars, envVars, cpuVars, IInv, TypeOK, OneCpuPerEnv, NeverFreedWhileRunning,
              RunningHasCpu, FreeListExact, ReceiverBlocked, IdleHasNoEnv, InEnv
<1>2. ASSUME NEW c \in Cpus, Machine(c) PROVE IInv'
  <2>1. CASE trap(c)
    BY <2>1, TrapStep
  <2>2. CASE trap_zombie(c)
    <3>1. InEnv(c)
      BY <2>2 DEF trap_zombie, zombie, locked, InEnv
    <3> QED BY <2>2, <3>1, FreeCur DEF trap_zombie
  <2>3. CASE trap_fatal(c)
    <3>1. cpu_env[c] \in Slots /\ env_status[cpu_env[c]] = "running" /\ live(c)
      BY <2>3, LiveCur DEF trap_fatal
    <3> QED BY <2>3, <3>1, DestroyStep DEF trap_fatal
  <2>4. CASE \/ trap_timer(c) \/ trap_resume(c) \/ trap_brkpt(c)
             \/ wake_timer(c) \/ wake_irq(c) \/ boot_yield(c)
    BY <2>4, QuietStep
  <2> QED BY <1>2, <2>1, <2>2, <2>3, <2>4 DEF Machine, Quiet
<1>3. ASSUME NEW c \in Cpus, Calls(c) PROVE IInv'
  BY <1>3, ExoforkStep, RecvStep, ChangePrStep, SendStep DEF Calls
<1>4. ASSUME NEW c \in Cpus, NEW id \in EnvIds, fork_start(c, id) \/ exit_or_kill(c, id)
      PROVE  IInv'
  BY <1>4, ForkStep, ExitStep
<1> QED BY <1>1, <1>2, <1>3, <1>4 DEF Next

\* IInv holds for ever.
THEOREM Invariance == Spec => []IInv
BY InitOK, NextOK, PTL DEF Spec

\* The variables of env.c, sched.c and trap.c keep their types.
THEOREM TypeCorrect == Spec => []TypeOK
<1>1. IInv => TypeOK
  BY DEF IInv
<1> QED BY <1>1, Invariance, PTL

\* No two CPUs ever run the same environment (sched_yield, env_run).
THEOREM MutualExclusion == Spec => []OneCpuPerEnv
<1>1. IInv => OneCpuPerEnv
  BY DEF IInv
<1> QED BY <1>1, Invariance, PTL

\* No environment is freed under a CPU that is still in it (env_destroy, the
\* zombies of trap).
THEOREM NoUseAfterFree == Spec => []NeverFreedWhileRunning
<1>1. IInv => NeverFreedWhileRunning
  BY DEF IInv
<1> QED BY <1>1, Invariance, PTL

\* No environment is lost: a running or dying one is on some CPU, and the
\* free list holds exactly the free slots (env_alloc, env_free).
THEOREM NothingLost == Spec => []SlotsAccounted
<1>1. IInv => SlotsAccounted
  BY DEF IInv, SlotsAccounted
<1> QED BY <1>1, Invariance, PTL

\* A waiting receiver stays blocked, also across the reuse of its slot
\* (sys_ipc_recv, sys_ipc_try_send, env_alloc).
THEOREM ReceiverStaysBlocked == Spec => []ReceiverBlocked
<1>1. IInv => ReceiverBlocked
  BY DEF IInv
<1> QED BY <1>1, Invariance, PTL

=============================================================================
