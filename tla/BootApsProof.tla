---------------------------- MODULE BootApsProof ----------------------------
(***************************************************************************)
(* For any number of processors, whichever of them boots, each gets its    *)
(* own stack and finds work.  A processor that is not the boot processor   *)
(* is untouched, the one that is being started, or up; only one at a time  *)
(* is being started, and mpentry_kstack is its stack.                      *)
(***************************************************************************)
EXTENDS BootAps, TLAPS

Aps == Cpus \ {Bsp}
Booting == pc[Bsp] \in {"startup1", "startup2", "wait"}

Fresh(p) == pc[p] = "off" /\ ~init[p] /\ startup[p] = 0 /\ cpu_status[p] = "unused"
Coming(p) ==
  /\ p = c /\ Booting /\ cpu_status[p] = "unused"
  /\ \/ pc[p] = "off" /\ init[p]
     \/ pc[p] \in {"halted", "entry"} /\ ~init[p]
Up(p) ==
  /\ pc[p] \in {"mp_main", "lock", "sched", "user", "hlt", "monitor"}
  /\ ~init[p] /\ esp[p] = p

\* The phases of the processors that are started, and their order.
Phase(p) ==
  /\ Fresh(p) \/ Coming(p) \/ Up(p)
  /\ Fresh(p) <=> p > c \/ (p = c /\ ~Booting)
ApInv == \A p \in Aps : Phase(p)

\* The boot processor: nobody starts it, and the stack it hands out.
BspInv ==
  /\ pc[Bsp] \in {"lock", "loop", "init", "startup1", "startup2", "wait", "create",
                  "sched", "user", "hlt", "monitor"}
  /\ ~init[Bsp] /\ startup[Bsp] = 0 /\ esp[Bsp] = Bsp
  /\ pc[Bsp] = "lock" => c = 0
  /\ pc[Bsp] = "init" \/ Booting => c \in Aps /\ mpentry_kstack = c
  /\ pc[Bsp] = "startup1" => startup[c] = 0
  /\ pc[Bsp] = "startup2" => startup[c] <= 1

\* The boot processor has the lock until it has created the environments.
LockInv ==
  /\ pc[Bsp] \in {"loop", "init", "startup1", "startup2", "wait", "create"}
       => kernel_lock = Bsp
  /\ \A p \in Cpus : pc[p] = "sched" => kernel_lock = p

WorkInv ==
  /\ pc[Bsp] \in {"sched", "user", "hlt", "monitor"} => runnable + running = NBOOT
  /\ pc[Bsp] \notin {"sched", "user", "hlt", "monitor"} => runnable = 0 /\ running = 0

BootInv == TypeOK /\ ApInv /\ BspInv /\ LockInv /\ WorkInv /\ NoMonitor

LEMMA InitBoot == Init => BootInv
BY BootAssumption
   DEF Init, BootInv, TypeOK, ApInv, Phase, BspInv, LockInv, WorkInv, NoMonitor, Aps, Booting,
       Fresh, Coming, Up, Cpus, Pc

\* An AP has the lock only after the boot processor has scheduled.
LEMMA BspFirst ==
  ASSUME BootInv, NEW p \in Aps, pc[p] # "off", kernel_lock # Bsp
  PROVE  pc[Bsp] \in {"sched", "user", "hlt", "monitor"}
<1>1. CASE pc[Bsp] = "lock"
  <2>1. c = 0 /\ ~Booting
    BY <1>1 DEF BootInv, BspInv, Booting
  <2>2. p > c \/ p = c
    BY <2>1, BootAssumption DEF Aps, Cpus
  <2> QED
    BY <2>1, <2>2 DEF BootInv, ApInv, Phase, Fresh
<1> QED
  BY <1>1 DEF BootInv, BspInv, LockInv

LEMMA LockStep == ASSUME BootInv, NEW p \in Cpus, lock(p) PROVE BootInv'
<1> USE BootAssumption DEF lock, lock_kernel, Goto, locals, BootInv
<1>1. p \in Aps => pc[Bsp] \in {"sched", "user", "hlt", "monitor"}
  BY BspFirst DEF TypeOK, Cpus
<1>2. TypeOK'
  BY DEF TypeOK, Pc, Cpus
<1>3. ApInv'
  BY DEF TypeOK, ApInv, Phase, Aps, Booting, Fresh, Coming, Up
<1>4. BspInv' /\ WorkInv' /\ NoMonitor'
  BY <1>1 DEF TypeOK, BspInv, Booting, Aps, WorkInv, NoMonitor
<1>5. LockInv'
  BY <1>1 DEF TypeOK, LockInv, BspInv, Aps, Cpus
<1> QED
  BY <1>2, <1>3, <1>4, <1>5

LEMMA BootApsStep == ASSUME BootInv, boot_aps PROVE BootInv'
<1> USE BootAssumption DEF boot_aps, Goto, BootInv
<1>1. /\ pc[Bsp] = "loop" /\ ~Booting
      /\ UNCHANGED <<init, startup, esp, cpu_status, kernel_lock, runnable, running>>
  BY DEF Booting
<1>2. CASE c >= ncpu /\ pc' = [pc EXCEPT ![Bsp] = "create"] /\ UNCHANGED <<c, mpentry_kstack>>
  BY <1>1, <1>2 DEF TypeOK, ApInv, Phase, BspInv, LockInv, WorkInv, NoMonitor, Aps, Booting, Fresh,
                    Coming, Up, Pc
<1>3. CASE c = Bsp /\ c' = c + 1 /\ UNCHANGED <<pc, mpentry_kstack>>
  <2>1. ApInv'
    BY <1>1, <1>3 DEF TypeOK, ApInv, Phase, Aps, Booting, Fresh, Coming, Up, Cpus
  <2>2. TypeOK'
    BY <1>1, <1>3 DEF TypeOK, Cpus
  <2> QED
    BY <1>1, <1>3, <2>1, <2>2 DEF BspInv, LockInv, WorkInv, NoMonitor, Booting
<1>4. CASE /\ c < ncpu /\ c # Bsp /\ pc' = [pc EXCEPT ![Bsp] = "init"]
           /\ mpentry_kstack' = c /\ UNCHANGED c
  <2>1. c \in Aps
    BY <1>4 DEF TypeOK, Aps, Cpus
  <2>2. TypeOK'
    BY <1>1, <1>4, <2>1 DEF TypeOK, Pc, Cpus
  <2>3. ApInv' /\ BspInv' /\ LockInv' /\ WorkInv' /\ NoMonitor'
    BY <1>1, <1>4, <2>1 DEF TypeOK, ApInv, Phase, BspInv, LockInv, WorkInv, NoMonitor, Aps,
                            Booting, Fresh, Coming, Up
  <2> QED
    BY <2>2, <2>3
<1> QED
  BY <1>1, <1>2, <1>3, <1>4

\* A processor that is not being started keeps its phase when nothing it
\* depends on changes.
LEMMA SamePhase ==
  ASSUME NEW p \in Aps, Phase(p), p # c, c' = c, pc'[p] = pc[p], init'[p] = init[p],
         startup'[p] = startup[p], cpu_status'[p] = cpu_status[p], esp'[p] = esp[p]
  PROVE  Phase(p)'
BY DEF Phase, Fresh, Coming, Up

LEMMA StartapStep == ASSUME BootInv, lapic_startap PROVE BootInv'
<1> USE BootAssumption DEF lapic_startap, Goto, BootInv
<1>1. c \in Aps /\ c \in Cpus /\ mpentry_kstack = c /\ Phase(c) /\ c \in Int
  BY DEF BspInv, Booting, Aps, ApInv, TypeOK
<1>2. UNCHANGED <<c, mpentry_kstack, esp, cpu_status, kernel_lock, runnable, running>>
  OBVIOUS
<1>3. ASSUME NEW p \in Aps, p # c PROVE Phase(p)'
  BY <1>1, <1>3, SamePhase DEF ApInv, TypeOK, Aps
<1>4. CASE pc[Bsp] = "init"
  <2>1. pc' = [pc EXCEPT ![Bsp] = "startup1"] /\ init' = [init EXCEPT ![c] = TRUE]
        /\ UNCHANGED startup
    BY <1>4
  <2>2. Fresh(c)
    BY <1>1, <1>4 DEF Phase, Booting
  <2>3. TypeOK'
    BY <1>1, <1>2, <2>1 DEF TypeOK, Pc
  <2>4. Coming(c)' /\ ~Fresh(c)' /\ Booting'
    <3>1. pc'[c] = "off" /\ init'[c] /\ pc'[Bsp] = "startup1" /\ cpu_status'[c] = "unused"
      BY <1>1, <1>2, <2>1, <2>2 DEF TypeOK, Fresh, Aps
    <3>2. Booting' /\ ~Fresh(c)'
      BY <1>2, <3>1 DEF Fresh, Booting
    <3>3. c' = c /\ cpu_status'[c'] = "unused" /\ pc'[c'] = "off" /\ init'[c']
      BY <1>2, <3>1
    <3> QED
      BY <3>2, <3>3 DEF Coming
  <2>5. Phase(c)'
    BY <1>1, <1>2, <2>4 DEF Phase
  <2>6. BspInv' /\ LockInv' /\ WorkInv' /\ NoMonitor'
    BY <1>1, <1>2, <1>4, <2>1, <2>2
       DEF TypeOK, BspInv, LockInv, WorkInv, NoMonitor, Aps, Booting, Fresh
  <2> QED
    BY <1>2, <1>3, <2>3, <2>5, <2>6 DEF ApInv
<1>5. CASE pc[Bsp] = "startup1" \/ pc[Bsp] = "startup2"
  <2>1. startup[c] <= 1 /\ startup[c] >= 0 /\ startup[c] \in Int
    BY <1>1, <1>5 DEF TypeOK, BspInv
  <2>2. /\ startup' = [startup EXCEPT ![c] = @ + 1] /\ UNCHANGED init
        /\ \/ pc[Bsp] = "startup1" /\ pc' = [pc EXCEPT ![Bsp] = "startup2"]
           \/ pc[Bsp] = "startup2" /\ pc' = [pc EXCEPT ![Bsp] = "wait"]
    BY <1>5
  <2>3. TypeOK'
    BY <1>1, <1>2, <2>1, <2>2 DEF TypeOK, Pc
  <2>4. Booting /\ Booting' /\ ~Fresh(c)
    BY <1>1, <1>5, <2>2 DEF TypeOK, Booting, Phase
  <2>5. startup'[c] # 0
    BY <1>1, <2>1, <2>2 DEF TypeOK
  <2>6. Phase(c)'
    <3>1. ~Fresh(c)'
      BY <1>2, <2>5 DEF Fresh
    <3>2. pc'[c] = pc[c] /\ init'[c] = init[c] /\ cpu_status'[c] = cpu_status[c]
          /\ esp'[c] = esp[c]
      BY <1>1, <1>2, <2>2 DEF Aps, TypeOK
    <3>3. (Coming(c) => Coming(c)') /\ (Up(c) => Up(c)')
      BY <1>2, <2>4, <3>2 DEF Coming, Up
    <3> QED
      BY <1>1, <1>2, <2>4, <3>1, <3>3 DEF Phase
  <2>7. BspInv' /\ LockInv' /\ WorkInv' /\ NoMonitor'
    BY <1>1, <1>2, <2>1, <2>2 DEF TypeOK, BspInv, LockInv, WorkInv, NoMonitor, Aps, Booting
  <2> QED
    BY <1>2, <1>3, <2>3, <2>6, <2>7 DEF ApInv
<1> QED
  BY <1>4, <1>5

LEMMA WaitStep == ASSUME BootInv, boot_aps_wait PROVE BootInv'
<1> USE BootAssumption DEF boot_aps_wait, Goto, BootInv
<1>1. /\ pc[Bsp] = "wait" /\ pc' = [pc EXCEPT ![Bsp] = "loop"] /\ c' = c + 1
      /\ cpu_status[c] = "started"
      /\ UNCHANGED <<mpentry_kstack, init, startup, esp, cpu_status, kernel_lock,
                     runnable, running>>
  OBVIOUS
<1>2. c \in Aps /\ c \in Cpus /\ Phase(c) /\ c \in Int /\ c < ncpu
  BY <1>1 DEF BspInv, Booting, Aps, ApInv, TypeOK, Cpus
<1>3. Up(c)
  BY <1>1, <1>2 DEF Phase, Fresh, Coming
<1>4. Booting /\ ~Booting'
  BY <1>1 DEF Booting, TypeOK
<1>5. TypeOK'
  BY <1>1, <1>2 DEF TypeOK, Pc, Cpus
<1>6. ASSUME NEW p \in Aps PROVE Phase(p)'
  <2>1. pc'[p] = pc[p] /\ p \in Int
    BY <1>1 DEF Aps, TypeOK, Cpus
  <2>2. Fresh(p)' = Fresh(p) /\ Up(p)' = Up(p)
    BY <1>1, <2>1 DEF Fresh, Up
  <2>3. Phase(p) /\ (Coming(p) => p = c)
    BY DEF ApInv, Coming
  <2>4. Fresh(p) <=> p > c
    BY <1>4, <2>3, <1>2, <2>1 DEF Phase
  <2>5. p > c <=> p > c' \/ (p = c' /\ ~Booting')
    BY <1>1, <1>2, <1>4, <2>1
  <2>6. Fresh(p) \/ Up(p)
    BY <1>3, <2>3 DEF Phase
  <2> QED
    BY <2>2, <2>4, <2>5, <2>6 DEF Phase
<1>7. BspInv' /\ LockInv' /\ WorkInv' /\ NoMonitor'
  BY <1>1 DEF TypeOK, BspInv, LockInv, WorkInv, NoMonitor, Booting
<1> QED
  BY <1>5, <1>6, <1>7 DEF ApInv

LEMMA CreateStep == ASSUME BootInv, create PROVE BootInv'
<1> USE BootAssumption DEF create, Goto, locals, BootInv
<1>1. ASSUME NEW p \in Aps PROVE Phase(p)'
  <2>1. pc'[p] = pc[p] /\ ~Booting /\ ~Booting'
    BY DEF Aps, TypeOK, Booting
  <2>2. Fresh(p)' = Fresh(p) /\ Up(p)' = Up(p) /\ ~Coming(p)
    BY <2>1 DEF Fresh, Up, Coming
  <2> QED
    BY <2>1, <2>2 DEF ApInv, Phase
<1>2. TypeOK' /\ BspInv' /\ LockInv' /\ WorkInv' /\ NoMonitor'
  BY DEF TypeOK, BspInv, LockInv, WorkInv, NoMonitor, Booting, Pc
<1> QED
  BY <1>1, <1>2 DEF ApInv

\* What an interrupt, mpentry.S, mp_main and the scheduler do to the phase
\* of the processor they run on; the others keep theirs.
LEMMA OthersKeepPhase ==
  ASSUME NEW p \in Cpus, NEW q \in Aps, q # p, Phase(q), c' = c, pc'[Bsp] = pc[Bsp],
         pc'[q] = pc[q], init'[q] = init[q], startup'[q] = startup[q],
         cpu_status'[q] = cpu_status[q], esp'[q] = esp[q]
  PROVE  Phase(q)'
BY DEF Phase, Fresh, Coming, Up, Booting

LEMMA DeliverStep == ASSUME BootInv, NEW p \in Cpus, deliver(p) PROVE BootInv'
<1> USE BootAssumption DEF deliver, BootInv
<1>1. UNCHANGED <<c, mpentry_kstack, esp, cpu_status, kernel_lock, runnable, running>>
  OBVIOUS
<1>2. p \in Aps /\ p # Bsp /\ Phase(p)
  BY DEF BspInv, Aps, ApInv, TypeOK
<1>3. CASE /\ init[p] /\ init' = [init EXCEPT ![p] = FALSE]
           /\ pc' = [pc EXCEPT ![p] = "halted"] /\ UNCHANGED startup
  <2>1. Coming(p) /\ ~Fresh(p) /\ pc[p] = "off"
    BY <1>2, <1>3 DEF Phase, Fresh, Coming, Up
  <2>2. pc'[p] = "halted" /\ ~init'[p] /\ pc'[Bsp] = pc[Bsp]
    BY <1>2, <1>3 DEF TypeOK
  <2>3. Coming(p)' /\ ~Fresh(p)' /\ Booting' = Booting
    BY <1>1, <2>1, <2>2 DEF Coming, Fresh, Booting
  <2>4. Phase(p)'
    BY <1>1, <1>2, <2>1, <2>3 DEF Phase
  <2>5. ASSUME NEW q \in Aps, q # p PROVE Phase(q)'
    BY <1>1, <1>3, <2>2, <2>5, OthersKeepPhase DEF ApInv, Aps, TypeOK
  <2>6. TypeOK' /\ BspInv' /\ LockInv' /\ WorkInv' /\ NoMonitor'
    BY <1>1, <1>2, <1>3, <2>1, <2>2
       DEF TypeOK, Pc, BspInv, LockInv, WorkInv, NoMonitor, Booting
  <2> QED
    BY <2>4, <2>5, <2>6 DEF ApInv
<1>4. CASE /\ ~init[p] /\ startup[p] > 0 /\ startup' = [startup EXCEPT ![p] = @ - 1]
           /\ pc' = [pc EXCEPT ![p] = IF @ = "halted" THEN "entry" ELSE @] /\ UNCHANGED init
  <2>1. /\ ~Fresh(p) /\ startup[p] \in 1 .. 2
    BY <1>4 DEF Fresh, TypeOK
  <2>2. /\ pc'[p] = IF pc[p] = "halted" THEN "entry" ELSE pc[p]
        /\ init'[p] = init[p] /\ pc'[Bsp] = pc[Bsp] /\ pc[p] # "off"
    BY <1>2, <1>4, <2>1 DEF TypeOK, Phase, Coming, Up
  <2>3. (Coming(p) => Coming(p)') /\ (Up(p) => Up(p)') /\ ~Fresh(p)' /\ Booting' = Booting
    BY <1>1, <2>2 DEF Coming, Fresh, Up, Booting
  <2>4. Phase(p)'
    BY <1>1, <1>2, <2>1, <2>3 DEF Phase
  <2>5. ASSUME NEW q \in Aps, q # p PROVE Phase(q)'
    BY <1>1, <1>4, <2>2, <2>5, OthersKeepPhase DEF ApInv, Aps, TypeOK
  <2>6. TypeOK'
    BY <1>1, <1>2, <1>4, <2>1 DEF TypeOK, Pc
  <2>7. BspInv'
    BY <1>1, <1>2, <1>4, <2>1, <2>2 DEF TypeOK, BspInv, Booting
  <2>8. LockInv' /\ WorkInv' /\ NoMonitor'
    BY <1>1, <1>4, <2>2 DEF TypeOK, LockInv, WorkInv, NoMonitor
  <2> QED
    BY <2>4, <2>5, <2>6, <2>7, <2>8 DEF ApInv
<1> QED
  BY <1>3, <1>4

LEMMA EntryStep == ASSUME BootInv, NEW p \in Cpus, mpentry(p) PROVE BootInv'
<1> USE BootAssumption DEF mpentry, Goto, BootInv
<1>1. /\ pc[p] = "entry" /\ pc' = [pc EXCEPT ![p] = "mp_main"]
      /\ esp' = [esp EXCEPT ![p] = mpentry_kstack]
      /\ UNCHANGED <<c, mpentry_kstack, init, startup, cpu_status, kernel_lock,
                     runnable, running>>
  OBVIOUS
<1>2. p \in Aps /\ p # Bsp /\ Phase(p)
  BY <1>1 DEF BspInv, Aps, ApInv
<1>3. Coming(p)
  BY <1>1, <1>2 DEF Phase, Fresh, Up
<1>4. mpentry_kstack = p /\ ~init[p] /\ Booting
  BY <1>1, <1>3 DEF Coming, BspInv
<1>5. Up(p)' /\ ~Fresh(p)' /\ ~Fresh(p) /\ Booting' = Booting /\ pc'[Bsp] = pc[Bsp]
  BY <1>1, <1>2, <1>4 DEF TypeOK, Up, Fresh, Booting
<1>6. Phase(p)'
  BY <1>1, <1>2, <1>5 DEF Phase
<1>7. ASSUME NEW q \in Aps, q # p PROVE Phase(q)'
  BY <1>1, <1>5, <1>7, OthersKeepPhase DEF ApInv, Aps, TypeOK
<1>8. TypeOK'
  BY <1>1 DEF TypeOK, Pc
<1>9. BspInv' /\ LockInv' /\ WorkInv' /\ NoMonitor'
  BY <1>1, <1>2, <1>5 DEF TypeOK, BspInv, Booting, LockInv, WorkInv, NoMonitor
<1> QED
  BY <1>6, <1>7, <1>8, <1>9 DEF ApInv

LEMMA MpMainStep == ASSUME BootInv, NEW p \in Cpus, mp_main(p) PROVE BootInv'
<1> USE BootAssumption DEF mp_main, Goto, locals, BootInv
<1>1. /\ pc[p] = "mp_main" /\ pc' = [pc EXCEPT ![p] = "lock"]
      /\ cpu_status' = [cpu_status EXCEPT ![p] = "started"]
      /\ UNCHANGED <<c, mpentry_kstack, init, startup, esp, kernel_lock, runnable, running>>
  OBVIOUS
<1>2. p \in Aps /\ p # Bsp /\ Phase(p)
  BY <1>1 DEF BspInv, Aps, ApInv
<1>3. Up(p) /\ ~Fresh(p)
  BY <1>1, <1>2 DEF Phase, Fresh, Coming
<1>4. Up(p)' /\ ~Fresh(p)' /\ Booting' = Booting /\ pc'[Bsp] = pc[Bsp]
  BY <1>1, <1>2, <1>3 DEF TypeOK, Up, Fresh, Booting
<1>5. Phase(p)'
  BY <1>1, <1>2, <1>3, <1>4 DEF Phase
<1>6. ASSUME NEW q \in Aps, q # p PROVE Phase(q)'
  BY <1>1, <1>4, <1>6, OthersKeepPhase DEF ApInv, Aps, TypeOK
<1>7. TypeOK'
  BY <1>1 DEF TypeOK, Pc
<1>8. BspInv' /\ LockInv' /\ WorkInv' /\ NoMonitor'
  BY <1>1, <1>2, <1>4 DEF TypeOK, BspInv, Booting, LockInv, WorkInv, NoMonitor
<1> QED
  BY <1>5, <1>6, <1>7, <1>8 DEF ApInv

LEMMA SchedStep == ASSUME BootInv, NEW p \in Cpus, sched_yield(p) PROVE BootInv'
<1> USE BootAssumption DEF BootInv
<1>1. /\ pc[p] = "sched" /\ UNCHANGED <<c, mpentry_kstack, init, startup, esp>>
      /\ kernel_lock = p
  BY DEF sched_yield, Goto, locals, LockInv
<1>2. pc[Bsp] \in {"sched", "user", "hlt", "monitor"}
  <2>1. CASE p = Bsp
    BY <1>1, <2>1
  <2>2. CASE p # Bsp
    BY <1>1, <2>2, BspFirst DEF Aps
  <2> QED
    BY <2>1, <2>2
<1>3. runnable + running = NBOOT /\ runnable \in Nat /\ running \in Nat
  BY <1>2 DEF WorkInv, TypeOK
<1>4. PICK to \in {"user", "hlt"} :
        /\ pc' = [pc EXCEPT ![p] = to]
        /\ kernel_lock' = -1
        /\ \/ UNCHANGED cpu_status \/ cpu_status' = [cpu_status EXCEPT ![p] = "halted"]
        /\ \/ runnable > 0 /\ runnable' = runnable - 1 /\ running' = running + 1
           \/ UNCHANGED <<runnable, running>>
  BY <1>3 DEF sched_yield, Goto
<1>5. TypeOK'
  BY <1>1, <1>3, <1>4 DEF TypeOK, Pc
<1>6. ASSUME NEW q \in Aps PROVE Phase(q)'
  <2>1. ~Booting /\ ~Booting' /\ c' = c
    BY <1>1, <1>2, <1>4 DEF Booting, TypeOK
  <2>2. CASE q = p
    <3>1. Phase(q) /\ pc[q] = "sched"
      BY <1>1, <2>2 DEF ApInv
    <3>2. Up(q) /\ ~Fresh(q)
      BY <3>1 DEF Phase, Fresh, Coming
    <3>3. pc'[q] = to
      BY <1>4, <2>2 DEF TypeOK
    <3>4. Up(q)' /\ ~Fresh(q)'
      BY <1>1, <3>2, <3>3 DEF Up, Fresh
    <3> QED
      BY <2>1, <3>1, <3>2, <3>4 DEF Phase
  <2>3. CASE q # p
    <3>1. Phase(q) /\ pc'[q] = pc[q] /\ cpu_status'[q] = cpu_status[q]
      BY <1>4, <2>3 DEF ApInv, TypeOK, Aps
    <3>2. Fresh(q)' = Fresh(q) /\ Up(q)' = Up(q) /\ ~Coming(q)
      BY <1>1, <2>1, <3>1 DEF Fresh, Up, Coming
    <3> QED
      BY <2>1, <3>1, <3>2 DEF Phase
  <2> QED
    BY <2>2, <2>3
<1>7. BspInv'
  BY <1>1, <1>2, <1>4 DEF TypeOK, BspInv, Booting
<1>8. LockInv'
  BY <1>1, <1>2, <1>4 DEF TypeOK, LockInv
<1>9. WorkInv' /\ NoMonitor'
  BY <1>2, <1>3, <1>4 DEF TypeOK, WorkInv, NoMonitor
<1> QED
  BY <1>5, <1>6, <1>7, <1>8, <1>9 DEF ApInv

LEMMA NextBoot == BootInv /\ [Next]_vars => BootInv'
<1> SUFFICES ASSUME BootInv, [Next]_vars PROVE BootInv'
  OBVIOUS
<1>1. CASE UNCHANGED vars
  BY <1>1 DEF vars, BootInv, TypeOK, ApInv, Phase, BspInv, LockInv, WorkInv, NoMonitor,
              Booting, Fresh, Coming, Up
<1>2. CASE Next
  BY <1>2, BootApsStep, StartapStep, WaitStep, CreateStep, DeliverStep, EntryStep,
     MpMainStep, LockStep, SchedStep
     DEF Next, boot, processor
<1> QED
  BY <1>1, <1>2

\* The invariant holds in every reachable state of boot_aps and mp_main.
LEMMA BootInvariant == Spec => []BootInv
BY InitBoot, NextBoot, PTL DEF Spec

\* Every processor that boot_aps starts runs on its own stack.
THEOREM StacksArePrivate == Spec => []OwnStack
<1>1. BootInv => OwnStack
  BY BootAssumption DEF BootInv, ApInv, Phase, Fresh, Coming, Up, BspInv, OwnStack, Aps
<1> QED
  BY <1>1, BootInvariant, PTL

\* No processor schedules before i386_init has created the environments.
THEOREM BootFindsWork == Spec => []NoMonitor
BY BootInvariant, PTL DEF BootInv
=============================================================================
