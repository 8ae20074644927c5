---------------------------- MODULE SpinlockProof ----------------------------
(***************************************************************************)
(* Proofs about Spinlock for any set of processors: mutual exclusion, no   *)
(* false panic, and that it implements BigLock.                            *)
(***************************************************************************)
EXTENDS Spinlock, TLAPS

\* lk->locked is set exactly while a CPU owns the lock.
LockedIffOwned == locked = 1 <=> \E c \in Cpus : Owner(c)

\* lk->cpu names a CPU exactly from spin_lock's assignment to spin_unlock's.
CpuIsOwner == \A c \in Cpus : cpu = c <=> pc[c] \in {"cs", "unlock", "unlock_cpu", "clear"}

\* The inductive invariant: what the two checks of holding rely on.
LockInv ==
  /\ TypeOK
  /\ MutualExclusion
  /\ NoFalsePanic
  /\ LockedIffOwned
  /\ CpuIsOwner

\* __spin_initlock establishes the invariant.
LEMMA LockInit == Init => LockInv
BY SpinlockAssumption DEF Init, LockInv, TypeOK, Pc, MutualExclusion, NoFalsePanic,
   LockedIffOwned, CpuIsOwner, Owner

\* A CPU that moves without touching the lock keeps what it is to the lock.
LEMMA LockMove ==
  ASSUME LockInv, NEW c \in Cpus, NEW from \in Pc, NEW to \in Pc, Goto(c, from, to),
         UNCHANGED <<locked, cpu>>,
         to # "panic",
         (from \in {"cs", "unlock", "unlock_cpu", "clear"} /\ to \in {"cs", "unlock", "unlock_cpu", "clear"})
           \/ (from \in {"out", "lock", "lock_cpu"} /\ to \in {"lock", "lock_cpu", "xchg"})
  PROVE  LockInv'
<1>1. pc \in [Cpus -> Pc] /\ pc[c] = from /\ pc'[c] = to /\ pc' \in [Cpus -> Pc]
      /\ \A d \in Cpus : d # c => pc'[d] = pc[d]
  BY DEF LockInv, TypeOK, Goto
<1>2. \A d \in Cpus : Owner(d)' <=> Owner(d)
  BY <1>1 DEF Owner
<1>3. \A d \in Cpus : pc'[d] \in {"cs", "unlock", "unlock_cpu", "clear"}
                        <=> pc[d] \in {"cs", "unlock", "unlock_cpu", "clear"}
  BY <1>1
<1>4. TypeOK' /\ NoFalsePanic'
  BY <1>1 DEF LockInv, TypeOK, NoFalsePanic
<1>5. MutualExclusion' /\ LockedIffOwned'
  BY <1>2 DEF LockInv, MutualExclusion, LockedIffOwned
<1>6. CpuIsOwner'
  BY <1>3 DEF LockInv, CpuIsOwner
<1> QED BY <1>4, <1>5, <1>6 DEF LockInv

\* Every step keeps the invariant.
LEMMA LockNext == LockInv /\ [Next]_vars => LockInv'
<1> SUFFICES ASSUME LockInv, [Next]_vars PROVE LockInv'
  OBVIOUS
<1>1. CASE UNCHANGED vars
  BY <1>1 DEF vars, LockInv, TypeOK, MutualExclusion, NoFalsePanic, LockedIffOwned,
              CpuIsOwner, Owner
<1>2. ASSUME NEW c \in Cpus, spin_lock(c) PROVE LockInv'
  <2>0. pc \in [Cpus -> Pc] /\ c # NoCpu
    BY SpinlockAssumption DEF LockInv, TypeOK
  <2>1. CASE UNCHANGED <<locked, cpu>> /\ Goto(c, "out", "lock")
    BY <2>1, LockMove DEF Pc
  <2>2. CASE UNCHANGED <<locked, cpu>> /\ holding(c, "lock", "lock_cpu", "panic", "xchg")
    <3>1. CASE Goto(c, "lock", "xchg") \/ Goto(c, "lock", "lock_cpu")
               \/ Goto(c, "lock_cpu", "xchg")
      BY <3>1, <2>2, LockMove DEF Pc
    <3>2. ~ (cpu = c /\ Goto(c, "lock_cpu", "panic"))
      BY DEF LockInv, CpuIsOwner, Goto
    <3> QED BY <2>2, <3>1, <3>2 DEF holding
  <2>3. CASE locked # 0 /\ pc[c] = "xchg" /\ locked' = 1 /\ UNCHANGED <<cpu, pc>>
    <3>1. locked' = locked
      BY <2>3 DEF LockInv, TypeOK
    <3> QED BY <2>3, <3>1 DEF LockInv, TypeOK, MutualExclusion, NoFalsePanic,
                              LockedIffOwned, CpuIsOwner, Owner
  <2>4. CASE locked = 0 /\ Goto(c, "xchg", "acquired") /\ locked' = 1 /\ UNCHANGED cpu
    <3>1. pc[c] = "xchg" /\ pc'[c] = "acquired" /\ pc' \in [Cpus -> Pc]
          /\ \A d \in Cpus : d # c => pc'[d] = pc[d]
      BY <2>0, <2>4 DEF Goto, Pc
    <3>2. \A d \in Cpus : ~ Owner(d)
      BY <2>4 DEF LockInv, LockedIffOwned
    <3>3. \A d \in Cpus : Owner(d)' <=> d = c
      BY <3>1, <3>2 DEF Owner
    <3>4. TypeOK' /\ NoFalsePanic'
      BY <2>4, <3>1 DEF LockInv, TypeOK, NoFalsePanic
    <3>5. MutualExclusion' /\ LockedIffOwned'
      BY <2>4, <3>3 DEF MutualExclusion, LockedIffOwned
    <3>6. CpuIsOwner'
      BY <2>4, <3>1 DEF LockInv, CpuIsOwner
    <3> QED BY <3>4, <3>5, <3>6 DEF LockInv
  <2>5. CASE Goto(c, "acquired", "cs") /\ cpu' = c /\ UNCHANGED locked
    <3>1. pc[c] = "acquired" /\ pc'[c] = "cs" /\ pc' \in [Cpus -> Pc]
          /\ \A d \in Cpus : d # c => pc'[d] = pc[d]
      BY <2>0, <2>5 DEF Goto, Pc
    <3>2. \A d \in Cpus : Owner(d)' <=> Owner(d)
      BY <3>1 DEF Owner
    <3>3. \A d \in Cpus : d # c => ~ Owner(d)
      BY <3>1 DEF LockInv, MutualExclusion, Owner
    <3>4. TypeOK' /\ NoFalsePanic'
      BY <2>5, <3>1 DEF LockInv, TypeOK, NoFalsePanic
    <3>5. MutualExclusion' /\ LockedIffOwned'
      BY <2>5, <3>2 DEF LockInv, MutualExclusion, LockedIffOwned
    <3>6. CpuIsOwner'
      BY <2>5, <3>1, <3>3 DEF CpuIsOwner, Owner
    <3> QED BY <3>4, <3>5, <3>6 DEF LockInv
  <2> QED BY <1>2, <2>1, <2>2, <2>3, <2>4, <2>5 DEF spin_lock
<1>3. ASSUME NEW c \in Cpus, spin_unlock(c) PROVE LockInv'
  <2>0. pc \in [Cpus -> Pc] /\ c # NoCpu
    BY SpinlockAssumption DEF LockInv, TypeOK
  <2>1. CASE UNCHANGED <<locked, cpu>> /\ Goto(c, "cs", "unlock")
    BY <2>1, LockMove DEF Pc
  <2>2. CASE UNCHANGED <<locked, cpu>> /\ holding(c, "unlock", "unlock_cpu", "clear", "panic")
    <3>1. CASE Goto(c, "unlock", "unlock_cpu") \/ Goto(c, "unlock_cpu", "clear")
      BY <3>1, <2>2, LockMove DEF Pc
    <3>2. ~ (locked = 0 /\ Goto(c, "unlock", "panic"))
      BY DEF LockInv, LockedIffOwned, Goto, Owner
    <3>3. ~ (cpu # c /\ Goto(c, "unlock_cpu", "panic"))
      BY DEF LockInv, CpuIsOwner, Goto
    <3> QED BY <2>2, <3>1, <3>2, <3>3 DEF holding
  <2>3. CASE Goto(c, "clear", "release") /\ cpu' = NoCpu /\ UNCHANGED locked
    <3>1. pc[c] = "clear" /\ pc'[c] = "release" /\ pc' \in [Cpus -> Pc]
          /\ \A d \in Cpus : d # c => pc'[d] = pc[d]
      BY <2>0, <2>3 DEF Goto, Pc
    <3>2. \A d \in Cpus : Owner(d)' <=> Owner(d)
      BY <3>1 DEF Owner
    <3>3. \A d \in Cpus : d # c => ~ Owner(d)
      BY <3>1 DEF LockInv, MutualExclusion, Owner
    <3>4. TypeOK' /\ NoFalsePanic'
      BY <2>3, <3>1 DEF LockInv, TypeOK, NoFalsePanic
    <3>5. MutualExclusion' /\ LockedIffOwned'
      BY <2>3, <3>2 DEF LockInv, MutualExclusion, LockedIffOwned
    <3>6. CpuIsOwner'
      BY <2>3, <3>1, <3>3, SpinlockAssumption DEF CpuIsOwner, Owner
    <3> QED BY <3>4, <3>5, <3>6 DEF LockInv
  <2>4. CASE Goto(c, "release", "out") /\ locked' = 0 /\ UNCHANGED cpu
    <3>1. pc[c] = "release" /\ pc'[c] = "out" /\ pc' \in [Cpus -> Pc]
          /\ \A d \in Cpus : d # c => pc'[d] = pc[d]
      BY <2>0, <2>4 DEF Goto, Pc
    <3>2. \A d \in Cpus : ~ Owner(d)'
      BY <3>1 DEF LockInv, MutualExclusion, Owner
    <3>4. TypeOK' /\ NoFalsePanic'
      BY <2>4, <3>1 DEF LockInv, TypeOK, NoFalsePanic
    <3>5. MutualExclusion' /\ LockedIffOwned'
      BY <2>4, <3>2 DEF MutualExclusion, LockedIffOwned
    <3>6. CpuIsOwner'
      BY <2>4, <3>1 DEF LockInv, CpuIsOwner
    <3> QED BY <3>4, <3>5, <3>6 DEF LockInv
  <2> QED BY <1>3, <2>1, <2>2, <2>3, <2>4 DEF spin_unlock
<1> QED BY <1>1, <1>2, <1>3 DEF Next

\* The invariant holds for ever.
THEOREM LockInvariance == Spec => []LockInv
BY LockInit, LockNext, PTL DEF Spec

\* One CPU at a time is between the xchg of spin_lock and that of spin_unlock.
THEOREM LockExclusion == Spec => []MutualExclusion
<1>1. LockInv => MutualExclusion
  BY DEF LockInv
<1> QED BY <1>1, LockInvariance, PTL

\* The unlocked reads of holding never make spin_lock or spin_unlock panic.
THEOREM LockNoPanic == Spec => []NoFalsePanic
<1>1. LockInv => NoFalsePanic
  BY DEF LockInv
<1> QED BY <1>1, LockInvariance, PTL

-----------------------------------------------------------------------------
\* With mutual exclusion the owner is unique, so holder is that CPU.
LEMMA HolderIs ==
  ASSUME LockInv
  PROVE  /\ \A c \in Cpus : Owner(c) => holder = c
         /\ (\A c \in Cpus : ~ Owner(c)) => holder = NoCpu
<1>1. ASSUME NEW c \in Cpus, Owner(c) PROVE holder = c
  <2>1. \A d \in Cpus : Owner(d) => d = c
    BY <1>1 DEF LockInv, MutualExclusion
  <2> QED BY <1>1, <2>1 DEF holder
<1> QED BY <1>1 DEF holder

\* The same in the next state.
LEMMA HolderIsNext ==
  ASSUME LockInv'
  PROVE  /\ \A c \in Cpus : Owner(c)' => holder' = c
         /\ (\A c \in Cpus : ~ Owner(c)') => holder' = NoCpu
<1>1. ASSUME NEW c \in Cpus, Owner(c)' PROVE holder' = c
  <2>1. \A d \in Cpus : Owner(d)' => d = c
    BY <1>1 DEF LockInv, MutualExclusion
  <2> QED BY <1>1, <2>1 DEF holder
<1> QED BY <1>1 DEF holder

\* A step that changes no owner is a stutter of the abstract lock.
LEMMA HolderSame ==
  ASSUME LockInv, LockInv', \A d \in Cpus : Owner(d)' <=> Owner(d)
  PROVE  holder' = holder
<1>1. CASE \E c \in Cpus : Owner(c)
  BY <1>1, HolderIs, HolderIsNext
<1>2. CASE \A c \in Cpus : ~ Owner(c)
  BY <1>2, HolderIs, HolderIsNext
<1> QED BY <1>1, <1>2

\* Spinlock implements BigLock: the successful xchg of spin_lock is
\* lock_kernel, the xchg of spin_unlock is unlock_kernel, all else stutters.
THEOREM LockRefinement == Spec => ImplementsBigLock
<1>1. Init => Abstract!Init
  BY LockInit, HolderIs DEF Init, Abstract!Init, Owner
<1>2. LockInv /\ LockInv' /\ [Next]_vars => [Abstract!Next]_holder
  <2> SUFFICES ASSUME LockInv, LockInv', [Next]_vars PROVE [Abstract!Next]_holder
    OBVIOUS
  <2>1. CASE UNCHANGED vars
    <3>1. \A d \in Cpus : Owner(d)' <=> Owner(d)
      BY <2>1 DEF vars, Owner
    <3> QED BY <3>1, HolderSame
  <2>2. ASSUME NEW c \in Cpus, spin_lock(c) \/ spin_unlock(c) PROVE [Abstract!Next]_holder
    <3>0. pc \in [Cpus -> Pc]
      BY DEF LockInv, TypeOK
    <3>1. CASE locked = 0 /\ Goto(c, "xchg", "acquired")
      <4>1. \A d \in Cpus : ~ Owner(d)
        BY <3>1 DEF LockInv, LockedIffOwned
      <4>2. Owner(c)'
        BY <3>0, <3>1 DEF Goto, Owner
      <4>3. holder = NoCpu /\ holder' = c
        BY <4>1, <4>2, HolderIs, HolderIsNext
      <4> QED BY <4>3 DEF Abstract!Next, Abstract!lock_kernel
    <3>2. CASE Goto(c, "release", "out")
      <4>1. Owner(c)
        BY <3>2 DEF Goto, Owner
      <4>2. \A d \in Cpus : ~ Owner(d)'
        BY <3>0, <3>2, <4>1 DEF Goto, Owner, LockInv, MutualExclusion
      <4>3. holder = c /\ holder' = NoCpu
        BY <4>1, <4>2, HolderIs, HolderIsNext
      <4> QED BY <4>3 DEF Abstract!Next, Abstract!unlock_kernel
    <3>3. CASE ~ (locked = 0 /\ Goto(c, "xchg", "acquired")) /\ ~ Goto(c, "release", "out")
      <4>1. \A d \in Cpus : d # c => pc'[d] = pc[d]
        BY <2>2, <3>0 DEF spin_lock, spin_unlock, holding, Goto
      <4>2. pc'[c] # "panic" /\ pc[c] # "panic"
        BY DEF LockInv, NoFalsePanic
      <4>3. Owner(c)' <=> Owner(c)
        BY <2>2, <3>0, <3>3, <4>2 DEF spin_lock, spin_unlock, holding, Goto, Owner
      <4>4. \A d \in Cpus : Owner(d)' <=> Owner(d)
        BY <4>1, <4>3 DEF Owner
      <4> QED BY <4>4, HolderSame
    <3> QED BY <3>1, <3>2, <3>3
  <2> QED BY <2>1, <2>2 DEF Next
<1> QED BY <1>1, <1>2, LockInvariance, PTL DEF Spec, ImplementsBigLock, Abstract!Spec

=============================================================================
