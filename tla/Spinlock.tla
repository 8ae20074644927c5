------------------------------ MODULE Spinlock ------------------------------
(***************************************************************************)
(* The spin lock of kern/spinlock.c with DEBUG_SPINLOCK, one step for each *)
(* access to the shared fields of the lock: spin_lock first checks, without *)
(* holding anything, that this CPU does not hold the lock already, and     *)
(* spin_unlock that it does; both panic otherwise.                         *)
(***************************************************************************)
EXTENDS Naturals

CONSTANTS
  Cpus,   \* processors that use the lock
  NoCpu   \* the null pointer of lk->cpu

ASSUME SpinlockAssumption == NoCpu \notin Cpus

VARIABLES
  locked,  \* lk->locked
  cpu,     \* lk->cpu
  pc       \* where each CPU is

vars == <<locked, cpu, pc>>

\* out: not in the lock's code and not between lock and unlock.  spin_lock
\* goes through lock, lock_cpu (the second read of holding), xchg and
\* acquired to cs, spin_unlock through unlock, unlock_cpu, clear and release.
Pc == {"out", "lock", "lock_cpu", "xchg", "acquired", "cs",
       "unlock", "unlock_cpu", "clear", "release", "panic"}

Goto(c, from, to) == pc[c] = from /\ pc' = [pc EXCEPT ![c] = to]

\* __spin_initlock
Init ==
  /\ locked = 0
  /\ cpu = NoCpu
  /\ pc = [c \in Cpus |-> "out"]

\* holding: lock->locked first, then lock->cpu; answered at yes or at no.
holding(c, first, second, yes, no) ==
  \/ locked = 0 /\ Goto(c, first, no)
  \/ locked # 0 /\ Goto(c, first, second)
  \/ cpu = c /\ Goto(c, second, yes)
  \/ cpu # c /\ Goto(c, second, no)

\* Mutant: the old value of the lock is not looked at.
spin_lock_untested(c) ==
  \/ UNCHANGED <<locked, cpu>> /\ Goto(c, "out", "lock")
  \/ UNCHANGED <<locked, cpu>> /\ holding(c, "lock", "lock_cpu", "panic", "xchg")
  \/ Goto(c, "xchg", "acquired") /\ locked' = 1 /\ UNCHANGED cpu
  \/ Goto(c, "acquired", "cs") /\ cpu' = c /\ UNCHANGED locked

spin_lock(c) ==
  \/ UNCHANGED <<locked, cpu>> /\ Goto(c, "out", "lock")
  \/ UNCHANGED <<locked, cpu>> /\ holding(c, "lock", "lock_cpu", "panic", "xchg")
  \/ locked # 0 /\ pc[c] = "xchg" /\ locked' = 1 /\ UNCHANGED <<cpu, pc>>
  \/ locked = 0 /\ Goto(c, "xchg", "acquired") /\ locked' = 1 /\ UNCHANGED cpu
  \/ Goto(c, "acquired", "cs") /\ cpu' = c /\ UNCHANGED locked

\* Mutant: the lock is given back before its owner is cleared.
spin_unlock_clear_last(c) ==
  \/ UNCHANGED <<locked, cpu>> /\ Goto(c, "cs", "unlock")
  \/ UNCHANGED <<locked, cpu>> /\ holding(c, "unlock", "unlock_cpu", "clear", "panic")
  \/ Goto(c, "clear", "release") /\ locked' = 0 /\ UNCHANGED cpu
  \/ Goto(c, "release", "out") /\ cpu' = NoCpu /\ UNCHANGED locked

\* Mutant: the lock is never given back.
spin_unlock_keep(c) ==
  \/ UNCHANGED <<locked, cpu>> /\ Goto(c, "cs", "unlock")
  \/ UNCHANGED <<locked, cpu>> /\ holding(c, "unlock", "unlock_cpu", "clear", "panic")
  \/ Goto(c, "clear", "release") /\ cpu' = NoCpu /\ UNCHANGED locked
  \/ Goto(c, "release", "out") /\ UNCHANGED <<locked, cpu>>

spin_unlock(c) ==
  \/ UNCHANGED <<locked, cpu>> /\ Goto(c, "cs", "unlock")
  \/ UNCHANGED <<locked, cpu>> /\ holding(c, "unlock", "unlock_cpu", "clear", "panic")
  \/ Goto(c, "clear", "release") /\ cpu' = NoCpu /\ UNCHANGED locked
  \/ Goto(c, "release", "out") /\ locked' = 0 /\ UNCHANGED cpu

Next == \E c \in Cpus : spin_lock(c) \/ spin_unlock(c)

Spec == Init /\ [][Next]_vars

\* Every CPU goes on: it calls lock again and its critical sections end.
FairSpec == Spec /\ \A c \in Cpus : WF_vars(spin_lock(c) \/ spin_unlock(c))

-----------------------------------------------------------------------------
\* Every variable has its type.
TypeOK ==
  /\ locked \in {0, 1}
  /\ cpu \in Cpus \cup {NoCpu}
  /\ pc \in [Cpus -> Pc]

\* CPU c owns the lock: from its successful xchg to the xchg of spin_unlock.
Owner(c) == pc[c] \in {"acquired", "cs", "unlock", "unlock_cpu", "clear", "release"}

\* Only one CPU at a time is past the xchg of spin_lock.
MutualExclusion == \A c, d \in Cpus : Owner(c) /\ Owner(d) => c = d

\* The checks of DEBUG_SPINLOCK, which read the lock while other CPUs change
\* it, never raise a false alarm ("already holding", "cannot release").
NoFalsePanic == \A c \in Cpus : pc[c] # "panic"

\* The lock does not get stuck: whenever CPUs wait for it, one obtains it.
Progress == (\E c \in Cpus : pc[c] = "xchg") ~> (\E c \in Cpus : pc[c] = "cs")

\* The lock is the abstract one, held by its owner.
holder == IF \E c \in Cpus : Owner(c) THEN CHOOSE c \in Cpus : Owner(c) ELSE NoCpu

Abstract == INSTANCE BigLock WITH holder <- holder

\* Spinlock implements the lock the rest of the kernel counts on.
ImplementsBigLock == Abstract!Spec
=============================================================================
