------------------------------- MODULE BigLock -------------------------------
(***************************************************************************)
(* What kern/spinlock.h promises the rest of the kernel: lock_kernel()     *)
(* returns on a CPU only when no other CPU is between lock_kernel() and    *)
(* unlock_kernel().  JosKernel builds on it: a handler is one action.      *)
(***************************************************************************)
CONSTANTS Cpus, NoCpu

VARIABLE holder

Init == holder = NoCpu

lock_kernel(c)   == holder = NoCpu /\ holder' = c
unlock_kernel(c) == holder = c /\ holder' = NoCpu

Next == \E c \in Cpus : lock_kernel(c) \/ unlock_kernel(c)

Spec == Init /\ [][Next]_holder
=============================================================================
