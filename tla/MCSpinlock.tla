----------------------------- MODULE MCSpinlock -----------------------------
(* An instance of Spinlock for TLC.                                        *)
EXTENDS Spinlock
=============================================================================
