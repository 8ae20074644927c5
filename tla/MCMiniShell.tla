----------------------------- MODULE MCMiniShell -----------------------------
(* An instance of MiniShell for TLC.                                       *)
EXTENDS MiniShell
=============================================================================
