------------------------------ MODULE MCBootAps ------------------------------
(* An instance of BootAps for TLC.                                         *)
EXTENDS BootAps
=============================================================================
