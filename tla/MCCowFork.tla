------------------------------ MODULE MCCowFork ------------------------------
(* An instance of CowFork for TLC.                                         *)
EXTENDS CowFork, TLC

\* The slots that are free at first are interchangeable.
SlotSymmetry == Permutations(Envs \ {Boot})
=============================================================================
