------------------------------- MODULE MCProc -------------------------------
(* Instances of Proc for TLC. *)
EXTENDS Proc, TLC

CONSTANTS s1, s2, s3, s4, c1, c2

Symmetry == Permutations(Slot \ {initproc}) \cup Permutations(CPU)
=============================================================================
