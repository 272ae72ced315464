------------------------------ MODULE MCKernel -------------------------------
(* Kernel for TLC: the processes other than the null process are alike. *)
EXTENDS Kernel

Symmetry == Permutations(Pid \ {NULLPROC})
=============================================================================
