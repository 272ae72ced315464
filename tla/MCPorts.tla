------------------------------ MODULE MCPorts --------------------------------
(* Ports for TLC: processes, messages and semaphores are alike. *)
EXTENDS Ports

Symmetry == Permutations(Pid) \cup Permutations(Msg) \cup Permutations(Sem)
=============================================================================
