----------------------------- MODULE MCMsgQueue ------------------------------
(* MsgQueue for TLC: processes are alike, and so are messages. *)
EXTENDS MsgQueue

Symmetry == Permutations(Pid \ {NULLPROC}) \cup Permutations(Msg)

(* Arrays of two messages, for a ring with room for both, one or none of them. *)
MCBatches == {b \in Msg \X Msg : b[1] # b[2]}
=============================================================================
