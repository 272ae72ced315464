------------------------------- MODULE MsgSpec -------------------------------
(***************************************************************************)
(* What message queues promise: every process has an inbox of bounded      *)
(* size.  Messages join it at the end and are handed over from its front,  *)
(* each once, in the order in which they came; none is lost on the way,    *)
(* and none is made up.                                                    *)
(***************************************************************************)
EXTENDS Naturals, SequencesExt

CONSTANTS
    Pid,            \* processes
    Msg,            \* messages
    Empty,          \* the result of a process that has received nothing yet
    Size            \* messages that an inbox holds

VARIABLES
    inbox,          \* messages on their way, first come first
    result          \* what the last receive of each process returned

msgSpecVars == <<inbox, result>>

Init ==
    /\ inbox = [p \in Pid |-> <<>>]
    /\ result = [p \in Pid |-> Empty]

(* Messages join an inbox, as many as there is room for. *)
Put(p) ==
    /\ Len(inbox'[p]) <= Size /\ ToSet(inbox'[p]) \subseteq Msg
    /\ IsPrefix(inbox[p], inbox'[p])
    /\ inbox' = [inbox EXCEPT ![p] = inbox'[p]]
    /\ UNCHANGED result

(* A process receives the n oldest messages. *)
Take(p, n) ==
    /\ n <= Len(inbox[p])
    /\ result' = [result EXCEPT ![p] = SubSeq(inbox[p], 1, n)]
    /\ inbox' = [inbox EXCEPT ![p] = SubSeq(inbox[p], n + 1, Len(inbox[p]))]

(* A new process starts with an empty inbox. *)
Renew(p) ==
    /\ inbox' = [inbox EXCEPT ![p] = <<>>]
    /\ result' = [result EXCEPT ![p] = Empty]

Next ==
    \E p \in Pid :
        \/ Put(p) \/ Renew(p)
        \/ \E n \in 1..Size : Take(p, n)

Spec == Init /\ [][Next]_msgSpecVars
=============================================================================
