------------------------------- MODULE SemSpec -------------------------------
(***************************************************************************)
(* What counting semaphores promise, whatever the kernel does inside.  A   *)
(* semaphore has a value that is never negative and a line of waiters; a   *)
(* unit of the value goes to whoever asks first, a process joins the line  *)
(* only when there is none, and a signal with someone in line grants the   *)
(* unit to the first in line and to nobody else.  A deleted semaphore lets *)
(* its waiters go, and is not reused before the last of them is out.       *)
(***************************************************************************)
EXTENDS Integers, SequencesExt

CONSTANTS
    Sem,            \* semaphores
    Pid             \* processes that wait on them

VARIABLES
    value,          \* units left; Closed when the semaphore does not exist
    waiters         \* who waits, first come first

semSpecVars == <<value, waiters>>

Closed == -1

Init ==
    /\ value = [s \in Sem |-> Closed]
    /\ waiters = [s \in Sem |-> <<>>]

Open(s, n) ==
    /\ value[s] = Closed /\ waiters[s] = <<>>
    /\ value' = [value EXCEPT ![s] = n]
    /\ UNCHANGED waiters

(* A unit is left, and the caller takes it. *)
Take(s) ==
    /\ value[s] > 0
    /\ value' = [value EXCEPT ![s] = @ - 1]
    /\ UNCHANGED waiters

(* None is left, and the caller goes to the end of the line. *)
Join(s, p) ==
    /\ value[s] = 0 /\ p \notin ToSet(waiters[s])
    /\ waiters' = [waiters EXCEPT ![s] = Append(@, p)]
    /\ UNCHANGED value

(* A unit nobody waits for. *)
Put(s) ==
    /\ value[s] >= 0 /\ waiters[s] = <<>>
    /\ value' = [value EXCEPT ![s] = @ + 1]
    /\ UNCHANGED waiters

(* A unit for the first in line, or the end of its wait for a lost semaphore. *)
Grant(s) ==
    /\ value[s] <= 0 /\ waiters[s] # <<>>
    /\ waiters' = [waiters EXCEPT ![s] = Tail(@)]
    /\ UNCHANGED value

(* A waiter is killed. *)
Leave(s, p) ==
    /\ \E i \in DOMAIN waiters[s] :
        waiters[s][i] = p /\ waiters' = [waiters EXCEPT ![s] = RemoveAt(@, i)]
    /\ UNCHANGED value

Reset(s, n) ==
    /\ value[s] >= 0 /\ waiters[s] = <<>>
    /\ value' = [value EXCEPT ![s] = n]
    /\ UNCHANGED waiters

Close(s) ==
    /\ value[s] >= 0
    /\ value' = [value EXCEPT ![s] = Closed]
    /\ UNCHANGED waiters

Next ==
    \E s \in Sem :
        \/ Take(s) \/ Put(s) \/ Grant(s) \/ Close(s)
        \/ \E p \in Pid : Join(s, p) \/ Leave(s, p)
        \/ value'[s] \in Nat /\ (Open(s, value'[s]) \/ Reset(s, value'[s]))

Spec == Init /\ [][Next]_semSpecVars
=============================================================================
