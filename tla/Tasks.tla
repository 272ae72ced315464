-------------------------------- MODULE Tasks --------------------------------
(***************************************************************************)
(* Processes, scheduler and semaphores as the services above the kernel    *)
(* see them.  The semaphores are those that module Kernel shows the kernel *)
(* provides: atomic, first come first served, the unit handed to the first *)
(* waiter.  The scheduler keeps what matters there: only the running       *)
(* process takes a step; a call loses the processor where it waits, or     *)
(* where it made somebody ready (which of the two runs on is left open,    *)
(* for priorities are left out); user code loses it at any moment.         *)
(***************************************************************************)
EXTENDS ProcQueue, FiniteSetsExt

CONSTANTS
    Pid,            \* processes
    NULLPROC,       \* the null process, which calls nothing
    Sem,            \* the semaphore table's indexes
    None            \* no semaphore (SYSERR)

ASSUME TaskAssumption == NULLPROC \notin Pid /\ None \notin Sem

VARIABLES
    currpid,        \* the process that has the processor
    prstate,        \* proctab[].prstate
    cont,           \* what each process still has to do inside a call
    sem             \* semtab

procVars == <<currpid, prstate>>
taskVars == <<currpid, prstate, cont, sem>>

User == [at |-> "user"]

InUser    == currpid # NULLPROC /\ cont[currpid] = User
At(label) == currpid # NULLPROC /\ cont[currpid].at = label
Goto(c)   == cont' = [cont EXCEPT ![currpid] = c]
Return    == Goto(User)

-----------------------------------------------------------------------------
(* One of the ready processes gets the processor, the null process if there *)
(* is none.                                                                 *)
Dispatch(st) ==
    \/ \E p \in Pid :
        /\ st[p] = "READY" /\ currpid' = p /\ prstate' = [st EXCEPT ![p] = "CURR"]
    \/ /\ \A p \in Pid : st[p] # "READY"
       /\ currpid' = NULLPROC /\ prstate' = st

Readied(procs) == [p \in Pid |-> IF p \in procs THEN "READY" ELSE prstate[p]]

(* resched, after the processes in woken became ready: the caller stays, or
   one of the ready processes, itself included, gets the processor. *)
Resched(woken) ==
    \/ prstate' = Readied(woken) /\ UNCHANGED currpid
    \/ woken # {} /\ Dispatch(Readied(woken \cup {currpid}))

(* The clock takes the processor from a process that runs with interrupts enabled. *)
Preempted ==
    /\ \E p \in Pid : prstate[p] = "READY"
    /\ Dispatch(Readied({currpid}))
    /\ UNCHANGED <<cont, sem>>

-----------------------------------------------------------------------------
(* The semaphore table, and the processes a call releases. *)
FreeSem == [used |-> FALSE, count |-> 0, queue |-> <<>>]
NewSem(n) == [used |-> TRUE, count |-> n, queue |-> <<>>]

(* semcreate: newsem may return any free entry. *)
Unused == {s \in Sem : ~sem[s].used}

Down(tab, s, p) ==
    [tab EXCEPT ![s].count = @ - 1,
                ![s].queue = IF tab[s].count > 0 THEN @ ELSE Append(@, p)]

Up(tab, s) ==
    IF s = None THEN tab
    ELSE [tab EXCEPT ![s].count = @ + 1,
                     ![s].queue = IF tab[s].count < 0 THEN Tail(@) ELSE @]

First(tab, s) == IF s # None /\ tab[s].count < 0 THEN {Head(tab[s].queue)} ELSE {}
Waiters(s) == IF s = None THEN {} ELSE ToSet(sem[s].queue)

(* semreset and semdelete release every waiter before anybody else runs. *)
Replace(s, new) == sem' = [t \in Sem |-> IF t = s THEN new ELSE sem[t]]

Available(s) == s # None /\ sem[s].count > 0

(* The caller waits on s and continues with c when it has the processor again. *)
WaitOn(s, c) ==
    /\ s # None /\ sem[s].count <= 0
    /\ sem' = Down(sem, s, currpid)
    /\ Goto(c)
    /\ Dispatch([prstate EXCEPT ![currpid] = "WAIT"])

(* kill: a waiting victim gives its place back, any other keeps what it has. *)
KillTask(p) ==
    /\ InUser /\ prstate[p] # "FREE"
    /\ cont' = [cont EXCEPT ![p] = User]
    /\ IF p = currpid
       THEN Dispatch([prstate EXCEPT ![p] = "FREE"])
       ELSE prstate' = [prstate EXCEPT ![p] = "FREE"] /\ UNCHANGED currpid
    /\ sem' = [s \in Sem |->
                IF p \in Waiters(s)
                THEN [sem[s] EXCEPT !.count = @ + 1, !.queue = GetItem(@, p)]
                ELSE sem[s]]

(* All processes have been created and resumed. *)
TaskInit ==
    /\ currpid \in Pid
    /\ prstate = [p \in Pid |-> IF p = currpid THEN "CURR" ELSE "READY"]
    /\ cont = [p \in Pid |-> User]
=============================================================================
