------------------------------ MODULE Processes ------------------------------
(***************************************************************************)
(* Creating, ending, suspending and resuming processes, and the calls that *)
(* change how the scheduler sees them.                                     *)
(***************************************************************************)
EXTENDS Messages

(* create, when there is memory.  newpid may return any free entry. *)
Create(p, priority) ==
    /\ Calling("create") /\ prstate[p] = "FREE"
    /\ prcount' = prcount + 1
    /\ prstate' = [prstate EXCEPT ![p] = "SUSP"]
    /\ prprio' = [prprio EXCEPT ![p] = priority]
    /\ prsem' = [prsem EXCEPT ![p] = None]
    /\ prparent' = [prparent EXCEPT ![p] = currpid]
    /\ prhasmsg' = [prhasmsg EXCEPT ![p] = FALSE]
    /\ kpc' = [kpc EXCEPT ![p] = User]
    /\ UNCHANGED <<currpid, readylist, qkey, preempt, attempt, ndefers, semVars, halted, sleepq>>

(* Processes whose kill of another (or of themselves) has yet to finish. *)
Killers == {p \in Pid : kpc[p].at = "kill"}

(* A wrong kill: does not ask whether the process exists. *)
KillUnchecked(p) ==
    /\ Calling("kill") /\ p # NULLPROC
    /\ SerialKills => Killers = {}
    /\ prcount' = prcount - 1
    /\ \/ /\ prcount' <= 1 /\ halted' = TRUE
          /\ UNCHANGED <<dispatchVars, sleepq, prhasmsg, kpc>>
       \/ /\ prcount' > 1 /\ UNCHANGED halted
          /\ Deliver(prparent[p])
          /\ Goto(Doing("kill", p, 0))
    /\ UNCHANGED <<ndefers, semVars, prprio, prsem, prparent>>

(* kill (and exit and userret, which kill the caller), up to the return of
   its send: xdone stops the processor when only the null process is left;
   otherwise the parent is told, and may run before the kill goes on. *)
Kill(p) ==
    /\ Calling("kill") /\ p # NULLPROC /\ prstate[p] # "FREE"
    /\ SerialKills => Killers = {}
    /\ prcount' = prcount - 1
    /\ \/ /\ prcount' <= 1 /\ halted' = TRUE
          /\ UNCHANGED <<dispatchVars, sleepq, prhasmsg, kpc>>
       \/ /\ prcount' > 1 /\ UNCHANGED halted
          /\ Deliver(prparent[p])
          /\ Goto(Doing("kill", p, 0))
    /\ UNCHANGED <<ndefers, semVars, prprio, prsem, prparent>>

(* A freed process's stack is gone, and its continuation with it. *)
Discard(p) == kpc' = [kpc EXCEPT ![p] = User, ![currpid] = User]

Free(p) == [prstate EXCEPT ![p] = "FREE"]

(* kill's cases: suicide *)
KillCurrent(p) ==
    /\ prstate[p] = "CURR"
    /\ Switch(Free(p), readylist, qkey, preempt)
    /\ UNCHANGED <<scount, squeue, sleepq>>

KillSleeper(p) ==
    /\ prstate[p] \in {"SLEEP", "RECTIM"}
    /\ sleepq' = GetItem(sleepq, p)
    /\ Stay(Free(p), readylist, UnsleepKeys(sleepq, p, qkey), preempt)
    /\ UNCHANGED <<scount, squeue>>

(* Wrong kills of a waiter: one forgets its unit of the count, one its queue. *)
KillWaiterKeepsCount(p) ==
    /\ prstate[p] = "WAIT"
    /\ squeue' = [squeue EXCEPT ![prsem[p]] = GetItem(@, p)]
    /\ Stay(Free(p), readylist, qkey, preempt)
    /\ UNCHANGED <<scount, sleepq>>

KillWaiterStaysQueued(p) ==
    /\ prstate[p] = "WAIT"
    /\ scount' = [scount EXCEPT ![prsem[p]] = @ + 1]
    /\ Stay(Free(p), readylist, qkey, preempt)
    /\ UNCHANGED <<squeue, sleepq>>

KillWaiter(p) ==
    /\ prstate[p] = "WAIT"
    /\ scount' = [scount EXCEPT ![prsem[p]] = @ + 1]
    /\ squeue' = [squeue EXCEPT ![prsem[p]] = GetItem(@, p)]
    /\ Stay(Free(p), readylist, qkey, preempt)
    /\ UNCHANGED sleepq

KillReady(p) ==
    /\ prstate[p] = "READY"
    /\ Stay(Free(p), GetItem(readylist, p), qkey, preempt)
    /\ UNCHANGED <<scount, squeue, sleepq>>

KillOther(p) ==
    /\ prstate[p] \in {"SUSP", "RECV", "FREE"}
    /\ Stay(Free(p), readylist, qkey, preempt)
    /\ UNCHANGED <<scount, squeue, sleepq>>

(* The rest of kill, by the state that the victim is in by now. *)
KillDone ==
    LET p == kpc[currpid].x
    IN  /\ At("kill")
        /\ \/ KillCurrent(p)
           \/ KillSleeper(p)
           \/ KillWaiter(p)
           \/ KillReady(p)
           \/ KillOther(p)
        /\ Discard(p)
        /\ UNCHANGED <<attempt, ndefers, sstate, procVars, prhasmsg>>

-----------------------------------------------------------------------------
(* A wrong suspend: spares nobody, not even the null process. *)
SuspendAnyone(p) ==
    /\ Calling("suspend")
    /\ \/ /\ prstate[p] = "READY"
          /\ Stay([prstate EXCEPT ![p] = "SUSP"], GetItem(readylist, p), qkey, preempt)
          /\ UNCHANGED attempt
       \/ prstate[p] = "CURR" /\ Block("SUSP", qkey)
    /\ UNCHANGED <<ndefers, semVars, procVars, prhasmsg, sleepq, kpc>>

(* suspend *)
Suspend(p) ==
    /\ Calling("suspend") /\ p # NULLPROC
    /\ \/ /\ prstate[p] = "READY"
          /\ Stay([prstate EXCEPT ![p] = "SUSP"], GetItem(readylist, p), qkey, preempt)
          /\ UNCHANGED attempt
       \/ prstate[p] = "CURR" /\ Block("SUSP", qkey)
    /\ UNCHANGED <<ndefers, semVars, procVars, prhasmsg, sleepq, kpc>>

(* A wrong resume: also wakes a process that waits for a message. *)
ResumeReceiver(p) ==
    /\ Calling("resume") /\ prstate[p] \in {"SUSP", "RECV"}
    /\ Ready(p, qkey)
    /\ UNCHANGED <<ndefers, semVars, procVars, prhasmsg, sleepq, kpc>>

(* resume *)
Resume(p) ==
    /\ Calling("resume") /\ prstate[p] = "SUSP"
    /\ Ready(p, qkey)
    /\ UNCHANGED <<ndefers, semVars, procVars, prhasmsg, sleepq, kpc>>

(* chprio: the process stays where it is in the ready list. *)
ChPrio(p, newprio) ==
    /\ Calling("chprio") /\ ~IsBad(p)
    /\ prprio' = [prprio EXCEPT ![p] = newprio]
    /\ UNCHANGED <<deferVars, semVars, prsem, prparent, prcount, halted, prhasmsg, sleepq, kpc>>

(* yield *)
Yield ==
    /\ Calling("yield")
    /\ Resched(prstate, readylist, qkey)
    /\ UNCHANGED <<ndefers, semVars, procVars, prhasmsg, sleepq, kpc>>
=============================================================================
