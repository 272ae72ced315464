----------------------------- MODULE Semaphores ------------------------------
(***************************************************************************)
(* Counting semaphores.  scount is the count when it is not negative and   *)
(* minus the number of waiting processes otherwise.  The three calls that  *)
(* release several processes do so in a loop with rescheduling deferred:   *)
(* one iteration is one step, and the step that leaves the loop ends the   *)
(* deferral, where the caller may lose the processor.                      *)
(***************************************************************************)
EXTENDS KernelState

(* A wrong wait: queues the caller at the front. *)
WaitAtFront(s) ==
    /\ Calling("wait") /\ sstate[s] = "USED"
    /\ scount' = [scount EXCEPT ![s] = @ - 1]
    /\ \/ scount[s] > 0 /\ UNCHANGED <<prsem, squeue, dispatchVars>>
       \/ /\ scount[s] <= 0
          /\ prsem' = [prsem EXCEPT ![currpid] = s]
          /\ squeue' = [squeue EXCEPT ![s] = <<currpid>> \o @]
          /\ Block("WAIT", qkey)
    /\ UNCHANGED <<ndefers, sstate, prprio, prparent, prcount, halted, prhasmsg, sleepq, kpc>>

(* wait *)
Wait(s) ==
    /\ Calling("wait") /\ sstate[s] = "USED"
    /\ scount' = [scount EXCEPT ![s] = @ - 1]
    /\ \/ scount[s] > 0 /\ UNCHANGED <<prsem, squeue, dispatchVars>>
       \/ /\ scount[s] <= 0
          /\ prsem' = [prsem EXCEPT ![currpid] = s]
          /\ squeue' = [squeue EXCEPT ![s] = Append(@, currpid)]
          /\ Block("WAIT", qkey)
    /\ UNCHANGED <<ndefers, sstate, prprio, prparent, prcount, halted, prhasmsg, sleepq, kpc>>

(* The body of signal and of signaln's loop: count up and release the first waiter. *)
V(s) ==
    /\ scount' = [scount EXCEPT ![s] = @ + 1]
    /\ \/ scount[s] >= 0 /\ UNCHANGED <<squeue, dispatchVars>>
       \/ /\ scount[s] < 0
          /\ squeue' = [squeue EXCEPT ![s] = Tail(@)]
          /\ Ready(Head(squeue[s]), qkey)

(* signal *)
Signal(s) ==
    /\ Calling("signal") /\ sstate[s] = "USED"
    /\ scount[s] < MaxCount
    /\ V(s)
    /\ UNCHANGED <<ndefers, sstate, procVars, prhasmsg, sleepq, kpc>>

(* signaln *)
SignalN(s, count) ==
    /\ Calling("signaln") /\ sstate[s] = "USED"
    /\ scount[s] + count <= MaxCount
    /\ DeferStart
    /\ Goto(Doing("signaln", s, count))
    /\ UNCHANGED <<currpid, prstate, readylist, qkey, preempt, semVars, procVars, prhasmsg, sleepq>>

SignalNLoop ==
    LET s == kpc[currpid].x
        n == kpc[currpid].n
    IN  /\ At("signaln") /\ n > 0
        /\ V(s)
        /\ Goto(Doing("signaln", s, n - 1))
        /\ UNCHANGED <<ndefers, sstate, procVars, prhasmsg, sleepq>>

(* A wrong signaln: an end without DEFER_STOP. *)
SignalNEndStaysDeferred ==
    /\ At("signaln") /\ kpc[currpid].n = 0
    /\ Return
    /\ UNCHANGED <<deferVars, semVars, procVars, prhasmsg, sleepq>>

SignalNEnd ==
    /\ At("signaln") /\ kpc[currpid].n = 0
    /\ DeferStop
    /\ Return
    /\ UNCHANGED <<semVars, procVars, prhasmsg, sleepq>>

(* semcreate.  newsem may return any free entry. *)
SemCreate(s, count) ==
    /\ Calling("semcreate") /\ sstate[s] = "FREE"
    /\ sstate' = [sstate EXCEPT ![s] = "USED"]
    /\ scount' = [scount EXCEPT ![s] = count]
    /\ UNCHANGED <<deferVars, squeue, procVars, prhasmsg, sleepq, kpc>>

(* semdelete *)
SemDelete(s) ==
    /\ Calling("semdelete") /\ sstate[s] = "USED"
    /\ sstate' = [sstate EXCEPT ![s] = "FREE"]
    /\ DeferStart
    /\ Goto(Doing("semdelete", s, 0))
    /\ UNCHANGED <<currpid, prstate, readylist, qkey, preempt, scount, squeue, procVars, prhasmsg, sleepq>>

SemDeleteLoop ==
    LET s == kpc[currpid].x
    IN  /\ At("semdelete") /\ scount[s] < 0
        /\ V(s)
        /\ UNCHANGED <<ndefers, sstate, procVars, prhasmsg, sleepq, kpc>>

(* The test that ends the loop counts up once more. *)
SemDeleteEnd ==
    LET s == kpc[currpid].x
    IN  /\ At("semdelete") /\ scount[s] >= 0
        /\ scount' = [scount EXCEPT ![s] = @ + 1]
        /\ DeferStop
        /\ Return
        /\ UNCHANGED <<sstate, squeue, procVars, prhasmsg, sleepq>>

(* semreset *)
SemReset(s, count) ==
    /\ Calling("semreset") /\ sstate[s] = "USED"
    /\ DeferStart
    /\ Goto(Doing("semreset", s, count))
    /\ UNCHANGED <<currpid, prstate, readylist, qkey, preempt, semVars, procVars, prhasmsg, sleepq>>

SemResetLoop ==
    LET s == kpc[currpid].x
    IN  /\ At("semreset") /\ squeue[s] # <<>>
        /\ squeue' = [squeue EXCEPT ![s] = Tail(@)]
        /\ Ready(Head(squeue[s]), qkey)
        /\ UNCHANGED <<ndefers, sstate, scount, procVars, prhasmsg, sleepq, kpc>>

SemResetEnd ==
    LET s == kpc[currpid].x
    IN  /\ At("semreset") /\ squeue[s] = <<>>
        /\ scount' = [scount EXCEPT ![s] = kpc[currpid].n]
        /\ DeferStop
        /\ Return
        /\ UNCHANGED <<sstate, squeue, procVars, prhasmsg, sleepq>>
=============================================================================
