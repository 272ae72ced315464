-------------------------------- MODULE Clock --------------------------------
(***************************************************************************)
(* The millisecond clock interrupt, the sleep queue it drives and the time *)
(* slice it ends.  The interrupt is taken whenever user code runs.  Its    *)
(* handler runs on the stack of the process it interrupts: when wakeup     *)
(* ends in a switch, the rest of the handler (the preemption counter) runs *)
(* only when that process gets the processor back.                         *)
(***************************************************************************)
EXTENDS KernelState

(* sleepms, for a delay that is not negative *)
SleepMs(delay) ==
    /\ Calling("sleepms")
    /\ \/ delay = 0 /\ Resched(prstate, readylist, qkey) /\ UNCHANGED sleepq
       \/ /\ delay > 0
          /\ sleepq' = InsertDelta(sleepq, currpid, delay, qkey)
          /\ Block("SLEEP", InsertDeltaKeys(sleepq, currpid, delay, qkey))
    /\ UNCHANGED <<ndefers, semVars, procVars, prhasmsg, kpc>>

(* One millisecond off the first sleeper's key, if there is one. *)
TickKeys == IF sleepq = <<>> THEN qkey ELSE [qkey EXCEPT ![Head(sleepq)] = @ - 1]

(* A wrong preemption counter: it is not renewed when it runs out. *)
EndSliceNotRenewed(key) ==
    \/ preempt > 1 /\ Stay(prstate, readylist, key, preempt - 1)
    \/ preempt = 1 /\ Switch(prstate, readylist, key, 0)

(* The end of the handler: one tick of the time slice, and resched at its end. *)
EndSlice(key) ==
    \/ preempt > 1 /\ Stay(prstate, readylist, key, preempt - 1)
    \/ preempt = 1 /\ Switch(prstate, readylist, key, QUANTUM)

(* The first sleeper's time is up with this tick. *)
Due == sleepq # <<>> /\ TickKeys[Head(sleepq)] = 0

(* clkhandler, up to the call of wakeup or to its end when no sleeper is due. *)
ClkHandler ==
    /\ InUser
    /\ \/ /\ Due
          /\ qkey' = TickKeys
          /\ DeferStart
          /\ Goto(Doing("wakeup", None, 0))
          /\ UNCHANGED <<currpid, prstate, readylist, preempt>>
       \/ /\ ~Due
          /\ EndSlice(TickKeys)
          /\ UNCHANGED <<attempt, ndefers, kpc>>
    /\ UNCHANGED <<semVars, procVars, prhasmsg, sleepq>>

(* A wrong end of wakeup's loop: only when the queue is empty. *)
ExpiredAll == sleepq # <<>>

(* The first sleeper has no more time to sleep. *)
Expired == sleepq # <<>> /\ qkey[Head(sleepq)] <= 0

(* A wrong wakeup: takes the sleeper off the queue, and that is all. *)
WakeupForgets ==
    /\ At("wakeup") /\ Expired
    /\ sleepq' = Tail(sleepq)
    /\ UNCHANGED <<deferVars, semVars, procVars, prhasmsg, kpc>>

(* wakeup: one sleeper with no more time to sleep per step. *)
Wakeup ==
    /\ At("wakeup") /\ Expired
    /\ sleepq' = Tail(sleepq)
    /\ Ready(Head(sleepq), qkey)
    /\ UNCHANGED <<ndefers, semVars, procVars, prhasmsg, kpc>>

WakeupEnd ==
    /\ At("wakeup") /\ ~Expired
    /\ DeferStop
    /\ Goto(Doing("clk", None, 0))
    /\ UNCHANGED <<semVars, procVars, prhasmsg, sleepq>>

(* The rest of clkhandler after wakeup, when the process runs again. *)
ClkHandlerEnd ==
    /\ At("clk")
    /\ EndSlice(qkey)
    /\ Return
    /\ UNCHANGED <<attempt, ndefers, semVars, procVars, prhasmsg, sleepq>>
=============================================================================
