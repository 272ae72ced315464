------------------------------ MODULE Messages -------------------------------
(***************************************************************************)
(* One-slot message passing.  What a message says is left out: prhasmsg    *)
(* tells whether the slot is full, and a send to a full slot fails.        *)
(***************************************************************************)
EXTENDS KernelState

(* "If recipient waiting or in timed-wait make it ready." *)
Wake(p) ==
    \/ prstate[p] = "RECV" /\ Ready(p, qkey) /\ UNCHANGED sleepq
    \/ /\ prstate[p] = "RECTIM"
       /\ sleepq' = GetItem(sleepq, p)
       /\ Ready(p, UnsleepKeys(sleepq, p, qkey))
    \/ prstate[p] \notin {"RECV", "RECTIM"} /\ UNCHANGED <<sleepq, dispatchVars>>

(* send: fill the slot; a process blocked in a receive becomes ready. *)
Deliver(p) ==
    \/ (IsBad(p) \/ prhasmsg[p]) /\ UNCHANGED <<prhasmsg, sleepq, dispatchVars>>
    \/ /\ ~IsBad(p) /\ ~prhasmsg[p]
       /\ prhasmsg' = [prhasmsg EXCEPT ![p] = TRUE]
       /\ Wake(p)

Send(p) ==
    /\ Calling("send")
    /\ Deliver(p)
    /\ UNCHANGED <<ndefers, semVars, procVars, kpc>>

(* receive: take the message that is there, or block. *)
Receive ==
    /\ Calling("receive")
    /\ \/ /\ prhasmsg[currpid]
          /\ prhasmsg' = [prhasmsg EXCEPT ![currpid] = FALSE]
          /\ UNCHANGED <<dispatchVars, kpc>>
       \/ /\ ~prhasmsg[currpid]
          /\ Block("RECV", qkey)
          /\ Goto(Doing("receive", None, 0))
          /\ UNCHANGED prhasmsg
    /\ UNCHANGED <<ndefers, semVars, procVars, sleepq>>

(* Back from resched, receive takes the message without looking again. *)
ReceiveDone ==
    /\ At("receive")
    /\ prhasmsg' = [prhasmsg EXCEPT ![currpid] = FALSE]
    /\ Return
    /\ UNCHANGED <<deferVars, semVars, procVars, sleepq>>

(* recvclr: never blocks; with no message it changes nothing. *)
RecvClr ==
    /\ Calling("recvclr")
    /\ prhasmsg' = [prhasmsg EXCEPT ![currpid] = FALSE]
    /\ UNCHANGED <<deferVars, semVars, procVars, sleepq, kpc>>

(* recvtime: block on the sleep queue until a message or the timeout. *)
RecvTime(maxwait) ==
    /\ Calling("recvtime")
    /\ \/ /\ prhasmsg[currpid]
          /\ prhasmsg' = [prhasmsg EXCEPT ![currpid] = FALSE]
          /\ UNCHANGED <<dispatchVars, sleepq, kpc>>
       \/ /\ ~prhasmsg[currpid]
          /\ sleepq' = InsertDelta(sleepq, currpid, maxwait, qkey)
          /\ Block("RECTIM", InsertDeltaKeys(sleepq, currpid, maxwait, qkey))
          /\ Goto(Doing("recvtime", None, 0))
          /\ UNCHANGED prhasmsg
    /\ UNCHANGED <<ndefers, semVars, procVars>>

(* Back from resched: the message if one came, also one after the timeout, or TIMEOUT. *)
RecvTimeDone ==
    /\ At("recvtime")
    /\ prhasmsg' = [prhasmsg EXCEPT ![currpid] = FALSE]
    /\ Return
    /\ UNCHANGED <<deferVars, semVars, procVars, sleepq>>
=============================================================================
