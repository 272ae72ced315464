-------------------------------- MODULE Ports --------------------------------
(***************************************************************************)
(* Ports: bounded queues of messages, each with a semaphore that counts    *)
(* free places and one that counts messages, on a common pool of nodes,    *)
(* used by the processes and with the semaphores of module Tasks.          *)
(***************************************************************************)
EXTENDS Tasks

CONSTANTS
    NPORTS,         \* number of ports
    Msg,            \* messages
    Counts,         \* sizes that ptcreate is called with
    MaxMsgs,        \* ptinit's argument: messages in all ports
    MaxSeq,         \* bound: no port is created or cleared past this accession number
    Victims         \* processes that may be killed

ASSUME PortAssumption ==
    /\ IsFiniteSet(Pid) /\ Victims \subseteq Pid
    /\ None \notin Msg \cup Seq(Msg) \cup [call : {"send", "recv"}, port : Nat]
    /\ NPORTS \in Nat \ {0} /\ MaxMsgs \in Nat \ {0} /\ MaxSeq \in Nat /\ Counts \subseteq Nat

VARIABLES
    ptstate,        \* porttab[].ptstate
    ptssem,         \* porttab[].ptssem
    ptrsem,         \* porttab[].ptrsem
    ptqueue,        \* the messages from pthead to pttail
    ptseq,          \* porttab[].ptseq
    ptmaxcnt,       \* porttab[].ptmaxcnt
    ptnextid,       \* next table entry to try
    ptfree,         \* number of nodes on the free list
    panicked        \* panic has stopped the processor

portVars == <<ptstate, ptssem, ptrsem, ptqueue, ptseq, ptmaxcnt, ptnextid>>
vars == <<taskVars, portVars, ptfree, panicked>>

Port == 0..(NPORTS - 1)

Doing(at, i, msg) == [at |-> at, port |-> i, seq |-> ptseq[i], msg |-> msg]

(* The clock takes the processor from user code. *)
Preempt == InUser /\ Preempted /\ UNCHANGED <<portVars, ptfree, panicked>>

(* The caller of a port call waits on s. *)
PtWait(s, c) == WaitOn(s, c) /\ UNCHANGED <<portVars, ptfree, panicked>>

-----------------------------------------------------------------------------
(* The first free port from ptnextid on, round the table once. *)
Candidate(k) == (ptnextid + k) % NPORTS
FreeAfter(k) ==
    /\ ptstate[Candidate(k)] = "FREE"
    /\ \A j \in 0..(k - 1) : ptstate[Candidate(j)] # "FREE"

(* ptcreate *)
PtCreate(count) ==
    \E k \in Port, s, r \in Sem \cup {None} :
        LET i == Candidate(k)
        IN  /\ InUser /\ FreeAfter(k) /\ ptseq[i] < MaxSeq
            /\ IF Unused = {} THEN s = None ELSE s \in Unused
            /\ IF Unused \ {s} = {} THEN r = None ELSE r \in Unused \ {s}
            /\ sem' = [t \in Sem |-> CASE t = s -> NewSem(count) [] t = r -> NewSem(0)
                                       [] OTHER -> sem[t]]
            /\ ptstate' = [ptstate EXCEPT ![i] = "ALLOC"]
            /\ ptssem' = [ptssem EXCEPT ![i] = s]
            /\ ptrsem' = [ptrsem EXCEPT ![i] = r]
            /\ ptqueue' = [ptqueue EXCEPT ![i] = <<>>]
            /\ ptseq' = [ptseq EXCEPT ![i] = @ + 1]
            /\ ptmaxcnt' = [ptmaxcnt EXCEPT ![i] = count]
            /\ ptnextid' = (i + 1) % NPORTS
            /\ UNCHANGED <<procVars, cont, ptfree, panicked>>

(* "Verify port has not been reset", or that it is still allocated. *)
StillThere(pc) == ptstate[pc.port] = "ALLOC" /\ ptseq[pc.port] = pc.seq

(* The call returns SYSERR after all. *)
Refuse ==
    /\ ~StillThere(cont[currpid])
    /\ Return
    /\ UNCHANGED <<procVars, sem, portVars, ptfree, panicked>>

(* ptsend once there is space: tab is semtab after the wait. *)
Enqueue(i, msg, tab) ==
    \/ /\ ptfree = 0
       /\ panicked' = TRUE /\ sem' = tab
       /\ UNCHANGED <<procVars, cont, portVars, ptfree>>
    \/ /\ ptfree > 0
       /\ ptfree' = ptfree - 1
       /\ ptqueue' = [ptqueue EXCEPT ![i] = Append(@, msg)]
       /\ sem' = Up(tab, ptrsem[i])
       /\ Resched(First(tab, ptrsem[i]))
       /\ Return
       /\ UNCHANGED <<ptstate, ptssem, ptrsem, ptseq, ptmaxcnt, ptnextid, panicked>>

(* ptsend *)
PtSend(i, msg) ==
    /\ InUser /\ ptstate[i] = "ALLOC"
    /\ \/ Available(ptssem[i]) /\ Enqueue(i, msg, Down(sem, ptssem[i], currpid))
       \/ PtWait(ptssem[i], Doing("ptsend", i, msg))

(* A wrong ptsend: it only verifies that the port is allocated. *)
PtSendDoneUnverified ==
    LET pc == cont[currpid]
    IN  /\ At("ptsend")
        /\ \/ ptstate[pc.port] = "ALLOC" /\ Enqueue(pc.port, pc.msg, sem)
           \/ ptstate[pc.port] # "ALLOC" /\ Refuse

PtSendDone ==
    LET pc == cont[currpid]
    IN  /\ At("ptsend")
        /\ \/ StillThere(pc) /\ Enqueue(pc.port, pc.msg, sem)
           \/ Refuse

(* A wrong receive: the node does not go back to the free list. *)
DequeueLeaks(i, tab) ==
    /\ ptqueue' = [ptqueue EXCEPT ![i] = Tail(@)]
    /\ sem' = Up(tab, ptssem[i])
    /\ Resched(First(tab, ptssem[i]))
    /\ Return
    /\ UNCHANGED <<ptstate, ptssem, ptrsem, ptseq, ptmaxcnt, ptnextid, ptfree, panicked>>

(* ptrecv once there is a message: tab is semtab after the wait. *)
Dequeue(i, tab) ==
    /\ ptqueue' = [ptqueue EXCEPT ![i] = Tail(@)]
    /\ ptfree' = ptfree + 1
    /\ sem' = Up(tab, ptssem[i])
    /\ Resched(First(tab, ptssem[i]))
    /\ Return
    /\ UNCHANGED <<ptstate, ptssem, ptrsem, ptseq, ptmaxcnt, ptnextid, panicked>>

(* ptrecv *)
PtRecv(i) ==
    /\ InUser /\ ptstate[i] = "ALLOC"
    /\ \/ Available(ptrsem[i]) /\ Dequeue(i, Down(sem, ptrsem[i], currpid))
       \/ PtWait(ptrsem[i], Doing("ptrecv", i, None))

PtRecvDone ==
    LET pc == cont[currpid]
    IN  /\ At("ptrecv")
        /\ \/ StillThere(pc) /\ Dequeue(pc.port, sem)
           \/ Refuse

-----------------------------------------------------------------------------
(* A wrong _ptclear: the accession number stays the same. *)
ClearSameLife(i, label) ==
    /\ InUser /\ ptstate[i] = "ALLOC"
    /\ ptstate' = [ptstate EXCEPT ![i] = "LIMBO"]
    /\ ptfree' = ptfree + Len(ptqueue[i])
    /\ ptqueue' = [ptqueue EXCEPT ![i] = <<>>]
    /\ Resched(Waiters(ptssem[i]))
    /\ Goto(Doing(label, i, None))
    /\ UNCHANGED <<ptssem, ptrsem, ptseq, ptmaxcnt, ptnextid, panicked>>

(* Another: the message list replaces the free list. *)
ClearLosesFreeList(i, label) ==
    /\ InUser /\ ptstate[i] = "ALLOC" /\ ptseq[i] < MaxSeq
    /\ ptstate' = [ptstate EXCEPT ![i] = "LIMBO"]
    /\ ptseq' = [ptseq EXCEPT ![i] = @ + 1]
    /\ ptfree' = Len(ptqueue[i])
    /\ ptqueue' = [ptqueue EXCEPT ![i] = <<>>]
    /\ Resched(Waiters(ptssem[i]))
    /\ Goto(Doing(label, i, None))
    /\ UNCHANGED <<ptssem, ptrsem, ptmaxcnt, ptnextid, panicked>>

(* _ptclear, up to the end of its first semreset or semdelete.  The disposal
   function that the caller gives is assumed to make no call of the kernel, so
   that the messages go in one step with their nodes.  A deleted
   port's pthead is left pointing into the free list; nobody reads it before
   ptcreate sets it. *)
Clear(i, label) ==
    /\ InUser /\ ptstate[i] = "ALLOC" /\ ptseq[i] < MaxSeq
    /\ ptstate' = [ptstate EXCEPT ![i] = "LIMBO"]
    /\ ptseq' = [ptseq EXCEPT ![i] = @ + 1]
    /\ ptfree' = ptfree + Len(ptqueue[i])
    /\ ptqueue' = [ptqueue EXCEPT ![i] = <<>>]
    /\ Resched(Waiters(ptssem[i]))
    /\ Goto(Doing(label, i, None))
    /\ UNCHANGED <<ptssem, ptrsem, ptmaxcnt, ptnextid, panicked>>

PtReset(i)  == Clear(i, "ptreset") /\ Replace(ptssem[i], NewSem(ptmaxcnt[i]))
PtDelete(i) == Clear(i, "ptdelete") /\ Replace(ptssem[i], FreeSem)

(* The second semreset or semdelete. *)
ClearReceivers(label, next, new) ==
    LET i == cont[currpid].port
    IN  /\ At(label)
        /\ Resched(Waiters(ptrsem[i]))
        /\ Replace(ptrsem[i], new)
        /\ Goto([cont[currpid] EXCEPT !.at = next])
        /\ UNCHANGED <<portVars, ptfree, panicked>>

(* A wrong ptdelete: the senders' semaphore is deleted twice. *)
PtDeleteSendersTwice ==
    LET i == cont[currpid].port
    IN  /\ At("ptdelete")
        /\ Replace(ptssem[i], FreeSem)
        /\ Goto([cont[currpid] EXCEPT !.at = "ptdeleteend"])
        /\ UNCHANGED <<procVars, portVars, ptfree, panicked>>

PtResetReceivers  == ClearReceivers("ptreset", "ptresetend", NewSem(0))
PtDeleteReceivers == ClearReceivers("ptdelete", "ptdeleteend", FreeSem)

ClearEnd(label, newstate) ==
    /\ At(label)
    /\ ptstate' = [ptstate EXCEPT ![cont[currpid].port] = newstate]
    /\ Return
    /\ UNCHANGED <<procVars, sem, ptssem, ptrsem, ptqueue, ptseq, ptmaxcnt, ptfree, panicked>>

PtResetEnd  == ClearEnd("ptresetend", "ALLOC") /\ UNCHANGED ptnextid
PtDeleteEnd == ClearEnd("ptdeleteend", "FREE") /\ ptnextid' = cont[currpid].port

-----------------------------------------------------------------------------
(* kill *)
Kill(p) == KillTask(p) /\ UNCHANGED <<portVars, ptfree, panicked>>

(* panic "busy loop[s] forever"; the null process has nobody to make way for. *)
Stopped == (panicked \/ currpid = NULLPROC) /\ UNCHANGED vars

Init ==
    /\ TaskInit
    /\ sem = [s \in Sem |-> FreeSem]
    /\ ptstate = [i \in Port |-> "FREE"]
    /\ ptssem = [i \in Port |-> None]
    /\ ptrsem = [i \in Port |-> None]
    /\ ptqueue = [i \in Port |-> <<>>]
    /\ ptseq = [i \in Port |-> 0]
    /\ ptmaxcnt = [i \in Port |-> 0]
    /\ ptnextid = 0
    /\ ptfree = MaxMsgs
    /\ panicked = FALSE

PortCall ==
    \/ \E count \in Counts : PtCreate(count)
    \/ \E i \in Port :
        \/ PtRecv(i) \/ PtReset(i) \/ PtDelete(i)
        \/ \E msg \in Msg : PtSend(i, msg)

PortStep ==
    \/ PtSendDone \/ PtRecvDone
    \/ PtResetReceivers \/ PtDeleteReceivers \/ PtResetEnd \/ PtDeleteEnd

Next ==
    \/ /\ ~panicked
       /\ \/ PortCall \/ PortStep \/ Preempt
          \/ \E p \in Victims : Kill(p)
    \/ Stopped

Spec == Init /\ [][Next]_vars

-----------------------------------------------------------------------------
OpenPorts == {i \in Port : ptstate[i] = "ALLOC"}

(* Processes that waited in a call on port i, got their unit, and have not used it yet. *)
Granted(i, call) ==
    {p \in Pid : /\ cont[p].at = call /\ cont[p].port = i /\ cont[p].seq = ptseq[i]
                 /\ prstate[p] \in {"READY", "CURR"}}

Units(s) == IF s # None /\ sem[s].count > 0 THEN sem[s].count ELSE 0

(* The two semaphores never promise what the port has not got: free places,
   places promised and messages do not exceed the size, and units and granted
   receivers do not exceed the messages (ptrecv takes pthead unchecked). *)
UnitsAccounted ==
    \A i \in OpenPorts :
        /\ Units(ptssem[i]) + Cardinality(Granted(i, "ptsend")) + Len(ptqueue[i]) <= ptmaxcnt[i]
        /\ Units(ptrsem[i]) + Cardinality(Granted(i, "ptrecv")) <= Len(ptqueue[i])

(* Every node is on the free list or on one port's queue, however the ports
   were cleared under the processes that use them. *)
NodesConserved == ptfree + MapThenSumSet(LAMBDA i : Len(ptqueue[i]), Port) = MaxMsgs

(* The port system runs out of nodes, and panics, only when ports were created
   for more messages than ptinit was told of. *)
PanicJustified == panicked => MapThenSumSet(LAMBDA i : ptmaxcnt[i], OpenPorts) > MaxMsgs

(* ptdelete and ptreset free "waiting processes": whoever waits in a call
   waits on a semaphore of the port as it is now, or is a receiver that the
   clearing under way has yet to release. *)
WaitersBelong ==
    \A p \in Pid : prstate[p] = "WAIT" =>
        LET pc == cont[p]
        IN  /\ p \in Waiters(IF pc.at = "ptsend" THEN ptssem[pc.port] ELSE ptrsem[pc.port])
            /\ \/ StillThere(pc)
               \/ ptstate[pc.port] = "LIMBO" /\ pc.at = "ptrecv" /\ ptseq[pc.port] = pc.seq + 1

(* ptcount *)
SemCount(s) == IF s = None THEN -1 ELSE sem[s].count
PtCount(i) ==
    LET count  == SemCount(ptrsem[i])
        sndcnt == SemCount(ptssem[i])
    IN  IF count >= 0 /\ sndcnt < 0 THEN count - sndcnt ELSE count

(* ptcount: "a non-negative count K means the port contains K messages,
   including messages from senders that are blocked waiting to send"; asked
   when no process is about to take or add one. *)
CountIsMessages ==
    \A i \in OpenPorts :
        ~panicked /\ InUser /\ Granted(i, "ptsend") \cup Granted(i, "ptrecv") = {} /\ PtCount(i) >= 0
            => PtCount(i) = Len(ptqueue[i]) + Cardinality(Waiters(ptssem[i]))

Call(pc) ==
    IF pc.at \in {"ptsend", "ptrecv"} /\ StillThere(pc)
    THEN [call |-> IF pc.at = "ptsend" THEN "send" ELSE "recv", port |-> pc.port]
    ELSE None

(* Ports implement bounded channels whose clearing cancels every pending call. *)
Channels == INSTANCE PortSpec
    WITH channel <- [i \in Port |-> IF ptstate[i] = "ALLOC" THEN ptqueue[i] ELSE None],
         size <- ptmaxcnt,
         pending <- [p \in Pid |-> Call(cont[p])],
         Nothing <- None
ImplementsChannels == Channels!Spec
=============================================================================
