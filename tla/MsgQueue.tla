------------------------------ MODULE MsgQueue -------------------------------
(***************************************************************************)
(* Message queues, the extension of the kernel that the test program main  *)
(* uses: each process has, beside send's one slot, a ring of MAX_MSGS      *)
(* messages.  The senders fill the ring and make a blocked recipient ready;*)
(* a receiver that finds too little blocks once, in the very state in      *)
(* which receive blocks, and takes its messages when it is switched back   *)
(* in without looking at the ring again.                                   *)
(***************************************************************************)
EXTENDS Kernel

CONSTANTS
    Msg,            \* messages
    MAX_MSGS,       \* messages that a ring holds
    MAX_RECVERS,    \* recipients of one sendnMsg
    Batches,        \* arrays of messages that sendMsgs is called with
    Takes           \* numbers of messages that receiveMsgs is called with

ASSUME RingAssumption ==
    /\ MAX_MSGS \in Nat \ {0} /\ MAX_RECVERS \in Nat
    /\ Batches \subseteq Seq(Msg) /\ Takes \subseteq Nat \ {0} /\ None \notin Msg

VARIABLES
    nmsg,           \* proctab[].nmsg
    left,           \* sendnMsg under way: its message and the recipients left
    result          \* what the last receive of each process returned

msgVars == <<nmsg, left, result>>
allVars == <<vars, msgVars>>

NoMsgs == [count |-> 0, qin |-> 0, qout |-> 0, msgq |-> [i \in 0..(MAX_MSGS - 1) |-> None]]
NobodyLeft == [msg |-> None, to |-> <<>>]

-----------------------------------------------------------------------------
(* A wrong store: the index does not wrap before the last cell. *)
StoreShortRing(ring, msg) ==
    [ring EXCEPT !.msgq[ring.qin] = msg, !.count = @ + 1,
                 !.qin = IF @ + 2 >= MAX_MSGS THEN 0 ELSE @ + 1]

(* Another: the index moves on before the message is stored. *)
StoreAfterAdvance(ring, msg) ==
    [ring EXCEPT !.msgq[(ring.qin + 1) % MAX_MSGS] = msg, !.count = @ + 1,
                 !.qin = (@ + 1) % MAX_MSGS]

(* "Queue message." *)
Store(ring, msg) ==
    [ring EXCEPT !.msgq[ring.qin] = msg, !.count = @ + 1, !.qin = (@ + 1) % MAX_MSGS]

StoreIfRoom(ring, msg) == IF ring.count # MAX_MSGS THEN Store(ring, msg) ELSE ring

(* The loop of sendMsgs: until the array ends or the ring is full. *)
StoreAll(ring, msgs) ==
    FoldLeft(LAMBDA r, m : IF r.count < MAX_MSGS THEN Store(r, m) ELSE r, ring, msgs)

(* "Retrieve message", n times: what is taken, and the ring it leaves. *)
Oldest(ring, n) == [i \in 1..n |-> ring.msgq[(ring.qout + i - 1) % MAX_MSGS]]
Drop(ring, n)  == [ring EXCEPT !.count = @ - n, !.qout = (@ + n) % MAX_MSGS]

-----------------------------------------------------------------------------
(* sendMsg, to a ring that is not full *)
SendMsg(p, msg) ==
    /\ Calling("sendmsg") /\ ~IsBad(p)
    /\ nmsg[p].count # MAX_MSGS
    /\ nmsg' = [nmsg EXCEPT ![p] = Store(@, msg)]
    /\ Wake(p)
    /\ UNCHANGED <<ndefers, semVars, procVars, prhasmsg, kpc, left, result>>

(* sendMsgs *)
SendMsgs(p, msgs) ==
    /\ Calling("sendmsgs") /\ ~IsBad(p) /\ msgs # <<>>
    /\ nmsg' = [nmsg EXCEPT ![p] = StoreAll(@, msgs)]
    /\ Wake(p)
    /\ UNCHANGED <<ndefers, semVars, procVars, prhasmsg, kpc, left, result>>

(* sendnMsg, up to its loop *)
SendnMsg(to, msg) ==
    /\ Calling("sendnmsg") /\ Len(to) \in 1..MAX_RECVERS
    /\ \A p \in ToSet(to) : ~IsBad(p)
    /\ DeferStart
    /\ Goto(Doing("sendnmsg", None, 0))
    /\ left' = [left EXCEPT ![currpid] = [msg |-> msg, to |-> to]]
    /\ UNCHANGED <<currpid, prstate, readylist, qkey, preempt, semVars, procVars, prhasmsg,
                   sleepq, nmsg, result>>

(* A wrong loop: a recipient that waits is not made ready. *)
SendnMsgLoopSilent ==
    LET p == Head(left[currpid].to)
    IN  /\ At("sendnmsg") /\ left[currpid].to # <<>>
        /\ nmsg' = [nmsg EXCEPT ![p] = StoreIfRoom(@, left[currpid].msg)]
        /\ left' = [left EXCEPT ![currpid].to = Tail(@)]
        /\ UNCHANGED <<deferVars, semVars, procVars, prhasmsg, sleepq, kpc, result>>

SendnMsgLoop ==
    LET p == Head(left[currpid].to)
    IN  /\ At("sendnmsg") /\ left[currpid].to # <<>>
        /\ nmsg' = [nmsg EXCEPT ![p] = StoreIfRoom(@, left[currpid].msg)]
        /\ Wake(p)
        /\ left' = [left EXCEPT ![currpid].to = Tail(@)]
        /\ UNCHANGED <<ndefers, semVars, procVars, prhasmsg, kpc, result>>

SendnMsgEnd ==
    /\ At("sendnmsg") /\ left[currpid].to = <<>>
    /\ DeferStop
    /\ Return
    /\ left' = [left EXCEPT ![currpid] = NobodyLeft]
    /\ UNCHANGED <<semVars, procVars, prhasmsg, sleepq, nmsg, result>>

(* The caller takes n messages from its ring, whether they are there or not. *)
TakeMsgs(n) ==
    /\ result' = [result EXCEPT ![currpid] = Oldest(nmsg[currpid], n)]
    /\ nmsg' = [nmsg EXCEPT ![currpid] = Drop(@, n)]

(* receiveMsg *)
ReceiveMsg ==
    /\ Calling("receivemsg")
    /\ \/ nmsg[currpid].count # 0 /\ TakeMsgs(1) /\ UNCHANGED <<dispatchVars, kpc>>
       \/ /\ nmsg[currpid].count = 0
          /\ Block("RECV", qkey)
          /\ Goto(Doing("receivemsg", None, 1))
          /\ UNCHANGED <<nmsg, result>>
    /\ UNCHANGED <<ndefers, semVars, procVars, prhasmsg, sleepq, left>>

(* receiveMsgs *)
ReceiveMsgs(n) ==
    /\ Calling("receivemsgs")
    /\ \/ nmsg[currpid].count >= n /\ TakeMsgs(n) /\ UNCHANGED <<dispatchVars, kpc>>
       \/ /\ nmsg[currpid].count < n
          /\ Block("RECV", qkey)
          /\ Goto(Doing("receivemsgs", None, n))
          /\ UNCHANGED <<nmsg, result>>
    /\ UNCHANGED <<ndefers, semVars, procVars, prhasmsg, sleepq, left>>

(* Back from resched, both receives take what they were called for. *)
ReceiveMsgDone ==
    /\ At("receivemsg") \/ At("receivemsgs")
    /\ TakeMsgs(kpc[currpid].n)
    /\ Return
    /\ UNCHANGED <<deferVars, semVars, procVars, prhasmsg, sleepq, left>>

-----------------------------------------------------------------------------
(* create clears the new process's ring; no other call of the kernel touches one. *)
Created(p) == prstate[p] = "FREE" /\ prstate'[p] = "SUSP"

KernelNext ==
    /\ Next
    /\ nmsg' = [p \in Pid |-> IF Created(p) THEN NoMsgs ELSE nmsg[p]]
    /\ result' = [p \in Pid |-> IF Created(p) THEN <<>> ELSE result[p]]
    /\ UNCHANGED left

MsgNext ==
    \/ KernelNext
    \/ \E p \in Pid :
        \/ \E msg \in Msg : SendMsg(p, msg)
        \/ \E msgs \in Batches : SendMsgs(p, msgs)
    \/ \E p, q \in Pid, msg \in Msg : SendnMsg(<<p, q>>, msg)
    \/ SendnMsgLoop \/ SendnMsgEnd
    \/ ReceiveMsg \/ ReceiveMsgDone
    \/ \E n \in Takes : ReceiveMsgs(n)

MsgInit ==
    /\ Init
    /\ nmsg = [p \in Pid |-> NoMsgs]
    /\ left = [p \in Pid |-> NobodyLeft]
    /\ result = [p \in Pid |-> <<>>]

MsgQueueSpec == MsgInit /\ [][MsgNext]_allVars

-----------------------------------------------------------------------------
(* The two indexes of a ring and its count agree, whatever wrapped around. *)
RingConsistent ==
    \A p \in Pid :
        /\ nmsg[p].count \in 0..MAX_MSGS
        /\ nmsg[p].qin = (nmsg[p].qout + nmsg[p].count) % MAX_MSGS

Receiving(p) == kpc[p].at \in {"receivemsg", "receivemsgs"}

(* "Block until message arrives": a process that is back from blocking in a
   receive finds the messages it was called for, however it was woken. *)
FoundEnough ==
    \A p \in Pid :
        Receiving(p) /\ prstate[p] \in {"CURR", "READY", "SUSP"} => nmsg[p].count >= kpc[p].n

(* No process is blocked in a receive when its ring holds what it was called
   for: whichever call brought the message also woke it. *)
NoMessageWaits ==
    \A p \in Pid : Receiving(p) /\ prstate[p] = "RECV" => nmsg[p].count < kpc[p].n

Inbox(p) == Oldest(nmsg[p], IF nmsg[p].count > 0 THEN nmsg[p].count ELSE 0)

Box == [p \in Pid |-> Inbox(p)]

(* The rings implement first-in first-out inboxes. *)
Inboxes == INSTANCE MsgSpec WITH inbox <- Box, Empty <- <<>>, Size <- MAX_MSGS
ImplementsInboxes == Inboxes!Spec
=============================================================================
