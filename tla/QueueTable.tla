----------------------------- MODULE QueueTable ------------------------------
(***************************************************************************)
(* queuetab, the one table through which every queue of processes is       *)
(* threaded: a node for each process, and a head and a tail node for each  *)
(* queue, doubly linked by index.  A process node that leaves a queue by   *)
(* getitem keeps its old links.                                            *)
(*                                                                         *)
(* The callers are those of the kernel, which call with interrupts         *)
(* disabled: processes wait on semaphore queues, are ready, or sleep, and  *)
(* join a queue only when they are on none.                                *)
(***************************************************************************)
EXTENDS Integers, FiniteSetsExt, SequencesExt

CONSTANTS
    NPROC,          \* process nodes: 0 to NPROC - 1
    NSEM,           \* semaphores, each with a queue
    NQENT,          \* nodes in the table, which has room for the queues of start-up
    EMPTY,          \* no node
    MINKEY,         \* key of a tail node
    MAXKEY,         \* key of a head node
    Prio,           \* prprio of each process
    Delays          \* delays to sleep

ASSUME QueueAssumption ==
    /\ {NPROC, NSEM} \subseteq Nat \ {0} /\ NQENT \in Nat /\ NQENT >= NPROC + 2 * (NSEM + 2)
    /\ EMPTY \in Int \ Nat
    /\ {MINKEY, MAXKEY} \subseteq Int /\ Delays \subseteq Nat \ {0}
    /\ \A p \in 0..(NPROC - 1) : Prio[p] \in Nat /\ MINKEY < Prio[p] /\ Prio[p] < MAXKEY

VARIABLES
    queuetab,       \* the table
    nextqid,        \* newqueue: next node to use
    place           \* the queue that a process' state says it is on, or EMPTY

queueVars == <<queuetab, nextqid, place>>

Proc == 0..(NPROC - 1)
QueueTail(q) == q + 1
FirstId(tab, q) == tab[q].qnext
LastId(tab, q) == tab[QueueTail(q)].qprev
IsEmpty(tab, q) == FirstId(tab, q) >= NPROC

(* The queues in the order in which sysinit makes them, each by its head. *)
SemQueues == {NPROC + 2 * i : i \in 0..(NSEM - 1)}
ReadyList == NPROC + 2 * NSEM
SleepQ    == ReadyList + 2
Ready     == nextqid > SleepQ           \* system start-up is over

-----------------------------------------------------------------------------
(* newqueue, which only sysinit and clkinit call; past the end of the table it
   returns SYSERR. *)
NewQueue ==
    /\ ~Ready /\ nextqid < NQENT
    /\ nextqid' = nextqid + 2
    /\ queuetab' = [queuetab EXCEPT
            ![nextqid] = [qnext |-> QueueTail(nextqid), qprev |-> EMPTY, qkey |-> MAXKEY],
            ![QueueTail(nextqid)] = [qnext |-> EMPTY, qprev |-> nextqid, qkey |-> MINKEY]]
    /\ UNCHANGED place

(* Link a node between two others, one of which follows the other. *)
Between(tab, pid, prev, next) ==
    [tab EXCEPT ![pid].qnext = next, ![pid].qprev = prev,
                ![prev].qnext = pid, ![next].qprev = pid]

Enqueued(tab, pid, q) == Between(tab, pid, LastId(tab, q), QueueTail(q))

(* A wrong getitem: links forward only. *)
GotItemForward(tab, pid) == [tab EXCEPT ![tab[pid].qprev].qnext = tab[pid].qnext]

(* getitem; getfirst and getlast are it for one end of a queue that is not empty. *)
GotItem(tab, pid) ==
    [tab EXCEPT ![tab[pid].qprev].qnext = tab[pid].qnext,
                ![tab[pid].qnext].qprev = tab[pid].qprev]

(* dequeue, of a queue that is not empty *)
Dequeued(tab, q) ==
    [GotItem(tab, FirstId(tab, q)) EXCEPT ![FirstId(tab, q)].qnext = EMPTY,
                                          ![FirstId(tab, q)].qprev = EMPTY]

(* The nodes that a walk along qnext meets after the head: all processes at most,
   the tail, and then no node. *)
Walk(tab, q) ==
    LET node[n \in 1..(NPROC + 2)] ==
            IF n = 1 THEN FirstId(tab, q)
            ELSE IF node[n - 1] = EMPTY THEN EMPTY ELSE tab[node[n - 1]].qnext
    IN  node

(* A wrong insert: does not walk past equal keys. *)
InsertedBeforeEquals(tab, pid, q, key) ==
    LET walk == Walk(tab, q)
        curr == walk[Min({n \in DOMAIN walk : walk[n] # EMPTY /\ tab[walk[n]].qkey <= key})]
    IN  [Between(tab, pid, tab[curr].qprev, curr) EXCEPT ![pid].qkey = key]

(* insert: curr stops at the first smaller key, which the tail's is at the latest. *)
Inserted(tab, pid, q, key) ==
    LET walk == Walk(tab, q)
        curr == walk[Min({n \in DOMAIN walk : walk[n] # EMPTY /\ tab[walk[n]].qkey < key})]
    IN  [Between(tab, pid, tab[curr].qprev, curr) EXCEPT ![pid].qkey = key]

(* insertd: what is left of the delay before each node; next stops at the tail
   or at the first key that is larger. *)
InsertedD(tab, pid, q, key) ==
    LET walk    == Walk(tab, q)
        left[n \in 1..(NPROC + 1)] ==
            IF n = 1 THEN key ELSE left[n - 1] - tab[walk[n - 1]].qkey
        stops(n) ==
            \/ walk[n] = QueueTail(q)
            \/ walk[n] \in Proc /\ tab[walk[n]].qkey > left[n]
        stop    == Min({n \in DOMAIN walk : stops(n)})
        next    == walk[stop]
        linked  == [Between(tab, pid, IF stop = 1 THEN q ELSE walk[stop - 1], next)
                        EXCEPT ![pid].qkey = left[stop]]
    IN  IF next = QueueTail(q) THEN linked ELSE [linked EXCEPT ![next].qkey = @ - left[stop]]

(* unsleep, past its checks: the tail's key is not that of a process. *)
Unslept(tab, pid) ==
    LET pidnext == tab[pid].qnext
        kept    == IF pidnext < NPROC THEN [tab EXCEPT ![pidnext].qkey = @ + tab[pid].qkey] ELSE tab
    IN  GotItem(kept, pid)

-----------------------------------------------------------------------------
Move(p, q) == place' = [place EXCEPT ![p] = q] /\ UNCHANGED nextqid

(* wait *)
JoinSem(p, q) ==
    /\ Ready /\ place[p] = EMPTY
    /\ queuetab' = Enqueued(queuetab, p, q) /\ Move(p, q)

(* ready, resched *)
JoinReady(p) ==
    /\ Ready /\ place[p] = EMPTY
    /\ queuetab' = Inserted(queuetab, p, ReadyList, Prio[p]) /\ Move(p, ReadyList)

(* sleepms, recvtime *)
JoinSleep(p, delay) ==
    /\ Ready /\ place[p] = EMPTY
    /\ queuetab' = InsertedD(queuetab, p, SleepQ, delay) /\ Move(p, SleepQ)

(* signal and the loops of semdelete and semreset, resched *)
TakeFirst(q) ==
    /\ Ready /\ ~IsEmpty(queuetab, q)
    /\ queuetab' = Dequeued(queuetab, q) /\ Move(FirstId(queuetab, q), EMPTY)

(* kill of a process that waits or is ready, suspend *)
TakeOut(p) ==
    /\ place[p] \in SemQueues \cup {ReadyList}
    /\ queuetab' = GotItem(queuetab, p) /\ Move(p, EMPTY)

(* kill of a sleeper, send to one in recvtime, and recvtime's own end *)
Unsleep(p) ==
    /\ place[p] = SleepQ
    /\ queuetab' = Unslept(queuetab, p) /\ Move(p, EMPTY)

FirstKey == queuetab[FirstId(queuetab, SleepQ)].qkey

(* clkhandler, which calls wakeup in the tick that ends a delay ... *)
Tick ==
    /\ Ready /\ ~IsEmpty(queuetab, SleepQ) /\ FirstKey > 0
    /\ queuetab' = [queuetab EXCEPT ![FirstId(queuetab, SleepQ)].qkey = @ - 1]
    /\ UNCHANGED <<nextqid, place>>

(* ... and wakeup, one sleeper at a time. *)
WakeFirst == Ready /\ ~IsEmpty(queuetab, SleepQ) /\ FirstKey <= 0 /\ TakeFirst(SleepQ)

QueueInit ==
    /\ nextqid = NPROC
    /\ queuetab = [n \in 0..(NQENT - 1) |-> [qnext |-> 0, qprev |-> 0, qkey |-> 0]]
    /\ place = [p \in Proc |-> EMPTY]

QueueNext ==
    \/ NewQueue
    \/ \E p \in Proc :
        \/ \E q \in SemQueues : JoinSem(p, q)
        \/ \E delay \in Delays : JoinSleep(p, delay)
        \/ JoinReady(p) \/ TakeOut(p) \/ Unsleep(p)
    \/ \E q \in SemQueues \cup {ReadyList} : TakeFirst(q)
    \/ Tick
    \/ WakeFirst

TableSpec == QueueInit /\ [][QueueNext]_queueVars

-----------------------------------------------------------------------------
AllQueues == SemQueues \cup {ReadyList, SleepQ}
List(tab, q) ==
    LET walk == Walk(tab, q)
    IN  [i \in 1..Cardinality({n \in DOMAIN walk : walk[n] \in Proc}) |-> walk[i]]
OnList(q) == IF q < nextqid THEN List(queuetab, q) ELSE <<>>

(* Every queue is linked alike in both directions, from its head over exactly
   the processes that are on it, each of them once, to its tail. *)
WellLinked ==
    \A q \in {r \in AllQueues : r < nextqid} :
        LET list  == OnList(q)
            chain == <<q>> \o list \o <<QueueTail(q)>>
        IN  /\ \A i \in 1..(Len(chain) - 1) :
                queuetab[chain[i]].qnext = chain[i + 1] /\ queuetab[chain[i + 1]].qprev = chain[i]
            /\ IsInjective(list)
            /\ ToSet(list) = {p \in Proc : place[p] = q}

(* The linked table implements the sequences that module ProcQueue works on. *)
Seqs == INSTANCE QueueSpec
    WITH Process <- Proc, Fifo <- SemQueues, Ordered <- {ReadyList}, Delta <- {SleepQ},
         Keys <- Delays \cup {Prio[p] : p \in Proc}, Nowhere <- EMPTY, on <- place,
         lists <- [q \in AllQueues |-> OnList(q)],
         keys <- [p \in Proc |-> queuetab[p].qkey]
ImplementsQueues == Seqs!Spec
=============================================================================
