--------------------------- MODULE KernelTheorems ---------------------------
(***************************************************************************)
(* What the kernel promises, for any number of processes and semaphores,   *)
(* from the invariant of module KernelProofs.                              *)
(*                                                                         *)
(* The scheduler: the processor belongs to a process of the highest        *)
(* priority, provided no process changes another's priority behind the     *)
(* scheduler's back; a receiver that runs has its message; prcount counts  *)
(* the processes, provided kills do not overlap.  Each has an invariant of *)
(* its own beside IInv.  For the first it is that the ready list is in     *)
(* order of the keys, and that the keys are the priorities: resched looks  *)
(* at the head of the list and at no other.                                *)
(*                                                                         *)
(* Semaphores: the kernel implements counting semaphores, for any mix of   *)
(* calls, kills and deletions included.  A unit has one holder at every    *)
(* moment.  In the middle of the loops that release several processes that *)
(* is seen only with IInv, and with one fact more about semreset, whose    *)
(* queue and count do not match while it runs: as long as somebody is on   *)
(* the queue the count is the negative one that the loop found.            *)
(*                                                                         *)
(* Timers: the kernel implements one independent countdown for each        *)
(* sleeper.  What is left of a sleeper's delay is the sum of the keys up   *)
(* to its own.  A step does one of five things to the sleep queue          *)
(* (SleepStep): it leaves queue and keys alone, it releases the head in    *)
(* wakeup, a process enters, a process leaves early, or the head's key is  *)
(* ticked down.  The lemmas on sums say what each does to what is left of  *)
(* everybody's delay; the rest follows from the kind of the step.          *)
(***************************************************************************)
EXTENDS KernelProofs, FiniteSetTheorems

-----------------------------------------------------------------------------
(* The scheduler *)

(* A ready list in order of its keys, which are priorities. *)
InOrder(rl, key) ==
    /\ Descending(rl, key)
    /\ \A p \in ToSet(rl) : key[p] = prprio[p]

Highest(rl, c) == \A p \in ToSet(rl) : prprio[p] <= prprio[c]

(* While rescheduling is deferred a process with a higher priority may become
   ready; attempt remembers that one may have. *)
PriorityInv ==
    /\ InOrder(readylist, qkey)
    /\ (ndefers = 1 /\ attempt) \/ Highest(readylist, currpid)

-----------------------------------------------------------------------------
(* The ready list's head has the highest priority on it. *)
LEMMA HeadHighest ==
    ASSUME NEW rl \in Seq(Pid), rl # <<>>, IsInjective(rl), NEW key, InOrder(rl, key)
    PROVE  /\ InOrder(Tail(rl), key)
           /\ Head(rl) \in ToSet(rl) /\ ToSet(Tail(rl)) \subseteq ToSet(rl)
           /\ \A p \in ToSet(rl) : prprio[Head(rl)] >= prprio[p]
<1>1. /\ Head(rl) \in ToSet(rl)
      /\ ToSet(Tail(rl)) = ToSet(rl) \ {Head(rl)}
    BY TailQueue
<1>2. Descending(Tail(rl), key) /\ \A p \in ToSet(rl) : key[Head(rl)] >= key[p]
    BY TailDescending DEF InOrder
<1> QED
    BY <1>1, <1>2 DEF InOrder

LEMMA InsertInOrder ==
    ASSUME FieldsOK, NEW rl \in Seq(Pid), NEW key, DOMAIN key = Pid, InOrder(rl, key),
           NEW p \in Pid, p \notin ToSet(rl)
    PROVE  /\ InOrder(Insert(rl, p, prprio[p], key), [key EXCEPT ![p] = prprio[p]])
           /\ ToSet(Insert(rl, p, prprio[p], key)) = ToSet(rl) \cup {p}
<1> DEFINE new == [key EXCEPT ![p] = prprio[p]]
<1>1. ToSet(rl) \subseteq Pid
    BY DEF ToSet
<1>2. \A x \in ToSet(rl) : key[x] \in Int
    BY <1>1 DEF InOrder, FieldsOK
<1>3. new[p] = prprio[p] /\ \A x \in ToSet(rl) : new[x] = key[x]
    BY <1>1
<1>4. prprio[p] \in Int
    BY DEF FieldsOK
<1>5. ToSet(Insert(rl, p, prprio[p], key)) = ToSet(rl) \cup {p}
    BY InsertQueue
<1> HIDE DEF new
<1>6. Descending(Insert(rl, p, prprio[p], key), new)
    BY <1>2, <1>3, <1>4, InsertDescending DEF InOrder
<1>7. InOrder(Insert(rl, p, prprio[p], key), new)
    BY <1>3, <1>5, <1>6 DEF InOrder
<1> QED
    BY <1>5, <1>7 DEF new

-----------------------------------------------------------------------------
(* resched, by its cases. *)
LEMMA DispatchPriority ==
    ASSUME NEW st, NEW rl, NEW key, Handed(st, rl, key), rl # <<>>, InOrder(rl, key),
           Dispatch(st, rl, key), prprio' = prprio
    PROVE  PriorityInv'
<1>1. rl \in Seq(Pid) /\ IsInjective(rl)
    BY DEF Handed
<1>2. /\ InOrder(Tail(rl), key)
      /\ Head(rl) \in ToSet(rl) /\ ToSet(Tail(rl)) \subseteq ToSet(rl)
      /\ \A p \in ToSet(rl) : prprio[Head(rl)] >= prprio[p]
    BY <1>1, HeadHighest
<1>3. currpid' = Head(rl) /\ readylist' = Tail(rl) /\ qkey' = key
    BY DEF Dispatch
<1>4. Highest(readylist, currpid)'
    BY <1>2, <1>3 DEF Highest
<1>5. InOrder(readylist, qkey)'
    BY <1>2, <1>3 DEF InOrder
<1> QED
    BY <1>4, <1>5 DEF PriorityInv

LEMMA SwitchPriority ==
    ASSUME FieldsOK, NEW st, NEW rl, NEW key, NEW slice, Handed(st, rl, key), InOrder(rl, key),
           st[currpid] # "CURR" => rl # <<>>,
           Switch(st, rl, key, slice), prprio' = prprio
    PROVE  PriorityInv'
<1>1. /\ rl \in Seq(Pid) /\ IsInjective(rl) /\ DOMAIN key = Pid /\ currpid \in Pid
      /\ st \in [Pid -> States]
    BY DEF Handed
<1>2. CASE Keeps(st, rl, key) /\ Stay(st, rl, key, slice)
    <2>1. readylist' = rl /\ qkey' = key /\ currpid' = currpid
        BY <1>2 DEF Stay
    <2>2. Highest(rl, currpid)
        <3>1. CASE rl = <<>>
            BY <3>1 DEF Highest, ToSet
        <3>2. CASE rl # <<>>
            <4>1. /\ Head(rl) \in ToSet(rl)
                  /\ \A p \in ToSet(rl) : prprio[Head(rl)] >= prprio[p]
                BY <1>1, <3>2, HeadHighest
            <4>2. prprio[currpid] > prprio[Head(rl)]
                BY <1>2, <3>2, <4>1 DEF Keeps, InOrder
            <4>3. ToSet(rl) \subseteq Pid
                BY <1>1 DEF ToSet
            <4>4. \A p \in Pid : prprio[p] \in Int
                BY DEF FieldsOK
            <4> QED
                BY <1>1, <4>1, <4>2, <4>3, <4>4 DEF Highest
        <3> QED
            BY <3>1, <3>2
    <2>3. InOrder(readylist, qkey)' /\ Highest(readylist, currpid)'
        BY <2>1, <2>2 DEF InOrder, Highest
    <2> QED
        BY <2>3 DEF PriorityInv
<1>3. CASE /\ st[currpid] = "CURR"
           /\ Dispatch([st EXCEPT ![currpid] = "READY"],
                       Insert(rl, currpid, prprio[currpid], key),
                       [key EXCEPT ![currpid] = prprio[currpid]])
    <2> DEFINE st2 == [st EXCEPT ![currpid] = "READY"]
               rl2 == Insert(rl, currpid, prprio[currpid], key)
               key2 == [key EXCEPT ![currpid] = prprio[currpid]]
    <2>1. st[currpid] # "READY"
        BY <1>3
    <2>2. Handed(st2, rl2, key2)
        BY <2>1, HandedInsert DEF Handed
    <2>3. rl2 # <<>>
        BY <1>1, InsertQueue
    <2>4. InOrder(rl2, key2)
        <3>1. currpid \notin ToSet(rl)
            BY <2>1 DEF Handed
        <3> QED
            BY <1>1, <3>1, InsertInOrder
    <2>5. Dispatch(st2, rl2, key2)
        BY <1>3
    <2> HIDE DEF st2, rl2, key2
    <2> QED
        BY <2>2, <2>3, <2>4, <2>5, DispatchPriority
<1>4. CASE st[currpid] # "CURR" /\ Dispatch(st, rl, key)
    BY <1>4, DispatchPriority
<1> QED
    BY <1>2, <1>3, <1>4 DEF Switch

(* Where nobody has become ready. *)
LEMMA StayPriority ==
    ASSUME PriorityInv, NEW rl, NEW key, InOrder(rl, key), ToSet(rl) \subseteq ToSet(readylist),
           readylist' = rl, qkey' = key, UNCHANGED <<currpid, prprio, ndefers, attempt>>
    PROVE  PriorityInv'
<1>1. InOrder(readylist, qkey)'
    BY DEF InOrder
<1>2. ((ndefers = 1 /\ attempt) \/ Highest(readylist, currpid))'
    BY Zenon DEF PriorityInv, Highest
<1> QED
    BY <1>1, <1>2 DEF PriorityInv

LEMMA ReschedPriority ==
    ASSUME FieldsOK, NEW st, NEW rl, NEW key, Handed(st, rl, key), InOrder(rl, key),
           st[currpid] # "CURR" => rl # <<>>, ndefers \in {0, 1}, ndefers' = ndefers,
           Resched(st, rl, key), prprio' = prprio
    PROVE  PriorityInv'
<1>1. CASE ndefers = 1
    <2>1. attempt' = TRUE /\ Stay(st, rl, key, preempt)
        BY <1>1, SMT DEF Resched
    <2>2. InOrder(readylist, qkey)'
        BY <2>1 DEF Stay, InOrder
    <2> QED
        BY <1>1, <2>1, <2>2 DEF PriorityInv
<1>2. CASE ndefers = 0
    <2>1. Switch(st, rl, key, preempt)
        BY <1>2, SMT DEF Resched
    <2> QED
        BY <2>1, SwitchPriority
<1> QED
    BY <1>1, <1>2

(* Keys that differ only for processes that are not ready. *)
KeysAgree(key) == DOMAIN key = Pid /\ \A p \in ToSet(readylist) : key[p] = qkey[p]

LEMMA AgreeInOrder ==
    ASSUME readylist \in Seq(Pid), InOrder(readylist, qkey), NEW key, KeysAgree(key)
    PROVE  InOrder(readylist, key)
<1>1. \A i \in 1..Len(readylist) : readylist[i] \in ToSet(readylist)
    BY DEF ToSet
<1> QED
    BY <1>1 DEF InOrder, Descending, KeysAgree

LEMMA ReadyPriority ==
    ASSUME IInv, PriorityInv, NEW p \in Pid, NEW key, KeysAgree(key),
           prstate[p] \notin Runnable, Ready(p, key), UNCHANGED <<prprio, ndefers>>
    PROVE  PriorityInv'
<1> DEFINE st == [prstate EXCEPT ![p] = "READY"]
           rl == Insert(readylist, p, prprio[p], key)
           key2 == [key EXCEPT ![p] = prprio[p]]
<1>1. SchedOK /\ FieldsOK /\ ndefers \in {0, 1} /\ DOMAIN key = Pid
    BY DEF IInv, ContextOK, KeysAgree
<1>2. Handed(st, rl, key2)
    <2>1. prstate[p] # "READY"
        BY DEF Runnable
    <2> QED
        BY <1>1, <2>1, HandedInsert DEF SchedOK, SomeoneToRun, Runnable
<1>3. st[currpid] = "CURR"
    BY <1>1 DEF SchedOK, SomeoneToRun, Runnable
<1>4. Resched(st, rl, key2)
    BY DEF Ready
<1>5. InOrder(rl, key2)
    <2>1. readylist \in Seq(Pid) /\ p \notin ToSet(readylist)
        BY <1>1 DEF SchedOK, Runnable
    <2>2. InOrder(readylist, key)
        BY <2>1, AgreeInOrder DEF PriorityInv
    <2> QED
        BY <1>1, <2>1, <2>2, InsertInOrder
<1> HIDE DEF st, rl, key2
<1> QED
    BY <1>1, <1>2, <1>3, <1>4, <1>5, ReschedPriority

LEMMA BlockPriority ==
    ASSUME IInv, PriorityInv, ndefers = 0, currpid # NULLPROC,
           NEW state \in States \ Runnable, NEW key, KeysAgree(key),
           Block(state, key), UNCHANGED <<prprio, ndefers>>
    PROVE  PriorityInv'
<1> DEFINE st == [prstate EXCEPT ![currpid] = state]
<1>1. SchedOK /\ FieldsOK /\ DOMAIN key = Pid
    BY DEF IInv, KeysAgree
<1>2. st \in [Pid -> States] /\ \A p \in Pid : st[p] = IF p = currpid THEN state ELSE prstate[p]
    BY <1>1 DEF SchedOK
<1>3. Resched(st, readylist, key)
    BY DEF Block
<1> HIDE DEF st
<1>4. Handed(st, readylist, key)
    BY <1>1, <1>2, PidAssumption DEF Handed, SchedOK, SomeoneToRun, Runnable
<1>5. readylist # <<>>
    <2>1. NULLPROC \in ToSet(readylist)
        BY <1>1, PidAssumption DEF SchedOK, SomeoneToRun
    <2> QED
        BY <2>1 DEF ToSet
<1>6. InOrder(readylist, key)
    BY <1>1, AgreeInOrder DEF SchedOK, PriorityInv
<1> QED
    BY <1>1, <1>3, <1>4, <1>5, <1>6, ReschedPriority

(* resched on the tables as they are, but for keys of processes that are not ready. *)
LEMMA YieldPriority ==
    ASSUME IInv, PriorityInv, NEW key, KeysAgree(key), NEW slice,
           Resched(prstate, readylist, key) \/ Switch(prstate, readylist, key, slice),
           UNCHANGED <<prprio, ndefers>>
    PROVE  PriorityInv'
<1>1. SchedOK /\ FieldsOK /\ ndefers \in {0, 1} /\ DOMAIN key = Pid
    BY DEF IInv, ContextOK, KeysAgree
<1>2. Handed(prstate, readylist, key) /\ prstate[currpid] = "CURR"
    BY <1>1, PidAssumption DEF Handed, SchedOK, SomeoneToRun, Runnable
<1>3. InOrder(readylist, key)
    BY <1>1, AgreeInOrder DEF SchedOK, PriorityInv
<1> QED
    BY <1>1, <1>2, <1>3, ReschedPriority, SwitchPriority

(* DEFER_STOP makes up for what was deferred. *)
LEMMA DeferStopPriority ==
    ASSUME IInv, PriorityInv, DeferStop, prprio' = prprio
    PROVE  PriorityInv'
<1>1. ndefers = 1 /\ ndefers' = 0 /\ SchedOK /\ FieldsOK
    BY SMT DEF IInv, ContextOK, DeferStop
<1>2. Handed(prstate, readylist, qkey) /\ prstate[currpid] = "CURR"
    BY <1>1, PidAssumption DEF Handed, SchedOK, SomeoneToRun, Runnable
<1>3. CASE attempt
    <2>1. Switch(prstate, readylist, qkey, preempt)
        BY <1>1, <1>3 DEF DeferStop
    <2> QED
        BY <1>1, <1>2, <2>1, SwitchPriority DEF PriorityInv
<1>4. CASE ~attempt
    <2>1. Stay(prstate, readylist, qkey, preempt)
        BY <1>4 DEF DeferStop
    <2>2. Highest(readylist, currpid) /\ InOrder(readylist, qkey)
        BY <1>4 DEF PriorityInv
    <2>3. Highest(readylist, currpid)' /\ InOrder(readylist, qkey)'
        BY <2>1, <2>2 DEF Stay, Highest, InOrder
    <2> QED
        BY <2>3 DEF PriorityInv
<1> QED
    BY <1>3, <1>4

-----------------------------------------------------------------------------
(* Steps that leave the dispatcher's tables alone. *)
LEMMA TablesPriority ==
    ASSUME PriorityInv, UNCHANGED <<currpid, readylist, qkey, prprio, ndefers, attempt>>
    PROVE  PriorityInv'
BY SMT DEF PriorityInv, InOrder, Descending, Highest

(* Steps that enter a loop: nobody has become ready yet. *)
LEMMA DeferStartPriority ==
    ASSUME PriorityInv, ndefers = 0, DeferStart, UNCHANGED <<currpid, readylist, qkey, prprio>>
    PROVE  PriorityInv'
<1>1. Highest(readylist, currpid) /\ InOrder(readylist, qkey)
    BY SMT DEF PriorityInv
<1>2. Highest(readylist, currpid)' /\ InOrder(readylist, qkey)'
    BY <1>1 DEF Highest, InOrder
<1> QED
    BY <1>2 DEF PriorityInv

LEMMA SameKeys == ASSUME IInv PROVE KeysAgree(qkey)
BY DEF IInv, SchedOK, KeysAgree

(* Who sleeps is not ready, so the delta list's keys are none of the scheduler's. *)
LEMMA SleepersAside ==
    ASSUME IInv
    PROVE  ToSet(readylist) \subseteq Pid /\ \A p \in ToSet(readylist) :
                p \notin ToSet(sleepq) /\ prstate[p] = "READY"
<1>1. ToSet(readylist) \subseteq Pid
    BY DEF IInv, SchedOK, ToSet
<1> QED
    BY <1>1 DEF IInv, SchedOK, SleepOK

LEMMA UnsleepAgrees ==
    ASSUME IInv, NEW p \in ToSet(sleepq)
    PROVE  KeysAgree(UnsleepKeys(sleepq, p, qkey))
<1> DEFINE i == IndexOf(sleepq, p)
           next == IF i < Len(sleepq) THEN {sleepq[i + 1]} ELSE {}
<1>1. DOMAIN qkey = Pid /\ sleepq \in Seq(Pid)
    BY DEF IInv, SchedOK, SleepOK
<1>2. next \subseteq ToSet(sleepq)
    <2>1. \E j \in 1..Len(sleepq) : sleepq[j] = p
        BY <1>1 DEF ToSet
    <2>2. i \in 1..Len(sleepq)
        BY <2>1 DEF IndexOf
    <2> HIDE DEF i
    <2> QED
        BY <1>1, <2>2 DEF ToSet
<1>3. UnsleepKeys(sleepq, p, qkey)
        = [q \in Pid |-> IF q \in next THEN qkey[q] + qkey[p] ELSE qkey[q]]
    BY <1>1 DEF UnsleepKeys
<1> HIDE DEF next
<1> QED
    BY <1>2, <1>3, SleepersAside DEF KeysAgree

LEMMA InsertDeltaAgrees ==
    ASSUME IInv, currpid # NULLPROC, NEW k
    PROVE  KeysAgree(InsertDeltaKeys(sleepq, currpid, k, qkey))
<1> DEFINE pos == DeltaPosition(sleepq, k, qkey)
           rest == k - Elapsed(sleepq, qkey)[pos - 1]
           next == IF pos <= Len(sleepq) THEN {sleepq[pos]} ELSE {}
<1>1. DOMAIN qkey = Pid /\ sleepq \in Seq(Pid) /\ prstate[currpid] = "CURR"
    BY DEF IInv, SchedOK, SleepOK, SomeoneToRun
<1>2. next \subseteq ToSet(sleepq)
    <2>1. pos \in 1..(Len(sleepq) + 1)
        <3>1. Passed(sleepq, {i \in 1..Len(sleepq) : Elapsed(sleepq, qkey)[i] <= k})
                \in 0..Len(sleepq)
            BY <1>1, PassedBound
        <3> QED
            BY <3>1 DEF DeltaPosition
    <2> HIDE DEF pos
    <2> QED
        BY <1>1, <2>1 DEF ToSet
<1>3. InsertDeltaKeys(sleepq, currpid, k, qkey)
        = [q \in Pid |-> IF q = currpid THEN rest
                         ELSE IF q \in next THEN qkey[q] - rest ELSE qkey[q]]
    BY <1>1 DEF InsertDeltaKeys
<1> HIDE DEF next, rest
<1> QED
    BY <1>1, <1>2, <1>3, SleepersAside DEF KeysAgree

LEMMA TickAgrees == ASSUME IInv PROVE KeysAgree(TickKeys)
<1>1. DOMAIN qkey = Pid /\ sleepq \in Seq(Pid)
    BY DEF IInv, SchedOK, SleepOK
<1>2. CASE sleepq = <<>>
    BY <1>2, SameKeys DEF TickKeys
<1>3. CASE sleepq # <<>>
    <2>1. Head(sleepq) \in ToSet(sleepq)
        BY <1>1, <1>3, TailQueue DEF IInv, SleepOK
    <2> QED
        BY <1>1, <1>3, <2>1, SleepersAside DEF TickKeys, KeysAgree
<1> QED
    BY <1>2, <1>3

-----------------------------------------------------------------------------
(* The calls.  Every one but create and chprio leaves the priorities alone. *)
LEMMA VPriority ==
    ASSUME IInv, PriorityInv, NEW s \in Sem, \A t \in Sem : ~Resetting(t), V(s),
           UNCHANGED <<prprio, ndefers>>
    PROVE  PriorityInv'
<1>1. CASE UNCHANGED dispatchVars
    BY <1>1, TablesPriority DEF dispatchVars
<1>2. CASE scount[s] < 0 /\ Ready(Head(squeue[s]), qkey)
    <2>1. squeue[s] # <<>> /\ squeue[s] \in Seq(Pid) /\ IsInjective(squeue[s])
        <3>1. scount[s] \in Int /\ squeue[s] \in Seq(Pid) /\ IsInjective(squeue[s])
            BY DEF IInv, SemOK
        <3>2. Len(squeue[s]) + scount[s] = 0
            BY <1>2, <3>1 DEF IInv, CountMatchesQueue
        <3> QED
            BY <1>2, <3>1, <3>2
    <2>2. Head(squeue[s]) \in Pid /\ Head(squeue[s]) \in ToSet(squeue[s])
        BY <2>1, TailQueue
    <2>3. prstate[Head(squeue[s])] = "WAIT"
        BY <2>2 DEF IInv, SemOK
    <2> QED
        BY <1>2, <2>2, <2>3, SameKeys, ReadyPriority DEF Runnable
<1> QED
    BY <1>1, <1>2 DEF V

LEMMA WaitPriority ==
    ASSUME IInv, PriorityInv, NEW s \in Sem, Wait(s)
    PROVE  PriorityInv'
<1>1. ndefers = 0 /\ currpid # NULLPROC /\ UNCHANGED <<prprio, ndefers>>
    BY UserFacts DEF IInv, Wait, Calling
<1>2. CASE UNCHANGED dispatchVars
    BY <1>1, <1>2, TablesPriority DEF dispatchVars
<1>3. CASE Block("WAIT", qkey)
    <2>1. "WAIT" \in States \ Runnable
        BY DEF States, Runnable
    <2> QED
        BY <1>1, <1>3, <2>1, SameKeys, BlockPriority
<1> QED
    BY <1>2, <1>3 DEF Wait

LEMMA SemaphorePriority == ASSUME IInv, PriorityInv, SemaphoreCall PROVE PriorityInv'
<1> PICK s \in Sem : \/ Wait(s) \/ Signal(s) \/ SemDelete(s)
                     \/ \E count \in Counts : SignalN(s, count) \/ SemCreate(s, count) \/ SemReset(s, count)
    BY DEF SemaphoreCall
<1>1. CASE Wait(s)
    BY <1>1, WaitPriority
<1>2. CASE Signal(s)
    <2>1. \A t \in Sem : ~Resetting(t)
        BY <1>2, UserFacts DEF IInv, Signal, Calling
    <2>2. V(s) /\ UNCHANGED <<prprio, ndefers>>
        BY <1>2 DEF Signal, procVars
    <2> QED
        BY <2>1, <2>2, VPriority
<1>3. CASE SemDelete(s)
    BY <1>3, UserFacts, DeferStartPriority DEF IInv, SemDelete, Calling, procVars
<1>4. CASE \E count \in Counts : SignalN(s, count)
    BY <1>4, UserFacts, DeferStartPriority DEF IInv, SignalN, Calling, procVars
<1>5. CASE \E count \in Counts : SemReset(s, count)
    BY <1>5, UserFacts, DeferStartPriority DEF IInv, SemReset, Calling, procVars
<1>6. CASE \E count \in Counts : SemCreate(s, count)
    BY <1>6, TablesPriority DEF SemCreate, deferVars, dispatchVars, procVars
<1> QED
    BY <1>1, <1>2, <1>3, <1>4, <1>5, <1>6

LEMMA DeliverPriority ==
    ASSUME IInv, PriorityInv, NEW p \in Pid, Deliver(p), UNCHANGED <<prprio, ndefers>>
    PROVE  PriorityInv'
<1>1. CASE UNCHANGED dispatchVars
    BY <1>1, TablesPriority DEF dispatchVars
<1>2. CASE prstate[p] = "RECV" /\ Ready(p, qkey)
    BY <1>2, SameKeys, ReadyPriority DEF Runnable
<1>3. CASE prstate[p] = "RECTIM" /\ Ready(p, UnsleepKeys(sleepq, p, qkey))
    <2>1. p \in ToSet(sleepq)
        BY <1>3 DEF IInv, SleepOK
    <2> QED
        BY <1>3, <2>1, UnsleepAgrees, ReadyPriority DEF Runnable
<1> QED
    BY <1>1, <1>2, <1>3 DEF Deliver, Wake

LEMMA MessagePriority == ASSUME IInv, PriorityInv, MessageCall PROVE PriorityInv'
<1>1. CASE \E p \in Pid : Send(p)
    BY <1>1, DeliverPriority DEF Send, procVars
<1>2. CASE Receive
    <2>1. ndefers = 0 /\ currpid # NULLPROC /\ UNCHANGED <<prprio, ndefers>>
        BY <1>2, UserFacts DEF IInv, Receive, Calling, procVars
    <2>2. CASE UNCHANGED dispatchVars
        BY <2>1, <2>2, TablesPriority DEF dispatchVars
    <2>3. CASE Block("RECV", qkey)
        BY <2>1, <2>3, SameKeys, BlockPriority DEF States, Runnable
    <2> QED
        BY <1>2, <2>2, <2>3 DEF Receive
<1>3. CASE RecvClr
    BY <1>3, TablesPriority DEF RecvClr, deferVars, dispatchVars, procVars
<1>4. CASE \E maxwait \in Timeouts : RecvTime(maxwait)
    <2> PICK maxwait \in Timeouts : RecvTime(maxwait)
        BY <1>4
    <2>1. ndefers = 0 /\ currpid # NULLPROC /\ UNCHANGED <<prprio, ndefers>>
        BY UserFacts DEF IInv, RecvTime, Calling, procVars
    <2>2. CASE UNCHANGED dispatchVars
        BY <2>1, <2>2, TablesPriority DEF dispatchVars
    <2>3. CASE Block("RECTIM", InsertDeltaKeys(sleepq, currpid, maxwait, qkey))
        <3>1. KeysAgree(InsertDeltaKeys(sleepq, currpid, maxwait, qkey))
            BY <2>1, InsertDeltaAgrees
        <3>2. "RECTIM" \in States \ Runnable
            BY DEF States, Runnable
        <3> QED
            BY <2>1, <2>3, <3>1, <3>2, BlockPriority
    <2> QED
        BY <2>2, <2>3 DEF RecvTime
<1> QED
    BY <1>1, <1>2, <1>3, <1>4 DEF MessageCall

LEMMA GetItemPriority ==
    ASSUME IInv, PriorityInv, NEW p \in Pid, prstate[p] = "READY", NEW st, NEW slice,
           Stay(st, GetItem(readylist, p), qkey, slice), UNCHANGED <<prprio, ndefers, attempt>>
    PROVE  PriorityInv'
<1>1. p \in ToSet(readylist) /\ readylist \in Seq(Pid) /\ IsInjective(readylist)
    BY DEF IInv, SchedOK
<1>2. /\ ToSet(GetItem(readylist, p)) \subseteq ToSet(readylist)
      /\ Descending(GetItem(readylist, p), qkey)
    BY <1>1, GetItemQueue, GetItemDescending DEF PriorityInv, InOrder
<1>3. InOrder(GetItem(readylist, p), qkey)
    BY <1>2 DEF PriorityInv, InOrder
<1>4. readylist' = GetItem(readylist, p) /\ qkey' = qkey /\ currpid' = currpid
    BY DEF Stay
<1> DEFINE rl == GetItem(readylist, p)
<1>5. readylist' = rl /\ InOrder(rl, qkey) /\ ToSet(rl) \subseteq ToSet(readylist)
    BY <1>2, <1>3, <1>4
<1> HIDE DEF rl
<1> QED
    BY <1>4, <1>5, StayPriority

LEMMA KillPriority == ASSUME IInv, PriorityInv, NEW p \in Pid, Kill(p) PROVE PriorityInv'
<1>1. UNCHANGED <<prprio, ndefers>>
    BY DEF Kill
<1>2. CASE UNCHANGED dispatchVars
    BY <1>1, <1>2, TablesPriority DEF dispatchVars
<1>3. CASE Deliver(prparent[p])
    BY <1>1, <1>3, DeliverPriority DEF IInv, FieldsOK
<1> QED
    BY <1>2, <1>3 DEF Kill

LEMMA CreatePriority ==
    ASSUME IInv, PriorityInv, NEW p \in Pid, NEW prio \in Prios, Create(p, prio)
    PROVE  PriorityInv'
<1>1. /\ prstate[p] = "FREE" /\ prprio' = [prprio EXCEPT ![p] = prio]
      /\ UNCHANGED <<currpid, readylist, qkey, ndefers, attempt>>
    BY DEF Create
<1>2. p \notin ToSet(readylist) /\ p # currpid /\ ToSet(readylist) \subseteq Pid /\ currpid \in Pid
    BY <1>1, SleepersAside DEF IInv, SchedOK, SomeoneToRun
<1>3. \A q \in Pid : q # p => prprio'[q] = prprio[q]
    BY <1>1 DEF IInv, FieldsOK
<1>4. InOrder(readylist, qkey)'
    BY <1>1, <1>2, <1>3 DEF PriorityInv, InOrder, Descending
<1>5. Highest(readylist, currpid) => Highest(readylist, currpid)'
    BY <1>1, <1>2, <1>3 DEF Highest
<1> QED
    BY <1>1, <1>4, <1>5, Zenon DEF PriorityInv

LEMMA ProcessPriority ==
    ASSUME IInv, PriorityInv, ProcessCall, "chprio" \notin Calls
    PROVE  PriorityInv'
<1>1. CASE \E p \in Pid : Kill(p)
    BY <1>1, KillPriority
<1>2. CASE \E p \in Pid : Suspend(p)
    <2> PICK p \in Pid : Suspend(p)
        BY <1>2
    <2>1. ndefers = 0 /\ currpid # NULLPROC /\ p # NULLPROC /\ UNCHANGED <<prprio, ndefers>>
        BY UserFacts DEF IInv, Suspend, Calling, procVars
    <2>2. CASE /\ prstate[p] = "READY"
               /\ Stay([prstate EXCEPT ![p] = "SUSP"], GetItem(readylist, p), qkey, preempt)
               /\ UNCHANGED attempt
        BY <2>1, <2>2, GetItemPriority
    <2>3. CASE Block("SUSP", qkey)
        BY <2>1, <2>3, SameKeys, BlockPriority DEF States, Runnable
    <2> QED
        BY <2>2, <2>3 DEF Suspend
<1>3. CASE \E p \in Pid : Resume(p)
    <2> PICK p \in Pid : Resume(p)
        BY <1>3
    <2>1. prstate[p] = "SUSP" /\ Ready(p, qkey) /\ UNCHANGED <<prprio, ndefers>>
        BY DEF Resume, procVars
    <2> QED
        BY <2>1, SameKeys, ReadyPriority DEF Runnable
<1>4. CASE \E p \in Pid : \E prio \in Prios : Create(p, prio)
    BY <1>4, CreatePriority
<1>5. CASE \E p \in Pid : \E prio \in NewPrios : ChPrio(p, prio)
    BY <1>5 DEF ChPrio, Calling
<1>6. CASE Yield
    BY <1>6, SameKeys, YieldPriority DEF Yield, procVars
<1>7. CASE \E delay \in Delays : SleepMs(delay)
    <2> PICK delay \in Delays : SleepMs(delay)
        BY <1>7
    <2>1. ndefers = 0 /\ currpid # NULLPROC /\ UNCHANGED <<prprio, ndefers>>
        BY UserFacts DEF IInv, SleepMs, Calling, procVars
    <2>2. CASE Resched(prstate, readylist, qkey)
        BY <2>1, <2>2, SameKeys, YieldPriority
    <2>3. CASE Block("SLEEP", InsertDeltaKeys(sleepq, currpid, delay, qkey))
        <3>1. KeysAgree(InsertDeltaKeys(sleepq, currpid, delay, qkey))
            BY <2>1, InsertDeltaAgrees
        <3>2. "SLEEP" \in States \ Runnable
            BY DEF States, Runnable
        <3> QED
            BY <2>1, <2>3, <3>1, <3>2, BlockPriority
    <2> QED
        BY <2>2, <2>3 DEF SleepMs
<1> QED
    BY <1>1, <1>2, <1>3, <1>4, <1>5, <1>6, <1>7 DEF ProcessCall

-----------------------------------------------------------------------------
(* The clock, and what a process does back from a switch or in a loop. *)
LEMMA EndSlicePriority ==
    ASSUME IInv, PriorityInv, NEW key, KeysAgree(key), EndSlice(key),
           UNCHANGED <<prprio, ndefers, attempt>>
    PROVE  PriorityInv'
<1>1. CASE Stay(prstate, readylist, key, preempt - 1)
    <2>1. InOrder(readylist, key)
        BY AgreeInOrder DEF IInv, SchedOK, PriorityInv
    <2>2. readylist' = readylist /\ qkey' = key /\ currpid' = currpid
        BY <1>1 DEF Stay
    <2> QED
        BY <2>1, <2>2, StayPriority
<1>2. CASE Switch(prstate, readylist, key, QUANTUM)
    BY <1>2, YieldPriority
<1> QED
    BY <1>1, <1>2 DEF EndSlice

LEMMA ClockPriority == ASSUME IInv, PriorityInv, ClkHandler PROVE PriorityInv'
<1>1. ndefers = 0 /\ prprio' = prprio
    BY UserFacts DEF IInv, ClkHandler, procVars
<1>2. KeysAgree(TickKeys)
    BY TickAgrees
<1>3. CASE qkey' = TickKeys /\ DeferStart /\ UNCHANGED <<currpid, readylist>>
    <2>1. Highest(readylist, currpid)
        BY <1>1, SMT DEF PriorityInv
    <2>2. InOrder(readylist, TickKeys)
        BY <1>2, AgreeInOrder DEF IInv, SchedOK, PriorityInv
    <2>3. Highest(readylist, currpid)' /\ InOrder(readylist, qkey)'
        BY <1>1, <1>3, <2>1, <2>2 DEF Highest, InOrder
    <2> QED
        BY <2>3 DEF PriorityInv
<1>4. CASE EndSlice(TickKeys) /\ UNCHANGED <<attempt, ndefers>>
    BY <1>1, <1>2, <1>4, EndSlicePriority
<1> QED
    BY <1>3, <1>4 DEF ClkHandler

LEMMA KillDonePriority == ASSUME IInv, PriorityInv, KillDone PROVE PriorityInv'
<1> DEFINE p == kpc[currpid].x
<1>1. /\ At("kill") /\ currpid \in Pid /\ ContextOK /\ SchedOK /\ FieldsOK
      /\ UNCHANGED <<attempt, ndefers, prprio>>
    BY DEF KillDone, IInv, SchedOK, procVars
<1>2. p \in Pid \ {NULLPROC}
    BY <1>1 DEF ContextOK, Arguments, At
<1>3. KillCurrent(p) \/ KillSleeper(p) \/ KillWaiter(p) \/ KillReady(p) \/ KillOther(p)
    BY DEF KillDone
<1> HIDE DEF p
<1>4. CASE KillCurrent(p)
    <2> DEFINE st == Free(p)
    <2>1. p = currpid /\ Switch(st, readylist, qkey, preempt)
        BY <1>1, <1>2, <1>4 DEF KillCurrent, SchedOK, SomeoneToRun
    <2>2. st \in [Pid -> States] /\ \A q \in Pid : st[q] = IF q = p THEN "FREE" ELSE prstate[q]
        BY <1>1, <1>2 DEF Free, SchedOK, States
    <2> HIDE DEF st
    <2>3. NULLPROC \in ToSet(readylist) /\ prstate[NULLPROC] = "READY"
        BY <1>1, <1>2, <2>1, PidAssumption DEF SchedOK, SomeoneToRun
    <2>4. readylist # <<>>
        BY <2>3 DEF ToSet
    <2>5. Handed(st, readylist, qkey)
        BY <1>1, <1>2, <2>1, <2>2, <2>3, PidAssumption DEF Handed, SchedOK, SomeoneToRun, Runnable
    <2>6. InOrder(readylist, qkey)
        BY DEF PriorityInv
    <2> QED
        BY <1>1, <2>1, <2>4, <2>5, <2>6, SwitchPriority
<1>5. CASE KillSleeper(p)
    <2> DEFINE key == UnsleepKeys(sleepq, p, qkey)
    <2>1. p \in ToSet(sleepq)
        BY <1>2, <1>5 DEF KillSleeper, IInv, SleepOK
    <2>2. KeysAgree(key)
        BY <2>1, UnsleepAgrees
    <2>3. readylist' = readylist /\ qkey' = key /\ currpid' = currpid
        BY <1>5 DEF KillSleeper, Stay
    <2> HIDE DEF key
    <2>4. InOrder(readylist, key)
        BY <1>1, <2>2, AgreeInOrder DEF SchedOK, PriorityInv
    <2> QED
        BY <1>1, <2>3, <2>4, StayPriority
<1>6. CASE KillWaiter(p) \/ KillOther(p)
    BY <1>1, <1>6, TablesPriority DEF KillWaiter, KillOther, Stay
<1>7. CASE KillReady(p)
    BY <1>1, <1>2, <1>7, GetItemPriority DEF KillReady
<1> QED
    BY <1>3, <1>4, <1>5, <1>6, <1>7

LEMMA StepPriority == ASSUME IInv, PriorityInv, KernelStep PROVE PriorityInv'
<1>0. currpid \in Pid /\ ContextOK
    BY DEF IInv, SchedOK
<1>1. CASE SignalNLoop
    <2>1. /\ At("signaln") /\ V(kpc[currpid].x) /\ UNCHANGED <<prprio, ndefers>>
          /\ "signaln" \in Loops /\ "signaln" \in SemLoops
        BY <1>1 DEF SignalNLoop, procVars, Loops, SemLoops
    <2>2. kpc[currpid].x \in Sem /\ \A t \in Sem : ~Resetting(t)
        BY <1>0, <2>1, LoopFacts
    <2> QED
        BY <2>1, <2>2, VPriority
<1>2. CASE SemDeleteLoop
    <2>1. /\ At("semdelete") /\ V(kpc[currpid].x) /\ UNCHANGED <<prprio, ndefers>>
          /\ "semdelete" \in Loops /\ "semdelete" \in SemLoops
        BY <1>2 DEF SemDeleteLoop, procVars, Loops, SemLoops
    <2>2. kpc[currpid].x \in Sem /\ \A t \in Sem : ~Resetting(t)
        BY <1>0, <2>1, LoopFacts
    <2> QED
        BY <2>1, <2>2, VPriority
<1>3. CASE SemResetLoop
    <2> DEFINE s == kpc[currpid].x
    <2>1. /\ At("semreset") /\ squeue[s] # <<>> /\ Ready(Head(squeue[s]), qkey)
          /\ UNCHANGED <<prprio, ndefers>> /\ "semreset" \in Loops /\ "semreset" \in SemLoops
        BY <1>3 DEF SemResetLoop, procVars, Loops, SemLoops
    <2>2. s \in Sem
        BY <1>0, <2>1, LoopFacts
    <2> HIDE DEF s
    <2>3. Head(squeue[s]) \in Pid /\ prstate[Head(squeue[s])] = "WAIT"
        <3>1. squeue[s] \in Seq(Pid) /\ IsInjective(squeue[s])
            BY <2>2 DEF IInv, SemOK
        <3>2. Head(squeue[s]) \in Pid /\ Head(squeue[s]) \in ToSet(squeue[s])
            BY <2>1, <3>1, TailQueue
        <3> QED
            BY <2>2, <3>2 DEF IInv, SemOK
    <2> QED
        BY <2>1, <2>3, SameKeys, ReadyPriority DEF Runnable
<1>4. CASE SignalNEnd \/ SemDeleteEnd \/ SemResetEnd \/ WakeupEnd
    <2>1. DeferStop /\ prprio' = prprio
        BY <1>4 DEF SignalNEnd, SemDeleteEnd, SemResetEnd, WakeupEnd, procVars
    <2> QED
        BY <2>1, DeferStopPriority
<1>5. CASE ReceiveDone \/ RecvTimeDone
    BY <1>5, TablesPriority DEF ReceiveDone, RecvTimeDone, deferVars, dispatchVars, procVars
<1>6. CASE KillDone
    BY <1>6, KillDonePriority
<1>7. CASE Wakeup
    <2>1. sleepq # <<>> /\ Ready(Head(sleepq), qkey) /\ UNCHANGED <<prprio, ndefers>>
        BY <1>7 DEF Wakeup, Expired, procVars
    <2>2. Head(sleepq) \in Pid /\ prstate[Head(sleepq)] \in {"SLEEP", "RECTIM"}
        BY <2>1, TailQueue DEF IInv, SleepOK
    <2> QED
        BY <2>1, <2>2, SameKeys, ReadyPriority DEF Runnable
<1>8. CASE ClkHandlerEnd
    BY <1>8, SameKeys, EndSlicePriority DEF ClkHandlerEnd, procVars
<1> QED
    BY <1>1, <1>2, <1>3, <1>4, <1>5, <1>6, <1>7, <1>8 DEF KernelStep

LEMMA NextPriority ==
    ASSUME IInv, PriorityInv, [Next]_vars, "chprio" \notin Calls
    PROVE  PriorityInv'
<1>1. CASE UNCHANGED vars
    BY <1>1, TablesPriority DEF vars, deferVars, dispatchVars, procVars
<1>2. CASE Halted
    BY <1>1, <1>2 DEF Halted
<1> QED
    BY <1>1, <1>2, SemaphorePriority, MessagePriority, ProcessPriority, ClockPriority, StepPriority
    DEF Next

LEMMA InitPriority == Init => PriorityInv
<1> SUFFICES ASSUME NEW startup \in Pid \ {NULLPROC}, currpid = startup,
                    prprio = [p \in Pid |-> IF p = startup THEN INITPRIO ELSE 0],
                    qkey = [p \in Pid |-> IF p = startup THEN INITPRIO ELSE 0],
                    readylist = <<NULLPROC>>
             PROVE  PriorityInv
    BY DEF Init
<1>1. ToSet(readylist) = {NULLPROC} /\ Len(readylist) = 1 /\ readylist[1] = NULLPROC
    BY DEF ToSet
<1>2. prprio[NULLPROC] = 0 /\ qkey[NULLPROC] = 0 /\ prprio[currpid] = INITPRIO
    BY PidAssumption
<1>3. 0 <= INITPRIO
    BY PrioAssumption
<1>4. InOrder(readylist, qkey)
    BY <1>1, <1>2 DEF InOrder, Descending
<1> QED
    BY <1>1, <1>2, <1>3, <1>4 DEF PriorityInv, Highest

(* Where no process calls chprio, the ready list is always in order of the
   priorities, and nobody on it is above the process that runs, unless an
   attempt to reschedule is waiting for the end of a deferral. *)
THEOREM PriorityInvariant ==
    ASSUME "chprio" \notin Calls PROVE Spec => []PriorityInv
<1>1. Init => PriorityInv
    BY InitPriority
<1>2. IInv /\ PriorityInv /\ [Next]_vars => PriorityInv'
    BY NextPriority
<1> QED
    BY <1>1, <1>2, Invariant, PTL DEF Spec

(* resched's "highest priority eligible process": no ready process has a higher
   priority than the one that runs user code.  The hypothesis is needed, for
   chprio changes the priority of a process and leaves it where it is in the list. *)
THEOREM HighestRuns ==
    ASSUME "chprio" \notin Calls PROVE Spec => []HighestPriorityRuns
<1>1. IInv /\ PriorityInv => HighestPriorityRuns
    <2> SUFFICES ASSUME IInv, PriorityInv, InUser PROVE Highest(readylist, currpid)
        BY DEF HighestPriorityRuns, Highest
    <2>1. ndefers = 0
        BY UserFacts DEF IInv
    <2> QED
        BY <2>1 DEF PriorityInv
<1> QED
    BY <1>1, Invariant, PriorityInvariant, PTL

-----------------------------------------------------------------------------
(* What a step does to a process that does not make it, unless it frees or
   creates it: it may be scheduled, suspended, resumed, woken and sent a message. *)
Awake == {"CURR", "READY", "SUSP"}

Kept(q) ==
    /\ prhasmsg[q] => prhasmsg'[q]
    /\ \/ prstate'[q] = prstate[q]
       \/ prstate[q] \in Awake /\ prstate'[q] \in Awake
       \/ prstate[q] = "RECV" /\ prstate'[q] \in Awake /\ prhasmsg'[q]
       \/ prstate[q] \in {"WAIT", "SLEEP", "RECTIM"} /\ prstate'[q] \in Awake

OthersKept == prstate'[currpid] # "FREE" /\ \A q \in Pid \ {currpid} : Kept(q)

(* All there is to a step that neither frees nor creates a process, starts no kill
   and ends none: the process that makes it stops where receive waits, or not in
   receive at all. *)
Calm ==
    /\ OthersKept
    /\ \A q \in Pid \ {currpid} : kpc'[q] = kpc[q]
    /\ \/ kpc'[currpid] = kpc[currpid] /\ kpc[currpid].at # "receive"
       \/ /\ kpc[currpid].at # "kill" /\ kpc'[currpid].at # "kill"
          /\ kpc'[currpid].at = "receive" => prstate'[currpid] = "RECV"

(* Any step, by what it leaves of the contexts. *)
Undisturbed ==
    /\ \A q \in Pid \ {currpid} : kpc'[q] = User \/ (kpc'[q] = kpc[q] /\ Kept(q))
    /\ \/ kpc'[currpid].at # "receive"
       \/ prstate'[currpid] = "RECV"
       \/ kpc'[currpid] = kpc[currpid] /\ UNCHANGED <<prstate, prhasmsg>>

(* A receiver waits for its message, or has it. *)
ReceiverInv ==
    \A p \in Pid : kpc[p].at = "receive" => prstate[p] = "RECV" \/ (prstate[p] \in Awake /\ prhasmsg[p])

LEMMA CalmUndisturbed == ASSUME Calm PROVE Undisturbed
<1>1. \A q \in Pid \ {currpid} : kpc'[q] = kpc[q] /\ Kept(q)
    BY Zenon DEF Calm, OthersKept
<1>2. kpc'[currpid].at # "receive" \/ prstate'[currpid] = "RECV"
    <2>1. CASE kpc'[currpid] = kpc[currpid] /\ kpc[currpid].at # "receive"
        BY <2>1
    <2>2. CASE kpc'[currpid].at = "receive" => prstate'[currpid] = "RECV"
        BY <2>2
    <2> QED
        BY <2>1, <2>2, Zenon DEF Calm
<1> QED
    BY <1>1, <1>2, Zenon DEF Undisturbed

LEMMA UndisturbedKeeps ==
    ASSUME ReceiverInv, Undisturbed
    PROVE  ReceiverInv'
<1> SUFFICES ASSUME NEW p \in Pid, kpc'[p].at = "receive"
             PROVE  prstate'[p] = "RECV" \/ (prstate'[p] \in Awake /\ prhasmsg'[p])
    BY DEF ReceiverInv
<1>1. CASE p = currpid
    BY <1>1, Zenon DEF ReceiverInv, Undisturbed
<1>2. CASE p # currpid
    <2>1. User.at # "receive"
        BY DEF User, Doing
    <2>2. kpc'[p] = kpc[p] /\ Kept(p)
        BY <1>2, <2>1, Zenon DEF Undisturbed
    <2>3. prstate[p] = "RECV" \/ (prstate[p] \in Awake /\ prhasmsg[p])
        BY <2>2 DEF ReceiverInv
    <2>4. prhasmsg[p] => prhasmsg'[p]
        BY <2>2 DEF Kept
    <2> QED
        BY <2>2, <2>3, <2>4 DEF Kept, Awake
<1> QED
    BY <1>1, <1>2

(* The ways to resched. *)
LEMMA SettledKept ==
    ASSUME IInv, Settled(prstate), UNCHANGED prhasmsg
    PROVE  OthersKept
<1>1. currpid \in Pid /\ prstate[currpid] = "CURR"
    BY DEF IInv, SchedOK, SomeoneToRun
<1>2. prstate'[currpid] # "FREE"
    BY <1>1 DEF Settled, Runnable
<1> QED
    BY <1>2 DEF Settled, OthersKept, Kept, Runnable, Awake

LEMMA SameKept ==
    ASSUME IInv, UNCHANGED <<prstate, prhasmsg>>
    PROVE  OthersKept
BY DEF OthersKept, Kept, IInv, SchedOK, SomeoneToRun

LEMMA ReadyKept ==
    ASSUME IInv, NEW p \in Pid, NEW key, DOMAIN key = Pid, Ready(p, key),
           prstate[p] \in {"WAIT", "SLEEP", "RECTIM", "SUSP"} \/ (prstate[p] = "RECV" /\ prhasmsg'[p]),
           \A q \in Pid : prhasmsg[q] => prhasmsg'[q]
    PROVE  OthersKept
<1>1. SchedOK /\ ndefers \in {0, 1}
    BY DEF IInv, ContextOK
<1>2. Settled([prstate EXCEPT ![p] = "READY"])
    BY <1>1, ReadyOK DEF Runnable
<1> DEFINE st == [prstate EXCEPT ![p] = "READY"]
<1>3. \A q \in Pid : st[q] = IF q = p THEN "READY" ELSE prstate[q]
    BY <1>1 DEF SchedOK
<1>4. Settled(st)
    BY <1>2
<1> HIDE DEF st
<1>8. prstate'[currpid] # "FREE"
    <2>1. currpid \in Pid /\ prstate[currpid] = "CURR"
        BY <1>1 DEF SchedOK, SomeoneToRun
    <2> QED
        BY <1>3, <1>4, <2>1 DEF Settled, Runnable
<1> SUFFICES ASSUME NEW q \in Pid PROVE Kept(q)
    BY <1>8 DEF OthersKept
<1>5. prhasmsg[q] => prhasmsg'[q]
    OBVIOUS
<1>6. CASE q = p
    <2>1. prstate'[q] \in Awake
        BY <1>3, <1>4, <1>6 DEF Settled, Runnable, Awake
    <2> QED
        BY <1>5, <1>6, <2>1 DEF Kept, Awake
<1>7. CASE q # p
    <2>1. prstate'[q] = prstate[q] \/ (prstate[q] \in Awake /\ prstate'[q] \in Awake)
        BY <1>3, <1>4, <1>7 DEF Settled, Runnable, Awake
    <2> QED
        BY <1>5, <2>1 DEF Kept
<1> QED
    BY <1>6, <1>7

LEMMA BlockKept ==
    ASSUME IInv, ndefers = 0, currpid # NULLPROC,
           NEW state \in States \ Runnable, state # "FREE",
           NEW key, DOMAIN key = Pid, Block(state, key), UNCHANGED prhasmsg
    PROVE  OthersKept /\ prstate'[currpid] = state
<1>1. SchedOK /\ currpid \in Pid
    BY DEF IInv, SchedOK
<1> DEFINE st == [prstate EXCEPT ![currpid] = state]
<1>2. Settled(st)
    BY <1>1, BlockOK
<1>3. \A q \in Pid : st[q] = IF q = currpid THEN state ELSE prstate[q]
    BY <1>1 DEF SchedOK
<1> HIDE DEF st
<1>4. prstate'[currpid] = state
    BY <1>1, <1>2, <1>3 DEF Settled, Runnable
<1>5. OthersKept
    BY <1>2, <1>3, <1>4 DEF Settled, Runnable, OthersKept, Kept, Awake
<1> QED
    BY <1>4, <1>5

LEMMA YieldKept ==
    ASSUME IInv, NEW key, DOMAIN key = Pid, attempt' \in BOOLEAN,
           \/ Resched(prstate, readylist, key)
           \/ \E slice \in 1..QUANTUM : Switch(prstate, readylist, key, slice)
           \/ EndSlice(key),
           UNCHANGED prhasmsg
    PROVE  OthersKept
<1>1. SchedOK /\ ndefers \in {0, 1}
    BY DEF IInv, ContextOK
<1>2. Handed(prstate, readylist, key) /\ prstate[currpid] = "CURR"
    BY <1>1, PidAssumption DEF Handed, SchedOK, SomeoneToRun, Runnable
<1>3. Settled(prstate)
    BY <1>1, <1>2, ReschedOK, SwitchOK, EndSliceOK
<1> QED
    BY <1>3, SettledKept

LEMMA DeferStopKept ==
    ASSUME IInv, DeferStop, UNCHANGED prhasmsg
    PROVE  OthersKept
<1>1. ndefers = 1
    BY SMT DEF IInv, ContextOK, DeferStop
<1> QED
    BY <1>1, DeferStopOK, SettledKept

LEMMA CallCalm ==
    ASSUME OthersKept, kpc[currpid].at # "receive", UNCHANGED kpc
    PROVE  Calm
BY DEF Calm

LEMMA GotoCalm ==
    ASSUME IInv, OthersKept, NEW pc, Goto(pc), kpc[currpid].at # "kill", pc.at # "kill",
           pc.at # "receive" \/ prstate'[currpid] = "RECV"
    PROVE  Calm
<1>1. \A q \in Pid : kpc'[q] = IF q = currpid THEN pc ELSE kpc[q]
    BY DEF Goto, IInv, ContextOK
<1>2. currpid \in Pid
    BY DEF IInv, SchedOK
<1> QED
    BY <1>1, <1>2 DEF Calm

LEMMA UserNotReceiving == ASSUME InUser PROVE kpc[currpid].at # "receive" /\ kpc[currpid].at # "kill"
BY DEF InUser, User, Doing

LEMMA VKept ==
    ASSUME IInv, NEW s \in Sem, \A t \in Sem : ~Resetting(t), V(s), UNCHANGED prhasmsg
    PROVE  OthersKept
<1>1. CASE UNCHANGED dispatchVars
    BY <1>1, SameKept DEF dispatchVars
<1>2. CASE scount[s] < 0 /\ Ready(Head(squeue[s]), qkey)
    <2>1. squeue[s] # <<>> /\ squeue[s] \in Seq(Pid) /\ IsInjective(squeue[s])
        <3>1. scount[s] \in Int /\ squeue[s] \in Seq(Pid) /\ IsInjective(squeue[s])
            BY DEF IInv, SemOK
        <3>2. Len(squeue[s]) + scount[s] = 0
            BY <1>2, <3>1 DEF IInv, CountMatchesQueue
        <3> QED
            BY <1>2, <3>1, <3>2
    <2>2. Head(squeue[s]) \in Pid /\ Head(squeue[s]) \in ToSet(squeue[s])
        BY <2>1, TailQueue
    <2>3. prstate[Head(squeue[s])] = "WAIT" /\ DOMAIN qkey = Pid
        BY <2>2 DEF IInv, SemOK, SchedOK
    <2> QED
        BY <1>2, <2>2, <2>3, ReadyKept
<1> QED
    BY <1>1, <1>2 DEF V

LEMMA SemaphoreCalm == ASSUME IInv, SemaphoreCall PROVE Calm
<1> PICK s \in Sem : \/ Wait(s) \/ Signal(s) \/ SemDelete(s)
                     \/ \E count \in Counts : SignalN(s, count) \/ SemCreate(s, count) \/ SemReset(s, count)
    BY DEF SemaphoreCall
<1>0. InUser
    BY DEF Wait, Signal, SemDelete, SignalN, SemCreate, SemReset, Calling
<1>1. kpc[currpid].at # "receive" /\ kpc[currpid].at # "kill" /\ ndefers = 0
    BY <1>0, UserNotReceiving, UserFacts DEF IInv
<1>2. CASE Wait(s)
    <2>1. kpc' = kpc /\ prhasmsg' = prhasmsg /\ currpid # NULLPROC /\ DOMAIN qkey = Pid
        BY <1>2 DEF Wait, Calling, IInv, SchedOK
    <2>2. CASE UNCHANGED dispatchVars
        BY <1>1, <2>1, <2>2, SameKept, CallCalm DEF dispatchVars
    <2>3. CASE Block("WAIT", qkey)
        <3>1. "WAIT" \in States \ Runnable
            BY DEF States, Runnable
        <3>2. OthersKept
            BY <1>1, <2>1, <2>3, <3>1, BlockKept
        <3> QED
            BY <1>1, <2>1, <3>2, CallCalm
    <2> QED
        BY <1>2, <2>2, <2>3 DEF Wait
<1>3. CASE Signal(s)
    <2>1. \A t \in Sem : ~Resetting(t)
        BY <1>0, UserFacts DEF IInv
    <2>2. V(s) /\ UNCHANGED <<prhasmsg, kpc>>
        BY <1>3 DEF Signal
    <2> QED
        BY <1>1, <2>1, <2>2, VKept, CallCalm
<1>4. CASE SemDelete(s)
    <2>1. /\ Goto(Doing("semdelete", s, 0)) /\ UNCHANGED <<prstate, prhasmsg>>
          /\ Doing("semdelete", s, 0).at \notin {"receive", "kill"}
        BY <1>4 DEF SemDelete, Doing
    <2> QED
        BY <1>1, <2>1, SameKept, GotoCalm
<1>5. CASE \E count \in Counts : SignalN(s, count)
    <2> PICK count \in Counts : SignalN(s, count)
        BY <1>5
    <2>1. /\ Goto(Doing("signaln", s, count)) /\ UNCHANGED <<prstate, prhasmsg>>
          /\ Doing("signaln", s, count).at \notin {"receive", "kill"}
        BY DEF SignalN, Doing
    <2> QED
        BY <1>1, <2>1, SameKept, GotoCalm
<1>6. CASE \E count \in Counts : SemReset(s, count)
    <2> PICK count \in Counts : SemReset(s, count)
        BY <1>6
    <2>1. /\ Goto(Doing("semreset", s, count)) /\ UNCHANGED <<prstate, prhasmsg>>
          /\ Doing("semreset", s, count).at \notin {"receive", "kill"}
        BY DEF SemReset, Doing
    <2> QED
        BY <1>1, <2>1, SameKept, GotoCalm
<1>7. CASE \E count \in Counts : SemCreate(s, count)
    BY <1>1, <1>7, SameKept, CallCalm DEF SemCreate, deferVars, dispatchVars
<1> QED
    BY <1>2, <1>3, <1>4, <1>5, <1>6, <1>7

LEMMA DeliverKept ==
    ASSUME IInv, NEW p \in Pid, Deliver(p)
    PROVE  OthersKept
<1>0. prhasmsg \in [Pid -> BOOLEAN] /\ DOMAIN qkey = Pid
    BY DEF IInv, FieldsOK, SchedOK
<1>1. CASE UNCHANGED <<prhasmsg, sleepq, dispatchVars>>
    BY <1>1, SameKept DEF dispatchVars
<1>2. CASE prhasmsg' = [prhasmsg EXCEPT ![p] = TRUE] /\ Wake(p)
    <2>1. prhasmsg'[p] /\ \A q \in Pid : prhasmsg[q] => prhasmsg'[q]
        BY <1>0, <1>2, Zenon
    <2>2. CASE prstate[p] = "RECV" /\ Ready(p, qkey)
        BY <1>0, <2>1, <2>2, ReadyKept
    <2>3. CASE prstate[p] = "RECTIM" /\ Ready(p, UnsleepKeys(sleepq, p, qkey))
        <3>1. DOMAIN UnsleepKeys(sleepq, p, qkey) = Pid
            BY <1>0, DeltaKeysDomain
        <3> QED
            BY <2>1, <2>3, <3>1, ReadyKept
    <2>4. CASE UNCHANGED dispatchVars
        BY <2>1, <2>4 DEF dispatchVars, OthersKept, Kept, IInv, SchedOK, SomeoneToRun
    <2> QED
        BY <1>2, <2>2, <2>3, <2>4 DEF Wake
<1> QED
    BY <1>1, <1>2 DEF Deliver

LEMMA MessageCalm == ASSUME IInv, MessageCall PROVE Calm
<1>0. InUser /\ currpid \in Pid /\ DOMAIN qkey = Pid /\ prhasmsg \in [Pid -> BOOLEAN]
    BY DEF MessageCall, Send, Receive, RecvClr, RecvTime, Calling, IInv, SchedOK, FieldsOK
<1>1. kpc[currpid].at # "receive" /\ kpc[currpid].at # "kill" /\ ndefers = 0
    BY <1>0, UserNotReceiving, UserFacts DEF IInv
<1>2. CASE \E p \in Pid : Send(p)
    BY <1>1, <1>2, DeliverKept, CallCalm DEF Send
<1>a. ASSUME prhasmsg' = [prhasmsg EXCEPT ![currpid] = FALSE], UNCHANGED <<prstate, kpc>>
      PROVE  Calm
    <2>1. OthersKept
        BY <1>0, <1>a DEF OthersKept, Kept, IInv, SchedOK, SomeoneToRun
    <2> QED
        BY <1>1, <1>a, <2>1, CallCalm
<1>3. CASE Receive
    <2>1. currpid # NULLPROC
        BY <1>3 DEF Receive, Calling
    <2>2. CASE prhasmsg' = [prhasmsg EXCEPT ![currpid] = FALSE] /\ UNCHANGED <<dispatchVars, kpc>>
        BY <1>a, <2>2 DEF dispatchVars
    <2>3. CASE Block("RECV", qkey) /\ Goto(Doing("receive", None, 0)) /\ UNCHANGED prhasmsg
        <3>1. "RECV" \in States \ Runnable
            BY DEF States, Runnable
        <3>2. OthersKept /\ prstate'[currpid] = "RECV"
            BY <1>0, <1>1, <2>1, <2>3, <3>1, BlockKept
        <3> QED
            BY <1>1, <2>3, <3>2, GotoCalm DEF Doing
    <2> QED
        BY <1>3, <2>2, <2>3 DEF Receive
<1>4. CASE RecvClr
    BY <1>a, <1>4 DEF RecvClr, deferVars, dispatchVars
<1>5. CASE \E maxwait \in Timeouts : RecvTime(maxwait)
    <2> PICK maxwait \in Timeouts : RecvTime(maxwait)
        BY <1>5
    <2>1. currpid # NULLPROC
        BY DEF RecvTime, Calling
    <2>2. CASE prhasmsg' = [prhasmsg EXCEPT ![currpid] = FALSE] /\ UNCHANGED <<dispatchVars, kpc>>
        BY <1>a, <2>2 DEF dispatchVars
    <2>3. CASE /\ Block("RECTIM", InsertDeltaKeys(sleepq, currpid, maxwait, qkey))
               /\ Goto(Doing("recvtime", None, 0)) /\ UNCHANGED prhasmsg
        <3> DEFINE key == InsertDeltaKeys(sleepq, currpid, maxwait, qkey)
        <3>1. DOMAIN key = Pid /\ Block("RECTIM", key)
            BY <1>0, <2>3, DeltaKeysDomain
        <3>2. "RECTIM" \in States \ Runnable /\ Doing("recvtime", None, 0).at \notin {"receive", "kill"}
            BY DEF States, Runnable, Doing
        <3> HIDE DEF key
        <3>3. OthersKept
            BY <1>1, <2>1, <2>3, <3>1, <3>2, BlockKept
        <3> QED
            BY <1>1, <2>3, <3>2, <3>3, GotoCalm
    <2> QED
        BY <2>2, <2>3 DEF RecvTime
<1> QED
    BY <1>2, <1>3, <1>4, <1>5 DEF MessageCall

LEMMA CreateUndisturbed ==
    ASSUME IInv, NEW p \in Pid, NEW prio \in Prios, Create(p, prio)
    PROVE  Undisturbed
<1>1. /\ InUser /\ prstate[p] = "FREE" /\ kpc' = [kpc EXCEPT ![p] = User]
      /\ prstate' = [prstate EXCEPT ![p] = "SUSP"]
      /\ prhasmsg' = [prhasmsg EXCEPT ![p] = FALSE]
    BY DEF Create, Calling
<1>2. /\ p # currpid /\ currpid \in Pid
      /\ \A q \in Pid : kpc'[q] = IF q = p THEN User ELSE kpc[q]
      /\ \A q \in Pid : q # p => prstate'[q] = prstate[q]
    BY <1>1 DEF IInv, SchedOK, SomeoneToRun, ContextOK
<1>3. \A q \in Pid : q # p => prhasmsg'[q] = prhasmsg[q]
    BY <1>1 DEF IInv, FieldsOK
<1>4. kpc'[currpid].at # "receive"
    BY <1>1, <1>2, UserNotReceiving
<1> QED
    BY <1>2, <1>3, <1>4, Zenon DEF Undisturbed, Kept

LEMMA ProcessCalm ==
    ASSUME IInv, ProcessCall
    PROVE  \/ Calm
           \/ \E p \in Pid : Kill(p) \/ \E prio \in Prios : Create(p, prio)
<1>0. InUser
    BY DEF ProcessCall, Kill, Suspend, Resume, Create, ChPrio, Yield, SleepMs, Calling
<1>1. kpc[currpid].at # "receive" /\ kpc[currpid].at # "kill" /\ ndefers = 0 /\ DOMAIN qkey = Pid /\ prstate \in [Pid -> States]
    BY <1>0, UserNotReceiving, UserFacts DEF IInv, SchedOK
<1>3. CASE \E p \in Pid : Suspend(p)
    <2> PICK p \in Pid : Suspend(p)
        BY <1>3
    <2>1. currpid # NULLPROC /\ UNCHANGED <<prhasmsg, kpc>>
        BY DEF Suspend, Calling
    <2>2. CASE /\ prstate[p] = "READY"
               /\ Stay([prstate EXCEPT ![p] = "SUSP"], GetItem(readylist, p), qkey, preempt)
        <3>1. prstate' = [prstate EXCEPT ![p] = "SUSP"]
            BY <2>2 DEF Stay
        <3>2. OthersKept
            BY <1>1, <2>1, <2>2, <3>1 DEF OthersKept, Kept, Awake, IInv, SchedOK, SomeoneToRun
        <3> QED
            BY <1>1, <2>1, <3>2, CallCalm
    <2>3. CASE Block("SUSP", qkey)
        <3>1. "SUSP" \in States \ Runnable
            BY DEF States, Runnable
        <3>2. OthersKept
            BY <1>1, <2>1, <2>3, <3>1, BlockKept
        <3> QED
            BY <1>1, <2>1, <3>2, CallCalm
    <2> QED
        BY <2>2, <2>3 DEF Suspend
<1>4. CASE \E p \in Pid : Resume(p)
    <2> PICK p \in Pid : Resume(p)
        BY <1>4
    <2>1. prstate[p] = "SUSP" /\ Ready(p, qkey) /\ UNCHANGED <<prhasmsg, kpc>>
        BY DEF Resume
    <2> QED
        BY <1>1, <2>1, ReadyKept, CallCalm
<1>6. CASE \E p \in Pid : \E prio \in NewPrios : ChPrio(p, prio)
    BY <1>1, <1>6, SameKept, CallCalm DEF ChPrio, deferVars, dispatchVars
<1>7. CASE Yield
    <2>1. Resched(prstate, readylist, qkey) /\ UNCHANGED <<prhasmsg, kpc>>
        BY <1>7 DEF Yield
    <2>2. attempt' \in BOOLEAN
        BY <2>1 DEF Resched, IInv, SchedOK
    <2> QED
        BY <1>1, <2>1, <2>2, YieldKept, CallCalm
<1>8. CASE \E delay \in Delays : SleepMs(delay)
    <2> PICK delay \in Delays : SleepMs(delay)
        BY <1>8
    <2>1. currpid # NULLPROC /\ UNCHANGED <<prhasmsg, kpc>>
        BY DEF SleepMs, Calling
    <2>2. CASE Resched(prstate, readylist, qkey)
        <3>1. attempt' \in BOOLEAN
            BY <2>2 DEF Resched, IInv, SchedOK
        <3> QED
            BY <1>1, <2>1, <2>2, <3>1, YieldKept, CallCalm
    <2>3. CASE Block("SLEEP", InsertDeltaKeys(sleepq, currpid, delay, qkey))
        <3> DEFINE key == InsertDeltaKeys(sleepq, currpid, delay, qkey)
        <3>1. DOMAIN key = Pid /\ Block("SLEEP", key)
            BY <1>1, <2>3, DeltaKeysDomain
        <3>2. "SLEEP" \in States \ Runnable
            BY DEF States, Runnable
        <3> HIDE DEF key
        <3>3. OthersKept
            BY <1>1, <2>1, <3>1, <3>2, BlockKept
        <3> QED
            BY <1>1, <2>1, <3>3, CallCalm
    <2> QED
        BY <2>2, <2>3 DEF SleepMs
<1> QED
    BY <1>3, <1>4, <1>6, <1>7, <1>8 DEF ProcessCall

(* The first half of kill is a send, unless it ends everything. *)
LEMMA KillEffect ==
    ASSUME IInv, NEW p \in Pid, Kill(p)
    PROVE  OthersKept /\ \A q \in Pid \ {currpid} : kpc'[q] = kpc[q]
<1>1. CASE UNCHANGED <<dispatchVars, prhasmsg, kpc>>
    BY <1>1, SameKept DEF dispatchVars
<1>2. CASE Deliver(prparent[p]) /\ Goto(Doing("kill", p, 0))
    <2>1. prparent[p] \in Pid
        BY DEF IInv, FieldsOK
    <2>2. OthersKept
        BY <1>2, <2>1, DeliverKept
    <2>3. \A q \in Pid \ {currpid} : kpc'[q] = kpc[q]
        BY <1>2 DEF Goto, IInv, ContextOK
    <2> QED
        BY <2>2, <2>3
<1> QED
    BY <1>1, <1>2 DEF Kill

LEMMA KillUndisturbed == ASSUME IInv, NEW p \in Pid, Kill(p) PROVE Undisturbed
<1>1. InUser /\ currpid \in Pid
    BY DEF Kill, Calling, IInv, SchedOK
<1>2. kpc[currpid].at # "receive"
    BY <1>1, UserNotReceiving
<1>3. kpc'[currpid].at # "receive"
    <2>1. CASE UNCHANGED kpc
        BY <1>2, <2>1
    <2>2. CASE Goto(Doing("kill", p, 0))
        BY <1>1, <2>2 DEF Goto, Doing, IInv, ContextOK
    <2> QED
        BY <2>1, <2>2 DEF Kill
<1> QED
    BY <1>3, KillEffect, Zenon DEF Undisturbed, OthersKept

LEMMA ClockCalm == ASSUME IInv, ClkHandler PROVE Calm
<1>1. InUser /\ prhasmsg' = prhasmsg /\ attempt \in BOOLEAN
    BY DEF ClkHandler, IInv, SchedOK
<1>2. CASE Goto(Doing("wakeup", None, 0)) /\ UNCHANGED prstate
    <2>1. Doing("wakeup", None, 0).at \notin {"receive", "kill"}
        BY DEF Doing
    <2> QED
        BY <1>1, <1>2, <2>1, SameKept, UserNotReceiving, GotoCalm
<1>3. CASE EndSlice(TickKeys) /\ UNCHANGED <<attempt, kpc>>
    <2>1. DOMAIN TickKeys = Pid
        BY TickAgrees DEF KeysAgree
    <2>2. OthersKept
        BY <1>1, <1>3, <2>1, YieldKept
    <2> QED
        BY <1>1, <1>3, <2>2, UserNotReceiving, CallCalm
<1> QED
    BY <1>2, <1>3 DEF ClkHandler

(* The scheduler chose who runs among those who could, and nothing else. *)
Scheduled(q) ==
    prstate'[q] = prstate[q] \/ (prstate[q] \in Runnable /\ prstate'[q] \in Runnable)

(* A kill ends: its victim is free, and nobody else is stopped or started. *)
LEMMA KillDoneStates ==
    ASSUME IInv, KillDone, NEW p, p = kpc[currpid].x
    PROVE  /\ p \in Pid \ {NULLPROC} /\ prstate'[p] = "FREE"
           /\ \A q \in Pid : q # p => Scheduled(q)
           /\ \A q \in Pid : kpc'[q] = IF q = p \/ q = currpid THEN User ELSE kpc[q]
<1>1. /\ At("kill") /\ currpid \in Pid /\ ContextOK /\ SchedOK /\ Discard(p)
      /\ attempt' = attempt
    BY DEF KillDone, IInv, SchedOK
<1>2. p \in Pid \ {NULLPROC}
    BY <1>1 DEF ContextOK, Arguments, At
<1>3. KillCurrent(p) \/ KillSleeper(p) \/ KillWaiter(p) \/ KillReady(p) \/ KillOther(p)
    BY DEF KillDone
<1>4. \A q \in Pid : kpc'[q] = IF q = p \/ q = currpid THEN User ELSE kpc[q]
    BY <1>1, <1>2 DEF ContextOK, Discard
<1> DEFINE st == Free(p)
<1>5. st \in [Pid -> States] /\ \A q \in Pid : st[q] = IF q = p THEN "FREE" ELSE prstate[q]
    BY <1>1, <1>2 DEF Free, SchedOK, States
<1>6. Settled(st)
    <2>1. CASE KillCurrent(p)
        <3>1. p = currpid /\ Switch(st, readylist, qkey, preempt)
            BY <1>1, <1>2, <2>1 DEF KillCurrent, SchedOK, SomeoneToRun
        <3> HIDE DEF st
        <3>2. Handed(st, readylist, qkey)
            BY <1>1, <1>2, <1>5, <3>1, PidAssumption DEF Handed, SchedOK, SomeoneToRun, Runnable
        <3>3. preempt \in 1..QUANTUM /\ attempt' \in BOOLEAN
            BY <1>1 DEF SchedOK
        <3> QED
            BY <3>1, <3>2, <3>3, SwitchOK
    <2>2. CASE KillSleeper(p) \/ KillWaiter(p) \/ KillReady(p) \/ KillOther(p)
        <3>1. prstate' = st
            BY <2>2 DEF KillSleeper, KillWaiter, KillReady, KillOther, Stay
        <3> HIDE DEF st
        <3> QED
            BY <3>1 DEF Settled
    <2> QED
        BY <1>3, <2>1, <2>2
<1> HIDE DEF st
<1> QED
    BY <1>2, <1>4, <1>5, <1>6 DEF Settled, Scheduled, Runnable

LEMMA KillDoneUndisturbed == ASSUME IInv, KillDone PROVE Undisturbed
<1> DEFINE p == kpc[currpid].x
<1>1. prhasmsg' = prhasmsg /\ currpid \in Pid
    BY DEF KillDone, IInv, SchedOK
<1>2. /\ \A q \in Pid : q # p => Scheduled(q)
      /\ \A q \in Pid : kpc'[q] = IF q = p \/ q = currpid THEN User ELSE kpc[q]
    BY KillDoneStates
<1> HIDE DEF p
<1>3. \A q \in Pid : q # p /\ q # currpid => Kept(q)
    BY <1>1, <1>2 DEF Scheduled, Runnable, Kept, Awake
<1>4. User.at # "receive"
    BY DEF User, Doing
<1>5. \A q \in Pid \ {currpid} : kpc'[q] = User \/ (kpc'[q] = kpc[q] /\ Kept(q))
    BY <1>2, <1>3
<1> QED
    BY <1>1, <1>2, <1>4, <1>5 DEF Undisturbed

LEMMA StepCalm == ASSUME IInv, KernelStep PROVE Calm \/ KillDone
<1>0. currpid \in Pid /\ ContextOK /\ DOMAIN qkey = Pid /\ prhasmsg \in [Pid -> BOOLEAN] /\ attempt \in BOOLEAN
    BY DEF IInv, SchedOK, FieldsOK
<1>u. User.at # "receive" /\ User.at # "kill"
    BY DEF User, Doing
<1>1. CASE SignalNLoop
    <2> DEFINE s == kpc[currpid].x
    <2>1. /\ At("signaln") /\ V(s) /\ prhasmsg' = prhasmsg
          /\ Goto(Doing("signaln", s, kpc[currpid].n - 1))
          /\ "signaln" \in Loops /\ "signaln" \in SemLoops
        BY <1>1 DEF SignalNLoop, Loops, SemLoops
    <2>2. s \in Sem /\ \A t \in Sem : ~Resetting(t)
        BY <1>0, <2>1, LoopFacts
    <2> HIDE DEF s
    <2>3. Doing("signaln", s, kpc[currpid].n - 1).at \notin {"receive", "kill"} /\ OthersKept
        BY <2>1, <2>2, VKept DEF Doing
    <2> QED
        BY <2>1, <2>3, GotoCalm DEF At
<1>2. CASE SemDeleteLoop
    <2> DEFINE s == kpc[currpid].x
    <2>1. /\ At("semdelete") /\ V(s) /\ UNCHANGED <<prhasmsg, kpc>>
          /\ "semdelete" \in Loops /\ "semdelete" \in SemLoops
        BY <1>2 DEF SemDeleteLoop, Loops, SemLoops
    <2>2. s \in Sem /\ \A t \in Sem : ~Resetting(t)
        BY <1>0, <2>1, LoopFacts
    <2> HIDE DEF s
    <2> QED
        BY <2>1, <2>2, VKept, CallCalm DEF At
<1>3. CASE SemResetLoop
    <2> DEFINE s == kpc[currpid].x
    <2>1. /\ At("semreset") /\ squeue[s] # <<>> /\ Ready(Head(squeue[s]), qkey)
          /\ UNCHANGED <<prhasmsg, kpc>> /\ "semreset" \in Loops /\ "semreset" \in SemLoops
        BY <1>3 DEF SemResetLoop, Loops, SemLoops
    <2>2. s \in Sem
        BY <1>0, <2>1, LoopFacts
    <2> HIDE DEF s
    <2>3. Head(squeue[s]) \in Pid /\ prstate[Head(squeue[s])] = "WAIT"
        <3>1. squeue[s] \in Seq(Pid) /\ IsInjective(squeue[s])
            BY <2>2 DEF IInv, SemOK
        <3>2. Head(squeue[s]) \in Pid /\ Head(squeue[s]) \in ToSet(squeue[s])
            BY <2>1, <3>1, TailQueue
        <3> QED
            BY <2>2, <3>2 DEF IInv, SemOK
    <2>4. OthersKept
        BY <1>0, <2>1, <2>3, ReadyKept
    <2> QED
        BY <2>1, <2>4, CallCalm DEF At
<1>4. CASE SignalNEnd \/ SemDeleteEnd \/ SemResetEnd
    <2>1. DeferStop /\ Goto(User) /\ prhasmsg' = prhasmsg
        BY <1>4 DEF SignalNEnd, SemDeleteEnd, SemResetEnd, Return
    <2> QED
        BY <1>4, <1>u, <2>1, DeferStopKept, GotoCalm DEF SignalNEnd, SemDeleteEnd, SemResetEnd, At
<1>5. CASE WakeupEnd
    <2>1. DeferStop /\ Goto(Doing("clk", None, 0)) /\ prhasmsg' = prhasmsg /\ Doing("clk", None, 0).at \notin {"receive", "kill"}
        BY <1>5 DEF WakeupEnd, Doing
    <2> QED
        BY <1>5, <2>1, DeferStopKept, GotoCalm DEF WakeupEnd, At
<1>6. CASE ReceiveDone \/ RecvTimeDone
    <2>1. prhasmsg' = [prhasmsg EXCEPT ![currpid] = FALSE] /\ Goto(User) /\ UNCHANGED prstate
        BY <1>6 DEF ReceiveDone, RecvTimeDone, Return, deferVars, dispatchVars
    <2>2. OthersKept
        BY <1>0, <2>1 DEF OthersKept, Kept, IInv, SchedOK, SomeoneToRun
    <2> QED
        BY <1>6, <1>u, <2>1, <2>2, GotoCalm DEF ReceiveDone, RecvTimeDone, At
<1>8. CASE Wakeup
    <2>1. At("wakeup") /\ sleepq # <<>> /\ Ready(Head(sleepq), qkey) /\ UNCHANGED <<prhasmsg, kpc>>
        BY <1>8 DEF Wakeup, Expired
    <2>2. Head(sleepq) \in Pid /\ prstate[Head(sleepq)] \in {"SLEEP", "RECTIM"}
        BY <2>1, TailQueue DEF IInv, SleepOK
    <2>3. OthersKept
        BY <1>0, <2>1, <2>2, ReadyKept
    <2> QED
        BY <2>1, <2>3, CallCalm DEF At
<1>9. CASE ClkHandlerEnd
    <2>1. EndSlice(qkey) /\ Goto(User) /\ UNCHANGED <<prhasmsg, attempt>>
        BY <1>9 DEF ClkHandlerEnd, Return
    <2> QED
        BY <1>0, <1>9, <1>u, <2>1, YieldKept, GotoCalm DEF ClkHandlerEnd, At
<1> QED
    BY <1>1, <1>2, <1>3, <1>4, <1>5, <1>6, <1>8, <1>9 DEF KernelStep

LEMMA NextUndisturbed == ASSUME IInv, [Next]_vars PROVE Undisturbed
<1>1. CASE UNCHANGED vars
    BY <1>1 DEF vars, deferVars, dispatchVars, Undisturbed, Kept
<1>2. CASE Halted
    BY <1>1, <1>2 DEF Halted
<1> QED
    BY <1>1, <1>2, SemaphoreCalm, MessageCalm, ProcessCalm, ClockCalm, StepCalm, CalmUndisturbed,
       CreateUndisturbed, KillUndisturbed, KillDoneUndisturbed
    DEF Next

LEMMA InitReceiver == Init => ReceiverInv
BY DEF Init, ReceiverInv, User, Doing

(* A process in the middle of receive waits for its message or has it, so that
   one that gets the processor back there, also after it was suspended and
   resumed, never takes a message that is not there. *)
THEOREM ReceiversServed == Spec => []ReceiveHasMessage
<1>1. Init => ReceiverInv
    BY InitReceiver
<1>2. IInv /\ ReceiverInv /\ [Next]_vars => ReceiverInv'
    BY NextUndisturbed, UndisturbedKeeps
<1>3. ReceiverInv => ReceiveHasMessage
    BY Zenon DEF ReceiverInv, ReceiveHasMessage, Awake
<1> QED
    BY <1>1, <1>2, <1>3, Invariant, PTL DEF Spec

(* Whoever gets the processor has the highest priority of those ready, again
   where no process calls chprio: a switch is never made with rescheduling
   deferred, where the choice would not be looked at again. *)
THEOREM DispatchesBest ==
    ASSUME "chprio" \notin Calls PROVE Spec => DispatchesHighest
<1>1. IInv /\ IInv' /\ PriorityInv' /\ [Next]_vars
        => [currpid' # currpid => \A p \in ToSet(readylist') : prprio'[p] <= prprio'[currpid']]_vars
    <2> SUFFICES ASSUME IInv, IInv', PriorityInv', [Next]_vars, currpid' # currpid
                 PROVE  \A p \in ToSet(readylist') : prprio'[p] <= prprio'[currpid']
        OBVIOUS
    <2>1. currpid' \in Pid /\ Undisturbed
        BY NextUndisturbed DEF IInv, SchedOK
    <2>2. kpc'[currpid'] = User \/ kpc'[currpid'] = kpc[currpid']
        BY <2>1, Zenon DEF Undisturbed
    <2>3. kpc[currpid'].at \notin Loops /\ User.at \notin Loops
        BY <2>1 DEF IInv, ContextOK, DeferredOnlyInLoops, User, Doing, Loops, SemLoops
    <2>4. ndefers' # 1
        BY <2>2, <2>3 DEF IInv, ContextOK, DeferredOnlyInLoops
    <2> QED
        BY <2>4 DEF PriorityInv, Highest
<1> QED
    BY <1>1, Invariant, PriorityInvariant, PTL DEF Spec, DispatchesHighest
-----------------------------------------------------------------------------
(* prcount, where kills do not overlap.  The one that is under way, if any, has
   counted its victim out already and has yet to free it. *)
Ending == IF Killers = {} THEN 0 ELSE 1
Stopped == IF halted THEN 1 ELSE 0

LiveInv ==
    /\ IsFiniteSet(Live)
    /\ prcount + Ending + Stopped = Cardinality(Live)
    /\ \A p \in Killers : \A q \in Killers : p = q
    /\ \A p \in Killers : prstate[p] # "FREE" /\ prstate[kpc[p].x] # "FREE"

LEMMA KeptLive ==
    ASSUME IInv, OthersKept
    PROVE  Live' = Live
<1>1. \A p \in Pid : prstate'[p] = "FREE" <=> prstate[p] = "FREE"
    BY DEF OthersKept, Kept, Awake, IInv, SchedOK, SomeoneToRun
<1> QED
    BY <1>1 DEF Live

LEMMA CalmLive ==
    ASSUME IInv, LiveInv, Calm, UNCHANGED <<prcount, halted>>
    PROVE  LiveInv'
<1>1. Live' = Live
    BY KeptLive DEF Calm
<1>2. /\ \A q \in Pid \ {currpid} : kpc'[q] = kpc[q]
      /\ \/ kpc'[currpid] = kpc[currpid]
         \/ kpc[currpid].at # "kill" /\ kpc'[currpid].at # "kill"
    BY DEF Calm
<1>3. \A p \in Pid : /\ kpc'[p].at = "kill" <=> kpc[p].at = "kill"
                     /\ kpc[p].at = "kill" => kpc'[p] = kpc[p]
    BY <1>2
<1>4. Killers' = Killers /\ \A p \in Killers : kpc'[p] = kpc[p] /\ kpc[p].x \in Pid
    BY <1>3 DEF Killers, IInv, ContextOK, Arguments
<1>5. \A p \in Killers' : prstate'[p] # "FREE" /\ prstate'[kpc'[p].x] # "FREE"
    <2>1. \A p \in Killers : p \in Live /\ kpc[p].x \in Live
        BY <1>4 DEF LiveInv, Live, Killers
    <2> QED
        BY <1>1, <1>4, <2>1 DEF Live
<1>6. Ending' = Ending /\ Stopped' = Stopped
    BY <1>4 DEF Ending, Stopped
<1>7. \A p \in Killers' : \A q \in Killers' : p = q
    BY <1>4 DEF LiveInv
<1> QED
    BY <1>1, <1>5, <1>6, <1>7 DEF LiveInv

LEMMA KillLive ==
    ASSUME SerialKills, IInv, LiveInv, NEW p \in Pid, Kill(p)
    PROVE  LiveInv'
<1>1. /\ Killers = {} /\ ~halted /\ prcount' = prcount - 1 /\ p # NULLPROC /\ prstate[p] # "FREE"
      /\ currpid \in Pid /\ prcount \in Int
    BY DEF Kill, Calling, InUser, IInv, SchedOK, FieldsOK
<1>2. OthersKept /\ \A q \in Pid \ {currpid} : kpc'[q] = kpc[q]
    BY KillEffect
<1>3. Live' = Live /\ IsFiniteSet(Live) /\ prcount = Cardinality(Live)
    BY <1>1, <1>2, KeptLive DEF LiveInv, Ending, Stopped
<1>4. CASE halted' = TRUE /\ UNCHANGED kpc
    <2>1. Killers' = {}
        BY <1>1, <1>4 DEF Killers
    <2> QED
        BY <1>1, <1>3, <1>4, <2>1 DEF LiveInv, Ending, Stopped
<1>5. CASE halted' = halted /\ Goto(Doing("kill", p, 0))
    <2>1. kpc'[currpid] = Doing("kill", p, 0)
        BY <1>1, <1>5 DEF Goto, IInv, ContextOK
    <2>2. Killers' = {currpid} /\ kpc'[currpid].x = p
        BY <1>1, <1>2, <2>1 DEF Killers, Doing
    <2>3. prstate'[p] # "FREE" /\ prstate'[currpid] # "FREE"
        BY <1>1, <1>2, <1>3 DEF Live, OthersKept
    <2>4. Ending' = 1 /\ Stopped' = 0
        BY <1>1, <1>5, <2>2 DEF Ending, Stopped
    <2> QED
        BY <1>1, <1>3, <2>2, <2>3, <2>4 DEF LiveInv
<1> QED
    BY <1>4, <1>5 DEF Kill

LEMMA KillDoneLive ==
    ASSUME IInv, LiveInv, KillDone
    PROVE  LiveInv'
<1> DEFINE p == kpc[currpid].x
<1>1. /\ kpc[currpid].at = "kill" /\ currpid \in Pid
      /\ UNCHANGED <<prcount, halted>> /\ prcount \in Int
    BY DEF KillDone, At, procVars, IInv, SchedOK, FieldsOK
<1>2. /\ p \in Pid \ {NULLPROC} /\ prstate'[p] = "FREE"
      /\ \A q \in Pid : q # p => Scheduled(q)
      /\ \A q \in Pid : kpc'[q] = IF q = p \/ q = currpid THEN User ELSE kpc[q]
    BY KillDoneStates
<1>4. Killers = {currpid} /\ prstate[p] # "FREE"
    BY <1>1 DEF LiveInv, Killers
<1> HIDE DEF p
<1>5. Killers' = {}
    BY <1>2, <1>4 DEF Killers, User, Doing
<1>6. \A q \in Pid : prstate'[q] = "FREE" <=> q = p \/ prstate[q] = "FREE"
    BY <1>2 DEF Scheduled, Runnable
<1>7. Live' = Live \ {p} /\ p \in Live
    BY <1>2, <1>4, <1>6 DEF Live
<1>8. IsFiniteSet(Live') /\ Cardinality(Live') = Cardinality(Live) - 1
    BY <1>7, FS_RemoveElement DEF LiveInv
<1>9. Ending = 1 /\ Ending' = 0 /\ Stopped' = Stopped /\ Stopped \in {0, 1}
    BY <1>1, <1>4, <1>5 DEF Ending, Stopped
<1>10. Cardinality(Live) = prcount + 1 + Stopped
    BY <1>9 DEF LiveInv
<1>11. prcount' + Ending' + Stopped' = Cardinality(Live')
    BY <1>1, <1>8, <1>9, <1>10
<1> QED
    BY <1>5, <1>8, <1>11 DEF LiveInv

LEMMA CreateLive ==
    ASSUME IInv, LiveInv, NEW p \in Pid, NEW prio \in Prios, Create(p, prio)
    PROVE  LiveInv'
<1>1. /\ InUser /\ prstate[p] = "FREE" /\ kpc' = [kpc EXCEPT ![p] = User]
      /\ prstate' = [prstate EXCEPT ![p] = "SUSP"] /\ prcount' = prcount + 1
      /\ halted' = halted /\ prcount \in Int
    BY DEF Create, Calling, IInv, FieldsOK
<1>2. /\ \A q \in Pid : kpc'[q] = IF q = p THEN User ELSE kpc[q]
      /\ \A q \in Pid : prstate'[q] = IF q = p THEN "SUSP" ELSE prstate[q]
    BY <1>1 DEF IInv, SchedOK, ContextOK
<1>3. Live' = Live \cup {p} /\ p \notin Live
    BY <1>1, <1>2 DEF Live
<1>4. IsFiniteSet(Live') /\ Cardinality(Live') = Cardinality(Live) + 1
    BY <1>3, FS_AddElement DEF LiveInv
<1>5. Killers' = Killers
    BY <1>1, <1>2 DEF LiveInv, Killers, User, Doing
<1>6. \A q \in Killers : kpc'[q] = kpc[q] /\ prstate'[q] # "FREE" /\ prstate'[kpc[q].x] # "FREE"
    <2> SUFFICES ASSUME NEW q \in Killers
                 PROVE  kpc'[q] = kpc[q] /\ prstate'[q] # "FREE" /\ prstate'[kpc[q].x] # "FREE"
        OBVIOUS
    <2>1. q \in Pid /\ kpc[q].x \in Pid /\ prstate[q] # "FREE" /\ prstate[kpc[q].x] # "FREE"
        BY DEF LiveInv, Killers, IInv, ContextOK, Arguments
    <2> QED
        BY <1>1, <1>2, <2>1
<1>7. Ending' = Ending /\ Stopped' = Stopped /\ Ending \in {0, 1} /\ Stopped \in {0, 1}
    BY <1>1, <1>5 DEF Ending, Stopped
<1>8. prcount + Ending + Stopped = Cardinality(Live)
    BY DEF LiveInv
<1>9. prcount' + Ending' + Stopped' = Cardinality(Live')
    BY <1>1, <1>4, <1>7, <1>8
<1> QED
    BY <1>4, <1>5, <1>6, <1>9 DEF LiveInv

Counting == \E p \in Pid : Kill(p) \/ \E prio \in Prios : Create(p, prio)

LEMMA ProcessesKept ==
    ASSUME [Next]_vars, ~Counting
    PROVE  prcount' = prcount /\ halted' = halted
<1>1. CASE SemaphoreCall
    BY <1>1 DEF SemaphoreCall, Wait, Signal, SemDelete, SignalN, SemCreate, SemReset, procVars
<1>2. CASE MessageCall
    BY <1>2 DEF MessageCall, Send, Receive, RecvClr, RecvTime, procVars
<1>3. CASE ProcessCall
    <2>1. \/ \E p \in Pid : Suspend(p) \/ Resume(p) \/ \E prio \in NewPrios : ChPrio(p, prio)
          \/ Yield \/ \E delay \in Delays : SleepMs(delay)
        BY <1>3, Zenon DEF ProcessCall, Counting
    <2> QED
        BY <2>1 DEF Suspend, Resume, ChPrio, Yield, SleepMs, procVars
<1>4. CASE ClkHandler
    BY <1>4 DEF ClkHandler, procVars
<1>5. CASE KernelStep
    BY <1>5 DEF KernelStep, SignalNLoop, SignalNEnd, SemDeleteLoop, SemDeleteEnd, SemResetLoop,
       SemResetEnd, ReceiveDone, RecvTimeDone, KillDone, Wakeup, WakeupEnd, ClkHandlerEnd, procVars
<1>6. CASE Halted \/ UNCHANGED vars
    BY <1>6 DEF Halted, vars, procVars
<1> QED
    BY <1>1, <1>2, <1>3, <1>4, <1>5, <1>6, Zenon DEF Next

LEMMA NextLive ==
    ASSUME SerialKills, IInv, LiveInv, [Next]_vars
    PROVE  LiveInv'
<1>1. CASE Counting
    BY <1>1, KillLive, CreateLive DEF Counting
<1>2. CASE ~Counting
    <2>1. UNCHANGED <<prcount, halted>>
        BY <1>2, ProcessesKept
    <2>2. CASE Calm
        BY <2>1, <2>2, CalmLive
    <2>3. CASE KillDone
        BY <2>3, KillDoneLive
    <2>4. CASE Halted \/ UNCHANGED vars
        <3>1. UNCHANGED <<prcount, halted, prstate, kpc>>
            BY <2>4 DEF Halted, vars, procVars, deferVars, dispatchVars
        <3> QED
            BY <3>1 DEF LiveInv, Live, Killers, Ending, Stopped
    <2> QED
        BY <1>2, <2>2, <2>3, <2>4, SemaphoreCalm, MessageCalm, ProcessCalm, ClockCalm, StepCalm DEF Next, Counting
<1> QED
    BY <1>1, <1>2

LEMMA InitLive == Init => LiveInv
<1> SUFFICES ASSUME NEW startup \in Pid \ {NULLPROC},
                    prstate = [p \in Pid |-> CASE p = startup  -> "CURR"
                                                [] p = NULLPROC -> "READY"
                                                [] OTHER        -> "FREE"],
                    kpc = [p \in Pid |-> User], prcount = 2, halted = FALSE
             PROVE  LiveInv
    BY DEF Init
<1>1. Live = {startup, NULLPROC}
    <2>1. \A p \in Pid : prstate[p] = IF p = startup THEN "CURR"
                                      ELSE IF p = NULLPROC THEN "READY" ELSE "FREE"
        BY PidAssumption
    <2> QED
        BY <2>1, PidAssumption DEF Live
<1>2. IsFiniteSet(Live) /\ Cardinality(Live) = 2
    <2>1. IsFiniteSet({NULLPROC}) /\ Cardinality({NULLPROC}) = 1
        BY FS_Singleton
    <2>2. Live = {NULLPROC} \cup {startup}
        BY <1>1
    <2> QED
        BY <2>1, <2>2, FS_AddElement
<1>3. Killers = {}
    BY DEF Killers, User, Doing
<1> QED
    BY <1>2, <1>3 DEF LiveInv, Ending, Stopped

(* Where a kill does not begin while another is under way, prcount is the number
   of processes, less the victim of a kill in progress.  Overlapping kills of one
   victim count it out twice. *)
THEOREM LiveCounted ==
    ASSUME SerialKills PROVE Spec => []LiveCount
<1>1. Init => LiveInv
    BY InitLive
<1>2. IInv /\ LiveInv /\ [Next]_vars => LiveInv'
    BY NextLive
<1>3. LiveInv => LiveCount
    <2> SUFFICES ASSUME LiveInv
                 PROVE  Cardinality({kpc[p].x : p \in Killers}) = Ending
        BY DEF LiveInv, LiveCount, Stopped
    <2>1. CASE Killers = {}
        BY <2>1, FS_EmptySet DEF Ending
    <2>2. CASE Killers # {}
        <3>1. PICK k \in Killers : TRUE
            BY <2>2
        <3>2. {kpc[p].x : p \in Killers} = {kpc[k].x}
            BY DEF LiveInv
        <3> QED
            BY <2>2, <3>2, FS_Singleton DEF Ending
    <2> QED
        BY <2>1, <2>2
<1> QED
    BY <1>1, <1>2, <1>3, Invariant, PTL DEF Spec

-----------------------------------------------------------------------------
(* Semaphores and timers *)

ResettingOK == \A s \in Sem : Resetting(s) /\ squeue[s] # <<>> => scount[s] < 0

SemInv == IInv /\ ResettingOK

SemStep == [Semaphore!Next]_(Semaphore!semSpecVars)

-----------------------------------------------------------------------------
(* The semreset loop *)
(* No process is in the semreset loop after a step of anybody else. *)
OutsideReset ==
    \A p \in Pid : kpc'[p].at = "semreset" => kpc'[p] = kpc[p]

LEMMA GotoElsewhere ==
    ASSUME IInv, NEW pc, pc.at # "semreset", Goto(pc) \/ UNCHANGED kpc
    PROVE  OutsideReset
BY DEF OutsideReset, Goto, IInv, ContextOK

(* Who is not in the loop before such a step is not in it afterwards. *)
LEMMA ElsewhereOK ==
    ASSUME IInv, IInv', OutsideReset, kpc[currpid].at # "semreset"
    PROVE  ResettingOK'
<1>1. \A p \in Pid : kpc[p].at # "semreset"
    BY DEF IInv, ContextOK, DeferredOnlyInLoops, Loops, SemLoops
<1>2. currpid' \in Pid
    BY DEF IInv, SchedOK
<1>3. kpc'[currpid'].at # "semreset"
    BY <1>1, <1>2 DEF OutsideReset
<1> QED
    BY <1>3 DEF ResettingOK, Resetting

-----------------------------------------------------------------------------
(* Steps of a semaphore *)
LEMMA SameValues ==
    ASSUME UNCHANGED semVars
    PROVE  Values' = Values /\ squeue' = squeue /\ SemStep
BY DEF semVars, Values, Value, SemStep, Semaphore!semSpecVars

LEMMA ValueOf ==
    ASSUME NEW s \in Sem
    PROVE  Values[s] = Value(s) /\ Values'[s] = Value(s)' /\ DOMAIN Values = Sem /\ DOMAIN Values' = Sem
BY DEF Values

LEMMA OneValue ==
    ASSUME NEW s \in Sem, NEW v, \A t \in Sem : Value(t)' = IF t = s THEN v ELSE Value(t)
    PROVE  Values' = [Values EXCEPT ![s] = v]
BY DEF Values

(* Counts and waiters of a semaphore that no semreset is working on. *)
LEMMA QueueFacts ==
    ASSUME IInv, NEW s \in Sem, ~Resetting(s)
    PROVE  /\ scount[s] \in Int /\ sstate[s] \in {"FREE", "USED"} /\ squeue[s] \in Seq(Pid)
           /\ scount[s] >= 0 => squeue[s] = <<>>
           /\ scount[s] < 0 => squeue[s] # <<>>
<1>1. scount[s] \in Int /\ sstate[s] \in {"FREE", "USED"} /\ squeue[s] \in Seq(Pid)
    BY DEF IInv, SemOK
<1>2. Len(squeue[s]) = IF scount[s] < 0 THEN -scount[s] ELSE 0
    BY DEF IInv, CountMatchesQueue
<1>3. squeue[s] = <<>> <=> Len(squeue[s]) = 0
    BY <1>1, EmptySeq
<1> QED
    BY <1>1, <1>2, <1>3

(* A unit that nobody waits for. *)
LEMMA UpStep ==
    ASSUME IInv, NEW s \in Sem, ~Resetting(s), scount[s] >= 0,
           scount' = [scount EXCEPT ![s] = @ + 1], UNCHANGED <<sstate, squeue>>
    PROVE  SemStep
<1>1. /\ scount[s] \in Int /\ sstate[s] \in {"FREE", "USED"} /\ squeue[s] = <<>>
      /\ scount \in [Sem -> Int]
    BY QueueFacts DEF IInv, SemOK
<1>2. \A t \in Sem : t # s => Value(t)' = Value(t)
    BY <1>1 DEF Value
<1>3. CASE sstate[s] = "FREE"
    <2>1. Value(s)' = Value(s)
        BY <1>3 DEF Value
    <2>2. Values' = Values
        BY <1>2, <2>1 DEF Values
    <2> QED
        BY <2>2 DEF SemStep, Semaphore!semSpecVars
<1>4. CASE sstate[s] = "USED"
    <2>1. Value(s) = scount[s] /\ Value(s)' = scount[s] + 1
        BY <1>1, <1>4 DEF Value
    <2>2. Values' = [Values EXCEPT ![s] = scount[s] + 1]
        BY <1>2, <2>1, OneValue
    <2>3. Semaphore!Put(s)
        BY <1>1, <2>1, <2>2, ValueOf DEF Semaphore!Put
    <2> QED
        BY <2>3 DEF SemStep, Semaphore!Next
<1> QED
    BY <1>1, <1>3, <1>4

(* The body of signal: a unit for the first waiter, or for later. *)
LEMMA VStep ==
    ASSUME IInv, NEW s \in Sem, ~Resetting(s), V(s), UNCHANGED sstate
    PROVE  SemStep
<1>1. /\ scount[s] \in Int /\ sstate[s] \in {"FREE", "USED"}
      /\ scount[s] < 0 => squeue[s] # <<>>
    BY QueueFacts
<1>2. scount' = [scount EXCEPT ![s] = scount[s] + 1] /\ scount \in [Sem -> Int]
    BY DEF V, IInv, SemOK
<1>3. CASE scount[s] >= 0
    <2>1. squeue' = squeue
        BY <1>1, <1>3 DEF V
    <2> QED
        BY <1>2, <1>3, <2>1, UpStep
<1>4. CASE scount[s] < 0
    <2>1. squeue' = [squeue EXCEPT ![s] = Tail(squeue[s])]
        BY <1>1, <1>4 DEF V
    <2>2. \A t \in Sem : t # s => Value(t)' = Value(t)
        BY <1>2 DEF Value
    <2>3. Value(s) <= 0 /\ Value(s)' = Value(s)
        BY <1>1, <1>2, <1>4 DEF Value
    <2>4. Values' = Values
        BY <2>2, <2>3 DEF Values
    <2>5. Semaphore!Grant(s)
        BY <1>1, <1>4, <2>1, <2>3, <2>4, ValueOf DEF Semaphore!Grant
    <2> QED
        BY <2>5 DEF SemStep, Semaphore!Next
<1> QED
    BY <1>1, <1>3, <1>4

(* wait: a unit for the caller, or a place at the end of the line. *)
LEMMA WaitStep ==
    ASSUME IInv, NEW s \in Sem, Wait(s)
    PROVE  SemStep
<1>1. currpid \in Pid /\ ~Resetting(s) /\ prstate[currpid] = "CURR"
    BY UserFacts DEF Wait, Calling, IInv, SchedOK, SomeoneToRun
<1>2. /\ scount[s] \in Int /\ squeue[s] \in Seq(Pid)
      /\ scount[s] >= 0 => squeue[s] = <<>>
    BY <1>1, QueueFacts
<1>3. /\ scount' = [scount EXCEPT ![s] = scount[s] - 1] /\ scount \in [Sem -> Int]
      /\ sstate[s] = "USED" /\ sstate' = sstate
    BY DEF Wait, IInv, SemOK
<1>4. \A t \in Sem : t # s => Value(t)' = Value(t)
    BY <1>3 DEF Value
<1>5. CASE scount[s] > 0
    <2>1. squeue' = squeue
        BY <1>2, <1>5 DEF Wait
    <2>2. Value(s) = scount[s] /\ Value(s)' = scount[s] - 1
        BY <1>2, <1>3, <1>5 DEF Value
    <2>3. Values' = [Values EXCEPT ![s] = scount[s] - 1]
        BY <1>4, <2>2, OneValue
    <2>4. Semaphore!Take(s)
        BY <1>5, <2>1, <2>2, <2>3, ValueOf DEF Semaphore!Take
    <2> QED
        BY <2>4 DEF SemStep, Semaphore!Next
<1>6. CASE scount[s] <= 0
    <2>1. squeue' = [squeue EXCEPT ![s] = Append(squeue[s], currpid)]
        BY <1>2, <1>6 DEF Wait
    <2>2. Value(s) = 0 /\ Value(s)' = 0
        BY <1>2, <1>3, <1>6 DEF Value
    <2>3. Values' = Values
        BY <1>4, <2>2 DEF Values
    <2>4. currpid \notin ToSet(squeue[s])
        BY <1>1 DEF IInv, SemOK
    <2>5. Semaphore!Join(s, currpid)
        BY <2>1, <2>2, <2>3, <2>4, ValueOf DEF Semaphore!Join, Semaphore!ToSet, ToSet
    <2> QED
        BY <1>1, <2>5 DEF SemStep, Semaphore!Next
<1> QED
    BY <1>2, <1>5, <1>6

(* semcreate: the entry is free and nobody waits on it. *)
LEMMA SemCreateStep ==
    ASSUME IInv, NEW s \in Sem, NEW count \in Counts, SemCreate(s, count)
    PROVE  SemStep
<1>1. ~Resetting(s) /\ ~Deleting(s) /\ count \in Nat
    BY UserFacts, CountAssumption DEF SemCreate, Calling, IInv
<1>2. /\ sstate[s] = "FREE" /\ sstate' = [sstate EXCEPT ![s] = "USED"] /\ sstate \in [Sem -> {"FREE", "USED"}]
      /\ scount' = [scount EXCEPT ![s] = count] /\ scount \in [Sem -> Int] /\ squeue' = squeue
    BY DEF SemCreate, IInv, SemOK
<1>3. squeue[s] = <<>>
    BY <1>1, <1>2, QueueFacts DEF IInv, FreeOK
<1>4. \A t \in Sem : t # s => Value(t)' = Value(t)
    BY <1>2 DEF Value
<1>5. Value(s) = -1 /\ Value(s)' = count
    BY <1>1, <1>2 DEF Value
<1>6. Values' = [Values EXCEPT ![s] = count]
    BY <1>4, <1>5, OneValue
<1>7. Values'[s] = count /\ Values[s] = -1
    BY <1>5, ValueOf
<1>8. Semaphore!Open(s, Values'[s])
    BY <1>2, <1>3, <1>6, <1>7 DEF Semaphore!Open, Semaphore!Closed
<1> QED
    BY <1>1, <1>7, <1>8 DEF SemStep, Semaphore!Next

(* semdelete: closed at once, the waiters are let go in the loop. *)
LEMMA SemDeleteStep ==
    ASSUME IInv, NEW s \in Sem, SemDelete(s)
    PROVE  SemStep
<1>1. /\ sstate[s] = "USED" /\ sstate' = [sstate EXCEPT ![s] = "FREE"] /\ sstate \in [Sem -> {"FREE", "USED"}]
      /\ scount' = scount /\ scount \in [Sem -> Int] /\ squeue' = squeue
    BY DEF SemDelete, IInv, SemOK
<1>2. \A t \in Sem : t # s => Value(t)' = Value(t)
    BY <1>1 DEF Value
<1>3. Value(s) >= 0 /\ Value(s)' = -1
    BY <1>1 DEF Value
<1>4. Values' = [Values EXCEPT ![s] = -1]
    BY <1>2, <1>3, OneValue
<1>5. Semaphore!Close(s)
    BY <1>1, <1>3, <1>4, ValueOf DEF Semaphore!Close, Semaphore!Closed
<1> QED
    BY <1>5 DEF SemStep, Semaphore!Next

(* semdelete's loop, and its end, which counts the semaphore up once more. *)
LEMMA SemDeleteLoopStep ==
    ASSUME IInv, SemDeleteLoop \/ SemDeleteEnd
    PROVE  SemStep
<1>1. PICK s \in Sem : s = kpc[currpid].x /\ ~Resetting(s)
    BY LoopFacts DEF SemDeleteLoop, SemDeleteEnd, IInv, SchedOK, Loops, SemLoops
<1>2. CASE SemDeleteLoop
    BY <1>1, <1>2, VStep DEF SemDeleteLoop
<1>3. CASE SemDeleteEnd
    BY <1>1, <1>3, UpStep DEF SemDeleteEnd
<1> QED
    BY <1>2, <1>3

LEMMA SignalNLoopStep == ASSUME IInv, SignalNLoop PROVE SemStep
<1>1. PICK s \in Sem : s = kpc[currpid].x /\ ~Resetting(s)
    BY LoopFacts DEF SignalNLoop, IInv, SchedOK, Loops, SemLoops
<1> QED
    BY <1>1, VStep DEF SignalNLoop

(* semreset's loop: the waiters are let go first, *)
LEMMA SemResetLoopStep == ASSUME SemInv, SemResetLoop PROVE SemStep
<1>1. PICK s \in Sem : s = kpc[currpid].x
    BY LoopFacts DEF SemResetLoop, SemInv, IInv, SchedOK, Loops, SemLoops
<1>2. /\ squeue[s] # <<>> /\ squeue' = [squeue EXCEPT ![s] = Tail(squeue[s])]
      /\ UNCHANGED <<sstate, scount>> /\ squeue \in [Sem -> Seq(Pid)]
    BY <1>1 DEF SemResetLoop, SemInv, IInv, SemOK
<1>3. scount[s] < 0
    BY <1>1, <1>2 DEF SemResetLoop, At, SemInv, ResettingOK, Resetting
<1>4. Value(s) <= 0 /\ Values' = Values
    BY <1>2, <1>3 DEF Value, Values
<1>5. Semaphore!Grant(s)
    BY <1>2, <1>4, ValueOf DEF Semaphore!Grant
<1> QED
    BY <1>5 DEF SemStep, Semaphore!Next

(* and when nobody waits the count is set. *)
LEMMA SemResetEndStep == ASSUME SemInv, SemResetEnd PROVE SemStep
<1>1. PICK s \in Sem : s = kpc[currpid].x /\ kpc[currpid].n \in Nat
    BY LoopFacts DEF SemResetEnd, SemInv, IInv, SchedOK, Loops, SemLoops
<1>2. PICK n \in Nat : n = kpc[currpid].n
    BY <1>1
<1>3. /\ squeue[s] = <<>> /\ squeue' = squeue /\ sstate' = sstate
      /\ scount' = [scount EXCEPT ![s] = n] /\ scount \in [Sem -> Int] /\ sstate[s] \in {"FREE", "USED"}
    BY <1>1, <1>2 DEF SemResetEnd, SemInv, IInv, SemOK
<1>4. \A t \in Sem : t # s => Value(t)' = Value(t)
    BY <1>3 DEF Value
<1>5. CASE sstate[s] = "FREE"
    <2>1. Value(s)' = Value(s)
        BY <1>3, <1>5 DEF Value
    <2>2. Values' = Values
        BY <1>4, <2>1 DEF Values
    <2> QED
        BY <1>3, <2>2 DEF SemStep, Semaphore!semSpecVars
<1>6. CASE sstate[s] = "USED"
    <2>1. Value(s) >= 0 /\ Value(s)' = n
        BY <1>3, <1>6 DEF Value
    <2>2. Values' = [Values EXCEPT ![s] = n]
        BY <1>4, <2>1, OneValue
    <2>3. Values'[s] = n /\ Values[s] >= 0
        BY <2>1, ValueOf
    <2>4. Semaphore!Reset(s, Values'[s])
        BY <1>3, <2>2, <2>3 DEF Semaphore!Reset
    <2> QED
        BY <2>3, <2>4 DEF SemStep, Semaphore!Next
<1> QED
    BY <1>3, <1>5, <1>6

(* kill takes its victim out of the line, wherever in it that is. *)
LEMMA KillStep == ASSUME IInv, KillDone PROVE SemStep
<1>1. PICK p \in Pid : p = kpc[currpid].x
    BY DEF KillDone, At, IInv, SchedOK, ContextOK, Arguments
<1>2. ASSUME KillCurrent(p) \/ KillSleeper(p) \/ KillReady(p) \/ KillOther(p) PROVE UNCHANGED semVars
    BY <1>2 DEF KillDone, KillCurrent, KillSleeper, KillReady, KillOther, semVars
<1>3. CASE KillWaiter(p)
    <2>1. PICK s \in Sem : s = prsem[p] /\ p \in ToSet(squeue[s])
        BY <1>3 DEF KillWaiter, IInv, SemOK
    <2>2. ~Resetting(s)
        BY ReturnFacts DEF KillDone, IInv, Labels, Loops, SemLoops
    <2>3. /\ scount[s] \in Int /\ squeue[s] \in Seq(Pid) /\ squeue[s] # <<>>
          /\ scount[s] >= 0 => squeue[s] = <<>>
        BY <2>1, <2>2, QueueFacts DEF ToSet
    <2>4. /\ scount' = [scount EXCEPT ![s] = scount[s] + 1] /\ scount \in [Sem -> Int] /\ sstate' = sstate
          /\ squeue' = [squeue EXCEPT ![s] = GetItem(squeue[s], p)]
        BY <1>3, <2>1 DEF KillWaiter, KillDone, IInv, SemOK
    <2>5. \A t \in Sem : Value(t)' = Value(t)
        BY <2>3, <2>4 DEF Value
    <2>6. Values' = Values
        BY <2>5 DEF Values
    <2>7. PICK i \in 1..Len(squeue[s]) : i = IndexOf(squeue[s], p) /\ squeue[s][i] = p
        BY <2>1, <2>3 DEF IndexOf, ToSet
    <2>8. squeue' = [squeue EXCEPT ![s] = RemoveAt(squeue[s], i)]
        BY <2>4, <2>7 DEF GetItem
    <2>9. Semaphore!Leave(s, p)
        <3>1. i \in DOMAIN squeue[s]
            BY <2>3, <2>7
        <3> QED
            BY <2>6, <2>7, <2>8, <3>1 DEF Semaphore!Leave, Semaphore!RemoveAt, RemoveAt
    <2> QED
        BY <2>9 DEF SemStep, Semaphore!Next
<1> QED
    BY <1>1, <1>2, <1>3, SameValues DEF KillDone

-----------------------------------------------------------------------------
(* All steps *)
LEMMA CallStep ==
    ASSUME SemInv, SemInv', SemaphoreCall
    PROVE  SemStep
<1>1. PICK s \in Sem : \/ Wait(s) \/ Signal(s) \/ SemDelete(s)
                       \/ \E count \in Counts : SignalN(s, count) \/ SemCreate(s, count) \/ SemReset(s, count)
    BY DEF SemaphoreCall
<1>2. CASE Wait(s) \/ SemDelete(s) \/ \E count \in Counts : SemCreate(s, count)
    BY <1>2, WaitStep, SemDeleteStep, SemCreateStep DEF SemInv
<1>3. CASE Signal(s)
    <2>1. ~Resetting(s)
        BY <1>3, UserFacts DEF Signal, Calling, SemInv, IInv
    <2> QED
        BY <1>3, <2>1, VStep DEF Signal, SemInv
<1>4. CASE \E count \in Counts : SignalN(s, count) \/ SemReset(s, count)
    BY <1>4, SameValues DEF SignalN, SemReset
<1> QED
    BY <1>1, <1>2, <1>3, <1>4

LEMMA NoCallStep ==
    ASSUME MessageCall \/ ProcessCall \/ ClkHandler
    PROVE  UNCHANGED semVars
<1>1. CASE MessageCall
    BY <1>1 DEF MessageCall, Send, Receive, RecvClr, RecvTime
<1>2. CASE ProcessCall
    BY <1>2 DEF ProcessCall, Kill, Suspend, Resume, Create, ChPrio, Yield, SleepMs
<1>3. CASE ClkHandler
    BY <1>3 DEF ClkHandler
<1> QED
    BY <1>1, <1>2, <1>3

LEMMA InsideStep ==
    ASSUME SemInv, KernelStep
    PROVE  SemStep
<1>1. CASE SignalNLoop \/ SemDeleteLoop \/ SemDeleteEnd
    BY <1>1, SignalNLoopStep, SemDeleteLoopStep DEF SemInv
<1>2. CASE SemResetLoop \/ SemResetEnd
    BY <1>2, SemResetLoopStep, SemResetEndStep
<1>3. CASE KillDone
    BY <1>3, KillStep DEF SemInv
<1>4. CASE SignalNEnd \/ ReceiveDone \/ RecvTimeDone \/ Wakeup \/ WakeupEnd \/ ClkHandlerEnd
    BY <1>4, SameValues DEF SignalNEnd, ReceiveDone, RecvTimeDone, Wakeup, WakeupEnd, ClkHandlerEnd
<1> QED
    BY <1>1, <1>2, <1>3, <1>4 DEF KernelStep

LEMMA NextStep ==
    ASSUME SemInv, SemInv', [Next]_vars
    PROVE  SemStep
<1>1. CASE SemaphoreCall
    BY <1>1, CallStep
<1>2. CASE MessageCall \/ ProcessCall \/ ClkHandler
    BY <1>2, NoCallStep, SameValues
<1>3. CASE KernelStep
    BY <1>3, InsideStep
<1>4. CASE Halted \/ UNCHANGED vars
    BY <1>4, SameValues DEF Halted, vars
<1> QED
    BY <1>1, <1>2, <1>3, <1>4 DEF Next

(* Who enters the semreset loop, and who goes round in it. *)
LEMMA LoopKept ==
    ASSUME SemInv, IInv', [Next]_vars
    PROVE  ResettingOK'
<1>0. IInv
    BY DEF SemInv
<1>1. ASSUME NEW s \in Sem, NEW count \in Counts, SemReset(s, count) PROVE ResettingOK'
    <2>1. ~Resetting(s) /\ currpid' = currpid /\ UNCHANGED <<scount, squeue>>
        BY <1>0, <1>1, UserFacts DEF SemReset, Calling, IInv, semVars
    <2>2. kpc'[currpid'].x = s
        BY <1>0, <1>1, <2>1 DEF SemReset, Goto, Doing, IInv, ContextOK, SchedOK
    <2>3. squeue[s] # <<>> => scount[s] < 0
        BY <1>0, <2>1, QueueFacts
    <2> QED
        BY <2>1, <2>2, <2>3 DEF ResettingOK, Resetting
<1>2. CASE SemResetLoop
    <2>1. PICK s \in Sem : s = kpc[currpid].x
        BY <1>0, <1>2, LoopFacts DEF SemResetLoop, IInv, SchedOK, Loops, SemLoops
    <2>2. /\ kpc[currpid].at = "semreset" /\ squeue[s] # <<>> /\ UNCHANGED <<scount, kpc>>
          /\ \A t \in Sem : t # s => squeue'[t] = squeue[t]
        BY <1>0, <1>2, <2>1 DEF SemResetLoop, At, IInv, SemOK
    <2>3. currpid' = currpid
        BY <1>0, <1>2, <2>2 DEF IInv, ContextOK, DeferredOnlyInLoops, Loops, SemLoops, SchedOK
    <2>4. scount[s] < 0
        BY <2>1, <2>2 DEF SemInv, ResettingOK, Resetting
    <2> QED
        BY <2>1, <2>2, <2>3, <2>4 DEF ResettingOK, Resetting
<1>3. CASE SemResetEnd
    <2>0. Goto(User) /\ User.at # "semreset"
        BY <1>3 DEF SemResetEnd, Return, User, Doing
    <2>1. OutsideReset /\ kpc'[currpid].at # "semreset"
        BY <1>0, <2>0, GotoElsewhere DEF Goto, IInv, ContextOK, SchedOK
    <2>2. \A p \in Pid : kpc'[p].at # "semreset"
        BY <1>0, <1>3, <2>1 DEF OutsideReset, IInv, ContextOK, DeferredOnlyInLoops, Loops, SemLoops
    <2>3. currpid' \in Pid
        BY DEF IInv, SchedOK
    <2> QED
        BY <2>2, <2>3 DEF ResettingOK, Resetting
<1>4. CASE UNCHANGED vars
    BY <1>4 DEF SemInv, ResettingOK, Resetting, vars, deferVars, dispatchVars, semVars
<1>5. ASSUME OutsideReset, kpc[currpid].at # "semreset" PROVE ResettingOK'
    BY <1>0, <1>5, ElsewhereOK
<1>6. InUser => kpc[currpid].at # "semreset"
    BY DEF InUser, User, Doing
<1>7. User.at # "semreset" /\ \A at, x, n : Doing(at, x, n).at = at
    BY DEF User, Doing
<1>8. CASE MessageCall \/ ProcessCall \/ ClkHandler
    <2>1. kpc[currpid].at # "semreset"
        BY <1>6, <1>8 DEF MessageCall, ProcessCall, ClkHandler, Send, Receive, RecvClr, RecvTime, Kill, Suspend, Resume,
                          Create, ChPrio, Yield, SleepMs, Calling
    <2>2. ASSUME MessageCall PROVE OutsideReset
        BY <1>0, <1>7, <2>2, GotoElsewhere DEF MessageCall, Send, Receive, RecvClr, RecvTime
    <2>3. ASSUME ProcessCall PROVE OutsideReset
        <3>1. ASSUME NEW p \in Pid, NEW prio \in Prios, Create(p, prio) PROVE OutsideReset
            BY <1>0, <1>7, <3>1 DEF Create, OutsideReset, IInv, ContextOK
        <3>2. ASSUME NEW p \in Pid, Kill(p) \/ Suspend(p) \/ Resume(p) PROVE OutsideReset
            BY <1>0, <1>7, <3>2, GotoElsewhere DEF Kill, Suspend, Resume
        <3>3. ASSUME NEW p \in Pid, NEW prio \in NewPrios, ChPrio(p, prio) PROVE OutsideReset
            BY <1>0, <1>7, <3>3, GotoElsewhere DEF ChPrio
        <3>4. ASSUME NEW delay, Yield \/ SleepMs(delay) PROVE OutsideReset
            BY <1>0, <1>7, <3>4, GotoElsewhere DEF Yield, SleepMs
        <3> QED
            BY <2>3, <3>1, <3>2, <3>3, <3>4 DEF ProcessCall
    <2>4. ASSUME ClkHandler PROVE OutsideReset
        BY <1>0, <1>7, <2>4, GotoElsewhere DEF ClkHandler
    <2> QED
        BY <1>5, <1>8, <2>1, <2>2, <2>3, <2>4
<1>9. CASE SemaphoreCall
    <2>1. PICK s \in Sem : \/ Wait(s) \/ Signal(s) \/ SemDelete(s)
                           \/ \E count \in Counts : SignalN(s, count) \/ SemCreate(s, count) \/ SemReset(s, count)
        BY <1>9 DEF SemaphoreCall
    <2>2. ASSUME \/ Wait(s) \/ Signal(s) \/ SemDelete(s)
                 \/ \E count \in Counts : SignalN(s, count) \/ SemCreate(s, count)
          PROVE  kpc[currpid].at # "semreset" /\ OutsideReset
        <3>1. InUser
            BY <2>2 DEF Wait, Signal, SemDelete, SignalN, SemCreate, Calling
        <3>2. OutsideReset
            BY <1>0, <1>7, <2>2, GotoElsewhere DEF Wait, Signal, SemDelete, SignalN, SemCreate
        <3> QED
            BY <1>6, <3>1, <3>2
    <2> QED
        BY <1>1, <1>5, <2>1, <2>2
<1>10. CASE KernelStep
    <2>1. SUFFICES ASSUME ~SemResetLoop, ~SemResetEnd PROVE kpc[currpid].at # "semreset" /\ OutsideReset
        BY <1>2, <1>3, <1>5
    <2>2. kpc[currpid].at # "semreset"
        BY <1>10, <2>1 DEF KernelStep, SignalNLoop, SignalNEnd, SemDeleteLoop, SemDeleteEnd, ReceiveDone, RecvTimeDone,
                           KillDone, Wakeup, WakeupEnd, ClkHandlerEnd, At
    <2>3. ASSUME KillDone PROVE OutsideReset
        BY <1>0, <1>7, <2>3 DEF KillDone, Discard, OutsideReset, IInv, ContextOK
    <2>4. ASSUME SignalNLoop \/ SignalNEnd \/ SemDeleteLoop \/ SemDeleteEnd PROVE OutsideReset
        BY <1>0, <1>7, <2>4, GotoElsewhere DEF SignalNLoop, SignalNEnd, SemDeleteLoop, SemDeleteEnd, Return
    <2>5. ASSUME ReceiveDone \/ RecvTimeDone \/ Wakeup \/ WakeupEnd \/ ClkHandlerEnd PROVE OutsideReset
        BY <1>0, <1>7, <2>5, GotoElsewhere DEF ReceiveDone, RecvTimeDone, Wakeup, WakeupEnd, ClkHandlerEnd, Return
    <2> QED
        BY <1>10, <2>1, <2>2, <2>3, <2>4, <2>5 DEF KernelStep
<1> QED
    BY <1>4, <1>8, <1>9, <1>10 DEF Next, Halted

LEMMA SemInvOK == SemInv /\ [Next]_vars => SemInv'
BY NextOK, LoopKept DEF SemInv

LEMMA SemInitOK == Init => SemInv /\ Semaphore!Init
<1> SUFFICES ASSUME Init PROVE SemInv /\ Semaphore!Init
    OBVIOUS
<1>1. sstate = [s \in Sem |-> "FREE"] /\ squeue = [s \in Sem |-> <<>>]
    BY DEF Init
<1>2. ResettingOK
    BY <1>1 DEF ResettingOK
<1>3. Values = [s \in Sem |-> -1]
    BY <1>1 DEF Values, Value
<1> QED
    BY <1>1, <1>2, <1>3, InitOK DEF SemInv, Semaphore!Init, Semaphore!Closed

(* The semaphore calls and kill implement counting semaphores: every step of the
   kernel maps to one step of SemSpec or to none. *)
THEOREM SemaphoresAreCounting == Spec => ImplementsSemaphores
<1>1. Init => SemInv /\ Semaphore!Init
    BY SemInitOK
<1>2. SemInv /\ [Next]_vars => SemInv'
    BY SemInvOK
<1>3. SemInv /\ SemInv' /\ [Next]_vars => [Semaphore!Next]_(Semaphore!semSpecVars)
    BY NextStep DEF SemStep
<1> QED
    BY <1>1, <1>2, <1>3, PTL DEF Spec, ImplementsSemaphores, Semaphore!Spec

-----------------------------------------------------------------------------
(* Sums along the sleep queue *)

(* The same keys over a stretch of two queues: the sums stay as far apart as
   they were where it begins. *)
Stretch(e, q, key, a, d, r, new, b, m, c) ==
    /\ Along(e, q, key) /\ IntKeys(q, key) /\ Along(d, r, new)
    /\ {a, b, m} \subseteq Nat /\ a + m <= Len(q) /\ b + m <= Len(r)
    /\ c \in Int /\ d[b] = e[a] + c
    /\ \A n \in 1..m : new[r[b + n]] = key[q[a + n]]

Shifted(e, a, d, b, m, c) == \A n \in 0..m : d[b + n] = e[a + n] + c

LEMMA AlongShift ==
    ASSUME NEW e, NEW q, NEW key, NEW a, NEW d, NEW r, NEW new, NEW b, NEW m, NEW c,
           Stretch(e, q, key, a, d, r, new, b, m, c)
    PROVE  Shifted(e, a, d, b, m, c)
<1> /\ Along(e, q, key) /\ IntKeys(q, key) /\ Along(d, r, new)
    /\ a \in Nat /\ b \in Nat /\ m \in Nat /\ a + m <= Len(q) /\ b + m <= Len(r)
    /\ c \in Int /\ d[b] = e[a] + c
    /\ \A n \in 1..m : new[r[b + n]] = key[q[a + n]]
    BY DEF Stretch
<1> /\ Len(q) \in Nat /\ Len(r) \in Nat
    BY DEF Along
<1> DEFINE Good == {n \in Nat : n <= m => d[b + n] = e[a + n] + c}
<1>0. \A n \in 0..Len(q) : e[n] \in Int
    BY AlongInt
<1>1. 0 \in Good
    OBVIOUS
<1>2. ASSUME NEW n \in Nat, n \in Good PROVE n + 1 \in Good
    <2>1. SUFFICES ASSUME n + 1 <= m PROVE d[b + (n + 1)] = e[a + (n + 1)] + c
        OBVIOUS
    <2>2. /\ a + (n + 1) \in 1..Len(q) /\ (a + (n + 1)) - 1 = a + n /\ a + n \in 0..Len(q)
          /\ b + (n + 1) \in 1..Len(r) /\ (b + (n + 1)) - 1 = b + n /\ n + 1 \in 1..m
        BY <2>1
    <2>3. d[b + n] = e[a + n] + c /\ e[a + n] \in Int
        BY <1>0, <1>2, <2>1, <2>2
    <2>4. /\ e[a + (n + 1)] = e[a + n] + key[q[a + (n + 1)]]
          /\ d[b + (n + 1)] = d[b + n] + new[r[b + (n + 1)]]
        BY <2>2 DEF Along
    <2>5. new[r[b + (n + 1)]] = key[q[a + (n + 1)]] /\ key[q[a + (n + 1)]] \in Int
        BY <2>2 DEF IntKeys
    <2> DEFINE x == e[a + n]
               y == key[q[a + (n + 1)]]
    <2>6. x \in Int /\ y \in Int /\ e[a + (n + 1)] = x + y /\ d[b + (n + 1)] = (x + c) + y
        BY <2>3, <2>4, <2>5
    <2> HIDE DEF x, y
    <2> QED
        BY <2>6
<1> HIDE DEF Good
<1>3. \A n \in Nat : n \in Good
    BY <1>1, <1>2, NaturalInduction
<1> QED
    BY <1>3 DEF Good, Shifted

(* What is left of each sleeper's delay. *)
Left(q, key) == [x \in ToSet(q) |-> Elapsed(q, key)[IndexOf(q, x)]]

LEMMA LeftAt ==
    ASSUME NEW S, NEW q \in Seq(S), IsInjective(q), NEW key
    PROVE  /\ DOMAIN Left(q, key) = ToSet(q)
           /\ Along(Elapsed(q, key), q, key)
           /\ \A i \in 1..Len(q) : Left(q, key)[q[i]] = Elapsed(q, key)[i]
<1> DEFINE e == Elapsed(q, key)
<1>1. Along(e, q, key)
    BY ElapsedAlong
<1>2. ASSUME NEW i \in 1..Len(q) PROVE q[i] \in ToSet(q) /\ IndexOf(q, q[i]) = i
    BY DEF IndexOf, IsInjective, ToSet
<1>3. \A i \in 1..Len(q) : Left(q, key)[q[i]] = e[i]
    BY <1>2 DEF Left
<1>4. DOMAIN Left(q, key) = ToSet(q)
    BY DEF Left
<1> QED
    BY <1>1, <1>3, <1>4

(* Sums tell what is left, whatever queue and keys they come from. *)
LEMMA LeftIs ==
    ASSUME NEW S, NEW q \in Seq(S), IsInjective(q), NEW key, IntKeys(q, key), NEW new,
           \A n \in 1..Len(q) : new[q[n]] = key[q[n]]
    PROVE  Left(q, new) = Left(q, key)
<1> DEFINE e == Elapsed(q, key)
<1>1. Along(e, q, key) /\ \A i \in 1..Len(q) : Left(q, key)[q[i]] = e[i]
    BY LeftAt
<1> HIDE DEF e
<1> DEFINE d == Elapsed(q, new)
<1>2. Along(d, q, new) /\ \A i \in 1..Len(q) : Left(q, new)[q[i]] = d[i]
    BY LeftAt
<1> HIDE DEF d
<1>3. Len(q) \in Nat /\ DOMAIN q = 1..Len(q) /\ d[0] = e[0] + 0
    BY <1>1, <1>2 DEF Along
<1>4. \A n \in 0..Len(q) : d[0 + n] = e[0 + n] + 0
    <2>1. \A n \in 1..Len(q) : new[q[0 + n]] = key[q[0 + n]]
        BY <1>3
    <2>2. Stretch(e, q, key, 0, d, q, new, 0, Len(q), 0)
        BY <1>1, <1>2, <1>3, <2>1 DEF Stretch
    <2>3. Shifted(e, 0, d, 0, Len(q), 0)
        BY ONLY <2>2, AlongShift
    <2> QED
        BY <2>3 DEF Shifted
<1>5. \A n \in 1..Len(q) : d[n] = e[n]
    <2>1. \A n \in 0..Len(q) : e[n] \in Int
        BY <1>1, AlongInt
    <2> QED
        BY <1>3, <1>4, <2>1
<1>6. \A x \in ToSet(q) : Left(q, new)[x] = Left(q, key)[x]
    BY <1>1, <1>2, <1>3, <1>5 DEF ToSet
<1> QED
    BY <1>6 DEF Left

(* A tick. *)
LEMMA LeftTicked ==
    ASSUME NEW S, NEW q \in Seq(S), IsInjective(q), q # <<>>, NEW key, IntKeys(q, key), NEW new,
           new[q[1]] = key[q[1]] - 1, \A n \in 2..Len(q) : new[q[n]] = key[q[n]]
    PROVE  Left(q, new) = [x \in ToSet(q) |-> Left(q, key)[x] - 1]
<1> DEFINE e == Elapsed(q, key)
<1>1. Along(e, q, key) /\ \A i \in 1..Len(q) : Left(q, key)[q[i]] = e[i]
    BY LeftAt
<1> HIDE DEF e
<1> DEFINE d == Elapsed(q, new)
<1>2. Along(d, q, new) /\ \A i \in 1..Len(q) : Left(q, new)[q[i]] = d[i]
    BY LeftAt
<1> HIDE DEF d
<1>3. Len(q) \in Nat \ {0} /\ DOMAIN q = 1..Len(q)
    BY EmptySeq
<1>4. \A n \in 0..Len(q) : e[n] \in Int
    BY <1>1, AlongInt
<1>a. PICK c \in Int : c = -1
    OBVIOUS
<1>5. d[1] = e[1] + c
    BY <1>a, <1>1, <1>2, <1>3 DEF Along, IntKeys
<1>6. \A n \in 0..(Len(q) - 1) : d[1 + n] = e[1 + n] + c
    <2>1. \A n \in 1..(Len(q) - 1) : new[q[1 + n]] = key[q[1 + n]]
        BY <1>3
    <2>2. 1 + (Len(q) - 1) <= Len(q) /\ Len(q) - 1 \in Nat
        BY <1>3
    <2>3. Stretch(e, q, key, 1, d, q, new, 1, Len(q) - 1, c)
        BY <1>1, <1>2, <1>5, <2>1, <2>2 DEF Stretch
    <2>4. Shifted(e, 1, d, 1, Len(q) - 1, c)
        BY ONLY <2>3, AlongShift
    <2> QED
        BY <2>4 DEF Shifted
<1>7. ASSUME NEW n \in 1..Len(q) PROVE d[n] = e[n] - 1
    <2>1. n - 1 \in 0..(Len(q) - 1) /\ 1 + (n - 1) = n /\ e[n] \in Int
        BY <1>3, <1>4
    <2> QED
        BY <1>a, <1>6, <2>1
<1>8. \A x \in ToSet(q) : Left(q, new)[x] = Left(q, key)[x] - 1
    BY <1>1, <1>2, <1>3, <1>7 DEF ToSet
<1> QED
    BY <1>8 DEF Left

(* r and new hold the countdowns of q and key without the item's. *)
Parted(q, key, item, r, new) == Left(r, new) = [x \in ToSet(q) \ {item} |-> Left(q, key)[x]]

(* The head's time is up. *)
LEMMA LeftTail ==
    ASSUME NEW S, NEW q \in Seq(S), IsInjective(q), q # <<>>, NEW key, IntKeys(q, key), key[q[1]] = 0,
           NEW new, \A n \in 2..Len(q) : new[q[n]] = key[q[n]]
    PROVE  Parted(q, key, q[1], Tail(q), new)
<1> DEFINE r == Tail(q)
<1>0. /\ Len(q) \in Nat \ {0} /\ DOMAIN q = 1..Len(q) /\ Head(q) = q[1]
      /\ r \in Seq(S) /\ Len(r) = Len(q) - 1 /\ \A n \in 1..(Len(q) - 1) : r[n] = q[n + 1]
    BY EmptySeq
<1>1. IsInjective(r) /\ ToSet(r) = ToSet(q) \ {q[1]}
    BY <1>0, TailQueue
<1> HIDE DEF r
<1> DEFINE e == Elapsed(q, key)
<1>2. Along(e, q, key) /\ \A i \in 1..Len(q) : Left(q, key)[q[i]] = e[i]
    BY LeftAt
<1> HIDE DEF e
<1> DEFINE d == Elapsed(r, new)
<1>3. Along(d, r, new) /\ \A i \in 1..Len(r) : Left(r, new)[r[i]] = d[i]
    BY <1>0, <1>1, LeftAt
<1> HIDE DEF d
<1>4. \A n \in 0..Len(q) : e[n] \in Int
    BY <1>2, AlongInt
<1>5. d[0] = e[1] + 0
    BY <1>0, <1>2, <1>3 DEF Along
<1>6. \A n \in 0..(Len(q) - 1) : d[0 + n] = e[1 + n] + 0
    <2>1. \A n \in 1..(Len(q) - 1) : new[r[0 + n]] = key[q[1 + n]]
        BY <1>0
    <2>2. /\ 1 + (Len(q) - 1) <= Len(q) /\ 0 + (Len(q) - 1) <= Len(r)
          /\ Len(q) - 1 \in Nat /\ 0 \in Int /\ 0 \in Nat /\ 1 \in Nat
        BY <1>0
    <2>3. Stretch(e, q, key, 1, d, r, new, 0, Len(q) - 1, 0)
        BY <1>2, <1>3, <1>5, <2>1, <2>2 DEF Stretch
    <2>4. Shifted(e, 1, d, 0, Len(q) - 1, 0)
        BY ONLY <2>3, AlongShift
    <2> QED
        BY <2>4 DEF Shifted
<1>7. ASSUME NEW n \in 1..Len(r) PROVE Left(r, new)[r[n]] = Left(q, key)[r[n]]
    <2>1. n \in 0..(Len(q) - 1) /\ 0 + n = n /\ 1 + n = n + 1 /\ n + 1 \in 1..Len(q) /\ r[n] = q[n + 1] /\ e[n + 1] \in Int
        BY <1>0, <1>4
    <2>2. d[n] = e[n + 1]
        BY <1>6, <2>1
    <2> QED
        BY <1>2, <1>3, <2>1, <2>2
<1>8. \A x \in ToSet(r) : Left(r, new)[x] = Left(q, key)[x]
    <2>1. DOMAIN r = 1..Len(r)
        BY <1>0
    <2> QED
        BY <1>7, <2>1 DEF ToSet
<1>9. Left(r, new) = [x \in ToSet(r) |-> Left(q, key)[x]]
    BY <1>8 DEF Left
<1> QED
    BY <1>1, <1>9 DEF r, Parted

(* A queue with one process more: its neighbours' sums stay, if the keys make up for it. *)
Inserted(q, key, item, pos, k, r, new) ==
    /\ IsInjective(q) /\ IntKeys(q, key)
    /\ item \notin ToSet(q) /\ pos \in 1..(Len(q) + 1) /\ r = InsertAt(q, pos, item)
    /\ k \in Int /\ new[item] = k - Elapsed(q, key)[pos - 1]
    /\ pos <= Len(q) => new[q[pos]] = key[q[pos]] - new[item]
    /\ \A n \in 1..Len(q) : n # pos => new[q[n]] = key[q[n]]

Joined(q, key, item, k, r, new) ==
    Left(r, new) = [x \in ToSet(q) \cup {item} |-> IF x = item THEN k ELSE Left(q, key)[x]]

LEMMA LeftGrown ==
    ASSUME NEW S, NEW q \in Seq(S), NEW key, NEW item \in S,
           NEW pos \in 1..(Len(q) + 1), NEW k \in Int, NEW r, NEW new,
           Inserted(q, key, item, pos, k, r, new)
    PROVE  Joined(q, key, item, k, r, new)
<1> /\ IsInjective(q) /\ IntKeys(q, key)
    /\ item \notin ToSet(q) /\ pos \in 1..(Len(q) + 1) /\ r = InsertAt(q, pos, item)
    /\ k \in Int /\ new[item] = k - Elapsed(q, key)[pos - 1]
    /\ pos <= Len(q) => new[q[pos]] = key[q[pos]] - new[item]
    /\ \A n \in 1..Len(q) : n # pos => new[q[n]] = key[q[n]]
    BY DEF Inserted
<1>0. /\ Len(q) \in Nat /\ DOMAIN q = 1..Len(q)
      /\ r \in Seq(S) /\ Len(r) = Len(q) + 1 /\ DOMAIN r = 1..(Len(q) + 1)
      /\ \A j \in 1..(Len(q) + 1) : r[j] = IF j < pos THEN q[j] ELSE IF j = pos THEN item ELSE q[j - 1]
    <2> DEFINE it == InsertAt(q, pos, item)
    <2>1. it \in Seq(S) /\ Len(it) = Len(q) + 1
          /\ \A j \in 1..(Len(q) + 1) : it[j] = IF j < pos THEN q[j] ELSE IF j = pos THEN item ELSE q[j - 1]
        <3>1. q \in Seq(S) /\ item \in S /\ pos \in 1..(Len(q) + 1)
            OBVIOUS
        <3> QED
            BY ONLY <3>1, InsertAtElements, SMTT(30)
    <2>2. r = it
        OBVIOUS
    <2> HIDE DEF it
    <2> QED
        BY <2>1, <2>2
<1>1. IsInjective(r) /\ ToSet(r) = ToSet(q) \cup {item}
    BY InsertAtQueue
<1> DEFINE e == Elapsed(q, key)
<1>2. Along(e, q, key) /\ \A i \in 1..Len(q) : Left(q, key)[q[i]] = e[i]
    BY LeftAt
<1>3. new[item] = k - e[pos - 1]
    OBVIOUS
<1> HIDE DEF e
<1> DEFINE d == Elapsed(r, new)
<1>4. Along(d, r, new) /\ \A i \in 1..Len(r) : Left(r, new)[r[i]] = d[i]
    <2>1. r \in Seq(S) /\ IsInjective(r)
        BY <1>0, <1>1
    <2> QED
        BY ONLY <2>1, LeftAt
<1> HIDE DEF d
<1>5. (\A n \in 0..Len(q) : e[n] \in Int) /\ pos \in Nat /\ pos - 1 \in 0..Len(q)
    BY <1>0, <1>2, AlongInt
(* before it *)
<1>6. \A n \in 0..(pos - 1) : d[n] = e[n]
    <2>1. \A n \in 1..(pos - 1) : new[r[0 + n]] = key[q[0 + n]]
        BY <1>0
    <2>2. Stretch(e, q, key, 0, d, r, new, 0, pos - 1, 0)
        <3>1. {0, pos - 1} \subseteq Nat /\ 0 + (pos - 1) <= Len(q) /\ 0 + (pos - 1) <= Len(r)
            BY <1>0, <1>5
        <3>2. d[0] = e[0] + 0
            BY <1>2, <1>4 DEF Along
        <3> QED
            BY <1>2, <1>4, <2>1, <3>1, <3>2 DEF Stretch
    <2>s. Shifted(e, 0, d, 0, pos - 1, 0)
        BY ONLY <2>2, AlongShift
    <2>3. \A n \in 0..(pos - 1) : d[0 + n] = e[0 + n] + 0
        BY <2>s DEF Shifted
    <2>4. ASSUME NEW n \in 0..(pos - 1) PROVE d[n] = e[n]
        <3>1. n \in 0..Len(q) /\ 0 + n = n
            BY <1>0
        <3>2. e[n] \in Int /\ d[0 + n] = e[0 + n] + 0
            BY <1>5, <2>3, <3>1
        <3> QED
            BY <3>1, <3>2
    <2> QED
        BY <2>4
(* the item itself *)
<1>7. d[pos] = k /\ pos \in 1..Len(r) /\ r[pos] = item
    <2>1. pos \in 1..Len(r) /\ r[pos] = item /\ pos - 1 \in 0..(pos - 1)
        BY <1>0
    <2>2. d[pos] = d[pos - 1] + new[item]
        BY <1>4, <2>1 DEF Along
    <2>3. d[pos - 1] = e[pos - 1] /\ e[pos - 1] \in Int
        BY <1>5, <1>6, <2>1
    <2> QED
        BY <1>3, <2>1, <2>2, <2>3
(* and after it *)
<1>8. ASSUME pos <= Len(q) PROVE \A n \in pos..Len(q) : d[n + 1] = e[n]
    <2>1. /\ pos + 1 \in 1..Len(r) /\ (pos + 1) - 1 = pos /\ r[pos + 1] = q[pos] /\ pos \in 1..Len(q)
          /\ Len(q) - pos \in Nat
        BY <1>0, <1>8
    <2>2. d[pos + 1] = k + new[q[pos]]
        BY <1>4, <1>7, <2>1 DEF Along
    <2>3. e[pos] = e[pos - 1] + key[q[pos]] /\ key[q[pos]] \in Int /\ e[pos - 1] \in Int
        BY <1>2, <1>5, <2>1 DEF Along, IntKeys
    <2>4. d[pos + 1] = e[pos] + 0
        BY <1>3, <1>8, <2>2, <2>3, SMTT(30)
    <2>5. \A n \in 1..(Len(q) - pos) : new[r[(pos + 1) + n]] = key[q[pos + n]]
        <3>1. SUFFICES ASSUME NEW n \in 1..(Len(q) - pos) PROVE new[r[(pos + 1) + n]] = key[q[pos + n]]
            OBVIOUS
        <3>2. /\ (pos + 1) + n \in 1..(Len(q) + 1) /\ ((pos + 1) + n) - 1 = pos + n /\ (pos + 1) + n > pos
              /\ pos + n \in 1..Len(q) /\ pos + n # pos
            BY <1>0, <2>1
        <3>3. r[(pos + 1) + n] = q[pos + n]
            BY <1>0, <3>2
        <3> QED
            BY <3>2, <3>3
    <2>6. Stretch(e, q, key, pos, d, r, new, pos + 1, Len(q) - pos, 0)
        <3>1. /\ {pos, pos + 1, Len(q) - pos} \subseteq Nat /\ pos + (Len(q) - pos) <= Len(q)
              /\ (pos + 1) + (Len(q) - pos) <= Len(r) /\ 0 \in Int
            BY <1>0, <2>1
        <3> QED
            BY <1>2, <1>4, <2>4, <2>5, <3>1 DEF Stretch
    <2>s. Shifted(e, pos, d, pos + 1, Len(q) - pos, 0)
        BY ONLY <2>6, AlongShift
    <2>7. \A n \in 0..(Len(q) - pos) : d[(pos + 1) + n] = e[pos + n] + 0
        BY <2>s DEF Shifted
    <2>8. ASSUME NEW n \in pos..Len(q) PROVE d[n + 1] = e[n]
        <3>1. n - pos \in 0..(Len(q) - pos) /\ pos + (n - pos) = n /\ (pos + 1) + (n - pos) = n + 1 /\ n \in 0..Len(q)
            BY <1>0, <1>5
        <3>2. e[n] \in Int /\ d[(pos + 1) + (n - pos)] = e[pos + (n - pos)] + 0
            BY <1>5, <2>7, <3>1
        <3> QED
            BY <3>1, <3>2
    <2> QED
        BY <2>8
<1>9. ASSUME NEW n \in 1..Len(q) PROVE Left(r, new)[q[n]] = Left(q, key)[q[n]]
    <2>1. CASE n < pos
        <3>1. n \in 1..Len(r) /\ r[n] = q[n] /\ n \in 0..(pos - 1)
            BY <1>0, <2>1
        <3> QED
            BY <1>2, <1>4, <1>6, <3>1
    <2>2. CASE n >= pos
        <3>1. n + 1 \in 1..Len(r) /\ r[n + 1] = q[n] /\ n \in pos..Len(q) /\ pos <= Len(q)
            BY <1>0, <2>2
        <3> QED
            BY <1>2, <1>4, <1>8, <3>1
    <2> QED
        BY <1>0, <2>1, <2>2
<1>10. \A x \in ToSet(q) : Left(r, new)[x] = Left(q, key)[x] /\ x # item
    BY <1>0, <1>9 DEF ToSet
<1>11. Left(r, new)[item] = k
    BY <1>4, <1>7
<1>12. \A x \in ToSet(r) : Left(r, new)[x] = IF x = item THEN k ELSE Left(q, key)[x]
    BY <1>1, <1>10, <1>11
<1>13. Left(r, new) = [x \in ToSet(r) |-> Left(r, new)[x]]
    BY DEF Left
<1> QED
    BY <1>1, <1>12, <1>13 DEF Joined

(* A queue with one process less: the one behind it inherits its key. *)
Unslept(q, key, item, new) ==
    /\ IsInjective(q) /\ IntKeys(q, key)
    /\ \A n \in 1..Len(q) : q[n] # item /\ n # IndexOf(q, item) + 1 => new[q[n]] = key[q[n]]
    /\ IndexOf(q, item) < Len(q) => new[q[IndexOf(q, item) + 1]] = key[q[IndexOf(q, item) + 1]] + key[item]

LEMMA LeftShrunk ==
    ASSUME NEW S, NEW q \in Seq(S), NEW key, NEW item \in ToSet(q), NEW new,
           Unslept(q, key, item, new)
    PROVE  Parted(q, key, item, GetItem(q, item), new)
<1> /\ IsInjective(q) /\ IntKeys(q, key)
    /\ \A n \in 1..Len(q) : q[n] # item /\ n # IndexOf(q, item) + 1 => new[q[n]] = key[q[n]]
    /\ IndexOf(q, item) < Len(q) => new[q[IndexOf(q, item) + 1]] = key[q[IndexOf(q, item) + 1]] + key[item]
    BY DEF Unslept
<1> DEFINE i == IndexOf(q, item)
           r == GetItem(q, item)
<1>0. Len(q) \in Nat /\ DOMAIN q = 1..Len(q)
    OBVIOUS
<1>1. i \in 1..Len(q) /\ q[i] = item
    BY DEF IndexOf, ToSet
<1>2. r \in Seq(S) /\ Len(r) = Len(q) - 1 /\ ToSet(r) = ToSet(q) \ {item} /\ IsInjective(r)
    <2>1. q \in Seq(S) /\ IsInjective(q) /\ item \in ToSet(q)
        OBVIOUS
    <2> QED
        BY ONLY <2>1, GetItemQueue
<1>3. r = RemoveAt(q, i)
    BY DEF GetItem
<1>4. \A n \in 1..Len(q) : n # i /\ n # i + 1 => new[q[n]] = key[q[n]]
    BY <1>0, <1>1 DEF IsInjective
<1>5. i < Len(q) => new[q[i + 1]] = key[q[i + 1]] + key[q[i]]
    BY <1>1
<1> HIDE DEF i, r
<1>6. \A j \in 1..(Len(q) - 1) : r[j] = IF j < i THEN q[j] ELSE q[j + 1]
    <2>1. q \in Seq(S) /\ i \in 1..Len(q)
        BY <1>1
    <2> QED
        BY ONLY <1>3, <2>1, RemoveAtElements
<1> DEFINE e == Elapsed(q, key)
<1>7. Along(e, q, key) /\ \A n \in 1..Len(q) : Left(q, key)[q[n]] = e[n]
    BY LeftAt
<1> HIDE DEF e
<1> DEFINE d == Elapsed(r, new)
<1>8. Along(d, r, new) /\ \A n \in 1..Len(r) : Left(r, new)[r[n]] = d[n]
    BY ONLY <1>2, LeftAt
<1> HIDE DEF d
<1>9. \A n \in 0..Len(q) : e[n] \in Int
    BY <1>7, AlongInt
(* before it *)
<1>10. \A n \in 0..(i - 1) : d[n] = e[n]
    <2>1. \A n \in 1..(i - 1) : new[r[0 + n]] = key[q[0 + n]]
        BY <1>0, <1>1, <1>4, <1>6
    <2>2. Stretch(e, q, key, 0, d, r, new, 0, i - 1, 0)
        <3>1. {0, i - 1} \subseteq Nat /\ 0 + (i - 1) <= Len(q) /\ 0 + (i - 1) <= Len(r)
            BY <1>0, <1>1, <1>2
        <3>2. d[0] = e[0] + 0
            BY <1>7, <1>8 DEF Along
        <3> QED
            BY <1>7, <1>8, <2>1, <3>1, <3>2 DEF Stretch
    <2>3. Shifted(e, 0, d, 0, i - 1, 0)
        BY ONLY <2>2, AlongShift
    <2>4. ASSUME NEW n \in 0..(i - 1) PROVE d[n] = e[n]
        <3>1. n \in 0..Len(q) /\ 0 + n = n
            BY <1>0, <1>1
        <3>2. e[n] \in Int /\ d[0 + n] = e[0 + n] + 0
            BY <1>9, <2>3, <3>1 DEF Shifted
        <3> QED
            BY <3>1, <3>2
    <2> QED
        BY <2>4
(* and behind it *)
<1>11. ASSUME i < Len(q) PROVE \A n \in i..Len(r) : d[n] = e[n + 1]
    <2>1. /\ i \in 1..Len(r) /\ i \in 1..Len(q) /\ r[i] = q[i + 1] /\ i + 1 \in 1..Len(q) /\ (i + 1) - 1 = i
          /\ i - 1 \in 0..(i - 1) /\ i - 1 \in 0..Len(q) /\ Len(r) - i \in Nat
        BY <1>0, <1>1, <1>2, <1>6, <1>11
    <2>2. d[i] = d[i - 1] + new[q[i + 1]] /\ e[i] = e[i - 1] + key[q[i]] /\ e[i + 1] = e[i] + key[q[i + 1]]
        BY <1>7, <1>8, <2>1 DEF Along
    <2>3. e[i - 1] \in Int /\ key[q[i]] \in Int /\ key[q[i + 1]] \in Int /\ d[i - 1] = e[i - 1]
        BY <1>9, <1>10, <2>1 DEF IntKeys
    <2>4. d[i] = e[i + 1] + 0
        BY <1>5, <1>11, <2>2, <2>3
    <2>5. \A n \in 1..(Len(r) - i) : new[r[i + n]] = key[q[(i + 1) + n]]
        <3>1. SUFFICES ASSUME NEW n \in 1..(Len(r) - i) PROVE new[r[i + n]] = key[q[(i + 1) + n]]
            OBVIOUS
        <3>2. /\ i + n \in 1..(Len(q) - 1) /\ ~(i + n < i) /\ (i + n) + 1 = (i + 1) + n
              /\ (i + 1) + n \in 1..Len(q) /\ (i + 1) + n # i /\ (i + 1) + n # i + 1
            BY <1>0, <1>1, <1>2, <2>1
        <3>3. r[i + n] = q[(i + 1) + n]
            BY <1>6, <3>2
        <3> QED
            BY <1>4, <3>2, <3>3
    <2>6. Stretch(e, q, key, i + 1, d, r, new, i, Len(r) - i, 0)
        <3>1. /\ {i + 1, i, Len(r) - i} \subseteq Nat /\ (i + 1) + (Len(r) - i) <= Len(q)
              /\ i + (Len(r) - i) <= Len(r) /\ 0 \in Int
            BY <1>0, <1>1, <1>2, <2>1
        <3> QED
            BY <1>7, <1>8, <2>4, <2>5, <3>1 DEF Stretch
    <2>7. Shifted(e, i + 1, d, i, Len(r) - i, 0)
        BY ONLY <2>6, AlongShift
    <2>8. ASSUME NEW n \in i..Len(r) PROVE d[n] = e[n + 1]
        <3>1. /\ n - i \in 0..(Len(r) - i) /\ i + (n - i) = n /\ (i + 1) + (n - i) = n + 1 /\ n + 1 \in 0..Len(q)
            BY <1>0, <1>1, <1>2
        <3>2. e[n + 1] \in Int /\ d[i + (n - i)] = e[(i + 1) + (n - i)] + 0
            BY <1>9, <2>7, <3>1 DEF Shifted
        <3> QED
            BY <3>1, <3>2
    <2> QED
        BY <2>8
<1>12. ASSUME NEW n \in 1..Len(r) PROVE Left(r, new)[r[n]] = Left(q, key)[r[n]]
    <2>1. CASE n < i
        <3>1. n \in 1..(Len(q) - 1) /\ n \in 1..Len(q) /\ n \in 0..(i - 1)
            BY <1>0, <1>1, <1>2, <2>1
        <3>2. r[n] = q[n] /\ d[n] = e[n]
            BY <1>6, <1>10, <2>1, <3>1
        <3> QED
            BY <1>7, <1>8, <3>1, <3>2
    <2>2. CASE n >= i
        <3>1. n \in 1..(Len(q) - 1) /\ n + 1 \in 1..Len(q) /\ n \in i..Len(r) /\ i < Len(q) /\ ~(n < i)
            BY <1>0, <1>1, <1>2, <2>2
        <3>2. r[n] = q[n + 1] /\ d[n] = e[n + 1]
            BY <1>6, <1>11, <3>1
        <3> QED
            BY <1>7, <1>8, <3>1, <3>2
    <2> QED
        BY <1>1, <2>1, <2>2
<1>13. \A x \in ToSet(r) : Left(r, new)[x] = Left(q, key)[x]
    <2>1. DOMAIN r = 1..Len(r)
        BY <1>2
    <2> QED
        BY <1>12, <2>1 DEF ToSet
<1>14. Left(r, new) = [x \in ToSet(r) |-> Left(q, key)[x]]
    BY <1>13 DEF Left
<1> QED
    BY <1>2, <1>14 DEF r, Parted

-----------------------------------------------------------------------------
(* The delta list's operations *)
NatKeys(q, key) == \A n \in 1..Len(q) : key[q[n]] \in Nat
HeadUp(q, key) == q # <<>> => key[q[1]] > 0

(* r and new hold the countdowns of q and key and one of k for the item. *)
Entered(q, key, item, k, r, new) ==
    /\ Joined(q, key, item, k, r, new)
    /\ IntKeys(r, new)
    /\ k \in Nat /\ NatKeys(q, key) => NatKeys(r, new)
    /\ k > 0 /\ HeadUp(q, key) => HeadUp(r, new)

Listed(q, key, item) ==
    /\ IsInjective(q) /\ IntKeys(q, key) /\ ToSet(q) \cup {item} \subseteq DOMAIN key

LEMMA DeltaEntered ==
    ASSUME NEW S, NEW q \in Seq(S), NEW key, NEW item \in S, Listed(q, key, item), item \notin ToSet(q),
           NEW k \in Int, NEW new,
           \A x \in ToSet(q) \cup {item} : new[x] = InsertDeltaKeys(q, item, k, key)[x]
    PROVE  Entered(q, key, item, k, InsertDelta(q, item, k, key), new)
<1>a. IsInjective(q) /\ IntKeys(q, key) /\ item \in DOMAIN key /\ \A x \in ToSet(q) : x \in DOMAIN key
    BY DEF Listed
<1> DEFINE e == Elapsed(q, key)
           past == {i \in 1..Len(q) : e[i] <= k}
           m == Passed(q, past)
           pos == DeltaPosition(q, k, key)
           r == InsertDelta(q, item, k, key)
<1>0. Len(q) \in Nat /\ DOMAIN q = 1..Len(q) /\ \A n \in 1..Len(q) : q[n] \in ToSet(q)
    BY DEF ToSet
<1>1. Along(e, q, key)
    BY ElapsedAlong
<1>2. \A n \in 0..Len(q) : e[n] \in Int
    BY <1>1, <1>a, AlongInt
<1>3. pos = 1 + m /\ r = InsertAt(q, pos, item)
    BY DEF DeltaPosition, InsertDelta
<1>4. InsertDeltaKeys(q, item, k, key) =
        [p \in DOMAIN key |-> IF p = item THEN k - e[pos - 1]
                              ELSE IF p \in (IF pos <= Len(q) THEN {q[pos]} ELSE {}) THEN key[p] - (k - e[pos - 1])
                              ELSE key[p]]
    BY DEF InsertDeltaKeys
<1> HIDE DEF e
<1>5. m \in 0..Len(q)
    BY PassedBound
<1>6. (\A i \in 1..m : i \in past) /\ (m < Len(q) => m + 1 \notin past)
    BY PassedExact
<1>7. (\A i \in 1..m : e[i] <= k) /\ (m < Len(q) => e[m + 1] > k)
    BY <1>0, <1>2, <1>5, <1>6
<1> HIDE DEF m, past, pos, r
<1>8. pos \in 1..(Len(q) + 1) /\ pos - 1 = m /\ pos - 1 \in 0..Len(q) /\ e[pos - 1] \in Int
    BY <1>0, <1>2, <1>3, <1>5
<1>9. new[item] = k - e[pos - 1]
    BY <1>4, <1>a
<1>10. \A n \in 1..Len(q) : n # pos => new[q[n]] = key[q[n]]
    <2>1. SUFFICES ASSUME NEW n \in 1..Len(q), n # pos PROVE new[q[n]] = key[q[n]]
        OBVIOUS
    <2>2. q[n] # item /\ q[n] \in ToSet(q) /\ q[n] \in DOMAIN key
        BY <1>0, <1>a
    <2>3. pos <= Len(q) => q[n] # q[pos]
        BY <1>0, <1>8, <1>a, <2>1 DEF IsInjective
    <2>4. InsertDeltaKeys(q, item, k, key)[q[n]] = key[q[n]]
        BY <1>4, <2>2, <2>3
    <2> QED
        BY <2>2, <2>4
<1>11. pos <= Len(q) => new[q[pos]] = key[q[pos]] - new[item]
    <2>1. SUFFICES ASSUME pos <= Len(q) PROVE new[q[pos]] = key[q[pos]] - new[item]
        OBVIOUS
    <2>2. pos \in 1..Len(q) /\ q[pos] \in ToSet(q) /\ q[pos] # item /\ q[pos] \in DOMAIN key
        BY <1>0, <1>8, <1>a, <2>1
    <2>3. InsertDeltaKeys(q, item, k, key)[q[pos]] = key[q[pos]] - (k - e[pos - 1])
        BY <1>4, <2>1, <2>2
    <2> QED
        BY <1>9, <2>2, <2>3
<1>12. /\ r \in Seq(S) /\ Len(r) = Len(q) + 1
       /\ \A j \in 1..(Len(q) + 1) : r[j] = IF j < pos THEN q[j] ELSE IF j = pos THEN item ELSE q[j - 1]
    <2> DEFINE it == InsertAt(q, pos, item)
    <2>1. it \in Seq(S) /\ Len(it) = Len(q) + 1
          /\ \A j \in 1..(Len(q) + 1) : it[j] = IF j < pos THEN q[j] ELSE IF j = pos THEN item ELSE q[j - 1]
        <3>1. q \in Seq(S) /\ item \in S /\ pos \in 1..(Len(q) + 1)
            BY <1>8
        <3> QED
            BY ONLY <3>1, InsertAtElements
    <2>2. r = it
        BY <1>3
    <2> HIDE DEF it
    <2> QED
        BY <2>1, <2>2
<1>13. Joined(q, key, item, k, r, new)
    <2>1. r = InsertAt(q, pos, item)
        BY <1>3
    <2>2. new[item] = k - Elapsed(q, key)[pos - 1]
        BY <1>9 DEF e
    <2>3. Inserted(q, key, item, pos, k, r, new)
        BY <1>a, <1>8, <1>10, <1>11, <2>1, <2>2 DEF Inserted
    <2>4. q \in Seq(S) /\ item \in S /\ k \in Int
        OBVIOUS
    <2> QED
        BY ONLY <1>8, <2>3, <2>4, LeftGrown
<1>14. ASSUME NEW n \in 1..Len(r)
       PROVE  \/ r[n] = item /\ n = pos
              \/ /\ pos <= Len(q) /\ r[n] = q[pos] /\ n = pos + 1 
                 /\ new[r[n]] = key[q[pos]] - new[item]
              \/ \E j \in 1..Len(q) : r[n] = q[j] /\ new[r[n]] = key[q[j]]
    <2>1. CASE n = pos
        BY <1>8, <1>12, <2>1
    <2>2. CASE n < pos
        <3>1. n \in 1..Len(q) /\ n # pos
            BY <1>0, <1>8, <1>12, <2>2
        <3>2. r[n] = q[n] /\ new[q[n]] = key[q[n]]
            BY <1>10, <1>12, <2>2, <3>1
        <3> QED
            BY <3>1, <3>2
    <2>3. CASE n = pos + 1
        <3>1. pos <= Len(q) /\ r[n] = q[pos]
            BY <1>0, <1>8, <1>12, <2>3
        <3> QED
            BY <1>11, <2>3, <3>1
    <2>4. CASE n > pos + 1
        <3>1. n - 1 \in 1..Len(q) /\ n - 1 # pos /\ r[n] = q[n - 1]
            BY <1>0, <1>8, <1>12, <2>4
        <3>2. new[q[n - 1]] = key[q[n - 1]]
            BY <1>10, <3>1
        <3> QED
            BY <3>1, <3>2
    <2> QED
        BY <1>0, <1>8, <1>12, <2>1, <2>2, <2>3, <2>4
<1>15. new[item] \in Int
    BY <1>8, <1>9
<1>16. IntKeys(r, new)
    <2>1. \A j \in 1..Len(q) : key[q[j]] \in Int
        BY <1>a DEF IntKeys
    <2>2. ASSUME NEW n \in 1..Len(r) PROVE new[r[n]] \in Int
        <3>1. pos <= Len(q) => key[q[pos]] - new[item] \in Int
            <4>1. pos <= Len(q) => pos \in 1..Len(q)
                BY <1>0, <1>8
            <4> QED
                BY <1>15, <2>1, <4>1
        <3> QED
            BY <1>14, <1>15, <2>1, <3>1
    <2> QED
        BY <2>2 DEF IntKeys
<1>17. ASSUME k \in Nat, NatKeys(q, key) PROVE NatKeys(r, new)
    <2>1. \A j \in 1..Len(q) : key[q[j]] \in Nat
        BY <1>17 DEF NatKeys
    <2>2. new[item] \in Nat
        <3>1. CASE m = 0
            BY <1>1, <1>8, <1>9, <1>17, <3>1 DEF Along
        <3>2. CASE m # 0
            <4>1. m \in 1..m
                BY <1>5, <3>2
            <4> QED
                BY <1>7, <1>8, <1>9, <4>1
        <3> QED
            BY <3>1, <3>2
    <2>3. pos <= Len(q) => key[q[pos]] - new[item] \in Nat
        <3>1. SUFFICES ASSUME pos <= Len(q) PROVE key[q[pos]] - new[item] \in Nat
            OBVIOUS
        <3>2. pos \in 1..Len(q) /\ pos = m + 1 /\ m < Len(q)
            BY <1>0, <1>5, <1>8, <3>1
        <3>3. e[pos] > k /\ e[pos] = e[pos - 1] + key[q[pos]] /\ key[q[pos]] \in Nat
            BY <1>1, <1>7, <2>1, <3>2 DEF Along
        <3> QED
            BY <1>8, <1>9, <3>3
    <2>4. ASSUME NEW n \in 1..Len(r) PROVE new[r[n]] \in Nat
        BY <1>14, <2>1, <2>2, <2>3
    <2> QED
        BY <2>4 DEF NatKeys
<1>18. ASSUME k > 0, HeadUp(q, key) PROVE HeadUp(r, new)
    <2>1. CASE pos = 1
        <3>1. r[1] = item /\ new[item] = k
            BY <1>0, <1>1, <1>8, <1>9, <1>12, <2>1 DEF Along
        <3> QED
            BY <1>18, <3>1 DEF HeadUp
    <2>2. CASE pos # 1
        <3>1. 1 \in 1..Len(q) /\ q # <<>> /\ r[1] = q[1]
            BY <1>0, <1>8, <1>12, <2>2
        <3> QED
            BY <1>10, <1>18, <2>2, <3>1 DEF HeadUp
    <2> QED
        BY <2>1, <2>2
<1>19. Entered(q, key, item, k, r, new)
    BY <1>13, <1>16, <1>17, <1>18 DEF Entered
<1> QED
    BY <1>19 DEF r

Removed(q, key, item, r, new) ==
    /\ Parted(q, key, item, r, new)
    /\ IntKeys(r, new)
    /\ NatKeys(q, key) => NatKeys(r, new)
    /\ NatKeys(q, key) /\ HeadUp(q, key) => HeadUp(r, new)

LEMMA DeltaRemoved ==
    ASSUME NEW S, NEW q \in Seq(S), NEW key, NEW item \in ToSet(q), Listed(q, key, item),
           NEW new, \A x \in ToSet(q) \ {item} : new[x] = UnsleepKeys(q, item, key)[x]
    PROVE  Removed(q, key, item, GetItem(q, item), new)
<1>a. IsInjective(q) /\ IntKeys(q, key) /\ \A x \in ToSet(q) : x \in DOMAIN key
    BY DEF Listed
<1> DEFINE i == IndexOf(q, item)
           r == GetItem(q, item)
<1>0. Len(q) \in Nat /\ DOMAIN q = 1..Len(q) /\ \A n \in 1..Len(q) : q[n] \in ToSet(q)
    BY DEF ToSet
<1>1. i \in 1..Len(q) /\ q[i] = item
    BY DEF IndexOf, ToSet
<1>2. UnsleepKeys(q, item, key) =
        [p \in DOMAIN key |-> IF p \in (IF i < Len(q) THEN {q[i + 1]} ELSE {}) THEN key[p] + key[item] ELSE key[p]]
    BY DEF UnsleepKeys
<1>3. \A n, j \in 1..Len(q) : n # j => q[n] # q[j]
    BY <1>0, <1>a DEF IsInjective
<1>4. \A n \in 1..Len(q) : q[n] # item /\ n # IndexOf(q, item) + 1 => new[q[n]] = key[q[n]]
    <2> HIDE DEF i
    <2>1. SUFFICES ASSUME NEW n \in 1..Len(q), q[n] # item, n # i + 1 PROVE new[q[n]] = key[q[n]]
        BY DEF i
    <2>2. q[n] \in ToSet(q) /\ q[n] \in DOMAIN key
        BY <1>0, <1>a
    <2>3. i < Len(q) => q[n] # q[i + 1]
        BY <1>0, <1>1, <1>3, <2>1
    <2>4. UnsleepKeys(q, item, key)[q[n]] = key[q[n]]
        BY <1>2, <2>2, <2>3
    <2> QED
        BY <2>1, <2>2, <2>4
<1>5. i < Len(q) => new[q[i + 1]] = key[q[i + 1]] + key[item]
    <2> HIDE DEF i
    <2>1. SUFFICES ASSUME i < Len(q) PROVE new[q[i + 1]] = key[q[i + 1]] + key[item]
        OBVIOUS
    <2>2. i + 1 \in 1..Len(q) /\ q[i + 1] \in ToSet(q) /\ q[i + 1] # item /\ q[i + 1] \in DOMAIN key
        BY <1>0, <1>1, <1>3, <1>a, <2>1
    <2>3. UnsleepKeys(q, item, key)[q[i + 1]] = key[q[i + 1]] + key[item]
        BY <1>2, <2>1, <2>2
    <2> QED
        BY <2>2, <2>3
<1>6. Parted(q, key, item, r, new)
    <2>1. Unslept(q, key, item, new)
        BY <1>a, <1>4, <1>5 DEF Unslept
    <2>2. q \in Seq(S) /\ item \in ToSet(q)
        OBVIOUS
    <2> QED
        BY ONLY <2>1, <2>2, LeftShrunk
<1>7. r \in Seq(S) /\ Len(r) = Len(q) - 1 /\ \A j \in 1..(Len(q) - 1) : r[j] = IF j < i THEN q[j] ELSE q[j + 1]
    <2>1. q \in Seq(S) /\ i \in 1..Len(q)
        BY <1>1
    <2>2. r = RemoveAt(q, i)
        BY DEF GetItem
    <2> HIDE DEF i, r
    <2> QED
        BY ONLY <2>1, <2>2, RemoveAtElements
<1> HIDE DEF r
<1>8. /\ \A n \in 1..Len(q) : n # i /\ n # i + 1 => new[q[n]] = key[q[n]]
      /\ i < Len(q) => new[q[i + 1]] = key[q[i + 1]] + key[q[i]]
    BY <1>1, <1>3, <1>4, <1>5
<1> HIDE DEF i
<1>9. ASSUME NEW n \in 1..Len(r)
      PROVE  \/ i < Len(q) /\ new[r[n]] = key[q[i + 1]] + key[q[i]]
             \/ \E j \in 1..Len(q) : new[r[n]] = key[q[j]]
    <2>1. CASE n < i
        <3>1. n \in 1..Len(q) /\ n # i /\ n # i + 1 /\ r[n] = q[n]
            BY <1>0, <1>1, <1>7, <2>1
        <3> QED
            BY <1>8, <3>1
    <2>2. CASE n = i
        <3>1. i < Len(q) /\ r[n] = q[i + 1]
            BY <1>0, <1>1, <1>7, <2>2
        <3> QED
            BY <1>8, <3>1
    <2>3. CASE n > i
        <3>1. n + 1 \in 1..Len(q) /\ n + 1 # i /\ n + 1 # i + 1 /\ r[n] = q[n + 1]
            BY <1>0, <1>1, <1>7, <2>3
        <3> QED
            BY <1>8, <3>1
    <2> QED
        BY <1>0, <1>1, <1>7, <2>1, <2>2, <2>3
<1>10. IntKeys(r, new)
    <2>1. \A j \in 1..Len(q) : key[q[j]] \in Int
        BY <1>a DEF IntKeys
    <2>2. i < Len(q) => key[q[i + 1]] + key[q[i]] \in Int
        BY <1>0, <1>1, <2>1
    <2>3. ASSUME NEW n \in 1..Len(r) PROVE new[r[n]] \in Int
        BY <1>9, <2>1, <2>2
    <2> QED
        BY <2>3 DEF IntKeys
<1>11. ASSUME NatKeys(q, key) PROVE NatKeys(r, new)
    <2>1. \A j \in 1..Len(q) : key[q[j]] \in Nat
        BY <1>11 DEF NatKeys
    <2>2. i < Len(q) => key[q[i + 1]] + key[q[i]] \in Nat
        BY <1>0, <1>1, <2>1
    <2>3. ASSUME NEW n \in 1..Len(r) PROVE new[r[n]] \in Nat
        BY <1>9, <2>1, <2>2
    <2> QED
        BY <2>3 DEF NatKeys
<1>12. ASSUME NatKeys(q, key), HeadUp(q, key), r # <<>> PROVE new[r[1]] > 0
    <2>1. 1 \in 1..Len(r) /\ 1 \in 1..(Len(q) - 1) /\ 1 \in 1..Len(q) /\ 2 \in 1..Len(q) /\ q # <<>>
        BY <1>0, <1>7, <1>12, EmptySeq
    <2>2. key[q[1]] > 0 /\ key[q[1]] \in Nat /\ key[q[2]] \in Nat
        BY <1>12, <2>1 DEF NatKeys, HeadUp
    <2>3. CASE i = 1
        <3>1. r[1] = q[2] /\ new[q[2]] = key[q[2]] + key[q[1]]
            BY <1>7, <1>8, <2>1, <2>3
        <3> QED
            BY <2>2, <3>1
    <2>4. CASE i # 1
        <3>1. r[1] = q[1] /\ 1 # i /\ 1 # i + 1
            BY <1>1, <1>7, <2>1, <2>4
        <3> QED
            BY <1>8, <2>1, <2>2, <3>1
    <2> QED
        BY <2>3, <2>4
<1>13. Removed(q, key, item, r, new)
    BY <1>6, <1>10, <1>11, <1>12 DEF Removed, HeadUp
<1> QED
    BY <1>13 DEF r

(* A delay is never negative, nor shorter than that of the head. *)
LEMMA LeftAtLeast ==
    ASSUME NEW S, NEW q \in Seq(S), IsInjective(q), NEW key, NatKeys(q, key)
    PROVE  /\ \A x \in ToSet(q) : Left(q, key)[x] \in Nat
           /\ \A x \in ToSet(q) : Left(q, key)[x] >= key[q[1]]
           /\ q # <<>> => Left(q, key)[q[1]] = key[q[1]]
<1> DEFINE e == Elapsed(q, key)
<1>1. Along(e, q, key) /\ \A i \in 1..Len(q) : Left(q, key)[q[i]] = e[i]
    BY LeftAt
<1> HIDE DEF e
<1>2. Len(q) \in Nat /\ DOMAIN q = 1..Len(q)
    OBVIOUS
<1> DEFINE Good == {n \in Nat : n + 1 <= Len(q) => e[n + 1] \in Nat /\ e[n + 1] >= key[q[1]]}
<1>3. 0 \in Good
    <2>1. SUFFICES ASSUME 1 <= Len(q) PROVE e[1] \in Nat /\ e[1] >= key[q[1]]
        OBVIOUS
    <2>2. 1 \in 1..Len(q) /\ key[q[1]] \in Nat
        BY <1>2, <2>1 DEF NatKeys
    <2> QED
        BY <1>1, <2>2 DEF Along
<1>4. ASSUME NEW n \in Nat, n \in Good PROVE n + 1 \in Good
    <2>1. SUFFICES ASSUME (n + 1) + 1 <= Len(q) PROVE e[(n + 1) + 1] \in Nat /\ e[(n + 1) + 1] >= key[q[1]]
        OBVIOUS
    <2>2. (n + 1) + 1 \in 1..Len(q) /\ 1 \in 1..Len(q) /\ ((n + 1) + 1) - 1 = n + 1 /\ n + 1 <= Len(q)
        BY <1>2, <2>1
    <2>3. /\ key[q[(n + 1) + 1]] \in Nat /\ key[q[1]] \in Nat /\ e[n + 1] \in Nat /\ e[n + 1] >= key[q[1]]
          /\ e[(n + 1) + 1] = e[n + 1] + key[q[(n + 1) + 1]]
        BY <1>1, <1>4, <2>2 DEF NatKeys, Along
    <2> QED
        BY <2>3
<1> HIDE DEF Good
<1>5. \A n \in Nat : n \in Good
    BY <1>3, <1>4, NaturalInduction
<1>6. ASSUME NEW i \in 1..Len(q) PROVE e[i] \in Nat /\ e[i] >= key[q[1]]
    <2>1. i - 1 \in Nat /\ (i - 1) + 1 = i /\ i - 1 \in Good
        BY <1>2, <1>5
    <2> QED
        BY <1>2, <2>1 DEF Good
<1>7. \A x \in ToSet(q) : Left(q, key)[x] \in Nat /\ Left(q, key)[x] >= key[q[1]]
    BY <1>1, <1>2, <1>6 DEF ToSet
<1>8. ASSUME q # <<>> PROVE Left(q, key)[q[1]] = key[q[1]]
    <2>1. 1 \in 1..Len(q)
        BY <1>2, <1>8, EmptySeq
    <2>2. e[1] = key[q[1]]
        BY <1>1, <2>1 DEF Along, NatKeys
    <2> QED
        BY <1>1, <2>1, <2>2
<1> QED
    BY <1>7, <1>8

-----------------------------------------------------------------------------
(* Whose key the scheduler writes *)
LEMMA SwitchKeys ==
    ASSUME NEW st, NEW rl, NEW key, NEW slice, DOMAIN key = Pid, Switch(st, rl, key, slice)
    PROVE  \A x \in Pid : st[x] # "CURR" => qkey'[x] = key[x]
BY DEF Switch, Stay, Dispatch

LEMMA ReschedKeys ==
    ASSUME NEW st, NEW rl, NEW key, DOMAIN key = Pid, Resched(st, rl, key)
    PROVE  \A x \in Pid : st[x] # "CURR" => qkey'[x] = key[x]
<1>1. CASE Stay(st, rl, key, preempt)
    BY <1>1 DEF Stay
<1>2. CASE Switch(st, rl, key, preempt)
    BY <1>2, SwitchKeys
<1> QED
    BY <1>1, <1>2 DEF Resched

LEMMA ReadyKeys ==
    ASSUME SchedOK, NEW p \in Pid, NEW key, DOMAIN key = Pid, Ready(p, key)
    PROVE  \A x \in Pid : x # p /\ prstate[x] # "CURR" => qkey'[x] = key[x]
<1> DEFINE st == [prstate EXCEPT ![p] = "READY"]
           rl == Insert(readylist, p, prprio[p], key)
           new == [key EXCEPT ![p] = prprio[p]]
<1>1. Resched(st, rl, new)
    BY DEF Ready
<1>2. DOMAIN new = Pid /\ \A x \in Pid : x # p => new[x] = key[x] /\ st[x] = prstate[x]
    BY DEF SchedOK
<1> HIDE DEF st, rl, new
<1>3. \A x \in Pid : st[x] # "CURR" => qkey'[x] = new[x]
    BY <1>1, <1>2, ReschedKeys
<1> QED
    BY <1>2, <1>3

LEMMA BlockKeys ==
    ASSUME SchedOK, NEW state, state # "CURR", NEW key, DOMAIN key = Pid, Block(state, key)
    PROVE  \A x \in Pid : x = currpid \/ prstate[x] # "CURR" => qkey'[x] = key[x]
<1> DEFINE st == [prstate EXCEPT ![currpid] = state]
<1>1. Resched(st, readylist, key)
    BY DEF Block
<1>2. \A x \in Pid : st[x] = IF x = currpid THEN state ELSE prstate[x]
    BY DEF SchedOK
<1> HIDE DEF st
<1>3. \A x \in Pid : st[x] # "CURR" => qkey'[x] = key[x]
    BY <1>1, ReschedKeys
<1> QED
    BY <1>2, <1>3

LEMMA StopKeys ==
    ASSUME SchedOK, DeferStop
    PROVE  \A x \in Pid : prstate[x] # "CURR" => qkey'[x] = qkey[x]
<1>1. DOMAIN qkey = Pid
    BY DEF SchedOK
<1>2. CASE Stay(prstate, readylist, qkey, preempt)
    BY <1>2 DEF Stay
<1>3. CASE Switch(prstate, readylist, qkey, preempt)
    BY <1>1, <1>3, SwitchKeys
<1> QED
    BY <1>2, <1>3 DEF DeferStop

LEMMA EndSliceKeys ==
    ASSUME NEW key, DOMAIN key = Pid, EndSlice(key)
    PROVE  \A x \in Pid : prstate[x] # "CURR" => qkey'[x] = key[x]
<1>1. CASE Stay(prstate, readylist, key, preempt - 1)
    BY <1>1 DEF Stay
<1>2. CASE Switch(prstate, readylist, key, QUANTUM)
    BY <1>2, SwitchKeys
<1> QED
    BY <1>1, <1>2 DEF EndSlice

-----------------------------------------------------------------------------
(* The five things a step does to the sleep queue *)
SleepersKept == sleepq' = sleepq /\ \A x \in ToSet(sleepq) : qkey'[x] = qkey[x]

Enters(p, k) ==
    /\ p \notin ToSet(sleepq) /\ sleepq' = InsertDelta(sleepq, p, k, qkey)
    /\ \A x \in ToSet(sleepq) \cup {p} : qkey'[x] = InsertDeltaKeys(sleepq, p, k, qkey)[x]

Leaves(p) ==
    /\ p \in ToSet(sleepq) /\ sleepq' = GetItem(sleepq, p)
    /\ \A x \in ToSet(sleepq) \ {p} : qkey'[x] = UnsleepKeys(sleepq, p, qkey)[x]

Released ==
    /\ sleepq # <<>> /\ qkey[Head(sleepq)] <= 0 /\ sleepq' = Tail(sleepq)
    /\ \A x \in ToSet(sleepq) \ {Head(sleepq)} : qkey'[x] = qkey[x]

Ticked ==
    /\ sleepq # <<>> /\ sleepq' = sleepq
    /\ \A x \in ToSet(sleepq) : qkey'[x] = IF x = Head(sleepq) THEN qkey[x] - 1 ELSE qkey[x]

AtWakeup == kpc[currpid].at = "wakeup"

LEMMA SleeperFacts ==
    ASSUME IInv
    PROVE  /\ sleepq \in Seq(Pid) /\ IsInjective(sleepq) /\ DOMAIN qkey = Pid
           /\ \A x \in ToSet(sleepq) : /\ x \in Pid /\ x # currpid
                                       /\ prstate[x] \in {"SLEEP", "RECTIM"}
           /\ currpid \in Pid /\ prstate[currpid] = "CURR"
<1>1. sleepq \in Seq(Pid) /\ \A x \in ToSet(sleepq) : x \in Pid
    BY DEF IInv, SleepOK, ToSet
<1> QED
    BY <1>1 DEF IInv, SchedOK, SleepOK, SomeoneToRun

(* A process that does not sleep becomes ready. *)
LEMMA ReadyUndisturbed ==
    ASSUME IInv, NEW p \in Pid, p \notin ToSet(sleepq), Ready(p, qkey), UNCHANGED sleepq
    PROVE  SleepersKept
<1>1. SchedOK /\ DOMAIN qkey = Pid
    BY SleeperFacts DEF IInv
<1>2. \A x \in Pid : x # p /\ prstate[x] # "CURR" => qkey'[x] = qkey[x]
    BY <1>1, ReadyKeys
<1> QED
    BY <1>2, SleeperFacts DEF SleepersKept

LEMMA KeysUndisturbed ==
    ASSUME IInv, UNCHANGED <<qkey, sleepq>>
    PROVE  SleepersKept
BY DEF SleepersKept

LEMMA StopUndisturbed ==
    ASSUME IInv, DeferStop, UNCHANGED sleepq
    PROVE  SleepersKept
BY SleeperFacts, StopKeys DEF SleepersKept, IInv

LEMMA BlockUndisturbed ==
    ASSUME IInv, NEW state, state # "CURR", Block(state, qkey), UNCHANGED sleepq
    PROVE  SleepersKept
<1>1. \A x \in Pid : x = currpid \/ prstate[x] # "CURR" => qkey'[x] = qkey[x]
    BY SleeperFacts, BlockKeys DEF IInv
<1> QED
    BY <1>1, SleeperFacts DEF SleepersKept

LEMMA ReschedUndisturbed ==
    ASSUME IInv, Resched(prstate, readylist, qkey), UNCHANGED sleepq
    PROVE  SleepersKept
<1>1. \A x \in Pid : prstate[x] # "CURR" => qkey'[x] = qkey[x]
    BY SleeperFacts, ReschedKeys
<1> QED
    BY <1>1, SleeperFacts DEF SleepersKept

LEMMA VUndisturbed ==
    ASSUME IInv, NEW s \in Sem, ~Resetting(s), V(s), UNCHANGED sleepq
    PROVE  SleepersKept
<1>1. CASE UNCHANGED dispatchVars
    BY <1>1, KeysUndisturbed DEF dispatchVars
<1>2. CASE scount[s] < 0 /\ Ready(Head(squeue[s]), qkey)
    <2>1. squeue[s] \in Seq(Pid) /\ squeue[s] # <<>>
        BY <1>2, QueueFacts
    <2>2. PICK p \in Pid : p = Head(squeue[s]) /\ p \in ToSet(squeue[s])
        BY <2>1, EmptySeq DEF ToSet
    <2>3. prstate[p] = "WAIT"
        BY <2>2 DEF IInv, SemOK
    <2>4. p \notin ToSet(sleepq)
        BY <2>3, SleeperFacts
    <2> QED
        BY <1>2, <2>2, <2>4, ReadyUndisturbed
<1> QED
    BY <1>1, <1>2 DEF V

(* How a sleeper leaves before its time: its process is killed or gets a message. *)
Called(p) == prstate[p] = "RECTIM" /\ ~prhasmsg[p] /\ prhasmsg'[p]

SleepStep ==
    \/ SleepersKept /\ (AtWakeup => AtWakeup' \/ ~Expired)
    \/ AtWakeup /\ AtWakeup' /\ Released
    \/ /\ ~AtWakeup
       /\ \/ \E p \in Pid, k \in (Delays \ {0}) \cup Timeouts : Enters(p, k)
          \/ \E p \in Pid : Leaves(p) /\ (prstate'[p] = "FREE" \/ Called(p))
          \/ Ticked /\ (qkey[Head(sleepq)] = 1 => AtWakeup')

LEMMA UserAwake == InUser => ~AtWakeup
BY DEF InUser, AtWakeup, User, Doing

(* The sender's part in send and in kill. *)
LEMMA DeliverSleeps ==
    ASSUME IInv, NEW p \in Pid, Deliver(p), ~AtWakeup
    PROVE  SleepStep
<1>1. CASE UNCHANGED <<sleepq, dispatchVars>>
    BY <1>1, KeysUndisturbed DEF SleepStep, dispatchVars
<1>2. CASE prstate[p] = "RECV" /\ Ready(p, qkey) /\ UNCHANGED sleepq
    <2>1. p \notin ToSet(sleepq)
        BY <1>2, SleeperFacts
    <2> QED
        BY <1>2, <2>1, ReadyUndisturbed DEF SleepStep
<1>3. CASE /\ ~prhasmsg[p] /\ prhasmsg' = [prhasmsg EXCEPT ![p] = TRUE]
           /\ prstate[p] = "RECTIM" /\ sleepq' = GetItem(sleepq, p) /\ Ready(p, UnsleepKeys(sleepq, p, qkey))
    <2> DEFINE key == UnsleepKeys(sleepq, p, qkey)
    <2>1. p \in ToSet(sleepq) /\ SchedOK /\ DOMAIN qkey = Pid
        BY <1>3, SleeperFacts DEF IInv, SleepOK
    <2>2. DOMAIN key = Pid /\ Ready(p, key)
        BY <1>3, <2>1, DeltaKeysDomain
    <2>3. \A x \in ToSet(sleepq) \ {p} : qkey'[x] = key[x]
        <3> HIDE DEF key
        <3>1. \A x \in Pid : x # p /\ prstate[x] # "CURR" => qkey'[x] = key[x]
            BY <2>1, <2>2, ReadyKeys
        <3> QED
            BY <3>1, SleeperFacts
    <2>4. Leaves(p)
        BY <1>3, <2>1, <2>3 DEF Leaves
    <2>5. Called(p)
        BY <1>3, Zenon DEF Called, IInv, FieldsOK
    <2> QED
        BY <2>4, <2>5 DEF SleepStep
<1> QED
    <2>1. \/ UNCHANGED <<sleepq, dispatchVars>>
          \/ ~prhasmsg[p] /\ prhasmsg' = [prhasmsg EXCEPT ![p] = TRUE] /\ Wake(p)
        BY Zenon DEF Deliver
    <2>2. CASE ~prhasmsg[p] /\ prhasmsg' = [prhasmsg EXCEPT ![p] = TRUE] /\ Wake(p)
        BY <1>1, <1>2, <1>3, <2>2, Zenon DEF Wake
    <2> QED
        BY <1>1, <2>1, <2>2

(* The current process goes to sleep for k ticks. *)
LEMMA AsleepEnters ==
    ASSUME IInv, ~AtWakeup, NEW k \in (Delays \ {0}) \cup Timeouts, NEW state \in {"SLEEP", "RECTIM"},
           sleepq' = InsertDelta(sleepq, currpid, k, qkey),
           Block(state, InsertDeltaKeys(sleepq, currpid, k, qkey))
    PROVE  SleepStep
<1> DEFINE key == InsertDeltaKeys(sleepq, currpid, k, qkey)
<1>1. SchedOK /\ DOMAIN key = Pid /\ Block(state, key) /\ state # "CURR"
    BY SleeperFacts, DeltaKeysDomain DEF IInv
<1>2. \A x \in ToSet(sleepq) \cup {currpid} : qkey'[x] = key[x]
    <2> HIDE DEF key
    <2>1. \A x \in Pid : x = currpid \/ prstate[x] # "CURR" => qkey'[x] = key[x]
        BY <1>1, BlockKeys
    <2> QED
        BY <2>1, SleeperFacts
<1>3. currpid \notin ToSet(sleepq) /\ currpid \in Pid
    BY SleeperFacts
<1>4. Enters(currpid, k)
    BY <1>2, <1>3 DEF Enters
<1> QED
    BY <1>3, <1>4 DEF SleepStep

LEMMA MessageSleeps == ASSUME IInv, MessageCall PROVE SleepStep
<1>0. ~AtWakeup
    BY UserAwake DEF MessageCall, Send, Receive, RecvClr, RecvTime, Calling
<1>1. ASSUME NEW p \in Pid, Send(p) PROVE SleepStep
    BY <1>0, <1>1, DeliverSleeps DEF Send
<1>2. CASE Receive
    <2>1. CASE UNCHANGED <<sleepq, dispatchVars>>
        BY <1>0, <2>1, KeysUndisturbed DEF SleepStep, dispatchVars
    <2>2. CASE Block("RECV", qkey) /\ UNCHANGED sleepq
        BY <1>0, <2>2, BlockUndisturbed DEF SleepStep
    <2> QED
        BY <1>2, <2>1, <2>2 DEF Receive
<1>3. CASE RecvClr
    BY <1>0, <1>3, KeysUndisturbed DEF RecvClr, SleepStep, deferVars, dispatchVars
<1>4. ASSUME NEW maxwait \in Timeouts, RecvTime(maxwait) PROVE SleepStep
    <2>1. CASE UNCHANGED <<sleepq, dispatchVars>>
        BY <1>0, <2>1, KeysUndisturbed DEF SleepStep, dispatchVars
    <2>2. CASE /\ sleepq' = InsertDelta(sleepq, currpid, maxwait, qkey)
               /\ Block("RECTIM", InsertDeltaKeys(sleepq, currpid, maxwait, qkey))
        BY <1>0, <2>2, AsleepEnters
    <2> QED
        BY <1>4, <2>1, <2>2 DEF RecvTime
<1> QED
    BY <1>1, <1>2, <1>3, <1>4 DEF MessageCall, RecvClr, Receive

LEMMA ProcessSleeps == ASSUME IInv, ProcessCall PROVE SleepStep
<1>0. ~AtWakeup
    BY UserAwake DEF ProcessCall, Kill, Suspend, Resume, Create, ChPrio, Yield, SleepMs, Calling
<1>1. ASSUME NEW p \in Pid, Kill(p) PROVE SleepStep
    <2>1. CASE UNCHANGED <<dispatchVars, sleepq>>
        BY <1>0, <2>1, KeysUndisturbed DEF SleepStep, dispatchVars
    <2>2. CASE Deliver(prparent[p])
        <3>1. prparent[p] \in Pid
            BY DEF IInv, FieldsOK
        <3> QED
            BY <1>0, <2>2, <3>1, DeliverSleeps
    <2> QED
        BY <1>1, <2>1, <2>2 DEF Kill
<1>2. ASSUME NEW p \in Pid, Suspend(p) PROVE SleepStep
    <2>1. CASE qkey' = qkey /\ UNCHANGED sleepq
        BY <1>0, <2>1, KeysUndisturbed DEF SleepStep
    <2>2. CASE Block("SUSP", qkey) /\ UNCHANGED sleepq
        BY <1>0, <2>2, BlockUndisturbed DEF SleepStep
    <2> QED
        BY <1>2, <2>1, <2>2 DEF Suspend, Stay
<1>3. ASSUME NEW p \in Pid, Resume(p) PROVE SleepStep
    <2>1. p \notin ToSet(sleepq)
        BY <1>3, SleeperFacts DEF Resume
    <2> QED
        BY <1>0, <1>3, <2>1, ReadyUndisturbed DEF Resume, SleepStep
<1>4. ASSUME NEW p \in Pid, NEW prio, Create(p, prio) \/ ChPrio(p, prio) PROVE SleepStep
    BY <1>0, <1>4, KeysUndisturbed DEF Create, ChPrio, SleepStep, deferVars, dispatchVars
<1>5. CASE Yield
    BY <1>0, <1>5, ReschedUndisturbed DEF Yield, SleepStep
<1>6. ASSUME NEW delay \in Delays, SleepMs(delay) PROVE SleepStep
    <2>1. CASE Resched(prstate, readylist, qkey) /\ UNCHANGED sleepq
        BY <1>0, <2>1, ReschedUndisturbed DEF SleepStep
    <2>2. CASE /\ delay > 0
               /\ sleepq' = InsertDelta(sleepq, currpid, delay, qkey)
               /\ Block("SLEEP", InsertDeltaKeys(sleepq, currpid, delay, qkey))
        <3>1. delay \in (Delays \ {0}) \cup Timeouts
            BY <2>2
        <3> QED
            BY <1>0, <2>2, <3>1, AsleepEnters
    <2> QED
        BY <1>6, <2>1, <2>2 DEF SleepMs
<1> QED
    BY <1>1, <1>2, <1>3, <1>4, <1>5, <1>6 DEF ProcessCall

LEMMA SemaphoreSleeps == ASSUME IInv, SemaphoreCall PROVE SleepStep
<1>1. PICK s \in Sem : \/ Wait(s) \/ Signal(s) \/ SemDelete(s)
                       \/ \E count \in Counts : SignalN(s, count) \/ SemCreate(s, count) \/ SemReset(s, count)
    BY DEF SemaphoreCall
<1>2. InUser
    BY <1>1 DEF Wait, Signal, SemDelete, SignalN, SemCreate, SemReset, Calling
<1>3. ~AtWakeup /\ ~Resetting(s)
    BY <1>2, UserAwake, UserFacts DEF IInv
<1>4. CASE Wait(s)
    <2>1. CASE UNCHANGED <<sleepq, dispatchVars>>
        BY <1>3, <2>1, KeysUndisturbed DEF SleepStep, dispatchVars
    <2>2. CASE Block("WAIT", qkey) /\ UNCHANGED sleepq
        BY <1>3, <2>2, BlockUndisturbed DEF SleepStep
    <2> QED
        BY <1>4, <2>1, <2>2 DEF Wait
<1>5. CASE Signal(s)
    BY <1>3, <1>5, VUndisturbed DEF Signal, SleepStep
<1>6. CASE SemDelete(s) \/ \E count \in Counts : SignalN(s, count) \/ SemCreate(s, count) \/ SemReset(s, count)
    BY <1>3, <1>6, KeysUndisturbed DEF SemDelete, SignalN, SemCreate, SemReset, SleepStep, deferVars, dispatchVars
<1> QED
    BY <1>1, <1>4, <1>5, <1>6

LEMMA KillSleeps == ASSUME IInv, KillDone PROVE SleepStep
<1>1. PICK p \in Pid : p = kpc[currpid].x
    BY DEF KillDone, At, IInv, SchedOK, ContextOK, Arguments
<1>2. ~AtWakeup
    BY DEF KillDone, At, AtWakeup
<1>3. SchedOK /\ DOMAIN qkey = Pid /\ \A x \in Pid : Free(p)[x] = IF x = p THEN "FREE" ELSE prstate[x]
    BY DEF IInv, SchedOK, Free
<1>4. CASE KillCurrent(p)
    <2>1. \A x \in Pid : Free(p)[x] # "CURR" => qkey'[x] = qkey[x]
        BY <1>3, <1>4, SwitchKeys DEF KillCurrent
    <2>2. SleepersKept
        BY <1>3, <1>4, <2>1, SleeperFacts DEF KillCurrent, SleepersKept
    <2> QED
        BY <1>2, <2>2 DEF SleepStep
<1>5. CASE KillSleeper(p)
    <2>1. p \in ToSet(sleepq)
        BY <1>5 DEF KillSleeper, IInv, SleepOK
    <2>2. Leaves(p) /\ prstate'[p] = "FREE"
        BY <1>3, <1>5, <2>1 DEF KillSleeper, Stay, Leaves
    <2> QED
        BY <1>2, <2>2 DEF SleepStep
<1>6. CASE KillWaiter(p) \/ KillReady(p) \/ KillOther(p)
    BY <1>2, <1>6, KeysUndisturbed DEF KillWaiter, KillReady, KillOther, Stay, SleepStep
<1> QED
    BY <1>1, <1>4, <1>5, <1>6 DEF KillDone

LEMMA WakeupSleeps == ASSUME IInv, Wakeup PROVE SleepStep
<1>1. sleepq # <<>> /\ qkey[Head(sleepq)] <= 0 /\ sleepq' = Tail(sleepq) /\ Ready(Head(sleepq), qkey) /\ kpc' = kpc
    BY DEF Wakeup, Expired
<1>2. PICK p \in Pid : p = Head(sleepq) /\ p \in ToSet(sleepq)
    BY <1>1, SleeperFacts, EmptySeq DEF ToSet
<1>3. ndefers = 1 /\ SchedOK /\ AtWakeup
    BY LoopFacts DEF IInv, SchedOK, Wakeup, Loops, At, AtWakeup
<1>4. \A x \in Pid : x # p /\ prstate[x] # "CURR" => qkey'[x] = qkey[x]
    BY <1>1, <1>2, <1>3, ReadyKeys, SleeperFacts
<1>5. currpid' = currpid
    <2>1. prstate[p] \notin Runnable
        BY <1>2, SleeperFacts DEF Runnable
    <2>2. ndefers \in {0, 1} /\ DOMAIN qkey = Pid /\ Ready(p, qkey)
        BY <1>1, <1>2, <1>3, SleeperFacts
    <2> QED
        BY <1>3, <2>1, <2>2, ReadyOK
<1>6. Released
    BY <1>1, <1>2, <1>4, SleeperFacts DEF Released
<1> QED
    BY <1>1, <1>3, <1>5, <1>6 DEF SleepStep, AtWakeup

LEMMA KernelSleeps == ASSUME IInv, KernelStep PROVE SleepStep
<1>1. CASE SignalNLoop \/ SemDeleteLoop
    <2>1. PICK s \in Sem : s = kpc[currpid].x /\ ~Resetting(s)
        BY <1>1, LoopFacts DEF SignalNLoop, SemDeleteLoop, IInv, SchedOK, Loops, SemLoops
    <2>2. V(s) /\ UNCHANGED sleepq /\ ~AtWakeup
        BY <1>1, <2>1 DEF SignalNLoop, SemDeleteLoop, At, AtWakeup
    <2> QED
        BY <2>1, <2>2, VUndisturbed DEF SleepStep
<1>2. CASE SignalNEnd \/ SemDeleteEnd \/ SemResetEnd
    <2>1. DeferStop /\ UNCHANGED sleepq /\ ~AtWakeup
        BY <1>2 DEF SignalNEnd, SemDeleteEnd, SemResetEnd, At, AtWakeup
    <2> QED
        BY <2>1, StopUndisturbed DEF SleepStep
<1>3. CASE SemResetLoop
    <2>1. PICK s \in Sem : s = kpc[currpid].x
        BY <1>3, LoopFacts DEF SemResetLoop, IInv, SchedOK, Loops, SemLoops
    <2>2. squeue[s] \in Seq(Pid) /\ squeue[s] # <<>> /\ Ready(Head(squeue[s]), qkey) /\ UNCHANGED sleepq /\ ~AtWakeup
        BY <1>3, <2>1 DEF SemResetLoop, IInv, SemOK, At, AtWakeup
    <2>3. PICK p \in Pid : p = Head(squeue[s]) /\ p \in ToSet(squeue[s])
        BY <2>2, EmptySeq DEF ToSet
    <2>4. prstate[p] = "WAIT"
        BY <2>3 DEF IInv, SemOK
    <2>5. p \notin ToSet(sleepq)
        BY <2>4, SleeperFacts
    <2> QED
        BY <2>2, <2>3, <2>5, ReadyUndisturbed DEF SleepStep
<1>4. CASE ReceiveDone \/ RecvTimeDone
    <2>1. UNCHANGED <<qkey, sleepq>> /\ ~AtWakeup
        BY <1>4 DEF ReceiveDone, RecvTimeDone, At, AtWakeup, deferVars, dispatchVars
    <2> QED
        BY <2>1, KeysUndisturbed DEF SleepStep
<1>5. CASE WakeupEnd
    <2>1. DeferStop /\ UNCHANGED sleepq /\ ~Expired
        BY <1>5 DEF WakeupEnd
    <2> QED
        BY <2>1, StopUndisturbed DEF SleepStep
<1>6. CASE ClkHandlerEnd
    <2>1. EndSlice(qkey) /\ UNCHANGED sleepq /\ ~AtWakeup
        BY <1>6 DEF ClkHandlerEnd, At, AtWakeup
    <2>2. SleepersKept
        BY <2>1, EndSliceKeys, SleeperFacts DEF SleepersKept
    <2> QED
        BY <2>1, <2>2 DEF SleepStep
<1> QED
    BY <1>1, <1>2, <1>3, <1>4, <1>5, <1>6, KillSleeps, WakeupSleeps DEF KernelStep

LEMMA ClkSleeps == ASSUME IInv, ClkHandler PROVE SleepStep
<1>1. ~AtWakeup /\ sleepq' = sleepq
    BY UserAwake DEF ClkHandler
<1>2. DOMAIN TickKeys = Pid
    BY SleeperFacts DEF TickKeys
<1>3. \A x \in Pid : prstate[x] # "CURR" => qkey'[x] = TickKeys[x]
    <2>1. CASE qkey' = TickKeys
        BY <2>1
    <2>2. CASE EndSlice(TickKeys)
        BY <1>2, <2>2, EndSliceKeys
    <2> QED
        BY <2>1, <2>2 DEF ClkHandler
<1>4. CASE sleepq = <<>>
    <2>1. SleepersKept
        BY <1>1, <1>3, <1>4, SleeperFacts DEF SleepersKept, TickKeys
    <2> QED
        BY <1>1, <2>1 DEF SleepStep
<1>5. CASE sleepq # <<>>
    <2>1. PICK p \in Pid : p = Head(sleepq) /\ p \in ToSet(sleepq)
        BY <1>5, SleeperFacts, EmptySeq DEF ToSet
    <2>2. TickKeys = [qkey EXCEPT ![p] = qkey[p] - 1]
        BY <1>5, <2>1, SleeperFacts DEF TickKeys
    <2>3. \A x \in ToSet(sleepq) : qkey'[x] = IF x = p THEN qkey[x] - 1 ELSE qkey[x]
        BY <1>3, <2>2, SleeperFacts
    <2>4. Ticked
        BY <1>1, <1>5, <2>1, <2>3 DEF Ticked
    <2>5. ASSUME qkey[p] = 1 PROVE AtWakeup'
        <3>1. Due
            BY <1>5, <2>1, <2>2, <2>5, SleeperFacts DEF Due
        <3>2. currpid' = currpid /\ Goto(Doing("wakeup", None, 0))
            BY <3>1 DEF ClkHandler
        <3> QED
            BY <3>2, SleeperFacts DEF Goto, Doing, AtWakeup, IInv, ContextOK
    <2> QED
        BY <1>1, <2>1, <2>4, <2>5 DEF SleepStep
<1> QED
    BY <1>4, <1>5

LEMMA NextSleeps == ASSUME IInv, [Next]_vars PROVE SleepStep
<1>1. CASE Halted \/ UNCHANGED vars
    BY <1>1, KeysUndisturbed DEF Halted, vars, deferVars, dispatchVars, SleepStep, AtWakeup
<1> QED
    BY <1>1, SemaphoreSleeps, MessageSleeps, ProcessSleeps, ClkSleeps, KernelSleeps DEF Next

-----------------------------------------------------------------------------
(* The countdowns *)
LEMMA SleepersListed ==
    ASSUME IInv, IntKeys(sleepq, qkey), NEW p \in Pid
    PROVE  sleepq \in Seq(Pid) /\ Listed(sleepq, qkey, p)
BY SleeperFacts DEF Listed

(* The keys are numbers, whatever the timeouts are. *)
KeyInv == IInv /\ IntKeys(sleepq, qkey)

LEMMA SleepersKeptIs ==
    ASSUME KeyInv, SleepersKept
    PROVE  /\ Remaining' = Remaining /\ IntKeys(sleepq', qkey')
           /\ NatKeys(sleepq, qkey) => NatKeys(sleepq', qkey')
           /\ HeadUp(sleepq, qkey) => HeadUp(sleepq', qkey')
<1>1. sleepq \in Seq(Pid) /\ IsInjective(sleepq) /\ IntKeys(sleepq, qkey)
    BY SleeperFacts DEF KeyInv
<1>2. sleepq' = sleepq /\ \A n \in 1..Len(sleepq) : qkey'[sleepq[n]] = qkey[sleepq[n]]
    BY <1>1 DEF SleepersKept, ToSet
<1>3. Left(sleepq, qkey') = Left(sleepq, qkey)
    BY <1>1, <1>2, LeftIs
<1>4. sleepq # <<>> => 1 \in 1..Len(sleepq)
    BY <1>1, EmptySeq
<1> QED
    BY <1>1, <1>2, <1>3, <1>4 DEF Remaining, Left, IntKeys, NatKeys, HeadUp

LEMMA EntersIs ==
    ASSUME KeyInv, NEW p \in Pid, NEW k \in Nat, Enters(p, k)
    PROVE  Entered(sleepq, qkey, p, k, sleepq', qkey')
<1>1. sleepq \in Seq(Pid) /\ Listed(sleepq, qkey, p)
    BY SleepersListed DEF KeyInv
<1> QED
    BY <1>1, DeltaEntered DEF Enters

LEMMA LeavesIs ==
    ASSUME KeyInv, NEW p \in Pid, Leaves(p)
    PROVE  Removed(sleepq, qkey, p, sleepq', qkey')
<1>1. sleepq \in Seq(Pid) /\ Listed(sleepq, qkey, p)
    BY SleepersListed DEF KeyInv
<1> QED
    BY <1>1, DeltaRemoved DEF Leaves

LEMMA ReleasedKeys ==
    ASSUME KeyInv, Released
    PROVE  /\ IntKeys(sleepq', qkey')
           /\ NatKeys(sleepq, qkey) => NatKeys(sleepq', qkey')
           /\ ToSet(sleepq') = ToSet(sleepq) \ {Head(sleepq)}
           /\ Head(sleepq) = sleepq[1] /\ sleepq[1] \in ToSet(sleepq)
           /\ \A n \in 2..Len(sleepq) : qkey'[sleepq[n]] = qkey[sleepq[n]]
<1>1. sleepq \in Seq(Pid) /\ IsInjective(sleepq) /\ IntKeys(sleepq, qkey) /\ sleepq # <<>> /\ sleepq' = Tail(sleepq)
    BY SleeperFacts DEF KeyInv, Released
<1>2. /\ Len(sleepq) \in Nat \ {0} /\ DOMAIN sleepq = 1..Len(sleepq) /\ Head(sleepq) = sleepq[1]
      /\ Len(sleepq') = Len(sleepq) - 1 /\ \A n \in 1..(Len(sleepq) - 1) : sleepq'[n] = sleepq[n + 1]
    BY <1>1, EmptySeq
<1>3. \A n \in 2..Len(sleepq) : qkey'[sleepq[n]] = qkey[sleepq[n]]
    BY <1>1, <1>2 DEF Released, ToSet, IsInjective
<1>4. ASSUME NEW n \in 1..Len(sleepq')
      PROVE  n + 1 \in 1..Len(sleepq) /\ qkey'[sleepq'[n]] = qkey[sleepq[n + 1]]
    <2>1. n + 1 \in 2..Len(sleepq) /\ n \in 1..(Len(sleepq) - 1)
        BY <1>2
    <2> QED
        BY <1>2, <1>3, <2>1
<1>5. IntKeys(sleepq', qkey')
    BY <1>1, <1>4 DEF IntKeys
<1>6. NatKeys(sleepq, qkey) => NatKeys(sleepq', qkey')
    BY <1>4 DEF NatKeys
<1>7. ToSet(sleepq') = ToSet(sleepq) \ {Head(sleepq)}
    BY <1>1, TailQueue
<1>8. sleepq[1] \in ToSet(sleepq)
    BY <1>2 DEF ToSet
<1> QED
    BY <1>2, <1>3, <1>5, <1>6, <1>7, <1>8

LEMMA TickedKeys ==
    ASSUME KeyInv, Ticked
    PROVE  /\ qkey'[sleepq[1]] = qkey[sleepq[1]] - 1 /\ Head(sleepq) = sleepq[1]
           /\ \A n \in 2..Len(sleepq) : qkey'[sleepq[n]] = qkey[sleepq[n]]
           /\ IntKeys(sleepq, qkey') /\ IntKeys(sleepq', qkey')
<1>1. sleepq \in Seq(Pid) /\ IsInjective(sleepq) /\ IntKeys(sleepq, qkey) /\ sleepq # <<>>
    BY SleeperFacts DEF KeyInv, Ticked
<1>2. Len(sleepq) \in Nat \ {0} /\ DOMAIN sleepq = 1..Len(sleepq) /\ Head(sleepq) = sleepq[1]
    BY <1>1, EmptySeq
<1>3. qkey'[sleepq[1]] = qkey[sleepq[1]] - 1
    BY <1>2 DEF Ticked, ToSet
<1>4. \A n \in 2..Len(sleepq) : qkey'[sleepq[n]] = qkey[sleepq[n]]
    BY <1>1, <1>2 DEF Ticked, ToSet, IsInjective
<1>5. ASSUME NEW n \in 1..Len(sleepq) PROVE qkey'[sleepq[n]] \in Int
    BY <1>1, <1>3, <1>4 DEF IntKeys
<1> QED
    BY <1>2, <1>3, <1>4, <1>5 DEF IntKeys, Ticked

LEMMA Waits == Delays \subseteq Nat /\ Timeouts \subseteq Nat
BY DelayAssumption

LEMMA KeysKept == KeyInv /\ [Next]_vars => KeyInv'
<1> SUFFICES ASSUME KeyInv, [Next]_vars PROVE KeyInv'
    OBVIOUS
<1>1. SleepStep /\ IInv'
    BY NextSleeps, NextOK DEF KeyInv
<1>2. ASSUME SleepersKept PROVE IntKeys(sleepq', qkey')
    BY <1>2, SleepersKeptIs
<1>3. ASSUME Released PROVE IntKeys(sleepq', qkey')
    BY <1>3, ReleasedKeys
<1>4. ASSUME Ticked PROVE IntKeys(sleepq', qkey')
    BY <1>4, TickedKeys
<1>5. ASSUME NEW p \in Pid, NEW k \in (Delays \ {0}) \cup Timeouts, Enters(p, k) PROVE IntKeys(sleepq', qkey')
    BY <1>5, Waits, EntersIs DEF Entered
<1>6. ASSUME NEW p \in Pid, Leaves(p) PROVE IntKeys(sleepq', qkey')
    BY <1>6, LeavesIs DEF Removed
<1>7. IntKeys(sleepq', qkey')
    BY <1>1, <1>2, <1>3, <1>4, <1>5, <1>6 DEF SleepStep
<1> QED
    BY <1>1, <1>7 DEF KeyInv, IntKeys

LEMMA KeyInitOK == Init => KeyInv
<1> SUFFICES ASSUME Init PROVE KeyInv
    OBVIOUS
<1>1. sleepq = <<>>
    BY DEF Init
<1> QED
    BY <1>1, InitOK DEF KeyInv, IntKeys

LEMMA EarlyStep ==
    ASSUME KeyInv, KeyInv', [Next]_vars, NEW p \in ToSet(sleepq), prstate'[p] = "READY"
    PROVE  Remaining[p] <= 0 \/ Called(p)
<1>1. SleepStep
    BY NextSleeps DEF KeyInv
<1>2. p \notin ToSet(sleepq')
    <2>1. p \in Pid
        BY SleeperFacts DEF KeyInv
    <2> QED
        BY <2>1 DEF KeyInv, IInv, SleepOK
<1>3. ~SleepersKept /\ ~Ticked
    BY <1>2 DEF SleepersKept, Ticked
<1>4. ASSUME NEW x \in Pid, NEW k, Enters(x, k) PROVE FALSE
    <2>1. sleepq \in Seq(Pid)
        BY SleeperFacts DEF KeyInv
    <2>2. ToSet(sleepq') = ToSet(sleepq) \cup {x}
        BY <1>4, <2>1, InsertDeltaQueue DEF Enters
    <2> QED
        BY <1>2, <2>2
<1>5. ASSUME NEW x \in Pid, Leaves(x), prstate'[x] = "FREE" \/ Called(x) PROVE Called(p)
    <2>1. sleepq \in Seq(Pid) /\ IsInjective(sleepq)
        BY SleeperFacts DEF KeyInv
    <2>2. ToSet(sleepq') = ToSet(sleepq) \ {x}
        BY <1>5, <2>1, GetItemQueue DEF Leaves
    <2> QED
        BY <1>2, <1>5, <2>2
<1>6. CASE Released
    <2>1. p = sleepq[1] /\ Head(sleepq) = sleepq[1] /\ qkey[sleepq[1]] <= 0 /\ sleepq # <<>>
        BY <1>2, <1>6, ReleasedKeys DEF Released
    <2>2. sleepq \in Seq(Pid) /\ IsInjective(sleepq) /\ IntKeys(sleepq, qkey)
        BY SleeperFacts DEF KeyInv
    <2>3. /\ Along(Elapsed(sleepq, qkey), sleepq, qkey)
          /\ \A i \in 1..Len(sleepq) : Left(sleepq, qkey)[sleepq[i]] = Elapsed(sleepq, qkey)[i]
        BY <2>2, LeftAt
    <2>4. 1 \in 1..Len(sleepq)
        BY <2>1, <2>2, EmptySeq
    <2>5. Left(sleepq, qkey)[p] = qkey[sleepq[1]]
        BY <2>1, <2>2, <2>3, <2>4 DEF Along, IntKeys
    <2> QED
        BY <2>1, <2>5 DEF Remaining, Left
<1> QED
    BY <1>1, <1>3, <1>4, <1>5, <1>6 DEF SleepStep

(* A sleeper becomes ready when its time is up and not before, unless it waits
   for a message and gets one: for every mix of delays and timeouts, kills of
   other sleepers and late interrupts. *)
THEOREM NobodyWakesEarly == Spec => NoEarlyWake
<1> DEFINE A == \A p \in ToSet(sleepq) : prstate'[p] = "READY" =>
                    \/ Remaining[p] <= 0
                    \/ prstate[p] = "RECTIM" /\ ~prhasmsg[p] /\ prhasmsg'[p]
<1>1. KeyInv /\ KeyInv' /\ [Next]_vars => A
    BY EarlyStep DEF Called
<1> HIDE DEF A
<1>2. Spec => [][A]_vars
    BY <1>1, KeyInitOK, KeysKept, PTL DEF Spec
<1> QED
    BY <1>2 DEF A, NoEarlyWake

-----------------------------------------------------------------------------
(* With timeouts that are not zero, no key is ever negative, and the first
   sleeper's is zero only while wakeup looks at the queue. *)
TimerInv == KeyInv /\ NatKeys(sleepq, qkey) /\ (AtWakeup \/ HeadUp(sleepq, qkey))

TimerStep == Timers!Next \/ Remaining' = Remaining

LEMMA RemainingIs == Remaining = Left(sleepq, qkey) /\ Timers!Running = ToSet(sleepq)
BY DEF Remaining, Left, Timers!Running

LEMMA StartStep ==
    ASSUME KeyInv, NEW p \in Pid, NEW k \in Nat \ {0}, Enters(p, k)
    PROVE  TimerStep
<1>1. Left(sleepq', qkey') = [x \in ToSet(sleepq) \cup {p} |-> IF x = p THEN k ELSE Left(sleepq, qkey)[x]]
    BY EntersIs DEF Entered, Joined
<1>2. Remaining' = [x \in Timers!Running \cup {p} |-> IF x = p THEN k ELSE Remaining[x]]
    BY <1>1, RemainingIs DEF Remaining, Left
<1>3. p \notin Timers!Running
    BY RemainingIs DEF Enters
<1>4. p \in DOMAIN Remaining' /\ Remaining'[p] = k /\ k > 0
    BY <1>2
<1>5. Timers!Start(p, Remaining'[p])
    BY <1>2, <1>3, <1>4 DEF Timers!Start
<1> QED
    BY <1>4, <1>5 DEF TimerStep, Timers!Next

LEMMA CancelStep ==
    ASSUME KeyInv, NEW p \in Pid, Leaves(p)
    PROVE  TimerStep
<1>1. Left(sleepq', qkey') = [x \in ToSet(sleepq) \ {p} |-> Left(sleepq, qkey)[x]]
    BY LeavesIs DEF Removed, Parted
<1>2. Remaining' = [x \in Timers!Running \ {p} |-> Remaining[x]]
    BY <1>1, RemainingIs DEF Remaining, Left
<1>3. Timers!Cancel(p)
    BY <1>2, RemainingIs DEF Leaves, Timers!Cancel, Timers!Without
<1> QED
    BY <1>3 DEF TimerStep, Timers!Next

LEMMA ExpireStep ==
    ASSUME TimerInv, Released
    PROVE  TimerStep
<1>1. /\ sleepq \in Seq(Pid) /\ IsInjective(sleepq) /\ IntKeys(sleepq, qkey) /\ NatKeys(sleepq, qkey)
      /\ sleepq # <<>> /\ sleepq' = Tail(sleepq) /\ qkey[Head(sleepq)] <= 0
    BY SleeperFacts DEF TimerInv, KeyInv, Released
<1>2. /\ Head(sleepq) = sleepq[1] /\ sleepq[1] \in ToSet(sleepq)
      /\ \A n \in 2..Len(sleepq) : qkey'[sleepq[n]] = qkey[sleepq[n]]
    BY ReleasedKeys DEF TimerInv
<1>3. PICK p \in Pid : p = sleepq[1]
    BY <1>2, SleeperFacts DEF TimerInv, KeyInv
<1>4. qkey[p] = 0
    <2>1. 1 \in 1..Len(sleepq)
        BY <1>1, EmptySeq
    <2> QED
        BY <1>1, <1>2, <1>3, <2>1 DEF NatKeys
<1>5. Parted(sleepq, qkey, sleepq[1], Tail(sleepq), qkey')
    BY <1>1, <1>2, <1>3, <1>4, LeftTail
<1>6. Remaining' = [x \in Timers!Running \ {p} |-> Remaining[x]]
    BY <1>1, <1>3, <1>5, RemainingIs DEF Remaining, Left, Parted
<1>7. Remaining[p] = 0
    BY <1>1, <1>3, <1>4, LeftAtLeast, RemainingIs
<1>8. Timers!Expire(p)
    BY <1>2, <1>3, <1>6, <1>7, RemainingIs DEF Timers!Expire, Timers!Without
<1> QED
    BY <1>8 DEF TimerStep, Timers!Next

LEMMA TickStep ==
    ASSUME TimerInv, ~AtWakeup, Ticked
    PROVE  /\ TimerStep /\ NatKeys(sleepq', qkey')
           /\ qkey[Head(sleepq)] # 1 => HeadUp(sleepq', qkey')
<1>1. /\ sleepq \in Seq(Pid) /\ IsInjective(sleepq) /\ IntKeys(sleepq, qkey) /\ NatKeys(sleepq, qkey)
      /\ sleepq # <<>> /\ sleepq' = sleepq /\ HeadUp(sleepq, qkey)
    BY SleeperFacts DEF TimerInv, KeyInv, Ticked
<1>2. /\ qkey'[sleepq[1]] = qkey[sleepq[1]] - 1 /\ Head(sleepq) = sleepq[1]
      /\ \A n \in 2..Len(sleepq) : qkey'[sleepq[n]] = qkey[sleepq[n]]
    BY TickedKeys DEF TimerInv
<1>3. Len(sleepq) \in Nat \ {0} /\ 1 \in 1..Len(sleepq) /\ qkey[sleepq[1]] \in Nat /\ qkey[sleepq[1]] > 0
    BY <1>1, EmptySeq DEF NatKeys, HeadUp
<1>4. Left(sleepq, qkey') = [x \in ToSet(sleepq) |-> Left(sleepq, qkey)[x] - 1]
    BY <1>1, <1>2, LeftTicked
<1>5. Remaining' = [x \in Timers!Running |-> Remaining[x] - 1]
    BY <1>1, <1>4, RemainingIs DEF Remaining, Left
<1>6. ASSUME NEW x \in Timers!Running PROVE Remaining[x] > 0
    <2>1. x \in ToSet(sleepq)
        BY RemainingIs
    <2>2. Left(sleepq, qkey)[x] \in Nat /\ Left(sleepq, qkey)[x] >= qkey[sleepq[1]]
        BY <1>1, <2>1, LeftAtLeast
    <2> QED
        BY <1>3, <2>2, RemainingIs
<1>7. Timers!Running # {}
    BY <1>3, RemainingIs DEF ToSet
<1>8. Timers!Tick
    BY <1>5, <1>6, <1>7 DEF Timers!Tick
<1>9. ASSUME NEW n \in 1..Len(sleepq') PROVE qkey'[sleepq'[n]] \in Nat
    BY <1>1, <1>2, <1>3 DEF NatKeys
<1>10. qkey[Head(sleepq)] # 1 => HeadUp(sleepq', qkey')
    BY <1>1, <1>2, <1>3 DEF HeadUp
<1> QED
    BY <1>8, <1>9, <1>10 DEF TimerStep, Timers!Next, NatKeys

LEMMA TimersStep ==
    ASSUME 0 \notin Timeouts, TimerInv, [Next]_vars
    PROVE  TimerStep /\ TimerInv'
<1>0. KeyInv /\ IInv /\ SleepStep /\ KeyInv'
    BY NextSleeps, KeysKept DEF TimerInv, KeyInv
<1> DEFINE KeysRight == NatKeys(sleepq', qkey') /\ (AtWakeup' \/ HeadUp(sleepq', qkey'))
<1>1. SUFFICES TimerStep /\ KeysRight
    BY <1>0 DEF TimerInv, NatKeys, HeadUp
<1>2. CASE SleepersKept /\ (AtWakeup => AtWakeup' \/ ~Expired)
    <2>1. TimerStep
        BY <1>0, <1>2, SleepersKeptIs DEF TimerStep
    <2>2. NatKeys(sleepq', qkey') /\ (HeadUp(sleepq, qkey) => HeadUp(sleepq', qkey'))
        BY <1>0, <1>2, SleepersKeptIs DEF TimerInv
    <2>3. AtWakeup /\ ~Expired => HeadUp(sleepq, qkey)
        <3>1. SUFFICES ASSUME ~Expired, sleepq # <<>> PROVE qkey[sleepq[1]] > 0
            BY DEF HeadUp
        <3>2. 1 \in 1..Len(sleepq) /\ Head(sleepq) = sleepq[1]
            BY <1>0, <3>1, SleeperFacts, EmptySeq
        <3>3. qkey[sleepq[1]] \in Nat
            BY <3>2 DEF TimerInv, NatKeys
        <3> QED
            BY <3>1, <3>2, <3>3 DEF Expired
    <2> QED
        BY <1>2, <2>1, <2>2, <2>3 DEF TimerInv
<1>3. CASE AtWakeup' /\ Released
    BY <1>0, <1>3, ExpireStep, ReleasedKeys DEF TimerInv
<1>4. ASSUME ~AtWakeup, NEW p \in Pid, NEW k \in (Delays \ {0}) \cup Timeouts, Enters(p, k)
      PROVE  TimerStep /\ KeysRight
    <2>1. k \in Nat \ {0} /\ k \in Nat /\ k > 0
        BY Waits
    <2>2. Entered(sleepq, qkey, p, k, sleepq', qkey')
        BY <1>0, <1>4, <2>1, EntersIs
    <2> QED
        BY <1>0, <1>4, <2>1, <2>2, StartStep DEF Entered, TimerInv
<1>5. ASSUME ~AtWakeup, NEW p \in Pid, Leaves(p) PROVE TimerStep /\ KeysRight
    BY <1>0, <1>5, CancelStep, LeavesIs DEF Removed, TimerInv
<1>6. CASE ~AtWakeup /\ Ticked /\ (qkey[Head(sleepq)] = 1 => AtWakeup')
    BY <1>6, TickStep
<1> QED
    BY <1>0, <1>2, <1>3, <1>4, <1>5, <1>6 DEF SleepStep

LEMMA TimerInitOK == Init => TimerInv /\ Timers!Init
<1> SUFFICES ASSUME Init PROVE TimerInv /\ Timers!Init
    OBVIOUS
<1>1. sleepq = <<>>
    BY DEF Init
<1>2. Remaining = [x \in {} |-> 0]
    BY <1>1 DEF Remaining, ToSet
<1> QED
    BY <1>1, <1>2, KeyInitOK DEF TimerInv, NatKeys, HeadUp, Timers!Init

(* The delta list implements one independent countdown for each sleeper: what
   the others' coming, going and being killed does to a sleeper's own key never
   shows in the ticks it has left.  A timeout of 0 is excluded: with it the
   statement is false (run ZeroTimeout). *)
THEOREM DeltaListIsTimers ==
    ASSUME 0 \notin Timeouts
    PROVE  Spec => ImplementsTimers
<1>1. Init => TimerInv /\ Timers!Init
    BY TimerInitOK
<1>2. TimerInv /\ [Next]_vars => TimerInv'
    BY TimersStep
<1>3. TimerInv /\ [Next]_vars => [Timers!Next]_Remaining
    BY TimersStep DEF TimerStep
<1> QED
    BY <1>1, <1>2, <1>3, PTL DEF Spec, ImplementsTimers, Timers!Spec

(* No sleeper is ever overdue: wakeup takes off, in the interrupt where it falls
   due, every sleeper whose time is up. *)
THEOREM NobodyOverdue ==
    ASSUME 0 \notin Timeouts
    PROVE  Spec => []NeverOverdue
<1>1. TimerInv => NeverOverdue
    <2> SUFFICES ASSUME TimerInv, NEW p \in ToSet(sleepq) PROVE Remaining[p] >= 0
        BY DEF NeverOverdue
    <2>1. sleepq \in Seq(Pid) /\ IsInjective(sleepq) /\ NatKeys(sleepq, qkey)
        BY SleeperFacts DEF TimerInv, KeyInv
    <2>2. Left(sleepq, qkey)[p] \in Nat
        BY <2>1, LeftAtLeast
    <2> QED
        BY <2>2, RemainingIs
<1> QED
    BY <1>1, TimerInitOK, TimersStep, PTL DEF Spec
=============================================================================
