---------------------------- MODULE KernelProofs -----------------------------
(***************************************************************************)
(* The kernel's tables stay consistent, for any number of processes and    *)
(* semaphores, any priorities, delays and counts, any mix of calls and     *)
(* any order of interrupts.                                                *)
(*                                                                         *)
(* IInv is the inductive invariant.  TypeOK alone is not inductive: the    *)
(* dispatcher takes the head of the ready list and signal the head of a    *)
(* wait queue, so both must be known not to be empty; kill unlinks a       *)
(* process from the queue that its state names, so it must be there.       *)
(***************************************************************************)
EXTENDS Kernel, QueueProofs

Runnable == {"CURR", "READY"}

(* The dispatcher's part: a current process, and the ready ones on the ready list. *)
SchedOK ==
    /\ currpid \in Pid /\ prstate \in [Pid -> States]
    /\ readylist \in Seq(Pid) /\ IsInjective(readylist)
    /\ DOMAIN qkey = Pid /\ preempt \in 1..QUANTUM /\ attempt \in BOOLEAN
    /\ SomeoneToRun
    /\ \A p \in Pid : prstate[p] = "READY" <=> p \in ToSet(readylist)

SleepOK ==
    /\ sleepq \in Seq(Pid) /\ IsInjective(sleepq)
    /\ \A p \in Pid : prstate[p] \in {"SLEEP", "RECTIM"} <=> p \in ToSet(sleepq)

SemOK ==
    /\ sstate \in [Sem -> {"FREE", "USED"}] /\ scount \in [Sem -> Int]
    /\ squeue \in [Sem -> Seq(Pid)] /\ prsem \in [Pid -> Sem \cup {None}]
    /\ \A p \in Pid : prstate[p] = "WAIT" => prsem[p] \in Sem
    /\ \A s \in Sem :
        /\ IsInjective(squeue[s])
        /\ \A p \in Pid : prstate[p] = "WAIT" /\ prsem[p] = s <=> p \in ToSet(squeue[s])

(* semdelete frees the entry first and then releases the waiters: at any other
   time a free semaphore has none, so that semcreate may set its count. *)
Deleting(s) == kpc[currpid].at = "semdelete" /\ kpc[currpid].x = s

FreeOK == \A s \in Sem : sstate[s] = "FREE" => scount[s] >= 0 \/ Deleting(s)

ContextOK ==
    /\ kpc \in [Pid -> [at : Labels, x : Pid \cup Sem \cup {None}, n : Int]]
    /\ ndefers \in {0, 1}
    /\ DeferredOnlyInLoops /\ Arguments

FieldsOK ==
    /\ prprio \in [Pid -> Int] /\ prparent \in [Pid -> Pid]
    /\ prhasmsg \in [Pid -> BOOLEAN]
    /\ prcount \in Int /\ halted \in BOOLEAN

(* The inductive invariant, in the parts that actions disturb separately. *)
IInv == SchedOK /\ SleepOK /\ SemOK /\ CountMatchesQueue /\ FreeOK /\ ContextOK /\ FieldsOK

(* What a caller of resched hands over: its own process may have left state CURR. *)
Handed(st, rl, key) ==
    /\ currpid \in Pid /\ st \in [Pid -> States]
    /\ rl \in Seq(Pid) /\ IsInjective(rl)
    /\ DOMAIN key = Pid
    /\ st[NULLPROC] \in Runnable
    /\ \A p \in Pid : st[p] = "CURR" => p = currpid
    /\ \A p \in Pid : st[p] = "READY" <=> p \in ToSet(rl)

(* All that resched does to the states it is handed: choose who is current. *)
Settled(st) ==
    \A p \in Pid : \/ prstate'[p] = st[p]
                   \/ st[p] \in Runnable /\ prstate'[p] \in Runnable

-----------------------------------------------------------------------------
LEMMA StayOK ==
    ASSUME NEW st, NEW rl, NEW key, NEW slice \in 1..QUANTUM,
           Handed(st, rl, key), st[currpid] = "CURR", attempt' \in BOOLEAN,
           Stay(st, rl, key, slice)
    PROVE  SchedOK' /\ Settled(st)
BY DEF Handed, Stay, SchedOK, SomeoneToRun, Settled, Runnable

LEMMA DispatchOK ==
    ASSUME NEW st, NEW rl, NEW key,
           Handed(st, rl, key), st[currpid] # "CURR", attempt' \in BOOLEAN,
           Dispatch(st, rl, key)
    PROVE  SchedOK' /\ Settled(st)
<1> DEFINE next == Head(rl)
<1>1. st[NULLPROC] = "READY" /\ NULLPROC \in ToSet(rl)
    BY PidAssumption DEF Handed, Runnable
<1>2. rl # <<>>
    BY <1>1 DEF ToSet
<1>3. /\ next \in Pid /\ next \in ToSet(rl)
      /\ Tail(rl) \in Seq(Pid) /\ IsInjective(Tail(rl))
      /\ ToSet(Tail(rl)) = ToSet(rl) \ {next}
    BY <1>2, TailQueue DEF Handed
<1>4. /\ currpid' = next /\ readylist' = Tail(rl) /\ qkey' = key /\ preempt' = QUANTUM
      /\ prstate' = [st EXCEPT ![next] = "CURR"]
    BY DEF Dispatch
<1> HIDE DEF next
<1>5. prstate' \in [Pid -> States]
    BY <1>3, <1>4 DEF Handed, States
<1>6. \A p \in Pid : prstate'[p] = IF p = next THEN "CURR" ELSE st[p]
    BY <1>4 DEF Handed
<1>7. \A p \in Pid : prstate'[p] = "CURR" <=> p = next
    BY <1>6 DEF Handed
<1>8. \A p \in Pid : prstate'[p] = "READY" <=> p \in ToSet(readylist')
    BY <1>3, <1>4, <1>6 DEF Handed
<1>9. prstate'[NULLPROC] \in Runnable
    BY <1>1, <1>6, PidAssumption DEF Runnable
<1>10. QUANTUM \in 1..QUANTUM
    BY QuantumAssumption, SMT
<1>11. SchedOK'
    BY <1>3, <1>4, <1>5, <1>7, <1>8, <1>9, <1>10 DEF Handed, SchedOK, SomeoneToRun, Runnable
<1>12. Settled(st)
    <2>1. st[next] = "READY"
        BY <1>3 DEF Handed
    <2>2. QED
        BY <2>1, <1>6 DEF Settled, Runnable
<1>13. QED
    BY <1>11, <1>12

(* A process whose state is not READY is not on the ready list, so insert may add it. *)
LEMMA HandedInsert ==
    ASSUME NEW st \in [Pid -> States], NEW rl \in Seq(Pid), NEW key, NEW p \in Pid,
           DOMAIN key = Pid, IsInjective(rl), currpid \in Pid,
           \A q \in Pid : st[q] = "CURR" => q = currpid \/ q = p,
           \A q \in Pid : st[q] = "READY" <=> q \in ToSet(rl),
           st[p] # "READY",
           st[NULLPROC] \in Runnable \/ p = NULLPROC
    PROVE  Handed([st EXCEPT ![p] = "READY"], Insert(rl, p, prprio[p], key),
                  [key EXCEPT ![p] = prprio[p]])
<1> DEFINE rl2 == Insert(rl, p, prprio[p], key)
           st2 == [st EXCEPT ![p] = "READY"]
<1>1. /\ rl2 \in Seq(Pid) /\ ToSet(rl2) = ToSet(rl) \cup {p}
      /\ IsInjective(rl2)
    BY InsertQueue
<1>2. st2 \in [Pid -> States] /\ \A q \in Pid : st2[q] = IF q = p THEN "READY" ELSE st[q]
    BY DEF States
<1> HIDE DEF rl2, st2
<1>3. \A q \in Pid : st2[q] = "READY" <=> q \in ToSet(rl2)
    BY <1>1, <1>2
<1>4. st2[NULLPROC] \in Runnable
    BY <1>2, PidAssumption DEF Runnable
<1>5. \A q \in Pid : st2[q] = "CURR" => q = currpid
    BY <1>2
<1>6. DOMAIN [key EXCEPT ![p] = prprio[p]] = Pid
    OBVIOUS
<1>7. Handed(st2, rl2, [key EXCEPT ![p] = prprio[p]])
    BY <1>1, <1>2, <1>3, <1>4, <1>5, <1>6 DEF Handed
<1>8. QED
    BY <1>7 DEF st2, rl2

LEMMA SwitchOK ==
    ASSUME NEW st, NEW rl, NEW key, NEW slice \in 1..QUANTUM,
           Handed(st, rl, key), attempt' \in BOOLEAN,
           Switch(st, rl, key, slice)
    PROVE  SchedOK' /\ Settled(st)
<1>1. CASE st[currpid] # "CURR"
    <2>1. Dispatch(st, rl, key)
        BY <1>1 DEF Switch, Keeps
    <2>2. QED
        BY <1>1, <2>1, DispatchOK
<1>2. CASE st[currpid] = "CURR" /\ Stay(st, rl, key, slice)
    BY <1>2, StayOK
<1>3. CASE /\ st[currpid] = "CURR"
           /\ Dispatch([st EXCEPT ![currpid] = "READY"],
                       Insert(rl, currpid, prprio[currpid], key),
                       [key EXCEPT ![currpid] = prprio[currpid]])
    <2> DEFINE st2 == [st EXCEPT ![currpid] = "READY"]
               rl2 == Insert(rl, currpid, prprio[currpid], key)
               key2 == [key EXCEPT ![currpid] = prprio[currpid]]
    <2>1. Handed(st2, rl2, key2)
        <3>1. st[currpid] # "READY"
            BY <1>3
        <3>2. QED
            BY <3>1, HandedInsert DEF Handed
    <2>2. st2[currpid] = "READY" /\ \A p \in Pid : st2[p] = IF p = currpid THEN "READY" ELSE st[p]
        BY DEF Handed
    <2>3. Dispatch(st2, rl2, key2)
        BY <1>3
    <2> HIDE DEF st2, rl2, key2
    <2>4. SchedOK' /\ Settled(st2)
        BY <2>1, <2>2, <2>3, DispatchOK
    <2>5. Settled(st)
        BY <2>2, <2>4, <1>3 DEF Settled, Runnable
    <2>6. QED
        BY <2>4, <2>5
<1>4. QED
    BY <1>1, <1>2, <1>3 DEF Switch

(* resched may be deferred only by a process that stays current. *)
LEMMA ReschedOK ==
    ASSUME NEW st, NEW rl, NEW key,
           SchedOK, Handed(st, rl, key), ndefers \in {0, 1},
           ndefers = 1 => st[currpid] = "CURR",
           Resched(st, rl, key)
    PROVE  /\ SchedOK' /\ Settled(st)
           /\ ndefers = 1 => currpid' = currpid
<1>1. preempt \in 1..QUANTUM /\ attempt \in BOOLEAN
    BY DEF SchedOK
<1>2. CASE ndefers = 1
    <2>1. attempt' = TRUE /\ Stay(st, rl, key, preempt)
        BY <1>2, SMT DEF Resched
    <2>2. QED
        BY <1>1, <1>2, <2>1, StayOK DEF Stay
<1>3. CASE ndefers = 0
    <2>1. attempt' = attempt /\ Switch(st, rl, key, preempt)
        BY <1>3, SMT DEF Resched
    <2>2. QED
        BY <1>1, <1>3, <2>1, SwitchOK
<1>4. QED
    BY <1>2, <1>3

(* ready, applied to a process that is on neither the processor nor the ready list. *)
LEMMA ReadyOK ==
    ASSUME SchedOK, ndefers \in {0, 1}, NEW p \in Pid, NEW key, DOMAIN key = Pid,
           prstate[p] \notin Runnable, Ready(p, key)
    PROVE  /\ SchedOK' /\ Settled([prstate EXCEPT ![p] = "READY"])
           /\ ndefers = 1 => currpid' = currpid
<1> DEFINE st == [prstate EXCEPT ![p] = "READY"]
           rl == Insert(readylist, p, prprio[p], key)
           key2 == [key EXCEPT ![p] = prprio[p]]
<1>1. Handed(st, rl, key2)
    <2>1. prstate[p] # "READY"
        BY DEF Runnable
    <2>2. QED
        BY <2>1, HandedInsert DEF SchedOK, SomeoneToRun, Runnable
<1>2. st[currpid] = "CURR"
    BY DEF SchedOK, SomeoneToRun, Runnable
<1>3. Resched(st, rl, key2)
    BY DEF Ready
<1> HIDE DEF st, rl, key2
<1>4. SchedOK' /\ Settled(st) /\ (ndefers = 1 => currpid' = currpid)
    BY <1>1, <1>2, <1>3, ReschedOK
<1>5. QED
    BY <1>4 DEF st

(* The current process, not the null process, leaves the processor. *)
LEMMA BlockOK ==
    ASSUME SchedOK, ndefers = 0, currpid # NULLPROC,
           NEW state \in States \ Runnable, NEW key, DOMAIN key = Pid,
           Block(state, key)
    PROVE  SchedOK' /\ Settled([prstate EXCEPT ![currpid] = state])
<1> DEFINE st == [prstate EXCEPT ![currpid] = state]
<1>1. st \in [Pid -> States] /\ \A p \in Pid : st[p] = IF p = currpid THEN state ELSE prstate[p]
    BY DEF SchedOK
<1>2. Resched(st, readylist, key)
    BY DEF Block
<1> HIDE DEF st
<1>3. Handed(st, readylist, key)
    BY <1>1, PidAssumption DEF Handed, SchedOK, SomeoneToRun, Runnable
<1>4. SchedOK' /\ Settled(st)
    BY <1>2, <1>3, ReschedOK
<1>5. QED
    BY <1>4 DEF st

-----------------------------------------------------------------------------
(* Frames: what is left alone stays consistent. *)
LEMMA SchedKept ==
    ASSUME SchedOK, UNCHANGED dispatchVars
    PROVE  SchedOK' /\ Settled(prstate)
BY DEF SchedOK, SomeoneToRun, dispatchVars, Settled

LEMMA SleepKept ==
    ASSUME SleepOK, NEW st, Settled(st), UNCHANGED sleepq,
           \A p \in Pid : st[p] \in {"SLEEP", "RECTIM"} <=> prstate[p] \in {"SLEEP", "RECTIM"}
    PROVE  SleepOK'
BY DEF SleepOK, Settled, Runnable

LEMMA SemKept ==
    ASSUME SemOK, NEW st, Settled(st), UNCHANGED <<semVars, prsem>>,
           \A p \in Pid : st[p] = "WAIT" <=> prstate[p] = "WAIT"
    PROVE  SemOK'
<1>1. \A p \in Pid : prstate'[p] = "WAIT" <=> prstate[p] = "WAIT"
    BY DEF Settled, Runnable
<1>2. sstate' = sstate /\ scount' = scount /\ squeue' = squeue /\ prsem' = prsem
    BY DEF semVars
<1>3. QED
    BY <1>1, <1>2 DEF SemOK

LEMMA CountKept ==
    ASSUME CountMatchesQueue, \A s \in Sem : ~Resetting(s), UNCHANGED <<scount, squeue>>
    PROVE  CountMatchesQueue'
BY DEF CountMatchesQueue

LEMMA FreeKept ==
    ASSUME FreeOK, \A s \in Sem : ~Deleting(s), UNCHANGED sstate, SemOK,
           NEW n \in [Sem -> Int], scount' = n, \A s \in Sem : n[s] >= scount[s] \/ sstate[s] = "USED"
    PROVE  FreeOK'
<1>1. SUFFICES ASSUME NEW s \in Sem, sstate[s] = "FREE" PROVE n[s] >= 0
    BY DEF FreeOK
<1>2. scount[s] \in Int /\ n[s] \in Int /\ scount[s] >= 0 /\ n[s] >= scount[s]
    BY <1>1 DEF FreeOK, SemOK
<1>3. QED
    BY <1>2, SMT

LEMMA ContextKept ==
    ASSUME ContextOK, currpid \in Pid, currpid' \in Pid, ndefers = 0, UNCHANGED <<kpc, ndefers>>
    PROVE  ContextOK'
<1>1. \A p \in Pid : kpc[p].at \notin Loops
    BY SMT DEF ContextOK, DeferredOnlyInLoops
<1>2. QED
    BY <1>1, SMT DEF ContextOK, DeferredOnlyInLoops, Arguments

(* The current process goes to a label outside the loops, or back to user code. *)
LEMMA ContextLeaves ==
    ASSUME ContextOK, currpid \in Pid, currpid' \in Pid, ndefers' = 0,
           NEW pc \in [at : Labels \ Loops, x : Pid \cup Sem \cup {None}, n : Int],
           pc.at = "kill" => pc.x \in Pid \ {NULLPROC},
           Goto(pc)
    PROVE  ContextOK'
<1>1. \A p \in Pid : kpc'[p] = IF p = currpid THEN pc ELSE kpc[p]
    BY DEF ContextOK, Goto
<1>2. kpc' \in [Pid -> [at : Labels, x : Pid \cup Sem \cup {None}, n : Int]]
    BY DEF ContextOK, Goto
<1>3. \A p \in Pid : kpc'[p].at \notin Loops
    BY <1>1 DEF ContextOK, DeferredOnlyInLoops
<1>4. Arguments'
    BY <1>1, <1>3 DEF ContextOK, Arguments, Loops, SemLoops
<1>5. QED
    BY <1>2, <1>3, <1>4, SMT DEF ContextOK, DeferredOnlyInLoops

(* The current process enters a loop, or goes round it, and stays current. *)
LEMMA ContextLoops ==
    ASSUME ContextOK, currpid \in Pid, currpid' = currpid, ndefers' = 1,
           NEW pc \in [at : Loops, x : Pid \cup Sem \cup {None}, n : Int],
           pc.at \in SemLoops => pc.x \in Sem /\ pc.n \in Nat,
           Goto(pc)
    PROVE  ContextOK'
<1>1. \A p \in Pid : kpc'[p] = IF p = currpid THEN pc ELSE kpc[p]
    BY DEF ContextOK, Goto
<1>2. kpc' \in [Pid -> [at : Labels, x : Pid \cup Sem \cup {None}, n : Int]]
    BY DEF ContextOK, Goto, Labels
<1>3. \A p \in Pid : kpc'[p].at \in Loops <=> p = currpid
    BY <1>1 DEF ContextOK, DeferredOnlyInLoops
<1>4. Arguments'
    BY <1>1 DEF ContextOK, Arguments, Loops, SemLoops
<1>5. QED
    BY <1>2, <1>3, <1>4, SMT DEF ContextOK, DeferredOnlyInLoops

(* User code runs with rescheduling allowed and no loop under way. *)
LEMMA UserFacts ==
    ASSUME ContextOK, InUser
    PROVE  ndefers = 0 /\ \A s \in Sem : ~Resetting(s) /\ ~Deleting(s)
BY SMT DEF ContextOK, DeferredOnlyInLoops, InUser, User, Doing, Loops, SemLoops, Resetting, Deleting

(* So does a process back from a switch. *)
LEMMA ReturnFacts ==
    ASSUME ContextOK, NEW label \in Labels \ Loops, At(label)
    PROVE  ndefers = 0 /\ \A s \in Sem : ~Resetting(s) /\ ~Deleting(s)
BY SMT DEF ContextOK, DeferredOnlyInLoops, At, Loops, SemLoops, Resetting, Deleting

LEMMA UserType == User \in [at : Labels \ Loops, x : Pid \cup Sem \cup {None}, n : Int]
BY SMT DEF User, Doing, Labels, Loops, SemLoops

-----------------------------------------------------------------------------
LEMMA InitOK == Init => IInv
<1> SUFFICES ASSUME NEW startup \in Pid \ {NULLPROC},
                    currpid = startup,
                    prstate = [p \in Pid |-> CASE p = startup  -> "CURR"
                                                [] p = NULLPROC -> "READY"
                                                [] OTHER        -> "FREE"],
                    Init
             PROVE  IInv
    BY DEF Init
<1>1. \A p \in Pid : prstate[p] = IF p = startup THEN "CURR"
                                  ELSE IF p = NULLPROC THEN "READY" ELSE "FREE"
    BY PidAssumption
<1>2. readylist \in Seq(Pid) /\ ToSet(readylist) = {NULLPROC} /\ IsInjective(readylist)
    BY PidAssumption, SMT DEF Init, ToSet, IsInjective
<1>3. SchedOK
    <2>1. prstate \in [Pid -> States]
        BY <1>1 DEF States
    <2>2. DOMAIN qkey = Pid /\ attempt \in BOOLEAN
        BY DEF Init
    <2>3. preempt \in 1..QUANTUM
        BY QuantumAssumption, SMT DEF Init
    <2>4. \A p \in Pid : prstate[p] = "READY" <=> p \in ToSet(readylist)
        BY <1>1, <1>2
    <2>5. QED
        BY <1>1, <1>2, <2>1, <2>2, <2>3, <2>4, PidAssumption DEF SchedOK, SomeoneToRun
<1>4. SleepOK
    BY <1>1, SMT DEF Init, SleepOK, ToSet, IsInjective
<1>5. SemOK
    BY <1>1, SMT DEF Init, SemOK, ToSet, IsInjective
<1>6. CountMatchesQueue
    BY SMT DEF Init, CountMatchesQueue
<1>7. ContextOK
    BY SMT DEF Init, ContextOK, DeferredOnlyInLoops, Arguments, User, Doing, Labels, Loops, SemLoops
<1>8. FieldsOK
    <2>1. INITPRIO \in Int /\ 0 \in Int /\ 2 \in Int
        BY PrioAssumption, SMT
    <2>2. prcount \in Int
        BY <2>1 DEF Init
    <2>3. prprio \in [Pid -> Int]
        BY <2>1 DEF Init
    <2>4. prparent \in [Pid -> Pid]
        BY PidAssumption DEF Init
    <2>5. prhasmsg \in [Pid -> BOOLEAN]
        BY DEF Init
    <2>6. halted \in BOOLEAN
        BY DEF Init
    <2>7. QED
        BY <2>2, <2>3, <2>4, <2>5, <2>6 DEF FieldsOK
<1>9. FreeOK
    BY SMT DEF Init, FreeOK
<1>10. QED
    BY <1>3, <1>4, <1>5, <1>6, <1>7, <1>8, <1>9 DEF IInv

-----------------------------------------------------------------------------
(* Semaphores *)
LEMMA WaitOK ==
    ASSUME IInv, NEW s \in Sem, Wait(s)
    PROVE  IInv'
<1>1. ndefers = 0 /\ currpid # NULLPROC /\ \A t \in Sem : ~Resetting(t) /\ ~Deleting(t)
    BY UserFacts DEF IInv, Wait, Calling
<1>2. currpid \in Pid /\ prstate[currpid] = "CURR" /\ DOMAIN qkey = Pid /\ prstate \in [Pid -> States]
    BY DEF IInv, SchedOK, SomeoneToRun
<1>3. FieldsOK' /\ FreeOK'
    <2>1. FieldsOK'
        BY DEF IInv, FieldsOK, Wait
    <2>2. FreeOK'
        BY <1>1, SMT DEF IInv, FreeOK, SemOK, Wait
    <2>3. QED
        BY <2>1, <2>2
<1>4. CASE scount[s] > 0 /\ UNCHANGED <<prsem, squeue, dispatchVars>>
    <2>1. SchedOK' /\ Settled(prstate)
        BY <1>4, SchedKept DEF IInv
    <2>2. SleepOK'
        BY <2>1, SleepKept DEF IInv, Wait
    <2>3. scount' = [scount EXCEPT ![s] = @ - 1]
        BY DEF Wait
    <2>4. SemOK'
        BY <1>4, <2>1, <2>3, SMT DEF IInv, SemOK, dispatchVars, Wait
    <2>5. CountMatchesQueue'
        BY <1>1, <1>4, <2>3, SMT DEF IInv, CountMatchesQueue, SemOK
    <2>6. ContextOK'
        BY <1>1, <2>1, ContextKept DEF IInv, SchedOK, Wait
    <2>7. QED
        BY <1>3, <2>1, <2>2, <2>4, <2>5, <2>6 DEF IInv
<1>5. CASE /\ scount[s] <= 0
           /\ prsem' = [prsem EXCEPT ![currpid] = s]
           /\ squeue' = [squeue EXCEPT ![s] = Append(@, currpid)]
           /\ Block("WAIT", qkey)
    <2> DEFINE st == [prstate EXCEPT ![currpid] = "WAIT"]
    <2>1. SchedOK' /\ Settled(st)
        BY <1>1, <1>2, <1>5, BlockOK DEF IInv, States, Runnable
    <2>2. \A p \in Pid : st[p] = IF p = currpid THEN "WAIT" ELSE prstate[p]
        BY <1>2
    <2> HIDE DEF st
    <2>3. SleepOK'
        BY <1>2, <2>1, <2>2, SleepKept DEF IInv, Wait
    <2>4. \A p \in Pid : prstate'[p] = "WAIT" <=> p = currpid \/ prstate[p] = "WAIT"
        BY <2>1, <2>2 DEF Settled, Runnable
    <2>5. /\ squeue[s] \in Seq(Pid) /\ IsInjective(squeue[s]) /\ Len(squeue[s]) \in Nat
          /\ currpid \notin ToSet(squeue[s])
        BY <1>2 DEF IInv, SemOK
    <2>6. /\ Append(squeue[s], currpid) \in Seq(Pid) /\ IsInjective(Append(squeue[s], currpid))
          /\ Len(Append(squeue[s], currpid)) = Len(squeue[s]) + 1
          /\ ToSet(Append(squeue[s], currpid)) = ToSet(squeue[s]) \cup {currpid}
        BY <1>2, <2>5, AppendQueue
    <2>7. \A t \in Sem : squeue'[t] = IF t = s THEN Append(squeue[s], currpid) ELSE squeue[t]
        BY <1>5 DEF IInv, SemOK
    <2>8. /\ scount' = [scount EXCEPT ![s] = @ - 1] /\ sstate' = sstate
        BY DEF Wait
    <2>9. SemOK'
        <3>1. squeue' \in [Sem -> Seq(Pid)]
            BY <1>5, <2>6 DEF IInv, SemOK
        <3>2. prsem' \in [Pid -> Sem \cup {None}] /\ \A p \in Pid : prsem'[p] = IF p = currpid THEN s ELSE prsem[p]
            BY <1>2, <1>5 DEF IInv, SemOK
        <3>3. scount' \in [Sem -> Int]
            BY <2>8, SMT DEF IInv, SemOK
        <3>4. ASSUME NEW t \in Sem
              PROVE  /\ IsInjective(squeue'[t])
                     /\ \A p \in Pid : prstate'[p] = "WAIT" /\ prsem'[p] = t <=> p \in ToSet(squeue'[t])
            BY <1>2, <2>4, <2>6, <2>7, <3>2, SMTT(30) DEF IInv, SemOK
        <3>5. \A p \in Pid : prstate'[p] = "WAIT" => prsem'[p] \in Sem
            BY <2>4, <3>2 DEF IInv, SemOK
        <3>6. QED
            BY <2>8, <3>1, <3>2, <3>3, <3>4, <3>5 DEF IInv, SemOK
    <2>10. CountMatchesQueue'
        BY <1>1, <1>5, <2>5, <2>6, <2>7, <2>8, SMT DEF IInv, CountMatchesQueue, SemOK
    <2>11. ContextOK'
        BY <1>1, <2>1, ContextKept DEF IInv, SchedOK, Wait
    <2>12. QED
        BY <1>3, <2>1, <2>3, <2>9, <2>10, <2>11 DEF IInv
<1>6. QED
    BY <1>4, <1>5 DEF Wait

(* The first waiter of a queue leaves it and becomes ready. *)
LEMMA ReleaseOK ==
    ASSUME IInv, NEW s \in Sem, squeue[s] # <<>>,
           squeue' = [squeue EXCEPT ![s] = Tail(@)],
           Ready(Head(squeue[s]), qkey),
           scount' \in [Sem -> Int],
           UNCHANGED <<sstate, prsem, sleepq>>
    PROVE  /\ SchedOK' /\ SleepOK' /\ SemOK'
           /\ Len(squeue[s]) \in Nat \ {0}
           /\ \A t \in Sem : Len(squeue'[t]) = IF t = s THEN Len(squeue[s]) - 1 ELSE Len(squeue[t])
           /\ ndefers = 1 => currpid' = currpid
<1> DEFINE p == Head(squeue[s])
           st == [prstate EXCEPT ![p] = "READY"]
<1>1. squeue[s] \in Seq(Pid) /\ IsInjective(squeue[s])
    BY DEF IInv, SemOK
<1>2. /\ p \in Pid /\ p \in ToSet(squeue[s])
      /\ Tail(squeue[s]) \in Seq(Pid) /\ IsInjective(Tail(squeue[s]))
      /\ Len(squeue[s]) \in Nat \ {0}
      /\ Len(Tail(squeue[s])) = Len(squeue[s]) - 1
      /\ ToSet(Tail(squeue[s])) = ToSet(squeue[s]) \ {p}
    BY <1>1, TailQueue
<1> HIDE DEF p
<1>3. prstate[p] = "WAIT" /\ prsem[p] = s
    BY <1>2 DEF IInv, SemOK
<1>4. SchedOK' /\ Settled(st) /\ (ndefers = 1 => currpid' = currpid)
    <2>1. ndefers \in {0, 1} /\ DOMAIN qkey = Pid /\ prstate[p] \notin Runnable /\ SchedOK
        BY <1>3 DEF IInv, ContextOK, SchedOK, Runnable
    <2>2. QED
        BY <1>2, <2>1, ReadyOK DEF p
<1>5. \A q \in Pid : st[q] = IF q = p THEN "READY" ELSE prstate[q]
    BY DEF IInv, SchedOK
<1> HIDE DEF st
<1>6. SleepOK'
    BY <1>3, <1>4, <1>5, SleepKept DEF IInv
<1>7. \A q \in Pid : prstate'[q] = "WAIT" <=> q # p /\ prstate[q] = "WAIT"
    BY <1>3, <1>4, <1>5 DEF Settled, Runnable
<1>8. \A t \in Sem : squeue'[t] = IF t = s THEN Tail(squeue[s]) ELSE squeue[t]
    BY DEF IInv, SemOK
<1>9. SemOK'
    <2>1. squeue' \in [Sem -> Seq(Pid)]
        BY <1>2 DEF IInv, SemOK
    <2>2. ASSUME NEW t \in Sem
          PROVE  /\ IsInjective(squeue'[t])
                 /\ \A q \in Pid : prstate'[q] = "WAIT" /\ prsem'[q] = t <=> q \in ToSet(squeue'[t])
        <3>1. CASE t = s
            BY <1>2, <1>3, <1>7, <1>8, <3>1 DEF IInv, SemOK
        <3>2. CASE t # s
            BY <1>3, <1>7, <1>8, <3>2 DEF IInv, SemOK
        <3>3. QED
            BY <3>1, <3>2
    <2>3. QED
        BY <1>7, <2>1, <2>2 DEF IInv, SemOK
<1>10. QED
    BY <1>2, <1>4, <1>6, <1>8, <1>9

LEMMA VOK ==
    ASSUME IInv, NEW s \in Sem, \A t \in Sem : ~Resetting(t), V(s),
           UNCHANGED <<sstate, prsem, sleepq>>
    PROVE  /\ SchedOK' /\ SleepOK' /\ SemOK'
           /\ CountMatchesQueue'
           /\ (\A t \in Sem : ~Deleting(t)) => FreeOK'
           /\ ndefers = 1 => currpid' = currpid
<1>1. \A t \in Sem : scount'[t] = IF t = s THEN scount[s] + 1 ELSE scount[t]
    BY DEF V, IInv, SemOK
<1>2. scount' \in [Sem -> Int] /\ scount \in [Sem -> Int]
    BY SMT DEF V, IInv, SemOK
<1>3. \A t \in Sem : Len(squeue[t]) = IF scount[t] < 0 THEN -scount[t] ELSE 0
    BY DEF IInv, CountMatchesQueue
<1> DEFINE n == scount'
<1>f. ASSUME \A t \in Sem : ~Deleting(t) PROVE FreeOK'
    <2>1. \A t \in Sem : n[t] >= scount[t]
        BY <1>1, <1>2, SMT
    <2>2. n \in [Sem -> Int] /\ scount' = n /\ SemOK /\ FreeOK
        BY <1>2 DEF IInv
    <2> HIDE DEF n
    <2>3. QED
        BY <1>f, <2>1, <2>2, FreeKept
<1>4. CASE scount[s] >= 0 /\ UNCHANGED <<squeue, dispatchVars>>
    <2>1. SchedOK' /\ Settled(prstate)
        BY <1>4, SchedKept DEF IInv
    <2>2. SleepOK'
        BY <2>1, SleepKept DEF IInv
    <2>3. SemOK'
        BY <1>2, <1>4 DEF IInv, SemOK, dispatchVars
    <2>4. CountMatchesQueue'
        BY <1>1, <1>2, <1>3, <1>4, SMT DEF CountMatchesQueue
    <2>5. QED
        BY <1>4, <1>f, <2>1, <2>2, <2>3, <2>4 DEF dispatchVars
<1>5. CASE /\ scount[s] < 0
           /\ squeue' = [squeue EXCEPT ![s] = Tail(@)]
           /\ Ready(Head(squeue[s]), qkey)
    <2>1. squeue[s] # <<>>
        <3>1. Len(squeue[s]) # 0
            BY <1>2, <1>3, <1>5, SMT
        <3>2. QED
            BY <3>1, EmptySeq
    <2>2. /\ SchedOK' /\ SleepOK' /\ SemOK'
          /\ \A t \in Sem : Len(squeue'[t]) = IF t = s THEN Len(squeue[s]) - 1 ELSE Len(squeue[t])
          /\ ndefers = 1 => currpid' = currpid
        BY <1>2, <1>5, <2>1, ReleaseOK
    <2>3. CountMatchesQueue'
        <3>1. SUFFICES ASSUME NEW t \in Sem
                       PROVE  Len(squeue'[t]) = IF scount'[t] < 0 THEN -scount'[t] ELSE 0
            BY DEF CountMatchesQueue
        <3>2. CASE t = s
            <4>1. Len(squeue'[s]) = Len(squeue[s]) - 1 /\ Len(squeue[s]) = -scount[s] /\ scount'[s] = scount[s] + 1
                BY <1>1, <1>3, <1>5, <2>2
            <4>2. scount[s] \in Int
                BY <1>2
            <4>3. QED
                BY <1>5, <3>2, <4>1, <4>2, SMT
        <3>3. CASE t # s
            BY <1>1, <1>3, <2>2, <3>3
        <3>4. QED
            BY <3>2, <3>3
    <2>4. QED
        BY <1>f, <2>2, <2>3
<1>6. QED
    BY <1>4, <1>5 DEF V

LEMMA SignalOK ==
    ASSUME IInv, NEW s \in Sem, Signal(s)
    PROVE  IInv'
<1>1. ndefers = 0 /\ \A t \in Sem : ~Resetting(t) /\ ~Deleting(t)
    BY UserFacts DEF IInv, Signal, Calling
<1>2. SchedOK' /\ SleepOK' /\ SemOK' /\ CountMatchesQueue' /\ FreeOK'
    BY <1>1, VOK DEF Signal, procVars
<1>3. ContextOK'
    BY <1>1, <1>2, ContextKept DEF IInv, SchedOK, Signal
<1>4. FieldsOK'
    BY DEF IInv, FieldsOK, Signal, procVars
<1>5. QED
    BY <1>2, <1>3, <1>4 DEF IInv

(* A call that enters a loop: it only starts the deferral and notes what to do. *)
LEMMA EnterLoopOK ==
    ASSUME IInv, InUser, DeferStart,
           NEW pc \in [at : Loops, x : Pid \cup Sem \cup {None}, n : Int], Goto(pc),
           pc.at \in SemLoops => pc.x \in Sem /\ pc.n \in Nat,
           sstate' \in [Sem -> {"FREE", "USED"}], DOMAIN qkey' = Pid,
           \A s \in Sem : sstate'[s] = "FREE" => sstate[s] = "FREE" \/ (pc.at = "semdelete" /\ pc.x = s),
           UNCHANGED <<currpid, prstate, readylist, preempt, scount, squeue, procVars, prhasmsg, sleepq>>
    PROVE  IInv'
<1>1. ndefers = 0 /\ \A t \in Sem : ~Resetting(t) /\ ~Deleting(t)
    BY UserFacts DEF IInv
<1>2. SchedOK'
    BY <1>1 DEF IInv, SchedOK, SomeoneToRun, DeferStart
<1>3. SleepOK'
    BY DEF IInv, SleepOK
<1>4. SemOK'
    BY DEF IInv, SemOK, procVars
<1>5. CountMatchesQueue'
    BY <1>1, CountKept DEF IInv
<1>6. ContextOK'
    BY <1>1, ContextLoops, SMT DEF IInv, SchedOK, DeferStart
<1>7. FieldsOK'
    BY DEF IInv, FieldsOK, procVars
<1>8. FreeOK'
    <2>1. currpid' = currpid /\ kpc'[currpid] = pc /\ scount' = scount
        BY DEF IInv, SchedOK, ContextOK, Goto
    <2>2. QED
        BY <1>1, <2>1 DEF IInv, FreeOK, Deleting
<1>9. QED
    BY <1>2, <1>3, <1>4, <1>5, <1>6, <1>7, <1>8 DEF IInv

(* The current process is in the loop with this label. *)
LEMMA LoopFacts ==
    ASSUME ContextOK, currpid \in Pid, NEW label \in Loops, At(label)
    PROVE  /\ ndefers = 1
           /\ label \in SemLoops => kpc[currpid].x \in Sem /\ kpc[currpid].n \in Nat
           /\ label # "semreset" => \A t \in Sem : ~Resetting(t)
           /\ label # "semdelete" => \A t \in Sem : ~Deleting(t)
BY DEF ContextOK, DeferredOnlyInLoops, Arguments, At, Resetting, Deleting

(* A process leaves its loop: resched runs if it was called meanwhile. *)
LEMMA DeferStopOK ==
    ASSUME IInv, ndefers = 1, DeferStop
    PROVE  SchedOK' /\ Settled(prstate) /\ ndefers' = 0
<1>1. ndefers' = 0 /\ attempt' = attempt
    BY SMT DEF DeferStop
<1>2. preempt \in 1..QUANTUM /\ attempt' \in BOOLEAN
    BY <1>1 DEF IInv, SchedOK
<1>3. Handed(prstate, readylist, qkey) /\ prstate[currpid] = "CURR"
    BY DEF IInv, SchedOK, SomeoneToRun, Handed, Runnable
<1>4. \/ Switch(prstate, readylist, qkey, preempt)
      \/ Stay(prstate, readylist, qkey, preempt)
    BY DEF DeferStop
<1>5. SchedOK' /\ Settled(prstate)
    BY <1>2, <1>3, <1>4, SwitchOK, StayOK
<1>6. QED
    BY <1>1, <1>5

LEMMA SignalNOK ==
    ASSUME IInv, NEW s \in Sem, NEW count \in Counts, SignalN(s, count)
    PROVE  IInv'
<1> DEFINE pc == Doing("signaln", s, count)
<1>1. count \in Nat /\ count \in Int
    BY CountAssumption, SMT
<1>2. /\ pc \in [at : Loops, x : Pid \cup Sem \cup {None}, n : Int]
      /\ pc.x \in Sem /\ pc.n \in Nat
    BY <1>1 DEF Doing, Loops, SemLoops
<1>3. Goto(pc) /\ InUser /\ DeferStart
    BY DEF SignalN, Calling
<1> HIDE DEF pc
<1>4. sstate' \in [Sem -> {"FREE", "USED"}] /\ DOMAIN qkey' = Pid /\ sstate' = sstate
    BY DEF SignalN, semVars, IInv, SemOK, SchedOK
<1>5. QED
    BY <1>2, <1>3, <1>4, EnterLoopOK DEF SignalN, semVars

LEMMA SignalNLoopOK == ASSUME IInv, SignalNLoop PROVE IInv'
<1> DEFINE s == kpc[currpid].x
           pc == Doing("signaln", s, kpc[currpid].n - 1)
<1>1. currpid \in Pid /\ ContextOK /\ At("signaln") /\ "signaln" \in Loops
    BY DEF IInv, SchedOK, SignalNLoop, Loops, SemLoops
<1>2. ndefers = 1 /\ s \in Sem /\ kpc[currpid].n \in Nat /\ \A t \in Sem : ~Resetting(t) /\ ~Deleting(t)
    BY <1>1, LoopFacts DEF SemLoops
<1>3. kpc[currpid].n > 0 /\ V(s) /\ Goto(pc) /\ ndefers' = ndefers
    BY DEF SignalNLoop
<1>4. kpc[currpid].n - 1 \in Nat /\ kpc[currpid].n - 1 \in Int
    BY <1>2, <1>3, SMT
<1>5. /\ pc \in [at : Loops, x : Pid \cup Sem \cup {None}, n : Int]
      /\ pc.x \in Sem /\ pc.n \in Nat
    BY <1>2, <1>4 DEF Doing, Loops, SemLoops
<1> HIDE DEF s, pc
<1>6. SchedOK' /\ SleepOK' /\ SemOK' /\ CountMatchesQueue' /\ FreeOK' /\ currpid' = currpid
    BY <1>2, <1>3, VOK DEF SignalNLoop, procVars
<1>7. ContextOK'
    BY <1>1, <1>2, <1>3, <1>5, <1>6, ContextLoops
<1>8. FieldsOK'
    BY DEF IInv, FieldsOK, SignalNLoop, procVars
<1>9. QED
    BY <1>6, <1>7, <1>8 DEF IInv

(* A loop of signaln, semdelete or semreset ends, with the count it leaves behind. *)
LEMMA LeaveLoopOK ==
    ASSUME IInv, ndefers = 1, DeferStop, Return,
           scount' \in [Sem -> Int],
           \A s \in Sem : Len(squeue[s]) = IF scount'[s] < 0 THEN -scount'[s] ELSE 0,
           \A s \in Sem : sstate[s] = "FREE" => scount'[s] >= 0,
           UNCHANGED <<sstate, squeue, procVars, prhasmsg, sleepq>>
    PROVE  IInv'
<1>1. SchedOK' /\ Settled(prstate) /\ ndefers' = 0
    BY DeferStopOK
<1>2. SleepOK'
    BY <1>1, SleepKept DEF IInv
<1>3. \A p \in Pid : prstate'[p] = "WAIT" <=> prstate[p] = "WAIT"
    BY <1>1 DEF Settled, Runnable
<1>4. SemOK'
    BY <1>3 DEF IInv, SemOK, procVars
<1>5. CountMatchesQueue' /\ FreeOK'
    BY DEF CountMatchesQueue, FreeOK
<1>6. ContextOK'
    <2>1. User.at # "kill"
        BY DEF User, Doing
    <2>2. QED
        BY <1>1, <2>1, UserType, ContextLeaves DEF IInv, SchedOK, Return
<1>7. FieldsOK'
    BY DEF IInv, FieldsOK, procVars
<1>8. QED
    BY <1>1, <1>2, <1>4, <1>5, <1>6, <1>7 DEF IInv

LEMMA SignalNEndOK == ASSUME IInv, SignalNEnd PROVE IInv'
<1>1. ndefers = 1 /\ \A t \in Sem : ~Resetting(t) /\ ~Deleting(t)
    BY LoopFacts DEF IInv, SchedOK, SignalNEnd, Loops, SemLoops
<1>2. /\ scount' = scount /\ scount' \in [Sem -> Int] /\ squeue' = squeue
      /\ \A s \in Sem : sstate[s] = "FREE" => scount'[s] >= 0
    BY <1>1 DEF SignalNEnd, semVars, IInv, SemOK, FreeOK
<1>3. \A s \in Sem : Len(squeue[s]) = IF scount'[s] < 0 THEN -scount'[s] ELSE 0
    BY <1>1, <1>2 DEF IInv, CountMatchesQueue
<1>4. QED
    BY <1>1, <1>2, <1>3, LeaveLoopOK DEF SignalNEnd, semVars

LEMMA SemCreateOK ==
    ASSUME IInv, NEW s \in Sem, NEW count \in Counts, SemCreate(s, count)
    PROVE  IInv'
<1>1. ndefers = 0 /\ \A t \in Sem : ~Resetting(t) /\ ~Deleting(t)
    BY UserFacts DEF IInv, SemCreate, Calling
<1>2. /\ sstate[s] = "FREE" /\ scount[s] \in Int /\ scount[s] >= 0
      /\ Len(squeue[s]) = IF scount[s] < 0 THEN -scount[s] ELSE 0
    BY <1>1 DEF SemCreate, IInv, FreeOK, CountMatchesQueue, SemOK
<1>3. Len(squeue[s]) = 0 /\ count \in Int /\ ~(count < 0) /\ count >= 0
    BY <1>2, CountAssumption, SMT
<1>4. SchedOK' /\ Settled(prstate)
    BY SchedKept DEF IInv, SemCreate, deferVars
<1>5. SleepOK'
    BY <1>4, SleepKept DEF IInv, SemCreate
<1>6. \A t \in Sem : scount'[t] = IF t = s THEN count ELSE scount[t]
    BY DEF SemCreate, IInv, SemOK
<1>7. SemOK'
    <2>1. sstate' \in [Sem -> {"FREE", "USED"}]
        BY DEF SemCreate, IInv, SemOK
    <2>2. scount' \in [Sem -> Int]
        BY <1>3 DEF SemCreate, IInv, SemOK
    <2>3. squeue' = squeue /\ prsem' = prsem /\ prstate' = prstate
        BY DEF SemCreate, procVars, deferVars, dispatchVars
    <2>4. QED
        BY <2>1, <2>2, <2>3 DEF IInv, SemOK
<1>8. CountMatchesQueue'
    <2>1. SUFFICES ASSUME NEW t \in Sem
                   PROVE  Len(squeue'[t]) = IF scount'[t] < 0 THEN -scount'[t] ELSE 0
        BY DEF CountMatchesQueue
    <2>2. squeue' = squeue
        BY DEF SemCreate
    <2>3. CASE t = s
        BY <1>3, <1>6, <2>2, <2>3
    <2>4. CASE t # s
        BY <1>1, <1>6, <2>2, <2>4 DEF IInv, CountMatchesQueue
    <2>5. QED
        BY <2>3, <2>4
<1>9. FreeOK'
    <2>1. \A t \in Sem : t # s => sstate'[t] = sstate[t]
        BY DEF SemCreate, IInv, SemOK
    <2>2. QED
        BY <1>1, <1>3, <1>6, <2>1 DEF IInv, FreeOK
<1>10. ContextOK'
    BY <1>1, <1>4, ContextKept DEF IInv, SchedOK, SemCreate, deferVars
<1>11. FieldsOK'
    BY DEF IInv, FieldsOK, SemCreate, procVars
<1>12. QED
    BY <1>4, <1>5, <1>7, <1>8, <1>9, <1>10, <1>11 DEF IInv

LEMMA SemDeleteOK ==
    ASSUME IInv, NEW s \in Sem, SemDelete(s)
    PROVE  IInv'
<1> DEFINE pc == Doing("semdelete", s, 0)
<1>1. /\ pc \in [at : Loops, x : Pid \cup Sem \cup {None}, n : Int]
      /\ pc.at = "semdelete" /\ pc.x = s /\ pc.x \in Sem /\ pc.n \in Nat
    BY SMT DEF Doing, Loops, SemLoops
<1>2. Goto(pc) /\ InUser /\ DeferStart
    BY DEF SemDelete, Calling
<1> HIDE DEF pc
<1>3. /\ sstate' \in [Sem -> {"FREE", "USED"}] /\ DOMAIN qkey' = Pid
      /\ \A t \in Sem : sstate'[t] = "FREE" => sstate[t] = "FREE" \/ t = s
    BY DEF SemDelete, IInv, SemOK, SchedOK
<1>4. QED
    BY <1>1, <1>2, <1>3, EnterLoopOK DEF SemDelete

LEMMA SemDeleteLoopOK == ASSUME IInv, SemDeleteLoop PROVE IInv'
<1> DEFINE s == kpc[currpid].x
<1>1. currpid \in Pid /\ ContextOK /\ At("semdelete") /\ "semdelete" \in Loops
    BY DEF IInv, SchedOK, SemDeleteLoop, Loops, SemLoops
<1>2. ndefers = 1 /\ s \in Sem /\ kpc[currpid].n \in Nat /\ \A t \in Sem : ~Resetting(t)
    BY <1>1, LoopFacts DEF SemLoops
<1>3. V(s) /\ kpc' = kpc /\ ndefers' = ndefers
    BY DEF SemDeleteLoop
<1> HIDE DEF s
<1>4. SchedOK' /\ SleepOK' /\ SemOK' /\ CountMatchesQueue' /\ currpid' = currpid
    BY <1>2, <1>3, VOK DEF SemDeleteLoop, procVars
<1>5. FreeOK'
    <2>1. \A t \in Sem : Deleting(t)' <=> Deleting(t)
        BY <1>3, <1>4 DEF Deleting
    <2>2. \A t \in Sem : scount'[t] = IF t = s THEN scount[s] + 1 ELSE scount[t]
        BY <1>3 DEF V, IInv, SemOK
    <2>3. Deleting(s) /\ sstate' = sstate
        BY <1>1 DEF Deleting, At, s, SemDeleteLoop
    <2>4. QED
        BY <2>1, <2>2, <2>3 DEF IInv, FreeOK
<1>6. ContextOK'
    BY <1>3, <1>4 DEF IInv, ContextOK, DeferredOnlyInLoops, Arguments
<1>7. FieldsOK'
    BY DEF IInv, FieldsOK, SemDeleteLoop, procVars
<1>8. QED
    BY <1>4, <1>5, <1>6, <1>7 DEF IInv

LEMMA SemDeleteEndOK == ASSUME IInv, SemDeleteEnd PROVE IInv'
<1> DEFINE s == kpc[currpid].x
<1>1. currpid \in Pid /\ ContextOK /\ At("semdelete") /\ "semdelete" \in Loops
    BY DEF IInv, SchedOK, SemDeleteEnd, Loops, SemLoops
<1>2. ndefers = 1 /\ s \in Sem /\ \A t \in Sem : ~Resetting(t)
    BY <1>1, LoopFacts DEF SemLoops
<1>3. \A t \in Sem : Deleting(t) => t = s
    BY DEF Deleting
<1>4. scount[s] >= 0 /\ scount' = [scount EXCEPT ![s] = @ + 1] /\ UNCHANGED <<sstate, squeue, procVars, prhasmsg, sleepq>>
    BY DEF SemDeleteEnd
<1> HIDE DEF s
<1>5. scount \in [Sem -> Int] /\ \A t \in Sem : scount[t] \in Int
    BY DEF IInv, SemOK
<1>6. \A t \in Sem : scount'[t] = IF t = s THEN scount[s] + 1 ELSE scount[t]
    BY <1>4, <1>5
<1>7. /\ scount' \in [Sem -> Int]
      /\ \A t \in Sem : Len(squeue[t]) = IF scount'[t] < 0 THEN -scount'[t] ELSE 0
    <2>1. \A t \in Sem : Len(squeue[t]) = IF scount[t] < 0 THEN -scount[t] ELSE 0
        BY <1>2 DEF IInv, CountMatchesQueue
    <2>2. QED
        BY <1>4, <1>5, <1>6, <1>2, <2>1, SMT
<1>8. \A t \in Sem : sstate[t] = "FREE" => scount'[t] >= 0
    BY <1>2, <1>3, <1>4, <1>5, <1>6, SMT DEF IInv, FreeOK
<1>9. QED
    BY <1>2, <1>4, <1>7, <1>8, LeaveLoopOK DEF SemDeleteEnd

LEMMA SemResetOK ==
    ASSUME IInv, NEW s \in Sem, NEW count \in Counts, SemReset(s, count)
    PROVE  IInv'
<1> DEFINE pc == Doing("semreset", s, count)
<1>1. count \in Nat /\ count \in Int
    BY CountAssumption, SMT
<1>2. /\ pc \in [at : Loops, x : Pid \cup Sem \cup {None}, n : Int]
      /\ pc.x \in Sem /\ pc.n \in Nat
    BY <1>1 DEF Doing, Loops, SemLoops
<1>3. Goto(pc) /\ InUser /\ DeferStart
    BY DEF SemReset, Calling
<1> HIDE DEF pc
<1>4. sstate' \in [Sem -> {"FREE", "USED"}] /\ DOMAIN qkey' = Pid /\ sstate' = sstate
    BY DEF SemReset, semVars, IInv, SemOK, SchedOK
<1>5. QED
    BY <1>2, <1>3, <1>4, EnterLoopOK DEF SemReset, semVars

LEMMA SemResetLoopOK == ASSUME IInv, SemResetLoop PROVE IInv'
<1> DEFINE s == kpc[currpid].x
<1>1. currpid \in Pid /\ ContextOK /\ At("semreset") /\ "semreset" \in Loops
    BY DEF IInv, SchedOK, SemResetLoop, Loops, SemLoops
<1>2. ndefers = 1 /\ s \in Sem /\ \A t \in Sem : ~Deleting(t)
    BY <1>1, LoopFacts DEF SemLoops
<1>3. /\ squeue[s] # <<>> /\ squeue' = [squeue EXCEPT ![s] = Tail(@)]
      /\ Ready(Head(squeue[s]), qkey)
      /\ UNCHANGED <<ndefers, sstate, scount, procVars, prhasmsg, sleepq, kpc>>
    BY DEF SemResetLoop
<1>4. \A t \in Sem : Resetting(t) <=> t = s
    BY <1>1 DEF Resetting, At
<1> HIDE DEF s
<1>5. scount' \in [Sem -> Int] /\ prsem' = prsem
    BY <1>3 DEF IInv, SemOK, procVars
<1>6. /\ SchedOK' /\ SleepOK' /\ SemOK' /\ currpid' = currpid
      /\ \A t \in Sem : t # s => Len(squeue'[t]) = Len(squeue[t])
    BY <1>2, <1>3, <1>5, ReleaseOK
<1>7. \A t \in Sem : (Resetting(t)' <=> Resetting(t)) /\ (Deleting(t)' <=> Deleting(t))
    BY <1>3, <1>6 DEF Resetting, Deleting
<1>8. CountMatchesQueue'
    BY <1>3, <1>4, <1>6, <1>7 DEF IInv, CountMatchesQueue
<1>9. FreeOK'
    BY <1>3, <1>7 DEF IInv, FreeOK
<1>10. ContextOK'
    BY <1>3, <1>6 DEF IInv, ContextOK, DeferredOnlyInLoops, Arguments
<1>11. FieldsOK'
    BY <1>3 DEF IInv, FieldsOK, procVars
<1>12. QED
    BY <1>6, <1>8, <1>9, <1>10, <1>11 DEF IInv

LEMMA SemResetEndOK == ASSUME IInv, SemResetEnd PROVE IInv'
<1> DEFINE s == kpc[currpid].x
           n == kpc[currpid].n
<1>1. currpid \in Pid /\ ContextOK /\ At("semreset") /\ "semreset" \in Loops
    BY DEF IInv, SchedOK, SemResetEnd, Loops, SemLoops
<1>2. ndefers = 1 /\ s \in Sem /\ n \in Nat /\ \A t \in Sem : ~Deleting(t)
    BY <1>1, LoopFacts DEF SemLoops
<1>3. squeue[s] = <<>> /\ scount' = [scount EXCEPT ![s] = n] /\ UNCHANGED <<sstate, squeue, procVars, prhasmsg, sleepq>>
    BY DEF SemResetEnd
<1>4. \A t \in Sem : Resetting(t) => t = s
    BY DEF Resetting
<1> HIDE DEF s, n
<1>5. scount \in [Sem -> Int] /\ n \in Int /\ ~(n < 0) /\ n >= 0 /\ Len(squeue[s]) = 0
    BY <1>2, <1>3, SMT DEF IInv, SemOK
<1>6. \A t \in Sem : scount'[t] = IF t = s THEN n ELSE scount[t]
    BY <1>3, <1>5
<1>7. /\ scount' \in [Sem -> Int]
      /\ \A t \in Sem : Len(squeue[t]) = IF scount'[t] < 0 THEN -scount'[t] ELSE 0
    BY <1>3, <1>4, <1>5, <1>6 DEF IInv, CountMatchesQueue
<1>8. \A t \in Sem : sstate[t] = "FREE" => scount'[t] >= 0
    BY <1>2, <1>5, <1>6 DEF IInv, FreeOK
<1>9. QED
    BY <1>2, <1>3, <1>7, <1>8, LeaveLoopOK DEF SemResetEnd

-----------------------------------------------------------------------------
(* Messages and the sleep queue *)

(* A sleeper is off the sleep queue and becomes ready. *)
LEMMA WakeOK ==
    ASSUME IInv, NEW p \in Pid, p \in ToSet(sleepq), NEW key, DOMAIN key = Pid, Ready(p, key),
           sleepq' \in Seq(Pid), IsInjective(sleepq'), ToSet(sleepq') = ToSet(sleepq) \ {p},
           UNCHANGED <<semVars, prsem>>
    PROVE  /\ SchedOK' /\ SleepOK' /\ SemOK'
           /\ ndefers = 1 => currpid' = currpid
<1> DEFINE st == [prstate EXCEPT ![p] = "READY"]
<1>1. prstate[p] \in {"SLEEP", "RECTIM"} /\ prstate[p] \notin Runnable
    BY DEF IInv, SleepOK, Runnable
<1>2. SchedOK' /\ Settled(st) /\ (ndefers = 1 => currpid' = currpid)
    BY <1>1, ReadyOK DEF IInv, ContextOK
<1>3. \A q \in Pid : st[q] = IF q = p THEN "READY" ELSE prstate[q]
    BY DEF IInv, SchedOK
<1> HIDE DEF st
<1>4. \A q \in Pid : prstate'[q] \in {"SLEEP", "RECTIM"} <=> q # p /\ prstate[q] \in {"SLEEP", "RECTIM"}
    BY <1>2, <1>3 DEF Settled, Runnable
<1>5. SleepOK'
    BY <1>4 DEF IInv, SleepOK
<1>6. SemOK'
    BY <1>1, <1>2, <1>3, SemKept DEF IInv
<1>7. QED
    BY <1>2, <1>5, <1>6

(* unsleep and insertd keep a key for every process. *)
LEMMA DeltaKeysDomain ==
    ASSUME NEW q, NEW item, NEW k, NEW key, DOMAIN key = Pid
    PROVE  /\ DOMAIN UnsleepKeys(q, item, key) = Pid
           /\ DOMAIN InsertDeltaKeys(q, item, k, key) = Pid
BY DEF UnsleepKeys, InsertDeltaKeys

(* Waking a recipient, whether it waits for ever or with a timeout. *)
LEMMA WakeRecipientOK ==
    ASSUME IInv, NEW p \in Pid, Wake(p), UNCHANGED <<semVars, prsem>>
    PROVE  /\ SchedOK' /\ SleepOK' /\ SemOK'
           /\ ndefers = 1 => currpid' = currpid
<1>1. SchedOK /\ DOMAIN qkey = Pid
    BY DEF IInv, SchedOK
<1>2. CASE UNCHANGED <<sleepq, dispatchVars>>
    <2>1. SchedOK' /\ Settled(prstate) /\ currpid' = currpid
        BY <1>1, <1>2, SchedKept DEF dispatchVars
    <2>2. QED
        BY <1>1, <1>2, <2>1, SleepKept, SemKept DEF IInv
<1>3. CASE prstate[p] = "RECV" /\ Ready(p, qkey) /\ UNCHANGED sleepq
    <2> DEFINE st == [prstate EXCEPT ![p] = "READY"]
    <2>1. SchedOK' /\ Settled(st) /\ (ndefers = 1 => currpid' = currpid)
        BY <1>1, <1>3, ReadyOK DEF IInv, ContextOK, Runnable
    <2>2. \A q \in Pid : st[q] = IF q = p THEN "READY" ELSE prstate[q]
        BY <1>1 DEF SchedOK
    <2> HIDE DEF st
    <2>3. QED
        BY <1>1, <1>3, <2>1, <2>2, SleepKept, SemKept DEF IInv
<1>4. CASE /\ prstate[p] = "RECTIM"
           /\ sleepq' = GetItem(sleepq, p)
           /\ Ready(p, UnsleepKeys(sleepq, p, qkey))
    <2> DEFINE key == UnsleepKeys(sleepq, p, qkey)
    <2>1. p \in ToSet(sleepq) /\ sleepq \in Seq(Pid) /\ IsInjective(sleepq)
        BY <1>4 DEF IInv, SleepOK
    <2>2. /\ sleepq' \in Seq(Pid) /\ IsInjective(sleepq')
          /\ ToSet(sleepq') = ToSet(sleepq) \ {p}
        BY <1>4, <2>1, GetItemQueue
    <2>3. DOMAIN key = Pid /\ Ready(p, key)
        BY <1>1, <1>4, DeltaKeysDomain
    <2> HIDE DEF key
    <2>4. QED
        BY <1>1, <1>4, <2>1, <2>2, <2>3, WakeOK
<1>5. QED
    BY <1>2, <1>3, <1>4 DEF Wake

LEMMA DeliverOK ==
    ASSUME IInv, NEW p \in Pid, Deliver(p), UNCHANGED <<semVars, prsem>>
    PROVE  SchedOK' /\ SleepOK' /\ SemOK' /\ prhasmsg' \in [Pid -> BOOLEAN]
<1>1. prhasmsg \in [Pid -> BOOLEAN] /\ SchedOK
    BY DEF IInv, FieldsOK
<1>2. CASE UNCHANGED <<prhasmsg, sleepq, dispatchVars>>
    <2>1. SchedOK' /\ Settled(prstate)
        BY <1>1, <1>2, SchedKept
    <2>2. QED
        BY <1>1, <1>2, <2>1, SleepKept, SemKept DEF IInv
<1>3. CASE prhasmsg' = [prhasmsg EXCEPT ![p] = TRUE] /\ Wake(p)
    BY <1>1, <1>3, WakeRecipientOK
<1>4. QED
    BY <1>2, <1>3 DEF Deliver

(* What is left of the invariant when the semaphores and the contexts are left alone. *)
LEMMA CallKept ==
    ASSUME IInv, InUser, SchedOK', SleepOK', SemOK', prhasmsg' \in [Pid -> BOOLEAN],
           UNCHANGED <<ndefers, semVars, procVars, kpc>>
    PROVE  IInv'
<1>1. ndefers = 0 /\ \A s \in Sem : ~Resetting(s) /\ ~Deleting(s)
    BY UserFacts DEF IInv
<1>2. CountMatchesQueue' /\ FreeOK'
    <2>1. CountMatchesQueue'
        BY <1>1, CountKept DEF IInv, semVars
    <2>2. FreeOK'
        BY <1>1 DEF IInv, FreeOK, semVars
    <2>3. QED
        BY <2>1, <2>2
<1>3. ContextOK'
    BY <1>1, ContextKept DEF IInv, SchedOK
<1>4. FieldsOK'
    BY DEF IInv, FieldsOK, procVars
<1>5. QED
    BY <1>2, <1>3, <1>4 DEF IInv

(* A call that blocks with something left to do, or one that is back from a switch. *)
LEMMA GotoKept ==
    ASSUME IInv, InUser \/ \E label \in Labels \ Loops : At(label),
           SchedOK', SleepOK', SemOK',
           NEW pc \in [at : Labels \ Loops, x : Pid \cup Sem \cup {None}, n : Int],
           pc.at # "kill", Goto(pc),
           prhasmsg' \in [Pid -> BOOLEAN],
           UNCHANGED <<ndefers, semVars, procVars>>
    PROVE  IInv'
<1>1. ndefers = 0 /\ \A s \in Sem : ~Resetting(s) /\ ~Deleting(s)
    BY UserFacts, ReturnFacts DEF IInv
<1>2. CountMatchesQueue'
    BY <1>1, CountKept DEF IInv, semVars
<1>3. FreeOK'
    BY <1>1 DEF IInv, FreeOK, semVars
<1>4. ContextOK'
    BY <1>1, ContextLeaves DEF IInv, SchedOK
<1>5. FieldsOK'
    BY DEF IInv, FieldsOK, procVars
<1>6. QED
    BY <1>2, <1>3, <1>4, <1>5 DEF IInv

LEMMA SendOK == ASSUME IInv, NEW p \in Pid, Send(p) PROVE IInv'
<1>1. InUser /\ Deliver(p) /\ UNCHANGED <<ndefers, semVars, procVars, kpc>>
    BY DEF Send, Calling
<1>2. ndefers = 0
    BY <1>1, UserFacts DEF IInv
<1>3. SchedOK' /\ SleepOK' /\ SemOK' /\ prhasmsg' \in [Pid -> BOOLEAN]
    BY <1>1, <1>2, DeliverOK DEF procVars
<1>4. QED
    BY <1>1, <1>3, CallKept

(* A step that leaves every queue and the processor alone. *)
LEMMA QueuesKept ==
    ASSUME IInv, UNCHANGED <<dispatchVars, semVars, prsem, sleepq>>
    PROVE  SchedOK' /\ SleepOK' /\ SemOK'
<1>1. SchedOK' /\ Settled(prstate)
    BY SchedKept DEF IInv
<1>2. QED
    BY <1>1, SleepKept, SemKept DEF IInv

LEMMA RecvClrOK == ASSUME IInv, RecvClr PROVE IInv'
<1>1. InUser /\ prhasmsg' \in [Pid -> BOOLEAN] /\ UNCHANGED <<ndefers, semVars, procVars, kpc>>
    BY DEF RecvClr, Calling, deferVars, IInv, FieldsOK
<1>2. SchedOK' /\ SleepOK' /\ SemOK'
    BY QueuesKept DEF RecvClr, deferVars, procVars
<1>3. QED
    BY <1>1, <1>2, CallKept

LEMMA ReceiveDoneOK == ASSUME IInv, ReceiveDone PROVE IInv'
<1>1. /\ At("receive") /\ "receive" \in Labels \ Loops /\ Goto(User)
      /\ prhasmsg' \in [Pid -> BOOLEAN] /\ UNCHANGED <<ndefers, semVars, procVars>>
    BY DEF ReceiveDone, Return, deferVars, IInv, FieldsOK, Labels, Loops, SemLoops
<1>2. SchedOK' /\ SleepOK' /\ SemOK'
    BY QueuesKept DEF ReceiveDone, deferVars, procVars
<1>3. User.at # "kill"
    BY DEF User, Doing
<1>4. QED
    BY <1>1, <1>2, <1>3, UserType, GotoKept

LEMMA RecvTimeDoneOK == ASSUME IInv, RecvTimeDone PROVE IInv'
<1>1. /\ At("recvtime") /\ "recvtime" \in Labels \ Loops /\ Goto(User)
      /\ prhasmsg' \in [Pid -> BOOLEAN] /\ UNCHANGED <<ndefers, semVars, procVars>>
    BY DEF RecvTimeDone, Return, deferVars, IInv, FieldsOK, Labels, Loops, SemLoops
<1>2. SchedOK' /\ SleepOK' /\ SemOK'
    BY QueuesKept DEF RecvTimeDone, deferVars, procVars
<1>3. User.at # "kill"
    BY DEF User, Doing
<1>4. QED
    BY <1>1, <1>2, <1>3, UserType, GotoKept

LEMMA ReceiveOK == ASSUME IInv, Receive PROVE IInv'
<1>1. InUser /\ currpid # NULLPROC /\ UNCHANGED <<ndefers, semVars, procVars, sleepq>>
    BY DEF Receive, Calling
<1>2. ndefers = 0 /\ DOMAIN qkey = Pid /\ SchedOK /\ prstate[currpid] = "CURR" /\ prstate \in [Pid -> States]
    BY <1>1, UserFacts DEF IInv, SchedOK, SomeoneToRun
<1>3. CASE /\ prhasmsg' = [prhasmsg EXCEPT ![currpid] = FALSE]
           /\ UNCHANGED <<dispatchVars, kpc>>
    <2>1. SchedOK' /\ SleepOK' /\ SemOK'
        BY <1>1, <1>3, QueuesKept DEF procVars
    <2>2. prhasmsg' \in [Pid -> BOOLEAN]
        BY <1>3 DEF IInv, FieldsOK
    <2>3. QED
        BY <1>1, <1>3, <2>1, <2>2, CallKept
<1>4. CASE /\ Block("RECV", qkey)
           /\ Goto(Doing("receive", None, 0))
           /\ UNCHANGED prhasmsg
    <2> DEFINE st == [prstate EXCEPT ![currpid] = "RECV"]
               pc == Doing("receive", None, 0)
    <2>1. SchedOK' /\ Settled(st)
        BY <1>1, <1>2, <1>4, BlockOK DEF States, Runnable
    <2>2. \A p \in Pid : st[p] = IF p = currpid THEN "RECV" ELSE prstate[p]
        BY <1>2
    <2>3. /\ pc \in [at : Labels \ Loops, x : Pid \cup Sem \cup {None}, n : Int]
          /\ pc.at # "kill"
        BY SMT DEF Doing, Labels, Loops, SemLoops
    <2>4. Goto(pc) /\ prhasmsg' \in [Pid -> BOOLEAN]
        BY <1>4 DEF IInv, FieldsOK
    <2> HIDE DEF st, pc
    <2>5. SleepOK' /\ SemOK'
        BY <1>1, <1>2, <2>1, <2>2, SleepKept, SemKept DEF IInv, procVars
    <2>6. QED
        BY <1>1, <2>1, <2>3, <2>4, <2>5, GotoKept
<1>5. QED
    BY <1>3, <1>4 DEF Receive

(* The current process goes to sleep, for a while or until a message. *)
LEMMA AsleepOK ==
    ASSUME IInv, InUser, currpid # NULLPROC, NEW state \in {"SLEEP", "RECTIM"}, NEW delay,
           sleepq' = InsertDelta(sleepq, currpid, delay, qkey),
           Block(state, InsertDeltaKeys(sleepq, currpid, delay, qkey)),
           UNCHANGED <<semVars, prsem>>
    PROVE  SchedOK' /\ SleepOK' /\ SemOK'
<1> DEFINE st == [prstate EXCEPT ![currpid] = state]
           key == InsertDeltaKeys(sleepq, currpid, delay, qkey)
<1>1. /\ ndefers = 0 /\ DOMAIN qkey = Pid /\ SchedOK
      /\ currpid \in Pid /\ prstate[currpid] = "CURR" /\ prstate \in [Pid -> States]
    BY UserFacts DEF IInv, SchedOK, SomeoneToRun
<1>2. /\ sleepq \in Seq(Pid) /\ IsInjective(sleepq) /\ currpid \notin ToSet(sleepq)
    BY <1>1 DEF IInv, SleepOK
<1>3. /\ sleepq' \in Seq(Pid) /\ IsInjective(sleepq')
      /\ ToSet(sleepq') = ToSet(sleepq) \cup {currpid}
    BY <1>1, <1>2, InsertDeltaQueue
<1>4. DOMAIN key = Pid /\ Block(state, key) /\ state \in States \ Runnable
    BY <1>1, DeltaKeysDomain DEF States, Runnable
<1> HIDE DEF key
<1>5. SchedOK' /\ Settled(st)
    BY <1>1, <1>4, BlockOK
<1>6. \A p \in Pid : st[p] = IF p = currpid THEN state ELSE prstate[p]
    BY <1>1
<1> HIDE DEF st
<1>7. \A p \in Pid : prstate'[p] \in {"SLEEP", "RECTIM"} <=> p = currpid \/ prstate[p] \in {"SLEEP", "RECTIM"}
    BY <1>5, <1>6 DEF Settled, Runnable
<1>8. SleepOK'
    BY <1>3, <1>7 DEF IInv, SleepOK
<1>9. SemOK'
    BY <1>1, <1>5, <1>6, SemKept DEF IInv
<1>10. QED
    BY <1>5, <1>8, <1>9

LEMMA RecvTimeOK ==
    ASSUME IInv, NEW maxwait \in Timeouts, RecvTime(maxwait)
    PROVE  IInv'
<1>1. InUser /\ currpid # NULLPROC /\ UNCHANGED <<ndefers, semVars, procVars>>
    BY DEF RecvTime, Calling
<1>2. CASE /\ prhasmsg' = [prhasmsg EXCEPT ![currpid] = FALSE]
           /\ UNCHANGED <<dispatchVars, sleepq, kpc>>
    <2>1. SchedOK' /\ SleepOK' /\ SemOK'
        BY <1>1, <1>2, QueuesKept DEF procVars
    <2>2. prhasmsg' \in [Pid -> BOOLEAN]
        BY <1>2 DEF IInv, FieldsOK
    <2>3. QED
        BY <1>1, <1>2, <2>1, <2>2, CallKept
<1>3. CASE /\ sleepq' = InsertDelta(sleepq, currpid, maxwait, qkey)
           /\ Block("RECTIM", InsertDeltaKeys(sleepq, currpid, maxwait, qkey))
           /\ Goto(Doing("recvtime", None, 0))
           /\ UNCHANGED prhasmsg
    <2> DEFINE pc == Doing("recvtime", None, 0)
    <2>1. SchedOK' /\ SleepOK' /\ SemOK'
        BY <1>1, <1>3, AsleepOK DEF procVars
    <2>2. /\ pc \in [at : Labels \ Loops, x : Pid \cup Sem \cup {None}, n : Int]
          /\ pc.at # "kill"
        BY SMT DEF Doing, Labels, Loops, SemLoops
    <2>3. Goto(pc) /\ prhasmsg' \in [Pid -> BOOLEAN]
        BY <1>3 DEF IInv, FieldsOK
    <2> HIDE DEF pc
    <2>4. QED
        BY <1>1, <2>1, <2>2, <2>3, GotoKept
<1>4. QED
    BY <1>2, <1>3 DEF RecvTime

-----------------------------------------------------------------------------
(* The clock *)
LEMMA SleepMsOK ==
    ASSUME IInv, NEW delay \in Delays, SleepMs(delay)
    PROVE  IInv'
<1>1. /\ InUser /\ currpid # NULLPROC /\ UNCHANGED <<ndefers, semVars, procVars, prhasmsg, kpc>>
      /\ prhasmsg' \in [Pid -> BOOLEAN]
    BY DEF SleepMs, Calling, IInv, FieldsOK
<1>2. CASE Resched(prstate, readylist, qkey) /\ UNCHANGED sleepq
    <2>1. Handed(prstate, readylist, qkey) /\ prstate[currpid] = "CURR" /\ ndefers = 0 /\ SchedOK
        BY <1>1, UserFacts DEF IInv, SchedOK, SomeoneToRun, Handed, Runnable
    <2>2. SchedOK' /\ Settled(prstate)
        BY <1>2, <2>1, ReschedOK
    <2>3. SleepOK' /\ SemOK'
        BY <1>1, <1>2, <2>2, SleepKept, SemKept DEF IInv, procVars
    <2>4. QED
        BY <1>1, <2>2, <2>3, CallKept
<1>3. CASE /\ sleepq' = InsertDelta(sleepq, currpid, delay, qkey)
           /\ Block("SLEEP", InsertDeltaKeys(sleepq, currpid, delay, qkey))
    <2>1. SchedOK' /\ SleepOK' /\ SemOK'
        BY <1>1, <1>3, AsleepOK DEF procVars
    <2>2. QED
        BY <1>1, <2>1, CallKept
<1>4. QED
    BY <1>2, <1>3 DEF SleepMs

LEMMA EndSliceOK ==
    ASSUME SchedOK, NEW key, DOMAIN key = Pid, EndSlice(key), attempt' \in BOOLEAN
    PROVE  SchedOK' /\ Settled(prstate)
<1>1. Handed(prstate, readylist, key) /\ prstate[currpid] = "CURR" /\ preempt \in 1..QUANTUM
    BY DEF SchedOK, SomeoneToRun, Handed, Runnable
<1>2. CASE preempt > 1 /\ Stay(prstate, readylist, key, preempt - 1)
    <2>1. preempt - 1 \in 1..QUANTUM
        BY <1>1, <1>2, QuantumAssumption, SMT
    <2>2. QED
        BY <1>1, <1>2, <2>1, StayOK
<1>3. CASE Switch(prstate, readylist, key, QUANTUM)
    <2>1. QUANTUM \in 1..QUANTUM
        BY QuantumAssumption, SMT
    <2>2. QED
        BY <1>1, <1>3, <2>1, SwitchOK
<1>4. QED
    BY <1>2, <1>3 DEF EndSlice

LEMMA ClkHandlerOK == ASSUME IInv, ClkHandler PROVE IInv'
<1>1. InUser /\ UNCHANGED <<semVars, procVars, prhasmsg, sleepq>>
    BY DEF ClkHandler
<1>2. DOMAIN TickKeys = Pid
    BY DEF TickKeys, IInv, SchedOK
<1>3. CASE /\ qkey' = TickKeys
           /\ DeferStart
           /\ Goto(Doing("wakeup", None, 0))
           /\ UNCHANGED <<currpid, prstate, readylist, preempt>>
    <2> DEFINE pc == Doing("wakeup", None, 0)
    <2>1. /\ pc \in [at : Loops, x : Pid \cup Sem \cup {None}, n : Int]
          /\ pc.at = "wakeup"
        BY SMT DEF Doing, Loops, SemLoops
    <2>2. /\ sstate' \in [Sem -> {"FREE", "USED"}] /\ sstate' = sstate
          /\ scount' = scount /\ squeue' = squeue
        BY <1>1 DEF IInv, SemOK, semVars
    <2>3. Goto(pc) /\ DOMAIN qkey' = Pid
        BY <1>2, <1>3
    <2> HIDE DEF pc
    <2>4. QED
        BY <1>1, <1>3, <2>1, <2>2, <2>3, EnterLoopOK DEF SemLoops
<1>4. CASE EndSlice(TickKeys) /\ UNCHANGED <<attempt, ndefers, kpc>>
    <2>1. SchedOK' /\ Settled(prstate)
        BY <1>2, <1>4, EndSliceOK DEF IInv, SchedOK
    <2>2. SleepOK' /\ SemOK'
        BY <1>1, <2>1, SleepKept, SemKept DEF IInv, procVars
    <2>3. prhasmsg' \in [Pid -> BOOLEAN]
        BY <1>1 DEF IInv, FieldsOK
    <2>4. QED
        BY <1>1, <1>4, <2>1, <2>2, <2>3, CallKept
<1>5. QED
    BY <1>3, <1>4 DEF ClkHandler

LEMMA WakeupOK == ASSUME IInv, Wakeup PROVE IInv'
<1>1. /\ At("wakeup") /\ sleepq # <<>> /\ sleepq' = Tail(sleepq) /\ Ready(Head(sleepq), qkey)
      /\ UNCHANGED <<ndefers, semVars, procVars, prhasmsg, kpc>>
    BY DEF Wakeup, Expired
<1>2. /\ ndefers = 1
      /\ \A s \in Sem : ~Resetting(s) /\ ~Deleting(s)
    BY <1>1, LoopFacts DEF IInv, SchedOK, Loops, SemLoops
<1>3. sleepq \in Seq(Pid) /\ IsInjective(sleepq) /\ DOMAIN qkey = Pid
    BY DEF IInv, SleepOK, SchedOK
<1> DEFINE p == Head(sleepq)
<1>4. /\ p \in Pid /\ p \in ToSet(sleepq)
      /\ sleepq' \in Seq(Pid) /\ IsInjective(sleepq') /\ ToSet(sleepq') = ToSet(sleepq) \ {p}
    BY <1>1, <1>3, TailQueue
<1>5. Ready(p, qkey) /\ UNCHANGED <<semVars, prsem>>
    BY <1>1 DEF procVars
<1> HIDE DEF p
<1>6. SchedOK' /\ SleepOK' /\ SemOK' /\ currpid' = currpid
    BY <1>2, <1>3, <1>4, <1>5, WakeOK
<1>7. CountMatchesQueue'
    BY <1>1, <1>2, CountKept DEF IInv, semVars
<1>8. FreeOK'
    BY <1>1, <1>2 DEF IInv, FreeOK, semVars
<1>9. ContextOK'
    BY <1>1, <1>6 DEF IInv, ContextOK, DeferredOnlyInLoops, Arguments
<1>10. FieldsOK'
    BY <1>1 DEF IInv, FieldsOK, procVars
<1>11. QED
    BY <1>6, <1>7, <1>8, <1>9, <1>10 DEF IInv

LEMMA WakeupEndOK == ASSUME IInv, WakeupEnd PROVE IInv'
<1> DEFINE pc == Doing("clk", None, 0)
<1>1. /\ At("wakeup") /\ DeferStop /\ Goto(pc)
      /\ UNCHANGED <<semVars, procVars, prhasmsg, sleepq>>
    BY DEF WakeupEnd
<1>2. /\ ndefers = 1
      /\ \A s \in Sem : ~Resetting(s) /\ ~Deleting(s)
    BY <1>1, LoopFacts DEF IInv, SchedOK, Loops, SemLoops
<1>3. /\ pc \in [at : Labels \ Loops, x : Pid \cup Sem \cup {None}, n : Int]
      /\ pc.at # "kill"
    BY SMT DEF Doing, Labels, Loops, SemLoops
<1> HIDE DEF pc
<1>4. SchedOK' /\ Settled(prstate) /\ ndefers' = 0
    BY <1>1, <1>2, DeferStopOK
<1>5. SleepOK' /\ SemOK'
    BY <1>1, <1>4, SleepKept, SemKept DEF IInv, procVars
<1>6. CountMatchesQueue'
    BY <1>1, <1>2, CountKept DEF IInv, semVars
<1>7. FreeOK'
    BY <1>1, <1>2 DEF IInv, FreeOK, semVars
<1>8. ContextOK'
    BY <1>1, <1>3, <1>4, ContextLeaves DEF IInv, SchedOK
<1>9. FieldsOK'
    BY <1>1 DEF IInv, FieldsOK, procVars
<1>10. QED
    BY <1>4, <1>5, <1>6, <1>7, <1>8, <1>9 DEF IInv

LEMMA ClkHandlerEndOK == ASSUME IInv, ClkHandlerEnd PROVE IInv'
<1>1. /\ At("clk") /\ "clk" \in Labels \ Loops /\ EndSlice(qkey) /\ Goto(User)
      /\ UNCHANGED <<attempt, ndefers, semVars, procVars, prhasmsg, sleepq>>
    BY DEF ClkHandlerEnd, Return, Labels, Loops, SemLoops
<1>2. SchedOK' /\ Settled(prstate)
    BY <1>1, EndSliceOK DEF IInv, SchedOK
<1>3. SleepOK' /\ SemOK'
    BY <1>1, <1>2, SleepKept, SemKept DEF IInv, procVars
<1>4. User.at # "kill" /\ prhasmsg' \in [Pid -> BOOLEAN]
    BY <1>1 DEF User, Doing, IInv, FieldsOK
<1>5. QED
    BY <1>1, <1>2, <1>3, <1>4, UserType, GotoKept

-----------------------------------------------------------------------------
(* Processes *)
LEMMA CreateOK ==
    ASSUME IInv, NEW p \in Pid, NEW prio \in Prios, Create(p, prio)
    PROVE  IInv'
<1>1. /\ InUser /\ prstate[p] = "FREE" /\ prstate' = [prstate EXCEPT ![p] = "SUSP"]
      /\ UNCHANGED <<currpid, readylist, qkey, preempt, attempt, ndefers, semVars, halted, sleepq>>
    BY DEF Create, Calling
<1>2. ndefers = 0 /\ \A s \in Sem : ~Resetting(s) /\ ~Deleting(s)
    BY <1>1, UserFacts DEF IInv
<1>3. \A q \in Pid : prstate'[q] = IF q = p THEN "SUSP" ELSE prstate[q]
    BY <1>1 DEF IInv, SchedOK
<1>4. SchedOK'
    <2>1. prstate' \in [Pid -> States]
        BY <1>1 DEF IInv, SchedOK, States
    <2>2. QED
        BY <1>1, <1>3, <2>1, PidAssumption DEF IInv, SchedOK, SomeoneToRun
<1>5. SleepOK'
    BY <1>1, <1>3 DEF IInv, SleepOK
<1>6. SemOK'
    <2>1. prsem' \in [Pid -> Sem \cup {None}] /\ \A q \in Pid : q # p => prsem'[q] = prsem[q]
        BY DEF Create, IInv, SemOK
    <2>2. sstate' = sstate /\ scount' = scount /\ squeue' = squeue
        BY <1>1 DEF semVars
    <2>3. QED
        BY <1>1, <1>3, <2>1, <2>2 DEF IInv, SemOK
<1>7. kpc' = [kpc EXCEPT ![p] = User] /\ p # currpid /\ currpid \in Pid /\ currpid' = currpid
    BY <1>1 DEF Create, IInv, SchedOK, SomeoneToRun
<1>8. CountMatchesQueue' /\ FreeOK'
    <2>1. CountMatchesQueue'
        BY <1>1, <1>2, CountKept DEF IInv, semVars
    <2>2. FreeOK'
        BY <1>1, <1>2 DEF IInv, FreeOK, semVars
    <2>3. QED
        BY <2>1, <2>2
<1>9. ContextOK'
    <2>1. kpc' \in [Pid -> [at : Labels, x : Pid \cup Sem \cup {None}, n : Int]]
        BY <1>7, UserType DEF IInv, ContextOK
    <2>2. \A q \in Pid : kpc'[q] = IF q = p THEN User ELSE kpc[q]
        BY <1>7 DEF IInv, ContextOK
    <2>3. User.at \notin Loops /\ User.at # "kill"
        BY DEF User, Doing, Loops, SemLoops
    <2>4. DeferredOnlyInLoops'
        BY <1>1, <1>7, <2>2, <2>3 DEF IInv, ContextOK, DeferredOnlyInLoops
    <2>5. Arguments'
        BY <2>2, <2>3 DEF IInv, ContextOK, Arguments, Loops, SemLoops
    <2>6. QED
        BY <1>1, <2>1, <2>4, <2>5 DEF IInv, ContextOK
<1>10. FieldsOK'
    <2>1. prprio' \in [Pid -> Int]
        <3>1. prio \in Int
            BY PrioAssumption, SMT
        <3>2. QED
            BY <3>1 DEF Create, IInv, FieldsOK
    <2>2. prparent' \in [Pid -> Pid]
        BY <1>7 DEF Create, IInv, FieldsOK
    <2>3. prhasmsg' \in [Pid -> BOOLEAN]
        BY DEF Create, IInv, FieldsOK
    <2>4. prcount' \in Int
        BY SMT DEF Create, IInv, FieldsOK
    <2>5. QED
        BY <1>1, <2>1, <2>2, <2>3, <2>4 DEF IInv, FieldsOK
<1>11. QED
    BY <1>4, <1>5, <1>6, <1>8, <1>9, <1>10 DEF IInv

LEMMA KillOK == ASSUME IInv, NEW p \in Pid, Kill(p) PROVE IInv'
<1>1. /\ InUser /\ p # NULLPROC /\ prcount' = prcount - 1
      /\ UNCHANGED <<ndefers, semVars, prprio, prsem, prparent>>
    BY DEF Kill, Calling
<1>2. ndefers = 0 /\ currpid \in Pid /\ \A s \in Sem : ~Resetting(s) /\ ~Deleting(s)
    BY <1>1, UserFacts DEF IInv, SchedOK
<1>3. CountMatchesQueue' /\ FreeOK'
    <2>1. CountMatchesQueue'
        BY <1>1, <1>2, CountKept DEF IInv, semVars
    <2>2. FreeOK'
        BY <1>1, <1>2 DEF IInv, FreeOK, semVars
    <2>3. QED
        BY <2>1, <2>2
<1>4. ASSUME prhasmsg' \in [Pid -> BOOLEAN], halted' \in BOOLEAN PROVE FieldsOK'
    <2>1. prcount' \in Int
        BY <1>1, SMT DEF IInv, FieldsOK
    <2>2. QED
        BY <1>1, <1>4, <2>1 DEF IInv, FieldsOK
<1>5. CASE halted' = TRUE /\ UNCHANGED <<dispatchVars, sleepq, prhasmsg, kpc>>
    <2>1. SchedOK' /\ SleepOK' /\ SemOK'
        BY <1>1, <1>5, QueuesKept
    <2>2. ContextOK'
        BY <1>1, <1>2, <1>5, <2>1, ContextKept DEF IInv, SchedOK
    <2>3. FieldsOK'
        BY <1>4, <1>5 DEF IInv, FieldsOK
    <2>4. QED
        BY <1>3, <2>1, <2>2, <2>3 DEF IInv
<1>6. CASE UNCHANGED halted /\ Deliver(prparent[p]) /\ Goto(Doing("kill", p, 0))
    <2> DEFINE parent == prparent[p]
               pc == Doing("kill", p, 0)
    <2>1. parent \in Pid
        BY DEF IInv, FieldsOK
    <2>2. /\ pc \in [at : Labels \ Loops, x : Pid \cup Sem \cup {None}, n : Int]
          /\ pc.x \in Pid \ {NULLPROC}
        BY <1>1, SMT DEF Doing, Labels, Loops, SemLoops
    <2>3. Deliver(parent) /\ Goto(pc)
        BY <1>6
    <2> HIDE DEF parent, pc
    <2>4. SchedOK' /\ SleepOK' /\ SemOK' /\ prhasmsg' \in [Pid -> BOOLEAN]
        BY <1>1, <1>2, <2>1, <2>3, DeliverOK
    <2>5. ContextOK'
        BY <1>1, <1>2, <2>2, <2>3, <2>4, ContextLeaves DEF IInv, SchedOK
    <2>6. FieldsOK'
        BY <1>4, <1>6, <2>4 DEF IInv, FieldsOK
    <2>7. QED
        BY <1>3, <2>4, <2>5, <2>6 DEF IInv
<1>7. QED
    BY <1>5, <1>6 DEF Kill

(* The victim, not the null process and not current, is freed where it is. *)
LEMMA FreedOK ==
    ASSUME SchedOK, NEW p \in Pid \ {NULLPROC}, prstate[p] # "CURR", NEW rl, NEW key,
           rl \in Seq(Pid), IsInjective(rl), ToSet(rl) = ToSet(readylist) \ {p}, DOMAIN key = Pid,
           attempt' = attempt, Stay(Free(p), rl, key, preempt)
    PROVE  SchedOK' /\ Settled(Free(p)) /\ currpid' = currpid
<1> DEFINE st == Free(p)
<1>1. st \in [Pid -> States] /\ \A q \in Pid : st[q] = IF q = p THEN "FREE" ELSE prstate[q]
    BY DEF Free, SchedOK, States
<1> HIDE DEF st
<1>2. Handed(st, rl, key) /\ st[currpid] = "CURR" /\ preempt \in 1..QUANTUM /\ attempt' \in BOOLEAN
    BY <1>1, PidAssumption DEF SchedOK, SomeoneToRun, Handed, Runnable
<1>3. Stay(st, rl, key, preempt)
    BY DEF st
<1>4. SchedOK' /\ Settled(st)
    BY <1>2, <1>3, StayOK
<1>5. QED
    BY <1>4 DEF st, Stay

(* A freed process that was not a waiter leaves the semaphores as they were. *)
LEMMA FreedSems ==
    ASSUME IInv, \A s \in Sem : ~Resetting(s) /\ ~Deleting(s), NEW p \in Pid, prstate[p] # "WAIT",
           Settled(Free(p)), UNCHANGED <<semVars, prsem>>
    PROVE  SemOK' /\ CountMatchesQueue' /\ FreeOK'
<1> DEFINE st == Free(p)
<1>1. \A q \in Pid : st[q] = IF q = p THEN "FREE" ELSE prstate[q]
    BY DEF Free, IInv, SchedOK
<1> HIDE DEF st
<1>2. Settled(st)
    BY DEF st
<1>3. SemOK'
    BY <1>1, <1>2, SemKept DEF IInv
<1>4. CountMatchesQueue'
    BY CountKept DEF IInv, semVars
<1>5. FreeOK'
    BY DEF IInv, FreeOK, semVars
<1>6. QED
    BY <1>3, <1>4, <1>5

(* Nor does it disturb the sleep queue if it was not a sleeper. *)
LEMMA FreedSleep ==
    ASSUME IInv, NEW p \in Pid, prstate[p] \notin {"SLEEP", "RECTIM"},
           Settled(Free(p)), UNCHANGED sleepq
    PROVE  SleepOK'
<1> DEFINE st == Free(p)
<1>1. \A q \in Pid : st[q] = IF q = p THEN "FREE" ELSE prstate[q]
    BY DEF Free, IInv, SchedOK
<1> HIDE DEF st
<1>2. Settled(st)
    BY DEF st
<1>3. QED
    BY <1>1, <1>2, SleepKept DEF IInv

LEMMA KillCurrentOK ==
    ASSUME IInv, \A s \in Sem : ~Resetting(s) /\ ~Deleting(s), NEW p \in Pid \ {NULLPROC},
           KillCurrent(p), UNCHANGED <<attempt, sstate, prsem>>
    PROVE  SchedOK' /\ SleepOK' /\ SemOK' /\ CountMatchesQueue' /\ FreeOK'
<1> DEFINE st == Free(p)
<1>1. /\ prstate[p] = "CURR" /\ p = currpid /\ Switch(st, readylist, qkey, preempt)
      /\ UNCHANGED <<scount, squeue, sleepq>>
    BY DEF KillCurrent, IInv, SchedOK, SomeoneToRun
<1>2. st \in [Pid -> States] /\ \A q \in Pid : st[q] = IF q = p THEN "FREE" ELSE prstate[q]
    BY DEF Free, IInv, SchedOK, States
<1> HIDE DEF st
<1>3. Handed(st, readylist, qkey) /\ preempt \in 1..QUANTUM /\ attempt' \in BOOLEAN
    BY <1>1, <1>2, PidAssumption DEF IInv, SchedOK, SomeoneToRun, Handed, Runnable
<1>4. SchedOK' /\ Settled(st)
    BY <1>1, <1>3, SwitchOK
<1>5. SleepOK'
    BY <1>1, <1>4, FreedSleep DEF st
<1>6. SemOK' /\ CountMatchesQueue' /\ FreeOK'
    BY <1>1, <1>4, FreedSems DEF st, semVars
<1>7. QED
    BY <1>4, <1>5, <1>6

LEMMA KillReadyOK ==
    ASSUME IInv, \A s \in Sem : ~Resetting(s) /\ ~Deleting(s), NEW p \in Pid \ {NULLPROC},
           KillReady(p), UNCHANGED <<attempt, sstate, prsem>>
    PROVE  SchedOK' /\ SleepOK' /\ SemOK' /\ CountMatchesQueue' /\ FreeOK'
<1> DEFINE rl == GetItem(readylist, p)
<1>1. /\ prstate[p] = "READY" /\ Stay(Free(p), rl, qkey, preempt)
      /\ UNCHANGED <<scount, squeue, sleepq>>
    BY DEF KillReady
<1>2. p \in ToSet(readylist) /\ readylist \in Seq(Pid) /\ IsInjective(readylist) /\ DOMAIN qkey = Pid /\ SchedOK
    BY <1>1 DEF IInv, SchedOK
<1>3. rl \in Seq(Pid) /\ IsInjective(rl) /\ ToSet(rl) = ToSet(readylist) \ {p}
    BY <1>2, GetItemQueue
<1> HIDE DEF rl
<1>4. SchedOK' /\ Settled(Free(p))
    BY <1>1, <1>2, <1>3, FreedOK
<1>5. SleepOK'
    BY <1>1, <1>4, FreedSleep
<1>6. SemOK' /\ CountMatchesQueue' /\ FreeOK'
    BY <1>1, <1>4, FreedSems DEF semVars
<1>7. QED
    BY <1>4, <1>5, <1>6

(* The ready list has nothing to give up for a victim that is not ready. *)
LEMMA FreedAside ==
    ASSUME IInv, NEW p \in Pid \ {NULLPROC}, prstate[p] \notin Runnable, NEW key, DOMAIN key = Pid,
           Stay(Free(p), readylist, key, preempt), UNCHANGED attempt
    PROVE  SchedOK' /\ Settled(Free(p))
<1>1. /\ readylist \in Seq(Pid) /\ IsInjective(readylist)
      /\ ToSet(readylist) = ToSet(readylist) \ {p}
      /\ prstate[p] # "CURR" /\ SchedOK
    BY DEF IInv, SchedOK, Runnable
<1>2. QED
    BY <1>1, FreedOK

LEMMA KillOtherOK ==
    ASSUME IInv, \A s \in Sem : ~Resetting(s) /\ ~Deleting(s), NEW p \in Pid \ {NULLPROC},
           KillOther(p), UNCHANGED <<attempt, sstate, prsem>>
    PROVE  SchedOK' /\ SleepOK' /\ SemOK' /\ CountMatchesQueue' /\ FreeOK'
<1>1. /\ prstate[p] \in {"SUSP", "RECV", "FREE"} /\ Stay(Free(p), readylist, qkey, preempt)
      /\ UNCHANGED <<scount, squeue, sleepq>> /\ DOMAIN qkey = Pid
    BY DEF KillOther, IInv, SchedOK
<1>2. SchedOK' /\ Settled(Free(p))
    BY <1>1, FreedAside DEF Runnable
<1>3. SleepOK'
    BY <1>1, <1>2, FreedSleep
<1>4. SemOK' /\ CountMatchesQueue' /\ FreeOK'
    BY <1>1, <1>2, FreedSems DEF semVars
<1>5. QED
    BY <1>2, <1>3, <1>4

LEMMA KillSleeperOK ==
    ASSUME IInv, \A s \in Sem : ~Resetting(s) /\ ~Deleting(s), NEW p \in Pid \ {NULLPROC},
           KillSleeper(p), UNCHANGED <<attempt, sstate, prsem>>
    PROVE  SchedOK' /\ SleepOK' /\ SemOK' /\ CountMatchesQueue' /\ FreeOK'
<1> DEFINE key == UnsleepKeys(sleepq, p, qkey)
<1>1. /\ prstate[p] \in {"SLEEP", "RECTIM"} /\ Stay(Free(p), readylist, key, preempt)
      /\ sleepq' = GetItem(sleepq, p)
      /\ UNCHANGED <<scount, squeue>>
    BY DEF KillSleeper
<1>2. DOMAIN key = Pid
    BY DeltaKeysDomain DEF IInv, SchedOK
<1> HIDE DEF key
<1>3. SchedOK' /\ Settled(Free(p))
    BY <1>1, <1>2, FreedAside DEF Runnable
<1>4. p \in ToSet(sleepq) /\ sleepq \in Seq(Pid) /\ IsInjective(sleepq)
    BY <1>1 DEF IInv, SleepOK
<1>5. sleepq' \in Seq(Pid) /\ IsInjective(sleepq') /\ ToSet(sleepq') = ToSet(sleepq) \ {p}
    BY <1>1, <1>4, GetItemQueue
<1>6. \A q \in Pid : Free(p)[q] = IF q = p THEN "FREE" ELSE prstate[q]
    BY DEF Free, IInv, SchedOK
<1>7. \A q \in Pid : prstate'[q] \in {"SLEEP", "RECTIM"} <=> q # p /\ prstate[q] \in {"SLEEP", "RECTIM"}
    BY <1>3, <1>6 DEF Settled, Runnable
<1>8. SleepOK'
    BY <1>5, <1>7 DEF IInv, SleepOK
<1>9. SemOK' /\ CountMatchesQueue' /\ FreeOK'
    BY <1>1, <1>3, FreedSems DEF semVars
<1>10. QED
    BY <1>3, <1>8, <1>9

LEMMA KillWaiterOK ==
    ASSUME IInv, \A s \in Sem : ~Resetting(s) /\ ~Deleting(s), NEW p \in Pid \ {NULLPROC},
           KillWaiter(p), UNCHANGED <<attempt, sstate, prsem>>
    PROVE  SchedOK' /\ SleepOK' /\ SemOK' /\ CountMatchesQueue' /\ FreeOK'
<1> DEFINE s == prsem[p]
           r == GetItem(squeue[s], p)
<1>1. /\ prstate[p] = "WAIT" /\ Stay(Free(p), readylist, qkey, preempt)
      /\ scount' = [scount EXCEPT ![s] = @ + 1]
      /\ squeue' = [squeue EXCEPT ![s] = GetItem(@, p)]
      /\ UNCHANGED sleepq /\ DOMAIN qkey = Pid
    BY DEF KillWaiter, IInv, SchedOK
<1>2. SchedOK' /\ Settled(Free(p))
    BY <1>1, FreedAside DEF Runnable
<1>3. SleepOK'
    BY <1>1, <1>2, FreedSleep
<1>4. /\ s \in Sem /\ squeue[s] \in Seq(Pid) /\ IsInjective(squeue[s])
      /\ p \in ToSet(squeue[s])
    BY <1>1 DEF IInv, SemOK
<1>5. /\ r \in Seq(Pid) /\ IsInjective(r) /\ ToSet(r) = ToSet(squeue[s]) \ {p}
      /\ Len(r) = Len(squeue[s]) - 1 /\ Len(r) \in Nat
    BY <1>4, GetItemQueue
<1>6. Len(squeue[s]) \in Nat /\ Len(squeue[s]) # 0
    BY <1>4, <1>5, SMT
<1>7. /\ scount \in [Sem -> Int] /\ squeue \in [Sem -> Seq(Pid)]
      /\ \A t \in Sem : Len(squeue[t]) = IF scount[t] < 0 THEN -scount[t] ELSE 0
    BY DEF IInv, SemOK, CountMatchesQueue
<1>8. /\ \A t \in Sem : squeue'[t] = IF t = s THEN r ELSE squeue[t]
      /\ squeue' \in [Sem -> Seq(Pid)]
    BY <1>1, <1>4, <1>5, <1>7
<1> HIDE DEF s, r
<1>9. scount[s] \in Int /\ scount[s] < 0 /\ Len(squeue[s]) = -scount[s]
    BY <1>4, <1>6, <1>7
<1>10. /\ \A t \in Sem : scount'[t] = IF t = s THEN scount[s] + 1 ELSE scount[t]
       /\ scount' \in [Sem -> Int]
    BY <1>1, <1>4, <1>7, SMT
<1>11. \A q \in Pid : prstate'[q] = "WAIT" <=> q # p /\ prstate[q] = "WAIT"
    <2>1. \A q \in Pid : Free(p)[q] = IF q = p THEN "FREE" ELSE prstate[q]
        BY DEF Free, IInv, SchedOK
    <2>2. QED
        BY <1>2, <2>1 DEF Settled, Runnable
<1>12. SemOK'
    <2>1. ASSUME NEW t \in Sem
          PROVE  /\ IsInjective(squeue'[t])
                 /\ \A q \in Pid : prstate'[q] = "WAIT" /\ prsem'[q] = t <=> q \in ToSet(squeue'[t])
        <3>1. CASE t = s
            BY <1>4, <1>5, <1>8, <1>11, <3>1 DEF IInv, SemOK
        <3>2. CASE t # s
            BY <1>8, <1>11, <3>2 DEF IInv, SemOK, s
        <3>3. QED
            BY <3>1, <3>2
    <2>2. QED
        BY <1>8, <1>10, <1>11, <2>1 DEF IInv, SemOK
<1>13. CountMatchesQueue'
    <2>1. SUFFICES ASSUME NEW t \in Sem
                   PROVE  Len(squeue'[t]) = IF scount'[t] < 0 THEN -scount'[t] ELSE 0
        BY DEF CountMatchesQueue
    <2>2. CASE t = s
        <3>1. Len(squeue'[t]) = -scount[s] - 1 /\ scount'[t] = scount[s] + 1
            BY <1>5, <1>8, <1>9, <1>10, <2>2
        <3>2. QED
            BY <1>9, <3>1, SMT
    <2>3. CASE t # s
        BY <1>7, <1>8, <1>10, <2>3
    <2>4. QED
        BY <2>2, <2>3
<1>14. FreeOK'
    <2>1. ASSUME NEW t \in Sem PROVE scount'[t] >= scount[t]
        <3>1. scount[t] \in Int /\ scount[t] + 1 >= scount[t] /\ scount[t] >= scount[t]
            BY <1>7, SMT
        <3>2. QED
            BY <1>10, <3>1
    <2> DEFINE n == scount'
    <2>2. n \in [Sem -> Int] /\ scount' = n /\ SemOK /\ FreeOK /\ \A t \in Sem : n[t] >= scount[t]
        BY <1>10, <2>1 DEF IInv
    <2> HIDE DEF n
    <2>3. QED
        BY <2>2, FreeKept
<1>15. QED
    BY <1>2, <1>3, <1>12, <1>13, <1>14

LEMMA KillDoneOK == ASSUME IInv, KillDone PROVE IInv'
<1> DEFINE p == kpc[currpid].x
<1>1. /\ At("kill") /\ "kill" \in Labels \ Loops /\ currpid \in Pid /\ ContextOK
      /\ Discard(p) /\ UNCHANGED <<attempt, ndefers, sstate, procVars, prhasmsg>>
    BY DEF KillDone, IInv, SchedOK, Labels, Loops, SemLoops
<1>2. p \in Pid \ {NULLPROC}
    BY <1>1 DEF ContextOK, Arguments, At
<1>3. KillCurrent(p) \/ KillSleeper(p) \/ KillWaiter(p) \/ KillReady(p) \/ KillOther(p)
    BY DEF KillDone
<1> HIDE DEF p
<1>4. ndefers = 0 /\ \A s \in Sem : ~Resetting(s) /\ ~Deleting(s)
    BY <1>1, ReturnFacts
<1>5. UNCHANGED <<attempt, sstate, prsem>>
    BY <1>1 DEF procVars
<1>6. SchedOK' /\ SleepOK' /\ SemOK' /\ CountMatchesQueue' /\ FreeOK'
    BY <1>2, <1>3, <1>4, <1>5, KillCurrentOK, KillSleeperOK, KillWaiterOK, KillReadyOK, KillOtherOK
<1>7. ContextOK'
    <2>1. \A q \in Pid : kpc'[q] = IF q = p \/ q = currpid THEN User ELSE kpc[q]
        BY <1>1, <1>2 DEF ContextOK, Discard
    <2>2. kpc' \in [Pid -> [at : Labels, x : Pid \cup Sem \cup {None}, n : Int]]
        BY <1>1, <1>2, UserType DEF ContextOK, Discard
    <2>3. User.at \notin Loops /\ User.at # "kill"
        BY DEF User, Doing, Loops, SemLoops
    <2>4. \A q \in Pid : kpc'[q].at \notin Loops
        BY <1>1, <1>4, <2>1, <2>3, SMT DEF ContextOK, DeferredOnlyInLoops
    <2>5. Arguments'
        BY <2>1, <2>3, <1>1 DEF ContextOK, Arguments, Loops, SemLoops
    <2>6. ndefers' = 0 /\ currpid' \in Pid
        BY <1>1, <1>4, <1>6 DEF SchedOK
    <2>7. QED
        BY <2>2, <2>4, <2>5, <2>6, SMT DEF ContextOK, DeferredOnlyInLoops
<1>8. FieldsOK'
    BY <1>1 DEF IInv, FieldsOK, procVars
<1>9. QED
    BY <1>6, <1>7, <1>8 DEF IInv

LEMMA SuspendOK == ASSUME IInv, NEW p \in Pid, Suspend(p) PROVE IInv'
<1>1. /\ InUser /\ currpid # NULLPROC /\ p # NULLPROC /\ prhasmsg' \in [Pid -> BOOLEAN]
      /\ UNCHANGED <<ndefers, semVars, procVars, prhasmsg, sleepq, kpc>>
    BY DEF Suspend, Calling, IInv, FieldsOK
<1>2. ndefers = 0 /\ SchedOK /\ DOMAIN qkey = Pid /\ prstate \in [Pid -> States]
    BY <1>1, UserFacts DEF IInv, SchedOK
<1>3. ASSUME NEW st, \A q \in Pid : st[q] = IF q = p THEN "SUSP" ELSE prstate[q],
             prstate[p] \in Runnable, SchedOK', Settled(st)
      PROVE  IInv'
    <2>1. SleepOK' /\ SemOK'
        BY <1>1, <1>3, SleepKept, SemKept DEF IInv, procVars, Runnable
    <2>2. QED
        BY <1>1, <1>3, <2>1, CallKept
<1>4. CASE /\ prstate[p] = "READY"
           /\ Stay([prstate EXCEPT ![p] = "SUSP"], GetItem(readylist, p), qkey, preempt)
           /\ UNCHANGED attempt
    <2> DEFINE st == [prstate EXCEPT ![p] = "SUSP"]
               rl == GetItem(readylist, p)
    <2>1. p \in ToSet(readylist) /\ readylist \in Seq(Pid) /\ IsInjective(readylist)
        BY <1>4 DEF IInv, SchedOK
    <2>2. rl \in Seq(Pid) /\ IsInjective(rl) /\ ToSet(rl) = ToSet(readylist) \ {p}
        BY <2>1, GetItemQueue
    <2>3. st \in [Pid -> States] /\ \A q \in Pid : st[q] = IF q = p THEN "SUSP" ELSE prstate[q]
        BY <1>2 DEF States
    <2>4. Stay(st, rl, qkey, preempt)
        BY <1>4
    <2> HIDE DEF st, rl
    <2>5. Handed(st, rl, qkey) /\ st[currpid] = "CURR" /\ preempt \in 1..QUANTUM /\ attempt' \in BOOLEAN
        BY <1>1, <1>4, <2>2, <2>3, PidAssumption DEF IInv, SchedOK, SomeoneToRun, Handed, Runnable
    <2>6. SchedOK' /\ Settled(st)
        BY <2>4, <2>5, StayOK
    <2>7. QED
        BY <1>3, <1>4, <2>3, <2>6 DEF Runnable
<1>5. CASE prstate[p] = "CURR" /\ Block("SUSP", qkey)
    <2> DEFINE st == [prstate EXCEPT ![currpid] = "SUSP"]
    <2>1. SchedOK' /\ Settled(st)
        BY <1>1, <1>2, <1>5, BlockOK DEF States, Runnable
    <2>2. p = currpid /\ \A q \in Pid : st[q] = IF q = p THEN "SUSP" ELSE prstate[q]
        BY <1>5 DEF IInv, SchedOK, SomeoneToRun
    <2> HIDE DEF st
    <2>3. QED
        BY <1>3, <1>5, <2>1, <2>2 DEF Runnable
<1>6. QED
    BY <1>4, <1>5 DEF Suspend

LEMMA ResumeOK == ASSUME IInv, NEW p \in Pid, Resume(p) PROVE IInv'
<1>1. /\ InUser /\ prstate[p] = "SUSP" /\ Ready(p, qkey) /\ prhasmsg' \in [Pid -> BOOLEAN]
      /\ UNCHANGED <<ndefers, semVars, procVars, prhasmsg, sleepq, kpc>>
    BY DEF Resume, Calling, IInv, FieldsOK
<1> DEFINE st == [prstate EXCEPT ![p] = "READY"]
<1>2. SchedOK' /\ Settled(st)
    BY <1>1, ReadyOK DEF IInv, ContextOK, SchedOK, Runnable
<1>3. \A q \in Pid : st[q] = IF q = p THEN "READY" ELSE prstate[q]
    BY DEF IInv, SchedOK
<1> HIDE DEF st
<1>4. SleepOK' /\ SemOK'
    BY <1>1, <1>2, <1>3, SleepKept, SemKept DEF IInv, procVars
<1>5. QED
    BY <1>1, <1>2, <1>4, CallKept

LEMMA ChPrioOK ==
    ASSUME IInv, NEW p \in Pid, NEW newprio \in NewPrios, ChPrio(p, newprio)
    PROVE  IInv'
<1>1. /\ InUser /\ prprio' = [prprio EXCEPT ![p] = newprio]
      /\ UNCHANGED <<deferVars, semVars, prsem, prparent, prcount, halted, prhasmsg, sleepq, kpc>>
    BY DEF ChPrio, Calling
<1>2. SchedOK' /\ SleepOK' /\ SemOK'
    BY <1>1, QueuesKept DEF deferVars
<1>3. ndefers = 0 /\ \A s \in Sem : ~Resetting(s) /\ ~Deleting(s)
    BY <1>1, UserFacts DEF IInv
<1>4. CountMatchesQueue'
    BY <1>1, <1>3, CountKept DEF IInv, semVars
<1>5. FreeOK'
    BY <1>1, <1>3 DEF IInv, FreeOK, semVars
<1>6. ContextOK'
    BY <1>1, <1>2, <1>3, ContextKept DEF IInv, SchedOK, deferVars
<1>7. FieldsOK'
    <2>1. newprio \in Int
        BY PrioAssumption
    <2>2. QED
        BY <1>1, <2>1 DEF IInv, FieldsOK
<1>8. QED
    BY <1>2, <1>4, <1>5, <1>6, <1>7 DEF IInv

LEMMA YieldOK == ASSUME IInv, Yield PROVE IInv'
<1>1. /\ InUser /\ Resched(prstate, readylist, qkey) /\ prhasmsg' \in [Pid -> BOOLEAN]
      /\ UNCHANGED <<ndefers, semVars, procVars, prhasmsg, sleepq, kpc>>
    BY DEF Yield, Calling, IInv, FieldsOK
<1>2. Handed(prstate, readylist, qkey) /\ prstate[currpid] = "CURR" /\ ndefers = 0 /\ SchedOK
    BY <1>1, UserFacts DEF IInv, SchedOK, SomeoneToRun, Handed, Runnable
<1>3. SchedOK' /\ Settled(prstate)
    BY <1>1, <1>2, ReschedOK
<1>4. SleepOK' /\ SemOK'
    BY <1>1, <1>3, SleepKept, SemKept DEF IInv, procVars
<1>5. QED
    BY <1>1, <1>3, <1>4, CallKept

-----------------------------------------------------------------------------
LEMMA StutterOK == ASSUME IInv, UNCHANGED vars PROVE IInv'
<1>1. UNCHANGED <<dispatchVars, semVars, prsem, sleepq>>
    BY DEF vars, deferVars, procVars
<1>2. SchedOK' /\ SleepOK' /\ SemOK'
    BY <1>1, QueuesKept
<1>3. UNCHANGED <<currpid, sstate, scount, squeue, kpc, ndefers>>
    BY DEF vars, deferVars, dispatchVars, semVars
<1>4. CountMatchesQueue' /\ FreeOK'
    BY <1>3 DEF IInv, CountMatchesQueue, FreeOK, Resetting, Deleting
<1>5. ContextOK'
    BY <1>3 DEF IInv, ContextOK, DeferredOnlyInLoops, Arguments
<1>6. FieldsOK'
    BY DEF IInv, FieldsOK, vars, procVars
<1>7. QED
    BY <1>2, <1>4, <1>5, <1>6 DEF IInv

LEMMA SemaphoreCallOK == ASSUME IInv, SemaphoreCall PROVE IInv'
<1>1. PICK s \in Sem :
        \/ Wait(s)
        \/ Signal(s)
        \/ SemDelete(s)
        \/ \E count \in Counts : SignalN(s, count) \/ SemCreate(s, count) \/ SemReset(s, count)
    BY DEF SemaphoreCall
<1>2. CASE Wait(s) \/ Signal(s) \/ SemDelete(s)
    BY <1>2, WaitOK, SignalOK, SemDeleteOK
<1>3. CASE \E count \in Counts : SignalN(s, count) \/ SemCreate(s, count) \/ SemReset(s, count)
    BY <1>3, SignalNOK, SemCreateOK, SemResetOK
<1>4. QED
    BY <1>1, <1>2, <1>3

LEMMA MessageCallOK == ASSUME IInv, MessageCall PROVE IInv'
BY SendOK, ReceiveOK, RecvClrOK, RecvTimeOK DEF MessageCall

LEMMA ProcessCallOK == ASSUME IInv, ProcessCall PROVE IInv'
<1>1. CASE \E p \in Pid : Kill(p) \/ Suspend(p) \/ Resume(p)
    BY <1>1, KillOK, SuspendOK, ResumeOK
<1>2. CASE \E p \in Pid : \E prio \in Prios : Create(p, prio)
    BY <1>2, CreateOK
<1>3. CASE \E p \in Pid : \E prio \in NewPrios : ChPrio(p, prio)
    BY <1>3, ChPrioOK
<1>4. CASE Yield \/ \E delay \in Delays : SleepMs(delay)
    BY <1>4, YieldOK, SleepMsOK
<1>5. QED
    BY <1>1, <1>2, <1>3, <1>4 DEF ProcessCall

LEMMA KernelStepOK == ASSUME IInv, KernelStep PROVE IInv'
<1>1. CASE SignalNLoop \/ SignalNEnd \/ SemDeleteLoop \/ SemDeleteEnd \/ SemResetLoop \/ SemResetEnd
    BY <1>1, SignalNLoopOK, SignalNEndOK, SemDeleteLoopOK, SemDeleteEndOK, SemResetLoopOK, SemResetEndOK
<1>2. CASE ReceiveDone \/ RecvTimeDone \/ KillDone
    BY <1>2, ReceiveDoneOK, RecvTimeDoneOK, KillDoneOK
<1>3. CASE Wakeup \/ WakeupEnd \/ ClkHandlerEnd
    BY <1>3, WakeupOK, WakeupEndOK, ClkHandlerEndOK
<1>4. QED
    BY <1>1, <1>2, <1>3 DEF KernelStep

LEMMA NextOK == IInv /\ [Next]_vars => IInv'
<1> SUFFICES ASSUME IInv, [Next]_vars PROVE IInv'
    OBVIOUS
<1>1. CASE SemaphoreCall
    BY <1>1, SemaphoreCallOK
<1>2. CASE MessageCall
    BY <1>2, MessageCallOK
<1>3. CASE ProcessCall
    BY <1>3, ProcessCallOK
<1>4. CASE ClkHandler
    BY <1>4, ClkHandlerOK
<1>5. CASE KernelStep
    BY <1>5, KernelStepOK
<1>6. CASE Halted \/ UNCHANGED vars
    BY <1>6, StutterOK DEF Halted
<1>7. QED
    BY <1>1, <1>2, <1>3, <1>4, <1>5, <1>6 DEF Next

(* Every reachable state of the kernel satisfies the inductive invariant. *)
THEOREM Invariant == Spec => []IInv
<1>1. Init => IInv
    BY InitOK
<1>2. IInv /\ [Next]_vars => IInv'
    BY NextOK
<1>3. QED
    BY <1>1, <1>2, PTL DEF Spec

(* The tables hold values of their types whatever processes call: no dispatch
   or release ever takes the head of an empty queue. *)
THEOREM TypeCorrect == Spec => []TypeOK
<1>1. IInv => TypeOK
    BY DEF IInv, SchedOK, SleepOK, SemOK, ContextOK, FieldsOK, TypeOK
<1>2. QED
    BY <1>1, Invariant, PTL

(* Each process is on the queue that its state names and on no other, so the
   unlinking in getitem, which kill, suspend and send rely on, is sound. *)
THEOREM QueuesConsistent == Spec => []OneQueue
<1>1. IInv => OneQueue
    BY DEF IInv, SchedOK, SleepOK, SemOK, OneQueue
<1>2. QED
    BY <1>1, Invariant, PTL

(* The count of a semaphore tells the number of its waiters, across wait, the
   signals, deletion, reset and the killing of waiters. *)
THEOREM CountsConsistent == Spec => []CountMatchesQueue
<1>1. IInv => CountMatchesQueue
    BY DEF IInv
<1>2. QED
    BY <1>1, Invariant, PTL

(* resched always finds a process to dispatch, for the null process never
   leaves the ready list but to run, and exactly one process is current. *)
THEOREM NullProcessEligible == Spec => []SomeoneToRun
<1>1. IInv => SomeoneToRun
    BY DEF IInv, SchedOK
<1>2. QED
    BY <1>1, Invariant, PTL

(* No call returns, and no process is switched to, with rescheduling deferred. *)
THEOREM DeferralEnds == Spec => []DeferredOnlyInLoops
<1>1. IInv => DeferredOnlyInLoops
    BY DEF IInv, ContextOK
<1>2. QED
    BY <1>1, Invariant, PTL
=============================================================================
