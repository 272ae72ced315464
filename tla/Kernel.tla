------------------------------- MODULE Kernel --------------------------------
(***************************************************************************)
(* The process side of the kernel put together: scheduler, semaphores,     *)
(* messages, clock and process management over the tables of KernelState,  *)
(* driven by processes that make any call at any time.                     *)
(***************************************************************************)
EXTENDS Semaphores, Clock, Processes

(* nulluser's resume(create(startup)) has just given the first process the
   processor.  prsem is read only in state WAIT, which wait enters after
   setting it; its value before that is of no consequence. *)
Init ==
    \E startup \in Pid \ {NULLPROC} :
        /\ currpid = startup
        /\ prstate = [p \in Pid |-> CASE p = startup  -> "CURR"
                                      [] p = NULLPROC -> "READY"
                                      [] OTHER        -> "FREE"]
        /\ prprio = [p \in Pid |-> IF p = startup THEN INITPRIO ELSE 0]
        /\ prsem = [p \in Pid |-> None]
        /\ prparent = [p \in Pid |-> NULLPROC]
        /\ prhasmsg = [p \in Pid |-> FALSE]
        /\ prcount = 2
        /\ readylist = <<NULLPROC>>
        /\ sleepq = <<>>
        /\ qkey = [p \in Pid |-> IF p = startup THEN INITPRIO ELSE 0]
        /\ sstate = [s \in Sem |-> "FREE"]
        /\ scount = [s \in Sem |-> 0]
        /\ squeue = [s \in Sem |-> <<>>]
        /\ preempt = QUANTUM
        /\ ndefers = 0
        /\ attempt = FALSE
        /\ kpc = [p \in Pid |-> User]
        /\ halted = FALSE

SemaphoreCall ==
    \E s \in Sem :
        \/ Wait(s)
        \/ Signal(s)
        \/ SemDelete(s)
        \/ \E count \in Counts : SignalN(s, count) \/ SemCreate(s, count) \/ SemReset(s, count)

MessageCall ==
    \/ \E p \in Pid : Send(p)
    \/ Receive
    \/ RecvClr
    \/ \E maxwait \in Timeouts : RecvTime(maxwait)

ProcessCall ==
    \/ \E p \in Pid :
        \/ Kill(p)
        \/ Suspend(p)
        \/ Resume(p)
        \/ \E prio \in Prios : Create(p, prio)
        \/ \E prio \in NewPrios : ChPrio(p, prio)
    \/ Yield
    \/ \E delay \in Delays : SleepMs(delay)

(* What a process does with interrupts disabled, back from a switch or in a loop. *)
KernelStep ==
    \/ SignalNLoop \/ SignalNEnd
    \/ SemDeleteLoop \/ SemDeleteEnd
    \/ SemResetLoop \/ SemResetEnd
    \/ ReceiveDone \/ RecvTimeDone
    \/ KillDone
    \/ Wakeup \/ WakeupEnd \/ ClkHandlerEnd

(* xdone's halt never returns. *)
Halted == halted /\ UNCHANGED vars

Next ==
    \/ SemaphoreCall \/ MessageCall \/ ProcessCall
    \/ ClkHandler
    \/ KernelStep
    \/ Halted

Spec == Init /\ [][Next]_vars

(* The processor does not stop inside the kernel; the timer keeps raising an
   interrupt that stays pending until it is taken, which happens at the first
   instruction with interrupts enabled.  Nothing is assumed of processes. *)
FairSpec == Spec /\ WF_vars(KernelStep) /\ SF_vars(ClkHandler)

-----------------------------------------------------------------------------
Live == {p \in Pid : prstate[p] # "FREE"}

(* A kill under way has a victim, a semaphore loop its semaphore and count. *)
Arguments ==
    \A p \in Pid :
        /\ kpc[p].at = "kill" => kpc[p].x \in Pid \ {NULLPROC}
        /\ kpc[p].at \in SemLoops => kpc[p].x \in Sem /\ kpc[p].n \in Nat

(* Every table holds values of its C type, and continuations are well formed. *)
TypeOK ==
    /\ currpid \in Pid
    /\ prstate \in [Pid -> States]
    /\ prprio \in [Pid -> Int]
    /\ prsem \in [Pid -> Sem \cup {None}]
    /\ prparent \in [Pid -> Pid]
    /\ prhasmsg \in [Pid -> BOOLEAN]
    /\ prcount \in Int
    /\ readylist \in Seq(Pid) /\ sleepq \in Seq(Pid)
    /\ DOMAIN qkey = Pid
    /\ sstate \in [Sem -> {"FREE", "USED"}]
    /\ scount \in [Sem -> Int]
    /\ squeue \in [Sem -> Seq(Pid)]
    /\ preempt \in 1..QUANTUM
    /\ ndefers \in {0, 1} /\ attempt \in BOOLEAN
    /\ kpc \in [Pid -> [at : Labels, x : Pid \cup Sem \cup {None}, n : Int]]
    /\ halted \in BOOLEAN
    /\ Arguments

(* A process is on the queue its state names and on no other: getitem, which
   unlinks a node without asking where it is, is only sound because of this. *)
OneQueue ==
    /\ IsInjective(readylist) /\ IsInjective(sleepq)
    /\ \A p \in Pid :
        /\ prstate[p] = "READY" <=> p \in ToSet(readylist)
        /\ prstate[p] \in {"SLEEP", "RECTIM"} <=> p \in ToSet(sleepq)
        /\ prstate[p] = "WAIT" => prsem[p] \in Sem
    /\ \A s \in Sem :
        /\ IsInjective(squeue[s])
        /\ \A p \in Pid : prstate[p] = "WAIT" /\ prsem[p] = s <=> p \in ToSet(squeue[s])

(* semreset empties the queue before it sets the count. *)
Resetting(s) == kpc[currpid].at = "semreset" /\ kpc[currpid].x = s

(* A negative count is minus the number of waiters and any other count means
   there are none, whatever mix of calls, kills and deletions came before. *)
CountMatchesQueue ==
    \A s \in Sem : ~Resetting(s) =>
        Len(squeue[s]) = IF scount[s] < 0 THEN -scount[s] ELSE 0

(* resched's "highest priority eligible process": whenever user code runs, no
   ready process has a higher priority than the one that has the processor. *)
HighestPriorityRuns ==
    InUser => \A p \in ToSet(readylist) : prprio[p] <= prprio[currpid]

(* resched: "reschedule processor to highest priority eligible process". *)
DispatchesHighest ==
    [][currpid' # currpid => \A p \in ToSet(readylist') : prprio'[p] <= prprio'[currpid']]_vars

(* The null process is always ready or running, so there is always one to
   dispatch, and no other process is ever current. *)
SomeoneToRun ==
    /\ prstate[NULLPROC] \in {"CURR", "READY"}
    /\ \A p \in Pid : prstate[p] = "CURR" <=> p = currpid

(* prcount is the "total number of live processes", less the victims of kills
   under way; at the last kill the processor stops with the victim in place. *)
LiveCount ==
    prcount + Cardinality({kpc[p].x : p \in Killers}) + (IF halted THEN 1 ELSE 0) = Cardinality(Live)

Victims == {kpc[p].x : p \in Killers}

(* xdone runs "as last process exits", and says that all user processes have
   completed: only the exiting process is left, besides those whose own kill
   is under way. *)
HaltsWhenDone == halted => Cardinality(Live \ (Victims \cup {NULLPROC})) <= 1

(* A process that is switched back in inside receive finds a message there,
   however it was suspended, resumed and sent to in the meantime. *)
ReceiveHasMessage ==
    \A p \in Pid :
        kpc[p].at = "receive" /\ prstate[p] \in {"CURR", "READY", "SUSP"} => prhasmsg[p]

(* Rescheduling is deferred only inside the loops, by the current process. *)
DeferredOnlyInLoops ==
    /\ ndefers = 1 <=> kpc[currpid].at \in Loops
    /\ \A p \in Pid : kpc[p].at \in Loops => p = currpid

-----------------------------------------------------------------------------
Remaining == [p \in ToSet(sleepq) |-> Elapsed(sleepq, qkey)[IndexOf(sleepq, p)]]

(* The delta list behaves as one independent countdown for every sleeper. *)
Timers == INSTANCE TimerSpec WITH remaining <- Remaining
ImplementsTimers == Timers!Spec

Value(s) == IF sstate[s] = "FREE" THEN -1 ELSE IF scount[s] < 0 THEN 0 ELSE scount[s]
Values == [s \in Sem |-> Value(s)]

(* The semaphore calls, kills included, implement counting semaphores. *)
Semaphore == INSTANCE SemSpec WITH value <- Values, waiters <- squeue
ImplementsSemaphores == Semaphore!Spec

(* recvtime and sleepms "wait specified time": no sleeper is still on the
   queue, unnoticed, after its time was up. *)
NeverOverdue == InUser => \A p \in ToSet(sleepq) : Remaining[p] >= 0

(* A sleeper becomes ready when its time is up, and a timed receiver before
   that only by a message: neither a kill of another sleeper nor a late
   interrupt cuts a delay short. *)
NoEarlyWake ==
    [][\A p \in ToSet(sleepq) : prstate'[p] = "READY" =>
            \/ Remaining[p] <= 0
            \/ prstate[p] = "RECTIM" /\ ~prhasmsg[p] /\ prhasmsg'[p]]_vars

(* A process that sleeps or waits with a timeout does not do so for ever. *)
SleeperWakes ==
    \A p \in Pid : prstate[p] \in {"SLEEP", "RECTIM"} ~> prstate[p] \notin {"SLEEP", "RECTIM"}

(* Processes of one priority share the processor: one that is ready runs, or
   stops being ready, even if no other ever gives up the processor. *)
TimeSharing ==
    \A p \in Pid \ {NULLPROC} : prstate[p] = "READY" ~> (prstate[p] # "READY" \/ halted)
=============================================================================
