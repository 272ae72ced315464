----------------------------- MODULE KernelState -----------------------------
(***************************************************************************)
(* The tables the kernel's modules share, and the scheduler that works on  *)
(* them: resched, resched_cntl, ready and the ways to block.               *)
(*                                                                         *)
(* A system call runs with interrupts disabled from disable to restore, so *)
(* it is one atomic action, EXCEPT that resched may switch to another      *)
(* process in the middle of it.  What the caller still has to do when it   *)
(* is switched back in is its continuation, kpc[p]: a label and the two    *)
(* locals the rest of the call reads.  The process whose continuation is   *)
(* User runs user code with interrupts enabled; otherwise the only step    *)
(* the machine can take is the rest of the current process's call.         *)
(***************************************************************************)
EXTENDS ProcQueue

CONSTANTS
    Pid,            \* the process table's indexes
    NULLPROC,       \* the null process
    Sem,            \* the semaphore table's indexes
    None,           \* no process and no semaphore (-1)
    QUANTUM,        \* clock ticks in a time slice
    INITPRIO,       \* the first process's priority
    Prios,          \* priorities that create is called with
    NewPrios,       \* priorities that chprio is called with
    Counts,         \* counts that semcreate, semreset and signaln are called with
    MaxCount,       \* bound: no signal takes a semaphore's count past it
    Delays,         \* delays, in ticks, that sleepms is called with
    Timeouts,       \* delays, in ticks, that recvtime is called with
    Calls,          \* the system calls that processes make
    SerialKills,    \* processes start no kill while another is in progress
    FreeIsBad       \* isbadpid, a macro outside src/, also rejects a free process

ASSUME PidAssumption    == NULLPROC \in Pid /\ None \notin Pid \cup Sem
ASSUME QuantumAssumption == QUANTUM \in Nat \ {0}
ASSUME PrioAssumption   == INITPRIO \in Nat \ {0} /\ Prios \subseteq Nat \ {0} /\ NewPrios \subseteq Int
ASSUME CountAssumption  == Counts \subseteq Nat /\ MaxCount \in Nat
ASSUME DelayAssumption  == Delays \cup Timeouts \subseteq Nat
ASSUME FlagAssumption   == SerialKills \in BOOLEAN /\ FreeIsBad \in BOOLEAN

VARIABLES
    currpid,        \* the process that has the processor
    prstate,        \* proctab[].prstate
    prprio,         \* proctab[].prprio
    prsem,          \* proctab[].prsem
    prparent,       \* proctab[].prparent
    prhasmsg,       \* proctab[].prhasmsg
    prcount,        \* "total number of live processes"
    readylist,      \* the ready list
    sleepq,         \* the delta list of sleepers
    qkey,           \* queuetab[].qkey of the process nodes
    sstate,         \* semtab[].sstate
    scount,         \* semtab[].scount
    squeue,         \* semtab[].squeue
    preempt,        \* ticks left in the time slice
    ndefers,        \* Defer.ndefers
    attempt,        \* Defer.attempt
    kpc,            \* what each process still has to do inside the kernel
    halted          \* xdone has stopped the processor

dispatchVars == <<currpid, prstate, readylist, qkey, preempt, attempt>>
deferVars    == <<dispatchVars, ndefers>>
semVars      == <<sstate, scount, squeue>>
procVars     == <<prprio, prsem, prparent, prcount, halted>>
vars == <<deferVars, semVars, procVars, prhasmsg, sleepq, kpc>>

States == {"FREE", "CURR", "READY", "SUSP", "RECV", "RECTIM", "SLEEP", "WAIT"}
SemLoops == {"signaln", "semdelete", "semreset"}
Loops  == SemLoops \cup {"wakeup", "sendnmsg"}
Labels == {"user", "receive", "recvtime", "kill", "clk", "receivemsg", "receivemsgs"} \cup Loops

Doing(at, x, n) == [at |-> at, x |-> x, n |-> n]
User == Doing("user", None, 0)

InUser        == ~halted /\ kpc[currpid] = User
Calling(call) == InUser /\ currpid # NULLPROC /\ call \in Calls
At(label)     == ~halted /\ kpc[currpid].at = label
Goto(pc)      == kpc' = [kpc EXCEPT ![currpid] = pc]
Return        == Goto(User)

IsBad(p) == FreeIsBad /\ prstate[p] = "FREE"

-----------------------------------------------------------------------------
(* A wrong resched: the end of a time slice does not make room for an equal. *)
KeepsFromEquals(st, rl, key) ==
    st[currpid] = "CURR" /\ (rl # <<>> => prprio[currpid] >= key[Head(rl)])

(* resched past its deferral test.  It finds the process states st, the    *)
(* ready list rl, the keys key and the time slice as the caller left them. *)
Keeps(st, rl, key) ==
    st[currpid] = "CURR" /\ (rl # <<>> => prprio[currpid] > key[Head(rl)])

Stay(st, rl, key, slice) ==
    /\ prstate' = st /\ readylist' = rl /\ qkey' = key /\ preempt' = slice
    /\ UNCHANGED currpid

(* The head of rl gets the processor. *)
Dispatch(st, rl, key) ==
    /\ currpid' = Head(rl) /\ readylist' = Tail(rl)
    /\ prstate' = [st EXCEPT ![Head(rl)] = "CURR"]
    /\ qkey' = key
    /\ preempt' = QUANTUM

Switch(st, rl, key, slice) ==
    \/ Keeps(st, rl, key) /\ Stay(st, rl, key, slice)
    \/ /\ st[currpid] = "CURR" /\ ~Keeps(st, rl, key)
       /\ Dispatch([st EXCEPT ![currpid] = "READY"],
                   Insert(rl, currpid, prprio[currpid], key),
                   [key EXCEPT ![currpid] = prprio[currpid]])
    \/ st[currpid] # "CURR" /\ Dispatch(st, rl, key)

(* resched *)
Resched(st, rl, key) ==
    \/ ndefers > 0 /\ attempt' = TRUE /\ Stay(st, rl, key, preempt)
    \/ ndefers = 0 /\ Switch(st, rl, key, preempt) /\ UNCHANGED attempt

(* resched_cntl(DEFER_START) *)
DeferStart ==
    /\ ndefers' = ndefers + 1
    /\ attempt' = (ndefers # 0 /\ attempt)

(* A wrong resched_cntl: forgets the attempts made meanwhile. *)
DeferStopForgets ==
    /\ ndefers > 0 /\ ndefers' = ndefers - 1
    /\ Stay(prstate, readylist, qkey, preempt) /\ UNCHANGED attempt

(* resched_cntl(DEFER_STOP) *)
DeferStop ==
    /\ ndefers > 0 /\ ndefers' = ndefers - 1
    /\ \/ ndefers' = 0 /\ attempt /\ Switch(prstate, readylist, qkey, preempt)
       \/ ~(ndefers' = 0 /\ attempt) /\ Stay(prstate, readylist, qkey, preempt)
    /\ UNCHANGED attempt

(* ready: its callers never pass a bad process.  key: unsleep's keys, if it ran. *)
Ready(p, key) ==
    Resched([prstate EXCEPT ![p] = "READY"],
            Insert(readylist, p, prprio[p], key),
            [key EXCEPT ![p] = prprio[p]])

(* The current process leaves the processor in state st, then resched runs. *)
Block(st, key) == Resched([prstate EXCEPT ![currpid] = st], readylist, key)
=============================================================================
