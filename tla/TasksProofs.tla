----------------------------- MODULE TasksProofs -----------------------------
(***************************************************************************)
(* What the steps of module Tasks do, for any number of processes and      *)
(* semaphores: lemmas for the services that stand on it.  A step of the    *)
(* scheduler is told by who waits and who runs after it (Moves), a step of *)
(* a semaphore by its entry in the table (Balanced).                       *)
(***************************************************************************)
EXTENDS Tasks, QueueProofs

States == {"FREE", "CURR", "READY", "WAIT"}
SemRec == [used : BOOLEAN, count : Int, queue : Seq(Pid)]

(* One process at most is current. *)
ProcessorOK ==
    /\ currpid \in Pid \cup {NULLPROC}
    /\ prstate \in [Pid -> States]
    /\ \A p \in Pid : prstate[p] = "CURR" <=> p = currpid

Waiting == {p \in Pid : prstate[p] = "WAIT"}
Running == {p \in Pid : prstate[p] \in {"READY", "CURR"}}

(* One entry of the semaphore table. *)
Balanced(e) ==
    /\ e.count < 0 => Len(e.queue) + e.count = 0
    /\ e.count >= 0 => e.queue = <<>>
    /\ IsInjective(e.queue)
    /\ ~e.used => e.count >= 0

LEMMA CurrentRuns ==
    ASSUME ProcessorOK, currpid \in Pid
    PROVE  currpid \notin Waiting /\ currpid \in Running
BY DEF ProcessorOK, Waiting, Running

(* What a step does to the states of the processes. *)
Moves(waiting, running) ==
    /\ currpid' \in Pid \cup {NULLPROC}
    /\ prstate' \in [Pid -> States]
    /\ \A p \in Pid : prstate'[p] = "CURR" <=> p = currpid'
    /\ Waiting' = waiting /\ Running' = running

LEMMA DispatchMoves ==
    ASSUME NEW st \in [Pid -> States], \A p \in Pid : st[p] # "CURR", Dispatch(st)
    PROVE  Moves({p \in Pid : st[p] = "WAIT"}, {p \in Pid : st[p] = "READY"})
<1>1. CASE \E p \in Pid : st[p] = "READY" /\ currpid' = p /\ prstate' = [st EXCEPT ![p] = "CURR"]
    <2> PICK p \in Pid : st[p] = "READY" /\ currpid' = p /\ prstate' = [st EXCEPT ![p] = "CURR"]
        BY <1>1
    <2>1. \A q \in Pid : prstate'[q] = IF q = p THEN "CURR" ELSE st[q]
        OBVIOUS
    <2>2. prstate' \in [Pid -> States]
        BY DEF States
    <2> QED
        BY <2>1, <2>2 DEF Moves, Waiting, Running, States
<1>2. CASE currpid' = NULLPROC /\ prstate' = st
    BY <1>2, TaskAssumption DEF Moves, Waiting, Running, States
<1> QED
    BY <1>1, <1>2 DEF Dispatch

LEMMA ReschedMoves ==
    ASSUME ProcessorOK, currpid \in Pid, NEW woken, woken \subseteq Waiting, Resched(woken)
    PROVE  Moves(Waiting \ woken, Running \cup woken)
<1>1. CASE prstate' = Readied(woken) /\ UNCHANGED currpid
    <2>1. \A p \in Pid : prstate'[p] = IF p \in woken THEN "READY" ELSE prstate[p]
        BY <1>1 DEF Readied
    <2>2. prstate' \in [Pid -> States]
        BY <1>1 DEF Readied, ProcessorOK, States
    <2> QED
        BY <1>1, <2>1, <2>2 DEF Moves, Waiting, Running, States, ProcessorOK
<1>2. CASE Dispatch(Readied(woken \cup {currpid}))
    <2> DEFINE st == Readied(woken \cup {currpid})
    <2>1. \A p \in Pid : st[p] = IF p \in woken \/ p = currpid THEN "READY" ELSE prstate[p]
        BY DEF Readied
    <2>2. st \in [Pid -> States]
        BY DEF Readied, ProcessorOK, States
    <2> HIDE DEF st
    <2>3. \A p \in Pid : st[p] # "CURR"
        BY <2>1 DEF ProcessorOK
    <2>4. Moves({p \in Pid : st[p] = "WAIT"}, {p \in Pid : st[p] = "READY"})
        BY <1>2, <2>2, <2>3, DispatchMoves DEF st
    <2>5. {p \in Pid : st[p] = "WAIT"} = Waiting \ woken
        BY <2>1 DEF Waiting, ProcessorOK
    <2>6. {p \in Pid : st[p] = "READY"} = Running \cup woken
        BY <2>1 DEF Waiting, Running, ProcessorOK
    <2> QED
        BY <2>4, <2>5, <2>6
<1> QED
    BY <1>1, <1>2 DEF Resched

LEMMA PreemptMoves ==
    ASSUME ProcessorOK, currpid \in Pid, Preempted
    PROVE  Moves(Waiting, Running)
<1> DEFINE st == Readied({currpid})
<1>1. \A p \in Pid : st[p] = IF p = currpid THEN "READY" ELSE prstate[p]
    BY DEF Readied
<1>2. st \in [Pid -> States] /\ Dispatch(st)
    BY DEF Readied, ProcessorOK, States, Preempted
<1> HIDE DEF st
<1>3. \A p \in Pid : st[p] # "CURR"
    BY <1>1 DEF ProcessorOK
<1>4. Moves({p \in Pid : st[p] = "WAIT"}, {p \in Pid : st[p] = "READY"})
    BY <1>2, <1>3, DispatchMoves
<1>5. {p \in Pid : st[p] = "WAIT"} = Waiting /\ {p \in Pid : st[p] = "READY"} = Running
    BY <1>1 DEF Waiting, Running, ProcessorOK
<1> QED
    BY <1>4, <1>5

(* The current process leaves the processor in state state. *)
LEMMA LeaveMoves ==
    ASSUME ProcessorOK, currpid \in Pid, NEW state \in {"WAIT", "FREE"},
           Dispatch([prstate EXCEPT ![currpid] = state])
    PROVE  Moves(IF state = "WAIT" THEN Waiting \cup {currpid} ELSE Waiting, Running \ {currpid})
<1> DEFINE st == [prstate EXCEPT ![currpid] = state]
<1>1. \A p \in Pid : st[p] = IF p = currpid THEN state ELSE prstate[p]
    BY DEF ProcessorOK
<1>2. st \in [Pid -> States] /\ Dispatch(st)
    BY DEF ProcessorOK, States
<1> HIDE DEF st
<1>3. \A p \in Pid : st[p] # "CURR"
    BY <1>1 DEF ProcessorOK
<1>4. Moves({p \in Pid : st[p] = "WAIT"}, {p \in Pid : st[p] = "READY"})
    BY <1>2, <1>3, DispatchMoves
<1>5. {p \in Pid : st[p] = "READY"} = Running \ {currpid}
    BY <1>1 DEF Running, ProcessorOK
<1>6. {p \in Pid : st[p] = "WAIT"} = IF state = "WAIT" THEN Waiting \cup {currpid} ELSE Waiting
    BY <1>1 DEF Waiting, ProcessorOK
<1> QED
    BY <1>4, <1>5, <1>6

LEMMA KillMoves ==
    ASSUME ProcessorOK, NEW p \in Pid, KillTask(p)
    PROVE  Moves(Waiting \ {p}, Running \ {p})
<1>1. CASE p = currpid
    <2>1. p \notin Waiting
        BY <1>1 DEF ProcessorOK, Waiting
    <2> QED
        BY <1>1, <2>1, LeaveMoves DEF KillTask
<1>2. CASE p # currpid
    <2>1. prstate' = [prstate EXCEPT ![p] = "FREE"] /\ UNCHANGED currpid
        BY <1>2 DEF KillTask
    <2>2. \A q \in Pid : prstate'[q] = IF q = p THEN "FREE" ELSE prstate[q]
        BY <2>1 DEF ProcessorOK
    <2>3. prstate' \in [Pid -> States]
        BY <2>1 DEF ProcessorOK, States
    <2> QED
        BY <1>2, <2>1, <2>2, <2>3 DEF Moves, Waiting, Running, ProcessorOK
<1> QED
    BY <1>1, <1>2

-----------------------------------------------------------------------------
(* What wait, signal and kill do to an entry of the semaphore table. *)
LEMMA EmptyQueue == ToSet(<<>>) = {} /\ IsInjective(<<>>)
BY DEF ToSet, IsInjective

LEMMA ChangedEntry ==
    ASSUME NEW e \in SemRec, NEW c \in Int, NEW q \in Seq(Pid)
    PROVE  [e EXCEPT !.count = c, !.queue = q] = [used |-> e.used, count |-> c, queue |-> q]
<1> DEFINE f == [e EXCEPT !.count = c]
<1>1. f = [used |-> e.used, count |-> c, queue |-> e.queue]
    BY DEF SemRec
<1>2. [f EXCEPT !.queue = q] = [used |-> e.used, count |-> c, queue |-> q]
    <2> HIDE DEF f
    <2> QED
        BY <1>1
<1> QED
    BY <1>2, Zenon

LEMMA DownEntry ==
    ASSUME NEW tab \in [Sem -> SemRec], NEW s \in Sem, NEW p \in Pid
    PROVE  /\ Down(tab, s, p) \in [Sem -> SemRec]
           /\ \A t \in Sem \ {s} : Down(tab, s, p)[t] = tab[t]
           /\ Down(tab, s, p)[s].used = tab[s].used
           /\ Down(tab, s, p)[s].count = tab[s].count - 1
           /\ Down(tab, s, p)[s].queue =
                IF tab[s].count > 0 THEN tab[s].queue ELSE Append(tab[s].queue, p)
<1> DEFINE q == IF tab[s].count > 0 THEN tab[s].queue ELSE Append(tab[s].queue, p)
           e == [used |-> tab[s].used, count |-> tab[s].count - 1, queue |-> q]
<1>1. tab[s].count \in Int /\ q \in Seq(Pid) /\ tab[s].used \in BOOLEAN
    BY DEF SemRec
<1>2. Down(tab, s, p)[s] = [tab[s] EXCEPT !.count = @ - 1, !.queue = q]
    BY DEF Down
<1>3. [tab[s] EXCEPT !.count = @ - 1, !.queue = q] = e
    <2>1. tab[s] \in SemRec /\ tab[s].count - 1 \in Int
        BY <1>1
    <2> HIDE DEF q
    <2> QED
        BY <1>1, <2>1, ChangedEntry, Zenon
<1>4. e \in SemRec
    BY <1>1 DEF SemRec
<1>5. DOMAIN Down(tab, s, p) = Sem /\ \A t \in Sem \ {s} : Down(tab, s, p)[t] = tab[t]
    BY DEF Down
<1>6. Down(tab, s, p) = [t \in Sem |-> Down(tab, s, p)[t]]
    BY DEF Down
<1> QED
    BY <1>2, <1>3, <1>4, <1>5, <1>6

LEMMA UpEntry ==
    ASSUME NEW tab \in [Sem -> SemRec], NEW s \in Sem, tab[s].count < 0 => tab[s].queue # <<>>
    PROVE  /\ Up(tab, s) \in [Sem -> SemRec]
           /\ \A t \in Sem \ {s} : Up(tab, s)[t] = tab[t]
           /\ Up(tab, s)[s].used = tab[s].used
           /\ Up(tab, s)[s].count = tab[s].count + 1
           /\ Up(tab, s)[s].queue =
                IF tab[s].count < 0 THEN Tail(tab[s].queue) ELSE tab[s].queue
<1> DEFINE q == IF tab[s].count < 0 THEN Tail(tab[s].queue) ELSE tab[s].queue
           e == [used |-> tab[s].used, count |-> tab[s].count + 1, queue |-> q]
<1>1. tab[s].count \in Int /\ q \in Seq(Pid) /\ tab[s].used \in BOOLEAN
    BY DEF SemRec
<1>2. s # None
    BY TaskAssumption
<1>3. Up(tab, s)[s] = [tab[s] EXCEPT !.count = @ + 1, !.queue = q]
    BY <1>2 DEF Up
<1>4. [tab[s] EXCEPT !.count = @ + 1, !.queue = q] = e
    <2>1. tab[s] \in SemRec /\ tab[s].count + 1 \in Int
        BY <1>1
    <2> HIDE DEF q
    <2> QED
        BY <1>1, <2>1, ChangedEntry, Zenon
<1>5. e \in SemRec
    BY <1>1 DEF SemRec
<1>6. DOMAIN Up(tab, s) = Sem /\ \A t \in Sem \ {s} : Up(tab, s)[t] = tab[t]
    BY <1>2 DEF Up
<1>7. Up(tab, s) = [t \in Sem |-> Up(tab, s)[t]]
    BY <1>2 DEF Up
<1> QED
    BY <1>3, <1>4, <1>5, <1>6, <1>7

(* wait, by a process that is not on the queue yet. *)
LEMMA DownBalanced ==
    ASSUME NEW tab \in [Sem -> SemRec], NEW s \in Sem, NEW p \in Pid,
           Balanced(tab[s]), p \notin ToSet(tab[s].queue), tab[s].used
    PROVE  /\ Balanced(Down(tab, s, p)[s])
           /\ ToSet(Down(tab, s, p)[s].queue) =
                IF tab[s].count > 0 THEN ToSet(tab[s].queue) ELSE ToSet(tab[s].queue) \cup {p}
<1> DEFINE e == tab[s]
           f == Down(tab, s, p)[s]
<1>1. e.count \in Int /\ e.queue \in Seq(Pid) /\ e.used
    BY DEF SemRec
<1>2. /\ f.used = e.used /\ f.count = e.count - 1
      /\ f.queue = IF e.count > 0 THEN e.queue ELSE Append(e.queue, p)
    BY DownEntry
<1>3. Balanced(e) /\ p \notin ToSet(e.queue)
    OBVIOUS
<1> HIDE DEF e, f
<1>4. CASE e.count > 0
    <2>1. f.queue = e.queue /\ f.queue = <<>> /\ f.count >= 0
        BY <1>1, <1>2, <1>3, <1>4 DEF Balanced
    <2>2. Balanced(f)
        BY <1>1, <1>2, <1>3, <2>1 DEF Balanced
    <2> QED
        BY <1>4, <2>1, <2>2 DEF e, f
<1>5. CASE ~(e.count > 0)
    <2>1. f.queue = Append(e.queue, p) /\ IsInjective(e.queue) /\ Len(e.queue) \in Nat
        BY <1>1, <1>2, <1>3, <1>5 DEF Balanced
    <2>2. Len(e.queue) + e.count = 0
        <3>1. CASE e.count < 0
            BY <1>3, <3>1 DEF Balanced
        <3>2. CASE e.count = 0
            BY <1>3, <3>2 DEF Balanced
        <3> QED
            BY <1>1, <1>5, <3>1, <3>2
    <2>3. /\ Len(f.queue) = Len(e.queue) + 1 /\ ToSet(f.queue) = ToSet(e.queue) \cup {p}
          /\ IsInjective(f.queue)
        BY <1>1, <1>3, <2>1, AppendQueue
    <2>4. f.count < 0 /\ Len(f.queue) + f.count = 0
        BY <1>1, <1>2, <1>5, <2>1, <2>2, <2>3
    <2>5. Balanced(f)
        BY <1>1, <1>2, <2>3, <2>4 DEF Balanced
    <2> QED
        BY <1>5, <2>3, <2>5 DEF e, f
<1> QED
    BY <1>4, <1>5 DEF e, f

(* signal *)
LEMMA UpBalanced ==
    ASSUME NEW tab \in [Sem -> SemRec], NEW s \in Sem, Balanced(tab[s])
    PROVE  /\ Balanced(Up(tab, s)[s])
           /\ First(tab, s) \subseteq ToSet(tab[s].queue)
           /\ ToSet(Up(tab, s)[s].queue) = ToSet(tab[s].queue) \ First(tab, s)
           /\ First(tab, s) = IF tab[s].count < 0 THEN {Head(tab[s].queue)} ELSE {}
<1> DEFINE e == tab[s]
           f == Up(tab, s)[s]
<1>1. e.count \in Int /\ e.queue \in Seq(Pid) /\ e.used \in BOOLEAN
    BY DEF SemRec
<1>2. Balanced(e) /\ IsInjective(e.queue) /\ (e.count < 0 => e.queue # <<>>)
    <2>1. Balanced(e) /\ IsInjective(e.queue)
        BY DEF Balanced
    <2>2. e.count < 0 => e.queue # <<>>
        BY <1>1, <2>1 DEF Balanced
    <2> QED
        BY <2>1, <2>2
<1>3. /\ f.used = e.used /\ f.count = e.count + 1
      /\ f.queue = IF e.count < 0 THEN Tail(e.queue) ELSE e.queue
    BY <1>2, UpEntry
<1>4. First(tab, s) = IF e.count < 0 THEN {Head(e.queue)} ELSE {}
    BY TaskAssumption DEF First
<1> HIDE DEF e, f
<1>5. CASE e.count < 0
    <2>1. /\ Head(e.queue) \in ToSet(e.queue) /\ Len(e.queue) \in Nat \ {0}
          /\ Len(f.queue) = Len(e.queue) - 1 /\ f.queue \in Seq(Pid)
          /\ ToSet(f.queue) = ToSet(e.queue) \ {Head(e.queue)} /\ IsInjective(f.queue)
        BY <1>1, <1>2, <1>3, <1>5, TailQueue
    <2>2. Len(e.queue) + e.count = 0 /\ e.used
        BY <1>1, <1>2, <1>5 DEF Balanced
    <2>3. f.count < 0 => Len(f.queue) + f.count = 0
        BY <1>1, <1>3, <2>1, <2>2
    <2>4. f.count >= 0 => f.queue = <<>>
        BY <1>1, <1>3, <1>5, <2>1, <2>2, EmptySeq
    <2>5. Balanced(f)
        BY <1>3, <2>1, <2>2, <2>3, <2>4 DEF Balanced
    <2> QED
        BY <1>4, <1>5, <2>1, <2>5 DEF e, f
<1>6. CASE ~(e.count < 0)
    <2>1. Balanced(f) /\ f.queue = e.queue /\ First(tab, s) = {}
        BY <1>1, <1>2, <1>3, <1>4, <1>6 DEF Balanced
    <2> QED
        BY <1>4, <1>6, <2>1 DEF e, f
<1> QED
    BY <1>5, <1>6

(* kill, of a process on the queue. *)
LEMMA LeftEntry ==
    ASSUME NEW e \in SemRec, Balanced(e), NEW p \in ToSet(e.queue), NEW f,
           f = [used |-> e.used, count |-> e.count + 1, queue |-> GetItem(e.queue, p)]
    PROVE  /\ f \in SemRec /\ Balanced(f) /\ f.used = e.used
           /\ ToSet(f.queue) = ToSet(e.queue) \ {p}
           /\ e.count < 0 /\ f.count <= 0
<1>1. e.used \in BOOLEAN /\ e.count \in Int /\ e.queue \in Seq(Pid) /\ IsInjective(e.queue)
    BY DEF SemRec, Balanced
<1>2. /\ GetItem(e.queue, p) \in Seq(Pid) /\ IsInjective(GetItem(e.queue, p))
      /\ Len(GetItem(e.queue, p)) = Len(e.queue) - 1
      /\ ToSet(GetItem(e.queue, p)) = ToSet(e.queue) \ {p}
    BY <1>1, GetItemQueue
<1>3. f \in SemRec /\ f.used = e.used /\ f.count = e.count + 1 /\ f.queue = GetItem(e.queue, p)
    BY <1>1, <1>2 DEF SemRec
<1>4. e.count < 0
    <2>1. CASE e.count >= 0
        <3>1. e.queue = <<>>
            BY <2>1 DEF Balanced
        <3> QED
            BY <3>1, EmptyQueue
    <2> QED
        BY <1>1, <2>1
<1>5. Len(e.queue) \in Nat /\ Len(e.queue) + e.count = 0 /\ Len(f.queue) \in Nat
    BY <1>1, <1>2, <1>3, <1>4 DEF Balanced
<1>6. f.count < 0 => Len(f.queue) + f.count = 0
    BY <1>1, <1>2, <1>3, <1>5
<1>7. f.count >= 0 => f.queue = <<>>
    BY <1>1, <1>2, <1>3, <1>4, <1>5, EmptySeq
<1>8. ~f.used => f.count >= 0
    <2>1. e.used
        BY <1>1, <1>4 DEF Balanced
    <2> QED
        BY <1>3, <2>1
<1>9. Balanced(f)
    BY <1>2, <1>3, <1>6, <1>7, <1>8 DEF Balanced
<1> QED
    BY <1>1, <1>2, <1>3, <1>4, <1>9

(* kill, in the table: the victim leaves the queue that it is on. *)
LEMMA KillEntries ==
    ASSUME sem \in [Sem -> SemRec], \A s \in Sem : Balanced(sem[s]), NEW p \in Pid, KillTask(p)
    PROVE  /\ \A s \in Sem : p \in ToSet(sem[s].queue) =>
                sem'[s] = [used |-> sem[s].used, count |-> sem[s].count + 1,
                           queue |-> GetItem(sem[s].queue, p)]
           /\ \A s \in Sem : p \notin ToSet(sem[s].queue) => sem'[s] = sem[s]
           /\ DOMAIN sem' = Sem /\ sem' = [s \in Sem |-> sem'[s]]
<1>1. sem' = [s \in Sem |-> IF p \in Waiters(s)
                            THEN [sem[s] EXCEPT !.count = @ + 1, !.queue = GetItem(@, p)]
                            ELSE sem[s]]
    BY DEF KillTask
<1>2. \A s \in Sem : Waiters(s) = ToSet(sem[s].queue)
    BY TaskAssumption DEF Waiters
<1>3. ASSUME NEW s \in Sem, p \in ToSet(sem[s].queue)
      PROVE  sem'[s] = [used |-> sem[s].used, count |-> sem[s].count + 1,
                        queue |-> GetItem(sem[s].queue, p)]
    <2>1. sem[s] \in SemRec /\ sem[s].count + 1 \in Int /\ sem[s].queue \in Seq(Pid) /\ IsInjective(sem[s].queue)
        BY DEF SemRec, Balanced
    <2>2. GetItem(sem[s].queue, p) \in Seq(Pid)
        BY <1>3, <2>1, GetItemQueue
    <2>3. sem'[s] = [sem[s] EXCEPT !.count = @ + 1, !.queue = GetItem(@, p)]
        BY <1>1, <1>2, <1>3, Zenon
    <2> QED
        BY <2>1, <2>2, <2>3, ChangedEntry, Zenon
<1>4. \A s \in Sem : p \notin ToSet(sem[s].queue) => sem'[s] = sem[s]
    BY <1>1, <1>2
<1>5. DOMAIN sem' = Sem /\ sem' = [s \in Sem |-> sem'[s]]
    BY <1>1
<1> QED
    BY <1>3, <1>4, <1>5

-----------------------------------------------------------------------------
(* Sizes of sets of processes. *)
LEMMA SubsetSizes ==
    ASSUME NEW S, IsFiniteSet(S), NEW G \in SUBSET S, NEW H \in SUBSET S
    PROVE  /\ Cardinality(G) \in Nat /\ Cardinality(H) \in Nat
           /\ G \subseteq H => Cardinality(G) <= Cardinality(H)
           /\ \A x \in H : G \subseteq H \ {x} => Cardinality(G) <= Cardinality(H) - 1
           /\ \A x : G \subseteq H \cup {x} => Cardinality(G) <= Cardinality(H) + 1
<1>1. IsFiniteSet(G) /\ IsFiniteSet(H)
    BY FS_Subset
<1>2. Cardinality(G) \in Nat /\ Cardinality(H) \in Nat
    BY <1>1, FS_CardinalityType
<1>3. G \subseteq H => Cardinality(G) <= Cardinality(H)
    BY <1>1, FS_Subset
<1>4. ASSUME NEW x \in H, G \subseteq H \ {x}
      PROVE  Cardinality(G) <= Cardinality(H) - 1
    <2>1. IsFiniteSet(H \ {x}) /\ Cardinality(H \ {x}) = Cardinality(H) - 1
        BY <1>1, FS_RemoveElement
    <2> QED
        BY <1>4, <2>1, FS_Subset
<1>5. ASSUME NEW x, G \subseteq H \cup {x}
      PROVE  Cardinality(G) <= Cardinality(H) + 1
    <2>1. /\ IsFiniteSet(H \cup {x})
          /\ Cardinality(H \cup {x}) = IF x \in H THEN Cardinality(H) ELSE Cardinality(H) + 1
        BY <1>1, FS_AddElement
    <2>2. Cardinality(G) <= Cardinality(H \cup {x})
        BY <1>5, <2>1, FS_Subset
    <2> QED
        BY <1>2, <2>1, <2>2
<1> QED
    BY <1>2, <1>3, <1>4, <1>5
=============================================================================
