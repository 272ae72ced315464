---------------------------- MODULE PortsProofs -----------------------------
(***************************************************************************)
(* Ports keep their promises for any number of processes, ports, messages  *)
(* and semaphores, and whoever is killed: semaphores and queues agree, no  *)
(* node is lost, and ports implement channels that clearing cancels.       *)
(*                                                                         *)
(* What makes it hard is that ptclear gives a port's semaphores away while *)
(* others use the port.  The invariant says which port owns a semaphore at *)
(* any moment (Owns): an open port both of its own; a port in limbo those  *)
(* that its clearing has not deleted yet or somebody still waits on.  No   *)
(* two own the same one, so that the unit that a call releases never goes  *)
(* to a process that waits on another port.                                *)
(***************************************************************************)
EXTENDS Ports, TasksProofs

Calls  == {"ptsend", "ptrecv"}
Resets == {"ptreset", "ptresetend"}
Clears == Resets \cup {"ptdelete", "ptdeleteend"}

Pending == {c \in [at : Calls \cup Clears, port : Port, seq : Int, msg : Msg \cup {None}] :
                c.at = "ptsend" => c.msg \in Msg}
Conts == {User} \cup Pending

TypesOK ==
    /\ currpid \in Pid \cup {NULLPROC}
    /\ prstate \in [Pid -> States]
    /\ cont \in [Pid -> Conts]
    /\ sem \in [Sem -> SemRec]
    /\ ptstate \in [Port -> {"FREE", "ALLOC", "LIMBO"}]
    /\ ptssem \in [Port -> Sem \cup {None}] /\ ptrsem \in [Port -> Sem \cup {None}]
    /\ ptqueue \in [Port -> Seq(Msg)]
    /\ ptseq \in [Port -> Int] /\ ptmaxcnt \in [Port -> Nat]
    /\ ptnextid \in Port /\ ptfree \in Nat

ProcsOK ==
    /\ \A p \in Pid : prstate[p] = "CURR" <=> p = currpid
    /\ \A p \in Pid : prstate[p] = "WAIT" => cont[p].at \in Calls

CountsOK == \A s \in Sem : Balanced(sem[s])

(* A process in one of certain calls on port i, and the semaphore it waits on. *)
In(p, i, labels) == cont[p].at \in labels /\ cont[p].port = i
SemOf(i, call) == IF call = "ptsend" THEN ptssem[i] ELSE ptrsem[i]

(* The semaphore that belongs to port i. *)
Owns(i, call) ==
    \/ ptstate[i] = "ALLOC"
    \/ /\ ptstate[i] = "LIMBO"
       /\ \E p \in Pid : \/ In(p, i, Resets)
                         \/ call = "ptrecv" /\ (In(p, i, {"ptdelete"}) \/ (p \in Waiting /\ In(p, i, Calls)))

OwnersOK ==
    \A i, j \in Port, call, other \in Calls :
        Owns(i, call) /\ Owns(j, other) /\ SemOf(i, call) = SemOf(j, other) /\ SemOf(i, call) # None
            => i = j /\ call = other

(* Whoever is queued on a port's semaphore waits in that call on that port. *)
QueuesOK(i) ==
    \A call \in Calls : Owns(i, call) /\ SemOf(i, call) # None =>
        /\ sem[SemOf(i, call)].used
        /\ \A p \in ToSet(sem[SemOf(i, call)].queue) : p \in Waiting /\ In(p, i, {call})

(* Whoever waits in a call on a port is queued on its semaphore, and the port
   is in the life in which the call began or is being cleared in it. *)
WaitersOK(i) ==
    \A p \in Waiting : In(p, i, Calls) =>
        /\ p \in Waiters(SemOf(i, cont[p].at))
        /\ \/ StillThere(cont[p])
           \/ ptstate[i] = "LIMBO" /\ cont[p].at = "ptrecv" /\ ptseq[i] = cont[p].seq + 1

(* How far a clearing has got. *)
ClearOK(i) ==
    \A p \in Pid : In(p, i, Clears) =>
        /\ ptstate[i] = "LIMBO"
        /\ \A q \in Pid : In(q, i, Clears) => q = p
        /\ cont[p].at \in Resets /\ ptssem[i] # None => sem[ptssem[i]].count = ptmaxcnt[i]
        /\ cont[p].at = "ptresetend" /\ ptrsem[i] # None => sem[ptrsem[i]].count = 0
        /\ cont[p].at \in {"ptresetend", "ptdeleteend"} => \A q \in Waiting : ~In(q, i, Calls)

(* No call is of a life of its port that is yet to come, nor of one that begins
   when a port in limbo opens again. *)
SeqsOK(i) ==
    \A p \in Pid : In(p, i, Calls) =>
        cont[p].seq <= ptseq[i] /\ (ptstate[i] = "LIMBO" => cont[p].seq < ptseq[i])

PortOK(i) ==
    /\ QueuesOK(i) /\ WaitersOK(i) /\ ClearOK(i) /\ SeqsOK(i)
    /\ ptstate[i] # "ALLOC" => ptqueue[i] = <<>>

PortsOK == TypesOK /\ ProcsOK /\ CountsOK /\ OwnersOK /\ \A i \in Port : PortOK(i)

-----------------------------------------------------------------------------
LEMMA Processor == TypesOK /\ ProcsOK => ProcessorOK
BY DEF TypesOK, ProcsOK, ProcessorOK

(* A step that concerns one port, i: it changes no semaphore that another port
   owns, and of the processes only those in a call on i and those in no call. *)
Concerns(p, i) == cont[p] = User \/ In(p, i, Calls \cup Clears)

Local(i) ==
    /\ \A j \in Port \ {i} :
        /\ ptstate'[j] = ptstate[j] /\ ptseq'[j] = ptseq[j] /\ ptqueue'[j] = ptqueue[j]
        /\ ptssem'[j] = ptssem[j] /\ ptrsem'[j] = ptrsem[j] /\ ptmaxcnt'[j] = ptmaxcnt[j]
    /\ \A j \in Port \ {i}, call \in Calls :
        Owns(j, call) /\ SemOf(j, call) # None => sem'[SemOf(j, call)] = sem[SemOf(j, call)]
    /\ \A p \in Pid :
        \/ /\ cont'[p] = cont[p] /\ (p \in Waiting' <=> p \in Waiting)
           /\ p \in Running' => p \in Running
        \/ Concerns(p, i) /\ Concerns(p, i)'

(* A process that is not concerned with port i. *)
LEMMA OthersApart ==
    ASSUME ProcsOK, ProcsOK', NEW i \in Port, Local(i), NEW j \in Port, j # i, NEW p \in Pid
    PROVE  /\ In(p, j, Calls \cup Clears)' \/ In(p, j, Calls \cup Clears) =>
                /\ cont'[p] = cont[p] /\ (p \in Waiting' <=> p \in Waiting)
                /\ p \in Running' => p \in Running
           /\ \A labels \in SUBSET (Calls \cup Clears) : In(p, j, labels)' <=> In(p, j, labels)
<1>1. \A k \in Port : User.at \notin Calls \cup Clears
    BY DEF User, Calls, Clears, Resets
<1>2. In(p, j, Calls \cup Clears) => ~Concerns(p, i)
    BY <1>1 DEF In, Concerns
<1>3. In(p, j, Calls \cup Clears)' => ~Concerns(p, i)'
    BY <1>1 DEF In, Concerns
<1>4. \/ cont'[p] = cont[p] /\ (p \in Waiting' <=> p \in Waiting) /\ (p \in Running' => p \in Running)
      \/ Concerns(p, i) /\ Concerns(p, i)'
    BY DEF Local
<1>5. In(p, j, Calls \cup Clears)' \/ In(p, j, Calls \cup Clears) =>
                /\ cont'[p] = cont[p] /\ (p \in Waiting' <=> p \in Waiting)
                /\ p \in Running' => p \in Running
    BY <1>2, <1>3, <1>4, Zenon
<1>6. ASSUME NEW labels \in SUBSET (Calls \cup Clears)
      PROVE  In(p, j, labels)' <=> In(p, j, labels)
    BY <1>5 DEF In
<1> QED
    BY <1>5, <1>6

LEMMA OthersOwn ==
    ASSUME ProcsOK, ProcsOK', NEW i \in Port, Local(i), NEW j \in Port, j # i, NEW call \in Calls
    PROVE  Owns(j, call)' <=> Owns(j, call)
<1>1. \A p \in Pid : /\ In(p, j, Resets)' <=> In(p, j, Resets)
                     /\ In(p, j, {"ptdelete"})' <=> In(p, j, {"ptdelete"})
                     /\ In(p, j, Calls)' <=> In(p, j, Calls)
                     /\ In(p, j, Calls) => (p \in Waiting' <=> p \in Waiting)
    <2> TAKE p \in Pid
    <2>1. Resets \in SUBSET (Calls \cup Clears) /\ {"ptdelete"} \in SUBSET (Calls \cup Clears)
          /\ Calls \in SUBSET (Calls \cup Clears)
        BY DEF Clears
    <2>2. In(p, j, Calls) => In(p, j, Calls \cup Clears)
        BY DEF In
    <2> QED
        BY <2>1, <2>2, OthersApart
<1>2. ptstate'[j] = ptstate[j]
    BY DEF Local
<1> QED
    BY <1>1, <1>2 DEF Owns

LEMMA SemOfType ==
    ASSUME TypesOK, NEW i \in Port, NEW call
    PROVE  SemOf(i, call) \in Sem \cup {None}
BY DEF TypesOK, SemOf

(* A step that changes a semaphore of its own port changes none of the others. *)
LEMMA OwnSemaphore ==
    ASSUME TypesOK, OwnersOK, NEW i \in Port,
           \A s \in Sem : sem'[s] = sem[s] \/ \E call \in Calls : Owns(i, call) /\ SemOf(i, call) = s
    PROVE  \A j \in Port \ {i}, call \in Calls :
            Owns(j, call) /\ SemOf(j, call) # None => sem'[SemOf(j, call)] = sem[SemOf(j, call)]
<1> SUFFICES ASSUME NEW j \in Port, j # i, NEW call \in Calls, Owns(j, call), SemOf(j, call) # None
             PROVE  sem'[SemOf(j, call)] = sem[SemOf(j, call)]
    OBVIOUS
<1>1. SemOf(j, call) \in Sem
    BY SemOfType
<1>2. \A other \in Calls : Owns(i, other) => SemOf(i, other) # SemOf(j, call)
    BY DEF OwnersOK
<1> QED
    BY <1>1, <1>2

(* The other ports remain as they should be. *)
LEMMA OthersOK ==
    ASSUME TypesOK, ProcsOK, OwnersOK, ProcsOK', NEW i \in Port, Local(i),
           NEW j \in Port, j # i, PortOK(j)
    PROVE  PortOK(j)'
<1>1. /\ ptstate'[j] = ptstate[j] /\ ptseq'[j] = ptseq[j] /\ ptqueue'[j] = ptqueue[j]
      /\ ptssem'[j] = ptssem[j] /\ ptrsem'[j] = ptrsem[j] /\ ptmaxcnt'[j] = ptmaxcnt[j]
    BY DEF Local
<1>2. \A call : SemOf(j, call)' = SemOf(j, call) /\ SemOf(j, call) \in Sem \cup {None}
    BY <1>1, SemOfType DEF SemOf
<1>3. \A call \in Calls : Owns(j, call) /\ SemOf(j, call) # None =>
        sem'[SemOf(j, call)] = sem[SemOf(j, call)]
    BY DEF Local
<1>4. \A p \in Pid, labels \in SUBSET (Calls \cup Clears) : In(p, j, labels)' <=> In(p, j, labels)
    BY OthersApart
<1>5. \A p \in Pid : In(p, j, Calls \cup Clears) => cont'[p] = cont[p] /\ (p \in Waiting' <=> p \in Waiting)
    BY OthersApart
<1>6. \A call \in Calls : Owns(j, call)' <=> Owns(j, call)
    BY OthersOwn
<1>7. /\ Calls \in SUBSET (Calls \cup Clears) /\ Clears \in SUBSET (Calls \cup Clears)
      /\ \A call \in Calls : {call} \in SUBSET (Calls \cup Clears)
    OBVIOUS
<1>8. /\ \A p \in Pid : In(p, j, Calls)' <=> In(p, j, Calls)
      /\ \A p \in Pid : In(p, j, Clears)' <=> In(p, j, Clears)
      /\ \A p \in Pid, call \in Calls : In(p, j, {call})' <=> In(p, j, {call})
    BY <1>4, <1>7
<1>9. \A p \in Pid : In(p, j, Calls) \/ In(p, j, Clears) => In(p, j, Calls \cup Clears)
    BY DEF In
<1>10. QueuesOK(j)'
    <2> SUFFICES ASSUME NEW call \in Calls, Owns(j, call)', SemOf(j, call)' # None
                 PROVE  /\ sem'[SemOf(j, call)'].used
                        /\ \A p \in ToSet(sem'[SemOf(j, call)'].queue) : p \in Waiting' /\ In(p, j, {call})'
        BY DEF QueuesOK
    <2>1. Owns(j, call) /\ SemOf(j, call) # None /\ sem'[SemOf(j, call)'] = sem[SemOf(j, call)]
        BY <1>2, <1>3, <1>6
    <2>2. /\ sem[SemOf(j, call)].used
          /\ \A p \in ToSet(sem[SemOf(j, call)].queue) : p \in Waiting /\ In(p, j, {call})
        BY <2>1 DEF PortOK, QueuesOK
    <2>3. \A p \in Pid : In(p, j, {call}) => In(p, j, Calls)
        BY DEF In
    <2>4. \A p \in Waiting : p \in Pid
        BY DEF Waiting
    <2> QED
        BY <1>5, <1>8, <1>9, <2>1, <2>2, <2>3, <2>4
<1>11. WaitersOK(j)'
    <2> SUFFICES ASSUME NEW p \in Waiting', In(p, j, Calls)'
                 PROVE  /\ p \in Waiters(SemOf(j, cont[p].at))'
                        /\ \/ StillThere(cont[p])'
                           \/ ptstate'[j] = "LIMBO" /\ cont'[p].at = "ptrecv" /\ ptseq'[j] = cont'[p].seq + 1
        BY DEF WaitersOK, SemOf
    <2>1. p \in Pid
        BY DEF Waiting
    <2>2. cont'[p] = cont[p] /\ p \in Waiting /\ In(p, j, Calls) /\ cont[p].port = j /\ cont[p].at \in Calls
        BY <1>5, <1>8, <1>9, <2>1 DEF In
    <2>3. /\ p \in Waiters(SemOf(j, cont[p].at))
          /\ \/ StillThere(cont[p])
             \/ ptstate[j] = "LIMBO" /\ cont[p].at = "ptrecv" /\ ptseq[j] = cont[p].seq + 1
        BY <2>2 DEF PortOK, WaitersOK
    <2>4. StillThere(cont[p])' <=> StillThere(cont[p])
        BY <1>1, <2>2 DEF StillThere
    <2>5. Owns(j, cont[p].at)
        BY <2>1, <2>2, <2>3 DEF Owns, StillThere
    <2>6. SemOf(j, cont[p].at) # None
        BY <2>3 DEF Waiters
    <2>7. p \in Waiters(SemOf(j, cont[p].at))'
        BY <1>2, <1>3, <2>2, <2>3, <2>5, <2>6 DEF Waiters
    <2> QED
        BY <1>1, <2>2, <2>3, <2>4, <2>7
<1>12. ClearOK(j)'
    <2> SUFFICES ASSUME NEW p \in Pid, In(p, j, Clears)'
                 PROVE  /\ ptstate'[j] = "LIMBO"
                        /\ \A q \in Pid : In(q, j, Clears)' => q = p
                        /\ cont'[p].at \in Resets /\ ptssem'[j] # None => sem'[ptssem'[j]].count = ptmaxcnt'[j]
                        /\ cont'[p].at = "ptresetend" /\ ptrsem'[j] # None => sem'[ptrsem'[j]].count = 0
                        /\ cont'[p].at \in {"ptresetend", "ptdeleteend"} => \A q \in Waiting' : ~In(q, j, Calls)'
        BY DEF ClearOK
    <2>1. cont'[p] = cont[p] /\ In(p, j, Clears)
        BY <1>5, <1>8, <1>9
    <2>2. /\ ptstate[j] = "LIMBO"
          /\ \A q \in Pid : In(q, j, Clears) => q = p
          /\ cont[p].at \in Resets /\ ptssem[j] # None => sem[ptssem[j]].count = ptmaxcnt[j]
          /\ cont[p].at = "ptresetend" /\ ptrsem[j] # None => sem[ptrsem[j]].count = 0
          /\ cont[p].at \in {"ptresetend", "ptdeleteend"} => \A q \in Waiting : ~In(q, j, Calls)
        BY <2>1 DEF PortOK, ClearOK
    <2>3. cont[p].at \in Resets => Owns(j, "ptsend") /\ Owns(j, "ptrecv")
        BY <2>1, <2>2 DEF Owns, In
    <2>4. SemOf(j, "ptsend") = ptssem[j] /\ SemOf(j, "ptrecv") = ptrsem[j] /\ "ptsend" \in Calls /\ "ptrecv" \in Calls
        BY DEF SemOf, Calls
    <2>5. cont[p].at = "ptresetend" => cont[p].at \in Resets
        BY DEF Resets
    <2>6. \A q \in Waiting' : In(q, j, Calls)' => q \in Waiting /\ In(q, j, Calls)
        BY <1>5, <1>8, <1>9 DEF Waiting
    <2> QED
        BY <1>1, <1>3, <1>8, <2>1, <2>2, <2>3, <2>4, <2>5, <2>6
<1>13. SeqsOK(j)'
    BY <1>1, <1>5, <1>8, <1>9 DEF PortOK, SeqsOK
<1> QED
    BY <1>1, <1>10, <1>11, <1>12, <1>13 DEF PortOK

(* Ownership only gets lost. *)
LEMMA OwnersKept ==
    ASSUME ProcsOK, ProcsOK', OwnersOK, NEW i \in Port, Local(i),
           UNCHANGED <<ptssem, ptrsem>>,
           \A call \in Calls : Owns(i, call)' => Owns(i, call)
    PROVE  OwnersOK'
<1>1. \A j \in Port, call \in Calls : Owns(j, call)' => Owns(j, call)
    BY OthersOwn
<1>2. \A j \in Port : \A call : SemOf(j, call)' = SemOf(j, call)
    BY DEF SemOf
<1> QED
    BY <1>1, <1>2 DEF OwnersOK

(* What remains to be shown of such a step. *)
LEMMA LocalStep ==
    ASSUME PortsOK, NEW i \in Port, Local(i), TypesOK', ProcsOK', CountsOK', PortOK(i)',
           UNCHANGED <<ptssem, ptrsem>>,
           \A call \in Calls : Owns(i, call)' => Owns(i, call)
    PROVE  PortsOK'
<1>1. TypesOK /\ ProcsOK /\ OwnersOK /\ \A j \in Port : PortOK(j)
    BY DEF PortsOK
<1>2. OwnersOK'
    BY <1>1, OwnersKept
<1>3. \A j \in Port : PortOK(j)'
    BY <1>1, OthersOK
<1> QED
    BY <1>2, <1>3 DEF PortsOK
-----------------------------------------------------------------------------
LEMMA ContFacts ==
    ASSUME TypesOK, NEW p \in Pid, cont[p].at \in Calls \cup Clears
    PROVE  /\ cont[p] # User /\ cont[p].port \in Port /\ cont[p].seq \in Int
           /\ cont[p].at = "ptsend" => cont[p].msg \in Msg
           /\ cont[p] \in Pending
<1>1. cont[p] # User
    BY DEF User, Calls, Clears, Resets
<1>2. cont[p] \in Pending
    BY <1>1 DEF TypesOK, Conts
<1> QED
    BY <1>1, <1>2 DEF Pending

LEMMA UserNoCall == User.at \notin Calls \cup Clears
BY DEF User, Calls, Clears, Resets

(* The current process finishes call on an open port i: it has its unit, or takes
   one now, and gives one to those that wait in the other call. *)
Serve(i, call, other, tab) ==
    /\ \/ tab = sem
       \/ Available(SemOf(i, call)) /\ tab = Down(sem, SemOf(i, call), currpid)
    /\ sem' = Up(tab, SemOf(i, other)) /\ Resched(First(tab, SemOf(i, other))) /\ Return
    /\ UNCHANGED <<ptstate, ptssem, ptrsem, ptseq, ptmaxcnt, ptnextid>>

(* What it does: s is the semaphore of its call, t that of the other. *)
Served(i, other, s, t, tab) ==
    /\ sem' \in [Sem -> SemRec] /\ CountsOK'
    /\ \A u \in Sem : u # s /\ u # t => sem'[u] = sem[u]
    /\ s # None => /\ sem'[s].used = sem[s].used /\ sem'[s].queue = sem[s].queue
                   /\ \/ tab = sem /\ sem'[s].count = sem[s].count
                      \/ Available(s) /\ sem'[s].count = sem[s].count - 1
    /\ t # None => /\ sem'[t].used = sem[t].used /\ sem'[t].count = sem[t].count + 1
                   /\ ToSet(sem'[t].queue) = ToSet(sem[t].queue) \ First(sem, t)
    /\ \A p \in First(sem, t) : p \in Waiting /\ In(p, i, {other})
    /\ Moves(Waiting \ First(sem, t), Running \cup First(sem, t))

LEMMA ServeFacts ==
    ASSUME PortsOK, NEW i \in Port, ptstate[i] = "ALLOC", currpid \in Pid,
           NEW call \in Calls, NEW other \in Calls, other # call, NEW tab, Serve(i, call, other, tab)
    PROVE  Served(i, other, SemOf(i, call), SemOf(i, other), tab)
<1> SUFFICES ASSUME NEW s, s = SemOf(i, call), NEW t, t = SemOf(i, other)
             PROVE  Served(i, other, s, t, tab)
    OBVIOUS
<1>1. TypesOK /\ ProcsOK /\ CountsOK /\ OwnersOK /\ QueuesOK(i)
    BY DEF PortsOK, PortOK
<1>2. s \in Sem \cup {None} /\ t \in Sem \cup {None} /\ None \notin Sem
    BY <1>1, SemOfType, TaskAssumption
<1>3. Owns(i, call) /\ Owns(i, other)
    BY DEF Owns
<1>4. t # None => t # s
    BY <1>1, <1>3 DEF OwnersOK
<1>5. sem \in [Sem -> SemRec]
    BY <1>1 DEF TypesOK
<1>7. /\ tab \in [Sem -> SemRec] /\ \A u \in Sem : u # s => tab[u] = sem[u]
      /\ s # None => /\ tab[s].used = sem[s].used /\ tab[s].queue = sem[s].queue
                     /\ \/ tab = sem /\ tab[s].count = sem[s].count
                        \/ Available(s) /\ tab[s].count = sem[s].count - 1
    <2>1. CASE tab = sem
        BY <1>5, <2>1
    <2>2. CASE tab # sem
        <3>1. s \in Sem /\ sem[s].count > 0 /\ tab = Down(sem, s, currpid) /\ Available(s)
            BY <1>2, <2>2 DEF Serve, Available
        <3> QED
            BY <1>2, <1>5, <3>1, DownEntry
    <2> QED
        BY <2>1, <2>2
<1>8. First(tab, t) = First(sem, t)
    BY <1>2, <1>4, <1>7 DEF First
<1>9. \A u \in Sem : Balanced(tab[u])
    <2> TAKE u \in Sem
    <2>1. Balanced(sem[u]) /\ sem[u].count \in Int
        BY <1>1, <1>5 DEF CountsOK, SemRec
    <2>2. CASE u # s
        BY <1>7, <2>1, <2>2
    <2>3. CASE u = s
        <3>1. s # None
            BY <1>2, <2>3
        <3> QED
            BY <1>7, <2>1, <2>3, <3>1 DEF Balanced, Available
    <2> QED
        BY <2>2, <2>3
<1>10. CASE t = None
    <2>1. First(sem, t) = {} /\ sem' = tab
        BY <1>10 DEF First, Serve, Up
    <2>2. Moves(Waiting \ First(sem, t), Running \cup First(sem, t))
        BY <1>1, <1>8, <2>1, Processor, ReschedMoves DEF Serve
    <2>3. CountsOK'
        BY <1>9, <2>1 DEF CountsOK
    <2> QED
        BY <1>7, <1>10, <2>1, <2>2, <2>3 DEF Served
<1>11. CASE t # None
    <2> DEFINE W == First(sem, t)
    <2>1. t \in Sem /\ t # s /\ tab[t] = sem[t] /\ Balanced(sem[t]) /\ sem[t] \in SemRec
        BY <1>1, <1>2, <1>4, <1>5, <1>7, <1>11 DEF CountsOK
    <2>2. sem[t].count \in Int /\ sem[t].queue \in Seq(Pid) /\ IsInjective(sem[t].queue)
        BY <2>1 DEF SemRec, Balanced
    <2>3. sem[t].count < 0 => sem[t].queue # <<>> /\ Len(sem[t].queue) + sem[t].count = 0
        BY <2>1, <2>2 DEF Balanced
    <2>4. /\ sem' \in [Sem -> SemRec] /\ \A u \in Sem \ {t} : sem'[u] = tab[u]
          /\ sem'[t].used = sem[t].used /\ sem'[t].count = sem[t].count + 1
          /\ sem'[t].queue = IF sem[t].count < 0 THEN Tail(sem[t].queue) ELSE sem[t].queue
        BY <1>7, <2>1, <2>3, UpEntry DEF Serve
    <2>5. W = IF sem[t].count < 0 THEN {Head(sem[t].queue)} ELSE {}
        BY <1>11 DEF First
    <2>6. /\ Balanced(sem'[t]) /\ ToSet(sem'[t].queue) = ToSet(sem[t].queue) \ W
          /\ W \subseteq ToSet(sem[t].queue)
        <3>1. Balanced(tab[t]) /\ sem' = Up(tab, t)
            BY <2>1 DEF Serve
        <3>2. /\ Balanced(Up(tab, t)[t]) /\ First(tab, t) \subseteq ToSet(tab[t].queue)
              /\ ToSet(Up(tab, t)[t].queue) = ToSet(tab[t].queue) \ First(tab, t)
            BY ONLY <1>7, <2>1, <3>1, UpBalanced
        <3> QED
            BY <1>8, <2>1, <3>1, <3>2
    <2>7. \A p \in W : p \in Waiting /\ In(p, i, {other})
        BY <1>1, <1>3, <1>11, <2>6 DEF QueuesOK
    <2>8. W \subseteq Waiting /\ Resched(W)
        BY <1>8, <2>7 DEF Serve
    <2>9. Moves(Waiting \ W, Running \cup W)
        BY <1>1, <2>8, Processor, ReschedMoves
    <2>10. CountsOK'
        BY <1>9, <2>4, <2>6 DEF CountsOK
    <2>11. s # None => s \in Sem \ {t}
        BY <1>2, <2>1
    <2> HIDE DEF W
    <2> QED
        BY <1>7, <2>4, <2>6, <2>7, <2>9, <2>10, <2>11 DEF W, Served
<1> QED
    BY <1>10, <1>11
LEMMA ServeOK ==
    ASSUME PortsOK, NEW i \in Port, ptstate[i] = "ALLOC", currpid \in Pid, Concerns(currpid, i),
           NEW call \in Calls, NEW other \in Calls, other # call, NEW tab, Serve(i, call, other, tab),
           ptqueue' \in [Port -> Seq(Msg)], \A j \in Port \ {i} : ptqueue'[j] = ptqueue[j],
           ptfree' \in Nat
    PROVE  PortsOK' /\ Local(i)
<1> DEFINE s == SemOf(i, call)
           t == SemOf(i, other)
           W == First(sem, t)
<1>1. /\ TypesOK /\ ProcsOK /\ OwnersOK /\ PortOK(i) /\ cont \in [Pid -> Conts]
      /\ Owns(i, call) /\ Owns(i, other)
    BY DEF PortsOK, TypesOK, Owns
<1>2. /\ sem' \in [Sem -> SemRec] /\ CountsOK'
      /\ \A u \in Sem : u # s /\ u # t => sem'[u] = sem[u]
      /\ s # None => sem'[s].used = sem[s].used /\ sem'[s].queue = sem[s].queue
      /\ t # None => sem'[t].used = sem[t].used /\ ToSet(sem'[t].queue) = ToSet(sem[t].queue) \ W
      /\ \A p \in W : p \in Waiting /\ In(p, i, {other})
      /\ Moves(Waiting \ W, Running \cup W)
    BY ServeFacts DEF Served
<1>3. s \in Sem \cup {None} /\ t \in Sem \cup {None} /\ None \notin Sem
    BY <1>1, SemOfType, TaskAssumption
<1> HIDE DEF W
<1>4. \A p \in Pid : cont'[p] = IF p = currpid THEN User ELSE cont[p]
    BY <1>1 DEF Serve, Return, Goto
<1>5. cont' \in [Pid -> Conts]
    BY <1>1 DEF Serve, Return, Goto, Conts
<1>6. Waiting' = Waiting \ W /\ Running' = Running \cup W
    BY <1>2 DEF Moves
<1>7. currpid \notin Waiting
    BY <1>1, Processor, CurrentRuns
<1>8. /\ UNCHANGED <<ptstate, ptssem, ptrsem, ptseq, ptmaxcnt, ptnextid>>
      /\ \A c : SemOf(i, c)' = SemOf(i, c)
    BY DEF Serve, SemOf
<1>9. TypesOK'
    BY <1>1, <1>2, <1>5, <1>8 DEF TypesOK, Moves
<1>10. ProcsOK'
    <2>1. \A p \in Pid : prstate'[p] = "WAIT" => cont'[p].at \in Calls
        <3> SUFFICES ASSUME NEW p \in Pid, prstate'[p] = "WAIT" PROVE cont'[p].at \in Calls
            OBVIOUS
        <3>1. p \in Waiting /\ cont'[p] = cont[p]
            BY <1>4, <1>6, <1>7 DEF Waiting
        <3> QED
            BY <1>1, <3>1 DEF ProcsOK, Waiting
    <2> QED
        BY <1>2, <2>1 DEF ProcsOK, Moves
<1>11. Local(i)
    <2>1. \A u \in Sem : sem'[u] = sem[u] \/ \E c \in Calls : Owns(i, c) /\ SemOf(i, c) = u
        BY <1>1, <1>2
    <2>3. \A j \in Port \ {i}, c \in Calls :
            Owns(j, c) /\ SemOf(j, c) # None => sem'[SemOf(j, c)] = sem[SemOf(j, c)]
        BY <1>1, <2>1, OwnSemaphore
    <2>2. ASSUME NEW p \in Pid
          PROVE  \/ /\ cont'[p] = cont[p] /\ (p \in Waiting' <=> p \in Waiting)
                    /\ p \in Running' => p \in Running
                 \/ Concerns(p, i) /\ Concerns(p, i)'
        <3>1. CASE p = currpid
            BY <1>4, <3>1 DEF Concerns
        <3>2. CASE p # currpid /\ p \in W
            <4>1. In(p, i, Calls \cup Clears) /\ cont'[p] = cont[p]
                BY <1>2, <1>4, <3>2 DEF In
            <4> QED
                BY <4>1 DEF Concerns, In
        <3>3. CASE p # currpid /\ p \notin W
            BY <1>4, <1>6, <3>3
        <3> QED
            BY <3>1, <3>2, <3>3
    <2> QED
        BY <1>8, <2>2, <2>3 DEF Local
<1>12. \A c \in Calls : Owns(i, c)
    BY DEF Owns
<1>13. OwnersOK'
    BY <1>1, <1>10, <1>11, <1>12, <1>8, OwnersKept
<1>14. \A p \in Pid : p \in Waiting' => cont'[p] = cont[p] /\ p \in Waiting /\ p \notin W
    BY <1>4, <1>6, <1>7
<1>15. Calls = {call, other}
    BY DEF Calls
<1>16. QueuesOK(i)'
    <2> SUFFICES ASSUME NEW c \in Calls, SemOf(i, c) # None
                 PROVE  /\ sem'[SemOf(i, c)].used
                        /\ \A p \in ToSet(sem'[SemOf(i, c)].queue) : p \in Waiting' /\ In(p, i, {c})'
        BY <1>8 DEF QueuesOK
    <2>1. /\ sem[SemOf(i, c)].used
          /\ \A p \in ToSet(sem[SemOf(i, c)].queue) : p \in Waiting /\ In(p, i, {c})
        BY <1>1, <1>12 DEF PortOK, QueuesOK
    <2>2. sem'[SemOf(i, c)].used = sem[SemOf(i, c)].used
        BY <1>2, <1>15
    <2>3. \A p \in ToSet(sem'[SemOf(i, c)].queue) : p \in Waiting' /\ In(p, i, {c})
        <3>1. CASE c = call
            BY <1>2, <1>6, <2>1, <3>1 DEF In
        <3>2. CASE c = other
            BY <1>2, <1>6, <2>1, <3>2
        <3> QED
            BY <1>15, <3>1, <3>2
    <2>4. \A p \in ToSet(sem'[SemOf(i, c)].queue) : In(p, i, {c})'
        BY <1>6, <1>14, <2>3 DEF In, Waiting
    <2> QED
        BY <2>1, <2>2, <2>3, <2>4
<1>17. WaitersOK(i)'
    <2> SUFFICES ASSUME NEW p \in Pid, p \in Waiting', In(p, i, Calls)'
                 PROVE  p \in Waiters(SemOf(i, cont[p].at))' /\ StillThere(cont[p])'
        BY <1>14, <1>8 DEF WaitersOK, SemOf, StillThere, Waiting
    <2>1. cont'[p] = cont[p] /\ p \in Waiting /\ p \notin W /\ In(p, i, Calls) /\ cont[p].at \in Calls /\ cont[p].port = i
        BY <1>14 DEF In
    <2>2. p \in Waiters(SemOf(i, cont[p].at)) /\ StillThere(cont[p])
        BY <1>1, <2>1 DEF PortOK, WaitersOK
    <2>3. StillThere(cont[p])'
        BY <1>8, <2>1, <2>2 DEF StillThere
    <2>4. SemOf(i, cont[p].at) # None /\ p \in ToSet(sem[SemOf(i, cont[p].at)].queue)
        BY <2>2 DEF Waiters
    <2>5. p \in ToSet(sem'[SemOf(i, cont[p].at)].queue)
        BY <1>2, <1>15, <2>1, <2>4
    <2>6. SemOf(i, cont[p].at)' = SemOf(i, cont[p].at)
        BY <1>8, <2>1 DEF SemOf
    <2> QED
        BY <2>3, <2>4, <2>5, <2>6 DEF Waiters
<1>18. ClearOK(i)'
    <2>1. \A p \in Pid : ~In(p, i, Clears)
        BY <1>1 DEF PortOK, ClearOK
    <2>2. \A p \in Pid : ~In(p, i, Clears)'
        BY <1>4, <2>1, UserNoCall DEF In
    <2> QED
        BY <2>2 DEF ClearOK
<1>19. SeqsOK(i)'
    <2>1. \A p \in Pid : In(p, i, Calls)' => cont'[p] = cont[p] /\ In(p, i, Calls)
        BY <1>4, UserNoCall DEF In
    <2> QED
        BY <1>1, <1>8, <2>1 DEF PortOK, SeqsOK
<1>20. PortOK(i)'
    BY <1>8, <1>16, <1>17, <1>18, <1>19 DEF PortOK
<1>21. \A j \in Port : PortOK(j)'
    BY <1>1, <1>10, <1>11, <1>20, OthersOK DEF PortsOK
<1> QED
    BY <1>2, <1>9, <1>10, <1>11, <1>13, <1>21 DEF PortsOK
(* The current process begins to wait. *)
LEMMA WaitKeeps ==
    ASSUME PortsOK, NEW i \in Port, ptstate[i] = "ALLOC", InUser, currpid \in Pid,
           NEW call \in Calls, NEW msg \in Msg \cup {None}, call = "ptsend" => msg \in Msg,
           PtWait(SemOf(i, call), Doing(call, i, msg))
    PROVE  PortsOK' /\ Local(i)
<1> SUFFICES ASSUME NEW s, s = SemOf(i, call) PROVE PortsOK' /\ Local(i)
    OBVIOUS
<1> DEFINE c == Doing(call, i, msg)
<1>1. /\ TypesOK /\ ProcsOK /\ CountsOK /\ OwnersOK /\ PortOK(i) /\ cont \in [Pid -> Conts]
      /\ sem \in [Sem -> SemRec] /\ ptseq[i] \in Int
      /\ \A any \in Calls : Owns(i, any)
    BY DEF PortsOK, TypesOK, Owns
<1>2. s \in Sem /\ s # None /\ sem[s].count <= 0 /\ sem' = Down(sem, s, currpid)
    BY <1>1, SemOfType DEF PtWait, WaitOn
<1>3. /\ c.at = call /\ c.port = i /\ c.seq = ptseq[i] /\ c # User
      /\ c \in Pending
    BY <1>1 DEF Doing, User, Calls, Pending
<1>4. /\ Dispatch([prstate EXCEPT ![currpid] = "WAIT"]) /\ Goto(c)
      /\ UNCHANGED <<portVars, ptfree>> /\ cont[currpid] = User
    BY DEF PtWait, WaitOn, InUser
<1> HIDE DEF c
<1>5. Moves(Waiting \cup {currpid}, Running \ {currpid})
    <2>1. "WAIT" \in {"WAIT", "FREE"}
        OBVIOUS
    <2> QED
        BY <1>1, <1>4, <2>1, Processor, LeaveMoves
<1>6. currpid \notin Waiting
    BY <1>1, Processor, CurrentRuns
<1>7. /\ sem[s].used /\ \A p \in ToSet(sem[s].queue) : p \in Waiting /\ In(p, i, {call})
      /\ Balanced(sem[s]) /\ sem[s] \in SemRec
    BY <1>1, <1>2 DEF PortOK, QueuesOK, CountsOK
<1>8. sem[s].count \in Int /\ currpid \notin ToSet(sem[s].queue)
    BY <1>6, <1>7 DEF SemRec
<1>10. /\ sem' \in [Sem -> SemRec] /\ \A t \in Sem \ {s} : sem'[t] = sem[t]
       /\ sem'[s].used = sem[s].used /\ sem'[s].count = sem[s].count - 1
       /\ sem'[s].queue = Append(sem[s].queue, currpid)
    <2>1. ~(sem[s].count > 0)
        BY <1>2, <1>8
    <2>2. /\ Down(sem, s, currpid) \in [Sem -> SemRec]
          /\ \A t \in Sem \ {s} : Down(sem, s, currpid)[t] = sem[t]
          /\ Down(sem, s, currpid)[s].used = sem[s].used
          /\ Down(sem, s, currpid)[s].count = sem[s].count - 1
          /\ Down(sem, s, currpid)[s].queue =
                IF sem[s].count > 0 THEN sem[s].queue ELSE Append(sem[s].queue, currpid)
        BY <1>1, <1>2, DownEntry
    <2> QED
        BY <1>2, <2>1, <2>2
<1>11. Balanced(sem'[s]) /\ ToSet(sem'[s].queue) = ToSet(sem[s].queue) \cup {currpid}
    <2>1. ~(sem[s].count > 0)
        BY <1>2, <1>8
    <2>2. /\ Balanced(Down(sem, s, currpid)[s])
          /\ ToSet(Down(sem, s, currpid)[s].queue) =
                IF sem[s].count > 0 THEN ToSet(sem[s].queue) ELSE ToSet(sem[s].queue) \cup {currpid}
        BY <1>1, <1>2, <1>7, <1>8, DownBalanced
    <2> QED
        BY <1>2, <2>1, <2>2
<1>13. CountsOK'
    BY <1>1, <1>10, <1>11 DEF CountsOK
<1>14. \A p \in Pid : cont'[p] = IF p = currpid THEN c ELSE cont[p]
    BY <1>1, <1>4 DEF Goto
<1>15. cont' \in [Pid -> Conts]
    BY <1>1, <1>3, <1>4 DEF Goto, Conts
<1>16. Waiting' = Waiting \cup {currpid} /\ Running' = Running \ {currpid}
    BY <1>5 DEF Moves
<1>17. /\ UNCHANGED <<ptstate, ptssem, ptrsem, ptqueue, ptseq, ptmaxcnt, ptnextid, ptfree>>
       /\ \A any : SemOf(i, any)' = SemOf(i, any)
    BY <1>4 DEF portVars, SemOf
<1>18. TypesOK'
    BY <1>1, <1>5, <1>10, <1>15, <1>17 DEF TypesOK, Moves
<1>19. ProcsOK'
    <2>1. \A p \in Pid : prstate'[p] = "WAIT" => cont'[p].at \in Calls
        <3> SUFFICES ASSUME NEW p \in Pid, prstate'[p] = "WAIT" PROVE cont'[p].at \in Calls
            OBVIOUS
        <3>1. CASE p = currpid
            BY <1>3, <1>14, <3>1
        <3>2. CASE p # currpid
            <4>1. p \in Waiting
                BY <1>16, <3>2 DEF Waiting
            <4> QED
                BY <1>1, <1>14, <3>2, <4>1 DEF ProcsOK, Waiting
        <3> QED
            BY <3>1, <3>2
    <2> QED
        BY <1>5, <2>1 DEF ProcsOK, Moves
<1>20. Local(i)
    <2>1. \A u \in Sem : sem'[u] = sem[u] \/ \E any \in Calls : Owns(i, any) /\ SemOf(i, any) = u
        BY <1>1, <1>10
    <2>3. \A j \in Port \ {i}, any \in Calls :
            Owns(j, any) /\ SemOf(j, any) # None => sem'[SemOf(j, any)] = sem[SemOf(j, any)]
        BY <1>1, <2>1, OwnSemaphore
    <2>2. ASSUME NEW p \in Pid
          PROVE  \/ /\ cont'[p] = cont[p] /\ (p \in Waiting' <=> p \in Waiting)
                    /\ p \in Running' => p \in Running
                 \/ Concerns(p, i) /\ Concerns(p, i)'
        <3>1. CASE p = currpid
            BY <1>3, <1>4, <1>14, <3>1 DEF Concerns, In
        <3>2. CASE p # currpid
            BY <1>14, <1>16, <3>2
        <3> QED
            BY <3>1, <3>2
    <2> QED
        BY <1>17, <2>2, <2>3 DEF Local
<1>21. OwnersOK'
    BY <1>1, <1>19, <1>20, <1>17, OwnersKept
<1>22. \A p \in Pid : p # currpid => cont'[p] = cont[p] /\ (p \in Waiting' <=> p \in Waiting)
    BY <1>14, <1>16
<1>23. QueuesOK(i)'
    <2> SUFFICES ASSUME NEW any \in Calls, SemOf(i, any) # None
                 PROVE  /\ sem'[SemOf(i, any)].used
                        /\ \A p \in ToSet(sem'[SemOf(i, any)].queue) : p \in Waiting' /\ In(p, i, {any})'
        BY <1>17 DEF QueuesOK
    <2>1. /\ sem[SemOf(i, any)].used
          /\ \A p \in ToSet(sem[SemOf(i, any)].queue) : p \in Waiting /\ In(p, i, {any})
        BY <1>1 DEF PortOK, QueuesOK
    <2>2. \A p \in Waiting : p \in Pid /\ p # currpid /\ p \in Waiting' /\ cont'[p] = cont[p]
        BY <1>6, <1>16, <1>22 DEF Waiting
    <2>3. CASE any = call
        <3>1. SemOf(i, any) = s
            BY <2>3
        <3>2. \A p \in Pid : p = currpid => p \in Waiting' /\ In(p, i, {any})'
            BY <1>3, <1>14, <1>16, <2>3 DEF In
        <3>3. \A p \in Waiting : In(p, i, {any}) => p \in Waiting' /\ In(p, i, {any})'
            BY <2>2 DEF In
        <3> QED
            BY <1>10, <1>11, <2>1, <3>1, <3>2, <3>3
    <2>4. CASE any # call
        <3>1. SemOf(i, any) # s /\ SemOf(i, any) \in Sem
            BY <1>1, <2>4, SemOfType DEF OwnersOK
        <3>2. sem'[SemOf(i, any)] = sem[SemOf(i, any)]
            BY <1>10, <3>1
        <3> QED
            BY <2>1, <2>2, <3>2 DEF In
    <2> QED
        BY <2>3, <2>4
<1>24. WaitersOK(i)'
    <2> SUFFICES ASSUME NEW p \in Pid, p \in Waiting', In(p, i, Calls)'
                 PROVE  p \in Waiters(SemOf(i, cont[p].at))' /\ StillThere(cont[p])'
        BY DEF WaitersOK, SemOf, StillThere, Waiting
    <2>1. CASE p = currpid
        <3>1. cont'[p] = c
            BY <1>14, <2>1
        <3>2. StillThere(cont[p])'
            BY <1>3, <1>17, <3>1 DEF StillThere
        <3>3. SemOf(i, cont[p].at)' = s
            BY <1>3, <1>17, <3>1 DEF SemOf
        <3> QED
            BY <1>2, <1>11, <2>1, <3>2, <3>3 DEF Waiters
    <2>2. CASE p # currpid
        <3>1. cont'[p] = cont[p] /\ p \in Waiting /\ In(p, i, Calls) /\ cont[p].at \in Calls /\ cont[p].port = i
            BY <1>22, <2>2 DEF In
        <3>2. p \in Waiters(SemOf(i, cont[p].at)) /\ StillThere(cont[p])
            BY <1>1, <3>1 DEF PortOK, WaitersOK
        <3>3. StillThere(cont[p])'
            BY <1>17, <3>1, <3>2 DEF StillThere
        <3>4. SemOf(i, cont[p].at) # None /\ p \in ToSet(sem[SemOf(i, cont[p].at)].queue)
            BY <3>2 DEF Waiters
        <3>5. SemOf(i, cont[p].at) \in Sem
            BY <1>1, <3>4, SemOfType
        <3>6. p \in ToSet(sem'[SemOf(i, cont[p].at)].queue)
            BY <1>10, <1>11, <3>4, <3>5
        <3>7. SemOf(i, cont[p].at)' = SemOf(i, cont[p].at)
            BY <1>17, <3>1 DEF SemOf
        <3> QED
            BY <3>3, <3>4, <3>6, <3>7 DEF Waiters
    <2> QED
        BY <2>1, <2>2
<1>25. ClearOK(i)'
    <2>1. \A p \in Pid : ~In(p, i, Clears)
        BY <1>1 DEF PortOK, ClearOK
    <2>2. c.at \notin Clears
        BY <1>3 DEF Calls, Clears, Resets
    <2>3. \A p \in Pid : ~In(p, i, Clears)'
        BY <1>14, <2>1, <2>2 DEF In
    <2> QED
        BY <2>3 DEF ClearOK
<1>26. SeqsOK(i)'
    <2> SUFFICES ASSUME NEW p \in Pid, In(p, i, Calls)'
                 PROVE  cont'[p].seq <= ptseq[i] /\ ptstate[i] # "LIMBO"
        BY <1>17 DEF SeqsOK
    <2>1. CASE p = currpid
        BY <1>1, <1>3, <1>14, <2>1
    <2>2. CASE p # currpid
        BY <1>1, <1>22, <2>2 DEF PortOK, SeqsOK, In
    <2> QED
        BY <2>1, <2>2
<1>27. PortOK(i)'
    BY <1>17, <1>23, <1>24, <1>25, <1>26 DEF PortOK
<1>28. \A j \in Port : PortOK(j)'
    BY <1>1, <1>19, <1>20, <1>27, OthersOK DEF PortsOK
<1> QED
    BY <1>13, <1>18, <1>19, <1>20, <1>21, <1>28 DEF PortsOK
-----------------------------------------------------------------------------
(* What a call on an open port may still take: the units of its semaphore and
   those that went to a process which has not run since. *)
Claims(i, call) == Units(SemOf(i, call)) + Cardinality(Granted(i, call))

UnitsOK(i) ==
    ptstate[i] = "ALLOC" =>
        /\ Claims(i, "ptsend") + Len(ptqueue[i]) <= ptmaxcnt[i]
        /\ Claims(i, "ptrecv") <= Len(ptqueue[i])

LEMMA PidSets ==
    ASSUME NEW G \in SUBSET Pid, NEW H \in SUBSET Pid
    PROVE  /\ Cardinality(G) \in Nat /\ Cardinality(H) \in Nat
           /\ G \subseteq H => Cardinality(G) <= Cardinality(H)
           /\ \A x \in H : G \subseteq H \ {x} => Cardinality(G) <= Cardinality(H) - 1
           /\ \A x : G \subseteq H \cup {x} => Cardinality(G) <= Cardinality(H) + 1
BY PortAssumption, SubsetSizes

LEMMA UnitsType ==
    ASSUME NEW tab \in [Sem -> SemRec], NEW s \in Sem \cup {None}
    PROVE  (IF s # None /\ tab[s].count > 0 THEN tab[s].count ELSE 0) \in Nat
BY DEF SemRec

LEMMA ClaimsType ==
    ASSUME TypesOK, TypesOK', NEW i \in Port, NEW call
    PROVE  /\ Units(SemOf(i, call)) \in Nat /\ Units(SemOf(i, call))' \in Nat
           /\ Claims(i, call) \in Nat /\ Claims(i, call)' \in Nat
<1>1. /\ SemOf(i, call) \in Sem \cup {None} /\ SemOf(i, call)' \in Sem \cup {None}
      /\ sem \in [Sem -> SemRec] /\ sem' \in [Sem -> SemRec]
    BY DEF TypesOK, SemOf
<1>2. Units(SemOf(i, call)) \in Nat
    BY <1>1, UnitsType DEF Units
<1>3. Units(SemOf(i, call))' \in Nat
    BY <1>1, UnitsType DEF Units
<1>4. Granted(i, call) \in SUBSET Pid /\ Granted(i, call)' \in SUBSET Pid
    BY DEF Granted
<1>5. Cardinality(Granted(i, call)) \in Nat /\ Cardinality(Granted(i, call)') \in Nat
    BY <1>4, PidSets
<1> QED
    BY <1>2, <1>3, <1>5 DEF Claims

(* A port keeps its promises where nobody is given more than he had. *)
LEMMA UnitsKept ==
    ASSUME TypesOK, TypesOK', NEW i \in Port, UnitsOK(i),
           ptstate'[i] = "ALLOC" => ptstate[i] = "ALLOC",
           ptqueue'[i] = ptqueue[i], ptmaxcnt'[i] = ptmaxcnt[i],
           ptstate[i] = "ALLOC" => \A call \in Calls :
              /\ Granted(i, call)' \subseteq Granted(i, call)
              /\ Units(SemOf(i, call))' <= Units(SemOf(i, call))
    PROVE  UnitsOK(i)'
<1> SUFFICES ASSUME ptstate[i] = "ALLOC"
             PROVE  /\ Claims(i, "ptsend")' + Len(ptqueue[i]) <= ptmaxcnt[i]
                    /\ Claims(i, "ptrecv")' <= Len(ptqueue[i])
    BY DEF UnitsOK
<1>1. ASSUME NEW call \in Calls PROVE Claims(i, call)' <= Claims(i, call)
    <2>1. Granted(i, call) \in SUBSET Pid /\ Granted(i, call)' \in SUBSET Pid
        BY DEF Granted
    <2>2. Cardinality(Granted(i, call)') <= Cardinality(Granted(i, call))
          /\ Cardinality(Granted(i, call)') \in Nat /\ Cardinality(Granted(i, call)) \in Nat
        BY <2>1, PidSets
    <2>3. Units(SemOf(i, call)) \in Nat /\ Units(SemOf(i, call))' \in Nat
        BY ClaimsType
    <2> QED
        BY <2>2, <2>3 DEF Claims
<1>2. Claims(i, "ptsend")' <= Claims(i, "ptsend") /\ Claims(i, "ptrecv")' <= Claims(i, "ptrecv")
    BY <1>1 DEF Calls
<1>3. /\ Claims(i, "ptsend") \in Nat /\ Claims(i, "ptsend")' \in Nat
      /\ Claims(i, "ptrecv") \in Nat /\ Claims(i, "ptrecv")' \in Nat
    BY ClaimsType
<1>4. Len(ptqueue[i]) \in Nat /\ ptmaxcnt[i] \in Nat
    BY DEF TypesOK
<1> QED
    BY <1>2, <1>3, <1>4 DEF UnitsOK

LEMMA OthersUnits ==
    ASSUME PortsOK, TypesOK', ProcsOK', NEW i \in Port, Local(i), NEW j \in Port, j # i, UnitsOK(j)
    PROVE  UnitsOK(j)'
<1>1. TypesOK /\ ProcsOK /\ OwnersOK
    BY DEF PortsOK
<1>2. /\ ptstate'[j] = ptstate[j] /\ ptqueue'[j] = ptqueue[j] /\ ptmaxcnt'[j] = ptmaxcnt[j]
      /\ ptseq'[j] = ptseq[j]
      /\ \A call : SemOf(j, call)' = SemOf(j, call)
    BY DEF Local, SemOf
<1>3. ASSUME ptstate[j] = "ALLOC", NEW call \in Calls
      PROVE  Granted(j, call)' \subseteq Granted(j, call)
    <2> SUFFICES ASSUME NEW p \in Pid, p \in Granted(j, call)' PROVE p \in Granted(j, call)
        BY DEF Granted
    <2>1. cont'[p].at = call /\ cont'[p].port = j /\ cont'[p].seq = ptseq'[j] /\ p \in Running'
        BY DEF Granted, Running
    <2>2. In(p, j, Calls \cup Clears)'
        BY <1>3, <2>1 DEF In
    <2>3. cont'[p] = cont[p] /\ p \in Running
        BY <1>1, <2>1, <2>2, OthersApart
    <2> QED
        BY <1>2, <2>1, <2>3 DEF Granted, Running
<1>4. ASSUME ptstate[j] = "ALLOC", NEW call \in Calls
      PROVE  Units(SemOf(j, call))' = Units(SemOf(j, call))
    <2>1. SemOf(j, call) # None => sem'[SemOf(j, call)] = sem[SemOf(j, call)]
        BY <1>4 DEF Local, Owns
    <2> QED
        BY <1>2, <2>1 DEF Units
<1>5. \A call \in Calls : Units(SemOf(j, call)) \in Nat
    BY <1>1, ClaimsType
<1>6. ptstate[j] = "ALLOC" => \A call \in Calls :
         /\ Granted(j, call)' \subseteq Granted(j, call)
         /\ Units(SemOf(j, call))' <= Units(SemOf(j, call))
    BY <1>3, <1>4, <1>5
<1> QED
    BY <1>1, <1>2, <1>6, UnitsKept

(* A call that is finished has used what it had, and gives one unit to the other. *)
LEMMA ServeUnits ==
    ASSUME PortsOK, TypesOK', NEW i \in Port, ptstate[i] = "ALLOC", currpid \in Pid,
           NEW call \in Calls, NEW other \in Calls, other # call, NEW tab, Serve(i, call, other, tab),
           tab = sem => currpid \in Granted(i, call)
    PROVE  /\ Claims(i, call)' <= Claims(i, call) - 1
           /\ Claims(i, other)' <= Claims(i, other) + 1
<1>1. TypesOK /\ ProcsOK /\ CountsOK
    BY DEF PortsOK
<1> SUFFICES ASSUME NEW s, s = SemOf(i, call), NEW t, t = SemOf(i, other)
             PROVE  /\ Claims(i, call)' <= Claims(i, call) - 1
                    /\ Claims(i, other)' <= Claims(i, other) + 1
    OBVIOUS
<1>2. Served(i, other, s, t, tab)
    BY ServeFacts
<1>3. s \in Sem \cup {None} /\ t \in Sem \cup {None} /\ None \notin Sem
    BY <1>1, SemOfType, TaskAssumption
<1>4. /\ SemOf(i, call)' = s /\ SemOf(i, other)' = t /\ ptseq' = ptseq
      /\ \A p \in Pid : cont'[p] = IF p = currpid THEN User ELSE cont[p]
    BY <1>1 DEF Serve, SemOf, Return, Goto, TypesOK
<1> DEFINE W == First(sem, t)
           G(c) == Granted(i, c)
<1>5. Running' = Running \cup W /\ \A p \in W : p \in Waiting /\ In(p, i, {other})
    BY <1>2 DEF Served, Moves
<1>6. \A c \in Calls : \A p \in G(c)' :
        p \in Pid /\ p # currpid /\ cont[p].at = c /\ cont[p].port = i /\ cont[p].seq = ptseq[i]
        /\ p \in Running \cup W
    BY <1>4, <1>5, UserNoCall DEF Granted, Running
<1>7. G(call)' \subseteq G(call) \ {currpid}
    BY <1>5, <1>6 DEF Granted, Running, In
<1>8. G(other)' \subseteq G(other) \cup W
    BY <1>6 DEF Granted, Running
<1>9. \A c : G(c) \in SUBSET Pid /\ G(c)' \in SUBSET Pid
    BY DEF Granted
<1> HIDE DEF G
<1>10. /\ Cardinality(G(call)) \in Nat /\ Cardinality(G(call)') \in Nat
       /\ Cardinality(G(call)') <= Cardinality(G(call))
       /\ currpid \in G(call) => Cardinality(G(call)') <= Cardinality(G(call)) - 1
    BY <1>7, <1>9, PidSets
<1>11. /\ Cardinality(G(other)) \in Nat /\ Cardinality(G(other)') \in Nat
       /\ W = {} => Cardinality(G(other)') <= Cardinality(G(other))
       /\ \A x : W = {x} => Cardinality(G(other)') <= Cardinality(G(other)) + 1
    BY <1>8, <1>9, PidSets
<1>12. /\ Claims(i, call) = Units(s) + Cardinality(G(call))
       /\ Claims(i, call)' = Units(s)' + Cardinality(G(call)')
       /\ Claims(i, other) = Units(t) + Cardinality(G(other))
       /\ Claims(i, other)' = Units(t)' + Cardinality(G(other)')
    BY <1>4 DEF Claims, Units, G
<1>13. /\ s # None => sem[s].count \in Int
       /\ t # None => sem[t].count \in Int
    BY <1>1, <1>3 DEF TypesOK, SemRec
<1>14. Claims(i, call)' <= Claims(i, call) - 1
    <2>1. CASE tab = sem
        <3>1. currpid \in G(call)
            BY <2>1 DEF G
        <3>2. Units(s)' <= Units(s) /\ Units(s) \in Nat /\ Units(s)' \in Nat
            BY <1>2, <1>13, <2>1 DEF Served, Units, Available
        <3> QED
            BY <1>10, <1>12, <3>1, <3>2
    <2>2. CASE tab # sem
        <3>1. s # None /\ sem[s].count > 0 /\ sem'[s].count = sem[s].count - 1
            BY <1>2, <2>2 DEF Served, Available, Serve
        <3>2. Units(s) = sem[s].count /\ Units(s)' = sem[s].count - 1
            BY <1>13, <3>1 DEF Units
        <3> QED
            BY <1>10, <1>12, <1>13, <3>1, <3>2
    <2> QED
        BY <2>1, <2>2
<1>15. Claims(i, other)' <= Claims(i, other) + 1
    <2>1. CASE t = None
        <3>1. W = {} /\ Units(t) = 0 /\ Units(t)' = 0
            BY <2>1 DEF First, Units
        <3> QED
            BY <1>11, <1>12, <3>1
    <2>2. CASE t # None /\ sem[t].count < 0
        <3>1. W = {Head(sem[t].queue)} /\ sem'[t].count = sem[t].count + 1
            BY <1>2, <2>2 DEF First, Served
        <3>2. Units(t) = 0 /\ Units(t)' = 0
            BY <1>13, <2>2, <3>1 DEF Units
        <3>3. Cardinality(G(other)') <= Cardinality(G(other)) + 1
            <4> HIDE DEF W
            <4> QED
                BY <1>11, <3>1
        <3> QED
            BY <1>11, <1>12, <3>2, <3>3
    <2>3. CASE t # None /\ sem[t].count >= 0
        <3>1. W = {} /\ sem'[t].count = sem[t].count + 1
            BY <1>2, <1>13, <2>3 DEF First, Served
        <3>2. Units(t) = sem[t].count /\ Units(t)' = sem[t].count + 1
            BY <1>13, <2>3, <3>1 DEF Units
        <3> QED
            BY <1>11, <1>12, <1>13, <2>3, <3>1, <3>2
    <2> QED
        BY <1>13, <2>1, <2>2, <2>3
<1> QED
    BY <1>14, <1>15
-----------------------------------------------------------------------------
PortsInv == PortsOK /\ \A i \in Port : UnitsOK(i)

(* A step of one port keeps the invariant if it keeps it for that port. *)
LEMMA LocalInv ==
    ASSUME PortsInv, NEW i \in Port, Local(i), PortsOK', UnitsOK(i)'
    PROVE  PortsInv'
<1>1. PortsOK /\ TypesOK' /\ ProcsOK'
    BY DEF PortsInv, PortsOK
<1>2. \A j \in Port : UnitsOK(j)'
    BY <1>1, OthersUnits DEF PortsInv
<1> QED
    BY <1>2 DEF PortsInv

(* The entry of a semaphore from whose queue a killed process is taken. *)
(* A process leaves its call, and its place in a queue if it has one: it is
   killed, or it returns with nothing, or it just loses the processor. *)
Leaves(p) ==
    /\ cont' = [cont EXCEPT ![p] = User]
    /\ \E running \in SUBSET Running : Moves(Waiting \ {p}, running)
    /\ DOMAIN sem' = Sem /\ sem' = [s \in Sem |-> sem'[s]]
    /\ \A s \in Sem :
        \/ sem'[s] = sem[s] /\ (p \in ToSet(sem[s].queue) => p \notin Waiting)
        \/ /\ p \in ToSet(sem[s].queue)
           /\ sem'[s] = [used |-> sem[s].used, count |-> sem[s].count + 1,
                         queue |-> GetItem(sem[s].queue, p)]
    /\ UNCHANGED <<portVars, ptfree>>

LEMMA LeaveKeeps ==
    ASSUME PortsInv, NEW p \in Pid, Leaves(p)
    PROVE  PortsInv'
<1>1. /\ TypesOK /\ ProcsOK /\ CountsOK /\ OwnersOK /\ cont \in [Pid -> Conts]
      /\ sem \in [Sem -> SemRec] /\ \A i \in Port : PortOK(i) /\ UnitsOK(i)
    BY DEF PortsInv, PortsOK, TypesOK
<1>2. PICK running \in SUBSET Running : Moves(Waiting \ {p}, running)
    BY DEF Leaves
<1>3. Waiting' = Waiting \ {p} /\ Running' \subseteq Running
    BY <1>2 DEF Moves
<1>4. /\ cont' \in [Pid -> Conts]
      /\ \A q \in Pid : cont'[q] = IF q = p THEN User ELSE cont[q]
    BY <1>1 DEF Leaves, Conts
<1>5. ASSUME NEW s \in Sem
      PROVE  /\ sem'[s] \in SemRec /\ Balanced(sem'[s]) /\ sem'[s].used = sem[s].used
             /\ \/ ToSet(sem'[s].queue) = ToSet(sem[s].queue) \ {p}
                \/ sem'[s] = sem[s] /\ (p \in ToSet(sem[s].queue) => p \notin Waiting)
             /\ sem'[s] = sem[s] \/ (sem[s].count < 0 /\ sem'[s].count <= 0)
    <2>1. CASE sem'[s] = sem[s] /\ (p \in ToSet(sem[s].queue) => p \notin Waiting)
        BY <1>1, <2>1 DEF CountsOK
    <2>2. CASE ~(sem'[s] = sem[s] /\ (p \in ToSet(sem[s].queue) => p \notin Waiting))
        <3>1. sem[s] \in SemRec /\ Balanced(sem[s])
            BY <1>1 DEF CountsOK
        <3>2. /\ p \in ToSet(sem[s].queue)
              /\ sem'[s] = [used |-> sem[s].used, count |-> sem[s].count + 1,
                            queue |-> GetItem(sem[s].queue, p)]
            BY <2>2 DEF Leaves
        <3> QED
            BY <3>1, <3>2, LeftEntry
    <2> QED
        BY <2>1, <2>2
<1>6. sem' \in [Sem -> SemRec]
    BY <1>5 DEF Leaves
<1>7. /\ UNCHANGED <<ptstate, ptssem, ptrsem, ptqueue, ptseq, ptmaxcnt, ptnextid, ptfree>>
      /\ \A i, call : SemOf(i, call)' = SemOf(i, call)
    BY DEF Leaves, portVars, SemOf
<1>8. \A q \in Pid : q \in Waiting' => q # p /\ q \in Waiting /\ cont'[q] = cont[q]
    BY <1>3, <1>4
<1>9. \A q \in Pid, i \in Port, labels \in SUBSET (Calls \cup Clears) :
        In(q, i, labels)' => q # p /\ cont'[q] = cont[q] /\ In(q, i, labels)
    BY <1>4, UserNoCall DEF In
<1>10. TypesOK'
    BY <1>1, <1>2, <1>4, <1>6, <1>7 DEF TypesOK, Moves
<1>11. ProcsOK'
    <2>1. \A q \in Pid : prstate'[q] = "WAIT" => cont'[q].at \in Calls
        BY <1>1, <1>8 DEF ProcsOK, Waiting
    <2> QED
        BY <1>2, <2>1 DEF ProcsOK, Moves
<1>12. CountsOK'
    BY <1>5 DEF CountsOK
<1>13. /\ Calls \in SUBSET (Calls \cup Clears) /\ Clears \in SUBSET (Calls \cup Clears)
       /\ Resets \in SUBSET (Calls \cup Clears) /\ {"ptdelete"} \in SUBSET (Calls \cup Clears)
       /\ \A call \in Calls : {call} \in SUBSET (Calls \cup Clears)
    BY DEF Clears
<1>14. \A i \in Port, call \in Calls : Owns(i, call)' => Owns(i, call)
    <2> SUFFICES ASSUME NEW i \in Port, NEW call \in Calls, Owns(i, call)' PROVE Owns(i, call)
        OBVIOUS
    <2>1. \A q \in Pid :
            \/ In(q, i, Resets)'
            \/ call = "ptrecv" /\ (In(q, i, {"ptdelete"})' \/ (q \in Waiting' /\ In(q, i, Calls)'))
            => \/ In(q, i, Resets)
               \/ call = "ptrecv" /\ (In(q, i, {"ptdelete"}) \/ (q \in Waiting /\ In(q, i, Calls)))
        BY <1>8, <1>9, <1>13
    <2> QED
        BY <1>7, <2>1 DEF Owns
<1>15. OwnersOK'
    BY <1>1, <1>7, <1>14 DEF OwnersOK
<1>16. ASSUME NEW i \in Port PROVE QueuesOK(i)'
    <2> SUFFICES ASSUME NEW call \in Calls, Owns(i, call), SemOf(i, call) # None
                 PROVE  /\ sem'[SemOf(i, call)].used
                        /\ \A q \in ToSet(sem'[SemOf(i, call)].queue) : q \in Waiting' /\ In(q, i, {call})'
        BY <1>7, <1>14 DEF QueuesOK
    <2>1. /\ sem[SemOf(i, call)].used
          /\ \A q \in ToSet(sem[SemOf(i, call)].queue) : q \in Waiting /\ In(q, i, {call})
        BY <1>1 DEF PortOK, QueuesOK
    <2>2. SemOf(i, call) \in Sem
        BY <1>1, SemOfType
    <2>3. \A q \in ToSet(sem'[SemOf(i, call)].queue) : q \in ToSet(sem[SemOf(i, call)].queue) /\ q # p
        BY <1>5, <2>1, <2>2
    <2>4. \A q \in Waiting \ {p} : q \in Pid /\ q \in Waiting' /\ (In(q, i, {call}) => In(q, i, {call})')
        BY <1>3, <1>4 DEF In, Waiting
    <2> QED
        BY <1>5, <2>1, <2>2, <2>3, <2>4
<1>17. ASSUME NEW i \in Port PROVE WaitersOK(i)'
    <2> SUFFICES ASSUME NEW q \in Pid, q \in Waiting', In(q, i, Calls)'
                 PROVE  /\ q \in Waiters(SemOf(i, cont[q].at))'
                        /\ \/ StillThere(cont[q])'
                           \/ ptstate[i] = "LIMBO" /\ cont'[q].at = "ptrecv" /\ ptseq[i] = cont'[q].seq + 1
        BY <1>7 DEF WaitersOK, Waiting
    <2>1. q # p /\ q \in Waiting /\ cont'[q] = cont[q] /\ In(q, i, Calls)
        BY <1>8, <1>9, <1>13
    <2>2. /\ q \in Waiters(SemOf(i, cont[q].at))
          /\ \/ StillThere(cont[q])
             \/ ptstate[i] = "LIMBO" /\ cont[q].at = "ptrecv" /\ ptseq[i] = cont[q].seq + 1
        BY <1>1, <2>1 DEF PortOK, WaitersOK
    <2>3. SemOf(i, cont[q].at) # None /\ q \in ToSet(sem[SemOf(i, cont[q].at)].queue)
        BY <2>2 DEF Waiters
    <2>4. SemOf(i, cont[q].at) \in Sem
        BY <1>1, <2>3, SemOfType
    <2>5. q \in ToSet(sem'[SemOf(i, cont[q].at)].queue)
        BY <1>5, <2>1, <2>3, <2>4
    <2>6. SemOf(i, cont[q].at)' = SemOf(i, cont[q].at) /\ (StillThere(cont[q])' <=> StillThere(cont[q]))
        BY <1>7, <2>1 DEF SemOf, StillThere
    <2>7. q \in Waiters(SemOf(i, cont[q].at))'
        BY <2>3, <2>5, <2>6 DEF Waiters
    <2> QED
        BY <2>1, <2>2, <2>6, <2>7
<1>18. ASSUME NEW i \in Port PROVE ClearOK(i)'
    <2> SUFFICES ASSUME NEW q \in Pid, In(q, i, Clears)'
                 PROVE  /\ ptstate[i] = "LIMBO"
                        /\ \A o \in Pid : In(o, i, Clears)' => o = q
                        /\ cont'[q].at \in Resets /\ ptssem[i] # None => sem'[ptssem[i]].count = ptmaxcnt[i]
                        /\ cont'[q].at = "ptresetend" /\ ptrsem[i] # None => sem'[ptrsem[i]].count = 0
                        /\ cont'[q].at \in {"ptresetend", "ptdeleteend"} => \A o \in Waiting' : ~In(o, i, Calls)'
        BY <1>7 DEF ClearOK
    <2>1. cont'[q] = cont[q] /\ In(q, i, Clears)
        BY <1>9, <1>13
    <2>2. /\ ptstate[i] = "LIMBO"
          /\ \A o \in Pid : In(o, i, Clears) => o = q
          /\ cont[q].at \in Resets /\ ptssem[i] # None => sem[ptssem[i]].count = ptmaxcnt[i]
          /\ cont[q].at = "ptresetend" /\ ptrsem[i] # None => sem[ptrsem[i]].count = 0
          /\ cont[q].at \in {"ptresetend", "ptdeleteend"} => \A o \in Waiting : ~In(o, i, Calls)
        BY <1>1, <2>1 DEF PortOK, ClearOK
    <2>3. \A s \in Sem : sem[s].count >= 0 => sem'[s] = sem[s]
        <3>1. \A s \in Sem : sem[s].count \in Int
            BY <1>1 DEF SemRec
        <3> QED
            BY <1>5, <3>1
    <2>4. ptmaxcnt[i] \in Nat /\ ptssem[i] \in Sem \cup {None} /\ ptrsem[i] \in Sem \cup {None}
        BY <1>1 DEF TypesOK
    <2>5. cont'[q].at \in Resets /\ ptssem[i] # None => sem'[ptssem[i]].count = ptmaxcnt[i]
        BY <2>1, <2>2, <2>3, <2>4
    <2>6. cont'[q].at = "ptresetend" /\ ptrsem[i] # None => sem'[ptrsem[i]].count = 0
        BY <2>1, <2>2, <2>3, <2>4
    <2>7. \A o \in Waiting' : In(o, i, Calls)' => o \in Waiting /\ In(o, i, Calls)
        BY <1>8, <1>9, <1>13 DEF Waiting
    <2>8. \A o \in Pid : In(o, i, Clears)' => In(o, i, Clears)
        BY <1>9, <1>13
    <2> QED
        BY <2>1, <2>2, <2>5, <2>6, <2>7, <2>8
<1>19. ASSUME NEW i \in Port PROVE SeqsOK(i)'
    <2>1. \A q \in Pid : In(q, i, Calls)' => cont'[q] = cont[q] /\ In(q, i, Calls)
        BY <1>9, <1>13
    <2> QED
        BY <1>1, <1>7, <2>1 DEF PortOK, SeqsOK
<1>20. \A i \in Port : PortOK(i)'
    <2> TAKE i \in Port
    <2>1. ptstate'[i] # "ALLOC" => ptqueue'[i] = <<>>
        BY <1>1, <1>7 DEF PortOK
    <2> QED
        BY <1>16, <1>17, <1>18, <1>19, <2>1 DEF PortOK
<1>21. ASSUME NEW i \in Port PROVE UnitsOK(i)'
    <2>1. ASSUME NEW call \in Calls
          PROVE  /\ Granted(i, call)' \subseteq Granted(i, call)
                 /\ Units(SemOf(i, call))' <= Units(SemOf(i, call))
        <3>1. Granted(i, call)' \subseteq Granted(i, call)
            <4> SUFFICES ASSUME NEW q \in Pid, q \in Granted(i, call)' PROVE q \in Granted(i, call)
                BY DEF Granted
            <4>1. cont'[q].at = call /\ cont'[q].port = i /\ cont'[q].seq = ptseq[i] /\ q \in Running'
                BY <1>7 DEF Granted, Running
            <4>2. cont'[q] = cont[q]
                BY <1>4, <4>1, UserNoCall
            <4> QED
                BY <1>3, <4>1, <4>2 DEF Granted, Running
        <3>2. SemOf(i, call) \in Sem \cup {None}
            BY <1>1, SemOfType
        <3>3. \A s \in Sem : sem[s].count \in Int /\ sem'[s].count \in Int
            BY <1>1, <1>6 DEF SemRec
        <3>4. Units(SemOf(i, call))' <= Units(SemOf(i, call))
            BY <1>5, <1>7, <3>2, <3>3 DEF Units
        <3> QED
            BY <3>1, <3>4
    <2> QED
        BY <1>1, <1>7, <1>10, <2>1, UnitsKept
<1> QED
    BY <1>10, <1>11, <1>12, <1>15, <1>20, <1>21 DEF PortsInv, PortsOK

LEMMA CurrentProcess ==
    ASSUME PortsInv, currpid # NULLPROC
    PROVE  currpid \in Pid /\ TypesOK /\ ProcsOK
BY DEF PortsInv, PortsOK, TypesOK

LEMMA KillKeeps ==
    ASSUME PortsInv, NEW p \in Pid, Kill(p)
    PROVE  PortsInv'
<1>1. /\ TypesOK /\ ProcsOK /\ CountsOK /\ KillTask(p) /\ sem \in [Sem -> SemRec]
      /\ UNCHANGED <<portVars, ptfree>>
    BY DEF PortsInv, PortsOK, Kill, TypesOK
<1>2. Moves(Waiting \ {p}, Running \ {p}) /\ Running \ {p} \in SUBSET Running
    BY <1>1, Processor, KillMoves
<1>3. cont' = [cont EXCEPT ![p] = User]
    BY <1>1 DEF KillTask
<1>4. \A s \in Sem : Balanced(sem[s])
    BY <1>1 DEF CountsOK
<1>5. /\ \A s \in Sem : p \in ToSet(sem[s].queue) =>
            sem'[s] = [used |-> sem[s].used, count |-> sem[s].count + 1,
                       queue |-> GetItem(sem[s].queue, p)]
      /\ \A s \in Sem : p \notin ToSet(sem[s].queue) => sem'[s] = sem[s]
      /\ DOMAIN sem' = Sem /\ sem' = [s \in Sem |-> sem'[s]]
    BY <1>1, <1>4, KillEntries
<1>6. Leaves(p)
    BY <1>1, <1>2, <1>3, <1>5 DEF Leaves
<1> QED
    BY <1>6, LeaveKeeps

LEMMA RefuseKeeps ==
    ASSUME PortsInv, currpid # NULLPROC, Refuse
    PROVE  PortsInv'
<1>1. currpid \in Pid /\ TypesOK /\ ProcsOK
    BY CurrentProcess
<1>2. currpid \notin Waiting
    BY <1>1, Processor, CurrentRuns
<1>3. Moves(Waiting \ {currpid}, Running) /\ Running \in SUBSET Running
    BY <1>1, <1>2 DEF Refuse, procVars, Moves, Waiting, Running, TypesOK, ProcsOK
<1>4. cont' = [cont EXCEPT ![currpid] = User] /\ UNCHANGED <<portVars, ptfree>> /\ sem' = sem
    BY DEF Refuse, Return, Goto
<1>5. DOMAIN sem' = Sem /\ sem' = [s \in Sem |-> sem'[s]]
    BY <1>1, <1>4 DEF TypesOK
<1>6. Leaves(currpid)
    BY <1>2, <1>3, <1>4, <1>5 DEF Leaves
<1> QED
    BY <1>1, <1>6, LeaveKeeps

LEMMA PreemptKeeps ==
    ASSUME PortsInv, Preempt
    PROVE  PortsInv'
<1>1. currpid \in Pid /\ TypesOK /\ ProcsOK
    BY CurrentProcess DEF Preempt, InUser
<1>2. currpid \notin Waiting
    BY <1>1, Processor, CurrentRuns
<1>3. Moves(Waiting, Running)
    BY <1>1, Processor, PreemptMoves DEF Preempt
<1>4. Moves(Waiting \ {currpid}, Running) /\ Running \in SUBSET Running
    BY <1>2, <1>3
<1>5. /\ UNCHANGED <<portVars, ptfree>> /\ sem' = sem /\ cont' = cont /\ cont[currpid] = User
    BY DEF Preempt, Preempted, InUser
<1>6. cont' = [cont EXCEPT ![currpid] = User] /\ DOMAIN sem' = Sem /\ sem' = [s \in Sem |-> sem'[s]]
    BY <1>1, <1>5 DEF TypesOK
<1>7. Leaves(currpid)
    BY <1>2, <1>4, <1>5, <1>6 DEF Leaves
<1> QED
    BY <1>1, <1>7, LeaveKeeps

(* The processor stops in ptsend: the caller has its unit and no node. *)
LEMMA PanicKeeps ==
    ASSUME PortsInv, NEW i \in Port, ptstate[i] = "ALLOC", NEW call \in Calls, currpid \in Pid,
           \/ sem' = sem
           \/ Available(SemOf(i, call)) /\ sem' = Down(sem, SemOf(i, call), currpid),
           UNCHANGED <<procVars, cont, portVars, ptfree>>
    PROVE  PortsInv'
<1> SUFFICES ASSUME NEW s, s = SemOf(i, call) PROVE PortsInv'
    OBVIOUS
<1>1. /\ TypesOK /\ ProcsOK /\ CountsOK /\ OwnersOK /\ sem \in [Sem -> SemRec]
      /\ \A j \in Port : PortOK(j) /\ UnitsOK(j)
    BY DEF PortsInv, PortsOK, TypesOK
<1>2. /\ UNCHANGED <<currpid, prstate, cont, ptstate, ptssem, ptrsem, ptqueue, ptseq, ptmaxcnt, ptnextid, ptfree>>
      /\ Waiting' = Waiting /\ Running' = Running
      /\ \A j, c : SemOf(j, c)' = SemOf(j, c)
    BY DEF procVars, portVars, SemOf, Waiting, Running
<1>3. /\ sem' \in [Sem -> SemRec] /\ \A t \in Sem : t # s => sem'[t] = sem[t]
      /\ \A t \in Sem : /\ sem'[t].used = sem[t].used /\ sem'[t].queue = sem[t].queue
                        /\ sem'[t] = sem[t] \/ (sem[t].count > 0 /\ sem'[t].count = sem[t].count - 1)
    <2>1. CASE sem' = sem
        BY <1>1, <2>1
    <2>2. CASE sem' # sem
        <3>1. s \in Sem /\ sem[s].count > 0 /\ sem' = Down(sem, s, currpid)
            BY <1>1, <2>2, SemOfType DEF Available
        <3> QED
            BY <1>1, <3>1, DownEntry
    <2> QED
        BY <2>1, <2>2
<1>4. CountsOK'
    <2> SUFFICES ASSUME NEW t \in Sem PROVE Balanced(sem'[t])
        BY DEF CountsOK
    <2>1. Balanced(sem[t]) /\ sem[t].count \in Int
        BY <1>1 DEF CountsOK, SemRec
    <2>2. CASE sem[t].count > 0 /\ sem'[t].count = sem[t].count - 1
        BY <1>3, <2>1, <2>2 DEF Balanced
    <2> QED
        BY <1>3, <2>1, <2>2
<1>5. TypesOK' /\ ProcsOK'
    BY <1>1, <1>2, <1>3 DEF TypesOK, ProcsOK
<1>6. \A p \in Pid, j \in Port : \A labels : In(p, j, labels)' <=> In(p, j, labels)
    BY <1>2 DEF In
<1>7. \A j \in Port, c \in Calls : Owns(j, c)' <=> Owns(j, c)
    BY <1>2, <1>6 DEF Owns
<1>8. OwnersOK'
    BY <1>1, <1>2, <1>7 DEF OwnersOK
<1>9. \A j \in Port : \A c : SemOf(j, c) \in Sem \cup {None}
    BY <1>1, SemOfType
<1>10. \A p \in Waiting : p \in Pid
    BY DEF Waiting
<1>11. ASSUME NEW j \in Port PROVE PortOK(j)'
    <2>1. QueuesOK(j)'
        <3> SUFFICES ASSUME NEW c \in Calls, Owns(j, c), SemOf(j, c) # None
                     PROVE  /\ sem'[SemOf(j, c)].used
                            /\ \A p \in ToSet(sem'[SemOf(j, c)].queue) : p \in Waiting' /\ In(p, j, {c})'
            BY <1>2, <1>7 DEF QueuesOK
        <3>1. /\ sem[SemOf(j, c)].used
              /\ \A p \in ToSet(sem[SemOf(j, c)].queue) : p \in Waiting /\ In(p, j, {c})
            BY <1>1 DEF PortOK, QueuesOK
        <3>2. SemOf(j, c) \in Sem
            BY <1>9
        <3> QED
            BY <1>2, <1>3, <1>6, <1>10, <3>1, <3>2
    <2>2. WaitersOK(j)'
        <3> SUFFICES ASSUME NEW p \in Pid, p \in Waiting', In(p, j, Calls)'
                     PROVE  /\ p \in Waiters(SemOf(j, cont[p].at))'
                            /\ \/ StillThere(cont[p])'
                               \/ ptstate'[j] = "LIMBO" /\ cont'[p].at = "ptrecv" /\ ptseq'[j] = cont'[p].seq + 1
            BY <1>2, <1>10 DEF WaitersOK
        <3>1. /\ p \in Waiters(SemOf(j, cont[p].at))
              /\ \/ StillThere(cont[p])
                 \/ ptstate[j] = "LIMBO" /\ cont[p].at = "ptrecv" /\ ptseq[j] = cont[p].seq + 1
            BY <1>1, <1>2, <1>6 DEF PortOK, WaitersOK
        <3>2. p \in Waiters(SemOf(j, cont[p].at))'
            BY <1>2, <1>3, <1>9, <3>1 DEF Waiters
        <3>3. StillThere(cont[p])' <=> StillThere(cont[p])
            BY <1>2 DEF StillThere
        <3> QED
            BY <1>2, <3>1, <3>2, <3>3
    <2>3. ClearOK(j)'
        <3> SUFFICES ASSUME NEW p \in Pid, In(p, j, Clears)
                     PROVE  /\ ptstate[j] = "LIMBO"
                            /\ \A q \in Pid : In(q, j, Clears) => q = p
                            /\ cont[p].at \in Resets /\ ptssem[j] # None => sem'[ptssem[j]].count = ptmaxcnt[j]
                            /\ cont[p].at = "ptresetend" /\ ptrsem[j] # None => sem'[ptrsem[j]].count = 0
                            /\ cont[p].at \in {"ptresetend", "ptdeleteend"} => \A q \in Waiting : ~In(q, j, Calls)
            BY <1>2, <1>6, <1>10 DEF ClearOK
        <3>1. /\ ptstate[j] = "LIMBO"
              /\ \A q \in Pid : In(q, j, Clears) => q = p
              /\ cont[p].at \in Resets /\ ptssem[j] # None => sem[ptssem[j]].count = ptmaxcnt[j]
              /\ cont[p].at = "ptresetend" /\ ptrsem[j] # None => sem[ptrsem[j]].count = 0
              /\ cont[p].at \in {"ptresetend", "ptdeleteend"} => \A q \in Waiting : ~In(q, j, Calls)
            BY <1>1 DEF PortOK, ClearOK
        <3>2. cont[p].at \in Resets => Owns(j, "ptsend") /\ Owns(j, "ptrecv")
            BY <3>1 DEF Owns, In
        <3>3. Owns(i, call) /\ j # i
            BY <3>1 DEF Owns
        <3>4. /\ Owns(j, "ptsend") /\ ptssem[j] # None => ptssem[j] # s
              /\ Owns(j, "ptrecv") /\ ptrsem[j] # None => ptrsem[j] # s
            BY <1>1, <3>3 DEF OwnersOK, SemOf, Calls
        <3>5. cont[p].at = "ptresetend" => cont[p].at \in Resets
            BY DEF Resets
        <3>6. ptssem[j] \in Sem \cup {None} /\ ptrsem[j] \in Sem \cup {None}
            BY <1>1 DEF TypesOK
        <3> QED
            BY <1>3, <3>1, <3>2, <3>4, <3>5, <3>6
    <2>4. SeqsOK(j)' /\ (ptstate'[j] # "ALLOC" => ptqueue'[j] = <<>>)
        BY <1>1, <1>2, <1>6 DEF PortOK, SeqsOK
    <2> QED
        BY <2>1, <2>2, <2>3, <2>4 DEF PortOK
<1>12. ASSUME NEW j \in Port PROVE UnitsOK(j)'
    <2>1. ASSUME NEW c \in Calls
          PROVE  Granted(j, c)' \subseteq Granted(j, c) /\ Units(SemOf(j, c))' <= Units(SemOf(j, c))
        <3>1. Granted(j, c)' = Granted(j, c)
            BY <1>2 DEF Granted
        <3>2. \A t \in Sem : sem[t].count \in Int /\ sem'[t].count \in Int
            BY <1>1, <1>3 DEF SemRec
        <3>3. Units(SemOf(j, c))' <= Units(SemOf(j, c))
            BY <1>2, <1>3, <1>9, <3>2 DEF Units
        <3> QED
            BY <3>1, <3>3
    <2> QED
        BY <1>1, <1>2, <1>5, <2>1, UnitsKept
<1> QED
    BY <1>4, <1>5, <1>8, <1>11, <1>12 DEF PortsInv, PortsOK
-----------------------------------------------------------------------------
LEMMA WaitInv ==
    ASSUME PortsInv, NEW i \in Port, ptstate[i] = "ALLOC", InUser,
           NEW call \in Calls, NEW msg \in Msg \cup {None}, call = "ptsend" => msg \in Msg,
           PtWait(SemOf(i, call), Doing(call, i, msg))
    PROVE  PortsInv'
<1>1. currpid \in Pid /\ TypesOK /\ ProcsOK /\ PortsOK
    BY CurrentProcess DEF InUser, PortsInv
<1>2. PortsOK' /\ Local(i)
    BY <1>1, WaitKeeps
<1>3. /\ TypesOK' /\ sem \in [Sem -> SemRec] /\ sem' \in [Sem -> SemRec] /\ OwnersOK
      /\ \A any : SemOf(i, any) \in Sem \cup {None}
    BY <1>1, <1>2, SemOfType DEF PortsOK, TypesOK
<1>4. /\ SemOf(i, call) \in Sem /\ sem[SemOf(i, call)].count <= 0
      /\ sem' = Down(sem, SemOf(i, call), currpid)
      /\ Dispatch([prstate EXCEPT ![currpid] = "WAIT"]) /\ Goto(Doing(call, i, msg))
      /\ UNCHANGED <<ptstate, ptssem, ptrsem, ptqueue, ptseq, ptmaxcnt>>
    BY <1>3 DEF PtWait, WaitOn, portVars
<1>5. \A any : SemOf(i, any)' = SemOf(i, any)
    BY <1>4 DEF SemOf
<1>6. Running' = Running \ {currpid}
    <2>1. "WAIT" \in {"WAIT", "FREE"}
        OBVIOUS
    <2> QED
        BY <1>1, <1>4, <2>1, Processor, LeaveMoves DEF Moves
<1>7. \A p \in Pid : p # currpid => cont'[p] = cont[p]
    BY <1>1, <1>4 DEF Goto, TypesOK
<1>8. ASSUME NEW any \in Calls
      PROVE  Granted(i, any)' \subseteq Granted(i, any) /\ Units(SemOf(i, any))' <= Units(SemOf(i, any))
    <2>1. Granted(i, any)' \subseteq Granted(i, any)
        <3> SUFFICES ASSUME NEW p \in Pid, p \in Granted(i, any)' PROVE p \in Granted(i, any)
            BY DEF Granted
        <3>1. cont'[p].at = any /\ cont'[p].port = i /\ cont'[p].seq = ptseq'[i] /\ p \in Running'
            BY DEF Granted, Running
        <3> QED
            BY <1>4, <1>6, <1>7, <3>1 DEF Granted, Running
    <2>2. /\ \A t \in Sem \ {SemOf(i, call)} : sem'[t] = sem[t]
          /\ sem'[SemOf(i, call)].count = sem[SemOf(i, call)].count - 1
        BY <1>1, <1>3, <1>4, DownEntry
    <2>3. \A t \in Sem : sem[t].count \in Int /\ sem'[t].count \in Int
        BY <1>3 DEF SemRec
    <2>4. CASE SemOf(i, any) = SemOf(i, call)
        <3>1. Units(SemOf(i, any)) = 0 /\ Units(SemOf(i, any))' = 0
            BY <1>4, <1>5, <2>2, <2>3, <2>4 DEF Units
        <3> QED
            BY <2>1, <3>1
    <2>5. CASE SemOf(i, any) # SemOf(i, call)
        <3>1. Units(SemOf(i, any))' = Units(SemOf(i, any)) /\ Units(SemOf(i, any)) \in Nat
            BY <1>3, <1>5, <2>2, <2>3, <2>5 DEF Units
        <3> QED
            BY <2>1, <3>1
    <2> QED
        BY <2>4, <2>5
<1>9. UnitsOK(i)
    BY DEF PortsInv
<1>10. UnitsOK(i)'
    BY <1>1, <1>3, <1>4, <1>8, <1>9, UnitsKept
<1> QED
    BY <1>2, <1>10, LocalInv

(* The caller has a unit of call's semaphore, from before or taken now. *)
HasUnit(i, call, tab) ==
    \/ tab = sem /\ currpid \in Granted(i, call)
    \/ Available(SemOf(i, call)) /\ tab = Down(sem, SemOf(i, call), currpid)

LEMMA UnitTaken ==
    ASSUME TypesOK, NEW i \in Port, NEW call \in Calls, NEW tab, HasUnit(i, call, tab), currpid \in Pid
    PROVE  /\ tab = sem => currpid \in Granted(i, call)
           /\ Claims(i, call) >= 1
<1> SUFFICES ASSUME NEW s, s = SemOf(i, call)
             PROVE (tab = sem => currpid \in Granted(i, call)) /\ Claims(i, call) >= 1
    OBVIOUS
<1>1. s \in Sem \cup {None} /\ sem \in [Sem -> SemRec]
    BY SemOfType DEF TypesOK
<1>2. Units(s) \in Nat
    BY <1>1, UnitsType DEF Units
<1>3. Granted(i, call) \in SUBSET Pid /\ {} \in SUBSET Pid /\ Cardinality({}) = 0
    BY FS_EmptySet DEF Granted
<1>4. Cardinality(Granted(i, call)) \in Nat
    BY <1>3, PidSets
<1>5. CASE currpid \in Granted(i, call)
    <2>1. Cardinality({}) <= Cardinality(Granted(i, call)) - 1
        BY <1>3, <1>5, PidSets
    <2> QED
        BY <1>2, <1>3, <1>4, <1>5, <2>1 DEF Claims
<1>6. CASE currpid \notin Granted(i, call)
    <2>1. s \in Sem /\ sem[s].count > 0 /\ sem[s].count \in Int /\ tab = Down(sem, s, currpid)
        BY <1>1, <1>6 DEF HasUnit, Available, SemRec
    <2>2. tab[s].count = sem[s].count - 1
        BY <1>1, <2>1, DownEntry
    <2>3. tab # sem
        BY <2>1, <2>2
    <2>4. Units(s) >= 1
        BY <1>1, <2>1, TaskAssumption DEF Units
    <2> QED
        BY <1>2, <1>4, <2>3, <2>4 DEF Claims
<1> QED
    BY <1>5, <1>6

LEMMA EnqueueKeeps ==
    ASSUME PortsInv, NEW i \in Port, ptstate[i] = "ALLOC", currpid \in Pid, Concerns(currpid, i),
           NEW msg \in Msg, NEW tab, HasUnit(i, "ptsend", tab), Enqueue(i, msg, tab)
    PROVE  PortsInv'
<1>1. PortsOK /\ TypesOK /\ UnitsOK(i) /\ "ptsend" \in Calls /\ "ptrecv" \in Calls
    BY DEF PortsInv, PortsOK, Calls
<1>2. CASE ptfree = 0 /\ panicked' = TRUE /\ sem' = tab /\ UNCHANGED <<procVars, cont, portVars, ptfree>>
    BY <1>1, <1>2, PanicKeeps DEF HasUnit
<1>3. CASE /\ ptfree > 0
           /\ ptfree' = ptfree - 1
           /\ ptqueue' = [ptqueue EXCEPT ![i] = Append(@, msg)]
           /\ sem' = Up(tab, ptrsem[i])
           /\ Resched(First(tab, ptrsem[i]))
           /\ Return
           /\ UNCHANGED <<ptstate, ptssem, ptrsem, ptseq, ptmaxcnt, ptnextid, panicked>>
    <2>1. Serve(i, "ptsend", "ptrecv", tab)
        BY <1>3 DEF Serve, SemOf, HasUnit
    <2>2. /\ ptqueue \in [Port -> Seq(Msg)] /\ ptqueue[i] \in Seq(Msg) /\ ptmaxcnt[i] \in Nat
          /\ ptfree' \in Nat
        BY <1>1, <1>3 DEF TypesOK
    <2>3. /\ ptqueue' \in [Port -> Seq(Msg)] /\ \A j \in Port \ {i} : ptqueue'[j] = ptqueue[j]
          /\ ptqueue'[i] = Append(ptqueue[i], msg)
        BY <1>3, <2>2
    <2>4. PortsOK' /\ Local(i)
        BY <1>1, <2>1, <2>2, <2>3, ServeOK
    <2>5. TypesOK'
        BY <2>4 DEF PortsOK
    <2>6. tab = sem => currpid \in Granted(i, "ptsend")
        BY <1>1, UnitTaken
    <2>7. /\ Claims(i, "ptsend")' <= Claims(i, "ptsend") - 1
          /\ Claims(i, "ptrecv")' <= Claims(i, "ptrecv") + 1
        BY <1>1, <2>1, <2>5, <2>6, ServeUnits
    <2>8. /\ Claims(i, "ptsend") \in Nat /\ Claims(i, "ptsend")' \in Nat
          /\ Claims(i, "ptrecv") \in Nat /\ Claims(i, "ptrecv")' \in Nat
        BY <1>1, <2>5, ClaimsType
    <2>9. Len(ptqueue[i]) \in Nat /\ Len(ptqueue'[i]) = Len(ptqueue[i]) + 1 /\ ptmaxcnt'[i] = ptmaxcnt[i]
        BY <1>3, <2>2, <2>3
    <2>10. /\ Claims(i, "ptsend") + Len(ptqueue[i]) <= ptmaxcnt[i]
           /\ Claims(i, "ptrecv") <= Len(ptqueue[i])
        BY <1>1 DEF UnitsOK
    <2>11. UnitsOK(i)'
        BY <2>2, <2>7, <2>8, <2>9, <2>10 DEF UnitsOK
    <2> QED
        BY <2>4, <2>11, LocalInv
<1> QED
    BY <1>2, <1>3 DEF Enqueue

LEMMA DequeueKeeps ==
    ASSUME PortsInv, NEW i \in Port, ptstate[i] = "ALLOC", currpid \in Pid, Concerns(currpid, i),
           NEW tab, HasUnit(i, "ptrecv", tab), Dequeue(i, tab)
    PROVE  PortsInv' /\ ptqueue[i] # <<>>
<1>1. PortsOK /\ TypesOK /\ UnitsOK(i) /\ "ptsend" \in Calls /\ "ptrecv" \in Calls
    BY DEF PortsInv, PortsOK, Calls
<1>2. Serve(i, "ptrecv", "ptsend", tab)
    BY DEF Dequeue, Serve, SemOf, HasUnit
<1>3. /\ ptqueue \in [Port -> Seq(Msg)] /\ ptqueue[i] \in Seq(Msg) /\ ptmaxcnt[i] \in Nat
      /\ ptfree' \in Nat /\ Len(ptqueue[i]) \in Nat
    BY <1>1 DEF TypesOK, Dequeue
<1>4. /\ Claims(i, "ptsend") + Len(ptqueue[i]) <= ptmaxcnt[i]
      /\ Claims(i, "ptrecv") <= Len(ptqueue[i])
    BY <1>1 DEF UnitsOK
<1>5. Claims(i, "ptrecv") >= 1 /\ (tab = sem => currpid \in Granted(i, "ptrecv"))
    BY <1>1, UnitTaken
<1>6. Claims(i, "ptrecv") \in Nat
    <2>1. sem \in [Sem -> SemRec] /\ SemOf(i, "ptrecv") \in Sem \cup {None}
        BY <1>1, SemOfType DEF TypesOK
    <2>2. Units(SemOf(i, "ptrecv")) \in Nat
        BY <2>1, UnitsType DEF Units
    <2>3. Granted(i, "ptrecv") \in SUBSET Pid
        BY DEF Granted
    <2>4. Cardinality(Granted(i, "ptrecv")) \in Nat
        BY <2>3, PidSets
    <2> QED
        BY <2>2, <2>4 DEF Claims
<1>7. ptqueue[i] # <<>>
    BY <1>3, <1>4, <1>5, <1>6
<1>8. /\ ptqueue' \in [Port -> Seq(Msg)] /\ \A j \in Port \ {i} : ptqueue'[j] = ptqueue[j]
      /\ ptqueue'[i] = Tail(ptqueue[i])
    <2>1. Tail(ptqueue[i]) \in Seq(Msg)
        BY <1>3, <1>7
    <2> QED
        BY <1>3, <2>1 DEF Dequeue
<1>9. Len(ptqueue'[i]) = Len(ptqueue[i]) - 1
    BY <1>3, <1>7, <1>8
<1>10. PortsOK' /\ Local(i)
    BY <1>1, <1>2, <1>3, <1>8, ServeOK
<1>11. TypesOK'
    BY <1>10 DEF PortsOK
<1>12. /\ Claims(i, "ptrecv")' <= Claims(i, "ptrecv") - 1
       /\ Claims(i, "ptsend")' <= Claims(i, "ptsend") + 1
    BY <1>1, <1>2, <1>5, <1>11, ServeUnits
<1>13. /\ Claims(i, "ptsend") \in Nat /\ Claims(i, "ptsend")' \in Nat
       /\ Claims(i, "ptrecv") \in Nat /\ Claims(i, "ptrecv")' \in Nat
    BY <1>1, <1>11, ClaimsType
<1>14. UnitsOK(i)'
    <2>1. ptmaxcnt'[i] = ptmaxcnt[i]
        BY DEF Dequeue
    <2> QED
        BY <1>3, <1>4, <1>9, <1>12, <1>13, <2>1, SMTT(30) DEF UnitsOK
<1> QED
    BY <1>7, <1>10, <1>14, LocalInv

LEMMA SendKeeps ==
    ASSUME PortsInv, NEW i \in Port, NEW msg \in Msg, PtSend(i, msg)
    PROVE  PortsInv'
<1>1. /\ currpid \in Pid /\ ptstate[i] = "ALLOC" /\ Concerns(currpid, i) /\ InUser
      /\ "ptsend" \in Calls /\ SemOf(i, "ptsend") = ptssem[i]
    BY CurrentProcess DEF PtSend, InUser, Concerns, Calls, SemOf
<1>2. CASE Available(ptssem[i]) /\ Enqueue(i, msg, Down(sem, ptssem[i], currpid))
    BY <1>1, <1>2, EnqueueKeeps DEF HasUnit
<1>3. CASE PtWait(ptssem[i], Doing("ptsend", i, msg))
    BY <1>1, <1>3, WaitInv
<1> QED
    BY <1>2, <1>3 DEF PtSend

LEMMA RecvKeeps ==
    ASSUME PortsInv, NEW i \in Port, PtRecv(i)
    PROVE  PortsInv'
<1>1. /\ currpid \in Pid /\ ptstate[i] = "ALLOC" /\ Concerns(currpid, i) /\ InUser
      /\ "ptrecv" \in Calls /\ SemOf(i, "ptrecv") = ptrsem[i]
    BY CurrentProcess DEF PtRecv, InUser, Concerns, Calls, SemOf
<1>2. CASE Available(ptrsem[i]) /\ Dequeue(i, Down(sem, ptrsem[i], currpid))
    BY <1>1, <1>2, DequeueKeeps DEF HasUnit
<1>3. CASE PtWait(ptrsem[i], Doing("ptrecv", i, None))
    BY <1>1, <1>3, WaitInv
<1> QED
    BY <1>2, <1>3 DEF PtRecv

(* Who finds its port as it left it has been given its unit. *)
LEMMA ReturnGranted ==
    ASSUME PortsInv, NEW call \in Calls, At(call), StillThere(cont[currpid])
    PROVE  /\ currpid \in Pid /\ cont[currpid].port \in Port
           /\ ptstate[cont[currpid].port] = "ALLOC" /\ Concerns(currpid, cont[currpid].port)
           /\ HasUnit(cont[currpid].port, call, sem)
<1>1. currpid \in Pid /\ TypesOK /\ ProcsOK
    BY CurrentProcess DEF At
<1>2. cont[currpid].port \in Port
    BY <1>1, ContFacts DEF At
<1>3. currpid \in Granted(cont[currpid].port, call)
    BY <1>1 DEF Granted, At, StillThere, ProcsOK
<1> QED
    BY <1>1, <1>2, <1>3 DEF HasUnit, StillThere, Concerns, In, At

LEMMA SendDoneKeeps ==
    ASSUME PortsInv, PtSendDone
    PROVE  PortsInv'
<1>1. At("ptsend") /\ currpid # NULLPROC /\ "ptsend" \in Calls
    BY DEF PtSendDone, At, Calls
<1>2. CASE StillThere(cont[currpid]) /\ Enqueue(cont[currpid].port, cont[currpid].msg, sem)
    <2>1. cont[currpid].msg \in Msg
        <3>1. TypesOK /\ currpid \in Pid /\ cont[currpid].at = "ptsend"
            BY <1>1, CurrentProcess DEF At
        <3> QED
            BY <1>1, <3>1, ContFacts
    <2> QED
        BY <1>1, <1>2, <2>1, ReturnGranted, EnqueueKeeps
<1> QED
    BY <1>1, <1>2, RefuseKeeps DEF PtSendDone

LEMMA RecvDoneKeeps ==
    ASSUME PortsInv, PtRecvDone
    PROVE  PortsInv'
<1>1. At("ptrecv") /\ currpid # NULLPROC /\ "ptrecv" \in Calls
    BY DEF PtRecvDone, At, Calls
<1>2. CASE StillThere(cont[currpid]) /\ Dequeue(cont[currpid].port, sem)
    BY <1>1, <1>2, ReturnGranted, DequeueKeeps
<1> QED
    BY <1>1, <1>2, RefuseKeeps DEF PtRecvDone
-----------------------------------------------------------------------------
(* What a reset or deletion of a semaphore of port i does: all that waited in
   that call are released. *)
Replaced(i, call, s, new) ==
    /\ sem' \in [Sem -> SemRec] /\ CountsOK'
    /\ \A u \in Sem : u # s => sem'[u] = sem[u]
    /\ s \in Sem => sem'[s] = new
    /\ \A p \in Waiters(s) : p \in Waiting /\ In(p, i, {call})
    /\ Moves(Waiting \ Waiters(s), Running \cup Waiters(s))
    /\ \A p \in Waiting' : p \in Waiting /\ ~In(p, i, {call})
    /\ \A p \in Waiting : ~In(p, i, {call}) => p \in Waiting'

LEMMA ReplaceFacts ==
    ASSUME PortsOK, NEW i \in Port, NEW call \in Calls, Owns(i, call), currpid \in Pid,
           NEW new \in SemRec, Balanced(new),
           Replace(SemOf(i, call), new), Resched(Waiters(SemOf(i, call)))
    PROVE  Replaced(i, call, SemOf(i, call), new)
<1> SUFFICES ASSUME NEW s, s = SemOf(i, call) PROVE Replaced(i, call, s, new)
    OBVIOUS
<1>1. /\ TypesOK /\ ProcsOK /\ CountsOK /\ QueuesOK(i) /\ WaitersOK(i) /\ sem \in [Sem -> SemRec]
      /\ s \in Sem \cup {None} /\ None \notin Sem
    BY SemOfType, TaskAssumption DEF PortsOK, PortOK, TypesOK
<1>2. /\ sem' \in [Sem -> SemRec] /\ (\A u \in Sem : u # s => sem'[u] = sem[u])
      /\ s \in Sem => sem'[s] = new
    BY <1>1 DEF Replace
<1>3. CountsOK'
    BY <1>1, <1>2 DEF CountsOK
<1>4. \A p \in Waiters(s) : p \in Waiting /\ In(p, i, {call})
    BY <1>1 DEF QueuesOK, Waiters
<1>5. Moves(Waiting \ Waiters(s), Running \cup Waiters(s))
    <2>1. Waiters(s) \subseteq Waiting /\ Resched(Waiters(s))
        BY <1>4
    <2> QED
        BY <1>1, <2>1, Processor, ReschedMoves
<1>6. \A p \in Waiting : In(p, i, {call}) => p \in Waiters(s)
    <2> SUFFICES ASSUME NEW p \in Waiting, In(p, i, {call}) PROVE p \in Waiters(s)
        OBVIOUS
    <2>1. In(p, i, Calls) /\ cont[p].at = call
        BY DEF In
    <2> QED
        BY <1>1, <2>1 DEF WaitersOK
<1>7. Waiting' = Waiting \ Waiters(s)
    BY <1>5 DEF Moves
<1> QED
    BY <1>2, <1>3, <1>4, <1>5, <1>6, <1>7 DEF Replaced

LEMMA NewEntries ==
    ASSUME NEW n \in Nat
    PROVE  /\ NewSem(n) \in SemRec /\ Balanced(NewSem(n))
           /\ NewSem(n).used /\ NewSem(n).count = n /\ NewSem(n).queue = <<>>
           /\ FreeSem \in SemRec /\ Balanced(FreeSem)
<1>1. <<>> \in Seq(Pid) /\ IsInjective(<<>>)
    BY EmptyQueue
<1>2. NewSem(n) \in SemRec /\ FreeSem \in SemRec
    BY <1>1 DEF NewSem, FreeSem, SemRec
<1>3. Balanced(NewSem(n))
    BY <1>1 DEF NewSem, Balanced
<1>4. Balanced(FreeSem)
    BY <1>1 DEF FreeSem, Balanced
<1> QED
    BY <1>2, <1>3, <1>4 DEF NewSem

(* A step of a clearing that resets or deletes one semaphore of port i. *)
LEMMA ClearLocal ==
    ASSUME PortsOK, NEW i \in Port, NEW call \in Calls, Owns(i, call), currpid \in Pid,
           NEW new \in SemRec, Balanced(new), Concerns(currpid, i),
           Replace(SemOf(i, call), new), Resched(Waiters(SemOf(i, call))),
           NEW c \in Pending, c.at \in Clears, c.port = i, Goto(c),
           UNCHANGED <<ptssem, ptrsem, ptmaxcnt, ptnextid>>,
           NEW state \in {"ALLOC", "LIMBO"}, ptstate' = [ptstate EXCEPT ![i] = state],
           NEW seq \in Int, ptseq' = [ptseq EXCEPT ![i] = seq],
           ptqueue' = [ptqueue EXCEPT ![i] = <<>>], ptfree' \in Nat
    PROVE  Local(i) /\ TypesOK' /\ ProcsOK' /\ CountsOK'
<1>1. TypesOK /\ ProcsOK /\ OwnersOK /\ cont \in [Pid -> Conts] /\ currpid \notin Waiting
    BY Processor, CurrentRuns DEF PortsOK, TypesOK
<1>2. Replaced(i, call, SemOf(i, call), new)
    BY ReplaceFacts
<1>3. /\ \A p \in Pid : cont'[p] = IF p = currpid THEN c ELSE cont[p]
      /\ cont' \in [Pid -> Conts]
    BY <1>1 DEF Goto, Conts
<1>4. \A p \in Pid : p \in Waiting' => p \in Waiting /\ p # currpid /\ cont'[p] = cont[p]
    BY <1>1, <1>2, <1>3 DEF Replaced
<1>5. TypesOK'
    <2>1. <<>> \in Seq(Msg)
        OBVIOUS
    <2> QED
        BY <1>1, <1>2, <1>3, <2>1 DEF TypesOK, Replaced, Moves
<1>6. ProcsOK'
    <2>1. \A p \in Pid : prstate'[p] = "WAIT" => cont'[p].at \in Calls
        BY <1>1, <1>4 DEF ProcsOK, Waiting
    <2> QED
        BY <1>2, <2>1 DEF ProcsOK, Replaced, Moves
<1>7. Local(i)
    <2>1. \A u \in Sem : sem'[u] = sem[u] \/ \E any \in Calls : Owns(i, any) /\ SemOf(i, any) = u
        BY <1>2 DEF Replaced
    <2>2. \A j \in Port \ {i}, any \in Calls :
            Owns(j, any) /\ SemOf(j, any) # None => sem'[SemOf(j, any)] = sem[SemOf(j, any)]
        BY <1>1, <2>1, OwnSemaphore
    <2>3. ASSUME NEW p \in Pid
          PROVE  \/ /\ cont'[p] = cont[p] /\ (p \in Waiting' <=> p \in Waiting)
                    /\ p \in Running' => p \in Running
                 \/ Concerns(p, i) /\ Concerns(p, i)'
        <3>1. CASE p = currpid
            BY <1>3, <3>1 DEF Concerns, In
        <3>2. CASE p # currpid /\ p \in Waiters(SemOf(i, call))
            <4>1. In(p, i, Calls \cup Clears) /\ cont'[p] = cont[p]
                BY <1>2, <1>3, <3>2 DEF In, Replaced
            <4> QED
                BY <4>1 DEF Concerns, In
        <3>3. CASE p # currpid /\ p \notin Waiters(SemOf(i, call))
            BY <1>2, <1>3, <3>3 DEF Replaced, Moves
        <3> QED
            BY <3>1, <3>2, <3>3
    <2>4. \A j \in Port \ {i} : ptstate'[j] = ptstate[j] /\ ptseq'[j] = ptseq[j] /\ ptqueue'[j] = ptqueue[j]
        BY <1>1 DEF TypesOK
    <2> QED
        BY <2>2, <2>3, <2>4 DEF Local
<1> QED
    BY <1>2, <1>5, <1>6, <1>7 DEF Replaced

(* ptreset and ptdelete begin: label says which, new is the senders' semaphore. *)
LEMMA ClearKeeps ==
    ASSUME PortsInv, NEW i \in Port, NEW label, NEW new, Clear(i, label), Replace(ptssem[i], new),
           \/ label = "ptreset" /\ new = NewSem(ptmaxcnt[i])
           \/ label = "ptdelete" /\ new = FreeSem
    PROVE  PortsInv'
<1>1. /\ PortsOK /\ TypesOK /\ ProcsOK /\ OwnersOK /\ PortOK(i) /\ currpid \in Pid
      /\ cont \in [Pid -> Conts] /\ ptmaxcnt[i] \in Nat /\ ptseq[i] \in Int /\ ptfree \in Nat
      /\ ptqueue[i] \in Seq(Msg)
    BY CurrentProcess DEF PortsInv, PortsOK, TypesOK, Clear, InUser
<1>2. ptstate[i] = "ALLOC" /\ \A call \in Calls : Owns(i, call)
    BY DEF Clear, Owns
<1>3. /\ new \in SemRec /\ Balanced(new)
      /\ label = "ptreset" => new.used /\ new.count = ptmaxcnt[i] /\ new.queue = <<>>
    BY <1>1, NewEntries
<1> DEFINE c == Doing(label, i, None)
<1>4. c \in Pending /\ c.at = label /\ c.port = i /\ label \in Clears /\ label \notin Calls /\ c.at \in Clears
    BY <1>1 DEF Doing, Pending, Clears, Resets, Calls
<1> HIDE DEF c
<1>5. SemOf(i, "ptsend") = ptssem[i] /\ "ptsend" \in Calls /\ Concerns(currpid, i)
    BY DEF SemOf, Calls, Concerns, Clear, InUser
<1>6. /\ Goto(c) /\ UNCHANGED <<ptssem, ptrsem, ptmaxcnt, ptnextid>>
      /\ ptstate' = [ptstate EXCEPT ![i] = "LIMBO"]
      /\ ptseq' = [ptseq EXCEPT ![i] = ptseq[i] + 1]
      /\ ptqueue' = [ptqueue EXCEPT ![i] = <<>>]
      /\ ptfree' = ptfree + Len(ptqueue[i])
      /\ Resched(Waiters(ptssem[i]))
    BY DEF Clear, c
<1>7. "LIMBO" \in {"ALLOC", "LIMBO"} /\ ptseq[i] + 1 \in Int /\ ptfree' \in Nat
    BY <1>1, <1>6
<1>8. Local(i) /\ TypesOK' /\ ProcsOK' /\ CountsOK'
    BY <1>1, <1>2, <1>3, <1>4, <1>5, <1>6, <1>7, ClearLocal
<1>9. Replaced(i, "ptsend", ptssem[i], new)
    BY <1>1, <1>2, <1>3, <1>5, <1>6, ReplaceFacts
<1>10. /\ ptstate'[i] = "LIMBO" /\ ptseq'[i] = ptseq[i] + 1 /\ ptqueue'[i] = <<>>
       /\ ptssem' = ptssem /\ ptrsem' = ptrsem /\ ptmaxcnt' = ptmaxcnt
       /\ \A call : SemOf(i, call)' = SemOf(i, call)
    BY <1>1, <1>6 DEF TypesOK, SemOf
<1>11. /\ \A p \in Pid : cont'[p] = IF p = currpid THEN c ELSE cont[p]
       /\ currpid \notin Waiting
    BY <1>1, <1>6, Processor, CurrentRuns DEF Goto
<1>12. \A p \in Waiting' : /\ p \in Pid /\ p \in Waiting /\ p # currpid /\ cont'[p] = cont[p]
                           /\ ~In(p, i, {"ptsend"})
    BY <1>9, <1>11 DEF Replaced, Waiting
<1>13. \A p \in Pid : ~In(p, i, Clears)
    BY <1>1, <1>2 DEF PortOK, ClearOK
<1>14. \A p \in Pid : In(p, i, Clears)' <=> p = currpid
    BY <1>4, <1>11, <1>13 DEF In
<1>15. \A p \in Pid : In(p, i, Calls)' => p # currpid /\ In(p, i, Calls) /\ cont'[p] = cont[p]
    BY <1>4, <1>11 DEF In
<1>16. Owns(i, "ptsend")' => label = "ptreset"
    <2>1. \A p \in Pid : In(p, i, Resets)' => In(p, i, Clears)' /\ p = currpid
        BY <1>14 DEF In, Clears
    <2>2. \A p \in Pid : In(p, i, Resets)' => label \in Resets
        BY <1>4, <1>11, <2>1 DEF In
    <2>3. label \in Resets => label = "ptreset"
        BY DEF Resets
    <2> QED
        BY <1>10, <2>2, <2>3 DEF Owns
<1>17. ptrsem[i] # None => ptrsem[i] \in Sem /\ sem'[ptrsem[i]] = sem[ptrsem[i]]
    <2>1. ptrsem[i] # None => ptrsem[i] # ptssem[i] /\ ptrsem[i] \in Sem
        BY <1>1, <1>2 DEF OwnersOK, SemOf, Calls, TypesOK
    <2> QED
        BY <1>9, <2>1 DEF Replaced
<1>18. QueuesOK(i)'
    <2> SUFFICES ASSUME NEW call \in Calls, Owns(i, call)', SemOf(i, call) # None
                 PROVE  /\ sem'[SemOf(i, call)].used
                        /\ \A p \in ToSet(sem'[SemOf(i, call)].queue) : p \in Waiting' /\ In(p, i, {call})'
        BY <1>10 DEF QueuesOK
    <2>1. CASE call = "ptsend"
        <3>1. label = "ptreset" /\ SemOf(i, call) = ptssem[i] /\ ptssem[i] \in Sem
            BY <1>1, <1>16, <2>1 DEF SemOf, TypesOK
        <3>2. sem'[SemOf(i, call)] = new
            BY <1>9, <3>1 DEF Replaced
        <3> QED
            BY <1>3, <3>1, <3>2, EmptyQueue
    <2>2. CASE call = "ptrecv"
        <3>1. SemOf(i, call) = ptrsem[i]
            BY <2>2 DEF SemOf
        <3>2. /\ sem[SemOf(i, call)].used
              /\ \A p \in ToSet(sem[SemOf(i, call)].queue) : p \in Waiting /\ In(p, i, {call})
            BY <1>1, <1>2 DEF PortOK, QueuesOK
        <3>3. sem'[SemOf(i, call)] = sem[SemOf(i, call)]
            BY <1>17, <3>1
        <3>4. \A p \in Waiting : In(p, i, {call}) => p \in Waiting' /\ In(p, i, {call})'
            <4> SUFFICES ASSUME NEW p \in Waiting, In(p, i, {call}) PROVE p \in Waiting' /\ In(p, i, {call})'
                OBVIOUS
            <4>1. p \in Pid /\ ~In(p, i, {"ptsend"})
                BY <2>2 DEF In, Waiting
            <4>2. p \in Waiting'
                BY <1>9, <4>1 DEF Replaced
            <4> QED
                BY <1>12, <4>2 DEF In
        <3> QED
            BY <3>2, <3>3, <3>4
    <2> QED
        BY <2>1, <2>2 DEF Calls
<1>19. WaitersOK(i)'
    <2> SUFFICES ASSUME NEW p \in Pid, p \in Waiting', In(p, i, Calls)'
                 PROVE  /\ p \in Waiters(SemOf(i, cont[p].at))'
                        /\ cont'[p].at = "ptrecv" /\ ptseq'[i] = cont'[p].seq + 1
        BY <1>10, <1>12 DEF WaitersOK
    <2>1. p \in Waiting /\ In(p, i, Calls) /\ cont'[p] = cont[p] /\ ~In(p, i, {"ptsend"})
        BY <1>12, <1>15
    <2>2. cont[p].at = "ptrecv" /\ cont[p].port = i
        BY <2>1 DEF In, Calls
    <2>3. p \in Waiters(SemOf(i, cont[p].at)) /\ StillThere(cont[p])
        BY <1>1, <1>2, <2>1 DEF PortOK, WaitersOK
    <2>4. SemOf(i, cont[p].at) = ptrsem[i] /\ SemOf(i, cont[p].at)' = ptrsem[i]
        BY <1>10, <2>1, <2>2 DEF SemOf
    <2>5. p \in Waiters(SemOf(i, cont[p].at))'
        BY <1>17, <2>3, <2>4 DEF Waiters
    <2> QED
        BY <1>1, <1>10, <2>1, <2>2, <2>3, <2>5 DEF StillThere
<1>20. ClearOK(i)'
    <2>1. label = "ptreset" /\ ptssem[i] # None => sem'[ptssem[i]].count = ptmaxcnt[i]
        BY <1>1, <1>3, <1>9 DEF Replaced, TypesOK
    <2>2. label \in Resets => label = "ptreset"
        BY DEF Resets
    <2>3. label \notin {"ptresetend", "ptdeleteend"}
        OBVIOUS
    <2>4. \A p \in Pid : In(p, i, Clears)' => cont'[p].at = label
        BY <1>4, <1>11, <1>14
    <2> QED
        BY <1>10, <1>14, <2>1, <2>2, <2>3, <2>4 DEF ClearOK
<1>21. SeqsOK(i)'
    <2> SUFFICES ASSUME NEW p \in Pid, In(p, i, Calls)'
                 PROVE  cont'[p].seq <= ptseq'[i] /\ cont'[p].seq < ptseq'[i]
        BY DEF SeqsOK
    <2>1. In(p, i, Calls) /\ cont'[p] = cont[p] /\ cont[p].at \in Calls
        BY <1>15 DEF In
    <2>2. cont[p].seq <= ptseq[i] /\ cont[p].seq \in Int
        BY <1>1, <2>1, ContFacts DEF PortOK, SeqsOK
    <2> QED
        BY <1>1, <1>10, <2>1, <2>2
<1>22. PortOK(i)'
    BY <1>10, <1>18, <1>19, <1>20, <1>21 DEF PortOK
<1>23. PortsOK'
    BY <1>1, <1>2, <1>8, <1>22, <1>10, LocalStep
<1>24. UnitsOK(i)'
    BY <1>10 DEF UnitsOK
<1> QED
    BY <1>8, <1>23, <1>24, LocalInv

(* They go on with the receivers' semaphore. *)
LEMMA ReceiversKeeps ==
    ASSUME PortsInv, NEW label, NEW next, NEW new, ClearReceivers(label, next, new),
           \/ label = "ptreset" /\ next = "ptresetend" /\ new = NewSem(0)
           \/ label = "ptdelete" /\ next = "ptdeleteend" /\ new = FreeSem
    PROVE  PortsInv'
<1>1. /\ PortsOK /\ TypesOK /\ ProcsOK /\ OwnersOK /\ currpid \in Pid /\ cont \in [Pid -> Conts]
      /\ cont[currpid].at = label /\ label \in Clears /\ next \in Clears /\ next \notin Calls
    BY CurrentProcess DEF PortsInv, PortsOK, TypesOK, ClearReceivers, At, Clears, Resets, Calls
<1> SUFFICES ASSUME NEW i \in Port, i = cont[currpid].port PROVE PortsInv'
    BY <1>1, ContFacts
<1>2. /\ PortOK(i) /\ ptseq[i] \in Int /\ ptmaxcnt[i] \in Nat /\ ptfree \in Nat
      /\ ptssem[i] \in Sem \cup {None} /\ ptrsem[i] \in Sem \cup {None} /\ None \notin Sem
    BY <1>1, TaskAssumption DEF PortsInv, PortsOK, TypesOK
<1>3. In(currpid, i, Clears) /\ In(currpid, i, {label}) /\ Concerns(currpid, i)
    BY <1>1 DEF In, Concerns
<1>4. /\ ptstate[i] = "LIMBO" /\ ptqueue[i] = <<>>
      /\ \A q \in Pid : In(q, i, Clears) => q = currpid
      /\ label = "ptreset" /\ ptssem[i] # None => sem[ptssem[i]].count = ptmaxcnt[i]
    BY <1>1, <1>2, <1>3 DEF PortOK, ClearOK, Resets
<1>5. label = "ptreset" => Owns(i, "ptsend") /\ Owns(i, "ptrecv")
    BY <1>1, <1>3, <1>4 DEF Owns, In, Resets
<1>6. Owns(i, "ptrecv")
    BY <1>1, <1>3, <1>4, <1>5 DEF Owns
<1>7. /\ new \in SemRec /\ Balanced(new) /\ 0 \in Nat
      /\ label = "ptreset" => new.used /\ new.count = 0 /\ new.queue = <<>>
    BY NewEntries
<1> DEFINE c == [cont[currpid] EXCEPT !.at = next]
<1>8. c \in Pending /\ c.at = next /\ c.at \in Clears /\ c.port = i
    <2>1. cont[currpid] \in Pending
        BY <1>1, ContFacts
    <2> QED
        BY <1>1, <2>1 DEF Pending, Calls
<1> HIDE DEF c
<1>9. SemOf(i, "ptrecv") = ptrsem[i] /\ "ptrecv" \in Calls /\ "ptsend" \in Calls /\ SemOf(i, "ptsend") = ptssem[i]
    BY DEF SemOf, Calls
<1>10. /\ Goto(c) /\ UNCHANGED <<ptstate, ptssem, ptrsem, ptqueue, ptseq, ptmaxcnt, ptnextid, ptfree>>
       /\ Replace(ptrsem[i], new) /\ Resched(Waiters(ptrsem[i]))
    BY DEF ClearReceivers, c, portVars
<1>11. /\ ptstate' = [ptstate EXCEPT ![i] = "LIMBO"] /\ "LIMBO" \in {"ALLOC", "LIMBO"}
       /\ ptseq' = [ptseq EXCEPT ![i] = ptseq[i]]
       /\ ptqueue' = [ptqueue EXCEPT ![i] = <<>>] /\ ptfree' \in Nat
    BY <1>1, <1>2, <1>4, <1>10 DEF TypesOK
<1>12. Local(i) /\ TypesOK' /\ ProcsOK' /\ CountsOK'
    BY <1>1, <1>2, <1>3, <1>6, <1>7, <1>8, <1>9, <1>10, <1>11, ClearLocal
<1>13. Replaced(i, "ptrecv", ptrsem[i], new)
    BY <1>1, <1>6, <1>7, <1>9, <1>10, ReplaceFacts
<1>14. \A call : SemOf(i, call)' = SemOf(i, call)
    BY <1>10 DEF SemOf
<1>15. \A p \in Pid : cont'[p] = IF p = currpid THEN c ELSE cont[p]
    BY <1>1, <1>10 DEF Goto
<1>16. \A p \in Pid : p \in Waiting' => ~In(p, i, Calls)
    <2> SUFFICES ASSUME NEW p \in Pid, p \in Waiting', In(p, i, Calls) PROVE FALSE
        OBVIOUS
    <2>1. p \in Waiting /\ ~In(p, i, {"ptrecv"})
        BY <1>13 DEF Replaced
    <2>2. cont[p].at = "ptrecv"
        BY <1>2, <1>4, <2>1 DEF PortOK, WaitersOK, StillThere, In
    <2> QED
        BY <2>1, <2>2 DEF In
<1>17. \A p \in Pid : In(p, i, Calls)' => p # currpid /\ In(p, i, Calls) /\ cont'[p] = cont[p]
    BY <1>1, <1>8, <1>15 DEF In
<1>18. \A p \in Pid : In(p, i, Clears)' => p = currpid
    BY <1>4, <1>15 DEF In
<1>19. \A p \in Pid : p \in Waiting' => ~In(p, i, Calls)'
    BY <1>16, <1>17
<1>20. \A call \in Calls : Owns(i, call)' => label = "ptreset"
    <2> SUFFICES ASSUME NEW call \in Calls, Owns(i, call)' PROVE label = "ptreset"
        OBVIOUS
    <2>1. ptstate'[i] = "LIMBO"
        BY <1>4, <1>10
    <2>2. PICK p \in Pid : \/ In(p, i, Resets)'
                           \/ In(p, i, {"ptdelete"})' \/ (p \in Waiting' /\ In(p, i, Calls)')
        BY <2>1 DEF Owns
    <2>3. In(p, i, Resets)' \/ In(p, i, {"ptdelete"})'
        BY <1>19, <2>2
    <2>4. In(p, i, Clears)'
        BY <2>3 DEF In, Clears
    <2>5. cont'[p].at = next
        BY <1>8, <1>15, <1>18, <2>4
    <2> QED
        BY <2>3, <2>5 DEF In, Resets
<1>21. \A call \in Calls : Owns(i, call)' => Owns(i, call)
    BY <1>5, <1>20 DEF Calls
<1>22. label = "ptreset" /\ ptssem[i] # None => sem'[ptssem[i]] = sem[ptssem[i]]
    <2> SUFFICES ASSUME label = "ptreset", ptssem[i] # None PROVE sem'[ptssem[i]] = sem[ptssem[i]]
        OBVIOUS
    <2>1. ptssem[i] # ptrsem[i]
        BY <1>1, <1>5, <1>9 DEF OwnersOK
    <2> QED
        BY <1>2, <1>13, <2>1 DEF Replaced
<1>23. QueuesOK(i)'
    <2> SUFFICES ASSUME NEW call \in Calls, label = "ptreset", SemOf(i, call) # None
                 PROVE  /\ sem'[SemOf(i, call)].used
                        /\ \A p \in ToSet(sem'[SemOf(i, call)].queue) : p \in Waiting' /\ In(p, i, {call})'
        BY <1>14, <1>20 DEF QueuesOK
    <2>1. CASE call = "ptrecv"
        <3>1. sem'[SemOf(i, call)] = new
            BY <1>2, <1>9, <1>13, <2>1 DEF Replaced
        <3> QED
            BY <1>7, <3>1, EmptyQueue
    <2>2. CASE call = "ptsend"
        <3>1. /\ sem[SemOf(i, call)].used
              /\ \A p \in ToSet(sem[SemOf(i, call)].queue) : p \in Waiting /\ In(p, i, {call})
            BY <1>2, <1>5, <2>2 DEF PortOK, QueuesOK
        <3>2. sem'[SemOf(i, call)] = sem[SemOf(i, call)]
            BY <1>9, <1>22, <2>2
        <3>3. \A p \in Waiting : ~In(p, i, {call})
            BY <1>2, <1>4, <2>2 DEF PortOK, WaitersOK, StillThere, In, Calls
        <3> QED
            BY <3>1, <3>2, <3>3
    <2> QED
        BY <2>1, <2>2 DEF Calls
<1>24. WaitersOK(i)'
    <2>1. \A p \in Waiting' : p \in Pid
        BY DEF Waiting
    <2> QED
        BY <1>19, <2>1 DEF WaitersOK
<1>25. ClearOK(i)'
    <2>1. \A p \in Pid : In(p, i, Clears)' => p = currpid /\ cont'[p].at = next
        BY <1>8, <1>15, <1>18
    <2>2. next \in Resets /\ ptssem[i] # None => sem'[ptssem[i]].count = ptmaxcnt[i]
        BY <1>4, <1>22 DEF Resets
    <2>3. next = "ptresetend" /\ ptrsem[i] # None => sem'[ptrsem[i]].count = 0
        BY <1>2, <1>7, <1>13 DEF Replaced
    <2>4. \A q \in Waiting' : q \in Pid
        BY DEF Waiting
    <2> QED
        BY <1>4, <1>10, <1>19, <2>1, <2>2, <2>3, <2>4 DEF ClearOK
<1>26. SeqsOK(i)'
    <2>1. ptseq' = ptseq /\ ptstate' = ptstate
        BY <1>10
    <2> QED
        BY <1>2, <1>17, <2>1 DEF PortOK, SeqsOK
<1>27. PortOK(i)'
    BY <1>4, <1>10, <1>23, <1>24, <1>25, <1>26 DEF PortOK
<1>28. PortsOK'
    BY <1>1, <1>12, <1>21, <1>27, <1>10, LocalStep
<1>29. UnitsOK(i)'
    BY <1>4, <1>10 DEF UnitsOK
<1> QED
    BY <1>12, <1>28, <1>29, LocalInv

(* They open the port again, or give its table entry back. *)
LEMMA ClearEndKeeps ==
    ASSUME PortsInv, NEW label, NEW newstate, ClearEnd(label, newstate),
           \/ label = "ptresetend" /\ newstate = "ALLOC" /\ UNCHANGED ptnextid
           \/ label = "ptdeleteend" /\ newstate = "FREE" /\ ptnextid' = cont[currpid].port
    PROVE  PortsInv'
<1>1. /\ PortsOK /\ TypesOK /\ ProcsOK /\ CountsOK /\ OwnersOK /\ currpid \in Pid /\ cont \in [Pid -> Conts]
      /\ cont[currpid].at = label /\ label \in Clears
    BY CurrentProcess DEF PortsInv, PortsOK, TypesOK, ClearEnd, At, Clears, Resets
<1> SUFFICES ASSUME NEW i \in Port, i = cont[currpid].port PROVE PortsInv'
    BY <1>1, ContFacts
<1>2. PortOK(i) /\ ptmaxcnt[i] \in Nat /\ ptstate \in [Port -> {"FREE", "ALLOC", "LIMBO"}]
    BY <1>1 DEF PortsInv, PortsOK, TypesOK
<1>3. In(currpid, i, Clears)
    BY <1>1 DEF In
<1>4. /\ ptstate[i] = "LIMBO" /\ ptqueue[i] = <<>>
      /\ \A q \in Pid : In(q, i, Clears) => q = currpid
      /\ label = "ptresetend" /\ ptssem[i] # None => sem[ptssem[i]].count = ptmaxcnt[i]
      /\ label = "ptresetend" /\ ptrsem[i] # None => sem[ptrsem[i]].count = 0
      /\ \A q \in Waiting : ~In(q, i, Calls)
    BY <1>1, <1>2, <1>3 DEF PortOK, ClearOK, Resets
<1>5. label = "ptresetend" => Owns(i, "ptsend") /\ Owns(i, "ptrecv")
    BY <1>1, <1>3, <1>4 DEF Owns, In, Resets
<1>6. /\ ptstate' = [ptstate EXCEPT ![i] = newstate]
      /\ UNCHANGED <<currpid, prstate, sem, ptssem, ptrsem, ptqueue, ptseq, ptmaxcnt, ptfree>>
      /\ Waiting' = Waiting /\ Running' = Running
    BY DEF ClearEnd, procVars, Waiting, Running
<1>7. /\ \A p \in Pid : cont'[p] = IF p = currpid THEN User ELSE cont[p]
      /\ cont' \in [Pid -> Conts]
    BY <1>1 DEF ClearEnd, Return, Goto, Conts
<1>8. \A call : SemOf(i, call)' = SemOf(i, call)
    BY <1>6 DEF SemOf
<1>9. ptstate'[i] = newstate /\ (newstate = "ALLOC" => label = "ptresetend") /\ newstate \in {"ALLOC", "FREE"}
    BY <1>1, <1>2, <1>6
<1>10. TypesOK'
    BY <1>1, <1>6, <1>7, <1>9 DEF TypesOK
<1>11. ProcsOK' /\ CountsOK'
    <2>1. CountsOK'
        BY <1>1, <1>6 DEF CountsOK
    <2>2. currpid \notin Waiting
        BY <1>1, Processor, CurrentRuns
    <2>3. ProcsOK'
        BY <1>1, <1>6, <1>7, <2>2 DEF ProcsOK, Waiting
    <2> QED
        BY <2>1, <2>3
<1>12. Local(i)
    <2>1. \A p \in Pid :
            \/ cont'[p] = cont[p] /\ (p \in Waiting' <=> p \in Waiting) /\ (p \in Running' => p \in Running)
            \/ Concerns(p, i) /\ Concerns(p, i)'
        <3> TAKE p \in Pid
        <3>1. CASE p = currpid
            BY <1>1, <1>7, <3>1 DEF Concerns, In
        <3> QED
            BY <1>6, <1>7, <3>1
    <2>2. \A j \in Port \ {i} : ptstate'[j] = ptstate[j]
        BY <1>2, <1>6
    <2> QED
        BY <1>6, <2>1, <2>2 DEF Local
<1>13. \A call \in Calls : Owns(i, call)' => Owns(i, call) /\ newstate = "ALLOC"
    BY <1>5, <1>9 DEF Owns, Calls
<1>14. \A p \in Pid : In(p, i, Calls)' => In(p, i, Calls) /\ cont'[p] = cont[p]
    BY <1>7, UserNoCall DEF In
<1>15. QueuesOK(i)'
    <2> SUFFICES ASSUME NEW call \in Calls, Owns(i, call), SemOf(i, call) # None
                 PROVE  /\ sem[SemOf(i, call)].used
                        /\ \A p \in ToSet(sem[SemOf(i, call)].queue) : p \in Waiting /\ In(p, i, {call})'
        BY <1>6, <1>8, <1>13 DEF QueuesOK
    <2>1. /\ sem[SemOf(i, call)].used
          /\ \A p \in ToSet(sem[SemOf(i, call)].queue) : p \in Waiting /\ In(p, i, {call})
        BY <1>2 DEF PortOK, QueuesOK
    <2>2. \A p \in Waiting : ~In(p, i, {call})
        BY <1>4 DEF In
    <2> QED
        BY <2>1, <2>2
<1>16. WaitersOK(i)'
    <2>1. \A p \in Waiting' : p \in Pid /\ ~In(p, i, Calls)'
        BY <1>4, <1>6, <1>14 DEF Waiting
    <2> QED
        BY <2>1 DEF WaitersOK
<1>17. ClearOK(i)'
    <2>1. \A p \in Pid : ~In(p, i, Clears)'
        BY <1>4, <1>7, UserNoCall DEF In
    <2> QED
        BY <2>1 DEF ClearOK
<1>18. SeqsOK(i)' /\ \A p \in Pid : In(p, i, Calls)' => cont'[p].seq # ptseq[i]
    <2>1. \A p \in Pid : In(p, i, Calls) => cont[p].seq < ptseq[i] /\ cont[p].seq \in Int
        BY <1>1, <1>2, <1>4, ContFacts DEF PortOK, SeqsOK, In
    <2>2. ptseq[i] \in Int
        BY <1>1 DEF TypesOK
    <2> QED
        BY <1>6, <1>9, <1>14, <2>1, <2>2 DEF SeqsOK
<1>19. PortOK(i)'
    BY <1>4, <1>6, <1>15, <1>16, <1>17, <1>18 DEF PortOK
<1>20. PortsOK'
    BY <1>1, <1>10, <1>11, <1>12, <1>13, <1>19, <1>6, LocalStep
<1>21. UnitsOK(i)'
    <2> SUFFICES ASSUME newstate = "ALLOC"
                 PROVE  /\ Claims(i, "ptsend")' + Len(ptqueue[i]) <= ptmaxcnt[i]
                        /\ Claims(i, "ptrecv")' <= Len(ptqueue[i])
        BY <1>6, <1>9 DEF UnitsOK
    <2>1. \A call \in Calls : Granted(i, call)' = {}
        <3> SUFFICES ASSUME NEW call \in Calls, NEW p \in Pid, p \in Granted(i, call)' PROVE FALSE
            BY DEF Granted
        <3>1. In(p, i, Calls)' /\ cont'[p].seq = ptseq'[i]
            BY DEF Granted, In
        <3> QED
            BY <1>6, <1>18, <3>1
    <2>2. "ptsend" \in Calls /\ "ptrecv" \in Calls /\ SemOf(i, "ptsend") = ptssem[i] /\ SemOf(i, "ptrecv") = ptrsem[i]
        BY DEF Calls, SemOf
    <2>3. Cardinality(Granted(i, "ptsend")') = 0 /\ Cardinality(Granted(i, "ptrecv")') = 0
        BY <2>1, <2>2, FS_EmptySet
    <2>4. Units(SemOf(i, "ptsend"))' <= ptmaxcnt[i] /\ Units(SemOf(i, "ptrecv"))' = 0
        BY <1>2, <1>4, <1>6, <1>8, <1>9, <2>2 DEF Units
    <2>5. Units(SemOf(i, "ptsend"))' \in Nat
        BY <1>1, <1>10, ClaimsType
    <2>6. Len(ptqueue[i]) = 0
        BY <1>4
    <2> QED
        BY <1>2, <2>3, <2>4, <2>5, <2>6 DEF Claims
<1> QED
    BY <1>12, <1>20, <1>21, LocalInv

(* A semaphore that nobody uses has no waiters, and no port owns it. *)
LEMMA UnusedApart ==
    ASSUME PortsOK, NEW u \in Unused
    PROVE  u \in Sem /\ \A j \in Port, call \in Calls : Owns(j, call) => SemOf(j, call) # u
<1>1. u \in Sem /\ ~sem[u].used /\ u # None
    BY TaskAssumption DEF Unused
<1>2. ASSUME NEW j \in Port, NEW call \in Calls, Owns(j, call), SemOf(j, call) = u PROVE FALSE
    BY <1>1, <1>2 DEF PortsOK, PortOK, QueuesOK
<1> QED
    BY <1>1, <1>2

LEMMA CreateKeeps ==
    ASSUME PortsInv, NEW count \in Counts, PtCreate(count)
    PROVE  PortsInv' /\ ptqueue' = ptqueue /\ ptfree' = ptfree
<1>1. PICK k \in Port, s \in Sem \cup {None}, r \in Sem \cup {None} :
        LET i == Candidate(k)
        IN  /\ InUser /\ FreeAfter(k) /\ ptseq[i] < MaxSeq
            /\ IF Unused = {} THEN s = None ELSE s \in Unused
            /\ IF Unused \ {s} = {} THEN r = None ELSE r \in Unused \ {s}
            /\ sem' = [t \in Sem |-> CASE t = s -> NewSem(count) [] t = r -> NewSem(0)
                                       [] OTHER -> sem[t]]
            /\ ptstate' = [ptstate EXCEPT ![i] = "ALLOC"]
            /\ ptssem' = [ptssem EXCEPT ![i] = s]
            /\ ptrsem' = [ptrsem EXCEPT ![i] = r]
            /\ ptqueue' = [ptqueue EXCEPT ![i] = <<>>]
            /\ ptseq' = [ptseq EXCEPT ![i] = @ + 1]
            /\ ptmaxcnt' = [ptmaxcnt EXCEPT ![i] = count]
            /\ ptnextid' = (i + 1) % NPORTS
            /\ UNCHANGED <<procVars, cont, ptfree, panicked>>
    BY Zenon DEF PtCreate
<1>2. /\ PortsOK /\ TypesOK /\ ProcsOK /\ CountsOK /\ OwnersOK /\ currpid \in Pid /\ cont \in [Pid -> Conts]
      /\ sem \in [Sem -> SemRec] /\ None \notin Sem
    BY <1>1, CurrentProcess, TaskAssumption DEF PortsInv, PortsOK, TypesOK, InUser
<1>3. Candidate(k) \in Port /\ ptnextid' \in Port /\ count \in Nat /\ ptstate[Candidate(k)] = "FREE"
    <2> DEFINE i == Candidate(k)
    <2>1. ptnextid \in Nat /\ k \in Nat /\ NPORTS \in Nat \ {0} /\ count \in Nat
        BY <1>2, PortAssumption DEF TypesOK, Port
    <2>2. ptstate[i] = "FREE"
        BY <1>1 DEF FreeAfter
    <2>3. i \in Port
        BY <2>1 DEF Candidate, Port
    <2>4. i \in Nat
        BY <2>3, <2>1 DEF Port
    <2>5. ptnextid' = (i + 1) % NPORTS
        BY <1>1
    <2> HIDE DEF i
    <2>6. ptnextid' \in Port
        BY <2>1, <2>4, <2>5 DEF Port
    <2> QED
        BY <2>1, <2>2, <2>3, <2>6 DEF i
<1> SUFFICES ASSUME NEW i \in Port, i = Candidate(k)
             PROVE  PortsInv' /\ ptqueue' = ptqueue /\ ptfree' = ptfree
    BY <1>3
<1>4. /\ ptstate[i] = "FREE"
      /\ ptstate' = [ptstate EXCEPT ![i] = "ALLOC"]
      /\ ptssem' = [ptssem EXCEPT ![i] = s]
      /\ ptrsem' = [ptrsem EXCEPT ![i] = r]
      /\ ptqueue' = [ptqueue EXCEPT ![i] = <<>>]
      /\ ptseq' = [ptseq EXCEPT ![i] = @ + 1]
      /\ ptmaxcnt' = [ptmaxcnt EXCEPT ![i] = count]
      /\ UNCHANGED <<currpid, prstate, cont, ptfree>>
      /\ Waiting' = Waiting /\ Running' = Running
    BY <1>1, <1>3 DEF procVars, Waiting, Running
<1>5. /\ s # None => s \in Unused /\ s \in Sem
      /\ r # None => r \in Unused /\ r \in Sem /\ r # s
    BY <1>1 DEF Unused
<1>6. /\ \A t \in Sem : t # s /\ t # r => sem'[t] = sem[t]
      /\ s # None => sem'[s] = NewSem(count)
      /\ r # None => sem'[r] = NewSem(0)
    BY <1>1, <1>5
<1>7. /\ NewSem(count) \in SemRec /\ Balanced(NewSem(count)) /\ NewSem(0) \in SemRec /\ Balanced(NewSem(0))
      /\ NewSem(count).used /\ NewSem(count).count = count /\ NewSem(count).queue = <<>>
      /\ NewSem(0).used /\ NewSem(0).count = 0 /\ NewSem(0).queue = <<>>
    BY <1>3, <1>4, NewEntries
<1>8. \A t \in Sem : sem'[t] \in SemRec /\ Balanced(sem'[t])
    BY <1>2, <1>5, <1>6, <1>7 DEF CountsOK
<1>9. sem' \in [Sem -> SemRec] /\ CountsOK'
    <2>1. sem' = [t \in Sem |-> sem'[t]]
        BY <1>1
    <2> QED
        BY <1>8, <2>1 DEF CountsOK
<1>10. PortOK(i) /\ ptqueue[i] = <<>> /\ UnitsOK(i) /\ ptseq[i] \in Int
    BY <1>2, <1>3, <1>4 DEF PortsInv, PortsOK, PortOK, TypesOK
<1>11. /\ ptstate'[i] = "ALLOC" /\ ptssem'[i] = s /\ ptrsem'[i] = r /\ ptseq'[i] = ptseq[i] + 1
       /\ ptqueue' = ptqueue /\ ptmaxcnt'[i] = count
       /\ SemOf(i, "ptsend")' = s /\ SemOf(i, "ptrecv")' = r
    BY <1>2, <1>3, <1>4, <1>10 DEF TypesOK, SemOf
<1>12. TypesOK'
    <2>1. s \in Sem \cup {None} /\ r \in Sem \cup {None}
        OBVIOUS
    <2> QED
        BY <1>2, <1>3, <1>4, <1>9, <1>11, <2>1, SMTT(30) DEF TypesOK
<1>13. ProcsOK'
    BY <1>2, <1>4 DEF ProcsOK
<1>14. \A j \in Port, call \in Calls : Owns(j, call) => SemOf(j, call) # s \/ s = None
    BY <1>2, <1>5, UnusedApart
<1>15. \A j \in Port, call \in Calls : Owns(j, call) => SemOf(j, call) # r \/ r = None
    BY <1>2, <1>5, UnusedApart
<1>16. Local(i)
    <2>1. \A j \in Port \ {i} :
            /\ ptstate'[j] = ptstate[j] /\ ptseq'[j] = ptseq[j] /\ ptqueue'[j] = ptqueue[j]
            /\ ptssem'[j] = ptssem[j] /\ ptrsem'[j] = ptrsem[j] /\ ptmaxcnt'[j] = ptmaxcnt[j]
        BY <1>2, <1>4 DEF TypesOK
    <2>2. \A j \in Port \ {i}, call \in Calls :
            Owns(j, call) /\ SemOf(j, call) # None => sem'[SemOf(j, call)] = sem[SemOf(j, call)]
        <3> SUFFICES ASSUME NEW j \in Port \ {i}, NEW call \in Calls, Owns(j, call), SemOf(j, call) # None
                     PROVE  sem'[SemOf(j, call)] = sem[SemOf(j, call)]
            OBVIOUS
        <3>1. SemOf(j, call) \in Sem
            BY <1>2, SemOfType
        <3>2. SemOf(j, call) # s /\ SemOf(j, call) # r
            BY <1>14, <1>15
        <3> QED
            BY <1>6, <3>1, <3>2
    <2> QED
        BY <1>4, <2>1, <2>2 DEF Local
<1>17. \A j \in Port \ {i}, call \in Calls : (Owns(j, call)' <=> Owns(j, call)) /\ SemOf(j, call)' = SemOf(j, call)
    BY <1>2, <1>3, <1>4, <1>13, <1>16, OthersOwn DEF Local, SemOf
<1>18. OwnersOK'
    <2> SUFFICES ASSUME NEW j \in Port, NEW l \in Port, NEW call \in Calls, NEW other \in Calls,
                        Owns(j, call)', Owns(l, other)', SemOf(j, call)' = SemOf(l, other)', SemOf(j, call)' # None
                 PROVE  j = l /\ call = other
        BY DEF OwnersOK
    <2>1. CASE j # i /\ l # i
        BY <1>2, <1>17, <2>1 DEF OwnersOK
    <2>2. CASE j = i /\ l = i
        BY <1>5, <1>11, <2>2 DEF Calls
    <2>3. CASE j = i /\ l # i
        BY <1>11, <1>14, <1>15, <1>17, <2>3 DEF Calls
    <2>4. CASE j # i /\ l = i
        BY <1>11, <1>14, <1>15, <1>17, <2>4 DEF Calls
    <2> QED
        BY <2>1, <2>2, <2>3, <2>4
<1>19. \A p \in Pid : \A labels : In(p, i, labels)' <=> In(p, i, labels)
    BY <1>4 DEF In
<1>20. PortOK(i)'
    <2>1. QueuesOK(i)'
        BY <1>6, <1>7, <1>11, EmptyQueue DEF QueuesOK, Calls
    <2>2. WaitersOK(i)'
        <3>1. \A p \in Waiting : p \in Pid /\ ~In(p, i, Calls)
            BY <1>3, <1>4, <1>10 DEF PortOK, WaitersOK, StillThere, In, Waiting
        <3> QED
            BY <1>4, <1>19, <3>1 DEF WaitersOK
    <2>3. ClearOK(i)'
        <3>1. \A p \in Pid : ~In(p, i, Clears)
            BY <1>3, <1>4, <1>10 DEF PortOK, ClearOK
        <3> QED
            BY <1>19, <3>1 DEF ClearOK
    <2>4. SeqsOK(i)'
        <3> SUFFICES ASSUME NEW p \in Pid, In(p, i, Calls)
                     PROVE  cont[p].seq <= ptseq[i] + 1
            BY <1>4, <1>11, <1>19 DEF SeqsOK
        <3>1. cont[p].seq <= ptseq[i] /\ cont[p].seq \in Int
            BY <1>2, <1>10, ContFacts DEF PortOK, SeqsOK, In
        <3> QED
            BY <1>10, <3>1
    <2> QED
        BY <1>11, <2>1, <2>2, <2>3, <2>4 DEF PortOK
<1>21. \A j \in Port : PortOK(j)'
    BY <1>2, <1>3, <1>4, <1>13, <1>16, <1>20, OthersOK DEF PortsOK
<1>22. PortsOK'
    BY <1>9, <1>12, <1>13, <1>18, <1>21 DEF PortsOK
<1>23. UnitsOK(i)'
    <2>1. \A call \in Calls : Granted(i, call)' = {}
        <3> SUFFICES ASSUME NEW call \in Calls, NEW p \in Pid, p \in Granted(i, call)' PROVE FALSE
            BY DEF Granted
        <3>1. In(p, i, Calls) /\ cont[p].seq = ptseq[i] + 1 /\ cont[p].at \in Calls
            BY <1>4, <1>11 DEF Granted, In
        <3>2. cont[p].seq <= ptseq[i] /\ cont[p].seq \in Int
            BY <1>2, <1>10, <3>1, ContFacts DEF PortOK, SeqsOK
        <3> QED
            BY <1>10, <3>1, <3>2
    <2>2. Cardinality(Granted(i, "ptsend")') = 0 /\ Cardinality(Granted(i, "ptrecv")') = 0
        BY <2>1, FS_EmptySet DEF Calls
    <2>3. Units(SemOf(i, "ptsend"))' <= count /\ Units(SemOf(i, "ptrecv"))' = 0
        BY <1>3, <1>4, <1>6, <1>7, <1>11 DEF Units
    <2>4. Units(SemOf(i, "ptsend"))' \in Nat
        BY <1>2, <1>3, <1>4, <1>12, ClaimsType
    <2>5. Len(ptqueue'[i]) = 0
        BY <1>10, <1>11
    <2> QED
        BY <1>3, <1>4, <1>11, <2>2, <2>3, <2>4, <2>5 DEF UnitsOK, Claims
<1> QED
    BY <1>3, <1>4, <1>11, <1>16, <1>22, <1>23, LocalInv

-----------------------------------------------------------------------------
LEMMA StutterKeeps ==
    ASSUME PortsInv, UNCHANGED vars
    PROVE  PortsInv'
<1>1. /\ UNCHANGED <<currpid, prstate, cont, sem, ptstate, ptssem, ptrsem, ptqueue, ptseq, ptmaxcnt>>
      /\ UNCHANGED <<ptnextid, ptfree>>
    BY DEF vars, taskVars, portVars
<1>2. PortsOK /\ TypesOK /\ ProcsOK /\ CountsOK /\ OwnersOK /\ \A i \in Port : PortOK(i) /\ UnitsOK(i)
    BY DEF PortsInv, PortsOK
<1>3. /\ Waiting' = Waiting /\ \A i, call : Units(SemOf(i, call))' = Units(SemOf(i, call))
      /\ \A i, call : Granted(i, call)' = Granted(i, call)
      /\ \A i, call : SemOf(i, call)' = SemOf(i, call)
    BY <1>1 DEF Waiting, Units, SemOf, Granted
<1>4. \A i, call : Owns(i, call)' <=> Owns(i, call)
    BY <1>1, <1>3 DEF Owns, In
<1>5. TypesOK' /\ ProcsOK' /\ CountsOK' /\ OwnersOK'
    BY <1>1, <1>2, <1>3, <1>4 DEF TypesOK, ProcsOK, CountsOK, OwnersOK
<1>6. ASSUME NEW i \in Port PROVE PortOK(i)' /\ UnitsOK(i)'
    <2>1. QueuesOK(i)'
        BY <1>1, <1>2, <1>3, <1>4 DEF PortOK, QueuesOK, In
    <2>2. WaitersOK(i)'
        BY <1>1, <1>2, <1>3 DEF PortOK, WaitersOK, In, Waiters, SemOf, StillThere
    <2>3. ClearOK(i)' /\ SeqsOK(i)' /\ (ptstate'[i] # "ALLOC" => ptqueue'[i] = <<>>)
        BY <1>1, <1>2, <1>3 DEF PortOK, ClearOK, SeqsOK, In
    <2>4. UnitsOK(i)'
        BY <1>1, <1>2, <1>3 DEF UnitsOK, Claims
    <2> QED
        BY <2>1, <2>2, <2>3, <2>4 DEF PortOK
<1> QED
    BY <1>5, <1>6 DEF PortsInv, PortsOK

LEMMA NextKeeps ==
    ASSUME PortsInv, [Next]_vars
    PROVE  PortsInv'
<1>1. CASE UNCHANGED vars
    BY <1>1, StutterKeeps
<1>2. ASSUME NEW count \in Counts, PtCreate(count) PROVE PortsInv'
    BY <1>2, CreateKeeps
<1>3. ASSUME NEW i \in Port, PtRecv(i) PROVE PortsInv'
    BY <1>3, RecvKeeps
<1>4. ASSUME NEW i \in Port, PtReset(i) PROVE PortsInv'
    BY <1>4, ClearKeeps DEF PtReset
<1>5. ASSUME NEW i \in Port, PtDelete(i) PROVE PortsInv'
    BY <1>5, ClearKeeps DEF PtDelete
<1>6. ASSUME NEW i \in Port, NEW msg \in Msg, PtSend(i, msg) PROVE PortsInv'
    BY <1>6, SendKeeps
<1>7. CASE PtResetReceivers
    BY <1>7, ReceiversKeeps DEF PtResetReceivers
<1>8. CASE PtDeleteReceivers
    BY <1>8, ReceiversKeeps DEF PtDeleteReceivers
<1>9. CASE PtResetEnd
    BY <1>9, ClearEndKeeps DEF PtResetEnd
<1>10. CASE PtDeleteEnd
    BY <1>10, ClearEndKeeps DEF PtDeleteEnd
<1>11. ASSUME NEW p \in Victims, Kill(p) PROVE PortsInv'
    BY <1>11, KillKeeps, PortAssumption
<1> QED
    BY <1>1, <1>2, <1>3, <1>4, <1>5, <1>6, <1>7, <1>8, <1>9, <1>10, <1>11,
       SendDoneKeeps, RecvDoneKeeps, PreemptKeeps DEF Next, PortCall, PortStep, Stopped

LEMMA InitKeeps ==
    ASSUME Init
    PROVE  PortsInv
<1>1. /\ FreeSem \in SemRec /\ Balanced(FreeSem) /\ 0 \in Nat /\ <<>> \in Seq(Msg)
      /\ NPORTS \in Nat \ {0} /\ MaxMsgs \in Nat
    BY NewEntries, PortAssumption
<1>2. /\ currpid \in Pid /\ prstate = [p \in Pid |-> IF p = currpid THEN "CURR" ELSE "READY"]
      /\ cont = [p \in Pid |-> User] /\ sem = [s \in Sem |-> FreeSem]
      /\ ptstate = [i \in Port |-> "FREE"] /\ ptqueue = [i \in Port |-> <<>>]
      /\ ptssem = [i \in Port |-> None] /\ ptrsem = [i \in Port |-> None]
      /\ ptseq = [i \in Port |-> 0] /\ ptmaxcnt = [i \in Port |-> 0] /\ ptnextid = 0 /\ ptfree = MaxMsgs
    BY DEF Init, TaskInit
<1>3. 0 \in Port
    BY <1>1 DEF Port
<1>4. TypesOK
    <2>1. prstate \in [Pid -> States]
        BY <1>2 DEF States
    <2>2. cont \in [Pid -> Conts]
        BY <1>2 DEF Conts
    <2>3. ptseq \in [Port -> Int] /\ ptmaxcnt \in [Port -> Nat]
        BY <1>2
    <2> QED
        BY <1>1, <1>2, <1>3, <2>1, <2>2, <2>3 DEF TypesOK
<1>5. ProcsOK /\ Waiting = {}
    BY <1>2 DEF ProcsOK, Waiting
<1>6. CountsOK
    BY <1>1, <1>2 DEF CountsOK
<1>7. \A p \in Pid, i \in Port : ~In(p, i, Calls) /\ ~In(p, i, Clears)
    BY <1>2, UserNoCall DEF In
<1>8. \A i \in Port, call \in Calls : ~Owns(i, call)
    BY <1>2 DEF Owns
<1>9. \A i \in Port : PortOK(i) /\ UnitsOK(i)
    BY <1>2, <1>5, <1>7, <1>8 DEF PortOK, QueuesOK, WaitersOK, ClearOK, SeqsOK, UnitsOK
<1> QED
    BY <1>4, <1>5, <1>6, <1>8, <1>9 DEF PortsInv, PortsOK, OwnersOK

(* The whole invariant, for any number of ports, processes and semaphores. *)
THEOREM PortsInvariant == Spec => []PortsInv
<1>1. Init => PortsInv
    BY InitKeeps
<1>2. PortsInv /\ [Next]_vars => PortsInv'
    BY NextKeeps
<1> QED
    BY <1>1, <1>2, PTL DEF Spec

(* ptssem and ptrsem never promise more than the port holds: places, promises and
   messages stay within the size, and a receiver that was given a unit finds a
   message, whoever clears the port or is killed meanwhile. *)
THEOREM PortUnits == Spec => []UnitsAccounted
<1>1. PortsInv => UnitsAccounted
    BY DEF PortsInv, UnitsOK, Claims, SemOf, UnitsAccounted, OpenPorts
<1> QED
    BY <1>1, PortsInvariant, PTL

(* Whoever waits in ptsend or ptrecv waits on a semaphore of the port as it is
   now, or is a receiver that the clearing under way has yet to release. *)
THEOREM PortWaiters == Spec => []WaitersBelong
<1>1. ASSUME PortsInv PROVE WaitersBelong
    <2> SUFFICES ASSUME NEW p \in Pid, prstate[p] = "WAIT", NEW i, i = cont[p].port
                 PROVE  /\ p \in Waiters(IF cont[p].at = "ptsend" THEN ptssem[i] ELSE ptrsem[i])
                        /\ \/ StillThere(cont[p])
                           \/ ptstate[i] = "LIMBO" /\ cont[p].at = "ptrecv" /\ ptseq[i] = cont[p].seq + 1
        BY DEF WaitersBelong
    <2>1. TypesOK /\ ProcsOK /\ \A j \in Port : WaitersOK(j)
        BY <1>1 DEF PortsInv, PortsOK, PortOK
    <2>2. cont[p].at \in Calls /\ p \in Waiting
        BY <2>1 DEF ProcsOK, Waiting
    <2>3. i \in Port /\ In(p, i, Calls)
        BY <2>1, <2>2, ContFacts DEF In
    <2> QED
        BY <2>1, <2>2, <2>3 DEF WaitersOK, SemOf
<1> QED
    BY <1>1, PortsInvariant, PTL
-----------------------------------------------------------------------------
(* The messages on the queues q of all ports. *)
Total(q) == MapThenSumSet(LAMBDA i : Len(q[i]), Port)

LEMMA PortsFinite == IsFiniteSet(Port)
BY FS_Interval, PortAssumption DEF Port

LEMMA TotalSum ==
    ASSUME NEW q \in [Port -> Seq(Msg)]
    PROVE  \E g : /\ Sums(g, [i \in Port |-> Len(q[i])], Port) /\ Total(q) = g[Port]
                  /\ Adds(g, [i \in Port |-> Len(q[i])], Port)
<1> DEFINE f == [i \in Port |-> Len(q[i])]
           Pick(s) == CHOOSE y \in s : TRUE
           Eq(g) == g = [s \in SUBSET Port |-> IF s = {} THEN 0 ELSE Len(q[Pick(s)]) + g[s \ {Pick(s)}]]
           h == CHOOSE g : Eq(g)
<1>1. \A x \in Port : f[x] = Len(q[x]) /\ f[x] \in Int
    OBVIOUS
<1>2. ASSUME NEW g PROVE Sums(g, f, Port) <=> Eq(g)
    <2>1. \A s \in SUBSET Port : s # {} => Pick(s) \in Port
        OBVIOUS
    <2>2. Sums(g, f, Port) <=>
            g = [s \in SUBSET Port |-> IF s = {} THEN 0 ELSE f[Pick(s)] + g[s \ {Pick(s)}]]
        BY DEF Sums
    <2> HIDE DEF f, Pick
    <2>3. [s \in SUBSET Port |-> IF s = {} THEN 0 ELSE f[Pick(s)] + g[s \ {Pick(s)}]]
            = [s \in SUBSET Port |-> IF s = {} THEN 0 ELSE Len(q[Pick(s)]) + g[s \ {Pick(s)}]]
        BY <1>1, <2>1
    <2> QED
        BY <2>2, <2>3
<1>3. \E g : Eq(g)
    <2>1. PICK g : Sums(g, f, Port)
        <3> HIDE DEF f
        <3> QED
            BY PortsFinite, SumsExist
    <2>2. Eq(g)
        BY <1>2, <2>1
    <2> QED
        BY <2>2
<1>4. Eq(h)
    BY <1>3
<1>5. Total(q) = h[Port]
    BY DEF Total, MapThenSumSet, MapThenFoldSet
<1>6. Sums(h, f, Port)
    BY <1>2, <1>4
<1>7. Adds(h, f, Port)
    <2> HIDE DEF h, f
    <2> QED
        BY <1>1, <1>6, PortsFinite, SumsSplit
<1> QED
    BY <1>5, <1>6, <1>7

LEMMA TotalChange ==
    ASSUME NEW q \in [Port -> Seq(Msg)], NEW r \in [Port -> Seq(Msg)], NEW i \in Port,
           \A j \in Port \ {i} : r[j] = q[j]
    PROVE  Total(q) \in Int /\ Total(r) \in Int /\ Total(r) - Total(q) = Len(r[i]) - Len(q[i])
<1> DEFINE f == [j \in Port |-> Len(q[j])]
           e == [j \in Port |-> Len(r[j])]
           U == Port \ {i}
<1>1. PICK g : Sums(g, f, Port) /\ Total(q) = g[Port] /\ Adds(g, f, Port)
    BY TotalSum
<1>2. PICK h : Sums(h, e, Port) /\ Total(r) = h[Port] /\ Adds(h, e, Port)
    BY TotalSum
<1>3. /\ \A j \in Port : f[j] \in Int /\ e[j] \in Int
      /\ \A j \in U : f[j] = e[j]
      /\ f[i] = Len(q[i]) /\ e[i] = Len(r[i])
    OBVIOUS
<1>4. U \subseteq Port /\ IsFiniteSet(Port)
    BY PortsFinite
<1>5. /\ g[Port] = f[i] + g[U] /\ g[U] \in Int /\ g[Port] \in Int
      /\ h[Port] = e[i] + h[U] /\ h[U] \in Int /\ h[Port] \in Int
    BY <1>1, <1>2 DEF Adds
<1> HIDE DEF f, e, U
<1>6. g[U] = h[U]
    <2>1. /\ IsFiniteSet(Port) /\ U \subseteq Port /\ Same(f, e, U)
          /\ Integral(f, Port) /\ Integral(e, Port)
        BY <1>3, <1>4 DEF Same, Integral
    <2>2. Sums(g, f, Port) /\ Sums(h, e, Port)
        BY <1>1, <1>2
    <2> QED
        BY ONLY <2>1, <2>2, SumsEqual
<1> QED
    BY <1>1, <1>2, <1>3, <1>5, <1>6

NodesKept == ptfree' + Total(ptqueue') = ptfree + Total(ptqueue)

LEMMA QueueChange ==
    ASSUME TypesOK, TypesOK', NEW i \in Port, \A j \in Port \ {i} : ptqueue'[j] = ptqueue[j],
           ptfree' + Len(ptqueue'[i]) = ptfree + Len(ptqueue[i])
    PROVE  NodesKept
<1>0. /\ ptqueue \in [Port -> Seq(Msg)] /\ ptqueue' \in [Port -> Seq(Msg)]
      /\ ptfree \in Nat /\ ptfree' \in Nat
    BY DEF TypesOK
<1>1. Len(ptqueue[i]) \in Nat /\ Len(ptqueue'[i]) \in Nat
    BY <1>0
<1>2. /\ Total(ptqueue) \in Int /\ Total(ptqueue') \in Int
      /\ Total(ptqueue') - Total(ptqueue) = Len(ptqueue'[i]) - Len(ptqueue[i])
    BY <1>0, TotalChange
<1>3. PICK a, b, x, y, m, n : /\ a = Total(ptqueue) /\ b = Total(ptqueue')
                              /\ x = Len(ptqueue[i]) /\ y = Len(ptqueue'[i])
                              /\ m = ptfree /\ n = ptfree'
    BY Zenon
<1>4. /\ a \in Int /\ b \in Int /\ x \in Nat /\ y \in Nat /\ m \in Nat /\ n \in Nat
      /\ b - a = y - x /\ n + y = m + x
    BY <1>0, <1>1, <1>2, <1>3
<1>5. n + b = m + a
    BY ONLY <1>4
<1> QED
    BY <1>3, <1>5 DEF NodesKept

LEMMA EnqueueNodes ==
    ASSUME TypesOK, TypesOK', NEW i \in Port, NEW msg \in Msg, NEW tab, Enqueue(i, msg, tab)
    PROVE  NodesKept
<1>1. CASE UNCHANGED <<portVars, ptfree>>
    BY <1>1 DEF NodesKept, portVars
<1>2. CASE ptfree > 0 /\ ptfree' = ptfree - 1 /\ ptqueue' = [ptqueue EXCEPT ![i] = Append(@, msg)]
    <2>1. ptqueue \in [Port -> Seq(Msg)] /\ ptqueue[i] \in Seq(Msg) /\ ptfree \in Nat
        BY DEF TypesOK
    <2>2. Len(ptqueue'[i]) = Len(ptqueue[i]) + 1 /\ \A j \in Port \ {i} : ptqueue'[j] = ptqueue[j]
        BY <1>2, <2>1
    <2>3. ptfree' + Len(ptqueue'[i]) = ptfree + Len(ptqueue[i])
        BY <1>2, <2>1, <2>2
    <2> QED
        BY <2>2, <2>3, QueueChange
<1> QED
    BY <1>1, <1>2 DEF Enqueue

LEMMA DequeueNodes ==
    ASSUME TypesOK, TypesOK', NEW i \in Port, NEW tab, Dequeue(i, tab), ptqueue[i] # <<>>
    PROVE  NodesKept
<1>1. ptqueue \in [Port -> Seq(Msg)] /\ ptqueue[i] \in Seq(Msg) /\ ptfree \in Nat
    BY DEF TypesOK
<1>2. /\ ptfree' = ptfree + 1 /\ ptqueue'[i] = Tail(ptqueue[i])
      /\ \A j \in Port \ {i} : ptqueue'[j] = ptqueue[j]
    BY <1>1 DEF Dequeue
<1>3. Len(ptqueue'[i]) = Len(ptqueue[i]) - 1
    BY <1>1, <1>2
<1>4. ptfree' + Len(ptqueue'[i]) = ptfree + Len(ptqueue[i])
    BY <1>1, <1>2, <1>3
<1> QED
    BY <1>2, <1>4, QueueChange

LEMMA ClearNodes ==
    ASSUME TypesOK, TypesOK', NEW i \in Port, NEW label, Clear(i, label)
    PROVE  NodesKept
<1>1. ptqueue \in [Port -> Seq(Msg)] /\ ptqueue[i] \in Seq(Msg) /\ ptfree \in Nat
    BY DEF TypesOK
<1>2. /\ ptfree' = ptfree + Len(ptqueue[i]) /\ ptqueue'[i] = <<>>
      /\ \A j \in Port \ {i} : ptqueue'[j] = ptqueue[j]
    BY <1>1 DEF Clear
<1>3. ptfree' + Len(ptqueue'[i]) = ptfree + Len(ptqueue[i])
    BY <1>1, <1>2
<1> QED
    BY <1>2, <1>3, QueueChange

LEMMA NextNodes ==
    ASSUME PortsInv, PortsInv', [Next]_vars
    PROVE  NodesKept
<1>1. TypesOK /\ TypesOK'
    BY DEF PortsInv, PortsOK
<1>2. CASE UNCHANGED <<ptqueue, ptfree>>
    BY <1>2 DEF NodesKept
<1>3. ASSUME NEW count \in Counts, PtCreate(count) PROVE NodesKept
    BY <1>2, <1>3, CreateKeeps
<1>4. ASSUME NEW i \in Port, PtRecv(i) PROVE NodesKept
    <2>1. /\ currpid \in Pid /\ ptstate[i] = "ALLOC" /\ Concerns(currpid, i)
          /\ SemOf(i, "ptrecv") = ptrsem[i]
        BY <1>4, CurrentProcess DEF PtRecv, InUser, Concerns, SemOf
    <2>2. CASE Available(ptrsem[i]) /\ Dequeue(i, Down(sem, ptrsem[i], currpid))
        <3>1. ptqueue[i] # <<>>
            BY <2>1, <2>2, DequeueKeeps DEF HasUnit
        <3> QED
            BY <1>1, <2>2, <3>1, DequeueNodes
    <2>3. CASE PtWait(ptrsem[i], Doing("ptrecv", i, None))
        BY <1>2, <2>3 DEF PtWait, portVars
    <2> QED
        BY <1>4, <2>2, <2>3 DEF PtRecv
<1>5. ASSUME NEW i \in Port, NEW msg \in Msg, PtSend(i, msg) PROVE NodesKept
    <2>1. CASE Enqueue(i, msg, Down(sem, ptssem[i], currpid))
        BY <1>1, <2>1, EnqueueNodes
    <2>2. CASE PtWait(ptssem[i], Doing("ptsend", i, msg))
        BY <1>2, <2>2 DEF PtWait, portVars
    <2> QED
        BY <1>5, <2>1, <2>2 DEF PtSend
<1>6. ASSUME NEW i \in Port, PtReset(i) \/ PtDelete(i) PROVE NodesKept
    BY <1>1, <1>6, ClearNodes DEF PtReset, PtDelete
<1>7. ASSUME Refuse PROVE NodesKept
    BY <1>2, <1>7 DEF Refuse, portVars
<1>8. CASE PtSendDone
    <2>1. CASE StillThere(cont[currpid]) /\ Enqueue(cont[currpid].port, cont[currpid].msg, sem)
        <3>1. cont[currpid].port \in Port /\ cont[currpid].msg \in Msg
            <4>1. currpid \in Pid /\ cont[currpid].at = "ptsend" /\ "ptsend" \in Calls
                BY <1>8, CurrentProcess DEF PtSendDone, At, Calls
            <4> QED
                BY <1>1, <4>1, ContFacts
        <3> QED
            BY <1>1, <2>1, <3>1, EnqueueNodes
    <2> QED
        BY <1>7, <1>8, <2>1 DEF PtSendDone
<1>9. CASE PtRecvDone
    <2>1. CASE StillThere(cont[currpid]) /\ Dequeue(cont[currpid].port, sem)
        <3>1. At("ptrecv") /\ "ptrecv" \in Calls
            BY <1>9 DEF PtRecvDone, Calls
        <3>2. /\ currpid \in Pid /\ cont[currpid].port \in Port
              /\ ptstate[cont[currpid].port] = "ALLOC" /\ Concerns(currpid, cont[currpid].port)
              /\ HasUnit(cont[currpid].port, "ptrecv", sem)
            BY <2>1, <3>1, ReturnGranted
        <3>3. ptqueue[cont[currpid].port] # <<>>
            BY <2>1, <3>2, DequeueKeeps
        <3> QED
            BY <1>1, <2>1, <3>2, <3>3, DequeueNodes
    <2> QED
        BY <1>7, <1>9, <2>1 DEF PtRecvDone
<1>10. CASE PtResetReceivers \/ PtDeleteReceivers \/ PtResetEnd \/ PtDeleteEnd
    BY <1>2, <1>10 DEF PtResetReceivers, PtDeleteReceivers, ClearReceivers, PtResetEnd, PtDeleteEnd,
                       ClearEnd, portVars
<1>11. CASE Preempt \/ \E p \in Victims : Kill(p)
    BY <1>2, <1>11 DEF Preempt, Kill, portVars
<1>12. CASE UNCHANGED vars
    BY <1>2, <1>12 DEF vars, portVars
<1> QED
    BY <1>3, <1>4, <1>5, <1>6, <1>8, <1>9, <1>10, <1>11, <1>12 DEF Next, PortCall, PortStep, Stopped

(* Every node is on the free list or on one port's queue. *)
THEOREM PortNodes == Spec => []NodesConserved
<1> DEFINE Inv == PortsInv /\ ptfree + Total(ptqueue) = MaxMsgs
<1>1. NodesConserved <=> ptfree + Total(ptqueue) = MaxMsgs
    BY DEF NodesConserved, Total
<1>3. Init => Inv
    <2> SUFFICES ASSUME Init PROVE Inv
        OBVIOUS
    <2>1. PortsInv /\ ptfree = MaxMsgs /\ MaxMsgs \in Nat /\ \A i \in Port : ptqueue[i] = <<>>
        BY InitKeeps, PortAssumption DEF Init
    <2>2. ptqueue \in [Port -> Seq(Msg)]
        BY <2>1 DEF PortsInv, PortsOK, TypesOK
    <2>3. PICK g : /\ Sums(g, [i \in Port |-> Len(ptqueue[i])], Port) /\ Total(ptqueue) = g[Port]
        BY <2>2, TotalSum
    <2> DEFINE f == [i \in Port |-> Len(ptqueue[i])]
    <2>4. \A i \in Port : f[i] = 0
        BY <2>1
    <2> HIDE DEF f
    <2>5. g[Port] = g[{}]
        <3>1. Integral(f, Port) /\ ZeroOff(f, Port, {}) /\ {} \subseteq Port /\ Sums(g, f, Port)
            BY <2>3, <2>4 DEF Integral, ZeroOff, f
        <3> QED
            BY ONLY <3>1, PortsFinite, SumsZeros
    <2>6. g[{}] = 0
        BY <2>3, SumsStep
    <2> QED
        BY <2>1, <2>3, <2>5, <2>6
<1>4. Inv /\ [Next]_vars => Inv'
    <2> SUFFICES ASSUME PortsInv, ptfree + Total(ptqueue) = MaxMsgs, [Next]_vars
                 PROVE  PortsInv' /\ ptfree' + Total(ptqueue') = MaxMsgs
        OBVIOUS
    <2>1. PortsInv'
        BY NextKeeps
    <2>2. NodesKept
        BY <2>1, NextNodes
    <2> QED
        BY <2>1, <2>2 DEF NodesKept
<1> QED
    BY <1>1, <1>3, <1>4, PTL DEF Spec
-----------------------------------------------------------------------------
(* The messages that the ports S may hold when c gives their sizes. *)
Capacity(c, S) == MapThenSumSet(LAMBDA i : c[i], S)

LEMMA CapacityExceeds ==
    ASSUME NEW q \in [Port -> Seq(Msg)], NEW c \in [Port -> Nat], NEW S \in SUBSET Port, NEW i \in S,
           \A j \in Port \ S : q[j] = <<>>, \A j \in S : Len(q[j]) <= c[j], Len(q[i]) < c[i]
    PROVE  Capacity(c, S) \in Int /\ Total(q) \in Int /\ Capacity(c, S) > Total(q)
<1> DEFINE f == [j \in Port |-> Len(q[j])]
           U == S \ {i}
<1>1. PICK g : Sums(g, f, Port) /\ Total(q) = g[Port] /\ Adds(g, f, Port)
    BY TotalSum
<1>2. IsFiniteSet(Port) /\ IsFiniteSet(S)
    BY PortsFinite, FS_Subset
<1>3. PICK h : Sums(h, c, S) /\ Capacity(c, S) = h[S]
    <2>1. Capacity(c, S) = SumOver(c, S)
        BY DEF Capacity, SumOver
    <2> QED
        BY <1>2, <2>1, FoldIsSum
<1>4. /\ \A j \in Port : f[j] \in Int
      /\ \A j \in S : c[j] \in Int /\ f[j] <= c[j]
      /\ \A j \in Port \ S : f[j] = 0
      /\ f[i] < c[i] /\ f[i] \in Int /\ c[i] \in Int
    OBVIOUS
<1>5. U \in SUBSET S /\ U \in SUBSET Port /\ S \in SUBSET S /\ Port \in SUBSET Port
    OBVIOUS
<1>6. Adds(h, c, S)
    BY <1>2, <1>3, <1>4, SumsSplit
<1> HIDE DEF f
<1>7. g[Port] = g[S]
    <2>1. Integral(f, Port) /\ ZeroOff(f, Port, S) /\ S \subseteq Port
        BY <1>4 DEF Integral, ZeroOff
    <2> QED
        BY ONLY <1>1, <1>2, <2>1, SumsZeros
<1>8. /\ g[S] = f[i] + g[U] /\ g[U] \in Int /\ g[S] \in Int
      /\ h[S] = c[i] + h[U] /\ h[U] \in Int /\ h[S] \in Int
    BY <1>1, <1>5, <1>6 DEF Adds
<1>9. g[U] <= h[U]
    <2> HIDE DEF U
    <2>1. U \subseteq Port /\ U \subseteq S /\ \A x \in U : f[x] <= c[x]
        BY <1>4, <1>5
    <2>2. (\A x \in Port : f[x] \in Int) /\ (\A x \in S : c[x] \in Int)
        BY <1>4
    <2> QED
        BY ONLY <1>1, <1>2, <1>3, <2>1, <2>2, SumsMonotonic
<1> QED
    BY <1>1, <1>3, <1>4, <1>7, <1>8, <1>9

LEMMA ClaimsNat ==
    ASSUME TypesOK, NEW i \in Port, NEW call
    PROVE  Claims(i, call) \in Nat
<1>1. SemOf(i, call) \in Sem \cup {None} /\ sem \in [Sem -> SemRec]
    BY DEF TypesOK, SemOf
<1>2. Units(SemOf(i, call)) \in Nat
    BY <1>1, UnitsType DEF Units
<1>3. Granted(i, call) \in SUBSET Pid
    BY DEF Granted
<1>4. Cardinality(Granted(i, call)) \in Nat
    BY <1>3, PidSets
<1> QED
    BY <1>2, <1>4 DEF Claims

(* A sender finds no node although its port has a place for it. *)
RunsOut == /\ ptfree = 0
           /\ \E i \in Port : ptstate[i] = "ALLOC" /\ Claims(i, "ptsend") >= 1

LEMMA EnqueuePanics ==
    ASSUME TypesOK, NEW i \in Port, ptstate[i] = "ALLOC", currpid \in Pid,
           NEW msg, NEW tab, HasUnit(i, "ptsend", tab), Enqueue(i, msg, tab)
    PROVE  panicked' => panicked \/ (RunsOut /\ UNCHANGED portVars)
<1>1. CASE ptfree = 0 /\ UNCHANGED portVars
    <2>1. "ptsend" \in Calls
        BY DEF Calls
    <2>2. Claims(i, "ptsend") >= 1
        BY <2>1, UnitTaken
    <2>3. RunsOut
        BY <1>1, <2>2 DEF RunsOut
    <2> QED
        BY <1>1, <2>3
<1>2. CASE UNCHANGED panicked
    BY <1>2, Zenon
<1> QED
    BY <1>1, <1>2 DEF Enqueue, portVars

LEMMA NextPanics ==
    ASSUME PortsInv, [Next]_vars, panicked'
    PROVE  UNCHANGED vars \/ (RunsOut /\ UNCHANGED portVars)
<1>1. TypesOK
    BY DEF PortsInv, PortsOK
<1>2. CASE panicked
    <2>1. Stopped \/ UNCHANGED vars
        BY <1>2, Zenon DEF Next
    <2> QED
        BY <2>1 DEF Stopped
<1> SUFFICES ASSUME ~panicked, Next PROVE UNCHANGED vars \/ (RunsOut /\ UNCHANGED portVars)
    BY <1>2, Zenon
<1>3. ~UNCHANGED panicked
    BY Zenon
<1>4. ASSUME NEW i \in Port, NEW msg \in Msg, PtSend(i, msg) PROVE RunsOut /\ UNCHANGED portVars
    <2>1. /\ currpid \in Pid /\ ptstate[i] = "ALLOC" /\ "ptsend" \in Calls
          /\ SemOf(i, "ptsend") = ptssem[i] /\ InUser
        BY <1>4, CurrentProcess DEF PtSend, InUser, Calls, SemOf
    <2>2. CASE Available(ptssem[i]) /\ Enqueue(i, msg, Down(sem, ptssem[i], currpid))
        <3>1. HasUnit(i, "ptsend", Down(sem, ptssem[i], currpid))
            BY <2>1, <2>2 DEF HasUnit
        <3>2. panicked' => panicked \/ (RunsOut /\ UNCHANGED portVars)
            BY <1>1, <2>1, <2>2, <3>1, EnqueuePanics
        <3> QED
            BY <3>2, Zenon
    <2>3. ~PtWait(ptssem[i], Doing("ptsend", i, msg))
        BY <1>3, Zenon DEF PtWait
    <2> QED
        BY <1>4, <2>2, <2>3, Zenon DEF PtSend
<1>5. CASE PtSendDone
    <2>1. CASE StillThere(cont[currpid]) /\ Enqueue(cont[currpid].port, cont[currpid].msg, sem)
        <3>1. At("ptsend") /\ "ptsend" \in Calls
            BY <1>5 DEF PtSendDone, Calls
        <3>2. /\ currpid \in Pid /\ cont[currpid].port \in Port
              /\ ptstate[cont[currpid].port] = "ALLOC" /\ HasUnit(cont[currpid].port, "ptsend", sem)
            BY <2>1, <3>1, ReturnGranted
        <3>3. panicked' => panicked \/ (RunsOut /\ UNCHANGED portVars)
            BY <1>1, <2>1, <3>2, EnqueuePanics
        <3> QED
            BY <3>3, Zenon
    <2>2. ~Refuse
        BY <1>3, Zenon DEF Refuse
    <2> QED
        BY <1>5, <2>1, <2>2, Zenon DEF PtSendDone
<1>6. /\ \A count \in Counts : ~PtCreate(count)
      /\ \A i \in Port : ~PtRecv(i) /\ ~PtReset(i) /\ ~PtDelete(i)
    BY <1>3, Zenon DEF PtCreate, PtRecv, Dequeue, PtWait, PtReset, PtDelete, Clear
<1>7. ~PtRecvDone
    BY <1>3, Zenon DEF PtRecvDone, Dequeue, Refuse
<1>8. ~PtResetReceivers /\ ~PtDeleteReceivers /\ ~PtResetEnd /\ ~PtDeleteEnd
    BY <1>3, Zenon DEF PtResetReceivers, PtDeleteReceivers, ClearReceivers, PtResetEnd, PtDeleteEnd, ClearEnd
<1>9. ~Preempt /\ \A p \in Victims : ~Kill(p)
    BY <1>3, Zenon DEF Preempt, Kill
<1>10. Stopped => UNCHANGED vars
    BY DEF Stopped
<1> QED
    BY <1>4, <1>5, <1>6, <1>7, <1>8, <1>9, <1>10, Zenon DEF Next, PortCall, PortStep

(* The port system panics only when ports were created for more messages than
   ptinit was told of: as long as they were not, every sender that its port has a
   place for finds a node. *)
THEOREM PanicsOnlyOverbooked == Spec => []PanicJustified
<1> DEFINE Fits == panicked => Capacity(ptmaxcnt, OpenPorts) > MaxMsgs
<1>1. PanicJustified <=> Fits
    BY DEF PanicJustified, Capacity
<1>2. NodesConserved <=> ptfree + Total(ptqueue) = MaxMsgs
    BY DEF NodesConserved, Total
<1>3. PortsInv /\ NodesConserved /\ RunsOut => Capacity(ptmaxcnt, OpenPorts) > MaxMsgs
    <2> SUFFICES ASSUME PortsInv, ptfree + Total(ptqueue) = MaxMsgs, RunsOut
                 PROVE  Capacity(ptmaxcnt, OpenPorts) > MaxMsgs
        BY <1>2
    <2>1. PICK i \in Port : ptstate[i] = "ALLOC" /\ Claims(i, "ptsend") >= 1
        BY DEF RunsOut
    <2>2. TypesOK /\ \A j \in Port : PortOK(j) /\ UnitsOK(j)
        BY DEF PortsInv, PortsOK
    <2>3. ptqueue \in [Port -> Seq(Msg)] /\ ptmaxcnt \in [Port -> Nat] /\ OpenPorts \in SUBSET Port
        BY <2>2 DEF TypesOK, OpenPorts
    <2>4. \A j \in Port \ OpenPorts : ptqueue[j] = <<>>
        BY <2>2 DEF PortOK, OpenPorts
    <2>5. \A j \in OpenPorts : /\ Claims(j, "ptsend") \in Nat
                               /\ Claims(j, "ptsend") + Len(ptqueue[j]) <= ptmaxcnt[j]
        <3> SUFFICES ASSUME NEW j \in Port, ptstate[j] = "ALLOC"
                     PROVE  /\ Claims(j, "ptsend") \in Nat
                            /\ Claims(j, "ptsend") + Len(ptqueue[j]) <= ptmaxcnt[j]
            BY DEF OpenPorts
        <3> QED
            BY <2>2, ClaimsNat DEF UnitsOK
    <2>6. \A j \in OpenPorts : Len(ptqueue[j]) \in Nat /\ ptmaxcnt[j] \in Nat
        BY <2>3
    <2>7. \A j \in OpenPorts : Len(ptqueue[j]) <= ptmaxcnt[j]
        BY <2>5, <2>6
    <2>8. i \in OpenPorts /\ Len(ptqueue[i]) < ptmaxcnt[i]
        BY <2>1, <2>5, <2>6 DEF OpenPorts
    <2>9. /\ Total(ptqueue) \in Int /\ Capacity(ptmaxcnt, OpenPorts) \in Int
          /\ Capacity(ptmaxcnt, OpenPorts) > Total(ptqueue)
        BY <2>3, <2>4, <2>7, <2>8, CapacityExceeds
    <2> QED
        BY <2>9 DEF RunsOut
<1>4. Init => Fits
    BY Zenon DEF Init
<1>5. PortsInv /\ NodesConserved /\ Fits /\ [Next]_vars => Fits'
    <2> SUFFICES ASSUME PortsInv, NodesConserved, Fits, [Next]_vars, panicked'
                 PROVE  Capacity(ptmaxcnt, OpenPorts)' > MaxMsgs
        BY Zenon
    <2>1. UNCHANGED portVars => Capacity(ptmaxcnt, OpenPorts)' = Capacity(ptmaxcnt, OpenPorts)
        BY DEF portVars, OpenPorts
    <2>2. CASE UNCHANGED vars
        <3>1. panicked /\ UNCHANGED portVars
            BY <2>2, Zenon DEF vars
        <3>2. Capacity(ptmaxcnt, OpenPorts) > MaxMsgs
            BY <3>1, Zenon
        <3> QED
            BY <2>1, <3>1, <3>2
    <2>3. CASE RunsOut /\ UNCHANGED portVars
        BY <1>3, <2>1, <2>3
    <2> QED
        BY <2>2, <2>3, NextPanics
<1> QED
    BY <1>1, <1>4, <1>5, PortsInvariant, PortNodes, PTL DEF Spec
-----------------------------------------------------------------------------
(* What the channels and the pending calls are here. *)
Chan == [i \in Port |-> IF ptstate[i] = "ALLOC" THEN ptqueue[i] ELSE None]
Pend == [p \in Pid |-> Call(cont[p])]

ChannelStep == [Channels!Next]_(Channels!portSpecVars)

LEMMA SameChannels ==
    ASSUME Chan' = Chan, Pend' = Pend, UNCHANGED ptmaxcnt
    PROVE  ChannelStep
BY DEF ChannelStep, Chan, Pend, Channels!portSpecVars

LEMMA OpenStep ==
    ASSUME NEW i \in Port, Chan[i] = None, Chan' = [Chan EXCEPT ![i] = <<>>], ptmaxcnt'[i] \in Nat,
           ptmaxcnt' = [ptmaxcnt EXCEPT ![i] = ptmaxcnt'[i]], Pend' = Pend
    PROVE  ChannelStep
<1>1. Channels!Open(i, ptmaxcnt'[i])
    BY DEF Chan, Pend, Channels!Open, Channels!IsOpen
<1> QED
    BY <1>1 DEF ChannelStep, Channels!Next

LEMMA WaitStep ==
    ASSUME NEW p \in Pid, NEW i \in Port, NEW call \in {"send", "recv"}, Chan[i] # None, Pend[p] = None,
           Pend' = [Pend EXCEPT ![p] = [call |-> call, port |-> i]], Chan' = Chan, UNCHANGED ptmaxcnt
    PROVE  ChannelStep
<1>1. Channels!WaitIn(p, call, i)
    BY DEF Chan, Pend, Channels!WaitIn, Channels!IsOpen
<1> QED
    BY <1>1 DEF ChannelStep, Channels!Next

LEMMA SendStep ==
    ASSUME NEW p \in Pid, NEW i \in Port, NEW msg \in Msg, Chan[i] # None, Len(Chan[i]) < ptmaxcnt[i],
           Pend[p] \in {None, [call |-> "send", port |-> i]}, Pend' = [Pend EXCEPT ![p] = None],
           Chan' = [Chan EXCEPT ![i] = Append(@, msg)], UNCHANGED ptmaxcnt
    PROVE  ChannelStep
<1>1. Channels!Send(p, i, msg)
    BY DEF Chan, Pend, Channels!Send, Channels!Completes, Channels!IsOpen
<1> QED
    BY <1>1 DEF ChannelStep, Channels!Next

LEMMA RecvStep ==
    ASSUME NEW p \in Pid, NEW i \in Port, Chan[i] # None, Chan[i] # <<>>,
           Pend[p] \in {None, [call |-> "recv", port |-> i]}, Pend' = [Pend EXCEPT ![p] = None],
           Chan' = [Chan EXCEPT ![i] = Tail(@)], UNCHANGED ptmaxcnt
    PROVE  ChannelStep
<1>1. Channels!Recv(p, i)
    BY DEF Chan, Pend, Channels!Recv, Channels!Completes, Channels!IsOpen
<1> QED
    BY <1>1 DEF ChannelStep, Channels!Next

LEMMA ClearStep ==
    ASSUME NEW i \in Port, Chan[i] # None, Chan' = [Chan EXCEPT ![i] = None], UNCHANGED ptmaxcnt,
           Pend' = [p \in Pid |-> IF Pend[p] # None /\ Pend[p].port = i THEN None ELSE Pend[p]]
    PROVE  ChannelStep
<1>1. Channels!Clear(i)
    BY DEF Chan, Pend, Channels!Clear, Channels!IsOpen
<1> QED
    BY <1>1 DEF ChannelStep, Channels!Next

LEMMA AbandonStep ==
    ASSUME NEW p \in Pid, Pend' = [Pend EXCEPT ![p] = None], Chan' = Chan, UNCHANGED ptmaxcnt
    PROVE  ChannelStep
<1>1. Channels!Abandon(p)
    BY DEF Chan, Pend, Channels!Abandon
<1> QED
    BY <1>1 DEF ChannelStep, Channels!Next

-----------------------------------------------------------------------------
LEMMA ChanFacts ==
    ASSUME TypesOK, NEW i \in Port
    PROVE  /\ Chan[i] # None <=> ptstate[i] = "ALLOC"
           /\ ptstate[i] = "ALLOC" => Chan[i] = ptqueue[i]
           /\ ptmaxcnt[i] \in Nat /\ ptqueue[i] \in Seq(Msg)
BY PortAssumption DEF TypesOK, Chan

LEMMA CallFacts ==
    /\ Call(User) = None
    /\ \A c : c.at \notin Calls => Call(c) = None
    /\ \A c : ~StillThere(c) => Call(c) = None
    /\ \A c : c.at = "ptsend" /\ StillThere(c) => Call(c) = [call |-> "send", port |-> c.port]
    /\ \A c : c.at = "ptrecv" /\ StillThere(c) => Call(c) = [call |-> "recv", port |-> c.port]
BY UserNoCall DEF Call, Calls

(* Only the caller's call changes. *)
LEMMA PendChange ==
    ASSUME TypesOK, NEW p \in Pid, NEW c, cont' = [cont EXCEPT ![p] = c], UNCHANGED <<ptstate, ptseq>>
    PROVE  Pend' = [Pend EXCEPT ![p] = Call(c)]
<1>1. \A q \in Pid : cont'[q] = IF q = p THEN c ELSE cont[q]
    BY DEF TypesOK
<1>2. ASSUME NEW q \in Pid
      PROVE  Call(cont[q])' = IF q = p THEN Call(c) ELSE Call(cont[q])
    <2>1. CASE q = p
        BY <1>1, <2>1 DEF Call, StillThere
    <2>2. CASE q # p
        BY <1>1, <2>2 DEF Call, StillThere
    <2> QED
        BY <2>1, <2>2
<1>3. Pend' = [q \in Pid |-> IF q = p THEN Call(c) ELSE Call(cont[q])]
    BY <1>2 DEF Pend
<1> QED
    BY <1>3 DEF Pend

LEMMA PendSame ==
    ASSUME UNCHANGED <<cont, ptstate, ptseq>>
    PROVE  Pend' = Pend
BY DEF Pend, Call, StillThere

LEMMA ChanSame ==
    ASSUME UNCHANGED <<ptstate, ptqueue>>
    PROVE  Chan' = Chan
BY DEF Chan

LEMMA EnqueueStep ==
    ASSUME PortsInv, NEW i \in Port, ptstate[i] = "ALLOC", currpid \in Pid,
           NEW msg \in Msg, NEW tab, HasUnit(i, "ptsend", tab), Enqueue(i, msg, tab),
           Pend[currpid] \in {None, [call |-> "send", port |-> i]}
    PROVE  ChannelStep
<1>1. TypesOK /\ UnitsOK(i) /\ "ptsend" \in Calls
    BY DEF PortsInv, PortsOK, Calls
<1>2. CASE UNCHANGED <<cont, portVars>>
    BY <1>2, SameChannels, PendSame, ChanSame DEF portVars
<1>3. CASE /\ ptqueue' = [ptqueue EXCEPT ![i] = Append(@, msg)] /\ Return
           /\ UNCHANGED <<ptstate, ptssem, ptrsem, ptseq, ptmaxcnt, ptnextid>>
    <2>1. Pend' = [Pend EXCEPT ![currpid] = None]
        BY <1>1, <1>3, PendChange, CallFacts DEF Return, Goto
    <2>2. Chan' = [Chan EXCEPT ![i] = Append(@, msg)]
        BY <1>1, <1>3 DEF Chan, TypesOK
    <2>3. Len(Chan[i]) < ptmaxcnt[i]
        <3>1. Claims(i, "ptsend") >= 1 /\ Claims(i, "ptsend") \in Nat
            BY <1>1, UnitTaken, ClaimsNat
        <3>2. Len(ptqueue[i]) \in Nat /\ ptmaxcnt[i] \in Nat /\ Chan[i] = ptqueue[i]
            BY <1>1, ChanFacts
        <3>3. Claims(i, "ptsend") + Len(ptqueue[i]) <= ptmaxcnt[i]
            BY <1>1 DEF UnitsOK
        <3> QED
            BY <3>1, <3>2, <3>3
    <2>4. Chan[i] # None
        BY <1>1, ChanFacts
    <2> QED
        BY <1>3, <2>1, <2>2, <2>3, <2>4, SendStep
<1> QED
    BY <1>2, <1>3 DEF Enqueue

LEMMA DequeueStep ==
    ASSUME PortsInv, NEW i \in Port, ptstate[i] = "ALLOC", currpid \in Pid, Concerns(currpid, i),
           NEW tab, HasUnit(i, "ptrecv", tab), Dequeue(i, tab),
           Pend[currpid] \in {None, [call |-> "recv", port |-> i]}
    PROVE  ChannelStep
<1>1. TypesOK
    BY DEF PortsInv, PortsOK
<1>2. ptqueue[i] # <<>>
    BY DequeueKeeps
<1>3. /\ ptqueue' = [ptqueue EXCEPT ![i] = Tail(@)] /\ cont' = [cont EXCEPT ![currpid] = User]
      /\ UNCHANGED <<ptstate, ptssem, ptrsem, ptseq, ptmaxcnt, ptnextid>>
    BY DEF Dequeue, Return, Goto
<1>4. Pend' = [Pend EXCEPT ![currpid] = None]
    BY <1>1, <1>3, PendChange, CallFacts
<1>5. Chan' = [Chan EXCEPT ![i] = Tail(@)]
    BY <1>1, <1>3 DEF Chan, TypesOK
<1>6. Chan[i] # None /\ Chan[i] # <<>>
    BY <1>1, <1>2, ChanFacts
<1> QED
    BY <1>3, <1>4, <1>5, <1>6, RecvStep

(* A call that waits is pending. *)
LEMMA PtWaitStep ==
    ASSUME PortsInv, NEW i \in Port, ptstate[i] = "ALLOC", InUser, NEW at \in Calls, NEW msg, NEW s,
           PtWait(s, Doing(at, i, msg))
    PROVE  ChannelStep
<1>1. TypesOK /\ currpid \in Pid
    BY CurrentProcess DEF PortsInv, PortsOK, InUser
<1>2. cont' = [cont EXCEPT ![currpid] = Doing(at, i, msg)] /\ UNCHANGED portVars
    BY DEF PtWait, WaitOn, Goto
<1>3. PICK call \in {"send", "recv"} : Call(Doing(at, i, msg)) = [call |-> call, port |-> i]
    <2>1. StillThere(Doing(at, i, msg)) /\ Doing(at, i, msg).at = at /\ Doing(at, i, msg).port = i
        BY DEF StillThere, Doing
    <2> QED
        BY <2>1, CallFacts DEF Calls
<1>4. Pend' = [Pend EXCEPT ![currpid] = [call |-> call, port |-> i]]
    BY <1>1, <1>2, <1>3, PendChange DEF portVars
<1>5. Pend[currpid] = None
    BY <1>1, CallFacts DEF Pend, InUser
<1>6. Chan[i] # None /\ Chan' = Chan
    BY <1>1, <1>2, ChanFacts, ChanSame DEF portVars
<1> QED
    BY <1>1, <1>2, <1>4, <1>5, <1>6, WaitStep DEF portVars

LEMMA RefuseStep ==
    ASSUME PortsInv, Refuse, currpid \in Pid
    PROVE  ChannelStep
<1>1. TypesOK
    BY DEF PortsInv, PortsOK
<1>2. cont' = [cont EXCEPT ![currpid] = User] /\ UNCHANGED portVars /\ ~StillThere(cont[currpid])
    BY DEF Refuse, Return, Goto
<1>3. Pend' = [Pend EXCEPT ![currpid] = None] /\ Pend[currpid] = None
    BY <1>1, <1>2, PendChange, CallFacts DEF portVars, Pend
<1>4. Pend' = Pend
    BY <1>3 DEF Pend
<1> QED
    BY <1>2, <1>4, ChanSame, SameChannels DEF portVars

LEMMA ReturnStep ==
    ASSUME PortsInv, PtSendDone \/ PtRecvDone
    PROVE  ChannelStep
<1>1. PICK call \in Calls : At(call) /\ \/ call = "ptsend" /\ PtSendDone
                                        \/ call = "ptrecv" /\ PtRecvDone
    BY DEF PtSendDone, PtRecvDone, Calls
<1>2. currpid \in Pid /\ TypesOK /\ cont[currpid].at = call
    BY <1>1, CurrentProcess DEF At, PortsInv, PortsOK
<1>3. CASE Refuse
    BY <1>2, <1>3, RefuseStep
<1>4. CASE StillThere(cont[currpid]) /\ call = "ptsend" /\ Enqueue(cont[currpid].port, cont[currpid].msg, sem)
    <2>1. cont[currpid].msg \in Msg
        BY <1>1, <1>2, <1>4, ContFacts
    <2>2. /\ cont[currpid].port \in Port /\ ptstate[cont[currpid].port] = "ALLOC"
          /\ HasUnit(cont[currpid].port, "ptsend", sem)
        BY <1>1, <1>4, ReturnGranted
    <2>3. Pend[currpid] = [call |-> "send", port |-> cont[currpid].port]
        BY <1>2, <1>4, CallFacts DEF Pend
    <2> QED
        BY <1>2, <1>4, <2>1, <2>2, <2>3, EnqueueStep
<1>5. CASE StillThere(cont[currpid]) /\ call = "ptrecv" /\ Dequeue(cont[currpid].port, sem)
    <2>1. /\ cont[currpid].port \in Port /\ ptstate[cont[currpid].port] = "ALLOC"
          /\ Concerns(currpid, cont[currpid].port) /\ HasUnit(cont[currpid].port, "ptrecv", sem)
        BY <1>1, <1>5, ReturnGranted
    <2>2. Pend[currpid] = [call |-> "recv", port |-> cont[currpid].port]
        BY <1>2, <1>5, CallFacts DEF Pend
    <2> QED
        BY <1>2, <1>5, <2>1, <2>2, DequeueStep
<1> QED
    BY <1>1, <1>3, <1>4, <1>5 DEF PtSendDone, PtRecvDone

(* A port opens again only in a new life, which no call has seen. *)
LEMMA CreateStep ==
    ASSUME PortsInv, NEW count \in Counts, PtCreate(count)
    PROVE  ChannelStep
<1>1. TypesOK /\ count \in Nat
    BY PortAssumption DEF PortsInv, PortsOK
<1>2. PICK i \in Port :
        /\ ptstate[i] = "FREE" /\ UNCHANGED cont
        /\ ptstate' = [ptstate EXCEPT ![i] = "ALLOC"] /\ ptqueue' = [ptqueue EXCEPT ![i] = <<>>]
        /\ ptseq' = [ptseq EXCEPT ![i] = @ + 1] /\ ptmaxcnt' = [ptmaxcnt EXCEPT ![i] = count]
    <2>1. NPORTS \in Nat \ {0} /\ ptnextid \in 0..(NPORTS - 1)
        BY <1>1, PortAssumption DEF TypesOK, Port
    <2>2. \A k \in Port : Candidate(k) \in Port
        BY <2>1 DEF Candidate, Port
    <2> QED
        BY <2>2 DEF PtCreate, FreeAfter
<1>3. Chan[i] = None /\ ptmaxcnt'[i] = count
    BY <1>1, <1>2, ChanFacts DEF TypesOK
<1>4. Chan' = [Chan EXCEPT ![i] = <<>>]
    <2>1. \A j \in Port : /\ ptstate'[j] = IF j = i THEN "ALLOC" ELSE ptstate[j]
                          /\ ptqueue'[j] = IF j = i THEN <<>> ELSE ptqueue[j]
        BY <1>1, <1>2 DEF TypesOK
    <2> QED
        BY <2>1 DEF Chan
<1>5. Pend' = Pend
    <2>1. ASSUME NEW p \in Pid PROVE Call(cont[p])' = Call(cont[p])
        <3>1. CASE cont[p].at \notin Calls
            BY <1>2, <3>1 DEF Call, Calls
        <3>2. CASE In(p, i, Calls)
            <4>1. cont[p].seq <= ptseq[i] /\ cont[p].seq \in Int /\ ptseq[i] \in Int
                BY <1>1, <3>2, ContFacts DEF PortsInv, PortsOK, PortOK, SeqsOK, In, TypesOK
            <4>2. ptseq'[i] # cont[p].seq
                BY <1>1, <1>2, <4>1 DEF TypesOK
            <4>3. ~StillThere(cont[p]) /\ ~StillThere(cont[p])'
                BY <1>2, <3>2, <4>2 DEF StillThere, In
            <4> QED
                BY <4>3 DEF Call
        <3>3. CASE cont[p].at \in Calls /\ cont[p].port # i
            <4>1. cont[p].port \in Port
                BY <1>1, <3>3, ContFacts
            <4>2. StillThere(cont[p])' <=> StillThere(cont[p])
                BY <1>1, <1>2, <3>3, <4>1 DEF StillThere, TypesOK
            <4> QED
                BY <1>2, <4>2 DEF Call
        <3> QED
            BY <3>1, <3>2, <3>3 DEF In
    <2> QED
        BY <2>1 DEF Pend
<1> QED
    BY <1>1, <1>2, <1>3, <1>4, <1>5, OpenStep

(* Clearing ends every call at once, although it releases one after the other. *)
LEMMA ClearingStep ==
    ASSUME PortsInv, NEW i \in Port, NEW label \in Clears, Clear(i, label)
    PROVE  ChannelStep
<1>1. TypesOK /\ currpid \in Pid /\ cont[currpid] = User
    BY CurrentProcess DEF PortsInv, PortsOK, Clear, InUser
<1>2. /\ ptstate[i] = "ALLOC" /\ ptstate' = [ptstate EXCEPT ![i] = "LIMBO"]
      /\ ptqueue' = [ptqueue EXCEPT ![i] = <<>>] /\ ptseq' = [ptseq EXCEPT ![i] = @ + 1]
      /\ cont' = [cont EXCEPT ![currpid] = Doing(label, i, None)] /\ UNCHANGED ptmaxcnt
    BY DEF Clear, Goto
<1>3. Chan[i] # None
    BY <1>1, <1>2, ChanFacts
<1>4. Chan' = [Chan EXCEPT ![i] = None]
    <2>1. \A j \in Port : /\ ptstate'[j] = IF j = i THEN "LIMBO" ELSE ptstate[j]
                          /\ j # i => ptqueue'[j] = ptqueue[j]
        BY <1>1, <1>2 DEF TypesOK
    <2> QED
        BY <2>1 DEF Chan
<1>5. ASSUME NEW p \in Pid
      PROVE  Call(cont[p])' = IF Call(cont[p]) # None /\ Call(cont[p]).port = i THEN None ELSE Call(cont[p])
    <2>1. CASE p = currpid
        <3>1. Call(cont[p]) = None
            BY <1>1, <2>1, CallFacts
        <3>2. cont'[p].at \notin Calls
            BY <1>1, <1>2, <2>1 DEF TypesOK, Doing, Clears, Resets, Calls
        <3>3. Call(cont[p])' = None
            BY <3>2 DEF Call, Calls
        <3> QED
            BY <3>1, <3>3
    <2>2. CASE p # currpid
        <3>1. cont'[p] = cont[p]
            BY <1>1, <1>2, <2>2 DEF TypesOK
        <3>2. CASE cont[p].at \notin Calls
            BY <3>1, <3>2 DEF Call, Calls
        <3>3. CASE cont[p].at \in Calls
            <4>1. cont[p].port \in Port
                BY <1>1, <3>3, ContFacts
            <4>2. CASE cont[p].port = i
                <5>1. ~StillThere(cont[p])'
                    BY <1>1, <1>2, <3>1, <4>2 DEF StillThere, TypesOK
                <5>2. Call(cont[p])' = None
                    BY <5>1 DEF Call
                <5>3. Call(cont[p]) # None => Call(cont[p]).port = i
                    BY <4>2 DEF Call
                <5> QED
                    BY <5>2, <5>3
            <4>3. CASE cont[p].port # i
                <5>1. StillThere(cont[p])' <=> StillThere(cont[p])
                    BY <1>1, <1>2, <3>1, <4>1, <4>3 DEF StillThere, TypesOK
                <5>2. Call(cont[p])' = Call(cont[p])
                    BY <3>1, <5>1 DEF Call
                <5>3. Call(cont[p]) # None => Call(cont[p]).port # i
                    BY <4>3 DEF Call
                <5> QED
                    BY <5>2, <5>3
            <4> QED
                BY <4>2, <4>3
        <3> QED
            BY <3>2, <3>3
    <2> QED
        BY <2>1, <2>2
<1>6. Pend' = [p \in Pid |-> IF Pend[p] # None /\ Pend[p].port = i THEN None ELSE Pend[p]]
    <2>1. Pend' = [p \in Pid |-> IF Call(cont[p]) # None /\ Call(cont[p]).port = i THEN None
                                 ELSE Call(cont[p])]
        BY <1>5 DEF Pend
    <2> QED
        BY <2>1 DEF Pend
<1> QED
    BY <1>2, <1>3, <1>4, <1>6, ClearStep

(* The second half of a clearing is not seen. *)
LEMMA ReceiversStep ==
    ASSUME PortsInv, PtResetReceivers \/ PtDeleteReceivers
    PROVE  ChannelStep
<1>1. PICK label \in Clears, next \in Clears :
        At(label) /\ cont' = [cont EXCEPT ![currpid] = [cont[currpid] EXCEPT !.at = next]] /\ UNCHANGED portVars
    BY DEF PtResetReceivers, PtDeleteReceivers, ClearReceivers, Goto, Clears, Resets
<1>2. TypesOK /\ currpid \in Pid /\ cont[currpid].at = label
    BY <1>1, CurrentProcess DEF At, PortsInv, PortsOK
<1>3. [cont[currpid] EXCEPT !.at = next].at \notin Calls /\ cont[currpid].at \notin Calls
    BY <1>1, <1>2, ContFacts DEF Calls, Clears, Resets
<1>4. Call([cont[currpid] EXCEPT !.at = next]) = None /\ Pend[currpid] = None
    BY <1>2, <1>3, CallFacts DEF Pend
<1>5. Pend' = [Pend EXCEPT ![currpid] = None]
    <2> SUFFICES ASSUME NEW c, c = [cont[currpid] EXCEPT !.at = next]
                 PROVE  Pend' = [Pend EXCEPT ![currpid] = None]
        OBVIOUS
    <2>1. cont' = [cont EXCEPT ![currpid] = c] /\ UNCHANGED <<ptstate, ptseq>>
        BY <1>1 DEF portVars
    <2> QED
        BY <1>2, <1>4, <2>1, PendChange
<1>6. Pend' = Pend
    BY <1>4, <1>5 DEF Pend
<1> QED
    BY <1>1, <1>6, ChanSame, SameChannels DEF portVars

(* After ptreset the port opens, empty; after ptdelete it stays closed. *)
LEMMA ClearEndStep ==
    ASSUME PortsInv, PtResetEnd \/ PtDeleteEnd
    PROVE  ChannelStep
<1>1. PICK label \in Clears, newstate \in {"ALLOC", "FREE"} :
        /\ At(label) /\ ptstate' = [ptstate EXCEPT ![cont[currpid].port] = newstate]
        /\ cont' = [cont EXCEPT ![currpid] = User] /\ UNCHANGED <<ptseq, ptqueue, ptmaxcnt>>
    BY DEF PtResetEnd, PtDeleteEnd, ClearEnd, Return, Goto, Clears, Resets
<1>2. TypesOK /\ currpid \in Pid /\ cont[currpid].at = label
    BY <1>1, CurrentProcess DEF At, PortsInv, PortsOK
<1> SUFFICES ASSUME NEW i \in Port, i = cont[currpid].port PROVE ChannelStep
    BY <1>1, <1>2, ContFacts
<1>3. In(currpid, i, Clears) /\ PortOK(i)
    BY <1>1, <1>2 DEF In, PortsInv, PortsOK
<1>4. ptstate[i] = "LIMBO" /\ ptqueue[i] = <<>>
    BY <1>2, <1>3 DEF PortOK, ClearOK
<1>5. \A j \in Port : ptstate'[j] = IF j = i THEN newstate ELSE ptstate[j]
    BY <1>1, <1>2 DEF TypesOK
<1>6. ASSUME NEW p \in Pid PROVE Call(cont[p])' = Call(cont[p])
    <2>1. CASE p = currpid
        <3>1. cont'[p] = User
            BY <1>1, <1>2, <2>1 DEF TypesOK
        <3>2. Call(cont[p])' = None
            BY <3>1, UserNoCall DEF Call, Calls
        <3>3. cont[p].at \notin Calls
            BY <1>1, <1>2, <2>1 DEF Clears, Resets, Calls
        <3> QED
            BY <3>2, <3>3, CallFacts
    <2>2. CASE p # currpid
        <3>1. cont'[p] = cont[p]
            BY <1>1, <1>2, <2>2 DEF TypesOK
        <3>2. CASE cont[p].at \notin Calls
            BY <3>1, <3>2 DEF Call, Calls
        <3>3. CASE In(p, i, Calls)
            <4>1. cont[p].seq < ptseq[i] /\ cont[p].seq \in Int /\ ptseq[i] \in Int
                BY <1>2, <1>3, <1>4, <3>3, ContFacts DEF PortOK, SeqsOK, In, TypesOK
            <4>2. ~StillThere(cont[p]) /\ ~StillThere(cont[p])'
                BY <1>1, <1>4, <3>1, <3>3, <4>1 DEF StillThere, In
            <4> QED
                BY <4>2 DEF Call
        <3>4. CASE cont[p].at \in Calls /\ cont[p].port # i
            <4>1. cont[p].port \in Port
                BY <1>2, <3>4, ContFacts
            <4>2. StillThere(cont[p])' <=> StillThere(cont[p])
                BY <1>1, <1>5, <3>1, <3>4, <4>1 DEF StillThere
            <4> QED
                BY <3>1, <4>2 DEF Call
        <3> QED
            BY <3>2, <3>3, <3>4 DEF In
    <2> QED
        BY <2>1, <2>2
<1>7. Pend' = Pend
    BY <1>6 DEF Pend
<1>8. CASE newstate = "ALLOC"
    <2>1. Chan[i] = None /\ ptmaxcnt'[i] \in Nat /\ ptmaxcnt' = [ptmaxcnt EXCEPT ![i] = ptmaxcnt'[i]]
        BY <1>1, <1>2, <1>4, ChanFacts DEF TypesOK
    <2>2. Chan' = [Chan EXCEPT ![i] = <<>>]
        BY <1>1, <1>4, <1>5, <1>8 DEF Chan
    <2> QED
        BY <1>7, <2>1, <2>2, OpenStep
<1>9. CASE newstate = "FREE"
    <2>1. Chan' = Chan
        BY <1>1, <1>4, <1>5, <1>9 DEF Chan
    <2> QED
        BY <1>1, <1>7, <2>1, SameChannels
<1> QED
    BY <1>8, <1>9

LEMMA KillStep ==
    ASSUME PortsInv, NEW p \in Victims, Kill(p)
    PROVE  ChannelStep
<1>1. TypesOK /\ p \in Pid
    BY PortAssumption DEF PortsInv, PortsOK
<1>2. cont' = [cont EXCEPT ![p] = User] /\ UNCHANGED portVars
    BY DEF Kill, KillTask
<1>3. Pend' = [Pend EXCEPT ![p] = None] /\ Chan' = Chan
    BY <1>1, <1>2, PendChange, CallFacts, ChanSame DEF portVars
<1> QED
    BY <1>1, <1>2, <1>3, AbandonStep DEF portVars

LEMMA NextChannels ==
    ASSUME PortsInv, [Next]_vars
    PROVE  ChannelStep
<1>1. ASSUME NEW i \in Port, NEW msg \in Msg, PtSend(i, msg) PROVE ChannelStep
    <2>1. /\ currpid \in Pid /\ ptstate[i] = "ALLOC" /\ "ptsend" \in Calls
          /\ SemOf(i, "ptsend") = ptssem[i] /\ InUser /\ Pend[currpid] = None
        BY <1>1, CurrentProcess, CallFacts DEF PtSend, InUser, Calls, SemOf, Pend
    <2>2. CASE Available(ptssem[i]) /\ Enqueue(i, msg, Down(sem, ptssem[i], currpid))
        BY <2>1, <2>2, EnqueueStep DEF HasUnit
    <2>3. CASE PtWait(ptssem[i], Doing("ptsend", i, msg))
        BY <2>1, <2>3, PtWaitStep
    <2> QED
        BY <1>1, <2>2, <2>3 DEF PtSend
<1>2. ASSUME NEW i \in Port, PtRecv(i) PROVE ChannelStep
    <2>1. /\ currpid \in Pid /\ ptstate[i] = "ALLOC" /\ "ptrecv" \in Calls /\ Concerns(currpid, i)
          /\ SemOf(i, "ptrecv") = ptrsem[i] /\ InUser /\ Pend[currpid] = None
        BY <1>2, CurrentProcess, CallFacts DEF PtRecv, InUser, Calls, SemOf, Pend, Concerns
    <2>2. CASE Available(ptrsem[i]) /\ Dequeue(i, Down(sem, ptrsem[i], currpid))
        BY <2>1, <2>2, DequeueStep DEF HasUnit
    <2>3. CASE PtWait(ptrsem[i], Doing("ptrecv", i, None))
        BY <2>1, <2>3, PtWaitStep
    <2> QED
        BY <1>2, <2>2, <2>3 DEF PtRecv
<1>3. ASSUME NEW i \in Port, PtReset(i) \/ PtDelete(i) PROVE ChannelStep
    BY <1>3, ClearingStep DEF PtReset, PtDelete, Clears, Resets
<1>4. CASE Preempt \/ Stopped \/ UNCHANGED vars
    <2>1. UNCHANGED <<cont, portVars>>
        BY <1>4 DEF Preempt, Preempted, Stopped, vars, taskVars
    <2> QED
        BY <2>1, PendSame, ChanSame, SameChannels DEF portVars
<1> QED
    BY <1>1, <1>2, <1>3, <1>4, CreateStep, ReturnStep, ReceiversStep, ClearEndStep, KillStep
    DEF Next, PortCall, PortStep

(* Ports implement bounded channels whose clearing cancels every pending call: a call
   that began before a ptdelete or a ptreset never takes effect after it. *)
THEOREM PortsAreChannels == Spec => ImplementsChannels
<1>1. Init => Channels!Init
    <2> SUFFICES ASSUME Init PROVE Channels!Init
        OBVIOUS
    <2>1. /\ ptstate = [i \in Port |-> "FREE"] /\ ptmaxcnt = [i \in Port |-> 0]
          /\ cont = [p \in Pid |-> User]
        BY DEF Init, TaskInit
    <2>2. \A p \in Pid : Call(cont[p]) = None
        BY <2>1, CallFacts
    <2> QED
        BY <2>1, <2>2 DEF Channels!Init
<1>2. PortsInv /\ [Next]_vars => [Channels!Next]_(Channels!portSpecVars)
    BY NextChannels DEF ChannelStep
<1> QED
    BY <1>1, <1>2, PortsInvariant, PTL DEF Spec, ImplementsChannels, Channels!Spec
=============================================================================
