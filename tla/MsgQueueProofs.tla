-------------------------- MODULE MsgQueueProofs ----------------------------
(***************************************************************************)
(* Message queues, for any number of processes, any size of the rings and  *)
(* any arrays of messages.  The kernel's own invariant survives the calls  *)
(* that were added to it; no message is left waiting with a receiver that  *)
(* is blocked; and where receives are for one message at a time and        *)
(* nothing else wakes a receiver, every receive finds its message, the     *)
(* rings stay consistent, and together they are first-in first-out         *)
(* inboxes.                                                                *)
(*                                                                         *)
(* A receiver does not look at its ring when it is switched back in, so    *)
(* what it finds rests on who may make it ready: on the process states, on *)
(* the contexts, and on every call of the kernel.                          *)
(***************************************************************************)
EXTENDS MsgQueue, KernelTheorems

(* Rings without regard to their contents: receives may take what is not there. *)
Ring == [count : Int, qin : 0..(MAX_MSGS - 1), qout : 0..(MAX_MSGS - 1),
         msgq : [0..(MAX_MSGS - 1) -> Msg \cup {None}]]

(* What sendnMsg has left to do. *)
LeftOK ==
    /\ left \in [Pid -> [msg : Msg \cup {None}, to : Seq(Pid)]]
    /\ \A p \in Pid : left[p].to # <<>> => left[p].msg \in Msg

TablesOK ==
    /\ IInv /\ LeftOK
    /\ nmsg \in [Pid -> Ring] /\ result = [p \in Pid |-> result[p]]

(* A message came for p, which was ready for it or is made so. *)
Woken(p) ==
    \A q \in Pid : IF q = p /\ prstate[p] \in {"RECV", "RECTIM"}
                   THEN prstate'[q] \in Runnable ELSE Scheduled(q)

-----------------------------------------------------------------------------
(* The kernel's invariant, call by call *)
LEMMA WakeEffect ==
    ASSUME IInv, NEW p \in Pid, Wake(p)
    PROVE  Woken(p)
<1>1. SchedOK /\ DOMAIN qkey = Pid /\ ndefers \in {0, 1} /\ prstate \in [Pid -> States]
    BY DEF IInv, SchedOK, ContextOK
<1>2. CASE UNCHANGED prstate /\ prstate[p] \notin {"RECV", "RECTIM"}
    BY <1>2 DEF Woken, Scheduled
<1>3. ASSUME NEW key, DOMAIN key = Pid, Ready(p, key), prstate[p] \in {"RECV", "RECTIM"}
      PROVE  Woken(p)
    <2> DEFINE st == [prstate EXCEPT ![p] = "READY"]
    <2>1. Settled(st)
        BY <1>1, <1>3, ReadyOK DEF Runnable
    <2>2. \A q \in Pid : st[q] = IF q = p THEN "READY" ELSE prstate[q]
        BY <1>1
    <2> HIDE DEF st
    <2> QED
        BY <1>3, <2>1, <2>2 DEF Settled, Woken, Scheduled, Runnable
<1>4. CASE prstate[p] = "RECTIM" /\ Ready(p, UnsleepKeys(sleepq, p, qkey))
    BY <1>1, <1>3, <1>4, DeltaKeysDomain
<1> QED
    BY <1>1, <1>2, <1>3, <1>4 DEF Wake, dispatchVars

LEMMA SendKernel ==
    ASSUME IInv, InUser, NEW p \in Pid, Wake(p),
           UNCHANGED <<ndefers, semVars, procVars, prhasmsg, kpc>>
    PROVE  IInv'
<1>1. ndefers = 0
    BY UserFacts DEF IInv
<1>2. SchedOK' /\ SleepOK' /\ SemOK'
    BY WakeRecipientOK DEF procVars
<1>3. prhasmsg' \in [Pid -> BOOLEAN]
    BY DEF IInv, FieldsOK
<1> QED
    BY <1>2, <1>3, CallKept

LEMMA SendnMsgKernel ==
    ASSUME IInv, NEW to, NEW msg, SendnMsg(to, msg)
    PROVE  IInv'
<1> DEFINE pc == Doing("sendnmsg", None, 0)
<1>1. pc \in [at : Loops, x : Pid \cup Sem \cup {None}, n : Int] /\ pc.at \notin SemLoops
    BY DEF Doing, Loops, SemLoops
<1>2. Goto(pc) /\ InUser /\ DeferStart
    BY DEF SendnMsg, Calling
<1> HIDE DEF pc
<1>3. sstate' \in [Sem -> {"FREE", "USED"}] /\ DOMAIN qkey' = Pid /\ sstate' = sstate
    BY DEF SendnMsg, semVars, IInv, SemOK, SchedOK
<1> QED
    BY <1>1, <1>2, <1>3, EnterLoopOK DEF SendnMsg, semVars

LEMMA SendnMsgLoopKernel ==
    ASSUME IInv, LeftOK, SendnMsgLoop
    PROVE  IInv' /\ Head(left[currpid].to) \in Pid /\ currpid' = currpid
<1> DEFINE p == Head(left[currpid].to)
<1>1. currpid \in Pid /\ ContextOK /\ At("sendnmsg") /\ "sendnmsg" \in Loops /\ "sendnmsg" \notin SemLoops
    BY DEF IInv, SchedOK, SendnMsgLoop, Loops, SemLoops
<1>2. ndefers = 1 /\ \A t \in Sem : ~Resetting(t) /\ ~Deleting(t)
    BY <1>1, LoopFacts DEF SemLoops
<1>3. p \in Pid
    <2>1. left[currpid].to \in Seq(Pid) /\ left[currpid].to # <<>>
        BY <1>1 DEF LeftOK, SendnMsgLoop
    <2> QED
        BY <2>1, HeadTailProperties
<1>4. Wake(p) /\ UNCHANGED <<ndefers, semVars, procVars, prhasmsg, kpc>>
    BY DEF SendnMsgLoop
<1> HIDE DEF p
<1>5. SchedOK' /\ SleepOK' /\ SemOK' /\ currpid' = currpid
    BY <1>2, <1>3, <1>4, WakeRecipientOK DEF procVars
<1>6. CountMatchesQueue' /\ FreeOK'
    BY <1>2, <1>4, CountKept DEF IInv, FreeOK, semVars
<1>7. ContextOK'
    BY <1>1, <1>4, <1>5 DEF ContextOK, DeferredOnlyInLoops, Arguments
<1>8. FieldsOK'
    BY <1>4 DEF IInv, FieldsOK, procVars
<1> QED
    BY <1>3, <1>5, <1>6, <1>7, <1>8 DEF IInv, p

LEMMA SendnMsgEndKernel ==
    ASSUME IInv, SendnMsgEnd
    PROVE  IInv' /\ Settled(prstate)
<1>1. ndefers = 1 /\ \A t \in Sem : ~Resetting(t) /\ ~Deleting(t)
    BY LoopFacts DEF IInv, SchedOK, SendnMsgEnd, Loops, SemLoops
<1>2. /\ scount' = scount /\ scount' \in [Sem -> Int] /\ squeue' = squeue
      /\ \A s \in Sem : sstate[s] = "FREE" => scount'[s] >= 0
    BY <1>1 DEF SendnMsgEnd, semVars, IInv, SemOK, FreeOK
<1>3. \A s \in Sem : Len(squeue[s]) = IF scount'[s] < 0 THEN -scount'[s] ELSE 0
    BY <1>1, <1>2 DEF IInv, CountMatchesQueue
<1>4. IInv'
    BY <1>1, <1>2, <1>3, LeaveLoopOK DEF SendnMsgEnd, semVars
<1> QED
    BY <1>1, <1>4, DeferStopOK DEF SendnMsgEnd

(* A receiver blocks, with what it wants noted. *)
LEMMA BlockedKernel ==
    ASSUME IInv, InUser, currpid # NULLPROC, NEW n \in Int, NEW label \in {"receivemsg", "receivemsgs"},
           Block("RECV", qkey), Goto(Doing(label, None, n)),
           UNCHANGED <<ndefers, semVars, procVars, prhasmsg, sleepq>>
    PROVE  /\ IInv'
           /\ prstate'[currpid] = "RECV" /\ \A q \in Pid \ {currpid} : Scheduled(q)
<1> DEFINE st == [prstate EXCEPT ![currpid] = "RECV"]
           pc == Doing(label, None, n)
<1>0. ndefers = 0 /\ DOMAIN qkey = Pid /\ SchedOK /\ prstate[currpid] = "CURR" /\ prstate \in [Pid -> States]
    BY UserFacts DEF IInv, SchedOK, SomeoneToRun
<1>1. SchedOK' /\ Settled(st)
    BY <1>0, BlockOK DEF States, Runnable
<1>2. \A p \in Pid : st[p] = IF p = currpid THEN "RECV" ELSE prstate[p]
    BY <1>0
<1>3. /\ pc \in [at : Labels \ Loops, x : Pid \cup Sem \cup {None}, n : Int]
      /\ pc.at # "kill"
    BY SMT DEF Doing, Labels, Loops, SemLoops
<1>4. Goto(pc) /\ prhasmsg' \in [Pid -> BOOLEAN] /\ currpid \in Pid
    BY DEF IInv, FieldsOK, SchedOK
<1> HIDE DEF st, pc
<1>5. SleepOK' /\ SemOK'
    BY <1>0, <1>1, <1>2, SleepKept, SemKept DEF IInv, procVars
<1>6. IInv'
    BY <1>1, <1>3, <1>4, <1>5, GotoKept
<1> QED
    BY <1>1, <1>2, <1>4, <1>6 DEF Settled, Scheduled, Runnable

LEMMA DoneKernel == ASSUME IInv, ReceiveMsgDone PROVE IInv'
<1>1. /\ \E label \in Labels \ Loops : At(label)
      /\ Goto(User) /\ prhasmsg' \in [Pid -> BOOLEAN] /\ UNCHANGED <<ndefers, semVars, procVars>>
    BY DEF ReceiveMsgDone, Return, deferVars, IInv, FieldsOK, Labels, Loops, SemLoops
<1>2. SchedOK' /\ SleepOK' /\ SemOK'
    BY QueuesKept DEF ReceiveMsgDone, deferVars, procVars
<1>3. User.at # "kill"
    BY DEF User, Doing
<1> QED
    BY <1>1, <1>2, <1>3, UserType, GotoKept

(* A receive that finds enough: only its ring and its result change. *)
LEMMA TakenKernel ==
    ASSUME IInv, InUser, UNCHANGED <<dispatchVars, ndefers, semVars, procVars, prhasmsg, sleepq, kpc>>
    PROVE  IInv'
<1>1. SchedOK' /\ SleepOK' /\ SemOK'
    BY QueuesKept DEF procVars
<1>2. prhasmsg' \in [Pid -> BOOLEAN]
    BY DEF IInv, FieldsOK
<1> QED
    BY <1>1, <1>2, CallKept

-----------------------------------------------------------------------------
(* Rings *)

(* An index that has gone round at most once. *)
Wrap(i) == IF i < MAX_MSGS THEN i ELSE i - MAX_MSGS

(* The two indexes and the count agree, and there are messages between them. *)
RingOK(r) ==
    /\ r \in Ring /\ r.count \in 0..MAX_MSGS
    /\ r.qin = Wrap(r.qout + r.count)
    /\ \A i \in 0..(r.count - 1) : r.msgq[Wrap(r.qout + i)] \in Msg

(* s is r after more messages have come: those that were there are where they were. *)
Grows(r, s) ==
    /\ s.qout = r.qout /\ r.count <= s.count
    /\ \A i \in 0..(r.count - 1) : s.msgq[Wrap(r.qout + i)] = r.msgq[Wrap(r.qout + i)]

LEMMA OnceAround ==
    ASSUME NEW m \in Nat \ {0}, NEW i \in 0..(2 * m - 1)
    PROVE  i % m = IF i < m THEN i ELSE i - m
OBVIOUS

LEMMA WrapIsMod ==
    ASSUME NEW i \in 0..(2 * MAX_MSGS - 1)
    PROVE  i % MAX_MSGS = Wrap(i) /\ Wrap(i) \in 0..(MAX_MSGS - 1)
<1>1. MAX_MSGS \in Nat \ {0}
    BY RingAssumption
<1>2. i % MAX_MSGS = IF i < MAX_MSGS THEN i ELSE i - MAX_MSGS
    BY <1>1, OnceAround
<1> QED
    BY <1>1, <1>2 DEF Wrap

LEMMA ModRange ==
    ASSUME NEW i \in Int
    PROVE  i % MAX_MSGS \in 0..(MAX_MSGS - 1)
<1>1. MAX_MSGS \in Nat \ {0}
    BY RingAssumption
<1> QED
    BY <1>1

LEMMA StoreRecord ==
    ASSUME NEW c, NEW i, NEW o, NEW f, NEW m, NEW r,
           r = [count |-> c, qin |-> i, qout |-> o, msgq |-> f]
    PROVE  Store(r, m) = [count |-> c + 1, qin |-> (i + 1) % MAX_MSGS, qout |-> o,
                          msgq |-> [f EXCEPT ![i] = m]]
<1>1. /\ Store(r, m).count = c + 1 /\ Store(r, m).qin = (i + 1) % MAX_MSGS
      /\ Store(r, m).qout = o
    BY DEF Store
<1>2. Store(r, m).msgq = [f EXCEPT ![i] = m]
    BY DEF Store
<1>3. /\ DOMAIN Store(r, m) = {"count", "qin", "qout", "msgq"}
      /\ Store(r, m) = [x \in DOMAIN Store(r, m) |-> Store(r, m)[x]]
    <2>1. DOMAIN r = {"count", "qin", "qout", "msgq"}
        OBVIOUS
    <2>2. DOMAIN Store(r, m) = DOMAIN r
        BY DEF Store
    <2>3. Store(r, m) = [x \in DOMAIN Store(r, m) |-> Store(r, m)[x]]
        BY DEF Store
    <2> QED
        BY <2>1, <2>2, <2>3
<1> HIDE DEF Store
<1> QED
    BY <1>1, <1>2, <1>3

LEMMA StoreFields ==
    ASSUME NEW r \in Ring, NEW m \in Msg
    PROVE  /\ Store(r, m) \in Ring
           /\ Store(r, m).count = r.count + 1 /\ Store(r, m).qout = r.qout
           /\ Store(r, m).qin = Wrap(r.qin + 1)
           /\ \A i \in 0..(MAX_MSGS - 1) :
                Store(r, m).msgq[i] = IF i = r.qin THEN m ELSE r.msgq[i]
<1>1. /\ r.count \in Int /\ r.qin \in 0..(MAX_MSGS - 1) /\ r.qout \in 0..(MAX_MSGS - 1)
      /\ r.msgq \in [0..(MAX_MSGS - 1) -> Msg \cup {None}]
      /\ r = [count |-> r.count, qin |-> r.qin, qout |-> r.qout, msgq |-> r.msgq]
    BY DEF Ring
<1>2. (r.qin + 1) % MAX_MSGS = Wrap(r.qin + 1) /\ Wrap(r.qin + 1) \in 0..(MAX_MSGS - 1)
    <2>1. r.qin + 1 \in 0..(2 * MAX_MSGS - 1)
        BY <1>1, RingAssumption
    <2> QED
        BY <2>1, WrapIsMod
<1> DEFINE s == Store(r, m)
           q == [r.msgq EXCEPT ![r.qin] = m]
<1>3. s = [count |-> r.count + 1, qin |-> (r.qin + 1) % MAX_MSGS, qout |-> r.qout, msgq |-> q]
    BY <1>1, StoreRecord
<1>4. q \in [0..(MAX_MSGS - 1) -> Msg \cup {None}] /\ \A i \in 0..(MAX_MSGS - 1) : q[i] = IF i = r.qin THEN m ELSE r.msgq[i]
    BY <1>1
<1>5. r.count + 1 \in Int
    BY <1>1
<1> HIDE DEF s, q
<1>6. s \in Ring
    BY <1>1, <1>2, <1>3, <1>4, <1>5 DEF Ring
<1>7. /\ s \in Ring /\ s.count = r.count + 1 /\ s.qout = r.qout /\ s.qin = Wrap(r.qin + 1)
      /\ \A i \in 0..(MAX_MSGS - 1) : s.msgq[i] = IF i = r.qin THEN m ELSE r.msgq[i]
    BY <1>2, <1>3, <1>4, <1>6
<1> QED
    BY <1>7 DEF s

(* A message is stored behind the others. *)
LEMMA StoreGrows ==
    ASSUME NEW r, RingOK(r), r.count < MAX_MSGS, NEW m \in Msg
    PROVE  /\ RingOK(Store(r, m)) /\ Grows(r, Store(r, m))
           /\ Store(r, m).count = r.count + 1
<1> DEFINE s == Store(r, m)
<1>1. /\ s \in Ring /\ s.count = r.count + 1 /\ s.qout = r.qout /\ s.qin = Wrap(r.qin + 1)
      /\ \A i \in 0..(MAX_MSGS - 1) : s.msgq[i] = IF i = r.qin THEN m ELSE r.msgq[i]
    BY StoreFields DEF RingOK
<1>2. /\ r.count \in 0..(MAX_MSGS - 1) /\ r.qout \in 0..(MAX_MSGS - 1) /\ MAX_MSGS \in Nat \ {0}
      /\ r.qin = Wrap(r.qout + r.count)
    BY RingAssumption DEF RingOK, Ring
<1> HIDE DEF s
<1>3. s.qin = Wrap(r.qout + s.count)
    BY <1>1, <1>2 DEF Wrap
<1>4. \A i \in 0..(r.count - 1) : Wrap(r.qout + i) \in 0..(MAX_MSGS - 1) /\ Wrap(r.qout + i) # r.qin
    BY <1>2 DEF Wrap
<1>5. \A i \in 0..(r.count - 1) : s.msgq[Wrap(r.qout + i)] = r.msgq[Wrap(r.qout + i)]
    BY <1>1, <1>4
<1>6. s.msgq[Wrap(r.qout + r.count)] = m
    BY <1>1, <1>2 DEF Wrap
<1>7. \A i \in 0..(s.count - 1) : s.msgq[Wrap(s.qout + i)] \in Msg
    <2> SUFFICES ASSUME NEW i \in 0..(s.count - 1) PROVE s.msgq[Wrap(r.qout + i)] \in Msg
        BY <1>1
    <2>1. i = r.count \/ i \in 0..(r.count - 1)
        BY <1>1, <1>2
    <2> QED
        BY <1>5, <1>6, <2>1 DEF RingOK
<1>8. RingOK(s)
    BY <1>1, <1>2, <1>3, <1>7 DEF RingOK
<1>9. Grows(r, s)
    BY <1>1, <1>2, <1>5 DEF Grows
<1> QED
    BY <1>1, <1>8, <1>9 DEF s

LEMMA GrowsOn ==
    ASSUME NEW r, NEW s, NEW t, RingOK(r), RingOK(s), RingOK(t), Grows(r, s), Grows(s, t)
    PROVE  Grows(r, t)
<1>1. r.count \in Int /\ s.count \in Int /\ t.count \in Int
    BY DEF RingOK
<1> QED
    BY <1>1 DEF Grows

LEMMA GrowsSame == ASSUME NEW r, RingOK(r) PROVE Grows(r, r)
BY DEF RingOK, Grows

(* One round of the loop of sendMsgs. *)
Add(r, m) == IF r.count < MAX_MSGS THEN Store(r, m) ELSE r

(* s is what such rounds make of r, at least one of them if some. *)
Filled(r, s, some) ==
    /\ s \in Ring
    /\ RingOK(r) => RingOK(s) /\ Grows(r, s) /\ (some => s.count > 0)

LEMMA AddFilled ==
    ASSUME NEW r, NEW s, NEW m \in Msg, NEW some \in BOOLEAN, Filled(r, s, some)
    PROVE  Filled(r, Add(s, m), TRUE)
<1>1. Add(s, m) \in Ring
    BY StoreFields DEF Add, Filled
<1>2. ASSUME RingOK(r)
      PROVE  RingOK(Add(s, m)) /\ Grows(r, Add(s, m)) /\ Add(s, m).count > 0
    <2>1. RingOK(s) /\ Grows(r, s) /\ s.count \in 0..MAX_MSGS /\ MAX_MSGS > 0 /\ MAX_MSGS \in Nat
        BY <1>2, RingAssumption DEF Filled, RingOK
    <2>2. CASE s.count < MAX_MSGS
        <3>1. RingOK(Store(s, m)) /\ Grows(s, Store(s, m)) /\ Store(s, m).count = s.count + 1
            BY <2>1, <2>2, StoreGrows
        <3>2. Grows(r, Store(s, m))
            BY <1>2, <2>1, <3>1, GrowsOn
        <3> QED
            BY <2>1, <2>2, <3>1, <3>2 DEF Add
    <2>3. CASE s.count >= MAX_MSGS
        BY <2>1, <2>3 DEF Add
    <2> QED
        BY <2>1, <2>2, <2>3
<1> QED
    BY <1>1, <1>2 DEF Filled

(* The loop of sendMsgs, as a function of the messages that it has gone through. *)
Fills(g, r, msgs) ==
    g = [s \in SUBSET (DOMAIN msgs) |->
            IF s = {} THEN r ELSE Add(g[s \ {Max(s)}], msgs[Max(s)])]

LEMMA MaxOfRange ==
    ASSUME NEW k \in Nat \ {0}
    PROVE  Max(1..k) = k /\ (1..k) \ {k} = 1..(k - 1)
<1>1. k \in 1..k /\ \A y \in 1..k : k >= y
    OBVIOUS
<1>2. \A x \in 1..k : (\A y \in 1..k : x >= y) => x = k
    BY <1>1
<1>3. Max(1..k) = k
    BY <1>1, <1>2 DEF Max
<1> QED
    BY <1>3

LEMMA MaxInside ==
    ASSUME NEW n \in Nat, NEW s \in SUBSET (1..n), s # {}
    PROVE  Max(s) \in s
<1> DEFINE Upper(k) == \A x \in s : x <= k
           Good == {k \in Nat : Upper(k) => \E x \in s : \A y \in s : x >= y}
<1>2. 0 \in Good
    <2>1. PICK x : x \in s
        OBVIOUS
    <2>2. x \in 1..n
        BY <2>1
    <2>3. ~(x <= 0)
        BY <2>2
    <2>4. ~Upper(0)
        BY <2>1, <2>3
    <2> QED
        BY <2>4
<1>3. ASSUME NEW k \in Nat, k \in Good PROVE k + 1 \in Good
    <2> SUFFICES ASSUME Upper(k + 1) PROVE \E x \in s : \A y \in s : x >= y
        OBVIOUS
    <2>1. CASE k + 1 \in s
        BY <2>1
    <2>2. CASE k + 1 \notin s
        <3>1. Upper(k)
            BY <2>2
        <3> QED
            BY <1>3, <3>1
    <2> QED
        BY <2>1, <2>2
<1>4. n \in Good
    <2> HIDE DEF Good
    <2> QED
        BY <1>2, <1>3, NaturalInduction
<1>5. \E x \in s : \A y \in s : x >= y
    BY <1>4
<1> QED
    BY <1>5 DEF Max

LEMMA FillsExist ==
    ASSUME NEW r, NEW msgs \in Seq(Msg)
    PROVE  \E g : Fills(g, r, msgs)
<1> DEFINE S == DOMAIN msgs
           Rest(s) == s \ {Max(s)}
           Small(n) == {s \in SUBSET S : Cardinality(s) <= n}
           Eq(g, n) == g = [s \in Small(n) |-> IF s = {} THEN r ELSE Add(g[Rest(s)], msgs[Max(s)])]
           Good == {n \in Nat : \E g : Eq(g, n)}
<1>0. Len(msgs) \in Nat /\ S = 1..Len(msgs) /\ IsFiniteSet(S)
    BY FS_Interval
<1>1. \A s \in SUBSET S : IsFiniteSet(s) /\ Cardinality(s) \in Nat /\ Cardinality(s) <= Cardinality(S)
    BY <1>0, FS_Subset, FS_CardinalityType
<1>2. ASSUME NEW s \in SUBSET S, s # {}
      PROVE  Rest(s) \in SUBSET S /\ Cardinality(Rest(s)) = Cardinality(s) - 1
    <2>1. Max(s) \in s
        BY <1>0, <1>2, MaxInside
    <2> QED
        BY <1>1, <2>1, FS_RemoveElement
<1>3. \E g : Eq(g, 0)
    <2>1. \A s \in Small(0) : s = {}
        BY <1>1, FS_EmptySet
    <2> WITNESS [s \in Small(0) |-> r]
    <2> QED
        BY <2>1
<1>4. ASSUME NEW n \in Nat, NEW g, Eq(g, n)
      PROVE  \E h : Eq(h, n + 1)
    <2> DEFINE h == [s \in Small(n + 1) |-> IF s = {} THEN r ELSE Add(g[Rest(s)], msgs[Max(s)])]
    <2> HIDE DEF Rest
    <2>1. ASSUME NEW s \in Small(n + 1), s # {}
          PROVE  Rest(s) \in Small(n) /\ Rest(s) \in Small(n + 1)
        <3>1. s \in SUBSET S /\ Cardinality(s) <= n + 1
            OBVIOUS
        <3>2. Rest(s) \in SUBSET S /\ Cardinality(Rest(s)) = Cardinality(s) - 1 /\ Cardinality(s) \in Nat
            BY <1>1, <1>2, <2>1, <3>1
        <3> QED
            BY <3>1, <3>2
    <2>2. ASSUME NEW s \in Small(n)
          PROVE  s \in Small(n + 1) /\ h[s] = g[s]
        <3>1. s \in Small(n + 1)
            BY <1>1
        <3>2. g[s] = IF s = {} THEN r ELSE Add(g[Rest(s)], msgs[Max(s)])
            BY <1>4
        <3> QED
            BY <3>1, <3>2
    <2>3. Eq(h, n + 1)
        BY <2>1, <2>2
    <2> QED
        BY <2>3
<1>5. \A n \in Nat : n \in Good
    <2> HIDE DEF Eq
    <2>1. 0 \in Good
        BY <1>3
    <2>2. \A n \in Nat : n \in Good => n + 1 \in Good
        BY <1>4
    <2> HIDE DEF Good
    <2> QED
        BY <2>1, <2>2, NaturalInduction
<1>6. Cardinality(S) \in Nat /\ Small(Cardinality(S)) = SUBSET S
    BY <1>0, <1>1, FS_CardinalityType
<1>7. PICK g : Eq(g, Cardinality(S))
    BY <1>5, <1>6
<1>8. Fills(g, r, msgs)
    BY <1>6, <1>7 DEF Fills
<1> QED
    BY <1>8

LEMMA StoreAllFills ==
    ASSUME NEW r, NEW msgs \in Seq(Msg)
    PROVE  \E g : Fills(g, r, msgs) /\ StoreAll(r, msgs) = g[DOMAIN msgs]
<1> DEFINE Eq(g) == g = [s \in SUBSET (DOMAIN msgs) |->
                IF s = {} THEN r
                ELSE IF g[s \ {Max(s)}].count < MAX_MSGS
                     THEN Store(g[s \ {Max(s)}], msgs[Max(s)]) ELSE g[s \ {Max(s)}]]
           h == CHOOSE g : Eq(g)
<1>1. \E g : Eq(g)
    <2>1. PICK g : Fills(g, r, msgs)
        BY FillsExist
    <2>2. Eq(g)
        BY <2>1 DEF Fills, Add
    <2> QED
        BY <2>2
<1>2. Eq(h)
    <2> HIDE DEF Eq
    <2> QED
        BY <1>1
<1>3. Fills(h, r, msgs)
    BY <1>2 DEF Fills, Add
<1>4. StoreAll(r, msgs) = h[DOMAIN msgs]
    BY DEF StoreAll, FoldLeft, MapThenFoldSet
<1> QED
    BY <1>3, <1>4

(* What sendMsgs leaves behind. *)
LEMMA StoreAllFilled ==
    ASSUME NEW r \in Ring, NEW msgs \in Seq(Msg), msgs # <<>>
    PROVE  Filled(r, StoreAll(r, msgs), TRUE)
<1>1. PICK g : Fills(g, r, msgs) /\ StoreAll(r, msgs) = g[DOMAIN msgs]
    BY StoreAllFills
<1> DEFINE n == Len(msgs)
<1>2. DOMAIN msgs = 1..n /\ n \in Nat /\ n # 0 /\ \A i \in 1..n : msgs[i] \in Msg
    BY EmptySeq
<1> HIDE DEF n
<1> DEFINE Good == {k \in Nat : k <= n => Filled(r, g[1..k], k # 0)}
<1>3. 0 \in Good
    <2>1. 1..0 = {} /\ g[{}] = r
        BY <1>1 DEF Fills
    <2>2. Filled(r, r, FALSE)
        BY GrowsSame DEF Filled
    <2> QED
        BY <2>1, <2>2
<1>4. ASSUME NEW k \in Nat, k \in Good PROVE k + 1 \in Good
    <2> SUFFICES ASSUME k + 1 <= n PROVE Filled(r, g[1..(k + 1)], k + 1 # 0)
        OBVIOUS
    <2>0. (k + 1 # 0) = TRUE /\ k + 1 \in 1..n /\ 1..(k + 1) \in SUBSET (1..n) /\ k + 1 \in 1..(k + 1)
        BY <1>2
    <2>1. Filled(r, g[1..k], k # 0)
        BY <1>2, <1>4
    <2>2. 1..(k + 1) \in SUBSET (DOMAIN msgs) /\ 1..(k + 1) # {} /\ msgs[k + 1] \in Msg
        BY <1>2, <2>0
    <2>3. Max(1..(k + 1)) = k + 1 /\ (1..(k + 1)) \ {k + 1} = 1..k
        BY MaxOfRange
    <2>4. g[1..(k + 1)] = Add(g[1..k], msgs[k + 1])
        BY <1>1, <2>2, <2>3 DEF Fills
    <2>5. Filled(r, Add(g[1..k], msgs[k + 1]), TRUE)
        BY <2>1, <2>2, AddFilled
    <2> QED
        BY <2>0, <2>4, <2>5 DEF Filled
<1>5. n \in Good
    <2> HIDE DEF Good
    <2> QED
        BY <1>2, <1>3, <1>4, NaturalInduction
<1>6. Filled(r, g[1..n], n # 0)
    BY <1>2, <1>5
<1> QED
    BY <1>1, <1>2, <1>6 DEF Filled

-----------------------------------------------------------------------------
(* What the kernel's other calls do to the receivers of message queues *)
RingLabels == {"receivemsg", "receivemsgs"}

(* A step as a receiver sees it: it is none of its own, and starts no receive. *)
Elsewhere ==
    /\ Receiving(currpid) => UNCHANGED vars
    /\ \A q \in Pid : kpc'[q].at \in RingLabels => kpc'[q] = kpc[q]

(* The ways in which a call of the kernel leaves the contexts. *)
LEMMA ContextsElsewhere ==
    ASSUME IInv, ~Receiving(currpid),
           \/ UNCHANGED kpc
           \/ \E pc : Goto(pc) /\ pc.at \notin RingLabels
           \/ \E p \in Pid : kpc' = [kpc EXCEPT ![p] = User]
    PROVE  Elsewhere
<1>1. kpc \in [Pid -> [at : Labels, x : Pid \cup Sem \cup {None}, n : Int]]
    BY DEF IInv, ContextOK
<1>2. User.at \notin RingLabels
    BY DEF User, Doing, RingLabels
<1>3. ASSUME NEW q \in Pid, kpc'[q].at \in RingLabels PROVE kpc'[q] = kpc[q]
    <2>1. CASE UNCHANGED kpc
        BY <2>1
    <2>2. CASE \E pc : Goto(pc) /\ pc.at \notin RingLabels
        BY <1>1, <1>3, <2>2 DEF Goto
    <2>3. CASE \E p \in Pid : kpc' = [kpc EXCEPT ![p] = User]
        BY <1>1, <1>2, <1>3, <2>3
    <2> QED
        BY <2>1, <2>2, <2>3
<1> QED
    BY <1>3 DEF Elsewhere

LEMMA NotReceiving ==
    ASSUME InUser \/ \E label \in Labels \ (RingLabels \cup {"user"}) : At(label)
    PROVE  ~Receiving(currpid)
BY DEF InUser, At, Receiving, RingLabels, User, Doing

LEMMA CallElsewhere ==
    ASSUME IInv, SemaphoreCall \/ MessageCall \/ ProcessCall \/ ClkHandler
    PROVE  Elsewhere
<1>1. InUser
    BY DEF SemaphoreCall, Wait, Signal, SemDelete, SignalN, SemCreate, SemReset,
           MessageCall, Send, Receive, RecvClr, RecvTime,
           ProcessCall, Kill, Suspend, Resume, Create, ChPrio, Yield, SleepMs, ClkHandler, Calling
<1>2. \A x, n : \A label \in Labels \ RingLabels : Doing(label, x, n).at \notin RingLabels
    BY DEF Doing
<1>3. {"signaln", "semdelete", "semreset", "receive", "recvtime", "kill", "wakeup"} \subseteq Labels \ RingLabels
    BY DEF Labels, Loops, SemLoops, RingLabels
<1> DEFINE Contexts == \/ UNCHANGED kpc
                       \/ \E pc : Goto(pc) /\ pc.at \notin RingLabels
                       \/ \E p \in Pid : kpc' = [kpc EXCEPT ![p] = User]
<1>4. ASSUME SemaphoreCall PROVE Contexts
    <2> PICK s \in Sem : \/ Wait(s) \/ Signal(s) \/ SemDelete(s)
                         \/ \E count \in Counts : SignalN(s, count) \/ SemCreate(s, count) \/ SemReset(s, count)
        BY <1>4 DEF SemaphoreCall
    <2>1. CASE Wait(s) \/ Signal(s) \/ \E count \in Counts : SemCreate(s, count)
        BY <2>1 DEF Wait, Signal, SemCreate
    <2>2. CASE SemDelete(s)
        BY <1>2, <1>3, <2>2 DEF SemDelete
    <2>3. CASE \E count \in Counts : SignalN(s, count) \/ SemReset(s, count)
        BY <1>2, <1>3, <2>3 DEF SignalN, SemReset
    <2> QED
        BY <2>1, <2>2, <2>3
<1>5. ASSUME MessageCall PROVE Contexts
    <2>1. CASE Receive
        BY <1>2, <1>3, <2>1 DEF Receive
    <2>2. CASE RecvClr \/ \E p \in Pid : Send(p)
        BY <2>2 DEF RecvClr, Send
    <2>3. CASE \E maxwait \in Timeouts : RecvTime(maxwait)
        BY <1>2, <1>3, <2>3 DEF RecvTime
    <2> QED
        BY <1>5, <2>1, <2>2, <2>3 DEF MessageCall
<1>6. ASSUME ProcessCall PROVE Contexts
    <2>1. CASE \E p \in Pid : Kill(p)
        BY <1>2, <1>3, <2>1 DEF Kill
    <2>2. CASE \E p \in Pid : Suspend(p) \/ Resume(p) \/ \E prio \in NewPrios : ChPrio(p, prio)
        BY <2>2 DEF Suspend, Resume, ChPrio
    <2>3. CASE \E p \in Pid : \E prio \in Prios : Create(p, prio)
        BY <2>3 DEF Create
    <2>4. CASE Yield \/ \E delay \in Delays : SleepMs(delay)
        BY <2>4 DEF Yield, SleepMs
    <2> QED
        BY <1>6, <2>1, <2>2, <2>3, <2>4 DEF ProcessCall
<1>7. ASSUME ClkHandler PROVE Contexts
    BY <1>2, <1>3, <1>7 DEF ClkHandler
<1>8. Contexts
    BY <1>4, <1>5, <1>6, <1>7
<1> QED
    BY <1>1, <1>8, NotReceiving, ContextsElsewhere

LEMMA StepElsewhere ==
    ASSUME IInv, KernelStep
    PROVE  Elsewhere
<1>1. \E label \in Labels \ (RingLabels \cup {"user"}) : At(label)
    BY DEF KernelStep, SignalNLoop, SignalNEnd, SemDeleteLoop, SemDeleteEnd, SemResetLoop,
       SemResetEnd, ReceiveDone, RecvTimeDone, KillDone, Wakeup, WakeupEnd, ClkHandlerEnd,
       Labels, Loops, SemLoops, RingLabels
<1>2. User.at \notin RingLabels
    BY DEF User, Doing, RingLabels
<1>3. CASE KillDone
    <2> DEFINE p == kpc[currpid].x
    <2>1. \A q \in Pid : kpc'[q] = IF q = p \/ q = currpid THEN User ELSE kpc[q]
        BY <1>3, KillDoneStates
    <2> HIDE DEF p
    <2> QED
        BY <1>1, <1>2, <2>1, NotReceiving DEF Elsewhere
<1>4. CASE SignalNLoop
    <2>1. \A x, n : Doing("signaln", x, n).at \notin RingLabels
        BY DEF Doing, RingLabels
    <2> QED
        BY <1>1, <1>4, <2>1, NotReceiving, ContextsElsewhere DEF SignalNLoop
<1>5. CASE SemDeleteLoop \/ SemResetLoop \/ Wakeup
    <2>1. UNCHANGED kpc
        BY <1>5 DEF SemDeleteLoop, SemResetLoop, Wakeup
    <2> QED
        BY <1>1, <2>1, NotReceiving, ContextsElsewhere
<1>6. CASE WakeupEnd
    <2>1. Goto(Doing("clk", None, 0)) /\ Doing("clk", None, 0).at \notin RingLabels
        BY <1>6 DEF WakeupEnd, Doing, RingLabels
    <2> QED
        BY <1>1, <2>1, NotReceiving, ContextsElsewhere
<1>7. CASE SignalNEnd \/ SemDeleteEnd \/ SemResetEnd \/ ReceiveDone \/ RecvTimeDone \/ ClkHandlerEnd
    <2>1. Goto(User)
        BY <1>7 DEF SignalNEnd, SemDeleteEnd, SemResetEnd, ReceiveDone, RecvTimeDone, ClkHandlerEnd, Return
    <2> QED
        BY <1>1, <1>2, <2>1, NotReceiving, ContextsElsewhere
<1> QED
    BY <1>3, <1>4, <1>5, <1>6, <1>7 DEF KernelStep

LEMMA NextElsewhere == ASSUME IInv, [Next]_vars PROVE Elsewhere
<1>1. CASE Halted \/ UNCHANGED vars
    BY <1>1 DEF Halted, Elsewhere, vars
<1> QED
    BY <1>1, CallElsewhere, StepElsewhere DEF Next

(* The only call that makes a process, and it makes one. *)
LEMMA NextCreated ==
    ASSUME IInv, [Next]_vars
    PROVE  \/ \A q \in Pid : ~Created(q)
           \/ \E p \in Pid : Created(p) /\ (\A q \in Pid \ {p} : ~Created(q)) /\ p # currpid
<1>0. currpid \in Pid /\ prstate[currpid] = "CURR" /\ prstate \in [Pid -> States]
    BY DEF IInv, SchedOK, SomeoneToRun
<1>1. ASSUME NEW p \in Pid, NEW prio \in Prios, Create(p, prio)
      PROVE  Created(p) /\ (\A q \in Pid \ {p} : ~Created(q)) /\ p # currpid
    BY <1>0, <1>1 DEF Create, Created
<1>2. ASSUME OthersKept PROVE \A q \in Pid : ~Created(q)
    BY <1>0, <1>2 DEF OthersKept, Kept, Awake, Created
<1>3. ASSUME KillDone PROVE \A q \in Pid : ~Created(q)
    <2> DEFINE p == kpc[currpid].x
    <2>1. prstate'[p] = "FREE" /\ \A q \in Pid : q # p => Scheduled(q)
        BY <1>3, KillDoneStates
    <2> HIDE DEF p
    <2> QED
        BY <2>1 DEF Scheduled, Runnable, Created
<1>4. ASSUME UNCHANGED prstate PROVE \A q \in Pid : ~Created(q)
    BY <1>4 DEF Created
<1>5. CASE Halted \/ UNCHANGED vars
    BY <1>4, <1>5 DEF Halted, vars, deferVars, dispatchVars
<1>6. ASSUME Calm PROVE \A q \in Pid : ~Created(q)
    BY <1>2, <1>6 DEF Calm
<1>7. CASE SemaphoreCall \/ MessageCall \/ ClkHandler \/ KernelStep
    BY <1>3, <1>6, <1>7, SemaphoreCalm, MessageCalm, ClockCalm, StepCalm
<1>8. CASE ProcessCall
    <2>1. ASSUME NEW p \in Pid, Kill(p) PROVE OthersKept
        BY <2>1, KillEffect
    <2> QED
        BY <1>1, <1>2, <1>6, <1>8, <2>1, ProcessCalm
<1> QED
    BY <1>5, <1>7, <1>8 DEF Next

-----------------------------------------------------------------------------
(* Every step, by what it means for the rings and the receivers *)

(* Messages came for p. *)
Delivered(p) ==
    /\ Woken(p) /\ UNCHANGED <<kpc, prhasmsg, result>>
    /\ \A q \in Pid \ {p} : nmsg'[q] = nmsg[q]
    /\ Filled(nmsg[p], nmsg'[p], TRUE)

(* The caller takes n messages, for it does not see fewer, or was switched back in. *)
Taken(n) ==
    /\ TakeMsgs(n) /\ UNCHANGED <<prstate, prhasmsg>>
    /\ \/ UNCHANGED kpc /\ kpc[currpid] = User /\ n \in Takes \cup {1} /\ nmsg[currpid].count \notin 0..(n - 1)
       \/ kpc' = [kpc EXCEPT ![currpid] = User] /\ Receiving(currpid) /\ n = kpc[currpid].n

(* It blocks until there are n. *)
BlockedFor(n) ==
    /\ UNCHANGED <<nmsg, result, prhasmsg>>
    /\ prstate'[currpid] = "RECV" /\ \A q \in Pid \ {currpid} : Scheduled(q)
    /\ \A q \in Pid \ {currpid} : kpc'[q] = kpc[q]
    /\ kpc'[currpid].at \in RingLabels /\ kpc'[currpid].n = n
    /\ n \in Takes \cup {1} /\ nmsg[currpid].count < n

(* Nothing happens to rings and receivers. *)
Aside ==
    /\ UNCHANGED <<nmsg, result, prhasmsg>> /\ \A q \in Pid : Scheduled(q)
    /\ \A q \in Pid : kpc'[q].at \in RingLabels \cup {"kill"} => kpc'[q] = kpc[q]

LEMMA StoreIfRoomFilled ==
    ASSUME NEW r \in Ring, NEW m \in Msg
    PROVE  Filled(r, StoreIfRoom(r, m), TRUE)
<1>1. StoreIfRoom(r, m) \in Ring
    BY StoreFields DEF StoreIfRoom
<1>2. ASSUME RingOK(r)
      PROVE  LET s == StoreIfRoom(r, m) IN RingOK(s) /\ Grows(r, s) /\ s.count > 0
    <2>1. r.count \in 0..MAX_MSGS /\ MAX_MSGS \in Nat \ {0}
        BY <1>2, RingAssumption DEF RingOK
    <2>2. CASE r.count = MAX_MSGS
        BY <1>2, <2>1, <2>2, GrowsSame DEF StoreIfRoom
    <2>3. CASE r.count # MAX_MSGS
        <3>1. r.count < MAX_MSGS
            BY <2>1, <2>3
        <3>2. RingOK(Store(r, m)) /\ Grows(r, Store(r, m)) /\ Store(r, m).count = r.count + 1
            BY <1>2, <3>1, StoreGrows
        <3> QED
            BY <2>1, <2>3, <3>2 DEF StoreIfRoom
    <2> QED
        BY <2>2, <2>3
<1> QED
    BY <1>1, <1>2 DEF Filled

LEMMA TakenTables ==
    ASSUME TablesOK, IInv', NEW n \in Int, TakeMsgs(n), UNCHANGED left
    PROVE  TablesOK'
<1>1. currpid \in Pid
    BY DEF TablesOK, IInv, SchedOK
<1> DEFINE r == nmsg[currpid]
<1>2. /\ r.count \in Int /\ r.qin \in 0..(MAX_MSGS - 1) /\ r.qout \in 0..(MAX_MSGS - 1)
      /\ r.msgq \in [0..(MAX_MSGS - 1) -> Msg \cup {None}]
      /\ r = [count |-> r.count, qin |-> r.qin, qout |-> r.qout, msgq |-> r.msgq]
    BY <1>1 DEF TablesOK, Ring
<1>3. (r.qout + n) % MAX_MSGS \in 0..(MAX_MSGS - 1) /\ r.count - n \in Int
    <2>1. r.qout + n \in Int /\ r.count - n \in Int
        BY <1>2, RingAssumption
    <2> QED
        BY <2>1, ModRange
<1>4. Drop(r, n) \in Ring
    BY <1>2, <1>3 DEF Drop, Ring
<1> HIDE DEF r
<1>5. nmsg' \in [Pid -> Ring]
    BY <1>1, <1>4 DEF TablesOK, TakeMsgs, r
<1>6. result' = [p \in Pid |-> result'[p]]
    BY DEF TablesOK, TakeMsgs
<1>7. LeftOK'
    BY DEF TablesOK, LeftOK
<1> QED
    BY <1>5, <1>6, <1>7 DEF TablesOK

LEMMA DeliveredTables ==
    ASSUME TablesOK, IInv', LeftOK', NEW p \in Pid, NEW r, nmsg' = [nmsg EXCEPT ![p] = r],
           Filled(nmsg[p], r, TRUE), Wake(p), UNCHANGED <<kpc, prhasmsg, result>>
    PROVE  TablesOK' /\ Delivered(p)
<1>1. nmsg'[p] = r /\ (\A q \in Pid \ {p} : nmsg'[q] = nmsg[q]) /\ nmsg' \in [Pid -> Ring]
    BY DEF TablesOK, Filled
<1>2. Woken(p)
    BY WakeEffect DEF TablesOK
<1>3. TablesOK'
    BY <1>1 DEF TablesOK
<1> QED
    BY <1>1, <1>2, <1>3 DEF Delivered

LEMMA SendMsgStep ==
    ASSUME TablesOK, NEW p \in Pid, NEW msg \in Msg, SendMsg(p, msg)
    PROVE  TablesOK' /\ Delivered(p)
<1> DEFINE r == Store(nmsg[p], msg)
<1>1. IInv' /\ LeftOK'
    BY SendKernel DEF TablesOK, LeftOK, SendMsg, Calling
<1>2. r = StoreIfRoom(nmsg[p], msg) /\ nmsg[p] \in Ring /\ nmsg' = [nmsg EXCEPT ![p] = r]
    BY DEF TablesOK, SendMsg, StoreIfRoom
<1>3. Filled(nmsg[p], r, TRUE)
    BY <1>2, StoreIfRoomFilled
<1> HIDE DEF r
<1> QED
    BY <1>1, <1>2, <1>3, DeliveredTables DEF SendMsg

LEMMA SendMsgsStep ==
    ASSUME TablesOK, NEW p \in Pid, NEW msgs \in Batches, SendMsgs(p, msgs)
    PROVE  TablesOK' /\ Delivered(p)
<1> DEFINE r == StoreAll(nmsg[p], msgs)
<1>1. IInv' /\ LeftOK'
    BY SendKernel DEF TablesOK, LeftOK, SendMsgs, Calling
<1>2. /\ nmsg[p] \in Ring /\ nmsg' = [nmsg EXCEPT ![p] = r]
      /\ msgs \in Seq(Msg) /\ msgs # <<>>
    BY RingAssumption DEF TablesOK, SendMsgs
<1>3. Filled(nmsg[p], r, TRUE)
    BY <1>2, StoreAllFilled
<1> HIDE DEF r
<1> QED
    BY <1>1, <1>2, <1>3, DeliveredTables DEF SendMsgs

LEMMA SendnMsgLoopStep ==
    ASSUME TablesOK, SendnMsgLoop
    PROVE  TablesOK' /\ \E p \in Pid : Delivered(p)
<1> DEFINE p == Head(left[currpid].to)
           r == StoreIfRoom(nmsg[p], left[currpid].msg)
<1>1. IInv' /\ p \in Pid
    BY SendnMsgLoopKernel DEF TablesOK
<1>2. currpid \in Pid /\ left[currpid].to # <<>> /\ left' = [left EXCEPT ![currpid].to = Tail(@)]
    BY DEF TablesOK, IInv, SchedOK, SendnMsgLoop
<1>3. left[currpid].msg \in Msg /\ left[currpid].to \in Seq(Pid)
    BY <1>2 DEF TablesOK, LeftOK
<1>4. Tail(left[currpid].to) \in Seq(Pid)
    BY <1>2, <1>3, HeadTailProperties
<1>5. LeftOK'
    BY <1>2, <1>3, <1>4 DEF TablesOK, LeftOK
<1>6. nmsg' = [nmsg EXCEPT ![p] = r] /\ Wake(p) /\ UNCHANGED <<kpc, prhasmsg, result>>
    BY DEF SendnMsgLoop
<1> HIDE DEF p
<1>7. Filled(nmsg[p], r, TRUE)
    BY <1>1, <1>3, StoreIfRoomFilled DEF TablesOK
<1> HIDE DEF r
<1>8. TablesOK' /\ Delivered(p)
    BY <1>1, <1>5, <1>6, <1>7, DeliveredTables
<1> QED
    BY <1>1, <1>8

LEMMA SendnMsgStep ==
    ASSUME TablesOK, NEW p \in Pid, NEW q \in Pid, NEW msg \in Msg, SendnMsg(<<p, q>>, msg)
    PROVE  TablesOK' /\ Aside
<1>1. IInv' /\ currpid \in Pid /\ InUser
    BY SendnMsgKernel DEF TablesOK, IInv, SchedOK, SendnMsg, Calling
<1>2. left' = [left EXCEPT ![currpid] = [msg |-> msg, to |-> <<p, q>>]]
    BY DEF SendnMsg
<1>3. LeftOK'
    BY <1>1, <1>2 DEF TablesOK, LeftOK
<1>4. TablesOK'
    BY <1>1, <1>3 DEF TablesOK, SendnMsg
<1>5. \A x \in Pid : kpc'[x] = IF x = currpid THEN Doing("sendnmsg", None, 0) ELSE kpc[x]
    BY <1>1 DEF SendnMsg, Goto, TablesOK, IInv, ContextOK
<1>6. Doing("sendnmsg", None, 0).at \notin RingLabels \cup {"kill"}
    BY DEF Doing, RingLabels
<1> QED
    BY <1>4, <1>5, <1>6 DEF Aside, SendnMsg, Scheduled

LEMMA SendnMsgEndStep ==
    ASSUME TablesOK, SendnMsgEnd
    PROVE  TablesOK' /\ Aside
<1>1. IInv' /\ currpid \in Pid /\ Settled(prstate)
    BY SendnMsgEndKernel DEF TablesOK, IInv, SchedOK
<1>2. left' = [left EXCEPT ![currpid] = [msg |-> None, to |-> <<>>]]
    BY DEF SendnMsgEnd, NobodyLeft
<1>3. LeftOK'
    BY <1>1, <1>2 DEF TablesOK, LeftOK
<1>4. TablesOK'
    BY <1>1, <1>3 DEF TablesOK, SendnMsgEnd
<1>5. \A x \in Pid : kpc'[x] = IF x = currpid THEN User ELSE kpc[x]
    BY <1>1 DEF SendnMsgEnd, Return, Goto, TablesOK, IInv, ContextOK
<1>6. User.at \notin RingLabels \cup {"kill"}
    BY DEF User, Doing, RingLabels
<1>7. \A x \in Pid : Scheduled(x)
    BY <1>1 DEF Settled, Scheduled, Runnable
<1> QED
    BY <1>4, <1>5, <1>6, <1>7 DEF Aside, SendnMsgEnd

LEMMA BlockedStep ==
    ASSUME TablesOK, InUser, currpid # NULLPROC, NEW n \in Takes \cup {1}, NEW label \in {"receivemsg", "receivemsgs"},
           nmsg[currpid].count < n,
           Block("RECV", qkey), Goto(Doing(label, None, n)),
           UNCHANGED <<ndefers, semVars, procVars, prhasmsg, sleepq, nmsg, left, result>>
    PROVE  TablesOK' /\ BlockedFor(n)
<1>0. n \in Int /\ currpid \in Pid
    BY RingAssumption DEF TablesOK, IInv, SchedOK
<1>1. /\ IInv'
      /\ prstate'[currpid] = "RECV" /\ \A q \in Pid \ {currpid} : Scheduled(q)
    BY <1>0, BlockedKernel DEF TablesOK
<1>2. TablesOK'
    BY <1>1 DEF TablesOK, LeftOK
<1>3. \A x \in Pid : kpc'[x] = IF x = currpid THEN Doing(label, None, n) ELSE kpc[x]
    BY <1>0 DEF Goto, TablesOK, IInv, ContextOK
<1>4. Doing(label, None, n).at \in RingLabels /\ Doing(label, None, n).n = n
    BY DEF Doing, RingLabels
<1> QED
    BY <1>0, <1>1, <1>2, <1>3, <1>4 DEF BlockedFor

LEMMA TakenStep ==
    ASSUME TablesOK, InUser, NEW n \in Takes \cup {1}, nmsg[currpid].count \notin 0..(n - 1), TakeMsgs(n),
           UNCHANGED <<dispatchVars, ndefers, semVars, procVars, prhasmsg, sleepq, kpc, left>>
    PROVE  TablesOK' /\ Taken(n)
<1>1. IInv' /\ n \in Int
    BY TakenKernel, RingAssumption DEF TablesOK
<1>2. TablesOK'
    BY <1>1, TakenTables
<1> QED
    BY <1>2 DEF Taken, InUser, dispatchVars

LEMMA DoneStep ==
    ASSUME TablesOK, ReceiveMsgDone
    PROVE  TablesOK' /\ Taken(kpc[currpid].n)
<1>1. IInv'
    BY DoneKernel DEF TablesOK
<1>2. kpc[currpid].n \in Int /\ TakeMsgs(kpc[currpid].n) /\ UNCHANGED left
    BY DEF TablesOK, IInv, ContextOK, SchedOK, ReceiveMsgDone
<1>3. TablesOK'
    BY <1>1, <1>2, TakenTables
<1>4. /\ kpc' = [kpc EXCEPT ![currpid] = User] /\ Receiving(currpid)
      /\ UNCHANGED <<prstate, prhasmsg>>
    BY DEF ReceiveMsgDone, At, Receiving, Return, Goto, deferVars, dispatchVars
<1> QED
    BY <1>2, <1>3, <1>4 DEF Taken

LEMMA KernelMoveTables ==
    ASSUME TablesOK, KernelNext
    PROVE  TablesOK'
<1>1. IInv'
    BY NextOK DEF TablesOK, KernelNext
<1>2. NoMsgs \in Ring
    BY RingAssumption DEF NoMsgs, Ring
<1>3. nmsg' \in [Pid -> Ring] /\ result' = [p \in Pid |-> result'[p]]
    BY <1>2 DEF TablesOK, KernelNext
<1> QED
    BY <1>1, <1>3 DEF TablesOK, LeftOK, KernelNext

Kinds ==
    \/ KernelNext \/ Aside
    \/ \E p \in Pid : Delivered(p)
    \/ \E n \in Int : Taken(n)
    \/ \E n \in Takes \cup {1} : BlockedFor(n)

LEMMA StepKinds ==
    ASSUME TablesOK, [MsgNext]_allVars
    PROVE  TablesOK' /\ Kinds
<1>0. Takes \cup {1} \subseteq Int
    BY RingAssumption
<1>1. CASE UNCHANGED allVars
    <2>1. IInv'
        BY <1>1, StutterOK DEF TablesOK, allVars
    <2>2. TablesOK'
        BY <1>1, <2>1 DEF TablesOK, LeftOK, allVars, msgVars
    <2>3. Aside
        BY <1>1 DEF Aside, Scheduled, allVars, msgVars, vars, deferVars, dispatchVars
    <2> QED
        BY <2>2, <2>3 DEF Kinds
<1>2. CASE KernelNext
    BY <1>2, KernelMoveTables DEF Kinds
<1>3. CASE \E p \in Pid : \E msg \in Msg : SendMsg(p, msg)
    BY <1>3, SendMsgStep DEF Kinds
<1>4. CASE \E p \in Pid : \E msgs \in Batches : SendMsgs(p, msgs)
    BY <1>4, SendMsgsStep DEF Kinds
<1>5. CASE \E p, q \in Pid, msg \in Msg : SendnMsg(<<p, q>>, msg)
    BY <1>5, SendnMsgStep DEF Kinds
<1>6. CASE SendnMsgLoop \/ SendnMsgEnd
    BY <1>6, SendnMsgLoopStep, SendnMsgEndStep DEF Kinds
<1>7. CASE ReceiveMsg
    <2>1. InUser /\ currpid # NULLPROC
        BY <1>7 DEF ReceiveMsg, Calling
    <2>2. nmsg[currpid].count \in Int
        BY DEF TablesOK, IInv, SchedOK, Ring
    <2>3. CASE nmsg[currpid].count # 0 /\ TakeMsgs(1) /\ UNCHANGED <<dispatchVars, kpc>>
        <3>1. nmsg[currpid].count \notin 0..(1 - 1) /\ 1 \in Int
            BY <2>3
        <3>2. TablesOK' /\ Taken(1)
            BY <1>7, <2>1, <2>3, <3>1, TakenStep DEF ReceiveMsg
        <3> QED
            BY <3>1, <3>2 DEF Kinds
    <2>4. CASE nmsg[currpid].count = 0 /\ Block("RECV", qkey) /\ Goto(Doing("receivemsg", None, 1)) /\ UNCHANGED <<nmsg, result>>
        <3>1. TablesOK' /\ BlockedFor(1)
            BY <1>7, <2>1, <2>4, BlockedStep DEF ReceiveMsg
        <3> QED
            BY <3>1 DEF Kinds
    <2> QED
        BY <1>7, <2>3, <2>4 DEF ReceiveMsg
<1>8. CASE \E n \in Takes : ReceiveMsgs(n)
    <2> PICK n \in Takes : ReceiveMsgs(n)
        BY <1>8
    <2>0. nmsg[currpid].count \in Int
        BY DEF TablesOK, IInv, SchedOK, Ring
    <2>1. InUser /\ currpid # NULLPROC /\ n \in Takes \cup {1}
        BY DEF ReceiveMsgs, Calling
    <2>2. CASE nmsg[currpid].count >= n /\ TakeMsgs(n) /\ UNCHANGED <<dispatchVars, kpc>>
        <3>1. TablesOK' /\ Taken(n)
            <4>1. nmsg[currpid].count \notin 0..(n - 1)
                BY <1>0, <2>0, <2>1, <2>2
            <4> QED
                BY <2>1, <2>2, <4>1, TakenStep DEF ReceiveMsgs
        <3> QED
            BY <1>0, <2>1, <3>1 DEF Kinds
    <2>3. CASE nmsg[currpid].count < n /\ Block("RECV", qkey) /\ Goto(Doing("receivemsgs", None, n)) /\ UNCHANGED <<nmsg, result>>
        <3>1. TablesOK' /\ BlockedFor(n)
            BY <2>1, <2>3, BlockedStep DEF ReceiveMsgs
        <3> QED
            BY <2>1, <3>1 DEF Kinds
    <2> QED
        BY <2>2, <2>3 DEF ReceiveMsgs
<1>9. CASE ReceiveMsgDone
    <2>1. kpc[currpid].n \in Int
        BY DEF TablesOK, IInv, ContextOK, SchedOK
    <2> QED
        BY <1>9, <2>1, DoneStep DEF Kinds
<1> QED
    BY <1>1, <1>2, <1>3, <1>4, <1>5, <1>6, <1>7, <1>8, <1>9 DEF MsgNext

-----------------------------------------------------------------------------
(* No message waits *)

(* What a step of the kernel does to a process that stays, or becomes, a receiver. *)
LEMMA KernelReceiver ==
    ASSUME TablesOK, KernelNext, NEW p \in Pid, kpc'[p].at \in RingLabels
    PROVE  /\ kpc'[p] = kpc[p]
           /\ (UNCHANGED prstate \/ Kept(p))
           /\ prstate[p] # "FREE" => nmsg'[p] = nmsg[p]
<1>1. IInv /\ Next
    BY DEF TablesOK, KernelNext
<1>2. Elsewhere /\ Undisturbed
    BY <1>1, NextElsewhere, NextUndisturbed
<1>3. kpc'[p] = kpc[p]
    BY <1>2 DEF Elsewhere
<1>4. UNCHANGED prstate \/ Kept(p)
    <2>1. CASE p = currpid
        BY <1>2, <1>3, <2>1 DEF Elsewhere, Receiving, RingLabels, vars, deferVars, dispatchVars
    <2>2. CASE p # currpid
        <3>1. kpc'[p] # User
            BY DEF User, Doing, RingLabels
        <3> QED
            BY <1>2, <2>2, <3>1, Zenon DEF Undisturbed
    <2> QED
        BY <2>1, <2>2
<1>5. prstate[p] # "FREE" => nmsg'[p] = nmsg[p]
    BY DEF KernelNext, Created
<1> QED
    BY <1>3, <1>4, <1>5

LEMMA StepNoMessageWaits ==
    ASSUME TablesOK, NoMessageWaits, Kinds
    PROVE  NoMessageWaits'
<1> SUFFICES ASSUME NEW p \in Pid, kpc'[p].at \in RingLabels, prstate'[p] = "RECV"
             PROVE  nmsg'[p].count < kpc'[p].n
    BY DEF NoMessageWaits, Receiving, RingLabels
<1>0. currpid \in Pid
    BY DEF TablesOK, IInv, SchedOK
<1>1. CASE KernelNext
    <2>1. /\ kpc'[p] = kpc[p]
          /\ (UNCHANGED prstate \/ Kept(p))
          /\ prstate[p] # "FREE" => nmsg'[p] = nmsg[p]
        BY <1>1, KernelReceiver
    <2>2. prstate[p] = "RECV"
        BY <2>1 DEF Kept, Awake
    <2> QED
        BY <2>1, <2>2 DEF NoMessageWaits, Receiving, RingLabels
<1>2. CASE Aside
    <2>1. prstate[p] = "RECV" /\ kpc'[p] = kpc[p] /\ nmsg'[p] = nmsg[p]
        BY <1>2 DEF Aside, Scheduled, Runnable
    <2> QED
        BY <2>1 DEF NoMessageWaits, Receiving, RingLabels
<1>3. ASSUME NEW q \in Pid, Delivered(q) PROVE nmsg'[p].count < kpc'[p].n
    <2>1. prstate[p] = "RECV" /\ p # q
        BY <1>3 DEF Delivered, Woken, Scheduled, Runnable
    <2>2. kpc'[p] = kpc[p] /\ nmsg'[p] = nmsg[p]
        BY <1>3, <2>1 DEF Delivered
    <2> QED
        BY <2>1, <2>2 DEF NoMessageWaits, Receiving, RingLabels
<1>4. ASSUME NEW n \in Int, Taken(n) PROVE nmsg'[p].count < kpc'[p].n
    <2>1. kpc[p].at \in RingLabels /\ p # currpid /\ kpc'[p] = kpc[p]
        <3>1. kpc \in [Pid -> [at : Labels, x : Pid \cup Sem \cup {None}, n : Int]]
            BY DEF TablesOK, IInv, ContextOK
        <3>2. User.at \notin RingLabels
            BY DEF User, Doing, RingLabels
        <3> QED
            BY <1>4, <3>1, <3>2 DEF Taken
    <2>2. prstate[p] = "RECV" /\ nmsg'[p] = nmsg[p]
        BY <1>4, <2>1 DEF Taken, TakeMsgs, TablesOK
    <2> QED
        BY <2>1, <2>2 DEF NoMessageWaits, Receiving, RingLabels
<1>5. ASSUME NEW n \in Takes \cup {1}, BlockedFor(n) PROVE nmsg'[p].count < kpc'[p].n
    <2>1. CASE p = currpid
        BY <1>5, <2>1 DEF BlockedFor
    <2>2. CASE p # currpid
        <3>1. prstate[p] = "RECV" /\ kpc'[p] = kpc[p] /\ nmsg'[p] = nmsg[p]
            BY <1>5, <2>2 DEF BlockedFor, Scheduled, Runnable
        <3> QED
            BY <3>1 DEF NoMessageWaits, Receiving, RingLabels
    <2> QED
        BY <2>1, <2>2
<1> QED
    BY <1>1, <1>2, <1>3, <1>4, <1>5 DEF Kinds

LEMMA InitTables == MsgInit => TablesOK /\ NoMessageWaits
<1> SUFFICES ASSUME MsgInit PROVE TablesOK /\ NoMessageWaits
    OBVIOUS
<1>1. IInv
    BY InitOK DEF MsgInit
<1>2. NoMsgs \in Ring
    BY RingAssumption DEF NoMsgs, Ring
<1>3. LeftOK
    BY DEF MsgInit, LeftOK, NobodyLeft
<1>4. TablesOK
    BY <1>1, <1>2, <1>3 DEF MsgInit, TablesOK
<1>5. \A p \in Pid : kpc[p].at \notin RingLabels
    BY DEF MsgInit, Init, User, Doing, RingLabels
<1> QED
    BY <1>4, <1>5 DEF NoMessageWaits, Receiving, RingLabels

(* The tables of the rings and of sendnMsg hold what they should, and the calls
   of message queues break nothing in the kernel they were added to. *)
THEOREM KernelUnharmed == MsgQueueSpec => []TablesOK
<1>1. TablesOK /\ [MsgNext]_allVars => TablesOK'
    BY StepKinds
<1> QED
    BY <1>1, InitTables, PTL DEF MsgQueueSpec

(* No process is blocked in a receive when its ring holds what it was called
   for: any sender that brought the message has also woken the receiver, and no
   other call puts a receiver to sleep again. *)
THEOREM MessagesNoticed == MsgQueueSpec => []NoMessageWaits
<1>1. TablesOK /\ NoMessageWaits /\ [MsgNext]_allVars => TablesOK' /\ NoMessageWaits'
    BY StepKinds, StepNoMessageWaits
<1> QED
    BY <1>1, InitTables, PTL DEF MsgQueueSpec

-----------------------------------------------------------------------------
(* What a receiver finds, where messages are received one at a time and the
   kernel's own send, which kill calls too, is not used: it wakes whoever is
   in state RECV, whatever that process waits for. *)
NoOtherSends == {"send", "kill"} \cap Calls = {}
OneAtATime == Takes \subseteq {1}

Silent == \A p \in Pid : ~prhasmsg[p] /\ kpc[p].at # "kill"

(* A receiver is blocked with its ring empty, or on its way back with a message in it. *)
Served ==
    \A p \in Pid : Receiving(p) =>
        /\ kpc[p].n = 1
        /\ \/ prstate[p] = "RECV" /\ nmsg[p].count = 0
           \/ prstate[p] \in Awake /\ nmsg[p].count > 0

RingsOK == \A p \in Pid : RingOK(nmsg[p])

RingInv == TablesOK /\ Silent /\ Served /\ RingsOK

LEMMA CallSilent ==
    ASSUME NoOtherSends, IInv, Silent, SemaphoreCall \/ MessageCall \/ ProcessCall \/ ClkHandler \/ KernelStep
    PROVE  \A p \in Pid : ~prhasmsg'[p]
<1>0. prhasmsg \in [Pid -> BOOLEAN] /\ \A p \in Pid : ~prhasmsg[p]
    BY DEF Silent, IInv, FieldsOK
<1>1. ASSUME UNCHANGED prhasmsg PROVE \A p \in Pid : ~prhasmsg'[p]
    BY <1>0, <1>1
<1>2. ASSUME NEW q, prhasmsg' = [prhasmsg EXCEPT ![q] = FALSE] PROVE \A p \in Pid : ~prhasmsg'[p]
    BY <1>0, <1>2
<1>3. CASE SemaphoreCall \/ ClkHandler
    BY <1>1, <1>3 DEF SemaphoreCall, Wait, Signal, SemDelete, SignalN, SemCreate, SemReset, ClkHandler
<1>4. CASE MessageCall
    BY <1>1, <1>2, <1>4 DEF MessageCall, Send, Receive, RecvClr, RecvTime, NoOtherSends, Calling
<1>5. CASE ProcessCall
    BY <1>1, <1>2, <1>5 DEF ProcessCall, Kill, Suspend, Resume, Create, ChPrio, Yield, SleepMs, NoOtherSends, Calling
<1>6. CASE KernelStep
    BY <1>1, <1>2, <1>6 DEF KernelStep, SignalNLoop, SignalNEnd, SemDeleteLoop, SemDeleteEnd, SemResetLoop,
       SemResetEnd, ReceiveDone, RecvTimeDone, KillDone, Wakeup, WakeupEnd, ClkHandlerEnd
<1> QED
    BY <1>3, <1>4, <1>5, <1>6

LEMMA KernelSilent ==
    ASSUME NoOtherSends, IInv, Silent, Next
    PROVE  Silent'
<1>0. currpid \in Pid
    BY DEF IInv, SchedOK
<1>1. CASE Halted
    BY <1>1 DEF Halted, Silent, vars
<1>2. CASE SemaphoreCall \/ MessageCall \/ ProcessCall \/ ClkHandler \/ KernelStep
    <2>1. \A p \in Pid : ~prhasmsg'[p]
        BY <1>2, CallSilent
    <2>2. ~KillDone
        BY <1>0 DEF KillDone, At, Silent
    <2>3. \A p \in Pid : ~Kill(p)
        BY DEF Kill, Calling, NoOtherSends
    <2>4. Calm \/ \E p \in Pid : \E prio \in Prios : Create(p, prio)
        BY <1>2, <2>2, <2>3, SemaphoreCalm, MessageCalm, ProcessCalm, ClockCalm, StepCalm
    <2>5. \A p \in Pid : kpc'[p].at # "kill"
        <3>1. CASE Calm
            BY <3>1 DEF Calm, Silent
        <3>2. ASSUME NEW q \in Pid, NEW prio \in Prios, Create(q, prio) PROVE \A p \in Pid : kpc'[p].at # "kill"
            <4>1. kpc' = [kpc EXCEPT ![q] = User] /\ User.at # "kill" /\ DOMAIN kpc = Pid
                BY <3>2 DEF Create, User, Doing, IInv, ContextOK
            <4> QED
                BY <4>1 DEF Silent
        <3> QED
            BY <2>4, <3>1, <3>2
    <2> QED
        BY <2>1, <2>5 DEF Silent
<1> QED
    BY <1>1, <1>2 DEF Next

LEMMA StepSilent ==
    ASSUME NoOtherSends, RingInv, Kinds
    PROVE  Silent'
<1>0. kpc \in [Pid -> [at : Labels, x : Pid \cup Sem \cup {None}, n : Int]] /\ currpid \in Pid
    BY DEF RingInv, TablesOK, IInv, ContextOK, SchedOK
<1>1. CASE KernelNext
    BY <1>1, KernelSilent DEF KernelNext, RingInv, TablesOK
<1>2. CASE Aside
    BY <1>2 DEF Aside, RingInv, Silent
<1>3. ASSUME NEW q \in Pid, Delivered(q) PROVE Silent'
    BY <1>3 DEF Delivered, RingInv, Silent
<1>4. ASSUME NEW n \in Int, Taken(n) PROVE Silent'
    <2>1. User.at # "kill"
        BY DEF User, Doing
    <2> QED
        BY <1>0, <1>4, <2>1 DEF Taken, RingInv, Silent
<1>5. ASSUME NEW n \in Takes \cup {1}, BlockedFor(n) PROVE Silent'
    <2>1. kpc'[currpid].at # "kill"
        BY <1>5 DEF BlockedFor, RingLabels
    <2> QED
        BY <1>0, <1>5, <2>1 DEF BlockedFor, RingInv, Silent
<1> QED
    BY <1>1, <1>2, <1>3, <1>4, <1>5 DEF Kinds

LEMMA DropRecord ==
    ASSUME NEW c, NEW i, NEW o, NEW f, NEW n, NEW r,
           r = [count |-> c, qin |-> i, qout |-> o, msgq |-> f]
    PROVE  Drop(r, n) = [count |-> c - n, qin |-> i, qout |-> (o + n) % MAX_MSGS, msgq |-> f]
<1>1. /\ Drop(r, n).count = c - n /\ Drop(r, n).qin = i
      /\ Drop(r, n).msgq = f
    BY DEF Drop
<1>2. Drop(r, n).qout = (o + n) % MAX_MSGS
    BY DEF Drop
<1>3. /\ DOMAIN Drop(r, n) = {"count", "qin", "qout", "msgq"}
      /\ Drop(r, n) = [x \in DOMAIN Drop(r, n) |-> Drop(r, n)[x]]
    <2>1. DOMAIN r = {"count", "qin", "qout", "msgq"}
        OBVIOUS
    <2>2. DOMAIN Drop(r, n) = DOMAIN r
        BY DEF Drop
    <2>3. Drop(r, n) = [x \in DOMAIN Drop(r, n) |-> Drop(r, n)[x]]
        BY DEF Drop
    <2> QED
        BY <2>1, <2>2, <2>3
<1> HIDE DEF Drop
<1> QED
    BY <1>1, <1>2, <1>3

(* Taking messages that are there leaves a ring that is in order. *)
LEMMA DropFields ==
    ASSUME NEW r \in Ring, NEW n \in 0..MAX_MSGS
    PROVE  /\ Drop(r, n) \in Ring
           /\ Drop(r, n).count = r.count - n /\ Drop(r, n).qin = r.qin
           /\ Drop(r, n).qout = Wrap(r.qout + n) /\ Drop(r, n).msgq = r.msgq
<1>1. /\ r.count \in Int /\ r.qin \in 0..(MAX_MSGS - 1) /\ r.qout \in 0..(MAX_MSGS - 1)
      /\ r.msgq \in [0..(MAX_MSGS - 1) -> Msg \cup {None}]
      /\ r = [count |-> r.count, qin |-> r.qin, qout |-> r.qout, msgq |-> r.msgq]
    BY DEF Ring
<1>2. (r.qout + n) % MAX_MSGS = Wrap(r.qout + n) /\ Wrap(r.qout + n) \in 0..(MAX_MSGS - 1) /\ r.count - n \in Int
    <2>1. r.qout + n \in 0..(2 * MAX_MSGS - 1) /\ r.count - n \in Int
        BY <1>1, RingAssumption
    <2> QED
        BY <2>1, WrapIsMod
<1>3. Drop(r, n) = [count |-> r.count - n, qin |-> r.qin, qout |-> Wrap(r.qout + n), msgq |-> r.msgq]
    BY <1>1, <1>2, DropRecord
<1> QED
    BY <1>1, <1>2, <1>3 DEF Ring

LEMMA DropOK ==
    ASSUME NEW r, RingOK(r), NEW n \in 1..r.count
    PROVE  RingOK(Drop(r, n))
<1> DEFINE s == Drop(r, n)
<1>1. /\ r.count \in 0..MAX_MSGS /\ r.qout \in 0..(MAX_MSGS - 1) /\ MAX_MSGS \in Nat \ {0}
      /\ r.qin = Wrap(r.qout + r.count) /\ r \in Ring /\ n \in 0..MAX_MSGS
    BY RingAssumption DEF RingOK, Ring
<1>2. /\ s \in Ring /\ s.count = r.count - n /\ s.qin = r.qin /\ s.qout = Wrap(r.qout + n)
      /\ s.msgq = r.msgq
    BY <1>1, DropFields
<1> HIDE DEF s
<1>3. \A i \in 0..s.count : Wrap(s.qout + i) = Wrap(r.qout + (n + i))
    BY <1>1, <1>2 DEF Wrap
<1>4. s.count \in 0..MAX_MSGS /\ s.qin = Wrap(s.qout + s.count)
    <2>1. s.count \in 0..s.count /\ n + s.count = r.count
        BY <1>1, <1>2
    <2> QED
        BY <1>1, <1>2, <1>3, <2>1
<1>5. ASSUME NEW i \in 0..(s.count - 1) PROVE s.msgq[Wrap(s.qout + i)] \in Msg
    <2>1. n + i \in 0..(r.count - 1) /\ i \in 0..s.count
        BY <1>1, <1>2
    <2>2. r.msgq[Wrap(r.qout + (n + i))] \in Msg
        BY <2>1 DEF RingOK
    <2> QED
        BY <1>2, <1>3, <2>1, <2>2
<1>6. RingOK(s)
    BY <1>2, <1>4, <1>5 DEF RingOK
<1> QED
    BY <1>6 DEF s

LEMMA NoMsgsOK == RingOK(NoMsgs)
BY RingAssumption DEF RingOK, NoMsgs, Ring, Wrap

(* The caller takes one message, and it is there. *)
LEMMA TakenOne ==
    ASSUME OneAtATime, RingInv, NEW n \in Int, Taken(n)
    PROVE  /\ n = 1 /\ currpid \in Pid /\ nmsg[currpid].count \in 1..MAX_MSGS
           /\ \A q \in Pid : nmsg'[q] = IF q = currpid THEN Drop(nmsg[q], 1) ELSE nmsg[q]
           /\ kpc'[currpid] = User /\ \A q \in Pid \ {currpid} : kpc'[q] = kpc[q]
<1>1. currpid \in Pid /\ prstate[currpid] = "CURR" /\ DOMAIN kpc = Pid
    BY DEF RingInv, TablesOK, IInv, SchedOK, SomeoneToRun, ContextOK
<1>2. nmsg[currpid].count \in 0..MAX_MSGS /\ MAX_MSGS \in Nat \ {0} /\ DOMAIN nmsg = Pid
    BY <1>1, RingAssumption DEF RingInv, RingsOK, RingOK, TablesOK
<1>3. n = 1 /\ nmsg[currpid].count > 0
    <2>1. CASE UNCHANGED kpc /\ kpc[currpid] = User /\ n \in Takes \cup {1} /\ nmsg[currpid].count \notin 0..(n - 1)
        <3>1. n = 1
            BY <2>1 DEF OneAtATime
        <3> QED
            BY <1>2, <2>1, <3>1
    <2>2. CASE kpc' = [kpc EXCEPT ![currpid] = User] /\ Receiving(currpid) /\ n = kpc[currpid].n
        BY <1>1, <2>2 DEF RingInv, Served
    <2> QED
        BY <2>1, <2>2 DEF Taken
<1>4. kpc'[currpid] = User /\ \A q \in Pid \ {currpid} : kpc'[q] = kpc[q]
    BY <1>1 DEF Taken
<1> QED
    BY <1>1, <1>2, <1>3, <1>4 DEF Taken, TakeMsgs

LEMMA StepRingsOK ==
    ASSUME OneAtATime, RingInv, Kinds
    PROVE  RingsOK'
<1>1. CASE KernelNext
    BY <1>1, NoMsgsOK DEF KernelNext, RingInv, RingsOK
<1>2. CASE Aside
    BY <1>2 DEF Aside, RingInv, RingsOK
<1>3. ASSUME NEW q \in Pid, Delivered(q) PROVE RingsOK'
    BY <1>3 DEF Delivered, Filled, RingInv, RingsOK
<1>4. ASSUME NEW n \in Int, Taken(n) PROVE RingsOK'
    <2>1. /\ currpid \in Pid /\ nmsg[currpid].count \in 1..MAX_MSGS
          /\ \A q \in Pid : nmsg'[q] = IF q = currpid THEN Drop(nmsg[q], 1) ELSE nmsg[q]
        BY <1>4, TakenOne
    <2>2. RingOK(Drop(nmsg[currpid], 1))
        <3>1. RingOK(nmsg[currpid]) /\ 1 \in 1..nmsg[currpid].count
            BY <2>1 DEF RingInv, RingsOK
        <3> QED
            BY <3>1, DropOK
    <2> QED
        BY <2>1, <2>2 DEF RingInv, RingsOK
<1>5. ASSUME NEW n \in Takes \cup {1}, BlockedFor(n) PROVE RingsOK'
    BY <1>5 DEF BlockedFor, RingInv, RingsOK
<1> QED
    BY <1>1, <1>2, <1>3, <1>4, <1>5 DEF Kinds

LEMMA StepServed ==
    ASSUME OneAtATime, RingInv, Silent', Kinds
    PROVE  Served'
<1> DEFINE Good(p) == /\ kpc[p].n = 1
                      /\ \/ prstate[p] = "RECV" /\ nmsg[p].count = 0
                         \/ prstate[p] \in Awake /\ nmsg[p].count > 0
<1> SUFFICES ASSUME NEW p \in Pid, kpc'[p].at \in RingLabels PROVE Good(p)'
    BY DEF Served, Receiving, RingLabels
<1>0. /\ currpid \in Pid /\ prstate[currpid] = "CURR"
      /\ kpc[p].at \in RingLabels => Good(p)
      /\ User.at \notin RingLabels
    BY DEF RingInv, TablesOK, IInv, SchedOK, SomeoneToRun, Served, Receiving, RingLabels, User, Doing
<1>1. CASE KernelNext
    <2>1. /\ kpc'[p] = kpc[p]
          /\ (UNCHANGED prstate \/ Kept(p))
          /\ prstate[p] # "FREE" => nmsg'[p] = nmsg[p]
        BY <1>1, KernelReceiver DEF RingInv
    <2>2. Good(p)
        BY <1>0, <2>1
    <2>3. nmsg'[p] = nmsg[p]
        BY <2>1, <2>2 DEF Awake
    <2>4. ~prhasmsg'[p]
        BY DEF Silent
    <2>5. prstate'[p] = prstate[p] \/ (prstate[p] \in Awake /\ prstate'[p] \in Awake)
        BY <2>1, <2>2, <2>4 DEF Kept, Awake
    <2> QED
        BY <2>1, <2>2, <2>3, <2>5 DEF Awake
<1>2. CASE Aside
    <2>1. kpc'[p] = kpc[p] /\ nmsg' = nmsg /\ Scheduled(p)
        BY <1>2 DEF Aside
    <2> QED
        BY <1>0, <2>1 DEF Scheduled, Runnable, Awake
<1>3. ASSUME NEW q \in Pid, Delivered(q) PROVE Good(p)'
    <2>1. kpc'[p] = kpc[p] /\ Good(p)
        BY <1>0, <1>3 DEF Delivered
    <2>2. CASE p # q
        <3>1. nmsg'[p] = nmsg[p] /\ Scheduled(p)
            BY <1>3, <2>2 DEF Delivered, Woken
        <3> QED
            BY <2>1, <3>1 DEF Scheduled, Runnable, Awake
    <2>3. CASE p = q
        <3>1. nmsg'[p].count > 0
            BY <1>3, <2>3 DEF Delivered, Filled, RingInv, RingsOK
        <3>2. prstate'[p] \in Awake
            BY <1>3, <2>1, <2>3 DEF Delivered, Woken, Scheduled, Runnable, Awake
        <3> QED
            BY <2>1, <3>1, <3>2
    <2> QED
        BY <2>2, <2>3
<1>4. ASSUME NEW n \in Int, Taken(n) PROVE Good(p)'
    <2>1. /\ \A q \in Pid : nmsg'[q] = IF q = currpid THEN Drop(nmsg[q], 1) ELSE nmsg[q]
          /\ kpc'[currpid] = User /\ \A q \in Pid \ {currpid} : kpc'[q] = kpc[q]
        BY <1>4, TakenOne
    <2>2. p # currpid
        BY <1>0, <2>1
    <2>3. kpc'[p] = kpc[p] /\ nmsg'[p] = nmsg[p] /\ prstate' = prstate
        BY <1>4, <2>1, <2>2 DEF Taken
    <2> QED
        BY <1>0, <2>3
<1>5. ASSUME NEW n \in Takes \cup {1}, BlockedFor(n) PROVE Good(p)'
    <2>1. CASE p = currpid
        <3>1. n = 1 /\ kpc'[p].n = 1 /\ nmsg'[p].count < 1 /\ prstate'[p] = "RECV" /\ nmsg'[p] = nmsg[p]
            BY <1>5, <2>1 DEF BlockedFor, OneAtATime
        <3>2. nmsg[p].count \in 0..MAX_MSGS /\ MAX_MSGS \in Nat
            BY RingAssumption DEF RingInv, RingsOK, RingOK
        <3> QED
            BY <3>1, <3>2
    <2>2. CASE p # currpid
        <3>1. Scheduled(p) /\ kpc'[p] = kpc[p] /\ nmsg'[p] = nmsg[p]
            BY <1>5, <2>2 DEF BlockedFor
        <3> QED
            BY <1>0, <3>1 DEF Scheduled, Runnable, Awake
    <2> QED
        BY <2>1, <2>2
<1> QED
    BY <1>1, <1>2, <1>3, <1>4, <1>5 DEF Kinds

LEMMA InitRings == MsgInit => RingInv
<1> SUFFICES ASSUME MsgInit PROVE RingInv
    OBVIOUS
<1>1. TablesOK /\ \A p \in Pid : nmsg[p] = NoMsgs
    BY InitTables DEF MsgInit
<1>2. \A p \in Pid : kpc[p].at \notin RingLabels \cup {"kill"} /\ ~prhasmsg[p]
    BY DEF MsgInit, Init, User, Doing, RingLabels
<1> QED
    BY <1>1, <1>2, NoMsgsOK DEF RingInv, RingsOK, Silent, Served, Receiving, RingLabels

LEMMA RingInvariant ==
    ASSUME NoOtherSends, OneAtATime
    PROVE  MsgQueueSpec => []RingInv
<1>1. RingInv /\ [MsgNext]_allVars => RingInv'
    <2> SUFFICES ASSUME RingInv, [MsgNext]_allVars PROVE RingInv'
        OBVIOUS
    <2>1. TablesOK' /\ Kinds
        BY StepKinds DEF RingInv
    <2>2. Silent'
        BY <2>1, StepSilent
    <2>3. RingsOK' /\ Served'
        BY <2>1, <2>2, StepRingsOK, StepServed
    <2> QED
        BY <2>1, <2>2, <2>3 DEF RingInv
<1> QED
    BY <1>1, InitRings, PTL DEF MsgQueueSpec

(* A receiver that was blocked finds the message it waited for, although it does
   not look before it takes: nothing but a sender of its ring makes it ready. *)
THEOREM ReceiversFind ==
    ASSUME NoOtherSends, OneAtATime
    PROVE  MsgQueueSpec => []FoundEnough
<1>1. RingInv => FoundEnough
    <2> SUFFICES ASSUME RingInv, NEW p \in Pid, Receiving(p), prstate[p] \in {"CURR", "READY", "SUSP"}
                 PROVE  nmsg[p].count >= kpc[p].n
        BY DEF FoundEnough
    <2>1. kpc[p].n = 1 /\ nmsg[p].count > 0
        BY DEF RingInv, Served
    <2>2. nmsg[p].count \in 0..MAX_MSGS /\ MAX_MSGS \in Nat
        BY RingAssumption DEF RingInv, RingsOK, RingOK
    <2> QED
        BY <2>1, <2>2
<1> QED
    BY <1>1, RingInvariant, PTL

(* The two indexes of a ring and its count agree, whatever wrapped around and
   however many messages a call brought: no message is overwritten or read twice. *)
THEOREM RingsConsistent ==
    ASSUME NoOtherSends, OneAtATime
    PROVE  MsgQueueSpec => []RingConsistent
<1>1. RingInv => RingConsistent
    <2> SUFFICES ASSUME RingInv, NEW p \in Pid
                 PROVE  /\ nmsg[p].count \in 0..MAX_MSGS
                        /\ nmsg[p].qin = (nmsg[p].qout + nmsg[p].count) % MAX_MSGS
        BY DEF RingConsistent
    <2> DEFINE r == nmsg[p]
    <2>1. /\ r.count \in 0..MAX_MSGS /\ r.qout \in 0..(MAX_MSGS - 1) /\ MAX_MSGS \in Nat \ {0}
          /\ r.qin = Wrap(r.qout + r.count)
        BY RingAssumption DEF RingInv, RingsOK, RingOK, Ring
    <2> HIDE DEF r
    <2>2. r.qout + r.count \in 0..(2 * MAX_MSGS - 1)
        BY <2>1
    <2>3. (r.qout + r.count) % MAX_MSGS = Wrap(r.qout + r.count)
        BY <2>2, WrapIsMod
    <2> QED
        BY <2>1, <2>3 DEF r
<1> QED
    BY <1>1, RingInvariant, PTL

-----------------------------------------------------------------------------
(* The rings are first-in first-out inboxes *)
Contents(r) == Oldest(r, IF r.count > 0 THEN r.count ELSE 0)

LEMMA ContentsFields ==
    ASSUME NEW r, RingOK(r)
    PROVE  /\ Contents(r) \in Seq(Msg) /\ Len(Contents(r)) = r.count
           /\ \A i \in 1..r.count : Contents(r)[i] = r.msgq[Wrap(r.qout + (i - 1))]
<1>1. /\ r.count \in 0..MAX_MSGS /\ r.qout \in 0..(MAX_MSGS - 1) /\ MAX_MSGS \in Nat \ {0}
    BY RingAssumption DEF RingOK, Ring
<1>2. ASSUME NEW i \in 1..r.count
      PROVE  /\ (r.qout + i - 1) % MAX_MSGS = Wrap(r.qout + (i - 1))
             /\ r.msgq[Wrap(r.qout + (i - 1))] \in Msg
    <2>1. r.qout + (i - 1) \in 0..(2 * MAX_MSGS - 1) /\ r.qout + i - 1 = r.qout + (i - 1) /\ i - 1 \in 0..(r.count - 1)
        BY <1>1
    <2> QED
        BY <2>1, WrapIsMod DEF RingOK
<1>3. (IF r.count > 0 THEN r.count ELSE 0) = r.count
    BY <1>1
<1>4. Contents(r) = [i \in 1..r.count |-> r.msgq[(r.qout + i - 1) % MAX_MSGS]]
    BY <1>3 DEF Contents, Oldest
<1> DEFINE f == [i \in 1..r.count |-> r.msgq[Wrap(r.qout + (i - 1))]]
<1>5. Contents(r) = f
    BY <1>2, <1>4
<1>6. f \in [1..r.count -> Msg] /\ r.count \in Nat
    BY <1>1, <1>2
<1> HIDE DEF f
<1>7. f \in Seq(Msg) /\ Len(f) = r.count
    BY <1>6, SeqDef, LenProperties
<1> QED
    BY <1>5, <1>7 DEF f

LEMMA GrowsPut ==
    ASSUME NEW r, NEW s, RingOK(r), RingOK(s), Grows(r, s)
    PROVE  /\ Len(Contents(s)) <= MAX_MSGS /\ ToSet(Contents(s)) \subseteq Msg
           /\ IsPrefix(Contents(r), Contents(s))
<1> DEFINE u == Contents(r)
           v == Contents(s)
<1>1. /\ u \in Seq(Msg) /\ Len(u) = r.count /\ \A i \in 1..r.count : u[i] = r.msgq[Wrap(r.qout + (i - 1))]
      /\ v \in Seq(Msg) /\ Len(v) = s.count /\ \A i \in 1..s.count : v[i] = s.msgq[Wrap(s.qout + (i - 1))]
    BY ContentsFields
<1>2. /\ r.count \in Nat /\ s.count \in Nat /\ s.count <= MAX_MSGS /\ r.count <= s.count /\ s.qout = r.qout
      /\ \A i \in 0..(r.count - 1) : s.msgq[Wrap(r.qout + i)] = r.msgq[Wrap(r.qout + i)]
    BY RingAssumption DEF RingOK, Grows
<1> HIDE DEF u, v
<1>3. \A i \in 1..r.count : i - 1 \in 0..(r.count - 1) /\ i \in 1..s.count
    BY <1>2
<1>4. \A i \in 1..r.count : u[i] = v[i]
    BY <1>1, <1>2, <1>3
<1>5. SubSeq(u, 1, Len(u)) = SubSeq(v, 1, Len(u))
    <2> DEFINE x == SubSeq(u, 1, Len(u))
               y == SubSeq(v, 1, Len(u))
    <2>1. x \in Seq(Msg) /\ Len(x) = r.count /\ \A i \in 1..r.count : x[i] = u[i]
        <3>1. x = u
            BY <1>1, SubSeqFull
        <3> QED
            BY <1>1, <3>1
    <2>2. y \in Seq(Msg) /\ Len(y) = r.count /\ \A i \in 1..r.count : y[i] = v[i]
        <3>1. 1 \in 1..(Len(v) + 1) /\ Len(u) \in (1 - 1)..Len(v)
            BY <1>1, <1>2
        <3>2. /\ y \in Seq(Msg) /\ Len(y) = IF 1 <= Len(u) THEN Len(u) - 1 + 1 ELSE 0
              /\ \A i \in 1..(Len(u) - 1 + 1) : y[i] = v[1 + i - 1]
            BY <1>1, <3>1, SubSeqProperties
        <3> QED
            BY <1>1, <1>2, <3>2
    <2> HIDE DEF x, y
    <2>3. x = y
        BY <1>4, <2>1, <2>2, SeqEqual
    <2> QED
        BY <2>3 DEF x, y
<1>6. IsPrefix(u, v)
    BY <1>1, <1>2, <1>5 DEF IsPrefix
<1>7. ToSet(v) \subseteq Msg
    BY <1>1 DEF ToSet
<1> QED
    BY <1>1, <1>2, <1>6, <1>7 DEF u, v

LEMMA DropTakes ==
    ASSUME NEW r, RingOK(r), NEW n \in 1..r.count
    PROVE  /\ Oldest(r, n) = SubSeq(Contents(r), 1, n)
           /\ Contents(Drop(r, n)) = SubSeq(Contents(r), n + 1, Len(Contents(r)))
<1> DEFINE u == Contents(r)
           s == Drop(r, n)
<1>1. /\ u \in Seq(Msg) /\ Len(u) = r.count /\ \A i \in 1..r.count : u[i] = r.msgq[Wrap(r.qout + (i - 1))]
    BY ContentsFields
<1>2. /\ r.count \in 0..MAX_MSGS /\ r.qout \in 0..(MAX_MSGS - 1) /\ MAX_MSGS \in Nat \ {0} /\ r \in Ring
    BY RingAssumption DEF RingOK, Ring
<1>3. /\ s.count = r.count - n /\ s.qout = Wrap(r.qout + n) /\ s.msgq = r.msgq
    <2>1. n \in 0..MAX_MSGS
        BY <1>2
    <2> QED
        BY <1>2, <2>1, DropFields
<1>4. RingOK(s)
    BY DropOK
<1>5. /\ Contents(s) \in Seq(Msg) /\ Len(Contents(s)) = s.count
      /\ \A i \in 1..s.count : Contents(s)[i] = s.msgq[Wrap(s.qout + (i - 1))]
    BY <1>4, ContentsFields
<1>6. Oldest(r, n) = SubSeq(u, 1, n)
    <2>1. \A i \in 1..n : r.qout + (i - 1) \in 0..(2 * MAX_MSGS - 1) /\ r.qout + i - 1 = r.qout + (i - 1) /\ i \in 1..r.count
        BY <1>2
    <2>2. \A i \in 1..n : r.msgq[(r.qout + i - 1) % MAX_MSGS] = u[i] /\ u[i] \in Msg
        <3> HIDE DEF u
        <3> TAKE i \in 1..n
        <3>1. (r.qout + (i - 1)) % MAX_MSGS = Wrap(r.qout + (i - 1))
            BY <2>1, WrapIsMod
        <3>2. i \in 1..Len(u)
            BY <1>1, <2>1
        <3> QED
            BY <1>1, <2>1, <3>1, <3>2
    <2> DEFINE x == Oldest(r, n)
               y == SubSeq(u, 1, n)
    <2>3. x \in [1..n -> Msg] /\ \A i \in 1..n : x[i] = u[i]
        BY <2>2 DEF Oldest
    <2> HIDE DEF u, x
    <2>4. n \in Nat /\ 1 \in 1..(Len(u) + 1) /\ n \in (1 - 1)..Len(u) /\ 1 <= n /\ n - 1 + 1 = n
        BY <1>1, <1>2
    <2>5. x \in Seq(Msg) /\ Len(x) = n
        BY <2>3, <2>4, SeqDef, LenProperties
    <2>6. y \in Seq(Msg) /\ Len(y) = n /\ \A i \in 1..n : y[i] = u[1 + i - 1]
        BY <1>1, <2>4, SubSeqProperties
    <2>7. \A i \in 1..n : 1 + i - 1 = i
        BY <2>4
    <2> HIDE DEF y
    <2>8. x = y
        BY <2>3, <2>5, <2>6, <2>7, SeqEqual
    <2> QED
        BY <2>8 DEF x, y
<1>7. Contents(s) = SubSeq(u, n + 1, Len(u))
    <2> DEFINE x == Contents(s)
               y == SubSeq(u, n + 1, Len(u))
    <2> HIDE DEF u, s
    <2>1. /\ n + 1 \in 1..(Len(u) + 1) /\ Len(u) \in (n + 1 - 1)..Len(u)
          /\ Len(u) - (n + 1) + 1 = s.count
          /\ (IF n + 1 <= Len(u) THEN Len(u) - (n + 1) + 1 ELSE 0) = s.count
        BY <1>1, <1>2, <1>3
    <2>2. y \in Seq(Msg) /\ Len(y) = s.count /\ \A i \in 1..s.count : y[i] = u[n + 1 + i - 1]
        BY <1>1, <2>1, SubSeqProperties
    <2> HIDE DEF x, y
    <2>3. ASSUME NEW i \in 1..s.count PROVE x[i] = y[i]
        <3>1. n + 1 + i - 1 = n + i /\ n + i \in 1..r.count /\ i - 1 \in 0..(s.count - 1)
            BY <1>2, <1>3
        <3>2. Wrap(s.qout + (i - 1)) = Wrap(r.qout + ((n + i) - 1))
            BY <1>2, <1>3 DEF Wrap
        <3>3. y[i] = r.msgq[Wrap(r.qout + ((n + i) - 1))]
            BY <1>1, <2>2, <3>1
        <3> QED
            BY <1>3, <1>5, <3>2, <3>3 DEF x
    <2>4. x \in Seq(Msg) /\ Len(x) = Len(y) /\ Len(x) = s.count
        BY <1>5, <2>2 DEF x
    <2>5. x = y
        BY <2>2, <2>3, <2>4, SeqEqual
    <2> QED
        BY <2>5 DEF x, y
<1> QED
    BY <1>6, <1>7

LEMMA BoxIs == Box = [p \in Pid |-> Contents(nmsg[p])]
BY DEF Box, Inbox, Contents

LEMMA StepInbox ==
    ASSUME OneAtATime, RingInv, RingInv', Kinds
    PROVE  [Inboxes!Next]_<<Box, result>>
<1>0. /\ \A p \in Pid : Box[p] = Contents(nmsg[p]) /\ Box'[p] = Contents(nmsg'[p])
      /\ Box = [p \in Pid |-> Box[p]] /\ Box' = [p \in Pid |-> Box'[p]]
    <2>1. Box = [p \in Pid |-> Contents(nmsg[p])] /\ Box' = [p \in Pid |-> Contents(nmsg'[p])]
        BY DEF Box, Inbox, Contents
    <2> QED
        BY <2>1
<1>s. result = [p \in Pid |-> result[p]] /\ result' = [p \in Pid |-> result'[p]]
    BY DEF RingInv, TablesOK
<1>1. CASE UNCHANGED <<nmsg, result>>
    BY <1>1 DEF Box, Inbox, Oldest
<1>2. CASE KernelNext
    <2>1. IInv /\ [Next]_vars
        BY <1>2 DEF RingInv, TablesOK, KernelNext
    <2>2. CASE \A p \in Pid : ~Created(p)
        <3>1. nmsg' = nmsg /\ result' = result
            BY <1>2, <1>s, <2>2 DEF KernelNext, RingInv, TablesOK
        <3> QED
            BY <1>1, <3>1
    <2>3. CASE \E p \in Pid : Created(p) /\ \A q \in Pid \ {p} : ~Created(q)
        <3> PICK p \in Pid : Created(p) /\ \A q \in Pid \ {p} : ~Created(q)
            BY <2>3
        <3>1. \A q \in Pid : /\ nmsg'[q] = IF q = p THEN NoMsgs ELSE nmsg[q]
                             /\ result'[q] = IF q = p THEN <<>> ELSE result[q]
            BY <1>2 DEF KernelNext
        <3>2. Contents(NoMsgs) = <<>>
            <4>1. Contents(NoMsgs) \in Seq(Msg) /\ Len(Contents(NoMsgs)) = 0
                BY NoMsgsOK, ContentsFields DEF NoMsgs
            <4> QED
                BY <4>1, EmptySeq
        <3>3. Box' = [Box EXCEPT ![p] = <<>>] /\ result' = [result EXCEPT ![p] = <<>>]
            BY <1>0, <1>s, <3>1, <3>2
        <3>4. Inboxes!Renew(p)
            BY <1>0, <3>3 DEF Inboxes!Renew
        <3> QED
            BY <3>4 DEF Inboxes!Next
    <2> QED
        BY <2>1, <2>2, <2>3, NextCreated
<1>3. CASE Aside
    BY <1>1, <1>3 DEF Aside
<1>4. ASSUME NEW p \in Pid, Delivered(p) PROVE Inboxes!Next
    <2>1. /\ result' = result /\ (\A q \in Pid \ {p} : nmsg'[q] = nmsg[q])
          /\ RingOK(nmsg[p]) /\ RingOK(nmsg'[p]) /\ Grows(nmsg[p], nmsg'[p])
        BY <1>4 DEF Delivered, Filled, RingInv, RingsOK
    <2>2. /\ Len(Box'[p]) <= MAX_MSGS /\ ToSet(Box'[p]) \subseteq Msg
          /\ IsPrefix(Box[p], Box'[p])
        BY <1>0, <2>1, GrowsPut
    <2>3. Box' = [Box EXCEPT ![p] = Box'[p]]
        BY <1>0, <2>1
    <2>4. Inboxes!Put(p)
        BY <1>0, <2>1, <2>2, <2>3 DEF Inboxes!Put, Inboxes!ToSet, Inboxes!IsPrefix, ToSet, IsPrefix
    <2> QED
        BY <2>4 DEF Inboxes!Next
<1>5. ASSUME NEW n \in Int, Taken(n) PROVE Inboxes!Next
    <2>1. /\ n = 1 /\ currpid \in Pid /\ nmsg[currpid].count \in 1..MAX_MSGS
          /\ \A q \in Pid : nmsg'[q] = IF q = currpid THEN Drop(nmsg[q], 1) ELSE nmsg[q]
        BY <1>5, TakenOne
    <2>2. RingOK(nmsg[currpid]) /\ 1 \in 1..nmsg[currpid].count /\ 1 \in 1..MAX_MSGS
        BY <2>1, RingAssumption DEF RingInv, RingsOK
    <2>3. /\ Oldest(nmsg[currpid], 1) = SubSeq(Box[currpid], 1, 1)
          /\ Box'[currpid] = SubSeq(Box[currpid], 1 + 1, Len(Box[currpid]))
          /\ 1 <= Len(Box[currpid])
        <3> DEFINE r == nmsg[currpid]
        <3>1. /\ Oldest(r, 1) = SubSeq(Contents(r), 1, 1)
              /\ Contents(Drop(r, 1)) = SubSeq(Contents(r), 1 + 1, Len(Contents(r)))
            BY <2>2, DropTakes
        <3>2. Len(Contents(r)) = r.count /\ r.count >= 1
            BY <2>1, <2>2, ContentsFields
        <3>3. Box[currpid] = Contents(r) /\ Box'[currpid] = Contents(Drop(r, 1))
            BY <1>0, <2>1
        <3> HIDE DEF r
        <3>4. /\ Oldest(r, 1) = SubSeq(Box[currpid], 1, 1)
              /\ Box'[currpid] = SubSeq(Box[currpid], 1 + 1, Len(Box[currpid]))
              /\ 1 <= Len(Box[currpid])
            BY <2>1, <3>1, <3>2, <3>3
        <3> QED
            BY <3>4 DEF r
    <2>4. result' = [result EXCEPT ![currpid] = SubSeq(Box[currpid], 1, 1)]
        BY <1>5, <2>1, <2>3 DEF Taken, TakeMsgs
    <2>5. Box' = [Box EXCEPT ![currpid] = SubSeq(Box[currpid], 1 + 1, Len(Box[currpid]))]
        <3> DEFINE left1 == SubSeq(Box[currpid], 1 + 1, Len(Box[currpid]))
        <3>1. Box'[currpid] = left1
            BY <2>3
        <3>2. \A q \in Pid : q # currpid => Box'[q] = Box[q]
            BY <1>0, <2>1
        <3> HIDE DEF left1
        <3>3. Box' = [Box EXCEPT ![currpid] = left1]
            BY <1>0, <2>1, <3>1, <3>2
        <3> QED
            BY <3>3 DEF left1
    <2>6. Inboxes!Take(currpid, 1)
        BY <1>0, <2>3, <2>4, <2>5 DEF Inboxes!Take
    <2> QED
        BY <2>1, <2>2, <2>6 DEF Inboxes!Next
<1>6. ASSUME NEW n \in Takes \cup {1}, BlockedFor(n) PROVE UNCHANGED <<nmsg, result>>
    BY <1>6 DEF BlockedFor
<1> QED
    BY <1>1, <1>2, <1>3, <1>4, <1>5, <1>6 DEF Kinds

(* Together the rings are first-in first-out inboxes: what a process receives is
   the oldest of what was sent to it, nothing is lost that a ring had room for,
   and a new process finds none of its predecessor's messages. *)
THEOREM RingsAreInboxes ==
    ASSUME NoOtherSends, OneAtATime
    PROVE  MsgQueueSpec => ImplementsInboxes
<1>1. MsgInit => Inboxes!Init
    <2> SUFFICES ASSUME MsgInit PROVE Inboxes!Init
        OBVIOUS
    <2>1. \A p \in Pid : nmsg[p] = NoMsgs
        BY DEF MsgInit
    <2>2. Contents(NoMsgs) = <<>>
        <3>1. Contents(NoMsgs) \in Seq(Msg) /\ Len(Contents(NoMsgs)) = 0
            BY NoMsgsOK, ContentsFields DEF NoMsgs
        <3> QED
            BY <3>1, EmptySeq
    <2>3. Box = [p \in Pid |-> <<>>] /\ result = [p \in Pid |-> <<>>]
        BY <2>1, <2>2, BoxIs DEF MsgInit
    <2> QED
        BY <2>3 DEF Inboxes!Init
<1>2. RingInv /\ RingInv' /\ [MsgNext]_allVars => [Inboxes!Next]_<<Box, result>>
    BY StepKinds, StepInbox DEF RingInv
<1> QED
    BY <1>1, <1>2, RingInvariant, PTL DEF MsgQueueSpec, ImplementsInboxes, Inboxes!Spec, Inboxes!msgSpecVars
=============================================================================
