------------------------------- MODULE BufPool -------------------------------
(***************************************************************************)
(* Buffer pools: each pool is a row of buffers taken from the heap once    *)
(* and for all, a list of the free ones and a semaphore that counts them.  *)
(*                                                                         *)
(* The list is threaded through the buffers: the first word of a buffer    *)
(* that is free holds the address of the next free one (0 at the end), and *)
(* the first word of a buffer in use holds the number of its pool, which   *)
(* freebuf reads from just below the address that it is given.             *)
(***************************************************************************)
EXTENDS Memory, Tasks

CONSTANTS
    NBPOOLS,        \* size of the table of pools
    BP_MINB,        \* smallest buffer
    BP_MAXB,        \* largest buffer
    BP_MAXN,        \* most buffers in a pool
    BufSizes,       \* sizes that mkbufpool is called with
    BufCounts,      \* numbers of buffers that mkbufpool is called with
    BufVictims      \* processes that may be killed

ASSUME BufAssumption ==
    /\ {NBPOOLS, BP_MINB, BP_MAXB, BP_MAXN} \subseteq Nat \ {0}
    /\ BufSizes \cup BufCounts \subseteq Int /\ BufVictims \subseteq Pid
    /\ NBPOOLS <= minheap
    /\ IsFiniteSet(Pid)
    /\ BP_MAXN * (BP_MAXB + 2 * UINT) <= WORD - MB     \* the largest pool's size is a word

VARIABLES
    nbpools,        \* number of pools
    buftab,         \* buftab[]
    word,           \* the first words of buffers, by address
    inuse,          \* buffers that getbuf has handed out and freebuf not taken back
    members         \* the buffers that mkbufpool made for each pool

poolVars == <<nbpools, buftab, word, inuse, members>>

Pools == 0..(nbpools - 1)
Addresses == {a \in minheap..(maxheap - 1) : a % UINT = 0}

(* "Round request to a multiple of 4 bytes", and the pool's number before it. *)
Stride(bufsiz) == roundew(bufsiz) + UINT
Buffer(buf, bufsiz, i) == buf + (i - 1) * Stride(bufsiz)

(* What the words of a new row of buffers hold: each the address of the next. *)
Linked(row, bufsiz) ==
    [a \in Addresses |-> IF a \notin ToSet(row) THEN word[a]
                         ELSE IF a = Last(row) THEN 0 ELSE a + Stride(bufsiz)]

(* A wrong count: one more than there are buffers. *)
NewPoolOneMore(buf, bufsiz, numbufs, s) ==
    LET row  == [i \in 1..numbufs |-> Buffer(buf, bufsiz, i)]
    IN  /\ sem' = [sem EXCEPT ![s] = NewSem(numbufs + 1)]
        /\ nbpools' = nbpools + 1
        /\ buftab' = [buftab EXCEPT ![nbpools] =
                        [bpnext |-> buf, bpsize |-> roundew(bufsiz), bpsem |-> s]]
        /\ word' = Linked(row, bufsiz)
        /\ members' = [members EXCEPT ![nbpools] = ToSet(row)]
        /\ UNCHANGED inuse

(* Fill the next entry of the table, and link the buffers one after the other. *)
NewPool(buf, bufsiz, numbufs, s) ==
    LET row  == [i \in 1..numbufs |-> Buffer(buf, bufsiz, i)]
    IN  /\ sem' = [sem EXCEPT ![s] = NewSem(numbufs)]
        /\ nbpools' = nbpools + 1
        /\ buftab' = [buftab EXCEPT ![nbpools] =
                        [bpnext |-> buf, bpsize |-> roundew(bufsiz), bpsem |-> s]]
        /\ word' = Linked(row, bufsiz)
        /\ members' = [members EXCEPT ![nbpools] = ToSet(row)]
        /\ UNCHANGED inuse

(* A wrong mkbufpool: forgets the pool's number before each buffer. *)
MkBufPoolNoHeader(bufsiz, numbufs) ==
    LET bytes == numbufs * roundew(bufsiz)
        got   == GetMem(heap, bytes)
    IN  /\ InUser
        /\ bufsiz \in BP_MINB..BP_MAXB /\ numbufs \in 1..BP_MAXN /\ nbpools < NBPOOLS
        /\ got.at # NoMem
        /\ \E s \in Unused :
            /\ heap' = got.heap
            /\ held' = held \cup {Grant(got.at, bytes)}
            /\ asked' = [cells |-> Cells(roundmb(bytes)), met |-> TRUE]
            /\ NewPool(got.at, bufsiz, numbufs, s)
        /\ UNCHANGED <<procVars, cont, stacks, lost>>

(* mkbufpool; when there is no semaphore the memory goes back. *)
MkBufPool(bufsiz, numbufs) ==
    LET bytes == numbufs * Stride(bufsiz)
        got   == GetMem(heap, bytes)
    IN  /\ InUser
        /\ bufsiz \in BP_MINB..BP_MAXB /\ numbufs \in 1..BP_MAXN /\ nbpools < NBPOOLS
        /\ got.at # NoMem
        /\ \/ /\ Unused = {}
              /\ heap' = FreeMem(got.heap, got.at, bytes).heap
              /\ buftab' = [buftab EXCEPT ![nbpools] =
                            [bpnext |-> got.at, bpsize |-> roundew(bufsiz), bpsem |-> None]]
              /\ UNCHANGED <<sem, held, asked, nbpools, word, inuse, members>>
           \/ \E s \in Unused :
                /\ heap' = got.heap
                /\ held' = held \cup {Grant(got.at, bytes)}
                /\ asked' = [cells |-> Cells(roundmb(bytes)), met |-> TRUE]
                /\ NewPool(got.at, bufsiz, numbufs, s)
        /\ UNCHANGED <<procVars, cont, stacks, lost>>

(* getbuf past its wait: unlink the first buffer and put the pool's number in it. *)
Unlink(pool) ==
    LET buf == buftab[pool].bpnext
    IN  /\ buftab' = [buftab EXCEPT ![pool].bpnext = word[buf]]
        /\ word' = [word EXCEPT ![buf] = pool]
        /\ inuse' = inuse \cup {buf}
        /\ UNCHANGED <<nbpools, members>>

(* getbuf *)
GetBuf(pool) ==
    /\ InUser /\ pool \in Pools
    /\ LET s == buftab[pool].bpsem
       IN  \/ Available(s) /\ sem' = Down(sem, s, currpid)
              /\ Unlink(pool) /\ UNCHANGED <<procVars, cont>>
           \/ WaitOn(s, [at |-> "getbuf", pool |-> pool]) /\ UNCHANGED poolVars
    /\ UNCHANGED memVars

GetBufDone ==
    /\ At("getbuf")
    /\ Unlink(cont[currpid].pool)
    /\ Return
    /\ UNCHANGED <<procVars, sem, memVars>>

(* A wrong freebuf: the first pool that could be meant. *)
PoolOfFirst(buf) == IF word[buf] < nbpools THEN word[buf] ELSE 0

(* The pool that freebuf finds in the word before a buffer, if it is one. *)
PoolOf(buf) == word[buf]

(* What freebuf is called for: a buffer in use or, a second time, one that is
   free but not the last on its list.  That one's word reads as pool 0, and the
   code would take it for a buffer of that pool. *)
MayFree(buf) ==
    /\ buf \in UNION {members[i] : i \in Pools}
    /\ buf \in inuse \/ word[buf] # 0

(* freebuf *)
FreeBuf(buf) ==
    LET pool == PoolOf(buf)
    IN  /\ InUser
        /\ pool \in Pools
        /\ word' = [word EXCEPT ![buf] = buftab[pool].bpnext]
        /\ buftab' = [buftab EXCEPT ![pool].bpnext = buf]
        /\ sem' = Up(sem, buftab[pool].bpsem)
        /\ Resched(First(sem, buftab[pool].bpsem))
        /\ inuse' = inuse \ {buf}
        /\ UNCHANGED <<cont, nbpools, members, memVars>>

PoolPreempt == InUser /\ Preempted /\ UNCHANGED <<poolVars, memVars>>
PoolKill(p) == KillTask(p) /\ UNCHANGED <<poolVars, memVars>>

(* bufinit *)
PoolInit ==
    /\ nbpools = 0
    /\ buftab = [i \in 0..(NBPOOLS - 1) |-> [bpnext |-> 0, bpsize |-> 0, bpsem |-> None]]
    /\ word = [a \in Addresses |-> 0]
    /\ inuse = {}
    /\ members = [i \in 0..(NBPOOLS - 1) |-> {}]

PoolNext ==
    \/ \E bufsiz \in BufSizes, numbufs \in BufCounts : MkBufPool(bufsiz, numbufs)
    \/ \E pool \in Pools : GetBuf(pool)
    \/ GetBufDone
    \/ \E buf \in Addresses : MayFree(buf) /\ FreeBuf(buf)
    \/ PoolPreempt
    \/ \E p \in BufVictims : PoolKill(p)

PoolSpec ==
    /\ TaskInit /\ sem = [s \in Sem |-> FreeSem] /\ MemInit /\ PoolInit
    /\ [][PoolNext]_<<taskVars, memVars, poolVars>>

-----------------------------------------------------------------------------
(* Where the first n links of a list that starts at first lead. *)
Links(first, words, n) ==
    LET next[k \in 0..n] ==
            IF k = 0 THEN first
            ELSE IF next[k - 1] \in Addresses THEN words[next[k - 1]] ELSE next[k - 1]
    IN  next

Thread(first, words, n) ==
    LET next == Links(first, words, n)
        size == Cardinality({k \in 0..n : next[k] # 0})
    IN  [i \in 1..size |-> next[i - 1]]

(* The free list of a pool, as long as it can be without a cycle. *)
Chain(pool) == Thread(buftab[pool].bpnext, word, Cardinality(members[pool]))

(* A buffer is in use or on the free list of its own pool, there once, and
   the word before a buffer in use names its pool. *)
OneOwner ==
    \A pool \in Pools :
        /\ IsInjective(Chain(pool))
        /\ ToSet(Chain(pool)) = members[pool] \ inuse
        /\ \A buf \in members[pool] \cap inuse : word[buf] = pool

Getters(pool) ==
    {p \in Pid : cont[p].at = "getbuf" /\ cont[p].pool = pool /\ prstate[p] \in {"READY", "CURR"}}

(* getbuf takes the head of the list unchecked: a pool has a free buffer for
   every unit of its semaphore and for every process that was granted one, and
   no other, unless a process was killed, perhaps with a unit in its hands. *)
UnitsHaveBuffers ==
    \A pool \in Pools :
        LET count == sem[buftab[pool].bpsem].count
            units == (IF count > 0 THEN count ELSE 0) + Cardinality(Getters(pool))
        IN  /\ units <= Len(Chain(pool))
            /\ (\A p \in Pid : prstate[p] # "FREE") => units = Len(Chain(pool))

(* The buffers of a pool, with the words before them, fit into the block that
   mkbufpool got, a block of its own. *)
PoolsInHeap ==
    /\ \A pool \in Pools : \E b \in held :
        /\ members[pool] # {}
        /\ \A buf \in members[pool] :
            b.at <= buf /\ buf + UINT + buftab[pool].bpsize <= b.at + b.len
    /\ \A i, j \in Pools : i # j => members[i] \cap members[j] = {}
=============================================================================
