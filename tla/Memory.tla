------------------------------- MODULE Memory --------------------------------
(***************************************************************************)
(* Heap and stacks: one list of free blocks, sorted by address, from which *)
(* getmem takes the first block that fits and getstk the top of the last   *)
(* one.  The list is the sequence of its blocks, each an address and a     *)
(* length; the list head's own length is the total.  Addresses and sizes   *)
(* are unsigned numbers of one word and wrap around as such.               *)
(***************************************************************************)
EXTENDS Integers, FiniteSetsExt, SequencesExt

CONSTANTS
    WORD,           \* 2 to the number of bits in a word
    MB,             \* size of struct memblk, the unit of allocation
    UINT,           \* size of a word in bytes
    minheap,        \* start address of heap
    maxheap,        \* end address of heap
    MINSTK,         \* smallest stack
    NoMem,          \* SYSERR, and no block
    Requests,       \* sizes that getmem is called with
    StackSizes,     \* sizes that create is called with, so that rounding does not wrap
    MaxHeld,        \* bound: blocks that callers of getmem hold
    Slot            \* process table entries, for their stacks

ASSUME MemoryAssumption ==
    /\ {WORD, MB, UINT} \subseteq Nat \ {0} /\ WORD % MB = 0 /\ MB % UINT = 0
    /\ minheap \in Nat \ {0} /\ maxheap \in (minheap + 1)..(WORD - 1)
    /\ minheap % MB = 0 /\ maxheap % MB = 0
    /\ Requests \subseteq 0..(WORD - 1)
    /\ StackSizes \subseteq 0..(WORD - MB) /\ MINSTK \in 1..(WORD - MB)
    /\ MaxHeld \in Nat /\ IsFiniteSet(Slot) /\ NoMem \notin Nat \cup [base : Nat, len : Nat]

VARIABLES
    heap,           \* memlist: its blocks, and the length in its head
    held,           \* blocks that callers of getmem hold, and what they asked for
    stacks,         \* proctab[].prstkbase and prstklen
    lost,           \* stacks of failed creates, which no table remembers
    asked           \* the last request: its size in cells, and whether it was met

memVars == <<heap, held, stacks, lost, asked>>

Block(at, len) == [at |-> at, len |-> len]
End(b) == (b.at + b.len) % WORD

(* roundmb, which wraps to zero just below the end of a word's range *)
roundmb(n) == LET m == (n + MB - 1) % WORD IN m - (m % MB)

(* roundew *)
roundew(n) == LET m == (n + UINT - 1) % WORD IN m - (m % UINT)

-----------------------------------------------------------------------------
(* The blocks that are large enough. *)
Fitting(h, n) == {i \in DOMAIN h.blocks : h.blocks[i].len >= n}

Nothing(h) == [heap |-> h, at |-> NoMem]

(* A wrong getmem: a block that is larger is handed out whole. *)
GetMemWhole(h, nbytes) ==
    LET n    == roundmb(nbytes)
        fits == Fitting(h, n)
    IN  IF nbytes = 0 \/ fits = {} THEN Nothing(h)
        ELSE LET i == Min(fits)
                 b == h.blocks[i]
             IN  [at |-> b.at,
                  heap |-> [mlength |-> h.mlength - n, blocks |-> RemoveAt(h.blocks, i)]]

(* Another: splits a block that fits exactly, too. *)
GetMemSplitsAll(h, nbytes) ==
    LET n    == roundmb(nbytes)
        fits == Fitting(h, n)
    IN  IF nbytes = 0 \/ fits = {} THEN Nothing(h)
        ELSE LET i == Min(fits)
                 b == h.blocks[i]
             IN  [at |-> b.at,
                  heap |-> [mlength |-> h.mlength - n,
                            blocks  |-> [h.blocks EXCEPT ![i] = Block(b.at + n, b.len - n)]]]

(* getmem: the front of the first block that fits *)
GetMem(h, nbytes) ==
    LET n    == roundmb(nbytes)
        fits == Fitting(h, n)
    IN  IF nbytes = 0 \/ fits = {} THEN Nothing(h)
        ELSE LET i == Min(fits)
                 b == h.blocks[i]
             IN  [at |-> b.at,
                  heap |-> [mlength |-> h.mlength - n,
                            blocks  |-> IF b.len = n THEN RemoveAt(h.blocks, i)
                                        ELSE [h.blocks EXCEPT ![i] = Block(b.at + n, b.len - n)]]]

(* getstk: the top of the last block that fits, by its highest word *)
GetStk(h, nbytes) ==
    LET n    == roundmb(nbytes)
        fits == Fitting(h, n)
    IN  IF nbytes = 0 \/ fits = {} THEN Nothing(h)
        ELSE LET i == Max(fits)
                 b == h.blocks[i]
             IN  [at |-> b.at + b.len - UINT,
                  heap |-> [mlength |-> h.mlength - n,
                            blocks  |-> IF b.len = n THEN RemoveAt(h.blocks, i)
                                        ELSE [h.blocks EXCEPT ![i] = Block(b.at, b.len - n)]]]

(* freemem's walk: how many blocks come before address at. *)
Before(h, at) ==
    LET stop == SelectInSeq(h.blocks, LAMBDA b : b.at >= at)
    IN  IF stop = 0 THEN Len(h.blocks) ELSE stop - 1

(* A wrong overlap test: does not look at the previous block. *)
OverlapsNext(h, b) ==
    LET k == Before(h, b.at)
    IN  k < Len(h.blocks) /\ End(b) > h.blocks[k + 1].at

(* "Ensure new block does not overlap previous or next blocks." *)
Overlaps(h, b) ==
    LET k == Before(h, b.at)
    IN  \/ k > 0 /\ b.at < End(h.blocks[k])
        \/ k < Len(h.blocks) /\ End(b) > h.blocks[k + 1].at

(* A wrong link: a block that touches both neighbours is joined to one only. *)
LinkOnce(h, b) ==
    LET k      == Before(h, b.at)
        joins  == k > 0 /\ End(h.blocks[k]) = b.at
        joined == IF joins THEN Block(h.blocks[k].at, h.blocks[k].len + b.len) ELSE b
    IN  SubSeq(h.blocks, 1, IF joins THEN k - 1 ELSE k) \o <<joined>>
            \o SubSeq(h.blocks, k + 1, Len(h.blocks))

(* Link the block into the list, one with the previous and the next block if it
   touches them.  A block that is the next block itself has its header
   overwritten, and the list ends in a circle: what can be reached ends with it. *)
Link(h, b) ==
    LET k      == Before(h, b.at)
        joins  == k > 0 /\ End(h.blocks[k]) = b.at
        itself == ~joins /\ k < Len(h.blocks) /\ h.blocks[k + 1].at = b.at
        joined == IF joins THEN Block(h.blocks[k].at, h.blocks[k].len + b.len) ELSE b
        meets  == k < Len(h.blocks) /\ End(joined) = h.blocks[k + 1].at
        whole  == IF meets THEN Block(joined.at, joined.len + h.blocks[k + 1].len) ELSE joined
    IN  IF itself THEN SubSeq(h.blocks, 1, k) \o <<b>>
        ELSE SubSeq(h.blocks, 1, IF joins THEN k - 1 ELSE k) \o <<whole>>
                \o SubSeq(h.blocks, IF meets THEN k + 2 ELSE k + 1, Len(h.blocks))

(* freemem: whether it returns OK, and the list it leaves *)
FreeMem(h, at, nbytes) ==
    LET b == Block(at, roundmb(nbytes))
    IN  IF nbytes = 0 \/ at < minheap \/ at > maxheap \/ Overlaps(h, b)
        THEN [ok |-> FALSE, heap |-> h]
        ELSE [ok |-> TRUE, heap |-> [mlength |-> h.mlength + b.len, blocks |-> Link(h, b)]]

(* freestk, a macro outside src/: from the highest word back to the lowest *)
StkLow(base, len) == base - roundmb(len) + UINT
FreeStk(h, base, len) == FreeMem(h, StkLow(base, len), roundmb(len))

-----------------------------------------------------------------------------
Cells(n) == n \div MB
Grant(at, nbytes) == [at |-> at, len |-> roundmb(nbytes), asked |-> nbytes]

(* getmem, for a caller that keeps the block *)
Allocate(nbytes) ==
    LET got == GetMem(heap, nbytes)
    IN  /\ nbytes # 0 /\ Cardinality(held) < MaxHeld
        /\ heap' = got.heap
        /\ held' = IF got.at = NoMem THEN held
                   ELSE held \cup {Grant(got.at, nbytes)}
        /\ asked' = [cells |-> Cells(roundmb(nbytes)), met |-> got.at # NoMem]
        /\ UNCHANGED <<stacks, lost>>

(* freemem, of a block that the caller was given, with the size it asked for *)
Release(b) ==
    /\ heap' = FreeMem(heap, b.at, b.asked).heap
    /\ held' = held \ {b}
    /\ UNCHANGED <<stacks, lost, asked>>

(* create: the stack comes first; newpid and the priority are looked at after it. *)
CreateStk(p, ssize, priority) ==
    LET len == roundew(IF ssize < MINSTK THEN MINSTK ELSE ssize)
        got == GetStk(heap, len)
    IN  /\ heap' = got.heap
        /\ asked' = [cells |-> Cells(roundmb(len)), met |-> got.at # NoMem]
        /\ \/ got.at = NoMem /\ UNCHANGED <<stacks, lost>>
           \/ /\ got.at # NoMem /\ stacks[p] = NoMem /\ priority >= 1
              /\ stacks' = [stacks EXCEPT ![p] = [base |-> got.at, len |-> len]]
              /\ UNCHANGED lost
           \/ /\ got.at # NoMem
              /\ (\A q \in Slot : stacks[q] # NoMem) \/ (stacks[p] = NoMem /\ priority < 1)
              /\ lost' = lost \cup {Block(StkLow(got.at, len), roundmb(len))}
              /\ UNCHANGED stacks
        /\ UNCHANGED held

(* kill: freestk *)
KillStk(p) ==
    /\ stacks[p] # NoMem
    /\ heap' = FreeStk(heap, stacks[p].base, stacks[p].len).heap
    /\ stacks' = [stacks EXCEPT ![p] = NoMem]
    /\ UNCHANGED <<held, lost, asked>>

(* meminit *)
MemInit ==
    /\ heap = [mlength |-> maxheap - minheap, blocks |-> <<Block(minheap, maxheap - minheap)>>]
    /\ held = {} /\ lost = {}
    /\ stacks = [p \in Slot |-> NoMem]
    /\ asked = [cells |-> 0, met |-> TRUE]

(* A node of no bytes has no memory of its own: it is in a circle, or where
   somebody else writes.  What calls do to such a list is not followed further. *)
Intact == \A b \in ToSet(heap.blocks) : b.len > 0

MemNext ==
    /\ Intact
    /\ \/ \E nbytes \in Requests : Allocate(nbytes)
       \/ \E b \in held : Release(b)
       \/ \E p \in Slot :
           \/ KillStk(p)
           \/ \E ssize \in StackSizes, priority \in {0, 1} : CreateStk(p, ssize, priority)

MemSpec == MemInit /\ [][MemNext]_memVars

-----------------------------------------------------------------------------
StackOf(p) == Block(StkLow(stacks[p].base, stacks[p].len), roundmb(stacks[p].len))

(* What getmem and getstk have given out and not got back. *)
InUse ==
    {Block(b.at, b.len) : b \in held} \cup lost \cup {StackOf(p) : p \in {q \in Slot : stacks[q] # NoMem}}

(* All blocks there are; a request that wrapped was given nothing. *)
Blocks == {b \in ToSet(heap.blocks) \cup InUse : b.len > 0}

Bytes(blocks) == MapThenSumSet(LAMBDA b : b.len, blocks)
Apart(a, b) == a.at + a.len <= b.at \/ b.at + b.len <= a.at

(* As long as the list is intact, free, held and lost blocks and stacks
   partition the heap: no two overlap, and nothing is missing.  The total in
   the list's head is what the list holds. *)
HeapPartitioned ==
    Intact =>
        /\ \A a, b \in Blocks : a # b => Apart(a, b)
        /\ Bytes(Blocks) = maxheap - minheap
        /\ \A b \in Blocks : b.at >= minheap /\ b.at + b.len <= maxheap
        /\ heap.mlength = Bytes(ToSet(heap.blocks))

(* One thing only can break the list: that a request of so many bytes that
   rounding wraps is met, with a block that stays free, and the block is freed
   with that size, though freemem's arguments are what getmem's were. *)
OnlyWrapBreaks ==
    [][Intact' \/ \E b \in held : b \notin held' /\ b.asked > WORD - MB]_memVars

(* freemem refuses a block of which any part is free already, wherever in the
   heap it lies: freeing twice does no harm unless the block has been handed
   out again. *)
DoubleFreeRefused ==
    Intact =>
        \A at \in {a \in minheap..(maxheap - 1) : a % MB = 0} :
            \A n \in 1..((maxheap - at) \div MB) :
                (\E b \in ToSet(heap.blocks) : ~Apart(Block(at, n * MB), b))
                    => ~FreeMem(heap, at, n * MB).ok

CellsOf(b) == {b.at + i * MB : i \in 0..(Cells(b.len) - 1)}

(* The free list implements a set of free cells, from which a request is met
   whenever there are enough cells in a row, until a broken list ends it. *)
Heap == INSTANCE HeapSpec
    WITH sound <- Intact,
         free <- UNION {CellsOf(b) : b \in ToSet(heap.blocks)},
         AllCells <- CellsOf(Block(minheap, maxheap - minheap)),
         Size <- MB
ImplementsHeap == Heap!Spec
=============================================================================
