--------------------------- MODULE ServiceProofs ----------------------------
(***************************************************************************)
(* The services around the kernel, for any number of processes.  All of    *)
(* them call wait and signal, or run with interrupts enabled, so that any  *)
(* two of their steps may have another process's between them.             *)
(*                                                                         *)
(* Buffer pools: a buffer has one owner at every moment, the pool's list   *)
(* or one process; the pool's semaphore counts the buffers on the list     *)
(* that nobody has been promised; and the pools' memory is taken from the  *)
(* heap, each pool's its own.  The list is threaded through the buffers    *)
(* themselves, so the invariant names the sequence of addresses that the   *)
(* links lead along, and says of every process in the middle of getbuf or  *)
(* freebuf which unit, or which buffer, it has in hand.                    *)
(*                                                                         *)
(* Memory marking is safe for processes that mark any locations, whatever  *)
(* they hold: the mutex excludes, indexes are given out once, and the      *)
(* table overflows by less than one entry per process.                     *)
(*                                                                         *)
(* The time of day is never ahead of the server's, and the UDP slot is     *)
(* released, for any number of callers, any time of boot and time zone.    *)
(*                                                                         *)
(* A date is that of the calendar at every second from 1970 to 2099, with  *)
(* any length of a minute and an hour: the loops over years and months are *)
(* given their closed forms, and the date is the only one whose closed     *)
(* form is the number of days that have passed.                            *)
(*                                                                         *)
(* The table of queues implements sequences, whatever the numbers of       *)
(* processes and semaphores: a queue is threaded over a list if the links  *)
(* lead along it both ways, from the head to the tail; each operation is   *)
(* a change at one place of one such list, where its walk stops; and no    *)
(* two queues have a node in common, so that all other lists stay.         *)
(***************************************************************************)
EXTENDS BufPool, Marks, QueueTable, TimeOfDay, Calendar, TasksProofs, MemoryProofs

-----------------------------------------------------------------------------
(* Buffer pools *)

(* A free list: the addresses in free, each once, each leading to the next. *)
Listed(l, free, first, words) ==
    /\ l \in Seq(Addresses) /\ IsInjective(l) /\ ToSet(l) = free
    /\ first = IF Len(l) = 0 THEN 0 ELSE l[1]
    /\ \A i \in 1..Len(l) : words[l[i]] = IF i = Len(l) THEN 0 ELSE l[i + 1]

LEMMA NullNoAddress == 0 \notin Addresses /\ Addresses \subseteq Nat /\ IsFiniteSet(Addresses)
<1>1. minheap \in Nat \ {0} /\ maxheap \in Nat
    BY MemoryAssumption
<1>2. IsFiniteSet(minheap..(maxheap - 1)) /\ Addresses \subseteq minheap..(maxheap - 1)
    BY <1>1, FS_Interval DEF Addresses
<1>3. IsFiniteSet(Addresses)
    BY <1>2, FS_Subset
<1> QED
    BY <1>1, <1>2, <1>3

LEMMA ListedFacts ==
    ASSUME NEW l, NEW free, NEW first, NEW words, Listed(l, free, first, words)
    PROVE  /\ Len(l) \in Nat /\ DOMAIN l = 1..Len(l)
           /\ \A i \in 1..Len(l) : l[i] \in free /\ l[i] \in Addresses
           /\ \A i, j \in 1..Len(l) : l[i] = l[j] => i = j
           /\ free \subseteq Addresses
           /\ \A x \in free : \E i \in 1..Len(l) : x = l[i]
BY DEF Listed, ToSet, IsInjective

LEMMA ListedSize ==
    ASSUME NEW l, NEW free, NEW first, NEW words, Listed(l, free, first, words)
    PROVE  IsFiniteSet(free) /\ Cardinality(free) = Len(l)
<1>1. /\ Len(l) \in Nat /\ DOMAIN l = 1..Len(l)
      /\ \A i \in 1..Len(l) : l[i] \in free
      /\ \A i, j \in 1..Len(l) : l[i] = l[j] => i = j
      /\ \A x \in free : \E i \in 1..Len(l) : x = l[i]
    BY ListedFacts
<1>2. IsFiniteSet(1..Len(l)) /\ Cardinality(1..Len(l)) = Len(l)
    <2>1. 1 \in Int /\ Len(l) \in Int /\ (1 > Len(l) => Len(l) = 0) /\ Len(l) - 1 + 1 = Len(l)
        BY <1>1
    <2> QED
        BY <2>1, FS_Interval
<1>3. l \in [1..Len(l) -> free]
    BY <1>1 DEF Listed
<1>4. l \in Surjection(1..Len(l), free) /\ l \in Injection(1..Len(l), free)
    BY <1>1, <1>3 DEF Surjection, Injection, IsInjective
<1> QED
    BY <1>2, <1>4, FS_Surjection

(* The links of a list lead along it, and stop at its end. *)
Leads(next, first, words, n) ==
    next = [k \in 0..n |->
                IF k = 0 THEN first
                ELSE IF next[k - 1] \in Addresses THEN words[next[k - 1]] ELSE next[k - 1]]

LEMMA LinksAre ==
    ASSUME NEW first, NEW words, NEW n \in Nat
    PROVE  Leads(Links(first, words, n), first, words, n)
<1> DEFINE Eq(f, m) == f = [k \in 0..m |->
                IF k = 0 THEN first
                ELSE IF f[k - 1] \in Addresses THEN words[f[k - 1]] ELSE f[k - 1]]
           Good == {m \in Nat : \E f : Eq(f, m)}
<1>1. 0 \in Good
    <2> DEFINE f == [k \in 0..0 |-> first]
    <2>1. Eq(f, 0)
        OBVIOUS
    <2> QED
        BY <2>1
<1>2. ASSUME NEW m \in Nat, m \in Good PROVE m + 1 \in Good
    <2>1. PICK f : Eq(f, m)
        BY <1>2
    <2> DEFINE last == IF f[m] \in Addresses THEN words[f[m]] ELSE f[m]
               g == [k \in 0..(m + 1) |-> IF k <= m THEN f[k] ELSE last]
    <2>2. ASSUME NEW k \in 0..(m + 1)
          PROVE  g[k] = IF k = 0 THEN first
                        ELSE IF g[k - 1] \in Addresses THEN words[g[k - 1]] ELSE g[k - 1]
        <3>1. CASE k = 0
            BY <2>1, <3>1
        <3>2. CASE k \in 1..m
            <4>1. k \in 0..m /\ k # 0 /\ k - 1 \in 0..(m + 1) /\ k - 1 <= m /\ k <= m
                BY <3>2
            <4>2. f[k] = IF f[k - 1] \in Addresses THEN words[f[k - 1]] ELSE f[k - 1]
                BY <2>1, <4>1
            <4>3. g[k] = f[k] /\ g[k - 1] = f[k - 1]
                BY <4>1
            <4> QED
                BY <4>1, <4>2, <4>3
        <3>3. CASE k = m + 1
            <4>1. k # 0 /\ k - 1 = m /\ k - 1 \in 0..(m + 1) /\ k - 1 <= m /\ ~(k <= m)
                BY <3>3
            <4>2. g[k] = last /\ g[k - 1] = f[m]
                BY <4>1
            <4> QED
                BY <4>1, <4>2
        <3> QED
            BY <3>1, <3>2, <3>3
    <2>3. Eq(g, m + 1)
        <3>1. g = [k \in 0..(m + 1) |-> g[k]]
            OBVIOUS
        <3> HIDE DEF g
        <3> QED
            BY <2>2, <3>1
    <2> HIDE DEF g, Eq
    <2>4. \E h : Eq(h, m + 1)
        BY <2>3
    <2> QED
        BY <2>4
<1>3. n \in Good
    <2> HIDE DEF Good
    <2> QED
        BY <1>1, <1>2, NaturalInduction
<1>4. PICK f : Eq(f, n)
    BY <1>3
<1>5. Links(first, words, n) = CHOOSE g : Eq(g, n)
    BY DEF Links
<1>6. Eq(Links(first, words, n), n)
    BY <1>4, <1>5
<1> QED
    BY <1>6 DEF Leads

LEMMA ThreadIs ==
    ASSUME NEW l, NEW free, NEW first, NEW words, Listed(l, free, first, words),
           NEW n \in Nat, Len(l) <= n
    PROVE  Thread(first, words, n) = l
<1> DEFINE next == Links(first, words, n)
           Good == {k \in Nat : k <= n => next[k] = IF k < Len(l) THEN l[k + 1] ELSE 0}
<1>1. next = [k \in 0..n |->
                IF k = 0 THEN first
                ELSE IF next[k - 1] \in Addresses THEN words[next[k - 1]] ELSE next[k - 1]]
    <2>1. Leads(next, first, words, n)
        BY LinksAre
    <2> HIDE DEF next
    <2> QED
        BY <2>1 DEF Leads
<1>2. Len(l) \in Nat /\ \A i \in 1..Len(l) : l[i] \in Addresses
    BY ListedFacts
<1>3. /\ first = IF Len(l) = 0 THEN 0 ELSE l[1]
      /\ \A i \in 1..Len(l) : words[l[i]] = IF i = Len(l) THEN 0 ELSE l[i + 1]
    BY DEF Listed
<1> HIDE DEF next
<1>4. 0 \in Good
    BY <1>1, <1>2, <1>3
<1>5. ASSUME NEW k \in Nat, k \in Good PROVE k + 1 \in Good
    <2> SUFFICES ASSUME k + 1 <= n PROVE next[k + 1] = IF k + 1 < Len(l) THEN l[(k + 1) + 1] ELSE 0
        OBVIOUS
    <2>1. next[k + 1] = IF next[k] \in Addresses THEN words[next[k]] ELSE next[k]
        <3>1. k + 1 \in 0..n /\ k + 1 # 0 /\ (k + 1) - 1 = k
            OBVIOUS
        <3> QED
            BY <1>1, <3>1
    <2>2. next[k] = IF k < Len(l) THEN l[k + 1] ELSE 0
        BY <1>5
    <2>3. CASE k < Len(l)
        <3>1. k + 1 \in 1..Len(l) /\ (k + 1 < Len(l) <=> k + 1 # Len(l))
            BY <1>2, <2>3
        <3>2. next[k + 1] = words[l[k + 1]]
            BY <1>2, <2>1, <2>2, <2>3, <3>1
        <3> QED
            BY <1>3, <3>1, <3>2
    <2>4. CASE ~(k < Len(l))
        <3>1. ~(k + 1 < Len(l)) /\ next[k] = 0
            BY <1>2, <2>2, <2>4
        <3> QED
            BY <2>1, <3>1, NullNoAddress
    <2> QED
        BY <2>3, <2>4
<1>6. \A k \in Nat : k \in Good
    <2> HIDE DEF Good
    <2> QED
        BY <1>4, <1>5, NaturalInduction
<1>7. \A k \in 0..n : next[k] = IF k < Len(l) THEN l[k + 1] ELSE 0
    BY <1>6
<1>8. {k \in 0..n : next[k] # 0} = 0..(Len(l) - 1)
    <2>1. ASSUME NEW k \in 0..n PROVE next[k] # 0 <=> k < Len(l)
        <3>1. k < Len(l) => k + 1 \in 1..Len(l)
            BY <1>2
        <3> QED
            BY <1>2, <1>7, <3>1, NullNoAddress
    <2> QED
        BY <1>2, <2>1
<1>9. Cardinality(0..(Len(l) - 1)) = Len(l)
    <2>1. 0 \in Int /\ Len(l) - 1 \in Int /\ (0 > Len(l) - 1 => Len(l) = 0) /\ (Len(l) - 1) - 0 + 1 = Len(l)
        BY <1>2
    <2> QED
        BY <2>1, FS_Interval
<1>10. Thread(first, words, n) = [i \in 1..Len(l) |-> next[i - 1]]
    BY <1>8, <1>9 DEF Thread, next
<1>11. \A i \in 1..Len(l) : next[i - 1] = l[i]
    <2> TAKE i \in 1..Len(l)
    <2>1. i - 1 \in 0..n /\ i - 1 < Len(l) /\ (i - 1) + 1 = i
        BY <1>2
    <2> QED
        BY <1>7, <2>1
<1>12. l = [i \in 1..Len(l) |-> l[i]]
    <2>1. l \in Seq(Addresses)
        BY DEF Listed
    <2> QED
        BY <2>1
<1> QED
    BY <1>10, <1>11, <1>12

(* getbuf takes the first of the list, freebuf puts one before it. *)
LEMMA ListedTail ==
    ASSUME NEW l, NEW free, NEW first, NEW words \in [Addresses -> Nat], Listed(l, free, first, words),
           free # {}, NEW v, NEW next, next = [words EXCEPT ![first] = v]
    PROVE  first \in free /\ Listed(Tail(l), free \ {first}, words[first], next)
<1>1. /\ Len(l) \in Nat /\ \A i \in 1..Len(l) : l[i] \in free /\ l[i] \in Addresses
      /\ \A i, j \in 1..Len(l) : l[i] = l[j] => i = j
      /\ \A x \in free : \E i \in 1..Len(l) : x = l[i]
    BY ListedFacts
<1>2. /\ l \in Seq(Addresses) /\ IsInjective(l) /\ ToSet(l) = free
      /\ first = IF Len(l) = 0 THEN 0 ELSE l[1]
      /\ \A i \in 1..Len(l) : words[l[i]] = IF i = Len(l) THEN 0 ELSE l[i + 1]
    BY DEF Listed
<1>3. Len(l) # 0 /\ l # <<>> /\ first = l[1] /\ Head(l) = first /\ 1 \in 1..Len(l)
    BY <1>1, <1>2
<1> DEFINE t == Tail(l)
<1>4. /\ t \in Seq(Addresses) /\ Len(t) = Len(l) - 1 /\ IsInjective(t)
      /\ ToSet(t) = free \ {first}
    BY <1>2, <1>3, TailQueue
<1>5. \A i \in 1..(Len(l) - 1) : t[i] = l[i + 1]
    BY <1>1, <1>2, <1>3
<1> HIDE DEF t
<1>6. words[first] = IF Len(t) = 0 THEN 0 ELSE t[1]
    <2>1. words[l[1]] = IF 1 = Len(l) THEN 0 ELSE l[1 + 1]
        BY <1>2, <1>3, Zenon
    <2>2. Len(l) \in Nat /\ Len(l) # 0
        BY <1>1, <1>3
    <2>3. PICK n \in Nat : n = Len(l) /\ n # 0
        BY <2>2
    <2>4. \/ n = 1 /\ n - 1 = 0
          \/ n # 1 /\ 1 \in 1..(n - 1) /\ n - 1 # 0
        BY <2>3
    <2> QED
        BY <1>3, <1>4, <1>5, <2>1, <2>3, <2>4
<1>7. ASSUME NEW i \in 1..Len(t) PROVE next[t[i]] = IF i = Len(t) THEN 0 ELSE t[i + 1]
    <2>1. i + 1 \in 1..Len(l) /\ t[i] = l[i + 1] /\ l[i + 1] # first /\ l[i + 1] \in Addresses
        BY <1>1, <1>3, <1>4, <1>5
    <2>2. next[t[i]] = words[l[i + 1]]
        BY <2>1
    <2>3. words[l[i + 1]] = IF i + 1 = Len(l) THEN 0 ELSE l[(i + 1) + 1]
        BY <1>2, <2>1
    <2>4. i # Len(t) => t[i + 1] = l[(i + 1) + 1] /\ i + 1 # Len(l)
        <3>1. i # Len(t) => i + 1 \in 1..(Len(l) - 1) /\ i + 1 # Len(l)
            BY <1>1, <1>4
        <3> QED
            BY <1>5, <3>1
    <2>5. i = Len(t) => i + 1 = Len(l)
        BY <1>1, <1>4
    <2> QED
        BY <2>2, <2>3, <2>4, <2>5
<1>8. first \in free
    BY <1>1, <1>3
<1>9. Listed(t, free \ {first}, words[first], next)
    BY <1>4, <1>6, <1>7 DEF Listed
<1> QED
    BY <1>8, <1>9 DEF t

LEMMA ListedPush ==
    ASSUME NEW l, NEW free, NEW first, NEW words \in [Addresses -> Nat], Listed(l, free, first, words),
           NEW x \in Addresses, x \notin free, NEW next, next = [words EXCEPT ![x] = first]
    PROVE  Listed(<<x>> \o l, free \cup {x}, x, next)
<1> DEFINE t == <<x>> \o l
           a == <<x>>
<1>1. /\ Len(l) \in Nat /\ DOMAIN l = 1..Len(l) /\ \A i \in 1..Len(l) : l[i] \in free /\ l[i] \in Addresses
      /\ \A i, j \in 1..Len(l) : l[i] = l[j] => i = j
      /\ \A y \in free : \E i \in 1..Len(l) : y = l[i]
    BY ListedFacts
<1>2. /\ l \in Seq(Addresses)
      /\ first = IF Len(l) = 0 THEN 0 ELSE l[1]
      /\ \A i \in 1..Len(l) : words[l[i]] = IF i = Len(l) THEN 0 ELSE l[i + 1]
    BY DEF Listed
<1>3. a \in Seq(Addresses) /\ Len(a) = 1 /\ a[1] = x
    OBVIOUS
<1>4. t = a \o l
    OBVIOUS
<1> HIDE DEF a, t
<1>12. a \in Seq(Addresses) /\ l \in Seq(Addresses) /\ t = a \o l
    BY <1>2, <1>3, <1>4
<1>5. /\ t \in Seq(Addresses) /\ Len(t) = Len(a) + Len(l)
      /\ \A i \in 1..Len(a) : t[i] = a[i]
      /\ \A i \in 1..Len(l) : t[Len(a) + i] = l[i]
    BY ONLY <1>12, Joined
<1>13. Len(t) = 1 + Len(l)
    BY <1>3, <1>5
<1>6. t[1] = x /\ (\A i \in 1..Len(l) : t[1 + i] = l[i]) /\ DOMAIN t = 1..(1 + Len(l))
    BY <1>3, <1>5, <1>13
<1>7. ASSUME NEW i \in 1..(1 + Len(l))
      PROVE  i = 1 \/ \E j \in 1..Len(l) : i = 1 + j /\ t[i] = l[j]
    <2>1. i # 1 => i - 1 \in 1..Len(l) /\ 1 + (i - 1) = i
        BY <1>1
    <2> QED
        BY <1>6, <2>1
<1>8. IsInjective(t)
    <2> SUFFICES ASSUME NEW i \in 1..(1 + Len(l)), NEW j \in 1..(1 + Len(l)), t[i] = t[j] PROVE i = j
        BY <1>6 DEF IsInjective
    <2> QED
        BY <1>1, <1>6, <1>7
<1>9. ToSet(t) = free \cup {x}
    <2>1. ASSUME NEW y \in ToSet(t) PROVE y \in free \cup {x}
        <3>1. PICK i \in 1..(1 + Len(l)) : y = t[i]
            BY <1>6 DEF ToSet
        <3> QED
            BY <1>1, <1>6, <1>7, <3>1
    <2>2. ASSUME NEW y \in free PROVE y \in ToSet(t)
        <3>1. PICK i \in 1..Len(l) : y = l[i]
            BY <1>1
        <3>2. 1 + i \in DOMAIN t /\ t[1 + i] = y
            BY <1>1, <1>6, <3>1
        <3> QED
            BY <3>2 DEF ToSet
    <2>3. x \in ToSet(t)
        <3>1. 1 \in DOMAIN t
            BY <1>1, <1>6
        <3> QED
            BY <1>6, <3>1 DEF ToSet
    <2> QED
        BY <2>1, <2>2, <2>3
<1>10. ASSUME NEW i \in 1..Len(t) PROVE next[t[i]] = IF i = Len(t) THEN 0 ELSE t[i + 1]
    <2>1. CASE i = 1
        <3>1. next[t[i]] = first
            BY <1>6, <2>1
        <3>2. Len(l) # 0 => t[2] = l[1]
            <4>1. Len(l) # 0 => 1 \in 1..Len(l) /\ 1 + 1 = 2
                BY <1>1
            <4> QED
                BY <1>6, <4>1
        <3>3. PICK n \in Nat : n = Len(l)
            BY <1>1
        <3>4. (n = 0 /\ 1 + n = 1) \/ (n # 0 /\ 1 + n # 1)
            OBVIOUS
        <3> QED
            BY <1>2, <1>13, <2>1, <3>1, <3>2, <3>3, <3>4
    <2>2. ASSUME NEW j \in 1..Len(l), i = 1 + j, t[i] = l[j]
          PROVE  next[t[i]] = IF i = Len(t) THEN 0 ELSE t[i + 1]
        <3>1. next[t[i]] = words[l[j]]
            <4>1. l[j] # x
                BY <1>1
            <4> QED
                BY <2>2, <4>1
        <3>2. i # Len(t) => t[i + 1] = l[j + 1]
            <4>1. i # Len(t) => j + 1 \in 1..Len(l) /\ 1 + (j + 1) = i + 1
                BY <1>1, <1>13, <2>2
            <4> QED
                BY <1>6, <4>1
        <3>5. PICK n \in Nat : n = Len(l)
            BY <1>1
        <3>6. i = 1 + n <=> j = n
            BY <2>2
        <3>3. i = Len(t) <=> j = Len(l)
            BY <1>13, <3>5, <3>6
        <3>4. words[l[j]] = IF j = Len(l) THEN 0 ELSE l[j + 1]
            BY <1>2
        <3> QED
            BY <3>1, <3>2, <3>3, <3>4
    <2> QED
        BY <1>13, <1>7, <2>1, <2>2
<1>11. x = IF Len(t) = 0 THEN 0 ELSE t[1]
    BY <1>1, <1>13, <1>6
<1> QED
    BY <1>5, <1>8, <1>9, <1>10, <1>11 DEF Listed, t

LEMMA ListedSame ==
    ASSUME NEW l, NEW free, NEW first, NEW words, Listed(l, free, first, words),
           NEW next, \A x \in free : next[x] = words[x]
    PROVE  Listed(l, free, first, next)
<1>1. \A i \in 1..Len(l) : l[i] \in free
    BY ListedFacts
<1> QED
    BY <1>1 DEF Listed

(* The word of a free buffer is no pool's number. *)
LEMMA ListedWord ==
    ASSUME NEW l, NEW free, NEW first, NEW words, Listed(l, free, first, words), NEW x \in free
    PROVE  words[x] = 0 \/ (words[x] \in Nat /\ words[x] >= minheap)
<1>1. PICK i \in 1..Len(l) : x = l[i]
    BY ListedFacts
<1>2. Len(l) \in Nat /\ \A j \in 1..Len(l) : l[j] \in Addresses
    BY ListedFacts
<1>3. words[x] = IF i = Len(l) THEN 0 ELSE l[i + 1]
    BY <1>1 DEF Listed
<1>4. i # Len(l) => i + 1 \in 1..Len(l)
    BY <1>2
<1>5. \A a \in Addresses : a \in Nat /\ a >= minheap
    BY MemoryAssumption DEF Addresses
<1> QED
    BY <1>2, <1>3, <1>4, <1>5

-----------------------------------------------------------------------------
(* Sizes: a buffer with the word before it takes whole words, a pool a size *)
(* that getmem can round up.                                                *)
LEMMA Products ==
    ASSUME NEW a \in Nat, NEW b \in Nat, NEW c \in Nat, NEW d \in Nat, a <= b, c <= d
    PROVE  a * c \in Nat /\ a * c <= b * d
<1>1. a * c <= b * c
    OBVIOUS
<1>2. c * b <= d * b
    OBVIOUS
<1> QED
    BY <1>1, <1>2

LEMMA Steps ==
    ASSUME NEW a \in Nat, NEW b \in Nat, NEW st \in Nat, a < b
    PROVE  a * st \in Nat /\ b * st \in Nat /\ a * st + st <= b * st
<1>1. (a + 1) * st <= b * st
    BY Products
<1>2. (a + 1) * st = a * st + st
    OBVIOUS
<1> QED
    BY <1>1, <1>2

LEMMA StrideFacts ==
    ASSUME NEW bufsiz \in BP_MINB..BP_MAXB, NEW numbufs \in 1..BP_MAXN
    PROVE  /\ roundew(bufsiz) \in Nat /\ Stride(bufsiz) \in Nat \ {0}
           /\ Stride(bufsiz) = roundew(bufsiz) + UINT /\ Stride(bufsiz) % UINT = 0
           /\ numbufs * Stride(bufsiz) \in 1..(WORD - MB)
<1> DEFINE m  == (bufsiz + UINT - 1) % WORD
           st == Stride(bufsiz)
<1>1. /\ WORD \in Nat \ {0} /\ MB \in Nat \ {0} /\ UINT \in Nat \ {0}
      /\ BP_MAXB \in Nat \ {0} /\ BP_MINB \in Nat \ {0} /\ BP_MAXN \in Nat \ {0}
      /\ BP_MAXN * (BP_MAXB + 2 * UINT) <= WORD - MB
    BY MemoryAssumption, BufAssumption
<1>2. bufsiz \in Nat /\ bufsiz <= BP_MAXB /\ numbufs \in Nat \ {0} /\ numbufs <= BP_MAXN
    BY <1>1
<1>3. m \in Nat /\ m <= bufsiz + UINT - 1 /\ roundew(bufsiz) = m - (m % UINT)
    <2>1. \A x \in Nat : x % WORD \in Nat /\ x % WORD <= x
        BY <1>1
    <2>2. bufsiz + UINT - 1 \in Nat
        BY <1>1, <1>2
    <2> QED
        BY <2>1, <2>2 DEF roundew
<1> HIDE DEF m
<1>4. PICK q \in Nat, r \in 0..(UINT - 1) : m = UINT * q + r /\ m % UINT = r
    BY ONLY <1>1, <1>3, Quotient
<1>5. roundew(bufsiz) = UINT * q /\ UINT * q \in Nat /\ UINT * q <= m
    BY <1>1, <1>3, <1>4
<1>6. st = UINT * q + UINT /\ st = roundew(bufsiz) + UINT /\ st = UINT * (q + 1) + 0
    BY <1>1, <1>5 DEF Stride
<1>7. st \in Nat \ {0} /\ st <= BP_MAXB + 2 * UINT
    BY <1>1, <1>2, <1>3, <1>5, <1>6
<1>8. st % UINT = 0
    <2>1. q + 1 \in Nat /\ 0 \in 0..(UINT - 1)
        BY <1>1
    <2>2. (UINT * (q + 1) + 0) % UINT = 0
        BY <1>1, <2>1, MulMod
    <2> QED
        BY <1>6, <2>2
<1> HIDE DEF st
<1>9. numbufs * st <= BP_MAXN * (BP_MAXB + 2 * UINT)
    <2>1. BP_MAXB + 2 * UINT \in Nat
        BY <1>1
    <2> QED
        BY <1>1, <1>2, <1>7, <2>1, Products
<1>10. numbufs * st \in Nat /\ numbufs * st >= 1
    <2>1. 1 * 1 <= numbufs * st
        BY <1>2, <1>7, Products
    <2>2. numbufs * st \in Nat
        BY <1>2, <1>7
    <2> QED
        BY <2>1, <2>2
<1>11. numbufs * st \in 1..(WORD - MB)
    <2>1. PICK n \in Nat : n = numbufs * st
        BY <1>10
    <2>2. PICK k \in Nat : k = BP_MAXN * (BP_MAXB + 2 * UINT)
        BY <1>1
    <2> QED
        BY <1>1, <1>9, <1>10, <2>1, <2>2
<1> QED
    BY <1>5, <1>6, <1>7, <1>8, <1>11 DEF st

Row(buf, bufsiz, numbufs) == [i \in 1..numbufs |-> Buffer(buf, bufsiz, i)]

(* The buffers of a new pool lie one after the other. *)
InRow(row, at, st, k) ==
    /\ row \in Seq(Addresses) /\ Len(row) = k /\ IsInjective(row) /\ row[1] = at
    /\ \A i \in 1..k : at <= row[i] /\ row[i] + st <= at + k * st
    /\ \A i \in 1..k : i < k => row[i + 1] = row[i] + st

LEMMA RowFacts ==
    ASSUME NEW at \in Nat, NEW bufsiz, NEW k \in Nat \ {0}, NEW st \in Nat \ {0}, st = Stride(bufsiz),
           st % UINT = 0, at % UINT = 0, minheap <= at, at + k * st <= maxheap
    PROVE  InRow(Row(at, bufsiz, k), at, st, k)
<1> DEFINE row == Row(at, bufsiz, k)
<1>1. minheap \in Nat /\ maxheap \in Nat /\ UINT \in Nat \ {0}
    BY MemoryAssumption
<1>2. DOMAIN row = 1..k /\ \A i \in 1..k : row[i] = at + (i - 1) * st
    BY DEF Row, Buffer
<1> HIDE DEF row
<1>3. ASSUME NEW i \in 1..k
      PROVE  (i - 1) * st \in Nat /\ (i - 1) * st + st <= k * st /\ k * st \in Nat
    <2>1. i - 1 \in Nat /\ i - 1 < k
        OBVIOUS
    <2> QED
        BY <2>1, Steps
<1>4. ASSUME NEW i \in 1..k PROVE row[i] \in Nat /\ at <= row[i] /\ row[i] + st <= at + k * st
    <2>1. PICK n \in Nat : n = (i - 1) * st
        BY <1>3
    <2>2. PICK l \in Nat : l = k * st
        BY <1>3
    <2>3. n + st <= l /\ row[i] = at + n
        BY <1>2, <1>3, <2>1, <2>2
    <2> QED
        BY <2>2, <2>3
<1>5. ASSUME NEW i \in 1..k PROVE row[i] % UINT = 0
    <2>1. PICK q \in Nat : st = UINT * q
        <3>1. PICK q \in Nat, r \in 0..(UINT - 1) : st = UINT * q + r /\ st % UINT = r
            BY ONLY <1>1, st \in Nat, Quotient
        <3> QED
            BY <1>1, <3>1
    <2>2. (i - 1) * q \in Nat
        <3>1. i - 1 \in Nat
            OBVIOUS
        <3> QED
            BY <3>1
    <2>3. (i - 1) * st = UINT * ((i - 1) * q) + 0
        <3>1. i - 1 \in Int
            OBVIOUS
        <3> QED
            BY <1>1, <2>1, <3>1
    <2>4. (UINT * ((i - 1) * q) + 0) % UINT = 0
        <3>1. 0 \in 0..(UINT - 1)
            BY <1>1
        <3> QED
            BY ONLY <1>1, <2>2, <3>1, MulMod
    <2>5. PICK n \in Nat : n = (i - 1) * st
        BY <1>3
    <2>6. n % UINT = 0
        BY <2>3, <2>4, <2>5
    <2>7. (at + n) % UINT = 0
        <3>1. UINT \in Nat \ {0} /\ at \in Nat /\ n \in Nat /\ at % UINT = 0 /\ n % UINT = 0
            BY <1>1, <2>6
        <3> QED
            BY ONLY <3>1, MultipleSums
    <2> QED
        BY <1>2, <2>5, <2>7
<1>6. ASSUME NEW i \in 1..k PROVE row[i] \in Addresses
    <2>1. PICK l \in Nat : l = k * st
        BY <1>3
    <2>2. minheap <= row[i] /\ row[i] <= maxheap - 1
        BY <1>1, <1>4, <2>1
    <2> QED
        BY <1>1, <1>4, <1>5, <2>2 DEF Addresses
<1>7. row \in Seq(Addresses) /\ Len(row) = k
    <2>1. row = [i \in 1..k |-> row[i]]
        BY DEF row, Row
    <2>2. row \in [1..k -> Addresses]
        BY <1>6, <2>1
    <2> QED
        BY <2>2
<1>8. ASSUME NEW i \in 1..k, NEW j \in 1..k, i < j PROVE row[i] # row[j]
    <2>1. i - 1 \in Nat /\ j - 1 \in Nat /\ i - 1 < j - 1
        BY <1>8
    <2>2. (i - 1) * st + st <= (j - 1) * st
        BY <2>1, Steps
    <2>3. PICK m \in Nat : m = (i - 1) * st
        BY <1>3
    <2>4. PICK n \in Nat : n = (j - 1) * st
        BY <1>3
    <2>5. row[i] = at + m /\ row[j] = at + n
        BY <1>2, <2>3, <2>4
    <2>6. m + st <= n
        BY <2>2, <2>3, <2>4
    <2> QED
        BY <2>5, <2>6
<1>9. IsInjective(row)
    <2>1. ASSUME NEW i \in 1..k, NEW j \in 1..k, row[i] = row[j] PROVE i = j
        BY <1>8, <2>1
    <2> QED
        BY <1>2, <2>1 DEF IsInjective
<1>10. ASSUME NEW i \in 1..k, i < k PROVE row[i + 1] = row[i] + st
    <2>1. i + 1 \in 1..k /\ (i + 1) - 1 = i
        BY <1>10
    <2>2. i * st = (i - 1) * st + st
        OBVIOUS
    <2>3. PICK m \in Nat : m = (i - 1) * st
        BY <1>3
    <2> QED
        BY <1>2, <2>1, <2>2, <2>3
<1>11. row[1] = at
    <2>1. 1 \in 1..k /\ (1 - 1) * st = 0
        OBVIOUS
    <2> QED
        BY <1>2, <2>1
<1> QED
    BY <1>4, <1>7, <1>9, <1>10, <1>11 DEF InRow, row

LEMMA LinkedRow ==
    ASSUME NEW at \in Nat, NEW bufsiz, NEW k \in Nat \ {0}, NEW st \in Nat \ {0}, st = Stride(bufsiz),
           NEW row, InRow(row, at, st, k), word \in [Addresses -> Nat]
    PROVE  /\ Linked(row, bufsiz) \in [Addresses -> Nat]
           /\ \A a \in Addresses \ ToSet(row) : Linked(row, bufsiz)[a] = word[a]
           /\ Listed(row, ToSet(row), at, Linked(row, bufsiz))
<1> DEFINE next == Linked(row, bufsiz)
<1>1. /\ row \in Seq(Addresses) /\ Len(row) = k /\ IsInjective(row) /\ row[1] = at /\ DOMAIN row = 1..k
      /\ \A i \in 1..k : i < k => row[i + 1] = row[i] + st
    BY DEF InRow
<1>2. /\ next \in [Addresses -> Nat]
      /\ \A a \in Addresses : next[a] = IF a \notin ToSet(row) THEN word[a]
                                       ELSE IF a = Last(row) THEN 0 ELSE a + st
    <2>1. \A a \in Addresses : a \in Nat /\ a + st \in Nat /\ word[a] \in Nat
        BY NullNoAddress
    <2> QED
        BY <2>1 DEF Linked
<1> HIDE DEF next
<1>3. Last(row) = row[k] /\ k \in 1..k
    BY <1>1 DEF Last
<1>4. ASSUME NEW i \in 1..k PROVE next[row[i]] = IF i = k THEN 0 ELSE row[i + 1]
    <2>1. row[i] \in Addresses /\ row[i] \in ToSet(row)
        BY <1>1 DEF ToSet
    <2>2. row[i] = Last(row) <=> i = k
        BY <1>1, <1>3 DEF IsInjective
    <2>3. i # k => row[i + 1] = row[i] + st
        BY <1>1
    <2> QED
        BY <1>2, <2>1, <2>2, <2>3
<1> QED
    BY <1>1, <1>2, <1>4 DEF Listed, next

-----------------------------------------------------------------------------
(* The inductive invariant. *)
PoolIds  == 0..(NBPOOLS - 1)
PoolRec  == [bpnext : Nat, bpsize : Nat, bpsem : Sem \cup {None}]
Gettings == [at : {"getbuf"}, pool : PoolIds]

Getting(p, i) == cont[p].at = "getbuf" /\ cont[p].pool = i
SemId(i)      == buftab[i].bpsem
Free(i)       == members[i] \ inuse

PoolTypes ==
    /\ nbpools \in 0..NBPOOLS
    /\ buftab \in [PoolIds -> PoolRec]
    /\ word \in [Addresses -> Nat]
    /\ members \in [PoolIds -> SUBSET Addresses]
    /\ inuse \subseteq UNION {members[i] : i \in Pools}
    /\ cont \in [Pid -> {User} \cup Gettings]
    /\ sem \in [Sem -> SemRec]

(* Every pool has a semaphore of its own. *)
SemsOK ==
    /\ \A s \in Sem : Balanced(sem[s])
    /\ \A i \in Pools : SemId(i) \in Sem /\ sem[SemId(i)].used
    /\ \A i, j \in Pools : i # j => SemId(i) # SemId(j)

(* Whoever waits is inside getbuf, on the queue of its pool's semaphore. *)
GettersOK ==
    /\ ProcessorOK
    /\ \A p \in Pid : cont[p] # User => cont[p].pool \in Pools
    /\ \A p \in Waiting : cont[p] # User
    /\ \A i \in Pools : ToSet(sem[SemId(i)].queue) = {p \in Waiting : Getting(p, i)}

ListsOK ==
    \A i \in Pools :
        /\ Listed(Chain(i), Free(i), buftab[i].bpnext, word)
        /\ \A buf \in members[i] \cap inuse : word[buf] = i

(* A free buffer for every unit, and for every process that was given one. *)
Units(i) ==
    (IF sem[SemId(i)].count > 0 THEN sem[SemId(i)].count ELSE 0) + Cardinality(Getters(i))
NoneKilled == \A p \in Pid : prstate[p] # "FREE"
UnitsOK ==
    \A i \in Pools :
        /\ Units(i) <= Cardinality(Free(i))
        /\ NoneKilled => Units(i) = Cardinality(Free(i))

PoolInv ==
    /\ MemInv /\ PoolTypes /\ SemsOK /\ GettersOK /\ ListsOK /\ UnitsOK /\ PoolsInHeap

(* However the addresses are threaded, the list of a pool is its free buffers. *)
LEMMA ChainIs ==
    ASSUME NEW l, NEW m \in SUBSET Addresses, NEW u, NEW first, NEW words, Listed(l, m \ u, first, words)
    PROVE  Listed(Thread(first, words, Cardinality(m)), m \ u, first, words)
<1>1. IsFiniteSet(m \ u) /\ Cardinality(m \ u) = Len(l) /\ Len(l) \in Nat
    BY ListedSize, ListedFacts
<1>2. IsFiniteSet(m) /\ Cardinality(m) \in Nat
    BY NullNoAddress, FS_Subset, FS_CardinalityType
<1>3. Cardinality(m \ u) <= Cardinality(m)
    <2>1. m \ u \subseteq m
        OBVIOUS
    <2> QED
        BY <1>2, <2>1, FS_Subset
<1>4. Len(l) <= Cardinality(m)
    BY <1>1, <1>3
<1>5. Thread(first, words, Cardinality(m)) = l
    <2> DEFINE n == Cardinality(m)
    <2>1. n \in Nat /\ Len(l) <= n
        BY <1>2, <1>4
    <2> HIDE DEF n
    <2>2. Thread(first, words, n) = l
        BY <2>1, ThreadIs
    <2> QED
        BY <2>2 DEF n
<1> QED
    BY <1>5

(* Of each pool its list and its buffers in use. *)
OwnList(i, m, u, tab, words) ==
    /\ \E l : Listed(l, m[i] \ u, tab[i].bpnext, words)
    /\ \A buf \in m[i] \cap u : words[buf] = i

LEMMA ListsFrom ==
    ASSUME PoolTypes, ListsOK
    PROVE  \A i \in Pools : OwnList(i, members, inuse, buftab, word)
BY DEF ListsOK, OwnList, Free

LEMMA ListsTo ==
    ASSUME members' \in [PoolIds -> SUBSET Addresses], Pools' \subseteq PoolIds,
           \A i \in Pools' : OwnList(i, members', inuse', buftab', word')
    PROVE  ListsOK'
<1> SUFFICES ASSUME NEW i \in Pools'
             PROVE  /\ Listed(Chain(i)', members'[i] \ inuse', buftab'[i].bpnext, word')
                    /\ \A buf \in members'[i] \cap inuse' : word'[buf] = i
    BY DEF ListsOK, Free
<1>1. PICK l : Listed(l, members'[i] \ inuse', buftab'[i].bpnext, word')
    BY DEF OwnList
<1>2. PICK m \in SUBSET Addresses : m = members'[i]
    OBVIOUS
<1>3. PICK u, first, words : u = inuse' /\ first = buftab'[i].bpnext /\ words = word'
    OBVIOUS
<1>4. Listed(l, m \ u, first, words)
    BY <1>1, <1>2, <1>3
<1>5. Listed(Thread(first, words, Cardinality(m)), m \ u, first, words)
    BY ONLY <1>4, m \in SUBSET Addresses, ChainIs
<1>6. Chain(i)' = Thread(first, words, Cardinality(m))
    BY <1>2, <1>3 DEF Chain
<1> QED
    BY <1>2, <1>3, <1>5, <1>6 DEF OwnList

LEMMA PoolIdsAre ==
    ASSUME PoolTypes
    PROVE  Pools \subseteq PoolIds /\ \A i \in PoolIds : i \in Nat /\ i < minheap
<1>1. nbpools \in 0..NBPOOLS /\ NBPOOLS \in Nat /\ minheap \in Nat /\ NBPOOLS <= minheap
    BY BufAssumption, MemoryAssumption DEF PoolTypes
<1> QED
    BY <1>1 DEF Pools, PoolIds

LEMMA FreeSize ==
    ASSUME PoolTypes
    PROVE  \A i \in PoolIds : IsFiniteSet(Free(i)) /\ Cardinality(Free(i)) \in Nat
<1> TAKE i \in PoolIds
<1>1. Free(i) \subseteq Addresses
    BY DEF PoolTypes, Free
<1> QED
    BY <1>1, NullNoAddress, FS_Subset, FS_CardinalityType

(* What a step that leaves the pools' buffers and semaphores alone keeps. *)
SamePools ==
    /\ UNCHANGED <<nbpools, members, memVars>>
    /\ \A i \in PoolIds : buftab'[i].bpsem = buftab[i].bpsem /\ buftab'[i].bpsize = buftab[i].bpsize

LEMMA SamePoolsKeep ==
    ASSUME PoolInv, SamePools
    PROVE  /\ MemInv' /\ PoolsInHeap' /\ Pools' = Pools
           /\ \A i \in PoolIds : SemId(i)' = SemId(i)
<1>1. MemInv'
    <2>1. UNCHANGED memVars /\ MemInv
        BY DEF SamePools, PoolInv
    <2> QED
        BY <2>1 DEF memVars, MemInv, MemTypes
<1>2. Pools' = Pools /\ held' = held /\ members' = members /\ Pools \subseteq PoolIds
    BY PoolIdsAre DEF SamePools, Pools, memVars, PoolInv
<1>3. PoolsInHeap'
    BY <1>2 DEF PoolsInHeap, PoolInv, SamePools
<1>4. \A i \in PoolIds : SemId(i)' = SemId(i)
    BY DEF SemId, SamePools
<1> QED
    BY <1>1, <1>2, <1>3, <1>4

(* getbuf takes a buffer off the list of a pool that has one. *)
LEMMA UnlinkLists ==
    ASSUME PoolInv, NEW pool \in Pools, Free(pool) # {}, Unlink(pool), UNCHANGED memVars
    PROVE  /\ SamePools /\ ListsOK'
           /\ buftab' \in [PoolIds -> PoolRec] /\ word' \in [Addresses -> Nat]
           /\ inuse' \subseteq UNION {members[i] : i \in Pools}
           /\ \A i \in Pools : Cardinality(Free(i)') = IF i = pool THEN Cardinality(Free(i)) - 1
                                                       ELSE Cardinality(Free(i))
<1> DEFINE buf == buftab[pool].bpnext
<1>1. /\ Pools \subseteq PoolIds /\ \A i \in PoolIds : i \in Nat
      /\ buftab \in [PoolIds -> PoolRec] /\ word \in [Addresses -> Nat]
      /\ members \in [PoolIds -> SUBSET Addresses]
      /\ inuse \subseteq UNION {members[i] : i \in Pools}
    BY PoolIdsAre DEF PoolInv, PoolTypes
<1>2. \A i \in Pools : OwnList(i, members, inuse, buftab, word)
    BY ListsFrom DEF PoolInv
<1>3. /\ buftab' = [buftab EXCEPT ![pool].bpnext = word[buf]]
      /\ word' = [word EXCEPT ![buf] = pool]
      /\ inuse' = inuse \cup {buf}
      /\ UNCHANGED <<nbpools, members>>
    BY DEF Unlink
<1>4. PICK l : Listed(l, members[pool] \ inuse, buf, word)
    BY <1>2 DEF OwnList
<1>5. PICK words, next : words = word /\ next = word' /\ words \in [Addresses -> Nat]
    BY <1>1
<1>6. PICK free : free = members[pool] \ inuse /\ free # {} /\ free = Free(pool)
    BY DEF Free
<1> HIDE DEF buf
<1>7. buf \in free /\ Listed(Tail(l), free \ {buf}, words[buf], next)
    <2>1. Listed(l, free, buf, words) /\ next = [words EXCEPT ![buf] = pool]
        BY <1>3, <1>4, <1>5, <1>6
    <2> QED
        BY ONLY <2>1, <1>5, <1>6, ListedTail
<1>8. buf \in members[pool] /\ buf \notin inuse /\ buf \in Addresses /\ word[buf] \in Nat
    BY <1>1, <1>6, <1>7
<1>9. \A i \in Pools : i # pool => buf \notin members[i]
    BY <1>8 DEF PoolInv, PoolsInHeap
<1>10. /\ \A i \in PoolIds \ {pool} : buftab'[i] = buftab[i]
       /\ buftab'[pool].bpnext = word[buf] /\ buftab'[pool].bpsem = buftab[pool].bpsem
       /\ buftab'[pool].bpsize = buftab[pool].bpsize
       /\ buftab' \in [PoolIds -> PoolRec]
    BY <1>1, <1>3, <1>8 DEF PoolRec
<1>11. /\ word' \in [Addresses -> Nat] /\ word'[buf] = pool
       /\ \A a \in Addresses \ {buf} : word'[a] = word[a]
    BY <1>1, <1>3, <1>8
<1>12. SamePools
    BY <1>3, <1>10 DEF SamePools
<1>13. inuse' \subseteq UNION {members[i] : i \in Pools}
    BY <1>1, <1>3, <1>8
<1>14. ASSUME NEW i \in Pools PROVE OwnList(i, members', inuse', buftab', word')
    <2>1. CASE i = pool
        <3>1. members'[pool] \ inuse' = free \ {buf}
            BY <1>3, <1>6
        <3>2. Listed(Tail(l), members'[pool] \ inuse', buftab'[pool].bpnext, word')
            BY <1>5, <1>7, <1>10, <3>1
        <3>3. ASSUME NEW b \in members'[pool] \cap inuse' PROVE word'[b] = pool
            <4>1. b = buf \/ (b \in members[pool] \cap inuse /\ b # buf /\ b \in Addresses)
                BY <1>1, <1>3
            <4> QED
                BY <1>2, <1>11, <4>1 DEF OwnList
        <3> QED
            BY <2>1, <3>2, <3>3 DEF OwnList
    <2>2. CASE i # pool
        <3>1. members'[i] \ inuse' = members[i] \ inuse /\ members'[i] \cap inuse' = members[i] \cap inuse
            BY <1>3, <1>9, <2>2
        <3>2. PICK k : Listed(k, members[i] \ inuse, buftab[i].bpnext, word)
            BY <1>2 DEF OwnList
        <3>3. \A x \in members[i] : next[x] = words[x] /\ word'[x] = word[x]
            BY <1>1, <1>5, <1>9, <1>11, <2>2
        <3>4. PICK fr, first : fr = members[i] \ inuse /\ first = buftab[i].bpnext
            OBVIOUS
        <3>5. Listed(k, fr, first, words) /\ \A x \in fr : next[x] = words[x]
            BY <1>5, <3>2, <3>3, <3>4
        <3>6. Listed(k, fr, first, next)
            BY ONLY <3>5, ListedSame
        <3>7. Listed(k, members'[i] \ inuse', buftab'[i].bpnext, word')
            BY <1>1, <1>5, <1>10, <2>2, <3>1, <3>4, <3>6
        <3>8. \A b \in members'[i] \cap inuse' : word'[b] = i
            BY <1>2, <3>1, <3>3 DEF OwnList
        <3> QED
            BY <3>7, <3>8 DEF OwnList
    <2> QED
        BY <2>1, <2>2
<1>15. ListsOK'
    <2>1. Pools' = Pools
        BY <1>3 DEF Pools
    <2> QED
        BY <1>1, <1>3, <1>14, <2>1, ListsTo
<1>16. \A i \in Pools : Cardinality(Free(i)') = IF i = pool THEN Cardinality(Free(i)) - 1
                                                ELSE Cardinality(Free(i))
    <2> TAKE i \in Pools
    <2>1. CASE i = pool
        <3>1. Free(i)' = Free(i) \ {buf} /\ buf \in Free(i) /\ IsFiniteSet(Free(i))
            BY <1>1, <1>3, <1>6, <1>7, <2>1, FreeSize DEF Free, PoolInv
        <3> QED
            BY <2>1, <3>1, FS_RemoveElement
    <2>2. CASE i # pool
        <3>1. Free(i)' = Free(i)
            BY <1>3, <1>9, <2>2 DEF Free
        <3> QED
            BY <2>2, <3>1
    <2> QED
        BY <2>1, <2>2
<1> QED
    BY <1>10, <1>11, <1>12, <1>13, <1>15, <1>16

(* freebuf puts a buffer in use back on its own pool's list. *)
LEMMA RelinkLists ==
    ASSUME PoolInv, NEW pool \in Pools, NEW buf \in members[pool], buf \in inuse,
           word' = [word EXCEPT ![buf] = buftab[pool].bpnext],
           buftab' = [buftab EXCEPT ![pool].bpnext = buf],
           inuse' = inuse \ {buf}, UNCHANGED <<nbpools, members, memVars>>
    PROVE  /\ SamePools /\ ListsOK'
           /\ buftab' \in [PoolIds -> PoolRec] /\ word' \in [Addresses -> Nat]
           /\ inuse' \subseteq UNION {members[i] : i \in Pools}
           /\ \A i \in Pools : Cardinality(Free(i)') = IF i = pool THEN Cardinality(Free(i)) + 1
                                                       ELSE Cardinality(Free(i))
<1>1. /\ Pools \subseteq PoolIds /\ \A i \in PoolIds : i \in Nat
      /\ buftab \in [PoolIds -> PoolRec] /\ word \in [Addresses -> Nat]
      /\ members \in [PoolIds -> SUBSET Addresses]
      /\ inuse \subseteq UNION {members[i] : i \in Pools}
    BY PoolIdsAre DEF PoolInv, PoolTypes
<1>2. \A i \in Pools : OwnList(i, members, inuse, buftab, word)
    BY ListsFrom DEF PoolInv
<1>4. PICK l : Listed(l, members[pool] \ inuse, buftab[pool].bpnext, word)
    BY <1>2 DEF OwnList
<1>5. PICK words, next, first : /\ words = word /\ next = word' /\ words \in [Addresses -> Nat]
                               /\ first = buftab[pool].bpnext
    BY <1>1
<1>6. PICK free : free = members[pool] \ inuse
    OBVIOUS
<1>8. buf \in Addresses /\ buf \notin free /\ buf \in Nat /\ first \in Nat
    BY <1>1, <1>5, <1>6, NullNoAddress DEF PoolRec
<1>7. Listed(<<buf>> \o l, free \cup {buf}, buf, next)
    <2>1. Listed(l, free, first, words) /\ next = [words EXCEPT ![buf] = first]
        BY <1>4, <1>5, <1>6
    <2> QED
        BY ONLY <2>1, <1>8, <1>5, ListedPush
<1>9. \A i \in Pools : i # pool => buf \notin members[i]
    BY DEF PoolInv, PoolsInHeap
<1>10. /\ \A i \in PoolIds \ {pool} : buftab'[i] = buftab[i]
       /\ buftab'[pool].bpnext = buf /\ buftab'[pool].bpsem = buftab[pool].bpsem
       /\ buftab'[pool].bpsize = buftab[pool].bpsize
       /\ buftab' \in [PoolIds -> PoolRec]
    BY <1>1, <1>8 DEF PoolRec
<1>11. /\ word' \in [Addresses -> Nat]
       /\ \A a \in Addresses \ {buf} : word'[a] = word[a]
    BY <1>1, <1>5, <1>8
<1>12. SamePools
    BY <1>10 DEF SamePools
<1>13. inuse' \subseteq UNION {members[i] : i \in Pools}
    BY <1>1
<1>14. ASSUME NEW i \in Pools PROVE OwnList(i, members', inuse', buftab', word')
    <2>1. CASE i = pool
        <3>1. members'[pool] \ inuse' = free \cup {buf}
            BY <1>6
        <3>2. Listed(<<buf>> \o l, members'[pool] \ inuse', buftab'[pool].bpnext, word')
            BY <1>5, <1>7, <1>10, <3>1
        <3>3. ASSUME NEW b \in members'[pool] \cap inuse' PROVE word'[b] = pool
            <4>1. b \in members[pool] \cap inuse /\ b # buf /\ b \in Addresses
                BY <1>1
            <4> QED
                BY <1>2, <1>11, <4>1 DEF OwnList
        <3> QED
            BY <2>1, <3>2, <3>3 DEF OwnList
    <2>2. CASE i # pool
        <3>1. members'[i] \ inuse' = members[i] \ inuse /\ members'[i] \cap inuse' = members[i] \cap inuse
            BY <1>9, <2>2
        <3>2. PICK k : Listed(k, members[i] \ inuse, buftab[i].bpnext, word)
            BY <1>2 DEF OwnList
        <3>3. \A x \in members[i] : next[x] = words[x] /\ word'[x] = word[x]
            BY <1>1, <1>5, <1>9, <1>11, <2>2
        <3>4. PICK fr, start : fr = members[i] \ inuse /\ start = buftab[i].bpnext
            OBVIOUS
        <3>5. Listed(k, fr, start, words) /\ \A x \in fr : next[x] = words[x]
            BY <1>5, <3>2, <3>3, <3>4
        <3>6. Listed(k, fr, start, next)
            BY ONLY <3>5, ListedSame
        <3>7. Listed(k, members'[i] \ inuse', buftab'[i].bpnext, word')
            BY <1>1, <1>5, <1>10, <2>2, <3>1, <3>4, <3>6
        <3>8. \A b \in members'[i] \cap inuse' : word'[b] = i
            BY <1>2, <3>1, <3>3 DEF OwnList
        <3> QED
            BY <3>7, <3>8 DEF OwnList
    <2> QED
        BY <2>1, <2>2
<1>15. ListsOK'
    <2>1. Pools' = Pools
        BY DEF Pools
    <2> QED
        BY <1>1, <1>14, <2>1, ListsTo
<1>16. \A i \in Pools : Cardinality(Free(i)') = IF i = pool THEN Cardinality(Free(i)) + 1
                                                ELSE Cardinality(Free(i))
    <2> TAKE i \in Pools
    <2>1. CASE i = pool
        <3>1. Free(i)' = Free(i) \cup {buf} /\ buf \notin Free(i) /\ IsFiniteSet(Free(i))
            BY <1>1, <2>1, FreeSize DEF Free, PoolInv
        <3> QED
            BY <2>1, <3>1, FS_AddElement
    <2>2. CASE i # pool
        <3>1. Free(i)' = Free(i)
            BY <1>9, <2>2 DEF Free
        <3> QED
            BY <2>2, <3>1
    <2> QED
        BY <2>1, <2>2
<1> QED
    BY <1>10, <1>11, <1>12, <1>13, <1>15, <1>16

(* The units of a pool, by who runs. *)
LEMMA GettersAre ==
    ASSUME PoolTypes, IsFiniteSet(Pid)
    PROVE  /\ \A i \in PoolIds : IsFiniteSet(Getters(i)) /\ Getters(i) = {p \in Running : Getting(p, i)}
           /\ \A i \in Pools : SemId(i) \in Sem => Units(i) \in Nat
<1>1. \A i \in PoolIds : Getters(i) = {p \in Running : Getting(p, i)} /\ Getters(i) \subseteq Pid
    BY DEF Getters, Getting, Running
<1>2. \A i \in PoolIds : IsFiniteSet(Getters(i)) /\ Cardinality(Getters(i)) \in Nat
    BY <1>1, FS_Subset, FS_CardinalityType
<1>3. ASSUME NEW i \in Pools, SemId(i) \in Sem PROVE Units(i) \in Nat
    <2>1. Cardinality(Getters(i)) \in Nat
        BY <1>2, PoolIdsAre
    <2>2. sem[SemId(i)].count \in Int
        BY <1>3 DEF PoolTypes, SemRec
    <2> QED
        BY <2>1, <2>2 DEF Units
<1> QED
    BY <1>1, <1>2, <1>3

LEMMA Alive ==
    ASSUME ProcessorOK
    PROVE  NoneKilled <=> Pid \subseteq Waiting \cup Running
<1>1. \A p \in Pid : prstate[p] # "FREE" <=> p \in Waiting \cup Running
    BY DEF ProcessorOK, States, Waiting, Running
<1> QED
    BY <1>1 DEF NoneKilled

LEMMA MovesFacts ==
    ASSUME NEW waiting, NEW running, Moves(waiting, running)
    PROVE  /\ ProcessorOK' /\ Waiting' = waiting /\ Running' = running
           /\ NoneKilled' <=> Pid \subseteq waiting \cup running
<1>1. ProcessorOK' /\ Waiting' = waiting /\ Running' = running
    BY DEF Moves, ProcessorOK
<1>2. \A p \in Pid : prstate'[p] # "FREE" <=> p \in Waiting' \cup Running'
    BY DEF Moves, States, Waiting, Running
<1> QED
    BY <1>1, <1>2 DEF NoneKilled

(* The types and whoever is inside getbuf. *)
PoolFacts ==
    /\ MemInv /\ PoolTypes /\ SemsOK /\ GettersOK /\ ListsOK /\ UnitsOK /\ PoolsInHeap
    /\ ProcessorOK /\ IsFiniteSet(Pid)
    /\ Pools \subseteq PoolIds
    /\ \A i \in Pools : SemId(i) \in Sem /\ Units(i) \in Nat /\ Cardinality(Free(i)) \in Nat
                        /\ sem[SemId(i)].used
    /\ currpid # NULLPROC => currpid \in Pid /\ currpid \in Running /\ currpid \notin Waiting
    /\ \A p \in Pid : cont[p] = User => \A i \in PoolIds : ~Getting(p, i)
    /\ \A p \in Pid : p \in Running => p \notin Waiting

LEMMA FactsOf == PoolInv => PoolFacts
<1> SUFFICES ASSUME PoolInv PROVE PoolFacts
    OBVIOUS
<1>1. /\ MemInv /\ PoolTypes /\ SemsOK /\ GettersOK /\ ListsOK /\ UnitsOK /\ PoolsInHeap
      /\ ProcessorOK /\ IsFiniteSet(Pid)
    BY BufAssumption DEF PoolInv, GettersOK
<1>2. Pools \subseteq PoolIds
    BY <1>1, PoolIdsAre
<1>3. \A i \in Pools : SemId(i) \in Sem /\ sem[SemId(i)].used
    BY <1>1 DEF SemsOK
<1>4. \A i \in Pools : Units(i) \in Nat /\ Cardinality(Free(i)) \in Nat
    BY <1>1, <1>2, <1>3, GettersAre, FreeSize
<1>5. currpid # NULLPROC => currpid \in Pid /\ currpid \in Running /\ currpid \notin Waiting
    BY <1>1, CurrentRuns DEF ProcessorOK
<1>6. \A p \in Pid : cont[p] = User => \A i \in PoolIds : ~Getting(p, i)
    BY DEF Getting, User
<1>7. \A p \in Pid : p \in Running => p \notin Waiting
    BY DEF Running, Waiting
<1> QED
    BY <1>1, <1>2, <1>3, <1>4, <1>5, <1>6, <1>7 DEF PoolFacts

(* A step that moves a unit of one pool and a buffer with it. *)
LEMMA UnitsStep ==
    ASSUME PoolFacts, Pools' = Pools, NEW pool \in Pools, NEW d \in {-1, 0, 1},
           NoneKilled' => NoneKilled,
           \A i \in Pools : Units(i)' = IF i = pool THEN Units(i) + d ELSE Units(i),
           \A i \in Pools : Cardinality(Free(i)') = IF i = pool THEN Cardinality(Free(i)) + d
                                                    ELSE Cardinality(Free(i))
    PROVE  UnitsOK'
<1> SUFFICES ASSUME NEW i \in Pools
             PROVE  /\ Units(i)' <= Cardinality(Free(i)')
                    /\ NoneKilled' => Units(i)' = Cardinality(Free(i)')
    BY DEF UnitsOK
<1>1. PICK u \in Nat, f \in Nat : u = Units(i) /\ f = Cardinality(Free(i))
    BY DEF PoolFacts
<1>2. u <= f /\ (NoneKilled => u = f)
    BY <1>1 DEF PoolFacts, UnitsOK
<1>3. \/ Units(i)' = u /\ Cardinality(Free(i)') = f
      \/ Units(i)' = u + d /\ Cardinality(Free(i)') = f + d
    BY <1>1
<1> QED
    BY <1>2, <1>3

(* A step that touches neither a semaphore's count nor anybody who runs inside getbuf. *)
UnitOf(c, g) == (IF c > 0 THEN c ELSE 0) + Cardinality(g)

LEMMA UnitsAre ==
    /\ \A i : Units(i) = UnitOf(sem[SemId(i)].count, Getters(i))
    /\ \A i : Units(i)' = UnitOf(sem'[SemId(i)'].count, Getters(i)')
BY DEF Units, UnitOf

(* Who is inside getbuf after a step, by who runs. *)
LEMMA GettersNext ==
    \A i : Getters(i)' = {p \in Running' : cont'[p].at = "getbuf" /\ cont'[p].pool = i}
BY DEF Getters, Running

-----------------------------------------------------------------------------
(* One lemma per step: it preserves the invariant. *)

(* A step on the semaphore of one pool. *)
LEMMA SemStep ==
    ASSUME PoolFacts, SamePools, NEW s \in Sem, sem' \in [Sem -> SemRec],
           \A t \in Sem \ {s} : sem'[t] = sem[t], Balanced(sem'[s]), sem'[s].used = sem[s].used
    PROVE  SemsOK'
<1>1. Pools' = Pools /\ Pools \subseteq PoolIds /\ \A i \in PoolIds : SemId(i)' = SemId(i)
    BY DEF PoolFacts, SamePools, Pools, SemId
<1>2. \A t \in Sem : Balanced(sem'[t]) /\ sem'[t].used = sem[t].used
    BY DEF PoolFacts, SemsOK
<1> QED
    BY <1>1, <1>2 DEF SemsOK, PoolFacts

(* A step that takes a buffer's unit or gives it back keeps what is left to keep. *)
LEMMA PoolStep ==
    ASSUME PoolInv, SamePools, ListsOK', SemsOK', GettersOK', UnitsOK',
           buftab' \in [PoolIds -> PoolRec], word' \in [Addresses -> Nat],
           inuse' \subseteq UNION {members[i] : i \in Pools},
           cont' \in [Pid -> {User} \cup Gettings], sem' \in [Sem -> SemRec]
    PROVE  PoolInv'
<1>1. MemInv' /\ PoolsInHeap' /\ Pools' = Pools
    BY SamePoolsKeep
<1>2. PoolTypes'
    BY <1>1 DEF PoolInv, PoolTypes, SamePools
<1> QED
    BY <1>1, <1>2 DEF PoolInv

(* getbuf of a pool with a free buffer. *)
LEMMA GetBufNow ==
    ASSUME PoolInv, NEW pool \in Pools, InUser, NEW s, s = SemId(pool), Available(s),
           sem' = Down(sem, s, currpid), Unlink(pool), UNCHANGED <<procVars, cont, memVars>>
    PROVE  PoolInv'
<1>1. PoolFacts /\ currpid \in Pid /\ s \in Sem /\ sem[s].used /\ sem \in [Sem -> SemRec]
      /\ Balanced(sem[s]) /\ sem[s].count \in Int /\ cont \in [Pid -> {User} \cup Gettings]
    BY FactsOf DEF PoolFacts, InUser, PoolTypes, SemsOK, SemRec
<1>2. sem[s].count > 0 /\ sem[s].queue = <<>> /\ currpid \notin ToSet(sem[s].queue)
    BY <1>1, EmptyQueue DEF Available, Balanced
<1>3. /\ sem' \in [Sem -> SemRec] /\ (\A t \in Sem \ {s} : sem'[t] = sem[t])
      /\ sem'[s].used = sem[s].used /\ sem'[s].count = sem[s].count - 1
    <2> DEFINE down == Down(sem, s, currpid)
    <2>1. /\ down \in [Sem -> SemRec] /\ \A t \in Sem \ {s} : down[t] = sem[t]
          /\ down[s].used = sem[s].used /\ down[s].count = sem[s].count - 1
        BY ONLY <1>1, DownEntry
    <2> HIDE DEF down
    <2>2. sem' = down
        BY DEF down
    <2> QED
        BY <2>1, <2>2
<1>4. Balanced(sem'[s]) /\ ToSet(sem'[s].queue) = ToSet(sem[s].queue)
    <2> DEFINE down == Down(sem, s, currpid)
    <2>1. /\ Balanced(down[s])
          /\ ToSet(down[s].queue) =
                IF sem[s].count > 0 THEN ToSet(sem[s].queue) ELSE ToSet(sem[s].queue) \cup {currpid}
        BY ONLY <1>1, <1>2, DownBalanced
    <2> HIDE DEF down
    <2>2. sem' = down
        BY DEF down
    <2> QED
        BY ONLY <1>2, <2>1, <2>2
<1>5. UNCHANGED <<currpid, prstate, cont, memVars>>
    BY DEF procVars
<1>6. Units(pool) >= 1 /\ Cardinality(Getters(pool)) \in Nat
    <2>1. Cardinality(Getters(pool)) \in Nat
        BY <1>1, GettersAre, FS_CardinalityType DEF PoolFacts
    <2> QED
        BY <1>1, <1>2, <2>1 DEF Units
<1>7. Free(pool) # {}
    <2>1. Units(pool) <= Cardinality(Free(pool)) /\ Units(pool) \in Nat /\ Cardinality(Free(pool)) \in Nat
        BY <1>1 DEF PoolFacts, UnitsOK
    <2>2. Cardinality(Free(pool)) # 0
        BY <1>6, <2>1
    <2> QED
        BY <2>2, FS_EmptySet
<1>8. /\ SamePools /\ ListsOK'
      /\ buftab' \in [PoolIds -> PoolRec] /\ word' \in [Addresses -> Nat]
      /\ inuse' \subseteq UNION {members[i] : i \in Pools}
      /\ \A i \in Pools : Cardinality(Free(i)') = IF i = pool THEN Cardinality(Free(i)) - 1
                                                  ELSE Cardinality(Free(i))
    BY <1>5, <1>7, UnlinkLists
<1>9. Pools' = Pools /\ Pools \subseteq PoolIds /\ \A i \in PoolIds : SemId(i)' = SemId(i)
    BY <1>1, <1>8, SamePoolsKeep DEF PoolFacts
<1>10. SemsOK'
    BY <1>1, <1>3, <1>4, <1>8, SemStep
<1>11. \A i \in Pools : i # pool => SemId(i) # s /\ SemId(i) \in Sem
    BY <1>1 DEF PoolFacts, SemsOK
<1>12. \A i \in Pools : ToSet(sem'[SemId(i)].queue) = ToSet(sem[SemId(i)].queue)
    BY <1>3, <1>4, <1>11
<1>13. GettersOK'
    <2>1. GettersOK
        BY <1>1 DEF PoolFacts
    <2>2. Waiting' = Waiting /\ \A p \in Pid, i \in Pools : Getting(p, i)' <=> Getting(p, i)
        BY <1>5 DEF Waiting, Getting
    <2> QED
        BY <1>5, <1>9, <1>12, <2>1, <2>2 DEF GettersOK, ProcessorOK, Waiting, Getting
<1>14. UnitsOK'
    <2>1. \A i \in Pools : Getters(i)' = Getters(i)
        BY <1>5 DEF Getters
    <2>2. \A i \in Pools : Units(i)' = IF i = pool THEN Units(i) - 1 ELSE Units(i)
        <3> TAKE i \in Pools
        <3>1. CASE i = pool
            <4>1. Units(i) = sem[s].count + Cardinality(Getters(pool))
                BY <1>2, <3>1 DEF Units
            <4>2. SemId(i)' = s /\ Getters(i)' = Getters(pool)
                BY <1>9, <2>1, <3>1
            <4>3. Units(i)' = (IF sem'[s].count > 0 THEN sem'[s].count ELSE 0) + Cardinality(Getters(pool))
                BY <4>2 DEF Units
            <4>4. PICK g \in Nat : g = Cardinality(Getters(pool))
                BY <1>6
            <4> QED
                BY <1>1, <1>2, <1>3, <3>1, <4>1, <4>3, <4>4
        <3>2. CASE i # pool
            <4>1. sem'[SemId(i)'].count = sem[SemId(i)].count
                BY <1>3, <1>9, <1>11, <3>2
            <4> QED
                BY <2>1, <3>2, <4>1, UnitsAre
        <3> QED
            BY <3>1, <3>2
    <2>3. NoneKilled' => NoneKilled
        BY <1>5 DEF NoneKilled
    <2>4. \A i \in Pools : /\ Units(i)' = IF i = pool THEN Units(i) + (-1) ELSE Units(i)
                           /\ Cardinality(Free(i)') = IF i = pool THEN Cardinality(Free(i)) + (-1)
                                                      ELSE Cardinality(Free(i))
        <3> TAKE i \in Pools
        <3>1. PICK u \in Nat, f \in Nat : u = Units(i) /\ f = Cardinality(Free(i))
            BY <1>1 DEF PoolFacts
        <3>2. u + (-1) = u - 1 /\ f + (-1) = f - 1
            OBVIOUS
        <3> QED
            BY <1>8, <2>2, <3>1, <3>2
    <2> QED
        BY <1>1, <1>9, <2>3, <2>4, UnitsStep
<1> QED
    BY <1>1, <1>3, <1>5, <1>8, <1>10, <1>13, <1>14, PoolStep

(* getbuf of a pool without one: the caller waits. *)
LEMMA GetBufWaits ==
    ASSUME PoolInv, NEW pool \in Pools, InUser, NEW s, s = SemId(pool),
           WaitOn(s, [at |-> "getbuf", pool |-> pool]), UNCHANGED <<poolVars, memVars>>
    PROVE  PoolInv'
<1>1. PoolFacts /\ currpid \in Pid /\ s \in Sem /\ sem[s].used /\ sem \in [Sem -> SemRec]
      /\ Balanced(sem[s]) /\ sem[s].count \in Int /\ cont \in [Pid -> {User} \cup Gettings]
      /\ cont[currpid] = User /\ pool \in PoolIds /\ Pools \subseteq PoolIds
    BY FactsOf DEF PoolFacts, InUser, PoolTypes, SemsOK, SemRec
<1>2. /\ sem[s].count <= 0 /\ sem' = Down(sem, s, currpid)
      /\ cont' = [cont EXCEPT ![currpid] = [at |-> "getbuf", pool |-> pool]]
      /\ Dispatch([prstate EXCEPT ![currpid] = "WAIT"])
    BY DEF WaitOn, Goto
<1>3. Moves(Waiting \cup {currpid}, Running \ {currpid})
    BY <1>1, <1>2, LeaveMoves DEF PoolFacts
<1>4. /\ ProcessorOK' /\ Waiting' = Waiting \cup {currpid} /\ Running' = Running \ {currpid}
      /\ NoneKilled' <=> Pid \subseteq (Waiting \cup {currpid}) \cup (Running \ {currpid})
    BY <1>3, MovesFacts
<1>5. currpid \in Running /\ currpid \notin Waiting
    BY <1>1, TaskAssumption DEF PoolFacts
<1>6. \A i \in Pools : ToSet(sem[SemId(i)].queue) = {p \in Waiting : Getting(p, i)}
    BY <1>1 DEF PoolFacts, GettersOK
<1>7. /\ sem' \in [Sem -> SemRec] /\ (\A t \in Sem \ {s} : sem'[t] = sem[t])
      /\ sem'[s].used = sem[s].used /\ sem'[s].count = sem[s].count - 1
    <2> DEFINE down == Down(sem, s, currpid)
    <2>1. /\ down \in [Sem -> SemRec] /\ \A t \in Sem \ {s} : down[t] = sem[t]
          /\ down[s].used = sem[s].used /\ down[s].count = sem[s].count - 1
        BY ONLY <1>1, DownEntry
    <2> HIDE DEF down
    <2>2. sem' = down
        BY <1>2 DEF down
    <2> QED
        BY <2>1, <2>2
<1>8. Balanced(sem'[s]) /\ ToSet(sem'[s].queue) = ToSet(sem[s].queue) \cup {currpid}
    <2>1. currpid \notin ToSet(sem[s].queue) /\ ~(sem[s].count > 0)
        BY <1>1, <1>2, <1>5, <1>6
    <2> DEFINE down == Down(sem, s, currpid)
    <2>2. /\ Balanced(down[s])
          /\ ToSet(down[s].queue) =
                IF sem[s].count > 0 THEN ToSet(sem[s].queue) ELSE ToSet(sem[s].queue) \cup {currpid}
        BY ONLY <1>1, <2>1, DownBalanced
    <2> HIDE DEF down
    <2>3. sem' = down
        BY <1>2 DEF down
    <2> QED
        BY ONLY <2>1, <2>2, <2>3
<1>9. SamePools /\ UNCHANGED <<nbpools, buftab, word, inuse, members, memVars>>
    BY DEF SamePools, poolVars
<1>10. Pools' = Pools /\ \A i \in PoolIds : SemId(i)' = SemId(i)
    BY <1>9, SamePoolsKeep
<1>11. SemsOK'
    BY <1>1, <1>7, <1>8, <1>9, SemStep
<1>12. /\ cont' \in [Pid -> {User} \cup Gettings]
       /\ \A p \in Pid : p # currpid => cont'[p] = cont[p]
       /\ cont'[currpid].at = "getbuf" /\ cont'[currpid].pool = pool /\ cont'[currpid] # User
    BY <1>1, <1>2 DEF Gettings, User
<1>13. \A i \in Pools, p \in Pid :
            Getting(p, i)' <=> IF p = currpid THEN i = pool ELSE Getting(p, i)
    BY <1>12 DEF Getting
<1>14. \A i \in Pools : ~Getting(currpid, i)
    BY <1>1 DEF PoolFacts
<1>15. \A i \in Pools : i # pool => SemId(i) # s /\ SemId(i) \in Sem
    BY <1>1 DEF PoolFacts, SemsOK
<1>16. GettersOK'
    <2>1. GettersOK
        BY <1>1 DEF PoolFacts
    <2>2. \A p \in Pid : cont'[p] # User => cont'[p].pool \in Pools'
        BY <1>10, <1>12, <2>1 DEF GettersOK
    <2>3. \A p \in Waiting' : cont'[p] # User
        BY <1>4, <1>12, <2>1 DEF GettersOK, Waiting
    <2>4. ASSUME NEW i \in Pools PROVE ToSet(sem'[SemId(i)].queue) = {p \in Waiting' : Getting(p, i)'}
        <3>1. {p \in Waiting' : Getting(p, i)'} =
                {p \in Waiting : Getting(p, i)} \cup (IF i = pool THEN {currpid} ELSE {})
            <4>1. Waiting \subseteq Pid
                BY DEF Waiting
            <4> QED
                BY <1>1, <1>4, <1>5, <1>13, <4>1
        <3>2. ToSet(sem'[SemId(i)].queue) =
                ToSet(sem[SemId(i)].queue) \cup (IF i = pool THEN {currpid} ELSE {})
            BY <1>7, <1>8, <1>15
        <3> QED
            BY <1>6, <3>1, <3>2
    <2>5. \A i \in Pools' : ToSet(sem'[SemId(i)'].queue) = {p \in Waiting' : Getting(p, i)'}
        BY <1>1, <1>10, <2>4
    <2> QED
        BY <1>4, <2>2, <2>3, <2>5 DEF GettersOK
<1>17. UnitsOK'
    <2>1. ASSUME NEW i \in Pools PROVE Getters(i)' = Getters(i)
        <3>1. Getters(i)' = {p \in Running' : Getting(p, i)'}
            BY GettersNext DEF Getting
        <3>2. Getters(i) = {p \in Running : Getting(p, i)} /\ Running \subseteq Pid
            BY <1>1, GettersAre DEF PoolFacts, Running
        <3> QED
            BY <1>4, <1>13, <1>14, <3>1, <3>2
    <2>2. \A i \in Pools : Units(i)' = Units(i)
        <3> TAKE i \in Pools
        <3>1. SemId(i)' = SemId(i) /\ Getters(i)' = Getters(i)
            BY <1>1, <1>10, <2>1
        <3>2. CASE i # pool
            <4>1. sem'[SemId(i)'].count = sem[SemId(i)].count
                BY <1>7, <1>15, <3>1, <3>2
            <4> QED
                BY <3>1, <4>1, UnitsAre
        <3>3. CASE i = pool
            <4>1. SemId(i) = s /\ ~(sem[s].count > 0) /\ ~(sem'[s].count > 0)
                BY <1>1, <1>2, <1>7, <3>3
            <4> QED
                BY <3>1, <4>1 DEF Units
        <3> QED
            BY <3>2, <3>3
    <2>3. NoneKilled' => NoneKilled
        <3>1. NoneKilled <=> Pid \subseteq Waiting \cup Running
            BY <1>1, Alive DEF PoolFacts
        <3> QED
            BY <1>4, <1>5, <3>1
    <2>4. \A i \in Pools : /\ Units(i)' = IF i = pool THEN Units(i) + 0 ELSE Units(i)
                           /\ Cardinality(Free(i)') = IF i = pool THEN Cardinality(Free(i)) + 0
                                                      ELSE Cardinality(Free(i))
        <3> TAKE i \in Pools
        <3>1. PICK u \in Nat, f \in Nat : u = Units(i) /\ f = Cardinality(Free(i))
            BY <1>1 DEF PoolFacts
        <3>2. u + 0 = u /\ f + 0 = f /\ Free(i)' = Free(i)
            BY <1>9 DEF Free
        <3> QED
            BY <2>2, <3>1, <3>2
    <2> QED
        BY <1>1, <1>10, <2>3, <2>4, UnitsStep
<1>18. ListsOK'
    <2>1. ListsOK
        BY <1>1 DEF PoolFacts
    <2> QED
        BY <1>9, <1>10, <2>1 DEF ListsOK, Chain, Free
<1> QED
    BY <1>1, <1>7, <1>9, <1>11, <1>12, <1>16, <1>17, <1>18, PoolStep DEF PoolFacts, PoolTypes

(* getbuf goes on, with the unit that freebuf handed to it. *)
LEMMA GetBufEnds ==
    ASSUME PoolInv, GetBufDone
    PROVE  PoolInv'
<1>1. PoolFacts /\ currpid \in Pid /\ currpid \in Running /\ currpid \notin Waiting
      /\ cont \in [Pid -> {User} \cup Gettings] /\ cont[currpid].at = "getbuf" /\ cont[currpid] # User
      /\ Pools \subseteq PoolIds
    BY FactsOf DEF PoolFacts, GetBufDone, At, PoolTypes, User
<1>2. PICK pool \in Pools : pool = cont[currpid].pool
    BY <1>1 DEF PoolFacts, GettersOK
<1>3. /\ cont' = [cont EXCEPT ![currpid] = User] /\ Unlink(pool)
      /\ UNCHANGED <<currpid, prstate, sem, memVars>>
    BY <1>2 DEF GetBufDone, Return, Goto, procVars
<1>4. /\ cont' \in [Pid -> {User} \cup Gettings] /\ cont'[currpid] = User
      /\ \A p \in Pid : p # currpid => cont'[p] = cont[p]
    BY <1>1, <1>3
<1>5. Getting(currpid, pool) /\ \A i \in Pools : i # pool => ~Getting(currpid, i)
    BY <1>1, <1>2 DEF Getting
<1>6. \A i \in Pools, p \in Pid : Getting(p, i)' <=> p # currpid /\ Getting(p, i)
    BY <1>4 DEF Getting, User
<1>7. \A i \in Pools : IsFiniteSet(Getters(i)) /\ Getters(i) = {p \in Running : Getting(p, i)}
                       /\ Cardinality(Getters(i)) \in Nat
    BY <1>1, GettersAre, FS_CardinalityType DEF PoolFacts
<1>8. currpid \in Getters(pool)
    BY <1>1, <1>5, <1>7
<1>9. Units(pool) >= 1
    <2>1. Cardinality(Getters(pool)) # 0
        BY <1>7, <1>8, FS_EmptySet
    <2>2. sem[SemId(pool)].count \in Int
        BY <1>1 DEF PoolFacts, PoolTypes, SemRec
    <2> QED
        BY <1>7, <2>1, <2>2 DEF Units
<1>10. Free(pool) # {}
    <2>1. Units(pool) <= Cardinality(Free(pool)) /\ Units(pool) \in Nat /\ Cardinality(Free(pool)) \in Nat
        BY <1>1 DEF PoolFacts, UnitsOK
    <2>2. Cardinality(Free(pool)) # 0
        BY <1>9, <2>1
    <2> QED
        BY <2>2, FS_EmptySet
<1>11. /\ SamePools /\ ListsOK'
       /\ buftab' \in [PoolIds -> PoolRec] /\ word' \in [Addresses -> Nat]
       /\ inuse' \subseteq UNION {members[i] : i \in Pools}
       /\ \A i \in Pools : Cardinality(Free(i)') = IF i = pool THEN Cardinality(Free(i)) - 1
                                                   ELSE Cardinality(Free(i))
    BY <1>3, <1>10, UnlinkLists
<1>12. Pools' = Pools /\ \A i \in PoolIds : SemId(i)' = SemId(i)
    BY <1>11, SamePoolsKeep
<1>13. SemsOK' /\ sem' \in [Sem -> SemRec]
    BY <1>1, <1>3, <1>12 DEF PoolFacts, SemsOK, PoolTypes
<1>14. GettersOK'
    <2>1. GettersOK /\ Waiting' = Waiting /\ Waiting \subseteq Pid
        BY <1>1, <1>3 DEF PoolFacts, Waiting
    <2>2. ProcessorOK'
        BY <1>3, <2>1 DEF GettersOK, ProcessorOK
    <2>3. \A p \in Pid : cont'[p] # User => cont'[p].pool \in Pools'
        BY <1>4, <1>12, <2>1 DEF GettersOK
    <2>4. \A p \in Waiting' : cont'[p] # User
        BY <1>1, <1>4, <2>1 DEF GettersOK
    <2>5. \A i \in Pools : {p \in Waiting' : Getting(p, i)'} = {p \in Waiting : Getting(p, i)}
        BY <1>1, <1>6, <2>1
    <2>6. \A i \in Pools' : ToSet(sem'[SemId(i)'].queue) = {p \in Waiting' : Getting(p, i)'}
        BY <1>1, <1>3, <1>12, <2>1, <2>5 DEF GettersOK
    <2> QED
        BY <2>2, <2>3, <2>4, <2>6 DEF GettersOK
<1>15. \A i \in Pools : Units(i)' = IF i = pool THEN Units(i) - 1 ELSE Units(i)
    <2> TAKE i \in Pools
    <2>1. Getters(i)' = {p \in Running' : Getting(p, i)'} /\ Running' = Running /\ Running \subseteq Pid
        BY <1>3, GettersNext DEF Getting, Running
    <2>2. sem'[SemId(i)'].count = sem[SemId(i)].count
        BY <1>1, <1>3, <1>12
    <2>3. CASE i # pool
        <3>1. Getters(i)' = Getters(i)
            BY <1>5, <1>6, <1>7, <2>1, <2>3
        <3> QED
            BY <2>2, <2>3, <3>1, UnitsAre
    <2>4. CASE i = pool
        <3>1. Getters(i)' = Getters(i) \ {currpid}
            BY <1>6, <1>7, <2>1
        <3>2. Cardinality(Getters(i)') = Cardinality(Getters(i)) - 1
            BY <1>7, <1>8, <2>4, <3>1, FS_RemoveElement
        <3>3. sem[SemId(i)].count \in Int
            BY <1>1 DEF PoolFacts, PoolTypes, SemRec
        <3>4. PICK c \in Int, g \in Nat : c = sem[SemId(i)].count /\ g = Cardinality(Getters(i))
            BY <1>7, <3>3
        <3>5. Units(i) = UnitOf(c, Getters(i)) /\ Units(i)' = UnitOf(c, Getters(i)')
            BY <2>2, <3>4, UnitsAre
        <3> QED
            BY <2>4, <3>2, <3>4, <3>5 DEF UnitOf
    <2> QED
        BY <2>3, <2>4
<1>16. UnitsOK'
    <2>1. NoneKilled' => NoneKilled
        BY <1>3 DEF NoneKilled
    <2>2. \A i \in Pools : /\ Units(i)' = IF i = pool THEN Units(i) + (-1) ELSE Units(i)
                           /\ Cardinality(Free(i)') = IF i = pool THEN Cardinality(Free(i)) + (-1)
                                                      ELSE Cardinality(Free(i))
        <3> TAKE i \in Pools
        <3>1. PICK u \in Nat, f \in Nat : u = Units(i) /\ f = Cardinality(Free(i))
            BY <1>1 DEF PoolFacts
        <3>2. u + (-1) = u - 1 /\ f + (-1) = f - 1
            OBVIOUS
        <3> QED
            BY <1>11, <1>15, <3>1, <3>2
    <2> QED
        BY <1>1, <1>12, <2>1, <2>2, UnitsStep
<1> QED
    BY <1>4, <1>11, <1>13, <1>14, <1>16, PoolStep

(* The pool that freebuf finds is the buffer's own: a free buffer names none. *)
LEMMA OwnPool ==
    ASSUME PoolInv, NEW j \in Pools, NEW buf \in members[j], word[buf] # 0 \/ buf \in inuse, word[buf] \in Pools
    PROVE  buf \in inuse /\ word[buf] = j
<1>1. \A i \in Pools : OwnList(i, members, inuse, buftab, word)
    BY ListsFrom DEF PoolInv
<1>2. \A i \in Pools : i \in Nat /\ i < minheap
    BY PoolIdsAre DEF PoolInv
<1>3. CASE buf \notin inuse
    <2>1. PICK l : Listed(l, members[j] \ inuse, buftab[j].bpnext, word)
        BY <1>1 DEF OwnList
    <2>2. PICK free, first, words : free = members[j] \ inuse /\ first = buftab[j].bpnext /\ words = word
        OBVIOUS
    <2>3. Listed(l, free, first, words) /\ buf \in free
        BY <1>3, <2>1, <2>2
    <2>4. words[buf] = 0 \/ (words[buf] \in Nat /\ words[buf] >= minheap)
        BY ONLY <2>3, ListedWord
    <2>5. minheap \in Nat
        BY MemoryAssumption
    <2> QED
        BY <1>2, <1>3, <2>2, <2>4, <2>5
<1> QED
    BY <1>1, <1>3 DEF OwnList

LEMMA FreeBufKeeps ==
    ASSUME PoolInv, NEW buf, MayFree(buf), FreeBuf(buf)
    PROVE  PoolInv'
<1>1. /\ PoolFacts /\ currpid \in Pid /\ currpid \in Running /\ currpid \notin Waiting
      /\ cont \in [Pid -> {User} \cup Gettings] /\ sem \in [Sem -> SemRec]
      /\ Pools \subseteq PoolIds
    BY FactsOf DEF PoolFacts, FreeBuf, InUser, PoolTypes
<1>2. PICK j \in Pools : buf \in members[j]
    BY DEF MayFree
<1>3. PICK pool \in Pools : pool = word[buf] /\ pool = j /\ buf \in inuse
    <2>1. (word[buf] # 0 \/ buf \in inuse) /\ word[buf] \in Pools
        BY DEF MayFree, FreeBuf, PoolOf
    <2> QED
        BY <1>2, <2>1, OwnPool
<1>4. PICK s \in Sem : s = SemId(pool) /\ s = buftab[pool].bpsem
    BY <1>1 DEF PoolFacts, SemId
<1>5. /\ word' = [word EXCEPT ![buf] = buftab[pool].bpnext]
      /\ buftab' = [buftab EXCEPT ![pool].bpnext = buf]
      /\ inuse' = inuse \ {buf} /\ UNCHANGED <<cont, nbpools, members, memVars>>
      /\ sem' = Up(sem, s) /\ Resched(First(sem, s))
    BY <1>3, <1>4 DEF FreeBuf, PoolOf
<1>6. /\ SamePools /\ ListsOK'
      /\ buftab' \in [PoolIds -> PoolRec] /\ word' \in [Addresses -> Nat]
      /\ inuse' \subseteq UNION {members[i] : i \in Pools}
      /\ \A i \in Pools : Cardinality(Free(i)') = IF i = pool THEN Cardinality(Free(i)) + 1
                                                  ELSE Cardinality(Free(i))
    BY <1>2, <1>3, <1>5, RelinkLists
<1>7. Pools' = Pools /\ \A i \in PoolIds : SemId(i)' = SemId(i)
    BY <1>6, SamePoolsKeep
<1>8. sem[s] \in SemRec /\ sem[s].count \in Int /\ Balanced(sem[s])
    BY <1>1 DEF SemRec, PoolFacts, SemsOK
<1>9. sem[s].count < 0 => sem[s].queue # <<>>
    BY <1>8 DEF Balanced
<1>10. /\ sem' \in [Sem -> SemRec] /\ (\A t \in Sem \ {s} : sem'[t] = sem[t])
       /\ sem'[s].used = sem[s].used /\ sem'[s].count = sem[s].count + 1
    <2> DEFINE up == Up(sem, s)
    <2>1. /\ up \in [Sem -> SemRec] /\ \A t \in Sem \ {s} : up[t] = sem[t]
          /\ up[s].used = sem[s].used /\ up[s].count = sem[s].count + 1
        BY ONLY <1>1, <1>9, UpEntry
    <2> HIDE DEF up
    <2>2. sem' = up
        BY <1>5 DEF up
    <2> QED
        BY <2>1, <2>2
<1>11. PICK woken : /\ woken = First(sem, s) /\ woken \subseteq ToSet(sem[s].queue)
                    /\ woken = IF sem[s].count < 0 THEN {Head(sem[s].queue)} ELSE {}
    BY <1>1, <1>8, UpBalanced
<1>12. Balanced(sem'[s]) /\ ToSet(sem'[s].queue) = ToSet(sem[s].queue) \ woken
    BY <1>1, <1>5, <1>8, <1>11, UpBalanced
<1>13. \A i \in Pools : ToSet(sem[SemId(i)].queue) = {p \in Waiting : Getting(p, i)}
    BY <1>1 DEF PoolFacts, GettersOK
<1>14. woken \subseteq Waiting /\ \A p \in woken : Getting(p, pool)
    BY <1>4, <1>11, <1>13
<1>15. Moves(Waiting \ woken, Running \cup woken)
    BY <1>1, <1>5, <1>11, <1>14, ReschedMoves DEF PoolFacts
<1>16. /\ ProcessorOK' /\ Waiting' = Waiting \ woken /\ Running' = Running \cup woken
       /\ NoneKilled' <=> Pid \subseteq (Waiting \ woken) \cup (Running \cup woken)
    BY <1>15, MovesFacts
<1>17. SemsOK'
    BY <1>1, <1>6, <1>10, <1>12, SemStep
<1>18. \A i \in Pools : i # pool => SemId(i) # s /\ SemId(i) \in Sem
    BY <1>1, <1>4 DEF PoolFacts, SemsOK
<1>19. \A i, p : Getting(p, i)' <=> Getting(p, i)
    BY <1>5 DEF Getting
<1>20. \A i \in Pools, p \in woken : i # pool => ~Getting(p, i)
    BY <1>14 DEF Getting
<1>21. GettersOK'
    <2>1. GettersOK /\ Waiting \subseteq Pid
        BY <1>1 DEF PoolFacts, Waiting
    <2>2. \A p \in Pid : cont'[p] # User => cont'[p].pool \in Pools'
        BY <1>5, <1>7, <2>1 DEF GettersOK
    <2>3. \A p \in Waiting' : cont'[p] # User
        BY <1>5, <1>16, <2>1 DEF GettersOK
    <2>4. ASSUME NEW i \in Pools PROVE ToSet(sem'[SemId(i)].queue) = {p \in Waiting' : Getting(p, i)'}
        <3>1. CASE i = pool
            BY <1>4, <1>12, <1>13, <1>16, <1>19, <3>1
        <3>2. CASE i # pool
            <4>1. sem'[SemId(i)] = sem[SemId(i)]
                BY <1>10, <1>18, <3>2
            <4>2. {p \in Waiting' : Getting(p, i)'} = {p \in Waiting : Getting(p, i)}
                BY <1>16, <1>19, <1>20, <3>2
            <4> QED
                BY <1>13, <4>1, <4>2
        <3> QED
            BY <3>1, <3>2
    <2>5. \A i \in Pools' : ToSet(sem'[SemId(i)'].queue) = {p \in Waiting' : Getting(p, i)'}
        BY <1>1, <1>7, <2>4
    <2> QED
        BY <1>16, <2>2, <2>3, <2>5 DEF GettersOK
<1>22. \A i \in Pools : IsFiniteSet(Getters(i)) /\ Getters(i) = {p \in Running : Getting(p, i)}
                        /\ Cardinality(Getters(i)) \in Nat
    BY <1>1, GettersAre, FS_CardinalityType DEF PoolFacts
<1>23. \A i \in Pools : Units(i)' = IF i = pool THEN Units(i) + 1 ELSE Units(i)
    <2> TAKE i \in Pools
    <2>1. Getters(i)' = {p \in Running' : Getting(p, i)'}
        BY GettersNext DEF Getting
    <2>2. CASE i # pool
        <3>1. Getters(i)' = Getters(i)
            BY <1>16, <1>19, <1>20, <1>22, <2>1, <2>2
        <3>2. sem'[SemId(i)'].count = sem[SemId(i)].count
            BY <1>1, <1>7, <1>10, <1>18, <2>2
        <3> QED
            BY <2>2, <3>1, <3>2, UnitsAre
    <2>3. CASE i = pool
        <3>1. Getters(i)' = Getters(i) \cup woken
            BY <1>14, <1>16, <1>19, <1>22, <2>1, <2>3
        <3>2. SemId(i) = s /\ SemId(i)' = s
            BY <1>1, <1>4, <1>7, <2>3
        <3>3. PICK c \in Int, g \in Nat : c = sem[s].count /\ g = Cardinality(Getters(i))
            BY <1>8, <1>22
        <3>4. Units(i) = UnitOf(c, Getters(i)) /\ Units(i)' = UnitOf(c + 1, Getters(i)')
            BY <1>10, <3>2, <3>3, UnitsAre
        <3>5. CASE c < 0
            <4>1. PICK p : woken = {p}
                BY <1>11, <3>3, <3>5
            <4>2. p \notin Getters(i)
                BY <1>1, <1>14, <1>22, <4>1 DEF PoolFacts, Running
            <4>3. Cardinality(Getters(i)') = g + 1
                BY <1>22, <3>1, <3>3, <4>1, <4>2, FS_AddElement
            <4> QED
                BY <2>3, <3>3, <3>4, <3>5, <4>3 DEF UnitOf
        <3>6. CASE ~(c < 0)
            <4>1. Getters(i)' = Getters(i)
                BY <1>11, <3>1, <3>3, <3>6
            <4> QED
                BY <2>3, <3>3, <3>4, <3>6, <4>1 DEF UnitOf
        <3> QED
            BY <3>5, <3>6
    <2> QED
        BY <2>2, <2>3
<1>24. UnitsOK'
    <2>1. NoneKilled' => NoneKilled
        <3>1. NoneKilled <=> Pid \subseteq Waiting \cup Running
            BY <1>1, Alive DEF PoolFacts
        <3> QED
            BY <1>14, <1>16, <3>1
    <2> QED
        BY <1>1, <1>6, <1>7, <1>23, <2>1, UnitsStep
<1> QED
    BY <1>1, <1>5, <1>6, <1>10, <1>17, <1>21, <1>24, PoolStep

(* A step that leaves the pools alone. *)
LEMMA ListsSame ==
    ASSUME PoolInv, UNCHANGED <<poolVars, memVars>>
    PROVE  /\ SamePools /\ ListsOK' /\ Pools' = Pools /\ Pools \subseteq PoolIds
           /\ \A i \in PoolIds : SemId(i)' = SemId(i)
           /\ \A i : Free(i)' = Free(i)
           /\ buftab' \in [PoolIds -> PoolRec] /\ word' \in [Addresses -> Nat]
           /\ inuse' \subseteq UNION {members[i] : i \in Pools}
<1>1. SamePools /\ UNCHANGED <<nbpools, buftab, word, inuse, members>>
    BY DEF SamePools, poolVars
<1>2. Pools' = Pools /\ Pools \subseteq PoolIds /\ \A i \in PoolIds : SemId(i)' = SemId(i)
    BY <1>1, SamePoolsKeep, PoolIdsAre DEF PoolInv
<1>3. ListsOK'
    <2>1. ListsOK
        BY DEF PoolInv
    <2> QED
        BY <1>1, <1>2, <2>1 DEF ListsOK, Chain, Free
<1> QED
    BY <1>1, <1>2, <1>3 DEF Free, PoolInv, PoolTypes

LEMMA PreemptPools ==
    ASSUME PoolInv, PoolPreempt
    PROVE  PoolInv'
<1>1. PoolFacts /\ currpid \in Pid
    BY FactsOf DEF PoolFacts, PoolPreempt, InUser
<1>2. Moves(Waiting, Running) /\ cont' = cont /\ sem' = sem /\ UNCHANGED <<poolVars, memVars>>
    BY <1>1, PreemptMoves DEF PoolPreempt, PoolFacts, Preempted
<1>3. ProcessorOK' /\ Waiting' = Waiting /\ Running' = Running /\ (NoneKilled' <=> Pid \subseteq Waiting \cup Running)
    BY <1>2, MovesFacts
<1>4. /\ SamePools /\ ListsOK' /\ Pools' = Pools /\ Pools \subseteq PoolIds
      /\ \A i \in PoolIds : SemId(i)' = SemId(i)
      /\ \A i : Free(i)' = Free(i)
      /\ buftab' \in [PoolIds -> PoolRec] /\ word' \in [Addresses -> Nat]
      /\ inuse' \subseteq UNION {members[i] : i \in Pools}
    BY <1>2, ListsSame
<1>5. cont' \in [Pid -> {User} \cup Gettings] /\ sem' \in [Sem -> SemRec]
    BY <1>1, <1>2 DEF PoolFacts, PoolTypes
<1>6. SemsOK'
    BY <1>1, <1>2, <1>4 DEF PoolFacts, SemsOK
<1>7. GettersOK'
    <2>1. \A i \in Pools : {p \in Waiting' : Getting(p, i)'} = {p \in Waiting : Getting(p, i)}
        BY <1>2, <1>3 DEF Getting
    <2>2. \A i \in Pools' : ToSet(sem'[SemId(i)'].queue) = {p \in Waiting' : Getting(p, i)'}
        BY <1>1, <1>2, <1>4, <2>1 DEF GettersOK, PoolFacts
    <2> QED
        BY <1>1, <1>2, <1>3, <1>4, <2>2 DEF GettersOK, PoolFacts
<1>8. \A i \in Pools : Units(i)' = Units(i)
    <2> TAKE i \in Pools
    <2>1. Getters(i)' = Getters(i) /\ sem'[SemId(i)'].count = sem[SemId(i)].count
        BY <1>1, <1>2, <1>3, <1>4, GettersNext, GettersAre DEF Getting, PoolFacts
    <2> QED
        BY <2>1, UnitsAre
<1>9. UnitsOK'
    <2>1. NoneKilled' => NoneKilled
        BY <1>1, <1>3, Alive DEF PoolFacts
    <2> QED
        BY <1>1, <1>4, <1>8, <2>1 DEF UnitsOK, PoolFacts
<1> QED
    BY <1>4, <1>5, <1>6, <1>7, <1>9, PoolStep

(* kill may take a unit away from a pool, never add one. *)
LEMMA KillPools ==
    ASSUME PoolInv, NEW p \in Pid, PoolKill(p)
    PROVE  PoolInv'
<1>1. /\ PoolFacts /\ KillTask(p) /\ UNCHANGED <<poolVars, memVars>>
      /\ cont \in [Pid -> {User} \cup Gettings] /\ sem \in [Sem -> SemRec]
      /\ \A s \in Sem : Balanced(sem[s])
    BY FactsOf DEF PoolFacts, PoolKill, PoolTypes, SemsOK
<1>2. Moves(Waiting \ {p}, Running \ {p}) /\ cont' = [cont EXCEPT ![p] = User]
    BY <1>1, KillMoves DEF PoolFacts, KillTask
<1>3. /\ ProcessorOK' /\ Waiting' = Waiting \ {p} /\ Running' = Running \ {p}
      /\ NoneKilled' <=> Pid \subseteq (Waiting \ {p}) \cup (Running \ {p})
    BY <1>2, MovesFacts
<1>4. /\ SamePools /\ ListsOK' /\ Pools' = Pools /\ Pools \subseteq PoolIds
      /\ \A i \in PoolIds : SemId(i)' = SemId(i)
      /\ \A i : Free(i)' = Free(i)
      /\ buftab' \in [PoolIds -> PoolRec] /\ word' \in [Addresses -> Nat]
      /\ inuse' \subseteq UNION {members[i] : i \in Pools}
    BY <1>1, ListsSame
<1>5. /\ cont' \in [Pid -> {User} \cup Gettings]
      /\ \A q \in Pid : cont'[q] = IF q = p THEN User ELSE cont[q]
    BY <1>1, <1>2
<1>6. /\ \A s \in Sem : p \in ToSet(sem[s].queue) =>
            sem'[s] = [used |-> sem[s].used, count |-> sem[s].count + 1,
                       queue |-> GetItem(sem[s].queue, p)]
      /\ \A s \in Sem : p \notin ToSet(sem[s].queue) => sem'[s] = sem[s]
      /\ DOMAIN sem' = Sem /\ sem' = [s \in Sem |-> sem'[s]]
    BY <1>1, KillEntries
<1>7. ASSUME NEW s \in Sem
      PROVE  /\ sem'[s] \in SemRec /\ Balanced(sem'[s]) /\ sem'[s].used = sem[s].used
             /\ ToSet(sem'[s].queue) = ToSet(sem[s].queue) \ {p}
             /\ sem'[s].count = sem[s].count \/ (sem[s].count <= 0 /\ sem'[s].count <= 0)
    <2>1. CASE p \notin ToSet(sem[s].queue)
        BY <1>1, <1>6, <2>1
    <2>2. CASE p \in ToSet(sem[s].queue)
        <3>1. PICK e, f : e = sem[s] /\ f = sem'[s] /\ e \in SemRec
            BY <1>1
        <3>2. /\ Balanced(e) /\ p \in ToSet(e.queue)
              /\ f = [used |-> e.used, count |-> e.count + 1, queue |-> GetItem(e.queue, p)]
            BY <1>1, <1>6, <2>2, <3>1
        <3>3. /\ f \in SemRec /\ Balanced(f) /\ f.used = e.used
              /\ ToSet(f.queue) = ToSet(e.queue) \ {p}
              /\ e.count < 0 /\ f.count <= 0
            BY ONLY <3>2, <3>1, LeftEntry
        <3>4. e.count <= 0
            BY <3>1, <3>3 DEF SemRec
        <3> QED
            BY <3>1, <3>3, <3>4
    <2> QED
        BY <2>1, <2>2
<1>8. sem' \in [Sem -> SemRec]
    BY <1>6, <1>7
<1>9. SemsOK'
    <2>1. \A s \in Sem : Balanced(sem'[s]) /\ sem'[s].used = sem[s].used
        BY <1>7
    <2> QED
        BY <1>1, <1>4, <2>1 DEF PoolFacts, SemsOK
<1>10. \A i \in Pools, q \in Pid : Getting(q, i)' <=> q # p /\ Getting(q, i)
    BY <1>5 DEF Getting, User
<1>11. GettersOK'
    <2>1. GettersOK /\ Waiting \subseteq Pid
        BY <1>1 DEF PoolFacts, Waiting
    <2>2. \A q \in Pid : cont'[q] # User => cont'[q].pool \in Pools'
        BY <1>4, <1>5, <2>1 DEF GettersOK
    <2>3. \A q \in Waiting' : cont'[q] # User
        BY <1>3, <1>5, <2>1 DEF GettersOK
    <2>4. ASSUME NEW i \in Pools PROVE ToSet(sem'[SemId(i)].queue) = {q \in Waiting' : Getting(q, i)'}
        <3>1. SemId(i) \in Sem /\ ToSet(sem[SemId(i)].queue) = {q \in Waiting : Getting(q, i)}
            BY <1>1, <2>1 DEF PoolFacts, GettersOK
        <3>2. ToSet(sem'[SemId(i)].queue) = ToSet(sem[SemId(i)].queue) \ {p}
            BY <1>7, <3>1
        <3>3. {q \in Waiting' : Getting(q, i)'} = {q \in Waiting : Getting(q, i)} \ {p}
            BY <1>3, <1>10, <2>1
        <3> QED
            BY <3>1, <3>2, <3>3
    <2>5. \A i \in Pools' : ToSet(sem'[SemId(i)'].queue) = {q \in Waiting' : Getting(q, i)'}
        BY <1>4, <2>4
    <2> QED
        BY <1>3, <2>2, <2>3, <2>5 DEF GettersOK
<1>12. \A i \in Pools : Units(i)' <= Units(i)
    <2> TAKE i \in Pools
    <2>1. /\ IsFiniteSet(Getters(i)) /\ Getters(i) = {q \in Running : Getting(q, i)} /\ Running \subseteq Pid
          /\ SemId(i) \in Sem /\ SemId(i)' = SemId(i)
        BY <1>1, <1>4, GettersAre DEF PoolFacts, Running
    <2>2. Getters(i)' \subseteq Getters(i)
        <3>1. Getters(i)' = {q \in Running' : Getting(q, i)'}
            BY GettersNext DEF Getting
        <3> QED
            BY <1>3, <1>10, <2>1, <3>1
    <2>3. PICK S, G : S = Getters(i) /\ G = Getters(i)'
        OBVIOUS
    <2>4. Cardinality(G) <= Cardinality(S) /\ Cardinality(G) \in Nat /\ Cardinality(S) \in Nat
        BY <2>1, <2>2, <2>3, FS_Subset, FS_CardinalityType
    <2>5. PICK c \in Int, d \in Int : c = sem[SemId(i)].count /\ d = sem'[SemId(i)].count
        BY <1>1, <1>8, <2>1 DEF SemRec
    <2>6. Units(i) = UnitOf(c, S) /\ Units(i)' = UnitOf(d, G)
        BY <2>1, <2>3, <2>5, UnitsAre
    <2>7. d = c \/ (c <= 0 /\ d <= 0)
        BY <1>7, <2>1, <2>5
    <2> QED
        BY <2>4, <2>6, <2>7 DEF UnitOf
<1>13. UnitsOK'
    <2>1. ~NoneKilled'
        BY <1>3
    <2>2. ASSUME NEW i \in Pools PROVE Units(i)' <= Cardinality(Free(i)')
        <3>1. Units(i) <= Cardinality(Free(i)) /\ Units(i) \in Nat /\ Cardinality(Free(i)) \in Nat
            BY <1>1 DEF PoolFacts, UnitsOK
        <3>2. Units(i)' \in Int
            <4>1. SemId(i) \in Sem /\ SemId(i)' = SemId(i) /\ sem'[SemId(i)].count \in Int
                BY <1>1, <1>4, <1>8 DEF PoolFacts, SemRec
            <4>2. Getters(i)' \subseteq Pid /\ IsFiniteSet(Pid)
                BY <1>1, GettersNext DEF PoolFacts, Running
            <4>3. Cardinality(Getters(i)') \in Nat
                BY <4>2, FS_Subset, FS_CardinalityType
            <4> QED
                BY <4>1, <4>3, UnitsAre DEF UnitOf
        <3> QED
            BY <1>4, <1>12, <3>1, <3>2
    <2> QED
        BY <1>4, <2>1, <2>2 DEF UnitsOK
<1> QED
    BY <1>4, <1>5, <1>8, <1>9, <1>11, <1>13, PoolStep

(* mkbufpool without a semaphore: the memory goes back. *)
LEMMA NoPool ==
    ASSUME PoolInv, NEW bytes \in 1..(WORD - MB), GetMem(heap, bytes).at # NoMem,
           nbpools < NBPOOLS, NEW size \in Nat,
           heap' = FreeMem(GetMem(heap, bytes).heap, GetMem(heap, bytes).at, bytes).heap,
           buftab' = [buftab EXCEPT ![nbpools] =
                        [bpnext |-> GetMem(heap, bytes).at, bpsize |-> size, bpsem |-> None]],
           UNCHANGED <<sem, held, asked, nbpools, word, inuse, members, procVars, cont, stacks, lost>>
    PROVE  PoolInv'
<1>1. PoolFacts /\ PoolTypes /\ MemInv /\ nbpools \in PoolIds /\ nbpools \notin Pools /\ Pools \subseteq PoolIds
    <2>1. PoolFacts /\ PoolTypes /\ MemInv
        BY FactsOf DEF PoolFacts
    <2>2. nbpools \in 0..NBPOOLS /\ NBPOOLS \in Nat
        BY <2>1, BufAssumption DEF PoolTypes
    <2> QED
        BY <2>1, <2>2 DEF PoolIds, Pools
<1>2. MemInv'
    <2>1. /\ MemInv /\ bytes \in 1..(WORD - MB) /\ GetMem(heap, bytes).at # NoMem
          /\ heap' = FreeMem(GetMem(heap, bytes).heap, GetMem(heap, bytes).at, bytes).heap
          /\ UNCHANGED <<held, stacks, lost, asked>>
        BY <1>1
    <2> QED
        BY ONLY <2>1, UndoneMemInv
<1>3. UNCHANGED <<sem, held, nbpools, word, inuse, members, currpid, prstate, cont>>
    BY DEF procVars
<1>4. bytes \in 1..(WORD - 1) /\ GetMem(heap, bytes).at \in Nat
    <2>1. bytes \in 1..(WORD - 1)
        BY MemoryAssumption
    <2> QED
        BY <1>1, <2>1, GrantApart
<1>5. PICK at \in Nat : at = GetMem(heap, bytes).at
    BY <1>4
<1>6. buftab' \in [PoolIds -> PoolRec] /\ \A i \in Pools : buftab'[i] = buftab[i]
    <2>1. buftab' = [buftab EXCEPT ![nbpools] = [bpnext |-> at, bpsize |-> size, bpsem |-> None]]
        BY <1>5
    <2>2. buftab \in [PoolIds -> PoolRec] /\ [bpnext |-> at, bpsize |-> size, bpsem |-> None] \in PoolRec
        BY <1>1 DEF PoolTypes, PoolRec
    <2> QED
        BY <1>1, <2>1, <2>2
<1>7. Pools' = Pools /\ \A i \in Pools : SemId(i)' = SemId(i) /\ Free(i)' = Free(i) /\ Getters(i)' = Getters(i)
    BY <1>3, <1>6 DEF Pools, SemId, Free, Getters
<1>8. PoolTypes'
    BY <1>1, <1>3, <1>6, <1>7 DEF PoolTypes
<1>9. SemsOK' /\ PoolsInHeap'
    BY <1>1, <1>3, <1>6, <1>7 DEF PoolFacts, SemsOK, PoolsInHeap
<1>10. GettersOK'
    <2>1. Waiting' = Waiting /\ \A p, i : Getting(p, i)' <=> Getting(p, i)
        BY <1>3 DEF Waiting, Getting
    <2> QED
        BY <1>1, <1>3, <1>7, <2>1 DEF PoolFacts, GettersOK, ProcessorOK
<1>11. ListsOK'
    <2>1. ListsOK
        BY <1>1 DEF PoolFacts
    <2> QED
        BY <1>3, <1>6, <1>7, <2>1 DEF ListsOK, Chain, Free
<1>12. UnitsOK'
    <2>1. \A i \in Pools : Units(i)' = Units(i)
        BY <1>3, <1>7, UnitsAre
    <2>2. UnitsOK
        BY <1>1 DEF PoolFacts
    <2> QED
        BY <1>3, <1>7, <2>1, <2>2 DEF UnitsOK, NoneKilled
<1> QED
    BY <1>2, <1>8, <1>9, <1>10, <1>11, <1>12 DEF PoolInv

(* The block that a pool is made of holds its buffers and nothing else. *)
NewRow(row, at, st, k, n) ==
    /\ InRow(row, at, st, k) /\ at \in Nat /\ n \in Nat /\ st \in Nat /\ k * st <= n
    /\ \A b \in held : Run(b.at, b.len) \cap Run(at, n) = {}

(* What is aligned for the heap is aligned for words. *)
LEMMA WordAligned ==
    ASSUME NEW n \in Nat, n % MB = 0
    PROVE  n % UINT = 0
<1>1. MB \in Nat \ {0} /\ UINT \in Nat \ {0} /\ MB % UINT = 0
    BY MemoryAssumption
<1>2. PICK q \in Nat, r \in 0..(MB - 1) : n = MB * q + r /\ n % MB = r
    BY ONLY <1>1, n \in Nat, Quotient
<1>3. MB \in Nat
    BY <1>1
<1>4. PICK k \in Nat, l \in 0..(UINT - 1) : MB = UINT * k + l /\ MB % UINT = l
    BY ONLY <1>1, <1>3, Quotient
<1>5. n = MB * q /\ MB = UINT * k
    BY <1>1, <1>2, <1>4
<1>6. k * q \in Nat /\ 0 \in 0..(UINT - 1) /\ UINT \in Nat \ {0}
    BY <1>1
<1>7. (UINT * (k * q) + 0) % UINT = 0
    BY ONLY <1>6, MulMod
<1>8. n = UINT * (k * q) + 0
    BY <1>5, <1>6
<1> QED
    BY <1>7, <1>8

LEMMA NewRowFacts ==
    ASSUME MemInv, NEW bufsiz \in BP_MINB..BP_MAXB, NEW numbufs \in 1..BP_MAXN,
           NEW bytes \in 1..(WORD - MB), bytes = numbufs * Stride(bufsiz), GetMem(heap, bytes).at # NoMem
    PROVE  NewRow(Row(GetMem(heap, bytes).at, bufsiz, numbufs),
                  GetMem(heap, bytes).at, Stride(bufsiz), numbufs, roundmb(bytes))
<1> DEFINE at == GetMem(heap, bytes).at
           st == Stride(bufsiz)
           n  == roundmb(bytes)
<1>1. bytes \in 1..(WORD - 1) /\ bytes \in 0..(WORD - 1) /\ bytes # 0 /\ ~(bytes > WORD - MB)
      /\ numbufs \in Nat \ {0}
    BY MemoryAssumption, BufAssumption
<1>2. at \in Nat /\ Taken(heap, GetMem(heap, bytes).heap, at, n)
      /\ \A b \in held : Run(b.at, b.len) \cap Run(at, n) = {}
    BY <1>1, GrantApart
<1>3. n \in Nat /\ n >= bytes
    BY <1>1, Roundmb, MemoryAssumption
<1>4. st \in Nat \ {0} /\ st % UINT = 0
    BY StrideFacts
<1> HIDE DEF at, st, n
<1>5. at % UINT = 0 /\ minheap <= at /\ at + n <= maxheap
    <2>1. at % MB = 0 /\ minheap <= at /\ at + n <= maxheap
        BY <1>2 DEF Taken, Aligned
    <2> QED
        BY <1>2, <2>1, WordAligned
<1>6. numbufs * st <= n /\ at + numbufs * st <= maxheap
    <2>1. bytes = numbufs * st
        BY DEF st
    <2> QED
        BY <1>1, <1>2, <1>3, <1>5, <2>1, MemoryAssumption
<1>7. InRow(Row(at, bufsiz, numbufs), at, st, numbufs)
    <2>1. st = Stride(bufsiz)
        BY DEF st
    <2> QED
        BY <1>1, <1>2, <1>4, <1>5, <1>6, <2>1, RowFacts
<1> QED
    BY <1>2, <1>3, <1>4, <1>6, <1>7 DEF NewRow, at, st, n

(* mkbufpool with a semaphore: a new pool, all of whose buffers are free. *)
LEMMA NewPoolKeeps ==
    ASSUME PoolInv, NEW bufsiz \in BP_MINB..BP_MAXB, NEW numbufs \in 1..BP_MAXN,
           NEW bytes \in 1..(WORD - MB), bytes = numbufs * Stride(bufsiz),
           NEW at \in Nat, at = GetMem(heap, bytes).at, at # NoMem, nbpools < NBPOOLS, NEW s \in Unused,
           heap' = GetMem(heap, bytes).heap, held' = held \cup {Grant(at, bytes)},
           asked' = [cells |-> Cells(roundmb(bytes)), met |-> TRUE],
           NewPool(at, bufsiz, numbufs, s), UNCHANGED <<procVars, cont, stacks, lost>>
    PROVE  PoolInv'
<1> DEFINE row == Row(at, bufsiz, numbufs)
           st  == Stride(bufsiz)
           n   == roundmb(bytes)
<1>1. /\ PoolFacts /\ PoolTypes /\ MemInv /\ PoolsInHeap /\ Pools \subseteq PoolIds
      /\ nbpools \in PoolIds /\ nbpools \notin Pools
    BY FactsOf, BufAssumption, SMTT(30) DEF PoolFacts, PoolTypes, PoolIds, Pools
<1>2. MemInv'
    <2>1. bytes \in 1..(WORD - 1)
        BY MemoryAssumption
    <2> QED
        BY <1>1, <2>1, GrantMemInv
<1>3. NewRow(row, at, st, numbufs, n)
    BY <1>1, NewRowFacts
<1>4. /\ st = Stride(bufsiz) /\ st = roundew(bufsiz) + UINT /\ roundew(bufsiz) \in Nat /\ st \in Nat \ {0}
      /\ numbufs \in Nat \ {0} /\ UINT \in Nat
    BY StrideFacts, BufAssumption, MemoryAssumption
<1>5. /\ sem' = [sem EXCEPT ![s] = NewSem(numbufs)]
      /\ buftab' = [buftab EXCEPT ![nbpools] = [bpnext |-> at, bpsize |-> roundew(bufsiz), bpsem |-> s]]
      /\ word' = Linked(row, bufsiz) /\ members' = [members EXCEPT ![nbpools] = ToSet(row)]
      /\ nbpools' = nbpools + 1 /\ inuse' = inuse
      /\ currpid' = currpid /\ prstate' = prstate /\ cont' = cont
    BY DEF NewPool, Row, procVars
<1>6. Grant(at, bytes).at = at /\ Grant(at, bytes).len = n
    BY DEF Grant
<1>7. s \in Sem /\ ~sem[s].used
    BY DEF Unused
<1> HIDE DEF row, st, n
<1>8. /\ InRow(row, at, st, numbufs) /\ n \in Nat /\ numbufs * st <= n
      /\ \A b \in held : Run(b.at, b.len) \cap Run(at, n) = {}
    BY <1>3 DEF NewRow
<1>9. /\ row \in Seq(Addresses) /\ Len(row) = numbufs /\ DOMAIN row = 1..numbufs
      /\ \A i \in 1..numbufs : at <= row[i] /\ row[i] + st <= at + numbufs * st /\ row[i] \in Addresses
    <2>1. /\ row \in Seq(Addresses) /\ Len(row) = numbufs
          /\ \A i \in 1..numbufs : at <= row[i] /\ row[i] + st <= at + numbufs * st
        BY <1>8 DEF InRow
    <2>2. DOMAIN row = 1..numbufs
        BY <2>1
    <2>3. \A i \in 1..numbufs : row[i] \in Addresses
        BY <2>1
    <2> QED
        BY <2>1, <2>2, <2>3
<1>10. /\ Linked(row, bufsiz) \in [Addresses -> Nat]
       /\ \A a \in Addresses \ ToSet(row) : Linked(row, bufsiz)[a] = word[a]
       /\ Listed(row, ToSet(row), at, Linked(row, bufsiz))
    <2>1. word \in [Addresses -> Nat] /\ InRow(row, at, st, numbufs) /\ st = Stride(bufsiz)
          /\ numbufs \in Nat \ {0} /\ st \in Nat \ {0} /\ at \in Nat
        BY <1>1, <1>4, <1>8 DEF PoolTypes
    <2> QED
        BY ONLY <2>1, LinkedRow
<1>11. ToSet(row) \subseteq Addresses /\ ToSet(row) # {} /\ \A x \in ToSet(row) : \E i \in 1..numbufs : x = row[i]
    <2>1. 1 \in 1..numbufs
        BY <1>4
    <2> QED
        BY <1>9, <2>1 DEF ToSet
<1>12. \A buf \in ToSet(row) : buf \in Nat /\ at <= buf /\ buf + st <= at + n
    <2> TAKE buf \in ToSet(row)
    <2>1. PICK i \in 1..numbufs : buf = row[i]
        BY <1>11
    <2>2. PICK l \in Nat : l = numbufs * st
        BY <1>4
    <2>3. buf \in Nat
        BY <1>11, NullNoAddress
    <2>4. at <= row[i] /\ row[i] + st <= at + l /\ l <= n
        BY <1>8, <1>9, <2>2
    <2> QED
        BY <1>4, <1>8, <2>1, <2>3, <2>4
<1>13. \A i \in Pools : members[i] \cap ToSet(row) = {}
    <2> SUFFICES ASSUME NEW i \in Pools, NEW buf \in members[i], buf \in ToSet(row) PROVE FALSE
        OBVIOUS
    <2>1. PICK b \in held : b.at <= buf /\ buf + UINT + buftab[i].bpsize <= b.at + b.len
        BY <1>1 DEF PoolsInHeap
    <2>2. b.at \in Nat /\ b.len \in Nat /\ buftab[i].bpsize \in Nat
        BY <1>1 DEF MemInv, MemTypes, PoolTypes, PoolRec
    <2>3. UINT \in Nat \ {0}
        BY MemoryAssumption
    <2>4. buf \in Run(b.at, b.len)
        BY <1>12, <2>1, <2>2, <2>3 DEF Run
    <2>5. buf \in Run(at, n)
        BY <1>4, <1>8, <1>12 DEF Run
    <2> QED
        BY <1>8, <2>4, <2>5
<1>14. Pools' = Pools \cup {nbpools}
    <2>1. nbpools \in Nat
        BY <1>1 DEF PoolIds
    <2> QED
        BY <1>5, <2>1 DEF Pools
<1>15. Pools' \subseteq PoolIds
    BY <1>1, <1>14
<1>16. /\ \A i \in Pools : buftab'[i] = buftab[i] /\ members'[i] = members[i]
       /\ buftab'[nbpools].bpnext = at /\ buftab'[nbpools].bpsize = roundew(bufsiz) /\ buftab'[nbpools].bpsem = s
       /\ members'[nbpools] = ToSet(row)
       /\ buftab' \in [PoolIds -> PoolRec] /\ members' \in [PoolIds -> SUBSET Addresses]
    <2>1. [bpnext |-> at, bpsize |-> roundew(bufsiz), bpsem |-> s] \in PoolRec
        BY <1>4, <1>7 DEF PoolRec
    <2>2. buftab \in [PoolIds -> PoolRec] /\ members \in [PoolIds -> SUBSET Addresses]
        BY <1>1 DEF PoolTypes
    <2> QED
        BY <1>1, <1>5, <1>11, <2>1, <2>2
<1>17. /\ sem' \in [Sem -> SemRec] /\ (\A t \in Sem \ {s} : sem'[t] = sem[t])
       /\ sem'[s].used /\ sem'[s].count = numbufs /\ sem'[s].queue = <<>> /\ Balanced(sem'[s])
    <2>1. NewSem(numbufs) \in SemRec /\ Balanced(NewSem(numbufs))
        BY <1>4, EmptyQueue DEF NewSem, SemRec, Balanced
    <2>2. sem \in [Sem -> SemRec]
        BY <1>1 DEF PoolTypes
    <2> QED
        BY <1>5, <1>7, <2>1, <2>2 DEF NewSem
<1>18. inuse' \subseteq UNION {members[i] : i \in Pools} /\ inuse' \subseteq UNION {members'[i] : i \in Pools'}
    <2>1. inuse \subseteq UNION {members[i] : i \in Pools}
        BY <1>1 DEF PoolTypes
    <2> QED
        BY <1>5, <1>14, <1>16, <2>1
<1>19. ToSet(row) \cap inuse' = {}
    BY <1>13, <1>18
<1>20. PoolTypes'
    <2>1. nbpools' \in 0..NBPOOLS
        BY <1>1, <1>5, BufAssumption DEF PoolTypes
    <2> QED
        BY <1>1, <1>5, <1>10, <1>16, <1>17, <1>18, <2>1 DEF PoolTypes
<1>21. \A i \in Pools : SemId(i)' = SemId(i) /\ SemId(i) \in Sem /\ SemId(i) # s
    BY <1>1, <1>7, <1>16 DEF SemId, PoolFacts
<1>22. PICK num \in PoolIds : num = nbpools
    BY <1>1
<1>23. SemId(num)' = s /\ Free(num)' = ToSet(row) /\ buftab'[num].bpnext = at /\ members'[num] = ToSet(row)
    BY <1>16, <1>19, <1>22 DEF SemId, Free
<1>24. \A i \in Pools : Free(i)' = Free(i) /\ Getters(i)' = Getters(i)
    BY <1>5, <1>16 DEF Free, Getters
<1>25. SemsOK'
    <2>1. SemsOK
        BY <1>1 DEF PoolFacts
    <2>2. \A t \in Sem : Balanced(sem'[t])
        BY <1>17, <2>1 DEF SemsOK
    <2>3. \A i \in Pools : sem'[SemId(i)].used
        BY <1>1, <1>17, <1>21 DEF PoolFacts
    <2>4. \A i \in Pools' : SemId(i)' \in Sem /\ sem'[SemId(i)'].used
        BY <1>7, <1>14, <1>17, <1>21, <1>22, <1>23, <2>3
    <2>5. \A i, j \in Pools' : i # j => SemId(i)' # SemId(j)'
        BY <1>14, <1>21, <1>22, <1>23, <2>1 DEF SemsOK
    <2> QED
        BY <2>2, <2>4, <2>5 DEF SemsOK
<1>26. \A p \in Pid : ~Getting(p, num)
    <2>1. \A p \in Pid : cont[p] # User => cont[p].pool \in Pools
        BY <1>1 DEF PoolFacts, GettersOK
    <2> QED
        BY <1>1, <1>22, <2>1 DEF Getting, User
<1>27. GettersOK'
    <2>1. GettersOK /\ Waiting' = Waiting /\ Waiting \subseteq Pid /\ \A p, i : Getting(p, i)' <=> Getting(p, i)
        BY <1>1, <1>5 DEF PoolFacts, Waiting, Getting
    <2>2. ASSUME NEW i \in Pools' PROVE ToSet(sem'[SemId(i)'].queue) = {p \in Waiting' : Getting(p, i)'}
        <3>1. CASE i \in Pools
            <4>1. sem'[SemId(i)'] = sem[SemId(i)]
                BY <1>17, <1>21, <3>1
            <4> QED
                BY <2>1, <3>1, <4>1 DEF GettersOK
        <3>2. CASE i = num
            <4>1. ToSet(sem'[SemId(i)'].queue) = {}
                BY <1>17, <1>23, <3>2, EmptyQueue
            <4>2. {p \in Waiting' : Getting(p, i)'} = {}
                BY <1>26, <2>1, <3>2
            <4> QED
                BY <4>1, <4>2
        <3> QED
            BY <1>14, <1>22, <3>1, <3>2
    <2>3. ProcessorOK' /\ (\A p \in Waiting' : cont'[p] # User) /\ \A p \in Pid : cont'[p] # User => cont'[p].pool \in Pools'
        BY <1>5, <1>14, <2>1 DEF GettersOK, ProcessorOK
    <2> QED
        BY <2>2, <2>3 DEF GettersOK
<1>28. ListsOK'
    <2>1. \A i \in Pools : OwnList(i, members, inuse, buftab, word)
        BY <1>1, ListsFrom DEF PoolFacts
    <2>2. ASSUME NEW i \in Pools' PROVE OwnList(i, members', inuse', buftab', word')
        <3>1. CASE i = num
            <4>1. members'[i] \ inuse' = ToSet(row) /\ members'[i] \cap inuse' = {} /\ buftab'[i].bpnext = at
                BY <1>19, <1>23, <3>1
            <4>2. Listed(row, members'[i] \ inuse', buftab'[i].bpnext, word')
                BY <1>5, <1>10, <4>1
            <4> QED
                BY <4>1, <4>2 DEF OwnList
        <3>2. CASE i \in Pools
            <4>1. members'[i] \ inuse' = members[i] \ inuse /\ members'[i] \cap inuse' = members[i] \cap inuse
                  /\ buftab'[i] = buftab[i] /\ members[i] \subseteq Addresses
                BY <1>1, <1>5, <1>16, <3>2 DEF PoolTypes
            <4>2. \A x \in members[i] : word'[x] = word[x]
                BY <1>5, <1>10, <1>13, <3>2, <4>1
            <4>3. PICK l : Listed(l, members[i] \ inuse, buftab[i].bpnext, word)
                BY <2>1, <3>2 DEF OwnList
            <4>4. PICK fr, first, words, next : fr = members[i] \ inuse /\ first = buftab[i].bpnext
                                               /\ words = word /\ next = word'
                OBVIOUS
            <4>5. Listed(l, fr, first, words) /\ \A x \in fr : next[x] = words[x]
                BY <4>2, <4>3, <4>4
            <4>6. Listed(l, fr, first, next)
                BY ONLY <4>5, ListedSame
            <4>7. Listed(l, members'[i] \ inuse', buftab'[i].bpnext, word')
                BY <4>1, <4>4, <4>6
            <4>8. \A buf \in members'[i] \cap inuse' : word'[buf] = i
                BY <2>1, <3>2, <4>1, <4>2 DEF OwnList
            <4> QED
                BY <4>7, <4>8 DEF OwnList
        <3> QED
            BY <1>14, <1>22, <3>1, <3>2
    <2> QED
        BY <1>15, <1>16, <2>2, ListsTo
<1>29. PoolsInHeap'
    <2>1. ASSUME NEW i \in Pools' PROVE \E b \in held' :
            /\ members'[i] # {}
            /\ \A buf \in members'[i] : b.at <= buf /\ buf + UINT + buftab'[i].bpsize <= b.at + b.len
        <3>1. CASE i \in Pools
            BY <1>1, <1>16, <3>1 DEF PoolsInHeap
        <3>2. CASE i = num
            <4>1. PICK b \in held' : b.at = at /\ b.len = n
                BY <1>6
            <4>2. members'[i] = ToSet(row) /\ buftab'[i].bpsize = roundew(bufsiz)
                BY <1>16, <1>22, <3>2
            <4>3. \A buf \in ToSet(row) : at <= buf /\ buf + UINT + roundew(bufsiz) <= at + n
                BY <1>4, <1>12
            <4> QED
                BY <1>11, <4>1, <4>2, <4>3
        <3> QED
            BY <1>14, <1>22, <3>1, <3>2
    <2>2. \A i, j \in Pools' : i # j => members'[i] \cap members'[j] = {}
        <3>1. \A i, j \in Pools : i # j => members[i] \cap members[j] = {}
            BY <1>1 DEF PoolsInHeap
        <3> QED
            BY <1>13, <1>14, <1>16, <3>1
    <2> QED
        BY <2>1, <2>2 DEF PoolsInHeap
<1>30. UnitsOK'
    <2>1. NoneKilled' => NoneKilled
        BY <1>5 DEF NoneKilled
    <2>2. ASSUME NEW i \in Pools' PROVE Units(i)' <= Cardinality(Free(i)') /\ (NoneKilled' => Units(i)' = Cardinality(Free(i)'))
        <3>1. CASE i \in Pools
            <4>1. sem'[SemId(i)'] = sem[SemId(i)]
                BY <1>17, <1>21, <3>1
            <4>2. Units(i)' = Units(i) /\ Free(i)' = Free(i)
                BY <1>24, <3>1, <4>1, UnitsAre
            <4> QED
                BY <1>1, <2>1, <3>1, <4>2 DEF PoolFacts, UnitsOK
        <3>2. CASE i = num
            <4>1. Getters(i)' = {}
                BY <1>5, <1>26, <3>2, GettersNext DEF Getting, Running
            <4>2. Cardinality(Getters(i)') = 0
                BY <4>1, FS_EmptySet
            <4>3. sem'[SemId(i)'].count = numbufs
                BY <1>17, <1>23, <3>2
            <4>4. Units(i)' = numbufs
                BY <1>4, <4>2, <4>3, UnitsAre DEF UnitOf
            <4>5. PICK fr, words : fr = ToSet(row) /\ words = Linked(row, bufsiz) /\ Listed(row, fr, at, words)
                BY <1>10
            <4>6. Cardinality(fr) = Len(row)
                BY ONLY <4>5, ListedSize
            <4> QED
                BY <1>4, <1>9, <1>23, <3>2, <4>4, <4>5, <4>6
        <3> QED
            BY <1>14, <1>22, <3>1, <3>2
    <2> QED
        BY <2>2 DEF UnitsOK
<1> QED
    BY <1>2, <1>20, <1>25, <1>27, <1>28, <1>29, <1>30 DEF PoolInv

LEMMA MkBufPoolKeeps ==
    ASSUME PoolInv, NEW bufsiz, NEW numbufs, MkBufPool(bufsiz, numbufs)
    PROVE  PoolInv'
<1>1. bufsiz \in BP_MINB..BP_MAXB /\ numbufs \in 1..BP_MAXN /\ nbpools < NBPOOLS
    BY DEF MkBufPool
<1>2. numbufs * Stride(bufsiz) \in 1..(WORD - MB) /\ roundew(bufsiz) \in Nat
    BY <1>1, StrideFacts
<1>3. PICK bytes \in 1..(WORD - MB) : bytes = numbufs * Stride(bufsiz)
    BY <1>2
<1>4. PICK at : at = GetMem(heap, bytes).at
    OBVIOUS
<1>5. at # NoMem /\ UNCHANGED <<procVars, cont, stacks, lost>>
    BY <1>3, <1>4 DEF MkBufPool
<1>6. at \in Nat
    <2>1. bytes \in 1..(WORD - 1) /\ MemInv
        BY MemoryAssumption DEF PoolInv
    <2> QED
        BY <1>4, <1>5, <2>1, GrantApart
<1>7. \/ /\ heap' = FreeMem(GetMem(heap, bytes).heap, at, bytes).heap
         /\ buftab' = [buftab EXCEPT ![nbpools] =
                            [bpnext |-> at, bpsize |-> roundew(bufsiz), bpsem |-> None]]
         /\ UNCHANGED <<sem, held, asked, nbpools, word, inuse, members>>
      \/ \E s \in Unused :
            /\ heap' = GetMem(heap, bytes).heap
            /\ held' = held \cup {Grant(at, bytes)}
            /\ asked' = [cells |-> Cells(roundmb(bytes)), met |-> TRUE]
            /\ NewPool(at, bufsiz, numbufs, s)
    BY <1>3, <1>4 DEF MkBufPool
<1>8. CASE /\ heap' = FreeMem(GetMem(heap, bytes).heap, at, bytes).heap
           /\ buftab' = [buftab EXCEPT ![nbpools] =
                            [bpnext |-> at, bpsize |-> roundew(bufsiz), bpsem |-> None]]
           /\ UNCHANGED <<sem, held, asked, nbpools, word, inuse, members>>
    BY <1>1, <1>2, <1>4, <1>5, <1>8, NoPool
<1>9. ASSUME NEW s \in Unused,
             heap' = GetMem(heap, bytes).heap, held' = held \cup {Grant(at, bytes)},
             asked' = [cells |-> Cells(roundmb(bytes)), met |-> TRUE],
             NewPool(at, bufsiz, numbufs, s)
      PROVE  PoolInv'
    BY <1>1, <1>3, <1>4, <1>5, <1>6, <1>9, NewPoolKeeps
<1> QED
    BY <1>7, <1>8, <1>9

LEMMA GetBufKeeps ==
    ASSUME PoolInv, NEW pool \in Pools, GetBuf(pool)
    PROVE  PoolInv'
<1>1. PICK s : s = SemId(pool) /\ s = buftab[pool].bpsem
    BY DEF SemId
<1>2. InUser /\ UNCHANGED memVars
    BY DEF GetBuf
<1>3. CASE Available(s) /\ sem' = Down(sem, s, currpid) /\ Unlink(pool) /\ UNCHANGED <<procVars, cont>>
    BY <1>1, <1>2, <1>3, GetBufNow
<1>4. CASE WaitOn(s, [at |-> "getbuf", pool |-> pool]) /\ UNCHANGED poolVars
    BY <1>1, <1>2, <1>4, GetBufWaits
<1> QED
    BY <1>1, <1>3, <1>4 DEF GetBuf

LEMMA PoolStutters ==
    ASSUME PoolInv, UNCHANGED <<taskVars, memVars, poolVars>>
    PROVE  PoolInv'
<1>1. UNCHANGED <<currpid, prstate, cont, sem, poolVars, memVars>>
    BY DEF taskVars
<1>2. PoolFacts
    BY FactsOf
<1>3. /\ SamePools /\ ListsOK' /\ Pools' = Pools /\ Pools \subseteq PoolIds
      /\ \A i \in PoolIds : SemId(i)' = SemId(i)
      /\ \A i : Free(i)' = Free(i)
      /\ buftab' \in [PoolIds -> PoolRec] /\ word' \in [Addresses -> Nat]
      /\ inuse' \subseteq UNION {members[i] : i \in Pools}
    BY <1>1, ListsSame
<1>4. cont' \in [Pid -> {User} \cup Gettings] /\ sem' \in [Sem -> SemRec]
    BY <1>1, <1>2 DEF PoolFacts, PoolTypes
<1>5. SemsOK'
    BY <1>1, <1>2, <1>3 DEF PoolFacts, SemsOK
<1>6. GettersOK'
    <2>1. Waiting' = Waiting /\ \A p, i : Getting(p, i)' <=> Getting(p, i)
        BY <1>1 DEF Waiting, Getting
    <2> QED
        BY <1>1, <1>2, <1>3, <2>1 DEF PoolFacts, GettersOK, ProcessorOK
<1>7. UnitsOK'
    <2>1. \A i \in Pools : Getters(i)' = Getters(i) /\ sem'[SemId(i)'].count = sem[SemId(i)].count
        BY <1>1, <1>3 DEF Getters
    <2>2. \A i \in Pools : Units(i)' = Units(i)
        BY <2>1, UnitsAre
    <2> QED
        BY <1>1, <1>2, <1>3, <2>2 DEF PoolFacts, UnitsOK, NoneKilled
<1> QED
    BY <1>3, <1>4, <1>5, <1>6, <1>7, PoolStep

LEMMA NextPoolInv == PoolInv /\ [PoolNext]_<<taskVars, memVars, poolVars>> => PoolInv'
<1> SUFFICES ASSUME PoolInv, PoolNext \/ UNCHANGED <<taskVars, memVars, poolVars>> PROVE PoolInv'
    OBVIOUS
<1>1. ASSUME NEW bufsiz \in BufSizes, NEW numbufs \in BufCounts, MkBufPool(bufsiz, numbufs) PROVE PoolInv'
    BY <1>1, MkBufPoolKeeps
<1>2. ASSUME NEW pool \in Pools, GetBuf(pool) PROVE PoolInv'
    BY <1>2, GetBufKeeps
<1>3. ASSUME GetBufDone PROVE PoolInv'
    BY <1>3, GetBufEnds
<1>4. ASSUME NEW buf \in Addresses, MayFree(buf), FreeBuf(buf) PROVE PoolInv'
    BY <1>4, FreeBufKeeps
<1>5. ASSUME PoolPreempt PROVE PoolInv'
    BY <1>5, PreemptPools
<1>6. ASSUME NEW p \in BufVictims, PoolKill(p) PROVE PoolInv'
    BY <1>6, KillPools, BufAssumption
<1>7. ASSUME UNCHANGED <<taskVars, memVars, poolVars>> PROVE PoolInv'
    BY <1>7, PoolStutters
<1> QED
    BY <1>1, <1>2, <1>3, <1>4, <1>5, <1>6, <1>7 DEF PoolNext

LEMMA InitPoolInv ==
    TaskInit /\ sem = [s \in Sem |-> FreeSem] /\ MemInit /\ PoolInit => PoolInv
<1> SUFFICES ASSUME TaskInit, sem = [s \in Sem |-> FreeSem], MemInit, PoolInit PROVE PoolInv
    OBVIOUS
<1>1. MemInv
    BY InitMemInv
<1>2. nbpools = 0 /\ Pools = {} /\ inuse = {} /\ NBPOOLS \in Nat \ {0} /\ \A p \in Pid : cont[p] = User
    BY BufAssumption DEF PoolInit, Pools, TaskInit
<1>3. sem \in [Sem -> SemRec] /\ \A s \in Sem : Balanced(sem[s])
    BY EmptyQueue DEF FreeSem, SemRec, Balanced
<1>4. PoolTypes
    <2>1. buftab \in [PoolIds -> PoolRec]
        BY DEF PoolInit, PoolIds, PoolRec
    <2>2. word \in [Addresses -> Nat] /\ members \in [PoolIds -> SUBSET Addresses]
        BY DEF PoolInit, PoolIds
    <2>3. cont \in [Pid -> {User} \cup Gettings]
        BY DEF TaskInit
    <2> QED
        BY <1>2, <1>3, <2>1, <2>2, <2>3 DEF PoolTypes
<1>5. ProcessorOK /\ Waiting = {}
    <2>1. \A p \in Pid : prstate[p] = IF p = currpid THEN "CURR" ELSE "READY"
        BY DEF TaskInit
    <2>2. prstate \in [Pid -> States] /\ currpid \in Pid
        BY DEF TaskInit, States
    <2> QED
        BY <2>1, <2>2 DEF ProcessorOK, Waiting
<1>6. SemsOK /\ GettersOK /\ ListsOK /\ UnitsOK /\ PoolsInHeap
    BY <1>2, <1>3, <1>5 DEF SemsOK, GettersOK, ListsOK, UnitsOK, PoolsInHeap
<1> QED
    BY <1>1, <1>4, <1>6 DEF PoolInv

(* The types and the inductive invariant of mkbufpool, getbuf and freebuf: each  *)
(* pool has a semaphore and a block of its own, its list goes through its free   *)
(* buffers, and there is one for each unit.                                      *)
THEOREM PoolInvariant == PoolSpec => []PoolInv
<1>1. TaskInit /\ sem = [s \in Sem |-> FreeSem] /\ MemInit /\ PoolInit => PoolInv
    BY InitPoolInv
<1>2. PoolInv /\ [PoolNext]_<<taskVars, memVars, poolVars>> => PoolInv'
    BY NextPoolInv
<1> QED
    BY <1>1, <1>2, PTL DEF PoolSpec

(* A buffer is in use or on its own pool's list, there once, and a buffer in use *)
(* names its pool: freebuf finds the pool that getbuf took the buffer from, for  *)
(* any heap, any pools and any number of processes.                              *)
THEOREM BuffersOwned == PoolSpec => []OneOwner
<1>1. PoolInv => OneOwner
    <2> SUFFICES ASSUME PoolInv, NEW i \in Pools
                 PROVE  /\ IsInjective(Chain(i)) /\ ToSet(Chain(i)) = members[i] \ inuse
                        /\ \A buf \in members[i] \cap inuse : word[buf] = i
        BY DEF OneOwner
    <2>1. /\ Listed(Chain(i), Free(i), buftab[i].bpnext, word)
          /\ \A buf \in members[i] \cap inuse : word[buf] = i
        BY DEF PoolInv, ListsOK
    <2>2. IsInjective(Chain(i)) /\ ToSet(Chain(i)) = Free(i)
        BY <2>1 DEF Listed
    <2> QED
        BY <2>1, <2>2 DEF Free
<1> QED
    BY <1>1, PoolInvariant, PTL

(* A pool has a free buffer for every unit of its semaphore and for every process *)
(* that was granted one, and as long as nobody is killed no other: getbuf never  *)
(* takes a buffer off an empty list.                                             *)
THEOREM UnitsAreBuffers == PoolSpec => []UnitsHaveBuffers
<1>1. PoolInv => UnitsHaveBuffers
    <2> SUFFICES ASSUME PoolInv, NEW i \in Pools
                 PROVE  Units(i) <= Len(Chain(i)) /\ (NoneKilled => Units(i) = Len(Chain(i)))
        BY DEF UnitsHaveBuffers, Units, SemId, NoneKilled
    <2>1. Listed(Chain(i), Free(i), buftab[i].bpnext, word)
        BY DEF PoolInv, ListsOK
    <2>2. PICK l, free, first, words :
            l = Chain(i) /\ free = Free(i) /\ first = buftab[i].bpnext /\ words = word
        OBVIOUS
    <2>3. Listed(l, free, first, words)
        BY <2>1, <2>2
    <2>4. Cardinality(free) = Len(l)
        BY ONLY <2>3, ListedSize
    <2> QED
        BY <2>2, <2>4 DEF PoolInv, UnitsOK
<1> QED
    BY <1>1, PoolInvariant, PTL

(* The buffers of a pool, with the words before them, lie in a block that mkbufpool *)
(* was given, and no two pools share a buffer.                                   *)
THEOREM PoolsAreInHeap == PoolSpec => []PoolsInHeap
<1>1. PoolInv => PoolsInHeap
    BY DEF PoolInv
<1> QED
    BY <1>1, PoolInvariant, PTL

-----------------------------------------------------------------------------
(* Memory marks *)

Labels == {"room", "wait", "read", "take", "store", "signal"}
Markings == [at : Labels, loc : Loc, i : Nat]
Last0 == MAXMARK + Cardinality(Pid)

(* One process is current at most. *)
TasksOK ==
    /\ currpid \in Pid \cup {NULLPROC}
    /\ prstate \in [Pid -> States]
    /\ \A p \in Pid : prstate[p] = "CURR" <=> currpid = p
    /\ cont \in [Pid -> {User} \cup Markings]

Mutex == sem[mkmutex]
Sound(tab, s) == DOMAIN tab = Sem /\ DOMAIN tab[s] = {"used", "count", "queue"}
Holds(p) == cont[p].at \in Inside /\ prstate[p] # "WAIT"

(* The mutex: its queue are the processes that wait, and one process at most
   is inside, none if the count is one. *)
MutexOK ==
    /\ mkmutex \in Sem
    /\ Sound(sem, mkmutex)
    /\ Mutex.count \in Int /\ Mutex.queue \in Seq(Pid)
    /\ Mutex.count <= 1
    /\ Mutex.count = 1 => Len(Mutex.queue) = 0
    /\ Mutex.count <= 0 => Len(Mutex.queue) + Mutex.count = 0
    /\ \A p \in Pid : prstate[p] = "WAIT" <=> \E n \in 1..Len(Mutex.queue) : Mutex.queue[n] = p
    /\ \A m, n \in 1..Len(Mutex.queue) : Mutex.queue[m] = Mutex.queue[n] => m = n
    /\ \A p \in Pid : prstate[p] = "WAIT" => cont[p].at = "read"
    /\ Mutex.count = 1 => \A p \in Pid : ~Holds(p)
    /\ \A p, q \in Pid : Holds(p) /\ Holds(q) => p = q

TableOK ==
    /\ nmarks \in Nat
    /\ content \in [Loc -> Int]
    /\ marks \in [0..Last0 -> Loc \cup {None}]

(* What the process inside has done so far, and that no entry is written twice. *)
InsideOK ==
    \A p \in Pid : Holds(p) =>
        /\ cont[p].at = "take" => cont[p].i = nmarks
        /\ cont[p].at = "store" =>
            nmarks = cont[p].i + 1 /\ content[cont[p].loc] = cont[p].i /\ marks[cont[p].i] = None
        /\ cont[p].at = "signal" => Marked(cont[p].loc)
FreshOK == \A i \in 0..Last0 : i >= nmarks => marks[i] = None

MarkInv ==
    /\ TasksOK /\ MutexOK /\ TableOK /\ InsideOK /\ FreshOK
    /\ OverrunBounded /\ EntriesFilled

-----------------------------------------------------------------------------
LEMMA PidFinite ==
    /\ IsFiniteSet(Pid) /\ Cardinality(Pid) \in Nat
    /\ MAXMARK \in Nat /\ Last0 \in Nat /\ NULLPROC \notin Pid
    /\ None \notin Loc /\ None \notin Sem /\ Garbage \subseteq Int
BY MarkAssumption, TaskAssumption, FS_CardinalityType DEF Last0

(* What giving the processor away does to the states it is given. *)
LEMMA DispatchOK ==
    ASSUME NEW st \in [Pid -> States], \A p \in Pid : st[p] # "CURR", Dispatch(st)
    PROVE  /\ currpid' \in Pid \cup {NULLPROC}
           /\ prstate' \in [Pid -> States]
           /\ \A p \in Pid : prstate'[p] = "CURR" <=> currpid' = p
           /\ \A p \in Pid : prstate'[p] = "WAIT" <=> st[p] = "WAIT"
<1>1. ASSUME NEW p \in Pid, st[p] = "READY", currpid' = p, prstate' = [st EXCEPT ![p] = "CURR"]
      PROVE  /\ currpid' \in Pid \cup {NULLPROC}
             /\ prstate' \in [Pid -> States]
             /\ \A q \in Pid : prstate'[q] = "CURR" <=> currpid' = q
             /\ \A q \in Pid : prstate'[q] = "WAIT" <=> st[q] = "WAIT"
  BY <1>1 DEF States
<1>2. CASE currpid' = NULLPROC /\ prstate' = st
  BY <1>2, PidFinite
<1> QED
  BY <1>1, <1>2 DEF Dispatch

(* What wait and signal do to one entry of the semaphore table. *)
LEMMA DownOK ==
    ASSUME NEW tab, NEW s \in Sem, NEW p \in Pid, Sound(tab, s)
    PROVE  /\ Sound(Down(tab, s, p), s)
           /\ Down(tab, s, p)[s].count = tab[s].count - 1
           /\ Down(tab, s, p)[s].queue =
                IF tab[s].count > 0 THEN tab[s].queue ELSE Append(tab[s].queue, p)
<1>1. Sound(Down(tab, s, p), s)
  BY DEF Down, Sound
<1>2. Down(tab, s, p)[s].count = tab[s].count - 1
  BY DEF Down, Sound
<1>3. Down(tab, s, p)[s].queue =
        IF tab[s].count > 0 THEN tab[s].queue ELSE Append(tab[s].queue, p)
  BY DEF Down, Sound
<1> QED
  BY <1>1, <1>2, <1>3

LEMMA UpOK ==
    ASSUME NEW tab, NEW s \in Sem, Sound(tab, s)
    PROVE  /\ Sound(Up(tab, s), s)
           /\ Up(tab, s)[s].count = tab[s].count + 1
           /\ Up(tab, s)[s].queue =
                IF tab[s].count < 0 THEN Tail(tab[s].queue) ELSE tab[s].queue
<1> USE PidFinite
<1>1. Sound(Up(tab, s), s)
  BY DEF Up, Sound
<1>2. Up(tab, s)[s].count = tab[s].count + 1
  BY DEF Up, Sound
<1>3. Up(tab, s)[s].queue = IF tab[s].count < 0 THEN Tail(tab[s].queue) ELSE tab[s].queue
  BY DEF Up, Sound
<1> QED
  BY <1>1, <1>2, <1>3

(* The current process, in the middle of mark. *)
LEMMA AtOK ==
    ASSUME TasksOK, NEW l \in Labels, At(l)
    PROVE  /\ currpid \in Pid /\ prstate[currpid] = "CURR"
           /\ cont[currpid] \in Markings /\ cont[currpid].at = l
<1>1. currpid \in Pid
  BY DEF TasksOK, At
<1>2. cont[currpid].at # "user"
  BY DEF At, Labels
<1>3. cont[currpid] # User
  BY <1>2 DEF User
<1> QED
  BY <1>1, <1>3 DEF TasksOK, At

LEMMA MarkInitOK == TaskInit /\ MarkInit => MarkInv
<1> SUFFICES ASSUME TaskInit, MarkInit PROVE MarkInv
  OBVIOUS
<1>1. TasksOK
  BY PidFinite DEF TaskInit, TasksOK, States
<1>2. /\ \A p \in Pid : cont[p].at = "user" /\ prstate[p] # "WAIT"
      /\ mkmutex \in Sem /\ Mutex = NewSem(1)
  BY DEF TaskInit, MarkInit, User, Mutex
<1>3. Sound(sem, mkmutex)
  BY <1>2 DEF MarkInit, Sound, NewSem
<1>4. \A p \in Pid : ~Holds(p)
  BY <1>2 DEF Holds, Inside
<1>5. MutexOK
  BY <1>2, <1>3, <1>4 DEF MutexOK, NewSem
<1>6. TableOK
  BY PidFinite DEF MarkInit, TableOK, Last0
<1>9. FreshOK
  BY DEF MarkInit, FreshOK, Last0
<1>10. EntriesFilled
  BY DEF MarkInit, EntriesFilled
<1>7. InsideOK
  BY <1>4 DEF InsideOK
<1>8. OverrunBounded
  <2>1. {p \in Pid : Marker(p, {"wait", "read", "take"})} = {}
    BY <1>2 DEF Marker
  <2>2. Cardinality({p \in Pid : Marker(p, {"wait", "read", "take"})}) = 0
    BY <2>1, FS_EmptySet
  <2> QED
    BY <2>2, PidFinite, FS_EmptySet, MarkAssumption DEF MarkInit, OverrunBounded
<1> QED
  BY <1>1, <1>5, <1>6, <1>7, <1>8, <1>9, <1>10 DEF MarkInv

LEMMA SameOK ==
    ASSUME MarkInv, UNCHANGED <<currpid, prstate, cont, sem, marks, nmarks, content, mkmutex>>
    PROVE  MarkInv'
<1>1. TasksOK' /\ TableOK' /\ FreshOK'
  BY DEF MarkInv, TasksOK, TableOK, FreshOK
<1>2. MutexOK'
  BY DEF MarkInv, MutexOK, Mutex, Holds
<1>3. InsideOK'
  BY DEF MarkInv, InsideOK, Holds, Marked
<1>4. OverrunBounded' /\ EntriesFilled'
  BY DEF MarkInv, OverrunBounded, EntriesFilled, Marker
<1> QED
  BY <1>1, <1>2, <1>3, <1>4 DEF MarkInv

(* A step of mark that neither takes nor gives up the mutex. *)
LEMMA StayOK ==
    ASSUME MarkInv, currpid \in Pid, prstate[currpid] = "CURR",
           NEW c \in {User} \cup Markings, Goto(c),
           c.at \in Inside => cont[currpid].at \in Inside,
           UNCHANGED <<procVars, sem, mkmutex>>
    PROVE  /\ TasksOK' /\ MutexOK'
           /\ \A p \in Pid : p # currpid => cont'[p] = cont[p] /\ Holds(p)' = Holds(p)
           /\ cont'[currpid] = c
<1>1. cont' = [cont EXCEPT ![currpid] = c] /\ cont \in [Pid -> {User} \cup Markings]
  BY DEF Goto, MarkInv, TasksOK
<1>2. TasksOK'
  BY <1>1 DEF MarkInv, TasksOK, procVars
<1>3. /\ \A p \in Pid : p # currpid => cont'[p] = cont[p]
      /\ cont'[currpid] = c
      /\ Mutex' = Mutex /\ prstate' = prstate
  BY <1>1 DEF Mutex, procVars
<1>4. \A p \in Pid : p # currpid => Holds(p)' = Holds(p)
  BY <1>3 DEF Holds
<1>5. \A p \in Pid : p = currpid /\ Holds(p)' => Holds(p)
  BY <1>3 DEF Holds, Inside
<1>6. \A p \in Pid : Holds(p)' => Holds(p)
  BY <1>4, <1>5
<1>7. \A p \in Pid : prstate'[p] = "WAIT" => cont'[p].at = "read"
  BY <1>3 DEF MarkInv, MutexOK
<1>8. MutexOK'
  BY <1>3, <1>6, <1>7, SMTT(30) DEF MarkInv, MutexOK
<1> QED
  BY <1>2, <1>3, <1>4, <1>8

(* The processes that have seen room in the table and not used it yet. *)
Claimers == {p \in Pid : Marker(p, {"wait", "read", "take"})}

LEMMA ClaimersFinite ==
    /\ IsFiniteSet(Claimers) /\ Cardinality(Claimers) \in Nat
    /\ Cardinality(Claimers) <= Cardinality(Pid)
<1>1. Claimers \subseteq Pid
  BY DEF Claimers
<1> QED
  BY <1>1, PidFinite, FS_Subset, FS_CardinalityType

LEMMA MarkOK ==
    ASSUME MarkInv, NEW loc \in Loc, Mark(loc)
    PROVE  MarkInv'
<1>1. CASE UNCHANGED cont
  <2>1. UNCHANGED <<currpid, prstate, cont, sem, marks, nmarks, content, mkmutex>>
    BY <1>1 DEF Mark, procVars, markVars
  <2> QED
    BY <2>1, SameOK
<1>2. CASE Goto(Marking("room", loc, 0))
  <2> DEFINE c == Marking("room", loc, 0)
  <2>1. c \in Markings /\ c.at = "room"
    BY DEF Marking, Markings, Labels
  <2>2. currpid \in Pid /\ prstate[currpid] = "CURR" /\ cont[currpid].at = "user"
    BY DEF Mark, InUser, User, MarkInv, TasksOK
  <2>3. UNCHANGED <<procVars, sem, marks, nmarks, content, mkmutex>>
    BY DEF Mark, markVars
  <2>4. /\ TasksOK' /\ MutexOK'
        /\ \A p \in Pid : p # currpid => cont'[p] = cont[p] /\ Holds(p)' = Holds(p)
        /\ cont'[currpid] = c
    BY <1>2, <2>1, <2>2, <2>3, StayOK DEF Inside
  <2> HIDE DEF c
  <2>5. TableOK' /\ FreshOK'
    BY <2>3 DEF MarkInv, TableOK, FreshOK
  <2>6. InsideOK'
    BY <2>1, <2>3, <2>4 DEF MarkInv, InsideOK, Holds, Inside, Marked
  <2>7. EntriesFilled'
    BY <2>2, <2>3, <2>4 DEF MarkInv, EntriesFilled, Marker
  <2>8. Claimers' = Claimers
    BY <2>1, <2>2, <2>4 DEF Claimers, Marker
  <2>9. OverrunBounded'
    BY <2>3, <2>8 DEF MarkInv, OverrunBounded, Claimers
  <2> QED
    BY <2>4, <2>5, <2>6, <2>7, <2>9 DEF MarkInv
<1> QED
  BY <1>1, <1>2 DEF Mark

LEMMA MarkRoomOK ==
    ASSUME MarkInv, MarkRoom
    PROVE  MarkInv'
<1>0. /\ currpid \in Pid /\ prstate[currpid] = "CURR"
      /\ cont[currpid] \in Markings /\ cont[currpid].at = "room"
  BY AtOK DEF MarkRoom, MarkInv, Labels
<1>1. UNCHANGED <<procVars, sem, marks, nmarks, content, mkmutex>>
  BY DEF MarkRoom, markVars
<1>2. TableOK' /\ FreshOK'
  BY <1>1 DEF MarkInv, TableOK, FreshOK
<1>3. ASSUME NEW c \in {User} \cup Markings, Goto(c), c.at \notin Inside
      PROVE  /\ TasksOK' /\ MutexOK' /\ InsideOK' /\ EntriesFilled'
             /\ \A p \in Pid : p # currpid => cont'[p] = cont[p]
             /\ cont'[currpid] = c
  <2>1. /\ TasksOK' /\ MutexOK'
        /\ \A p \in Pid : p # currpid => cont'[p] = cont[p] /\ Holds(p)' = Holds(p)
        /\ cont'[currpid] = c
    BY <1>0, <1>1, <1>3, StayOK
  <2>2. InsideOK'
    BY <1>1, <1>3, <2>1 DEF MarkInv, InsideOK, Holds, Marked
  <2>3. EntriesFilled'
    BY <1>0, <1>1, <2>1 DEF MarkInv, EntriesFilled, Marker
  <2> QED
    BY <2>1, <2>2, <2>3
<1>4. CASE nmarks >= MAXMARK /\ Return
  <2>1. User.at = "user" /\ User.at \notin Inside
    BY DEF User, Inside
  <2>2. /\ TasksOK' /\ MutexOK' /\ InsideOK' /\ EntriesFilled'
        /\ \A p \in Pid : p # currpid => cont'[p] = cont[p]
        /\ cont'[currpid] = User
    BY <1>3, <1>4, <2>1 DEF Return
  <2>3. Claimers' = Claimers
    BY <1>0, <2>1, <2>2 DEF Claimers, Marker
  <2>4. OverrunBounded'
    BY <1>1, <2>3 DEF MarkInv, OverrunBounded, Claimers
  <2> QED
    BY <1>2, <2>2, <2>4 DEF MarkInv
<1>5. CASE nmarks < MAXMARK /\ Goto([cont[currpid] EXCEPT !.at = "wait"])
  <2> DEFINE c == [cont[currpid] EXCEPT !.at = "wait"]
  <2>1. c \in Markings /\ c.at = "wait" /\ c.at \notin Inside
    BY <1>0 DEF Markings, Labels, Inside
  <2>2. TasksOK' /\ MutexOK' /\ InsideOK' /\ EntriesFilled'
    BY <1>3, <1>5, <2>1
  <2>3. Cardinality(Claimers') \in Nat /\ Cardinality(Claimers') <= Cardinality(Pid)
    <3>1. Claimers' \subseteq Pid
      BY DEF Claimers
    <3> QED
      BY <3>1, PidFinite, FS_Subset, FS_CardinalityType
  <2>4. nmarks' = nmarks /\ nmarks \in Nat /\ nmarks <= MAXMARK - 1
    BY <1>1, <1>5, PidFinite DEF MarkInv, TableOK
  <2>5. nmarks' + Cardinality(Claimers') <= MAXMARK - 1 + Cardinality(Pid)
    BY <2>3, <2>4, PidFinite
  <2>6. OverrunBounded'
    BY <2>5 DEF OverrunBounded, Claimers
  <2> QED
    BY <1>2, <2>2, <2>6 DEF MarkInv
<1> QED
  BY <1>4, <1>5 DEF MarkRoom

LEMMA MarkReadOK ==
    ASSUME MarkInv, MarkRead
    PROVE  MarkInv'
<1> DEFINE c == [cont[currpid] EXCEPT !.at = "take", !.i = nmarks]
<1>1. /\ currpid \in Pid /\ prstate[currpid] = "CURR"
      /\ cont[currpid] \in Markings /\ cont[currpid].at = "read"
  BY AtOK DEF MarkRead, MarkInv, Labels
<1>2. UNCHANGED <<procVars, sem, marks, nmarks, content, mkmutex>>
  BY DEF MarkRead, markVars
<1>3. c \in Markings /\ c.at = "take" /\ c.i = nmarks
  BY <1>1 DEF Markings, Labels, MarkInv, TableOK
<1>4. /\ TasksOK' /\ MutexOK'
      /\ \A p \in Pid : p # currpid => cont'[p] = cont[p] /\ Holds(p)' = Holds(p)
      /\ cont'[currpid] = c
  BY <1>1, <1>2, <1>3, StayOK DEF MarkRead, Inside
<1> HIDE DEF c
<1>5. TableOK' /\ FreshOK'
  BY <1>2 DEF MarkInv, TableOK, FreshOK
<1>6. InsideOK'
  BY <1>2, <1>3, <1>4 DEF MarkInv, InsideOK, Marked
<1>7. EntriesFilled'
  BY <1>1, <1>2, <1>4 DEF MarkInv, EntriesFilled, Marker
<1>8. Claimers' = Claimers
  BY <1>1, <1>3, <1>4 DEF Claimers, Marker
<1>9. OverrunBounded'
  BY <1>2, <1>8 DEF MarkInv, OverrunBounded, Claimers
<1> QED
  BY <1>4, <1>5, <1>6, <1>7, <1>9 DEF MarkInv

(* The index is counted when it is given out: one claim becomes one entry. *)
LEMMA MarkTakeOK ==
    ASSUME MarkInv, MarkTake
    PROVE  MarkInv'
<1> DEFINE c == [cont[currpid] EXCEPT !.at = "store"]
<1>1. /\ currpid \in Pid /\ prstate[currpid] = "CURR"
      /\ cont[currpid] \in Markings /\ cont[currpid].at = "take"
  BY AtOK DEF MarkTake, MarkInv, Labels
<1>2. Holds(currpid) /\ cont[currpid].i = nmarks /\ nmarks \in Nat /\ cont[currpid].loc \in Loc
  BY <1>1 DEF MarkInv, InsideOK, TableOK, Holds, Inside, Markings
<1>3. /\ UNCHANGED <<procVars, sem, marks, mkmutex>>
      /\ nmarks' = nmarks + 1
      /\ content' = [content EXCEPT ![cont[currpid].loc] = nmarks]
      /\ Goto(c)
  BY <1>2 DEF MarkTake
<1>4. c \in Markings /\ c.at = "store" /\ c.i = nmarks /\ c.loc = cont[currpid].loc
  BY <1>1, <1>2 DEF Markings, Labels
<1> HIDE DEF c
<1>5. /\ TasksOK' /\ MutexOK'
      /\ \A p \in Pid : p # currpid => cont'[p] = cont[p] /\ Holds(p)' = Holds(p)
      /\ cont'[currpid] = c
  BY <1>1, <1>3, <1>4, StayOK DEF Inside
<1>6. \A p \in Pid : Holds(p)' => p = currpid
  BY <1>1, <1>2, <1>5 DEF MarkInv, MutexOK
<1>7. TableOK'
  BY <1>2, <1>3 DEF MarkInv, TableOK
<1>8. FreshOK'
  BY <1>2, <1>3 DEF MarkInv, FreshOK
<1>9. Claimers' = Claimers \ {currpid} /\ currpid \in Claimers
  BY <1>1, <1>4, <1>5 DEF Claimers, Marker
<1>10. nmarks + Cardinality(Claimers) <= MAXMARK - 1 + Cardinality(Pid)
  BY DEF MarkInv, OverrunBounded, Claimers
<1>11. Cardinality(Claimers') = Cardinality(Claimers) - 1
  BY <1>9, ClaimersFinite, FS_RemoveElement
<1>12. nmarks' + Cardinality(Claimers') <= MAXMARK - 1 + Cardinality(Pid)
  BY <1>2, <1>3, <1>10, <1>11, ClaimersFinite, PidFinite
<1>13. OverrunBounded'
  BY <1>12 DEF OverrunBounded, Claimers
<1>14. nmarks <= MAXMARK - 1 + Cardinality(Pid)
  BY <1>2, <1>10, ClaimersFinite, PidFinite
<1>15. marks[nmarks] = None
  BY <1>2, <1>14, PidFinite DEF MarkInv, FreshOK, Last0
<1>16. InsideOK'
  <2>1. content'[cont[currpid].loc] = nmarks
    BY <1>2, <1>3 DEF MarkInv, TableOK
  <2>2. \A p \in Pid : Holds(p)' => cont'[p] = c
    BY <1>5, <1>6
  <2> QED
    BY <1>3, <1>4, <1>15, <2>1, <2>2 DEF InsideOK
<1>17. EntriesFilled'
  <2>1. ASSUME NEW i \in 0..(nmarks' - 1), i < nmarks
        PROVE  marks'[i] \in Loc
    <3>1. marks[i] \in Loc \/ \E p \in Pid : Marker(p, {"store"}) /\ cont[p].i = i
      BY <1>2, <1>3, <2>1 DEF MarkInv, EntriesFilled
    <3>2. ASSUME NEW p \in Pid, Marker(p, {"store"})
          PROVE  FALSE
      <4>1. Holds(p)
        BY <3>2 DEF Holds, Marker, Inside, MarkInv, MutexOK
      <4> QED
        BY <1>1, <1>2, <3>2, <4>1 DEF MarkInv, MutexOK, Marker
    <3> QED
      BY <1>3, <3>1, <3>2
  <2>2. ASSUME NEW i \in 0..(nmarks' - 1), ~(i < nmarks)
        PROVE  cont'[currpid].at = "store" /\ cont'[currpid].i = i
    BY <1>2, <1>3, <1>4, <1>5, <2>2
  <2> QED
    BY <1>1, <2>1, <2>2 DEF EntriesFilled, Marker
<1> QED
  BY <1>5, <1>7, <1>8, <1>13, <1>16, <1>17 DEF MarkInv

LEMMA MarkStoreOK ==
    ASSUME MarkInv, MarkStore
    PROVE  MarkInv'
<1> DEFINE c == [cont[currpid] EXCEPT !.at = "signal"]
<1>1. /\ currpid \in Pid /\ prstate[currpid] = "CURR"
      /\ cont[currpid] \in Markings /\ cont[currpid].at = "store"
  BY AtOK DEF MarkStore, MarkInv, Labels
<1>2. /\ Holds(currpid) /\ nmarks = cont[currpid].i + 1 /\ nmarks \in Nat
      /\ content[cont[currpid].loc] = cont[currpid].i
      /\ cont[currpid].loc \in Loc /\ cont[currpid].i \in Nat
  BY <1>1 DEF MarkInv, InsideOK, TableOK, Holds, Inside, Markings
<1>3. /\ UNCHANGED <<procVars, sem, nmarks, content, mkmutex>>
      /\ marks' = [marks EXCEPT ![cont[currpid].i] = cont[currpid].loc]
      /\ Goto(c)
  BY DEF MarkStore
<1>4. c \in Markings /\ c.at = "signal" /\ c.i = cont[currpid].i /\ c.loc = cont[currpid].loc
  BY <1>1 DEF Markings, Labels
<1> HIDE DEF c
<1>5. /\ TasksOK' /\ MutexOK'
      /\ \A p \in Pid : p # currpid => cont'[p] = cont[p] /\ Holds(p)' = Holds(p)
      /\ cont'[currpid] = c
  BY <1>1, <1>3, <1>4, StayOK DEF Inside
<1>6. \A p \in Pid : Holds(p)' => p = currpid
  BY <1>1, <1>2, <1>5 DEF MarkInv, MutexOK
<1>7. TableOK'
  BY <1>2, <1>3 DEF MarkInv, TableOK
<1>8. FreshOK'
  BY <1>2, <1>3 DEF MarkInv, FreshOK, TableOK
<1>9. Claimers' = Claimers
  BY <1>1, <1>4, <1>5 DEF Claimers, Marker
<1>10. OverrunBounded'
  BY <1>3, <1>9 DEF MarkInv, OverrunBounded, Claimers
<1>11. cont[currpid].i \in 0..Last0
  <2>1. nmarks + Cardinality(Claimers) <= MAXMARK - 1 + Cardinality(Pid)
    BY DEF MarkInv, OverrunBounded, Claimers
  <2> QED
    BY <1>2, <2>1, ClaimersFinite, PidFinite DEF Last0
<1>12. marks'[cont[currpid].i] = cont[currpid].loc
  BY <1>3, <1>11 DEF MarkInv, TableOK
<1>13. InsideOK'
  <2>1. \A p \in Pid : Holds(p)' => cont'[p] = c
    BY <1>5, <1>6
  <2>2. content'[c.loc] \in 0..(nmarks' - 1) /\ marks'[content'[c.loc]] = c.loc
    BY <1>2, <1>3, <1>4, <1>12
  <2> QED
    BY <1>4, <2>1, <2>2 DEF InsideOK, Marked
<1>14. EntriesFilled'
  <2>1. ASSUME NEW i \in 0..(nmarks - 1)
        PROVE  marks'[i] \in Loc
    <3>1. CASE i = cont[currpid].i
      BY <1>2, <1>12, <3>1
    <3>2. CASE i # cont[currpid].i
      <4>1. \A p \in Pid : Marker(p, {"store"}) => p = currpid
        BY <1>1, <1>2 DEF MarkInv, MutexOK, Holds, Marker, Inside
      <4>2. marks[i] \in Loc
        BY <3>2, <4>1 DEF MarkInv, EntriesFilled
      <4> QED
        BY <1>3, <3>2, <4>2 DEF MarkInv, TableOK
    <3> QED
      BY <3>1, <3>2
  <2> QED
    BY <1>3, <2>1 DEF EntriesFilled
<1> QED
  BY <1>5, <1>7, <1>8, <1>10, <1>13, <1>14 DEF MarkInv

-----------------------------------------------------------------------------
(* Where the processor goes does not matter to mark. *)
LEMMA MarkPreemptOK ==
    ASSUME MarkInv, MarkPreempt
    PROVE  MarkInv'
<1> DEFINE st == Readied({currpid})
<1>1. /\ currpid \in Pid /\ prstate[currpid] = "CURR"
      /\ UNCHANGED <<cont, sem, marks, nmarks, content, mkmutex>>
      /\ Dispatch(st)
  BY DEF MarkPreempt, Preempted, markVars, MarkInv, TasksOK
<1>2. /\ st \in [Pid -> States] /\ \A p \in Pid : st[p] # "CURR"
      /\ \A p \in Pid : st[p] = "WAIT" <=> prstate[p] = "WAIT"
  BY <1>1 DEF Readied, States, MarkInv, TasksOK
<1> HIDE DEF st
<1>3. TasksOK' /\ \A p \in Pid : prstate'[p] = "WAIT" <=> prstate[p] = "WAIT"
  BY <1>1, <1>2, DispatchOK DEF MarkInv, TasksOK
<1>4. \A p \in Pid : Holds(p)' = Holds(p)
  BY <1>1, <1>3 DEF Holds
<1>5. Mutex' = Mutex
  BY <1>1 DEF Mutex
<1>6. MutexOK'
  BY <1>1, <1>3, <1>4, <1>5 DEF MarkInv, MutexOK
<1>7. TableOK' /\ FreshOK'
  BY <1>1 DEF MarkInv, TableOK, FreshOK
<1>8. InsideOK'
  BY <1>1, <1>4 DEF MarkInv, InsideOK, Marked
<1>9. OverrunBounded' /\ EntriesFilled'
  BY <1>1 DEF MarkInv, OverrunBounded, EntriesFilled, Marker
<1> QED
  BY <1>3, <1>6, <1>7, <1>8, <1>9 DEF MarkInv

(* The mutex is free and is taken: nobody was inside. *)
LEMMA MarkEnterOK ==
    ASSUME MarkInv, At("wait"), Available(mkmutex), sem' = Down(sem, mkmutex, currpid),
           Goto([cont[currpid] EXCEPT !.at = "read"]), UNCHANGED <<procVars, markVars>>
    PROVE  TasksOK' /\ MutexOK' /\ InsideOK'
<1> DEFINE c == [cont[currpid] EXCEPT !.at = "read"]
<1>1. /\ currpid \in Pid /\ prstate[currpid] = "CURR"
      /\ cont[currpid] \in Markings /\ cont[currpid].at = "wait"
  BY AtOK DEF MarkInv, Labels
<1>2. c \in Markings /\ c.at = "read"
  BY <1>1 DEF Markings, Labels
<1>3. /\ cont' = [cont EXCEPT ![currpid] = c]
      /\ UNCHANGED <<currpid, prstate, marks, nmarks, content, mkmutex>>
  BY DEF Goto, procVars, markVars
<1> HIDE DEF c
<1>4. TasksOK'
  BY <1>1, <1>2, <1>3 DEF MarkInv, TasksOK
<1>5. /\ cont'[currpid] = c
      /\ \A p \in Pid : p # currpid => cont'[p] = cont[p]
  BY <1>1, <1>3 DEF MarkInv, TasksOK
<1>6. /\ Mutex.count = 1 /\ Len(Mutex.queue) = 0 /\ mkmutex \in Sem
      /\ Mutex.queue \in Seq(Pid)
  BY DEF Available, Mutex, MarkInv, MutexOK
<1>7. Sound(sem, mkmutex)' /\ Mutex'.count = 0 /\ Mutex'.queue = Mutex.queue
  BY <1>1, <1>3, <1>6, DownOK DEF Mutex, MarkInv, MutexOK
<1>8. \A p \in Pid : Holds(p)' => p = currpid
  BY <1>3, <1>5, <1>6 DEF Holds, MarkInv, MutexOK
<1>9. MutexOK'
  BY <1>1, <1>2, <1>3, <1>5, <1>6, <1>7, <1>8 DEF MarkInv, MutexOK
<1>10. InsideOK'
  BY <1>2, <1>5, <1>8 DEF InsideOK
<1> QED
  BY <1>4, <1>9, <1>10

(* The mutex is taken: the caller joins the queue and is not inside yet. *)
LEMMA MarkBlockOK ==
    ASSUME MarkInv, At("wait"), WaitOn(mkmutex, [cont[currpid] EXCEPT !.at = "read"]),
           UNCHANGED markVars
    PROVE  TasksOK' /\ MutexOK' /\ InsideOK'
<1> DEFINE c  == [cont[currpid] EXCEPT !.at = "read"]
           st == [prstate EXCEPT ![currpid] = "WAIT"]
<1>1. /\ currpid \in Pid /\ prstate[currpid] = "CURR"
      /\ cont[currpid] \in Markings /\ cont[currpid].at = "wait"
  BY AtOK DEF MarkInv, Labels
<1>2. c \in Markings /\ c.at = "read"
  BY <1>1 DEF Markings, Labels
<1>3. /\ cont' = [cont EXCEPT ![currpid] = c]
      /\ sem' = Down(sem, mkmutex, currpid) /\ sem[mkmutex].count <= 0
      /\ Dispatch(st)
      /\ UNCHANGED <<marks, nmarks, content, mkmutex>>
  BY DEF WaitOn, Goto, markVars
<1>4. /\ st \in [Pid -> States] /\ \A p \in Pid : st[p] # "CURR"
      /\ \A p \in Pid : st[p] = "WAIT" <=> p = currpid \/ prstate[p] = "WAIT"
  BY <1>1 DEF States, MarkInv, TasksOK
<1> HIDE DEF c, st
<1>5. /\ TasksOK'
      /\ \A p \in Pid : prstate'[p] = "WAIT" <=> p = currpid \/ prstate[p] = "WAIT"
  BY <1>1, <1>2, <1>3, <1>4, DispatchOK DEF MarkInv, TasksOK
<1>6. /\ cont'[currpid] = c
      /\ \A p \in Pid : p # currpid => cont'[p] = cont[p]
  BY <1>1, <1>3 DEF MarkInv, TasksOK
<1>7. /\ Mutex.count \in Int /\ Mutex.queue \in Seq(Pid)
      /\ Mutex.count <= 0 /\ Len(Mutex.queue) + Mutex.count = 0 /\ mkmutex \in Sem
  BY <1>3 DEF Mutex, MarkInv, MutexOK
<1>8. /\ Sound(sem, mkmutex)'
      /\ Mutex'.count = Mutex.count - 1 /\ Mutex'.queue = Append(Mutex.queue, currpid)
  <2>1. Sound(sem, mkmutex) /\ ~(sem[mkmutex].count > 0)
    BY <1>7 DEF Mutex, MarkInv, MutexOK
  <2>2. /\ Sound(sem', mkmutex)
        /\ sem'[mkmutex].count = sem[mkmutex].count - 1
        /\ sem'[mkmutex].queue = Append(sem[mkmutex].queue, currpid)
    BY <1>1, <1>3, <1>7, <2>1, DownOK
  <2> QED
    BY <1>3, <2>2 DEF Mutex, Sound
<1>9. \A p \in Pid : Holds(p)' => Holds(p)
  BY <1>5, <1>6 DEF Holds
<1> DEFINE q == Mutex.queue
           r == Mutex'.queue
<1>10. /\ Len(r) = Len(q) + 1 /\ r[Len(r)] = currpid
       /\ \A n \in 1..Len(q) : r[n] = q[n]
       /\ Len(q) \in Nat /\ q \in Seq(Pid)
  BY <1>1, <1>7, <1>8
<1>11. \A n \in 1..Len(q) : q[n] # currpid
  BY <1>1 DEF MarkInv, MutexOK
<1>12. \A p \in Pid : prstate'[p] = "WAIT" <=> \E n \in 1..Len(r) : r[n] = p
  <2>1. \A p \in Pid : prstate[p] = "WAIT" <=> \E n \in 1..Len(q) : q[n] = p
    BY DEF MarkInv, MutexOK
  <2> QED
    BY <1>5, <1>10, <2>1
<1>13. \A m, n \in 1..Len(r) : r[m] = r[n] => m = n
  <2>1. \A m, n \in 1..Len(q) : q[m] = q[n] => m = n
    BY DEF MarkInv, MutexOK
  <2> QED
    BY <1>10, <1>11, <2>1
<1>14. \A p \in Pid : prstate'[p] = "WAIT" => cont'[p].at = "read"
  BY <1>2, <1>5, <1>6 DEF MarkInv, MutexOK
<1>15. \A p1, p2 \in Pid : Holds(p1)' /\ Holds(p2)' => p1 = p2
  BY <1>9 DEF MarkInv, MutexOK
<1>16. /\ mkmutex' \in Sem /\ Mutex'.count \in Int /\ r \in Seq(Pid)
       /\ Mutex'.count <= 1 /\ Mutex'.count # 1
       /\ Mutex'.count <= 0 => Len(r) + Mutex'.count = 0
  BY <1>1, <1>3, <1>7, <1>8, <1>10
<1> HIDE DEF q, r
<1>17. MutexOK'
  BY <1>8, <1>12, <1>13, <1>14, <1>15, <1>16 DEF MutexOK, q, r
<1>18. InsideOK'
  <2>1. ASSUME NEW p \in Pid, Holds(p)'
        PROVE  Holds(p) /\ p # currpid
    BY <1>5, <1>9, <2>1 DEF Holds
  <2> QED
    BY <1>3, <1>6, <2>1 DEF MarkInv, InsideOK, Marked
<1> QED
  BY <1>5, <1>17, <1>18

LEMMA MarkWaitOK ==
    ASSUME MarkInv, MarkWait
    PROVE  MarkInv'
<1>1. /\ currpid \in Pid /\ prstate[currpid] = "CURR"
      /\ cont[currpid] \in Markings /\ cont[currpid].at = "wait"
  BY AtOK DEF MarkWait, MarkInv, Labels
<1>2. TasksOK' /\ MutexOK' /\ InsideOK'
  BY MarkEnterOK, MarkBlockOK DEF MarkWait
<1>3. /\ cont' = [cont EXCEPT ![currpid] = [cont[currpid] EXCEPT !.at = "read"]]
      /\ UNCHANGED <<marks, nmarks, content, mkmutex>>
  BY DEF MarkWait, WaitOn, Goto, markVars
<1>4. /\ cont'[currpid].at = "read"
      /\ \A p \in Pid : p # currpid => cont'[p] = cont[p]
  BY <1>1, <1>3 DEF MarkInv, TasksOK, Markings
<1>5. TableOK' /\ FreshOK'
  BY <1>3 DEF MarkInv, TableOK, FreshOK
<1>6. Claimers' = Claimers
  BY <1>1, <1>4 DEF Claimers, Marker
<1>7. OverrunBounded'
  BY <1>3, <1>6 DEF MarkInv, OverrunBounded, Claimers
<1>8. EntriesFilled'
  BY <1>1, <1>3, <1>4 DEF MarkInv, EntriesFilled, Marker
<1> QED
  BY <1>2, <1>5, <1>7, <1>8 DEF MarkInv

(* What the release of the mutex does to the processes: its first waiter, if it
   has one, is ready or runs, and nobody else's waiting ends. *)
LEMMA WokenOK ==
    ASSUME MarkInv, currpid \in Pid, prstate[currpid] = "CURR",
           NEW woken \in SUBSET Pid, \A p \in woken : prstate[p] = "WAIT",
           Resched(woken), Return
    PROVE  /\ TasksOK'
           /\ \A p \in Pid : prstate'[p] = "WAIT" <=> prstate[p] = "WAIT" /\ p \notin woken
           /\ cont' = [cont EXCEPT ![currpid] = User]
<1>1. cont' = [cont EXCEPT ![currpid] = User]
  BY DEF Return, Goto
<1>2. cont' \in [Pid -> {User} \cup Markings]
  BY <1>1 DEF MarkInv, TasksOK
<1>3. CASE prstate' = Readied(woken) /\ UNCHANGED currpid
  <2>1. currpid \notin woken
    BY DEF States
  <2> QED
    BY <1>1, <1>2, <1>3, <2>1 DEF Readied, States, MarkInv, TasksOK
<1>4. CASE Dispatch(Readied(woken \cup {currpid}))
  <2> DEFINE st == Readied(woken \cup {currpid})
  <2>1. /\ st \in [Pid -> States] /\ \A p \in Pid : st[p] # "CURR"
        /\ \A p \in Pid : st[p] = "WAIT" <=> prstate[p] = "WAIT" /\ p \notin woken
    BY DEF Readied, States, MarkInv, TasksOK
  <2> HIDE DEF st
  <2>2. /\ currpid' \in Pid \cup {NULLPROC}
        /\ prstate' \in [Pid -> States]
        /\ \A p \in Pid : prstate'[p] = "CURR" <=> currpid' = p
        /\ \A p \in Pid : prstate'[p] = "WAIT" <=> st[p] = "WAIT"
    BY <1>4, <2>1, DispatchOK DEF st
  <2> QED
    BY <1>1, <1>2, <2>1, <2>2 DEF TasksOK
<1> QED
  BY <1>3, <1>4 DEF Resched

(* The first waiter leaves the queue, and the others keep their order. *)
LEMMA TailOK ==
    ASSUME NEW q \in Seq(Pid), Len(q) > 0,
           \A m, n \in 1..Len(q) : q[m] = q[n] => m = n
    PROVE  /\ Head(q) \in Pid /\ Head(q) = q[1]
           /\ Tail(q) \in Seq(Pid) /\ Len(Tail(q)) = Len(q) - 1
           /\ \A m, n \in 1..Len(Tail(q)) : Tail(q)[m] = Tail(q)[n] => m = n
           /\ \A p \in Pid : (\E n \in 1..Len(Tail(q)) : Tail(q)[n] = p)
                                <=> p # Head(q) /\ \E n \in 1..Len(q) : q[n] = p
<1>1. /\ Head(q) \in Pid /\ Head(q) = q[1] /\ Len(q) \in Nat
      /\ Tail(q) \in Seq(Pid) /\ Len(Tail(q)) = Len(q) - 1
      /\ \A n \in 1..Len(Tail(q)) : Tail(q)[n] = q[n + 1] /\ n + 1 \in 1..Len(q)
  OBVIOUS
<1>2. \A m, n \in 1..Len(Tail(q)) : Tail(q)[m] = Tail(q)[n] => m = n
  BY <1>1
<1>3. ASSUME NEW p \in Pid, NEW n \in 1..Len(Tail(q)), Tail(q)[n] = p
      PROVE  p # Head(q) /\ \E k \in 1..Len(q) : q[k] = p
  <2>1. q[n + 1] = p /\ n + 1 \in 1..Len(q) /\ n + 1 # 1 /\ 1 \in 1..Len(q)
    BY <1>1, <1>3
  <2> QED
    BY <1>1, <2>1
<1>4. ASSUME NEW p \in Pid, p # Head(q), NEW n \in 1..Len(q), q[n] = p
      PROVE  \E k \in 1..Len(Tail(q)) : Tail(q)[k] = p
  <2>1. n - 1 \in 1..Len(Tail(q)) /\ (n - 1) + 1 = n
    BY <1>1, <1>4
  <2> QED
    BY <1>1, <1>4, <2>1
<1> QED
  BY <1>1, <1>2, <1>3, <1>4

LEMMA MarkLeaveOK ==
    ASSUME MarkInv, MarkSignal
    PROVE  MutexOK' /\ InsideOK'
<1> DEFINE q == Mutex.queue
           woken == First(sem, mkmutex)
<1>1. /\ currpid \in Pid /\ prstate[currpid] = "CURR" /\ cont[currpid].at = "signal"
  BY AtOK DEF MarkSignal, MarkInv, Labels
<1>2. Holds(currpid)
  BY <1>1 DEF Holds, Inside
<1>3. /\ Sound(sem, mkmutex) /\ mkmutex \in Sem /\ mkmutex # None
      /\ Mutex.count \in Int /\ Mutex.count <= 0
      /\ q \in Seq(Pid) /\ Len(q) + Mutex.count = 0
      /\ \A m, n \in 1..Len(q) : q[m] = q[n] => m = n
      /\ \A p \in Pid : prstate[p] = "WAIT" <=> \E n \in 1..Len(q) : q[n] = p
  BY <1>1, <1>2, PidFinite, SMTT(30) DEF MarkInv, MutexOK
<1>4. UNCHANGED <<marks, nmarks, content, mkmutex>>
  BY DEF MarkSignal, markVars
<1>5. /\ Sound(sem', mkmutex)
      /\ sem'[mkmutex].count = Mutex.count + 1
      /\ sem'[mkmutex].queue = IF Mutex.count < 0 THEN Tail(q) ELSE q
  BY <1>3, UpOK DEF MarkSignal, Mutex
<1>6. Sound(sem, mkmutex)' /\ Mutex' = sem'[mkmutex]
  BY <1>4, <1>5 DEF Sound, Mutex
<1>7. woken = IF Mutex.count < 0 THEN {Head(q)} ELSE {}
  BY <1>3 DEF First, Mutex
<1> HIDE DEF woken, q
<1>8. ASSUME Mutex.count < 0
      PROVE  /\ Head(q) \in Pid /\ prstate[Head(q)] = "WAIT"
             /\ Tail(q) \in Seq(Pid) /\ Len(Tail(q)) = Len(q) - 1
             /\ \A m, n \in 1..Len(Tail(q)) : Tail(q)[m] = Tail(q)[n] => m = n
             /\ \A p \in Pid : (\E n \in 1..Len(Tail(q)) : Tail(q)[n] = p)
                                    <=> p # Head(q) /\ \E n \in 1..Len(q) : q[n] = p
  <2>1. Len(q) > 0
    BY <1>3, <1>8
  <2>2. Head(q) = q[1] /\ 1 \in 1..Len(q) /\ Head(q) \in Pid
    BY <1>3, <2>1, TailOK
  <2> QED
    BY <1>3, <2>1, <2>2, TailOK
<1>9. woken \in SUBSET Pid /\ \A p \in woken : prstate[p] = "WAIT"
  BY <1>7, <1>8
<1>10. /\ TasksOK' /\ cont' = [cont EXCEPT ![currpid] = User]
       /\ \A p \in Pid : prstate'[p] = "WAIT" <=> prstate[p] = "WAIT" /\ p \notin woken
  BY <1>1, <1>9, WokenOK DEF MarkSignal, woken
<1>11. /\ cont'[currpid].at = "user"
       /\ \A p \in Pid : p # currpid => cont'[p] = cont[p]
  BY <1>1, <1>10 DEF MarkInv, TasksOK, User
<1>12. \A p \in Pid : Holds(p)' => p \in woken /\ cont'[p].at = "read"
  <2>1. ASSUME NEW p \in Pid, Holds(p)'
        PROVE  p \in woken /\ cont'[p].at = "read"
    <3>1. p # currpid /\ cont'[p] = cont[p]
      BY <1>11, <2>1 DEF Holds, Inside
    <3>2. ~Holds(p)
      BY <1>1, <1>2, <3>1 DEF MarkInv, MutexOK
    <3>3. prstate[p] = "WAIT"
      BY <2>1, <3>1, <3>2 DEF Holds
    <3> QED
      BY <1>10, <2>1, <3>1, <3>3 DEF Holds, MarkInv, MutexOK
  <2> QED
    BY <2>1
<1>13. InsideOK'
  BY <1>12 DEF InsideOK
<1>14. \A p \in Pid : prstate'[p] = "WAIT" => cont'[p].at = "read"
  BY <1>1, <1>10, <1>11 DEF MarkInv, MutexOK
<1>15. \A p1, p2 \in Pid : Holds(p1)' /\ Holds(p2)' => p1 = p2
  BY <1>7, <1>12
<1>16. CASE Mutex.count < 0
  <2>1. Mutex'.count = Mutex.count + 1 /\ Mutex'.queue = Tail(q)
    BY <1>5, <1>6, <1>16
  <2>2. \A p \in Pid : prstate'[p] = "WAIT" <=> \E n \in 1..Len(Tail(q)) : Tail(q)[n] = p
    BY <1>3, <1>7, <1>8, <1>10, <1>16
  <2>3. /\ Mutex'.count \in Int /\ Mutex'.count <= 0 /\ Len(Tail(q)) + Mutex'.count = 0
    BY <1>3, <1>8, <1>16, <2>1
  <2> QED
    BY <1>3, <1>4, <1>6, <1>8, <1>13, <1>14, <1>15, <1>16, <2>1, <2>2, <2>3 DEF MutexOK
<1>17. CASE Mutex.count = 0
  <2>1. Mutex'.count = 1 /\ Mutex'.queue = q /\ Len(q) = 0 /\ woken = {}
    <3>1. ~(Mutex.count < 0) /\ Mutex.count + 1 = 1
      BY <1>17
    <3>2. Len(q) = 0
      BY <1>3, <1>17
    <3> QED
      BY <1>5, <1>6, <1>7, <3>1, <3>2
  <2>2. \A p \in Pid : ~Holds(p)'
    BY <1>12, <2>1
  <2>3. \A p \in Pid : prstate'[p] = "WAIT" <=> \E n \in 1..Len(q) : q[n] = p
    BY <1>3, <1>10, <2>1
  <2> QED
    BY <1>3, <1>4, <1>6, <1>13, <1>14, <1>15, <2>1, <2>2, <2>3 DEF MutexOK
<1> QED
  BY <1>3, <1>13, <1>16, <1>17

LEMMA MarkSignalOK ==
    ASSUME MarkInv, MarkSignal
    PROVE  MarkInv'
<1>1. /\ currpid \in Pid /\ prstate[currpid] = "CURR" /\ cont[currpid].at = "signal"
      /\ mkmutex \in Sem /\ mkmutex # None
  BY AtOK, PidFinite DEF MarkSignal, MarkInv, Labels, MutexOK
<1>2. MutexOK' /\ InsideOK'
  BY MarkLeaveOK
<1>3. UNCHANGED <<marks, nmarks, content, mkmutex>>
  BY DEF MarkSignal, markVars
<1>4. First(sem, mkmutex) \in SUBSET Pid /\ \A p \in First(sem, mkmutex) : prstate[p] = "WAIT"
  <2>1. CASE sem[mkmutex].count < 0
    <3>1. /\ Mutex.queue \in Seq(Pid) /\ Len(Mutex.queue) > 0
          /\ \A p \in Pid : prstate[p] = "WAIT"
                <=> \E n \in 1..Len(Mutex.queue) : Mutex.queue[n] = p
      BY <2>1 DEF Mutex, MarkInv, MutexOK
    <3>2. Head(Mutex.queue) = Mutex.queue[1] /\ 1 \in 1..Len(Mutex.queue)
          /\ Mutex.queue[1] \in Pid
      BY <3>1
    <3> QED
      BY <1>1, <2>1, <3>1, <3>2 DEF First, Mutex
  <2>2. CASE ~(sem[mkmutex].count < 0)
    BY <2>2 DEF First
  <2> QED
    BY <2>1, <2>2
<1>5. TasksOK' /\ cont' = [cont EXCEPT ![currpid] = User]
  BY <1>1, <1>4, WokenOK DEF MarkSignal
<1>6. /\ cont'[currpid].at = "user"
      /\ \A p \in Pid : p # currpid => cont'[p] = cont[p]
  BY <1>1, <1>5 DEF MarkInv, TasksOK, User
<1>7. TableOK' /\ FreshOK'
  BY <1>3 DEF MarkInv, TableOK, FreshOK
<1>8. Claimers' = Claimers
  BY <1>1, <1>6 DEF Claimers, Marker
<1>9. OverrunBounded'
  BY <1>3, <1>8 DEF MarkInv, OverrunBounded, Claimers
<1>10. EntriesFilled'
  BY <1>1, <1>3, <1>6 DEF MarkInv, EntriesFilled, Marker
<1> QED
  BY <1>2, <1>5, <1>7, <1>9, <1>10 DEF MarkInv

-----------------------------------------------------------------------------
(* The inductive invariant of marking, for any interleaving of any number of
   calls: mutual exclusion by the semaphore, the progress of the process inside,
   and a claim to a place in the table for every process that saw room. *)
THEOREM MarksInvariant == MarkSpec => []MarkInv
<1>1. MarkInv /\ [MarkNext]_<<taskVars, markVars>> => MarkInv'
  <2> SUFFICES ASSUME MarkInv, [MarkNext]_<<taskVars, markVars>>
               PROVE  MarkInv'
    OBVIOUS
  <2>1. CASE UNCHANGED <<taskVars, markVars>>
    BY <2>1, SameOK DEF taskVars, markVars
  <2>2. CASE MarkNext
    BY <2>2, MarkOK, MarkRoomOK, MarkWaitOK, MarkReadOK, MarkTakeOK, MarkStoreOK,
       MarkSignalOK, MarkPreemptOK DEF MarkNext, MarkStep
  <2> QED
    BY <2>1, <2>2
<1> QED
  BY MarkInitOK, <1>1, PTL DEF MarkSpec

(* The unprotected test for room lets fewer marks through than there are processes. *)
THEOREM OverrunIsBounded == MarkSpec => []OverrunBounded
<1>1. MarkInv => OverrunBounded
  BY DEF MarkInv
<1> QED
  BY MarksInvariant, <1>1, PTL

(* No index is given out twice, and none is left without its location. *)
THEOREM EntriesAreFilled == MarkSpec => []EntriesFilled
<1>1. MarkInv => EntriesFilled
  BY DEF MarkInv
<1> QED
  BY MarksInvariant, <1>1, PTL

(* mark returns OK only when its location is marked. *)
THEOREM ReturnsMarked == MarkSpec => []MarkedOnReturn
<1>1. MarkInv => MarkedOnReturn
  <2> SUFFICES ASSUME MarkInv, NEW p \in Pid, Marker(p, {"signal"})
               PROVE  Marked(cont[p].loc)
    BY DEF MarkedOnReturn
  <2>1. Holds(p)
    BY DEF Holds, Marker, Inside, MarkInv, MutexOK
  <2> QED
    BY <2>1 DEF Marker, MarkInv, InsideOK
<1> QED
  BY MarksInvariant, <1>1, PTL

(* What is marked stays marked, whatever is marked after it, except while it is
   marked a second time. *)
THEOREM MarksPersist == MarkSpec => MarksStay
<1> DEFINE Stays == \A loc \in Loc : Marked(loc) =>
                        \/ Marked(loc)'
                        \/ \E p \in Pid : Marker(p, {"store"})' /\ (cont[p].loc)' = loc
<1>1. MarkInv /\ [MarkNext]_<<taskVars, markVars>> => [Stays]_markVars
  <2> SUFFICES ASSUME MarkInv, MarkNext, NEW loc \in Loc, Marked(loc),
                      ~UNCHANGED markVars
               PROVE  \/ Marked(loc)'
                      \/ \E p \in Pid : Marker(p, {"store"})' /\ (cont[p].loc)' = loc
    BY DEF markVars, taskVars
  <2>1. MarkTake \/ MarkStore
    BY DEF MarkNext, MarkStep, Mark, MarkRoom, MarkWait, MarkRead, MarkSignal, MarkPreempt
  <2>2. CASE MarkTake
    <3> DEFINE c == [cont[currpid] EXCEPT !.at = "store"]
    <3>1. /\ currpid \in Pid /\ cont[currpid] \in Markings /\ cont[currpid].at = "take"
          /\ prstate[currpid] = "CURR"
      BY <2>2, AtOK DEF MarkTake, MarkInv, Labels
    <3>2. cont[currpid].i = nmarks /\ nmarks \in Nat
      BY <3>1 DEF MarkInv, InsideOK, TableOK, Holds, Inside
    <3>3. /\ cont' = [cont EXCEPT ![currpid] = c] /\ UNCHANGED marks
          /\ content' = [content EXCEPT ![cont[currpid].loc] = nmarks]
          /\ nmarks' = nmarks + 1
      BY <2>2, <3>2 DEF MarkTake, Goto
    <3>4. CASE loc = cont[currpid].loc
      <4>1. cont'[currpid].at = "store" /\ cont'[currpid].loc = loc
        BY <3>1, <3>3, <3>4 DEF MarkInv, TasksOK, Markings
      <4> QED
        BY <3>1, <4>1 DEF Marker
    <3>5. CASE loc # cont[currpid].loc
      BY <3>2, <3>3, <3>5 DEF Marked, MarkInv, TableOK
    <3> QED
      BY <3>4, <3>5
  <2>3. CASE MarkStore
    <3>1. /\ currpid \in Pid /\ cont[currpid] \in Markings /\ cont[currpid].at = "store"
          /\ prstate[currpid] = "CURR"
      BY <2>3, AtOK DEF MarkStore, MarkInv, Labels
    <3>2. marks[cont[currpid].i] = None
      BY <3>1 DEF MarkInv, InsideOK, Holds, Inside
    <3>3. /\ marks' = [marks EXCEPT ![cont[currpid].i] = cont[currpid].loc]
          /\ UNCHANGED <<nmarks, content>>
      BY <2>3 DEF MarkStore
    <3>4. content[loc] # cont[currpid].i
      BY <3>2, PidFinite DEF Marked
    <3> QED
      BY <3>3, <3>4 DEF Marked, MarkInv, TableOK
  <2> QED
    BY <2>1, <2>2, <2>3
<1> QED
  BY MarksInvariant, <1>1, PTL DEF MarkSpec, MarksStay

-----------------------------------------------------------------------------
(* The time of day *)
TimeTypeOK ==
    /\ clktime \in Nat /\ dt_boot \in Int /\ server \in Nat
    /\ tpc \in [Caller -> {"idle", "register", "send", "recv", "release", "boot", "valid"}]
    /\ now \in [Caller -> Int]
    /\ told \in [Caller -> Int \cup {Nobody}]
    /\ slot \in Caller \cup {Nobody}
    /\ answers \subseteq Nat /\ due \in BOOLEAN

(* The second of ours that may end before the server's next one does. *)
Ahead == IF due THEN 1 ELSE 0

(* All that is known of the time is the server's, of some moment that has
   passed: answers on their way and answers received.  To the time of boot,
   one second may be added before the server's next one ends, and no more. *)
Behind ==
    /\ \A t \in answers : t <= server
    /\ \A p \in Caller : now[p] <= server
    /\ dt_boot + clktime + Ahead <= server + 1
    /\ \A p \in Caller : told[p] # Nobody => told[p] + ZONE <= server + 1

TimeInv == TimeTypeOK /\ Behind /\ SlotReleased

LEMMA TimeInitOK == TimeInit => TimeInv
<1> SUFFICES ASSUME TimeInit PROVE TimeInv
  OBVIOUS
<1> USE TimeAssumption DEF TimeInit
<1>1. TimeTypeOK
  BY DEF TimeTypeOK
<1>2. Behind
  BY DEF Behind, Ahead
<1>3. SlotReleased
  BY DEF SlotReleased
<1> QED
  BY <1>1, <1>2, <1>3 DEF TimeInv

(* Types and bounds, one step per action of getutime. *)
LEMMA TimeStepOK ==
    ASSUME TimeInv, [TimeNext]_timeVars
    PROVE  TimeTypeOK' /\ Behind'
<1> USE TimeAssumption DEF TimeInv, TimeTypeOK, Behind, Ahead
<1>1. CASE UNCHANGED timeVars
  BY <1>1 DEF timeVars
<1>2. ASSUME NEW p \in Caller, GetTime(p)
      PROVE  TimeTypeOK' /\ Behind'
  <2>1. CASE Told(p, dt_boot + clktime)
    BY <1>2, <2>1 DEF GetTime, Told, GotoT
  <2>2. CASE GotoT(p, "register") /\ UNCHANGED told
    <3>1. TimeTypeOK'
      BY <1>2, <2>2 DEF GetTime, GotoT
    <3>2. Behind'
      BY <1>2, <2>2 DEF GetTime
    <3> QED
      BY <3>1, <3>2
  <2>3. Told(p, dt_boot + clktime) \/ (GotoT(p, "register") /\ UNCHANGED told)
    BY ONLY <1>2, Zenon DEF GetTime
  <2> QED
    BY <2>1, <2>2, <2>3
<1>3. ASSUME NEW p \in Caller, NoAddress(p)
      PROVE  TimeTypeOK' /\ Behind'
  BY <1>3 DEF NoAddress, Failed, GotoT
<1>4. ASSUME NEW p \in Caller, Register(p)
      PROVE  TimeTypeOK' /\ Behind'
  BY <1>4 DEF Register, Failed, GotoT
<1>5. ASSUME NEW p \in Caller, SendRequest(p)
      PROVE  TimeTypeOK' /\ Behind'
  <2>1. TimeTypeOK'
    BY <1>5 DEF SendRequest, Failed, GotoT
  <2>2. Behind'
    <3>1. answers' \subseteq answers \cup {server}
      BY ONLY <1>5, Zenon DEF SendRequest
    <3>2. \A q \in Caller : told'[q] # Nobody => told'[q] = told[q]
      BY <1>5 DEF SendRequest, Failed
    <3> QED
      BY <1>5, <3>1, <3>2 DEF SendRequest
  <2> QED
    BY <2>1, <2>2
<1>6. ASSUME NEW p \in Caller, Timeout(p)
      PROVE  TimeTypeOK' /\ Behind'
  BY <1>6 DEF Timeout, Failed, GotoT
<1>7. ASSUME NEW p \in Caller, UdpRelease(p)
      PROVE  TimeTypeOK' /\ Behind'
  BY <1>7 DEF UdpRelease, GotoT
<1>8. ASSUME NEW p \in Caller, SetBoot(p)
      PROVE  TimeTypeOK' /\ Behind'
  BY <1>8 DEF SetBoot, GotoT
<1>9. ASSUME NEW p \in Caller, SetValid(p)
      PROVE  TimeTypeOK' /\ Behind'
  BY <1>9 DEF SetValid, Told, GotoT
<1>10. ASSUME NEW p \in Caller, NEW t \in answers, Receive(p, t)
       PROVE  TimeTypeOK' /\ Behind'
  BY <1>10 DEF Receive, GotoT
<1>11. CASE Second
  <2>1. due /\ due' = FALSE /\ clktime' = clktime + 1
        /\ UNCHANGED <<dt_boot, dt_bootvalid, tpc, now, slot, answers, server, told>>
    BY ONLY <1>11, Zenon DEF Second
  <2>2. Ahead = 1 /\ Ahead' = 0 /\ due' \in BOOLEAN
    <3>1. ~due'
      BY ONLY <2>1, Zenon
    <3> QED
      BY ONLY <2>1, <3>1, Zenon DEF Ahead
  <2>3. TimeTypeOK'
    <3>1. clktime' \in Nat
      BY <2>1
    <3> QED
      BY ONLY <2>1, <2>2, <3>1, TimeTypeOK DEF TimeTypeOK
  <2>4. dt_boot' + clktime' + Ahead' <= server' + 1
    <3>1. /\ dt_boot + clktime + Ahead <= server + 1
          /\ dt_boot \in Int /\ clktime \in Nat /\ server \in Nat
      BY ONLY TimeTypeOK, Behind DEF TimeTypeOK, Behind
    <3>2. dt_boot' = dt_boot /\ clktime' = clktime + 1 /\ server' = server
      BY <2>1
    <3> QED
      BY ONLY <2>2, <3>1, <3>2
  <2>5. Behind'
    BY ONLY <2>1, <2>4, TimeTypeOK, Behind, TimeAssumption DEF TimeTypeOK, Behind, TimeAssumption
  <2> QED
    BY <2>3, <2>5
<1>13. CASE ServerSecond
  <2>1. due' = TRUE /\ server' = server + 1
        /\ UNCHANGED <<clktime, dt_boot, dt_bootvalid, tpc, now, slot, answers, told>>
    BY ONLY <1>13, Zenon DEF ServerSecond
  <2>2. Ahead' = 1 /\ due' \in BOOLEAN
    BY ONLY <2>1, Zenon DEF Ahead
  <2>3. Ahead \in {0, 1}
    BY ONLY Zenon DEF Ahead
  <2>4. TimeTypeOK'
    BY ONLY <2>1, <2>2, TimeTypeOK DEF TimeTypeOK
  <2>5. dt_boot' + clktime' + Ahead' <= server' + 1
    <3>1. /\ dt_boot + clktime + Ahead <= server + 1
          /\ dt_boot \in Int /\ clktime \in Nat /\ server \in Nat
      BY ONLY TimeTypeOK, Behind DEF TimeTypeOK, Behind
    <3>2. dt_boot' = dt_boot /\ clktime' = clktime /\ server' = server + 1
      BY <2>1
    <3> QED
      BY ONLY <2>2, <2>3, <3>1, <3>2
  <2>6. Behind'
    BY ONLY <2>1, <2>5, TimeTypeOK, Behind, TimeAssumption DEF TimeTypeOK, Behind, TimeAssumption
  <2> QED
    BY <2>4, <2>6
<1>12. ASSUME NEW t \in answers, Lost(t)
       PROVE  TimeTypeOK' /\ Behind'
  BY <1>12 DEF Lost
<1> QED
  BY <1>1, <1>2, <1>3, <1>4, <1>5, <1>6, <1>7, <1>8, <1>9, <1>10, <1>11, <1>12, <1>13
  DEF TimeNext

(* The slot and the place of its owner change together. *)
LEMMA SlotStepOK ==
    ASSUME TimeInv, [TimeNext]_timeVars
    PROVE  SlotReleased'
<1> USE TimeAssumption DEF TimeInv, TimeTypeOK, SlotReleased
<1>1. CASE UNCHANGED timeVars
  BY <1>1 DEF timeVars
<1>2. ASSUME NEW p \in Caller, GetTime(p) \/ NoAddress(p) \/ Register(p) \/ SendRequest(p)
      PROVE  SlotReleased'
  BY <1>2 DEF GetTime, NoAddress, Register, SendRequest, Told, Failed, GotoT
<1>3. ASSUME NEW p \in Caller, Timeout(p) \/ UdpRelease(p) \/ SetBoot(p) \/ SetValid(p)
      PROVE  SlotReleased'
  BY <1>3 DEF Timeout, UdpRelease, SetBoot, SetValid, Told, Failed, GotoT
<1>4. ASSUME NEW p \in Caller, NEW t \in answers, Receive(p, t)
      PROVE  SlotReleased'
  BY <1>4 DEF Receive, GotoT
<1>5. CASE Second \/ ServerSecond \/ \E t \in answers : Lost(t)
  BY <1>5 DEF Second, ServerSecond, Lost
<1> QED
  BY <1>1, <1>2, <1>3, <1>4, <1>5 DEF TimeNext

(* The inductive invariant of getutime: whatever the network and the other
   callers do, every answer that is stored anywhere is a time that has passed,
   and the time of boot leaves room for the second that is due. *)
THEOREM TimeInvariant == TimeSpec => []TimeInv
<1>1. TimeInv /\ [TimeNext]_timeVars => TimeInv'
  BY TimeStepOK, SlotStepOK DEF TimeInv
<1> QED
  BY TimeInitOK, <1>1, PTL DEF TimeSpec

(* No caller is told a time more than one second ahead of the server's, and
   neither the answer that comes late, nor the one that another caller sets
   last, nor the phase in which our seconds are counted, makes it more. *)
THEOREM ClockBarelyAhead == TimeSpec => []BarelyAhead
<1>1. TimeInv => BarelyAhead
  BY TimeAssumption DEF TimeInv, TimeTypeOK, Behind, Ahead, BarelyAhead
<1> QED
  BY TimeInvariant, <1>1, PTL

(* Every way out of getutime releases the slot that it has registered. *)
THEOREM SlotAlwaysReleased == TimeSpec => []SlotReleased
<1>1. TimeInv => SlotReleased
  BY DEF TimeInv
<1> QED
  BY TimeInvariant, <1>1, PTL

-----------------------------------------------------------------------------
(* Dates *)

(* What the loops over years and months add up to, in closed form: the days
   before a year, and before a month in its year. *)
Extra(y)          == IF IsLeap(y) THEN 1 ELSE 0
YearStart(y)      == 365 * (y - 1970) + LeapYears(y)
MonthOffset(y, m) == IF m < 2 THEN 31 * m ELSE 59 + Extra(y) + (153 * (m - 2) + 2) \div 5

LEMMA YearStartStep ==
    ASSUME NEW y \in 1970..2100
    PROVE  /\ YearStart(y) \in Nat /\ Length(y) = 365 + Extra(y)
           /\ YearStart(y + 1) = YearStart(y) + Length(y)
BY DEF YearStart, LeapYears, Length, IsLeap, Extra

LEMMA DaysBeforeIs == \A y \in 1970..2100 : DaysBefore[y] = YearStart(y)
<1> DEFINE Y     == Years \cup {2100}
           Eq(f) == f = [year \in Y |-> IF year = 1970 THEN 0 ELSE f[year - 1] + Length(year - 1)]
           g     == [year \in Y |-> YearStart(year)]
<1>1. Y = 1970..2100
    BY DEF Years
<1>2. YearStart(1970) = 0
    BY DEF YearStart, LeapYears
<1>3. ASSUME NEW y \in Y, y # 1970 PROVE g[y] = g[y - 1] + Length(y - 1)
    <2>1. y - 1 \in Y /\ y - 1 \in 1970..2100 /\ (y - 1) + 1 = y
        BY <1>1, <1>3
    <2> QED
        BY <2>1, YearStartStep
<1>4. Eq(g)
    BY <1>2, <1>3
<1>5. \E f : Eq(f)
    <2> HIDE DEF g, Eq
    <2> QED
        BY <1>4
<1>6. DaysBefore = CHOOSE f : Eq(f)
    BY DEF DaysBefore
<1>7. Eq(DaysBefore)
    <2> HIDE DEF Eq
    <2> QED
        BY <1>5, <1>6
<1> DEFINE Good == {k \in Nat : k <= 130 => DaysBefore[1970 + k] = YearStart(1970 + k)}
<1>8. 0 \in Good
    BY <1>1, <1>2, <1>7
<1>9. ASSUME NEW k \in Nat, k \in Good PROVE k + 1 \in Good
    <2> SUFFICES ASSUME k + 1 <= 130 PROVE DaysBefore[1970 + (k + 1)] = YearStart(1970 + (k + 1))
        OBVIOUS
    <2>1. /\ 1970 + k \in 1970..2100 /\ 1970 + (k + 1) \in Y /\ 1970 + (k + 1) # 1970
          /\ (1970 + k) + 1 = 1970 + (k + 1) /\ (1970 + (k + 1)) - 1 = 1970 + k
        BY <1>1
    <2>2. DaysBefore[1970 + (k + 1)] = DaysBefore[1970 + k] + Length(1970 + k)
        BY <1>7, <2>1
    <2> QED
        BY <1>9, <2>1, <2>2, YearStartStep
<1>10. \A k \in Nat : k \in Good
    <2> HIDE DEF Good
    <2> QED
        BY <1>8, <1>9, NaturalInduction
<1>11. ASSUME NEW y \in 1970..2100 PROVE DaysBefore[y] = YearStart(y)
    <2>1. y - 1970 \in Nat /\ y - 1970 <= 130 /\ 1970 + (y - 1970) = y
        OBVIOUS
    <2> QED
        BY <1>10, <2>1
<1> QED
    BY <1>11

LEMMA DaysInIs ==
    ASSUME NEW y, NEW m \in 0..11
    PROVE  /\ MonthOffset(y, m + 1) = MonthOffset(y, m) + DaysIn(y, m)
           /\ MonthOffset(y, m) \in Nat /\ DaysIn(y, m) \in 28..31
           /\ MonthOffset(y, 0) = 0 /\ MonthOffset(y, 12) = 365 + Extra(y)
<1>1. \/ m = 0 \/ m = 1 \/ m = 2 \/ m = 3 \/ m = 4 \/ m = 5 \/ m = 6 \/ m = 7
      \/ m = 8 \/ m = 9 \/ m = 10 \/ m = 11
    OBVIOUS
<1>2. MonthSize[m] = IF m = 1 THEN 28 ELSE IF m \in {3, 5, 8, 10} THEN 30 ELSE 31
    BY DEF MonthSize
<1> QED
    BY <1>1, <1>2 DEF MonthOffset, DaysIn, Extra

LEMMA MonthStartIs ==
    ASSUME NEW y
    PROVE  \A m \in 0..12 : MonthStart(y)[m] = MonthOffset(y, m)
<1> DEFINE Eq(f) == f = [m \in 0..12 |-> IF m = 0 THEN 0 ELSE f[m - 1] + DaysIn(y, m - 1)]
           g     == [m \in 0..12 |-> MonthOffset(y, m)]
           start == MonthStart(y)
<1>1. ASSUME NEW m \in 0..12, m # 0 PROVE g[m] = g[m - 1] + DaysIn(y, m - 1)
    <2>1. m - 1 \in 0..11 /\ m - 1 \in 0..12 /\ (m - 1) + 1 = m
        BY <1>1
    <2> QED
        BY <2>1, DaysInIs
<1>2. MonthOffset(y, 0) = 0
    BY DEF MonthOffset
<1>3. Eq(g)
    BY <1>1, <1>2
<1>4. \E f : Eq(f)
    BY <1>3
<1>5. start = CHOOSE f : Eq(f)
    BY DEF MonthStart
<1>6. Eq(start)
    <2> HIDE DEF Eq, start
    <2> QED
        BY <1>4, <1>5
<1> HIDE DEF start
<1> DEFINE Good == {k \in Nat : k <= 12 => start[k] = MonthOffset(y, k)}
<1>7. 0 \in Good
    BY <1>2, <1>6
<1>8. ASSUME NEW k \in Nat, k \in Good PROVE k + 1 \in Good
    <2> SUFFICES ASSUME k + 1 <= 12 PROVE start[k + 1] = MonthOffset(y, k + 1)
        OBVIOUS
    <2>1. k \in 0..11 /\ k + 1 \in 0..12 /\ k + 1 # 0 /\ (k + 1) - 1 = k
        OBVIOUS
    <2>2. start[k + 1] = start[k] + DaysIn(y, k)
        BY <1>6, <2>1
    <2> QED
        BY <1>8, <2>1, <2>2, DaysInIs
<1>9. \A k \in Nat : k \in Good
    <2> HIDE DEF Good
    <2> QED
        BY <1>7, <1>8, NaturalInduction
<1> QED
    BY <1>9 DEF start

(* The loops of ascdate find a year and a month. *)
LEMMA YearExists ==
    ASSUME NEW d \in Nat, d < 130 * 365 + 32
    PROVE  \E y \in Years : YearStart(y) <= d /\ d < YearStart(y + 1)
<1> DEFINE Good == {k \in Nat : k <= 130 /\ d < YearStart(1970 + k) =>
                        \E y \in Years : YearStart(y) <= d /\ d < YearStart(y + 1)}
<1>1. 0 \in Good
    BY DEF YearStart, LeapYears
<1>2. ASSUME NEW k \in Nat, k \in Good PROVE k + 1 \in Good
    <2> SUFFICES ASSUME k + 1 <= 130, d < YearStart(1970 + (k + 1))
                 PROVE  \E y \in Years : YearStart(y) <= d /\ d < YearStart(y + 1)
        OBVIOUS
    <2>1. 1970 + k \in Years /\ (1970 + k) + 1 = 1970 + (k + 1) /\ YearStart(1970 + k) \in Nat
        BY YearStartStep DEF Years
    <2> QED
        BY <1>2, <2>1
<1>3. 130 \in Good
    <2> HIDE DEF Good
    <2> QED
        BY <1>1, <1>2, NaturalInduction
<1>4. YearStart(1970 + 130) = 130 * 365 + 32
    BY DEF YearStart, LeapYears
<1> QED
    BY <1>3, <1>4

LEMMA YearIs ==
    ASSUME NEW t0 \in Nat, t0 \div SECPERDY \in Nat, t0 \div SECPERDY < 130 * 365 + 32
    PROVE  /\ YearOf(t0) \in Years
           /\ YearStart(YearOf(t0)) <= t0 \div SECPERDY
           /\ t0 \div SECPERDY < YearStart(YearOf(t0)) + 365 + Extra(YearOf(t0))
<1> DEFINE d == t0 \div SECPERDY
           OK(y) == DaysBefore[y] <= d /\ d < DaysBefore[y + 1]
<1>1. \A y \in Years : y \in 1970..2100 /\ y + 1 \in 1970..2100
    BY DEF Years
<1>2. \E y \in Years : OK(y)
    <2> HIDE DEF d
    <2>1. d \in Nat /\ d < 130 * 365 + 32
        BY DEF d
    <2> QED
        <3>1. PICK y \in Years : YearStart(y) <= d /\ d < YearStart(y + 1)
            BY <2>1, YearExists
        <3> QED
            BY <1>1, <3>1, DaysBeforeIs
<1>3. YearOf(t0) = CHOOSE y \in Years : OK(y)
    BY DEF YearOf
<1> HIDE DEF OK
<1>4. YearOf(t0) \in Years /\ OK(YearOf(t0))
    BY <1>2, <1>3
<1>5. YearOf(t0) \in 1970..2100 /\ YearOf(t0) + 1 \in 1970..2100
    BY <1>1, <1>4
<1>6. PICK y \in Years : y = YearOf(t0) /\ y \in 1970..2100 /\ y + 1 \in 1970..2100 /\ OK(y)
    BY <1>4, <1>5
<1>7. YearStart(y) <= t0 \div SECPERDY /\ t0 \div SECPERDY < YearStart(y + 1)
    BY <1>6, DaysBeforeIs DEF OK
<1>8. YearStart(y) \in Nat /\ Length(y) = 365 + Extra(y) /\ YearStart(y + 1) = YearStart(y) + Length(y)
    BY <1>6, YearStartStep
<1>9. Extra(y) \in Nat
    BY DEF Extra
<1>10. t0 \div SECPERDY < YearStart(y) + 365 + Extra(y)
    BY <1>7, <1>8, <1>9
<1> QED
    BY <1>6, <1>7, <1>10

LEMMA MonthIs ==
    ASSUME NEW y, NEW days \in Nat, days < 365 + Extra(y)
    PROVE  /\ MonthOf(y, days) \in 0..11
           /\ MonthOffset(y, MonthOf(y, days)) <= days
           /\ days < MonthOffset(y, MonthOf(y, days)) + DaysIn(y, MonthOf(y, days))
<1> DEFINE OK(m) == MonthStart(y)[m] <= days /\ days < MonthStart(y)[m + 1]
<1>1. \A m \in 0..11 : m \in 0..12 /\ m + 1 \in 0..12
    OBVIOUS
<1> DEFINE Good == {k \in Nat : k <= 12 /\ days < MonthOffset(y, k) =>
                        \E m \in 0..11 : MonthOffset(y, m) <= days /\ days < MonthOffset(y, m + 1)}
<1>2. 0 \in Good
    BY DEF MonthOffset
<1>3. ASSUME NEW k \in Nat, k \in Good PROVE k + 1 \in Good
    <2> SUFFICES ASSUME k + 1 <= 12, days < MonthOffset(y, k + 1)
                 PROVE  \E m \in 0..11 : MonthOffset(y, m) <= days /\ days < MonthOffset(y, m + 1)
        OBVIOUS
    <2>1. k \in 0..11 /\ MonthOffset(y, k) \in Nat
        BY DaysInIs
    <2> QED
        BY <1>3, <2>1
<1>4. 12 \in Good
    <2> HIDE DEF Good
    <2> QED
        BY <1>2, <1>3, NaturalInduction
<1>5. \E m \in 0..11 : MonthOffset(y, m) <= days /\ days < MonthOffset(y, m + 1)
    <2>1. 0 \in 0..11
        OBVIOUS
    <2>2. MonthOffset(y, 12) = 365 + Extra(y)
        BY <2>1, DaysInIs
    <2> QED
        BY <1>4, <2>2
<1>6. \E m \in 0..11 : OK(m)
    BY <1>1, <1>5, MonthStartIs
<1>7. MonthOf(y, days) = CHOOSE m \in 0..11 : OK(m)
    BY DEF MonthOf
<1> HIDE DEF OK
<1>8. MonthOf(y, days) \in 0..11 /\ OK(MonthOf(y, days))
    BY <1>6, <1>7
<1> QED
    BY <1>1, <1>8, MonthStartIs, DaysInIs DEF OK

(* Division by a unit of time. *)
LEMMA Division ==
    ASSUME NEW a \in Nat, NEW b \in Nat \ {0}
    PROVE  a \div b \in Nat /\ a % b \in 0..(b - 1) /\ a = (a \div b) * b + (a % b)
OBVIOUS

LEMMA Digits ==
    ASSUME NEW b \in Nat \ {0}, NEW p \in Int, NEW q \in Int, NEW r \in 0..(b - 1), NEW c \in 0..(b - 1)
    PROVE  (p * b + r >= q * b + c) <=> (p > q \/ (p = q /\ r >= c))
<1>1. p * b \in Int /\ q * b \in Int
    OBVIOUS
<1>2. CASE p = q
    BY <1>1, <1>2
<1>3. CASE p > q
    <2>1. p * b >= (q + 1) * b /\ (q + 1) * b = q * b + b
        BY <1>3
    <2> QED
        BY <1>1, <1>3, <2>1
<1>4. CASE p < q
    <2>1. q * b >= (p + 1) * b /\ (p + 1) * b = p * b + b
        BY <1>4
    <2> QED
        BY <1>1, <1>4, <2>1
<1> QED
    BY <1>2, <1>3, <1>4

LEMMA QuotientIs ==
    ASSUME NEW b \in Nat \ {0}, NEW q \in Nat, NEW r \in 0..(b - 1)
    PROVE  (q * b + r) \div b = q /\ (q * b + r) % b = r
<1>1. PICK a \in Nat : a = q * b + r
    OBVIOUS
<1>2. PICK p \in Nat, s \in 0..(b - 1) : p = a \div b /\ s = a % b /\ a = p * b + s
    BY Division
<1>3. p * b + s = q * b + r
    BY <1>1, <1>2
<1>4. (p > q \/ (p = q /\ s >= r)) /\ (q > p \/ (q = p /\ r >= s))
    <2>1. p * b \in Int /\ q * b \in Int
        OBVIOUS
    <2>2. p * b + s >= q * b + r /\ q * b + r >= p * b + s
        BY <1>3, <2>1
    <2> QED
        BY <2>2, Digits
<1> QED
    BY <1>1, <1>2, <1>4

-----------------------------------------------------------------------------
(* The reference calendar in the same terms. *)
Reckonable(y, k, d) == y \in 1970..2100 /\ k \in 1..12 /\ d \in Int /\ (y # 2100 \/ k = 1)
Reckoned(y, k, d) == DayNumber(y, k, d) = YearStart(y) + MonthOffset(y, k - 1) + d - 1

LEMMA DayNumberIs ==
    ASSUME NEW y, NEW k, NEW d, Reckonable(y, k, d)
    PROVE  Reckoned(y, k, d)
<1> USE DEF Reckonable, Reckoned
<1>1. ASSUME NEW z \in 1969..2099 PROVE LeapDays(z) - LeapDays(1969) = z \div 4 - 492
    <2>1. LeapDays(1969) = 477
        BY DEF LeapDays
    <2>2. (z \div 100 = 19 /\ z \div 400 = 4) \/ (z \div 100 = 20 /\ z \div 400 = 5)
        OBVIOUS
    <2> QED
        BY <2>1, <2>2 DEF LeapDays
<1>2. CASE k <= 2
    <2>1. DayNumber(y, k, d) =
            365 * ((y - 1) - 1970) + (LeapDays(y - 1) - LeapDays(1969)) + (306 + 31 * (k - 1)) + 58 + d
        <3>1. k = 1 \/ k = 2
            BY <1>2
        <3>2. (153 * ((k + 9) % 12) + 2) \div 5 = 306 + 31 * (k - 1)
            BY <3>1
        <3>3. LeapDays(y - 1) \in Int /\ LeapDays(1969) \in Int
            BY DEF LeapDays
        <3> QED
            BY <1>2, <3>2, <3>3 DEF DayNumber
    <2>2. LeapDays(y - 1) - LeapDays(1969) = (y - 1) \div 4 - 492
        BY <1>1
    <2> QED
        BY <1>2, <2>1, <2>2 DEF YearStart, MonthOffset, LeapYears
<1>3. CASE k > 2
    <2>1. DayNumber(y, k, d) =
            365 * (y - 1970) + (LeapDays(y) - LeapDays(1969)) + (153 * (k - 3) + 2) \div 5 + 58 + d
        <3>1. (k + 9) % 12 = k - 3
            BY <1>3
        <3>2. LeapDays(y) \in Int /\ LeapDays(1969) \in Int
            BY DEF LeapDays
        <3> QED
            BY <1>3, <3>1, <3>2 DEF DayNumber
    <2>2. LeapDays(y) - LeapDays(1969) = y \div 4 - 492
        BY <1>1, <1>3
    <2>3. y \div 4 - 492 = LeapYears(y) + Extra(y)
        BY DEF LeapYears, Extra, IsLeap
    <2> QED
        BY <1>3, <2>1, <2>2, <2>3 DEF YearStart, MonthOffset, LeapYears, Extra
<1> QED
    BY <1>2, <1>3

LEMMA LengthsAgree ==
    ASSUME NEW y \in Years, NEW m \in 0..11
    PROVE  MonthLength(y, m + 1) = DaysIn(y, m) /\ (Leap(y) <=> IsLeap(y))
<1>1. Leap(y) <=> IsLeap(y)
    BY DEF Years, Leap, IsLeap
<1>2. MonthSize[m] = IF m = 1 THEN 28 ELSE IF m \in {3, 5, 8, 10} THEN 30 ELSE 31
    BY DEF MonthSize
<1> QED
    BY <1>1, <1>2 DEF MonthLength, DaysIn

-----------------------------------------------------------------------------
(* What ascdate works out from the seconds before it looks at daylight saving. *)
Dated(d, t0) ==
    /\ DOMAIN d = {"year", "month", "day", "hour", "minute", "second", "weekday", "dst"}
    /\ d.year \in Years /\ d.month \in 0..11 /\ d.day \in 1..DaysIn(d.year, d.month)
    /\ d.hour \in 0..23 /\ d.minute \in Nat /\ d.second \in Nat
    /\ t0 \div SECPERDY = YearStart(d.year) + MonthOffset(d.year, d.month) + d.day - 1
    /\ t0 % SECPERDY = d.hour * SECPERHR + (d.minute * SECPERMN + d.second)
    /\ d.minute * SECPERMN + d.second \in 0..(SECPERHR - 1)
    /\ d.weekday = WeekdayOf(t0)

LEMMA Units3 ==
    /\ SECPERDY \in Nat \ {0} /\ SECPERHR \in Nat \ {0} /\ SECPERMN \in Nat \ {0}
    /\ SECPERDY = 24 * SECPERHR
BY CalendarAssumption

LEMMA StandardIs ==
    ASSUME NEW t0 \in Nat, t0 \div SECPERDY < 130 * 365 + 32, NEW daylight
    PROVE  Dated(StandardDate(t0, daylight), t0)
<1> DEFINE year  == YearOf(t0)
           days  == t0 \div SECPERDY - DaysBefore[year]
           month == MonthOf(year, days)
           rest  == t0 % SECPERDY
           hour  == rest \div SECPERHR
           part  == rest % SECPERHR
           d     == StandardDate(t0, daylight)
<1>1. /\ d.year = year /\ d.month = month /\ d.day = days - MonthStart(year)[month] + 1
      /\ d.hour = hour /\ d.minute = part \div SECPERMN /\ d.second = part % SECPERMN
      /\ d.weekday = Weekday(year, days)
      /\ DOMAIN d = {"year", "month", "day", "hour", "minute", "second", "weekday", "dst"}
    BY DEF StandardDate
<1> HIDE DEF d
<1>2. /\ t0 \div SECPERDY \in Nat /\ rest \in 0..(SECPERDY - 1)
    BY Units3, Division
<1>3. /\ year \in Years /\ YearStart(year) <= t0 \div SECPERDY
      /\ t0 \div SECPERDY < YearStart(year) + 365 + Extra(year)
    BY <1>2, YearIs
<1>4. year \in 1970..2100 /\ YearStart(year) \in Nat /\ DaysBefore[year] = YearStart(year)
    BY <1>3, YearStartStep, DaysBeforeIs DEF Years
<1> HIDE DEF year
<1>5. days \in Nat /\ days < 365 + Extra(year) /\ t0 \div SECPERDY = YearStart(year) + days
    BY <1>2, <1>3, <1>4 DEF Extra
<1> HIDE DEF days
<1>6. month \in 0..11 /\ MonthOffset(year, month) <= days /\ days < MonthOffset(year, month) + DaysIn(year, month)
    BY <1>5, MonthIs
<1> HIDE DEF month
<1>7. /\ MonthStart(year)[month] = MonthOffset(year, month) /\ MonthOffset(year, month) \in Nat
      /\ DaysIn(year, month) \in Nat
    BY <1>6, MonthStartIs, DaysInIs
<1>8. rest \in Nat /\ hour \in Nat /\ part \in 0..(SECPERHR - 1) /\ rest = hour * SECPERHR + part
    <2>1. rest \in Nat
        BY <1>2, Units3
    <2> HIDE DEF rest
    <2> QED
        BY ONLY <2>1, Units3, Division DEF hour, part
<1>9. hour \in 0..23
    <2>1. /\ SECPERHR \in Nat \ {0} /\ hour \in Int /\ 24 \in Int
          /\ part \in 0..(SECPERHR - 1) /\ 0 \in 0..(SECPERHR - 1)
        BY <1>8, Units3
    <2>2. ~(hour * SECPERHR + part >= 24 * SECPERHR + 0)
        <3>1. rest \in Int /\ rest < SECPERDY /\ SECPERDY = 24 * SECPERHR
            BY <1>2, Units3
        <3> HIDE DEF rest, hour, part
        <3> QED
            BY <1>8, <2>1, <3>1
    <2>3. ~(hour > 24 \/ (hour = 24 /\ part >= 0))
        <3> HIDE DEF hour, part
        <3> QED
            BY ONLY <2>1, <2>2, Digits
    <2>4. hour \in Nat /\ part >= 0
        BY <1>8, <2>1
    <2> HIDE DEF hour, part
    <2> QED
        BY ONLY <2>3, <2>4
<1>10. /\ part \div SECPERMN \in Nat /\ part % SECPERMN \in Nat
       /\ part = (part \div SECPERMN) * SECPERMN + (part % SECPERMN)
    <2>1. part \in Nat /\ SECPERMN \in Nat \ {0}
        BY <1>8, Units3
    <2> HIDE DEF part
    <2>2. /\ part \div SECPERMN \in Nat /\ part % SECPERMN \in 0..(SECPERMN - 1)
          /\ part = (part \div SECPERMN) * SECPERMN + (part % SECPERMN)
        BY ONLY <2>1, Division
    <2> QED
        BY <2>1, <2>2
<1> HIDE DEF rest, hour, part
<1>11. Weekday(year, days) = WeekdayOf(t0)
    BY <1>4, <1>5, Units3 DEF Weekday, WeekdayOf, YearStart, LeapYears
<1>12. t0 % SECPERDY = rest
    BY DEF rest
<1>13. d.day \in 1..DaysIn(year, month) /\ days = MonthOffset(year, month) + d.day - 1
    BY <1>1, <1>5, <1>6, <1>7
<1> QED
    BY <1>1, <1>3, <1>4, <1>5, <1>6, <1>7, <1>8, <1>9, <1>10, <1>11, <1>12, <1>13 DEF Dated, d

(* A day and an hour of it, in seconds. *)
LEMMA SecondsIs ==
    ASSUME NEW d, d.year \in Years, d.month \in 0..11, d.day \in 1..DaysIn(d.year, d.month),
           d.hour \in 0..23
    PROVE  /\ Exists(d)
           /\ SecondsOf(d) = (YearStart(d.year) + MonthOffset(d.year, d.month) + d.day - 1) * SECPERDY
                                + d.hour * SECPERHR + d.minute * SECPERMN + d.second
<1>1. d.year \in 1970..2100 /\ d.year # 2100 /\ d.day \in Int
    BY DaysInIs DEF Years
<1>2. DayNumber(d.year, d.month + 1, d.day) = YearStart(d.year) + MonthOffset(d.year, d.month) + d.day - 1
    <2>1. PICK y \in 1970..2100 : y = d.year /\ y # 2100
        BY <1>1
    <2>2. PICK k \in 1..12 : k = d.month + 1 /\ k - 1 = d.month
        OBVIOUS
    <2>3. PICK e \in Int : e = d.day
        BY <1>1
    <2>4. Reckonable(y, k, e)
        BY <2>1 DEF Reckonable
    <2>5. Reckoned(y, k, e)
        BY ONLY <2>4, DayNumberIs
    <2> QED
        BY <2>1, <2>2, <2>3, <2>5 DEF Reckoned
<1>3. MonthLength(d.year, d.month + 1) = DaysIn(d.year, d.month)
    BY LengthsAgree
<1> QED
    BY <1>2, <1>3 DEF Exists, SecondsOf

LEMMA StandardSays ==
    ASSUME NEW t0 \in Nat, NEW d, Dated(d, t0)
    PROVE  Exists(d) /\ SecondsOf(d) = t0
<1>1. /\ Exists(d)
      /\ SecondsOf(d) = (YearStart(d.year) + MonthOffset(d.year, d.month) + d.day - 1) * SECPERDY
                            + d.hour * SECPERHR + d.minute * SECPERMN + d.second
    BY SecondsIs DEF Dated
<1>2. t0 = (t0 \div SECPERDY) * SECPERDY + (t0 % SECPERDY) /\ t0 \div SECPERDY \in Nat
    BY Units3, Division
<1>3. d.hour * SECPERHR \in Int /\ d.minute * SECPERMN \in Int /\ d.second \in Int
    BY Units3 DEF Dated
<1>4. SecondsOf(d) = (t0 \div SECPERDY) * SECPERDY + (d.hour * SECPERHR + (d.minute * SECPERMN + d.second))
    <2>1. (t0 \div SECPERDY) * SECPERDY \in Int
        BY <1>2, Units3
    <2>2. SecondsOf(d) = (t0 \div SECPERDY) * SECPERDY + d.hour * SECPERHR + d.minute * SECPERMN + d.second
        BY <1>1 DEF Dated
    <2> QED
        BY <1>3, <2>1, <2>2
<1> QED
    BY <1>1, <1>2, <1>4 DEF Dated

(* Where ascdate's hour ahead does not lead to the next day of the calendar. *)
Astray(d) ==
    /\ d.hour = 23
    /\ \/ d.month = 11 /\ d.day = 31
       \/ d.month = 1 /\ d.day = 28 /\ IsLeap(d.year)

LEMMA NextHour ==
    ASSUME NEW t0 \in Nat, NEW d, Dated(d, t0)
    PROVE  /\ t0 % SECPERDY >= SECPERDY - SECPERHR <=> d.hour = 23
           /\ d.hour < 23 => (t0 + SECPERHR) \div SECPERDY = t0 \div SECPERDY
           /\ d.hour = 23 => (t0 + SECPERHR) \div SECPERDY = t0 \div SECPERDY + 1
<1> DEFINE q == t0 \div SECPERDY
           r == t0 % SECPERDY
           part == d.minute * SECPERMN + d.second
<1>1. /\ d.hour \in 0..23 /\ part \in 0..(SECPERHR - 1) /\ r = d.hour * SECPERHR + part
    BY DEF Dated
<1>2. q \in Nat /\ r \in 0..(SECPERDY - 1) /\ t0 = q * SECPERDY + r
    BY Units3, Division
<1> HIDE DEF q, r, part
<1>3. CASE d.hour = 23
    <2>1. r = 23 * SECPERHR + part /\ r + SECPERHR = SECPERDY + part /\ r >= SECPERDY - SECPERHR
        BY <1>1, <1>3, Units3
    <2>2. q * SECPERDY \in Int /\ (q + 1) * SECPERDY = q * SECPERDY + SECPERDY
        BY <1>2, Units3
    <2>3. t0 + SECPERHR = (q + 1) * SECPERDY + part
        BY <1>1, <1>2, <2>1, <2>2, Units3
    <2>4. part \in 0..(SECPERDY - 1)
        BY <1>1, Units3
    <2>5. (t0 + SECPERHR) \div SECPERDY = q + 1
        <3>1. SECPERDY \in Nat \ {0} /\ q + 1 \in Nat
            BY <1>2, Units3
        <3>2. ((q + 1) * SECPERDY + part) \div SECPERDY = q + 1
            BY ONLY <2>4, <3>1, QuotientIs
        <3> QED
            BY <2>3, <3>2
    <2> QED
        BY <1>3, <2>1, <2>5 DEF q, r
<1>4. CASE d.hour < 23
    <2>1. d.hour * SECPERHR <= 22 * SECPERHR /\ d.hour * SECPERHR \in Nat
        <3>1. PICK h \in 0..22 : h = d.hour
            BY <1>1, <1>4
        <3>2. SECPERHR \in Nat
            BY Units3
        <3>3. h * SECPERHR \in Nat /\ (22 - h) * SECPERHR \in Nat
            BY ONLY <3>2, h \in 0..22
        <3>4. 22 * SECPERHR = h * SECPERHR + (22 - h) * SECPERHR
            BY ONLY <3>2, h \in 0..22
        <3> QED
            BY <3>1, <3>2, <3>3, <3>4
    <2>2. r + SECPERHR \in 0..(SECPERDY - 1) /\ ~(r >= SECPERDY - SECPERHR)
        <3>1. PICK k \in Nat : k = d.hour * SECPERHR
            BY <2>1
        <3>2. SECPERHR \in Nat \ {0} /\ SECPERDY = 24 * SECPERHR
            BY Units3
        <3>3. k <= 22 * SECPERHR /\ part \in 0..(SECPERHR - 1) /\ r = k + part
            BY <1>1, <2>1, <3>1
        <3> QED
            BY ONLY <3>2, <3>3, k \in Nat
    <2>3. t0 + SECPERHR = q * SECPERDY + (r + SECPERHR)
        <3>1. q * SECPERDY \in Int
            BY <1>2, Units3
        <3> QED
            BY <1>2, <3>1, Units3
    <2>4. (t0 + SECPERHR) \div SECPERDY = q
        <3>1. SECPERDY \in Nat \ {0} /\ q \in Nat /\ r + SECPERHR \in 0..(SECPERDY - 1)
            BY <1>2, <2>2, Units3
        <3>2. (q * SECPERDY + (r + SECPERHR)) \div SECPERDY = q
            BY ONLY <3>1, QuotientIs
        <3> QED
            BY <2>3, <3>2
    <2> QED
        BY <1>1, <1>4, <2>2, <2>4 DEF q, r
<1> QED
    BY <1>1, <1>3, <1>4

LEMMA MovedSays ==
    ASSUME NEW t0 \in Nat, NEW d, Dated(d, t0), ~Astray(d)
    PROVE  Exists(MoveAhead(d)) /\ SecondsOf(MoveAhead(d)) = t0 + SECPERHR
<1> DEFINE e == MoveAhead(d)
           part == d.minute * SECPERMN + d.second
           r == t0 % SECPERDY
           q == t0 \div SECPERDY
<1>1. /\ DOMAIN d = {"year", "month", "day", "hour", "minute", "second", "weekday", "dst"}
      /\ d.year \in Years /\ d.month \in 0..11 /\ d.day \in 1..DaysIn(d.year, d.month)
      /\ d.hour \in 0..23 /\ r = d.hour * SECPERHR + part
      /\ q = YearStart(d.year) + MonthOffset(d.year, d.month) + d.day - 1
      /\ part \in 0..(SECPERHR - 1) /\ d.minute \in Nat /\ d.second \in Nat
    BY DEF Dated
<1>2. q \in Nat /\ r \in 0..(SECPERDY - 1) /\ t0 = q * SECPERDY + r
    BY Units3, Division
<1>3. MonthSize[d.month] = IF d.month = 1 THEN 28 ELSE IF d.month \in {3, 5, 8, 10} THEN 30 ELSE 31
    BY <1>1 DEF MonthSize
<1>4. DaysIn(d.year, d.month) = MonthSize[d.month] + (IF d.month = 1 THEN Extra(d.year) ELSE 0)
    BY <1>1, <1>3 DEF DaysIn, Extra
<1>5. d.day \in Int /\ YearStart(d.year) \in Int /\ MonthOffset(d.year, d.month) \in Int
    BY <1>1, DaysInIs, YearStartStep DEF Years
<1> HIDE DEF q, r
<1>6. ASSUME e.year = d.year, e.minute = d.minute, e.second = d.second,
             e.month \in 0..11, e.day \in 1..DaysIn(e.year, e.month), e.hour \in 0..23,
             NEW dq \in {0, 1}, NEW h \in Int, e.hour = h,
             MonthOffset(e.year, e.month) + e.day = MonthOffset(d.year, d.month) + d.day + dq,
             dq * SECPERDY + h * SECPERHR = d.hour * SECPERHR + SECPERHR
      PROVE  Exists(e) /\ SecondsOf(e) = t0 + SECPERHR
    <2> HIDE DEF e
    <2>1. /\ Exists(e)
          /\ SecondsOf(e) = (YearStart(e.year) + MonthOffset(e.year, e.month) + e.day - 1) * SECPERDY
                                + e.hour * SECPERHR + e.minute * SECPERMN + e.second
        BY <1>1, <1>6, SecondsIs
    <2>2. YearStart(e.year) + MonthOffset(e.year, e.month) + e.day - 1 = q + dq
        <3>1. MonthOffset(e.year, e.month) \in Int /\ e.day \in Int
            BY <1>6, DaysInIs
        <3> QED
            BY <1>1, <1>5, <1>6, <3>1
    <2>3. (q + dq) * SECPERDY = q * SECPERDY + dq * SECPERDY /\ q * SECPERDY \in Int /\ dq * SECPERDY \in Int
        BY <1>2, Units3
    <2>4. h * SECPERHR \in Int /\ d.hour * SECPERHR \in Int /\ d.minute * SECPERMN \in Int
        BY <1>1, Units3
    <2>5. SecondsOf(e) = (q * SECPERDY + dq * SECPERDY) + h * SECPERHR + d.minute * SECPERMN + d.second
        BY <1>6, <2>1, <2>2, <2>3
    <2>6. SecondsOf(e) = q * SECPERDY + (d.hour * SECPERHR + SECPERHR) + part
        BY <1>1, <1>6, <2>3, <2>4, <2>5, Units3
    <2> QED
        BY <1>1, <1>2, <2>1, <2>3, <2>4, <2>6, Units3
<1>7. CASE d.hour < 23
    <2>1. e = [d EXCEPT !.hour = @ + 1]
        BY <1>7 DEF MoveAhead
    <2>2. /\ e.year = d.year /\ e.minute = d.minute /\ e.second = d.second
          /\ e.month = d.month /\ e.day = d.day /\ e.hour = d.hour + 1
        BY <1>1, <2>1
    <2>3. 0 * SECPERDY + (d.hour + 1) * SECPERHR = d.hour * SECPERHR + SECPERHR
        BY <1>1, Units3
    <2> QED
        BY <1>1, <1>5, <1>6, <1>7, <2>2, <2>3
<1>8. CASE d.hour = 23 /\ d.day < MonthSize[d.month]
    <2>1. e = [d EXCEPT !.hour = 0, !.day = @ + 1]
        BY <1>8 DEF MoveAhead
    <2>2. /\ e.year = d.year /\ e.minute = d.minute /\ e.second = d.second
          /\ e.month = d.month /\ e.day = d.day + 1 /\ e.hour = 0
        BY <1>1, <2>1
    <2>3. e.day \in 1..DaysIn(e.year, e.month)
        BY <1>1, <1>3, <1>4, <1>5, <1>8, <2>2 DEF Extra
    <2>4. 1 * SECPERDY + 0 * SECPERHR = d.hour * SECPERHR + SECPERHR
        BY <1>8, Units3
    <2> QED
        BY <1>1, <1>5, <1>6, <2>2, <2>3, <2>4
<1>9. CASE d.hour = 23 /\ ~(d.day < MonthSize[d.month])
    <2>1. e = [d EXCEPT !.hour = 0, !.day = 1, !.month = @ + 1]
        BY <1>9 DEF MoveAhead
    <2>2. /\ e.year = d.year /\ e.minute = d.minute /\ e.second = d.second
          /\ e.month = d.month + 1 /\ e.day = 1 /\ e.hour = 0
        BY <1>1, <2>1
    <2>3. d.day = DaysIn(d.year, d.month) /\ d.month # 11
        BY <1>1, <1>3, <1>4, <1>5, <1>9 DEF Astray, Extra
    <2>4. e.month \in 0..11 /\ e.day \in 1..DaysIn(e.year, e.month)
        <3>1. e.month \in 0..11
            BY <1>1, <2>2, <2>3
        <3> QED
            BY <2>2, <3>1, DaysInIs
    <2>5. MonthOffset(e.year, e.month) + e.day = MonthOffset(d.year, d.month) + d.day + 1
        BY <1>1, <2>2, <2>3, DaysInIs
    <2>6. 1 * SECPERDY + 0 * SECPERHR = d.hour * SECPERHR + SECPERHR
        BY <1>9, Units3
    <2> QED
        BY <1>1, <1>6, <2>2, <2>4, <2>5, <2>6
<1> QED
    BY <1>1, <1>7, <1>8, <1>9, <1>3, <1>5

(* The Sundays between which daylight saving lasts. *)
LEMMA SundaysAgree ==
    ASSUME NEW y \in Years
    PROVE  /\ Marss(y) = 7 + FirstSunday(y, 3) /\ Marss(y) \in 8..14
           /\ Novfs(y) = FirstSunday(y, 11) /\ Novfs(y) \in 1..7
           /\ DayNumber(y, 3, Marss(y)) = YearStart(y) + MonthOffset(y, 2) + Marss(y) - 1
           /\ DayNumber(y, 11, Novfs(y)) = YearStart(y) + MonthOffset(y, 10) + Novfs(y) - 1
<1>1. y \in 1970..2100 /\ y # 2100 /\ YearStart(y) \in Nat
    BY YearStartStep DEF Years
<1>2. MonthOffset(y, 2) = 59 + Extra(y) /\ MonthOffset(y, 10) = 304 + Extra(y) /\ Extra(y) \in Nat
    BY DEF MonthOffset, Extra
<1>3. /\ \A d \in Int : DayNumber(y, 3, d) = YearStart(y) + MonthOffset(y, 2) + d - 1
      /\ \A d \in Int : DayNumber(y, 11, d) = YearStart(y) + MonthOffset(y, 10) + d - 1
    <2>1. ASSUME NEW d \in Int PROVE Reckoned(y, 3, d) /\ Reckoned(y, 11, d)
        <3>1. Reckonable(y, 3, d) /\ Reckonable(y, 11, d)
            BY <1>1 DEF Reckonable
        <3> QED
            BY ONLY <3>1, DayNumberIs
    <2>2. 3 - 1 = 2 /\ 11 - 1 = 10
        OBVIOUS
    <2> QED
        BY <2>1, <2>2 DEF Reckoned
<1>4. MonthSize[0] = 31 /\ MonthSize[1] = 28 /\ MonthStart(y)[10] = MonthOffset(y, 10)
    BY MonthStartIs DEF MonthSize
<1>5. Mar1(y) = DayOfWeek(y, 3, 1) /\ Mar1(y) \in 0..6
    <2>1. DayNumber(y, 3, 1) = YearStart(y) + 59 + Extra(y)
        BY <1>1, <1>2, <1>3
    <2> QED
        BY <1>1, <1>4, <2>1 DEF Mar1, DayOfWeek, Weekday, YearStart, LeapYears, Extra
<1>6. Nov1(y) = DayOfWeek(y, 11, 1) /\ Nov1(y) \in 0..6
    <2>1. DayNumber(y, 11, 1) = YearStart(y) + 304 + Extra(y)
        BY <1>1, <1>2, <1>3
    <2> QED
        BY <1>1, <1>2, <1>4, <2>1 DEF Nov1, DayOfWeek, Weekday, YearStart, LeapYears, Extra
<1>7. Marss(y) = 7 + FirstSunday(y, 3) /\ Marss(y) \in 8..14
    BY <1>5 DEF Marss, FirstSunday
<1>8. Novfs(y) = FirstSunday(y, 11) /\ Novfs(y) \in 1..7
    BY <1>6 DEF Novfs, FirstSunday
<1>9. Marss(y) \in Int /\ Novfs(y) \in Int
    BY <1>7, <1>8
<1> QED
    BY <1>3, <1>7, <1>8, <1>9

LEMMA PeriodIs ==
    ASSUME NEW t0 \in Nat, NEW d, Dated(d, t0)
    PROVE  Dst("auto", d.year, d.month, d.day, d.hour) <=>
                /\ t0 >= DayNumber(d.year, 3, 7 + FirstSunday(d.year, 3)) * SECPERDY + 2 * SECPERHR
                /\ t0 < DayNumber(d.year, 11, FirstSunday(d.year, 11)) * SECPERDY + SECPERHR
<1> DEFINE y == d.year
           m == d.month
           q == t0 \div SECPERDY
           r == t0 % SECPERDY
           part == d.minute * SECPERMN + d.second
           M == Marss(y)
           N == Novfs(y)
           start == YearStart(y) + MonthOffset(y, 2) + M - 1
           stop  == YearStart(y) + MonthOffset(y, 10) + N - 1
<1>1. /\ y \in Years /\ m \in 0..11 /\ d.day \in 1..DaysIn(y, m) /\ d.hour \in 0..23
      /\ r = d.hour * SECPERHR + part /\ part \in 0..(SECPERHR - 1)
      /\ q = YearStart(y) + MonthOffset(y, m) + d.day - 1
    BY DEF Dated
<1>2. q \in Nat /\ r \in 0..(SECPERDY - 1) /\ t0 = q * SECPERDY + r
    BY Units3, Division
<1>3. /\ M = 7 + FirstSunday(y, 3) /\ M \in 8..14 /\ DayNumber(y, 3, M) = start
      /\ N = FirstSunday(y, 11) /\ N \in 1..7 /\ DayNumber(y, 11, N) = stop
    BY <1>1, SundaysAgree
<1>4. (r >= 2 * SECPERHR <=> d.hour >= 2) /\ (r >= SECPERHR <=> d.hour >= 1)
    <2>1. r >= 2 * SECPERHR + 0 <=> (d.hour > 2 \/ (d.hour = 2 /\ part >= 0))
        BY <1>1, Units3, Digits
    <2>2. r >= 1 * SECPERHR + 0 <=> (d.hour > 1 \/ (d.hour = 1 /\ part >= 0))
        BY <1>1, Units3, Digits
    <2> QED
        BY <1>1, <2>1, <2>2, Units3
<1>5. YearStart(y) \in Nat /\ MonthOffset(y, m) \in Nat /\ MonthOffset(y, 2) \in Nat /\ MonthOffset(y, 10) \in Nat
      /\ DaysIn(y, m) \in Nat
    <2>1. y \in 1970..2100 /\ 2 \in 0..11 /\ 10 \in 0..11
        BY <1>1 DEF Years
    <2>2. YearStart(y) \in Nat
        BY <2>1, YearStartStep
    <2>3. MonthOffset(y, m) \in Nat /\ MonthOffset(y, 2) \in Nat /\ MonthOffset(y, 10) \in Nat /\ DaysIn(y, m) \in Nat
        BY <1>1, <2>1, DaysInIs
    <2> QED
        BY <2>2, <2>3
<1>6. start \in Int /\ stop \in Int
    BY <1>3, <1>5
<1>7. t0 >= start * SECPERDY + 2 * SECPERHR <=> (q > start \/ (q = start /\ d.hour >= 2))
    <2>1. 2 * SECPERHR \in 0..(SECPERDY - 1) /\ q \in Int
        BY <1>2, Units3
    <2> HIDE DEF start, q, r
    <2> QED
        BY <1>2, <1>4, <1>6, <2>1, Units3, Digits
<1>8. t0 >= stop * SECPERDY + SECPERHR <=> (q > stop \/ (q = stop /\ d.hour >= 1))
    <2>1. SECPERHR \in 0..(SECPERDY - 1) /\ q \in Int
        BY <1>2, Units3
    <2> HIDE DEF stop, q, r
    <2> QED
        BY <1>2, <1>4, <1>6, <2>1, Units3, Digits
<1>9. t0 < stop * SECPERDY + SECPERHR <=> ~(t0 >= stop * SECPERDY + SECPERHR)
    BY <1>6, Units3
<1>10. /\ q > start <=> (m > 2 \/ (m = 2 /\ d.day > M))
       /\ q = start <=> (m = 2 /\ d.day = M)
    <2>1. MonthOffset(y, m) + DaysIn(y, m) = MonthOffset(y, m + 1)
        BY <1>1, DaysInIs
    <2>2. m < 2 => MonthOffset(y, m) + DaysIn(y, m) <= MonthOffset(y, 2)
        BY <1>1, <2>1 DEF MonthOffset, Extra
    <2>3. m > 2 => MonthOffset(y, m) >= MonthOffset(y, 2) + 31
        BY <1>1 DEF MonthOffset, Extra
    <2> HIDE DEF M
    <2> QED
        BY <1>1, <1>3, <1>5, <2>2, <2>3
<1>11. /\ q > stop <=> (m > 10 \/ (m = 10 /\ d.day > N))
       /\ q = stop <=> (m = 10 /\ d.day = N)
    <2>1. MonthOffset(y, m) + DaysIn(y, m) = MonthOffset(y, m + 1)
        BY <1>1, DaysInIs
    <2>2. m < 10 => MonthOffset(y, m) + DaysIn(y, m) <= MonthOffset(y, 10)
        BY <1>1, <2>1 DEF MonthOffset, Extra
    <2>3. m > 10 => MonthOffset(y, m) >= MonthOffset(y, 10) + 30
        BY <1>1 DEF MonthOffset, Extra
    <2> HIDE DEF N
    <2> QED
        BY <1>1, <1>3, <1>5, <2>2, <2>3
<1>12. Dst("auto", y, m, d.day, d.hour) <=>
            \/ m \in 3..9
            \/ m = 2 /\ (d.day > M \/ (d.day = M /\ d.hour >= 2))
            \/ m = 10 /\ ~(d.day > N \/ (d.day = N /\ d.hour >= 1))
    BY DEF Dst
<1> HIDE DEF start, stop, q, M, N
<1>13. Dst("auto", y, m, d.day, d.hour) <=>
            /\ q > start \/ (q = start /\ d.hour >= 2)
            /\ ~(q > stop \/ (q = stop /\ d.hour >= 1))
    BY <1>1, <1>10, <1>11, <1>12
<1> QED
    BY <1>3, <1>7, <1>8, <1>9, <1>13

-----------------------------------------------------------------------------
(* The text is what ascdate makes of a time and a mode. *)
DateInv ==
    text = NoText \/ (time \in Times /\ mode \in Modes /\ text = AscDate(time, mode))

LEMMA DateInvariant == DateSpec => []DateInv
<1>1. DateInit => DateInv
    BY DEF DateInit, DateInv
<1>2. DateInv /\ [DateNext]_dateVars => DateInv'
    BY DEF DateInv, DateNext, dateVars
<1> QED
    BY <1>1, <1>2, PTL DEF DateSpec

(* The date before daylight saving, and the one in the text. *)
LEMMA TextIs ==
    ASSUME DateInv, text # NoText
    PROVE  \E d : /\ time \in Nat /\ Dated(d, time)
                  /\ text = IF text.dst THEN MoveAhead(d) ELSE d
                  /\ text.dst <=> Dst(mode, d.year, d.month, d.day, d.hour)
                  /\ text.year = d.year /\ text.weekday = d.weekday
<1> DEFINE d == StandardDate(time, mode)
<1>1. time \in Nat /\ time \div SECPERDY < 130 * 365 + 32 /\ text = AscDate(time, mode)
    BY CalendarAssumption DEF DateInv
<1>2. Dated(d, time)
    BY <1>1, StandardIs
<1>3. d.dst <=> Dst(mode, d.year, d.month, d.day, d.hour)
    BY DEF StandardDate
<1> HIDE DEF d
<1>4. text = IF d.dst THEN MoveAhead(d) ELSE d
    BY <1>1 DEF AscDate, d
<1>5. /\ MoveAhead(d).dst = d.dst /\ MoveAhead(d).year = d.year
      /\ MoveAhead(d).weekday = d.weekday
    BY <1>2 DEF Dated, MoveAhead
<1>6. text.dst = d.dst /\ text.year = d.year /\ text.weekday = d.weekday
    BY <1>4, <1>5
<1> QED
    BY <1>1, <1>2, <1>3, <1>4, <1>6

(* ascdate gives every second from 1970 to the end of 2099 its date, its time
   and its day of the week, when daylight saving is off. *)
THEOREM StandardTime == DateSpec => []StandardTimeRight
<1>1. DateInv => StandardTimeRight
    <2> SUFFICES ASSUME DateInv, text # NoText, ~text.dst
                 PROVE  Says(time) /\ text.weekday = WeekdayOf(time)
        BY DEF StandardTimeRight
    <2>1. PICK d : time \in Nat /\ Dated(d, time) /\ text = d
        BY TextIs
    <2>2. text.weekday = WeekdayOf(time)
        BY <2>1 DEF Dated
    <2> QED
        BY <2>1, <2>2, StandardSays DEF Says
<1> QED
    BY <1>1, DateInvariant, PTL

(* With daylight saving, the date and the time are those of an hour later and the
   day of the week that of the hour before, save on the two days of the year on which
   only "on" can lead ascdate astray: of any year until 2099. *)
THEOREM DaylightTime == DateSpec => []DaylightTimeRight
<1>1. DateInv => DaylightTimeRight
    <2> SUFFICES ASSUME DateInv, text # NoText, text.dst
                 PROVE  /\ mode = "auto" \/ ~IntoUnforeseen => Says(time + SECPERHR)
                        /\ ~LastHour => text.weekday = WeekdayOf(time + SECPERHR)
        BY DEF DaylightTimeRight
    <2>1. PICK d : /\ time \in Nat /\ Dated(d, time) /\ text = MoveAhead(d)
                   /\ Dst(mode, d.year, d.month, d.day, d.hour) /\ text.weekday = d.weekday
        BY TextIs
    <2>2. /\ LastHour <=> d.hour = 23
          /\ d.hour < 23 => (time + SECPERHR) \div SECPERDY = time \div SECPERDY
          /\ d.hour = 23 => (time + SECPERHR) \div SECPERDY = time \div SECPERDY + 1
        BY <2>1, NextHour DEF LastHour
    <2>3. ASSUME mode = "auto" PROVE ~Astray(d)
        BY <2>1, <2>3 DEF Dst, Astray
    <2>4. ASSUME Astray(d) PROVE IntoUnforeseen
        <3>1. /\ d.hour = 23 /\ LastHour /\ d.year \in Years /\ d.year \in 1970..2100 /\ d.year # 2100
              /\ time \div SECPERDY = YearStart(d.year) + MonthOffset(d.year, d.month) + d.day - 1
              /\ (time + SECPERHR) \div SECPERDY = time \div SECPERDY + 1
              /\ YearStart(d.year) \in Nat
            BY <2>1, <2>2, <2>4, YearStartStep DEF Dated, Astray, Years
        <3>2. CASE d.month = 11 /\ d.day = 31
            <4>1. DayNumber(d.year + 1, 1, 1) = YearStart(d.year + 1) + MonthOffset(d.year + 1, 0) + 1 - 1
                <5>1. PICK y \in 1970..2100 : y = d.year + 1 /\ 1 \in 1..12 /\ 1 - 1 = 0
                    BY <3>1
                <5>2. Reckoned(y, 1, 1)
                    <6>1. Reckonable(y, 1, 1)
                        BY <5>1 DEF Reckonable
                    <6> QED
                        BY ONLY <6>1, DayNumberIs
                <5> QED
                    BY <5>1, <5>2 DEF Reckoned
            <4>2. /\ YearStart(d.year + 1) = YearStart(d.year) + 365 + Extra(d.year)
                  /\ MonthOffset(d.year + 1, 0) = 0 /\ MonthOffset(d.year, 11) = 334 + Extra(d.year)
                <5>1. MonthOffset(d.year + 1, 0) = 0 /\ MonthOffset(d.year, 11) = 334 + Extra(d.year)
                    BY DEF MonthOffset, Extra
                <5>2. /\ YearStart(d.year + 1) = YearStart(d.year) + Length(d.year)
                      /\ Length(d.year) = 365 + Extra(d.year) /\ Extra(d.year) \in Nat
                    <6>1. PICK y \in 1970..2100 : y = d.year
                        BY <3>1
                    <6>2. YearStart(y + 1) = YearStart(y) + Length(y) /\ Length(y) = 365 + Extra(y)
                        BY YearStartStep
                    <6>3. Extra(y) \in Nat
                        BY DEF Extra
                    <6> QED
                        BY <6>1, <6>2, <6>3
                <5> QED
                    BY <3>1, <5>1, <5>2
            <4>3. DayNumber(d.year + 1, 1, 1) = (time + SECPERHR) \div SECPERDY
                BY <3>1, <3>2, <4>1, <4>2 DEF Extra
            <4>4. d.year + 1 \in Years \cup {2100}
                BY <3>1 DEF Years
            <4> QED
                BY <3>1, <4>3, <4>4 DEF IntoUnforeseen
        <3>3. CASE d.month = 1 /\ d.day = 28 /\ IsLeap(d.year)
            <4>1. DayNumber(d.year, 2, 29) = YearStart(d.year) + MonthOffset(d.year, 1) + 29 - 1
                <5>1. PICK y \in 1970..2100 : y = d.year /\ y # 2100
                    BY <3>1
                <5>2. 2 - 1 = 1
                    OBVIOUS
                <5>3. Reckoned(y, 2, 29)
                    <6>1. Reckonable(y, 2, 29)
                        BY <5>1 DEF Reckonable
                    <6> QED
                        BY ONLY <6>1, DayNumberIs
                <5> QED
                    BY <5>1, <5>2, <5>3 DEF Reckoned
            <4>2. MonthOffset(d.year, 1) = 31
                BY DEF MonthOffset
            <4>3. DayNumber(d.year, 2, 29) = (time + SECPERHR) \div SECPERDY
                BY <3>1, <3>3, <4>1, <4>2
            <4>4. Leap(d.year)
                <5>1. 1 \in 0..11
                    OBVIOUS
                <5> QED
                    BY <3>1, <3>3, <5>1, LengthsAgree
            <4> QED
                BY <3>1, <4>3, <4>4 DEF IntoUnforeseen
        <3> QED
            BY <2>4, <3>2, <3>3 DEF Astray
    <2>5. ~Astray(d) => Says(time + SECPERHR)
        BY <2>1, MovedSays DEF Says
    <2>6. ~LastHour => text.weekday = WeekdayOf(time + SECPERHR)
        BY <2>1, <2>2 DEF Dated, WeekdayOf
    <2> QED
        BY <2>3, <2>4, <2>5, <2>6
<1> QED
    BY <1>1, DateInvariant, PTL

(* Daylight saving is on from 2:00 of the second Sunday of March to 1:00 of the
   first Sunday of November, in every year from 1970 to 2099. *)
THEOREM DaylightSaving == DateSpec => []DaylightPeriod
<1>1. DateInv => DaylightPeriod
    <2> SUFFICES ASSUME DateInv, text # NoText, mode = "auto"
                 PROVE  text.dst <=>
                    /\ time >= DayNumber(text.year, 3, 7 + FirstSunday(text.year, 3)) * SECPERDY + 2 * SECPERHR
                    /\ time < DayNumber(text.year, 11, FirstSunday(text.year, 11)) * SECPERDY + SECPERHR
        BY DEF DaylightPeriod
    <2>1. PICK d : /\ time \in Nat /\ Dated(d, time) /\ text.year = d.year
                   /\ text.dst <=> Dst(mode, d.year, d.month, d.day, d.hour)
        BY TextIs
    <2> QED
        BY <2>1, PeriodIs
<1> QED
    BY <1>1, DateInvariant, PTL

-----------------------------------------------------------------------------
(* The table of queues *)

Nodes == 0..(NQENT - 1)
QEntry == [qnext : Int, qprev : Int, qkey : Int]

(* The nodes of a queue q with the processes l: its head, they, and its tail. *)
Node(q, l, i) == IF i = 0 THEN q ELSE IF i <= Len(l) THEN l[i] ELSE QueueTail(q)
QNodes(q, l) == {q, QueueTail(q)} \cup ToSet(l)

Once(l) == l \in Seq(Proc) /\ IsInjective(l)
Threaded(tab, q, l) ==
    /\ Once(l)
    /\ \A i \in 0..Len(l) : /\ tab[Node(q, l, i)].qnext = Node(q, l, i + 1)
                            /\ tab[Node(q, l, i + 1)].qprev = Node(q, l, i)
    /\ tab[QueueTail(q)].qnext = EMPTY /\ tab[QueueTail(q)].qkey = MINKEY

LEMMA QueueIds ==
    /\ \A q \in AllQueues :
        /\ q \in Nat /\ q >= NPROC /\ q <= SleepQ /\ q \in Nodes /\ QueueTail(q) \in Nodes
        /\ q \notin Proc /\ QueueTail(q) \notin Proc /\ q # QueueTail(q) /\ QueueTail(q) # EMPTY
    /\ \A q, r \in AllQueues : q # r => q # QueueTail(r) /\ QueueTail(q) # QueueTail(r)
    /\ Proc \subseteq Nodes /\ EMPTY \notin Proc /\ EMPTY \notin AllQueues
    /\ ReadyList \in AllQueues /\ SleepQ \in AllQueues /\ SemQueues \subseteq AllQueues
    /\ ReadyList \notin SemQueues /\ SleepQ \notin SemQueues /\ ReadyList # SleepQ
<1>1. \A q \in AllQueues : \E i \in 0..(NSEM + 1) : q = NPROC + 2 * i
    <2>1. NSEM \in 0..(NSEM + 1) /\ NSEM + 1 \in 0..(NSEM + 1)
        BY QueueAssumption
    <2>2. ReadyList = NPROC + 2 * NSEM /\ SleepQ = NPROC + 2 * (NSEM + 1)
        BY QueueAssumption DEF ReadyList, SleepQ
    <2> QED
        BY <2>1, <2>2, QueueAssumption DEF AllQueues, SemQueues
<1>2. ASSUME NEW q \in AllQueues
      PROVE  /\ q \in Nat /\ q >= NPROC /\ q <= SleepQ /\ q \in Nodes /\ QueueTail(q) \in Nodes
             /\ q \notin Proc /\ QueueTail(q) \notin Proc /\ q # QueueTail(q) /\ QueueTail(q) # EMPTY
    BY <1>1, QueueAssumption DEF Nodes, Proc, QueueTail, SleepQ, ReadyList
<1>3. ASSUME NEW q \in AllQueues, NEW r \in AllQueues, q # r
      PROVE  q # QueueTail(r) /\ QueueTail(q) # QueueTail(r)
    <2>1. PICK i \in 0..(NSEM + 1) : q = NPROC + 2 * i
        BY <1>1
    <2>2. PICK j \in 0..(NSEM + 1) : r = NPROC + 2 * j
        BY <1>1
    <2> QED
        BY <1>3, <2>1, <2>2, QueueAssumption DEF QueueTail
<1>4. Proc \subseteq Nodes /\ EMPTY \notin Proc /\ EMPTY \notin AllQueues
    BY <1>2, QueueAssumption DEF Nodes, Proc
<1> QED
    BY <1>2, <1>3, <1>4, QueueAssumption DEF AllQueues, SemQueues, ReadyList, SleepQ

LEMMA OnceFacts ==
    ASSUME NEW l, Once(l)
    PROVE  /\ Len(l) \in Nat /\ DOMAIN l = 1..Len(l) /\ Len(l) <= NPROC
           /\ \A i \in 1..Len(l) : l[i] \in Proc /\ l[i] \in ToSet(l)
           /\ \A i, j \in 1..Len(l) : l[i] = l[j] => i = j
           /\ \A x \in ToSet(l) : x \in Proc /\ \E i \in 1..Len(l) : x = l[i]
<1>1. /\ Len(l) \in Nat /\ DOMAIN l = 1..Len(l)
      /\ \A i \in 1..Len(l) : l[i] \in Proc /\ l[i] \in ToSet(l)
      /\ \A i, j \in 1..Len(l) : l[i] = l[j] => i = j
      /\ \A x \in ToSet(l) : x \in Proc /\ \E i \in 1..Len(l) : x = l[i]
    BY DEF Once, ToSet, IsInjective
<1>2. IsFiniteSet(1..Len(l)) /\ Cardinality(1..Len(l)) = Len(l)
    <2>1. 1 \in Int /\ Len(l) \in Int /\ (1 > Len(l) => Len(l) = 0) /\ Len(l) - 1 + 1 = Len(l)
        BY <1>1
    <2> QED
        BY <2>1, FS_Interval
<1>3. IsFiniteSet(Proc) /\ Cardinality(Proc) = NPROC
    <2>1. /\ 0 \in Int /\ NPROC - 1 \in Int /\ ~(0 > NPROC - 1) /\ (NPROC - 1) - 0 + 1 = NPROC
        BY QueueAssumption
    <2> QED
        BY <2>1, FS_Interval DEF Proc
<1>4. l \in Injection(1..Len(l), Proc)
    <2>1. l = [i \in 1..Len(l) |-> l[i]] /\ IsInjective(l)
        BY <1>1 DEF Once
    <2>2. l \in [1..Len(l) -> Proc]
        BY <1>1, <2>1
    <2> QED
        BY <2>1, <2>2 DEF Injection
<1>5. Len(l) <= NPROC
    <2> DEFINE D == 1..Len(l)
    <2> HIDE DEF D
    <2>1. IsFiniteSet(D) /\ Cardinality(D) = Len(l) /\ l \in Injection(D, Proc)
        BY <1>2, <1>4 DEF D
    <2>2. Cardinality(D) <= Cardinality(Proc)
        BY <1>3, <2>1, FS_Injection
    <2> QED
        BY <1>3, <2>1, <2>2
<1> QED
    BY <1>1, <1>5

(* The nodes of a queue are different ones. *)
LEMMA NodesApart ==
    ASSUME NEW q \in AllQueues, NEW l, Once(l)
    PROVE  /\ \A i \in 0..(Len(l) + 1) : Node(q, l, i) \in Nodes /\ Node(q, l, i) \in QNodes(q, l)
           /\ \A i, j \in 0..(Len(l) + 1) : Node(q, l, i) = Node(q, l, j) => i = j
           /\ \A i \in 0..(Len(l) + 1) : Node(q, l, i) \in Proc <=> i \in 1..Len(l)
           /\ \A i \in 1..Len(l) : Node(q, l, i) = l[i]
           /\ Node(q, l, 0) = q /\ Node(q, l, Len(l) + 1) = QueueTail(q)
           /\ QNodes(q, l) \subseteq Nodes
<1>1. /\ Len(l) \in Nat
      /\ \A i \in 1..Len(l) : l[i] \in Proc /\ l[i] \in ToSet(l)
      /\ \A i, j \in 1..Len(l) : l[i] = l[j] => i = j
      /\ \A x \in ToSet(l) : x \in Proc
    BY OnceFacts
<1>2. /\ q \in Nodes /\ QueueTail(q) \in Nodes /\ q \notin Proc /\ QueueTail(q) \notin Proc
      /\ q # QueueTail(q) /\ Proc \subseteq Nodes
    BY QueueIds
<1>3. ASSUME NEW i \in 0..(Len(l) + 1)
      PROVE  /\ i = 0 => Node(q, l, i) = q
             /\ i \in 1..Len(l) => Node(q, l, i) = l[i]
             /\ i = Len(l) + 1 => Node(q, l, i) = QueueTail(q)
             /\ i = 0 \/ i \in 1..Len(l) \/ i = Len(l) + 1
    BY <1>1 DEF Node
<1>4. ASSUME NEW i \in 0..(Len(l) + 1)
      PROVE  /\ Node(q, l, i) \in Nodes /\ Node(q, l, i) \in QNodes(q, l)
             /\ Node(q, l, i) \in Proc <=> i \in 1..Len(l)
    BY <1>1, <1>2, <1>3 DEF QNodes
<1>5. ASSUME NEW i \in 0..(Len(l) + 1), NEW j \in 0..(Len(l) + 1), Node(q, l, i) = Node(q, l, j)
      PROVE  i = j
    BY <1>1, <1>2, <1>3, <1>5
<1>6. 0 \in 0..(Len(l) + 1) /\ Len(l) + 1 \in 0..(Len(l) + 1) /\ 1..Len(l) \subseteq 0..(Len(l) + 1)
    BY <1>1
<1>7. QNodes(q, l) \subseteq Nodes
    BY <1>1, <1>2 DEF QNodes
<1> QED
    BY <1>3, <1>4, <1>5, <1>6, <1>7

-----------------------------------------------------------------------------
(* A walk from the head meets the nodes of the queue and then none. *)
Walks(w, q, l) ==
    /\ DOMAIN w = 1..(NPROC + 2)
    /\ \A n \in 1..(NPROC + 2) : w[n] = IF n <= Len(l) + 1 THEN Node(q, l, n) ELSE EMPTY

LEMMA WalkIs ==
    ASSUME NEW q \in AllQueues, NEW l, NEW tab, Threaded(tab, q, l)
    PROVE  Walks(Walk(tab, q), q, l)
<1> DEFINE D     == 1..(NPROC + 2)
           Eq(f) == f = [n \in D |-> IF n = 1 THEN FirstId(tab, q)
                                     ELSE IF f[n - 1] = EMPTY THEN EMPTY ELSE tab[f[n - 1]].qnext]
           g     == [n \in D |-> IF n <= Len(l) + 1 THEN Node(q, l, n) ELSE EMPTY]
<1>1. /\ Once(l) /\ Len(l) \in Nat /\ Len(l) <= NPROC /\ NPROC \in Nat
      /\ \A i \in 0..Len(l) : tab[Node(q, l, i)].qnext = Node(q, l, i + 1)
      /\ tab[QueueTail(q)].qnext = EMPTY
    BY OnceFacts, QueueAssumption DEF Threaded
<1>2. /\ Node(q, l, 0) = q /\ Node(q, l, Len(l) + 1) = QueueTail(q)
      /\ \A i \in 0..(Len(l) + 1) : Node(q, l, i) # EMPTY
    BY <1>1, NodesApart, QueueAssumption DEF Nodes
<1>3. ASSUME NEW n \in D
      PROVE  g[n] = IF n = 1 THEN FirstId(tab, q)
                    ELSE IF g[n - 1] = EMPTY THEN EMPTY ELSE tab[g[n - 1]].qnext
    <2>1. g[n] = IF n <= Len(l) + 1 THEN Node(q, l, n) ELSE EMPTY
        OBVIOUS
    <2>2. n # 1 => g[n - 1] = IF n - 1 <= Len(l) + 1 THEN Node(q, l, n - 1) ELSE EMPTY
        BY <1>1
    <2> HIDE DEF g
    <2>3. CASE n = 1
        <3>1. 0 \in 0..Len(l) /\ 0 + 1 = 1 /\ 1 <= Len(l) + 1
            BY <1>1
        <3>2. FirstId(tab, q) = Node(q, l, 1)
            BY <1>1, <1>2, <3>1 DEF FirstId
        <3> QED
            BY <2>1, <2>3, <3>1, <3>2
    <2>4. CASE n # 1 /\ n <= Len(l) + 1
        <3>1. n - 1 \in 0..Len(l) /\ (n - 1) + 1 = n /\ n - 1 <= Len(l) + 1 /\ n - 1 \in 0..(Len(l) + 1)
            BY <1>1, <2>4
        <3>2. g[n - 1] = Node(q, l, n - 1) /\ Node(q, l, n - 1) # EMPTY
            BY <1>2, <2>2, <2>4, <3>1
        <3>3. tab[Node(q, l, n - 1)].qnext = Node(q, l, n)
            BY <1>1, <3>1
        <3> QED
            BY <2>1, <2>4, <3>2, <3>3
    <2>5. CASE n = Len(l) + 2
        <3>1. n - 1 = Len(l) + 1 /\ n # 1 /\ ~(n <= Len(l) + 1) /\ Len(l) + 1 \in 0..(Len(l) + 1)
            BY <1>1, <2>5
        <3>2. g[n - 1] = QueueTail(q) /\ QueueTail(q) # EMPTY
            BY <1>1, <1>2, <2>2, <3>1
        <3> QED
            BY <1>1, <2>1, <3>1, <3>2
    <2>6. CASE n > Len(l) + 2
        <3>1. ~(n - 1 <= Len(l) + 1) /\ n # 1 /\ ~(n <= Len(l) + 1)
            BY <1>1, <2>6
        <3> QED
            BY <2>1, <2>2, <3>1
    <2> QED
        BY <1>1, <2>3, <2>4, <2>5, <2>6
<1>4. Eq(g)
    <2>1. g = [n \in D |-> g[n]]
        OBVIOUS
    <2> HIDE DEF g
    <2> QED
        BY <1>3, <2>1
<1>5. \E f : Eq(f)
    <2> HIDE DEF g, Eq
    <2> QED
        BY <1>4
<1>6. Walk(tab, q) = CHOOSE f : Eq(f)
    BY DEF Walk
<1>7. Eq(Walk(tab, q))
    <2> HIDE DEF Eq
    <2> QED
        BY <1>5, <1>6
<1> DEFINE w == Walk(tab, q)
<1>8. w = [n \in D |-> IF n = 1 THEN FirstId(tab, q)
                       ELSE IF w[n - 1] = EMPTY THEN EMPTY ELSE tab[w[n - 1]].qnext]
    BY <1>7
<1> HIDE DEF w, g, Eq
<1>9. DOMAIN w = D /\ \A n \in D : w[n] = IF n = 1 THEN FirstId(tab, q)
                       ELSE IF w[n - 1] = EMPTY THEN EMPTY ELSE tab[w[n - 1]].qnext
    <2> HIDE DEF D
    <2> QED
        BY <1>8
<1> DEFINE Good == {k \in Nat : k + 1 <= NPROC + 2 => w[k + 1] = g[k + 1]}
<1>10. 0 \in Good
    <2>1. 1 \in D
        BY <1>1
    <2> QED
        BY <1>3, <1>9, <2>1
<1>11. ASSUME NEW k \in Nat, k \in Good PROVE k + 1 \in Good
    <2> SUFFICES ASSUME (k + 1) + 1 <= NPROC + 2 PROVE w[(k + 1) + 1] = g[(k + 1) + 1]
        OBVIOUS
    <2>1. (k + 1) + 1 \in D /\ (k + 1) + 1 # 1 /\ ((k + 1) + 1) - 1 = k + 1 /\ w[k + 1] = g[k + 1]
        BY <1>1, <1>11
    <2> DEFINE n == (k + 1) + 1
    <2>2. n \in D /\ n # 1 /\ w[n - 1] = g[n - 1]
        BY <2>1
    <2> HIDE DEF n
    <2>3. w[n] = g[n]
        BY <1>3, <1>9, <2>2
    <2> QED
        BY <2>3 DEF n
<1>12. \A k \in Nat : k \in Good
    <2> HIDE DEF Good
    <2> QED
        BY <1>10, <1>11, NaturalInduction
<1>13. \A n \in D : w[n] = g[n]
    <2> SUFFICES ASSUME NEW n \in D PROVE w[n] = g[n]
        OBVIOUS
    <2>1. n - 1 \in Nat /\ (n - 1) + 1 = n /\ n <= NPROC + 2
        BY <1>1
    <2>2. n - 1 \in Good
        BY <1>12, <2>1
    <2> QED
        BY <2>1, <2>2
<1>14. \A n \in D : w[n] = IF n <= Len(l) + 1 THEN Node(q, l, n) ELSE EMPTY
    BY <1>13 DEF g
<1> QED
    BY <1>9, <1>14 DEF Walks, w

(* So the list that is read off the links is the one that they thread. *)
LEMMA ListIs ==
    ASSUME NEW q \in AllQueues, NEW l, NEW tab, Threaded(tab, q, l)
    PROVE  List(tab, q) = l
<1> DEFINE w == Walk(tab, q)
           on == {n \in DOMAIN w : w[n] \in Proc}
<1>1. Walks(w, q, l)
    BY WalkIs
<1>2. /\ Once(l) /\ Len(l) \in Nat /\ Len(l) <= NPROC /\ NPROC \in Nat
      /\ DOMAIN l = 1..Len(l) /\ l \in Seq(Proc)
    BY OnceFacts, QueueAssumption DEF Threaded, Once
<1>3. /\ \A i \in 0..(Len(l) + 1) : Node(q, l, i) \in Proc <=> i \in 1..Len(l)
      /\ \A i \in 1..Len(l) : Node(q, l, i) = l[i]
    BY <1>2, NodesApart
<1>4. EMPTY \notin Proc
    BY QueueIds
<1> HIDE DEF w
<1>5. on = 1..Len(l)
    <2>1. ASSUME NEW n \in 1..(NPROC + 2) PROVE w[n] \in Proc <=> n \in 1..Len(l)
        <3>1. CASE n <= Len(l) + 1
            <4>1. n \in 0..(Len(l) + 1) /\ w[n] = Node(q, l, n)
                BY <1>1, <1>2, <3>1 DEF Walks
            <4> QED
                BY <1>3, <4>1
        <3>2. CASE n > Len(l) + 1
            <4>1. ~(n <= Len(l) + 1) /\ n \notin 1..Len(l)
                BY <1>2, <3>2
            <4> QED
                BY <1>1, <1>4, <4>1 DEF Walks
        <3> QED
            BY <1>2, <3>1, <3>2
    <2>2. 1..Len(l) \subseteq 1..(NPROC + 2) /\ DOMAIN w = 1..(NPROC + 2)
        BY <1>1, <1>2 DEF Walks
    <2> QED
        BY <2>1, <2>2
<1>6. Cardinality(on) = Len(l)
    <2>1. 1 \in Int /\ Len(l) \in Int /\ (1 > Len(l) => Len(l) = 0) /\ Len(l) - 1 + 1 = Len(l)
        BY <1>2
    <2>2. Cardinality(1..Len(l)) = Len(l)
        BY <2>1, FS_Interval
    <2> QED
        BY <1>5, <2>2
<1>7. List(tab, q) = [i \in 1..Len(l) |-> w[i]]
    <2>1. List(tab, q) = [i \in 1..Cardinality(on) |-> w[i]]
        BY DEF List, w
    <2> HIDE DEF on
    <2> QED
        BY <1>6, <2>1
<1>8. \A i \in 1..Len(l) : w[i] = l[i]
    <2> SUFFICES ASSUME NEW i \in 1..Len(l) PROVE w[i] = l[i]
        OBVIOUS
    <2>1. i \in 1..(NPROC + 2) /\ i <= Len(l) + 1
        BY <1>2
    <2> QED
        BY <1>1, <1>3, <2>1 DEF Walks
<1>9. l = [i \in 1..Len(l) |-> l[i]]
    BY <1>2
<1> QED
    BY <1>7, <1>8, <1>9

-----------------------------------------------------------------------------
(* What a change of the links makes of a queue. *)
SameLinks(tab, new, C) == \A n \in C : new[n].qnext = tab[n].qnext /\ new[n].qprev = tab[n].qprev

LEMMA ThreadKept ==
    ASSUME NEW q \in AllQueues, NEW l, NEW tab, NEW new, Threaded(tab, q, l),
           SameLinks(tab, new, QNodes(q, l)), new[QueueTail(q)].qkey = tab[QueueTail(q)].qkey
    PROVE  Threaded(new, q, l)
<1>1. Once(l) /\ Len(l) \in Nat
    BY OnceFacts DEF Threaded
<1>2. \A i \in 0..(Len(l) + 1) : Node(q, l, i) \in QNodes(q, l)
    BY <1>1, NodesApart
<1>3. QueueTail(q) \in QNodes(q, l)
    BY DEF QNodes
<1>4. ASSUME NEW i \in 0..Len(l)
      PROVE  /\ new[Node(q, l, i)].qnext = Node(q, l, i + 1)
             /\ new[Node(q, l, i + 1)].qprev = Node(q, l, i)
    <2>1. i \in 0..(Len(l) + 1) /\ i + 1 \in 0..(Len(l) + 1)
        BY <1>1
    <2>2. Node(q, l, i) \in QNodes(q, l) /\ Node(q, l, i + 1) \in QNodes(q, l)
        BY <1>2, <2>1
    <2> QED
        BY <2>2 DEF Threaded, SameLinks
<1> QED
    BY <1>1, <1>3, <1>4 DEF Threaded, SameLinks

(* A node p between the nodes i - 1 and i. *)
LinkedAt(tab, new, q, l, p, i) ==
    LET prev == Node(q, l, i - 1)
        next == Node(q, l, i)
    IN  /\ new[p].qnext = next /\ new[p].qprev = prev /\ new[prev].qnext = p /\ new[next].qprev = p
        /\ \A n \in QNodes(q, l) : /\ n # prev => new[n].qnext = tab[n].qnext
                                   /\ n # next => new[n].qprev = tab[n].qprev
        /\ new[QueueTail(q)].qkey = tab[QueueTail(q)].qkey

LEMMA ThreadLinked ==
    ASSUME NEW q \in AllQueues, NEW l, NEW tab, NEW new, Threaded(tab, q, l),
           NEW p \in Proc, p \notin ToSet(l), NEW i \in 1..(Len(l) + 1), LinkedAt(tab, new, q, l, p, i)
    PROVE  Threaded(new, q, InsertAt(l, i, p)) /\ ToSet(InsertAt(l, i, p)) = ToSet(l) \cup {p}
<1> DEFINE r == InsertAt(l, i, p)
<1>1. /\ Once(l) /\ l \in Seq(Proc) /\ IsInjective(l) /\ Len(l) \in Nat
      /\ \A j \in 0..Len(l) : /\ tab[Node(q, l, j)].qnext = Node(q, l, j + 1)
                              /\ tab[Node(q, l, j + 1)].qprev = Node(q, l, j)
    BY OnceFacts DEF Threaded, Once
<1>2. /\ \A j \in 0..(Len(l) + 1) : Node(q, l, j) \in QNodes(q, l)
      /\ \A j, k \in 0..(Len(l) + 1) : Node(q, l, j) = Node(q, l, k) => j = k
      /\ Node(q, l, 0) = q /\ Node(q, l, Len(l) + 1) = QueueTail(q)
      /\ \A j \in 1..Len(l) : Node(q, l, j) = l[j]
    BY <1>1, NodesApart
<1>3. /\ r \in Seq(Proc) /\ Len(r) = Len(l) + 1
      /\ \A j \in 1..(Len(l) + 1) : r[j] = IF j < i THEN l[j] ELSE IF j = i THEN p ELSE l[j - 1]
    BY <1>1, InsertAtElements
<1>4. ToSet(r) = ToSet(l) \cup {p} /\ IsInjective(r)
    BY <1>1, InsertAtQueue
<1> HIDE DEF r
<1>5. ASSUME NEW j \in 0..(Len(l) + 2)
      PROVE  /\ j < i => Node(q, r, j) = Node(q, l, j)
             /\ j = i => Node(q, r, j) = p
             /\ j > i => Node(q, r, j) = Node(q, l, j - 1)
    <2>1. CASE j = 0
        BY <1>1, <2>1 DEF Node
    <2>2. CASE j \in 1..(Len(l) + 1)
        <3>1. Node(q, r, j) = r[j]
            BY <1>1, <1>3, <2>2 DEF Node
        <3>2. j < i => j \in 1..Len(l)
            BY <1>1, <2>2
        <3>3. j > i => j - 1 \in 1..Len(l)
            BY <1>1, <2>2
        <3> QED
            BY <1>2, <1>3, <2>2, <3>1, <3>2, <3>3
    <2>3. CASE j = Len(l) + 2
        <3>1. Node(q, r, j) = QueueTail(q) /\ j > i /\ j - 1 = Len(l) + 1 /\ ~(j < i) /\ j # i
            BY <1>1, <1>3, <2>3 DEF Node
        <3> QED
            BY <1>2, <3>1
    <2> QED
        BY <1>1, <2>1, <2>2, <2>3
<1> DEFINE prev == Node(q, l, i - 1)
           next == Node(q, l, i)
<1>6. /\ new[p].qnext = next /\ new[p].qprev = prev /\ new[prev].qnext = p /\ new[next].qprev = p
      /\ \A n \in QNodes(q, l) : /\ n # prev => new[n].qnext = tab[n].qnext
                                 /\ n # next => new[n].qprev = tab[n].qprev
      /\ new[QueueTail(q)].qkey = tab[QueueTail(q)].qkey
    BY DEF LinkedAt
<1>7. i \in Int /\ i - 1 \in 0..(Len(l) + 1) /\ i \in 0..(Len(l) + 1)
    BY <1>1
<1>8. ASSUME NEW j \in 0..(Len(l) + 1) PROVE (j # i - 1 => Node(q, l, j) # prev) /\ (j # i => Node(q, l, j) # next)
    BY <1>2, <1>7
<1> HIDE DEF prev, next
<1>9. ASSUME NEW j \in 0..(Len(l) + 1)
      PROVE  /\ new[Node(q, r, j)].qnext = Node(q, r, j + 1)
             /\ new[Node(q, r, j + 1)].qprev = Node(q, r, j)
    <2>1. j \in 0..(Len(l) + 2) /\ j + 1 \in 0..(Len(l) + 2)
        BY <1>1
    <2>2. CASE j < i - 1
        <3>1. /\ j < i /\ j + 1 < i /\ j \in 0..Len(l) /\ j # i - 1 /\ j + 1 # i
              /\ j + 1 \in 0..(Len(l) + 1)
            BY <1>1, <1>7, <2>2
        <3>2. Node(q, r, j) = Node(q, l, j) /\ Node(q, r, j + 1) = Node(q, l, j + 1)
            BY <1>5, <2>1, <3>1
        <3>3. Node(q, l, j) # prev /\ Node(q, l, j + 1) # next
            BY <1>8, <3>1
        <3> QED
            BY <1>1, <1>2, <1>6, <3>1, <3>2, <3>3
    <2>3. CASE j = i - 1
        <3>1. j < i /\ j + 1 = i
            BY <1>7, <2>3
        <3>2. Node(q, r, j) = prev /\ Node(q, r, j + 1) = p
            BY <1>5, <2>1, <2>3, <3>1 DEF prev
        <3> QED
            BY <1>6, <3>2
    <2>4. CASE j = i
        <3>1. j + 1 > i /\ (j + 1) - 1 = i
            BY <1>7, <2>4
        <3>2. Node(q, r, j) = p /\ Node(q, r, j + 1) = next
            BY <1>5, <2>1, <2>4, <3>1 DEF next
        <3> QED
            BY <1>6, <3>2
    <2>5. CASE j > i
        <3>1. /\ j + 1 > i /\ (j + 1) - 1 = j /\ j - 1 \in 0..Len(l) /\ (j - 1) + 1 = j
              /\ j - 1 # i - 1 /\ j # i /\ j - 1 \in 0..(Len(l) + 1)
            BY <1>1, <1>7, <2>5
        <3>2. Node(q, r, j) = Node(q, l, j - 1) /\ Node(q, r, j + 1) = Node(q, l, j)
            BY <1>5, <2>1, <2>5, <3>1
        <3>3. Node(q, l, j - 1) # prev /\ Node(q, l, j) # next
            BY <1>8, <3>1
        <3>4. tab[Node(q, l, j - 1)].qnext = Node(q, l, j) /\ tab[Node(q, l, j)].qprev = Node(q, l, j - 1)
            BY <1>1, <3>1
        <3> QED
            BY <1>2, <1>6, <3>1, <3>2, <3>3, <3>4
    <2> QED
        BY <1>7, <2>2, <2>3, <2>4, <2>5
<1>10. new[QueueTail(q)].qnext = EMPTY /\ new[QueueTail(q)].qkey = MINKEY
    <2>1. Len(l) + 1 \in 0..(Len(l) + 1) /\ Len(l) + 1 # i - 1
        BY <1>1, <1>7
    <2>2. QueueTail(q) # prev /\ QueueTail(q) \in QNodes(q, l)
        BY <1>2, <1>8, <2>1
    <2> QED
        BY <1>6, <2>2 DEF Threaded
<1>11. Threaded(new, q, r)
    BY <1>3, <1>4, <1>9, <1>10 DEF Threaded, Once
<1> QED
    BY <1>4, <1>11 DEF r

(* The node i is left out. *)
UnlinkedAt(tab, new, q, l, i) ==
    LET prev == Node(q, l, i - 1)
        next == Node(q, l, i + 1)
    IN  /\ new[prev].qnext = next /\ new[next].qprev = prev
        /\ \A n \in QNodes(q, l) \ {l[i]} : /\ n # prev => new[n].qnext = tab[n].qnext
                                            /\ n # next => new[n].qprev = tab[n].qprev
        /\ new[QueueTail(q)].qkey = tab[QueueTail(q)].qkey

LEMMA ThreadUnlinked ==
    ASSUME NEW q \in AllQueues, NEW l, NEW tab, NEW new, Threaded(tab, q, l),
           NEW i \in 1..Len(l), UnlinkedAt(tab, new, q, l, i)
    PROVE  Threaded(new, q, RemoveAt(l, i)) /\ ToSet(RemoveAt(l, i)) = ToSet(l) \ {l[i]}
<1> DEFINE r == RemoveAt(l, i)
<1>1. /\ Once(l) /\ l \in Seq(Proc) /\ IsInjective(l) /\ Len(l) \in Nat
      /\ \A j \in 0..Len(l) : /\ tab[Node(q, l, j)].qnext = Node(q, l, j + 1)
                              /\ tab[Node(q, l, j + 1)].qprev = Node(q, l, j)
    BY OnceFacts DEF Threaded, Once
<1>2. /\ \A j \in 0..(Len(l) + 1) : Node(q, l, j) \in QNodes(q, l)
      /\ \A j, k \in 0..(Len(l) + 1) : Node(q, l, j) = Node(q, l, k) => j = k
      /\ Node(q, l, 0) = q /\ Node(q, l, Len(l) + 1) = QueueTail(q)
      /\ \A j \in 1..Len(l) : Node(q, l, j) = l[j]
    BY <1>1, NodesApart
<1>3. /\ r \in Seq(Proc) /\ Len(r) = Len(l) - 1
      /\ \A j \in 1..(Len(l) - 1) : r[j] = IF j < i THEN l[j] ELSE l[j + 1]
    BY <1>1, RemoveAtElements
<1>4. ToSet(r) = ToSet(l) \ {l[i]} /\ IsInjective(r)
    <2>1. l[i] \in ToSet(l) /\ IndexOf(l, l[i]) = i
        BY <1>1, OnceFacts DEF IndexOf
    <2>2. GetItem(l, l[i]) = r
        BY <2>1 DEF GetItem
    <2> QED
        BY <1>1, <2>1, <2>2, GetItemQueue
<1> HIDE DEF r
<1>5. ASSUME NEW j \in 0..Len(l)
      PROVE  Node(q, r, j) = IF j < i THEN Node(q, l, j) ELSE Node(q, l, j + 1)
    <2>1. CASE j = 0
        BY <1>1, <2>1 DEF Node
    <2>2. CASE j \in 1..(Len(l) - 1)
        <3>1. Node(q, r, j) = r[j]
            BY <1>1, <1>3, <2>2 DEF Node
        <3>2. j \in 1..Len(l) /\ j + 1 \in 1..Len(l)
            BY <1>1, <2>2
        <3> QED
            BY <1>2, <1>3, <2>2, <3>1, <3>2
    <2>3. CASE j = Len(l)
        <3>1. Node(q, r, j) = QueueTail(q) /\ ~(j < i)
            BY <1>1, <1>3, <2>3 DEF Node
        <3> QED
            BY <1>2, <2>3, <3>1
    <2> QED
        BY <1>1, <2>1, <2>2, <2>3
<1> DEFINE prev == Node(q, l, i - 1)
           next == Node(q, l, i + 1)
<1>6. /\ new[prev].qnext = next /\ new[next].qprev = prev
      /\ \A n \in QNodes(q, l) \ {l[i]} : /\ n # prev => new[n].qnext = tab[n].qnext
                                          /\ n # next => new[n].qprev = tab[n].qprev
      /\ new[QueueTail(q)].qkey = tab[QueueTail(q)].qkey
    BY DEF UnlinkedAt
<1>7. i \in Int /\ i - 1 \in 0..(Len(l) + 1) /\ i \in 0..(Len(l) + 1) /\ i + 1 \in 0..(Len(l) + 1)
    BY <1>1
<1>8. ASSUME NEW j \in 0..(Len(l) + 1)
      PROVE  /\ j # i - 1 => Node(q, l, j) # prev
             /\ j # i + 1 => Node(q, l, j) # next
             /\ j # i => Node(q, l, j) # l[i]
    BY <1>2, <1>7
<1> HIDE DEF prev, next
<1>9. ASSUME NEW j \in 0..(Len(l) - 1)
      PROVE  /\ new[Node(q, r, j)].qnext = Node(q, r, j + 1)
             /\ new[Node(q, r, j + 1)].qprev = Node(q, r, j)
    <2>1. j \in 0..Len(l) /\ j + 1 \in 0..Len(l) /\ j \in 0..(Len(l) + 1) /\ j + 1 \in 0..(Len(l) + 1)
        BY <1>1
    <2>2. CASE j < i - 1
        <3>1. j < i /\ j + 1 < i /\ j # i - 1 /\ j + 1 # i + 1 /\ j # i /\ j + 1 # i
            BY <1>7, <2>2
        <3>2. Node(q, r, j) = Node(q, l, j) /\ Node(q, r, j + 1) = Node(q, l, j + 1)
            BY <1>5, <2>1, <3>1
        <3>3. /\ Node(q, l, j) # prev /\ Node(q, l, j + 1) # next
              /\ Node(q, l, j) # l[i] /\ Node(q, l, j + 1) # l[i]
            BY <1>8, <2>1, <3>1
        <3>4. Node(q, l, j) \in QNodes(q, l) \ {l[i]} /\ Node(q, l, j + 1) \in QNodes(q, l) \ {l[i]}
            BY <1>2, <2>1, <3>3
        <3> QED
            BY <1>1, <1>6, <2>1, <3>2, <3>3, <3>4
    <2>3. CASE j = i - 1
        <3>1. j < i /\ ~(j + 1 < i) /\ (j + 1) + 1 = i + 1
            BY <1>7, <2>3
        <3>2. Node(q, r, j) = prev /\ Node(q, r, j + 1) = next
            BY <1>5, <2>1, <2>3, <3>1 DEF prev, next
        <3> QED
            BY <1>6, <3>2
    <2>4. CASE j >= i
        <3>1. /\ ~(j < i) /\ ~(j + 1 < i) /\ j + 1 # i - 1 /\ (j + 1) + 1 # i + 1
              /\ j + 1 # i /\ (j + 1) + 1 # i /\ (j + 1) + 1 \in 0..(Len(l) + 1)
            BY <1>1, <1>7, <2>4
        <3>2. Node(q, r, j) = Node(q, l, j + 1) /\ Node(q, r, j + 1) = Node(q, l, (j + 1) + 1)
            BY <1>5, <2>1, <3>1
        <3>3. /\ Node(q, l, j + 1) # prev /\ Node(q, l, (j + 1) + 1) # next
              /\ Node(q, l, j + 1) # l[i] /\ Node(q, l, (j + 1) + 1) # l[i]
            BY <1>8, <2>1, <3>1
        <3>4. Node(q, l, j + 1) \in QNodes(q, l) \ {l[i]} /\ Node(q, l, (j + 1) + 1) \in QNodes(q, l) \ {l[i]}
            BY <1>2, <2>1, <3>1, <3>3
        <3>5. /\ tab[Node(q, l, j + 1)].qnext = Node(q, l, (j + 1) + 1)
              /\ tab[Node(q, l, (j + 1) + 1)].qprev = Node(q, l, j + 1)
            BY <1>1, <2>1
        <3> QED
            BY <1>6, <3>2, <3>3, <3>4, <3>5
    <2> QED
        BY <1>7, <2>2, <2>3, <2>4
<1>10. new[QueueTail(q)].qnext = EMPTY /\ new[QueueTail(q)].qkey = MINKEY
    <2>1. Len(l) + 1 \in 0..(Len(l) + 1) /\ Len(l) + 1 # i - 1 /\ Len(l) + 1 # i
        BY <1>1, <1>7
    <2>2. QueueTail(q) # prev /\ QueueTail(q) \in QNodes(q, l) \ {l[i]}
        BY <1>2, <1>8, <2>1
    <2> QED
        BY <1>6, <2>2 DEF Threaded
<1>11. Threaded(new, q, r)
    BY <1>3, <1>4, <1>9, <1>10 DEF Threaded, Once
<1> QED
    BY <1>4, <1>11 DEF r

-----------------------------------------------------------------------------
(* The operations of QueueSpec are those of ProcQueue. *)
LEMMA SameOperations ==
    ASSUME NEW l, NEW p, NEW k, NEW key
    PROVE  /\ Seqs!Insert(l, p, k, key) = Insert(l, p, k, key)
           /\ Seqs!InsertDelta(l, p, k, key) = InsertDelta(l, p, k, key)
           /\ Seqs!InsertDeltaKeys(l, p, k, key) = InsertDeltaKeys(l, p, k, key)
           /\ Seqs!GetItem(l, p) = GetItem(l, p)
           /\ Seqs!UnsleepKeys(l, p, key) = UnsleepKeys(l, p, key)
<1>1. Seqs!GetItem(l, p) = GetItem(l, p)
    BY DEF Seqs!GetItem, GetItem, Seqs!IndexOf, IndexOf, Seqs!RemoveAt, RemoveAt
<1>2. Seqs!UnsleepKeys(l, p, key) = UnsleepKeys(l, p, key)
    BY DEF Seqs!UnsleepKeys, UnsleepKeys, Seqs!IndexOf, IndexOf
<1>3. ASSUME NEW i PROVE Seqs!InsertAt(l, i, p) = InsertAt(l, i, p)
    BY DEF Seqs!InsertAt, InsertAt
<1>4. ASSUME NEW past PROVE Seqs!Passed(l, past) = Passed(l, past)
    BY DEF Seqs!Passed, Passed, Seqs!Cardinality, Cardinality
<1>5. Seqs!Elapsed(l, key) = Elapsed(l, key)
    BY DEF Seqs!Elapsed, Elapsed
<1>6. Seqs!Insert(l, p, k, key) = Insert(l, p, k, key)
    <2> DEFINE past == {i \in 1..Len(l) : key[l[i]] >= k}
    <2>1. Seqs!Insert(l, p, k, key) = Seqs!InsertAt(l, 1 + Seqs!Passed(l, past), p)
        BY DEF Seqs!Insert
    <2>2. Insert(l, p, k, key) = InsertAt(l, 1 + Passed(l, past), p)
        BY DEF Insert
    <2> HIDE DEF past
    <2> QED
        BY <1>3, <1>4, <2>1, <2>2
<1>7. Seqs!DeltaPosition(l, k, key) = DeltaPosition(l, k, key)
    <2> DEFINE past == {i \in 1..Len(l) : Elapsed(l, key)[i] <= k}
    <2>1. Seqs!DeltaPosition(l, k, key) = 1 + Seqs!Passed(l, past)
        BY <1>5 DEF Seqs!DeltaPosition
    <2>2. DeltaPosition(l, k, key) = 1 + Passed(l, past)
        BY DEF DeltaPosition
    <2> HIDE DEF past
    <2> QED
        BY <1>4, <2>1, <2>2
<1>8. Seqs!InsertDelta(l, p, k, key) = InsertDelta(l, p, k, key)
    BY <1>3, <1>7 DEF Seqs!InsertDelta, InsertDelta
<1>9. Seqs!InsertDeltaKeys(l, p, k, key) = InsertDeltaKeys(l, p, k, key)
    BY <1>5, <1>7 DEF Seqs!InsertDeltaKeys, InsertDeltaKeys
<1> QED
    BY <1>1, <1>2, <1>6, <1>8, <1>9

-----------------------------------------------------------------------------
(* What the operations do to a node n of the table. *)
LEMMA BetweenIs ==
    ASSUME NEW tab \in [Nodes -> QEntry], NEW p \in Nodes, NEW prev \in Nodes, NEW next \in Nodes,
           p # prev, p # next
    PROVE  /\ Between(tab, p, prev, next) \in [Nodes -> QEntry]
           /\ \A n \in Nodes :
                /\ Between(tab, p, prev, next)[n].qnext =
                        IF n = prev THEN p ELSE IF n = p THEN next ELSE tab[n].qnext
                /\ Between(tab, p, prev, next)[n].qprev =
                        IF n = next THEN p ELSE IF n = p THEN prev ELSE tab[n].qprev
                /\ Between(tab, p, prev, next)[n].qkey = tab[n].qkey
<1> DEFINE a == [tab EXCEPT ![p].qnext = next]
           b == [a EXCEPT ![p].qprev = prev]
           c == [b EXCEPT ![prev].qnext = p]
           d == [c EXCEPT ![next].qprev = p]
<1>1. Nodes \subseteq Int
    BY DEF Nodes
<1>2. /\ a \in [Nodes -> QEntry]
      /\ \A n \in Nodes : /\ a[n].qnext = IF n = p THEN next ELSE tab[n].qnext
                          /\ a[n].qprev = tab[n].qprev /\ a[n].qkey = tab[n].qkey
    BY <1>1 DEF QEntry
<1> HIDE DEF a
<1>3. /\ b \in [Nodes -> QEntry]
      /\ \A n \in Nodes : /\ b[n].qprev = IF n = p THEN prev ELSE a[n].qprev
                          /\ b[n].qnext = a[n].qnext /\ b[n].qkey = a[n].qkey
    BY <1>1, <1>2 DEF QEntry
<1> HIDE DEF b
<1>4. /\ c \in [Nodes -> QEntry]
      /\ \A n \in Nodes : /\ c[n].qnext = IF n = prev THEN p ELSE b[n].qnext
                          /\ c[n].qprev = b[n].qprev /\ c[n].qkey = b[n].qkey
    BY <1>1, <1>3 DEF QEntry
<1> HIDE DEF c
<1>5. /\ d \in [Nodes -> QEntry]
      /\ \A n \in Nodes : /\ d[n].qprev = IF n = next THEN p ELSE c[n].qprev
                          /\ d[n].qnext = c[n].qnext /\ d[n].qkey = c[n].qkey
    BY <1>1, <1>4 DEF QEntry
<1>6. Between(tab, p, prev, next) = d
    BY DEF Between, a, b, c
<1> HIDE DEF d
<1> QED
    BY <1>2, <1>3, <1>4, <1>5, <1>6

LEMMA GotItemIs ==
    ASSUME NEW tab \in [Nodes -> QEntry], NEW p \in Nodes, tab[p].qprev \in Nodes, tab[p].qnext \in Nodes
    PROVE  /\ GotItem(tab, p) \in [Nodes -> QEntry]
           /\ \A n \in Nodes :
                /\ GotItem(tab, p)[n].qnext = IF n = tab[p].qprev THEN tab[p].qnext ELSE tab[n].qnext
                /\ GotItem(tab, p)[n].qprev = IF n = tab[p].qnext THEN tab[p].qprev ELSE tab[n].qprev
                /\ GotItem(tab, p)[n].qkey = tab[n].qkey
<1>1. Nodes \subseteq Int
    BY DEF Nodes
<1> QED
    BY <1>1 DEF GotItem, QEntry

(* A key of a process changes no link and no tail. *)
LEMMA KeyIs ==
    ASSUME NEW tab \in [Nodes -> QEntry], NEW p \in Nodes, NEW k \in Int
    PROVE  /\ [tab EXCEPT ![p].qkey = k] \in [Nodes -> QEntry]
           /\ \A n \in Nodes :
                /\ [tab EXCEPT ![p].qkey = k][n].qnext = tab[n].qnext
                /\ [tab EXCEPT ![p].qkey = k][n].qprev = tab[n].qprev
                /\ [tab EXCEPT ![p].qkey = k][n].qkey = IF n = p THEN k ELSE tab[n].qkey
BY DEF QEntry

-----------------------------------------------------------------------------
(* The inductive invariant: the types of the table, that only a started system
   has processes on queues, and that every queue is threaded over its own. *)
TableTypes ==
    /\ queuetab \in [Nodes -> QEntry]
    /\ nextqid \in {NPROC + 2 * i : i \in 0..(NSEM + 2)}
    /\ place \in [Proc -> AllQueues \cup {EMPTY}]
OnQueue(q) == {p \in Proc : place[p] = q}
Lists == [q \in AllQueues |-> OnList(q)]
TableInv ==
    /\ TableTypes
    /\ \A p \in Proc : place[p] # EMPTY => Ready
    /\ \A q \in AllQueues :
        q < nextqid => Threaded(queuetab, q, OnList(q)) /\ ToSet(OnList(q)) = OnQueue(q)

LEMMA Started == TableInv /\ Ready => \A q \in AllQueues : q < nextqid /\ OnList(q) = List(queuetab, q)
<1> SUFFICES ASSUME TableInv, Ready, NEW q \in AllQueues
             PROVE  q < nextqid /\ OnList(q) = List(queuetab, q)
    OBVIOUS
<1>1. SleepQ \in Int
    BY QueueAssumption DEF SleepQ, ReadyList
<1>2. nextqid \in Int
    BY QueueAssumption DEF TableInv, TableTypes
<1>3. q < nextqid
    BY <1>1, <1>2, QueueIds DEF Ready
<1> QED
    BY <1>3 DEF OnList

(* A step of a started system that gives one queue another list: p joins or leaves. *)
Requeued(q, p, l) ==
    /\ UNCHANGED nextqid
    /\ queuetab' \in [Nodes -> QEntry]
    /\ Threaded(queuetab', q, l)
    /\ SameLinks(queuetab, queuetab', Nodes \ (QNodes(q, OnList(q)) \cup {p}))
    /\ \A n \in Nodes \ Proc : queuetab'[n].qkey = queuetab[n].qkey
    /\ \/ /\ place[p] = EMPTY /\ place' = [place EXCEPT ![p] = q]
          /\ ToSet(l) = ToSet(OnList(q)) \cup {p}
       \/ /\ place[p] = q /\ place' = [place EXCEPT ![p] = EMPTY]
          /\ ToSet(l) = ToSet(OnList(q)) \ {p}
       \/ UNCHANGED place /\ p \in OnQueue(q) /\ l = OnList(q)

LEMMA RequeuedInv ==
    ASSUME TableInv, Ready, NEW q \in AllQueues, NEW p \in Proc, NEW l, Requeued(q, p, l)
    PROVE  TableInv' /\ Lists' = [Lists EXCEPT ![q] = l] /\ Ready'
<1>1. /\ queuetab \in [Nodes -> QEntry] /\ place \in [Proc -> AllQueues \cup {EMPTY}]
      /\ nextqid \in {NPROC + 2 * i : i \in 0..(NSEM + 2)}
      /\ \A r \in AllQueues : Threaded(queuetab, r, OnList(r)) /\ ToSet(OnList(r)) = OnQueue(r)
      /\ \A r \in AllQueues : r < nextqid
    BY Started DEF TableInv, TableTypes
<1>2. Ready' /\ \A r \in AllQueues : OnList(r)' = List(queuetab', r)
    BY <1>1 DEF Requeued, Ready, OnList
<1>3. q # EMPTY /\ EMPTY \notin AllQueues
    BY QueueIds
<1>4. /\ place' \in [Proc -> AllQueues \cup {EMPTY}]
      /\ OnQueue(q)' = ToSet(l)
      /\ \A r \in AllQueues : r # q => OnQueue(r)' = OnQueue(r)
      /\ place[p] \in {q, EMPTY}
    <2>1. CASE place[p] = EMPTY /\ place' = [place EXCEPT ![p] = q] /\ ToSet(l) = ToSet(OnList(q)) \cup {p}
        BY <1>1, <1>3, <2>1 DEF OnQueue
    <2>2. CASE place[p] = q /\ place' = [place EXCEPT ![p] = EMPTY] /\ ToSet(l) = ToSet(OnList(q)) \ {p}
        BY <1>1, <1>3, <2>2 DEF OnQueue
    <2>3. CASE UNCHANGED place /\ p \in OnQueue(q) /\ l = OnList(q)
        BY <1>1, <1>3, <2>3 DEF OnQueue
    <2> QED
        BY <2>1, <2>2, <2>3 DEF Requeued
<1>5. ASSUME NEW r \in AllQueues, r # q
      PROVE  Threaded(queuetab', r, OnList(r)) /\ ToSet(OnList(r)) = OnQueue(r)'
    <2>1. Threaded(queuetab, r, OnList(r)) /\ ToSet(OnList(r)) = OnQueue(r) /\ ToSet(OnList(q)) = OnQueue(q)
        BY <1>1
    <2>2. /\ r \notin Proc /\ QueueTail(r) \notin Proc /\ r \in Nodes /\ QueueTail(r) \in Nodes
          /\ q \notin Proc /\ QueueTail(q) \notin Proc
          /\ r # QueueTail(q) /\ q # QueueTail(r) /\ QueueTail(q) # QueueTail(r) /\ Proc \subseteq Nodes
        BY <1>5, QueueIds
    <2>3. OnQueue(r) \subseteq Proc /\ OnQueue(q) \subseteq Proc /\ OnQueue(r) \cap OnQueue(q) = {} /\ p \notin OnQueue(r)
        BY <1>3, <1>4, <1>5 DEF OnQueue
    <2>4. QNodes(r, OnList(r)) \subseteq Nodes \ (QNodes(q, OnList(q)) \cup {p})
        BY <1>5, <2>1, <2>2, <2>3 DEF QNodes
    <2>5. SameLinks(queuetab, queuetab', QNodes(r, OnList(r)))
        BY <2>4 DEF Requeued, SameLinks
    <2>6. queuetab'[QueueTail(r)].qkey = queuetab[QueueTail(r)].qkey
        BY <2>2 DEF Requeued
    <2>7. Threaded(queuetab', r, OnList(r))
        <3>1. PICK t : t = queuetab
            OBVIOUS
        <3>2. PICK u : u = queuetab'
            OBVIOUS
        <3>3. PICK o : o = OnList(r)
            OBVIOUS
        <3>4. /\ Threaded(t, r, o) /\ SameLinks(t, u, QNodes(r, o)) /\ r \in AllQueues
              /\ u[QueueTail(r)].qkey = t[QueueTail(r)].qkey
            BY <2>1, <2>5, <2>6, <3>1, <3>2, <3>3
        <3>5. Threaded(u, r, o)
            BY ONLY <3>4, ThreadKept
        <3> QED
            BY <3>2, <3>3, <3>5
    <2> QED
        BY <1>4, <1>5, <2>1, <2>7
<1>6. Threaded(queuetab', q, l)
    BY DEF Requeued
<1>7. List(queuetab', q) = l
    BY <1>6, ListIs
<1>8. ASSUME NEW r \in AllQueues, r # q PROVE List(queuetab', r) = OnList(r)
    <2>1. Threaded(queuetab', r, OnList(r))
        BY <1>5, <1>8
    <2> QED
        BY <2>1, ListIs
<1>9. \A r \in AllQueues : OnList(r)' = IF r = q THEN l ELSE OnList(r)
    BY <1>2, <1>7, <1>8
<1>10. ASSUME NEW r \in AllQueues PROVE Threaded(queuetab', r, OnList(r)') /\ ToSet(OnList(r)') = OnQueue(r)'
    <2>1. CASE r = q
        BY <1>4, <1>6, <1>9, <2>1
    <2>2. CASE r # q
        BY <1>5, <1>9, <2>2
    <2> QED
        BY <2>1, <2>2
<1>11. TableInv'
    <2>1. nextqid' \in {NPROC + 2 * i : i \in 0..(NSEM + 2)} /\ queuetab' \in [Nodes -> QEntry]
        BY <1>1 DEF Requeued
    <2> QED
        BY <1>2, <1>4, <1>10, <2>1 DEF TableInv, TableTypes
<1>12. Lists' = [Lists EXCEPT ![q] = l]
    <2>1. Lists' = [r \in AllQueues |-> OnList(r)']
        BY DEF Lists
    <2>2. [Lists EXCEPT ![q] = l] = [r \in AllQueues |-> IF r = q THEN l ELSE OnList(r)]
        BY DEF Lists
    <2> QED
        BY <1>9, <2>1, <2>2
<1> QED
    BY <1>2, <1>11, <1>12

-----------------------------------------------------------------------------
(* Joining a queue before its node i, and leaving it. *)
LinkedBetween(tab, new, p, prev, next) ==
    \A n \in Nodes :
        /\ new[n].qnext = IF n = prev THEN p ELSE IF n = p THEN next ELSE tab[n].qnext
        /\ new[n].qprev = IF n = next THEN p ELSE IF n = p THEN prev ELSE tab[n].qprev

Cut(tab, new, p) ==
    \A n \in Nodes \ {p} :
        /\ new[n].qnext = IF n = tab[p].qprev THEN tab[p].qnext ELSE tab[n].qnext
        /\ new[n].qprev = IF n = tab[p].qnext THEN tab[p].qprev ELSE tab[n].qprev

TailKeysStay(tab, new) == \A n \in Nodes \ Proc : new[n].qkey = tab[n].qkey

LEMMA SplicedLinks ==
    ASSUME NEW q \in AllQueues, NEW l, NEW tab, NEW new, Threaded(tab, q, l),
           NEW p \in Proc, p \notin ToSet(l), NEW i \in 1..(Len(l) + 1),
           LinkedBetween(tab, new, p, Node(q, l, i - 1), Node(q, l, i)), TailKeysStay(tab, new)
    PROVE  /\ Threaded(new, q, InsertAt(l, i, p)) /\ ToSet(InsertAt(l, i, p)) = ToSet(l) \cup {p}
           /\ SameLinks(tab, new, Nodes \ (QNodes(q, l) \cup {p}))
<1> DEFINE prev == Node(q, l, i - 1)
           next == Node(q, l, i)
<1>1. Once(l) /\ Len(l) \in Nat
    BY OnceFacts DEF Threaded
<1>2. i - 1 \in 0..(Len(l) + 1) /\ i \in 0..(Len(l) + 1)
    BY <1>1
<1>3. /\ prev \in QNodes(q, l) /\ next \in QNodes(q, l) /\ prev \in Nodes /\ next \in Nodes
      /\ QNodes(q, l) \subseteq Nodes
    BY <1>1, <1>2, NodesApart
<1>4. p \in Nodes /\ p \notin QNodes(q, l) /\ QueueTail(q) \in Nodes /\ QueueTail(q) \notin Proc
    BY QueueIds DEF QNodes
<1>5. \A n \in Nodes :
        /\ new[n].qnext = IF n = prev THEN p ELSE IF n = p THEN next ELSE tab[n].qnext
        /\ new[n].qprev = IF n = next THEN p ELSE IF n = p THEN prev ELSE tab[n].qprev
    BY DEF LinkedBetween
<1>6. new[QueueTail(q)].qkey = tab[QueueTail(q)].qkey
    BY <1>4 DEF TailKeysStay
<1>7. LinkedAt(tab, new, q, l, p, i)
    <2> HIDE DEF prev, next
    <2>1. /\ new[p].qnext = next /\ new[p].qprev = prev /\ new[prev].qnext = p /\ new[next].qprev = p
          /\ \A n \in QNodes(q, l) : /\ n # prev => new[n].qnext = tab[n].qnext
                                     /\ n # next => new[n].qprev = tab[n].qprev
        BY <1>3, <1>4, <1>5
    <2> QED
        BY <1>6, <2>1 DEF LinkedAt, prev, next
<1>8. SameLinks(tab, new, Nodes \ (QNodes(q, l) \cup {p}))
    <2> HIDE DEF prev, next
    <2> QED
        BY <1>3, <1>5 DEF SameLinks
<1> QED
    BY <1>7, <1>8, ThreadLinked

Shortened(tab, new, q, l, i) ==
    /\ Threaded(new, q, RemoveAt(l, i)) /\ ToSet(RemoveAt(l, i)) = ToSet(l) \ {l[i]}
    /\ SameLinks(tab, new, Nodes \ (QNodes(q, l) \cup {l[i]}))

LEMMA CutLinks ==
    ASSUME NEW q \in AllQueues, NEW l, NEW tab, NEW new, Threaded(tab, q, l),
           NEW i \in 1..Len(l), Cut(tab, new, l[i]), TailKeysStay(tab, new)
    PROVE  Shortened(tab, new, q, l, i)
<1> DEFINE prev == Node(q, l, i - 1)
           next == Node(q, l, i + 1)
<1>1. Once(l) /\ Len(l) \in Nat
    BY OnceFacts DEF Threaded
<1>2. /\ i - 1 \in 0..(Len(l) + 1) /\ i \in 0..(Len(l) + 1) /\ i + 1 \in 0..(Len(l) + 1)
      /\ i - 1 \in 0..Len(l) /\ i \in 0..Len(l) /\ (i - 1) + 1 = i /\ i # i - 1 /\ i # i + 1
    BY <1>1
<1>3. /\ prev \in QNodes(q, l) /\ next \in QNodes(q, l) /\ prev \in Nodes /\ next \in Nodes
      /\ QNodes(q, l) \subseteq Nodes /\ Node(q, l, i) = l[i] /\ prev # l[i] /\ next # l[i]
    BY <1>1, <1>2, NodesApart
<1>4. QueueTail(q) \in Nodes /\ QueueTail(q) \notin Proc
    BY QueueIds
<1>5. tab[l[i]].qprev = prev /\ tab[l[i]].qnext = next
    BY <1>2, <1>3 DEF Threaded
<1>6. \A n \in Nodes \ {l[i]} :
        /\ new[n].qnext = IF n = prev THEN next ELSE tab[n].qnext
        /\ new[n].qprev = IF n = next THEN prev ELSE tab[n].qprev
    <2> HIDE DEF prev, next
    <2> QED
        BY <1>5 DEF Cut
<1>7. new[QueueTail(q)].qkey = tab[QueueTail(q)].qkey
    BY <1>4 DEF TailKeysStay
<1>8. UnlinkedAt(tab, new, q, l, i)
    <2> HIDE DEF prev, next
    <2>1. /\ new[prev].qnext = next /\ new[next].qprev = prev
          /\ \A n \in QNodes(q, l) \ {l[i]} : /\ n # prev => new[n].qnext = tab[n].qnext
                                              /\ n # next => new[n].qprev = tab[n].qprev
        BY <1>3, <1>6
    <2> QED
        BY <1>7, <2>1 DEF UnlinkedAt, prev, next
<1>9. SameLinks(tab, new, Nodes \ (QNodes(q, l) \cup {l[i]}))
    <2> HIDE DEF prev, next
    <2> QED
        BY <1>3, <1>6 DEF SameLinks
<1>10. Threaded(new, q, RemoveAt(l, i)) /\ ToSet(RemoveAt(l, i)) = ToSet(l) \ {l[i]}
    BY <1>8, ThreadUnlinked
<1> QED
    BY <1>9, <1>10 DEF Shortened

LEMMA JoinedAt ==
    ASSUME TableInv, Ready, NEW q \in AllQueues, NEW p \in Proc, place[p] = EMPTY,
           place' = [place EXCEPT ![p] = q], UNCHANGED nextqid,
           NEW i \in 1..(Len(OnList(q)) + 1), queuetab' \in [Nodes -> QEntry],
           LinkedBetween(queuetab, queuetab', p, Node(q, OnList(q), i - 1), Node(q, OnList(q), i)),
           TailKeysStay(queuetab, queuetab')
    PROVE  TableInv' /\ Ready' /\ Lists' = [Lists EXCEPT ![q] = InsertAt(OnList(q), i, p)]
<1>1. PICK t : t = queuetab
    OBVIOUS
<1>2. PICK u : u = queuetab'
    OBVIOUS
<1>3. PICK l : l = OnList(q)
    OBVIOUS
<1>4. Threaded(t, q, l) /\ ToSet(l) = OnQueue(q) /\ q # EMPTY
    BY <1>1, <1>3, Started, QueueIds DEF TableInv
<1>5. p \notin ToSet(l)
    BY <1>4 DEF OnQueue
<1>6. /\ i \in 1..(Len(l) + 1) /\ LinkedBetween(t, u, p, Node(q, l, i - 1), Node(q, l, i)) /\ TailKeysStay(t, u)
      /\ q \in AllQueues /\ p \in Proc
    BY <1>1, <1>2, <1>3
<1>7. /\ Threaded(u, q, InsertAt(l, i, p)) /\ ToSet(InsertAt(l, i, p)) = ToSet(l) \cup {p}
      /\ SameLinks(t, u, Nodes \ (QNodes(q, l) \cup {p}))
    BY ONLY <1>4, <1>5, <1>6, SplicedLinks
<1>8. PICK m : m = InsertAt(l, i, p)
    OBVIOUS
<1>9. Requeued(q, p, m)
    BY <1>1, <1>2, <1>3, <1>6, <1>7, <1>8 DEF Requeued, TailKeysStay
<1>10. TableInv' /\ Lists' = [Lists EXCEPT ![q] = m] /\ Ready'
    BY <1>9, RequeuedInv
<1> QED
    BY <1>3, <1>8, <1>10

LEMMA LeftAt ==
    ASSUME TableInv, Ready, NEW q \in AllQueues, NEW p \in Proc, place[p] = q,
           place' = [place EXCEPT ![p] = EMPTY], UNCHANGED nextqid,
           queuetab' \in [Nodes -> QEntry], Cut(queuetab, queuetab', p), TailKeysStay(queuetab, queuetab')
    PROVE  TableInv' /\ Ready' /\ Lists' = [Lists EXCEPT ![q] = GetItem(OnList(q), p)]
<1>1. PICK t : t = queuetab
    OBVIOUS
<1>2. PICK u : u = queuetab'
    OBVIOUS
<1>3. PICK l : l = OnList(q)
    OBVIOUS
<1>4. Threaded(t, q, l) /\ ToSet(l) = OnQueue(q) /\ Once(l)
    BY <1>1, <1>3, Started DEF TableInv, Threaded
<1>5. PICK i \in 1..Len(l) : l[i] = p /\ i = IndexOf(l, p)
    <2>1. \E i \in 1..Len(l) : l[i] = p
        BY <1>4, OnceFacts DEF OnQueue
    <2> QED
        BY <2>1 DEF IndexOf
<1>6. Cut(t, u, l[i]) /\ TailKeysStay(t, u) /\ q \in AllQueues /\ i \in 1..Len(l)
    BY <1>1, <1>2, <1>5
<1>7. Shortened(t, u, q, l, i)
    BY ONLY <1>4, <1>6, CutLinks
<1>8. PICK m : m = RemoveAt(l, i) /\ m = GetItem(l, p)
    BY <1>5 DEF GetItem
<1>9. Requeued(q, p, m)
    BY <1>1, <1>2, <1>3, <1>5, <1>6, <1>7, <1>8 DEF Requeued, TailKeysStay, Shortened
<1>10. TableInv' /\ Lists' = [Lists EXCEPT ![q] = m] /\ Ready'
    BY <1>9, RequeuedInv
<1> QED
    BY <1>3, <1>8, <1>10

-----------------------------------------------------------------------------
(* Where the walks of insert and insertd stop. *)
KeysOf(tab) == [p \in Proc |-> tab[p].qkey]

LEMMA MinIs ==
    ASSUME NEW S, NEW m \in S, \A y \in S : y \in Int /\ m <= y
    PROVE  Min(S) = m
<1>1. Min(S) \in S /\ \A y \in S : Min(S) <= y
    BY DEF Min
<1> QED
    BY <1>1

NotBelow(l, key, k) == {i \in 1..Len(l) : key[l[i]] >= k}
WithKey(tab, p, k) == [tab EXCEPT ![p].qkey = k]

LEMMA InsertedIs ==
    ASSUME NEW q \in AllQueues, NEW l, NEW tab \in [Nodes -> QEntry], Threaded(tab, q, l),
           NEW k \in Int, MINKEY < k, NEW p, NEW m, m = 1 + Passed(l, NotBelow(l, KeysOf(tab), k))
    PROVE  /\ m \in 1..(Len(l) + 1)
           /\ Inserted(tab, p, q, k) = WithKey(Between(tab, p, Node(q, l, m - 1), Node(q, l, m)), p, k)
<1> DEFINE w     == Walk(tab, q)
           stops == {n \in DOMAIN w : w[n] # EMPTY /\ tab[w[n]].qkey < k}
           past  == NotBelow(l, KeysOf(tab), k)
<1>1. Walks(w, q, l)
    BY WalkIs
<1>2. /\ Once(l) /\ l \in Seq(Proc) /\ Len(l) \in Nat /\ Len(l) <= NPROC /\ NPROC \in Nat
      /\ tab[QueueTail(q)].qkey = MINKEY
    BY OnceFacts, QueueAssumption DEF Threaded, Once
<1>3. /\ Passed(l, past) \in 0..Len(l)
      /\ \A i \in 1..Passed(l, past) : i \in past
      /\ Passed(l, past) < Len(l) => Passed(l, past) + 1 \notin past
    <2> HIDE DEF past
    <2> QED
        BY <1>2, PassedBound, PassedExact
<1>4. /\ m \in 1..(Len(l) + 1) /\ m - 1 \in 0..Len(l) /\ (m - 1) + 1 = m
      /\ \A i \in 1..(m - 1) : i \in past
      /\ m <= Len(l) => m \notin past
    <2>1. m = 1 + Passed(l, past)
        OBVIOUS
    <2> HIDE DEF past
    <2>2. PICK c \in 0..Len(l) : c = Passed(l, past)
        BY <1>3
    <2>3. m = 1 + c /\ (\A i \in 1..c : i \in past) /\ (c < Len(l) => c + 1 \notin past)
        BY <1>3, <2>1, <2>2
    <2>4. m \in 1..(Len(l) + 1) /\ m - 1 = c /\ (m - 1) + 1 = m /\ m = c + 1 /\ (m <= Len(l) => c < Len(l))
        BY ONLY <1>2, <2>3, c \in 0..Len(l)
    <2> QED
        BY <2>3, <2>4
<1>5. /\ \A i \in 1..Len(l) : l[i] \in Proc /\ Node(q, l, i) = l[i]
      /\ \A i \in 0..(Len(l) + 1) : Node(q, l, i) \in Nodes
      /\ Node(q, l, Len(l) + 1) = QueueTail(q) /\ Proc \subseteq Nodes /\ EMPTY \notin Nodes
    <2>1. \A i \in 1..Len(l) : l[i] \in Proc /\ Node(q, l, i) = l[i]
        BY <1>2, OnceFacts, NodesApart
    <2>2. (\A i \in 0..(Len(l) + 1) : Node(q, l, i) \in Nodes) /\ Node(q, l, Len(l) + 1) = QueueTail(q)
        BY <1>2, NodesApart
    <2>3. Proc \subseteq Nodes /\ EMPTY \notin Nodes
        BY QueueIds, QueueAssumption DEF Nodes
    <2> QED
        BY <2>1, <2>2, <2>3
<1>6. ASSUME NEW i \in 1..Len(l)
      PROVE  (i \in past <=> ~(tab[Node(q, l, i)].qkey < k)) /\ tab[Node(q, l, i)].qkey \in Int
    BY <1>5 DEF KeysOf, QEntry, NotBelow
<1> HIDE DEF past, w
<1>7. \A n \in 1..(Len(l) + 1) : n \in 1..(NPROC + 2) /\ w[n] = Node(q, l, n) /\ w[n] # EMPTY
    BY <1>1, <1>2, <1>5 DEF Walks
<1>8. m \in stops
    <2>1. m \in DOMAIN w /\ w[m] = Node(q, l, m) /\ w[m] # EMPTY
        BY <1>1, <1>4, <1>7 DEF Walks
    <2>2. tab[Node(q, l, m)].qkey < k
        <3>1. CASE m <= Len(l)
            BY <1>4, <1>6, <3>1
        <3>2. CASE m = Len(l) + 1
            BY <1>2, <1>5, <3>2
        <3> QED
            BY <1>2, <1>4, <3>1, <3>2
    <2> QED
        BY <2>1, <2>2
<1>9. ASSUME NEW n \in stops PROVE n \in Int /\ m <= n
    <2>1. n \in 1..(NPROC + 2) /\ w[n] # EMPTY /\ tab[w[n]].qkey < k
        BY <1>1 DEF Walks
    <2>2. CASE n < m
        <3>1. n \in 1..(m - 1) /\ n \in 1..Len(l) /\ n \in 1..(Len(l) + 1)
            BY <1>2, <1>4, <2>1, <2>2
        <3>2. n \in past /\ w[n] = Node(q, l, n)
            BY <1>4, <1>7, <3>1
        <3> QED
            BY <1>6, <2>1, <3>1, <3>2
    <2> QED
        BY <1>4, <2>1, <2>2
<1>10. Min(stops) = m
    <2> HIDE DEF stops
    <2> QED
        BY <1>8, <1>9, MinIs
<1>11. w[m] = Node(q, l, m) /\ tab[Node(q, l, m)].qprev = Node(q, l, m - 1)
    BY <1>4, <1>7 DEF Threaded
<1>12. Inserted(tab, p, q, k) = WithKey(Between(tab, p, tab[w[Min(stops)]].qprev, w[Min(stops)]), p, k)
    BY DEF Inserted, WithKey, w
<1> HIDE DEF stops
<1> QED
    BY <1>4, <1>10, <1>11, <1>12

(* insertd's left: what it is, for there is such a function. *)
IsLeft(left, tab, w, key) ==
    left = [n \in 1..(NPROC + 1) |-> IF n = 1 THEN key ELSE left[n - 1] - tab[w[n - 1]].qkey]

LEMMA LeftExists ==
    ASSUME NEW tab, NEW w, NEW key
    PROVE  \E left : IsLeft(left, tab, w, key)
<1> DEFINE Eq(f, m) == f = [n \in 1..(m + 1) |-> IF n = 1 THEN key ELSE f[n - 1] - tab[w[n - 1]].qkey]
           Good == {m \in Nat : \E f : Eq(f, m)}
<1>1. 0 \in Good
    <2> DEFINE f == [n \in 1..(0 + 1) |-> key]
    <2>1. Eq(f, 0)
        OBVIOUS
    <2> QED
        BY <2>1
<1>2. ASSUME NEW m \in Nat, m \in Good PROVE m + 1 \in Good
    <2>1. PICK f : Eq(f, m)
        BY <1>2
    <2> DEFINE last == f[m + 1] - tab[w[m + 1]].qkey
               g == [n \in 1..((m + 1) + 1) |-> IF n <= m + 1 THEN f[n] ELSE last]
    <2>2. ASSUME NEW n \in 1..((m + 1) + 1)
          PROVE  g[n] = IF n = 1 THEN key ELSE g[n - 1] - tab[w[n - 1]].qkey
        <3>1. CASE n = 1
            BY <2>1, <3>1
        <3>2. CASE n \in 2..(m + 1)
            <4>1. n \in 1..(m + 1) /\ n # 1 /\ n - 1 \in 1..((m + 1) + 1) /\ n - 1 <= m + 1 /\ n <= m + 1
                BY <3>2
            <4>2. f[n] = f[n - 1] - tab[w[n - 1]].qkey
                BY <2>1, <4>1
            <4> QED
                BY <4>1, <4>2
        <3>3. CASE n = (m + 1) + 1
            <4>1. n # 1 /\ n - 1 = m + 1 /\ n - 1 \in 1..((m + 1) + 1) /\ n - 1 <= m + 1 /\ ~(n <= m + 1)
                BY <3>3
            <4>2. g[n] = last /\ g[n - 1] = f[m + 1]
                BY <4>1
            <4> QED
                BY <4>1, <4>2
        <3> QED
            BY <3>1, <3>2, <3>3
    <2>3. Eq(g, m + 1)
        <3>1. g = [n \in 1..((m + 1) + 1) |-> g[n]]
            OBVIOUS
        <3> HIDE DEF g
        <3> QED
            BY <2>2, <3>1
    <2> HIDE DEF g, Eq
    <2>4. \E h : Eq(h, m + 1)
        BY <2>3
    <2> QED
        BY <2>4
<1>3. NPROC \in Good
    <2> HIDE DEF Good
    <2>1. NPROC \in Nat
        BY QueueAssumption
    <2> QED
        BY <1>1, <1>2, <2>1, NaturalInduction
<1> QED
    BY <1>3 DEF IsLeft

(* insertd stops where the delays of the sleepers say, with what is left of its own. *)
LEMMA InsertedDIs ==
    ASSUME NEW q \in AllQueues, NEW l, NEW tab \in [Nodes -> QEntry], Threaded(tab, q, l),
           NEW k \in Int, NEW p, NEW m, m = DeltaPosition(l, k, KeysOf(tab)),
           NEW rest, rest = k - Elapsed(l, KeysOf(tab))[m - 1],
           NEW linked, linked = WithKey(Between(tab, p, Node(q, l, m - 1), Node(q, l, m)), p, rest)
    PROVE  /\ m \in 1..(Len(l) + 1) /\ rest \in Int
           /\ InsertedD(tab, p, q, k) =
                IF m = Len(l) + 1 THEN linked ELSE WithKey(linked, l[m], linked[l[m]].qkey - rest)
<1> DEFINE w     == Walk(tab, q)
           left  == CHOOSE f : IsLeft(f, tab, w, k)
           key   == KeysOf(tab)
           e     == Elapsed(l, key)
           stops == {n \in DOMAIN w : \/ w[n] = QueueTail(q)
                                      \/ w[n] \in Proc /\ tab[w[n]].qkey > left[n]}
           past  == {i \in 1..Len(l) : e[i] <= k}
<1>1. Walks(w, q, l)
    BY WalkIs
<1>2. /\ Once(l) /\ l \in Seq(Proc) /\ Len(l) \in Nat /\ Len(l) <= NPROC /\ NPROC \in Nat
    BY OnceFacts, QueueAssumption DEF Threaded, Once
<1>3. /\ Passed(l, past) \in 0..Len(l)
      /\ \A i \in 1..Passed(l, past) : i \in past
      /\ Passed(l, past) < Len(l) => Passed(l, past) + 1 \notin past
    <2> HIDE DEF past
    <2> QED
        BY <1>2, PassedBound, PassedExact
<1>4. /\ m \in 1..(Len(l) + 1) /\ m - 1 \in 0..Len(l) /\ (m - 1) + 1 = m
      /\ \A i \in 1..(m - 1) : i \in past
      /\ m <= Len(l) => m \notin past
    <2>1. m = 1 + Passed(l, past)
        BY DEF DeltaPosition
    <2> HIDE DEF past
    <2>2. PICK c \in 0..Len(l) : c = Passed(l, past)
        BY <1>3
    <2>3. m = 1 + c /\ (\A i \in 1..c : i \in past) /\ (c < Len(l) => c + 1 \notin past)
        BY <1>3, <2>1, <2>2
    <2>4. m \in 1..(Len(l) + 1) /\ m - 1 = c /\ (m - 1) + 1 = m /\ m = c + 1 /\ (m <= Len(l) => c < Len(l))
        BY ONLY <1>2, <2>3, c \in 0..Len(l)
    <2> QED
        BY <2>3, <2>4
<1>5. /\ \A i \in 1..Len(l) : l[i] \in Proc /\ Node(q, l, i) = l[i]
      /\ \A i \in 0..(Len(l) + 1) : Node(q, l, i) \in Nodes /\ (Node(q, l, i) \in Proc <=> i \in 1..Len(l))
      /\ Node(q, l, Len(l) + 1) = QueueTail(q) /\ Proc \subseteq Nodes
      /\ EMPTY # QueueTail(q) /\ EMPTY \notin Proc /\ QueueTail(q) \notin Proc
    <2>1. \A i \in 1..Len(l) : l[i] \in Proc /\ Node(q, l, i) = l[i]
        BY <1>2, OnceFacts, NodesApart
    <2>2. /\ \A i \in 0..(Len(l) + 1) : Node(q, l, i) \in Nodes /\ (Node(q, l, i) \in Proc <=> i \in 1..Len(l))
          /\ Node(q, l, Len(l) + 1) = QueueTail(q)
        BY <1>2, NodesApart
    <2>3. Proc \subseteq Nodes /\ EMPTY # QueueTail(q) /\ EMPTY \notin Proc /\ QueueTail(q) \notin Proc
        BY QueueIds
    <2> QED
        BY <2>1, <2>2, <2>3
<1>6. /\ \A i \in 1..Len(l) : key[l[i]] = tab[l[i]].qkey /\ key[l[i]] \in Int
      /\ IntKeys(l, key)
    BY <1>5 DEF KeysOf, QEntry, IntKeys
<1>7. Along(e, l, key)
    BY <1>2, ElapsedAlong
<1>8. \A n \in 0..Len(l) : e[n] \in Int
    <2> HIDE DEF e, key
    <2> QED
        BY <1>6, <1>7, AlongInt
<1>9. IsLeft(left, tab, w, k)
    BY LeftExists
<1> HIDE DEF w, left, key, e
<1>10. \A n \in 1..(Len(l) + 1) : n \in 1..(NPROC + 2) /\ w[n] = Node(q, l, n)
    BY <1>1, <1>2, <1>5 DEF Walks
<1>11. \A n \in 1..(Len(l) + 1) : left[n] = k - e[n - 1]
    <2> DEFINE Good == {n \in Nat : n <= Len(l) => left[n + 1] = k - e[n]}
    <2>1. 0 \in Good
        <3>1. 1 \in 1..(NPROC + 1)
            BY <1>2
        <3>2. left[1] = k
            BY <1>9, <3>1 DEF IsLeft
        <3> QED
            BY <1>7, <3>2 DEF Along
    <2>2. ASSUME NEW n \in Nat, n \in Good PROVE n + 1 \in Good
        <3> SUFFICES ASSUME n + 1 <= Len(l) PROVE left[(n + 1) + 1] = k - e[n + 1]
            OBVIOUS
        <3>1. /\ n + 1 \in 1..Len(l) /\ (n + 1) - 1 = n /\ n \in 0..Len(l) /\ n + 1 \in 1..(Len(l) + 1)
              /\ (n + 1) + 1 \in 1..(NPROC + 1) /\ (n + 1) + 1 # 1 /\ ((n + 1) + 1) - 1 = n + 1
            BY <1>2
        <3>2. left[(n + 1) + 1] = left[n + 1] - tab[w[n + 1]].qkey
            BY <1>9, <3>1 DEF IsLeft
        <3>3. left[n + 1] = k - e[n]
            BY <2>2, <3>1
        <3>4. tab[w[n + 1]].qkey = key[l[n + 1]] /\ key[l[n + 1]] \in Int
            BY <1>5, <1>6, <1>10, <3>1
        <3>5. e[n + 1] = e[n] + key[l[n + 1]] /\ e[n] \in Int
            BY <1>7, <1>8, <3>1 DEF Along
        <3> QED
            BY <3>2, <3>3, <3>4, <3>5
    <2>3. \A n \in Nat : n \in Good
        <3> HIDE DEF Good
        <3> QED
            BY <2>1, <2>2, NaturalInduction
    <2> SUFFICES ASSUME NEW n \in 1..(Len(l) + 1) PROVE left[n] = k - e[n - 1]
        OBVIOUS
    <2>4. n - 1 \in Nat /\ n - 1 <= Len(l) /\ (n - 1) + 1 = n
        BY <1>2
    <2>5. n - 1 \in Good
        BY <2>3, <2>4
    <2> QED
        BY <2>4, <2>5
<1>12. ASSUME NEW n \in 1..(NPROC + 2)
       PROVE  n \in stops <=> n = Len(l) + 1 \/ (n \in 1..Len(l) /\ n \notin past)
    <2>1. n \in DOMAIN w
        BY <1>1 DEF Walks
    <2>2. CASE n \in 1..Len(l)
        <3>1. n \in 1..(Len(l) + 1) /\ n - 1 \in 0..Len(l) /\ n \in 0..Len(l) /\ n # Len(l) + 1
            BY <1>2, <2>2
        <3>2. w[n] = l[n] /\ w[n] \in Proc /\ w[n] # QueueTail(q)
            BY <1>5, <1>10, <2>2, <3>1
        <3>3. tab[w[n]].qkey = key[l[n]] /\ key[l[n]] \in Int
            BY <1>6, <2>2, <3>2
        <3>4. left[n] = k - e[n - 1] /\ e[n] = e[n - 1] + key[l[n]] /\ e[n - 1] \in Int
            BY <1>7, <1>8, <1>11, <2>2, <3>1 DEF Along
        <3>5. tab[w[n]].qkey > left[n] <=> ~(e[n] <= k)
            BY <3>3, <3>4
        <3> QED
            BY <2>1, <2>2, <3>1, <3>2, <3>5
    <2>3. CASE n = Len(l) + 1
        <3>1. w[n] = QueueTail(q)
            BY <1>2, <1>5, <1>10, <2>3
        <3> QED
            BY <2>1, <2>3, <3>1
    <2>4. CASE n > Len(l) + 1
        <3>1. ~(n <= Len(l) + 1) /\ n # Len(l) + 1 /\ n \notin 1..Len(l)
            BY <1>2, <2>4
        <3>2. w[n] = EMPTY
            BY <1>1, <3>1 DEF Walks
        <3> QED
            BY <1>5, <3>1, <3>2
    <2> QED
        BY <1>2, <2>2, <2>3, <2>4
<1>13. stops \subseteq 1..(NPROC + 2)
    BY <1>1 DEF Walks
<1> HIDE DEF stops, past
<1>14. m \in stops
    <2>1. m \in 1..(NPROC + 2) /\ (m <= Len(l) => m \in 1..Len(l)) /\ (~(m <= Len(l)) => m = Len(l) + 1)
        BY <1>2, <1>4
    <2> QED
        BY <1>4, <1>12, <2>1
<1>15. ASSUME NEW n \in stops PROVE n \in Int /\ m <= n
    <2>1. n \in 1..(NPROC + 2) /\ (n = Len(l) + 1 \/ (n \in 1..Len(l) /\ n \notin past))
        BY <1>12, <1>13
    <2>2. CASE n < m
        <3>1. n \in 1..(m - 1) /\ n # Len(l) + 1
            BY <1>2, <1>4, <2>1, <2>2
        <3> QED
            BY <1>4, <2>1, <3>1
    <2> QED
        BY <1>4, <2>1, <2>2
<1>16. Min(stops) = m
    BY <1>14, <1>15, MinIs
<1>17. left[m] = rest /\ rest \in Int
    BY <1>4, <1>8, <1>11 DEF e, key
<1>18. w[m] = Node(q, l, m) /\ (IF m = 1 THEN q ELSE w[m - 1]) = Node(q, l, m - 1)
    <2>1. CASE m = 1
        <3>1. Node(q, l, 0) = q
            BY DEF Node
        <3> QED
            BY <1>4, <1>10, <2>1, <3>1
    <2>2. CASE m # 1
        <3>1. m - 1 \in 1..(Len(l) + 1)
            BY <1>2, <1>4, <2>2
        <3> QED
            BY <1>4, <1>10, <2>2, <3>1
    <2> QED
        BY <2>1, <2>2
<1>19. InsertedD(tab, p, q, k) =
        LET next  == w[Min(stops)]
            chain == WithKey(Between(tab, p, IF Min(stops) = 1 THEN q ELSE w[Min(stops) - 1], next),
                             p, left[Min(stops)])
        IN  IF next = QueueTail(q) THEN chain
            ELSE WithKey(chain, next, chain[next].qkey - left[Min(stops)])
    BY DEF InsertedD, WithKey, w, left, stops, IsLeft
<1>20. InsertedD(tab, p, q, k) =
        IF Node(q, l, m) = QueueTail(q) THEN linked
        ELSE WithKey(linked, Node(q, l, m), linked[Node(q, l, m)].qkey - rest)
    BY <1>16, <1>17, <1>18, <1>19
<1>21. CASE m = Len(l) + 1
    BY <1>4, <1>5, <1>17, <1>20, <1>21
<1>22. CASE m # Len(l) + 1
    <2>1. m \in 1..Len(l) /\ m \in 0..(Len(l) + 1)
        BY <1>2, <1>4, <1>22
    <2>2. Node(q, l, m) = l[m] /\ Node(q, l, m) # QueueTail(q)
        BY <1>5, <2>1
    <2> QED
        BY <1>4, <1>17, <1>20, <1>22, <2>2
<1> QED
    BY <1>21, <1>22

-----------------------------------------------------------------------------
(* Every call keeps the table linked, and is a step on the sequences.        *)
Keys == KeysOf(queuetab)
TableStep == TableInv' /\ [Seqs!Next]_<<place, Lists, Keys>>

(* The queue that a step is about. *)
LEMMA QueueFacts ==
    ASSUME TableInv, Ready, NEW q \in AllQueues
    PROVE  /\ Threaded(queuetab, q, OnList(q)) /\ ToSet(OnList(q)) = OnQueue(q)
           /\ queuetab \in [Nodes -> QEntry] /\ place \in [Proc -> AllQueues \cup {EMPTY}]
           /\ Once(OnList(q)) /\ Len(OnList(q)) \in Nat /\ Lists[q] = OnList(q)
           /\ Keys \in [Proc -> Int]
<1>1. Threaded(queuetab, q, OnList(q)) /\ ToSet(OnList(q)) = OnQueue(q)
    BY Started DEF TableInv
<1>2. queuetab \in [Nodes -> QEntry] /\ place \in [Proc -> AllQueues \cup {EMPTY}]
    BY DEF TableInv, TableTypes
<1>3. Once(OnList(q)) /\ Len(OnList(q)) \in Nat
    BY <1>1, OnceFacts DEF Threaded
<1>4. Keys \in [Proc -> Int]
    BY <1>2, QueueIds DEF Keys, KeysOf, QEntry
<1> QED
    BY <1>1, <1>2, <1>3, <1>4 DEF Lists

SplicedIn(tab, new, q, l, p, i) ==
    /\ new \in [Nodes -> QEntry]
    /\ LinkedBetween(tab, new, p, Node(q, l, i - 1), Node(q, l, i))
    /\ \A n \in Nodes : new[n].qkey = tab[n].qkey

LEMMA SplicedBetween ==
    ASSUME NEW q \in AllQueues, NEW l, Once(l), NEW tab \in [Nodes -> QEntry],
           NEW p \in Proc, p \notin ToSet(l), NEW i \in 1..(Len(l) + 1),
           NEW new, new = Between(tab, p, Node(q, l, i - 1), Node(q, l, i))
    PROVE  SplicedIn(tab, new, q, l, p, i)
<1> DEFINE prev == Node(q, l, i - 1)
           next == Node(q, l, i)
<1>1. i - 1 \in 0..(Len(l) + 1) /\ i \in 0..(Len(l) + 1)
    BY OnceFacts
<1>2. prev \in Nodes /\ next \in Nodes /\ prev \in QNodes(q, l) /\ next \in QNodes(q, l)
    BY <1>1, NodesApart
<1>3. p \in Nodes /\ p # q /\ p # QueueTail(q)
    BY QueueIds
<1>4. p # prev /\ p # next
    BY <1>2, <1>3 DEF QNodes
<1>5. new = Between(tab, p, prev, next)
    OBVIOUS
<1> HIDE DEF prev, next
<1>6. /\ new \in [Nodes -> QEntry]
      /\ \A n \in Nodes :
            /\ new[n].qnext = IF n = prev THEN p ELSE IF n = p THEN next ELSE tab[n].qnext
            /\ new[n].qprev = IF n = next THEN p ELSE IF n = p THEN prev ELSE tab[n].qprev
            /\ new[n].qkey = tab[n].qkey
    BY <1>2, <1>3, <1>4, <1>5, BetweenIs
<1> QED
    BY <1>6 DEF SplicedIn, LinkedBetween, prev, next

LEMMA InsertedLast ==
    ASSUME NEW S, NEW l \in Seq(S), NEW p \in S
    PROVE  InsertAt(l, Len(l) + 1, p) = Append(l, p)
<1>1. Len(l) \in Nat
    OBVIOUS
<1>2. PICK i \in 1..(Len(l) + 1) : i = Len(l) + 1
    BY <1>1
<1> DEFINE a == InsertAt(l, i, p)
           b == Append(l, p)
<1>3. /\ a \in Seq(S) /\ Len(a) = Len(l) + 1
      /\ \A j \in 1..(Len(l) + 1) :
            a[j] = IF j < i THEN l[j] ELSE IF j = i THEN p ELSE l[j - 1]
    BY ONLY l \in Seq(S), p \in S, i \in 1..(Len(l) + 1), InsertAtElements
<1>4. a = InsertAt(l, i, p) /\ b = Append(l, p)
    OBVIOUS
<1>5. /\ b \in Seq(S) /\ Len(b) = Len(l) + 1
      /\ \A j \in 1..Len(l) : b[j] = l[j]
      /\ b[Len(l) + 1] = p
    BY AppendProperties
<1> HIDE DEF a, b
<1>6. \A j \in 1..(Len(l) + 1) : a[j] = b[j]
    BY <1>1, <1>2, <1>3, <1>5
<1>7. a = b
    <2>1. a = [j \in 1..(Len(l) + 1) |-> a[j]] /\ b = [j \in 1..(Len(l) + 1) |-> b[j]]
        BY <1>1, <1>3, <1>5
    <2> QED
        BY <1>6, <2>1
<1> QED
    BY <1>2, <1>4, <1>7

LEMMA JoinSemOK ==
    ASSUME TableInv, NEW p \in Proc, NEW q \in SemQueues, JoinSem(p, q)
    PROVE  TableStep
<1> DEFINE l == OnList(q)
           i == Len(l) + 1
<1>1. q \in AllQueues /\ Proc \subseteq Nodes /\ QueueTail(q) \in Nodes /\ q \notin Proc
    BY QueueIds
<1>2. /\ Ready /\ place[p] = EMPTY /\ place' = [place EXCEPT ![p] = q] /\ UNCHANGED nextqid
      /\ queuetab' = Between(queuetab, p, LastId(queuetab, q), QueueTail(q))
    BY DEF JoinSem, Move, Enqueued
<1>3. /\ Threaded(queuetab, q, l) /\ queuetab \in [Nodes -> QEntry] /\ Once(l) /\ Len(l) \in Nat
      /\ Lists[q] = l /\ ToSet(l) = OnQueue(q) /\ q # EMPTY
    BY <1>1, <1>2, QueueFacts, QueueIds
<1> HIDE DEF l
<1>4. /\ i \in 1..(Len(l) + 1) /\ i - 1 = Len(l) /\ Len(l) \in 0..Len(l)
      /\ Len(l) \in 0..(Len(l) + 1) /\ i \in 0..(Len(l) + 1)
    BY <1>3
<1>5. Node(q, l, i) = QueueTail(q) /\ Node(q, l, i) \in Nodes /\ Node(q, l, i - 1) \in Nodes
    BY <1>1, <1>3, <1>4, NodesApart
<1>6. LastId(queuetab, q) = Node(q, l, i - 1)
    BY <1>3, <1>4, <1>5 DEF Threaded, LastId
<1>7. p \notin ToSet(l)
    BY <1>2, <1>3 DEF OnQueue
<1>8. /\ queuetab' \in [Nodes -> QEntry]
      /\ LinkedBetween(queuetab, queuetab', p, Node(q, l, i - 1), Node(q, l, i))
      /\ \A n \in Nodes : queuetab'[n].qkey = queuetab[n].qkey
    <2>1. queuetab' = Between(queuetab, p, Node(q, l, i - 1), Node(q, l, i))
        BY <1>2, <1>5, <1>6
    <2>2. SplicedIn(queuetab, queuetab', q, l, p, i)
        BY <1>1, <1>3, <1>4, <1>7, <2>1, SplicedBetween
    <2> QED
        BY <2>2 DEF SplicedIn
<1>9. TailKeysStay(queuetab, queuetab') /\ UNCHANGED Keys
    BY <1>1, <1>8 DEF TailKeysStay, Keys, KeysOf
<1>10. TableInv' /\ Lists' = [Lists EXCEPT ![q] = InsertAt(l, i, p)]
    BY <1>1, <1>2, <1>4, <1>8, <1>9, JoinedAt DEF l
<1>11. InsertAt(l, i, p) = Append(Lists[q], p)
    <2>1. l \in Seq(Proc)
        BY <1>3 DEF Once
    <2> QED
        BY <1>3, <2>1, InsertedLast
<1>12. Seqs!Join(p, q)
    BY <1>2, <1>9, <1>10, <1>11 DEF Seqs!Join, Seqs!Joins, Seqs!Becomes, Lists, Keys, KeysOf
<1> QED
    BY <1>10, <1>12 DEF TableStep, Seqs!Next


LEMMA JoinReadyOK ==
    ASSUME TableInv, NEW p \in Proc, JoinReady(p)
    PROVE  TableStep
<1> DEFINE q == ReadyList
           l == OnList(q)
           k == Prio[p]
           i == 1 + Passed(l, NotBelow(l, Keys, k))
           b == Between(queuetab, p, Node(q, l, i - 1), Node(q, l, i))
<1>1. q \in AllQueues /\ Proc \subseteq Nodes
    BY QueueIds
<1>2. /\ Ready /\ place[p] = EMPTY /\ place' = [place EXCEPT ![p] = q] /\ UNCHANGED nextqid
      /\ queuetab' = Inserted(queuetab, p, q, k)
    BY DEF JoinReady, Move
<1>3. /\ Threaded(queuetab, q, l) /\ queuetab \in [Nodes -> QEntry] /\ Once(l) /\ Len(l) \in Nat
      /\ Lists[q] = l /\ ToSet(l) = OnQueue(q) /\ q # EMPTY
    BY <1>1, <1>2, QueueFacts, QueueIds
<1>4. k \in Int /\ MINKEY < k /\ k \in Delays \cup {Prio[x] : x \in Proc}
    BY QueueAssumption DEF Proc
<1>5. p \notin ToSet(l)
    BY <1>2, <1>3 DEF OnQueue
<1>6. Seqs!Insert(l, p, k, Keys) = InsertAt(l, i, p)
    BY SameOperations DEF Insert, NotBelow
<1>7. i = 1 + Passed(l, NotBelow(l, KeysOf(queuetab), k))
    BY DEF Keys
<1> HIDE DEF q, l, k, i
<1>8. i \in 1..(Len(l) + 1) /\ queuetab' = [b EXCEPT ![p].qkey = k]
    <2>1. PICK t : t = queuetab
        OBVIOUS
    <2>2. PICK o : o = l
        OBVIOUS
    <2>3. PICK m : m = i
        OBVIOUS
    <2>4. PICK r : r = q
        OBVIOUS
    <2>5. PICK c : c = k
        OBVIOUS
    <2>6. /\ r \in AllQueues /\ t \in [Nodes -> QEntry] /\ Threaded(t, r, o) /\ c \in Int /\ MINKEY < c
          /\ m = 1 + Passed(o, NotBelow(o, KeysOf(t), c))
        BY <1>1, <1>3, <1>4, <1>7, <2>1, <2>2, <2>3, <2>4, <2>5
    <2>7. /\ m \in 1..(Len(o) + 1)
          /\ Inserted(t, p, r, c) = WithKey(Between(t, p, Node(r, o, m - 1), Node(r, o, m)), p, c)
        BY ONLY <2>6, InsertedIs
    <2> QED
        BY <1>2, <2>1, <2>2, <2>3, <2>4, <2>5, <2>7 DEF WithKey
<1>9. SplicedIn(queuetab, b, q, l, p, i)
    BY <1>1, <1>3, <1>5, <1>8, SplicedBetween
<1> HIDE DEF b
<1>10. /\ b \in [Nodes -> QEntry] /\ LinkedBetween(queuetab, b, p, Node(q, l, i - 1), Node(q, l, i))
       /\ \A n \in Nodes : b[n].qkey = queuetab[n].qkey
    BY <1>9 DEF SplicedIn
<1>11. /\ queuetab' \in [Nodes -> QEntry]
       /\ \A n \in Nodes :
            /\ queuetab'[n].qnext = b[n].qnext /\ queuetab'[n].qprev = b[n].qprev
            /\ queuetab'[n].qkey = IF n = p THEN k ELSE b[n].qkey
    <2>1. p \in Nodes
        BY <1>1
    <2> QED
        BY <1>4, <1>8, <1>10, <2>1, KeyIs
<1>12. LinkedBetween(queuetab, queuetab', p, Node(q, l, i - 1), Node(q, l, i)) /\ TailKeysStay(queuetab, queuetab')
    BY <1>10, <1>11 DEF LinkedBetween, TailKeysStay
<1>13. Keys' = [Keys EXCEPT ![p] = k]
    BY <1>1, <1>10, <1>11 DEF Keys, KeysOf
<1>14. TableInv' /\ Lists' = [Lists EXCEPT ![q] = InsertAt(l, i, p)]
    BY <1>1, <1>2, <1>8, <1>11, <1>12, JoinedAt DEF l
<1>15. Seqs!JoinByKey(p, q, k)
    <2>1. Seqs!Joins(p, q)
        BY <1>2 DEF Seqs!Joins
    <2>2. Lists' = [Lists EXCEPT ![q] = Seqs!Insert(Lists[q], p, k, Keys)]
        BY <1>3, <1>6, <1>14
    <2> QED
        BY <1>13, <2>1, <2>2 DEF Seqs!JoinByKey, Seqs!Becomes, Lists, Keys, KeysOf
<1> QED
    BY <1>4, <1>14, <1>15 DEF TableStep, Seqs!Next, q


LEMMA JoinSleepOK ==
    ASSUME TableInv, NEW p \in Proc, NEW k \in Delays, JoinSleep(p, k)
    PROVE  TableStep
<1>1. /\ Ready /\ place[p] = EMPTY /\ place' = [place EXCEPT ![p] = SleepQ] /\ UNCHANGED nextqid
      /\ queuetab' = InsertedD(queuetab, p, SleepQ, k)
    BY DEF JoinSleep, Move
<1>2. PICK q : q = SleepQ
    OBVIOUS
<1>3. PICK l : l = OnList(q)
    OBVIOUS
<1>4. PICK t : t = queuetab
    OBVIOUS
<1>5. PICK m : m = DeltaPosition(l, k, KeysOf(t))
    OBVIOUS
<1>6. PICK rest : rest = k - Elapsed(l, KeysOf(t))[m - 1]
    OBVIOUS
<1>7. PICK b : b = Between(t, p, Node(q, l, m - 1), Node(q, l, m))
    OBVIOUS
<1>8. PICK linked : linked = WithKey(b, p, rest)
    OBVIOUS
<1>9. q \in AllQueues /\ Proc \subseteq Nodes
    BY <1>2, QueueIds
<1>10. /\ Threaded(t, q, l) /\ t \in [Nodes -> QEntry] /\ Once(l) /\ Len(l) \in Nat
       /\ Lists[q] = l /\ ToSet(l) = OnQueue(q) /\ q # EMPTY
    BY <1>1, <1>3, <1>4, <1>9, QueueFacts, QueueIds
<1>11. p \notin ToSet(l)
    BY <1>1, <1>10 DEF OnQueue
<1>12. k \in Int
    BY QueueAssumption
<1>13. linked = WithKey(Between(t, p, Node(q, l, m - 1), Node(q, l, m)), p, rest)
    BY <1>7, <1>8
<1>14. /\ m \in 1..(Len(l) + 1) /\ rest \in Int
       /\ InsertedD(t, p, q, k) =
            IF m = Len(l) + 1 THEN linked ELSE WithKey(linked, l[m], linked[l[m]].qkey - rest)
    BY ONLY <1>5, <1>6, <1>9, <1>10, <1>12, <1>13, InsertedDIs
<1>15. SplicedIn(t, b, q, l, p, m)
    BY <1>7, <1>9, <1>10, <1>11, <1>14, SplicedBetween
<1>16. /\ b \in [Nodes -> QEntry] /\ LinkedBetween(t, b, p, Node(q, l, m - 1), Node(q, l, m))
       /\ \A n \in Nodes : b[n].qkey = t[n].qkey
    BY <1>15 DEF SplicedIn
<1>17. /\ linked \in [Nodes -> QEntry]
       /\ \A n \in Nodes : /\ linked[n].qnext = b[n].qnext /\ linked[n].qprev = b[n].qprev
                           /\ linked[n].qkey = IF n = p THEN rest ELSE t[n].qkey
    <2>1. p \in Nodes
        BY <1>9
    <2> QED
        BY <1>8, <1>14, <1>16, <2>1, KeyIs DEF WithKey
<1>18. PICK u : u = queuetab'
    OBVIOUS
<1>19. u = IF m = Len(l) + 1 THEN linked ELSE WithKey(linked, l[m], linked[l[m]].qkey - rest)
    BY <1>1, <1>2, <1>4, <1>14, <1>18
<1>20. m # Len(l) + 1 => m \in 1..Len(l) /\ l[m] \in Proc /\ l[m] \in Nodes /\ l[m] # p
    BY <1>9, <1>10, <1>11, <1>14, OnceFacts
<1>21. /\ u \in [Nodes -> QEntry]
       /\ \A n \in Nodes :
            /\ u[n].qnext = b[n].qnext /\ u[n].qprev = b[n].qprev
            /\ u[n].qkey = IF n = p THEN rest
                           ELSE IF m # Len(l) + 1 /\ n = l[m] THEN t[n].qkey - rest ELSE t[n].qkey
    <2>1. CASE m = Len(l) + 1
        BY <1>17, <1>19, <2>1
    <2>2. CASE m # Len(l) + 1
        <3>1. PICK next \in Proc : next = l[m] /\ next \in Nodes /\ next # p
            BY <1>20, <2>2
        <3>2. PICK less \in Int : less = t[next].qkey - rest /\ less = linked[next].qkey - rest
            <4>1. linked[next].qkey = t[next].qkey /\ linked[next].qkey \in Int
                BY <1>17, <3>1 DEF QEntry
            <4> QED
                BY <1>14, <4>1
        <3>3. u = WithKey(linked, next, less)
            BY <1>19, <2>2, <3>1, <3>2
        <3>4. /\ u \in [Nodes -> QEntry]
              /\ \A n \in Nodes : /\ u[n].qnext = linked[n].qnext /\ u[n].qprev = linked[n].qprev
                                  /\ u[n].qkey = IF n = next THEN less ELSE linked[n].qkey
            BY <1>17, <3>1, <3>2, <3>3, KeyIs DEF WithKey
        <3> QED
            BY <1>17, <2>2, <3>1, <3>2, <3>4
    <2> QED
        BY <2>1, <2>2
<1>22. /\ LinkedBetween(queuetab, queuetab', p, Node(q, l, m - 1), Node(q, l, m))
       /\ TailKeysStay(queuetab, queuetab') /\ queuetab' \in [Nodes -> QEntry]
    BY <1>4, <1>16, <1>18, <1>20, <1>21 DEF LinkedBetween, TailKeysStay
<1>23. Keys' = InsertDeltaKeys(l, p, k, Keys)
    <2>1. m = DeltaPosition(l, k, Keys) /\ rest = k - Elapsed(l, Keys)[m - 1]
        BY <1>4, <1>5, <1>6 DEF Keys
    <2>2. DOMAIN Keys = Proc
        BY DEF Keys, KeysOf
    <2>3. InsertDeltaKeys(l, p, k, Keys) =
            [x \in Proc |-> IF x = p THEN rest
                            ELSE IF x \in (IF m <= Len(l) THEN {l[m]} ELSE {}) THEN Keys[x] - rest
                            ELSE Keys[x]]
        BY <2>1, <2>2 DEF InsertDeltaKeys
    <2>4. m <= Len(l) <=> m # Len(l) + 1
        BY <1>10, <1>14
    <2>5. \A x \in Proc : Keys[x] = t[x].qkey
        BY <1>4 DEF Keys, KeysOf
    <2>6. \A x \in Proc : u[x].qkey = IF x = p THEN rest
                            ELSE IF x \in (IF m <= Len(l) THEN {l[m]} ELSE {}) THEN Keys[x] - rest
                            ELSE Keys[x]
        BY <1>9, <1>21, <2>4, <2>5
    <2>7. Keys' = [x \in Proc |-> u[x].qkey]
        BY <1>18 DEF Keys, KeysOf
    <2> HIDE DEF Keys
    <2> QED
        BY <2>3, <2>6, <2>7
<1>24. TableInv' /\ Lists' = [Lists EXCEPT ![q] = InsertAt(l, m, p)]
    BY <1>1, <1>2, <1>3, <1>9, <1>14, <1>22, JoinedAt
<1>25. InsertDelta(l, p, k, Keys) = InsertAt(l, m, p)
    BY <1>4, <1>5 DEF InsertDelta, Keys
<1>26. Seqs!JoinByDelay(p, q, k)
    <2>1. Seqs!Joins(p, q)
        BY <1>1, <1>2 DEF Seqs!Joins
    <2>2. Lists' = [Lists EXCEPT ![q] = Seqs!InsertDelta(Lists[q], p, k, Keys)]
        BY <1>10, <1>24, <1>25, SameOperations
    <2>3. Keys' = Seqs!InsertDeltaKeys(Lists[q], p, k, Keys)
        BY <1>10, <1>23, SameOperations
    <2> QED
        BY <2>1, <2>2, <2>3 DEF Seqs!JoinByDelay, Seqs!Becomes, Lists, Keys, KeysOf
<1>27. q \in {SleepQ} /\ k \in Delays \cup {Prio[x] : x \in Proc}
    BY <1>2
<1> QED
    BY <1>24, <1>26, <1>27 DEF TableStep, Seqs!Next

(* The nodes on either side of a process on a queue. *)
LEMMA Neighbours ==
    ASSUME TableInv, Ready, NEW q \in AllQueues, NEW p \in Proc, place[p] = q
    PROVE  \E i \in 1..Len(OnList(q)) :
            /\ OnList(q)[i] = p /\ i = IndexOf(OnList(q), p) /\ p \in Nodes
            /\ queuetab[p].qprev = Node(q, OnList(q), i - 1) /\ queuetab[p].qprev \in Nodes
            /\ queuetab[p].qnext = Node(q, OnList(q), i + 1) /\ queuetab[p].qnext \in Nodes
<1>1. PICK l : l = OnList(q)
    OBVIOUS
<1>2. Threaded(queuetab, q, l) /\ Once(l) /\ Len(l) \in Nat /\ p \in ToSet(l)
    BY <1>1, QueueFacts DEF OnQueue
<1>3. PICK i \in 1..Len(l) : l[i] = p /\ i = IndexOf(l, p)
    <2>1. \E i \in 1..Len(l) : l[i] = p
        BY <1>2, OnceFacts
    <2> QED
        BY <2>1 DEF IndexOf
<1>4. /\ i - 1 \in 0..Len(l) /\ i \in 0..Len(l) /\ (i - 1) + 1 = i
      /\ i - 1 \in 0..(Len(l) + 1) /\ i \in 0..(Len(l) + 1) /\ i + 1 \in 0..(Len(l) + 1)
    BY <1>2
<1>5. Node(q, l, i) = p /\ Node(q, l, i - 1) \in Nodes /\ Node(q, l, i + 1) \in Nodes /\ Node(q, l, i) \in Nodes
    BY <1>2, <1>3, <1>4, NodesApart
<1>6. queuetab[p].qprev = Node(q, l, i - 1) /\ queuetab[p].qnext = Node(q, l, i + 1)
    BY <1>2, <1>4, <1>5 DEF Threaded
<1> QED
    BY <1>1, <1>3, <1>5, <1>6

(* A process leaves its queue and every key stays. *)
LEMMA LeaveOK ==
    ASSUME TableInv, Ready, NEW q \in AllQueues, NEW p \in Proc, place[p] = q, Move(p, EMPTY),
           queuetab' \in [Nodes -> QEntry], Cut(queuetab, queuetab', p),
           \A n \in Nodes : queuetab'[n].qkey = queuetab[n].qkey,
           q = SleepQ => queuetab[p].qkey <= 0
    PROVE  TableStep
<1>1. place' = [place EXCEPT ![p] = EMPTY] /\ UNCHANGED nextqid
    BY DEF Move
<1>2. Proc \subseteq Nodes /\ Lists[q] = OnList(q)
    BY QueueIds, QueueFacts
<1>3. TailKeysStay(queuetab, queuetab') /\ UNCHANGED Keys
    BY <1>2 DEF TailKeysStay, Keys, KeysOf
<1>4. TableInv' /\ Lists' = [Lists EXCEPT ![q] = GetItem(Lists[q], p)]
    BY <1>1, <1>2, <1>3, LeftAt
<1>5. Lists' = [Lists EXCEPT ![q] = Seqs!GetItem(Lists[q], p)]
    BY <1>4, SameOperations
<1>6. Seqs!Leave(p, q)
    <2>1. Seqs!Leaves(p, q)
        BY <1>1 DEF Seqs!Leaves
    <2>2. q \in {SleepQ} => Keys[p] <= 0
        BY DEF Keys, KeysOf
    <2> QED
        BY <1>3, <1>5, <2>1, <2>2 DEF Seqs!Leave, Seqs!Becomes, Lists, Keys, KeysOf
<1>7. q \in Seqs!Queues
    BY DEF Seqs!Queues, AllQueues
<1> QED
    BY <1>4, <1>6, <1>7 DEF TableStep, Seqs!Next

LEMMA CutIs ==
    ASSUME NEW tab \in [Nodes -> QEntry], NEW p \in Nodes, tab[p].qprev \in Nodes, tab[p].qnext \in Nodes,
           NEW new, new = GotItem(tab, p)
    PROVE  /\ new \in [Nodes -> QEntry] /\ Cut(tab, new, p)
           /\ \A n \in Nodes : new[n].qkey = tab[n].qkey
<1>1. /\ new \in [Nodes -> QEntry]
      /\ \A n \in Nodes :
            /\ new[n].qnext = IF n = tab[p].qprev THEN tab[p].qnext ELSE tab[n].qnext
            /\ new[n].qprev = IF n = tab[p].qnext THEN tab[p].qprev ELSE tab[n].qprev
            /\ new[n].qkey = tab[n].qkey
    BY GotItemIs
<1> QED
    BY <1>1 DEF Cut

LEMMA TakeOutOK ==
    ASSUME TableInv, NEW p \in Proc, TakeOut(p)
    PROVE  TableStep
<1>1. PICK q : q = place[p]
    OBVIOUS
<1>2. q \in SemQueues \cup {ReadyList} /\ queuetab' = GotItem(queuetab, p) /\ Move(p, EMPTY)
    BY <1>1 DEF TakeOut
<1>3. q \in AllQueues /\ q # EMPTY /\ q # SleepQ
    BY <1>2, QueueIds
<1>4. Ready
    BY <1>1, <1>3 DEF TableInv
<1>5. queuetab[p].qprev \in Nodes /\ queuetab[p].qnext \in Nodes /\ p \in Nodes
    BY <1>1, <1>3, <1>4, Neighbours
<1>6. queuetab \in [Nodes -> QEntry]
    BY DEF TableInv, TableTypes
<1>7. /\ queuetab' \in [Nodes -> QEntry] /\ Cut(queuetab, queuetab', p)
      /\ \A n \in Nodes : queuetab'[n].qkey = queuetab[n].qkey
    BY <1>2, <1>5, <1>6, CutIs
<1> QED
    BY <1>1, <1>2, <1>3, <1>4, <1>7, LeaveOK

(* The first node of a queue that is not empty is that of its first process. *)
LEMMA FirstOn ==
    ASSUME TableInv, Ready, NEW q \in AllQueues, ~IsEmpty(queuetab, q)
    PROVE  LET p == FirstId(queuetab, q)
           IN  p \in Proc /\ place[p] = q /\ OnList(q) # <<>> /\ Head(OnList(q)) = p
<1>1. PICK l : l = OnList(q)
    OBVIOUS
<1>2. PICK p : p = FirstId(queuetab, q)
    OBVIOUS
<1>3. /\ Threaded(queuetab, q, l) /\ ToSet(l) = OnQueue(q) /\ Once(l) /\ Len(l) \in Nat
    BY <1>1, QueueFacts
<1>4. 0 \in 0..Len(l) /\ 0 + 1 = 1 /\ 1 \in 0..(Len(l) + 1)
    BY <1>3
<1>5. p = Node(q, l, 1) /\ p \in Nodes /\ (p \in Proc <=> 1 \in 1..Len(l)) /\ (1 \in 1..Len(l) => p = l[1])
    <2>1. queuetab[q].qnext = Node(q, l, 1)
        BY <1>3, <1>4, NodesApart DEF Threaded
    <2> QED
        BY <1>2, <1>3, <1>4, <2>1, NodesApart DEF FirstId
<1>6. p \in Proc
    BY <1>2, <1>5, QueueAssumption DEF IsEmpty, Nodes, Proc
<1>7. l[1] = p /\ 1 \in 1..Len(l) /\ p \in ToSet(l)
    BY <1>3, <1>5, <1>6, OnceFacts
<1>8. l # <<>> /\ Head(l) = p
    <2>1. l \in Seq(Proc)
        BY <1>3 DEF Once
    <2> QED
        BY <1>7, <2>1
<1>9. place[p] = q
    BY <1>3, <1>7 DEF OnQueue
<1> QED
    BY <1>1, <1>2, <1>6, <1>8, <1>9

LEMMA TakeFirstOK ==
    ASSUME TableInv, NEW q \in AllQueues, TakeFirst(q), q = SleepQ => FirstKey <= 0
    PROVE  TableStep
<1>1. Ready /\ ~IsEmpty(queuetab, q)
    BY DEF TakeFirst
<1>2. PICK p : p = FirstId(queuetab, q)
    OBVIOUS
<1>3. p \in Proc /\ place[p] = q /\ queuetab \in [Nodes -> QEntry]
    BY <1>1, <1>2, FirstOn DEF TableInv, TableTypes
<1>4. queuetab[p].qprev \in Nodes /\ queuetab[p].qnext \in Nodes /\ p \in Nodes
    BY <1>1, <1>3, Neighbours
<1>5. PICK b : b = GotItem(queuetab, p)
    OBVIOUS
<1>6. /\ b \in [Nodes -> QEntry] /\ Cut(queuetab, b, p)
      /\ \A n \in Nodes : b[n].qkey = queuetab[n].qkey
    BY <1>3, <1>4, <1>5, CutIs
<1>7. queuetab' = [b EXCEPT ![p].qnext = EMPTY, ![p].qprev = EMPTY] /\ Move(p, EMPTY)
    BY <1>2, <1>5 DEF TakeFirst, Dequeued
<1>8. /\ queuetab' \in [Nodes -> QEntry]
      /\ \A n \in Nodes : queuetab'[n].qkey = b[n].qkey
      /\ \A n \in Nodes \ {p} : queuetab'[n] = b[n]
    BY <1>4, <1>6, <1>7, QueueAssumption DEF QEntry
<1>9. Cut(queuetab, queuetab', p)
    BY <1>6, <1>8 DEF Cut
<1>10. \A n \in Nodes : queuetab'[n].qkey = queuetab[n].qkey
    BY <1>6, <1>8
<1>11. q = SleepQ => queuetab[p].qkey <= 0
    BY <1>2 DEF FirstKey
<1> QED
    BY <1>1, <1>3, <1>7, <1>8, <1>9, <1>10, <1>11, LeaveOK

LEMMA UnsleepOK ==
    ASSUME TableInv, NEW p \in Proc, Unsleep(p)
    PROVE  TableStep
<1>1. PICK q : q = SleepQ
    OBVIOUS
<1>2. PICK l : l = OnList(q)
    OBVIOUS
<1>3. PICK t : t = queuetab
    OBVIOUS
<1>4. PICK u : u = queuetab'
    OBVIOUS
<1>5. /\ place[p] = q /\ place' = [place EXCEPT ![p] = EMPTY] /\ UNCHANGED nextqid
      /\ u = Unslept(t, p)
    BY <1>1, <1>3, <1>4 DEF Unsleep, Move
<1>6. q \in AllQueues /\ q # EMPTY /\ Proc \subseteq Nodes
    BY <1>1, QueueIds
<1>7. Ready
    BY <1>5, <1>6 DEF TableInv
<1>8. /\ t \in [Nodes -> QEntry] /\ Once(l) /\ Len(l) \in Nat /\ Lists[q] = l
    BY <1>2, <1>3, <1>6, <1>7, QueueFacts
<1>9. PICK i \in 1..Len(l) : /\ l[i] = p /\ i = IndexOf(l, p) /\ p \in Nodes
                             /\ t[p].qprev \in Nodes /\ t[p].qnext \in Nodes /\ t[p].qnext = Node(q, l, i + 1)
    BY <1>2, <1>3, <1>5, <1>6, <1>7, Neighbours
<1>10. PICK next \in Nodes : next = t[p].qnext
    BY <1>9
<1>11. /\ next < NPROC <=> i < Len(l)
       /\ i < Len(l) => next = l[i + 1] /\ next \in Proc /\ next # p
    <2>1. i + 1 \in 0..(Len(l) + 1) /\ (i + 1 \in 1..Len(l) <=> i < Len(l)) /\ i + 1 # i
        BY <1>8
    <2>2. PICK j \in 0..(Len(l) + 1) : j = i + 1
        BY <2>1
    <2>3. next = Node(q, l, j)
        BY <1>9, <1>10, <2>2
    <2>4. (next \in Proc <=> j \in 1..Len(l)) /\ (j \in 1..Len(l) => next = l[j])
        BY <1>6, <1>8, <2>3, NodesApart
    <2>5. next \in Proc <=> next < NPROC
        BY QueueAssumption DEF Nodes, Proc
    <2>6. j \in 1..Len(l) => l[j] # l[i]
        BY <1>8, <2>1, <2>2, OnceFacts
    <2> QED
        BY <1>9, <2>1, <2>2, <2>4, <2>5, <2>6
<1>12. PICK more \in Int : more = t[next].qkey + t[p].qkey
    BY <1>8, <1>9 DEF QEntry
<1>13. PICK kept : kept = IF next < NPROC THEN [t EXCEPT ![next].qkey = more] ELSE t
    OBVIOUS
<1>14. u = GotItem(kept, p)
    BY <1>5, <1>10, <1>12, <1>13 DEF Unslept
<1>15. /\ kept \in [Nodes -> QEntry]
       /\ \A n \in Nodes : /\ kept[n].qnext = t[n].qnext /\ kept[n].qprev = t[n].qprev
                           /\ kept[n].qkey = IF next < NPROC /\ n = next THEN more ELSE t[n].qkey
    <2>1. CASE next < NPROC
        BY <1>8, <1>12, <1>13, <2>1, KeyIs
    <2>2. CASE ~(next < NPROC)
        BY <1>8, <1>13, <2>2
    <2> QED
        BY <2>1, <2>2
<1>16. u \in [Nodes -> QEntry] /\ Cut(kept, u, p) /\ \A n \in Nodes : u[n].qkey = kept[n].qkey
    <2>1. kept[p].qprev \in Nodes /\ kept[p].qnext \in Nodes
        BY <1>9, <1>15
    <2> QED
        BY <1>9, <1>14, <1>15, <2>1, CutIs
<1>17. Cut(t, u, p)
    BY <1>9, <1>15, <1>16 DEF Cut
<1>18. TailKeysStay(t, u)
    <2>1. \A n \in Nodes \ Proc : ~(next < NPROC /\ n = next)
        BY <1>11
    <2> QED
        BY <1>15, <1>16, <2>1 DEF TailKeysStay
<1>19. TableInv' /\ Lists' = [Lists EXCEPT ![q] = GetItem(l, p)]
    BY <1>2, <1>3, <1>4, <1>5, <1>6, <1>7, <1>16, <1>17, <1>18, LeftAt
<1>20. Keys' = UnsleepKeys(l, p, Keys)
    <2>1. DOMAIN Keys = Proc /\ \A x \in Proc : Keys[x] = t[x].qkey
        BY <1>3 DEF Keys, KeysOf
    <2>2. Keys' = [x \in Proc |-> u[x].qkey]
        BY <1>4 DEF Keys, KeysOf
    <2> HIDE DEF Keys
    <2>3. UnsleepKeys(l, p, Keys) =
            [x \in Proc |-> IF x \in (IF i < Len(l) THEN {l[i + 1]} ELSE {}) THEN Keys[x] + Keys[p] ELSE Keys[x]]
        BY <1>9, <2>1 DEF UnsleepKeys
    <2>4. \A x \in Proc : u[x].qkey =
            IF x \in (IF i < Len(l) THEN {l[i + 1]} ELSE {}) THEN Keys[x] + Keys[p] ELSE Keys[x]
        BY <1>6, <1>11, <1>12, <1>15, <1>16, <2>1
    <2> QED
        BY <2>2, <2>3, <2>4
<1>21. Seqs!LeaveEarly(p, q)
    <2>1. Seqs!Leaves(p, q)
        BY <1>5 DEF Seqs!Leaves
    <2>2. Lists' = [Lists EXCEPT ![q] = Seqs!GetItem(Lists[q], p)]
        BY <1>8, <1>19, SameOperations
    <2>3. Keys' = Seqs!UnsleepKeys(Lists[q], p, Keys)
        BY <1>8, <1>20, SameOperations
    <2> QED
        BY <2>1, <2>2, <2>3 DEF Seqs!LeaveEarly, Seqs!Becomes, Lists, Keys, KeysOf
<1>22. q \in {SleepQ}
    BY <1>1
<1> QED
    BY <1>19, <1>21, <1>22 DEF TableStep, Seqs!Next

LEMMA TickOK ==
    ASSUME TableInv, Tick
    PROVE  TableStep
<1>1. PICK q : q = SleepQ
    OBVIOUS
<1>2. PICK l : l = OnList(q)
    OBVIOUS
<1>3. PICK t : t = queuetab
    OBVIOUS
<1>4. PICK u : u = queuetab'
    OBVIOUS
<1>5. PICK p : p = FirstId(t, q)
    OBVIOUS
<1>6. Ready /\ UNCHANGED <<nextqid, place>> /\ u = [t EXCEPT ![p].qkey = @ - 1]
    BY <1>1, <1>3, <1>4, <1>5 DEF Tick
<1>7. q \in AllQueues /\ Proc \subseteq Nodes
    BY <1>1, QueueIds
<1>8. p \in Proc /\ place[p] = q /\ l # <<>> /\ Head(l) = p
    BY <1>1, <1>2, <1>3, <1>5, <1>6, <1>7, FirstOn DEF Tick
<1>9. t \in [Nodes -> QEntry] /\ Threaded(t, q, l) /\ ToSet(l) = OnQueue(q) /\ Lists[q] = l
    BY <1>2, <1>3, <1>6, <1>7, QueueFacts
<1>10. /\ u \in [Nodes -> QEntry]
       /\ \A n \in Nodes : /\ u[n].qnext = t[n].qnext /\ u[n].qprev = t[n].qprev
                           /\ u[n].qkey = IF n = p THEN t[n].qkey - 1 ELSE t[n].qkey
    BY <1>6, <1>7, <1>8, <1>9 DEF QEntry
<1>11. SameLinks(t, u, Nodes) /\ TailKeysStay(t, u)
    BY <1>8, <1>10 DEF SameLinks, TailKeysStay
<1>12. Threaded(u, q, l)
    <2>1. QNodes(q, l) \subseteq Nodes
        BY <1>7, <1>9, NodesApart DEF Threaded
    <2>2. SameLinks(t, u, QNodes(q, l))
        BY <1>11, <2>1 DEF SameLinks
    <2>3. u[QueueTail(q)].qkey = t[QueueTail(q)].qkey
        BY <1>7, <1>11, QueueIds DEF TailKeysStay
    <2> QED
        BY ONLY <1>7, <1>9, <2>2, <2>3, ThreadKept
<1>13. Requeued(q, p, l)
    <2>1. p \in OnQueue(q)
        BY <1>8 DEF OnQueue
    <2>2. SameLinks(queuetab, queuetab', Nodes \ (QNodes(q, OnList(q)) \cup {p}))
        BY <1>3, <1>4, <1>11 DEF SameLinks
    <2>3. \A n \in Nodes \ Proc : queuetab'[n].qkey = queuetab[n].qkey
        BY <1>3, <1>4, <1>11 DEF TailKeysStay
    <2> QED
        BY <1>2, <1>4, <1>6, <1>10, <1>12, <2>1, <2>2, <2>3 DEF Requeued
<1>14. TableInv' /\ Lists' = [Lists EXCEPT ![q] = l]
    BY <1>6, <1>7, <1>8, <1>13, RequeuedInv
<1>15. UNCHANGED Lists
    BY <1>7, <1>9, <1>14 DEF Lists
<1>16. Keys' = [Keys EXCEPT ![Head(Lists[q])] = @ - 1]
    <2>1. Keys = [x \in Proc |-> t[x].qkey] /\ Keys' = [x \in Proc |-> u[x].qkey]
        BY <1>3, <1>4 DEF Keys, KeysOf
    <2>2. [Keys EXCEPT ![p] = @ - 1] = [x \in Proc |-> IF x = p THEN t[x].qkey - 1 ELSE t[x].qkey]
        BY <2>1
    <2> HIDE DEF Keys
    <2> QED
        BY <1>7, <1>8, <1>9, <1>10, <2>1, <2>2
<1>17. Seqs!CountDown(q)
    BY <1>6, <1>8, <1>9, <1>15, <1>16 DEF Seqs!CountDown, Lists, Keys, KeysOf
<1>18. q \in {SleepQ}
    BY <1>1
<1> QED
    BY <1>14, <1>17, <1>18 DEF TableStep, Seqs!Next

(* Start-up: a queue that newqueue has just made is threaded over no process. *)
LEMMA NoneThere ==
    ASSUME NEW q, NEW l, NEW tab, Threaded(tab, q, l), ToSet(l) = {}
    PROVE  l = <<>>
<1>1. Once(l)
    BY DEF Threaded
<1>2. l \in Seq(Proc) /\ Len(l) \in Nat /\ \A i \in 1..Len(l) : l[i] \in ToSet(l)
    BY <1>1, OnceFacts DEF Once
<1>3. Len(l) = 0
    BY <1>2
<1> QED
    BY <1>2, <1>3

LEMMA NewQueueOK ==
    ASSUME TableInv, NewQueue
    PROVE  TableStep
<1>1. PICK t : t = queuetab
    OBVIOUS
<1>2. PICK u : u = queuetab'
    OBVIOUS
<1>3. PICK i \in 0..(NSEM + 2) : nextqid = NPROC + 2 * i
    BY DEF TableInv, TableTypes
<1>4. PICK new : new = nextqid
    OBVIOUS
<1>5. /\ ~Ready /\ nextqid' = new + 2 /\ UNCHANGED place
      /\ u = [t EXCEPT
                ![new] = [qnext |-> QueueTail(new), qprev |-> EMPTY, qkey |-> MAXKEY],
                ![QueueTail(new)] = [qnext |-> EMPTY, qprev |-> new, qkey |-> MINKEY]]
    BY <1>1, <1>2, <1>4 DEF NewQueue
<1>6. i \in 0..(NSEM + 1) /\ ~Ready
    BY <1>3, <1>4, <1>5, QueueAssumption DEF Ready, SleepQ, ReadyList
<1>7. new \in AllQueues
    <2>1. CASE i \in 0..(NSEM - 1)
        BY <1>3, <1>4, <2>1 DEF AllQueues, SemQueues
    <2>2. CASE i = NSEM \/ i = NSEM + 1
        BY <1>3, <1>4, <2>2, QueueAssumption DEF AllQueues, ReadyList, SleepQ
    <2> QED
        BY <1>6, <2>1, <2>2, QueueAssumption
<1>8. nextqid' \in {NPROC + 2 * j : j \in 0..(NSEM + 2)}
    <2>1. i + 1 \in 0..(NSEM + 2) /\ nextqid' = NPROC + 2 * (i + 1)
        BY <1>3, <1>4, <1>5, <1>6, QueueAssumption
    <2> QED
        BY <2>1
<1>9. /\ place \in [Proc -> AllQueues \cup {EMPTY}] /\ (\A p \in Proc : place[p] = EMPTY)
      /\ \A q \in AllQueues : OnQueue(q) = {} /\ OnQueue(q)' = {}
    <2>1. place \in [Proc -> AllQueues \cup {EMPTY}] /\ \A p \in Proc : place[p] = EMPTY
        BY <1>6 DEF TableInv, TableTypes
    <2> QED
        BY <1>5, <2>1, QueueIds DEF OnQueue
<1>10. t \in [Nodes -> QEntry]
    BY <1>1 DEF TableInv, TableTypes
<1>11. new \in Nodes /\ QueueTail(new) \in Nodes /\ new # QueueTail(new) /\ new \in Nat /\ new \notin Proc /\ QueueTail(new) \notin Proc
    BY <1>7, QueueIds
<1>12. /\ u \in [Nodes -> QEntry]
       /\ u[new] = [qnext |-> QueueTail(new), qprev |-> EMPTY, qkey |-> MAXKEY]
       /\ u[QueueTail(new)] = [qnext |-> EMPTY, qprev |-> new, qkey |-> MINKEY]
       /\ \A n \in Nodes \ {new, QueueTail(new)} : u[n] = t[n]
    <2>1. /\ [qnext |-> QueueTail(new), qprev |-> EMPTY, qkey |-> MAXKEY] \in QEntry
          /\ [qnext |-> EMPTY, qprev |-> new, qkey |-> MINKEY] \in QEntry
        BY <1>11, QueueAssumption DEF QEntry, QueueTail
    <2> QED
        BY <1>5, <1>10, <1>11, <2>1
<1>13. Threaded(u, new, <<>>)
    <2>1. <<>> \in Seq(Proc) /\ IsInjective(<<>>) /\ Len(<<>>) = 0
        BY DEF IsInjective
    <2>2. Node(new, <<>>, 0) = new /\ Node(new, <<>>, 1) = QueueTail(new)
        BY <2>1 DEF Node
    <2>3. \A j \in 0..0 : u[Node(new, <<>>, j)].qnext = Node(new, <<>>, j + 1) /\ u[Node(new, <<>>, j + 1)].qprev = Node(new, <<>>, j)
        BY <1>12, <2>2
    <2> QED
        BY <1>12, <2>1, <2>3 DEF Threaded, Once
<1>14. ASSUME NEW q \in AllQueues, q < nextqid PROVE OnList(q) = <<>> /\ Threaded(u, q, <<>>)
    <2>1. PICK l : l = OnList(q)
        OBVIOUS
    <2>2. Threaded(t, q, l) /\ ToSet(l) = {}
        BY <1>1, <1>9, <1>14, <2>1 DEF TableInv
    <2>3. l = <<>>
        BY <2>2, NoneThere
    <2>4. ToSet(<<>>) = {} /\ QNodes(q, <<>>) = {q, QueueTail(q)}
        BY DEF ToSet, QNodes
    <2>5. q # new /\ q \in Nat
        BY <1>3, <1>4, <1>14, QueueIds
    <2>6. {q, QueueTail(q)} \subseteq Nodes \ {new, QueueTail(new)}
        BY <1>7, <2>5, QueueIds
    <2>7. SameLinks(t, u, QNodes(q, l)) /\ u[QueueTail(q)].qkey = t[QueueTail(q)].qkey
        BY <1>12, <2>3, <2>4, <2>6 DEF SameLinks
    <2>8. q \in AllQueues
        OBVIOUS
    <2>9. Threaded(u, q, l)
        BY ONLY <2>2, <2>7, <2>8, ThreadKept
    <2> QED
        BY <2>1, <2>3, <2>9
<1>15. ASSUME NEW q \in AllQueues, q < nextqid' PROVE q = new \/ q < nextqid
    <2>1. \E j \in 0..(NSEM + 1) : q = NPROC + 2 * j
        <3>1. NSEM \in 0..(NSEM + 1) /\ NSEM + 1 \in 0..(NSEM + 1) /\ SleepQ = NPROC + 2 * (NSEM + 1)
            BY QueueAssumption DEF SleepQ, ReadyList
        <3> QED
            BY <3>1, QueueAssumption DEF AllQueues, SemQueues, ReadyList
    <2> QED
        BY <1>3, <1>4, <1>5, <1>15, <2>1, QueueAssumption
<1>16. \A q \in AllQueues : q < nextqid' => Threaded(u, q, <<>>)
    BY <1>13, <1>14, <1>15
<1>17. \A q \in AllQueues : OnList(q)' = <<>>
    <2> SUFFICES ASSUME NEW q \in AllQueues PROVE OnList(q)' = <<>>
        OBVIOUS
    <2>1. OnList(q)' = IF q < nextqid' THEN List(u, q) ELSE <<>>
        BY <1>2 DEF OnList
    <2>2. q < nextqid' => List(u, q) = <<>>
        BY <1>16, ListIs
    <2> QED
        BY <2>1, <2>2
<1>18. \A q \in AllQueues : OnList(q) = <<>>
    BY <1>14 DEF OnList
<1>19. TableInv'
    <2>1. ToSet(<<>>) = {}
        BY DEF ToSet
    <2>2. \A q \in AllQueues :
            q < nextqid' => Threaded(queuetab', q, OnList(q)') /\ ToSet(OnList(q)') = OnQueue(q)'
        BY <1>2, <1>9, <1>16, <1>17, <2>1
    <2>3. \A p \in Proc : place'[p] = EMPTY
        BY <1>5, <1>9
    <2> QED
        BY <1>2, <1>5, <1>8, <1>9, <1>12, <2>2, <2>3 DEF TableInv, TableTypes
<1>20. UNCHANGED Lists
    BY <1>17, <1>18 DEF Lists
<1>21. UNCHANGED Keys
    <2>1. \A p \in Proc : u[p].qkey = t[p].qkey
        BY <1>11, <1>12, QueueIds
    <2> QED
        BY <1>1, <1>2, <2>1 DEF Keys, KeysOf
<1> QED
    BY <1>5, <1>19, <1>20, <1>21 DEF TableStep

-----------------------------------------------------------------------------
LEMMA TableInitially == QueueInit => TableInv /\ Seqs!Init
<1> SUFFICES ASSUME QueueInit PROVE TableInv /\ Seqs!Init
    OBVIOUS
<1>1. /\ nextqid = NPROC /\ place = [p \in Proc |-> EMPTY]
      /\ queuetab = [n \in Nodes |-> [qnext |-> 0, qprev |-> 0, qkey |-> 0]]
    BY DEF QueueInit, Nodes
<1>2. \A q \in AllQueues : ~(q < nextqid) /\ OnList(q) = <<>>
    BY <1>1, QueueIds, QueueAssumption DEF OnList
<1>3. TableInv
    <2>1. queuetab \in [Nodes -> QEntry] /\ place \in [Proc -> AllQueues \cup {EMPTY}]
        BY <1>1 DEF QEntry
    <2>2. nextqid \in {NPROC + 2 * i : i \in 0..(NSEM + 2)}
        <3>1. 0 \in 0..(NSEM + 2) /\ nextqid = NPROC + 2 * 0
            BY <1>1, QueueAssumption
        <3> QED
            BY <3>1
    <2>3. \A p \in Proc : place[p] = EMPTY
        BY <1>1
    <2> QED
        BY <1>2, <2>1, <2>2, <2>3 DEF TableInv, TableTypes
<1>4. Seqs!Queues = AllQueues
    BY DEF Seqs!Queues, AllQueues
<1>5. [q \in AllQueues |-> OnList(q)] = [q \in Seqs!Queues |-> <<>>]
    BY <1>2, <1>4
<1>6. [p \in Proc |-> queuetab[p].qkey] = [p \in Proc |-> 0]
    BY <1>1, QueueIds
<1> QED
    BY <1>1, <1>3, <1>5, <1>6 DEF Seqs!Init

LEMMA TableNext == TableInv /\ QueueNext => TableStep
<1> SUFFICES ASSUME TableInv, QueueNext PROVE TableStep
    OBVIOUS
<1>1. CASE NewQueue
    BY <1>1, NewQueueOK
<1>2. ASSUME NEW p \in Proc, NEW q \in SemQueues, JoinSem(p, q) PROVE TableStep
    BY <1>2, JoinSemOK
<1>3. ASSUME NEW p \in Proc, NEW delay \in Delays, JoinSleep(p, delay) PROVE TableStep
    BY <1>3, JoinSleepOK
<1>4. ASSUME NEW p \in Proc, JoinReady(p) PROVE TableStep
    BY <1>4, JoinReadyOK
<1>5. ASSUME NEW p \in Proc, TakeOut(p) PROVE TableStep
    BY <1>5, TakeOutOK
<1>6. ASSUME NEW p \in Proc, Unsleep(p) PROVE TableStep
    BY <1>6, UnsleepOK
<1>7. ASSUME NEW q \in SemQueues \cup {ReadyList}, TakeFirst(q) PROVE TableStep
    <2>1. q \in AllQueues /\ q # SleepQ
        BY QueueIds
    <2> QED
        BY <1>7, <2>1, TakeFirstOK
<1>8. CASE Tick
    BY <1>8, TickOK
<1>9. CASE WakeFirst
    <2>1. TakeFirst(SleepQ) /\ FirstKey <= 0 /\ SleepQ \in AllQueues
        BY <1>9, QueueIds DEF WakeFirst
    <2> QED
        BY <2>1, TakeFirstOK
<1> QED
    BY <1>1, <1>2, <1>3, <1>4, <1>5, <1>6, <1>7, <1>8, <1>9 DEF QueueNext

LEMMA TableStutter == TableInv /\ UNCHANGED queueVars => TableStep
<1> SUFFICES ASSUME TableInv, UNCHANGED queueVars PROVE TableStep
    OBVIOUS
<1>1. queuetab' = queuetab /\ nextqid' = nextqid /\ place' = place
    BY DEF queueVars
<1>2. \A q \in AllQueues : OnList(q)' = OnList(q) /\ OnQueue(q)' = OnQueue(q)
    BY <1>1 DEF OnList, OnQueue
<1>3. TableInv'
    BY <1>1, <1>2 DEF TableInv, TableTypes, Ready
<1>4. UNCHANGED <<place, Lists, Keys>>
    BY <1>1, <1>2 DEF Lists, Keys, KeysOf
<1> QED
    BY <1>3, <1>4 DEF TableStep

LEMMA TableSafe == TableSpec => []TableInv
<1>1. QueueInit => TableInv
    BY TableInitially
<1>2. TableInv /\ [QueueNext]_queueVars => TableInv'
    BY TableNext, TableStutter DEF TableStep
<1> QED
    BY <1>1, <1>2, PTL DEF TableSpec

LEMMA TableLinks == TableInv => WellLinked
<1> SUFFICES ASSUME TableInv, NEW q \in AllQueues, q < nextqid
             PROVE  LET list  == OnList(q)
                        chain == <<q>> \o list \o <<QueueTail(q)>>
                    IN  /\ \A i \in 1..(Len(chain) - 1) :
                            queuetab[chain[i]].qnext = chain[i + 1] /\ queuetab[chain[i + 1]].qprev = chain[i]
                        /\ IsInjective(list)
                        /\ ToSet(list) = {p \in Proc : place[p] = q}
    BY DEF WellLinked
<1>1. PICK l : l = OnList(q)
    OBVIOUS
<1>2. Threaded(queuetab, q, l) /\ ToSet(l) = OnQueue(q)
    BY <1>1 DEF TableInv
<1>3. Once(l) /\ l \in Seq(Proc) /\ IsInjective(l) /\ Len(l) \in Nat
    BY <1>2, OnceFacts DEF Threaded, Once
<1> DEFINE c == <<q>> \o l \o <<QueueTail(q)>>
<1>4. Proc \subseteq Nodes /\ q \in Nodes /\ QueueTail(q) \in Nodes
    BY QueueIds
<1>5. Len(c) = Len(l) + 2 /\ \A i \in 1..(Len(l) + 2) : c[i] = Node(q, l, i - 1)
    <2>1. PICK a \in Seq(Nodes) : a = <<q>> \o l
        <3>1. l \in Seq(Nodes) /\ <<q>> \in Seq(Nodes)
            BY <1>3, <1>4
        <3>2. <<q>> \o l \in Seq(Nodes)
            BY <3>1
        <3> HIDE DEF c
        <3> QED
            BY <3>2, Zenon
    <2>2. Len(a) = Len(l) + 1 /\ \A i \in 1..(Len(l) + 1) : a[i] = IF i = 1 THEN q ELSE l[i - 1]
        BY <1>3, <2>1
    <2>3. PICK b \in Seq(Nodes) : b = <<QueueTail(q)>> /\ Len(b) = 1 /\ b[1] = QueueTail(q)
        <3> DEFINE b == <<QueueTail(q)>>
        <3>1. b \in Seq(Nodes) /\ Len(b) = 1 /\ b[1] = QueueTail(q)
            BY <1>4
        <3> HIDE DEF b
        <3>2. \E e \in Seq(Nodes) : e = b /\ Len(e) = 1 /\ e[1] = QueueTail(q)
            BY <3>1
        <3> QED
            BY <3>2 DEF b
    <2>4. c = a \o b
        BY <2>1, <2>3
    <2>5. Len(c) = Len(l) + 2
        BY <1>3, <2>2, <2>3, <2>4
    <2>6. \A i \in 1..(Len(l) + 2) : c[i] = IF i <= Len(l) + 1 THEN a[i] ELSE QueueTail(q)
        BY <1>3, <2>2, <2>3, <2>4
    <2> HIDE DEF c
    <2>7. ASSUME NEW i \in 1..(Len(l) + 2) PROVE c[i] = Node(q, l, i - 1)
        BY <1>3, <2>2, <2>6 DEF Node
    <2> QED
        BY <2>5, <2>7
<1> HIDE DEF c
<1>6. \A i \in 1..(Len(c) - 1) : queuetab[c[i]].qnext = c[i + 1] /\ queuetab[c[i + 1]].qprev = c[i]
    <2> SUFFICES ASSUME NEW i \in 1..(Len(c) - 1)
                 PROVE  queuetab[c[i]].qnext = c[i + 1] /\ queuetab[c[i + 1]].qprev = c[i]
        OBVIOUS
    <2>1. i - 1 \in 0..Len(l) /\ (i - 1) + 1 = i /\ i \in 1..(Len(l) + 2) /\ i + 1 \in 1..(Len(l) + 2) /\ (i + 1) - 1 = i
        BY <1>3, <1>5
    <2>2. c[i] = Node(q, l, i - 1) /\ c[i + 1] = Node(q, l, i)
        BY <1>5, <2>1
    <2> QED
        BY <1>2, <2>1, <2>2 DEF Threaded
<1> QED
    BY <1>1, <1>2, <1>3, <1>6 DEF c, OnQueue

(* However long the system runs, every queue in the table is linked alike in both
   directions, from its head to its tail, over exactly the processes that are on it:
   that getitem, enqueue, insert and insertd repair the links at both sides. *)
THEOREM TableLinked == TableSpec => []WellLinked
BY TableSafe, TableLinks, PTL

(* The linked table implements the sequences that the kernel's model takes the queues
   for: each call is one operation on them, with the same effect on order and keys. *)
THEOREM TableIsQueues == TableSpec => ImplementsQueues
<1>1. QueueInit => Seqs!Init
    BY TableInitially
<1>2. TableInv /\ [QueueNext]_queueVars
        => [Seqs!Next]_<<place, [q \in AllQueues |-> OnList(q)], [p \in Proc |-> queuetab[p].qkey]>>
    BY TableNext, TableStutter DEF TableStep, Lists, Keys, KeysOf
<1> QED
    BY <1>1, <1>2, TableSafe, PTL DEF TableSpec, ImplementsQueues, Seqs!Spec
=============================================================================
