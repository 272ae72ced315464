---------------------------- MODULE MemoryProofs ----------------------------
(***************************************************************************)
(* The heap for any size of word, heap and requests: whatever getmem,      *)
(* freemem, create and kill do in whatever order, every address is in one  *)
(* free block or belongs to one owner.                                     *)
(*                                                                         *)
(* The argument is about addresses and not about lengths: the free list    *)
(* covers a set of addresses, a grant takes a run of them away and a       *)
(* release adds one, and the owners of the others are apart.  That lengths *)
(* add up then follows from counting addresses.                            *)
(***************************************************************************)
EXTENDS Memory, QueueProofs

BlockRec  == [at : Nat, len : Nat]
HeapRange == minheap..(maxheap - 1)

(* The addresses of a block, and those that the blocks of a list cover. *)
Span(b)     == b.at..(b.at + b.len - 1)
Covered(bl) == UNION {Span(bl[i]) : i \in DOMAIN bl}

Aligned(n) == n % MB = 0

(* A block of the free list, and the list: sorted, with gaps. *)
BlockOK(b) ==
    /\ b.len > 0 /\ minheap <= b.at /\ b.at + b.len <= maxheap
    /\ Aligned(b.at) /\ Aligned(b.len)
ListOK(bl) ==
    /\ bl \in Seq(BlockRec)
    /\ \A i \in DOMAIN bl : BlockOK(bl[i])
    /\ \A i, j \in DOMAIN bl : i < j => bl[i].at + bl[i].len < bl[j].at

HeapOK(h) ==
    /\ h \in [mlength : Nat, blocks : Seq(BlockRec)]
    /\ ListOK(h.blocks)
    /\ h.mlength = Cardinality(Covered(h.blocks))

-----------------------------------------------------------------------------
(* Multiples of the unit of allocation. *)
LEMMA MulMod ==
    ASSUME NEW b \in Nat \ {0}, NEW q \in Nat, NEW r \in 0..(b - 1)
    PROVE  (b * q + r) % b = r /\ (b * q + r) \div b = q
OBVIOUS

LEMMA Quotient ==
    ASSUME NEW b \in Nat \ {0}, NEW n \in Nat
    PROVE  \E q \in Nat, r \in 0..(b - 1) : n = b * q + r /\ n % b = r
<1>1. n \div b \in Nat /\ n % b \in 0..(b - 1) /\ n = b * (n \div b) + (n % b)
    OBVIOUS
<1> QED
    BY <1>1

LEMMA MultipleSums ==
    ASSUME NEW b \in Nat \ {0}, NEW m \in Nat, NEW n \in Nat, m % b = 0, n % b = 0
    PROVE  (m + n) % b = 0 /\ (m >= n => (m - n) % b = 0) /\ (m < n => m + b <= n)
<1>1. PICK p \in Nat, q \in Nat : m = b * p /\ n = b * q
    <2>1. PICK p \in Nat, r \in 0..(b - 1) : m = b * p + r /\ m % b = r
        BY Quotient
    <2>2. PICK q \in Nat, s \in 0..(b - 1) : n = b * q + s /\ n % b = s
        BY Quotient
    <2>3. m = b * p /\ n = b * q
        BY <2>1, <2>2
    <2> QED
        BY <2>3
<1>2. m + n = b * (p + q) /\ m - n = b * (p - q)
    BY <1>1
<1>3. (m + n) % b = 0
    <2>1. (b * (p + q)) % b = 0
        BY <1>1
    <2> QED
        BY <1>2, <2>1
<1>4. ASSUME m >= n PROVE (m - n) % b = 0
    <2>1. p - q \in Nat
        BY <1>1, <1>4
    <2>2. (b * (p - q)) % b = 0
        BY <2>1
    <2> QED
        BY <1>2, <2>2
<1>5. ASSUME m < n PROVE m + b <= n
    <2>1. p < q
        BY <1>1, <1>5
    <2>2. p + 1 <= q
        BY <2>1
    <2>3. b * (p + 1) <= b * q
        BY <2>2
    <2> QED
        BY <1>1, <2>3
<1> QED
    BY <1>3, <1>4, <1>5

(* roundmb: the next multiple, or zero where that is beyond the word. *)
LEMMA Roundmb ==
    ASSUME NEW n \in 0..(WORD - 1)
    PROVE  /\ roundmb(n) \in 0..(WORD - 1) /\ roundmb(n) % MB = 0
           /\ roundmb(n) >= n \/ n > WORD - MB
           /\ n % MB = 0 => roundmb(n) = n
           /\ n # 0 /\ n <= WORD - MB => roundmb(n) > 0
<1>1. WORD \in Nat \ {0} /\ MB \in Nat \ {0} /\ WORD % MB = 0
    BY MemoryAssumption
<1> DEFINE m == (n + MB - 1) % WORD
<1>2. n \in Nat /\ n < WORD /\ m \in 0..(WORD - 1) /\ roundmb(n) = m - (m % MB)
    BY <1>1 DEF roundmb
<1>3. n + MB - 1 < WORD => m = n + MB - 1
    BY <1>1
<1> HIDE DEF m
<1>4. PICK q \in Nat, r \in 0..(MB - 1) : m = MB * q + r /\ m % MB = r
    <2>1. MB \in Nat \ {0} /\ m \in Nat
        BY <1>1, <1>2
    <2> QED
        BY ONLY <2>1, Quotient
<1>5. roundmb(n) = MB * q /\ MB * q \in Nat
    BY <1>1, <1>2, <1>4
<1>6. roundmb(n) \in 0..(WORD - 1) /\ roundmb(n) % MB = 0
    <2>1. roundmb(n) <= m
        BY <1>1, <1>4, <1>5
    <2>2. (MB * q) % MB = 0
        BY <1>1
    <2> QED
        BY <1>1, <1>2, <1>5, <2>1, <2>2
<1>7. ASSUME n <= WORD - MB PROVE roundmb(n) >= n
    BY <1>1, <1>2, <1>3, <1>4, <1>5, <1>7
<1>8. ASSUME n % MB = 0 PROVE roundmb(n) = n
    <2>1. n + MB <= WORD
        <3>1. n < WORD => n + MB <= WORD
            BY ONLY <1>1, <1>2, <1>8, MultipleSums
        <3> QED
            BY <1>1, <1>2, <3>1
    <2>2. PICK k \in Nat : n = MB * k
        <3>1. PICK k \in Nat, e \in 0..(MB - 1) : n = MB * k + e /\ n % MB = e
            BY ONLY <1>1, <1>2, Quotient
        <3>2. n = MB * k
            BY <1>1, <1>8, <3>1
        <3> QED
            BY <3>2
    <2>3. m = MB * k + (MB - 1)
        BY <1>1, <1>2, <1>3, <2>1, <2>2
    <2>4. m % MB = MB - 1
        BY <1>1, <2>2, <2>3, MulMod
    <2> QED
        BY <1>1, <1>2, <1>3, <2>1, <2>4
<1> QED
    BY <1>1, <1>2, <1>6, <1>7, <1>8

LEMMA AlignedSums ==
    ASSUME NEW m \in Nat, NEW n \in Nat, Aligned(m), Aligned(n)
    PROVE  Aligned(m + n) /\ (m >= n => Aligned(m - n)) /\ (m < n => m + MB <= n)
<1>1. MB \in Nat \ {0}
    BY MemoryAssumption
<1> QED
    BY <1>1, MultipleSums DEF Aligned

(* A unit of allocation is no smaller than a word. *)
LEMMA UnitIsWords ==
    ASSUME NEW n \in Nat, n > 0, Aligned(n)
    PROVE  MB <= n /\ UINT <= n
<1>1. MB \in Nat \ {0} /\ UINT \in Nat \ {0} /\ MB % UINT = 0
    BY MemoryAssumption
<1>2. 0 % MB = 0 /\ 0 % UINT = 0
    BY <1>1
<1>3. MB <= n
    <2>1. 0 + MB <= n
        BY ONLY <1>1, <1>2, 0 < n, n \in Nat, n % MB = 0, MultipleSums DEF Aligned
    <2> QED
        BY <1>1, <2>1
<1>4. UINT <= MB
    <2>1. 0 < MB /\ MB \in Nat
        BY <1>1
    <2>2. 0 + UINT <= MB
        BY ONLY <1>1, <1>2, <2>1, MultipleSums
    <2> QED
        BY <1>1, <2>2
<1> QED
    BY <1>1, <1>3, <1>4

-----------------------------------------------------------------------------
(* The first and the last of some indexes. *)
LEMMA MinOf ==
    ASSUME NEW n \in Nat, NEW S \in SUBSET (1..n), S # {}
    PROVE  Min(S) \in S /\ \A x \in S : Min(S) <= x
<1> DEFINE Least == \E y \in S : \A x \in S : y <= x
           Good  == {k \in Nat : (\E x \in S : x <= k) => Least}
<1>1. 0 \in Good
    OBVIOUS
<1>2. \A k \in Nat : k \in Good => k + 1 \in Good
    <2> SUFFICES ASSUME NEW k \in Nat, k \in Good, NEW z \in S, z <= k + 1
                 PROVE  Least
        OBVIOUS
    <2>1. CASE \E x \in S : x <= k
        BY <2>1
    <2>2. CASE ~ \E x \in S : x <= k
        <3>1. \A x \in S : x \in Nat /\ z <= x
            BY <2>2
        <3> QED
            BY <3>1
    <2> QED
        BY <2>1, <2>2
<1>3. \A k \in Nat : k \in Good
    <2> HIDE DEF Good
    <2> QED
        BY <1>1, <1>2, NaturalInduction
<1>4. n \in Good
    <2> HIDE DEF Good
    <2> QED
        BY <1>3
<1>5. PICK x \in S : x <= n
    <2> HIDE DEF Good
    <2>1. PICK x \in S : TRUE
        OBVIOUS
    <2>2. x <= n
        OBVIOUS
    <2> QED
        BY <2>2
<1>6. Least
    BY <1>4, <1>5
<1> QED
    BY <1>6 DEF Min

LEMMA MaxOf ==
    ASSUME NEW n \in Nat, NEW S \in SUBSET (1..n), S # {}
    PROVE  Max(S) \in S /\ \A x \in S : Max(S) >= x
<1> DEFINE T == {n + 1 - x : x \in S}
<1>1. T \in SUBSET (1..n) /\ T # {}
    <2>1. \A x \in S : n + 1 - x \in 1..n
        OBVIOUS
    <2> QED
        BY <2>1
<1>2. Min(T) \in T /\ \A x \in T : Min(T) <= x
    <2> HIDE DEF T
    <2> QED
        BY <1>1, MinOf
<1>3. PICK y \in S : Min(T) = n + 1 - y
    BY <1>2
<1>4. ASSUME NEW x \in S PROVE y >= x
    <2>1. n + 1 - x \in T
        OBVIOUS
    <2>2. n + 1 - y <= n + 1 - x
        BY <1>2, <1>3, <2>1
    <2>3. x \in Nat /\ y \in Nat
        OBVIOUS
    <2> QED
        BY <2>2, <2>3
<1> QED
    BY <1>4 DEF Max

-----------------------------------------------------------------------------
(* Two sequences in a row. *)
LEMMA Joined ==
    ASSUME NEW S, NEW a \in Seq(S), NEW b \in Seq(S), NEW c, c = a \o b
    PROVE  /\ c \in Seq(S) /\ Len(c) = Len(a) + Len(b)
           /\ \A i \in 1..Len(a) : c[i] = a[i]
           /\ \A i \in 1..Len(b) : c[Len(a) + i] = b[i]
<1>1. Len(a) \in Nat /\ Len(b) \in Nat /\ c \in Seq(S) /\ Len(c) = Len(a) + Len(b)
    OBVIOUS
<1>2. ASSUME NEW i \in 1..Len(a) PROVE c[i] = a[i]
    BY <1>1
<1>3. ASSUME NEW i \in 1..Len(b) PROVE c[Len(a) + i] = b[i]
    <2>1. Len(a) + i \in 1..(Len(a) + Len(b)) /\ Len(a) + i > Len(a) /\ (Len(a) + i) - Len(a) = i
        BY <1>1
    <2> QED
        BY <1>1, <2>1
<1> QED
    BY <1>1, <1>2, <1>3

LEMMA Part ==
    ASSUME NEW S, NEW a \in Seq(S), NEW m \in Nat, NEW n \in Nat, 1 <= m, m <= n + 1, n <= Len(a),
           NEW c, c = SubSeq(a, m, n)
    PROVE  /\ c \in Seq(S) /\ Len(c) = n + 1 - m
           /\ \A i \in 1..(n + 1 - m) : c[i] = a[m + i - 1]
OBVIOUS

(* The list with the blocks between l and r replaced by w. *)
Spliced(bl, l, w, r) == SubSeq(bl, 1, l) \o <<w>> \o SubSeq(bl, r, Len(bl))

InPlace(cut, bl, l, w, r) ==
    /\ cut \in Seq(BlockRec) /\ Len(cut) = l + 1 + (Len(bl) + 1 - r)
    /\ \A j \in 1..l : cut[j] = bl[j]
    /\ cut[l + 1] = w
    /\ \A j \in r..Len(bl) : cut[j + (l + 2 - r)] = bl[j]

LEMMA SplicedBlocks ==
    ASSUME NEW bl \in Seq(BlockRec), NEW l \in Nat, NEW r \in Nat, l < r, r <= Len(bl) + 1, NEW w \in BlockRec,
           NEW cut, cut = Spliced(bl, l, w, r)
    PROVE  InPlace(cut, bl, l, w, r)
<1> DEFINE a == SubSeq(bl, 1, l)
           d == a \o <<w>>
           c == SubSeq(bl, r, Len(bl))
<1>0. Len(bl) \in Nat
    OBVIOUS
<1>1. a \in Seq(BlockRec) /\ Len(a) = l /\ \A j \in 1..l : a[j] = bl[j]
    BY <1>0
<1>2. c \in Seq(BlockRec) /\ Len(c) = Len(bl) + 1 - r /\ \A j \in 1..(Len(bl) + 1 - r) : c[j] = bl[r + j - 1]
    BY <1>0, Part
<1> HIDE DEF a, c
<1>3. d \in Seq(BlockRec) /\ Len(d) = l + 1 /\ (\A j \in 1..l : d[j] = bl[j]) /\ d[l + 1] = w
    BY <1>1
<1>4. d \in Seq(BlockRec) /\ c \in Seq(BlockRec) /\ cut = d \o c
    BY <1>2, <1>3 DEF Spliced, a, c
<1> HIDE DEF d
<1>5. /\ cut \in Seq(BlockRec) /\ Len(cut) = Len(d) + Len(c)
      /\ \A i \in 1..Len(d) : cut[i] = d[i]
      /\ \A i \in 1..Len(c) : cut[Len(d) + i] = c[i]
    BY ONLY <1>4, Joined
<1>6. ASSUME NEW j \in r..Len(bl) PROVE cut[j + (l + 2 - r)] = bl[j]
    <2>1. j + 1 - r \in 1..(Len(bl) + 1 - r) /\ r + (j + 1 - r) - 1 = j
          /\ (l + 1) + (j + 1 - r) = j + (l + 2 - r)
        BY <1>0
    <2>2. c[j + 1 - r] = bl[j]
        BY <1>2, <2>1
    <2>3. cut[(l + 1) + (j + 1 - r)] = c[j + 1 - r]
        BY <1>2, <1>3, <1>5, <2>1
    <2> QED
        BY <2>1, <2>2, <2>3
<1> QED
    BY <1>2, <1>3, <1>5, <1>6 DEF InPlace

(* Who comes before w and who after it stay apart. *)
LEMMA SplicedOK ==
    ASSUME NEW bl, ListOK(bl), NEW l \in Nat, NEW r \in Nat, l < r, r <= Len(bl) + 1,
           NEW w \in BlockRec, BlockOK(w),
           l > 0 => bl[l].at + bl[l].len < w.at, r <= Len(bl) => w.at + w.len < bl[r].at,
           NEW cut, cut = Spliced(bl, l, w, r)
    PROVE  /\ ListOK(cut)
           /\ \A a : a \in Covered(cut) <=>
                        a \in Span(w) \/ \E i \in DOMAIN bl : (i <= l \/ i >= r) /\ a \in Span(bl[i])
<1> DEFINE d == l + 2 - r
           L == Len(bl)
<1>1. /\ bl \in Seq(BlockRec) /\ L \in Nat /\ DOMAIN bl = 1..L /\ r <= L + 1
      /\ \A i \in 1..L : BlockOK(bl[i]) /\ bl[i] \in BlockRec
      /\ \A i, j \in 1..L : i < j => bl[i].at + bl[i].len < bl[j].at
    BY DEF ListOK
<1>2. /\ cut \in Seq(BlockRec) /\ Len(cut) = L + d
      /\ \A j \in 1..l : cut[j] = bl[j]
      /\ cut[l + 1] = w
      /\ \A j \in r..L : cut[j + d] = bl[j]
    <2>1. InPlace(cut, bl, l, w, r)
        BY <1>1, SplicedBlocks
    <2>2. l + 1 + (L + 1 - r) = L + d
        BY <1>1
    <2> QED
        BY <2>1, <2>2 DEF InPlace
<1>3. d \in Int /\ DOMAIN cut = 1..(L + d)
    BY <1>1, <1>2
<1>4. ASSUME NEW i \in 1..L, i <= l PROVE bl[i].at + bl[i].len < w.at
    <2>1. l \in 1..L /\ l > 0 /\ (i = l \/ i < l)
        BY <1>1, <1>4
    <2>2. bl[i].at + bl[i].len \in Nat /\ bl[l].at \in Nat /\ bl[l].len \in Nat /\ w.at \in Nat
        BY <1>1, <2>1, SMTT(30) DEF BlockRec
    <2>3. i < l => bl[i].at + bl[i].len < bl[l].at
        BY <1>1, <2>1
    <2>4. bl[l].at + bl[l].len < w.at
        BY <2>1
    <2>5. i < l => bl[i].at + bl[i].len < w.at
        BY ONLY <2>2, <2>3, <2>4
    <2> QED
        BY ONLY <2>1, <2>4, <2>5
<1>5. ASSUME NEW i \in 1..L, i >= r PROVE w.at + w.len < bl[i].at
    <2>1. r \in 1..L /\ r <= L /\ (i = r \/ r < i)
        BY <1>1, <1>5
    <2>2. w.at + w.len \in Nat /\ bl[r].at \in Nat /\ bl[r].len \in Nat /\ bl[i].at \in Nat
        BY <1>1, <2>1, SMTT(30) DEF BlockRec
    <2>3. r < i => bl[r].at + bl[r].len < bl[i].at
        BY <1>1, <2>1
    <2>4. w.at + w.len < bl[r].at
        BY <1>1, <2>1
    <2>5. r < i => w.at + w.len < bl[i].at
        BY ONLY <2>2, <2>3, <2>4
    <2> QED
        BY ONLY <2>1, <2>4, <2>5
<1>6. ASSUME NEW j \in 1..(L + d)
      PROVE  \/ j \in 1..l /\ j \in 1..L /\ cut[j] = bl[j]
             \/ j = l + 1 /\ cut[j] = w
             \/ \E i \in r..L : i \in 1..L /\ j = i + d /\ cut[j] = bl[i]
    <2>1. CASE j <= l
        BY <1>1, <1>2, <2>1
    <2>2. CASE j = l + 1
        BY <1>2, <2>2
    <2>3. CASE j >= l + 2
        <3>1. j - d \in r..L /\ j - d \in 1..L /\ j = (j - d) + d
            BY <1>1, <1>3, <2>3
        <3>2. cut[(j - d) + d] = bl[j - d]
            BY <1>2, <3>1
        <3> HIDE DEF d, L
        <3> QED
            BY ONLY <3>1, <3>2
    <2> QED
        BY <1>1, <1>3, <2>1, <2>2, <2>3
<1>7. \A j \in r..L : j + d \in 1..(L + d) /\ j + d > l + 1 /\ j \in 1..L
    BY <1>1
<1>8. \A j \in 1..l : j \in 1..(L + d) /\ j < l + 1 /\ j \in 1..L
    BY <1>1
<1>9. l + 1 \in 1..(L + d)
    BY <1>1
<1> HIDE DEF d, L
<1>10. ASSUME NEW i \in 1..(L + d), NEW j \in 1..(L + d), i < j
       PROVE  cut[i].at + cut[i].len < cut[j].at
    <2>1. CASE i \in 1..l /\ i \in 1..L /\ cut[i] = bl[i]
        <3>1. CASE j \in 1..l /\ j \in 1..L /\ cut[j] = bl[j]
            BY <1>1, <1>10, <2>1, <3>1
        <3>2. CASE j = l + 1 /\ cut[j] = w
            <4>1. bl[i].at + bl[i].len < w.at
                BY <1>4, <2>1
            <4> QED
                BY <2>1, <3>2, <4>1
        <3>3. ASSUME NEW k \in r..L, k \in 1..L, j = k + d, cut[j] = bl[k]
              PROVE  cut[i].at + cut[i].len < cut[j].at
            <4>1. i < k
                BY <2>1
            <4> QED
                BY <1>1, <2>1, <3>3, <4>1
        <3> QED
            BY <1>6, <3>1, <3>2, <3>3
    <2>2. CASE i = l + 1 /\ cut[i] = w
        <3>1. ASSUME NEW k \in r..L, k \in 1..L, j = k + d, cut[j] = bl[k]
              PROVE  cut[i].at + cut[i].len < cut[j].at
            <4>1. w.at + w.len < bl[k].at
                BY <1>5, <3>1
            <4> QED
                BY <2>2, <3>1, <4>1
        <3>2. ~(j \in 1..l) /\ j # l + 1
            BY <1>10, <2>2
        <3> QED
            BY <1>6, <3>1, <3>2
    <2>3. ASSUME NEW h \in r..L, h \in 1..L, i = h + d, cut[i] = bl[h]
          PROVE  cut[i].at + cut[i].len < cut[j].at
        <3>1. ASSUME NEW k \in r..L, k \in 1..L, j = k + d, cut[j] = bl[k]
              PROVE  cut[i].at + cut[i].len < cut[j].at
            <4>1. h < k
                BY <1>3, <1>10, <2>3, <3>1
            <4> QED
                BY <1>1, <2>3, <3>1, <4>1
        <3>2. ~(j \in 1..l) /\ j # l + 1
            BY <1>3, <1>7, <1>10, <2>3
        <3> QED
            BY <1>6, <3>1, <3>2
    <2> QED
        BY <1>6, <2>1, <2>2, <2>3
<1>11. \A j \in 1..(L + d) : BlockOK(cut[j])
    BY <1>1, <1>6
<1>12. ListOK(cut)
    BY <1>2, <1>3, <1>10, <1>11 DEF ListOK
<1>13. ASSUME NEW a
       PROVE  a \in Covered(cut) <=>
                a \in Span(w) \/ \E i \in DOMAIN bl : (i <= l \/ i >= r) /\ a \in Span(bl[i])
    <2>1. a \in Covered(cut) <=> \E j \in 1..(L + d) : a \in Span(cut[j])
        BY <1>3 DEF Covered
    <2>2. ASSUME NEW j \in 1..(L + d), a \in Span(cut[j])
          PROVE  a \in Span(w) \/ \E i \in DOMAIN bl : (i <= l \/ i >= r) /\ a \in Span(bl[i])
        <3>1. CASE j \in 1..l /\ j \in 1..L /\ cut[j] = bl[j]
            BY <1>1, <2>2, <3>1
        <3>2. ASSUME NEW i \in r..L, i \in 1..L, j = i + d, cut[j] = bl[i]
              PROVE  \E k \in DOMAIN bl : (k <= l \/ k >= r) /\ a \in Span(bl[k])
            BY <1>1, <2>2, <3>2
        <3> QED
            BY <1>6, <2>2, <3>1, <3>2
    <2>3. ASSUME NEW i \in DOMAIN bl, i <= l \/ i >= r, a \in Span(bl[i])
          PROVE  \E j \in 1..(L + d) : a \in Span(cut[j])
        <3>1. CASE i <= l
            <4>1. i \in 1..l
                BY <1>1, <3>1
            <4> QED
                BY <1>2, <1>8, <2>3, <4>1
        <3>2. CASE i >= r
            <4>1. i \in r..L
                BY <1>1, <3>2
            <4> QED
                BY <1>2, <1>7, <2>3, <4>1
        <3> QED
            BY <2>3, <3>1, <3>2
    <2> QED
        BY <1>2, <1>9, <2>1, <2>2, <2>3
<1> QED
    BY <1>12, <1>13

LEMMA ListFacts ==
    ASSUME NEW bl, ListOK(bl)
    PROVE  /\ bl \in Seq(BlockRec) /\ Len(bl) \in Nat /\ DOMAIN bl = 1..Len(bl)
           /\ \A i \in DOMAIN bl : i \in Nat /\ BlockOK(bl[i]) /\ bl[i] \in BlockRec /\ bl[i].at \in Nat /\ bl[i].len \in Nat
           /\ \A i, j \in DOMAIN bl : i < j => bl[i].at + bl[i].len < bl[j].at
<1>1. bl \in Seq(BlockRec) /\ Len(bl) \in Nat /\ DOMAIN bl = 1..Len(bl)
    BY DEF ListOK
<1>2. \A i \in DOMAIN bl : bl[i] \in BlockRec
    BY <1>1
<1>3. \A b \in BlockRec : b.at \in Nat /\ b.len \in Nat
    BY DEF BlockRec
<1> QED
    BY <1>1, <1>2, <1>3 DEF ListOK

(* No address is in two blocks of the list. *)
LEMMA SpansApart ==
    ASSUME NEW bl, ListOK(bl), NEW i \in DOMAIN bl, NEW j \in DOMAIN bl, NEW a, a \in Span(bl[i]), a \in Span(bl[j])
    PROVE  i = j
<1>1. /\ bl[i].at \in Nat /\ bl[i].len \in Nat /\ bl[j].at \in Nat /\ bl[j].len \in Nat
      /\ i \in Nat /\ j \in Nat
      /\ i < j => bl[i].at + bl[i].len < bl[j].at
      /\ j < i => bl[j].at + bl[j].len < bl[i].at
    BY ListFacts
<1> QED
    BY <1>1 DEF Span

(* The list without one of its blocks. *)
LEMMA RemovedOK ==
    ASSUME NEW bl, ListOK(bl), NEW k \in DOMAIN bl, NEW cut, cut = RemoveAt(bl, k)
    PROVE  ListOK(cut) /\ Covered(cut) = Covered(bl) \ Span(bl[k])
<1> DEFINE L == Len(bl)
           Old(i) == IF i < k THEN i ELSE i + 1
<1>1. bl \in Seq(BlockRec) /\ L \in Nat /\ DOMAIN bl = 1..L /\ k \in 1..L
    BY DEF ListOK
<1>2. cut \in Seq(BlockRec) /\ Len(cut) = L - 1 /\ DOMAIN cut = 1..(L - 1)
      /\ \A i \in 1..(L - 1) : cut[i] = bl[Old(i)]
    <2> DEFINE a == SubSeq(bl, 1, k - 1)
               c == SubSeq(bl, k + 1, Len(bl))
    <2>1. a \in Seq(BlockRec) /\ Len(a) = k - 1 /\ \A j \in 1..(k - 1) : a[j] = bl[j]
        BY <1>1
    <2>2. c \in Seq(BlockRec) /\ Len(c) = L - k /\ \A j \in 1..(L - k) : c[j] = bl[k + j]
        BY <1>1
    <2>3. cut = a \o c
        BY DEF RemoveAt
    <2> HIDE DEF a, c
    <2>7. a \in Seq(BlockRec) /\ c \in Seq(BlockRec) /\ cut = a \o c
        BY <2>1, <2>2, <2>3
    <2>4. /\ cut \in Seq(BlockRec) /\ Len(cut) = Len(a) + Len(c)
          /\ \A i \in 1..Len(a) : cut[i] = a[i]
          /\ \A i \in 1..Len(c) : cut[Len(a) + i] = c[i]
        BY ONLY <2>7, Joined
    <2>5. Len(cut) = L - 1 /\ DOMAIN cut = 1..(L - 1)
        BY <1>1, <2>1, <2>2, <2>4
    <2>6. ASSUME NEW i \in 1..(L - 1) PROVE cut[i] = bl[Old(i)]
        <3>1. CASE i < k
            BY <1>1, <2>1, <2>4, <3>1
        <3>2. CASE i >= k
            <4>1. i + 1 - k \in 1..(L - k) /\ (k - 1) + (i + 1 - k) = i /\ k + (i + 1 - k) = i + 1
                BY <1>1, <3>2
            <4>2. cut[(k - 1) + (i + 1 - k)] = c[i + 1 - k]
                BY <2>1, <2>2, <2>4, <4>1
            <4>3. c[i + 1 - k] = bl[k + (i + 1 - k)]
                BY <2>2, <4>1
            <4> QED
                BY <1>1, <3>2, <4>1, <4>2, <4>3
        <3> QED
            BY <1>1, <3>1, <3>2
    <2> QED
        BY <2>4, <2>5, <2>6
<1>3. \A i \in 1..(L - 1) : Old(i) \in 1..L /\ Old(i) # k
    BY <1>1
<1>4. \A i, j \in 1..(L - 1) : i < j => Old(i) < Old(j)
    BY <1>1
<1>5. \A i \in 1..L : i # k => \E j \in 1..(L - 1) : Old(j) = i
    <2> SUFFICES ASSUME NEW i \in 1..L, i # k PROVE \E j \in 1..(L - 1) : Old(j) = i
        OBVIOUS
    <2>1. CASE i < k
        <3>1. i \in 1..(L - 1) /\ Old(i) = i
            BY <1>1, <2>1
        <3> QED
            BY <3>1
    <2>2. CASE i > k
        <3>1. i - 1 \in 1..(L - 1) /\ Old(i - 1) = i
            BY <1>1, <2>2
        <3> QED
            BY <3>1
    <2> QED
        BY <1>1, <2>1, <2>2
<1> HIDE DEF Old, L
<1>6. ListOK(cut)
    <2>1. \A i \in DOMAIN cut : BlockOK(cut[i])
        BY <1>1, <1>2, <1>3 DEF ListOK
    <2>2. \A i, j \in DOMAIN cut : i < j => cut[i].at + cut[i].len < cut[j].at
        BY <1>1, <1>2, <1>3, <1>4 DEF ListOK
    <2> QED
        BY <1>2, <2>1, <2>2 DEF ListOK
<1>7. ASSUME NEW a PROVE a \in Covered(cut) <=> a \in Covered(bl) /\ a \notin Span(bl[k])
    <2>1. a \in Covered(cut) <=> \E j \in 1..(L - 1) : a \in Span(bl[Old(j)])
        BY <1>2 DEF Covered
    <2>2. a \in Covered(bl) <=> \E i \in 1..L : a \in Span(bl[i])
        BY <1>1 DEF Covered
    <2>3. ASSUME NEW j \in 1..(L - 1), a \in Span(bl[Old(j)]), a \in Span(bl[k]) PROVE FALSE
        BY <1>1, <1>3, <2>3, SpansApart
    <2> QED
        BY <1>3, <1>5, <2>1, <2>2, <2>3
<1> QED
    BY <1>6, <1>7

(* One block of the list made smaller. *)
LEMMA ShrunkOK ==
    ASSUME NEW bl, ListOK(bl), NEW k \in DOMAIN bl, NEW w \in BlockRec, BlockOK(w),
           bl[k].at <= w.at, w.at + w.len <= bl[k].at + bl[k].len,
           NEW cut, cut = [bl EXCEPT ![k] = w]
    PROVE  /\ ListOK(cut)
           /\ Covered(cut) = (Covered(bl) \ Span(bl[k])) \cup Span(w)
<1>1. /\ bl \in Seq(BlockRec) /\ DOMAIN cut = DOMAIN bl /\ cut \in Seq(BlockRec)
      /\ cut[k] = w /\ \A i \in DOMAIN bl : i # k => cut[i] = bl[i]
    BY DEF ListOK
<1>2. /\ \A i \in DOMAIN bl : BlockOK(bl[i]) /\ bl[i].at \in Nat /\ bl[i].len \in Nat /\ i \in Nat
      /\ \A i, j \in DOMAIN bl : i < j => bl[i].at + bl[i].len < bl[j].at
      /\ w.at \in Nat /\ w.len \in Nat
    <2>1. w.at \in Nat /\ w.len \in Nat
        BY DEF BlockRec
    <2> QED
        BY <2>1, ListFacts
<1>3. ASSUME NEW i \in DOMAIN bl, NEW j \in DOMAIN bl, i < j PROVE cut[i].at + cut[i].len < cut[j].at
    <2>1. bl[i].at + bl[i].len < bl[j].at
        BY <1>2, <1>3
    <2>2. /\ bl[i].at \in Nat /\ bl[i].len \in Nat /\ bl[j].at \in Nat
          /\ w.at \in Nat /\ w.len \in Nat /\ i \in Nat
        BY <1>2
    <2>3. /\ bl[k].at <= w.at /\ w.at + w.len <= bl[k].at + bl[k].len
          /\ cut[k] = w /\ (i # k => cut[i] = bl[i]) /\ (j # k => cut[j] = bl[j]) /\ i # j
        BY <1>1, <1>3, <2>2
    <2>4. CASE i = k
        <3>1. cut[i] = w /\ cut[j] = bl[j] /\ w.at + w.len <= bl[i].at + bl[i].len
            BY ONLY <2>3, <2>4
        <3> QED
            BY ONLY <2>1, <2>2, <3>1
    <2>5. CASE j = k
        <3>1. cut[i] = bl[i] /\ cut[j] = w /\ bl[j].at <= w.at
            BY ONLY <2>3, <2>5
        <3> QED
            BY ONLY <2>1, <2>2, <3>1
    <2> QED
        BY ONLY <2>1, <2>3, <2>4, <2>5
<1>4. ListOK(cut)
    BY <1>1, <1>2, <1>3 DEF ListOK
<1>5. ASSUME NEW a PROVE a \in Covered(cut) <=> (a \in Covered(bl) /\ a \notin Span(bl[k])) \/ a \in Span(w)
    <2>1. a \in Covered(cut) <=> \E i \in DOMAIN bl : a \in Span(cut[i])
        BY <1>1 DEF Covered
    <2>2. a \in Covered(bl) <=> \E i \in DOMAIN bl : a \in Span(bl[i])
        BY DEF Covered
    <2>3. ASSUME NEW i \in DOMAIN bl, i # k, a \in Span(bl[i]), a \in Span(bl[k]) PROVE FALSE
        BY <2>3, SpansApart
    <2> QED
        BY <1>1, <2>1, <2>2, <2>3
<1> QED
    BY <1>4, <1>5

-----------------------------------------------------------------------------
(* Runs of addresses. *)
Run(lo, n) == lo..(lo + n - 1)

LEMMA RunFacts ==
    ASSUME NEW lo \in Int, NEW n \in Nat
    PROVE  IsFiniteSet(Run(lo, n)) /\ Cardinality(Run(lo, n)) = n
<1>1. lo + n - 1 \in Int /\ (lo > lo + n - 1 => n = 0) /\ (lo + n - 1) - lo + 1 = n
    OBVIOUS
<1> QED
    BY <1>1, FS_Interval DEF Run

LEMMA CoveredFacts ==
    ASSUME NEW bl, ListOK(bl)
    PROVE  /\ Covered(bl) \subseteq HeapRange /\ IsFiniteSet(HeapRange) /\ IsFiniteSet(Covered(bl))
           /\ Cardinality(Covered(bl)) \in Nat
<1>1. minheap \in Nat /\ maxheap \in Nat
    BY MemoryAssumption
<1>2. IsFiniteSet(HeapRange)
    BY <1>1, FS_Interval DEF HeapRange
<1>3. ASSUME NEW i \in DOMAIN bl PROVE Span(bl[i]) \subseteq HeapRange
    <2>1. bl[i].at \in Nat /\ bl[i].len \in Nat /\ BlockOK(bl[i])
        BY ListFacts
    <2> QED
        BY <1>1, <2>1 DEF BlockOK, Span, HeapRange
<1>4. Covered(bl) \subseteq HeapRange
    BY <1>3 DEF Covered
<1> QED
    BY <1>2, <1>4, FS_Subset, FS_CardinalityType

(* What a request leaves of the list: a run of free addresses less. *)
Taken(h, left, lo, n) ==
    /\ HeapOK(left) /\ lo \in Nat /\ Aligned(lo)
    /\ minheap <= lo /\ lo + n <= maxheap
    /\ Run(lo, n) \subseteq Covered(h.blocks)
    /\ Covered(left.blocks) = Covered(h.blocks) \ Run(lo, n)

LEMMA TakenFrom ==
    ASSUME NEW h, HeapOK(h), NEW lo \in Nat, NEW n \in Nat, Aligned(lo), minheap <= lo, lo + n <= maxheap,
           Run(lo, n) \subseteq Covered(h.blocks),
           NEW bl, ListOK(bl), Covered(bl) = Covered(h.blocks) \ Run(lo, n)
    PROVE  Taken(h, [mlength |-> h.mlength - n, blocks |-> bl], lo, n)
<1>1. h.mlength = Cardinality(Covered(h.blocks)) /\ h.mlength \in Nat /\ ListOK(h.blocks)
    BY DEF HeapOK
<1>2. IsFiniteSet(Covered(h.blocks))
    BY <1>1, CoveredFacts
<1>3. Cardinality(Run(lo, n)) = n /\ IsFiniteSet(Run(lo, n))
    BY RunFacts
<1>4. Cardinality(Covered(bl)) = Cardinality(Covered(h.blocks)) - Cardinality(Covered(h.blocks) \cap Run(lo, n))
    BY <1>2, FS_Difference
<1>5. Covered(h.blocks) \cap Run(lo, n) = Run(lo, n)
    OBVIOUS
<1>6. Cardinality(Covered(bl)) \in Nat
    BY CoveredFacts
<1>7. h.mlength - n = Cardinality(Covered(bl))
    BY <1>1, <1>3, <1>4, <1>5, <1>6
<1>8. bl \in Seq(BlockRec)
    BY DEF ListOK
<1> QED
    BY <1>6, <1>7, <1>8 DEF Taken, HeapOK

(* Taking all of a block, its front, or its top. *)
LEMMA TakeBlock ==
    ASSUME NEW h, HeapOK(h), NEW i \in DOMAIN h.blocks, NEW n \in Nat, Aligned(n), n = h.blocks[i].len
    PROVE  Taken(h, [mlength |-> h.mlength - n, blocks |-> RemoveAt(h.blocks, i)], h.blocks[i].at, n)
<1> DEFINE bl == RemoveAt(h.blocks, i)
           b  == h.blocks[i]
<1>1. ListOK(h.blocks)
    BY DEF HeapOK
<1>2. b.at \in Nat /\ b.len \in Nat /\ BlockOK(b)
    BY <1>1, ListFacts
<1>3. ListOK(bl) /\ Covered(bl) = Covered(h.blocks) \ Span(b)
    BY <1>1, RemovedOK
<1>4. Span(b) = Run(b.at, n) /\ Span(b) \subseteq Covered(h.blocks)
    BY DEF Span, Run, Covered
<1>5. Aligned(b.at) /\ minheap <= b.at /\ b.at + n <= maxheap
    BY <1>2 DEF BlockOK
<1>6. Run(b.at, n) \subseteq Covered(h.blocks) /\ Covered(bl) = Covered(h.blocks) \ Run(b.at, n)
    BY <1>3, <1>4
<1> HIDE DEF b, bl
<1>7. Taken(h, [mlength |-> h.mlength - n, blocks |-> bl], b.at, n)
    BY <1>2, <1>3, <1>5, <1>6, TakenFrom
<1> QED
    BY <1>7 DEF b, bl

LEMMA TakePart ==
    ASSUME NEW h, HeapOK(h), NEW i \in DOMAIN h.blocks, NEW n \in Nat, Aligned(n), n < h.blocks[i].len,
           NEW lo, NEW w,
           \/ lo = h.blocks[i].at /\ w = Block(h.blocks[i].at + n, h.blocks[i].len - n)
           \/ lo = h.blocks[i].at + h.blocks[i].len - n /\ w = Block(h.blocks[i].at, h.blocks[i].len - n)
    PROVE  Taken(h, [mlength |-> h.mlength - n, blocks |-> [h.blocks EXCEPT ![i] = w]], lo, n)
<1> DEFINE bl == [h.blocks EXCEPT ![i] = w]
           b  == h.blocks[i]
<1>1. ListOK(h.blocks)
    BY DEF HeapOK
<1>2. b.at \in Nat /\ b.len \in Nat /\ BlockOK(b)
    BY <1>1, ListFacts
<1>3. /\ Aligned(b.at) /\ Aligned(b.len) /\ minheap <= b.at /\ b.at + b.len <= maxheap
      /\ minheap \in Nat /\ maxheap \in Nat
    BY <1>2, MemoryAssumption DEF BlockOK
<1>4. Aligned(b.at + n) /\ Aligned(b.len - n) /\ Aligned(b.at + (b.len - n)) /\ b.len - n \in Nat /\ b.len - n > 0
    <2>1. b.len - n \in Nat /\ b.len - n > 0 /\ b.len >= n
        BY <1>2
    <2>2. Aligned(b.len - n) /\ Aligned(b.at + n)
        BY <1>2, <1>3, <2>1, AlignedSums
    <2> QED
        BY <1>2, <1>3, <2>1, <2>2, AlignedSums
<1>5. /\ w \in BlockRec /\ w.at \in Nat /\ w.len \in Nat /\ w.len = b.len - n /\ w.len > 0
      /\ b.at <= w.at /\ w.at + w.len <= b.at + b.len
    BY <1>2, <1>4 DEF Block, BlockRec
<1>6. BlockOK(w)
    BY <1>2, <1>3, <1>4, <1>5 DEF BlockOK, Block
<1>7. lo \in Nat /\ Aligned(lo) /\ minheap <= lo /\ lo + n <= maxheap
    <2>1. lo = b.at \/ lo = b.at + (b.len - n)
        BY <1>2
    <2> QED
        BY <1>2, <1>3, <1>4, <2>1
<1>8. /\ \A a : a \in Span(b) <=> a \in Span(w) \/ a \in Run(lo, n)
      /\ \A a : ~(a \in Span(w) /\ a \in Run(lo, n))
    BY <1>2, <1>5, <1>7 DEF Span, Run, Block
<1>9. Span(b) \subseteq Covered(h.blocks)
    BY DEF Covered
<1>10. ListOK(bl) /\ Covered(bl) = (Covered(h.blocks) \ Span(b)) \cup Span(w)
    BY <1>1, <1>5, <1>6, ShrunkOK
<1>11. Run(lo, n) \subseteq Covered(h.blocks) /\ Covered(bl) = Covered(h.blocks) \ Run(lo, n)
    BY <1>8, <1>9, <1>10
<1> HIDE DEF b, bl
<1>12. Taken(h, [mlength |-> h.mlength - n, blocks |-> bl], lo, n)
    BY <1>7, <1>10, <1>11, TakenFrom
<1> QED
    BY <1>12 DEF bl

(* Nothing was taken, and why not. *)
NoneTaken(h, got, nbytes) ==
    /\ got.at = NoMem /\ got.heap = h
    /\ nbytes = 0 \/ \A i \in DOMAIN h.blocks : h.blocks[i].len < roundmb(nbytes)

LEMMA FittingFacts ==
    ASSUME NEW h, HeapOK(h), NEW n \in Nat
    PROVE  /\ Fitting(h, n) \in SUBSET (1..Len(h.blocks)) /\ Len(h.blocks) \in Nat
           /\ \A i \in Fitting(h, n) : i \in DOMAIN h.blocks /\ h.blocks[i].len >= n /\ h.blocks[i].len \in Nat
                                        /\ h.blocks[i].at \in Nat
           /\ Fitting(h, n) = {} => \A i \in DOMAIN h.blocks : h.blocks[i].len < n
<1>1. ListOK(h.blocks)
    BY DEF HeapOK
<1>2. /\ Len(h.blocks) \in Nat /\ DOMAIN h.blocks = 1..Len(h.blocks)
      /\ \A i \in DOMAIN h.blocks : h.blocks[i].len \in Nat /\ h.blocks[i].at \in Nat
    BY <1>1, ListFacts
<1> QED
    BY <1>2 DEF Fitting

LEMMA Granted ==
    ASSUME NEW h, HeapOK(h), NEW nbytes \in 0..(WORD - 1)
    PROVE  \/ NoneTaken(h, GetMem(h, nbytes), nbytes)
           \/ /\ nbytes # 0 /\ GetMem(h, nbytes).at \in Nat
              /\ Taken(h, GetMem(h, nbytes).heap, GetMem(h, nbytes).at, roundmb(nbytes))
<1> DEFINE n    == roundmb(nbytes)
           fits == Fitting(h, n)
           i    == Min(fits)
<1>1. n \in Nat /\ Aligned(n)
    BY Roundmb, MemoryAssumption DEF Aligned
<1>2. CASE nbytes = 0
    BY <1>2 DEF GetMem, NoneTaken, Nothing
<1>3. CASE fits = {}
    <2>1. \A j \in DOMAIN h.blocks : h.blocks[j].len < n
        BY <1>1, <1>3, FittingFacts
    <2> QED
        BY <1>3, <2>1 DEF GetMem, NoneTaken, Nothing
<1>4. CASE nbytes # 0 /\ fits # {}
    <2>1. i \in fits
        <3>1. fits \in SUBSET (1..Len(h.blocks)) /\ Len(h.blocks) \in Nat
            BY <1>1, FittingFacts
        <3> HIDE DEF fits
        <3> QED
            BY <1>4, <3>1, MinOf
    <2>2. i \in DOMAIN h.blocks /\ h.blocks[i].len >= n /\ h.blocks[i].len \in Nat /\ h.blocks[i].at \in Nat
        BY <1>1, <2>1, FittingFacts
    <2>3. GetMem(h, nbytes) = [at |-> h.blocks[i].at,
                  heap |-> [mlength |-> h.mlength - n,
                            blocks  |-> IF h.blocks[i].len = n THEN RemoveAt(h.blocks, i)
                                        ELSE [h.blocks EXCEPT ![i] = Block(h.blocks[i].at + n, h.blocks[i].len - n)]]]
        BY <1>4 DEF GetMem
    <2> HIDE DEF i, n
    <2>4. Taken(h, GetMem(h, nbytes).heap, h.blocks[i].at, n)
        <3>1. CASE h.blocks[i].len = n
            <4>1. Taken(h, [mlength |-> h.mlength - n, blocks |-> RemoveAt(h.blocks, i)], h.blocks[i].at, n)
                BY <1>1, <2>2, <3>1, TakeBlock
            <4> QED
                BY <2>3, <3>1, <4>1
        <3>2. CASE h.blocks[i].len # n
            <4> DEFINE w == Block(h.blocks[i].at + n, h.blocks[i].len - n)
            <4>1. n < h.blocks[i].len
                BY <1>1, <2>2, <3>2
            <4>2. \/ h.blocks[i].at = h.blocks[i].at /\ w = Block(h.blocks[i].at + n, h.blocks[i].len - n)
                  \/ h.blocks[i].at = h.blocks[i].at + h.blocks[i].len - n
                        /\ w = Block(h.blocks[i].at, h.blocks[i].len - n)
                OBVIOUS
            <4>3. GetMem(h, nbytes).heap = [mlength |-> h.mlength - n, blocks |-> [h.blocks EXCEPT ![i] = w]]
                BY <2>3, <3>2
            <4> HIDE DEF w
            <4>4. Taken(h, [mlength |-> h.mlength - n, blocks |-> [h.blocks EXCEPT ![i] = w]], h.blocks[i].at, n)
                BY ONLY HeapOK(h), <1>1, <2>2, <4>1, <4>2, TakePart
            <4> QED
                BY <4>3, <4>4
        <3> QED
            BY <3>1, <3>2
    <2> QED
        BY <1>4, <2>2, <2>3, <2>4 DEF n
<1> QED
    BY <1>2, <1>3, <1>4

(* getstk hands out the highest word of the run. *)
LEMMA GrantedStk ==
    ASSUME NEW h, HeapOK(h), NEW nbytes \in 0..(WORD - 1)
    PROVE  \/ NoneTaken(h, GetStk(h, nbytes), nbytes)
           \/ /\ nbytes # 0 /\ GetStk(h, nbytes).at \in Nat
              /\ Taken(h, GetStk(h, nbytes).heap, StkLow(GetStk(h, nbytes).at, nbytes), roundmb(nbytes))
<1> DEFINE n    == roundmb(nbytes)
           fits == Fitting(h, n)
           i    == Max(fits)
<1>1. n \in Nat /\ Aligned(n)
    BY Roundmb, MemoryAssumption DEF Aligned
<1>2. CASE nbytes = 0
    BY <1>2 DEF GetStk, NoneTaken, Nothing
<1>3. CASE fits = {}
    <2>1. \A j \in DOMAIN h.blocks : h.blocks[j].len < n
        BY <1>1, <1>3, FittingFacts
    <2> QED
        BY <1>3, <2>1 DEF GetStk, NoneTaken, Nothing
<1>4. CASE nbytes # 0 /\ fits # {}
    <2>1. i \in fits
        <3>1. fits \in SUBSET (1..Len(h.blocks)) /\ Len(h.blocks) \in Nat
            BY <1>1, FittingFacts
        <3> HIDE DEF fits
        <3> QED
            BY <1>4, <3>1, MaxOf
    <2>2. i \in DOMAIN h.blocks /\ h.blocks[i].len >= n /\ h.blocks[i].len \in Nat /\ h.blocks[i].at \in Nat
        BY <1>1, <2>1, FittingFacts
    <2>3. GetStk(h, nbytes) = [at |-> h.blocks[i].at + h.blocks[i].len - UINT,
                  heap |-> [mlength |-> h.mlength - n,
                            blocks  |-> IF h.blocks[i].len = n THEN RemoveAt(h.blocks, i)
                                        ELSE [h.blocks EXCEPT ![i] = Block(h.blocks[i].at, h.blocks[i].len - n)]]]
        BY <1>4 DEF GetStk
    <2>5. UINT \in Nat /\ StkLow(GetStk(h, nbytes).at, nbytes) = h.blocks[i].at + h.blocks[i].len - n
        BY <1>1, <2>2, <2>3, MemoryAssumption DEF StkLow
    <2>6. GetStk(h, nbytes).at \in Nat
        <3>1. BlockOK(h.blocks[i])
            BY <2>2, ListFacts DEF HeapOK
        <3>2. UINT <= h.blocks[i].len
            BY <2>2, <3>1, UnitIsWords DEF BlockOK
        <3> QED
            BY <2>2, <2>3, <2>5, <3>2
    <2> HIDE DEF i, n
    <2>4. Taken(h, GetStk(h, nbytes).heap, h.blocks[i].at + h.blocks[i].len - n, n)
        <3>1. CASE h.blocks[i].len = n
            <4>1. Taken(h, [mlength |-> h.mlength - n, blocks |-> RemoveAt(h.blocks, i)], h.blocks[i].at, n)
                BY <1>1, <2>2, <3>1, TakeBlock
            <4>2. h.blocks[i].at + h.blocks[i].len - n = h.blocks[i].at
                BY <2>2, <3>1
            <4> QED
                BY <2>3, <3>1, <4>1, <4>2
        <3>2. CASE h.blocks[i].len # n
            <4> DEFINE w == Block(h.blocks[i].at, h.blocks[i].len - n)
                       lo == h.blocks[i].at + h.blocks[i].len - n
            <4>1. n < h.blocks[i].len
                BY <1>1, <2>2, <3>2
            <4>2. \/ lo = h.blocks[i].at /\ w = Block(h.blocks[i].at + n, h.blocks[i].len - n)
                  \/ lo = h.blocks[i].at + h.blocks[i].len - n /\ w = Block(h.blocks[i].at, h.blocks[i].len - n)
                OBVIOUS
            <4>3. GetStk(h, nbytes).heap = [mlength |-> h.mlength - n, blocks |-> [h.blocks EXCEPT ![i] = w]]
                BY <2>3, <3>2
            <4>5. lo = h.blocks[i].at + h.blocks[i].len - n
                OBVIOUS
            <4> HIDE DEF w, lo
            <4>4. Taken(h, [mlength |-> h.mlength - n, blocks |-> [h.blocks EXCEPT ![i] = w]], lo, n)
                BY ONLY HeapOK(h), <1>1, <2>2, <4>1, <4>2, TakePart
            <4> QED
                BY <4>3, <4>4, <4>5
        <3> QED
            BY <3>1, <3>2
    <2> QED
        BY <1>4, <2>4, <2>5, <2>6 DEF n
<1> QED
    BY <1>2, <1>3, <1>4

-----------------------------------------------------------------------------
(* freemem's walk ends between the blocks that start before at and the others. *)
LEMMA BeforeFacts ==
    ASSUME NEW h, HeapOK(h), NEW at \in Nat
    PROVE  /\ Before(h, at) \in 0..Len(h.blocks)
           /\ \A j \in DOMAIN h.blocks : (j <= Before(h, at) => h.blocks[j].at < at)
                                          /\ (j > Before(h, at) => h.blocks[j].at >= at)
<1> DEFINE bl == h.blocks
           I  == {j \in 1..Len(bl) : bl[j].at >= at}
           k  == Before(h, at)
<1>1. /\ ListOK(bl) /\ Len(bl) \in Nat /\ DOMAIN bl = 1..Len(bl)
      /\ \A i \in DOMAIN bl : bl[i].at \in Nat /\ bl[i].len \in Nat
      /\ \A i, j \in DOMAIN bl : i < j => bl[i].at + bl[i].len < bl[j].at
    <2>1. ListOK(bl)
        BY DEF HeapOK
    <2> QED
        BY <2>1, ListFacts
<1>2. SelectInSeq(bl, LAMBDA b : b.at >= at) = IF I # {} THEN Min(I) ELSE 0
    BY DEF SelectInSeq
<1>3. CASE I = {}
    <2>1. k = Len(bl)
        BY <1>2, <1>3 DEF Before
    <2>2. \A j \in DOMAIN bl : bl[j].at < at
        BY <1>1, <1>3
    <2> QED
        BY <1>1, <2>1, <2>2
<1>4. CASE I # {}
    <2>1. Min(I) \in I /\ \A x \in I : Min(I) <= x
        <3>1. I \in SUBSET (1..Len(bl))
            OBVIOUS
        <3> HIDE DEF I
        <3> QED
            BY <1>1, <1>4, <3>1, MinOf
    <2>2. k = Min(I) - 1
        BY <1>1, <1>2, <1>4, <2>1 DEF Before
    <2>3. ASSUME NEW j \in DOMAIN bl, j <= k PROVE bl[j].at < at
        BY <1>1, <2>1, <2>2, <2>3
    <2>4. ASSUME NEW j \in DOMAIN bl, j > k PROVE bl[j].at >= at
        <3>1. PICK m \in DOMAIN bl : m = Min(I) /\ bl[m].at >= at
            BY <1>1, <2>1
        <3>2. m = j \/ m < j
            BY <1>1, <2>1, <2>2, <2>4, <3>1
        <3>3. m < j => bl[m].at + bl[m].len < bl[j].at
            BY <1>1
        <3>4. bl[m].at \in Nat /\ bl[m].len \in Nat /\ bl[j].at \in Nat
            BY <1>1
        <3> HIDE DEF bl
        <3>5. CASE m = j
            BY ONLY <3>1, <3>5
        <3>6. CASE m < j
            BY ONLY <3>1, <3>3, <3>4, <3>6, at \in Nat
        <3> QED
            BY ONLY <3>2, <3>5, <3>6
    <2> QED
        BY <1>1, <2>1, <2>2, <2>3, <2>4, SMTT(30)
<1> QED
    BY <1>3, <1>4

(* A run inside the heap: what freemem is given. *)
RunOK(at, n) == at \in Nat /\ n \in Nat \ {0} /\ Aligned(at) /\ Aligned(n) /\ minheap <= at /\ at + n <= maxheap

LEMMA NoWrap ==
    ASSUME NEW at \in Nat, NEW n \in Nat, at + n <= maxheap
    PROVE  End(Block(at, n)) = at + n
<1>1. at + n \in 0..(WORD - 1) /\ WORD \in Nat \ {0}
    BY MemoryAssumption
<1>2. \A m \in 0..(WORD - 1) : m % WORD = m
    BY <1>1
<1>3. (at + n) % WORD = at + n
    BY <1>1, <1>2
<1> QED
    BY <1>3 DEF End, Block

LEMMA EndOf ==
    ASSUME NEW b \in BlockRec, b.at + b.len <= maxheap
    PROVE  End(b) = b.at + b.len
<1>1. b = Block(b.at, b.len) /\ b.at \in Nat /\ b.len \in Nat
    BY DEF BlockRec, Block
<1> QED
    BY <1>1, NoWrap

(* freemem looks at two neighbours only, and finds an overlap with any block. *)
LEMMA OverlapsIff ==
    ASSUME NEW h, HeapOK(h), NEW at, NEW n, RunOK(at, n)
    PROVE  Overlaps(h, Block(at, n)) <=> \E a \in Run(at, n) : a \in Covered(h.blocks)
<1> DEFINE bl == h.blocks
           k  == Before(h, at)
<1>1. /\ ListOK(bl) /\ Len(bl) \in Nat /\ DOMAIN bl = 1..Len(bl)
      /\ \A i \in DOMAIN bl : bl[i].at \in Nat /\ bl[i].len \in Nat /\ bl[i] \in BlockRec /\ bl[i].len > 0
                               /\ bl[i].at + bl[i].len <= maxheap
      /\ \A i, j \in DOMAIN bl : i < j => bl[i].at + bl[i].len < bl[j].at
    <2>1. ListOK(bl)
        BY DEF HeapOK
    <2> QED
        BY <2>1, ListFacts DEF BlockOK
<1>2. at \in Nat /\ n \in Nat /\ n > 0 /\ at + n <= maxheap
    BY DEF RunOK
<1>3. /\ k \in 0..Len(bl)
      /\ \A j \in DOMAIN bl : (j <= k => bl[j].at < at) /\ (j > k => bl[j].at >= at)
    BY <1>2, BeforeFacts
<1>4. \A i \in DOMAIN bl : End(bl[i]) = bl[i].at + bl[i].len
    BY <1>1, EndOf
<1>5. Overlaps(h, Block(at, n)) <=>
         \/ k > 0 /\ at < End(bl[k])
         \/ k < Len(bl) /\ at + n > bl[k + 1].at
    <2>1. Block(at, n).at = at /\ End(Block(at, n)) = at + n
        BY <1>2, NoWrap DEF Block
    <2> QED
        BY <2>1 DEF Overlaps
<1> HIDE DEF bl, k
<1>6. ASSUME k > 0, at < End(bl[k]) PROVE \E a \in Run(at, n) : a \in Covered(bl)
    <2>1. k \in DOMAIN bl
        BY <1>1, <1>3, <1>6
    <2>2. at \in Span(bl[k])
        BY <1>1, <1>2, <1>3, <1>4, <1>6, <2>1 DEF Span
    <2>3. at \in Run(at, n)
        BY <1>2 DEF Run
    <2> QED
        BY <2>1, <2>2, <2>3 DEF Covered
<1>7. ASSUME k < Len(bl), at + n > bl[k + 1].at PROVE \E a \in Run(at, n) : a \in Covered(bl)
    <2>1. k + 1 \in DOMAIN bl /\ k + 1 > k
        BY <1>1, <1>3, <1>7
    <2>2. bl[k + 1].at \in Span(bl[k + 1])
        BY <1>1, <2>1 DEF Span
    <2>3. bl[k + 1].at \in Run(at, n)
        <3>1. bl[k + 1].at >= at /\ bl[k + 1].at \in Nat
            BY <1>1, <1>3, <2>1
        <3> QED
            BY <1>2, <1>7, <3>1 DEF Run
    <2> QED
        BY <2>1, <2>2, <2>3 DEF Covered
<1>8. ASSUME NEW a \in Run(at, n), a \in Covered(bl)
      PROVE  \/ k > 0 /\ at < End(bl[k])
             \/ k < Len(bl) /\ at + n > bl[k + 1].at
    <2>1. PICK j \in DOMAIN bl : a \in Span(bl[j])
        BY <1>8 DEF Covered
    <2>2. a \in Nat /\ at <= a /\ a < at + n /\ bl[j].at <= a /\ a < bl[j].at + bl[j].len /\ j \in Nat /\ j > 0 /\ j <= Len(bl)
        BY <1>1, <1>2, <1>8, <2>1, SMTT(30) DEF Run, Span
    <2>3. CASE j <= k
        <3>1. k \in DOMAIN bl /\ k > 0
            BY <1>1, <1>3, <2>2, <2>3
        <3>2. j = k \/ j < k
            BY <1>3, <2>2, <2>3
        <3>3. j < k => bl[j].at + bl[j].len < bl[k].at
            BY <1>1, <3>1
        <3>4. bl[k].at < at /\ bl[k].at \in Nat
            BY <1>1, <1>3, <3>1
        <3>5. j = k
            BY <1>1, <1>2, <2>2, <3>2, <3>3, <3>4
        <3> QED
            BY <1>1, <1>2, <1>4, <2>2, <3>1, <3>5
    <2>4. CASE j > k
        <3>1. k + 1 \in DOMAIN bl /\ k < Len(bl)
            BY <1>1, <1>3, <2>2, <2>4
        <3>2. j = k + 1 \/ k + 1 < j
            BY <1>3, <2>2, <2>4
        <3>3. k + 1 < j => bl[k + 1].at + bl[k + 1].len < bl[j].at
            BY <1>1, <3>1
        <3>4. bl[k + 1].at <= bl[j].at
            BY <1>1, <3>1, <3>2, <3>3
        <3> QED
            BY <1>1, <1>2, <2>2, <3>1, <3>4
    <2> QED
        BY <1>3, <2>2, <2>3, <2>4
<1> QED
    BY <1>5, <1>6, <1>7, <1>8 DEF bl

(* Linking a run that overlaps nothing: what the list covers grows by the run. *)
LEMMA LinkedOK ==
    ASSUME NEW h, HeapOK(h), NEW at, NEW n, RunOK(at, n), ~Overlaps(h, Block(at, n))
    PROVE  /\ ListOK(Link(h, Block(at, n)))
           /\ Covered(Link(h, Block(at, n))) = Covered(h.blocks) \cup Run(at, n)
<1> DEFINE bl     == h.blocks
           k      == Before(h, at)
           joins  == k > 0 /\ End(bl[k]) = at
           joined == IF joins THEN Block(bl[k].at, bl[k].len + n) ELSE Block(at, n)
           meets  == k < Len(bl) /\ End(joined) = bl[k + 1].at
           w      == IF meets THEN Block(joined.at, joined.len + bl[k + 1].len) ELSE joined
           l      == IF joins THEN k - 1 ELSE k
           r      == IF meets THEN k + 2 ELSE k + 1
<1>1. /\ ListOK(bl) /\ Len(bl) \in Nat /\ DOMAIN bl = 1..Len(bl)
      /\ \A i \in DOMAIN bl : bl[i].at \in Nat /\ bl[i].len \in Nat /\ bl[i] \in BlockRec /\ BlockOK(bl[i])
      /\ \A i, j \in DOMAIN bl : i < j => bl[i].at + bl[i].len < bl[j].at
    <2>1. ListOK(bl)
        BY DEF HeapOK
    <2> QED
        BY <2>1, ListFacts
<1>2. /\ at \in Nat /\ n \in Nat /\ n > 0 /\ minheap <= at /\ at + n <= maxheap /\ Aligned(at) /\ Aligned(n)
      /\ minheap \in Nat /\ maxheap \in Nat
    BY MemoryAssumption DEF RunOK
<1>3. /\ k \in 0..Len(bl)
      /\ \A j \in DOMAIN bl : (j <= k => bl[j].at < at) /\ (j > k => bl[j].at >= at)
    BY <1>2, BeforeFacts
<1>4. \A i \in DOMAIN bl : End(bl[i]) = bl[i].at + bl[i].len /\ bl[i].len > 0 /\ bl[i].at + bl[i].len <= maxheap
    BY <1>1, EndOf DEF BlockOK
<1>6. /\ k > 0 => bl[k].at + bl[k].len <= at
      /\ k < Len(bl) => at + n <= bl[k + 1].at
    <2>1. Block(at, n).at = at /\ End(Block(at, n)) = at + n
        BY <1>2, NoWrap DEF Block
    <2>2. ~(k > 0 /\ at < End(bl[k])) /\ ~(k < Len(bl) /\ at + n > bl[k + 1].at)
        BY <2>1 DEF Overlaps
    <2>3. k > 0 => k \in DOMAIN bl
        BY <1>1, <1>3
    <2>4. k < Len(bl) => k + 1 \in DOMAIN bl
        BY <1>1, <1>3
    <2> HIDE DEF bl, k
    <2> QED
        BY <1>1, <1>2, <1>4, <2>2, <2>3, <2>4
<1> HIDE DEF bl, k
<1>5. Link(h, Block(at, n)) = Spliced(bl, l, w, r)
    <2>1. k < Len(bl) => k + 1 \in DOMAIN bl /\ bl[k + 1].at \in Nat
        BY <1>1, <1>3
    <2>2. ~(k < Len(bl) /\ bl[k + 1].at = at)
        BY <1>2, <1>6, <2>1
    <2> DEFINE e == Block(at, n)
    <2>3. e.at = at /\ e.len = n /\ Block(at, n) = e
        BY DEF Block
    <2>4. ~(~joins /\ k < Len(bl) /\ bl[k + 1].at = at)
        BY <2>2
    <2>5. Link(h, Block(at, n))
            = IF ~joins /\ k < Len(bl) /\ bl[k + 1].at = at THEN SubSeq(bl, 1, k) \o <<Block(at, n)>>
              ELSE Spliced(bl, l, w, r)
        <3> HIDE DEF e
        <3> QED
            BY ONLY <2>3, Zenon DEF Link, Spliced, joins, joined, meets, w, l, r, k, bl
    <2> HIDE DEF joins, l, w, r, bl, k
    <2> QED
        BY ONLY <2>4, <2>5
<1>7. /\ k > 0 => k \in DOMAIN bl
      /\ k < Len(bl) => k + 1 \in DOMAIN bl
      /\ k \in Nat
    BY <1>1, <1>3
<1>8. /\ joins => k \in DOMAIN bl /\ bl[k].at + bl[k].len = at
      /\ ~joins /\ k > 0 => bl[k].at + bl[k].len < at
    BY <1>1, <1>2, <1>4, <1>6, <1>7
<1>9. /\ joined.at \in Nat /\ joined.len \in Nat /\ joined.at + joined.len = at + n /\ joined = Block(joined.at, joined.len)
      /\ joins => joined.at = bl[k].at
      /\ ~joins => joined.at = at
      /\ Aligned(joined.at) /\ Aligned(joined.len) /\ minheap <= joined.at
    <2>1. CASE joins
        <3>1. bl[k].at \in Nat /\ bl[k].len \in Nat /\ BlockOK(bl[k]) /\ bl[k].at + bl[k].len = at
            BY <1>1, <1>8, <2>1
        <3>2. joined = Block(bl[k].at, bl[k].len + n)
            BY <2>1
        <3>3. Aligned(bl[k].len + n) /\ Aligned(bl[k].at) /\ minheap <= bl[k].at
            BY <1>2, <3>1, AlignedSums DEF BlockOK
        <3> HIDE DEF joins, joined
        <3> QED
            BY <1>2, <2>1, <3>1, <3>2, <3>3 DEF Block
    <2>2. CASE ~joins
        <3>1. joined = Block(at, n)
            BY <2>2
        <3> HIDE DEF joins, joined
        <3> QED
            BY <1>2, <2>2, <3>1 DEF Block
    <2> QED
        BY <2>1, <2>2
<1>10. End(joined) = at + n
    <2> HIDE DEF joined
    <2>1. End(Block(joined.at, joined.len)) = joined.at + joined.len
        BY <1>2, <1>9, NoWrap
    <2> QED
        BY <1>9, <2>1
<1>11. /\ meets => k + 1 \in DOMAIN bl /\ bl[k + 1].at = at + n
       /\ ~meets /\ k < Len(bl) => at + n < bl[k + 1].at
    <2> HIDE DEF joined
    <2> QED
        BY <1>1, <1>2, <1>6, <1>7, <1>10
<1> HIDE DEF joined
<1>12. /\ w \in BlockRec /\ w.at = joined.at /\ w.at \in Nat /\ w.len \in Nat
       /\ meets => w.at + w.len = bl[k + 1].at + bl[k + 1].len
       /\ ~meets => w.at + w.len = at + n
       /\ BlockOK(w)
    <2>1. CASE meets
        <3>1. bl[k + 1].at \in Nat /\ bl[k + 1].len \in Nat /\ BlockOK(bl[k + 1]) /\ bl[k + 1].at = at + n
            BY <1>1, <1>11, <2>1
        <3>2. w = Block(joined.at, joined.len + bl[k + 1].len)
            BY <2>1
        <3>3. Aligned(joined.len + bl[k + 1].len)
            BY <1>9, <3>1, AlignedSums DEF BlockOK
        <3>4. w.at = joined.at /\ w.len = joined.len + bl[k + 1].len /\ w \in BlockRec
            BY <1>9, <3>1, <3>2 DEF Block, BlockRec
        <3>5. w.at + w.len = bl[k + 1].at + bl[k + 1].len /\ w.len > 0 /\ w.at + w.len <= maxheap
            <4>1. bl[k + 1].len > 0 /\ bl[k + 1].at + bl[k + 1].len <= maxheap
                BY <3>1 DEF BlockOK
            <4> HIDE DEF w, meets
            <4> QED
                BY <1>2, <1>9, <3>1, <3>4, <4>1
        <3> HIDE DEF w
        <3> QED
            BY <1>9, <2>1, <3>1, <3>3, <3>4, <3>5 DEF BlockOK
    <2>2. CASE ~meets
        <3>1. w = joined
            BY <2>2
        <3>2. w \in BlockRec
            BY <1>9, <3>1 DEF Block, BlockRec
        <3>3. w.len > 0
            BY <1>2, <1>8, <1>9, <3>1, <1>1, SMTT(30)
        <3> HIDE DEF w, meets
        <3>4. BlockOK(w)
            BY <1>2, <1>9, <3>1, <3>2, <3>3 DEF BlockOK
        <3> QED
            BY ONLY <1>9, <2>2, <3>1, <3>2, <3>4
    <2> QED
        BY <2>1, <2>2
<1> HIDE DEF w
<1>13. /\ l \in Nat /\ r \in Nat /\ l < r /\ r <= Len(bl) + 1
       /\ l <= k /\ r > k
    <2>1. joins => k > 0
        OBVIOUS
    <2>2. meets => k < Len(bl)
        OBVIOUS
    <2> HIDE DEF joins, meets
    <2> QED
        BY <1>1, <1>3, <1>7, <2>1, <2>2
<1>14. ASSUME l > 0 PROVE bl[l].at + bl[l].len < w.at
    <2>1. CASE joins
        <3>1. l = k - 1 /\ l \in DOMAIN bl /\ k \in DOMAIN bl /\ l < k
            BY <1>1, <1>7, <1>8, <1>13, <1>14, <2>1
        <3> HIDE DEF l, joins
        <3> QED
            BY <1>1, <1>9, <1>12, <2>1, <3>1
    <2>2. CASE ~joins
        <3>1. l = k
            BY <2>2
        <3> HIDE DEF l, joins
        <3> QED
            BY <1>8, <1>9, <1>12, <1>14, <2>2, <3>1
    <2> QED
        BY <2>1, <2>2
<1>15. ASSUME r <= Len(bl) PROVE w.at + w.len < bl[r].at
    <2>1. CASE meets
        <3>1. r = k + 2 /\ r \in DOMAIN bl /\ k + 1 \in DOMAIN bl /\ k + 1 < r
            BY <1>1, <1>7, <1>11, <1>13, <1>15, <2>1
        <3> HIDE DEF r, meets
        <3> QED
            BY <1>1, <1>12, <2>1, <3>1
    <2>2. CASE ~meets
        <3>1. r = k + 1 /\ k < Len(bl)
            BY <1>1, <1>7, <1>15, <2>2
        <3> HIDE DEF r, meets
        <3> QED
            BY <1>11, <1>12, <2>2, <3>1
    <2> QED
        BY <2>1, <2>2
<1>16. \A i \in DOMAIN bl : i <= l \/ i >= r \/ (joins /\ i = k) \/ (meets /\ i = k + 1)
    <2> HIDE DEF joins, meets
    <2> QED
        BY <1>1, <1>7
<1> HIDE DEF l, r
<1> DEFINE cut == Spliced(bl, l, w, r)
<1>17. /\ ListOK(cut)
       /\ \A a : a \in Covered(cut) <=>
                    a \in Span(w) \/ \E i \in DOMAIN bl : (i <= l \/ i >= r) /\ a \in Span(bl[i])
    <2>1. PICK x : x = Spliced(bl, l, w, r)
        OBVIOUS
    <2>2. /\ ListOK(x)
          /\ \A a : a \in Covered(x) <=>
                       a \in Span(w) \/ \E i \in DOMAIN bl : (i <= l \/ i >= r) /\ a \in Span(bl[i])
        <3> HIDE DEF joins, meets, cut
        <3> QED
            BY <1>1, <1>12, <1>13, <1>14, <1>15, <2>1, SplicedOK
    <2> QED
        BY <2>1, <2>2
<1> HIDE DEF cut
<1>18. \A a : a \in Span(w) <=> (a \in Run(at, n) \/ (joins /\ a \in Span(bl[k])) \/ (meets /\ a \in Span(bl[k + 1])))
    <2> SUFFICES ASSUME NEW a
                 PROVE  a \in Span(w) <=>
                            (a \in Run(at, n) \/ (joins /\ a \in Span(bl[k])) \/ (meets /\ a \in Span(bl[k + 1])))
        OBVIOUS
    <2>1. joins => bl[k].at \in Nat /\ bl[k].len \in Nat /\ bl[k].len > 0 /\ bl[k].at + bl[k].len = at /\ w.at = bl[k].at
        BY <1>1, <1>4, <1>8, <1>9, <1>12
    <2>2. meets => bl[k + 1].at \in Nat /\ bl[k + 1].len \in Nat /\ bl[k + 1].len > 0 /\ bl[k + 1].at = at + n
                    /\ w.at + w.len = bl[k + 1].at + bl[k + 1].len
        BY <1>1, <1>4, <1>11, <1>12
    <2>3. (~joins => w.at = at) /\ (~meets => w.at + w.len = at + n) /\ w.at \in Nat /\ w.len \in Nat
        BY <1>9, <1>12
    <2> HIDE DEF joins, meets
    <2> QED
        BY <1>2, <2>1, <2>2, <2>3 DEF Span, Run
<1>19. ASSUME NEW a PROVE a \in Covered(cut) <=> a \in Covered(bl) \/ a \in Run(at, n)
    <2>1. a \in Covered(bl) <=> \E i \in DOMAIN bl : a \in Span(bl[i])
        BY DEF Covered
    <2>2. joins => k \in DOMAIN bl
        BY <1>8
    <2>3. meets => k + 1 \in DOMAIN bl
        BY <1>11
    <2> HIDE DEF joins, meets
    <2>4. ASSUME NEW i \in DOMAIN bl, a \in Span(bl[i]) PROVE a \in Covered(cut)
        BY <1>16, <1>17, <1>18, <2>4
    <2>5. ASSUME a \in Run(at, n) PROVE a \in Covered(cut)
        BY <1>17, <1>18, <2>5
    <2>6. ASSUME a \in Covered(cut) PROVE a \in Run(at, n) \/ \E i \in DOMAIN bl : a \in Span(bl[i])
        BY <1>17, <1>18, <2>2, <2>3, <2>6
    <2> QED
        BY <2>1, <2>4, <2>5, <2>6
<1>20. Link(h, Block(at, n)) = cut
    BY <1>5 DEF cut, l, r, w, joined
<1> QED
    BY <1>17, <1>19, <1>20 DEF bl

(* freemem of a run that is not free: the list covers it too. *)
Returned(h, grown, at, n) ==
    /\ HeapOK(grown)
    /\ Covered(grown.blocks) = Covered(h.blocks) \cup Run(at, n)

LEMMA Freeing ==
    ASSUME NEW h, HeapOK(h), NEW at, NEW nbytes \in 0..(WORD - 1), nbytes # 0, RunOK(at, roundmb(nbytes))
    PROVE  IF \E a \in Run(at, roundmb(nbytes)) : a \in Covered(h.blocks)
           THEN ~FreeMem(h, at, nbytes).ok /\ FreeMem(h, at, nbytes).heap = h
           ELSE FreeMem(h, at, nbytes).ok /\ Returned(h, FreeMem(h, at, nbytes).heap, at, roundmb(nbytes))
<1> DEFINE n == roundmb(nbytes)
           cut == Link(h, Block(at, n))
           grown == [mlength |-> h.mlength + n, blocks |-> cut]
<1>1. /\ at \in Nat /\ n \in Nat /\ minheap <= at /\ at <= maxheap /\ minheap \in Nat /\ maxheap \in Nat
    BY MemoryAssumption DEF RunOK
<1>2. ~(at < minheap) /\ ~(at > maxheap)
    BY <1>1
<1>3. FreeMem(h, at, nbytes) = IF Overlaps(h, Block(at, n)) THEN [ok |-> FALSE, heap |-> h]
                               ELSE [ok |-> TRUE, heap |-> grown]
    BY <1>2 DEF FreeMem, Block
<1>4. Overlaps(h, Block(at, n)) <=> \E a \in Run(at, n) : a \in Covered(h.blocks)
    BY OverlapsIff
<1>5. ASSUME ~Overlaps(h, Block(at, n)) PROVE Returned(h, grown, at, n)
    <2>1. ListOK(cut) /\ Covered(cut) = Covered(h.blocks) \cup Run(at, n)
        BY <1>5, LinkedOK
    <2>2. h.mlength = Cardinality(Covered(h.blocks)) /\ h.mlength \in Nat /\ ListOK(h.blocks)
        BY DEF HeapOK
    <2>3. IsFiniteSet(Covered(h.blocks)) /\ IsFiniteSet(Run(at, n)) /\ Cardinality(Run(at, n)) = n
        BY <1>1, <2>2, CoveredFacts, RunFacts
    <2>4. Covered(h.blocks) \cap Run(at, n) = {} /\ Cardinality({}) = 0
        BY <1>4, <1>5, FS_EmptySet
    <2>5. Cardinality(Covered(cut)) = Cardinality(Covered(h.blocks)) + n
        <3>1. Cardinality(Covered(h.blocks) \cup Run(at, n)) = Cardinality(Covered(h.blocks)) + Cardinality(Run(at, n))
                                                              - Cardinality(Covered(h.blocks) \cap Run(at, n))
            BY <2>3, FS_Union
        <3>2. Cardinality(Covered(cut)) = Cardinality(Covered(h.blocks)) + Cardinality(Run(at, n))
                                          - Cardinality(Covered(h.blocks) \cap Run(at, n))
            BY <2>1, <3>1
        <3>3. Cardinality(Covered(h.blocks) \cap Run(at, n)) = 0
            BY <2>4
        <3>4. Cardinality(Covered(h.blocks)) \in Nat
            BY <2>2
        <3> QED
            BY ONLY <1>1, <2>3, <3>2, <3>3, <3>4
    <2>6. cut \in Seq(BlockRec)
        BY <2>1 DEF ListOK
    <2>7. grown.blocks = cut /\ grown.mlength = Cardinality(Covered(cut)) /\ grown.mlength \in Nat
        BY <1>1, <2>2, <2>5
    <2>8. grown \in [mlength : Nat, blocks : Seq(BlockRec)]
        BY <2>6, <2>7
    <2> HIDE DEF grown, cut
    <2> QED
        BY <2>1, <2>7, <2>8 DEF Returned, HeapOK
<1> HIDE DEF n, grown
<1> QED
    BY <1>3, <1>4, <1>5 DEF n

-----------------------------------------------------------------------------
(* The owners of what is not free: each a callers' block, a lost stack or a    *)
(* process's stack, named so that no two are the same.                         *)
HeldOwner(b)     == <<"held", b, Block(b.at, b.len)>>
LostOwner(b)     == <<"lost", b, b>>
StkBlock(s)      == Block(StkLow(s.base, s.len), roundmb(s.len))
StackOwner(p, s) == <<"stack", p, StkBlock(s)>>

OwnersOf(hd, lo, st) ==
    {HeldOwner(b) : b \in hd} \cup {LostOwner(b) : b \in lo}
        \cup {StackOwner(p, st[p]) : p \in {q \in Slot : st[q] # NoMem}}

Owned(b) ==
    /\ b \in BlockRec /\ minheap <= b.at /\ b.at + b.len <= maxheap
    /\ Aligned(b.at) /\ Aligned(b.len)

(* An address is free or has one owner. *)
Partition(F, O) ==
    /\ IsFiniteSet(O)
    /\ \A o \in O : Owned(o[3]) /\ Span(o[3]) \cap F = {}
    /\ \A o, q \in O : o # q => Span(o[3]) \cap Span(q[3]) = {}
    /\ \A a \in HeapRange : a \in F \/ \E o \in O : a \in Span(o[3])

LEMMA PartitionTaken ==
    ASSUME NEW F, NEW O, Partition(F, O), NEW x, Owned(x[3]), Span(x[3]) \subseteq F
    PROVE  Partition(F \ Span(x[3]), O \cup {x})
<1> DEFINE P == O \cup {x}
           G == F \ Span(x[3])
<1>1. IsFiniteSet(P)
    BY FS_AddElement DEF Partition
<1>2. ASSUME NEW o \in P PROVE Owned(o[3]) /\ Span(o[3]) \cap G = {}
    BY DEF Partition
<1>3. ASSUME NEW o \in P, NEW q \in P, o # q PROVE Span(o[3]) \cap Span(q[3]) = {}
    <2>1. o \in O /\ q \in O => Span(o[3]) \cap Span(q[3]) = {}
        BY <1>3 DEF Partition
    <2>2. (o \in O => Span(o[3]) \cap F = {}) /\ (q \in O => Span(q[3]) \cap F = {})
        BY DEF Partition
    <2> QED
        BY <1>3, <2>1, <2>2
<1>4. ASSUME NEW a \in HeapRange PROVE a \in G \/ \E o \in P : a \in Span(o[3])
    BY DEF Partition
<1> HIDE DEF P, G
<1>5. Partition(G, P)
    BY <1>1, <1>2, <1>3, <1>4 DEF Partition
<1> QED
    BY <1>5 DEF G, P

LEMMA PartitionGiven ==
    ASSUME NEW F, NEW O, Partition(F, O), NEW x \in O
    PROVE  Partition(F \cup Span(x[3]), O \ {x})
<1> DEFINE P == O \ {x}
           G == F \cup Span(x[3])
<1>1. IsFiniteSet(P)
    BY FS_RemoveElement DEF Partition
<1>2. ASSUME NEW o \in P PROVE Owned(o[3]) /\ Span(o[3]) \cap G = {}
    <2>1. Owned(o[3]) /\ Span(o[3]) \cap F = {} /\ Span(o[3]) \cap Span(x[3]) = {}
        BY DEF Partition
    <2> QED
        BY <2>1
<1>3. ASSUME NEW o \in P, NEW q \in P, o # q PROVE Span(o[3]) \cap Span(q[3]) = {}
    BY <1>3 DEF Partition
<1>4. ASSUME NEW a \in HeapRange PROVE a \in G \/ \E o \in P : a \in Span(o[3])
    BY DEF Partition
<1> HIDE DEF P, G
<1>5. Partition(G, P)
    BY <1>1, <1>2, <1>3, <1>4 DEF Partition
<1> QED
    BY <1>5 DEF G, P

(* Owners come and go one at a time. *)
Gains(now, before, x) == now = before \cup {x}
Loses(now, before, x) == x \in before /\ now = before \ {x}

LEMMA OwnHeld ==
    ASSUME NEW hd, NEW lo, NEW st, NEW b, NEW cut, Gains(cut, hd, b)
    PROVE  Gains(OwnersOf(cut, lo, st), OwnersOf(hd, lo, st), HeldOwner(b))
BY DEF OwnersOf, Gains

LEMMA DropHeld ==
    ASSUME NEW hd, NEW lo, NEW st, NEW b, NEW cut, Loses(cut, hd, b)
    PROVE  Loses(OwnersOf(cut, lo, st), OwnersOf(hd, lo, st), HeldOwner(b))
<1>1. \A c : HeldOwner(c) = HeldOwner(b) => c = b
    BY DEF HeldOwner
<1>2. \A c : LostOwner(c) # HeldOwner(b)
    BY DEF HeldOwner, LostOwner
<1>3. \A p, s : StackOwner(p, s) # HeldOwner(b)
    BY DEF HeldOwner, StackOwner
<1>4. b \in hd /\ cut = hd \ {b}
    BY DEF Loses
<1>5. ASSUME NEW o PROVE o \in OwnersOf(cut, lo, st) <=> o \in OwnersOf(hd, lo, st) \ {HeldOwner(b)}
    BY <1>1, <1>2, <1>3, <1>4 DEF OwnersOf
<1>6. HeldOwner(b) \in OwnersOf(hd, lo, st)
    BY <1>4 DEF OwnersOf
<1> QED
    BY <1>5, <1>6 DEF Loses

LEMMA OwnLost ==
    ASSUME NEW hd, NEW lo, NEW st, NEW b, NEW cut, Gains(cut, lo, b)
    PROVE  Gains(OwnersOf(hd, cut, st), OwnersOf(hd, lo, st), LostOwner(b))
BY DEF OwnersOf, Gains

Sets(cut, st, p, s) == p \in Slot /\ DOMAIN st = Slot /\ cut = [st EXCEPT ![p] = s]

LEMMA OwnStack ==
    ASSUME NEW hd, NEW lo, NEW st, NEW p, NEW s, NEW cut, Sets(cut, st, p, s), st[p] = NoMem, s # NoMem
    PROVE  Gains(OwnersOf(hd, lo, cut), OwnersOf(hd, lo, st), StackOwner(p, s))
<1>1. p \in Slot /\ cut[p] = s /\ \A q \in Slot : q # p => cut[q] = st[q]
    BY DEF Sets
<1>2. ASSUME NEW o PROVE o \in OwnersOf(hd, lo, cut) <=> o \in OwnersOf(hd, lo, st) \cup {StackOwner(p, s)}
    BY <1>1 DEF OwnersOf
<1> QED
    BY <1>2 DEF Gains

LEMMA DropStack ==
    ASSUME NEW hd, NEW lo, NEW st, NEW p, NEW cut, Sets(cut, st, p, NoMem), st[p] # NoMem
    PROVE  Loses(OwnersOf(hd, lo, cut), OwnersOf(hd, lo, st), StackOwner(p, st[p]))
<1>1. \A q, t : StackOwner(q, t) = StackOwner(p, st[p]) => q = p
    BY DEF StackOwner
<1>2. \A c : LostOwner(c) # StackOwner(p, st[p])
    BY DEF StackOwner, LostOwner
<1>3. \A c : HeldOwner(c) # StackOwner(p, st[p])
    BY DEF HeldOwner, StackOwner
<1>4. p \in Slot /\ cut[p] = NoMem /\ \A q \in Slot : q # p => cut[q] = st[q]
    BY DEF Sets
<1>5. ASSUME NEW o
      PROVE  o \in OwnersOf(hd, lo, cut) <=> o \in OwnersOf(hd, lo, st) \ {StackOwner(p, st[p])}
    BY <1>1, <1>2, <1>3, <1>4 DEF OwnersOf
<1>6. StackOwner(p, st[p]) \in OwnersOf(hd, lo, st)
    BY <1>4 DEF OwnersOf
<1> QED
    BY <1>5, <1>6 DEF Loses

-----------------------------------------------------------------------------
(* Counting the bytes of blocks that share no address. *)
LEMMA BytesSum ==
    ASSUME NEW B, IsFiniteSet(B), B \subseteq BlockRec
    PROVE  \E g : Adds(g, [b \in B |-> b.len], B) /\ Bytes(B) = g[B] /\ g[{}] = 0
<1> DEFINE f == [b \in B |-> b.len]
           Pick(s) == CHOOSE y \in s : TRUE
           Eq(g) == g = [s \in SUBSET B |-> IF s = {} THEN 0 ELSE Pick(s).len + g[s \ {Pick(s)}]]
           h == CHOOSE g : Eq(g)
<1>1. \A x \in B : f[x] = x.len /\ f[x] \in Int
    BY DEF BlockRec
<1>2. ASSUME NEW g PROVE Sums(g, f, B) <=> Eq(g)
    <2>1. \A s \in SUBSET B : s # {} => Pick(s) \in B
        OBVIOUS
    <2>2. Sums(g, f, B) <=>
            g = [s \in SUBSET B |-> IF s = {} THEN 0 ELSE f[Pick(s)] + g[s \ {Pick(s)}]]
        BY DEF Sums
    <2> HIDE DEF f, Pick
    <2>3. [s \in SUBSET B |-> IF s = {} THEN 0 ELSE f[Pick(s)] + g[s \ {Pick(s)}]]
            = [s \in SUBSET B |-> IF s = {} THEN 0 ELSE Pick(s).len + g[s \ {Pick(s)}]]
        BY <1>1, <2>1
    <2> QED
        BY <2>2, <2>3
<1>3. \E g : Eq(g)
    <2>1. PICK g : Sums(g, f, B)
        <3> HIDE DEF f
        <3> QED
            BY SumsExist
    <2>2. Eq(g)
        BY <1>2, <2>1
    <2> QED
        BY <2>2
<1>4. Eq(h)
    BY <1>3
<1>5. Bytes(B) = h[B]
    BY DEF Bytes, MapThenSumSet, MapThenFoldSet
<1>6. Sums(h, f, B)
    BY <1>2, <1>4
<1>7. Adds(h, f, B) /\ h[{}] = 0
    <2> HIDE DEF h, f
    <2> QED
        BY <1>1, <1>6, SumsSplit, SumsStep
<1> QED
    BY <1>5, <1>7

Spans(s) == UNION {Span(b) : b \in s}

LEMMA BytesOf ==
    ASSUME NEW B, IsFiniteSet(B), B \subseteq BlockRec,
           \A b, c \in B : b # c => Span(b) \cap Span(c) = {}
    PROVE  Bytes(B) = Cardinality(Spans(B))
<1> DEFINE f == [b \in B |-> b.len]
<1>1. PICK g : Adds(g, f, B) /\ Bytes(B) = g[B] /\ g[{}] = 0
    BY BytesSum
<1>2. /\ \A b \in B : b.at \in Nat /\ b.len \in Nat /\ f[b] = b.len
      /\ \A b \in B : IsFiniteSet(Span(b)) /\ Cardinality(Span(b)) = b.len
    <2>1. \A b \in B : b.at \in Nat /\ b.len \in Nat /\ f[b] = b.len
        BY DEF BlockRec
    <2>2. ASSUME NEW b \in B PROVE IsFiniteSet(Span(b)) /\ Cardinality(Span(b)) = b.len
        <3>1. Span(b) = Run(b.at, b.len)
            BY DEF Span, Run
        <3> QED
            BY <2>1, <3>1, RunFacts
    <2> QED
        BY <2>1, <2>2
<1> HIDE DEF f
<1> DEFINE Good == {s \in SUBSET B : IsFiniteSet(Spans(s)) /\ g[s] = Cardinality(Spans(s))}
<1>3. ASSUME NEW s \in SUBSET B, \A t \in SUBSET s : t # s => t \in Good
      PROVE  s \in Good
    <2>1. CASE s = {}
        <3>1. Spans({}) = {}
            BY DEF Spans
        <3> QED
            BY <1>1, <2>1, <3>1, FS_EmptySet
    <2>2. CASE s # {}
        <3>1. PICK x \in s : TRUE
            BY <2>2
        <3> DEFINE t == s \ {x}
        <3>2. t \in Good
            BY <1>3
        <3>3. g[s] = f[x] + g[t]
            BY <1>1 DEF Adds
        <3>4. Spans(s) = Spans(t) \cup Span(x) /\ Spans(t) \cap Span(x) = {}
            BY DEF Spans
        <3>5. IsFiniteSet(Spans(t)) /\ g[t] = Cardinality(Spans(t)) /\ Cardinality(Spans(t)) \in Nat
            BY <3>2, FS_CardinalityType
        <3>6. IsFiniteSet(Span(x)) /\ Cardinality(Span(x)) = f[x] /\ f[x] \in Nat
            BY <1>2
        <3>7. IsFiniteSet(Spans(s)) /\ Cardinality(Spans(s)) = Cardinality(Spans(t)) + Cardinality(Span(x))
                                                            - Cardinality(Spans(t) \cap Span(x))
            <4> HIDE DEF t
            <4>1. /\ IsFiniteSet(Spans(t) \cup Span(x))
                  /\ Cardinality(Spans(t) \cup Span(x)) = Cardinality(Spans(t)) + Cardinality(Span(x))
                                                            - Cardinality(Spans(t) \cap Span(x))
                BY ONLY <3>5, <3>6, FS_Union
            <4> QED
                BY ONLY <3>4, <4>1
        <3>8. Cardinality(Spans(t) \cap Span(x)) = 0
            BY <3>4, FS_EmptySet
        <3>9. g[s] = Cardinality(Spans(s))
            BY ONLY <3>3, <3>5, <3>6, <3>7, <3>8
        <3> QED
            BY <3>7, <3>9
    <2> QED
        BY <2>1, <2>2
<1>4. \A s \in SUBSET B : s \in Good
    <2> HIDE DEF Good
    <2> QED
        BY <1>3, SubsetInduction
<1>5. B \in Good
    BY <1>4
<1> QED
    BY <1>1, <1>5

-----------------------------------------------------------------------------
(* The inductive invariant: the list is in order, and every address of the
   heap that it does not cover has one owner. *)
MemTypes ==
    /\ held \subseteq [at : Nat, len : Nat, asked : 1..(WORD - 1)]
    /\ stacks \in [Slot -> {NoMem} \cup [base : Nat, len : 1..(WORD - 1)]]
    /\ asked \in [cells : Nat, met : BOOLEAN]

MemInv ==
    /\ MemTypes
    /\ HeapOK(heap)
    /\ \A b \in held : b.len = roundmb(b.asked)
    /\ Partition(Covered(heap.blocks), OwnersOf(held, lost, stacks))

LEMMA TakenBy ==
    ASSUME NEW h, NEW left, NEW lo, NEW n \in Nat, Aligned(n), Taken(h, left, lo, n),
           NEW O, Partition(Covered(h.blocks), O), NEW x, x[3] = Block(lo, n)
    PROVE  Partition(Covered(left.blocks), O \cup {x})
<1>1. /\ lo \in Nat /\ Aligned(lo) /\ minheap <= lo /\ lo + n <= maxheap
      /\ Run(lo, n) \subseteq Covered(h.blocks)
      /\ Covered(left.blocks) = Covered(h.blocks) \ Run(lo, n)
    BY DEF Taken
<1>2. Owned(x[3]) /\ Span(x[3]) = Run(lo, n)
    BY <1>1 DEF Owned, Block, BlockRec, Span, Run
<1>3. Partition(Covered(h.blocks) \ Span(x[3]), O \cup {x})
    BY <1>1, <1>2, PartitionTaken
<1> QED
    BY <1>1, <1>2, <1>3

LEMMA GivenBy ==
    ASSUME NEW h, HeapOK(h), NEW O, Partition(Covered(h.blocks), O), NEW x \in O,
           NEW lo, NEW nbytes \in 0..(WORD - 1), nbytes # 0, x[3] = Block(lo, roundmb(nbytes)), roundmb(nbytes) > 0
    PROVE  /\ FreeMem(h, lo, nbytes).ok
           /\ HeapOK(FreeMem(h, lo, nbytes).heap)
           /\ Partition(Covered(FreeMem(h, lo, nbytes).heap.blocks), O \ {x})
<1> DEFINE n == roundmb(nbytes)
           b == x[3]
<1>1. Owned(b) /\ Span(b) \cap Covered(h.blocks) = {} /\ b.at = lo /\ b.len = n
    BY DEF Partition, Block
<1>2. RunOK(lo, n) /\ Span(b) = Run(lo, n)
    BY <1>1 DEF RunOK, Owned, BlockRec, Span, Run
<1>3. ~ \E a \in Run(lo, n) : a \in Covered(h.blocks)
    BY <1>1, <1>2
<1>4. FreeMem(h, lo, nbytes).ok /\ Returned(h, FreeMem(h, lo, nbytes).heap, lo, n)
    BY <1>2, <1>3, Freeing
<1>5. Partition(Covered(h.blocks) \cup Span(b), O \ {x})
    BY PartitionGiven
<1> HIDE DEF n, b
<1> QED
    BY <1>2, <1>4, <1>5 DEF Returned

LEMMA InitMemInv == MemInit => MemInv
<1> SUFFICES ASSUME MemInit PROVE MemInv
    OBVIOUS
<1> DEFINE b == Block(minheap, maxheap - minheap)
           bl == <<b>>
<1>0. /\ minheap \in Nat /\ maxheap \in Nat /\ minheap < maxheap /\ maxheap < WORD /\ WORD \in Nat
      /\ Aligned(minheap) /\ Aligned(maxheap)
    BY MemoryAssumption DEF Aligned
<1>1. b.at = minheap /\ b.len = maxheap - minheap /\ b.len \in Nat /\ b \in BlockRec
    BY <1>0 DEF Block, BlockRec
<1>2. BlockOK(b)
    <2>1. Aligned(maxheap - minheap)
        BY ONLY <1>0, AlignedSums
    <2> HIDE DEF b
    <2> QED
        BY <1>0, <1>1, <2>1 DEF BlockOK
<1> HIDE DEF b
<1>3. bl \in Seq(BlockRec) /\ DOMAIN bl = {1} /\ bl[1] = b
    BY <1>1
<1> HIDE DEF bl
<1>4. ListOK(bl) /\ Covered(bl) = Span(b)
    BY <1>2, <1>3 DEF ListOK, Covered
<1>5. Span(b) = HeapRange /\ Span(b) = Run(minheap, maxheap - minheap)
    BY <1>0, <1>1 DEF Span, HeapRange, Run
<1>6. Cardinality(Covered(bl)) = maxheap - minheap
    BY <1>0, <1>1, <1>4, <1>5, RunFacts
<1>7. heap = [mlength |-> maxheap - minheap, blocks |-> bl]
    BY DEF MemInit, bl, b
<1>8. HeapOK(heap)
    BY <1>0, <1>3, <1>4, <1>6, <1>7 DEF HeapOK
<1>9. OwnersOf(held, lost, stacks) = {}
    BY DEF MemInit, OwnersOf
<1>10. Partition(Covered(heap.blocks), OwnersOf(held, lost, stacks))
    BY <1>4, <1>5, <1>7, <1>9, FS_EmptySet DEF Partition
<1>11. MemTypes
    BY DEF MemInit, MemTypes
<1> QED
    BY <1>8, <1>10, <1>11 DEF MemInv, MemInit

(* A block more is held. *)
LEMMA GrantMemInv ==
    ASSUME MemInv, NEW nbytes \in 1..(WORD - 1), GetMem(heap, nbytes).at # NoMem,
           heap' = GetMem(heap, nbytes).heap, held' = held \cup {Grant(GetMem(heap, nbytes).at, nbytes)},
           asked' = [cells |-> Cells(roundmb(nbytes)), met |-> TRUE], stacks' = stacks, lost' = lost
    PROVE  MemInv'
<1> DEFINE got == GetMem(heap, nbytes)
           n   == roundmb(nbytes)
           g   == Grant(got.at, nbytes)
<1>1. nbytes \in 0..(WORD - 1) /\ nbytes # 0
    BY MemoryAssumption
<1>2. n \in Nat /\ Aligned(n) /\ Cells(n) \in Nat
    <2>1. n \in Nat /\ n % MB = 0 /\ MB \in Nat \ {0}
        BY <1>1, Roundmb, MemoryAssumption
    <2> HIDE DEF n
    <2> QED
        BY <2>1 DEF Cells, Aligned
<1>3. HeapOK(heap) /\ MemTypes /\ Partition(Covered(heap.blocks), OwnersOf(held, lost, stacks))
      /\ \A b \in held : b.len = roundmb(b.asked)
    BY DEF MemInv
<1>4. heap' = got.heap /\ held' = held \cup {g} /\ asked' = [cells |-> Cells(n), met |-> TRUE]
    OBVIOUS
<1>5. got.at \in Nat /\ Taken(heap, got.heap, got.at, n)
    BY <1>1, <1>3, Granted DEF NoneTaken
<1>6. HeapOK(heap')
    BY <1>4, <1>5 DEF Taken
<1>7. g.at = got.at /\ g.len = n /\ g.asked = nbytes /\ g \in [at : Nat, len : Nat, asked : 1..(WORD - 1)]
    BY <1>1, <1>2, <1>5 DEF Grant
<1>8. MemTypes'
    BY <1>2, <1>3, <1>4, <1>7 DEF MemTypes
<1>9. HeldOwner(g)[3] = Block(got.at, n)
    BY <1>7 DEF HeldOwner
<1>10. OwnersOf(held', lost', stacks') = OwnersOf(held, lost, stacks) \cup {HeldOwner(g)}
    <2> HIDE DEF g
    <2>1. Gains(held', held, g)
        BY <1>4 DEF Gains
    <2>2. Gains(OwnersOf(held', lost, stacks), OwnersOf(held, lost, stacks), HeldOwner(g))
        BY ONLY <2>1, OwnHeld
    <2> QED
        BY <2>2 DEF Gains
<1> HIDE DEF g, n, got
<1>11. Partition(Covered(got.heap.blocks), OwnersOf(held, lost, stacks) \cup {HeldOwner(g)})
    BY <1>2, <1>3, <1>5, <1>9, TakenBy
<1>12. \A b \in held' : b.len = roundmb(b.asked)
    BY <1>3, <1>4, <1>7 DEF n
<1> QED
    BY <1>4, <1>6, <1>8, <1>10, <1>11, <1>12 DEF MemInv

(* What is held already is not granted again. *)
LEMMA GrantApart ==
    ASSUME MemInv, NEW nbytes \in 1..(WORD - 1), GetMem(heap, nbytes).at # NoMem
    PROVE  /\ GetMem(heap, nbytes).at \in Nat
           /\ Taken(heap, GetMem(heap, nbytes).heap, GetMem(heap, nbytes).at, roundmb(nbytes))
           /\ \A b \in held : Run(b.at, b.len) \cap Run(GetMem(heap, nbytes).at, roundmb(nbytes)) = {}
<1> DEFINE got == GetMem(heap, nbytes)
           n   == roundmb(nbytes)
<1>1. nbytes \in 0..(WORD - 1) /\ HeapOK(heap)
    BY MemoryAssumption DEF MemInv
<1>2. got.at \in Nat /\ Taken(heap, got.heap, got.at, n)
    BY <1>1, Granted DEF NoneTaken
<1> HIDE DEF got, n
<1>3. ASSUME NEW b \in held PROVE Run(b.at, b.len) \cap Run(got.at, n) = {}
    <2>1. HeldOwner(b) \in OwnersOf(held, lost, stacks)
        BY DEF OwnersOf
    <2>2. Span(HeldOwner(b)[3]) \cap Covered(heap.blocks) = {}
        BY <2>1 DEF MemInv, Partition
    <2>3. Span(HeldOwner(b)[3]) = Run(b.at, b.len)
        BY DEF HeldOwner, Block, Span, Run
    <2> QED
        BY <1>2, <2>2, <2>3 DEF Taken
<1> QED
    BY <1>2, <1>3 DEF got, n

(* A block that is given back at once. *)
LEMMA UndoneMemInv ==
    ASSUME MemInv, NEW nbytes \in 1..(WORD - MB), GetMem(heap, nbytes).at # NoMem,
           heap' = FreeMem(GetMem(heap, nbytes).heap, GetMem(heap, nbytes).at, nbytes).heap,
           UNCHANGED <<held, stacks, lost, asked>>
    PROVE  MemInv'
<1> DEFINE got == GetMem(heap, nbytes)
           n   == roundmb(nbytes)
           x   == <<"cut", got.at, Block(got.at, n)>>
           O   == OwnersOf(held, lost, stacks)
<1>1. nbytes \in 0..(WORD - 1) /\ nbytes \in 1..(WORD - 1) /\ nbytes # 0 /\ nbytes <= WORD - MB
    BY MemoryAssumption
<1>2. n \in Nat /\ Aligned(n) /\ n > 0
    <2>1. n \in Nat /\ n % MB = 0 /\ n > 0
        BY <1>1, Roundmb, MemoryAssumption
    <2> HIDE DEF n
    <2> QED
        BY <2>1 DEF Aligned
<1>3. HeapOK(heap) /\ MemTypes /\ Partition(Covered(heap.blocks), O)
      /\ \A b \in held : b.len = roundmb(b.asked)
    BY DEF MemInv
<1>4. Taken(heap, got.heap, got.at, n)
    BY <1>1, GrantApart
<1>5. x[3] = Block(got.at, n) /\ x \in O \cup {x}
    OBVIOUS
<1>6. (O \cup {x}) \ {x} = O
    BY DEF OwnersOf, HeldOwner, LostOwner, StackOwner
<1> HIDE DEF x, O
<1>7. Partition(Covered(got.heap.blocks), O \cup {x})
    <2> HIDE DEF got, n
    <2> QED
        BY <1>2, <1>3, <1>4, <1>5, TakenBy
<1>8. HeapOK(got.heap)
    BY <1>4 DEF Taken
<1> DEFINE freed == FreeMem(got.heap, got.at, nbytes)
<1>9. HeapOK(freed.heap) /\ Partition(Covered(freed.heap.blocks), (O \cup {x}) \ {x})
    <2> HIDE DEF got
    <2> QED
        BY <1>1, <1>2, <1>5, <1>7, <1>8, GivenBy
<1>10. heap' = freed.heap
    OBVIOUS
<1> HIDE DEF freed
<1>11. MemTypes'
    BY <1>3 DEF MemTypes
<1> QED
    BY <1>3, <1>6, <1>9, <1>10, <1>11 DEF MemInv, O

LEMMA AllocateMemInv ==
    ASSUME MemInv, NEW nbytes \in Requests, Allocate(nbytes)
    PROVE  MemInv'
<1> DEFINE got == GetMem(heap, nbytes)
           n   == roundmb(nbytes)
           g   == Grant(got.at, nbytes)
<1>1. nbytes \in 0..(WORD - 1) /\ nbytes # 0 /\ nbytes \in 1..(WORD - 1)
    BY MemoryAssumption DEF Allocate
<1>2. n \in Nat /\ Aligned(n) /\ Cells(n) \in Nat
    <2>1. n \in Nat /\ n % MB = 0 /\ MB \in Nat \ {0}
        BY <1>1, Roundmb, MemoryAssumption
    <2> HIDE DEF n
    <2> QED
        BY <2>1 DEF Cells, Aligned
<1>3. HeapOK(heap) /\ MemTypes /\ Partition(Covered(heap.blocks), OwnersOf(held, lost, stacks))
      /\ \A b \in held : b.len = roundmb(b.asked)
    BY DEF MemInv
<1>4. /\ heap' = got.heap /\ stacks' = stacks /\ lost' = lost
      /\ held' = IF got.at = NoMem THEN held ELSE held \cup {g}
      /\ asked' = [cells |-> Cells(n), met |-> got.at # NoMem]
    BY DEF Allocate
<1>5. \/ NoneTaken(heap, got, nbytes)
      \/ got.at \in Nat /\ Taken(heap, got.heap, got.at, n)
    BY <1>1, <1>3, Granted
<1>6. CASE NoneTaken(heap, got, nbytes)
    <2>1. heap' = heap /\ held' = held
        BY <1>4, <1>6 DEF NoneTaken
    <2>2. MemTypes'
        BY <1>2, <1>3, <1>4, <2>1 DEF MemTypes
    <2> QED
        BY <1>3, <1>4, <2>1, <2>2 DEF MemInv
<1>7. CASE got.at \in Nat /\ Taken(heap, got.heap, got.at, n)
    <2>1. got.at # NoMem
        BY <1>7, MemoryAssumption
    <2> HIDE DEF g
    <2>2. held' = held \cup {g} /\ asked' = [cells |-> Cells(n), met |-> TRUE]
        BY <1>4, <2>1
    <2> QED
        BY <1>1, <1>4, <2>1, <2>2, GrantMemInv DEF g
<1> QED
    BY <1>5, <1>6, <1>7

LEMMA ReleaseMemInv ==
    ASSUME MemInv, NEW b \in held, Release(b), b.len > 0
    PROVE  MemInv'
<1> DEFINE freed == FreeMem(heap, b.at, b.asked)
<1>1. HeapOK(heap) /\ MemTypes /\ Partition(Covered(heap.blocks), OwnersOf(held, lost, stacks))
      /\ \A c \in held : c.len = roundmb(c.asked)
    BY DEF MemInv
<1>2. b.asked \in 0..(WORD - 1) /\ b.asked # 0 /\ b.len = roundmb(b.asked) /\ b.len > 0
    <2>1. b \in [at : Nat, len : Nat, asked : 1..(WORD - 1)]
        BY <1>1 DEF MemTypes
    <2>2. WORD \in Nat
        BY MemoryAssumption
    <2> QED
        BY <1>1, <2>1, <2>2 DEF Release
<1>3. heap' = freed.heap /\ held' = held \ {b} /\ stacks' = stacks /\ lost' = lost /\ asked' = asked
    BY DEF Release
<1>8. Loses(OwnersOf(held', lost, stacks), OwnersOf(held, lost, stacks), HeldOwner(b))
    <2>1. Loses(held', held, b)
        BY <1>3 DEF Loses
    <2> QED
        BY ONLY <2>1, DropHeld
<1>4. HeldOwner(b) \in OwnersOf(held, lost, stacks) /\ HeldOwner(b)[3] = Block(b.at, roundmb(b.asked))
    BY <1>2, <1>8 DEF HeldOwner, Loses
<1>5. HeapOK(freed.heap) /\ Partition(Covered(freed.heap.blocks), OwnersOf(held, lost, stacks) \ {HeldOwner(b)})
    BY <1>1, <1>2, <1>4, GivenBy
<1>6. OwnersOf(held', lost', stacks') = OwnersOf(held, lost, stacks) \ {HeldOwner(b)}
    BY <1>3, <1>8 DEF Loses
<1>7. MemTypes'
    BY <1>1, <1>3 DEF MemTypes
<1> HIDE DEF freed
<1> QED
    BY <1>1, <1>3, <1>5, <1>6, <1>7 DEF MemInv

(* create's size of a stack *)
StkLen(ssize) == roundew(IF ssize < MINSTK THEN MINSTK ELSE ssize)

LEMMA StkLenRange ==
    ASSUME NEW ssize \in StackSizes
    PROVE  StkLen(ssize) \in 0..(WORD - 1)
<1> DEFINE n == IF ssize < MINSTK THEN MINSTK ELSE ssize
           m == (n + UINT - 1) % WORD
<1>1. WORD \in Nat \ {0} /\ UINT \in Nat \ {0} /\ n \in Nat /\ StkLen(ssize) = m - (m % UINT)
    BY MemoryAssumption DEF StkLen, roundew
<1>2. m \in 0..(WORD - 1)
    BY <1>1
<1> HIDE DEF m
<1>3. m % UINT \in 0..(UINT - 1) /\ m % UINT <= m
    BY <1>1, <1>2
<1> QED
    BY <1>1, <1>2, <1>3

LEMMA CreateStkMemInv ==
    ASSUME MemInv, NEW p \in Slot, NEW ssize \in StackSizes, NEW priority \in {0, 1},
           CreateStk(p, ssize, priority)
    PROVE  MemInv'
<1> DEFINE len == StkLen(ssize)
           got == GetStk(heap, len)
           n   == roundmb(len)
           s   == [base |-> got.at, len |-> len]
           b   == Block(StkLow(got.at, len), n)
<1>1. len \in 0..(WORD - 1)
    BY StkLenRange
<1>2. n \in Nat /\ Aligned(n) /\ Cells(n) \in Nat
    <2> HIDE DEF len
    <2>1. n \in Nat /\ n % MB = 0 /\ MB \in Nat \ {0}
        BY <1>1, Roundmb, MemoryAssumption
    <2> HIDE DEF n
    <2> QED
        BY <2>1 DEF Cells, Aligned
<1>3. HeapOK(heap) /\ MemTypes /\ Partition(Covered(heap.blocks), OwnersOf(held, lost, stacks))
      /\ \A c \in held : c.len = roundmb(c.asked)
    BY DEF MemInv
<1>4. /\ heap' = got.heap /\ held' = held
      /\ asked' = [cells |-> Cells(n), met |-> got.at # NoMem]
      /\ \/ got.at = NoMem /\ UNCHANGED <<stacks, lost>>
         \/ got.at # NoMem /\ stacks[p] = NoMem /\ stacks' = [stacks EXCEPT ![p] = s] /\ lost' = lost
         \/ got.at # NoMem /\ lost' = lost \cup {b} /\ stacks' = stacks
    BY DEF CreateStk, StkLen
<1>5. \/ NoneTaken(heap, got, len)
      \/ /\ len # 0 /\ got.at \in Nat
         /\ Taken(heap, got.heap, StkLow(got.at, len), n)
    <2> HIDE DEF len
    <2> QED
        BY <1>1, <1>3, GrantedStk
<1> HIDE DEF len, got, n
<1>6. CASE NoneTaken(heap, got, len)
    <2>1. heap' = heap /\ stacks' = stacks /\ lost' = lost
        BY <1>4, <1>6 DEF NoneTaken
    <2>2. MemTypes'
        BY <1>2, <1>3, <1>4, <2>1 DEF MemTypes
    <2> QED
        BY <1>3, <1>4, <2>1, <2>2 DEF MemInv
<1>7. CASE len # 0 /\ got.at \in Nat /\ Taken(heap, got.heap, StkLow(got.at, len), n)
    <2>1. got.at # NoMem
        BY <1>7, MemoryAssumption
    <2>2. HeapOK(heap')
        BY <1>4, <1>7 DEF Taken
    <2>3. ASSUME NEW x, x[3] = b
          PROVE  Partition(Covered(heap'.blocks), OwnersOf(held, lost, stacks) \cup {x})
        <3>1. Partition(Covered(got.heap.blocks), OwnersOf(held, lost, stacks) \cup {x})
            BY <1>2, <1>3, <1>7, <2>3, TakenBy
        <3> QED
            BY <1>4, <3>1
    <2>4. CASE stacks[p] = NoMem /\ stacks' = [stacks EXCEPT ![p] = s] /\ lost' = lost
        <3>1. s \in [base : Nat, len : 1..(WORD - 1)] /\ s \in [base : Nat, len : Nat]
            BY <1>1, <1>7
        <3>2. s # NoMem
            BY <3>1, MemoryAssumption
        <3>3. DOMAIN stacks = Slot /\ stacks \in [Slot -> {NoMem} \cup [base : Nat, len : 1..(WORD - 1)]]
            BY <1>3 DEF MemTypes
        <3>4. MemTypes'
            BY <1>2, <1>3, <1>4, <2>4, <3>1, <3>3 DEF MemTypes
        <3>5. StackOwner(p, s)[3] = b
            BY DEF StackOwner, StkBlock, n
        <3> HIDE DEF s, b
        <3>6. OwnersOf(held, lost, stacks') = OwnersOf(held, lost, stacks) \cup {StackOwner(p, s)}
            <4>1. Sets(stacks', stacks, p, s) /\ stacks[p] = NoMem
                BY <2>4, <3>3 DEF Sets
            <4>2. Gains(OwnersOf(held, lost, stacks'), OwnersOf(held, lost, stacks), StackOwner(p, s))
                BY ONLY <3>2, <4>1, OwnStack
            <4> QED
                BY <4>2 DEF Gains
        <3>7. Partition(Covered(heap'.blocks), OwnersOf(held', lost', stacks'))
            BY <1>4, <2>3, <2>4, <3>5, <3>6
        <3> QED
            BY <1>3, <1>4, <2>2, <3>4, <3>7 DEF MemInv
    <2>5. CASE lost' = lost \cup {b} /\ stacks' = stacks
        <3>1. MemTypes'
            BY <1>2, <1>3, <1>4, <2>5 DEF MemTypes
        <3>3. Partition(Covered(heap'.blocks), OwnersOf(held', lost', stacks'))
            <4> HIDE DEF b
            <4>1. Gains(OwnersOf(held, lost', stacks), OwnersOf(held, lost, stacks), LostOwner(b))
                <5>1. Gains(lost', lost, b)
                    BY <2>5 DEF Gains
                <5> QED
                    BY ONLY <5>1, OwnLost
            <4>2. LostOwner(b)[3] = b
                BY DEF LostOwner
            <4>3. Partition(Covered(heap'.blocks), OwnersOf(held, lost, stacks) \cup {LostOwner(b)})
                BY <2>3, <4>2
            <4> QED
                BY <1>4, <2>5, <4>1, <4>3 DEF Gains
        <3> QED
            BY <1>3, <1>4, <2>2, <2>5, <3>1, <3>3 DEF MemInv
    <2> QED
        BY <1>4, <2>1, <2>4, <2>5
<1> QED
    BY <1>5, <1>6, <1>7

LEMMA KillStkMemInv ==
    ASSUME MemInv, NEW p \in Slot, KillStk(p)
    PROVE  MemInv'
<1> DEFINE s     == stacks[p]
           n     == roundmb(s.len)
           lo    == StkLow(s.base, s.len)
           freed == FreeMem(heap, lo, n)
           nst   == [stacks EXCEPT ![p] = NoMem]
           x     == StackOwner(p, s)
<1>1. HeapOK(heap) /\ MemTypes /\ Partition(Covered(heap.blocks), OwnersOf(held, lost, stacks))
      /\ \A c \in held : c.len = roundmb(c.asked)
    BY DEF MemInv
<1>2. s # NoMem /\ heap' = freed.heap /\ stacks' = nst /\ UNCHANGED <<held, lost, asked>>
    BY DEF KillStk, FreeStk
<1>3. stacks \in [Slot -> {NoMem} \cup [base : Nat, len : 1..(WORD - 1)]] /\ DOMAIN stacks = Slot
    BY <1>1 DEF MemTypes
<1>4. s.len \in 0..(WORD - 1)
    <2>1. s \in [base : Nat, len : 1..(WORD - 1)]
        BY <1>2, <1>3
    <2>2. s.len \in 1..(WORD - 1) /\ WORD \in Nat
        BY <2>1, MemoryAssumption
    <2> HIDE DEF s
    <2> QED
        BY <2>2
<1>5. n \in 0..(WORD - 1) /\ n % MB = 0
    <2> HIDE DEF s
    <2> QED
        BY <1>4, Roundmb
<1>6. roundmb(n) = n
    <2> HIDE DEF n
    <2> QED
        BY <1>5, Roundmb
<1>7. x \in OwnersOf(held, lost, stacks)
      /\ OwnersOf(held, lost, nst) = OwnersOf(held, lost, stacks) \ {x}
    <2> HIDE DEF nst, s, x
    <2>1. Sets(nst, stacks, p, NoMem) /\ stacks[p] # NoMem
        BY <1>2, <1>3 DEF nst, s, Sets
    <2>2. Loses(OwnersOf(held, lost, nst), OwnersOf(held, lost, stacks), StackOwner(p, stacks[p]))
        BY ONLY <2>1, DropStack
    <2> QED
        BY <2>2 DEF x, s, Loses
<1>8. x[3] = Block(lo, n)
    BY DEF StackOwner, StkBlock
<1>9. MemTypes'
    BY <1>1, <1>2, <1>3 DEF MemTypes
<1>10. HeapOK(freed.heap) /\ Partition(Covered(freed.heap.blocks), OwnersOf(held, lost, stacks) \ {x})
    <2>1. CASE n = 0
        <3>1. freed.heap = heap
            BY <2>1 DEF FreeMem
        <3>2. Span(x[3]) = {}
            <4>1. Owned(x[3])
                BY <1>1, <1>7 DEF Partition
            <4>2. x[3].len = 0 /\ x[3].at \in Nat
                BY <1>8, <2>1, <4>1 DEF Owned, BlockRec, Block
            <4> HIDE DEF x
            <4> QED
                BY <4>2 DEF Span
        <3>3. Partition(Covered(heap.blocks) \cup Span(x[3]), OwnersOf(held, lost, stacks) \ {x})
            <4> HIDE DEF x
            <4> QED
                BY <1>1, <1>7, PartitionGiven
        <3>4. Covered(heap.blocks) \cup Span(x[3]) = Covered(heap.blocks)
            BY <3>2
        <3> HIDE DEF x, freed
        <3> QED
            BY <1>1, <3>1, <3>3, <3>4
    <2>2. CASE n # 0
        <3>1. n > 0 /\ x[3] = Block(lo, roundmb(n)) /\ roundmb(n) > 0
            BY <1>5, <1>6, <1>8, <2>2
        <3> HIDE DEF x, n, lo
        <3> QED
            BY <1>1, <1>5, <1>7, <2>2, <3>1, GivenBy
    <2> QED
        BY <2>1, <2>2
<1> HIDE DEF freed, x, nst
<1> QED
    BY <1>1, <1>2, <1>7, <1>9, <1>10 DEF MemInv

(* Linking what has no bytes: nothing happens, or there is a node of none. *)
LEMMA LinkedNothing ==
    ASSUME NEW h, HeapOK(h), NEW at \in Nat, at <= maxheap
    PROVE  \/ Link(h, Block(at, 0)) = h.blocks
           \/ \E b \in ToSet(Link(h, Block(at, 0))) : b.len = 0
<1> DEFINE bl     == h.blocks
           e      == Block(at, 0)
           k      == Before(h, at)
           joins  == k > 0 /\ End(bl[k]) = at
           itself == ~joins /\ k < Len(bl) /\ bl[k + 1].at = at
           joined == IF joins THEN Block(bl[k].at, bl[k].len + 0) ELSE e
           meets  == k < Len(bl) /\ End(joined) = bl[k + 1].at
           w      == IF meets THEN Block(joined.at, joined.len + bl[k + 1].len) ELSE joined
           front  == SubSeq(bl, 1, IF joins THEN k - 1 ELSE k)
           back   == SubSeq(bl, IF meets THEN k + 2 ELSE k + 1, Len(bl))
<1>1. /\ bl \in Seq(BlockRec) /\ Len(bl) \in Nat /\ DOMAIN bl = 1..Len(bl)
      /\ \A i \in DOMAIN bl : bl[i].at \in Nat /\ bl[i].len \in Nat /\ bl[i] \in BlockRec /\ BlockOK(bl[i])
      /\ \A i, j \in DOMAIN bl : i < j => bl[i].at + bl[i].len < bl[j].at
    <2>1. ListOK(bl)
        BY DEF HeapOK
    <2> QED
        BY <2>1, ListFacts DEF ListOK
<1>2. k \in 0..Len(bl)
    BY BeforeFacts
<1>3. e.at = at /\ e.len = 0 /\ e \in BlockRec /\ End(e) = at
    <2>1. e.at = at /\ e.len = 0 /\ e \in BlockRec
        BY DEF Block, BlockRec
    <2>2. maxheap \in Nat /\ at + 0 <= maxheap
        BY MemoryAssumption
    <2>3. End(Block(at, 0)) = at + 0
        BY <2>2, NoWrap
    <2> QED
        BY <2>1, <2>3
<1>4. Link(h, e) = IF itself THEN SubSeq(bl, 1, k) \o <<e>> ELSE front \o <<w>> \o back
    BY <1>3 DEF Link
<1>5. CASE joins
    <2>1. k \in DOMAIN bl /\ bl[k] \in BlockRec /\ BlockOK(bl[k])
        BY <1>1, <1>2, <1>5
    <2>2. joined = bl[k]
        BY <1>5, <2>1 DEF Block, BlockRec
    <2>3. End(bl[k]) = bl[k].at + bl[k].len
        BY <2>1, EndOf DEF BlockOK
    <2>4. ~meets
        <3>1. k < Len(bl) => k + 1 \in DOMAIN bl /\ k < k + 1
            BY <1>1, <1>2
        <3>2. k < Len(bl) => bl[k].at + bl[k].len < bl[k + 1].at
            BY <1>1, <2>1, <3>1
        <3>3. k < Len(bl) => bl[k + 1].at \in Nat /\ bl[k].at + bl[k].len \in Nat
            BY <1>1, <2>1, <3>1
        <3> QED
            BY <2>2, <2>3, <3>2, <3>3
    <2>5. Link(h, e) = SubSeq(bl, 1, k - 1) \o <<bl[k]>> \o SubSeq(bl, k + 1, Len(bl))
        BY <1>4, <1>5, <2>2, <2>4
    <2> DEFINE cut == Spliced(bl, k - 1, bl[k], k + 1)
    <2>6. cut = bl
        <3> HIDE DEF bl, k, e, joins
        <3>1. k \in Nat /\ k >= 1 /\ k <= Len(bl) /\ k - 1 \in Nat /\ k + 1 \in Nat /\ k - 1 < k + 1 /\ k + 1 <= Len(bl) + 1
            BY <1>1, <2>1
        <3>2. InPlace(cut, bl, k - 1, bl[k], k + 1)
            BY <1>1, <2>1, <3>1, SplicedBlocks
        <3> HIDE DEF cut
        <3>3. /\ cut \in Seq(BlockRec) /\ Len(cut) = Len(bl) /\ cut[k] = bl[k]
              /\ \A j \in 1..(k - 1) : cut[j] = bl[j]
              /\ \A j \in (k + 1)..Len(bl) : cut[j] = bl[j]
            <4>1. /\ cut \in Seq(BlockRec) /\ Len(cut) = (k - 1) + 1 + (Len(bl) + 1 - (k + 1))
                  /\ \A j \in 1..(k - 1) : cut[j] = bl[j]
                  /\ cut[(k - 1) + 1] = bl[k]
                  /\ \A j \in (k + 1)..Len(bl) : cut[j + ((k - 1) + 2 - (k + 1))] = bl[j]
                BY <3>2 DEF InPlace
            <4>2. (k - 1) + 1 = k /\ (k - 1) + 1 + (Len(bl) + 1 - (k + 1)) = Len(bl)
                <5>1. \A a, m \in Nat : (a - 1) + 1 = a /\ (a - 1) + 1 + (m + 1 - (a + 1)) = m
                    OBVIOUS
                <5> QED
                    BY ONLY <1>1, <3>1, <5>1
            <4>3. \A j \in (k + 1)..Len(bl) : j + ((k - 1) + 2 - (k + 1)) = j
                BY <1>1, <3>1
            <4> QED
                BY <4>1, <4>2, <4>3
        <3>4. \A j \in 1..Len(bl) : cut[j] = bl[j]
            BY <1>1, <3>1, <3>3
        <3>5. cut = [j \in 1..Len(bl) |-> cut[j]] /\ bl = [j \in 1..Len(bl) |-> bl[j]]
            BY <1>1, <3>3
        <3> QED
            BY <3>4, <3>5
    <2> QED
        BY <2>5, <2>6 DEF Spliced
<1>6. CASE itself
    <2>1. Link(h, e) = SubSeq(bl, 1, k) \o <<e>>
        BY <1>4, <1>6
    <2> DEFINE q == SubSeq(bl, 1, k) \o <<e>>
    <2>2. k + 1 \in DOMAIN q /\ q[k + 1] = e
        <3> HIDE DEF bl, k, e, itself
        <3> QED
            BY <1>1, <1>2, <1>3
    <2> HIDE DEF q
    <2>3. e \in ToSet(q)
        BY <2>2 DEF ToSet
    <2> QED
        BY <1>3, <2>1, <2>3 DEF q
<1>7. CASE ~joins /\ ~itself
    <2>1. ~meets /\ w = e
        BY <1>3, <1>7
    <2> DEFINE q == Spliced(bl, k, e, k + 1)
    <2>2. Link(h, e) = q
        BY <1>4, <1>7, <2>1 DEF Spliced
    <2>3. k + 1 \in DOMAIN q /\ q[k + 1] = e
        <3> HIDE DEF bl, k, e, itself, joins
        <3>1. k \in Nat /\ k + 1 \in Nat /\ k < k + 1 /\ k + 1 <= Len(bl) + 1 /\ k <= Len(bl)
            BY <1>1, <1>2
        <3>2. InPlace(q, bl, k, e, k + 1)
            BY <1>1, <1>3, <3>1, SplicedBlocks
        <3> HIDE DEF q
        <3>3. q \in Seq(BlockRec) /\ Len(q) = k + 1 + (Len(bl) + 1 - (k + 1)) /\ q[k + 1] = e
            BY <3>2 DEF InPlace
        <3>4. DOMAIN q = 1..Len(q)
            BY <3>3
        <3> QED
            BY <1>1, <3>1, <3>3, <3>4
    <2> HIDE DEF q
    <2>4. e \in ToSet(q)
        BY <2>3 DEF ToSet
    <2> QED
        BY <1>3, <2>2, <2>4
<1> QED
    BY <1>5, <1>6, <1>7

(* Freeing what was granted for a request that wrapped: it is refused, or nothing *)
(* happens, or the list is broken.                                              *)
LEMMA ReleaseNothing ==
    ASSUME MemInv, NEW b \in held, Release(b), ~(b.len > 0), Intact'
    PROVE  heap' = heap /\ MemInv'
<1> DEFINE x == HeldOwner(b)
           O == OwnersOf(held, lost, stacks)
<1>1. HeapOK(heap) /\ MemTypes /\ Partition(Covered(heap.blocks), O)
      /\ \A c \in held : c.len = roundmb(c.asked)
    BY DEF MemInv
<1>2. /\ b.at \in Nat /\ b.asked # 0 /\ b.len = 0 /\ roundmb(b.asked) = 0
    <2>1. b \in [at : Nat, len : Nat, asked : 1..(WORD - 1)] /\ WORD \in Nat /\ b.len = roundmb(b.asked)
        BY <1>1, MemoryAssumption DEF MemTypes
    <2>2. b.len \in Nat
        BY <2>1
    <2> QED
        BY <2>1, <2>2
<1>3. heap' = FreeMem(heap, b.at, b.asked).heap /\ held' = held \ {b} /\ stacks' = stacks /\ lost' = lost /\ asked' = asked
    BY DEF Release
<1>4. Loses(OwnersOf(held', lost, stacks), O, x)
    <2>1. Loses(held', held, b)
        BY <1>3 DEF Loses
    <2> QED
        BY ONLY <2>1, DropHeld DEF O, x
<1>5. x \in O /\ OwnersOf(held', lost', stacks') = O \ {x}
    BY <1>3, <1>4 DEF Loses
<1>6. x[3].at = b.at /\ x[3].len = 0
    BY <1>2 DEF HeldOwner, Block
<1> HIDE DEF x, O
<1>7. Owned(x[3])
    BY <1>1, <1>5 DEF Partition
<1>8. b.at <= maxheap
    BY <1>2, <1>6, <1>7, MemoryAssumption DEF Owned
<1>9. heap' = heap
    <2> DEFINE blk    == Block(b.at, 0)
               linked == Link(heap, blk)
    <2>1. heap \in [mlength : Nat, blocks : Seq(BlockRec)]
        BY <1>1 DEF HeapOK
    <2>2. \/ heap' = heap
          \/ heap' = [mlength |-> heap.mlength + 0, blocks |-> linked]
        <3>1. Block(b.at, roundmb(b.asked)) = blk /\ blk.len = 0
            BY <1>2 DEF Block
        <3>2. \/ FreeMem(heap, b.at, b.asked).heap = heap
              \/ FreeMem(heap, b.at, b.asked).heap = [mlength |-> heap.mlength + blk.len, blocks |-> linked]
            BY <3>1 DEF FreeMem
        <3> QED
            BY <1>3, <3>1, <3>2
    <2>3. \/ linked = heap.blocks
          \/ \E c \in ToSet(linked) : c.len = 0
        BY <1>1, <1>2, <1>8, LinkedNothing
    <2> HIDE DEF linked
    <2>4. ASSUME heap' = [mlength |-> heap.mlength + 0, blocks |-> linked] PROVE linked = heap.blocks
        <3>1. heap'.blocks = linked
            BY <2>4
        <3>2. \A c \in ToSet(linked) : c.len > 0
            BY <3>1 DEF Intact
        <3> QED
            BY <2>3, <3>2
    <2>5. [mlength |-> heap.mlength + 0, blocks |-> heap.blocks] = heap
        BY <2>1
    <2> QED
        BY <2>2, <2>4, <2>5
<1>10. Partition(Covered(heap.blocks) \cup Span(x[3]), O \ {x})
    BY <1>1, <1>5, PartitionGiven
<1>11. Span(x[3]) = {}
    BY <1>2, <1>6 DEF Span
<1>12. MemTypes'
    BY <1>1, <1>3 DEF MemTypes
<1>13. Covered(heap.blocks) \cup Span(x[3]) = Covered(heap.blocks)
    BY <1>11
<1> QED
    BY <1>1, <1>3, <1>5, <1>9, <1>10, <1>12, <1>13 DEF MemInv

LEMMA InvIntact == MemInv => Intact
<1> SUFFICES ASSUME MemInv, NEW b \in ToSet(heap.blocks) PROVE b.len > 0
    BY DEF Intact
<1>1. ListOK(heap.blocks)
    BY DEF MemInv, HeapOK
<1>2. PICK i \in DOMAIN heap.blocks : b = heap.blocks[i]
    BY DEF ToSet
<1> QED
    BY <1>1, <1>2, ListFacts DEF BlockOK

(* What is left when the list is broken: nothing is claimed then. *)
MemSafe == Intact => MemInv

LEMMA NextMemSafe ==
    ASSUME MemSafe, [MemNext]_memVars
    PROVE  MemSafe'
<1> SUFFICES ASSUME Intact' PROVE MemInv'
    BY DEF MemSafe
<1>1. CASE MemNext
    <2>1. MemInv
        BY <1>1 DEF MemNext, MemSafe
    <2>2. ASSUME NEW b \in held, Release(b) PROVE MemInv'
        BY <2>1, <2>2, ReleaseMemInv, ReleaseNothing
    <2> QED
        BY <1>1, <2>1, <2>2, AllocateMemInv, CreateStkMemInv, KillStkMemInv DEF MemNext
<1>2. CASE UNCHANGED memVars
    <2>1. Intact
        BY <1>2 DEF memVars, Intact
    <2>2. MemInv
        BY <2>1 DEF MemSafe
    <2> QED
        BY <1>2, <2>2 DEF memVars, MemInv, MemTypes
<1> QED
    BY <1>1, <1>2

(* The types and the inductive invariant: in every state in which the free list is  *)
(* intact it is in order, and each address is free or has one owner.             *)
THEOREM MemoryInvariant == MemSpec => [](Intact => MemInv)
<1>1. MemInit => MemSafe
    BY InitMemInv DEF MemSafe
<1>2. MemSafe /\ [MemNext]_memVars => MemSafe'
    BY NextMemSafe
<1>3. MemSafe => (Intact => MemInv)
    BY DEF MemSafe
<1> QED
    BY <1>1, <1>2, <1>3, PTL DEF MemSpec

(* The step that breaks the list. *)
LEMMA Breaking ==
    ASSUME MemInv, MemNext, ~(Intact')
    PROVE  \E b \in held : Release(b) /\ ~(b.len > 0)
<1>1. ~(MemInv')
    BY InvIntact, PTL
<1> QED
    BY <1>1, AllocateMemInv, ReleaseMemInv, CreateStkMemInv, KillStkMemInv DEF MemNext

(* Whatever is requested, held and freed, by callers and by create and kill: *)
(* the list is broken by nothing but the freeing of a block that getmem gave for a *)
(* request that wrapped.                                                        *)
THEOREM BrokenByWrapOnly == MemSpec => OnlyWrapBreaks
<1>1. (Intact => MemInv) /\ [MemNext]_memVars
            => [Intact' \/ \E b \in held : b \notin held' /\ b.asked > WORD - MB]_memVars
    <2> SUFFICES ASSUME Intact => MemInv, MemNext, ~(Intact')
                 PROVE  \E b \in held : b \notin held' /\ b.asked > WORD - MB
        OBVIOUS
    <2>1. MemInv
        BY DEF MemNext
    <2>3. PICK b \in held : Release(b) /\ ~(b.len > 0)
        BY <2>1, Breaking
    <2>4. b \notin held'
        BY <2>3 DEF Release
    <2>5. b \in [at : Nat, len : Nat, asked : 1..(WORD - 1)] /\ b.len = roundmb(b.asked)
        BY <2>1 DEF MemInv, MemTypes
    <2>6. b.asked \in 0..(WORD - 1) /\ b.asked > 0
        BY <2>5, MemoryAssumption
    <2>7. b.asked > WORD - MB
        BY <2>3, <2>5, <2>6, Roundmb, MemoryAssumption
    <2> QED
        BY <2>4, <2>7
<1> QED
    BY <1>1, MemoryInvariant, PTL DEF MemSpec, OnlyWrapBreaks

LEMMA WholeUnits ==
    ASSUME NEW at \in minheap..(maxheap - 1), NEW n \in 1..((maxheap - at) \div MB)
    PROVE  n * MB \in Nat /\ n * MB > 0 /\ at + n * MB <= maxheap /\ Aligned(n * MB)
<1>1. /\ MB \in Nat \ {0} /\ minheap \in Nat /\ maxheap \in Nat
      /\ maxheap - at \in Nat /\ n \in Nat /\ n > 0
    BY MemoryAssumption
<1> DEFINE m == maxheap - at
           q == m \div MB
<1>2. q \in Nat /\ MB * q <= m /\ n <= q
    <2>1. m = MB * q + (m % MB) /\ m % MB >= 0 /\ q \in Nat
        BY <1>1
    <2> QED
        BY <1>1, <2>1
<1> HIDE DEF q
<1>3. MB * n <= MB * q /\ MB * n > 0
    BY <1>1, <1>2
<1>4. (MB * n) % MB = 0
    BY <1>1
<1>5. n * MB = MB * n
    BY <1>1
<1> QED
    BY <1>1, <1>2, <1>3, <1>4, <1>5 DEF Aligned

(* Freeing a block that is free already, even in part, is refused. *)
THEOREM DoubleFreesRefused == MemSpec => []DoubleFreeRefused
<1>1. (Intact => MemInv) => DoubleFreeRefused
    <2> SUFFICES ASSUME MemInv,
                        NEW at \in {a \in minheap..(maxheap - 1) : a % MB = 0},
                        NEW n \in 1..((maxheap - at) \div MB),
                        NEW b \in ToSet(heap.blocks), ~Apart(Block(at, n * MB), b)
                 PROVE  ~FreeMem(heap, at, n * MB).ok
        BY DEF DoubleFreeRefused
    <2> DEFINE len == n * MB
    <2>1. len \in Nat /\ len > 0 /\ at + len <= maxheap /\ Aligned(len)
        BY WholeUnits
    <2> HIDE DEF len
    <2>2. /\ at \in Nat /\ minheap <= at /\ Aligned(at) /\ minheap \in Nat /\ maxheap \in Nat /\ maxheap < WORD
          /\ WORD \in Nat
        BY MemoryAssumption DEF Aligned
    <2>3. len \in 0..(WORD - 1) /\ roundmb(len) = len
        <3>1. len \in 0..(WORD - 1) /\ len % MB = 0
            BY <2>1, <2>2 DEF Aligned
        <3> QED
            BY <3>1, Roundmb
    <2>4. RunOK(at, len)
        BY <2>1, <2>2 DEF RunOK
    <2>5. HeapOK(heap) /\ ListOK(heap.blocks)
        BY DEF MemInv, HeapOK
    <2>6. PICK i \in DOMAIN heap.blocks : b = heap.blocks[i]
        BY <2>5, ListFacts DEF ToSet
    <2>7. b.at \in Nat /\ b.len \in Nat /\ b.len > 0
        BY <2>5, <2>6, ListFacts DEF BlockOK
    <2>8. b.at < at + len /\ at < b.at + b.len
        <3>1. ~Apart(Block(at, len), b)
            BY DEF len
        <3>2. Block(at, len).at = at /\ Block(at, len).len = len
            BY DEF Block
        <3> QED
            BY <2>1, <2>2, <2>7, <3>1, <3>2 DEF Apart
    <2>9. \E a \in Run(at, len) : a \in Span(b)
        <3>1. CASE at <= b.at
            <4>1. b.at \in Run(at, len) /\ b.at \in Span(b)
                BY <2>1, <2>2, <2>7, <2>8, <3>1 DEF Run, Span
            <4> QED
                BY <4>1
        <3>2. CASE b.at < at
            <4>1. at \in Run(at, len) /\ at \in Span(b)
                BY <2>1, <2>2, <2>7, <2>8, <3>2 DEF Run, Span
            <4> QED
                BY <4>1
        <3> QED
            BY <2>2, <2>7, <3>1, <3>2
    <2>10. \E a \in Run(at, roundmb(len)) : a \in Covered(heap.blocks)
        BY <2>3, <2>6, <2>9 DEF Covered
    <2>11. RunOK(at, roundmb(len)) /\ len # 0
        BY <2>1, <2>3, <2>4
    <2>12. ~FreeMem(heap, at, len).ok
        BY <2>3, <2>5, <2>10, <2>11, Freeing
    <2> QED
        BY <2>12 DEF len
<1> QED
    BY <1>1, MemoryInvariant, PTL

(* The values of a function on finitely many arguments. *)
LEMMA FiniteValues ==
    ASSUME NEW S, IsFiniteSet(S), NEW T, NEW g, g = [x \in S |-> g[x]], T = {g[x] : x \in S}
    PROVE  IsFiniteSet(T)
<1>1. g \in Surjection(S, T)
    BY DEF Surjection
<1> QED
    BY <1>1, FS_Surjection

-----------------------------------------------------------------------------
(* Free blocks and owned blocks that are not empty, of which none shares an    *)
(* address with another.                                                       *)
LEMMA FreeBlocks ==
    ASSUME MemInv
    PROVE  /\ IsFiniteSet(ToSet(heap.blocks)) /\ Spans(ToSet(heap.blocks)) = Covered(heap.blocks)
           /\ \A b \in ToSet(heap.blocks) : b \in BlockRec /\ BlockOK(b)
           /\ \A b, c \in ToSet(heap.blocks) : b # c => Span(b) \cap Span(c) = {}
<1> DEFINE bl == heap.blocks
<1>1. ListOK(bl)
    BY DEF MemInv, HeapOK
<1>2. /\ Len(bl) \in Nat /\ DOMAIN bl = 1..Len(bl)
      /\ \A i \in DOMAIN bl : bl[i] \in BlockRec /\ BlockOK(bl[i])
    BY <1>1, ListFacts
<1>3. ToSet(bl) = {bl[i] : i \in DOMAIN bl}
    BY DEF ToSet
<1>4. IsFiniteSet(ToSet(bl))
    <2>1. IsFiniteSet(1..Len(bl))
        BY <1>2, FS_Interval
    <2> QED
        <3>1. bl = [i \in 1..Len(bl) |-> bl[i]] /\ ToSet(bl) = {bl[i] : i \in 1..Len(bl)}
            BY <1>1, <1>2, <1>3 DEF ListOK
        <3> QED
            BY ONLY <2>1, <3>1, FiniteValues
<1>5. Spans(ToSet(bl)) = Covered(bl)
    BY <1>3 DEF Spans, Covered
<1>6. ASSUME NEW b \in ToSet(bl), NEW c \in ToSet(bl), b # c PROVE Span(b) \cap Span(c) = {}
    <2>1. PICK i \in DOMAIN bl : b = bl[i]
        BY <1>3
    <2>2. PICK j \in DOMAIN bl : c = bl[j]
        BY <1>3
    <2>3. ASSUME NEW a, a \in Span(b), a \in Span(c) PROVE FALSE
        BY <1>1, <1>6, <2>1, <2>2, <2>3, SpansApart
    <2> QED
        BY <2>3
<1> QED
    BY <1>2, <1>3, <1>4, <1>5, <1>6

LEMMA InUseOwned ==
    ASSUME MemInv
    PROVE  /\ IsFiniteSet(InUse)
           /\ \A b \in InUse : Owned(b) /\ b \in BlockRec /\ Span(b) \cap Covered(heap.blocks) = {}
           /\ \A b, c \in InUse : b # c => Span(b) \cap Span(c) = {}
           /\ Spans(InUse) = HeapRange \ Covered(heap.blocks)
<1> DEFINE O == OwnersOf(held, lost, stacks)
<1>1. Partition(Covered(heap.blocks), O)
    BY DEF MemInv
<1>2. InUse = {o[3] : o \in O}
    <2>1. InUse = {Block(b.at, b.len) : b \in held} \cup lost
                    \cup {StkBlock(stacks[p]) : p \in {q \in Slot : stacks[q] # NoMem}}
        BY DEF InUse, StackOf, StkBlock
    <2>2. /\ \A b : HeldOwner(b)[3] = Block(b.at, b.len)
          /\ \A b : LostOwner(b)[3] = b
          /\ \A p, s : StackOwner(p, s)[3] = StkBlock(s)
        BY DEF HeldOwner, LostOwner, StackOwner
    <2>3. ASSUME NEW b \in InUse PROVE \E o \in O : b = o[3]
        BY <2>1, <2>2, <2>3 DEF OwnersOf
    <2>4. ASSUME NEW o \in O PROVE o[3] \in InUse
        BY <2>1, <2>2, <2>4 DEF OwnersOf
    <2> QED
        BY <2>3, <2>4
<1> HIDE DEF O
<1>3. IsFiniteSet(InUse)
    <2> DEFINE g == [o \in O |-> o[3]]
    <2>1. g = [o \in O |-> g[o]] /\ InUse = {g[o] : o \in O} /\ IsFiniteSet(O)
        BY <1>1, <1>2 DEF Partition
    <2> HIDE DEF g
    <2> QED
        BY ONLY <2>1, FiniteValues
<1>4. ASSUME NEW b \in InUse PROVE Owned(b) /\ b \in BlockRec /\ Span(b) \cap Covered(heap.blocks) = {}
    <2>1. PICK o \in O : b = o[3]
        BY <1>2
    <2> QED
        BY <1>1, <2>1 DEF Partition, Owned
<1>5. ASSUME NEW b \in InUse, NEW c \in InUse, b # c PROVE Span(b) \cap Span(c) = {}
    <2>1. PICK o \in O, q \in O : b = o[3] /\ c = q[3]
        BY <1>2
    <2> QED
        BY <1>1, <1>5, <2>1 DEF Partition
<1>6. ASSUME NEW a PROVE a \in Spans(InUse) <=> a \in HeapRange \ Covered(heap.blocks)
    <2>1. ASSUME a \in Spans(InUse) PROVE a \in HeapRange \ Covered(heap.blocks)
        <3>1. PICK b \in InUse : a \in Span(b)
            BY <2>1 DEF Spans
        <3>2. Owned(b) /\ Span(b) \cap Covered(heap.blocks) = {}
            BY <1>4
        <3>3. a \in HeapRange
            BY <3>1, <3>2, MemoryAssumption DEF Owned, BlockRec, Span, HeapRange
        <3> QED
            BY <3>1, <3>2, <3>3
    <2>2. ASSUME a \in HeapRange, a \notin Covered(heap.blocks) PROVE a \in Spans(InUse)
        BY <1>1, <1>2, <2>2 DEF Partition, Spans
    <2> QED
        BY <2>1, <2>2
<1> QED
    BY <1>3, <1>4, <1>5, <1>6

LEMMA NoSharing ==
    ASSUME NEW b \in BlockRec, NEW c \in BlockRec, b.len > 0, c.len > 0, Span(b) \cap Span(c) = {}
    PROVE  Apart(b, c)
<1>1. b.at \in Nat /\ b.len \in Nat /\ c.at \in Nat /\ c.len \in Nat
    BY DEF BlockRec
<1>2. b.at \in Span(b) /\ c.at \in Span(c)
    BY <1>1 DEF Span
<1>3. b.at \notin Span(c) /\ c.at \notin Span(b)
    BY <1>2
<1> QED
    BY <1>1, <1>3 DEF Span, Apart

(* Free, held and lost blocks and stacks partition the heap, and the total in the *)
(* list's head is right.                                                        *)
THEOREM HeapIsPartitioned == MemSpec => []HeapPartitioned
<1>1. (Intact => MemInv) => HeapPartitioned
    <2> SUFFICES ASSUME MemInv PROVE HeapPartitioned
        BY DEF HeapPartitioned
    <2> DEFINE F == ToSet(heap.blocks)
               U == {b \in InUse : b.len > 0}
    <2>1. Blocks = F \cup U
        BY InvIntact DEF Blocks, Intact
    <2>2. /\ IsFiniteSet(F) /\ Spans(F) = Covered(heap.blocks)
          /\ \A b \in F : b \in BlockRec /\ BlockOK(b)
          /\ \A b, c \in F : b # c => Span(b) \cap Span(c) = {}
        BY FreeBlocks
    <2>3. /\ IsFiniteSet(U)
          /\ \A b \in U : Owned(b) /\ b \in BlockRec /\ b.len > 0 /\ Span(b) \cap Spans(F) = {}
          /\ \A b, c \in U : b # c => Span(b) \cap Span(c) = {}
        BY <2>2, InUseOwned, FS_Subset
    <2>4. Spans(U) = HeapRange \ Spans(F)
        <3>1. \A b \in InUse : b \notin U => Span(b) = {}
            BY InUseOwned DEF BlockRec, Span
        <3>2. Spans(U) = Spans(InUse)
            BY <3>1 DEF Spans
        <3> QED
            BY <2>2, <3>2, InUseOwned
    <2> HIDE DEF F, U
    <2>5. ASSUME NEW b \in Blocks PROVE b \in BlockRec /\ b.len > 0 /\ b.at >= minheap /\ b.at + b.len <= maxheap
        <3>1. b \in F => BlockOK(b) /\ b \in BlockRec
            BY <2>2
        <3>2. b \in U => Owned(b) /\ b \in BlockRec /\ b.len > 0
            BY <2>3
        <3>3. minheap \in Nat /\ \A c \in BlockRec : c.at \in Nat
            BY MemoryAssumption DEF BlockRec
        <3> QED
            BY <2>1, <3>1, <3>2, <3>3 DEF BlockOK, Owned
    <2>6. ASSUME NEW b \in Blocks, NEW c \in Blocks, b # c PROVE Span(b) \cap Span(c) = {}
        <3>1. \A d \in F : Span(d) \subseteq Spans(F)
            BY DEF Spans
        <3> QED
            BY <2>1, <2>2, <2>3, <2>6, <3>1
    <2>7. \A b, c \in Blocks : b # c => Apart(b, c)
        BY <2>5, <2>6, NoSharing
    <2>8. IsFiniteSet(Blocks) /\ Blocks \subseteq BlockRec
        BY <2>1, <2>2, <2>3, <2>5, FS_Union
    <2>9. Bytes(Blocks) = Cardinality(Spans(Blocks))
        BY <2>6, <2>8, BytesOf
    <2>10. Spans(Blocks) = HeapRange
        <3>1. Spans(Blocks) = Spans(F) \cup Spans(U)
            BY <2>1 DEF Spans
        <3>2. Spans(F) \subseteq HeapRange
            BY <2>2, CoveredFacts DEF MemInv, HeapOK
        <3> QED
            BY <2>4, <3>1, <3>2
    <2>11. Cardinality(HeapRange) = maxheap - minheap
        <3>1. minheap \in Nat /\ maxheap \in Nat /\ maxheap - 1 \in Int /\ minheap < maxheap
              /\ (maxheap - 1) - minheap + 1 = maxheap - minheap
            BY MemoryAssumption
        <3> QED
            BY <3>1, FS_Interval DEF HeapRange
    <2>12. heap.mlength = Bytes(F)
        <3>1. heap.mlength = Cardinality(Spans(F))
            BY <2>2 DEF MemInv, HeapOK
        <3>2. F \subseteq BlockRec
            BY <2>2
        <3> QED
            BY <2>2, <3>1, <3>2, BytesOf
    <2> QED
        BY <2>5, <2>7, <2>9, <2>10, <2>11, <2>12 DEF HeapPartitioned, F
<1> QED
    BY <1>1, MemoryInvariant, PTL

-----------------------------------------------------------------------------
(* The free list implements a set of free cells.  A cell is an aligned address, *)
(* and a row of cells the aligned addresses of a run.                           *)
AlignedIn(S) == {a \in S : Aligned(a)}
AllCells     == CellsOf(Block(minheap, maxheap - minheap))
FreeCells    == UNION {CellsOf(b) : b \in ToSet(heap.blocks)}
RowOf(c, k)  == {c + i * MB : i \in 0..(k - 1)}

LEMMA RowIsRun ==
    ASSUME NEW c \in Nat, Aligned(c), NEW k \in Nat, NEW n, n = MB * k
    PROVE  RowOf(c, k) = AlignedIn(Run(c, n))
<1>1. MB \in Nat \ {0} /\ n \in Nat
    BY MemoryAssumption
<1>2. ASSUME NEW i \in 0..(k - 1) PROVE c + i * MB \in Run(c, n) /\ Aligned(c + i * MB)
    <2>1. i \in Nat /\ i + 1 <= k /\ MB * i \in Nat /\ i * MB = MB * i
        BY <1>1
    <2>2. MB * (i + 1) <= MB * k /\ MB * (i + 1) = MB * i + MB
        BY <1>1, <2>1
    <2>3. (MB * i) % MB = 0
        BY <1>1, <2>1
    <2>4. Aligned(MB * i)
        BY <2>3 DEF Aligned
    <2>5. Aligned(c + MB * i)
        BY <2>1, <2>4, AlignedSums
    <2>6. c + MB * i < c + n /\ c + MB * i >= c
        BY <1>1, <2>1, <2>2
    <2>7. c + MB * i \in Run(c, n)
        BY <1>1, <2>1, <2>6 DEF Run
    <2> QED
        BY <2>1, <2>5, <2>7
<1>3. ASSUME NEW a \in Run(c, n), Aligned(a) PROVE \E i \in 0..(k - 1) : a = c + i * MB
    <2>1. a \in Nat /\ c <= a /\ a < c + n
        BY <1>1 DEF Run
    <2>2. Aligned(a - c) /\ a - c \in Nat
        BY <1>3, <2>1, AlignedSums
    <2>3. PICK q \in Nat, r \in 0..(MB - 1) : a - c = MB * q + r /\ (a - c) % MB = r
        BY ONLY <1>1, <2>2, Quotient
    <2>4. a - c = MB * q
        BY <1>1, <2>2, <2>3 DEF Aligned
    <2>5. q < k
        <3>1. MB * q < MB * k
            BY <1>1, <2>1, <2>4
        <3> QED
            BY <1>1, <3>1
    <2>6. q \in 0..(k - 1) /\ a = c + q * MB
        BY <1>1, <2>1, <2>4, <2>5
    <2> QED
        BY <2>6
<1> QED
    BY <1>2, <1>3 DEF RowOf, AlignedIn

LEMMA CellCount ==
    ASSUME NEW n \in Nat, Aligned(n)
    PROVE  Cells(n) \in Nat /\ n = MB * Cells(n) /\ (n > 0 => Cells(n) > 0) /\ (n = 0 => Cells(n) = 0)
<1>1. MB \in Nat \ {0} /\ n % MB = 0
    BY MemoryAssumption DEF Aligned
<1>2. n \div MB \in Nat /\ n = MB * (n \div MB) + (n % MB)
    BY <1>1
<1> DEFINE q == n \div MB
<1>3. q \in Nat /\ n = MB * q
    BY <1>1, <1>2
<1> HIDE DEF q
<1>4. (n > 0 => q > 0) /\ (n = 0 => q = 0)
    BY <1>1, <1>3
<1> QED
    BY <1>3, <1>4 DEF Cells, q

LEMMA CellsOfBlock ==
    ASSUME NEW b \in BlockRec, Aligned(b.at), Aligned(b.len)
    PROVE  CellsOf(b) = AlignedIn(Span(b))
<1>1. b.at \in Nat /\ b.len \in Nat
    BY DEF BlockRec
<1>2. Cells(b.len) \in Nat /\ b.len = MB * Cells(b.len)
    BY <1>1, CellCount
<1>3. RowOf(b.at, Cells(b.len)) = AlignedIn(Run(b.at, b.len))
    BY <1>1, <1>2, RowIsRun
<1> QED
    BY <1>3 DEF CellsOf, RowOf, Span, Run

LEMMA AllAligned == AllCells = AlignedIn(HeapRange) /\ IsFiniteSet(AllCells) /\ minheap \in AllCells
<1> DEFINE b == Block(minheap, maxheap - minheap)
<1>1. /\ minheap \in Nat /\ maxheap \in Nat /\ minheap < maxheap /\ Aligned(minheap) /\ Aligned(maxheap)
    BY MemoryAssumption DEF Aligned
<1>2. maxheap - minheap \in Nat /\ Aligned(maxheap - minheap)
    <2>1. maxheap >= minheap
        BY <1>1
    <2> QED
        BY <1>1, <2>1, AlignedSums
<1>3. b.at = minheap /\ b.len = maxheap - minheap /\ b \in BlockRec
    BY <1>1, <1>2 DEF Block, BlockRec
<1>4. Span(b) = HeapRange
    BY <1>1, <1>2, <1>3 DEF Span, HeapRange
<1>5. AllCells = AlignedIn(HeapRange)
    <2> HIDE DEF b
    <2>1. CellsOf(b) = AlignedIn(Span(b))
        BY <1>1, <1>2, <1>3, CellsOfBlock
    <2> QED
        BY <1>4, <2>1 DEF AllCells, b
<1>6. IsFiniteSet(HeapRange)
    BY <1>1, FS_Interval DEF HeapRange
<1>7. IsFiniteSet(AlignedIn(HeapRange))
    BY <1>6, FS_Subset DEF AlignedIn
<1>8. minheap \in HeapRange
    BY <1>1 DEF HeapRange
<1> QED
    BY <1>1, <1>5, <1>7, <1>8 DEF AlignedIn

LEMMA CellsOfList ==
    ASSUME NEW bl, ListOK(bl)
    PROVE  UNION {CellsOf(b) : b \in ToSet(bl)} = AlignedIn(Covered(bl))
<1>1. ASSUME NEW i \in DOMAIN bl PROVE CellsOf(bl[i]) = AlignedIn(Span(bl[i]))
    BY ListFacts, CellsOfBlock DEF BlockOK
<1>2. ToSet(bl) = {bl[i] : i \in DOMAIN bl}
    BY DEF ToSet
<1>3. ASSUME NEW a
      PROVE  a \in UNION {CellsOf(b) : b \in ToSet(bl)} <=> \E i \in DOMAIN bl : a \in CellsOf(bl[i])
    BY <1>2
<1>4. ASSUME NEW a
      PROVE  a \in AlignedIn(Covered(bl)) <=> \E i \in DOMAIN bl : a \in AlignedIn(Span(bl[i]))
    BY DEF AlignedIn, Covered
<1> QED
    BY <1>1, <1>3, <1>4

(* A row of free cells is in one block, for blocks of the list never touch. *)
LEMMA NextToBlock ==
    ASSUME NEW bl, ListOK(bl), NEW i \in DOMAIN bl, NEW a, a \in Span(bl[i]), Aligned(a),
           a + MB \in Covered(bl)
    PROVE  a + MB \in Span(bl[i])
<1>1. /\ bl[i].at \in Nat /\ bl[i].len \in Nat /\ BlockOK(bl[i]) /\ MB \in Nat
      /\ \A j \in DOMAIN bl : bl[j].at \in Nat /\ bl[j].len \in Nat
      /\ \A j, m \in DOMAIN bl : j < m => bl[j].at + bl[j].len < bl[m].at
      /\ \A j \in DOMAIN bl : j \in Nat
    BY ListFacts, MemoryAssumption
<1> DEFINE e == bl[i].at + bl[i].len
<1>2. a \in Nat /\ e \in Nat /\ a < e /\ bl[i].at <= a /\ Aligned(e)
    <2>1. a \in Nat /\ e \in Nat /\ a < e /\ bl[i].at <= a
        BY <1>1 DEF Span
    <2>2. Aligned(bl[i].at) /\ Aligned(bl[i].len)
        BY <1>1 DEF BlockOK
    <2>3. Aligned(bl[i].at + bl[i].len)
        BY <1>1, <2>2, AlignedSums
    <2> QED
        BY <2>1, <2>3
<1>3. a + MB <= e
    <2> HIDE DEF e
    <2> QED
        BY <1>2, AlignedSums
<1>4. PICK m \in DOMAIN bl : a + MB \in Span(bl[m])
    BY DEF Covered
<1>5. bl[m].at <= a + MB /\ a + MB < bl[m].at + bl[m].len
    BY <1>1, <1>2, <1>4 DEF Span
<1>6. ~(i < m)
    <2>1. i < m => e < bl[m].at
        BY <1>1
    <2> HIDE DEF e
    <2> QED
        BY <1>1, <1>2, <1>3, <1>5, <2>1
<1>7. ~(m < i)
    <2>1. m < i => bl[m].at + bl[m].len < bl[i].at
        BY <1>1
    <2> QED
        BY <1>1, <1>2, <1>5, <2>1
<1>8. m = i
    BY <1>1, <1>6, <1>7
<1> QED
    BY <1>4, <1>8

LEMMA RowInBlock ==
    ASSUME NEW bl, ListOK(bl), NEW c \in Nat, NEW k \in Nat, k > 0, RowOf(c, k) \subseteq AlignedIn(Covered(bl))
    PROVE  \E i \in DOMAIN bl : bl[i].len >= MB * k
<1>1. MB \in Nat \ {0} /\ minheap \in Nat
    BY MemoryAssumption
<1>2. ASSUME NEW j \in Nat, j < k PROVE c + MB * j \in Covered(bl) /\ Aligned(c + MB * j)
    <2>1. j \in 0..(k - 1) /\ j * MB = MB * j
        BY <1>1, <1>2
    <2>2. c + j * MB \in RowOf(c, k)
        BY <2>1 DEF RowOf
    <2> QED
        BY <2>1, <2>2 DEF AlignedIn
<1>3. c + MB * 0 = c
    BY <1>1
<1>4. PICK i \in DOMAIN bl : c \in Span(bl[i])
    <2>1. c + MB * 0 \in Covered(bl)
        BY <1>2
    <2> QED
        BY <1>3, <2>1 DEF Covered
<1> DEFINE At(j) == c + MB * j
           Good == {j \in Nat : j < k => At(j) \in Span(bl[i])}
<1>5. 0 \in Good
    BY <1>3, <1>4
<1>6. \A j \in Nat : j \in Good => j + 1 \in Good
    <2> SUFFICES ASSUME NEW j \in Nat, j \in Good, j + 1 < k PROVE At(j + 1) \in Span(bl[i])
        OBVIOUS
    <2>1. At(j + 1) = At(j) + MB
        BY <1>1
    <2>2. j < k /\ j + 1 \in Nat
        OBVIOUS
    <2>3. At(j) \in Span(bl[i]) /\ Aligned(At(j)) /\ At(j + 1) \in Covered(bl)
        BY <1>2, <2>2
    <2> HIDE DEF At, Good
    <2> QED
        BY <2>1, <2>3, NextToBlock
<1>7. \A j \in Nat : j \in Good
    <2> HIDE DEF Good
    <2> QED
        BY <1>5, <1>6, NaturalInduction
<1>8. At(k - 1) \in Span(bl[i]) /\ Aligned(At(k - 1)) /\ k - 1 \in Nat
    <2>1. k - 1 \in Nat /\ k - 1 < k
        OBVIOUS
    <2>2. k - 1 \in Good
        <3> HIDE DEF Good
        <3> QED
            BY <1>7, <2>1
    <2> QED
        BY <1>2, <2>1, <2>2
<1>9. At(k - 1) + MB = c + MB * k
    BY <1>1
<1> HIDE DEF At
<1>10. bl[i].at \in Nat /\ bl[i].len \in Nat /\ Aligned(bl[i].at + bl[i].len)
    <2>1. bl[i].at \in Nat /\ bl[i].len \in Nat /\ BlockOK(bl[i])
        BY ListFacts
    <2> QED
        BY <2>1, AlignedSums DEF BlockOK
<1> DEFINE e == bl[i].at + bl[i].len
<1>11. e \in Nat /\ Aligned(e) /\ At(k - 1) \in Nat /\ At(k - 1) < e /\ bl[i].at <= c
    BY <1>4, <1>8, <1>10 DEF Span
<1>12. At(k - 1) + MB <= e
    <2> HIDE DEF e
    <2> QED
        BY <1>8, <1>11, AlignedSums
<1>13. c + MB * k <= bl[i].at + bl[i].len
    BY <1>9, <1>12
<1>14. MB * k \in Nat
    BY <1>1
<1> QED
    BY <1>10, <1>11, <1>13, <1>14

(* What the steps of the memory are in terms of cells. *)
(* What HeapSpec lets a step do as long as nothing is lost track of. *)
FreeStep ==
    \/ asked'.cells \in Nat /\ (Heap!Met(asked'.cells) \/ Heap!Refused(asked'.cells))
    \/ Heap!Freed

LEMMA HeapMet ==
    ASSUME MemInv, NEW n \in Nat, Aligned(n), NEW lo, Taken(heap, heap', lo, n),
           asked' = [cells |-> Cells(n), met |-> TRUE]
    PROVE  FreeStep
<1> DEFINE k == Cells(n)
           c == IF n = 0 THEN minheap ELSE lo
<1>1. k \in Nat /\ n = MB * k /\ (n = 0 => k = 0)
    BY CellCount
<1>2. /\ HeapOK(heap') /\ lo \in Nat /\ Aligned(lo) /\ minheap <= lo /\ lo + n <= maxheap
      /\ Run(lo, n) \subseteq Covered(heap.blocks)
      /\ Covered(heap'.blocks) = Covered(heap.blocks) \ Run(lo, n)
    BY DEF Taken
<1>3. FreeCells = AlignedIn(Covered(heap.blocks)) /\ FreeCells' = AlignedIn(Covered(heap'.blocks))
    <2>1. ListOK(heap.blocks) /\ ListOK(heap'.blocks)
        BY <1>2 DEF MemInv, HeapOK
    <2>2. UNION {CellsOf(b) : b \in ToSet(heap'.blocks)} = AlignedIn(Covered(heap'.blocks))
        BY <2>1, CellsOfList
    <2> QED
        BY <2>1, <2>2, CellsOfList DEF FreeCells
<1>4. c \in AllCells /\ RowOf(c, k) = AlignedIn(Run(lo, n))
    <2>1. CASE n = 0
        <3>1. RowOf(c, k) = {} /\ Run(lo, n) = {}
            BY <1>1, <1>2, <2>1 DEF RowOf, Run
        <3> QED
            BY <2>1, <3>1, AllAligned DEF AlignedIn
    <2>2. CASE n # 0
        <3>1. lo \in HeapRange
            BY <1>2, <2>2, MemoryAssumption DEF HeapRange
        <3>2. lo \in AllCells
            BY <1>2, <3>1, AllAligned DEF AlignedIn
        <3>3. RowOf(lo, k) = AlignedIn(Run(lo, n))
            BY <1>1, <1>2, RowIsRun
        <3> QED
            BY <2>2, <3>2, <3>3
    <2> QED
        BY <2>1, <2>2
<1> HIDE DEF c, k
<1>5. RowOf(c, k) \subseteq FreeCells /\ FreeCells' = FreeCells \ RowOf(c, k)
    BY <1>2, <1>3, <1>4 DEF AlignedIn
<1>6. asked'.cells = k
    BY DEF k
<1>7. Heap!Met(k)
    BY <1>4, <1>5 DEF Heap!Met, Heap!Row, RowOf, FreeCells, AllCells, k
<1> QED
    BY <1>1, <1>6, <1>7 DEF FreeStep

LEMMA HeapRefused ==
    ASSUME MemInv, NEW got, NEW nbytes \in 0..(WORD - 1), NoneTaken(heap, got, nbytes), heap' = heap,
           asked' = [cells |-> Cells(roundmb(nbytes)), met |-> FALSE]
    PROVE  FreeStep
<1> DEFINE n == roundmb(nbytes)
           k == Cells(n)
<1>1. n \in Nat /\ Aligned(n)
    BY Roundmb, MemoryAssumption DEF Aligned
<1>2. nbytes = 0 => n = 0
    <2>1. 0 % MB = 0
        BY MemoryAssumption
    <2> QED
        BY <2>1, Roundmb
<1> HIDE DEF n
<1>3. k \in Nat /\ n = MB * k /\ (n = 0 => k = 0)
    BY <1>1, CellCount
<1> HIDE DEF k
<1>4. ListOK(heap.blocks) /\ FreeCells = AlignedIn(Covered(heap.blocks))
    BY CellsOfList DEF MemInv, HeapOK, FreeCells
<1>5. ASSUME k > 0, NEW c \in FreeCells, RowOf(c, k) \subseteq FreeCells PROVE FALSE
    <2>1. c \in Nat
        <3>1. c \in HeapRange
            BY <1>4, CoveredFacts DEF AlignedIn
        <3> QED
            BY <3>1, MemoryAssumption DEF HeapRange
    <2>2. PICK i \in DOMAIN heap.blocks : heap.blocks[i].len >= MB * k
        BY <1>3, <1>4, <1>5, <2>1, RowInBlock
    <2>3. nbytes # 0
        BY <1>2, <1>3, <1>5
    <2>4. heap.blocks[i].len < n
        BY <2>3 DEF NoneTaken, n
    <2>5. heap.blocks[i].len \in Nat
        BY <1>4, ListFacts
    <2> QED
        BY <1>1, <1>3, <2>2, <2>4, <2>5
<1>6. asked' = [cells |-> k, met |-> FALSE] /\ asked'.cells = k /\ FreeCells' = FreeCells
    BY DEF k, n, FreeCells
<1>7. Heap!Refused(k)
    <2>1. k > 0 => \A c \in FreeCells : ~(RowOf(c, k) \subseteq FreeCells)
        BY <1>5
    <2> QED
        BY <1>6, <2>1 DEF Heap!Refused, Heap!Row, RowOf, FreeCells
<1> QED
    BY <1>3, <1>6, <1>7 DEF FreeStep

LEMMA HeapFreed ==
    ASSUME MemInv, NEW lo, NEW n, RunOK(lo, n), Run(lo, n) \cap Covered(heap.blocks) = {},
           Returned(heap, heap', lo, n), asked' = asked
    PROVE  FreeStep
<1> DEFINE hi  == lo + (n - MB)
           row == {a \in AllCells : lo <= a /\ a <= hi}
<1>1. /\ lo \in Nat /\ n \in Nat /\ n > 0 /\ Aligned(lo) /\ Aligned(n) /\ minheap <= lo /\ lo + n <= maxheap
      /\ MB \in Nat \ {0} /\ minheap \in Nat /\ maxheap \in Nat
    BY MemoryAssumption DEF RunOK
<1>2. n - MB \in Nat /\ Aligned(n - MB)
    <2>1. MB <= n /\ MB % MB = 0
        BY <1>1, UnitIsWords
    <2>2. Aligned(MB) /\ n >= MB /\ MB \in Nat
        BY <1>1, <2>1 DEF Aligned
    <2> QED
        BY <1>1, <2>2, AlignedSums
<1>3. hi \in Nat /\ Aligned(hi) /\ lo <= hi /\ hi + MB = lo + n /\ Aligned(lo + n)
    BY <1>1, <1>2, AlignedSums
<1>4. \A a \in Nat : Aligned(a) => (a <= hi <=> a < lo + n)
    <2> SUFFICES ASSUME NEW a \in Nat, Aligned(a) PROVE a <= hi <=> a < lo + n
        OBVIOUS
    <2>1. ASSUME a < lo + n PROVE a + MB <= lo + n
        <3> DEFINE e == lo + n
        <3>1. e \in Nat /\ Aligned(e) /\ a < e
            BY <1>1, <1>3, <2>1
        <3> HIDE DEF e
        <3>2. a + MB <= e
            BY <3>1, AlignedSums
        <3> QED
            BY <3>2 DEF e
    <2> QED
        BY <1>1, <1>3, <2>1
<1>5. lo \in AllCells /\ hi \in AllCells
    <2>1. lo \in HeapRange /\ hi \in HeapRange
        BY <1>1, <1>3 DEF HeapRange
    <2> HIDE DEF hi
    <2> QED
        BY <1>1, <1>3, <2>1, AllAligned DEF AlignedIn
<1> HIDE DEF hi
<1>6. row = AlignedIn(Run(lo, n))
    <2>1. ASSUME NEW a PROVE a \in row <=> a \in AlignedIn(Run(lo, n))
        <3>1. a \in row <=> a \in HeapRange /\ Aligned(a) /\ lo <= a /\ a <= hi
            BY AllAligned DEF AlignedIn
        <3>2. a \in AlignedIn(Run(lo, n)) <=> a \in HeapRange /\ Aligned(a) /\ lo <= a /\ a < lo + n
            BY <1>1 DEF AlignedIn, Run, HeapRange
        <3>3. a \in HeapRange => a \in Nat
            BY <1>1 DEF HeapRange
        <3> QED
            BY <1>4, <3>1, <3>2, <3>3
    <2> QED
        BY <2>1
<1>7. HeapOK(heap') /\ Covered(heap'.blocks) = Covered(heap.blocks) \cup Run(lo, n)
    BY DEF Returned
<1>8. FreeCells = AlignedIn(Covered(heap.blocks)) /\ FreeCells' = AlignedIn(Covered(heap'.blocks))
    <2>1. ListOK(heap.blocks) /\ ListOK(heap'.blocks)
        BY <1>7 DEF MemInv, HeapOK
    <2>2. UNION {CellsOf(b) : b \in ToSet(heap'.blocks)} = AlignedIn(Covered(heap'.blocks))
        BY <2>1, CellsOfList
    <2> QED
        BY <2>1, <2>2, CellsOfList DEF FreeCells
<1>9. row \cap FreeCells = {} /\ FreeCells' = FreeCells \cup row
    BY <1>6, <1>7, <1>8 DEF AlignedIn
<1>10. Heap!Freed
    <2>1. Heap!Between(lo, hi) = row
        BY DEF Heap!Between, AllCells
    <2> HIDE DEF row
    <2>2. /\ lo <= hi /\ Heap!Between(lo, hi) \cap FreeCells = {}
          /\ FreeCells' = FreeCells \cup Heap!Between(lo, hi)
        BY <1>3, <1>9, <2>1
    <2>3. \E c, d \in AllCells : /\ c <= d /\ Heap!Between(c, d) \cap FreeCells = {}
                                 /\ FreeCells' = FreeCells \cup Heap!Between(c, d)
        BY <1>5, <2>2
    <2> QED
        BY <2>3 DEF Heap!Freed, FreeCells, AllCells
<1> QED
    BY <1>10 DEF FreeStep

LEMMA OwnerRun ==
    ASSUME NEW F, NEW O, Partition(F, O), NEW x \in O, NEW lo, NEW n, x[3] = Block(lo, n), n > 0
    PROVE  RunOK(lo, n) /\ Run(lo, n) \cap F = {}
<1>1. Owned(x[3]) /\ Span(x[3]) \cap F = {} /\ x[3].at = lo /\ x[3].len = n
    BY DEF Partition, Block
<1> QED
    BY <1>1 DEF RunOK, Owned, BlockRec, Span, Run

LEMMA HeapStep ==
    ASSUME MemInv, MemNext, Intact'
    PROVE  FreeStep \/ UNCHANGED <<FreeCells, asked>>
<1>1. HeapOK(heap) /\ MemTypes /\ Partition(Covered(heap.blocks), OwnersOf(held, lost, stacks))
      /\ \A c \in held : c.len = roundmb(c.asked)
    BY DEF MemInv
<1>2. ASSUME NEW nbytes \in Requests, Allocate(nbytes) PROVE FreeStep
    <2> DEFINE got == GetMem(heap, nbytes)
               n   == roundmb(nbytes)
    <2>1. nbytes \in 0..(WORD - 1)
        BY MemoryAssumption
    <2>2. n \in Nat /\ Aligned(n)
        BY <2>1, Roundmb, MemoryAssumption DEF Aligned
    <2>3. heap' = got.heap /\ asked' = [cells |-> Cells(n), met |-> got.at # NoMem]
        BY <1>2 DEF Allocate
    <2>4. \/ NoneTaken(heap, got, nbytes)
          \/ got.at \in Nat /\ Taken(heap, got.heap, got.at, n)
        BY <1>1, <2>1, Granted
    <2> HIDE DEF got, n
    <2>5. CASE NoneTaken(heap, got, nbytes)
        <3>1. heap' = heap /\ asked' = [cells |-> Cells(roundmb(nbytes)), met |-> FALSE]
            BY <2>3, <2>5 DEF NoneTaken, n
        <3> QED
            BY <2>1, <2>5, <3>1, HeapRefused
    <2>6. CASE got.at \in Nat /\ Taken(heap, got.heap, got.at, n)
        <3>1. got.at # NoMem
            BY <2>6, MemoryAssumption
        <3>2. Taken(heap, heap', got.at, n) /\ asked' = [cells |-> Cells(n), met |-> TRUE]
            BY <2>3, <2>6, <3>1
        <3> QED
            BY <2>2, <3>2, HeapMet
    <2> QED
        BY <2>4, <2>5, <2>6
<1>3. ASSUME NEW b \in held, Release(b), b.len > 0 PROVE FreeStep
    <2> DEFINE freed == FreeMem(heap, b.at, b.asked)
               n     == roundmb(b.asked)
    <2>1. b.asked \in 0..(WORD - 1) /\ b.asked # 0 /\ b.len = n /\ b.len > 0
        <3>1. b \in [at : Nat, len : Nat, asked : 1..(WORD - 1)]
            BY <1>1 DEF MemTypes
        <3>2. WORD \in Nat
            BY MemoryAssumption
        <3> QED
            BY <1>1, <1>3, <3>1, <3>2 DEF Release
    <2>2. heap' = freed.heap /\ asked' = asked
        BY <1>3 DEF Release
    <2>3. HeldOwner(b) \in OwnersOf(held, lost, stacks) /\ HeldOwner(b)[3] = Block(b.at, n)
        BY <2>1 DEF HeldOwner, OwnersOf
    <2>4. RunOK(b.at, n) /\ Run(b.at, n) \cap Covered(heap.blocks) = {}
        <3> HIDE DEF n
        <3>1. n > 0
            BY <2>1
        <3> QED
            BY ONLY <1>1, <2>3, <3>1, OwnerRun
    <2>5. Returned(heap, freed.heap, b.at, n)
        BY <1>1, <2>1, <2>4, Freeing
    <2> HIDE DEF freed, n
    <2> QED
        BY <2>2, <2>4, <2>5, HeapFreed
<1>4. ASSUME NEW p \in Slot, KillStk(p) PROVE FreeStep \/ UNCHANGED <<FreeCells, asked>>
    <2> DEFINE s     == stacks[p]
               n     == roundmb(s.len)
               lo    == StkLow(s.base, s.len)
               freed == FreeMem(heap, lo, n)
               x     == StackOwner(p, s)
    <2>1. s # NoMem /\ heap' = freed.heap /\ asked' = asked
        BY <1>4 DEF KillStk, FreeStk
    <2>2. n \in 0..(WORD - 1) /\ n % MB = 0
        <3>1. s \in [base : Nat, len : 1..(WORD - 1)]
            BY <1>1, <2>1 DEF MemTypes
        <3>2. s.len \in 0..(WORD - 1)
            BY <3>1, MemoryAssumption
        <3> HIDE DEF s
        <3> QED
            BY <3>2, Roundmb
    <2>3. roundmb(n) = n
        <3> HIDE DEF n
        <3> QED
            BY <2>2, Roundmb
    <2>4. x \in OwnersOf(held, lost, stacks) /\ x[3] = Block(lo, n)
        BY <2>1 DEF StackOwner, StkBlock, OwnersOf
    <2>5. CASE n = 0
        <3>1. heap' = heap
            BY <2>1, <2>5 DEF FreeMem
        <3> QED
            BY <2>1, <3>1 DEF FreeCells
    <2>6. CASE n # 0
        <3>1. n > 0
            BY <2>2, <2>6
        <3>2. RunOK(lo, n) /\ Run(lo, n) \cap Covered(heap.blocks) = {}
            <4> HIDE DEF n, lo, x
            <4> QED
                BY ONLY <1>1, <2>4, <3>1, OwnerRun
        <3>3. Returned(heap, freed.heap, lo, n)
            <4> HIDE DEF n, lo
            <4>1. RunOK(lo, roundmb(n)) /\ ~ \E a \in Run(lo, roundmb(n)) : a \in Covered(heap.blocks)
                BY <2>3, <3>2
            <4>2. Returned(heap, freed.heap, lo, roundmb(n))
                BY <1>1, <2>2, <2>6, <4>1, Freeing
            <4> QED
                BY <2>3, <4>2
        <3> HIDE DEF freed, n, lo
        <3> QED
            BY <2>1, <3>2, <3>3, HeapFreed
    <2> QED
        BY <2>5, <2>6
<1>5. ASSUME NEW p \in Slot, NEW ssize \in StackSizes, NEW priority \in {0, 1}, CreateStk(p, ssize, priority)
      PROVE  FreeStep
    <2> DEFINE len == StkLen(ssize)
               got == GetStk(heap, len)
               n   == roundmb(len)
    <2>1. len \in 0..(WORD - 1)
        BY StkLenRange
    <2>2. n \in Nat /\ Aligned(n)
        <3> HIDE DEF len
        <3> QED
            BY <2>1, Roundmb, MemoryAssumption DEF Aligned
    <2>3. heap' = got.heap /\ asked' = [cells |-> Cells(n), met |-> got.at # NoMem]
        BY <1>5 DEF CreateStk, StkLen
    <2>4. \/ NoneTaken(heap, got, len)
          \/ got.at \in Nat /\ Taken(heap, got.heap, StkLow(got.at, len), n)
        <3> HIDE DEF len
        <3> QED
            BY <1>1, <2>1, GrantedStk
    <2> HIDE DEF got, n, len
    <2>5. CASE NoneTaken(heap, got, len)
        <3>1. heap' = heap /\ asked' = [cells |-> Cells(roundmb(len)), met |-> FALSE]
            BY <2>3, <2>5 DEF NoneTaken, n
        <3> QED
            BY <2>1, <2>5, <3>1, HeapRefused
    <2>6. CASE got.at \in Nat /\ Taken(heap, got.heap, StkLow(got.at, len), n)
        <3>1. got.at # NoMem
            BY <2>6, MemoryAssumption
        <3>2. Taken(heap, heap', StkLow(got.at, len), n) /\ asked' = [cells |-> Cells(n), met |-> TRUE]
            BY <2>3, <2>6, <3>1
        <3> QED
            BY <2>2, <3>2, HeapMet
    <2> QED
        BY <2>4, <2>5, <2>6
<1>6. ASSUME NEW b \in held, Release(b), ~(b.len > 0) PROVE UNCHANGED <<FreeCells, asked>>
    <2>1. heap' = heap
        BY <1>6, ReleaseNothing
    <2> QED
        BY <1>6, <2>1 DEF FreeCells, Release
<1> QED
    BY <1>2, <1>3, <1>4, <1>5, <1>6 DEF MemNext

(* The free list implements the set of free cells: a request is met from a row of *)
(* free cells whenever there is one, and what is given back is free again.      *)
THEOREM ListIsHeap == MemSpec => ImplementsHeap
<1>1. MemInit => Heap!Init
    <2> SUFFICES ASSUME MemInit PROVE Heap!Init
        OBVIOUS
    <2>1. ToSet(heap.blocks) = {Block(minheap, maxheap - minheap)}
        <3> DEFINE b == Block(minheap, maxheap - minheap)
        <3> HIDE DEF b
        <3>1. heap.blocks = <<b>>
            BY DEF MemInit, b
        <3>2. ToSet(<<b>>) = {b}
            BY DEF ToSet
        <3> QED
            BY <3>1, <3>2 DEF b
    <2>2. FreeCells = AllCells
        BY <2>1 DEF FreeCells, AllCells
    <2>3. Intact
        BY InitMemInv, InvIntact
    <2> QED
        BY <2>2, <2>3 DEF MemInit, Heap!Init, FreeCells, AllCells
<1>2. (Intact => MemInv) /\ MemNext => [Heap!Next]_<<FreeCells, asked, Intact>>
    <2> SUFFICES ASSUME Intact => MemInv, MemNext PROVE [Heap!Next]_<<FreeCells, asked, Intact>>
        OBVIOUS
    <2>1. Intact /\ MemInv
        BY DEF MemNext
    <2>2. CASE ~(Intact')
        <3>1. PICK b \in held : Release(b)
            BY <2>1, <2>2, Breaking
        <3>2. asked' = asked
            BY <3>1 DEF Release
        <3> QED
            BY <2>1, <2>2, <3>2 DEF Heap!Next, Heap!Ruined
    <2>3. CASE Intact'
        <3>1. FreeStep \/ UNCHANGED <<FreeCells, asked>>
            BY <2>1, <2>3, HeapStep
        <3>2. Intact' = Intact
            BY <2>1, <2>3 DEF Intact
        <3>3. FreeStep => Heap!Next
            BY <2>1, <2>3 DEF FreeStep, Heap!Next
        <3> QED
            BY <3>1, <3>2, <3>3
    <2> QED
        BY <2>2, <2>3
<1>3. UNCHANGED memVars => UNCHANGED <<FreeCells, asked, Intact>>
    BY DEF memVars, FreeCells, Intact
<1>4. (Intact => MemInv) /\ [MemNext]_memVars =>
        [Heap!Next]_<<UNION {CellsOf(b) : b \in ToSet(heap.blocks)}, asked, Intact>>
    BY <1>2, <1>3 DEF FreeCells
<1> QED
    BY <1>1, <1>4, MemoryInvariant, PTL DEF MemSpec, ImplementsHeap, Heap!Spec
=============================================================================
