----------------------------- MODULE QueueProofs -----------------------------
(***************************************************************************)
(* What the queue operations do to a queue's members, its length and its   *)
(* freedom from duplicates, whatever the keys are: a wrong key misplaces a *)
(* process but never loses or doubles one.                                 *)
(*                                                                         *)
(* Before that, sums over finite sets, which the models write as folds:    *)
(* the sum of a set is what any of its elements contributes and the sum of *)
(* the others, whichever element the fold happens to take first.  A fold   *)
(* is a recursive function, and all that is known of one is that it is     *)
(* SOME function that satisfies its equation.  That there is one, and what *)
(* it computes, is shown by induction in the form of a set that contains   *)
(* what it must.                                                           *)
(***************************************************************************)
EXTENDS ProcQueue, SequenceTheorems, FiniteSetTheorems, TLAPS

(* g is the sum of f over each subset of S. *)
Sums(g, f, S) ==
    g = [s \in SUBSET S |->
            IF s = {} THEN 0 ELSE LET x == CHOOSE y \in s : TRUE IN f[x] + g[s \ {x}]]

-----------------------------------------------------------------------------
(* Among subsets of a finite set there is always a smallest one. *)
LEMMA SmallestSubset ==
    ASSUME NEW S, IsFiniteSet(S), NEW T \in SUBSET (SUBSET S), T # {}
    PROVE  \E x \in T : \A y \in T : y \subseteq x => y = x
<1>1. IsWellFoundedOn(StrictSubsetOrdering(S), SUBSET S)
    BY FS_StrictSubsetOrderingWellFounded, FS_FiniteSubsetsOfFinite
<1>2. \E x \in T : \A y \in T : ~ (<<y, x>> \in StrictSubsetOrdering(S))
    BY <1>1, WFMin
<1>3. \A x, y \in SUBSET S : y \subseteq x /\ y # x => <<y, x>> \in StrictSubsetOrdering(S)
    BY DEF StrictSubsetOrdering
<1> QED
    BY <1>2, <1>3

(* Induction over the subsets of a finite set. *)
LEMMA SubsetInduction ==
    ASSUME NEW S, IsFiniteSet(S), NEW Good,
           \A s \in SUBSET S : (\A t \in SUBSET s : t # s => t \in Good) => s \in Good
    PROVE  \A s \in SUBSET S : s \in Good
<1> DEFINE Bad == {s \in SUBSET S : s \notin Good}
<1> SUFFICES ASSUME Bad # {} PROVE FALSE
    OBVIOUS
<1>1. Bad \in SUBSET (SUBSET S)
    OBVIOUS
<1>2. PICK s \in Bad : \A t \in Bad : t \subseteq s => t = s
    <2> HIDE DEF Bad
    <2> QED
        BY <1>1, SmallestSubset
<1>3. s \in SUBSET S /\ s \notin Good
    OBVIOUS
<1>4. PICK t \in SUBSET s : t # s /\ t \notin Good
    BY <1>3
<1>5. t \in Bad /\ t \subseteq s
    BY <1>4
<1> QED
    BY <1>2, <1>4, <1>5

(* Induction over the natural numbers. *)
LEMMA NaturalInduction ==
    ASSUME NEW Good, 0 \in Good, \A n \in Nat : n \in Good => n + 1 \in Good
    PROVE  \A n \in Nat : n \in Good
<1> SUFFICES ASSUME NEW k \in Nat PROVE k \in Good
    OBVIOUS
<1> DEFINE Fine == {s \in SUBSET (0..k) : \A m \in 0..k : s = 0..m => m \in Good}
<1>1. IsFiniteSet(0..k)
    BY FS_Interval
<1>2. ASSUME NEW s \in SUBSET (0..k), \A t \in SUBSET s : t # s => t \in Fine
      PROVE  s \in Fine
    <2> SUFFICES ASSUME NEW m \in 0..k, s = 0..m, m # 0 PROVE m \in Good
        OBVIOUS
    <2>1. /\ m - 1 \in 0..k /\ (m - 1) + 1 = m
          /\ 0..(m - 1) \in SUBSET s /\ m \in s /\ m \notin 0..(m - 1)
        OBVIOUS
    <2>2. 0..(m - 1) \in Fine
        BY <1>2, <2>1
    <2>3. m - 1 \in Good
        BY <2>1, <2>2
    <2> QED
        BY <2>1, <2>3
<1> DEFINE D == 0..k
<1>3. IsFiniteSet(D) /\ D \in SUBSET D
    BY <1>1
<1>4. \A s \in SUBSET D : (\A t \in SUBSET s : t # s => t \in Fine) => s \in Fine
    BY <1>2
<1>5. D \in Fine
    <2> HIDE DEF D, Fine
    <2> QED
        BY ONLY <1>3, <1>4, SubsetInduction
<1> QED
    BY <1>5

-----------------------------------------------------------------------------
(* For every function there is one that sums it. *)
LEMMA SumsExist ==
    ASSUME NEW f, NEW S, IsFiniteSet(S)
    PROVE  \E g : Sums(g, f, S)
<1> DEFINE Pick(s) == CHOOSE y \in s : TRUE
           Small(n) == {s \in SUBSET S : Cardinality(s) <= n}
           Eq(g, n) == g = [s \in Small(n) |-> IF s = {} THEN 0 ELSE f[Pick(s)] + g[s \ {Pick(s)}]]
           Good == {n \in Nat : \E g : Eq(g, n)}
<1>1. \A s \in SUBSET S : IsFiniteSet(s) /\ Cardinality(s) \in Nat /\ Cardinality(s) <= Cardinality(S)
    BY FS_Subset, FS_CardinalityType
<1>2. ASSUME NEW s \in SUBSET S, s # {}
      PROVE  /\ s \ {Pick(s)} \in SUBSET S
             /\ Cardinality(s \ {Pick(s)}) = Cardinality(s) - 1
    BY <1>1, <1>2, FS_RemoveElement
<1>3. \E g : Eq(g, 0)
    <2>1. \A s \in Small(0) : s = {}
        BY <1>1, FS_EmptySet
    <2> WITNESS [s \in Small(0) |-> 0]
    <2> QED
        BY <2>1
<1>4. ASSUME NEW n \in Nat, NEW g, Eq(g, n)
      PROVE  \E h : Eq(h, n + 1)
    <2> DEFINE h == [s \in Small(n + 1) |-> IF s = {} THEN 0 ELSE f[Pick(s)] + g[s \ {Pick(s)}]]
    <2>1. ASSUME NEW s \in Small(n + 1), s # {}
          PROVE  s \ {Pick(s)} \in Small(n) /\ s \ {Pick(s)} \in Small(n + 1)
        BY <1>1, <1>2, <2>1
    <2> HIDE DEF Pick
    <2>2. ASSUME NEW s \in Small(n)
          PROVE  s \in Small(n + 1) /\ h[s] = g[s]
        <3>1. s \in Small(n + 1)
            BY <1>1
        <3>2. g[s] = IF s = {} THEN 0 ELSE f[Pick(s)] + g[s \ {Pick(s)}]
            BY <1>4
        <3> QED
            BY <3>1, <3>2
    <2>3. Eq(h, n + 1)
        BY <2>1, <2>2
    <2> QED
        BY <2>3
<1>5. \A n \in Nat : n \in Good
    <2> HIDE DEF Eq
    <2>1. 0 \in Good
        BY <1>3
    <2>2. \A n \in Nat : n \in Good => n + 1 \in Good
        BY <1>4
    <2> HIDE DEF Good
    <2> QED
        BY <2>1, <2>2, NaturalInduction
<1>6. Cardinality(S) \in Nat /\ Small(Cardinality(S)) = SUBSET S
    BY <1>1, FS_CardinalityType
<1>7. PICK g : Eq(g, Cardinality(S))
    BY <1>5, <1>6
<1>8. Sums(g, f, S)
    BY <1>6, <1>7 DEF Sums
<1> QED
    BY <1>8

(* One step of a sum takes the element that CHOOSE takes. *)
LEMMA SumsStep ==
    ASSUME NEW g, NEW f, NEW S, Sums(g, f, S)
    PROVE  /\ g[{}] = 0
           /\ \A s \in SUBSET S : s # {} => \E x \in s : g[s] = f[x] + g[s \ {x}]
<1>1. g[{}] = 0
    BY DEF Sums
<1>2. ASSUME NEW s \in SUBSET S, s # {}
      PROVE  \E x \in s : g[s] = f[x] + g[s \ {x}]
    <2> DEFINE x == CHOOSE y \in s : TRUE
    <2>1. x \in s
        BY <1>2
    <2>2. g[s] = f[x] + g[s \ {x}]
        BY <1>2 DEF Sums
    <2> QED
        BY <2>1, <2>2
<1> QED
    BY <1>1, <1>2

(* What is known of a sum: *)
Adds(g, f, S) == \A s \in SUBSET S : g[s] \in Int /\ \A x \in s : g[s] = f[x] + g[s \ {x}]

(* Sums of integers are integers, and any element of a set may be the one that is
   added last. *)
LEMMA SumsSplit ==
    ASSUME NEW g, NEW f, NEW S, IsFiniteSet(S), Sums(g, f, S), \A x \in S : f[x] \in Int
    PROVE  Adds(g, f, S)
<1> DEFINE Good == {s \in SUBSET S : g[s] \in Int /\ \A x \in s : g[s] = f[x] + g[s \ {x}]}
<1>1. ASSUME NEW s \in SUBSET S, \A t \in SUBSET s : t # s => t \in Good
      PROVE  s \in Good
    <2>1. CASE s = {}
        BY <2>1, SumsStep
    <2>2. CASE s # {}
        <3>1. PICK y \in s : g[s] = f[y] + g[s \ {y}]
            BY <2>2, SumsStep
        <3>2. s \ {y} \in Good /\ f[y] \in Int
            BY <1>1
        <3>3. ASSUME NEW x \in s, x # y
              PROVE  g[s] = f[x] + g[s \ {x}]
            <4>1. s \ {x} \in Good /\ f[x] \in Int
                BY <1>1
            <4>2. g[s \ {y}] = f[x] + g[(s \ {y}) \ {x}]
                BY <3>2, <3>3
            <4>3. g[s \ {x}] = f[y] + g[(s \ {x}) \ {y}]
                BY <4>1, <3>3
            <4>4. (s \ {y}) \ {x} = (s \ {x}) \ {y} /\ (s \ {x}) \ {y} \in Good
                BY <1>1
            <4>5. g[(s \ {x}) \ {y}] \in Int
                BY <4>4
            <4> DEFINE gxy == g[(s \ {x}) \ {y}]
            <4>6. g[s \ {y}] = f[x] + gxy /\ g[s \ {x}] = f[y] + gxy /\ gxy \in Int
                BY <4>2, <4>3, <4>4, <4>5
            <4> HIDE DEF gxy, Good
            <4> QED
                BY <3>1, <3>2, <4>1, <4>6
        <3>4. g[s] \in Int
            BY <3>1, <3>2
        <3> QED
            BY <3>1, <3>3, <3>4
    <2> QED
        BY <2>1, <2>2
<1>2. \A s \in SUBSET S : s \in Good
    <2> HIDE DEF Good
    <2> QED
        BY <1>1, SubsetInduction
<1> QED
    BY <1>2 DEF Adds

(* A sum does not decrease when what its elements contribute does not.  In particular,
   sums of the same contributions are the same. *)
LEMMA SumsMonotonic ==
    ASSUME NEW g, NEW f, NEW S, IsFiniteSet(S), Sums(g, f, S), \A x \in S : f[x] \in Int,
           NEW h, NEW e, NEW T, IsFiniteSet(T), Sums(h, e, T), \A x \in T : e[x] \in Int,
           NEW U, U \subseteq S, U \subseteq T, \A x \in U : f[x] <= e[x]
    PROVE  g[U] <= h[U]
<1> DEFINE Good == {s \in SUBSET U : g[s] <= h[s]}
<1>3. Adds(g, f, S) /\ Adds(h, e, T)
    BY SumsSplit
<1>1. ASSUME NEW s \in SUBSET U, \A t \in SUBSET s : t # s => t \in Good
      PROVE  s \in Good
    <2>1. CASE s = {}
        <3>1. g[{}] = 0 /\ h[{}] = 0
            BY SumsStep
        <3> QED
            BY <2>1, <3>1
    <2>2. CASE s # {}
        <3>1. PICK x \in s : TRUE
            BY <2>2
        <3>2. s \in SUBSET S /\ s \in SUBSET T /\ s \ {x} \in SUBSET S /\ s \ {x} \in SUBSET T
            OBVIOUS
        <3>3. g[s] = f[x] + g[s \ {x}] /\ g[s \ {x}] \in Int
            BY <1>3, <3>2 DEF Adds
        <3>4. h[s] = e[x] + h[s \ {x}] /\ h[s \ {x}] \in Int
            BY <1>3, <3>2 DEF Adds
        <3>5. g[s \ {x}] <= h[s \ {x}]
            BY <1>1
        <3>6. f[x] \in Int /\ e[x] \in Int /\ f[x] <= e[x]
            BY <3>2
        <3> QED
            BY <3>3, <3>4, <3>5, <3>6
    <2> QED
        BY <2>1, <2>2
<1>2. IsFiniteSet(U)
    BY FS_Subset
<1>5. \A s \in SUBSET U : s \in Good
    <2> HIDE DEF Good
    <2> QED
        BY <1>1, <1>2, SubsetInduction
<1> QED
    BY <1>5

(* f contributes integers; f and e contribute the same; f contributes only on U. *)
Integral(f, S) == \A x \in S : f[x] \in Int
Same(f, e, U)  == \A x \in U : f[x] = e[x]
ZeroOff(f, S, U) == \A x \in S \ U : f[x] = 0

LEMMA SumsEqual ==
    ASSUME NEW S, IsFiniteSet(S), NEW g, NEW f, Sums(g, f, S), Integral(f, S),
           NEW h, NEW e, Sums(h, e, S), Integral(e, S), NEW U, U \subseteq S, Same(f, e, U)
    PROVE  g[U] = h[U]
<1>1. (\A x \in S : f[x] \in Int) /\ \A x \in S : e[x] \in Int
    BY DEF Integral
<1>2. (\A x \in U : f[x] <= e[x]) /\ \A x \in U : e[x] <= f[x]
    BY <1>1 DEF Same
<1>3. g[U] <= h[U]
    BY <1>1, <1>2, SumsMonotonic
<1>4. h[U] <= g[U]
    BY <1>1, <1>2, SumsMonotonic
<1>5. g[U] \in Int /\ h[U] \in Int
    BY <1>1, SumsSplit DEF Adds
<1> QED
    BY <1>3, <1>4, <1>5

(* Elements that contribute nothing may be left out. *)
LEMMA SumsZeros ==
    ASSUME NEW g, NEW f, NEW S, IsFiniteSet(S), Sums(g, f, S), Integral(f, S),
           NEW U, U \subseteq S, ZeroOff(f, S, U)
    PROVE  g[S] = g[U]
<1> DEFINE Good == {s \in SUBSET S : g[s] = g[s \cap U]}
<1>1. Adds(g, f, S)
    BY SumsSplit DEF Integral
<1>2. ASSUME NEW s \in SUBSET S, \A t \in SUBSET s : t # s => t \in Good
      PROVE  s \in Good
    <2>1. CASE s \subseteq U
        <3>1. s \cap U = s
            BY <2>1
        <3> QED
            BY <3>1
    <2>2. CASE ~(s \subseteq U)
        <3>1. PICK x \in s : x \notin U
            BY <2>2
        <3>2. g[s] = f[x] + g[s \ {x}] /\ f[x] = 0 /\ g[s \ {x}] \in Int
            BY <1>1, <3>1 DEF Adds, ZeroOff
        <3>3. s \ {x} \in Good /\ (s \ {x}) \cap U = s \cap U
            BY <1>2, <3>1
        <3>4. g[s \ {x}] = g[s \cap U]
            BY <3>3
        <3>5. g[s] = g[s \ {x}]
            BY <3>2
        <3> QED
            BY <3>4, <3>5
    <2> QED
        BY <2>1, <2>2
<1>3. \A s \in SUBSET S : s \in Good
    <2> HIDE DEF Good
    <2> QED
        BY <1>2, SubsetInduction
<1>4. S \in Good /\ S \cap U = U
    BY <1>3
<1> QED
    BY <1>4

SumOver(f, S) == MapThenSumSet(LAMBDA x : f[x], S)

(* A fold that adds up f is such a sum. *)
LEMMA FoldIsSum ==
    ASSUME NEW f, NEW S, IsFiniteSet(S)
    PROVE  \E g : Sums(g, f, S) /\ SumOver(f, S) = g[S]
<1> DEFINE Eq(g) == g = [s \in SUBSET S |->
                          IF s = {} THEN 0 ELSE f[CHOOSE y \in s : TRUE] + g[s \ {CHOOSE y \in s : TRUE}]]
           h == CHOOSE g : Eq(g)
<1>1. \E g : Eq(g)
    <2>1. PICK g : Sums(g, f, S)
        BY SumsExist
    <2>2. Eq(g)
        BY <2>1 DEF Sums
    <2> QED
        BY <2>2
<1>2. Eq(h)
    BY <1>1
<1>3. SumOver(f, S) = h[S]
    BY DEF SumOver, MapThenSumSet, MapThenFoldSet
<1> QED
    BY <1>2, <1>3 DEF Sums

-----------------------------------------------------------------------------
(* Queues *)
(* A walk along the queue stops somewhere between its head and its tail. *)
LEMMA PassedBound ==
    ASSUME NEW S, NEW q \in Seq(S), NEW past
    PROVE  Passed(q, past) \in 0..Len(q)
<1>1. Len(q) \in Nat
    OBVIOUS
<1>2. IsFiniteSet(1..Len(q)) /\ Cardinality(1..Len(q)) = Len(q)
    BY <1>1, FS_Interval, SMTT(30)
<1> DEFINE T == {i \in 1..Len(q) : \A j \in 1..i : j \in past}
<1>3. T \in SUBSET (1..Len(q))
    OBVIOUS
<1>4. IsFiniteSet(T) /\ Cardinality(T) <= Len(q)
    BY <1>2, <1>3, FS_Subset
<1>5. Cardinality(T) \in Nat
    BY <1>4, FS_CardinalityType
<1>6. QED
    BY <1>1, <1>4, <1>5, SMT DEF Passed

(* Linking one more node between two neighbours: who is where afterwards. *)
LEMMA InsertAtElements ==
    ASSUME NEW S, NEW q \in Seq(S), NEW item \in S, NEW i \in 1..(Len(q) + 1)
    PROVE  /\ InsertAt(q, i, item) \in Seq(S)
           /\ Len(InsertAt(q, i, item)) = Len(q) + 1
           /\ \A j \in 1..(Len(q) + 1) :
                InsertAt(q, i, item)[j] = IF j < i THEN q[j] ELSE IF j = i THEN item ELSE q[j - 1]
<1> DEFINE a == SubSeq(q, 1, i - 1)
           b == SubSeq(q, i, Len(q))
           r == InsertAt(q, i, item)
<1>1. Len(q) \in Nat /\ i \in Int
    OBVIOUS
<1>2. /\ a \in Seq(S) /\ Len(a) = i - 1
      /\ \A j \in 1..(i - 1) : a[j] = q[j]
    <2>1. \A j \in 1..(i - 1) : q[j] \in S
        BY <1>1, ElementOfSeq
    <2>2. QED
        BY <1>1, <2>1, SubSeqProperties, SMT
<1>3. /\ b \in Seq(S) /\ Len(b) = Len(q) - i + 1
      /\ \A j \in 1..(Len(q) - i + 1) : b[j] = q[i + j - 1]
    <2>1. \A j \in i..Len(q) : q[j] \in S
        BY <1>1, ElementOfSeq
    <2>2. QED
        BY <1>1, <2>1, SubSeqProperties, SMT
<1>4. r = (a \o <<item>>) \o b
    BY DEF InsertAt
<1>5. /\ r \in Seq(S) /\ Len(r) = Len(q) + 1
      /\ \A j \in 1..(Len(q) + 1) :
            r[j] = IF j < i THEN q[j] ELSE IF j = i THEN item ELSE q[j - 1]
    <2>1. <<item>> \in Seq(S) /\ Len(<<item>>) = 1 /\ <<item>>[1] = item
        OBVIOUS
    <2> DEFINE c == a \o <<item>>
    <2> HIDE DEF a, b
    <2>2. /\ c \in Seq(S) /\ Len(c) = Len(a) + 1
          /\ \A j \in 1..(Len(a) + 1) :
                c[j] = IF j <= Len(a) THEN a[j] ELSE <<item>>[j - Len(a)]
        BY <1>2, <2>1, ConcatProperties
    <2> HIDE DEF c
    <2>3. Len(c) = i /\ \A j \in 1..i : c[j] = IF j < i THEN q[j] ELSE item
        BY <1>1, <1>2, <2>1, <2>2, SMT
    <2>k. r = c \o b
        BY <1>4 DEF c
    <2> HIDE DEF r
    <2>4. /\ r \in Seq(S) /\ Len(r) = Len(c) + Len(b)
          /\ \A j \in 1..(Len(c) + Len(b)) :
                r[j] = IF j <= Len(c) THEN c[j] ELSE b[j - Len(c)]
        BY <1>3, <2>2, <2>k, ConcatProperties
    <2>5. Len(r) = Len(q) + 1
        BY <1>1, <1>3, <2>3, <2>4, SMT
    <2>6. ASSUME NEW j \in 1..(Len(q) + 1)
          PROVE  r[j] = IF j < i THEN q[j] ELSE IF j = i THEN item ELSE q[j - 1]
        <3>1. r[j] = IF j <= i THEN c[j] ELSE b[j - i]
            BY <1>1, <1>3, <2>3, <2>4, <2>6, SMT
        <3>2. CASE j <= i
            BY <3>1, <3>2, <1>1, <2>3, SMT
        <3>3. CASE j > i
            <4>1. b[j - i] = q[i + (j - i) - 1]
                BY <3>3, <1>1, <1>3, SMT
            <4>2. i + (j - i) - 1 = j - 1
                BY <1>1, SMT
            <4>3. QED
                BY <3>1, <3>3, <4>1, <4>2, <1>1, SMT
        <3>4. QED
            BY <3>2, <3>3, <1>1, SMT
    <2>7. QED
        BY <2>4, <2>5, <2>6
<1> QED
    BY <1>5

(* The queue has one more member, and no duplicates. *)
LEMMA InsertAtQueue ==
    ASSUME NEW S, NEW q \in Seq(S), NEW item \in S, NEW i \in 1..(Len(q) + 1)
    PROVE  /\ InsertAt(q, i, item) \in Seq(S)
           /\ Len(InsertAt(q, i, item)) = Len(q) + 1
           /\ ToSet(InsertAt(q, i, item)) = ToSet(q) \cup {item}
           /\ IsInjective(q) /\ item \notin ToSet(q) => IsInjective(InsertAt(q, i, item))
<1> DEFINE r == InsertAt(q, i, item)
<1>1. Len(q) \in Nat /\ i \in Int
    OBVIOUS
<1>5. /\ r \in Seq(S) /\ Len(r) = Len(q) + 1
      /\ \A j \in 1..(Len(q) + 1) :
            r[j] = IF j < i THEN q[j] ELSE IF j = i THEN item ELSE q[j - 1]
    BY InsertAtElements
<1> HIDE DEF r
<1>6. DOMAIN r = 1..(Len(q) + 1) /\ DOMAIN q = 1..Len(q)
    BY <1>5
<1>7. ToSet(r) = ToSet(q) \cup {item}
    <2>1. ASSUME NEW x \in ToSet(r), x # item PROVE x \in ToSet(q)
        <3>1. PICK j \in 1..(Len(q) + 1) : x = r[j]
            BY <1>6 DEF ToSet
        <3>2. PICK k \in 1..Len(q) : x = q[k]
            <4>1. CASE j < i
                BY <3>1, <4>1, <1>1, <1>5, SMT
            <4>2. CASE j > i
                <5>1. j - 1 \in 1..Len(q) /\ x = q[j - 1]
                    BY <3>1, <4>2, <1>1, <1>5, SMT
                <5>2. QED
                    BY <5>1
            <4>3. CASE j = i
                BY <2>1, <3>1, <4>3, <1>1, <1>5, SMT
            <4>4. QED
                BY <4>1, <4>2, <4>3, <1>1, SMT
        <3>3. QED
            BY <3>2, <1>6 DEF ToSet
    <2>2. ASSUME NEW x \in ToSet(q) PROVE x \in ToSet(r)
        <3>1. PICK j \in 1..Len(q) : x = q[j]
            BY <1>6 DEF ToSet
        <3>2. CASE j < i
            BY <3>1, <3>2, <1>1, <1>5, <1>6, SMTT(30) DEF ToSet
        <3>3. CASE j >= i
            <4>1. j + 1 \in 1..(Len(q) + 1) /\ r[j + 1] = x
                BY <3>1, <3>3, <1>1, <1>5, SMT
            <4>2. QED
                BY <4>1, <1>6 DEF ToSet
        <3>4. QED
            BY <3>1, <3>2, <3>3, <1>1, SMT
    <2>3. item \in ToSet(r)
        BY <1>1, <1>5, <1>6, SMT DEF ToSet
    <2>4. QED
        BY <2>1, <2>2, <2>3
<1>8. ASSUME IsInjective(q), item \notin ToSet(q) PROVE IsInjective(r)
    <2>1. \A j \in 1..Len(q) : q[j] # item
        BY <1>6, <1>8 DEF ToSet
    <2>2. \A j, k \in 1..Len(q) : q[j] = q[k] => j = k
        BY <1>6, <1>8 DEF IsInjective
    <2>3. SUFFICES ASSUME NEW j \in 1..(Len(q) + 1), NEW k \in 1..(Len(q) + 1), r[j] = r[k]
                   PROVE  j = k
        BY <1>6 DEF IsInjective
    <2> DEFINE old(n) == IF n < i THEN n ELSE n - 1
    <2>4. ASSUME NEW n \in 1..(Len(q) + 1), n # i
          PROVE  old(n) \in 1..Len(q) /\ r[n] = q[old(n)]
        BY <2>4, <1>1, <1>5, SMT
    <2>5. r[i] = item /\ i \in 1..(Len(q) + 1)
        BY <1>1, <1>5, SMT
    <2>6. CASE j # i /\ k # i
        <3>1. old(j) = old(k)
            <4> HIDE DEF old
            <4>1. QED
                BY <2>2, <2>3, <2>4, <2>6
        <3>2. QED
            BY <3>1, <2>6, <1>1, SMT
    <2>7. CASE j = i \/ k = i
        <3> HIDE DEF old
        <3>1. QED
            BY <2>1, <2>3, <2>4, <2>5, <2>7
    <2>8. QED
        BY <2>6, <2>7
<1>9. QED
    BY <1>5, <1>7, <1>8 DEF r

(* insert adds the process, wherever its key puts it. *)
LEMMA InsertQueue ==
    ASSUME NEW S, NEW q \in Seq(S), NEW item \in S, NEW k, NEW qkey
    PROVE  /\ Insert(q, item, k, qkey) \in Seq(S)
           /\ Insert(q, item, k, qkey) # <<>>
           /\ ToSet(Insert(q, item, k, qkey)) = ToSet(q) \cup {item}
           /\ IsInjective(q) /\ item \notin ToSet(q) => IsInjective(Insert(q, item, k, qkey))
<1> DEFINE pos == 1 + Passed(q, {i \in 1..Len(q) : qkey[q[i]] >= k})
<1>1. pos \in 1..(Len(q) + 1)
    <2>1. Passed(q, {i \in 1..Len(q) : qkey[q[i]] >= k}) \in 0..Len(q)
        BY PassedBound
    <2>2. QED
        BY <2>1, SMT
<1>2. Insert(q, item, k, qkey) = InsertAt(q, pos, item)
    BY DEF Insert
<1> HIDE DEF pos
<1>3. QED
    BY <1>1, <1>2, InsertAtQueue, EmptySeq, SMT

(* So does insertd, on the delta list. *)
LEMMA InsertDeltaQueue ==
    ASSUME NEW S, NEW q \in Seq(S), NEW item \in S, NEW k, NEW qkey
    PROVE  /\ InsertDelta(q, item, k, qkey) \in Seq(S)
           /\ ToSet(InsertDelta(q, item, k, qkey)) = ToSet(q) \cup {item}
           /\ IsInjective(q) /\ item \notin ToSet(q) => IsInjective(InsertDelta(q, item, k, qkey))
<1> DEFINE pos == DeltaPosition(q, k, qkey)
<1>1. pos \in 1..(Len(q) + 1)
    <2>1. Passed(q, {i \in 1..Len(q) : Elapsed(q, qkey)[i] <= k}) \in 0..Len(q)
        BY PassedBound
    <2>2. QED
        BY <2>1, SMT DEF DeltaPosition
<1>2. InsertDelta(q, item, k, qkey) = InsertAt(q, pos, item)
    BY DEF InsertDelta
<1> HIDE DEF pos
<1>3. QED
    BY <1>1, <1>2, InsertAtQueue

(* Unlinking a node: who is where afterwards. *)
LEMMA RemoveAtElements ==
    ASSUME NEW S, NEW q \in Seq(S), NEW i \in 1..Len(q)
    PROVE  /\ RemoveAt(q, i) \in Seq(S)
           /\ Len(RemoveAt(q, i)) = Len(q) - 1
           /\ \A j \in 1..(Len(q) - 1) : RemoveAt(q, i)[j] = IF j < i THEN q[j] ELSE q[j + 1]
<1> DEFINE a == SubSeq(q, 1, i - 1)
           b == SubSeq(q, i + 1, Len(q))
           r == RemoveAt(q, i)
<1>1. Len(q) \in Nat /\ DOMAIN q = 1..Len(q)
    OBVIOUS
<1>2. i \in 1..Len(q)
    OBVIOUS
<1>3. \A j \in 1..Len(q) : q[j] \in S
    BY ElementOfSeq
<1>4. /\ a \in Seq(S) /\ Len(a) = i - 1
      /\ \A j \in 1..(i - 1) : a[j] = q[j]
    <2>1. \A j \in 1..(i - 1) : q[j] \in S
        BY <1>1, <1>2, <1>3, SMT
    <2>2. QED
        BY <1>1, <1>2, <2>1, SubSeqProperties, SMT
<1>5. /\ b \in Seq(S) /\ Len(b) = Len(q) - i
      /\ \A j \in 1..(Len(q) - i) : b[j] = q[i + j]
    <2>1. \A j \in (i + 1)..Len(q) : q[j] \in S
        BY <1>1, <1>2, <1>3, SMT
    <2>2. i + 1 \in Int /\ Len(q) \in Int
        BY <1>1, <1>2, SMT
    <2>3. /\ b \in Seq(S) /\ Len(b) = IF i + 1 <= Len(q) THEN Len(q) - (i + 1) + 1 ELSE 0
          /\ \A j \in 1..(Len(q) - (i + 1) + 1) : b[j] = q[(i + 1) + j - 1]
        BY <2>1, <2>2, SubSeqProperties
    <2> HIDE DEF b
    <2>4. Len(b) = Len(q) - i
        <3>1. CASE i < Len(q)
            <4>1. i + 1 <= Len(q)
                BY <3>1, <1>1, <1>2, SMT
            <4>2. Len(b) = Len(q) - (i + 1) + 1
                BY <4>1, <2>3
            <4>3. QED
                BY <4>2, <1>1, <1>2, SMT
        <3>2. CASE i = Len(q)
            <4>1. ~(i + 1 <= Len(q)) /\ Len(q) - i = 0
                BY <3>2, <1>1, SMT
            <4>2. QED
                BY <4>1, <2>3
        <3>3. i < Len(q) \/ i = Len(q)
            <4>1. i \in 1..Len(q) /\ Len(q) \in Nat
                BY <1>1, <1>2
            <4>2. QED
                BY <4>1, SMT
        <3>4. QED
            BY <3>1, <3>2, <3>3
    <2>5. ASSUME NEW j \in 1..(Len(q) - i) PROVE b[j] = q[i + j]
        <3>1. j \in 1..(Len(q) - (i + 1) + 1) /\ (i + 1) + j - 1 = i + j
            BY <1>1, <1>2, SMT
        <3>2. QED
            BY <3>1, <2>3
    <2>6. QED
        BY <2>3, <2>4, <2>5
<1>6. r = a \o b
    BY DEF RemoveAt
<1> HIDE DEF r, a, b
<1>7. /\ r \in Seq(S) /\ Len(r) = Len(q) - 1
      /\ \A j \in 1..(Len(q) - 1) : r[j] = IF j < i THEN q[j] ELSE q[j + 1]
    <2>1. /\ r \in Seq(S) /\ Len(r) = Len(a) + Len(b)
          /\ \A j \in 1..(Len(a) + Len(b)) :
                r[j] = IF j <= Len(a) THEN a[j] ELSE b[j - Len(a)]
        BY <1>4, <1>5, <1>6, ConcatProperties
    <2>2. Len(r) = Len(q) - 1
        BY <1>1, <1>2, <1>4, <1>5, <2>1, SMT
    <2>3. ASSUME NEW j \in 1..(Len(q) - 1)
          PROVE  r[j] = IF j < i THEN q[j] ELSE q[j + 1]
        <3>5. Len(a) + Len(b) = Len(q) - 1 /\ (j <= i - 1 <=> j < i)
            BY <1>1, <1>2, <1>4, <1>5, SMT
        <3>6. r[j] = IF j <= i - 1 THEN a[j] ELSE b[j - (i - 1)]
            BY <3>5, <2>1, <1>4
        <3>1. r[j] = IF j < i THEN a[j] ELSE b[j - (i - 1)]
            BY <3>5, <3>6
        <3>2. CASE j < i
            BY <3>1, <3>2, <1>2, <1>4, SMT
        <3>3. CASE j >= i
            <4>1. j - (i - 1) \in 1..(Len(q) - i) /\ i + (j - (i - 1)) = j + 1
                BY <3>3, <1>1, <1>2, SMT
            <4>2. QED
                BY <3>1, <3>3, <4>1, <1>2, <1>5, SMT
        <3>4. QED
            BY <3>2, <3>3, <1>2, SMT
    <2>4. QED
        BY <2>1, <2>2, <2>3
<1> QED
    BY <1>7 DEF r

(* getitem takes exactly the process it is given, if that is on the queue. *)
LEMMA GetItemQueue ==
    ASSUME NEW S, NEW q \in Seq(S), IsInjective(q), NEW item \in ToSet(q)
    PROVE  /\ GetItem(q, item) \in Seq(S)
           /\ Len(GetItem(q, item)) = Len(q) - 1
           /\ ToSet(GetItem(q, item)) = ToSet(q) \ {item}
           /\ IsInjective(GetItem(q, item))
<1> DEFINE i == IndexOf(q, item)
           r == GetItem(q, item)
<1>1. Len(q) \in Nat /\ DOMAIN q = 1..Len(q)
    OBVIOUS
<1>2. i \in 1..Len(q) /\ q[i] = item
    <2>1. \E j \in 1..Len(q) : q[j] = item
        BY <1>1 DEF ToSet
    <2>2. QED
        BY <2>1 DEF IndexOf
<1> HIDE DEF i
<1>7. /\ r \in Seq(S) /\ Len(r) = Len(q) - 1
      /\ \A j \in 1..(Len(q) - 1) : r[j] = IF j < i THEN q[j] ELSE q[j + 1]
    BY <1>2, RemoveAtElements DEF GetItem, i
<1> HIDE DEF r
<1>8. DOMAIN r = 1..(Len(q) - 1)
    BY <1>7
<1>9. \A j, k \in 1..Len(q) : q[j] = q[k] => j = k
    BY <1>1 DEF IsInjective
<1>10. IsInjective(r)
    <2>1. SUFFICES ASSUME NEW j \in 1..(Len(q) - 1), NEW k \in 1..(Len(q) - 1), r[j] = r[k]
                   PROVE  j = k
        BY <1>8 DEF IsInjective
    <2>2. QED
        BY <2>1, <1>1, <1>2, <1>7, <1>9, SMT
<1>11. ToSet(r) = ToSet(q) \ {item}
    <2>1. ASSUME NEW x \in ToSet(r) PROVE x \in ToSet(q) \ {item}
        <3>1. PICK j \in 1..(Len(q) - 1) : x = r[j]
            BY <1>8 DEF ToSet
        <3>2. PICK k \in 1..Len(q) : x = q[k] /\ k # i
            BY <3>1, <1>1, <1>2, <1>7, SMT
        <3>3. QED
            BY <3>2, <1>1, <1>2, <1>9 DEF ToSet
    <2>2. ASSUME NEW x \in ToSet(q) \ {item} PROVE x \in ToSet(r)
        <3>1. PICK j \in 1..Len(q) : x = q[j]
            BY <1>1 DEF ToSet
        <3>2. j # i
            BY <3>1, <1>2
        <3>3. \E k \in 1..(Len(q) - 1) : r[k] = x
            <4>1. CASE j < i
                BY <4>1, <3>1, <1>1, <1>2, <1>7, SMT
            <4>2. CASE j > i
                <5>1. j - 1 \in 1..(Len(q) - 1) /\ r[j - 1] = x
                    BY <4>2, <3>1, <1>1, <1>2, <1>7, SMT
                <5>2. QED
                    BY <5>1
            <4>3. QED
                BY <4>1, <4>2, <3>1, <3>2, <1>2, SMT
        <3>4. QED
            BY <3>3, <1>8 DEF ToSet
    <2>3. QED
        BY <2>1, <2>2
<1>12. QED
    BY <1>7, <1>10, <1>11 DEF r

(* dequeue takes the first process and leaves the others in place. *)
LEMMA TailQueue ==
    ASSUME NEW S, NEW q \in Seq(S), q # <<>>, IsInjective(q)
    PROVE  /\ Head(q) \in S /\ Head(q) \in ToSet(q)
           /\ Tail(q) \in Seq(S)
           /\ Len(q) \in Nat \ {0}
           /\ Len(Tail(q)) = Len(q) - 1
           /\ ToSet(Tail(q)) = ToSet(q) \ {Head(q)}
           /\ IsInjective(Tail(q))
<1> DEFINE r == Tail(q)
<1>1. Len(q) \in Nat \ {0} /\ DOMAIN q = 1..Len(q) /\ Head(q) = q[1]
    BY EmptySeq, SMT
<1>2. /\ Head(q) \in S /\ r \in Seq(S) /\ Len(r) = Len(q) - 1
      /\ \A j \in 1..(Len(q) - 1) : r[j] = q[j + 1]
    BY HeadTailProperties
<1> HIDE DEF r
<1>3. DOMAIN r = 1..(Len(q) - 1)
    BY <1>2
<1>4. \A j, k \in 1..Len(q) : q[j] = q[k] => j = k
    BY <1>1 DEF IsInjective
<1>5. IsInjective(r)
    <2>1. SUFFICES ASSUME NEW j \in 1..(Len(q) - 1), NEW k \in 1..(Len(q) - 1), r[j] = r[k]
                   PROVE  j = k
        BY <1>3 DEF IsInjective
    <2>2. QED
        BY <2>1, <1>1, <1>2, <1>4, SMT
<1>6. Head(q) \in ToSet(q)
    BY <1>1, SMT DEF ToSet
<1>7. ToSet(r) = ToSet(q) \ {Head(q)}
    <2>1. ASSUME NEW x \in ToSet(r) PROVE x \in ToSet(q) \ {Head(q)}
        <3>1. PICK j \in 1..(Len(q) - 1) : x = r[j]
            BY <1>3 DEF ToSet
        <3>2. j + 1 \in 1..Len(q) /\ x = q[j + 1] /\ j + 1 # 1 /\ 1 \in 1..Len(q)
            BY <3>1, <1>1, <1>2, SMT
        <3>3. x # q[1]
            BY <3>2, <1>4
        <3>4. QED
            BY <3>2, <3>3, <1>1 DEF ToSet
    <2>2. ASSUME NEW x \in ToSet(q) \ {Head(q)} PROVE x \in ToSet(r)
        <3>1. PICK j \in 1..Len(q) : x = q[j]
            BY <1>1 DEF ToSet
        <3>2. j # 1
            BY <3>1, <1>1
        <3>3. j - 1 \in 1..(Len(q) - 1) /\ r[j - 1] = x
            BY <3>1, <3>2, <1>1, <1>2, SMT
        <3>4. QED
            BY <3>3, <1>3 DEF ToSet
    <2>3. QED
        BY <2>1, <2>2
<1>8. QED
    BY <1>1, <1>2, <1>5, <1>6, <1>7 DEF r

(* enqueue adds the process at the end. *)
LEMMA AppendQueue ==
    ASSUME NEW S, NEW q \in Seq(S), NEW item \in S
    PROVE  /\ Append(q, item) \in Seq(S)
           /\ Len(Append(q, item)) = Len(q) + 1
           /\ ToSet(Append(q, item)) = ToSet(q) \cup {item}
           /\ IsInjective(q) /\ item \notin ToSet(q) => IsInjective(Append(q, item))
<1> DEFINE r == Append(q, item)
<1>1. Len(q) \in Nat /\ DOMAIN q = 1..Len(q)
    OBVIOUS
<1>2. /\ r \in Seq(S) /\ Len(r) = Len(q) + 1
      /\ \A j \in 1..Len(q) : r[j] = q[j]
      /\ r[Len(q) + 1] = item
    BY AppendProperties
<1> HIDE DEF r
<1>3. DOMAIN r = 1..(Len(q) + 1)
    BY <1>2
<1>4. ToSet(r) = ToSet(q) \cup {item}
    <2>1. \A x \in ToSet(r) : x \in ToSet(q) \cup {item}
        BY <1>1, <1>2, <1>3, SMT DEF ToSet
    <2>2. \A x \in ToSet(q) : x \in ToSet(r)
        BY <1>1, <1>2, <1>3, SMT DEF ToSet
    <2>3. item \in ToSet(r)
        BY <1>1, <1>2, <1>3, SMT DEF ToSet
    <2>4. QED
        BY <2>1, <2>2, <2>3
<1>5. ASSUME IsInjective(q), item \notin ToSet(q) PROVE IsInjective(r)
    <2>1. \A j \in 1..Len(q) : q[j] # item
        BY <1>1, <1>5 DEF ToSet
    <2>2. \A j, k \in 1..Len(q) : q[j] = q[k] => j = k
        BY <1>1, <1>5 DEF IsInjective
    <2>3. SUFFICES ASSUME NEW j \in 1..(Len(q) + 1), NEW k \in 1..(Len(q) + 1), r[j] = r[k]
                   PROVE  j = k
        BY <1>3 DEF IsInjective
    <2>4. QED
        BY <2>1, <2>2, <2>3, <1>1, <1>2, SMT
<1>6. QED
    BY <1>2, <1>4, <1>5 DEF r

-----------------------------------------------------------------------------
(* A walk stops exactly where it should: past are all nodes before that place, and
   the node there, if there is one, is not in past. *)
LEMMA PassedExact ==
    ASSUME NEW S, NEW q \in Seq(S), NEW past
    PROVE  /\ \A i \in 1..Passed(q, past) : i \in past
           /\ Passed(q, past) < Len(q) => Passed(q, past) + 1 \notin past
<1> DEFINE A == {i \in 1..Len(q) : \A j \in 1..i : j \in past}
<1>1. Len(q) \in Nat
    OBVIOUS
<1>2. PICK m \in Nat : m + 1 \notin A /\ \A n \in Nat : n < m => n + 1 \in A
    <2>1. SUFFICES ASSUME \A m \in Nat : (\A n \in Nat : n < m => n + 1 \in A) => m + 1 \in A
                   PROVE  FALSE
        OBVIOUS
    <2> DEFINE Below == {m \in Nat : \A n \in Nat : n < m => n + 1 \in A}
    <2>2. 0 \in Below
        OBVIOUS
    <2>3. ASSUME NEW m \in Nat, m \in Below PROVE m + 1 \in Below
        <3>1. m + 1 \in A
            BY <2>1, <2>3
        <3> HIDE DEF A
        <3> QED
            BY <2>3, <3>1
    <2>4. \A m \in Nat : m \in Below
        <3> HIDE DEF Below
        <3> QED
            BY <2>2, <2>3, NaturalInduction
    <2>5. Len(q) + 1 \in A
        BY <1>1, <2>4
    <2> QED
        BY <1>1, <2>5
<1>3. A = 1..m
    <2>1. ASSUME NEW i \in A PROVE i \in 1..m
        <3>1. CASE i > m
            <4>1. m + 1 \in 1..i /\ m + 1 \in 1..Len(q)
                BY <1>1, <1>2, <3>1
            <4> QED
                BY <1>2, <4>1
        <3> QED
            BY <1>1, <3>1
    <2>2. ASSUME NEW i \in 1..m PROVE i \in A
        <3>1. i - 1 \in Nat /\ i - 1 < m /\ (i - 1) + 1 = i
            OBVIOUS
        <3> QED
            BY <1>2, <3>1
    <2> QED
        BY <2>1, <2>2
<1>4. Passed(q, past) = m
    <2>1. Cardinality(1..m) = m
        BY <1>2, FS_Interval
    <2> QED
        BY <1>3, <2>1 DEF Passed
<1>5. \A i \in 1..m : i \in past
    <2>1. ASSUME NEW i \in 1..m PROVE i \in past
        <3>1. i \in A
            <4> HIDE DEF A
            <4> QED
                BY <1>3
        <3>2. i \in 1..i
            BY <1>2
        <3> QED
            BY <3>1, <3>2
    <2> QED
        BY <2>1
<1>6. ASSUME m < Len(q) PROVE m + 1 \notin past
    <2>1. m + 1 \in 1..Len(q)
        BY <1>1, <1>6
    <2>2. PICK j \in 1..(m + 1) : j \notin past
        BY <1>2, <2>1
    <2> QED
        BY <1>5, <2>2
<1> QED
    BY <1>4, <1>5, <1>6

-----------------------------------------------------------------------------
(* The queue is in order of its keys, the highest first. *)
Descending(q, key) == \A i, j \in 1..Len(q) : i <= j => key[q[i]] >= key[q[j]]

(* insert keeps it so, when it has the item's own key. *)
LEMMA InsertDescending ==
    ASSUME NEW S, NEW q \in Seq(S), NEW item \in S, item \notin ToSet(q),
           NEW key, \A x \in ToSet(q) : key[x] \in Int,
           NEW new, NEW k \in Int, new[item] = k, \A x \in ToSet(q) : new[x] = key[x],
           Descending(q, key)
    PROVE  Descending(Insert(q, item, k, key), new)
<1> DEFINE past == {i \in 1..Len(q) : key[q[i]] >= k}
           m == Passed(q, past)
           r == Insert(q, item, k, key)
<1>1. Len(q) \in Nat /\ \A i \in 1..Len(q) : q[i] \in ToSet(q)
    BY DEF ToSet
<1>2. m \in 0..Len(q)
    BY PassedBound
<1>3. /\ \A i \in 1..m : i \in past
      /\ m < Len(q) => m + 1 \notin past
    BY PassedExact
<1>4. Len(r) = Len(q) + 1 /\ \A j \in 1..(Len(q) + 1) :
                r[j] = IF j < 1 + m THEN q[j] ELSE IF j = 1 + m THEN item ELSE q[j - 1]
    <2>1. 1 + m \in 1..(Len(q) + 1) /\ r = InsertAt(q, 1 + m, item)
        BY <1>1, <1>2 DEF Insert
    <2> HIDE DEF m, r
    <2> QED
        BY <2>1, InsertAtElements, SMTT(30)
<1> HIDE DEF m, r
<1>5. \A i \in 1..m : key[q[i]] >= k
    BY <1>3
<1>6. \A i \in 1..Len(q) : i > m => key[q[i]] <= k
    <2>1. SUFFICES ASSUME NEW i \in 1..Len(q), i > m PROVE key[q[i]] <= k
        OBVIOUS
    <2>2. m + 1 \in 1..Len(q) /\ m + 1 <= i /\ m < Len(q)
        BY <1>1, <1>2, <2>1
    <2>3. ~(key[q[m + 1]] >= k)
        BY <1>3, <2>2
    <2>4. key[q[m + 1]] >= key[q[i]]
        BY <2>2 DEF Descending
    <2>5. key[q[i]] \in Int /\ key[q[m + 1]] \in Int
        BY <1>1, <2>2
    <2> QED
        BY <2>3, <2>4, <2>5
<1> DEFINE K(j) == IF j < 1 + m THEN key[q[j]] ELSE IF j = 1 + m THEN k ELSE key[q[j - 1]]
<1>7. \A j \in 1..(Len(q) + 1) : new[r[j]] = K(j)
    <2>1. SUFFICES ASSUME NEW j \in 1..(Len(q) + 1) PROVE new[r[j]] = K(j)
        OBVIOUS
    <2>2. CASE j < 1 + m
        BY <1>1, <1>2, <1>4, <2>2
    <2>3. CASE j = 1 + m
        BY <1>4, <2>3
    <2>4. CASE j > 1 + m
        <3>1. j - 1 \in 1..Len(q) /\ r[j] = q[j - 1]
            BY <1>1, <1>2, <1>4, <2>4
        <3> QED
            BY <1>1, <1>2, <2>4, <3>1
    <2> QED
        BY <1>2, <2>2, <2>3, <2>4
<1>8. ASSUME NEW i \in 1..(Len(q) + 1), NEW j \in 1..(Len(q) + 1), i <= j
      PROVE  K(i) >= K(j)
    <2>1. CASE j < 1 + m
        <3>1. i \in 1..Len(q) /\ j \in 1..Len(q) /\ i < 1 + m
            BY <1>1, <1>2, <1>8, <2>1
        <3> QED
            BY <1>8, <2>1, <3>1 DEF Descending
    <2>2. CASE i > 1 + m
        <3>1. i - 1 \in 1..Len(q) /\ j - 1 \in 1..Len(q) /\ j > 1 + m /\ i - 1 <= j - 1
            BY <1>1, <1>2, <1>8, <2>2
        <3>2. key[q[i - 1]] >= key[q[j - 1]]
            BY <3>1 DEF Descending
        <3>3. K(i) = key[q[i - 1]] /\ K(j) = key[q[j - 1]]
            BY <1>2, <2>2, <3>1
        <3> QED
            BY <3>2, <3>3
    <2>3. CASE i <= 1 + m /\ j >= 1 + m
        <3>1. K(i) >= k /\ (i < 1 + m => K(i) \in Int)
            <4>1. CASE i < 1 + m
                <5>1. i \in 1..m /\ i \in 1..Len(q)
                    BY <1>1, <1>2, <4>1
                <5> QED
                    BY <1>1, <1>5, <4>1, <5>1
            <4>2. CASE i = 1 + m
                BY <4>2
            <4> QED
                BY <1>2, <2>3, <4>1, <4>2
        <3>2. K(j) <= k /\ (j > 1 + m => K(j) \in Int)
            <4>1. CASE j > 1 + m
                <5>1. j - 1 \in 1..Len(q) /\ j - 1 > m
                    BY <1>1, <1>2, <4>1
                <5>2. K(j) = key[q[j - 1]]
                    BY <1>2, <4>1
                <5> QED
                    BY <1>1, <1>6, <5>1, <5>2
            <4>2. CASE j = 1 + m
                BY <4>2
            <4> QED
                BY <1>2, <2>3, <4>1, <4>2
        <3>3. K(i) \in Int /\ K(j) \in Int
            <4>1. (i = 1 + m => K(i) = k) /\ (j = 1 + m => K(j) = k)
                OBVIOUS
            <4>2. (i < 1 + m \/ i = 1 + m) /\ (j > 1 + m \/ j = 1 + m)
                BY <1>2, <2>3
            <4> HIDE DEF K
            <4> QED
                BY <3>1, <3>2, <4>1, <4>2
        <3> HIDE DEF K
        <3> QED
            BY <3>1, <3>2, <3>3
    <2> QED
        BY <1>2, <2>1, <2>2, <2>3
<1> HIDE DEF K
<1>9. Descending(r, new)
    BY <1>4, <1>7, <1>8 DEF Descending
<1> QED
    BY <1>9 DEF r

(* So do dequeue and getitem, which leave the others in place. *)
LEMMA TailDescending ==
    ASSUME NEW S, NEW q \in Seq(S), q # <<>>, NEW key, Descending(q, key)
    PROVE  /\ Descending(Tail(q), key)
           /\ \A x \in ToSet(q) : key[Head(q)] >= key[x]
<1>1. Len(q) \in Nat \ {0} /\ DOMAIN q = 1..Len(q) /\ Head(q) = q[1]
    BY EmptySeq, SMT
<1>2. Len(Tail(q)) = Len(q) - 1 /\ \A j \in 1..(Len(q) - 1) : Tail(q)[j] = q[j + 1]
    BY HeadTailProperties
<1>3. Descending(Tail(q), key)
    BY <1>1, <1>2 DEF Descending
<1>4. ASSUME NEW x \in ToSet(q) PROVE key[Head(q)] >= key[x]
    BY <1>1 DEF ToSet, Descending
<1> QED
    BY <1>3, <1>4

LEMMA GetItemDescending ==
    ASSUME NEW S, NEW q \in Seq(S), NEW item \in ToSet(q), NEW key, Descending(q, key)
    PROVE  Descending(GetItem(q, item), key)
<1> DEFINE i == IndexOf(q, item)
           r == RemoveAt(q, i)
<1>1. Len(q) \in Nat /\ DOMAIN q = 1..Len(q)
    OBVIOUS
<1>2. i \in 1..Len(q)
    <2>1. \E j \in 1..Len(q) : q[j] = item
        BY <1>1 DEF ToSet
    <2> QED
        BY <2>1 DEF IndexOf
<1> HIDE DEF i
<1>3. Len(r) = Len(q) - 1 /\ \A j \in 1..(Len(q) - 1) : r[j] = IF j < i THEN q[j] ELSE q[j + 1]
    BY <1>2, RemoveAtElements
<1> HIDE DEF r
<1>4. Descending(r, key)
    <2>1. SUFFICES ASSUME NEW j \in 1..(Len(q) - 1), NEW k \in 1..(Len(q) - 1), j <= k
                   PROVE  key[r[j]] >= key[r[k]]
        BY <1>3 DEF Descending
    <2> DEFINE old(n) == IF n < i THEN n ELSE n + 1
    <2>2. r[j] = q[old(j)] /\ r[k] = q[old(k)]
        BY <1>3
    <2>3. old(j) \in 1..Len(q) /\ old(k) \in 1..Len(q) /\ old(j) <= old(k)
        BY <1>1, <1>2, <2>1
    <2> HIDE DEF old
    <2> QED
        BY <2>2, <2>3 DEF Descending
<1> QED
    BY <1>4 DEF GetItem, i, r
-----------------------------------------------------------------------------
(* Sums along the delta list. *)
(* e[n] is the sum of the first n keys of q. *)
Along(e, q, key) ==
    /\ Len(q) \in Nat /\ DOMAIN e = 0..Len(q) /\ e[0] = 0
    /\ \A n \in 1..Len(q) : e[n] = e[n - 1] + key[q[n]]

LEMMA ElapsedAlong ==
    ASSUME NEW S, NEW q \in Seq(S), NEW key
    PROVE  Along(Elapsed(q, key), q, key)
<1> DEFINE Eq(f, m) == f = [n \in 0..m |-> IF n = 0 THEN 0 ELSE f[n - 1] + key[q[n]]]
           Good == {m \in Nat : \E f : Eq(f, m)}
<1>1. 0 \in Good
    <2> DEFINE f == [n \in 0..0 |-> 0]
    <2>1. Eq(f, 0)
        OBVIOUS
    <2> QED
        BY <2>1
<1>2. ASSUME NEW m \in Nat, m \in Good PROVE m + 1 \in Good
    <2>1. PICK f : Eq(f, m)
        BY <1>2
    <2> DEFINE g == [n \in 0..(m + 1) |-> IF n <= m THEN f[n] ELSE f[m] + key[q[m + 1]]]
    <2>2. ASSUME NEW n \in 0..(m + 1)
          PROVE  g[n] = IF n = 0 THEN 0 ELSE g[n - 1] + key[q[n]]
        <3>1. CASE n = 0
            BY <2>1, <3>1
        <3>2. CASE n \in 1..m
            BY <2>1, <3>2
        <3>3. CASE n = m + 1
            BY <2>1, <3>3
        <3> QED
            BY <3>1, <3>2, <3>3
    <2>3. Eq(g, m + 1)
        BY <2>2
    <2> HIDE DEF g, Eq
    <2>4. \E h : Eq(h, m + 1)
        BY <2>3
    <2> QED
        BY <2>4
<1>3. Len(q) \in Good
    <2> HIDE DEF Good
    <2> QED
        BY <1>1, <1>2, NaturalInduction
<1>4. PICK f : Eq(f, Len(q))
    BY <1>3
<1>5. Elapsed(q, key) = CHOOSE g : Eq(g, Len(q))
    BY DEF Elapsed
<1>6. Eq(Elapsed(q, key), Len(q))
    BY <1>4, <1>5
<1> HIDE DEF Eq
<1> DEFINE e == Elapsed(q, key)
<1>7. e = [n \in 0..Len(q) |-> IF n = 0 THEN 0 ELSE e[n - 1] + key[q[n]]]
    BY <1>6 DEF Eq
<1> HIDE DEF e
<1>8. Len(q) \in Nat
    OBVIOUS
<1>9. Along(e, q, key)
    BY <1>7, <1>8 DEF Along
<1> QED
    BY <1>9 DEF e

IntKeys(q, key) == \A n \in 1..Len(q) : key[q[n]] \in Int

LEMMA AlongInt ==
    ASSUME NEW q, NEW key, IntKeys(q, key), NEW e, Along(e, q, key)
    PROVE  \A n \in 0..Len(q) : e[n] \in Int
<1> DEFINE Good == {n \in Nat : n <= Len(q) => e[n] \in Int}
<1>1. 0 \in Good
    BY DEF Along
<1>2. ASSUME NEW n \in Nat, n \in Good PROVE n + 1 \in Good
    <2>1. SUFFICES ASSUME n + 1 <= Len(q) PROVE e[n + 1] \in Int
        OBVIOUS
    <2>2. n + 1 \in 1..Len(q) /\ (n + 1) - 1 = n /\ e[n] \in Int
        BY <1>2, <2>1
    <2>3. e[n + 1] = e[n] + key[q[n + 1]] /\ key[q[n + 1]] \in Int
        BY <2>2 DEF Along, IntKeys
    <2> QED
        BY <2>2, <2>3
<1> HIDE DEF Good
<1>3. \A n \in Nat : n \in Good
    BY <1>1, <1>2, NaturalInduction
<1> QED
    BY <1>3 DEF Good

=============================================================================
