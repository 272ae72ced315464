------------------------------ MODULE ProcQueue ------------------------------
(***************************************************************************)
(* The operations of the kernel's process queues, on sequences of process  *)
(* IDs.  The C code threads every queue through one table, queuetab: a     *)
(* process has a single node there, with a single key (qkey), so it can be *)
(* on at most one queue, and whichever queue it is on uses that key: a     *)
(* priority on the ready list, a delay relative to the previous sleeper on *)
(* the sleep queue.  Here a queue is the sequence of the IDs between its   *)
(* head and its tail node, and qkey is a function on process IDs.          *)
(***************************************************************************)
EXTENDS Integers, FiniteSets, SequencesExt

(* Where the item is in the queue: queuetab[item] is reached directly in C. *)
IndexOf(q, item) == CHOOSE i \in 1..Len(q) : q[i] = item

(* getitem: unlink a process from wherever it is in its queue. *)
GetItem(q, item) == RemoveAt(q, IndexOf(q, item))

(* How many nodes a walk from the head passes: it stops at the first one not in past. *)
Passed(q, past) == Cardinality({i \in 1..Len(q) : \A j \in 1..i : j \in past})

(* insert: walk past every node whose key is at least k, link the item there. *)
Insert(q, item, k, qkey) ==
    InsertAt(q, 1 + Passed(q, {i \in 1..Len(q) : qkey[q[i]] >= k}), item)

-----------------------------------------------------------------------------
(* The delta list: the delay of the n-th sleeper is the sum of the first n keys. *)
Elapsed(q, qkey) ==
    LET sum[n \in 0..Len(q)] == IF n = 0 THEN 0 ELSE sum[n-1] + qkey[q[n]]
    IN  sum

(* insertd walks on while the next key is at most what is left of the delay. *)
DeltaPosition(q, k, qkey) ==
    1 + Passed(q, {i \in 1..Len(q) : Elapsed(q, qkey)[i] <= k})

InsertDelta(q, item, k, qkey) == InsertAt(q, DeltaPosition(q, k, qkey), item)

(* insertd's keys: the rest of the delay for the item, that much less for the next. *)
InsertDeltaKeys(q, item, k, qkey) ==
    LET pos  == DeltaPosition(q, k, qkey)
        rest == k - Elapsed(q, qkey)[pos - 1]
        next == IF pos <= Len(q) THEN {q[pos]} ELSE {}
    IN  [p \in DOMAIN qkey |-> IF p = item THEN rest
                               ELSE IF p \in next THEN qkey[p] - rest
                               ELSE qkey[p]]

(* A wrong unsleep: the next sleeper keeps its delta and wakes too early. *)
UnsleepKeysDropped(q, item, qkey) == qkey

(* unsleep's keys: the next sleeper inherits what the removed one had left. *)
UnsleepKeys(q, item, qkey) ==
    LET pos  == IndexOf(q, item)
        next == IF pos < Len(q) THEN {q[pos + 1]} ELSE {}
    IN  [p \in DOMAIN qkey |-> IF p \in next THEN qkey[p] + qkey[item] ELSE qkey[p]]
=============================================================================
