------------------------------ MODULE QueueSpec ------------------------------
(***************************************************************************)
(* What the process queues promise, and what module Kernel takes them for: *)
(* sequences of processes, and a key for each process.  Whoever joins a    *)
(* queue comes from no other.                                              *)
(***************************************************************************)
EXTENDS ProcQueue

CONSTANTS
    Process,        \* process IDs
    Fifo,           \* queues joined at the end
    Ordered,        \* queues joined by key, the largest first
    Delta,          \* queues joined by delay
    Nowhere,        \* no queue
    Keys            \* keys and delays to join with

VARIABLES
    on,             \* the queue that each process is on
    lists,          \* the processes on each queue
    keys            \* key of each process

Queues == Fifo \cup Ordered \cup Delta

(* A process goes to a queue from none, or from a queue to none; its queue
   becomes another sequence, the others stay as they are. *)
Joins(p, q) == on[p] = Nowhere /\ on' = [on EXCEPT ![p] = q]
Leaves(p, q) == on[p] = q /\ on' = [on EXCEPT ![p] = Nowhere]
Becomes(q, list) == lists' = [lists EXCEPT ![q] = list]

Join(p, q) ==
    /\ Joins(p, q)
    /\ UNCHANGED keys
    /\ Becomes(q, Append(lists[q], p))

JoinByKey(p, q, k) ==
    /\ Joins(p, q)
    /\ keys' = [keys EXCEPT ![p] = k]
    /\ Becomes(q, Insert(lists[q], p, k, keys))

JoinByDelay(p, q, k) ==
    /\ Joins(p, q)
    /\ keys' = InsertDeltaKeys(lists[q], p, k, keys)
    /\ Becomes(q, InsertDelta(lists[q], p, k, keys))

Leave(p, q) ==
    /\ Leaves(p, q) /\ (q \in Delta => keys[p] <= 0)
    /\ UNCHANGED keys
    /\ Becomes(q, GetItem(lists[q], p))

LeaveEarly(p, q) ==
    /\ Leaves(p, q)
    /\ keys' = UnsleepKeys(lists[q], p, keys)
    /\ Becomes(q, GetItem(lists[q], p))

(* Time passes for the first on a queue, and so for all of them. *)
CountDown(q) ==
    /\ UNCHANGED <<on, lists>>
    /\ lists[q] # <<>>
    /\ keys' = [keys EXCEPT ![Head(lists[q])] = @ - 1]

Init ==
    /\ on = [p \in Process |-> Nowhere]
    /\ lists = [q \in Queues |-> <<>>]
    /\ keys = [p \in Process |-> 0]

Next ==
    \/ \E p \in Process :
        \/ \E q \in Fifo : Join(p, q)
        \/ \E q \in Ordered, k \in Keys : JoinByKey(p, q, k)
        \/ \E q \in Delta, k \in Keys : JoinByDelay(p, q, k)
        \/ \E q \in Queues : Leave(p, q)
        \/ \E q \in Delta : LeaveEarly(p, q)
    \/ \E q \in Delta : CountDown(q)

Spec == Init /\ [][Next]_<<on, lists, keys>>
=============================================================================
