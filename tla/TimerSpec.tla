------------------------------ MODULE TimerSpec ------------------------------
(***************************************************************************)
(* What the sleep queue promises: one independent countdown per sleeper.   *)
(* Starting, cancelling or expiring one never disturbs another, a tick     *)
(* takes one off every one of them, and no tick passes while a countdown   *)
(* stands at zero: its process has been released by then.                  *)
(***************************************************************************)
EXTENDS Integers

CONSTANT Pid

VARIABLE remaining      \* ticks left of each countdown that runs

Running == DOMAIN remaining

Init == remaining = [p \in {} |-> 0]

Without(p) == [q \in Running \ {p} |-> remaining[q]]

Start(p, delay) ==
    /\ p \notin Running /\ delay > 0
    /\ remaining' = [q \in Running \cup {p} |-> IF q = p THEN delay ELSE remaining[q]]

Cancel(p) == p \in Running /\ remaining' = Without(p)

Expire(p) == p \in Running /\ remaining[p] = 0 /\ remaining' = Without(p)

Tick ==
    /\ Running # {}
    /\ \A p \in Running : remaining[p] > 0
    /\ remaining' = [p \in Running |-> remaining[p] - 1]

Next ==
    \/ Tick
    \/ \E p \in Pid :
        \/ Cancel(p) \/ Expire(p)
        \/ p \in DOMAIN remaining' /\ Start(p, remaining'[p])

Spec == Init /\ [][Next]_remaining
=============================================================================
