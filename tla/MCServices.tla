----------------------------- MODULE MCServices ------------------------------
(* The services around the kernel for TLC, one of them at a time: the one that
   is chosen at the start runs, the others stay as they are at start-up. *)
EXTENDS BufPool, Marks, QueueTable, Calendar, TimeOfDay

VARIABLE part       \* the service that runs

(* Processes are alike; the services that have none are not slowed by more. *)
Symmetry == Permutations(Pid) \cup Permutations(Caller)

MCNone == -1
MCGarbage == {-1, 0, 1}
MCPrio == [p \in 0..2 |-> IF p = 2 THEN 2 ELSE 1]

(* A common year and a leap year for each day of the week that they may begin
   on, and 2000; all days on which a year, a month or daylight saving may begin
   or end, at the first and last second of the hours that matter. *)
MCYears == (1970..1978) \cup {1980, 1984, 1988, 1992, 1996, 2000, 2037}
MCDays ==
    ((1..12) \X {1, 28, 29, 30, 31}) \cup ({3} \X (7..15)) \cup ({11} \X (2..8))
MCTimes ==
    {DayNumber(y, d[1], d[2]) * SECPERDY + s :
        y \in MCYears, d \in MCDays, s \in {0, 3599, 3600, 7199, 7200, 82799, 82800, 86399}}

Init ==
    /\ part \in {"memory", "pools", "marks", "queues", "calendar", "time"}
    /\ MemInit /\ PoolInit /\ QueueInit /\ DateInit /\ TimeInit
    /\ due => part = "time"
    /\ \/ part \in {"pools", "marks"} /\ TaskInit
       \/ /\ part \notin {"pools", "marks"}
          /\ currpid = NULLPROC /\ prstate = [p \in Pid |-> "FREE"] /\ cont = [p \in Pid |-> User]
    /\ \/ part = "marks" /\ MarkInit
       \/ /\ part # "marks" /\ sem = [s \in Sem |-> FreeSem]
          /\ marks = [i \in {} |-> None] /\ nmarks = 0
          /\ content = [loc \in Loc |-> 0] /\ mkmutex = None

Next ==
    \/ /\ part = "memory" /\ MemNext
       /\ UNCHANGED <<part, poolVars, taskVars, markVars, queueVars, dateVars, timeVars>>
    \/ /\ part = "pools" /\ PoolNext
       /\ UNCHANGED <<part, markVars, queueVars, dateVars, timeVars>>
    \/ /\ part = "marks" /\ MarkNext
       /\ UNCHANGED <<part, memVars, poolVars, queueVars, dateVars, timeVars>>
    \/ /\ part = "queues" /\ QueueNext
       /\ UNCHANGED <<part, memVars, poolVars, taskVars, markVars, dateVars, timeVars>>
    \/ /\ part = "calendar" /\ DateNext
       /\ UNCHANGED <<part, memVars, poolVars, taskVars, markVars, queueVars, timeVars>>
    \/ /\ part = "time" /\ TimeNext
       /\ UNCHANGED <<part, memVars, poolVars, taskVars, markVars, queueVars, dateVars>>

Spec ==
    Init /\ [][Next]_<<part, memVars, poolVars, taskVars, markVars, queueVars, dateVars, timeVars>>
=============================================================================
