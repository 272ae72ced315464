-------------------------------- MODULE Marks --------------------------------
(***************************************************************************)
(* Memory marking: a table of marked locations, and in each marked         *)
(* location its index in the table, so that one look tells whether a       *)
(* location is marked, whatever an unmarked one happens to hold.           *)
(*                                                                         *)
(* mark never disables interrupts: it may lose the processor between any   *)
(* two of the steps below.  Only three of them hold the mutex.             *)
(***************************************************************************)
EXTENDS Tasks

CONSTANTS
    Loc,            \* locations to mark
    Garbage,        \* what a location may hold before it is marked
    MAXMARK         \* size of the table of marks

ASSUME MarkAssumption ==
    Garbage \subseteq Int /\ MAXMARK \in Nat \ {0} /\ None \notin Loc /\ IsFiniteSet(Pid)

VARIABLES
    marks,          \* marks[], and the memory that follows it
    nmarks,         \* number of marked locations
    content,        \* *loc, for each location
    mkmutex         \* mutual exclusion semaphore

markVars == <<marks, nmarks, content, mkmutex>>

(* Steps of mark, the ones with the mutex last. *)
Inside == {"read", "take", "store", "signal"}
Marking(at, loc, i) == [at |-> at, loc |-> loc, i |-> i]

(* "If location is already marked" *)
Marked(loc) == content[loc] \in 0..(nmarks - 1) /\ marks[content[loc]] = loc

(* mark, to the end of its first test.  The test reads three variables, and is
   one step: as nmarks never falls and no entry is written twice, its answer
   was right at some moment while it read them. *)
Mark(loc) ==
    /\ InUser
    /\ \/ Marked(loc) /\ UNCHANGED cont
       \/ ~Marked(loc) /\ Goto(Marking("room", loc, 0))
    /\ UNCHANGED <<procVars, sem, markVars>>

(* A wrong test for room: off by one. *)
MarkRoomForOneMore ==
    /\ At("room")
    /\ \/ nmarks > MAXMARK /\ Return
       \/ nmarks <= MAXMARK /\ Goto([cont[currpid] EXCEPT !.at = "wait"])
    /\ UNCHANGED <<procVars, sem, markVars>>

(* Another: drops the last mark to make room. *)
MarkRoomMade ==
    /\ At("room")
    /\ nmarks' = IF nmarks >= MAXMARK THEN nmarks - 1 ELSE nmarks
    /\ Goto([cont[currpid] EXCEPT !.at = "wait"])
    /\ UNCHANGED <<procVars, sem, marks, content, mkmutex>>

(* "If no more memory marks are available, indicate an error." *)
MarkRoom ==
    /\ At("room")
    /\ \/ nmarks >= MAXMARK /\ Return
       \/ nmarks < MAXMARK /\ Goto([cont[currpid] EXCEPT !.at = "wait"])
    /\ UNCHANGED <<procVars, sem, markVars>>

(* A wrong mark: does not wait for the mutex. *)
MarkWaitSkipped ==
    /\ At("wait")
    /\ sem' = Down(sem, mkmutex, currpid)
    /\ Goto([cont[currpid] EXCEPT !.at = "read"]) /\ UNCHANGED procVars
    /\ UNCHANGED markVars

MarkWait ==
    /\ At("wait")
    /\ LET inside == [cont[currpid] EXCEPT !.at = "read"]
       IN  \/ /\ Available(mkmutex)
              /\ sem' = Down(sem, mkmutex, currpid)
              /\ Goto(inside) /\ UNCHANGED procVars
           \/ WaitOn(mkmutex, inside)
    /\ UNCHANGED markVars

(* "marks[ loc = nmarks++ ] = loc", on *loc: read nmarks, ... *)
MarkRead ==
    /\ At("read")
    /\ Goto([cont[currpid] EXCEPT !.at = "take", !.i = nmarks])
    /\ UNCHANGED <<procVars, sem, markVars>>

(* ... write it and the location, which for the others changes nothing until ... *)
MarkTake ==
    LET c == cont[currpid]
    IN  /\ At("take")
        /\ nmarks' = c.i + 1
        /\ content' = [content EXCEPT ![c.loc] = c.i]
        /\ Goto([c EXCEPT !.at = "store"])
        /\ UNCHANGED <<procVars, sem, marks, mkmutex>>

(* A wrong order: the entry is chosen after the count went up. *)
MarkStoreNext ==
    LET c == cont[currpid]
    IN  /\ At("store")
        /\ marks' = [marks EXCEPT ![nmarks] = c.loc]
        /\ Goto([c EXCEPT !.at = "signal"])
        /\ UNCHANGED <<procVars, sem, nmarks, content, mkmutex>>

(* ... the entry is written. *)
MarkStore ==
    LET c == cont[currpid]
    IN  /\ At("store")
        /\ marks' = [marks EXCEPT ![c.i] = c.loc]
        /\ Goto([c EXCEPT !.at = "signal"])
        /\ UNCHANGED <<procVars, sem, nmarks, content, mkmutex>>

MarkSignal ==
    /\ At("signal")
    /\ sem' = Up(sem, mkmutex)
    /\ Resched(First(sem, mkmutex))
    /\ Return
    /\ UNCHANGED markVars

(* The clock takes the processor at any point of mark, and from user code. *)
MarkPreempt == currpid # NULLPROC /\ Preempted /\ UNCHANGED markVars

(* markinit, "called once at system startup" *)
MarkInit ==
    /\ \E s \in Sem :
        /\ mkmutex = s
        /\ sem = [t \in Sem |-> IF t = s THEN NewSem(1) ELSE FreeSem]
    /\ nmarks = 0
    /\ marks = [i \in 0..(MAXMARK + Cardinality(Pid)) |-> None]
    /\ content \in [Loc -> Garbage]

MarkStep ==
    \/ MarkRoom \/ MarkWait \/ MarkRead \/ MarkTake \/ MarkStore \/ MarkSignal
    \/ MarkPreempt

MarkNext == MarkStep \/ \E loc \in Loc : Mark(loc)

MarkSpec == TaskInit /\ MarkInit /\ [][MarkNext]_<<taskVars, markVars>>

-----------------------------------------------------------------------------
Marker(p, steps) == cont[p].at \in steps

(* The test for room is made outside the mutex, so processes that pass it
   together can mark past the end of the table, but each of them only once:
   the overrun is smaller than the number of processes. *)
OverrunBounded ==
    nmarks + Cardinality({p \in Pid : Marker(p, {"wait", "read", "take"})})
        <= MAXMARK - 1 + Cardinality(Pid)

(* Indexes are given out one at a time and none is left out: every entry below
   nmarks has been written, or the process inside is about to write it. *)
EntriesFilled ==
    \A i \in 0..(nmarks - 1) :
        marks[i] \in Loc \/ \E p \in Pid : Marker(p, {"store"}) /\ cont[p].i = i

(* mark returns OK only for a location that is marked. *)
MarkedOnReturn == \A p \in Pid : Marker(p, {"signal"}) => Marked(cont[p].loc)

(* A location once marked is found marked, except while another process that
   did not find it marked in time marks it again. *)
MarksStay ==
    [][\A loc \in Loc : Marked(loc) =>
            \/ Marked(loc)'
            \/ \E p \in Pid : Marker(p, {"store"})' /\ (cont[p].loc)' = loc]_markVars
=============================================================================
