------------------------------ MODULE TimeOfDay ------------------------------
(***************************************************************************)
(* The time of day: seconds since boot, counted by the clock interrupt,    *)
(* added to the time of the boot, which the first call of getutime gets    *)
(* from a time server.  getutime runs with interrupts enabled, so several  *)
(* processes may be anywhere in it; the network loses and delays answers.  *)
(* The seconds of the two clocks do not begin together: ours are counted   *)
(* from the boot, and the answers are whole seconds of the server's.       *)
(***************************************************************************)
EXTENDS Integers, FiniteSets

CONSTANTS
    Caller,         \* processes that ask for the time
    Nobody,         \* no process, and no time (SYSERR)
    ZONE,           \* utim2ltim: seconds from local time to universal time
    Boot,           \* the server's time when the system boots
    MaxTime         \* bound: the server's time

ASSUME TimeAssumption ==
    /\ Nobody \notin Caller /\ Nobody \notin Int
    /\ ZONE \in Int /\ Boot \in Nat /\ MaxTime \in Nat

VARIABLES
    clktime,        \* seconds since boot
    dt_boot,        \* Date.dt_boot
    dt_bootvalid,   \* Date.dt_bootvalid
    tpc,            \* where each caller is in getutime
    now,            \* the local of getutime, from the answer
    slot,           \* which caller has the UDP slot for the time server
    answers,        \* answers of the server on their way: when they were sent
    server,         \* the server's time, in whole seconds
    due,            \* whether a second of ours may end before the server's next does
    told            \* what gettime returned last to each caller

timeVars == <<clktime, dt_boot, dt_bootvalid, tpc, now, slot, answers, server, due, told>>

GotoT(p, at) == tpc' = [tpc EXCEPT ![p] = at]
Failed(p) == GotoT(p, "idle") /\ told' = [told EXCEPT ![p] = Nobody]

(* utim2ltim, and what gettime returns *)
Told(p, time) == GotoT(p, "idle") /\ told' = [told EXCEPT ![p] = time - ZONE]

(* gettime, into getutime: "return time from local info" *)
GetTime(p) ==
    /\ tpc[p] = "idle"
    /\ \/ dt_bootvalid /\ Told(p, dt_boot + clktime)
       \/ ~dt_bootvalid /\ GotoT(p, "register") /\ UNCHANGED told
    /\ UNCHANGED <<clktime, dt_boot, dt_bootvalid, now, slot, answers, server, due>>

(* No address of our own, or of the server. *)
NoAddress(p) ==
    /\ tpc[p] = "register" /\ Failed(p)
    /\ UNCHANGED <<clktime, dt_boot, dt_bootvalid, now, slot, answers, server, due>>

(* udp_register refuses a second slot for the same server and ports. *)
Register(p) ==
    /\ tpc[p] = "register"
    /\ \/ slot = Nobody /\ slot' = p /\ GotoT(p, "send") /\ UNCHANGED told
       \/ slot # Nobody /\ Failed(p) /\ UNCHANGED slot
    /\ UNCHANGED <<clktime, dt_boot, dt_bootvalid, now, answers, server, due>>

(* The request is sent, or not; it reaches the server, which answers, or not. *)
SendRequest(p) ==
    /\ tpc[p] = "send"
    /\ \/ answers' = answers \cup {server} /\ GotoT(p, "recv") /\ UNCHANGED <<slot, told>>
       \/ GotoT(p, "recv") /\ UNCHANGED <<slot, told, answers>>
       \/ Failed(p) /\ slot' = Nobody /\ UNCHANGED answers
    /\ UNCHANGED <<clktime, dt_boot, dt_bootvalid, now, server, due>>

(* Any answer that comes while the slot is registered is taken for the answer. *)
Receive(p, t) ==
    /\ tpc[p] = "recv" /\ t \in answers
    /\ answers' = answers \ {t}
    /\ now' = [now EXCEPT ![p] = t]
    /\ GotoT(p, "release")
    /\ UNCHANGED <<clktime, dt_boot, dt_bootvalid, slot, server, due, told>>

(* A wrong getutime: keeps the slot when the answer does not come. *)
TimeoutKeepsSlot(p) ==
    /\ tpc[p] = "recv"
    /\ Failed(p)
    /\ UNCHANGED <<clktime, dt_boot, dt_bootvalid, now, slot, answers, server, due>>

Timeout(p) ==
    /\ tpc[p] = "recv"
    /\ slot' = Nobody /\ Failed(p)
    /\ UNCHANGED <<clktime, dt_boot, dt_bootvalid, now, answers, server, due>>

UdpRelease(p) ==
    /\ tpc[p] = "release"
    /\ slot' = Nobody /\ GotoT(p, "boot")
    /\ UNCHANGED <<clktime, dt_boot, dt_bootvalid, now, answers, server, due, told>>

(* A wrong time of boot: the time of the answer. *)
SetBootNow(p) ==
    /\ tpc[p] = "boot"
    /\ dt_boot' = now[p]
    /\ GotoT(p, "valid")
    /\ UNCHANGED <<clktime, dt_bootvalid, now, slot, answers, server, due, told>>

SetBoot(p) ==
    /\ tpc[p] = "boot"
    /\ dt_boot' = now[p] - clktime
    /\ GotoT(p, "valid")
    /\ UNCHANGED <<clktime, dt_bootvalid, now, slot, answers, server, due, told>>

SetValid(p) ==
    /\ tpc[p] = "valid"
    /\ dt_bootvalid' = TRUE
    /\ Told(p, now[p])
    /\ UNCHANGED <<clktime, dt_boot, now, slot, answers, server, due>>

(* A second ends at the server. *)
ServerSecond ==
    /\ server < MaxTime
    /\ server' = server + 1 /\ due' = TRUE
    /\ UNCHANGED <<clktime, dt_boot, dt_bootvalid, tpc, now, slot, answers, told>>

(* clkhandler: 1000 interrupts later, a second ends here.  An interrupt may be
   lost, so ours are as long as the server's or longer. *)
Second ==
    /\ due /\ due' = FALSE
    /\ clktime' = clktime + 1
    /\ UNCHANGED <<dt_boot, dt_bootvalid, tpc, now, slot, answers, server, told>>

(* An answer is lost, or comes when nobody has a slot for it. *)
Lost(t) ==
    /\ t \in answers /\ answers' = answers \ {t}
    /\ UNCHANGED <<clktime, dt_boot, dt_bootvalid, tpc, now, slot, server, due, told>>

TimeInit ==
    /\ clktime = 0 /\ dt_boot = 0 /\ dt_bootvalid = FALSE
    /\ tpc = [p \in Caller |-> "idle"]
    /\ now = [p \in Caller |-> 0]
    /\ told = [p \in Caller |-> Nobody]
    /\ slot = Nobody /\ answers = {} /\ server = Boot /\ due \in BOOLEAN

TimeNext ==
    \/ \E p \in Caller :
        \/ GetTime(p) \/ NoAddress(p) \/ Register(p) \/ SendRequest(p) \/ Timeout(p)
        \/ UdpRelease(p) \/ SetBoot(p) \/ SetValid(p)
        \/ \E t \in answers : Receive(p, t)
    \/ Second \/ ServerSecond
    \/ \E t \in answers : Lost(t)

TimeSpec == TimeInit /\ [][TimeNext]_timeVars

-----------------------------------------------------------------------------
(* Whatever was delayed, and however the calls overlap, the time of day is at
   most one second ahead of the server's, and so is any time that a caller was
   told.  One it may be: the second in which the answer was sent may end here
   before it ends at the server, and the answer says nothing of fractions. *)
BarelyAhead ==
    /\ dt_bootvalid => dt_boot + clktime <= server + 1
    /\ \A p \in Caller : told[p] # Nobody => told[p] + ZONE <= server + 1

(* getutime gives up in several places: the one UDP slot that it registers is
   free again whichever way it leaves, so that the next call can have it. *)
SlotReleased ==
    \A p \in Caller : slot = p <=> tpc[p] \in {"send", "recv", "release"}
=============================================================================
