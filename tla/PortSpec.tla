------------------------------ MODULE PortSpec -------------------------------
(***************************************************************************)
(* What ports promise.  An open port is a first-in first-out channel for   *)
(* as many messages as it was created for.  A call that must wait is       *)
(* pending; clearing a port, by ptdelete or ptreset, empties it and ends   *)
(* every pending call at once: no call that began before takes effect      *)
(* after, neither in the port's next life nor while it is being cleared.   *)
(***************************************************************************)
EXTENDS Naturals, Sequences

CONSTANTS
    Port,           \* ports
    Pid,            \* processes that use them
    Msg,            \* messages
    Nothing         \* no port is open, no call is pending

VARIABLES
    channel,        \* the messages of an open port, Nothing otherwise
    size,           \* the messages that an open port can hold
    pending         \* the call that each process waits in, Nothing otherwise

portSpecVars == <<channel, size, pending>>

Init ==
    /\ channel = [i \in Port |-> Nothing]
    /\ size = [i \in Port |-> 0]
    /\ pending = [p \in Pid |-> Nothing]

IsOpen(i) == channel[i] # Nothing

Open(i, n) ==
    /\ ~IsOpen(i)
    /\ channel' = [channel EXCEPT ![i] = <<>>]
    /\ size' = [size EXCEPT ![i] = n]
    /\ UNCHANGED pending

WaitIn(p, call, i) ==
    /\ IsOpen(i) /\ pending[p] = Nothing
    /\ pending' = [pending EXCEPT ![p] = [call |-> call, port |-> i]]
    /\ UNCHANGED <<channel, size>>

(* A call that waits, or one that has just begun, has its effect. *)
Completes(p, call, i) ==
    /\ IsOpen(i) /\ pending[p] \in {Nothing, [call |-> call, port |-> i]}
    /\ pending' = [pending EXCEPT ![p] = Nothing]
    /\ UNCHANGED size

Send(p, i, msg) ==
    /\ Completes(p, "send", i)
    /\ Len(channel[i]) < size[i]
    /\ channel' = [channel EXCEPT ![i] = Append(@, msg)]

Recv(p, i) ==
    /\ Completes(p, "recv", i)
    /\ channel[i] # <<>>
    /\ channel' = [channel EXCEPT ![i] = Tail(@)]

Clear(i) ==
    /\ IsOpen(i)
    /\ channel' = [channel EXCEPT ![i] = Nothing]
    /\ pending' = [p \in Pid |-> IF pending[p] # Nothing /\ pending[p].port = i
                                 THEN Nothing ELSE pending[p]]
    /\ UNCHANGED size

(* A process is killed in a call. *)
Abandon(p) ==
    /\ pending' = [pending EXCEPT ![p] = Nothing]
    /\ UNCHANGED <<channel, size>>

Next ==
    \/ \E i \in Port :
        \/ Clear(i)
        \/ size'[i] \in Nat /\ Open(i, size'[i])
        \/ \E p \in Pid :
            \/ WaitIn(p, "send", i) \/ WaitIn(p, "recv", i) \/ Recv(p, i)
            \/ \E msg \in Msg : Send(p, i, msg)
    \/ \E p \in Pid : Abandon(p)

Spec == Init /\ [][Next]_portSpecVars
=============================================================================
