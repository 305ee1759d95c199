--------------------------- MODULE MachineSockets ---------------------------
(***************************************************************************)
(* One machine's entry of machine_sids, as those who emit to it see it:    *)
(* which sockets the set may gain or lose, and when.  RpcDispatch takes    *)
(* its sockets to behave like this; MachinePresence, which has the         *)
(* handlers that write the set, is shown to make them do so.               *)
(***************************************************************************)
CONSTANT Sockets    \* Socket.IO connections of daemons, each made once

VARIABLES
    link,           \* each connection: new, live or gone
    members         \* machine_sids[machine_id]; {} is a missing key

vars == <<link, members>>

Init ==
    /\ link = [s \in Sockets |-> "new"]
    /\ members = {}

(* A daemon connects; if it names this machine it is entered at once.      *)
Open(s) ==
    /\ link[s] = "new"
    /\ link' = [link EXCEPT ![s] = "live"]
    /\ members' \in {members, members \cup {s}}

(* A registration ends, maybe after the disconnect of its socket.          *)
Enter(s) ==
    /\ link[s] # "new"
    /\ members' = members \cup {s}
    /\ UNCHANGED link

(* A daemon disconnects.  It leaves this set and no other socket does, but *)
(* if it goes by another machine's id by then, it stays.                   *)
Close(s) ==
    /\ link[s] = "live"
    /\ link' = [link EXCEPT ![s] = "gone"]
    /\ members' \in {members, members \ {s}}

(* The server stops and starts again.                                      *)
Restart ==
    /\ link' = [s \in Sockets |-> IF link[s] = "new" THEN "new" ELSE "gone"]
    /\ members' = {}

Next ==
    \/ \E s \in Sockets : Open(s) \/ Enter(s) \/ Close(s)
    \/ Restart

Spec == Init /\ [][Next]_vars
=============================================================================
