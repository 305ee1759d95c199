--------------------------- MODULE MachinePresence ---------------------------
(***************************************************************************)
(* Which machines are there: the four records server.py keeps of it, and   *)
(* the handlers that write them.  connected_daemons and machine_sids live  *)
(* in memory, machines.active in SQLite, the backoff of a lost machine in  *)
(* ReconnectManager, and the web sees only the status events.              *)
(*                                                                         *)
(* connect and disconnect of one socket never overlap (engine.io runs them *)
(* in line), every other event is a task of its own: a registration can be *)
(* overtaken by the disconnect of its socket.  A step is what runs between *)
(* two awaits, with the statement it hands to SQLite's one worker.         *)
(***************************************************************************)
EXTENDS Naturals

CONSTANTS
    Machines,     \* machine ids
    Sockets,      \* authenticated daemon connections, each made once
    None          \* no machine id

ASSUME NoneAssumption == None \notin Machines

VARIABLES
    conn,         \* each socket: new, live (a key of connected_daemons), gone
    daemon,       \* the machine_id connected_daemons holds for it
    machineSids,  \* machine_sids; {} is a missing key
    row,          \* each machine's row in SQLite: none, active or inactive
    reg,          \* the on_machine_register that runs on each socket
    leaving,      \* <<s, m>>: disconnect of s, the last of m, awaits SQLite
    attempts,     \* ReconnectManager's attempts, 0 when not tracked
    ui,           \* last status event of each machine since the server began
    announced,    \* history: the machineId each socket connected with
    registered,   \* history: the ids under which each socket has registered
    late,         \* history: sockets whose registration outlived them
    claimed,      \* history: machines last announced by no daemon of theirs
    rested        \* history: machines active with no socket to disconnect

memory == <<conn, daemon, machineSids>>
status == <<attempts, ui, claimed>>
history == <<announced, registered, late, rested>>
vars == <<conn, daemon, machineSids, row, reg, leaving, attempts, ui,
          announced, registered, late, claimed, rested>>

(* A registration has selected the machine's row (found or not) and then   *)
(* written it.                                                             *)
Idle == [phase |-> "idle"]
Registrations ==
    {Idle} \cup [phase : {"selected", "written"}, id : Machines, found : BOOLEAN]

Init ==
    /\ conn = [s \in Sockets |-> "new"]
    /\ daemon = [s \in Sockets |-> None]
    /\ machineSids = [m \in Machines |-> {}]
    /\ row = [m \in Machines |-> "none"]
    /\ reg = [s \in Sockets |-> Idle]
    /\ leaving = {}
    /\ attempts = [m \in Machines |-> 0]
    /\ ui = [m \in Machines |-> "none"]
    /\ announced = [s \in Sockets |-> None]
    /\ registered = [s \in Sockets |-> {}]
    /\ late = {}
    /\ claimed = {}
    /\ rested = {}

-----------------------------------------------------------------------------
(* connect of a daemon, with the machineId of its auth data: the socket is *)
(* routed to at once, the backoff is dropped and the web is told. SQLite   *)
(* is not.                                                                 *)
Announce(s, m) ==
    /\ conn[s] = "new"
    /\ conn' = [conn EXCEPT ![s] = "live"]
    /\ daemon' = [daemon EXCEPT ![s] = m]
    /\ machineSids' = [machineSids EXCEPT ![m] = @ \cup {s}]
    /\ attempts' = [attempts EXCEPT ![m] = 0]
    /\ ui' = [ui EXCEPT ![m] = "online"]
    /\ announced' = [announced EXCEPT ![s] = m]
    /\ claimed' = claimed \ {m}
    /\ UNCHANGED <<row, reg, leaving, registered, late, rested>>

(* connect without one: the id of the token, if it has any, is remembered, *)
(* but nothing is routed until the socket registers.                       *)
ConnectUnnamed(s, id) ==
    /\ conn[s] = "new"
    /\ conn' = [conn EXCEPT ![s] = "live"]
    /\ daemon' = [daemon EXCEPT ![s] = id]
    /\ UNCHANGED <<machineSids, row, reg, leaving, status, history>>

(* connect of a client that is no daemon (user-scoped, the default, which  *)
(* shows no token) but names a machine: it is told of as one, and nothing  *)
(* is kept of it, so that no disconnect of its takes that back.            *)
ConnectUser(m) ==
    /\ attempts' = [attempts EXCEPT ![m] = 0]
    /\ ui' = [ui EXCEPT ![m] = "online"]
    /\ claimed' = claimed \cup {m}
    /\ UNCHANGED <<memory, row, reg, leaving, history>>

(* Mutated: the socket is dropped from connected_daemons only.             *)
DiscardNothing(s, m) == UNCHANGED machineSids

(* Mutated: a machine's set is dropped with any of its sockets.            *)
DiscardAll(s, m) ==
    machineSids' = [n \in Machines |-> IF n = m THEN {} ELSE machineSids[n]]

(* The socket leaves the set of the machine connected_daemons names now,   *)
(* and no other.                                                           *)
Discard(s, m) ==
    machineSids' = [n \in Machines |->
        IF n = m THEN machineSids[n] \ {s} ELSE machineSids[n]]

(* Mutated: the machine goes with any of its sockets.                      *)
AnySocket(s, m) == m # None /\ s \in machineSids[m]

(* The set is there, and empty without the socket.                         *)
LastSocket(s, m) ==
    m # None /\ machineSids[m] # {} /\ machineSids[m] \ {s} = {}

(* disconnect up to its first await: the last socket to leave marks the    *)
(* row inactive.                                                           *)
Disconnect(s) ==
    LET m == daemon[s] IN
    /\ conn[s] = "live"
    /\ conn' = [conn EXCEPT ![s] = "gone"]
    /\ daemon' = [daemon EXCEPT ![s] = None]
    /\ Discard(s, m)
    /\ IF LastSocket(s, m)
       THEN /\ row' = [row EXCEPT ![m] = IF @ = "none" THEN @ ELSE "inactive"]
            /\ leaving' = leaving \cup {<<s, m>>}
            /\ rested' = rested \ {m}
       ELSE UNCHANGED <<row, leaving, rested>>
    /\ UNCHANGED <<reg, status, announced, registered, late>>

(* Mutated: the backoff advances but the web is not told.                  *)
GoOfflineSilently(s, m) ==
    /\ <<s, m>> \in leaving
    /\ leaving' = leaving \ {<<s, m>>}
    /\ attempts' = [attempts EXCEPT ![m] = @ + 1]
    /\ UNCHANGED <<memory, row, reg, ui, claimed, history>>

(* disconnect after SQLite answered: it does not look whether the machine  *)
(* has come back meanwhile.                                                *)
GoOffline(s, m) ==
    /\ <<s, m>> \in leaving
    /\ leaving' = leaving \ {<<s, m>>}
    /\ attempts' = [attempts EXCEPT ![m] = @ + 1]
    /\ ui' = [ui EXCEPT ![m] = "offline"]
    /\ claimed' = claimed \ {m}
    /\ UNCHANGED <<memory, row, reg, history>>

-----------------------------------------------------------------------------
(* machine-register, in three steps: SELECT the row, write it, and then    *)
(* enter the socket in machine_sids, connected or not.  One runs at a time *)
(* on each socket.                                                         *)

(* The id is the one the daemon sends, else the one it is known by.        *)
RegisterSelect(s, m) ==
    /\ conn[s] = "live"
    /\ reg[s] = Idle
    /\ reg' = [reg EXCEPT ![s] =
           [phase |-> "selected", id |-> m, found |-> row[m] # "none"]]
    /\ UNCHANGED <<memory, row, leaving, status, history>>

RegisterUpdate(s) ==
    /\ reg[s].phase = "selected"
    /\ reg[s].found
    /\ row' = [row EXCEPT ![reg[s].id] = "active"]
    /\ reg' = [reg EXCEPT ![s].phase = "written"]
    /\ UNCHANGED <<memory, leaving, status, history>>

RegisterInsert(s) ==
    /\ reg[s].phase = "selected"
    /\ ~reg[s].found
    /\ row[reg[s].id] = "none"
    /\ row' = [row EXCEPT ![reg[s].id] = "active"]
    /\ reg' = [reg EXCEPT ![s].phase = "written"]
    /\ UNCHANGED <<memory, leaving, status, history>>

(* Another registration inserted the row since: INSERT raises              *)
(* IntegrityError and the handler ends there.                              *)
RegisterClash(s) ==
    /\ reg[s].phase = "selected"
    /\ ~reg[s].found
    /\ row[reg[s].id] # "none"
    /\ reg' = [reg EXCEPT ![s] = Idle]
    /\ UNCHANGED <<memory, row, leaving, status, history>>

(* Mutated: a socket that is gone is put back in connected_daemons.        *)
RenameAnyway(s, m) == daemon' = [daemon EXCEPT ![s] = m]

(* connected_daemons takes the id; of a socket that is gone, the id is     *)
(* written to the orphaned record.                                         *)
Rename(s, m) == daemon' = [daemon EXCEPT ![s] = IF conn[s] = "live" THEN m ELSE @]

(* Mutated: the id changes but the socket is not entered under it.         *)
EnterNothing(s, m) == UNCHANGED machineSids

(* The socket is entered under the id, connected or not.                   *)
Enter(s, m) == machineSids' = [machineSids EXCEPT ![m] = @ \cup {s}]

RegisterFinish(s) ==
    LET m == reg[s].id IN
    /\ reg[s].phase = "written"
    /\ reg' = [reg EXCEPT ![s] = Idle]
    /\ Rename(s, m)
    /\ Enter(s, m)
    /\ registered' = [registered EXCEPT ![s] = @ \cup {m}]
    /\ late' = IF conn[s] = "live" THEN late ELSE late \cup {s}
    /\ UNCHANGED <<conn, row, leaving, status, announced, rested>>

-----------------------------------------------------------------------------
(* Mutated: the heartbeat refreshes its times but not active.              *)
HeartbeatTimesOnly(s) ==
    /\ conn[s] = "live"
    /\ UNCHANGED vars

(* machine-heartbeat updates the row of the machine, if there is one,      *)
(* whether the socket is entered under it or not.                          *)
Heartbeat(s) ==
    LET m == daemon[s] IN
    /\ conn[s] = "live"
    /\ m # None
    /\ row' = [row EXCEPT ![m] = IF @ = "none" THEN @ ELSE "active"]
    /\ rested' = IF row[m] = "none" \/ s \in machineSids[m]
                 THEN rested ELSE rested \cup {m}
    /\ UNCHANGED <<memory, reg, leaving, status, announced, registered, late>>

(* The server stops and starts again: its memory, its sockets and the      *)
(* handlers under way are lost, the rows are kept as they are.             *)
Restart ==
    /\ conn' = [s \in Sockets |-> IF conn[s] = "new" THEN "new" ELSE "gone"]
    /\ daemon' = [s \in Sockets |-> None]
    /\ machineSids' = [m \in Machines |-> {}]
    /\ reg' = [s \in Sockets |-> Idle]
    /\ leaving' = {}
    /\ attempts' = [m \in Machines |-> 0]
    /\ ui' = [m \in Machines |-> "none"]
    /\ claimed' = {}
    /\ rested' = {m \in Machines : row[m] = "active"}
    /\ UNCHANGED <<row, announced, registered, late>>

Next ==
    \/ \E s \in Sockets :
        \/ \E m \in Machines : Announce(s, m)
        \/ \E id \in Machines \cup {None} : ConnectUnnamed(s, id)
        \/ Disconnect(s)
        \/ \E m \in Machines : GoOffline(s, m)
        \/ \E m \in Machines : RegisterSelect(s, m)
        \/ RegisterUpdate(s)
        \/ RegisterInsert(s)
        \/ RegisterClash(s)
        \/ RegisterFinish(s)
        \/ Heartbeat(s)
    \/ \E m \in Machines : ConnectUser(m)
    \/ Restart

(* A daemon beats at a fixed interval while it is connected.               *)
Spec == Init /\ [][Next]_vars
FairSpec == Spec /\ \A s \in Sockets : WF_vars(Heartbeat(s))

-----------------------------------------------------------------------------
(* The values each record can hold; only a live socket has a machine.      *)
TypeOK ==
    /\ conn \in [Sockets -> {"new", "live", "gone"}]
    /\ daemon \in [Sockets -> Machines \cup {None}]
    /\ machineSids \in [Machines -> SUBSET Sockets]
    /\ row \in [Machines -> {"none", "active", "inactive"}]
    /\ reg \in [Sockets -> Registrations]
    /\ leaving \subseteq Sockets \X Machines
    /\ attempts \in [Machines -> Nat]
    /\ ui \in [Machines -> {"none", "online", "offline"}]
    /\ announced \in [Sockets -> Machines \cup {None}]
    /\ registered \in [Sockets -> SUBSET Machines]
    /\ late \subseteq Sockets
    /\ claimed \subseteq Machines
    /\ rested \subseteq Machines
    /\ \A s \in Sockets : conn[s] # "live" => daemon[s] = None

Names(s) == registered[s] \cup ({announced[s]} \ {None})

(* dispatch_rpc_to_daemon finds every live socket in the set of the        *)
(* machine it is known by, however the registrations and disconnects of    *)
(* the machine's other sockets interleave.                                 *)
LiveStaysRoutable ==
    \A s \in Sockets : \A m \in Names(s) :
        daemon[s] = m => s \in machineSids[m]

(* A machine is marked active while a socket that announced it, and has    *)
(* registered it, is live: no disconnect of another socket, not even one   *)
(* between the write and the end of the registration, marks it inactive    *)
(* under it.                                                               *)
RegisteredStaysActive ==
    \A s \in Sockets :
        conn[s] = "live" /\ announced[s] \in registered[s]
            => row[announced[s]] = "active"

(* A socket that is gone stays in the set of a machine in two cases only:  *)
(* its registration ended after its disconnect, or it went by a second id. *)
GhostsExplained ==
    \A m \in Machines : \A s \in machineSids[m] :
        conn[s] # "live" => s \in late \/ \E n \in Names(s) : n # m

(* The web takes no machine for online that has gone: once its last socket *)
(* has left and that disconnect has ended, the last it was told is that    *)
(* the machine is offline, and the backoff has advanced, whatever other    *)
(* disconnects overlap. Only a client that is no daemon and names the      *)
(* machine can have said otherwise since.                                  *)
OfflineIsAnnounced ==
    \A m \in Machines \ claimed :
        /\ machineSids[m] = {}
        /\ \A s \in Sockets : <<s, m>> \notin leaving
        /\ ui[m] # "none"
        => ui[m] = "offline" /\ attempts[m] >= 1

(* A machine that no socket is entered for, with no registration about to  *)
(* enter one, is not marked active, and so not counted by /v1/health, with *)
(* two exceptions: its row was left active by a stop of the server, or a   *)
(* daemon that has not registered beat for it.                             *)
AbsentIsInactive ==
    \A m \in Machines \ rested :
        /\ machineSids[m] = {}
        /\ \A s \in Sockets : ~(reg[s].phase = "written" /\ reg[s].id = m)
        => row[m] # "active"

Net(m) == INSTANCE MachineSockets WITH link <- conn, members <- machineSids[m]

(* Each machine's set gains and loses sockets only as MachineSockets lets  *)
(* it, which is all that RpcDispatch assumes of the set it emits to: a     *)
(* socket leaves by its own disconnect only, whatever ids the machines'    *)
(* sockets go by.                                                          *)
SetsAreKept ==
    /\ \A m \in Machines : Net(m)!Init
    /\ [][\A m \in Machines : [Net(m)!Next]_<<conn, machineSids[m]>>]_memory

(* A machine marked inactive under a live socket, as when the last other   *)
(* socket leaves between the write and the end of its registration, is     *)
(* marked active again by its heartbeats.                                  *)
HeartbeatRepairs ==
    \A s \in Sockets : \A m \in Machines :
        (daemon[s] = m /\ row[m] = "inactive")
            ~> (row[m] = "active" \/ daemon[s] # m)
=============================================================================
