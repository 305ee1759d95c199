------------------------------ MODULE Sessions ------------------------------
(***************************************************************************)
(* The sessions of the server: a row of the table sessions each, and in    *)
(* memory session_owners, by which a request of the web finds the machine  *)
(* to relay to.  Daemons create, end, update and reset sessions by events; *)
(* the web spawns them, stops them and asks them by REST.                  *)
(*                                                                         *)
(* A step is what runs between two awaits, with the statement it hands to  *)
(* SQLite.  What an event carries is left open until it is used.  No       *)
(* handler deletes a row.                                                  *)
(***************************************************************************)
EXTENDS Naturals

CONSTANTS
    Ids,            \* session ids
    Machines,       \* the machines a spawn can be sent to
    Daemons,        \* the machines daemons say they are, maybe NoMachine
    NoMachine,      \* the empty id of a daemon that gave none
    Deks, NoDek,    \* wrapped session keys, and none
    Handlers,       \* the handlers that can be under way at a time
    Keys,           \* keys of a metadata dict, whose values are left out
    MaxRestarts

ASSUME SessionAssumption ==
    /\ NoMachine \notin Machines
    /\ NoDek \notin Deks
    /\ {"source", "summary"} \subseteq Keys
    /\ MaxRestarts \in Nat

VARIABLES
    rows,       \* the table: id -> [machine, status, meta, dek]
    owners,     \* session_owners: id -> machine
    op,         \* where each handler is, and what it has read
    gone,       \* handlers whose client was answered 504 meanwhile
    restarts,
    spawned,    \* history: where each session was spawned
    written,    \* history: the metadata keys given since the last replacement
    torn,       \* history: sessions whose metadata was written from a copy
                \* that was no longer what is stored
    loose       \* history: sessions of which an operation has touched the row
                \* or the owner and not the other

history == <<spawned, written, torn, loose>>
vars == <<rows, owners, op, gone, restarts, spawned, written, torn, loose>>

Idle == [at |-> "idle"]

Rows == [machine : Daemons, status : {"active", "ended"},
         meta : SUBSET Keys, dek : Deks \cup {NoDek}]

Ops ==
    UNION {
        {Idle},
        [at : {"inserting", "provisioning", "disowning", "resuming", "stopping"},
         id : Ids],
        [at : {"owning"}, id : Ids, machine : Daemons],
        [at : {"ending"}, id : Ids, by : {"end", "stop", "reset"}, copy : SUBSET Keys],
        [at : {"updating"}, id : Ids, copy : SUBSET Keys, resumes : BOOLEAN]}

Init ==
    /\ rows = << >>
    /\ owners = << >>
    /\ op = [h \in Handlers |-> Idle]
    /\ gone = {}
    /\ restarts = 0
    /\ spawned = [id \in Ids |-> {}]
    /\ written = [id \in Ids |-> {}]
    /\ torn = {}
    /\ loose = {}

Known == DOMAIN rows
Owned == DOMAIN owners

(* f with x mapped to y, in its domain or not.                             *)
Put(f, x, y) == [z \in DOMAIN f \cup {x} |-> IF z = x THEN y ELSE f[z]]
Pop(f, x) == [z \in DOMAIN f \ {x} |-> f[z]]

(* A handler goes on, or ends: it returns or raises.                       *)
GoesOn(h, next) ==
    /\ op' = [op EXCEPT ![h] = next]
    /\ UNCHANGED gone

Ends(h) ==
    /\ op' = [op EXCEPT ![h] = Idle]
    /\ gone' = gone \ {h}

-----------------------------------------------------------------------------
(* session-create.                                                         *)

(* SELECT: an id that is free is inserted, next.                           *)
CreateSelect(h, id) ==
    /\ op[h] = Idle
    /\ id \notin Known
    /\ GoesOn(h, [at |-> "inserting", id |-> id])
    /\ UNCHANGED <<rows, owners, restarts, history>>

(* Mutated: the daemon that creates a session once more takes it over.     *)
CreateTakesOver(h, id) ==
    /\ op[h] = Idle
    /\ id \in Known
    /\ \E m \in Daemons : GoesOn(h, [at |-> "owning", id |-> id, machine |-> m])
    /\ UNCHANGED <<rows, owners, restarts, history>>

(* SELECT of an id that is there: it is given the key if it has none.      *)
CreateAgain(h, id) ==
    /\ op[h] = Idle
    /\ id \in Known
    /\ rows[id].dek = NoDek
    /\ GoesOn(h, [at |-> "provisioning", id |-> id])
    /\ UNCHANGED <<rows, owners, restarts, history>>

Insert(h, machine, meta, dek) ==
    LET id == op[h].id IN
    /\ op[h].at = "inserting"
    /\ id \notin Known
    /\ rows' = Put(rows, id,
           [machine |-> machine, status |-> "active", meta |-> meta, dek |-> dek])
    /\ written' = [written EXCEPT ![id] = meta]
    /\ GoesOn(h, [at |-> "owning", id |-> id, machine |-> machine])
    /\ UNCHANGED <<owners, restarts, spawned, torn, loose>>

(* Another handler inserted the id since: IntegrityError.                  *)
Clash(h) ==
    /\ op[h].at = "inserting"
    /\ op[h].id \in Known
    /\ Ends(h)
    /\ UNCHANGED <<rows, owners, restarts, history>>

Mark(id, apart) == loose' = IF apart THEN loose \cup {id} ELSE loose \ {id}

Own(h) ==
    LET o == op[h] IN
    /\ o.at = "owning"
    /\ owners' = Put(owners, o.id, o.machine)
    /\ Mark(o.id, rows[o.id].status = "ended")
    /\ Ends(h)
    /\ UNCHANGED <<rows, restarts, spawned, written, torn>>

(* UPDATE of the key, by session-create or provision-session-dek.          *)
Provision(h, dek) ==
    /\ op[h].at = "provisioning"
    /\ rows' = [rows EXCEPT ![op[h].id].dek = dek]
    /\ Ends(h)
    /\ UNCHANGED <<owners, restarts, history>>

ProvisionDek(id, dek) ==
    /\ id \in Known
    /\ rows' = [rows EXCEPT ![id].dek = dek]
    /\ UNCHANGED <<owners, op, gone, restarts, history>>

-----------------------------------------------------------------------------
(* end_session, for session-end, the stop of the web and session-reset.    *)

(* SELECT of a row that is there; that of no row raises.                   *)
Ending(id, by) == [at |-> "ending", id |-> id, by |-> by, copy |-> rows[id].meta]

End(h, id, by) ==
    /\ op[h] = Idle
    /\ id \in Known
    /\ GoesOn(h, Ending(id, by))
    /\ UNCHANGED <<rows, owners, restarts, history>>

(* A reset has a summary of its own, session-end may bring one.            *)
Summaries(by) ==
    {adds \in SUBSET {"summary"} :
        (by = "reset" => adds # {}) /\ (by = "stop" => adds = {})}

(* What was written is kept track of until it is torn.                     *)
Keep(id, copy, adds) ==
    IF id \notin torn /\ copy = rows[id].meta
    THEN written' = [written EXCEPT ![id] = @ \cup adds] /\ UNCHANGED torn
    ELSE written' = [written EXCEPT ![id] = {}] /\ torn' = torn \cup {id}

(* Mutated: end_session stores the summary and not what was there.         *)
WriteAddsOnly(id, copy, adds, status) ==
    /\ rows' = [rows EXCEPT ![id].meta = IF adds = {} THEN copy ELSE adds,
                            ![id].status = status]
    /\ Keep(id, copy, adds)

(* UPDATE from a copy of the metadata, with some keys set.                 *)
Write(id, copy, adds, status) ==
    /\ rows' = [rows EXCEPT ![id].meta = copy \cup adds, ![id].status = status]
    /\ Keep(id, copy, adds)

EndWrite(h, adds) ==
    LET o == op[h] IN
    /\ o.at = "ending"
    /\ adds \in Summaries(o.by)
    /\ Write(o.id, o.copy, adds, "ended")
    /\ IF o.by = "reset"
       THEN Ends(h) /\ Mark(o.id, TRUE)
       ELSE GoesOn(h, [at |-> "disowning", id |-> o.id]) /\ UNCHANGED loose
    /\ UNCHANGED <<owners, restarts, spawned>>

(* Mutated: session_owners keeps the session.                              *)
DisownNothing(h) ==
    LET id == op[h].id IN
    /\ op[h].at = "disowning"
    /\ Mark(id, rows[id].status = "active")
    /\ Ends(h)
    /\ UNCHANGED <<rows, owners, restarts, spawned, written, torn>>

Disown(h) ==
    LET id == op[h].id IN
    /\ op[h].at = "disowning"
    /\ owners' = Pop(owners, id)
    /\ Mark(id, rows[id].status = "active")
    /\ Ends(h)
    /\ UNCHANGED <<rows, restarts, spawned, written, torn>>

-----------------------------------------------------------------------------
(* Metadata: update-metadata replaces it, update-session reads it, sets    *)
(* keys and writes it back, and makes a session that was ended when it was *)
(* read active again.                                                      *)

UpdateMetadata(id, meta) ==
    /\ id \in Known
    /\ rows' = [rows EXCEPT ![id].meta = meta]
    /\ written' = [written EXCEPT ![id] = meta]
    /\ torn' = torn \ {id}
    /\ UNCHANGED <<owners, op, gone, restarts, spawned, loose>>

UpdateSelect(h, id, managed) ==
    /\ op[h] = Idle
    /\ id \in Known
    /\ GoesOn(h, [at |-> "updating", id |-> id, copy |-> rows[id].meta,
                  resumes |-> managed /\ rows[id].status = "ended"])
    /\ UNCHANGED <<rows, owners, restarts, history>>

UpdateWrite(h, adds) ==
    LET o == op[h] IN
    /\ o.at = "updating"
    /\ o.resumes => "source" \in adds
    /\ Write(o.id, o.copy, adds, rows[o.id].status)
    /\ IF o.resumes THEN GoesOn(h, [at |-> "resuming", id |-> o.id]) ELSE Ends(h)
    /\ UNCHANGED <<owners, restarts, spawned, loose>>

Resume(h) ==
    LET id == op[h].id IN
    /\ op[h].at = "resuming"
    /\ rows' = [rows EXCEPT ![id].status = "active"]
    /\ Mark(id, TRUE)
    /\ Ends(h)
    /\ UNCHANGED <<owners, restarts, spawned, written, torn>>

-----------------------------------------------------------------------------
(* Requests of the web.                                                    *)

(* Mutated: it is not checked that a machine was found.                    *)
SpawnUnchecked(id, machine) ==
    /\ owners' = Put(owners, id, NoMachine)
    /\ spawned' = [spawned EXCEPT ![id] = @ \cup {NoMachine}]
    /\ Mark(id, TRUE)
    /\ UNCHANGED <<rows, op, gone, restarts, written, torn>>

(* sessions/create makes up the id, sessions/{id}/spawn is given one; the  *)
(* machine is given or the first that is connected.  The call that follows *)
(* returns or raises, and neither changes anything.                        *)
Spawn(id, machine) ==
    /\ owners' = Put(owners, id, machine)
    /\ spawned' = [spawned EXCEPT ![id] = @ \cup {machine}]
    /\ Mark(id, TRUE)
    /\ UNCHANGED <<rows, op, gone, restarts, written, torn>>

(* Where abort, answer, permission, switch-mode, user-input and stop are   *)
(* relayed: to the owner in memory, else to that of the row, else 404.     *)
Route(id) ==
    IF id \in Owned /\ owners[id] # NoMachine THEN owners[id]
    ELSE IF id \in Known THEN rows[id].machine ELSE NoMachine

Stop(h, id) ==
    /\ op[h] = Idle
    /\ Route(id) # NoMachine
    /\ GoesOn(h, [at |-> "stopping", id |-> id])
    /\ UNCHANGED <<rows, owners, restarts, history>>

(* The daemon has answered: end_session, next.                             *)
StopReplied(h) ==
    LET id == op[h].id IN
    /\ op[h].at = "stopping"
    /\ id \in Known
    /\ GoesOn(h, Ending(id, "stop"))
    /\ UNCHANGED <<rows, owners, restarts, history>>

(* The call raises, or end_session does, of a session without a row.       *)
StopFails(h) ==
    /\ op[h].at = "stopping"
    /\ Ends(h)
    /\ UNCHANGED <<rows, owners, restarts, history>>

(* Whether the handler has still to write the end of a stop.               *)
Stops(h) ==
    \/ op[h].at = "stopping"
    \/ op[h].at = "ending" /\ op[h].by = "stop"

(* Mutated: the handler is cancelled with its request.                     *)
GiveUpCancels(h) ==
    /\ Stops(h)
    /\ Ends(h)
    /\ UNCHANGED <<rows, owners, restarts, history>>

(* RequestTimeoutMiddleware answers 504.  It cancels its wait for the      *)
(* response; the handler runs in a task of its own and goes on.            *)
GiveUp(h) ==
    /\ Stops(h)
    /\ h \notin gone
    /\ gone' = gone \cup {h}
    /\ UNCHANGED <<rows, owners, op, restarts, history>>

(* The server stops and starts: it keeps the rows only.                    *)
Restart ==
    /\ restarts < MaxRestarts
    /\ restarts' = restarts + 1
    /\ owners' = << >>
    /\ op' = [h \in Handlers |-> Idle]
    /\ gone' = {}
    /\ loose' = Ids
    /\ UNCHANGED <<rows, spawned, written, torn>>

EndStep(h) == \E adds \in SUBSET {"summary"} : EndWrite(h, adds)
-----------------------------------------------------------------------------
(* The steps of a handler that wait for SQLite only.                       *)
Step(h) ==
    \/ \E m \in Daemons, meta \in SUBSET Keys, dek \in Deks \cup {NoDek} :
           Insert(h, m, meta, dek)
    \/ Clash(h)
    \/ Own(h)
    \/ \E dek \in Deks : Provision(h, dek)
    \/ EndStep(h)
    \/ Disown(h)
    \/ \E adds \in SUBSET ({"tag", "source"} \cap Keys) : UpdateWrite(h, adds)
    \/ Resume(h)

Begin(h, id) ==
    \/ CreateSelect(h, id)
    \/ CreateAgain(h, id)
    \/ \E by \in {"end", "reset"} : End(h, id, by)
    \/ \E managed \in BOOLEAN : UpdateSelect(h, id, managed)
    \/ Stop(h, id)

Next ==
    \/ \E h \in Handlers :
        \/ \E id \in Ids : Begin(h, id)
        \/ Step(h)
        \/ StopReplied(h)
        \/ StopFails(h)
        \/ GiveUp(h)
    \/ \E id \in Ids :
        \/ \E m \in Machines : Spawn(id, m)
        \/ \E dek \in Deks : ProvisionDek(id, dek)
        \/ \E meta \in SUBSET Keys : UpdateMetadata(id, meta)
    \/ Restart

(* A handler that has read the session writes its end: it waits only for   *)
(* SQLite.                                                                 *)
Spec == Init /\ [][Next]_vars
FairSpec == Spec /\ \A h \in Handlers : WF_vars(EndStep(h))

-----------------------------------------------------------------------------
(* The values each record can hold; only a handler under way has a client  *)
(* that was answered before it.                                            *)
TypeOK ==
    /\ Known \subseteq Ids /\ rows \in [Known -> Rows]
    /\ Owned \subseteq Ids /\ owners \in [Owned -> Machines \cup Daemons]
    /\ op \in [Handlers -> Ops]
    /\ gone \subseteq {h \in Handlers : op[h] # Idle}
    /\ restarts \in 0..MaxRestarts
    /\ spawned \in [Ids -> SUBSET Machines]
    /\ written \in [Ids -> SUBSET Keys]
    /\ torn \subseteq Known
    /\ loose \subseteq Ids

(* Where a session can run: where the web had it spawned, or with the      *)
(* daemon that created its row.                                            *)
Homes(id) == spawned[id] \cup {rows[i].machine : i \in {id} \cap Known}

(* Requests of the web reach a machine the session can run on, by the      *)
(* owner in memory or after a restart by the row: two daemons that create  *)
(* one session do not take it from each other.                             *)
RoutedHome ==
    \A id \in Ids : Route(id) \in Homes(id) \cup {NoMachine}

(* No handler is between its two records of the session.                   *)
Settled(id) ==
    \A h \in Handlers : op[h].at \in {"owning", "disowning"} => op[h].id # id

(* A session is in memory as long as it is active, and differs from its    *)
(* row only since a spawn, a reset, a resumption, a restart, or an end     *)
(* that another handler overtook; a create that clashed, a stop that       *)
(* failed or an end of an unknown session leave no difference.             *)
OwnersFollowRows ==
    \A id \in Ids \ loose :
        Settled(id) =>
            (id \in Owned <=> id \in Known /\ rows[id].status = "active")

(* Each key of the metadata that was set since it was last replaced is     *)
(* stored, whatever ended, reset or resumed the session meanwhile, unless  *)
(* a handler wrote back a copy that another had outdated.                  *)
MetadataComplete ==
    \A id \in Known \ torn : rows[id].meta = written[id]

(* A stop that the daemon confirmed ends the session, also after the web   *)
(* was told 504, unless the server stops first.                            *)
StopsFinish ==
    \A h \in Handlers, id \in Ids, n \in 0..MaxRestarts :
        (/\ op[h].at = "ending" /\ op[h].by = "stop" /\ op[h].id = id
         /\ restarts = n)
            ~> (restarts > n \/ (id \in Known /\ rows[id].status = "ended"))
=============================================================================
