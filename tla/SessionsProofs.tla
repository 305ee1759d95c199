--------------------------- MODULE SessionsProofs ---------------------------
(***************************************************************************)
(* The safety of sessions for any ids, machines, handlers, metadata and    *)
(* restarts.  A handler that is to write a session has found its row, and  *)
(* rows neither go away nor change machines; the rest follows from what    *)
(* each handler marks when it leaves the row and the owner apart.          *)
(***************************************************************************)
EXTENDS Sessions, TLAPS

USE DEF Known, Owned

(* What a handler goes by still holds of the rows.                         *)
Minds(h) ==
    LET o == op[h] IN
    /\ o.at \in {"owning", "provisioning", "ending", "disowning", "updating", "resuming"}
           => o.id \in Known
    /\ o.at = "owning" => o.machine = rows[o.id].machine

Minding == \A h \in Handlers : Minds(h)

(* An owner is where the session was spawned or created.                   *)
OwnersHome == \A id \in Owned : owners[id] \in Homes(id)

IInv ==
    /\ TypeOK
    /\ Minding
    /\ OwnersHome
    /\ OwnersFollowRows
    /\ MetadataComplete

-----------------------------------------------------------------------------
LEMMA EmptyDomain == DOMAIN << >> = {}
OBVIOUS

LEMMA NothingMapped ==
    ASSUME NEW S
    PROVE  << >> \in [{} -> S]
OBVIOUS

LEMMA InitIInv == Init => IInv
<1> SUFFICES ASSUME Init PROVE IInv
    OBVIOUS
<1>1. /\ rows = << >> /\ owners = << >> /\ DOMAIN rows = {} /\ DOMAIN owners = {}
      /\ torn = {} /\ loose = {} /\ gone = {}
    BY EmptyDomain DEF Init
<1>2. rows \in [Known -> Rows] /\ owners \in [Owned -> Machines \cup Daemons]
    BY <1>1, NothingMapped
<1>3. op \in [Handlers -> Ops] /\ \A h \in Handlers : op[h].at = "idle"
    BY DEF Init, Ops, Idle
<1>4. /\ spawned \in [Ids -> SUBSET Machines] /\ written \in [Ids -> SUBSET Keys]
      /\ restarts \in 0..MaxRestarts
    BY SessionAssumption DEF Init
<1>5. TypeOK
    BY <1>1, <1>2, <1>3, <1>4 DEF TypeOK
<1>6. Minding /\ OwnersHome
    BY <1>1, <1>3 DEF Minding, Minds, OwnersHome
<1>7. OwnersFollowRows /\ MetadataComplete
    BY <1>1 DEF OwnersFollowRows, MetadataComplete
<1> QED BY <1>5, <1>6, <1>7 DEF IInv

-----------------------------------------------------------------------------
(* What steps do to the handlers and to the rows.                          *)

(* Rows stay, with their machines.                                         *)
RowsStay == \A id \in Known : id \in Known' /\ rows'[id].machine = rows[id].machine

LEMMA HandlerMoves ==
    ASSUME TypeOK, Minding, RowsStay, NEW h \in Handlers, NEW next \in Ops,
           op' = [op EXCEPT ![h] = next],
           \/ gone' = gone /\ next # Idle
           \/ gone' = gone \ {h},
           next.at \in {"owning", "provisioning", "ending", "disowning",
                        "updating", "resuming"} => next.id \in Known',
           next.at = "owning" => next.machine = rows'[next.id].machine
    PROVE  /\ op' \in [Handlers -> Ops]
           /\ op'[h] = next
           /\ \A k \in Handlers \ {h} : op'[k] = op[k]
           /\ gone' \subseteq {k \in Handlers : op'[k] # Idle}
           /\ Minding'
<1>1. /\ op' \in [Handlers -> Ops] /\ op'[h] = next
      /\ \A k \in Handlers \ {h} : op'[k] = op[k]
    BY DEF TypeOK
<1>2. gone' \subseteq {k \in Handlers : op'[k] # Idle}
    BY <1>1 DEF TypeOK
<1>3. Minding'
    <2> SUFFICES ASSUME NEW k \in Handlers PROVE Minds(k)'
        BY DEF Minding
    <2>1. CASE k = h
        BY <1>1, <2>1 DEF Minds
    <2>2. CASE k # h
        <3>1. op'[k] = op[k] /\ Minds(k)
            BY <1>1, <2>2 DEF Minding
        <3> QED BY <3>1 DEF Minds, RowsStay
    <2> QED BY <2>1, <2>2
<1> QED BY <1>1, <1>2, <1>3

LEMMA RowChanges ==
    ASSUME TypeOK, NEW id \in Known, NEW r \in Rows, r.machine = rows[id].machine,
           rows' = [rows EXCEPT ![id] = r]
    PROVE  /\ Known' = Known
           /\ rows' \in [Known' -> Rows]
           /\ rows'[id] = r
           /\ \A i \in Known \ {id} : rows'[i] = rows[i]
           /\ RowsStay
BY DEF TypeOK, RowsStay

(* A session is settled as before if no handler came to or went from       *)
(* between its two records.                                                *)
LEMMA SettledStays ==
    ASSUME NEW h \in Handlers, NEW id,
           op[h].at \notin {"owning", "disowning"} \/ op[h].id # id,
           \A k \in Handlers \ {h} : op'[k] = op[k],
           Settled(id)'
    PROVE  Settled(id)
BY DEF Settled

-----------------------------------------------------------------------------
(* Handlers that read, or end without a write.                             *)
LEMMA MovesIInv ==
    ASSUME IInv, NEW h \in Handlers, NEW next \in Ops,
           op' = [op EXCEPT ![h] = next],
           \/ gone' = gone /\ next # Idle
           \/ gone' = gone \ {h},
           op[h].at \notin {"owning", "disowning"}, next.at # "owning",
           next.at \in {"provisioning", "ending", "disowning",
                        "updating", "resuming"} => next.id \in Known,
           UNCHANGED <<rows, owners, restarts, history>>
    PROVE  IInv'
<1> USE DEF history
<1>1. RowsStay
    BY DEF RowsStay
<1>2. /\ op' \in [Handlers -> Ops]
      /\ \A k \in Handlers \ {h} : op'[k] = op[k]
      /\ gone' \subseteq {k \in Handlers : op'[k] # Idle}
      /\ Minding'
    BY <1>1, HandlerMoves DEF IInv
<1>3. TypeOK'
    BY <1>2 DEF IInv, TypeOK
<1>4. OwnersHome'
    BY DEF IInv, OwnersHome, Homes
<1>5. OwnersFollowRows'
    BY <1>2, SettledStays DEF IInv, OwnersFollowRows
<1>6. MetadataComplete'
    BY DEF IInv, MetadataComplete
<1> QED BY <1>2, <1>3, <1>4, <1>5, <1>6 DEF IInv

(* What a handler that begins comes to.                                    *)
LEMMA NextOps ==
    ASSUME TypeOK, NEW id \in Ids
    PROVE  /\ \A at \in {"inserting", "provisioning", "disowning", "resuming", "stopping"} :
                  [at |-> at, id |-> id] \in Ops
           /\ id \in Known => \A by \in {"end", "stop", "reset"} : Ending(id, by) \in Ops
           /\ id \in Known => \A resumes \in BOOLEAN :
                  [at |-> "updating", id |-> id, copy |-> rows[id].meta,
                   resumes |-> resumes] \in Ops
           /\ Idle \in Ops
<1>1. id \in Known => rows[id].meta \in SUBSET Keys
    BY DEF TypeOK, Rows
<1> QED BY <1>1 DEF Ops, Ending

LEMMA BeginIInv ==
    ASSUME IInv, NEW h \in Handlers, NEW id \in Ids, Begin(h, id)
    PROVE  IInv'
<1> TypeOK
    BY DEF IInv
<1>1. op[h] = Idle
    BY DEF Begin, CreateSelect, CreateAgain, End, UpdateSelect, Stop
<1>2. op[h].at \notin {"owning", "disowning"}
    BY <1>1 DEF Idle
<1>3. /\ gone' = gone
      /\ UNCHANGED <<rows, owners, restarts, history>>
    BY DEF Begin, CreateSelect, CreateAgain, End, UpdateSelect, Stop, GoesOn
<1>4. ASSUME NEW next \in Ops, next.at \in {"inserting", "stopping"} \/ id \in Known,
             next.at \in {"inserting", "stopping", "provisioning", "ending", "updating"},
             next.id = id, GoesOn(h, next)
      PROVE  IInv'
    <2>1. next # Idle
        BY <1>4 DEF Idle
    <2> QED BY <1>2, <1>3, <1>4, <2>1, MovesIInv DEF GoesOn
<1>5. CASE CreateSelect(h, id) \/ CreateAgain(h, id) \/ Stop(h, id)
    <2>1. PICK at \in {"inserting", "provisioning", "stopping"} :
              /\ GoesOn(h, [at |-> at, id |-> id])
              /\ at = "provisioning" => id \in Known
        BY <1>5 DEF CreateSelect, CreateAgain, Stop
    <2>2. [at |-> at, id |-> id] \in Ops
        BY NextOps
    <2> QED BY <1>4, <2>1, <2>2
<1>6. CASE \E by \in {"end", "reset"} : End(h, id, by)
    <2>1. PICK by \in {"end", "reset"} : End(h, id, by)
        BY <1>6
    <2>2. /\ id \in Known /\ Ending(id, by) \in Ops
          /\ Ending(id, by).at = "ending" /\ Ending(id, by).id = id
        BY <2>1, NextOps DEF End, Ending
    <2> QED BY <1>4, <2>1, <2>2 DEF End
<1>7. CASE \E managed \in BOOLEAN : UpdateSelect(h, id, managed)
    <2>1. PICK managed \in BOOLEAN : UpdateSelect(h, id, managed)
        BY <1>7
    <2> DEFINE resumes == managed /\ rows[id].status = "ended"
               next == [at |-> "updating", id |-> id, copy |-> rows[id].meta,
                        resumes |-> resumes]
    <2>2. id \in Known /\ GoesOn(h, next)
        BY <2>1 DEF UpdateSelect
    <2>3. resumes \in BOOLEAN
        OBVIOUS
    <2> HIDE DEF resumes
    <2>4. next \in Ops
        BY <2>2, <2>3, NextOps
    <2>5. next.at = "updating" /\ next.id = id
        OBVIOUS
    <2> HIDE DEF next
    <2> QED BY <1>4, <2>2, <2>4, <2>5
<1> QED BY <1>5, <1>6, <1>7 DEF Begin

LEMMA AnswersIInv ==
    ASSUME IInv, NEW h \in Handlers,
           Clash(h) \/ StopReplied(h) \/ StopFails(h)
    PROVE  IInv'
<1> TypeOK
    BY DEF IInv
<1>1. op[h].at \in {"inserting", "stopping"}
    BY DEF Clash, StopReplied, StopFails
<1>2. UNCHANGED <<rows, owners, restarts, history>>
    BY DEF Clash, StopReplied, StopFails
<1>3. CASE Clash(h) \/ StopFails(h)
    <2>1. Ends(h)
        BY <1>3 DEF Clash, StopFails
    <2>2. Idle \in Ops /\ Idle.at = "idle"
        BY DEF Ops, Idle
    <2> QED BY <1>1, <1>2, <2>1, <2>2, MovesIInv DEF Ends
<1>4. CASE StopReplied(h)
    <2> DEFINE id == op[h].id
               next == Ending(id, "stop")
    <2>1. id \in Known /\ GoesOn(h, next)
        BY <1>4 DEF StopReplied
    <2>2. id \in Ids
        BY <2>1 DEF TypeOK
    <2>3. next \in Ops /\ next.at = "ending" /\ next.id = id /\ next # Idle
        BY <2>1, <2>2, NextOps DEF Ending, Idle
    <2> HIDE DEF next, id
    <2> QED BY <1>1, <1>2, <2>1, <2>3, MovesIInv DEF GoesOn
<1> QED BY <1>3, <1>4

LEMMA GiveUpIInv ==
    ASSUME IInv, NEW h \in Handlers, GiveUp(h)
    PROVE  IInv'
<1> USE DEF GiveUp, history
<1>1. op[h] # Idle
    BY DEF Stops, Idle
<1>2. TypeOK'
    BY <1>1 DEF IInv, TypeOK
<1>3. Minding' /\ OwnersHome'
    BY DEF IInv, Minding, Minds, OwnersHome, Homes
<1>4. OwnersFollowRows' /\ MetadataComplete'
    BY DEF IInv, OwnersFollowRows, MetadataComplete, Settled
<1> QED BY <1>2, <1>3, <1>4 DEF IInv

-----------------------------------------------------------------------------
(* The two records of a session.                                           *)
LEMMA InsertIInv ==
    ASSUME IInv, NEW h \in Handlers, NEW m \in Daemons, NEW meta \in SUBSET Keys,
           NEW dek \in Deks \cup {NoDek}, Insert(h, m, meta, dek)
    PROVE  IInv'
<1> DEFINE id == op[h].id
           r == [machine |-> m, status |-> "active", meta |-> meta, dek |-> dek]
           next == [at |-> "owning", id |-> id, machine |-> m]
<1>1. /\ op[h].at = "inserting" /\ id \notin Known
      /\ rows' = Put(rows, id, r)
      /\ written' = [written EXCEPT ![id] = meta]
      /\ GoesOn(h, next)
      /\ UNCHANGED <<owners, restarts, spawned, torn, loose>>
    BY DEF Insert
<1>2. id \in Ids
    BY <1>1 DEF IInv, TypeOK, Ops, Idle
<1>3. r \in Rows /\ r.machine = m /\ r.meta = meta
    BY DEF Rows
<1>4. next \in Ops /\ next.at = "owning" /\ next.id = id /\ next.machine = m /\ next # Idle
    BY <1>2 DEF Ops, Idle
<1> HIDE DEF r, next, id
<1>5. /\ Known' = Known \cup {id} /\ rows' \in [Known' -> Rows] /\ rows'[id] = r
      /\ \A i \in Known : rows'[i] = rows[i]
    BY <1>1, <1>3 DEF Put, IInv, TypeOK
<1>6. RowsStay
    BY <1>5 DEF RowsStay
<1>7. /\ op' \in [Handlers -> Ops] /\ op'[h] = next
      /\ \A k \in Handlers \ {h} : op'[k] = op[k]
      /\ gone' \subseteq {k \in Handlers : op'[k] # Idle}
      /\ Minding'
    BY <1>1, <1>3, <1>4, <1>5, <1>6, HandlerMoves DEF GoesOn, IInv
<1>8. TypeOK'
    BY <1>1, <1>2, <1>5, <1>7 DEF IInv, TypeOK
<1>9. OwnersHome'
    BY <1>1, <1>5 DEF IInv, OwnersHome, Homes
<1>10. OwnersFollowRows'
    <2> SUFFICES ASSUME NEW i \in Ids \ loose, Settled(i)'
                 PROVE  i \in Owned <=> i \in Known' /\ rows'[i].status = "active"
        BY <1>1 DEF OwnersFollowRows
    <2>1. i # id
        BY <1>4, <1>7 DEF Settled
    <2>2. Settled(i)
        BY <1>1, <1>7, SettledStays
    <2> QED BY <1>5, <2>1, <2>2 DEF IInv, OwnersFollowRows
<1>11. MetadataComplete'
    <2> SUFFICES ASSUME NEW i \in Known' \ torn PROVE rows'[i].meta = written'[i]
        BY <1>1 DEF MetadataComplete
    <2> QED BY <1>1, <1>2, <1>3, <1>5 DEF IInv, TypeOK, MetadataComplete
<1> QED BY <1>7, <1>8, <1>9, <1>10, <1>11 DEF IInv

LEMMA OwnIInv ==
    ASSUME IInv, NEW h \in Handlers, Own(h) \/ Disown(h)
    PROVE  IInv'
<1> DEFINE id == op[h].id
<1>1. /\ op[h].at \in {"owning", "disowning"}
      /\ Ends(h)
      /\ UNCHANGED <<rows, restarts, spawned, written, torn>>
    BY DEF Own, Disown
<1>2. /\ id \in Known /\ id \in Ids
      /\ op[h].at = "owning" => op[h].machine \in Daemons /\ op[h].machine = rows[id].machine
    BY <1>1 DEF IInv, TypeOK, Ops, Idle, Minding, Minds
<1>3. RowsStay /\ Idle \in Ops /\ Idle.at = "idle"
    BY <1>1 DEF RowsStay, Ops, Idle
<1>4. /\ op' \in [Handlers -> Ops] /\ op'[h] = Idle
      /\ \A k \in Handlers \ {h} : op'[k] = op[k]
      /\ gone' \subseteq {k \in Handlers : op'[k] # Idle}
      /\ Minding'
    BY <1>1, <1>3, HandlerMoves DEF Ends, IInv
<1>5. /\ \A i \in Ids \ {id} : (i \in loose' <=> i \in loose)
      /\ loose' \subseteq Ids
    BY <1>2 DEF Own, Disown, Mark, IInv, TypeOK
<1>6. CASE Own(h)
    <2>1. owners' = Put(owners, id, op[h].machine)
        BY <1>6 DEF Own
    <2>2. /\ Owned' = Owned \cup {id} /\ owners'[id] = op[h].machine
          /\ \A i \in Owned \ {id} : owners'[i] = owners[i]
          /\ owners' \in [Owned' -> Machines \cup Daemons]
        BY <1>2, <1>6, <2>1 DEF Put, Own, IInv, TypeOK
    <2>3. id \notin loose' => rows[id].status = "active"
        BY <1>2, <1>6 DEF Own, Mark, IInv, TypeOK, Rows
    <2>4. TypeOK'
        BY <1>1, <1>2, <1>4, <1>5, <2>2 DEF IInv, TypeOK
    <2>5. OwnersHome'
        BY <1>1, <1>2, <1>6, <2>2 DEF IInv, OwnersHome, Homes, Own
    <2>6. OwnersFollowRows'
        <3> SUFFICES ASSUME NEW i \in Ids \ loose', Settled(i)'
                     PROVE  i \in Owned' <=> i \in Known /\ rows[i].status = "active"
            BY <1>1 DEF OwnersFollowRows
        <3>1. CASE i = id
            BY <1>2, <2>2, <2>3, <3>1
        <3>2. CASE i # id
            <4>1. Settled(i)
                BY <1>4, <3>2, SettledStays
            <4> QED BY <1>5, <2>2, <3>2, <4>1 DEF IInv, OwnersFollowRows
        <3> QED BY <3>1, <3>2
    <2> QED BY <1>1, <1>4, <2>4, <2>5, <2>6 DEF IInv, MetadataComplete
<1>7. CASE Disown(h)
    <2>1. owners' = Pop(owners, id)
        BY <1>7 DEF Disown
    <2>2. /\ Owned' = Owned \ {id}
          /\ \A i \in Owned \ {id} : owners'[i] = owners[i]
          /\ owners' \in [Owned' -> Machines \cup Daemons]
        BY <2>1 DEF Pop, IInv, TypeOK
    <2>3. id \notin loose' => rows[id].status # "active"
        BY <1>2, <1>7 DEF Disown, Mark
    <2>4. TypeOK'
        BY <1>1, <1>2, <1>4, <1>5, <2>2 DEF IInv, TypeOK
    <2>5. OwnersHome'
        BY <1>1, <1>2, <2>2 DEF IInv, OwnersHome, Homes
    <2>6. OwnersFollowRows'
        <3> SUFFICES ASSUME NEW i \in Ids \ loose', Settled(i)'
                     PROVE  i \in Owned' <=> i \in Known /\ rows[i].status = "active"
            BY <1>1 DEF OwnersFollowRows
        <3>1. CASE i = id
            BY <1>2, <2>2, <2>3, <3>1
        <3>2. CASE i # id
            <4>1. Settled(i)
                BY <1>4, <3>2, SettledStays
            <4> QED BY <1>5, <2>2, <3>2, <4>1 DEF IInv, OwnersFollowRows
        <3> QED BY <3>1, <3>2
    <2> QED BY <1>1, <1>4, <2>4, <2>5, <2>6 DEF IInv, MetadataComplete
<1> QED BY <1>6, <1>7

-----------------------------------------------------------------------------
(* Writes to a row that is there.                                          *)

(* One row has a new status and metadata.                                  *)
Rewritten(id, status) ==
    /\ Known' = Known
    /\ rows' \in [Known' -> Rows]
    /\ rows'[id].status = status
    /\ \A i \in Known \ {id} : rows'[i] = rows[i]
    /\ RowsStay
    /\ written' \in [Ids -> SUBSET Keys]
    /\ torn' \subseteq Known

(* Metadata written from a copy is all that was given, or torn.            *)
LEMMA WriteChanges ==
    ASSUME TypeOK, MetadataComplete, NEW id \in Known,
           NEW copy \in SUBSET Keys, NEW adds \in SUBSET Keys,
           NEW status \in {"active", "ended"}, Write(id, copy, adds, status)
    PROVE  Rewritten(id, status) /\ MetadataComplete'
<1> DEFINE r == [rows[id] EXCEPT !.meta = copy \cup adds, !.status = status]
<1>1. rows[id] \in Rows /\ id \in Ids
    BY DEF TypeOK
<1>2. /\ r \in Rows /\ r.machine = rows[id].machine
      /\ r.meta = copy \cup adds /\ r.status = status
    BY <1>1 DEF Rows
<1>3. rows' = [rows EXCEPT ![id] = r]
    BY DEF Write
<1> HIDE DEF r
<1>4. /\ Known' = Known /\ rows' \in [Known' -> Rows] /\ rows'[id] = r
      /\ \A i \in Known \ {id} : rows'[i] = rows[i]
      /\ RowsStay
    BY <1>2, <1>3, RowChanges
<1>5. /\ written' \in [Ids -> SUBSET Keys] /\ torn' \subseteq Known
      /\ MetadataComplete'
    <2>1. CASE id \notin torn /\ copy = rows[id].meta
        <3>1. written' = [written EXCEPT ![id] = @ \cup adds] /\ torn' = torn
            BY <2>1 DEF Write, Keep
        <3>2. written[id] = copy
            BY <2>1 DEF MetadataComplete
        <3>3. written'[id] = copy \cup adds /\ \A i \in Ids \ {id} : written'[i] = written[i]
            BY <1>1, <3>1, <3>2 DEF TypeOK
        <3> QED BY <1>1, <1>2, <1>4, <3>1, <3>3 DEF TypeOK, MetadataComplete
    <2>2. CASE ~(id \notin torn /\ copy = rows[id].meta)
        <3>1. written' = [written EXCEPT ![id] = {}] /\ torn' = torn \cup {id}
            BY <2>2 DEF Write, Keep
        <3> QED BY <1>1, <1>4, <3>1 DEF TypeOK, MetadataComplete
    <2> QED BY <2>1, <2>2
<1> QED BY <1>2, <1>4, <1>5 DEF Rewritten

(* A write that keeps the status keeps what memory and row agree on.       *)
LEMMA SameStatus ==
    ASSUME OwnersFollowRows, Known' = Known, owners' = owners, loose' = loose,
           \A i \in Known : rows'[i].status = rows[i].status,
           \A i \in Ids : Settled(i)' => Settled(i)
    PROVE  OwnersFollowRows'
BY DEF OwnersFollowRows

LEMMA EndWriteIInv ==
    ASSUME IInv, NEW h \in Handlers, NEW adds \in SUBSET {"summary"}, EndWrite(h, adds)
    PROVE  IInv'
<1> DEFINE id == op[h].id
           next == IF op[h].by = "reset" THEN Idle ELSE [at |-> "disowning", id |-> id]
<1>1. op[h].at = "ending" /\ Write(id, op[h].copy, adds, "ended")
      /\ UNCHANGED <<owners, restarts, spawned>>
    BY DEF EndWrite
<1>2. /\ id \in Known /\ id \in Ids /\ op[h].copy \in SUBSET Keys
      /\ adds \in SUBSET Keys
    BY <1>1, SessionAssumption DEF IInv, TypeOK, Ops, Idle, Minding, Minds
<1>3. /\ Known' = Known /\ rows' \in [Known' -> Rows]
      /\ \A i \in Known \ {id} : rows'[i] = rows[i]
      /\ RowsStay
      /\ written' \in [Ids -> SUBSET Keys] /\ torn' \subseteq Known
      /\ MetadataComplete'
    <2>1. Rewritten(id, "ended") /\ MetadataComplete'
        BY <1>1, <1>2, WriteChanges DEF IInv
    <2> QED BY <2>1 DEF Rewritten
<1>4. /\ op' = [op EXCEPT ![h] = next]
      /\ \/ gone' = gone /\ next # Idle
         \/ gone' = gone \ {h}
      /\ next = Idle => loose' = loose \cup {id}
      /\ next # Idle => loose' = loose
    BY DEF EndWrite, GoesOn, Ends, Mark, Idle
<1>5. /\ next \in Ops /\ next.at \in {"idle", "disowning"}
      /\ next.at = "disowning" => next.id = id /\ next # Idle
      /\ next.at = "idle" => next = Idle
    BY <1>2 DEF Ops, Idle
<1> HIDE DEF next, id
<1>6. /\ op' \in [Handlers -> Ops] /\ op'[h] = next
      /\ \A k \in Handlers \ {h} : op'[k] = op[k]
      /\ gone' \subseteq {k \in Handlers : op'[k] # Idle}
      /\ Minding'
    BY <1>2, <1>3, <1>4, <1>5, HandlerMoves DEF IInv
<1>7. TypeOK'
    BY <1>1, <1>2, <1>3, <1>4, <1>6 DEF IInv, TypeOK
<1>8. OwnersHome'
    BY <1>1, <1>3 DEF IInv, OwnersHome, Homes, RowsStay
<1>9. OwnersFollowRows'
    <2> SUFFICES ASSUME NEW i \in Ids \ loose', Settled(i)'
                 PROVE  i \in Owned <=> i \in Known /\ rows'[i].status = "active"
        BY <1>1, <1>3 DEF OwnersFollowRows
    <2>1. i # id
        BY <1>4, <1>5, <1>6 DEF Settled
    <2>2. Settled(i)
        BY <1>1, <1>6, SettledStays
    <2> QED BY <1>3, <1>4, <2>1, <2>2 DEF IInv, OwnersFollowRows
<1> QED BY <1>3, <1>6, <1>7, <1>8, <1>9 DEF IInv

LEMMA UpdateWriteIInv ==
    ASSUME IInv, NEW h \in Handlers, NEW adds \in SUBSET ({"tag", "source"} \cap Keys),
           UpdateWrite(h, adds)
    PROVE  IInv'
<1> DEFINE id == op[h].id
           next == IF op[h].resumes THEN [at |-> "resuming", id |-> id] ELSE Idle
<1>1. /\ op[h].at = "updating" /\ Write(id, op[h].copy, adds, rows[id].status)
      /\ UNCHANGED <<owners, restarts, spawned, loose>>
    BY DEF UpdateWrite
<1>2. /\ id \in Known /\ id \in Ids /\ op[h].copy \in SUBSET Keys
      /\ adds \in SUBSET Keys /\ rows[id].status \in {"active", "ended"}
    BY <1>1 DEF IInv, TypeOK, Ops, Idle, Minding, Minds, Rows
<1>3. /\ Known' = Known /\ rows' \in [Known' -> Rows]
      /\ rows'[id].status = rows[id].status
      /\ \A i \in Known \ {id} : rows'[i] = rows[i]
      /\ RowsStay
      /\ written' \in [Ids -> SUBSET Keys] /\ torn' \subseteq Known
      /\ MetadataComplete'
    <2> DEFINE status == rows[id].status
    <2>1. Write(id, op[h].copy, adds, status) /\ status \in {"active", "ended"}
        BY <1>1, <1>2
    <2> HIDE DEF status, id
    <2>2. TypeOK /\ MetadataComplete
        BY DEF IInv
    <2>3. Rewritten(id, status) /\ MetadataComplete'
        BY <1>2, <2>1, <2>2, WriteChanges
    <2> QED BY <2>3 DEF status, Rewritten
<1>4. /\ op' = [op EXCEPT ![h] = next]
      /\ \/ gone' = gone /\ next # Idle
         \/ gone' = gone \ {h}
    BY DEF UpdateWrite, GoesOn, Ends, Idle
<1>5. /\ next \in Ops /\ next.at \in {"idle", "resuming"}
      /\ next.at = "resuming" => next.id = id
    BY <1>2 DEF Ops, Idle
<1> HIDE DEF next, id
<1>6. /\ op' \in [Handlers -> Ops] /\ op'[h] = next
      /\ \A k \in Handlers \ {h} : op'[k] = op[k]
      /\ gone' \subseteq {k \in Handlers : op'[k] # Idle}
      /\ Minding'
    BY <1>2, <1>3, <1>4, <1>5, HandlerMoves DEF IInv
<1>7. TypeOK'
    BY <1>1, <1>2, <1>3, <1>4, <1>6 DEF IInv, TypeOK
<1>8. OwnersHome'
    BY <1>1, <1>3 DEF IInv, OwnersHome, Homes, RowsStay
<1>9. \A i \in Ids : Settled(i)' => Settled(i)
    BY <1>1, <1>6, SettledStays
<1>10. OwnersFollowRows'
    BY <1>1, <1>3, <1>9, SameStatus DEF IInv
<1> QED BY <1>3, <1>6, <1>7, <1>8, <1>10 DEF IInv

(* What one column of a row is set to.                                     *)
LEMMA ColumnChanges ==
    ASSUME TypeOK, NEW id \in Known, NEW dek \in Deks,
           \/ rows' = [rows EXCEPT ![id].dek = dek]
           \/ rows' = [rows EXCEPT ![id].status = "active"]
    PROVE  /\ Known' = Known /\ rows' \in [Known' -> Rows] /\ RowsStay
           /\ \A i \in Known \ {id} : rows'[i] = rows[i]
           /\ rows'[id].meta = rows[id].meta
           /\ rows' = [rows EXCEPT ![id].dek = dek] => rows'[id].status = rows[id].status
<1> DEFINE a == [rows[id] EXCEPT !.dek = dek]
           b == [rows[id] EXCEPT !.status = "active"]
<1>1. rows[id] \in Rows
    BY DEF TypeOK
<1>2. /\ a \in Rows /\ a.machine = rows[id].machine
      /\ a.meta = rows[id].meta /\ a.status = rows[id].status
    BY <1>1 DEF Rows
<1>3. /\ b \in Rows /\ b.machine = rows[id].machine /\ b.meta = rows[id].meta
    BY <1>1 DEF Rows
<1>4. rows' = [rows EXCEPT ![id] = a] \/ rows' = [rows EXCEPT ![id] = b]
    OBVIOUS
<1>5. rows' = [rows EXCEPT ![id].dek = dek] => rows' = [rows EXCEPT ![id] = a]
    OBVIOUS
<1> HIDE DEF a, b
<1> QED BY <1>2, <1>3, <1>4, <1>5, RowChanges

LEMMA ProvisionIInv ==
    ASSUME IInv, NEW h \in Handlers, NEW dek \in Deks, Provision(h, dek)
    PROVE  IInv'
<1> DEFINE id == op[h].id
<1>1. /\ op[h].at = "provisioning" /\ rows' = [rows EXCEPT ![id].dek = dek]
      /\ Ends(h) /\ UNCHANGED <<owners, restarts, history>>
    BY DEF Provision
<1>2. id \in Known
    BY <1>1 DEF IInv, Minding, Minds
<1>3. /\ Known' = Known /\ rows' \in [Known' -> Rows] /\ RowsStay
      /\ \A i \in Known : rows'[i].meta = rows[i].meta /\ rows'[i].status = rows[i].status
    BY <1>1, <1>2, ColumnChanges DEF IInv
<1>4. Idle \in Ops /\ Idle.at = "idle"
    BY DEF Ops, Idle
<1>5. /\ op' \in [Handlers -> Ops] /\ op'[h] = Idle
      /\ \A k \in Handlers \ {h} : op'[k] = op[k]
      /\ gone' \subseteq {k \in Handlers : op'[k] # Idle}
      /\ Minding'
    BY <1>1, <1>3, <1>4, HandlerMoves DEF Ends, IInv
<1>6. TypeOK'
    BY <1>1, <1>3, <1>5 DEF IInv, TypeOK, history
<1>7. OwnersHome'
    BY <1>1, <1>3 DEF IInv, OwnersHome, Homes, RowsStay, history
<1>8. \A i \in Ids : Settled(i)' => Settled(i)
    BY <1>1, <1>5, SettledStays
<1>9. OwnersFollowRows'
    BY <1>1, <1>3, <1>8, SameStatus DEF IInv, history
<1>10. MetadataComplete'
    BY <1>1, <1>3 DEF IInv, MetadataComplete, history
<1> QED BY <1>5, <1>6, <1>7, <1>9, <1>10 DEF IInv

LEMMA ResumeIInv ==
    ASSUME IInv, NEW h \in Handlers, Resume(h)
    PROVE  IInv'
<1> DEFINE id == op[h].id
           r == [rows[id] EXCEPT !.status = "active"]
<1>1. /\ op[h].at = "resuming" /\ rows' = [rows EXCEPT ![id] = r]
      /\ loose' = loose \cup {id}
      /\ Ends(h) /\ UNCHANGED <<owners, restarts, spawned, written, torn>>
    BY DEF Resume, Mark
<1>2. id \in Known /\ id \in Ids
    BY <1>1 DEF IInv, TypeOK, Minding, Minds
<1>3. r \in Rows /\ r.machine = rows[id].machine /\ r.meta = rows[id].meta
    BY <1>2 DEF IInv, TypeOK, Rows
<1> HIDE DEF r
<1>4. /\ Known' = Known /\ rows' \in [Known' -> Rows] /\ RowsStay
      /\ \A i \in Known \ {id} : rows'[i] = rows[i]
      /\ rows'[id] = r
    BY <1>1, <1>2, <1>3, RowChanges DEF IInv
<1>5. Idle \in Ops /\ Idle.at = "idle"
    BY DEF Ops, Idle
<1>6. /\ op' \in [Handlers -> Ops] /\ op'[h] = Idle
      /\ \A k \in Handlers \ {h} : op'[k] = op[k]
      /\ gone' \subseteq {k \in Handlers : op'[k] # Idle}
      /\ Minding'
    BY <1>1, <1>4, <1>5, HandlerMoves DEF Ends, IInv
<1>7. TypeOK'
    BY <1>1, <1>2, <1>4, <1>6 DEF IInv, TypeOK
<1>8. OwnersHome'
    BY <1>1, <1>4 DEF IInv, OwnersHome, Homes, RowsStay
<1>9. OwnersFollowRows'
    <2> SUFFICES ASSUME NEW i \in Ids \ loose', Settled(i)'
                 PROVE  i \in Owned <=> i \in Known /\ rows'[i].status = "active"
        BY <1>1, <1>4 DEF OwnersFollowRows
    <2>1. i # id /\ i \notin loose
        BY <1>1
    <2>2. Settled(i)
        BY <1>1, <1>6, SettledStays
    <2> QED BY <1>4, <2>1, <2>2 DEF IInv, OwnersFollowRows
<1>10. MetadataComplete'
    BY <1>1, <1>3, <1>4 DEF IInv, MetadataComplete
<1> QED BY <1>6, <1>7, <1>8, <1>9, <1>10 DEF IInv

-----------------------------------------------------------------------------
(* Steps of no handler.                                                    *)
LEMMA HandlersWait ==
    ASSUME TypeOK, Minding, RowsStay, UNCHANGED <<op, gone>>
    PROVE  /\ op' \in [Handlers -> Ops]
           /\ gone' \subseteq {k \in Handlers : op'[k] # Idle}
           /\ Minding'
           /\ \A i \in Ids : Settled(i)' => Settled(i)
BY DEF TypeOK, Minding, Minds, RowsStay, Settled

LEMMA ProvisionDekIInv ==
    ASSUME IInv, NEW id \in Ids, NEW dek \in Deks, ProvisionDek(id, dek)
    PROVE  IInv'
<1> USE DEF history
<1>1. /\ id \in Known /\ rows' = [rows EXCEPT ![id].dek = dek]
      /\ UNCHANGED <<owners, op, gone, restarts, history>>
    BY DEF ProvisionDek
<1>2. /\ Known' = Known /\ rows' \in [Known' -> Rows] /\ RowsStay
      /\ \A i \in Known : rows'[i].meta = rows[i].meta /\ rows'[i].status = rows[i].status
    BY <1>1, ColumnChanges DEF IInv
<1>3. /\ op' \in [Handlers -> Ops]
      /\ gone' \subseteq {k \in Handlers : op'[k] # Idle}
      /\ Minding' /\ \A i \in Ids : Settled(i)' => Settled(i)
    BY <1>1, <1>2, HandlersWait DEF IInv
<1>4. TypeOK'
    BY <1>1, <1>2, <1>3 DEF IInv, TypeOK
<1>5. OwnersHome' /\ MetadataComplete'
    BY <1>1, <1>2 DEF IInv, OwnersHome, Homes, RowsStay, MetadataComplete
<1>6. OwnersFollowRows'
    BY <1>1, <1>2, <1>3, SameStatus DEF IInv
<1> QED BY <1>3, <1>4, <1>5, <1>6 DEF IInv

LEMMA UpdateMetadataIInv ==
    ASSUME IInv, NEW id \in Ids, NEW meta \in SUBSET Keys, UpdateMetadata(id, meta)
    PROVE  IInv'
<1> DEFINE r == [rows[id] EXCEPT !.meta = meta]
<1>1. /\ id \in Known /\ rows' = [rows EXCEPT ![id] = r]
      /\ written' = [written EXCEPT ![id] = meta] /\ torn' = torn \ {id}
      /\ UNCHANGED <<owners, op, gone, restarts, spawned, loose>>
    BY DEF UpdateMetadata
<1>2. /\ r \in Rows /\ r.machine = rows[id].machine
      /\ r.meta = meta /\ r.status = rows[id].status
    BY <1>1 DEF IInv, TypeOK, Rows
<1> HIDE DEF r
<1>3. /\ Known' = Known /\ rows' \in [Known' -> Rows] /\ RowsStay
      /\ \A i \in Known \ {id} : rows'[i] = rows[i]
      /\ rows'[id] = r
    BY <1>1, <1>2, RowChanges DEF IInv
<1>4. /\ op' \in [Handlers -> Ops]
      /\ gone' \subseteq {k \in Handlers : op'[k] # Idle}
      /\ Minding' /\ \A i \in Ids : Settled(i)' => Settled(i)
    BY <1>1, <1>3, HandlersWait DEF IInv
<1>5. TypeOK'
    BY <1>1, <1>3, <1>4 DEF IInv, TypeOK
<1>6. OwnersHome'
    BY <1>1, <1>3 DEF IInv, OwnersHome, Homes, RowsStay
<1>7. OwnersFollowRows'
    <2>1. \A i \in Known : rows'[i].status = rows[i].status
        BY <1>2, <1>3
    <2> QED BY <1>1, <1>3, <1>4, <2>1, SameStatus DEF IInv
<1>8. MetadataComplete'
    BY <1>1, <1>2, <1>3 DEF IInv, TypeOK, MetadataComplete
<1> QED BY <1>4, <1>5, <1>6, <1>7, <1>8 DEF IInv

LEMMA SpawnIInv ==
    ASSUME IInv, NEW id \in Ids, NEW m \in Machines, Spawn(id, m)
    PROVE  IInv'
<1>1. /\ owners' = Put(owners, id, m) /\ loose' = loose \cup {id}
      /\ spawned' = [spawned EXCEPT ![id] = @ \cup {m}]
      /\ UNCHANGED <<rows, op, gone, restarts, written, torn>>
    BY DEF Spawn, Mark
<1>2. /\ Owned' = Owned \cup {id} /\ owners'[id] = m
      /\ \A i \in Owned \ {id} : owners'[i] = owners[i]
      /\ owners' \in [Owned' -> Machines \cup Daemons]
    BY <1>1 DEF Put, IInv, TypeOK
<1>3. /\ spawned' \in [Ids -> SUBSET Machines] /\ m \in spawned'[id]
      /\ \A i \in Ids : spawned[i] \subseteq spawned'[i]
    BY <1>1 DEF IInv, TypeOK
<1>4. /\ op' \in [Handlers -> Ops]
      /\ gone' \subseteq {k \in Handlers : op'[k] # Idle}
      /\ Minding' /\ \A i \in Ids : Settled(i)' => Settled(i)
    BY <1>1, HandlersWait DEF IInv, RowsStay
<1>5. TypeOK'
    BY <1>1, <1>2, <1>3, <1>4 DEF IInv, TypeOK
<1>6. OwnersHome'
    BY <1>1, <1>2, <1>3 DEF IInv, TypeOK, OwnersHome, Homes
<1>7. OwnersFollowRows' /\ MetadataComplete'
    BY <1>1, <1>2, <1>4 DEF IInv, OwnersFollowRows, MetadataComplete
<1> QED BY <1>4, <1>5, <1>6, <1>7 DEF IInv

LEMMA RestartIInv ==
    ASSUME IInv, Restart
    PROVE  IInv'
<1>1. /\ owners' = << >> /\ DOMAIN owners' = {} /\ gone' = {} /\ loose' = Ids
      /\ UNCHANGED <<rows, spawned, written, torn>>
    BY EmptyDomain DEF Restart
<1>2. owners' \in [Owned' -> Machines \cup Daemons]
    BY <1>1, NothingMapped
<1>3. op' \in [Handlers -> Ops] /\ \A h \in Handlers : op'[h].at = "idle"
    BY DEF Restart, Ops, Idle
<1>4. restarts' \in 0..MaxRestarts
    BY SessionAssumption DEF Restart, IInv, TypeOK
<1>5. TypeOK'
    BY <1>1, <1>2, <1>3, <1>4 DEF IInv, TypeOK
<1>6. Minding' /\ OwnersHome'
    BY <1>1, <1>3 DEF Minding, Minds, OwnersHome
<1>7. OwnersFollowRows' /\ MetadataComplete'
    BY <1>1 DEF IInv, OwnersFollowRows, MetadataComplete
<1> QED BY <1>5, <1>6, <1>7 DEF IInv

LEMMA NextIInv == IInv /\ [Next]_vars => IInv'
<1> SUFFICES ASSUME IInv, [Next]_vars PROVE IInv'
    OBVIOUS
<1>1. ASSUME NEW h \in Handlers, NEW id \in Ids, Begin(h, id)
      PROVE  IInv'
    BY <1>1, BeginIInv
<1>2. ASSUME NEW h \in Handlers, Step(h)
      PROVE  IInv'
    BY <1>2, InsertIInv, AnswersIInv, OwnIInv, ProvisionIInv, EndWriteIInv,
       UpdateWriteIInv, ResumeIInv DEF Step, EndStep
<1>3. ASSUME NEW h \in Handlers, StopReplied(h) \/ StopFails(h) \/ GiveUp(h)
      PROVE  IInv'
    BY <1>3, AnswersIInv, GiveUpIInv
<1>4. ASSUME NEW id \in Ids,
             \/ \E m \in Machines : Spawn(id, m)
             \/ \E dek \in Deks : ProvisionDek(id, dek)
             \/ \E meta \in SUBSET Keys : UpdateMetadata(id, meta)
      PROVE  IInv'
    BY <1>4, SpawnIInv, ProvisionDekIInv, UpdateMetadataIInv
<1>5. CASE UNCHANGED vars
    BY <1>5 DEF vars, IInv, TypeOK, Minding, Minds, OwnersHome, Homes, OwnersFollowRows,
        MetadataComplete, Settled
<1> QED BY <1>1, <1>2, <1>3, <1>4, <1>5, RestartIInv DEF Next

LEMMA SafeIInv == Spec => []IInv
BY InitIInv, NextIInv, PTL DEF Spec

-----------------------------------------------------------------------------
(* Every record of a session keeps to its values, and a handler whose      *)
(* client was answered 504 is under way (server.py, storage.py).           *)
THEOREM SessionTypes == Spec => []TypeOK
<1>1. IInv => TypeOK
    BY DEF IInv
<1> QED BY <1>1, SafeIInv, PTL

(* A request of the web is relayed to a machine where the session was      *)
(* spawned or created, whichever of the two records it is routed by.       *)
THEOREM RequestsAreRoutedHome == Spec => []RoutedHome
<1>1. IInv => RoutedHome
    BY DEF IInv, RoutedHome, Route, Homes, OwnersHome
<1> QED BY <1>1, SafeIInv, PTL

(* Memory and row of a session agree unless a spawn, a reset, a            *)
(* resumption, a restart or an overtaken end left them apart.              *)
THEOREM OwnersAndRowsAgree == Spec => []OwnersFollowRows
<1>1. IInv => OwnersFollowRows
    BY DEF IInv
<1> QED BY <1>1, SafeIInv, PTL

(* Metadata is stored in full unless it was written from an outdated copy. *)
THEOREM MetadataIsComplete == Spec => []MetadataComplete
<1>1. IInv => MetadataComplete
    BY DEF IInv
<1> QED BY <1>1, SafeIInv, PTL
=============================================================================
