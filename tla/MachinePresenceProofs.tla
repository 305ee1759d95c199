------------------------ MODULE MachinePresenceProofs ------------------------
(***************************************************************************)
(* Every safety property of MachinePresence, for any set of machines and   *)
(* of sockets.  IInv adds to them what a step needs to know of the steps   *)
(* before it: where a socket can be entered, and that the id it announced  *)
(* holds its place in machine_sids, whatever ids it takes later.           *)
(***************************************************************************)
EXTENDS MachinePresence, TLAPS

(* A socket that has not connected has left no trace.                      *)
NewIsFresh ==
    \A s \in Sockets : conn[s] = "new" =>
        /\ announced[s] = None
        /\ registered[s] = {}
        /\ reg[s] = Idle
        /\ \A m \in Machines : s \notin machineSids[m]

(* A socket is entered only under ids it announced or registered, and a    *)
(* live one that has such an id is known by one of them.                   *)
EnteredByName ==
    /\ \A m \in Machines : \A s \in machineSids[m] : m \in Names(s)
    /\ \A s \in Sockets :
           conn[s] = "live" /\ Names(s) # {} => daemon[s] \in Names(s)

(* The id a live socket announced keeps its entry.                         *)
AnnouncedStays ==
    \A s \in Sockets :
        conn[s] = "live" /\ announced[s] # None => s \in machineSids[announced[s]]

(* From the write of its registration on, that id's row is active.         *)
WrittenIsActive ==
    \A s \in Sockets :
        /\ conn[s] = "live"
        /\ reg[s].phase = "written"
        /\ reg[s].id = announced[s]
        => row[announced[s]] = "active"

IInv ==
    /\ TypeOK
    /\ NewIsFresh
    /\ EnteredByName
    /\ AnnouncedStays
    /\ WrittenIsActive
    /\ LiveStaysRoutable
    /\ RegisteredStaysActive
    /\ GhostsExplained
    /\ OfflineIsAnnounced
    /\ AbsentIsInactive

-----------------------------------------------------------------------------
(* The invariant holds of a server that has seen no connection.            *)
LEMMA InitEstablishes == Init => IInv
  BY NoneAssumption
  DEF Init, IInv, TypeOK, NewIsFresh, EnteredByName, AnnouncedStays,
      WrittenIsActive, LiveStaysRoutable, RegisteredStaysActive,
      GhostsExplained, OfflineIsAnnounced, AbsentIsInactive, Names,
      Registrations, Idle

(* What a registration in progress looks like.                             *)
LEMMA RegistrationShape ==
    ASSUME TypeOK, NEW s \in Sockets, reg[s].phase \in {"selected", "written"}
    PROVE  /\ reg[s] # Idle
           /\ reg[s].id \in Machines
           /\ reg[s] = [phase |-> reg[s].phase, id |-> reg[s].id,
                        found |-> reg[s].found]
           /\ reg[s].found \in BOOLEAN
  BY DEF TypeOK, Registrations, Idle

(* Types, under every step.                                                *)
LEMMA TypesStep == ASSUME TypeOK, Next PROVE TypeOK'
  <1>1. ASSUME NEW s \in Sockets, NEW m \in Machines, Announce(s, m)
        PROVE  TypeOK'
    BY <1>1, NoneAssumption DEF TypeOK, Announce
  <1>2. ASSUME NEW s \in Sockets, NEW id \in Machines \cup {None},
               ConnectUnnamed(s, id)
        PROVE  TypeOK'
    BY <1>2 DEF TypeOK, ConnectUnnamed, status, history
  <1>3. ASSUME NEW s \in Sockets, Disconnect(s) PROVE TypeOK'
    BY <1>3 DEF TypeOK, Disconnect, Discard, LastSocket, status
  <1>4. ASSUME NEW s \in Sockets, NEW m \in Machines, GoOffline(s, m)
        PROVE  TypeOK'
    BY <1>4 DEF TypeOK, GoOffline, history, memory
  <1>5. ASSUME NEW s \in Sockets, NEW m \in Machines, RegisterSelect(s, m)
        PROVE  TypeOK'
    BY <1>5 DEF TypeOK, RegisterSelect, Registrations, Idle, status, history, memory
  <1>6. ASSUME NEW s \in Sockets,
               RegisterUpdate(s) \/ RegisterInsert(s)
        PROVE  TypeOK'
    <2>1. reg[s].phase \in {"selected", "written"}
      BY <1>6 DEF RegisterUpdate, RegisterInsert
    <2>2. reg' \in [Sockets -> Registrations]
      BY <1>6, <2>1, RegistrationShape
      DEF TypeOK, RegisterUpdate, RegisterInsert, Registrations
    <2> QED
      BY <1>6, <2>1, <2>2, RegistrationShape
      DEF TypeOK, RegisterUpdate, RegisterInsert, status, history, memory
  <1>7. ASSUME NEW s \in Sockets, RegisterClash(s) PROVE TypeOK'
    BY <1>7 DEF TypeOK, RegisterClash, Registrations, status, history, memory
  <1>8. ASSUME NEW s \in Sockets, RegisterFinish(s) PROVE TypeOK'
    <2>1. reg[s].id \in Machines
      BY <1>8, RegistrationShape DEF RegisterFinish
    <2> QED
      BY <1>8, <2>1 DEF TypeOK, RegisterFinish, Rename, Enter, Registrations, status
  <1>9. ASSUME NEW s \in Sockets, Heartbeat(s) PROVE TypeOK'
    BY <1>9 DEF TypeOK, Heartbeat, status, memory
  <1>10. CASE Restart
    BY <1>10 DEF TypeOK, Restart, Registrations, history
  <1>11. ASSUME NEW m \in Machines, ConnectUser(m) PROVE TypeOK'
    BY <1>11 DEF TypeOK, ConnectUser, history, memory
  <1> QED
    BY <1>1, <1>2, <1>3, <1>4, <1>5, <1>6, <1>7, <1>8, <1>9, <1>10, <1>11 DEF Next

(* Where sockets are entered and by which ids, under every step.           *)
LEMMA NamesStep ==
    ASSUME IInv, Next
    PROVE  NewIsFresh' /\ EnteredByName' /\ AnnouncedStays' /\ LiveStaysRoutable'
  <1> USE NoneAssumption
           DEF NewIsFresh, EnteredByName, AnnouncedStays, LiveStaysRoutable, Names
  <1>0. TypeOK /\ NewIsFresh /\ EnteredByName /\ AnnouncedStays /\ LiveStaysRoutable
    BY DEF IInv
  <1>1. ASSUME NEW s \in Sockets, NEW m \in Machines, Announce(s, m)
        PROVE  NewIsFresh' /\ EnteredByName' /\ AnnouncedStays' /\ LiveStaysRoutable'
    BY <1>0, <1>1 DEF TypeOK, Announce
  <1>2. ASSUME NEW s \in Sockets, NEW id \in Machines \cup {None},
               ConnectUnnamed(s, id)
        PROVE  NewIsFresh' /\ EnteredByName' /\ AnnouncedStays' /\ LiveStaysRoutable'
    BY <1>0, <1>2 DEF TypeOK, ConnectUnnamed, history
  <1>3. ASSUME NEW s \in Sockets, Disconnect(s)
        PROVE  NewIsFresh' /\ EnteredByName' /\ AnnouncedStays' /\ LiveStaysRoutable'
    BY <1>0, <1>3 DEF TypeOK, Disconnect, Discard
  <1>4. ASSUME NEW s \in Sockets, NEW m \in Machines, RegisterSelect(s, m)
        PROVE  NewIsFresh' /\ EnteredByName' /\ AnnouncedStays' /\ LiveStaysRoutable'
    BY <1>0, <1>4 DEF TypeOK, RegisterSelect, history, memory
  <1>5. ASSUME NEW s \in Sockets,
               RegisterUpdate(s) \/ RegisterInsert(s) \/ RegisterClash(s)
        PROVE  NewIsFresh' /\ EnteredByName' /\ AnnouncedStays' /\ LiveStaysRoutable'
    <2>1. reg[s] # Idle
      BY <1>0, <1>5, RegistrationShape
      DEF RegisterUpdate, RegisterInsert, RegisterClash
    <2>2. \A r \in Sockets \ {s} : reg'[r] = reg[r]
      BY <1>0, <1>5 DEF TypeOK, RegisterUpdate, RegisterInsert, RegisterClash
    <2>3. UNCHANGED <<memory, history>>
      BY <1>5 DEF RegisterUpdate, RegisterInsert, RegisterClash
    <2> QED BY <1>0, <2>1, <2>2, <2>3 DEF memory, history
  <1>6. ASSUME NEW s \in Sockets, RegisterFinish(s)
        PROVE  NewIsFresh' /\ EnteredByName' /\ AnnouncedStays' /\ LiveStaysRoutable'
    <2>1. reg[s] # Idle /\ reg[s].id \in Machines
      BY <1>0, <1>6, RegistrationShape DEF RegisterFinish
    <2> QED BY <1>0, <1>6, <2>1 DEF TypeOK, RegisterFinish, Rename, Enter
  <1>7. CASE Restart
    BY <1>0, <1>7 DEF TypeOK, Restart
  <1>8. ASSUME NEW s \in Sockets,
               (\E m \in Machines : GoOffline(s, m)) \/ Heartbeat(s)
        PROVE  NewIsFresh' /\ EnteredByName' /\ AnnouncedStays' /\ LiveStaysRoutable'
    BY <1>0, <1>8 DEF TypeOK, GoOffline, Heartbeat, history, memory
  <1>9. ASSUME NEW m \in Machines, ConnectUser(m)
        PROVE  NewIsFresh' /\ EnteredByName' /\ AnnouncedStays' /\ LiveStaysRoutable'
    BY <1>0, <1>9 DEF ConnectUser, history, memory
  <1> QED BY <1>1, <1>2, <1>3, <1>4, <1>5, <1>6, <1>7, <1>8, <1>9 DEF Next

(* A socket that stays in a set after its disconnect is explained.         *)
LEMMA GhostsStep == ASSUME IInv, Next PROVE GhostsExplained'
  <1>0. TypeOK /\ NewIsFresh /\ EnteredByName /\ GhostsExplained
    BY DEF IInv
  <1> SUFFICES ASSUME NEW n \in Machines, NEW r \in machineSids'[n],
                      conn'[r] # "live", r \notin late'
               PROVE  \E o \in Names(r)' : o # n
    BY DEF GhostsExplained
  <1> DEFINE Explained == /\ r \in machineSids[n] /\ conn[r] # "live"
                          /\ r \notin late /\ Names(r)' = Names(r)
  <1>1. Explained => \E o \in Names(r)' : o # n
    BY <1>0 DEF GhostsExplained
  <1>2. ASSUME NEW s \in Sockets, NEW m \in Machines, Announce(s, m)
        PROVE  Explained
    BY <1>0, <1>2 DEF TypeOK, Announce, Names
  <1>3. ASSUME NEW s \in Sockets, NEW id \in Machines \cup {None},
               ConnectUnnamed(s, id)
        PROVE  Explained
    BY <1>0, <1>3 DEF TypeOK, ConnectUnnamed, history, Names
  <1>4. ASSUME NEW s \in Sockets, Disconnect(s)
        PROVE  \E o \in Names(r)' : o # n
    <2>1. CASE r = s
      \* The set it stays in is not that of the id it went by last.
      <3>1. r \in machineSids[n] /\ daemon[s] # n
        BY <1>4, <2>1 DEF Disconnect, Discard
      <3>2. daemon[s] \in Names(s)
        BY <1>0, <1>4, <2>1, <3>1 DEF Disconnect, EnteredByName
      <3> QED BY <1>4, <2>1, <3>1, <3>2 DEF Disconnect, Names
    <2>2. CASE r # s
      BY <1>0, <1>1, <1>4, <2>2 DEF TypeOK, Disconnect, Discard, Names
    <2> QED BY <2>1, <2>2
  <1>5. ASSUME NEW s \in Sockets, RegisterFinish(s)
        PROVE  \E o \in Names(r)' : o # n
    <2>1. reg[s].id \in Machines
      BY <1>0, <1>5, RegistrationShape DEF RegisterFinish
    <2>2. r # s
      BY <1>0, <1>5, <2>1 DEF TypeOK, RegisterFinish
    <2> QED BY <1>0, <1>1, <1>5, <2>1, <2>2
            DEF TypeOK, RegisterFinish, Rename, Enter, Names
  <1>6. ~Restart
    BY DEF Restart
  <1>7. ASSUME UNCHANGED <<memory, announced, registered, late>> PROVE Explained
    BY <1>7 DEF memory, Names
  <1>8. ASSUME NEW s \in Sockets,
               \/ \E m \in Machines : GoOffline(s, m) \/ RegisterSelect(s, m)
               \/ RegisterUpdate(s) \/ RegisterInsert(s) \/ RegisterClash(s)
               \/ Heartbeat(s)
        PROVE  UNCHANGED <<memory, announced, registered, late>>
    BY <1>8
    DEF GoOffline, RegisterSelect, RegisterUpdate, RegisterInsert,
        RegisterClash, Heartbeat, history
  <1>9. ASSUME NEW m \in Machines, ConnectUser(m)
        PROVE  UNCHANGED <<memory, announced, registered, late>>
    BY <1>9 DEF ConnectUser, history
  <1> HIDE DEF Explained
  <1> QED BY <1>1, <1>2, <1>3, <1>4, <1>5, <1>6, <1>7, <1>8, <1>9 DEF Next

(* The row of an id that a live socket announced and has written, or       *)
(* registered, stays active.                                               *)
LEMMA ActiveStep ==
    ASSUME IInv, Next
    PROVE  WrittenIsActive' /\ RegisteredStaysActive'
  <1>0. /\ TypeOK /\ NewIsFresh /\ AnnouncedStays
        /\ WrittenIsActive /\ RegisteredStaysActive
    BY DEF IInv
  <1> USE NoneAssumption DEF WrittenIsActive, RegisteredStaysActive
  <1>1. ASSUME NEW s \in Sockets, NEW m \in Machines, Announce(s, m)
        PROVE  WrittenIsActive' /\ RegisteredStaysActive'
    BY <1>0, <1>1 DEF TypeOK, Announce, NewIsFresh, Idle
  <1>2. ASSUME NEW s \in Sockets, NEW id \in Machines \cup {None},
               ConnectUnnamed(s, id)
        PROVE  WrittenIsActive' /\ RegisteredStaysActive'
    BY <1>0, <1>2 DEF TypeOK, ConnectUnnamed, NewIsFresh, Idle, history
  <1>3. ASSUME NEW s \in Sockets, Disconnect(s)
        PROVE  WrittenIsActive' /\ RegisteredStaysActive'
    <2>1. ASSUME NEW r \in Sockets, conn'[r] = "live", announced[r] # None,
                 row[announced[r]] = "active"
          PROVE  row'[announced[r]] = "active"
      <3>1. r # s /\ r \in machineSids[announced[r]]
        BY <1>0, <1>3, <2>1 DEF TypeOK, Disconnect, AnnouncedStays
      <3>2. ~(LastSocket(s, daemon[s]) /\ daemon[s] = announced[r])
        BY <3>1 DEF LastSocket
      <3> QED BY <1>0, <1>3, <2>1, <3>2 DEF TypeOK, Disconnect
    <2>2. ASSUME NEW r \in Sockets, conn'[r] = "live"
          PROVE  conn[r] = "live"
      BY <1>0, <1>3, <2>2 DEF TypeOK, Disconnect
    <2>3. UNCHANGED <<reg, announced, registered>>
      BY <1>3 DEF Disconnect
    <2>4. ASSUME NEW r \in Sockets, reg[r].phase = "written"
          PROVE  reg[r].id # None
      BY <1>0, <2>4, RegistrationShape
    <2>5. ASSUME NEW r \in Sockets, announced[r] \in registered[r]
          PROVE  announced[r] # None
      BY <1>0, <2>5 DEF TypeOK
    <2> QED BY <1>0, <2>1, <2>2, <2>3, <2>4, <2>5
  <1>4. ASSUME NEW s \in Sockets, NEW m \in Machines, RegisterSelect(s, m)
        PROVE  WrittenIsActive' /\ RegisteredStaysActive'
    BY <1>0, <1>4 DEF TypeOK, RegisterSelect, history, memory
  <1>5. ASSUME NEW s \in Sockets, RegisterUpdate(s) \/ RegisterInsert(s)
        PROVE  WrittenIsActive' /\ RegisteredStaysActive'
    <2>1. reg[s].id \in Machines
      BY <1>0, <1>5, RegistrationShape DEF RegisterUpdate, RegisterInsert
    <2>2. row' = [row EXCEPT ![reg[s].id] = "active"]
      BY <1>5 DEF RegisterUpdate, RegisterInsert
    <2>3. /\ \A r \in Sockets \ {s} : reg'[r] = reg[r]
          /\ reg'[s].id = reg[s].id
      BY <1>0, <1>5, RegistrationShape
      DEF TypeOK, RegisterUpdate, RegisterInsert
    <2>4. UNCHANGED <<memory, history>>
      BY <1>5 DEF RegisterUpdate, RegisterInsert
    <2>5. \A m \in Machines :
             row'[m] = IF m = reg[s].id THEN "active" ELSE row[m]
      BY <1>0, <2>1, <2>2 DEF TypeOK
    <2>6. ASSUME NEW r \in Sockets, reg[r].phase = "written"
          PROVE  reg[r].id \in Machines
      BY <1>0, <2>6, RegistrationShape
    <2>7. ASSUME NEW r \in Sockets, announced[r] \in registered[r]
          PROVE  announced[r] \in Machines
      BY <1>0, <2>7 DEF TypeOK
    <2> QED BY <1>0, <2>1, <2>3, <2>4, <2>5, <2>6, <2>7 DEF memory, history
  <1>6. ASSUME NEW s \in Sockets, RegisterClash(s)
        PROVE  WrittenIsActive' /\ RegisteredStaysActive'
    BY <1>0, <1>6 DEF TypeOK, RegisterClash, Idle, history, memory
  <1>7. ASSUME NEW s \in Sockets, RegisterFinish(s)
        PROVE  WrittenIsActive' /\ RegisteredStaysActive'
    BY <1>0, <1>7 DEF TypeOK, RegisterFinish, Idle
  <1>8. ASSUME NEW s \in Sockets, Heartbeat(s)
        PROVE  WrittenIsActive' /\ RegisteredStaysActive'
    <2>1. \A m \in Machines : row[m] = "active" => row'[m] = "active"
      BY <1>0, <1>8 DEF TypeOK, Heartbeat
    <2>2. UNCHANGED <<memory, reg, announced, registered>>
      BY <1>8 DEF Heartbeat
    <2>3. ASSUME NEW r \in Sockets, reg[r].phase = "written"
          PROVE  reg[r].id \in Machines
      BY <1>0, <2>3, RegistrationShape
    <2>4. ASSUME NEW r \in Sockets, announced[r] \in registered[r]
          PROVE  announced[r] \in Machines
      BY <1>0, <2>4 DEF TypeOK
    <2> QED BY <1>0, <2>1, <2>2, <2>3, <2>4 DEF memory
  <1>9. CASE Restart
    BY <1>9 DEF Restart
  <1>10. ASSUME NEW s \in Sockets, NEW m \in Machines, GoOffline(s, m)
         PROVE  WrittenIsActive' /\ RegisteredStaysActive'
    BY <1>0, <1>10 DEF GoOffline, history, memory
  <1>11. ASSUME NEW m \in Machines, ConnectUser(m)
         PROVE  WrittenIsActive' /\ RegisteredStaysActive'
    BY <1>0, <1>11 DEF ConnectUser, history, memory
  <1> QED
    BY <1>1, <1>2, <1>3, <1>4, <1>5, <1>6, <1>7, <1>8, <1>9, <1>10, <1>11 DEF Next

(* The last to leave a machine, or the handler that follows it, tells.     *)
LEMMA OfflineStep == ASSUME IInv, Next PROVE OfflineIsAnnounced'
  <1>0. TypeOK /\ OfflineIsAnnounced
    BY DEF IInv
  <1> USE DEF OfflineIsAnnounced
  <1>1. ASSUME NEW s \in Sockets, NEW m \in Machines, Announce(s, m)
        PROVE  OfflineIsAnnounced'
    BY <1>0, <1>1 DEF TypeOK, Announce
  <1>2. ASSUME NEW s \in Sockets, Disconnect(s)
        PROVE  OfflineIsAnnounced'
    <2>1. ASSUME NEW n \in Machines, machineSids'[n] = {}, machineSids[n] # {}
          PROVE  <<s, n>> \in leaving'
      BY <1>0, <1>2, <2>1, NoneAssumption
      DEF TypeOK, Disconnect, Discard, LastSocket
    <2>2. leaving \subseteq leaving' /\ UNCHANGED status
      BY <1>2 DEF Disconnect
    <2> QED BY <1>0, <2>1, <2>2 DEF status
  <1>3. ASSUME NEW s \in Sockets, NEW m \in Machines, GoOffline(s, m)
        PROVE  OfflineIsAnnounced'
    BY <1>0, <1>3 DEF TypeOK, GoOffline, memory
  <1>4. ASSUME NEW s \in Sockets, RegisterFinish(s)
        PROVE  OfflineIsAnnounced'
    BY <1>0, <1>4 DEF TypeOK, RegisterFinish, Enter, status
  <1>5. CASE Restart
    BY <1>5 DEF Restart
  <1>6. ASSUME NEW s \in Sockets,
               \/ \E id \in Machines \cup {None} : ConnectUnnamed(s, id)
               \/ \E m \in Machines : RegisterSelect(s, m)
               \/ RegisterUpdate(s) \/ RegisterInsert(s) \/ RegisterClash(s)
               \/ Heartbeat(s)
        PROVE  UNCHANGED <<machineSids, leaving, status>>
    BY <1>6 DEF ConnectUnnamed, RegisterSelect, RegisterUpdate, RegisterInsert,
                RegisterClash, Heartbeat, memory
  <1>7. UNCHANGED <<machineSids, leaving, status>> => OfflineIsAnnounced'
    BY <1>0 DEF status
  <1>8. ASSUME NEW m \in Machines, ConnectUser(m)
        PROVE  OfflineIsAnnounced'
    BY <1>0, <1>8 DEF TypeOK, ConnectUser, memory
  <1> QED BY <1>1, <1>2, <1>3, <1>4, <1>5, <1>6, <1>7, <1>8 DEF Next

(* The row of a machine is active only while something holds it so.        *)
LEMMA AbsentStep == ASSUME IInv, Next PROVE AbsentIsInactive'
  <1>0. TypeOK /\ AbsentIsInactive
    BY DEF IInv
  <1> USE DEF AbsentIsInactive
  <1>1. ASSUME NEW s \in Sockets, NEW m \in Machines, Announce(s, m)
        PROVE  AbsentIsInactive'
    BY <1>0, <1>1 DEF TypeOK, Announce
  <1>2. ASSUME NEW s \in Sockets, NEW id \in Machines \cup {None},
               ConnectUnnamed(s, id)
        PROVE  AbsentIsInactive'
    BY <1>0, <1>2 DEF ConnectUnnamed, history
  <1>3. ASSUME NEW s \in Sockets, Disconnect(s)
        PROVE  AbsentIsInactive'
    <2>1. ASSUME NEW n \in Machines, LastSocket(s, daemon[s]), n = daemon[s]
          PROVE  row'[n] # "active"
      BY <1>0, <1>3, <2>1 DEF TypeOK, Disconnect
    <2>2. ASSUME NEW n \in Machines, ~(LastSocket(s, daemon[s]) /\ n = daemon[s]),
                 machineSids'[n] = {}
          PROVE  /\ machineSids[n] = {}
                 /\ row'[n] = row[n]
                 /\ n \in rested => n \in rested'
      BY <1>0, <1>3, <2>2, NoneAssumption
      DEF TypeOK, Disconnect, Discard, LastSocket
    <2>3. UNCHANGED reg
      BY <1>3 DEF Disconnect
    <2> QED BY <1>0, <2>1, <2>2, <2>3
  <1>4. ASSUME NEW s \in Sockets, NEW m \in Machines, RegisterSelect(s, m)
        PROVE  AbsentIsInactive'
    <2>1. reg[s].phase # "written"
      BY <1>4 DEF RegisterSelect, Idle
    <2> QED BY <1>0, <1>4, <2>1 DEF TypeOK, RegisterSelect, history, memory
  <1>5. ASSUME NEW s \in Sockets, RegisterUpdate(s) \/ RegisterInsert(s)
        PROVE  AbsentIsInactive'
    <2>1. reg[s].id \in Machines /\ reg[s].phase = "selected"
      BY <1>0, <1>5, RegistrationShape DEF RegisterUpdate, RegisterInsert
    <2>2. /\ reg' = [reg EXCEPT ![s].phase = "written"]
          /\ row' = [row EXCEPT ![reg[s].id] = "active"]
          /\ UNCHANGED <<machineSids, rested>>
      BY <1>5 DEF RegisterUpdate, RegisterInsert, memory, history
    <2>3. /\ \A r \in Sockets \ {s} : reg'[r] = reg[r]
          /\ reg'[s].phase = "written" /\ reg'[s].id = reg[s].id
      BY <1>0, <2>1, <2>2, RegistrationShape DEF TypeOK
    <2>4. \A m \in Machines \ {reg[s].id} : row'[m] = row[m]
      BY <1>0, <2>1, <2>2 DEF TypeOK
    <2> QED BY <1>0, <2>1, <2>2, <2>3, <2>4
  <1>6. ASSUME NEW s \in Sockets, RegisterClash(s)
        PROVE  AbsentIsInactive'
    BY <1>0, <1>6 DEF TypeOK, RegisterClash, history, memory
  <1>7. ASSUME NEW s \in Sockets, RegisterFinish(s)
        PROVE  AbsentIsInactive'
    BY <1>0, <1>7 DEF TypeOK, RegisterFinish, Enter
  <1>8. ASSUME NEW s \in Sockets, Heartbeat(s)
        PROVE  AbsentIsInactive'
    BY <1>0, <1>8 DEF TypeOK, Heartbeat, memory
  <1>9. CASE Restart
    BY <1>9 DEF Restart
  <1>10. ASSUME NEW m \in Machines,
                (\E s \in Sockets : GoOffline(s, m)) \/ ConnectUser(m)
         PROVE  AbsentIsInactive'
    BY <1>0, <1>10 DEF GoOffline, ConnectUser, history, memory
  <1> QED
    BY <1>1, <1>2, <1>3, <1>4, <1>5, <1>6, <1>7, <1>8, <1>9, <1>10 DEF Next

-----------------------------------------------------------------------------
(* IInv is an invariant.                                                   *)
THEOREM PresenceInvariant == Spec => []IInv
  <1>1. Init => IInv
    BY InitEstablishes
  <1>2. IInv /\ [Next]_vars => IInv'
    <2>1. CASE IInv /\ Next
      BY <2>1, TypesStep, NamesStep, GhostsStep, ActiveStep, OfflineStep,
         AbsentStep
      DEF IInv
    <2>2. CASE IInv /\ UNCHANGED vars
      BY <2>2 DEF IInv, TypeOK, NewIsFresh, EnteredByName, AnnouncedStays,
         WrittenIsActive, LiveStaysRoutable, RegisteredStaysActive,
         GhostsExplained, OfflineIsAnnounced, AbsentIsInactive, Names, vars
    <2> QED BY <2>1, <2>2
  <1> QED BY <1>1, <1>2, PTL DEF Spec

(* Every record of a machine keeps to its values, and only a live socket   *)
(* has a machine.                                                          *)
THEOREM PresenceTypes == Spec => []TypeOK
  <1>1. IInv => TypeOK
    BY DEF IInv
  <1> QED BY <1>1, PresenceInvariant, PTL

(* A live socket is always found under the id it is known by.              *)
THEOREM LiveSocketsAreRoutable == Spec => []LiveStaysRoutable
  <1>1. IInv => LiveStaysRoutable
    BY DEF IInv
  <1> QED BY <1>1, PresenceInvariant, PTL

(* The machine of a live socket that registered under the id it announced  *)
(* is marked active, whatever its other sockets do.                        *)
THEOREM RegisteredMachinesAreActive == Spec => []RegisteredStaysActive
  <1>1. IInv => RegisteredStaysActive
    BY DEF IInv
  <1> QED BY <1>1, PresenceInvariant, PTL

(* A socket is routed to after its disconnect for one of two reasons only. *)
THEOREM GhostsAreExplained == Spec => []GhostsExplained
  <1>1. IInv => GhostsExplained
    BY DEF IInv
  <1> QED BY <1>1, PresenceInvariant, PTL

(* The web is told of every machine that is gone, and only a client that   *)
(* is no daemon can make it believe otherwise afterwards.                  *)
THEOREM AbsenceIsAnnounced == Spec => []OfflineIsAnnounced
  <1>1. IInv => OfflineIsAnnounced
    BY DEF IInv
  <1> QED BY <1>1, PresenceInvariant, PTL

(* No machine is marked active that neither a socket nor a registration    *)
(* holds so, but for what a stop left and a daemon that has not            *)
(* registered.                                                             *)
THEOREM AbsentMachinesAreInactive == Spec => []AbsentIsInactive
  <1>1. IInv => AbsentIsInactive
    BY DEF IInv
  <1> QED BY <1>1, PresenceInvariant, PTL

-----------------------------------------------------------------------------
(* The sets the relay emits to.                                            *)

(* A step of the presence handlers, seen from one machine's set.           *)
LEMMA SetStep ==
    ASSUME IInv, Next, NEW m \in Machines
    PROVE  [Net(m)!Next]_<<conn, machineSids[m]>>
  <1>0. TypeOK /\ NewIsFresh
    BY DEF IInv
  <1>1. ASSUME NEW s \in Sockets, Net(m)!Open(s) \/ Net(m)!Enter(s) \/ Net(m)!Close(s)
        PROVE  Net(m)!Next
    BY <1>1 DEF Net!Next
  <1>2. ASSUME NEW s \in Sockets, NEW n \in Machines, Announce(s, n)
        PROVE  Net(m)!Open(s)
    BY <1>0, <1>2 DEF TypeOK, Announce, Net!Open
  <1>3. ASSUME NEW s \in Sockets, NEW id \in Machines \cup {None},
               ConnectUnnamed(s, id)
        PROVE  Net(m)!Open(s)
    BY <1>3 DEF ConnectUnnamed, Net!Open
  <1>4. ASSUME NEW s \in Sockets, Disconnect(s)
        PROVE  Net(m)!Close(s)
    BY <1>0, <1>4 DEF TypeOK, Disconnect, Discard, Net!Close
  <1>5. ASSUME NEW s \in Sockets, RegisterFinish(s)
        PROVE  [Net(m)!Next]_<<conn, machineSids[m]>>
    <2>1. conn[s] # "new" /\ reg[s].id \in Machines
      BY <1>0, <1>5, RegistrationShape DEF RegisterFinish, NewIsFresh
    <2>2. CASE reg[s].id = m
      <3>1. Net(m)!Enter(s)
        BY <1>0, <1>5, <2>1, <2>2 DEF TypeOK, RegisterFinish, Enter, Net!Enter
      <3> QED BY <1>1, <3>1
    <2>3. CASE reg[s].id # m
      BY <1>0, <1>5, <2>1, <2>3 DEF TypeOK, RegisterFinish, Enter
    <2> QED BY <2>2, <2>3
  <1>6. ASSUME Restart
        PROVE  Net(m)!Next
    BY <1>6 DEF Restart, Net!Restart, Net!Next
  <1>7. ASSUME NEW s \in Sockets,
               \/ \E n \in Machines : GoOffline(s, n) \/ RegisterSelect(s, n)
               \/ RegisterUpdate(s) \/ RegisterInsert(s) \/ RegisterClash(s)
               \/ Heartbeat(s)
        PROVE  UNCHANGED <<conn, machineSids[m]>>
    BY <1>7
    DEF GoOffline, RegisterSelect, RegisterUpdate, RegisterInsert,
        RegisterClash, Heartbeat, memory
  <1>8. ASSUME NEW n \in Machines, ConnectUser(n)
        PROVE  UNCHANGED <<conn, machineSids[m]>>
    BY <1>8 DEF ConnectUser, memory
  <1> QED BY <1>1, <1>2, <1>3, <1>4, <1>5, <1>6, <1>7, <1>8 DEF Next

(* Presence keeps the set of every machine as MachineSockets says, which   *)
(* is what the relay is proved to work with.                               *)
THEOREM SetsAreKeptForTheRelay == Spec => SetsAreKept
  <1> DEFINE EachKept == \A m \in Machines : [Net(m)!Next]_<<conn, machineSids[m]>>
             Begins == \A m \in Machines : Net(m)!Init
  <1>1. Init => Begins
    BY DEF Init, Net!Init
  <1>2. IInv /\ [Next]_vars => [EachKept]_memory
    BY SetStep DEF vars, memory
  <1>3. SetsAreKept <=> Begins /\ [][EachKept]_memory
    BY DEF SetsAreKept
  <1> HIDE DEF EachKept, Begins
  <1> QED BY <1>1, <1>2, <1>3, PresenceInvariant, PTL DEF Spec
=============================================================================
