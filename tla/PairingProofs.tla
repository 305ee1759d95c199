--------------------------- MODULE PairingProofs ----------------------------
(***************************************************************************)
(* The safety of pairing for any number of handlers, requests, tokens and  *)
(* restarts.  What a handler does at its end rests on what it read at its  *)
(* start; the invariant says that this still holds of the row while no     *)
(* other handler has written it.                                           *)
(***************************************************************************)
EXTENDS Pairing, TLAPS

(* What a handler knows of the row that nobody has written since.          *)
Knows(h) ==
    LET o == op[h] IN
    /\ o.at = "requesting" => o.request = row.request /\ o.state = row.state
    /\ o.at = "expiring" => row.state = "pending" /\ row.request <= lapsed
    /\ o.at \in {"minting", "authorizing"} =>
        IF o.pays THEN row.state = "pending"
        ELSE row.state = "authorized" /\ row.token = NoToken

FreshKnows == \A h \in Handlers \ stale : Knows(h)

(* A request that is pending or has no token has given none out.           *)
GivenIsWritten ==
    row = None \/ row.state = "pending" \/ row.token = NoToken => given = 0

IInv ==
    /\ TypeOK
    /\ FreshKnows
    /\ GivenIsWritten
    /\ TokensAreStored
    /\ OneTokenPerRequest
    /\ ExpiredInTime

-----------------------------------------------------------------------------
LEMMA InitIInv == Init => IInv
<1> SUFFICES ASSUME Init PROVE IInv
    OBVIOUS
<1> USE DEF Init, None, Idle
<1>1. TypeOK
    <2>1. Idle \in Ops
        BY DEF Ops
    <2>2. op \in [Handlers -> Ops]
        BY <2>1
    <2>3. \A h \in Handlers : op[h].at = "idle"
        OBVIOUS
    <2>4. row = None /\ stale = {}
        OBVIOUS
    <2>5. crossed \in BOOLEAN
        OBVIOUS
    <2> QED BY <2>2, <2>3, <2>4, <2>5, PairingAssumption DEF TypeOK
<1>2. FreshKnows
    BY DEF FreshKnows, Knows
<1>3. TokensAreStored
    BY DEF TokensAreStored
<1> QED BY <1>1, <1>2, <1>3 DEF IInv, GivenIsWritten, OneTokenPerRequest, ExpiredInTime

(* Which handlers are under way is known from where each is.               *)
LEMMA IdleIsIdle ==
    ASSUME TypeOK, NEW h \in Handlers
    PROVE  /\ op[h] = Idle <=> op[h].at = "idle"
           /\ h \in Busy <=> op[h].at # "idle"
BY DEF TypeOK, Ops, Idle, Busy

(* A handler that goes on leaves the others where they are.                *)
LEMMA OneMoves ==
    ASSUME TypeOK, NEW h \in Handlers, NEW next \in Ops,
           op' = [op EXCEPT ![h] = next]
    PROVE  /\ op' \in [Handlers -> Ops]
           /\ op'[h] = next
           /\ \A k \in Handlers \ {h} : op'[k] = op[k]
BY DEF TypeOK

-----------------------------------------------------------------------------
(* Handlers that read.                                                     *)
LEMMA GoesOnIInv ==
    ASSUME IInv, NEW h \in Handlers, NEW next \in Ops,
           op[h] = Idle, GoesOn(h, next),
           UNCHANGED <<row, minted, born, lapsed, restarts, crossed, given>>,
           next.at \in {"requesting", "expiring", "minting"},
           row = None => next.at = "requesting",
           next.at = "requesting" => next.request = row.request /\ next.state = row.state,
           next.at = "expiring" => row.state = "pending" /\ row.request <= lapsed,
           next.at = "minting" =>
               IF next.pays THEN row.state = "pending"
               ELSE row.state = "authorized" /\ row.token = NoToken
    PROVE  IInv'
<1>1. /\ op' \in [Handlers -> Ops] /\ op'[h] = next
      /\ \A k \in Handlers \ {h} : op'[k] = op[k]
    BY OneMoves DEF GoesOn, IInv
<1>2. stale' = stale /\ stale \subseteq Busy
    BY DEF GoesOn, IInv, TypeOK
<1>3. next # Idle
    BY DEF Idle
<1>4. TypeOK'
    BY <1>1, <1>2, <1>3 DEF IInv, TypeOK, Busy
<1>5. FreshKnows'
    <2> SUFFICES ASSUME NEW k \in Handlers \ stale PROVE Knows(k)'
        BY <1>2 DEF FreshKnows
    <2>1. CASE k = h
        BY <1>1, <2>1 DEF Knows
    <2>2. CASE k # h
        <3>1. Knows(k)
            BY DEF IInv, FreshKnows
        <3> QED BY <1>1, <2>2, <3>1 DEF Knows
    <2> QED BY <2>1, <2>2
<1>6. TokensAreStored'
    <2> SUFFICES ASSUME NEW k \in Handlers, op'[k].at = "authorizing"
                 PROVE  op'[k].token <= minted
        BY DEF TokensAreStored, IInv
    <2>1. k # h
        BY <1>1
    <2> QED BY <1>1, <2>1 DEF IInv, TokensAreStored
<1> QED BY <1>4, <1>5, <1>6 DEF IInv, GivenIsWritten, OneTokenPerRequest, ExpiredInTime

LEMMA SelectIInv ==
    ASSUME IInv, NEW h \in Handlers,
           RequestSelect(h) \/ RespondSelect(h) \/ AuthSelect(h)
    PROVE  IInv'
<1> TypeOK
    BY DEF IInv
<1>1. CASE RequestSelect(h)
    <2> DEFINE next == [at |-> "requesting", request |-> row.request, state |-> row.state]
    <2>1. next \in Ops
        BY PairingAssumption DEF TypeOK, Ops, Requests, None
    <2> HIDE DEF next
    <2>2. /\ next.at = "requesting" /\ next.request = row.request
          /\ next.state = row.state
        BY DEF next
    <2>3. GoesOn(h, next) /\ op[h] = Idle
        BY <1>1 DEF RequestSelect, next
    <2>4. UNCHANGED <<row, minted, born, lapsed, restarts, crossed, given>>
        BY <1>1 DEF RequestSelect
    <2> QED BY <2>1, <2>2, <2>3, <2>4, GoesOnIInv
<1>2. CASE RespondSelect(h)
    <2> DEFINE next == IF Open(row) THEN [at |-> "minting", pays |-> TRUE]
                       ELSE [at |-> "expiring"]
    <2>1. next \in Ops
        BY DEF Ops
    <2>2. row.state = "pending" /\ row # None
        BY <1>2 DEF RespondSelect, None
    <2>3. ~Open(row) => row.request <= lapsed
        BY <2>2 DEF Open, TypeOK, Requests
    <2>4. next.at = "minting" => next.pays
        OBVIOUS
    <2>5. next.at \in {"expiring", "minting"} /\ (next.at = "expiring" => ~Open(row))
        OBVIOUS
    <2> HIDE DEF next
    <2>6. GoesOn(h, next) /\ op[h] = Idle
        BY <1>2 DEF RespondSelect, next
    <2>7. UNCHANGED <<row, minted, born, lapsed, restarts, crossed, given>>
        BY <1>2 DEF RespondSelect
    <2> QED BY <2>1, <2>2, <2>3, <2>4, <2>5, <2>6, <2>7, GoesOnIInv
<1>3. CASE AuthSelect(h)
    <2> DEFINE next == [at |-> "minting", pays |-> FALSE]
    <2>1. next \in Ops /\ next.at = "minting" /\ ~next.pays
        BY DEF Ops
    <2> HIDE DEF next
    <2>2. GoesOn(h, next) /\ op[h] = Idle
        BY <1>3 DEF AuthSelect, next
    <2>3. /\ row.state = "authorized" /\ row.token = NoToken /\ row # None
          /\ UNCHANGED <<row, minted, born, lapsed, restarts, crossed, given>>
        BY <1>3 DEF AuthSelect, None
    <2> QED BY <2>1, <2>2, <2>3, GoesOnIInv
<1> QED BY <1>1, <1>2, <1>3

-----------------------------------------------------------------------------
(* Handlers that end.  Whoever is under way after a write is stale, so     *)
(* nobody has anything left to know.                                       *)
LEMMA WriterEnds ==
    ASSUME TypeOK, NEW h \in Handlers, EndsWriting(h)
    PROVE  /\ op' \in [Handlers -> Ops]
           /\ op'[h] = Idle
           /\ \A k \in Handlers \ {h} : op'[k] = op[k]
           /\ stale' \subseteq Busy'
           /\ FreshKnows'
<1>1. Idle \in Ops
    BY DEF Ops
<1>2. /\ op' \in [Handlers -> Ops] /\ op'[h] = Idle
      /\ \A k \in Handlers \ {h} : op'[k] = op[k]
    BY <1>1, OneMoves DEF EndsWriting
<1>3. stale' \subseteq Busy'
    BY <1>2 DEF EndsWriting, Busy
<1>4. FreshKnows'
    <2> SUFFICES ASSUME NEW k \in Handlers \ stale' PROVE Knows(k)'
        BY DEF FreshKnows
    <2>1. op'[k] = Idle
        BY <1>2 DEF EndsWriting, Busy
    <2> QED BY <2>1 DEF Knows, Idle
<1> QED BY <1>2, <1>3, <1>4

LEMMA ReuseIInv ==
    ASSUME IInv, NEW h \in Handlers, RequestReuse(h)
    PROVE  IInv'
<1> USE DEF RequestReuse, Ends
<1>1. Idle \in Ops
    BY DEF Ops
<1>2. /\ op' \in [Handlers -> Ops] /\ op'[h] = Idle
      /\ \A k \in Handlers \ {h} : op'[k] = op[k]
    BY <1>1, OneMoves DEF IInv
<1>3. TypeOK'
    <2>1. stale' \subseteq Busy'
        BY <1>2 DEF IInv, TypeOK, Busy
    <2>2. row' = None => \A k \in Handlers : op'[k].at \in {"idle", "requesting"}
        BY <1>2 DEF IInv, TypeOK, Idle
    <2> QED BY <1>2, <2>1, <2>2 DEF IInv, TypeOK
<1>4. FreshKnows'
    <2> SUFFICES ASSUME NEW k \in Handlers \ stale' PROVE Knows(k)'
        BY DEF FreshKnows
    <2>1. CASE k = h
        BY <1>2, <2>1 DEF Knows, Idle
    <2>2. CASE k # h
        BY <1>2, <2>2 DEF IInv, FreshKnows, Knows
    <2> QED BY <2>1, <2>2
<1>5. TokensAreStored'
    BY <1>2 DEF IInv, TokensAreStored, Idle
<1> QED BY <1>3, <1>4, <1>5 DEF IInv, GivenIsWritten, OneTokenPerRequest, ExpiredInTime

LEMMA ReplaceIInv ==
    ASSUME IInv, NEW h \in Handlers, RequestReplace(h)
    PROVE  IInv'
<1> USE DEF RequestReplace
<1>1. /\ op' \in [Handlers -> Ops] /\ op'[h] = Idle
      /\ \A k \in Handlers \ {h} : op'[k] = op[k]
      /\ stale' \subseteq Busy' /\ FreshKnows'
    BY WriterEnds DEF IInv
<1>2. /\ row' \in Requests /\ row'.state = "pending"
      /\ row'.token = NoToken /\ row' # None
      /\ born' \in 0..MaxRequests /\ lapsed' \in 0..born'
    BY PairingAssumption DEF IInv, TypeOK, Requests, None, NoToken
<1>3. TypeOK'
    BY <1>1, <1>2 DEF IInv, TypeOK
<1>4. TokensAreStored'
    BY <1>1, <1>2 DEF IInv, TypeOK, TokensAreStored, Idle, NoToken
<1> QED BY <1>1, <1>2, <1>3, <1>4
    DEF IInv, GivenIsWritten, OneTokenPerRequest, ExpiredInTime

(* A handler that expires or authorizes found a row.                       *)
LEMMA FoundARow ==
    ASSUME TypeOK, NEW h \in Handlers,
           op[h].at \in {"expiring", "minting", "authorizing"}
    PROVE  row \in Requests
BY DEF TypeOK

LEMMA ExpireIInv ==
    ASSUME IInv, NEW h \in Handlers, Expire(h)
    PROVE  IInv'
<1> USE DEF Expire
<1>1. /\ op' \in [Handlers -> Ops] /\ op'[h] = Idle
      /\ \A k \in Handlers \ {h} : op'[k] = op[k]
      /\ stale' \subseteq Busy' /\ FreshKnows'
    BY WriterEnds DEF IInv
<1>2. row \in Requests
    BY FoundARow DEF IInv
<1>3. /\ row' \in Requests /\ row'.state = "expired" /\ row' # None
      /\ row'.token = row.token /\ row'.request = row.request /\ row # None
    BY <1>2 DEF Requests, None
<1>4. crossed' \in BOOLEAN /\ (~crossed' => ~crossed /\ h \notin stale)
    BY DEF IInv, TypeOK
<1>5. TypeOK'
    BY <1>1, <1>3, <1>4 DEF IInv, TypeOK
<1>6. TokensAreStored'
    BY <1>1, <1>3 DEF IInv, TokensAreStored, Idle
<1>7. GivenIsWritten' /\ OneTokenPerRequest'
    BY <1>3, <1>4 DEF IInv, GivenIsWritten, OneTokenPerRequest
<1>8. ExpiredInTime'
    BY <1>3, <1>4 DEF IInv, FreshKnows, Knows, ExpiredInTime
<1> QED BY <1>1, <1>5, <1>6, <1>7, <1>8 DEF IInv

LEMMA AuthorizeIInv ==
    ASSUME IInv, NEW h \in Handlers, Authorize(h)
    PROVE  IInv'
<1>1. /\ op' \in [Handlers -> Ops] /\ op'[h] = Idle
      /\ \A k \in Handlers \ {h} : op'[k] = op[k]
      /\ stale' \subseteq Busy' /\ FreshKnows'
    BY WriterEnds DEF IInv, Authorize
<1>2. row \in Requests
    BY FoundARow DEF IInv, Authorize
<1>3. op[h].token \in 1..MaxTokens /\ op[h].pays \in BOOLEAN /\ op[h].token <= minted
    BY DEF IInv, TypeOK, Ops, Idle, TokensAreStored, Authorize
<1> DEFINE paid == row.payload \/ op[h].pays
<1>4. paid \in BOOLEAN
    OBVIOUS
<1>5. row' = [row EXCEPT !.state = "authorized", !.token = op[h].token, !.payload = paid]
    BY DEF Authorize
<1> HIDE DEF paid
<1>6. /\ row' \in Requests /\ row'.state = "authorized" /\ row' # None
      /\ row'.token = op[h].token /\ row'.token # NoToken
    <2> DEFINE q == [row EXCEPT !.state = "authorized"]
               v == [q EXCEPT !.token = op[h].token]
    <2>1. q \in Requests /\ q.state = "authorized"
        BY <1>2 DEF Requests
    <2> HIDE DEF q
    <2>2. op[h].token \in 0..MaxTokens
        BY <1>3, PairingAssumption
    <2>3. v \in Requests /\ v.state = "authorized" /\ v.token = op[h].token
        BY <2>1, <2>2 DEF Requests
    <2>4. row' = [v EXCEPT !.payload = paid]
        BY <1>5 DEF q
    <2> HIDE DEF v
    <2>5. row' \in Requests /\ row'.state = "authorized" /\ row'.token = op[h].token
        BY <1>4, <2>3, <2>4 DEF Requests
    <2> QED BY <1>3, <2>5 DEF None, NoToken
<1>7. crossed' \in BOOLEAN /\ (~crossed' => ~crossed /\ h \notin stale)
    BY DEF IInv, TypeOK, Authorize
<1>8. TypeOK'
    BY <1>1, <1>6, <1>7 DEF IInv, TypeOK, Authorize
<1>9. TokensAreStored'
    BY <1>1, <1>3, <1>6 DEF IInv, TokensAreStored, Idle, Authorize
<1>10. GivenIsWritten' /\ ExpiredInTime'
    BY <1>6 DEF GivenIsWritten, ExpiredInTime
<1>11. OneTokenPerRequest'
    <2> SUFFICES ASSUME h \notin stale PROVE given = 0
        BY <1>7 DEF OneTokenPerRequest, Authorize
    <2>1. Knows(h)
        BY DEF IInv, FreshKnows
    <2> QED BY <2>1 DEF Knows, IInv, GivenIsWritten, Authorize
<1> QED BY <1>1, <1>8, <1>9, <1>10, <1>11 DEF IInv

LEMMA MintIInv ==
    ASSUME IInv, NEW h \in Handlers, Mint(h)
    PROVE  IInv'
<1> USE DEF Mint, GoesOn
<1> DEFINE next == [at |-> "authorizing", pays |-> op[h].pays, token |-> minted']
<1>1. op[h].pays \in BOOLEAN
    BY DEF IInv, TypeOK, Ops, Idle
<1>2. minted' \in 1..MaxTokens /\ minted <= minted' /\ minted \in Nat
    BY PairingAssumption DEF IInv, TypeOK
<1>3. next \in Ops
    BY <1>1, <1>2 DEF Ops
<1>4. next.at = "authorizing" /\ next.pays = op[h].pays /\ next.token = minted'
    OBVIOUS
<1>5. op' = [op EXCEPT ![h] = next]
    OBVIOUS
<1> HIDE DEF next
<1>6. /\ op' \in [Handlers -> Ops] /\ op'[h] = next
      /\ \A k \in Handlers \ {h} : op'[k] = op[k]
    BY <1>3, <1>5, OneMoves DEF IInv
<1>7. row \in Requests /\ row # None
    BY FoundARow DEF IInv, Requests, None
<1>8. stale' \subseteq Busy'
    BY <1>4, <1>6 DEF IInv, TypeOK, Busy, Idle
<1>9. TypeOK'
    BY <1>2, <1>6, <1>7, <1>8 DEF IInv, TypeOK
<1>10. FreshKnows'
    <2> SUFFICES ASSUME NEW k \in Handlers \ stale PROVE Knows(k)'
        BY DEF FreshKnows
    <2>1. Knows(k)
        BY DEF IInv, FreshKnows
    <2>2. CASE k = h
        BY <1>4, <1>6, <2>1, <2>2 DEF Knows
    <2>3. CASE k # h
        BY <1>6, <2>1, <2>3 DEF Knows
    <2> QED BY <2>2, <2>3
<1>11. TokensAreStored'
    <2>1. row.token <= minted /\ row.token \in Nat
        BY <1>7 DEF IInv, TokensAreStored, Requests
    <2>2. ASSUME NEW k \in Handlers, op'[k].at = "authorizing"
          PROVE  op'[k].token <= minted'
        <3>1. CASE k = h
            BY <1>2, <1>4, <1>6, <3>1
        <3>2. CASE k # h
            <4>1. op[k].at = "authorizing" /\ op'[k] = op[k]
                BY <1>6, <2>2, <3>2
            <4>2. op[k].token \in Nat
                BY <4>1 DEF IInv, TypeOK, Ops, Idle
            <4> QED BY <1>2, <4>1, <4>2 DEF IInv, TokensAreStored
        <3> QED BY <3>1, <3>2
    <2> QED BY <1>2, <2>1, <2>2 DEF TokensAreStored
<1> QED BY <1>9, <1>10, <1>11
    DEF IInv, GivenIsWritten, OneTokenPerRequest, ExpiredInTime

-----------------------------------------------------------------------------
(* Steps of no handler.                                                    *)
LEMMA VerifyIInv ==
    ASSUME IInv, Verify
    PROVE  IInv'
<1> USE DEF Verify
<1>1. minted' \in 0..MaxTokens /\ minted <= minted' /\ minted \in Nat
    BY PairingAssumption DEF IInv, TypeOK
<1>2. TypeOK'
    BY <1>1 DEF IInv, TypeOK, Busy
<1>3. FreshKnows'
    BY DEF IInv, FreshKnows, Knows
<1>4. TokensAreStored'
    <2>1. row # None => row.token \in Nat
        BY DEF IInv, TypeOK, Requests
    <2>2. \A k \in Handlers : op[k].at = "authorizing" => op[k].token \in Nat
        BY DEF IInv, TypeOK, Ops, Idle
    <2> QED BY <1>1, <2>1, <2>2 DEF IInv, TokensAreStored
<1> QED BY <1>2, <1>3, <1>4
    DEF IInv, GivenIsWritten, OneTokenPerRequest, ExpiredInTime

LEMMA WritesIInv ==
    ASSUME IInv, NEW r \in Requests, Writes(r),
           r.request = row.request, r.token = row.token, r.state # "pending",
           r.state = "expired" => row.request <= lapsed
    PROVE  IInv'
<1> USE DEF Writes
<1>1. row' = r /\ r # None
    BY DEF Requests, None
<1>2. TypeOK'
    BY <1>1 DEF IInv, TypeOK, Busy
<1>3. FreshKnows'
    <2> SUFFICES ASSUME NEW k \in Handlers \ stale' PROVE Knows(k)'
        BY DEF FreshKnows
    <2>1. op'[k] = Idle
        BY DEF Busy
    <2> QED BY <2>1 DEF Knows, Idle
<1>4. TokensAreStored'
    BY <1>1 DEF IInv, TokensAreStored
<1> QED BY <1>1, <1>2, <1>3, <1>4
    DEF IInv, GivenIsWritten, OneTokenPerRequest, ExpiredInTime

LEMMA RowIInv ==
    ASSUME IInv, Status \/ Exchange \/ Deliver
    PROVE  IInv'
<1>1. row \in Requests
    BY DEF IInv, TypeOK, Status, Exchange, Deliver, Writes
<1>2. CASE Status
    <2> DEFINE r == [row EXCEPT !.state = "expired"]
    <2>1. /\ r \in Requests /\ r.request = row.request /\ r.token = row.token
          /\ r.state = "expired"
        BY <1>1 DEF Requests
    <2>2. row.request <= lapsed
        BY <1>1, <1>2 DEF Status, Open, IInv, TypeOK, Requests
    <2>3. Writes(r)
        BY <1>2 DEF Status
    <2> HIDE DEF r
    <2> QED BY <2>1, <2>2, <2>3, WritesIInv
<1>3. CASE Exchange
    <2> DEFINE r == [row EXCEPT !.state = "exchange"]
    <2>1. /\ r \in Requests /\ r.request = row.request /\ r.token = row.token
          /\ r.state = "exchange"
        BY <1>1 DEF Requests
    <2>2. Writes(r)
        BY <1>3 DEF Exchange
    <2> HIDE DEF r
    <2> QED BY <2>1, <2>2, WritesIInv
<1>4. CASE Deliver
    <2> DEFINE r == [row EXCEPT !.state = "authorized", !.payload = TRUE]
    <2>1. /\ r \in Requests /\ r.request = row.request /\ r.token = row.token
          /\ r.state = "authorized"
        BY <1>1 DEF Requests
    <2>2. Writes(r)
        BY <1>4 DEF Deliver
    <2> HIDE DEF r
    <2> QED BY <2>1, <2>2, WritesIInv
<1> QED BY <1>2, <1>3, <1>4

LEMMA LapseIInv ==
    ASSUME IInv, Lapse
    PROVE  IInv'
<1> USE DEF Lapse
<1>1. lapsed' \in 0..born /\ lapsed <= lapsed' /\ lapsed \in Nat
    BY DEF IInv, TypeOK
<1>2. row.request \in Nat
    BY PairingAssumption DEF IInv, TypeOK, Requests, None
<1>3. TypeOK'
    BY <1>1 DEF IInv, TypeOK, Busy
<1>4. FreshKnows'
    <2> SUFFICES ASSUME NEW k \in Handlers \ stale PROVE Knows(k)'
        BY DEF FreshKnows
    <2>1. Knows(k)
        BY DEF IInv, FreshKnows
    <2> QED BY <1>1, <1>2, <2>1 DEF Knows
<1>5. ExpiredInTime'
    BY <1>1, <1>2 DEF IInv, ExpiredInTime
<1>6. TokensAreStored'
    BY DEF IInv, TokensAreStored
<1> QED BY <1>3, <1>4, <1>5, <1>6 DEF IInv, GivenIsWritten, OneTokenPerRequest

LEMMA RestartIInv ==
    ASSUME IInv, Restart
    PROVE  IInv'
<1> USE DEF Restart
<1>1. Idle \in Ops /\ Idle.at = "idle"
    BY DEF Ops, Idle
<1>2. op' \in [Handlers -> Ops] /\ \A k \in Handlers : op'[k] = Idle
    BY <1>1
<1>3. TypeOK'
    BY <1>1, <1>2, PairingAssumption DEF IInv, TypeOK, Busy
<1>4. FreshKnows'
    BY <1>2 DEF FreshKnows, Knows, Idle
<1>5. TokensAreStored'
    BY <1>1, <1>2 DEF IInv, TokensAreStored
<1> QED BY <1>3, <1>4, <1>5
    DEF IInv, GivenIsWritten, OneTokenPerRequest, ExpiredInTime

LEMMA NextIInv == IInv /\ [Next]_vars => IInv'
<1> SUFFICES ASSUME IInv, [Next]_vars PROVE IInv'
    OBVIOUS
<1>1. ASSUME NEW h \in Handlers,
             \/ RequestSelect(h) \/ RequestReuse(h) \/ RequestReplace(h)
             \/ RespondSelect(h) \/ Expire(h) \/ Mint(h)
             \/ Authorize(h) \/ AuthSelect(h)
      PROVE  IInv'
    BY <1>1, SelectIInv, ReuseIInv, ReplaceIInv, ExpireIInv, MintIInv, AuthorizeIInv
<1>2. CASE Verify \/ Status \/ Exchange \/ Deliver \/ Lapse \/ Restart
    BY <1>2, VerifyIInv, RowIInv, LapseIInv, RestartIInv
<1>3. CASE UNCHANGED vars
    BY <1>3 DEF vars, IInv, TypeOK, FreshKnows, Knows, GivenIsWritten, TokensAreStored,
        OneTokenPerRequest, ExpiredInTime, Busy
<1> QED BY <1>1, <1>2, <1>3 DEF Next

LEMMA SafeIInv == Spec => []IInv
BY InitIInv, NextIInv, PTL DEF Spec

-----------------------------------------------------------------------------
(* Every record of a pairing keeps to its values, and a handler that is to *)
(* write found a row (respond_pairing, pairing_request, auth).             *)
THEOREM PairingTypes == Spec => []TypeOK
<1>1. IInv => TypeOK
    BY DEF IInv
<1> QED BY <1>1, SafeIInv, PTL

(* Tokens that were or will be given out are in auth_tokens.               *)
THEOREM GivenTokensAreStored == Spec => []TokensAreStored
<1>1. IInv => TokensAreStored
    BY DEF IInv
<1> QED BY <1>1, SafeIInv, PTL

(* Unless a handler writes the row that another has written since it read  *)
(* it, a request gives out one token.                                      *)
THEOREM RequestsGiveOneToken == Spec => []OneTokenPerRequest
<1>1. IInv => OneTokenPerRequest
    BY DEF IInv
<1> QED BY <1>1, SafeIInv, PTL

(* Under the same condition a request is expired only past its time.       *)
THEOREM RequestsExpireInTime == Spec => []ExpiredInTime
<1>1. IInv => ExpiredInTime
    BY DEF IInv
<1> QED BY <1>1, SafeIInv, PTL

-----------------------------------------------------------------------------
(* Only pairing_request changes the request of a row, and a handler that   *)
(* is not stale has read that very row.                                    *)
LEMMA OpenIsKept ==
    ASSUME IInv, [Next]_vars, Open(row), row'.request # row.request
    PROVE  \E h \in stale : op[h].at = "requesting" /\ op'[h] = Idle
<1>1. row \in Requests
    BY DEF IInv, TypeOK, Open, None
<1>2. ASSUME NEW h \in Handlers, RequestReplace(h)
      PROVE  \E k \in stale : op[k].at = "requesting" /\ op'[k] = Idle
    <2>1. op[h].at = "requesting" /\ ~Open(op[h])
        BY <1>2 DEF RequestReplace
    <2>2. op'[h] = Idle
        BY <1>2, WriterEnds DEF RequestReplace, IInv
    <2>3. h \in stale
        BY <2>1 DEF IInv, FreshKnows, Knows, Open
    <2> QED BY <2>1, <2>2, <2>3
<1>3. ASSUME NEW h \in Handlers,
             \/ RequestSelect(h) \/ RequestReuse(h) \/ RespondSelect(h)
             \/ Expire(h) \/ Mint(h) \/ Authorize(h) \/ AuthSelect(h)
      PROVE  row'.request = row.request
    BY <1>1, <1>3 DEF Requests, RequestSelect, RequestReuse, RespondSelect, Expire, Mint,
        Authorize, AuthSelect
<1>4. CASE Verify \/ Status \/ Exchange \/ Deliver \/ Lapse \/ Restart
    BY <1>1, <1>4 DEF Requests, Verify, Status, Exchange, Deliver, Writes, Lapse, Restart
<1>5. CASE UNCHANGED vars
    BY <1>5 DEF vars
<1> QED BY <1>2, <1>3, <1>4, <1>5 DEF Next

(* The PIN of an open request is replaced only by a daemon's request that  *)
(* read the row before the open one was there (pairing_request).           *)
THEOREM PinsStay == Spec => PinStays
<1> DEFINE Kept == Open(row) /\ row'.request # row.request =>
                       \E h \in stale : op[h].at = "requesting" /\ op'[h] = Idle
<1>1. IInv /\ [Next]_vars => [Kept]_vars
    BY OpenIsKept
<1> QED BY <1>1, SafeIInv, PTL DEF Spec, PinStays
=============================================================================
