------------------------------ MODULE Pairing -------------------------------
(***************************************************************************)
(* The pairing of one public key: the row of pairing_requests that the     *)
(* request of a daemon, the response of a user and the exchange of keys    *)
(* write, and the tokens of auth_tokens.  Keys share nothing but the       *)
(* table.                                                                  *)
(*                                                                         *)
(* A handler reads the row, and writes it one or two awaits later as if it *)
(* had not changed.  The per-address breaker of requests is left out: it   *)
(* is asked, but told of no outcome, so it stays closed.                   *)
(***************************************************************************)
EXTENDS Naturals

CONSTANTS
    Handlers,       \* the handlers of the key that can be under way at a time
    MaxRequests, MaxTokens, MaxRestarts

ASSUME PairingAssumption ==
    /\ MaxRequests \in Nat
    /\ MaxTokens \in Nat
    /\ MaxRestarts \in Nat

VARIABLES
    row,        \* pairing_requests: the row of the key, or None
    minted,     \* auth_tokens: the tokens 1..minted
    born,       \* requests stored so far
    lapsed,     \* of them, those whose expires_at is past: they lapse in turn
    op,         \* where each handler is, and what it has read
    restarts,
    stale,      \* history: handlers whose row was written since they read it
    crossed,    \* history: the request was written by such a handler
    given       \* history: tokens given out for the request

vars == <<row, minted, born, lapsed, op, restarts, stale, crossed, given>>

None == [request |-> 0, state |-> "none"]
NoToken == 0
Idle == [at |-> "idle"]

Requests ==
    [request : 1..MaxRequests,
     state : {"pending", "exchange", "authorized", "expired"},
     payload : BOOLEAN, token : 0..MaxTokens]

Ops ==
    UNION {
        {Idle},
        [at : {"requesting"}, request : 0..MaxRequests,
         state : {"none", "pending", "exchange", "authorized", "expired"}],
        [at : {"expiring"}],
        [at : {"minting"}, pays : BOOLEAN],
        [at : {"authorizing"}, pays : BOOLEAN, token : 1..MaxTokens]}

Init ==
    /\ row = None
    /\ minted = 0
    /\ born = 0
    /\ lapsed = 0
    /\ op = [h \in Handlers |-> Idle]
    /\ restarts = 0
    /\ stale = {}
    /\ crossed = FALSE
    /\ given = 0

(* pending, and its time is not up.                                        *)
Open(r) == r.state = "pending" /\ r.request > lapsed

Busy == {h \in Handlers : op[h] # Idle}

GoesOn(h, next) ==
    /\ op' = [op EXCEPT ![h] = next]
    /\ UNCHANGED stale

Ends(h) ==
    /\ op' = [op EXCEPT ![h] = Idle]
    /\ stale' = stale \ {h}

(* A handler ends with a write that no other handler has seen.             *)
EndsWriting(h) ==
    /\ op' = [op EXCEPT ![h] = Idle]
    /\ stale' = Busy \ {h}

(* A write in one step, whatever the row is.                               *)
Writes(r) ==
    /\ row # None
    /\ row' = r
    /\ stale' = Busy
    /\ UNCHANGED <<minted, born, lapsed, op, restarts, crossed, given>>

-----------------------------------------------------------------------------
(* pairing/request: SELECT, and then a new request unless the one that was *)
(* read is still open.                                                     *)

RequestSelect(h) ==
    /\ op[h] = Idle
    /\ GoesOn(h, [at |-> "requesting", request |-> row.request, state |-> row.state])
    /\ UNCHANGED <<row, minted, born, lapsed, restarts, crossed, given>>

RequestReuse(h) ==
    /\ op[h].at = "requesting"
    /\ Open(op[h])
    /\ Ends(h)
    /\ UNCHANGED <<row, minted, born, lapsed, restarts, crossed, given>>

(* Mutated: an open request is not kept, and its PIN changes.              *)
RequestAnew(h) ==
    /\ op[h].at = "requesting"
    /\ born < MaxRequests
    /\ born' = born + 1
    /\ row' = [request |-> born', state |-> "pending",
               payload |-> FALSE, token |-> NoToken]
    /\ EndsWriting(h)
    /\ crossed' = FALSE
    /\ given' = 0
    /\ UNCHANGED <<minted, lapsed, restarts>>

(* INSERT OR REPLACE, whatever the row is by now.                          *)
RequestReplace(h) ==
    /\ op[h].at = "requesting"
    /\ ~Open(op[h])
    /\ born < MaxRequests
    /\ born' = born + 1
    /\ row' = [request |-> born', state |-> "pending",
               payload |-> FALSE, token |-> NoToken]
    /\ EndsWriting(h)
    /\ crossed' = FALSE
    /\ given' = 0
    /\ UNCHANGED <<minted, lapsed, restarts>>

-----------------------------------------------------------------------------
(* pairing/respond: SELECT the pending row, then set it expired, or store  *)
(* a token and set it authorized.                                          *)

(* Mutated: the state of the row is not looked at.                         *)
RespondToAny(h) ==
    /\ op[h] = Idle
    /\ GoesOn(h, IF row.request <= lapsed THEN [at |-> "expiring"]
                 ELSE [at |-> "minting", pays |-> TRUE])
    /\ UNCHANGED <<row, minted, born, lapsed, restarts, crossed, given>>

RespondSelect(h) ==
    /\ op[h] = Idle
    /\ row.state = "pending"
    /\ GoesOn(h, IF Open(row) THEN [at |-> "minting", pays |-> TRUE]
                 ELSE [at |-> "expiring"])
    /\ UNCHANGED <<row, minted, born, lapsed, restarts, crossed, given>>

Expire(h) ==
    /\ op[h].at = "expiring"
    /\ row' = [row EXCEPT !.state = "expired"]
    /\ crossed' = (crossed \/ h \in stale)
    /\ EndsWriting(h)
    /\ UNCHANGED <<minted, born, lapsed, restarts, given>>

(* Mutated: the token is given out and not stored.                         *)
MintNothing(h) ==
    /\ op[h].at = "minting"
    /\ minted < MaxTokens
    /\ GoesOn(h, [at |-> "authorizing", pays |-> op[h].pays, token |-> minted + 1])
    /\ UNCHANGED <<row, minted, born, lapsed, restarts, crossed, given>>

(* INSERT INTO auth_tokens.                                                *)
Mint(h) ==
    /\ op[h].at = "minting"
    /\ minted < MaxTokens
    /\ minted' = minted + 1
    /\ GoesOn(h, [at |-> "authorizing", pays |-> op[h].pays, token |-> minted'])
    /\ UNCHANGED <<row, born, lapsed, restarts, crossed, given>>

(* Mutated: the token is not written to the request.                       *)
AuthorizeOnly(h) ==
    LET o == op[h] IN
    /\ o.at = "authorizing"
    /\ row' = [row EXCEPT !.state = "authorized", !.payload = @ \/ o.pays]
    /\ given' = given + 1
    /\ crossed' = (crossed \/ h \in stale)
    /\ EndsWriting(h)
    /\ UNCHANGED <<minted, born, lapsed, restarts>>

(* UPDATE, of respond with the payload.                                    *)
Authorize(h) ==
    LET o == op[h] IN
    /\ o.at = "authorizing"
    /\ row' = [row EXCEPT !.state = "authorized", !.token = o.token,
                          !.payload = @ \/ o.pays]
    /\ given' = given + 1
    /\ crossed' = (crossed \/ h \in stale)
    /\ EndsWriting(h)
    /\ UNCHANGED <<minted, born, lapsed, restarts>>

-----------------------------------------------------------------------------
(* /v1/auth with the key: the token of an authorized request, and a new    *)
(* one if it was delivered without.                                        *)
AuthSelect(h) ==
    /\ op[h] = Idle
    /\ row.state = "authorized"
    /\ row.token = NoToken
    /\ GoesOn(h, [at |-> "minting", pays |-> FALSE])
    /\ UNCHANGED <<row, minted, born, lapsed, restarts, crossed, given>>

(* /v1/auth and /v1/auth/verify with a signature: a token of their own.    *)
Verify ==
    /\ minted < MaxTokens
    /\ minted' = minted + 1
    /\ UNCHANGED <<row, born, lapsed, op, restarts, stale, crossed, given>>

(* Mutated: requests whose time is not up are expired as well.             *)
StatusExpiresAll ==
    /\ row.state = "pending"
    /\ Writes([row EXCEPT !.state = "expired"])

(* pairing/status expires a pending row whose time is up.                  *)
Status ==
    /\ row.state = "pending"
    /\ ~Open(row)
    /\ Writes([row EXCEPT !.state = "expired"])

(* pairing/exchange and pairing/deliver take a row in any state.           *)
Exchange == Writes([row EXCEPT !.state = "exchange"])
Deliver == Writes([row EXCEPT !.state = "authorized", !.payload = TRUE])

(* The oldest request that is not past its time reaches it.                *)
Lapse ==
    /\ lapsed < born
    /\ lapsed' = lapsed + 1
    /\ UNCHANGED <<row, minted, born, op, restarts, stale, crossed, given>>

(* The server stops and starts: handlers end where they are.               *)
Restart ==
    /\ restarts < MaxRestarts
    /\ restarts' = restarts + 1
    /\ op' = [h \in Handlers |-> Idle]
    /\ stale' = {}
    /\ UNCHANGED <<row, minted, born, lapsed, crossed, given>>

Next ==
    \/ \E h \in Handlers :
        \/ RequestSelect(h)
        \/ RequestReuse(h)
        \/ RequestReplace(h)
        \/ RespondSelect(h)
        \/ Expire(h)
        \/ Mint(h)
        \/ Authorize(h)
        \/ AuthSelect(h)
    \/ Verify
    \/ Status
    \/ Exchange
    \/ Deliver
    \/ Lapse
    \/ Restart

Spec == Init /\ [][Next]_vars

-----------------------------------------------------------------------------
(* The values each record can hold; a handler that writes found a row.     *)
TypeOK ==
    /\ row \in Requests \cup {None}
    /\ minted \in 0..MaxTokens
    /\ born \in 0..MaxRequests
    /\ lapsed \in 0..born
    /\ op \in [Handlers -> Ops]
    /\ restarts \in 0..MaxRestarts
    /\ stale \subseteq Busy
    /\ crossed \in BOOLEAN
    /\ given \in Nat
    /\ row = None => \A h \in Handlers : op[h].at \in {"idle", "requesting"}

(* A token that a client was or will be given is in auth_tokens, wherever  *)
(* a stop of the server cut the handlers that store it and give it out.    *)
TokensAreStored ==
    /\ row # None => row.token <= minted
    /\ \A h \in Handlers : op[h].at = "authorizing" => op[h].token <= minted

(* One request gives out one token at most, whatever becomes of it by      *)
(* exchange, delivery and restarts, unless a handler that had read it      *)
(* before another wrote it wrote it as well.                               *)
OneTokenPerRequest ==
    ~crossed => given <= 1

(* A request is expired only when its time is up, unless by a response to  *)
(* the request before it.                                                  *)
ExpiredInTime ==
    row.state = "expired" /\ ~crossed => row.request <= lapsed

(* The PIN a user was shown stays good until it is answered or its time is *)
(* up: an open request is replaced only by a daemon's request that read    *)
(* the row before it was there.                                            *)
PinStays ==
    [][Open(row) /\ row'.request # row.request =>
           \E h \in stale : op[h].at = "requesting" /\ op'[h] = Idle]_vars
=============================================================================
