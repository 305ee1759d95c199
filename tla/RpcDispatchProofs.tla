------------------------- MODULE RpcDispatchProofs -------------------------
(***************************************************************************)
(* For any number of calls and sockets: the relay's calls drive the        *)
(* breaker as CircuitBreaker allows, no waiting call is missing from       *)
(* pending_rpcs, and the relay implements RpcContract.                     *)
(***************************************************************************)
EXTENDS RpcDispatch, TLAPS

(* One call's share of the inductive invariant: what its place in the      *)
(* coroutine, its future and the table of pending calls say of each other. *)
CallInv(c) ==
    /\ pc[c] \in {"idle", "admitted"} =>
           future[c] = "none" /\ c \notin pending /\ accepted[c] = 0
    /\ pc[c] \in {"emitting", "waiting", "overdue"} /\ future[c] = "open"
           => c \in pending
    /\ c \in pending => accepted[c] = 0 /\ future[c] # "set"
    /\ future[c] = "set" => accepted[c] = 1
    /\ c \in pending /\ pc[c] = "done" => cause[c] \in {"mutated", "cancelled"}

IInv == CallTypeOK /\ \A c \in Calls : CallInv(c)

-----------------------------------------------------------------------------
(* The breaker inside the relay is a breaker.                              *)

LEMMA StepsOfTheBreaker == [Next]_vars => [Breaker!Next]_(Breaker!vars)
<1> SUFFICES ASSUME [Next]_vars PROVE [Breaker!Next]_(Breaker!vars)
    OBVIOUS
<1> USE DEF breakerVars, Breaker!vars
<1>1. ASSUME NEW s \in Sockets, Connect(s) \/ Enroll(s) \/ Disconnect(s)
      PROVE  UNCHANGED Breaker!vars
    BY <1>1 DEF Connect, Enroll, Disconnect
<1>2. ASSUME NEW c \in Calls, NEW why, Report(c, why)
      PROVE  [Breaker!Next]_(Breaker!vars)
    BY <1>2 DEF Report, Calls, Breaker!Next
<1>3. ASSUME NEW c \in Calls, Unreachable(c) \/ Block(c) \/ UserInput(c)
      PROVE  UNCHANGED Breaker!vars
    BY <1>3 DEF Unreachable, Block, UserInput
<1>4. ASSUME NEW c \in Calls, Admit(c)
      PROVE  Breaker!Next
    BY <1>4 DEF Admit, Breaker!Next
<1>5. ASSUME NEW c \in Calls,
             StartRpc(c) \/ EmitNext(c) \/ Await(c) \/ Expire(c)
      PROVE  UNCHANGED Breaker!vars
    BY <1>5 DEF StartRpc, EmitNext, Await, Expire
<1>6. ASSUME NEW c \in Calls,
             Interrupt(c) \/ Deliver(c) \/ TimeOut(c) \/ Cancel(c)
      PROVE  [Breaker!Next]_(Breaker!vars)
    BY <1>2, <1>6 DEF Interrupt, Deliver, TimeOut, Cancel
<1>7. ASSUME NEW r \in inbox, Reply(r[1], r[2])
      PROVE  UNCHANGED Breaker!vars
    BY <1>7 DEF Reply
<1>8. CASE ResetBreakers
    BY <1>8 DEF ResetBreakers, Breaker!Next
<1>9. CASE Tick
    BY <1>9 DEF Tick, Breaker!Next
<1>10. CASE UNCHANGED vars
    BY <1>10 DEF vars
<1>11. QED
    BY <1>1, <1>3, <1>4, <1>5, <1>6, <1>7, <1>8, <1>9, <1>10 DEF Next, Step

(* Whatever the sockets, the daemon and the timers do, the relay uses its  *)
(* breaker as CircuitBreaker specifies: each guarded call is admitted once *)
(* and reports one result.                                                 *)
THEOREM DrivesTheBreaker == Spec => Breaker!Spec
<1>1. Init => Breaker!Init
    BY DEF Init
<1>2. QED
    BY <1>1, StepsOfTheBreaker, PTL DEF Spec, Breaker!Spec

(* Its sockets come, enter and go as MachineSockets allows and nothing of  *)
(* the relay writes the set.  Connect, Enroll and Disconnect take each     *)
(* such step with no guard of their own, and MachinePresence keeps the     *)
(* set of every machine so (SetsAreKeptForTheRelay): what is proved of the *)
(* relay holds over the sets that presence really makes.                   *)
THEOREM AssumesOnlyTheSet == Spec => Net!Spec
<1> USE DEF Net!vars
<1>1. Init => Net!Init
    BY DEF Init
<1>2. [Next]_vars => [Net!Next]_(Net!vars)
    <2> SUFFICES ASSUME [Next]_vars PROVE [Net!Next]_(Net!vars)
        OBVIOUS
    <2>1. ASSUME NEW s \in Sockets, Connect(s) \/ Enroll(s) \/ Disconnect(s)
          PROVE  Net!Next
        BY <2>1 DEF Connect, Enroll, Disconnect, Net!Next
    <2>2. ASSUME NEW c \in Calls,
                 Unreachable(c) \/ Block(c) \/ Admit(c) \/ UserInput(c) \/ Step(c)
          PROVE  UNCHANGED socketVars
        BY <2>2 DEF Unreachable, Block, Admit, UserInput, Step, StartRpc, FirstEmit,
                    EmitNext, Await, Interrupt, Deliver, Expire, TimeOut, Cancel
    <2>3. ASSUME NEW r \in inbox, Reply(r[1], r[2])
          PROVE  UNCHANGED socketVars
        BY <2>3 DEF Reply
    <2>4. CASE ResetBreakers \/ Tick \/ UNCHANGED vars
        BY <2>4 DEF ResetBreakers, Tick, vars, socketVars
    <2>5. QED
        BY <2>1, <2>2, <2>3, <2>4 DEF Next, socketVars
<1>3. QED
    BY <1>1, <1>2, PTL DEF Spec, Net!Spec

-----------------------------------------------------------------------------
(* The inductive invariant.                                                *)

LEMMA InitIInv == Init => IInv
BY DEF Init, Net!Init, IInv, CallTypeOK, CallInv

(* A call that ends keeps its share of the invariant if, unless it was cut *)
(* short, it is no longer in the table.                                    *)
LEMMA EndIInv ==
    ASSUME IInv, NEW c \in Calls, NEW why \in Causes,
           pc[c] \notin {"idle", "admitted"} \/ why \in {"unreachable", "blocked"},
           End(c, why),
           UNCHANGED <<socketVars, inbox, accepted>>,
           \/ UNCHANGED <<pending, future>>
           \/ pending' = pending \ {c} /\ UNCHANGED future
           \/ /\ UNCHANGED pending
              /\ future' = [future EXCEPT ![c] =
                     IF pc[c] = "overdue" /\ @ = "open" THEN "cancelled" ELSE @],
           c \in pending' => why \in {"mutated", "cancelled"}
    PROVE  IInv'
<1>1. CallTypeOK'
    BY DEF IInv, CallTypeOK, End, LeaveLoop, socketVars
<1>2. ASSUME NEW d \in Calls
      PROVE  CallInv(d)'
    <2>1. CASE d = c
        BY <2>1 DEF IInv, CallTypeOK, CallInv, End, LeaveLoop
    <2>2. CASE d # c
        BY <2>2 DEF IInv, CallTypeOK, CallInv, End, LeaveLoop
    <2>3. QED
        BY <2>1, <2>2
<1>3. QED
    BY <1>1, <1>2 DEF IInv

LEMMA FirstEmitIInv ==
    ASSUME IInv, NEW c \in Calls, NEW set \in SUBSET Sockets,
           pc[c] \in {"idle", "admitted"},
           FirstEmit(c, set),
           sids' \subseteq Calls
    PROVE  IInv'
<1>1. CallTypeOK'
    BY DEF IInv, CallTypeOK, FirstEmit, Register, Request, socketVars
<1>2. ASSUME NEW d \in Calls
      PROVE  CallInv(d)'
    BY DEF IInv, CallTypeOK, CallInv, FirstEmit, Register
<1>3. QED
    BY <1>1, <1>2 DEF IInv

LEMMA StartIInv ==
    ASSUME IInv, NEW c \in Calls,
           Unreachable(c) \/ Block(c) \/ Admit(c) \/ UserInput(c) \/ StartRpc(c)
    PROVE  IInv'
<1>1. members \in SUBSET Sockets /\ Live(c) \in SUBSET Sockets
    BY DEF IInv, CallTypeOK, Live
<1>2. CASE Unreachable(c)
    BY <1>2, EndIInv DEF Unreachable, IInv, CallInv, replyVars, Causes
<1>3. CASE Block(c)
    BY <1>3, EndIInv DEF Block, IInv, CallInv, replyVars, Causes
<1>4. CASE Admit(c)
    BY <1>4 DEF Admit, IInv, CallTypeOK, CallInv, socketVars, replyVars
<1>5. CASE UserInput(c)
    BY <1>1, <1>5, FirstEmitIInv DEF UserInput, IInv, CallTypeOK
<1>6. CASE StartRpc(c)
    BY <1>1, <1>6, FirstEmitIInv DEF StartRpc, IInv, CallTypeOK
<1>7. QED
    BY <1>2, <1>3, <1>4, <1>5, <1>6

LEMMA LoopIInv ==
    ASSUME IInv, NEW c \in Calls, EmitNext(c) \/ Await(c)
    PROVE  IInv'
<1>1. CASE EmitNext(c)
    <2>1. Live(c) \subseteq Sockets
        BY DEF Live, IInv, CallTypeOK
    <2>2. QED
        BY <1>1, <2>1
        DEF EmitNext, Request, IInv, CallTypeOK, CallInv, socketVars
<1>2. CASE Await(c)
    BY <1>2
    DEF Await, LeaveLoop, IInv, CallTypeOK, CallInv, socketVars, replyVars
<1>3. QED
    BY <1>1, <1>2

LEMMA EndingsIInv ==
    ASSUME IInv, NEW c \in Calls,
           Interrupt(c) \/ Deliver(c) \/ TimeOut(c) \/ Cancel(c)
    PROVE  IInv'
<1>1. CASE Interrupt(c)
    BY <1>1, EndIInv DEF Interrupt, replyVars, Causes
<1>2. CASE Deliver(c)
    BY <1>2, EndIInv DEF Deliver, replyVars, Causes, IInv, CallInv
<1>3. CASE TimeOut(c)
    BY <1>3, EndIInv DEF TimeOut, Causes
<1>4. CASE Cancel(c)
    BY <1>4, EndIInv DEF Cancel, Causes
<1>5. QED
    BY <1>1, <1>2, <1>3, <1>4

LEMMA ExpireIInv ==
    ASSUME IInv, NEW c \in Calls, Expire(c)
    PROVE  IInv'
BY DEF Expire, IInv, CallTypeOK, CallInv, socketVars

LEMMA ReplyIInv ==
    ASSUME IInv, NEW c \in Calls, NEW s \in Sockets, Reply(c, s)
    PROVE  IInv'
<1>1. CallTypeOK'
    BY DEF Reply, Unregister, callVars, socketVars, IInv, CallTypeOK, CallInv
<1>2. ASSUME NEW d \in Calls
      PROVE  CallInv(d)'
    BY DEF Reply, Unregister, callVars, IInv, CallTypeOK, CallInv
<1>3. QED
    BY <1>1, <1>2 DEF IInv

LEMMA SocketIInv ==
    ASSUME IInv, NEW s \in Sockets, Connect(s) \/ Enroll(s) \/ Disconnect(s)
    PROVE  IInv'
<1> USE DEF callVars, replyVars
<1>1. link' \in [Sockets -> {"new", "live", "gone"}] /\ members' \subseteq Sockets
    BY DEF Connect, Enroll, Disconnect, Net!Open, Net!Enter, Net!Close,
           IInv, CallTypeOK
<1>2. CallTypeOK'
    BY <1>1 DEF Connect, Enroll, Disconnect, IInv, CallTypeOK
<1>3. ASSUME NEW c \in Calls
      PROVE  CallInv(c)'
    BY DEF Connect, Enroll, Disconnect, IInv, CallInv
<1>4. QED
    BY <1>2, <1>3 DEF IInv

LEMMA InboxTyped ==
    ASSUME IInv, NEW r \in inbox
    PROVE  r[1] \in Calls /\ r[2] \in Sockets
BY DEF IInv, CallTypeOK

LEMMA NextIInv == IInv /\ [Next]_vars => IInv'
<1> SUFFICES ASSUME IInv, [Next]_vars PROVE IInv'
    OBVIOUS
<1>1. CASE \E s \in Sockets : Connect(s) \/ Enroll(s) \/ Disconnect(s)
    BY <1>1, SocketIInv
<1>2. ASSUME NEW c \in Calls,
             Unreachable(c) \/ Block(c) \/ Admit(c) \/ UserInput(c) \/ Step(c)
      PROVE  IInv'
    BY <1>2, StartIInv, LoopIInv, EndingsIInv, ExpireIInv DEF Step
<1>3. CASE \E r \in inbox : Reply(r[1], r[2])
    BY <1>3, ReplyIInv, InboxTyped
<1>4. CASE ResetBreakers \/ Tick \/ UNCHANGED vars
    BY <1>4
    DEF ResetBreakers, Tick, vars, socketVars, callVars, replyVars,
        IInv, CallTypeOK, CallInv
<1>5. QED
    BY <1>1, <1>2, <1>3, <1>4 DEF Next

(* The relay's inductive invariant holds of every reachable state.         *)
THEOREM RelayInvariant == Spec => []IInv
<1>1. QED
    BY InitIInv, NextIInv, PTL DEF Spec

(* No coroutine ever waits on a future that pending_rpcs does not hold.    *)
THEOREM WaitersAreRegistered == Spec => []WaiterRegistered
<1>1. IInv => WaiterRegistered
    BY DEF IInv, CallInv, WaiterRegistered
<1>2. QED
    BY RelayInvariant, <1>1, PTL

(* Entries stay behind in pending_rpcs only for calls that were cut short. *)
THEOREM LeaksAreCutShort == Spec => []LeakOnlyWhenCutShort
<1>1. IInv => LeakOnlyWhenCutShort
    BY DEF IInv, CallInv, CallTypeOK, LeakOnlyWhenCutShort
<1>2. QED
    BY RelayInvariant, <1>1, PTL

-----------------------------------------------------------------------------
(* Refinement.                                                             *)

LEMMA InitOfTheContract == Init => Contract!Init
BY DEF Init, Contract!Init, Status

(* A call's step is seen by its caller only where its status changes.      *)
LEMMA StatusOf ==
    ASSUME NEW c \in Calls, NEW S,
           S = [d \in Calls |-> Status(d)],
           \A d \in Calls \ {c} : pc'[d] = pc[d] /\ cause'[d] = cause[d]
    PROVE  [d \in Calls |-> Status(d)]' = [S EXCEPT ![c] = Status(c)']
BY DEF Status

LEMMA BookkeepingKeepsContract ==
    ASSUME UNCHANGED <<pc, cause, accepted>>
    PROVE  UNCHANGED Contract!vars
BY DEF Contract!vars, Status

LEMMA StartKeepsContract ==
    ASSUME IInv, NEW c \in Calls,
           Unreachable(c) \/ Block(c) \/ Admit(c) \/ UserInput(c) \/ StartRpc(c)
    PROVE  [Contract!Next]_(Contract!vars)
<1> DEFINE S == [d \in Calls |-> Status(d)]
<1> USE DEF IInv, CallTypeOK
<1>1. \A d \in Calls \ {c} : pc'[d] = pc[d] /\ cause'[d] = cause[d]
    BY DEF Unreachable, Block, Admit, UserInput, StartRpc, End, FirstEmit
<1>2. UNCHANGED accepted
    BY DEF Unreachable, Block, Admit, UserInput, StartRpc, FirstEmit, replyVars
<1>3. [d \in Calls |-> Status(d)]' = [S EXCEPT ![c] = Status(c)']
    BY <1>1, StatusOf
<1>4. CASE Unreachable(c) \/ Block(c)
    <2>1. Status(c) = "new" /\ Status(c)' = "failed"
        BY <1>4 DEF Unreachable, Block, End, Status
    <2>2. Contract!Refuse(c)
        BY <1>2, <1>3, <2>1 DEF Contract!Refuse
    <2>3. QED
        BY <2>2 DEF Contract!Next
<1>5. CASE Admit(c) \/ UserInput(c)
    <2>1. Status(c) = "new" /\ Status(c)' = "open"
        BY <1>5 DEF Admit, UserInput, FirstEmit, Status
    <2>2. Contract!Open(c)
        BY <1>2, <1>3, <2>1 DEF Contract!Open
    <2>3. QED
        BY <2>2 DEF Contract!Next
<1>6. CASE StartRpc(c)
    <2>1. Status(c)' = Status(c)
        BY <1>6 DEF StartRpc, FirstEmit, Status
    <2>2. QED
        BY <1>2, <1>3, <2>1 DEF Contract!vars
<1>7. QED
    BY <1>4, <1>5, <1>6

LEMMA EndingsKeepContract ==
    ASSUME IInv, NEW c \in Calls,
           Interrupt(c) \/ Deliver(c) \/ TimeOut(c) \/ Cancel(c)
    PROVE  [Contract!Next]_(Contract!vars)
<1> DEFINE S == [d \in Calls |-> Status(d)]
<1> USE DEF IInv, CallTypeOK
<1>1. \A d \in Calls \ {c} : pc'[d] = pc[d] /\ cause'[d] = cause[d]
    BY DEF Interrupt, Deliver, TimeOut, Cancel, End
<1>2. UNCHANGED accepted
    BY DEF Interrupt, Deliver, TimeOut, Cancel, replyVars
<1>3. [d \in Calls |-> Status(d)]' = [S EXCEPT ![c] = Status(c)']
    BY <1>1, StatusOf
<1>4. Status(c) = "open"
    BY DEF Interrupt, Deliver, TimeOut, Cancel, Status
<1>5. CASE Deliver(c)
    <2>1. Status(c)' = "replied" /\ accepted[c] = 1
        BY <1>5 DEF Deliver, End, Status, CallInv
    <2>2. Contract!Return(c)
        BY <1>2, <1>3, <1>4, <2>1 DEF Contract!Return
    <2>3. QED
        BY <2>2 DEF Contract!Next
<1>6. CASE Interrupt(c) \/ TimeOut(c) \/ Cancel(c)
    <2>1. Status(c)' = "failed"
        BY <1>6 DEF Interrupt, TimeOut, Cancel, End, Status
    <2>2. Contract!GiveUp(c)
        BY <1>2, <1>3, <1>4, <2>1 DEF Contract!GiveUp
    <2>3. QED
        BY <2>2 DEF Contract!Next
<1>7. QED
    BY <1>5, <1>6

LEMMA WaitingKeepsContract ==
    ASSUME IInv, NEW c \in Calls, EmitNext(c) \/ Await(c) \/ Expire(c)
    PROVE  UNCHANGED Contract!vars
<1> USE DEF IInv, CallTypeOK
<1>1. UNCHANGED <<cause, accepted>>
    BY DEF EmitNext, Await, Expire, replyVars
<1>2. \A d \in Calls : Status(d)' = Status(d)
    BY DEF EmitNext, Await, Expire, Status
<1>3. QED
    BY <1>1, <1>2 DEF Contract!vars

LEMMA ReplyKeepsContract ==
    ASSUME IInv, NEW c \in Calls, NEW s \in Sockets, Reply(c, s)
    PROVE  [Contract!Next]_(Contract!vars)
<1> USE DEF IInv, CallTypeOK
<1>1. [d \in Calls |-> Status(d)]' = [d \in Calls |-> Status(d)]
    BY DEF Reply, callVars, Status
<1>2. CASE c \in pending
    <2>1. accepted[c] = 0 /\ Status(c) # "new"
        BY <1>2 DEF CallInv, Status
    <2>2. accepted' = [accepted EXCEPT ![c] = 1]
        BY <1>2, <2>1 DEF Reply
    <2>3. Contract!Accept(c)
        BY <1>1, <2>1, <2>2 DEF Contract!Accept
    <2>4. QED
        BY <2>3 DEF Contract!Next
<1>3. CASE c \notin pending
    BY <1>1, <1>3 DEF Reply, Contract!vars
<1>4. QED
    BY <1>2, <1>3

LEMMA NextKeepsContract ==
    IInv /\ [Next]_vars => [Contract!Next]_(Contract!vars)
<1> SUFFICES ASSUME IInv, [Next]_vars PROVE [Contract!Next]_(Contract!vars)
    OBVIOUS
<1>1. ASSUME NEW s \in Sockets, Connect(s) \/ Enroll(s) \/ Disconnect(s)
      PROVE  UNCHANGED Contract!vars
    BY <1>1, BookkeepingKeepsContract DEF Connect, Enroll, Disconnect, callVars, replyVars
<1>2. ASSUME NEW c \in Calls,
             Unreachable(c) \/ Block(c) \/ Admit(c) \/ UserInput(c) \/ Step(c)
      PROVE  [Contract!Next]_(Contract!vars)
    BY <1>2, StartKeepsContract, EndingsKeepContract, WaitingKeepsContract DEF Step
<1>3. CASE \E r \in inbox : Reply(r[1], r[2])
    BY <1>3, ReplyKeepsContract, InboxTyped
<1>4. CASE ResetBreakers \/ Tick \/ UNCHANGED vars
    BY <1>4, BookkeepingKeepsContract
    DEF ResetBreakers, Tick, vars, callVars, replyVars
<1>5. QED
    BY <1>1, <1>2, <1>3, <1>4 DEF Next

(* The relay implements RpcContract: for any number of calls and sockets   *)
(* at most one reply is accepted for a call, and a caller is returned a    *)
(* reply only if one was accepted for its call.                            *)
THEOREM RelayKeepsContract == Spec => ImplementsContract
<1>1. QED
    BY InitOfTheContract, RelayInvariant, NextKeepsContract, PTL
    DEF Spec, ImplementsContract, Contract!Spec

-----------------------------------------------------------------------------
(* What is proved of one breaker holds of the relay's.                     *)

Proved == INSTANCE CircuitBreakerProofs WITH Calls <- HttpCalls, calls <- guarded

LEMMA SameInit == Breaker!Init => Proved!Init
BY DEF Breaker!Init, Proved!Init

LEMMA SameHelpers ==
    /\ \A list : Breaker!Prune(list) = Proved!Prune(list)
    /\ \A n, limit : Breaker!AtMost(n, limit) = Proved!AtMost(n, limit)
<1>1. ASSUME NEW list PROVE Breaker!Expired(list) = Proved!Expired(list)
    BY Zenon DEF Breaker!Expired, Proved!Expired
<1>2. ASSUME NEW S PROVE Breaker!Cardinality(S) = Proved!Cardinality(S)
    BY Zenon DEF Breaker!Cardinality, Proved!Cardinality
<1>3. ASSUME NEW list PROVE Breaker!Prune(list) = Proved!Prune(list)
    BY <1>1, <1>2 DEF Breaker!Prune, Proved!Prune
<1>4. ASSUME NEW n, NEW limit
      PROVE  Breaker!AtMost(n, limit) = Proved!AtMost(n, limit)
    BY DEF Breaker!AtMost, Proved!AtMost
<1>5. QED
    BY <1>3, <1>4

LEMMA SameSteps ==
    [Breaker!Next]_(Breaker!vars) => [Proved!Next]_(Proved!vars)
<1>1. ASSUME NEW c \in HttpCalls, Breaker!Begin(c)
      PROVE  Proved!Begin(c)
    BY <1>1, SameHelpers
    DEF Breaker!Begin, Proved!Begin, Breaker!AllowRequest, Proved!AllowRequest,
        Breaker!PassClosed, Proved!PassClosed,
        Breaker!StartProbing, Proved!StartProbing,
        Breaker!PassProbe, Proved!PassProbe
<1>2. ASSUME NEW c \in HttpCalls, Breaker!Succeed(c)
      PROVE  Proved!Succeed(c)
    BY <1>2 DEF Breaker!Succeed, Proved!Succeed,
                Breaker!RecordSuccess, Proved!RecordSuccess
<1>3. ASSUME NEW c \in HttpCalls, Breaker!Fail(c)
      PROVE  Proved!Fail(c)
    BY <1>3, SameHelpers DEF Breaker!Fail, Proved!Fail,
                             Breaker!RecordFailure, Proved!RecordFailure
<1>4. Breaker!Reset => Proved!Reset
    BY DEF Breaker!Reset, Proved!Reset
<1>5. Breaker!Stats => Proved!Stats
    BY SameHelpers DEF Breaker!Stats, Proved!Stats
<1>6. Breaker!Tick => Proved!Tick
    BY SameHelpers DEF Breaker!Tick, Proved!Tick
<1>7. QED
    BY <1>1, <1>2, <1>3, <1>4, <1>5, <1>6
    DEF Breaker!Next, Proved!Next, Breaker!vars, Proved!vars

LEMMA SameTypes == Proved!IInv => Breaker!TypeOK
BY DEF Proved!IInv, Proved!TypeOK, Breaker!TypeOK, Proved!States, Breaker!States

(* Every variable of the relay and of its breaker keeps its type.          *)
THEOREM RelayTypes == Spec => []TypeOK
<1>1. Breaker!Init => Proved!IInv
    BY SameInit, LimitsAssumption, Proved!InitIInv
<1>2. Proved!IInv /\ [Breaker!Next]_(Breaker!vars) => Proved!IInv'
    BY SameSteps, LimitsAssumption, Proved!NextIInv
<1>3. Spec => []Breaker!TypeOK
    BY <1>1, <1>2, SameTypes, DrivesTheBreaker, PTL DEF Breaker!Spec
<1>4. IInv /\ Breaker!TypeOK => TypeOK
    BY DEF IInv, TypeOK
<1>5. QED
    BY <1>3, <1>4, RelayInvariant, PTL
=============================================================================
