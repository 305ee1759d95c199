---------------------------- MODULE RpcDispatch ----------------------------
(***************************************************************************)
(* Remote calls from the web to one machine's daemon, as server.py relays  *)
(* them: dispatch_rpc_to_daemon behind its circuit breaker, the relay of   *)
(* user-input events that has no breaker, the table of pending calls that  *)
(* replies are matched with, and the machine's set of sockets.  All calls  *)
(* are to one machine and one method, so they share one breaker.           *)
(*                                                                         *)
(* The server is one asyncio thread: what runs between two awaits is one   *)
(* step.  A call emits its request to the sockets of the machine one after *)
(* the other, awaiting each emission, while it iterates over the live set  *)
(* that connect and disconnect change.                                     *)
(***************************************************************************)
EXTENDS Naturals, FiniteSets

CONSTANTS
    HttpCalls,     \* calls of dispatch_rpc_to_daemon, each made once
    InputCalls,    \* calls of on_user_input, each made once
    Sockets,       \* Socket.IO connections of daemons, each made once
    FailureThreshold, RecoveryTimeout, HalfOpenMax, Window

Calls == HttpCalls \cup InputCalls

ASSUME CallsAssumption == HttpCalls \cap InputCalls = {}

ASSUME LimitsAssumption ==
    /\ FailureThreshold \in Nat \ {0}
    /\ RecoveryTimeout \in Nat \ {0}
    /\ HalfOpenMax \in Nat \ {0}
    /\ Window \in Nat \ {0}

VARIABLES
    link,       \* each socket: new, live or gone
    members,    \* machine_sids[machine_id]; {} is a missing key
    pc,         \* where each call's coroutine stands
    sids,       \* calls whose local name sids is still that very set object
    begun,      \* the set each call began to iterate over, and the sockets
    sent,       \* it has emitted to; {} outside the loop
    inbox,      \* requests <<call, socket>> the daemon may still reply to
    pending,    \* the keys of pending_rpcs
    future,     \* each call's future: none, open, set or cancelled
    cause,      \* why each call ended (none while it has not)
    accepted,   \* history: replies of each call acknowledged with ok
    state, failures, openFor, halfOpenUsed, guarded, streak  \* the breaker

Breaker == INSTANCE CircuitBreaker WITH Calls <- HttpCalls, calls <- guarded

Net == INSTANCE MachineSockets

breakerVars == <<state, failures, openFor, halfOpenUsed, guarded, streak>>
socketVars == <<link, members>>
callVars == <<pc, sids, begun, sent, cause>>
replyVars == <<inbox, pending, future, accepted>>
vars == <<link, members, pc, sids, begun, sent, inbox, pending, future, cause,
          accepted, state, failures, openFor, halfOpenUsed, guarded, streak>>

Causes == {"reply", "timeout", "mutated", "cancelled", "blocked", "unreachable"}

Init ==
    /\ Net!Init
    /\ pc = [c \in Calls |-> "idle"]
    /\ sids = {}
    /\ begun = [c \in Calls |-> {}]
    /\ sent = [c \in Calls |-> {}]
    /\ inbox = {}
    /\ pending = {}
    /\ future = [c \in Calls |-> "none"]
    /\ cause = [c \in Calls |-> "none"]
    /\ accepted = [c \in Calls |-> 0]
    /\ Breaker!Init

-----------------------------------------------------------------------------
(* The machine's sockets, by the handlers MachinePresence has in full.     *)

(* connect: the socket is entered if it names the machine, and the set is  *)
(* made anew if missing.                                                   *)
Connect(s) ==
    /\ Net!Open(s)
    /\ UNCHANGED <<callVars, replyVars, breakerVars>>

(* The end of a registration, connected or not.                            *)
Enroll(s) ==
    /\ Net!Enter(s)
    /\ UNCHANGED <<callVars, replyVars, breakerVars>>

(* disconnect: the set is dropped when it empties, and whoever still       *)
(* iterates over it is left with an empty set.  Replies the daemon had not *)
(* yet sent on this socket are lost.                                       *)
Disconnect(s) ==
    /\ Net!Close(s)
    /\ sids' = IF members' = {} THEN {} ELSE sids
    /\ inbox' = {r \in inbox : r[2] # s}
    /\ UNCHANGED <<pc, begun, sent, cause, pending, future, accepted, breakerVars>>

(* The elements of the set object a call iterates over.                    *)
Live(c) == IF c \in sids THEN members ELSE {}

-----------------------------------------------------------------------------
(* The ends of a call.                                                     *)

(* A guarded call reports its end to the breaker, on_user_input has none.  *)
Report(c, why) ==
    IF c \in InputCalls THEN UNCHANGED breakerVars
    ELSE IF why = "reply" THEN Breaker!Succeed(c) ELSE Breaker!Fail(c)

LeaveLoop(c) ==
    /\ sids' = sids \ {c}
    /\ begun' = [begun EXCEPT ![c] = {}]
    /\ sent' = [sent EXCEPT ![c] = {}]

End(c, why) ==
    /\ pc' = [pc EXCEPT ![c] = "done"]
    /\ cause' = [cause EXCEPT ![c] = why]
    /\ LeaveLoop(c)

(* What the caller of a finished call is answered.  Every failure of a     *)
(* guarded call reaches "return await fallback()"; the fallback of         *)
(* dispatch_rpc_to_daemon is a plain lambda that returns a dict, and       *)
(* awaiting a dict raises TypeError, which the error middleware turns into *)
(* a 500.                                                                  *)
Answer(c) ==
    CASE cause[c] = "reply" -> "reply"
      [] cause[c] = "unreachable" -> "503"
      [] cause[c] = "timeout" /\ c \in InputCalls -> "rpc-timeout"
      [] cause[c] = "mutated" /\ c \in InputCalls -> "nothing"
      [] OTHER -> "500"

-----------------------------------------------------------------------------
(* Starting a call.                                                        *)

Unreachable(c) ==
    /\ c \in HttpCalls
    /\ pc[c] = "idle"
    /\ members = {}
    /\ End(c, "unreachable")
    /\ UNCHANGED <<socketVars, replyVars, breakerVars>>

Block(c) ==
    /\ c \in HttpCalls
    /\ pc[c] = "idle"
    /\ members # {}
    /\ Breaker!Blocked
    /\ End(c, "blocked")
    /\ UNCHANGED <<socketVars, replyVars, breakerVars>>

(* The breaker lets the call through; before Python 3.12 wait_for runs the  *)
(* coroutine as a task of its own, so the set can change before it starts. *)
Admit(c) ==
    /\ c \in HttpCalls
    /\ pc[c] = "idle"
    /\ members # {}
    /\ Breaker!Begin(c)
    /\ pc' = [pc EXCEPT ![c] = "admitted"]
    /\ sids' = sids \cup {c}
    /\ UNCHANGED <<socketVars, begun, sent, cause, replyVars>>

(* Mutated: the call is entered in the table only once it has emitted.     *)
RegisterNothing(c) ==
    /\ future' = [future EXCEPT ![c] = "open"]
    /\ UNCHANGED pending

(* The call registers its future.                                          *)
Register(c) ==
    /\ pending' = pending \cup {c}
    /\ future' = [future EXCEPT ![c] = "open"]

(* What an emission brings to the daemon: nothing on a socket that is gone *)
(* but still in the set.                                                   *)
Request(c, s) == IF link[s] = "live" THEN {<<c, s>>} ELSE {}

(* The call registers and emits to a first socket of its set, if any.      *)
FirstEmit(c, set) ==
    /\ Register(c)
    /\ begun' = [begun EXCEPT ![c] = set]
    /\ \/ \E s \in set :
            /\ sent' = [sent EXCEPT ![c] = {s}]
            /\ inbox' = inbox \cup Request(c, s)
            /\ pc' = [pc EXCEPT ![c] = "emitting"]
       \/ /\ set = {}
          /\ pc' = [pc EXCEPT ![c] = "waiting"]
          /\ UNCHANGED <<sent, inbox>>
    /\ UNCHANGED <<socketVars, cause, accepted>>

StartRpc(c) ==
    /\ pc[c] = "admitted"
    /\ FirstEmit(c, Live(c))
    /\ UNCHANGED <<sids, breakerVars>>

(* user-input, once it has found the session's machine: emits whether or   *)
(* not the machine is connected.                                           *)
UserInput(c) ==
    /\ c \in InputCalls
    /\ pc[c] = "idle"
    /\ FirstEmit(c, members)
    /\ sids' = IF members = {} THEN sids ELSE sids \cup {c}
    /\ UNCHANGED breakerVars

-----------------------------------------------------------------------------
(* Resuming after an emission: the set iterator raises RuntimeError when   *)
(* the set's size is no longer the one it began with, even past the last   *)
(* element; a change that keeps the size goes unnoticed.                   *)

SizeChanged(c) == Cardinality(Live(c)) # Cardinality(begun[c])

EmitNext(c) ==
    /\ pc[c] = "emitting"
    /\ ~SizeChanged(c)
    /\ \E s \in Live(c) \ sent[c] :
        /\ sent' = [sent EXCEPT ![c] = @ \cup {s}]
        /\ inbox' = inbox \cup Request(c, s)
    /\ UNCHANGED <<socketVars, pc, sids, begun, cause, pending, future, accepted,
                   breakerVars>>

(* All that was there from the start has been emitted to.  A guarded call  *)
(* is overdue if emitting took more than the five seconds by which the     *)
(* breaker's timeout exceeds the call's own.                               *)
Await(c) ==
    /\ pc[c] = "emitting"
    /\ ~SizeChanged(c)
    /\ begun[c] \cap Live(c) \subseteq sent[c]
    /\ \/ pc' = [pc EXCEPT ![c] = "waiting"]
       \/ c \in HttpCalls /\ pc' = [pc EXCEPT ![c] = "overdue"]
    /\ LeaveLoop(c)
    /\ UNCHANGED <<socketVars, cause, replyVars, breakerVars>>

(* The RuntimeError leaves the loop before the try that would clean up:    *)
(* the call's entry stays in pending_rpcs.                                 *)
Interrupt(c) ==
    /\ pc[c] = "emitting"
    /\ SizeChanged(c)
    /\ End(c, "mutated")
    /\ Report(c, "mutated")
    /\ UNCHANGED <<socketVars, replyVars>>

-----------------------------------------------------------------------------
(* Waiting for a reply.                                                    *)

(* Mutated: a reply resolves the future but stays in the table.            *)
KeepPending(c) == pending

Unregister(c) == pending \ {c}

(* rpc-call: the first reply for a pending call takes it off the table and *)
(* resolves its future unless that is cancelled; either way it is answered *)
(* ok.  Later replies are answered no-pending-call.                        *)
Reply(c, s) ==
    /\ <<c, s>> \in inbox
    /\ inbox' = inbox \ {<<c, s>>}
    /\ IF c \in pending
       THEN /\ pending' = Unregister(c)
            /\ future' = [future EXCEPT ![c] = IF @ = "open" THEN "set" ELSE @]
            /\ accepted' = [accepted EXCEPT ![c] = @ + 1]
       ELSE UNCHANGED <<pending, future, accepted>>
    /\ UNCHANGED <<socketVars, callVars, breakerVars>>

(* The waiting coroutine wakes with the reply.                             *)
Deliver(c) ==
    /\ pc[c] \in {"waiting", "overdue"}
    /\ future[c] = "set"
    /\ End(c, "reply")
    /\ Report(c, "reply")
    /\ UNCHANGED <<socketVars, replyVars>>

(* Mutated: the relay of user input waits without a timeout.               *)
ExpireGuarded(c) ==
    /\ c \in HttpCalls
    /\ pc[c] = "waiting"
    /\ pc' = [pc EXCEPT ![c] = "expired"]
    /\ future' = [future EXCEPT ![c] = IF @ = "open" THEN "cancelled" ELSE @]
    /\ UNCHANGED <<socketVars, sids, begun, sent, cause, inbox, pending, accepted,
                   breakerVars>>

(* The inner wait_for's timer cancels the future; the coroutine wakes in a *)
(* later turn of the loop.  A reply that has just resolved the future is   *)
(* lost if the timer fires before the coroutine ran.                       *)
Expire(c) ==
    /\ pc[c] = "waiting"
    /\ pc' = [pc EXCEPT ![c] = "expired"]
    /\ future' = [future EXCEPT ![c] = IF @ = "open" THEN "cancelled" ELSE @]
    /\ UNCHANGED <<socketVars, sids, begun, sent, cause, inbox, pending, accepted,
                   breakerVars>>

(* Mutated: the timeout handler forgets the table.                         *)
TimeOutKeepsEntry(c) ==
    /\ pc[c] = "expired"
    /\ End(c, "timeout")
    /\ Report(c, "timeout")
    /\ UNCHANGED <<socketVars, replyVars>>

TimeOut(c) ==
    /\ pc[c] = "expired"
    /\ pending' = pending \ {c}
    /\ End(c, "timeout")
    /\ Report(c, "timeout")
    /\ UNCHANGED <<socketVars, inbox, future, accepted>>

(* The breaker's own timeout cancels the coroutine where it stands; no     *)
(* handler takes the call off the table.                                   *)
Cancel(c) ==
    /\ c \in HttpCalls
    /\ pc[c] \in {"emitting", "overdue"}
    /\ future' = [future EXCEPT ![c] =
                     IF pc[c] = "overdue" /\ @ = "open" THEN "cancelled" ELSE @]
    /\ End(c, "cancelled")
    /\ Report(c, "cancelled")
    /\ UNCHANGED <<socketVars, inbox, pending, accepted>>

-----------------------------------------------------------------------------

ResetBreakers ==
    /\ Breaker!Reset
    /\ UNCHANGED <<socketVars, callVars, replyVars>>

Tick ==
    /\ Breaker!Tick
    /\ UNCHANGED <<socketVars, callVars, replyVars>>

Step(c) ==
    \/ StartRpc(c) \/ EmitNext(c) \/ Await(c) \/ Interrupt(c)
    \/ Deliver(c) \/ Expire(c) \/ TimeOut(c) \/ Cancel(c)

Next ==
    \/ \E s \in Sockets : Connect(s) \/ Enroll(s) \/ Disconnect(s)
    \/ \E c \in Calls :
        \/ Unreachable(c) \/ Block(c) \/ Admit(c) \/ UserInput(c)
        \/ Step(c)
    \/ \E r \in inbox : Reply(r[1], r[2])
    \/ ResetBreakers
    \/ Tick

Spec == Init /\ [][Next]_vars

(* The event loop runs every ready coroutine and every timer that is due.  *)
(* Nothing is assumed of the daemon or of the sockets.                     *)
FairSpec == Spec /\ \A c \in Calls : WF_vars(Step(c))

-----------------------------------------------------------------------------

CallTypeOK ==
    /\ link \in [Sockets -> {"new", "live", "gone"}]
    /\ members \subseteq Sockets
    /\ pc \in [Calls -> {"idle", "admitted", "emitting", "waiting", "overdue",
                         "expired", "done"}]
    /\ sids \subseteq Calls
    /\ begun \in [Calls -> SUBSET Sockets]
    /\ sent \in [Calls -> SUBSET Sockets]
    /\ inbox \subseteq Calls \X Sockets
    /\ pending \subseteq Calls
    /\ future \in [Calls -> {"none", "open", "set", "cancelled"}]
    /\ cause \in [Calls -> Causes \cup {"none"}]
    /\ accepted \in [Calls -> {0, 1}]

(* Types: no call has two replies accepted, and the breaker's hold.        *)
TypeOK == CallTypeOK /\ Breaker!TypeOK

(* A reply can always reach a coroutine that waits for one: its call is in *)
(* pending_rpcs until its future is resolved, whatever the other calls,    *)
(* their timeouts and the sockets do.                                      *)
WaiterRegistered ==
    \A c \in Calls :
        pc[c] \in {"emitting", "waiting", "overdue"} /\ future[c] = "open"
            => c \in pending

(* pending_rpcs keeps the entry of a finished call only if its emissions   *)
(* were interrupted by a change of the socket set, or if the breaker's     *)
(* timeout cut it short; a call that ran into its own timeout leaves none. *)
LeakOnlyWhenCutShort ==
    \A c \in pending :
        pc[c] = "done" => cause[c] \in {"mutated", "cancelled"}

(* The refinement mapping: a call as its caller sees it.                   *)
Status(c) ==
    CASE pc[c] = "idle" -> "new"
      [] pc[c] = "done" /\ cause[c] = "reply" -> "replied"
      [] pc[c] = "done" /\ cause[c] # "reply" -> "failed"
      [] OTHER -> "open"

Contract == INSTANCE RpcContract WITH
    status <- [c \in Calls |-> Status(c)]

(* The relay keeps RpcContract: at most one reply accepted for a call, and *)
(* a reply returned only to a caller whose call a daemon replied to.       *)
ImplementsContract == Contract!Spec

(* Every caller is answered although the daemon may never reply, sockets   *)
(* come and go, and the future of an interrupted call is never resolved.   *)
KeepsFairContract == Contract!FairSpec

(* server.py:1580 "StructuredHTTPException 504: RPC timed out": a guarded  *)
(* call that timed out is answered 504.                                    *)
TimeoutsAnswer504 ==
    \A c \in HttpCalls : cause[c] = "timeout" => Answer(c) = "504"
=============================================================================
