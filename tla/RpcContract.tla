---------------------------- MODULE RpcContract ----------------------------
(***************************************************************************)
(* What the RPC relay promises its callers, whatever happens underneath:   *)
(* every call that is accepted gets an answer, the answer is a daemon's    *)
(* reply only if one was accepted for that call, and at most one reply is  *)
(* accepted per call, however many sockets the request went to.            *)
(***************************************************************************)
EXTENDS Naturals

CONSTANT Calls

VARIABLES
    status,    \* of the caller: new, open, replied or failed
    accepted   \* replies acknowledged with ok for each call

vars == <<status, accepted>>

Init ==
    /\ status = [c \in Calls |-> "new"]
    /\ accepted = [c \in Calls |-> 0]

Open(c) ==
    /\ status[c] = "new"
    /\ status' = [status EXCEPT ![c] = "open"]
    /\ UNCHANGED accepted

Refuse(c) ==
    /\ status[c] = "new"
    /\ status' = [status EXCEPT ![c] = "failed"]
    /\ UNCHANGED accepted

(* A reply may be accepted after its caller gave up.                       *)
Accept(c) ==
    /\ status[c] # "new"
    /\ accepted[c] = 0
    /\ accepted' = [accepted EXCEPT ![c] = 1]
    /\ UNCHANGED status

Return(c) ==
    /\ status[c] = "open"
    /\ accepted[c] = 1
    /\ status' = [status EXCEPT ![c] = "replied"]
    /\ UNCHANGED accepted

GiveUp(c) ==
    /\ status[c] = "open"
    /\ status' = [status EXCEPT ![c] = "failed"]
    /\ UNCHANGED accepted

Next ==
    \E c \in Calls :
        Open(c) \/ Refuse(c) \/ Accept(c) \/ Return(c) \/ GiveUp(c)

Spec == Init /\ [][Next]_vars

FairSpec == Spec /\ \A c \in Calls : WF_vars(Return(c) \/ GiveUp(c))
=============================================================================
