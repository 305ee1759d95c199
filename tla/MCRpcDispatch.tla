--------------------------- MODULE MCRpcDispatch ---------------------------
(* Two guarded calls and one user-input over two sockets: enough for two   *)
(* calls to emit at once, for the set to change under either of them or to *)
(* be swapped, and, with a threshold of one, for the breaker to trip, probe *)
(* and reject.                                                             *)
EXTENDS RpcDispatch, TLC

CONSTANTS h1, h2, u1, s1, s2

Http == {h1, h2}
Input == {u1}
OneHttp == {h1}
TwoSockets == {s1, s2}

(* Calls of one kind, and sockets, are interchangeable.                    *)
Symmetry == Permutations(Http) \cup Permutations(TwoSockets)
=============================================================================
