----------------------------- MODULE MCPairing ------------------------------
(* Three handlers at a time, so that two can race for a row a third has    *)
(* written; three requests and three tokens.                               *)
EXTENDS Pairing, TLC

CONSTANTS h1, h2, h3

ThreeHandlers == {h1, h2, h3}
AnyHandler == Permutations(ThreeHandlers)
=============================================================================
