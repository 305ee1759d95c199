---------------------------- MODULE MCMessageLog ----------------------------
(* A batch of two messages, a message of the web and one of the daemon, so *)
(* that a clash can hit the first or the second of a list, and a reader    *)
(* whose page is half of what can be stored.                               *)
EXTENDS MessageLog

CONSTANTS batch, send, message, r1

ThreeWriters == {batch, send, message}
OneRest == {send}
Sizes == [w \in ThreeWriters |-> IF w = batch THEN 2 ELSE 1]
OneReader == {r1}
=============================================================================
