----------------------------- MODULE MCSessions -----------------------------
(* One session, two handlers at a time and one restart, on two machines of *)
(* which one is spawned on and one is a daemon that gave no id.            *)
EXTENDS Sessions

CONSTANTS s1, m1, none, k1, h1, h2

OneId == {s1}
Spawnable == {m1}
Creating == {m1, none}
OneDek == {k1}
TwoHandlers == {h1, h2}
TwoKeys == {"source", "summary"}
=============================================================================
