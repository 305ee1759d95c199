-------------------------- MODULE MCMachinePresence --------------------------
(* Two machines and two sockets: a machine can have two sockets, of which  *)
(* one leaves while the other registers, a machine can lose its only       *)
(* socket and come back on the other, and a socket can take a second id.   *)
EXTENDS MachinePresence

CONSTANTS m1, m2, s1, s2

TwoMachines == {m1, m2}
TwoSockets == {s1, s2}
=============================================================================
