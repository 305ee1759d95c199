------------------------------ MODULE AppendLog ------------------------------
(***************************************************************************)
(* What the log of a session promises: one sequence that only grows, to    *)
(* which each handler adds the messages of its list in order and each      *)
(* once, and of which every client that pages has a beginning.             *)
(***************************************************************************)
EXTENDS Naturals, Sequences

CONSTANTS
    Writers,    \* handlers that store messages of the session
    Size,       \* how many messages each has
    Readers     \* clients that read the session from its start

VARIABLES
    log,        \* the messages stored, <<w, i>> being w's i-th
    read        \* what each reader has been sent

vars == <<log, read>>

Logged == {log[q] : q \in 1..Len(log)}

Init ==
    /\ log = << >>
    /\ read = [r \in Readers |-> << >>]

(* The i-th message of w follows those before it in the list.              *)
Add(w, i) ==
    /\ <<w, i>> \notin Logged
    /\ \A j \in 1..(i - 1) : <<w, j>> \in Logged
    /\ log' = Append(log, <<w, i>>)
    /\ UNCHANGED read

(* A page takes a client further, never beyond the log.                    *)
Read(r) ==
    /\ \E n \in Len(read[r])..Len(log) :
           read' = [read EXCEPT ![r] = SubSeq(log, 1, n)]
    /\ UNCHANGED log

Next ==
    \/ \E w \in Writers : \E i \in 1..Size[w] : Add(w, i)
    \/ \E r \in Readers : Read(r)

Spec == Init /\ [][Next]_vars
=============================================================================
