----------------------------- MODULE MessageLog -----------------------------
(***************************************************************************)
(* The messages of one session: store_message, which gives each message    *)
(* the next seq in two statements, the handlers that call it, and clients  *)
(* that read the session page by page.                                     *)
(*                                                                         *)
(* Every handler runs on the one SQLite connection, a statement at a time; *)
(* between the SELECT of a seq and its INSERT others can do both.          *)
(***************************************************************************)
EXTENDS Naturals, Sequences, FiniteSetsExt

CONSTANTS
    Writers,    \* handlers that store messages of the session
    Rest,       \* those of them that serve POST /v1/messages/send
    Size,       \* how many messages each stores: batch-message has a list
    Readers,    \* clients that read the session from its start
    Limit       \* messages to a page

ASSUME LogAssumption ==
    /\ Rest \subseteq Writers
    /\ Size \in [Writers -> Nat \ {0}]
    /\ \A w \in Rest : Size[w] = 1
    /\ Limit \in Nat \ {0}

VARIABLES
    rows,       \* the table: seq -> message, <<w, i>> being w's i-th
    pc,         \* each writer: ready, selected, forwarding, done or failed
    seq,        \* the seq it has selected for its next message
    seqs,       \* the seqs its stored messages got
    reader,     \* each reader: reading, counting or finished
    got,        \* the rows it has been sent, [seq, msg], in order
    hasMore,    \* what its last page said
    total,      \* the count its last page came with
    floor       \* history: how many messages were stored when it was sent
                \* its last page

readerVars == <<reader, got, hasMore, total, floor>>
vars == <<rows, pc, seq, seqs, reader, got, hasMore, total, floor>>

Init ==
    /\ rows = << >>
    /\ pc = [w \in Writers |-> "ready"]
    /\ seq = [w \in Writers |-> 0]
    /\ seqs = [w \in Writers |-> << >>]
    /\ reader = [r \in Readers |-> "reading"]
    /\ got = [r \in Readers |-> << >>]
    /\ hasMore = [r \in Readers |-> TRUE]
    /\ total = [r \in Readers |-> 0]
    /\ floor = [r \in Readers |-> 0]

-----------------------------------------------------------------------------
(* Mutated: SELECT COALESCE(MAX(seq) + 1, 0).                              *)
SelectFromZero(w) ==
    /\ pc[w] = "ready"
    /\ seq' = [seq EXCEPT ![w] = IF rows = << >> THEN 0 ELSE Max(DOMAIN rows) + 1]
    /\ pc' = [pc EXCEPT ![w] = "selected"]
    /\ UNCHANGED <<rows, seqs, readerVars>>

(* store_message: SELECT COALESCE(MAX(seq), 0) + 1.                        *)
Select(w) ==
    /\ pc[w] = "ready"
    /\ seq' = [seq EXCEPT ![w] = Max(DOMAIN rows \cup {0}) + 1]
    /\ pc' = [pc EXCEPT ![w] = "selected"]
    /\ UNCHANGED <<rows, seqs, readerVars>>

(* Where a writer stands once it has stored one more message: a list goes  *)
(* on with its next, POST /v1/messages/send forwards to the daemon.        *)
Stored(w) ==
    IF Len(seqs'[w]) < Size[w] THEN "ready"
    ELSE IF w \in Rest THEN "forwarding" ELSE "done"

(* INSERT: the key (session_id, seq) is free.                              *)
Put(w) ==
    /\ rows' = [q \in DOMAIN rows \cup {seq[w]} |->
           IF q = seq[w] THEN <<w, Len(seqs[w]) + 1>> ELSE rows[q]]
    /\ seqs' = [seqs EXCEPT ![w] = Append(@, seq[w])]
    /\ pc' = [pc EXCEPT ![w] = Stored(w)]
    /\ UNCHANGED <<seq, readerVars>>

(* Mutated: INSERT OR REPLACE.                                             *)
InsertOrReplace(w) ==
    /\ pc[w] = "selected"
    /\ Put(w)

Insert(w) ==
    /\ pc[w] = "selected"
    /\ seq[w] \notin DOMAIN rows
    /\ Put(w)

(* Mutated: batch-message goes on after a message it could not store.      *)
ClashSkips(w) ==
    /\ pc[w] = "selected"
    /\ seq[w] \in DOMAIN rows
    /\ seqs' = [seqs EXCEPT ![w] = Append(@, seq[w])]
    /\ pc' = [pc EXCEPT ![w] = Stored(w)]
    /\ UNCHANGED <<rows, seq, readerVars>>

(* The key is taken: IntegrityError ends the handler, which answers        *)
(* nothing of what it stored before.                                       *)
Clash(w) ==
    /\ pc[w] = "selected"
    /\ seq[w] \in DOMAIN rows
    /\ pc' = [pc EXCEPT ![w] = "failed"]
    /\ UNCHANGED <<rows, seq, seqs, readerVars>>

(* The emissions to the daemon's sockets end, or raise because that set of *)
(* sockets changed under the loop.                                         *)
Forward(w) ==
    /\ pc[w] = "forwarding"
    /\ \E end \in {"done", "failed"} : pc' = [pc EXCEPT ![w] = end]
    /\ UNCHANGED <<rows, seq, seqs, readerVars>>

-----------------------------------------------------------------------------
(* get_messages, asked for what follows the last row of the page before.   *)

LastRead(r) == IF got[r] = << >> THEN 0 ELSE got[r][Len(got[r])].seq

(* Mutated: seq >= from_seq.                                               *)
MatchingFrom(from) == {q \in DOMAIN rows : q >= from}

(* WHERE seq > from_seq.                                                   *)
Matching(from) == {q \in DOMAIN rows : q > from}

(* Mutated: LIMIT limit.                                                   *)
FetchedToLimit(from) ==
    {q \in Matching(from) : Cardinality({p \in Matching(from) : p < q}) < Limit}

(* ORDER BY seq LIMIT limit + 1.                                           *)
Fetched(from) ==
    {q \in Matching(from) : Cardinality({p \in Matching(from) : p < q}) < Limit + 1}

(* The fetched rows in order, without the one beyond the limit.            *)
Page(from) ==
    LET fetched == Fetched(from)
        size == IF Cardinality(fetched) > Limit THEN Limit ELSE Cardinality(fetched)
        Nth(i) == CHOOSE q \in fetched : Cardinality({p \in fetched : p < q}) = i - 1
    IN  [i \in 1..size |-> [seq |-> Nth(i), msg |-> rows[Nth(i)]]]

ReadPage(r) ==
    /\ reader[r] = "reading"
    /\ got' = [got EXCEPT ![r] = @ \o Page(LastRead(r))]
    /\ hasMore' = [hasMore EXCEPT ![r] = Cardinality(Fetched(LastRead(r))) > Limit]
    /\ floor' = [floor EXCEPT ![r] = Cardinality(DOMAIN rows)]
    /\ reader' = [reader EXCEPT ![r] = "counting"]
    /\ UNCHANGED <<rows, pc, seq, seqs, total>>

(* SELECT COUNT of the rows, then the answer; its reader asks for a next   *)
(* page as long as there is more.                                          *)
CountRows(r) ==
    /\ reader[r] = "counting"
    /\ total' = [total EXCEPT ![r] = Cardinality(DOMAIN rows)]
    /\ reader' = [reader EXCEPT ![r] = IF hasMore[r] THEN "reading" ELSE "finished"]
    /\ UNCHANGED <<rows, pc, seq, seqs, got, hasMore, floor>>

Next ==
    \/ \E w \in Writers : Select(w) \/ Insert(w) \/ Clash(w) \/ Forward(w)
    \/ \E r \in Readers : ReadPage(r) \/ CountRows(r)

Spec == Init /\ [][Next]_vars

-----------------------------------------------------------------------------
(* The values the variables can hold.                                      *)
TypeOK ==
    /\ DOMAIN rows \subseteq Nat \ {0}
    /\ \A q \in DOMAIN rows : rows[q] \in Writers \X (Nat \ {0})
    /\ pc \in [Writers -> {"ready", "selected", "forwarding", "done", "failed"}]
    /\ seq \in [Writers -> Nat]
    /\ seqs \in [Writers -> Seq(Nat \ {0})]
    /\ \A w \in Writers : Len(seqs[w]) <= Size[w]
    /\ reader \in [Readers -> {"reading", "counting", "finished"}]
    /\ got \in [Readers -> Seq([seq : Nat \ {0}, msg : Writers \X (Nat \ {0})])]
    /\ hasMore \in [Readers -> BOOLEAN]
    /\ total \in [Readers -> Nat]
    /\ floor \in [Readers -> Nat]

(* A seq that a writer was given is its message's for good, in the order   *)
(* the writer stored them: however the SELECTs and INSERTs of concurrent   *)
(* writers interleave, none takes the row of another.                      *)
StoredUnderItsSeq ==
    \A w \in Writers : \A i \in 1..Len(seqs[w]) :
        /\ seqs[w][i] \in DOMAIN rows
        /\ rows[seqs[w][i]] = <<w, i>>
        /\ \A j \in 1..(i - 1) : seqs[w][j] < seqs[w][i]

(* What a handler has stored is a beginning of its list, each message      *)
(* once: a list that failed can be resumed after what the log holds.       *)
StoredIsBeginning ==
    \A w \in Writers :
        LET own == {q \in DOMAIN rows : rows[q][1] = w} IN
        /\ {rows[q][2] : q \in own} = 1..Len(seqs[w])
        /\ Cardinality(own) = Len(seqs[w])

(* When a client is told that there is no more it has got all that was     *)
(* stored when its last page was read, and the count with it is no smaller. *)
LastPageIsComplete ==
    \A r \in Readers :
        reader[r] = "finished" => floor[r] <= Len(got[r]) /\ Len(got[r]) <= total[r]

(* The refinement mapping: the table is the log, a client has the messages *)
(* of its pages.                                                           *)
Messages(page) == [i \in 1..Len(page) |-> page[i].msg]

Log == INSTANCE AppendLog WITH
    log <- rows, read <- [r \in Readers |-> Messages(got[r])]

(* The table and its pages are an append-only log (AppendLog): although a  *)
(* seq is selected in one step and used in another, every INSERT that ends *)
(* well adds one message at the end, each handler's in the order of its    *)
(* list, and what a client has put together from pages is a beginning of   *)
(* what is there.                                                          *)
ImplementsLog == Log!Spec

(* store_message says that each message gets a seq: no handler fails to    *)
(* store what it was sent.  The code breaks it.                            *)
EachMessageGetsASeq == \A w \in Writers :
    pc[w] = "failed" => Len(seqs[w]) = Size[w]
=============================================================================
