-------------------------- MODULE MessageLogProofs --------------------------
(***************************************************************************)
(* The log of a session for any writers, any lists and any page size: each *)
(* message keeps the seq it was given and the seqs have no gap.  IInv adds *)
(* what a writer knows between its SELECT and its INSERT: every smaller    *)
(* seq is taken, and all of its own messages have one.                     *)
(***************************************************************************)
EXTENDS MessageLog, FiniteSetTheorems, TLAPS

Dense == \E n \in Nat : DOMAIN rows = 1..n

SelectedIsNext ==
    \A w \in Writers : pc[w] = "selected" =>
        /\ seq[w] \in Nat \ {0}
        /\ 1..(seq[w] - 1) \subseteq DOMAIN rows
        /\ \A j \in 1..Len(seqs[w]) : seqs[w][j] < seq[w]

MoreToStore ==
    \A w \in Writers : pc[w] \in {"ready", "selected"} => Len(seqs[w]) < Size[w]

ReadSoFar ==
    \A r \in Readers :
        /\ reader[r] = "counting" /\ ~hasMore[r] => floor[r] <= Len(got[r])
        /\ reader[r] = "finished" => floor[r] <= Len(got[r]) /\ Len(got[r]) <= total[r]

(* A client that pages through a session that is being written to gets a   *)
(* beginning of the log: no message twice, none left out.                  *)
ReadsInOrder ==
    \A r \in Readers : \A i \in 1..Len(got[r]) :
        i \in DOMAIN rows /\ got[r][i] = [seq |-> i, msg |-> rows[i]]

IInv ==
    /\ TypeOK
    /\ Dense
    /\ SelectedIsNext
    /\ MoreToStore
    /\ StoredUnderItsSeq
    /\ ReadsInOrder
    /\ ReadSoFar

-----------------------------------------------------------------------------
(* The largest seq of a log without gaps is its length.                    *)
LEMMA MaxOfDense ==
    ASSUME NEW n \in Nat PROVE Max((1..n) \cup {0}) = n
  <1> DEFINE S == (1..n) \cup {0}
  <1>1. n \in S /\ \A y \in S : n >= y
    OBVIOUS
  <1>2. \A x \in S : (\A y \in S : x >= y) => x = n
    BY <1>1
  <1> HIDE DEF S
  <1>3. (CHOOSE x \in S : \A y \in S : x >= y) = n
    BY <1>1, <1>2
  <1> QED BY <1>3 DEF Max, S

(* The invariant holds of an empty log.                                    *)
LEMMA InitEstablishes == Init => IInv
  <1> SUFFICES ASSUME Init PROVE IInv
    OBVIOUS
  <1> USE LogAssumption DEF Init
  <1>1. DOMAIN rows = 1..0
    OBVIOUS
  <1>2. TypeOK
    BY <1>1 DEF TypeOK
  <1>3. Dense
    BY <1>1 DEF Dense
  <1>4. SelectedIsNext /\ MoreToStore /\ StoredUnderItsSeq
    BY DEF SelectedIsNext, MoreToStore, StoredUnderItsSeq
  <1>5. ReadsInOrder /\ ReadSoFar
    BY DEF ReadsInOrder, ReadSoFar
  <1> QED BY <1>2, <1>3, <1>4, <1>5 DEF IInv

(* A SELECT gets the seq after the last.                                   *)
LEMMA SelectStep ==
    ASSUME IInv, NEW w \in Writers, Select(w) PROVE IInv'
  <1>0. /\ TypeOK /\ Dense /\ SelectedIsNext /\ MoreToStore
        /\ StoredUnderItsSeq
    BY DEF IInv
  <1>1. PICK n \in Nat : DOMAIN rows = 1..n
    BY <1>0 DEF Dense
  <1>2. seq' = [seq EXCEPT ![w] = n + 1]
    BY <1>1, MaxOfDense DEF Select
  <1>3. UNCHANGED <<rows, seqs>> /\ pc[w] = "ready"
    BY DEF Select
  <1>4. pc' = [pc EXCEPT ![w] = "selected"]
    BY DEF Select
  <1>5. TypeOK'
    BY <1>0, <1>2, <1>3, <1>4 DEF TypeOK, Select, readerVars
  <1>6. Dense' /\ StoredUnderItsSeq'
    BY <1>0, <1>3 DEF Dense, StoredUnderItsSeq
  <1>7. MoreToStore'
    BY <1>0, <1>3, <1>4 DEF MoreToStore, TypeOK
  <1>8. SelectedIsNext'
    <2> SUFFICES ASSUME NEW v \in Writers, pc'[v] = "selected"
                 PROVE  /\ seq'[v] \in Nat \ {0}
                        /\ 1..(seq'[v] - 1) \subseteq DOMAIN rows
                        /\ \A j \in 1..Len(seqs[v]) : seqs[v][j] < seq'[v]
      BY <1>3 DEF SelectedIsNext
    <2>1. CASE v = w
      <3>1. seq'[v] = n + 1
        BY <1>0, <1>2, <2>1 DEF TypeOK
      <3>2. \A j \in 1..Len(seqs[v]) : seqs[v][j] \in 1..n
        BY <1>0, <1>1 DEF StoredUnderItsSeq
      <3> QED BY <1>1, <3>1, <3>2
    <2>2. CASE v # w
      BY <1>0, <1>2, <1>4, <2>2 DEF TypeOK, SelectedIsNext
    <2> QED BY <2>1, <2>2
  <1>9. ReadsInOrder' /\ ReadSoFar'
    BY <1>3 DEF IInv, ReadsInOrder, ReadSoFar, Select, readerVars
  <1> QED BY <1>5, <1>6, <1>7, <1>8, <1>9 DEF IInv

(* A seq that is still free when it is used is the next one.               *)
LEMMA InsertedIsNext ==
    ASSUME IInv, NEW w \in Writers, Insert(w), NEW n \in Nat, DOMAIN rows = 1..n
    PROVE  seq[w] = n + 1
  <1>1. seq[w] \in Nat \ {0} /\ 1..(seq[w] - 1) \subseteq 1..n
    BY DEF IInv, SelectedIsNext, Insert
  <1>2. seq[w] \notin 1..n
    BY DEF Insert
  <1>3. seq[w] - 1 <= n
    BY <1>1, seq[w] - 1 = 0 \/ seq[w] - 1 \in 1..(seq[w] - 1)
  <1> QED BY <1>1, <1>2, <1>3

(* An INSERT extends the log by one and overwrites nothing.                *)
LEMMA InsertStep ==
    ASSUME IInv, NEW w \in Writers, Insert(w) PROVE IInv'
  <1>0. /\ TypeOK /\ Dense /\ SelectedIsNext /\ MoreToStore
        /\ StoredUnderItsSeq
    BY DEF IInv
  <1>1. PICK n \in Nat : DOMAIN rows = 1..n
    BY <1>0 DEF Dense
  <1>2. seq[w] = n + 1
    BY <1>1, InsertedIsNext
  <1>3. /\ DOMAIN rows' = 1..(n + 1)
        /\ rows'[n + 1] = <<w, Len(seqs[w]) + 1>>
        /\ \A q \in 1..n : rows'[q] = rows[q]
    BY <1>1, <1>2 DEF Insert, Put
  <1>4. seqs' = [seqs EXCEPT ![w] = Append(@, n + 1)]
    BY <1>2 DEF Insert, Put
  <1>5. /\ Len(seqs[w]) \in Nat
        /\ Len(seqs'[w]) = Len(seqs[w]) + 1
        /\ seqs'[w][Len(seqs[w]) + 1] = n + 1
        /\ \A i \in 1..Len(seqs[w]) : seqs'[w][i] = seqs[w][i]
        /\ \A v \in Writers \ {w} : seqs'[v] = seqs[v]
    BY <1>0, <1>4 DEF TypeOK
  <1>6. Size[w] \in Nat /\ Len(seqs[w]) + 1 <= Size[w]
    BY <1>0, <1>5, LogAssumption DEF MoreToStore, Insert
  <1>7. pc' = [pc EXCEPT ![w] = Stored(w)]
    BY DEF Insert, Put
  <1>8. TypeOK'
    <2>1. DOMAIN rows' \subseteq Nat \ {0}
      BY <1>3
    <2>2. \A q \in DOMAIN rows' : rows'[q] \in Writers \X (Nat \ {0})
      <3>1. ASSUME NEW q \in 1..n PROVE rows'[q] \in Writers \X (Nat \ {0})
        BY <1>0, <1>1, <1>3, <3>1 DEF TypeOK
      <3>2. rows'[n + 1] \in Writers \X (Nat \ {0})
        BY <1>3, <1>5
      <3> QED BY <1>3, <3>1, <3>2
    <2>3. seqs' \in [Writers -> Seq(Nat \ {0})]
      BY <1>0, <1>4 DEF TypeOK
    <2>4. \A v \in Writers : Len(seqs'[v]) <= Size[v]
      BY <1>0, <1>5, <1>6 DEF TypeOK
    <2>5. pc' \in [Writers -> {"ready", "selected", "forwarding", "done", "failed"}]
      BY <1>0, <1>7 DEF TypeOK, Stored
    <2>6. UNCHANGED <<seq, reader, got, hasMore, total, floor>>
      BY DEF Insert, Put, readerVars
    <2> QED BY <1>0, <2>1, <2>2, <2>3, <2>4, <2>5, <2>6 DEF TypeOK
  <1>9. Dense'
    BY <1>3 DEF Dense
  <1>10. MoreToStore'
    BY <1>0, <1>5, <1>6, <1>7 DEF MoreToStore, TypeOK, Stored
  <1>11. SelectedIsNext'
    <2> SUFFICES ASSUME NEW v \in Writers, pc'[v] = "selected"
                 PROVE  /\ seq'[v] \in Nat \ {0}
                        /\ 1..(seq'[v] - 1) \subseteq DOMAIN rows'
                        /\ \A j \in 1..Len(seqs'[v]) : seqs'[v][j] < seq'[v]
      BY DEF SelectedIsNext
    <2>1. v # w /\ pc[v] = "selected"
      BY <1>0, <1>7 DEF TypeOK, Stored
    <2>2. UNCHANGED seq
      BY DEF Insert, Put
    <2>3. 1..(seq[v] - 1) \subseteq 1..n /\ 1..n \subseteq 1..(n + 1)
      BY <1>0, <1>1, <2>1 DEF SelectedIsNext
    <2> QED BY <1>0, <1>3, <1>5, <2>1, <2>2, <2>3 DEF SelectedIsNext
  <1>12. StoredUnderItsSeq'
    <2> SUFFICES ASSUME NEW v \in Writers, NEW i \in 1..Len(seqs'[v])
                 PROVE  /\ seqs'[v][i] \in DOMAIN rows'
                        /\ rows'[seqs'[v][i]] = <<v, i>>
                        /\ \A j \in 1..(i - 1) : seqs'[v][j] < seqs'[v][i]
      BY DEF StoredUnderItsSeq
    <2>1. CASE v # w \/ i # Len(seqs[w]) + 1
      <3>1. /\ i \in 1..Len(seqs[v])
            /\ seqs'[v][i] = seqs[v][i]
            /\ \A j \in 1..(i - 1) : seqs'[v][j] = seqs[v][j]
        BY <1>5, <2>1
      <3>2. seqs[v][i] \in 1..n
        BY <1>0, <1>1, <3>1 DEF StoredUnderItsSeq
      <3> QED BY <1>0, <1>3, <3>1, <3>2 DEF StoredUnderItsSeq
    <2>2. CASE v = w /\ i = Len(seqs[w]) + 1
      <3>1. \A j \in 1..Len(seqs[w]) : seqs[w][j] \in 1..n
        BY <1>0, <1>1 DEF StoredUnderItsSeq
      <3> QED BY <1>3, <1>5, <2>2, <3>1
    <2> QED BY <2>1, <2>2
  <1>13. ReadsInOrder' /\ ReadSoFar'
    <2>1. UNCHANGED readerVars
      BY DEF Insert, Put
    <2>2. ASSUME NEW r \in Readers, NEW i \in 1..Len(got[r])
          PROVE  i \in 1..(n + 1) /\ got[r][i] = [seq |-> i, msg |-> rows'[i]]
      <3>1. i \in 1..n /\ got[r][i] = [seq |-> i, msg |-> rows[i]]
        BY <1>1 DEF IInv, ReadsInOrder
      <3> QED BY <1>3, <3>1
    <2>3. ReadsInOrder'
      BY <1>3, <2>1, <2>2 DEF ReadsInOrder, readerVars
    <2> QED BY <2>1, <2>3 DEF IInv, ReadSoFar, readerVars
  <1> QED BY <1>8, <1>9, <1>10, <1>11, <1>12, <1>13 DEF IInv

(* The ends of a writer touch neither the log nor a reader.                *)
LEMMA EndStep ==
    ASSUME IInv, NEW w \in Writers, Clash(w) \/ Forward(w) PROVE IInv'
  <1>0. /\ TypeOK /\ Dense /\ SelectedIsNext /\ MoreToStore
        /\ StoredUnderItsSeq /\ ReadsInOrder /\ ReadSoFar
    BY DEF IInv
  <1>1. /\ \E end \in {"done", "failed"} : pc' = [pc EXCEPT ![w] = end]
        /\ UNCHANGED <<rows, seq, seqs, reader, got, hasMore, total, floor>>
    BY DEF Clash, Forward, readerVars
  <1>2. TypeOK'
    BY <1>0, <1>1 DEF TypeOK
  <1>3. SelectedIsNext' /\ MoreToStore'
    BY <1>0, <1>1 DEF TypeOK, SelectedIsNext, MoreToStore
  <1>4. Dense' /\ StoredUnderItsSeq' /\ ReadsInOrder' /\ ReadSoFar'
    BY <1>0, <1>1 DEF Dense, StoredUnderItsSeq, ReadsInOrder, ReadSoFar
  <1> QED BY <1>2, <1>3, <1>4 DEF IInv

-----------------------------------------------------------------------------
(* Pages of a log without gaps.                                            *)

(* A log without gaps holds as many rows as its last seq says.             *)
LEMMA CardinalityOfDense ==
    ASSUME NEW n \in Nat PROVE Cardinality(1..n) = n
  <1>1. Cardinality(1..n) = IF 1 > n THEN 0 ELSE n - 1 + 1
    BY FS_Interval
  <1> QED BY <1>1

(* How many members of an interval lie below one of them.                  *)
LEMMA BelowInInterval ==
    ASSUME NEW a \in Nat, NEW b \in Nat, NEW q \in a..b
    PROVE  Cardinality({p \in a..b : p < q}) = q - a
  <1> DEFINE below == {p \in a..b : p < q}
  <1>1. below = a..(q - 1)
    OBVIOUS
  <1>2. Cardinality(a..(q - 1)) = IF a > q - 1 THEN 0 ELSE (q - 1) - a + 1
    BY FS_Interval
  <1>3. (IF a > q - 1 THEN 0 ELSE (q - 1) - a + 1) = q - a
    OBVIOUS
  <1> HIDE DEF below
  <1>4. Cardinality(below) = q - a
    BY <1>1, <1>2, <1>3
  <1> QED BY <1>4 DEF below

(* The length of the page that follows from, in a log of n messages.       *)
PageLength(n, from) == IF n - from > Limit THEN Limit ELSE n - from

LEMMA PageLengthBounds ==
    ASSUME NEW n \in Nat, NEW from \in 0..n
    PROVE  /\ PageLength(n, from) \in Nat
           /\ from + PageLength(n, from) <= n
           /\ ~(n - from > Limit) => from + PageLength(n, from) = n
  <1>1. Limit \in Nat
    BY LogAssumption
  <1> QED BY <1>1 DEF PageLength

(* get_messages returns the rows that follow, up to the limit, and says    *)
(* that there is more exactly when it left one out.                        *)
LEMMA PageOfDense ==
    ASSUME NEW n \in Nat, NEW from \in 0..n, DOMAIN rows = 1..n
    PROVE  /\ (Cardinality(Fetched(from)) > Limit) <=> (n - from > Limit)
           /\ Page(from) = [i \in 1..PageLength(n, from) |->
                               [seq |-> from + i, msg |-> rows[from + i]]]
  <1> DEFINE k == IF n - from > Limit + 1 THEN Limit + 1 ELSE n - from
             F == (from + 1)..(from + k)
             size == PageLength(n, from)
  <1>0. Limit \in Nat
    BY LogAssumption
  <1>1. /\ k \in Nat /\ from \in Nat /\ from + k <= n
        /\ (k > Limit) <=> (n - from > Limit)
        /\ (IF k > Limit THEN Limit ELSE k) = size
        /\ size \in Nat /\ size <= k
    BY <1>0 DEF PageLength
  <1>2. Matching(from) = (from + 1)..n
    BY DEF Matching
  <1>3. Fetched(from) = F
    <2>1. \A q \in (from + 1)..n :
             Cardinality({p \in (from + 1)..n : p < q}) = q - (from + 1)
      BY BelowInInterval, from + 1 \in Nat
    <2>2. Fetched(from) = {q \in (from + 1)..n : q - (from + 1) < Limit + 1}
      BY <1>2, <2>1 DEF Fetched
    <2> QED BY <1>0, <2>2
  <1> HIDE DEF k, size
  <1>4. Cardinality(F) = k
    <2>1. Cardinality((from + 1)..(from + k))
             = IF from + 1 > from + k THEN 0 ELSE (from + k) - (from + 1) + 1
      BY <1>1, FS_Interval
    <2> QED BY <1>1, <2>1
  <1>5. \A q \in F : Cardinality({p \in F : p < q}) = q - (from + 1)
    <2>1. from + 1 \in Nat /\ from + k \in Nat
      BY <1>1
    <2> QED BY <2>1, BelowInInterval
  <1>6. \A i \in 1..size :
           (CHOOSE q \in F : Cardinality({p \in F : p < q}) = i - 1) = from + i
    <2> SUFFICES ASSUME NEW i \in 1..size
                 PROVE  (CHOOSE q \in F :
                            Cardinality({p \in F : p < q}) = i - 1) = from + i
      OBVIOUS
    <2>1. from + i \in F
      BY <1>1
    <2>2. Cardinality({p \in F : p < from + i}) = i - 1
      BY <1>1, <1>5, <2>1
    <2>3. \A q \in F : Cardinality({p \in F : p < q}) = i - 1 => q = from + i
      BY <1>1, <1>5
    <2> HIDE DEF F
    <2> QED BY <2>1, <2>2, <2>3
  <1>7. Page(from) = [i \in 1..size |->
                        [seq |-> from + i, msg |-> rows[from + i]]]
    <2> HIDE DEF F
    <2> QED BY <1>1, <1>3, <1>4, <1>6 DEF Page
  <1>8. (Cardinality(Fetched(from)) > Limit) <=> (n - from > Limit)
    BY <1>1, <1>3, <1>4
  <1> QED BY <1>7, <1>8 DEF size

(* What a reader has got is the log up to the seq it asks from.            *)
LEMMA LastReadInOrder ==
    ASSUME TypeOK, ReadsInOrder, NEW n \in Nat, DOMAIN rows = 1..n,
           NEW r \in Readers
    PROVE  LastRead(r) = Len(got[r]) /\ Len(got[r]) \in 0..n
  <1>1. Len(got[r]) \in Nat
    BY DEF TypeOK
  <1>2. CASE got[r] = << >>
    BY <1>2 DEF LastRead
  <1>3. CASE got[r] # << >>
    <2>1. Len(got[r]) \in 1..Len(got[r])
      BY <1>1, <1>3 DEF TypeOK
    <2>2. /\ Len(got[r]) \in DOMAIN rows
          /\ got[r][Len(got[r])] = [seq |-> Len(got[r]), msg |-> rows[Len(got[r])]]
      BY <2>1 DEF ReadsInOrder
    <2> QED BY <1>3, <2>2 DEF LastRead
  <1> QED BY <1>2, <1>3

(* A function from 1..n is a sequence of length n.                         *)
LEMMA SequenceOf ==
    ASSUME NEW S, NEW n \in Nat, NEW f \in [1..n -> S]
    PROVE  f \in Seq(S) /\ Len(f) = n
  OBVIOUS

(* What \o returns.                                                        *)
LEMMA Concatenation ==
    ASSUME NEW S, NEW head \in Seq(S), NEW tail \in Seq(S)
    PROVE  /\ head \o tail \in Seq(S)
           /\ Len(head \o tail) = Len(head) + Len(tail)
           /\ \A i \in 1..Len(head) : (head \o tail)[i] = head[i]
           /\ \A i \in (Len(head) + 1)..(Len(head) + Len(tail)) :
                  (head \o tail)[i] = tail[i - Len(head)]
  OBVIOUS

(* A client keeps what it has got.                                         *)
LEMMA ReadGrows ==
    ASSUME IInv, NEW r \in Readers, ReadPage(r), NEW n \in Nat, DOMAIN rows = 1..n
    PROVE  Len(got[r]) <= Len(got'[r])
  <1> DEFINE f == Len(got[r])
             size == PageLength(n, f)
             page == [i \in 1..size |-> [seq |-> f + i, msg |-> rows[f + i]]]
             R == [seq : Nat \ {0}, msg : Writers \X (Nat \ {0})]
             head == got[r]
  <1>0. TypeOK /\ ReadsInOrder
    BY DEF IInv
  <1>1. f \in 0..n /\ LastRead(r) = f
    BY <1>0, LastReadInOrder
  <1>2. size \in Nat /\ f + size <= n
    BY <1>1, PageLengthBounds
  <1>3. page \in Seq(R) /\ Len(page) = size
    <2>1. \A i \in 1..size : f + i \in 1..n
      BY <1>1, <1>2
    <2>2. \A i \in 1..size : page[i] \in R
      BY <1>0, <1>1, <2>1 DEF TypeOK
    <2>3. page \in [1..size -> R]
      BY <2>2
    <2> HIDE DEF size, R, page
    <2> QED BY <1>2, <2>3, SequenceOf
  <1>4. head \in Seq(R)
    BY <1>0 DEF TypeOK
  <1>5. got'[r] = head \o page
    <2> HIDE DEF f
    <2>1. Page(f) = page
      BY <1>1, PageOfDense
    <2> HIDE DEF page
    <2> QED BY <1>0, <1>1, <2>1 DEF ReadPage, TypeOK
  <1> HIDE DEF page, head, R, size
  <1>6. Len(head \o page) = Len(head) + size
    BY <1>3, <1>4, Concatenation
  <1>7. f = Len(head)
    BY DEF head
  <1> HIDE DEF f
  <1> QED BY <1>1, <1>2, <1>5, <1>6, <1>7 DEF f

(* A page continues what the reader has got.                               *)
LEMMA ReadStep ==
    ASSUME IInv, NEW r \in Readers, ReadPage(r) PROVE IInv'
  <1>0. /\ TypeOK /\ Dense /\ SelectedIsNext /\ MoreToStore
        /\ StoredUnderItsSeq /\ ReadsInOrder /\ ReadSoFar
    BY DEF IInv
  <1>1. PICK n \in Nat : DOMAIN rows = 1..n
    BY <1>0 DEF Dense
  <1> DEFINE f == Len(got[r])
             size == PageLength(n, f)
             page == [i \in 1..size |-> [seq |-> f + i, msg |-> rows[f + i]]]
  <1>2. f \in 0..n /\ LastRead(r) = f
    BY <1>0, <1>1, LastReadInOrder
  <1>3. /\ got' = [got EXCEPT ![r] = @ \o page]
        /\ hasMore' = [hasMore EXCEPT ![r] = (n - f > Limit)]
    <2> HIDE DEF f
    <2>1. Page(f) = page /\ (Cardinality(Fetched(f)) > Limit) = (n - f > Limit)
      BY <1>1, <1>2, PageOfDense
    <2> HIDE DEF page
    <2> QED BY <1>2, <2>1 DEF ReadPage
  <1>4. floor' = [floor EXCEPT ![r] = n]
    BY <1>1, CardinalityOfDense DEF ReadPage
  <1>5. /\ reader' = [reader EXCEPT ![r] = "counting"]
        /\ UNCHANGED <<rows, pc, seq, seqs, total>>
    BY DEF ReadPage
  <1>6. size \in Nat /\ f + size <= n /\ (~(n - f > Limit) => f + size = n)
    BY <1>2, PageLengthBounds
  <1>7. /\ page \in Seq([seq : Nat \ {0}, msg : Writers \X (Nat \ {0})])
        /\ Len(page) = size
    <2>1. \A i \in 1..size : f + i \in 1..n
      BY <1>2, <1>6
    <2>2. \A i \in 1..size : page[i] \in [seq : Nat \ {0}, msg : Writers \X (Nat \ {0})]
      BY <1>0, <1>1, <1>2, <2>1 DEF TypeOK
    <2> HIDE DEF size
    <2> QED BY <1>6, <2>2
  <1>8. /\ got'[r] \in Seq([seq : Nat \ {0}, msg : Writers \X (Nat \ {0})])
        /\ Len(got'[r]) = f + size
        /\ \A i \in 1..f : got'[r][i] = got[r][i]
        /\ \A i \in (f + 1)..(f + size) : got'[r][i] = page[i - f]
        /\ \A v \in Readers \ {r} : got'[v] = got[v]
        /\ got' = [got EXCEPT ![r] = got'[r]]
    <2> HIDE DEF size, page
    <2>1. got'[r] = got[r] \o page /\ got' = [got EXCEPT ![r] = got'[r]]
      BY <1>0, <1>3 DEF TypeOK
    <2>2. got[r] \in Seq([seq : Nat \ {0}, msg : Writers \X (Nat \ {0})])
      BY <1>0 DEF TypeOK
    <2>3. \A v \in Readers \ {r} : got'[v] = got[v]
      BY <1>0, <1>3 DEF TypeOK
    <2> DEFINE R == [seq : Nat \ {0}, msg : Writers \X (Nat \ {0})]
               head == got[r]
    <2>4. head \in Seq(R) /\ page \in Seq(R) /\ Len(page) = size
      BY <1>7, <2>2
    <2> HIDE DEF R, head
    <2>5. /\ head \o page \in Seq(R)
          /\ Len(head \o page) = Len(head) + size
          /\ \A i \in 1..Len(head) : (head \o page)[i] = head[i]
          /\ \A i \in (Len(head) + 1)..(Len(head) + size) :
                 (head \o page)[i] = page[i - Len(head)]
      BY <2>4, Concatenation
    <2> QED BY <2>1, <2>3, <2>5 DEF R, head
  <1>9. TypeOK'
    <2> HIDE DEF page
    <2>1. got' \in [Readers -> Seq([seq : Nat \ {0}, msg : Writers \X (Nat \ {0})])]
      BY <1>0, <1>8 DEF TypeOK
    <2>2. /\ hasMore' \in [Readers -> BOOLEAN]
          /\ floor' \in [Readers -> Nat]
          /\ reader' \in [Readers -> {"reading", "counting", "finished"}]
      BY <1>0, <1>3, <1>4, <1>5 DEF TypeOK
    <2> QED BY <1>0, <1>5, <2>1, <2>2 DEF TypeOK
  <1>10. SelectedIsNext' /\ MoreToStore' /\ Dense' /\ StoredUnderItsSeq'
    BY <1>0, <1>5 DEF SelectedIsNext, MoreToStore, Dense, StoredUnderItsSeq
  <1>11. ReadsInOrder'
    <2>1. ASSUME NEW i \in 1..(f + size)
          PROVE  i \in 1..n /\ got'[r][i] = [seq |-> i, msg |-> rows[i]]
      <3>1. CASE i \in 1..f
        BY <1>0, <1>1, <1>8, <3>1 DEF ReadsInOrder
      <3>2. CASE i \in (f + 1)..(f + size)
        <4>1. i - f \in 1..size /\ f + (i - f) = i /\ i \in 1..n
          BY <1>2, <1>6, <3>2
        <4>2. page[i - f] = [seq |-> i, msg |-> rows[i]]
          BY <4>1
        <4> QED BY <1>8, <3>2, <4>1, <4>2
      <3> QED BY <1>2, <1>6, <3>1, <3>2
    <2> HIDE DEF size, page
    <2>2. Len(got'[r]) = f + size /\ \A v \in Readers \ {r} : got'[v] = got[v]
      BY <1>8
    <2> QED BY <1>0, <1>1, <1>5, <2>1, <2>2 DEF ReadsInOrder
  <1>12. ReadSoFar'
    <2> SUFFICES ASSUME NEW v \in Readers
                 PROVE /\ reader'[v] = "counting" /\ ~hasMore'[v]
                             => floor'[v] <= Len(got'[v])
                       /\ reader'[v] = "finished"
                             => floor'[v] <= Len(got'[v]) /\ Len(got'[v]) <= total'[v]
      BY DEF ReadSoFar
    <2>1. CASE v = r
      <3>1. /\ reader'[v] = "counting"
            /\ hasMore'[v] = (n - f > Limit)
            /\ floor'[v] = n
        BY <1>0, <1>3, <1>4, <1>5, <2>1 DEF TypeOK
      <3> QED BY <1>2, <1>6, <1>8, <2>1, <3>1
    <2>2. CASE v # r
      BY <1>0, <1>3, <1>4, <1>5, <1>8, <2>2 DEF TypeOK, ReadSoFar
    <2> QED BY <2>1, <2>2
  <1> QED BY <1>9, <1>10, <1>11, <1>12 DEF IInv

(* The count comes after the page, so it is no smaller.                    *)
LEMMA CountStep ==
    ASSUME IInv, NEW r \in Readers, CountRows(r) PROVE IInv'
  <1>0. /\ TypeOK /\ Dense /\ SelectedIsNext /\ MoreToStore
        /\ StoredUnderItsSeq /\ ReadsInOrder /\ ReadSoFar
    BY DEF IInv
  <1>1. PICK n \in Nat : DOMAIN rows = 1..n
    BY <1>0 DEF Dense
  <1>2. total' = [total EXCEPT ![r] = n]
    BY <1>1, CardinalityOfDense DEF CountRows
  <1>3. /\ reader[r] = "counting"
        /\ reader' = [reader EXCEPT ![r] = IF hasMore[r] THEN "reading" ELSE "finished"]
        /\ UNCHANGED <<rows, pc, seq, seqs, got, hasMore, floor>>
    BY DEF CountRows
  <1>4. Len(got[r]) <= n
    BY <1>0, <1>1, LastReadInOrder
  <1>5. TypeOK'
    BY <1>0, <1>2, <1>3 DEF TypeOK
  <1>6. /\ SelectedIsNext' /\ MoreToStore' /\ Dense' /\ StoredUnderItsSeq'
        /\ ReadsInOrder'
    BY <1>0, <1>3
    DEF SelectedIsNext, MoreToStore, Dense, StoredUnderItsSeq, ReadsInOrder
  <1>7. ReadSoFar'
    BY <1>0, <1>2, <1>3, <1>4 DEF TypeOK, ReadSoFar
  <1> QED BY <1>5, <1>6, <1>7 DEF IInv

-----------------------------------------------------------------------------
(* IInv is an invariant.                                                   *)
LEMMA NextEstablishes == IInv /\ [Next]_vars => IInv'
  <1>1. CASE IInv /\ Next
    BY <1>1, SelectStep, InsertStep, EndStep, ReadStep, CountStep DEF Next
  <1>2. CASE IInv /\ UNCHANGED vars
    BY <1>2 DEF IInv, TypeOK, Dense, SelectedIsNext, MoreToStore,
       StoredUnderItsSeq, ReadsInOrder, ReadSoFar, vars
  <1> QED BY <1>1, <1>2

(* The log's inductive invariant holds of every reachable state.           *)
THEOREM LogInvariant == Spec => []IInv
  <1> QED BY InitEstablishes, NextEstablishes, PTL DEF Spec

(* Every variable keeps to its values.                                     *)
THEOREM LogTypes == Spec => []TypeOK
  <1>1. IInv => TypeOK
    BY DEF IInv
  <1> QED BY <1>1, LogInvariant, PTL

(* No writer takes the row of another: a message keeps the seq it was      *)
(* given, and those of one writer are in its order.                        *)
THEOREM MessagesKeepTheirSeq == Spec => []StoredUnderItsSeq
  <1>1. IInv => StoredUnderItsSeq
    BY DEF IInv
  <1> QED BY <1>1, LogInvariant, PTL

(* The seqs have no gap, so that a client may take a gap for a message it  *)
(* has missed.                                                             *)
NoGaps == DOMAIN rows = 1..Cardinality(DOMAIN rows)

(* The seqs of a session have no gap, clashes or not.                      *)
THEOREM SeqsHaveNoGap == Spec => []NoGaps
  <1>1. IInv => NoGaps
    BY CardinalityOfDense DEF IInv, Dense, NoGaps
  <1> QED BY <1>1, LogInvariant, PTL

(* A client that pages through the log while it grows gets each message    *)
(* once, in order, whatever the page size.                                 *)
THEOREM ReadersGetABeginning == Spec => []ReadsInOrder
  <1>1. IInv => ReadsInOrder
    BY DEF IInv
  <1> QED BY <1>1, LogInvariant, PTL

(* A client that is told there is no more has missed nothing.              *)
THEOREM LastPagesAreComplete == Spec => []LastPageIsComplete
  <1>1. IInv => LastPageIsComplete
    BY DEF IInv, ReadSoFar, LastPageIsComplete
  <1> QED BY <1>1, LogInvariant, PTL

-----------------------------------------------------------------------------
(* Each row is the message of the writer that was given its seq.           *)
RowsAreGiven ==
    \A q \in DOMAIN rows :
        /\ rows[q][1] \in Writers
        /\ rows[q][2] \in 1..Len(seqs[rows[q][1]])
        /\ seqs[rows[q][1]][rows[q][2]] = q

LEMMA InsertGives ==
    ASSUME IInv, RowsAreGiven, NEW w \in Writers, Insert(w) PROVE RowsAreGiven'
  <1>1. seqs \in [Writers -> Seq(Nat \ {0})] /\ seq[w] \in Nat
    BY DEF IInv, TypeOK
  <1>2. /\ DOMAIN rows' = DOMAIN rows \cup {seq[w]}
        /\ rows'[seq[w]] = <<w, Len(seqs[w]) + 1>>
        /\ \A q \in DOMAIN rows : rows'[q] = rows[q]
    BY DEF Insert, Put
  <1>3. seqs' = [seqs EXCEPT ![w] = Append(@, seq[w])]
    BY DEF Insert, Put
  <1>4. /\ Len(seqs[w]) \in Nat
        /\ Len(seqs'[w]) = Len(seqs[w]) + 1
        /\ seqs'[w][Len(seqs[w]) + 1] = seq[w]
        /\ \A v \in Writers \ {w} : seqs'[v] = seqs[v]
    BY <1>1, <1>3
  <1>5. \A i \in 1..Len(seqs[w]) : seqs'[w][i] = seqs[w][i]
    <2>1. seqs[w] \in Seq(Nat \ {0}) /\ seqs'[w] = Append(seqs[w], seq[w])
      BY <1>1, <1>3
    <2> QED BY <2>1
  <1> SUFFICES ASSUME NEW q \in DOMAIN rows'
               PROVE  /\ rows'[q][1] \in Writers
                      /\ rows'[q][2] \in 1..Len(seqs'[rows'[q][1]])
                      /\ seqs'[rows'[q][1]][rows'[q][2]] = q
    BY DEF RowsAreGiven
  <1>6. CASE q = seq[w]
    BY <1>2, <1>4, <1>6
  <1>7. CASE q # seq[w]
    <2> DEFINE v == rows[q][1]
               i == rows[q][2]
    <2>1. /\ rows'[q] = rows[q] /\ v \in Writers
          /\ i \in 1..Len(seqs[v]) /\ seqs[v][i] = q
      BY <1>2, <1>7 DEF RowsAreGiven
    <2> HIDE DEF v, i
    <2>2. i \in 1..Len(seqs'[v]) /\ seqs'[v][i] = q
      BY <1>4, <1>5, <2>1
    <2> QED BY <2>1, <2>2 DEF v, i
  <1> QED BY <1>6, <1>7

LEMMA RowsStayGiven ==
    ASSUME IInv, RowsAreGiven, [Next]_vars PROVE RowsAreGiven'
  <1>1. CASE UNCHANGED <<rows, seqs>>
    BY <1>1 DEF RowsAreGiven
  <1>2. ASSUME NEW w \in Writers, Insert(w) PROVE RowsAreGiven'
    BY <1>2, InsertGives
  <1>3. ASSUME NEW w \in Writers, Select(w) \/ Clash(w) \/ Forward(w)
        PROVE  UNCHANGED <<rows, seqs>>
    BY <1>3 DEF Select, Clash, Forward
  <1>4. ASSUME NEW r \in Readers, ReadPage(r) \/ CountRows(r)
        PROVE  UNCHANGED <<rows, seqs>>
    BY <1>4 DEF ReadPage, CountRows
  <1> QED BY <1>1, <1>2, <1>3, <1>4 DEF Next, vars

(* The rows of a writer are as many as its seqs.                           *)
LEMMA OwnIsBeginning ==
    ASSUME IInv, RowsAreGiven, NEW w \in Writers
    PROVE  LET own == {q \in DOMAIN rows : rows[q][1] = w} IN
           /\ {rows[q][2] : q \in own} = 1..Len(seqs[w])
           /\ Cardinality(own) = Len(seqs[w])
  <1> DEFINE own == {q \in DOMAIN rows : rows[q][1] = w}
             length == Len(seqs[w])
             f == [i \in 1..length |-> seqs[w][i]]
  <1>1. length \in Nat
    BY DEF IInv, TypeOK
  <1>2. \A i \in 1..length : seqs[w][i] \in own /\ rows[seqs[w][i]][2] = i
    BY DEF IInv, StoredUnderItsSeq
  <1>3. \A q \in own : rows[q][2] \in 1..length /\ seqs[w][rows[q][2]] = q
    BY DEF RowsAreGiven
  <1> HIDE DEF own, length
  <1>4. {rows[q][2] : q \in own} = 1..length
    BY <1>2, <1>3
  <1>5. f \in Bijection(1..length, own)
    <2>1. f \in [1..length -> own]
      BY <1>2
    <2>2. \A a, b \in 1..length : f[a] = f[b] => a = b
      BY <1>2
    <2>3. \A q \in own : \E a \in 1..length : f[a] = q
      BY <1>3
    <2> HIDE DEF f
    <2> QED BY <2>1, <2>2, <2>3 DEF Bijection, Injection, Surjection, IsInjective
  <1>6. IsFiniteSet(1..length) /\ Cardinality(1..length) = length
    BY <1>1, FS_Interval, CardinalityOfDense
  <1>7. Cardinality(own) = length
    BY <1>5, <1>6, FS_Bijection DEF ExistsBijection
  <1> QED BY <1>4, <1>7 DEF own, length

(* What a handler has stored is a beginning of its list, each message once *)
(* (batch-message, which stores a list one by one).                        *)
THEOREM ListsAreStoredInOrder == Spec => []StoredIsBeginning
  <1>1. Init => RowsAreGiven
    <2>1. Init => DOMAIN rows = 1..0
      BY DEF Init
    <2> QED BY <2>1 DEF RowsAreGiven
  <1>2. IInv /\ RowsAreGiven /\ [Next]_vars => RowsAreGiven'
    BY RowsStayGiven
  <1>3. IInv /\ RowsAreGiven => StoredIsBeginning
    BY OwnIsBeginning DEF StoredIsBeginning
  <1> QED BY <1>1, <1>2, <1>3, LogInvariant, PTL DEF Spec

-----------------------------------------------------------------------------
(* The table is a log.                                                     *)

Sent == Writers \X (Nat \ {0})

(* The table without gaps is a sequence.                                   *)
LEMMA RowsAreASequence ==
    ASSUME IInv, rows = [q \in DOMAIN rows |-> rows[q]]
    PROVE  rows \in Seq(Sent) /\ DOMAIN rows = 1..Len(rows)
  <1>1. PICK n \in Nat : DOMAIN rows = 1..n
    BY DEF IInv, Dense
  <1>2. \A q \in 1..n : rows[q] \in Sent
    BY <1>1 DEF IInv, TypeOK, Sent
  <1>3. rows \in [1..n -> Sent]
    BY <1>1, <1>2
  <1> HIDE DEF Sent
  <1> QED BY <1>1, <1>3, SequenceOf

(* Append and SubSeq as functions.                                         *)
LEMMA AppendIs ==
    ASSUME NEW S, NEW s \in Seq(S), NEW e \in S
    PROVE  Append(s, e) = [q \in 1..(Len(s) + 1) |-> IF q = Len(s) + 1 THEN e ELSE s[q]]
  <1> DEFINE f == Append(s, e)
             g == [q \in 1..(Len(s) + 1) |-> IF q = Len(s) + 1 THEN e ELSE s[q]]
  <1>1. /\ f \in Seq(S)
        /\ Len(f) = Len(s) + 1
        /\ \A q \in 1..(Len(s) + 1) : f[q] = IF q = Len(s) + 1 THEN e ELSE s[q]
    OBVIOUS
  <1>2. f \in [1..(Len(s) + 1) -> S]
    <2> HIDE DEF f
    <2> QED BY <1>1
  <1>3. g \in [1..(Len(s) + 1) -> S]
    OBVIOUS
  <1>4. \A q \in 1..(Len(s) + 1) : f[q] = g[q]
    BY <1>1
  <1> HIDE DEF f, g
  <1>5. f = g
    BY <1>2, <1>3, <1>4
  <1> QED BY <1>5 DEF f, g

LEMMA BeginningIs ==
    ASSUME NEW S, NEW s \in Seq(S), NEW n \in 0..Len(s)
    PROVE  SubSeq(s, 1, n) = [q \in 1..n |-> s[q]]
  OBVIOUS

(* An INSERT that ends well appends.                                       *)
LEMMA InsertAppends ==
    ASSUME IInv, rows = [q \in DOMAIN rows |-> rows[q]],
           NEW w \in Writers, Insert(w)
    PROVE  rows' = Append(rows, <<w, Len(seqs[w]) + 1>>)
  <1> DEFINE n == Len(rows)
             m == <<w, Len(seqs[w]) + 1>>
  <1>1. rows \in Seq(Sent) /\ DOMAIN rows = 1..n /\ n \in Nat
    BY RowsAreASequence
  <1>2. seq[w] = n + 1
    BY <1>1, InsertedIsNext
  <1>3. m \in Sent
    BY DEF Sent, IInv, TypeOK
  <1> HIDE DEF m, n
  <1>4. rows' = [q \in 1..(n + 1) |-> IF q = n + 1 THEN m ELSE rows[q]]
    BY <1>1, <1>2 DEF Insert, Put, m
  <1>5. Append(rows, m) = [q \in 1..(n + 1) |-> IF q = n + 1 THEN m ELSE rows[q]]
    BY <1>1, <1>3, AppendIs DEF n
  <1> QED BY <1>4, <1>5 DEF m

(* What the inductive invariants say together: the table is a function,    *)
(* and each row is known to its writer.                                    *)
LogInv ==
    /\ IInv
    /\ RowsAreGiven
    /\ rows = [q \in DOMAIN rows |-> rows[q]]

LEMMA InsertKeepsLog ==
    ASSUME LogInv, NEW w \in Writers, Insert(w)
    PROVE  \E i \in 1..Size[w] : Log!Add(w, i)
  <1> DEFINE i == Len(seqs[w]) + 1
  <1>0. IInv /\ RowsAreGiven /\ TypeOK /\ MoreToStore /\ StoredUnderItsSeq
    BY DEF LogInv, IInv
  <1>1. Len(seqs[w]) \in Nat /\ i \in 1..Size[w]
    BY <1>0, LogAssumption DEF TypeOK, MoreToStore, Insert
  <1>2. DOMAIN rows = 1..Len(rows)
    BY RowsAreASequence DEF LogInv
  <1>3. <<w, i>> \notin Log!Logged
    <2> SUFFICES ASSUME NEW q \in DOMAIN rows, rows[q] = <<w, i>> PROVE FALSE
      BY <1>2 DEF Log!Logged
    <2>1. rows[q][1] = w /\ rows[q][2] = i
      OBVIOUS
    <2>2. i \in 1..Len(seqs[w])
      BY <1>0, <2>1 DEF RowsAreGiven
    <2> QED BY <1>1, <2>2
  <1>4. \A j \in 1..(i - 1) : <<w, j>> \in Log!Logged
    <2> SUFFICES ASSUME NEW j \in 1..Len(seqs[w]) PROVE <<w, j>> \in Log!Logged
      BY <1>1
    <2>1. seqs[w][j] \in 1..Len(rows) /\ rows[seqs[w][j]] = <<w, j>>
      BY <1>0, <1>2 DEF StoredUnderItsSeq
    <2> QED BY <2>1 DEF Log!Logged
  <1>5. rows' = Append(rows, <<w, i>>)
    BY InsertAppends DEF LogInv
  <1>6. UNCHANGED got
    BY DEF Insert, Put, readerVars
  <1>7. Log!Add(w, i)
    BY <1>3, <1>4, <1>5, <1>6 DEF Log!Add
  <1> HIDE DEF i
  <1> QED BY <1>1, <1>7

(* A page takes a reader on to a longer beginning of the table.            *)
LEMMA ReadKeepsLog ==
    ASSUME LogInv, NEW r \in Readers, ReadPage(r)
    PROVE  Log!Read(r)
  <1> DEFINE n == Len(got'[r])
             read == [v \in Readers |-> Messages(got[v])]
  <1>0. IInv /\ TypeOK /\ ReadsInOrder /\ UNCHANGED rows
    BY DEF LogInv, IInv, ReadPage
  <1>1. TypeOK' /\ ReadsInOrder'
    BY <1>0, ReadStep DEF IInv
  <1>2. rows \in Seq(Sent) /\ DOMAIN rows = 1..Len(rows) /\ Len(rows) \in Nat
    BY RowsAreASequence DEF LogInv
  <1>3. \A v \in Readers : Len(got[v]) \in Nat /\ Len(got'[v]) \in Nat
    BY <1>0, <1>1 DEF TypeOK
  <1>4. n \in Len(got[r])..Len(rows)
    <2>1. Len(got[r]) <= n
      BY <1>0, <1>2, ReadGrows
    <2>2. n <= Len(rows)
      <3>1. CASE n = 0
        BY <1>2, <3>1
      <3>2. CASE n # 0
        <4>1. n \in 1..Len(got'[r])
          BY <1>3, <3>2
        <4>2. n \in DOMAIN rows
          BY <1>0, <1>1, <4>1 DEF ReadsInOrder
        <4> QED BY <1>2, <4>2
      <3> QED BY <3>1, <3>2
    <2> QED BY <1>2, <1>3, <2>1, <2>2
  <1>5. Messages(got'[r]) = SubSeq(rows, 1, n)
    <2>1. ASSUME NEW q \in 1..n PROVE got'[r][q].msg = rows[q]
      <3>1. got'[r][q] = [seq |-> q, msg |-> rows[q]]
        BY <1>0, <1>1 DEF ReadsInOrder
      <3> QED BY <3>1
    <2>2. Messages(got'[r]) = [q \in 1..n |-> rows[q]]
      BY <2>1 DEF Messages
    <2>3. n \in 0..Len(rows)
      BY <1>2, <1>3, <1>4
    <2> QED BY <1>2, <2>2, <2>3, BeginningIs
  <1>6. \A v \in Readers \ {r} : got'[v] = got[v]
    BY <1>0 DEF TypeOK, ReadPage
  <1>7. [v \in Readers |-> Messages(got'[v])]
           = [read EXCEPT ![r] = SubSeq(rows, 1, n)]
    <2> HIDE DEF n
    <2> QED BY <1>5, <1>6
  <1>8. Len(Messages(got[r])) = Len(got[r])
    BY <1>3 DEF Messages
  <1> HIDE DEF n
  <1> QED BY <1>0, <1>4, <1>7, <1>8 DEF Log!Read

LEMMA OtherStepsKeepLog ==
    ASSUME UNCHANGED <<rows, got>>
    PROVE  UNCHANGED Log!vars
  BY DEF Log!vars

LEMMA LogInvStep == LogInv /\ [Next]_vars => LogInv'
  <1> SUFFICES ASSUME LogInv, [Next]_vars PROVE LogInv'
    OBVIOUS
  <1>1. IInv' /\ RowsAreGiven'
    BY NextEstablishes, RowsStayGiven DEF LogInv
  <1>2. CASE UNCHANGED rows
    BY <1>1, <1>2 DEF LogInv
  <1>3. ASSUME NEW w \in Writers, Insert(w)
        PROVE  rows' = [q \in DOMAIN rows' |-> rows'[q]]
    BY <1>3 DEF Insert, Put
  <1>4. ASSUME NEW w \in Writers, Select(w) \/ Clash(w) \/ Forward(w)
        PROVE  UNCHANGED rows
    BY <1>4 DEF Select, Clash, Forward
  <1>5. ASSUME NEW r \in Readers, ReadPage(r) \/ CountRows(r)
        PROVE  UNCHANGED rows
    BY <1>5 DEF ReadPage, CountRows
  <1> QED BY <1>1, <1>2, <1>3, <1>4, <1>5 DEF LogInv, Next, vars

LEMMA NextKeepsLog == LogInv /\ [Next]_vars => [Log!Next]_(Log!vars)
  <1> SUFFICES ASSUME LogInv, [Next]_vars PROVE [Log!Next]_(Log!vars)
    OBVIOUS
  <1>1. ASSUME NEW w \in Writers, Insert(w) PROVE Log!Next
    BY <1>1, InsertKeepsLog DEF Log!Next
  <1>2. ASSUME NEW r \in Readers, ReadPage(r) PROVE Log!Next
    BY <1>2, ReadKeepsLog DEF Log!Next
  <1>3. ASSUME NEW w \in Writers, Select(w) \/ Clash(w) \/ Forward(w)
        PROVE  UNCHANGED <<rows, got>>
    BY <1>3 DEF Select, Clash, Forward, readerVars
  <1>4. ASSUME NEW r \in Readers, CountRows(r)
        PROVE  UNCHANGED <<rows, got>>
    BY <1>4 DEF CountRows
  <1>5. UNCHANGED vars => UNCHANGED <<rows, got>>
    BY DEF vars
  <1> QED BY <1>1, <1>2, <1>3, <1>4, <1>5, OtherStepsKeepLog DEF Next

(* The table and the pages read from it implement the append-only log, for *)
(* any handlers, lists, clients and page size.                             *)
THEOREM TableKeepsLog == Spec => ImplementsLog
  <1>1. Init => LogInv
    <2>1. Init => DOMAIN rows = 1..0 /\ rows = [q \in DOMAIN rows |-> rows[q]]
      BY DEF Init
    <2> QED BY <2>1, InitEstablishes DEF LogInv, RowsAreGiven
  <1>2. Init => Log!Init
    BY DEF Init, Log!Init, Messages
  <1> QED BY <1>1, <1>2, LogInvStep, NextKeepsLog, PTL
          DEF Spec, ImplementsLog, Log!Spec
=============================================================================
