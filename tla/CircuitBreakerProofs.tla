------------------------ MODULE CircuitBreakerProofs ------------------------
(***************************************************************************)
(* The safety of the breaker for every number of calls, every threshold,   *)
(* quota and duration.  The inductive invariant adds to the checked ones   *)
(* that a closed breaker is below its threshold, and that the window never *)
(* holds more failures than the streak counts.                             *)
(***************************************************************************)
EXTENDS CircuitBreaker, SequenceTheorems, FiniteSetTheorems, TLAPS

(* A CLOSED breaker holds fewer failures than its threshold, whichever way *)
(* it was closed: a success in any state, and a reset, must also empty the *)
(* window, or the next failure would trip it again at once.                *)
ClosedBelowThreshold ==
    state = "CLOSED" => Len(failures) < FailureThreshold

(* Every failure in the window came after the last success or reset.       *)
WindowWithinStreak ==
    Len(failures) <= streak \/ streak = FailureThreshold

IInv ==
    /\ TypeOK
    /\ ClosedBelowThreshold
    /\ TripNeedsStreak
    /\ WindowWithinStreak

(* Pruning the window drops some of the oldest entries and adds none.      *)
LEMMA PruneShortens ==
    ASSUME NEW list \in Seq(0..Window)
    PROVE  /\ Prune(list) \in Seq(0..Window)
           /\ Len(Prune(list)) <= Len(list)
<1> DEFINE k == Cardinality(Expired(list))
<1>1. /\ Len(list) \in Nat
      /\ DOMAIN list = 1..Len(list)
      /\ list \in [1..Len(list) -> 0..Window]
    BY LenProperties
<1>2. IsFiniteSet(1..Len(list))
    BY <1>1, FS_Interval
<1>3. Expired(list) \in SUBSET (1..Len(list))
    BY <1>1 DEF Expired
<1>4. k \in Nat
    BY <1>2, <1>3, FS_Subset, FS_CardinalityType
<1>5. \A i \in (k + 1)..Len(list) : list[i] \in 0..Window
    BY <1>1, <1>4
<1>6. /\ SubSeq(list, k + 1, Len(list)) \in Seq(0..Window)
      /\ Len(SubSeq(list, k + 1, Len(list)))
            = IF k + 1 <= Len(list) THEN Len(list) - (k + 1) + 1 ELSE 0
    <2>1. k + 1 \in Int /\ Len(list) \in Int
        BY <1>1, <1>4
    <2> HIDE DEF k
    <2>2. QED
        BY <1>5, <2>1, SubSeqProperties
<1>7. QED
    BY <1>1, <1>4, <1>6 DEF Prune

LEMMA AppendFailure ==
    ASSUME NEW list \in Seq(0..Window)
    PROVE  /\ Append(list, 0) \in Seq(0..Window)
           /\ Len(Append(list, 0)) = Len(list) + 1
<1>1. 0 \in 0..Window
    BY BreakerAssumption
<1>2. QED
    BY <1>1, AppendProperties

(* A unit of time ages the failures and neither adds nor drops any.        *)
LEMMA AgeKeepsLength ==
    ASSUME NEW list \in Seq(0..Window),
           NEW aged,
           aged = [i \in 1..Len(list) |-> AtMost(list[i] + 1, Window)]
    PROVE  aged \in Seq(0..Window) /\ Len(aged) = Len(list)
<1>1. /\ Len(list) \in Nat
      /\ list \in [1..Len(list) -> 0..Window]
    BY LenProperties
<1>2. \A i \in 1..Len(list) : AtMost(list[i] + 1, Window) \in 0..Window
    BY <1>1, BreakerAssumption DEF AtMost
<1>3. aged \in [1..Len(list) -> 0..Window]
    BY <1>2
<1>4. aged \in Seq(0..Window)
    BY <1>1, <1>3, SeqDef
<1>5. DOMAIN aged = 1..Len(list) /\ DOMAIN aged = 1..Len(aged) /\ Len(aged) \in Nat
    BY <1>3, <1>4, LenProperties
<1>6. QED
    BY <1>1, <1>4, <1>5

LEMMA InitIInv == Init => IInv
<1>1. <<>> \in Seq(0..Window) /\ Len(<<>>) = 0
    BY EmptySeq
<1>2. QED
    BY <1>1, BreakerAssumption
    DEF Init, IInv, TypeOK, ClosedBelowThreshold, TripNeedsStreak,
        WindowWithinStreak, States

LEMMA BeginIInv ==
    ASSUME IInv, NEW c \in Calls, Begin(c)
    PROVE  IInv'
<1> USE BreakerAssumption
    DEF IInv, TypeOK, ClosedBelowThreshold, TripNeedsStreak,
        WindowWithinStreak, States, Begin
<1>1. CASE PassClosed
    <2>1. failures' \in Seq(0..Window) /\ Len(failures') <= Len(failures)
        BY <1>1, PruneShortens DEF PassClosed
    <2>2. Len(failures) \in Nat /\ Len(failures') \in Nat
        BY <2>1, LenProperties
    <2>3. QED
        BY <1>1, <2>1, <2>2 DEF PassClosed
<1>2. CASE StartProbing
    BY <1>2 DEF StartProbing
<1>3. CASE PassProbe
    BY <1>3 DEF PassProbe
<1>4. QED
    BY <1>1, <1>2, <1>3 DEF AllowRequest

LEMMA SucceedIInv ==
    ASSUME IInv, NEW c \in Calls, Succeed(c)
    PROVE  IInv'
<1>1. <<>> \in Seq(0..Window) /\ Len(<<>>) = 0
    BY EmptySeq
<1>2. QED
    BY <1>1, BreakerAssumption
    DEF IInv, TypeOK, ClosedBelowThreshold, TripNeedsStreak,
        WindowWithinStreak, States, Succeed, RecordSuccess

LEMMA FailIInv ==
    ASSUME IInv, NEW c \in Calls, Fail(c)
    PROVE  IInv'
<1> DEFINE recent == Prune(Append(failures, 0))
<1>1. failures \in Seq(0..Window) /\ Len(failures) \in Nat
    BY LenProperties DEF IInv, TypeOK
<1>2. /\ Append(failures, 0) \in Seq(0..Window)
      /\ Len(Append(failures, 0)) = Len(failures) + 1
    BY <1>1, AppendFailure
<1>3. recent \in Seq(0..Window) /\ Len(recent) <= Len(failures) + 1
    BY <1>2, PruneShortens
<1>4. Len(recent) \in Nat
    BY <1>3, LenProperties
<1>5. /\ failures' = recent
      /\ state' = IF state = "CLOSED" /\ Len(recent) >= FailureThreshold
                  THEN "OPEN" ELSE state
      /\ openFor' \in {0, openFor}
      /\ streak' = AtMost(streak + 1, FailureThreshold)
      /\ UNCHANGED halfOpenUsed
      /\ calls' = [calls EXCEPT ![c] = "idle"]
    BY DEF Fail, RecordFailure
<1> HIDE DEF recent
<1>6. TypeOK'
    BY <1>3, <1>5, BreakerAssumption DEF IInv, TypeOK, States, AtMost
<1>7. WindowWithinStreak'
    BY <1>1, <1>3, <1>4, <1>5, BreakerAssumption
    DEF IInv, TypeOK, WindowWithinStreak, AtMost
<1>8. ClosedBelowThreshold' /\ TripNeedsStreak'
    BY <1>1, <1>3, <1>4, <1>5, <1>6, <1>7, BreakerAssumption
    DEF IInv, TypeOK, ClosedBelowThreshold, TripNeedsStreak,
        WindowWithinStreak, AtMost, States
<1>9. QED
    BY <1>6, <1>7, <1>8 DEF IInv

LEMMA ResetIInv == IInv /\ Reset => IInv'
<1>1. <<>> \in Seq(0..Window) /\ Len(<<>>) = 0
    BY EmptySeq
<1>2. QED
    BY <1>1, BreakerAssumption
    DEF IInv, TypeOK, ClosedBelowThreshold, TripNeedsStreak,
        WindowWithinStreak, States, Reset

LEMMA StatsIInv == IInv /\ Stats => IInv'
<1> SUFFICES ASSUME IInv, Stats PROVE IInv'
    OBVIOUS
<1>1. failures' \in Seq(0..Window) /\ Len(failures') <= Len(failures)
    BY PruneShortens DEF IInv, TypeOK, Stats
<1>2. Len(failures) \in Nat /\ Len(failures') \in Nat
    BY <1>1, LenProperties DEF IInv, TypeOK
<1>3. QED
    BY <1>1, <1>2, BreakerAssumption
    DEF IInv, TypeOK, ClosedBelowThreshold, TripNeedsStreak,
        WindowWithinStreak, Stats

LEMMA TickIInv == IInv /\ Tick => IInv'
<1> SUFFICES ASSUME IInv, Tick PROVE IInv'
    OBVIOUS
<1>1. failures' \in Seq(0..Window) /\ Len(failures') = Len(failures)
    BY AgeKeepsLength DEF IInv, TypeOK, Tick
<1>2. openFor' \in 0..RecoveryTimeout
    BY BreakerAssumption DEF IInv, TypeOK, Tick, AtMost
<1>3. QED
    BY <1>1, <1>2
    DEF IInv, TypeOK, ClosedBelowThreshold, TripNeedsStreak,
        WindowWithinStreak, Tick

LEMMA NextIInv == IInv /\ [Next]_vars => IInv'
<1> SUFFICES ASSUME IInv, [Next]_vars PROVE IInv'
    OBVIOUS
<1>1. ASSUME NEW c \in Calls, Begin(c) \/ Succeed(c) \/ Fail(c)
      PROVE  IInv'
    BY <1>1, BeginIInv, SucceedIInv, FailIInv
<1>2. CASE Reset
    BY <1>2, ResetIInv
<1>3. CASE Stats
    BY <1>3, StatsIInv
<1>4. CASE Tick
    BY <1>4, TickIInv
<1>5. CASE UNCHANGED vars
    BY <1>5
    DEF IInv, TypeOK, ClosedBelowThreshold, TripNeedsStreak,
        WindowWithinStreak, vars
<1>6. QED
    BY <1>1, <1>2, <1>3, <1>4, <1>5 DEF Next

(* The inductive invariant holds of every reachable state.                 *)
THEOREM BreakerInvariant == Spec => []IInv
<1>1. QED
    BY InitIInv, NextIInv, PTL DEF Spec

(* The breaker's variables keep their types: ages stay within what they    *)
(* are compared with and the probes counted within the quota.              *)
THEOREM BreakerTypes == Spec => []TypeOK
<1>1. IInv => TypeOK
    BY DEF IInv
<1>2. QED
    BY BreakerInvariant, <1>1, PTL

(* For any threshold and any number of overlapping calls, a breaker that   *)
(* is CLOSED is below its threshold.                                       *)
THEOREM ClosedIsBelowThreshold == Spec => []ClosedBelowThreshold
<1>1. IInv => ClosedBelowThreshold
    BY DEF IInv
<1>2. QED
    BY BreakerInvariant, <1>1, PTL

(* A breaker away from CLOSED has seen FailureThreshold failures in a row, *)
(* with no success and no reset between them.                              *)
THEOREM TripsNeedAStreak == Spec => []TripNeedsStreak
<1>1. IInv => TripNeedsStreak
    BY DEF IInv
<1>2. QED
    BY BreakerInvariant, <1>1, PTL
=============================================================================
