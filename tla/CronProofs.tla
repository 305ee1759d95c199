----------------------------- MODULE CronProofs -----------------------------
(***************************************************************************)
(* Proofs about the search for the next minute of a cron expression, for   *)
(* every calendar, expression and horizon.  The timestamps of the minutes  *)
(* of the calendar are a count of them (StampIsOneToOne, Advances), so     *)
(* that carrying by hand goes through them without a gap.                  *)
(***************************************************************************)
EXTENDS Cron, FiniteSetTheorems, TLAPS

Date(t) == <<t.year, t.month, t.day>>

Before(t) == {date \in Dates : IsBefore(date, t)}

(* What Advance makes of a minute.                                         *)
After(t) ==
    IF t.minute < Minutes - 1 THEN NextMinute(t)
    ELSE IF t.hour < Hours - 1 THEN NextHour(t)
    ELSE NextDay(t)

Clocks ==
    [year : Nat, month : 1..Months, day : 1..31,
     hour : 0..Hours - 1, minute : 0..Minutes - 1]

-----------------------------------------------------------------------------
(* The constants as numbers.                                               *)
LEMMA Units ==
    /\ Seconds \in Nat \ {0} /\ Minutes \in Nat \ {0} /\ Hours \in Nat \ {0}
    /\ Years \in Nat \ {0} /\ Months \in Nat \ {0} /\ Horizon \in Nat
    /\ \A y \in 1..Years, m \in 1..Months : Length[<<y, m>>] \in 1..31
  BY CronAssumption

(* A minute of the calendar is a record of numbers whose date exists.      *)
LEMMA MomentFields ==
  ASSUME NEW t
  PROVE  t \in Moments <=>
            /\ t \in Clocks
            /\ t.year \in 1..Years
            /\ t.day <= Length[<<t.year, t.month>>]
  BY Units DEF Moments, Clocks

LEMMA DateOfMoment ==
  ASSUME NEW t \in Moments
  PROVE  Date(t) \in Dates
  BY MomentFields DEF Dates, Date, Clocks

LEMMA DatesFinite == IsFiniteSet(Dates)
  <1> DEFINE Y == 1..Years  M == 1..Months  D == 1..31
             f == [p \in (Y \X M) \X D |-> <<p[1][1], p[1][2], p[2]>>]
  <1>1. IsFiniteSet(Y) /\ IsFiniteSet(M) /\ IsFiniteSet(D)
    <2>1. 1 \in Int /\ Years \in Int /\ Months \in Int /\ 31 \in Int
      BY Units
    <2> QED
      BY <2>1, FS_Interval
  <1>2. IsFiniteSet(Y \X M)
    BY <1>1, FS_Product
  <1>3. IsFiniteSet((Y \X M) \X D)
    BY <1>1, <1>2, FS_Product
  <1>4. f \in Surjection((Y \X M) \X D, Y \X M \X D)
    <2>1. f \in [(Y \X M) \X D -> Y \X M \X D]
      OBVIOUS
    <2>2. ASSUME NEW date \in Y \X M \X D
          PROVE  \E p \in (Y \X M) \X D : f[p] = date
      <3>1. <<<<date[1], date[2]>>, date[3]>> \in (Y \X M) \X D
        OBVIOUS
      <3>2. f[<<<<date[1], date[2]>>, date[3]>>] = date
        BY <3>1
      <3> QED
        BY <3>1, <3>2
    <2> QED
      BY <2>1, <2>2 DEF Surjection
  <1>5. IsFiniteSet(Y \X M \X D)
    BY <1>3, <1>4, FS_Surjection
  <1>6. Dates \in SUBSET (Y \X M \X D)
    BY DEF Dates
  <1> QED
    BY <1>5, <1>6, FS_Subset

(* The days before a minute are a finite count.                            *)
LEMMA DaysBeforeType ==
  ASSUME NEW t
  PROVE  /\ IsFiniteSet(Before(t))
         /\ DaysBefore(t) = Cardinality(Before(t))
         /\ DaysBefore(t) \in Nat
  <1>1. Before(t) \in SUBSET Dates
    BY DEF Before
  <1>2. IsFiniteSet(Before(t))
    BY <1>1, DatesFinite, FS_Subset
  <1> QED
    BY <1>2, FS_CardinalityType DEF DaysBefore, Before

LEMMA DateOrder ==
  ASSUME NEW t, NEW u
  PROVE  IsBefore(Date(t), u) <=>
            \/ t.year < u.year
            \/ t.year = u.year /\ t.month < u.month
            \/ t.year = u.year /\ t.month = u.month /\ t.day < u.day
  <1>1. Date(t)[1] = t.year /\ Date(t)[2] = t.month /\ Date(t)[3] = t.day
    BY DEF Date
  <1> QED
    BY <1>1 DEF IsBefore

LEMMA MomentNumbers ==
  ASSUME NEW t \in Moments
  PROVE  t.year \in Int /\ t.month \in Int /\ t.day \in Int
  <1>1. t \in Clocks
    BY MomentFields
  <1> QED
    BY <1>1 DEF Clocks

(* A later day has more days before it.                                    *)
LEMMA DaysBeforeGrows ==
  ASSUME NEW t \in Moments, NEW u \in Moments, IsBefore(Date(t), u)
  PROVE  DaysBefore(t) < DaysBefore(u)
  <1>1. Before(t) \in SUBSET Before(u)
    <2> SUFFICES ASSUME NEW date \in Before(t) PROVE date \in Before(u)
      OBVIOUS
    <2>1. date \in Dates /\ IsBefore(date, t)
      BY DEF Before
    <2>2. date[1] \in Int /\ date[2] \in Int /\ date[3] \in Int
      BY <2>1 DEF Dates
    <2>3. /\ t.year \in Int /\ t.month \in Int /\ t.day \in Int
          /\ u.year \in Int /\ u.month \in Int /\ u.day \in Int
      BY MomentNumbers
    <2>4. IsBefore(date, u)
      BY <2>1, <2>2, <2>3, DateOrder DEF IsBefore
    <2> QED
      BY <2>1, <2>4 DEF Before
  <1>2. Date(t) \in Before(u)
    BY DateOfMoment DEF Before
  <1>3. Date(t) \notin Before(t)
    BY MomentNumbers, DateOrder DEF Before
  <1>4. Before(t) # Before(u)
    BY <1>2, <1>3
  <1>5. Cardinality(Before(t)) <= Cardinality(Before(u)) /\ Cardinality(Before(u)) # Cardinality(Before(t))
    BY <1>1, <1>4, DaysBeforeType, FS_Subset
  <1> QED
    BY <1>5, DaysBeforeType

LEMMA SameDaySameDate ==
  ASSUME NEW t \in Moments, NEW u \in Moments, DaysBefore(t) = DaysBefore(u)
  PROVE  Date(t) = Date(u)
  <1>1. ~IsBefore(Date(t), u) /\ ~IsBefore(Date(u), t)
    BY DaysBeforeGrows, DaysBeforeType
  <1>2. /\ t.year \in Int /\ t.month \in Int /\ t.day \in Int
        /\ u.year \in Int /\ u.month \in Int /\ u.day \in Int
    BY MomentNumbers
  <1>3. t.year = u.year /\ t.month = u.month /\ t.day = u.day
    BY <1>1, <1>2, DateOrder
  <1> QED
    BY <1>3 DEF Date

-----------------------------------------------------------------------------
(* Mixed radix: q groups of size and r more.                               *)
LEMMA RadixOrder ==
  ASSUME NEW size \in Nat \ {0}, NEW p \in Nat, NEW q \in Nat,
         NEW r \in 0..size - 1, NEW s \in 0..size - 1, p < q
  PROVE  p * size + r < q * size + s
  OBVIOUS

LEMMA RadixUnique ==
  ASSUME NEW size \in Nat \ {0}, NEW p \in Nat, NEW q \in Nat,
         NEW r \in 0..size - 1, NEW s \in 0..size - 1,
         p * size + r = q * size + s
  PROVE  p = q /\ r = s
  <1>1. ~(p < q) /\ ~(q < p)
    BY RadixOrder
  <1>2. p = q
    BY <1>1
  <1> QED
    BY <1>2

LEMMA RadixType ==
  ASSUME NEW size \in Nat, NEW p \in Nat, NEW r \in Nat
  PROVE  p * size + r \in Nat
  OBVIOUS

LEMMA ProductOrder ==
  ASSUME NEW size \in Nat, NEW p \in Nat, NEW q \in Nat, p <= q
  PROVE  p * size <= q * size
  OBVIOUS

LEMMA RadixRemainder ==
  ASSUME NEW size \in Nat \ {0}, NEW p \in Nat, NEW r \in 0..size - 1
  PROVE  (p * size + r) % size = r
  OBVIOUS

(* Hours and minutes of the calendar before t.                             *)
HourOf(t) == DaysBefore(t) * Hours + t.hour
MinuteOf(t) == HourOf(t) * Minutes + t.minute

LEMMA StampType ==
  ASSUME NEW t \in Clocks
  PROVE  /\ HourOf(t) \in Nat
         /\ MinuteOf(t) \in Nat
         /\ Stamp(t) = MinuteOf(t) * Seconds
         /\ Stamp(t) \in Nat
  <1>1. t.hour \in Nat /\ t.minute \in Nat
    BY Units DEF Clocks
  <1>2. HourOf(t) \in Nat
    BY <1>1, Units, DaysBeforeType, RadixType DEF HourOf
  <1>3. MinuteOf(t) \in Nat
    BY <1>1, <1>2, Units, RadixType DEF MinuteOf
  <1>4. Stamp(t) = MinuteOf(t) * Seconds
    BY DEF Stamp, MinuteOf, HourOf
  <1>5. MinuteOf(t) * Seconds \in Nat
    BY <1>3, Units
  <1> QED
    BY <1>2, <1>3, <1>4, <1>5

LEMMA RadixCarry ==
  ASSUME NEW size \in Nat \ {0}, NEW p \in Nat
  PROVE  (p + 1) * size + 0 = (p * size + (size - 1)) + 1
  OBVIOUS

LEMMA MinuteLater ==
  ASSUME NEW p \in Nat
  PROVE  (p + 1) * Seconds = p * Seconds + Seconds
  BY Units

LEMMA SameDateSameDay ==
  ASSUME NEW t, NEW u, Date(t) = Date(u)
  PROVE  DaysBefore(t) = DaysBefore(u)
  <1>1. t.year = u.year /\ t.month = u.month /\ t.day = u.day
    BY DEF Date
  <1> QED
    BY <1>1 DEF DaysBefore, IsBefore

(* No two minutes have one timestamp.                                      *)
LEMMA StampIsOneToOne ==
  ASSUME NEW t \in Moments, NEW u \in Moments, Stamp(t) = Stamp(u)
  PROVE  t = u
  <1>1. t \in Clocks /\ u \in Clocks
    BY MomentFields
  <1>2. MinuteOf(t) = MinuteOf(u)
    <2>1. 0 \in 0..Seconds - 1
      BY Units
    <2>2. MinuteOf(t) * Seconds + 0 = MinuteOf(u) * Seconds + 0
      BY <1>1, StampType, Units
    <2> QED
      BY <1>1, <2>1, <2>2, StampType, Units, RadixUnique
  <1>3. t.minute \in 0..Minutes - 1 /\ u.minute \in 0..Minutes - 1
    BY <1>1 DEF Clocks
  <1>4. HourOf(t) = HourOf(u) /\ t.minute = u.minute
    BY <1>1, <1>2, <1>3, StampType, Units, RadixUnique DEF MinuteOf
  <1>5. t.hour \in 0..Hours - 1 /\ u.hour \in 0..Hours - 1
    BY <1>1 DEF Clocks
  <1>6. DaysBefore(t) = DaysBefore(u) /\ t.hour = u.hour
    BY <1>4, <1>5, DaysBeforeType, Units, RadixUnique DEF HourOf
  <1>7. Date(t) = Date(u)
    BY <1>6, SameDaySameDate
  <1> QED
    BY <1>1, <1>4, <1>6, <1>7 DEF Date, Clocks

(* A minute is at least Seconds after every earlier one.                   *)
LEMMA StampsAreMinutes ==
  ASSUME NEW t \in Clocks, NEW u \in Clocks, Stamp(t) < Stamp(u)
  PROVE  Stamp(t) + Seconds <= Stamp(u)
  <1>1. /\ MinuteOf(t) \in Nat /\ MinuteOf(u) \in Nat
        /\ Stamp(t) = MinuteOf(t) * Seconds /\ Stamp(u) = MinuteOf(u) * Seconds
    BY StampType
  <1> DEFINE p == MinuteOf(t)  q == MinuteOf(u)
  <1> HIDE DEF p, q
  <1>2. p \in Nat /\ q \in Nat /\ p * Seconds < q * Seconds /\ Seconds \in Nat
    BY <1>1, Units DEF p, q
  <1>3. p < q
    BY <1>2
  <1>4. (p + 1) * Seconds <= q * Seconds
    BY <1>2, <1>3
  <1>5. p * Seconds + Seconds <= q * Seconds
    BY <1>2, <1>4
  <1> QED
    BY <1>1, <1>5 DEF p, q

-----------------------------------------------------------------------------
(* What a step of the search makes of a minute.                            *)
LEMMA NextMinuteFields ==
  ASSUME NEW t \in Moments, t.minute < Minutes - 1
  PROVE  /\ NextMinute(t) \in Moments
         /\ Date(NextMinute(t)) = Date(t)
         /\ NextMinute(t).hour = t.hour
         /\ NextMinute(t).minute = t.minute + 1
  <1>1. t \in Clocks /\ t.year \in 1..Years /\ t.day <= Length[<<t.year, t.month>>]
    BY MomentFields
  <1> DEFINE u == NextMinute(t)
  <1>2. /\ u.year = t.year /\ u.month = t.month /\ u.day = t.day
        /\ u.hour = t.hour /\ u.minute = t.minute + 1
    BY <1>1 DEF NextMinute, Clocks
  <1>3. u \in Clocks
    BY <1>1, Units DEF NextMinute, Clocks
  <1> HIDE DEF u
  <1>4. u \in Moments
    BY <1>1, <1>2, <1>3, MomentFields
  <1> QED
    BY <1>2, <1>4 DEF u, Date

LEMMA NextHourFields ==
  ASSUME NEW t \in Moments, t.hour < Hours - 1
  PROVE  /\ NextHour(t) \in Moments
         /\ Date(NextHour(t)) = Date(t)
         /\ NextHour(t).hour = t.hour + 1
         /\ NextHour(t).minute = 0
  <1>1. t \in Clocks /\ t.year \in 1..Years /\ t.day <= Length[<<t.year, t.month>>]
    BY MomentFields
  <1>2. t.hour + 1 \in 0..Hours - 1 /\ 0 \in 0..Minutes - 1
    BY <1>1, Units DEF Clocks
  <1> DEFINE u == NextHour(t)  h == t.hour + 1
  <1>3. u = [t EXCEPT !.minute = 0, !.hour = h]
    BY DEF NextHour
  <1> HIDE DEF u, h
  <1>4. /\ u \in Clocks
        /\ u.year = t.year /\ u.month = t.month /\ u.day = t.day
        /\ u.hour = h /\ u.minute = 0
    BY <1>1, <1>2, <1>3 DEF Clocks, h
  <1>5. u \in Moments
    BY <1>1, <1>4, MomentFields
  <1> QED
    BY <1>4, <1>5 DEF u, h, Date

LEMMA NextDayFields ==
  ASSUME NEW t \in Moments
  PROVE  /\ NextDay(t) \in Clocks
         /\ NextDay(t).hour = 0
         /\ NextDay(t).minute = 0
         /\ \/ /\ t.day < Length[<<t.year, t.month>>]
               /\ Date(NextDay(t)) = <<t.year, t.month, t.day + 1>>
            \/ /\ t.day = Length[<<t.year, t.month>>]
               /\ t.month < Months
               /\ Date(NextDay(t)) = <<t.year, t.month + 1, 1>>
            \/ /\ t.day = Length[<<t.year, t.month>>]
               /\ t.month = Months
               /\ Date(NextDay(t)) = <<t.year + 1, 1, 1>>
  <1>1. t \in Clocks /\ t.year \in 1..Years /\ t.day <= Length[<<t.year, t.month>>]
    BY MomentFields
  <1>2. t.month \in 1..Months /\ t.day \in 1..31
    BY <1>1 DEF Clocks
  <1>3. Length[<<t.year, t.month>>] \in 1..31
    BY <1>1, <1>2, Units
  <1>4. t.year \in Nat /\ 0 \in 0..Hours - 1 /\ 0 \in 0..Minutes - 1 /\ 1 \in 1..Months /\ 1 \in 1..31
    BY <1>1, Units
  <1> DEFINE u == NextDay(t)
             d == t.day + 1  m == t.month + 1  y == t.year + 1
  <1>5. CASE ~EndOfMonth(t)
    <2>1. t.day < Length[<<t.year, t.month>>]
      BY <1>1, <1>2, <1>3, <1>5 DEF EndOfMonth
    <2>2. d \in 1..31
      BY <1>2, <1>3, <2>1
    <2>3. u = [t EXCEPT !.minute = 0, !.hour = 0, !.day = d]
      BY <1>5, Zenon DEF NextDay
    <2> HIDE DEF u, d
    <2>4. /\ u \in Clocks
          /\ u.year = t.year /\ u.month = t.month /\ u.day = d
          /\ u.hour = 0 /\ u.minute = 0
      BY <1>1, <1>4, <2>2, <2>3 DEF Clocks
    <2> QED
      BY <2>1, <2>4 DEF u, d, Date
  <1>6. CASE EndOfMonth(t) /\ t.month < Months
    <2>1. m \in 1..Months
      BY <1>2, <1>6, Units
    <2>2. u = [t EXCEPT !.minute = 0, !.hour = 0, !.day = 1, !.month = m, !.year = t.year]
      BY <1>6, Zenon DEF NextDay
    <2> HIDE DEF u, m
    <2>3. /\ u \in Clocks
          /\ u.year = t.year /\ u.month = m /\ u.day = 1
          /\ u.hour = 0 /\ u.minute = 0
      BY <1>1, <1>4, <2>1, <2>2 DEF Clocks
    <2> QED
      BY <1>6, <2>3 DEF u, m, Date, EndOfMonth
  <1>7. CASE EndOfMonth(t) /\ t.month = Months
    <2>1. ~(t.month < Months)
      BY <1>7, Units
    <2>2. y \in Nat
      BY <1>4
    <2>3. u = [t EXCEPT !.minute = 0, !.hour = 0, !.day = 1, !.month = 1, !.year = y]
      BY <1>7, <2>1, Zenon DEF NextDay
    <2> HIDE DEF u, y
    <2>4. /\ u \in Clocks
          /\ u.year = y /\ u.month = 1 /\ u.day = 1
          /\ u.hour = 0 /\ u.minute = 0
      BY <1>1, <1>4, <2>2, <2>3 DEF Clocks
    <2> QED
      BY <1>7, <2>4 DEF u, y, Date, EndOfMonth
  <1> QED
    BY <1>2, <1>5, <1>6, <1>7, Units

(* The day after t has one day more before it, the day of t.               *)
LEMMA NextDayCounts ==
  ASSUME NEW t \in Moments
  PROVE  DaysBefore(NextDay(t)) = DaysBefore(t) + 1
  <1> DEFINE u == NextDay(t)
  <1>1. t.year \in Int /\ t.month \in 1..Months /\ t.day \in Int
    <2>1. t \in Clocks
      BY MomentFields
    <2> QED
      BY <2>1, MomentNumbers DEF Clocks
  <1>2. \/ /\ t.day < Length[<<t.year, t.month>>]
           /\ u.year = t.year /\ u.month = t.month /\ u.day = t.day + 1
        \/ /\ t.day = Length[<<t.year, t.month>>]
           /\ t.month < Months
           /\ u.year = t.year /\ u.month = t.month + 1 /\ u.day = 1
        \/ /\ t.day = Length[<<t.year, t.month>>]
           /\ t.month = Months
           /\ u.year = t.year + 1 /\ u.month = 1 /\ u.day = 1
    BY NextDayFields DEF Date
  <1> HIDE DEF u
  <1>3. ASSUME NEW date \in Dates
        PROVE  IsBefore(date, u) <=> IsBefore(date, t) \/ date = Date(t)
    <2> DEFINE y == date[1]  m == date[2]  d == date[3]
    <2>1. /\ y \in 1..Years /\ m \in 1..Months /\ d \in 1..31
          /\ d <= Length[<<y, m>>]
          /\ date = <<y, m, d>>
      BY DEF Dates
    <2>2. date = Date(t) <=> y = t.year /\ m = t.month /\ d = t.day
      BY <2>1 DEF Date
    <2>3. y = t.year /\ m = t.month => d <= Length[<<t.year, t.month>>]
      BY <2>1
    <2> HIDE DEF y, m, d
    <2>4. Length[<<t.year, t.month>>] \in Int
      BY MomentFields, Units, <1>1
    <2>5. \/ y < u.year
          \/ y = u.year /\ m < u.month
          \/ y = u.year /\ m = u.month /\ d < u.day
          <=>
          \/ y < t.year
          \/ y = t.year /\ m < t.month
          \/ y = t.year /\ m = t.month /\ d < t.day
          \/ y = t.year /\ m = t.month /\ d = t.day
      BY <1>1, <1>2, <2>1, <2>3, <2>4, Units
    <2> QED
      BY <2>2, <2>5 DEF IsBefore, y, m, d
  <1>4. Before(u) = Before(t) \cup {Date(t)}
    BY <1>3, DateOfMoment DEF Before
  <1>5. Date(t) \notin Before(t)
    BY MomentNumbers, DateOrder DEF Before
  <1>6. Cardinality(Before(u)) = Cardinality(Before(t)) + 1
    BY <1>4, <1>5, DaysBeforeType, FS_AddElement
  <1> QED
    BY <1>6, DaysBeforeType DEF u

(* Past the last day every day is over.                                    *)
LEMMA NextDayEnds ==
  ASSUME NEW t \in Moments, NextDay(t) \notin Moments
  PROVE  DaysBefore(NextDay(t)) = Cardinality(Dates)
  <1> DEFINE u == NextDay(t)
  <1>1. /\ t.year \in 1..Years /\ t.month \in 1..Months /\ t.day \in 1..31
        /\ Length[<<t.year, t.month>>] \in 1..31
    BY MomentFields, Units DEF Clocks
  <1>2. u \in Clocks /\ u \notin Moments
    BY NextDayFields
  <1>3. ~(u.year \in 1..Years /\ u.day <= Length[<<u.year, u.month>>])
    BY <1>2, MomentFields
  <1>4. u.month \in 1..Months /\ u.year \in Nat
    BY <1>2 DEF Clocks
  <1>5. \/ u.year = t.year /\ u.month = t.month /\ u.day <= Length[<<t.year, t.month>>]
        \/ u.year = t.year /\ u.day = 1
        \/ u.year = t.year + 1 /\ u.day = 1
    BY <1>1, NextDayFields DEF Date
  <1> HIDE DEF u
  <1>6. u.year = Years + 1
    <2>1. CASE u.year \in 1..Years
      <3>1. Length[<<u.year, u.month>>] \in 1..31
        BY <1>4, <2>1, Units
      <3> QED
        BY <1>1, <1>3, <1>5, <2>1, <3>1
    <2>2. CASE u.year \notin 1..Years
      BY <1>1, <1>4, <1>5, <2>2, Units
    <2> QED
      BY <2>1, <2>2
  <1>7. Before(u) = Dates
    <2>1. \A date \in Dates : date[1] \in 1..Years
      BY DEF Dates
    <2> QED
      BY <1>6, <2>1, Units DEF Before, IsBefore
  <1> QED
    BY <1>7, DaysBeforeType DEF u

(* Each step is one minute: no carry skips one or counts one twice.  The   *)
(* step from the last minute alone leaves the calendar.                    *)
LEMMA AfterCounts ==
  ASSUME NEW t \in Moments
  PROVE  /\ Stamp(After(t)) = Stamp(t) + Seconds
         /\ \/ After(t) \in Moments
            \/ Stamp(After(t)) = Cardinality(Dates) * Hours * Minutes * Seconds
  <1> DEFINE u == After(t)
  <1>1. /\ DaysBefore(t) \in Nat /\ t.hour \in 0..Hours - 1 /\ t.minute \in 0..Minutes - 1
        /\ HourOf(t) \in Nat /\ MinuteOf(t) \in Nat /\ Stamp(t) = MinuteOf(t) * Seconds
    <2>1. t \in Clocks
      BY MomentFields
    <2>2. t.hour \in 0..Hours - 1 /\ t.minute \in 0..Minutes - 1
      BY <2>1 DEF Clocks
    <2> QED
      BY <2>1, <2>2, DaysBeforeType, StampType
  <1>2. Stamp(u) = MinuteOf(u) * Seconds
    BY DEF Stamp, MinuteOf, HourOf
  <1>3. CASE t.minute < Minutes - 1
    <2>1. u = NextMinute(t)
      BY <1>3 DEF After
    <2>2. /\ u \in Moments /\ Date(u) = Date(t)
          /\ u.hour = t.hour /\ u.minute = t.minute + 1
      BY <1>3, <2>1, NextMinuteFields
    <2>3. DaysBefore(u) = DaysBefore(t)
      BY <2>2, SameDateSameDay
    <2>4. HourOf(u) = HourOf(t)
      BY <2>2, <2>3 DEF HourOf
    <2>5. MinuteOf(u) = MinuteOf(t) + 1
      BY <1>1, <2>2, <2>4, Units DEF MinuteOf
    <2> QED
      BY <1>1, <1>2, <2>2, <2>5, MinuteLater
  <1>4. CASE ~(t.minute < Minutes - 1) /\ t.hour < Hours - 1
    <2>1. u = NextHour(t)
      BY <1>4 DEF After
    <2>2. /\ u \in Moments /\ Date(u) = Date(t)
          /\ u.hour = t.hour + 1 /\ u.minute = 0
      BY <1>4, <2>1, NextHourFields
    <2>3. DaysBefore(u) = DaysBefore(t)
      BY <2>2, SameDateSameDay
    <2>4. HourOf(u) = HourOf(t) + 1
      BY <1>1, <2>2, <2>3, Units DEF HourOf
    <2>5. t.minute = Minutes - 1
      BY <1>1, <1>4, Units
    <2>6. MinuteOf(u) = MinuteOf(t) + 1
      BY <1>1, <2>2, <2>4, <2>5, Units, RadixCarry DEF MinuteOf
    <2> QED
      BY <1>1, <1>2, <2>2, <2>6, MinuteLater
  <1>5. CASE ~(t.minute < Minutes - 1) /\ ~(t.hour < Hours - 1)
    <2>1. u = NextDay(t)
      BY <1>5 DEF After
    <2>2. u \in Clocks /\ u.hour = 0 /\ u.minute = 0 /\ DaysBefore(u) = DaysBefore(t) + 1
      BY <2>1, NextDayFields, NextDayCounts
    <2>3. t.minute = Minutes - 1 /\ t.hour = Hours - 1
      BY <1>1, <1>5, Units
    <2>4. HourOf(u) = HourOf(t) + 1
      BY <1>1, <2>2, <2>3, Units, RadixCarry DEF HourOf
    <2>5. MinuteOf(u) = MinuteOf(t) + 1
      BY <1>1, <2>2, <2>3, <2>4, Units, RadixCarry DEF MinuteOf
    <2>6. Stamp(u) = Stamp(t) + Seconds
      BY <1>1, <1>2, <2>5, MinuteLater
    <2>7. ASSUME u \notin Moments
          PROVE  Stamp(u) = Cardinality(Dates) * Hours * Minutes * Seconds
      <3>1. DaysBefore(u) = Cardinality(Dates)
        BY <2>1, <2>7, NextDayEnds
      <3>2. Cardinality(Dates) \in Nat
        BY DatesFinite, FS_CardinalityType
      <3>3. HourOf(u) = Cardinality(Dates) * Hours
        BY <2>2, <3>1, <3>2, Units DEF HourOf
      <3>4. HourOf(u) \in Nat
        BY <2>2, StampType
      <3>5. MinuteOf(u) = HourOf(u) * Minutes
        BY <2>2, <3>4, Units DEF MinuteOf
      <3> QED
        BY <1>2, <3>3, <3>5
    <2> QED
      BY <2>6, <2>7
  <1> QED
    BY <1>3, <1>4, <1>5

-----------------------------------------------------------------------------
(* What holds at every iteration: the search is n minutes after the minute *)
(* it began in, and whatever the expression names is still ahead.  The     *)
(* checked properties speak of the end only.                               *)
OnTime == Stamp(dt) = (after - (after % Seconds)) + n * Seconds

NoneBehind == \A t \in Named : Stamp(dt) <= Stamp(t)

Ended ==
    /\ result = "found" => Hits /\ n < Horizon
    /\ result = "none" => n = Horizon

FromStart ==
    \E t \in Starts : Stamp(t) = after - (after % Seconds)

IInv == TypeOK /\ FromStart /\ OnTime /\ NoneBehind /\ Ended

LEMMA InitInv == Init => IInv
  <1> SUFFICES ASSUME Init PROVE IInv
    OBVIOUS
  <1>1. dt \in Moments /\ dt \in Clocks
    BY ClockAssumption, MomentFields DEF Init
  <1>2. PICK second \in 0..Seconds - 1 : after = Stamp(dt) + second
    BY DEF Init
  <1>3. MinuteOf(dt) \in Nat /\ Stamp(dt) = MinuteOf(dt) * Seconds /\ Stamp(dt) \in Nat
    BY <1>1, StampType
  <1>4. after % Seconds = second
    BY <1>2, <1>3, Units, RadixRemainder
  <1>5. after \in Nat /\ Stamp(dt) = after - (after % Seconds)
    <2>1. Stamp(dt) \in Nat /\ second \in Nat
      BY <1>3, Units
    <2>2. after \in Nat /\ Stamp(dt) = after - second
      BY <1>2, <2>1
    <2> QED
      BY <1>4, <2>2
  <1>6. TypeOK
    BY <1>1, <1>5, Units DEF Init, TypeOK
  <1>7. FromStart
    BY <1>5 DEF Init, FromStart
  <1>8. OnTime
    <2>1. n = 0 /\ 0 * Seconds = 0
      BY Units DEF Init
    <2> QED
      BY <1>3, <1>5, <2>1 DEF OnTime
  <1>9. NoneBehind
    <2> SUFFICES ASSUME NEW t \in Named PROVE Stamp(dt) <= Stamp(t)
      BY DEF NoneBehind
    <2>1. t \in Moments /\ Stamp(t) > after
      BY DEF Named
    <2>2. Stamp(t) \in Nat
      BY <2>1, MomentFields, StampType
    <2> QED
      BY <1>2, <1>3, <1>5, <2>1, <2>2
  <1>10. Ended
    BY DEF Init, Ended
  <1> QED
    BY <1>6, <1>7, <1>8, <1>9, <1>10 DEF IInv

(* A step onwards stays on the calendar and passes nothing named.          *)
LEMMA AdvanceInv == IInv /\ Advance => IInv'
  <1> SUFFICES ASSUME IInv, Advance PROVE IInv'
    OBVIOUS
  <1>1. TypeOK /\ FromStart /\ OnTime /\ NoneBehind
    BY DEF IInv
  <1>2. /\ result = "searching" /\ n < Horizon /\ ~Hits
        /\ dt' = After(dt) /\ n' = n + 1
        /\ expr' = expr /\ after' = after /\ result' = result
    BY DEF Advance, After
  <1>3. dt \in Moments /\ after \in Nat /\ n \in 0..Horizon /\ expr \in Expressions
    BY <1>1 DEF TypeOK
  <1>4. dt \in Clocks /\ Stamp(dt) \in Nat
    BY <1>3, MomentFields, StampType
  <1>5. /\ Stamp(After(dt)) = Stamp(dt) + Seconds
        /\ \/ After(dt) \in Moments
           \/ Stamp(After(dt)) = Cardinality(Dates) * Hours * Minutes * Seconds
    BY <1>3, AfterCounts
  <1> DEFINE begin == after - (after % Seconds)
             end == Cardinality(Dates) * Hours * Minutes * Seconds
  <1>6. begin \in Int
    BY <1>3, Units
  <1>7. Stamp(dt) = begin + n * Seconds
    BY <1>1 DEF OnTime
  <1> HIDE DEF begin, end
  <1>8. Stamp(After(dt)) = begin + (n + 1) * Seconds
    BY <1>3, <1>5, <1>6, <1>7, Units
  <1>9. After(dt) \in Moments
    <2>1. begin + Horizon * Seconds < end
      BY <1>1, ClockAssumption DEF FromStart, begin, end
    <2>2. (n + 1) * Seconds <= Horizon * Seconds
      BY <1>2, <1>3, Units, ProductOrder
    <2>3. end \in Int
      <3>1. Cardinality(Dates) \in Nat
        BY DatesFinite, FS_CardinalityType
      <3>2. Cardinality(Dates) * Hours \in Nat
        BY <3>1, Units
      <3>3. Cardinality(Dates) * Hours * Minutes \in Nat
        BY <3>2, Units
      <3> QED
        BY <3>3, Units DEF end
    <2>4. (n + 1) * Seconds \in Int /\ Horizon * Seconds \in Int
      BY <1>3, Units
    <2>5. begin + (n + 1) * Seconds # end
      BY <1>6, <2>1, <2>2, <2>3, <2>4
    <2> QED
      BY <1>5, <1>8, <2>5 DEF end
  <1>10. TypeOK'
    BY <1>2, <1>3, <1>9, Units DEF TypeOK
  <1>11. FromStart'
    BY <1>1, <1>2 DEF FromStart
  <1>12. OnTime'
    <2>1. Stamp(dt') = begin + (n + 1) * Seconds
      BY <1>2, <1>8
    <2> QED
      BY <1>2, <2>1 DEF OnTime, Stamp, DaysBefore, IsBefore, begin
  <1>13. NoneBehind'
    <2>1. Named' = Named
      BY <1>2 DEF Named
    <2> SUFFICES ASSUME NEW t \in Named PROVE Stamp(After(dt)) <= Stamp(t)
      BY <1>2, <2>1 DEF NoneBehind
    <2>2. t \in Moments /\ Stamp(t) > after /\ Matches(expr, t)
      BY DEF Named
    <2>3. t \in Clocks /\ Stamp(t) \in Nat
      BY <2>2, MomentFields, StampType
    <2>4. Stamp(dt) <= Stamp(t)
      BY <1>1 DEF NoneBehind
    <2>5. Stamp(dt) # Stamp(t)
      <3>1. SUFFICES ASSUME Stamp(dt) = Stamp(t) PROVE FALSE
        OBVIOUS
      <3>2. dt = t
        BY <1>3, <2>2, <3>1, StampIsOneToOne
      <3> QED
        BY <1>2, <2>2, <3>2 DEF Hits
    <2>6. Stamp(dt) < Stamp(t)
      BY <1>4, <2>3, <2>4, <2>5
    <2> QED
      BY <1>4, <1>5, <2>3, <2>6, StampsAreMinutes
  <1>14. Ended'
    BY <1>2 DEF Ended
  <1> QED
    BY <1>10, <1>11, <1>12, <1>13, <1>14 DEF IInv

LEMMA StillInv ==
  ASSUME IInv, UNCHANGED <<expr, after, dt, n>>,
         result' \in {"searching", "found", "none"},
         result' = "found" => Hits /\ n < Horizon,
         result' = "none" => n = Horizon
  PROVE  IInv'
  <1>1. TypeOK'
    BY DEF IInv, TypeOK
  <1>2. FromStart' /\ OnTime'
    BY DEF IInv, FromStart, OnTime
  <1>3. NoneBehind'
    BY DEF IInv, NoneBehind, Named
  <1>4. Ended'
    BY DEF Ended, Hits
  <1> QED
    BY <1>1, <1>2, <1>3, <1>4 DEF IInv

LEMMA NextInv == IInv /\ [Next]_vars => IInv'
  <1> SUFFICES ASSUME IInv, [Next]_vars PROVE IInv'
    OBVIOUS
  <1>1. CASE Find
    BY <1>1, StillInv DEF Find
  <1>2. CASE Advance
    BY <1>2, AdvanceInv
  <1>3. CASE GiveUp
    BY <1>3, StillInv DEF GiveUp
  <1>4. CASE UNCHANGED vars
    BY <1>4, StillInv DEF vars, IInv, TypeOK, Ended
  <1> QED
    BY <1>1, <1>2, <1>3, <1>4 DEF Next

LEMMA SpecInv == Spec => []IInv
  BY InitInv, NextInv, PTL DEF Spec

(* The search never makes up a date: every minute it comes to is one of    *)
(* the calendar, whatever the lengths of the months.                       *)
THEOREM SearchStaysOnDates == Spec => []TypeOK
  <1>1. IInv => TypeOK
    BY DEF IInv
  <1> QED
    BY <1>1, SpecInv, PTL

(* What next_cron_match returns is named, and nothing named lies between.  *)
THEOREM SearchFindsTheFirst == Spec => []FoundIsFirst
  <1>1. IInv => FoundIsFirst
    BY DEF IInv, FoundIsFirst, TypeOK, NoneBehind, Ended, Named, Hits
  <1> QED
    BY <1>1, SpecInv, PTL

(* It returns None only when nothing is named in the minutes it looked at. *)
THEOREM SearchGivesUpLate == Spec => []NoneIsFar
  <1>1. IInv => NoneIsFar
    BY DEF IInv, NoneIsFar, NoneBehind, Ended, OnTime
  <1> QED
    BY <1>1, SpecInv, PTL

-----------------------------------------------------------------------------
(* The scheduler's reading of the search: the times that an expression     *)
(* names, and those of them a search can come to.                          *)
Slots == {Stamp(t) : t \in {m \in Moments : Matches(expr, m)}}

InReach(s) == s < (after - (after % Seconds)) + Horizon * Seconds

(* Whether a task is due at a given time, as check_and_run decides it from *)
(* the outcome of the search: if and only if one of the times its          *)
(* expression names is after the last run, not past that time, and within  *)
(* reach of the search.  This is what DueSlots of Scheduler takes it for.  *)
DecidesDue ==
    result # "searching" =>
        \A at \in Nat :
            (result = "found" /\ Stamp(dt) <= at) <=>
                \E s \in Slots : after < s /\ s <= at /\ InReach(s)

LEMMA SlotsAreNamed ==
  ASSUME NEW s
  PROVE  s \in Slots /\ after < s <=> \E t \in Named : s = Stamp(t) /\ after < s
  <1>1. ASSUME NEW t \in Moments
        PROVE  Stamp(t) \in Nat
    BY MomentFields, StampType
  <1> QED
    BY <1>1 DEF Slots, Named

LEMMA InvDecides == IInv => DecidesDue
  <1> SUFFICES ASSUME IInv, result # "searching", NEW at \in Nat
               PROVE  (result = "found" /\ Stamp(dt) <= at) <=>
                          \E s \in Slots : after < s /\ s <= at /\ InReach(s)
    BY DEF DecidesDue
  <1> DEFINE begin == after - (after % Seconds)
  <1>1. /\ dt \in Moments /\ after \in Nat /\ n \in Nat /\ Horizon \in Nat
        /\ Seconds \in Nat \ {0} /\ begin \in Int
    BY Units DEF IInv, TypeOK
  <1>2. Stamp(dt) = begin + n * Seconds /\ \A t \in Named : Stamp(dt) <= Stamp(t)
    BY DEF IInv, OnTime, NoneBehind
  <1>3. ASSUME NEW t \in Moments
        PROVE  Stamp(t) \in Nat
    BY MomentFields, StampType
  <1> HIDE DEF begin
  <1>4. CASE result = "found"
    <2>1. Stamp(dt) > after /\ Matches(expr, dt) /\ n < Horizon
      BY <1>4 DEF IInv, Ended, Hits
    <2>2. Stamp(dt) \in Slots
      BY <1>1, <2>1 DEF Slots
    <2>3. InReach(Stamp(dt))
      <3>1. n * Seconds < Horizon * Seconds
        BY <1>1, <2>1
      <3>2. n * Seconds \in Int /\ Horizon * Seconds \in Int
        BY <1>1
      <3>3. Stamp(dt) < begin + Horizon * Seconds
        BY <1>1, <1>2, <3>1, <3>2
      <3> QED
        BY <3>3 DEF InReach, begin
    <2>4. ASSUME NEW s \in Slots, after < s, s <= at
          PROVE  Stamp(dt) <= at
      <3>1. PICK t \in Named : s = Stamp(t)
        BY <2>4, SlotsAreNamed
      <3>2. Stamp(dt) <= Stamp(t) /\ Stamp(t) <= at
        BY <1>2, <2>4, <3>1
      <3>3. Stamp(dt) \in Nat /\ Stamp(t) \in Nat
        BY <1>1, <1>3 DEF Named
      <3> QED
        BY <3>2, <3>3
    <2>5. after < Stamp(dt)
      BY <1>1, <1>3, <2>1
    <2> QED
      BY <1>4, <2>2, <2>3, <2>4, <2>5
  <1>5. CASE result # "found"
    <2>1. n = Horizon
      BY <1>5 DEF IInv, TypeOK, Ended
    <2>2. ASSUME NEW s \in Slots, after < s, InReach(s)
          PROVE  FALSE
      <3>1. PICK t \in Named : s = Stamp(t)
        BY <2>2, SlotsAreNamed
      <3>2. begin + Horizon * Seconds <= s
        BY <1>2, <2>1, <3>1
      <3>3. s < begin + Horizon * Seconds
        BY <2>2 DEF InReach, begin
      <3>4. s \in Nat /\ Horizon * Seconds \in Int
        BY <1>1, <1>3, <3>1 DEF Named
      <3> QED
        BY <1>1, <3>2, <3>3, <3>4
    <2> QED
      BY <1>5, <2>2
  <1> QED
    BY <1>4, <1>5

(* What DueSlots of Scheduler makes of the search is what the search does: *)
(* a task counts as due exactly when a time its expression names lies      *)
(* between its last run and now, unless that is out of the search's reach. *)
THEOREM SearchDecidesDue == Spec => []DecidesDue
  BY InvDecides, SpecInv, PTL
=============================================================================
