-------------------------------- MODULE Cron --------------------------------
(***************************************************************************)
(* next_cron_match: the search for the next minute that a cron expression  *)
(* names.  It goes minute by minute from that of a given time, carries     *)
(* into hour, day, month and year by hand, and gives up at a horizon.      *)
(*                                                                         *)
(* The calendar is a parameter: how long an hour, a day, a week and each   *)
(* month are.                                                              *)
(***************************************************************************)
EXTENDS Integers, FiniteSets

CONSTANTS
    Expressions,    \* a set of parts for each of the five fields
    Star,           \* an end that a part leaves open
    Seconds, Minutes, Hours, Weekdays,  \* in a minute, an hour, a day, a week
    Years, Months,  \* numbered from 1
    Length,         \* <<year, month>> -> its days: calendar.monthrange
    Horizon,        \* iterations of the search, 525600 in the code
    Starts          \* minutes of the calendar to search from

ASSUME CronAssumption ==
    /\ {Seconds, Minutes, Hours, Weekdays, Years, Months} \subseteq Nat \ {0}
    /\ Length \in [(1..Years) \X (1..Months) -> 1..31]
    /\ Horizon \in Nat

VARIABLES
    expr,       \* the expression
    after,      \* the time to search from, in seconds
    dt,         \* the minute the search is at
    n,          \* iterations done
    result      \* searching, found or none

vars == <<expr, after, dt, n, result>>

-----------------------------------------------------------------------------
(* The datetime of the library: its valid dates, in years 1..Years, the    *)
(* timestamp of a minute and the weekday, counted from the first day.      *)

Dates ==
    {date \in (1..Years) \X (1..Months) \X (1..31) :
        date[3] <= Length[<<date[1], date[2]>>]}

Moments ==
    {t \in [year : 1..Years, month : 1..Months, day : 1..31,
            hour : 0..Hours - 1, minute : 0..Minutes - 1] :
        t.day <= Length[<<t.year, t.month>>]}

IsBefore(date, t) ==
    \/ date[1] < t.year
    \/ date[1] = t.year /\ date[2] < t.month
    \/ date[1] = t.year /\ date[2] = t.month /\ date[3] < t.day

DaysBefore(t) == Cardinality({date \in Dates : IsBefore(date, t)})

Stamp(t) == ((DaysBefore(t) * Hours + t.hour) * Minutes + t.minute) * Seconds

Weekday(t) == DaysBefore(t) % Weekdays

(* The library ends in the year 9999, further from the server's clock than *)
(* a search goes: none comes to the last minute of the calendar.           *)
ASSUME ClockAssumption ==
    /\ Starts \subseteq Moments
    /\ \A t \in Starts :
          Stamp(t) + Horizon * Seconds < Cardinality(Dates) * Hours * Minutes * Seconds

-----------------------------------------------------------------------------
(* _parse_cron_field: N goes from N to N, "*" and "N/K" have open ends.    *)
Values(part, lo, hi) ==
    LET a == IF part.from = Star THEN lo ELSE part.from
        b == IF part.to = Star THEN hi ELSE part.to
    IN  {v \in a..b : (v - a) % part.step = 0}

Field(parts, lo, hi) == UNION {Values(p, lo, hi) : p \in parts}

(* cron_matches: all five fields, with the weekday of Monday being 0.      *)
Matches(e, t) ==
    /\ t.minute \in Field(e.minute, 0, Minutes - 1)
    /\ t.hour \in Field(e.hour, 0, Hours - 1)
    /\ t.day \in Field(e.day, 1, 31)
    /\ t.month \in Field(e.month, 1, Months)
    /\ Weekday(t) \in Field(e.weekday, 0, Weekdays - 1)

Init ==
    /\ expr \in Expressions
    /\ dt \in Starts
    /\ \E second \in 0..Seconds - 1 : after = Stamp(dt) + second
    /\ n = 0
    /\ result = "searching"

-----------------------------------------------------------------------------
(* Mutated: a time that matches is its own next.                           *)
HitsAtOnce == Stamp(dt) + Seconds > after /\ Matches(expr, dt)

Hits == Stamp(dt) > after /\ Matches(expr, dt)

Find ==
    /\ result = "searching"
    /\ n < Horizon
    /\ Hits
    /\ result' = "found"
    /\ UNCHANGED <<expr, after, dt, n>>

(* The minute after t, while it is in the same hour, day or month.         *)
NextMinute(t) == [t EXCEPT !.minute = @ + 1]
NextHour(t) == [t EXCEPT !.minute = 0, !.hour = @ + 1]

(* Mutated: a month is taken to have a day more.                           *)
EndOfMonthLate(t) == t.day = Length[<<t.year, t.month>>] + 1

EndOfMonth(t) == t.day = Length[<<t.year, t.month>>]

(* Mutated: the year stays the same.                                       *)
NextDaySameYear(t) ==
    IF ~EndOfMonth(t)
    THEN [t EXCEPT !.minute = 0, !.hour = 0, !.day = @ + 1]
    ELSE [t EXCEPT !.minute = 0, !.hour = 0, !.day = 1,
                   !.month = IF @ < Months THEN @ + 1 ELSE 1]

NextDay(t) ==
    IF ~EndOfMonth(t)
    THEN [t EXCEPT !.minute = 0, !.hour = 0, !.day = @ + 1]
    ELSE [t EXCEPT !.minute = 0, !.hour = 0, !.day = 1,
                   !.month = IF @ < Months THEN @ + 1 ELSE 1,
                   !.year = IF t.month < Months THEN @ ELSE @ + 1]

Advance ==
    /\ result = "searching"
    /\ n < Horizon
    /\ ~Hits
    /\ dt' = IF dt.minute < Minutes - 1 THEN NextMinute(dt)
             ELSE IF dt.hour < Hours - 1 THEN NextHour(dt)
             ELSE NextDay(dt)
    /\ n' = n + 1
    /\ UNCHANGED <<expr, after, result>>

GiveUp ==
    /\ result = "searching"
    /\ n = Horizon
    /\ result' = "none"
    /\ UNCHANGED <<expr, after, dt, n>>

Next == Find \/ Advance \/ GiveUp

Spec == Init /\ [][Next]_vars

-----------------------------------------------------------------------------
(* The search stays on valid dates.                                        *)
TypeOK ==
    /\ expr \in Expressions
    /\ after \in Nat
    /\ dt \in Moments
    /\ n \in 0..Horizon
    /\ result \in {"searching", "found", "none"}

(* The times after the given one that the expression names.                *)
Named == {t \in Moments : Stamp(t) > after /\ Matches(expr, t)}

(* What the search returns is the first time after the given one that the  *)
(* expression names: no carry skips a minute or makes one up.              *)
FoundIsFirst ==
    result = "found" =>
        /\ dt \in Named
        /\ \A t \in Named : Stamp(dt) <= Stamp(t)

(* The search gives up only when nothing is named within Horizon minutes   *)
(* of the minute it began in: no carry loses a day, a month or a year.     *)
NoneIsFar ==
    result = "none" =>
        \A t \in Named : Stamp(t) >= (after - (after % Seconds)) + Horizon * Seconds
=============================================================================
