------------------------------- MODULE MCCron -------------------------------
(* A year of two months and, in the leap year, six days, of two hours of   *)
(* two minutes each; a week of three days.  The search starts anywhere in  *)
(* the first two years and its horizon is a common year.                   *)
EXTENDS Cron

From(a, b, k) == [from |-> a, to |-> b, step |-> k]
Any == {From(Star, Star, 1)}
Only(v) == {From(v, v, 1)}

ShortMonths == [ym \in (1..3) \X (1..2) |->
    IF ym[2] = 1 THEN 2 ELSE IF ym[1] = 2 THEN 4 ELSE 3]

SomeExpressions ==
    [minute : {Any, Only(1), {From(Star, Star, 2)}},
     hour : {Any, Only(0)},
     day : {Any, {From(2, Star, 2)}, {From(1, 1, 1), From(3, 4, 1)}},
     month : {Any, Only(1)},
     weekday : {Any, Only(0), Only(4)}]

FirstTwoYears == {t \in Moments : t.year <= 2}
=============================================================================
