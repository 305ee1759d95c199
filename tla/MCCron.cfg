SPECIFICATION Spec
CONSTANTS
    Star = Star
    Expressions <- SomeExpressions
    Seconds = 2
    Minutes = 2
    Hours = 2
    Weekdays = 3
    Years = 3
    Months = 2
    Length <- ShortMonths
    Horizon = 20
    Starts <- FirstTwoYears
CHECK_DEADLOCK FALSE
INVARIANTS
    TypeOK
    FoundIsFirst
    NoneIsFar
