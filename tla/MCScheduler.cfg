SPECIFICATION Spec
CONSTANTS
    t1 = t1
    m1 = m1
    often = often
    seldom = seldom
    Loop = Loop
    Tasks <- OneTask
    Manual <- OneManual
    Schedules <- TwoSchedules
    Slots <- Times
    LookBack = 1
    Minute = 1
    Horizon = 2
    Interval = 1
    MaxFailures = 2
    MaxTime = 3
    MaxRestarts = 2
CONSTRAINT FewRecords
INVARIANTS
    TypeOK
    ServedOnce
    CountedFailuresHappened
    DisabledHasFailed
    StaleRunsOnce
    PendingExplained
CHECK_DEADLOCK FALSE
