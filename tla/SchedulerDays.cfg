\* Two days, a holiday, late ticks, a dependent task listed first, starts, stops and crashes one after another.
CONSTANTS
    NumTasks = 2
    Time <- ChainTime
    DependsOn <- ChainDependsOn
    Condition <- ChainCondition
    LastDay = 2
    DayLen = 6
    Window = 2
    TickGap = 2
    Weekdays <- BothDays
    Holidays <- SecondDay
    FirstDays <- BothDays
    YearOf <- OneYear
    FileYears <- AnyYear
    Pids <- TwoPids
    Serial = TRUE
SPECIFICATION Spec
INVARIANTS OncePerInstance NoMissedWindow PredecessorFirst UpIsFindable
PROPERTIES DayEndsDone
\* The calendar and the processes run out.
CHECK_DEADLOCK FALSE
