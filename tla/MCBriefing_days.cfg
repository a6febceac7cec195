SPECIFICATION Spec
CONSTANTS
    NumItems = 2
    Youtube <- Both
    Shadow = FALSE
    DayLen = 2
    RetryDays = 1
    RetentionDays = 2
    MaxClock = 5
    MaxRuns = 3
    MaxAborts = 1
INVARIANTS TypeOK JudgedIsShown FetchedIsTried NothingLost VerdictOfTheDay
PROPERTY ImplementsItemLife
CHECK_DEADLOCK FALSE
