\* A zone west of UTC whose clock is set back once.
CONSTANTS
    MinutesPerHour = 2
    HoursPerDay = 3
    DaysPerWeek = 3
    MonthLengths <- TwoMonths
    CronSearchYears = 2
    Exprs <- SomeExprs
    Zones <- WestOfUTC
    Intervals = {1, 4}
    StartTimes = {7}
    MaxMinutes = 16
SPECIFICATION SchedulesSpec
INVARIANT DueIsAhead
CHECK_DEADLOCK FALSE
