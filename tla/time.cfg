SPECIFICATION Spec
CONSTANTS
    None = None
    LastYear = 2
    EpochYear = 1
    YearWidth = 4
    Width = 65536
    HoursPerDay = 2
    MinutesPerHour = 2
    SecondsPerMinute = 2
    FractionDigits = 2
    Ticks = {2, 100}
    Dates <- SomeDates
    Times <- SomeTimes
    Zones <- SomeZones
    Fractions <- SomeFractions
    Points <- SomePoints
    Amounts <- SomeAmounts
    Steps <- SomeSteps
INVARIANTS StaysInTheYears DurationsAreExact ClockIsExact TextReadsBack
CHECK_DEADLOCK FALSE
