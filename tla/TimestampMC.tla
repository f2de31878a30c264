---------------------------- MODULE TimestampMC ----------------------------
EXTENDS Timestamp

Day(y, m, d) == [year |-> y, month |-> m, day |-> d]

\* The ends of the years, the leap day, the days at both ends of what the
\* finer clock reaches, and a day that does not exist.
SomeDates ==
    {Day(0, 1, 1), Day(0, 2, 29), Day(0, 10, 11), Day(1, 3, 23), Day(2, 12, 31),
     Day(1, 2, 29)}

SomeTimes == {<<0, 0, 0>>, <<1, 1, 1>>}

SomeZones == {<<1, 1>>, <<-1, 1>>}

\* A digit behind a zero, and one too many.
SomeFractions == {<<0, 9, 9>>}

\* The ends of the clock, points next to the epoch and to the ends of the
\* years as the coarser clock counts, and one of a year that wraps into them.
SomePoints ==
    {-Width, -Width + 1, -1, 0, 1, Width - 1,
     2 * FirstSecond - 1, 2 * FirstSecond, 2 * EndSecond - 1, 2 * EndSecond,
     2 * (YearStart(2 * YearWidth) - YearStart(EpochYear) + 1) * SecondsPerDay + 1}

SomeAmounts ==
    {0, -1, SecondsPerDay, Width - 1, -Width, Width \div 2, -(Width \div 2)}

SomeSteps == {1}
=============================================================================
