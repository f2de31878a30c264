---------------------------- MODULE TimestampProofs ----------------------------
(***************************************************************************)
(* Theorems of Timestamp, for any units, widths, years and clocks.         *)
(***************************************************************************)
EXTENDS Timestamp, DigitsProofs

-----------------------------------------------------------------------------
(* The units.                                                              *)

LEMMA UnitsFacts ==
    /\ SecondsPerMinute \in Nat \ {0} /\ MinutesPerHour \in Nat \ {0} /\ HoursPerDay \in Nat \ {0}
    /\ SecondsPerHour \in Nat \ {0} /\ SecondsPerDay \in Nat \ {0} /\ MaxOffset \in Nat
    /\ \A unit \in Units : SecondsIn(unit) \in Nat \ {0}
    /\ FirstSecond \in Int /\ EndSecond \in Int
  <1>1. SecondsPerMinute \in Nat \ {0} /\ MinutesPerHour \in Nat \ {0} /\ HoursPerDay \in Nat \ {0}
    BY ConstantsAssumption
  <1>2. \A a, b \in Nat \ {0} : a * b \in Nat \ {0}
    <2> SUFFICES ASSUME NEW a \in Nat \ {0}, NEW b \in Nat \ {0} PROVE a * b \in Nat \ {0}
      OBVIOUS
    <2> QED  BY Nested
  <1>3. SecondsPerHour \in Nat \ {0}
    BY <1>1, <1>2 DEF SecondsPerHour
  <1>4. SecondsPerDay \in Nat \ {0}
    BY <1>1, <1>2, <1>3 DEF SecondsPerDay
  <1>5. MaxOffset \in Nat
    <2>1. HoursPerDay - 1 \in Nat /\ MinutesPerHour \in Nat
      BY <1>1
    <2>2. (HoursPerDay - 1) * MinutesPerHour \in Nat
      BY <2>1
    <2> QED  BY <1>1, <2>2 DEF MaxOffset
  <1>6. \A unit \in Units : SecondsIn(unit) \in Nat \ {0}
    BY <1>1, <1>3 DEF Units, SecondsIn
  <1>7. FirstSecond \in Int /\ EndSecond \in Int
    <2>1. \A y \in Int : YearStart(y) \in Int
      BY DEF YearStart
    <2>2. YearStart(0) - YearStart(EpochYear) \in Int /\ YearStart(LastYear + 1) - YearStart(EpochYear) \in Int
      BY <2>1, ConstantsAssumption
    <2> QED  BY <1>4, <2>2, TimesIsInt DEF FirstSecond, EndSecond
  <1> QED  BY <1>1, <1>3, <1>4, <1>5, <1>6, <1>7

\* A clock's tick is a whole number of nanoseconds.
LEMMA TicksFacts ==
    ASSUME ticks \in Ticks
    PROVE  /\ Nanos \in Nat \ {0} /\ ticks \in Nat \ {0} /\ NanosPerTick \in Nat \ {0}
           /\ Nanos = ticks * NanosPerTick /\ ticks <= Nanos /\ Nanos < Width /\ Width \in Nat
  <1>1. Nanos \in Int
    BY ConstantsAssumption, PowerOfTenIs DEF Nanos
  <1>2. ticks \in 1..Nanos /\ Nanos % ticks = 0 /\ Width > Nanos /\ Width \in Int
    BY ConstantsAssumption, InputsAssumption DEF Nanos
  <1>3. Nanos \in Nat \ {0} /\ ticks \in Nat \ {0}
    BY <1>1, <1>2
  <1>4. PICK n, t, p : n = Nanos /\ t = ticks /\ p = n \div t
    OBVIOUS
  <1>5. p \in Int /\ n = p * t
    BY <1>2, <1>3, <1>4, DivFacts
  <1>6. p \in Nat \ {0}
    <2>1. n \in Int /\ t \in Nat \ {0} /\ 1 * t <= n
      BY <1>2, <1>3, <1>4
    <2>2. 1 <= n \div t
      BY <2>1, DivFacts
    <2> QED  BY <1>4, <1>5, <2>2
  <1>7. NanosPerTick = p /\ p * t = t * p
    BY <1>3, <1>4, <1>6 DEF NanosPerTick
  <1> QED  BY <1>2, <1>3, <1>4, <1>5, <1>6, <1>7

-----------------------------------------------------------------------------
(* The calendar.                                                           *)

LEMMA YearsGrow ==
    /\ \A y \in Int : YearStart(y) \in Int
    /\ \A y, z \in Int : y < z <=> YearStart(y) < YearStart(z)
    /\ YearStart(0) = 0
    /\ \A y \in Int : YearStart(y + 1) = YearStart(y) + IF IsLeap(y) THEN 366 ELSE 365
  <1>1. \A y, z \in Int : y < z <=> YearStart(y) < YearStart(z)
    BY DEF YearStart
  <1>2. \A y \in Int : YearStart(y + 1) = YearStart(y) + IF IsLeap(y) THEN 366 ELSE 365
    BY DEF YearStart, IsLeap
  <1> QED  BY <1>1, <1>2 DEF YearStart

\* The ends of the years.
LEMMA YearEnds ==
    /\ LastYear \in Nat /\ LastYear + 1 \in Int
    /\ YearStart(LastYear + 1) \in Int /\ YearStart(EpochYear) \in Int /\ YearStart(0) = 0
  <1>1. LastYear \in Nat /\ LastYear + 1 \in Int /\ EpochYear \in Int
    BY ConstantsAssumption
  <1> QED  BY <1>1, YearsGrow

\* Each day from the year 0 on is in the year DateFromDays() finds.
LEMMA YearOfDay ==
    ASSUME NEW since \in Nat
    PROVE  \E y \in (since \div 366 - 2)..(since \div 366 + 2 + since \div 50000) :
              YearStart(y) <= since /\ since < YearStart(y + 1)
  <1>1. PICK q \in Int : q = (400 * since) \div 146097
    OBVIOUS
  <1>2. q * 146097 <= 400 * since /\ 400 * since < (q + 1) * 146097
    BY <1>1
  <1>3. YearStart(q - 1) <= since /\ since < YearStart(q + 2)
    BY <1>2 DEF YearStart
  <1>4. PICK y \in {q - 1, q, q + 1} : YearStart(y) <= since /\ since < YearStart(y + 1)
    <2>1. (q - 1) + 1 = q /\ (q + 1) + 1 = q + 2
      OBVIOUS
    <2>2. YearStart(q) \in Int /\ YearStart(q + 1) \in Int
      BY YearsGrow
    <2> QED  BY <1>3, <2>1, <2>2
  <1>5. y \in Int /\ since \div 366 - 2 <= y /\ y <= since \div 366 + 2 + since \div 50000
    <2>1. y \in Int /\ q - 1 <= y /\ y <= q + 1
      BY <1>4
    <2>2. since \div 366 - 1 <= q
      BY <1>2
    <2>3. q <= since \div 366 + 1 + since \div 50000
      BY <1>2
    <2> QED  BY <2>1, <2>2, <2>3
  <1> QED  BY <1>4, <1>5

\* And each day of a year is in one of its months.
LEMMA MonthOfDay ==
    ASSUME NEW y \in Int, NEW rest \in Nat, rest < IF IsLeap(y) THEN 366 ELSE 365
    PROVE  \E m \in 1..12 : MonthStart(y, m) <= rest /\ rest < MonthStart(y, m) + DaysOf(y, m)
  <1>1. CASE IsLeap(y)
    BY <1>1 DEF MonthStart, DaysOf
  <1>2. CASE ~IsLeap(y)
    BY <1>2 DEF MonthStart, DaysOf
  <1> QED  BY <1>1, <1>2

\* The date of a day of the years is a date of them, and names that day.
LEMMA DateOfDay ==
    ASSUME NEW days \in Int, 0 <= days + YearStart(EpochYear),
           days + YearStart(EpochYear) < YearStart(LastYear + 1),
           NEW date, date = DateFromDays(days)
    PROVE  /\ date \in [year : 0..LastYear, month : 1..12, day : 1..31]
           /\ date.day <= DaysOf(date.year, date.month)
           /\ DaysFromDate(date) = days
  <1>1. PICK since \in Nat : since = days + YearStart(EpochYear)
    BY YearsGrow, ConstantsAssumption
  <1>2. PICK year : year = YearOf(since)
    OBVIOUS
  <1>3. year \in Int /\ YearStart(year) <= since /\ since < YearStart(year + 1)
    <2>1. \E y \in (since \div 366 - 2)..(since \div 366 + 2 + since \div 50000) :
              YearStart(y) <= since /\ since < YearStart(y + 1)
      BY YearOfDay
    <2>2. year \in (since \div 366 - 2)..(since \div 366 + 2 + since \div 50000)
          /\ YearStart(year) <= since /\ since < YearStart(year + 1)
      BY <1>2, <2>1 DEF YearOf
    <2> QED  BY <2>2
  <1>4. year \in 0..LastYear
    <2>1. LastYear \in Int /\ YearStart(0) <= since /\ since < YearStart(LastYear + 1)
      BY <1>1, YearsGrow, ConstantsAssumption
    <2>2. PICK last \in Int : last = LastYear + 1
      BY <2>1
    <2>3. /\ YearStart(year) \in Int /\ YearStart(year + 1) \in Int /\ YearStart(last) \in Int
          /\ YearStart(0) < YearStart(year + 1) /\ YearStart(year) < YearStart(last)
      BY <1>3, <2>1, <2>2, YearsGrow
    <2>4. 0 < year + 1 /\ year < last
      BY <1>3, <2>2, <2>3, YearsGrow
    <2> QED  BY <1>3, <2>1, <2>2, <2>4
  <1>5. PICK rest \in Nat : rest = since - YearStart(year)
    BY <1>3, YearsGrow
  <1>6. PICK month : month = MonthOf(year, rest)
    OBVIOUS
  <1>7. month \in 1..12 /\ MonthStart(year, month) <= rest /\ rest < MonthStart(year, month) + DaysOf(year, month)
    <2>1. rest < IF IsLeap(year) THEN 366 ELSE 365
      <3>1. YearStart(year + 1) = YearStart(year) + IF IsLeap(year) THEN 366 ELSE 365
        BY <1>3, YearsGrow
      <3>2. YearStart(year) \in Int
        BY <1>3, YearsGrow
      <3> QED  BY <1>3, <1>5, <3>1, <3>2
    <2>2. \E m \in 1..12 : MonthStart(year, m) <= rest /\ rest < MonthStart(year, m) + DaysOf(year, m)
      BY <1>3, <2>1, MonthOfDay
    <2> QED  BY <1>6, <2>2 DEF MonthOf
  <1>8. ((year + YearWidth) % (2 * YearWidth)) - YearWidth = year
    BY <1>4, ConstantsAssumption
  <1>9. date = [year |-> year, month |-> month, day |-> rest - MonthStart(year, month) + 1]
    BY <1>1, <1>2, <1>5, <1>6, <1>8 DEF DateFromDays
  <1>10. MonthStart(year, month) \in Int /\ DaysOf(year, month) \in 28..31
    BY <1>4, <1>7 DEF MonthStart, DaysOf
  <1>11. date.day \in 1..31 /\ date.day <= DaysOf(year, month)
    BY <1>7, <1>9, <1>10
  <1>12. DaysFromDate(date) = days
    BY <1>1, <1>3, <1>5, <1>9, <1>10, YearsGrow, ConstantsAssumption DEF DaysFromDate
  <1> QED  BY <1>4, <1>7, <1>9, <1>11, <1>12

-----------------------------------------------------------------------------
(* Timestamps.                                                             *)

\* What any operation leaves: a date that exists, at a time of its day.
ValidStamps == {stamp \in Stamps : stamp.date.day <= DaysOf(stamp.date.year, stamp.date.month)}

\* A day of the years, and the seconds of its date.
LEMMA DaysInYears ==
    ASSUME NEW date \in [year : 0..LastYear, month : 1..12, day : 1..31],
           date.day <= DaysOf(date.year, date.month)
    PROVE  /\ DaysFromDate(date) \in Int
           /\ YearStart(0) - YearStart(EpochYear) <= DaysFromDate(date)
           /\ DaysFromDate(date) < YearStart(LastYear + 1) - YearStart(EpochYear)
  <1>1. PICK y \in 0..LastYear, m \in 1..12, d \in 1..31 : y = date.year /\ m = date.month /\ d = date.day
    OBVIOUS
  <1>2. MonthStart(y, m) \in Nat /\ MonthStart(y, m) + d <= IF IsLeap(y) THEN 366 ELSE 365
    BY <1>1 DEF MonthStart, DaysOf
  <1>3. /\ YearStart(y) \in Int /\ YearStart(EpochYear) \in Int /\ YearStart(LastYear + 1) \in Int
        /\ YearStart(y + 1) = YearStart(y) + IF IsLeap(y) THEN 366 ELSE 365
        /\ 0 <= YearStart(y) /\ YearStart(y + 1) <= YearStart(LastYear + 1)
    <2>1. PICK last \in Int : last = LastYear + 1 /\ y + 1 <= last
      BY YearEnds
    <2>2. /\ YearStart(y) \in Int /\ YearStart(y + 1) \in Int /\ YearStart(last) \in Int
          /\ YearStart(y + 1) = YearStart(y) + IF IsLeap(y) THEN 366 ELSE 365
      BY <2>1, YearsGrow
    <2>3. YearStart(0) <= YearStart(y)
      <3>1. ~(YearStart(y) < YearStart(0))
        BY YearsGrow
      <3> QED  BY <2>2, <3>1, YearEnds
    <2>4. YearStart(y + 1) <= YearStart(last)
      <3>1. ~(YearStart(last) < YearStart(y + 1))
        BY <2>1, YearsGrow
      <3> QED  BY <2>2, <3>1
    <2> QED  BY <2>1, <2>2, <2>3, <2>4, YearEnds
  <1>4. DaysFromDate(date) = YearStart(y) + MonthStart(y, m) + d - 1 - YearStart(EpochYear)
    BY <1>1 DEF DaysFromDate
  <1> QED  BY <1>2, <1>3, <1>4, YearEnds

\* The parts of a timestamp that exists.
LEMMA StampFacts ==
    ASSUME Nanos \in Nat \ {0}, NEW stamp \in ValidStamps
    PROVE  /\ stamp.zone \in Int /\ Subseconds(stamp) \in 0..(Nanos - 1)
           /\ LocalSeconds(stamp) \in Int
           /\ FirstSecond <= LocalSeconds(stamp) /\ LocalSeconds(stamp) < EndSecond
  <1>1. /\ stamp.date \in [year : 0..LastYear, month : 1..12, day : 1..31]
        /\ stamp.date.day <= DaysOf(stamp.date.year, stamp.date.month)
        /\ stamp.time \in 0..(SecondsPerDay * Nanos - 1) /\ stamp.zone \in (-MaxOffset)..MaxOffset
    BY DEF ValidStamps, Stamps
  <1>2. PICK s \in Nat \ {0}, n \in Nat \ {0} : s = SecondsPerDay /\ n = Nanos
    BY UnitsFacts
  <1>3. s * n \in Int /\ stamp.time \in Nat /\ stamp.time < s * n /\ 0 * n = 0
    BY <1>1, <1>2, TimesIsInt
  <1>4. stamp.time \div n \in 0..(s - 1) /\ stamp.time % n \in 0..(n - 1)
    <2>1. PICK time \in Int : time = stamp.time
      BY <1>3
    <2>2. time \div n \in Int /\ time % n \in 0..(n - 1)
      BY DivFacts
    <2>3. 0 * n <= time /\ time < s * n
      BY <1>3, <2>1
    <2>4. 0 <= time \div n /\ time \div n < s
      BY <2>3, DivFacts
    <2> QED  BY <2>1, <2>2, <2>4
  <1>5. PICK d \in Int, a \in Int, b \in Int : /\ d = DaysFromDate(stamp.date)
                      /\ a = YearStart(0) - YearStart(EpochYear) /\ b = YearStart(LastYear + 1) - YearStart(EpochYear)
                      /\ a <= d /\ d < b
    <2>1. YearStart(0) \in Int /\ YearStart(EpochYear) \in Int /\ YearStart(LastYear + 1) \in Int
      BY YearEnds
    <2> QED  BY <1>1, <2>1, DaysInYears
  <1>6. a * s <= d * s /\ d * s + s <= b * s /\ a * s \in Int /\ d * s \in Int /\ b * s \in Int
    <2>1. a * s \in Int /\ d * s \in Int /\ b * s \in Int
      OBVIOUS
    <2>2. a * s <= d * s
      BY <1>5, TimesGrows
    <2>3. d * s + s <= b * s
      BY <1>5, TimesGrows
    <2> QED  BY <2>1, <2>2, <2>3
  <1>7. LocalSeconds(stamp) = d * s + stamp.time \div n /\ FirstSecond = a * s /\ EndSecond = b * s
    BY <1>2, <1>5 DEF LocalSeconds, FirstSecond, EndSecond
  <1>8. stamp.zone \in Int
    BY <1>1, UnitsFacts
  <1> QED  BY <1>2, <1>4, <1>6, <1>7, <1>8 DEF Subseconds

\* Setting the local time, within the years, names exactly that time.
LEMMA SetLocalIs ==
    ASSUME Nanos \in Nat \ {0}, NEW stamp \in Stamps, NEW local \in Int, NEW fraction \in 0..(Nanos - 1),
           FirstSecond <= local, local < EndSecond, NEW moved, moved = SetLocal(stamp, local, fraction)
    PROVE  /\ moved \in ValidStamps /\ moved.zone = stamp.zone
           /\ LocalSeconds(moved) = local /\ Subseconds(moved) = fraction
  <1>1. PICK s \in Nat \ {0}, n \in Nat \ {0} : s = SecondsPerDay /\ n = Nanos
    BY UnitsFacts
  <1>2. PICK d \in Int, r \in 0..(s - 1) : d = local \div s /\ r = local % s /\ local = d * s + r
    BY DivFacts
  <1>3. PICK date, time : date = DateFromDays(d) /\ time = r * n + fraction
    OBVIOUS
  <1>4. moved = [stamp EXCEPT !.date = date, !.time = time]
    BY <1>1, <1>2, <1>3 DEF SetLocal
  <1>5. 0 <= d + YearStart(EpochYear) /\ d + YearStart(EpochYear) < YearStart(LastYear + 1)
    <2>1. YearStart(0) = 0 /\ YearStart(EpochYear) \in Int /\ YearStart(LastYear + 1) \in Int
      BY YearEnds
    <2>2. PICK a \in Int, b \in Int : /\ a = YearStart(0) - YearStart(EpochYear)
                                      /\ b = YearStart(LastYear + 1) - YearStart(EpochYear)
      BY <2>1
    <2>3. a * s <= local /\ local < b * s
      BY <1>1, <2>2 DEF FirstSecond, EndSecond
    <2>4. a <= d /\ d < b
      BY <1>2, <2>3, DivFacts
    <2> QED  BY <2>1, <2>2, <2>4
  <1>6. /\ date \in [year : 0..LastYear, month : 1..12, day : 1..31]
        /\ date.day <= DaysOf(date.year, date.month) /\ DaysFromDate(date) = d
    BY <1>3, <1>5, DateOfDay
  <1>7. time \in 0..(s * n - 1)
    BY <1>1, <1>3, Nested
  <1>8. time \div n = r /\ time % n = fraction
    <2>1. r \in Int /\ fraction \in 0..(n - 1)
      BY <1>1
    <2> QED  BY <1>3, <2>1, DivIs
  <1>9. moved \in Stamps /\ moved.date = date /\ moved.time = time /\ moved.zone = stamp.zone
    BY <1>1, <1>4, <1>6, <1>7 DEF Stamps
  <1> QED  BY <1>1, <1>2, <1>6, <1>8, <1>9 DEF ValidStamps, LocalSeconds, Subseconds

\* A timestamp is something.
LEMMA NotNone == (\A stamp \in Stamps : stamp # None) /\ (\A n \in Int : n # None)
  BY InputsAssumption

-----------------------------------------------------------------------------
(* The integers of std::chrono.                                            *)

\* Truncation is toward zero, and compares as the product does.
LEMMA TruncatedIs ==
    ASSUME NEW x \in Int, NEW n \in Nat \ {0}, NEW q, q = Truncated(x, n)
    PROVE  /\ q \in Int
           /\ x >= 0 => q >= 0 /\ \A b \in Int : b <= q <=> b * n <= x
           /\ x <= 0 => q <= 0 /\ \A b \in Int : q <= b <=> x <= b * n
  <1>1. CASE x >= 0
    <2>1. q = x \div n
      BY <1>1 DEF Truncated
    <2>2. q \in Int /\ \A b \in Int : b <= q <=> b * n <= x
      BY <2>1, DivFacts
    <2>3. 0 * n = 0
      OBVIOUS
    <2>4. q >= 0
      BY <1>1, <2>2, <2>3
    <2>5. x = 0 => q = 0
      <3>1. ~(1 * n <= 0)
        OBVIOUS
      <3> QED  BY <2>2, <2>4, <3>1
    <2>6. x = 0 => \A b \in Int : q <= b <=> x <= b * n
      <3> SUFFICES ASSUME x = 0, NEW b \in Int PROVE 0 <= b <=> 0 <= b * n
        BY <2>5
      <3>1. 0 <= b <=> 0 * n <= b * n
        BY TimesGrows
      <3> QED  BY <2>3, <3>1
    <2> QED  BY <1>1, <2>2, <2>4, <2>5, <2>6
  <1>2. CASE x < 0
    <2>1. PICK y \in Int : y = -x /\ y >= 0
      BY <1>2
    <2>2. PICK p \in Int : p = y \div n
      BY DivFacts
    <2>3. q = -p
      BY <1>2, <2>1, <2>2 DEF Truncated
    <2>4. PICK zero \in Int : zero = 0 /\ zero * n <= y
      BY <2>1
    <2>5. 0 <= p
      <3>1. zero * n <= y <=> zero <= p
        BY <2>2, DivFacts
      <3> QED  BY <2>4, <3>1
    <2>6. ASSUME NEW b \in Int PROVE q <= b <=> x <= b * n
      <3>1. PICK c \in Int : c = -b
        OBVIOUS
      <3>2. c * n = -(b * n) /\ b * n \in Int /\ c * n \in Int
        BY <3>1
      <3>3. c * n <= y <=> c <= p
        BY <2>1, <2>2, DivFacts
      <3> QED  BY <2>1, <2>3, <3>1, <3>2, <3>3
    <2> QED  BY <1>2, <2>3, <2>5, <2>6
  <1> QED  BY <1>1, <1>2

\* An integer that fits is kept.
LEMMA WrappedIs == ASSUME Width \in Nat \ {0}, NEW n \in Integer PROVE Wrapped(n) = n
  <1>1. PICK w \in Nat \ {0}, m \in Nat \ {0} : w = Width /\ m = 2 * w
    OBVIOUS
  <1>2. n + w \in 0..(m - 1) /\ n \in Int
    BY <1>1 DEF Integer
  <1>3. PICK x \in 0..(m - 1) : x = n + w
    BY <1>2
  <1>4. x % m = x
    <2>1. x = 0 * m + x
      OBVIOUS
    <2> QED  BY <2>1, DivIs
  <1> QED  BY <1>1, <1>2, <1>3, <1>4 DEF Wrapped

LEMMA IntegerIs == ASSUME Width \in Nat PROVE \A n \in Int : n \in Integer <=> -Width <= n /\ n <= Width - 1
  BY DEF Integer

\* A duration in its own unit is its seconds, or more than an integer holds.
LEMMA InSecondsIs ==
    ASSUME ticks \in Ticks, NEW amount \in Int, NEW unit \in Units
    PROVE  /\ amount * SecondsIn(unit) \in Int
           /\ InSeconds(amount, unit) =
                IF amount * SecondsIn(unit) \in Integer THEN amount * SecondsIn(unit) ELSE None
  <1>1. PICK w \in Nat \ {0}, m \in Nat \ {0} : w = Width /\ m = SecondsIn(unit)
    BY UnitsFacts, TicksFacts
  <1>2. PICK last, first : last = Truncated(w - 1, m) /\ first = Truncated(-w, m)
    OBVIOUS
  <1>3. last \in Int /\ first \in Int
    BY <1>2, TruncatedIs
  <1>4. amount <= last <=> amount * m <= w - 1
    <2>1. w - 1 \in Int /\ w - 1 >= 0
      OBVIOUS
    <2> QED  BY <1>2, <2>1, TruncatedIs
  <1>5. first <= amount <=> -w <= amount * m
    <2>1. -w \in Int /\ -w <= 0
      OBVIOUS
    <2> QED  BY <1>2, <2>1, TruncatedIs
  <1>6. amount * m \in Int
    OBVIOUS
  <1>7. InSeconds(amount, unit) = IF amount > last \/ amount < first THEN None ELSE amount * m
    BY <1>1, <1>2 DEF InSeconds
  <1>8. amount * m \in Integer <=> -w <= amount * m /\ amount * m <= w - 1
    BY <1>1, <1>6, IntegerIs
  <1> QED  BY <1>1, <1>3, <1>4, <1>5, <1>6, <1>7, <1>8

\* Seconds and ticks of one sign make the duration they are, where the integer holds it.
LEMMA ClockDurationIs ==
    ASSUME ticks \in Ticks, NEW s \in Int, NEW u \in (-ticks)..ticks,
           s > 0 => u >= 0, s < 0 => u <= 0
    PROVE  InClockDuration(s, u) = IF s * ticks + u \in Integer THEN s * ticks + u ELSE None
  <1>1. PICK w \in Nat \ {0}, t \in Nat \ {0} : w = Width /\ t = ticks /\ t < w
    BY TicksFacts
  <1>2. PICK last, first : last = Truncated(w - 1, t) /\ first = Truncated(-w, t)
    OBVIOUS
  <1>3. PICK whole \in Int : whole = s * t
    BY TimesIsInt
  <1>4. last \in Int /\ last >= 0 /\ (s <= last <=> whole <= w - 1)
    <2>1. w - 1 \in Int /\ w - 1 >= 0
      OBVIOUS
    <2> QED  BY <1>2, <1>3, <2>1, TruncatedIs
  <1>5. first \in Int /\ first <= 0 /\ (first <= s <=> -w <= whole)
    <2>1. -w \in Int /\ -w <= 0
      OBVIOUS
    <2> QED  BY <1>2, <1>3, <2>1, TruncatedIs
  <1>6. (whole > 0 <=> s > 0) /\ (whole < 0 <=> s < 0)
    <2>1. 0 < s <=> 0 * t < s * t
      BY TimesGrows
    <2>2. s < 0 <=> s * t < 0 * t
      BY TimesGrows
    <2>3. 0 * t = 0
      OBVIOUS
    <2> QED  BY <1>3, <2>1, <2>2, <2>3
  <1>7. u \in Int /\ -t <= u /\ u <= t /\ whole + u \in Int
    BY <1>1
  <1>8. whole + u \in Integer <=> -w <= whole + u /\ whole + u <= w - 1
    BY <1>1, <1>7, IntegerIs
  <1>9. CASE s > last \/ s < first
    <2>1. InClockDuration(s, u) = None
      BY <1>1, <1>2, <1>9 DEF InClockDuration
    <2>2. ~(-w <= whole + u /\ whole + u <= w - 1)
      BY <1>4, <1>5, <1>7, <1>9
    <2> QED  BY <1>1, <1>3, <1>8, <2>1, <2>2
  <1>10. CASE ~(s > last \/ s < first)
    <2>1. whole \in Integer
      BY <1>1, <1>4, <1>5, <1>10, IntegerIs
    <2>2. Wrapped(s * ticks) = whole
      BY <1>1, <1>3, <2>1, WrappedIs
    <2>3. InClockDuration(s, u) = IF \/ whole > 0 /\ u > w - 1 - whole
                                     \/ whole < 0 /\ u < -w - whole
                                  THEN None ELSE Wrapped(whole + u)
      BY <1>1, <1>2, <1>10, <2>2 DEF InClockDuration
    <2>4. -w <= whole /\ whole <= w - 1
      BY <1>1, <2>1, IntegerIs
    <2>5. (-w <= whole + u /\ whole + u <= w - 1) <=>
            ~((whole > 0 /\ u > w - 1 - whole) \/ (whole < 0 /\ u < -w - whole))
      <3>1. CASE whole > 0
        BY <1>1, <1>6, <1>7, <2>4, <3>1
      <3>2. CASE whole = 0
        BY <1>1, <1>7, <3>2
      <3>3. CASE whole < 0
        BY <1>1, <1>6, <1>7, <2>4, <3>3
      <3> QED  BY <3>1, <3>2, <3>3
    <2>6. whole + u \in Integer => Wrapped(whole + u) = whole + u
      BY <1>1, WrappedIs
    <2> QED  BY <1>1, <1>3, <1>8, <2>3, <2>5, <2>6
  <1> QED  BY <1>9, <1>10

-----------------------------------------------------------------------------
(* Moving.                                                                 *)

\* A timestamp moves by exactly the seconds it is given, or not at all.
LEMMA AddIs ==
    ASSUME ticks \in Ticks, NEW stamp \in ValidStamps, NEW seconds \in Int,
           NEW target, target = LocalSeconds(stamp) + seconds
    PROVE  IF FirstSecond <= target /\ target < EndSecond
             THEN /\ Add(stamp, seconds) \in ValidStamps /\ Add(stamp, seconds).zone = stamp.zone
                  /\ LocalSeconds(Add(stamp, seconds)) = target
                  /\ Subseconds(Add(stamp, seconds)) = Subseconds(stamp)
             ELSE Add(stamp, seconds) = None
  <1>1. PICK local, fraction : local = LocalSeconds(stamp) /\ fraction = Subseconds(stamp)
    OBVIOUS
  <1>2. /\ local \in Int /\ fraction \in 0..(Nanos - 1) /\ Nanos \in Nat \ {0}
        /\ FirstSecond \in Int /\ EndSecond \in Int
    BY <1>1, StampFacts, TicksFacts, UnitsFacts
  <1>3. target \in Int /\ target = local + seconds
    BY <1>1, <1>2
  <1>4. Add(stamp, seconds) = IF seconds < FirstSecond - local \/ seconds >= EndSecond - local THEN None
                              ELSE SetLocal(stamp, target, fraction)
    BY <1>1, <1>3 DEF Add
  <1>5. seconds < FirstSecond - local \/ seconds >= EndSecond - local <=> ~(FirstSecond <= target /\ target < EndSecond)
    BY <1>2, <1>3
  <1>6. ASSUME FirstSecond <= target, target < EndSecond
        PROVE  /\ SetLocal(stamp, target, fraction) \in ValidStamps
               /\ SetLocal(stamp, target, fraction).zone = stamp.zone
               /\ LocalSeconds(SetLocal(stamp, target, fraction)) = target
               /\ Subseconds(SetLocal(stamp, target, fraction)) = fraction
    <2>1. stamp \in Stamps
      BY DEF ValidStamps
    <2>2. PICK moved : moved = SetLocal(stamp, target, fraction)
      OBVIOUS
    <2> QED  BY <1>2, <1>3, <1>6, <2>1, <2>2, SetLocalIs
  <1> QED  BY <1>1, <1>4, <1>5, <1>6

\* Whatever the unit and the sign: the conversion and the negation lose nothing, and
\* where they give up the years end long before.
LEMMA MovedIs ==
    ASSUME ticks \in Ticks, NEW stamp \in ValidStamps, NEW amount \in Integer, NEW unit \in Units,
           NEW sign \in {1, -1}, NEW moved,
           moved = IF sign = 1 THEN Plus(stamp, amount, unit) ELSE Less(stamp, amount, unit),
           NEW target, target = LocalSeconds(stamp) + sign * amount * SecondsIn(unit)
    PROVE  /\ target \in Int
           /\ IF FirstSecond <= target /\ target < EndSecond
                THEN /\ moved \in ValidStamps /\ moved.zone = stamp.zone
                     /\ LocalSeconds(moved) = target /\ Subseconds(moved) = Subseconds(stamp)
                ELSE moved = None
  <1>1. PICK w \in Nat \ {0}, m \in Nat \ {0} : w = Width /\ m = SecondsIn(unit)
    BY UnitsFacts, TicksFacts
  <1>2. PICK local \in Int, first \in Int, end \in Int :
           /\ local = LocalSeconds(stamp) /\ first = FirstSecond /\ end = EndSecond
           /\ first <= local /\ local < end /\ end - first <= w
    BY <1>1, TicksFacts, StampFacts, UnitsFacts, InputsAssumption
  <1>3. amount \in Int /\ -w <= amount /\ amount <= w - 1
    BY <1>1 DEF Integer
  <1>4. PICK seconds \in Int : seconds = amount * m
    BY <1>3, TimesIsInt
  <1>5. InSeconds(amount, unit) = IF seconds \in Integer THEN seconds ELSE None
    BY <1>1, <1>3, <1>4, InSecondsIs
  <1>6. target = IF sign = 1 THEN local + seconds ELSE local - seconds
    <2>1. CASE sign = 1
      BY <1>1, <1>2, <1>3, <1>4, <2>1
    <2>2. CASE sign = -1
      <3>1. sign * amount = -amount
        BY <1>3, <2>2
      <3>2. (-amount) * m = -(amount * m)
        BY <1>3
      <3> QED  BY <1>1, <1>2, <1>4, <2>2, <3>1, <3>2
    <2> QED  BY <2>1, <2>2
  <1>7. target \in Int
    BY <1>6
  <1>8. seconds \in Integer <=> -w <= seconds /\ seconds <= w - 1
    BY <1>1, IntegerIs
  <1>9. CASE seconds \notin Integer
    <2>1. moved = None
      BY <1>5, <1>9 DEF Plus, Less
    <2>2. ~(first <= target /\ target < end)
      BY <1>2, <1>6, <1>8, <1>9
    <2> QED  BY <1>2, <1>7, <2>1, <2>2
  <1>10. CASE seconds \in Integer /\ sign = 1
    <2>1. InSeconds(amount, unit) = seconds /\ seconds # None
      BY <1>5, <1>10, InputsAssumption
    <2>2. moved = Add(stamp, seconds)
      BY <1>10, <2>1 DEF Plus
    <2>3. target = LocalSeconds(stamp) + seconds
      BY <1>2, <1>6, <1>10
    <2> QED  BY <1>7, <2>2, <2>3, AddIs
  <1>11. CASE seconds \in Integer /\ sign = -1
    <2>1. InSeconds(amount, unit) = seconds /\ seconds # None
      BY <1>5, <1>11, InputsAssumption
    <2>2. moved = Subtract(stamp, seconds)
      BY <1>11, <2>1 DEF Less
    <2>3. CASE seconds = -w
      <3>1. moved = None
        BY <1>1, <2>2, <2>3 DEF Subtract
      <3>2. ~(target < end)
        BY <1>2, <1>6, <1>11, <2>3
      <3> QED  BY <1>2, <1>7, <3>1, <3>2
    <2>4. CASE seconds # -w
      <3>1. PICK back \in Int : back = -seconds
        OBVIOUS
      <3>2. back \in Integer
        BY <1>1, <1>8, <1>11, <2>4, <3>1, IntegerIs
      <3>3. Wrapped(back) = back
        BY <1>1, <3>2, WrappedIs
      <3>4. moved = Add(stamp, back)
        BY <1>1, <2>2, <2>4, <3>1, <3>3 DEF Subtract
      <3>5. target = LocalSeconds(stamp) + back
        BY <1>2, <1>6, <1>11, <3>1
      <3> QED  BY <1>7, <3>1, <3>4, <3>5, AddIs
    <2> QED  BY <2>3, <2>4
  <1> QED  BY <1>9, <1>10, <1>11

\* The instant of a timestamp, in seconds and nanoseconds.
LEMMA InstantFacts ==
    ASSUME ticks \in Ticks, NEW stamp \in ValidStamps
    PROVE  /\ Instant(stamp).seconds \in Int /\ Instant(stamp).nanos \in 0..(Nanos - 1)
           /\ InstantNanos(stamp) = Instant(stamp).seconds * Nanos + Instant(stamp).nanos
           /\ InstantNanos(stamp) \in Int
  <1>1. PICK n \in Nat \ {0}, p \in Nat \ {0} : n = Nanos /\ p = SecondsPerMinute
    BY TicksFacts, UnitsFacts
  <1>2. PICK local \in Int, fraction \in 0..(n - 1), zone \in Int :
           local = LocalSeconds(stamp) /\ fraction = Subseconds(stamp) /\ zone = stamp.zone
    BY <1>1, StampFacts
  <1>3. PICK off \in Int : off = zone * p
    BY TimesIsInt
  <1>4. Instant(stamp).seconds = local - off /\ Instant(stamp).nanos = fraction
    BY <1>1, <1>2, <1>3 DEF Instant
  <1>5. InstantNanos(stamp) = (local * n + fraction) - off * n
    BY <1>1, <1>2, <1>3 DEF InstantNanos, LocalNanos
  <1>6. (local - off) * n = local * n - off * n /\ local * n \in Int /\ off * n \in Int
    OBVIOUS
  <1> QED  BY <1>1, <1>2, <1>4, <1>5, <1>6

\* Seconds and nanoseconds of one sign, naming the same moment.
LEMMA SameSignIs ==
    ASSUME ticks \in Ticks, NEW s \in Int, NEW n \in (1 - Nanos)..(Nanos - 1),
           NEW parts, parts = WithTheSameSign(s, n)
    PROVE  /\ parts.seconds \in Int /\ parts.nanos \in (1 - Nanos)..(Nanos - 1)
           /\ parts.seconds > 0 => parts.nanos >= 0
           /\ parts.seconds < 0 => parts.nanos <= 0
           /\ parts.seconds * Nanos + parts.nanos = s * Nanos + n
  <1>1. PICK m \in Nat \ {0} : m = Nanos
    BY TicksFacts
  <1>2. n \in Int /\ 1 - m <= n /\ n <= m - 1
    BY <1>1
  <1>3. (s + 1) * m = s * m + m /\ (s - 1) * m = s * m - m /\ s * m \in Int
    OBVIOUS
  <1>4. CASE s < 0 /\ n > 0
    <2>1. parts = [seconds |-> s + 1, nanos |-> n - m]
      BY <1>1, <1>4 DEF WithTheSameSign
    <2> QED  BY <1>1, <1>2, <1>3, <1>4, <2>1
  <1>5. CASE s > 0 /\ n < 0
    <2>1. parts = [seconds |-> s - 1, nanos |-> n + m]
      BY <1>1, <1>2, <1>5 DEF WithTheSameSign
    <2> QED  BY <1>1, <1>2, <1>3, <1>5, <2>1
  <1>6. CASE ~(s < 0 /\ n > 0) /\ ~(s > 0 /\ n < 0)
    <2>1. parts = [seconds |-> s, nanos |-> n]
      BY <1>6 DEF WithTheSameSign
    <2> QED  BY <1>1, <1>2, <1>3, <1>6, <2>1
  <1> QED  BY <1>4, <1>5, <1>6

-----------------------------------------------------------------------------
(* Differences and time points.                                            *)

\* Whole ticks leave the quotient of the rest, rounded down or, of one sign, toward zero.
LEMMA TicksOf ==
    ASSUME NEW t \in Nat \ {0}, NEW p \in Nat \ {0}, NEW s \in Int, NEW n \in Int,
           NEW exact, exact = s * (t * p) + n
    PROVE  /\ exact \in Int /\ exact \div p = s * t + (n \div p)
           /\ (s > 0 => n >= 0) /\ (s < 0 => n <= 0) => Truncated(exact, p) = s * t + Truncated(n, p)
  <1>1. s * (t * p) = (s * t) * p
    OBVIOUS
  <1>2. PICK st \in Int : st = s * t
    BY TimesIsInt
  <1>3. exact = st * p + n /\ st * p \in Int /\ exact \in Int
    BY <1>1, <1>2
  <1>4. ASSUME NEW x \in Int, NEW y \in Int, NEW a \in Int, x = a * p + y
        PROVE  x \div p = a + (y \div p)
    <2>1. PICK q \in Int, r \in 0..(p - 1) : q = y \div p /\ y = q * p + r
      BY DivFacts
    <2>2. PICK b \in Int : b = a + q
      OBVIOUS
    <2>3. x = b * p + r
      <3>1. b * p = a * p + q * p /\ a * p \in Int /\ q * p \in Int
        BY <2>2
      <3>2. y = q * p + r /\ r \in Int
        BY <2>1
      <3> QED  BY <1>4, <3>1, <3>2
    <2>4. x \div p = b
      BY <2>3, DivIs
    <2> QED  BY <2>1, <2>2, <2>4
  <1>5. exact \div p = st + (n \div p)
    BY <1>3, <1>4
  <1>6. (s >= 0 => st * p >= 0) /\ (s <= 0 => st * p <= 0)
    <2>1. 0 <= s <=> 0 * t <= s * t
      BY TimesGrows
    <2>2. s <= 0 <=> s * t <= 0 * t
      BY TimesGrows
    <2>3. 0 <= st <=> 0 * p <= st * p
      BY TimesGrows
    <2>4. st <= 0 <=> st * p <= 0 * p
      BY TimesGrows
    <2>5. 0 * t = 0 /\ 0 * p = 0
      OBVIOUS
    <2> QED  BY <1>2, <2>1, <2>2, <2>3, <2>4, <2>5
  <1>7. ASSUME s > 0 => n >= 0, s < 0 => n <= 0
        PROVE  Truncated(exact, p) = st + Truncated(n, p)
    <2>1. CASE exact >= 0 /\ n >= 0
      BY <1>5, <2>1 DEF Truncated
    <2>2. CASE exact <= 0 /\ n <= 0
      <3>1. PICK x \in Int, y \in Int, a \in Int : x = -exact /\ y = -n /\ a = -st
        BY <1>3
      <3>2. a * p = -(st * p)
        BY <3>1
      <3>3. x = a * p + y
        BY <1>3, <3>1, <3>2
      <3>4. x \div p = a + (y \div p) /\ y \div p \in Int
        BY <1>4, <3>3, DivFacts
      <3>5. ASSUME NEW z \in Int, z <= 0 PROVE Truncated(z, p) = -((-z) \div p)
        <4>1. CASE z < 0
          BY <4>1 DEF Truncated
        <4>2. CASE z = 0
          <5>1. PICK zero \in 0..(p - 1) : zero = 0 /\ zero = 0 * p + zero
            OBVIOUS
          <5>2. zero \div p = 0
            BY <5>1, DivIs
          <5> QED  BY <4>2, <5>1, <5>2 DEF Truncated
        <4> QED  BY <3>5, <4>1, <4>2
      <3>6. Truncated(exact, p) = -(x \div p) /\ Truncated(n, p) = -(y \div p)
        BY <1>3, <2>2, <3>1, <3>5
      <3> QED  BY <3>1, <3>4, <3>6
    <2>3. (exact >= 0 /\ n >= 0) \/ (exact <= 0 /\ n <= 0)
      BY <1>3, <1>6, <1>7
    <2> QED  BY <2>1, <2>2, <2>3
  <1> QED  BY <1>2, <1>3, <1>5, <1>7

\* The same of a second of m nanoseconds, rounded down.
LEMMA FloorOfTicks ==
    ASSUME NEW t \in Nat \ {0}, NEW p \in Nat \ {0}, NEW m \in Int, m = t * p,
           NEW s \in Int, NEW n \in Int, NEW exact \in Int, exact = s * m + n
    PROVE  exact \div p = s * t + (n \div p)
  <1>1. PICK q \in Int, r \in 0..(p - 1) : q = n \div p /\ n = q * p + r
    BY DivFacts
  <1>2. PICK st \in Int : st = s * t
    BY TimesIsInt
  <1>3. PICK b \in Int : b = st + q
    OBVIOUS
  <1>4. b * p = st * p + q * p /\ st * p \in Int /\ q * p \in Int
    BY <1>3
  <1>5. s * m = st * p
    BY <1>2
  <1>6. exact = b * p + r
    BY <1>1, <1>4, <1>5
  <1>7. exact \div p = b
    BY <1>6, DivIs
  <1> QED  BY <1>1, <1>2, <1>3, <1>7

\* What is left of less than a second is less than its ticks.
LEMMA PartOfSecond ==
    ASSUME ticks \in Ticks, NEW n \in (1 - Nanos)..(Nanos - 1)
    PROVE  /\ n \div NanosPerTick \in (-ticks)..ticks /\ Truncated(n, NanosPerTick) \in (-ticks)..ticks
           /\ n >= 0 => n \div NanosPerTick >= 0 /\ Truncated(n, NanosPerTick) >= 0
           /\ n <= 0 => n \div NanosPerTick <= 0 /\ Truncated(n, NanosPerTick) <= 0
  <1>1. PICK t \in Nat \ {0}, p \in Nat \ {0} : t = ticks /\ p = NanosPerTick /\ Nanos = t * p /\ t * p \in Nat
    BY TicksFacts
  <1>2. PICK low \in Int, zero \in Int, one \in Int : low = -t /\ zero = 0 /\ one = 1
    OBVIOUS
  <1>3. n \in Int /\ low * p <= n /\ n < t * p /\ n <= t * p
    <2>1. low * p = -(t * p)
      BY <1>2
    <2> QED  BY <1>1, <2>1
  <1>4. zero * p = 0 /\ one * p = p
    BY <1>2
  <1>5. PICK q \in Int : q = n \div p
    BY <1>3, DivFacts
  <1>6. low <= q /\ q < t /\ (n >= 0 => zero <= q) /\ (n <= 0 => q < one)
    <2>1. low * p <= n <=> low <= q
      BY <1>3, <1>5, DivFacts
    <2>2. n < t * p <=> q < t
      <3>1. PICK b \in Int : b = t
        OBVIOUS
      <3>2. n < b * p <=> q < b
        BY <1>3, <1>5, DivFacts
      <3> QED  BY <3>1, <3>2
    <2>3. zero * p <= n <=> zero <= q
      BY <1>3, <1>5, DivFacts
    <2>4. n < one * p <=> q < one
      BY <1>3, <1>5, DivFacts
    <2>5. n <= 0 => n < p
      BY <1>3
    <2> QED  BY <1>3, <1>4, <2>1, <2>2, <2>3, <2>4, <2>5
  <1>7. PICK z : z = Truncated(n, p)
    OBVIOUS
  <1>8. z \in Int /\ (n >= 0 => z >= 0) /\ (n <= 0 => z <= 0)
    BY <1>3, <1>7, TruncatedIs, ZenonT(60)
  <1>9. n >= 0 => z <= t
    <2>1. n >= 0 => z = q
      BY <1>5, <1>7 DEF Truncated
    <2> QED  BY <1>6, <2>1
  <1>10. n <= 0 => low <= z
    <2>1. n <= 0 => (z <= low <=> n <= low * p)
      BY <1>3, <1>7, TruncatedIs, ZenonT(60)
    <2>2. n <= 0 => (z <= low => z = low)
      <3> SUFFICES ASSUME n <= 0, z < low PROVE FALSE
        BY <1>8
      <3>1. PICK y \in Int : y = low - 1 /\ z <= y
        BY <1>8
      <3>2. n <= y * p
        BY <1>3, <1>7, <3>1, TruncatedIs
      <3>3. y * p + p <= low * p /\ y * p \in Int /\ low * p \in Int
        BY <3>1, TimesGrows, TimesIsInt
      <3> QED  BY <1>3, <3>2, <3>3
    <2> QED  BY <1>8, <2>2
  <1> QED  BY <1>1, <1>2, <1>5, <1>6, <1>7, <1>8, <1>9, <1>10

\* The difference of two timestamps.
LEMMA DifferenceIs ==
    ASSUME ticks \in Ticks, NEW stamp \in ValidStamps, NEW other \in ValidStamps,
           NEW exact, exact = InstantNanos(stamp) - InstantNanos(other),
           NEW count, count = Truncated(exact, NanosPerTick)
    PROVE  /\ exact \in Int /\ count \in Int
           /\ DurationSince(stamp, other) = IF count \in Integer THEN count ELSE None
           /\ Before(Instant(stamp), Instant(other)) <=> exact < 0
  <1>1. PICK t \in Nat \ {0}, p \in Nat \ {0} : t = ticks /\ p = NanosPerTick /\ Nanos = t * p
    BY TicksFacts
  <1>2. PICK m \in Nat \ {0} : m = Nanos /\ m = t * p
    BY <1>1, TicksFacts
  <1>3. PICK s1 \in Int, s2 \in Int, n1 \in 0..(m - 1), n2 \in 0..(m - 1) :
           /\ s1 = Instant(stamp).seconds /\ n1 = Instant(stamp).nanos
           /\ s2 = Instant(other).seconds /\ n2 = Instant(other).nanos
           /\ InstantNanos(stamp) = s1 * m + n1 /\ InstantNanos(other) = s2 * m + n2
    BY <1>2, InstantFacts
  <1>4. PICK s \in Int, n \in (1 - m)..(m - 1) : s = s1 - s2 /\ n = n1 - n2
    OBVIOUS
  <1>5. exact = s * m + n /\ s * m \in Int /\ exact \in Int
    <2>1. s * m = s1 * m - s2 * m /\ s1 * m \in Int /\ s2 * m \in Int
      BY <1>4
    <2> QED  BY <1>3, <1>4, <2>1
  <1>6. PICK parts : parts = WithTheSameSign(s, n)
    OBVIOUS
  <1>7. PICK u \in Int, v \in (1 - m)..(m - 1) :
           /\ u = parts.seconds /\ v = parts.nanos /\ exact = u * m + v
           /\ (u > 0 => v >= 0) /\ (u < 0 => v <= 0)
    BY <1>2, <1>5, <1>6, SameSignIs, ZenonT(60)
  <1>8. PICK rest : rest = Truncated(v, p)
    OBVIOUS
  <1>9. count = u * t + rest
    <2>1. PICK n0 \in Int : n0 = v /\ (u > 0 => n0 >= 0) /\ (u < 0 => n0 <= 0)
      BY <1>7
    <2>2. exact = u * (t * p) + n0
      BY <1>2, <1>7, <2>1
    <2>3. (u > 0 => n0 >= 0) /\ (u < 0 => n0 <= 0) => Truncated(exact, p) = u * t + Truncated(n0, p)
      BY <2>2, TicksOf
    <2>4. Truncated(exact, p) = u * t + Truncated(v, p)
      BY <2>1, <2>3
    <2> QED  BY <1>1, <1>8, <2>4
  <1>10. rest \in (-t)..t /\ (u > 0 => rest >= 0) /\ (u < 0 => rest <= 0)
    <2>1. v \in (1 - Nanos)..(Nanos - 1)
      BY <1>2
    <2>2. /\ rest \in (-t)..t /\ v >= 0 => rest >= 0
          /\ v <= 0 => rest <= 0
      BY <1>1, <1>8, <2>1, PartOfSecond
    <2> QED  BY <1>7, <1>1, <1>8, <2>1, PartOfSecond
  <1>11. InClockDuration(u, rest) = IF count \in Integer THEN count ELSE None
    BY <1>1, <1>9, <1>10, ClockDurationIs
  <1>12. DurationSince(stamp, other) = InClockDuration(u, rest)
    BY <1>1, <1>3, <1>4, <1>6, <1>7, <1>8 DEF DurationSince
  <1>13. Before(Instant(stamp), Instant(other)) <=> exact < 0
    <2>1. Before(Instant(stamp), Instant(other)) <=> s < 0 \/ (s = 0 /\ n < 0)
      BY <1>3, <1>4 DEF Before
    <2>2. PICK minus \in Int, zero \in Int : minus = -1 /\ zero = 0 /\ minus * m = -m /\ zero * m = 0
      OBVIOUS
    <2>3. CASE s < 0
      <3>1. s * m <= minus * m
        <4>1. s <= minus
          BY <2>2, <2>3
        <4> QED  BY <4>1, TimesGrows
      <3> QED  BY <1>5, <2>1, <2>2, <2>3, <3>1
    <2>4. CASE s = 0
      BY <1>5, <2>1, <2>4
    <2>5. CASE s > 0
      <3>1. zero * m + m <= s * m
        <4>1. zero < s
          BY <2>2, <2>5
        <4> QED  BY <4>1, TimesGrows
      <3> QED  BY <1>5, <2>1, <2>2, <2>5, <3>1
    <2> QED  BY <2>3, <2>4, <2>5
  <1>14. count \in Int
    <2>1. u * t \in Int
      OBVIOUS
    <2> QED  BY <1>9, <1>10, <2>1
  <1> QED  BY <1>5, <1>11, <1>12, <1>13, <1>14

\* The floor of a time point, in seconds, however it is computed.
LEMMA WholeIs ==
    ASSUME ticks \in Ticks, NEW point \in Int
    PROVE  Whole(point) = point \div ticks
  <1>1. PICK t \in Nat \ {0} : t = ticks
    BY TicksFacts
  <1>2. PICK q : q = Truncated(point, t)
    OBVIOUS
  <1>3. q \in Int
    BY <1>2, TruncatedIs
  <1>4. PICK d \in Int : d = point - q * t
    BY <1>3, TimesIsInt
  <1>5. PICK before \in Int : before = q - 1 /\ before * t = q * t - t /\ q * t \in Int
    BY <1>3
  <1>6. Whole(point) = IF d < 0 THEN before ELSE q
    BY <1>1, <1>2, <1>4, <1>5 DEF Whole
  <1>7. CASE point >= 0
    <2>1. q = point \div t
      BY <1>2, <1>7 DEF Truncated
    <2>2. q * t <= point
      BY <1>7, <1>2, <1>3, TruncatedIs
    <2>3. ~(d < 0)
      BY <1>4, <1>5, <2>2
    <2> QED  BY <1>1, <1>6, <2>1, <2>3
  <1>8. CASE point < 0
    <2>1. (q <= q <=> point <= q * t) /\ (q <= before <=> point <= before * t)
      BY <1>2, <1>3, <1>8, TruncatedIs
    <2>2. d <= 0 /\ d > -t
      BY <1>3, <1>4, <1>5, <2>1
    <2>3. CASE d < 0
      <3>1. PICK r \in 0..(t - 1) : r = d + t
        BY <2>2, <2>3
      <3>2. point = before * t + r
        BY <1>4, <1>5, <3>1
      <3>3. point \div t = before
        BY <3>2, DivIs
      <3> QED  BY <1>1, <1>6, <2>3, <3>3
    <2>4. CASE d = 0
      <3>1. PICK r \in 0..(t - 1) : r = 0
        OBVIOUS
      <3>2. point = q * t + r
        BY <1>4, <1>5, <2>4, <3>1
      <3>3. point \div t = q
        BY <1>3, <3>2, DivIs
      <3> QED  BY <1>1, <1>6, <2>4, <3>3
    <2> QED  BY <2>2, <2>3, <2>4
  <1> QED  BY <1>7, <1>8

\* The timestamp a default one is.
LEMMA EpochFacts == Nanos \in Nat \ {0} => Epoch \in ValidStamps /\ Epoch.zone = 0
  <1> SUFFICES ASSUME Nanos \in Nat \ {0} PROVE Epoch \in ValidStamps /\ Epoch.zone = 0
    OBVIOUS
  <1>1. PICK s \in Nat \ {0}, n \in Nat \ {0} : s = SecondsPerDay /\ n = Nanos
    BY UnitsFacts
  <1>2. s * n \in Nat \ {0}
    <2>1. 0 \in 0..(s - 1) /\ 0 \in 0..(n - 1)
      OBVIOUS
    <2> QED  BY <2>1, Nested
  <1>3. 0 \in 0..(SecondsPerDay * Nanos - 1)
    BY <1>1, <1>2
  <1>4. 0 \in (-MaxOffset)..MaxOffset
    BY UnitsFacts
  <1>5. Epoch \in Stamps
    BY <1>3, <1>4, ConstantsAssumption DEF Epoch, Utc, Stamps
  <1>6. Epoch.date.day <= DaysOf(Epoch.date.year, Epoch.date.month)
    BY DEF Epoch, DaysOf
  <1> QED  BY <1>5, <1>6 DEF ValidStamps, Epoch, Utc

\* The timestamp of a time point.
LEMMA FromTimePointIs ==
    ASSUME ticks \in Ticks, NEW point \in Int, NEW whole, whole = point \div ticks
    PROVE  /\ whole \in Int
           /\ IF FirstSecond <= whole /\ whole < EndSecond
                THEN /\ FromTimePoint(point) \in ValidStamps
                     /\ InstantNanos(FromTimePoint(point)) = point * NanosPerTick
                ELSE FromTimePoint(point) = None
  <1>1. PICK t \in Nat \ {0}, p \in Nat \ {0} : t = ticks /\ p = NanosPerTick /\ Nanos = t * p
    BY TicksFacts
  <1>2. PICK m \in Nat \ {0} : m = Nanos /\ m = t * p
    BY <1>1, TicksFacts
  <1>3. PICK q \in Int, r \in 0..(t - 1) : q = whole /\ point = q * t + r
    <2>1. point \div t \in Int /\ point % t \in 0..(t - 1) /\ point = (point \div t) * t + (point % t)
      BY DivFacts
    <2> QED  BY <1>1, <2>1
  <1>4. PICK fraction : fraction = r * p
    OBVIOUS
  <1>5. fraction \in 0..(m - 1)
    <2>1. PICK zero \in 0..(p - 1) : zero = 0
      OBVIOUS
    <2>2. r * p + zero \in 0..(t * p - 1)
      BY Nested
    <2>3. r * p \in Int
      OBVIOUS
    <2> QED  BY <1>2, <1>4, <2>1, <2>2, <2>3
  <1>6. (point - Whole(point) * ticks) * NanosPerTick = fraction
    <2>1. q * t \in Int /\ point - q * t = r
      BY <1>3
    <2> QED  BY <1>1, <1>3, <1>4, <2>1, WholeIs
  <1>7. PICK stamp : stamp = SetLocal(Epoch, q, fraction)
    OBVIOUS
  <1>8. FromTimePoint(point) = IF FirstSecond <= q /\ q < EndSecond THEN stamp ELSE None
    BY <1>3, <1>6, <1>7, WholeIs DEF FromTimePoint
  <1>9. ASSUME FirstSecond <= q, q < EndSecond
        PROVE  stamp \in ValidStamps /\ InstantNanos(stamp) = point * p
    <2>1. Epoch \in Stamps /\ Epoch.zone = 0 /\ Nanos \in Nat \ {0}
      BY <1>2, EpochFacts DEF ValidStamps
    <2>2. stamp \in ValidStamps /\ stamp.zone = 0 /\ LocalSeconds(stamp) = q /\ Subseconds(stamp) = fraction
      BY <1>2, <1>5, <1>7, <1>9, <2>1, SetLocalIs
    <2>3. (0 * SecondsPerMinute) * Nanos = 0
      BY <1>2, UnitsFacts
    <2>4. q * m \in Int /\ fraction \in Int
      BY <1>5, TimesIsInt
    <2>5. InstantNanos(stamp) = q * m + fraction
      BY <1>2, <2>2, <2>3, <2>4 DEF InstantNanos, LocalNanos
    <2>6. q * m = (q * t) * p
      BY <1>2
    <2>7. point * p = (q * t) * p + r * p
      BY <1>3
    <2> QED  BY <1>4, <2>2, <2>5, <2>6, <2>7
  <1> QED  BY <1>1, <1>3, <1>8, <1>9

\* The ticks of a timestamp's instant.
LEMMA ToTimePointIs ==
    ASSUME ticks \in Ticks, NEW stamp \in ValidStamps,
           NEW count, count = InstantNanos(stamp) \div NanosPerTick
    PROVE  /\ count \in Int /\ (Instant(stamp).seconds < 0 <=> count < 0)
           /\ ToTimePoint(stamp) = IF count \in Integer THEN count ELSE None
  <1>1. PICK t \in Nat \ {0}, p \in Nat \ {0} : t = ticks /\ p = NanosPerTick /\ Nanos = t * p
    BY TicksFacts
  <1>2. PICK m \in Nat \ {0} : m = Nanos /\ m = t * p
    BY <1>1, TicksFacts
  <1>3. PICK s \in Int, n \in 0..(m - 1) : /\ s = Instant(stamp).seconds /\ n = Instant(stamp).nanos
                                           /\ InstantNanos(stamp) = s * m + n
    BY <1>2, InstantFacts
  <1>4. PICK parts : parts = WithTheSameSign(s, n)
    OBVIOUS
  <1>5. n \in (1 - Nanos)..(Nanos - 1)
    BY <1>2
  <1>6. PICK u \in Int, v \in (1 - m)..(m - 1) :
           /\ u = parts.seconds /\ v = parts.nanos /\ u * m + v = s * m + n
           /\ (u > 0 => v >= 0) /\ (u < 0 => v <= 0)
    BY <1>2, <1>4, <1>5, SameSignIs
  <1>7. PICK rest : rest = v \div p
    OBVIOUS
  <1>8. PICK exact \in Int : exact = InstantNanos(stamp)
    BY InstantFacts
  <1>9. count = u * t + rest
    <2>1. PICK n0 \in Int : n0 = v
      BY <1>6
    <2>2. exact = u * m + n0
      BY <1>3, <1>6, <1>8, <2>1
    <2>3. exact \div p = u * t + (n0 \div p)
      BY <1>2, <2>2, FloorOfTicks
    <2> QED  BY <1>1, <1>7, <1>8, <2>1, <2>3
  <1>10. rest \in (-t)..t /\ (u > 0 => rest >= 0) /\ (u < 0 => rest <= 0)
    <2>1. v \in (1 - Nanos)..(Nanos - 1)
      BY <1>2
    <2> QED  BY <1>6, <1>1, <1>7, <2>1, PartOfSecond
  <1>11. InClockDuration(u, rest) = IF count \in Integer THEN count ELSE None
    BY <1>1, <1>9, <1>10, ClockDurationIs
  <1>12. ToTimePoint(stamp) = InClockDuration(u, rest)
    BY <1>1, <1>3, <1>4, <1>6, <1>7 DEF ToTimePoint
  <1>13. count \in Int
    <2>1. u * t \in Int
      OBVIOUS
    <2> QED  BY <1>9, <1>10, <2>1
  <1>14. s < 0 <=> count < 0
    <2>1. PICK zero \in Int : zero = 0 /\ zero * m = 0 /\ zero * p = 0
      BY <1>1
    <2>2. exact < zero * p <=> count < zero
      BY <1>1, <1>8, DivFacts
    <2>3. s < zero <=> s * m < zero * m
      BY TimesGrows
    <2>4. s < zero => s * m + m <= zero * m
      BY TimesGrows
    <2>5. exact = s * m + n /\ s * m \in Int
      BY <1>3, <1>8
    <2> QED  BY <2>1, <2>2, <2>3, <2>4, <2>5
  <1> QED  BY <1>3, <1>11, <1>12, <1>13, <1>14

-----------------------------------------------------------------------------
(* Building.                                                               *)

\* A timestamp of components that exist is at a whole second of its day.
LEMMA FromComponentsIs ==
    ASSUME Nanos \in Nat \ {0}, NEW date \in [year : Int, month : Int, day : Int],
           NEW hour \in Int, NEW minute \in Int, NEW second \in Int, NEW zone \in (-MaxOffset)..MaxOffset,
           NEW built, built = FromComponents(date, hour, minute, second, zone), built # None
    PROVE  /\ date \in [year : 0..LastYear, month : 1..12, day : 1..31]
           /\ date.day <= DaysOf(date.year, date.month)
           /\ \E whole \in 0..(SecondsPerDay - 1) :
                built = [date |-> date, time |-> whole * Nanos, zone |-> zone]
  <1>1. PICK spm \in Nat \ {0}, mph \in Nat \ {0}, hpd \in Nat \ {0} :
           /\ spm = SecondsPerMinute /\ mph = MinutesPerHour /\ hpd = HoursPerDay
           /\ SecondsPerHour = mph * spm /\ SecondsPerDay = hpd * (mph * spm)
    BY UnitsFacts DEF SecondsPerHour, SecondsPerDay
  <1>2. /\ date.year \in 0..LastYear /\ date.month \in 1..12
        /\ date.day \in 1..DaysOf(date.year, date.month)
        /\ hour \in 0..(hpd - 1) /\ minute \in 0..(mph - 1) /\ second \in 0..(spm - 1)
        /\ built = [date |-> date, zone |-> zone,
                    time |-> (hour * SecondsPerHour + minute * SecondsPerMinute + second) * Nanos]
    BY <1>1 DEF FromComponents
  <1>3. DaysOf(date.year, date.month) \in 28..31
    BY DEF DaysOf
  <1>4. date \in [year : 0..LastYear, month : 1..12, day : 1..31] /\ date.day <= DaysOf(date.year, date.month)
    BY <1>2, <1>3
  <1>5. PICK sph \in Nat \ {0} : sph = mph * spm
    BY <1>1, UnitsFacts
  <1>6. PICK rest \in 0..(sph - 1) : rest = minute * spm + second
    BY <1>2, <1>5, Nested
  <1>7. PICK whole \in 0..(hpd * sph - 1) : whole = hour * sph + rest
    BY <1>2, Nested
  <1>8. hour * SecondsPerHour + minute * SecondsPerMinute + second = whole
    <2>1. hour * sph \in Int /\ minute * spm \in Int /\ second \in Int
      BY <1>2, TimesIsInt
    <2> QED  BY <1>1, <1>5, <1>6, <1>7, <2>1
  <1>9. built = [date |-> date, time |-> whole * Nanos, zone |-> zone]
    BY <1>2, <1>8
  <1> QED  BY <1>1, <1>4, <1>5, <1>7, <1>9

LEMMA FractionAdds ==
    ASSUME Nanos \in Nat \ {0}, NEW date \in [year : 0..LastYear, month : 1..12, day : 1..31],
           date.day <= DaysOf(date.year, date.month), NEW whole \in 0..(SecondsPerDay - 1),
           NEW zone \in (-MaxOffset)..MaxOffset, NEW fraction \in 0..(Nanos - 1),
           NEW stamp, stamp = [date |-> date, time |-> whole * Nanos + fraction, zone |-> zone]
    PROVE  stamp \in ValidStamps
  <1>1. PICK s \in Nat \ {0}, n \in Nat \ {0} : s = SecondsPerDay /\ n = Nanos
    BY UnitsFacts
  <1>2. whole * Nanos + fraction \in 0..(SecondsPerDay * Nanos - 1)
    BY <1>1, Nested
  <1> QED  BY <1>2 DEF ValidStamps, Stamps

\* Offsets out of range are UTC, or no timestamp.
LEMMA ZonesFit ==
    /\ Utc \in (-MaxOffset)..MaxOffset
    /\ \A hours, minutes \in Int : ZoneOf(hours, minutes) \in (-MaxOffset)..MaxOffset
    /\ \A text : text.hours \in Int /\ text.minutes \in Int =>
         ZoneFromText(text) = None \/ ZoneFromText(text) \in (-MaxOffset)..MaxOffset
  <1>1. Utc \in (-MaxOffset)..MaxOffset
    BY UnitsFacts DEF Utc
  <1>2. PICK mph \in Int : mph = MinutesPerHour
    BY UnitsFacts
  <1>3. \A n \in Int : InRange(n) => n \in (-MaxOffset)..MaxOffset
    BY UnitsFacts DEF InRange
  <1>4. ASSUME NEW hours \in Int, NEW minutes \in Int
        PROVE  ZoneOf(hours, minutes) \in (-MaxOffset)..MaxOffset
    <2>1. PICK total \in Int, signed \in Int :
             total = Abs(hours) * MinutesPerHour + minutes /\ signed = IF hours < 0 THEN -total ELSE total
      <3>1. Abs(hours) \in Int
        BY DEF Abs
      <3>2. Abs(hours) * mph \in Int
        BY <3>1, TimesIsInt
      <3> QED  BY <1>2, <3>2
    <2>2. ZoneOf(hours, minutes) = Utc \/ (InRange(signed) /\ ZoneOf(hours, minutes) = signed)
      BY <2>1 DEF ZoneOf
    <2> QED  BY <1>1, <1>3, <2>1, <2>2
  <1>5. ASSUME NEW text, text.hours \in Int, text.minutes \in Int
        PROVE  ZoneFromText(text) = None \/ ZoneFromText(text) \in (-MaxOffset)..MaxOffset
    <2>1. PICK total \in Int, signed \in Int :
             /\ total = text.hours * MinutesPerHour + text.minutes
             /\ signed = IF text.sign = "-" THEN -total ELSE total
      <3>1. text.hours * mph \in Int
        BY <1>5, TimesIsInt
      <3> QED  BY <1>2, <1>5, <3>1
    <2>2. \/ ZoneFromText(text) = Utc \/ ZoneFromText(text) = None
          \/ InRange(signed) /\ ZoneFromText(text) = signed
      BY <2>1 DEF ZoneFromText
    <2> QED  BY <1>1, <1>3, <2>1, <2>2
  <1> QED  BY <1>1, <1>4, <1>5

\* What a text is read as.
LEMMA FromStringIs ==
    ASSUME Nanos \in Nat \ {0}, NEW text, text.date \in [year : Int, month : Int, day : Int],
           text.time = None \/ (text.time.hour \in Int /\ text.time.minute \in Int /\ text.time.second \in Int),
           text.zone = None \/ (text.zone.hours \in Int /\ text.zone.minutes \in Int),
           FractionOf(text.fraction) \in 0..(Nanos - 1)
    PROVE  FromString(text) = None \/ FromString(text) \in ValidStamps
  <1>1. PICK zone : zone = IF text.zone = None THEN Utc ELSE ZoneFromText(text.zone)
    OBVIOUS
  <1>2. zone = None \/ zone \in (-MaxOffset)..MaxOffset
    BY <1>1, ZonesFit
  <1>3. PICK hour, minute, second :
           /\ text.time = None => hour = 0 /\ minute = 0 /\ second = 0
           /\ text.time # None => hour = text.time.hour /\ minute = text.time.minute /\ second = text.time.second
    <2>1. CASE text.time = None
      BY <2>1
    <2>2. CASE text.time # None
      BY <2>2
    <2> QED  BY <2>1, <2>2
  <1>4. hour \in Int /\ minute \in Int /\ second \in Int
    BY <1>3
  <1>5. PICK built : built = FromComponents(text.date, hour, minute, second, zone)
    OBVIOUS
  <1>6. PICK fraction \in 0..(Nanos - 1) : fraction = FractionOf(text.fraction)
    OBVIOUS
  <1>7. FromString(text) = IF zone = None \/ built = None THEN None
                           ELSE [built EXCEPT !.time = @ + fraction]
    BY <1>1, <1>3, <1>5, <1>6 DEF FromString
  <1>8. ASSUME zone # None, built # None
        PROVE  [built EXCEPT !.time = @ + fraction] \in ValidStamps
    <2>1. PICK date \in [year : 0..LastYear, month : 1..12, day : 1..31], whole \in 0..(SecondsPerDay - 1) :
             /\ date.day <= DaysOf(date.year, date.month)
             /\ built = [date |-> date, time |-> whole * Nanos, zone |-> zone]
      BY <1>2, <1>4, <1>5, <1>8, FromComponentsIs
    <2>2. PICK stamp : stamp = [date |-> date, time |-> whole * Nanos + fraction, zone |-> zone]
      OBVIOUS
    <2>3. [built EXCEPT !.time = @ + fraction] = stamp
      BY <2>1, <2>2
    <2>4. stamp \in ValidStamps
      BY <1>2, <1>8, <2>1, <2>2, FractionAdds
    <2> QED  BY <2>3, <2>4
  <1> QED  BY <1>7, <1>8

-----------------------------------------------------------------------------
(* The text of a timestamp.                                                *)

LEMMA FractionFits ==
    ASSUME NEW digits \in Seq(0..9)
    PROVE  FractionOf(digits) \in 0..(Nanos - 1)
<1>. DEFINE padded == [i \in 1..FractionDigits |-> IF i <= Len(digits) THEN digits[i] ELSE 0]
<1>1. FractionDigits \in Nat
  BY ConstantsAssumption
<1>2. padded \in Seq(0..9) /\ Len(padded) = FractionDigits
  <2>1. \A i \in 1..FractionDigits : padded[i] \in 0..9
    <3>. SUFFICES ASSUME NEW i \in 1..FractionDigits PROVE padded[i] \in 0..9
      OBVIOUS
    <3>. QED BY <1>1
  <2>. QED BY <1>1, <2>1
<1>. HIDE DEF padded
<1>3. PrefixValues(padded)[FractionDigits] \in 0..(PowerOfTen[FractionDigits] - 1)
  BY <1>1, <1>2, PrefixValuesFit
<1>4. FractionOf(digits) = PrefixValues(padded)[FractionDigits]
  BY <1>2 DEF FractionOf, ValueOf, padded
<1>. QED BY <1>3, <1>4 DEF Nanos

\* No digit that is not zero is left out of the text.
LEMMA FractionReadsBack ==
    ASSUME NEW n \in 0..(Nanos - 1)
    PROVE  FractionOf(FractionText(n)) = n
<1>1. PICK length \in Nat : length = FractionDigits
  BY ConstantsAssumption
<1>2. PICK v \in Nat : v = n /\ v < PowerOfTen[length]
  BY <1>1, PowerOfTenIs DEF Nanos
<1>3. PICK digits \in Seq(0..9) : digits = DigitsOf(n, FractionDigits) /\ Len(digits) = length /\ ValueOf(digits) = n
  BY <1>1, <1>2, DigitsOfIs
<1>4. PICK last \in 0..length, text \in Seq(0..9) :
         /\ text = FractionText(n) /\ Len(text) = last
         /\ \A i \in 1..last : text[i] = digits[i]
         /\ \A i \in (last + 1)..length : digits[i] = 0
  BY <1>3, DropTrailingIs DEF FractionText
<1>5. [i \in 1..length |-> IF i <= Len(text) THEN text[i] ELSE 0] = digits
  <2>1. ASSUME NEW i \in 1..length PROVE digits[i] = IF i <= Len(text) THEN text[i] ELSE 0
    <3>1. CASE i <= last
      BY <1>4, <3>1
    <3>2. CASE ~(i <= last)
      BY <1>4, <3>2
    <3>. QED BY <3>1, <3>2
  <2>2. digits = [i \in 1..length |-> digits[i]]
    BY <1>3
  <2>. QED BY <2>1, <2>2
<1>. QED BY <1>1, <1>3, <1>4, <1>5 DEF FractionOf

\* The offset of a timestamp is read as it is written.
LEMMA ZoneReadsBack ==
    ASSUME NEW zone \in (-MaxOffset)..MaxOffset
    PROVE  ZoneFromText(ZoneText(zone)) = zone
<1>1. PICK mph \in Nat \ {0}, z \in Int, total \in Nat :
         mph = MinutesPerHour /\ z = zone /\ total = Abs(z) /\ MaxOffset \in Nat
  BY UnitsFacts DEF Abs
<1>2. InRange(zone)
  BY <1>1 DEF InRange
<1>3. CASE zone = 0
  BY <1>3 DEF ZoneText, ZoneFromText, Utc
<1>4. CASE zone # 0
  <2>1. PICK h \in Int, m \in 0..(mph - 1) : h = total \div mph /\ m = total % mph /\ total = h * mph + m
    BY Quotient
  <2>2. PICK text : text = [sign |-> IF zone >= 0 THEN "+" ELSE "-", hours |-> h, minutes |-> m]
    OBVIOUS
  <2>3. ZoneText(zone) = text
    BY <1>1, <1>4, <2>1, <2>2 DEF ZoneText
  <2>4. /\ text.sign = (IF zone >= 0 THEN "+" ELSE "-") /\ text.hours = h /\ text.minutes = m
        /\ text.hours * MinutesPerHour + text.minutes = total /\ text.minutes < MinutesPerHour
    <3>1. text.sign = (IF zone >= 0 THEN "+" ELSE "-") /\ text.hours = h /\ text.minutes = m
      BY <2>2
    <3>2. h * MinutesPerHour + m = total /\ m < MinutesPerHour
      BY <1>1, <2>1
    <3>. QED BY <3>1, <3>2
  <2>5. zone = IF text.sign = "-" THEN -total ELSE total
    <3>1. CASE zone >= 0
      BY <1>1, <2>4, <3>1 DEF Abs
    <3>2. CASE ~(zone >= 0)
      BY <1>1, <2>4, <3>2 DEF Abs
    <3>. QED BY <3>1, <3>2
  <2>6. text.sign # "Z"
    BY <2>4
  <2>. QED BY <1>2, <2>3, <2>4, <2>5, <2>6 DEF ZoneFromText
<1>. QED BY <1>3, <1>4

\* The hours, minutes and seconds of a timestamp make up its whole seconds.
LEMMA TimeReadsBack ==
    ASSUME Nanos \in Nat \ {0}, NEW stamp \in Stamps
    PROVE  /\ Hour(stamp) \in 0..(HoursPerDay - 1)
           /\ Minute(stamp) \in 0..(MinutesPerHour - 1)
           /\ Second(stamp) \in 0..(SecondsPerMinute - 1)
           /\ Subseconds(stamp) \in 0..(Nanos - 1)
           /\ Hour(stamp) * SecondsPerHour + Minute(stamp) * SecondsPerMinute + Second(stamp)
                \in 0..(SecondsPerDay - 1)
           /\ (Hour(stamp) * SecondsPerHour + Minute(stamp) * SecondsPerMinute + Second(stamp)) * Nanos
                + Subseconds(stamp) = stamp.time
<1>1. PICK spm \in Nat \ {0}, mph \in Nat \ {0}, hpd \in Nat \ {0} :
         /\ spm = SecondsPerMinute /\ mph = MinutesPerHour /\ hpd = HoursPerDay
         /\ SecondsPerHour = mph * spm /\ SecondsPerDay = hpd * (mph * spm)
  BY UnitsFacts DEF SecondsPerHour, SecondsPerDay
<1>2. PICK n \in Nat \ {0}, sph \in Nat \ {0}, spd \in Nat \ {0} :
         n = Nanos /\ sph = mph * spm /\ spd = hpd * sph /\ sph = SecondsPerHour /\ spd = SecondsPerDay
  BY <1>1, UnitsFacts
<1>3. PICK t \in Int : t = stamp.time /\ t \in 0..(spd * n - 1)
  BY <1>2 DEF Stamps
<1>4. PICK w \in Int, f \in 0..(n - 1) : w = t \div n /\ f = t % n /\ t = w * n + f
  BY Quotient
<1>5. PICK a \in Int, s \in 0..(spm - 1) : a = w \div spm /\ s = w % spm /\ w = a * spm + s
  BY Quotient
<1>6. PICK h \in Int, m \in 0..(mph - 1) : h = a \div mph /\ m = a % mph /\ a = h * mph + m
  BY Quotient
<1>7. PICK minute \in Nat \ {0} : minute = spm * n /\ t \div minute = a
  <2>1. spm * n \in Nat \ {0}
    BY Nested
  <2>2. t \div (spm * n) = (t \div n) \div spm
    BY QuotientOfQuotient
  <2>. QED BY <2>1, <2>2, <1>4, <1>5
<1>8. t \div (sph * n) = h
  <2>1. sph * n = mph * minute
    BY <1>2, <1>7
  <2>2. t \div (mph * minute) = (t \div minute) \div mph
    BY QuotientOfQuotient
  <2>. QED BY <1>6, <1>7, <2>1, <2>2
<1>9. h * sph + m * spm + s = w
  <2>1. a * spm = (h * mph) * spm + m * spm
    BY <1>6
  <2>2. (h * mph) * spm = h * sph
    BY <1>2
  <2>3. h * sph \in Int /\ m * spm \in Int
    OBVIOUS
  <2>. QED BY <1>5, <2>1, <2>2, <2>3
<1>10. h \in 0..(hpd - 1) /\ w \in 0..(spd - 1)
  <2>1. PICK zero \in Int : zero = 0
    OBVIOUS
  <2>2. zero * n <= t /\ t < spd * n
    BY <1>3, <2>1
  <2>3. 0 <= w /\ w < spd
    <3>1. zero <= t \div n
      BY <2>2, DivFacts
    <3>2. t \div n < spd
      BY <2>2, DivFacts
    <3>. QED BY <1>4, <2>1, <3>1, <3>2
  <2>4. PICK rest \in 0..(sph - 1) : rest = m * spm + s
    BY <1>2, Nested
  <2>5. w = h * sph + rest
    <3>1. h * sph \in Int /\ m * spm \in Int
      OBVIOUS
    <3>. QED BY <1>9, <2>4, <3>1
  <2>6. w \div sph = h
    BY <2>5, DivIs
  <2>7. zero * sph <= w /\ w < hpd * sph
    BY <1>2, <2>1, <2>3
  <2>8. zero <= w \div sph /\ w \div sph < hpd
    BY <2>7, DivFacts
  <2>. QED BY <2>1, <2>3, <2>6, <2>8
<1>11. Hour(stamp) = h /\ Minute(stamp) = m /\ Second(stamp) = s /\ Subseconds(stamp) = f
  <2>1. Hour(stamp) = h
    BY <1>2, <1>3, <1>8 DEF Hour
  <2>2. Minute(stamp) = m
    BY <1>1, <1>2, <1>3, <1>6, <1>7 DEF Minute
  <2>3. Second(stamp) = s
    BY <1>1, <1>2, <1>3, <1>4, <1>5 DEF Second
  <2>4. Subseconds(stamp) = f
    BY <1>2, <1>3, <1>4 DEF Subseconds
  <2>. QED BY <2>1, <2>2, <2>3, <2>4
<1>. QED BY <1>1, <1>2, <1>3, <1>4, <1>9, <1>10, <1>11

-----------------------------------------------------------------------------
(* What every operation leaves.                                            *)

TimeInv == ticks \in Ticks /\ left \in ValidStamps /\ right \in ValidStamps

\* A time point outside the years is the nearer end of them.
LEMMA OfTimePointIs ==
    ASSUME ticks \in Ticks, NEW point \in Int
    PROVE  OfTimePoint(point) \in ValidStamps
  <1>1. PICK n \in Nat \ {0} : n = Nanos
    BY TicksFacts
  <1>2. Epoch \in ValidStamps /\ Epoch \in Stamps
    BY <1>1, EpochFacts DEF ValidStamps
  <1>3. PICK first \in Int, end \in Int, local \in Int :
           first = FirstSecond /\ end = EndSecond /\ first <= local /\ local < end
    BY <1>1, <1>2, StampFacts, UnitsFacts
  <1>4. FromTimePoint(point) = None \/ FromTimePoint(point) \in ValidStamps
    <2>1. PICK whole : whole = point \div ticks
      OBVIOUS
    <2> QED  BY <2>1, FromTimePointIs
  <1>5. SetLocal(Epoch, FirstSecond, 0) \in ValidStamps
    <2>1. PICK l \in Int, f \in 0..(n - 1) : l = FirstSecond /\ f = 0
      BY <1>3
    <2>2. FirstSecond <= l /\ l < EndSecond /\ f \in 0..(Nanos - 1)
      BY <1>1, <1>3, <2>1
    <2>3. SetLocal(Epoch, l, f) \in ValidStamps
      BY <1>1, <1>2, <2>2, SetLocalIs
    <2> QED  BY <2>1, <2>3
  <1>6. SetLocal(Epoch, EndSecond - 1, Nanos - 1) \in ValidStamps
    <2>1. PICK l \in Int, f \in 0..(n - 1) : l = EndSecond - 1 /\ f = Nanos - 1
      BY <1>1, <1>3
    <2>2. FirstSecond <= l /\ l < EndSecond /\ f \in 0..(Nanos - 1)
      BY <1>1, <1>3, <2>1
    <2>3. SetLocal(Epoch, l, f) \in ValidStamps
      BY <1>1, <1>2, <2>2, SetLocalIs
    <2> QED  BY <2>1, <2>3
  <1>7. \/ OfTimePoint(point) = FromTimePoint(point) /\ FromTimePoint(point) # None
        \/ OfTimePoint(point) = SetLocal(Epoch, FirstSecond, 0)
        \/ OfTimePoint(point) = SetLocal(Epoch, EndSecond - 1, Nanos - 1)
    BY DEF OfTimePoint
  <1> QED  BY <1>4, <1>5, <1>6, <1>7

\* A move that does not throw stays within the years.
LEMMA MovesWithin ==
    ASSUME ticks \in Ticks, NEW stamp \in ValidStamps, NEW amount \in Integer, NEW unit \in Units
    PROVE  /\ Plus(stamp, amount, unit) = None \/ Plus(stamp, amount, unit) \in ValidStamps
           /\ Less(stamp, amount, unit) = None \/ Less(stamp, amount, unit) \in ValidStamps
  <1>1. ASSUME NEW sign \in {1, -1}, NEW moved,
               moved = IF sign = 1 THEN Plus(stamp, amount, unit) ELSE Less(stamp, amount, unit)
        PROVE  moved = None \/ moved \in ValidStamps
    <2>1. PICK target : target = LocalSeconds(stamp) + sign * amount * SecondsIn(unit)
      OBVIOUS
    <2> QED  BY <1>1, <2>1, MovedIs
  <1>2. PICK one \in {1, -1}, less \in {1, -1} : one = 1 /\ less = -1
    OBVIOUS
  <1>3. PICK plus : plus = IF one = 1 THEN Plus(stamp, amount, unit) ELSE Less(stamp, amount, unit)
    OBVIOUS
  <1>4. PICK minus : minus = IF less = 1 THEN Plus(stamp, amount, unit) ELSE Less(stamp, amount, unit)
    OBVIOUS
  <1>5. (plus = None \/ plus \in ValidStamps) /\ (minus = None \/ minus \in ValidStamps)
    BY <1>1, <1>3, <1>4
  <1> QED  BY <1>2, <1>3, <1>4, <1>5

LEMMA TimeInit == Init => TimeInv
  <1> SUFFICES ASSUME Init PROVE TimeInv
    OBVIOUS
  <1> QED  BY TicksFacts, EpochFacts DEF Init, TimeInv

LEMMA TimeStep == TimeInv /\ [Next]_vars => TimeInv'
  <1> SUFFICES ASSUME TimeInv, [Next]_vars PROVE TimeInv'
    OBVIOUS
  <1>1. ticks \in Ticks /\ left \in ValidStamps /\ right \in ValidStamps
    BY DEF TimeInv
  <1>2. Nanos \in Nat \ {0} /\ Epoch \in ValidStamps
    BY <1>1, TicksFacts, EpochFacts
  <1>3. \A stamp : stamp = None \/ stamp \in ValidStamps => OrEpoch(stamp) \in ValidStamps
    BY <1>2 DEF OrEpoch
  <1>4. CASE Build
    <2>1. PICK date \in Dates, time \in Times, zone \in Zones :
             left' = OrEpoch(FromComponents(date, time[1], time[2], time[3], ZoneOf(zone[1], zone[2])))
      BY <1>4 DEF Build
    <2>2. /\ date \in [year : Int, month : Int, day : Int]
          /\ time[1] \in Int /\ time[2] \in Int /\ time[3] \in Int /\ zone[1] \in Int /\ zone[2] \in Int
      BY InputsAssumption
    <2>3. ZoneOf(zone[1], zone[2]) \in (-MaxOffset)..MaxOffset
      BY <2>2, ZonesFit
    <2>4. PICK built : built = FromComponents(date, time[1], time[2], time[3], ZoneOf(zone[1], zone[2]))
      OBVIOUS
    <2>5. ASSUME built # None PROVE built \in ValidStamps
      <3>1. /\ date \in [year : 0..LastYear, month : 1..12, day : 1..31]
            /\ date.day <= DaysOf(date.year, date.month)
            /\ \E whole \in 0..(SecondsPerDay - 1) :
                 built = [date |-> date, time |-> whole * Nanos, zone |-> ZoneOf(zone[1], zone[2])]
        BY <1>2, <2>2, <2>3, <2>4, <2>5, FromComponentsIs
      <3>2. PICK whole \in 0..(SecondsPerDay - 1) :
               built = [date |-> date, time |-> whole * Nanos, zone |-> ZoneOf(zone[1], zone[2])]
        BY <3>1
      <3>3. PICK n \in Nat \ {0}, zero \in Int : n = Nanos /\ zero = 0 /\ zero \in 0..(n - 1)
        BY <1>2
      <3>4. whole \in Int
        BY UnitsFacts
      <3>5. whole * n + zero = whole * n
        BY <3>3, <3>4, TimesIsInt
      <3>6. built = [date |-> date, time |-> whole * Nanos + zero, zone |-> ZoneOf(zone[1], zone[2])]
        BY <3>2, <3>3, <3>5
      <3>7. zero \in 0..(Nanos - 1)
        BY <3>3
      <3> QED  BY <1>2, <2>3, <3>1, <3>6, <3>7, FractionAdds
    <2> QED  BY <1>1, <1>3, <1>4, <2>1, <2>4, <2>5 DEF Build, TimeInv
  <1>5. CASE Parse
    <2>1. ASSUME NEW date \in Dates, NEW time \in Times, NEW fraction \in Fractions, NEW zone \in Zones,
                 NEW written,
                 /\ written.date = date
                 /\ written.time = None \/ written.time = [hour |-> time[1], minute |-> time[2], second |-> time[3]]
                 /\ written.fraction \in {fraction, <<>>}
                 /\ \/ written.zone = None
                    \/ written.zone = [sign |-> IF zone[1] < 0 THEN "-" ELSE "+",
                                       hours |-> Abs(zone[1]), minutes |-> zone[2]]
          PROVE  FromString(written) = None \/ FromString(written) \in ValidStamps
      <3>1. /\ date \in [year : Int, month : Int, day : Int]
            /\ time[1] \in Int /\ time[2] \in Int /\ time[3] \in Int
            /\ zone[1] \in Int /\ zone[2] \in Int /\ Abs(zone[1]) \in Int
        <4>1. zone[1] \in Int
          BY InputsAssumption
        <4> QED  BY <4>1, InputsAssumption DEF Abs
      <3>2. FractionOf(written.fraction) \in 0..(Nanos - 1)
        <4>1. fraction \in Seq(0..9) /\ <<>> \in Seq(0..9)
          BY InputsAssumption
        <4>2. written.fraction \in Seq(0..9)
          BY <2>1, <4>1
        <4> QED  BY <4>2, FractionFits
      <3>3. /\ written.time = None \/ (/\ written.time.hour \in Int /\ written.time.minute \in Int
                                       /\ written.time.second \in Int)
            /\ written.zone = None \/ (written.zone.hours \in Int /\ written.zone.minutes \in Int)
            /\ written.date \in [year : Int, month : Int, day : Int]
        <4>1. written.time = None \/ (/\ written.time.hour \in Int /\ written.time.minute \in Int
                                      /\ written.time.second \in Int)
          BY <2>1, <3>1
        <4>2. written.zone = None \/ (written.zone.hours \in Int /\ written.zone.minutes \in Int)
          BY <2>1, <3>1
        <4> QED  BY <2>1, <3>1, <4>1, <4>2
      <3> QED  BY <1>2, <3>2, <3>3, FromStringIs
    <2>2. \E stamp : (stamp = None \/ stamp \in ValidStamps) /\ left' = OrEpoch(stamp)
      <3>1. PICK date \in Dates, time \in Times, fraction \in Fractions, zone \in Zones :
               LET text == [date |-> date, fraction |-> fraction,
                            time |-> [hour |-> time[1], minute |-> time[2], second |-> time[3]],
                            zone |-> [sign |-> IF zone[1] < 0 THEN "-" ELSE "+",
                                      hours |-> Abs(zone[1]), minutes |-> zone[2]]]
                   day == [text EXCEPT !.time = None, !.fraction = <<>>, !.zone = None]
               IN \E written \in {text, day, [text EXCEPT !.zone = None]} :
                     left' = OrEpoch(FromString(written))
        BY <1>5, Zenon DEF Parse
      <3>2. PICK text : text = [date |-> date, fraction |-> fraction,
                                time |-> [hour |-> time[1], minute |-> time[2], second |-> time[3]],
                                zone |-> [sign |-> IF zone[1] < 0 THEN "-" ELSE "+",
                                          hours |-> Abs(zone[1]), minutes |-> zone[2]]]
        OBVIOUS
      <3>3. \E written \in {text, [text EXCEPT !.time = None, !.fraction = <<>>, !.zone = None],
                            [text EXCEPT !.zone = None]} : left' = OrEpoch(FromString(written))
        BY <3>1, <3>2, Zenon
      <3>4. PICK written \in {text, [text EXCEPT !.time = None, !.fraction = <<>>, !.zone = None],
                              [text EXCEPT !.zone = None]} : left' = OrEpoch(FromString(written))
        BY <3>3
      <3>5. /\ written.date = date
            /\ written.time = None \/ written.time = [hour |-> time[1], minute |-> time[2], second |-> time[3]]
            /\ written.fraction \in {fraction, <<>>}
            /\ \/ written.zone = None
               \/ written.zone = [sign |-> IF zone[1] < 0 THEN "-" ELSE "+",
                                  hours |-> Abs(zone[1]), minutes |-> zone[2]]
        <4>1. CASE written = text
          BY <3>2, <4>1
        <4>2. CASE written = [text EXCEPT !.zone = None]
          <5>1. written = [date |-> date, fraction |-> fraction, zone |-> None,
                           time |-> [hour |-> time[1], minute |-> time[2], second |-> time[3]]]
            BY <3>2, <4>2
          <5> QED  BY <5>1
        <4>3. CASE written = [text EXCEPT !.time = None, !.fraction = <<>>, !.zone = None]
          <5>1. written = [date |-> date, fraction |-> <<>>, zone |-> None, time |-> None]
            BY <3>2, <4>3
          <5> QED  BY <5>1
        <4> QED  BY <3>4, <4>1, <4>2, <4>3
      <3>6. FromString(written) = None \/ FromString(written) \in ValidStamps
        BY <2>1, <3>5
      <3> QED  BY <3>4, <3>6
    <2> QED  BY <1>1, <1>3, <1>5, <2>2 DEF Parse, TimeInv
  <1>6. CASE Convert
    <2>1. PICK point \in Int : left' = OfTimePoint(point)
      <3>1. Points \subseteq Int
        BY <1>1, TicksFacts, InputsAssumption DEF Integer
      <3> QED  BY <1>6, <3>1 DEF Convert
    <2> QED  BY <1>1, <1>6, <2>1, OfTimePointIs DEF Convert, TimeInv
  <1>7. CASE Move
    <2>1. PICK amount \in Integer, unit \in Units :
             right' \in {Plus(left, amount, unit), Less(left, amount, unit)} \ {None}
      BY <1>7, InputsAssumption DEF Move
    <2> QED  BY <1>1, <1>7, <2>1, MovesWithin DEF Move, TimeInv
  <1>8. CASE UNCHANGED vars
    BY <1>1, <1>8 DEF vars, TimeInv
  <1> QED  BY <1>4, <1>5, <1>6, <1>7, <1>8 DEF Next

\* Whatever is built, read, converted or moved is a date that exists, a time
\* of its day and an offset of RFC 3339 (timestamp.cpp, timezone.cpp).
THEOREM TimestampsExist == Spec => []StaysInTheYears
  <1>1. TimeInv => StaysInTheYears
    <2> SUFFICES ASSUME TimeInv, NEW stamp \in ValidStamps
                 PROVE  /\ stamp.date.year \in 0..LastYear /\ stamp.date.month \in 1..12
                        /\ stamp.date.day \in 1..DaysOf(stamp.date.year, stamp.date.month)
                        /\ stamp.time \in 0..(SecondsPerDay * Nanos - 1)
                        /\ InRange(stamp.zone)
      BY DEF TimeInv, StaysInTheYears
    <2>1. /\ stamp.date \in [year : 0..LastYear, month : 1..12, day : 1..31]
          /\ stamp.time \in 0..(SecondsPerDay * Nanos - 1) /\ stamp.zone \in (-MaxOffset)..MaxOffset
          /\ stamp.date.day <= DaysOf(stamp.date.year, stamp.date.month)
      BY DEF ValidStamps, Stamps
    <2>2. DaysOf(stamp.date.year, stamp.date.month) \in 28..31
      BY DEF DaysOf
    <2>3. InRange(stamp.zone)
      BY <2>1, UnitsFacts DEF InRange
    <2> QED  BY <2>1, <2>2, <2>3
  <1> QED  BY <1>1, TimeInit, TimeStep, PTL DEF Spec

-----------------------------------------------------------------------------
(* Durations and the clock, exactly.                                       *)

\* A number of nanoseconds is of the years when its second is.
LEMMA LocalIs ==
    ASSUME Nanos \in Nat \ {0}, NEW whole \in Int, NEW rest \in 0..(Nanos - 1),
           NEW nanos, nanos = whole * Nanos + rest
    PROVE  nanos \in Int /\ (IsLocal(nanos) <=> FirstSecond <= whole /\ whole < EndSecond)
  <1>1. PICK n \in Nat \ {0}, first \in Int, end \in Int : n = Nanos /\ first = FirstSecond /\ end = EndSecond
    BY UnitsFacts
  <1>2. PICK r \in 0..(n - 1) : r = rest
    BY <1>1
  <1>3. nanos = whole * n + r
    BY <1>1, <1>2
  <1>4. PICK x \in Int : x = nanos
    BY <1>3, DivIs
  <1>5. x \div n = whole
    BY <1>3, <1>4, DivIs
  <1>6. (first * n <= x <=> first <= x \div n) /\ (x < end * n <=> x \div n < end)
    BY DivFacts
  <1>7. IsLocal(nanos) <=> first * n <= x /\ x < end * n
    BY <1>1, <1>4 DEF IsLocal
  <1> QED  BY <1>1, <1>4, <1>5, <1>6, <1>7

LEMMA ExactMoves == TimeInv => MovesExactly
  <1> SUFFICES ASSUME TimeInv, NEW amount \in Amounts, NEW unit \in Units, NEW sign \in {1, -1}
               PROVE  LET exact == LocalNanos(left) + sign * amount * SecondsIn(unit) * Nanos
                          moved == IF sign = 1 THEN Plus(left, amount, unit) ELSE Less(left, amount, unit)
                      IN IF IsLocal(exact)
                         THEN moved # None /\ LocalNanos(moved) = exact /\ moved.zone = left.zone
                         ELSE moved = None
    BY DEF MovesExactly
  <1> PICK exact : exact = LocalNanos(left) + sign * amount * SecondsIn(unit) * Nanos
    OBVIOUS
  <1> PICK moved : moved = IF sign = 1 THEN Plus(left, amount, unit) ELSE Less(left, amount, unit)
    OBVIOUS
  <1>1. ticks \in Ticks /\ left \in ValidStamps /\ amount \in Integer
    BY InputsAssumption DEF TimeInv
  <1>2. PICK n \in Nat \ {0} : n = Nanos
    BY <1>1, TicksFacts
  <1>3. PICK target : target = LocalSeconds(left) + sign * amount * SecondsIn(unit)
    OBVIOUS
  <1>4. /\ target \in Int
        /\ IF FirstSecond <= target /\ target < EndSecond
             THEN /\ moved \in ValidStamps /\ moved.zone = left.zone
                  /\ LocalSeconds(moved) = target /\ Subseconds(moved) = Subseconds(left)
             ELSE moved = None
    BY <1>1, <1>3, MovedIs
  <1>5. PICK local \in Int, rest \in 0..(n - 1) : local = LocalSeconds(left) /\ rest = Subseconds(left)
    BY <1>1, <1>2, StampFacts
  <1>6. PICK goal \in Int, by \in Int : goal = target /\ goal = local + by /\ by = sign * amount * SecondsIn(unit)
    <2>1. sign * amount * SecondsIn(unit) \in Int
      <3>1. sign \in Int /\ amount \in Int /\ SecondsIn(unit) \in Int
        BY <1>1, TicksFacts, UnitsFacts DEF Integer
      <3>2. PICK u \in Int : u = SecondsIn(unit)
        BY <3>1
      <3>3. sign * amount \in Int
        BY <3>1, TimesIsInt
      <3> QED  BY <3>2, <3>3, TimesIsInt
    <2> QED  BY <1>3, <1>4, <1>5, <2>1
  <1>7. exact = goal * n + rest
    <2>1. goal * n = local * n + by * n /\ local * n \in Int /\ by * n \in Int /\ rest \in Int
      BY <1>6
    <2>2. exact = (local * n + rest) + by * n
      BY <1>2, <1>5, <1>6 DEF LocalNanos
    <2> QED  BY <2>1, <2>2
  <1>8. IsLocal(exact) <=> FirstSecond <= goal /\ goal < EndSecond
    <2>1. Nanos \in Nat \ {0} /\ rest \in 0..(Nanos - 1) /\ exact = goal * Nanos + rest
      BY <1>2, <1>7
    <2> QED  BY <2>1, LocalIs
  <1>9. CASE FirstSecond <= goal /\ goal < EndSecond
    <2>1. moved \in ValidStamps /\ moved.zone = left.zone /\ LocalSeconds(moved) = goal /\ Subseconds(moved) = rest
      BY <1>4, <1>5, <1>6, <1>9
    <2>2. moved # None
      BY <2>1, NotNone DEF ValidStamps
    <2>3. LocalNanos(moved) = exact
      BY <1>2, <1>7, <2>1 DEF LocalNanos
    <2> QED  BY <1>8, <1>9, <2>1, <2>2, <2>3
  <1>10. CASE ~(FirstSecond <= goal /\ goal < EndSecond)
    BY <1>4, <1>6, <1>8, <1>10
  <1> QED  BY <1>9, <1>10

LEMMA ExactDifferences == TimeInv => DifferenceIsExact
  <1> SUFFICES ASSUME TimeInv, NEW exact, exact = InstantNanos(left) - InstantNanos(right),
                      NEW count, count = Truncated(exact, NanosPerTick)
               PROVE  /\ DurationSince(left, right) = IF IsDuration(count) THEN count ELSE None
                      /\ Minus(left, right) = IF IsDuration(count) THEN count
                                              ELSE IF exact < 0 THEN -Width ELSE Width - 1
    BY Zenon DEF DifferenceIsExact
  <1>1. ticks \in Ticks /\ left \in ValidStamps /\ right \in ValidStamps
    BY DEF TimeInv
  <1>2. /\ exact \in Int /\ count \in Int
        /\ DurationSince(left, right) = IF count \in Integer THEN count ELSE None
        /\ Before(Instant(left), Instant(right)) <=> exact < 0
    BY <1>1, DifferenceIs
  <1>3. count # None
    BY <1>2, NotNone
  <1> QED  BY <1>2, <1>3 DEF IsDuration, Minus

\* Adding, subtracting and the difference of two timestamps are exact, or say
\* that they would leave the years or the clock's durations (timestamp.cpp).
THEOREM ExactDurations == Spec => []DurationsAreExact
  <1>1. TimeInv => DurationsAreExact
    BY ExactMoves, ExactDifferences DEF DurationsAreExact
  <1> QED  BY <1>1, TimeInit, TimeStep, PTL DEF Spec

\* A timestamp beyond the clock is the end of the clock's durations nearest to it.
LEMMA AsTimePointIs ==
    ASSUME ticks \in Ticks, NEW stamp \in ValidStamps,
           NEW count, count = InstantNanos(stamp) \div NanosPerTick
    PROVE  /\ count \in Int
           /\ AsTimePoint(stamp) = IF count < -Width THEN -Width
                                   ELSE IF count > Width - 1 THEN Width - 1 ELSE count
  <1>1. PICK w \in Nat \ {0} : w = Width
    BY TicksFacts
  <1>2. /\ count \in Int /\ (Instant(stamp).seconds < 0 <=> count < 0)
        /\ ToTimePoint(stamp) = IF count \in Integer THEN count ELSE None
    BY ToTimePointIs
  <1>3. count # None
    BY <1>2, NotNone
  <1>4. count \in Integer <=> -w <= count /\ count <= w - 1
    BY <1>1, <1>2 DEF Integer
  <1>5. CASE count \in Integer
    <2>1. ToTimePoint(stamp) = count /\ ToTimePoint(stamp) # None
      BY <1>2, <1>3, <1>5
    <2>2. AsTimePoint(stamp) = count
      BY <2>1 DEF AsTimePoint
    <2> QED  BY <1>1, <1>2, <1>4, <1>5, <2>2
  <1>6. CASE count \notin Integer
    <2>1. ToTimePoint(stamp) = None
      BY <1>2, <1>6
    <2>2. AsTimePoint(stamp) = IF Instant(stamp).seconds < 0 THEN -Width ELSE Width - 1
      BY <2>1 DEF AsTimePoint
    <2>3. AsTimePoint(stamp) = IF count < 0 THEN -Width ELSE Width - 1
      BY <1>2, <2>2
    <2> QED  BY <1>1, <1>2, <1>4, <1>6, <2>3
  <1> QED  BY <1>5, <1>6

LEMMA OrderedClock == TimeInv => ClockKeepsOrder
  <1> SUFFICES ASSUME TimeInv, NEW count, count = InstantNanos(left) \div NanosPerTick,
                      NEW point, point = ToTimePoint(left)
               PROVE  /\ point = IF IsDuration(count) THEN count ELSE None
                      /\ point # None /\ FromTimePoint(point) # None
                           => InstantNanos(FromTimePoint(point)) = count * NanosPerTick
                      /\ InstantNanos(left) <= InstantNanos(right)
                           => AsTimePoint(left) <= AsTimePoint(right)
    BY Zenon DEF ClockKeepsOrder
  <1>1. ticks \in Ticks /\ left \in ValidStamps /\ right \in ValidStamps
    BY DEF TimeInv
  <1>2. count \in Int /\ point = IF count \in Integer THEN count ELSE None
    BY <1>1, ToTimePointIs
  <1>3. ASSUME point # None, FromTimePoint(point) # None
        PROVE  InstantNanos(FromTimePoint(point)) = count * NanosPerTick
    <2>1. point = count
      BY <1>2, <1>3
    <2>2. PICK c \in Int : c = count
      BY <1>2
    <2>3. PICK whole : whole = c \div ticks
      OBVIOUS
    <2>4. FromTimePoint(c) # None => InstantNanos(FromTimePoint(c)) = c * NanosPerTick
      BY <1>1, <2>3, FromTimePointIs
    <2> QED  BY <1>3, <2>1, <2>2, <2>4
  <1>4. ASSUME InstantNanos(left) <= InstantNanos(right)
        PROVE  AsTimePoint(left) <= AsTimePoint(right)
    <2>1. PICK x \in Int, y \in Int, p \in Nat \ {0} :
             x = InstantNanos(left) /\ y = InstantNanos(right) /\ p = NanosPerTick /\ x <= y
      BY <1>1, <1>4, InstantFacts, TicksFacts
    <2>2. PICK other : other = InstantNanos(right) \div NanosPerTick
      OBVIOUS
    <2>3. PICK a \in Int, b \in Int : a = x \div p /\ b = y \div p
      BY DivFacts
    <2>4. a <= b
      <3>1. a * p <= x /\ a * p \in Int
        BY <2>3, DivFacts
      <3>2. a * p <= y
        BY <2>1, <3>1
      <3> QED  BY <2>3, <3>2, DivFacts
    <2>5. a = count /\ b = other
      BY <2>1, <2>2, <2>3
    <2>6. PICK w \in Nat \ {0} : w = Width
      BY <1>1, TicksFacts
    <2>7. AsTimePoint(left) = IF a < -w THEN -w ELSE IF a > w - 1 THEN w - 1 ELSE a
      BY <1>1, <2>5, <2>6, AsTimePointIs
    <2>8. AsTimePoint(right) = IF b < -w THEN -w ELSE IF b > w - 1 THEN w - 1 ELSE b
      BY <1>1, <2>2, <2>5, <2>6, AsTimePointIs
    <2> QED  BY <2>4, <2>7, <2>8
  <1> QED  BY <1>2, <1>3, <1>4 DEF IsDuration

LEMMA ExactPoints == TimeInv => PointIsExact
  <1> SUFFICES ASSUME TimeInv, NEW point \in Points
               PROVE  LET exact == point * NanosPerTick
                          stamp == FromTimePoint(point)
                      IN IF IsLocal(exact) THEN stamp # None /\ InstantNanos(stamp) = exact
                         ELSE stamp = None
    BY DEF PointIsExact
  <1> PICK exact : exact = point * NanosPerTick
    OBVIOUS
  <1> PICK stamp : stamp = FromTimePoint(point)
    OBVIOUS
  <1>1. ticks \in Ticks /\ Width \in Nat
    BY TicksFacts DEF TimeInv
  <1>2. PICK x \in Int : x = point
    BY <1>1, InputsAssumption DEF Integer
  <1>3. PICK t \in Nat \ {0}, p \in Nat \ {0}, m \in Nat \ {0} :
           t = ticks /\ p = NanosPerTick /\ m = Nanos /\ m = t * p
    BY <1>1, TicksFacts
  <1>4. PICK whole : whole = x \div ticks
    OBVIOUS
  <1>5. /\ whole \in Int
        /\ IF FirstSecond <= whole /\ whole < EndSecond
             THEN FromTimePoint(x) \in ValidStamps /\ InstantNanos(FromTimePoint(x)) = x * NanosPerTick
             ELSE FromTimePoint(x) = None
    BY <1>1, <1>4, FromTimePointIs
  <1>6. PICK q \in Int, r \in 0..(t - 1) : q = whole /\ x = q * t + r
    <2>1. x \div t \in Int /\ x % t \in 0..(t - 1) /\ x = (x \div t) * t + (x % t)
      BY DivFacts
    <2> QED  BY <1>3, <1>4, <2>1
  <1>7. PICK fraction : fraction = r * p
    OBVIOUS
  <1>8. fraction \in 0..(m - 1)
    <2>1. PICK zero \in 0..(p - 1) : zero = 0
      OBVIOUS
    <2>2. r * p + zero \in 0..(t * p - 1)
      BY Nested
    <2>3. r * p \in Int
      OBVIOUS
    <2> QED  BY <1>3, <1>7, <2>1, <2>2, <2>3
  <1>9. exact = q * Nanos + fraction
    <2>1. q * m = (q * t) * p
      BY <1>3
    <2>2. x * p = (q * t) * p + r * p
      BY <1>6
    <2> QED  BY <1>2, <1>3, <1>7, <2>1, <2>2
  <1>10. IsLocal(exact) <=> FirstSecond <= whole /\ whole < EndSecond
    <2>1. Nanos \in Nat \ {0} /\ fraction \in 0..(Nanos - 1)
      BY <1>3, <1>8
    <2> QED  BY <1>6, <1>9, <2>1, LocalIs
  <1>11. ASSUME NEW s \in ValidStamps PROVE s # None
    BY NotNone DEF ValidStamps
  <1> QED  BY <1>2, <1>5, <1>10, <1>11

\* A time point of the clock is a timestamp and back without losing a tick,
\* and the ends of either keep the order (timestamp.cpp).
THEOREM ExactClock == Spec => []ClockIsExact
  <1>1. TimeInv => ClockIsExact
    BY OrderedClock, ExactPoints DEF ClockIsExact
  <1> QED  BY <1>1, TimeInit, TimeStep, PTL DEF Spec

-----------------------------------------------------------------------------
(* A timestamp reads its own text back.                                    *)

LEMMA TextIsExact ==
    ASSUME Nanos \in Nat \ {0}, NEW stamp \in ValidStamps
    PROVE  FromString(FormatIso8601(stamp)) = stamp
  <1>1. PICK date \in [year : 0..LastYear, month : 1..12, day : 1..31],
             time \in 0..(SecondsPerDay * Nanos - 1), zone \in (-MaxOffset)..MaxOffset :
           stamp = [date |-> date, time |-> time, zone |-> zone] /\ date.day <= DaysOf(date.year, date.month)
    <2>1. /\ stamp.date \in [year : 0..LastYear, month : 1..12, day : 1..31]
          /\ stamp.time \in 0..(SecondsPerDay * Nanos - 1) /\ stamp.zone \in (-MaxOffset)..MaxOffset
          /\ stamp.date.day <= DaysOf(stamp.date.year, stamp.date.month)
          /\ stamp = [date |-> stamp.date, time |-> stamp.time, zone |-> stamp.zone]
      BY DEF ValidStamps, Stamps
    <2> QED  BY <2>1
  <1>2. PICK hour \in 0..(HoursPerDay - 1), minute \in 0..(MinutesPerHour - 1),
             second \in 0..(SecondsPerMinute - 1), nanos \in 0..(Nanos - 1), whole \in 0..(SecondsPerDay - 1) :
           /\ hour = Hour(stamp) /\ minute = Minute(stamp) /\ second = Second(stamp) /\ nanos = Subseconds(stamp)
           /\ whole = hour * SecondsPerHour + minute * SecondsPerMinute + second
           /\ whole * Nanos + nanos = time
    <2>1. stamp \in Stamps /\ stamp.time = time
      BY <1>1 DEF ValidStamps
    <2> QED  BY <2>1, TimeReadsBack
  <1>3. PICK clock : clock = [hour |-> hour, minute |-> minute, second |-> second]
    OBVIOUS
  <1>4. PICK text : text = [date |-> date, time |-> clock, fraction |-> FractionText(nanos),
                            zone |-> ZoneText(zone)]
    OBVIOUS
  <1>5. FormatIso8601(stamp) = text
    BY <1>1, <1>2, <1>3, <1>4 DEF FormatIso8601
  <1>6. text.time # None /\ text.zone # None
    <2>1. hour \in Int /\ minute \in Int /\ second \in Int
      BY UnitsFacts
    <2>2. clock \in [hour : Int, minute : Int, second : Int]
      BY <1>3, <2>1
    <2> QED  BY <1>4, <2>2, InputsAssumption
  <1>7. zone # None
    <2>1. zone \in Int
      BY UnitsFacts
    <2> QED  BY <2>1, InputsAssumption
  <1>8. PICK built : built = [date |-> date, zone |-> zone, time |-> whole * Nanos]
    OBVIOUS
  <1>9. FromComponents(date, hour, minute, second, zone) = built
    <2>1. date.year \in 0..LastYear /\ date.month \in 1..12 /\ date.day \in 1..DaysOf(date.year, date.month)
      BY <1>1 DEF DaysOf
    <2> QED  BY <1>2, <1>8, <2>1 DEF FromComponents
  <1>10. built # None
    <2>1. whole * Nanos \in 0..(SecondsPerDay * Nanos - 1)
      <3>0. PICK n \in Nat \ {0}, days \in Nat \ {0} : n = Nanos /\ days = SecondsPerDay
        BY UnitsFacts
      <3>1. PICK zero \in 0..(n - 1) : zero = 0
        BY <3>0
      <3>2. whole * n + zero \in 0..(days * n - 1)
        BY <3>0, Nested
      <3>3. whole * n + zero = whole * n
        <4>1. whole * n \in Int
          BY <3>0, TimesIsInt
        <4> QED  BY <3>1, <4>1
      <3> QED  BY <3>0, <3>2, <3>3
    <2>2. built \in Stamps
      BY <1>8, <2>1 DEF Stamps
    <2> QED  BY <2>2, InputsAssumption
  <1>11. FromString(text) = [built EXCEPT !.time = @ + FractionOf(text.fraction)]
    <2>1. ZoneFromText(text.zone) = zone
      BY <1>4, ZoneReadsBack
    <2>2. FromComponents(text.date, text.time.hour, text.time.minute, text.time.second, zone) = built
      BY <1>3, <1>4, <1>9
    <2> QED  BY <1>6, <1>7, <1>10, <2>1, <2>2 DEF FromString
  <1>12. FractionOf(text.fraction) = nanos
    BY <1>4, FractionReadsBack
  <1>13. [built EXCEPT !.time = @ + nanos] = [date |-> date, time |-> whole * Nanos + nanos, zone |-> zone]
    BY <1>8
  <1> QED  BY <1>1, <1>2, <1>5, <1>11, <1>12, <1>13

\* The text of every timestamp a program can hold, whatever built or moved it,
\* reads back as that timestamp: no digit of the fraction, of the time or of
\* the offset is lost (timestamp.cpp:269, :525).
THEOREM TextIsReadBack == Spec => []TextReadsBack
  <1>1. TimeInv => TextReadsBack
    BY TicksFacts, TextIsExact DEF TimeInv, TextReadsBack
  <1> QED  BY <1>1, TimeInit, TimeStep, PTL DEF Spec
=============================================================================
