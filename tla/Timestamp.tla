----------------------------- MODULE Timestamp -----------------------------
(***************************************************************************)
(* A timestamp of timestamp.cpp is a date, a time of day in nanoseconds    *)
(* and a timezone of timezone.cpp, kept within the years 0 to LastYear.    *)
(* It is built from components, text or a time point of the system clock,  *)
(* moved by durations, compared, subtracted and written back as text.      *)
(* Every one of these crosses a limit: the years, the int64 that counts    *)
(* seconds, and the duration of the clock, which is narrower than the      *)
(* years where it counts nanoseconds and wider where it counts             *)
(* microseconds.                                                           *)
(*                                                                         *)
(* The units are scaled down so that TLC reaches every limit: a day has    *)
(* few seconds, a second 10^FractionDigits nanoseconds, and the integers   *)
(* of std::chrono go from -Width to Width - 1.  The calendar is the real   *)
(* one.  The text is the record of its fields, its fraction a sequence of  *)
(* digits.                                                                 *)
(***************************************************************************)
EXTENDS Digits

CONSTANTS
    LastYear,          \* 9999
    EpochYear,         \* 1970
    YearWidth,         \* 2^15: std::chrono::year counts from -YearWidth
    Width,             \* 2^63: the integer of a duration counts from -Width
    HoursPerDay, MinutesPerHour, SecondsPerMinute,
    FractionDigits,    \* 9
    Ticks,             \* the ticks a clock counts in a second, one per build
    None               \* std::nullopt

ASSUME ConstantsAssumption ==
    /\ LastYear \in Nat /\ EpochYear \in 0..LastYear
    /\ YearWidth \in Nat /\ YearWidth > LastYear
    /\ {HoursPerDay, MinutesPerHour, SecondsPerMinute} \subseteq Nat \ {0}
    /\ FractionDigits \in Nat \ {0}
    /\ Ticks \subseteq 1..PowerOfTen[FractionDigits]
    /\ \A n \in Ticks : PowerOfTen[FractionDigits] % n = 0
    /\ Width \in Nat /\ Width > PowerOfTen[FractionDigits]

VARIABLES
    ticks,    \* ticks per second of the system clock of this build
    left,     \* a timestamp
    right     \* another one

vars == <<ticks, left, right>>

Nanos == PowerOfTen[FractionDigits]
NanosPerTick == Nanos \div ticks
SecondsPerHour == MinutesPerHour * SecondsPerMinute
SecondsPerDay == HoursPerDay * SecondsPerHour
Integer == (-Width)..(Width - 1)

\* What the machine keeps of an integer.
Wrapped(n) == ((n + Width) % (2 * Width)) - Width

\* Division that truncates, as duration_cast does; \div floors.
Truncated(n, by) == IF n >= 0 THEN n \div by ELSE -((-n) \div by)

-----------------------------------------------------------------------------
(* The calendar of std::chrono.                                            *)

IsLeap(year) == year % 4 = 0 /\ (year % 100 # 0 \/ year % 400 = 0)

DaysOf(year, month) ==
    CASE month = 2 -> IF IsLeap(year) THEN 29 ELSE 28
      [] month \in {4, 6, 9, 11} -> 30
      [] OTHER -> 31

\* The days from the first day of the year 0 to the first of the year.
YearStart(year) ==
    365 * year + (year + 3) \div 4 - (year + 99) \div 100 + (year + 399) \div 400

\* The days of a year before each of its months.
MonthStart(year, month) ==
    (367 * month - 362) \div 12
    - (IF month <= 2 THEN 0 ELSE IF IsLeap(year) THEN 1 ELSE 2)

DaysFromDate(date) ==
    YearStart(date.year) + MonthStart(date.year, date.month) + date.day - 1
    - YearStart(EpochYear)

YearOf(since) ==
    LET guess == since \div 366
    IN CHOOSE y \in (guess - 2)..(guess + 2 + since \div 50000) :
            YearStart(y) <= since /\ since < YearStart(y + 1)

MonthOf(year, rest) ==
    CHOOSE m \in 1..12 :
        MonthStart(year, m) <= rest /\ rest < MonthStart(year, m) + DaysOf(year, m)

\* year_month_day{ days }: the year keeps its low bits only.
DateFromDays(days) ==
    LET since == days + YearStart(EpochYear)
        year == YearOf(since)
        rest == since - YearStart(year)
        month == MonthOf(year, rest)
    IN [year |-> ((year + YearWidth) % (2 * YearWidth)) - YearWidth,
        month |-> month, day |-> rest - MonthStart(year, month) + 1]

FirstSecond == (YearStart(0) - YearStart(EpochYear)) * SecondsPerDay
EndSecond == (YearStart(LastYear + 1) - YearStart(EpochYear)) * SecondsPerDay

-----------------------------------------------------------------------------
(* The timezone: minutes east of UTC.                                      *)

MaxOffset == (HoursPerDay - 1) * MinutesPerHour + MinutesPerHour - 1
InRange(minutes) == -MaxOffset <= minutes /\ minutes <= MaxOffset
Utc == 0

Abs(n) == IF n < 0 THEN -n ELSE n

\* timezone::offset(): anything out of range is UTC.
ZoneOf(hours, minutes) ==
    LET total == Abs(hours) * MinutesPerHour + minutes
        signed == IF hours < 0 THEN -total ELSE total
    IN IF minutes \in 0..(MinutesPerHour - 1) /\ InRange(signed) THEN signed ELSE Utc

\* The text of a timezone is Z or a sign, hours and minutes.
ZoneText(zone) ==
    IF zone = 0 THEN [sign |-> "Z"]
    ELSE [sign |-> IF zone >= 0 THEN "+" ELSE "-",
          hours |-> Abs(zone) \div MinutesPerHour, minutes |-> Abs(zone) % MinutesPerHour]

ZoneFromText(text) ==
    IF text.sign = "Z" THEN Utc
    ELSE LET total == text.hours * MinutesPerHour + text.minutes
             signed == IF text.sign = "-" THEN -total ELSE total
         IN IF text.minutes < MinutesPerHour /\ InRange(signed) THEN signed ELSE None

-----------------------------------------------------------------------------
(* The parts of a timestamp and the instant they name.                     *)

Epoch == [date |-> [year |-> EpochYear, month |-> 1, day |-> 1],
          time |-> 0, zone |-> Utc]

Subseconds(stamp) == stamp.time % Nanos

LocalSeconds(stamp) ==
    DaysFromDate(stamp.date) * SecondsPerDay + stamp.time \div Nanos

\* Seconds and nanoseconds since the epoch in UTC.
Instant(stamp) ==
    [seconds |-> LocalSeconds(stamp) - stamp.zone * SecondsPerMinute,
     nanos |-> Subseconds(stamp)]

Before(a, b) ==
    \/ a.seconds < b.seconds
    \/ a.seconds = b.seconds /\ a.nanos < b.nanos

SetLocal(stamp, local, fraction) ==
    [stamp EXCEPT !.date = DateFromDays(local \div SecondsPerDay),
                  !.time = (local % SecondsPerDay) * Nanos + fraction]

Hour(stamp) == stamp.time \div (SecondsPerHour * Nanos)
Minute(stamp) == (stamp.time \div (SecondsPerMinute * Nanos)) % MinutesPerHour
Second(stamp) == (stamp.time \div Nanos) % SecondsPerMinute

-----------------------------------------------------------------------------
(* Building one.                                                           *)

FromComponents(date, hour, minute, second, zone) ==
    IF /\ date.year \in 0..LastYear
       /\ date.month \in 1..12
       /\ date.day \in 1..DaysOf(date.year, date.month)
       /\ hour \in 0..(HoursPerDay - 1)
       /\ minute \in 0..(MinutesPerHour - 1)
       /\ second \in 0..(SecondsPerMinute - 1)
    THEN [date |-> date, zone |-> zone,
          time |-> (hour * SecondsPerHour + minute * SecondsPerMinute + second) * Nanos]
    ELSE None

\* Digits below a nanosecond are dropped, those missing are zero.
FractionOf(digits) ==
    ValueOf([i \in 1..FractionDigits |-> IF i <= Len(digits) THEN digits[i] ELSE 0])

\* A text without a time is a date at midnight, one without a zone is UTC.
FromString(text) ==
    LET zone == IF text.zone = None THEN Utc ELSE ZoneFromText(text.zone)
        built == IF text.time = None THEN FromComponents(text.date, 0, 0, 0, zone)
                 ELSE FromComponents(text.date, text.time.hour, text.time.minute,
                                     text.time.second, zone)
    IN IF zone = None \/ built = None THEN None
       ELSE [built EXCEPT !.time = @ + FractionOf(text.fraction)]

\* The earliest time points truncate first: their floor does not fit.
Whole(point) ==
    LET whole == Truncated(point, ticks)
    IN IF point - whole * ticks < 0 THEN whole - 1 ELSE whole

FromTimePoint(point) ==
    IF FirstSecond <= Whole(point) /\ Whole(point) < EndSecond
    THEN SetLocal(Epoch, Whole(point), (point - Whole(point) * ticks) * NanosPerTick)
    ELSE None

\* The constructor takes the nearer end of the years instead of nothing.
OfTimePoint(point) ==
    IF FromTimePoint(point) # None THEN FromTimePoint(point)
    ELSE IF Whole(point) < FirstSecond THEN SetLocal(Epoch, FirstSecond, 0)
    ELSE SetLocal(Epoch, EndSecond - 1, Nanos - 1)

OrEpoch(stamp) == IF stamp = None THEN Epoch ELSE stamp

-----------------------------------------------------------------------------
(* Durations and time points of the clock.                                 *)

\* A second moves from one term to the other, so that both have one sign.
WithTheSameSign(seconds, nanos) ==
    CASE seconds < 0 /\ nanos > 0 -> [seconds |-> seconds + 1, nanos |-> nanos - Nanos]
      [] seconds > 0 /\ nanos < 0 -> [seconds |-> seconds - 1, nanos |-> nanos + Nanos]
      [] OTHER -> [seconds |-> seconds, nanos |-> nanos]

\* Nothing when the duration of the clock cannot hold the sum.
InClockDuration(seconds, subseconds) ==
    LET whole == Wrapped(seconds * ticks)
    IN IF \/ seconds > Truncated(Width - 1, ticks)
          \/ seconds < Truncated(-Width, ticks)
          \/ whole > 0 /\ subseconds > Width - 1 - whole
          \/ whole < 0 /\ subseconds < -Width - whole
       THEN None
       ELSE Wrapped(whole + subseconds)

ToTimePoint(stamp) ==
    LET parts == WithTheSameSign(Instant(stamp).seconds, Instant(stamp).nanos)
    IN InClockDuration(parts.seconds, parts.nanos \div NanosPerTick)

\* As a bug would have it: the nearer end is told by the local time.
AsTimePointOfLocal(stamp) ==
    IF ToTimePoint(stamp) # None THEN ToTimePoint(stamp)
    ELSE IF LocalSeconds(stamp) < 0 THEN Width - 1 ELSE -Width

AsTimePoint(stamp) ==
    IF ToTimePoint(stamp) # None THEN ToTimePoint(stamp)
    ELSE IF Instant(stamp).seconds < 0 THEN -Width ELSE Width - 1

DurationSince(stamp, other) ==
    LET parts == WithTheSameSign(Instant(stamp).seconds - Instant(other).seconds,
                                 Instant(stamp).nanos - Instant(other).nanos)
    IN InClockDuration(parts.seconds, Truncated(parts.nanos, NanosPerTick))

Minus(stamp, other) ==
    IF DurationSince(stamp, other) # None THEN DurationSince(stamp, other)
    ELSE IF Before(Instant(stamp), Instant(other)) THEN -Width ELSE Width - 1

-----------------------------------------------------------------------------
(* Moving one by a duration of seconds, minutes or hours.                  *)

SecondsIn(unit) ==
    CASE unit = "seconds" -> 1
      [] unit = "minutes" -> SecondsPerMinute
      [] unit = "hours" -> SecondsPerHour

\* As a bug would have it: the duration converts before it is compared.
InSecondsUnchecked(amount, unit) == Wrapped(amount * SecondsIn(unit))

\* Compared in its own unit: more minutes than seconds can count overflow.
InSeconds(amount, unit) ==
    IF \/ amount > Truncated(Width - 1, SecondsIn(unit))
       \/ amount < Truncated(-Width, SecondsIn(unit))
    THEN None
    ELSE amount * SecondsIn(unit)

\* As a bug would have it: the distances are those of the instant in UTC.
AddFromInstant(stamp, seconds) ==
    LET utc == Instant(stamp).seconds
    IN IF seconds < FirstSecond - utc \/ seconds >= EndSecond - utc THEN None
       ELSE SetLocal(stamp, LocalSeconds(stamp) + seconds, Subseconds(stamp))

\* Compared as distances from here, which cannot overflow, before adding.
Add(stamp, seconds) ==
    LET local == LocalSeconds(stamp)
    IN IF seconds < FirstSecond - local \/ seconds >= EndSecond - local THEN None
       ELSE SetLocal(stamp, local + seconds, Subseconds(stamp))

Subtract(stamp, seconds) ==
    IF seconds = -Width THEN None ELSE Add(stamp, Wrapped(-seconds))

\* The operators throw where the result is None.
Plus(stamp, amount, unit) ==
    IF InSeconds(amount, unit) = None THEN None
    ELSE Add(stamp, InSeconds(amount, unit))

Less(stamp, amount, unit) ==
    IF InSeconds(amount, unit) = None THEN None
    ELSE Subtract(stamp, InSeconds(amount, unit))

-----------------------------------------------------------------------------
(* The ISO 8601 text.                                                      *)

\* As a bug would have it: the digits of the number, without its zeros.
FractionTextUnpadded(nanos) ==
    SelectSeq(DigitsOf(nanos, FractionDigits), LAMBDA d : d # 0)

\* As many digits as the fraction needs, none for a whole second.
FractionText(nanos) == DropTrailing(DigitsOf(nanos, FractionDigits))

FormatIso8601(stamp) ==
    [date |-> stamp.date,
     time |-> [hour |-> Hour(stamp), minute |-> Minute(stamp), second |-> Second(stamp)],
     fraction |-> FractionText(Subseconds(stamp)),
     zone |-> ZoneText(stamp.zone)]

-----------------------------------------------------------------------------
CONSTANTS Dates, Times, Zones, Fractions, Points, Amounts, Steps
    \* what callers pass: dates, valid or not; <<hour, minute, second>>;
    \* <<hours, minutes>> of an offset; digit sequences; time points; amounts
    \* of a duration, and those of them that a timestamp really moves by

Units == {"seconds", "minutes", "hours"}

Stamps ==
    [date : [year : 0..LastYear, month : 1..12, day : 1..31],
     time : 0..(SecondsPerDay * Nanos - 1), zone : (-MaxOffset)..MaxOffset]

\* The integer of a duration counts every second from one year to another.
ASSUME InputsAssumption ==
    /\ EndSecond - FirstSecond <= Width
    /\ None \notin Int /\ None \notin Stamps
    /\ None \notin [hour : Int, minute : Int, second : Int]
    /\ \A zone \in (-MaxOffset)..MaxOffset : ZoneText(zone) # None
    /\ Dates \subseteq [year : Int, month : Int, day : Int]
    /\ Times \subseteq Int \X Int \X Int /\ Zones \subseteq Int \X Int
    /\ Fractions \subseteq Seq(0..9)
    /\ Points \subseteq Integer /\ Amounts \subseteq Integer /\ Steps \subseteq Integer

Init ==
    /\ ticks \in Ticks
    /\ left = Epoch
    /\ right = Epoch

Build ==
    /\ \E date \in Dates, time \in Times, zone \in Zones :
          left' = OrEpoch(FromComponents(date, time[1], time[2], time[3],
                                         ZoneOf(zone[1], zone[2])))
    /\ UNCHANGED <<ticks, right>>

Parse ==
    /\ \E date \in Dates, time \in Times, fraction \in Fractions, zone \in Zones :
          LET text == [date |-> date, fraction |-> fraction,
                       time |-> [hour |-> time[1], minute |-> time[2], second |-> time[3]],
                       zone |-> [sign |-> IF zone[1] < 0 THEN "-" ELSE "+",
                                 hours |-> Abs(zone[1]), minutes |-> zone[2]]]
              day == [text EXCEPT !.time = None, !.fraction = <<>>, !.zone = None]
          IN \E written \in {text, day, [text EXCEPT !.zone = None]} :
                left' = OrEpoch(FromString(written))
    /\ UNCHANGED <<ticks, right>>

Convert ==
    /\ \E point \in Points : left' = OfTimePoint(point)
    /\ UNCHANGED <<ticks, right>>

\* A duration that leaves the years throws, and changes nothing.
Move ==
    /\ \E amount \in Steps, unit \in Units :
          \E moved \in {Plus(left, amount, unit), Less(left, amount, unit)} \ {None} :
              right' = moved
    /\ UNCHANGED <<ticks, left>>

Next == Build \/ Parse \/ Convert \/ Move

Spec == Init /\ [][Next]_vars

-----------------------------------------------------------------------------
(* What the operations promise, in integers that have no limit.            *)

LocalNanos(stamp) == LocalSeconds(stamp) * Nanos + Subseconds(stamp)
InstantNanos(stamp) == LocalNanos(stamp) - stamp.zone * SecondsPerMinute * Nanos
IsLocal(nanos) == FirstSecond * Nanos <= nanos /\ nanos < EndSecond * Nanos
IsDuration(count) == count \in Integer

\* A timestamp is a date that exists, a time within its day and an offset
\* within the range of RFC 3339, whatever built or moved it.
StaysInTheYears ==
    \A stamp \in {left, right} :
        /\ stamp.date.year \in 0..LastYear
        /\ stamp.date.month \in 1..12
        /\ stamp.date.day \in 1..DaysOf(stamp.date.year, stamp.date.month)
        /\ stamp.time \in 0..(SecondsPerDay * Nanos - 1)
        /\ InRange(stamp.zone)

\* Adding and subtracting a duration of any unit and size moves the local
\* time by exactly that much and keeps the offset, or reports that it would
\* leave the years; no conversion, negation or sum on the way overflows.
MovesExactly ==
    \A amount \in Amounts, unit \in Units, sign \in {1, -1} :
        LET exact == LocalNanos(left) + sign * amount * SecondsIn(unit) * Nanos
            moved == IF sign = 1 THEN Plus(left, amount, unit) ELSE Less(left, amount, unit)
        IN IF IsLocal(exact)
           THEN moved # None /\ LocalNanos(moved) = exact /\ moved.zone = left.zone
           ELSE moved = None

\* The difference of two timestamps, of whatever offsets, is the exact one
\* rounded toward zero to a tick whenever the duration of the clock holds
\* it, also where its seconds alone do not fit, and otherwise the end of the
\* durations on its side.
DifferenceIsExact ==
    LET exact == InstantNanos(left) - InstantNanos(right)
        count == Truncated(exact, NanosPerTick)
    IN /\ DurationSince(left, right) = IF IsDuration(count) THEN count ELSE None
       /\ Minus(left, right) = IF IsDuration(count) THEN count
                               ELSE IF exact < 0 THEN -Width ELSE Width - 1

\* What a timestamp is moved by, and what lies between two, is exact.
DurationsAreExact == MovesExactly /\ DifferenceIsExact

\* A conversion to the clock and back loses less than a tick, and one that
\* saturates keeps the timestamps in their order.
ClockKeepsOrder ==
    LET count == InstantNanos(left) \div NanosPerTick
        point == ToTimePoint(left)
    IN /\ point = IF IsDuration(count) THEN count ELSE None
       /\ point # None /\ FromTimePoint(point) # None
            => InstantNanos(FromTimePoint(point)) = count * NanosPerTick
       /\ InstantNanos(left) <= InstantNanos(right)
            => AsTimePoint(left) <= AsTimePoint(right)

\* A time point of the clock becomes the timestamp of exactly that moment,
\* or none when it is outside the years, however far outside.
PointIsExact ==
    \A point \in Points :
        LET exact == point * NanosPerTick
            stamp == FromTimePoint(point)
        IN IF IsLocal(exact) THEN stamp # None /\ InstantNanos(stamp) = exact
           ELSE stamp = None

\* The clock and the timestamps tell the same time, within their ends.
ClockIsExact == ClockKeepsOrder /\ PointIsExact

\* The text of a timestamp reads back as the same timestamp, its fraction to
\* the nanosecond and its offset included.
TextReadsBack == FromString(FormatIso8601(left)) = left

=============================================================================
