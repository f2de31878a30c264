------------------------------ MODULE Deadline ------------------------------
(***************************************************************************)
(* deadline::after (src/src/thread/deadline.cpp): a point in time some     *)
(* milliseconds after another, kept below the clock's last value, which    *)
(* the run loop reads as "no deadline".                                    *)
(***************************************************************************)
EXTENDS Integers

CONSTANT TimeMax        \* steady_clock::time_point::max(), in the clock's ticks
CONSTANT TicksPerMs     \* the clock's ticks in a millisecond

ASSUME ClockAssumption == TimeMax \in Nat \ {0} /\ TicksPerMs \in Nat \ {0}

\* kNoDeadline of runloop.cpp.
NoDeadline == TimeMax

Limit == TimeMax - 1

\* Mutant: the sum is not kept below the limit.
AfterUnclamped(base, timeout) == IF timeout <= 0 THEN base ELSE base + timeout * TicksPerMs

\* room: the whole milliseconds from base to the limit.
After(base, timeout) ==
    LET room == (Limit - base) \div TicksPerMs
    IN  IF timeout <= 0 THEN base
        ELSE IF timeout < room THEN base + timeout * TicksPerMs
        ELSE Limit

=============================================================================
