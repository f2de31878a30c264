------------------------------- MODULE Digits -------------------------------
(***************************************************************************)
(* Decimal digits: the integers they write, the powers their places have,  *)
(* and the zeros before and after them that say nothing.                   *)
(***************************************************************************)
EXTENDS Integers, SequencesExt

PowersOf(base) ==
    LET power[n \in Nat] == IF n = 0 THEN 1 ELSE base * power[n - 1]
    IN power
PowerOfTen == PowersOf(10)

\* The values of the first digits of a sequence, none to all of them.
PrefixValues(digits) ==
    LET value[n \in 0..Len(digits)] ==
            IF n = 0 THEN 0 ELSE 10 * value[n - 1] + digits[n]
    IN value

\* The digits, read as an integer.
ValueOf(digits) == PrefixValues(digits)[Len(digits)]

\* The digits of an integer, the last of them if there are more, and how many it has.
DigitsOf(v, length) == [i \in 1..length |-> (v \div PowerOfTen[length - i]) % 10]
LengthOf(v) ==
    CHOOSE n \in 0..v : v < PowerOfTen[n] /\ (n = 0 \/ PowerOfTen[n - 1] <= v)

Zeros(n) == IF n > 0 THEN [i \in 1..n |-> 0] ELSE <<>>
PadLeft(digits, n) == Zeros(n - Len(digits)) \o digits
PadRight(digits, n) == digits \o Zeros(n - Len(digits))

DropLeading(digits) ==
    LET zeros == CHOOSE n \in 0..Len(digits) :
                    /\ \A i \in 1..n : digits[i] = 0
                    /\ n = Len(digits) \/ digits[n + 1] # 0
    IN SubSeq(digits, zeros + 1, Len(digits))

DropTrailing(digits) ==
    LET last == CHOOSE n \in 0..Len(digits) :
                    /\ n = 0 \/ digits[n] # 0
                    /\ \A i \in (n + 1)..Len(digits) : digits[i] = 0
    IN SubSeq(digits, 1, last)

=============================================================================
