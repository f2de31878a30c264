------------------------------- MODULE Decimal -------------------------------
(***************************************************************************)
(* The text a number is kept as (src/src/type/number.cpp): which strings   *)
(* are numbers, the expansion of an exponent, the one canonical form, and  *)
(* the order of canonical numbers.                                         *)
(*                                                                         *)
(* A string is a sequence of characters.  A canonical text is kept in the  *)
(* parts parse_number_unified() and NumberParts take it to: a sign, the    *)
(* digits before the point and the digits after it.                        *)
(***************************************************************************)
EXTENDS Digits

CONSTANTS
    MaxExpanded,        \* max_expanded_digits
    MaxExponentDigits   \* an exponent of more digits is out of reach unread

ASSUME ExpansionAssumption == MaxExpanded \in Nat \ {0} /\ MaxExponentDigits \in Nat

Digit == 0..9
NaN == [neg |-> FALSE, int |-> <<>>, frac |-> <<>>]
Numbers == [neg: BOOLEAN, int: Seq(Digit), frac: Seq(Digit)]

-----------------------------------------------------------------------------
(* canonical_text().                                                       *)

Canonical(neg, int, frac) ==
    LET whole == DropLeading(int)  part == DropTrailing(frac)
    IN [neg |-> neg /\ (whole # <<>> \/ part # <<>>),
        int |-> IF whole = <<>> THEN <<0>> ELSE whole,
        frac |-> part]

IsCanonical(n) == n = NaN \/ n = Canonical(n.neg, n.int, n.frac)

\* The number whose digits are these, the last places of them after the point.
Pointed(neg, digits, places) ==
    LET all == PadLeft(digits, places)
    IN Canonical(neg, SubSeq(all, 1, Len(all) - places),
                 SubSeq(all, Len(all) - places + 1, Len(all)))

-----------------------------------------------------------------------------
(* is_valid_number().                                                      *)

DigitChars == <<"0", "1", "2", "3", "4", "5", "6", "7", "8", "9">>
IsDigit(c) == \E i \in DOMAIN DigitChars : DigitChars[i] = c
DigitOf(c) == (CHOOSE i \in DOMAIN DigitChars : DigitChars[i] = c) - 1
IsSign(c) == c \in {"+", "-"}
IsExponentMark(c) == c \in {"e", "E"}
AllDigits(s) == \A i \in DOMAIN s : IsDigit(s[i])

SignLength(s) == IF s # <<>> /\ IsSign(s[1]) THEN 1 ELSE 0
Unsigned(s) == SubSeq(s, SignLength(s) + 1, Len(s))

\* find_first_of("eE") and what is on either side; no exponent is <<>>.
ExponentAt(s) == SelectInSeq(s, IsExponentMark)
Mantissa(s) ==
    LET at == ExponentAt(s)
    IN SubSeq(s, SignLength(s) + 1, IF at = 0 THEN Len(s) ELSE at - 1)
Exponent(s) == IF ExponentAt(s) = 0 THEN <<>> ELSE SubSeq(s, ExponentAt(s) + 1, Len(s))

PointsIn(s) == {i \in DOMAIN s : s[i] = "."}

IsMantissa(m) ==
    /\ \A i \in DOMAIN m : m[i] = "." \/ IsDigit(m[i])
    /\ \A i, j \in PointsIn(m) : i = j
    /\ PointsIn(m) # {} => Len(m) > 1

IsNumber(s) ==
    /\ s # <<>> /\ Len(s) > SignLength(s)
    /\ IsMantissa(Mantissa(s))
    /\ ExponentAt(s) # 0 =>
         /\ Mantissa(s) # <<>>
         /\ Unsigned(Exponent(s)) # <<>> /\ AllDigits(Unsigned(Exponent(s)))

-----------------------------------------------------------------------------
(* expand_exponent() and canonical_text() of a string.                     *)

CharDigits(s) == [i \in 1..Len(s) |-> DigitOf(s[i])]

\* The digits of a mantissa before and after its point.
WholeLength(m) == IF PointsIn(m) = {} THEN Len(m) ELSE (CHOOSE i \in PointsIn(m) : TRUE) - 1
WholeDigits(m) == CharDigits(SubSeq(m, 1, WholeLength(m)))
PartDigits(m) == CharDigits(SubSeq(m, WholeLength(m) + 2, Len(m)))

\* The point moved in the digits, leading zeros gone: integerDigits of them, or
\* that many zeros, are before it.
Moved(neg, digits, integerDigits) ==
    LET length == Len(digits) IN
    IF integerDigits <= 0
      THEN Canonical(neg, <<0>>, Zeros(0 - integerDigits) \o digits)
      ELSE Canonical(neg, SubSeq(PadRight(digits, integerDigits), 1, integerDigits),
                     SubSeq(digits, integerDigits + 1, length))

\* The digits the expansion takes.
Expanded(length, integerDigits) ==
    IF integerDigits <= 0 THEN 1 - integerDigits + length
    ELSE IF integerDigits > length THEN integerDigits ELSE length

\* Mutant: the zeros dropped before the first digit still count.
ExpandKeepingZeros(neg, mantissa, shift) ==
    LET digits == DropLeading(WholeDigits(mantissa) \o PartDigits(mantissa))
        integerDigits == WholeLength(mantissa) + shift
    IN IF digits = <<>> THEN Canonical(FALSE, <<0>>, <<>>)
       ELSE IF Expanded(Len(digits), integerDigits) > MaxExpanded THEN NaN
       ELSE Moved(neg, digits, integerDigits)

Expand(neg, mantissa, shift) ==
    LET written == WholeDigits(mantissa) \o PartDigits(mantissa)
        digits == DropLeading(written)
        integerDigits == WholeLength(mantissa) - (Len(written) - Len(digits)) + shift
        most == IF Len(written) > MaxExpanded THEN Len(written) ELSE MaxExpanded
    IN IF digits = <<>> THEN Canonical(FALSE, <<0>>, <<>>)
       ELSE IF Expanded(Len(digits), integerDigits) > most THEN NaN
       ELSE Moved(neg, digits, integerDigits)

ShiftOf(e) ==
    LET size == ValueOf(CharDigits(Unsigned(e))) IN IF e[1] = "-" THEN 0 - size ELSE size

CanonicalText(s) ==
    LET neg == s[1] = "-"
        m == Mantissa(s)
        exponent == DropLeading(CharDigits(Unsigned(Exponent(s))))
    IN IF ~IsNumber(s) THEN NaN
       ELSE IF ExponentAt(s) = 0 THEN Canonical(neg, WholeDigits(m), PartDigits(m))
       ELSE IF Len(exponent) <= MaxExponentDigits THEN Expand(neg, m, ShiftOf(Exponent(s)))
       ELSE IF DropLeading(WholeDigits(m) \o PartDigits(m)) = <<>>
         THEN Canonical(FALSE, <<0>>, <<>>)
       ELSE NaN

\* is_written_as_floating_point().
WrittenAsFloat(s) == \E i \in DOMAIN s : s[i] \in {".", "e", "E"}

-----------------------------------------------------------------------------
(* compare_numbers() and number::compare(): -1, 0 or 1.                    *)

SignOf(v) == IF v < 0 THEN -1 ELSE IF v = 0 THEN 0 ELSE 1

\* std::string::compare of digits.
CompareDigits(x, y) ==
    LET differing == {i \in DOMAIN x \intersect DOMAIN y : x[i] # y[i]}
        first == CHOOSE i \in differing : \A j \in differing : i <= j
    IN IF differing = {} THEN SignOf(Len(x) - Len(y)) ELSE SignOf(x[first] - y[first])

\* Mutant: a longer text is a larger number.
CompareByLength(a, b) ==
    IF Len(a.int) + Len(a.frac) # Len(b.int) + Len(b.frac)
      THEN SignOf(Len(a.int) + Len(a.frac) - Len(b.int) - Len(b.frac))
      ELSE CompareDigits(a.int \o a.frac, b.int \o b.frac)

CompareMagnitudes(a, b) ==
    IF Len(a.int) # Len(b.int) THEN SignOf(Len(a.int) - Len(b.int))
    ELSE IF a.int # b.int THEN CompareDigits(a.int, b.int)
    ELSE CompareDigits(a.frac, b.frac)

Compare(a, b) ==
    IF a = NaN \/ b = NaN THEN (IF a = NaN THEN 0 ELSE 1) - (IF b = NaN THEN 0 ELSE 1)
    ELSE IF a.neg # b.neg THEN (IF a.neg THEN -1 ELSE 1)
    ELSE IF a.neg THEN 0 - CompareMagnitudes(a, b) ELSE CompareMagnitudes(a, b)

=============================================================================
