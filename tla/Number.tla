-------------------------------- MODULE Number --------------------------------
(***************************************************************************)
(* number (src/src/type/number.cpp): decimal arithmetic on the digits of   *)
(* canonical texts, and the objects that hold them, which programs copy,   *)
(* move from, assign a text to and compute with in place.                  *)
(*                                                                         *)
(* The long division is kept with its remainder as an integer, in place of *)
(* the digits that subtract_positive_numbers() and compare_numbers() work  *)
(* on there.  A text is written one character at a time, so that every     *)
(* text of at most MaxWritten characters is read.                          *)
(***************************************************************************)
EXTENDS Decimal

CONSTANTS
    SignificantDigits,  \* quotient_significant_digits
    IntMax, LongMax,    \* the ends of int and long long
    DoubleMax,          \* the largest double; the text of a larger one is not parsed
    Objects,            \* the program's numbers
    Operands,           \* the values they start with
    Alphabet,           \* the characters texts are written with
    MaxWritten,         \* bound: characters of a text
    MaxAssigned,        \* bound: characters of a text that an object is then given
    MaxDigits,          \* bound: digits of two operands together
    MaxSteps            \* bound: calls

ASSUME NumberAssumption ==
    /\ SignificantDigits \in Nat \ {0}
    /\ IntMax \in Nat /\ LongMax \in Nat /\ DoubleMax \in Nat
    /\ \A n \in Operands : n \in Numbers /\ IsCanonical(n)

\* An exponent of more digits than are read moves the point beyond every text.
ASSUME TextsAssumption ==
    /\ MaxWritten \in Nat
    /\ MaxWritten + MaxWritten <= PowerOfTen[MaxExponentDigits]
    /\ MaxWritten + MaxExpanded <= PowerOfTen[MaxExponentDigits]

VARIABLES
    written,        \* the text being written
    objects,        \* the numbers' storage
    steps,          \* calls made (bounds them)
    exact           \* history: the last operation, its operands and its result

vars == <<written, objects, steps, exact>>

-----------------------------------------------------------------------------
(* The digits of two magnitudes.                                           *)

Places(a, b) == IF Len(a.frac) > Len(b.frac) THEN Len(a.frac) ELSE Len(b.frac)

\* The digits of a number with that many after the point, and at least n in all.
Aligned(a, places, n) == PadLeft(a.int \o PadRight(a.frac, places), n)
Width(a, b) ==
    LET places == Places(a, b)
        longer == IF Len(a.int) > Len(b.int) THEN Len(a.int) ELSE Len(b.int)
    IN longer + places

\* Columns of two numbers of one length, from the right: what the last k of them
\* carry to the next, and what they borrow from it.
Carries(x, y) ==
    LET n == Len(x)
        carry[k \in 0..n] ==
            IF k = 0 THEN 0 ELSE (x[n - k + 1] + y[n - k + 1] + carry[k - 1]) \div 10
    IN carry

Borrows(x, y) ==
    LET n == Len(x)
        borrow[k \in 0..n] ==
            IF k = 0 THEN 0
            ELSE IF x[n - k + 1] - y[n - k + 1] - borrow[k - 1] < 0 THEN 1 ELSE 0
    IN borrow

AddDigits(x, y) ==
    LET n == Len(x)
        carry == Carries(x, y)
        sums == [i \in 1..n |-> (x[i] + y[i] + carry[n - i]) % 10]
    IN IF carry[n] > 0 THEN <<carry[n]>> \o sums ELSE sums

SubtractDigits(x, y) ==
    [i \in 1..Len(x) |-> (x[i] - y[i] - Borrows(x, y)[Len(x) - i]) % 10]

AddPositive(a, b) ==
    LET places == Places(a, b)  n == Width(a, b)
    IN Pointed(FALSE, AddDigits(Aligned(a, places, n), Aligned(b, places, n)), places)

\* Mutant: the borrow of the fraction is forgotten at the point.
SubtractApart(a, b) ==
    LET places == Places(a, b)
        n == Len(a.int)
    IN Canonical(FALSE, SubtractDigits(a.int, PadLeft(b.int, n)),
                 SubtractDigits(PadRight(a.frac, places), PadRight(b.frac, places)))

\* a is not the smaller.
SubtractPositive(a, b) ==
    LET places == Places(a, b)  n == Width(a, b)
    IN Pointed(FALSE, SubtractDigits(Aligned(a, places, n), Aligned(b, places, n)), places)

\* One product of the schoolbook's table, added to the digits so far: its tens go
\* to the next place at once, which may hold more than 9 until its turn.
AddProduct(x, y, result, i, j) ==
    LET sum == x[i] * y[j] + result[i + j]
    IN [result EXCEPT ![i + j] = sum % 10, ![i + j - 1] = @ + sum \div 10]

MultiplyDigits(x, y) ==
    LET n == Len(x)
        m == Len(y)
        result[k \in 0..(n * m)] ==
            IF k = 0 THEN Zeros(n + m)
            ELSE AddProduct(x, y, result[k - 1], n - ((k - 1) \div m), m - ((k - 1) % m))
    IN result[n * m]

MultiplyPositive(a, b) ==
    Pointed(FALSE, MultiplyDigits(a.int \o a.frac, b.int \o b.frac), Len(a.frac) + Len(b.frac))

-----------------------------------------------------------------------------
(* The quotient.                                                           *)

\* What the long division has left after each digit of the dividend, and how often
\* the divisor went into it there.
Remainders(dividend, divisor) ==
    LET remainder[k \in 0..Len(dividend)] ==
            IF k = 0 THEN 0 ELSE (10 * remainder[k - 1] + dividend[k]) % divisor
    IN remainder

Counts(dividend, divisor) ==
    [k \in 1..Len(dividend) |->
        (10 * Remainders(dividend, divisor)[k - 1] + dividend[k]) \div divisor]

\* How often a factor divides a number.
FactorsOf(v, f) ==
    CHOOSE n \in 0..v : v % PowersOf(f)[n] = 0 /\ v % PowersOf(f)[n + 1] # 0

\* The divisor without its factors 2, and without its factors 5 then.
Odd(divisor) == divisor \div PowersOf(2)[FactorsOf(divisor, 2)]
RestOf(divisor) == Odd(divisor) \div PowersOf(5)[FactorsOf(Odd(divisor), 5)]

\* Mutant: only the factors 2 are counted.
FractionDigitsOfTwos(divisor) == FactorsOf(divisor, 2)

\* The fraction digits an exact quotient needs, as the divisor has the factors.
FractionDigits(divisor) ==
    LET twos == FactorsOf(divisor, 2)  fives == FactorsOf(Odd(divisor), 5)
    IN IF twos > fives THEN twos ELSE fives

\* An exact quotient, or one that ends and is not too long to be written.
Terminates(dividend, divisor) ==
    LET quotient == DropLeading(Counts(dividend, divisor))
        length == IF quotient = <<>> THEN 1 ELSE Len(quotient)
    IN /\ length + FractionDigits(divisor) <= MaxExpanded
       /\ ValueOf(dividend) % RestOf(divisor) = 0

\* The digits of the quotient, that many of them past the point.
QuotientTo(dividend, divisor, places) == Counts(dividend \o Zeros(places), divisor)

\* The division goes on past the point until nothing is left, or there are as many
\* digits as an exact quotient needs, or enough that are significant.
IsEnough(dividend, divisor, places) ==
    \/ Remainders(dividend \o Zeros(places), divisor)[Len(dividend) + places] = 0
    \/ IF Terminates(dividend, divisor) THEN places = FractionDigits(divisor)
       ELSE Len(DropLeading(QuotientTo(dividend, divisor, places))) >= SignificantDigits

\* That many are always enough: of them, as many as the divisor has can be zero.
MostPlaces(divisor) ==
    LET zeros == LengthOf(divisor) + SignificantDigits
    IN IF FractionDigits(divisor) > zeros THEN FractionDigits(divisor) ELSE zeros

PlacesOf(dividend, divisor) ==
    CHOOSE n \in 0..MostPlaces(divisor) :
        /\ IsEnough(dividend, divisor, n)
        /\ \A k \in 0..(n - 1) : ~IsEnough(dividend, divisor, k)

DividePositive(a, b) ==
    LET places == Places(a, b)
        dividend == Aligned(a, places, 0)
        divisor == ValueOf(Aligned(b, places, 0))
        n == PlacesOf(dividend, divisor)
    IN Pointed(FALSE, QuotientTo(dividend, divisor, n), n)

\* modulo_positive_numbers() of two integers.
ModuloPositive(a, b) ==
    LET quotient == Canonical(FALSE, Counts(a.int, ValueOf(b.int)), <<>>)
    IN SubtractPositive(a, MultiplyPositive(b, quotient))

-----------------------------------------------------------------------------
(* perform_arithmetic().                                                   *)

Zero == Canonical(FALSE, <<0>>, <<>>)
Signed(neg, n) == Canonical(neg, n.int, n.frac)

\* The sum of two numbers of which the second counts as negative or not.
AddSigned(a, b, bNeg) ==
    LET order == CompareMagnitudes(a, b) IN
    IF a.neg = bNeg THEN Signed(a.neg, AddPositive(a, b))
    ELSE IF order = 0 THEN Zero
    ELSE IF order > 0 THEN Signed(a.neg, SubtractPositive(a, b))
    ELSE Signed(bNeg, SubtractPositive(b, a))

Modulo(a, b) == Signed(a.neg, ModuloPositive(a, b))

Operations == {"+", "-", "*", "/", "%"}

Arithmetic(a, b, op) ==
    IF a = NaN \/ b = NaN THEN NaN
    ELSE CASE op = "+" -> AddSigned(a, b, b.neg)
           [] op = "-" -> AddSigned(a, b, ~b.neg)
           [] op = "*" -> Signed(a.neg # b.neg, MultiplyPositive(a, b))
           [] op = "/" -> IF b = Zero THEN NaN ELSE Signed(a.neg # b.neg, DividePositive(a, b))
           [] op = "%" -> IF b = Zero \/ a.frac # <<>> \/ b.frac # <<>> THEN NaN
                          ELSE Modulo(a, b)

-----------------------------------------------------------------------------
(* The conversions.                                                        *)

\* std::stod() of the text fails past the largest double; TLC's integers stand in
\* for doubles, so the value is rounded half away from zero before it is compared.
Whole(n) == ValueOf(n.int)
Rounded(n) == Whole(n) + (IF n.frac # <<>> /\ n.frac[1] >= 5 THEN 1 ELSE 0)
Negated(neg, v) == IF neg THEN 0 - v ELSE v

\* operator int.
ToInt(n) ==
    LET v == Negated(n.neg, Rounded(n)) IN
    IF n = NaN \/ Whole(n) > DoubleMax THEN 0
    ELSE IF v < 0 - IntMax - 1 THEN 0 - IntMax - 1 ELSE IF v > IntMax THEN IntMax ELSE v

\* operator long long: the integer part alone, 0 where it does not fit.
ToLongLong(n) ==
    LET v == Negated(n.neg, Whole(n)) IN
    IF n = NaN \/ v > LongMax \/ v < 0 - LongMax - 1 THEN 0 ELSE v

-----------------------------------------------------------------------------
(* The objects.                                                            *)

Stored(n, floating) == [number |-> n, floating |-> floating]
Held(x) == objects[x].number

\* number{text} and the assignment of a text.
AssignText(x) ==
    /\ written # <<>> /\ Len(written) <= MaxAssigned /\ steps < MaxSteps
    /\ objects' = [objects EXCEPT ![x] = Stored(CanonicalText(written), WrittenAsFloat(written))]
    /\ exact' = [op |-> "text", a |-> NaN, b |-> NaN, r |-> CanonicalText(written)]
    /\ steps' = steps + 1
    /\ written' = <<>>

\* Texts are written for numbers that are new.
Write(c) ==
    /\ steps = 0 /\ Len(written) < MaxWritten
    /\ \A x \in Objects : objects[x] = Stored(Zero, FALSE)
    /\ written' = Append(written, c)
    /\ UNCHANGED <<objects, steps, exact>>

\* calculate() and the compound assignments: the flag is that of either operand, or
\* of a result that has a fraction.
Calculate(x, y, op) ==
    LET r == Arithmetic(Held(x), Held(y), op) IN
    /\ written = <<>> /\ steps < MaxSteps
    /\ Len(Held(x).int \o Held(x).frac \o Held(y).int \o Held(y).frac) <= MaxDigits
    /\ objects' = [objects EXCEPT ![x] = Stored(r, r.frac # <<>> \/ objects[x].floating
                                                  \/ objects[y].floating)]
    /\ exact' = [op |-> op, a |-> Held(x), b |-> Held(y), r |-> r]
    /\ steps' = steps + 1
    /\ UNCHANGED written

Copy(x, y) ==
    /\ written = <<>> /\ steps < MaxSteps
    /\ objects' = [objects EXCEPT ![x] = objects[y]]
    /\ exact' = [op |-> "copy", a |-> Held(x), b |-> Held(y), r |-> Held(y)]
    /\ steps' = steps + 1
    /\ UNCHANGED written

\* Move construction and move assignment: the source is a zero, unless it is also
\* the target.
AfterMove(x, y) ==
    IF x = y THEN objects
    ELSE [objects EXCEPT ![x] = objects[y], ![y] = Stored(Zero, FALSE)]

Move(x, y) ==
    /\ written = <<>> /\ steps < MaxSteps
    /\ objects' = AfterMove(x, y)
    /\ exact' = [op |-> "move", a |-> Held(x), b |-> Held(y), r |-> Held(y)]
    /\ steps' = steps + 1
    /\ UNCHANGED written

Init ==
    /\ written = <<>> /\ steps = 0
    /\ objects \in [Objects -> {Stored(n, n.frac # <<>>) : n \in Operands}]
    /\ exact = [op |-> "none", a |-> NaN, b |-> NaN, r |-> NaN]

Next ==
    \/ \E c \in Alphabet : Write(c)
    \/ \E x \in Objects : AssignText(x)
    \/ \E x, y \in Objects, op \in Operations : Calculate(x, y, op)
    \/ \E x, y \in Objects : Copy(x, y) \/ Move(x, y)

Spec == Init /\ [][Next]_vars

-----------------------------------------------------------------------------
(* Properties.                                                             *)

\* A number as an integer, at a scale both operands have.
Scaled(n, places) == Negated(n.neg, ValueOf(n.int \o PadRight(n.frac, places)))

\* Numbers are kept in canonical form, so that comparing their digits orders them
\* by value, equal values have equal texts, and NaN is one value below every
\* other, whatever was assigned, moved or computed (number.cpp:322, :860); and
\* a conversion that has a value for both, rounded or clamped as it is, does not
\* turn them round (number.cpp:95). Nine digits are what TLC's integers hold.
OrderIsOfValues ==
    \A x, y \in Objects :
        LET a == Held(x)  b == Held(y)  places == Places(a, b) IN
        /\ IsCanonical(a)
        /\ Compare(a, b) = 0 <=> a = b
        /\ a # NaN /\ b # NaN /\ Width(a, b) <= 9
             => Compare(a, b) = SignOf(Scaled(a, places) - Scaled(b, places))
        /\ a = NaN /\ b # NaN => Compare(a, b) = -1
        /\ a # NaN /\ b # NaN /\ Compare(a, b) <= 0 =>
             /\ Whole(a) <= DoubleMax /\ Whole(b) <= DoubleMax => ToInt(a) <= ToInt(b)
             /\ Whole(a) <= LongMax /\ Whole(b) <= LongMax
                  => ToLongLong(a) <= ToLongLong(b)

\* What +, -, * and % should give, at the operands' scale, from integers.
Size(v) == IF v < 0 THEN 0 - v ELSE v
TruncatedQuotient(v, w) == SignOf(v) * SignOf(w) * (Size(v) \div Size(w))
ResultIs(a, b, r, op) ==
    LET p == Places(a, b)  sa == Scaled(a, p)  sb == Scaled(b, p) IN
    CASE op = "+" -> Scaled(r, p) = sa + sb
      [] op = "-" -> Scaled(r, p) = sa - sb
      [] op = "*" -> Scaled(r, Len(a.frac) + Len(b.frac))
                       = Scaled(a, Len(a.frac)) * Scaled(b, Len(b.frac))
      [] op = "%" -> sa = sb * TruncatedQuotient(sa, sb) + Scaled(r, 0)
      [] OTHER -> TRUE

\* The first four operations lose no digit and keep the carries and borrows across
\* the point; the remainder has the dividend's sign, and NaN is only made of NaN,
\* a zero divisor or a remainder of fractions (number.cpp:721).
ArithmeticIsExact ==
    LET a == exact.a  b == exact.b  r == exact.r IN
    exact.op \in Operations =>
        /\ r = NaN <=> \/ a = NaN \/ b = NaN
                       \/ exact.op \in {"/", "%"} /\ b = Zero
                       \/ exact.op = "%" /\ a.frac \o b.frac # <<>>
        /\ r # NaN => ResultIs(a, b, r, exact.op)

\* The quotient at the places it is kept to, those its dropped zeros had included.
Magnitude(n, places) == ValueOf(n.int \o PadRight(n.frac, places))
Kept(n) == Len(DropLeading(n.int \o n.frac))
Unkept(n) == IF Kept(n) < SignificantDigits THEN SignificantDigits - Kept(n) ELSE 0

\* A quotient is the true one cut off after its last place: never more, and short
\* of it by less than one there, whichever loop made its digits; its sign is the
\* operands' (number.cpp:588, number.cpp:669).
QuotientIsTruncated ==
    LET a == exact.a  b == exact.b  r == exact.r
        dividend == Magnitude(a, Places(a, b)) * PowerOfTen[Len(r.frac) + Unkept(r)]
        divisor == Magnitude(b, Places(a, b))
        quotient == Magnitude(r, Len(r.frac)) * PowerOfTen[Unkept(r)]
    IN exact.op = "/" /\ r # NaN =>
        /\ quotient * divisor <= dividend /\ dividend < (quotient + 1) * divisor
        /\ r # Zero => (r.neg <=> a.neg # b.neg)

\* How a text can be read: the lengths of its sign, its digits before and after
\* the point, the point, the exponent's mark and its sign.
Part(s, from, n) == SubSeq(s, from + 1, from + n)
ReadLength(r) == r.sign + r.whole + r.point + r.part
Readings(s) ==
    {r \in [sign : 0..1, whole : 0..Len(s), point : 0..1, part : 0..Len(s), mark : 0..1, esign : 0..1] :
        LET m == ReadLength(r) IN
        /\ r.sign = 1 => IsSign(s[1])
        /\ r.sign + r.whole <= Len(s) /\ AllDigits(Part(s, r.sign, r.whole))
        /\ r.whole + r.part > 0 /\ m <= Len(s)
        /\ IF r.point = 1 THEN s[r.sign + r.whole + 1] = "." ELSE r.part = 0
        /\ AllDigits(Part(s, m - r.part, r.part))
        /\ IF r.mark = 0 THEN m = Len(s) /\ r.esign = 0
           ELSE /\ m + 1 + r.esign < Len(s) /\ IsExponentMark(s[m + 1])
                /\ r.esign = 1 => IsSign(s[m + 2])
                /\ AllDigits(SubSeq(s, m + 2 + r.esign, Len(s)))}

\* What a reading says: its digits, and how far the point moves.
DigitsRead(s, r) ==
    CharDigits(Part(s, r.sign, r.whole)) \o CharDigits(Part(s, ReadLength(r) - r.part, r.part))
ShiftRead(s, r) ==
    LET m == ReadLength(r) IN
    IF r.mark = 0 THEN 0
    ELSE Negated(s[m + 2] = "-", ValueOf(CharDigits(SubSeq(s, m + 2 + r.esign, Len(s)))))

\* The digits before the point, and all digits, that it takes to write it out.
ReadsAs(s, r, n) ==
    LET digits == DigitsRead(s, r)
        up == ShiftRead(s, r) - r.part
        whole == Len(DropLeading(digits)) + up
        long == IF up >= 0 THEN whole ELSE (IF whole > 0 THEN whole ELSE 1) - up
        places == IF up < 0 THEN 0 - up ELSE 0
    IN IF ValueOf(digits) = 0 THEN n = Zero
       ELSE IF r.mark = 1 /\ long > MaxExpanded /\ long > Len(digits) THEN n = NaN
       ELSE /\ n # NaN /\ IsCanonical(n)
            /\ n.neg <=> s[1] = "-"
            /\ Magnitude(n, places) = ValueOf(digits) * PowerOfTen[up + places]
            /\ Len(n.frac) <= places

\* A text is a number exactly when it reads as one, in one way, and then has the
\* value read, however the exponent moves the point; only an expansion that is
\* too long, and longer than what was written, is not (number.h:94).
TextReadsAsItsValue ==
    LET n == CanonicalText(written) IN
    written # <<>> =>
        /\ Readings(written) = {} => n = NaN
        /\ \A x, y \in Readings(written) : x = y
        /\ \A r \in Readings(written) : ReadsAs(written, r, n)

=============================================================================
