----------------------------- MODULE NumberProofs -----------------------------
(***************************************************************************)
(* Theorems of Number, for numbers of any length.                          *)
(***************************************************************************)
EXTENDS Number, DigitsProofs

-----------------------------------------------------------------------------
(* Canonical numbers, by their first and last digits. *)

Shaped(n) ==
    /\ n \in Numbers /\ Len(n.int) > 0
    /\ Len(n.int) > 1 => n.int[1] # 0
    /\ Len(n.frac) > 0 => n.frac[Len(n.frac)] # 0
    /\ n.neg => n.int # <<0>> \/ n.frac # <<>>

LEMMA CanonicalIs ==
    ASSUME NEW neg \in BOOLEAN, NEW int \in Seq(0..9), NEW frac \in Seq(0..9)
    PROVE  /\ Shaped(Canonical(neg, int, frac)) /\ Canonical(neg, int, frac) # NaN
           /\ Canonical(neg, int, frac).neg => neg
           /\ neg => \/ Canonical(neg, int, frac).neg
                     \/ /\ Canonical(neg, int, frac).int = <<0>>
                        /\ Canonical(neg, int, frac).frac = <<>>
           /\ ValueOf(Canonical(neg, int, frac).int) = ValueOf(int)
           /\ Canonical(neg, int, frac).frac = DropTrailing(frac)
           /\ Len(Canonical(neg, int, frac).frac) <= Len(frac)
<1>1. PICK zeros \in 0..Len(int), whole \in Seq(0..9) :
         /\ whole = DropLeading(int) /\ Len(whole) = Len(int) - zeros
         /\ \A i \in 1..Len(whole) : whole[i] = int[zeros + i]
         /\ zeros = Len(int) \/ int[zeros + 1] # 0
  BY DropLeadingIs
<1>2. PICK last \in 0..Len(frac), part \in Seq(0..9) :
         /\ part = DropTrailing(frac) /\ Len(part) = last
         /\ last = 0 \/ frac[last] # 0
         /\ \A i \in 1..last : part[i] = frac[i]
  BY DropTrailingIs
<1>3. whole # <<>> => Len(whole) > 0 /\ whole[1] # 0
  <2>. SUFFICES ASSUME whole # <<>> PROVE Len(whole) > 0 /\ whole[1] # 0
    OBVIOUS
  <2>1. Len(whole) > 0 /\ Len(whole) \in Nat
    BY EmptySeq
  <2>2. PICK length \in Nat : length = Len(int)
    OBVIOUS
  <2>3. zeros # length /\ 1 \in 1..Len(whole)
    BY <1>1, <2>1, <2>2
  <2>. QED BY <1>1, <2>1, <2>2, <2>3
<1>4. Len(part) > 0 => part[Len(part)] # 0
  BY <1>2
<1>5. ValueOf(whole) = ValueOf(int)
  BY <1>1, ValueOfDropped
<1>. DEFINE n == Canonical(neg, int, frac)
<1>6. n = [neg |-> neg /\ (whole # <<>> \/ part # <<>>),
           int |-> IF whole = <<>> THEN <<0>> ELSE whole, frac |-> part]
  BY <1>1, <1>2 DEF Canonical
<1>. HIDE DEF n
<1>7. /\ n.neg = (neg /\ (whole # <<>> \/ part # <<>>)) /\ n.frac = part
      /\ n.int = IF whole = <<>> THEN <<0>> ELSE whole
  BY <1>6
<1>8. <<0>> \in Seq(0..9) /\ Len(<<0>>) = 1 /\ <<0>>[1] = 0
  OBVIOUS
<1>9. ValueOf(<<0>>) = 0 /\ ValueOf(<<>>) = 0
  <2>1. \A i \in 1..Len(<<0>>) : <<0>>[i] = 0
    OBVIOUS
  <2>2. <<>> \in Seq(0..9) /\ \A i \in 1..Len(<<>>) : <<>>[i] = 0
    OBVIOUS
  <2>. QED BY <1>8, <2>1, <2>2, ValueOfZeros
<1>10. n.int \in Seq(0..9) /\ Len(n.int) > 0 /\ (Len(n.int) > 1 => n.int[1] # 0)
       /\ ValueOf(n.int) = ValueOf(int)
  <2>1. CASE whole = <<>>
    BY <1>5, <1>7, <1>8, <1>9, <2>1
  <2>2. CASE whole # <<>>
    BY <1>3, <1>5, <1>7, <2>2
  <2>. QED BY <2>1, <2>2
<1>11. n \in Numbers
  BY <1>6, <1>7, <1>10 DEF Numbers, Digit
<1>12. whole # <<>> => whole # <<0>>
  BY <1>3, <1>8
<1>13. Shaped(n)
  BY <1>4, <1>7, <1>10, <1>11, <1>12 DEF Shaped
<1>14. n # NaN
  <2>1. n.int # <<>>
    BY <1>10
  <2>. QED BY <2>1 DEF NaN
<1>15. neg => n.neg \/ (n.int = <<0>> /\ n.frac = <<>>)
  BY <1>7
<1>16. Len(n.frac) <= Len(frac)
  BY <1>2, <1>7
<1>. QED BY <1>2, <1>7, <1>10, <1>13, <1>14, <1>15, <1>16 DEF n

LEMMA ShapedIsCanonical ==
    ASSUME NEW n, Shaped(n)
    PROVE  /\ n = Canonical(n.neg, n.int, n.frac) /\ n # NaN /\ n \in Numbers
           /\ n.neg \in BOOLEAN /\ n.int \in Seq(0..9) /\ n.frac \in Seq(0..9)
<1>1. n \in Numbers /\ n.neg \in BOOLEAN /\ n.int \in Seq(0..9) /\ n.frac \in Seq(0..9)
  BY DEF Shaped, Numbers, Digit
<1>2. PICK zeros \in 0..Len(n.int), whole \in Seq(0..9) :
         /\ whole = DropLeading(n.int) /\ Len(whole) = Len(n.int) - zeros
         /\ \A i \in 1..zeros : n.int[i] = 0
         /\ \A i \in 1..Len(whole) : whole[i] = n.int[zeros + i]
         /\ zeros = Len(n.int) \/ n.int[zeros + 1] # 0
  BY <1>1, DropLeadingIs
<1>3. PICK last \in 0..Len(n.frac), part \in Seq(0..9) :
         /\ part = DropTrailing(n.frac) /\ Len(part) = last
         /\ \A i \in 1..last : part[i] = n.frac[i]
         /\ \A i \in (last + 1)..Len(n.frac) : n.frac[i] = 0
  BY <1>1, DropTrailingIs
<1>4. PICK length \in Nat, places \in Nat : length = Len(n.int) /\ places = Len(n.frac) /\ length > 0
  BY <1>1 DEF Shaped
<1>5. part = n.frac
  <2>1. last = places
    <3>. SUFFICES ASSUME last # places PROVE FALSE
      OBVIOUS
    <3>1. places > 0 /\ places \in (last + 1)..places
      BY <1>3, <1>4
    <3>2. n.frac[places] = 0
      BY <1>3, <1>4, <3>1
    <3>. QED BY <1>4, <3>1, <3>2 DEF Shaped
  <2>. QED BY <1>1, <1>3, <1>4, <2>1, SeqEqual
<1>6. CASE n.int[1] = 0
  <2>1. length = 1
    <3>1. Len(n.int) > 1 => n.int[1] # 0
      BY DEF Shaped
    <3>2. ~(length > 1)
      BY <1>4, <1>6, <3>1, Zenon
    <3>3. length > 0
      BY <1>4, Zenon
    <3>. QED BY <3>2, <3>3
  <2>2. zeros = 1
    BY <1>2, <1>4, <1>6, <2>1
  <2>3. whole = <<>>
    <3>1. Len(whole) = 0
      BY <1>2, <1>4, <2>1, <2>2
    <3>. QED BY <3>1, EmptySeq
  <2>4. n.int = <<0>>
    <3>1. <<0>> \in Seq(0..9) /\ Len(<<0>>) = 1 /\ \A i \in 1..1 : <<0>>[i] = 0 /\ i = 1
      OBVIOUS
    <3>. QED BY <1>1, <1>4, <1>6, <2>1, <3>1, SeqEqual
  <2>5. n.neg = (n.neg /\ (whole # <<>> \/ part # <<>>))
    BY <1>1, <1>5, <2>3, <2>4 DEF Shaped
  <2>6. Canonical(n.neg, n.int, n.frac)
          = [neg |-> n.neg /\ (whole # <<>> \/ part # <<>>),
             int |-> IF whole = <<>> THEN <<0>> ELSE whole, frac |-> part]
    BY <1>2, <1>3 DEF Canonical
  <2>7. n = [neg |-> n.neg, int |-> <<0>>, frac |-> part]
    BY <1>1, <1>5, <2>4 DEF Numbers
  <2>8. n # NaN
    <3>1. n.int # <<>>
      BY <1>1, <1>4, EmptySeq
    <3>. QED BY <3>1 DEF NaN
  <2>. QED BY <1>1, <2>3, <2>5, <2>6, <2>7, <2>8
<1>7. CASE n.int[1] # 0
  <2>1. zeros = 0
    BY <1>2, <1>4, <1>7
  <2>2. whole = n.int
    <3>1. Len(whole) = Len(n.int) /\ \A i \in 1..Len(whole) : whole[i] = n.int[i]
      BY <1>2, <1>4, <2>1
    <3>. QED BY <1>1, <3>1, SeqEqual
  <2>3. whole # <<>>
    BY <1>4, <2>2
  <2>4. Canonical(n.neg, n.int, n.frac)
          = [neg |-> n.neg /\ (whole # <<>> \/ part # <<>>),
             int |-> IF whole = <<>> THEN <<0>> ELSE whole, frac |-> part]
    BY <1>2, <1>3 DEF Canonical
  <2>5. n = [neg |-> n.neg, int |-> whole, frac |-> part]
    BY <1>1, <1>5, <2>2 DEF Numbers
  <2>6. n # NaN
    BY <2>2, <2>3 DEF NaN
  <2>. QED BY <1>1, <2>3, <2>4, <2>5, <2>6
<1>. QED BY <1>1, <1>6, <1>7

LEMMA DigitsAreInts == ASSUME NEW s \in Seq(0..9) PROVE s \in Seq(Int)
<1>1. 0..9 \subseteq Int
  OBVIOUS
<1>. QED BY <1>1, SeqMonotonic

-----------------------------------------------------------------------------
(* Magnitudes. *)

\* The digits with so many places, their length and their value.
DigitAt(int, frac, h) ==
    IF h <= Len(int) THEN int[h]
    ELSE IF h - Len(int) <= Len(frac) THEN frac[h - Len(int)] ELSE 0

LEMMA PlacedIs ==
    ASSUME NEW int \in Seq(0..9), NEW frac \in Seq(0..9), NEW places \in Nat, Len(frac) <= places
    PROVE  /\ int \o PadRight(frac, places) \in Seq(0..9)
           /\ Len(int \o PadRight(frac, places)) = Len(int) + places
           /\ \A h \in 1..(Len(int) + places) :
                (int \o PadRight(frac, places))[h] = DigitAt(int, frac, h)
           /\ places - Len(frac) \in Nat
           /\ ValueOf(int \o PadRight(frac, places))
                = ValueOf(int) * PowerOfTen[places] + ValueOf(frac) * PowerOfTen[places - Len(frac)]
<1>1. PICK length \in Nat, n \in Nat : length = Len(frac) /\ n = Len(int)
  OBVIOUS
<1>2. PICK part \in Seq(0..9) :
         /\ part = PadRight(frac, places) /\ Len(part) = places
         /\ \A i \in 1..places : part[i] = IF i <= Len(frac) THEN frac[i] ELSE 0
         /\ ValueOf(part) = ValueOf(frac) * PowerOfTen[places - Len(frac)]
         /\ places - Len(frac) \in Nat
  <2>1. ~(Len(frac) > places)
    BY <1>1
  <2>. QED BY <2>1, PadRightIs
<1>3. /\ int \o part \in Seq(0..9) /\ Len(int \o part) = Len(int) + Len(part)
      /\ \A i \in 1..(Len(int) + Len(part)) :
             (int \o part)[i] = IF i <= Len(int) THEN int[i] ELSE part[i - Len(int)]
  BY ConcatProperties, Zenon
<1>4. ValueOf(int \o part) = ValueOf(int) * PowerOfTen[Len(part)] + ValueOf(part)
  BY DigitsAreInts, ValueOfBoth
<1>5. ASSUME NEW i \in 1..(n + places)
      PROVE (int \o part)[i] = IF i <= n THEN int[i]
                               ELSE IF i - n <= length THEN frac[i - n] ELSE 0
  <2>1. (int \o part)[i] = IF i <= n THEN int[i] ELSE part[i - n]
    BY <1>1, <1>2, <1>3
  <2>2. ~(i <= n) => i - n \in 1..places
    BY <1>1
  <2>. QED BY <1>1, <1>2, <2>1, <2>2
<1>6. \A h \in 1..(Len(int) + places) : (int \o part)[h] = DigitAt(int, frac, h)
  BY <1>1, <1>5 DEF DigitAt
<1>. QED BY <1>1, <1>2, <1>3, <1>4, <1>6

LEMMA MagnitudeOfCanonical ==
    ASSUME NEW neg \in BOOLEAN, NEW int \in Seq(0..9), NEW frac \in Seq(0..9),
           NEW places \in Nat, Len(frac) <= places
    PROVE  Magnitude(Canonical(neg, int, frac), places)
             = ValueOf(int) * PowerOfTen[places] + ValueOf(frac) * PowerOfTen[places - Len(frac)]
<1>. DEFINE n == Canonical(neg, int, frac)
<1>1. /\ ValueOf(n.int) = ValueOf(int) /\ n.frac = DropTrailing(frac)
      /\ Len(n.frac) <= Len(frac) /\ n.int \in Seq(0..9) /\ n.frac \in Seq(0..9)
  <2>1. /\ ValueOf(n.int) = ValueOf(int) /\ n.frac = DropTrailing(frac)
        /\ Len(n.frac) <= Len(frac) /\ Shaped(n)
    BY CanonicalIs
  <2>. HIDE DEF n
  <2>2. n.int \in Seq(0..9) /\ n.frac \in Seq(0..9)
    BY <2>1, ShapedIsCanonical
  <2>. QED BY <2>1, <2>2
<1>. HIDE DEF n
<1>2. PICK length \in Nat : length = Len(n.frac)
  BY <1>1
<1>3. PICK before \in Nat : before = Len(frac)
  OBVIOUS
<1>4. Len(n.frac) <= places
  BY <1>1, <1>2, <1>3
<1>5. PadRight(n.frac, places) = PadRight(frac, places)
  BY <1>1, PadRightDropped
<1>6. ValueOf(n.int \o PadRight(n.frac, places))
        = ValueOf(n.int) * PowerOfTen[places] + ValueOf(PadRight(frac, places))
  <2>1. PadRight(frac, places) \in Seq(0..9) /\ Len(PadRight(frac, places)) = places
    <3>1. ~(Len(frac) > places)
      BY <1>3
    <3>. QED BY <3>1, PadRightIs
  <2>. QED BY <1>1, <1>5, <2>1, DigitsAreInts, ValueOfBoth
<1>7. ValueOf(PadRight(frac, places)) = ValueOf(frac) * PowerOfTen[places - Len(frac)]
  BY PadRightIs
<1>8. Magnitude(n, places)
        = ValueOf(int) * PowerOfTen[places] + ValueOf(frac) * PowerOfTen[places - Len(frac)]
  BY <1>1, <1>6, <1>7 DEF Magnitude
<1>. QED BY <1>8 DEF n

\* A number of digits, the last of them after the point.
LEMMA PointedIs ==
    ASSUME NEW neg \in BOOLEAN, NEW digits \in Seq(0..9), NEW places \in Nat
    PROVE  /\ Shaped(Pointed(neg, digits, places))
           /\ Len(Pointed(neg, digits, places).frac) <= places
           /\ Pointed(neg, digits, places).neg => neg
           /\ \A q \in Nat : places <= q =>
                Magnitude(Pointed(neg, digits, places), q) = ValueOf(digits) * PowerOfTen[q - places]
<1>1. PICK all \in Seq(0..9), n \in Nat :
         /\ all = PadLeft(digits, places) /\ ValueOf(all) = ValueOf(digits)
         /\ n = Len(all) /\ places <= n
  <2>1. PICK length \in Nat : length = Len(digits)
    OBVIOUS
  <2>2. /\ PadLeft(digits, places) \in Seq(0..9)
        /\ ValueOf(PadLeft(digits, places)) = ValueOf(digits)
        /\ Len(PadLeft(digits, places)) = (IF length > places THEN length ELSE places)
    BY <2>1, PadLeftIs
  <2>3. PICK n \in Nat : n = (IF length > places THEN length ELSE places) /\ places <= n
    OBVIOUS
  <2>. QED BY <2>2, <2>3
<1>2. PICK m \in Nat : m = n - places /\ n = m + places /\ m <= n
  <2>1. n - places \in Nat /\ n = (n - places) + places /\ n - places <= n
    BY <1>1
  <2>. QED BY <2>1
<1>3. PICK int, frac : int = SubSeq(all, 1, m) /\ frac = SubSeq(all, m + 1, n)
  OBVIOUS
<1>4. int \in Seq(0..9) /\ Len(int) = m /\ \A i \in 1..m : int[i] = all[i]
  <2>1. m \in 0..Len(all)
    BY <1>1, <1>2
  <2>. QED BY <1>3, <2>1, PartsAre
<1>5. frac \in Seq(0..9) /\ Len(frac) = places
  <2>1. m \in 0..Len(all) /\ Len(all) - m = places
    BY <1>1, <1>2
  <2>. QED BY <1>1, <1>3, <2>1, PartsAre
<1>6. Pointed(neg, digits, places) = Canonical(neg, int, frac)
  BY <1>1, <1>2, <1>3 DEF Pointed
<1>7. ValueOf(all) = ValueOf(int) * PowerOfTen[places] + ValueOf(frac)
  <2>1. m \in 0..Len(all) /\ Len(all) - m = places
    BY <1>1, <1>2
  <2>2. PrefixValues(all)[m] = PrefixValues(int)[m]
    <3>1. m \in 0..Len(all) /\ m <= Len(int)
      <4>1. m <= m
        OBVIOUS
      <4>. QED BY <1>4, <2>1, <4>1
    <3>2. \A j \in 1..m : all[j] = int[j]
      BY <1>4
    <3>. QED BY <1>4, <3>1, <3>2, DigitsAreInts, PrefixesAgree
  <2>3. ValueOf(all) = PrefixValues(all)[m] * PowerOfTen[places] + ValueOf(frac)
    BY <1>1, <1>3, <2>1, ValueAfter
  <2>. QED BY <1>4, <2>2, <2>3 DEF ValueOf
<1>8. ASSUME NEW q \in Nat, places <= q
      PROVE  Magnitude(Canonical(neg, int, frac), q) = ValueOf(digits) * PowerOfTen[q - places]
  <2>1. Magnitude(Canonical(neg, int, frac), q)
          = ValueOf(int) * PowerOfTen[q] + ValueOf(frac) * PowerOfTen[q - places]
    BY <1>4, <1>5, <1>8, MagnitudeOfCanonical
  <2>2. q - places \in Nat /\ places + (q - places) = q
    BY <1>8
  <2>3. PowerOfTen[q] = PowerOfTen[places] * PowerOfTen[q - places]
    BY <2>2, PowersOfTenAdd
  <2>4. PICK v \in Nat, w \in Nat : v = ValueOf(int) /\ w = ValueOf(frac)
    BY <1>4, <1>5, ValueFits
  <2>5. PICK e \in Nat, f \in Nat : e = PowerOfTen[places] /\ f = PowerOfTen[q - places]
    BY <2>2, PowerOfTenIs
  <2>6. v * (e * f) + w * f = (v * e + w) * f
    OBVIOUS
  <2>. QED BY <1>1, <1>7, <2>1, <2>3, <2>4, <2>5, <2>6
<1>9. /\ Shaped(Canonical(neg, int, frac)) /\ Len(Canonical(neg, int, frac).frac) <= places
      /\ Canonical(neg, int, frac).neg => neg
  BY <1>4, <1>5, CanonicalIs
<1>. QED BY <1>6, <1>8, <1>9

-----------------------------------------------------------------------------
(* The order of digits is that of values. *)

LEMMA CompareDigitsIs ==
    ASSUME NEW x \in Seq(0..9), NEW y \in Seq(0..9)
    PROVE  \/ \E k \in 1..Len(x) :
                /\ k <= Len(y) /\ x[k] # y[k] /\ \A j \in 1..(k - 1) : x[j] = y[j]
                /\ CompareDigits(x, y) = SignOf(x[k] - y[k])
           \/ /\ \A j \in 1..Len(x) : j <= Len(y) => x[j] = y[j]
              /\ CompareDigits(x, y) = SignOf(Len(x) - Len(y))
<1>1. PICK m \in Nat, n \in Nat : m = Len(x) /\ n = Len(y)
  OBVIOUS
<1>. DEFINE differing == {i \in DOMAIN x \intersect DOMAIN y : x[i] # y[i]}
            first == CHOOSE i \in differing : \A j \in differing : i <= j
<1>2. \A i : i \in differing <=> i \in 1..m /\ i <= n /\ x[i] # y[i]
  <2>1. DOMAIN x = 1..m /\ DOMAIN y = 1..n
    BY <1>1, LenProperties
  <2>. QED BY <2>1
<1>3. CompareDigits(x, y) = IF differing = {} THEN SignOf(Len(x) - Len(y)) ELSE SignOf(x[first] - y[first])
  BY DEF CompareDigits
<1>. HIDE DEF differing
<1>4. CASE differing = {}
  <2>1. \A j \in 1..m : j <= n => x[j] = y[j]
    BY <1>2, <1>4
  <2>. QED BY <1>1, <1>3, <1>4, <2>1
<1>5. CASE differing # {}
  <2>1. differing \subseteq Nat
    BY <1>2
  <2>2. \E i \in differing : \A j \in differing : i <= j
    BY <1>5, <2>1, LeastNumber
  <2>3. first \in differing /\ \A j \in differing : first <= j
    BY <2>2
  <2>. HIDE DEF first
  <2>4. first \in 1..m /\ first <= n /\ x[first] # y[first]
    BY <1>2, <2>3
  <2>5. ASSUME NEW j \in 1..(first - 1) PROVE x[j] = y[j]
    <3>1. j \in 1..m /\ j <= n /\ ~(first <= j)
      BY <1>1, <2>4
    <3>2. j \notin differing
      BY <2>3, <3>1
    <3>. QED BY <1>2, <3>1, <3>2
  <2>. QED BY <1>1, <1>3, <1>5, <2>4, <2>5
<1>. QED BY <1>4, <1>5

\* The digits of two numbers with as many places.
LEMMA LongerIsMore ==
    ASSUME NEW i \in Seq(0..9), NEW f \in Seq(0..9), NEW j \in Seq(0..9), NEW g \in Seq(0..9),
           NEW p \in Nat, Len(f) <= p, Len(g) <= p, Len(i) > 0, Len(i) < Len(j), j[1] # 0
    PROVE  ValueOf(i \o PadRight(f, p)) < ValueOf(j \o PadRight(g, p)) /\ ValueOf(i) < ValueOf(j)
<1>1. PICK x \in Seq(0..9), y \in Seq(0..9) :
         /\ x = i \o PadRight(f, p) /\ Len(x) = Len(i) + p
         /\ y = j \o PadRight(g, p) /\ Len(y) = Len(j) + p /\ y[1] = j[1]
  <2>1. /\ i \o PadRight(f, p) \in Seq(0..9)
        /\ Len(i \o PadRight(f, p)) = Len(i) + p
    BY PlacedIs
  <2>2. /\ j \o PadRight(g, p) \in Seq(0..9)
        /\ Len(j \o PadRight(g, p)) = Len(j) + p
        /\ \A k \in 1..(Len(j) + p) :
             (j \o PadRight(g, p))[k] = DigitAt(j, g, k)
    BY PlacedIs
  <2>3. PICK n \in Nat, m \in Nat : n = Len(j) /\ m = Len(i) /\ 1 \in 1..(n + p) /\ 1 <= n
    OBVIOUS
  <2>4. (j \o PadRight(g, p))[1] = j[1]
    BY <2>2, <2>3 DEF DigitAt
  <2>. QED BY <2>1, <2>2, <2>4
<1>2. ASSUME NEW s \in Seq(0..9), NEW t \in Seq(0..9), Len(s) < Len(t), t[1] # 0
      PROVE  ValueOf(s) < ValueOf(t)
  <2>1. PICK m \in Nat, n \in Nat : m = Len(s) /\ n = Len(t) /\ m < n
    BY <1>2
  <2>2. n - 1 \in Nat /\ m <= n - 1 /\ Len(t) > 0
    BY <2>1
  <2>3. PowerOfTen[n - 1] <= ValueOf(t)
    BY <1>2, <2>1, <2>2, FirstDigitCounts
  <2>4. PowerOfTen[m] <= PowerOfTen[n - 1]
    BY <2>2, PowersOfTenGrow
  <2>5. PICK v \in Nat, w \in Nat, e \in Nat, h \in Nat :
           v = ValueOf(s) /\ w = ValueOf(t) /\ e = PowerOfTen[m] /\ h = PowerOfTen[n - 1]
    <3>1. ValueOf(s) \in Nat /\ ValueOf(t) \in Nat
      BY ValueFits
    <3>2. PowerOfTen[m] \in Nat /\ PowerOfTen[n - 1] \in Nat
      BY <2>2, PowerOfTenIs
    <3>. QED BY <3>1, <3>2
  <2>6. v < e
    <3>1. ValueOf(s) \in 0..(PowerOfTen[Len(s)] - 1)
      BY ValueFits
    <3>2. v \in 0..(e - 1)
      BY <2>1, <2>5, <3>1
    <3>. QED BY <3>2
  <2>7. e <= h /\ h <= w
    BY <2>3, <2>4, <2>5
  <2>8. v < w
    BY <2>6, <2>7
  <2>. QED BY <2>5, <2>8
<1>3. Len(x) < Len(y)
  BY <1>1
<1>4. ValueOf(x) < ValueOf(y)
  BY <1>1, <1>2, <1>3
<1>5. ValueOf(i) < ValueOf(j)
  BY <1>2
<1>. QED BY <1>1, <1>4, <1>5

\* The first difference of the digits before the point decides,
LEMMA WholeDecides ==
    ASSUME NEW i \in Seq(0..9), NEW f \in Seq(0..9), NEW j \in Seq(0..9), NEW g \in Seq(0..9),
           NEW p \in Nat, Len(f) <= p, Len(g) <= p, Len(i) = Len(j), NEW k \in 1..Len(i),
           \A h \in 1..(k - 1) : i[h] = j[h], i[k] < j[k]
    PROVE  ValueOf(i \o PadRight(f, p)) < ValueOf(j \o PadRight(g, p)) /\ ValueOf(i) < ValueOf(j)
<1>11. /\ i \o PadRight(f, p) \in Seq(0..9)
       /\ Len(i \o PadRight(f, p)) = Len(i) + p
       /\ \A h \in 1..(Len(i) + p) :
            (i \o PadRight(f, p))[h] = DigitAt(i, f, h)
  BY PlacedIs
<1>12. /\ j \o PadRight(g, p) \in Seq(0..9)
       /\ Len(j \o PadRight(g, p)) = Len(j) + p
       /\ \A h \in 1..(Len(j) + p) :
            (j \o PadRight(g, p))[h] = DigitAt(j, g, h)
  BY PlacedIs
<1>1. PICK x : x = i \o PadRight(f, p)
  OBVIOUS
<1>2. PICK y : y = j \o PadRight(g, p)
  OBVIOUS
<1>3. PICK n \in Nat, a \in Nat, b \in Nat :
         n = Len(i) /\ n = Len(j) /\ k \in 1..n /\ a = Len(f) /\ b = Len(g)
  OBVIOUS
<1>4. /\ x \in Seq(0..9) /\ Len(x) = n + p
      /\ \A h \in 1..(n + p) :
           x[h] = IF h <= n THEN i[h] ELSE IF h - n <= a THEN f[h - n] ELSE 0
  BY <1>1, <1>3, <1>11 DEF DigitAt
<1>5. /\ y \in Seq(0..9) /\ Len(y) = n + p
      /\ \A h \in 1..(n + p) :
           y[h] = IF h <= n THEN j[h] ELSE IF h - n <= b THEN g[h - n] ELSE 0
  BY <1>2, <1>3, <1>12 DEF DigitAt
<1>6. ASSUME NEW h \in 1..k PROVE x[h] = i[h] /\ y[h] = j[h]
  <2>1. h \in 1..(n + p) /\ h <= n
    BY <1>3
  <2>. QED BY <1>4, <1>5, <2>1
<1>7. k \in 1..k /\ k \in 1..Len(x) /\ Len(x) = Len(y) /\ \A h \in 1..(k - 1) : h \in 1..k
  BY <1>3, <1>4, <1>5
<1>8. x[k] < y[k] /\ \A h \in 1..(k - 1) : x[h] = y[h]
  BY <1>6, <1>7
<1>9. ValueOf(x) < ValueOf(y)
  BY <1>4, <1>5, <1>7, <1>8, FirstDecides
<1>10. ValueOf(i) < ValueOf(j)
  BY FirstDecides
<1>. QED BY <1>1, <1>2, <1>9, <1>10

\* then that of those after it,
LEMMA PartDecides ==
    ASSUME NEW i \in Seq(0..9), NEW f \in Seq(0..9), NEW g \in Seq(0..9),
           NEW p \in Nat, Len(f) <= p, Len(g) <= p
    PROVE  \A k \in 1..Len(f) :
             k <= Len(g) /\ f[k] < g[k] /\ (\A h \in 1..(k - 1) : f[h] = g[h])
               => ValueOf(i \o PadRight(f, p)) < ValueOf(i \o PadRight(g, p))
<1>11. /\ i \o PadRight(f, p) \in Seq(0..9)
       /\ Len(i \o PadRight(f, p)) = Len(i) + p
       /\ \A h \in 1..(Len(i) + p) :
            (i \o PadRight(f, p))[h] = DigitAt(i, f, h)
  BY PlacedIs
<1>12. /\ i \o PadRight(g, p) \in Seq(0..9)
       /\ Len(i \o PadRight(g, p)) = Len(i) + p
       /\ \A h \in 1..(Len(i) + p) :
            (i \o PadRight(g, p))[h] = DigitAt(i, g, h)
  BY PlacedIs
<1>. SUFFICES ASSUME NEW k \in 1..Len(f), k <= Len(g), f[k] < g[k],
                     \A h \in 1..(k - 1) : f[h] = g[h]
              PROVE  ValueOf(i \o PadRight(f, p)) < ValueOf(i \o PadRight(g, p))
  OBVIOUS
<1>1. PICK x : x = i \o PadRight(f, p)
  OBVIOUS
<1>2. PICK y : y = i \o PadRight(g, p)
  OBVIOUS
<1>3. PICK n \in Nat, a \in Nat, b \in Nat :
         n = Len(i) /\ a = Len(f) /\ b = Len(g) /\ k \in 1..a /\ k \in 1..b /\ a <= p
  OBVIOUS
<1>4. /\ x \in Seq(0..9) /\ Len(x) = n + p
      /\ \A h \in 1..(n + p) : x[h] = IF h <= n THEN i[h] ELSE IF h - n <= a THEN f[h - n] ELSE 0
  BY <1>1, <1>3, <1>11 DEF DigitAt
<1>5. /\ y \in Seq(0..9) /\ Len(y) = n + p
      /\ \A h \in 1..(n + p) : y[h] = IF h <= n THEN i[h] ELSE IF h - n <= b THEN g[h - n] ELSE 0
  BY <1>2, <1>3, <1>12 DEF DigitAt
<1>6. ASSUME NEW h \in 1..k PROVE n + h \in 1..(n + p) /\ x[n + h] = f[h] /\ y[n + h] = g[h]
  <2>1. n + h \in 1..(n + p) /\ ~(n + h <= n) /\ (n + h) - n = h /\ h <= a /\ h <= b
    BY <1>3
  <2>. QED BY <1>4, <1>5, <2>1
<1>7. ASSUME NEW h \in 1..((n + k) - 1) PROVE x[h] = y[h]
  <2>1. CASE h <= n
    <3>1. h \in 1..(n + p)
      BY <1>3, <2>1
    <3>. QED BY <1>4, <1>5, <2>1, <3>1
  <2>2. CASE ~(h <= n)
    <3>1. h - n \in 1..k /\ h - n \in 1..(k - 1) /\ n + (h - n) = h
      BY <1>3, <2>2
    <3>. QED BY <1>6, <3>1
  <2>. QED BY <2>1, <2>2
<1>8. k \in 1..k /\ n + k \in 1..Len(x) /\ Len(x) = Len(y)
  BY <1>3, <1>4, <1>5
<1>9. x[n + k] < y[n + k]
  BY <1>6, <1>8
<1>10. ValueOf(x) < ValueOf(y)
  BY <1>4, <1>5, <1>7, <1>8, <1>9, FirstDecides
<1>. QED BY <1>1, <1>2, <1>10

\* and then which has more of them, as the last is not zero.
LEMMA MorePlacesAreMore ==
    ASSUME NEW i \in Seq(0..9), NEW f \in Seq(0..9), NEW g \in Seq(0..9),
           NEW p \in Nat, Len(f) <= p, Len(g) <= p, Len(f) < Len(g),
           \A h \in 1..Len(f) : f[h] = g[h], g[Len(g)] # 0
    PROVE  ValueOf(i \o PadRight(f, p)) < ValueOf(i \o PadRight(g, p))
<1>11. /\ i \o PadRight(f, p) \in Seq(0..9)
       /\ Len(i \o PadRight(f, p)) = Len(i) + p
       /\ \A h \in 1..(Len(i) + p) :
            (i \o PadRight(f, p))[h] = DigitAt(i, f, h)
  BY PlacedIs
<1>12. /\ i \o PadRight(g, p) \in Seq(0..9)
       /\ Len(i \o PadRight(g, p)) = Len(i) + p
       /\ \A h \in 1..(Len(i) + p) :
            (i \o PadRight(g, p))[h] = DigitAt(i, g, h)
  BY PlacedIs
<1>1. PICK x : x = i \o PadRight(f, p)
  OBVIOUS
<1>2. PICK y : y = i \o PadRight(g, p)
  OBVIOUS
<1>3. PICK n \in Nat, a \in Nat, b \in Nat : n = Len(i) /\ a = Len(f) /\ b = Len(g) /\ a < b /\ b <= p
  OBVIOUS
<1>4. /\ x \in Seq(0..9) /\ Len(x) = n + p
      /\ \A h \in 1..(n + p) : x[h] = IF h <= n THEN i[h] ELSE IF h - n <= a THEN f[h - n] ELSE 0
  BY <1>1, <1>3, <1>11 DEF DigitAt
<1>5. /\ y \in Seq(0..9) /\ Len(y) = n + p
      /\ \A h \in 1..(n + p) : y[h] = IF h <= n THEN i[h] ELSE IF h - n <= b THEN g[h - n] ELSE 0
  BY <1>2, <1>3, <1>12 DEF DigitAt
<1>6. ASSUME NEW h \in 1..(n + p) PROVE x[h] # y[h] => x[h] < y[h]
  <2>1. CASE h <= n + a
    <3>1. h <= n \/ (~(h <= n) /\ h - n <= a /\ h - n <= b /\ h - n \in 1..a)
      BY <1>3, <2>1
    <3>. QED BY <1>3, <1>4, <1>5, <3>1
  <2>2. CASE ~(h <= n + a)
    <3>1. x[h] = 0
      BY <1>4, <2>2
    <3>2. y[h] \in 0..9
      BY <1>5
    <3>. QED BY <3>1, <3>2
  <2>. QED BY <2>1, <2>2
<1>7. x[n + b] = 0 /\ y[n + b] # 0
  <2>1. n + b \in 1..(n + p) /\ ~(n + b <= n) /\ ~((n + b) - n <= a) /\ (n + b) - n = b /\ b <= b
    BY <1>3
  <2>2. x[n + b] = 0
    BY <1>4, <2>1
  <2>3. y[n + b] = g[b] /\ g[b] # 0
    BY <1>3, <1>5, <2>1
  <2>. QED BY <2>2, <2>3
<1>8. x # y /\ Len(x) = Len(y)
  BY <1>4, <1>5, <1>7
<1>9. PICK k \in 1..Len(x) : x[k] # y[k] /\ \A h \in 1..(k - 1) : x[h] = y[h]
  BY <1>4, <1>5, <1>8, FirstDifference
<1>10. x[k] < y[k]
  BY <1>4, <1>6, <1>9
<1>13. ValueOf(x) < ValueOf(y)
  BY <1>4, <1>5, <1>8, <1>9, <1>10, FirstDecides
<1>. QED BY <1>1, <1>2, <1>13

LEMMA FirstCompares ==
    ASSUME NEW x \in Seq(0..9), NEW y \in Seq(0..9)
    PROVE  /\ \A k \in 1..Len(x) :
                k <= Len(y) /\ x[k] < y[k] /\ (\A j \in 1..(k - 1) : x[j] = y[j])
                  => CompareDigits(x, y) = -1 /\ CompareDigits(y, x) = 1
           /\ Len(x) < Len(y) /\ (\A j \in 1..Len(x) : x[j] = y[j])
                => CompareDigits(x, y) = -1 /\ CompareDigits(y, x) = 1
           /\ CompareDigits(x, x) = 0
<1>1. PICK m \in Nat, n \in Nat : m = Len(x) /\ n = Len(y)
  OBVIOUS
<1>2. /\ \A k \in 1..m : x[k] \in 0..9
      /\ \A k \in 1..n : y[k] \in 0..9
  BY <1>1
<1>3. \/ \E k \in 1..m :
           /\ k <= n /\ x[k] # y[k] /\ \A j \in 1..(k - 1) : x[j] = y[j]
           /\ CompareDigits(x, y) = SignOf(x[k] - y[k])
      \/ /\ \A j \in 1..m : j <= n => x[j] = y[j]
         /\ CompareDigits(x, y) = SignOf(m - n)
  BY <1>1, CompareDigitsIs
<1>4. \/ \E k \in 1..n :
           /\ k <= m /\ y[k] # x[k] /\ \A j \in 1..(k - 1) : y[j] = x[j]
           /\ CompareDigits(y, x) = SignOf(y[k] - x[k])
      \/ /\ \A j \in 1..n : j <= m => y[j] = x[j]
         /\ CompareDigits(y, x) = SignOf(n - m)
  BY <1>1, CompareDigitsIs
<1>5. ASSUME NEW k \in 1..m, k <= n, x[k] < y[k], \A j \in 1..(k - 1) : x[j] = y[j]
      PROVE  CompareDigits(x, y) = -1 /\ CompareDigits(y, x) = 1
  <2>1. x[k] \in 0..9 /\ y[k] \in 0..9 /\ x[k] # y[k] /\ k \in 1..n
    BY <1>2, <1>5
  <2>2. ASSUME NEW i \in 1..m, x[i] # y[i], \A j \in 1..(i - 1) : x[j] = y[j] PROVE i = k
    <3>1. ~(k < i)
      BY <2>1, <2>2
    <3>2. ~(i < k)
      BY <1>5, <2>2
    <3>. QED BY <3>1, <3>2
  <2>3. CompareDigits(x, y) = SignOf(x[k] - y[k])
    BY <1>3, <1>5, <2>1, <2>2
  <2>4. CompareDigits(y, x) = SignOf(y[k] - x[k])
    <3>1. ~(\A j \in 1..n : j <= m => y[j] = x[j])
      BY <1>5, <2>1
    <3>2. PICK i \in 1..n :
            /\ i <= m /\ y[i] # x[i] /\ \A j \in 1..(i - 1) : y[j] = x[j]
            /\ CompareDigits(y, x) = SignOf(y[i] - x[i])
      BY <1>4, <3>1
    <3>3. i \in 1..m /\ x[i] # y[i] /\ \A j \in 1..(i - 1) : x[j] = y[j]
      BY <3>2
    <3>4. i = k
      BY <2>2, <3>3
    <3>. QED BY <3>2, <3>4
  <2>5. PICK v \in 0..9, w \in 0..9 : v = x[k] /\ w = y[k] /\ v < w
    BY <1>5, <2>1
  <2>6. SignOf(v - w) = -1 /\ SignOf(w - v) = 1
    BY <2>5 DEF SignOf
  <2>. QED BY <2>3, <2>4, <2>5, <2>6
<1>6. ASSUME m < n, \A j \in 1..m : x[j] = y[j]
      PROVE  CompareDigits(x, y) = -1 /\ CompareDigits(y, x) = 1
  <2>1. CompareDigits(x, y) = SignOf(m - n)
    BY <1>3, <1>6
  <2>2. CompareDigits(y, x) = SignOf(n - m)
    <3>1. \A j \in 1..n : j <= m => y[j] = x[j]
      BY <1>6
    <3>. QED BY <1>4, <3>1
  <2>. QED BY <1>6, <2>1, <2>2 DEF SignOf
<1>7. CompareDigits(x, x) = 0
  <2>1. CompareDigits(x, x) = SignOf(Len(x) - Len(x))
    BY CompareDigitsIs
  <2>2. CompareDigits(x, x) = SignOf(m - m) /\ m - m = 0
    BY <1>1, <2>1
  <2>. QED BY <2>2 DEF SignOf
<1>. QED BY <1>1, <1>5, <1>6, <1>7

\* One number below another, by the first place in which they differ.
Below(i, f, j, g) ==
    \/ Len(i) < Len(j)
    \/ /\ Len(i) = Len(j)
       /\ \E k \in 1..Len(i) : i[k] < j[k] /\ \A h \in 1..(k - 1) : i[h] = j[h]
    \/ /\ i = j
       /\ \E k \in 1..Len(f) : k <= Len(g) /\ f[k] < g[k] /\ \A h \in 1..(k - 1) : f[h] = g[h]
    \/ i = j /\ Len(f) < Len(g) /\ \A h \in 1..Len(f) : f[h] = g[h]

LEMMA BelowOrEqual ==
    ASSUME NEW i \in Seq(0..9), NEW f \in Seq(0..9), NEW j \in Seq(0..9), NEW g \in Seq(0..9)
    PROVE  Below(i, f, j, g) \/ Below(j, g, i, f) \/ (i = j /\ f = g)
<1>1. PICK m \in Nat, n \in Nat, a \in Nat, b \in Nat :
         m = Len(i) /\ n = Len(j) /\ a = Len(f) /\ b = Len(g)
  OBVIOUS
<1>2. CASE m # n
  <2>1. m < n \/ n < m
    BY <1>2
  <2>. QED BY <1>1, <2>1 DEF Below
<1>3. CASE m = n /\ i # j
  <2>1. PICK k \in 1..m : i[k] # j[k] /\ \A h \in 1..(k - 1) : i[h] = j[h]
    <3>1. Len(i) = Len(j)
      BY <1>1, <1>3
    <3>. QED BY <1>1, <1>3, <3>1, FirstDifference
  <2>2. i[k] < j[k] \/ j[k] < i[k]
    <3>1. k \in 1..Len(i) /\ k \in 1..Len(j)
      BY <1>1, <1>3
    <3>2. i[k] \in 0..9 /\ j[k] \in 0..9
      BY <3>1, ElementOfSeq
    <3>3. PICK v \in 0..9, w \in 0..9 : v = i[k] /\ w = j[k] /\ v # w
      BY <2>1, <3>2
    <3>4. v < w \/ w < v
      BY <3>3
    <3>. QED BY <3>3, <3>4
  <2>3. \A h \in 1..(k - 1) : j[h] = i[h]
    BY <2>1
  <2>. QED BY <1>1, <1>3, <2>1, <2>2, <2>3 DEF Below
<1>4. CASE i = j
  <2>1. \/ \E k \in 1..a : k <= b /\ f[k] # g[k] /\ \A h \in 1..(k - 1) : f[h] = g[h]
        \/ \A h \in 1..a : h <= b => f[h] = g[h]
    BY <1>1, CompareDigitsIs
  <2>2. CASE \E k \in 1..a : k <= b /\ f[k] # g[k] /\ \A h \in 1..(k - 1) : f[h] = g[h]
    <3>1. PICK k \in 1..a : k <= b /\ f[k] # g[k] /\ \A h \in 1..(k - 1) : f[h] = g[h]
      BY <2>2
    <3>2. k \in 1..Len(f) /\ k \in 1..Len(g)
      BY <1>1, <3>1
    <3>3. PICK v \in 0..9, w \in 0..9 : v = f[k] /\ w = g[k] /\ v # w
      BY <3>1, <3>2
    <3>6. v < w \/ w < v
      BY <3>3
    <3>4. f[k] < g[k] \/ g[k] < f[k]
      BY <3>3, <3>6
    <3>5. k <= a /\ \A h \in 1..(k - 1) : g[h] = f[h]
      BY <3>1
    <3>. QED BY <1>1, <1>4, <3>1, <3>2, <3>4, <3>5 DEF Below
  <2>3. CASE \A h \in 1..a : h <= b => f[h] = g[h]
    <3>1. CASE a = b
      <4>1. \A h \in 1..Len(f) : f[h] = g[h]
        BY <1>1, <2>3, <3>1
      <4>. QED BY <1>1, <1>4, <3>1, <4>1, SeqEqual
    <3>2. CASE a < b
      <4>1. \A h \in 1..a : f[h] = g[h]
        BY <2>3, <3>2
      <4>. QED BY <1>1, <1>4, <3>2, <4>1 DEF Below
    <3>3. CASE b < a
      <4>1. \A h \in 1..b : g[h] = f[h]
        BY <2>3, <3>3
      <4>. QED BY <1>1, <1>4, <3>3, <4>1 DEF Below
    <3>. QED BY <3>1, <3>2, <3>3
  <2>. QED BY <2>1, <2>2, <2>3
<1>. QED BY <1>2, <1>3, <1>4

\* A number of these digits, the places it is given included, and what is rounded of it.
AtPlaces(i, f, p) == ValueOf(i \o PadRight(f, p))
Carried(f) == IF f # <<>> /\ f[1] >= 5 THEN 1 ELSE 0

LEMMA BelowIsLess ==
    ASSUME NEW i \in Seq(0..9), NEW f \in Seq(0..9), NEW j \in Seq(0..9), NEW g \in Seq(0..9),
           Len(i) > 0, Len(j) > 1 => j[1] # 0, Len(g) > 0 => g[Len(g)] # 0,
           NEW p \in Nat, Len(f) <= p, Len(g) <= p, Below(i, f, j, g)
    PROVE  /\ AtPlaces(i, f, p) < AtPlaces(j, g, p)
           /\ ValueOf(i) <= ValueOf(j)
           /\ ValueOf(i) + Carried(f) <= ValueOf(j) + Carried(g)
<1>1. ValueOf(i) \in Nat /\ ValueOf(j) \in Nat
  BY ValueFits
<1>2. Carried(f) \in 0..1 /\ Carried(g) \in 0..1
  BY DEF Carried
<1>3. CASE ValueOf(i) < ValueOf(j) /\ AtPlaces(i, f, p) < AtPlaces(j, g, p)
  <2>1. PICK v \in Nat, w \in Nat, c \in 0..1, d \in 0..1 :
           v = ValueOf(i) /\ w = ValueOf(j) /\ c = Carried(f) /\ d = Carried(g) /\ v < w
    BY <1>1, <1>2, <1>3
  <2>2. v <= w /\ v + c <= w + d
    BY <2>1
  <2>. QED BY <1>3, <2>1, <2>2
<1>4. CASE i = j /\ Carried(f) <= Carried(g) /\ AtPlaces(i, f, p) < AtPlaces(j, g, p)
  <2>1. PICK v \in Nat, c \in 0..1, d \in 0..1 :
           v = ValueOf(i) /\ v = ValueOf(j) /\ c = Carried(f) /\ d = Carried(g) /\ c <= d
    BY <1>1, <1>2, <1>4
  <2>2. v <= v /\ v + c <= v + d
    BY <2>1
  <2>. QED BY <1>4, <2>1, <2>2
<1>5. CASE Len(i) < Len(j)
  <2>1. j[1] # 0
    <3>1. PICK m \in Nat, n \in Nat : m = Len(i) /\ n = Len(j)
      OBVIOUS
    <3>2. Len(j) > 1
      BY <1>5, <3>1
    <3>. QED BY <3>2
  <2>2. /\ ValueOf(i \o PadRight(f, p)) < ValueOf(j \o PadRight(g, p))
        /\ ValueOf(i) < ValueOf(j)
    BY <1>5, <2>1, LongerIsMore
  <2>. QED BY <1>3, <2>2 DEF AtPlaces
<1>6. CASE Len(i) = Len(j) /\ \E k \in 1..Len(i) : i[k] < j[k] /\ \A h \in 1..(k - 1) : i[h] = j[h]
  <2>1. PICK k \in 1..Len(i) : i[k] < j[k] /\ \A h \in 1..(k - 1) : i[h] = j[h]
    BY <1>6
  <2>2. /\ ValueOf(i \o PadRight(f, p)) < ValueOf(j \o PadRight(g, p))
        /\ ValueOf(i) < ValueOf(j)
    BY <1>6, <2>1, WholeDecides
  <2>. QED BY <1>3, <2>2 DEF AtPlaces
<1>7. CASE i = j /\ \E k \in 1..Len(f) :
             k <= Len(g) /\ f[k] < g[k] /\ \A h \in 1..(k - 1) : f[h] = g[h]
  <2>1. PICK k \in 1..Len(f) : k <= Len(g) /\ f[k] < g[k] /\ \A h \in 1..(k - 1) : f[h] = g[h]
    BY <1>7
  <2>2. ValueOf(i \o PadRight(f, p)) < ValueOf(i \o PadRight(g, p))
    BY <2>1, PartDecides
  <2>3. PICK a \in Nat, b \in Nat : a = Len(f) /\ b = Len(g) /\ 1 <= a /\ 1 <= b
    BY <2>1
  <2>4. f[1] \in 0..9 /\ g[1] \in 0..9 /\ f # <<>> /\ g # <<>>
    BY <2>3
  <2>5. f[1] <= g[1]
    <3>1. PICK v \in 0..9, w \in 0..9 : v = f[1] /\ w = g[1]
      BY <2>4
    <3>2. v < w \/ v = w
      <4>1. CASE k = 1
        BY <2>1, <3>1, <4>1
      <4>2. CASE k # 1
        <5>1. 1 \in 1..(k - 1)
          BY <4>2
        <5>. QED BY <2>1, <3>1, <5>1
      <4>. QED BY <4>1, <4>2
    <3>. QED BY <3>1, <3>2
  <2>6. Carried(f) <= Carried(g)
    <3>1. PICK v \in 0..9, w \in 0..9 : v = f[1] /\ w = g[1] /\ v <= w
      BY <2>4, <2>5
    <3>2. Carried(f) = (IF v >= 5 THEN 1 ELSE 0) /\ Carried(g) = (IF w >= 5 THEN 1 ELSE 0)
      BY <2>4, <3>1 DEF Carried
    <3>3. (IF v >= 5 THEN 1 ELSE 0) <= (IF w >= 5 THEN 1 ELSE 0)
      BY <3>1
    <3>. QED BY <3>2, <3>3
  <2>. QED BY <1>4, <1>7, <2>2, <2>6 DEF AtPlaces
<1>8. CASE i = j /\ Len(f) < Len(g) /\ \A h \in 1..Len(f) : f[h] = g[h]
  <2>1. g[Len(g)] # 0
    <3>1. PICK m \in Nat, n \in Nat : m = Len(f) /\ n = Len(g)
      OBVIOUS
    <3>2. Len(g) > 0
      BY <1>8, <3>1
    <3>. QED BY <3>2
  <2>2. ValueOf(i \o PadRight(f, p)) < ValueOf(i \o PadRight(g, p))
    BY <1>8, <2>1, MorePlacesAreMore
  <2>3. Carried(f) <= Carried(g)
    <3>1. CASE f = <<>>
      BY <1>2, <3>1 DEF Carried
    <3>2. CASE f # <<>>
      <4>1. PICK a \in Nat, b \in Nat : a = Len(f) /\ b = Len(g) /\ 1 <= a /\ a < b
        BY <1>8, <3>2, EmptySeq
      <4>2. f[1] \in 0..9 /\ f[1] = g[1] /\ g # <<>>
        BY <1>8, <4>1
      <4>. QED BY <4>2 DEF Carried
    <3>. QED BY <3>1, <3>2
  <2>. QED BY <1>4, <1>8, <2>2, <2>3 DEF AtPlaces
<1>. QED BY <1>5, <1>6, <1>7, <1>8 DEF Below

LEMMA BelowCompares ==
    ASSUME NEW a, NEW b, Shaped(a), Shaped(b), Below(a.int, a.frac, b.int, b.frac)
    PROVE  CompareMagnitudes(a, b) = -1 /\ CompareMagnitudes(b, a) = 1
<1>1. /\ a.int \in Seq(0..9) /\ a.frac \in Seq(0..9)
      /\ b.int \in Seq(0..9) /\ b.frac \in Seq(0..9)
  BY ShapedIsCanonical
<1>2. PICK i \in Seq(0..9), f \in Seq(0..9), j \in Seq(0..9), g \in Seq(0..9) :
         i = a.int /\ f = a.frac /\ j = b.int /\ g = b.frac
  BY <1>1
<1>3. PICK m \in Nat, n \in Nat : m = Len(i) /\ n = Len(j)
  OBVIOUS
<1>4. /\ CompareMagnitudes(a, b) = IF m # n THEN SignOf(m - n)
                                   ELSE IF i # j THEN CompareDigits(i, j) ELSE CompareDigits(f, g)
      /\ CompareMagnitudes(b, a) = IF n # m THEN SignOf(n - m)
                                   ELSE IF j # i THEN CompareDigits(j, i) ELSE CompareDigits(g, f)
  BY <1>2, <1>3 DEF CompareMagnitudes
<1>5. Below(i, f, j, g)
  BY <1>2
<1>6. CASE m < n
  <2>1. SignOf(m - n) = -1 /\ SignOf(n - m) = 1 /\ m # n
    BY <1>6 DEF SignOf
  <2>. QED BY <1>4, <2>1
<1>7. CASE m = n /\ \E k \in 1..Len(i) : i[k] < j[k] /\ \A h \in 1..(k - 1) : i[h] = j[h]
  <2>1. PICK k \in 1..Len(i) : i[k] < j[k] /\ \A h \in 1..(k - 1) : i[h] = j[h]
    BY <1>7
  <2>2. i # j
    <3>1. PICK v \in 0..9 : v = i[k]
      OBVIOUS
    <3>2. i = j => v < v
      BY <2>1, <3>1
    <3>3. ~(v < v)
      OBVIOUS
    <3>. QED BY <3>2, <3>3
  <2>3. k <= Len(j)
    BY <1>3, <1>7
  <2>4. CompareDigits(i, j) = -1 /\ CompareDigits(j, i) = 1
    BY <2>1, <2>3, FirstCompares
  <2>. QED BY <1>4, <1>7, <2>2, <2>4
<1>8. CASE i = j /\ \E k \in 1..Len(f) :
             k <= Len(g) /\ f[k] < g[k] /\ \A h \in 1..(k - 1) : f[h] = g[h]
  <2>1. CompareDigits(f, g) = -1 /\ CompareDigits(g, f) = 1
    BY <1>8, FirstCompares
  <2>. QED BY <1>3, <1>4, <1>8, <2>1
<1>9. CASE i = j /\ Len(f) < Len(g) /\ \A h \in 1..Len(f) : f[h] = g[h]
  <2>1. CompareDigits(f, g) = -1 /\ CompareDigits(g, f) = 1
    BY <1>9, FirstCompares
  <2>. QED BY <1>3, <1>4, <1>9, <2>1
<1>. QED BY <1>3, <1>5, <1>6, <1>7, <1>8, <1>9 DEF Below

\* compare_numbers() of canonical digits is the order of the values they have.
LEMMA OrderOfMagnitudes ==
    ASSUME NEW a, NEW b, Shaped(a), Shaped(b),
           NEW p \in Nat, Len(a.frac) <= p, Len(b.frac) <= p
    PROVE  /\ Magnitude(a, p) \in Nat /\ Magnitude(b, p) \in Nat
           /\ Whole(a) \in Nat /\ Whole(b) \in Nat /\ Rounded(a) \in Nat /\ Rounded(b) \in Nat
           /\ Whole(a) <= Rounded(a) /\ Rounded(a) <= Whole(a) + 1
           /\ \/ /\ CompareMagnitudes(a, b) = -1 /\ CompareMagnitudes(b, a) = 1
                 /\ Magnitude(a, p) < Magnitude(b, p)
                 /\ Whole(a) <= Whole(b) /\ Rounded(a) <= Rounded(b)
              \/ /\ CompareMagnitudes(a, b) = 1 /\ CompareMagnitudes(b, a) = -1
                 /\ Magnitude(b, p) < Magnitude(a, p)
                 /\ Whole(b) <= Whole(a) /\ Rounded(b) <= Rounded(a)
              \/ /\ CompareMagnitudes(a, b) = 0 /\ CompareMagnitudes(b, a) = 0
                 /\ a.int = b.int /\ a.frac = b.frac
<1>1. PICK i \in Seq(0..9), f \in Seq(0..9), j \in Seq(0..9), g \in Seq(0..9) :
         i = a.int /\ f = a.frac /\ j = b.int /\ g = b.frac
  BY ShapedIsCanonical
<1>2. /\ Len(i) > 0 /\ (Len(i) > 1 => i[1] # 0) /\ (Len(f) > 0 => f[Len(f)] # 0)
      /\ Len(j) > 0 /\ (Len(j) > 1 => j[1] # 0) /\ (Len(g) > 0 => g[Len(g)] # 0)
      /\ Len(f) <= p /\ Len(g) <= p
  BY <1>1 DEF Shaped
<1>3. /\ Magnitude(a, p) = AtPlaces(i, f, p) /\ Magnitude(b, p) = AtPlaces(j, g, p)
      /\ Whole(a) = ValueOf(i) /\ Whole(b) = ValueOf(j)
      /\ Rounded(a) = ValueOf(i) + Carried(f) /\ Rounded(b) = ValueOf(j) + Carried(g)
  BY <1>1 DEF Magnitude, AtPlaces, Whole, Rounded, Carried
<1>4. AtPlaces(i, f, p) \in Nat /\ AtPlaces(j, g, p) \in Nat
  BY <1>2, PlacedIs, ValueFits DEF AtPlaces
<1>5. ValueOf(i) \in Nat /\ ValueOf(j) \in Nat
  BY ValueFits
<1>6. Carried(f) \in 0..1 /\ Carried(g) \in 0..1
  BY DEF Carried
<1>7. PICK v \in Nat, w \in Nat, c \in 0..1, d \in 0..1 :
         v = ValueOf(i) /\ w = ValueOf(j) /\ c = Carried(f) /\ d = Carried(g)
  BY <1>5, <1>6
<1>8. v + c \in Nat /\ w + d \in Nat /\ v <= v + c /\ v + c <= v + 1
  OBVIOUS
<1>9. /\ Magnitude(a, p) \in Nat /\ Magnitude(b, p) \in Nat
      /\ Whole(a) \in Nat /\ Whole(b) \in Nat /\ Rounded(a) \in Nat /\ Rounded(b) \in Nat
      /\ Whole(a) <= Rounded(a) /\ Rounded(a) <= Whole(a) + 1
  BY <1>3, <1>4, <1>7, <1>8
<1>10. CASE Below(i, f, j, g)
  <2>1. CompareMagnitudes(a, b) = -1 /\ CompareMagnitudes(b, a) = 1
    BY <1>1, <1>10, BelowCompares
  <2>2. /\ AtPlaces(i, f, p) < AtPlaces(j, g, p) /\ ValueOf(i) <= ValueOf(j)
        /\ ValueOf(i) + Carried(f) <= ValueOf(j) + Carried(g)
    BY <1>2, <1>10, BelowIsLess
  <2>. QED BY <1>3, <1>9, <2>1, <2>2
<1>11. CASE Below(j, g, i, f)
  <2>1. CompareMagnitudes(b, a) = -1 /\ CompareMagnitudes(a, b) = 1
    BY <1>1, <1>11, BelowCompares
  <2>2. /\ AtPlaces(j, g, p) < AtPlaces(i, f, p) /\ ValueOf(j) <= ValueOf(i)
        /\ ValueOf(j) + Carried(g) <= ValueOf(i) + Carried(f)
    BY <1>2, <1>11, BelowIsLess
  <2>. QED BY <1>3, <1>9, <2>1, <2>2
<1>12. CASE i = j /\ f = g
  <2>1. CompareDigits(f, f) = 0
    BY FirstCompares
  <2>2. Len(i) = Len(j)
    BY <1>12
  <2>3. CompareMagnitudes(a, b) = 0 /\ CompareMagnitudes(b, a) = 0
    BY <1>1, <1>12, <2>1, <2>2 DEF CompareMagnitudes
  <2>. QED BY <1>1, <1>9, <1>12, <2>3
<1>. QED BY <1>10, <1>11, <1>12, BelowOrEqual

-----------------------------------------------------------------------------
(* The order of numbers. *)

\* What every object holds.
Proper(n) == n = NaN \/ Shaped(n)

LEMMA ZeroIs ==
    /\ Zero = [neg |-> FALSE, int |-> <<0>>, frac |-> <<>>] /\ Shaped(Zero) /\ Zero # NaN
    /\ ValueOf(<<0>>) = 0
<1>1. <<0>> \in Seq(0..9) /\ <<>> \in Seq(0..9) /\ Len(<<0>>) = 1 /\ Len(<<>>) = 0
      /\ \A i \in 1..Len(<<0>>) : <<0>>[i] = 0
  OBVIOUS
<1>2. ValueOf(<<0>>) = 0
  BY <1>1, ValueOfZeros
<1>3. /\ Shaped(Zero) /\ Zero # NaN /\ (Zero.neg => FALSE)
      /\ Zero.frac = DropTrailing(<<>>) /\ Len(Zero.frac) <= Len(<<>>)
  BY <1>1, CanonicalIs DEF Zero
<1>9. PICK zero \in Seq(0..9) : zero = <<0>> /\ Len(zero) = 1 /\ zero[1] = 0
  <2>1. <<0>> \in Seq(0..9) /\ Len(<<0>>) = 1 /\ <<0>>[1] = 0
    OBVIOUS
  <2>. QED BY <2>1
<1>4. PICK zeros \in 0..Len(zero), whole \in Seq(0..9) :
         /\ whole = DropLeading(zero) /\ Len(whole) = Len(zero) - zeros
         /\ zeros = Len(zero) \/ zero[zeros + 1] # 0
  BY DropLeadingIs
<1>5. whole = <<>>
  <2>1. zeros = 1
    <3>1. zeros \in 0..1 /\ (zeros = 0 => zeros + 1 = 1)
      BY <1>4, <1>9
    <3>. QED BY <1>4, <1>9, <3>1
  <2>2. Len(whole) = 0
    BY <1>4, <1>9, <2>1
  <2>. QED BY <2>2, EmptySeq
<1>6. Zero.frac = <<>>
  <2>1. Zero.frac \in Seq(0..9)
    BY <1>3, ShapedIsCanonical
  <2>2. Len(Zero.frac) = 0
    BY <1>1, <1>3, <2>1
  <2>. QED BY <2>1, <2>2, EmptySeq
<1>7. Zero.int = <<0>>
  BY <1>4, <1>5, <1>9 DEF Zero, Canonical
<1>8. Zero \in [neg : BOOLEAN, int : Seq(0..9), frac : Seq(0..9)]
  BY <1>3 DEF Shaped, Numbers, Digit
<1>. QED BY <1>2, <1>3, <1>6, <1>7, <1>8

LEMMA MagnitudeOfZero == ASSUME NEW p \in Nat PROVE Magnitude(Zero, p) = 0
<1>1. <<0>> \in Seq(0..9) /\ <<>> \in Seq(0..9) /\ Len(<<>>) = 0 /\ Len(<<>>) <= p
  OBVIOUS
<1>2. ValueOf(<<0>>) = 0 /\ ValueOf(<<>>) = 0
  <2>1. \A i \in 1..Len(<<>>) : <<>>[i] = 0
    OBVIOUS
  <2>. QED BY <1>1, <2>1, ValueOfZeros, ZeroIs
<1>3. Magnitude(Zero, p)
        = ValueOf(<<0>>) * PowerOfTen[p] + ValueOf(<<>>) * PowerOfTen[p - Len(<<>>)]
  BY <1>1, MagnitudeOfCanonical DEF Zero
<1>4. PICK e \in Nat : e = PowerOfTen[p]
  BY PowerOfTenIs
<1>5. p - Len(<<>>) = p
  BY <1>1
<1>6. 0 * e + 0 * e = 0
  OBVIOUS
<1>. QED BY <1>2, <1>3, <1>4, <1>5, <1>6

\* A number with no digits but zeros is the zero, which has no sign.
LEMMA NegativeIsNotZero ==
    ASSUME NEW n, Shaped(n), NEW p \in Nat, Len(n.frac) <= p
    PROVE  /\ Magnitude(n, p) \in Nat
           /\ Magnitude(n, p) = 0 <=> n = Zero
           /\ n.neg => Magnitude(n, p) > 0
<1>1. Shaped(Zero) /\ Zero.int = <<0>> /\ Zero.frac = <<>> /\ Zero.neg = FALSE
  BY ZeroIs
<1>2. Len(Zero.frac) <= p
  BY <1>1
<1>3. /\ Magnitude(n, p) \in Nat /\ Magnitude(Zero, p) \in Nat
      /\ \/ Magnitude(Zero, p) < Magnitude(n, p)
         \/ Magnitude(n, p) < Magnitude(Zero, p)
         \/ Zero.int = n.int /\ Zero.frac = n.frac
  BY <1>1, <1>2, OrderOfMagnitudes
<1>4. Magnitude(Zero, p) = 0
  BY MagnitudeOfZero
<1>5. CASE Magnitude(n, p) > 0
  <2>1. n # Zero
    BY <1>4, <1>5
  <2>. QED BY <1>3, <1>5, <2>1
<1>6. CASE Magnitude(n, p) = 0
  <2>1. n.int = <<0>> /\ n.frac = <<>>
    BY <1>1, <1>3, <1>4, <1>6
  <2>2. n.neg = FALSE
    BY <2>1, ShapedIsCanonical DEF Shaped
  <2>3. n \in [neg : BOOLEAN, int : Seq(0..9), frac : Seq(0..9)]
    BY DEF Shaped, Numbers, Digit
  <2>4. n = Zero
    BY <2>1, <2>2, <2>3, ZeroIs
  <2>. QED BY <1>3, <1>6, <2>2, <2>4
<1>. QED BY <1>3, <1>5, <1>6

\* The value of a number, in units of its last place or of a smaller one.
LEMMA OrderOfNumbers ==
    ASSUME NEW a, NEW b, Shaped(a), Shaped(b),
           NEW p \in Nat, Len(a.frac) <= p, Len(b.frac) <= p
    PROVE  /\ Compare(a, b) = SignOf(Scaled(a, p) - Scaled(b, p))
           /\ Compare(a, b) = 0 <=> a = b
           /\ Compare(a, b) <= 0 =>
                /\ Negated(a.neg, Rounded(a)) <= Negated(b.neg, Rounded(b))
                /\ Negated(a.neg, Whole(a)) <= Negated(b.neg, Whole(b))
<1>1. a # NaN /\ b # NaN /\ a.neg \in BOOLEAN /\ b.neg \in BOOLEAN
  BY ShapedIsCanonical
<1>2. Scaled(a, p) = Negated(a.neg, Magnitude(a, p)) /\ Scaled(b, p) = Negated(b.neg, Magnitude(b, p))
  BY DEF Scaled, Magnitude
<1>3. PICK v \in Nat, w \in Nat, s \in Nat, t \in Nat, x \in Nat, y \in Nat :
         /\ v = Magnitude(a, p) /\ w = Magnitude(b, p) /\ s = Whole(a) /\ t = Whole(b)
         /\ x = Rounded(a) /\ y = Rounded(b)
  BY OrderOfMagnitudes
<1>4. \/ /\ CompareMagnitudes(a, b) = -1 /\ v < w /\ s <= t /\ x <= y
      \/ /\ CompareMagnitudes(a, b) = 1 /\ w < v /\ t <= s /\ y <= x
      \/ /\ CompareMagnitudes(a, b) = 0 /\ a.int = b.int /\ a.frac = b.frac
         /\ v = w /\ s = t /\ x = y
  <2>1. a.int = b.int /\ a.frac = b.frac => v = w /\ s = t /\ x = y
    BY <1>3 DEF Magnitude, Whole, Rounded
  <2>. QED BY <1>3, <2>1, OrderOfMagnitudes
<1>5. (a.neg => v > 0) /\ (b.neg => w > 0)
  BY <1>3, NegativeIsNotZero
<1>6. a.int = b.int /\ a.frac = b.frac /\ a.neg = b.neg <=> a = b
  <2>1. /\ a \in [neg : BOOLEAN, int : Seq(0..9), frac : Seq(0..9)]
        /\ b \in [neg : BOOLEAN, int : Seq(0..9), frac : Seq(0..9)]
    BY DEF Shaped, Numbers, Digit
  <2>. QED BY <2>1
<1>7. PICK m \in Int : m = CompareMagnitudes(a, b)
  BY <1>4
<1>8. Compare(a, b) = IF a.neg # b.neg THEN (IF a.neg THEN -1 ELSE 1)
                      ELSE IF a.neg THEN 0 - m ELSE m
  BY <1>1, <1>7 DEF Compare
<1>9. PICK na \in BOOLEAN, nb \in BOOLEAN : na = a.neg /\ nb = b.neg
  BY <1>1
<1>10. CASE a.neg = TRUE /\ b.neg = FALSE
  <2>1. Compare(a, b) = -1
    BY <1>8, <1>10
  <2>2. 0 - v < w /\ 0 - s <= t /\ 0 - x <= y
    BY <1>5, <1>10
  <2>3. SignOf((0 - v) - w) = -1
    BY <2>2 DEF SignOf
  <2>4. a # b
    BY <1>10
  <2>5. /\ Scaled(a, p) = 0 - v /\ Scaled(b, p) = w
        /\ Negated(a.neg, Rounded(a)) = 0 - x /\ Negated(b.neg, Rounded(b)) = y
        /\ Negated(a.neg, Whole(a)) = 0 - s /\ Negated(b.neg, Whole(b)) = t
    BY <1>2, <1>3, <1>10 DEF Negated
  <2>6. Compare(a, b) # 0
    BY <2>1
  <2>. QED BY <2>1, <2>2, <2>3, <2>4, <2>5, <2>6
<1>11. CASE a.neg = FALSE /\ b.neg = TRUE
  <2>1. Compare(a, b) = 1
    BY <1>8, <1>11
  <2>2. SignOf(v - (0 - w)) = 1
    BY <1>5, <1>11 DEF SignOf
  <2>3. a # b
    BY <1>11
  <2>5. Scaled(a, p) = v /\ Scaled(b, p) = 0 - w
    BY <1>2, <1>3, <1>11 DEF Negated
  <2>6. Compare(a, b) # 0 /\ ~(Compare(a, b) <= 0)
    BY <2>1
  <2>. QED BY <2>1, <2>2, <2>3, <2>5, <2>6
<1>12. CASE a.neg = FALSE /\ b.neg = FALSE
  <2>1. Compare(a, b) = m
    BY <1>8, <1>12
  <2>2. m = SignOf(v - w) /\ (m = 0 <=> a = b) /\ (m <= 0 => x <= y /\ s <= t)
    <3>1. CASE m = -1 /\ v < w /\ s <= t /\ x <= y
      <4>1. a # b
        BY <1>3, <3>1
      <4>. QED BY <3>1, <4>1 DEF SignOf
    <3>2. CASE m = 1 /\ w < v /\ t <= s /\ y <= x
      <4>1. a # b
        BY <1>3, <3>2
      <4>. QED BY <3>2, <4>1 DEF SignOf
    <3>3. CASE m = 0 /\ a.int = b.int /\ a.frac = b.frac /\ v = w /\ s = t /\ x = y
      <4>1. a = b
        BY <1>6, <1>12, <3>3
      <4>. QED BY <3>3, <4>1 DEF SignOf
    <3>. QED BY <1>4, <1>7, <3>1, <3>2, <3>3
  <2>. QED BY <1>2, <1>3, <1>12, <2>1, <2>2 DEF Negated
<1>13. CASE a.neg = TRUE /\ b.neg = TRUE
  <2>1. Compare(a, b) = 0 - m
    BY <1>8, <1>13
  <2>2. /\ 0 - m = SignOf((0 - v) - (0 - w)) /\ (0 - m = 0 <=> a = b)
        /\ (0 - m <= 0 => 0 - x <= 0 - y /\ 0 - s <= 0 - t)
    <3>1. CASE m = -1 /\ v < w /\ s <= t /\ x <= y
      <4>1. a # b
        BY <1>3, <3>1
      <4>. QED BY <3>1, <4>1 DEF SignOf
    <3>2. CASE m = 1 /\ w < v /\ t <= s /\ y <= x
      <4>1. a # b
        BY <1>3, <3>2
      <4>. QED BY <3>2, <4>1 DEF SignOf
    <3>3. CASE m = 0 /\ a.int = b.int /\ a.frac = b.frac /\ v = w /\ s = t /\ x = y
      <4>1. a = b
        BY <1>6, <1>13, <3>3
      <4>. QED BY <3>3, <4>1 DEF SignOf
    <3>. QED BY <1>4, <1>7, <3>1, <3>2, <3>3
  <2>. QED BY <1>2, <1>3, <1>13, <2>1, <2>2 DEF Negated
<1>. QED BY <1>1, <1>10, <1>11, <1>12, <1>13

\* The conversions of two numbers, each of which has a value, in their order.
LEMMA ConversionsKeepOrder ==
    ASSUME NumberAssumption, NEW a, NEW b, Shaped(a), Shaped(b),
           Negated(a.neg, Rounded(a)) <= Negated(b.neg, Rounded(b)),
           Negated(a.neg, Whole(a)) <= Negated(b.neg, Whole(b))
    PROVE  /\ Whole(a) <= DoubleMax /\ Whole(b) <= DoubleMax => ToInt(a) <= ToInt(b)
           /\ Whole(a) <= LongMax /\ Whole(b) <= LongMax => ToLongLong(a) <= ToLongLong(b)
<1>1. a # NaN /\ b # NaN /\ a.neg \in BOOLEAN /\ b.neg \in BOOLEAN
  BY ShapedIsCanonical
<1>2. PICK s \in Nat, t \in Nat, x \in Nat, y \in Nat :
         s = Whole(a) /\ t = Whole(b) /\ x = Rounded(a) /\ y = Rounded(b)
  <2>1. PICK i \in Nat, j \in Nat : i = Len(a.frac) /\ j = Len(b.frac)
    BY ShapedIsCanonical
  <2>2. i + j \in Nat /\ i <= i + j /\ j <= i + j
    OBVIOUS
  <2>3. i + j \in Nat /\ Len(a.frac) <= i + j /\ Len(b.frac) <= i + j
    BY <2>1, <2>2
  <2>. QED BY <2>3, OrderOfMagnitudes
<1>3. PICK v \in Int, w \in Int, d \in Int, e \in Int :
         /\ v = Negated(a.neg, Rounded(a)) /\ w = Negated(b.neg, Rounded(b))
         /\ d = Negated(a.neg, Whole(a)) /\ e = Negated(b.neg, Whole(b))
         /\ d <= s /\ 0 - s <= d /\ e <= t /\ 0 - t <= e
  <2>1. CASE a.neg /\ b.neg
    BY <1>2, <2>1 DEF Negated
  <2>2. CASE a.neg /\ ~b.neg
    BY <1>2, <2>2 DEF Negated
  <2>3. CASE ~a.neg /\ b.neg
    BY <1>2, <2>3 DEF Negated
  <2>4. CASE ~a.neg /\ ~b.neg
    BY <1>2, <2>4 DEF Negated
  <2>. QED BY <1>1, <2>1, <2>2, <2>3, <2>4
<1>4. v <= w /\ d <= e
  BY <1>3
<1>5. PICK imax \in Nat, lmax \in Nat : imax = IntMax /\ lmax = LongMax
  BY DEF NumberAssumption
<1>6. ASSUME Whole(a) <= DoubleMax, Whole(b) <= DoubleMax PROVE ToInt(a) <= ToInt(b)
  <2>1. ~(Whole(a) > DoubleMax) /\ ~(Whole(b) > DoubleMax)
    BY <1>2, <1>6 DEF NumberAssumption
  <2>2. /\ ToInt(a) = IF v < 0 - imax - 1 THEN 0 - imax - 1 ELSE IF v > imax THEN imax ELSE v
        /\ ToInt(b) = IF w < 0 - imax - 1 THEN 0 - imax - 1 ELSE IF w > imax THEN imax ELSE w
    BY <1>1, <1>3, <1>5, <2>1 DEF ToInt
  <2>. QED BY <1>4, <2>2
<1>7. ASSUME Whole(a) <= LongMax, Whole(b) <= LongMax PROVE ToLongLong(a) <= ToLongLong(b)
  <2>1. /\ ToLongLong(a) = IF d > lmax \/ d < 0 - lmax - 1 THEN 0 ELSE d
        /\ ToLongLong(b) = IF e > lmax \/ e < 0 - lmax - 1 THEN 0 ELSE e
    BY <1>1, <1>3, <1>5 DEF ToLongLong
  <2>2. s <= lmax /\ t <= lmax
    BY <1>2, <1>5, <1>7
  <2>3. ~(d > lmax) /\ ~(d < 0 - lmax - 1) /\ ~(e > lmax) /\ ~(e < 0 - lmax - 1)
    BY <1>3, <2>2
  <2>. QED BY <1>4, <2>1, <2>3
<1>. QED BY <1>6, <1>7

\* What OrderIsOfValues says of two numbers.
Ordered(a, b) ==
    /\ IsCanonical(a)
    /\ Compare(a, b) = 0 <=> a = b
    /\ a # NaN /\ b # NaN => Compare(a, b) = SignOf(Scaled(a, Places(a, b)) - Scaled(b, Places(a, b)))
    /\ a = NaN /\ b # NaN => Compare(a, b) = -1
    /\ a # NaN /\ b # NaN /\ Compare(a, b) <= 0 =>
         /\ Whole(a) <= DoubleMax /\ Whole(b) <= DoubleMax => ToInt(a) <= ToInt(b)
         /\ Whole(a) <= LongMax /\ Whole(b) <= LongMax => ToLongLong(a) <= ToLongLong(b)

LEMMA PlacesAre ==
    ASSUME NEW a, NEW b, Shaped(a), Shaped(b)
    PROVE  /\ Places(a, b) \in Nat /\ Len(a.frac) <= Places(a, b) /\ Len(b.frac) <= Places(a, b)
           /\ Places(a, b) = Len(a.frac) \/ Places(a, b) = Len(b.frac)
<1>1. PICK i \in Nat, j \in Nat : i = Len(a.frac) /\ j = Len(b.frac)
  BY ShapedIsCanonical
<1>. QED BY <1>1 DEF Places

LEMMA ProperAreOrdered ==
    ASSUME NumberAssumption, NEW a, NEW b, Proper(a), Proper(b)
    PROVE  Ordered(a, b)
<1>1. CASE a = NaN
  <2>1. Compare(a, b) = IF b = NaN THEN 0 ELSE -1
    BY <1>1 DEF Compare
  <2>. QED BY <1>1, <2>1 DEF Ordered, IsCanonical
<1>2. CASE Shaped(a) /\ b = NaN
  <2>1. a # NaN /\ IsCanonical(a)
    BY <1>2, ShapedIsCanonical DEF IsCanonical
  <2>2. Compare(a, b) = 1
    BY <1>2, <2>1 DEF Compare
  <2>. QED BY <1>2, <2>1, <2>2 DEF Ordered
<1>3. CASE Shaped(a) /\ Shaped(b)
  <2>1. a # NaN /\ b # NaN /\ IsCanonical(a)
    BY <1>3, ShapedIsCanonical DEF IsCanonical
  <2>2. Places(a, b) \in Nat /\ Len(a.frac) <= Places(a, b) /\ Len(b.frac) <= Places(a, b)
    BY <1>3, PlacesAre
  <2>3. /\ Compare(a, b) = SignOf(Scaled(a, Places(a, b)) - Scaled(b, Places(a, b)))
        /\ Compare(a, b) = 0 <=> a = b
        /\ Compare(a, b) <= 0 =>
             /\ Negated(a.neg, Rounded(a)) <= Negated(b.neg, Rounded(b))
             /\ Negated(a.neg, Whole(a)) <= Negated(b.neg, Whole(b))
    BY <1>3, <2>2, OrderOfNumbers
  <2>4. ASSUME Compare(a, b) <= 0
        PROVE  /\ Whole(a) <= DoubleMax /\ Whole(b) <= DoubleMax => ToInt(a) <= ToInt(b)
               /\ Whole(a) <= LongMax /\ Whole(b) <= LongMax => ToLongLong(a) <= ToLongLong(b)
    BY <1>3, <2>3, <2>4, ConversionsKeepOrder
  <2>. QED BY <2>1, <2>3, <2>4 DEF Ordered
<1>. QED BY <1>1, <1>2, <1>3 DEF Proper

-----------------------------------------------------------------------------
(* Sums and differences, column by column. *)

\* Digits that are sums, or differences, write the sum or difference.
LEMMA ValueOfSums ==
    ASSUME NEW x \in Seq(Int), NEW y \in Seq(Int), NEW e \in Seq(Int),
           Len(x) = Len(e), Len(y) = Len(e), NEW f \in {1, -1},
           \A i \in 1..Len(e) : e[i] = x[i] + f * y[i]
    PROVE  ValueOf(e) = ValueOf(x) + f * ValueOf(y)
<1>1. PICK n \in Nat : n = Len(e) /\ n = Len(x) /\ n = Len(y)
  OBVIOUS
<1>8. PICK p \in [0..Len(x) -> Int] :
         /\ p = PrefixValues(x) /\ p[0] = 0 /\ p[Len(x)] = ValueOf(x)
         /\ \A i \in 1..Len(x) : p[i] = 10 * p[i - 1] + x[i]
  BY PrefixesExist
<1>9. PICK q \in [0..Len(y) -> Int] :
         /\ q = PrefixValues(y) /\ q[0] = 0 /\ q[Len(y)] = ValueOf(y)
         /\ \A i \in 1..Len(y) : q[i] = 10 * q[i - 1] + y[i]
  BY PrefixesExist
<1>10. PICK r \in [0..Len(e) -> Int] :
         /\ r = PrefixValues(e) /\ r[0] = 0 /\ r[Len(e)] = ValueOf(e)
         /\ \A i \in 1..Len(e) : r[i] = 10 * r[i - 1] + e[i]
  BY PrefixesExist
<1>2. /\ p \in [0..n -> Int] /\ q \in [0..n -> Int] /\ r \in [0..n -> Int]
      /\ p[0] = 0 /\ q[0] = 0 /\ r[0] = 0
      /\ \A i \in 1..n : p[i] = 10 * p[i - 1] + x[i]
      /\ \A i \in 1..n : q[i] = 10 * q[i - 1] + y[i]
      /\ \A i \in 1..n : r[i] = 10 * r[i - 1] + e[i]
      /\ p[n] = ValueOf(x) /\ q[n] = ValueOf(y) /\ r[n] = ValueOf(e)
  BY <1>1, <1>8, <1>9, <1>10
<1>11. \A i \in 1..n : x[i] \in Int /\ y[i] \in Int
  BY <1>1
<1>. DEFINE Good == {i \in Nat : i <= n => r[i] = p[i] + f * q[i]}
<1>3. 0 \in Good
  BY <1>2
<1>4. ASSUME NEW i \in Nat, i \in Good PROVE i + 1 \in Good
  <2>. SUFFICES ASSUME i + 1 <= n PROVE r[i + 1] = p[i + 1] + f * q[i + 1]
    OBVIOUS
  <2>1. i + 1 \in 1..n /\ (i + 1) - 1 = i /\ i \in 0..n
    OBVIOUS
  <2>2. r[i] = p[i] + f * q[i]
    BY <1>4, <2>1
  <2>3. PICK pi \in Int, qi \in Int, ri \in Int, xi \in Int, yi \in Int :
           pi = p[i] /\ qi = q[i] /\ ri = r[i] /\ xi = x[i + 1] /\ yi = y[i + 1]
    BY <1>2, <1>11, <2>1
  <2>4. e[i + 1] = xi + f * yi
    BY <1>1, <2>1, <2>3
  <2>5. /\ p[i + 1] = 10 * pi + xi /\ q[i + 1] = 10 * qi + yi
        /\ r[i + 1] = 10 * ri + (xi + f * yi)
    BY <1>2, <2>1, <2>3, <2>4
  <2>6. ri = pi + f * qi
    BY <2>2, <2>3
  <2>7. 10 * (pi + f * qi) + (xi + f * yi) = (10 * pi + xi) + f * (10 * qi + yi)
    <3>1. CASE f = 1
      BY <3>1
    <3>2. CASE f = -1
      BY <3>2
    <3>. QED BY <3>1, <3>2
  <2>. QED BY <2>5, <2>6, <2>7
<1>5. \A i \in Nat : i \in Good
  <2>. HIDE DEF Good
  <2>. QED BY <1>3, <1>4, Induction
<1>6. n <= n
  OBVIOUS
<1>7. r[n] = p[n] + f * q[n]
  BY <1>5, <1>6
<1>. QED BY <1>2, <1>7

\* A column keeps its last digit and hands the rest to the next.
LEMMA ColumnsHandOn ==
    ASSUME NEW e \in Seq(Int), NEW s \in Seq(Int), Len(s) = Len(e),
           NEW c \in [0..Len(e) -> Int],
           \A i \in 1..Len(e) : e[i] + c[Len(e) - i] = 10 * c[Len(e) - i + 1] + s[i]
    PROVE  ValueOf(e) + c[0] = PowerOfTen[Len(e)] * c[Len(e)] + ValueOf(s)
<1>1. PICK n \in Nat : n = Len(e) /\ n = Len(s)
  OBVIOUS
<1>9. PICK p \in [0..Len(e) -> Int] :
         /\ p = PrefixValues(e) /\ p[0] = 0 /\ p[Len(e)] = ValueOf(e)
         /\ \A i \in 1..Len(e) : p[i] = 10 * p[i - 1] + e[i]
  BY PrefixesExist
<1>10. PICK q \in [0..Len(s) -> Int] :
         /\ q = PrefixValues(s) /\ q[0] = 0 /\ q[Len(s)] = ValueOf(s)
         /\ \A i \in 1..Len(s) : q[i] = 10 * q[i - 1] + s[i]
  BY PrefixesExist
<1>2. /\ p \in [0..n -> Int] /\ q \in [0..n -> Int] /\ p[0] = 0 /\ q[0] = 0
      /\ \A i \in 1..n : p[i] = 10 * p[i - 1] + e[i]
      /\ \A i \in 1..n : q[i] = 10 * q[i - 1] + s[i]
      /\ p[n] = ValueOf(e) /\ q[n] = ValueOf(s)
  BY <1>1, <1>9, <1>10
<1>11. \A i \in 1..n : e[i] \in Int /\ s[i] \in Int
  BY <1>1
<1>3. PICK last \in Int : last = c[n]
  BY <1>1
<1>. DEFINE Good == {i \in Nat : i <= n => p[i] + c[n - i] = PowerOfTen[i] * last + q[i]}
<1>4. 0 \in Good
  <2>1. n - 0 = n /\ 0 + last = 1 * last + 0
    OBVIOUS
  <2>. QED BY <1>2, <1>3, <2>1, PowerOfTenIs
<1>5. ASSUME NEW i \in Nat, i \in Good PROVE i + 1 \in Good
  <2>. SUFFICES ASSUME i + 1 <= n
                PROVE  p[i + 1] + c[n - (i + 1)] = PowerOfTen[i + 1] * last + q[i + 1]
    OBVIOUS
  <2>1. /\ i + 1 \in 1..n /\ (i + 1) - 1 = i /\ i \in 0..n
        /\ n - (i + 1) \in 0..n /\ n - i \in 0..n /\ n - (i + 1) + 1 = n - i
    OBVIOUS
  <2>2. p[i] + c[n - i] = PowerOfTen[i] * last + q[i]
    BY <1>5, <2>1
  <2>3. PICK pi \in Int, qi \in Int, ei \in Int, si \in Int, ci \in Int, di \in Int, h \in Nat :
           /\ pi = p[i] /\ qi = q[i] /\ ei = e[i + 1] /\ si = s[i + 1]
           /\ ci = c[n - i] /\ di = c[n - (i + 1)] /\ h = PowerOfTen[i]
    <3>1. c \in [0..n -> Int] /\ PowerOfTen[i] \in Nat
      BY <1>1, PowerOfTenIs
    <3>. QED BY <1>2, <1>11, <2>1, <3>1
  <2>4. ei + di = 10 * ci + si
    BY <1>1, <2>1, <2>3
  <2>5. p[i + 1] = 10 * pi + ei /\ q[i + 1] = 10 * qi + si /\ PowerOfTen[i + 1] = 10 * h
    BY <1>2, <2>1, <2>3, PowerOfTenIs
  <2>6. pi + ci = h * last + qi
    BY <2>2, <2>3
  <2>7. (10 * pi + ei) + di = 10 * (pi + ci) + si
    BY <2>4
  <2>8. 10 * (h * last + qi) + si = (10 * h) * last + (10 * qi + si)
    OBVIOUS
  <2>. QED BY <2>3, <2>5, <2>6, <2>7, <2>8
<1>6. \A i \in Nat : i \in Good
  <2>. HIDE DEF Good
  <2>. QED BY <1>4, <1>5, Induction
<1>7. n <= n /\ n - n = 0
  OBVIOUS
<1>8. p[n] + c[0] = PowerOfTen[n] * last + q[n]
  BY <1>6, <1>7
<1>. QED BY <1>1, <1>2, <1>3, <1>8

LEMMA CarriesAre ==
    ASSUME NEW x \in Seq(0..9), NEW y \in Seq(0..9), Len(x) = Len(y)
    PROVE  /\ Carries(x, y) \in [0..Len(x) -> 0..1] /\ Carries(x, y)[0] = 0
           /\ \A k \in 1..Len(x) :
                Carries(x, y)[k] = (x[Len(x) - k + 1] + y[Len(x) - k + 1] + Carries(x, y)[k - 1]) \div 10
<1>1. PICK n \in Nat : n = Len(x) /\ n = Len(y)
  OBVIOUS
<1>2. \A k \in 1..n : x[n - k + 1] \in 0..9 /\ y[n - k + 1] \in 0..9
  <2>. SUFFICES ASSUME NEW k \in 1..n PROVE x[n - k + 1] \in 0..9 /\ y[n - k + 1] \in 0..9
    OBVIOUS
  <2>1. n - k + 1 \in 1..n
    OBVIOUS
  <2>. QED BY <1>1, <2>1
<1>3. \A d \in 0..9, e \in 0..9, c \in 0..1 : (d + e + c) \div 10 \in 0..1
  OBVIOUS
<1>. DEFINE step == [k \in 1..n |-> [c \in 0..1 |-> (x[n - k + 1] + y[n - k + 1] + c) \div 10]]
<1>4. step \in [1..n -> [0..1 -> 0..1]]
  BY <1>2, <1>3
<1>5. 0 \in 0..1
  OBVIOUS
<1>6. PICK f : IteratesTo(f, 0..1, n, 0, step)
  <2>. HIDE DEF step
  <2>. QED BY <1>4, <1>5, BoundedRecursionExists, Zenon
<1>7. /\ f \in [0..n -> 0..1] /\ f[0] = 0
      /\ \A k \in 1..n : f[k] = (x[n - k + 1] + y[n - k + 1] + f[k - 1]) \div 10
  <2>1. f \in [0..n -> 0..1] /\ f[0] = 0 /\ \A k \in 1..n : f[k] = step[k][f[k - 1]]
    BY <1>6 DEF IteratesTo
  <2>2. ASSUME NEW k \in 1..n PROVE f[k] = (x[n - k + 1] + y[n - k + 1] + f[k - 1]) \div 10
    <3>1. f[k - 1] \in 0..1
      BY <2>1
    <3>. QED BY <2>1, <3>1
  <2>. QED BY <2>1, <2>2
<1>. DEFINE Def(g) == [k \in 0..n |-> IF k = 0 THEN 0 ELSE (x[n - k + 1] + y[n - k + 1] + g[k - 1]) \div 10]
<1>8. f = Def(f)
  <2>1. \A k \in 0..n : f[k] = IF k = 0 THEN 0 ELSE (x[n - k + 1] + y[n - k + 1] + f[k - 1]) \div 10
    BY <1>7
  <2>. QED BY <1>7, <2>1
<1>9. Carries(x, y) = CHOOSE g : g = Def(g)
  BY <1>1 DEF Carries
<1>10. PICK c : c = Carries(x, y) /\ c = Def(c)
  <2>. HIDE DEF Def
  <2>. QED BY <1>8, <1>9
<1>11. /\ c = [k \in 0..n |-> c[k]] /\ c[0] = 0
       /\ \A k \in 1..n : c[k] = (x[n - k + 1] + y[n - k + 1] + c[k - 1]) \div 10
  BY <1>10
<1>. DEFINE Good == {k \in Nat : k <= n => c[k] \in 0..1}
<1>12. 0 \in Good
  BY <1>11
<1>13. ASSUME NEW k \in Nat, k \in Good PROVE k + 1 \in Good
  <2>. SUFFICES ASSUME k + 1 <= n PROVE c[k + 1] \in 0..1
    OBVIOUS
  <2>1. k + 1 \in 1..n /\ (k + 1) - 1 = k /\ c[k] \in 0..1
    BY <1>13
  <2>2. c[k + 1] = (x[n - (k + 1) + 1] + y[n - (k + 1) + 1] + c[k]) \div 10
    BY <1>11, <2>1
  <2>. QED BY <1>2, <1>3, <2>1, <2>2
<1>14. \A k \in Nat : k \in Good
  <2>. HIDE DEF Good
  <2>. QED BY <1>12, <1>13, Induction
<1>15. c \in [0..n -> 0..1]
  <2>1. \A k \in 0..n : c[k] \in 0..1
    BY <1>14
  <2>. QED BY <1>11, <2>1
<1>. QED BY <1>1, <1>10, <1>11, <1>15

LEMMA BorrowsAre ==
    ASSUME NEW x \in Seq(0..9), NEW y \in Seq(0..9), Len(x) = Len(y)
    PROVE  /\ Borrows(x, y) \in [0..Len(x) -> 0..1] /\ Borrows(x, y)[0] = 0
           /\ \A k \in 1..Len(x) :
                Borrows(x, y)[k] = IF x[Len(x) - k + 1] - y[Len(x) - k + 1] - Borrows(x, y)[k - 1] < 0
                                   THEN 1 ELSE 0
<1>1. PICK n \in Nat : n = Len(x) /\ n = Len(y)
  OBVIOUS
<1>. DEFINE step == [k \in 1..n |-> [c \in 0..1 |->
                        IF x[n - k + 1] - y[n - k + 1] - c < 0 THEN 1 ELSE 0]]
<1>4. step \in [1..n -> [0..1 -> 0..1]]
  <2>1. \A t : (IF t THEN 1 ELSE 0) \in 0..1
    OBVIOUS
  <2>. QED BY <2>1
<1>5. 0 \in 0..1
  OBVIOUS
<1>6. PICK f : IteratesTo(f, 0..1, n, 0, step)
  <2>. HIDE DEF step
  <2>. QED BY <1>4, <1>5, BoundedRecursionExists, Zenon
<1>7. /\ f \in [0..n -> 0..1] /\ f[0] = 0
      /\ \A k \in 1..n : f[k] = IF x[n - k + 1] - y[n - k + 1] - f[k - 1] < 0 THEN 1 ELSE 0
  <2>1. f \in [0..n -> 0..1] /\ f[0] = 0 /\ \A k \in 1..n : f[k] = step[k][f[k - 1]]
    BY <1>6 DEF IteratesTo
  <2>2. ASSUME NEW k \in 1..n
        PROVE  f[k] = IF x[n - k + 1] - y[n - k + 1] - f[k - 1] < 0 THEN 1 ELSE 0
    <3>1. f[k - 1] \in 0..1
      BY <2>1
    <3>. QED BY <2>1, <3>1
  <2>. QED BY <2>1, <2>2
<1>. DEFINE Def(g) == [k \in 0..n |-> IF k = 0 THEN 0
                         ELSE IF x[n - k + 1] - y[n - k + 1] - g[k - 1] < 0 THEN 1 ELSE 0]
<1>8. f = Def(f)
  <2>1. \A k \in 0..n : f[k] = IF k = 0 THEN 0
                               ELSE IF x[n - k + 1] - y[n - k + 1] - f[k - 1] < 0 THEN 1 ELSE 0
    BY <1>7
  <2>. QED BY <1>7, <2>1
<1>9. Borrows(x, y) = CHOOSE g : g = Def(g)
  BY <1>1 DEF Borrows
<1>10. PICK c : c = Borrows(x, y) /\ c = Def(c)
  <2>. HIDE DEF Def
  <2>. QED BY <1>8, <1>9
<1>11. /\ c = [k \in 0..n |-> c[k]] /\ c[0] = 0
       /\ \A k \in 1..n : c[k] = IF x[n - k + 1] - y[n - k + 1] - c[k - 1] < 0 THEN 1 ELSE 0
  BY <1>10
<1>12. ASSUME NEW k \in 0..n PROVE c[k] \in 0..1
  <2>1. CASE k = 0
    BY <1>11, <2>1
  <2>2. CASE k # 0
    <3>1. k \in 1..n
      BY <2>2
    <3>2. c[k] = 1 \/ c[k] = 0
      BY <1>11, <3>1
    <3>. QED BY <3>2
  <2>. QED BY <2>1, <2>2
<1>13. c \in [0..n -> 0..1]
  BY <1>11, <1>12
<1>. QED BY <1>1, <1>10, <1>11, <1>13

\* What a column of two digits keeps and carries.
LEMMA ColumnCarries ==
    ASSUME NEW d \in 0..9, NEW e \in 0..9, NEW c \in 0..1
    PROVE  (d + e + c) % 10 \in 0..9 /\ d + e + c = 10 * ((d + e + c) \div 10) + ((d + e + c) % 10)
OBVIOUS

\* add_positive_numbers(): no digit of the sum is lost.
LEMMA AddDigitsIs ==
    ASSUME NEW x \in Seq(0..9), NEW y \in Seq(0..9), Len(x) = Len(y)
    PROVE  /\ AddDigits(x, y) \in Seq(0..9)
           /\ ValueOf(AddDigits(x, y)) = ValueOf(x) + ValueOf(y)
<1>1. PICK n \in Nat : n = Len(x) /\ n = Len(y)
  OBVIOUS
<1>2. PICK c \in [0..n -> 0..1] :
         /\ c = Carries(x, y) /\ c[0] = 0
         /\ \A k \in 1..n : c[k] = (x[n - k + 1] + y[n - k + 1] + c[k - 1]) \div 10
  <2>1. /\ Carries(x, y) \in [0..Len(x) -> 0..1] /\ Carries(x, y)[0] = 0
        /\ \A k \in 1..Len(x) :
             Carries(x, y)[k] = (x[Len(x) - k + 1] + y[Len(x) - k + 1] + Carries(x, y)[k - 1]) \div 10
    BY CarriesAre
  <2>. QED BY <1>1, <2>1
<1>. DEFINE s == [i \in 1..n |-> (x[i] + y[i] + c[n - i]) % 10]
            e == [i \in 1..n |-> x[i] + y[i]]
<1>3. ASSUME NEW i \in 1..n
      PROVE  /\ x[i] \in 0..9 /\ y[i] \in 0..9 /\ s[i] \in 0..9 /\ e[i] \in Int
             /\ e[i] + c[n - i] = 10 * c[n - i + 1] + s[i]
             /\ e[i] = x[i] + 1 * y[i]
  <2>1. /\ n - i \in 0..n /\ n - i + 1 \in 1..n /\ n - (n - i + 1) + 1 = i
        /\ (n - i + 1) - 1 = n - i
    OBVIOUS
  <2>2. PICK d \in 0..9, f \in 0..9, g \in 0..1 : d = x[i] /\ f = y[i] /\ g = c[n - i]
    <3>1. x[i] \in 0..9 /\ y[i] \in 0..9
      BY <1>1
    <3>2. c[n - i] \in 0..1
      BY <2>1
    <3>. QED BY <3>1, <3>2
  <2>3. c[n - i + 1] = (d + f + g) \div 10
    BY <1>2, <2>1, <2>2
  <2>4. s[i] = (d + f + g) % 10 /\ e[i] = d + f
    BY <2>2
  <2>5. (d + f + g) % 10 \in 0..9 /\ d + f + g = 10 * ((d + f + g) \div 10) + ((d + f + g) % 10)
    BY ColumnCarries
  <2>6. d + f = d + 1 * f
    OBVIOUS
  <2>. HIDE DEF s, e
  <2>. QED BY <2>2, <2>3, <2>4, <2>5, <2>6
<1>4. s \in Seq(0..9) /\ Len(s) = n /\ e \in Seq(Int) /\ Len(e) = n
  <2>1. s \in [1..n -> 0..9] /\ e \in [1..n -> Int]
    BY <1>3
  <2>. HIDE DEF s, e
  <2>. QED BY <2>1, SeqDef, LenProperties
<1>5. AddDigits(x, y) = IF c[n] > 0 THEN <<c[n]>> \o s ELSE s
  BY <1>1, <1>2 DEF AddDigits
<1>. HIDE DEF s, e
<1>6. ValueOf(e) = ValueOf(x) + 1 * ValueOf(y)
  <2>1. Len(x) = Len(e) /\ Len(y) = Len(e) /\ 1 \in {1, -1} /\ x \in Seq(Int) /\ y \in Seq(Int)
    BY <1>1, <1>4, DigitsAreInts
  <2>2. \A i \in 1..Len(e) : e[i] = x[i] + 1 * y[i]
    BY <1>3, <1>4
  <2>. QED BY <1>4, <2>1, <2>2, ValueOfSums
<1>7. ValueOf(e) + c[0] = PowerOfTen[n] * c[n] + ValueOf(s)
  <2>1. Len(s) = Len(e) /\ s \in Seq(Int)
    BY <1>4, DigitsAreInts
  <2>2. c \in [0..Len(e) -> Int]
    BY <1>4
  <2>3. \A i \in 1..Len(e) : e[i] + c[Len(e) - i] = 10 * c[Len(e) - i + 1] + s[i]
    BY <1>3, <1>4
  <2>4. ValueOf(e) + c[0] = PowerOfTen[Len(e)] * c[Len(e)] + ValueOf(s)
    BY <1>4, <2>1, <2>2, <2>3, ColumnsHandOn
  <2>. QED BY <1>4, <2>4
<1>8. PICK v \in Nat, w \in Nat, u \in Nat, h \in Nat, last \in 0..1 :
         v = ValueOf(x) /\ w = ValueOf(y) /\ u = ValueOf(s) /\ h = PowerOfTen[n] /\ last = c[n]
  <2>1. ValueOf(x) \in Nat /\ ValueOf(y) \in Nat /\ ValueOf(s) \in Nat
    BY <1>4, ValueFits
  <2>2. PowerOfTen[n] \in Nat /\ c[n] \in 0..1
    BY PowerOfTenIs
  <2>. QED BY <2>1, <2>2
<1>9. v + w = h * last + u
  <2>1. (v + 1 * w) + 0 = h * last + u
    BY <1>2, <1>6, <1>7, <1>8
  <2>. QED BY <2>1
<1>10. CASE last = 0
  <2>1. AddDigits(x, y) = s
    BY <1>5, <1>8, <1>10
  <2>2. v + w = u
    BY <1>9, <1>10
  <2>. QED BY <1>4, <1>8, <2>1, <2>2
<1>11. CASE last = 1
  <2>1. PICK one \in Seq(0..9) : one = <<1>> /\ Len(one) = 1 /\ one[1] = 1
    <3>1. <<1>> \in Seq(0..9) /\ Len(<<1>>) = 1 /\ <<1>>[1] = 1
      OBVIOUS
    <3>. QED BY <3>1
  <2>2. AddDigits(x, y) = one \o s
    BY <1>5, <1>8, <1>11, <2>1
  <2>3. ValueOf(one) = 1
    <3>1. PICK p \in [0..Len(one) -> Int] :
             /\ p = PrefixValues(one) /\ p[0] = 0 /\ p[Len(one)] = ValueOf(one)
             /\ \A i \in 1..Len(one) : p[i] = 10 * p[i - 1] + one[i]
      BY DigitsAreInts, PrefixesExist
    <3>2. p[1] = 10 * p[1 - 1] + 1
      BY <2>1, <3>1
    <3>. QED BY <2>1, <3>1, <3>2
  <2>4. ValueOf(one \o s) = ValueOf(one) * PowerOfTen[Len(s)] + ValueOf(s)
    BY <1>4, DigitsAreInts, ValueOfBoth
  <2>5. 1 * h + u = v + w
    BY <1>9, <1>11
  <2>6. one \o s \in Seq(0..9)
    BY <1>4, ConcatProperties, Zenon
  <2>. QED BY <1>4, <1>8, <2>2, <2>3, <2>4, <2>5, <2>6
<1>. QED BY <1>10, <1>11

\* subtract_positive_numbers(): every borrow is paid, as the first is not the smaller.
LEMMA ColumnBorrows ==
    ASSUME NEW d \in 0..9, NEW e \in 0..9, NEW c \in 0..1
    PROVE  /\ (d - e - c) % 10 \in 0..9
           /\ d - e - c = ((d - e - c) % 10) - 10 * (IF d - e - c < 0 THEN 1 ELSE 0)
OBVIOUS

LEMMA SubtractDigitsIs ==
    ASSUME NEW x \in Seq(0..9), NEW y \in Seq(0..9), Len(x) = Len(y)
    PROVE  /\ SubtractDigits(x, y) \in Seq(0..9)
           /\ ValueOf(y) <= ValueOf(x) => ValueOf(SubtractDigits(x, y)) = ValueOf(x) - ValueOf(y)
<1>1. PICK n \in Nat : n = Len(x) /\ n = Len(y)
  OBVIOUS
<1>2. PICK b \in [0..n -> 0..1] :
         /\ b = Borrows(x, y) /\ b[0] = 0
         /\ \A k \in 1..n : b[k] = IF x[n - k + 1] - y[n - k + 1] - b[k - 1] < 0 THEN 1 ELSE 0
  <2>1. /\ Borrows(x, y) \in [0..Len(x) -> 0..1] /\ Borrows(x, y)[0] = 0
        /\ \A k \in 1..Len(x) :
             Borrows(x, y)[k] = IF x[Len(x) - k + 1] - y[Len(x) - k + 1] - Borrows(x, y)[k - 1] < 0
                                THEN 1 ELSE 0
    BY BorrowsAre
  <2>. QED BY <1>1, <2>1
<1>. DEFINE s == [i \in 1..n |-> (x[i] - y[i] - b[n - i]) % 10]
            e == [i \in 1..n |-> x[i] - y[i]]
            c == [k \in 0..n |-> 0 - b[k]]
<1>3. ASSUME NEW i \in 1..n
      PROVE  /\ x[i] \in 0..9 /\ y[i] \in 0..9 /\ s[i] \in 0..9 /\ e[i] \in Int
             /\ e[i] + c[n - i] = 10 * c[n - i + 1] + s[i]
             /\ e[i] = x[i] + (-1) * y[i]
  <2>1. /\ n - i \in 0..n /\ n - i + 1 \in 1..n /\ n - (n - i + 1) + 1 = i
        /\ (n - i + 1) - 1 = n - i /\ n - i + 1 \in 0..n
    OBVIOUS
  <2>2. PICK d \in 0..9, f \in 0..9, g \in 0..1 : d = x[i] /\ f = y[i] /\ g = b[n - i]
    <3>1. x[i] \in 0..9 /\ y[i] \in 0..9
      BY <1>1
    <3>2. b[n - i] \in 0..1
      BY <2>1
    <3>. QED BY <3>1, <3>2
  <2>3. b[n - i + 1] = IF d - f - g < 0 THEN 1 ELSE 0
    BY <1>2, <2>1, <2>2
  <2>4. s[i] = (d - f - g) % 10 /\ e[i] = d - f /\ c[n - i] = 0 - g /\ c[n - i + 1] = 0 - b[n - i + 1]
    BY <2>1, <2>2
  <2>5. /\ (d - f - g) % 10 \in 0..9
        /\ d - f - g = ((d - f - g) % 10) - 10 * (IF d - f - g < 0 THEN 1 ELSE 0)
    BY ColumnBorrows
  <2>6. d - f = d + (-1) * f
    OBVIOUS
  <2>7. PICK r \in 0..9, k \in 0..1 :
           r = (d - f - g) % 10 /\ k = b[n - i + 1] /\ d - f - g = r - 10 * k
    BY <2>1, <2>3, <2>5
  <2>8. (d - f) + (0 - g) = 10 * (0 - k) + r
    BY <2>7
  <2>. HIDE DEF s, e, c
  <2>9. e[i] = d - f /\ c[n - i] = 0 - g /\ c[n - i + 1] = 0 - k /\ s[i] = r
    BY <2>4, <2>7
  <2>10. e[i] + c[n - i] = 10 * c[n - i + 1] + s[i]
    BY <2>8, <2>9
  <2>11. e[i] = x[i] + (-1) * y[i] /\ e[i] \in Int
    BY <2>2, <2>6, <2>9
  <2>12. s[i] \in 0..9 /\ x[i] \in 0..9 /\ y[i] \in 0..9
    BY <2>2, <2>9
  <2>. QED BY <2>10, <2>11, <2>12
<1>4. s \in Seq(0..9) /\ Len(s) = n /\ e \in Seq(Int) /\ Len(e) = n /\ c \in [0..n -> Int]
  <2>1. s \in [1..n -> 0..9] /\ e \in [1..n -> Int]
    BY <1>3
  <2>2. c \in [0..n -> Int]
    OBVIOUS
  <2>. HIDE DEF s, e, c
  <2>. QED BY <2>1, <2>2, SeqDef, LenProperties
<1>5. SubtractDigits(x, y) = s
  BY <1>1, <1>2 DEF SubtractDigits
<1>12. c[0] = 0 /\ c[n] = 0 - b[n]
  BY <1>2
<1>. HIDE DEF s, e, c
<1>6. ValueOf(e) = ValueOf(x) + (-1) * ValueOf(y)
  <2>1. Len(x) = Len(e) /\ Len(y) = Len(e) /\ -1 \in {1, -1} /\ x \in Seq(Int) /\ y \in Seq(Int)
    BY <1>1, <1>4, DigitsAreInts
  <2>2. \A i \in 1..Len(e) : e[i] = x[i] + (-1) * y[i]
    BY <1>3, <1>4
  <2>. QED BY <1>4, <2>1, <2>2, ValueOfSums
<1>7. ValueOf(e) + c[0] = PowerOfTen[n] * c[n] + ValueOf(s)
  <2>1. Len(s) = Len(e) /\ s \in Seq(Int)
    BY <1>4, DigitsAreInts
  <2>2. c \in [0..Len(e) -> Int]
    BY <1>4
  <2>3. \A i \in 1..Len(e) : e[i] + c[Len(e) - i] = 10 * c[Len(e) - i + 1] + s[i]
    BY <1>3, <1>4
  <2>4. ValueOf(e) + c[0] = PowerOfTen[Len(e)] * c[Len(e)] + ValueOf(s)
    BY <1>4, <2>1, <2>2, <2>3, ColumnsHandOn
  <2>. QED BY <1>4, <2>4
<1>8. PICK v \in Nat, w \in Nat, u \in Nat, h \in Nat, last \in 0..1 :
         /\ v = ValueOf(x) /\ w = ValueOf(y) /\ u = ValueOf(s) /\ h = PowerOfTen[n] /\ last = b[n]
         /\ u < h
  <2>1. ValueOf(x) \in Nat /\ ValueOf(y) \in Nat
    BY ValueFits
  <2>2. PowerOfTen[n] \in Nat /\ b[n] \in 0..1
    BY PowerOfTenIs
  <2>3. ValueOf(s) \in 0..(PowerOfTen[n] - 1)
    BY <1>4, ValueFits
  <2>. QED BY <2>1, <2>2, <2>3
<1>9. v - w = u - h * last
  <2>1. (v + (-1) * w) + 0 = h * (0 - last) + u
    BY <1>6, <1>7, <1>8, <1>12
  <2>2. h * (0 - last) = 0 - h * last
    OBVIOUS
  <2>. QED BY <2>1, <2>2
<1>10. w <= v => u = v - w
  <2>1. CASE last = 0
    BY <1>9, <2>1
  <2>2. CASE last = 1
    BY <1>8, <1>9, <2>2
  <2>. QED BY <2>1, <2>2
<1>. QED BY <1>4, <1>5, <1>8, <1>10

-----------------------------------------------------------------------------
(* Sums and differences of numbers. *)

LEMMA AlignedIs ==
    ASSUME NEW a, Shaped(a), NEW places \in Nat, Len(a.frac) <= places, NEW n \in Nat
    PROVE  /\ Aligned(a, places, n) \in Seq(0..9)
           /\ ValueOf(Aligned(a, places, n)) = Magnitude(a, places)
           /\ Len(Aligned(a, places, n)) = IF Len(a.int) + places > n THEN Len(a.int) + places ELSE n
<1>1. a.int \in Seq(0..9) /\ a.frac \in Seq(0..9)
  BY ShapedIsCanonical
<1>2. PICK s \in Seq(0..9) : s = a.int \o PadRight(a.frac, places) /\ Len(s) = Len(a.int) + places
  BY <1>1, PlacedIs
<1>3. /\ PadLeft(s, n) \in Seq(0..9)
      /\ Len(PadLeft(s, n)) = (IF Len(s) > n THEN Len(s) ELSE n)
      /\ ValueOf(PadLeft(s, n)) = ValueOf(s)
  BY PadLeftIs
<1>4. Aligned(a, places, n) = PadLeft(s, n) /\ Magnitude(a, places) = ValueOf(s)
  BY <1>2 DEF Aligned, Magnitude
<1>. QED BY <1>2, <1>3, <1>4

\* The digits of two numbers, in columns.
LEMMA ColumnsAre ==
    ASSUME NEW a, NEW b, Shaped(a), Shaped(b)
    PROVE  \E x \in Seq(0..9), y \in Seq(0..9) :
              /\ x = Aligned(a, Places(a, b), Width(a, b)) /\ y = Aligned(b, Places(a, b), Width(a, b))
              /\ Len(x) = Len(y)
              /\ ValueOf(x) = Magnitude(a, Places(a, b)) /\ ValueOf(y) = Magnitude(b, Places(a, b))
<1>1. PICK p \in Nat : p = Places(a, b) /\ Len(a.frac) <= p /\ Len(b.frac) <= p
  BY PlacesAre
<1>2. PICK m \in Nat, n \in Nat : m = Len(a.int) /\ n = Len(b.int)
  BY ShapedIsCanonical
<1>3. PICK w \in Nat : w = Width(a, b) /\ w = IF m > n THEN m + p ELSE n + p
  BY <1>1, <1>2 DEF Width
<1>4. /\ Aligned(a, p, w) \in Seq(0..9)
      /\ ValueOf(Aligned(a, p, w)) = Magnitude(a, p)
      /\ Len(Aligned(a, p, w)) = IF m + p > w THEN m + p ELSE w
  BY <1>1, <1>2, AlignedIs
<1>5. /\ Aligned(b, p, w) \in Seq(0..9)
      /\ ValueOf(Aligned(b, p, w)) = Magnitude(b, p)
      /\ Len(Aligned(b, p, w)) = IF n + p > w THEN n + p ELSE w
  BY <1>1, <1>2, AlignedIs
<1>6. (IF m + p > w THEN m + p ELSE w) = w /\ (IF n + p > w THEN n + p ELSE w) = w
  BY <1>3
<1>. QED BY <1>1, <1>3, <1>4, <1>5, <1>6

LEMMA AddPositiveIs ==
    ASSUME NEW a, NEW b, Shaped(a), Shaped(b)
    PROVE  /\ Shaped(AddPositive(a, b)) /\ Len(AddPositive(a, b).frac) <= Places(a, b)
           /\ Magnitude(AddPositive(a, b), Places(a, b))
                = Magnitude(a, Places(a, b)) + Magnitude(b, Places(a, b))
<1>1. PICK p \in Nat : p = Places(a, b)
  BY PlacesAre
<1>2. PICK x \in Seq(0..9), y \in Seq(0..9) :
         /\ x = Aligned(a, p, Width(a, b)) /\ y = Aligned(b, p, Width(a, b)) /\ Len(x) = Len(y)
         /\ ValueOf(x) = Magnitude(a, p) /\ ValueOf(y) = Magnitude(b, p)
  BY <1>1, ColumnsAre
<1>3. PICK s \in Seq(0..9) : s = AddDigits(x, y) /\ ValueOf(s) = ValueOf(x) + ValueOf(y)
  BY <1>2, AddDigitsIs
<1>4. AddPositive(a, b) = Pointed(FALSE, s, p)
  BY <1>1, <1>2, <1>3 DEF AddPositive
<1>5. /\ Shaped(Pointed(FALSE, s, p)) /\ Len(Pointed(FALSE, s, p).frac) <= p
      /\ p <= p => Magnitude(Pointed(FALSE, s, p), p) = ValueOf(s) * PowerOfTen[p - p]
  BY PointedIs
<1>6. p <= p /\ p - p = 0 /\ PowerOfTen[0] = 1
  BY PowerOfTenIs
<1>7. PICK v \in Nat : v = ValueOf(s) /\ v * 1 = v
  BY ValueFits
<1>8. Magnitude(Pointed(FALSE, s, p), p) = ValueOf(s)
  BY <1>5, <1>6, <1>7
<1>. QED BY <1>1, <1>2, <1>3, <1>4, <1>5, <1>8

LEMMA SubtractPositiveIs ==
    ASSUME NEW a, NEW b, Shaped(a), Shaped(b),
           Magnitude(b, Places(a, b)) <= Magnitude(a, Places(a, b))
    PROVE  /\ Shaped(SubtractPositive(a, b)) /\ Len(SubtractPositive(a, b).frac) <= Places(a, b)
           /\ Magnitude(SubtractPositive(a, b), Places(a, b))
                = Magnitude(a, Places(a, b)) - Magnitude(b, Places(a, b))
<1>1. PICK p \in Nat : p = Places(a, b)
  BY PlacesAre
<1>2. PICK x \in Seq(0..9), y \in Seq(0..9) :
         /\ x = Aligned(a, p, Width(a, b)) /\ y = Aligned(b, p, Width(a, b)) /\ Len(x) = Len(y)
         /\ ValueOf(x) = Magnitude(a, p) /\ ValueOf(y) = Magnitude(b, p)
  BY <1>1, ColumnsAre
<1>9. ValueOf(y) <= ValueOf(x)
  BY <1>1, <1>2
<1>3. PICK s \in Seq(0..9) : s = SubtractDigits(x, y) /\ ValueOf(s) = ValueOf(x) - ValueOf(y)
  BY <1>2, <1>9, SubtractDigitsIs
<1>4. SubtractPositive(a, b) = Pointed(FALSE, s, p)
  BY <1>1, <1>2, <1>3 DEF SubtractPositive
<1>5. /\ Shaped(Pointed(FALSE, s, p)) /\ Len(Pointed(FALSE, s, p).frac) <= p
      /\ p <= p => Magnitude(Pointed(FALSE, s, p), p) = ValueOf(s) * PowerOfTen[p - p]
  BY PointedIs
<1>6. p <= p /\ p - p = 0 /\ PowerOfTen[0] = 1
  BY PowerOfTenIs
<1>7. PICK v \in Nat : v = ValueOf(s) /\ v * 1 = v
  BY ValueFits
<1>8. Magnitude(Pointed(FALSE, s, p), p) = ValueOf(s)
  BY <1>5, <1>6, <1>7
<1>. QED BY <1>1, <1>2, <1>3, <1>4, <1>5, <1>8

\* The sign a result is given, unless it is zero.
LEMMA SignedIs ==
    ASSUME NEW n, Shaped(n), NEW neg \in BOOLEAN, NEW p \in Nat, Len(n.frac) <= p
    PROVE  /\ Shaped(Signed(neg, n)) /\ Len(Signed(neg, n).frac) <= p
           /\ Len(Signed(neg, n).frac) <= Len(n.frac)
           /\ Magnitude(Signed(neg, n), p) = Magnitude(n, p)
           /\ Scaled(Signed(neg, n), p) = Negated(neg, Magnitude(n, p))
           /\ Signed(neg, n) # Zero => Signed(neg, n).neg = neg
<1>1. n.int \in Seq(0..9) /\ n.frac \in Seq(0..9) /\ n.neg \in BOOLEAN
      /\ n = Canonical(n.neg, n.int, n.frac)
  BY ShapedIsCanonical
<1>2. PICK r : r = Canonical(neg, n.int, n.frac)
  OBVIOUS
<1>3. Signed(neg, n) = r
  BY <1>2 DEF Signed
<1>4. /\ Shaped(r)
      /\ r.neg => neg
      /\ neg => r.neg \/ (r.int = <<0>> /\ r.frac = <<>>)
      /\ Len(r.frac) <= Len(n.frac)
  BY <1>1, <1>2, CanonicalIs
<1>5. Len(r.frac) <= p
  <2>1. PICK i \in Nat, j \in Nat : i = Len(r.frac) /\ j = Len(n.frac)
    BY <1>1, <1>4, ShapedIsCanonical
  <2>. QED BY <1>4, <2>1
<1>6. Magnitude(r, p) = Magnitude(n, p)
  <2>1. Magnitude(Canonical(neg, n.int, n.frac), p)
          = ValueOf(n.int) * PowerOfTen[p] + ValueOf(n.frac) * PowerOfTen[p - Len(n.frac)]
    BY <1>1, MagnitudeOfCanonical
  <2>2. Magnitude(Canonical(n.neg, n.int, n.frac), p)
          = ValueOf(n.int) * PowerOfTen[p] + ValueOf(n.frac) * PowerOfTen[p - Len(n.frac)]
    BY <1>1, MagnitudeOfCanonical
  <2>. QED BY <1>1, <1>2, <2>1, <2>2
<1>7. r.neg \in BOOLEAN /\ r \in [neg : BOOLEAN, int : Seq(0..9), frac : Seq(0..9)]
  BY <1>4 DEF Shaped, Numbers, Digit
<1>8. CASE r.neg = neg
  <2>1. Scaled(r, p) = Negated(neg, Magnitude(r, p))
    BY <1>8 DEF Scaled, Magnitude
  <2>. QED BY <1>3, <1>4, <1>5, <1>6, <1>8, <2>1
<1>9. CASE r.neg # neg
  <2>1. neg = TRUE /\ r.neg = FALSE /\ r.int = <<0>> /\ r.frac = <<>>
    BY <1>4, <1>7, <1>9
  <2>2. r = Zero
    BY <1>7, <2>1, ZeroIs
  <2>3. Magnitude(r, p) = 0
    BY <2>2, MagnitudeOfZero
  <2>4. Scaled(r, p) = 0
    BY <2>1, <2>3 DEF Scaled, Magnitude, Negated
  <2>5. Negated(neg, Magnitude(n, p)) = 0
    BY <1>6, <2>3 DEF Negated
  <2>. QED BY <1>3, <1>4, <1>5, <1>6, <2>2, <2>4, <2>5
<1>. QED BY <1>8, <1>9

LEMMA ScaledIs ==
    ASSUME NEW n, NEW p PROVE Scaled(n, p) = Negated(n.neg, Magnitude(n, p))
BY DEF Scaled, Magnitude

LEMMA AddSignedIs ==
    ASSUME NEW a, NEW b, Shaped(a), Shaped(b), NEW bNeg \in BOOLEAN
    PROVE  /\ Shaped(AddSigned(a, b, bNeg))
           /\ Scaled(AddSigned(a, b, bNeg), Places(a, b))
                = Scaled(a, Places(a, b)) + Negated(bNeg, Magnitude(b, Places(a, b)))
<1>1. PICK p \in Nat : p = Places(a, b) /\ Len(a.frac) <= p /\ Len(b.frac) <= p
  BY PlacesAre
<1>2. PICK v \in Nat, w \in Nat : v = Magnitude(a, p) /\ w = Magnitude(b, p)
  BY <1>1, OrderOfMagnitudes
<1>3. a.neg \in BOOLEAN
  BY ShapedIsCanonical
<1>4. Scaled(a, p) = Negated(a.neg, v)
  BY <1>2, ScaledIs
<1>5. CASE a.neg = bNeg
  <2>1. PICK r : r = AddPositive(a, b) /\ Shaped(r) /\ Len(r.frac) <= p /\ Magnitude(r, p) = v + w
    BY <1>1, <1>2, AddPositiveIs
  <2>2. Shaped(Signed(a.neg, r)) /\ Scaled(Signed(a.neg, r), p) = Negated(a.neg, v + w)
    BY <1>3, <2>1, SignedIs
  <2>3. AddSigned(a, b, bNeg) = Signed(a.neg, r)
    BY <1>5, <2>1 DEF AddSigned
  <2>4. Negated(a.neg, v + w) = Negated(a.neg, v) + Negated(bNeg, w)
    BY <1>3, <1>5 DEF Negated
  <2>. QED BY <1>1, <1>2, <1>4, <2>2, <2>3, <2>4
<1>6. CASE a.neg # bNeg
  <2>1. CASE CompareMagnitudes(a, b) = 0 /\ a.int = b.int /\ a.frac = b.frac
    <3>1. AddSigned(a, b, bNeg) = Zero
      BY <1>6, <2>1 DEF AddSigned
    <3>2. Shaped(Zero) /\ Magnitude(Zero, p) = 0 /\ Zero.neg = FALSE
      BY ZeroIs, MagnitudeOfZero
    <3>3. Scaled(Zero, p) = 0
      BY <3>2, ScaledIs DEF Negated
    <3>4. v = w
      BY <1>2, <2>1 DEF Magnitude
    <3>5. Negated(a.neg, v) + Negated(bNeg, w) = 0
      BY <1>3, <1>6, <3>4 DEF Negated
    <3>. QED BY <1>1, <1>2, <1>4, <3>1, <3>2, <3>3, <3>5
  <2>2. CASE CompareMagnitudes(a, b) = 1 /\ w < v
    <3>1. PICK r : r = SubtractPositive(a, b) /\ Shaped(r) /\ Len(r.frac) <= p /\ Magnitude(r, p) = v - w
      <4>1. Magnitude(b, Places(a, b)) <= Magnitude(a, Places(a, b))
        BY <1>1, <1>2, <2>2
      <4>. QED BY <1>1, <1>2, <4>1, SubtractPositiveIs
    <3>2. Shaped(Signed(a.neg, r)) /\ Scaled(Signed(a.neg, r), p) = Negated(a.neg, v - w)
      BY <1>3, <3>1, SignedIs
    <3>3. AddSigned(a, b, bNeg) = Signed(a.neg, r)
      BY <1>6, <2>2, <3>1 DEF AddSigned
    <3>4. Negated(a.neg, v - w) = Negated(a.neg, v) + Negated(bNeg, w)
      BY <1>3, <1>6 DEF Negated
    <3>. QED BY <1>1, <1>2, <1>4, <3>2, <3>3, <3>4
  <2>3. CASE CompareMagnitudes(a, b) = -1 /\ v < w
    <3>1. PICK r : r = SubtractPositive(b, a) /\ Shaped(r) /\ Len(r.frac) <= p /\ Magnitude(r, p) = w - v
      <4>1. Places(b, a) = p
        <5>1. PICK i \in Nat, j \in Nat : i = Len(a.frac) /\ j = Len(b.frac)
          BY ShapedIsCanonical
        <5>. QED BY <1>1, <5>1 DEF Places
      <4>2. Magnitude(a, Places(b, a)) <= Magnitude(b, Places(b, a))
        BY <1>2, <2>3, <4>1
      <4>. QED BY <1>2, <4>1, <4>2, SubtractPositiveIs
    <3>2. Shaped(Signed(bNeg, r)) /\ Scaled(Signed(bNeg, r), p) = Negated(bNeg, w - v)
      BY <3>1, SignedIs
    <3>3. AddSigned(a, b, bNeg) = Signed(bNeg, r)
      BY <1>6, <2>3, <3>1 DEF AddSigned
    <3>4. Negated(bNeg, w - v) = Negated(a.neg, v) + Negated(bNeg, w)
      BY <1>3, <1>6 DEF Negated
    <3>. QED BY <1>1, <1>2, <1>4, <3>2, <3>3, <3>4
  <2>. QED BY <1>1, <1>2, <2>1, <2>2, <2>3, OrderOfMagnitudes
<1>. QED BY <1>5, <1>6

-----------------------------------------------------------------------------
(* Products. *)

\* A digit that changes.
LEMMA ValueOfChanged ==
    ASSUME NEW s \in Seq(Int), NEW t \in Seq(Int), Len(t) = Len(s), NEW h \in 1..Len(s),
           \A i \in 1..Len(s) : i # h => t[i] = s[i]
    PROVE  Len(s) - h \in Nat /\ ValueOf(t) = ValueOf(s) + (t[h] - s[h]) * PowerOfTen[Len(s) - h]
<1>1. PICK n \in Nat : n = Len(s) /\ n = Len(t) /\ h \in 1..n /\ n - h \in Nat
  OBVIOUS
<1>2. PICK p \in [0..Len(s) -> Int] :
         /\ p = PrefixValues(s) /\ p[0] = 0 /\ p[Len(s)] = ValueOf(s)
         /\ \A i \in 1..Len(s) : p[i] = 10 * p[i - 1] + s[i]
  BY PrefixesExist
<1>3. PICK q \in [0..Len(t) -> Int] :
         /\ q = PrefixValues(t) /\ q[0] = 0 /\ q[Len(t)] = ValueOf(t)
         /\ \A i \in 1..Len(t) : q[i] = 10 * q[i - 1] + t[i]
  BY PrefixesExist
<1>4. /\ p \in [0..n -> Int] /\ q \in [0..n -> Int]
      /\ \A i \in 1..n : p[i] = 10 * p[i - 1] + s[i]
      /\ \A i \in 1..n : q[i] = 10 * q[i - 1] + t[i]
      /\ \A i \in 1..n : s[i] \in Int /\ t[i] \in Int
  BY <1>1, <1>2, <1>3
<1>10. PICK old \in Int, new \in Int : old = s[h] /\ new = t[h]
  BY <1>1, <1>4
<1>5. PICK d \in Int : d = new - old /\ d = t[h] - s[h]
  BY <1>10
<1>. DEFINE Extra(i) == IF i < h THEN 0 ELSE d * PowerOfTen[i - h]
            Good == {i \in Nat : i <= n => q[i] = p[i] + Extra(i)}
<1>6. 0 \in Good
  <2>1. 0 < h
    BY <1>1
  <2>. QED BY <1>2, <1>3, <2>1
<1>7. ASSUME NEW i \in Nat, i \in Good PROVE i + 1 \in Good
  <2>. SUFFICES ASSUME i + 1 <= n PROVE q[i + 1] = p[i + 1] + Extra(i + 1)
    OBVIOUS
  <2>1. /\ i + 1 \in 1..n /\ (i + 1) - 1 = i /\ i \in 0..n
        /\ q[i] = p[i] + Extra(i)
    BY <1>7
  <2>2. PICK pi \in Int, qi \in Int, si \in Int, ti \in Int :
           pi = p[i] /\ qi = q[i] /\ si = s[i + 1] /\ ti = t[i + 1]
    BY <1>4, <2>1
  <2>3. p[i + 1] = 10 * pi + si /\ q[i + 1] = 10 * qi + ti
    BY <1>4, <2>1, <2>2
  <2>4. CASE i + 1 < h
    <3>1. i < h /\ i + 1 # h /\ ~(h <= i + 1)
      BY <2>4
    <3>2. ti = si
      BY <1>1, <2>1, <2>2, <3>1
    <3>3. Extra(i) = 0 /\ Extra(i + 1) = 0
      BY <2>4, <3>1
    <3>. HIDE DEF Extra
    <3>4. qi = pi
      BY <2>1, <2>2, <3>3
    <3>. QED BY <2>3, <3>2, <3>3, <3>4
  <2>5. CASE i + 1 = h
    <3>1. i < h /\ ~(i + 1 < h) /\ i + 1 - h = 0
      BY <2>5
    <3>2. ti = si + d /\ qi = pi
      <4>1. ti = new /\ si = old
        BY <1>10, <2>2, <2>5
      <4>2. Extra(i) = 0
        BY <3>1
      <4>. HIDE DEF Extra
      <4>3. qi = pi
        BY <2>1, <2>2, <4>2
      <4>4. new = old + d
        BY <1>5, <1>10
      <4>. QED BY <4>1, <4>3, <4>4
    <3>3. 10 * qi + ti = (10 * pi + si) + d
      BY <3>2
    <3>4. Extra(i + 1) = d
      <4>1. Extra(i + 1) = d * PowerOfTen[0]
        BY <3>1
      <4>2. d * 1 = d
        OBVIOUS
      <4>. QED BY <4>1, <4>2, PowerOfTenIs
    <3>. HIDE DEF Extra
    <3>. QED BY <2>3, <3>3, <3>4
  <2>6. CASE h < i + 1
    <3>1. ~(i + 1 < h) /\ h <= i /\ i - h \in Nat /\ (i - h) + 1 = i + 1 - h /\ i + 1 # h
      BY <2>6
    <3>2. PICK e \in Nat : e = PowerOfTen[i - h] /\ PowerOfTen[i + 1 - h] = 10 * e
      BY <3>1, PowerOfTenIs
    <3>3. ti = si
      BY <1>1, <2>1, <2>2, <3>1
    <3>4. Extra(i) = d * e /\ Extra(i + 1) = d * (10 * e)
      <4>1. ~(i < h)
        BY <3>1
      <4>2. Extra(i) = d * PowerOfTen[i - h]
        BY <4>1
      <4>3. Extra(i + 1) = d * PowerOfTen[i + 1 - h]
        BY <3>1
      <4>. HIDE DEF Extra
      <4>. QED BY <3>2, <4>2, <4>3
    <3>. HIDE DEF Extra
    <3>5. qi = pi + d * e
      BY <2>1, <2>2, <3>4
    <3>6. 10 * (pi + d * e) + si = (10 * pi + si) + d * (10 * e)
      OBVIOUS
    <3>. QED BY <2>3, <3>3, <3>4, <3>5, <3>6
  <2>. QED BY <2>4, <2>5, <2>6
<1>8. \A i \in Nat : i \in Good
  <2>. HIDE DEF Good
  <2>. QED BY <1>6, <1>7, Induction
<1>9. q[n] = p[n] + d * PowerOfTen[n - h]
  <2>1. n <= n /\ ~(n < h)
    BY <1>1
  <2>. QED BY <1>8, <2>1
<1>. QED BY <1>1, <1>2, <1>3, <1>5, <1>9

\* One product of two digits, added to the digits so far.
LEMMA AddProductIs ==
    ASSUME NEW x \in Seq(0..9), NEW y \in Seq(0..9), NEW s \in Seq(Int),
           NEW i \in 1..Len(x), NEW j \in 1..Len(y), i + j <= Len(s)
    PROVE  \E t \in Seq(Int), sum \in Int :
              /\ t = AddProduct(x, y, s, i, j) /\ Len(t) = Len(s)
              /\ sum = x[i] * y[j] + s[i + j]
              /\ t[i + j] = sum % 10 /\ t[i + j - 1] = s[i + j - 1] + sum \div 10
              /\ \A h \in 1..Len(s) : h # i + j /\ h # i + j - 1 => t[h] = s[h]
              /\ Len(s) - (i + j) \in Nat
              /\ ValueOf(t) = ValueOf(s) + (x[i] * y[j]) * PowerOfTen[Len(s) - (i + j)]
<1>1. PICK n \in Nat : n = Len(s)
  OBVIOUS
<1>2. x[i] \in 0..9 /\ y[j] \in 0..9
  BY ElementOfSeq
<1>18. \A h \in 1..n : s[h] \in Int
  BY <1>1
<1>3. PICK g \in Nat : g = i + j /\ g \in 1..n /\ g - 1 \in 1..n /\ n - g \in Nat /\ g - 1 # g
  <2>1. i \in Nat /\ i >= 1 /\ j \in Nat /\ j >= 1 /\ i + j <= n
    <3>1. PICK a \in Nat, b \in Nat : a = Len(x) /\ b = Len(y)
      OBVIOUS
    <3>2. i \in 1..a /\ j \in 1..b
      BY <3>1
    <3>. QED BY <1>1, <3>2
  <2>2. i + j \in Nat /\ i + j \in 1..n /\ (i + j) - 1 \in 1..n /\ n - (i + j) \in Nat /\ (i + j) - 1 # i + j
    BY <2>1
  <2>. QED BY <2>2
<1>4. PICK product \in Int : product = x[i] * y[j]
  <2>1. PICK a \in 0..9, b \in 0..9 : a = x[i] /\ b = y[j]
    BY <1>2
  <2>2. a * b \in Int
    OBVIOUS
  <2>. QED BY <2>1, <2>2
<1>5. PICK sum \in Int, sg \in Int, sb \in Int :
         sum = product + sg /\ sg = s[g] /\ sb = s[g - 1]
  <2>1. s[g] \in Int /\ s[g - 1] \in Int
    BY <1>3, <1>18
  <2>. QED BY <2>1
<1>6. PICK digit \in Int, rest \in Int : digit = sum % 10 /\ rest = sum \div 10 /\ sum = 10 * rest + digit
  OBVIOUS
<1>. DEFINE mid == [s EXCEPT ![g] = digit]
            t == [mid EXCEPT ![g - 1] = sb + rest]
<1>7. s \in [1..n -> Int]
  BY <1>1
<1>8. /\ mid \in [1..n -> Int] /\ mid[g] = digit /\ mid[g - 1] = sb
      /\ \A h \in 1..n : h # g => mid[h] = s[h]
  BY <1>3, <1>5, <1>7
<1>9. /\ t \in [1..n -> Int] /\ t[g] = digit /\ t[g - 1] = sb + rest
      /\ \A h \in 1..n : h # g - 1 => t[h] = mid[h]
  <2>. HIDE DEF mid
  <2>. QED BY <1>3, <1>8
<1>10. AddProduct(x, y, s, i, j) = t
  <2>1. sum = x[i] * y[j] + s[i + j]
    BY <1>3, <1>4, <1>5
  <2>2. AddProduct(x, y, s, i, j)
          = [s EXCEPT ![i + j] = sum % 10, ![i + j - 1] = s[i + j - 1] + sum \div 10]
    BY <2>1 DEF AddProduct
  <2>3. AddProduct(x, y, s, i, j) = [s EXCEPT ![g] = digit, ![g - 1] = sb + rest]
    <3>1. g = i + j /\ digit = sum % 10 /\ rest = sum \div 10 /\ sb = s[g - 1]
      BY <1>3, <1>5, <1>6, Zenon
    <3>2. PICK k : k = i + j - 1
      OBVIOUS
    <3>3. k = g - 1
      BY <3>1, <3>2
    <3>4. AddProduct(x, y, s, i, j) = [s EXCEPT ![g] = sum % 10, ![k] = s[k] + sum \div 10]
      BY <2>2, <3>1, <3>2
    <3>5. s[k] + sum \div 10 = sb + rest
      BY <3>1, <3>3
    <3>. QED BY <3>1, <3>3, <3>4, <3>5
  <2>4. [s EXCEPT ![g] = digit, ![g - 1] = sb + rest]
          = [h \in 1..n |-> IF h = g - 1 THEN sb + rest ELSE IF h = g THEN digit ELSE s[h]]
    BY <1>3, <1>7
  <2>5. t = [h \in 1..n |-> IF h = g - 1 THEN sb + rest ELSE IF h = g THEN digit ELSE s[h]]
    BY <1>3, <1>7
  <2>. QED BY <2>3, <2>4, <2>5
<1>. HIDE DEF mid, t
<1>11. mid \in Seq(Int) /\ Len(mid) = n /\ t \in Seq(Int) /\ Len(t) = n
  <2>1. ASSUME NEW u \in [1..n -> Int] PROVE u \in Seq(Int) /\ Len(u) = n
    BY SeqDef, LenProperties
  <2>. QED BY <1>8, <1>9, <2>1
<1>12. PICK e \in Nat : e = PowerOfTen[n - g]
  BY <1>3, PowerOfTenIs
<1>13. ValueOf(mid) = ValueOf(s) + (digit - sg) * e
  <2>1. Len(mid) = Len(s) /\ g \in 1..Len(s) /\ \A h \in 1..Len(s) : h # g => mid[h] = s[h]
    BY <1>1, <1>3, <1>8, <1>11
  <2>2. ValueOf(mid) = ValueOf(s) + (mid[g] - s[g]) * PowerOfTen[Len(s) - g]
    BY <1>11, <2>1, ValueOfChanged
  <2>. QED BY <1>1, <1>5, <1>8, <1>12, <2>2
<1>14. ValueOf(t) = ValueOf(mid) + ((sb + rest) - sb) * (10 * e)
  <2>1. Len(t) = Len(mid) /\ g - 1 \in 1..Len(mid) /\ \A h \in 1..Len(mid) : h # g - 1 => t[h] = mid[h]
    BY <1>3, <1>9, <1>11
  <2>2. ValueOf(t) = ValueOf(mid) + (t[g - 1] - mid[g - 1]) * PowerOfTen[Len(mid) - (g - 1)]
    BY <1>11, <2>1, ValueOfChanged
  <2>3. n - (g - 1) = (n - g) + 1
    BY <1>3
  <2>4. PowerOfTen[n - (g - 1)] = 10 * e
    BY <1>3, <1>12, <2>3, PowerOfTenIs
  <2>. QED BY <1>8, <1>9, <1>11, <2>2, <2>4
<1>15. ValueOf(s) \in Int
  <2>1. PICK p \in [0..Len(s) -> Int] : p[Len(s)] = ValueOf(s)
    BY PrefixesExist
  <2>2. Len(s) \in 0..Len(s)
    BY <1>1
  <2>. QED BY <2>1, <2>2
<1>16. ValueOf(t) = ValueOf(s) + product * e
  <2>1. PICK v \in Int : v = ValueOf(s)
    BY <1>15
  <2>2. product = 10 * rest + digit - sg
    <3>1. sum = product + sg
      BY <1>5
    <3>2. sum = 10 * rest + digit
      BY <1>6
    <3>. QED BY <3>1, <3>2
  <2>3. (v + (digit - sg) * e) + ((sb + rest) - sb) * (10 * e) = v + (10 * rest + digit - sg) * e
    OBVIOUS
  <2>. QED BY <1>13, <1>14, <2>1, <2>2, <2>3
<1>17. \A h \in 1..n : h # g /\ h # g - 1 => t[h] = s[h]
  BY <1>8, <1>9
<1>19. /\ t = AddProduct(x, y, s, i, j) /\ Len(t) = Len(s)
       /\ sum = x[i] * y[j] + s[i + j]
       /\ t[i + j] = sum % 10 /\ t[i + j - 1] = s[i + j - 1] + sum \div 10
       /\ Len(s) - (i + j) \in Nat
       /\ ValueOf(t) = ValueOf(s) + (x[i] * y[j]) * PowerOfTen[Len(s) - (i + j)]
  <2>1. /\ g = i + j /\ digit = sum % 10 /\ rest = sum \div 10 /\ sb = s[g - 1] /\ n = Len(s)
        /\ product = x[i] * y[j] /\ e = PowerOfTen[n - g] /\ n - g \in Nat
    BY <1>1, <1>3, <1>4, <1>5, <1>6, <1>12, Zenon
  <2>2. sum = x[i] * y[j] + s[i + j]
    BY <1>5, <2>1
  <2>3. t[i + j] = sum % 10 /\ t[i + j - 1] = s[i + j - 1] + sum \div 10
    <3>1. t[g] = sum % 10
      BY <1>9, <2>1
    <3>2. s[g - 1] + sum \div 10 = sb + rest
      BY <2>1
    <3>3. t[g - 1] = s[g - 1] + sum \div 10
      BY <1>9, <3>2
    <3>4. i + j = g /\ i + j - 1 = g - 1
      BY <2>1
    <3>. QED BY <3>1, <3>3, <3>4
  <2>4. ValueOf(t) = ValueOf(s) + (x[i] * y[j]) * PowerOfTen[Len(s) - (i + j)]
    BY <1>16, <2>1, Zenon
  <2>. QED BY <1>10, <1>11, <2>1, <2>2, <2>3, <2>4
<1>20. \A h \in 1..Len(s) : h # i + j /\ h # i + j - 1 => t[h] = s[h]
  BY <1>1, <1>3, <1>17
<1>. QED BY <1>11, <1>19, <1>20

\* The value of the last digits.
LastValue(s, r) == ValueOf(s) - PrefixValues(s)[Len(s) - r] * PowerOfTen[r]

LEMMA LastValueIs ==
    ASSUME NEW s \in Seq(0..9)
    PROVE  /\ LastValue(s, 0) = 0 /\ LastValue(s, Len(s)) = ValueOf(s)
           /\ \A r \in 0..Len(s) : LastValue(s, r) \in Int
           /\ \A r \in 0..(Len(s) - 1) :
                LastValue(s, r + 1) = LastValue(s, r) + s[Len(s) - r] * PowerOfTen[r]
<1>1. PICK n \in Nat : n = Len(s)
  OBVIOUS
<1>2. PICK p \in [0..Len(s) -> Int] :
         /\ p = PrefixValues(s) /\ p[0] = 0 /\ p[Len(s)] = ValueOf(s)
         /\ \A i \in 1..Len(s) : p[i] = 10 * p[i - 1] + s[i]
  BY DigitsAreInts, PrefixesExist
<1>3. /\ p \in [0..n -> Int] /\ p[n] = ValueOf(s)
      /\ \A i \in 1..n : p[i] = 10 * p[i - 1] + s[i]
  BY <1>1, <1>2
<1>4. PICK v \in Int : v = ValueOf(s)
  BY <1>3
<1>5. \A r \in 0..n : LastValue(s, r) = v - p[n - r] * PowerOfTen[r]
  BY <1>1, <1>2, <1>4 DEF LastValue
<1>6. LastValue(s, 0) = 0
  <2>1. 0 \in 0..n /\ n - 0 = n /\ v - v * 1 = 0
    OBVIOUS
  <2>. QED BY <1>3, <1>4, <1>5, <2>1, PowerOfTenIs
<1>7. LastValue(s, n) = v
  <2>1. PICK e \in Nat : e = PowerOfTen[n]
    BY PowerOfTenIs
  <2>2. n \in 0..n /\ n - n = 0 /\ v - 0 * e = v
    OBVIOUS
  <2>. QED BY <1>2, <1>5, <2>1, <2>2
<1>8. ASSUME NEW r \in 0..n PROVE LastValue(s, r) \in Int
  <2>1. n - r \in 0..n /\ r \in Nat
    OBVIOUS
  <2>2. PICK a \in Int, e \in Nat : a = p[n - r] /\ e = PowerOfTen[r]
    BY <1>3, <2>1, PowerOfTenIs
  <2>3. v - a * e \in Int
    OBVIOUS
  <2>. QED BY <1>5, <2>2, <2>3
<1>9. ASSUME NEW r \in 0..(n - 1)
      PROVE  LastValue(s, r + 1) = LastValue(s, r) + s[n - r] * PowerOfTen[r]
  <2>1. /\ r \in 0..n /\ r + 1 \in 0..n /\ n - r \in 1..n /\ n - (r + 1) = (n - r) - 1
        /\ r \in Nat /\ n - r \in 0..n /\ (n - r) - 1 \in 0..n
    OBVIOUS
  <2>8. p[n - r] \in Int /\ p[(n - r) - 1] \in Int
    BY <1>3, <2>1
  <2>9. s[n - r] \in 0..9
    BY <1>1, <2>1
  <2>10. PICK a \in Int : a = p[n - r]
    BY <2>8
  <2>11. PICK b \in Int : b = p[(n - r) - 1]
    BY <2>8
  <2>12. PICK d \in Int : d = s[n - r]
    BY <2>9
  <2>13. PICK e \in Nat : e = PowerOfTen[r]
    BY <2>1, PowerOfTenIs
  <2>2. a = p[n - r] /\ b = p[(n - r) - 1] /\ d = s[n - r] /\ e = PowerOfTen[r]
    BY <2>10, <2>11, <2>12, <2>13
  <2>3. a = 10 * b + d
    BY <1>3, <2>1, <2>2
  <2>4. PowerOfTen[r + 1] = 10 * e
    BY <2>1, <2>2, PowerOfTenIs
  <2>5. LastValue(s, r) = v - a * e
    BY <1>5, <2>1, <2>2
  <2>6. LastValue(s, r + 1) = v - b * (10 * e)
    BY <1>5, <2>1, <2>2, <2>4
  <2>7. v - b * (10 * e) = (v - (10 * b + d) * e) + d * e
    OBVIOUS
  <2>. QED BY <2>2, <2>3, <2>5, <2>6, <2>7
<1>. QED BY <1>1, <1>4, <1>6, <1>7, <1>8, <1>9

\* The digits after each product.
IsTable(f, x, y) ==
    /\ f \in [0..(Len(x) * Len(y)) -> {s \in Seq(Int) : Len(s) = Len(x) + Len(y)}]
    /\ f[0] = Zeros(Len(x) + Len(y))
    /\ \A k \in 1..(Len(x) * Len(y)) :
         f[k] = AddProduct(x, y, f[k - 1], Len(x) - ((k - 1) \div Len(y)), Len(y) - ((k - 1) % Len(y)))

\* Where a product is in the table.
LEMMA TurnsAre ==
    ASSUME NEW n \in Nat \ {0}, NEW m \in Nat \ {0}, NEW k \in 1..(n * m)
    PROVE  n - ((k - 1) \div m) \in 1..n /\ m - ((k - 1) % m) \in 1..m
<1>1. PICK q \in Int, r \in 0..(m - 1) : q = (k - 1) \div m /\ r = (k - 1) % m /\ k - 1 = q * m + r
  BY Quotient
<1>2. PICK nm \in Nat : nm = n * m
  OBVIOUS
<1>3. k - 1 < nm /\ 0 <= k - 1
  BY <1>2
<1>4. 0 * m <= k - 1 /\ k - 1 < n * m
  BY <1>2, <1>3
<1>5. /\ \A b \in Int : b * m <= k - 1 <=> b <= (k - 1) \div m
      /\ \A b \in Int : k - 1 < b * m <=> (k - 1) \div m < b
  BY DivFacts
<1>6. 0 <= q /\ q < n
  BY <1>1, <1>4, <1>5
<1>. QED BY <1>1, <1>6

LEMMA TableExists ==
    ASSUME NEW x \in Seq(0..9), NEW y \in Seq(0..9), Len(x) > 0, Len(y) > 0
    PROVE  \E f : IsTable(f, x, y) /\ MultiplyDigits(x, y) = f[Len(x) * Len(y)]
<1>1. PICK n \in Nat \ {0}, m \in Nat \ {0}, nm \in Nat : n = Len(x) /\ m = Len(y) /\ nm = n * m
  <2>1. PICK n \in Nat \ {0}, m \in Nat \ {0} : n = Len(x) /\ m = Len(y)
    OBVIOUS
  <2>2. n * m \in Nat
    OBVIOUS
  <2>. QED BY <2>1, <2>2
<1>. DEFINE S == {s \in Seq(Int) : Len(s) = n + m}
            Row(k) == n - ((k - 1) \div m)
            Column(k) == m - ((k - 1) % m)
            step == [k \in 1..nm |-> [s \in S |-> AddProduct(x, y, s, Row(k), Column(k))]]
<1>2. ASSUME NEW k \in 1..nm, NEW s \in S
      PROVE  AddProduct(x, y, s, Row(k), Column(k)) \in S
  <2>1. Row(k) \in 1..n /\ Column(k) \in 1..m
    <3>1. k \in 1..(n * m)
      BY <1>1
    <3>. QED BY <3>1, TurnsAre
  <2>. HIDE DEF Row, Column
  <2>2. Row(k) + Column(k) <= n + m
    BY <2>1
  <2>3. \E t \in Seq(Int) : t = AddProduct(x, y, s, Row(k), Column(k)) /\ Len(t) = Len(s)
    <3>1. Row(k) \in 1..Len(x) /\ Column(k) \in 1..Len(y) /\ Row(k) + Column(k) <= Len(s)
      BY <1>1, <2>1, <2>2
    <3>2. PICK i, j : i = Row(k) /\ j = Column(k)
      OBVIOUS
    <3>3. i \in 1..Len(x) /\ j \in 1..Len(y) /\ i + j <= Len(s)
      BY <3>1, <3>2
    <3>4. PICK t \in Seq(Int), sum \in Int : t = AddProduct(x, y, s, i, j) /\ Len(t) = Len(s)
      BY <3>3, AddProductIs
    <3>. QED BY <3>2, <3>4
  <2>. QED BY <2>3
<1>3. step \in [1..nm -> [S -> S]]
  <2>. HIDE DEF S, Row, Column
  <2>. QED BY <1>2
<1>4. Zeros(n + m) \in S
  <2>3. PICK w \in Int : w = n + m /\ w > 0
    OBVIOUS
  <2>4. Zeros(w) \in Seq(0..9) /\ Len(Zeros(w)) = (IF w > 0 THEN w ELSE 0)
    BY ZerosAre
  <2>1. Zeros(n + m) \in Seq(0..9) /\ Len(Zeros(n + m)) = n + m
    BY <2>3, <2>4
  <2>2. Zeros(n + m) \in Seq(Int)
    BY <2>1, DigitsAreInts
  <2>. QED BY <2>1, <2>2
<1>5. PICK f : IteratesTo(f, S, nm, Zeros(n + m), step)
  <2>. HIDE DEF step, S
  <2>. QED BY <1>3, <1>4, BoundedRecursionExists, Zenon
<1>. DEFINE Def(g) == [k \in 0..nm |-> IF k = 0 THEN Zeros(n + m)
                                       ELSE AddProduct(x, y, g[k - 1], Row(k), Column(k))]
<1>6. /\ f \in [0..nm -> S] /\ f[0] = Zeros(n + m)
      /\ \A k \in 1..nm : f[k] = AddProduct(x, y, f[k - 1], Row(k), Column(k))
  <2>. HIDE DEF S, Row, Column
  <2>1. f \in [0..nm -> S] /\ f[0] = Zeros(n + m) /\ \A k \in 1..nm : f[k] = step[k][f[k - 1]]
    <3>. HIDE DEF step
    <3>. QED BY <1>5 DEF IteratesTo
  <2>2. ASSUME NEW k \in 1..nm PROVE f[k] = AddProduct(x, y, f[k - 1], Row(k), Column(k))
    <3>1. f[k - 1] \in S
      BY <2>1
    <3>. QED BY <2>1, <3>1
  <2>. QED BY <2>1, <2>2
<1>7. f = Def(f)
  <2>. HIDE DEF S, Row, Column
  <2>1. \A k \in 0..nm : f[k] = IF k = 0 THEN Zeros(n + m)
                                ELSE AddProduct(x, y, f[k - 1], Row(k), Column(k))
    BY <1>6
  <2>. QED BY <1>6, <2>1
<1>8. PICK g : g = Def(g) /\ MultiplyDigits(x, y) = g[nm]
  <2>1. MultiplyDigits(x, y) = (CHOOSE g : g = Def(g))[nm]
    BY <1>1 DEF MultiplyDigits
  <2>. HIDE DEF Def
  <2>. QED BY <1>7, <2>1
<1>9. /\ g = [k \in 0..nm |-> g[k]] /\ g[0] = Zeros(n + m)
      /\ \A k \in 1..nm : g[k] = AddProduct(x, y, g[k - 1], Row(k), Column(k))
  <2>. HIDE DEF Row, Column
  <2>. QED BY <1>8
<1>. DEFINE Good == {k \in Nat : k <= nm => g[k] \in S}
<1>. HIDE DEF S, Row, Column, Def
<1>10. 0 \in Good
  BY <1>4, <1>9
<1>11. ASSUME NEW k \in Nat, k \in Good PROVE k + 1 \in Good
  <2>. SUFFICES ASSUME k + 1 <= nm PROVE g[k + 1] \in S
    OBVIOUS
  <2>1. k + 1 \in 1..nm /\ (k + 1) - 1 = k /\ g[k] \in S
    BY <1>11
  <2>2. g[k + 1] = AddProduct(x, y, g[k], Row(k + 1), Column(k + 1))
    BY <1>9, <2>1
  <2>. QED BY <1>2, <2>1, <2>2
<1>12. \A k \in Nat : k \in Good
  <2>. HIDE DEF Good
  <2>. QED BY <1>10, <1>11, Induction
<1>13. g \in [0..nm -> S]
  <2>1. \A k \in 0..nm : g[k] \in S
    BY <1>12
  <2>. QED BY <1>9, <2>1
<1>14. IsTable(g, x, y)
  BY <1>1, <1>9, <1>13 DEF IsTable, S, Row, Column
<1>. QED BY <1>1, <1>8, <1>14

\* The digits after t products of the row r, and what is still more than a digit.
TableAt(x, y, s, r, t) ==
    /\ s \in Seq(Int) /\ Len(s) = Len(x) + Len(y)
    /\ \A h \in 1..(Len(x) + Len(y)) : h # Len(x) + Len(y) - r - t => s[h] \in 0..9
    /\ s[Len(x) + Len(y) - r - t] \in 0..18
    /\ \A h \in 1..(Len(x) - r) : h < Len(x) - r \/ t < Len(y) => s[h] = 0
    /\ t = Len(y) => s[Len(x) - r] \in 0..9
    /\ ValueOf(s) = LastValue(x, r) * ValueOf(y) + x[Len(x) - r] * PowerOfTen[r] * LastValue(y, t)

LEMMA ColumnProduct ==
    ASSUME NEW a \in 0..9, NEW b \in 0..9, NEW c \in 0..18, NEW sum, sum = a * b + c
    PROVE  sum \in Int /\ sum % 10 \in 0..9 /\ sum \div 10 \in 0..9
<1>1. a * b \in 0..81
  <2>1. a * b <= 81 /\ 0 <= a * b
    <3>1. CASE a = 0  BY <3>1
    <3>2. CASE a = 1  BY <3>2
    <3>3. CASE a = 2  BY <3>3
    <3>4. CASE a = 3  BY <3>4
    <3>5. CASE a = 4  BY <3>5
    <3>6. CASE a = 5  BY <3>6
    <3>7. CASE a = 6  BY <3>7
    <3>8. CASE a = 7  BY <3>8
    <3>9. CASE a = 8  BY <3>9
    <3>10. CASE a = 9  BY <3>10
    <3>. QED BY <3>1, <3>2, <3>3, <3>4, <3>5, <3>6, <3>7, <3>8, <3>9, <3>10
  <2>2. a * b \in Int
    OBVIOUS
  <2>. QED BY <2>1, <2>2
<1>2. PICK product \in 0..81 : product = a * b
  BY <1>1
<1>. QED BY <1>2

\* A row goes on: the next place takes at most 9 more, and was a digit.
LEMMA TableGoesOn ==
    ASSUME NEW x \in Seq(0..9), NEW y \in Seq(0..9), NEW s, NEW next,
           NEW r \in 0..(Len(x) - 1), NEW t \in 0..(Len(y) - 1), TableAt(x, y, s, r, t),
           next = AddProduct(x, y, s, Len(x) - r, Len(y) - t)
    PROVE  TableAt(x, y, next, r, t + 1)
<1>1. PICK n \in Nat, m \in Nat : n = Len(x) /\ m = Len(y) /\ r \in 0..(n - 1) /\ t \in 0..(m - 1)
  OBVIOUS
<1>2. /\ s \in Seq(Int) /\ Len(s) = n + m
      /\ \A h \in 1..(n + m) : h # n + m - r - t => s[h] \in 0..9
      /\ s[n + m - r - t] \in 0..18
      /\ \A h \in 1..(n - r) : s[h] = 0
      /\ ValueOf(s) = LastValue(x, r) * ValueOf(y) + x[n - r] * PowerOfTen[r] * LastValue(y, t)
  <2>1. t < m
    BY <1>1
  <2>. QED BY <1>1, <2>1 DEF TableAt
<1>3. PICK i \in Int, j \in Int, g \in Int :
         /\ i = n - r /\ j = m - t /\ g = n + m - r - t /\ g = i + j /\ i \in 1..n /\ j \in 1..m
         /\ g \in 1..(n + m) /\ g - 1 \in 1..(n + m) /\ i <= g - 1 /\ g <= n + m
         /\ n + m - r - (t + 1) = g - 1 /\ (n + m) - g = r + t
         /\ (t + 1 = m => g - 1 = i) /\ (t + 1 < m => i < g - 1)
  <2>1. r \in Nat /\ t \in Nat /\ r + 1 <= n /\ t + 1 <= m
    BY <1>1
  <2>2. PICK i \in Nat, j \in Nat : i = n - r /\ j = m - t /\ n = i + r /\ m = j + t /\ 1 <= i /\ 1 <= j
    <3>1. n - r \in Nat /\ m - t \in Nat /\ n = (n - r) + r /\ m = (m - t) + t /\ 1 <= n - r /\ 1 <= m - t
      BY <2>1
    <3>. QED BY <3>1
  <2>3. PICK g \in Nat : g = i + j
    OBVIOUS
  <2>4. /\ g = n + m - r - t /\ i \in 1..n /\ j \in 1..m
        /\ g \in 1..(n + m) /\ g - 1 \in 1..(n + m) /\ i <= g - 1 /\ g <= n + m
        /\ n + m - r - (t + 1) = g - 1 /\ (n + m) - g = r + t
        /\ (t + 1 = m => g - 1 = i) /\ (t + 1 < m => i < g - 1)
    BY <2>1, <2>2, <2>3
  <2>. QED BY <2>2, <2>3, <2>4
<1>4. PICK a \in 0..9, b \in 0..9, c \in 0..18 : a = x[i] /\ b = y[j] /\ c = s[g]
  <2>1. i \in 1..Len(x) /\ j \in 1..Len(y)
    BY <1>1, <1>3
  <2>2. x[i] \in 0..9 /\ y[j] \in 0..9
    BY <2>1, ElementOfSeq
  <2>. QED BY <1>2, <1>3, <2>2
<1>5. PICK sum \in Int, digit \in 0..9, rest \in 0..9 :
         sum = a * b + c /\ digit = sum % 10 /\ rest = sum \div 10
  BY ColumnProduct
<1>6. /\ next \in Seq(Int) /\ Len(next) = n + m
      /\ next[g] = digit /\ next[g - 1] = s[g - 1] + rest
      /\ \A h \in 1..(n + m) : h # g /\ h # g - 1 => next[h] = s[h]
      /\ ValueOf(next) = ValueOf(s) + (a * b) * PowerOfTen[r + t]
  <2>1. i \in 1..Len(x) /\ j \in 1..Len(y) /\ i + j <= Len(s)
    BY <1>1, <1>2, <1>3
  <2>2. PICK u \in Seq(Int), v \in Int :
          /\ u = AddProduct(x, y, s, i, j) /\ Len(u) = Len(s)
          /\ v = x[i] * y[j] + s[i + j]
          /\ u[i + j] = v % 10 /\ u[i + j - 1] = s[i + j - 1] + v \div 10
          /\ \A h \in 1..Len(s) : h # i + j /\ h # i + j - 1 => u[h] = s[h]
          /\ Len(s) - (i + j) \in Nat
          /\ ValueOf(u) = ValueOf(s) + (x[i] * y[j]) * PowerOfTen[Len(s) - (i + j)]
    BY <1>2, <2>1, AddProductIs
  <2>3. next = u
    BY <1>1, <1>3, <2>2
  <2>4. v = sum
    BY <1>3, <1>4, <1>5, <2>2
  <2>5. i + j = g /\ i + j - 1 = g - 1 /\ Len(s) - (i + j) = r + t
    BY <1>2, <1>3
  <2>6. next[g] = digit /\ next[g - 1] = s[g - 1] + rest
    BY <1>5, <2>2, <2>3, <2>4, <2>5
  <2>7. \A h \in 1..(n + m) : h # g /\ h # g - 1 => next[h] = s[h]
    BY <1>2, <2>2, <2>3, <2>5
  <2>8. ValueOf(next) = ValueOf(s) + (a * b) * PowerOfTen[r + t]
    BY <1>4, <2>2, <2>3, <2>5
  <2>. QED BY <1>2, <2>2, <2>3, <2>6, <2>7, <2>8
<1>7. s[g - 1] \in 0..9 /\ (t + 1 = m => s[g - 1] = 0)
  <2>1. g - 1 # n + m - r - t
    BY <1>3
  <2>2. t + 1 = m => g - 1 \in 1..(n - r)
    BY <1>3
  <2>. QED BY <1>2, <1>3, <2>1, <2>2
<1>8. PICK d \in 0..9 : d = s[g - 1] /\ next[g - 1] = d + rest
  BY <1>6, <1>7
<1>9. next[g - 1] \in 0..18 /\ (t + 1 = m => next[g - 1] \in 0..9)
  <2>1. d + rest \in 0..18 /\ (d = 0 => d + rest \in 0..9)
    OBVIOUS
  <2>2. t + 1 = m => d = 0
    BY <1>7, <1>8
  <2>. QED BY <1>8, <2>1, <2>2
<1>10. ASSUME NEW h \in 1..(n + m), h # g - 1 PROVE next[h] \in 0..9
  <2>1. CASE h = g
    BY <1>6, <2>1
  <2>2. CASE h # g
    BY <1>2, <1>3, <1>6, <1>10, <2>2
  <2>. QED BY <2>1, <2>2
<1>11. ASSUME NEW h \in 1..(n - r), h < n - r \/ t + 1 < m PROVE next[h] = 0
  <2>1. h \in 1..(n + m) /\ h # g /\ h # g - 1
    BY <1>3, <1>11
  <2>. QED BY <1>2, <1>6, <2>1
<1>12. ValueOf(next) = LastValue(x, r) * ValueOf(y) + x[n - r] * PowerOfTen[r] * LastValue(y, t + 1)
  <2>1. r \in Nat /\ t \in Nat /\ r \in 0..Len(x) /\ t \in 0..Len(y) /\ t \in 0..(Len(y) - 1)
    BY <1>1
  <2>2. PICK e \in Nat, f \in Nat : e = PowerOfTen[r] /\ f = PowerOfTen[t]
    BY <2>1, PowerOfTenIs
  <2>3. PowerOfTen[r + t] = e * f
    BY <2>1, <2>2, PowersOfTenAdd
  <2>4. PICK u \in Int, w \in Int, v \in Nat :
           u = LastValue(x, r) /\ w = LastValue(y, t) /\ v = ValueOf(y)
    <3>1. LastValue(x, r) \in Int /\ LastValue(y, t) \in Int
      BY <2>1, LastValueIs
    <3>. QED BY <3>1, ValueFits
  <2>5. LastValue(y, t + 1) = w + b * f
    <3>1. LastValue(y, t + 1) = LastValue(y, t) + y[Len(y) - t] * PowerOfTen[t]
      BY <2>1, LastValueIs
    <3>. QED BY <1>1, <1>3, <1>4, <2>2, <2>4, <3>1
  <2>6. ValueOf(s) = u * v + a * e * w
    BY <1>2, <1>3, <1>4, <2>2, <2>4
  <2>7. ValueOf(next) = (u * v + a * e * w) + (a * b) * (e * f)
    BY <1>6, <2>3, <2>6
  <2>8. (u * v + a * e * w) + (a * b) * (e * f) = u * v + a * e * (w + b * f)
    OBVIOUS
  <2>. QED BY <1>3, <1>4, <2>2, <2>4, <2>5, <2>7, <2>8
<1>. QED BY <1>1, <1>3, <1>6, <1>9, <1>10, <1>11, <1>12 DEF TableAt

\* A row begins: the digits before are those of the row that ended.
LEMMA TableTurns ==
    ASSUME NEW x \in Seq(0..9), NEW y \in Seq(0..9), NEW s,
           NEW r \in Nat, r + 1 < Len(x), Len(y) > 0, TableAt(x, y, s, r, Len(y))
    PROVE  TableAt(x, y, s, r + 1, 0)
<1>1. PICK n \in Nat, m \in Nat : n = Len(x) /\ m = Len(y)
  OBVIOUS
<1>0. r + 1 < n /\ 0 < m
  BY <1>1
<1>2. PICK i \in Nat : i = n - r /\ n + m - r - m = i /\ n - (r + 1) = i - 1 /\ i >= 2 /\ i <= n
                      /\ n + m - (r + 1) - 0 = i + m - 1 /\ i + m - 1 \in 1..(n + m)
  <2>1. n - r \in Nat /\ n + m - r - m = n - r /\ n - (r + 1) = (n - r) - 1 /\ n - r >= 2 /\ n - r <= n
        /\ n + m - (r + 1) - 0 = (n - r) + m - 1 /\ (n - r) + m - 1 \in 1..(n + m)
    BY <1>0
  <2>. QED BY <2>1
<1>3. /\ s \in Seq(Int) /\ Len(s) = n + m
      /\ \A h \in 1..(n + m) : h # i => s[h] \in 0..9
      /\ s[i] \in 0..9
      /\ \A h \in 1..i : h < i => s[h] = 0
      /\ ValueOf(s) = LastValue(x, r) * ValueOf(y) + x[i] * PowerOfTen[r] * LastValue(y, m)
  <2>1. ~(m < m)
    OBVIOUS
  <2>2. /\ s \in Seq(Int) /\ Len(s) = n + m
        /\ \A h \in 1..(n + m) : h # n + m - r - m => s[h] \in 0..9
        /\ \A h \in 1..(n - r) : h < n - r \/ m < m => s[h] = 0
        /\ s[n - r] \in 0..9
        /\ ValueOf(s) = LastValue(x, r) * ValueOf(y) + x[n - r] * PowerOfTen[r] * LastValue(y, m)
    BY <1>1 DEF TableAt
  <2>. QED BY <1>2, <2>1, <2>2
<1>4. \A h \in 1..(n + m) : s[h] \in 0..9
  BY <1>3
<1>5. s[i + m - 1] \in 0..18
  <2>1. s[i + m - 1] \in 0..9
    BY <1>2, <1>4
  <2>. QED BY <2>1
<1>6. \A h \in 1..(i - 1) : s[h] = 0
  <2>. SUFFICES ASSUME NEW h \in 1..(i - 1) PROVE s[h] = 0
    OBVIOUS
  <2>1. h \in 1..i /\ h < i
    BY <1>2
  <2>. QED BY <1>3, <2>1
<1>7. ValueOf(s) = LastValue(x, r + 1) * ValueOf(y) + x[i - 1] * PowerOfTen[r + 1] * LastValue(y, 0)
  <2>1. /\ LastValue(y, 0) = 0 /\ LastValue(y, m) = ValueOf(y)
    BY <1>1, LastValueIs
  <2>2. r \in 0..Len(x) /\ r \in 0..(Len(x) - 1)
    BY <1>0, <1>1
  <2>3. LastValue(x, r) \in Int /\ LastValue(x, r + 1) = LastValue(x, r) + x[Len(x) - r] * PowerOfTen[r]
    BY <2>2, LastValueIs
  <2>4. x[i] \in 0..9 /\ x[i - 1] \in 0..9
    <3>1. i \in 1..Len(x) /\ i - 1 \in 1..Len(x)
      BY <1>1, <1>2
    <3>. QED BY <3>1, ElementOfSeq
  <2>5. PICK a \in 0..9, b \in 0..9 : a = x[i] /\ b = x[i - 1]
    BY <2>4
  <2>6. PICK e \in Nat : e = PowerOfTen[r]
    BY PowerOfTenIs
  <2>7. PICK f \in Nat : f = PowerOfTen[r + 1]
    <3>1. r + 1 \in Nat
      OBVIOUS
    <3>. QED BY <3>1, PowerOfTenIs
  <2>8. PICK v \in Nat : v = ValueOf(y)
    BY ValueFits
  <2>9. PICK u \in Int : u = LastValue(x, r)
    BY <2>3
  <2>10. LastValue(x, r + 1) = u + a * e
    BY <1>1, <1>2, <2>3, <2>5, <2>6, <2>9
  <2>11. ValueOf(s) = u * v + a * e * v
    BY <1>3, <2>1, <2>5, <2>6, <2>8, <2>9
  <2>12. u * v + a * e * v = (u + a * e) * v + b * f * 0
    OBVIOUS
  <2>. QED BY <2>1, <2>5, <2>7, <2>8, <2>10, <2>11, <2>12
<1>. QED BY <1>0, <1>1, <1>2, <1>3, <1>4, <1>5, <1>6, <1>7 DEF TableAt

LEMMA RowsAre ==
    ASSUME NEW x \in Seq(0..9), NEW y \in Seq(0..9), Len(x) > 0, Len(y) > 0,
           NEW f, IsTable(f, x, y)
    PROVE  \A r \in Nat : r < Len(x) =>
              \A t \in Nat : t <= Len(y) => TableAt(x, y, f[r * Len(y) + t], r, t)
<1>1. PICK n \in Nat \ {0}, m \in Nat \ {0} : n = Len(x) /\ m = Len(y)
  OBVIOUS
<1>2. /\ f \in [0..(n * m) -> {s \in Seq(Int) : Len(s) = n + m}]
      /\ f[0] = Zeros(n + m)
      /\ \A k \in 1..(n * m) :
           f[k] = AddProduct(x, y, f[k - 1], n - ((k - 1) \div m), m - ((k - 1) % m))
  BY <1>1 DEF IsTable
<1>3. ASSUME NEW r \in Nat, r < n, TableAt(x, y, f[r * m], r, 0), NEW t \in Nat, t <= m
      PROVE  TableAt(x, y, f[r * m + t], r, t)
  <2>. DEFINE Good == {u \in Nat : u <= m => TableAt(x, y, f[r * m + u], r, u)}
  <2>1. 0 \in Good
    <3>1. r * m + 0 = r * m
      OBVIOUS
    <3>. QED BY <1>3, <3>1
  <2>2. ASSUME NEW u \in Nat, u \in Good PROVE u + 1 \in Good
    <3>. SUFFICES ASSUME u + 1 <= m PROVE TableAt(x, y, f[r * m + (u + 1)], r, u + 1)
      OBVIOUS
    <3>1. u \in 0..(m - 1) /\ r \in 0..(n - 1) /\ u <= m
      BY <1>3
    <3>2. r * m + u \in 0..(n * m - 1) /\ n * m \in Nat \ {0}
      BY <3>1, Nested
    <3>3. PICK k \in Nat, nm \in Nat : k = r * m + u /\ nm = n * m /\ k \in 0..(nm - 1)
      BY <3>2
    <3>4. k + 1 \in 1..nm /\ (k + 1) - 1 = k /\ r * m + (u + 1) = k + 1
      <4>1. PICK rm \in Int : rm = r * m
        OBVIOUS
      <4>2. k = rm + u /\ rm + (u + 1) = (rm + u) + 1
        BY <3>3, <4>1
      <4>. QED BY <3>3, <4>1, <4>2
    <3>5. k \div m = r /\ k % m = u
      <4>1. k = r * m + u /\ r \in Int /\ u \in 0..(m - 1)
        BY <3>1, <3>3
      <4>. QED BY <4>1, DivIs
    <3>6. f[k + 1] = AddProduct(x, y, f[k], n - r, m - u)
      BY <1>2, <3>3, <3>4, <3>5
    <3>7. TableAt(x, y, f[k], r, u)
      BY <2>2, <3>1, <3>3
    <3>8. r \in 0..(Len(x) - 1) /\ u \in 0..(Len(y) - 1) /\ f[k + 1] = AddProduct(x, y, f[k], Len(x) - r, Len(y) - u)
      BY <1>1, <3>1, <3>6
    <3>9. TableAt(x, y, f[k + 1], r, u + 1)
      BY <3>7, <3>8, TableGoesOn
    <3>. QED BY <3>4, <3>9
  <2>3. \A u \in Nat : u \in Good
    <3>. HIDE DEF Good
    <3>. QED BY <2>1, <2>2, Induction
  <2>. QED BY <1>3, <2>3
<1>. DEFINE Rows == {r \in Nat : r < n => TableAt(x, y, f[r * m], r, 0)}
<1>4. 0 \in Rows
  <2>1. PICK s : s = Zeros(n + m)
    OBVIOUS
  <2>2. PICK w \in Int : w = n + m /\ w > 0
    OBVIOUS
  <2>3. /\ Zeros(w) \in Seq(0..9) /\ Len(Zeros(w)) = (IF w > 0 THEN w ELSE 0)
        /\ \A i \in 1..Len(Zeros(w)) : Zeros(w)[i] = 0
    BY ZerosAre
  <2>4. s \in Seq(0..9) /\ Len(s) = n + m /\ \A i \in 1..(n + m) : s[i] = 0
    BY <2>1, <2>2, <2>3
  <2>5. ValueOf(s) = 0
    <3>1. \A i \in 1..Len(s) : s[i] = 0
      BY <2>4
    <3>. QED BY <2>4, <3>1, ValueOfZeros
  <2>6. s \in Seq(Int)
    BY <2>4, DigitsAreInts
  <2>7. /\ n + m - 0 - 0 \in 1..(n + m) /\ n - 0 = n /\ ~(0 = m)
        /\ \A h \in 1..n : h \in 1..(n + m)
    OBVIOUS
  <2>8. ValueOf(s) = LastValue(x, 0) * ValueOf(y) + x[n - 0] * PowerOfTen[0] * LastValue(y, 0)
    <3>1. LastValue(x, 0) = 0 /\ LastValue(y, 0) = 0
      BY LastValueIs
    <3>2. PICK v \in Nat : v = ValueOf(y)
      BY ValueFits
    <3>3. x[n] \in 0..9
      <4>1. n \in 1..Len(x)
        BY <1>1
      <4>. QED BY <4>1, ElementOfSeq
    <3>4. PICK a \in Int : a = x[n - 0]
      BY <2>7, <3>3
    <3>5. 0 * v + a * 1 * 0 = 0
      OBVIOUS
    <3>. QED BY <2>5, <3>1, <3>2, <3>4, <3>5, PowerOfTenIs
  <2>9. TableAt(x, y, s, 0, 0)
    <3>1. \A h \in 1..(n + m) : s[h] \in 0..9 /\ s[h] \in 0..18
      BY <2>4
    <3>. QED BY <1>1, <2>4, <2>6, <2>7, <2>8, <3>1 DEF TableAt
  <2>10. 0 * m = 0
    OBVIOUS
  <2>. QED BY <1>2, <2>1, <2>9, <2>10
<1>5. ASSUME NEW r \in Nat, r \in Rows PROVE r + 1 \in Rows
  <2>. SUFFICES ASSUME r + 1 < n PROVE TableAt(x, y, f[(r + 1) * m], r + 1, 0)
    OBVIOUS
  <2>1. r < n /\ m <= m
    OBVIOUS
  <2>2. TableAt(x, y, f[r * m], r, 0)
    BY <1>5, <2>1
  <2>3. TableAt(x, y, f[r * m + m], r, m)
    <3>. HIDE DEF Rows
    <3>. QED BY <1>3, <2>1, <2>2
  <2>4. r * m + m = (r + 1) * m
    OBVIOUS
  <2>5. TableAt(x, y, f[(r + 1) * m], r, m)
    BY <2>3, <2>4
  <2>. QED BY <1>1, <2>5, TableTurns
<1>6. \A r \in Nat : r \in Rows
  <2>. HIDE DEF Rows
  <2>. QED BY <1>4, <1>5, Induction
<1>. QED BY <1>1, <1>3, <1>6

\* multiply_positive_numbers(): every place ends up a digit, and none is lost.
LEMMA MultiplyDigitsIs ==
    ASSUME NEW x \in Seq(0..9), NEW y \in Seq(0..9), Len(x) > 0, Len(y) > 0
    PROVE  /\ MultiplyDigits(x, y) \in Seq(0..9)
           /\ ValueOf(MultiplyDigits(x, y)) = ValueOf(x) * ValueOf(y)
<1>1. PICK n \in Nat \ {0}, m \in Nat \ {0} : n = Len(x) /\ m = Len(y)
  OBVIOUS
<1>2. PICK f : IsTable(f, x, y) /\ MultiplyDigits(x, y) = f[n * m]
  BY <1>1, TableExists
<1>3. PICK r \in Nat : r = n - 1 /\ r < n /\ n = r + 1
  <2>1. n - 1 \in Nat /\ n - 1 < n /\ n = (n - 1) + 1
    OBVIOUS
  <2>. QED BY <2>1
<1>4. PICK s : s = f[n * m]
  OBVIOUS
<1>5. TableAt(x, y, s, r, m)
  <2>1. TableAt(x, y, f[r * m + m], r, m)
    <3>1. m <= m
      OBVIOUS
    <3>. QED BY <1>1, <1>2, <1>3, <3>1, RowsAre
  <2>2. r * m + m = (r + 1) * m
    OBVIOUS
  <2>. QED BY <1>3, <1>4, <2>1, <2>2
<1>6. /\ s \in Seq(Int) /\ Len(s) = n + m
      /\ \A h \in 1..(n + m) : h # n + m - r - m => s[h] \in 0..9
      /\ s[n - r] \in 0..9
      /\ ValueOf(s) = LastValue(x, r) * ValueOf(y) + x[n - r] * PowerOfTen[r] * LastValue(y, m)
  BY <1>1, <1>5 DEF TableAt
<1>7. s \in Seq(0..9)
  <2>1. n + m - r - m = n - r
    BY <1>3
  <2>2. \A h \in 1..(n + m) : s[h] \in 0..9
    BY <1>6, <2>1
  <2>3. s \in [1..(n + m) -> 0..9] /\ n + m \in Nat
    BY <1>6, <2>2
  <2>. QED BY <2>3, SeqDef
<1>8. ValueOf(s) = ValueOf(x) * ValueOf(y)
  <2>1. LastValue(y, m) = ValueOf(y) /\ LastValue(x, n) = ValueOf(x)
    BY <1>1, LastValueIs
  <2>2. r \in 0..Len(x) /\ r \in 0..(Len(x) - 1)
    BY <1>1, <1>3
  <2>3. LastValue(x, r) \in Int /\ LastValue(x, r + 1) = LastValue(x, r) + x[Len(x) - r] * PowerOfTen[r]
    BY <2>2, LastValueIs
  <2>4. x[n - r] \in 0..9
    <3>1. n - r \in 1..Len(x)
      BY <1>1, <1>3
    <3>. QED BY <3>1, ElementOfSeq
  <2>5. PICK a \in Int : a = x[n - r]
    BY <2>4
  <2>6. PICK e \in Nat : e = PowerOfTen[r]
    BY PowerOfTenIs
  <2>7. PICK v \in Nat, w \in Nat : v = ValueOf(y) /\ w = ValueOf(x)
    BY ValueFits
  <2>8. PICK u \in Int : u = LastValue(x, r)
    BY <2>3
  <2>9. w = u + a * e
    BY <1>1, <1>3, <2>1, <2>3, <2>5, <2>6, <2>7, <2>8
  <2>10. ValueOf(s) = u * v + a * e * v
    BY <1>6, <2>1, <2>5, <2>6, <2>7, <2>8
  <2>11. u * v + a * e * v = (u + a * e) * v
    OBVIOUS
  <2>. QED BY <2>7, <2>9, <2>10, <2>11
<1>. QED BY <1>2, <1>4, <1>7, <1>8

\* The digits of a number, and their value.
LEMMA DigitsOfNumber ==
    ASSUME NEW a, Shaped(a)
    PROVE  /\ a.int \o a.frac \in Seq(0..9) /\ Len(a.int \o a.frac) > 0
           /\ Len(a.int \o a.frac) = Len(a.int) + Len(a.frac)
           /\ Len(a.frac) \in Nat
           /\ ValueOf(a.int \o a.frac) = Magnitude(a, Len(a.frac))
<1>1. PICK i \in Seq(0..9), f \in Seq(0..9) : i = a.int /\ f = a.frac
  BY ShapedIsCanonical
<1>2. Len(i) > 0
  BY <1>1 DEF Shaped
<1>3. PICK m \in Nat, n \in Nat : m = Len(i) /\ n = Len(f) /\ m > 0
  BY <1>2
<1>4. i \o f \in Seq(0..9) /\ Len(i \o f) = Len(i) + Len(f)
  BY ConcatProperties, Zenon
<1>5. PadRight(f, n) = f
  <2>1. ~(Len(f) > n)
    BY <1>3
  <2>2. /\ PadRight(f, n) \in Seq(0..9)
        /\ Len(PadRight(f, n)) = (IF Len(f) > n THEN Len(f) ELSE n)
        /\ \A k \in 1..Len(PadRight(f, n)) : PadRight(f, n)[k] = IF k <= Len(f) THEN f[k] ELSE 0
    BY PadRightIs
  <2>3. PICK g \in Seq(0..9) : g = PadRight(f, n) /\ Len(g) = n /\ \A k \in 1..n : g[k] = f[k]
    <3>1. Len(PadRight(f, n)) = n
      BY <2>1, <2>2
    <3>2. \A k \in 1..n : PadRight(f, n)[k] = f[k]
      BY <1>3, <2>2, <3>1
    <3>. QED BY <2>2, <3>1, <3>2
  <2>4. Len(g) = Len(f) /\ \A k \in 1..Len(g) : g[k] = f[k]
    BY <1>3, <2>3
  <2>. QED BY <2>3, <2>4, SeqEqual
<1>6. Magnitude(a, n) = ValueOf(i \o f)
  BY <1>1, <1>5 DEF Magnitude
<1>7. Len(i \o f) > 0
  BY <1>3, <1>4
<1>. QED BY <1>1, <1>3, <1>4, <1>6, <1>7

LEMMA MultiplyPositiveIs ==
    ASSUME NEW a, NEW b, Shaped(a), Shaped(b)
    PROVE  /\ Shaped(MultiplyPositive(a, b))
           /\ Len(a.frac) + Len(b.frac) \in Nat
           /\ Len(MultiplyPositive(a, b).frac) <= Len(a.frac) + Len(b.frac)
           /\ Magnitude(MultiplyPositive(a, b), Len(a.frac) + Len(b.frac))
                = Magnitude(a, Len(a.frac)) * Magnitude(b, Len(b.frac))
<1>1. PICK x \in Seq(0..9), m \in Nat :
         /\ x = a.int \o a.frac /\ Len(x) > 0 /\ m = Len(a.frac)
         /\ ValueOf(x) = Magnitude(a, m)
  BY DigitsOfNumber
<1>2. PICK y \in Seq(0..9), n \in Nat :
         /\ y = b.int \o b.frac /\ Len(y) > 0 /\ n = Len(b.frac)
         /\ ValueOf(y) = Magnitude(b, n)
  BY DigitsOfNumber
<1>3. PICK digits \in Seq(0..9) :
         digits = MultiplyDigits(x, y) /\ ValueOf(digits) = ValueOf(x) * ValueOf(y)
  BY <1>1, <1>2, MultiplyDigitsIs
<1>4. PICK p \in Nat : p = m + n /\ p <= p /\ p - p = 0
  OBVIOUS
<1>5. MultiplyPositive(a, b) = Pointed(FALSE, digits, p)
  BY <1>1, <1>2, <1>3, <1>4 DEF MultiplyPositive
<1>6. /\ Shaped(Pointed(FALSE, digits, p)) /\ Len(Pointed(FALSE, digits, p).frac) <= p
      /\ Magnitude(Pointed(FALSE, digits, p), p) = ValueOf(digits) * PowerOfTen[p - p]
  <2>1. FALSE \in BOOLEAN
    OBVIOUS
  <2>2. /\ Shaped(Pointed(FALSE, digits, p)) /\ Len(Pointed(FALSE, digits, p).frac) <= p
        /\ p <= p
             => Magnitude(Pointed(FALSE, digits, p), p) = ValueOf(digits) * PowerOfTen[p - p]
    BY <2>1, PointedIs
  <2>. QED BY <1>4, <2>2
<1>7. PICK v \in Nat : v = ValueOf(digits) /\ v * 1 = v
  BY ValueFits
<1>8. Magnitude(Pointed(FALSE, digits, p), p) = ValueOf(digits)
  BY <1>4, <1>6, <1>7, PowerOfTenIs
<1>. QED BY <1>1, <1>2, <1>3, <1>4, <1>5, <1>6, <1>8

-----------------------------------------------------------------------------
(* The long division. *)

\* What is brought down goes into the divisor less than ten times.
LEMMA DivisorGoes ==
    ASSUME NEW n \in Nat \ {0}, NEW r \in 0..(n - 1), NEW d \in 0..9
    PROVE  /\ (10 * r + d) \div n \in 0..9 /\ (10 * r + d) % n \in 0..(n - 1)
           /\ 10 * r + d = ((10 * r + d) \div n) * n + ((10 * r + d) % n)
<1>1. PICK x \in Nat : x = 10 * r + d /\ x < 10 * n /\ 0 * n <= x
  <2>1. 10 * r + d \in Nat /\ 10 * r + d < 10 * n /\ 0 * n <= 10 * r + d
    OBVIOUS
  <2>. QED BY <2>1
<1>2. /\ x \div n \in Int /\ x % n \in 0..(n - 1)
      /\ x = (x \div n) * n + (x % n)
      /\ \A b \in Int : b * n <= x <=> b <= x \div n
      /\ \A b \in Int : x < b * n <=> x \div n < b
  <2>1. x \in Int
    OBVIOUS
  <2>. QED BY <2>1, DivFacts
<1>3. 0 <= x \div n /\ x \div n < 10
  BY <1>1, <1>2
<1>4. x \div n \in 0..9
  BY <1>2, <1>3
<1>. QED BY <1>1, <1>2, <1>4

LEMMA RemaindersAre ==
    ASSUME NEW dividend \in Seq(0..9), NEW divisor \in Nat \ {0}
    PROVE  /\ Remainders(dividend, divisor) \in [0..Len(dividend) -> 0..(divisor - 1)]
           /\ Remainders(dividend, divisor)[0] = 0
           /\ \A k \in 1..Len(dividend) :
                Remainders(dividend, divisor)[k]
                  = (10 * Remainders(dividend, divisor)[k - 1] + dividend[k]) % divisor
<1>1. PICK n \in Nat : n = Len(dividend)
  OBVIOUS
<1>2. \A k \in 1..n : dividend[k] \in 0..9
  BY <1>1, ElementOfSeq
<1>. DEFINE S == 0..(divisor - 1)
            step == [k \in 1..n |-> [r \in S |-> (10 * r + dividend[k]) % divisor]]
<1>3. ASSUME NEW k \in 1..n, NEW r \in S PROVE (10 * r + dividend[k]) % divisor \in S
  BY <1>2, DivisorGoes
<1>4. step \in [1..n -> [S -> S]]
  <2>. HIDE DEF S
  <2>. QED BY <1>3
<1>5. 0 \in S
  OBVIOUS
<1>6. PICK f : IteratesTo(f, S, n, 0, step)
  <2>. HIDE DEF step, S
  <2>. QED BY <1>4, <1>5, BoundedRecursionExists, Zenon
<1>. HIDE DEF S
<1>7. /\ f \in [0..n -> S] /\ f[0] = 0
      /\ \A k \in 1..n : f[k] = (10 * f[k - 1] + dividend[k]) % divisor
  <2>1. f \in [0..n -> S] /\ f[0] = 0 /\ \A k \in 1..n : f[k] = step[k][f[k - 1]]
    <3>. HIDE DEF step
    <3>. QED BY <1>6 DEF IteratesTo
  <2>2. ASSUME NEW k \in 1..n PROVE f[k] = (10 * f[k - 1] + dividend[k]) % divisor
    <3>1. f[k - 1] \in S
      BY <2>1
    <3>. QED BY <2>1, <3>1
  <2>. QED BY <2>1, <2>2
<1>. DEFINE Def(g) == [k \in 0..n |-> IF k = 0 THEN 0 ELSE (10 * g[k - 1] + dividend[k]) % divisor]
<1>8. f = Def(f)
  <2>1. \A k \in 0..n : f[k] = IF k = 0 THEN 0 ELSE (10 * f[k - 1] + dividend[k]) % divisor
    BY <1>7
  <2>. QED BY <1>7, <2>1
<1>9. Remainders(dividend, divisor) = CHOOSE g : g = Def(g)
  BY <1>1 DEF Remainders
<1>10. PICK g : g = Remainders(dividend, divisor) /\ g = Def(g)
  <2>. HIDE DEF Def
  <2>. QED BY <1>8, <1>9
<1>11. /\ g = [k \in 0..n |-> g[k]] /\ g[0] = 0
       /\ \A k \in 1..n : g[k] = (10 * g[k - 1] + dividend[k]) % divisor
  BY <1>10
<1>. HIDE DEF Def
<1>. DEFINE Good == {k \in Nat : k <= n => g[k] \in S}
<1>12. 0 \in Good
  BY <1>5, <1>11
<1>13. ASSUME NEW k \in Nat, k \in Good PROVE k + 1 \in Good
  <2>. SUFFICES ASSUME k + 1 <= n PROVE g[k + 1] \in S
    OBVIOUS
  <2>1. k + 1 \in 1..n /\ (k + 1) - 1 = k /\ g[k] \in S
    BY <1>13
  <2>. QED BY <1>3, <1>11, <2>1
<1>14. \A k \in Nat : k \in Good
  <2>. HIDE DEF Good
  <2>. QED BY <1>12, <1>13, Induction
<1>15. g \in [0..n -> S]
  <2>1. \A k \in 0..n : g[k] \in S
    BY <1>14
  <2>. QED BY <1>11, <2>1
<1>. QED BY <1>1, <1>10, <1>11, <1>15 DEF S

\* The digits of the quotient, and what is left.
LEMMA CountsAre ==
    ASSUME NEW dividend \in Seq(0..9), NEW divisor \in Nat \ {0}
    PROVE  /\ Counts(dividend, divisor) \in Seq(0..9)
           /\ Len(Counts(dividend, divisor)) = Len(dividend)
           /\ Remainders(dividend, divisor)[Len(dividend)] \in 0..(divisor - 1)
           /\ ValueOf(dividend) = ValueOf(Counts(dividend, divisor)) * divisor
                                    + Remainders(dividend, divisor)[Len(dividend)]
<1>1. PICK n \in Nat : n = Len(dividend)
  OBVIOUS
<1>2. \A k \in 1..n : dividend[k] \in 0..9
  BY <1>1, ElementOfSeq
<1>3. PICK r \in [0..n -> 0..(divisor - 1)] :
         /\ r = Remainders(dividend, divisor) /\ r[0] = 0
         /\ \A k \in 1..n : r[k] = (10 * r[k - 1] + dividend[k]) % divisor
  <2>1. /\ Remainders(dividend, divisor) \in [0..Len(dividend) -> 0..(divisor - 1)]
        /\ Remainders(dividend, divisor)[0] = 0
        /\ \A k \in 1..Len(dividend) :
             Remainders(dividend, divisor)[k]
               = (10 * Remainders(dividend, divisor)[k - 1] + dividend[k]) % divisor
    BY RemaindersAre
  <2>. QED BY <1>1, <2>1
<1>4. PICK c : c = [k \in 1..n |-> (10 * r[k - 1] + dividend[k]) \div divisor]
  OBVIOUS
<1>5. Counts(dividend, divisor) = c
  BY <1>1, <1>3, <1>4 DEF Counts
<1>6. ASSUME NEW k \in 1..n
      PROVE  c[k] \in 0..9 /\ 10 * r[k - 1] + dividend[k] = c[k] * divisor + r[k]
  <2>1. k - 1 \in 0..n
    OBVIOUS
  <2>2. PICK a \in 0..(divisor - 1), d \in 0..9 : a = r[k - 1] /\ d = dividend[k]
    BY <1>2, <2>1
  <2>3. c[k] = (10 * a + d) \div divisor /\ r[k] = (10 * a + d) % divisor
    BY <1>3, <1>4, <2>2
  <2>4. /\ (10 * a + d) \div divisor \in 0..9
        /\ 10 * a + d = ((10 * a + d) \div divisor) * divisor + ((10 * a + d) % divisor)
    BY DivisorGoes
  <2>. QED BY <2>2, <2>3, <2>4
<1>7. c \in Seq(0..9) /\ Len(c) = n
  <2>1. c \in [1..n -> 0..9]
    BY <1>4, <1>6
  <2>. QED BY <2>1, SeqDef, LenProperties
<1>8. PICK p \in [0..Len(dividend) -> Int] :
         /\ p = PrefixValues(dividend) /\ p[0] = 0 /\ p[Len(dividend)] = ValueOf(dividend)
         /\ \A i \in 1..Len(dividend) : p[i] = 10 * p[i - 1] + dividend[i]
  BY DigitsAreInts, PrefixesExist
<1>9. PICK q \in [0..Len(c) -> Int] :
         /\ q = PrefixValues(c) /\ q[0] = 0 /\ q[Len(c)] = ValueOf(c)
         /\ \A i \in 1..Len(c) : q[i] = 10 * q[i - 1] + c[i]
  BY <1>7, DigitsAreInts, PrefixesExist
<1>10. /\ p \in [0..n -> Int] /\ q \in [0..n -> Int] /\ p[n] = ValueOf(dividend) /\ q[n] = ValueOf(c)
       /\ p[0] = 0 /\ q[0] = 0
       /\ \A i \in 1..n : p[i] = 10 * p[i - 1] + dividend[i]
       /\ \A i \in 1..n : q[i] = 10 * q[i - 1] + c[i]
  BY <1>1, <1>7, <1>8, <1>9
<1>. DEFINE Good == {k \in Nat : k <= n => p[k] = q[k] * divisor + r[k]}
<1>11. 0 \in Good
  <2>1. 0 = 0 * divisor + 0
    OBVIOUS
  <2>. QED BY <1>3, <1>10, <2>1
<1>12. ASSUME NEW k \in Nat, k \in Good PROVE k + 1 \in Good
  <2>. SUFFICES ASSUME k + 1 <= n PROVE p[k + 1] = q[k + 1] * divisor + r[k + 1]
    OBVIOUS
  <2>1. k + 1 \in 1..n /\ (k + 1) - 1 = k /\ k \in 0..n /\ k + 1 \in 0..n
    OBVIOUS
  <2>2. p[k] = q[k] * divisor + r[k]
    BY <1>12, <2>1
  <2>3. PICK a \in Int, b \in Int : a = p[k] /\ b = q[k]
    BY <1>10, <2>1
  <2>4. PICK s \in Int, t \in Int : s = r[k] /\ t = r[k + 1]
    <3>1. r[k] \in 0..(divisor - 1) /\ r[k + 1] \in 0..(divisor - 1)
      BY <2>1
    <3>. QED BY <3>1
  <2>5. PICK d \in 0..9, e \in 0..9 : d = dividend[k + 1] /\ e = c[k + 1]
    BY <1>2, <1>6, <2>1
  <2>6. 10 * s + d = e * divisor + t
    BY <1>6, <2>1, <2>4, <2>5
  <2>7. p[k + 1] = 10 * a + d /\ q[k + 1] = 10 * b + e
    BY <1>10, <2>1, <2>3, <2>5
  <2>8. a = b * divisor + s
    BY <2>2, <2>3, <2>4
  <2>9. 10 * (b * divisor + s) + d = 10 * (b * divisor) + (10 * s + d)
    OBVIOUS
  <2>10. 10 * (b * divisor) + (e * divisor + t) = (10 * b + e) * divisor + t
    OBVIOUS
  <2>. QED BY <2>4, <2>6, <2>7, <2>8, <2>9, <2>10
<1>13. \A k \in Nat : k \in Good
  <2>. HIDE DEF Good
  <2>. QED BY <1>11, <1>12, Induction
<1>14. n <= n /\ n \in 0..n
  OBVIOUS
<1>15. p[n] = q[n] * divisor + r[n] /\ r[n] \in 0..(divisor - 1)
  BY <1>13, <1>14
<1>. QED BY <1>1, <1>3, <1>5, <1>7, <1>10, <1>15

-----------------------------------------------------------------------------
(* How many places a quotient is given.                                    *)

\* A number has no factor more often than it is large.
LEMMA FactorsAre ==
    ASSUME NEW v \in Nat \ {0}, NEW f \in Nat \ {0, 1}
    PROVE  \E n \in Nat, power \in Nat \ {0}, rest \in Nat \ {0} :
              /\ n = FactorsOf(v, f) /\ power = PowersOf(f)[n]
              /\ rest = v \div power /\ v = rest * power
<1>1. PICK p \in [Nat -> Nat \ {0}] :
         /\ p = PowersOf(f) /\ p[0] = 1 /\ \A n \in Nat : p[n] > n
  <2>1. f \in Nat \ {0}
    OBVIOUS
  <2>2. PowersOf(f) \in [Nat -> Nat \ {0}] /\ PowersOf(f)[0] = 1
    BY <2>1, PowersOfIs
  <2>. QED BY <2>2, PowersExceed
<1>. DEFINE T == {k \in Nat : v % p[k + 1] # 0}
<1>2. v \in T
  <2>1. PICK power \in Nat \ {0} : power = p[v + 1]
    OBVIOUS
  <2>2. v + 1 \in Nat
    OBVIOUS
  <2>3. v < power
    <3>1. p[v + 1] > v + 1
      BY <1>1, <2>2
    <3>. QED BY <2>1, <3>1
  <2>4. v = 0 * power + v /\ v \in 0..(power - 1) /\ 0 \in Int
    BY <2>3
  <2>5. v % power = v
    BY <2>4, DivIs
  <2>. QED BY <2>1, <2>5
<1>3. PICK n \in T : \A k \in T : n <= k
  <2>1. T \subseteq Nat /\ T # {}
    BY <1>2
  <2>. HIDE DEF T
  <2>. QED BY <2>1, LeastNumber
<1>4. n \in 0..v /\ v % p[n + 1] # 0
  BY <1>2, <1>3
<1>5. v % p[n] = 0
  <2>1. CASE n = 0
    BY <1>1, <2>1
  <2>2. CASE n # 0
    <3>1. n - 1 \in Nat /\ ~(n <= n - 1) /\ (n - 1) + 1 = n
      BY <1>4, <2>2
    <3>2. n - 1 \notin T
      BY <1>3, <3>1
    <3>. QED BY <3>1, <3>2
  <2>. QED BY <2>1, <2>2
<1>6. PICK m \in 0..v : m = FactorsOf(v, f) /\ v % p[m] = 0
  <2>. DEFINE Q(k) == v % p[k] = 0 /\ v % p[k + 1] # 0
  <2>1. Q(n)
    BY <1>4, <1>5
  <2>2. FactorsOf(v, f) = CHOOSE k \in 0..v : Q(k)
    BY <1>1 DEF FactorsOf
  <2>3. PICK m : m = FactorsOf(v, f) /\ m \in 0..v /\ Q(m)
    <3>. HIDE DEF Q
    <3>. QED BY <1>4, <2>1, <2>2
  <2>. QED BY <2>3
<1>7. PICK power \in Nat \ {0} : power = p[m]
  OBVIOUS
<1>8. v \div power \in Int /\ v = (v \div power) * power + (v % power)
  <2>1. v \in Int
    OBVIOUS
  <2>. QED BY <2>1, DivFacts
<1>9. PICK rest \in Int : rest = v \div power
  BY <1>8
<1>10. v = rest * power
  <2>1. rest * power \in Int
    OBVIOUS
  <2>. QED BY <1>6, <1>7, <1>8, <1>9, <2>1
<1>11. rest > 0
  <2>1. 0 * power < v
    OBVIOUS
  <2>. QED BY <1>10, <2>1, TimesGrows
<1>. QED BY <1>1, <1>6, <1>7, <1>9, <1>10, <1>11

\* A two and a five for every ten.
LEMMA TwosAndFives ==
    ASSUME NEW n \in Nat
    PROVE  PowersOf(2)[n] * PowersOf(5)[n] = PowerOfTen[n]
<1>. DEFINE Good == {k \in Nat : PowersOf(2)[k] * PowersOf(5)[k] = PowerOfTen[k]}
<1>1. /\ PowersOf(2) \in [Nat -> Nat \ {0}] /\ PowersOf(2)[0] = 1
      /\ \A k \in Nat : PowersOf(2)[k + 1] = 2 * PowersOf(2)[k]
  BY PowersOfIs
<1>2. /\ PowersOf(5) \in [Nat -> Nat \ {0}] /\ PowersOf(5)[0] = 1
      /\ \A k \in Nat : PowersOf(5)[k + 1] = 5 * PowersOf(5)[k]
  BY PowersOfIs
<1>3. 0 \in Good
  <2>1. PowersOf(2)[0] * PowersOf(5)[0] = PowerOfTen[0]
    <3>1. 1 * 1 = 1
      OBVIOUS
    <3>. QED BY <1>1, <1>2, <3>1, PowerOfTenIs
  <2>. QED BY <2>1
<1>4. ASSUME NEW k \in Nat, k \in Good PROVE k + 1 \in Good
  <2>1. PICK a \in Nat, b \in Nat, c \in Nat :
           a = PowersOf(2)[k] /\ b = PowersOf(5)[k] /\ c = PowerOfTen[k]
    BY <1>1, <1>2, PowerOfTenIs
  <2>2. a * b = c
    BY <1>4, <2>1
  <2>3. PowersOf(2)[k + 1] = 2 * a /\ PowersOf(5)[k + 1] = 5 * b /\ PowerOfTen[k + 1] = 10 * c
    BY <1>1, <1>2, <2>1, PowerOfTenIs
  <2>4. (2 * a) * (5 * b) = 10 * (a * b)
    OBVIOUS
  <2>5. PowersOf(2)[k + 1] * PowersOf(5)[k + 1] = PowerOfTen[k + 1]
    BY <2>2, <2>3, <2>4
  <2>. QED BY <2>5
<1>5. \A k \in Nat : k \in Good
  <2>. HIDE DEF Good
  <2>. QED BY <1>3, <1>4, Induction
<1>. QED BY <1>5

\* A divisor's factors other than 2 and 5 decide whether a quotient ends, and then
\* it has that many digits past the point.
LEMMA FractionDigitsAre ==
    ASSUME NEW divisor \in Nat \ {0}
    PROVE  /\ FractionDigits(divisor) \in Nat
           /\ RestOf(divisor) \in Nat \ {0}
           /\ \E k \in Nat : RestOf(divisor) * PowerOfTen[FractionDigits(divisor)] = k * divisor
<1>1. PICK twos \in Nat, a \in Nat \ {0}, odd \in Nat \ {0} :
         /\ twos = FactorsOf(divisor, 2) /\ a = PowersOf(2)[twos]
         /\ odd = divisor \div a /\ divisor = odd * a
  <2>1. 2 \in Nat \ {0, 1}
    OBVIOUS
  <2>. QED BY <2>1, FactorsAre
<1>2. odd = Odd(divisor)
  BY <1>1 DEF Odd
<1>3. PICK fives \in Nat, b \in Nat \ {0}, rest \in Nat \ {0} :
         /\ fives = FactorsOf(odd, 5) /\ b = PowersOf(5)[fives]
         /\ rest = odd \div b /\ odd = rest * b
  <2>1. 5 \in Nat \ {0, 1}
    OBVIOUS
  <2>. QED BY <2>1, FactorsAre
<1>4. rest = RestOf(divisor)
  BY <1>2, <1>3 DEF RestOf
<1>5. PICK n \in Nat : n = FractionDigits(divisor) /\ twos <= n /\ fives <= n
  <2>1. FractionDigits(divisor) = IF twos > fives THEN twos ELSE fives
    BY <1>1, <1>2, <1>3 DEF FractionDigits
  <2>2. CASE twos > fives
    BY <2>1, <2>2
  <2>3. CASE ~(twos > fives)
    BY <2>1, <2>3
  <2>. QED BY <2>2, <2>3
<1>6. PICK s \in Nat, t \in Nat : n = twos + s /\ n = fives + t
  <2>1. n - twos \in Nat /\ n = twos + (n - twos) /\ n - fives \in Nat /\ n = fives + (n - fives)
    BY <1>5
  <2>. QED BY <2>1
<1>7. PICK c \in Nat, d \in Nat :
         c = PowersOf(2)[s] /\ d = PowersOf(5)[t]
  <2>1. PowersOf(2) \in [Nat -> Nat \ {0}] /\ PowersOf(5) \in [Nat -> Nat \ {0}]
    BY PowersOfIs
  <2>. QED BY <2>1
<1>8. PowersOf(2)[n] = a * c
  <2>1. PowersOf(2)[twos + s] = PowersOf(2)[twos] * PowersOf(2)[s]
    BY PowersAdd
  <2>. QED BY <1>1, <1>6, <1>7, <2>1
<1>9. PowersOf(5)[n] = b * d
  <2>1. PowersOf(5)[fives + t] = PowersOf(5)[fives] * PowersOf(5)[t]
    BY PowersAdd
  <2>. QED BY <1>3, <1>6, <1>7, <2>1
<1>10. PowerOfTen[n] = (a * c) * (b * d)
  BY <1>8, <1>9, TwosAndFives
<1>11. rest * ((a * c) * (b * d)) = (c * d) * ((rest * b) * a)
  OBVIOUS
<1>12. c * d \in Nat
  OBVIOUS
<1>13. RestOf(divisor) * PowerOfTen[FractionDigits(divisor)] = (c * d) * divisor
  BY <1>1, <1>3, <1>4, <1>5, <1>10, <1>11
<1>. QED BY <1>4, <1>5, <1>12, <1>13

LEMMA LengthIs ==
    ASSUME NEW v \in Nat
    PROVE  LengthOf(v) \in Nat /\ v < PowerOfTen[LengthOf(v)]
<1>1. \A n \in Nat : PowerOfTen[n] \in Nat /\ PowerOfTen[n] > n
  <2>1. 10 \in Nat \ {0, 1}
    OBVIOUS
  <2>2. ASSUME NEW n \in Nat PROVE PowersOf(10)[n] > n
    BY <2>1, PowersExceed
  <2>. QED BY <2>2, PowerOfTenIs DEF PowerOfTen
<1>. DEFINE T == {n \in Nat : v < PowerOfTen[n]}
<1>2. v \in T
  BY <1>1
<1>3. PICK n \in T : \A k \in T : n <= k
  <2>1. T \subseteq Nat /\ T # {}
    BY <1>2
  <2>. HIDE DEF T
  <2>. QED BY <2>1, LeastNumber
<1>. DEFINE Q(k) == v < PowerOfTen[k] /\ (k = 0 \/ PowerOfTen[k - 1] <= v)
<1>4. n \in 0..v
  BY <1>2, <1>3
<1>5. Q(n)
  <2>1. CASE n = 0
    BY <1>3, <2>1
  <2>2. CASE n # 0
    <3>1. n - 1 \in Nat /\ ~(n <= n - 1)
      BY <1>4, <2>2
    <3>2. n - 1 \notin T
      BY <1>3, <3>1
    <3>3. ~(v < PowerOfTen[n - 1]) /\ PowerOfTen[n - 1] \in Nat
      BY <1>1, <3>1, <3>2
    <3>. QED BY <1>3, <3>3
  <2>. QED BY <2>1, <2>2
<1>6. LengthOf(v) = CHOOSE k \in 0..v : Q(k)
  BY DEF LengthOf
<1>7. LengthOf(v) \in 0..v /\ Q(LengthOf(v))
  <2>. HIDE DEF Q
  <2>. QED BY <1>4, <1>5, <1>6
<1>. QED BY <1>7

\* The division goes on past the point by zeros.
LEMMA QuotientToIs ==
    ASSUME NEW dividend \in Seq(0..9), NEW divisor \in Nat \ {0}, NEW n \in Nat
    PROVE  \E q \in Seq(0..9), r \in 0..(divisor - 1) :
              /\ q = QuotientTo(dividend, divisor, n)
              /\ r = Remainders(dividend \o Zeros(n), divisor)[Len(dividend) + n]
              /\ ValueOf(dividend) * PowerOfTen[n] = ValueOf(q) * divisor + r
<1>1. PICK z \in Seq(0..9) : z = Zeros(n) /\ Len(z) = n /\ ValueOf(z) = 0
  <2>1. n \in Int
    OBVIOUS
  <2>2. /\ Zeros(n) \in Seq(0..9) /\ Len(Zeros(n)) = (IF n > 0 THEN n ELSE 0)
        /\ \A i \in 1..Len(Zeros(n)) : Zeros(n)[i] = 0
    BY <2>1, ZerosAre
  <2>3. Len(Zeros(n)) = n
    BY <2>2
  <2>4. ValueOf(Zeros(n)) = 0
    BY <2>2, ValueOfZeros
  <2>. QED BY <2>2, <2>3, <2>4
<1>2. PICK s \in Seq(0..9) : s = dividend \o z /\ Len(s) = Len(dividend) + n
  <2>1. dividend \o z \in Seq(0..9) /\ Len(dividend \o z) = Len(dividend) + Len(z)
    BY ConcatProperties, Zenon
  <2>. QED BY <1>1, <2>1
<1>3. ValueOf(s) = ValueOf(dividend) * PowerOfTen[n] + 0
  <2>1. dividend \in Seq(Int) /\ z \in Seq(Int)
    BY DigitsAreInts
  <2>2. ValueOf(dividend \o z) = ValueOf(dividend) * PowerOfTen[Len(z)] + ValueOf(z)
    BY <2>1, ValueOfBoth
  <2>. QED BY <1>1, <1>2, <2>2
<1>4. /\ Counts(s, divisor) \in Seq(0..9)
      /\ Remainders(s, divisor)[Len(s)] \in 0..(divisor - 1)
      /\ ValueOf(s) = ValueOf(Counts(s, divisor)) * divisor + Remainders(s, divisor)[Len(s)]
  BY CountsAre
<1>5. PICK q \in Seq(0..9), r \in 0..(divisor - 1) :
         q = Counts(s, divisor) /\ r = Remainders(s, divisor)[Len(s)]
  BY <1>4
<1>6. q = QuotientTo(dividend, divisor, n)
  BY <1>1, <1>2, <1>5 DEF QuotientTo
<1>7. r = Remainders(dividend \o Zeros(n), divisor)[Len(dividend) + n]
  BY <1>1, <1>2, <1>5
<1>8. ValueOf(dividend) * PowerOfTen[n] = ValueOf(q) * divisor + r
  <2>1. PICK v \in Nat, e \in Nat : v = ValueOf(dividend) /\ e = PowerOfTen[n]
    BY ValueFits, PowerOfTenIs
  <2>2. v * e \in Nat
    OBVIOUS
  <2>3. ValueOf(s) = v * e
    BY <1>3, <2>1, <2>2
  <2>. QED BY <1>4, <1>5, <2>1, <2>3
<1>. QED BY <1>6, <1>7, <1>8

\* A value has digits enough.
LEMMA DigitsEnough ==
    ASSUME NEW q \in Seq(0..9), NEW n \in Nat, PowerOfTen[n] <= ValueOf(q)
    PROVE  Len(DropLeading(q)) >= n
<1>1. PICK t \in Seq(0..9) : t = DropLeading(q) /\ ValueOf(t) = ValueOf(q)
  BY DropLeadingIs, ValueOfDropped
<1>2. PICK m \in Nat : m = Len(t)
  OBVIOUS
<1>3. PICK e \in Nat, f \in Nat : e = PowerOfTen[m] /\ f = PowerOfTen[n]
  BY PowerOfTenIs
<1>4. PICK v \in Nat : v = ValueOf(t) /\ v < e
  BY <1>2, <1>3, ValueFits
<1>5. ~(e <= f)
  BY <1>1, <1>3, <1>4
<1>6. m <= n => e <= f
  BY <1>3, PowersOfTenGrow
<1>. QED BY <1>1, <1>2, <1>5, <1>6

\* An exact quotient that is short enough ends where it is said to.
LEMMA QuotientEnds ==
    ASSUME NEW dividend \in Seq(0..9), NEW divisor \in Nat \ {0}, Terminates(dividend, divisor)
    PROVE  Remainders(dividend \o Zeros(FractionDigits(divisor)), divisor)
              [Len(dividend) + FractionDigits(divisor)] = 0
<1>1. PICK n \in Nat, rest \in Nat \ {0}, k \in Nat :
         /\ n = FractionDigits(divisor) /\ rest = RestOf(divisor)
         /\ rest * PowerOfTen[n] = k * divisor
  BY FractionDigitsAre
<1>2. PICK v \in Nat, e \in Nat : v = ValueOf(dividend) /\ e = PowerOfTen[n]
  BY ValueFits, PowerOfTenIs
<1>3. v % rest = 0
  BY <1>1, <1>2 DEF Terminates
<1>4. v \div rest \in Int /\ v = (v \div rest) * rest + (v % rest)
  <2>1. v \in Int
    OBVIOUS
  <2>. QED BY <2>1, DivFacts
<1>5. PICK h \in Int : h = v \div rest /\ v = h * rest
  <2>1. PICK h \in Int : h = v \div rest
    BY <1>4
  <2>2. h * rest \in Int
    OBVIOUS
  <2>3. v = h * rest
    BY <1>3, <1>4, <2>1, <2>2
  <2>. QED BY <2>1, <2>3
<1>6. v * e = (h * k) * divisor + 0
  <2>1. (h * rest) * e = h * (rest * e)
    OBVIOUS
  <2>2. h * (k * divisor) = (h * k) * divisor + 0
    OBVIOUS
  <2>. QED BY <1>1, <1>2, <1>5, <2>1, <2>2
<1>7. PICK q \in Seq(0..9), r \in 0..(divisor - 1) :
         /\ r = Remainders(dividend \o Zeros(n), divisor)[Len(dividend) + n]
         /\ v * e = ValueOf(q) * divisor + r
  <2>1. PICK q \in Seq(0..9), r \in 0..(divisor - 1) :
           /\ q = QuotientTo(dividend, divisor, n)
           /\ r = Remainders(dividend \o Zeros(n), divisor)[Len(dividend) + n]
           /\ ValueOf(dividend) * PowerOfTen[n] = ValueOf(q) * divisor + r
    BY QuotientToIs
  <2>2. v * e = ValueOf(q) * divisor + r
    BY <1>2, <2>1
  <2>. QED BY <2>1, <2>2
<1>8. PICK w \in Int : w = ValueOf(q)
  BY ValueFits
<1>9. PICK x \in Int : x = v * e
  OBVIOUS
<1>10. x = w * divisor + r /\ x = (h * k) * divisor + 0 /\ h * k \in Int /\ 0 \in 0..(divisor - 1)
  BY <1>6, <1>7, <1>8, <1>9
<1>11. x % divisor = r
  BY <1>10, DivIs
<1>12. x % divisor = 0
  <2>1. PICK g \in Int : g = h * k
    OBVIOUS
  <2>2. x = g * divisor + 0
    BY <1>10, <2>1
  <2>. QED BY <1>10, <2>2, DivIs
<1>. QED BY <1>1, <1>7, <1>11, <1>12

\* One that does not, or is too long, has as many significant digits as are kept
\* after the divisor's length of zeros.
LEMMA QuotientIsLong ==
    ASSUME NEW dividend \in Seq(0..9), NEW divisor \in Nat \ {0}
    PROVE  LET n == LengthOf(divisor) + SignificantDigits IN
           \/ Remainders(dividend \o Zeros(n), divisor)[Len(dividend) + n] = 0
           \/ Len(DropLeading(QuotientTo(dividend, divisor, n))) >= SignificantDigits
<1>1. PICK l \in Nat, s \in Nat, n \in Nat :
         l = LengthOf(divisor) /\ s = SignificantDigits /\ n = LengthOf(divisor) + SignificantDigits /\ n = l + s
  <2>1. LengthOf(divisor) \in Nat /\ SignificantDigits \in Nat
    BY LengthIs, NumberAssumption
  <2>. QED BY <2>1
<1>2. PICK q \in Seq(0..9), r \in 0..(divisor - 1) :
         /\ q = QuotientTo(dividend, divisor, n)
         /\ r = Remainders(dividend \o Zeros(n), divisor)[Len(dividend) + n]
         /\ ValueOf(dividend) * PowerOfTen[n] = ValueOf(q) * divisor + r
  BY QuotientToIs
<1>3. PICK d \in Nat, v \in Nat : d = ValueOf(dividend) /\ v = ValueOf(q)
  BY ValueFits
<1>4. PICK e \in Nat, f \in Nat : e = PowerOfTen[l] /\ f = PowerOfTen[s]
  BY PowerOfTenIs
<1>5. d * (e * f) = v * divisor + r
  <2>1. PowerOfTen[l + s] = PowerOfTen[l] * PowerOfTen[s]
    BY PowersOfTenAdd
  <2>2. PowerOfTen[n] = e * f
    BY <1>1, <1>4, <2>1
  <2>. QED BY <1>2, <1>3, <2>2
<1>6. divisor < e
  <2>1. divisor \in Nat
    OBVIOUS
  <2>. QED BY <1>1, <1>4, <2>1, LengthIs
<1>7. CASE d = 0
  <2>1. 0 * (e * f) = 0 /\ v * divisor \in Nat
    OBVIOUS
  <2>2. r = 0
    BY <1>5, <1>7, <2>1
  <2>. QED BY <1>1, <1>2, <2>2
<1>8. CASE d # 0
  <2>1. PICK c \in Nat : d = c + 1
    <3>1. d - 1 \in Nat /\ d = (d - 1) + 1
      BY <1>8
    <3>. QED BY <3>1
  <2>2. d * (e * f) = c * (e * f) + e * f /\ c * (e * f) \in Nat /\ e * f \in Nat
    BY <2>1
  <2>3. PICK g \in Nat : e = divisor + g
    <3>1. e - divisor \in Nat /\ e = divisor + (e - divisor)
      BY <1>6
    <3>. QED BY <3>1
  <2>4. e * f = f * divisor + g * f /\ g * f \in Nat /\ f * divisor \in Nat
    BY <2>3
  <2>5. f * divisor <= v * divisor + r
    BY <1>5, <2>2, <2>4
  <2>6. v * divisor + divisor = (v + 1) * divisor /\ (v + 1) * divisor \in Nat
    OBVIOUS
  <2>7. f * divisor < (v + 1) * divisor
    BY <2>4, <2>5, <2>6
  <2>8. f < v + 1
    <3>1. v + 1 \in Int /\ f \in Int
      OBVIOUS
    <3>. QED BY <2>7, <3>1, TimesGrows
  <2>9. PowerOfTen[s] <= ValueOf(q)
    BY <1>3, <1>4, <2>8
  <2>10. Len(DropLeading(q)) >= s
    BY <2>9, DigitsEnough
  <2>. QED BY <1>1, <1>2, <2>10
<1>. QED BY <1>7, <1>8

\* So the division stops.
LEMMA PlacesAreFound ==
    ASSUME NEW dividend \in Seq(0..9), NEW divisor \in Nat \ {0}
    PROVE  \E n \in Nat, q \in Seq(0..9), r \in 0..(divisor - 1) :
              /\ n = PlacesOf(dividend, divisor)
              /\ q = QuotientTo(dividend, divisor, n)
              /\ ValueOf(dividend) * PowerOfTen[n] = ValueOf(q) * divisor + r
              /\ r = 0 \/ Len(DropLeading(q)) >= SignificantDigits
<1>1. PICK ends \in Nat, long \in Nat, most \in Nat :
         /\ ends = FractionDigits(divisor) /\ long = LengthOf(divisor) + SignificantDigits
         /\ most = MostPlaces(divisor) /\ ends <= most /\ long <= most
  <2>1. LengthOf(divisor) \in Nat /\ SignificantDigits \in Nat /\ FractionDigits(divisor) \in Nat
    BY LengthIs, NumberAssumption, FractionDigitsAre
  <2>2. PICK ends \in Nat, long \in Nat :
           ends = FractionDigits(divisor) /\ long = LengthOf(divisor) + SignificantDigits
    BY <2>1
  <2>3. MostPlaces(divisor) = IF ends > long THEN ends ELSE long
    BY <2>2 DEF MostPlaces
  <2>4. PICK most \in Nat : most = MostPlaces(divisor) /\ ends <= most /\ long <= most
    <3>1. CASE ends > long
      BY <2>3, <3>1
    <3>2. CASE ~(ends > long)
      BY <2>3, <3>2
    <3>. QED BY <3>1, <3>2
  <2>. QED BY <2>2, <2>4
<1>. DEFINE Q(k) == IsEnough(dividend, divisor, k)
            T == {k \in Nat : k <= most /\ Q(k)}
<1>2. T # {}
  <2>1. CASE Terminates(dividend, divisor)
    <3>1. Q(ends)
      BY <1>1, <2>1 DEF IsEnough
    <3>. QED BY <1>1, <3>1
  <2>2. CASE ~Terminates(dividend, divisor)
    <3>1. \/ Remainders(dividend \o Zeros(long), divisor)[Len(dividend) + long] = 0
          \/ Len(DropLeading(QuotientTo(dividend, divisor, long))) >= SignificantDigits
      BY <1>1, QuotientIsLong
    <3>2. Q(long)
      BY <2>2, <3>1 DEF IsEnough
    <3>. QED BY <1>1, <3>2
  <2>. QED BY <2>1, <2>2
<1>3. PICK n \in T : \A k \in T : n <= k
  <2>1. T \subseteq Nat
    OBVIOUS
  <2>. HIDE DEF T
  <2>. QED BY <1>2, <2>1, LeastNumber
<1>4. n \in 0..most /\ Q(n) /\ \A k \in 0..(n - 1) : ~Q(k)
  <2>1. n \in 0..most /\ Q(n)
    OBVIOUS
  <2>2. ASSUME NEW k \in 0..(n - 1) PROVE ~Q(k)
    <3>1. k \in Nat /\ k <= most /\ ~(n <= k)
      BY <2>1
    <3>. HIDE DEF Q
    <3>. QED BY <1>3, <3>1
  <2>. QED BY <2>1, <2>2
<1>5. PlacesOf(dividend, divisor) = CHOOSE m \in 0..most : Q(m) /\ \A k \in 0..(m - 1) : ~Q(k)
  BY <1>1 DEF PlacesOf
<1>6. PICK m \in 0..most : m = PlacesOf(dividend, divisor) /\ Q(m)
  <2>. HIDE DEF Q, T
  <2>. QED BY <1>4, <1>5
<1>7. m \in Nat /\ IsEnough(dividend, divisor, m)
  BY <1>6
<1>. HIDE DEF Q, T
<1>8. PICK q \in Seq(0..9), r \in 0..(divisor - 1) :
         /\ q = QuotientTo(dividend, divisor, m)
         /\ r = Remainders(dividend \o Zeros(m), divisor)[Len(dividend) + m]
         /\ ValueOf(dividend) * PowerOfTen[m] = ValueOf(q) * divisor + r
  BY <1>7, QuotientToIs
<1>9. r = 0 \/ Len(DropLeading(q)) >= SignificantDigits
  <2>1. CASE r = 0
    BY <2>1
  <2>2. CASE r # 0 /\ Terminates(dividend, divisor)
    <3>1. m = ends
      BY <1>1, <1>7, <1>8, <2>2 DEF IsEnough
    <3>. QED BY <1>1, <1>8, <2>2, <3>1, QuotientEnds
  <2>3. CASE r # 0 /\ ~Terminates(dividend, divisor)
    BY <1>7, <1>8, <2>3 DEF IsEnough
  <2>. QED BY <2>1, <2>2, <2>3
<1>. QED BY <1>6, <1>7, <1>8, <1>9

LEMMA DividePositiveIs ==
    ASSUME NEW a, NEW b, Shaped(a), Shaped(b), b # Zero
    PROVE  \E n \in Nat, q \in Seq(0..9), divisor \in Nat \ {0} :
              /\ divisor = Magnitude(b, Places(a, b))
              /\ DividePositive(a, b) = Pointed(FALSE, q, n)
              /\ \E r \in 0..(divisor - 1) :
                   /\ Magnitude(a, Places(a, b)) * PowerOfTen[n] = ValueOf(q) * divisor + r
                   /\ r = 0 \/ Len(DropLeading(q)) >= SignificantDigits
<1>1. PICK p \in Nat : p = Places(a, b) /\ Len(a.frac) <= p /\ Len(b.frac) <= p
  BY PlacesAre
<1>2. PICK dividend \in Seq(0..9) :
         dividend = Aligned(a, p, 0) /\ ValueOf(dividend) = Magnitude(a, p)
  <2>1. 0 \in Nat
    OBVIOUS
  <2>. QED BY <1>1, <2>1, AlignedIs
<1>3. PICK divisor \in Nat \ {0} :
         divisor = ValueOf(Aligned(b, p, 0)) /\ divisor = Magnitude(b, p)
  <2>1. ValueOf(Aligned(b, p, 0)) = Magnitude(b, p)
    <3>1. 0 \in Nat
      OBVIOUS
    <3>. QED BY <1>1, <3>1, AlignedIs
  <2>2. Magnitude(b, p) \in Nat /\ Magnitude(b, p) # 0
    BY <1>1, NegativeIsNotZero
  <2>. QED BY <2>1, <2>2
<1>4. PICK n \in Nat, q \in Seq(0..9), r \in 0..(divisor - 1) :
         /\ n = PlacesOf(dividend, divisor)
         /\ q = QuotientTo(dividend, divisor, n)
         /\ ValueOf(dividend) * PowerOfTen[n] = ValueOf(q) * divisor + r
         /\ r = 0 \/ Len(DropLeading(q)) >= SignificantDigits
  BY PlacesAreFound
<1>5. DividePositive(a, b) = Pointed(FALSE, q, n)
  BY <1>1, <1>2, <1>3, <1>4 DEF DividePositive
<1>6. Magnitude(a, Places(a, b)) * PowerOfTen[n] = ValueOf(q) * divisor + r
  BY <1>1, <1>2, <1>4
<1>7. divisor = Magnitude(b, Places(a, b))
  BY <1>1, <1>3
<1>. QED BY <1>4, <1>5, <1>6, <1>7

\* More places are zeros.
LEMMA MagnitudeGrows ==
    ASSUME NEW x, Shaped(x), NEW k \in Nat
    PROVE  /\ Len(x.frac) \in Nat /\ Magnitude(x, Len(x.frac)) \in Nat
           /\ Magnitude(x, Len(x.frac) + k) = Magnitude(x, Len(x.frac)) * PowerOfTen[k]
<1>1. PICK neg \in BOOLEAN, i \in Seq(0..9), f \in Seq(0..9) :
         neg = x.neg /\ i = x.int /\ f = x.frac /\ x = Canonical(neg, i, f)
  BY ShapedIsCanonical
<1>2. PICK l \in Nat, p \in Nat : l = Len(f) /\ p = l + k /\ l <= p /\ l <= l /\ p - l = k /\ l - l = 0
  <2>1. Len(f) \in Nat
    OBVIOUS
  <2>2. PICK l \in Nat : l = Len(f)
    BY <2>1
  <2>3. l + k \in Nat /\ l <= l + k /\ (l + k) - l = k /\ l <= l /\ l - l = 0
    OBVIOUS
  <2>. QED BY <2>2, <2>3
<1>3. Magnitude(x, p) = ValueOf(i) * PowerOfTen[p] + ValueOf(f) * PowerOfTen[p - Len(f)]
  <2>1. Len(f) <= p
    BY <1>2
  <2>2. Magnitude(Canonical(neg, i, f), p)
          = ValueOf(i) * PowerOfTen[p] + ValueOf(f) * PowerOfTen[p - Len(f)]
    BY <2>1, MagnitudeOfCanonical
  <2>. QED BY <1>1, <2>2
<1>4. Magnitude(x, l) = ValueOf(i) * PowerOfTen[l] + ValueOf(f) * PowerOfTen[l - Len(f)]
  <2>1. Len(f) <= l
    BY <1>2
  <2>2. Magnitude(Canonical(neg, i, f), l)
          = ValueOf(i) * PowerOfTen[l] + ValueOf(f) * PowerOfTen[l - Len(f)]
    BY <2>1, MagnitudeOfCanonical
  <2>. QED BY <1>1, <2>2
<1>5. PICK v \in Nat, w \in Nat : v = ValueOf(i) /\ w = ValueOf(f)
  BY ValueFits
<1>6. PICK c \in Nat, d \in Nat : c = PowerOfTen[l] /\ d = PowerOfTen[k]
  BY PowerOfTenIs
<1>7. PowerOfTen[p] = c * d
  <2>1. PowerOfTen[l + k] = PowerOfTen[l] * PowerOfTen[k]
    BY PowersOfTenAdd
  <2>. QED BY <1>2, <1>6, <2>1
<1>8. Magnitude(x, p) = v * (c * d) + w * d
  BY <1>2, <1>3, <1>5, <1>6, <1>7
<1>9. Magnitude(x, l) = v * c + w * 1
  BY <1>2, <1>4, <1>5, <1>6, PowerOfTenIs
<1>10. v * (c * d) + w * d = (v * c + w * 1) * d /\ v * c + w * 1 \in Nat
  OBVIOUS
<1>11. Len(x.frac) = l /\ Len(x.frac) + k = p
  BY <1>1, <1>2
<1>12. Magnitude(x, p) = Magnitude(x, l) * d /\ Magnitude(x, l) \in Nat
  BY <1>8, <1>9, <1>10
<1>. QED BY <1>6, <1>11, <1>12

\* A quotient has as many digits, and dropped zeros, as its digits were divided to.
LEMMA DroppedAreZeros ==
    ASSUME NEW x, Shaped(x), NEW q \in Seq(0..9), NEW k \in Nat, NEW n \in Nat \ {0},
           ValueOf(q) = Magnitude(x, Len(x.frac)) * PowerOfTen[k], Len(DropLeading(q)) >= n
    PROVE  Kept(x) \in Nat /\ n <= Kept(x) + k
<1>1. PICK s \in Seq(0..9) : s = x.int \o x.frac /\ ValueOf(s) = Magnitude(x, Len(x.frac))
  BY DigitsOfNumber
<1>2. PICK t \in Seq(0..9) : t = DropLeading(s) /\ ValueOf(t) = ValueOf(s)
  BY DropLeadingIs, ValueOfDropped
<1>3. PICK kept \in Nat, c \in Nat, v \in Nat :
         kept = Len(t) /\ c = PowerOfTen[kept] /\ v = ValueOf(t) /\ v < c
  <2>1. Len(t) \in Nat /\ ValueOf(t) \in Nat /\ PowerOfTen[Len(t)] \in Nat /\ ValueOf(t) < PowerOfTen[Len(t)]
    BY ValueFits
  <2>. QED BY <2>1
<1>4. kept = Kept(x)
  BY <1>1, <1>2, <1>3 DEF Kept
<1>5. PICK zeros \in 0..Len(q), u \in Seq(0..9) :
         /\ u = DropLeading(q) /\ Len(u) = Len(q) - zeros
         /\ \A i \in 1..Len(u) : u[i] = q[zeros + i]
         /\ zeros = Len(q) \/ q[zeros + 1] # 0
  BY DropLeadingIs
<1>6. PICK l \in Nat \ {0}, h \in Nat : l = Len(u) /\ n <= l /\ h = l - 1
  <2>1. PICK l \in Nat : l = Len(u)
    OBVIOUS
  <2>2. l >= n
    BY <1>5, <2>1
  <2>3. l \in Nat \ {0} /\ l - 1 \in Nat
    BY <2>2
  <2>. QED BY <2>1, <2>2, <2>3
<1>7. u[1] # 0
  <2>1. PICK length \in Nat : length = Len(q)
    OBVIOUS
  <2>2. zeros # length /\ 1 \in 1..l
    BY <1>5, <1>6, <2>1
  <2>3. u[1] = q[zeros + 1]
    BY <1>5, <1>6, <2>2
  <2>. QED BY <1>5, <2>1, <2>2, <2>3
<1>8. PowerOfTen[h] <= ValueOf(u)
  <2>1. Len(u) > 0
    BY <1>6
  <2>2. PowerOfTen[Len(u) - 1] <= ValueOf(u)
    BY <1>7, <2>1, FirstDigitCounts
  <2>. QED BY <1>6, <2>2
<1>9. ValueOf(u) = ValueOf(q)
  BY <1>5, ValueOfDropped
<1>10. PICK d \in Nat \ {0} : d = PowerOfTen[k]
  BY PowerOfTenIs
<1>11. ValueOf(u) = v * d
  BY <1>1, <1>2, <1>3, <1>9, <1>10
<1>12. v * d < c * d /\ v * d \in Nat /\ c * d \in Nat
  <2>1. v \in Int /\ c \in Int
    OBVIOUS
  <2>2. v * d < c * d
    BY <1>3, <2>1, TimesGrows
  <2>3. v * d \in Nat /\ c * d \in Nat
    OBVIOUS
  <2>. QED BY <2>2, <2>3
<1>13. PICK g \in Nat : g = kept + k
  OBVIOUS
<1>14. PowerOfTen[g] = c * d
  <2>1. PowerOfTen[kept + k] = PowerOfTen[kept] * PowerOfTen[k]
    BY PowersOfTenAdd
  <2>. QED BY <1>3, <1>10, <1>13, <2>1
<1>15. ~(g <= h)
  <2>1. SUFFICES ASSUME g <= h PROVE FALSE
    OBVIOUS
  <2>2. PowerOfTen[g] <= PowerOfTen[h]
    BY <2>1, PowersOfTenGrow
  <2>3. PICK y \in Nat, z \in Nat : y = PowerOfTen[h] /\ z = v * d
    BY <1>12, PowerOfTenIs
  <2>4. y <= z
    BY <1>8, <1>11, <2>3
  <2>5. PICK w \in Nat : w = c * d /\ z < w
    BY <1>12, <2>3
  <2>6. w <= y
    BY <1>14, <2>2, <2>3, <2>5
  <2>. QED BY <2>4, <2>5, <2>6
<1>. QED BY <1>4, <1>6, <1>13, <1>15

\* What the properties say of a quotient: the places it dropped are zeros, and those
\* it has more of than are kept are cut off.
Truncates(x, dividend, divisor) ==
    LET e == Len(x.frac) + Unkept(x)
        quotient == Magnitude(x, Len(x.frac)) * PowerOfTen[Unkept(x)]
    IN /\ quotient * divisor <= dividend * PowerOfTen[e]
       /\ dividend * PowerOfTen[e] < (quotient + 1) * divisor

\* Cut off at n places, a quotient is cut off at fewer.
LEMMA CutOffEarlier ==
    ASSUME NEW dividend \in Nat, NEW divisor \in Nat \ {0}, NEW q \in Nat, NEW r \in 0..(divisor - 1),
           NEW e \in Nat \ {0}, dividend * e = (q * e) * divisor + r
    PROVE  q * divisor <= dividend /\ dividend < (q + 1) * divisor
<1>1. PICK x \in Nat : x = q * divisor
  OBVIOUS
<1>2. dividend * e = x * e + r
  <2>1. (q * e) * divisor = (q * divisor) * e
    OBVIOUS
  <2>. QED BY <1>1, <2>1
<1>3. x * e <= dividend * e /\ x * e \in Nat /\ dividend * e \in Nat
  <2>1. x * e \in Nat /\ dividend * e \in Nat
    OBVIOUS
  <2>. QED BY <1>2, <2>1
<1>4. x <= dividend
  <2>1. x \in Int /\ dividend \in Int
    OBVIOUS
  <2>. QED BY <1>3, <2>1, TimesGrows
<1>5. divisor <= divisor * e
  <2>1. 1 * divisor <= e * divisor
    <3>1. 1 \in Int /\ e \in Int /\ 1 <= e
      OBVIOUS
    <3>. QED BY <3>1, TimesGrows
  <2>. QED BY <2>1
<1>6. dividend * e < x * e + divisor * e
  BY <1>2, <1>3, <1>5
<1>7. x * e + divisor * e = (x + divisor) * e
  OBVIOUS
<1>8. dividend < x + divisor
  <2>1. x + divisor \in Int /\ dividend \in Int
    OBVIOUS
  <2>2. dividend * e < (x + divisor) * e
    BY <1>6, <1>7
  <2>. QED BY <2>1, <2>2, TimesGrows
<1>9. (q + 1) * divisor = x + divisor
  BY <1>1
<1>. QED BY <1>1, <1>4, <1>8, <1>9

LEMMA QuotientTruncates ==
    ASSUME NEW x, Shaped(x), NEW dividend \in Nat, NEW divisor \in Nat \ {0}, NEW n \in Nat,
           Len(x.frac) <= n, NEW q \in Seq(0..9), Magnitude(x, n) = ValueOf(q),
           NEW r \in 0..(divisor - 1), dividend * PowerOfTen[n] = ValueOf(q) * divisor + r,
           r = 0 \/ Len(DropLeading(q)) >= SignificantDigits
    PROVE  Truncates(x, dividend, divisor)
<1>1. PICK l \in Nat, k \in Nat, m \in Nat :
         l = Len(x.frac) /\ n = l + k /\ m = Magnitude(x, l)
  <2>1. Len(x.frac) \in Nat /\ Magnitude(x, Len(x.frac)) \in Nat
    <3>1. 0 \in Nat
      OBVIOUS
    <3>. QED BY <3>1, MagnitudeGrows
  <2>2. PICK l \in Nat : l = Len(x.frac)
    BY <2>1
  <2>3. n - l \in Nat /\ n = l + (n - l)
    BY <2>2
  <2>. QED BY <2>1, <2>2, <2>3
<1>2. PICK ek \in Nat \ {0}, el \in Nat : ek = PowerOfTen[k] /\ el = PowerOfTen[l]
  BY PowerOfTenIs
<1>3. ValueOf(q) = m * ek
  <2>1. Magnitude(x, Len(x.frac) + k) = Magnitude(x, Len(x.frac)) * PowerOfTen[k]
    BY MagnitudeGrows
  <2>. QED BY <1>1, <1>2, <2>1
<1>4. dividend * (el * ek) = (m * ek) * divisor + r
  <2>1. PowerOfTen[l + k] = PowerOfTen[l] * PowerOfTen[k]
    BY PowersOfTenAdd
  <2>2. PowerOfTen[n] = el * ek
    BY <1>1, <1>2, <2>1
  <2>. QED BY <1>3, <2>2
<1>5. Kept(x) \in Nat /\ SignificantDigits \in Nat \ {0}
  <2>1. PICK s \in Seq(0..9) : s = x.int \o x.frac
    BY DigitsOfNumber
  <2>2. PICK t \in Seq(0..9) : t = DropLeading(s)
    BY DropLeadingIs
  <2>3. Len(t) \in Nat
    OBVIOUS
  <2>. QED BY <2>1, <2>2, <2>3, NumberAssumption DEF Kept
<1>6. PICK u \in Nat : /\ u = Unkept(x)
                       /\ u = IF Kept(x) < SignificantDigits THEN SignificantDigits - Kept(x) ELSE 0
  <2>1. PICK a \in Nat, b \in Nat : a = Kept(x) /\ b = SignificantDigits
    BY <1>5
  <2>2. Unkept(x) = IF a < b THEN b - a ELSE 0
    BY <2>1 DEF Unkept
  <2>3. Unkept(x) \in Nat
    <3>1. CASE a < b
      BY <2>2, <3>1
    <3>2. CASE ~(a < b)
      BY <2>2, <3>2
    <3>. QED BY <3>1, <3>2
  <2>. QED BY <2>1, <2>2, <2>3
<1>7. PICK eu \in Nat \ {0} : eu = PowerOfTen[u]
  BY PowerOfTenIs
<1>8. PowerOfTen[l + u] = el * eu
  BY <1>2, <1>7, PowersOfTenAdd
<1>9. PICK d \in Nat : d = dividend * (el * eu)
  OBVIOUS
<1>10. SUFFICES (m * eu) * divisor <= d /\ d < (m * eu + 1) * divisor
  BY <1>1, <1>6, <1>7, <1>8, <1>9 DEF Truncates
<1>11. CASE r = 0
  <2>1. (dividend * el) * ek = (m * divisor) * ek
    <3>1. dividend * (el * ek) = (dividend * el) * ek /\ (m * ek) * divisor + 0 = (m * divisor) * ek
      OBVIOUS
    <3>. QED BY <1>4, <1>11, <3>1
  <2>2. dividend * el = m * divisor
    <3>1. PICK a \in Int, b \in Int : a = dividend * el /\ b = m * divisor
      OBVIOUS
    <3>2. a * ek <= b * ek /\ b * ek <= a * ek
      <4>1. a * ek = b * ek /\ a * ek \in Int
        BY <2>1, <3>1
      <4>. QED BY <4>1
    <3>3. a <= b /\ b <= a
      BY <3>2, TimesGrows
    <3>. QED BY <3>1, <3>3
  <2>3. d = (m * eu) * divisor
    <3>1. dividend * (el * eu) = (dividend * el) * eu /\ (m * divisor) * eu = (m * eu) * divisor
      OBVIOUS
    <3>. QED BY <1>9, <2>2, <3>1
  <2>4. (m * eu + 1) * divisor = (m * eu) * divisor + divisor
    OBVIOUS
  <2>. QED BY <2>3, <2>4
<1>12. CASE r # 0
  <2>1. u <= k
    <3>1. PICK s \in Nat \ {0} : s = SignificantDigits
      BY <1>5
    <3>2. PICK kept \in Nat : kept = Kept(x)
      BY <1>5
    <3>3. s <= kept + k
      <4>1. ValueOf(q) = Magnitude(x, Len(x.frac)) * PowerOfTen[k]
        BY <1>1, <1>2, <1>3
      <4>2. Len(DropLeading(q)) >= s
        BY <1>12, <3>1
      <4>. QED BY <3>2, <4>1, <4>2, DroppedAreZeros
    <3>4. u = IF kept < s THEN s - kept ELSE 0
      BY <1>6, <3>1, <3>2
    <3>5. CASE kept < s
      BY <3>3, <3>4, <3>5
    <3>6. CASE ~(kept < s)
      BY <3>4, <3>6
    <3>. QED BY <3>5, <3>6
  <2>2. PICK h \in Nat : k = u + h
    <3>1. k - u \in Nat /\ k = u + (k - u)
      BY <2>1
    <3>. QED BY <3>1
  <2>3. PICK eh \in Nat \ {0} : eh = PowerOfTen[h]
    BY PowerOfTenIs
  <2>4. ek = eu * eh
    <3>1. PowerOfTen[u + h] = PowerOfTen[u] * PowerOfTen[h]
      BY PowersOfTenAdd
    <3>. QED BY <1>2, <1>7, <2>2, <2>3, <3>1
  <2>5. PICK w \in Nat : w = m * eu
    OBVIOUS
  <2>6. d * eh = (w * eh) * divisor + r
    <3>1. dividend * (el * (eu * eh)) = (dividend * (el * eu)) * eh
      OBVIOUS
    <3>2. (m * (eu * eh)) * divisor = ((m * eu) * eh) * divisor
      OBVIOUS
    <3>. QED BY <1>4, <1>9, <2>4, <2>5, <3>1, <3>2
  <2>7. w * divisor <= d /\ d < (w + 1) * divisor
    BY <2>6, CutOffEarlier
  <2>. QED BY <2>5, <2>7
<1>. QED BY <1>11, <1>12

LEMMA DivideIs ==
    ASSUME NEW a, NEW b, Shaped(a), Shaped(b), b # Zero, NEW neg \in BOOLEAN
    PROVE  LET x == Signed(neg, DividePositive(a, b)) IN
           /\ Shaped(x) /\ (x # Zero => x.neg = neg)
           /\ Truncates(x, Magnitude(a, Places(a, b)), Magnitude(b, Places(a, b)))
<1>1. PICK n \in Nat, q \in Seq(0..9), divisor \in Nat \ {0} :
         /\ divisor = Magnitude(b, Places(a, b))
         /\ DividePositive(a, b) = Pointed(FALSE, q, n)
         /\ \E r \in 0..(divisor - 1) :
              /\ Magnitude(a, Places(a, b)) * PowerOfTen[n] = ValueOf(q) * divisor + r
              /\ r = 0 \/ Len(DropLeading(q)) >= SignificantDigits
  BY DividePositiveIs
<1>2. PICK dividend \in Nat : dividend = Magnitude(a, Places(a, b))
  <2>1. PICK p \in Nat : p = Places(a, b) /\ Len(a.frac) <= p
    BY PlacesAre
  <2>2. Magnitude(a, p) \in Nat
    BY <2>1, NegativeIsNotZero
  <2>. QED BY <2>1, <2>2
<1>3. PICK r \in 0..(divisor - 1) :
         /\ dividend * PowerOfTen[n] = ValueOf(q) * divisor + r
         /\ r = 0 \/ Len(DropLeading(q)) >= SignificantDigits
  BY <1>1, <1>2
<1>4. PICK y : /\ y = DividePositive(a, b) /\ Shaped(y) /\ Len(y.frac) <= n
               /\ Magnitude(y, n) = ValueOf(q)
  <2>1. FALSE \in BOOLEAN
    OBVIOUS
  <2>2. /\ Shaped(Pointed(FALSE, q, n)) /\ Len(Pointed(FALSE, q, n).frac) <= n
        /\ n <= n => Magnitude(Pointed(FALSE, q, n), n) = ValueOf(q) * PowerOfTen[n - n]
    BY <2>1, PointedIs
  <2>3. n <= n /\ n - n = 0
    OBVIOUS
  <2>4. PICK v \in Nat : v = ValueOf(q)
    BY ValueFits
  <2>5. v * 1 = v
    OBVIOUS
  <2>6. Magnitude(Pointed(FALSE, q, n), n) = ValueOf(q)
    BY <2>2, <2>3, <2>4, <2>5, PowerOfTenIs
  <2>. QED BY <1>1, <2>2, <2>6
<1>5. PICK x : /\ x = Signed(neg, y) /\ Shaped(x) /\ Len(x.frac) <= n
               /\ Magnitude(x, n) = ValueOf(q) /\ (x # Zero => x.neg = neg)
  BY <1>4, SignedIs
<1>6. Truncates(x, dividend, divisor)
  BY <1>3, <1>5, QuotientTruncates
<1>. QED BY <1>1, <1>2, <1>4, <1>5, <1>6

-----------------------------------------------------------------------------
(* Remainders of integers.                                                 *)

LEMMA IntegerIs ==
    ASSUME NEW a, Shaped(a), a.frac = <<>>
    PROVE  /\ a.int \in Seq(0..9) /\ Len(a.frac) = 0
           /\ Magnitude(a, 0) \in Nat /\ Magnitude(a, 0) = ValueOf(a.int)
<1>1. PICK neg \in BOOLEAN, i \in Seq(0..9), f \in Seq(0..9) :
         neg = a.neg /\ i = a.int /\ f = a.frac /\ a = Canonical(neg, i, f)
  BY ShapedIsCanonical
<1>2. PICK z \in Nat : z = 0 /\ Len(f) = z /\ Len(f) <= z /\ z - Len(f) = 0
  <2>1. f = <<>>
    BY <1>1
  <2>2. Len(f) = 0 /\ 0 - 0 = 0 /\ 0 <= 0 /\ 0 \in Nat
    BY <2>1
  <2>. QED BY <2>2
<1>3. Magnitude(Canonical(neg, i, f), z)
        = ValueOf(i) * PowerOfTen[z] + ValueOf(f) * PowerOfTen[z - Len(f)]
  <2>1. Len(f) <= z
    BY <1>2
  <2>. QED BY <2>1, MagnitudeOfCanonical
<1>4. ValueOf(f) = 0
  <2>1. \A k \in 1..Len(f) : f[k] = 0
    BY <1>2
  <2>. QED BY <2>1, ValueOfZeros
<1>5. PICK v \in Nat : v = ValueOf(i)
  BY ValueFits
<1>6. v * 1 + 0 * 1 = v
  OBVIOUS
<1>7. Magnitude(a, 0) = v
  BY <1>1, <1>2, <1>3, <1>4, <1>5, <1>6, PowerOfTenIs
<1>. QED BY <1>1, <1>2, <1>5, <1>7

LEMMA ModuloPositiveIs ==
    ASSUME NEW a, NEW b, Shaped(a), Shaped(b), a.frac = <<>>, b.frac = <<>>, b # Zero
    PROVE  \E v \in Nat, w \in Nat \ {0}, c \in Nat : \E r \in 0..(w - 1) :
              /\ v = Magnitude(a, 0) /\ w = Magnitude(b, 0) /\ v = c * w + r
              /\ Shaped(ModuloPositive(a, b)) /\ Len(ModuloPositive(a, b).frac) = 0
              /\ Magnitude(ModuloPositive(a, b), 0) = r
<1>1. PICK i \in Seq(0..9), v \in Nat :
         i = a.int /\ Len(a.frac) = 0 /\ v = Magnitude(a, 0) /\ v = ValueOf(i)
  BY IntegerIs
<1>2. PICK w \in Nat \ {0} : w = Magnitude(b, 0) /\ w = ValueOf(b.int) /\ Len(b.frac) = 0
  <2>1. Len(b.frac) = 0 /\ Magnitude(b, 0) = ValueOf(b.int)
    BY IntegerIs
  <2>2. 0 \in Nat /\ Len(b.frac) <= 0
    BY <2>1
  <2>3. Magnitude(b, 0) \in Nat /\ Magnitude(b, 0) # 0
    BY <2>2, NegativeIsNotZero
  <2>. QED BY <2>1, <2>3
<1>3. PICK counts \in Seq(0..9), r \in 0..(w - 1) :
         counts = Counts(i, w) /\ v = ValueOf(counts) * w + r
  <2>1. /\ Counts(i, w) \in Seq(0..9)
        /\ Remainders(i, w)[Len(i)] \in 0..(w - 1)
        /\ ValueOf(i) = ValueOf(Counts(i, w)) * w + Remainders(i, w)[Len(i)]
    BY CountsAre
  <2>. QED BY <1>1, <2>1
<1>4. PICK c \in Nat : c = ValueOf(counts)
  BY ValueFits
<1>5. PICK q : q = Canonical(FALSE, counts, <<>>)
  OBVIOUS
<1>6. Shaped(q) /\ Len(q.frac) = 0 /\ Magnitude(q, 0) = c
  <2>1. FALSE \in BOOLEAN /\ <<>> \in Seq(0..9) /\ Len(<<>>) = 0 /\ 0 \in Nat /\ Len(<<>>) <= 0
    OBVIOUS
  <2>2. Shaped(q) /\ Len(q.frac) <= Len(<<>>) /\ ValueOf(q.int) = ValueOf(counts)
    <3>1. /\ Shaped(Canonical(FALSE, counts, <<>>)) /\ Len(Canonical(FALSE, counts, <<>>).frac) <= Len(<<>>)
          /\ ValueOf(Canonical(FALSE, counts, <<>>).int) = ValueOf(counts)
      BY <2>1, CanonicalIs
    <3>. QED BY <1>5, <3>1
  <2>3. q.frac \in Seq(0..9)
    BY <2>2, ShapedIsCanonical
  <2>4. Len(q.frac) = 0 /\ q.frac = <<>>
    <3>1. Len(q.frac) \in Nat
      BY <2>3
    <3>2. Len(q.frac) = 0
      BY <2>1, <2>2, <3>1
    <3>. QED BY <2>3, <3>2, EmptySeq
  <2>5. Magnitude(q, 0) = ValueOf(q.int)
    BY <2>2, <2>4, IntegerIs
  <2>. QED BY <1>4, <2>2, <2>4, <2>5
<1>7. PICK m : m = MultiplyPositive(b, q)
  OBVIOUS
<1>8. Shaped(m) /\ Len(m.frac) = 0 /\ Magnitude(m, 0) = w * c
  <2>1. /\ Shaped(MultiplyPositive(b, q))
        /\ Len(MultiplyPositive(b, q).frac) <= Len(b.frac) + Len(q.frac)
        /\ Magnitude(MultiplyPositive(b, q), Len(b.frac) + Len(q.frac))
             = Magnitude(b, Len(b.frac)) * Magnitude(q, Len(q.frac))
    BY <1>6, MultiplyPositiveIs
  <2>2. Len(b.frac) + Len(q.frac) = 0
    BY <1>2, <1>6
  <2>3. Shaped(m) /\ Len(m.frac) <= 0 /\ Magnitude(m, 0) = w * c
    BY <1>2, <1>6, <1>7, <2>1, <2>2
  <2>4. m.frac \in Seq(0..9)
    BY <2>3, ShapedIsCanonical
  <2>5. Len(m.frac) \in Nat
    BY <2>4
  <2>. QED BY <2>3, <2>5
<1>9. Places(a, m) = 0
  BY <1>1, <1>8 DEF Places
<1>10. v = w * c + r /\ w * c \in Nat
  <2>1. w * c = c * w /\ w * c \in Nat
    OBVIOUS
  <2>. QED BY <1>3, <1>4, <2>1
<1>11. Magnitude(m, Places(a, m)) <= Magnitude(a, Places(a, m))
  BY <1>1, <1>8, <1>9, <1>10
<1>12. PICK s : s = SubtractPositive(a, m)
  OBVIOUS
<1>13. Shaped(s) /\ Len(s.frac) <= 0 /\ Magnitude(s, 0) = v - w * c
  <2>1. /\ Shaped(SubtractPositive(a, m)) /\ Len(SubtractPositive(a, m).frac) <= Places(a, m)
        /\ Magnitude(SubtractPositive(a, m), Places(a, m))
             = Magnitude(a, Places(a, m)) - Magnitude(m, Places(a, m))
    BY <1>8, <1>11, SubtractPositiveIs
  <2>. QED BY <1>1, <1>8, <1>9, <1>12, <2>1
<1>14. Len(s.frac) = 0
  <2>1. s.frac \in Seq(0..9)
    BY <1>13, ShapedIsCanonical
  <2>2. Len(s.frac) \in Nat
    BY <2>1
  <2>. QED BY <1>13, <2>2
<1>15. Magnitude(s, 0) = r
  BY <1>10, <1>13
<1>16. s = ModuloPositive(a, b)
  BY <1>1, <1>2, <1>3, <1>5, <1>7, <1>12 DEF ModuloPositive
<1>17. v = c * w + r
  BY <1>3, <1>4
<1>. QED BY <1>1, <1>2, <1>13, <1>14, <1>15, <1>16, <1>17

LEMMA NegatedProduct ==
    ASSUME NEW v \in Nat, NEW w \in Nat \ {0}, NEW c \in Nat, NEW r \in 0..(w - 1), v = c * w + r,
           NEW neg \in BOOLEAN, NEW bNeg \in BOOLEAN
    PROVE  LET sa == Negated(neg, v)  sb == Negated(bNeg, w) IN
           sa = sb * TruncatedQuotient(sa, sb) + Negated(neg, r)
<1>1. v \div w = c
  <2>1. c \in Int
    OBVIOUS
  <2>. QED BY <2>1, DivIs
<1>2. PICK sa \in Int, sb \in Int : sa = Negated(neg, v) /\ sb = Negated(bNeg, w)
  <2>1. Negated(neg, v) \in Int /\ Negated(bNeg, w) \in Int
    BY DEF Negated
  <2>. QED BY <2>1
<1>3. Size(sa) = v /\ Size(sb) = w
  BY <1>2 DEF Size, Negated
<1>4. PICK x \in Nat : x = w * c /\ v = x + r
  <2>1. w * c \in Nat /\ w * c = c * w
    OBVIOUS
  <2>. QED BY <2>1
<1>5. sb * (SignOf(sa) * SignOf(sb) * c) = SignOf(sa) * x
  <2>1. PICK f \in {-1, 0, 1}, g \in {-1, 1} : f = SignOf(sa) /\ g = SignOf(sb) /\ sb = g * w
    <3>1. SignOf(sa) \in {-1, 0, 1}
      BY DEF SignOf
    <3>2. SignOf(sb) \in {-1, 1} /\ sb = SignOf(sb) * w
      BY <1>2 DEF SignOf, Negated
    <3>. QED BY <3>1, <3>2
  <2>2. f \in Int /\ g \in Int /\ g * g = 1
    BY <2>1
  <2>3. (g * w) * (f * g * c) = f * ((g * g) * (w * c))
    BY <2>2
  <2>4. f * (1 * x) = f * x
    BY <2>2
  <2>. QED BY <1>4, <2>1, <2>2, <2>3, <2>4
<1>6. sa = SignOf(sa) * x + Negated(neg, r)
  <2>1. CASE v = 0
    <3>1. x = 0 /\ r = 0 /\ sa = 0
      BY <1>2, <1>4, <2>1 DEF Negated
    <3>. QED BY <3>1 DEF SignOf, Negated
  <2>2. CASE v # 0 /\ neg
    <3>1. sa = 0 - v /\ sa < 0
      BY <1>2, <2>2 DEF Negated
    <3>2. SignOf(sa) = -1 /\ Negated(neg, r) = 0 - r
      BY <2>2, <3>1 DEF SignOf, Negated
    <3>. QED BY <1>4, <3>1, <3>2
  <2>3. CASE v # 0 /\ ~neg
    <3>1. sa = v /\ sa > 0
      BY <1>2, <2>3 DEF Negated
    <3>2. SignOf(sa) = 1 /\ Negated(neg, r) = r
      BY <2>3, <3>1 DEF SignOf, Negated
    <3>. QED BY <1>4, <3>1, <3>2
  <2>. QED BY <2>1, <2>2, <2>3
<1>7. TruncatedQuotient(sa, sb) = SignOf(sa) * SignOf(sb) * c
  BY <1>1, <1>3 DEF TruncatedQuotient
<1>. QED BY <1>2, <1>5, <1>6, <1>7

-----------------------------------------------------------------------------
(* perform_arithmetic().                                                   *)

\* What the properties say of an operation, its operands and its result.
NotANumber(a, b, op) ==
    \/ a = NaN \/ b = NaN
    \/ op \in {"/", "%"} /\ b = Zero
    \/ op = "%" /\ a.frac \o b.frac # <<>>

Exact(a, b, r, op) ==
    /\ Proper(r)
    /\ r = NaN <=> NotANumber(a, b, op)
    /\ r # NaN => ResultIs(a, b, r, op)
    /\ op = "/" /\ r # NaN =>
         /\ Truncates(r, Magnitude(a, Places(a, b)), Magnitude(b, Places(a, b)))
         /\ r # Zero => (r.neg <=> a.neg # b.neg)

LEMMA FractionsOf ==
    ASSUME NEW a, NEW b, Shaped(a), Shaped(b)
    PROVE  /\ a.neg \in BOOLEAN /\ b.neg \in BOOLEAN
           /\ a.frac \o b.frac = <<>> <=> a.frac = <<>> /\ b.frac = <<>>
<1>1. PICK f \in Seq(0..9), g \in Seq(0..9) : f = a.frac /\ g = b.frac
  BY ShapedIsCanonical
<1>2. f \o g \in Seq(0..9) /\ Len(f \o g) = Len(f) + Len(g)
  BY ConcatProperties, Zenon
<1>3. PICK m \in Nat, n \in Nat : m = Len(f) /\ n = Len(g)
  OBVIOUS
<1>4. f = <<>> <=> m = 0
  BY <1>3, EmptySeq
<1>5. g = <<>> <=> n = 0
  BY <1>3, EmptySeq
<1>6. f \o g = <<>> <=> m + n = 0
  <2>1. PICK s \in Seq(0..9) : s = f \o g /\ Len(s) = m + n
    BY <1>2, <1>3
  <2>2. s = <<>> <=> Len(s) = 0
    BY EmptySeq
  <2>. QED BY <2>1, <2>2
<1>7. m + n = 0 <=> m = 0 /\ n = 0
  OBVIOUS
<1>8. a.neg \in BOOLEAN /\ b.neg \in BOOLEAN
  BY ShapedIsCanonical
<1>. QED BY <1>1, <1>4, <1>5, <1>6, <1>7, <1>8

LEMMA SumIsExact ==
    ASSUME NEW a, NEW b, Shaped(a), Shaped(b), NEW op \in {"+", "-"}
    PROVE  Exact(a, b, Arithmetic(a, b, op), op)
<1>1. a # NaN /\ b # NaN /\ a.neg \in BOOLEAN /\ b.neg \in BOOLEAN
  BY ShapedIsCanonical
<1>2. PICK bNeg \in BOOLEAN : bNeg = IF op = "+" THEN b.neg ELSE ~b.neg
  BY <1>1
<1>3. PICK r : r = Arithmetic(a, b, op) /\ r = AddSigned(a, b, bNeg)
  <2>1. CASE op = "+"
    BY <1>1, <1>2, <2>1 DEF Arithmetic
  <2>2. CASE op = "-"
    BY <1>1, <1>2, <2>2 DEF Arithmetic
  <2>. QED BY <2>1, <2>2
<1>4. PICK p \in Nat : p = Places(a, b) /\ Len(a.frac) <= p /\ Len(b.frac) <= p
  BY PlacesAre
<1>5. Shaped(r) /\ Scaled(r, p) = Scaled(a, p) + Negated(bNeg, Magnitude(b, p))
  BY <1>3, <1>4, AddSignedIs
<1>6. r # NaN
  BY <1>5, ShapedIsCanonical
<1>7. PICK m \in Nat, sa \in Int : m = Magnitude(b, p) /\ sa = Scaled(a, p)
  <2>1. Magnitude(b, p) \in Nat /\ Magnitude(a, p) \in Nat
    BY <1>4, NegativeIsNotZero
  <2>2. Scaled(a, p) \in Int
    BY <2>1, ScaledIs DEF Negated
  <2>. QED BY <2>1, <2>2
<1>8. Scaled(b, p) = Negated(b.neg, m)
  BY <1>7, ScaledIs
<1>9. ResultIs(a, b, r, op)
  <2>1. CASE op = "+"
    <3>1. Scaled(r, p) = Scaled(a, p) + Scaled(b, p)
      BY <1>2, <1>5, <1>7, <1>8, <2>1
    <3>. QED BY <1>4, <2>1, <3>1 DEF ResultIs
  <2>2. CASE op = "-"
    <3>1. sa + Negated(~b.neg, m) = sa - Negated(b.neg, m)
      BY <1>1 DEF Negated
    <3>2. Scaled(r, p) = Scaled(a, p) - Scaled(b, p)
      BY <1>2, <1>5, <1>7, <1>8, <2>2, <3>1
    <3>. QED BY <1>4, <2>2, <3>2 DEF ResultIs
  <2>. QED BY <2>1, <2>2
<1>10. ~NotANumber(a, b, op) /\ op # "/"
  BY <1>1 DEF NotANumber
<1>. QED BY <1>3, <1>5, <1>6, <1>9, <1>10 DEF Exact, Proper

LEMMA ProductIsExact ==
    ASSUME NEW a, NEW b, Shaped(a), Shaped(b)
    PROVE  Exact(a, b, Arithmetic(a, b, "*"), "*")
<1>1. a # NaN /\ b # NaN /\ a.neg \in BOOLEAN /\ b.neg \in BOOLEAN
  BY ShapedIsCanonical
<1>2. PICK neg \in BOOLEAN : neg = (a.neg # b.neg)
  OBVIOUS
<1>3. PICK m \in Nat, n \in Nat, p \in Nat : m = Len(a.frac) /\ n = Len(b.frac) /\ p = Len(a.frac) + Len(b.frac)
  <2>1. Len(a.frac) \in Nat /\ Len(b.frac) \in Nat
    BY DigitsOfNumber
  <2>2. PICK m \in Nat, n \in Nat : m = Len(a.frac) /\ n = Len(b.frac)
    BY <2>1
  <2>3. m + n = Len(a.frac) + Len(b.frac)
    BY <2>2, Zenon
  <2>4. m + n \in Nat
    OBVIOUS
  <2>. QED BY <2>2, <2>3, <2>4
<1>4. PICK y : /\ y = MultiplyPositive(a, b) /\ Shaped(y) /\ Len(y.frac) <= p
               /\ Magnitude(y, p) = Magnitude(a, m) * Magnitude(b, n)
  BY <1>3, MultiplyPositiveIs
<1>5. PICK r : r = Signed(neg, y) /\ r = Arithmetic(a, b, "*")
  BY <1>1, <1>2, <1>4 DEF Arithmetic
<1>6. Shaped(r) /\ Scaled(r, p) = Negated(neg, Magnitude(a, m) * Magnitude(b, n))
  BY <1>4, <1>5, SignedIs
<1>7. PICK v \in Nat, w \in Nat : v = Magnitude(a, m) /\ w = Magnitude(b, n)
  <2>1. m <= m /\ n <= n
    OBVIOUS
  <2>2. Magnitude(a, m) \in Nat
    BY <1>3, <2>1, NegativeIsNotZero
  <2>3. Magnitude(b, n) \in Nat
    BY <1>3, <2>1, NegativeIsNotZero
  <2>. QED BY <2>2, <2>3
<1>8. Negated(neg, v * w) = Negated(a.neg, v) * Negated(b.neg, w)
  <2>1. CASE a.neg /\ b.neg
    <3>1. v * w = (0 - v) * (0 - w)
      OBVIOUS
    <3>. QED BY <1>2, <2>1, <3>1 DEF Negated
  <2>2. CASE a.neg /\ ~b.neg
    <3>1. 0 - v * w = (0 - v) * w
      OBVIOUS
    <3>. QED BY <1>2, <2>2, <3>1 DEF Negated
  <2>3. CASE ~a.neg /\ b.neg
    <3>1. 0 - v * w = v * (0 - w)
      OBVIOUS
    <3>. QED BY <1>2, <2>3, <3>1 DEF Negated
  <2>4. CASE ~a.neg /\ ~b.neg
    <3>1. ~neg
      BY <1>1, <1>2, <2>4
    <3>. QED BY <2>4, <3>1 DEF Negated
  <2>. QED BY <1>1, <2>1, <2>2, <2>3, <2>4
<1>9. Scaled(r, p) = Scaled(a, m) * Scaled(b, n)
  <2>1. Scaled(a, m) = Negated(a.neg, v) /\ Scaled(b, n) = Negated(b.neg, w)
    BY <1>7, ScaledIs
  <2>. QED BY <1>6, <1>7, <1>8, <2>1
<1>10. ResultIs(a, b, r, "*")
  BY <1>3, <1>9 DEF ResultIs
<1>11. ~NotANumber(a, b, "*") /\ r # NaN
  BY <1>1, <1>6, ShapedIsCanonical DEF NotANumber
<1>. QED BY <1>5, <1>6, <1>10, <1>11 DEF Exact, Proper

LEMMA QuotientIsExact ==
    ASSUME NEW a, NEW b, Shaped(a), Shaped(b)
    PROVE  Exact(a, b, Arithmetic(a, b, "/"), "/")
<1>1. a # NaN /\ b # NaN /\ a.neg \in BOOLEAN /\ b.neg \in BOOLEAN
  BY ShapedIsCanonical
<1>2. CASE b = Zero
  <2>1. Arithmetic(a, b, "/") = NaN
    BY <1>1, <1>2 DEF Arithmetic
  <2>2. NotANumber(a, b, "/")
    BY <1>2 DEF NotANumber
  <2>. QED BY <2>1, <2>2 DEF Exact, Proper
<1>3. CASE b # Zero
  <2>1. PICK neg \in BOOLEAN : neg = (a.neg # b.neg)
    OBVIOUS
  <2>2. PICK r : r = Signed(neg, DividePositive(a, b)) /\ r = Arithmetic(a, b, "/")
    BY <1>1, <1>3, <2>1 DEF Arithmetic
  <2>3. /\ Shaped(r) /\ (r # Zero => r.neg = neg)
        /\ Truncates(r, Magnitude(a, Places(a, b)), Magnitude(b, Places(a, b)))
    BY <1>3, <2>2, DivideIs
  <2>4. r # NaN
    BY <2>3, ShapedIsCanonical
  <2>5. ~NotANumber(a, b, "/")
    BY <1>1, <1>3 DEF NotANumber
  <2>6. ResultIs(a, b, r, "/")
    BY DEF ResultIs
  <2>7. r # Zero => (r.neg <=> a.neg # b.neg)
    BY <2>1, <2>3
  <2>. QED BY <2>2, <2>3, <2>4, <2>5, <2>6, <2>7 DEF Exact, Proper
<1>. QED BY <1>2, <1>3

LEMMA RemainderIsExact ==
    ASSUME NEW a, NEW b, Shaped(a), Shaped(b)
    PROVE  Exact(a, b, Arithmetic(a, b, "%"), "%")
<1>1. a # NaN /\ b # NaN /\ a.neg \in BOOLEAN /\ b.neg \in BOOLEAN
  BY ShapedIsCanonical
<1>2. a.frac \o b.frac = <<>> <=> a.frac = <<>> /\ b.frac = <<>>
  BY FractionsOf
<1>3. CASE b = Zero \/ a.frac # <<>> \/ b.frac # <<>>
  <2>1. Arithmetic(a, b, "%") = NaN
    BY <1>1, <1>3 DEF Arithmetic
  <2>2. NotANumber(a, b, "%")
    BY <1>2, <1>3 DEF NotANumber
  <2>. QED BY <2>1, <2>2 DEF Exact, Proper
<1>4. CASE b # Zero /\ a.frac = <<>> /\ b.frac = <<>>
  <2>1. PICK y : y = ModuloPositive(a, b)
    OBVIOUS
  <2>2. PICK v \in Nat, w \in Nat \ {0}, c \in Nat : \E r \in 0..(w - 1) :
              /\ v = Magnitude(a, 0) /\ w = Magnitude(b, 0) /\ v = c * w + r
              /\ Shaped(y) /\ Len(y.frac) = 0 /\ Magnitude(y, 0) = r
    <3>1. \E v \in Nat, w \in Nat \ {0}, c \in Nat : \E r \in 0..(w - 1) :
              /\ v = Magnitude(a, 0) /\ w = Magnitude(b, 0) /\ v = c * w + r
              /\ Shaped(ModuloPositive(a, b)) /\ Len(ModuloPositive(a, b).frac) = 0
              /\ Magnitude(ModuloPositive(a, b), 0) = r
      BY <1>4, ModuloPositiveIs
    <3>. QED BY <2>1, <3>1
  <2>3. PICK left \in 0..(w - 1) :
              /\ v = Magnitude(a, 0) /\ w = Magnitude(b, 0) /\ v = c * w + left
              /\ Shaped(y) /\ Len(y.frac) = 0 /\ Magnitude(y, 0) = left
    BY <2>2
  <2>4. PICK r : r = Signed(a.neg, y) /\ r = Arithmetic(a, b, "%")
    BY <1>1, <1>4, <2>1 DEF Arithmetic, Modulo
  <2>5. Shaped(r) /\ Scaled(r, 0) = Negated(a.neg, left)
    <3>1. 0 \in Nat /\ Len(y.frac) <= 0
      BY <2>3
    <3>2. Shaped(Signed(a.neg, y)) /\ Scaled(Signed(a.neg, y), 0) = Negated(a.neg, Magnitude(y, 0))
      BY <1>1, <2>3, <3>1, SignedIs
    <3>. QED BY <2>3, <2>4, <3>2
  <2>6. Places(a, b) = 0
    <3>1. Len(a.frac) = 0 /\ Len(b.frac) = 0
      BY <1>4, IntegerIs
    <3>. QED BY <3>1 DEF Places
  <2>7. Scaled(a, 0) = Negated(a.neg, v) /\ Scaled(b, 0) = Negated(b.neg, w)
    BY <2>3, ScaledIs
  <2>8. Negated(a.neg, v)
          = Negated(b.neg, w) * TruncatedQuotient(Negated(a.neg, v), Negated(b.neg, w)) + Negated(a.neg, left)
    <3>1. a.neg \in BOOLEAN /\ b.neg \in BOOLEAN /\ v = c * w + left
      BY <1>1, <2>3
    <3>. QED BY <3>1, NegatedProduct
  <2>9. ResultIs(a, b, r, "%")
    BY <2>5, <2>6, <2>7, <2>8 DEF ResultIs
  <2>10. r # NaN
    BY <2>5, ShapedIsCanonical
  <2>11. ~NotANumber(a, b, "%")
    BY <1>1, <1>2, <1>4 DEF NotANumber
  <2>. QED BY <2>4, <2>5, <2>9, <2>10, <2>11 DEF Exact, Proper
<1>. QED BY <1>3, <1>4

LEMMA OperationsAreExact ==
    ASSUME NEW a, NEW b, Proper(a), Proper(b), NEW op \in Operations
    PROVE  Exact(a, b, Arithmetic(a, b, op), op)
<1>1. CASE a = NaN \/ b = NaN
  <2>1. Arithmetic(a, b, op) = NaN /\ NotANumber(a, b, op)
    BY <1>1 DEF Arithmetic, NotANumber
  <2>. QED BY <2>1 DEF Exact, Proper
<1>2. CASE a # NaN /\ b # NaN
  <2>1. Shaped(a) /\ Shaped(b)
    BY <1>2 DEF Proper
  <2>2. CASE op \in {"+", "-"}
    BY <2>1, <2>2, SumIsExact
  <2>3. CASE op = "*"
    BY <2>1, <2>3, ProductIsExact
  <2>4. CASE op = "/"
    BY <2>1, <2>4, QuotientIsExact
  <2>5. CASE op = "%"
    BY <2>1, <2>5, RemainderIsExact
  <2>. QED BY <2>2, <2>3, <2>4, <2>5 DEF Operations
<1>. QED BY <1>1, <1>2

-----------------------------------------------------------------------------
(* canonical_text().                                                       *)

LEMMA DigitsWithin ==
    ASSUME NEW s, NEW from \in Int, NEW to \in Int, \A i \in from..to : IsDigit(s[i])
    PROVE  CharDigits(SubSeq(s, from, to)) \in Seq(0..9)
<1>. DEFINE S == {s[i] : i \in from..to}
<1>1. \A i \in from..to : s[i] \in S
  OBVIOUS
<1>2. /\ SubSeq(s, from, to) \in Seq(S)
      /\ \A i \in 1..(to - from + 1) : SubSeq(s, from, to)[i] = s[from + i - 1]
      /\ Len(SubSeq(s, from, to)) = IF from <= to THEN to - from + 1 ELSE 0
  <2>. HIDE DEF S
  <2>. QED BY <1>1, SubSeqProperties
<1>. HIDE DEF S
<1>3. PICK t \in Seq(S), n \in Nat : t = SubSeq(s, from, to) /\ n = Len(t)
  <2>1. PICK t \in Seq(S) : t = SubSeq(s, from, to)
    BY <1>2, Zenon
  <2>2. Len(t) \in Nat
    OBVIOUS
  <2>. QED BY <2>1, <2>2, Zenon
<1>4. ASSUME NEW i \in 1..n PROVE DigitOf(t[i]) \in 0..9
  <2>1. n = to - from + 1
    BY <1>2, <1>3
  <2>2. t[i] = s[from + i - 1] /\ from + i - 1 \in from..to
    BY <1>2, <1>3, <2>1
  <2>3. PICK c : c = t[i] /\ IsDigit(c)
    BY <2>2
  <2>4. DOMAIN DigitChars = 1..10
    BY DEF DigitChars
  <2>5. (CHOOSE k \in DOMAIN DigitChars : DigitChars[k] = c) \in DOMAIN DigitChars
    BY <2>3 DEF IsDigit
  <2>6. PICK k \in 1..10 : k = CHOOSE h \in DOMAIN DigitChars : DigitChars[h] = c
    BY <2>4, <2>5
  <2>. QED BY <2>3, <2>6 DEF DigitOf
<1>5. CharDigits(t) = [i \in 1..n |-> DigitOf(t[i])]
  BY <1>3 DEF CharDigits
<1>6. CharDigits(t) \in [1..n -> 0..9]
  BY <1>4, <1>5
<1>7. CharDigits(t) \in Seq(0..9)
  BY <1>6, SeqDef
<1>. QED BY <1>3, <1>7

\* A mantissa has digits before and after its one point.
LEMMA MantissaIs ==
    ASSUME NEW S, NEW m \in Seq(S), IsMantissa(m)
    PROVE  WholeLength(m) \in Nat /\ WholeDigits(m) \in Seq(0..9) /\ PartDigits(m) \in Seq(0..9)
<1>1. PICK n \in Nat : n = Len(m) /\ DOMAIN m = 1..n
  OBVIOUS
<1>2. /\ \A i \in 1..n : m[i] = "." \/ IsDigit(m[i])
      /\ \A i, j \in PointsIn(m) : i = j
      /\ PointsIn(m) = {i \in 1..n : m[i] = "."}
  BY <1>1 DEF IsMantissa, PointsIn
<1>3. PICK l \in Nat : /\ l = WholeLength(m)
                       /\ \A i \in 1..l : IsDigit(m[i])
                       /\ \A i \in (l + 2)..n : IsDigit(m[i])
  <2>1. CASE PointsIn(m) = {}
    <3>1. WholeLength(m) = n
      BY <1>1, <2>1 DEF WholeLength
    <3>2. \A i \in 1..n : IsDigit(m[i])
      BY <1>2, <2>1
    <3>3. \A i \in (n + 2)..n : IsDigit(m[i])
      OBVIOUS
    <3>. QED BY <3>1, <3>2, <3>3
  <2>2. CASE PointsIn(m) # {}
    <3>1. PICK p : p = CHOOSE i \in PointsIn(m) : TRUE
      OBVIOUS
    <3>2. p \in PointsIn(m)
      BY <2>2, <3>1
    <3>3. p \in 1..n
      BY <1>2, <3>2
    <3>4. PICK l \in Nat : l = p - 1 /\ p = l + 1
      <4>1. p - 1 \in Nat /\ p = (p - 1) + 1
        BY <3>3
      <4>. QED BY <4>1
    <3>5. l = WholeLength(m)
      BY <2>2, <3>1, <3>4 DEF WholeLength
    <3>6. \A i \in 1..n : i # p => IsDigit(m[i])
      <4>. SUFFICES ASSUME NEW i \in 1..n, i # p PROVE IsDigit(m[i])
        OBVIOUS
      <4>1. i \notin PointsIn(m)
        BY <1>2, <3>2
      <4>. QED BY <1>2, <4>1
    <3>7. \A i \in 1..l : i \in 1..n /\ i # p
      BY <3>3, <3>4
    <3>8. \A i \in (l + 2)..n : i \in 1..n /\ i # p
      BY <3>3, <3>4
    <3>. QED BY <3>5, <3>6, <3>7, <3>8
  <2>. QED BY <2>1, <2>2
<1>4. CharDigits(SubSeq(m, 1, l)) \in Seq(0..9)
  <2>1. 1 \in Int /\ l \in Int
    OBVIOUS
  <2>. QED BY <1>3, <2>1, DigitsWithin
<1>5. CharDigits(SubSeq(m, l + 2, n)) \in Seq(0..9)
  <2>1. l + 2 \in Int /\ n \in Int
    OBVIOUS
  <2>. QED BY <1>3, <2>1, DigitsWithin
<1>. QED BY <1>1, <1>3, <1>4, <1>5 DEF WholeDigits, PartDigits

LEMMA MovedIsShaped ==
    ASSUME NEW neg \in BOOLEAN, NEW digits \in Seq(0..9), NEW n \in Int
    PROVE  Shaped(Moved(neg, digits, n))
<1>1. CASE n <= 0
  <2>1. 0 - n \in Int
    OBVIOUS
  <2>2. PICK z \in Seq(0..9) : z = Zeros(0 - n)
    BY <2>1, ZerosAre
  <2>3. <<0>> \in Seq(0..9) /\ z \o digits \in Seq(0..9)
    OBVIOUS
  <2>4. Shaped(Canonical(neg, <<0>>, z \o digits))
    BY <2>3, CanonicalIs
  <2>. QED BY <1>1, <2>2, <2>4 DEF Moved
<1>2. CASE ~(n <= 0)
  <2>1. n \in Nat
    BY <1>2
  <2>2. PICK padded \in Seq(0..9) : padded = PadRight(digits, n) /\ n \in 0..Len(padded)
    <3>1. /\ PadRight(digits, n) \in Seq(0..9)
          /\ Len(PadRight(digits, n)) = (IF Len(digits) > n THEN Len(digits) ELSE n)
      BY <2>1, PadRightIs
    <3>2. PICK l \in Nat : l = Len(digits)
      OBVIOUS
    <3>3. n \in 0..Len(PadRight(digits, n))
      BY <2>1, <3>1, <3>2
    <3>. QED BY <3>1, <3>3
  <2>3. SubSeq(padded, 1, n) \in Seq(0..9)
    BY <2>2, PartsAre
  <2>4. SubSeq(digits, n + 1, Len(digits)) \in Seq(0..9)
    <3>1. PICK l \in Nat : l = Len(digits)
      OBVIOUS
    <3>2. n + 1 \in Int /\ l \in Int /\ \A i \in (n + 1)..l : i \in 1..l
      BY <2>1
    <3>3. \A i \in (n + 1)..l : digits[i] \in 0..9
      BY <3>1, <3>2, ElementOfSeq
    <3>4. SubSeq(digits, n + 1, l) \in Seq(0..9)
      BY <3>2, <3>3, SubSeqProperties
    <3>. QED BY <3>1, <3>4
  <2>5. Shaped(Canonical(neg, SubSeq(padded, 1, n), SubSeq(digits, n + 1, Len(digits))))
    BY <2>3, <2>4, CanonicalIs
  <2>. QED BY <1>2, <2>2, <2>5 DEF Moved
<1>. QED BY <1>1, <1>2

LEMMA ExpandIsProper ==
    ASSUME NEW S, NEW m \in Seq(S), IsMantissa(m), NEW neg \in BOOLEAN, NEW shift \in Int
    PROVE  Proper(Expand(neg, m, shift))
<1>1. PICK l \in Nat, w \in Seq(0..9), p \in Seq(0..9) :
         l = WholeLength(m) /\ w = WholeDigits(m) /\ p = PartDigits(m)
  BY MantissaIs
<1>2. PICK all \in Seq(0..9) : all = w \o p
  BY ConcatProperties, Zenon
<1>3. PICK digits \in Seq(0..9) : digits = DropLeading(all)
  BY DropLeadingIs
<1>4. PICK n \in Int : n = l - (Len(all) - Len(digits)) + shift
  <2>1. PICK a \in Nat, b \in Nat : a = Len(all) /\ b = Len(digits)
    OBVIOUS
  <2>2. l - (a - b) + shift \in Int
    OBVIOUS
  <2>. QED BY <2>1, <2>2, Zenon
<1>5. Shaped(Moved(neg, digits, n))
  BY MovedIsShaped
<1>6. Expand(neg, m, shift) \in {Canonical(FALSE, <<0>>, <<>>), NaN, Moved(neg, digits, n)}
  <2>. DEFINE most == IF Len(all) > MaxExpanded THEN Len(all) ELSE MaxExpanded
  <2>1. Expand(neg, m, shift) = IF digits = <<>> THEN Canonical(FALSE, <<0>>, <<>>)
                                ELSE IF Expanded(Len(digits), n) > most THEN NaN
                                ELSE Moved(neg, digits, n)
    BY <1>1, <1>2, <1>3, <1>4 DEF Expand
  <2>. HIDE DEF most
  <2>. QED BY <2>1
<1>7. Shaped(Canonical(FALSE, <<0>>, <<>>))
  BY ZeroIs DEF Zero
<1>. QED BY <1>5, <1>6, <1>7 DEF Proper

\* Where the exponent begins, if anywhere.
LEMMA ExponentIs ==
    ASSUME NEW S, NEW s \in Seq(S)
    PROVE  ExponentAt(s) \in 0..Len(s)
<1>. DEFINE I == {i \in 1..Len(s) : IsExponentMark(s[i])}
<1>1. ExponentAt(s) = IF I # {} THEN Min(I) ELSE 0
  BY DEF ExponentAt, SelectInSeq
<1>2. CASE I = {}
  <2>1. 0 \in 0..Len(s)
    OBVIOUS
  <2>. QED BY <1>1, <1>2, <2>1
<1>3. CASE I # {}
  <2>1. I \subseteq Nat /\ I \subseteq 0..Len(s)
    OBVIOUS
  <2>. HIDE DEF I
  <2>2. \E x \in I : \A y \in I : x <= y
    BY <1>3, <2>1, LeastNumber
  <2>3. Min(I) \in I
    BY <2>2 DEF Min
  <2>. QED BY <1>1, <1>3, <2>1, <2>3
<1>. QED BY <1>2, <1>3

LEMMA TextIsProper ==
    ASSUME NEW S, NEW s \in Seq(S)
    PROVE  Proper(CanonicalText(s))
<1>. SUFFICES ASSUME IsNumber(s) PROVE Proper(CanonicalText(s))
  BY DEF CanonicalText, Proper
<1>1. PICK at \in Nat, n \in Nat : at = ExponentAt(s) /\ n = Len(s) /\ at <= n
  BY ExponentIs
<1>2. \A i \in 1..n : s[i] \in S
  BY <1>1, ElementOfSeq
<1>3. PICK m \in Seq(S) : m = Mantissa(s) /\ IsMantissa(m)
  <2>1. PICK sign \in {0, 1} : sign = SignLength(s)
    BY DEF SignLength
  <2>2. PICK to \in 0..n : to = IF at = 0 THEN n ELSE at - 1
    <3>1. CASE at = 0
      BY <3>1
    <3>2. CASE at # 0
      BY <1>1, <3>2
    <3>. QED BY <3>1, <3>2
  <2>3. sign + 1 \in Int /\ to \in Int /\ \A i \in (sign + 1)..to : i \in 1..n
    BY <2>1
  <2>4. SubSeq(s, sign + 1, to) \in Seq(S)
    BY <1>2, <2>3, SubSeqProperties
  <2>5. Mantissa(s) = SubSeq(s, sign + 1, to)
    BY <1>1, <2>1, <2>2 DEF Mantissa
  <2>6. IsMantissa(Mantissa(s))
    BY DEF IsNumber
  <2>. QED BY <2>4, <2>5, <2>6
<1>4. PICK neg \in BOOLEAN : neg = (s[1] = "-")
  OBVIOUS
<1>5. PICK w \in Seq(0..9), p \in Seq(0..9) : w = WholeDigits(m) /\ p = PartDigits(m)
  BY <1>3, MantissaIs
<1>6. CASE at = 0
  <2>1. CanonicalText(s) = Canonical(neg, w, p)
    BY <1>1, <1>3, <1>4, <1>5, <1>6 DEF CanonicalText
  <2>. QED BY <2>1, CanonicalIs DEF Proper
<1>7. CASE at # 0
  <2>1. PICK e : e = Exponent(s)
    OBVIOUS
  <2>2. e \in Seq(S)
    <3>1. at + 1 \in Int /\ n \in Int /\ \A i \in (at + 1)..n : i \in 1..n
      OBVIOUS
    <3>2. SubSeq(s, at + 1, n) \in Seq(S)
      BY <1>2, <3>1, SubSeqProperties
    <3>. QED BY <1>1, <1>7, <2>1, <3>2 DEF Exponent
  <2>3. CharDigits(Unsigned(e)) \in Seq(0..9)
    <3>1. PICK sign \in {0, 1} : sign = SignLength(e)
      BY DEF SignLength
    <3>2. PICK l \in Nat : l = Len(e)
      BY <2>2
    <3>3. PICK u : u = Unsigned(e) /\ u = SubSeq(e, sign + 1, l)
      BY <3>1, <3>2 DEF Unsigned
    <3>4. AllDigits(u)
      BY <1>1, <1>7, <2>1, <3>3 DEF IsNumber
    <3>5. sign + 1 \in Int /\ l \in Int /\ \A i \in (sign + 1)..l : i \in 1..l
      BY <3>1
    <3>6. \A i \in (sign + 1)..l : e[i] \in S
      BY <2>2, <3>2, <3>5, ElementOfSeq
    <3>7. /\ SubSeq(e, sign + 1, l) \in Seq(S)
          /\ Len(SubSeq(e, sign + 1, l)) = IF sign + 1 <= l THEN l - (sign + 1) + 1 ELSE 0
      BY <3>5, <3>6, SubSeqProperties
    <3>8. PICK k \in Nat : k = Len(u) /\ u \in Seq(S)
      <4>1. u \in Seq(S)
        BY <3>3, <3>7, Zenon
      <4>2. Len(u) \in Nat
        BY <4>1
      <4>. QED BY <4>1, <4>2, Zenon
    <3>9. \A i \in 1..k : IsDigit(u[i])
      <4>1. DOMAIN u = 1..k
        BY <3>8
      <4>. QED BY <3>4, <4>1 DEF AllDigits
    <3>10. SubSeq(u, 1, k) = u
      BY <3>8
    <3>11. CharDigits(SubSeq(u, 1, k)) \in Seq(0..9)
      <4>1. 1 \in Int /\ k \in Int
        OBVIOUS
      <4>. QED BY <3>9, <4>1, DigitsWithin
    <3>. QED BY <3>3, <3>10, <3>11
  <2>4. ShiftOf(e) \in Int
    <3>1. PICK v \in Nat : v = ValueOf(CharDigits(Unsigned(e)))
      BY <2>3, ValueFits
    <3>. QED BY <3>1 DEF ShiftOf
  <2>5. PICK shift \in Int : shift = ShiftOf(e)
    BY <2>4
  <2>6. Proper(Expand(neg, m, shift))
    BY <1>3, ExpandIsProper
  <2>7. CanonicalText(s) \in {Expand(neg, m, shift), Zero, NaN}
    <3>1. CanonicalText(s)
            = IF Len(DropLeading(CharDigits(Unsigned(e)))) <= MaxExponentDigits THEN Expand(neg, m, shift)
              ELSE IF DropLeading(w \o p) = <<>> THEN Canonical(FALSE, <<0>>, <<>>)
              ELSE NaN
      BY <1>1, <1>3, <1>4, <1>5, <1>7, <2>1, <2>5 DEF CanonicalText
    <3>. QED BY <3>1 DEF Zero
  <2>. QED BY <2>6, <2>7, ZeroIs DEF Proper
<1>. QED BY <1>6, <1>7

-----------------------------------------------------------------------------
(* The objects.                                                            *)

\* What every step keeps: the objects hold canonical numbers or NaN, and the last
\* operation's result is what its operands give.
NumInv ==
    /\ written \in Seq(Alphabet)
    /\ objects \in [Objects -> [number : {n \in Numbers : Proper(n)}, floating : BOOLEAN]]
    /\ exact.op \in Operations => Exact(exact.a, exact.b, exact.r, exact.op)

LEMMA ProperIsNumber ==
    ASSUME NEW n, Proper(n), NEW floating \in BOOLEAN
    PROVE  /\ n \in Numbers
           /\ Stored(n, floating) \in [number : {m \in Numbers : Proper(m)}, floating : BOOLEAN]
<1>1. n \in Numbers
  <2>1. CASE n = NaN
    BY <2>1 DEF NaN, Numbers, Digit
  <2>2. CASE Shaped(n)
    BY <2>2, ShapedIsCanonical
  <2>. QED BY <2>1, <2>2 DEF Proper
<1>. QED BY <1>1 DEF Stored

LEMMA InitHolds == Init => NumInv
<1>. SUFFICES ASSUME Init PROVE NumInv
  OBVIOUS
<1>1. ASSUME NEW n \in Operands PROVE Proper(n)
  <2>1. n \in Numbers /\ IsCanonical(n)
    BY NumberAssumption
  <2>2. CASE n = NaN
    BY <2>2 DEF Proper
  <2>3. CASE n # NaN
    <3>1. n.neg \in BOOLEAN /\ n.int \in Seq(0..9) /\ n.frac \in Seq(0..9)
      BY <2>1 DEF Numbers, Digit
    <3>2. Shaped(Canonical(n.neg, n.int, n.frac))
      BY <3>1, CanonicalIs
    <3>3. n = Canonical(n.neg, n.int, n.frac)
      BY <2>1, <2>3 DEF IsCanonical
    <3>. QED BY <3>2, <3>3 DEF Proper
  <2>. QED BY <2>2, <2>3
<1>2. objects \in [Objects -> [number : {n \in Numbers : Proper(n)}, floating : BOOLEAN]]
  <2>. DEFINE Values == {Stored(n, n.frac # <<>>) : n \in Operands}
  <2>1. objects \in [Objects -> Values]
    BY DEF Init
  <2>2. ASSUME NEW n \in Operands
        PROVE  Stored(n, n.frac # <<>>) \in [number : {m \in Numbers : Proper(m)}, floating : BOOLEAN]
    <3>1. (n.frac # <<>>) \in BOOLEAN
      OBVIOUS
    <3>. QED BY <1>1, <3>1, ProperIsNumber
  <2>3. Values \subseteq [number : {m \in Numbers : Proper(m)}, floating : BOOLEAN]
    BY <2>2
  <2>. HIDE DEF Values
  <2>. QED BY <2>1, <2>3
<1>3. written \in Seq(Alphabet)
  BY DEF Init
<1>4. exact.op \notin Operations
  BY DEF Init, Operations
<1>. QED BY <1>2, <1>3, <1>4 DEF NumInv

LEMMA StepHolds == NumInv /\ [Next]_vars => NumInv'
<1>. SUFFICES ASSUME NumInv, [Next]_vars PROVE NumInv'
  OBVIOUS
<1>. DEFINE Cells == [number : {n \in Numbers : Proper(n)}, floating : BOOLEAN]
<1>1. /\ written \in Seq(Alphabet) /\ objects \in [Objects -> Cells]
      /\ exact.op \in Operations => Exact(exact.a, exact.b, exact.r, exact.op)
  BY DEF NumInv
<1>2. \A x \in Objects : Proper(Held(x)) /\ objects[x].floating \in BOOLEAN
  BY <1>1 DEF Held
<1>3. Stored(Zero, FALSE) \in Cells
  <2>1. Proper(Zero) /\ FALSE \in BOOLEAN
    BY ZeroIs DEF Proper
  <2>. QED BY <2>1, ProperIsNumber
<1>4. SUFFICES /\ written' \in Seq(Alphabet) /\ objects' \in [Objects -> Cells]
               /\ exact'.op \in Operations => Exact(exact'.a, exact'.b, exact'.r, exact'.op)
  BY DEF NumInv
<1>5. ASSUME NEW c \in Alphabet, Write(c)
      PROVE  /\ written' \in Seq(Alphabet) /\ objects' \in [Objects -> Cells]
             /\ exact'.op \in Operations => Exact(exact'.a, exact'.b, exact'.r, exact'.op)
  <2>1. written' = Append(written, c) /\ objects' = objects /\ exact' = exact
    BY <1>5 DEF Write
  <2>. HIDE DEF Cells
  <2>2. Append(written, c) \in Seq(Alphabet)
    BY <1>1
  <2>. QED BY <1>1, <2>1, <2>2
<1>6. ASSUME NEW x \in Objects, AssignText(x)
      PROVE  /\ written' \in Seq(Alphabet) /\ objects' \in [Objects -> Cells]
             /\ exact'.op \in Operations => Exact(exact'.a, exact'.b, exact'.r, exact'.op)
  <2>1. PICK cell : /\ cell = Stored(CanonicalText(written), WrittenAsFloat(written))
                    /\ objects' = [objects EXCEPT ![x] = cell]
                    /\ written' = <<>> /\ exact'.op = "text"
    BY <1>6 DEF AssignText
  <2>2. cell \in Cells
    <3>1. Proper(CanonicalText(written)) /\ WrittenAsFloat(written) \in BOOLEAN
      BY <1>1, TextIsProper DEF WrittenAsFloat
    <3>. QED BY <2>1, <3>1, ProperIsNumber
  <2>3. exact'.op \notin Operations
    BY <2>1 DEF Operations
  <2>. HIDE DEF Cells
  <2>. QED BY <1>1, <2>1, <2>2, <2>3
<1>7. ASSUME NEW x \in Objects, NEW y \in Objects, NEW op \in Operations, Calculate(x, y, op)
      PROVE  /\ written' \in Seq(Alphabet) /\ objects' \in [Objects -> Cells]
             /\ exact'.op \in Operations => Exact(exact'.a, exact'.b, exact'.r, exact'.op)
  <2>1. PICK r : r = Arithmetic(Held(x), Held(y), op)
    OBVIOUS
  <2>2. PICK floating \in BOOLEAN :
           floating = (r.frac # <<>> \/ objects[x].floating \/ objects[y].floating)
    OBVIOUS
  <2>3. PICK cell : /\ cell = Stored(r, floating) /\ objects' = [objects EXCEPT ![x] = cell]
                    /\ written' = written
                    /\ exact' = [op |-> op, a |-> Held(x), b |-> Held(y), r |-> r]
    BY <1>7, <2>1, <2>2 DEF Calculate
  <2>4. Exact(Held(x), Held(y), r, op)
    BY <1>2, <2>1, OperationsAreExact
  <2>5. cell \in Cells
    <3>1. Proper(r)
      BY <2>4 DEF Exact
    <3>. QED BY <2>3, <3>1, ProperIsNumber
  <2>6. Exact(exact'.a, exact'.b, exact'.r, exact'.op)
    BY <2>3, <2>4
  <2>. HIDE DEF Cells
  <2>. QED BY <1>1, <2>3, <2>5, <2>6
<1>8. ASSUME NEW x \in Objects, NEW y \in Objects, Copy(x, y)
      PROVE  /\ written' \in Seq(Alphabet) /\ objects' \in [Objects -> Cells]
             /\ exact'.op \in Operations => Exact(exact'.a, exact'.b, exact'.r, exact'.op)
  <2>1. written' = written /\ objects' = [objects EXCEPT ![x] = objects[y]] /\ exact'.op = "copy"
    BY <1>8 DEF Copy
  <2>2. exact'.op \notin Operations
    BY <2>1 DEF Operations
  <2>. HIDE DEF Cells
  <2>. QED BY <1>1, <2>1, <2>2
<1>9. ASSUME NEW x \in Objects, NEW y \in Objects, Move(x, y)
      PROVE  /\ written' \in Seq(Alphabet) /\ objects' \in [Objects -> Cells]
             /\ exact'.op \in Operations => Exact(exact'.a, exact'.b, exact'.r, exact'.op)
  <2>1. written' = written /\ objects' = AfterMove(x, y) /\ exact'.op = "move"
    BY <1>9 DEF Move
  <2>2. exact'.op \notin Operations
    BY <2>1 DEF Operations
  <2>. HIDE DEF Cells
  <2>3. AfterMove(x, y) \in [Objects -> Cells]
    BY <1>1, <1>3 DEF AfterMove
  <2>. QED BY <1>1, <2>1, <2>2, <2>3
<1>10. CASE UNCHANGED vars
  <2>. HIDE DEF Cells
  <2>. QED BY <1>1, <1>10 DEF vars
<1>. QED BY <1>5, <1>6, <1>7, <1>8, <1>9, <1>10 DEF Next

LEMMA NumbersAreKept == Spec => []NumInv
  BY InitHolds, StepHolds, PTL DEF Spec

\* Whatever was assigned, moved or computed, the objects hold canonical digits
\* whose order, as number::compare() takes it from the digits, is that of the
\* values, and conversions keep it (number.cpp:95, :322, :860).
THEOREM ComparisonsAreThoseOfValues == Spec => []OrderIsOfValues
<1>1. NumInv => OrderIsOfValues
  <2>. SUFFICES ASSUME NumInv, NEW x \in Objects, NEW y \in Objects
                PROVE  LET a == Held(x)  b == Held(y)  places == Places(a, b) IN
                       /\ IsCanonical(a)
                       /\ Compare(a, b) = 0 <=> a = b
                       /\ a # NaN /\ b # NaN /\ Width(a, b) <= 9
                            => Compare(a, b) = SignOf(Scaled(a, places) - Scaled(b, places))
                       /\ a = NaN /\ b # NaN => Compare(a, b) = -1
                       /\ a # NaN /\ b # NaN /\ Compare(a, b) <= 0 =>
                            /\ Whole(a) <= DoubleMax /\ Whole(b) <= DoubleMax => ToInt(a) <= ToInt(b)
                            /\ Whole(a) <= LongMax /\ Whole(b) <= LongMax
                                 => ToLongLong(a) <= ToLongLong(b)
    BY DEF OrderIsOfValues
  <2>1. PICK a, b : a = Held(x) /\ b = Held(y) /\ Proper(a) /\ Proper(b)
    BY DEF NumInv, Held
  <2>2. Ordered(a, b)
    BY <2>1, ProperAreOrdered, NumberAssumption
  <2>. QED BY <2>1, <2>2 DEF Ordered
<1>. QED BY <1>1, NumbersAreKept, PTL

\* Sums, differences and products lose no digit, carry or borrow, a remainder is
\* the dividend's less the divisor's multiple with the dividend's sign, and only
\* the operands that are said to make NaN make it (number.cpp:721).
THEOREM OperationsLoseNothing == Spec => []ArithmeticIsExact
<1>1. NumInv => ArithmeticIsExact
  BY DEF NumInv, ArithmeticIsExact, Exact, NotANumber
<1>. QED BY <1>1, NumbersAreKept, PTL

\* The long division stops, at an exact quotient or at the significant digits that
\* are kept, and what it then has is the true quotient cut off, with the sign of
\* the operands (number.cpp:588, :669).
THEOREM DivisionCutsOff == Spec => []QuotientIsTruncated
<1>1. NumInv => QuotientIsTruncated
  <2>. SUFFICES ASSUME NumInv, exact.op = "/", exact.r # NaN PROVE QuotientIsTruncated
    BY DEF QuotientIsTruncated
  <2>1. /\ Truncates(exact.r, Magnitude(exact.a, Places(exact.a, exact.b)),
                     Magnitude(exact.b, Places(exact.a, exact.b)))
        /\ exact.r # Zero => (exact.r.neg <=> exact.a.neg # exact.b.neg)
    BY DEF NumInv, Exact, Operations
  <2>. QED BY <2>1 DEF Truncates, QuotientIsTruncated
<1>. QED BY <1>1, NumbersAreKept, PTL

-----------------------------------------------------------------------------
(* The reading of texts.                                                   *)

\* A character is of one kind only.
LEMMA Characters ==
    /\ \A c : IsDigit(c) => ~IsSign(c) /\ ~IsExponentMark(c) /\ c # "."
    /\ \A c : IsSign(c) => ~IsExponentMark(c) /\ c # "."
    /\ ~IsExponentMark(".") /\ ~IsSign(".")
<1>1. ASSUME NEW c, IsDigit(c)
      PROVE  c \in {"0", "1", "2", "3", "4", "5", "6", "7", "8", "9"}
  <2>1. PICK i \in 1..10 : DigitChars[i] = c
    BY <1>1 DEF IsDigit, DigitChars
  <2>. QED BY <2>1 DEF DigitChars
<1>. QED BY <1>1 DEF IsSign, IsExponentMark

\* Where the first mark of an exponent is.
LEMMA FirstMarkIs ==
    ASSUME NEW S, NEW s \in Seq(S)
    PROVE  \E at \in Nat, n \in Nat :
             /\ at = ExponentAt(s) /\ n = Len(s) /\ at <= n
             /\ at # 0 => IsExponentMark(s[at])
             /\ \A i \in 1..n : i < at \/ at = 0 => ~IsExponentMark(s[i])
<1>. DEFINE I == {i \in 1..Len(s) : IsExponentMark(s[i])}
<1>1. ExponentAt(s) = IF I # {} THEN Min(I) ELSE 0
  BY DEF ExponentAt, SelectInSeq
<1>2. PICK n \in Nat : n = Len(s)
  OBVIOUS
<1>3. I \subseteq 1..n /\ \A i \in 1..n : i \in I <=> IsExponentMark(s[i])
  BY <1>2
<1>. HIDE DEF I
<1>4. CASE I = {}
  BY <1>1, <1>2, <1>3, <1>4
<1>5. CASE I # {}
  <2>1. I \subseteq Nat
    BY <1>3
  <2>2. \E x \in I : \A y \in I : x <= y
    BY <1>5, <2>1, LeastNumber
  <2>3. PICK at \in I : at = Min(I) /\ \A y \in I : at <= y
    BY <2>2 DEF Min
  <2>4. at \in Nat /\ at <= n /\ at # 0 /\ IsExponentMark(s[at])
    BY <1>3, <2>3
  <2>5. \A i \in 1..n : i < at => i \notin I
    BY <2>3, <2>4
  <2>. QED BY <1>1, <1>2, <1>3, <1>5, <2>3, <2>4, <2>5
<1>. QED BY <1>4, <1>5

\* A part of a part.
LEMMA PartOfPart ==
    ASSUME NEW S, NEW s \in Seq(S), NEW a \in Nat, NEW b \in Nat, b <= Len(s),
           NEW c \in Nat, NEW d \in Nat, a + d <= b
    PROVE  SubSeq(SubSeq(s, a + 1, b), c + 1, d) = SubSeq(s, a + c + 1, a + d)
<1>1. PICK n \in Nat : n = Len(s)
  OBVIOUS
<1>2. \A i \in 1..n : s[i] \in S
  BY <1>1, ElementOfSeq
<1>3. PICK t \in Seq(S) : /\ t = SubSeq(s, a + 1, b) /\ Len(t) = b - a
                          /\ \A i \in 1..(b - a) : t[i] = s[a + i]
  <2>1. a + 1 \in Int /\ b \in Int /\ \A i \in (a + 1)..b : i \in 1..n
    BY <1>1
  <2>2. /\ SubSeq(s, a + 1, b) \in Seq(S)
        /\ Len(SubSeq(s, a + 1, b)) = IF a + 1 <= b THEN b - (a + 1) + 1 ELSE 0
        /\ \A i \in 1..(b - (a + 1) + 1) : SubSeq(s, a + 1, b)[i] = s[a + 1 + i - 1]
    BY <1>2, <2>1, SubSeqProperties
  <2>3. a <= b
    OBVIOUS
  <2>4. \A i \in 1..(b - a) : i \in 1..(b - (a + 1) + 1) /\ a + 1 + i - 1 = a + i
    OBVIOUS
  <2>5. (IF a + 1 <= b THEN b - (a + 1) + 1 ELSE 0) = b - a
    BY <2>3
  <2>. QED BY <2>2, <2>4, <2>5
<1>4. /\ SubSeq(t, c + 1, d) \in Seq(S)
      /\ Len(SubSeq(t, c + 1, d)) = (IF c + 1 <= d THEN d - (c + 1) + 1 ELSE 0)
      /\ \A i \in 1..(d - (c + 1) + 1) : SubSeq(t, c + 1, d)[i] = t[c + 1 + i - 1]
  <2>1. c + 1 \in Int /\ d \in Int /\ \A i \in (c + 1)..d : i \in 1..(b - a)
    OBVIOUS
  <2>2. \A i \in (c + 1)..d : t[i] \in S
    BY <1>3, <2>1, ElementOfSeq
  <2>. QED BY <2>1, <2>2, SubSeqProperties
<1>5. /\ SubSeq(s, a + c + 1, a + d) \in Seq(S)
      /\ Len(SubSeq(s, a + c + 1, a + d))
           = (IF a + c + 1 <= a + d THEN a + d - (a + c + 1) + 1 ELSE 0)
      /\ \A i \in 1..(a + d - (a + c + 1) + 1) :
           SubSeq(s, a + c + 1, a + d)[i] = s[a + c + 1 + i - 1]
  <2>1. a + c + 1 \in Int /\ a + d \in Int /\ \A i \in (a + c + 1)..(a + d) : i \in 1..n
    BY <1>1
  <2>2. \A i \in (a + c + 1)..(a + d) : s[i] \in S
    BY <1>2, <2>1
  <2>. QED BY <2>1, <2>2, SubSeqProperties
<1>6. PICK x \in Seq(S), y \in Seq(S) :
         x = SubSeq(t, c + 1, d) /\ y = SubSeq(s, a + c + 1, a + d)
  BY <1>4, <1>5, Zenon
<1>7. PICK l \in Nat : l = Len(x) /\ l = Len(y) /\ (l > 0 => l = d - c)
  <2>1. /\ Len(x) = (IF c + 1 <= d THEN d - (c + 1) + 1 ELSE 0)
        /\ Len(y) = (IF a + c + 1 <= a + d THEN a + d - (a + c + 1) + 1 ELSE 0)
    BY <1>4, <1>5, <1>6, Zenon
  <2>2. CASE c < d
    <3>1. Len(x) = d - c /\ Len(y) = d - c /\ d - c \in Nat
      BY <2>1, <2>2
    <3>. QED BY <3>1
  <2>3. CASE ~(c < d)
    <3>1. Len(x) = 0 /\ Len(y) = 0
      BY <2>1, <2>3
    <3>. QED BY <3>1
  <2>. QED BY <2>2, <2>3
<1>8. \A i \in 1..l : x[i] = y[i]
  <2>. SUFFICES ASSUME NEW i \in 1..l PROVE x[i] = y[i]
    OBVIOUS
  <2>1. l = d - c /\ i \in 1..(d - (c + 1) + 1) /\ i \in 1..(a + d - (a + c + 1) + 1)
    BY <1>7
  <2>2. x[i] = t[c + 1 + i - 1] /\ y[i] = s[a + c + 1 + i - 1]
    BY <1>4, <1>5, <1>6, <2>1
  <2>3. c + 1 + i - 1 = c + i /\ a + c + 1 + i - 1 = a + (c + i) /\ c + i \in 1..(b - a)
    BY <2>1
  <2>. QED BY <1>3, <2>2, <2>3
<1>9. x = y
  BY <1>7, <1>8, SeqEqual
<1>. QED BY <1>3, <1>6, <1>9

\* A part that is not empty, by its places, and its digits.
LEMMA PartIs ==
    ASSUME NEW S, NEW s \in Seq(S), NEW a \in Nat, NEW b \in Nat, b <= Len(s)
    PROVE  /\ SubSeq(s, a + 1, b) \in Seq(S)
           /\ Len(SubSeq(s, a + 1, b)) = (IF a < b THEN b - a ELSE 0)
           /\ \A i \in 1..(b - a) : SubSeq(s, a + 1, b)[i] = s[a + i]
           /\ AllDigits(SubSeq(s, a + 1, b)) <=> \A i \in (a + 1)..b : IsDigit(s[i])
<1>1. PICK n \in Nat : n = Len(s)
  OBVIOUS
<1>2. a + 1 \in Int /\ b \in Int /\ \A i \in (a + 1)..b : i \in 1..n
  BY <1>1
<1>3. \A i \in (a + 1)..b : s[i] \in S
  BY <1>1, <1>2, ElementOfSeq
<1>4. /\ SubSeq(s, a + 1, b) \in Seq(S)
      /\ Len(SubSeq(s, a + 1, b)) = (IF a + 1 <= b THEN b - (a + 1) + 1 ELSE 0)
      /\ \A i \in 1..(b - (a + 1) + 1) : SubSeq(s, a + 1, b)[i] = s[a + 1 + i - 1]
  BY <1>2, <1>3, SubSeqProperties
<1>5. PICK t \in Seq(S) : t = SubSeq(s, a + 1, b)
  BY <1>4, Zenon
<1>6. Len(t) = IF a < b THEN b - a ELSE 0
  <2>1. Len(t) = (IF a + 1 <= b THEN b - (a + 1) + 1 ELSE 0)
    BY <1>4, <1>5, Zenon
  <2>. QED BY <2>1
<1>7. \A i \in 1..(b - a) : t[i] = s[a + i]
  <2>. SUFFICES ASSUME NEW i \in 1..(b - a) PROVE t[i] = s[a + i]
    OBVIOUS
  <2>1. i \in 1..(b - (a + 1) + 1) /\ a + 1 + i - 1 = a + i
    OBVIOUS
  <2>2. t[i] = s[a + 1 + i - 1]
    BY <1>4, <1>5, <2>1
  <2>. QED BY <2>1, <2>2
<1>8. AllDigits(t) <=> \A i \in (a + 1)..b : IsDigit(s[i])
  <2>1. PICK l \in Nat : l = Len(t) /\ DOMAIN t = 1..l
    OBVIOUS
  <2>2. l = IF a < b THEN b - a ELSE 0
    BY <1>6, <2>1
  <2>3. ASSUME AllDigits(t), NEW i \in (a + 1)..b PROVE IsDigit(s[i])
    <3>1. i - a \in 1..(b - a) /\ i - a \in 1..l /\ a + (i - a) = i
      BY <2>2
    <3>2. t[i - a] = s[a + (i - a)]
      BY <1>7, <3>1
    <3>. QED BY <2>1, <2>3, <3>1, <3>2 DEF AllDigits
  <2>4. ASSUME \A i \in (a + 1)..b : IsDigit(s[i]) PROVE AllDigits(t)
    <3>. SUFFICES ASSUME NEW i \in 1..l PROVE IsDigit(t[i])
      BY <2>1 DEF AllDigits
    <3>1. i \in 1..(b - a) /\ a + i \in (a + 1)..b
      BY <2>2
    <3>. QED BY <1>7, <2>4, <3>1
  <2>. QED BY <2>3, <2>4
<1>. QED BY <1>4, <1>5, <1>6, <1>7, <1>8

LEMMA DigitsOfPart ==
    ASSUME NEW S, NEW s \in Seq(S), NEW a \in Nat, NEW b \in Nat, b <= Len(s),
           \A i \in (a + 1)..b : IsDigit(s[i])
    PROVE  /\ CharDigits(SubSeq(s, a + 1, b)) \in Seq(0..9)
           /\ Len(CharDigits(SubSeq(s, a + 1, b))) = (IF a < b THEN b - a ELSE 0)
<1>1. a + 1 \in Int /\ b \in Int
  OBVIOUS
<1>2. CharDigits(SubSeq(s, a + 1, b)) \in Seq(0..9)
  BY <1>1, DigitsWithin
<1>3. PICK t \in Seq(S) : t = SubSeq(s, a + 1, b) /\ Len(t) = IF a < b THEN b - a ELSE 0
  <2>1. /\ SubSeq(s, a + 1, b) \in Seq(S)
        /\ Len(SubSeq(s, a + 1, b)) = (IF a < b THEN b - a ELSE 0)
    BY PartIs
  <2>. QED BY <2>1, Zenon
<1>4. PICK l \in Nat : l = Len(t)
  OBVIOUS
<1>5. CharDigits(t) = [i \in 1..l |-> DigitOf(t[i])]
  BY <1>4 DEF CharDigits
<1>6. Len(CharDigits(t)) = l
  <2>1. PICK d \in Seq(0..9) : d = CharDigits(t)
    BY <1>2, <1>3
  <2>2. DOMAIN d = 1..l
    BY <1>5, <2>1
  <2>. QED BY <2>1, <2>2, LenProperties
<1>. QED BY <1>2, <1>3, <1>4, <1>6

\* A reading, by the places of a text's characters: its sign, its digits before and
\* after the point, the point, and the exponent's mark, sign and digits.
Reads(s, g, w, p, f, m, k, e) ==
    /\ g \in 0..1 /\ w \in Nat /\ p \in 0..1 /\ f \in Nat /\ m = g + w + p + f
    /\ k \in 0..1 /\ e \in 0..1 /\ m <= Len(s) /\ w + f > 0
    /\ g = 1 => IsSign(s[1])
    /\ \A i \in (g + 1)..(g + w) : IsDigit(s[i])
    /\ p = 1 => s[g + w + 1] = "."
    /\ p = 0 => f = 0
    /\ \A i \in (m - f + 1)..m : IsDigit(s[i])
    /\ k = 0 => m = Len(s) /\ e = 0
    /\ k = 1 => /\ m + 1 + e < Len(s) /\ IsExponentMark(s[m + 1])
                /\ e = 1 => IsSign(s[m + 2])
                /\ \A i \in (m + 1 + e + 1)..Len(s) : IsDigit(s[i])

LEMMA ReadingReads ==
    ASSUME NEW S, NEW s \in Seq(S), NEW r \in Readings(s)
    PROVE  /\ Reads(s, r.sign, r.whole, r.point, r.part, ReadLength(r), r.mark, r.esign)
           /\ r \in [sign : 0..1, whole : Nat, point : 0..1, part : Nat, mark : 0..1, esign : 0..1]
<1>1. PICK n \in Nat : n = Len(s)
  OBVIOUS
<1>2. PICK g \in 0..1, w \in Nat, p \in 0..1, f \in Nat, k \in 0..1, e \in 0..1 :
         r = [sign |-> g, whole |-> w, point |-> p, part |-> f, mark |-> k, esign |-> e]
  BY <1>1 DEF Readings
<1>3. PICK m \in Nat : m = g + w + p + f /\ m = ReadLength(r)
  <2>1. g + w + p + f \in Nat /\ ReadLength(r) = g + w + p + f
    BY <1>2 DEF ReadLength
  <2>. QED BY <2>1
<1>4. /\ g = 1 => IsSign(s[1])
      /\ g + w <= n /\ AllDigits(SubSeq(s, g + 1, g + w))
      /\ w + f > 0 /\ m <= n
      /\ IF p = 1 THEN s[g + w + 1] = "." ELSE f = 0
      /\ AllDigits(SubSeq(s, m - f + 1, m - f + f))
      /\ IF k = 0 THEN m = n /\ e = 0
         ELSE /\ m + 1 + e < n /\ IsExponentMark(s[m + 1])
              /\ e = 1 => IsSign(s[m + 2])
              /\ AllDigits(SubSeq(s, m + 2 + e, n))
  BY <1>1, <1>2, <1>3 DEF Readings, Part
<1>5. \A i \in (g + 1)..(g + w) : IsDigit(s[i])
  <2>1. g \in Nat /\ g + w \in Nat /\ g + w <= Len(s)
    BY <1>1, <1>4
  <2>. QED BY <1>4, <2>1, PartIs
<1>6. \A i \in (m - f + 1)..m : IsDigit(s[i])
  <2>1. PICK a \in Nat : a = m - f
    BY <1>3
  <2>2. m - f + f = m /\ m <= Len(s)
    BY <1>1, <1>4
  <2>3. AllDigits(SubSeq(s, a + 1, m))
    BY <1>4, <2>1, <2>2
  <2>4. \A i \in (a + 1)..m : IsDigit(s[i])
    BY <2>2, <2>3, PartIs
  <2>. QED BY <2>1, <2>4
<1>7. k = 1 => \A i \in (m + 1 + e + 1)..n : IsDigit(s[i])
  <2>. SUFFICES ASSUME k = 1 PROVE \A i \in (m + 1 + e + 1)..n : IsDigit(s[i])
    OBVIOUS
  <2>1. PICK a \in Nat : a = m + 1 + e
    OBVIOUS
  <2>2. m + 2 + e = a + 1 /\ n <= Len(s)
    BY <1>1, <2>1
  <2>3. AllDigits(SubSeq(s, a + 1, n))
    BY <1>4, <2>2
  <2>4. \A i \in (a + 1)..n : IsDigit(s[i])
    BY <2>2, <2>3, PartIs
  <2>. QED BY <2>1, <2>4
<1>8. Reads(s, g, w, p, f, m, k, e)
  BY <1>1, <1>3, <1>4, <1>5, <1>6, <1>7 DEF Reads
<1>. QED BY <1>2, <1>3, <1>8

LEMMA ReadsIsReading ==
    ASSUME NEW S, NEW s \in Seq(S), NEW g, NEW w, NEW p, NEW f, NEW m, NEW k, NEW e,
           Reads(s, g, w, p, f, m, k, e)
    PROVE  [sign |-> g, whole |-> w, point |-> p, part |-> f, mark |-> k, esign |-> e] \in Readings(s)
<1>1. PICK n \in Nat : n = Len(s)
  OBVIOUS
<1>2. /\ g \in 0..1 /\ w \in Nat /\ p \in 0..1 /\ f \in Nat /\ k \in 0..1 /\ e \in 0..1
      /\ m = g + w + p + f /\ m <= n /\ w + f > 0
  BY <1>1 DEF Reads
<1>3. m \in Nat /\ w \in 0..n /\ f \in 0..n /\ g + w <= n
  BY <1>2
<1>4. AllDigits(SubSeq(s, g + 1, g + w))
  <2>1. g \in Nat /\ g + w \in Nat /\ g + w <= Len(s)
    BY <1>1, <1>2, <1>3
  <2>2. \A i \in (g + 1)..(g + w) : IsDigit(s[i])
    BY DEF Reads
  <2>. QED BY <2>1, <2>2, PartIs
<1>5. AllDigits(SubSeq(s, m - f + 1, m - f + f))
  <2>1. PICK a \in Nat : a = m - f
    BY <1>2, <1>3
  <2>2. m - f + f = m /\ m <= Len(s)
    BY <1>1, <1>2, <1>3
  <2>3. \A i \in (a + 1)..m : IsDigit(s[i])
    BY <2>1 DEF Reads
  <2>4. AllDigits(SubSeq(s, a + 1, m))
    BY <1>3, <2>2, <2>3, PartIs
  <2>. QED BY <2>1, <2>2, <2>4
<1>6. k = 1 => AllDigits(SubSeq(s, m + 2 + e, n))
  <2>. SUFFICES ASSUME k = 1 PROVE AllDigits(SubSeq(s, m + 2 + e, n))
    OBVIOUS
  <2>1. PICK a \in Nat : a = m + 1 + e
    BY <1>2, <1>3
  <2>2. m + 2 + e = a + 1 /\ n <= Len(s)
    BY <1>1, <1>2, <1>3, <2>1
  <2>3. \A i \in (a + 1)..n : IsDigit(s[i])
    BY <1>1, <2>1 DEF Reads
  <2>4. AllDigits(SubSeq(s, a + 1, n))
    BY <2>2, <2>3, PartIs
  <2>. QED BY <2>2, <2>4
<1>7. PICK r : r = [sign |-> g, whole |-> w, point |-> p, part |-> f, mark |-> k, esign |-> e]
  OBVIOUS
<1>8. /\ r \in [sign : 0..1, whole : 0..n, point : 0..1, part : 0..n, mark : 0..1, esign : 0..1]
      /\ r.sign = g /\ r.whole = w /\ r.point = p /\ r.part = f /\ r.mark = k /\ r.esign = e
      /\ ReadLength(r) = m
  BY <1>2, <1>3, <1>7 DEF ReadLength
<1>9. /\ g = 1 => IsSign(s[1])
      /\ IF p = 1 THEN s[g + w + 1] = "." ELSE f = 0
      /\ IF k = 0 THEN m = n /\ e = 0
         ELSE /\ m + 1 + e < n /\ IsExponentMark(s[m + 1])
              /\ e = 1 => IsSign(s[m + 2])
              /\ AllDigits(SubSeq(s, m + 2 + e, n))
  BY <1>1, <1>2, <1>6 DEF Reads
<1>10. r \in Readings(s)
  BY <1>1, <1>2, <1>3, <1>4, <1>5, <1>8, <1>9 DEF Readings, Part
<1>. QED BY <1>7, <1>10

\* The parser finds a reading's places where they are: no character before the end
\* of the mantissa is a mark or, but at the point, a point.
LEMMA ReadsTypes ==
    ASSUME NEW S, NEW s \in Seq(S), NEW g, NEW w, NEW p, NEW f, NEW m, NEW k, NEW e,
           Reads(s, g, w, p, f, m, k, e)
    PROVE  /\ g \in 0..1 /\ w \in Nat /\ p \in 0..1 /\ f \in Nat /\ m \in Nat /\ k \in 0..1 /\ e \in 0..1
           /\ m = g + w + p + f /\ w + f > 0 /\ (p = 0 => f = 0) /\ g < m
           /\ Len(s) \in Nat /\ m <= Len(s) /\ (k = 0 => m = Len(s)) /\ (k = 1 => m + 1 + e < Len(s))
<1>1. PICK n \in Nat : n = Len(s)
  OBVIOUS
<1>. QED BY <1>1 DEF Reads

LEMMA CharactersRead ==
    ASSUME NEW S, NEW s \in Seq(S), NEW g, NEW w, NEW p, NEW f, NEW m, NEW k, NEW e,
           Reads(s, g, w, p, f, m, k, e), NEW i \in 1..m
    PROVE  /\ ~IsExponentMark(s[i])
           /\ i <= g => IsSign(s[i])
           /\ i > g => /\ s[i] = "." \/ IsDigit(s[i])
                       /\ s[i] = "." <=> p = 1 /\ i = g + w + 1
<1>1. /\ g \in 0..1 /\ w \in Nat /\ p \in 0..1 /\ f \in Nat /\ m \in Nat
      /\ m = g + w + p + f /\ (p = 0 => f = 0)
  BY ReadsTypes
<1>2. CASE i <= g
  <2>1. i = 1 /\ g = 1
    BY <1>1, <1>2
  <2>2. IsSign(s[i])
    BY <2>1 DEF Reads
  <2>. QED BY <1>2, <2>1, <2>2, Characters
<1>3. CASE i > g /\ i <= g + w
  <2>1. i \in (g + 1)..(g + w) /\ i # g + w + 1
    BY <1>1, <1>3
  <2>2. IsDigit(s[i])
    BY <2>1 DEF Reads
  <2>. QED BY <1>1, <1>3, <2>1, <2>2, Characters
<1>4. CASE i > g + w /\ p = 1 /\ i = g + w + 1
  <2>1. s[i] = "."
    BY <1>4 DEF Reads
  <2>2. i > g /\ ~(i <= g)
    BY <1>1, <1>4
  <2>. QED BY <1>4, <2>1, <2>2, Characters
<1>5. CASE i > g + w /\ ~(p = 1 /\ i = g + w + 1)
  <2>1. i \in (m - f + 1)..m /\ i > g /\ ~(i <= g)
    BY <1>1, <1>5
  <2>2. IsDigit(s[i])
    BY <2>1 DEF Reads
  <2>. QED BY <1>5, <2>1, <2>2, Characters
<1>. QED BY <1>1, <1>2, <1>3, <1>4, <1>5

LEMMA MantissaRead ==
    ASSUME NEW S, NEW s \in Seq(S), NEW g, NEW w, NEW p, NEW f, NEW m, NEW k, NEW e,
           Reads(s, g, w, p, f, m, k, e)
    PROVE  /\ s # <<>> /\ SignLength(s) = g
           /\ ExponentAt(s) = IF k = 1 THEN m + 1 ELSE 0
           /\ Mantissa(s) = SubSeq(s, g + 1, m)
<1>1. /\ g \in 0..1 /\ w \in Nat /\ p \in 0..1 /\ f \in Nat /\ m \in Nat /\ k \in 0..1 /\ e \in 0..1
      /\ g < m /\ Len(s) \in Nat /\ m <= Len(s) /\ (k = 0 => m = Len(s)) /\ (k = 1 => m + 1 + e < Len(s))
  BY ReadsTypes
<1>2. s # <<>>
  <2>1. Len(s) > 0
    BY <1>1
  <2>. QED BY <2>1
<1>3. SignLength(s) = g
  <2>1. 1 \in 1..m
    BY <1>1
  <2>2. (1 <= g => IsSign(s[1])) /\ (1 > g => s[1] = "." \/ IsDigit(s[1]))
    BY <2>1, CharactersRead
  <2>3. IsSign(s[1]) <=> g = 1
    BY <1>1, <2>2, Characters
  <2>. QED BY <1>1, <1>2, <2>3 DEF SignLength
<1>4. PICK at \in Nat, n \in Nat :
             /\ at = ExponentAt(s) /\ n = Len(s) /\ at <= n
             /\ at # 0 => IsExponentMark(s[at])
             /\ \A i \in 1..n : i < at \/ at = 0 => ~IsExponentMark(s[i])
  BY FirstMarkIs
<1>5. \A i \in 1..m : ~IsExponentMark(s[i])
  BY CharactersRead
<1>6. at = IF k = 1 THEN m + 1 ELSE 0
  <2>1. CASE k = 0
    <3>1. at # 0 => at \in 1..m
      BY <1>1, <1>4, <2>1
    <3>. QED BY <1>4, <1>5, <2>1, <3>1
  <2>2. CASE k = 1
    <3>1. IsExponentMark(s[m + 1]) /\ m + 1 \in 1..n
      BY <1>1, <1>4, <2>2 DEF Reads
    <3>2. at # 0 /\ ~(m + 1 < at)
      BY <1>4, <3>1
    <3>3. at \notin 1..m
      BY <1>4, <1>5, <3>2
    <3>. QED BY <1>1, <1>4, <2>2, <3>2, <3>3
  <2>. QED BY <1>1, <2>1, <2>2
<1>7. (IF at = 0 THEN n ELSE at - 1) = m
  BY <1>1, <1>4, <1>6
<1>8. Mantissa(s) = SubSeq(s, g + 1, m)
  BY <1>3, <1>4, <1>7 DEF Mantissa
<1>. QED BY <1>2, <1>3, <1>4, <1>6, <1>8

LEMMA PointRead ==
    ASSUME NEW S, NEW s \in Seq(S), NEW g, NEW w, NEW p, NEW f, NEW m, NEW k, NEW e,
           Reads(s, g, w, p, f, m, k, e)
    PROVE  /\ PointsIn(Mantissa(s)) = IF p = 1 THEN {w + 1} ELSE {}
           /\ WholeLength(Mantissa(s)) = w
           /\ IsMantissa(Mantissa(s)) /\ Mantissa(s) # <<>>
<1>1. /\ g \in 0..1 /\ w \in Nat /\ p \in 0..1 /\ f \in Nat /\ m \in Nat
      /\ m = g + w + p + f /\ w + f > 0 /\ (p = 0 => f = 0) /\ g < m
      /\ Len(s) \in Nat /\ m <= Len(s)
  BY ReadsTypes
<1>2. PICK l \in Nat : l = m - g /\ l > 0 /\ l = w + p + f
  <2>1. m - g \in Nat /\ m - g > 0 /\ m - g = w + p + f
    BY <1>1
  <2>. QED BY <2>1
<1>3. PICK t \in Seq(S) : /\ t = Mantissa(s) /\ Len(t) = l
                          /\ \A i \in 1..l : t[i] = s[g + i]
  <2>1. g \in Nat /\ m \in Nat /\ m <= Len(s)
    BY <1>1
  <2>2. /\ SubSeq(s, g + 1, m) \in Seq(S)
        /\ Len(SubSeq(s, g + 1, m)) = (IF g < m THEN m - g ELSE 0)
        /\ \A i \in 1..(m - g) : SubSeq(s, g + 1, m)[i] = s[g + i]
    BY <2>1, PartIs
  <2>3. Mantissa(s) = SubSeq(s, g + 1, m)
    BY MantissaRead
  <2>. QED BY <1>1, <1>2, <2>2, <2>3
<1>4. DOMAIN t = 1..l /\ t # <<>>
  BY <1>2, <1>3
<1>5. ASSUME NEW i \in 1..l
      PROVE  (t[i] = "." \/ IsDigit(t[i])) /\ (t[i] = "." <=> p = 1 /\ i = w + 1)
  <2>1. g + i \in 1..m /\ g + i > g /\ (g + i = g + w + 1 <=> i = w + 1)
    BY <1>1, <1>2
  <2>2. /\ s[g + i] = "." \/ IsDigit(s[g + i])
        /\ s[g + i] = "." <=> p = 1 /\ g + i = g + w + 1
    BY <2>1, CharactersRead
  <2>. QED BY <1>3, <2>1, <2>2
<1>6. PointsIn(t) = IF p = 1 THEN {w + 1} ELSE {}
  <2>1. \A i \in 1..l : i \in PointsIn(t) <=> p = 1 /\ i = w + 1
    BY <1>4, <1>5 DEF PointsIn
  <2>2. PointsIn(t) \subseteq 1..l
    BY <1>4 DEF PointsIn
  <2>3. p = 1 => w + 1 \in 1..l
    BY <1>1, <1>2
  <2>. QED BY <2>1, <2>2, <2>3
<1>7. WholeLength(t) = w
  <2>1. CASE p = 1
    <3>1. PointsIn(t) = {w + 1}
      BY <1>6, <2>1
    <3>2. (CHOOSE i \in {w + 1} : TRUE) = w + 1
      OBVIOUS
    <3>. QED BY <1>1, <3>1, <3>2 DEF WholeLength
  <2>2. CASE p = 0
    BY <1>1, <1>2, <1>3, <1>6, <2>2 DEF WholeLength
  <2>. QED BY <1>1, <2>1, <2>2
<1>8. IsMantissa(t)
  <2>1. p = 1 => l > 1
    BY <1>1, <1>2
  <2>2. PointsIn(t) # {} => Len(t) > 1
    BY <1>3, <1>6, <2>1
  <2>3. \A i, j \in PointsIn(t) : i = j
    BY <1>6
  <2>. QED BY <1>4, <1>5, <2>2, <2>3 DEF IsMantissa
<1>. QED BY <1>3, <1>4, <1>6, <1>7, <1>8

LEMMA ExponentRead ==
    ASSUME NEW S, NEW s \in Seq(S), NEW g, NEW w, NEW p, NEW f, NEW m, NEW e,
           Reads(s, g, w, p, f, m, 1, e)
    PROVE  /\ Exponent(s)[1] = s[m + 2] /\ SignLength(Exponent(s)) = e
           /\ Unsigned(Exponent(s)) = SubSeq(s, m + 1 + e + 1, Len(s))
           /\ Unsigned(Exponent(s)) # <<>> /\ AllDigits(Unsigned(Exponent(s)))
<1>1. PICK n \in Nat : n = Len(s)
  OBVIOUS
<1>2. m \in Nat /\ e \in 0..1 /\ m + 1 + e < n
  BY <1>1, ReadsTypes
<1>3. PICK l \in Nat : l = n - (m + 1) /\ l > e
  <2>1. n - (m + 1) \in Nat /\ n - (m + 1) > e
    BY <1>2
  <2>. QED BY <2>1
<1>4. Exponent(s) = SubSeq(s, m + 1 + 1, n)
  <2>1. ExponentAt(s) = m + 1
    BY MantissaRead
  <2>. QED BY <1>1, <1>2, <2>1 DEF Exponent
<1>5. PICK t \in Seq(S) : /\ t = Exponent(s) /\ Len(t) = l
                          /\ \A i \in 1..l : t[i] = s[m + 1 + i]
  <2>1. m + 1 \in Nat /\ n <= Len(s)
    BY <1>1, <1>2
  <2>2. /\ SubSeq(s, m + 1 + 1, n) \in Seq(S)
        /\ Len(SubSeq(s, m + 1 + 1, n)) = (IF m + 1 < n THEN n - (m + 1) ELSE 0)
        /\ \A i \in 1..(n - (m + 1)) : SubSeq(s, m + 1 + 1, n)[i] = s[m + 1 + i]
    BY <2>1, PartIs
  <2>3. m + 1 < n
    BY <1>2
  <2>. QED BY <1>3, <1>4, <2>2, <2>3
<1>6. t # <<>> /\ t[1] = s[m + 2]
  <2>1. 1 \in 1..l /\ m + 1 + 1 = m + 2
    BY <1>2, <1>3
  <2>2. t[1] = s[m + 1 + 1]
    BY <1>5, <2>1
  <2>3. Len(t) > 0
    BY <1>5, <2>1
  <2>. QED BY <2>1, <2>2, <2>3
<1>7. SignLength(t) = e
  <2>1. CASE e = 0
    <3>1. m + 2 \in (m + 1 + e + 1)..n
      BY <1>2, <2>1
    <3>2. IsDigit(s[m + 2])
      BY <1>1, <3>1 DEF Reads
    <3>. QED BY <1>6, <2>1, <3>2, Characters DEF SignLength
  <2>2. CASE e = 1
    <3>1. IsSign(s[m + 2])
      BY <2>2 DEF Reads
    <3>. QED BY <1>6, <2>2, <3>1 DEF SignLength
  <2>. QED BY <1>2, <2>1, <2>2
<1>8. Unsigned(t) = SubSeq(s, m + 1 + e + 1, n)
  <2>1. PICK a \in Nat, c \in Nat : a = m + 1 /\ c = e
    BY <1>2
  <2>2. n <= Len(s) /\ a + l = n
    BY <1>1, <1>3, <2>1
  <2>3. SubSeq(SubSeq(s, a + 1, n), c + 1, l) = SubSeq(s, a + c + 1, a + l)
    BY <2>2, PartOfPart
  <2>. QED BY <1>4, <1>5, <1>7, <2>1, <2>2, <2>3 DEF Unsigned
<1>9. Unsigned(t) # <<>> /\ AllDigits(Unsigned(t))
  <2>1. PICK a \in Nat : a = m + 1 + e /\ a < n /\ n <= Len(s)
    BY <1>1, <1>2
  <2>2. \A i \in (a + 1)..n : IsDigit(s[i])
    BY <1>1, <2>1 DEF Reads
  <2>3. PICK u : u = SubSeq(s, a + 1, n)
    OBVIOUS
  <2>4. /\ u \in Seq(S) /\ Len(u) = (IF a < n THEN n - a ELSE 0)
        /\ AllDigits(u) <=> \A i \in (a + 1)..n : IsDigit(s[i])
    BY <2>1, <2>3, PartIs
  <2>5. Len(u) > 0
    BY <2>1, <2>4
  <2>. QED BY <1>8, <2>1, <2>2, <2>3, <2>4, <2>5
<1>. QED BY <1>1, <1>5, <1>6, <1>7, <1>8, <1>9

LEMMA ReadsIsNumber ==
    ASSUME NEW S, NEW s \in Seq(S), NEW g, NEW w, NEW p, NEW f, NEW m, NEW k, NEW e,
           Reads(s, g, w, p, f, m, k, e)
    PROVE  IsNumber(s)
<1>1. /\ g \in 0..1 /\ m \in Nat /\ k \in 0..1 /\ e \in 0..1 /\ g < m /\ Len(s) \in Nat /\ m <= Len(s)
  BY ReadsTypes
<1>2. s # <<>> /\ SignLength(s) = g /\ ExponentAt(s) = IF k = 1 THEN m + 1 ELSE 0
  BY MantissaRead
<1>3. IsMantissa(Mantissa(s)) /\ Mantissa(s) # <<>>
  BY PointRead
<1>4. Len(s) > SignLength(s)
  BY <1>1, <1>2
<1>5. k = 1 => Unsigned(Exponent(s)) # <<>> /\ AllDigits(Unsigned(Exponent(s)))
  BY ExponentRead
<1>. QED BY <1>1, <1>2, <1>3, <1>4, <1>5 DEF IsNumber

LEMMA OneReading ==
    ASSUME NEW S, NEW s \in Seq(S), NEW x \in Readings(s), NEW y \in Readings(s)
    PROVE  x = y
<1>. DEFINE PlacesOfText == [sign |-> SignLength(s),
                             whole |-> WholeLength(Mantissa(s)),
                             point |-> IF PointsIn(Mantissa(s)) = {} THEN 0 ELSE 1,
                             mark |-> IF ExponentAt(s) = 0 THEN 0 ELSE 1,
                             length |-> IF ExponentAt(s) = 0 THEN Len(s) ELSE ExponentAt(s) - 1,
                             esign |-> IF ExponentAt(s) = 0 THEN 0 ELSE SignLength(Exponent(s))]
<1>1. ASSUME NEW r \in Readings(s)
      PROVE  LET t == PlacesOfText IN
             r = [sign |-> t.sign, whole |-> t.whole, point |-> t.point,
                  part |-> t.length - t.sign - t.whole - t.point, mark |-> t.mark, esign |-> t.esign]
  <2>1. PICK g \in 0..1, w \in Nat, p \in 0..1, f \in Nat, k \in 0..1, e \in 0..1 :
           r = [sign |-> g, whole |-> w, point |-> p, part |-> f, mark |-> k, esign |-> e]
    BY ReadingReads
  <2>2. PICK m : m = ReadLength(r)
    OBVIOUS
  <2>3. Reads(s, g, w, p, f, m, k, e)
    BY <2>1, <2>2, ReadingReads
  <2>4. m \in Nat /\ m = g + w + p + f /\ (k = 0 => m = Len(s)) /\ Len(s) \in Nat
        /\ (k = 0 => e = 0)
    BY <2>3, ReadsTypes DEF Reads
  <2>5. SignLength(s) = g /\ ExponentAt(s) = IF k = 1 THEN m + 1 ELSE 0
    BY <2>3, MantissaRead
  <2>6. PointsIn(Mantissa(s)) = (IF p = 1 THEN {w + 1} ELSE {}) /\ WholeLength(Mantissa(s)) = w
    BY <2>3, PointRead
  <2>7. k = 1 => SignLength(Exponent(s)) = e
    BY <2>3, ExponentRead
  <2>8. PlacesOfText = [sign |-> g, whole |-> w, point |-> p, mark |-> k, length |-> m, esign |-> e]
    <3>1. (IF PointsIn(Mantissa(s)) = {} THEN 0 ELSE 1) = p
      BY <2>6
    <3>2. (IF ExponentAt(s) = 0 THEN 0 ELSE 1) = k
      BY <2>4, <2>5
    <3>3. (IF ExponentAt(s) = 0 THEN Len(s) ELSE ExponentAt(s) - 1) = m
      BY <2>4, <2>5
    <3>4. (IF ExponentAt(s) = 0 THEN 0 ELSE SignLength(Exponent(s))) = e
      BY <2>4, <2>5, <2>7
    <3>. QED BY <2>5, <2>6, <3>1, <3>2, <3>3, <3>4, Zenon
  <2>. HIDE DEF PlacesOfText
  <2>9. m - g - w - p = f
    BY <2>4
  <2>. QED BY <2>1, <2>8, <2>9
<1>. HIDE DEF PlacesOfText
<1>. QED BY <1>1

\* And what it takes for a number has a reading.
LEMMA NumberReads ==
    ASSUME NEW S, NEW s \in Seq(S), IsNumber(s)
    PROVE  \E g, w, p, f, m, k, e : Reads(s, g, w, p, f, m, k, e)
<1>1. PICK at \in Nat, n \in Nat :
             /\ at = ExponentAt(s) /\ n = Len(s) /\ at <= n
             /\ at # 0 => IsExponentMark(s[at])
             /\ \A i \in 1..n : i < at \/ at = 0 => ~IsExponentMark(s[i])
  BY FirstMarkIs
<1>2. PICK g \in 0..1 : g = SignLength(s) /\ (g = 1 => IsSign(s[1])) /\ g < n
  <2>1. SignLength(s) \in 0..1 /\ (SignLength(s) = 1 => IsSign(s[1]))
    BY DEF SignLength
  <2>. QED BY <1>1, <2>1 DEF IsNumber
<1>3. PICK m \in Nat : m = (IF at = 0 THEN n ELSE at - 1) /\ m <= n
  <2>1. (IF at = 0 THEN n ELSE at - 1) \in Nat /\ (IF at = 0 THEN n ELSE at - 1) <= n
    BY <1>1
  <2>. QED BY <2>1
<1>4. PICK t : t = Mantissa(s) /\ t = SubSeq(s, g + 1, m)
  BY <1>1, <1>2, <1>3 DEF Mantissa
<1>5. /\ t \in Seq(S) /\ Len(t) = (IF g < m THEN m - g ELSE 0)
      /\ \A i \in 1..(m - g) : t[i] = s[g + i]
  <2>1. g \in Nat /\ m <= Len(s)
    BY <1>1, <1>3
  <2>. QED BY <1>3, <1>4, <2>1, PartIs
<1>6. g < m
  <2>1. CASE at = 0
    BY <1>2, <1>3, <2>1
  <2>2. CASE at # 0
    <3>1. t # <<>>
      BY <1>1, <1>4, <2>2 DEF IsNumber
    <3>2. Len(t) # 0
      BY <1>5, <3>1
    <3>. QED BY <1>5, <3>2
  <2>. QED BY <2>1, <2>2
<1>7. PICK l \in Nat : l = m - g /\ l > 0 /\ Len(t) = l /\ DOMAIN t = 1..l
  <2>1. m - g \in Nat /\ m - g > 0 /\ Len(t) = m - g
    BY <1>5, <1>6
  <2>. QED BY <1>5, <2>1
<1>8. /\ \A i \in 1..l : t[i] = s[g + i] /\ (t[i] = "." \/ IsDigit(t[i]))
      /\ \A i, j \in PointsIn(t) : i = j
      /\ PointsIn(t) # {} => l > 1
      /\ PointsIn(t) = {i \in 1..l : t[i] = "."}
  <2>1. IsMantissa(t)
    BY <1>4 DEF IsNumber
  <2>. QED BY <1>5, <1>7, <2>1 DEF IsMantissa, PointsIn
<1>9. PICK w \in Nat, p \in 0..1 :
         /\ w + p <= l /\ (p = 0 => w = l) /\ (p = 1 => t[w + 1] = "." /\ l > 1)
         /\ \A i \in 1..l : t[i] = "." <=> p = 1 /\ i = w + 1
  <2>1. CASE PointsIn(t) = {}
    <3>1. \A i \in 1..l : t[i] # "."
      BY <1>8, <2>1
    <3>2. l + 0 <= l /\ 0 \in 0..1
      OBVIOUS
    <3>. QED BY <3>1, <3>2
  <2>2. CASE PointsIn(t) # {}
    <3>1. PICK i \in 1..l : i \in PointsIn(t)
      BY <1>8, <2>2
    <3>2. PICK w \in Nat : i = w + 1
      <4>1. i - 1 \in Nat /\ i = (i - 1) + 1
        BY <3>1
      <4>. QED BY <4>1
    <3>3. w + 1 <= l /\ 1 \in 0..1
      BY <3>1, <3>2
    <3>4. \A j \in 1..l : t[j] = "." <=> j = w + 1
      BY <1>8, <3>1, <3>2
    <3>5. t[w + 1] = "." /\ l > 1
      BY <1>8, <2>2, <3>1, <3>2
    <3>. QED BY <3>3, <3>4, <3>5
  <2>. QED BY <2>1, <2>2
<1>10. PICK f \in Nat : f = l - w - p /\ m = g + w + p + f /\ w + f > 0 /\ (p = 0 => f = 0)
  <2>1. /\ l - w - p \in Nat /\ m = g + w + p + (l - w - p)
        /\ w + (l - w - p) > 0 /\ (p = 0 => l - w - p = 0)
    BY <1>7, <1>9
  <2>. QED BY <2>1
<1>11. \A i \in (g + 1)..(g + w) : IsDigit(s[i])
  <2>. SUFFICES ASSUME NEW i \in (g + 1)..(g + w) PROVE IsDigit(s[i])
    OBVIOUS
  <2>1. i - g \in 1..l /\ i - g # w + 1 /\ g + (i - g) = i
    BY <1>9
  <2>2. t[i - g] = s[g + (i - g)] /\ (t[i - g] = "." \/ IsDigit(t[i - g])) /\ t[i - g] # "."
    BY <1>8, <1>9, <2>1
  <2>. QED BY <2>1, <2>2
<1>12. \A i \in (m - f + 1)..m : IsDigit(s[i])
  <2>. SUFFICES ASSUME NEW i \in (m - f + 1)..m PROVE IsDigit(s[i])
    OBVIOUS
  <2>1. i - g \in 1..l /\ ~(p = 1 /\ i - g = w + 1) /\ g + (i - g) = i
    BY <1>7, <1>9, <1>10
  <2>2. t[i - g] = s[g + (i - g)] /\ (t[i - g] = "." \/ IsDigit(t[i - g])) /\ t[i - g] # "."
    BY <1>8, <1>9, <2>1
  <2>. QED BY <2>1, <2>2
<1>13. p = 1 => s[g + w + 1] = "."
  <2>. SUFFICES ASSUME p = 1 PROVE s[g + w + 1] = "."
    OBVIOUS
  <2>1. w + 1 \in 1..l /\ g + (w + 1) = g + w + 1
    BY <1>9
  <2>2. t[w + 1] = s[g + (w + 1)] /\ t[w + 1] = "."
    BY <1>8, <1>9, <2>1
  <2>. QED BY <2>1, <2>2
<1>14. CASE at = 0
  <2>1. m = n /\ m <= Len(s) /\ m = Len(s)
    BY <1>1, <1>3, <1>14
  <2>2. Reads(s, g, w, p, f, m, 0, 0)
    BY <1>2, <1>9, <1>10, <1>11, <1>12, <1>13, <2>1 DEF Reads
  <2>. QED BY <2>2
<1>15. CASE at # 0
  <2>1. at = m + 1 /\ m + 1 <= n /\ IsExponentMark(s[m + 1])
    BY <1>1, <1>3, <1>15
  <2>2. PICK x : x = Exponent(s) /\ x = SubSeq(s, m + 1 + 1, n)
    BY <1>1, <1>15, <2>1 DEF Exponent
  <2>3. PICK le \in Nat : le = n - (m + 1)
    <3>1. n - (m + 1) \in Nat
      BY <2>1
    <3>. QED BY <3>1
  <2>4. x \in Seq(S) /\ Len(x) = le /\ \A i \in 1..le : x[i] = s[m + 1 + i]
    <3>1. m + 1 \in Nat /\ n \in Nat /\ n <= Len(s)
      BY <1>1
    <3>2. /\ SubSeq(s, m + 1 + 1, n) \in Seq(S)
          /\ Len(SubSeq(s, m + 1 + 1, n)) = (IF m + 1 < n THEN n - (m + 1) ELSE 0)
          /\ \A i \in 1..(n - (m + 1)) : SubSeq(s, m + 1 + 1, n)[i] = s[m + 1 + i]
      BY <3>1, PartIs
    <3>3. (IF m + 1 < n THEN n - (m + 1) ELSE 0) = le
      BY <2>1, <2>3
    <3>. QED BY <2>2, <2>3, <3>2, <3>3
  <2>5. PICK e \in 0..1 : e = SignLength(x) /\ (e = 1 => x # <<>> /\ IsSign(x[1]))
    <3>1. SignLength(x) \in 0..1 /\ (SignLength(x) = 1 => x # <<>> /\ IsSign(x[1]))
      BY DEF SignLength
    <3>. QED BY <3>1
  <2>6. PICK u : u = Unsigned(x) /\ u = SubSeq(x, e + 1, le) /\ u # <<>> /\ AllDigits(u)
    BY <1>1, <1>15, <2>2, <2>4, <2>5 DEF Unsigned, IsNumber
  <2>7. e < le /\ \A i \in (e + 1)..le : IsDigit(x[i])
    <3>1. e \in Nat /\ le <= Len(x)
      BY <2>4
    <3>2. /\ u \in Seq(S) /\ Len(u) = (IF e < le THEN le - e ELSE 0)
          /\ AllDigits(u) <=> \A i \in (e + 1)..le : IsDigit(x[i])
      <4>1. PICK a \in Nat : a = e
        BY <3>1
      <4>2. /\ SubSeq(x, a + 1, le) \in Seq(S)
            /\ Len(SubSeq(x, a + 1, le)) = (IF a < le THEN le - a ELSE 0)
            /\ AllDigits(SubSeq(x, a + 1, le)) <=> \A i \in (a + 1)..le : IsDigit(x[i])
        BY <2>4, <3>1, PartIs
      <4>. QED BY <2>6, <4>1, <4>2
    <3>3. Len(u) # 0
      BY <2>6, <3>2
    <3>. QED BY <2>6, <3>2, <3>3
  <2>8. \A i \in (m + 1 + e + 1)..n : IsDigit(s[i])
    <3>. SUFFICES ASSUME NEW i \in (m + 1 + e + 1)..n PROVE IsDigit(s[i])
      OBVIOUS
    <3>1. i - (m + 1) \in (e + 1)..le /\ i - (m + 1) \in 1..le /\ m + 1 + (i - (m + 1)) = i
      BY <2>3
    <3>2. x[i - (m + 1)] = s[m + 1 + (i - (m + 1))]
      BY <2>4, <3>1
    <3>. QED BY <2>7, <3>1, <3>2
  <2>9. e = 1 => IsSign(s[m + 2])
    <3>. SUFFICES ASSUME e = 1 PROVE IsSign(s[m + 2])
      OBVIOUS
    <3>1. 1 \in 1..le /\ m + 1 + 1 = m + 2
      BY <2>7
    <3>2. x[1] = s[m + 1 + 1]
      BY <2>4, <3>1
    <3>. QED BY <2>5, <3>1, <3>2
  <2>10. m <= Len(s) /\ m + 1 + e < Len(s) /\ n = Len(s)
    BY <1>1, <1>3, <2>3, <2>7
  <2>11. Reads(s, g, w, p, f, m, 1, e)
    BY <1>2, <1>9, <1>10, <1>11, <1>12, <1>13, <2>1, <2>8, <2>9, <2>10 DEF Reads
  <2>. QED BY <2>11
<1>. QED BY <1>14, <1>15

-----------------------------------------------------------------------------
(* The value of a text.                                                    *)

LEMMA NoDigitsLeft ==
    ASSUME NEW digits \in Seq(0..9)
    PROVE  /\ ValueOf(digits) = 0 <=> DropLeading(digits) = <<>>
           /\ DropLeading(digits) \in Seq(0..9) /\ Len(DropLeading(digits)) <= Len(digits)
           /\ DropLeading(digits) # <<>> => /\ Len(DropLeading(digits)) > 0
                                            /\ DropLeading(digits)[1] # 0
<1>1. PICK zeros \in 0..Len(digits), text \in Seq(0..9) :
              /\ text = DropLeading(digits) /\ Len(text) = Len(digits) - zeros
              /\ \A i \in 1..zeros : digits[i] = 0
              /\ \A i \in 1..Len(text) : text[i] = digits[zeros + i]
              /\ zeros = Len(digits) \/ digits[zeros + 1] # 0
  BY DropLeadingIs
<1>2. PICK n \in Nat, l \in Nat : n = Len(digits) /\ l = Len(text) /\ l = n - zeros
  BY <1>1
<1>3. ValueOf(text) = ValueOf(digits)
  BY <1>1, ValueOfDropped
<1>4. CASE l = 0
  <2>1. text = <<>> /\ \A i \in 1..l : text[i] = 0
    <3>1. text = <<>>
      BY <1>2, <1>4, EmptySeq
    <3>. QED BY <1>4, <3>1
  <2>2. ValueOf(text) = 0
    BY <1>2, <2>1, ValueOfZeros
  <2>. QED BY <1>1, <1>2, <1>3, <1>4, <2>1, <2>2
<1>5. CASE l > 0
  <2>1. 1 \in 1..l /\ zeros # n
    BY <1>2, <1>5
  <2>2. text[1] # 0
    BY <1>1, <1>2, <2>1
  <2>3. Len(text) > 0 /\ text # <<>>
    <3>1. Len(text) # 0
      BY <1>2, <1>5
    <3>. QED BY <1>2, <1>5, <3>1, EmptySeq
  <2>4. Len(text) - 1 \in Nat /\ PowerOfTen[Len(text) - 1] <= ValueOf(text)
    BY <2>2, <2>3, FirstDigitCounts
  <2>5. PowerOfTen[Len(text) - 1] \in Nat \ {0} /\ ValueOf(text) \in Nat
    BY <2>4, PowerOfTenIs, ValueFits
  <2>6. ValueOf(text) # 0
    BY <2>4, <2>5
  <2>. QED BY <1>1, <1>2, <1>3, <2>2, <2>3, <2>6
<1>. QED BY <1>2, <1>4, <1>5

\* A number that is not zero keeps its sign.
LEMMA SignIsKept ==
    ASSUME NEW neg \in BOOLEAN, NEW int \in Seq(0..9), NEW frac \in Seq(0..9), NEW p \in Nat,
           Len(frac) <= p, Magnitude(Canonical(neg, int, frac), p) # 0
    PROVE  /\ Shaped(Canonical(neg, int, frac)) /\ Canonical(neg, int, frac) # NaN
           /\ Canonical(neg, int, frac).neg = neg
           /\ Len(Canonical(neg, int, frac).frac) <= p
<1>1. PICK x : x = Canonical(neg, int, frac)
  OBVIOUS
<1>2. /\ Shaped(x) /\ x # NaN /\ (x.neg => neg)
      /\ neg => x.neg \/ (x.int = <<0>> /\ x.frac = <<>>)
      /\ Len(x.frac) <= Len(frac)
  BY <1>1, CanonicalIs
<1>3. x.neg \in BOOLEAN /\ x.frac \in Seq(0..9) /\ x \in Numbers
  BY <1>2, ShapedIsCanonical
<1>4. Len(x.frac) <= p
  <2>1. Len(x.frac) \in Nat /\ Len(frac) \in Nat
    BY <1>3
  <2>. QED BY <1>2, <2>1
<1>5. x # Zero
  BY <1>1, <1>2, <1>4, NegativeIsNotZero
<1>6. neg => x.neg
  <2>. SUFFICES ASSUME neg, ~x.neg PROVE FALSE
    OBVIOUS
  <2>1. x.int = <<0>> /\ x.frac = <<>> /\ x.neg = FALSE
    BY <1>2, <1>3
  <2>2. x = [neg |-> FALSE, int |-> <<0>>, frac |-> <<>>]
    BY <1>3, <2>1 DEF Numbers
  <2>. QED BY <1>5, <2>2, ZeroIs
<1>. QED BY <1>1, <1>2, <1>3, <1>4, <1>6

\* A point that is moved leaves the digits as they are.
MovedTo(x, neg, digits, up, places) ==
    /\ x # NaN /\ Shaped(x) /\ Len(x.frac) <= places /\ (x.neg <=> neg)
    /\ Magnitude(x, places) = ValueOf(digits) * PowerOfTen[up + places]

LEMMA CanonicalHas ==
    ASSUME NEW neg \in BOOLEAN, NEW int \in Seq(0..9), NEW frac \in Seq(0..9), NEW p \in Nat,
           Len(frac) = p, NEW digits \in Seq(0..9), ValueOf(digits) # 0, NEW up \in Int, up + p \in Nat,
           ValueOf(int) * PowerOfTen[p] + ValueOf(frac) = ValueOf(digits) * PowerOfTen[up + p]
    PROVE  MovedTo(Canonical(neg, int, frac), neg, digits, up, p)
<1>1. PICK v \in Nat \ {0} : v = ValueOf(digits)
  BY ValueFits
<1>2. PICK t \in Nat \ {0} : t = PowerOfTen[up + p]
  BY PowerOfTenIs
<1>3. PICK f \in Nat : f = ValueOf(frac)
  BY ValueFits
<1>4. v * t # 0
  <2>1. 0 * t < v * t
    <3>1. 0 \in Int /\ v \in Int /\ 0 < v
      OBVIOUS
    <3>. QED BY <3>1, TimesGrows
  <2>2. v * t \in Int /\ 0 * t = 0
    OBVIOUS
  <2>. QED BY <2>1, <2>2
<1>5. Len(frac) <= p
  OBVIOUS
<1>6. Magnitude(Canonical(neg, int, frac), p)
        = ValueOf(int) * PowerOfTen[p] + ValueOf(frac) * PowerOfTen[p - Len(frac)]
  BY <1>5, MagnitudeOfCanonical
<1>7. PowerOfTen[p - Len(frac)] = 1
  <2>1. p - Len(frac) = 0
    OBVIOUS
  <2>. QED BY <2>1, PowerOfTenIs
<1>8. Magnitude(Canonical(neg, int, frac), p) = ValueOf(int) * PowerOfTen[p] + f * 1
  BY <1>3, <1>6, <1>7
<1>9. f * 1 = f
  OBVIOUS
<1>10. Magnitude(Canonical(neg, int, frac), p) = v * t
  BY <1>1, <1>2, <1>3, <1>8, <1>9
<1>11. Magnitude(Canonical(neg, int, frac), p) # 0
  BY <1>4, <1>10
<1>12. /\ Shaped(Canonical(neg, int, frac)) /\ Canonical(neg, int, frac) # NaN
       /\ Canonical(neg, int, frac).neg = neg
       /\ Len(Canonical(neg, int, frac).frac) <= p
  BY <1>5, <1>11, SignIsKept
<1>. QED BY <1>1, <1>2, <1>10, <1>12 DEF MovedTo

LEMMA MovedIs ==
    ASSUME NEW neg \in BOOLEAN, NEW digits \in Seq(0..9), ValueOf(digits) # 0, NEW n \in Int,
           NEW up \in Int, up = n - Len(digits),
           NEW places \in Nat, places = IF up < 0 THEN 0 - up ELSE 0
    PROVE  MovedTo(Moved(neg, digits, n), neg, digits, up, places)
<1>1. PICK l \in Nat : l = Len(digits)
  OBVIOUS
<1>2. PICK v \in Nat : v = ValueOf(digits) /\ v # 0
  BY ValueFits
<1>3. l > 0
  <2>. SUFFICES ASSUME l = 0 PROVE FALSE
    OBVIOUS
  <2>1. \A i \in 1..Len(digits) : digits[i] = 0
    BY <1>1
  <2>. QED BY <2>1, ValueOfZeros
<1>4. up + places \in Nat
  OBVIOUS
<1>5. CASE n <= 0
  <2>1. PICK k \in Nat : k = 0 - n
    BY <1>5
  <2>2. PICK z \in Seq(0..9) : z = Zeros(0 - n) /\ Len(z) = k /\ ValueOf(z) = 0
    <3>1. 0 - n \in Int
      OBVIOUS
    <3>2. /\ Zeros(0 - n) \in Seq(0..9)
          /\ Len(Zeros(0 - n)) = (IF 0 - n > 0 THEN 0 - n ELSE 0)
          /\ \A i \in 1..Len(Zeros(0 - n)) : Zeros(0 - n)[i] = 0
      BY <3>1, ZerosAre
    <3>3. ValueOf(Zeros(0 - n)) = 0
      BY <3>2, ValueOfZeros
    <3>4. (IF 0 - n > 0 THEN 0 - n ELSE 0) = k
      BY <2>1
    <3>. QED BY <3>2, <3>3, <3>4
  <2>3. PICK frac \in Seq(0..9) : frac = z \o digits /\ Len(frac) = k + l
    <3>1. z \o digits \in Seq(0..9) /\ Len(z \o digits) = Len(z) + Len(digits)
      BY ConcatProperties
    <3>. QED BY <1>1, <2>2, <3>1
  <2>4. ValueOf(frac) = 0 * PowerOfTen[l] + v
    <3>1. z \in Seq(Int) /\ digits \in Seq(Int)
      BY DigitsAreInts
    <3>2. ValueOf(z \o digits) = ValueOf(z) * PowerOfTen[Len(digits)] + ValueOf(digits)
      BY <3>1, ValueOfBoth
    <3>. QED BY <1>1, <1>2, <2>2, <2>3, <3>2
  <2>5. places = k + l /\ up + places = 0
    BY <1>1, <1>3, <1>5, <2>1
  <2>6. PICK t \in Nat \ {0}, y \in Nat \ {0} : t = PowerOfTen[places] /\ y = PowerOfTen[l]
    BY PowerOfTenIs
  <2>7. ValueOf(<<0>>) * PowerOfTen[places] + ValueOf(frac) = v * PowerOfTen[up + places]
    <3>1. ValueOf(<<0>>) = 0 /\ PowerOfTen[up + places] = 1
      BY <2>5, ZeroIs, PowerOfTenIs
    <3>2. 0 * t = 0 /\ 0 * y = 0 /\ v * 1 = v
      OBVIOUS
    <3>. QED BY <2>4, <2>6, <3>1, <3>2
  <2>8. <<0>> \in Seq(0..9) /\ Len(frac) = places
    BY <2>3, <2>5
  <2>9. MovedTo(Canonical(neg, <<0>>, frac), neg, digits, up, places)
    BY <1>2, <1>4, <2>7, <2>8, CanonicalHas
  <2>10. Moved(neg, digits, n) = Canonical(neg, <<0>>, frac)
    BY <1>5, <2>2, <2>3 DEF Moved
  <2>. QED BY <2>9, <2>10
<1>6. CASE n > 0 /\ n < l
  <2>1. n \in Nat /\ n \in 0..Len(digits) /\ places = l - n /\ up + places = 0
    BY <1>1, <1>6
  <2>2. PadRight(digits, n) = digits
    <3>1. /\ PadRight(digits, n) \in Seq(0..9)
          /\ Len(PadRight(digits, n)) = (IF Len(digits) > n THEN Len(digits) ELSE n)
          /\ \A i \in 1..Len(PadRight(digits, n)) :
               PadRight(digits, n)[i] = IF i <= Len(digits) THEN digits[i] ELSE 0
      BY <2>1, PadRightIs
    <3>2. Len(PadRight(digits, n)) = l
      BY <1>1, <1>6, <3>1
    <3>3. \A i \in 1..l : PadRight(digits, n)[i] = digits[i]
      BY <1>1, <3>1, <3>2
    <3>. QED BY <1>1, <3>1, <3>2, <3>3, SeqEqual
  <2>3. PICK int \in Seq(0..9), frac \in Seq(0..9) :
          /\ int = SubSeq(digits, 1, n) /\ Len(int) = n /\ \A i \in 1..n : int[i] = digits[i]
          /\ frac = SubSeq(digits, n + 1, Len(digits)) /\ Len(frac) = l - n
    BY <1>1, <2>1, PartsAre
  <2>4. ValueOf(int) = PrefixValues(digits)[n]
    <3>1. digits \in Seq(Int) /\ int \in Seq(Int)
      BY DigitsAreInts
    <3>2. n \in 0..Len(digits) /\ n <= Len(int) /\ \A j \in 1..n : digits[j] = int[j]
      BY <2>1, <2>3
    <3>3. PrefixValues(digits)[n] = PrefixValues(int)[n]
      BY <3>1, <3>2, PrefixesAgree
    <3>. QED BY <2>3, <3>3 DEF ValueOf
  <2>5. v = ValueOf(int) * PowerOfTen[places] + ValueOf(frac)
    <3>1. PICK rest : /\ rest = ValueOf(SubSeq(digits, n + 1, Len(digits)))
                      /\ ValueOf(digits) = PrefixValues(digits)[n] * PowerOfTen[Len(digits) - n] + rest
      BY <2>1, ValueAfter
    <3>. QED BY <1>1, <1>2, <2>1, <2>3, <2>4, <3>1
  <2>6. ValueOf(int) * PowerOfTen[places] + ValueOf(frac) = v * PowerOfTen[up + places]
    <3>1. PowerOfTen[up + places] = 1
      BY <2>1, PowerOfTenIs
    <3>2. v * 1 = v
      OBVIOUS
    <3>. QED BY <2>5, <3>1, <3>2
  <2>7. Len(frac) = places
    BY <2>1, <2>3
  <2>8. MovedTo(Canonical(neg, int, frac), neg, digits, up, places)
    BY <1>2, <1>4, <2>6, <2>7, CanonicalHas
  <2>9. Moved(neg, digits, n) = Canonical(neg, int, frac)
    BY <1>6, <2>2, <2>3 DEF Moved
  <2>. QED BY <2>8, <2>9
<1>7. CASE n >= l
  <2>1. n \in Nat /\ places = 0 /\ up + places = n - l /\ n - l \in Nat
    BY <1>1, <1>7
  <2>2. PICK int \in Seq(0..9) : /\ int = PadRight(digits, n) /\ Len(int) = n
                                 /\ ValueOf(int) = v * PowerOfTen[n - l]
    <3>1. /\ PadRight(digits, n) \in Seq(0..9)
          /\ Len(PadRight(digits, n)) = (IF Len(digits) > n THEN Len(digits) ELSE n)
          /\ Len(digits) <= n =>
                ValueOf(PadRight(digits, n)) = ValueOf(digits) * PowerOfTen[n - Len(digits)]
      BY <2>1, PadRightIs
    <3>. QED BY <1>1, <1>2, <1>7, <3>1
  <2>3. SubSeq(int, 1, n) = int
    BY <2>2
  <2>4. SubSeq(digits, n + 1, Len(digits)) = <<>>
    <3>1. l <= Len(digits)
      BY <1>1
    <3>2. /\ SubSeq(digits, n + 1, l) \in Seq(0..9)
          /\ Len(SubSeq(digits, n + 1, l)) = (IF n < l THEN l - n ELSE 0)
      BY <2>1, <3>1, PartIs
    <3>3. Len(SubSeq(digits, n + 1, l)) = 0
      BY <1>7, <3>2
    <3>. QED BY <1>1, <3>2, <3>3, EmptySeq
  <2>5. PICK frac \in Seq(0..9) : frac = <<>> /\ Len(frac) = places /\ ValueOf(frac) = 0
    <3>1. <<>> \in Seq(0..9) /\ Len(<<>>) = 0 /\ \A i \in 1..Len(<<>>) : <<>>[i] = 0
      BY EmptySeq
    <3>2. ValueOf(<<>>) = 0
      BY <3>1, ValueOfZeros
    <3>. QED BY <2>1, <3>1, <3>2
  <2>6. ValueOf(int) * PowerOfTen[places] + ValueOf(frac) = v * PowerOfTen[up + places]
    <3>1. PICK t \in Nat \ {0} : t = PowerOfTen[n - l]
      BY <2>1, PowerOfTenIs
    <3>2. PowerOfTen[places] = 1 /\ PowerOfTen[up + places] = t
      BY <2>1, <3>1, PowerOfTenIs
    <3>3. v * t \in Int /\ (v * t) * 1 + 0 = v * t
      BY TimesIsInt
    <3>. QED BY <2>2, <2>5, <3>1, <3>2, <3>3
  <2>7. MovedTo(Canonical(neg, int, frac), neg, digits, up, places)
    BY <1>2, <1>4, <2>5, <2>6, CanonicalHas
  <2>8. Moved(neg, digits, n) = Canonical(neg, int, frac)
    <3>1. ~(n <= 0)
      BY <1>3, <1>7
    <3>. QED BY <2>2, <2>3, <2>4, <2>5, <3>1 DEF Moved
  <2>. QED BY <2>7, <2>8
<1>. QED BY <1>1, <1>5, <1>6, <1>7

\* The digits a reading has are those the parser takes.
LEMMA DigitsAreRead ==
    ASSUME NEW S, NEW s \in Seq(S), NEW g, NEW w, NEW p, NEW f, NEW m, NEW k, NEW e,
           Reads(s, g, w, p, f, m, k, e)
    PROVE  \E x \in Seq(0..9), y \in Seq(0..9) :
             /\ x = WholeDigits(Mantissa(s)) /\ x = CharDigits(Part(s, g, w)) /\ Len(x) = w
             /\ y = PartDigits(Mantissa(s)) /\ y = CharDigits(Part(s, m - f, f)) /\ Len(y) = f
<1>1. PICK n \in Nat : n = Len(s)
  OBVIOUS
<1>2. /\ g \in 0..1 /\ w \in Nat /\ p \in 0..1 /\ f \in Nat /\ m \in Nat
      /\ m = g + w + p + f /\ (p = 0 => f = 0) /\ g < m /\ m <= n
  BY <1>1, ReadsTypes
<1>3. PICK t \in Seq(S), l \in Nat : /\ t = Mantissa(s) /\ t = SubSeq(s, g + 1, m) /\ WholeLength(t) = w
                                     /\ l = Len(t) /\ l = m - g
  <2>1. g \in Nat /\ m \in Nat /\ m <= Len(s)
    BY <1>1, <1>2
  <2>2. /\ SubSeq(s, g + 1, m) \in Seq(S)
        /\ Len(SubSeq(s, g + 1, m)) = (IF g < m THEN m - g ELSE 0)
    BY <2>1, PartIs
  <2>3. Mantissa(s) = SubSeq(s, g + 1, m) /\ WholeLength(Mantissa(s)) = w
    BY MantissaRead, PointRead
  <2>4. m - g \in Nat /\ (IF g < m THEN m - g ELSE 0) = m - g
    BY <1>2
  <2>. QED BY <2>2, <2>3, <2>4
<1>4. PICK h \in Nat : h = g
  BY <1>2
<1>5. PICK x \in Seq(0..9) : x = WholeDigits(t) /\ x = CharDigits(Part(s, g, w)) /\ Len(x) = w
  <2>1. 0 \in Nat /\ h + w <= m /\ m <= Len(s)
    BY <1>1, <1>2, <1>4
  <2>2. SubSeq(SubSeq(s, h + 1, m), 0 + 1, w) = SubSeq(s, h + 0 + 1, h + w)
    BY <1>2, <2>1, PartOfPart
  <2>3. SubSeq(t, 1, w) = SubSeq(s, h + 1, h + w)
    <3>1. 0 + 1 = 1 /\ h + 0 + 1 = h + 1
      OBVIOUS
    <3>. QED BY <1>3, <1>4, <2>2, <3>1
  <2>4. PICK b \in Nat : b = h + w /\ b <= Len(s)
    <3>1. h + w \in Nat /\ h + w <= Len(s)
      BY <1>1, <1>2, <1>4
    <3>. QED BY <3>1
  <2>5. \A i \in (h + 1)..b : IsDigit(s[i])
    BY <1>4, <2>4 DEF Reads
  <2>6. /\ CharDigits(SubSeq(s, h + 1, b)) \in Seq(0..9)
        /\ Len(CharDigits(SubSeq(s, h + 1, b))) = (IF h < b THEN b - h ELSE 0)
    BY <2>4, <2>5, DigitsOfPart
  <2>7. (IF h < b THEN b - h ELSE 0) = w
    BY <1>2, <2>4
  <2>8. WholeDigits(t) = CharDigits(SubSeq(t, 1, w)) /\ Part(s, g, w) = SubSeq(s, h + 1, b)
    BY <1>3, <1>4, <2>4 DEF WholeDigits, Part
  <2>. QED BY <2>3, <2>4, <2>6, <2>7, <2>8
<1>6. PICK y \in Seq(0..9) : y = PartDigits(t) /\ y = CharDigits(Part(s, m - f, f)) /\ Len(y) = f
  <2>1. PICK a \in Nat : a = m - f /\ a + f = m /\ a <= m
    <3>1. m - f \in Nat /\ (m - f) + f = m /\ m - f <= m
      BY <1>2
    <3>. QED BY <3>1
  <2>2. Part(s, m - f, f) = SubSeq(s, a + 1, m)
    BY <2>1 DEF Part
  <2>3. m <= Len(s) /\ \A i \in (a + 1)..m : IsDigit(s[i])
    BY <1>1, <1>2, <2>1 DEF Reads
  <2>4. /\ CharDigits(SubSeq(s, a + 1, m)) \in Seq(0..9)
        /\ Len(CharDigits(SubSeq(s, a + 1, m))) = (IF a < m THEN m - a ELSE 0)
    <3>1. PICK b \in Nat : b = m
      BY <1>2
    <3>2. b <= Len(s) /\ \A i \in (a + 1)..b : IsDigit(s[i])
      BY <2>3, <3>1
    <3>3. /\ CharDigits(SubSeq(s, a + 1, b)) \in Seq(0..9)
          /\ Len(CharDigits(SubSeq(s, a + 1, b))) = (IF a < b THEN b - a ELSE 0)
      BY <3>2, DigitsOfPart
    <3>. QED BY <3>1, <3>3
  <2>5. (IF a < m THEN m - a ELSE 0) = f
    BY <1>2, <2>1
  <2>6. SubSeq(t, w + 2, l) = SubSeq(s, a + 1, m)
    <3>1. CASE p = 1
      <4>1. PICK c \in Nat : c = w + 1 /\ c + 1 = w + 2
        BY <1>2
      <4>2. h + l <= m /\ h + l = m /\ h + c = a /\ m <= Len(s)
        BY <1>1, <1>2, <1>3, <1>4, <2>1, <3>1, <4>1
      <4>3. SubSeq(SubSeq(s, h + 1, m), c + 1, l) = SubSeq(s, h + c + 1, h + l)
        BY <1>2, <4>2, PartOfPart
      <4>. QED BY <1>3, <1>4, <4>1, <4>2, <4>3
    <3>2. CASE p = 0
      <4>1. PICK c \in Nat : c = w + 1 /\ c + 1 = w + 2 /\ ~(c < l) /\ ~(a < m)
        BY <1>2, <1>3, <2>1, <3>2
      <4>2. l <= Len(t) /\ m <= Len(s)
        BY <1>1, <1>2, <1>3
      <4>3. /\ SubSeq(t, c + 1, l) \in Seq(S)
            /\ Len(SubSeq(t, c + 1, l)) = (IF c < l THEN l - c ELSE 0)
        BY <4>2, PartIs
      <4>4. /\ SubSeq(s, a + 1, m) \in Seq(S)
            /\ Len(SubSeq(s, a + 1, m)) = (IF a < m THEN m - a ELSE 0)
        BY <1>2, <4>2, PartIs
      <4>5. SubSeq(t, c + 1, l) = <<>>
        <5>1. Len(SubSeq(t, c + 1, l)) = 0
          BY <4>1, <4>3
        <5>. QED BY <4>3, <5>1, EmptySeq
      <4>6. SubSeq(s, a + 1, m) = <<>>
        <5>1. Len(SubSeq(s, a + 1, m)) = 0
          BY <4>1, <4>4
        <5>. QED BY <4>4, <5>1, EmptySeq
      <4>. QED BY <4>1, <4>5, <4>6
    <3>. QED BY <1>2, <3>1, <3>2
  <2>7. PartDigits(t) = CharDigits(SubSeq(t, w + 2, l))
    BY <1>3 DEF PartDigits
  <2>. QED BY <2>2, <2>4, <2>5, <2>6, <2>7
<1>. QED BY <1>3, <1>5, <1>6

LEMMA ExponentDigitsRead ==
    ASSUME NEW S, NEW s \in Seq(S), NEW g, NEW w, NEW p, NEW f, NEW m, NEW e,
           Reads(s, g, w, p, f, m, 1, e)
    PROVE  \E x \in Seq(0..9) : /\ x = CharDigits(Unsigned(Exponent(s)))
                                /\ x = CharDigits(SubSeq(s, m + 2 + e, Len(s)))
<1>1. PICK n \in Nat : n = Len(s)
  OBVIOUS
<1>2. m \in Nat /\ e \in 0..1 /\ m + 1 + e < n
  BY <1>1, ReadsTypes
<1>3. PICK a \in Nat : a = m + 1 + e /\ a + 1 = m + 2 + e
  BY <1>2
<1>4. n <= Len(s) /\ \A i \in (a + 1)..n : IsDigit(s[i])
  BY <1>1, <1>3 DEF Reads
<1>5. CharDigits(SubSeq(s, a + 1, n)) \in Seq(0..9)
  BY <1>4, DigitsOfPart
<1>6. Unsigned(Exponent(s)) = SubSeq(s, a + 1, n)
  BY <1>1, <1>3, ExponentRead
<1>. QED BY <1>1, <1>3, <1>5, <1>6

\* The expansion of an exponent: nothing when the digits are zeros, NaN when it
\* takes too many digits, and more than were written, or the point moved.
ExpandsTo(x, neg, digits, up, marked) ==
    LET whole == Len(DropLeading(digits)) + up
        long == IF up >= 0 THEN whole ELSE (IF whole > 0 THEN whole ELSE 1) - up
    IN IF ValueOf(digits) = 0 THEN x = Zero
       ELSE IF marked /\ long > MaxExpanded /\ long > Len(digits) THEN x = NaN
       ELSE MovedTo(x, neg, digits, up, IF up < 0 THEN 0 - up ELSE 0)

LEMMA ExpandIs ==
    ASSUME NEW t, NEW x \in Seq(0..9), NEW y \in Seq(0..9), x = WholeDigits(t), y = PartDigits(t),
           WholeLength(t) = Len(x), NEW neg \in BOOLEAN, NEW shift \in Int
    PROVE  ExpandsTo(Expand(neg, t, shift), neg, x \o y, shift - Len(y), TRUE)
<1>1. PICK digits \in Seq(0..9) : digits = x \o y /\ Len(digits) = Len(x) + Len(y)
  BY ConcatProperties
<1>2. PICK first \in Seq(0..9) : /\ first = DropLeading(digits) /\ ValueOf(first) = ValueOf(digits)
                                 /\ Len(first) <= Len(digits)
                                 /\ ValueOf(digits) = 0 <=> first = <<>>
                                 /\ first # <<>> => Len(first) > 0
  <2>1. ValueOf(DropLeading(digits)) = ValueOf(digits)
    BY ValueOfDropped
  <2>2. /\ ValueOf(digits) = 0 <=> DropLeading(digits) = <<>>
        /\ DropLeading(digits) \in Seq(0..9) /\ Len(DropLeading(digits)) <= Len(digits)
        /\ DropLeading(digits) # <<>> => Len(DropLeading(digits)) > 0
    BY NoDigitsLeft
  <2>. QED BY <2>1, <2>2
<1>3. PICK w \in Nat, f \in Nat, l \in Nat, all \in Nat :
         w = Len(x) /\ f = Len(y) /\ l = Len(first) /\ all = Len(digits) /\ all = w + f
  BY <1>1
<1>4. PICK n \in Int, up \in Int : n = w - (all - l) + shift /\ up = shift - f /\ n = l + up
  <2>1. w - (all - l) + shift \in Int /\ shift - f \in Int /\ w - (all - l) + shift = l + (shift - f)
    BY <1>3
  <2>. QED BY <2>1
<1>5. PICK most \in Nat : /\ most = (IF all > MaxExpanded THEN all ELSE MaxExpanded)
  BY ExpansionAssumption
<1>6. Expand(neg, t, shift) = IF first = <<>> THEN Zero
                              ELSE IF Expanded(l, n) > most THEN NaN ELSE Moved(neg, first, n)
  BY <1>1, <1>2, <1>3, <1>4, <1>5 DEF Expand, Zero
<1>7. CASE ValueOf(digits) = 0
  BY <1>1, <1>2, <1>6, <1>7 DEF ExpandsTo
<1>8. CASE ValueOf(digits) # 0
  <2>1. l > 0 /\ first # <<>>
    BY <1>2, <1>3, <1>8
  <2>2. PICK long : long = IF up >= 0 THEN n ELSE (IF n > 0 THEN n ELSE 1) - up
    OBVIOUS
  <2>3. Expanded(l, n) = long /\ long \in Int
    <3>1. CASE n <= 0
      BY <1>4, <2>1, <2>2, <3>1 DEF Expanded
    <3>2. CASE n > 0 /\ n > l
      BY <1>4, <2>1, <2>2, <3>2 DEF Expanded
    <3>3. CASE n > 0 /\ n <= l
      <4>1. Expanded(l, n) = l
        BY <1>3, <1>4, <3>3 DEF Expanded
      <4>2. CASE up = 0
        BY <1>3, <1>4, <2>2, <4>1, <4>2
      <4>3. CASE up < 0
        <5>1. long = n - up
          BY <1>4, <2>2, <3>3, <4>3
        <5>2. n - up = l
          BY <1>3, <1>4
        <5>. QED BY <1>3, <4>1, <5>1, <5>2
      <4>. QED BY <1>3, <1>4, <3>3, <4>2, <4>3
    <3>. QED BY <3>1, <3>2, <3>3
  <2>4. long > most <=> long > MaxExpanded /\ long > all
    BY <1>5, <2>3, ExpansionAssumption
  <2>5. PICK places \in Nat : places = IF up < 0 THEN 0 - up ELSE 0
    BY <1>4
  <2>6. MovedTo(Moved(neg, first, n), neg, digits, up, places)
    <3>1. up = n - Len(first) /\ ValueOf(first) # 0
      BY <1>2, <1>3, <1>4, <1>8
    <3>2. MovedTo(Moved(neg, first, n), neg, first, up, places)
      BY <2>5, <3>1, MovedIs
    <3>. QED BY <1>2, <3>2 DEF MovedTo
  <2>7. Expand(neg, t, shift) = IF long > MaxExpanded /\ long > all THEN NaN ELSE Moved(neg, first, n)
    BY <1>6, <2>1, <2>3, <2>4
  <2>8. ExpandsTo(Expand(neg, t, shift), neg, digits, up, TRUE)
    BY <1>2, <1>3, <1>4, <1>8, <2>2, <2>5, <2>6, <2>7 DEF ExpandsTo
  <2>. QED BY <1>1, <1>3, <1>4, <2>8
<1>. QED BY <1>7, <1>8

\* Without an exponent a text is its digits.
LEMMA PlainIs ==
    ASSUME NEW x \in Seq(0..9), NEW y \in Seq(0..9), NEW neg \in BOOLEAN
    PROVE  ExpandsTo(Canonical(neg, x, y), neg, x \o y, 0 - Len(y), FALSE)
<1>1. PICK digits \in Seq(0..9) : digits = x \o y
  BY ConcatProperties, Zenon
<1>2. PICK f \in Nat : f = Len(y)
  OBVIOUS
<1>3. PICK up \in Int : up = 0 - f /\ f = (IF up < 0 THEN 0 - up ELSE 0) /\ up + f = 0
  <2>1. 0 - f \in Int /\ f = (IF 0 - f < 0 THEN 0 - (0 - f) ELSE 0) /\ (0 - f) + f = 0
    OBVIOUS
  <2>. QED BY <2>1
<1>4. PICK v \in Nat : v = ValueOf(digits)
  BY ValueFits
<1>5. ValueOf(x) * PowerOfTen[f] + ValueOf(y) = v
  <2>1. x \in Seq(Int) /\ y \in Seq(Int)
    BY DigitsAreInts
  <2>2. ValueOf(x \o y) = ValueOf(x) * PowerOfTen[Len(y)] + ValueOf(y)
    BY <2>1, ValueOfBoth
  <2>. QED BY <1>1, <1>2, <1>4, <2>2
<1>6. PowerOfTen[up + f] = 1
  BY <1>3, PowerOfTenIs
<1>7. CASE v = 0
  <2>1. Len(y) <= f
    BY <1>2
  <2>2. Magnitude(Canonical(neg, x, y), f)
          = ValueOf(x) * PowerOfTen[f] + ValueOf(y) * PowerOfTen[f - Len(y)]
    BY <2>1, MagnitudeOfCanonical
  <2>3. PowerOfTen[f - Len(y)] = 1
    <3>1. f - Len(y) = 0
      BY <1>2
    <3>. QED BY <3>1, PowerOfTenIs
  <2>4. PICK b \in Nat : b = ValueOf(y)
    BY ValueFits
  <2>5. b * 1 = b
    OBVIOUS
  <2>6. Magnitude(Canonical(neg, x, y), f) = 0
    BY <1>5, <1>7, <2>2, <2>3, <2>4, <2>5
  <2>7. PICK c : c = Canonical(neg, x, y)
    OBVIOUS
  <2>8. Shaped(c) /\ Len(c.frac) <= Len(y)
    BY <2>7, CanonicalIs
  <2>9. Len(c.frac) <= f
    BY <1>2, <2>8
  <2>10. c = Zero
    BY <2>6, <2>7, <2>8, <2>9, NegativeIsNotZero
  <2>. QED BY <1>1, <1>4, <1>7, <2>7, <2>10 DEF ExpandsTo
<1>8. CASE v # 0
  <2>1. v * 1 = v
    OBVIOUS
  <2>2. /\ Len(y) = f /\ ValueOf(digits) # 0 /\ up + f \in Nat
        /\ ValueOf(x) * PowerOfTen[f] + ValueOf(y) = ValueOf(digits) * PowerOfTen[up + f]
    BY <1>2, <1>3, <1>4, <1>5, <1>6, <1>8, <2>1
  <2>3. MovedTo(Canonical(neg, x, y), neg, digits, up, f)
    BY <2>2, CanonicalHas
  <2>4. ExpandsTo(Canonical(neg, x, y), neg, digits, up, FALSE)
    BY <1>3, <2>2, <2>3 DEF ExpandsTo
  <2>. QED BY <1>1, <1>2, <1>3, <2>4
<1>. QED BY <1>7, <1>8

\* An exponent of too many digits moves the point beyond any text.
LEMMA OutOfReach ==
    ASSUME NEW x \in Seq(0..9), NEW y \in Seq(0..9), Len(x) + Len(y) <= MaxWritten,
           NEW digits \in Seq(0..9), Len(DropLeading(digits)) > MaxExponentDigits,
           NEW neg \in BOOLEAN, NEW down \in BOOLEAN, TextsAssumption
    PROVE  ExpandsTo(IF DropLeading(x \o y) = <<>> THEN Zero ELSE NaN, neg, x \o y,
                     Negated(down, ValueOf(digits)) - Len(y), TRUE)
<1>1. PICK all \in Seq(0..9) : all = x \o y /\ Len(all) = Len(x) + Len(y)
  BY ConcatProperties
<1>2. PICK first \in Seq(0..9) : /\ first = DropLeading(all) /\ Len(first) <= Len(all)
                                 /\ ValueOf(all) = 0 <=> first = <<>>
                                 /\ first # <<>> => Len(first) > 0
  BY NoDigitsLeft
<1>3. PICK w \in Nat, f \in Nat, l \in Nat, a \in Nat :
         w = Len(x) /\ f = Len(y) /\ l = Len(first) /\ a = Len(all) /\ a = w + f /\ l <= a
  BY <1>1, <1>2
<1>4. PICK size \in Nat, t \in Nat \ {0} :
         size = ValueOf(digits) /\ t = PowerOfTen[MaxExponentDigits] /\ t <= size
  <2>1. PICK sig \in Seq(0..9) : /\ sig = DropLeading(digits) /\ ValueOf(sig) = ValueOf(digits)
                                 /\ sig # <<>> => Len(sig) > 0 /\ sig[1] # 0
    <3>1. ValueOf(DropLeading(digits)) = ValueOf(digits)
      BY ValueOfDropped
    <3>2. /\ DropLeading(digits) \in Seq(0..9)
          /\ DropLeading(digits) # <<>> => Len(DropLeading(digits)) > 0 /\ DropLeading(digits)[1] # 0
      BY NoDigitsLeft
    <3>. QED BY <3>1, <3>2
  <2>2. PICK n \in Nat : n = Len(sig) /\ n > MaxExponentDigits /\ n > 0
    BY <2>1, ExpansionAssumption
  <2>3. Len(sig) > 0 /\ sig[1] # 0
    BY <2>1, <2>2, EmptySeq
  <2>4. PowerOfTen[n - 1] <= ValueOf(sig)
    BY <2>2, <2>3, FirstDigitCounts
  <2>5. PowerOfTen[MaxExponentDigits] <= PowerOfTen[n - 1]
    <3>1. MaxExponentDigits \in Nat /\ n - 1 \in Nat /\ MaxExponentDigits <= n - 1
      BY <2>2, ExpansionAssumption
    <3>. QED BY <3>1, PowersOfTenGrow
  <2>6. /\ PowerOfTen[MaxExponentDigits] \in Nat \ {0} /\ PowerOfTen[n - 1] \in Nat \ {0}
        /\ ValueOf(sig) \in Nat
    <3>1. MaxExponentDigits \in Nat /\ n - 1 \in Nat
      BY <2>2, ExpansionAssumption
    <3>. QED BY <3>1, PowerOfTenIs, ValueFits
  <2>. QED BY <2>1, <2>4, <2>5, <2>6
<1>5. /\ MaxWritten \in Nat /\ MaxWritten + MaxWritten <= t /\ MaxWritten + MaxExpanded <= t
      /\ a <= MaxWritten /\ MaxExpanded \in Nat
  BY <1>1, <1>3, <1>4, ExpansionAssumption DEF TextsAssumption
<1>6. CASE ValueOf(all) = 0
  BY <1>1, <1>2, <1>6 DEF ExpandsTo
<1>7. CASE ValueOf(all) # 0
  <2>1. l > 0 /\ first # <<>>
    BY <1>2, <1>3, <1>7
  <2>2. PICK up \in Int : up = Negated(down, size) - f
    BY DEF Negated
  <2>3. PICK whole \in Int : whole = l + up
    BY <2>2
  <2>4. PICK long : long = IF up >= 0 THEN whole ELSE (IF whole > 0 THEN whole ELSE 1) - up
    OBVIOUS
  <2>5. long > MaxExpanded /\ long > a
    <3>. PICK most \in Nat : most = MaxExpanded
      BY <1>5
    <3>3. PICK much \in Nat : /\ much + much <= t /\ much + most <= t /\ a <= much
                              /\ f <= a /\ l <= a /\ l > 0 /\ t <= size
      BY <1>3, <1>4, <1>5, <2>1
    <3>1. CASE down
      <4>1. up = 0 - size - f
        BY <2>2, <3>1 DEF Negated
      <4>2. up < 0 /\ ~(whole > 0)
        BY <2>3, <3>3, <4>1
      <4>3. long = 1 + size + f
        BY <2>4, <4>1, <4>2
      <4>. QED BY <3>3, <4>3
    <3>2. CASE ~down
      <4>1. up = size - f
        BY <2>2, <3>2 DEF Negated
      <4>2. up >= 0
        BY <3>3, <4>1
      <4>3. long = l + size - f
        BY <2>3, <2>4, <4>1, <4>2
      <4>. QED BY <3>3, <4>3
    <3>. QED BY <3>1, <3>2
  <2>6. ExpandsTo(NaN, neg, all, up, TRUE)
    BY <1>2, <1>3, <1>7, <2>3, <2>4, <2>5 DEF ExpandsTo
  <2>. QED BY <1>1, <1>2, <1>3, <1>4, <2>1, <2>2, <2>6
<1>. QED BY <1>6, <1>7

LEMMA ReadingIsValue ==
    ASSUME NEW S, NEW s \in Seq(S), Len(s) <= MaxWritten, NEW r \in Readings(s), TextsAssumption
    PROVE  ReadsAs(s, r, CanonicalText(s))
<1>1. PICK g \in 0..1, w \in Nat, p \in 0..1, f \in Nat, k \in 0..1, e \in 0..1 :
         r = [sign |-> g, whole |-> w, point |-> p, part |-> f, mark |-> k, esign |-> e]
  BY ReadingReads
<1>2. PICK m : m = ReadLength(r)
  OBVIOUS
<1>3. Reads(s, g, w, p, f, m, k, e)
  BY <1>1, <1>2, ReadingReads
<1>4. m \in Nat /\ m = g + w + p + f /\ m <= Len(s) /\ Len(s) \in Nat
  BY <1>3, ReadsTypes
<1>5. PICK t : t = Mantissa(s) /\ WholeLength(t) = w
  BY <1>3, PointRead
<1>6. PICK x \in Seq(0..9), y \in Seq(0..9) :
             /\ x = WholeDigits(t) /\ x = CharDigits(Part(s, g, w)) /\ Len(x) = w
             /\ y = PartDigits(t) /\ y = CharDigits(Part(s, m - f, f)) /\ Len(y) = f
  BY <1>3, <1>5, DigitsAreRead
<1>7. DigitsRead(s, r) = x \o y /\ r.part = Len(y)
  BY <1>1, <1>2, <1>6 DEF DigitsRead
<1>8. PICK neg \in BOOLEAN : neg = (s[1] = "-")
  OBVIOUS
<1>9. IsNumber(s) /\ ExponentAt(s) = IF k = 1 THEN m + 1 ELSE 0
  BY <1>3, ReadsIsNumber, MantissaRead
<1>10. ExpandsTo(CanonicalText(s), neg, x \o y, ShiftRead(s, r) - Len(y), r.mark = 1)
  <2>1. CASE k = 0
    <3>1. ShiftRead(s, r) = 0 /\ (r.mark = 1) = FALSE
      BY <1>1, <2>1 DEF ShiftRead
    <3>2. CanonicalText(s) = Canonical(neg, x, y)
      BY <1>5, <1>6, <1>8, <1>9, <2>1 DEF CanonicalText
    <3>. QED BY <3>1, <3>2, PlainIs
  <2>2. CASE k = 1
    <3>1. Reads(s, g, w, p, f, m, 1, e)
      BY <1>3, <2>2
    <3>2. PICK d \in Seq(0..9) : /\ d = CharDigits(Unsigned(Exponent(s)))
                                 /\ d = CharDigits(SubSeq(s, m + 2 + e, Len(s)))
      BY <3>1, ExponentDigitsRead
    <3>3. PICK down \in BOOLEAN : down = (s[m + 2] = "-") /\ down = (Exponent(s)[1] = "-")
      <4>1. (s[m + 2] = "-") \in BOOLEAN /\ Exponent(s)[1] = s[m + 2]
        BY <3>1, ExponentRead
      <4>. QED BY <4>1, Zenon
    <3>4. PICK size \in Nat : size = ValueOf(d)
      BY ValueFits
    <3>5. ShiftRead(s, r) = Negated(down, size) /\ (r.mark = 1) = TRUE
      BY <1>1, <1>2, <2>2, <3>2, <3>3, <3>4 DEF ShiftRead
    <3>6. ShiftOf(Exponent(s)) = Negated(down, size)
      BY <3>2, <3>3, <3>4 DEF ShiftOf, Negated
    <3>7. ExponentAt(s) # 0
      BY <1>4, <1>9, <2>2
    <3>8. CASE Len(DropLeading(d)) <= MaxExponentDigits
      <4>1. CanonicalText(s) = Expand(neg, t, Negated(down, size))
        BY <1>5, <1>8, <1>9, <3>2, <3>6, <3>7, <3>8 DEF CanonicalText
      <4>2. PICK shift \in Int : shift = Negated(down, size)
        BY DEF Negated
      <4>3. ExpandsTo(Expand(neg, t, shift), neg, x \o y, shift - Len(y), TRUE)
        BY <1>5, <1>6, ExpandIs
      <4>. QED BY <3>5, <4>1, <4>2, <4>3
    <3>9. CASE ~(Len(DropLeading(d)) <= MaxExponentDigits)
      <4>1. CanonicalText(s) = IF DropLeading(x \o y) = <<>> THEN Zero ELSE NaN
        BY <1>5, <1>6, <1>9, <3>2, <3>7, <3>9 DEF CanonicalText, Zero
      <4>2. Len(DropLeading(d)) > MaxExponentDigits
        <5>1. Len(DropLeading(d)) \in Nat
          BY NoDigitsLeft
        <5>. QED BY <3>9, <5>1, ExpansionAssumption
      <4>3. Len(x) + Len(y) <= MaxWritten
        BY <1>4, <1>6 DEF TextsAssumption
      <4>4. ExpandsTo(IF DropLeading(x \o y) = <<>> THEN Zero ELSE NaN, neg, x \o y,
                      Negated(down, ValueOf(d)) - Len(y), TRUE)
        BY <4>2, <4>3, OutOfReach
      <4>. QED BY <3>4, <3>5, <4>1, <4>4
    <3>. QED BY <3>8, <3>9
  <2>. QED BY <2>1, <2>2
<1>11. PICK n : n = CanonicalText(s)
  OBVIOUS
<1>12. ASSUME NEW up, NEW places, MovedTo(n, neg, x \o y, up, places)
       PROVE  /\ n # NaN /\ IsCanonical(n)
              /\ n.neg <=> s[1] = "-"
              /\ Magnitude(n, places) = ValueOf(x \o y) * PowerOfTen[up + places]
              /\ Len(n.frac) <= places
  <2>1. n = Canonical(n.neg, n.int, n.frac)
    BY <1>12, ShapedIsCanonical DEF MovedTo
  <2>. QED BY <1>8, <1>12, <2>1 DEF MovedTo, IsCanonical
<1>13. ReadsAs(s, r, n)
  <2>. DEFINE up == ShiftRead(s, r) - Len(y)
              whole == Len(DropLeading(x \o y)) + up
              long == IF up >= 0 THEN whole ELSE (IF whole > 0 THEN whole ELSE 1) - up
              places == IF up < 0 THEN 0 - up ELSE 0
  <2>1. IF ValueOf(x \o y) = 0 THEN n = Zero
        ELSE IF r.mark = 1 /\ long > MaxExpanded /\ long > Len(x \o y) THEN n = NaN
        ELSE MovedTo(n, neg, x \o y, up, places)
    BY <1>10, <1>11 DEF ExpandsTo
  <2>2. ReadsAs(s, r, n)
          <=> IF ValueOf(x \o y) = 0 THEN n = Zero
              ELSE IF r.mark = 1 /\ long > MaxExpanded /\ long > Len(x \o y) THEN n = NaN
              ELSE /\ n # NaN /\ IsCanonical(n)
                   /\ n.neg <=> s[1] = "-"
                   /\ Magnitude(n, places) = ValueOf(x \o y) * PowerOfTen[up + places]
                   /\ Len(n.frac) <= places
    BY <1>7, Zenon DEF ReadsAs
  <2>. HIDE DEF up, whole, long, places
  <2>3. MovedTo(n, neg, x \o y, up, places)
          => /\ n # NaN /\ IsCanonical(n)
             /\ n.neg <=> s[1] = "-"
             /\ Magnitude(n, places) = ValueOf(x \o y) * PowerOfTen[up + places]
             /\ Len(n.frac) <= places
    BY <1>12
  <2>. QED BY <2>1, <2>2, <2>3, Zenon
<1>. QED BY <1>11, <1>13

-----------------------------------------------------------------------------
(* The texts written.                                                      *)

ShortTexts == written \in Seq(Alphabet) /\ Len(written) <= MaxWritten

LEMMA TextsStayShort == Spec => []ShortTexts
<1>1. Init => ShortTexts
  BY TextsAssumption, EmptySeq DEF Init, ShortTexts
<1>2. ShortTexts /\ [Next]_vars => ShortTexts'
  <2>. SUFFICES ASSUME ShortTexts, [Next]_vars PROVE ShortTexts'
    OBVIOUS
  <2>1. written \in Seq(Alphabet) /\ Len(written) \in Nat /\ Len(written) <= MaxWritten
    BY DEF ShortTexts
  <2>2. ASSUME NEW c \in Alphabet, Write(c) PROVE ShortTexts'
    <3>1. written' = Append(written, c) /\ Len(written) < MaxWritten
      BY <2>2 DEF Write
    <3>2. Append(written, c) \in Seq(Alphabet) /\ Len(Append(written, c)) = Len(written) + 1
      BY <2>1, AppendProperties
    <3>. QED BY <2>1, <3>1, <3>2, TextsAssumption DEF ShortTexts
  <2>3. ASSUME written' = <<>> PROVE ShortTexts'
    BY <2>3, TextsAssumption, EmptySeq DEF ShortTexts
  <2>4. ASSUME written' = written PROVE ShortTexts'
    BY <2>1, <2>4 DEF ShortTexts
  <2>5. \/ \E c \in Alphabet : Write(c)
        \/ written' = <<>>
        \/ written' = written
    BY DEF Next, vars, AssignText, Calculate, Copy, Move
  <2>. QED BY <2>2, <2>3, <2>4, <2>5
<1>. QED BY <1>1, <1>2, PTL DEF Spec

\* A text is a number exactly when it can be read as one, which it can be in one
\* way only: the sign, the digits, the point, the mark and the exponent are found
\* where they are. It then has the value read, the exponent's zeros written out,
\* and is NaN only if that takes more digits than are expanded and than were
\* written, or a zero if its digits are (number.h:94, number.cpp:226).
THEOREM TextsHaveTheirValues == Spec => []TextReadsAsItsValue
<1>1. ShortTexts => TextReadsAsItsValue
  <2>. SUFFICES ASSUME ShortTexts PROVE TextReadsAsItsValue
    OBVIOUS
  <2>1. written \in Seq(Alphabet) /\ Len(written) <= MaxWritten
    BY DEF ShortTexts
  <2>2. Readings(written) = {} => CanonicalText(written) = NaN
    <3>1. ASSUME IsNumber(written) PROVE Readings(written) # {}
      <4>1. PICK g, w, p, f, m, k, e : Reads(written, g, w, p, f, m, k, e)
        BY <2>1, <3>1, NumberReads
      <4>. QED BY <2>1, <4>1, ReadsIsReading
    <3>2. ~IsNumber(written) => CanonicalText(written) = NaN
      BY DEF CanonicalText
    <3>. QED BY <3>1, <3>2
  <2>3. \A x, y \in Readings(written) : x = y
    BY <2>1, OneReading
  <2>4. \A r \in Readings(written) : ReadsAs(written, r, CanonicalText(written))
    BY <2>1, ReadingIsValue, TextsAssumption
  <2>. QED BY <2>2, <2>3, <2>4 DEF TextReadsAsItsValue
<1>. QED BY <1>1, TextsStayShort, PTL
=============================================================================
