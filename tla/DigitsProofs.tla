---------------------------- MODULE DigitsProofs ----------------------------
(***************************************************************************)
(* Facts of Digits, for digits of any number: the values, powers and parts *)
(* that the proofs about numbers and timestamps rest on.  Recursive        *)
(* functions exist, and what they have holds at every index, by the least  *)
(* counterexample: both come from the library's well-founded minimum.      *)
(***************************************************************************)
EXTENDS Digits, SequenceTheorems, WellFoundedInduction, TLAPS

-----------------------------------------------------------------------------
(* Induction and recursion.                                                *)

LEMMA LeastNumber ==
    ASSUME NEW T, T \subseteq Nat, T # {}
    PROVE  \E x \in T : \A y \in T : x <= y
<1>1. PICK x \in T : \A y \in T : ~(<<y, x>> \in OpToRel(<, Nat))
  BY WFMin, NatLessThanWellFounded, Zenon
<1>2. \A y \in T : ~(y < x)
  BY <1>1, Zenon DEF OpToRel
<1>. QED BY <1>2

LEMMA Induction ==
    ASSUME NEW S, 0 \in S, \A n \in Nat : n \in S => n + 1 \in S
    PROVE  \A n \in Nat : n \in S
<1>. SUFFICES ASSUME NEW n \in Nat, n \notin S PROVE FALSE
  OBVIOUS
<1>1. PICK m \in {k \in Nat : k \notin S} : \A k \in {i \in Nat : i \notin S} : m <= k
  <2>. DEFINE T == {k \in Nat : k \notin S}
  <2>1. T \subseteq Nat /\ T # {}
    OBVIOUS
  <2>. QED BY <2>1, LeastNumber, Zenon
<1>2. m \in Nat /\ m # 0 /\ m - 1 \in Nat
  OBVIOUS
<1>3. m - 1 \in S
  BY <1>1, <1>2
<1>4. (m - 1) + 1 \in S
  BY <1>2, <1>3
<1>. QED BY <1>2, <1>4

\* f starts with first and goes on from each n by step[n].
Iterates(f, S, first, step) ==
    /\ f \in [Nat -> S]
    /\ f[0] = first
    /\ \A n \in Nat : f[n + 1] = step[n][f[n]]

LEMMA RecursionExists ==
    ASSUME NEW S, NEW first \in S, NEW step \in [Nat -> [S -> S]]
    PROVE  \E f : Iterates(f, S, first, step)
<1>. DEFINE Is(g, n) == /\ g \in [0..n -> S]
                        /\ g[0] = first
                        /\ \A i \in 0..(n - 1) : g[i + 1] = step[i][g[i]]
            Sizes == {n \in Nat : \E g : Is(g, n)}
<1>1. 0 \in Sizes
  <2>. DEFINE g == [i \in 0..0 |-> first]
  <2>1. Is(g, 0)
    OBVIOUS
  <2>. QED BY <2>1
<1>2. ASSUME NEW n \in Nat, n \in Sizes PROVE n + 1 \in Sizes
  <2>1. PICK g : Is(g, n)
    BY <1>2
  <2>. DEFINE h == [i \in 0..(n + 1) |-> IF i = n + 1 THEN step[n][g[n]] ELSE g[i]]
  <2>2. step[n][g[n]] \in S
    BY <2>1
  <2>3. h \in [0..(n + 1) -> S]
    BY <2>1, <2>2
  <2>4. h[0] = first
    BY <2>1
  <2>5. ASSUME NEW i \in 0..((n + 1) - 1) PROVE h[i + 1] = step[i][h[i]]
    <3>1. CASE i = n
      BY <3>1
    <3>2. CASE i # n
      <4>1. i \in 0..(n - 1) /\ i + 1 # n + 1 /\ i # n + 1
        BY <3>2
      <4>2. h[i + 1] = g[i + 1] /\ h[i] = g[i]
        BY <4>1
      <4>. QED BY <4>1, <4>2, <2>1
    <3>. QED BY <3>1, <3>2
  <2>6. Is(h, n + 1)
    BY <2>3, <2>4, <2>5
  <2>. HIDE DEF Is, h
  <2>. QED BY <2>6
<1>3. \A n \in Nat : \E g : Is(g, n)
  <2>. HIDE DEF Is
  <2>1. \A n \in Nat : n \in Sizes
    <3>. HIDE DEF Sizes
    <3>. QED BY <1>1, <1>2, Induction
  <2>. QED BY <2>1
<1>4. ASSUME NEW n \in Nat, NEW m \in Nat, NEW g, NEW h, Is(g, n), Is(h, m), n <= m
      PROVE  g[n] = h[n]
  <2>. DEFINE Agree == {i \in Nat : i <= n => g[i] = h[i]}
  <2>1. 0 \in Agree
    BY <1>4
  <2>2. ASSUME NEW i \in Nat, i \in Agree PROVE i + 1 \in Agree
    <3>1. CASE i + 1 <= n
      <4>1. i \in 0..(n - 1) /\ i \in 0..(m - 1) /\ g[i] = h[i]
        BY <2>2, <3>1, <1>4
      <4>. QED BY <4>1, <1>4
    <3>2. CASE ~(i + 1 <= n)
      BY <3>2
    <3>. QED BY <3>1, <3>2
  <2>3. \A i \in Nat : i \in Agree
    <3>. HIDE DEF Agree
    <3>. QED BY <2>1, <2>2, Induction
  <2>. QED BY <2>3
<1>. DEFINE At(n) == CHOOSE g : Is(g, n)
            f == [n \in Nat |-> At(n)[n]]
<1>5. \A n \in Nat : Is(At(n), n)
  <2>. HIDE DEF Is
  <2>. QED BY <1>3, Zenon
<1>6. \A n \in Nat : At(n)[n] \in S
  <2>. SUFFICES ASSUME NEW n \in Nat PROVE At(n)[n] \in S
    OBVIOUS
  <2>1. Is(At(n), n)
    BY <1>5
  <2>. HIDE DEF At
  <2>. QED BY <2>1
<1>7. f \in [Nat -> S]
  <2>. HIDE DEF At
  <2>. QED BY <1>6
<1>8. f[0] = first
  <2>1. Is(At(0), 0)
    BY <1>5
  <2>. HIDE DEF At
  <2>. QED BY <2>1
<1>9. ASSUME NEW n \in Nat PROVE f[n + 1] = step[n][f[n]]
  <2>1. Is(At(n), n) /\ Is(At(n + 1), n + 1)
    <3>. HIDE DEF Is, At
    <3>. QED BY <1>5
  <2>2. At(n)[n] = At(n + 1)[n]
    <3>. HIDE DEF At, Is
    <3>1. n + 1 \in Nat /\ n <= n + 1
      OBVIOUS
    <3>. QED BY <1>4, <2>1, <3>1
  <2>. HIDE DEF At
  <2>3. At(n + 1)[n + 1] = step[n][At(n + 1)[n]]
    BY <2>1
  <2>. QED BY <2>2, <2>3
<1>. HIDE DEF f
<1>. QED BY <1>7, <1>8, <1>9 DEF Iterates

\* The same, up to a length.
IteratesTo(f, S, length, first, step) ==
    /\ f \in [0..length -> S]
    /\ f[0] = first
    /\ \A n \in 1..length : f[n] = step[n][f[n - 1]]

LEMMA BoundedRecursionExists ==
    ASSUME NEW S, NEW first \in S, NEW length \in Nat, NEW step \in [1..length -> [S -> S]]
    PROVE  \E f : IteratesTo(f, S, length, first, step)
<1>. DEFINE next == [n \in Nat |-> [v \in S |-> IF n < length THEN step[n + 1][v] ELSE first]]
<1>1. next \in [Nat -> [S -> S]]
  <2>. SUFFICES ASSUME NEW n \in Nat, NEW v \in S
                PROVE  (IF n < length THEN step[n + 1][v] ELSE first) \in S
    OBVIOUS
  <2>1. n < length => n + 1 \in 1..length
    OBVIOUS
  <2>. QED BY <2>1
<1>2. PICK f : Iterates(f, S, first, next)
  <2>. HIDE DEF next
  <2>. QED BY <1>1, RecursionExists, Zenon
<1>3. f \in [Nat -> S] /\ f[0] = first /\ \A n \in Nat : f[n + 1] = next[n][f[n]]
  BY <1>2 DEF Iterates
<1>4. ASSUME NEW n \in 1..length PROVE f[n] = step[n][f[n - 1]]
  <2>1. n - 1 \in Nat /\ n - 1 < length /\ (n - 1) + 1 = n
    OBVIOUS
  <2>2. f[n] = next[n - 1][f[n - 1]] /\ f[n - 1] \in S
    BY <1>3, <2>1
  <2>. QED BY <2>1, <2>2
<1>. DEFINE g == [n \in 0..length |-> f[n]]
<1>5. g \in [0..length -> S] /\ g[0] = first
  BY <1>3
<1>6. ASSUME NEW n \in 1..length PROVE g[n] = step[n][g[n - 1]]
  <2>1. n \in 0..length /\ n - 1 \in 0..length
    OBVIOUS
  <2>. QED BY <1>4, <2>1
<1>. HIDE DEF g
<1>. QED BY <1>5, <1>6 DEF IteratesTo

-----------------------------------------------------------------------------
(* Products, quotients and remainders.                                     *)

LEMMA TimesIsInt == \A a, b \in Int : a * b \in Int
  OBVIOUS

LEMMA TimesGrows ==
    ASSUME NEW n \in Nat \ {0}, NEW a \in Int, NEW b \in Int
    PROVE  /\ a <= b <=> a * n <= b * n
           /\ a < b <=> a * n < b * n
           /\ a < b => a * n + n <= b * n
  <1>1. ASSUME NEW c \in Int, NEW d \in Int, c < d
        PROVE  c * n + n <= d * n /\ c * n \in Int /\ d * n \in Int
    <2>1. PICK k \in Nat : d = c + 1 + k
      BY <1>1
    <2>2. k * n \in Nat
      OBVIOUS
    <2>3. d * n = c * n + n + k * n /\ c * n \in Int
      BY <2>1
    <2> QED  BY <2>2, <2>3
  <1>2. CASE a < b
    BY <1>1, <1>2
  <1>3. CASE b < a
    BY <1>1, <1>3
  <1>4. CASE a = b
    BY <1>4
  <1> QED  BY <1>2, <1>3, <1>4

\* A quotient and a remainder that fit are those of the division.
LEMMA DivIs ==
    ASSUME NEW n \in Nat \ {0}, NEW q \in Int, NEW r \in 0..(n - 1), NEW x, x = q * n + r
    PROVE  x \in Int /\ x \div n = q /\ x % n = r
  <1>1. q * n \in Int
    OBVIOUS
  <1>2. x \in Int
    BY <1>1
  <1>3. PICK p \in Int, s \in 0..(n - 1) : p = x \div n /\ s = x % n /\ x = n * p + s
    BY <1>2
  <1>4. n * p = p * n /\ p * n \in Int
    OBVIOUS
  <1>5. p = q
    BY <1>1, <1>3, <1>4, TimesGrows
  <1> QED  BY <1>2, <1>3, <1>4, <1>5

\* And every number has them.
LEMMA DivFacts ==
    ASSUME NEW n \in Nat \ {0}, NEW x \in Int
    PROVE  /\ x \div n \in Int /\ x % n \in 0..(n - 1)
           /\ x = (x \div n) * n + (x % n)
           /\ \A b \in Int : b * n <= x <=> b <= x \div n
           /\ \A b \in Int : x < b * n <=> x \div n < b
  <1>1. PICK q \in Int, r \in 0..(n - 1) : q = x \div n /\ r = x % n /\ x = n * q + r
    OBVIOUS
  <1>2. n * q = q * n /\ q * n \in Int
    OBVIOUS
  <1>3. \A b \in Int : (b * n <= x <=> b <= q) /\ (x < b * n <=> q < b)
    <2> SUFFICES ASSUME NEW b \in Int PROVE (b * n <= x <=> b <= q) /\ (x < b * n <=> q < b)
      OBVIOUS
    <2>1. b * n \in Int
      OBVIOUS
    <2>2. CASE b <= q
      BY <1>1, <1>2, <2>1, <2>2, TimesGrows
    <2>3. CASE q < b
      BY <1>1, <1>2, <2>1, <2>3, TimesGrows
    <2> QED  BY <2>2, <2>3
  <1> QED  BY <1>1, <1>2, <1>3

LEMMA Quotient ==
    ASSUME NEW n \in Nat \ {0}, NEW x \in Int
    PROVE  \E q \in Int, r \in 0..(n - 1) : q = x \div n /\ r = x % n /\ x = q * n + r
  <1>1. x \div n \in Int /\ x % n \in 0..(n - 1) /\ x = (x \div n) * n + (x % n)
    BY DivFacts
  <1> QED  BY <1>1

\* A smaller unit within a larger one.
LEMMA Nested ==
    ASSUME NEW m \in Nat \ {0}, NEW n \in Nat \ {0}, NEW q \in 0..(m - 1), NEW r \in 0..(n - 1)
    PROVE  q * n + r \in 0..(m * n - 1) /\ m * n \in Nat \ {0}
  <1>1. q * n \in Int /\ m * n \in Int /\ 0 * n = 0
    OBVIOUS
  <1>2. 0 * n <= q * n
    BY TimesGrows
  <1>3. q * n + n <= m * n
    BY TimesGrows
  <1> QED  BY <1>1, <1>2, <1>3

LEMMA QuotientOfQuotient ==
    ASSUME NEW m \in Nat \ {0}, NEW n \in Nat \ {0}, NEW x \in Int
    PROVE  x \div (m * n) = (x \div n) \div m
  <1>1. PICK a \in Int, r \in 0..(n - 1) : a = x \div n /\ r = x % n /\ x = a * n + r
    BY Quotient
  <1>2. PICK b \in Int, s \in 0..(m - 1) : b = a \div m /\ s = a % m /\ a = b * m + s
    BY Quotient
  <1>3. PICK t \in 0..(m * n - 1) : t = s * n + r /\ m * n \in Nat \ {0}
    BY Nested
  <1>4. x = b * (m * n) + t
    <2>1. a * n = (b * m) * n + s * n
      BY <1>2
    <2>2. (b * m) * n = b * (m * n)
      OBVIOUS
    <2>3. PICK an \in Int, bmn \in Int, sn \in Int : an = a * n /\ bmn = (b * m) * n /\ sn = s * n
      OBVIOUS
    <2>4. x = an + r /\ t = sn + r /\ an = bmn + sn
      BY <1>1, <1>3, <2>1, <2>3
    <2>5. x = bmn + t
      BY <2>4
    <2> QED  BY <2>2, <2>3, <2>5
  <1>5. PICK modulus \in Nat \ {0} : modulus = m * n
    BY <1>3
  <1>6. x \div modulus = b
    BY <1>3, <1>4, <1>5, DivIs
  <1> QED  BY <1>1, <1>2, <1>5, <1>6

-----------------------------------------------------------------------------
(* Digits. *)

LEMMA PrefixValuesIs ==
    ASSUME NEW digits \in Seq(Int)
    PROVE  /\ PrefixValues(digits) \in [0..Len(digits) -> Int]
           /\ PrefixValues(digits)[0] = 0
           /\ \A n \in 1..Len(digits) :
                PrefixValues(digits)[n] = 10 * PrefixValues(digits)[n - 1] + digits[n]
<1>. DEFINE length == Len(digits)
            Def(v) == [n \in 0..length |-> IF n = 0 THEN 0 ELSE 10 * v[n - 1] + digits[n]]
            step == [n \in Nat |-> [v \in Int |-> IF n < length THEN 10 * v + digits[n + 1] ELSE 0]]
<1>0. length \in Nat /\ \A n \in 1..length : digits[n] \in Int
  OBVIOUS
<1>1. step \in [Nat -> [Int -> Int]]
  <2>. HIDE DEF length
  <2>. SUFFICES ASSUME NEW n \in Nat, NEW v \in Int
                PROVE  (IF n < length THEN 10 * v + digits[n + 1] ELSE 0) \in Int
    OBVIOUS
  <2>. QED BY <1>0
<1>2. PICK f \in [Nat -> Int] : f[0] = 0 /\ \A n \in Nat : f[n + 1] = step[n][f[n]]
  <2>. HIDE DEF step
  <2>1. 0 \in Int
    OBVIOUS
  <2>2. \E f : Iterates(f, Int, 0, step)
    BY <1>1, <2>1, RecursionExists, Zenon
  <2>. QED BY <2>2 DEF Iterates
<1>. DEFINE g == [n \in 0..length |-> f[n]]
<1>3. \A n \in 1..length : f[n] = 10 * f[n - 1] + digits[n]
  <2>. SUFFICES ASSUME NEW n \in 1..length PROVE f[n] = 10 * f[n - 1] + digits[n]
    OBVIOUS
  <2>. HIDE DEF length
  <2>1. n - 1 \in Nat /\ n - 1 < length /\ (n - 1) + 1 = n
    BY <1>0
  <2>2. f[n] = step[n - 1][f[n - 1]]
    BY <1>2, <2>1
  <2>. QED BY <2>1, <2>2
<1>4. g = Def(g)
  <2>. HIDE DEF length
  <2>. SUFFICES ASSUME NEW n \in 0..length
                PROVE  f[n] = IF n = 0 THEN 0 ELSE 10 * g[n - 1] + digits[n]
    OBVIOUS
  <2>. QED BY <1>0, <1>2, <1>3
<1>5. PrefixValues(digits) = Def(PrefixValues(digits))
  <2>. HIDE DEF g
  <2>. QED BY <1>4 DEF PrefixValues
<1>. DEFINE p == PrefixValues(digits)
<1>6. p = [n \in 0..length |-> IF n = 0 THEN 0 ELSE 10 * p[n - 1] + digits[n]]
  BY <1>5
<1>. HIDE DEF p
<1>7. p[0] = 0 /\ \A n \in 1..length : p[n] = 10 * p[n - 1] + digits[n]
  <2>. HIDE DEF length
  <2>1. 0 \in 0..length /\ \A n \in 1..length : n \in 0..length /\ n # 0
    BY <1>0
  <2>. QED BY <1>6, <2>1
<1>8. \A n \in Nat : n <= length => p[n] \in Int
  <2>. HIDE DEF length
  <2>. DEFINE Good == {n \in Nat : n <= length => p[n] \in Int}
  <2>1. 0 \in Good
    BY <1>7
  <2>2. ASSUME NEW n \in Nat, n \in Good PROVE n + 1 \in Good
    <3>. SUFFICES ASSUME n + 1 <= length PROVE p[n + 1] \in Int
      OBVIOUS
    <3>1. n + 1 \in 1..length /\ p[n] \in Int /\ (n + 1) - 1 = n
      BY <1>0, <2>2
    <3>2. p[n + 1] = 10 * p[n] + digits[n + 1]
      BY <1>7, <3>1
    <3>. QED BY <1>0, <3>1, <3>2
  <2>3. \A n \in Nat : n \in Good
    <3>. HIDE DEF Good
    <3>. QED BY <2>1, <2>2, Induction
  <2>. QED BY <2>3
<1>9. p \in [0..length -> Int]
  <2>. HIDE DEF length
  <2>. QED BY <1>0, <1>6, <1>8
<1>. QED BY <1>7, <1>9 DEF p

LEMMA PrefixesExist ==
    ASSUME NEW digits \in Seq(Int)
    PROVE  \E p \in [0..Len(digits) -> Int] :
              /\ p = PrefixValues(digits) /\ p[0] = 0 /\ p[Len(digits)] = ValueOf(digits)
              /\ \A i \in 1..Len(digits) : p[i] = 10 * p[i - 1] + digits[i]
BY PrefixValuesIs DEF ValueOf

LEMMA PowersOfIs ==
    ASSUME NEW base \in Nat \ {0}
    PROVE  /\ PowersOf(base) \in [Nat -> Nat \ {0}]
           /\ PowersOf(base)[0] = 1
           /\ \A n \in Nat : PowersOf(base)[n + 1] = base * PowersOf(base)[n]
<1>. DEFINE step == [n \in Nat |-> [v \in Nat \ {0} |-> base * v]]
            p == PowersOf(base)
<1>0. \A v \in Nat \ {0} : base * v \in Nat \ {0}
  <2>. SUFFICES ASSUME NEW v \in Nat \ {0} PROVE base * v \in Nat \ {0}
    OBVIOUS
  <2>1. PICK b \in Nat, w \in Nat : base = b + 1 /\ v = w + 1
    <3>1. base - 1 \in Nat /\ v - 1 \in Nat /\ base = (base - 1) + 1 /\ v = (v - 1) + 1
      OBVIOUS
    <3>. QED BY <3>1
  <2>2. b * w \in Nat
    OBVIOUS
  <2>3. base * v = b * w + b + w + 1
    BY <2>1
  <2>. QED BY <2>2, <2>3
<1>1. step \in [Nat -> [Nat \ {0} -> Nat \ {0}]] /\ 1 \in Nat \ {0}
  BY <1>0
<1>2. PICK f : Iterates(f, Nat \ {0}, 1, step)
  <2>. HIDE DEF step
  <2>. QED BY <1>1, RecursionExists, Zenon
<1>3. f \in [Nat -> Nat \ {0}] /\ f[0] = 1 /\ \A n \in Nat : f[n + 1] = base * f[n]
  <2>1. f \in [Nat -> Nat \ {0}] /\ f[0] = 1 /\ \A n \in Nat : f[n + 1] = step[n][f[n]]
    <3>. HIDE DEF step
    <3>. QED BY <1>2 DEF Iterates
  <2>. QED BY <2>1
<1>4. f = [n \in Nat |-> IF n = 0 THEN 1 ELSE base * f[n - 1]]
  <2>. SUFFICES ASSUME NEW n \in Nat PROVE f[n] = IF n = 0 THEN 1 ELSE base * f[n - 1]
    BY <1>3
  <2>1. CASE n = 0
    BY <1>3, <2>1
  <2>2. CASE n # 0
    <3>1. n - 1 \in Nat /\ (n - 1) + 1 = n
      BY <2>2
    <3>2. f[(n - 1) + 1] = base * f[n - 1]
      BY <1>3, <3>1
    <3>. QED BY <2>2, <3>1, <3>2
  <2>. QED BY <2>1, <2>2
<1>5. p = [n \in Nat |-> IF n = 0 THEN 1 ELSE base * p[n - 1]]
  BY <1>4 DEF PowersOf
<1>. HIDE DEF p
<1>6. p[0] = 1 /\ \A n \in Nat : p[n + 1] = base * p[n]
  <2>1. p[0] = 1
    BY <1>5
  <2>2. ASSUME NEW n \in Nat PROVE p[n + 1] = base * p[n]
    <3>1. n + 1 \in Nat /\ n + 1 # 0 /\ (n + 1) - 1 = n
      OBVIOUS
    <3>. QED BY <1>5, <3>1
  <2>. QED BY <2>1, <2>2
<1>7. \A n \in Nat : n \in {m \in Nat : p[m] \in Nat \ {0}}
  <2>. DEFINE Good == {m \in Nat : p[m] \in Nat \ {0}}
  <2>1. 0 \in Good
    BY <1>6
  <2>2. ASSUME NEW n \in Nat, n \in Good PROVE n + 1 \in Good
    <3>1. p[n + 1] = base * p[n] /\ p[n] \in Nat \ {0} /\ n + 1 \in Nat
      BY <1>6, <2>2
    <3>2. base * p[n] \in Nat \ {0}
      BY <1>0, <3>1
    <3>. QED BY <3>1, <3>2
  <2>. HIDE DEF Good
  <2>3. \A n \in Nat : n \in Good
    BY <2>1, <2>2, Induction
  <2>. QED BY <2>3 DEF Good
<1>8. p \in [Nat -> Nat \ {0}]
  BY <1>5, <1>7
<1>. QED BY <1>6, <1>8 DEF p

LEMMA PowerOfTenIs ==
    /\ PowerOfTen \in [Nat -> Nat \ {0}]
    /\ PowerOfTen[0] = 1
    /\ \A n \in Nat : PowerOfTen[n + 1] = 10 * PowerOfTen[n]
<1>1. PICK ten \in Nat \ {0} : ten = 10
  OBVIOUS
<1>2. /\ PowersOf(ten) \in [Nat -> Nat \ {0}]
      /\ PowersOf(ten)[0] = 1
      /\ \A n \in Nat : PowersOf(ten)[n + 1] = ten * PowersOf(ten)[n]
  BY PowersOfIs
<1>. QED BY <1>1, <1>2 DEF PowerOfTen

\* Digits of a set: every prefix of them has a value below its power of ten.
LEMMA PrefixValuesFit ==
    ASSUME NEW digits \in Seq(0..9), NEW n \in 0..Len(digits)
    PROVE  PrefixValues(digits)[n] \in 0..(PowerOfTen[n] - 1)
<1>. DEFINE p == PrefixValues(digits)
            length == Len(digits)
            Good == {m \in Nat : m <= length => p[m] \in 0..(PowerOfTen[m] - 1)}
<1>1. /\ p[0] = 0
      /\ \A m \in 1..length : p[m] = 10 * p[m - 1] + digits[m]
      /\ \A m \in 1..length : digits[m] \in 0..9
      /\ length \in Nat
  <2>1. digits \in Seq(Int)
    OBVIOUS
  <2>. QED BY <2>1, PrefixValuesIs
<1>. HIDE DEF p, length
<1>2. 0 \in Good
  <2>1. p[0] = 0 /\ PowerOfTen[0] = 1 /\ 0 \in 0..(1 - 1)
    BY <1>1, PowerOfTenIs
  <2>. QED BY <2>1
<1>3. ASSUME NEW m \in Nat, m \in Good PROVE m + 1 \in Good
  <2>. SUFFICES ASSUME m + 1 <= length PROVE p[m + 1] \in 0..(PowerOfTen[m + 1] - 1)
    OBVIOUS
  <2>1. m + 1 \in 1..length /\ (m + 1) - 1 = m /\ p[m] \in 0..(PowerOfTen[m] - 1)
    BY <1>1, <1>3
  <2>2. p[m + 1] = 10 * p[m] + digits[m + 1] /\ digits[m + 1] \in 0..9
    BY <1>1, <2>1
  <2>3. PICK power \in Nat : power = PowerOfTen[m] /\ PowerOfTen[m + 1] = 10 * power
    BY PowerOfTenIs
  <2>4. PICK v \in 0..(power - 1) : v = p[m]
    BY <2>1, <2>3
  <2>5. PICK d \in 0..9 : d = digits[m + 1]
    BY <2>2
  <2>6. 10 * v + d \in 0..(10 * power - 1)
    OBVIOUS
  <2>. QED BY <2>2, <2>3, <2>4, <2>5, <2>6
<1>4. n \in Good
  <2>1. n \in Nat
    BY <1>1 DEF length
  <2>. HIDE DEF Good
  <2>. QED BY <1>2, <1>3, <2>1, Induction
<1>. QED BY <1>4 DEF p, length

\* The digits of an integer that has no more of them: the first k are the
\* integer without the others.
LEMMA DigitsOfIs ==
    ASSUME NEW length \in Nat, NEW v \in Nat, v < PowerOfTen[length]
    PROVE  /\ DigitsOf(v, length) \in Seq(0..9) /\ Len(DigitsOf(v, length)) = length
           /\ ValueOf(DigitsOf(v, length)) = v
<1>. DEFINE digits == DigitsOf(v, length)
            p == PrefixValues(digits)
            Without(k) == v \div PowerOfTen[length - k]
<1>1. \A k \in 0..length : length - k \in Nat /\ PowerOfTen[length - k] \in Nat \ {0} /\ Without(k) \in Int
  <2>. SUFFICES ASSUME NEW k \in 0..length
                PROVE  length - k \in Nat /\ PowerOfTen[length - k] \in Nat \ {0} /\ Without(k) \in Int
    OBVIOUS
  <2>1. length - k \in Nat
    OBVIOUS
  <2>2. PICK power \in Nat \ {0} : power = PowerOfTen[length - k]
    BY <2>1, PowerOfTenIs
  <2>3. v \div power \in Int
    BY DivFacts
  <2>. QED BY <2>1, <2>2, <2>3
<1>2. digits = [i \in 1..length |-> Without(i) % 10]
  BY DEF DigitsOf
<1>. HIDE DEF Without, digits
<1>3. digits \in Seq(0..9) /\ Len(digits) = length /\ \A i \in 1..length : digits[i] = Without(i) % 10
  <2>1. \A i \in 1..length : Without(i) % 10 \in 0..9
    <3>. SUFFICES ASSUME NEW i \in 1..length PROVE Without(i) % 10 \in 0..9
      OBVIOUS
    <3>1. Without(i) \in Int
      BY <1>1
    <3>. QED BY <3>1
  <2>. QED BY <1>2, <2>1
<1>4. p[0] = 0 /\ \A k \in 1..length : p[k] = 10 * p[k - 1] + digits[k]
  <2>1. digits \in Seq(Int)
    BY <1>3
  <2>. QED BY <1>3, <2>1, PrefixValuesIs
<1>. HIDE DEF p
<1>5. ASSUME NEW k \in 0..(length - 1)
      PROVE  Without(k + 1) = 10 * Without(k) + (Without(k + 1) % 10)
  <2>1. PICK m \in Nat : m = length - (k + 1) /\ m + 1 = length - k
    OBVIOUS
  <2>2. PICK power \in Nat \ {0}, ten \in Nat \ {0} :
           ten = 10 /\ power = PowerOfTen[m] /\ PowerOfTen[m + 1] = ten * power
    BY PowerOfTenIs
  <2>0. PICK number \in Int : number = v
    OBVIOUS
  <2>3. v \div (ten * power) = (v \div power) \div ten
    <3>1. number \div (ten * power) = (number \div power) \div ten
      BY QuotientOfQuotient
    <3>. QED BY <2>0, <3>1
  <2>4. PICK a \in Int : a = v \div power
    <3>1. number \div power \in Int
      BY DivFacts
    <3>. QED BY <2>0, <3>1
  <2>5. PICK b \in Int, s \in 0..(ten - 1) : b = a \div ten /\ s = a % ten /\ a = b * ten + s
    BY Quotient
  <2>6. Without(k + 1) = a /\ Without(k) = b
    BY <2>1, <2>2, <2>3, <2>4, <2>5 DEF Without
  <2>7. a = 10 * b + (a % 10)
    BY <2>2, <2>5
  <2>. QED BY <2>6, <2>7
<1>6. Without(0) = 0
  <2>1. PICK power \in Nat \ {0} : power = PowerOfTen[length] /\ v \in 0..(power - 1)
    BY PowerOfTenIs
  <2>2. PICK zero \in Int : zero = 0
    OBVIOUS
  <2>3. v = zero * power + v
    BY <2>2
  <2>4. v \div power = zero
    BY <2>1, <2>3, DivIs
  <2>. QED BY <2>1, <2>2, <2>4 DEF Without
<1>7. p[length] = Without(length)
  <2>. DEFINE Good == {k \in Nat : k <= length => p[k] = Without(k)}
  <2>1. 0 \in Good
    BY <1>4, <1>6
  <2>2. ASSUME NEW k \in Nat, k \in Good PROVE k + 1 \in Good
    <3>. SUFFICES ASSUME k + 1 <= length PROVE p[k + 1] = Without(k + 1)
      OBVIOUS
    <3>1. k \in 0..(length - 1) /\ k + 1 \in 1..length /\ (k + 1) - 1 = k
      OBVIOUS
    <3>2. p[k + 1] = 10 * p[k] + digits[k + 1] /\ digits[k + 1] = Without(k + 1) % 10 /\ p[k] = Without(k)
      BY <1>3, <1>4, <2>2, <3>1
    <3>. QED BY <1>5, <3>1, <3>2
  <2>. HIDE DEF Good
  <2>3. \A k \in Nat : k \in Good
    BY <2>1, <2>2, Induction
  <2>. QED BY <2>3 DEF Good
<1>8. Without(length) = v
  <2>1. PowerOfTen[length - length] = 1
    BY PowerOfTenIs
  <2>. QED BY <2>1 DEF Without
<1>. QED BY <1>3, <1>7, <1>8 DEF digits, p, ValueOf

\* What is left without the zeros at the end, and those zeros.
LEMMA DropTrailingIs ==
    ASSUME NEW digits \in Seq(0..9)
    PROVE  \E last \in 0..Len(digits), text \in Seq(0..9) :
              /\ text = DropTrailing(digits) /\ text = SubSeq(digits, 1, last) /\ Len(text) = last
              /\ last = 0 \/ digits[last] # 0
              /\ \A i \in 1..last : text[i] = digits[i]
              /\ \A i \in (last + 1)..Len(digits) : digits[i] = 0
<1>1. PICK length \in Nat : length = Len(digits)
  OBVIOUS
<1>. DEFINE Ends(k) == (k = 0 \/ digits[k] # 0) /\ \A i \in (k + 1)..length : digits[i] = 0
            Enough == {k \in 0..length : \A i \in (k + 1)..length : digits[i] = 0}
<1>2. \E k \in 0..length : Ends(k)
  <2>1. Enough \subseteq Nat /\ length \in Enough
    OBVIOUS
  <2>2. PICK k \in Enough : \A m \in Enough : k <= m
    <3>. HIDE DEF Enough
    <3>. QED BY <2>1, LeastNumber
  <2>3. ASSUME k # 0, digits[k] = 0 PROVE FALSE
    <3>1. k - 1 \in 0..length
      BY <2>3
    <3>2. ASSUME NEW i \in ((k - 1) + 1)..length PROVE digits[i] = 0
      <4>1. i = k \/ i \in (k + 1)..length
        BY <2>2
      <4>. QED BY <2>2, <2>3, <4>1
    <3>3. k - 1 \in Enough
      BY <3>1, <3>2
    <3>4. k <= k - 1 /\ k \in 0..length
      <4>1. k \in 0..length
        BY <2>2
      <4>. HIDE DEF Enough
      <4>. QED BY <2>2, <3>3, <4>1
    <3>. HIDE DEF Enough
    <3>. QED BY <3>4
  <2>. QED BY <2>2, <2>3
<1>3. PICK last \in 0..length : Ends(last) /\ DropTrailing(digits) = SubSeq(digits, 1, last)
  <2>. DEFINE last == CHOOSE k \in 0..length : Ends(k)
  <2>1. last \in 0..length /\ Ends(last)
    <3>. HIDE DEF Ends
    <3>. QED BY <1>2
  <2>2. DropTrailing(digits) = SubSeq(digits, 1, last)
    BY <1>1 DEF DropTrailing
  <2>. QED BY <2>1, <2>2
<1>4. PICK text : text = SubSeq(digits, 1, last)
  OBVIOUS
<1>5. text \in Seq(0..9) /\ Len(text) = last /\ \A i \in 1..last : text[i] = digits[i]
  BY <1>1, <1>3, <1>4
<1>. QED BY <1>1, <1>3, <1>4, <1>5

\* What is left without the zeros at the start, and those zeros.
LEMMA DropLeadingIs ==
    ASSUME NEW digits \in Seq(0..9)
    PROVE  \E zeros \in 0..Len(digits), text \in Seq(0..9) :
              /\ text = DropLeading(digits) /\ Len(text) = Len(digits) - zeros
              /\ \A i \in 1..zeros : digits[i] = 0
              /\ \A i \in 1..Len(text) : text[i] = digits[zeros + i]
              /\ zeros = Len(digits) \/ digits[zeros + 1] # 0
<1>1. PICK length \in Nat : length = Len(digits)
  OBVIOUS
<1>. DEFINE Starts(k) == (\A i \in 1..k : digits[i] = 0) /\ (k = length \/ digits[k + 1] # 0)
            Other == {k \in 0..length : k = length \/ digits[k + 1] # 0}
<1>2. \E k \in 0..length : Starts(k)
  <2>1. Other \subseteq Nat /\ length \in Other
    OBVIOUS
  <2>2. PICK k \in Other : \A m \in Other : k <= m
    <3>. HIDE DEF Other
    <3>. QED BY <2>1, LeastNumber
  <2>3. ASSUME NEW i \in 1..k PROVE digits[i] = 0
    <3>1. i - 1 \in 0..length /\ ~(k <= i - 1) /\ (i - 1) + 1 = i
      BY <2>2
    <3>2. i - 1 \notin Other
      BY <2>2, <3>1
    <3>. QED BY <3>1, <3>2
  <2>. QED BY <2>2, <2>3
<1>3. PICK zeros \in 0..length : Starts(zeros) /\ DropLeading(digits) = SubSeq(digits, zeros + 1, length)
  <2>. DEFINE zeros == CHOOSE k \in 0..length : Starts(k)
  <2>1. zeros \in 0..length /\ Starts(zeros)
    <3>. HIDE DEF Starts
    <3>. QED BY <1>2
  <2>2. DropLeading(digits) = SubSeq(digits, zeros + 1, length)
    BY <1>1 DEF DropLeading
  <2>. QED BY <2>1, <2>2
<1>4. PICK text : text = SubSeq(digits, zeros + 1, length)
  OBVIOUS
<1>5. text \in Seq(0..9) /\ Len(text) = length - zeros /\ \A i \in 1..Len(text) : text[i] = digits[zeros + i]
  BY <1>1, <1>3, <1>4
<1>. QED BY <1>1, <1>3, <1>4, <1>5

-----------------------------------------------------------------------------
(* The value of digits and its parts. *)

LEMMA ValueFits ==
    ASSUME NEW digits \in Seq(0..9)
    PROVE  /\ ValueOf(digits) \in 0..(PowerOfTen[Len(digits)] - 1)
           /\ ValueOf(digits) \in Nat /\ Len(digits) \in Nat
           /\ PowerOfTen[Len(digits)] \in Nat \ {0}
<1>1. Len(digits) \in Nat /\ Len(digits) \in 0..Len(digits)
  OBVIOUS
<1>2. PrefixValues(digits)[Len(digits)] \in 0..(PowerOfTen[Len(digits)] - 1)
  BY <1>1, PrefixValuesFit
<1>3. PowerOfTen[Len(digits)] \in Nat \ {0}
  BY <1>1, PowerOfTenIs
<1>. QED BY <1>1, <1>2, <1>3 DEF ValueOf

\* Digits that follow the first k of others.
LEMMA ValuesFollow ==
    ASSUME NEW s \in Seq(Int), NEW t \in Seq(Int), NEW k \in 0..Len(s), k + Len(t) <= Len(s),
           \A j \in 1..Len(t) : s[k + j] = t[j], NEW m \in 0..Len(t)
    PROVE  PrefixValues(s)[k + m] = PrefixValues(s)[k] * PowerOfTen[m] + PrefixValues(t)[m]
<1>. DEFINE p == PrefixValues(s)
            q == PrefixValues(t)
            Good == {n \in Nat : n <= Len(t) => p[k + n] = p[k] * PowerOfTen[n] + q[n]}
<1>1. /\ p \in [0..Len(s) -> Int] /\ p[0] = 0
      /\ \A n \in 1..Len(s) : p[n] = 10 * p[n - 1] + s[n]
  BY PrefixValuesIs
<1>2. /\ q \in [0..Len(t) -> Int] /\ q[0] = 0
      /\ \A n \in 1..Len(t) : q[n] = 10 * q[n - 1] + t[n]
  BY PrefixValuesIs
<1>3. PICK length \in Nat, rest \in Nat : length = Len(s) /\ rest = Len(t)
  OBVIOUS
<1>. HIDE DEF p, q
<1>4. p[k] \in Int /\ k \in Nat
  <2>1. k \in Nat
    BY <1>3
  <2>. QED BY <1>1, <2>1
<1>5. 0 \in Good
  <2>1. PICK v \in Int : v = p[k]
    BY <1>4
  <2>2. p[k + 0] = v * 1 + 0
    BY <1>4, <2>1
  <2>. QED BY <1>2, <2>1, <2>2, PowerOfTenIs
<1>6. ASSUME NEW n \in Nat, n \in Good PROVE n + 1 \in Good
  <2>. SUFFICES ASSUME n + 1 <= Len(t)
                PROVE  p[k + (n + 1)] = p[k] * PowerOfTen[n + 1] + q[n + 1]
    OBVIOUS
  <2>1. n + 1 \in 1..rest /\ (n + 1) - 1 = n /\ k + (n + 1) \in 1..length
        /\ (k + (n + 1)) - 1 = k + n /\ n \in 0..rest
    BY <1>3, <1>4
  <2>2. p[k + (n + 1)] = 10 * p[k + n] + s[k + (n + 1)]
    BY <1>1, <1>3, <2>1
  <2>3. q[n + 1] = 10 * q[n] + t[n + 1] /\ s[k + (n + 1)] = t[n + 1]
    BY <1>2, <1>3, <2>1
  <2>4. PICK v \in Int, w \in Int, d \in Int : v = p[k] /\ w = q[n] /\ d = t[n + 1]
    <3>1. t[n + 1] \in Int
      BY <1>3, <2>1
    <3>2. q[n] \in Int
      BY <1>2, <1>3, <2>1
    <3>. QED BY <1>4, <3>1, <3>2
  <2>5. PICK power \in Nat : power = PowerOfTen[n] /\ PowerOfTen[n + 1] = 10 * power
    BY PowerOfTenIs
  <2>6. p[k + n] = v * power + w
    BY <1>6, <2>4, <2>5
  <2>7. 10 * (v * power + w) + d = v * (10 * power) + (10 * w + d)
    OBVIOUS
  <2>. QED BY <2>2, <2>3, <2>4, <2>5, <2>6, <2>7
<1>7. m \in Nat /\ m \in Good
  <2>1. m \in Nat
    BY <1>3
  <2>. HIDE DEF Good
  <2>. QED BY <1>5, <1>6, <2>1, Induction
<1>. QED BY <1>3, <1>7 DEF p, q

\* The same first digits have the same values.
LEMMA PrefixesAgree ==
    ASSUME NEW s \in Seq(Int), NEW t \in Seq(Int), NEW k \in 0..Len(s), k <= Len(t),
           \A j \in 1..k : s[j] = t[j]
    PROVE  PrefixValues(s)[k] = PrefixValues(t)[k]
<1>. DEFINE p == PrefixValues(s)
            q == PrefixValues(t)
            Good == {n \in Nat : n <= k => p[n] = q[n]}
<1>1. p[0] = 0 /\ \A n \in 1..Len(s) : p[n] = 10 * p[n - 1] + s[n]
  BY PrefixValuesIs
<1>2. q[0] = 0 /\ \A n \in 1..Len(t) : q[n] = 10 * q[n - 1] + t[n]
  BY PrefixValuesIs
<1>3. PICK length \in Nat, rest \in Nat : length = Len(s) /\ rest = Len(t) /\ k \in Nat
  OBVIOUS
<1>. HIDE DEF p, q
<1>4. 0 \in Good
  BY <1>1, <1>2
<1>5. ASSUME NEW n \in Nat, n \in Good PROVE n + 1 \in Good
  <2>. SUFFICES ASSUME n + 1 <= k PROVE p[n + 1] = q[n + 1]
    OBVIOUS
  <2>1. n + 1 \in 1..length /\ n + 1 \in 1..rest /\ n + 1 \in 1..k /\ (n + 1) - 1 = n /\ n <= k
    BY <1>3
  <2>2. p[n + 1] = 10 * p[n] + s[n + 1] /\ q[n + 1] = 10 * q[n] + t[n + 1] /\ s[n + 1] = t[n + 1]
    BY <1>1, <1>2, <1>3, <2>1
  <2>. QED BY <1>5, <2>1, <2>2
<1>6. k \in Good
  <2>. HIDE DEF Good
  <2>. QED BY <1>3, <1>4, <1>5, Induction
<1>. QED BY <1>6, <1>3 DEF p, q

\* Digits one after the other.
LEMMA ValueOfBoth ==
    ASSUME NEW x \in Seq(Int), NEW y \in Seq(Int)
    PROVE  ValueOf(x \o y) = ValueOf(x) * PowerOfTen[Len(y)] + ValueOf(y)
<1>1. PICK s \in Seq(Int) :
         /\ s = x \o y /\ Len(s) = Len(x) + Len(y)
         /\ \A i \in 1..(Len(x) + Len(y)) : s[i] = IF i <= Len(x) THEN x[i] ELSE y[i - Len(x)]
  <2>1. /\ x \o y \in Seq(Int) /\ Len(x \o y) = Len(x) + Len(y)
        /\ \A i \in 1..(Len(x) + Len(y)) :
               (x \o y)[i] = IF i <= Len(x) THEN x[i] ELSE y[i - Len(x)]
    BY ConcatProperties, Zenon
  <2>. QED BY <2>1, Zenon
<1>2. Len(s) = Len(x) + Len(y) /\ Len(x) \in 0..Len(s) /\ Len(y) \in 0..Len(y)
      /\ Len(x) \in 0..Len(x) /\ Len(x) + Len(y) <= Len(s)
  BY <1>1
<1>3. \A j \in 1..Len(y) : s[Len(x) + j] = y[j]
  BY <1>1
<1>4. \A j \in 1..Len(x) : s[j] = x[j]
  BY <1>1
<1>5. PrefixValues(s)[Len(x) + Len(y)]
        = PrefixValues(s)[Len(x)] * PowerOfTen[Len(y)] + PrefixValues(y)[Len(y)]
  BY <1>2, <1>3, ValuesFollow
<1>6. PrefixValues(s)[Len(x)] = PrefixValues(x)[Len(x)]
  <2>1. Len(x) <= Len(x) /\ Len(x) \in 0..Len(s)
    BY <1>2
  <2>. QED BY <1>4, <2>1, PrefixesAgree
<1>. QED BY <1>1, <1>2, <1>5, <1>6 DEF ValueOf

LEMMA ZerosAre ==
    ASSUME NEW n \in Int
    PROVE  /\ Zeros(n) \in Seq(0..9) /\ Len(Zeros(n)) = (IF n > 0 THEN n ELSE 0)
           /\ \A i \in 1..Len(Zeros(n)) : Zeros(n)[i] = 0
<1>1. CASE n > 0
  <2>1. n \in Nat /\ Zeros(n) = [i \in 1..n |-> 0]
    BY <1>1 DEF Zeros
  <2>. QED BY <1>1, <2>1
<1>2. CASE ~(n > 0)
  BY <1>2 DEF Zeros
<1>. QED BY <1>1, <1>2

\* Digits that are zero from the first on.
LEMMA ZerosFirst ==
    ASSUME NEW s \in Seq(0..9), NEW k \in 0..Len(s), \A i \in 1..k : s[i] = 0
    PROVE  PrefixValues(s)[k] = 0
<1>. DEFINE p == PrefixValues(s)
            Good == {n \in Nat : n <= k => p[n] = 0}
<1>1. p[0] = 0 /\ \A n \in 1..Len(s) : p[n] = 10 * p[n - 1] + s[n]
  <2>1. s \in Seq(Int)
    OBVIOUS
  <2>. QED BY <2>1, PrefixValuesIs
<1>2. PICK length \in Nat : length = Len(s) /\ k \in Nat /\ k <= length
  OBVIOUS
<1>. HIDE DEF p
<1>3. 0 \in Good
  BY <1>1
<1>4. ASSUME NEW n \in Nat, n \in Good PROVE n + 1 \in Good
  <2>. SUFFICES ASSUME n + 1 <= k PROVE p[n + 1] = 0
    OBVIOUS
  <2>1. n + 1 \in 1..length /\ n + 1 \in 1..k /\ (n + 1) - 1 = n /\ n <= k
    BY <1>2
  <2>2. p[n + 1] = 10 * p[n] + s[n + 1] /\ s[n + 1] = 0 /\ p[n] = 0
    BY <1>1, <1>2, <1>4, <2>1
  <2>. QED BY <2>2
<1>5. k \in Good
  <2>. HIDE DEF Good
  <2>. QED BY <1>2, <1>3, <1>4, Induction
<1>. QED BY <1>2, <1>5 DEF p

LEMMA ValueOfZeros ==
    ASSUME NEW s \in Seq(0..9), \A i \in 1..Len(s) : s[i] = 0
    PROVE  ValueOf(s) = 0
<1>1. Len(s) \in 0..Len(s)
  OBVIOUS
<1>. QED BY <1>1, ZerosFirst DEF ValueOf

\* The first k digits, and the others.
LEMMA PartsAre ==
    ASSUME NEW s \in Seq(0..9), NEW k \in 0..Len(s)
    PROVE  /\ SubSeq(s, 1, k) \in Seq(0..9) /\ Len(SubSeq(s, 1, k)) = k
           /\ \A i \in 1..k : SubSeq(s, 1, k)[i] = s[i]
           /\ SubSeq(s, k + 1, Len(s)) \in Seq(0..9) /\ Len(SubSeq(s, k + 1, Len(s))) = Len(s) - k
           /\ \A i \in 1..(Len(s) - k) : SubSeq(s, k + 1, Len(s))[i] = s[k + i]
<1>1. PICK t : t = SubSeq(s, 1, k)
  OBVIOUS
<1>2. PICK u : u = SubSeq(s, k + 1, Len(s))
  OBVIOUS
<1>3. t \in Seq(0..9) /\ Len(t) = k /\ \A i \in 1..k : t[i] = s[i]
  BY <1>1
<1>4. u \in Seq(0..9) /\ Len(u) = Len(s) - k /\ \A i \in 1..(Len(s) - k) : u[i] = s[k + i]
  BY <1>2
<1>. QED BY <1>1, <1>2, <1>3, <1>4

\* The digits after the first k are a remainder below their power of ten.
LEMMA ValueAfter ==
    ASSUME NEW s \in Seq(0..9), NEW k \in 0..Len(s)
    PROVE  /\ Len(s) - k \in Nat /\ PowerOfTen[Len(s) - k] \in Nat \ {0}
           /\ PrefixValues(s)[k] \in Nat
           /\ \E rest \in 0..(PowerOfTen[Len(s) - k] - 1) :
                /\ rest = ValueOf(SubSeq(s, k + 1, Len(s)))
                /\ ValueOf(s) = PrefixValues(s)[k] * PowerOfTen[Len(s) - k] + rest
<1>0. PICK length \in Nat : length = Len(s)
  OBVIOUS
<1>1. PICK m \in Nat : length = Len(s) /\ m = Len(s) - k /\ k + m = length /\ k \in Nat
  <2>1. k \in Nat /\ k <= length
    BY <1>0
  <2>2. length - k \in Nat /\ k + (length - k) = length
    BY <2>1
  <2>. QED BY <1>0, <2>1, <2>2
<1>2. PICK t : t = SubSeq(s, k + 1, Len(s))
  OBVIOUS
<1>3. t \in Seq(0..9) /\ Len(t) = m /\ \A j \in 1..m : s[k + j] = t[j]
  BY <1>1, <1>2
<1>4. s \in Seq(Int) /\ t \in Seq(Int)
  <2>1. 0..9 \subseteq Int
    OBVIOUS
  <2>. QED BY <1>3, <2>1, SeqMonotonic
<1>5. PrefixValues(s)[k + m] = PrefixValues(s)[k] * PowerOfTen[m] + PrefixValues(t)[m]
  <2>1. m \in 0..Len(t) /\ k + Len(t) <= Len(s) /\ \A j \in 1..Len(t) : s[k + j] = t[j]
    BY <1>1, <1>3
  <2>. QED BY <1>4, <2>1, ValuesFollow
<1>6. ValueOf(t) \in 0..(PowerOfTen[m] - 1) /\ PowerOfTen[m] \in Nat \ {0}
  BY <1>3, ValueFits
<1>7. PrefixValues(s)[k] \in Nat
  <2>1. PICK power \in Nat \ {0} : power = PowerOfTen[k]
    BY <1>1, PowerOfTenIs
  <2>2. PrefixValues(s)[k] \in 0..(PowerOfTen[k] - 1)
    BY PrefixValuesFit
  <2>. QED BY <2>1, <2>2
<1>8. ValueOf(s) = PrefixValues(s)[k + m] /\ ValueOf(t) = PrefixValues(t)[m]
  BY <1>1, <1>3 DEF ValueOf
<1>. QED BY <1>1, <1>2, <1>5, <1>6, <1>7, <1>8

\* Of digits of one length, the first that differ decide.
LEMMA FirstDecides ==
    ASSUME NEW x \in Seq(0..9), NEW y \in Seq(0..9), Len(x) = Len(y), NEW k \in 1..Len(x),
           \A j \in 1..(k - 1) : x[j] = y[j], x[k] < y[k]
    PROVE  ValueOf(x) < ValueOf(y)
<1>1. PICK length \in Nat : length = Len(x) /\ length = Len(y) /\ k \in 0..length /\ k - 1 \in 0..length
  OBVIOUS
<1>2. PICK power \in Nat \ {0}, v \in Nat, rest \in Nat :
         rest < power /\ power = PowerOfTen[length - k] /\ v = PrefixValues(x)[k] /\ ValueOf(x) = v * power + rest
  <2>1. /\ Len(x) - k \in Nat /\ PowerOfTen[Len(x) - k] \in Nat \ {0}
        /\ PrefixValues(x)[k] \in Nat
        /\ \E rest \in 0..(PowerOfTen[Len(x) - k] - 1) :
             ValueOf(x) = PrefixValues(x)[k] * PowerOfTen[Len(x) - k] + rest
    BY <1>1, ValueAfter
  <2>. QED BY <1>1, <2>1
<1>3. PICK w \in Nat, other \in 0..(power - 1) :
         w = PrefixValues(y)[k] /\ ValueOf(y) = w * power + other
  <2>1. PowerOfTen[Len(y) - k] = power /\ k \in 0..Len(y)
    BY <1>1, <1>2
  <2>. QED BY <2>1, ValueAfter
<1>4. v < w
  <2>1. x \in Seq(Int) /\ y \in Seq(Int)
    OBVIOUS
  <2>2. PrefixValues(x)[k - 1] = PrefixValues(y)[k - 1]
    <3>1. k - 1 \in 0..Len(x) /\ k - 1 <= Len(y)
      BY <1>1
    <3>. QED BY <2>1, <3>1, PrefixesAgree
  <2>3. PrefixValues(x)[k] = 10 * PrefixValues(x)[k - 1] + x[k]
    BY <2>1, PrefixValuesIs
  <2>4. PrefixValues(y)[k] = 10 * PrefixValues(y)[k - 1] + y[k]
    BY <1>1, <2>1, PrefixValuesIs
  <2>5. PICK c \in Int : c = PrefixValues(x)[k - 1]
    <3>1. k - 1 \in 0..Len(x)
      BY <1>1
    <3>2. PrefixValues(x)[k - 1] \in Nat
      BY <3>1, ValueAfter
    <3>. QED BY <3>2
  <2>6. PICK d \in Int, e \in Int : d = x[k] /\ e = y[k]
    BY <1>1
  <2>7. v = 10 * c + d /\ w = 10 * c + e /\ d < e
    BY <1>2, <1>3, <2>2, <2>3, <2>4, <2>5, <2>6
  <2>. QED BY <2>7
<1>5. v * power + power <= w * power
  BY <1>4, TimesGrows
<1>6. v * power \in Int /\ w * power \in Int
  OBVIOUS
<1>. QED BY <1>2, <1>3, <1>5, <1>6

\* Digits of one length that are not the same have such a first.
LEMMA FirstDifference ==
    ASSUME NEW x \in Seq(0..9), NEW y \in Seq(0..9), Len(x) = Len(y), x # y
    PROVE  \E k \in 1..Len(x) : x[k] # y[k] /\ \A j \in 1..(k - 1) : x[j] = y[j]
<1>1. PICK length \in Nat : length = Len(x) /\ length = Len(y)
  OBVIOUS
<1>. DEFINE Differ == {i \in 1..length : x[i] # y[i]}
<1>2. Differ # {} /\ Differ \subseteq Nat
  <2>1. \E i \in 1..length : x[i] # y[i]
    BY <1>1, SeqEqual
  <2>. QED BY <2>1
<1>3. PICK k \in Differ : \A i \in Differ : k <= i
  <2>. HIDE DEF Differ
  <2>. QED BY <1>2, LeastNumber
<1>4. k \in 1..length /\ x[k] # y[k]
  BY <1>3
<1>5. ASSUME NEW j \in 1..(k - 1) PROVE x[j] = y[j]
  <2>1. j \in 1..length /\ ~(k <= j)
    BY <1>4
  <2>2. j \notin Differ
    BY <1>3, <2>1
  <2>. QED BY <2>1, <2>2
<1>. QED BY <1>1, <1>4, <1>5

\* A first digit that is not zero.
LEMMA FirstDigitCounts ==
    ASSUME NEW s \in Seq(0..9), Len(s) > 0, s[1] # 0
    PROVE  Len(s) - 1 \in Nat /\ PowerOfTen[Len(s) - 1] <= ValueOf(s)
<1>1. PICK length \in Nat : length = Len(s) /\ 1 \in 0..length /\ 1 \in 1..length /\ 0 \in 0..length
  OBVIOUS
<1>2. PICK power \in Nat \ {0}, v \in Nat, rest \in Nat :
         rest < power /\ power = PowerOfTen[length - 1] /\ v = PrefixValues(s)[1] /\ ValueOf(s) = v * power + rest
  <2>1. /\ Len(s) - 1 \in Nat /\ PowerOfTen[Len(s) - 1] \in Nat \ {0}
        /\ PrefixValues(s)[1] \in Nat
        /\ \E rest \in 0..(PowerOfTen[Len(s) - 1] - 1) :
             ValueOf(s) = PrefixValues(s)[1] * PowerOfTen[Len(s) - 1] + rest
    BY <1>1, ValueAfter
  <2>. QED BY <1>1, <2>1
<1>3. 1 <= v
  <2>1. s \in Seq(Int)
    OBVIOUS
  <2>2. PrefixValues(s)[1] = 10 * PrefixValues(s)[1 - 1] + s[1] /\ PrefixValues(s)[0] = 0
    BY <1>1, <2>1, PrefixValuesIs
  <2>3. s[1] \in 0..9
    BY <1>1
  <2>. QED BY <1>2, <2>2, <2>3
<1>4. PICK one \in Int : one = 1
  OBVIOUS
<1>5. one * power <= v * power /\ one * power = power
  BY <1>3, <1>4, TimesGrows
<1>6. v * power \in Int
  OBVIOUS
<1>. QED BY <1>1, <1>2, <1>5, <1>6

-----------------------------------------------------------------------------
(* Powers. *)

LEMMA PowersAdd ==
    ASSUME NEW base \in Nat \ {0}, NEW m \in Nat, NEW n \in Nat
    PROVE  PowersOf(base)[m + n] = PowersOf(base)[m] * PowersOf(base)[n]
<1>. DEFINE p == PowersOf(base)
            Good == {k \in Nat : p[m + k] = p[m] * p[k]}
<1>1. p \in [Nat -> Nat \ {0}] /\ p[0] = 1 /\ \A k \in Nat : p[k + 1] = base * p[k]
  BY PowersOfIs
<1>. HIDE DEF p
<1>2. 0 \in Good
  <2>1. PICK v \in Nat : v = p[m] /\ m + 0 = m
    BY <1>1
  <2>2. v = v * 1
    OBVIOUS
  <2>. QED BY <1>1, <2>1, <2>2
<1>3. ASSUME NEW k \in Nat, k \in Good PROVE k + 1 \in Good
  <2>1. m + (k + 1) = (m + k) + 1 /\ m + k \in Nat
    OBVIOUS
  <2>2. p[m + (k + 1)] = base * p[m + k] /\ p[k + 1] = base * p[k]
    BY <1>1, <2>1
  <2>3. PICK v \in Nat, w \in Nat : v = p[m] /\ w = p[k] /\ p[m + k] = v * w
    BY <1>1, <1>3
  <2>4. base * (v * w) = v * (base * w)
    OBVIOUS
  <2>. QED BY <2>2, <2>3, <2>4
<1>4. n \in Good
  <2>. HIDE DEF Good
  <2>. QED BY <1>2, <1>3, Induction
<1>. QED BY <1>4 DEF p

LEMMA PowersOfTenAdd ==
    ASSUME NEW m \in Nat, NEW n \in Nat
    PROVE  PowerOfTen[m + n] = PowerOfTen[m] * PowerOfTen[n]
<1>1. PICK ten \in Nat \ {0} : ten = 10
  OBVIOUS
<1>2. PowersOf(ten)[m + n] = PowersOf(ten)[m] * PowersOf(ten)[n]
  BY PowersAdd
<1>. QED BY <1>1, <1>2 DEF PowerOfTen

LEMMA PowersOfTenGrow ==
    ASSUME NEW m \in Nat, NEW n \in Nat, m <= n
    PROVE  PowerOfTen[m] <= PowerOfTen[n]
<1>1. PICK k \in Nat : k = n - m /\ m + k = n
  <2>1. n - m \in Nat /\ m + (n - m) = n
    OBVIOUS
  <2>. QED BY <2>1
<1>2. PICK v \in Nat \ {0}, w \in Nat \ {0} : v = PowerOfTen[k] /\ w = PowerOfTen[m]
  BY PowerOfTenIs
<1>3. PowerOfTen[n] = w * v
  BY <1>1, <1>2, PowersOfTenAdd
<1>4. PICK one \in Int : one = 1
  OBVIOUS
<1>5. one * w <= v * w
  BY <1>4, TimesGrows
<1>6. v * w = w * v /\ one * w = w
  BY <1>4
<1>. QED BY <1>2, <1>3, <1>5, <1>6

\* A power of two or more is larger than its exponent.
LEMMA PowersExceed ==
    ASSUME NEW base \in Nat \ {0, 1}, NEW n \in Nat
    PROVE  PowersOf(base)[n] > n
<1>. DEFINE p == PowersOf(base)
            Good == {k \in Nat : p[k] > k}
<1>1. p \in [Nat -> Nat \ {0}] /\ p[0] = 1 /\ \A k \in Nat : p[k + 1] = base * p[k]
  <2>1. base \in Nat \ {0}
    OBVIOUS
  <2>. QED BY <2>1, PowersOfIs
<1>. HIDE DEF p
<1>2. 0 \in Good
  BY <1>1
<1>3. ASSUME NEW k \in Nat, k \in Good PROVE k + 1 \in Good
  <2>1. PICK v \in Nat \ {0} : v = p[k] /\ p[k + 1] = base * v /\ v > k
    BY <1>1, <1>3
  <2>2. PICK two \in Int : two = 2 /\ two <= base /\ base \in Int
    OBVIOUS
  <2>3. two * v <= base * v /\ two * v = v + v /\ base * v \in Int
    BY <2>2, TimesGrows
  <2>. QED BY <2>1, <2>3
<1>4. n \in Good
  <2>. HIDE DEF Good
  <2>. QED BY <1>2, <1>3, Induction
<1>. QED BY <1>4 DEF p

-----------------------------------------------------------------------------
(* Zeros before and after digits. *)

LEMMA ValueOfDropped ==
    ASSUME NEW digits \in Seq(0..9)
    PROVE  ValueOf(DropLeading(digits)) = ValueOf(digits)
<1>1. PICK zeros \in 0..Len(digits), text \in Seq(0..9) :
         /\ text = DropLeading(digits) /\ Len(text) = Len(digits) - zeros
         /\ \A i \in 1..zeros : digits[i] = 0
         /\ \A i \in 1..Len(text) : text[i] = digits[zeros + i]
  BY DropLeadingIs
<1>2. PICK length \in Nat : length = Len(digits)
  OBVIOUS
<1>3. PrefixValues(digits)[zeros] = 0
  BY <1>1, ZerosFirst
<1>4. digits \in Seq(Int) /\ text \in Seq(Int)
  <2>1. 0..9 \subseteq Int
    OBVIOUS
  <2>. QED BY <2>1, SeqMonotonic
<1>5. PrefixValues(digits)[zeros + Len(text)]
        = PrefixValues(digits)[zeros] * PowerOfTen[Len(text)] + PrefixValues(text)[Len(text)]
  <2>1. /\ zeros + Len(text) <= Len(digits) /\ Len(text) \in 0..Len(text)
        /\ \A j \in 1..Len(text) : digits[zeros + j] = text[j]
    BY <1>1, <1>2
  <2>. QED BY <1>4, <2>1, ValuesFollow
<1>6. ValueOf(digits) = 0 * PowerOfTen[Len(text)] + ValueOf(text)
  <2>1. zeros + Len(text) = Len(digits)
    BY <1>1, <1>2
  <2>. QED BY <1>3, <1>5, <2>1 DEF ValueOf
<1>7. PICK power \in Nat, v \in Nat : power = PowerOfTen[Len(text)] /\ v = ValueOf(text)
  BY ValueFits
<1>8. 0 * power + v = v
  OBVIOUS
<1>. QED BY <1>1, <1>6, <1>7, <1>8

LEMMA PadLeftIs ==
    ASSUME NEW digits \in Seq(0..9), NEW n \in Nat
    PROVE  /\ PadLeft(digits, n) \in Seq(0..9)
           /\ Len(PadLeft(digits, n)) = (IF Len(digits) > n THEN Len(digits) ELSE n)
           /\ ValueOf(PadLeft(digits, n)) = ValueOf(digits)
<1>1. PICK length \in Nat : length = Len(digits)
  OBVIOUS
<1>2. PICK zeros \in Seq(0..9) :
         /\ zeros = Zeros(n - Len(digits))
         /\ Len(zeros) = (IF n - length > 0 THEN n - length ELSE 0)
         /\ \A i \in 1..Len(zeros) : zeros[i] = 0
  <2>1. n - Len(digits) \in Int
    BY <1>1
  <2>. QED BY <1>1, <2>1, ZerosAre
<1>3. zeros \o digits \in Seq(0..9) /\ Len(zeros \o digits) = Len(zeros) + Len(digits)
  BY ConcatProperties, Zenon
<1>4. ValueOf(zeros) = 0
  BY <1>2, ValueOfZeros
<1>5. ValueOf(zeros \o digits) = ValueOf(zeros) * PowerOfTen[Len(digits)] + ValueOf(digits)
  <2>1. 0..9 \subseteq Int
    OBVIOUS
  <2>2. digits \in Seq(Int) /\ zeros \in Seq(Int)
    BY <2>1, SeqMonotonic
  <2>. QED BY <2>2, ValueOfBoth
<1>6. PICK power \in Nat, v \in Nat : power = PowerOfTen[Len(digits)] /\ v = ValueOf(digits)
  BY ValueFits
<1>7. 0 * power + v = v
  OBVIOUS
<1>8. PadLeft(digits, n) = zeros \o digits
  BY <1>2 DEF PadLeft
<1>9. Len(zeros) + length = (IF length > n THEN length ELSE n)
  BY <1>2
<1>. QED BY <1>1, <1>3, <1>4, <1>5, <1>6, <1>7, <1>8, <1>9

LEMMA PadRightIs ==
    ASSUME NEW digits \in Seq(0..9), NEW n \in Nat
    PROVE  /\ PadRight(digits, n) \in Seq(0..9)
           /\ Len(PadRight(digits, n)) = (IF Len(digits) > n THEN Len(digits) ELSE n)
           /\ \A i \in 1..Len(PadRight(digits, n)) :
                PadRight(digits, n)[i] = IF i <= Len(digits) THEN digits[i] ELSE 0
           /\ Len(digits) <= n =>
                /\ n - Len(digits) \in Nat
                /\ ValueOf(PadRight(digits, n)) = ValueOf(digits) * PowerOfTen[n - Len(digits)]
<1>1. PICK length \in Nat : length = Len(digits)
  OBVIOUS
<1>2. PICK zeros \in Seq(0..9) :
         /\ zeros = Zeros(n - Len(digits))
         /\ Len(zeros) = (IF n - length > 0 THEN n - length ELSE 0)
         /\ \A i \in 1..Len(zeros) : zeros[i] = 0
  <2>1. n - Len(digits) \in Int
    BY <1>1
  <2>. QED BY <1>1, <2>1, ZerosAre
<1>3. /\ digits \o zeros \in Seq(0..9) /\ Len(digits \o zeros) = Len(digits) + Len(zeros)
      /\ \A i \in 1..(Len(digits) + Len(zeros)) :
             (digits \o zeros)[i] = IF i <= Len(digits) THEN digits[i] ELSE zeros[i - Len(digits)]
  BY ConcatProperties, Zenon
<1>4. PICK padded \in Seq(0..9) : padded = digits \o zeros
  BY <1>3
<1>5. padded = PadRight(digits, n)
  BY <1>2, <1>4 DEF PadRight
<1>6. Len(padded) = length + Len(zeros) /\ Len(padded) = (IF length > n THEN length ELSE n)
  <2>1. PICK z \in Int : z = Len(zeros) /\ z = (IF n - length > 0 THEN n - length ELSE 0)
    BY <1>2
  <2>2. length + z = (IF length > n THEN length ELSE n)
    BY <2>1
  <2>. QED BY <1>1, <1>3, <1>4, <2>1, <2>2
<1>7. ASSUME NEW i \in 1..Len(padded) PROVE padded[i] = IF i <= length THEN digits[i] ELSE 0
  <2>1. padded[i] = IF i <= length THEN digits[i] ELSE zeros[i - length]
    BY <1>1, <1>3, <1>4, <1>6
  <2>2. ~(i <= length) => i - length \in 1..Len(zeros)
    BY <1>6, <1>2
  <2>. QED BY <1>2, <2>1, <2>2
<1>8. ASSUME length <= n
      PROVE  n - length \in Nat /\ ValueOf(padded) = ValueOf(digits) * PowerOfTen[n - length]
  <2>1. n - length \in Nat /\ Len(zeros) = n - length
    <3>1. n - length \in Nat /\ (n - length > 0 \/ n - length = 0)
      BY <1>8
    <3>. QED BY <1>2, <3>1
  <2>2. ValueOf(zeros) = 0
    BY <1>2, ValueOfZeros
  <2>3. ValueOf(digits \o zeros) = ValueOf(digits) * PowerOfTen[Len(zeros)] + ValueOf(zeros)
    <3>1. 0..9 \subseteq Int
      OBVIOUS
    <3>2. digits \in Seq(Int) /\ zeros \in Seq(Int)
      BY <3>1, SeqMonotonic
    <3>. QED BY <3>2, ValueOfBoth
  <2>4. PICK power \in Nat, v \in Nat : power = PowerOfTen[Len(zeros)] /\ v = ValueOf(digits)
    BY ValueFits
  <2>5. v * power + 0 = v * power
    OBVIOUS
  <2>. QED BY <1>4, <2>1, <2>2, <2>3, <2>4, <2>5
<1>. QED BY <1>1, <1>5, <1>6, <1>7, <1>8

\* The zeros that were dropped are those that padding adds.
LEMMA PadRightDropped ==
    ASSUME NEW digits \in Seq(0..9), NEW n \in Nat, Len(digits) <= n
    PROVE  PadRight(DropTrailing(digits), n) = PadRight(digits, n)
<1>1. PICK length \in Nat : length = Len(digits)
  OBVIOUS
<1>2. PICK last \in 0..length, text \in Seq(0..9) :
         /\ text = DropTrailing(digits) /\ Len(text) = last
         /\ \A i \in 1..last : text[i] = digits[i]
         /\ \A i \in (last + 1)..length : digits[i] = 0
  BY <1>1, DropTrailingIs
<1>3. PICK a \in Seq(0..9) :
         /\ a = PadRight(text, n) /\ Len(a) = n
         /\ \A i \in 1..n : a[i] = IF i <= last THEN text[i] ELSE 0
  <2>1. Len(text) <= n /\ ~(Len(text) > n)
    BY <1>1, <1>2
  <2>. QED BY <1>2, <2>1, PadRightIs
<1>4. PICK b \in Seq(0..9) :
         /\ b = PadRight(digits, n) /\ Len(b) = n
         /\ \A i \in 1..n : b[i] = IF i <= length THEN digits[i] ELSE 0
  <2>1. ~(Len(digits) > n)
    BY <1>1
  <2>. QED BY <1>1, <2>1, PadRightIs
<1>5. ASSUME NEW i \in 1..n PROVE a[i] = b[i]
  <2>1. CASE i <= last
    BY <1>2, <1>3, <1>4, <2>1
  <2>2. CASE ~(i <= last) /\ i <= length
    <3>1. i \in (last + 1)..length
      BY <2>2
    <3>. QED BY <1>2, <1>3, <1>4, <2>2, <3>1
  <2>3. CASE ~(i <= last) /\ ~(i <= length)
    BY <1>3, <1>4, <2>3
  <2>. QED BY <2>1, <2>2, <2>3
<1>6. a = b
  BY <1>3, <1>4, <1>5, SeqEqual
<1>. QED BY <1>2, <1>3, <1>4, <1>6
=============================================================================
