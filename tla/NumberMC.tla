------------------------------- MODULE NumberMC -------------------------------
(* Instances of Number for TLC.                                              *)
EXTENDS Number, TLC

CONSTANTS x, y

TwoObjects == {x, y}
TextAlphabet == {"+", "-", ".", "e", "0", "5", "1"}

Symmetry == Permutations(TwoObjects)

Of(v, places) == Pointed(v < 0, DigitsOf(IF v < 0 THEN 0 - v ELSE v, 3), places)
Values == {NaN} \union
    {Of(v, 0) : v \in {0, 1, -3, 7, 16, -25, 99, 105}} \union
    {Of(v, 1) : v \in {5, -15, 99}} \union {Of(v, 2) : v \in {1, 25, -101}}

=============================================================================
