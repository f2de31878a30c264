SPECIFICATION Spec
CONSTANTS
    x = x
    y = y
    Objects <- TwoObjects
    Operands <- Values
    Alphabet <- TextAlphabet
    MaxExpanded = 5
    MaxExponentDigits = 1
    SignificantDigits = 3
    IntMax = 99
    LongMax = 999
    DoubleMax = 9999
    MaxWritten = 5
    MaxAssigned = 3
    MaxDigits = 6
    MaxSteps = 2
SYMMETRY Symmetry
INVARIANTS OrderIsOfValues ArithmeticIsExact QuotientIsTruncated TextReadsAsItsValue
CHECK_DEADLOCK FALSE
