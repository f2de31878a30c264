--------------------------- MODULE TomlCharacters ---------------------------
(***************************************************************************)
(* The bytes of TOML text, as toml.cpp classifies, checks, escapes and     *)
(* encodes them.  A byte is a character: the printable ones are themselves *)
(* and the others are named x and their number.                            *)
(***************************************************************************)
EXTENDS Integers, Sequences, SequencesExt, TLC

Printable ==
    <<" ", "!", "\"", "#", "$", "%", "&", "'", "(", ")", "*", "+", ",", "-", ".", "/",
      "0", "1", "2", "3", "4", "5", "6", "7", "8", "9", ":", ";", "<", "=", ">", "?",
      "@", "A", "B", "C", "D", "E", "F", "G", "H", "I", "J", "K", "L", "M", "N", "O",
      "P", "Q", "R", "S", "T", "U", "V", "W", "X", "Y", "Z", "[", "\\", "]", "^", "_",
      "x96", "a", "b", "c", "d", "e", "f", "g", "h", "i", "j", "k", "l", "m", "n", "o",
      "p", "q", "r", "s", "t", "u", "v", "w", "x", "y", "z", "{", "|", "}", "~">>

Byte(n) == IF n \in 32..126 THEN Printable[n - 31] ELSE "x" \o ToString(n)
Code == [c \in {Byte(n) : n \in 0..255} |-> CHOOSE n \in 0..255 : Byte(n) = c]

Tab == Byte(9)
LF == Byte(10)
CR == Byte(13)

IsBetween(c, low, high) == Code[low] <= Code[c] /\ Code[c] <= Code[high]

IsAsciiDigit(c) == IsBetween(c, "0", "9")
IsAsciiAlpha(c) == IsBetween(c, "a", "z") \/ IsBetween(c, "A", "Z")

\* -1 for a character that is no digit in the base.
DigitValue(c, base) ==
    LET value == CASE IsAsciiDigit(c) -> Code[c] - Code["0"]
                   [] IsBetween(c, "a", "f") -> Code[c] - Code["a"] + 10
                   [] IsBetween(c, "A", "F") -> Code[c] - Code["A"] + 10
                   [] OTHER -> -1
    IN IF value < base THEN value ELSE -1

IsBareKeyChar(c) == IsAsciiAlpha(c) \/ IsAsciiDigit(c) \/ c \in {"_", "-"}

IsForbiddenControl(c) == (Code[c] < 32 /\ c # Tab) \/ Code[c] = 127

-----------------------------------------------------------------------------
(* UTF-8.                                                                  *)

\* The bytes from one lead byte on: how many there are, and the range of the
\* second.  The others are in 128..191.  Nothing for what leads no character.
Encoding(lead) ==
    CASE lead \in 0..127 -> [length |-> 1, low |-> 128, high |-> 191]
      [] lead \in 194..223 -> [length |-> 2, low |-> 128, high |-> 191]
      [] lead = 224 -> [length |-> 3, low |-> 160, high |-> 191]
      [] lead = 237 -> [length |-> 3, low |-> 128, high |-> 159]
      [] lead \in (225..239) \ {237} -> [length |-> 3, low |-> 128, high |-> 191]
      [] lead = 240 -> [length |-> 4, low |-> 144, high |-> 191]
      [] lead = 244 -> [length |-> 4, low |-> 128, high |-> 143]
      [] lead \in 241..243 -> [length |-> 4, low |-> 128, high |-> 191]
      [] OTHER -> [length |-> 0, low |-> 128, high |-> 191]

\* As a bug would have it: the second byte has no range of its own.
ContinuesLoosely(bytes, i, k) == bytes[i + k] \in 128..191

\* The k-th byte after the lead at i is one that the lead allows.
Continues(bytes, i, k) ==
    IF k = 1 THEN bytes[i + 1] \in Encoding(bytes[i]).low..Encoding(bytes[i]).high
    ELSE bytes[i + k] \in 128..191

RECURSIVE IsValidUtf8From(_, _)
IsValidUtf8From(bytes, i) ==
    \/ i > Len(bytes)
    \/ LET length == Encoding(bytes[i]).length
       IN /\ length > 0
          /\ Len(bytes) - i + 1 >= length
          /\ \A k \in 1..(length - 1) : Continues(bytes, i, k)
          /\ IsValidUtf8From(bytes, i + length)

IsValidUtf8(text) == IsValidUtf8From([i \in DOMAIN text |-> Code[text[i]]], 1)

\* The encoding of a Unicode scalar value.
AppendUtf8(text, point) ==
    LET Trail(shift) == Byte(128 + ((point \div 2 ^ shift) % 64))
    IN text \o
       CASE point <= 127 -> <<Byte(point)>>
         [] point \in 128..2047 -> <<Byte(192 + point \div 2 ^ 6), Trail(0)>>
         [] point \in 2048..65535 -> <<Byte(224 + point \div 2 ^ 12), Trail(6), Trail(0)>>
         [] OTHER -> <<Byte(240 + point \div 2 ^ 18), Trail(12), Trail(6), Trail(0)>>

IsScalarValue(point) == point \in 0..1114111 /\ point \notin 55296..57343

-----------------------------------------------------------------------------
(* Escapes of basic strings.                                               *)

ShortEscapes ==
    ("\"" :> "\"") @@ ("\\" :> "\\") @@ ("n" :> LF) @@ ("t" :> Tab) @@ ("r" :> CR)
    @@ ("b" :> Byte(8)) @@ ("f" :> Byte(12))

Hex == <<"0", "1", "2", "3", "4", "5", "6", "7", "8", "9", "A", "B", "C", "D", "E", "F">>

\* As a bug would have it: the control characters are written as they are.
EscapedUnlessShort(c) ==
    IF \E letter \in DOMAIN ShortEscapes : ShortEscapes[letter] = c
    THEN <<"\\", CHOOSE letter \in DOMAIN ShortEscapes : ShortEscapes[letter] = c>>
    ELSE <<c>>

\* How the serializer writes one character of a string.
Escaped(c) ==
    CASE \E letter \in DOMAIN ShortEscapes : ShortEscapes[letter] = c ->
            <<"\\", CHOOSE letter \in DOMAIN ShortEscapes : ShortEscapes[letter] = c>>
      [] IsForbiddenControl(c) /\ ~\E letter \in DOMAIN ShortEscapes : ShortEscapes[letter] = c ->
            <<"\\", "u", "0", "0", Hex[Code[c] \div 16 + 1], Hex[(Code[c] % 16) + 1]>>
      [] OTHER -> <<c>>

EscapeString(text) ==
    FoldLeft(LAMBDA out, c : out \o Escaped(c), <<>>, text)

=============================================================================
