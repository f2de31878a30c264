------------------------------ MODULE TomlText ------------------------------
(***************************************************************************)
(* The recursive descent of toml.cpp over the characters of a document,    *)
(* and the text its serializer writes.  Reading yields the lines of        *)
(* TomlDocument, which define the dictionary; a number is read by Decimal  *)
(* and a datetime by Timestamp.  Every reading operator takes the text and *)
(* the position it starts at, and returns the position after what it read  *)
(* and what that is, or Error.                                             *)
(*                                                                         *)
(* A text is typed piece by piece, so that TLC reads every text that a     *)
(* small alphabet of pieces makes.                                         *)
(***************************************************************************)
EXTENDS TomlCharacters, FiniteSets

CONSTANTS
    ChunkBits,    \* 63: the bits of digits that parse_prefixed_integer multiplies at once
    MaxExpanded,  \* max_expanded_digits of number
    MaxExponentDigits,
    Int64Max,     \* the largest integer written without a point
    Error,        \* what an operation that fails returns
    Pieces,       \* the pieces to type, by what a text of them is about
    Most          \* bound: pieces of a text, by what it is about

ASSUME ChunkAssumption == ChunkBits \in Nat /\ ChunkBits >= 4

VARIABLES
    about,    \* what this text is about
    typed,    \* pieces typed
    text      \* the document

vars == <<about, typed, text>>

\* Keys are ordered as std::string compares them.
KeyBefore(k, l) ==
    \/ \E i \in DOMAIN l : /\ SubSeq(k, 1, i - 1) = SubSeq(l, 1, i - 1)
                           /\ i \in DOMAIN k => Code[k[i]] < Code[l[i]]
                           /\ i \in DOMAIN k \/ Len(k) = i - 1

D == INSTANCE TomlDocument WITH
        Statements <- {}, MaxLines <- 0, lines <- <<>>, doc <- <<>>

N == INSTANCE Decimal

\* The fraction is cut short, and nothing here counts the seconds of years.
T == INSTANCE Timestamp WITH
        LastYear <- 9999, EpochYear <- 1970, YearWidth <- 32768, Width <- 2 ^ 20,
        HoursPerDay <- 24, MinutesPerHour <- 60, SecondsPerMinute <- 60,
        FractionDigits <- 2, Ticks <- {1}, None <- Error, Dates <- {}, Times <- {},
        Zones <- {}, Fractions <- {}, Points <- {}, Amounts <- {}, Steps <- {},
        ticks <- 1, left <- 0, right <- 0

Found(at, is) == [at |-> at, is |-> is]

\* What is read next, unless the first of it failed.
Then(read, Go(_)) == IF read = Error THEN Error ELSE Go(read)

-----------------------------------------------------------------------------
(* Looking at characters.                                                  *)

\* Beyond the text there is "end".
At(in, i) == IF i \in DOMAIN in THEN in[i] ELSE "end"

\* The first position from i on that Stops, at the latest after the text.
FirstFrom(in, i, Stops(_)) ==
    CHOOSE j \in i..(IF i > Len(in) THEN i ELSE Len(in) + 1) :
        /\ j > Len(in) \/ Stops(j)
        /\ \A k \in i..(j - 1) : ~Stops(k)

IsDigitAt(in, i, base) == At(in, i) # "end" /\ DigitValue(in[i], base) >= 0
DigitsAhead(in, i, count) == \A k \in 0..(count - 1) : IsDigitAt(in, i + k, 10)
AtLineEnd(in, i) == At(in, i) = LF \/ (At(in, i) = CR /\ At(in, i + 1) = LF)
IsSpaceAt(in, i) == At(in, i) \in {" ", Tab}

\* A CR may only start a CRLF.
SkipWhitespace(in, i) ==
    LET Stops(j) == ~(IsSpaceAt(in, j) \/ (At(in, j) = CR /\ At(in, j + 1) = LF))
    IN FirstFrom(in, i, Stops)

\* A comment ends with its line, or at a control character that it must not have.
CommentEnd(in, i) ==
    LET Stops(j) == in[j] = LF \/ (IsForbiddenControl(in[j]) /\ ~AtLineEnd(in, j))
    IN FirstFrom(in, i, Stops)

RECURSIVE SkipWhitespaceAndComments(_, _)
SkipWhitespaceAndComments(in, i) ==
    LET blank == SkipWhitespace(in, i)
        rest == IF At(in, blank) = "#" THEN CommentEnd(in, blank) ELSE blank
    IN IF At(in, rest) = LF THEN SkipWhitespaceAndComments(in, rest + 1) ELSE rest

\* As a bug would have it: anything may follow a pair or a header.
AnythingEndsLine(in, i) == TRUE

ExpectLineEnd(in, i) == At(in, SkipWhitespace(in, i)) \in {"end", LF, "#"}

-----------------------------------------------------------------------------
(* Strings and keys.                                                       *)

\* The escape whose letter is at i.
ReadEscape(in, i) ==
    LET digits == IF At(in, i) = "u" THEN 4 ELSE 8
        code == FoldLeft(LAMBDA v, c : 16 * v + DigitValue(c, 16), 0,
                         SubSeq(in, i + 1, i + digits))
    IN CASE At(in, i) \in DOMAIN ShortEscapes -> Found(i + 1, <<ShortEscapes[in[i]]>>)
         [] At(in, i) \in {"u", "U"} ->
                IF (\A k \in 1..digits : IsDigitAt(in, i + k, 16)) /\ IsScalarValue(code)
                THEN Found(i + digits + 1, AppendUtf8(<<>>, code))
                ELSE Error
         [] OTHER -> Error

\* From after the opening quote.
RECURSIVE BasicRest(_, _, _)
BasicRest(in, i, read) ==
    CASE At(in, i) = "end" -> Error
      [] At(in, i) = "\"" -> Found(i + 1, read)
      [] At(in, i) = "\\" ->
            Then(ReadEscape(in, i + 1),
                 LAMBDA escape : BasicRest(in, escape.at, read \o escape.is))
      [] OTHER -> IF IsForbiddenControl(in[i]) THEN Error
                  ELSE BasicRest(in, i + 1, Append(read, in[i]))

ReadBasicString(in, i) == BasicRest(in, i + 1, <<>>)

ReadLiteralString(in, i) ==
    LET Stops(j) == in[j] = "'" \/ IsForbiddenControl(in[j])
        close == FirstFrom(in, i + 1, Stops)
    IN IF At(in, close) = "'" THEN Found(close + 1, SubSeq(in, i + 1, close - 1)) ELSE Error

IsTriple(in, i, quote) == \A k \in 0..2 : At(in, i + k) = quote

\* Up to two quotes may come right before the closing ones.
Close(in, i, quote, read) ==
    LET extra == CHOOSE n \in 0..2 : /\ \A k \in 1..n : At(in, i + 2 + k) = quote
                                     /\ n = 2 \/ At(in, i + 3 + n) # quote
    IN Found(i + 3 + extra, read \o [k \in 1..extra |-> quote])

\* After a backslash that ends its line, all white space goes.
AfterLineBreaks(in, i) ==
    FirstFrom(in, i, LAMBDA j : ~(IsSpaceAt(in, j) \/ AtLineEnd(in, j)))

EndsLine(in, i) ==
    LET after == FirstFrom(in, i, LAMBDA j : ~IsSpaceAt(in, j))
    IN AtLineEnd(in, after) \/ At(in, after) = "end"

RECURSIVE MultiLineRest(_, _, _, _)
MultiLineRest(in, i, quote, read) ==
    LET basic == quote = "\""
    IN CASE At(in, i) = "end" -> Error
         [] IsTriple(in, i, quote) -> Close(in, i, quote, read)
         [] basic /\ in[i] = "\\" /\ EndsLine(in, i + 1) ->
                MultiLineRest(in, AfterLineBreaks(in, i + 1), quote, read)
         [] basic /\ At(in, i) = "\\" /\ ~EndsLine(in, i + 1) ->
                Then(ReadEscape(in, i + 1),
                     LAMBDA escape : MultiLineRest(in, escape.at, quote, read \o escape.is))
         [] AtLineEnd(in, i) ->
                LET next == IF in[i] = CR THEN i + 2 ELSE i + 1
                IN MultiLineRest(in, next, quote, read \o SubSeq(in, i, next - 1))
         [] OTHER -> IF IsForbiddenControl(in[i]) THEN Error
                     ELSE MultiLineRest(in, i + 1, quote, Append(read, in[i]))

\* A newline right after the opening quotes goes too.
ReadMultiLineString(in, i, quote) ==
    LET start == CASE At(in, i + 3) = LF -> i + 4
                   [] At(in, i + 3) = CR /\ At(in, i + 4) = LF -> i + 5
                   [] OTHER -> i + 3
    IN MultiLineRest(in, start, quote, <<>>)

ReadKey(in, i) ==
    LET Stops(j) == ~IsBareKeyChar(in[j])
        end == FirstFrom(in, i, Stops)
    IN CASE At(in, i) = "\"" -> ReadBasicString(in, i)
         [] At(in, i) = "'" -> ReadLiteralString(in, i)
         [] OTHER -> IF end = i THEN Error ELSE Found(end, SubSeq(in, i, end - 1))

\* Keys joined by dots, up to what follows the white space after them.
RECURSIVE ReadKeys(_, _)
ReadKeys(in, i) ==
    LET After(key, next) ==
            IF At(in, next) # "." THEN Found(next, <<key>>)
            ELSE Then(ReadKeys(in, next + 1),
                      LAMBDA rest : Found(rest.at, <<key>> \o rest.is))
    IN Then(ReadKey(in, SkipWhitespace(in, i)),
            LAMBDA key : After(key.is, SkipWhitespace(in, key.at)))

-----------------------------------------------------------------------------
(* Numbers and datetimes.                                                  *)

Number(chars) ==
    LET Of(canonical) ==
            IF canonical = N!NaN THEN Error
            ELSE D!Scalar(<<"number", canonical, N!WrittenAsFloat(chars)>>)
    IN Of(N!CanonicalText(chars))

\* As a bug would have it: an underscore may be anywhere after a digit.
ReadDigitsLoosely(in, i, base) ==
    LET end == FirstFrom(in, i, LAMBDA j : ~(IsDigitAt(in, j, base) \/ in[j] = "_"))
    IN IF At(in, i) = "_" THEN Error
       ELSE Found(end, SelectSeq(SubSeq(in, i, end - 1), LAMBDA c : c # "_"))

\* An underscore is between two digits, and is not kept.
ReadDigits(in, i, base) ==
    LET end == FirstFrom(in, i, LAMBDA j : ~(IsDigitAt(in, j, base) \/ in[j] = "_"))
        Stray(j) == in[j] = "_" /\ (j = i \/ ~IsDigitAt(in, j + 1, base))
    IN IF \E j \in i..(end - 1) : Stray(j) THEN Error
       ELSE Found(end, SelectSeq(SubSeq(in, i, end - 1), LAMBDA c : c # "_"))

AtIntegerPrefix(in, i) == At(in, i) = "0" /\ At(in, i + 1) \in {"x", "o", "b"}

BitsOf(prefix) == CASE prefix = "x" -> 4 [] prefix = "o" -> 3 [] prefix = "b" -> 1

\* As a bug would have it: every chunk makes room for as many digits as the longest.
InChunksOfOneLength(digits, bits) ==
    LET chunk == ChunkBits \div bits
        Chunk(n) == SubSeq(digits, (n - 1) * chunk + 1,
                           IF n * chunk < Len(digits) THEN n * chunk ELSE Len(digits))
        Part(n) == FoldLeft(LAMBDA v, c : v * 2 ^ bits + DigitValue(c, 16), 0, Chunk(n))
    IN FoldLeft(LAMBDA v, n : v * 2 ^ (bits * chunk) + Part(n), 0,
                [n \in 1..((Len(digits) + chunk - 1) \div chunk) |-> n])

\* As many digits as fit in the bits of a chunk are multiplied in at once.
InChunks(digits, bits) ==
    LET chunk == ChunkBits \div bits
        Chunk(n) == SubSeq(digits, (n - 1) * chunk + 1,
                           IF n * chunk < Len(digits) THEN n * chunk ELSE Len(digits))
        Part(n) == FoldLeft(LAMBDA v, c : v * 2 ^ bits + DigitValue(c, 16), 0, Chunk(n))
    IN FoldLeft(LAMBDA v, n : v * 2 ^ (bits * Len(Chunk(n))) + Part(n), 0,
                [n \in 1..((Len(digits) + chunk - 1) \div chunk) |-> n])

\* Five decimal digits are enough for each four of a base of at most 16.
ReadPrefixedInteger(in, i) ==
    LET bits == BitsOf(in[i + 1])
        Length(digits) == Len(digits) + (Len(digits) + 3) \div 4
        Written(digits) == N!DigitsOf(InChunks(digits, bits), Length(digits))
        Integer(digits) == N!Pointed(FALSE, Written(digits), 0)
    IN Then(ReadDigits(in, i + 2, 2 ^ bits), LAMBDA digits :
           IF digits.is = <<>> THEN Error
           ELSE Found(digits.at, D!Scalar(<<"number", Integer(digits.is), FALSE>>)))

\* A fraction or an exponent: nothing without its mark, and a digit after it.
ReadPart(in, i, marks, signs) ==
    LET signed == IF At(in, i + 1) \in signs THEN 1 ELSE 0
    IN IF At(in, i) \notin marks THEN Found(i, <<>>)
       ELSE Then(ReadDigits(in, i + 1 + signed, 10), LAMBDA digits :
                IF digits.is = <<>> THEN Error
                ELSE Found(digits.at, SubSeq(in, i, i + signed) \o digits.is))

\* The integer part has no leading zero, a point has a digit on both sides.
ReadDecimal(in, i) ==
    LET sign == IF At(in, i) \in {"+", "-"} THEN <<in[i]>> ELSE <<>>
        start == i + Len(sign)
        Rest(whole) ==
            IF whole.is = <<>> \/ (in[start] = "0" /\ Len(whole.is) > 1) THEN Error
            ELSE Then(ReadPart(in, whole.at, {"."}, {}), LAMBDA fraction :
                 Then(ReadPart(in, fraction.at, {"e", "E"}, {"+", "-"}), LAMBDA exponent :
                 Then(Number(sign \o whole.is \o fraction.is \o exponent.is), LAMBDA number :
                 Found(exponent.at, number))))
    IN IF AtIntegerPrefix(in, start) THEN Error
       ELSE Then(ReadDigits(in, start, 10), Rest)

ReadNumber(in, i) ==
    IF AtIntegerPrefix(in, i) THEN ReadPrefixedInteger(in, i) ELSE ReadDecimal(in, i)

NumberAt(in, i, count) == N!ValueOf([k \in 1..count |-> DigitValue(in[i + k - 1], 10)])

AtDate(in, i) == DigitsAhead(in, i, 4) /\ At(in, i + 4) = "-"
AtTime(in, i) == DigitsAhead(in, i, 2) /\ At(in, i + 2) = ":"

\* A date, a time and an offset: what has not all three is no timestamp.
ReadDatetime(in, i) ==
    LET time == i + 11
        hasTime == \/ At(in, i + 10) \in {"T", "t"}
                   \/ At(in, i + 10) = " " /\ AtTime(in, time)
        pointed == At(in, time + 8) = "."
        zone == IF pointed
                THEN FirstFrom(in, time + 9, LAMBDA j : ~IsAsciiDigit(in[j]))
                ELSE time + 8
        digits == SubSeq(in, time + 9, zone - 1)
        offset == At(in, zone) \in {"+", "-"}
        iso ==
            [date |-> [year |-> NumberAt(in, i, 4), month |-> NumberAt(in, i + 5, 2),
                       day |-> NumberAt(in, i + 8, 2)],
             time |-> [hour |-> NumberAt(in, time, 2), minute |-> NumberAt(in, time + 3, 2),
                       second |-> NumberAt(in, time + 6, 2)],
             fraction |-> [k \in DOMAIN digits |-> DigitValue(digits[k], 10)],
             zone |-> IF offset
                      THEN [sign |-> in[zone], hours |-> NumberAt(in, zone + 1, 2),
                            minutes |-> NumberAt(in, zone + 4, 2)]
                      ELSE [sign |-> "Z"]]
    IN IF /\ AtDate(in, i) /\ DigitsAhead(in, i + 5, 2)
          /\ At(in, i + 7) = "-" /\ DigitsAhead(in, i + 8, 2)
          /\ hasTime /\ AtTime(in, time) /\ AtTime(in, time + 3) /\ DigitsAhead(in, time + 6, 2)
          /\ pointed => digits # <<>>
          /\ offset => AtTime(in, zone + 1) /\ DigitsAhead(in, zone + 4, 2)
          /\ offset \/ At(in, zone) \in {"Z", "z"}
       THEN Then(T!FromString(iso), LAMBDA stamp :
                Found(IF offset THEN zone + 6 ELSE zone + 1,
                      D!Scalar(<<"timestamp", stamp>>)))
       ELSE Error

-----------------------------------------------------------------------------
(* Values, pairs and headers.                                              *)

Starts(in, i, word) == \A k \in DOMAIN word : At(in, i + k - 1) = word[k]

\* number has no infinity and keeps nan for errors.
AtInfOrNan(in, i) ==
    LET start == IF At(in, i) \in {"+", "-"} THEN i + 1 ELSE i
    IN /\ Starts(in, start, <<"i", "n", "f">>) \/ Starts(in, start, <<"n", "a", "n">>)
       /\ At(in, start + 3) = "end" \/ ~IsBareKeyChar(in[start + 3])

ReadString(in, i) ==
    CASE IsTriple(in, i, in[i]) -> ReadMultiLineString(in, i, in[i])
      [] ~IsTriple(in, i, in[i]) /\ in[i] = "\"" -> ReadBasicString(in, i)
      [] ~IsTriple(in, i, in[i]) /\ in[i] = "'" -> ReadLiteralString(in, i)

ReadBoolean(in, i) ==
    CASE Starts(in, i, <<"t", "r", "u", "e">>) -> Found(i + 4, D!Scalar(<<"boolean", TRUE>>))
      [] Starts(in, i, <<"f", "a", "l", "s", "e">>) -> Found(i + 5, D!Scalar(<<"boolean", FALSE>>))
      [] OTHER -> Error

RECURSIVE ReadValue(_, _), ReadElements(_, _, _), ReadPairs(_, _, _), ReadPair(_, _)

\* From the first element on; a comma may follow the last.
ReadElements(in, i, values) ==
    LET AfterComma(after, more) ==
            IF At(in, after) = "]" THEN Found(after + 1, D!ArrayOf(more))
            ELSE ReadElements(in, after, more)
        After(next, more) ==
            CASE At(in, next) = "]" -> Found(next + 1, D!ArrayOf(more))
              [] At(in, next) = "," ->
                    AfterComma(SkipWhitespaceAndComments(in, next + 1), more)
              [] OTHER -> Error
    IN Then(ReadValue(in, i), LAMBDA value :
           After(SkipWhitespaceAndComments(in, value.at), Append(values, value.is)))

\* An inline table stays on its line, and a comma needs a pair after it.
ReadPairs(in, i, pairs) ==
    LET After(next, more) ==
            CASE At(in, next) = "}" -> Found(next + 1, D!Inline(more))
              [] At(in, next) = "," -> ReadPairs(in, SkipWhitespace(in, next + 1), more)
              [] OTHER -> Error
    IN Then(ReadPair(in, i), LAMBDA pair :
           After(SkipWhitespace(in, pair.at), Append(pairs, pair.is)))

ReadArray(in, first) ==
    IF At(in, first) = "]" THEN Found(first + 1, D!ArrayOf(<<>>))
    ELSE ReadElements(in, first, <<>>)

ReadInlineTable(in, first) ==
    IF At(in, first) = "}" THEN Found(first + 1, D!Inline(<<>>))
    ELSE ReadPairs(in, first, <<>>)

ReadValue(in, from) ==
    LET i == SkipWhitespace(in, from)
        c == At(in, i)
    IN CASE AtInfOrNan(in, i) -> Error
         [] c \in {"\"", "'"} ->
                Then(ReadString(in, i), LAMBDA string :
                    Found(string.at, D!Scalar(<<"string", string.is>>)))
         [] c = "[" -> ReadArray(in, SkipWhitespaceAndComments(in, i + 1))
         [] c = "{" -> ReadInlineTable(in, SkipWhitespace(in, i + 1))
         [] c \in {"t", "f"} -> ReadBoolean(in, i)
         [] AtDate(in, i) \/ AtTime(in, i) -> ReadDatetime(in, i)
         [] OTHER -> IF ~AtInfOrNan(in, i) /\ c # "end" /\ (c \in {"+", "-"} \/ IsAsciiDigit(c))
                     THEN ReadNumber(in, i) ELSE Error

ReadPair(in, i) ==
    Then(ReadKeys(in, i), LAMBDA keys :
        IF At(in, keys.at) # "=" THEN Error
        ELSE Then(ReadValue(in, keys.at + 1), LAMBDA value :
                 Found(value.at, D!Pair(keys.is, value.is))))

ReadHeader(in, i) ==
    LET array == At(in, i + 1) = "["
        Closed(keys) ==
            IF ~Starts(in, keys.at, IF array THEN <<"]", "]">> ELSE <<"]">>) THEN Error
            ELSE IF array THEN Found(keys.at + 2, D!ArrayHeader(keys.is))
            ELSE Found(keys.at + 1, D!Header(keys.is))
    IN Then(ReadKeys(in, IF array THEN i + 2 ELSE i + 1), Closed)

\* The lines of the document from the start of one on.
RECURSIVE ReadLines(_, _, _)
ReadLines(in, start, read) ==
    IF start > Len(in) THEN read
    ELSE Then(IF At(in, start) = "[" THEN ReadHeader(in, start) ELSE ReadPair(in, start),
              LAMBDA line :
                  IF ~ExpectLineEnd(in, line.at) THEN Error
                  ELSE ReadLines(in, SkipWhitespaceAndComments(in, line.at),
                                 Append(read, line.is)))

LinesOf(in) == ReadLines(in, SkipWhitespaceAndComments(in, 1), <<>>)

Deserialize(in) ==
    IF ~IsValidUtf8(in) THEN Error
    ELSE Then(LinesOf(in), LAMBDA read : D!Result(D!Read(read)))

-----------------------------------------------------------------------------
(* The text that the serializer writes.                                    *)

Digit(n, place) == Hex[((n \div 10 ^ place) % 10) + 1]
Padded(n, width) == [k \in 1..width |-> Digit(n, width - k)]
DigitChars(digits) == [k \in DOMAIN digits |-> Hex[digits[k] + 1]]

\* An integral value outside the range of TOML's 64-bit integers.
IsBeyond(number) ==
    /\ number.frac = <<>>
    /\ N!ValueOf(number.int) > Int64Max + (IF number.neg THEN 1 ELSE 0)

\* A float keeps its point, and so does what no 64-bit integer holds.
NumberText(number, floating) ==
    (IF number.neg THEN <<"-">> ELSE <<>>) \o DigitChars(number.int)
    \o (CASE number.frac # <<>> -> <<".">> \o DigitChars(number.frac)
          [] number.frac = <<>> /\ (floating \/ IsBeyond(number)) -> <<".", "0">>
          [] OTHER -> <<>>)

TimestampText(stamp) ==
    LET iso == T!FormatIso8601(stamp)
    IN Padded(iso.date.year, 4) \o <<"-">> \o Padded(iso.date.month, 2) \o <<"-">>
       \o Padded(iso.date.day, 2) \o <<"T">> \o Padded(iso.time.hour, 2) \o <<":">>
       \o Padded(iso.time.minute, 2) \o <<":">> \o Padded(iso.time.second, 2)
       \o (IF iso.fraction = <<>> THEN <<>> ELSE <<".">> \o DigitChars(iso.fraction))
       \o (IF iso.zone.sign = "Z" THEN <<"Z">>
           ELSE <<iso.zone.sign>> \o Padded(iso.zone.hours, 2) \o <<":">>
                \o Padded(iso.zone.minutes, 2))

Quoted(chars) == <<"\"">> \o EscapeString(chars) \o <<"\"">>

\* An empty key has no bare form.
KeyText(key) ==
    IF key # <<>> /\ \A i \in DOMAIN key : IsBareKeyChar(key[i]) THEN key ELSE Quoted(key)

Joined(parts, between) ==
    FoldLeft(LAMBDA out, part : IF out = <<>> THEN part ELSE out \o between \o part,
             <<>>, parts)

RECURSIVE ValueText(_)
PairText(pair) == KeyText(pair.keys[1]) \o <<" ", "=", " ">> \o ValueText(pair.text)
ValueText(value) ==
    CASE value.kind = "array" ->
            <<"[">> \o Joined([i \in DOMAIN value.of |-> ValueText(value.of[i])], <<",", " ">>)
            \o <<"]">>
      [] value.kind = "inline" ->
            <<"{">> \o Joined([i \in DOMAIN value.of |-> PairText(value.of[i])], <<",", " ">>)
            \o <<"}">>
      [] value.kind = "scalar" ->
            CASE value.of[1] = "string" -> Quoted(value.of[2])
              [] value.of[1] = "number" -> NumberText(value.of[2], value.of[3])
              [] value.of[1] = "timestamp" -> TimestampText(value.of[2])
              [] value.of = <<"boolean", TRUE>> -> <<"t", "r", "u", "e">>
              [] OTHER -> <<"f", "a", "l", "s", "e">>

LineText(line) ==
    LET path == Joined([i \in DOMAIN line.keys |-> KeyText(line.keys[i])], <<".">>)
    IN CASE line.type = "table" -> <<LF, "[">> \o path \o <<"]", LF>>
         [] line.type = "array" -> <<LF, "[", "[">> \o path \o <<"]", "]", LF>>
         [] line.type = "pair" -> PairText(line) \o <<LF>>

Serialize(dictionary) ==
    LET Checked(out) == IF IsValidUtf8(out) THEN out ELSE Error
    IN Checked(FoldLeft(LAMBDA out, line : out \o LineText(line), <<>>,
                        D!Written(dictionary.of, <<>>)))

-----------------------------------------------------------------------------
Init ==
    /\ about \in DOMAIN Pieces
    /\ typed = 0
    /\ text = <<>>

Type ==
    /\ typed < Most[about]
    /\ \E piece \in Pieces[about] : text' = text \o piece
    /\ typed' = typed + 1
    /\ UNCHANGED about

Next == Type

Spec == Init /\ [][Next]_vars

-----------------------------------------------------------------------------
(* The properties.  An alphabet is about documents, or about what may      *)
(* stand to the right of a key.                                            *)

Document == IF about = "documents" THEN text ELSE <<"a", "=">> \o text

\* The value, where an integer that is written as a float counts as one.
RECURSIVE Plain(_)
Plain(value) ==
    CASE value.kind = "scalar" ->
            IF value.of[1] = "number"
            THEN D!Scalar(<<"number", value.of[2], value.of[3] \/ IsBeyond(value.of[2])>>)
            ELSE value
      [] value.kind = "array" -> D!ArrayOf([i \in DOMAIN value.of |-> Plain(value.of[i])])
      [] value.kind = "table" -> D!TableOf([k \in DOMAIN value.of |-> Plain(value.of[k])])

\* What serialize() writes for a document that deserialize() read is itself
\* read, as an equal dictionary with floats still floats, whatever the strings,
\* keys, numbers and datetimes of the document are, and writing that again
\* gives the same text.
WritesBack ==
    \A dictionary \in {Deserialize(Document)} \ {Error} :
        \E written \in {Serialize(dictionary)} \ {Error} :
            \E again \in {Deserialize(written)} \ {Error} :
                /\ Plain(again) = Plain(dictionary)
                /\ Serialize(again) = written

\* Digits of a base as TOML writes them.
AreDigits(s, base) ==
    /\ s # <<>>
    /\ \A i \in DOMAIN s : s[i] = "_" \/ DigitValue(s[i], base) >= 0
    /\ s[1] # "_" /\ Last(s) # "_"
    /\ \A i \in 1..(Len(s) - 1) : s[i] # "_" \/ s[i + 1] # "_"

IsDecimalInteger(s) ==
    LET digits == IF s # <<>> /\ s[1] \in {"+", "-"} THEN Tail(s) ELSE s
    IN AreDigits(digits, 10) /\ (digits[1] = "0" => Len(digits) = 1)

IsExponent(s) ==
    AreDigits(IF s # <<>> /\ s[1] \in {"+", "-"} THEN Tail(s) ELSE s, 10)

IsTomlDecimal(s) ==
    \E e \in 1..(Len(s) + 1), p \in 1..(Len(s) + 1) :
        /\ p <= e
        /\ IsDecimalInteger(SubSeq(s, 1, p - 1))
        /\ p < e => s[p] = "." /\ AreDigits(SubSeq(s, p + 1, e - 1), 10)
        /\ e <= Len(s) => s[e] \in {"e", "E"} /\ IsExponent(SubSeq(s, e + 1, Len(s)))

IsTomlPrefixed(s) ==
    /\ Len(s) > 2 /\ s[1] = "0" /\ s[2] \in {"x", "o", "b"}
    /\ AreDigits(SubSeq(s, 3, Len(s)), 2 ^ BitsOf(s[2]))

WithoutUnderscores == SelectSeq(text, LAMBDA c : c # "_")

\* The integer that prefixed digits write.
PrefixedValue ==
    FoldLeft(LAMBDA v, c : v * 2 ^ BitsOf(text[2]) + DigitValue(c, 16), 0,
             SubSeq(WithoutUnderscores, 3, Len(WithoutUnderscores)))

\* A text is read as a number, to its end, exactly when the grammar of TOML
\* says it is one that number can hold, and is the number that it writes:
\* also where its digits take several chunks of 63 bits.
NumbersFollowToml ==
    about = "numbers" /\ text # <<>> =>
        \A read \in {IF At(text, 1) \in {"+", "-"} \/ IsAsciiDigit(text[1])
                     THEN ReadNumber(text, 1) ELSE Error},
           number \in {Number(WithoutUnderscores)} :
            LET whole == IF read = Error THEN FALSE ELSE read.at > Len(text)
            IN CASE IsTomlDecimal(text) /\ number # Error -> whole /\ read.is = number
                 [] IsTomlPrefixed(text) ->
                        whole /\ N!ValueOf(read.is.of[2].int) = PrefixedValue
                 [] OTHER -> ~whole

HasTriple(s, quote) == \E i \in DOMAIN s : IsTriple(s, i, quote)
\* A control character that a string between three quotes may not have.
HasStray(s) == \E i \in DOMAIN s :
    /\ IsForbiddenControl(s[i]) /\ ~AtLineEnd(s, i)
MultiLine(s, quote) == <<quote, quote, quote, LF>> \o s \o <<quote, quote, quote>>

WithoutLeading(s) ==
    LET first == FirstFrom(s, 1, LAMBDA i : ~(IsSpaceAt(s, i) \/ AtLineEnd(s, i)))
    IN SubSeq(s, first, Len(s))

\* A string reads as what was written: between quotes with escapes, whatever
\* characters it has; between three quotes as it stands, with quotes and line
\* ends of both kinds in it, up to two quotes before the closing ones, and
\* without the white space after a backslash that ends a line.
StringsReadAsWritten ==
    about = "strings" =>
        /\ ReadBasicString(Quoted(text), 1) = Found(Len(Quoted(text)) + 1, text)
        /\ \A quote \in {"\"", "'"} :
              ~HasTriple(text, quote) /\ (quote = "'" \/ "\\" \notin Range(text)) =>
                  /\ ReadMultiLineString(MultiLine(text, quote), 1, quote)
                        = IF HasStray(text) THEN Error
                          ELSE Found(Len(text) + 8, text)
                  /\ \A cut \in 0..Len(text) :
                        LET left == SubSeq(text, 1, cut)
                            right == SubSeq(text, cut + 1, Len(text))
                            broken == left \o <<"\\", " ", LF>> \o right
                        IN quote = "\"" /\ ~HasStray(left) /\ ~HasStray(right) =>
                               ReadMultiLineString(MultiLine(broken, quote), 1, quote)
                                   = Found(Len(broken) + 8, left \o WithoutLeading(right))

\* A number or a string means what TOML says that its text means.
ScalarsFollowToml == NumbersFollowToml /\ StringsReadAsWritten

\* The scalar value that the payload bits of a sequence of bytes make.
PointOf(bytes) ==
    LET lead == Code[bytes[1]]
        payload == CASE Len(bytes) = 1 -> lead
                     [] Len(bytes) = 2 -> lead % 32
                     [] Len(bytes) = 3 -> lead % 16
                     [] Len(bytes) = 4 -> lead % 8
    IN FoldLeft(LAMBDA v, c : v * 64 + (Code[c] % 64), payload, Tail(bytes))

RECURSIVE IsEncoded(_)
IsEncoded(bytes) ==
    \/ bytes = <<>>
    \/ \E n \in 1..4 :
          /\ n <= Len(bytes)
          /\ LET one == SubSeq(bytes, 1, n)
             IN IsScalarValue(PointOf(one)) /\ AppendUtf8(<<>>, PointOf(one)) = one
          /\ IsEncoded(SubSeq(bytes, n + 1, Len(bytes)))

\* The bytes accepted as UTF-8 are exactly the sequences of encoded scalar
\* values: no overlong form, no surrogate, nothing too large or cut short.
Utf8IsExact == about = "bytes" => (IsValidUtf8(text) <=> IsEncoded(text))

\* Every header and every pair stands on a line of its own, however the line ends:
\* documents put one after the other, the first with its LF or CRLF, read as the
\* lines of both, and no document has more lines read from it than it has.
LinesStandAlone ==
    about = "documents" =>
        \A all \in {LinesOf(text)} :
            /\ all # Error => Len(all) <= Len(SelectSeq(text, LAMBDA c : c = LF)) + 1
            /\ \A cut \in {i \in DOMAIN text : text[i] = LF} :
                  \A above \in {LinesOf(SubSeq(text, 1, cut))} \ {Error},
                     below \in {LinesOf(SubSeq(text, cut + 1, Len(text)))} \ {Error} :
                      all = above \o below

=============================================================================
