---------------------------- MODULE TomlTextMC ----------------------------
EXTENDS TomlText

\* One piece for each kind of line, value and punctuation.
DocumentPieces ==
    {<<"a", "=">>, <<"b", ".", "a", " ", "=", " ">>, <<"[", "a", ".", "b", "]">>,
     <<"[", "[", "b", "]", "]", LF>>, <<LF>>, <<CR, LF>>, <<"1">>, <<"{">>, <<"}">>,
     <<"[">>, <<"]">>, <<",">>, <<"\"", "\"", "=">>, <<"#">>}

NumberPieces ==
    {<<"1">>, <<"0">>, <<"_">>, <<".">>, <<"e">>, <<"-">>, <<"0", "x">>, <<"0", "b">>,
     <<"F">>}

StringPieces ==
    {<<"\"">>, <<"'">>, <<"\\">>, <<LF>>, <<CR>>, <<"b">>, <<" ">>, <<Byte(0)>>,
     <<"\"", "\"", "\"">>}

EscapePieces ==
    {<<"\"">>, <<"\\">>, <<"\\", "u", "0", "0">>, <<"\\", "U", "0", "0">>,
     <<"D", "8">>, <<"0", "0">>, <<"1", "0">>, <<"7", "F">>}

DatetimePieces ==
    {<<"2", "0", "2", "4", "-", "0", "2", "-", "2", "9">>,
     <<"2", "0", "2", "3", "-", "0", "2", "-", "2", "9">>,
     <<"T">>, <<" ">>, <<"0", "1", ":", "0", "2", ":", "0", "3">>, <<".">>, <<"0", "5">>,
     <<"Z">>, <<"+", "0", "1", ":", "0", "0">>, <<"-", "2", "4", ":", "0", "0">>}

BytePieces ==
    {<<Byte(n)>> : n \in {0, 127, 128, 143, 144, 159, 160, 191, 193, 194, 223, 224, 237,
                           239, 240, 244, 245}}

SomePieces ==
    [documents |-> DocumentPieces, numbers |-> NumberPieces, strings |-> StringPieces,
     escapes |-> EscapePieces, datetimes |-> DatetimePieces, bytes |-> BytePieces]

SomeMost ==
    [documents |-> 5, numbers |-> 5, strings |-> 5, escapes |-> 5, datetimes |-> 5,
     bytes |-> 4]
=============================================================================
