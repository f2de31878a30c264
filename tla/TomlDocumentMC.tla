--------------------------- MODULE TomlDocumentMC ---------------------------
EXTENDS TomlDocument

TwoKeys == {"a", "b"}
Alphabetic(k, l) == k = "a" /\ l = "b"

KeyPaths == {<<k>> : k \in TwoKeys} \cup (TwoKeys \X TwoKeys)

One == Scalar(<<"1">>)

\* An empty array, one of tables, a mixed one, and inline tables with dotted
\* keys, valid and not.
SomeValues ==
    {ArrayOf(<<>>), ArrayOf(<<Inline(<<>>), Inline(<<Pair(<<"a">>, One)>>)>>),
     ArrayOf(<<One, Inline(<<Pair(<<"b", "a">>, One)>>)>>),
     Inline(<<Pair(<<"a", "b">>, One), Pair(<<"a", "a">>, Inline(<<>>))>>),
     Inline(<<Pair(<<"a", "b">>, One), Pair(<<"a">>, One)>>)}

SomeStatements ==
    {Header(keys) : keys \in KeyPaths} \cup {ArrayHeader(keys) : keys \in KeyPaths}
    \cup {Pair(keys, Scalar(keys)) : keys \in KeyPaths} \cup {Pair(<<"b">>, One)}
    \cup {Pair(<<"a">>, text) : text \in SomeValues}
=============================================================================
