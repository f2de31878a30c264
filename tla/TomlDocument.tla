---------------------------- MODULE TomlDocument ----------------------------
(***************************************************************************)
(* What the lines of a TOML document define, as the parser of toml.cpp     *)
(* collects it, and the lines its serializer writes for a dictionary.  The *)
(* parser adds to a tree of table_nodes line by line: a header opens a     *)
(* table of the tree, a pair adds to the open one, and what a line may do  *)
(* depends on how every node on its path came to be.  Characters are the   *)
(* matter of TomlText; here a line is a header or a pair already read.     *)
(*                                                                         *)
(* The tree is a function from paths to nodes.  A step of a path is a key  *)
(* and an index: 0 is the child table of that key, i its i-th element when *)
(* it is an array of tables.                                               *)
(***************************************************************************)
EXTENDS Integers, Sequences, FiniteSets, SequencesExt, TLC

CONSTANTS
    KeyBefore(_, _),    \* the order in which a dictionary goes through its keys
    Statements,  \* the lines that documents are made of
    MaxLines,    \* bound: lines of a document
    Error        \* what an operation that fails returns

VARIABLES
    lines,    \* the lines read so far
    doc       \* the tree they built and the open table, or Error

vars == <<lines, doc>>

Empty == <<>>    \* the root's path, and the function that is nowhere defined

-----------------------------------------------------------------------------
(* Lines and values.                                                       *)

Header(keys) == [type |-> "table", keys |-> keys]
ArrayHeader(keys) == [type |-> "array", keys |-> keys]
Pair(keys, text) == [type |-> "pair", keys |-> keys, text |-> text]

\* The right side of a pair as written, and the value it reads as.
Scalar(s) == [kind |-> "scalar", of |-> s]
ArrayOf(sequence) == [kind |-> "array", of |-> sequence]
Inline(pairs) == [kind |-> "inline", of |-> pairs]
TableOf(function) == [kind |-> "table", of |-> function]

-----------------------------------------------------------------------------
(* The tree.                                                               *)

table_node ==
    [pairs |-> Empty, named |-> FALSE, dotted |-> FALSE, array |-> FALSE, elements |-> 0]

NewTree == Empty :> table_node

Child(path, key) == Append(path, [key |-> key, index |-> 0])
Element(path, index) == [path EXCEPT ![Len(path)].index = index]

\* Tables become dictionaries in the pairs of their parents at the end.
RECURSIVE Merged(_, _)
Merged(tree, path) ==
    LET tables == {Last(p).key : p \in {q \in DOMAIN tree \ {Empty} :
                                            /\ Len(q) = Len(path) + 1
                                            /\ q = Child(path, Last(q).key)}}
        Table(key) ==
            LET child == Child(path, key)
            IN IF tree[child].array
               THEN ArrayOf([i \in 1..tree[child].elements |->
                                Merged(tree, Element(child, i))])
               ELSE Merged(tree, child)
    IN TableOf([key \in tables \cup DOMAIN tree[path].pairs |->
                   IF key \in tables THEN Table(key) ELSE tree[path].pairs[key]])

\* A key may be set once, and not where a table is.
AddKey(tree, table, key, value) ==
    IF Child(table, key) \in DOMAIN tree \/ key \in DOMAIN tree[table].pairs THEN Error
    ELSE [tree EXCEPT ![table].pairs = @ @@ (key :> value)]

\* As a bug would have it: a dotted key passes through any table.
DottedStepAnywhere(at, key) ==
    LET child == Child(at.table, key)
    IN IF key \in DOMAIN at.tree[at.table].pairs THEN Error
       ELSE IF child \notin DOMAIN at.tree
       THEN [tree |-> at.tree @@ (child :> [table_node EXCEPT !.dotted = TRUE]),
             table |-> child]
       ELSE [at EXCEPT !.table = child]

\* A dotted key passes only through tables that dotted keys created.
DottedStep(at, key) ==
    LET child == Child(at.table, key)
    IN IF key \in DOMAIN at.tree[at.table].pairs THEN Error
       ELSE IF child \notin DOMAIN at.tree
       THEN [tree |-> at.tree @@ (child :> [table_node EXCEPT !.dotted = TRUE]),
             table |-> child]
       ELSE IF at.tree[child].dotted THEN [at EXCEPT !.table = child]
       ELSE Error

AddPair(tree, table, keys, value) ==
    LET at == FoldLeft(LAMBDA a, key : IF a = Error THEN Error ELSE DottedStep(a, key),
                       [tree |-> tree, table |-> table], Front(keys))
    IN IF at = Error THEN Error ELSE AddKey(at.tree, at.table, Last(keys), value)

\* As a bug would have it: headers keep going to the first element.
IntoFirstElement(tree, path) == IF tree[path].array THEN Element(path, 1) ELSE path

\* Headers go to the last element of an array of tables.
IntoElement(tree, path) ==
    IF tree[path].array THEN Element(path, tree[path].elements) ELSE path

\* A header passes through any table, creating those that are missing.
HeaderStep(at, key) ==
    LET child == Child(at.table, key)
        tree == IF child \in DOMAIN at.tree THEN at.tree ELSE at.tree @@ (child :> table_node)
    IN IF key \in DOMAIN at.tree[at.table].pairs THEN Error
       ELSE [tree |-> tree, table |-> IntoElement(tree, child)]

\* The last key of a header: an array takes one more element, a table must
\* not be named twice nor be one that dotted keys created.
OpenLast(at, key, array) ==
    LET child == Child(at.table, key)
        tree == IF child \in DOMAIN at.tree THEN at.tree
                ELSE at.tree @@ (child :> [table_node EXCEPT !.array = array])
        node == tree[child]
        element == Element(child, node.elements + 1)
    IN IF \/ key \in DOMAIN at.tree[at.table].pairs
          \/ array /\ ~node.array
          \/ ~array /\ (node.named \/ node.dotted \/ node.array)
       THEN Error
       ELSE IF array
       THEN [tree |-> [tree EXCEPT ![child].elements = @ + 1] @@ (element :> table_node),
             table |-> element]
       ELSE [tree |-> [tree EXCEPT ![child].named = TRUE], table |-> child]

OpenTable(tree, keys, array) ==
    LET at == FoldLeft(LAMBDA a, key : IF a = Error THEN Error ELSE HeaderStep(a, key),
                       [tree |-> tree, table |-> Empty], Front(keys))
    IN IF at = Error THEN Error ELSE OpenLast(at, Last(keys), array)

\* An inline table collects its pairs in a tree of its own.
RECURSIVE Value(_)
Value(text) ==
    CASE text.kind = "scalar" -> text
      [] text.kind = "array" ->
            LET values == [i \in DOMAIN text.of |-> Value(text.of[i])]
            IN IF \E i \in DOMAIN values : values[i] = Error THEN Error ELSE ArrayOf(values)
      [] text.kind = "inline" ->
            LET tree == FoldLeft(LAMBDA t, pair :
                            IF t = Error \/ Value(pair.text) = Error THEN Error
                            ELSE AddPair(t, Empty, pair.keys, Value(pair.text)),
                            NewTree, text.of)
            IN IF tree = Error THEN Error ELSE Merged(tree, Empty)

ReadPair(at, keys, text) ==
    LET value == Value(text)
        tree == IF value = Error THEN Error ELSE AddPair(at.tree, at.table, keys, value)
    IN IF tree = Error THEN Error ELSE [at EXCEPT !.tree = tree]

ReadLine(at, line) ==
    CASE line.type = "pair" -> ReadPair(at, line.keys, line.text)
      [] OTHER -> OpenTable(at.tree, line.keys, line.type = "array")

Start == [tree |-> NewTree, table |-> Empty]

Read(document) ==
    FoldLeft(LAMBDA at, line : IF at = Error THEN Error ELSE ReadLine(at, line),
             Start, document)

Result(at) == IF at = Error THEN Error ELSE Merged(at.tree, Empty)

-----------------------------------------------------------------------------
(* The serializer.                                                         *)

\* As a bug would have it: an array without elements gets no header.
IsArrayOfTablesOrEmpty(value) ==
    value.kind = "array" /\ \A i \in DOMAIN value.of : value.of[i].kind = "table"

IsArrayOfTables(value) ==
    /\ value.kind = "array"
    /\ value.of # <<>>
    /\ \A i \in DOMAIN value.of : value.of[i].kind = "table"

IsWrittenAsTable(value) == value.kind = "table" \/ IsArrayOfTables(value)

KeysOf(table) ==
    LET First(keys) == CHOOSE k \in keys : \A l \in keys \ {k} : KeyBefore(k, l)
    IN FoldLeft(LAMBDA keys, any : Append(keys, First(DOMAIN table \ Range(keys))),
                <<>>, SetToSeq(DOMAIN table))

RECURSIVE WrittenValue(_)
WrittenValue(value) ==
    CASE value.kind = "scalar" -> value
      [] value.kind = "array" ->
            ArrayOf([i \in DOMAIN value.of |-> WrittenValue(value.of[i])])
      [] value.kind = "table" ->
            Inline(FoldLeft(LAMBDA pairs, key :
                                Append(pairs, Pair(<<key>>, WrittenValue(value.of[key]))),
                            <<>>, KeysOf(value.of)))

\* The pairs come first, since they would belong to the table of a header.
RECURSIVE Written(_, _)
Written(table, path) ==
    LET keys == KeysOf(table)
        Below(key) == Append(path, key)
        Pairs(key) ==
            IF IsWrittenAsTable(table[key]) THEN <<>>
            ELSE <<Pair(<<key>>, WrittenValue(table[key]))>>
        Elements(key) ==
            FoldLeft(LAMBDA out, element :
                        out \o <<ArrayHeader(Below(key))>> \o Written(element.of, Below(key)),
                     <<>>, table[key].of)
        Tables(key) ==
            CASE table[key].kind = "table" ->
                    <<Header(Below(key))>> \o Written(table[key].of, Below(key))
              [] IsArrayOfTables(table[key]) -> Elements(key)
              [] OTHER -> <<>>
    IN FoldLeft(LAMBDA out, key : out \o Pairs(key), <<>>, keys)
       \o FoldLeft(LAMBDA out, key : out \o Tables(key), <<>>, keys)

-----------------------------------------------------------------------------
Init ==
    /\ lines = <<>>
    /\ doc = Start

\* The parser stops at the first line it rejects.
ReadHeader ==
    /\ doc # Error /\ Len(lines) < MaxLines
    /\ \E line \in Statements :
          /\ line.type # "pair"
          /\ lines' = Append(lines, line)
          /\ doc' = ReadLine(doc, line)

ReadKeyValue ==
    /\ doc # Error /\ Len(lines) < MaxLines
    /\ \E line \in Statements :
          /\ line.type = "pair"
          /\ lines' = Append(lines, line)
          /\ doc' = ReadLine(doc, line)

Next == ReadHeader \/ ReadKeyValue

Spec == Init /\ [][Next]_vars

-----------------------------------------------------------------------------
(* The rules of TOML v1.0.0, as claims that the lines make on paths: a     *)
(* line sets a value, names a table, adds an element to an array of tables *)
(* or passes through tables on its way, by a header or by a dotted key.    *)
(* A document is valid when no two claims on a path exclude each other.    *)

Claim(path, as) == [path |-> path, as |-> as]

\* A path in the document goes through the array elements present so far.
Current(claims, path) ==
    LET added == Len(SelectSeq(claims, LAMBDA c : c = Claim(path, "array")))
    IN IF added = 0 THEN path ELSE Element(path, added)

PathsAlong(claims, table, keys, length) ==
    FoldLeft(LAMBDA paths, key : Append(paths, Current(claims, Child(Last(paths), key))),
             <<table>>, SubSeq(keys, 1, length))

\* The claims of one line after those of the lines above it, whose open
\* table is the last one that was named.
LineClaims(claims, line) ==
    LET opened == SelectSeq(claims, LAMBDA c : c.as = "named")
        table == IF opened = <<>> THEN Empty ELSE Last(opened).path
        from == IF line.type = "pair" THEN table ELSE Empty
        \* A dotted key takes its path as it is written.
        seen == IF line.type = "pair" THEN <<>> ELSE claims
        along == PathsAlong(seen, from, line.keys, Len(line.keys) - 1)
        target == Child(Last(along), Last(line.keys))
        passed == [i \in 1..(Len(along) - 1) |->
                      Claim(along[i + 1], IF line.type = "pair" THEN "dotted" ELSE "passed")]
        count == Len(SelectSeq(claims, LAMBDA c : c = Claim(target, "array")))
    IN passed \o
       CASE line.type = "pair" -> <<Claim(target, "value")>>
         [] line.type = "table" -> <<Claim(target, "named")>>
         [] line.type = "array" ->
                <<Claim(target, "array"), Claim(Element(target, count + 1), "named")>>

Claims(document) ==
    FoldLeft(LAMBDA claims, line : claims \o LineClaims(claims, line), <<>>, document)

Compatible(first, later) ==
    \/ {first, later} \subseteq {"passed", "named"} /\ <<first, later>> # <<"named", "named">>
    \/ first = "dotted" /\ later \in {"dotted", "passed"}
    \/ first = "array" /\ later = "array"

RECURSIVE IsToml(_), IsTomlValue(_)
IsToml(document) ==
    LET claims == Claims(document)
    IN /\ \A i, j \in DOMAIN claims :
             i < j /\ claims[i].path = claims[j].path
                 => Compatible(claims[i].as, claims[j].as)
       /\ \A i \in DOMAIN document :
             document[i].type = "pair" => IsTomlValue(document[i].text)
IsTomlValue(text) ==
    CASE text.kind = "scalar" -> TRUE
      [] text.kind = "array" -> \A i \in DOMAIN text.of : IsTomlValue(text.of[i])
      [] text.kind = "inline" -> IsToml(text.of)

\* What is found at the end of a path.
Item(path, is) == [path |-> path, is |-> is]

\* Everything a value holds: itself and, below it, what its keys and elements hold.
RECURSIVE Held(_, _)
Held(value, path) ==
    CASE value.kind = "scalar" -> {Item(path, value.of)}
      [] value.kind = "array" ->
            {Item(path, <<"array">>)}
            \cup UNION {Held(value.of[i], Element(path, i)) : i \in DOMAIN value.of}
      [] value.kind = "table" ->
            {Item(path, <<"table">>)}
            \cup UNION {Held(value.of[key], Child(path, key)) : key \in DOMAIN value.of}

\* Everything a document says is held: the n-th value that is claimed is the right
\* side of the n-th pair, and a path that is claimed otherwise ends at a table or at
\* an array of them.
RECURSIVE Said(_, _), SaidValue(_, _)
Said(document, path) ==
    LET claims == Claims(document)
        values == SelectSeq(claims, LAMBDA c : c.as = "value")
        pairs == SelectSeq(document, LAMBDA line : line.type = "pair")
    IN {Item(path, <<"table">>)}
       \cup {Item(path \o c.path, IF c.as = "array" THEN <<"array">> ELSE <<"table">>) :
                 c \in Range(claims) \ Range(values)}
       \cup UNION {SaidValue(pairs[n].text, path \o values[n].path) : n \in DOMAIN pairs}
SaidValue(text, path) ==
    CASE text.kind = "scalar" -> {Item(path, text.of)}
      [] text.kind = "array" ->
            {Item(path, <<"array">>)}
            \cup UNION {SaidValue(text.of[i], Element(path, i)) : i \in DOMAIN text.of}
      [] text.kind = "inline" -> Said(text.of, path)

\* The parser accepts exactly the documents that the rules of TOML accept:
\* no line adds to a table, an array or a value that an earlier line, at any
\* distance and by any way of writing it, has closed to it.
AcceptsExactlyToml == doc # Error <=> IsToml(lines)

\* At the end of each path a document claims the result has what the document
\* says: that value, element for element and key for key of those written in it,
\* or a table or an array, in the element that was the last of its array when the
\* line was read; and it has nothing else.
HoldsWhatIsClaimed == doc # Error => Held(Result(doc), Empty) = Said(lines, Empty)

\* The lines that the serializer writes for a document read as that document.
WritesWhatItReads ==
    doc # Error => Result(Read(Written(Result(doc).of, <<>>))) = Result(doc)

=============================================================================
