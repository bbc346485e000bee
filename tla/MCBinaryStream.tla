--------------------------- MODULE MCBinaryStream ---------------------------
(***************************************************************************)
(* BinaryStream for TLC: strings of the lengths that need 0, 3, 2 and 0    *)
(* bytes of padding, and one shape of each kind.                           *)
(***************************************************************************)
EXTENDS BinaryStream

StringOf(n) == [k \in 1 .. n |-> <<"char", k>>]

MCStrings == {StringOf(n) : n \in {0, 1, 2, 4}}

Empty == {<<>>}

Single(t) == [list |-> FALSE, fields |-> <<t>>]
Pair(t, u) == [list |-> FALSE, fields |-> <<t, u>>]
Vector(t) == [list |-> TRUE, fields |-> <<t>>]
Map(t, u) == [list |-> TRUE, fields |-> <<t, u>>]

MCShapes ==
    {Single("int8"), Single("int16"), Single("int64"), Single("string"),
     Pair("int8", "string"), Vector("int32"), Vector("string"),
     Map("int8", "string")}
=============================================================================
