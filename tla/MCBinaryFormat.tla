--------------------------- MODULE MCBinaryFormat ---------------------------
(* Model-checking instance of BinaryFormat: small family values of every   *)
(* kind, grouped by the question each run asks.                            *)
EXTENDS BinaryFormat

\* The pack ids in the order format/binary.h declares them (the header is
\* not in the repository; any assignment of distinct bytes shows the same).
MCIds ==
    [empty |-> 0, bool_true |-> 1, bool_false |-> 2, integer |-> 3,
     string |-> 4, uint |-> 5, bytes |-> 6, bitfield |-> 7, vector |-> 8,
     composite |-> 9, compact_composite |-> 10]

\* Two of the table's strings, as bytes: "load" and "width".
MCTable == << <<108, 111, 97, 100>>, <<119, 105, 100, 116, 104>> >>

Scalars ==
    {Empty, IntV(-1), IntV(0), IntV(300), UintV(0), UintV(70000),
     Str(<<>>), Str(<<97>>), Bin(<<>>), Bin(<<255, 0>>)}

Booleans == {Bool(FALSE), Bool(TRUE)}

\* Scalars and vectors (nested once) of non-boolean values.
PlainValues ==
    Scalars
    \cup {Vec(<<a>>) : a \in Scalars}
    \cup {Vec(<<a, b>>) : a, b \in Scalars}
    \cup {Vec(<<Vec(<<a>>)>>) : a \in Scalars}

\*\* Non-empty vectors of booleans.
BoolVectors == {Vec(e) : e \in UNION {[1..n -> Booleans] : n \in 1..3}}

\* Composites keyed by strings, table strings among them.
StringKeyed ==
    {Comp(k :> v) : k \in {Str(<<97>>), Str(MCTable[1])}, v \in Scalars}

\* Composites keyed by uints.
UintKeyed == {Comp(k :> v) : k \in {UintV(0), UintV(1)}, v \in Scalars \cup Booleans}
\* The families the writer and reader disagree on: booleans, boolean
\* vectors, composites keyed by strings or by uints, the empty containers.
Mismatched == Booleans \cup BoolVectors \cup StringKeyed \cup UintKeyed \cup {Vec(<<>>), Comp(<<>>)}
=============================================================================
