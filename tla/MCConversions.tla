---------------------------- MODULE MCConversions ----------------------------
(* Small instances of Conversions: identifiers up to 4, ints of 4 bits,     *)
(* bytes of 4 bits, integers of 4 bytes, longs of 2.         *)
EXTENDS Conversions

\* Around each bound: the identifiers, the sign of an int, its wrap.
MCNumbers == {0, 1, 3, 4, 5, 7, 8, 15, 16, 17}

MCTexts ==
    UNION {[1..n -> MCNumbers \cup {Empty, Junk}] : n \in 1..3}
    \cup [1..4 -> {0, 3, Empty, Junk}]

MCStackUris ==
    [flag : SUBSET {"instance", "resource"}, objectId : {0}, instanceId : {2}, resourceId : {3}]

\* Up to three objects with up to two instances, any order.
MCObjectLists ==
    LET instances == {<<>>, <<0>>, <<0, 2>>, <<1, 3>>}
    IN  UNION {{[i \in 1..n |-> [id |-> ids[i], instances |-> its[i]]] :
                   ids \in {f \in [1..n -> Ids] : IsInjective(f)},
                   its \in [1..n -> instances]} : n \in 0..3}

\* Up to four items, with parts that do not parse, in any order.
MCPayloads ==
    LET items == [object : {0, 2, 3, 4, Junk}, instance : {1, 2, 4, Empty, Junk}]
    IN  UNION {[1..n -> items] : n \in 0..2}
        \cup [1..4 -> [object : {2, 3}, instance : {1, 2, Empty}]]

MCTyped == UNION {[1..n -> {0, 1, 9, Minus, Other}] : n \in 0..5}

MCIntegers == (-2100)..2100 \cup {32767, 32766, -32767, 4096, -4096}

MCRecords ==
    [type : {"instance", "resource"},
     id   : {0, 1, 7, 8, 15, 16, 17, 100, 119, 127, 128, 255},
     len  : {0, 1, 6, 7, 8, 15, 16, 17, 119, 127, 128, 255, 256, 257, 1911, 2047, 4095}]
=============================================================================
