------------------------------- MODULE MCTxStore -------------------------------
(* Transactions of one operation, or of an assertion and another operation, *)
(* over two attributes: a1 is a cardinality-one identity, a2 is             *)
(* multi-valued and unique by value.                                        *)
EXTENDS TxStore

CONSTANTS a1, a2, v1, v2

MCAttrs == {a1, a2}
MCValues == {v1, v2}
MCMulti == {a2}
MCUnique == {a1, a2}
MCIdentity == {a1}

Refs == {IdRef(1), IdRef(2), TempRef, LookupRef(a1, v1)}

Assertions == [op : {"add"}, e : Refs, a : MCAttrs, v : MCValues]

Ops ==
    Assertions
    \cup [op : {"ret"}, e : Refs, a : MCAttrs, v : MCValues]
    \cup [op : {"retractEntity"}, e : Refs]

MCTxInputs == {{x} : x \in Ops} \cup {{x, y} : x \in Assertions, y \in Ops}
================================================================================
