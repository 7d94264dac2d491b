------------------------------- MODULE MCWire -------------------------------
(* A small instance of Wire for TLC.                                       *)
EXTENDS Wire

Field(n, t, v)   == [name |-> n, type |-> t, val |-> v]
Prop(n, t, c, v) == [name |-> n, type |-> t, cmp |-> c, val |-> v]

\* A document as in tests/insert.dat: a named entity before the root fields.
DocA == <<[name |-> <<"name">>, fields |-> <<Field("language", TYPE_STRING, <<"Russian">>),
                                            Field("is_new", TYPE_BOOL, 1)>>],
          [name |-> <<>>, fields |-> <<Field("height", TYPE_INT32, 5),
                                      Field("width", TYPE_FLOAT, 7)>>]>>
\* Root fields only, and a named entity only.
DocB == <<[name |-> <<>>, fields |-> <<Field("is_new", TYPE_BOOL, 0)>>]>>
DocC == <<[name |-> <<"name">>, fields |-> <<Field("literals", TYPE_FLOAT, 4)>>]>>

CondA == <<Prop("language", TYPE_STRING, "EQ", <<"Rus">>),
           Prop("height", TYPE_INT32, "LT", 3),
           Prop("is_new", TYPE_BOOL, "EQ", 1)>>
CondB == <<Prop("is_new", TYPE_BOOL, "EQ", 0)>>

Ask(op, c, d) == [op |-> op, type |-> "K", cond |-> c, doc |-> d]

MCTyped == {Ask(INSERT, <<>>, DocA), Ask(INSERT, <<>>, DocB), Ask(INSERT, <<>>, DocC),
            Ask(READ, CondA, <<>>), Ask(READ, CondB, <<>>),
            Ask(UPDATE, CondB, DocA), Ask(DELETE, CondA, <<>>)}

Left(t, i, f, b) == [type |-> t, int32 |-> i, float |-> f, bool |-> b]
MCLeftovers == {Left(TYPE_INT32, 0, 0, 0), Left(TYPE_STRING, 6, 5, 1),
                Left(TYPE_OBJECT, 3, 2, 1)}
=============================================================================
