------------------------------- MODULE MCUser -------------------------------
(* Small instances of User for TLC.                                        *)
EXTENDS User

\* Field names.
a == <<11>>
b == <<12>>
c == <<13>>
o == <<14>>

Num(key, n) == [key |-> key, val |-> <<n>>, type |-> TYPE_INT32, son |-> <<>>]
Str(key, s) == [key |-> key, val |-> s, type |-> TYPE_STRING, son |-> <<>>]
Obj(key, son) == [key |-> key, val |-> <<>>, type |-> TYPE_OBJECT, son |-> son]

Item(path, cmp, n) == [key |-> path, type |-> TYPE_INT32, cmp |-> cmp,
                       val |-> <<n>>]
Query(items) == [type_name |-> <<>>,
                 items |-> FoldLeft(query_item_add, <<>>, items)]

MCZeroAttr == Link(TYPE_INT32, 0, 0, 0, 0)

Flat    == Obj(<<>>, <<Num(a, 1)>>)
TwoSons == Obj(<<>>, <<Num(b, 3), Num(a, 2)>>)
Nested  == Obj(<<>>, <<Num(b, 4), Obj(o, <<Num(c, 1)>>)>>)
TooBig  == Obj(<<>>, <<Num(a, 1), Str(b, <<1, 2, 3, 4, 5, 6, 7, 8, 9, 10, 11, 12>>)>>)

Untyped == [name |-> <<21>>, attrs |-> <<>>]
WithA   == [name |-> <<22>>, attrs |-> <<[name |-> a, type |-> TYPE_INT32]>>]

MCDocuments == {Flat, TwoSons, Nested, TooBig}
MCTypeDefs == {Untyped, WithA}

\* Queries that no nested node satisfies.
MCQueries == {Query(<<Item(<<a>>, "LT", 2)>>),
              Query(<<Item(<<b>>, "GE", 3), Item(<<a>>, "GT", 1)>>),
              Query(<<Item(<<o, c>>, "EQ", 1)>>),
              [type_name |-> <<WithA.name>>, items |-> <<>>]}

\* A query that the second son of Nested satisfies.
MCNestedQueries == {Query(<<Item(<<c>>, "EQ", 1)>>)}
MCCommentQueries == MCNestedQueries \cup {Query(<<Item(<<a>>, "LT", 2)>>)}

\* Queries on a string, and on a field that roots and nested nodes have.
Named == Obj(<<>>, <<Num(c, 1), Str(a, <<5, 6>>)>>)
MCAnyDocuments == {Flat, Nested, Named}
MCStringQueries == {Query(<<[key |-> <<a>>, type |-> TYPE_STRING, cmp |-> "EQ",
                             val |-> <<5, 6>>]>>)}
MCAnyQueries == MCNestedQueries \cup MCStringQueries
=============================================================================
