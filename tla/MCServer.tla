------------------------------ MODULE MCServer ------------------------------
(* Small instances of Server for TLC.                                      *)
EXTENDS Server

\* Field names.
a == <<11>>
b == <<12>>

Num(key, n) == [key |-> key, val |-> <<n>>, type |-> TYPE_INT32, son |-> <<>>]
Str(key, s) == [key |-> key, val |-> s, type |-> TYPE_STRING, son |-> <<>>]
Obj(key, son) == [key |-> key, val |-> <<>>, type |-> TYPE_OBJECT, son |-> son]
Item(path, cmp, n) == [key |-> path, type |-> TYPE_INT32, cmp |-> cmp,
                       val |-> <<n>>]

MCZeroAttr == Link(TYPE_INT32, 0, 0, 0, 0)

Small  == Obj(<<>>, <<Num(a, 1)>>)
Large  == Obj(<<>>, <<Num(a, 2), Num(b, 1)>>)
TooBig == Obj(<<>>, <<Str(b, <<1, 2, 3, 4, 5, 6, 7, 8, 9, 10, 11, 12>>)>>)

K == <<21>>
L == <<22, 23, 24>>

\* Conditions that no nested node satisfies: on a > 0 both documents, on a < 2
\* the small one.
Positive == <<Item(<<a>>, "GT", 0)>>
Below2   == <<Item(<<a>>, "LT", 2)>>

Request(cmd, name, items, json) ==
    [cmd |-> cmd, type_name |-> name, items |-> items, json |-> json]

MCRequests == {Request("INSERT", K, <<>>, Small),
               Request("INSERT", L, <<>>, Large),
               Request("INSERT", K, <<>>, TooBig),
               Request("READ", K, Positive, Small),
               Request("DELETE", L, Below2, Small),
               Request("UPDATE", K, Below2, Large),
               Request("UPDATE", L, Positive, Large)}
MCTypes == {}
=============================================================================
