---------------------------- MODULE MCFileUpdate ----------------------------
(* Small instances of FileUpdate for TLC.                                  *)
EXTENDS FileUpdate

Num(key, n) == [key |-> key, val |-> <<n>>, type |-> TYPE_INT32, son |-> <<>>]
Str(key, s) == [key |-> key, val |-> s, type |-> TYPE_STRING, son |-> <<>>]
Obj(son) == [key |-> <<>>, val |-> <<>>, type |-> TYPE_OBJECT, son |-> son]

a == <<11>>
b == <<12>>
c == <<13>>

MCZeroAttr == Link(TYPE_INT32, 0, 0, 0, 0)

Obj1 == Obj(<<Num(a, 1)>>)
Obj3 == Obj(<<Str(a, <<4, 5, 6, 4, 5, 6>>), Num(b, 3), Num(c, 2)>>)
In(key, son) == [Obj(son) EXCEPT !.key = key]

\* One, three and four fields whose values grow or shrink, and an object that
\* stays while its field changes.  A section has room for the value of Obj3
\* but not for its item as well, and for two more fields besides.
MCDocuments == {Obj1, Obj3,
                Obj(<<Num(a, 7), Num(b, 8), Num(c, 9), Num(a, 6)>>),
                Obj(<<In(b, <<Num(c, 2)>>)>>),
                Obj(<<In(b, <<Str(a, <<4, 5>>)>>), Num(b, 3)>>)}

\* Enough for an update that writes over another tree.
MCFewDocuments == {Obj1, Obj3, Obj(<<Num(a, 1), Num(b, 2)>>)}
=============================================================================
