---------------------------- MODULE MCUserTypes -----------------------------
(* An instance of UserTypes: a type K without attributes, and a type L     *)
(* whose attribute has the name of K.                                      *)
EXTENDS UserTypes

KName == <<21>>
LName == <<22, 23>>

Num(key, n) == [key |-> key, val |-> <<n>>, type |-> TYPE_FLOAT, son |-> <<>>]
Obj(key, son) == [key |-> key, val |-> <<>>, type |-> TYPE_OBJECT, son |-> son]

MCZeroAttr == Link(TYPE_INT32, 0, 0, 0, 0)

\* One field; and an object of that name in its place, which has the field.
Flat   == Obj(<<>>, <<Num(KName, 1)>>)
Nested == Obj(<<>>, <<Obj(KName, <<Num(KName, 1)>>)>>)
\* A field, and an object that has it too.
Pair   == Obj(<<>>, <<Num(KName, 1), Obj(<<9>>, <<Num(KName, 1)>>)>>)
\* One field, whose value reaches down to where the object of Pair lay.
Long   == Obj(<<>>, <<[Num(<<9>>, 1) EXCEPT !.val = <<1, 2, 3, 4, 5, 6, 7, 8, 9>>,
                                            !.type = TYPE_STRING]>>)
MCDocuments == {Flat, Nested, Pair}
MCNewDocuments == {Flat, Long}

MCTypeDefs == {[name |-> KName, attrs |-> <<>>],
               [name |-> LName,
                attrs |-> <<[name |-> KName, type |-> TYPE_FLOAT]>>]}

\* Everything of type K, and every node with that field: also the root and
\* the son of Nested, since the value of an object is 0.
MCQueries == {[type_name |-> <<KName>>, items |-> <<>>],
              [type_name |-> <<>>,
               items |-> <<[key |-> <<KName>>, type |-> TYPE_FLOAT,
                            cmp |-> "LE", val |-> <<1>>]>>]}
=============================================================================
