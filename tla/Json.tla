-------------------------------- MODULE Json --------------------------------
(***************************************************************************)
(* JSON trees in memory, queries on them and type conformance, from        *)
(* json/json.c, query/query.c and query/query_item.c.                      *)
(*                                                                         *)
(* The C structure links a node to its first son and to its next brother;  *)
(* here a chain of brothers is a sequence of nodes:                        *)
(*   [key, val, type, son]   son a chain, <<>> for a NULL pointer.         *)
(* val is the node's value bytes; a number is one byte long here.  The     *)
(* next pointer of a node read from the file or received from a client is  *)
(* always NULL: nothing in the program calls json_add_nxt.                 *)
(***************************************************************************)
EXTENDS Integers, Sequences, SequencesExt

TYPE_INT32  == 0
TYPE_FLOAT  == 1
TYPE_STRING == 2
TYPE_BOOL   == 3
TYPE_OBJECT == 4

\* The son chain that begins at the first son named key, <<>> if none is.
json_son_by_key(j, key) ==
    LET named == {i \in DOMAIN j.son : j.son[i].key = key}
    IN  IF named = {} THEN <<>> ELSE SubSeq(j.son, Min(named), Len(j.son))

\* Mutant: the attribute's type is not compared.
json_is_apply_type_AnyType(j, t) ==
    \/ j.type # TYPE_OBJECT
    \/ t.attrs = <<>>
    \/ Len(t.attrs) = 1 /\ j.son # <<>> /\ j.son[1].key = t.attrs[1].name

\* The walk over sons follows next, which is NULL, so at most one son is seen:
\* the result for an object is OK for a type without attributes, and for a
\* type with a single attribute that the first son is.
json_is_apply_type(j, t) ==
    \/ j.type # TYPE_OBJECT
    \/ t.attrs = <<>>
    \/ /\ Len(t.attrs) = 1 /\ j.son # <<>>
       /\ j.son[1].key = t.attrs[1].name
       /\ j.son[1].type = t.attrs[1].type

-----------------------------------------------------------------------------
(* A query is [type_name, items]; type_name is <<>> (NULL) or <<name>>, an *)
(* item is [key, type, cmp, val], key the path of names to the field.      *)

\* query_item_add puts every item but the first right after the first.
query_item_add(items, itm) ==
    IF items = <<>> THEN <<itm>> ELSE <<items[1], itm>> \o Tail(items)

\* The field a path leads to, as a chain; <<>> when the drill-down fails.
DrillDown(j, path) ==
    FoldLeft(LAMBDA cur, name : IF cur = <<>> THEN <<>>
                                ELSE json_son_by_key(cur[1], name),
             <<j>>, path)

\* The number in the value union; it is 0 in a node that has no value bytes.
NumVal(j) == IF j.val = <<>> THEN 0 ELSE j.val[1]

CmpNum(a, op, b) == CASE op = "EQ" -> a = b
                      [] op = "GT" -> a > b
                      [] op = "GE" -> a >= b
                      [] op = "LT" -> a < b
                      [] op = "LE" -> a <= b

IsPrefixOfOther(a, b) == IsPrefix(a, b) \/ IsPrefix(b, a)

\* Strings carry no terminator, so strcmp and strstr read on into whatever
\* lies behind them; reading a value of another type than the item's reads
\* the wrong member of the union.  garbage is what such a read decides.
query_item_check(q, j, garbage) ==
    LET cur == DrillDown(j, q.key)
    IN  /\ cur # <<>>
        /\ CASE q.type = TYPE_STRING /\ q.cmp = "EQ"
                  /\ cur[1].type = TYPE_STRING ->
                     IsPrefixOfOther(cur[1].val, q.val) /\ garbage
             [] q.type = TYPE_STRING -> garbage
             [] q.type \in {TYPE_INT32, TYPE_FLOAT} /\ q.cmp # "IN" ->
                  IF cur[1].type \in {q.type, TYPE_OBJECT}
                  THEN CmpNum(NumVal(cur[1]), q.cmp, q.val[1]) ELSE garbage
             [] q.type = TYPE_BOOL /\ q.cmp = "EQ" ->
                  IF cur[1].type \in {q.type, TYPE_OBJECT}
                  THEN NumVal(cur[1]) = q.val[1] ELSE garbage
             [] OTHER -> FALSE

\* type is the name of the row's type as a chain, <<>> when it was not found.
query_check_type(q, type) == q.type_name = <<>> \/ q.type_name = type

\* Mutant: only the first item of the list is looked at.
query_check_FirstItem(q, j, type, garbage) ==
    /\ q.items # <<>> => query_item_check(q.items[1], j, garbage)
    /\ query_check_type(q, type)

query_check(q, j, type, garbage) ==
    /\ \A i \in DOMAIN q.items : query_item_check(q.items[i], j, garbage)
    /\ query_check_type(q, type)
=============================================================================
