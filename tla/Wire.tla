-------------------------------- MODULE Wire --------------------------------
(***************************************************************************)
(* The way of a request from the syntax tree of the GQL client (Node.hpp)  *)
(* through the two request.hpp into the Command that user_apply gets, and  *)
(* the way of the rows of a READ back to the client's screen.              *)
(*                                                                         *)
(* A query as typed is [op, type, cond, doc]: cond a sequence of           *)
(* properties [name, type, cmp, val], doc a sequence of entities [name,    *)
(* fields], the name <<>> for fields written directly in the document; a   *)
(* field is [name, type, val].  The type of an UPDATE is the one written   *)
(* before its condition; the one before its document is dropped.  Chains   *)
(* of brothers are sequences, as in module Json; no node has its dad set,  *)
(* so the copies that follow dad never do.  Numbers are the bit patterns of int32 and  *)
(* float, of two digits: the byte that a bool occupies and the rest.       *)
(* Members of a C++ object that no constructor sets hold what was in       *)
(* memory before; leftover is that.  The conversions work node by node, so *)
(* one leftover for all nodes of a message is as good as one for each.     *)
(***************************************************************************)
EXTENDS Json

CONSTANTS
    Typed,          \* the queries a user types
    Leftovers,      \* [type, int32, float, bool] found in fresh memory
    BYTE,           \* values of a byte (256)
    MAX_ROWS        \* bound: rows stored

ASSUME WireAssumption == BYTE \in Nat \ {0, 1} /\ MAX_ROWS \in Nat

\* CommandType / OperationType and Status, in the order of both enums.
INSERT == 0
READ   == 1
UPDATE == 2
DELETE == 3
OK     == 0
FAILED == 1

VARIABLES
    phase,      \* who has the request
    typed,      \* the query the user typed
    request,    \* dbms::OperationRequest on its way
    command,    \* the Command on the server
    rows,       \* the JSON trees the data base holds
    answer,     \* the rows user_read returned
    response,   \* dbms::OperationResponse on its way
    screen      \* what the client prints

vars == <<phase, typed, request, command, rows, answer, response, screen>>

-----------------------------------------------------------------------------
(* The client: from the syntax tree to a Network::Json.                    *)

NewJson(type, key, left) ==
    [type |-> type, key |-> key, int32 |-> 0, float |-> left.float,
     str |-> <<>>, bool |-> left.bool, son |-> <<>>]

\* The values of a FieldNode; its constructor sets only the one of its type.
FieldValues(f, left) ==
    [int32 |-> IF f.type = TYPE_INT32  THEN f.val ELSE left.int32,
     float |-> IF f.type = TYPE_FLOAT  THEN f.val ELSE left.float,
     str   |-> IF f.type = TYPE_STRING THEN f.val ELSE <<>>,
     bool  |-> IF f.type = TYPE_BOOL   THEN f.val ELSE left.bool]

FieldJson(f, left) ==
    LET v == FieldValues(f, left)
    IN  [type |-> f.type, key |-> <<f.name>>, int32 |-> v.int32,
         float |-> v.float, str |-> v.str, bool |-> v.bool, son |-> <<>>]

addSon(json, sons) == [json EXCEPT !.son = @ \o sons]

FieldListJson(fields, left) ==
    [i \in DOMAIN fields |-> FieldJson(fields[i], left)]

EntityJson(e, left) ==
    addSon(NewJson(TYPE_OBJECT, e.name, left), FieldListJson(e.fields, left))

IsRoot(e) == e.name = <<>>
Named(e)  == e.name # <<>>

\* Mutant: the named entities are added to the brothers of the root.
EntityListJson_OnlyRoot(doc, left) ==
    LET roots == SelectSeq(doc, IsRoot)
    IN  IF roots = <<>> THEN NewJson(left.type, <<>>, left)
        ELSE EntityJson(Last(roots), left)

\* The last root entity, or a fresh node of any type when there is none,
\* with the named entities added behind its fields.
EntityListJson(doc, left) ==
    LET roots == SelectSeq(doc, IsRoot)
        named == SelectSeq(doc, Named)
        root  == IF roots = <<>> THEN NewJson(left.type, <<>>, left)
                 ELSE EntityJson(Last(roots), left)
    IN  addSon(root, [i \in DOMAIN named |-> EntityJson(named[i], left)])

CondItem(p, left) ==
    LET v == FieldValues(p, left)
    IN  [type |-> p.type, key |-> <<p.name>>, cmp |-> p.cmp,
         int32 |-> v.int32, float |-> v.float, str |-> v.str, bool |-> v.bool]

CondItems(cond, left) == [i \in DOMAIN cond |-> CondItem(cond[i], left)]

-----------------------------------------------------------------------------
(* Messages.  Every scalar is copied; one never set is 0 or empty.         *)

RECURSIVE CopyJson(_)
CopyJson(n) == [type |-> n.type, key |-> n.key, int32 |-> n.int32,
                float |-> n.float, str |-> n.str, bool |-> n.bool,
                son |-> [i \in DOMAIN n.son |-> CopyJson(n.son[i])]]

ClientSendsJson(n) == CopyJson(n)
ServerGetsJson(m)  == CopyJson(m)
ServerSendsJson(n) == CopyJson(n)
ClientGetsJson(m)  == CopyJson(m)

\* The default dbms::Json, which the server makes when none was sent.
DefaultJson == [type |-> TYPE_INT32, key |-> <<>>, int32 |-> 0, float |-> 0,
                str |-> <<>>, bool |-> 0, son |-> <<>>]

\* toRequest of the four query nodes, and its conversion to a message.
ToRequest(q, left) ==
    [operationType |-> q.op, typeName |-> q.type,
     query |-> CondItems(q.cond, left),
     json  |-> IF q.op \in {INSERT, UPDATE}
               THEN ClientSendsJson(EntityListJson(q.doc, left))
               ELSE DefaultJson]

-----------------------------------------------------------------------------
(* The server: between Network::Json and the C structure, whose value is a *)
(* union of int32_t, float and bool.                                       *)

PutBool(u, b) == (u - (u % BYTE)) + b
GetBool(u, left) == IF u % BYTE \in {0, 1} THEN u % BYTE ELSE left.bool

\* int32_val, float_val and bool_val are assigned in this order; the second
\* overwrites the first, and the third the lowest byte of the second.
UnionValue(n) ==
    CASE n.type = TYPE_STRING -> n.str
      [] n.type = TYPE_OBJECT -> 0
      [] OTHER                -> PutBool(n.float, n.bool)

RECURSIVE ToC(_)
ToC(n) == [type |-> n.type, key |-> n.key, val |-> UnionValue(n),
           son |-> [i \in DOMAIN n.son |-> ToC(n.son[i])]]

\* Mutant: the value of a bool is not taken from the union.
UnionMembers_NoBool(j, left) ==
    IF j.type \in {TYPE_STRING, TYPE_OBJECT}
    THEN [int32 |-> 0, float |-> left.float, bool |-> left.bool]
    ELSE [int32 |-> j.val, float |-> j.val, bool |-> left.bool]

\* All three members are read from the union.
UnionMembers(j, left) ==
    IF j.type \in {TYPE_STRING, TYPE_OBJECT}
    THEN [int32 |-> 0, float |-> left.float, bool |-> left.bool]
    ELSE [int32 |-> j.val, float |-> j.val, bool |-> GetBool(j.val, left)]

RECURSIVE FromC(_, _)
FromC(j, left) ==
    LET v == UnionMembers(j, left)
    IN  [type |-> j.type, key |-> j.key,
         int32 |-> v.int32, float |-> v.float, bool |-> v.bool,
         str |-> IF j.type = TYPE_STRING THEN j.val ELSE <<>>,
         son |-> [i \in DOMAIN j.son |-> FromC(j.son[i], left)]]

ToQueryItem(c) ==
    [key |-> c.key, type |-> c.type, cmp |-> c.cmp, val |-> UnionValue(c)]

\* Mutant: only the first condition becomes an item of the query.
ToQuery_First(conds) ==
    [type_name |-> <<>>,
     items |-> IF conds = <<>> THEN <<>> ELSE <<ToQueryItem(conds[1])>>]

\* query_new leaves type_name NULL and nothing sets it.
ToQuery(conds) ==
    [type_name |-> <<>>,
     items |-> FoldLeft(LAMBDA items, c : query_item_add(items, ToQueryItem(c)),
                        <<>>, conds)]

ToCommand(m) ==
    [type |-> m.operationType, type_name |-> m.typeName,
     query |-> ToQuery(m.query), json |-> ToC(ServerGetsJson(m.json))]

-----------------------------------------------------------------------------

None == <<>>

Init == /\ phase = "idle"
        /\ rows = <<>>
        /\ typed = None /\ request = None /\ command = None
        /\ answer = None /\ response = None /\ screen = None

\* yy::Driver::insert up to the call of Apply.
ClientSends(q, left) ==
    /\ phase = "idle" /\ phase' = "sent"
    /\ typed' = q
    /\ request' = ToRequest(q, left)
    /\ screen' = None
    /\ UNCHANGED <<command, rows, answer, response>>

\* DataBaseServiceImpl::Apply: the message becomes a Request, then a Command.
ServerReceives ==
    /\ phase = "sent" /\ phase' = "received"
    /\ command' = ToCommand(request)
    /\ request' = None
    /\ UNCHANGED <<typed, rows, answer, response, screen>>

\* The rows with the indices in S, in their order.
RowsAt(S) == LET ix == SetToSortSeq(S, <) IN [i \in DOMAIN ix |-> rows[ix[i]]]

\* user_apply, of which only the rows that go in and come out matter here:
\* which ones a query selects is the subject of module User.
UserApply(new, status, found) ==
    /\ phase = "received" /\ phase' = "applied"
    /\ rows' = new
    /\ answer' = [status |-> status, rows |-> found]
    /\ UNCHANGED <<typed, request, command, response, screen>>

ApplyInsert ==
    /\ command # None /\ command.type = INSERT
    /\ \/ /\ Len(rows) < MAX_ROWS
          /\ UserApply(Append(rows, command.json), OK, <<>>)
       \/ UserApply(rows, FAILED, <<>>)

ApplyRead ==
    /\ command # None /\ command.type = READ
    /\ \E S \in SUBSET DOMAIN rows : UserApply(rows, OK, RowsAt(S))

ApplyDelete ==
    /\ command # None /\ command.type = DELETE
    /\ \E S \in SUBSET DOMAIN rows, st \in {OK, FAILED} :
          UserApply(RowsAt(DOMAIN rows \ S), st, <<>>)

ApplyUpdate ==
    /\ command # None /\ command.type = UPDATE
    /\ \E S \in SUBSET DOMAIN rows, st \in {OK, FAILED} :
          \E k \in 0..Cardinality(S) :
             UserApply(RowsAt(DOMAIN rows \ S) \o [i \in 1..k |-> command.json],
                       st, <<>>)

\* Driver::execute collects the rows; Response becomes a message.
ServerReplies(left) ==
    /\ phase = "applied" /\ phase' = "replied"
    /\ response' = [status |-> answer.status,
                    collection |-> [i \in DOMAIN answer.rows |->
                        ServerSendsJson(FromC(answer.rows[i], left))]]
    /\ command' = None
    /\ UNCHANGED <<typed, request, rows, answer, screen>>

\* What operator<< prints of a node.
RECURSIVE Printed(_)
Printed(n) ==
    [type |-> n.type, key |-> n.key,
     val |-> CASE n.type = TYPE_INT32  -> n.int32
               [] n.type = TYPE_FLOAT  -> n.float
               [] n.type = TYPE_BOOL   -> n.bool
               [] n.type = TYPE_STRING -> n.str
               [] OTHER                -> 0,
     son |-> [i \in DOMAIN n.son |-> Printed(n.son[i])]]

\* DataBaseClient::Apply after the call.
ClientPrints ==
    /\ phase = "replied" /\ phase' = "printed"
    /\ screen' = [i \in DOMAIN response.collection |->
                    Printed(ClientGetsJson(response.collection[i]))]
    /\ response' = None
    /\ UNCHANGED <<typed, request, command, rows, answer>>

\* The call fails before the server has the request, or when its answer is
\* lost: the client reports it and tries nothing again.
RpcFails ==
    /\ phase \in {"sent", "replied"} /\ phase' = "failed"
    /\ request' = None /\ response' = None
    /\ UNCHANGED <<typed, command, rows, answer, screen>>

\* The parser goes on with the next query.
NextQuery ==
    /\ phase \in {"printed", "failed"} /\ phase' = "idle"
    /\ typed' = None /\ answer' = None /\ screen' = None
    /\ UNCHANGED <<request, command, rows, response>>

Next == \/ \E q \in Typed, left \in Leftovers : ClientSends(q, left)
        \/ ServerReceives
        \/ ApplyInsert \/ ApplyRead \/ ApplyDelete \/ ApplyUpdate
        \/ \E left \in Leftovers : ServerReplies(left)
        \/ ClientPrints
        \/ RpcFails
        \/ NextQuery

Spec == Init /\ [][Next]_vars

-----------------------------------------------------------------------------
(* Properties.                                                             *)

\* The value of a node as its type tells to read it.
ValueOf(j) == IF j.type = TYPE_BOOL THEN j.val % BYTE ELSE j.val

RECURSIVE Meaning(_)
Meaning(j) == [type |-> j.type, key |-> j.key, val |-> ValueOf(j),
               son |-> [i \in DOMAIN j.son |-> Meaning(j.son[i])]]

\* What of a value is not lost in the union: nothing of an int, which the
\* float of the message replaces, and all but the byte of the bool of a float.
Kept(type, val) == CASE type = TYPE_INT32 -> 0
                     [] type = TYPE_FLOAT -> val - (val % BYTE)
                     [] OTHER -> val

RECURSIVE Skeleton(_)
Skeleton(j) == [type |-> j.type, key |-> j.key,
                val |-> Kept(j.type, ValueOf(j)),
                son |-> [i \in DOMAIN j.son |-> Skeleton(j.son[i])]]

\* The tree a document with one root entity stands for.
Leaf(f) == [type |-> f.type, key |-> <<f.name>>, val |-> f.val, son |-> <<>>]
Object(name, sons) == [type |-> TYPE_OBJECT, key |-> name, val |-> 0, son |-> sons]
Leaves(e) == [i \in DOMAIN e.fields |-> Leaf(e.fields[i])]

OneRoot(doc) == Cardinality({i \in DOMAIN doc : IsRoot(doc[i])}) = 1

DocTree(doc) ==
    LET root  == CHOOSE e \in ToSet(doc) : IsRoot(e)
        named == SelectSeq(doc, Named)
    IN  Object(<<>>, Leaves(root) \o
            [i \in DOMAIN named |-> Object(named[i].name, Leaves(named[i]))])

HasDoc == typed.op \in {INSERT, UPDATE} /\ OneRoot(typed.doc)

\* The tree that two request.hpp and the syntax tree pass on node by node
\* reaches user_apply with every key, type, string and bool, in order, and all
\* but the lowest byte of a float, for whatever the uninitialised members of
\* the nodes hold.
RequestArrives ==
    phase = "received" =>
        /\ command.type = typed.op
        /\ command.type_name = typed.type
        /\ HasDoc => Skeleton(command.json) = Skeleton(DocTree(typed.doc))

\* Every condition of the query reaches the data base once, though
\* query_item_add changes their order.
QueryArrives ==
    phase = "received" =>
        /\ Len(command.query.items) = Len(typed.cond)
        /\ {[key |-> c.key, type |-> c.type, cmp |-> c.cmp,
             val |-> Kept(c.type, ValueOf(c))] : c \in ToSet(command.query.items)}
           = {[key |-> <<p.name>>, type |-> p.type, cmp |-> p.cmp,
               val |-> Kept(p.type, p.val)] : p \in ToSet(typed.cond)}

\* The client prints the rows that user_read returned, numbers included: on
\* the way back the members are only read from the union.
RowsPrinted ==
    phase = "printed" =>
        screen = [i \in DOMAIN answer.rows |-> Meaning(answer.rows[i])]

-----------------------------------------------------------------------------
\* The server translates the request into a Command: also a number reaches
\* user_apply with the value that was typed.
NumbersArrive ==
    phase = "received" /\ HasDoc => Meaning(command.json) = DocTree(typed.doc)
=============================================================================
