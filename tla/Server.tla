------------------------------- MODULE Server -------------------------------
(***************************************************************************)
(* A request on its way through the server: Driver::execute adds the type  *)
(* of the request, calls user_apply and drains the iterator of a READ.     *)
(* The loops of user_update, user_delete and execute are taken row by row: *)
(* between two rows the file is in a state that the iterator, made before  *)
(* them, has not seen.  One request at a time; module Threads has several. *)
(*                                                                         *)
(* A request is [cmd, type_name, items, json].  The query made of it never *)
(* gets a type name.                                                       *)
(***************************************************************************)
EXTENDS User

CONSTANTS Requests, NoRequest

VARIABLES
    req,        \* the request being executed
    phase,      \* idle, apply, rows or reply
    it,         \* the iterator of the command
    cnt,        \* the rows that user_update or user_delete has done
    coll,       \* the collection that execute makes
    ok,         \* the status of user_apply
    tick,       \* changes with every step of the handler
    before      \* the documents when the request came
\* tick and before are there for the properties.

svars == <<file, docs, failed, req, phase, it, cnt, coll, ok, tick, before>>
locals == <<req, it, cnt, coll, ok, before>>

NoIter == [cur_sect |-> 0, cur_col |-> <<>>]

QueryOf(r) == [type_name |-> <<>>,
               items |-> FoldLeft(query_item_add, <<>>, r.items)]

-----------------------------------------------------------------------------

ServerInit == /\ Init
              /\ req = NoRequest /\ phase = "idle" /\ before = docs
              /\ it = NoIter /\ cnt = 0 /\ coll = <<>> /\ ok = TRUE
              /\ tick = FALSE

\* A status that the driver or a command reports, and the file it leaves.
Leaves(r) == /\ file' = r.file
             /\ docs' = Stored(r.file)
             /\ failed' = (failed \/ ~r.ok)

\* The bounds are on requests: within one the file grows as it must.
InBounds == Len(file.f_extent) <= MAX_EXT /\ TypeCount(file) < MAX_TYPES

\* Mutant: the type is left to the client to add.
Receive_NoType(r) ==
    /\ phase = "idle"
    /\ InBounds
    /\ UNCHANGED <<file, docs, failed>>
    /\ req' = r /\ phase' = "apply" /\ before' = docs
    /\ it' = NoIter /\ cnt' = 0 /\ coll' = <<>> /\ ok' = TRUE

\* TYPE_INIT and user_add_type, whose status nobody looks at.
Receive(r) ==
    /\ phase = "idle"
    /\ InBounds
    /\ Leaves([file_add_type(file, [name |-> r.type_name, attrs |-> <<>>])
                 EXCEPT !.ok = TRUE])
    /\ req' = r /\ phase' = "apply" /\ before' = docs
    /\ it' = NoIter /\ cnt' = 0 /\ coll' = <<>> /\ ok' = TRUE

\* user_apply: an INSERT is done at once, ...
ApplyInsert ==
    /\ phase = "apply" /\ req.cmd = "INSERT"
    /\ \E w \in {user_write(file, req.json, req.type_name)} :
          Leaves(w) /\ ok' = w.ok
    /\ phase' = "reply"
    /\ UNCHANGED <<req, it, cnt, coll, before>>

\* ... the others make an iterator ...
ApplyQuery ==
    /\ phase = "apply" /\ req.cmd # "INSERT"
    /\ it' = iter_ctor(file, QueryOf(req), FALSE)
    /\ phase' = "rows"
    /\ UNCHANGED <<file, docs, failed, req, cnt, coll, ok, before>>

\* ... and go through its rows.  A row that fails ends the command.
Row1 == Head(it.cur_col)
Pass(r) == /\ Leaves(r)
           /\ IF r.ok THEN /\ it' = iter_next(r.file, it, QueryOf(req), FALSE)
                           /\ cnt' = cnt + 1 /\ UNCHANGED <<phase, ok>>
              ELSE /\ phase' = "reply" /\ ok' = FALSE
                   /\ UNCHANGED <<it, cnt>>
           /\ UNCHANGED <<req, coll, before>>

\* Mutant: the loop does not step on.
DeleteRow_Stays ==
    /\ phase = "rows" /\ req.cmd = "DELETE" /\ iter_is_avail(it)
    /\ Leaves(file_delete(file, Row1.foff, TRUE))
    /\ UNCHANGED <<phase, locals>>

DeleteRow ==
    /\ phase = "rows" /\ req.cmd = "DELETE" /\ iter_is_avail(it)
    /\ Pass(file_delete(file, Row1.foff, TRUE))

\* Mutant: the old row stays.
UpdateRow_NoDelete ==
    /\ phase = "rows" /\ req.cmd = "UPDATE" /\ iter_is_avail(it)
    /\ Pass(file_write(file, <<req.json>>, Row1.attr.dad, Row1.attr.type_ptr))

UpdateRow ==
    /\ phase = "rows" /\ req.cmd = "UPDATE" /\ iter_is_avail(it)
    /\ \E d \in {file_delete(file, Row1.foff, TRUE)} :
          Pass(IF ~d.ok THEN d
               ELSE file_write(d.file, <<req.json>>,
                               Row1.attr.dad, Row1.attr.type_ptr))

\* execute takes the row of a READ into its collection.
ReadRow ==
    /\ phase = "rows" /\ req.cmd = "READ" /\ iter_is_avail(it)
    /\ coll' = Append(coll, Row1)
    /\ it' = iter_next(file, it, QueryOf(req), FALSE)
    /\ UNCHANGED <<file, docs, failed, req, phase, cnt, ok, before>>

RowsEnd ==
    /\ phase = "rows" /\ ~iter_is_avail(it)
    /\ phase' = "reply"
    /\ UNCHANGED <<file, docs, failed, locals>>

Reply ==
    /\ phase = "reply"
    /\ phase' = "idle" /\ req' = NoRequest
    /\ it' = NoIter /\ cnt' = 0 /\ coll' = <<>> /\ ok' = TRUE
    /\ before' = docs
    /\ UNCHANGED <<file, docs, failed>>

Handle == /\ tick' = ~tick
          /\ \/ ApplyInsert \/ ApplyQuery
             \/ DeleteRow \/ UpdateRow \/ ReadRow \/ RowsEnd
             \/ Reply

\* The bounds are reached and no more requests come.
Rest == phase = "idle" /\ ~InBounds /\ UNCHANGED svars

ServerNext == \/ Handle
              \/ \E r \in Requests : Receive(r) /\ UNCHANGED tick
              \/ Rest

\* A handler that has not replied gets to run again and again, because no
\* statement of it waits for anything; no request has to come.  Among the
\* steps of ServerNext, Ticks are those of Handle.  (TLC would compute the
\* whole step to find out whether Handle is enabled; it is, until the reply,
\* or the run would report a deadlock.)
Ticks == phase # "idle" /\ tick' = ~tick
ServerSpec == ServerInit /\ [][ServerNext]_svars /\ WF_tick(Ticks)

-----------------------------------------------------------------------------
(* Properties.                                                             *)

\* The documents, of those there were when the request came, that it selects.
Chosen == {a \in DOMAIN before : Satisfies(before[a], QueryOf(req))}

\* Every request is answered: the loop of user_update ends although the rows
\* that it writes may satisfy its query and lie where its iterator will come.
\* Of a document that is written only the root may satisfy the query; with two
\* such nodes each pass would leave more rows to replace than it found.
RequestsEnd == phase # "idle" ~> phase = "idle"

\* user_delete and user_update go through every selected document once, in
\* whichever section their own changes have left it: the numbers they print
\* are right, unless an UPDATE writes what its query selects.
CountsRight ==
    phase = "reply" /\ ok /\ req.cmd \in {"DELETE", "UPDATE"} =>
        \/ cnt = Cardinality(Chosen)
        \/ req.cmd = "UPDATE"
             /\ Satisfies([json |-> req.json, type |-> <<>>], QueryOf(req))

\* An UPDATE that ends well leaves as many documents of each type as there
\* were, and all it selected are replaced, also when it meets its own rows.
UpdateReplaces ==
    phase = "reply" /\ ok /\ req.cmd = "UPDATE" =>
        /\ \A a \in DOMAIN before \ Chosen :
              a \in DOMAIN docs /\ docs[a] = before[a]
        /\ \A t \in {r.type_name : r \in Requests} :
              Cardinality({a \in DOMAIN docs : docs[a].type = t})
                = Cardinality({a \in DOMAIN before : before[a].type = t})
        /\ \A a \in DOMAIN docs :
              docs[a].json = req.json
                \/ (a \in DOMAIN before \ Chosen /\ docs[a] = before[a])

\* Every request adds a type of its name, and documents point to the type
\* they were inserted with: all documents of one name point to one type, the
\* one that the next INSERT finds, in whichever section the others went.
OneTypePerName ==
    \A a \in DOMAIN docs :
        <<Attr(file, a).type_ptr>>
            = SubSeq(file_find_type(file, docs[a].type), 1, 1)

\* An INSERT fails only for a document with a node that no section can hold.
RECURSIVE NodesOf(_)
NodesOf(j) == {j} \cup UNION {NodesOf(x) : x \in ToSet(j.son)}
InsertsSucceed ==
    phase = "reply" /\ req.cmd = "INSERT" =>
        ok = \A j \in NodesOf(req.json) :
                ITM_SIZE + Len(j.key) + Len(j.val) <= SECTION_SIZE - HEAD_SIZE

\* A request that names a type changes only documents of that type.
KeepsOtherTypes ==
    phase # "idle" => \A a \in DOMAIN before :
        before[a].type # req.type_name => a \in DOMAIN docs /\ docs[a] = before[a]
=============================================================================
