-------------------------------- MODULE User --------------------------------
(***************************************************************************)
(* The data base behind its API (user/user.c, json/iter.c): one client     *)
(* whose commands run one after the other.  An iterator holds the matching *)
(* rows of one section at a time and looks for more when they run out, so  *)
(* a delete or update changes the file its own iterator is reading.        *)
(***************************************************************************)
EXTENDS File

CONSTANTS Documents,    \* JSON roots that are inserted
          TypeDefs,     \* types that are added
          Queries,
          MAX_EXT,      \* bound: sections of entities
          MAX_TYPES     \* bound: types added

ASSUME UserAssumption ==
    /\ ZeroAttr = Link(TYPE_INT32, 0, 0, 0, 0)
    /\ FILE_HEAD_SIZE > 0

VARIABLES file,
          docs,     \* what the file holds, as read back: Stored(file)
          failed    \* has a command failed half way
\* docs and failed are there for the properties; no command looks at them.

vars == <<file, docs, failed>>

-----------------------------------------------------------------------------
(* The iterator: cur_sect is the index of its section, 0 for NULL.         *)

\* The rows of the first section from i on that has any; last if none has.
RECURSIVE Advance(_, _, _, _, _)
Advance(f, i, last, query, garbage) ==
    LET Take(col) == IF col = <<>> THEN Advance(f, i + 1, last, query, garbage)
                     ELSE [cur_sect |-> i, cur_col |-> col]
    IN  IF i > Len(f.f_extent) THEN [cur_sect |-> last, cur_col |-> <<>>]
        ELSE Take(file_find(f, i, query, garbage))

iter_ctor(f, query, garbage) == Advance(f, 1, 0, query, garbage)

iter_is_avail(it) == it.cur_col # <<>>

\* Mutant: the iterator steps over a section.
iter_next_Skips(f, it, query, garbage) ==
    IF Len(it.cur_col) > 1 THEN [it EXCEPT !.cur_col = Tail(@)]
    ELSE Advance(f, it.cur_sect + 2, Len(f.f_extent), query, garbage)

iter_next(f, it, query, garbage) ==
    IF Len(it.cur_col) > 1 THEN [it EXCEPT !.cur_col = Tail(@)]
    ELSE Advance(f, it.cur_sect + 1, Len(f.f_extent), query, garbage)

\* What the caller gets to see by draining the iterator of a READ.
RECURSIVE Drain(_, _, _, _)
Drain(f, it, query, garbage) ==
    IF ~iter_is_avail(it) THEN <<>>
    ELSE <<Head(it.cur_col)>>
           \o Drain(f, iter_next(f, it, query, garbage), query, garbage)

user_read(f, query, garbage) ==
    Drain(f, iter_ctor(f, query, garbage), query, garbage)

-----------------------------------------------------------------------------
(* The commands, returning [file, ok].                                     *)

user_write(f, json, type_name) ==
    LET Status(w) == [file |-> w.file, ok |-> w.ok]
        Apply(foff, t) == IF ~json_is_apply_type(json, t)
                          THEN [file |-> f, ok |-> FALSE]
                          ELSE Status(file_write(f, <<json>>, 0, foff))
        Find(found) == IF found = <<>> THEN [file |-> f, ok |-> FALSE]
                       ELSE Apply(Head(found), file_read_type(f, Head(found))[1])
    IN  Find(file_find_type(f, type_name))

RECURSIVE DeleteRows(_, _, _, _)
DeleteRows(f, it, query, garbage) ==
    LET Rest(d) == IF ~d.ok THEN d
                   ELSE DeleteRows(d.file,
                                   iter_next(d.file, it, query, garbage),
                                   query, garbage)
    IN  IF ~iter_is_avail(it) THEN [file |-> f, ok |-> TRUE]
        ELSE Rest(file_delete(f, Head(it.cur_col).foff, TRUE))

user_delete(f, query, garbage) ==
    DeleteRows(f, iter_ctor(f, query, garbage), query, garbage)

\* Each row is deleted and json written in its place, under the same dad.
RECURSIVE UpdateRows(_, _, _, _, _)
UpdateRows(f, it, query, json, garbage) ==
    LET Rest(w) == IF ~w.ok THEN [file |-> w.file, ok |-> FALSE]
                   ELSE UpdateRows(w.file,
                                   iter_next(w.file, it, query, garbage),
                                   query, json, garbage)
        Write(d, attr) == IF ~d.ok THEN d
                          ELSE Rest(file_write(d.file, <<json>>,
                                               attr.dad, attr.type_ptr))
    IN  IF ~iter_is_avail(it) THEN [file |-> f, ok |-> TRUE]
        ELSE Write(file_delete(f, Head(it.cur_col).foff, TRUE),
                   Head(it.cur_col).attr)

user_update(f, query, json, garbage) ==
    UpdateRows(f, iter_ctor(f, query, garbage), query, json, garbage)

-----------------------------------------------------------------------------

(* What the file holds.                                                    *)

\* The live entities by file offset.
Live(f) == UNION {{w.off + o : o \in DOMAIN w.s.itm} : w \in ToSet(f.f_extent)}
Attr(f, foff) == LET w == f.f_extent[Min(SectOf(f.f_extent, foff))]
                 IN  w.s.itm[foff - w.off].attr
Roots(f) == {a \in Live(f) : Attr(f, a).dad = 0}

\* The name of the type of a document, <<>> when its type_ptr leads nowhere.
TypeName(f, foff) == LET t == file_read_type(f, Attr(f, foff).type_ptr)
                     IN  IF t = <<>> THEN <<>> ELSE t[1].name

\* The documents by address, each as file_read returns it.
Stored(f) == [a \in Roots(f) |-> [json |-> file_read(f, a)[1],
                                  type |-> TypeName(f, a)]]

-----------------------------------------------------------------------------

Init == file = file_ctor /\ docs = Stored(file_ctor) /\ failed = FALSE

\* Types in the file; a bound for AddType, not something the code keeps.
TypeCount(f) ==
    FoldLeft(LAMBDA n, w : n + Len(T!sect_types_load(w.s)), 0, f.f_types)

\* A command that returns r, within the bound on sections.  Nothing is known
\* of a file to which harm was done, and no command is taken on it.
Command(r) == /\ file.harm = {}
              /\ Len(r.file.f_extent) <= MAX_EXT
              /\ file' = r.file
              /\ docs' = Stored(r.file)
              /\ failed' = (failed \/ (~r.ok /\ r.file # file))

AddType(t) == TypeCount(file) < MAX_TYPES /\ Command(file_add_type(file, t))
Insert(json, type_name) == Command(user_write(file, json, type_name))
Delete(query, garbage)  == Command(user_delete(file, query, garbage))
Update(query, json, garbage) ==
    Command(user_update(file, query, json, garbage))

\* Draining the iterator of a READ only syncs headers, which are in sync.
Read(query, garbage) == /\ Len(user_read(file, query, garbage)) >= 0
                        /\ UNCHANGED vars

\* Only an item on strings reads bytes that nobody wrote.
GarbageOf(q) == IF \E k \in DOMAIN q.items : q.items[k].type = TYPE_STRING
                THEN BOOLEAN ELSE {FALSE}

TypeNames == {t.name : t \in TypeDefs}

Next == \/ \E t \in TypeDefs : AddType(t)
        \/ \E d \in Documents, n \in TypeNames : Insert(d, n)
        \/ \E q \in Queries : \E g \in GarbageOf(q) :
              \/ Delete(q, g)
              \/ Read(q, g)
              \/ \E d \in Documents : Update(q, d, g)

Spec == Init /\ [][Next]_vars

-----------------------------------------------------------------------------
(* Properties.                                                             *)

\* Type invariant: section lists, headers and slots have the expected shape.
TypeOK ==
    /\ file.lst_sect_ptr \in Nat /\ failed \in BOOLEAN
    /\ \A w \in ToSet(file.f_extent) :
          /\ w.off \in Nat
          /\ DOMAIN w.s.itm \subseteq Slots
          /\ w.s.rec \in [Addr -> Byte]

\* The recursive deletes and rewrites of file.c, which hold addresses over
\* calls that move borders, keep every section of entities well formed, never
\* take bytes of a record for an entity, and the two section lists, fed from
\* one counter, never share a byte.
SectionsSound ==
    LET all == file.f_extent \o file.f_types
    IN  /\ file.harm = {}
        /\ \A w \in ToSet(file.f_extent) : /\ HeadOK(w.s) /\ FrontiersOK(w.s)
                                           /\ RecordsOrdered(w.s) /\ Tight(w.s)
        /\ \A i, j \in DOMAIN all : i # j =>
              \/ all[i].off + SECTION_SIZE <= all[j].off
              \/ all[j].off + SECTION_SIZE <= all[i].off
        /\ \A i \in DOMAIN all : all[i].off + SECTION_SIZE <= file.disk

\* A son link leads to a live entity that has this one as its dad, a brother
\* link to a live one with the same dad.
SonOK(a) == LET son == Attr(file, a).son
            IN  son # 0 => son \in Live(file) /\ Attr(file, son).dad = a
BroOK(a) == LET bro == Attr(file, a).bro
            IN  bro # 0 => /\ bro \in Live(file)
                           /\ Attr(file, bro).dad = Attr(file, a).dad

\* No link of a stored tree dangles or leads into another tree, and every
\* entity with a dad is found from it, unless a command failed half way.
LinksResolve ==
    /\ \A a \in Live(file) : SonOK(a) /\ BroOK(a)
    /\ failed \/ Live(file) \ Roots(file)
                   \subseteq UNION {{Attr(file, a).son, Attr(file, a).bro} :
                                       a \in Live(file)}

\* Reference semantics of a query on a document: some field at the path
\* compares as the item asks, for every item, and the type has the name.
RECURSIVE FieldsAt(_, _)
FieldsAt(j, path) ==
    IF path = <<>> THEN {j}
    ELSE UNION {FieldsAt(s, Tail(path)) :
                  s \in {x \in ToSet(j.son) : x.key = Head(path)}}
Holds(itm, v) == \/ itm.cmp \in {"EQ", "GE", "LE"} /\ v = itm.val[1]
                 \/ itm.cmp \in {"GT", "GE"} /\ v > itm.val[1]
                 \/ itm.cmp \in {"LT", "LE"} /\ v < itm.val[1]
Satisfies(doc, q) ==
    /\ \A itm \in ToSet(q.items) : \E x \in FieldsAt(doc.json, itm.key) :
          x.type = itm.type /\ Holds(itm, x.val[1])
    /\ q.type_name # <<>> => doc.type = q.type_name[1]

Base == INSTANCE DocBase WITH Matches <- Satisfies

\* The stored trees implement a collection of documents: a command inserts,
\* deletes or replaces exactly the documents it selects, in whichever sections
\* and slots their nodes lie, and leaves every other document as it was.
ImplementsDocBase == Base!Spec

\* READ hands out every matching document once, and nothing else.
ReadExact ==
    \A q \in Queries :
        LET rows == user_read(file, q, FALSE)
        IN  /\ {rows[k].foff : k \in DOMAIN rows}
                 = {a \in DOMAIN docs : Satisfies(docs[a], q)}
            /\ \A k \in DOMAIN rows : rows[k].json[1] = docs[rows[k].foff].json
            /\ Len(rows) = Cardinality({rows[k].foff : k \in DOMAIN rows})

\* When the last document is gone every section is empty again.
SpaceReclaimed ==
    Live(file) = {} => \A w \in ToSet(file.f_extent) :
                          /\ w.s.head.free_space = SECTION_SIZE - HEAD_SIZE
                          /\ \A a \in Addr : w.s.rec[a] = 0

-----------------------------------------------------------------------------
(* What comments in the code say and the code does not do.                 *)

\* json.h: bro is the "next json with same parent".
BroHasSameParent == \A a \in Live(file) : BroOK(a)

\* The client's tests ask for language eq "Russian": an EQ on strings finds
\* every document with that string, whatever lies behind the strings.
EqualStringsFound ==
    \A q \in Queries : \A g \in GarbageOf(q) : \A x \in DOMAIN docs :
        /\ q.type_name = <<>>
        /\ \A itm \in ToSet(q.items) :
              /\ itm.type = TYPE_STRING /\ itm.cmp = "EQ"
              /\ \E y \in FieldsAt(docs[x].json, itm.key) :
                    y.type = TYPE_STRING /\ y.val = itm.val
        => x \in {r.foff : r \in ToSet(user_read(file, q, g))}

\* json.c on json_is_apply_type: "Type fields are required".  A stored document
\* has them, if its type_ptr leads to a type.
TypeFieldsRequired ==
    \A x \in DOMAIN docs :
        LET t == file_read_type(file, Attr(file, x).type_ptr)
        IN  t # <<>> /\ ~failed => json_is_apply_type(docs[x].json, t[1])

\* json_is_apply_type refuses an object where "something did not get into" it:
\* an object that has every field of its type is accepted.
CompleteObjectsApply ==
    \A d \in Documents, n \in TypeNames :
        LET found == file_find_type(file, n)
            t == file_read_type(file, Head(found))[1]
        IN  \/ found = <<>>
            \/ \E k \in DOMAIN t.attrs : \A x \in ToSet(d.son) :
                  x.key # t.attrs[k].name \/ x.type # t.attrs[k].type
            \/ json_is_apply_type(d, t)
=============================================================================
