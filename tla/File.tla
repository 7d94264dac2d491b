-------------------------------- MODULE File --------------------------------
(***************************************************************************)
(* The data file (file/file.c, file/header.c) as operators on file values: *)
(*   lst_sect_ptr  where the next section will begin, in memory;           *)
(*   disk          the file header on disk;                                *)
(*   f_extent      the sections of entities, in list order;                *)
(*   f_types       the sections of types, in list order.                   *)
(* A section is [off, s]: its file offset and a section value.  A JSON     *)
(* node is one entity; attr holds its type, the family links (fam_addr)    *)
(* and type_ptr, all file offsets, 0 for none.                             *)
(*                                                                         *)
(* harm is there for the properties, no operation looks at it: what went   *)
(* wrong with the file so far that the code does not notice.               *)
(***************************************************************************)
EXTENDS Extents, Json

CONSTANTS FILE_HEAD_SIZE,   \* sizeof(File_head_entity) (8)
          TYPE_ITM_SIZE     \* sizeof(Type_entity) = sizeof(Attr_entity) (24)

T == INSTANCE Types WITH ITM_SIZE <- TYPE_ITM_SIZE

Link(type, dad, bro, son, type_ptr) ==
    [type |-> type, dad |-> dad, bro |-> bro, son |-> son,
     type_ptr |-> type_ptr]

file_head_sync(f) == [f EXCEPT !.disk = f.lst_sect_ptr]

file_head_shift_lsp(f, shift) ==
    file_head_sync([f EXCEPT !.lst_sect_ptr = @ + shift])

file_ctor == [lst_sect_ptr |-> FILE_HEAD_SIZE, disk |-> FILE_HEAD_SIZE,
              f_extent |-> <<>>, f_types |-> <<>>, harm |-> {}]

file_add_sect_ext(f) ==
    file_head_shift_lsp(
        [f EXCEPT !.f_extent = Append(@, [off |-> f.lst_sect_ptr,
                                          s |-> sect_head_ctor])],
        SECTION_SIZE)

\* Mutant: the counter of section space is not moved.
file_add_sect_types_NoShift(f) ==
    file_head_sync([f EXCEPT !.f_types = Append(@, [off |-> f.lst_sect_ptr,
                                                    s |-> T!sect_head_ctor])])

file_add_sect_types(f) ==
    file_head_shift_lsp(
        [f EXCEPT !.f_types = Append(@, [off |-> f.lst_sect_ptr,
                                         s |-> T!sect_head_ctor])],
        SECTION_SIZE)

\* Adds what to the harm done to the file.
Harm(f, what) == [f EXCEPT !.harm = @ \cup {what}]

\* get_sect_ext and get_sect_types: the sections an offset lies in, as
\* indices in list order; the code returns the first, or NULL.
SectOf(sects, foff) ==
    {i \in DOMAIN sects : /\ sects[i].off <= foff
                          /\ foff < sects[i].off + SECTION_SIZE}

\* The search for room: the first of the sections fits, or one past the end.
FirstFit(sects, fits) == Min(fits \cup {Len(sects) + 1})

-----------------------------------------------------------------------------
(* Types.                                                                  *)

\* The first section of types with room for t is used, or a new one added.
RoomForType(f, i) ==
    [i |-> i, file |-> IF i > Len(f.f_types) THEN file_add_sect_types(f) ELSE f]

\* Writes t into section r.i.  A new section stays when t does not fit.
StoreType(r, w, t) ==
    IF ~T!CanWriteType(w.s, t) THEN [file |-> r.file, ok |-> FALSE, off |-> 0]
    ELSE [file |-> file_head_sync([r.file EXCEPT !.f_types[r.i].s =
                                     T!sect_types_write(@, t)]),
          ok |-> TRUE, off |-> w.off + w.s.head.lst_itm_ptr]

\* Returns [file, ok, off].
file_add_type(f, t) ==
    LET fits == {i \in DOMAIN f.f_types : T!CanWriteType(f.f_types[i].s, t)}
        Store(r) == StoreType(r, r.file.f_types[r.i], t)
    IN  Store(RoomForType(f, FirstFit(f.f_types, fits)))

\* The file offset of the first type called name in each section that has one;
\* file_find_type returns the first of them.
file_find_type(f, name) ==
    LET At(off, soffs) == [k \in DOMAIN soffs |-> off + soffs[k]]
    IN  FlattenSeq([i \in DOMAIN f.f_types |->
            At(f.f_types[i].off, T!sect_types_find(f.f_types[i].s, name))])

\* <<type>>, or <<>> for FAILED.
file_read_type(f, foff) ==
    LET In(w) == T!sect_types_read(w.s, foff - w.off)
    IN  IF SectOf(f.f_types, foff) = {} THEN <<>>
        ELSE <<In(f.f_types[Min(SectOf(f.f_types, foff))])>>

\* Deletes the first type called name.  Returns [file, ok].
file_delete_type(f, name) ==
    LET In(i, foff) == file_head_sync([f EXCEPT !.f_types[i].s =
                           T!sect_types_delete(@, foff - f.f_types[i].off)])
        At(foff) == In(Min(SectOf(f.f_types, foff)), foff)
        Del(found) == IF found = <<>> THEN [file |-> f, ok |-> FALSE]
                      ELSE [file |-> At(Head(found)), ok |-> TRUE]
    IN  Del(file_find_type(f, name))

-----------------------------------------------------------------------------
(* Storing a JSON tree.                                                    *)

\* Rewrites an entity in place; a slot of zero bytes stays one.
PutItm(f, i, soff, e) ==
    IF e = ZeroEntity THEN [f EXCEPT !.f_extent[i].s = ClearItm(@, soff)]
    ELSE [f EXCEPT !.f_extent[i].s = sect_ext_wrt_itm(@, soff, e)]

\* The first section with room for a node is used, or a new one is added.
Room(f, i) ==
    [i |-> i, file |-> IF i > Len(f.f_extent) THEN file_add_sect_ext(f) ELSE f]

\* Writes a node into section r.i; a new section stays when it does not fit.
StoreNode(r, w, node, attr) ==
    IF ~CanWrite(w.s, node) THEN [file |-> r.file, ok |-> FALSE]
    ELSE [file |-> [r.file EXCEPT !.f_extent[r.i].s =
                      sect_ext_write(@, node, EntityInit(node, attr))],
          ok |-> TRUE, i |-> r.i, soff |-> w.s.head.lst_itm_ptr,
          off |-> w.off + w.s.head.lst_itm_ptr]

WriteNode(f, node, attr) ==
    LET fits == {i \in DOMAIN f.f_extent : CanWrite(f.f_extent[i].s, node)}
        Store(r) == StoreNode(r, r.file.f_extent[r.i], node, attr)
    IN  Store(Room(f, FirstFit(f.f_extent, fits)))

\* Mutant: the brother link is not written.
SetLinks_NoBro(w, bro, son) ==
    LET Linked(e) == [e EXCEPT !.attr.son = son.off]
    IN  IF ~son.ok THEN [file |-> son.file, ok |-> FALSE]
        ELSE [file |-> file_head_sync(PutItm(son.file, w.i, w.soff,
                 Linked(sect_ext_rd_itm(w.file.f_extent[w.i].s, w.soff)))),
              ok |-> TRUE, off |-> w.off]

\* The links of the entity w are written when bro and son are stored.
SetLinks(w, bro, son) ==
    LET Linked(e) == [e EXCEPT !.attr.bro = bro.off, !.attr.son = son.off]
    IN  IF ~son.ok THEN [file |-> son.file, ok |-> FALSE]
        ELSE [file |-> file_head_sync(PutItm(son.file, w.i, w.soff,
                 Linked(sect_ext_rd_itm(w.file.f_extent[w.i].s, w.soff)))),
              ok |-> TRUE, off |-> w.off]

\* Stores the chain j (a node and its brothers) under dad: the node itself,
\* its brothers, its sons, then its links.  Returns [file, ok, off].  When a
\* node does not fit into an empty section the call fails, and what it wrote
\* so far stays, with links of 0.
RECURSIVE file_write(_, _, _, _)
file_write(f, j, dad, type_ptr) ==
    LET Chain(g, c, d) == IF c = <<>> THEN [file |-> g, ok |-> TRUE, off |-> 0]
                          ELSE file_write(g, c, d, 0)
        AndSon(w, bro) == IF ~bro.ok THEN [file |-> bro.file, ok |-> FALSE]
                          ELSE SetLinks(w, bro,
                                  Chain(bro.file, Head(j).son, w.off))
        AndBro(w) == IF ~w.ok THEN w
                     ELSE AndSon(w, Chain(w.file, Tail(j), dad))
    IN  AndBro(WriteNode(f, Head(j), Link(Head(j).type, dad, 0, 0, type_ptr)))

-----------------------------------------------------------------------------
(* Reading and deleting.                                                   *)

\* The node at foff with its younger brothers, as a chain; <<>> for FAILED.
RECURSIVE file_read(_, _)
file_read(f, foff) ==
    LET Chain(o) == IF o = 0 THEN <<>> ELSE file_read(f, o)
        Kin(r, bro, son) ==
            IF (r.attr.bro # 0 /\ bro = <<>>) \/ (r.attr.son # 0 /\ son = <<>>)
            THEN <<>>
            ELSE <<[key |-> r.key, val |-> r.val, type |-> r.attr.type,
                    son |-> son]>> \o bro
        Node(r) == Kin(r, Chain(r.attr.bro), Chain(r.attr.son))
        In(w)   == Node(sect_ext_read(w.s, foff - w.off))
    IN  IF SectOf(f.f_extent, foff) = {} THEN <<>>
        ELSE In(f.f_extent[Min(SectOf(f.f_extent, foff))])

\* Overwrites the son_ptr field of the entity at dad, whatever is there.  If it
\* is a record, some of its bytes are.
SetSon(f, dad, son) ==
    LET With(e)  == [e EXCEPT !.attr.son = son]
        At(i, o) == IF Overgrown(f.f_extent[i].s, o) THEN Harm(f, "overgrown")
                    ELSE PutItm(f, i, o, With(sect_ext_rd_itm(f.f_extent[i].s, o)))
        In(i)    == At(i, dad - f.f_extent[i].off)
    IN  IF SectOf(f.f_extent, dad) = {} THEN f
        ELSE In(Min(SectOf(f.f_extent, dad)))

\* Deletes the tree under foff and, unless is_root, the brothers after it; a
\* root that has a dad is replaced by its brother as the first son of dad.
\* When records have grown over the slot their bytes are taken for an entity;
\* the model says so and goes no further.  Returns [file, ok].
RECURSIVE file_delete(_, _, _)
file_delete(f, foff, is_root) ==
    LET Del(r, p)  == IF p = 0 \/ ~r.ok THEN r ELSE file_delete(r.file, p, FALSE)
        Unlink(r, l) ==
            IF ~r.ok THEN r
            ELSE [file |-> file_head_sync(IF is_root /\ l.dad # 0
                                          THEN SetSon(r.file, l.dad, l.bro)
                                          ELSE r.file),
                  ok |-> TRUE]
        Family(g, l) == Unlink(Del(Del([file |-> g, ok |-> TRUE],
                                       IF is_root THEN 0 ELSE l.bro),
                                   l.son), l)
        At(i, o) ==
            IF Overgrown(f.f_extent[i].s, o)
            THEN [file |-> Harm(f, "overgrown"), ok |-> FALSE]
            ELSE Family([f EXCEPT !.f_extent[i].s = sect_ext_delete(@, o)],
                        sect_ext_rd_itm(f.f_extent[i].s, o).attr)
        In(i)    == At(i, foff - f.f_extent[i].off)
    IN  IF SectOf(f.f_extent, foff) = {} THEN [file |-> f, ok |-> FALSE]
        ELSE In(Min(SectOf(f.f_extent, foff)))

-----------------------------------------------------------------------------
(* Searching.                                                              *)

\* A candidate row: zeroed slots and nested nodes are rows too.
Row(f, w, foff) ==
    LET Typed(attr, type) ==
            [foff |-> foff, attr |-> attr, json |-> file_read(f, foff),
             type |-> IF type = <<>> THEN <<>> ELSE <<type[1].name>>]
        Of(attr) == Typed(attr, file_read_type(f, attr.type_ptr))
    IN  Of(sect_ext_rd_itm(w.s, foff - w.off).attr)

\* The rows before the first that cannot be read, where file_find gives up.
Readable(rows) ==
    SubSeq(rows, 1, Min({k \in DOMAIN rows : rows[k].json = <<>>}
                          \cup {Len(rows) + 1}) - 1)

\* The rows of section i that satisfy the query, in slot order.
file_find(f, i, query, garbage) ==
    LET In(w) == Readable([k \in 1..Cardinality(sect_ext_load(w.s)) |->
                    Row(f, w, w.off + HEAD_SIZE + (k - 1) * ITM_SIZE)])
    IN  SelectSeq(In(f.f_extent[i]), LAMBDA r :
                    query_check(query, r.json[1], r.type, garbage))
=============================================================================
