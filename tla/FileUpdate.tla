----------------------------- MODULE FileUpdate -----------------------------
(***************************************************************************)
(* file_update: change a stored tree in place, node by node.  It belongs   *)
(* to the interface of file.h and nothing in the program calls it (the     *)
(* UPDATE command deletes and inserts); here a client of that interface    *)
(* writes, deletes and updates documents without types.  The client keeps  *)
(* the addresses of its documents, and passes cur_fileoff holding the      *)
(* address it wants to update, since file_update leaves it alone when the  *)
(* root does not change.                                                   *)
(***************************************************************************)
EXTENDS File, ExtUpdate

CONSTANTS Documents,      \* documents the client writes
          MAX_EXT,        \* bound: sections of entities
          MAX_UPDATES     \* bound: calls of file_update; the last ends a behaviour

VARIABLES file,           \* the file
          roots,          \* the addresses of the client's documents
          updates         \* the calls of file_update so far

vars == <<file, roots, updates>>

-----------------------------------------------------------------------------

\* Zero means equal in the code; only that is looked at.
json_cmp(a, b) ==
    IF a.type = b.type /\ a.key = b.key
       /\ (a.type = TYPE_OBJECT \/ a.val = b.val) THEN 0 ELSE 1

\* Mutant: the entity is deleted from the first section of the list.
Relocate_FirstSection(f, i, soff, node, ent) ==
    LET g == [f EXCEPT !.f_extent[1].s = sect_ext_delete(@, soff)]
        fits == {k \in DOMAIN g.f_extent : CanWrite(g.f_extent[k].s, node)}
        Into(k) ==
            [file |-> [g EXCEPT !.f_extent[k].s = sect_ext_write(@, node, ent)],
             ok |-> TRUE,
             cur |-> g.f_extent[k].off + g.f_extent[k].s.head.lst_itm_ptr]
    IN  IF fits # {} THEN Into(Min(fits))
        ELSE [file |-> file_add_sect_ext(g), ok |-> FALSE]

\* The section refused the new node: delete the entity, and write the node to
\* the first section with room.  When there is none a section is added, but
\* the node is written to its old section, if the delete made room there.
Relocate(f, i, soff, node, ent) ==
    LET g == [f EXCEPT !.f_extent[i].s = sect_ext_delete(@, soff)]
        fits == {k \in DOMAIN g.f_extent : CanWrite(g.f_extent[k].s, node)}
        Into(k) ==
            [file |-> [g EXCEPT !.f_extent[k].s = sect_ext_write(@, node, ent)],
             ok |-> TRUE,
             cur |-> g.f_extent[k].off + g.f_extent[k].s.head.lst_itm_ptr]
    IN  IF fits # {} THEN Into(Min(fits))
        ELSE [file |-> file_add_sect_ext(g), ok |-> FALSE]

\* What follows a call of sect_ext_update that returned u.  It raised init_rec_sz
\* of the entity it was given.  When it failed and changed the section all the
\* same, lst_itm_ptr is at soff now, and what is written next goes there and
\* then over the items behind.
AfterUpdate(f, i, soff, node, ent, u) ==
    LET s == f.f_extent[i].s
        h == IF u.ret = "FAILED" /\ u.sect # s THEN Harm(f, "refused") ELSE f
        g == [h EXCEPT !.f_extent[i].s = u.sect]
    IN  IF u.ret = "OK"
        THEN [file |-> g, ok |-> TRUE, cur |-> f.f_extent[i].off + soff]
        ELSE Relocate(g, i, soff, node,
                      Promoted(ent, sect_ext_rd_itm(s, soff)))

UpdateNode(f, i, soff, node, attr) ==
    LET ent == EntityInit(node, attr)
    IN  AfterUpdate(f, i, soff, node, ent,
                sect_ext_update(f.f_extent[i].s, soff, node, ent))


\* The links that are not 0 are written into the entity at cur.  An unchanged
\* node below the root has cur 0: its links land in the first item of the
\* section at the beginning of the file, on val_ptr and val_size.
WriteLinks(f, cur, bro, son) ==
    LET i == IF cur = 0 THEN 1 ELSE Min(SectOf(f.f_extent, cur))
        o == IF cur = 0 THEN HEAD_SIZE ELSE cur - f.f_extent[i].off
        Or(new, old) == IF new = 0 THEN old ELSE new
        Linked(e) == IF cur = 0
                     THEN [e EXCEPT !.val_ptr = Or(bro, @),
                                    !.val_size = Or(son, @)]
                     ELSE [e EXCEPT !.attr.bro = Or(bro, @),
                                    !.attr.son = Or(son, @)]
        g == IF cur = 0 /\ (bro # 0 \/ son # 0) THEN Harm(f, "stray") ELSE f
    IN  PutItm(g, i, o, Linked(sect_ext_rd_itm(f.f_extent[i].s, o)))

\* file_update turns the tree at foff into the first of the chain j, and unless
\* is_root its brothers into the others.  cur is *cur_fileoff before the call.
\* Returns [file, ok, cur].
RECURSIVE file_update(_, _, _, _, _, _, _)

\* A chain of new brothers or sons, over the old chain at p or where none was.
UpdateKin(f, dad, p, chain) ==
    IF chain = <<>> THEN [file |-> f, ok |-> TRUE, cur |-> 0]
    ELSE IF p # 0 THEN file_update(f, p, chain, dad, 0, FALSE, 0)
    ELSE LET w == file_write(f, chain, dad, 0)
         IN  [file |-> w.file, ok |-> w.ok, cur |-> IF w.ok THEN w.off ELSE 0]

\* The rest of file_update after the sons, the brothers and the node itself;
\* each is not reached when what comes before it failed.
ThenLinks(cur, bro, son) ==
    IF ~son.ok THEN son
    ELSE [file |-> file_head_sync(WriteLinks(son.file, cur, bro, son.cur)),
          ok |-> TRUE, cur |-> cur]

ThenSons(cur, bro, attr, json) ==
    IF ~bro.ok THEN bro
    ELSE ThenLinks(cur, bro.cur, UpdateKin(bro.file, cur, attr.son, json.son))

ThenBrothers(node, attr, j, is_root) ==
    IF ~node.ok THEN node
    ELSE ThenSons(node.cur,
                  UpdateKin(node.file, node.cur, attr.bro,
                            IF is_root THEN <<>> ELSE Tail(j)),
                  attr, Head(j))

file_update(f, foff, j, dad, type_ptr, is_root, cur) ==
    LET i    == Min(SectOf(f.f_extent, foff))
        soff == foff - f.f_extent[i].off
        rd   == sect_ext_read(f.f_extent[i].s, soff)
        old  == [key |-> rd.key, val |-> rd.val, type |-> rd.attr.type]
        read == [f EXCEPT !.f_extent[i].s = sect_head_sync(@)]
        node == IF json_cmp(old, Head(j)) = 0
                THEN [file |-> read, ok |-> TRUE, cur |-> cur]
                ELSE UpdateNode(read, i, soff, Head(j),
                                Link(Head(j).type, dad, 0, 0, type_ptr))
    IN  IF SectOf(f.f_extent, foff) = {} THEN [file |-> f, ok |-> FALSE]
        ELSE ThenBrothers(node, rd.attr, j, is_root)

-----------------------------------------------------------------------------

Init == file = file_ctor /\ roots = {} /\ updates = <<>>

WriteDoc(d) ==
    LET w == file_write(file, <<d>>, 0, 0)
    IN  /\ Len(updates) < MAX_UPDATES
        /\ w.ok /\ Len(w.file.f_extent) <= MAX_EXT
        /\ file' = w.file
        /\ roots' = roots \cup {w.off}
        /\ UNCHANGED updates

DeleteDoc(r) ==
    /\ Len(updates) < MAX_UPDATES
    /\ file' = file_delete(file, r, TRUE).file
    /\ roots' = roots \ {r}
    /\ UNCHANGED updates

\* After a failure the client gives the document up.
UpdateDoc(r, d) ==
    /\ Len(updates) < MAX_UPDATES
    /\ \E u \in {file_update(file, r, <<d>>, 0, 0, TRUE, r)} :
          /\ Len(u.file.f_extent) <= MAX_EXT
          /\ file' = u.file
          /\ roots' = (roots \ {r}) \cup (IF u.ok THEN {u.cur} ELSE {})
          /\ updates' = Append(updates,
                 [foff |-> r, json |-> d, ok |-> u.ok,
                  cur |-> IF u.ok THEN u.cur ELSE 0])

Next == \/ \E d \in Documents : WriteDoc(d)
        \/ \E r \in roots : DeleteDoc(r)
        \/ \E r \in roots, d \in Documents : UpdateDoc(r, d)

Spec == Init /\ [][Next]_vars

-----------------------------------------------------------------------------
(* Properties.                                                             *)

\* The step is a call of file_update, and this is the call.
IsUpdate == updates' # updates
call == updates'[Len(updates')]

\* Every node below the root that is there before and after the update changes.
RECURSIVE AllChange(_, _)
AllChange(old, new) ==
    \A k \in DOMAIN old.son \cap DOMAIN new.son :
        /\ json_cmp(old.son[k], new.son[k]) # 0
        /\ AllChange(old.son[k], new.son[k])

\* The call leaves every other document as it was.
OthersAsTheyWere ==
    \A q \in roots \ {call.foff} : file_read(file', q) = file_read(file, q)


\* Whatever the update of one document returns, also when it fails half way,
\* all others stay as they were: nodes that grow, shrink, move to another
\* section or are new never land on theirs.  No move within a section was
\* refused, and no link of an unchanged node was written to the first item of
\* the file.
OthersKept ==
    [][IsUpdate /\ file'.harm = {} => OthersAsTheyWere]_vars

-----------------------------------------------------------------------------
\* The comment in file_update: when the section cannot take the node, "we add
\* the entity to the first free section": it does not fail for want of room.
FindsRoom == [][IsUpdate => call.ok]_vars

\* "We update the tree under it", and no other tree.
OtherTreesKept == [][IsUpdate => OthersAsTheyWere]_vars

\* "We update the tree under it": after OK the tree is the one that was given.
TreeUpdated ==
    [][IsUpdate /\ call.ok => file_read(file', call.cur) = <<call.json>>]_vars
=============================================================================
