------------------------------ MODULE SectExt -------------------------------
(***************************************************************************)
(* One section of entities under the calls file.c makes on it: write,      *)
(* delete (of any slot, also one already deleted, that records have not    *)
(* grown over), rewrite of an entity's links, read.                        *)
(***************************************************************************)
EXTENDS Extents

CONSTANT Payloads       \* the [key, val] byte sequences that are written

ASSUME PayloadAssumption ==
    /\ Payloads \subseteq [key : Seq(Byte), val : Seq(Byte)]
    /\ ZeroAttr \in Attrs

\* No record begins with a zero byte.  Not true of every value a client can
\* store; what is shown below holds for the files in which it is.
NoZeroHead ==
    \A p \in Payloads : /\ p.val # <<>> => p.val[1] # 0
                        /\ p.val = <<>> /\ p.key # <<>> => p.key[1] # 0

VARIABLE sect

Init == sect = sect_head_ctor

\* sect_ext_write, when the node fits.
Write(p, a) == /\ CanWrite(sect, p)
               /\ sect' = sect_ext_write(sect, p, EntityInit(p, a))

\* sect_ext_write, when it does not: FAILED before anything is changed.
WriteFails(p) == /\ ~CanWrite(sect, p)
                 /\ UNCHANGED sect

\* sect_ext_delete.
Delete(o) == sect' = sect_ext_delete(sect, o)

\* The caller's part: an address collected earlier may name a dead slot, but
\* none that records have grown over since.  DELETE and an UPDATE of whole
\* documents keep to it (SectionsSound of module User); an UPDATE that selects
\* a node and one of its descendants need not (StaleRowsKeepOff of UserTypes).
MayDelete(o) == o + ITM_SIZE <= SECTION_SIZE /\ ~Overgrown(sect, o)

\* file_write and file_delete rewrite the links of a live entity in place.
Relink(o, a) ==
    /\ o \in DOMAIN sect.itm
    /\ sect' = sect_ext_wrt_itm(sect, o, [sect.itm[o] EXCEPT !.attr = a])

\* sect_ext_read ends with a sync of the header.
Read(o) == /\ o \in sect_ext_load(sect)
           /\ sect' = sect_head_sync(sect)

Next == \/ \E p \in Payloads : WriteFails(p) \/ \E a \in Attrs : Write(p, a)
        \/ \E o \in Slots : \/ MayDelete(o) /\ Delete(o)
                            \/ Read(o)
                            \/ \E a \in Attrs : Relink(o, a)

Spec == Init /\ [][Next]_sect

-----------------------------------------------------------------------------
(* Properties.                                                             *)

\* Type invariant: the section is a record of the expected shape.
TypeOK == SectTypeOK(sect)

\* The header is coherent after every call (header.c keeps free_space,
\* lst_itm_ptr and fst_rec_ptr by separate increments in five functions).
HeaderCoherent == HeadOK(sect)

\* sect_ext_delete moves fst_rec_ptr by guesses (the last item owns the lowest
\* record; zero bytes are free): no guess ever frees a byte of a live record
\* or makes two records overlap.
LayoutSafe == FrontiersOK(sect) /\ RecordsOrdered(sect)

\* Deleting leaves no zeroed slot or free byte behind a border.
BordersTight == Tight(sect)

\* The convention sect_head_cmprs_frp relies on when it takes a zero byte at
\* fst_rec_ptr for a free one.
ZeroBytesFree == ZeroIsFree(sect)

\* The table a caller sees through sect_ext_read.
Content(s) == [o \in DOMAIN s.itm |-> sect_ext_read(s, o)]

StoredRecords == {[key |-> p.key, val |-> p.val, attr |-> a] :
                      p \in Payloads, a \in Attrs}

Store == INSTANCE RecordStore WITH
            store <- Content(sect), Addresses <- Slots,
            Records <- StoredRecords, Attributes <- Attrs

\* The section implements the record store: a call changes the record it is
\* about and no other, and every record reads back as it was written.
ImplementsStore == Store!Spec

-----------------------------------------------------------------------------
\* fst_rec_ptr is what header_p.h says it is, the border before the records,
\* for whatever bytes are written.
FstRecPtrBeforeRecords == FrontiersOK(sect)
=============================================================================
