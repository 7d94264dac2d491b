----------------------------- MODULE SectTypes ------------------------------
(***************************************************************************)
(* One section of types under the calls file.c makes on it: add a type,    *)
(* delete a type by name.  Deletes leave zeroed slots between the live     *)
(* types, which the walk of sect_types_load has to step over.              *)
(***************************************************************************)
EXTENDS Types, SequencesExt

CONSTANTS TypeDefs,     \* the types clients define
          TypeNames     \* the names they ask for

ASSUME TypeDefsAssumption ==
    \A t \in TypeDefs :
        /\ t \in [name : Seq(Byte), attrs : Seq([name : Seq(Byte), type : Nat])]
        /\ t.name \in TypeNames

\* No name begins with a zero byte.  The names are what the lexer of the query
\* language takes for an identifier, so this is true of every type the client
\* sends; the code relies on it to tell a name from free space.
NamesNotZero ==
    \A t \in TypeDefs : \A i \in 0..Len(t.attrs) :
        NameOf(t, i) # <<>> => NameOf(t, i)[1] # 0

VARIABLE sect

Init == sect = sect_head_ctor

\* file_add_type on a section that has room, and on one that has not.
AddType(t) == CanWriteType(sect, t) /\ sect' = sect_types_write(sect, t)
AddTypeFails(t) == ~CanWriteType(sect, t) /\ UNCHANGED sect

\* file_delete_type: find by name, delete what is found.
DeleteType(n) ==
    LET found == sect_types_find(sect, n)
    IN  IF found = <<>> THEN UNCHANGED sect
        ELSE sect' = sect_types_delete(sect, Head(found))

Next == \/ \E t \in TypeDefs : AddType(t) \/ AddTypeFails(t)
        \/ \E n \in TypeNames : DeleteType(n)

Spec == Init /\ [][Next]_sect

-----------------------------------------------------------------------------
(* Properties.                                                             *)

\* Type invariant: header, slots and bytes have the expected shape.
TypeOK ==
    /\ sect.head \in Heads /\ sect.disk \in Heads
    /\ DOMAIN sect.itm \subseteq Slots
    /\ \A o \in DOMAIN sect.itm :
          sect.itm[o] \in [name_size : Nat, name_ptr : Nat, extra : Nat]
    /\ sect.rec \in [Addr -> Byte]

\* The header stays coherent although a type is written and removed in
\* several pieces, each of which moves a border.
TypesHeaderCoherent == HeadOK(sect)

\* The types sect_types_load reports, apart from the zeroed slots, and what
\* sect_types_read returns for each.
Loaded(s) == {o \in ToSet(sect_types_load(s)) : o \in DOMAIN s.itm}
Table(s) == [o \in Loaded(s) |-> sect_types_read(s, o)]

Store == INSTANCE RecordStore WITH
            store <- Table(sect), Addresses <- Slots,
            Records <- TypeDefs, Attributes <- {}

\* The section implements a table of types: the walk over slots of varying
\* number meets every live type and no attribute, adding and deleting one type
\* changes no other, and a type reads back as it was added.
ImplementsTypeTable == Store!Spec

\* The first type of a name is the one a delete removes.
DeleteRemovesFirst ==
    [][\A n \in TypeNames \ {<<>>} :
         LET named == {o \in Loaded(sect) : Table(sect)[o].name = n}
         IN  DeleteType(n) /\ named # {} =>
                Loaded(sect') = Loaded(sect) \ {Min(named)}]_sect

\* Both borders rest on something in use, so no slot or byte is lost there.
TypesTight ==
    /\ \/ sect.head.lst_itm_ptr = HEAD_SIZE
       \/ sect.head.lst_itm_ptr - ITM_SIZE \in DOMAIN sect.itm
    /\ \/ sect.head.fst_rec_ptr = SECTION_SIZE
       \/ \E o \in DOMAIN sect.itm : /\ sect.itm[o].name_size # 0
                                     /\ sect.itm[o].name_ptr = sect.head.fst_rec_ptr
=============================================================================
