------------------------------- MODULE Types --------------------------------
(***************************************************************************)
(* The operations of a section of types (section/types.c) as operators on  *)
(* section values.  A type takes one Type_entity slot followed by one      *)
(* Attr_entity slot per attribute; its names lie in the record area, the   *)
(* type's own name highest, contiguous and in the order of the slots.      *)
(*                                                                         *)
(* Both entities are 24 bytes with the same first two fields, and delete   *)
(* and load read one as the other, so a slot has one shape here:           *)
(*   name_size, name_ptr, and extra (attr_cnt or attr_type).               *)
(* A type is [name, attrs], attrs a sequence of [name, type].              *)
(***************************************************************************)
EXTENDS SectHead

ZeroSlot == [name_size |-> 0, name_ptr |-> 0, extra |-> 0]

\* The i-th slot of the type at soff: its own for 0, then its attributes.
SlotAt(soff, i) == soff + i * ITM_SIZE

\* The name and the third field stored in the i-th slot of type t.
NameOf(t, i)  == IF i = 0 THEN t.name ELSE t.attrs[i].name
ExtraOf(t, i) == IF i = 0 THEN Len(t.attrs) ELSE t.attrs[i].type

\* sect_types_rd_type and sect_types_rd_atr.
RdSlot(s, soff) == IF soff \in DOMAIN s.itm THEN s.itm[soff] ELSE ZeroSlot

\* type_itm_sz, type_rec_sz, type_ph_sz
\* Mutants: the attribute slots are forgotten; the check is.
type_itm_sz_NoAttrs(t) == ITM_SIZE
CanWriteType_Always(s, t) == TRUE

\* The bytes of the names in the slots 0..k.
NameBytes(t) ==
    LET size[k \in 0..Len(t.attrs)] ==
          (IF k = 0 THEN 0 ELSE size[k - 1]) + Len(NameOf(t, k))
    IN  size

type_itm_sz(t) == ITM_SIZE + Len(t.attrs) * ITM_SIZE
type_rec_sz(t) == NameBytes(t)[Len(t.attrs)]
type_ph_sz(t)  == type_itm_sz(t) + type_rec_sz(t)

\* One name and its entity: how the type itself and each attribute is stored.
PutSlot(s, name, extra) ==
    LET s1 == sect_head_shift_frp(s, -Len(name))
        s2 == sect_head_write(s1, s1.head.fst_rec_ptr, name)
        s3 == WriteItm(s2, s2.head.lst_itm_ptr,
                 [name_size |-> Len(name), name_ptr |-> s2.head.fst_rec_ptr,
                  extra |-> extra])
    IN  sect_head_shift_lip(s3, ITM_SIZE)

\* The section after the slots 0..k of t are stored.
TypeSlots(s, t) ==
    LET stored[k \in 0..Len(t.attrs)] ==
          PutSlot(IF k = 0 THEN s ELSE stored[k - 1], NameOf(t, k), ExtraOf(t, k))
    IN  stored

CanWriteType(s, t) == s.head.free_space >= type_ph_sz(t)

\* The OK path of sect_types_write; without CanWriteType it returns FAILED.
sect_types_write(s, t) == TypeSlots(s, t)[Len(t.attrs)]

\* The slots of the type at soff.
SlotsOf(s, soff) == {SlotAt(soff, i) : i \in 0..RdSlot(s, soff).extra}

\* Mutant: the record border stays where it is.
sect_types_delete_NoFrp(s, del_soff) ==
    LET t_ent == RdSlot(s, del_soff)
        lst   == RdSlot(s, SlotAt(del_soff, t_ent.extra))
        rec_sz == (t_ent.name_ptr + t_ent.name_size) - lst.name_ptr
        s1 == [s EXCEPT !.itm = Restrict(@, DOMAIN @ \ SlotsOf(s, del_soff))]
        s2 == sect_head_write(s1, lst.name_ptr, [i \in 1..rec_sz |-> 0])
    IN  sect_head_cmprs_lip(s2)

\* Mutant: the slots of the attributes are left behind.
sect_types_delete_KeepsAttrs(s, del_soff) ==
    LET t_ent == RdSlot(s, del_soff)
        lst   == RdSlot(s, SlotAt(del_soff, t_ent.extra))
        rec_sz == (t_ent.name_ptr + t_ent.name_size) - lst.name_ptr
        s1 == ClearItm(s, del_soff)
        s2 == sect_head_write(s1, lst.name_ptr, [i \in 1..rec_sz |-> 0])
    IN  sect_head_cmprs_frp(sect_head_cmprs_lip(s2))

\* The slot of the last attribute (of the type itself when it has none) tells
\* where the type's names begin.
sect_types_delete(s, del_soff) ==
    LET t_ent == RdSlot(s, del_soff)
        lst   == RdSlot(s, SlotAt(del_soff, t_ent.extra))
        rec_sz == (t_ent.name_ptr + t_ent.name_size) - lst.name_ptr
        s1 == [s EXCEPT !.itm = Restrict(@, DOMAIN @ \ SlotsOf(s, del_soff))]
        s2 == sect_head_write(s1, lst.name_ptr, [i \in 1..rec_sz |-> 0])
    IN  sect_head_cmprs_frp(sect_head_cmprs_lip(s2))

sect_types_read(s, soff) ==
    LET t_ent == RdSlot(s, soff)
        Name(e) == sect_head_read(s, e.name_ptr, e.name_size)
    IN  [name  |-> Name(t_ent),
         attrs |-> [i \in 1..t_ent.extra |->
                      LET a_ent == RdSlot(s, SlotAt(soff, i))
                      IN  [name |-> Name(a_ent), type |-> a_ent.extra]]]

\* The offsets the loop of sect_types_load visits from offset o on: from each
\* type to the end of its attributes.  A zeroed slot reads as a type without
\* name and attributes.
WalkFrom(s) ==
    LET From[o \in Nat] ==
          IF o >= s.head.lst_itm_ptr THEN <<>>
          ELSE <<o>> \o From[SlotAt(o, RdSlot(s, o).extra + 1)]
    IN  From

sect_types_load(s) == WalkFrom(s)[HEAD_SIZE]

\* The places in the list l of offsets at which a type is called name.
Hits(s, l, name) == {i \in DOMAIN l : sect_types_read(s, l[i]).name = name}

\* Mutant: the search does not stop at the first type of the name.
sect_types_find_Last(s, name) ==
    LET l == sect_types_load(s)
    IN  IF Hits(s, l, name) = {} THEN <<>> ELSE <<l[Max(Hits(s, l, name))]>>

\* <<offset>> of the first type called name in load order, <<>> for FAILED.
sect_types_find(s, name) ==
    LET l == sect_types_load(s)
    IN  IF Hits(s, l, name) = {} THEN <<>> ELSE <<l[Min(Hits(s, l, name))]>>
=============================================================================
