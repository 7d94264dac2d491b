------------------------------ MODULE Extents -------------------------------
(***************************************************************************)
(* The operations of a section of entities (section/extents.c) as          *)
(* operators on section values.  An entity describes one JSON node: where  *)
(* its record (value bytes, then key bytes) lies, and, under attr, the     *)
(* fields a section stores without interpreting them: the JSON type, the   *)
(* family links and the type pointer.                                      *)
(***************************************************************************)
EXTENDS SectHead

CONSTANTS Attrs, ZeroAttr

\* entity_ctor / ENTITY_INIT: sizes from the JSON node, record not yet placed.
EntityInit(p, a) ==
    [key_ptr |-> 0, key_size |-> Len(p.key),
     val_ptr |-> 0, val_size |-> Len(p.val),
     init_rec_sz |-> Len(p.key) + Len(p.val), attr |-> a]

Placed(e, key_ptr, val_ptr) ==
    [key_ptr |-> key_ptr, key_size |-> e.key_size,
     val_ptr |-> val_ptr, val_size |-> e.val_size,
     init_rec_sz |-> e.init_rec_sz, attr |-> e.attr]

entity_rec_sz(e) == e.key_size + e.val_size

\* entity_clear, and what reading a zeroed slot returns.
ZeroEntity ==
    [key_ptr |-> 0, key_size |-> 0, val_ptr |-> 0, val_size |-> 0,
     init_rec_sz |-> 0, attr |-> ZeroAttr]

\* The slot is free and records have grown over it.  A caller that still has
\* its address would take bytes of a record for an entity, follow its sizes and
\* links, and zero what they lead to.  What comes of that depends on the bytes;
\* the operations below are about slots of which this is not true.
Overgrown(s, soff) ==
    /\ soff \notin DOMAIN s.itm
    /\ \E a \in Addr : soff <= a /\ a < soff + ITM_SIZE /\ s.rec[a] # 0

sect_ext_rd_itm(s, soff) ==
    IF soff \in DOMAIN s.itm THEN s.itm[soff] ELSE ZeroEntity

sect_ext_wrt_itm(s, soff, e) == WriteItm(s, soff, e)

-----------------------------------------------------------------------------

CanWrite(s, p) == s.head.free_space >= ITM_SIZE + Len(p.key) + Len(p.val)

\* The OK path of sect_ext_write; without CanWrite it returns FAILED and
\* changes nothing.  The entity is saved at the old lst_itm_ptr.
sect_ext_write(s, p, ent) ==
    LET s1 == sect_head_shift_frp(s, -Len(p.key))
        s2 == sect_head_write(s1, s1.head.fst_rec_ptr, p.key)
        s3 == sect_head_shift_frp(s2, -Len(p.val))
        s4 == sect_head_write(s3, s3.head.fst_rec_ptr, p.val)
        s5 == sect_ext_wrt_itm(s4, s4.head.lst_itm_ptr,
                  Placed(ent, s1.head.fst_rec_ptr, s3.head.fst_rec_ptr))
    IN  sect_head_sync(sect_head_shift_lip(s5, ITM_SIZE))

\* What sect_ext_read hands back: the node's key, value and attributes.
sect_ext_read(s, soff) ==
    LET e == sect_ext_rd_itm(s, soff)
    IN  [key  |-> sect_head_read(s, e.key_ptr, e.key_size),
         val  |-> sect_head_read(s, e.val_ptr, e.val_size),
         attr |-> e.attr]

\* Mutant: the record border moves for an inner entity too.
sect_ext_delete_AlwaysFrp(s, soff) ==
    LET e  == sect_ext_rd_itm(s, soff)
        s1 == sect_head_shift_frp(
                  IF soff + ITM_SIZE = s.head.lst_itm_ptr
                  THEN sect_head_shift_lip(s, -ITM_SIZE) ELSE s,
                  entity_rec_sz(e))
        s2 == sect_head_write(s1, e.key_ptr - e.val_size,
                              [i \in 1..entity_rec_sz(e) |-> 0])
        s3 == ClearItm(s2, soff)
    IN  sect_head_sync(sect_head_cmprs_frp(sect_head_cmprs_lip(s3)))

\* Mutant: the record is zeroed from its key on, where it does not begin.
sect_ext_delete_FromKey(s, soff) ==
    LET e  == sect_ext_rd_itm(s, soff)
        s1 == IF soff + ITM_SIZE = s.head.lst_itm_ptr
              THEN sect_head_shift_frp(sect_head_shift_lip(s, -ITM_SIZE),
                                       entity_rec_sz(e))
              ELSE s
        s2 == sect_head_write(s1, e.key_ptr,
                              [i \in 1..entity_rec_sz(e) |-> 0])
        s3 == ClearItm(s2, soff)
    IN  sect_head_sync(sect_head_cmprs_frp(sect_head_cmprs_lip(s3)))

\* Mutant: only the value is zeroed, not the key.
sect_ext_delete_ValueOnly(s, soff) ==
    LET e  == sect_ext_rd_itm(s, soff)
        s1 == IF soff + ITM_SIZE = s.head.lst_itm_ptr
              THEN sect_head_shift_frp(sect_head_shift_lip(s, -ITM_SIZE),
                                       entity_rec_sz(e))
              ELSE s
        s2 == sect_head_write(s1, e.key_ptr - e.val_size,
                              [i \in 1..e.val_size |-> 0])
        s3 == ClearItm(s2, soff)
    IN  sect_head_sync(sect_head_cmprs_frp(sect_head_cmprs_lip(s3)))

sect_ext_delete(s, soff) ==
    LET e  == sect_ext_rd_itm(s, soff)
        s1 == IF soff + ITM_SIZE = s.head.lst_itm_ptr
              THEN sect_head_shift_frp(sect_head_shift_lip(s, -ITM_SIZE),
                                       entity_rec_sz(e))
              ELSE s
        s2 == sect_head_write(s1, e.key_ptr - e.val_size,
                              [i \in 1..entity_rec_sz(e) |-> 0])
        s3 == ClearItm(s2, soff)
    IN  sect_head_sync(sect_head_cmprs_frp(sect_head_cmprs_lip(s3)))

\* sect_ext_load visits every slot below lst_itm_ptr, zeroed ones included.
sect_ext_load(s) == {o \in Slots : o < s.head.lst_itm_ptr}

-----------------------------------------------------------------------------
(* What a well-formed section of entities is.                              *)

Entities == [key_ptr : Nat, key_size : Nat, val_ptr : Nat, val_size : Nat,
             init_rec_sz : Nat, attr : Attrs]

\* The record of entity e occupies the bytes RecStart(e)..RecEnd(e)-1.
RecStart(e) == e.key_ptr - e.val_size
RecEnd(e)   == e.key_ptr + e.key_size

\* The slots whose entity owns at least one byte.
Owners(s) == {o \in DOMAIN s.itm : entity_rec_sz(s.itm[o]) # 0}

SectTypeOK(s) ==
    /\ s = [head |-> s.head, disk |-> s.disk, itm |-> s.itm, rec |-> s.rec]
    /\ s.head \in Heads /\ s.disk \in Heads
    /\ s.itm = [o \in DOMAIN s.itm |-> s.itm[o]]
    /\ DOMAIN s.itm \subseteq Slots
    /\ \A o \in DOMAIN s.itm : s.itm[o] \in Entities
    /\ s.rec \in [Addr -> Byte]

\* Every item lies below lst_itm_ptr and every record between fst_rec_ptr
\* and the end of the section, so a write into the free space destroys none.
FrontiersOK(s) ==
    /\ \A o \in DOMAIN s.itm : o + ITM_SIZE <= s.head.lst_itm_ptr
    /\ \A o \in Owners(s) : /\ s.head.fst_rec_ptr <= RecStart(s.itm[o])
                            /\ RecEnd(s.itm[o]) <= SECTION_SIZE

\* Records do not overlap, and they lie in the opposite order of their items.
RecordsOrdered(s) ==
    \A o1, o2 \in Owners(s) :
        o1 < o2 => RecEnd(s.itm[o2]) <= RecStart(s.itm[o1])

\* The frontiers are tight: each one rests against something that is in use.
\* No byte at a border is lost for good; an emptied section is all free.
Tight(s) ==
    /\ s.head.lst_itm_ptr = HEAD_SIZE \/ s.head.lst_itm_ptr - ITM_SIZE \in DOMAIN s.itm
    /\ \/ s.head.fst_rec_ptr = SECTION_SIZE
       \/ \E o \in Owners(s) : RecStart(s.itm[o]) = s.head.fst_rec_ptr

\* A zero byte at a border is a free byte: a record never begins with one,
\* and a byte that is not 0 belongs to a record.
ZeroIsFree(s) ==
    /\ \A o \in DOMAIN s.itm : s.itm[o].val_ptr = RecStart(s.itm[o])
    /\ \A o \in Owners(s) : s.rec[RecStart(s.itm[o])] # 0
    /\ \A a \in Addr : s.rec[a] # 0 =>
          \E o \in Owners(s) : /\ RecStart(s.itm[o]) <= a
                               /\ a < RecEnd(s.itm[o])
=============================================================================
