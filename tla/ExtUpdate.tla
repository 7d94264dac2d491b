----------------------------- MODULE ExtUpdate ------------------------------
(***************************************************************************)
(* sect_ext_update as an operator on section values: replace the record of *)
(* an entity without changing its slot.  The function moves the borders of *)
(* the header so that sect_ext_write puts the new record and the entity    *)
(* where it wants them, and then sets them back.                           *)
(***************************************************************************)
EXTENDS Extents

\* The assignments of the update to the header in memory.
SetBorders(s, lip, frp) == [s EXCEPT !.head = Head3(frp - lip, lip, frp)]

Done(s)   == [sect |-> s, ret |-> "OK"]
Failed(s) == [sect |-> s, ret |-> "FAILED"]

-----------------------------------------------------------------------------

\* Mutant: lst_itm_ptr is left behind the updated item.
ReplaceAtBorder_KeepsLip(s, soff, p, old, new) ==
    LET s1 == SetBorders(s, soff, s.head.fst_rec_ptr + old.init_rec_sz)
        s2 == sect_ext_write(s1, p, new)
    IN  IF CanWrite(s1, p) THEN Done(sect_head_sync(s2)) ELSE Failed(s1)

\* The record lies at fst_rec_ptr: give its bytes back and write again.
ReplaceAtBorder(s, soff, p, old, new) ==
    LET s1 == SetBorders(s, soff, s.head.fst_rec_ptr + old.init_rec_sz)
        s2 == sect_ext_write(s1, p, new)
    IN  IF CanWrite(s1, p)
        THEN Done(sect_head_sync(
                      SetBorders(s2, s.head.lst_itm_ptr, s2.head.fst_rec_ptr)))
        ELSE Failed(s1)

\* The record lies inside and does not fit its old place.  free_space is not
\* set for the moved lst_itm_ptr, so the write wants room for an item too;
\* when it fails the entity is deleted and lst_itm_ptr stays at its slot.
MoveToFreeSpace(s, soff, p, new) ==
    LET s1 == sect_ext_delete(s, soff)
        s2 == [s1 EXCEPT !.head =
                 Head3(@.free_space, soff, @.fst_rec_ptr)]
        s3 == sect_ext_write(s2, p, new)
    IN  IF CanWrite(s2, p)
        THEN Done(sect_head_sync(
                      SetBorders(s3, s1.head.lst_itm_ptr, s3.head.fst_rec_ptr)))
        ELSE Failed(s2)

\* Mutant: the new record ends where the old key began.
ReplaceInGap_BelowKey(s, soff, p, old, new) ==
    LET s1 == SetBorders(s, soff, old.key_ptr)
        s2 == sect_ext_write(s1, p, new)
    IN  IF CanWrite(s1, p)
        THEN Done(SetBorders(s2, s.head.lst_itm_ptr, s.head.fst_rec_ptr))
        ELSE Failed(s1)

\* The record lies inside and fits its old place.  The header that stays on
\* disk is the one sect_ext_write synced.
ReplaceInGap(s, soff, p, old, new) ==
    LET s1 == SetBorders(s, soff, old.key_ptr + old.key_size)
        s2 == sect_ext_write(s1, p, new)
    IN  IF CanWrite(s1, p)
        THEN Done(SetBorders(s2, s.head.lst_itm_ptr, s.head.fst_rec_ptr))
        ELSE Failed(s1)

\* The new entity keeps the larger of the two record sizes.
Promoted(ent, old) ==
    [ent EXCEPT !.init_rec_sz = Max({@, old.init_rec_sz})]

UpdateWith(s, soff, p, old, new) ==
    IF RecStart(old) = s.head.fst_rec_ptr
    THEN IF s.head.free_space + old.init_rec_sz >= new.init_rec_sz
         THEN ReplaceAtBorder(s, soff, p, old, new)
         ELSE Failed(s)
    ELSE IF new.init_rec_sz <= old.init_rec_sz
         THEN ReplaceInGap(s, soff, p, old, new)
         ELSE IF s.head.free_space >= entity_rec_sz(new)
              THEN MoveToFreeSpace(s, soff, p, new)
              ELSE Failed(s)

sect_ext_update(s, soff, p, ent) ==
    LET old == sect_ext_rd_itm(s, soff)
    IN  UpdateWith(s, soff, p, old, Promoted(ent, old))
=============================================================================
