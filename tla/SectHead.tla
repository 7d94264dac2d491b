------------------------------ MODULE SectHead ------------------------------
(***************************************************************************)
(* The section: a fixed-size block of the data file, filled from both      *)
(* ends.  Fixed-size items grow upwards from the header, their             *)
(* variable-size records grow downwards from the end of the block; the     *)
(* header keeps the two frontiers and the number of free bytes between.    *)
(*                                                                         *)
(*   0       HEAD_SIZE      lst_itm_ptr       fst_rec_ptr    SECTION_SIZE  *)
(*   | header | items ...   |     free space    | records ...  |           *)
(*                                                                         *)
(* A section value is a record:                                            *)
(*   head   the header in memory: free_space, lst_itm_ptr, fst_rec_ptr;    *)
(*   disk   the copy of it that sect_head_sync last wrote;                 *)
(*   itm    slot offset -> the item there; a slot outside DOMAIN itm is    *)
(*          filled with zero bytes (the code knows a free slot by that);   *)
(*   rec    offset -> byte, for the record area.                           *)
(* Items and records are two functions, so a byte of the file belongs to   *)
(* both only if lst_itm_ptr > fst_rec_ptr, which HeadOK excludes, or if    *)
(* somebody takes the bytes of a record for an item (Overgrown in Extents).*)
(* next_ptr is left out: it is written as 0 and never used.                *)
(***************************************************************************)
EXTENDS Integers, Sequences, FiniteSetsExt, Functions

CONSTANTS
    SECTION_SIZE,   \* bytes of a section (8192 in the program)
    HEAD_SIZE,      \* sizeof(Sect_head_entity) (32)
    ITM_SIZE        \* bytes of an item slot: sizeof(Entity) (80) or 24

ASSUME SizeAssumption ==
    /\ SECTION_SIZE \in Nat
    /\ HEAD_SIZE \in Nat \ {0}
    /\ ITM_SIZE \in Nat \ {0}
    /\ HEAD_SIZE <= SECTION_SIZE

Byte == 0..255
Addr == HEAD_SIZE..(SECTION_SIZE - 1)

\* The offsets lst_itm_ptr can take: whole items after the header.
Slots == {o \in HEAD_SIZE..SECTION_SIZE :
            \E k \in 0..SECTION_SIZE : o = HEAD_SIZE + k * ITM_SIZE}

Head3(fs, lip, frp) ==
    [free_space |-> fs, lst_itm_ptr |-> lip, fst_rec_ptr |-> frp]

Heads == [free_space : Int, lst_itm_ptr : Int, fst_rec_ptr : Int]

-----------------------------------------------------------------------------

\* Mutant: the first item is put over the header.
sect_head_ctor_OverHead ==
    LET h == Head3(SECTION_SIZE - HEAD_SIZE, 0, SECTION_SIZE)
    IN  [head |-> h, disk |-> h,
         itm |-> [o \in {} |-> 0], rec |-> [a \in Addr |-> 0]]

\* The block lies in a file opened with "w+": bytes never written read as 0.
sect_head_ctor ==
    LET h == Head3(SECTION_SIZE - HEAD_SIZE, HEAD_SIZE, SECTION_SIZE)
    IN  [head |-> h, disk |-> h,
         itm |-> [o \in {} |-> 0], rec |-> [a \in Addr |-> 0]]

sect_head_sync(s) == [s EXCEPT !.disk = s.head]

\* Mutant: the border of the items moves one byte short.
sect_head_shift_lip_Short(s, shift) ==
    sect_head_sync([s EXCEPT !.head =
        Head3(@.free_space - shift, @.lst_itm_ptr + shift - 1, @.fst_rec_ptr)])

sect_head_shift_lip(s, shift) ==
    sect_head_sync([s EXCEPT !.head =
        Head3(@.free_space - shift, @.lst_itm_ptr + shift, @.fst_rec_ptr)])

\* Mutant: free_space is not adjusted.
sect_head_shift_frp_KeepsFree(s, shift) ==
    sect_head_sync([s EXCEPT !.head =
        Head3(@.free_space, @.lst_itm_ptr, @.fst_rec_ptr + shift)])

sect_head_shift_frp(s, shift) ==
    sect_head_sync([s EXCEPT !.head =
        Head3(@.free_space + shift, @.lst_itm_ptr, @.fst_rec_ptr + shift)])

\* sect_head_write of the bytes data at offset soff of the record area.
sect_head_write(s, soff, data) ==
    [s EXCEPT !.rec = [a \in DOMAIN @ |->
                         IF a >= soff /\ a < soff + Len(data)
                         THEN data[a - soff + 1] ELSE @[a]]]

\* sect_head_read of sz bytes at offset soff of the record area.
sect_head_read(s, soff, sz) == [i \in 1..sz |-> s.rec[soff + i - 1]]

\* sect_head_write of an item, and of zero bytes over an item.
WriteItm(s, soff, e) ==
    [s EXCEPT !.itm = [o \in DOMAIN @ \cup {soff} |->
                         IF o = soff THEN e ELSE @[o]]]
ClearItm(s, soff) == [s EXCEPT !.itm = Restrict(@, DOMAIN @ \ {soff})]

\* The loop walks lst_itm_ptr down over zeroed slots and stops at the header
\* or above an item that is not all zero.
CmprsLipStops(s) ==
    {l \in Slots : /\ l <= s.head.lst_itm_ptr
                   /\ l = HEAD_SIZE \/ l - ITM_SIZE \in DOMAIN s.itm}

\* Mutant: the loop gives back one slot at most.
sect_head_cmprs_lip_OneSlot(s) ==
    LET lip == Max({l \in CmprsLipStops(s) \cup {s.head.lst_itm_ptr - ITM_SIZE} :
                      l <= s.head.lst_itm_ptr})
    IN  sect_head_sync([s EXCEPT !.head =
            Head3(@.free_space + (@.lst_itm_ptr - lip), lip, @.fst_rec_ptr)])

sect_head_cmprs_lip(s) ==
    LET lip == Max(CmprsLipStops(s))
    IN  sect_head_sync([s EXCEPT !.head =
            Head3(@.free_space + (@.lst_itm_ptr - lip), lip, @.fst_rec_ptr)])

\* The loop walks fst_rec_ptr up over zero bytes, whoever owns them, and
\* stops at the end of the section or at a byte that is not 0.  Started past
\* the end it would scan the next section; the model stays where it started.
CmprsFrpStops(s) ==
    {a \in s.head.fst_rec_ptr..SECTION_SIZE :
        a = SECTION_SIZE \/ s.rec[a] # 0}
sect_head_cmprs_frp(s) ==
    LET frp == IF s.head.fst_rec_ptr > SECTION_SIZE THEN s.head.fst_rec_ptr
               ELSE Min(CmprsFrpStops(s))
    IN  sect_head_sync([s EXCEPT !.head =
            Head3(@.free_space + (frp - @.fst_rec_ptr), @.lst_itm_ptr, frp)])
-----------------------------------------------------------------------------

\* The two frontiers never cross, free_space is the distance between them,
\* and the header on disk is the one in memory.
HeadOK(s) ==
    /\ s.head.lst_itm_ptr \in Slots
    /\ s.head.lst_itm_ptr <= s.head.fst_rec_ptr
    /\ s.head.fst_rec_ptr <= SECTION_SIZE
    /\ s.head.free_space = s.head.fst_rec_ptr - s.head.lst_itm_ptr
    /\ s.disk = s.head
=============================================================================
