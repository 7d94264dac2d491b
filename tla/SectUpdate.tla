----------------------------- MODULE SectUpdate -----------------------------
(***************************************************************************)
(* A section of entities under writes, deletes and sect_ext_update, which  *)
(* its tests call, and file_update (module FileUpdate).                    *)
(***************************************************************************)
EXTENDS SectExt, ExtUpdate

CONSTANT MAX_UPDATES    \* bound: calls of sect_ext_update in one behaviour

ASSUME UpdateAssumption == MAX_UPDATES \in Nat

VARIABLE updates        \* calls of sect_ext_update so far

-----------------------------------------------------------------------------

UInit == Init /\ updates = 0

Update(o, p, a) ==
    /\ updates < MAX_UPDATES
    /\ updates' = updates + 1
    /\ o \in DOMAIN sect.itm
    /\ sect' = sect_ext_update(sect, o, p, EntityInit(p, a)).sect

UNext == \/ Next /\ UNCHANGED updates
         \/ \E o \in Slots, p \in Payloads, a \in Attrs : Update(o, p, a)

uvars == <<sect, updates>>

USpec == UInit /\ [][UNext]_uvars

-----------------------------------------------------------------------------
(* Properties.                                                             *)

\* A section as writes and deletes leave it: the invariants of SectExt hold,
\* and no record is shorter than the place it was given.
Pristine(s) ==
    /\ SectTypeOK(s) /\ HeadOK(s)
    /\ FrontiersOK(s) /\ RecordsOrdered(s) /\ Tight(s) /\ ZeroIsFree(s)
    /\ \A o \in DOMAIN s.itm : s.itm[o].init_rec_sz = entity_rec_sz(s.itm[o])

\* The borders enclose the items and the records, and no two records overlap.
Enclosed(s) ==
    /\ s.head.lst_itm_ptr <= s.head.fst_rec_ptr
    /\ s.head.free_space = s.head.fst_rec_ptr - s.head.lst_itm_ptr
    /\ FrontiersOK(s)
    /\ \A o1, o2 \in Owners(s) : o1 # o2 =>
          \/ RecEnd(s.itm[o1]) <= RecStart(s.itm[o2])
          \/ RecEnd(s.itm[o2]) <= RecStart(s.itm[o1])

\* The first update of an entity that has a record, when it returns OK: the
\* entity reads back as the new record from the same slot, and the moved
\* borders of sect_ext_update are put back around everything that is stored.
UpdateReplaces ==
    [][\A o \in Owners(sect), p \in Payloads, a \in Attrs :
          /\ Pristine(sect)
          /\ Update(o, p, a)
          /\ sect_ext_update(sect, o, p, EntityInit(p, a)).ret = "OK"
          => /\ Enclosed(sect')
             /\ Content(sect')[o] = [key |-> p.key, val |-> p.val, attr |-> a]
      ]_uvars

\* Whatever that update returns, and also when it fails after its delete, the
\* records of all other entities are left as they were.
UpdateKeepsOthers ==
    [][\A o \in Owners(sect), p \in Payloads, a \in Attrs :
          Pristine(sect) /\ Update(o, p, a) =>
             \A q \in DOMAIN sect.itm \ {o} :
                /\ q \in DOMAIN sect'.itm
                /\ Content(sect')[q] = Content(sect)[q]
      ]_uvars

-----------------------------------------------------------------------------
\* Step 4.1.1 of the comment on sect_ext_update: a record that has outgrown
\* its place is inserted into the free space when there is enough of it.
OutgrownRecordMoves ==
    [][\A o \in Owners(sect), p \in Payloads, a \in Attrs :
          /\ Pristine(sect)
          /\ Update(o, p, a)
          /\ RecStart(sect.itm[o]) # sect.head.fst_rec_ptr
          /\ sect.head.free_space >= Len(p.key) + Len(p.val)
          => /\ o \in DOMAIN sect'.itm
             /\ Content(sect')[o] = [key |-> p.key, val |-> p.val, attr |-> a]
      ]_uvars

\* fst_rec_ptr is what header_p.h says it is, the border before the records,
\* also after updates.  (init_rec_sz, by which sect_ext_update moves it up,
\* keeps the size a record had before it was shrunk.)
UpdatedRecordsBehindFrp ==
    \A o \in Owners(sect) : sect.head.fst_rec_ptr <= RecStart(sect.itm[o])
=============================================================================
