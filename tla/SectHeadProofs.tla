--------------------------- MODULE SectHeadProofs ---------------------------
(***************************************************************************)
(* Lemmas about the header operations: the geometry of the slots, and      *)
(* where the two compression loops of header.c stop.                       *)
(***************************************************************************)
EXTENDS SectHead, TLAPS, WellFoundedInduction

\* A non-empty set of naturals has a least element.
LEMMA NatLeast ==
    ASSUME NEW S, S \subseteq Nat, S # {}
    PROVE  \E x \in S : \A y \in S : x <= y
<1>1. PICK x \in S : \A y \in S : ~(<<y, x>> \in OpToRel(<, Nat))
  BY WFMin, NatLessThanWellFounded
<1>2. ASSUME NEW y \in S PROVE x <= y
  <2>1. x \in Nat /\ y \in Nat
    OBVIOUS
  <2>2. ~(y < x)
    BY <1>1, <2>1 DEF OpToRel
  <2> QED BY <2>1, <2>2
<1> QED BY <1>2

\* Induction over the naturals, on a set.
LEMMA NatInduct ==
    ASSUME NEW S, 0 \in S, \A n \in Nat : n \in S => n + 1 \in S
    PROVE  \A n \in Nat : n \in S
<1> SUFFICES ASSUME NEW k \in Nat, k \notin S PROVE FALSE
  OBVIOUS
<1> DEFINE Bad == {n \in Nat : n \notin S}
<1>1. PICK x \in Bad : \A y \in Bad : x <= y
  BY NatLeast
<1>2. x \in Nat /\ x # 0 /\ x - 1 \in Nat /\ x - 1 \notin Bad
  BY <1>1
<1>3. (x - 1) + 1 \in S
  BY <1>2
<1> QED BY <1>1, <1>2, <1>3

\* Min of a non-empty set of naturals is its least element.
LEMMA MinOfNat ==
    ASSUME NEW S, S \subseteq Nat, S # {}
    PROVE  Min(S) \in S /\ \A y \in S : Min(S) <= y
BY NatLeast DEF Min

\* Max of a non-empty set of naturals below a bound is its greatest element.
LEMMA MaxOfNat ==
    ASSUME NEW S, NEW b \in Nat, S \subseteq 0..b, S # {}
    PROVE  Max(S) \in S /\ \A y \in S : Max(S) >= y
<1> DEFINE T == {b - x : x \in S}
<1>1. T \subseteq Nat /\ T # {}
  <2>1. \A x \in S : b - x \in Nat
    OBVIOUS
  <2>2. PICK x0 \in S : TRUE
    OBVIOUS
  <2>3. b - x0 \in T
    BY <2>2
  <2> QED BY <2>1, <2>3
<1>2. PICK t \in T : \A u \in T : t <= u
  BY <1>1, NatLeast
<1>3. PICK x \in S : t = b - x
  BY <1>2
<1>4. \A y \in S : x >= y
  BY <1>2, <1>3
<1> QED BY <1>3, <1>4 DEF Max

-----------------------------------------------------------------------------

\* The slots start at the end of the header.
LEMMA SlotFirst == HEAD_SIZE \in Slots
BY SizeAssumption DEF Slots

\* The slot after a slot, if it still begins inside the section.
LEMMA SlotNext ==
    ASSUME NEW o \in Slots, o + ITM_SIZE <= SECTION_SIZE
    PROVE  o + ITM_SIZE \in Slots
<1>1. PICK k \in 0..SECTION_SIZE : o = HEAD_SIZE + k * ITM_SIZE
  BY DEF Slots
<1>2. o + ITM_SIZE = HEAD_SIZE + (k + 1) * ITM_SIZE
  BY <1>1, SizeAssumption
<1>3. k * ITM_SIZE >= k
  BY <1>1, SizeAssumption
<1>4. k + 1 \in 0..SECTION_SIZE
  BY <1>1, <1>3, SizeAssumption
<1>5. o + ITM_SIZE \in HEAD_SIZE..SECTION_SIZE
  BY SizeAssumption DEF Slots
<1> DEFINE n == o + ITM_SIZE
<1>6. \E j \in 0..SECTION_SIZE : n = HEAD_SIZE + j * ITM_SIZE
  BY <1>2, <1>4, Zenon
<1>7. n \in HEAD_SIZE..SECTION_SIZE
  BY <1>5
<1> HIDE DEF n
<1>8. n \in Slots
  BY <1>6, <1>7 DEF Slots
<1> QED BY <1>8 DEF n

\* Distinct slots are at least one item apart.
LEMMA SlotSpacing ==
    ASSUME NEW x \in Slots, NEW y \in Slots, x < y
    PROVE  x + ITM_SIZE <= y
<1>1. PICK k \in 0..SECTION_SIZE : x = HEAD_SIZE + k * ITM_SIZE
  BY DEF Slots
<1>2. PICK m \in 0..SECTION_SIZE : y = HEAD_SIZE + m * ITM_SIZE
  BY DEF Slots
<1>3. CASE m <= k
  <2>1. m * ITM_SIZE <= k * ITM_SIZE
    BY <1>3, SizeAssumption
  <2> QED BY <1>1, <1>2, <2>1, SizeAssumption
<1>4. CASE k + 1 <= m
  <2>1. (k + 1) * ITM_SIZE <= m * ITM_SIZE
    BY <1>4, SizeAssumption
  <2>2. (k + 1) * ITM_SIZE = k * ITM_SIZE + ITM_SIZE
    BY SizeAssumption
  <2> QED BY <1>1, <1>2, <2>1, <2>2, SizeAssumption
<1> QED BY <1>3, <1>4, SizeAssumption

-----------------------------------------------------------------------------

\* Where the loop of sect_head_cmprs_lip stops: at the header or right above
\* an item, and it jumps over no item.
LEMMA CmprsLipStop ==
    ASSUME NEW s, s.head.lst_itm_ptr \in Slots
    PROVE  LET l == Max(CmprsLipStops(s)) IN
           /\ l \in Slots
           /\ l <= s.head.lst_itm_ptr
           /\ l = HEAD_SIZE \/ l - ITM_SIZE \in DOMAIN s.itm
           /\ \A o \in DOMAIN s.itm :
                 o \in Slots /\ o + ITM_SIZE <= s.head.lst_itm_ptr
                    => o + ITM_SIZE <= l
<1> DEFINE S == CmprsLipStops(s)
           l == Max(S)
<1>1. S \subseteq 0..SECTION_SIZE
  BY SizeAssumption DEF CmprsLipStops, Slots
<1>2. HEAD_SIZE \in S
  BY SlotFirst, SizeAssumption DEF CmprsLipStops, Slots
<1>3. l \in S /\ \A y \in S : l >= y
  BY <1>1, <1>2, MaxOfNat, SizeAssumption
<1>4. ASSUME NEW o \in DOMAIN s.itm, o \in Slots,
             o + ITM_SIZE <= s.head.lst_itm_ptr
      PROVE  o + ITM_SIZE <= l
  <2>1. o + ITM_SIZE \in Slots
    BY <1>4, SlotNext, SizeAssumption DEF Slots
  <2>2. (o + ITM_SIZE) - ITM_SIZE = o
    BY <1>4, SizeAssumption DEF Slots
  <2>3. o + ITM_SIZE \in S
    BY <1>4, <2>1, <2>2 DEF CmprsLipStops
  <2> QED BY <1>1, <1>3, <2>3
<1> HIDE DEF l
<1>5. /\ l \in Slots /\ l <= s.head.lst_itm_ptr
      /\ l = HEAD_SIZE \/ l - ITM_SIZE \in DOMAIN s.itm
  BY <1>3 DEF CmprsLipStops
<1> QED BY <1>4, <1>5 DEF l

\* Where the loop of sect_head_cmprs_frp stops: at the end of the section or
\* at a byte that is not 0, and it jumps over no such byte.
LEMMA CmprsFrpStop ==
    ASSUME NEW s, s.head.fst_rec_ptr \in Nat, s.head.fst_rec_ptr <= SECTION_SIZE
    PROVE  LET f == Min(CmprsFrpStops(s)) IN
           /\ f \in Nat
           /\ s.head.fst_rec_ptr <= f
           /\ f <= SECTION_SIZE
           /\ f = SECTION_SIZE \/ s.rec[f] # 0
           /\ \A a \in Nat : /\ s.head.fst_rec_ptr <= a /\ a < SECTION_SIZE
                             /\ s.rec[a] # 0
                             => f <= a
<1> DEFINE S == CmprsFrpStops(s)
           f == Min(S)
<1>1. S \subseteq Nat /\ SECTION_SIZE \in S
  BY SizeAssumption DEF CmprsFrpStops
<1>2. f \in S /\ \A y \in S : f <= y
  BY <1>1, MinOfNat
<1>3. \A a \in Nat : s.head.fst_rec_ptr <= a /\ a < SECTION_SIZE /\ s.rec[a] # 0
                       => a \in S
  BY SizeAssumption DEF CmprsFrpStops
<1> HIDE DEF f
<1>4. /\ f \in Nat /\ s.head.fst_rec_ptr <= f /\ f <= SECTION_SIZE
      /\ f = SECTION_SIZE \/ s.rec[f] # 0
  BY <1>1, <1>2, SizeAssumption DEF CmprsFrpStops
<1> QED BY <1>2, <1>3, <1>4 DEF f

-----------------------------------------------------------------------------
(* The operations field by field.                                          *)

\* A section value from its fields.
Sect(h, d, itm, rec) == [head |-> h, disk |-> d, itm |-> itm, rec |-> rec]

\* The bytes rec after data is written at offset off.
Overwrite(rec, off, data) ==
    [a \in DOMAIN rec |-> IF a >= off /\ a < off + Len(data)
                          THEN data[a - off + 1] ELSE rec[a]]

\* The fields of a section, and of a header.
LEMMA Fields ==
    ASSUME NEW h, NEW d, NEW itm, NEW rec, NEW fs, NEW lip, NEW frp
    PROVE  /\ Sect(h, d, itm, rec).head = h
           /\ Sect(h, d, itm, rec).disk = d
           /\ Sect(h, d, itm, rec).itm = itm
           /\ Sect(h, d, itm, rec).rec = rec
           /\ Head3(fs, lip, frp).free_space = fs
           /\ Head3(fs, lip, frp).lst_itm_ptr = lip
           /\ Head3(fs, lip, frp).fst_rec_ptr = frp
BY DEF Sect, Head3

\* sect_head_sync, field by field.
LEMMA SyncOp ==
    ASSUME NEW h, NEW d, NEW itm, NEW rec
    PROVE  sect_head_sync(Sect(h, d, itm, rec)) = Sect(h, h, itm, rec)
BY DEF Sect, sect_head_sync

\* A change of the header followed by a sync.
LEMMA HeadSync ==
    ASSUME NEW h, NEW d, NEW itm, NEW rec, NEW g
    PROVE  sect_head_sync([Sect(h, d, itm, rec) EXCEPT !.head = g])
             = Sect(g, g, itm, rec)
<1>1. [Sect(h, d, itm, rec) EXCEPT !.head = g] = Sect(g, d, itm, rec)
  BY DEF Sect
<1> QED BY <1>1, SyncOp

\* sect_head_shift_lip, field by field.
LEMMA ShiftLipOp ==
    ASSUME NEW h, NEW d, NEW itm, NEW rec, NEW n, NEW g,
           g = Head3(h.free_space - n, h.lst_itm_ptr + n, h.fst_rec_ptr)
    PROVE  sect_head_shift_lip(Sect(h, d, itm, rec), n) = Sect(g, g, itm, rec)
<1>1. Sect(h, d, itm, rec).head = h
  BY DEF Sect
<1> QED BY <1>1, HeadSync DEF sect_head_shift_lip

\* sect_head_shift_frp, field by field.
LEMMA ShiftFrpOp ==
    ASSUME NEW h, NEW d, NEW itm, NEW rec, NEW n, NEW g,
           g = Head3(h.free_space + n, h.lst_itm_ptr, h.fst_rec_ptr + n)
    PROVE  sect_head_shift_frp(Sect(h, d, itm, rec), n) = Sect(g, g, itm, rec)
<1>1. Sect(h, d, itm, rec).head = h
  BY DEF Sect
<1> QED BY <1>1, HeadSync DEF sect_head_shift_frp

\* sect_head_write of bytes, field by field.
LEMMA WriteBytesOp ==
    ASSUME NEW h, NEW d, NEW itm, NEW rec, NEW off, NEW data
    PROVE  sect_head_write(Sect(h, d, itm, rec), off, data)
             = Sect(h, d, itm, Overwrite(rec, off, data))
BY DEF sect_head_write, Sect, Overwrite

\* The header after each of the two compressions.
LipHead(h, l) == Head3(h.free_space + (h.lst_itm_ptr - l), l, h.fst_rec_ptr)
FrpHead(h, f) == Head3(h.free_space + (f - h.fst_rec_ptr), h.lst_itm_ptr, f)

\* sect_head_cmprs_lip, field by field.
LEMMA CmprsLipOp ==
    ASSUME NEW h, NEW d, NEW itm, NEW rec, NEW l,
           l = Max(CmprsLipStops(Sect(h, d, itm, rec)))
    PROVE  sect_head_cmprs_lip(Sect(h, d, itm, rec))
             = Sect(LipHead(h, l), LipHead(h, l), itm, rec)
<1>1. Sect(h, d, itm, rec).head = h
  BY DEF Sect
<1> QED BY <1>1, HeadSync DEF sect_head_cmprs_lip, LipHead

\* sect_head_cmprs_frp, field by field.
LEMMA CmprsFrpOp ==
    ASSUME NEW h, NEW d, NEW itm, NEW rec, NEW f,
           ~(h.fst_rec_ptr > SECTION_SIZE),
           f = Min(CmprsFrpStops(Sect(h, d, itm, rec)))
    PROVE  sect_head_cmprs_frp(Sect(h, d, itm, rec))
             = Sect(FrpHead(h, f), FrpHead(h, f), itm, rec)
<1>1. Sect(h, d, itm, rec).head = h
  BY DEF Sect
<1> QED BY <1>1, HeadSync DEF sect_head_cmprs_frp, FrpHead

\* What the two compressions do to section m: the borders close in on what is
\* in use and jump over none of it; items and bytes stay.
Compressed(m, t) ==
    LET lip == t.head.lst_itm_ptr
        frp == t.head.fst_rec_ptr
    IN  /\ t = Sect(t.head, t.disk, t.itm, t.rec)
        /\ t.itm = m.itm /\ t.rec = m.rec
        /\ t.head \in Heads /\ HeadOK(t)
        /\ frp \in Nat /\ m.head.fst_rec_ptr <= frp
        /\ lip = HEAD_SIZE \/ lip - ITM_SIZE \in DOMAIN m.itm
        /\ \A o \in DOMAIN m.itm :
              o \in Slots /\ o + ITM_SIZE <= m.head.lst_itm_ptr
                 => o + ITM_SIZE <= lip
        /\ frp = SECTION_SIZE \/ m.rec[frp] # 0
        /\ \A b \in Nat : /\ m.head.fst_rec_ptr <= b /\ b < SECTION_SIZE
                          /\ m.rec[b] # 0
                          => frp <= b

\* A section with a coherent header, as a delete leaves it.
LEMMA CompressOp ==
    ASSUME NEW m, m = Sect(m.head, m.disk, m.itm, m.rec), HeadOK(m),
           m.head \in Heads
    PROVE  Compressed(m, sect_head_cmprs_frp(sect_head_cmprs_lip(m)))
<1> DEFINE h  == m.head
           l  == Max(CmprsLipStops(m))
           hl == LipHead(h, l)
           m1 == Sect(hl, hl, m.itm, m.rec)
           f  == Min(CmprsFrpStops(m1))
           hf == FrpHead(hl, f)
           t  == Sect(hf, hf, m.itm, m.rec)
           lip == h.lst_itm_ptr
           frp == h.fst_rec_ptr
<1>1. /\ lip \in Slots /\ lip <= frp /\ frp <= SECTION_SIZE
      /\ h.free_space = frp - lip
  BY DEF HeadOK
<1>2. h.free_space \in Int /\ lip \in Nat /\ frp \in Nat
  <2>1. h.free_space \in Int /\ frp \in Int
    BY DEF Heads
  <2>2. lip \in Nat
    BY <1>1, SizeAssumption DEF Slots
  <2> HIDE DEF h, lip, frp
  <2> QED BY <1>1, <2>1, <2>2
<1>3. /\ l \in Slots /\ l <= lip
      /\ l = HEAD_SIZE \/ l - ITM_SIZE \in DOMAIN m.itm
      /\ \A o \in DOMAIN m.itm :
            o \in Slots /\ o + ITM_SIZE <= lip => o + ITM_SIZE <= l
  BY <1>1, CmprsLipStop
<1>4. l \in Nat /\ HEAD_SIZE <= l
  BY <1>3, SizeAssumption DEF Slots
<1> HIDE DEF l
<1>5. /\ hl.free_space = frp - l /\ hl.lst_itm_ptr = l
      /\ hl.fst_rec_ptr = frp
  <2>1. h.free_space + (lip - l) = frp - l
    BY <1>1, <1>2, <1>4
  <2> QED BY <2>1, Fields DEF LipHead
<1>6. sect_head_cmprs_lip(m) = m1
  <2>1. l = Max(CmprsLipStops(Sect(h, m.disk, m.itm, m.rec)))
    BY DEF l
  <2> HIDE DEF h
  <2> QED BY <2>1, CmprsLipOp DEF h
<1> HIDE DEF hl
<1>7. /\ m1.head = hl /\ m1.itm = m.itm /\ m1.rec = m.rec
  BY Fields
<1>8. /\ f \in Nat /\ frp <= f /\ f <= SECTION_SIZE
      /\ f = SECTION_SIZE \/ m.rec[f] # 0
      /\ \A b \in Nat : frp <= b /\ b < SECTION_SIZE /\ m.rec[b] # 0 => f <= b
  <2>1. m1.head.fst_rec_ptr = frp
    BY <1>5, <1>7
  <2> HIDE DEF m1
  <2> QED BY <1>1, <1>2, <1>7, <2>1, CmprsFrpStop
<1> HIDE DEF f
<1>9. /\ hf.free_space = f - l /\ hf.lst_itm_ptr = l
      /\ hf.fst_rec_ptr = f
  <2>1. hl.free_space + (f - frp) = f - l
    BY <1>2, <1>4, <1>5, <1>8
  <2> QED BY <1>5, <2>1, Fields DEF FrpHead
<1>10. sect_head_cmprs_frp(m1) = t
  <2>1. f = Min(CmprsFrpStops(Sect(hl, hl, m.itm, m.rec)))
    BY DEF f
  <2>2. ~(hl.fst_rec_ptr > SECTION_SIZE)
    BY <1>1, <1>2, <1>5, SizeAssumption
  <2> QED BY <2>1, <2>2, CmprsFrpOp
<1>11. hf \in Heads
  BY <1>4, <1>8, <1>9, SizeAssumption DEF Heads, FrpHead, Head3
<1> HIDE DEF hf
<1>12. /\ t.head = hf /\ t.disk = hf /\ t.itm = m.itm /\ t.rec = m.rec
       /\ t = Sect(t.head, t.disk, t.itm, t.rec)
  BY Fields
<1> HIDE DEF t
<1>13. HeadOK(t)
  BY <1>1, <1>2, <1>3, <1>4, <1>8, <1>9, <1>12 DEF HeadOK
<1>14. Compressed(m, t)
  BY <1>3, <1>8, <1>9, <1>11, <1>12, <1>13 DEF Compressed
<1> QED BY <1>6, <1>10, <1>14
=============================================================================
