--------------------------- MODULE SectExtProofs ----------------------------
(***************************************************************************)
(* Proofs about SectExt, for every section size, item size, attribute set  *)
(* and payload set in which no record begins with a zero byte.             *)
(***************************************************************************)
EXTENDS SectExt, SectHeadProofs

-----------------------------------------------------------------------------
(* sect_ext_write, field by field.                                         *)

\* The section after sect_ext_write.
Written(h, itm, rec, p, e) ==
    LET kp == h.fst_rec_ptr - Len(p.key)
        vp == kp - Len(p.val)
        ht == Head3(h.free_space - Len(p.key) - Len(p.val) - ITM_SIZE,
                    h.lst_itm_ptr + ITM_SIZE, vp)
    IN  Sect(ht, ht,
             [x \in DOMAIN itm \cup {h.lst_itm_ptr} |->
                IF x = h.lst_itm_ptr THEN Placed(e, kp, vp) ELSE itm[x]],
             Overwrite(Overwrite(rec, kp, p.key), vp, p.val))

\* sect_ext_write, field by field.
LEMMA WriteOp ==
    ASSUME NEW h \in Heads, NEW d, NEW itm, NEW rec,
           NEW p, Len(p.key) \in Nat, Len(p.val) \in Nat, NEW e
    PROVE  sect_ext_write(Sect(h, d, itm, rec), p, e)
             = Written(h, itm, rec, p, e)
<1> DEFINE k  == Len(p.key)
           v  == Len(p.val)
           kp == h.fst_rec_ptr - k
           vp == kp - v
           s  == Sect(h, d, itm, rec)
           h1 == Head3(h.free_space - k, h.lst_itm_ptr, kp)
           h3 == Head3(h.free_space - k - v, h.lst_itm_ptr, vp)
           ht == Head3(h.free_space - k - v - ITM_SIZE,
                       h.lst_itm_ptr + ITM_SIZE, vp)
           s1 == sect_head_shift_frp(s, -k)
           s2 == sect_head_write(s1, kp, p.key)
           s3 == sect_head_shift_frp(s2, -v)
           s4 == sect_head_write(s3, vp, p.val)
           s5 == WriteItm(s4, h.lst_itm_ptr, Placed(e, kp, vp))
           it == [x \in DOMAIN itm \cup {h.lst_itm_ptr} |->
                         IF x = h.lst_itm_ptr THEN Placed(e, kp, vp)
                         ELSE itm[x]]
           r1 == Overwrite(rec, kp, p.key)
           r2 == Overwrite(r1, vp, p.val)
<1>0. /\ h.free_space \in Int /\ h.lst_itm_ptr \in Int
      /\ h.fst_rec_ptr \in Int /\ k \in Nat /\ v \in Nat
  BY DEF Heads
<1>1. s1 = Sect(h1, h1, itm, rec)
  <2>1. Head3(h.free_space + (-k), h.lst_itm_ptr, h.fst_rec_ptr + (-k)) = h1
    BY <1>0
  <2> QED BY <2>1, ShiftFrpOp
<1> HIDE DEF s1
<1>2. s2 = Sect(h1, h1, itm, r1)
  <2> HIDE DEF h1, kp
  <2> QED BY <1>1, WriteBytesOp
<1> HIDE DEF s2
<1>3. s3 = Sect(h3, h3, itm, r1)
  <2>1. Head3(h1.free_space + (-v), h1.lst_itm_ptr, h1.fst_rec_ptr + (-v)) = h3
    BY <1>0 DEF Head3
  <2> HIDE DEF h1, h3, r1, v
  <2> QED BY <1>2, <2>1, ShiftFrpOp
<1> HIDE DEF s3
<1>4. s4 = Sect(h3, h3, itm, r2)
  <2> HIDE DEF h3, r1, vp
  <2> QED BY <1>3, WriteBytesOp
<1> HIDE DEF s4
<1>5. s5 = Sect(h3, h3, it, r2)
  <2> DEFINE q == Placed(e, kp, vp)
             o == h.lst_itm_ptr
  <2>1. it = [x \in DOMAIN itm \cup {o} |-> IF x = o THEN q ELSE itm[x]]
    OBVIOUS
  <2>2. s5 = WriteItm(s4, o, q)
    OBVIOUS
  <2> HIDE DEF h3, r2, q, o, it, s5
  <2>3. WriteItm(Sect(h3, h3, itm, r2), o, q) = Sect(h3, h3, it, r2)
    BY <2>1 DEF WriteItm, Sect
  <2> QED BY <1>4, <2>2, <2>3
<1> HIDE DEF s5
<1>6. sect_head_sync(sect_head_shift_lip(s5, ITM_SIZE)) = Sect(ht, ht, it, r2)
  <2>1. Head3(h3.free_space - ITM_SIZE, h3.lst_itm_ptr + ITM_SIZE,
              h3.fst_rec_ptr) = ht
    BY <1>0, SizeAssumption DEF Head3
  <2> HIDE DEF h3, ht, r2, it
  <2> QED BY <1>5, <2>1, ShiftLipOp, SyncOp
<1>7. /\ s1.head.fst_rec_ptr = kp /\ s3.head.fst_rec_ptr = vp
      /\ s4.head.lst_itm_ptr = h.lst_itm_ptr
  <2> HIDE DEF r1, r2, kp, vp
  <2> QED BY <1>1, <1>3, <1>4, Fields
<1>8. sect_ext_write(s, p, e) = sect_head_sync(sect_head_shift_lip(s5, ITM_SIZE))
  BY <1>7 DEF sect_ext_write, sect_ext_wrt_itm, s1, s2, s3, s4, s5
<1>9. Written(h, itm, rec, p, e) = Sect(ht, ht, it, r2)
  BY DEF Written
<1> QED BY <1>6, <1>8, <1>9

-----------------------------------------------------------------------------
(* The invariant.                                                          *)

\* Everything but tightness: what holds in the middle of a delete too.
Loose(s) == /\ SectTypeOK(s)
            /\ HeadOK(s)
            /\ FrontiersOK(s)
            /\ RecordsOrdered(s)
            /\ ZeroIsFree(s)

\* The inductive invariant.
SectInv(s) == Loose(s) /\ Tight(s)

\* The fields of a loose section have their types.
LEMMA LooseTypes ==
    ASSUME NEW s, Loose(s)
    PROVE  /\ s = Sect(s.head, s.disk, s.itm, s.rec)
           /\ s.head \in Heads /\ s.disk = s.head
           /\ s.head.free_space \in Int
           /\ s.head.lst_itm_ptr \in Nat /\ s.head.fst_rec_ptr \in Nat
           /\ s.itm = [x \in DOMAIN s.itm |-> s.itm[x]]
           /\ s.rec \in [Addr -> Byte]
           /\ \A o \in DOMAIN s.itm :
                 LET e == s.itm[o] IN
                 /\ o \in Slots /\ o \in Nat /\ e \in Entities
                 /\ e.key_ptr \in Nat /\ e.key_size \in Nat
                 /\ e.val_ptr \in Nat /\ e.val_size \in Nat
                 /\ e.attr \in Attrs
                 /\ RecStart(e) = e.val_ptr
                 /\ RecEnd(e) = e.key_ptr + e.key_size
                 /\ RecEnd(e) = e.val_ptr + entity_rec_sz(e)
                 /\ entity_rec_sz(e) \in Nat
<1>1. /\ SectTypeOK(s) /\ HeadOK(s) /\ ZeroIsFree(s)
  BY DEF Loose
<1>2. /\ s = Sect(s.head, s.disk, s.itm, s.rec)
      /\ s.head \in Heads /\ s.disk = s.head
      /\ s.itm = [x \in DOMAIN s.itm |-> s.itm[x]]
      /\ s.rec \in [Addr -> Byte]
  BY <1>1 DEF SectTypeOK, HeadOK, Sect
<1>3. /\ s.head.free_space \in Int /\ s.head.lst_itm_ptr \in Int
      /\ s.head.fst_rec_ptr \in Int
  BY <1>2 DEF Heads
<1>4. s.head.lst_itm_ptr \in Nat /\ s.head.fst_rec_ptr \in Nat
  BY <1>1, <1>3, SizeAssumption DEF HeadOK, Slots
<1>5. ASSUME NEW o \in DOMAIN s.itm
      PROVE  LET e == s.itm[o] IN
                 /\ o \in Slots /\ o \in Nat /\ e \in Entities
                 /\ e.key_ptr \in Nat /\ e.key_size \in Nat
                 /\ e.val_ptr \in Nat /\ e.val_size \in Nat
                 /\ e.attr \in Attrs
                 /\ RecStart(e) = e.val_ptr
                 /\ RecEnd(e) = e.key_ptr + e.key_size
                 /\ RecEnd(e) = e.val_ptr + entity_rec_sz(e)
                 /\ entity_rec_sz(e) \in Nat
  <2>1. o \in Slots /\ s.itm[o] \in Entities
    BY <1>1 DEF SectTypeOK
  <2>2. o \in Nat
    BY <2>1, SizeAssumption DEF Slots
  <2>3. s.itm[o].val_ptr = RecStart(s.itm[o])
    BY <1>1 DEF ZeroIsFree
  <2> QED BY <2>1, <2>2, <2>3 DEF Entities, RecStart, RecEnd, entity_rec_sz
<1> QED BY <1>2, <1>3, <1>4, <1>5

-----------------------------------------------------------------------------
(* sect_ext_write keeps the invariant.                                     *)

\* What a write that fits did, in the terms the invariant uses.
WriteEffect(s, p, a) ==
    LET t   == sect_ext_write(s, p, EntityInit(p, a))
        k   == Len(p.key)
        v   == Len(p.val)
        lip == s.head.lst_itm_ptr
        frp == s.head.fst_rec_ptr
        kp  == frp - k
        vp  == kp - v
    IN  /\ k \in Nat /\ v \in Nat
        /\ lip + ITM_SIZE <= vp
        /\ t = Sect(t.head, t.disk, t.itm, t.rec)
        /\ t.head = Head3(vp - (lip + ITM_SIZE), lip + ITM_SIZE, vp)
        /\ t.disk = t.head
        /\ lip \notin DOMAIN s.itm
        /\ t.itm = [x \in DOMAIN s.itm \cup {lip} |->
                      IF x = lip THEN Placed(EntityInit(p, a), kp, vp)
                      ELSE s.itm[x]]
        /\ t.rec \in [Addr -> Byte]
        /\ \A b \in Addr :
              t.rec[b] = IF vp <= b /\ b < kp THEN p.val[b - vp + 1]
                         ELSE IF kp <= b /\ b < frp
                              THEN p.key[b - kp + 1]
                              ELSE s.rec[b]

\* A write that fits has that effect.
LEMMA WriteFacts ==
    ASSUME NEW s, Loose(s), NEW p \in Payloads, NEW a \in Attrs,
           CanWrite(s, p)
    PROVE  WriteEffect(s, p, a)
<1> DEFINE t   == sect_ext_write(s, p, EntityInit(p, a))
           k   == Len(p.key)
           v   == Len(p.val)
           h   == s.head
           lip == h.lst_itm_ptr
           frp == h.fst_rec_ptr
           kp  == frp - k
           vp  == kp - v
           g   == Head3(vp - (lip + ITM_SIZE), lip + ITM_SIZE, vp)
           it  == [x \in DOMAIN s.itm \cup {lip} |->
                     IF x = lip THEN Placed(EntityInit(p, a), kp, vp)
                     ELSE s.itm[x]]
           r1  == Overwrite(s.rec, kp, p.key)
           r2  == Overwrite(r1, vp, p.val)
<1>1. /\ p.key \in Seq(Byte) /\ p.val \in Seq(Byte)
      /\ k \in Nat /\ v \in Nat
  BY PayloadAssumption
<1>2. /\ s = Sect(h, s.disk, s.itm, s.rec)
      /\ h \in Heads /\ s.rec \in [Addr -> Byte]
      /\ h.free_space \in Int /\ lip \in Nat /\ frp \in Nat
  BY LooseTypes
<1>3. h.free_space = frp - lip /\ frp <= SECTION_SIZE /\ lip >= HEAD_SIZE
  BY SizeAssumption DEF Loose, HeadOK, Slots
<1>4. lip + ITM_SIZE <= vp
  <2>1. h.free_space >= ITM_SIZE + k + v
    BY DEF CanWrite
  <2> HIDE DEF k, v, lip, frp, h
  <2> QED BY <1>1, <1>2, <1>3, <2>1, SizeAssumption
<1>5. t = Sect(g, g, it, r2)
  <2>1. Head3(h.free_space - k - v - ITM_SIZE, lip + ITM_SIZE, vp) = g
    <3>1. h.free_space - k - v - ITM_SIZE = vp - (lip + ITM_SIZE)
      <4> HIDE DEF k, v, lip, frp, h
      <4> QED BY <1>1, <1>2, <1>3, SizeAssumption
    <3> QED BY <3>1
  <2>2. t = Written(h, s.itm, s.rec, p, EntityInit(p, a))
    <3> HIDE DEF h
    <3> QED BY <1>1, <1>2, WriteOp
  <2>3. Written(h, s.itm, s.rec, p, EntityInit(p, a))
          = Sect(Head3(h.free_space - k - v - ITM_SIZE, lip + ITM_SIZE, vp),
                 Head3(h.free_space - k - v - ITM_SIZE, lip + ITM_SIZE, vp),
                 it, r2)
    BY DEF Written
  <2> QED BY <2>1, <2>2, <2>3
<1>6. lip \notin DOMAIN s.itm
  BY <1>2, LooseTypes, SizeAssumption DEF Loose, FrontiersOK
<1>7. /\ r1 = [b \in Addr |-> IF b >= kp /\ b < kp + k
                              THEN p.key[b - kp + 1] ELSE s.rec[b]]
      /\ r2 = [b \in Addr |-> IF b >= vp /\ b < vp + v
                              THEN p.val[b - vp + 1] ELSE r1[b]]
  BY <1>2 DEF Overwrite
<1>8. ASSUME NEW b \in Addr
      PROVE  /\ r2[b] = IF vp <= b /\ b < kp THEN p.val[b - vp + 1]
                        ELSE IF kp <= b /\ b < frp THEN p.key[b - kp + 1]
                        ELSE s.rec[b]
             /\ r2[b] \in Byte
  <2>1. b \in Int /\ s.rec[b] \in Byte
    BY <1>2, SizeAssumption DEF Addr
  <2>2. vp + v = kp /\ kp + k = frp
    BY <1>1, <1>2
  <2>3. vp <= b /\ b < kp => p.val[b - vp + 1] \in Byte
    <3>1. vp <= b /\ b < kp => b - vp + 1 \in 1..Len(p.val)
      BY <1>1, <1>2, <2>1, <2>2
    <3> QED BY <1>1, <3>1
  <2>4. kp <= b /\ b < frp => p.key[b - kp + 1] \in Byte
    <3>1. kp <= b /\ b < frp => b - kp + 1 \in 1..Len(p.key)
      BY <1>1, <1>2, <2>1, <2>2
    <3> QED BY <1>1, <3>1
  <2>5. r1[b] = IF b >= kp /\ b < frp THEN p.key[b - kp + 1] ELSE s.rec[b]
    BY <1>7, <2>2
  <2>6. r2[b] = IF b >= vp /\ b < kp THEN p.val[b - vp + 1] ELSE r1[b]
    BY <1>7, <2>2
  <2> HIDE DEF r1, r2
  <2> QED BY <1>1, <1>2, <2>1, <2>3, <2>4, <2>5, <2>6
<1>9. r2 \in [Addr -> Byte]
  <2> HIDE DEF r1
  <2> QED BY <1>7, <1>8
<1> HIDE DEF g, it, r2, t
<1>10. t.head = g /\ t.disk = g /\ t.itm = it /\ t.rec = r2
  BY <1>5, Fields
<1>11. t = Sect(t.head, t.disk, t.itm, t.rec) /\ t.disk = t.head
  BY <1>5, <1>10
<1> QED BY <1>1, <1>4, <1>6, <1>8, <1>9, <1>10, <1>11 DEF WriteEffect, g, it, t

\* sect_ext_write keeps the invariant.
LEMMA WriteInv ==
    ASSUME NEW s, SectInv(s), NEW p \in Payloads, NEW a \in Attrs,
           CanWrite(s, p), NoZeroHead
    PROVE  SectInv(sect_ext_write(s, p, EntityInit(p, a)))
<1> DEFINE t   == sect_ext_write(s, p, EntityInit(p, a))
           k   == Len(p.key)
           v   == Len(p.val)
           lip == s.head.lst_itm_ptr
           frp == s.head.fst_rec_ptr
           kp  == frp - k
           vp  == kp - v
           q   == Placed(EntityInit(p, a), kp, vp)
<1>0. Loose(s) /\ Tight(s)
  BY DEF SectInv
<1>e. WriteEffect(s, p, a)
  BY <1>0, WriteFacts
<1>1. /\ k \in Nat /\ v \in Nat /\ lip \in Nat /\ frp \in Nat
      /\ lip + ITM_SIZE <= vp /\ vp \in Nat /\ kp \in Nat
      /\ frp <= SECTION_SIZE /\ lip \in Slots /\ HEAD_SIZE <= lip
  <2>1. k \in Nat /\ v \in Nat /\ lip + ITM_SIZE <= vp
    BY <1>e DEF WriteEffect
  <2>2. lip \in Nat /\ frp \in Nat
    BY <1>0, LooseTypes
  <2>3. frp <= SECTION_SIZE /\ lip \in Slots /\ HEAD_SIZE <= lip
    <3>1. HeadOK(s)
      BY <1>0 DEF Loose
    <3>2. frp <= SECTION_SIZE /\ lip \in Slots
      BY <3>1 DEF HeadOK
    <3> HIDE DEF lip
    <3> QED BY <3>2, SizeAssumption DEF Slots
  <2> HIDE DEF k, v, lip, frp
  <2> QED BY <2>1, <2>2, <2>3, SizeAssumption
<1>2. /\ t = Sect(t.head, t.disk, t.itm, t.rec)
      /\ t.head = Head3(vp - (lip + ITM_SIZE), lip + ITM_SIZE, vp)
      /\ t.disk = t.head
      /\ lip \notin DOMAIN s.itm
      /\ t.itm = [x \in DOMAIN s.itm \cup {lip} |->
                    IF x = lip THEN q ELSE s.itm[x]]
      /\ t.rec \in [Addr -> Byte]
  BY <1>e DEF WriteEffect
<1>3. \A b \in Addr :
         t.rec[b] = IF vp <= b /\ b < kp THEN p.val[b - vp + 1]
                    ELSE IF kp <= b /\ b < frp THEN p.key[b - kp + 1]
                    ELSE s.rec[b]
  BY <1>e DEF WriteEffect
<1>4. /\ q = [key_ptr |-> kp, key_size |-> k, val_ptr |-> vp, val_size |-> v,
              init_rec_sz |-> k + v, attr |-> a]
  BY DEF Placed, EntityInit
<1> HIDE DEF k, v, lip, frp, t, q
<1>5. /\ RecStart(q) = vp /\ RecEnd(q) = frp /\ entity_rec_sz(q) = k + v
      /\ q.val_ptr = vp /\ q \in Entities
  BY <1>1, <1>4 DEF RecStart, RecEnd, entity_rec_sz, Entities
<1>6. /\ DOMAIN t.itm = DOMAIN s.itm \cup {lip}
      /\ t.itm[lip] = q
      /\ \A x \in DOMAIN s.itm : t.itm[x] = s.itm[x] /\ x # lip
  BY <1>2
<1>7. Owners(t) = Owners(s) \cup (IF k + v = 0 THEN {} ELSE {lip})
  BY <1>5, <1>6 DEF Owners
<1>8. /\ t.head.free_space = vp - (lip + ITM_SIZE)
      /\ t.head.lst_itm_ptr = lip + ITM_SIZE
      /\ t.head.fst_rec_ptr = vp
  BY <1>2, Fields
<1>9. lip + ITM_SIZE \in Slots
  BY <1>1, SlotNext, SizeAssumption
<1>10. \A x \in DOMAIN s.itm :
          /\ x \in Nat /\ x \in Slots /\ x + ITM_SIZE <= lip
          /\ s.itm[x] \in Entities
          /\ s.itm[x].val_ptr = RecStart(s.itm[x])
          /\ RecStart(s.itm[x]) \in Nat /\ RecEnd(s.itm[x]) \in Nat
  <2>1. \A x \in DOMAIN s.itm :
          /\ x \in Nat /\ x \in Slots
          /\ s.itm[x] \in Entities
          /\ s.itm[x].val_ptr = RecStart(s.itm[x])
          /\ RecStart(s.itm[x]) \in Nat /\ RecEnd(s.itm[x]) \in Nat
    <3> SUFFICES ASSUME NEW x \in DOMAIN s.itm
                 PROVE  /\ x \in Nat /\ x \in Slots
                        /\ s.itm[x] \in Entities
                        /\ s.itm[x].val_ptr = RecStart(s.itm[x])
                        /\ RecStart(s.itm[x]) \in Nat
                        /\ RecEnd(s.itm[x]) \in Nat
      OBVIOUS
    <3> DEFINE e == s.itm[x]
    <3>1. /\ x \in Nat /\ x \in Slots /\ e \in Entities
          /\ RecStart(e) = e.val_ptr /\ e.val_ptr \in Nat
          /\ RecEnd(e) = e.val_ptr + entity_rec_sz(e)
          /\ entity_rec_sz(e) \in Nat
      BY <1>0, LooseTypes
    <3> HIDE DEF e
    <3>2. /\ x \in Nat /\ x \in Slots /\ e \in Entities
          /\ e.val_ptr = RecStart(e) /\ RecStart(e) \in Nat
          /\ RecEnd(e) \in Nat
      BY <3>1
    <3> QED BY <3>2 DEF e
  <2>2. \A x \in DOMAIN s.itm : x + ITM_SIZE <= lip
    BY <1>0 DEF Loose, FrontiersOK, lip
  <2> QED BY <2>1, <2>2
<1>11. \A x \in Owners(s) :
          /\ frp <= RecStart(s.itm[x]) /\ RecEnd(s.itm[x]) <= SECTION_SIZE
          /\ RecStart(s.itm[x]) < RecEnd(s.itm[x])
          /\ x \in DOMAIN s.itm
  <2>1. \A x \in Owners(s) :
          /\ frp <= RecStart(s.itm[x]) /\ RecEnd(s.itm[x]) <= SECTION_SIZE
          /\ x \in DOMAIN s.itm
    BY <1>0 DEF Loose, FrontiersOK, frp, Owners
  <2>2. ASSUME NEW x \in Owners(s)
        PROVE  RecStart(s.itm[x]) < RecEnd(s.itm[x])
    <3>1. x \in DOMAIN s.itm /\ entity_rec_sz(s.itm[x]) # 0
      BY DEF Owners
    <3>2. /\ RecEnd(s.itm[x]) = RecStart(s.itm[x]) + entity_rec_sz(s.itm[x])
          /\ entity_rec_sz(s.itm[x]) \in Nat
      BY <1>0, <3>1, LooseTypes
    <3> QED BY <1>10, <3>1, <3>2
  <2> QED BY <2>1, <2>2
<1>12. SectTypeOK(t)
  <2>1. t.head \in Heads
    BY <1>1, <1>2, SizeAssumption DEF Heads, Head3
  <2>2. t = [head |-> t.head, disk |-> t.disk, itm |-> t.itm, rec |-> t.rec]
    BY <1>2 DEF Sect
  <2>3. t.itm = [x \in DOMAIN t.itm |-> t.itm[x]]
    BY <1>2
  <2>4. \A x \in DOMAIN t.itm : x \in Slots /\ t.itm[x] \in Entities
    BY <1>1, <1>5, <1>6, <1>10
  <2> QED BY <1>2, <2>1, <2>2, <2>3, <2>4 DEF SectTypeOK
<1>13. HeadOK(t)
  BY <1>1, <1>2, <1>8, <1>9, SizeAssumption DEF HeadOK
<1>14. FrontiersOK(t)
  <2>1. \A x \in DOMAIN t.itm : x + ITM_SIZE <= lip + ITM_SIZE
    BY <1>1, <1>6, <1>10, SizeAssumption
  <2>2. \A x \in Owners(t) : /\ vp <= RecStart(t.itm[x])
                             /\ RecEnd(t.itm[x]) <= SECTION_SIZE
    BY <1>1, <1>5, <1>6, <1>7, <1>10, <1>11
  <2> QED BY <1>8, <2>1, <2>2 DEF FrontiersOK
<1>15. RecordsOrdered(t)
  <2> SUFFICES ASSUME NEW x \in Owners(t), NEW y \in Owners(t), x < y
               PROVE  RecEnd(t.itm[y]) <= RecStart(t.itm[x])
    BY DEF RecordsOrdered
  <2>1. CASE y = lip
    <3>1. x \in Owners(s)
      BY <1>1, <1>7, <2>1
    <3> QED BY <1>5, <1>6, <1>11, <2>1, <3>1
  <2>2. CASE y # lip
    <3>1. y \in Owners(s) /\ y < lip
      BY <1>1, <1>7, <1>10, <1>11, <2>2, SizeAssumption
    <3>2. x \in Owners(s)
      BY <1>1, <1>7, <1>10, <1>11, <3>1
    <3>3. RecEnd(s.itm[y]) <= RecStart(s.itm[x])
      BY <1>0, <3>1, <3>2 DEF Loose, RecordsOrdered
    <3> QED BY <1>6, <1>11, <3>1, <3>2, <3>3
  <2> QED BY <2>1, <2>2
<1>16. ZeroIsFree(t)
  <2>1. \A x \in DOMAIN t.itm : t.itm[x].val_ptr = RecStart(t.itm[x])
    BY <1>5, <1>6, <1>10
  <2>2. ASSUME NEW x \in Owners(t)
        PROVE  t.rec[RecStart(t.itm[x])] # 0
    <3>1. CASE x \in Owners(s)
      <4>1. RecStart(s.itm[x]) \in Addr /\ ~(RecStart(s.itm[x]) < frp)
        BY <1>1, <1>10, <1>11, <3>1, SizeAssumption DEF Addr
      <4>2. s.rec[RecStart(s.itm[x])] # 0
        BY <1>0, <3>1 DEF Loose, ZeroIsFree
      <4>3. ~(RecStart(s.itm[x]) < kp)
        BY <1>1, <1>10, <1>11, <3>1, <4>1
      <4>4. t.rec[RecStart(s.itm[x])] = s.rec[RecStart(s.itm[x])]
        BY <1>3, <4>1, <4>3
      <4> QED BY <1>6, <1>11, <3>1, <4>2, <4>4
    <3>2. CASE x \notin Owners(s)
      <4>1. x = lip /\ k + v # 0
        BY <1>7, <3>2
      <4>2. vp \in Addr /\ vp < frp
        BY <1>1, <4>1, SizeAssumption DEF Addr
      <4>3. p.key \in Seq(Byte) /\ p.val \in Seq(Byte)
        BY PayloadAssumption
      <4>4. CASE v # 0
        <5>1. t.rec[vp] = p.val[1]
          <6>1. vp <= vp /\ vp < kp /\ vp - vp + 1 = 1
            BY <1>1, <4>4
          <6>2. t.rec[vp] = p.val[vp - vp + 1]
            <7> HIDE DEF kp, vp
            <7> QED BY <1>3, <4>2, <6>1
          <6> QED BY <6>1, <6>2
        <5>2. p.val # <<>>
          BY <4>3, <4>4 DEF v
        <5> QED BY <1>5, <1>6, <4>1, <5>1, <5>2 DEF NoZeroHead
      <4>5. CASE v = 0
        <5>1. t.rec[vp] = p.key[1]
          <6>1. vp = kp /\ vp - kp + 1 = 1
            BY <1>1, <4>5
          <6>2. ~(vp <= vp /\ vp < kp) /\ kp <= vp /\ vp < frp
            BY <1>1, <4>2, <6>1
          <6>3. t.rec[vp] = p.key[vp - kp + 1]
            <7> HIDE DEF kp, vp
            <7> QED BY <1>3, <4>2, <6>2
          <6> QED BY <6>1, <6>3
        <5>2. p.val = <<>> /\ p.key # <<>>
          BY <1>1, <4>1, <4>3, <4>5 DEF v, k
        <5> QED BY <1>5, <1>6, <4>1, <5>1, <5>2 DEF NoZeroHead
      <4> QED BY <4>4, <4>5
    <3> QED BY <3>1, <3>2
  <2>3. ASSUME NEW b \in Addr, t.rec[b] # 0
        PROVE  \E x \in Owners(t) : /\ RecStart(t.itm[x]) <= b
                                    /\ b < RecEnd(t.itm[x])
    <3>0. b \in Int
      BY SizeAssumption DEF Addr
    <3>1. CASE vp <= b /\ b < frp
      <4>1. lip \in Owners(t)
        BY <1>1, <1>7, <3>0, <3>1
      <4> QED BY <1>5, <1>6, <3>1, <4>1
    <3>2. CASE ~(vp <= b /\ b < frp)
      <4>1. t.rec[b] = s.rec[b]
        BY <1>1, <1>3, <3>0, <3>2
      <4>2. PICK x \in Owners(s) : /\ RecStart(s.itm[x]) <= b
                                   /\ b < RecEnd(s.itm[x])
        BY <1>0, <2>3, <4>1 DEF Loose, ZeroIsFree
      <4> QED BY <1>6, <1>7, <1>11, <4>2
    <3> QED BY <3>1, <3>2
  <2> QED BY <2>1, <2>2, <2>3 DEF ZeroIsFree
<1>17. Tight(t)
  <2>1. t.head.lst_itm_ptr - ITM_SIZE \in DOMAIN t.itm
    <3>2. t.head.lst_itm_ptr - ITM_SIZE = lip
      BY <1>1, <1>8, SizeAssumption
    <3> QED BY <1>6, <3>2
  <2>2. CASE k + v = 0
    <3>1. vp = frp
      BY <1>1, <2>2
    <3>2. frp = SECTION_SIZE \/ \E x \in Owners(s) : RecStart(s.itm[x]) = frp
      BY <1>0 DEF Tight, frp
    <3> QED BY <1>6, <1>7, <1>8, <1>11, <2>1, <3>1, <3>2 DEF Tight
  <2>3. CASE k + v # 0
    <3>1. lip \in Owners(t)
      BY <1>7, <2>3
    <3> QED BY <1>5, <1>6, <1>8, <2>1, <3>1 DEF Tight
  <2> QED BY <2>2, <2>3
<1> QED BY <1>12, <1>13, <1>14, <1>15, <1>16, <1>17 DEF SectInv, Loose, t

-----------------------------------------------------------------------------
(* The compressions restore tightness and free nothing that is in use.     *)

Compress(m) == sect_head_sync(sect_head_cmprs_frp(sect_head_cmprs_lip(m)))

\* The records of the owners of a loose section.
LEMMA OwnerFacts ==
    ASSUME NEW s, Loose(s), NEW x \in Owners(s)
    PROVE  /\ x \in DOMAIN s.itm /\ x \in Slots /\ x \in Nat
           /\ RecStart(s.itm[x]) \in Nat /\ RecEnd(s.itm[x]) \in Nat
           /\ s.head.fst_rec_ptr <= RecStart(s.itm[x])
           /\ RecStart(s.itm[x]) < RecEnd(s.itm[x])
           /\ RecEnd(s.itm[x]) <= SECTION_SIZE
           /\ RecStart(s.itm[x]) \in Addr
           /\ s.rec[RecStart(s.itm[x])] # 0
<1> DEFINE e == s.itm[x]
<1>1. x \in DOMAIN s.itm /\ entity_rec_sz(e) # 0
  BY DEF Owners
<1>2. /\ x \in Slots /\ x \in Nat
      /\ RecStart(e) = e.val_ptr /\ e.val_ptr \in Nat
      /\ RecEnd(e) = e.val_ptr + entity_rec_sz(e)
      /\ entity_rec_sz(e) \in Nat
  BY <1>1, LooseTypes
<1>3. s.head.fst_rec_ptr <= RecStart(e) /\ RecEnd(e) <= SECTION_SIZE
  BY DEF Loose, FrontiersOK
<1>4. s.rec[RecStart(e)] # 0
  BY DEF Loose, ZeroIsFree
<1>5. /\ s.head.lst_itm_ptr \in Slots
      /\ s.head.lst_itm_ptr <= s.head.fst_rec_ptr
  BY DEF Loose, HeadOK
<1>6. s.head.fst_rec_ptr \in Nat /\ s.head.lst_itm_ptr \in Nat
  BY LooseTypes
<1> HIDE DEF e
<1>7. /\ RecStart(e) \in Nat /\ RecEnd(e) \in Nat
      /\ RecStart(e) < RecEnd(e)
  BY <1>1, <1>2
<1>8. HEAD_SIZE <= s.head.lst_itm_ptr
  BY <1>5, SizeAssumption DEF Slots
<1>9. RecStart(e) \in Addr
  BY <1>3, <1>5, <1>6, <1>7, <1>8, SizeAssumption DEF Addr
<1> QED BY <1>1, <1>2, <1>3, <1>4, <1>7, <1>9 DEF e

\* Compressing a loose section makes it tight and touches no data.
LEMMA CompressInv ==
    ASSUME NEW m, Loose(m)
    PROVE  /\ SectInv(Compress(m))
           /\ Compress(m).itm = m.itm /\ Compress(m).rec = m.rec
<1> DEFINE t   == sect_head_cmprs_frp(sect_head_cmprs_lip(m))
           l   == t.head.lst_itm_ptr
           f   == t.head.fst_rec_ptr
           frp == m.head.fst_rec_ptr
<1>1. /\ m = Sect(m.head, m.disk, m.itm, m.rec) /\ m.head \in Heads
      /\ m.head.lst_itm_ptr \in Nat /\ frp \in Nat
  BY LooseTypes
<1>2. HeadOK(m) /\ m.head.lst_itm_ptr \in Slots
  BY DEF Loose, HeadOK
<1>3. Compressed(m, t)
  BY <1>1, <1>2, CompressOp
<1> HIDE DEF t
<1>4. /\ t = Sect(t.head, t.disk, t.itm, t.rec)
      /\ t.itm = m.itm /\ t.rec = m.rec
      /\ t.head \in Heads /\ HeadOK(t)
      /\ f \in Nat /\ frp <= f
      /\ l = HEAD_SIZE \/ l - ITM_SIZE \in DOMAIN m.itm
  BY <1>3 DEF Compressed
<1>5. \A o \in DOMAIN m.itm :
         o \in Slots /\ o + ITM_SIZE <= m.head.lst_itm_ptr
            => o + ITM_SIZE <= l
  BY <1>3 DEF Compressed
<1>6. /\ f = SECTION_SIZE \/ m.rec[f] # 0
      /\ \A b \in Nat : frp <= b /\ b < SECTION_SIZE /\ m.rec[b] # 0 => f <= b
  BY <1>3 DEF Compressed
<1>7. HEAD_SIZE <= frp
  BY <1>1, <1>2, SizeAssumption DEF HeadOK, Slots
<1>8. f <= SECTION_SIZE /\ t.disk = t.head
  BY <1>4 DEF HeadOK
<1> HIDE DEF l, f, frp
<1>12. Compress(m) = t
  BY <1>4, <1>8, SyncOp DEF Compress, t
<1>14. Owners(t) = Owners(m)
  BY <1>4 DEF Owners
<1>15. SectTypeOK(t)
  <2>1. SectTypeOK(m)
    BY DEF Loose
  <2>2. t = [head |-> t.head, disk |-> t.disk, itm |-> t.itm, rec |-> t.rec]
    BY <1>4 DEF Sect
  <2> QED BY <1>4, <1>8, <2>1, <2>2 DEF SectTypeOK
<1>16. HeadOK(t)
  BY <1>4
<1>17. ASSUME NEW x \in Owners(m)
       PROVE  f <= RecStart(m.itm[x])
  <2>1. /\ RecStart(m.itm[x]) \in Nat
        /\ frp <= RecStart(m.itm[x]) /\ RecStart(m.itm[x]) < SECTION_SIZE
        /\ m.rec[RecStart(m.itm[x])] # 0
    <3>1. /\ RecStart(m.itm[x]) \in Nat /\ RecEnd(m.itm[x]) \in Nat
          /\ frp <= RecStart(m.itm[x])
          /\ RecStart(m.itm[x]) < RecEnd(m.itm[x])
          /\ RecEnd(m.itm[x]) <= SECTION_SIZE
          /\ m.rec[RecStart(m.itm[x])] # 0
      BY OwnerFacts DEF frp
    <3> QED BY <3>1, SizeAssumption
  <2> QED BY <1>6, <2>1
<1>18. FrontiersOK(t)
  <2>1. FrontiersOK(m) /\ \A x \in DOMAIN m.itm : x \in Slots
    BY DEF Loose, SectTypeOK
  <2>2. \A x \in DOMAIN m.itm : x + ITM_SIZE <= l
    BY <1>5, <2>1 DEF FrontiersOK
  <2>3. \A x \in Owners(m) : RecEnd(m.itm[x]) <= SECTION_SIZE
    BY <2>1 DEF FrontiersOK
  <2> QED BY <1>4, <1>14, <1>17, <2>2, <2>3 DEF FrontiersOK, l, f
<1>19. RecordsOrdered(t) /\ ZeroIsFree(t)
  BY <1>4, <1>14 DEF Loose, RecordsOrdered, ZeroIsFree
<1>20. Tight(t)
  <2>1. f # SECTION_SIZE => \E x \in Owners(m) : RecStart(m.itm[x]) = f
    <3> SUFFICES ASSUME f # SECTION_SIZE
                 PROVE  \E x \in Owners(m) : RecStart(m.itm[x]) = f
      OBVIOUS
    <3>1. f \in Addr
      BY <1>1, <1>4, <1>7, <1>8, SizeAssumption DEF Addr
    <3>2. PICK x \in Owners(m) : /\ RecStart(m.itm[x]) <= f
                                 /\ f < RecEnd(m.itm[x])
      BY <1>6, <3>1 DEF Loose, ZeroIsFree
    <3>3. RecStart(m.itm[x]) \in Nat
      BY OwnerFacts
    <3>4. RecStart(m.itm[x]) = f
      BY <1>4, <1>17, <3>2, <3>3
    <3> QED BY <3>4
  <2> QED BY <1>4, <1>14, <2>1 DEF Tight, l, f
<1>21. SectInv(t)
  BY <1>15, <1>16, <1>18, <1>19, <1>20 DEF SectInv, Loose
<1> QED BY <1>4, <1>12, <1>21

-----------------------------------------------------------------------------
(* sect_ext_delete: the section before the compressions, then the whole.   *)

\* The header sect_ext_delete compresses.
MidHead(s, o) ==
    LET n == entity_rec_sz(sect_ext_rd_itm(s, o))
    IN  IF o + ITM_SIZE = s.head.lst_itm_ptr
        THEN Head3(s.head.free_space + ITM_SIZE + n,
                   s.head.lst_itm_ptr - ITM_SIZE, s.head.fst_rec_ptr + n)
        ELSE s.head

\* The bytes with the deleted record zeroed.
MidRec(s, o) ==
    LET e == sect_ext_rd_itm(s, o)
    IN  [b \in Addr |-> IF RecStart(e) <= b /\ b < RecEnd(e)
                        THEN 0 ELSE s.rec[b]]

Mid(s, o) == Sect(MidHead(s, o), MidHead(s, o),
                  [x \in DOMAIN s.itm \ {o} |-> s.itm[x]], MidRec(s, o))

\* The entity that sect_ext_delete reads, live or zeroed.
LEMMA DeletedEntity ==
    ASSUME NEW s, Loose(s), NEW o
    PROVE  LET e == sect_ext_rd_itm(s, o) IN
           /\ e.key_ptr \in Nat /\ e.key_size \in Nat /\ e.val_size \in Nat
           /\ entity_rec_sz(e) \in Nat
           /\ RecStart(e) \in Nat
           /\ RecEnd(e) = RecStart(e) + entity_rec_sz(e)
           /\ o \in DOMAIN s.itm => e = s.itm[o]
           /\ o \notin DOMAIN s.itm => entity_rec_sz(e) = 0
<1> DEFINE e == sect_ext_rd_itm(s, o)
<1>1. CASE o \in DOMAIN s.itm
  <2>1. e = s.itm[o]
    BY <1>1 DEF sect_ext_rd_itm
  <2>2. /\ s.itm[o].key_ptr \in Nat /\ s.itm[o].key_size \in Nat
        /\ s.itm[o].val_size \in Nat /\ s.itm[o].val_ptr \in Nat
        /\ RecStart(s.itm[o]) = s.itm[o].val_ptr
        /\ RecEnd(s.itm[o]) = s.itm[o].val_ptr + entity_rec_sz(s.itm[o])
        /\ entity_rec_sz(s.itm[o]) \in Nat
    BY <1>1, LooseTypes
  <2> HIDE DEF e
  <2>3. /\ e.key_ptr \in Nat /\ e.key_size \in Nat /\ e.val_size \in Nat
        /\ entity_rec_sz(e) \in Nat /\ RecStart(e) \in Nat
        /\ RecEnd(e) = RecStart(e) + entity_rec_sz(e)
    BY <2>1, <2>2
  <2> QED BY <1>1, <2>1, <2>3 DEF e
<1>2. CASE o \notin DOMAIN s.itm
  <2>1. e = ZeroEntity
    BY <1>2 DEF sect_ext_rd_itm
  <2> HIDE DEF e
  <2>2. /\ e.key_ptr = 0 /\ e.key_size = 0 /\ e.val_size = 0
    BY <2>1 DEF ZeroEntity
  <2>3. entity_rec_sz(e) = 0 /\ RecStart(e) = 0 /\ RecEnd(e) = 0
    BY <2>2 DEF entity_rec_sz, RecStart, RecEnd
  <2> QED BY <1>2, <2>2, <2>3 DEF e
<1> QED BY <1>1, <1>2

\* sect_ext_delete is Mid followed by the compressions.
LEMMA DeleteOp ==
    ASSUME NEW s, Loose(s), NEW o \in Nat
    PROVE  sect_ext_delete(s, o) = Compress(Mid(s, o))
<1> DEFINE e  == sect_ext_rd_itm(s, o)
           n  == entity_rec_sz(e)
           h  == s.head
           g  == MidHead(s, o)
           up == Head3(h.free_space - (-ITM_SIZE), h.lst_itm_ptr + (-ITM_SIZE),
                       h.fst_rec_ptr)
           s0 == sect_head_shift_lip(s, -ITM_SIZE)
           s1 == IF o + ITM_SIZE = h.lst_itm_ptr
                 THEN sect_head_shift_frp(s0, n) ELSE s
           zr == [i \in 1..n |-> 0]
           st == e.key_ptr - e.val_size
           s2 == sect_head_write(s1, st, zr)
           s3 == ClearItm(s2, o)
<1>1. /\ s = Sect(h, h, s.itm, s.rec) /\ s.rec \in [Addr -> Byte]
      /\ h.free_space \in Int /\ h.lst_itm_ptr \in Nat
      /\ h.fst_rec_ptr \in Nat /\ h \in Heads
  BY LooseTypes
<1>2. /\ n \in Nat /\ st \in Nat /\ st = RecStart(e) /\ RecEnd(e) = st + n
  BY DeletedEntity DEF RecStart
<1> HIDE DEF e, n, st
<1>3. s1 = Sect(g, g, s.itm, s.rec)
  <2>1. CASE o + ITM_SIZE = h.lst_itm_ptr
    <3>1. s0 = Sect(up, up, s.itm, s.rec)
      <4> HIDE DEF h
      <4> QED BY <1>1, ShiftLipOp
    <3>2. g = Head3(up.free_space + n, up.lst_itm_ptr, up.fst_rec_ptr + n)
      <4>1. g = Head3(h.free_space + ITM_SIZE + n,
                      h.lst_itm_ptr - ITM_SIZE, h.fst_rec_ptr + n)
        BY <2>1 DEF MidHead, n, e
      <4>2. /\ up.free_space = h.free_space + ITM_SIZE
            /\ up.lst_itm_ptr = h.lst_itm_ptr - ITM_SIZE
            /\ up.fst_rec_ptr = h.fst_rec_ptr
        BY <1>1, SizeAssumption DEF Head3
      <4> QED BY <4>1, <4>2
    <3> HIDE DEF up, g, s0
    <3>3. sect_head_shift_frp(s0, n) = Sect(g, g, s.itm, s.rec)
      BY <3>1, <3>2, ShiftFrpOp
    <3> QED BY <2>1, <3>3
  <2>2. CASE o + ITM_SIZE # h.lst_itm_ptr
    <3>1. g = h
      BY <2>2 DEF MidHead
    <3> HIDE DEF g, h
    <3> QED BY <1>1, <2>2, <3>1
  <2> QED BY <2>1, <2>2
<1> HIDE DEF g, s1
<1>4. Overwrite(s.rec, st, zr) = MidRec(s, o)
  <2>1. DOMAIN s.rec = Addr
    BY <1>1
  <2>2. Len(zr) = n
    BY <1>2
  <2>3. \A b \in Addr : b \in Int
    BY SizeAssumption DEF Addr
  <2>4. ASSUME NEW b \in Addr
        PROVE  (IF b >= st /\ b < st + Len(zr) THEN zr[b - st + 1] ELSE s.rec[b])
                 = (IF RecStart(e) <= b /\ b < RecEnd(e) THEN 0 ELSE s.rec[b])
    <3>1. b >= st /\ b < st + n => b - st + 1 \in 1..n
      BY <1>2, <2>3
    <3>2. b >= st /\ b < st + n => zr[b - st + 1] = 0
      BY <3>1
    <3> HIDE DEF zr
    <3> QED BY <1>2, <2>2, <2>3, <3>2
  <2>5. Overwrite(s.rec, st, zr)
          = [b \in Addr |-> IF b >= st /\ b < st + Len(zr)
                            THEN zr[b - st + 1] ELSE s.rec[b]]
    BY <2>1 DEF Overwrite
  <2>6. MidRec(s, o) = [b \in Addr |-> IF RecStart(e) <= b /\ b < RecEnd(e)
                                       THEN 0 ELSE s.rec[b]]
    BY DEF MidRec, e
  <2> HIDE DEF zr
  <2> QED BY <2>4, <2>5, <2>6
<1> HIDE DEF zr
<1>5. s2 = Sect(g, g, s.itm, MidRec(s, o))
  BY <1>3, <1>4, WriteBytesOp
<1> HIDE DEF s2
<1>6. s3 = Mid(s, o)
  <2>1. Mid(s, o) = Sect(g, g, [x \in DOMAIN s.itm \ {o} |-> s.itm[x]],
                         MidRec(s, o))
    BY DEF Mid, g
  <2>2. s3 = Sect(g, g, [x \in DOMAIN s.itm \ {o} |-> s.itm[x]],
                  MidRec(s, o))
    <3> DEFINE r == MidRec(s, o)
    <3>1. s2 = Sect(g, g, s.itm, r)
      BY <1>5
    <3> HIDE DEF r
    <3>2. ClearItm(Sect(g, g, s.itm, r), o)
            = Sect(g, g, [x \in DOMAIN s.itm \ {o} |-> s.itm[x]], r)
      BY DEF ClearItm, Restrict, Sect
    <3> QED BY <3>1, <3>2 DEF r
  <2> QED BY <2>1, <2>2
<1>7. sect_ext_delete(s, o) = Compress(s3)
  BY DEF sect_ext_delete, Compress, s2, s1, zr, st, n, e
<1> QED BY <1>6, <1>7

\* Before the compressions the section is loose: the border shift of a
\* delete frees the record of the last item and nothing else.
LEMMA MidInv ==
    ASSUME NEW s, SectInv(s), NEW o \in Slots
    PROVE  Loose(Mid(s, o))
<1> DEFINE e   == sect_ext_rd_itm(s, o)
           n   == entity_rec_sz(e)
           h   == s.head
           lip == h.lst_itm_ptr
           frp == h.fst_rec_ptr
           g   == MidHead(s, o)
           m   == Mid(s, o)
<1>0. Loose(s) /\ Tight(s)
  BY DEF SectInv
<1>1. /\ lip \in Nat /\ frp \in Nat /\ h.free_space \in Int /\ h \in Heads
      /\ s.rec \in [Addr -> Byte]
  BY <1>0, LooseTypes
<1>2. /\ lip \in Slots /\ lip <= frp /\ frp <= SECTION_SIZE
      /\ h.free_space = frp - lip
  BY <1>0 DEF Loose, HeadOK
<1>3. /\ n \in Nat /\ RecStart(e) \in Nat /\ RecEnd(e) = RecStart(e) + n
      /\ o \in DOMAIN s.itm => e = s.itm[o]
      /\ o \notin DOMAIN s.itm => n = 0
  BY <1>0, DeletedEntity
<1>4. o \in Nat /\ HEAD_SIZE <= o
  BY SizeAssumption DEF Slots
<1>5. \A x \in DOMAIN s.itm : /\ x \in Nat /\ x \in Slots
                              /\ x + ITM_SIZE <= lip
                              /\ s.itm[x] \in Entities
  <2>1. \A x \in DOMAIN s.itm : x \in Nat /\ x \in Slots /\ s.itm[x] \in Entities
    BY <1>0, LooseTypes
  <2> QED BY <1>0, <2>1 DEF Loose, FrontiersOK
<1>6. /\ m.head = g /\ m.disk = g
      /\ m.itm = [x \in DOMAIN s.itm \ {o} |-> s.itm[x]]
      /\ m.rec = MidRec(s, o)
      /\ m = [head |-> m.head, disk |-> m.disk, itm |-> m.itm, rec |-> m.rec]
  BY DEF Mid, Sect
<1>7. \A b \in Addr : m.rec[b] = IF RecStart(e) <= b /\ b < RecEnd(e)
                                 THEN 0 ELSE s.rec[b]
  BY <1>6 DEF MidRec
<1>8. m.rec \in [Addr -> Byte]
  BY <1>1, <1>6 DEF MidRec, Byte
<1> HIDE DEF e, n, m
<1>9. /\ DOMAIN m.itm = DOMAIN s.itm \ {o}
      /\ \A x \in DOMAIN m.itm : m.itm[x] = s.itm[x]
  BY <1>6
<1>10. Owners(m) = Owners(s) \ {o}
  BY <1>9 DEF Owners
<1>11. /\ g \in Heads /\ g.lst_itm_ptr \in Slots
       /\ g.lst_itm_ptr <= g.fst_rec_ptr /\ g.fst_rec_ptr <= SECTION_SIZE
       /\ g.free_space = g.fst_rec_ptr - g.lst_itm_ptr
       /\ \A x \in DOMAIN m.itm : x + ITM_SIZE <= g.lst_itm_ptr
       /\ \A x \in Owners(m) : g.fst_rec_ptr <= RecStart(s.itm[x])
  <2>1. CASE o + ITM_SIZE # lip
    <3>1. g = h
      BY <2>1 DEF MidHead
    <3>2. \A x \in Owners(m) : frp <= RecStart(s.itm[x])
      BY <1>0, <1>10, OwnerFacts
    <3> HIDE DEF g
    <3> QED BY <1>1, <1>2, <1>5, <1>9, <3>1, <3>2
  <2>2. CASE o + ITM_SIZE = lip
    <3>1. g = Head3(h.free_space + ITM_SIZE + n, lip - ITM_SIZE, frp + n)
      BY <2>2 DEF MidHead, n, e
    <3>2. /\ g.free_space = h.free_space + ITM_SIZE + n
          /\ g.lst_itm_ptr = o
          /\ g.fst_rec_ptr = frp + n
          /\ g \in Heads
      BY <1>1, <1>3, <1>4, <2>2, <3>1, SizeAssumption DEF Head3, Heads
    <3>3. \A x \in DOMAIN m.itm : x < o
      <4> SUFFICES ASSUME NEW x \in DOMAIN m.itm, ~(x < o)
                   PROVE  FALSE
        OBVIOUS
      <4>1. x \in Nat /\ x \in Slots /\ x + ITM_SIZE <= lip /\ x # o
        BY <1>5, <1>9
      <4>2. o + ITM_SIZE <= x
        BY <1>4, <4>1, SlotSpacing
      <4> QED BY <1>4, <2>2, <4>1, <4>2, SizeAssumption
    <3>4. \A x \in DOMAIN m.itm : x + ITM_SIZE <= o
      BY <1>5, <1>9, <3>3, SlotSpacing
    <3>5. CASE n = 0
      <4>1. \A x \in Owners(m) : frp <= RecStart(s.itm[x])
        BY <1>0, <1>10, OwnerFacts
      <4> HIDE DEF g
      <4> QED BY <1>1, <1>2, <1>4, <2>2, <3>2, <3>4, <3>5, <4>1, SizeAssumption
    <3>6. CASE n # 0
      <4>1. o \in Owners(s) /\ e = s.itm[o]
        BY <1>3, <3>6 DEF Owners, n
      <4>2. /\ frp <= RecStart(e) /\ RecEnd(e) <= SECTION_SIZE
        BY <1>0, <4>1, OwnerFacts
      <4>3. ASSUME NEW x \in Owners(m)
            PROVE  frp + n <= RecStart(s.itm[x])
        <5>1. x \in Owners(s) /\ x < o
          BY <1>10, <3>3 DEF Owners
        <5>2. RecEnd(e) <= RecStart(s.itm[x])
          BY <1>0, <4>1, <5>1 DEF Loose, RecordsOrdered
        <5>3. RecStart(s.itm[x]) \in Nat
          BY <1>0, <5>1, OwnerFacts
        <5> QED BY <1>1, <1>3, <4>2, <5>2, <5>3
      <4>4. frp + n <= SECTION_SIZE
        BY <1>1, <1>3, <4>2, SizeAssumption
      <4> HIDE DEF g
      <4> QED BY <1>1, <1>2, <1>3, <1>4, <2>2, <3>2, <3>4, <4>3, <4>4, SizeAssumption
    <3> QED BY <3>5, <3>6
  <2> QED BY <2>1, <2>2
<1> HIDE DEF g
<1>12. SectTypeOK(m)
  <2>1. m.itm = [x \in DOMAIN m.itm |-> m.itm[x]]
    BY <1>6, <1>9
  <2> QED BY <1>5, <1>6, <1>8, <1>9, <1>11, <2>1 DEF SectTypeOK
<1>13. HeadOK(m)
  BY <1>6, <1>11 DEF HeadOK
<1>14. \A x \in Owners(m) : /\ x \in Owners(s) /\ x # o
                            /\ m.itm[x] = s.itm[x]
  BY <1>9, <1>10 DEF Owners
<1>15. FrontiersOK(m)
  <2>1. \A x \in Owners(m) : RecEnd(m.itm[x]) <= SECTION_SIZE
    BY <1>0, <1>14, OwnerFacts
  <2> QED BY <1>6, <1>11, <1>14, <2>1 DEF FrontiersOK
<1>16. RecordsOrdered(m)
  BY <1>0, <1>14 DEF Loose, RecordsOrdered
<1>17. ASSUME NEW x \in Owners(m), NEW b \in Int,
              RecStart(s.itm[x]) <= b, b < RecEnd(s.itm[x])
       PROVE  ~(RecStart(e) <= b /\ b < RecEnd(e))
  <2>1. /\ x \in Owners(s) /\ x # o /\ x \in Nat
        /\ RecStart(s.itm[x]) \in Nat /\ RecEnd(s.itm[x]) \in Nat
    BY <1>0, <1>14, OwnerFacts
  <2>2. CASE n = 0
    BY <1>3, <2>2
  <2>3. CASE n # 0
    <3>1. o \in Owners(s) /\ e = s.itm[o]
      BY <1>3, <2>3 DEF Owners, n
    <3>2. \/ RecEnd(e) <= RecStart(s.itm[x])
          \/ RecEnd(s.itm[x]) <= RecStart(e)
      <4>1. CASE x < o
        BY <1>0, <2>1, <3>1, <4>1 DEF Loose, RecordsOrdered
      <4>2. CASE o < x
        BY <1>0, <2>1, <3>1, <4>2 DEF Loose, RecordsOrdered
      <4> QED BY <1>4, <2>1, <4>1, <4>2
    <3> QED BY <1>3, <1>17, <2>1, <3>2
  <2> QED BY <2>2, <2>3
<1>18. ZeroIsFree(m)
  <2>1. \A x \in DOMAIN m.itm : m.itm[x].val_ptr = RecStart(m.itm[x])
    BY <1>0, <1>9 DEF Loose, ZeroIsFree
  <2>2. ASSUME NEW x \in Owners(m)
        PROVE  m.rec[RecStart(m.itm[x])] # 0
    <3>1. /\ RecStart(s.itm[x]) \in Nat /\ RecEnd(s.itm[x]) \in Nat
          /\ RecStart(s.itm[x]) < RecEnd(s.itm[x])
          /\ RecStart(s.itm[x]) \in Addr
          /\ s.rec[RecStart(s.itm[x])] # 0
      BY <1>0, <1>14, OwnerFacts
    <3>2. ~(RecStart(e) <= RecStart(s.itm[x]) /\ RecStart(s.itm[x]) < RecEnd(e))
      BY <1>17, <3>1
    <3> QED BY <1>7, <1>14, <3>1, <3>2
  <2>3. ASSUME NEW b \in Addr, m.rec[b] # 0
        PROVE  \E x \in Owners(m) : /\ RecStart(m.itm[x]) <= b
                                    /\ b < RecEnd(m.itm[x])
    <3>1. ~(RecStart(e) <= b /\ b < RecEnd(e)) /\ s.rec[b] # 0
      BY <1>7, <2>3
    <3>2. PICK x \in Owners(s) : /\ RecStart(s.itm[x]) <= b
                                 /\ b < RecEnd(s.itm[x])
      BY <1>0, <3>1 DEF Loose, ZeroIsFree
    <3>3. x # o
      BY <1>3, <3>1, <3>2 DEF Owners
    <3> QED BY <1>10, <1>14, <3>2, <3>3
  <2> QED BY <2>1, <2>2, <2>3 DEF ZeroIsFree
<1> QED BY <1>12, <1>13, <1>15, <1>16, <1>18 DEF Loose, m

\* sect_ext_delete, of a live or of a dead slot, keeps the invariant, removes
\* that slot's item and zeroes that record's bytes.
LEMMA DeleteInv ==
    ASSUME NEW s, SectInv(s), NEW o \in Slots
    PROVE  LET t == sect_ext_delete(s, o)
               e == sect_ext_rd_itm(s, o)
           IN  /\ SectInv(t)
               /\ t.itm = [x \in DOMAIN s.itm \ {o} |-> s.itm[x]]
               /\ \A b \in Addr : t.rec[b] =
                     IF RecStart(e) <= b /\ b < RecEnd(e) THEN 0 ELSE s.rec[b]
<1>1. Loose(s) /\ o \in Nat
  BY SizeAssumption DEF SectInv, Slots
<1>2. sect_ext_delete(s, o) = Compress(Mid(s, o))
  BY <1>1, DeleteOp
<1>3. Loose(Mid(s, o))
  BY MidInv
<1>4. /\ SectInv(Compress(Mid(s, o)))
      /\ Compress(Mid(s, o)).itm = Mid(s, o).itm
      /\ Compress(Mid(s, o)).rec = Mid(s, o).rec
  BY <1>3, CompressInv
<1>5. /\ Mid(s, o).itm = [x \in DOMAIN s.itm \ {o} |-> s.itm[x]]
      /\ Mid(s, o).rec = MidRec(s, o)
  BY DEF Mid, Sect
<1> QED BY <1>2, <1>4, <1>5 DEF MidRec

-----------------------------------------------------------------------------
(* The remaining actions.                                                  *)

\* A new section satisfies the invariant.
LEMMA CtorInv == SectInv(sect_head_ctor)
<1> DEFINE h == Head3(SECTION_SIZE - HEAD_SIZE, HEAD_SIZE, SECTION_SIZE)
           t == sect_head_ctor
<1>1. /\ t.head = h /\ t.disk = h /\ t.itm = [o \in {} |-> 0]
      /\ t.rec = [b \in Addr |-> 0]
      /\ t = [head |-> t.head, disk |-> t.disk, itm |-> t.itm, rec |-> t.rec]
  BY DEF sect_head_ctor
<1>2. /\ h.free_space = SECTION_SIZE - HEAD_SIZE /\ h.lst_itm_ptr = HEAD_SIZE
      /\ h.fst_rec_ptr = SECTION_SIZE /\ h \in Heads
  BY SizeAssumption DEF Head3, Heads
<1> HIDE DEF h, t
<1>3. DOMAIN t.itm = {} /\ Owners(t) = {}
  BY <1>1 DEF Owners
<1>4. SectTypeOK(t)
  BY <1>1, <1>2, <1>3 DEF SectTypeOK, Byte
<1>5. HeadOK(t)
  BY <1>1, <1>2, SlotFirst, SizeAssumption DEF HeadOK
<1>6. FrontiersOK(t) /\ RecordsOrdered(t) /\ Tight(t)
  BY <1>1, <1>2, <1>3 DEF FrontiersOK, RecordsOrdered, Tight
<1>7. ZeroIsFree(t)
  BY <1>1, <1>3 DEF ZeroIsFree
<1> QED BY <1>4, <1>5, <1>6, <1>7 DEF SectInv, Loose, t

\* Rewriting the links of a live entity keeps the invariant; it changes
\* that entity's attributes and nothing else.
LEMMA RelinkInv ==
    ASSUME NEW s, SectInv(s), NEW o \in DOMAIN s.itm, NEW a \in Attrs
    PROVE  LET t == sect_ext_wrt_itm(s, o, [s.itm[o] EXCEPT !.attr = a])
           IN  /\ SectInv(t)
               /\ DOMAIN t.itm = DOMAIN s.itm
               /\ t.itm[o] = [s.itm[o] EXCEPT !.attr = a]
               /\ \A x \in DOMAIN s.itm : x # o => t.itm[x] = s.itm[x]
               /\ t.rec = s.rec
<1> DEFINE e == s.itm[o]
           q == [e EXCEPT !.attr = a]
           t == sect_ext_wrt_itm(s, o, q)
           it == [x \in DOMAIN s.itm \cup {o} |-> IF x = o THEN q ELSE s.itm[x]]
<1>0. Loose(s) /\ Tight(s)
  BY DEF SectInv
<1>1. /\ s = Sect(s.head, s.disk, s.itm, s.rec) /\ e \in Entities
  BY <1>0, LooseTypes
<1>2. /\ q \in Entities /\ RecStart(q) = RecStart(e) /\ RecEnd(q) = RecEnd(e)
      /\ entity_rec_sz(q) = entity_rec_sz(e) /\ q.val_ptr = e.val_ptr
  BY <1>1 DEF Entities, RecStart, RecEnd, entity_rec_sz
<1> HIDE DEF q
<1>3. t = Sect(s.head, s.disk, it, s.rec)
  <2>1. WriteItm(Sect(s.head, s.disk, s.itm, s.rec), o, q)
          = Sect(s.head, s.disk, it, s.rec)
    BY DEF WriteItm, Sect
  <2> QED BY <1>1, <2>1 DEF sect_ext_wrt_itm
<1>4. /\ t.head = s.head /\ t.disk = s.disk /\ t.rec = s.rec /\ t.itm = it
      /\ t = [head |-> t.head, disk |-> t.disk, itm |-> t.itm, rec |-> t.rec]
  BY <1>3 DEF Sect
<1>5. /\ DOMAIN t.itm = DOMAIN s.itm /\ t.itm[o] = q
      /\ \A x \in DOMAIN s.itm : x # o => t.itm[x] = s.itm[x]
      /\ t.itm = [x \in DOMAIN t.itm |-> t.itm[x]]
  BY <1>4
<1> HIDE DEF t
<1>6. \A x \in DOMAIN s.itm :
         /\ RecStart(t.itm[x]) = RecStart(s.itm[x])
         /\ RecEnd(t.itm[x]) = RecEnd(s.itm[x])
         /\ entity_rec_sz(t.itm[x]) = entity_rec_sz(s.itm[x])
         /\ t.itm[x].val_ptr = s.itm[x].val_ptr
         /\ s.itm[x] \in Entities => t.itm[x] \in Entities
  BY <1>2, <1>5
<1> HIDE DEF e
<1>7. Owners(t) = Owners(s) /\ Owners(s) \subseteq DOMAIN s.itm
  BY <1>5, <1>6 DEF Owners
<1>8. SectTypeOK(t)
  BY <1>0, <1>4, <1>5, <1>6 DEF Loose, SectTypeOK
<1>9. HeadOK(t)
  BY <1>0, <1>4 DEF Loose, HeadOK
<1>10. FrontiersOK(t)
  BY <1>0, <1>4, <1>5, <1>6, <1>7 DEF Loose, FrontiersOK
<1>11. RecordsOrdered(t)
  BY <1>0, <1>6, <1>7 DEF Loose, RecordsOrdered
<1>12. ZeroIsFree(t)
  BY <1>0, <1>4, <1>5, <1>6, <1>7 DEF Loose, ZeroIsFree
<1>13. Tight(t)
  BY <1>0, <1>4, <1>5, <1>6, <1>7 DEF Tight
<1>14. SectInv(t)
  BY <1>8, <1>9, <1>10, <1>11, <1>12, <1>13 DEF SectInv, Loose
<1> QED BY <1>4, <1>5, <1>14 DEF t, q, e

\* A sync of a section whose header is already on disk changes nothing.
LEMMA SyncSame ==
    ASSUME NEW s, SectInv(s)
    PROVE  sect_head_sync(s) = s
<1>1. s = Sect(s.head, s.disk, s.itm, s.rec) /\ s.disk = s.head
  BY LooseTypes DEF SectInv
<1> QED BY <1>1, SyncOp

\* Every step of the specification keeps the invariant.
LEMMA NextInv ==
    ASSUME NoZeroHead, SectInv(sect), [Next]_sect
    PROVE  SectInv(sect')
<1>1. CASE UNCHANGED sect
  BY <1>1
<1>2. ASSUME NEW p \in Payloads, WriteFails(p)
      PROVE  SectInv(sect')
  BY <1>2 DEF WriteFails
<1>3. ASSUME NEW p \in Payloads, NEW a \in Attrs, Write(p, a)
      PROVE  SectInv(sect')
  BY <1>3, WriteInv DEF Write
<1>4. ASSUME NEW o \in Slots, Delete(o)
      PROVE  SectInv(sect')
  BY <1>4, DeleteInv DEF Delete
<1>5. ASSUME NEW o \in Slots, Read(o)
      PROVE  SectInv(sect')
  BY <1>5, SyncSame DEF Read
<1>6. ASSUME NEW o \in Slots, NEW a \in Attrs, Relink(o, a)
      PROVE  SectInv(sect')
  BY <1>6, RelinkInv DEF Relink
<1> QED BY <1>1, <1>2, <1>3, <1>4, <1>5, <1>6 DEF Next

-----------------------------------------------------------------------------
(* The theorems.                                                           *)

\* The inductive invariant holds in every reachable state.
THEOREM Invariant ==
    ASSUME NoZeroHead
    PROVE  Spec => []SectInv(sect)
<1>1. Init => SectInv(sect)
  BY CtorInv DEF Init
<1>2. SectInv(sect) /\ [Next]_sect => SectInv(sect)'
  BY NextInv
<1> QED BY <1>1, <1>2, PTL DEF Spec

\* Type correctness.
THEOREM TypeCorrect ==
    ASSUME NoZeroHead
    PROVE  Spec => []TypeOK
<1>1. SectInv(sect) => TypeOK
  BY DEF SectInv, Loose, TypeOK
<1> QED BY <1>1, Invariant, PTL

\* header.c keeps its three counters consistent and on disk.
THEOREM HeaderStaysCoherent ==
    ASSUME NoZeroHead
    PROVE  Spec => []HeaderCoherent
<1>1. SectInv(sect) => HeaderCoherent
  BY DEF SectInv, Loose, HeaderCoherent
<1> QED BY <1>1, Invariant, PTL

\* No write or delete frees or overlaps a live record.
THEOREM LayoutStaysSafe ==
    ASSUME NoZeroHead
    PROVE  Spec => []LayoutSafe
<1>1. SectInv(sect) => LayoutSafe
  BY DEF SectInv, Loose, LayoutSafe
<1> QED BY <1>1, Invariant, PTL

\* Deletes reclaim every free byte and slot at the borders.
THEOREM BordersStayTight ==
    ASSUME NoZeroHead
    PROVE  Spec => []BordersTight
<1>1. SectInv(sect) => BordersTight
  BY DEF SectInv, BordersTight
<1> QED BY <1>1, Invariant, PTL

\* Every byte that is not 0 belongs to a record, and no record begins with 0.
THEOREM ZeroBytesStayFree ==
    ASSUME NoZeroHead
    PROVE  Spec => []ZeroBytesFree
<1>1. SectInv(sect) => ZeroBytesFree
  BY DEF SectInv, Loose, ZeroBytesFree
<1> QED BY <1>1, Invariant, PTL
=============================================================================
