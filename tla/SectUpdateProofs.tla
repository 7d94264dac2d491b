-------------------------- MODULE SectUpdateProofs --------------------------
(***************************************************************************)
(* Proofs about sect_ext_update: on a section as writes and deletes leave  *)
(* it, an update replaces the record of its entity and no other, in each   *)
(* of the three ways it can take.                                          *)
(***************************************************************************)
EXTENDS SectUpdate, SectExtRefines

-----------------------------------------------------------------------------
(* The pieces of an update.                                                *)

\* SetBorders, field by field.
LEMMA SetBordersOp ==
    ASSUME NEW h, NEW d, NEW itm, NEW rec, NEW lip, NEW frp
    PROVE  SetBorders(Sect(h, d, itm, rec), lip, frp)
             = Sect(Head3(frp - lip, lip, frp), d, itm, rec)
BY DEF SetBorders, Sect

\* Entity e has the sizes of the record of p, and a place for it.
HasRoom(e, p, a) ==
    /\ e.key_size = Len(p.key) /\ e.val_size = Len(p.val) /\ e.attr = a
    /\ e.init_rec_sz \in Nat /\ Len(p.key) + Len(p.val) <= e.init_rec_sz

\* The entity that is written: the sizes of the new record, and the larger of
\* the two places.
LEMMA PromotedFacts ==
    ASSUME NEW p \in Payloads, NEW a \in Attrs, NEW old,
           old.init_rec_sz \in Nat
    PROVE  HasRoom(Promoted(EntityInit(p, a), old), p, a)
<1> DEFINE i == EntityInit(p, a)
           e == Promoted(i, old)
           k == Len(p.key)
           v == Len(p.val)
           n == k + v
           m == old.init_rec_sz
           x == Max({n, m})
<1>1. k \in Nat /\ v \in Nat
  <2>1. p.key \in Seq(Byte) /\ p.val \in Seq(Byte)
    BY PayloadAssumption
  <2> QED BY <2>1
<1>2. n \in Nat /\ m \in Nat
  <2>1. m \in Nat
    OBVIOUS
  <2> HIDE DEF k, v, m
  <2> QED BY <1>1, <2>1
<1>3. x \in {n, m} /\ n <= x /\ m <= x
  <2> HIDE DEF n, m
  <2> DEFINE S == {n, m}
             b == n + m
  <2>1. b \in Nat /\ S \subseteq 0..b /\ S # {}
    BY <1>2
  <2> HIDE DEF S, b
  <2>2. Max(S) \in S /\ \A y \in S : Max(S) >= y
    BY <2>1, MaxOfNat
  <2>3. x = Max(S)
    BY DEF S
  <2> HIDE DEF x
  <2> QED BY <1>2, <2>2, <2>3 DEF S
<1>4. /\ i.key_size = Len(p.key) /\ i.val_size = Len(p.val) /\ i.attr = a
      /\ i.init_rec_sz = n
      /\ i = [key_ptr |-> 0, key_size |-> Len(p.key), val_ptr |-> 0,
              val_size |-> Len(p.val), init_rec_sz |-> n, attr |-> a]
  BY DEF EntityInit
<1>5. e = [i EXCEPT !.init_rec_sz = x]
  BY <1>4 DEF Promoted
<1> HIDE DEF i, x, e
<1>6. /\ e.key_size = Len(p.key) /\ e.val_size = Len(p.val) /\ e.attr = a
      /\ e.init_rec_sz = x
  BY <1>4, <1>5
<1>7. x \in Nat
  BY <1>2, <1>3
<1>8. HasRoom(e, p, a)
  BY <1>3, <1>6, <1>7 DEF HasRoom
<1> QED BY <1>8 DEF e, i

\* Section t has the record of p at the slot and below the border of header h,
\* over the items itm and the bytes rec.
Stored(h, itm, rec, p, e, t) ==
    LET k  == Len(p.key)
        v  == Len(p.val)
        o  == h.lst_itm_ptr
        f  == h.fst_rec_ptr
        vp == f - k - v
    IN  /\ t = Sect(t.head, t.disk, t.itm, t.rec)
        /\ t.head.fst_rec_ptr = vp
        /\ DOMAIN t.itm = DOMAIN itm \cup {o}
        /\ \A x \in DOMAIN itm : x # o => t.itm[x] = itm[x]
        /\ RecStart(t.itm[o]) = vp /\ RecEnd(t.itm[o]) = f
        /\ entity_rec_sz(t.itm[o]) = k + v
        /\ \A b \in Addr : ~(vp <= b /\ b < f) => t.rec[b] = rec[b]
        /\ sect_ext_read(t, o) = [key |-> p.key, val |-> p.val, attr |-> e.attr]

\* sect_ext_write stores it there, wherever the header says, if the bytes are
\* bytes of the section.
LEMMA StoreFacts ==
    ASSUME NEW h \in Heads, NEW d, NEW itm, NEW rec \in [Addr -> Byte],
           NEW p \in Payloads, NEW e,
           e.key_size = Len(p.key), e.val_size = Len(p.val),
           h.fst_rec_ptr <= SECTION_SIZE,
           HEAD_SIZE <= h.fst_rec_ptr - Len(p.key) - Len(p.val)
    PROVE  Stored(h, itm, rec, p, e, sect_ext_write(Sect(h, d, itm, rec), p, e))
<1> DEFINE k  == Len(p.key)
           v  == Len(p.val)
           o  == h.lst_itm_ptr
           f  == h.fst_rec_ptr
           kp == f - k
           vp == kp - v
           ht == Head3(h.free_space - k - v - ITM_SIZE, o + ITM_SIZE, vp)
           q  == Placed(e, kp, vp)
           it == [x \in DOMAIN itm \cup {o} |-> IF x = o THEN q ELSE itm[x]]
           r1 == Overwrite(rec, kp, p.key)
           r2 == Overwrite(r1, vp, p.val)
           t  == sect_ext_write(Sect(h, d, itm, rec), p, e)
<1>1. p.key \in Seq(Byte) /\ p.val \in Seq(Byte) /\ k \in Nat /\ v \in Nat
  BY PayloadAssumption
<1>2. f \in Int /\ o \in Int
  BY DEF Heads
<1>3. t = Sect(ht, ht, it, r2)
  <2>1. t = Written(h, itm, rec, p, e)
    <3> HIDE DEF ht, it, r2
    <3> QED BY <1>1, WriteOp
  <2>2. Written(h, itm, rec, p, e) = Sect(ht, ht, it, r2)
    BY DEF Written
  <2> QED BY <2>1, <2>2
<1> HIDE DEF t, ht, it, r2
<1>4. t.head = ht /\ t.disk = ht /\ t.itm = it /\ t.rec = r2
  BY <1>3, Fields
<1>5. ht.fst_rec_ptr = vp
  BY Fields DEF ht
<1>6. /\ q.key_ptr = kp /\ q.val_ptr = vp /\ q.key_size = k /\ q.val_size = v
      /\ q.attr = e.attr
  BY DEF Placed
<1> HIDE DEF q
<1>7. /\ DOMAIN it = DOMAIN itm \cup {o} /\ it[o] = q
      /\ \A x \in DOMAIN itm : x # o => it[x] = itm[x]
  BY DEF it
<1>8. /\ f <= SECTION_SIZE /\ HEAD_SIZE <= f - k - v
  OBVIOUS
<1> HIDE DEF f, o
<1>9. RecStart(q) = vp /\ RecEnd(q) = f /\ entity_rec_sz(q) = k + v
  <2> HIDE DEF k, v
  <2> QED BY <1>1, <1>2, <1>6 DEF RecStart, RecEnd, entity_rec_sz
<1>10. ASSUME NEW b \in Addr
       PROVE  r2[b] = IF vp <= b /\ b < kp THEN p.val[b - vp + 1]
                      ELSE IF kp <= b /\ b < f THEN p.key[b - kp + 1]
                      ELSE rec[b]
  <2>1. DOMAIN rec = Addr /\ DOMAIN r1 = Addr
    BY DEF Overwrite
  <2>2. r1[b] = IF b >= kp /\ b < kp + k THEN p.key[b - kp + 1] ELSE rec[b]
    BY <2>1 DEF Overwrite
  <2> HIDE DEF r1
  <2>3. r2[b] = IF b >= vp /\ b < vp + v THEN p.val[b - vp + 1] ELSE r1[b]
    BY <2>1 DEF Overwrite, r2
  <2>4. kp + k = f /\ vp + v = kp /\ b \in Int /\ kp \in Int /\ vp \in Int
    <3> HIDE DEF k, v
    <3> QED BY <1>1, <1>2, SizeAssumption DEF Addr
  <2> HIDE DEF kp, vp, k, v
  <2> QED BY <2>2, <2>3, <2>4
<1>11. sect_head_read(t, kp, k) = p.key
  <2>1. ASSUME NEW i \in 1..k
        PROVE  r2[kp + i - 1] = p.key[i]
    <3> DEFINE b == kp + i - 1
    <3>1. /\ b \in Addr /\ ~(vp <= b /\ b < kp) /\ kp <= b /\ b < f
          /\ b - kp + 1 = i
      <4> HIDE DEF k, v
      <4> QED BY <1>1, <1>2, <1>8, SizeAssumption DEF Addr
    <3> HIDE DEF b, kp, vp
    <3> QED BY <1>10, <3>1 DEF b
  <2>2. sect_head_read(t, kp, k) = [i \in 1..k |-> r2[kp + i - 1]]
    BY <1>4 DEF sect_head_read
  <2>3. p.key = [i \in 1..k |-> p.key[i]]
    BY <1>1
  <2> HIDE DEF kp, k
  <2> QED BY <2>1, <2>2, <2>3
<1>12. sect_head_read(t, vp, v) = p.val
  <2>1. ASSUME NEW i \in 1..v
        PROVE  r2[vp + i - 1] = p.val[i]
    <3> DEFINE b == vp + i - 1
    <3>1. /\ b \in Addr /\ vp <= b /\ b < kp /\ b - vp + 1 = i
      <4> HIDE DEF k, v
      <4> QED BY <1>1, <1>2, <1>8, SizeAssumption DEF Addr
    <3> HIDE DEF b, kp, vp
    <3> QED BY <1>10, <3>1 DEF b
  <2>2. sect_head_read(t, vp, v) = [i \in 1..v |-> r2[vp + i - 1]]
    BY <1>4 DEF sect_head_read
  <2>3. p.val = [i \in 1..v |-> p.val[i]]
    BY <1>1
  <2> HIDE DEF vp, v
  <2> QED BY <2>1, <2>2, <2>3
<1>13. sect_ext_read(t, o) = [key |-> p.key, val |-> p.val, attr |-> e.attr]
  <2>1. o \in DOMAIN t.itm /\ t.itm[o] = q
    BY <1>4, <1>7
  <2> HIDE DEF k, v, kp, vp
  <2> QED BY <1>6, <1>11, <1>12, <2>1, ReadLive
<1>14. ASSUME NEW b \in Addr, ~(vp <= b /\ b < f)
       PROVE  r2[b] = rec[b]
  <2>1. b \in Int /\ vp \in Int /\ kp \in Int /\ vp <= kp /\ kp <= f
    <3> HIDE DEF k, v
    <3> QED BY <1>1, <1>2, SizeAssumption DEF Addr
  <2>2. ~(vp <= b /\ b < kp) /\ ~(kp <= b /\ b < f)
    <3> HIDE DEF vp, kp
    <3> QED BY <1>2, <1>14, <2>1
  <2> HIDE DEF vp, kp
  <2> QED BY <1>10, <2>2
<1>15. f - k - v = vp
  OBVIOUS
<1> HIDE DEF k, v, kp, vp
<1>16. Stored(h, itm, rec, p, e, t)
  BY <1>3, <1>4, <1>5, <1>7, <1>9, <1>13, <1>14, <1>15 DEF Stored, k, v, o, f
<1> QED BY <1>16 DEF t

\* The bytes from vp up to f, and the borders lip and frp, are a place for a
\* record at slot o: they meet no other item and no other record.
FreePlace(s, o, vp, f, lip, frp) ==
    /\ lip \in Nat /\ frp \in Nat /\ vp \in Nat /\ f \in Nat
    /\ HEAD_SIZE <= vp /\ vp <= f /\ f <= SECTION_SIZE
    /\ lip <= frp /\ frp <= vp /\ o + ITM_SIZE <= lip
    /\ \A x \in DOMAIN s.itm : x + ITM_SIZE <= lip
    /\ \A x \in Owners(s) : x # o =>
          /\ frp <= RecStart(s.itm[x])
          /\ f <= RecStart(s.itm[x]) \/ RecEnd(s.itm[x]) <= vp

\* A section whose borders are set around its items and records, one of which
\* is new.
LEMMA EnclosedBy ==
    ASSUME NEW s, Loose(s), NEW o \in Nat, NEW t,
           NEW lip, NEW frp, NEW vp, NEW f,
           FreePlace(s, o, vp, f, lip, frp),
           t.head = Head3(frp - lip, lip, frp),
           DOMAIN t.itm = DOMAIN s.itm \cup {o},
           \A x \in DOMAIN s.itm : x # o => t.itm[x] = s.itm[x],
           RecStart(t.itm[o]) = vp, RecEnd(t.itm[o]) = f
    PROVE  Enclosed(t)
<1>0. /\ lip \in Nat /\ frp \in Nat /\ vp \in Nat /\ f \in Nat
      /\ lip <= frp /\ frp <= vp /\ f <= SECTION_SIZE
      /\ \A x \in DOMAIN t.itm : x + ITM_SIZE <= lip
      /\ \A x \in Owners(s) : x # o =>
            /\ frp <= RecStart(s.itm[x])
            /\ f <= RecStart(s.itm[x]) \/ RecEnd(s.itm[x]) <= vp
  BY DEF FreePlace
<1>1. /\ t.head.lst_itm_ptr = lip /\ t.head.fst_rec_ptr = frp
      /\ t.head.free_space = frp - lip
  BY Fields
<1>2. \A x \in Owners(t) : x # o =>
         /\ x \in Owners(s) /\ t.itm[x] = s.itm[x]
         /\ x \in Nat /\ RecEnd(s.itm[x]) <= SECTION_SIZE
  <2>1. \A x \in Owners(t) : x # o => x \in Owners(s) /\ t.itm[x] = s.itm[x]
    BY DEF Owners
  <2> QED BY <2>1, OwnerFacts
<1>3. FrontiersOK(t)
  BY <1>0, <1>1, <1>2 DEF FrontiersOK
<1>4. ASSUME NEW x \in Owners(t), NEW y \in Owners(t), x # y
      PROVE  \/ RecEnd(t.itm[x]) <= RecStart(t.itm[y])
             \/ RecEnd(t.itm[y]) <= RecStart(t.itm[x])
  <2>1. CASE x = o
    BY <1>0, <1>2, <1>4, <2>1
  <2>2. CASE y = o
    BY <1>0, <1>2, <1>4, <2>2
  <2>3. CASE x # o /\ y # o
    <3>1. x \in Owners(s) /\ y \in Owners(s) /\ x \in Nat /\ y \in Nat
      BY <1>2, <2>3
    <3>2. x < y \/ y < x
      BY <1>4, <3>1
    <3>3. \/ RecEnd(s.itm[x]) <= RecStart(s.itm[y])
          \/ RecEnd(s.itm[y]) <= RecStart(s.itm[x])
      BY <3>1, <3>2 DEF Loose, RecordsOrdered
    <3> QED BY <1>2, <2>3, <3>3
  <2> QED BY <2>1, <2>2, <2>3
<1> QED BY <1>0, <1>1, <1>3, <1>4 DEF Enclosed

\* An entity reads the same as long as it and its bytes are the same.
LEMMA ReadKept ==
    ASSUME NEW s, Loose(s), NEW q \in DOMAIN s.itm, NEW t,
           q \in DOMAIN t.itm, t.itm[q] = s.itm[q],
           q \in Owners(s) =>
              \A b \in Addr : RecStart(s.itm[q]) <= b /\ b < RecEnd(s.itm[q])
                                 => t.rec[b] = s.rec[b]
    PROVE  Content(t)[q] = Content(s)[q]
<1>1. \A b \in Addr : RecStart(s.itm[q]) <= b /\ b < RecEnd(s.itm[q])
                         => t.rec[b] = s.rec[b]
  <2> SUFFICES ASSUME NEW b \in Addr, RecStart(s.itm[q]) <= b,
                      b < RecEnd(s.itm[q])
               PROVE  q \in Owners(s)
    OBVIOUS
  <2>1. b \in Nat
    BY SizeAssumption DEF Addr
  <2>2. /\ RecStart(s.itm[q]) \in Nat /\ entity_rec_sz(s.itm[q]) \in Nat
        /\ RecEnd(s.itm[q]) = RecStart(s.itm[q]) + entity_rec_sz(s.itm[q])
    BY LiveRecord
  <2> QED BY <2>1, <2>2 DEF Owners
<1>2. /\ sect_head_read(t, s.itm[q].key_ptr, s.itm[q].key_size)
           = sect_head_read(s, s.itm[q].key_ptr, s.itm[q].key_size)
      /\ sect_head_read(t, s.itm[q].val_ptr, s.itm[q].val_size)
           = sect_head_read(s, s.itm[q].val_ptr, s.itm[q].val_size)
  BY <1>1, SameBytes
<1>3. sect_ext_read(t, q) = sect_ext_read(s, q)
  BY <1>2, ReadLive
<1> QED BY <1>3, ContentOf

-----------------------------------------------------------------------------
(* What an update leaves behind.                                           *)

\* The entities of s other than the one at o read the same in t.
OthersKept(s, o, t) ==
    \A q \in DOMAIN s.itm \ {o} :
        q \in DOMAIN t.itm /\ Content(t)[q] = Content(s)[q]

\* In t the slot o reads as the record of p, and the borders enclose it all.
Replaced(o, p, a, t) ==
    /\ Enclosed(t)
    /\ Content(t)[o] = [key |-> p.key, val |-> p.val, attr |-> a]

\* The same items and the same bytes read the same.
LEMMA SameContent ==
    ASSUME NEW s, NEW t, t.itm = s.itm, t.rec = s.rec
    PROVE  Content(t) = Content(s)
<1>1. ASSUME NEW x, NEW y
      PROVE  sect_head_read(t, x, y) = sect_head_read(s, x, y)
  BY DEF sect_head_read
<1>2. ASSUME NEW o
      PROVE  sect_ext_read(t, o) = sect_ext_read(s, o)
  <2>1. sect_ext_rd_itm(t, o) = sect_ext_rd_itm(s, o)
    BY DEF sect_ext_rd_itm
  <2> QED BY <1>1, <2>1 DEF sect_ext_read
<1> QED BY <1>2 DEF Content

\* sect_ext_write steered to such a place, and the borders set afterwards,
\* replaces the record at o and no other.
LEMMA WriteAtPlace ==
    ASSUME NEW s, Loose(s), NEW o \in Slots, NEW p \in Payloads, NEW a,
           NEW e, e.key_size = Len(p.key), e.val_size = Len(p.val), e.attr = a,
           NEW h \in Heads, h.lst_itm_ptr = o,
           NEW lip, NEW frp,
           FreePlace(s, o, h.fst_rec_ptr - Len(p.key) - Len(p.val),
                     h.fst_rec_ptr, lip, frp),
           NEW d, NEW w, w = sect_ext_write(Sect(h, d, s.itm, s.rec), p, e),
           NEW t, t.itm = w.itm, t.rec = w.rec,
           t.head = Head3(frp - lip, lip, frp)
    PROVE  Replaced(o, p, a, t) /\ OthersKept(s, o, t)
<1> DEFINE k  == Len(p.key)
           v  == Len(p.val)
           f  == h.fst_rec_ptr
           vp == f - k - v
<1>1. FreePlace(s, o, vp, f, lip, frp) /\ s.rec \in [Addr -> Byte] /\ o \in Nat
  <2>1. FreePlace(s, o, vp, f, lip, frp)
    OBVIOUS
  <2>2. s.rec \in [Addr -> Byte]
    BY LooseTypes
  <2>3. o \in Nat
    BY SizeAssumption DEF Slots
  <2> QED BY <2>1, <2>2, <2>3
<1>2. /\ HEAD_SIZE <= vp /\ f <= SECTION_SIZE /\ f \in Nat /\ vp \in Nat
      /\ lip \in Nat /\ frp \in Nat /\ lip <= frp /\ frp <= vp
      /\ o + ITM_SIZE <= lip
      /\ \A x \in DOMAIN s.itm : x + ITM_SIZE <= lip
      /\ \A x \in Owners(s) : x # o =>
            /\ frp <= RecStart(s.itm[x])
            /\ f <= RecStart(s.itm[x]) \/ RecEnd(s.itm[x]) <= vp
  BY <1>1 DEF FreePlace
<1>3. Stored(h, s.itm, s.rec, p, e, w)
  BY <1>1, <1>2, StoreFacts
<1>4. /\ DOMAIN w.itm = DOMAIN s.itm \cup {o}
      /\ \A x \in DOMAIN s.itm : x # o => w.itm[x] = s.itm[x]
      /\ RecStart(w.itm[o]) = vp /\ RecEnd(w.itm[o]) = f
      /\ \A b \in Addr : ~(vp <= b /\ b < f) => w.rec[b] = s.rec[b]
      /\ sect_ext_read(w, o) = [key |-> p.key, val |-> p.val, attr |-> a]
  BY <1>3 DEF Stored
<1> HIDE DEF vp, f, k, v
<1>5. Enclosed(t)
  <2>1. /\ DOMAIN t.itm = DOMAIN s.itm \cup {o}
        /\ \A x \in DOMAIN s.itm : x # o => t.itm[x] = s.itm[x]
        /\ RecStart(t.itm[o]) = vp /\ RecEnd(t.itm[o]) = f
    BY <1>4
  <2> QED BY <1>1, <2>1, EnclosedBy
<1>6. Content(t)[o] = [key |-> p.key, val |-> p.val, attr |-> a]
  <2>1. Content(t) = Content(w) /\ o \in DOMAIN w.itm
    BY <1>4, SameContent
  <2> QED BY <1>4, <2>1, ContentOf
<1>7. ASSUME NEW q \in DOMAIN s.itm \ {o}
      PROVE  q \in DOMAIN t.itm /\ Content(t)[q] = Content(s)[q]
  <2>1. q \in DOMAIN t.itm /\ t.itm[q] = s.itm[q]
    BY <1>4
  <2>2. ASSUME q \in Owners(s), NEW b \in Addr, RecStart(s.itm[q]) <= b,
               b < RecEnd(s.itm[q])
        PROVE  t.rec[b] = s.rec[b]
    <3>1. RecStart(s.itm[q]) \in Nat /\ RecEnd(s.itm[q]) \in Nat /\ b \in Nat
      BY <2>2, OwnerFacts, SizeAssumption DEF Addr
    <3>2. f <= RecStart(s.itm[q]) \/ RecEnd(s.itm[q]) <= vp
      BY <1>2, <2>2
    <3>3. ~(vp <= b /\ b < f)
      BY <1>2, <2>2, <3>1, <3>2
    <3> QED BY <1>4, <3>3
  <2> QED BY <2>1, <2>2, ReadKept
<1> QED BY <1>5, <1>6, <1>7 DEF Replaced, OthersKept

-----------------------------------------------------------------------------
(* The three ways an update can take.                                      *)

\* The entity that is updated, in a pristine section.
LEMMA OldFacts ==
    ASSUME NEW s, Pristine(s), NEW o \in Owners(s)
    PROVE  LET old == s.itm[o] IN
           /\ SectInv(s) /\ Loose(s) /\ o \in DOMAIN s.itm /\ o \in Slots
           /\ o \in Nat /\ o + ITM_SIZE <= s.head.lst_itm_ptr
           /\ sect_ext_rd_itm(s, o) = old
           /\ old.init_rec_sz \in Nat
           /\ RecStart(old) \in Nat /\ RecEnd(old) \in Nat
           /\ RecEnd(old) = RecStart(old) + old.init_rec_sz
           /\ s.head.fst_rec_ptr <= RecStart(old)
           /\ RecStart(old) < RecEnd(old)
           /\ RecEnd(old) <= SECTION_SIZE
           /\ \A x \in Owners(s) : x # o =>
                 \/ RecEnd(old) <= RecStart(s.itm[x])
                 \/ RecEnd(s.itm[x]) <= RecStart(old)
<1> DEFINE old == s.itm[o]
<1>1. SectInv(s) /\ Loose(s)
  BY DEF Pristine, SectInv, Loose
<1>2. /\ o \in DOMAIN s.itm /\ o \in Slots /\ o \in Nat
      /\ RecStart(old) \in Nat /\ RecEnd(old) \in Nat
      /\ s.head.fst_rec_ptr <= RecStart(old)
      /\ RecStart(old) < RecEnd(old) /\ RecEnd(old) <= SECTION_SIZE
  BY <1>1, OwnerFacts
<1>3. o + ITM_SIZE <= s.head.lst_itm_ptr
  BY <1>1, <1>2 DEF Loose, FrontiersOK
<1>4. sect_ext_rd_itm(s, o) = old
  BY <1>2 DEF sect_ext_rd_itm
<1>5. old.init_rec_sz = entity_rec_sz(old)
  BY <1>2 DEF Pristine
<1>6. /\ entity_rec_sz(old) \in Nat
      /\ RecEnd(old) = RecStart(old) + entity_rec_sz(old)
  BY <1>1, <1>2, LiveRecord
<1>7. ASSUME NEW x \in Owners(s), x # o
      PROVE  \/ RecEnd(old) <= RecStart(s.itm[x])
             \/ RecEnd(s.itm[x]) <= RecStart(old)
  <2>1. x \in Nat
    BY <1>1, OwnerFacts
  <2>2. x < o \/ o < x
    BY <1>2, <1>7, <2>1
  <2> QED BY <1>1, <2>2 DEF Loose, RecordsOrdered
<1> QED BY <1>1, <1>2, <1>3, <1>4, <1>5, <1>6, <1>7

\* What an update of o by the record of p may do to s: r is its result.
Outcome(s, o, p, a, r) ==
    /\ r.ret = "OK" => Replaced(o, p, a, r.sect)
    /\ OthersKept(s, o, r.sect)

\* An update that fails before it changes an item or a byte.
LEMMA FailOutcome ==
    ASSUME NEW s, NEW o, NEW p, NEW a, NEW t, t.itm = s.itm, t.rec = s.rec
    PROVE  Outcome(s, o, p, a, Failed(t))
<1>1. Content(t) = Content(s)
  BY SameContent
<1>2. Failed(t).ret # "OK" /\ Failed(t).sect = t
  BY DEF Failed
<1>3. OthersKept(s, o, t)
  BY <1>1 DEF OthersKept
<1> QED BY <1>2, <1>3 DEF Outcome

\* An update that succeeds.
LEMMA DoneOutcome ==
    ASSUME NEW s, NEW o, NEW p, NEW a, NEW t,
           Replaced(o, p, a, t), OthersKept(s, o, t)
    PROVE  Outcome(s, o, p, a, Done(t))
<1>1. Done(t).sect = t
  BY DEF Done
<1> QED BY <1>1 DEF Outcome

\* The record lies at the border: nothing else lies below its end.
LEMMA BorderOutcome ==
    ASSUME NEW s, Pristine(s), NEW o \in Owners(s), NEW p \in Payloads, NEW a,
           NEW e, e.key_size = Len(p.key), e.val_size = Len(p.val), e.attr = a,
           e.init_rec_sz \in Nat, Len(p.key) + Len(p.val) <= e.init_rec_sz,
           RecStart(s.itm[o]) = s.head.fst_rec_ptr,
           s.head.free_space + s.itm[o].init_rec_sz >= e.init_rec_sz
    PROVE  Outcome(s, o, p, a, ReplaceAtBorder(s, o, p, s.itm[o], e))
<1> DEFINE old == s.itm[o]
           lip == s.head.lst_itm_ptr
           frp == s.head.fst_rec_ptr
           f   == frp + old.init_rec_sz
           k   == Len(p.key)
           v   == Len(p.val)
           vp  == f - k - v
           h   == Head3(f - o, o, f)
           s1  == SetBorders(s, o, f)
           s2  == sect_ext_write(s1, p, e)
           t   == sect_head_sync(SetBorders(s2, lip, s2.head.fst_rec_ptr))
<1>1. /\ Loose(s) /\ o \in Slots /\ o \in Nat /\ o + ITM_SIZE <= lip
      /\ old.init_rec_sz \in Nat /\ RecEnd(old) = RecStart(old) + old.init_rec_sz
      /\ RecEnd(old) <= SECTION_SIZE
      /\ \A x \in Owners(s) : x # o =>
            \/ RecEnd(old) <= RecStart(s.itm[x])
            \/ RecEnd(s.itm[x]) <= RecStart(old)
  BY OldFacts
<1>2. /\ s = Sect(s.head, s.disk, s.itm, s.rec) /\ s.rec \in [Addr -> Byte]
      /\ lip \in Nat /\ frp \in Nat
  BY <1>1, LooseTypes
<1>3. s.head.free_space = frp - lip /\ \A x \in DOMAIN s.itm : x + ITM_SIZE <= lip
  BY <1>1 DEF Loose, HeadOK, FrontiersOK
<1>4. k \in Nat /\ v \in Nat
  <2>1. p.key \in Seq(Byte) /\ p.val \in Seq(Byte)
    BY PayloadAssumption
  <2> QED BY <2>1
<1>5. /\ e.init_rec_sz \in Nat /\ k + v <= e.init_rec_sz
      /\ frp - lip + old.init_rec_sz >= e.init_rec_sz /\ RecStart(old) = frp
  BY <1>3
<1>6. s1 = Sect(h, s.disk, s.itm, s.rec)
  <2> HIDE DEF f
  <2> QED BY <1>2, SetBordersOp
<1>7. s1.head = h /\ s1.itm = s.itm /\ s1.rec = s.rec
  BY <1>6, Fields
<1>8. h \in Heads /\ h.lst_itm_ptr = o /\ h.fst_rec_ptr = f /\ f \in Nat
  <2>1. f \in Nat
    <3> HIDE DEF frp, old
    <3> QED BY <1>1, <1>2
  <2> HIDE DEF f
  <2> QED BY <1>1, <2>1 DEF Heads, Head3
<1> HIDE DEF h, s1
<1>9. FreePlace(s, o, vp, f, lip, vp)
  <2>1. /\ f \in Nat /\ vp \in Nat /\ lip <= vp /\ vp <= f /\ f = RecEnd(old)
        /\ HEAD_SIZE <= vp
    <3>1. HEAD_SIZE <= o
      BY <1>1 DEF Slots
    <3> DEFINE i == e.init_rec_sz
               j == old.init_rec_sz
    <3>2. /\ i \in Nat /\ j \in Nat /\ k + v <= i
          /\ frp - lip + j >= i /\ o + ITM_SIZE <= lip
      BY <1>1, <1>5
    <3>3. f = frp + j /\ RecEnd(old) = frp + j
      BY <1>1, <1>5
    <3> HIDE DEF k, v, lip, frp, i, j, f
    <3>4. f \in Nat /\ lip <= vp /\ vp <= f /\ vp \in Int
      BY <1>1, <1>2, <1>4, <3>2, <3>3
    <3>5. HEAD_SIZE <= lip
      BY <1>1, <1>2, <3>1, SizeAssumption
    <3> HIDE DEF vp
    <3> QED BY <1>2, <3>3, <3>4, <3>5, SizeAssumption
  <2>2. ASSUME NEW x \in Owners(s), x # o
        PROVE  vp <= RecStart(s.itm[x]) /\ f <= RecStart(s.itm[x])
    <3>1. /\ frp <= RecStart(s.itm[x]) /\ RecStart(s.itm[x]) < RecEnd(s.itm[x])
          /\ RecStart(s.itm[x]) \in Nat /\ RecEnd(s.itm[x]) \in Nat
      BY <1>1, OwnerFacts
    <3>2. f <= RecStart(s.itm[x]) \/ RecEnd(s.itm[x]) <= frp
      BY <1>1, <1>5, <2>1, <2>2
    <3> HIDE DEF vp, f, frp
    <3> QED BY <1>2, <2>1, <3>1, <3>2
  <2>3. f <= SECTION_SIZE
    BY <1>1, <2>1
  <2>4. vp <= vp
    <3> HIDE DEF vp
    <3> QED BY <2>1
  <2> HIDE DEF vp, f, lip
  <2> QED BY <1>1, <1>2, <1>3, <2>1, <2>2, <2>3, <2>4 DEF FreePlace
<1>10. CASE CanWrite(s1, p)
  <2>1. s2 = sect_ext_write(Sect(h, s.disk, s.itm, s.rec), p, e)
    BY <1>6
  <2>2. HEAD_SIZE <= vp /\ f <= SECTION_SIZE
    BY <1>9 DEF FreePlace
  <2>3. Stored(h, s.itm, s.rec, p, e, s2)
    BY <1>2, <1>8, <2>1, <2>2, StoreFacts
  <2>4. /\ s2 = Sect(s2.head, s2.disk, s2.itm, s2.rec)
        /\ s2.head.fst_rec_ptr = vp
    BY <1>8, <2>3 DEF Stored
  <2> HIDE DEF s2
  <2>5. t = Sect(Head3(vp - lip, lip, vp), Head3(vp - lip, lip, vp),
                 s2.itm, s2.rec)
    <3> HIDE DEF vp
    <3> QED BY <2>4, SetBordersOp, SyncOp
  <2> HIDE DEF t
  <2>6. t.itm = s2.itm /\ t.rec = s2.rec /\ t.head = Head3(vp - lip, lip, vp)
    BY <2>5, Fields
  <2>7. Replaced(o, p, a, t) /\ OthersKept(s, o, t)
    <3> HIDE DEF f, lip
    <3> QED BY <1>1, <1>8, <1>9, <2>1, <2>6, WriteAtPlace
  <2>8. Outcome(s, o, p, a, Done(t))
    BY <2>7, DoneOutcome
  <2>9. ReplaceAtBorder(s, o, p, s.itm[o], e) = Done(t)
    BY <1>10 DEF ReplaceAtBorder, t, s1, s2
  <2> QED BY <2>8, <2>9
<1>11. CASE ~CanWrite(s1, p)
  <2>1. ReplaceAtBorder(s, o, p, s.itm[o], e) = Failed(s1)
    BY <1>11 DEF ReplaceAtBorder, s1
  <2> QED BY <1>7, <2>1, FailOutcome
<1> QED BY <1>10, <1>11

\* The record lies inside and the new one fits its place: it ends where the old
\* one ended and begins no lower.
LEMMA GapOutcome ==
    ASSUME NEW s, Pristine(s), NEW o \in Owners(s), NEW p \in Payloads, NEW a,
           NEW e, e.key_size = Len(p.key), e.val_size = Len(p.val), e.attr = a,
           e.init_rec_sz \in Nat, Len(p.key) + Len(p.val) <= e.init_rec_sz,
           e.init_rec_sz <= s.itm[o].init_rec_sz
    PROVE  Outcome(s, o, p, a, ReplaceInGap(s, o, p, s.itm[o], e))
<1> DEFINE old == s.itm[o]
           lip == s.head.lst_itm_ptr
           frp == s.head.fst_rec_ptr
           f   == old.key_ptr + old.key_size
           k   == Len(p.key)
           v   == Len(p.val)
           vp  == f - k - v
           h   == Head3(f - o, o, f)
           s1  == SetBorders(s, o, f)
           s2  == sect_ext_write(s1, p, e)
           t   == SetBorders(s2, lip, frp)
<1>1. /\ Loose(s) /\ o \in Slots /\ o \in Nat /\ o + ITM_SIZE <= lip
      /\ old.init_rec_sz \in Nat /\ RecEnd(old) = RecStart(old) + old.init_rec_sz
      /\ RecStart(old) \in Nat /\ RecEnd(old) \in Nat
      /\ frp <= RecStart(old) /\ RecEnd(old) <= SECTION_SIZE
      /\ \A x \in Owners(s) : x # o =>
            \/ RecEnd(old) <= RecStart(s.itm[x])
            \/ RecEnd(s.itm[x]) <= RecStart(old)
  BY OldFacts
<1>2. /\ s = Sect(s.head, s.disk, s.itm, s.rec) /\ s.rec \in [Addr -> Byte]
      /\ lip \in Nat /\ frp \in Nat
  BY <1>1, LooseTypes
<1>3. lip <= frp /\ \A x \in DOMAIN s.itm : x + ITM_SIZE <= lip
  BY <1>1 DEF Loose, HeadOK, FrontiersOK
<1>4. k \in Nat /\ v \in Nat
  <2>1. p.key \in Seq(Byte) /\ p.val \in Seq(Byte)
    BY PayloadAssumption
  <2> QED BY <2>1
<1>5. f = RecEnd(old)
  BY DEF RecEnd
<1>6. s1 = Sect(h, s.disk, s.itm, s.rec)
  <2> HIDE DEF f
  <2> QED BY <1>2, SetBordersOp
<1>7. s1.head = h /\ s1.itm = s.itm /\ s1.rec = s.rec
  BY <1>6, Fields
<1> HIDE DEF f
<1>8. h \in Heads /\ h.lst_itm_ptr = o /\ h.fst_rec_ptr = f /\ f \in Nat
  BY <1>1, <1>5 DEF Heads, Head3
<1> HIDE DEF h, s1
<1>9. FreePlace(s, o, vp, f, lip, frp)
  <2>1. /\ vp \in Nat /\ frp <= vp /\ vp <= f /\ RecStart(old) <= vp
        /\ HEAD_SIZE <= vp
    <3>1. HEAD_SIZE <= o
      BY <1>1 DEF Slots
    <3> DEFINE i == e.init_rec_sz
               j == old.init_rec_sz
               S == RecStart(old)
    <3>2. /\ i \in Nat /\ j \in Nat /\ k + v <= i /\ i <= j /\ S \in Nat
          /\ f = S + j /\ frp <= S
      BY <1>1, <1>5
    <3> HIDE DEF k, v, lip, frp, i, j, S
    <3>3. vp \in Int /\ S <= vp /\ vp <= f
      BY <1>4, <3>2
    <3>4. HEAD_SIZE <= frp
      BY <1>1, <1>2, <1>3, <3>1, SizeAssumption
    <3> HIDE DEF vp
    <3>5. vp \in Nat /\ frp <= vp /\ HEAD_SIZE <= vp
      BY <1>2, <3>2, <3>3, <3>4, SizeAssumption
    <3> QED BY <3>3, <3>5 DEF S
  <2>2. ASSUME NEW x \in Owners(s), x # o
        PROVE  /\ frp <= RecStart(s.itm[x])
               /\ f <= RecStart(s.itm[x]) \/ RecEnd(s.itm[x]) <= vp
    <3>1. /\ frp <= RecStart(s.itm[x])
          /\ RecStart(s.itm[x]) \in Nat /\ RecEnd(s.itm[x]) \in Nat
      BY <1>1, OwnerFacts
    <3>2. f <= RecStart(s.itm[x]) \/ RecEnd(s.itm[x]) <= RecStart(old)
      BY <1>1, <1>5, <2>2
    <3> HIDE DEF vp
    <3> QED BY <1>1, <2>1, <3>1, <3>2
  <2>3. f <= SECTION_SIZE
    BY <1>1, <1>5
  <2> HIDE DEF vp, lip, frp
  <2> QED BY <1>1, <1>2, <1>3, <1>8, <2>1, <2>2, <2>3 DEF FreePlace
<1>10. CASE CanWrite(s1, p)
  <2>1. s2 = sect_ext_write(Sect(h, s.disk, s.itm, s.rec), p, e)
    BY <1>6
  <2>2. HEAD_SIZE <= vp /\ f <= SECTION_SIZE
    BY <1>9 DEF FreePlace
  <2>3. Stored(h, s.itm, s.rec, p, e, s2)
    BY <1>2, <1>8, <2>1, <2>2, StoreFacts
  <2>4. s2 = Sect(s2.head, s2.disk, s2.itm, s2.rec)
    BY <2>3 DEF Stored
  <2> HIDE DEF s2
  <2>5. t = Sect(Head3(frp - lip, lip, frp), s2.disk, s2.itm, s2.rec)
    BY <2>4, SetBordersOp
  <2> HIDE DEF t
  <2>6. t.itm = s2.itm /\ t.rec = s2.rec /\ t.head = Head3(frp - lip, lip, frp)
    BY <2>5, Fields
  <2>7. Replaced(o, p, a, t) /\ OthersKept(s, o, t)
    <3> HIDE DEF lip, frp
    <3> QED BY <1>1, <1>8, <1>9, <2>1, <2>6, WriteAtPlace
  <2>8. Outcome(s, o, p, a, Done(t))
    BY <2>7, DoneOutcome
  <2>9. ReplaceInGap(s, o, p, s.itm[o], e) = Done(t)
    BY <1>10 DEF ReplaceInGap, t, s1, s2, f
  <2> QED BY <2>8, <2>9
<1>11. CASE ~CanWrite(s1, p)
  <2>1. ReplaceInGap(s, o, p, s.itm[o], e) = Failed(s1)
    BY <1>11 DEF ReplaceInGap, s1, f
  <2> QED BY <1>7, <2>1, FailOutcome
<1> QED BY <1>10, <1>11

\* An entity whose record is not at the border is not the last one: the owner
\* of the record at the border lies behind it.
LEMMA NotLast ==
    ASSUME NEW s, Pristine(s), NEW o \in Owners(s),
           RecStart(s.itm[o]) # s.head.fst_rec_ptr
    PROVE  \E y \in DOMAIN s.itm : y # o /\ o + ITM_SIZE <= y
<1> DEFINE old == s.itm[o]
           frp == s.head.fst_rec_ptr
<1>1. /\ Loose(s) /\ Tight(s) /\ o \in Slots /\ o \in Nat
      /\ RecStart(old) \in Nat /\ RecEnd(old) \in Nat /\ frp <= RecStart(old)
      /\ RecStart(old) < RecEnd(old) /\ RecEnd(old) <= SECTION_SIZE
  BY OldFacts DEF SectInv
<1>2. frp \in Nat
  BY <1>1, LooseTypes
<1>3. frp # SECTION_SIZE
  BY <1>1, <1>2, SizeAssumption
<1>4. PICK y \in Owners(s) : RecStart(s.itm[y]) = frp
  BY <1>1, <1>3 DEF Tight
<1>5. y # o /\ y \in Slots /\ y \in Nat /\ y \in DOMAIN s.itm
  BY <1>1, <1>4, OwnerFacts
<1>6. CASE y < o
  <2>1. RecEnd(old) <= frp
    BY <1>1, <1>4, <1>6 DEF Loose, RecordsOrdered
  <2> QED BY <1>1, <1>2, <2>1
<1>7. CASE o < y
  BY <1>1, <1>5, <1>7, SlotSpacing
<1> QED BY <1>1, <1>5, <1>6, <1>7

\* The record lies inside and has outgrown its place: the entity is deleted,
\* which keeps the others, and the record is written below the border that the
\* delete left.
LEMMA MoveOutcome ==
    ASSUME NEW s, Pristine(s), NEW o \in Owners(s), NEW p \in Payloads, NEW a,
           NEW e, e.key_size = Len(p.key), e.val_size = Len(p.val), e.attr = a,
           RecStart(s.itm[o]) # s.head.fst_rec_ptr
    PROVE  Outcome(s, o, p, a, MoveToFreeSpace(s, o, p, e))
<1> DEFINE s1  == sect_ext_delete(s, o)
           lip == s1.head.lst_itm_ptr
           f   == s1.head.fst_rec_ptr
           fs  == s1.head.free_space
           k   == Len(p.key)
           v   == Len(p.val)
           vp  == f - k - v
           h   == Head3(fs, o, f)
           s2  == [s1 EXCEPT !.head =
                     Head3(s1.head.free_space, o, s1.head.fst_rec_ptr)]
           s3  == sect_ext_write(s2, p, e)
           t   == sect_head_sync(SetBorders(s3, lip, s3.head.fst_rec_ptr))
<1>1. SectInv(s) /\ o \in Slots /\ o \in Nat
  BY OldFacts
<1>2. /\ Loose(s1) /\ s1.itm = [x \in DOMAIN s.itm \ {o} |-> s.itm[x]]
  BY <1>1, DeleteInv DEF SectInv
<1>3. Content(s1) = [x \in DOMAIN s.itm \ {o} |-> Content(s)[x]]
  BY <1>1, DeleteRefines
<1>4. PICK y \in DOMAIN s.itm : y # o /\ o + ITM_SIZE <= y
  BY NotLast
<1> HIDE DEF s1
<1>5. /\ s1 = Sect(s1.head, s1.disk, s1.itm, s1.rec) /\ s1.rec \in [Addr -> Byte]
      /\ lip \in Nat /\ f \in Nat /\ fs \in Int
  BY <1>2, LooseTypes
<1>6. /\ fs = f - lip /\ f <= SECTION_SIZE
      /\ \A x \in DOMAIN s1.itm : x + ITM_SIZE <= lip
  BY <1>2 DEF Loose, HeadOK, FrontiersOK
<1>7. k \in Nat /\ v \in Nat
  <2>1. p.key \in Seq(Byte) /\ p.val \in Seq(Byte)
    BY PayloadAssumption
  <2> QED BY <2>1
<1>8. o + ITM_SIZE <= lip /\ HEAD_SIZE <= lip
  <2>1. y \in DOMAIN s1.itm /\ y + ITM_SIZE <= lip
    BY <1>2, <1>4, <1>6
  <2>2. y \in Nat
    BY <1>2, <2>1, LooseTypes
  <2>3. HEAD_SIZE <= o
    BY <1>1 DEF Slots
  <2> HIDE DEF lip
  <2> QED BY <1>1, <1>4, <1>5, <2>1, <2>2, <2>3, SizeAssumption
<1>9. s2 = Sect(h, s1.disk, s1.itm, s1.rec)
  <2> DEFINE H == s1.head
             D == s1.disk
             I == s1.itm
             R == s1.rec
  <2>1. s1 = Sect(H, D, I, R)
    BY <1>5
  <2> HIDE DEF H, D, I, R
  <2>2. [s1 EXCEPT !.head = h] = Sect(h, D, I, R)
    <3> HIDE DEF h
    <3> QED BY <2>1 DEF Sect
  <2> QED BY <2>2 DEF D, I, R
<1>10. s2.head = h /\ s2.itm = s1.itm /\ s2.rec = s1.rec
  BY <1>9, Fields
<1>11. h \in Heads /\ h.lst_itm_ptr = o /\ h.fst_rec_ptr = f /\ h.free_space = fs
  <2> HIDE DEF f, fs
  <2> QED BY <1>1, <1>5 DEF Heads, Head3
<1> HIDE DEF h, s2
<1>12. ASSUME NEW u, OthersKept(s1, o, u)
       PROVE  OthersKept(s, o, u)
  BY <1>2, <1>3, <1>12 DEF OthersKept
<1>13. CASE CanWrite(s2, p)
  <2>1. fs >= ITM_SIZE + k + v
    BY <1>10, <1>11, <1>13 DEF CanWrite
  <2>2. FreePlace(s1, o, vp, f, lip, vp)
    <3>1. /\ vp \in Nat /\ vp <= f /\ lip <= vp /\ HEAD_SIZE <= vp /\ vp <= vp
      <4> HIDE DEF k, v, f, fs, lip
      <4>1. vp \in Int /\ vp <= f /\ lip <= vp
        BY <1>5, <1>6, <1>7, <2>1, SizeAssumption
      <4> HIDE DEF vp
      <4> QED BY <1>5, <1>8, <4>1, SizeAssumption
    <3>2. ASSUME NEW x \in Owners(s1)
          PROVE  f <= RecStart(s1.itm[x]) /\ vp <= RecStart(s1.itm[x])
      <4>1. f <= RecStart(s1.itm[x]) /\ RecStart(s1.itm[x]) \in Nat
        BY <1>2, OwnerFacts
      <4> HIDE DEF f, vp
      <4> QED BY <1>5, <3>1, <4>1
    <3> HIDE DEF f, vp, lip
    <3> QED BY <1>5, <1>6, <1>8, <3>1, <3>2 DEF FreePlace
  <2>3. s3 = sect_ext_write(Sect(h, s1.disk, s1.itm, s1.rec), p, e)
    BY <1>9
  <2>4. HEAD_SIZE <= vp /\ f <= SECTION_SIZE
    BY <2>2 DEF FreePlace
  <2>5. Stored(h, s1.itm, s1.rec, p, e, s3)
    BY <1>5, <1>11, <2>3, <2>4, StoreFacts
  <2>6. /\ s3 = Sect(s3.head, s3.disk, s3.itm, s3.rec)
        /\ s3.head.fst_rec_ptr = vp
    BY <1>11, <2>5 DEF Stored
  <2> HIDE DEF s3
  <2>7. t = Sect(Head3(vp - lip, lip, vp), Head3(vp - lip, lip, vp),
                 s3.itm, s3.rec)
    <3> HIDE DEF vp, lip
    <3> QED BY <2>6, SetBordersOp, SyncOp
  <2> HIDE DEF t
  <2>8. t.itm = s3.itm /\ t.rec = s3.rec /\ t.head = Head3(vp - lip, lip, vp)
    BY <2>7, Fields
  <2>9. Replaced(o, p, a, t) /\ OthersKept(s1, o, t)
    <3>1. Loose(s1) /\ o \in Slots
      BY <1>1, <1>2
    <3> HIDE DEF f, lip
    <3> QED BY <3>1, <1>11, <2>2, <2>3, <2>8, WriteAtPlace
  <2>10. Outcome(s, o, p, a, Done(t))
    BY <1>12, <2>9, DoneOutcome
  <2>11. MoveToFreeSpace(s, o, p, e) = Done(t)
    BY <1>13 DEF MoveToFreeSpace, t, s1, s2, s3
  <2> QED BY <2>10, <2>11
<1>14. CASE ~CanWrite(s2, p)
  <2>1. MoveToFreeSpace(s, o, p, e) = Failed(s2)
    BY <1>14 DEF MoveToFreeSpace, s1, s2
  <2>2. Outcome(s1, o, p, a, Failed(s2))
    BY <1>10, FailOutcome
  <2>3. Failed(s2).ret # "OK" /\ Failed(s2).sect = s2
    BY DEF Failed
  <2>4. OthersKept(s, o, s2)
    BY <1>12, <2>2, <2>3 DEF Outcome
  <2> QED BY <2>1, <2>3, <2>4 DEF Outcome
<1> QED BY <1>13, <1>14

-----------------------------------------------------------------------------
(* The update.                                                             *)

\* An update of a pristine section, whichever way it takes.
LEMMA UpdateOutcome ==
    ASSUME NEW s, Pristine(s), NEW o \in Owners(s), NEW p \in Payloads,
           NEW a \in Attrs
    PROVE  Outcome(s, o, p, a, sect_ext_update(s, o, p, EntityInit(p, a)))
<1> DEFINE old == s.itm[o]
           e   == Promoted(EntityInit(p, a), old)
<1>1. sect_ext_rd_itm(s, o) = old /\ old.init_rec_sz \in Nat
  BY OldFacts
<1>2. /\ e.key_size = Len(p.key) /\ e.val_size = Len(p.val) /\ e.attr = a
      /\ e.init_rec_sz \in Nat /\ Len(p.key) + Len(p.val) <= e.init_rec_sz
  <2>1. HasRoom(e, p, a)
    BY <1>1, PromotedFacts
  <2> QED BY <2>1 DEF HasRoom
<1>3. sect_ext_update(s, o, p, EntityInit(p, a)) = UpdateWith(s, o, p, old, e)
  BY <1>1 DEF sect_ext_update
<1> HIDE DEF e
<1>4. Outcome(s, o, p, a, Failed(s))
  BY FailOutcome
<1>5. CASE /\ RecStart(old) = s.head.fst_rec_ptr
           /\ s.head.free_space + old.init_rec_sz >= e.init_rec_sz
  <2>1. UpdateWith(s, o, p, old, e) = ReplaceAtBorder(s, o, p, old, e)
    BY <1>5 DEF UpdateWith
  <2> QED BY <1>2, <1>3, <1>5, <2>1, BorderOutcome
<1>6. CASE /\ RecStart(old) # s.head.fst_rec_ptr
           /\ e.init_rec_sz <= old.init_rec_sz
  <2>1. UpdateWith(s, o, p, old, e) = ReplaceInGap(s, o, p, old, e)
    BY <1>6 DEF UpdateWith
  <2> QED BY <1>2, <1>3, <1>6, <2>1, GapOutcome
<1>7. CASE /\ RecStart(old) # s.head.fst_rec_ptr
           /\ ~(e.init_rec_sz <= old.init_rec_sz)
           /\ s.head.free_space >= entity_rec_sz(e)
  <2>1. UpdateWith(s, o, p, old, e) = MoveToFreeSpace(s, o, p, e)
    BY <1>7 DEF UpdateWith
  <2> QED BY <1>2, <1>3, <1>7, <2>1, MoveOutcome
<1>8. CASE UpdateWith(s, o, p, old, e) = Failed(s)
  BY <1>3, <1>4, <1>8
<1> QED BY <1>5, <1>6, <1>7, <1>8 DEF UpdateWith

\* The first update of an entity, when it returns OK, replaces its record in
\* place and puts the borders back around everything that is stored.  For
\* every section size, item size and set of payloads.
THEOREM UpdateReplacesRecord == USpec => UpdateReplaces
<1>1. ASSUME NEW o \in Owners(sect), NEW p \in Payloads, NEW a \in Attrs,
             Pristine(sect), Update(o, p, a),
             sect_ext_update(sect, o, p, EntityInit(p, a)).ret = "OK"
      PROVE  /\ Enclosed(sect')
             /\ Content(sect')[o] = [key |-> p.key, val |-> p.val, attr |-> a]
  <2>1. sect' = sect_ext_update(sect, o, p, EntityInit(p, a)).sect
    BY <1>1 DEF Update
  <2>2. Outcome(sect, o, p, a, sect_ext_update(sect, o, p, EntityInit(p, a)))
    BY <1>1, UpdateOutcome
  <2>3. Replaced(o, p, a, sect')
    BY <1>1, <2>1, <2>2 DEF Outcome
  <2> QED BY <2>3 DEF Replaced
<1> DEFINE A == \A o \in Owners(sect), p \in Payloads, a \in Attrs :
                   /\ Pristine(sect)
                   /\ Update(o, p, a)
                   /\ sect_ext_update(sect, o, p, EntityInit(p, a)).ret = "OK"
                   => /\ Enclosed(sect')
                      /\ Content(sect')[o]
                           = [key |-> p.key, val |-> p.val, attr |-> a]
<1>2. [UNext]_uvars => [A]_uvars
  BY <1>1
<1> QED BY <1>2, PTL DEF USpec, UpdateReplaces

\* Whatever that update returns, all other entities read as they did before,
\* also when it fails after it has deleted the entity.
THEOREM UpdateKeepsOtherRecords == USpec => UpdateKeepsOthers
<1>1. ASSUME NEW o \in Owners(sect), NEW p \in Payloads, NEW a \in Attrs,
             Pristine(sect), Update(o, p, a)
      PROVE  \A q \in DOMAIN sect.itm \ {o} :
                /\ q \in DOMAIN sect'.itm
                /\ Content(sect')[q] = Content(sect)[q]
  <2>1. sect' = sect_ext_update(sect, o, p, EntityInit(p, a)).sect
    BY <1>1 DEF Update
  <2>2. Outcome(sect, o, p, a, sect_ext_update(sect, o, p, EntityInit(p, a)))
    BY <1>1, UpdateOutcome
  <2>3. OthersKept(sect, o, sect')
    BY <2>1, <2>2 DEF Outcome
  <2> QED BY <2>3 DEF OthersKept
<1> DEFINE A == \A o \in Owners(sect), p \in Payloads, a \in Attrs :
                   Pristine(sect) /\ Update(o, p, a) =>
                      \A q \in DOMAIN sect.itm \ {o} :
                         /\ q \in DOMAIN sect'.itm
                         /\ Content(sect')[q] = Content(sect)[q]
<1>2. [UNext]_uvars => [A]_uvars
  BY <1>1
<1> QED BY <1>2, PTL DEF USpec, UpdateKeepsOthers

-----------------------------------------------------------------------------
(* When a section is pristine.                                             *)

\* No entity has a place larger than its record.
Exact(s) == \A o \in DOMAIN s.itm : s.itm[o].init_rec_sz = entity_rec_sz(s.itm[o])

\* Writes and deletes give an entity a place of the size of its record.
LEMMA NextExact ==
    ASSUME SectInv(sect), Exact(sect), [Next]_sect
    PROVE  Exact(sect')
<1>0. Loose(sect)
  BY DEF SectInv
<1>1. CASE UNCHANGED sect
  BY <1>1
<1>2. ASSUME NEW p \in Payloads, WriteFails(p)
      PROVE  Exact(sect')
  BY <1>2 DEF WriteFails
<1>3. ASSUME NEW p \in Payloads, NEW a \in Attrs, Write(p, a)
      PROVE  Exact(sect')
  <2> DEFINE lip == sect.head.lst_itm_ptr
             kp  == sect.head.fst_rec_ptr - Len(p.key)
             q   == Placed(EntityInit(p, a), kp, kp - Len(p.val))
  <2>1. CanWrite(sect, p) /\ sect' = sect_ext_write(sect, p, EntityInit(p, a))
    BY <1>3 DEF Write
  <2>2. WriteEffect(sect, p, a)
    BY <1>0, <2>1, WriteFacts
  <2>3. sect'.itm = [x \in DOMAIN sect.itm \cup {lip} |->
                       IF x = lip THEN q ELSE sect.itm[x]]
    BY <2>1, <2>2 DEF WriteEffect
  <2>4. q.init_rec_sz = entity_rec_sz(q)
    BY DEF Placed, EntityInit, entity_rec_sz
  <2> HIDE DEF q, lip
  <2>5. ASSUME NEW x \in DOMAIN sect'.itm
        PROVE  sect'.itm[x].init_rec_sz = entity_rec_sz(sect'.itm[x])
    <3>1. CASE x = lip
      BY <2>3, <2>4, <3>1
    <3>2. CASE x # lip
      <4>1. x \in DOMAIN sect.itm /\ sect'.itm[x] = sect.itm[x]
        BY <2>3, <3>2
      <4> QED BY <4>1 DEF Exact
    <3> QED BY <3>1, <3>2
  <2> QED BY <2>5 DEF Exact
<1>4. ASSUME NEW o \in Slots, Delete(o)
      PROVE  Exact(sect')
  <2>1. sect'.itm = [x \in DOMAIN sect.itm \ {o} |-> sect.itm[x]]
    BY <1>4, DeleteInv DEF Delete
  <2> QED BY <2>1 DEF Exact
<1>5. ASSUME NEW o \in Slots, Read(o)
      PROVE  Exact(sect')
  BY <1>5, SyncSame DEF Read
<1>6. ASSUME NEW o \in Slots, NEW a \in Attrs, Relink(o, a)
      PROVE  Exact(sect')
  <2> DEFINE e == sect.itm[o]
             q == [e EXCEPT !.attr = a]
  <2>1. o \in DOMAIN sect.itm /\ sect' = sect_ext_wrt_itm(sect, o, q)
    BY <1>6 DEF Relink
  <2>2. /\ DOMAIN sect'.itm = DOMAIN sect.itm /\ sect'.itm[o] = q
        /\ \A x \in DOMAIN sect.itm : x # o => sect'.itm[x] = sect.itm[x]
    BY <2>1, RelinkInv
  <2>3. e \in Entities
    BY <1>0, <2>1, LooseTypes
  <2>4. q.init_rec_sz = e.init_rec_sz /\ entity_rec_sz(q) = entity_rec_sz(e)
    BY <2>3 DEF Entities, entity_rec_sz
  <2> HIDE DEF q
  <2> QED BY <2>1, <2>2, <2>4 DEF Exact
<1> QED BY <1>1, <1>2, <1>3, <1>4, <1>5, <1>6 DEF Next

\* Until sect_ext_update is called for the first time, the section is pristine:
\* the premise of the two theorems above holds of everything that writes,
\* deletes and relinks can build.
THEOREM PristineUntilUpdated ==
    ASSUME NoZeroHead
    PROVE  USpec => [](updates = 0 => Pristine(sect))
<1> DEFINE I == /\ updates \in Nat
                /\ updates = 0 => SectInv(sect) /\ Exact(sect)
<1>1. UInit => I
  <2>1. DOMAIN sect_head_ctor.itm = {}
    BY DEF sect_head_ctor
  <2> QED BY <2>1, CtorInv DEF UInit, Init, Exact
<1>2. I /\ [UNext]_uvars => I'
  <2> SUFFICES ASSUME I, [UNext]_uvars PROVE I'
    OBVIOUS
  <2>1. CASE UNCHANGED updates /\ [Next]_sect
    <3>1. updates' \in Nat
      BY <2>1
    <3>2. ASSUME updates' = 0
          PROVE  SectInv(sect') /\ Exact(sect')
      BY <2>1, <3>2, NextInv, NextExact
    <3> QED BY <3>1, <3>2
  <2>2. ASSUME NEW o \in Slots, NEW p \in Payloads, NEW a \in Attrs,
               Update(o, p, a)
        PROVE  updates' \in Nat /\ updates' # 0
    BY <2>2 DEF Update
  <2> QED BY <2>1, <2>2 DEF UNext, uvars
<1>3. I => (updates = 0 => Pristine(sect))
  BY DEF SectInv, Loose, Exact, Pristine
<1> HIDE DEF I
<1> QED BY <1>1, <1>2, <1>3, PTL DEF USpec
=============================================================================
