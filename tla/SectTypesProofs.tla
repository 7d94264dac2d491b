-------------------------- MODULE SectTypesProofs ---------------------------
(***************************************************************************)
(* Proofs about SectTypes, for every section size, slot size and set of    *)
(* types.                                                                  *)
(***************************************************************************)
EXTENDS SectTypes, SectHeadProofs

-----------------------------------------------------------------------------
(* The geometry of a type's slots.                                         *)

\* The slots of a type follow one another.
LEMMA SlotAtStep ==
    ASSUME NEW o \in Nat, NEW i \in Nat
    PROVE  /\ SlotAt(o, 0) = o
           /\ SlotAt(o, i) \in Nat
           /\ SlotAt(o, i + 1) = SlotAt(o, i) + ITM_SIZE
           /\ i > 0 => SlotAt(o, i) = SlotAt(o, i - 1) + ITM_SIZE
<1>1. i * ITM_SIZE \in Nat
  BY SizeAssumption
<1>2. (i + 1) * ITM_SIZE = i * ITM_SIZE + ITM_SIZE
  BY SizeAssumption
<1>3. i * ITM_SIZE = (i - 1) * ITM_SIZE + ITM_SIZE
  BY SizeAssumption
<1>4. 0 * ITM_SIZE = 0
  BY SizeAssumption
<1>5. (i - 1) * ITM_SIZE \in Int
  BY SizeAssumption
<1> QED BY <1>1, <1>2, <1>3, <1>4, <1>5, SizeAssumption DEF SlotAt

\* A later slot of a type lies at least one slot further.
LEMMA SlotAtOrder ==
    ASSUME NEW o \in Nat, NEW i \in Nat, NEW j \in Nat, i < j
    PROVE  SlotAt(o, i) + ITM_SIZE <= SlotAt(o, j)
<1>1. (i + 1) * ITM_SIZE <= j * ITM_SIZE
  BY SizeAssumption
<1>2. (i + 1) * ITM_SIZE = i * ITM_SIZE + ITM_SIZE
  BY SizeAssumption
<1>3. i * ITM_SIZE \in Int /\ j * ITM_SIZE \in Int
  BY SizeAssumption
<1> QED BY <1>1, <1>2, <1>3, SizeAssumption DEF SlotAt

\* The slots after a slot are slots, as far as the section reaches.
LEMMA SlotAtSlot ==
    ASSUME NEW o \in Slots, NEW i \in Nat, SlotAt(o, i) <= SECTION_SIZE
    PROVE  SlotAt(o, i) \in Slots
<1>0. o \in Nat
  BY SizeAssumption DEF Slots
<1> DEFINE S == {n \in Nat : SlotAt(o, n) <= SECTION_SIZE => SlotAt(o, n) \in Slots}
<1>1. 0 \in S
  BY <1>0, SlotAtStep
<1>2. ASSUME NEW n \in Nat, n \in S PROVE n + 1 \in S
  <2>1. /\ SlotAt(o, n) \in Nat /\ SlotAt(o, n + 1) = SlotAt(o, n) + ITM_SIZE
    BY <1>0, SlotAtStep
  <2> SUFFICES ASSUME SlotAt(o, n + 1) <= SECTION_SIZE
               PROVE  SlotAt(o, n + 1) \in Slots
    OBVIOUS
  <2>2. SlotAt(o, n) \in Slots
    BY <1>2, <2>1, SizeAssumption
  <2> QED BY <2>1, <2>2, SlotNext
<1> HIDE DEF S
<1>3. i \in S
  BY <1>1, <1>2, NatInduct
<1> QED BY <1>3 DEF S

-----------------------------------------------------------------------------
(* The recursive functions satisfy their equations.                        *)

\* NameBytes, the sizes added up one name at a time.
LEMMA NameBytesEq ==
    ASSUME NEW t, Len(t.attrs) \in Nat
    PROVE  /\ NameBytes(t)[0] = 0 + Len(NameOf(t, 0))
           /\ \A k \in 1..Len(t.attrs) :
                 NameBytes(t)[k] = NameBytes(t)[k - 1] + Len(NameOf(t, k))
<1> DEFINE n == Len(t.attrs)
           L(k) == Len(NameOf(t, k))
           Eq(g, m) == g = [k \in 0..m |-> (IF k = 0 THEN 0 ELSE g[k - 1]) + L(k)]
           S == {m \in Nat : \E g : Eq(g, m)}
<1> HIDE DEF L
<1>1. 0 \in S
  <2> DEFINE g == [k \in 0..0 |-> 0 + L(0)]
  <2>1. g = [k \in 0..0 |-> (IF k = 0 THEN 0 ELSE g[k - 1]) + L(k)]
    OBVIOUS
  <2>2. Eq(g, 0)
    BY <2>1
  <2> QED BY <2>2
<1>2. ASSUME NEW m \in Nat, m \in S PROVE m + 1 \in S
  <2>1. PICK g : Eq(g, m)
    BY <1>2
  <2> DEFINE h == [k \in 0..(m + 1) |->
                     IF k = m + 1 THEN g[m] + L(m + 1) ELSE g[k]]
  <2>2. ASSUME NEW k \in 0..(m + 1)
        PROVE  h[k] = (IF k = 0 THEN 0 ELSE h[k - 1]) + L(k)
    <3>1. CASE k = m + 1
      <4>1. h[k] = g[m] + L(m + 1) /\ k # 0 /\ h[k - 1] = g[m]
        BY <3>1
      <4> QED BY <3>1, <4>1
    <3>2. CASE k # m + 1
      <4>1. k \in 0..m /\ h[k] = g[k] /\ (k # 0 => h[k - 1] = g[k - 1])
        BY <3>2
      <4>2. g[k] = (IF k = 0 THEN 0 ELSE g[k - 1]) + L(k)
        BY <2>1, <4>1
      <4> HIDE DEF h
      <4> QED BY <4>1, <4>2
    <3> QED BY <3>1, <3>2
  <2>3. h = [k \in 0..(m + 1) |-> h[k]]
    OBVIOUS
  <2> HIDE DEF h
  <2>4. Eq(h, m + 1)
    BY <2>2, <2>3
  <2> HIDE DEF Eq
  <2> QED BY <2>4
<1>3. n \in S
  <2> HIDE DEF S
  <2> QED BY <1>1, <1>2, NatInduct
<1>4. PICK g0 : Eq(g0, n)
  BY <1>3
<1> DEFINE f == CHOOSE g : Eq(g, n)
<1>5. Eq(f, n)
  <2> HIDE DEF Eq
  <2> QED BY <1>4
<1>6. NameBytes(t) = f
  BY DEF NameBytes, L
<1> HIDE DEF f
<1>7. /\ f[0] = 0 + L(0)
      /\ \A k \in 1..n : f[k] = f[k - 1] + L(k)
  BY <1>5
<1> QED BY <1>6, <1>7 DEF L

\* TypeSlots, one slot stored after the other.
LEMMA TypeSlotsEq ==
    ASSUME NEW s, NEW t, Len(t.attrs) \in Nat
    PROVE  /\ TypeSlots(s, t)[0] = PutSlot(s, NameOf(t, 0), ExtraOf(t, 0))
           /\ \A k \in 1..Len(t.attrs) :
                 TypeSlots(s, t)[k] = PutSlot(TypeSlots(s, t)[k - 1],
                                              NameOf(t, k), ExtraOf(t, k))
<1> DEFINE n == Len(t.attrs)
           P(w, k) == PutSlot(w, NameOf(t, k), ExtraOf(t, k))
           Eq(g, m) == g = [k \in 0..m |-> P(IF k = 0 THEN s ELSE g[k - 1], k)]
           S == {m \in Nat : \E g : Eq(g, m)}
<1> HIDE DEF P
<1>1. 0 \in S
  <2> DEFINE g == [k \in 0..0 |-> P(s, 0)]
  <2>1. g = [k \in 0..0 |-> P(IF k = 0 THEN s ELSE g[k - 1], k)]
    OBVIOUS
  <2>2. Eq(g, 0)
    BY <2>1
  <2> QED BY <2>2
<1>2. ASSUME NEW m \in Nat, m \in S PROVE m + 1 \in S
  <2>1. PICK g : Eq(g, m)
    BY <1>2
  <2> DEFINE h == [k \in 0..(m + 1) |->
                     IF k = m + 1 THEN P(g[m], m + 1) ELSE g[k]]
  <2>2. ASSUME NEW k \in 0..(m + 1)
        PROVE  h[k] = P(IF k = 0 THEN s ELSE h[k - 1], k)
    <3>1. CASE k = m + 1
      <4>1. h[k] = P(g[m], m + 1) /\ k # 0 /\ h[k - 1] = g[m]
        BY <3>1
      <4> HIDE DEF h
      <4> QED BY <3>1, <4>1
    <3>2. CASE k # m + 1
      <4>1. k \in 0..m /\ h[k] = g[k] /\ (k # 0 => h[k - 1] = g[k - 1])
        BY <3>2
      <4>2. g[k] = P(IF k = 0 THEN s ELSE g[k - 1], k)
        BY <2>1, <4>1
      <4> HIDE DEF h
      <4> QED BY <4>1, <4>2
    <3> QED BY <3>1, <3>2
  <2>3. h = [k \in 0..(m + 1) |-> h[k]]
    OBVIOUS
  <2> HIDE DEF h
  <2>4. Eq(h, m + 1)
    BY <2>2, <2>3
  <2> HIDE DEF Eq
  <2> QED BY <2>4
<1>3. n \in S
  <2> HIDE DEF S
  <2> QED BY <1>1, <1>2, NatInduct
<1>4. PICK g0 : Eq(g0, n)
  BY <1>3
<1> DEFINE f == CHOOSE g : Eq(g, n)
<1>5. Eq(f, n)
  <2> HIDE DEF Eq
  <2> QED BY <1>4
<1>6. TypeSlots(s, t) = f
  BY DEF TypeSlots, P
<1> HIDE DEF f
<1>7. /\ f[0] = P(s, 0)
      /\ \A k \in 1..n : f[k] = P(f[k - 1], k)
  BY <1>5
<1> QED BY <1>6, <1>7 DEF P

\* WalkFrom, one type after the other.  The walk gets further at every step,
\* so a function that satisfies the equation exists: by induction over m, on
\* the offsets from lst_itm_ptr - m on.
LEMMA WalkEq ==
    ASSUME NEW s, s.head.lst_itm_ptr \in Nat,
           \A o \in DOMAIN s.itm : s.itm[o].extra \in Nat
    PROVE  \A o \in Nat :
              WalkFrom(s)[o] =
                 IF o >= s.head.lst_itm_ptr THEN <<>>
                 ELSE <<o>> \o WalkFrom(s)[SlotAt(o, RdSlot(s, o).extra + 1)]
<1> DEFINE lip == s.head.lst_itm_ptr
           Nx(o) == SlotAt(o, RdSlot(s, o).extra + 1)
           D(m) == {o \in Nat : o + m >= lip}
           Eq(g, A) == g = [o \in A |-> IF o >= lip THEN <<>>
                                        ELSE <<o>> \o g[Nx(o)]]
           S == {m \in Nat : \E g : Eq(g, D(m))}
<1>0. ASSUME NEW o \in Nat PROVE Nx(o) \in Nat /\ Nx(o) > o
  <2>1. RdSlot(s, o).extra \in Nat
    BY DEF RdSlot, ZeroSlot
  <2> DEFINE e == RdSlot(s, o).extra
  <2>2. e \in Nat /\ e + 1 \in Nat /\ 0 < e + 1
    BY <2>1
  <2> HIDE DEF e
  <2>3. /\ SlotAt(o, e + 1) \in Nat /\ SlotAt(o, 0) + ITM_SIZE <= SlotAt(o, e + 1)
        /\ SlotAt(o, 0) = o
    BY <2>2, SlotAtStep, SlotAtOrder
  <2>4. SlotAt(o, e + 1) > o
    BY <2>3, SizeAssumption
  <2> QED BY <2>3, <2>4 DEF e
<1> HIDE DEF Nx
<1>1. 0 \in S
  <2> DEFINE g == [o \in D(0) |-> <<>>]
  <2>1. g = [o \in D(0) |-> IF o >= lip THEN <<>> ELSE <<o>> \o g[Nx(o)]]
    OBVIOUS
  <2>2. Eq(g, D(0))
    BY <2>1
  <2> QED BY <2>2
<1>2. ASSUME NEW m \in Nat, m \in S PROVE m + 1 \in S
  <2>1. PICK g : Eq(g, D(m))
    BY <1>2
  <2> DEFINE h == [o \in D(m + 1) |-> IF o \in D(m) THEN g[o]
                                      ELSE <<o>> \o g[Nx(o)]]
  <2>2. ASSUME NEW o \in D(m + 1)
        PROVE  h[o] = IF o >= lip THEN <<>> ELSE <<o>> \o h[Nx(o)]
    <3>1. o \in Nat /\ Nx(o) \in Nat /\ Nx(o) > o
      BY <1>0
    <3>2. Nx(o) \in D(m) /\ Nx(o) \in D(m + 1)
      BY <3>1
    <3>3. h[Nx(o)] = g[Nx(o)]
      BY <3>2
    <3>4. CASE o \in D(m)
      <4>1. h[o] = g[o]
        BY <3>4
      <4>2. g[o] = IF o >= lip THEN <<>> ELSE <<o>> \o g[Nx(o)]
        BY <2>1, <3>4
      <4> HIDE DEF h
      <4> QED BY <3>3, <4>1, <4>2
    <3>5. CASE o \notin D(m)
      <4>1. h[o] = <<o>> \o g[Nx(o)]
        BY <3>5
      <4>2. ~(o >= lip)
        BY <3>1, <3>5
      <4> HIDE DEF h
      <4> QED BY <3>3, <4>1, <4>2
    <3> QED BY <3>4, <3>5
  <2>3. h = [o \in D(m + 1) |-> h[o]]
    OBVIOUS
  <2> HIDE DEF h, D
  <2>4. Eq(h, D(m + 1))
    BY <2>2, <2>3
  <2> HIDE DEF Eq
  <2> QED BY <2>4
<1>3. lip \in S
  <2> HIDE DEF S
  <2> QED BY <1>1, <1>2, NatInduct
<1>4. D(lip) = Nat
  OBVIOUS
<1>5. PICK g0 : Eq(g0, Nat)
  <2> HIDE DEF Eq
  <2> QED BY <1>3, <1>4
<1> DEFINE f == CHOOSE g : Eq(g, Nat)
<1>6. Eq(f, Nat)
  <2> HIDE DEF Eq
  <2> QED BY <1>5
<1>7. WalkFrom(s) = f
  BY DEF WalkFrom, Nx
<1> HIDE DEF f
<1>8. \A o \in Nat : f[o] = IF o >= lip THEN <<>> ELSE <<o>> \o f[Nx(o)]
  BY <1>6
<1> QED BY <1>7, <1>8 DEF Nx

-----------------------------------------------------------------------------
(* The part of the invariant that no property of the names is needed for.  *)

SlotEntities == [name_size : Nat, name_ptr : Nat, extra : Nat]

\* Types, a coherent header, and the items below lst_itm_ptr.
Basic(s) ==
    /\ s = Sect(s.head, s.disk, s.itm, s.rec)
    /\ s.head \in Heads
    /\ HeadOK(s)
    /\ s.itm = [x \in DOMAIN s.itm |-> s.itm[x]]
    /\ \A x \in DOMAIN s.itm : /\ x \in Slots
                               /\ x + ITM_SIZE <= s.head.lst_itm_ptr
                               /\ s.itm[x] \in SlotEntities
    /\ s.rec \in [Addr -> Byte]

\* The numbers in a basic section.
LEMMA BasicTypes ==
    ASSUME NEW s, Basic(s)
    PROVE  /\ s.head.lst_itm_ptr \in Slots
           /\ s.head.lst_itm_ptr \in Nat /\ s.head.fst_rec_ptr \in Nat
           /\ HEAD_SIZE <= s.head.lst_itm_ptr
           /\ s.head.lst_itm_ptr <= s.head.fst_rec_ptr
           /\ s.head.fst_rec_ptr <= SECTION_SIZE
           /\ s.head.free_space = s.head.fst_rec_ptr - s.head.lst_itm_ptr
           /\ s.disk = s.head
           /\ s.head.lst_itm_ptr \notin DOMAIN s.itm
           /\ \A x \in DOMAIN s.itm :
                 /\ x \in Nat /\ x \in Slots /\ x + ITM_SIZE <= s.head.lst_itm_ptr
                 /\ s.itm[x].name_size \in Nat /\ s.itm[x].name_ptr \in Nat
                 /\ s.itm[x].extra \in Nat
<1>1. HeadOK(s) /\ s.head \in Heads
  BY DEF Basic
<1>2. /\ s.head.lst_itm_ptr \in Slots
      /\ s.head.lst_itm_ptr <= s.head.fst_rec_ptr
      /\ s.head.fst_rec_ptr <= SECTION_SIZE
      /\ s.head.free_space = s.head.fst_rec_ptr - s.head.lst_itm_ptr
      /\ s.disk = s.head
  BY <1>1 DEF HeadOK
<1>3. s.head.lst_itm_ptr \in Nat /\ HEAD_SIZE <= s.head.lst_itm_ptr
  BY <1>2, SizeAssumption DEF Slots
<1>4. s.head.fst_rec_ptr \in Nat
  BY <1>1, <1>2, <1>3 DEF Heads
<1>5. ASSUME NEW x \in DOMAIN s.itm
      PROVE  /\ x \in Nat /\ x \in Slots /\ x + ITM_SIZE <= s.head.lst_itm_ptr
             /\ s.itm[x].name_size \in Nat /\ s.itm[x].name_ptr \in Nat
             /\ s.itm[x].extra \in Nat
  <2>1. /\ x \in Slots /\ x + ITM_SIZE <= s.head.lst_itm_ptr
        /\ s.itm[x] \in SlotEntities
    BY DEF Basic
  <2>2. x \in Nat
    BY <2>1, SizeAssumption DEF Slots
  <2> QED BY <2>1, <2>2 DEF SlotEntities
<1>6. s.head.lst_itm_ptr \notin DOMAIN s.itm
  BY <1>3, <1>5, SizeAssumption
<1> QED BY <1>2, <1>3, <1>4, <1>5, <1>6

\* What PutSlot does when the name and its entity fit.
PutEffect(s, name, extra, t) ==
    LET lip == s.head.lst_itm_ptr
        frp == s.head.fst_rec_ptr
        p   == frp - Len(name)
    IN  /\ Basic(t)
        /\ t.head.lst_itm_ptr = lip + ITM_SIZE
        /\ t.head.fst_rec_ptr = p
        /\ lip + ITM_SIZE <= p
        /\ t.itm = [x \in DOMAIN s.itm \cup {lip} |->
                      IF x = lip THEN [name_size |-> Len(name), name_ptr |-> p,
                                       extra |-> extra]
                      ELSE s.itm[x]]
        /\ \A b \in Addr : t.rec[b] = IF p <= b /\ b < frp THEN name[b - p + 1]
                                      ELSE s.rec[b]

\* PutSlot has that effect.
LEMMA PutFacts ==
    ASSUME NEW s, Basic(s), NEW name \in Seq(Byte), NEW extra \in Nat,
           s.head.free_space >= ITM_SIZE + Len(name)
    PROVE  PutEffect(s, name, extra, PutSlot(s, name, extra))
<1> DEFINE h   == s.head
           lip == h.lst_itm_ptr
           frp == h.fst_rec_ptr
           n   == Len(name)
           p   == frp - n
           e   == [name_size |-> n, name_ptr |-> p, extra |-> extra]
           h1  == Head3(h.free_space + (-n), lip, frp + (-n))
           h2  == Head3(h1.free_space - ITM_SIZE, h1.lst_itm_ptr + ITM_SIZE,
                        h1.fst_rec_ptr)
           rec == Overwrite(s.rec, p, name)
           itm == [x \in DOMAIN s.itm \cup {lip} |->
                     IF x = lip THEN e ELSE s.itm[x]]
           s1  == sect_head_shift_frp(s, -n)
           s2  == sect_head_write(s1, s1.head.fst_rec_ptr, name)
           s3  == WriteItm(s2, s2.head.lst_itm_ptr,
                    [name_size |-> n, name_ptr |-> s2.head.fst_rec_ptr,
                     extra |-> extra])
           t   == sect_head_shift_lip(s3, ITM_SIZE)
<1>1. /\ lip \in Slots /\ lip \in Nat /\ frp \in Nat /\ HEAD_SIZE <= lip
      /\ lip <= frp /\ frp <= SECTION_SIZE /\ h.free_space = frp - lip
  BY BasicTypes
<1>2. s = Sect(h, s.disk, s.itm, s.rec) /\ s.rec \in [Addr -> Byte]
  BY DEF Basic
<1>3. n \in Nat
  OBVIOUS
<1>4. lip + ITM_SIZE <= p /\ p \in Nat
  <2>1. h.free_space >= ITM_SIZE + n
    OBVIOUS
  <2> HIDE DEF h, lip, frp, n
  <2> QED BY <1>1, <1>3, <2>1, SizeAssumption
<1>5. h1.fst_rec_ptr = p /\ h1.lst_itm_ptr = lip /\ h1.free_space = p - lip
  <2> HIDE DEF h, lip, frp, n
  <2> QED BY <1>1, <1>3 DEF Head3
<1>6. s1 = Sect(h1, h1, s.itm, s.rec)
  <2> HIDE DEF h1, n, h
  <2> QED BY <1>2, ShiftFrpOp DEF h1
<1> HIDE DEF h1, s1
<1>7. s2 = Sect(h1, h1, s.itm, rec)
  BY <1>5, <1>6, WriteBytesOp, Fields
<1> HIDE DEF s2, rec
<1>8. s3 = Sect(h1, h1, itm, rec)
  <2>1. s2.head.lst_itm_ptr = lip /\ s2.head.fst_rec_ptr = p
    BY <1>5, <1>7, Fields
  <2>2. s3 = WriteItm(s2, lip, e)
    BY <2>1
  <2> HIDE DEF s3, e, lip, itm
  <2>3. itm = [x \in DOMAIN s.itm \cup {lip} |-> IF x = lip THEN e ELSE s.itm[x]]
    BY DEF itm
  <2>4. WriteItm(Sect(h1, h1, s.itm, rec), lip, e) = Sect(h1, h1, itm, rec)
    BY <2>3 DEF WriteItm, Sect
  <2> QED BY <1>7, <2>2, <2>4
<1> HIDE DEF s3, itm
<1>9. t = Sect(h2, h2, itm, rec)
  <2> HIDE DEF h2
  <2> QED BY <1>8, ShiftLipOp DEF h2
<1>10. PutSlot(s, name, extra) = t
  BY DEF PutSlot, s1, s2, s3
<1>11. /\ h2.lst_itm_ptr = lip + ITM_SIZE /\ h2.fst_rec_ptr = p
       /\ h2.free_space = p - (lip + ITM_SIZE) /\ h2 \in Heads
  <2>1. /\ h2.lst_itm_ptr = lip + ITM_SIZE /\ h2.fst_rec_ptr = p
        /\ h2.free_space = (p - lip) - ITM_SIZE
    BY <1>5, Fields
  <2>2. h2 = Head3(h2.free_space, h2.lst_itm_ptr, h2.fst_rec_ptr)
    BY Fields
  <2> HIDE DEF h2, p, lip
  <2>3. h2.free_space = p - (lip + ITM_SIZE)
    BY <1>1, <1>4, <2>1, SizeAssumption
  <2>4. h2.free_space \in Int /\ h2.lst_itm_ptr \in Int /\ h2.fst_rec_ptr \in Int
    BY <1>1, <1>4, <2>1, SizeAssumption
  <2>5. h2 \in Heads
    BY <2>2, <2>4 DEF Heads, Head3
  <2> QED BY <2>1, <2>3, <2>5
<1> HIDE DEF h2, t
<1>12. t.head = h2 /\ t.disk = h2 /\ t.itm = itm /\ t.rec = rec
  BY <1>9, Fields
<1>13. ASSUME NEW b \in Addr
       PROVE  /\ rec[b] = IF p <= b /\ b < frp THEN name[b - p + 1] ELSE s.rec[b]
              /\ rec[b] \in Byte
  <2>1. b \in Int /\ s.rec[b] \in Byte
    BY <1>2, SizeAssumption DEF Addr
  <2>2. rec[b] = IF b >= p /\ b < p + n THEN name[b - p + 1] ELSE s.rec[b]
    BY <1>2 DEF Overwrite, rec
  <2>3. p + n = frp
    <3> HIDE DEF n, frp
    <3> QED BY <1>1, <1>3
  <2>4. p <= b /\ b < frp => b - p + 1 \in 1..n
    <3> HIDE DEF n, frp, p
    <3> QED BY <1>1, <1>3, <1>4, <2>1, <2>3
  <2>5. p <= b /\ b < frp => name[b - p + 1] \in Byte
    BY <2>4
  <2> HIDE DEF p, frp, n
  <2> QED BY <2>1, <2>2, <2>3, <2>5
<1>14. rec \in [Addr -> Byte]
  <2>1. rec = [b \in Addr |-> rec[b]]
    BY <1>2 DEF Overwrite, rec
  <2> QED BY <1>13, <2>1
<1>15. e \in SlotEntities
  <2> HIDE DEF n, p
  <2> QED BY <1>3, <1>4 DEF SlotEntities
<1> HIDE DEF e
<1>16. /\ DOMAIN itm = DOMAIN s.itm \cup {lip} /\ itm[lip] = e
       /\ \A x \in DOMAIN s.itm : x # lip => itm[x] = s.itm[x]
       /\ itm = [x \in DOMAIN itm |-> itm[x]]
  BY DEF itm
<1>17. HeadOK(t)
  <2>1. lip + ITM_SIZE \in Slots
    <3>1. p <= SECTION_SIZE
      <4> HIDE DEF n, frp
      <4> QED BY <1>1, <1>3, SizeAssumption
    <3> HIDE DEF lip, p
    <3> QED BY <1>1, <1>4, <3>1, SlotNext, SizeAssumption
  <2>2. p <= SECTION_SIZE
    <3> HIDE DEF n, frp
    <3> QED BY <1>1, <1>3, SizeAssumption
  <2> HIDE DEF p, lip
  <2> QED BY <1>4, <1>11, <1>12, <2>1, <2>2 DEF HeadOK
<1>18. \A x \in DOMAIN itm : /\ x \in Slots /\ x + ITM_SIZE <= lip + ITM_SIZE
                            /\ itm[x] \in SlotEntities
  <2>1. \A x \in DOMAIN s.itm : /\ x \in Nat /\ x \in Slots
                               /\ x + ITM_SIZE <= lip
                               /\ s.itm[x] \in SlotEntities
    BY BasicTypes DEF Basic
  <2> HIDE DEF lip
  <2> QED BY <1>1, <1>15, <1>16, <2>1, SizeAssumption
<1>19. Basic(t)
  <2> HIDE DEF lip
  <2> QED BY <1>9, <1>11, <1>12, <1>14, <1>16, <1>17, <1>18 DEF Basic
<1>20. PutEffect(s, name, extra, t)
  BY <1>4, <1>11, <1>12, <1>13, <1>19 DEF PutEffect, itm, e
<1> QED BY <1>10, <1>20

-----------------------------------------------------------------------------
(* sect_types_write, slot by slot.                                         *)

\* The names and the third fields of a type a client defines.
LEMMA TypeFacts ==
    ASSUME NEW t \in TypeDefs
    PROVE  /\ Len(t.attrs) \in Nat
           /\ ExtraOf(t, 0) = Len(t.attrs)
           /\ \A i \in 0..Len(t.attrs) : /\ NameOf(t, i) \in Seq(Byte)
                                         /\ Len(NameOf(t, i)) \in Nat
                                         /\ ExtraOf(t, i) \in Nat
<1> DEFINE A == [name : Seq(Byte), type : Nat]
<1>1. t \in [name : Seq(Byte), attrs : Seq(A)]
  BY TypeDefsAssumption
<1>2. t.name \in Seq(Byte) /\ t.attrs \in Seq(A)
  BY <1>1
<1>3. \A i \in 1..Len(t.attrs) : t.attrs[i] \in A
  <2> HIDE DEF A
  <2> QED BY <1>2
<1>4. \A i \in 1..Len(t.attrs) : /\ t.attrs[i].name \in Seq(Byte)
                                 /\ t.attrs[i].type \in Nat
  BY <1>3
<1>5. Len(t.attrs) \in Nat
  BY <1>2
<1>6. ASSUME NEW i \in 0..Len(t.attrs)
      PROVE  NameOf(t, i) \in Seq(Byte) /\ ExtraOf(t, i) \in Nat
  <2>1. CASE i = 0
    BY <1>2, <1>5, <2>1 DEF NameOf, ExtraOf
  <2>2. CASE i # 0
    BY <1>4, <1>5, <2>2 DEF NameOf, ExtraOf
  <2> QED BY <2>1, <2>2
<1>7. \A q \in Seq(Byte) : Len(q) \in Nat
  OBVIOUS
<1> QED BY <1>5, <1>6, <1>7 DEF ExtraOf

\* The bytes of the names in the first k slots.
Above(t, k) == IF k = 0 THEN 0 ELSE NameBytes(t)[k - 1]

\* The sum of the sizes grows with every name.
LEMMA AboveFacts ==
    ASSUME NEW t \in TypeDefs
    PROVE  /\ Above(t, 0) = 0
           /\ Above(t, Len(t.attrs) + 1) = type_rec_sz(t)
           /\ \A k \in 0..(Len(t.attrs) + 1) : Above(t, k) \in Nat
           /\ \A k \in 0..Len(t.attrs) :
                 Above(t, k + 1) = Above(t, k) + Len(NameOf(t, k))
           /\ \A k \in 0..(Len(t.attrs) + 1) :
                 Above(t, k) <= Above(t, Len(t.attrs) + 1)
<1> DEFINE n == Len(t.attrs)
           B == NameBytes(t)
           L(k) == Len(NameOf(t, k))
           Up == Above(t, n + 1)
<1>1. n \in Nat /\ \A k \in 0..n : L(k) \in Nat
  BY TypeFacts
<1>2. B[0] = 0 + L(0) /\ \A k \in 1..n : B[k] = B[k - 1] + L(k)
  BY <1>1, NameBytesEq
<1>3. Above(t, 0) = 0 /\ Above(t, n + 1) = type_rec_sz(t)
  BY <1>1 DEF Above, type_rec_sz
<1> HIDE DEF L, B, n
<1>4. ASSUME NEW k \in 0..n
      PROVE  Above(t, k + 1) = Above(t, k) + L(k)
  <2>1. Above(t, k + 1) = B[k]
    BY <1>1 DEF Above, B
  <2>2. CASE k = 0
    BY <1>2, <1>3, <2>1, <2>2
  <2>3. CASE k # 0
    <3>1. k \in 1..n /\ Above(t, k) = B[k - 1]
      BY <1>1, <2>3 DEF Above, B
    <3> QED BY <1>2, <2>1, <3>1
  <2> QED BY <2>2, <2>3
<1>5. \A k \in 0..(n + 1) : Above(t, k) \in Nat
  <2> DEFINE S == {k \in Nat : k <= n + 1 => Above(t, k) \in Nat}
  <2>1. 0 \in S
    BY <1>3
  <2>2. ASSUME NEW k \in Nat, k \in S PROVE k + 1 \in S
    <3> SUFFICES ASSUME k + 1 <= n + 1 PROVE Above(t, k + 1) \in Nat
      OBVIOUS
    <3>1. k \in 0..n /\ Above(t, k) \in Nat
      BY <1>1, <2>2
    <3> QED BY <1>1, <1>4, <3>1
  <2> HIDE DEF S
  <2>3. \A k \in Nat : k \in S
    BY <2>1, <2>2, NatInduct
  <2> QED BY <1>1, <2>3 DEF S
<1>6. \A k \in 0..(n + 1) : Above(t, k) <= Up
  <2> DEFINE S == {m \in Nat : m <= n + 1 => Above(t, n + 1 - m) <= Up}
  <2>1. 0 \in S
    BY <1>1, <1>5
  <2>2. ASSUME NEW m \in Nat, m \in S PROVE m + 1 \in S
    <3> SUFFICES ASSUME m + 1 <= n + 1 PROVE Above(t, n + 1 - (m + 1)) <= Up
      OBVIOUS
    <3> DEFINE k == n - m
    <3>1. /\ k \in 0..n /\ k \in 0..(n + 1) /\ k + 1 \in 0..(n + 1)
          /\ n + 1 - (m + 1) = k /\ n + 1 - m = k + 1
          /\ n + 1 \in 0..(n + 1)
      BY <1>1
    <3> HIDE DEF k, Up
    <3>2. Above(t, k + 1) <= Up
      BY <1>1, <2>2, <3>1
    <3>3. /\ Above(t, k + 1) = Above(t, k) + L(k) /\ L(k) \in Nat
          /\ Above(t, k) \in Nat
      BY <1>1, <1>4, <1>5, <3>1
    <3>4. Up \in Nat
      BY <1>5, <3>1 DEF Up
    <3>5. Above(t, k) <= Up
      BY <3>2, <3>3, <3>4
    <3> QED BY <3>1, <3>5
  <2> HIDE DEF S
  <2>3. \A m \in Nat : m \in S
    BY <2>1, <2>2, NatInduct
  <2>4. ASSUME NEW k \in 0..(n + 1) PROVE Above(t, k) <= Up
    <3>1. n + 1 - k \in Nat /\ n + 1 - k <= n + 1 /\ n + 1 - (n + 1 - k) = k
      BY <1>1
    <3>2. n + 1 - k \in S
      BY <2>3, <3>1
    <3>3. Above(t, n + 1 - (n + 1 - k)) <= Up
      BY <3>1, <3>2 DEF S
    <3> QED BY <3>1, <3>3
  <2> QED BY <2>4
<1> QED BY <1>3, <1>4, <1>5, <1>6 DEF L, n

\* A type that fits leaves room for each of its slots and names.
LEMMA RoomFacts ==
    ASSUME NEW s, Basic(s), NEW t \in TypeDefs, CanWriteType(s, t),
           NEW k \in 0..(Len(t.attrs) + 1)
    PROVE  SlotAt(s.head.lst_itm_ptr, k) + Above(t, k) <= s.head.fst_rec_ptr
<1> DEFINE n == Len(t.attrs)
           lip == s.head.lst_itm_ptr
           frp == s.head.fst_rec_ptr
           a == Above(t, k)
           z == Above(t, n + 1)
<1>1. n \in Nat
  BY TypeFacts
<1>2. lip \in Nat /\ frp \in Nat /\ s.head.free_space = frp - lip
  BY BasicTypes
<1>3. a \in Nat /\ z \in Nat /\ a <= z /\ z = type_rec_sz(t)
  <2>1. n + 1 \in 0..(n + 1)
    BY <1>1
  <2> QED BY <2>1, AboveFacts
<1>4. s.head.free_space >= ITM_SIZE + n * ITM_SIZE + z
  BY <1>3 DEF CanWriteType, type_ph_sz, type_itm_sz
<1>5. SlotAt(lip, n + 1) = lip + n * ITM_SIZE + ITM_SIZE
  <2>1. SlotAt(lip, n + 1) = SlotAt(lip, n) + ITM_SIZE
    BY <1>1, <1>2, SlotAtStep
  <2> QED BY <2>1 DEF SlotAt
<1>6. SlotAt(lip, k) <= SlotAt(lip, n + 1) /\ SlotAt(lip, k) \in Nat
  <2>1. CASE k = n + 1
    <3> DEFINE j == n + 1
    <3>1. j \in Nat
      BY <1>1
    <3> HIDE DEF j, lip
    <3>2. SlotAt(lip, j) \in Nat
      BY <1>2, <3>1, SlotAtStep
    <3> QED BY <2>1, <3>2 DEF j
  <2>2. CASE k # n + 1
    <3>1. k \in Nat /\ k < n + 1 /\ n + 1 \in Nat
      BY <1>1, <2>2
    <3>2. /\ SlotAt(lip, k) + ITM_SIZE <= SlotAt(lip, n + 1)
          /\ SlotAt(lip, k) \in Nat /\ SlotAt(lip, n + 1) \in Nat
      BY <1>2, <3>1, SlotAtOrder, SlotAtStep
    <3> QED BY <3>2, SizeAssumption
  <2> QED BY <2>1, <2>2
<1>7. n * ITM_SIZE \in Nat
  BY <1>1, SizeAssumption
<1> DEFINE q == n * ITM_SIZE
           sk == SlotAt(lip, k)
<1>8. /\ q \in Nat /\ sk \in Nat /\ sk <= lip + q + ITM_SIZE
      /\ frp - lip >= ITM_SIZE + q + z
  BY <1>2, <1>4, <1>5, <1>6, <1>7
<1> HIDE DEF n, a, z, lip, frp, q, sk
<1>9. sk + a <= frp
  BY <1>2, <1>3, <1>8, SizeAssumption
<1> QED BY <1>9 DEF sk, a, frp, lip

\* The section w is s with the first k slots of t stored.
SlotsPut(s, t, k, w) ==
    LET lip == s.head.lst_itm_ptr
        frp == s.head.fst_rec_ptr
    IN  /\ Basic(w)
        /\ w.head.lst_itm_ptr = SlotAt(lip, k)
        /\ w.head.fst_rec_ptr = frp - Above(t, k)
        /\ DOMAIN w.itm = DOMAIN s.itm \cup {SlotAt(lip, i) : i \in 0..(k - 1)}
        /\ \A x \in DOMAIN s.itm : w.itm[x] = s.itm[x]
        /\ \A b \in Addr : b >= frp => w.rec[b] = s.rec[b]
        /\ \A i \in 0..(k - 1) :
              /\ Above(t, i + 1) <= Above(t, k)
              /\ w.itm[SlotAt(lip, i)] = [name_size |-> Len(NameOf(t, i)),
                                          name_ptr |-> frp - Above(t, i + 1),
                                          extra |-> ExtraOf(t, i)]
              /\ \A j \in 1..Len(NameOf(t, i)) :
                    w.rec[frp - Above(t, i + 1) + j - 1] = NameOf(t, i)[j]

\* PutSlot adds one slot, and has the room for it.
LEMMA SlotsPutStep ==
    ASSUME NEW s, Basic(s), NEW t \in TypeDefs, CanWriteType(s, t),
           NEW k \in 0..Len(t.attrs), NEW w, SlotsPut(s, t, k, w)
    PROVE  /\ w.head.free_space >= ITM_SIZE + Len(NameOf(t, k))
           /\ SlotsPut(s, t, k + 1, PutSlot(w, NameOf(t, k), ExtraOf(t, k)))
<1> DEFINE n == Len(t.attrs)
           lip == s.head.lst_itm_ptr
           frp == s.head.fst_rec_ptr
           nm == NameOf(t, k)
           len == Len(nm)
           ex == ExtraOf(t, k)
           v == PutSlot(w, nm, ex)
           x0 == SlotAt(lip, k)
           a == Above(t, k)
           c == Above(t, k + 1)
           p == frp - c
           q == frp - a
<1>1. n \in Nat /\ nm \in Seq(Byte) /\ len \in Nat /\ ex \in Nat
  BY TypeFacts
<1>2. lip \in Nat /\ frp \in Nat /\ HEAD_SIZE <= lip /\ frp <= SECTION_SIZE
  BY BasicTypes
<1>3. k \in Nat /\ k + 1 \in Nat /\ k \in 0..(n + 1) /\ k + 1 \in 0..(n + 1)
  BY <1>1
<1>4. a \in Nat /\ c \in Nat /\ c = a + len
  BY <1>1, <1>3, AboveFacts
<1>5. /\ x0 \in Nat /\ SlotAt(lip, k + 1) = x0 + ITM_SIZE
      /\ HEAD_SIZE <= x0
  <2>1. /\ x0 \in Nat /\ SlotAt(lip, k + 1) = x0 + ITM_SIZE
        /\ SlotAt(lip, 0) = lip
    BY <1>2, <1>3, SlotAtStep
  <2>2. k > 0 => SlotAt(lip, 0) + ITM_SIZE <= x0
    BY <1>2, <1>3, SlotAtOrder
  <2> QED BY <1>2, <1>3, <2>1, <2>2, SizeAssumption
<1>6. x0 + ITM_SIZE + c <= frp
  BY <1>3, <1>5, RoomFacts
<1>7. Basic(w) /\ w.head.lst_itm_ptr = x0 /\ w.head.fst_rec_ptr = q
  BY DEF SlotsPut
<1>8. w.head.free_space = q - x0
  BY <1>7, BasicTypes
<1> HIDE DEF x0, a, c, lip, frp, len
<1>9. w.head.free_space >= ITM_SIZE + len
  <2>1. len \in Nat /\ frp \in Nat /\ x0 \in Nat
    BY <1>1, <1>2, <1>5
  <2>2. q - x0 >= ITM_SIZE + len
    BY <1>4, <1>6, <2>1, SizeAssumption
  <2> QED BY <1>8, <2>2
<1>10. q - len = p /\ p \in Nat /\ q \in Nat /\ p <= q /\ q <= frp
  BY <1>1, <1>2, <1>4, <1>5, <1>6, SizeAssumption
<1>11. PutEffect(w, nm, ex, v)
  <2> HIDE DEF nm, ex
  <2> QED BY <1>1, <1>7, <1>9, PutFacts DEF len
<1> HIDE DEF v, nm, ex
<1>12. /\ Basic(v) /\ v.head.lst_itm_ptr = x0 + ITM_SIZE
       /\ v.head.fst_rec_ptr = p
       /\ v.itm = [x \in DOMAIN w.itm \cup {x0} |->
                     IF x = x0 THEN [name_size |-> len, name_ptr |-> p,
                                     extra |-> ex]
                     ELSE w.itm[x]]
       /\ \A b \in Addr : v.rec[b] = IF p <= b /\ b < q THEN nm[b - p + 1]
                                     ELSE w.rec[b]
  <2> HIDE DEF p, q
  <2> QED BY <1>7, <1>10, <1>11 DEF PutEffect, len
<1>13. x0 \notin DOMAIN w.itm
  BY <1>7, BasicTypes
<1>14. /\ DOMAIN v.itm = DOMAIN w.itm \cup {x0}
       /\ v.itm[x0] = [name_size |-> len, name_ptr |-> p, extra |-> ex]
       /\ \A x \in DOMAIN w.itm : v.itm[x] = w.itm[x]
  BY <1>12, <1>13
<1>15. DOMAIN v.itm = DOMAIN s.itm \cup {SlotAt(lip, i) : i \in 0..((k + 1) - 1)}
  <2>1. DOMAIN w.itm = DOMAIN s.itm \cup {SlotAt(lip, i) : i \in 0..(k - 1)}
    BY DEF SlotsPut, lip
  <2>2. \A i : i \in 0..((k + 1) - 1) <=> i \in 0..(k - 1) \/ i = k
    BY <1>3
  <2> QED BY <1>14, <2>1, <2>2 DEF x0
<1>16. \A x \in DOMAIN s.itm : v.itm[x] = s.itm[x]
  BY <1>14 DEF SlotsPut
<1>17. ASSUME NEW b \in Addr, b >= frp
       PROVE  v.rec[b] = s.rec[b]
  <2>1. b \in Int
    BY SizeAssumption DEF Addr
  <2>2. ~(b < q)
    BY <1>2, <1>10, <1>17, <2>1
  <2>3. w.rec[b] = s.rec[b]
    BY <1>17 DEF SlotsPut, frp
  <2> QED BY <1>12, <2>2, <2>3
<1>18. ASSUME NEW i \in 0..((k + 1) - 1)
       PROVE  /\ Above(t, i + 1) <= c
              /\ v.itm[SlotAt(lip, i)] = [name_size |-> Len(NameOf(t, i)),
                                          name_ptr |-> frp - Above(t, i + 1),
                                          extra |-> ExtraOf(t, i)]
              /\ \A j \in 1..Len(NameOf(t, i)) :
                    v.rec[frp - Above(t, i + 1) + j - 1] = NameOf(t, i)[j]
  <2>1. CASE i = k
    <3>1. Above(t, i + 1) = c /\ NameOf(t, i) = nm /\ ExtraOf(t, i) = ex
      BY <2>1 DEF c, nm, ex
    <3>2. ASSUME NEW j \in 1..len
          PROVE  v.rec[p + j - 1] = nm[j]
      <4> DEFINE b == p + j - 1
      <4>1. b \in Addr /\ p <= b /\ b < q /\ b - p + 1 = j
        <5>1. HEAD_SIZE <= p /\ q <= SECTION_SIZE /\ q = p + len
          BY <1>1, <1>2, <1>4, <1>5, <1>6, <1>10, SizeAssumption
        <5> HIDE DEF p, q
        <5> QED BY <1>1, <1>10, <5>1, SizeAssumption DEF Addr
      <4> HIDE DEF b, p, q
      <4>2. v.rec[b] = nm[b - p + 1]
        BY <1>12, <4>1
      <4> QED BY <4>1, <4>2 DEF b
    <3>3. v.itm[SlotAt(lip, i)] = [name_size |-> len, name_ptr |-> p,
                                   extra |-> ex]
      BY <1>14, <2>1 DEF x0
    <3>4. Above(t, i + 1) <= c
      BY <1>4, <3>1
    <3> QED BY <3>1, <3>2, <3>3, <3>4 DEF len
  <2>2. CASE i # k
    <3>1. i \in 0..(k - 1) /\ i \in 0..n /\ i + 1 \in 0..(n + 1)
      BY <1>1, <1>3, <2>2
    <3> DEFINE d == Above(t, i + 1)
               ni == NameOf(t, i)
    <3>2. /\ d <= a
          /\ w.itm[SlotAt(lip, i)] = [name_size |-> Len(ni),
                                      name_ptr |-> frp - d,
                                      extra |-> ExtraOf(t, i)]
          /\ \A j \in 1..Len(ni) : w.rec[frp - d + j - 1] = ni[j]
      BY <3>1 DEF SlotsPut, lip, frp, a
    <3>3. d \in Nat /\ Len(ni) \in Nat /\ d = Above(t, i) + Len(ni)
          /\ Above(t, i) \in Nat
      <4>1. i \in 0..(n + 1)
        BY <1>1, <3>1
      <4> QED BY <3>1, <4>1, AboveFacts, TypeFacts
    <3>4. SlotAt(lip, i) \in DOMAIN w.itm
      BY <3>1 DEF SlotsPut, lip
    <3> HIDE DEF d, ni
    <3>5. ASSUME NEW j \in 1..Len(ni)
          PROVE  v.rec[frp - d + j - 1] = ni[j]
      <4> DEFINE b == frp - d + j - 1
      <4>1. b \in Addr /\ ~(b < q)
        <5>1. b \in Int /\ b >= frp - d /\ b < frp
          BY <1>2, <3>3
        <5>2. d <= a /\ d \in Nat /\ len \in Nat
          BY <1>1, <3>2, <3>3
        <5>3. x0 <= frp - a
          BY <1>2, <1>4, <1>5, <1>6, <5>2, SizeAssumption
        <5> HIDE DEF b
        <5> QED BY <1>2, <1>4, <1>5, <5>1, <5>2, <5>3, SizeAssumption DEF Addr
      <4>2. w.rec[b] = ni[j]
        BY <3>2
      <4> HIDE DEF b, q, p
      <4>3. v.rec[b] = w.rec[b]
        BY <1>12, <4>1
      <4> QED BY <4>2, <4>3 DEF b
    <3>6. d <= c
      BY <1>1, <1>4, <3>2, <3>3
    <3> QED BY <1>14, <3>2, <3>4, <3>5, <3>6 DEF d, ni
  <2> QED BY <2>1, <2>2
<1>19. /\ v.head.lst_itm_ptr = SlotAt(lip, k + 1)
       /\ v.head.fst_rec_ptr = frp - Above(t, k + 1)
  BY <1>5, <1>12 DEF c
<1>20. SlotsPut(s, t, k + 1, v)
  BY <1>12, <1>15, <1>16, <1>17, <1>18, <1>19 DEF SlotsPut, c, lip, frp
<1> QED BY <1>9, <1>20 DEF v, nm, ex, len

-----------------------------------------------------------------------------
(* The names in the record area.                                           *)

\* The slots whose name is not empty, and where a name ends.
Named(s) == {x \in DOMAIN s.itm : s.itm[x].name_size # 0}
NameEnd(e) == e.name_ptr + e.name_size

NamesAbove(s) ==
    \A x \in Named(s) : /\ s.head.fst_rec_ptr <= s.itm[x].name_ptr
                        /\ NameEnd(s.itm[x]) <= SECTION_SIZE

\* Later slots have lower names.
NamesOrdered(s) ==
    \A x, y \in Named(s) : x < y => NameEnd(s.itm[y]) <= s.itm[x].name_ptr

\* No name begins with a zero byte, and other bytes belong to a name.
NamesFilled(s) ==
    /\ \A x \in Named(s) : s.rec[s.itm[x].name_ptr] # 0
    /\ \A b \in Addr : s.rec[b] # 0 =>
          \E x \in Named(s) : /\ s.itm[x].name_ptr <= b
                              /\ b < NameEnd(s.itm[x])

\* Both borders rest on something in use.
Bordered(s) ==
    /\ \/ s.head.lst_itm_ptr = HEAD_SIZE
       \/ s.head.lst_itm_ptr - ITM_SIZE \in DOMAIN s.itm
    /\ \/ s.head.fst_rec_ptr = SECTION_SIZE
       \/ \E x \in Named(s) : s.itm[x].name_ptr = s.head.fst_rec_ptr

\* Everything but the borders: what holds in the middle of a delete too.
NamesLoose(s) == /\ Basic(s)
                 /\ NamesAbove(s)
                 /\ NamesOrdered(s)
                 /\ NamesFilled(s)

NamesInv(s) == NamesLoose(s) /\ Bordered(s)

\* The name of a named slot.
LEMMA NamedFacts ==
    ASSUME NEW s, NamesLoose(s), NEW x \in Named(s)
    PROVE  /\ x \in DOMAIN s.itm /\ x \in Nat /\ x \in Slots
           /\ s.itm[x].name_ptr \in Nat /\ s.itm[x].name_size \in Nat
           /\ NameEnd(s.itm[x]) \in Nat
           /\ NameEnd(s.itm[x]) = s.itm[x].name_ptr + s.itm[x].name_size
           /\ s.head.fst_rec_ptr <= s.itm[x].name_ptr
           /\ s.itm[x].name_ptr < NameEnd(s.itm[x])
           /\ NameEnd(s.itm[x]) <= SECTION_SIZE
           /\ s.itm[x].name_ptr \in Addr
           /\ s.rec[s.itm[x].name_ptr] # 0
<1> DEFINE p == s.itm[x].name_ptr
           z == s.itm[x].name_size
           f == s.head.fst_rec_ptr
<1>1. x \in DOMAIN s.itm /\ z # 0
  BY DEF Named
<1>2. /\ x \in Nat /\ x \in Slots /\ p \in Nat /\ z \in Nat
      /\ f \in Nat /\ HEAD_SIZE <= s.head.lst_itm_ptr
      /\ s.head.lst_itm_ptr <= f /\ s.head.lst_itm_ptr \in Nat
  BY <1>1, BasicTypes DEF NamesLoose
<1>3. f <= p /\ p + z <= SECTION_SIZE /\ s.rec[p] # 0
  BY DEF NamesLoose, NamesAbove, NamesFilled, NameEnd
<1> HIDE DEF p, z, f
<1>4. p + z \in Nat /\ p < p + z
  BY <1>1, <1>2
<1>5. p \in Addr
  BY <1>1, <1>2, <1>3, SizeAssumption DEF Addr
<1> QED BY <1>1, <1>2, <1>3, <1>4, <1>5 DEF p, z, f, NameEnd

\* The names of two slots have no byte in common.
LEMMA NamesDisjoint ==
    ASSUME NEW s, NamesLoose(s), NEW x \in Named(s), NEW y \in Named(s),
           NEW b \in Int,
           s.itm[x].name_ptr <= b, b < NameEnd(s.itm[x]),
           s.itm[y].name_ptr <= b, b < NameEnd(s.itm[y])
    PROVE  x = y
<1>1. x \in Nat /\ y \in Nat
  BY NamedFacts
<1>2. /\ s.itm[x].name_ptr \in Nat /\ NameEnd(s.itm[x]) \in Nat
      /\ s.itm[y].name_ptr \in Nat /\ NameEnd(s.itm[y]) \in Nat
  BY NamedFacts
<1>3. x < y => NameEnd(s.itm[y]) <= s.itm[x].name_ptr
  BY DEF NamesLoose, NamesOrdered
<1>4. y < x => NameEnd(s.itm[x]) <= s.itm[y].name_ptr
  BY DEF NamesLoose, NamesOrdered
<1> QED BY <1>1, <1>2, <1>3, <1>4

\* Storing a name and its entity keeps the invariant.
LEMMA PutInv ==
    ASSUME NEW s, NamesInv(s), NEW name \in Seq(Byte), NEW extra \in Nat,
           s.head.free_space >= ITM_SIZE + Len(name),
           name # <<>> => name[1] # 0
    PROVE  NamesInv(PutSlot(s, name, extra))
<1> DEFINE t   == PutSlot(s, name, extra)
           n   == Len(name)
           lip == s.head.lst_itm_ptr
           frp == s.head.fst_rec_ptr
           p   == frp - n
           e   == [name_size |-> n, name_ptr |-> p, extra |-> extra]
<1>0. NamesLoose(s) /\ Bordered(s) /\ Basic(s)
  BY DEF NamesInv, NamesLoose
<1>1. PutEffect(s, name, extra, t)
  BY <1>0, PutFacts
<1>2. /\ lip \in Nat /\ frp \in Nat /\ n \in Nat /\ HEAD_SIZE <= lip
      /\ frp <= SECTION_SIZE /\ lip \notin DOMAIN s.itm
  BY <1>0, BasicTypes
<1> HIDE DEF t
<1>3. /\ Basic(t) /\ t.head.lst_itm_ptr = lip + ITM_SIZE
      /\ t.head.fst_rec_ptr = p /\ lip + ITM_SIZE <= p
      /\ t.itm = [x \in DOMAIN s.itm \cup {lip} |->
                    IF x = lip THEN e ELSE s.itm[x]]
      /\ \A b \in Addr : t.rec[b] = IF p <= b /\ b < frp THEN name[b - p + 1]
                                    ELSE s.rec[b]
  BY <1>1 DEF PutEffect
<1>4. e.name_size = n /\ e.name_ptr = p /\ NameEnd(e) = frp
  <2>1. p + n = frp
    <3> HIDE DEF n, frp
    <3> QED BY <1>2
  <2> QED BY <2>1 DEF NameEnd
<1> HIDE DEF lip, frp, n, e
<1>5. p \in Nat /\ p <= frp /\ HEAD_SIZE <= p
  BY <1>2, <1>3, SizeAssumption
<1> HIDE DEF p
<1>6. /\ DOMAIN t.itm = DOMAIN s.itm \cup {lip} /\ t.itm[lip] = e
      /\ \A x \in DOMAIN s.itm : t.itm[x] = s.itm[x] /\ x # lip
  BY <1>2, <1>3
<1>7. Named(t) = Named(s) \cup (IF n = 0 THEN {} ELSE {lip})
  BY <1>4, <1>6 DEF Named
<1>8. \A x \in Named(s) :
         /\ x \in DOMAIN s.itm /\ x \in Nat
         /\ s.itm[x].name_ptr \in Nat /\ NameEnd(s.itm[x]) \in Nat
         /\ frp <= s.itm[x].name_ptr
         /\ s.itm[x].name_ptr < NameEnd(s.itm[x])
         /\ NameEnd(s.itm[x]) <= SECTION_SIZE
         /\ s.itm[x].name_ptr \in Addr
         /\ s.rec[s.itm[x].name_ptr] # 0
         /\ t.itm[x] = s.itm[x]
  BY <1>0, <1>6, NamedFacts DEF frp
<1>9. \A x \in DOMAIN s.itm : x \in Nat /\ x < lip
  <2>1. \A x \in DOMAIN s.itm : x \in Nat /\ x + ITM_SIZE <= lip
    BY <1>0, BasicTypes DEF lip
  <2> QED BY <1>2, <2>1, SizeAssumption
<1>10. NamesAbove(t)
  <2>1. \A x \in Named(s) : p <= s.itm[x].name_ptr
    BY <1>2, <1>5, <1>8
  <2>2. ASSUME NEW x \in Named(t)
        PROVE  p <= t.itm[x].name_ptr /\ NameEnd(t.itm[x]) <= SECTION_SIZE
    <3>1. CASE x \in Named(s)
      BY <1>8, <2>1, <3>1
    <3>2. CASE x = lip
      BY <1>2, <1>4, <1>5, <1>6, <3>2
    <3> QED BY <1>7, <3>1, <3>2
  <2> QED BY <1>3, <2>2 DEF NamesAbove
<1>11. NamesOrdered(t)
  <2> SUFFICES ASSUME NEW x \in Named(t), NEW y \in Named(t), x < y
               PROVE  NameEnd(t.itm[y]) <= t.itm[x].name_ptr
    BY DEF NamesOrdered
  <2>1. x \in Named(s)
    <3>1. y \in DOMAIN s.itm \/ y = lip
      BY <1>7 DEF Named
    <3>2. x # lip
      BY <1>2, <1>9, <3>1
    <3> QED BY <1>7, <3>2
  <2>2. CASE y = lip
    BY <1>4, <1>6, <1>8, <2>1, <2>2
  <2>3. CASE y # lip
    <3>1. y \in Named(s)
      BY <1>7, <2>3
    <3>2. NameEnd(s.itm[y]) <= s.itm[x].name_ptr
      BY <1>0, <2>1, <3>1 DEF NamesLoose, NamesOrdered
    <3> QED BY <1>8, <2>1, <3>1, <3>2
  <2> QED BY <2>2, <2>3
<1>12. NamesFilled(t)
  <2>1. ASSUME NEW x \in Named(t)
        PROVE  t.rec[t.itm[x].name_ptr] # 0
    <3>1. CASE x \in Named(s)
      <4>1. /\ s.itm[x].name_ptr \in Addr /\ ~(s.itm[x].name_ptr < frp)
            /\ s.rec[s.itm[x].name_ptr] # 0 /\ t.itm[x] = s.itm[x]
        BY <1>2, <1>8, <3>1
      <4>2. t.rec[s.itm[x].name_ptr] = s.rec[s.itm[x].name_ptr]
        BY <1>3, <4>1
      <4> QED BY <4>1, <4>2
    <3>2. CASE x \notin Named(s)
      <4>1. x = lip /\ n # 0
        BY <1>7, <3>2
      <4>2. p \in Addr /\ p <= p /\ p < frp /\ p - p + 1 = 1
        <5>1. p < frp
          BY <1>2, <4>1 DEF p
        <5> QED BY <1>2, <1>5, <5>1, SizeAssumption DEF Addr
      <4>3. t.rec[p] = name[p - p + 1]
        BY <1>3, <4>2
      <4>4. name # <<>>
        BY <4>1 DEF n
      <4> QED BY <1>4, <1>6, <4>1, <4>2, <4>3, <4>4
    <3> QED BY <3>1, <3>2
  <2>2. ASSUME NEW b \in Addr, t.rec[b] # 0
        PROVE  \E x \in Named(t) : /\ t.itm[x].name_ptr <= b
                                   /\ b < NameEnd(t.itm[x])
    <3>0. b \in Int
      BY SizeAssumption DEF Addr
    <3>1. CASE p <= b /\ b < frp
      <4>1. n # 0
        BY <1>2, <3>0, <3>1 DEF p
      <4>2. lip \in Named(t)
        BY <1>7, <4>1
      <4> QED BY <1>4, <1>6, <3>1, <4>2
    <3>2. CASE ~(p <= b /\ b < frp)
      <4>1. s.rec[b] # 0
        BY <1>3, <2>2, <3>2
      <4>2. PICK x \in Named(s) : /\ s.itm[x].name_ptr <= b
                                  /\ b < NameEnd(s.itm[x])
        BY <1>0, <4>1 DEF NamesLoose, NamesFilled
      <4> QED BY <1>7, <1>8, <4>2
    <3> QED BY <3>1, <3>2
  <2> QED BY <2>1, <2>2 DEF NamesFilled
<1>13. Bordered(t)
  <2>1. t.head.lst_itm_ptr - ITM_SIZE \in DOMAIN t.itm
    <3>1. (lip + ITM_SIZE) - ITM_SIZE = lip
      BY <1>2, SizeAssumption
    <3> QED BY <1>3, <1>6, <3>1
  <2>2. CASE n = 0
    <3>1. p = frp
      BY <1>2, <2>2 DEF p
    <3>2. frp = SECTION_SIZE \/ \E x \in Named(s) : s.itm[x].name_ptr = frp
      BY <1>0 DEF Bordered, frp
    <3> QED BY <1>3, <1>7, <1>8, <2>1, <3>1, <3>2 DEF Bordered
  <2>3. CASE n # 0
    <3>1. lip \in Named(t)
      BY <1>7, <2>3
    <3> QED BY <1>3, <1>4, <1>6, <2>1, <3>1 DEF Bordered
  <2> QED BY <2>2, <2>3
<1>14. NamesInv(t)
  BY <1>3, <1>10, <1>11, <1>12, <1>13 DEF NamesInv, NamesLoose
<1> QED BY <1>14 DEF t

-----------------------------------------------------------------------------
(* sect_types_write as a whole.                                            *)

\* The section after k slots of t.
AfterSlots(s, t, k) == IF k = 0 THEN s ELSE TypeSlots(s, t)[k - 1]

\* The next one follows by PutSlot, and the last is what is written.
LEMMA AfterSlotsStep ==
    ASSUME NEW s, NEW t \in TypeDefs
    PROVE  /\ AfterSlots(s, t, 0) = s
           /\ AfterSlots(s, t, Len(t.attrs) + 1) = sect_types_write(s, t)
           /\ \A k \in 0..Len(t.attrs) :
                 AfterSlots(s, t, k + 1)
                   = PutSlot(AfterSlots(s, t, k), NameOf(t, k), ExtraOf(t, k))
<1> DEFINE n == Len(t.attrs)
           W == TypeSlots(s, t)
<1>1. n \in Nat
  BY TypeFacts
<1>2. /\ W[0] = PutSlot(s, NameOf(t, 0), ExtraOf(t, 0))
      /\ \A k \in 1..n : W[k] = PutSlot(W[k - 1], NameOf(t, k), ExtraOf(t, k))
  BY <1>1, TypeSlotsEq
<1>3. n + 1 # 0 /\ (n + 1) - 1 = n
  BY <1>1
<1>4. ASSUME NEW k \in 0..n
      PROVE  AfterSlots(s, t, k + 1)
               = PutSlot(AfterSlots(s, t, k), NameOf(t, k), ExtraOf(t, k))
  <2>1. k + 1 # 0 /\ (k + 1) - 1 = k
    BY <1>1
  <2>2. AfterSlots(s, t, k + 1) = W[k]
    BY <2>1 DEF AfterSlots
  <2>3. CASE k = 0
    BY <1>2, <2>2, <2>3 DEF AfterSlots
  <2>4. CASE k # 0
    <3>1. k \in 1..n /\ AfterSlots(s, t, k) = W[k - 1]
      BY <1>1, <2>4 DEF AfterSlots
    <3> QED BY <1>2, <2>2, <3>1
  <2> QED BY <2>3, <2>4
<1> QED BY <1>3, <1>4 DEF AfterSlots, sect_types_write

\* A type that fits is stored slot by slot.
LEMMA WriteSlots ==
    ASSUME NEW s, Basic(s), NEW t \in TypeDefs, CanWriteType(s, t)
    PROVE  /\ SlotsPut(s, t, Len(t.attrs) + 1, sect_types_write(s, t))
           /\ NamesInv(s) /\ NamesNotZero => NamesInv(sect_types_write(s, t))
<1> DEFINE n == Len(t.attrs)
           W(k) == AfterSlots(s, t, k)
           S == {k \in Nat : k <= n + 1 =>
                   /\ SlotsPut(s, t, k, W(k))
                   /\ NamesInv(s) /\ NamesNotZero => NamesInv(W(k))}
<1>1. n \in Nat
  BY TypeFacts
<1>2. 0 \in S
  <2>1. W(0) = s
    BY AfterSlotsStep
  <2>2. SlotAt(s.head.lst_itm_ptr, 0) = s.head.lst_itm_ptr
    BY BasicTypes, SlotAtStep
  <2>3. s.head.fst_rec_ptr - Above(t, 0) = s.head.fst_rec_ptr
    BY AboveFacts, BasicTypes
  <2>4. 0..(0 - 1) = {}
    OBVIOUS
  <2>5. SlotsPut(s, t, 0, s)
    BY <2>2, <2>3, <2>4 DEF SlotsPut
  <2> QED BY <2>1, <2>5
<1>3. ASSUME NEW k \in Nat, k \in S PROVE k + 1 \in S
  <2> SUFFICES ASSUME k + 1 <= n + 1
               PROVE  /\ SlotsPut(s, t, k + 1, W(k + 1))
                      /\ NamesInv(s) /\ NamesNotZero => NamesInv(W(k + 1))
    OBVIOUS
  <2>1. k \in 0..n /\ k <= n + 1
    BY <1>1
  <2>2. /\ SlotsPut(s, t, k, W(k))
        /\ NamesInv(s) /\ NamesNotZero => NamesInv(W(k))
    BY <1>3, <2>1
  <2>3. W(k + 1) = PutSlot(W(k), NameOf(t, k), ExtraOf(t, k))
    BY <2>1, AfterSlotsStep
  <2> HIDE DEF W
  <2>4. /\ W(k).head.free_space >= ITM_SIZE + Len(NameOf(t, k))
        /\ SlotsPut(s, t, k + 1, PutSlot(W(k), NameOf(t, k), ExtraOf(t, k)))
    BY <2>1, <2>2, SlotsPutStep
  <2>5. NameOf(t, k) \in Seq(Byte) /\ ExtraOf(t, k) \in Nat
    BY <2>1, TypeFacts
  <2>6. ASSUME NamesInv(s), NamesNotZero
        PROVE  NamesInv(PutSlot(W(k), NameOf(t, k), ExtraOf(t, k)))
    <3>1. NameOf(t, k) # <<>> => NameOf(t, k)[1] # 0
      BY <2>1, <2>6 DEF NamesNotZero
    <3> QED BY <2>2, <2>4, <2>5, <2>6, <3>1, PutInv
  <2> QED BY <2>3, <2>4, <2>6
<1> HIDE DEF S
<1>4. n + 1 \in S
  BY <1>1, <1>2, <1>3, NatInduct
<1>5. /\ SlotsPut(s, t, n + 1, W(n + 1))
      /\ NamesInv(s) /\ NamesNotZero => NamesInv(W(n + 1))
  BY <1>1, <1>4 DEF S
<1>6. W(n + 1) = sect_types_write(s, t)
  BY AfterSlotsStep
<1> QED BY <1>5, <1>6

-----------------------------------------------------------------------------
(* sect_types_delete: the section before the compressions.                 *)

\* The slots and the bytes that are zeroed.
DelStart(s, o) == RdSlot(s, SlotAt(o, RdSlot(s, o).extra)).name_ptr
DelEnd(s, o) == NameEnd(RdSlot(s, o))

DelRec(s, o) == [b \in Addr |-> IF DelStart(s, o) <= b /\ b < DelEnd(s, o)
                                THEN 0 ELSE s.rec[b]]
DelItm(s, o) == [x \in DOMAIN s.itm \ SlotsOf(s, o) |-> s.itm[x]]
Cleared(s, o) == Sect(s.head, s.disk, DelItm(s, o), DelRec(s, o))

\* The entity at an offset, live or zeroed.
LEMMA RdSlotTypes ==
    ASSUME NEW s, Basic(s), NEW o
    PROVE  /\ RdSlot(s, o).name_size \in Nat /\ RdSlot(s, o).name_ptr \in Nat
           /\ RdSlot(s, o).extra \in Nat
           /\ o \in DOMAIN s.itm => RdSlot(s, o) = s.itm[o]
           /\ o \notin DOMAIN s.itm => RdSlot(s, o) = ZeroSlot
           /\ ZeroSlot.name_size = 0 /\ ZeroSlot.name_ptr = 0 /\ ZeroSlot.extra = 0
           /\ NameEnd(ZeroSlot) = 0
<1>1. CASE o \in DOMAIN s.itm
  BY <1>1, BasicTypes DEF RdSlot, ZeroSlot, NameEnd
<1>2. CASE o \notin DOMAIN s.itm
  BY <1>2 DEF RdSlot, ZeroSlot, NameEnd
<1> QED BY <1>1, <1>2

\* sect_types_delete is the clearing followed by the compressions; a size
\* that would be negative clears nothing.
LEMMA DeleteOp ==
    ASSUME NEW s, Basic(s), NEW o \in Nat
    PROVE  sect_types_delete(s, o)
             = sect_head_cmprs_frp(sect_head_cmprs_lip(Cleared(s, o)))
<1> DEFINE a  == DelStart(s, o)
           z  == DelEnd(s, o)
           n  == z - a
           zr == [i \in 1..n |-> 0]
           G  == SlotsOf(s, o)
           it == DelItm(s, o)
           s1 == [s EXCEPT !.itm = Restrict(@, DOMAIN @ \ G)]
           s2 == sect_head_write(s1, a, zr)
<1>1. s = Sect(s.head, s.disk, s.itm, s.rec) /\ s.rec \in [Addr -> Byte]
  BY DEF Basic
<1>2. a \in Nat /\ z \in Nat
  <2>1. a \in Nat
    BY RdSlotTypes DEF DelStart
  <2>2. /\ RdSlot(s, o).name_ptr \in Nat /\ RdSlot(s, o).name_size \in Nat
    BY RdSlotTypes
  <2> QED BY <2>1, <2>2 DEF DelEnd, NameEnd
<1> HIDE DEF a, z
<1>3. s1 = Sect(s.head, s.disk, it, s.rec)
  <2>1. it = [x \in DOMAIN s.itm \ G |-> s.itm[x]]
    BY DEF DelItm
  <2> HIDE DEF it, G
  <2> DEFINE u == Sect(s.head, s.disk, s.itm, s.rec)
  <2>2. [u EXCEPT !.itm = Restrict(@, DOMAIN @ \ G)]
          = Sect(s.head, s.disk, it, s.rec)
    BY <2>1 DEF Restrict, Sect
  <2> QED BY <1>1, <2>2
<1> HIDE DEF s1
<1>4. Overwrite(s.rec, a, zr) = DelRec(s, o)
  <2>1. DOMAIN s.rec = Addr
    BY <1>1
  <2>2. \A b \in Addr : b \in Int
    BY SizeAssumption DEF Addr
  <2>3. Len(zr) = IF n >= 0 THEN n ELSE 0
    <3>1. CASE n >= 0
      BY <1>2, <3>1
    <3>2. CASE ~(n >= 0)
      <4>1. 1..n = 1..0
        BY <1>2, <3>2
      <4>2. zr = [i \in 1..0 |-> 0]
        BY <4>1
      <4> HIDE DEF zr
      <4>3. Len(zr) = 0
        BY <4>2
      <4> QED BY <3>2, <4>3
    <3> QED BY <3>1, <3>2
  <2>4. ASSUME NEW b \in Addr
        PROVE  (IF b >= a /\ b < a + Len(zr) THEN zr[b - a + 1] ELSE s.rec[b])
                 = (IF a <= b /\ b < z THEN 0 ELSE s.rec[b])
    <3>1. b >= a /\ b < a + Len(zr) <=> a <= b /\ b < z
      <4> HIDE DEF zr
      <4> QED BY <1>2, <2>2, <2>3
    <3>2. a <= b /\ b < z => b - a + 1 \in 1..n
      BY <1>2, <2>2
    <3>3. a <= b /\ b < z => zr[b - a + 1] = 0
      BY <3>2
    <3> HIDE DEF zr
    <3> QED BY <3>1, <3>3
  <2>5. Overwrite(s.rec, a, zr)
          = [b \in Addr |-> IF b >= a /\ b < a + Len(zr)
                            THEN zr[b - a + 1] ELSE s.rec[b]]
    BY <2>1 DEF Overwrite
  <2>6. DelRec(s, o) = [b \in Addr |-> IF a <= b /\ b < z THEN 0 ELSE s.rec[b]]
    BY DEF DelRec, a, z
  <2> HIDE DEF zr
  <2> QED BY <2>4, <2>5, <2>6
<1> HIDE DEF zr, it
<1>5. s2 = Sect(s.head, s.disk, it, DelRec(s, o))
  BY <1>3, <1>4, WriteBytesOp
<1>6. s2 = Cleared(s, o)
  BY <1>5 DEF Cleared, it
<1>7. sect_types_delete(s, o) = sect_head_cmprs_frp(sect_head_cmprs_lip(s2))
  BY DEF sect_types_delete, s2, s1, zr, n, a, z, G, DelStart, DelEnd, NameEnd
<1> QED BY <1>6, <1>7

\* The section before the compressions is a basic one.
LEMMA ClearedBasic ==
    ASSUME NEW s, Basic(s), NEW o
    PROVE  LET m == Cleared(s, o) IN
           /\ Basic(m)
           /\ m.head = s.head
           /\ DOMAIN m.itm = DOMAIN s.itm \ SlotsOf(s, o)
           /\ \A x \in DOMAIN m.itm : m.itm[x] = s.itm[x]
           /\ \A b \in Addr : m.rec[b] = IF DelStart(s, o) <= b /\ b < DelEnd(s, o)
                                         THEN 0 ELSE s.rec[b]
<1> DEFINE m == Cleared(s, o)
<1>1. /\ m.head = s.head /\ m.disk = s.disk /\ m.itm = DelItm(s, o)
      /\ m.rec = DelRec(s, o) /\ m = Sect(m.head, m.disk, m.itm, m.rec)
  BY Fields DEF Cleared
<1> HIDE DEF m
<1>2. /\ DOMAIN m.itm = DOMAIN s.itm \ SlotsOf(s, o)
      /\ \A x \in DOMAIN m.itm : m.itm[x] = s.itm[x]
      /\ m.itm = [x \in DOMAIN m.itm |-> m.itm[x]]
  BY <1>1 DEF DelItm
<1>3. \A b \in Addr : m.rec[b] = IF DelStart(s, o) <= b /\ b < DelEnd(s, o)
                                 THEN 0 ELSE s.rec[b]
  BY <1>1 DEF DelRec
<1>4. m.rec \in [Addr -> Byte]
  <2>1. \A b \in Addr : s.rec[b] \in Byte /\ 0 \in Byte
    BY DEF Basic, Byte
  <2>2. m.rec = [b \in Addr |-> m.rec[b]]
    BY <1>1 DEF DelRec
  <2> QED BY <1>3, <2>1, <2>2
<1>5. HeadOK(m) /\ m.head \in Heads
  BY <1>1 DEF Basic, HeadOK
<1>6. \A x \in DOMAIN m.itm : /\ x \in Slots
                              /\ x + ITM_SIZE <= m.head.lst_itm_ptr
                              /\ m.itm[x] \in SlotEntities
  BY <1>1, <1>2 DEF Basic
<1>7. Basic(m)
  BY <1>1, <1>2, <1>4, <1>5, <1>6 DEF Basic
<1> QED BY <1>1, <1>2, <1>3, <1>7 DEF m

\* The compressions keep a basic section basic.
LEMMA CompressBasic ==
    ASSUME NEW m, Basic(m), NEW t, Compressed(m, t)
    PROVE  Basic(t)
<1>1. /\ t = Sect(t.head, t.disk, t.itm, t.rec)
      /\ t.itm = m.itm /\ t.rec = m.rec /\ t.head \in Heads /\ HeadOK(t)
  BY DEF Compressed
<1>2. \A x \in DOMAIN m.itm : /\ x \in Slots
                              /\ x + ITM_SIZE <= t.head.lst_itm_ptr
                              /\ m.itm[x] \in SlotEntities
  <2>1. \A x \in DOMAIN m.itm : /\ x \in Slots
                                /\ x + ITM_SIZE <= m.head.lst_itm_ptr
                                /\ m.itm[x] \in SlotEntities
    BY DEF Basic
  <2> QED BY <2>1 DEF Compressed
<1>3. /\ m.itm = [x \in DOMAIN m.itm |-> m.itm[x]]
      /\ m.rec \in [Addr -> Byte]
  BY DEF Basic
<1> QED BY <1>1, <1>2, <1>3 DEF Basic

\* sect_types_delete compresses the cleared section.
LEMMA DeleteCompresses ==
    ASSUME NEW s, Basic(s), NEW o \in Nat
    PROVE  /\ Compressed(Cleared(s, o), sect_types_delete(s, o))
           /\ Basic(sect_types_delete(s, o))
<1> DEFINE m == Cleared(s, o)
<1>1. Basic(m)
  BY ClearedBasic
<1>2. m = Sect(m.head, m.disk, m.itm, m.rec) /\ HeadOK(m) /\ m.head \in Heads
  BY <1>1 DEF Basic
<1>3. sect_types_delete(s, o) = sect_head_cmprs_frp(sect_head_cmprs_lip(m))
  BY DeleteOp
<1> HIDE DEF m
<1>4. Compressed(m, sect_types_delete(s, o))
  BY <1>2, <1>3, CompressOp
<1> QED BY <1>1, <1>4, CompressBasic DEF m

-----------------------------------------------------------------------------
(* The walk of sect_types_load.                                            *)

\* A list of offsets with one more in front.
LEMMA ConsFacts ==
    ASSUME NEW x \in Nat, NEW q \in Seq(Nat), NEW c, c = <<x>> \o q
    PROVE  /\ c \in Seq(Nat) /\ Len(c) = Len(q) + 1 /\ Len(q) \in Nat
           /\ c[1] = x
           /\ \A i \in 1..Len(c) : i # 1 => i - 1 \in 1..Len(q) /\ c[i] = q[i - 1]
           /\ \A i \in 1..Len(q) : i + 1 \in 1..Len(c) /\ c[i + 1] = q[i]
<1>1. c \in Seq(Nat) /\ Len(c) = Len(q) + 1 /\ Len(q) \in Nat /\ c[1] = x
  OBVIOUS
<1>2. ASSUME NEW i \in 1..Len(c), i # 1
      PROVE  i - 1 \in 1..Len(q) /\ c[i] = q[i - 1]
  BY <1>1, <1>2
<1>3. ASSUME NEW i \in 1..Len(q)
      PROVE  i + 1 \in 1..Len(c) /\ c[i + 1] = q[i]
  <2>1. i + 1 \in 1..Len(c) /\ i + 1 # 1 /\ (i + 1) - 1 = i
    BY <1>1
  <2> QED BY <1>2, <2>1
<1> QED BY <1>1, <1>2, <1>3

\* The offsets of a list lie between o and l and increase.
Increasing(q, o, l) ==
    /\ q \in Seq(Nat)
    /\ \A i \in 1..Len(q) : o <= q[i] /\ q[i] < l
    /\ \A i, j \in 1..Len(q) : i < j => q[i] < q[j]

\* Where the walk goes on after the type at o.
NextType(s, o) == SlotAt(o, RdSlot(s, o).extra + 1)

\* The walk gets further.
LEMMA NextTypeFacts ==
    ASSUME NEW s, Basic(s), NEW o \in Nat
    PROVE  /\ NextType(s, o) \in Nat /\ NextType(s, o) >= o + ITM_SIZE
           /\ NextType(s, o) = SlotAt(o, RdSlot(s, o).extra) + ITM_SIZE
           /\ NextType(s, o) > o
<1> DEFINE e == RdSlot(s, o).extra
           k == e + 1
<1>1. e \in Nat /\ k \in Nat /\ 0 < k
  BY RdSlotTypes
<1>2. SlotAt(o, k) \in Nat /\ SlotAt(o, 0) = o /\ SlotAt(o, k) = SlotAt(o, e) + ITM_SIZE
  <2> HIDE DEF e
  <2> QED BY <1>1, SlotAtStep
<1> HIDE DEF k
<1>3. SlotAt(o, 0) + ITM_SIZE <= SlotAt(o, k)
  BY <1>1, SlotAtOrder
<1>4. /\ SlotAt(o, k) \in Nat /\ SlotAt(o, k) >= o + ITM_SIZE
      /\ SlotAt(o, k) > o
  BY <1>2, <1>3, SizeAssumption
<1> QED BY <1>2, <1>4 DEF NextType, k

\* The equation of the walk on a basic section.
LEMMA WalkStep ==
    ASSUME NEW s, Basic(s), NEW o \in Nat
    PROVE  WalkFrom(s)[o] = IF o >= s.head.lst_itm_ptr THEN <<>>
                            ELSE <<o>> \o WalkFrom(s)[NextType(s, o)]
<1>1. /\ s.head.lst_itm_ptr \in Nat
      /\ \A x \in DOMAIN s.itm : s.itm[x].extra \in Nat
  BY BasicTypes
<1> QED BY <1>1, WalkEq DEF NextType

\* The walk visits increasing offsets.
LEMMA WalkIncreases ==
    ASSUME NEW s, Basic(s)
    PROVE  \A o \in Nat : Increasing(WalkFrom(s)[o], o, s.head.lst_itm_ptr)
<1> DEFINE l == s.head.lst_itm_ptr
           W == WalkFrom(s)
           S == {m \in Nat : \A o \in Nat : o + m >= l => Increasing(W[o], o, l)}
<1>0. l \in Nat
  BY BasicTypes
<1>1. \A o \in Nat : o >= l => Increasing(W[o], o, l)
  <2> SUFFICES ASSUME NEW o \in Nat, o >= l PROVE Increasing(W[o], o, l)
    OBVIOUS
  <2>1. W[o] = <<>>
    BY WalkStep
  <2> HIDE DEF W
  <2> QED BY <2>1 DEF Increasing
<1>2. 0 \in S
  BY <1>0, <1>1
<1>3. ASSUME NEW m \in Nat, m \in S PROVE m + 1 \in S
  <2> SUFFICES ASSUME NEW o \in Nat, o + (m + 1) >= l
               PROVE  Increasing(W[o], o, l)
    OBVIOUS
  <2>1. CASE o >= l
    BY <1>1, <2>1
  <2>2. CASE ~(o >= l)
    <3> DEFINE x == NextType(s, o)
               q == W[x]
               c == W[o]
    <3>1. x \in Nat /\ x > o
      BY NextTypeFacts
    <3>2. x + m >= l
      BY <1>0, <3>1
    <3>3. Increasing(q, x, l)
      BY <1>3, <3>1, <3>2
    <3>4. c = <<o>> \o q
      BY <2>2, WalkStep
    <3> HIDE DEF q, c, x
    <3>5. q \in Seq(Nat)
      BY <3>3 DEF Increasing
    <3>6. /\ c \in Seq(Nat) /\ Len(c) = Len(q) + 1 /\ Len(q) \in Nat /\ c[1] = o
          /\ \A i \in 1..Len(c) : i # 1 => i - 1 \in 1..Len(q) /\ c[i] = q[i - 1]
      BY <3>4, <3>5, ConsFacts
    <3>7. \A i \in 1..Len(q) : q[i] \in Nat
      BY <3>5
    <3>8. \A i \in 1..Len(c) : o <= c[i] /\ c[i] < l
      <4> SUFFICES ASSUME NEW i \in 1..Len(c) PROVE o <= c[i] /\ c[i] < l
        OBVIOUS
      <4>1. CASE i = 1
        BY <1>0, <2>2, <3>6, <4>1
      <4>2. CASE i # 1
        <5>1. i - 1 \in 1..Len(q) /\ c[i] = q[i - 1]
          BY <3>6, <4>2
        <5>2. x <= q[i - 1] /\ q[i - 1] < l /\ q[i - 1] \in Nat
          BY <3>3, <3>7, <5>1 DEF Increasing
        <5> QED BY <3>1, <5>1, <5>2
      <4> QED BY <4>1, <4>2
    <3>9. ASSUME NEW i \in 1..Len(c), NEW j \in 1..Len(c), i < j
          PROVE  c[i] < c[j]
      <4>1. j # 1 /\ j - 1 \in 1..Len(q) /\ c[j] = q[j - 1]
        BY <3>6, <3>9
      <4>2. CASE i = 1
        <5>1. x <= q[j - 1] /\ q[j - 1] \in Nat
          BY <3>3, <3>7, <4>1 DEF Increasing
        <5> QED BY <3>1, <3>6, <4>1, <4>2, <5>1
      <4>3. CASE i # 1
        <5>1. i - 1 \in 1..Len(q) /\ c[i] = q[i - 1]
          BY <3>6, <4>3
        <5>2. i - 1 < j - 1
          BY <3>6, <3>9
        <5>3. q[i - 1] < q[j - 1]
          BY <3>3, <4>1, <5>1, <5>2 DEF Increasing
        <5> QED BY <4>1, <5>1, <5>3
      <4> QED BY <4>2, <4>3
    <3>10. Increasing(c, o, l)
      BY <3>6, <3>8, <3>9 DEF Increasing
    <3> QED BY <3>10 DEF c
  <2> QED BY <2>1, <2>2
<1> HIDE DEF S
<1>4. l \in S
  BY <1>0, <1>2, <1>3, NatInduct
<1>5. \A o \in Nat : o + l >= l
  BY <1>0
<1> QED BY <1>4, <1>5 DEF S

\* What sect_types_find returns is an offset of the walk, of a type called
\* name, and no offset before it is.
LEMMA FindFacts ==
    ASSUME NEW s, Basic(s), NEW name, sect_types_find(s, name) # <<>>
    PROVE  LET l == sect_types_load(s)
               o == Head(sect_types_find(s, name))
           IN  /\ o \in Nat
               /\ \E i \in 1..Len(l) : o = l[i]
               /\ sect_types_read(s, o).name = name
               /\ \A i \in 1..Len(l) :
                     sect_types_read(s, l[i]).name = name => o <= l[i]
<1> DEFINE l == sect_types_load(s)
           H == Hits(s, l, name)
           k == Min(H)
           o == Head(sect_types_find(s, name))
<1>1. Increasing(l, HEAD_SIZE, s.head.lst_itm_ptr)
  BY WalkIncreases, SizeAssumption DEF sect_types_load
<1> HIDE DEF l
<1>2. l \in Seq(Nat) /\ DOMAIN l = 1..Len(l) /\ \A i \in 1..Len(l) : l[i] \in Nat
  BY <1>1 DEF Increasing
<1>3. H # {} /\ sect_types_find(s, name) = <<l[k]>>
  BY DEF sect_types_find, l
<1>4. H \subseteq 1..Len(l) /\ \A i \in 1..Len(l) :
         i \in H <=> sect_types_read(s, l[i]).name = name
  BY <1>2 DEF Hits
<1>5. H \subseteq Nat
  BY <1>2, <1>4
<1> HIDE DEF H
<1>6. k \in H /\ \A i \in H : k <= i
  BY <1>3, <1>5, MinOfNat
<1> HIDE DEF k
<1>7. o = l[k] /\ k \in 1..Len(l) /\ o \in Nat
  BY <1>2, <1>3, <1>4, <1>6
<1> HIDE DEF o
<1>8. ASSUME NEW i \in 1..Len(l), sect_types_read(s, l[i]).name = name
      PROVE  o <= l[i]
  <2>1. k <= i /\ l[i] \in Nat
    BY <1>2, <1>4, <1>6, <1>8
  <2>2. CASE k = i
    BY <1>7, <2>1, <2>2
  <2>3. CASE k # i
    <3>1. k < i
      BY <1>2, <1>7, <2>1, <2>3
    <3>2. l[k] < l[i]
      BY <1>1, <1>7, <3>1 DEF Increasing
    <3> QED BY <1>7, <2>1, <3>2
  <2> QED BY <2>2, <2>3
<1>9. sect_types_read(s, o).name = name
  BY <1>4, <1>6, <1>7
<1> QED BY <1>7, <1>8, <1>9 DEF l, o

-----------------------------------------------------------------------------
(* Types and a coherent header in every reachable state.                   *)

\* A new section.
LEMMA CtorFacts ==
    LET c == sect_head_ctor IN
    /\ Basic(c) /\ DOMAIN c.itm = {}
    /\ c.head.lst_itm_ptr = HEAD_SIZE /\ c.head.fst_rec_ptr = SECTION_SIZE
    /\ \A b \in Addr : c.rec[b] = 0
<1> DEFINE h == Head3(SECTION_SIZE - HEAD_SIZE, HEAD_SIZE, SECTION_SIZE)
           i == [o \in {} |-> 0]
           r == [a \in Addr |-> 0]
           c == Sect(h, h, i, r)
<1>1. sect_head_ctor = c
  BY DEF sect_head_ctor, Sect
<1>2. /\ h.free_space = SECTION_SIZE - HEAD_SIZE /\ h.lst_itm_ptr = HEAD_SIZE
      /\ h.fst_rec_ptr = SECTION_SIZE
  BY Fields
<1>3. h \in Heads
  BY SizeAssumption DEF Head3, Heads
<1>4. DOMAIN i = {} /\ i = [x \in DOMAIN i |-> i[x]]
  OBVIOUS
<1>5. r \in [Addr -> Byte] /\ \A b \in Addr : r[b] = 0
  BY DEF Byte
<1> HIDE DEF h, i, r
<1>6. c.head = h /\ c.disk = h /\ c.itm = i /\ c.rec = r
  BY Fields
<1> HIDE DEF c
<1>7. c = Sect(c.head, c.disk, c.itm, c.rec)
  BY <1>6 DEF c
<1>8. HeadOK(c)
  BY <1>2, <1>6, SlotFirst, SizeAssumption DEF HeadOK
<1>9. Basic(c)
  BY <1>3, <1>4, <1>5, <1>6, <1>7, <1>8 DEF Basic
<1> QED BY <1>1, <1>2, <1>4, <1>5, <1>6, <1>9

\* Every call keeps the section basic, whatever the names are.
LEMMA NextBasic ==
    ASSUME Basic(sect), [Next]_sect
    PROVE  Basic(sect')
<1>1. ASSUME NEW t \in TypeDefs, AddType(t)
      PROVE  Basic(sect')
  <2>1. CanWriteType(sect, t) /\ sect' = sect_types_write(sect, t)
    BY <1>1 DEF AddType
  <2>2. SlotsPut(sect, t, Len(t.attrs) + 1, sect_types_write(sect, t))
    BY <2>1, WriteSlots
  <2> QED BY <2>1, <2>2 DEF SlotsPut
<1>2. ASSUME NEW t \in TypeDefs, AddTypeFails(t)
      PROVE  Basic(sect')
  BY <1>2 DEF AddTypeFails
<1>3. ASSUME NEW n \in TypeNames, DeleteType(n)
      PROVE  Basic(sect')
  <2>1. CASE sect_types_find(sect, n) = <<>>
    BY <1>3, <2>1 DEF DeleteType
  <2>2. CASE sect_types_find(sect, n) # <<>>
    <3> DEFINE o == Head(sect_types_find(sect, n))
    <3>1. o \in Nat
      BY <2>2, FindFacts
    <3>2. sect' = sect_types_delete(sect, o)
      BY <1>3, <2>2 DEF DeleteType
    <3> HIDE DEF o
    <3> QED BY <3>1, <3>2, DeleteCompresses
  <2> QED BY <2>1, <2>2
<1> QED BY <1>1, <1>2, <1>3 DEF Next

\* Types, header and slots of the section are sound in every reachable state.
LEMMA SpecBasic == Spec => []Basic(sect)
<1>1. Init => Basic(sect)
  BY CtorFacts DEF Init
<1>2. Basic(sect) /\ [Next]_sect => Basic(sect)'
  BY NextBasic
<1> QED BY <1>1, <1>2, PTL DEF Spec

\* The section keeps its shape under adds and deletes of types by any name,
\* also when the walk of sect_types_load reads a zeroed slot as a type.
THEOREM TypesTypeCorrect == Spec => []TypeOK
<1>1. Basic(sect) => TypeOK
  <2> SUFFICES ASSUME Basic(sect) PROVE TypeOK
    OBVIOUS
  <2>1. sect.head \in Heads /\ sect.disk \in Heads
    BY BasicTypes DEF Basic
  <2>2. \A x \in DOMAIN sect.itm : x \in Slots /\ sect.itm[x] \in SlotEntities
    BY DEF Basic
  <2>3. sect.rec \in [Addr -> Byte]
    BY DEF Basic
  <2> QED BY <2>1, <2>2, <2>3 DEF TypeOK, SlotEntities
<1> QED BY <1>1, SpecBasic, PTL

\* The borders never cross, free_space is the room between them and the
\* header on disk is the one in memory, after every add and delete of a type.
THEOREM TypesHeader == Spec => []TypesHeaderCoherent
<1>1. Basic(sect) => TypesHeaderCoherent
  BY DEF Basic, TypesHeaderCoherent
<1> QED BY <1>1, SpecBasic, PTL
=============================================================================
