-------------------------- MODULE SectTypesRefines --------------------------
(***************************************************************************)
(* The section of types implements a table of types: the slots form one    *)
(* block per type, the walk of sect_types_load meets every block, and a    *)
(* delete clears one block and its names.  The hypothesis of every theorem *)
(* is NamesNotZero.                                                        *)
(***************************************************************************)
EXTENDS SectTypesProofs

-----------------------------------------------------------------------------
(* Blocks.                                                                 *)

\* The live slots are the slots of the types at the offsets T; the names in
\* the slots of a type lie one below the other without a gap.
Blocks(s, T) ==
    /\ T \subseteq DOMAIN s.itm
    /\ \A o \in T : \A i \in 0..s.itm[o].extra : SlotAt(o, i) \in DOMAIN s.itm
    /\ \A o \in T : \A i \in 1..s.itm[o].extra :
          NameEnd(s.itm[SlotAt(o, i)]) = s.itm[SlotAt(o, i - 1)].name_ptr
    /\ \A x \in DOMAIN s.itm :
          \E o \in T : \E i \in 0..s.itm[o].extra : x = SlotAt(o, i)
    /\ \A o, p \in T : o < p => NextType(s, o) <= p

\* What every call keeps.
TypesInv(s) == NamesInv(s) /\ Blocks(s, Loaded(s))

\* The slots of one block.
LEMMA BlockFacts ==
    ASSUME NEW s, Basic(s), NEW T, Blocks(s, T), NEW o \in T
    PROVE  /\ o \in DOMAIN s.itm /\ o \in Nat /\ o \in Slots
           /\ RdSlot(s, o) = s.itm[o] /\ s.itm[o].extra \in Nat
           /\ NextType(s, o) = SlotAt(o, s.itm[o].extra) + ITM_SIZE
           /\ NextType(s, o) \in Nat /\ NextType(s, o) > o
           /\ NextType(s, o) <= s.head.lst_itm_ptr
           /\ NextType(s, o) \in Slots
           /\ SlotsOf(s, o) = {SlotAt(o, i) : i \in 0..s.itm[o].extra}
           /\ \A i \in 0..s.itm[o].extra :
                 /\ SlotAt(o, i) \in DOMAIN s.itm /\ SlotAt(o, i) \in Nat
                 /\ o <= SlotAt(o, i) /\ SlotAt(o, i) < NextType(s, o)
                 /\ i # 0 => o < SlotAt(o, i)
<1> DEFINE e == s.itm[o].extra
           x == NextType(s, o)
           lip == s.head.lst_itm_ptr
<1>1. o \in DOMAIN s.itm
  BY DEF Blocks
<1>2. o \in Nat /\ o \in Slots /\ e \in Nat /\ lip \in Nat /\ lip <= SECTION_SIZE
  BY <1>1, BasicTypes, SizeAssumption
<1>3. RdSlot(s, o) = s.itm[o]
  BY <1>1, RdSlotTypes
<1>4. x = SlotAt(o, e) + ITM_SIZE /\ x \in Nat /\ x > o /\ x = SlotAt(o, e + 1)
  BY <1>2, <1>3, NextTypeFacts DEF NextType
<1>5. \A i \in 0..e : SlotAt(o, i) \in DOMAIN s.itm
  BY DEF Blocks
<1>6. x <= lip
  <2>1. SlotAt(o, e) \in DOMAIN s.itm
    BY <1>2, <1>5
  <2> QED BY <1>4, <2>1, BasicTypes
<1>7. x \in Slots
  <2> DEFINE j == e + 1
  <2>1. j \in Nat /\ SlotAt(o, j) <= SECTION_SIZE
    BY <1>2, <1>4, <1>6, SizeAssumption
  <2> HIDE DEF j
  <2>2. SlotAt(o, j) \in Slots
    BY <1>2, <2>1, SlotAtSlot
  <2> QED BY <1>4, <2>2 DEF j
<1>8. ASSUME NEW i \in 0..e
      PROVE  /\ SlotAt(o, i) \in Nat /\ o <= SlotAt(o, i) /\ SlotAt(o, i) < x
             /\ i # 0 => o < SlotAt(o, i)
  <2>1. i \in Nat /\ (i = 0 \/ 0 < i) /\ (i = e \/ i < e)
    BY <1>2
  <2>2. SlotAt(o, i) \in Nat /\ SlotAt(o, e) \in Nat /\ SlotAt(o, 0) = o
    BY <1>2, <2>1, SlotAtStep
  <2>3. 0 < i => o + ITM_SIZE <= SlotAt(o, i)
    BY <1>2, <2>1, <2>2, SlotAtOrder
  <2>4. i < e => SlotAt(o, i) + ITM_SIZE <= SlotAt(o, e)
    BY <1>2, <2>1, SlotAtOrder
  <2> HIDE DEF e, x
  <2> QED BY <1>2, <1>4, <2>1, <2>2, <2>3, <2>4, SizeAssumption
<1>9. SlotsOf(s, o) = {SlotAt(o, i) : i \in 0..e}
  BY <1>3 DEF SlotsOf
<1> QED BY <1>1, <1>2, <1>3, <1>4, <1>5, <1>6, <1>7, <1>8, <1>9

\* A live slot that is also a slot of the type at o is in no other block.
LEMMA BlocksApart ==
    ASSUME NEW s, Basic(s), NEW T, Blocks(s, T), NEW o \in T, NEW p \in T,
           o # p
    PROVE  \A i \in 0..s.itm[p].extra : SlotAt(p, i) \notin SlotsOf(s, o)
<1> SUFFICES ASSUME NEW i \in 0..s.itm[p].extra, SlotAt(p, i) \in SlotsOf(s, o)
             PROVE  FALSE
  OBVIOUS
<1>1. PICK j \in 0..s.itm[o].extra : SlotAt(p, i) = SlotAt(o, j)
  BY BlockFacts
<1> DEFINE x == SlotAt(p, i)
           no == NextType(s, o)
           np == NextType(s, p)
<1>2. o \in Nat /\ no \in Nat /\ o <= x /\ x < no
  BY <1>1, BlockFacts
<1>3. p \in Nat /\ np \in Nat /\ x \in Nat /\ p <= x /\ x < np
  BY BlockFacts
<1>4. (o < p => no <= p) /\ (p < o => np <= o)
  BY DEF Blocks
<1> HIDE DEF x, no, np
<1> QED BY <1>2, <1>3, <1>4

-----------------------------------------------------------------------------
(* The walk.                                                               *)

\* The offset o is not inside a block.
Boundary(s, T, o) ==
    /\ o \in Slots /\ o \in Nat /\ o <= s.head.lst_itm_ptr
    /\ \A p \in T : p >= o \/ NextType(s, p) <= o

\* From the border of a block the walk goes to the next border, and what it
\* met there is a type or a zeroed slot.
LEMMA BoundaryStep ==
    ASSUME NEW s, Basic(s), NEW T, Blocks(s, T), NEW o, Boundary(s, T, o),
           ~(o >= s.head.lst_itm_ptr)
    PROVE  /\ o \in T \/ o \notin DOMAIN s.itm
           /\ Boundary(s, T, NextType(s, o))
           /\ \A p \in T : p >= o => p = o \/ p >= NextType(s, o)
<1> DEFINE lip == s.head.lst_itm_ptr
           x == NextType(s, o)
<1>1. o \in Slots /\ o \in Nat /\ lip \in Nat /\ lip \in Slots /\ o < lip
  BY BasicTypes DEF Boundary
<1>2. x \in Nat /\ x > o
  BY <1>1, NextTypeFacts
<1>3. \A p \in T : /\ p \in Nat /\ p \in Slots /\ NextType(s, p) \in Nat
                   /\ p \in DOMAIN s.itm
                   /\ p >= o \/ NextType(s, p) <= o
  BY BlockFacts DEF Boundary
<1>4. ASSUME o \in DOMAIN s.itm PROVE o \in T
  <2>1. PICK p \in T : \E i \in 0..s.itm[p].extra : o = SlotAt(p, i)
    BY <1>4 DEF Blocks
  <2>2. PICK i \in 0..s.itm[p].extra : o = SlotAt(p, i)
    BY <2>1
  <2>3. o < NextType(s, p) /\ (i # 0 => p < o)
    BY <2>2, BlockFacts
  <2>4. i = 0
    BY <1>1, <1>3, <2>3
  <2>5. o = p
    BY <1>3, <2>2, <2>4, SlotAtStep
  <2> QED BY <2>5
<1>5. CASE o \in T
  <2>1. x <= lip /\ x \in Slots
    BY <1>5, BlockFacts
  <2>2. \A p \in T : o < p => x <= p
    BY <1>5 DEF Blocks
  <2>3. ASSUME NEW p \in T PROVE p >= x \/ NextType(s, p) <= x
    <3>1. CASE p = o
      BY <1>2, <3>1
    <3>2. CASE p # o
      <4> HIDE DEF x
      <4> QED BY <1>1, <1>2, <1>3, <2>2, <3>2
    <3> QED BY <3>1, <3>2
  <2>4. Boundary(s, T, x)
    BY <1>2, <2>1, <2>3 DEF Boundary
  <2>5. \A p \in T : p >= o => p = o \/ p >= x
    <3> HIDE DEF x
    <3> QED BY <1>1, <1>2, <1>3, <2>2
  <2> QED BY <1>5, <2>4, <2>5
<1>6. CASE o \notin DOMAIN s.itm
  <2>1. RdSlot(s, o).extra = 0
    BY <1>6, RdSlotTypes
  <2>2. x = o + ITM_SIZE
    <3>1. x = SlotAt(o, 0) + ITM_SIZE
      BY <1>1, <2>1, NextTypeFacts
    <3> QED BY <1>1, <3>1, SlotAtStep
  <2>3. x <= lip
    BY <1>1, <2>2, SlotSpacing
  <2>4. x \in Slots
    <3>1. o + ITM_SIZE <= SECTION_SIZE
      <4>1. lip <= SECTION_SIZE
        BY <1>1, SizeAssumption DEF Slots
      <4> HIDE DEF lip
      <4> QED BY <1>1, <1>2, <2>2, <2>3, <4>1, SizeAssumption
    <3> QED BY <1>1, <2>2, <3>1, SlotNext
  <2>5. \A p \in T : p > o => p >= x
    BY <1>1, <1>3, <2>2, SlotSpacing
  <2>6. \A p \in T : p # o
    BY <1>3, <1>6
  <2> HIDE DEF x, lip
  <2>7. \A p \in T : p >= x \/ NextType(s, p) <= x
    BY <1>1, <1>2, <1>3, <2>5, <2>6
  <2>8. \A p \in T : p >= o => p >= x
    BY <1>1, <1>2, <1>3, <2>5, <2>6
  <2>9. Boundary(s, T, x)
    BY <1>2, <2>3, <2>4, <2>7 DEF Boundary, lip
  <2> QED BY <1>6, <2>8, <2>9 DEF x
<1> QED BY <1>4, <1>5, <1>6

\* The list q has every type from o on, and otherwise only zeroed slots.
Meets(s, T, o, q) ==
    /\ \A i \in 1..Len(q) : q[i] \in T \/ q[i] \notin DOMAIN s.itm
    /\ \A p \in T : p >= o => \E i \in 1..Len(q) : q[i] = p

\* The walk from a border is such a list.
LEMMA WalkMeets ==
    ASSUME NEW s, Basic(s), NEW T, Blocks(s, T)
    PROVE  \A o \in Nat : Boundary(s, T, o) => Meets(s, T, o, WalkFrom(s)[o])
<1> DEFINE l == s.head.lst_itm_ptr
           W == WalkFrom(s)
           S == {m \in Nat : \A o \in Nat :
                   o + m >= l /\ Boundary(s, T, o) => Meets(s, T, o, W[o])}
<1>0. l \in Nat
  BY BasicTypes
<1>1. ASSUME NEW o \in Nat, o >= l PROVE Meets(s, T, o, W[o])
  <2>1. W[o] = <<>>
    BY <1>1, WalkStep
  <2>2. \A p \in T : p \in Nat /\ p < l
    <3>1. \A p \in T : p \in Nat /\ p + ITM_SIZE <= l
      BY BasicTypes DEF Blocks
    <3> QED BY <1>0, <3>1, SizeAssumption
  <2>3. \A p \in T : ~(p >= o)
    BY <1>0, <1>1, <2>2
  <2> HIDE DEF W
  <2> QED BY <2>1, <2>3 DEF Meets
<1>2. 0 \in S
  BY <1>0, <1>1
<1>3. ASSUME NEW m \in Nat, m \in S PROVE m + 1 \in S
  <2> SUFFICES ASSUME NEW o \in Nat, o + (m + 1) >= l, Boundary(s, T, o)
               PROVE  Meets(s, T, o, W[o])
    OBVIOUS
  <2>1. CASE o >= l
    BY <1>1, <2>1
  <2>2. CASE ~(o >= l)
    <3> DEFINE x == NextType(s, o)
               q == W[x]
               c == W[o]
    <3>1. x \in Nat /\ x > o
      BY NextTypeFacts
    <3>2. x + m >= l
      BY <1>0, <3>1
    <3>3. /\ o \in T \/ o \notin DOMAIN s.itm
          /\ Boundary(s, T, x)
          /\ \A p \in T : p >= o => p = o \/ p >= x
      BY <2>2, BoundaryStep
    <3>4. Meets(s, T, x, q)
      BY <1>3, <3>1, <3>2, <3>3
    <3>5. c = <<o>> \o q
      BY <2>2, WalkStep
    <3>6. q \in Seq(Nat)
      BY <3>1, WalkIncreases DEF Increasing
    <3> HIDE DEF q, c, x
    <3>7. /\ c[1] = o /\ Len(c) = Len(q) + 1 /\ Len(q) \in Nat
          /\ \A i \in 1..Len(c) : i # 1 => i - 1 \in 1..Len(q) /\ c[i] = q[i - 1]
          /\ \A i \in 1..Len(q) : i + 1 \in 1..Len(c) /\ c[i + 1] = q[i]
      BY <3>5, <3>6, ConsFacts
    <3>8. ASSUME NEW i \in 1..Len(c)
          PROVE  c[i] \in T \/ c[i] \notin DOMAIN s.itm
      <4>1. CASE i = 1
        BY <3>3, <3>7, <4>1
      <4>2. CASE i # 1
        BY <3>4, <3>7, <4>2 DEF Meets
      <4> QED BY <4>1, <4>2
    <3>9. ASSUME NEW p \in T, p >= o
          PROVE  \E i \in 1..Len(c) : c[i] = p
      <4>1. CASE p = o
        <5>1. 1 \in 1..Len(c)
          BY <3>7
        <5> QED BY <3>7, <4>1, <5>1
      <4>2. CASE p # o
        <5>1. PICK i \in 1..Len(q) : q[i] = p
          BY <3>3, <3>4, <3>9, <4>2 DEF Meets
        <5> QED BY <3>7, <5>1
      <4> QED BY <4>1, <4>2
    <3>10. Meets(s, T, o, c)
      BY <3>8, <3>9 DEF Meets
    <3> QED BY <3>10 DEF c
  <2> QED BY <2>1, <2>2
<1> HIDE DEF S
<1>4. l \in S
  BY <1>0, <1>2, <1>3, NatInduct
<1>5. \A o \in Nat : o + l >= l
  BY <1>0
<1> QED BY <1>4, <1>5 DEF S

\* The types that sect_types_load reports are the blocks.
LEMMA LoadedBlocks ==
    ASSUME NEW s, Basic(s), NEW T, Blocks(s, T)
    PROVE  LET l == sect_types_load(s) IN
           /\ Loaded(s) = T
           /\ \A i \in 1..Len(l) : l[i] \in T \/ l[i] \notin DOMAIN s.itm
           /\ \A p \in T : \E i \in 1..Len(l) : l[i] = p
<1> DEFINE l == sect_types_load(s)
<1>0. HEAD_SIZE \in Nat
  BY SizeAssumption
<1>1. \A p \in T : p \in Nat /\ p >= HEAD_SIZE /\ p \in DOMAIN s.itm
  <2>1. \A p \in T : p \in Nat /\ p \in Slots /\ p \in DOMAIN s.itm
    BY BlockFacts
  <2> QED BY <2>1, SizeAssumption DEF Slots
<1>2. Boundary(s, T, HEAD_SIZE)
  BY <1>0, <1>1, SlotFirst, BasicTypes DEF Boundary
<1>3. Meets(s, T, HEAD_SIZE, l)
  BY <1>0, <1>2, WalkMeets DEF sect_types_load
<1>4. l \in Seq(Nat)
  BY <1>0, WalkIncreases DEF sect_types_load, Increasing
<1> HIDE DEF l
<1>5. DOMAIN l = 1..Len(l)
  BY <1>4
<1>6. /\ \A i \in 1..Len(l) : l[i] \in T \/ l[i] \notin DOMAIN s.itm
      /\ \A p \in T : \E i \in 1..Len(l) : l[i] = p
  BY <1>1, <1>3 DEF Meets
<1>7. Loaded(s) = {x \in {l[i] : i \in 1..Len(l)} : x \in DOMAIN s.itm}
  BY <1>5 DEF Loaded, ToSet, l
<1>8. Loaded(s) = T
  BY <1>1, <1>6, <1>7
<1> QED BY <1>6, <1>8 DEF l

-----------------------------------------------------------------------------
(* A write adds one block.                                                 *)

\* The section w is s with the type t written to it.
Written(s, t, w) ==
    LET n == Len(t.attrs)
        lip == s.head.lst_itm_ptr
        frp == s.head.fst_rec_ptr
    IN  /\ Basic(w)
        /\ n \in Nat /\ lip \in Nat /\ frp \in Nat
        /\ lip \notin DOMAIN s.itm /\ lip \in DOMAIN w.itm
        /\ DOMAIN w.itm = DOMAIN s.itm \cup {SlotAt(lip, i) : i \in 0..n}
        /\ \A x \in DOMAIN s.itm : w.itm[x] = s.itm[x]
        /\ \A b \in Addr : b >= frp => w.rec[b] = s.rec[b]
        /\ w.itm[lip].extra = n
        /\ \A i \in 0..n :
              /\ w.itm[SlotAt(lip, i)].name_size = Len(NameOf(t, i))
              /\ w.itm[SlotAt(lip, i)].name_ptr = frp - Above(t, i + 1)
              /\ w.itm[SlotAt(lip, i)].extra = ExtraOf(t, i)
              /\ NameEnd(w.itm[SlotAt(lip, i)]) = frp - Above(t, i)
              /\ \A j \in 1..Len(NameOf(t, i)) :
                    w.rec[frp - Above(t, i + 1) + j - 1] = NameOf(t, i)[j]

\* A type whose slots are all stored is written.
LEMMA WrittenSlots ==
    ASSUME NEW s, Basic(s), NEW t \in TypeDefs,
           NEW w, SlotsPut(s, t, Len(t.attrs) + 1, w)
    PROVE  Written(s, t, w)
<1> DEFINE n == Len(t.attrs)
           lip == s.head.lst_itm_ptr
           frp == s.head.fst_rec_ptr
<1>1. n \in Nat /\ (n + 1) - 1 = n /\ ExtraOf(t, 0) = n
  BY TypeFacts
<1>2. lip \in Nat /\ frp \in Nat /\ lip \notin DOMAIN s.itm
  BY BasicTypes
<1>3. /\ Basic(w)
      /\ DOMAIN w.itm = DOMAIN s.itm \cup {SlotAt(lip, i) : i \in 0..n}
      /\ \A x \in DOMAIN s.itm : w.itm[x] = s.itm[x]
      /\ \A b \in Addr : b >= frp => w.rec[b] = s.rec[b]
      /\ \A i \in 0..n :
            /\ w.itm[SlotAt(lip, i)] = [name_size |-> Len(NameOf(t, i)),
                                        name_ptr |-> frp - Above(t, i + 1),
                                        extra |-> ExtraOf(t, i)]
            /\ \A j \in 1..Len(NameOf(t, i)) :
                  w.rec[frp - Above(t, i + 1) + j - 1] = NameOf(t, i)[j]
  BY <1>1 DEF SlotsPut
<1> HIDE DEF n, lip, frp
<1>4. ASSUME NEW i \in 0..n
      PROVE  /\ w.itm[SlotAt(lip, i)].name_size = Len(NameOf(t, i))
             /\ w.itm[SlotAt(lip, i)].name_ptr = frp - Above(t, i + 1)
             /\ w.itm[SlotAt(lip, i)].extra = ExtraOf(t, i)
             /\ NameEnd(w.itm[SlotAt(lip, i)]) = frp - Above(t, i)
  <2> DEFINE e == w.itm[SlotAt(lip, i)]
             len == Len(NameOf(t, i))
             a == Above(t, i)
             c == Above(t, i + 1)
  <2>1. e.name_size = len /\ e.name_ptr = frp - c /\ e.extra = ExtraOf(t, i)
    <3>1. e = [name_size |-> len, name_ptr |-> frp - c, extra |-> ExtraOf(t, i)]
      BY <1>3
    <3> HIDE DEF e, len, c
    <3> QED BY <3>1
  <2>2. a \in Nat /\ c = a + len /\ len \in Nat
    <3>1. i \in 0..(n + 1)
      BY <1>1
    <3> QED BY <3>1, AboveFacts, TypeFacts DEF n
  <2> HIDE DEF e, len, a, c
  <2>3. NameEnd(e) = frp - a
    BY <1>2, <2>1, <2>2 DEF NameEnd
  <2> QED BY <2>1, <2>3 DEF e, len, a, c
<1>5. SlotAt(lip, 0) = lip /\ 0 \in 0..n
  BY <1>1, <1>2, SlotAtStep
<1>6. lip \in DOMAIN w.itm /\ w.itm[lip].extra = n
  BY <1>1, <1>3, <1>4, <1>5
<1> QED BY <1>1, <1>2, <1>3, <1>4, <1>6 DEF Written, n, lip, frp

\* sect_types_write adds the block at lst_itm_ptr.
LEMMA WriteBlocks ==
    ASSUME NEW s, Basic(s), NEW T, Blocks(s, T), NEW t \in TypeDefs,
           NEW w, Written(s, t, w)
    PROVE  Blocks(w, T \cup {s.head.lst_itm_ptr})
<1> DEFINE n == Len(t.attrs)
           lip == s.head.lst_itm_ptr
           frp == s.head.fst_rec_ptr
           U == T \cup {lip}
<1>1. /\ Basic(w) /\ n \in Nat /\ lip \in Nat /\ frp \in Nat
      /\ lip \notin DOMAIN s.itm /\ lip \in DOMAIN w.itm
      /\ DOMAIN w.itm = DOMAIN s.itm \cup {SlotAt(lip, i) : i \in 0..n}
      /\ \A x \in DOMAIN s.itm : w.itm[x] = s.itm[x]
      /\ w.itm[lip].extra = n
      /\ \A i \in 0..n :
            /\ w.itm[SlotAt(lip, i)].name_ptr = frp - Above(t, i + 1)
            /\ NameEnd(w.itm[SlotAt(lip, i)]) = frp - Above(t, i)
  BY DEF Written
<1>2. \A o \in T : /\ o \in DOMAIN s.itm /\ o \in Nat /\ NextType(s, o) \in Nat
                   /\ NextType(s, o) <= lip /\ o < NextType(s, o)
                   /\ RdSlot(s, o) = s.itm[o]
                   /\ \A i \in 0..s.itm[o].extra : SlotAt(o, i) \in DOMAIN s.itm
  BY BlockFacts
<1> HIDE DEF n, lip, frp
<1>3. U \subseteq DOMAIN w.itm
  BY <1>1, <1>2
<1>4. \A o \in U : \A i \in 0..w.itm[o].extra : SlotAt(o, i) \in DOMAIN w.itm
  BY <1>1, <1>2
<1>5. ASSUME NEW o \in U, NEW i \in 1..w.itm[o].extra
      PROVE  NameEnd(w.itm[SlotAt(o, i)]) = w.itm[SlotAt(o, i - 1)].name_ptr
  <2>1. CASE o \in T
    <3>1. w.itm[o] = s.itm[o] /\ s.itm[o].extra \in Nat
      BY <1>1, <1>2, <2>1, BasicTypes
    <3>2. i \in 0..s.itm[o].extra /\ i - 1 \in 0..s.itm[o].extra
      BY <3>1
    <3>3. /\ w.itm[SlotAt(o, i)] = s.itm[SlotAt(o, i)]
          /\ w.itm[SlotAt(o, i - 1)] = s.itm[SlotAt(o, i - 1)]
      BY <1>1, <1>2, <2>1, <3>2
    <3>4. NameEnd(s.itm[SlotAt(o, i)]) = s.itm[SlotAt(o, i - 1)].name_ptr
      BY <2>1, <3>1 DEF Blocks
    <3> QED BY <3>3, <3>4
  <2>2. CASE o = lip
    <3>1. i \in 0..n /\ i - 1 \in 0..n /\ (i - 1) + 1 = i
      BY <1>1, <2>2
    <3>2. w.itm[SlotAt(lip, i - 1)].name_ptr = frp - Above(t, (i - 1) + 1)
      BY <1>1, <3>1
    <3> QED BY <1>1, <2>2, <3>1, <3>2
  <2> QED BY <2>1, <2>2
<1>6. ASSUME NEW x \in DOMAIN w.itm
      PROVE  \E o \in U : \E i \in 0..w.itm[o].extra : x = SlotAt(o, i)
  <2>1. CASE x \in DOMAIN s.itm
    <3>1. PICK o \in T : \E i \in 0..s.itm[o].extra : x = SlotAt(o, i)
      BY <2>1 DEF Blocks
    <3>2. w.itm[o] = s.itm[o]
      BY <1>1, <1>2
    <3> QED BY <3>1, <3>2
  <2>2. CASE x \notin DOMAIN s.itm
    BY <1>1, <2>2
  <2> QED BY <2>1, <2>2
<1>7. ASSUME NEW o \in U, NEW p \in U, o < p
      PROVE  NextType(w, o) <= p
  <2>1. o # lip
    <3>1. \A x \in T : x < lip
      BY <1>1, <1>2
    <3> QED BY <1>1, <1>2, <1>7, <3>1
  <2>2. o \in T /\ w.itm[o] = s.itm[o]
    BY <1>1, <1>2, <2>1
  <2>3. NextType(w, o) = NextType(s, o)
    BY <1>2, <1>3, <2>2 DEF NextType, RdSlot
  <2>4. CASE p = lip
    BY <1>2, <2>2, <2>3, <2>4
  <2>5. CASE p \in T
    BY <1>7, <2>2, <2>3, <2>5 DEF Blocks
  <2> QED BY <2>4, <2>5
<1>8. Blocks(w, U)
  BY <1>3, <1>4, <1>5, <1>6, <1>7 DEF Blocks
<1> QED BY <1>8 DEF lip

-----------------------------------------------------------------------------
(* A delete clears one block.                                              *)

\* The bytes that the delete of a type zeroes are those of its names.
LEMMA ChainFacts ==
    ASSUME NEW s, Basic(s), NEW T, Blocks(s, T), NEW o \in T
    PROVE  /\ DelStart(s, o) \in Nat /\ DelEnd(s, o) \in Nat
           /\ \A i \in 0..s.itm[o].extra :
                 /\ DelStart(s, o) <= s.itm[SlotAt(o, i)].name_ptr
                 /\ NameEnd(s.itm[SlotAt(o, i)]) <= DelEnd(s, o)
           /\ \A b \in Int : DelStart(s, o) <= b /\ b < DelEnd(s, o) =>
                 \E i \in 0..s.itm[o].extra :
                    /\ s.itm[SlotAt(o, i)].name_ptr <= b
                    /\ b < NameEnd(s.itm[SlotAt(o, i)])
<1> DEFINE n == s.itm[o].extra
           Lo(i) == s.itm[SlotAt(o, i)].name_ptr
           Hi(i) == NameEnd(s.itm[SlotAt(o, i)])
<1>1. /\ n \in Nat /\ o \in DOMAIN s.itm /\ o \in Nat /\ RdSlot(s, o) = s.itm[o]
      /\ \A i \in 0..n : SlotAt(o, i) \in DOMAIN s.itm
  BY BlockFacts
<1>2. ASSUME NEW i \in 0..n
      PROVE  Lo(i) \in Nat /\ Hi(i) \in Nat /\ Lo(i) <= Hi(i)
  <2>1. /\ s.itm[SlotAt(o, i)].name_size \in Nat
        /\ s.itm[SlotAt(o, i)].name_ptr \in Nat
    BY <1>1, BasicTypes
  <2> QED BY <2>1 DEF NameEnd
<1>3. \A i \in 1..n : Hi(i) = Lo(i - 1)
  BY DEF Blocks
<1>4. 0 \in 0..n /\ n \in 0..n
  BY <1>1
<1>5. DelStart(s, o) = Lo(n) /\ DelEnd(s, o) = Hi(0)
  <2>1. SlotAt(o, 0) = o /\ RdSlot(s, SlotAt(o, n)) = s.itm[SlotAt(o, n)]
    BY <1>1, <1>4, SlotAtStep, RdSlotTypes
  <2> QED BY <1>1, <2>1 DEF DelStart, DelEnd
<1> HIDE DEF Lo, Hi, n
<1>6. \A i \in 0..n : Hi(i) <= Hi(0)
  <2> DEFINE S == {i \in Nat : i <= n => Hi(i) <= Hi(0)}
  <2>1. 0 \in S
    BY <1>2, <1>4
  <2>2. ASSUME NEW i \in Nat, i \in S PROVE i + 1 \in S
    <3> SUFFICES ASSUME i + 1 <= n PROVE Hi(i + 1) <= Hi(0)
      OBVIOUS
    <3>1. i \in 0..n /\ i + 1 \in 1..n /\ (i + 1) - 1 = i /\ i <= n
      BY <1>1
    <3>2. Hi(i + 1) = Lo(i) /\ Hi(i) <= Hi(0)
      BY <1>3, <2>2, <3>1
    <3> QED BY <1>2, <1>4, <3>1, <3>2
  <2> HIDE DEF S
  <2>3. \A i \in Nat : i \in S
    BY <2>1, <2>2, NatInduct
  <2> QED BY <1>1, <2>3 DEF S
<1>7. \A i \in 0..n : Lo(n) <= Lo(i)
  <2> DEFINE S == {m \in Nat : m <= n => Lo(n) <= Lo(n - m)}
  <2>1. 0 \in S
    BY <1>1, <1>2, <1>4
  <2>2. ASSUME NEW m \in Nat, m \in S PROVE m + 1 \in S
    <3> SUFFICES ASSUME m + 1 <= n PROVE Lo(n) <= Lo(n - (m + 1))
      OBVIOUS
    <3> DEFINE i == n - m
    <3>1. /\ i \in 0..n /\ i \in 1..n /\ i - 1 \in 0..n /\ n - (m + 1) = i - 1
          /\ m <= n
      BY <1>1
    <3>2. Lo(n) <= Lo(i)
      BY <2>2, <3>1
    <3> HIDE DEF i
    <3>3. Hi(i) = Lo(i - 1)
      BY <1>3, <3>1
    <3>4. Lo(n) <= Lo(i - 1)
      BY <1>2, <1>4, <3>1, <3>2, <3>3
    <3> QED BY <3>1, <3>4
  <2> HIDE DEF S
  <2>3. \A m \in Nat : m \in S
    BY <2>1, <2>2, NatInduct
  <2>4. ASSUME NEW i \in 0..n PROVE Lo(n) <= Lo(i)
    <3>1. n - i \in Nat /\ n - i <= n /\ n - (n - i) = i
      BY <1>1
    <3>2. Lo(n) <= Lo(n - (n - i))
      BY <2>3, <3>1 DEF S
    <3> QED BY <3>1, <3>2
  <2> QED BY <2>4
<1>8. ASSUME NEW b \in Int, Lo(n) <= b, b < Hi(0)
      PROVE  \E i \in 0..n : Lo(i) <= b /\ b < Hi(i)
  <2> DEFINE S == {i \in Nat : i <= n /\ Lo(i) <= b}
  <2>1. n \in S /\ S \subseteq Nat
    BY <1>1, <1>8
  <2>2. PICK k \in S : \A i \in S : k <= i
    <3> HIDE DEF S
    <3>1. S # {}
      BY <2>1
    <3> QED BY <2>1, <3>1, NatLeast
  <2>3. k \in 0..n /\ Lo(k) <= b
    BY <1>1
  <2>4. CASE k = 0
    BY <1>8, <2>3, <2>4
  <2>5. CASE k # 0
    <3>1. k \in 1..n /\ k - 1 \in Nat /\ k - 1 <= n /\ ~(k <= k - 1)
          /\ k - 1 \in 0..n
      BY <1>1, <2>3, <2>5
    <3>2. ~(Lo(k - 1) <= b)
      <4>1. k - 1 \notin S
        BY <2>2, <3>1
      <4> QED BY <3>1, <4>1
    <3>3. b < Hi(k)
      BY <1>2, <1>3, <3>1, <3>2
    <3> QED BY <2>3, <3>3
  <2> QED BY <2>4, <2>5
<1>9. Lo(n) \in Nat /\ Hi(0) \in Nat
  BY <1>2, <1>4
<1> QED BY <1>5, <1>6, <1>7, <1>8, <1>9 DEF Lo, Hi, n

\* The delete of a zeroed slot clears nothing.
LEMMA ClearedDead ==
    ASSUME NEW s, Basic(s), NEW o \in Nat, o \notin DOMAIN s.itm
    PROVE  Cleared(s, o) = s
<1>1. RdSlot(s, o) = ZeroSlot /\ ZeroSlot.extra = 0 /\ ZeroSlot.name_ptr = 0
      /\ NameEnd(ZeroSlot) = 0
  BY RdSlotTypes
<1>2. SlotAt(o, 0) = o
  BY SlotAtStep
<1>3. DelStart(s, o) = 0 /\ DelEnd(s, o) = 0
  BY <1>1, <1>2 DEF DelStart, DelEnd
<1>4. SlotsOf(s, o) = {o}
  <2>1. 0..0 = {0}
    OBVIOUS
  <2>2. SlotsOf(s, o) = {SlotAt(o, i) : i \in 0..0}
    BY <1>1 DEF SlotsOf
  <2> QED BY <1>2, <2>1, <2>2
<1>5. DelItm(s, o) = s.itm
  <2>1. DOMAIN s.itm \ SlotsOf(s, o) = DOMAIN s.itm
    BY <1>4
  <2>2. s.itm = [x \in DOMAIN s.itm |-> s.itm[x]]
    BY DEF Basic
  <2> QED BY <2>1, <2>2 DEF DelItm
<1>6. DelRec(s, o) = s.rec
  <2>1. \A b \in Addr : ~(0 <= b /\ b < 0)
    BY SizeAssumption DEF Addr
  <2>2. s.rec = [b \in Addr |-> s.rec[b]]
    BY DEF Basic
  <2>3. DelRec(s, o) = [b \in Addr |-> s.rec[b]]
    BY <1>3, <2>1 DEF DelRec
  <2> QED BY <2>2, <2>3
<1>7. s = Sect(s.head, s.disk, s.itm, s.rec)
  BY DEF Basic
<1> QED BY <1>5, <1>6, <1>7 DEF Cleared

\* No byte of another slot's name is among those that are zeroed, and every
\* byte of the names that go is.
LEMMA ClearedBytes ==
    ASSUME NEW s, NamesLoose(s), NEW T, Blocks(s, T), NEW o \in T,
           NEW x \in Named(s), NEW b \in Int,
           s.itm[x].name_ptr <= b, b < NameEnd(s.itm[x])
    PROVE  DelStart(s, o) <= b /\ b < DelEnd(s, o) <=> x \in SlotsOf(s, o)
<1>0. Basic(s)
  BY DEF NamesLoose
<1>1. SlotsOf(s, o) = {SlotAt(o, i) : i \in 0..s.itm[o].extra}
  BY <1>0, BlockFacts
<1>2. ASSUME DelStart(s, o) <= b, b < DelEnd(s, o)
      PROVE  x \in SlotsOf(s, o)
  <2>1. PICK i \in 0..s.itm[o].extra : /\ s.itm[SlotAt(o, i)].name_ptr <= b
                                       /\ b < NameEnd(s.itm[SlotAt(o, i)])
    BY <1>0, <1>2, ChainFacts
  <2> DEFINE y == SlotAt(o, i)
  <2>2. y \in DOMAIN s.itm
    BY <1>0, BlockFacts
  <2>3. s.itm[y].name_ptr \in Nat /\ s.itm[y].name_size \in Nat
    BY <1>0, <2>2, BasicTypes
  <2>4. s.itm[y].name_size # 0
    <3> DEFINE p == s.itm[y].name_ptr
               z == s.itm[y].name_size
    <3>1. p <= b /\ b < p + z
      BY <2>1 DEF NameEnd
    <3> HIDE DEF p, z
    <3>2. z # 0
      BY <2>3, <3>1 DEF p, z
    <3> QED BY <3>2 DEF z
  <2>5. y \in Named(s)
    BY <2>2, <2>4 DEF Named
  <2>6. x = y
    <3> HIDE DEF y
    <3> QED BY <2>1, <2>5, NamesDisjoint DEF y
  <2> QED BY <1>1, <2>6
<1>3. ASSUME x \in SlotsOf(s, o)
      PROVE  DelStart(s, o) <= b /\ b < DelEnd(s, o)
  <2>1. PICK i \in 0..s.itm[o].extra : x = SlotAt(o, i)
    BY <1>1, <1>3
  <2> DEFINE p == s.itm[x].name_ptr
             e == NameEnd(s.itm[x])
             a == DelStart(s, o)
             z == DelEnd(s, o)
  <2>2. a \in Nat /\ z \in Nat /\ a <= p /\ e <= z
    BY <1>0, <2>1, ChainFacts
  <2>3. p \in Nat /\ e \in Nat
    BY NamedFacts
  <2>4. p <= b /\ b < e
    OBVIOUS
  <2> HIDE DEF p, e, a, z
  <2>5. a <= b /\ b < z
    BY <2>2, <2>3, <2>4
  <2> QED BY <2>5 DEF a, z
<1> QED BY <1>2, <1>3

\* The cleared section has its names in order ...
LEMMA ClearedLoose ==
    ASSUME NEW s, NamesLoose(s), NEW T, Blocks(s, T), NEW o \in T
    PROVE  NamesLoose(Cleared(s, o))
<1> DEFINE m == Cleared(s, o)
<1>0. Basic(s)
  BY DEF NamesLoose
<1>1. /\ Basic(m) /\ m.head = s.head
      /\ DOMAIN m.itm = DOMAIN s.itm \ SlotsOf(s, o)
      /\ \A x \in DOMAIN m.itm : m.itm[x] = s.itm[x]
      /\ \A b \in Addr : m.rec[b] = IF DelStart(s, o) <= b /\ b < DelEnd(s, o)
                                    THEN 0 ELSE s.rec[b]
  BY <1>0, ClearedBasic
<1> HIDE DEF m
<1>2. \A x \in Named(m) : /\ x \in Named(s) /\ x \notin SlotsOf(s, o)
                          /\ m.itm[x] = s.itm[x]
  BY <1>1 DEF Named
<1>3. \A x \in Named(s) : x \notin SlotsOf(s, o)
                             => x \in Named(m) /\ m.itm[x] = s.itm[x]
  BY <1>1 DEF Named
<1>4. NamesAbove(m)
  BY <1>1, <1>2 DEF NamesLoose, NamesAbove
<1>5. NamesOrdered(m)
  BY <1>2 DEF NamesLoose, NamesOrdered
<1>6. ASSUME NEW x \in Named(m) PROVE m.rec[m.itm[x].name_ptr] # 0
  <2> DEFINE b == s.itm[x].name_ptr
  <2>1. x \in Named(s) /\ x \notin SlotsOf(s, o) /\ m.itm[x].name_ptr = b
    BY <1>2
  <2>2. b \in Nat /\ b < NameEnd(s.itm[x]) /\ b \in Addr /\ s.rec[b] # 0
    BY <2>1, NamedFacts
  <2>3. b \in Int /\ b <= b
    BY <2>2
  <2>4. ~(DelStart(s, o) <= b /\ b < DelEnd(s, o))
    BY <2>1, <2>2, <2>3, ClearedBytes
  <2>5. m.rec[b] = s.rec[b]
    BY <1>1, <2>2, <2>4
  <2> QED BY <2>1, <2>2, <2>5
<1>7. ASSUME NEW b \in Addr, m.rec[b] # 0
      PROVE  \E x \in Named(m) : /\ m.itm[x].name_ptr <= b
                                 /\ b < NameEnd(m.itm[x])
  <2>0. b \in Int
    BY SizeAssumption DEF Addr
  <2>1. ~(DelStart(s, o) <= b /\ b < DelEnd(s, o)) /\ s.rec[b] # 0
    BY <1>1, <1>7
  <2>2. PICK x \in Named(s) : /\ s.itm[x].name_ptr <= b
                              /\ b < NameEnd(s.itm[x])
    BY <2>1 DEF NamesLoose, NamesFilled
  <2>3. x \notin SlotsOf(s, o)
    BY <2>0, <2>1, <2>2, ClearedBytes
  <2> QED BY <1>3, <2>2, <2>3
<1>8. NamesFilled(m)
  BY <1>6, <1>7 DEF NamesFilled
<1> QED BY <1>1, <1>4, <1>5, <1>8 DEF NamesLoose, m

\* ... and one block less.
LEMMA ClearedBlocks ==
    ASSUME NEW s, Basic(s), NEW T, Blocks(s, T), NEW o \in T
    PROVE  Blocks(Cleared(s, o), T \ {o})
<1> DEFINE m == Cleared(s, o)
           U == T \ {o}
<1>1. /\ Basic(m) /\ DOMAIN m.itm = DOMAIN s.itm \ SlotsOf(s, o)
      /\ \A x \in DOMAIN m.itm : m.itm[x] = s.itm[x]
  BY ClearedBasic
<1> HIDE DEF m
<1>2. ASSUME NEW p \in U, NEW i \in 0..s.itm[p].extra
      PROVE  /\ SlotAt(p, i) \in DOMAIN m.itm
             /\ m.itm[SlotAt(p, i)] = s.itm[SlotAt(p, i)]
  <2>1. SlotAt(p, i) \in DOMAIN s.itm
    BY BlockFacts
  <2>2. SlotAt(p, i) \notin SlotsOf(s, o)
    BY BlocksApart
  <2> QED BY <1>1, <2>1, <2>2
<1>3. ASSUME NEW p \in U
      PROVE  /\ p \in DOMAIN m.itm /\ m.itm[p] = s.itm[p]
             /\ NextType(m, p) = NextType(s, p) /\ s.itm[p].extra \in Nat
  <2>1. p \in Nat /\ p \in DOMAIN s.itm /\ s.itm[p].extra \in Nat
    BY BlockFacts
  <2>2. SlotAt(p, 0) = p /\ 0 \in 0..s.itm[p].extra
    <3>1. SlotAt(p, 0) = p
      BY <2>1, SlotAtStep
    <3> QED BY <2>1, <3>1
  <2>3. p \in DOMAIN m.itm /\ m.itm[p] = s.itm[p]
    BY <1>2, <2>2
  <2> QED BY <2>1, <2>3 DEF NextType, RdSlot
<1>4. U \subseteq DOMAIN m.itm
  BY <1>3
<1>5. \A p \in U : \A i \in 0..m.itm[p].extra : SlotAt(p, i) \in DOMAIN m.itm
  BY <1>2, <1>3
<1>6. ASSUME NEW p \in U, NEW i \in 1..m.itm[p].extra
      PROVE  NameEnd(m.itm[SlotAt(p, i)]) = m.itm[SlotAt(p, i - 1)].name_ptr
  <2>1. i \in 1..s.itm[p].extra /\ s.itm[p].extra \in Nat
    BY <1>3
  <2>2. i \in 0..s.itm[p].extra /\ i - 1 \in 0..s.itm[p].extra
    BY <2>1
  <2>3. NameEnd(s.itm[SlotAt(p, i)]) = s.itm[SlotAt(p, i - 1)].name_ptr
    BY <2>1 DEF Blocks
  <2> QED BY <1>2, <2>2, <2>3
<1>7. ASSUME NEW x \in DOMAIN m.itm
      PROVE  \E p \in U : \E i \in 0..m.itm[p].extra : x = SlotAt(p, i)
  <2>1. x \in DOMAIN s.itm /\ x \notin SlotsOf(s, o)
    BY <1>1
  <2>2. PICK p \in T : \E i \in 0..s.itm[p].extra : x = SlotAt(p, i)
    BY <2>1 DEF Blocks
  <2>3. p # o
    <3>1. SlotsOf(s, o) = {SlotAt(o, i) : i \in 0..s.itm[o].extra}
      BY BlockFacts
    <3> QED BY <2>1, <2>2, <3>1
  <2>4. p \in U
    BY <2>3
  <2> QED BY <1>3, <2>2, <2>4
<1>8. \A p, q \in U : p < q => NextType(m, p) <= q
  BY <1>3 DEF Blocks
<1>9. Blocks(m, U)
  BY <1>4, <1>5, <1>6, <1>7, <1>8 DEF Blocks
<1> QED BY <1>9 DEF m

\* The compressions bring both borders to something in use.
LEMMA CompressNames ==
    ASSUME NEW m, NamesLoose(m), NEW t, Compressed(m, t)
    PROVE  NamesInv(t)
<1> DEFINE lip == t.head.lst_itm_ptr
           frp == t.head.fst_rec_ptr
<1>0. Basic(m)
  BY DEF NamesLoose
<1>1. Basic(t)
  BY <1>0, CompressBasic
<1>2. t.itm = m.itm /\ t.rec = m.rec /\ Named(t) = Named(m)
  BY DEF Compressed, Named
<1>3. /\ frp \in Nat /\ frp <= SECTION_SIZE /\ HEAD_SIZE <= frp
      /\ lip = HEAD_SIZE \/ lip - ITM_SIZE \in DOMAIN m.itm
      /\ frp = SECTION_SIZE \/ m.rec[frp] # 0
      /\ \A b \in Nat : /\ m.head.fst_rec_ptr <= b /\ b < SECTION_SIZE
                        /\ m.rec[b] # 0
                        => frp <= b
  <2>1. lip \in Nat /\ HEAD_SIZE <= lip /\ lip <= frp /\ frp \in Nat
        /\ frp <= SECTION_SIZE
    BY <1>1, BasicTypes
  <2>2. HEAD_SIZE <= frp
    BY <2>1, SizeAssumption
  <2> QED BY <2>1, <2>2 DEF Compressed
<1>4. ASSUME NEW x \in Named(m)
      PROVE  /\ frp <= m.itm[x].name_ptr /\ NameEnd(m.itm[x]) <= SECTION_SIZE
             /\ m.itm[x].name_ptr \in Nat
  <2> DEFINE b == m.itm[x].name_ptr
  <2>1. /\ b \in Nat /\ m.head.fst_rec_ptr <= b /\ b \in Addr
        /\ NameEnd(m.itm[x]) <= SECTION_SIZE /\ m.rec[b] # 0
    BY NamedFacts
  <2>2. b < SECTION_SIZE
    BY <2>1, SizeAssumption DEF Addr
  <2> QED BY <1>3, <2>1, <2>2
<1> HIDE DEF lip, frp
<1>5. NamesAbove(t)
  BY <1>2, <1>4 DEF NamesAbove, frp
<1>6. NamesOrdered(t) /\ NamesFilled(t)
  BY <1>2 DEF NamesLoose, NamesOrdered, NamesFilled
<1>7. frp = SECTION_SIZE \/ \E x \in Named(m) : m.itm[x].name_ptr = frp
  <2> SUFFICES ASSUME frp # SECTION_SIZE
               PROVE  \E x \in Named(m) : m.itm[x].name_ptr = frp
    OBVIOUS
  <2>1. frp \in Addr
    BY <1>3, SizeAssumption DEF Addr
  <2>2. PICK x \in Named(m) : m.itm[x].name_ptr <= frp
    BY <1>3, <2>1 DEF NamesLoose, NamesFilled
  <2>3. m.itm[x].name_ptr = frp
    BY <1>3, <1>4, <2>2
  <2> QED BY <2>3
<1>8. Bordered(t)
  BY <1>2, <1>3, <1>7 DEF Bordered, lip, frp
<1> QED BY <1>1, <1>5, <1>6, <1>8 DEF NamesInv, NamesLoose

\* A delete of a type, or of a zeroed slot that the walk took for one.
LEMMA DeleteInv ==
    ASSUME NEW s, NamesInv(s), NEW T, Blocks(s, T), NEW o \in Nat,
           o \in T \/ o \notin DOMAIN s.itm
    PROVE  /\ NamesInv(sect_types_delete(s, o))
           /\ Blocks(sect_types_delete(s, o), T \ {o})
<1> DEFINE m == Cleared(s, o)
           d == sect_types_delete(s, o)
<1>0. NamesLoose(s) /\ Basic(s)
  BY DEF NamesInv, NamesLoose
<1>1. Compressed(m, d)
  BY <1>0, DeleteCompresses
<1>2. NamesLoose(m) /\ Blocks(m, T \ {o})
  <2>1. CASE o \in T
    BY <1>0, <2>1, ClearedLoose, ClearedBlocks
  <2>2. CASE o \notin DOMAIN s.itm
    <3>1. m = s
      BY <1>0, <2>2, ClearedDead
    <3>2. T \ {o} = T
      BY <2>2 DEF Blocks
    <3> HIDE DEF m
    <3> QED BY <1>0, <3>1, <3>2
  <2> QED BY <2>1, <2>2
<1> HIDE DEF m, d
<1>3. NamesInv(d)
  BY <1>1, <1>2, CompressNames
<1>4. d.itm = m.itm
  BY <1>1 DEF Compressed
<1>5. \A p : NextType(d, p) = NextType(m, p)
  BY <1>4 DEF NextType, RdSlot
<1>6. Blocks(d, T \ {o})
  BY <1>2, <1>4, <1>5 DEF Blocks
<1> QED BY <1>3, <1>6 DEF d

-----------------------------------------------------------------------------
(* What the calls do to the table of types.                                *)

\* A byte of a name.
LEMMA NameByte ==
    ASSUME NEW s, NamesLoose(s), NEW x \in DOMAIN s.itm,
           NEW j \in 1..s.itm[x].name_size
    PROVE  LET b == s.itm[x].name_ptr + j - 1 IN
           /\ b \in Addr /\ b \in Int /\ x \in Named(s)
           /\ b >= s.head.fst_rec_ptr
           /\ s.itm[x].name_ptr <= b /\ b < NameEnd(s.itm[x])
<1> DEFINE p == s.itm[x].name_ptr
           z == s.itm[x].name_size
           f == s.head.fst_rec_ptr
           b == p + j - 1
<1>1. p \in Nat /\ z \in Nat /\ f \in Nat
  BY BasicTypes DEF NamesLoose
<1>2. j \in Int /\ 1 <= j /\ j <= z
  BY <1>1
<1>3. x \in Named(s)
  <2>1. z # 0
    <3> HIDE DEF z
    <3> QED BY <1>2
  <2> QED BY <2>1 DEF Named
<1>4. f <= p /\ p + z <= SECTION_SIZE /\ p \in Addr
  BY <1>3, NamedFacts DEF NameEnd
<1> HIDE DEF p, z, f
<1>5. b \in Int /\ p <= b /\ b < p + z /\ b >= f /\ b \in Addr
  BY <1>1, <1>2, <1>4, SizeAssumption DEF Addr
<1> QED BY <1>3, <1>5 DEF p, z, f, NameEnd

\* A type reads the same as long as its slots and its names do.
LEMMA ReadSame ==
    ASSUME NEW s, Basic(s), NEW T, Blocks(s, T), NEW p \in T, NEW w,
           \A i \in 0..s.itm[p].extra :
              /\ SlotAt(p, i) \in DOMAIN w.itm
              /\ w.itm[SlotAt(p, i)] = s.itm[SlotAt(p, i)]
              /\ \A j \in 1..s.itm[SlotAt(p, i)].name_size :
                    w.rec[s.itm[SlotAt(p, i)].name_ptr + j - 1]
                      = s.rec[s.itm[SlotAt(p, i)].name_ptr + j - 1]
    PROVE  sect_types_read(w, p) = sect_types_read(s, p)
<1> DEFINE n == s.itm[p].extra
           Nm(v, e) == sect_head_read(v, e.name_ptr, e.name_size)
           A(v, i) == [name |-> Nm(v, RdSlot(v, SlotAt(p, i))),
                       type |-> RdSlot(v, SlotAt(p, i)).extra]
<1>1. n \in Nat /\ p \in Nat /\ SlotAt(p, 0) = p /\ RdSlot(s, p).extra = n
  <2>1. n \in Nat /\ p \in Nat /\ RdSlot(s, p).extra = n
    BY BlockFacts
  <2>2. SlotAt(p, 0) = p
    BY <2>1, SlotAtStep
  <2> QED BY <2>1, <2>2
<1>2. ASSUME NEW i \in 0..n
      PROVE  /\ RdSlot(w, SlotAt(p, i)) = RdSlot(s, SlotAt(p, i))
             /\ Nm(w, RdSlot(w, SlotAt(p, i))) = Nm(s, RdSlot(s, SlotAt(p, i)))
  <2> DEFINE x == SlotAt(p, i)
             e == s.itm[x]
  <2>1. x \in DOMAIN s.itm
    BY BlockFacts
  <2>2. RdSlot(w, x) = e /\ RdSlot(s, x) = e
    BY <2>1 DEF RdSlot
  <2>3. \A j \in 1..e.name_size :
           w.rec[e.name_ptr + j - 1] = s.rec[e.name_ptr + j - 1]
    OBVIOUS
  <2> HIDE DEF x, e
  <2>4. Nm(w, e) = Nm(s, e)
    BY <2>3 DEF sect_head_read
  <2> QED BY <2>2, <2>4 DEF x
<1>3. sect_types_read(s, p) = [name |-> Nm(s, RdSlot(s, p)),
                               attrs |-> [i \in 1..RdSlot(s, p).extra |-> A(s, i)]]
  BY DEF sect_types_read
<1>4. sect_types_read(w, p) = [name |-> Nm(w, RdSlot(w, p)),
                               attrs |-> [i \in 1..RdSlot(w, p).extra |-> A(w, i)]]
  BY DEF sect_types_read
<1> HIDE DEF Nm, n
<1>5. \A i \in 1..n : A(w, i) = A(s, i)
  <2>1. \A i \in 1..n : i \in 0..n
    BY <1>1
  <2> QED BY <1>2, <2>1
<1>6. /\ RdSlot(w, p) = RdSlot(s, p)
      /\ Nm(w, RdSlot(w, p)) = Nm(s, RdSlot(s, p))
  <2>1. 0 \in 0..n
    BY <1>1
  <2> QED BY <1>1, <1>2, <2>1
<1> HIDE DEF A
<1>7. [i \in 1..n |-> A(w, i)] = [i \in 1..n |-> A(s, i)]
  BY <1>5
<1> QED BY <1>1, <1>3, <1>4, <1>6, <1>7

\* A written type reads back as it was given.
LEMMA ReadBack ==
    ASSUME NEW s, NEW t \in TypeDefs, NEW w, Written(s, t, w)
    PROVE  sect_types_read(w, s.head.lst_itm_ptr) = t
<1> DEFINE n == Len(t.attrs)
           lip == s.head.lst_itm_ptr
           frp == s.head.fst_rec_ptr
           Nm(e) == sect_head_read(w, e.name_ptr, e.name_size)
           E(i) == RdSlot(w, SlotAt(lip, i))
           A(i) == [name |-> Nm(E(i)), type |-> E(i).extra]
<1>1. /\ n \in Nat /\ lip \in Nat /\ frp \in Nat
      /\ DOMAIN w.itm = DOMAIN s.itm \cup {SlotAt(lip, i) : i \in 0..n}
      /\ w.itm[lip].extra = n /\ lip \in DOMAIN w.itm
      /\ \A i \in 0..n :
            /\ w.itm[SlotAt(lip, i)].name_size = Len(NameOf(t, i))
            /\ w.itm[SlotAt(lip, i)].name_ptr = frp - Above(t, i + 1)
            /\ w.itm[SlotAt(lip, i)].extra = ExtraOf(t, i)
            /\ \A j \in 1..Len(NameOf(t, i)) :
                  w.rec[frp - Above(t, i + 1) + j - 1] = NameOf(t, i)[j]
  BY DEF Written
<1>2. SlotAt(lip, 0) = lip
  BY <1>1, SlotAtStep
<1> HIDE DEF n, lip, frp
<1>3. ASSUME NEW i \in 0..n
      PROVE  Nm(E(i)) = NameOf(t, i) /\ E(i).extra = ExtraOf(t, i)
  <2> DEFINE x == SlotAt(lip, i)
             nm == NameOf(t, i)
             c == frp - Above(t, i + 1)
  <2>1. x \in DOMAIN w.itm
    BY <1>1
  <2>2. E(i) = w.itm[x]
    BY <2>1 DEF RdSlot
  <2>3. /\ w.itm[x].name_size = Len(nm) /\ w.itm[x].name_ptr = c
        /\ w.itm[x].extra = ExtraOf(t, i)
        /\ \A j \in 1..Len(nm) : w.rec[c + j - 1] = nm[j]
    BY <1>1
  <2>4. nm \in Seq(Byte)
    BY TypeFacts DEF n
  <2> HIDE DEF x, nm, c, E
  <2>5. nm = [j \in 1..Len(nm) |-> nm[j]]
    BY <2>4
  <2>6. Nm(E(i)) = [j \in 1..Len(nm) |-> w.rec[c + j - 1]]
    BY <2>2, <2>3 DEF sect_head_read
  <2>7. Nm(E(i)) = nm
    BY <2>3, <2>5, <2>6
  <2> QED BY <2>2, <2>3, <2>7 DEF nm
<1>4. /\ t = [name |-> t.name, attrs |-> t.attrs]
      /\ t.attrs = [i \in 1..n |-> t.attrs[i]]
      /\ \A i \in 1..n : t.attrs[i] = [name |-> t.attrs[i].name,
                                       type |-> t.attrs[i].type]
  <2> DEFINE R == [name : Seq(Byte), type : Nat]
  <2>1. t \in [name : Seq(Byte), attrs : Seq(R)]
    BY TypeDefsAssumption
  <2> HIDE DEF R
  <2>2. t.attrs \in Seq(R) /\ t = [name |-> t.name, attrs |-> t.attrs]
    BY <2>1
  <2>3. /\ t.attrs = [i \in 1..n |-> t.attrs[i]]
        /\ \A i \in 1..n : t.attrs[i] \in R
    BY <2>2 DEF n
  <2> QED BY <2>2, <2>3 DEF R
<1>5. Nm(E(0)) = t.name /\ E(0) = RdSlot(w, lip) /\ E(0).extra = n
  <2>1. 0 \in 0..n
    BY <1>1
  <2>2. NameOf(t, 0) = t.name /\ ExtraOf(t, 0) = n
    BY DEF NameOf, ExtraOf, n
  <2> QED BY <1>2, <1>3, <2>1, <2>2
<1>6. \A i \in 1..n : A(i) = t.attrs[i]
  <2>1. \A i \in 1..n : i \in 0..n /\ i # 0
    BY <1>1
  <2>2. \A i \in 1..n : /\ NameOf(t, i) = t.attrs[i].name
                        /\ ExtraOf(t, i) = t.attrs[i].type
    BY <2>1 DEF NameOf, ExtraOf
  <2> HIDE DEF E, Nm
  <2> QED BY <1>3, <1>4, <2>1, <2>2
<1>7. sect_types_read(w, lip)
        = [name |-> Nm(RdSlot(w, lip)),
           attrs |-> [i \in 1..RdSlot(w, lip).extra |-> A(i)]]
  BY DEF sect_types_read
<1> HIDE DEF A, Nm, E
<1>8. [i \in 1..n |-> A(i)] = t.attrs
  BY <1>4, <1>6
<1>9. sect_types_read(w, lip) = [name |-> t.name, attrs |-> t.attrs]
  BY <1>5, <1>7, <1>8
<1> QED BY <1>4, <1>9 DEF lip

\* Adding a type adds one entry and keeps the others.
LEMMA AddStep ==
    ASSUME NamesNotZero, NEW s, TypesInv(s), NEW t \in TypeDefs,
           CanWriteType(s, t)
    PROVE  LET w == sect_types_write(s, t)
               lip == s.head.lst_itm_ptr
           IN  /\ TypesInv(w)
               /\ lip \notin Loaded(s) /\ Loaded(w) = Loaded(s) \cup {lip}
               /\ sect_types_read(w, lip) = t
               /\ \A p \in Loaded(s) : sect_types_read(w, p) = sect_types_read(s, p)
<1> DEFINE w == sect_types_write(s, t)
           lip == s.head.lst_itm_ptr
           T == Loaded(s)
<1>0. NamesInv(s) /\ NamesLoose(s) /\ Basic(s) /\ Blocks(s, T)
  BY DEF TypesInv, NamesInv, NamesLoose
<1>1. SlotsPut(s, t, Len(t.attrs) + 1, w) /\ NamesInv(w)
  BY <1>0, WriteSlots
<1> HIDE DEF w, T
<1>2. Written(s, t, w)
  BY <1>0, <1>1, WrittenSlots
<1>3. Basic(w) /\ Blocks(w, T \cup {lip})
  BY <1>0, <1>2, WriteBlocks DEF Written
<1>4. Loaded(w) = T \cup {lip}
  BY <1>3, LoadedBlocks
<1>5. TypesInv(w)
  BY <1>1, <1>3, <1>4 DEF TypesInv
<1>6. lip \notin T
  BY <1>0, <1>2 DEF Written, Blocks
<1>7. sect_types_read(w, lip) = t
  BY <1>2, ReadBack
<1>8. ASSUME NEW p \in T
      PROVE  sect_types_read(w, p) = sect_types_read(s, p)
  <2>1. ASSUME NEW i \in 0..s.itm[p].extra
        PROVE  /\ SlotAt(p, i) \in DOMAIN w.itm
               /\ w.itm[SlotAt(p, i)] = s.itm[SlotAt(p, i)]
               /\ \A j \in 1..s.itm[SlotAt(p, i)].name_size :
                     w.rec[s.itm[SlotAt(p, i)].name_ptr + j - 1]
                       = s.rec[s.itm[SlotAt(p, i)].name_ptr + j - 1]
    <3> DEFINE x == SlotAt(p, i)
    <3>1. x \in DOMAIN s.itm
      BY <1>0, BlockFacts
    <3>2. /\ DOMAIN s.itm \subseteq DOMAIN w.itm
          /\ \A y \in DOMAIN s.itm : w.itm[y] = s.itm[y]
          /\ \A b \in Addr : b >= s.head.fst_rec_ptr => w.rec[b] = s.rec[b]
      BY <1>2 DEF Written
    <3> HIDE DEF x
    <3>3. ASSUME NEW j \in 1..s.itm[x].name_size
          PROVE  w.rec[s.itm[x].name_ptr + j - 1] = s.rec[s.itm[x].name_ptr + j - 1]
      <4> DEFINE b == s.itm[x].name_ptr + j - 1
      <4>1. b \in Addr /\ b >= s.head.fst_rec_ptr
        BY <1>0, <3>1, NameByte
      <4> HIDE DEF b
      <4>2. w.rec[b] = s.rec[b]
        BY <3>2, <4>1
      <4> QED BY <4>2 DEF b
    <3> QED BY <3>1, <3>2, <3>3 DEF x
  <2> QED BY <1>0, <2>1, ReadSame
<1> QED BY <1>4, <1>5, <1>6, <1>7, <1>8 DEF w, T

\* Deleting a type removes its entry and keeps the others; deleting a zeroed
\* slot removes none.
LEMMA DeleteStep ==
    ASSUME NEW s, TypesInv(s), NEW o \in Nat,
           o \in Loaded(s) \/ o \notin DOMAIN s.itm
    PROVE  LET d == sect_types_delete(s, o)
           IN  /\ TypesInv(d)
               /\ Loaded(d) = Loaded(s) \ {o}
               /\ \A p \in Loaded(d) : sect_types_read(d, p) = sect_types_read(s, p)
<1> DEFINE d == sect_types_delete(s, o)
           m == Cleared(s, o)
           T == Loaded(s)
<1>0. NamesInv(s) /\ NamesLoose(s) /\ Basic(s) /\ Blocks(s, T)
  BY DEF TypesInv, NamesInv, NamesLoose
<1>1. NamesInv(d) /\ Blocks(d, T \ {o})
  BY <1>0, DeleteInv
<1>2. Compressed(m, d)
  BY <1>0, DeleteCompresses
<1>3. d.itm = m.itm /\ d.rec = m.rec
  BY <1>2 DEF Compressed
<1>4. /\ DOMAIN m.itm = DOMAIN s.itm \ SlotsOf(s, o)
      /\ \A x \in DOMAIN m.itm : m.itm[x] = s.itm[x]
      /\ \A b \in Addr : m.rec[b] = IF DelStart(s, o) <= b /\ b < DelEnd(s, o)
                                    THEN 0 ELSE s.rec[b]
  BY <1>0, ClearedBasic
<1>5. o \notin DOMAIN s.itm => m = s
  BY <1>0, ClearedDead
<1> HIDE DEF d, m, T
<1>6. Basic(d)
  BY <1>1 DEF NamesInv, NamesLoose
<1>7. Loaded(d) = T \ {o}
  BY <1>1, <1>6, LoadedBlocks
<1>8. TypesInv(d)
  BY <1>1, <1>7 DEF TypesInv
<1>9. ASSUME NEW p \in T \ {o}
      PROVE  sect_types_read(d, p) = sect_types_read(s, p)
  <2>1. ASSUME NEW i \in 0..s.itm[p].extra
        PROVE  /\ SlotAt(p, i) \in DOMAIN d.itm
               /\ d.itm[SlotAt(p, i)] = s.itm[SlotAt(p, i)]
               /\ \A j \in 1..s.itm[SlotAt(p, i)].name_size :
                     d.rec[s.itm[SlotAt(p, i)].name_ptr + j - 1]
                       = s.rec[s.itm[SlotAt(p, i)].name_ptr + j - 1]
    <3> DEFINE x == SlotAt(p, i)
    <3>1. x \in DOMAIN s.itm
      BY <1>0, BlockFacts
    <3>2. CASE o \notin DOMAIN s.itm
      BY <1>3, <1>5, <3>1, <3>2
    <3>3. CASE o \in T
      <4>1. x \notin SlotsOf(s, o)
        BY <1>0, <3>3, BlocksApart
      <4> HIDE DEF x
      <4>2. x \in DOMAIN d.itm /\ d.itm[x] = s.itm[x]
        BY <1>3, <1>4, <3>1, <4>1
      <4>3. ASSUME NEW j \in 1..s.itm[x].name_size
            PROVE  d.rec[s.itm[x].name_ptr + j - 1] = s.rec[s.itm[x].name_ptr + j - 1]
        <5> DEFINE b == s.itm[x].name_ptr + j - 1
        <5>1. /\ b \in Addr /\ b \in Int /\ x \in Named(s)
              /\ s.itm[x].name_ptr <= b /\ b < NameEnd(s.itm[x])
          BY <1>0, <3>1, NameByte
        <5> HIDE DEF b
        <5>2. ~(DelStart(s, o) <= b /\ b < DelEnd(s, o))
          BY <1>0, <3>3, <4>1, <5>1, ClearedBytes
        <5>3. d.rec[b] = s.rec[b]
          BY <1>3, <1>4, <5>1, <5>2
        <5> QED BY <5>3 DEF b
      <4> QED BY <4>2, <4>3 DEF x
    <3> QED BY <3>2, <3>3 DEF T
  <2> QED BY <1>0, <2>1, ReadSame
<1> QED BY <1>7, <1>8, <1>9 DEF d, T

-----------------------------------------------------------------------------
(* The invariant.                                                          *)

\* A new section has no types.
LEMMA CtorInv ==
    TypesInv(sect_head_ctor) /\ Loaded(sect_head_ctor) = {}
<1> DEFINE c == sect_head_ctor
<1>1. /\ Basic(c) /\ DOMAIN c.itm = {} /\ c.head.lst_itm_ptr = HEAD_SIZE
      /\ c.head.fst_rec_ptr = SECTION_SIZE /\ \A b \in Addr : c.rec[b] = 0
  BY CtorFacts
<1> HIDE DEF c
<1>2. Named(c) = {}
  BY <1>1 DEF Named
<1>3. NamesInv(c)
  BY <1>1, <1>2 DEF NamesInv, NamesLoose, NamesAbove, NamesOrdered, NamesFilled,
                    Bordered
<1>4. Blocks(c, {})
  BY <1>1 DEF Blocks
<1>5. Loaded(c) = {}
  BY <1>1, <1>4, LoadedBlocks
<1> QED BY <1>3, <1>4, <1>5 DEF TypesInv, c

\* What sect_types_find returns is a type or a zeroed slot.
LEMMA FoundOne ==
    ASSUME NEW s, TypesInv(s), NEW name, sect_types_find(s, name) # <<>>
    PROVE  LET o == Head(sect_types_find(s, name)) IN
           o \in Nat /\ (o \in Loaded(s) \/ o \notin DOMAIN s.itm)
<1> DEFINE l == sect_types_load(s)
           o == Head(sect_types_find(s, name))
<1>1. Basic(s) /\ Blocks(s, Loaded(s))
  BY DEF TypesInv, NamesInv, NamesLoose
<1>2. o \in Nat /\ \E i \in 1..Len(l) : o = l[i]
  BY <1>1, FindFacts
<1>3. \A i \in 1..Len(l) : l[i] \in Loaded(s) \/ l[i] \notin DOMAIN s.itm
  BY <1>1, LoadedBlocks
<1> QED BY <1>2, <1>3

\* Every call keeps the invariant.
LEMMA NextInv ==
    ASSUME NamesNotZero, TypesInv(sect), [Next]_sect
    PROVE  TypesInv(sect')
<1>1. ASSUME NEW t \in TypeDefs, AddType(t)
      PROVE  TypesInv(sect')
  BY <1>1, AddStep DEF AddType
<1>2. ASSUME NEW t \in TypeDefs, AddTypeFails(t)
      PROVE  TypesInv(sect')
  BY <1>2 DEF AddTypeFails
<1>3. ASSUME NEW n \in TypeNames, DeleteType(n)
      PROVE  TypesInv(sect')
  <2>1. CASE sect_types_find(sect, n) = <<>>
    BY <1>3, <2>1 DEF DeleteType
  <2>2. CASE sect_types_find(sect, n) # <<>>
    <3> DEFINE o == Head(sect_types_find(sect, n))
    <3>1. o \in Nat /\ (o \in Loaded(sect) \/ o \notin DOMAIN sect.itm)
      BY <2>2, FoundOne
    <3>2. sect' = sect_types_delete(sect, o)
      BY <1>3, <2>2 DEF DeleteType
    <3> HIDE DEF o
    <3> QED BY <3>1, <3>2, DeleteStep
  <2> QED BY <2>1, <2>2
<1> QED BY <1>1, <1>2, <1>3 DEF Next

\* The invariant of a section of types.
LEMMA TypesInvariant ==
    ASSUME NamesNotZero
    PROVE  Spec => []TypesInv(sect)
<1>1. Init => TypesInv(sect)
  BY CtorInv DEF Init
<1>2. TypesInv(sect) /\ [Next]_sect => TypesInv(sect)'
  BY NextInv
<1> QED BY <1>1, <1>2, PTL DEF Spec

\* After every add and delete of a type both borders of the section rest on
\* something in use, so the compressions of sect_types_delete give back every
\* slot and byte that is free at a border.
THEOREM TypesAreTight ==
    ASSUME NamesNotZero
    PROVE  Spec => []TypesTight
<1>1. TypesInv(sect) => TypesTight
  <2> SUFFICES ASSUME Bordered(sect) PROVE TypesTight
    BY DEF TypesInv, NamesInv
  <2> QED BY DEF Bordered, TypesTight, Named
<1> QED BY <1>1, TypesInvariant, PTL

-----------------------------------------------------------------------------
(* The refinement.                                                         *)

\* Every step of the section is a step of the table.
LEMMA TypesStepRefines ==
    ASSUME NamesNotZero, TypesInv(sect), [Next]_sect
    PROVE  [Store!Next]_(Table(sect))
<1>0. Table(sect) = [x \in Loaded(sect) |-> sect_types_read(sect, x)]
  BY DEF Table
<1>1. ASSUME sect' = sect PROVE Table(sect') = Table(sect)
  BY <1>1
<1>2. ASSUME NEW t \in TypeDefs, AddType(t)
      PROVE  Store!Next
  <2> DEFINE o == sect.head.lst_itm_ptr
  <2>1. CanWriteType(sect, t) /\ sect' = sect_types_write(sect, t)
    BY <1>2 DEF AddType
  <2>2. /\ o \notin Loaded(sect) /\ Loaded(sect') = Loaded(sect) \cup {o}
        /\ sect_types_read(sect', o) = t
        /\ \A p \in Loaded(sect) :
              sect_types_read(sect', p) = sect_types_read(sect, p)
    BY <2>1, AddStep
  <2>3. o \in Slots
    BY BasicTypes DEF TypesInv, NamesInv, NamesLoose
  <2> HIDE DEF o
  <2>4. Table(sect') = [x \in Loaded(sect) \cup {o} |-> sect_types_read(sect', x)]
    BY <2>2 DEF Table
  <2>5. \A x \in Loaded(sect) : Table(sect)[x] = sect_types_read(sect, x)
    BY <1>0
  <2>6. Table(sect') = [x \in DOMAIN Table(sect) \cup {o} |->
                          IF x = o THEN t ELSE Table(sect)[x]]
    BY <1>0, <2>2, <2>4, <2>5
  <2>7. Store!Put(o, t)
    BY <1>0, <2>2, <2>6 DEF Store!Put
  <2> QED BY <2>3, <2>7 DEF Store!Next
<1>3. ASSUME NEW t \in TypeDefs, AddTypeFails(t)
      PROVE  Table(sect') = Table(sect)
  BY <1>1, <1>3 DEF AddTypeFails
<1>4. ASSUME NEW n \in TypeNames, DeleteType(n)
      PROVE  Store!Next \/ Table(sect') = Table(sect)
  <2>1. CASE sect_types_find(sect, n) = <<>>
    BY <1>1, <1>4, <2>1 DEF DeleteType
  <2>2. CASE sect_types_find(sect, n) # <<>>
    <3> DEFINE o == Head(sect_types_find(sect, n))
    <3>1. o \in Nat /\ (o \in Loaded(sect) \/ o \notin DOMAIN sect.itm)
      BY <2>2, FoundOne
    <3>2. sect' = sect_types_delete(sect, o)
      BY <1>4, <2>2 DEF DeleteType
    <3> HIDE DEF o
    <3>3. /\ Loaded(sect') = Loaded(sect) \ {o}
          /\ \A p \in Loaded(sect') :
                sect_types_read(sect', p) = sect_types_read(sect, p)
      BY <3>1, <3>2, DeleteStep
    <3>4. Table(sect') = [x \in Loaded(sect) \ {o} |-> sect_types_read(sect, x)]
      BY <3>3 DEF Table
    <3>5. \A x \in Loaded(sect) : Table(sect)[x] = sect_types_read(sect, x)
      BY <1>0
    <3>6. CASE o \in Loaded(sect)
      <4>1. o \in Slots
        BY <3>6, BlockFacts DEF TypesInv, NamesInv, NamesLoose
      <4>2. Table(sect') = [x \in DOMAIN Table(sect) \ {o} |-> Table(sect)[x]]
        BY <1>0, <3>4, <3>5
      <4>3. Store!Remove(o)
        BY <1>0, <3>6, <4>2 DEF Store!Remove
      <4> QED BY <4>1, <4>3 DEF Store!Next
    <3>7. CASE o \notin Loaded(sect)
      <4>1. Loaded(sect) \ {o} = Loaded(sect)
        BY <3>7
      <4> QED BY <1>0, <3>4, <4>1
    <3> QED BY <3>6, <3>7
  <2> QED BY <2>1, <2>2
<1> QED BY <1>1, <1>2, <1>3, <1>4 DEF Next

\* A section of types implements a table of types: sect_types_load meets every
\* live type and no attribute, a type reads back as it was added until it is
\* deleted, and adding or deleting a type changes no other.
THEOREM TypesImplementTable ==
    ASSUME NamesNotZero
    PROVE  Spec => ImplementsTypeTable
<1>1. Init => Store!Init
  <2> SUFFICES ASSUME Init PROVE Table(sect) = [a \in {} |-> 0]
    BY DEF Store!Init
  <2>1. Loaded(sect) = {}
    BY CtorInv DEF Init
  <2> QED BY <2>1 DEF Table
<1>2. TypesInv(sect) /\ [Next]_sect => [Store!Next]_(Table(sect))
  BY TypesStepRefines
<1>3. Spec => []TypesInv(sect)
  BY TypesInvariant
<1> QED BY <1>1, <1>2, <1>3, PTL DEF Spec, ImplementsTypeTable, Store!Spec

\* A zeroed slot has no name.
LEMMA DeadName ==
    ASSUME NEW s, NEW o, o \notin DOMAIN s.itm
    PROVE  sect_types_read(s, o).name = <<>>
<1>1. RdSlot(s, o).name_size = 0
  BY DEF RdSlot, ZeroSlot
<1>2. sect_types_read(s, o).name
        = [i \in 1..RdSlot(s, o).name_size |-> s.rec[RdSlot(s, o).name_ptr + i - 1]]
  BY DEF sect_types_read, sect_head_read
<1>3. 1..0 = {}
  OBVIOUS
<1> QED BY <1>1, <1>2, <1>3

\* The delete of a name removes the first type of that name.
LEMMA DeletesFirst ==
    ASSUME TypesInv(sect), NEW n \in TypeNames \ {<<>>}, DeleteType(n),
           NEW N, N = {o \in Loaded(sect) : Table(sect)[o].name = n}, N # {}
    PROVE  Loaded(sect') = Loaded(sect) \ {Min(N)}
<1> DEFINE l == sect_types_load(sect)
           T == Loaded(sect)
           o == Head(sect_types_find(sect, n))
<1>0. Basic(sect) /\ Blocks(sect, T)
  BY DEF TypesInv, NamesInv, NamesLoose
<1>1. /\ \A p \in T : p \in Nat /\ Table(sect)[p] = sect_types_read(sect, p)
      /\ \A p \in T : \E i \in 1..Len(l) : l[i] = p
  <2>1. \A p \in T : Table(sect)[p] = sect_types_read(sect, p)
    BY DEF Table
  <2>2. \A p \in T : p \in Nat
    BY <1>0, BlockFacts
  <2> QED BY <1>0, <2>1, <2>2, LoadedBlocks
<1>2. \A p \in N : /\ p \in T /\ p \in Nat
                   /\ sect_types_read(sect, p).name = n
                   /\ \E i \in 1..Len(l) : l[i] = p
  BY <1>1
<1>3. sect_types_find(sect, n) # <<>>
  <2>1. PICK i \in 1..Len(l) : sect_types_read(sect, l[i]).name = n
    BY <1>2
  <2>2. l \in Seq(Nat)
    BY <1>0, WalkIncreases, SizeAssumption DEF sect_types_load, Increasing
  <2> HIDE DEF l
  <2>3. i \in Hits(sect, l, n)
    BY <2>1, <2>2 DEF Hits
  <2> QED BY <2>3 DEF sect_types_find, l
<1>4. /\ o \in Nat /\ sect_types_read(sect, o).name = n
      /\ \A i \in 1..Len(l) : sect_types_read(sect, l[i]).name = n => o <= l[i]
  BY <1>0, <1>3, FindFacts
<1>5. o \in T
  <2>1. o \in T \/ o \notin DOMAIN sect.itm
    BY <1>3, FoundOne
  <2>2. o \in DOMAIN sect.itm
    BY <1>4, DeadName
  <2> QED BY <2>1, <2>2
<1>6. Loaded(sect') = T \ {o}
  <2>1. sect' = sect_types_delete(sect, o)
    BY <1>3 DEF DeleteType
  <2> HIDE DEF o
  <2> QED BY <1>4, <1>5, <2>1, DeleteStep
<1> HIDE DEF o, l
<1>7. o \in N /\ \A p \in N : o <= p
  BY <1>1, <1>2, <1>4, <1>5
<1>8. N \subseteq Nat
  BY <1>2
<1>9. Min(N) \in N /\ \A p \in N : Min(N) <= p
  BY <1>7, <1>8, MinOfNat
<1>10. Min(N) = o
  BY <1>7, <1>8, <1>9
<1> QED BY <1>6, <1>10

\* Of several types of one name file_delete_type removes the one that lies
\* first in the section, and no other.
THEOREM TypesDeleteFirst ==
    ASSUME NamesNotZero
    PROVE  Spec => DeleteRemovesFirst
<1> DEFINE A == \A n \in TypeNames \ {<<>>} :
                  LET named == {o \in Loaded(sect) : Table(sect)[o].name = n}
                  IN  DeleteType(n) /\ named # {} =>
                         Loaded(sect') = Loaded(sect) \ {Min(named)}
<1>1. TypesInv(sect) /\ [Next]_sect => [A]_sect
  <2> SUFFICES ASSUME TypesInv(sect) PROVE A
    OBVIOUS
  <2> SUFFICES ASSUME NEW n \in TypeNames \ {<<>>}, DeleteType(n),
                      NEW N, N = {o \in Loaded(sect) : Table(sect)[o].name = n},
                      N # {}
               PROVE  Loaded(sect') = Loaded(sect) \ {Min(N)}
    OBVIOUS
  <2> QED BY DeletesFirst
<1>2. Spec => []TypesInv(sect)
  BY TypesInvariant
<1> QED BY <1>1, <1>2, PTL DEF Spec, DeleteRemovesFirst
=============================================================================
