--------------------------- MODULE SectExtRefines ---------------------------
(***************************************************************************)
(* Proof that a section of entities implements RecordStore, for payloads   *)
(* none of which begins with a zero byte.                                  *)
(***************************************************************************)
EXTENDS SectExtProofs

\* What sect_ext_read returns for a live slot, from the entity there.
LEMMA ReadLive ==
    ASSUME NEW s, NEW o \in DOMAIN s.itm
    PROVE  sect_ext_read(s, o)
             = [key  |-> sect_head_read(s, s.itm[o].key_ptr, s.itm[o].key_size),
                val  |-> sect_head_read(s, s.itm[o].val_ptr, s.itm[o].val_size),
                attr |-> s.itm[o].attr]
BY DEF sect_ext_read, sect_ext_rd_itm

\* The extent of a live entity's record, which may be empty.
LEMMA LiveRecord ==
    ASSUME NEW s, Loose(s), NEW x \in DOMAIN s.itm
    PROVE  /\ RecStart(s.itm[x]) \in Nat /\ entity_rec_sz(s.itm[x]) \in Nat
           /\ RecEnd(s.itm[x]) = RecStart(s.itm[x]) + entity_rec_sz(s.itm[x])
<1> DEFINE e == s.itm[x]
<1>1. /\ RecStart(e) = e.val_ptr /\ e.val_ptr \in Nat
      /\ RecEnd(e) = e.val_ptr + entity_rec_sz(e)
      /\ entity_rec_sz(e) \in Nat
  BY LooseTypes
<1> HIDE DEF e
<1>2. /\ RecStart(e) \in Nat /\ entity_rec_sz(e) \in Nat
      /\ RecEnd(e) = RecStart(e) + entity_rec_sz(e)
  BY <1>1
<1> QED BY <1>2 DEF e

\* The bytes of a live entity's key and value are bytes of its record.
LEMMA RecordBytes ==
    ASSUME NEW s, Loose(s), NEW o \in DOMAIN s.itm, NEW i \in Nat, i > 0,
           NEW b, \/ i <= s.itm[o].key_size /\ b = s.itm[o].key_ptr + i - 1
                  \/ i <= s.itm[o].val_size /\ b = s.itm[o].val_ptr + i - 1
    PROVE  /\ b \in Addr
           /\ RecStart(s.itm[o]) <= b /\ b < RecEnd(s.itm[o])
<1> DEFINE e == s.itm[o]
<1>1. /\ e.key_ptr \in Nat /\ e.key_size \in Nat
      /\ e.val_ptr \in Nat /\ e.val_size \in Nat
      /\ RecStart(e) = e.val_ptr
      /\ RecEnd(e) = e.key_ptr + e.key_size
      /\ RecEnd(e) = e.val_ptr + entity_rec_sz(e)
      /\ entity_rec_sz(e) = e.key_size + e.val_size
  BY LooseTypes DEF entity_rec_sz
<1>2. \/ i <= e.key_size /\ b = e.key_ptr + i - 1
      \/ i <= e.val_size /\ b = e.val_ptr + i - 1
  OBVIOUS
<1>3. o \in DOMAIN s.itm /\ (entity_rec_sz(e) # 0 => o \in Owners(s))
  BY DEF Owners
<1> HIDE DEF e
<1>4. /\ b \in Nat /\ RecStart(e) <= b /\ b < RecEnd(e)
      /\ entity_rec_sz(e) # 0
  BY <1>1, <1>2
<1>5. RecEnd(e) <= SECTION_SIZE /\ RecStart(e) \in Addr
  BY <1>3, <1>4, OwnerFacts DEF e
<1>6. b \in Addr
  BY <1>1, <1>4, <1>5, SizeAssumption DEF Addr
<1> QED BY <1>4, <1>6 DEF e

\* A section that has the bytes of an entity's record reads the same key and
\* value for it.
LEMMA SameBytes ==
    ASSUME NEW s, Loose(s), NEW o \in DOMAIN s.itm, NEW t,
           \A b \in Addr : RecStart(s.itm[o]) <= b /\ b < RecEnd(s.itm[o])
                              => t.rec[b] = s.rec[b]
    PROVE  /\ sect_head_read(t, s.itm[o].key_ptr, s.itm[o].key_size)
                = sect_head_read(s, s.itm[o].key_ptr, s.itm[o].key_size)
           /\ sect_head_read(t, s.itm[o].val_ptr, s.itm[o].val_size)
                = sect_head_read(s, s.itm[o].val_ptr, s.itm[o].val_size)
<1> DEFINE e == s.itm[o]
<1>1. e.key_size \in Nat /\ e.val_size \in Nat
  BY LooseTypes
<1>2. ASSUME NEW i \in 1..e.key_size
      PROVE  t.rec[e.key_ptr + i - 1] = s.rec[e.key_ptr + i - 1]
  <2>1. i \in Nat /\ i > 0 /\ i <= e.key_size
    BY <1>1
  <2> QED BY <2>1, RecordBytes
<1>3. ASSUME NEW i \in 1..e.val_size
      PROVE  t.rec[e.val_ptr + i - 1] = s.rec[e.val_ptr + i - 1]
  <2>1. i \in Nat /\ i > 0 /\ i <= e.val_size
    BY <1>1
  <2> QED BY <2>1, RecordBytes
<1> QED BY <1>2, <1>3 DEF sect_head_read

\* The table of a section: its domain and its entries.
LEMMA ContentOf ==
    ASSUME NEW s
    PROVE  /\ DOMAIN Content(s) = DOMAIN s.itm
           /\ Content(s) = [x \in DOMAIN s.itm |-> sect_ext_read(s, x)]
           /\ \A x \in DOMAIN s.itm : Content(s)[x] = sect_ext_read(s, x)
BY DEF Content

-----------------------------------------------------------------------------
(* The actions, seen through Content.                                      *)

\* A new section holds nothing.
LEMMA InitRefines == Content(sect_head_ctor) = [x \in {} |-> 0]
<1>1. DOMAIN sect_head_ctor.itm = {}
  BY DEF sect_head_ctor
<1> QED BY <1>1 DEF Content

\* The table after a write: one more record, at the slot lst_itm_ptr.
Added(s, p, a) ==
    LET o == s.head.lst_itm_ptr
        t == sect_ext_write(s, p, EntityInit(p, a))
    IN  /\ o \in Slots /\ o \notin DOMAIN s.itm
        /\ Content(t) = [x \in DOMAIN s.itm \cup {o} |->
                IF x = o THEN [key |-> p.key, val |-> p.val, attr |-> a]
                ELSE Content(s)[x]]

\* A write adds the record it is given at a free slot, and changes no other.
LEMMA WriteRefines ==
    ASSUME NEW s, Loose(s), NEW p \in Payloads, NEW a \in Attrs,
           CanWrite(s, p)
    PROVE  Added(s, p, a)
<1> DEFINE t   == sect_ext_write(s, p, EntityInit(p, a))
           k   == Len(p.key)
           v   == Len(p.val)
           o   == s.head.lst_itm_ptr
           frp == s.head.fst_rec_ptr
           kp  == frp - k
           vp  == kp - v
           q   == Placed(EntityInit(p, a), kp, vp)
<1>e. WriteEffect(s, p, a)
  BY WriteFacts
<1>1. /\ k \in Nat /\ v \in Nat /\ o + ITM_SIZE <= vp
      /\ o \notin DOMAIN s.itm
      /\ t.itm = [x \in DOMAIN s.itm \cup {o} |->
                    IF x = o THEN q ELSE s.itm[x]]
  BY <1>e DEF WriteEffect
<1>2. \A b \in Addr :
         t.rec[b] = IF vp <= b /\ b < kp THEN p.val[b - vp + 1]
                    ELSE IF kp <= b /\ b < frp THEN p.key[b - kp + 1]
                    ELSE s.rec[b]
  BY <1>e DEF WriteEffect
<1>3. /\ q.key_ptr = kp /\ q.key_size = k /\ q.val_ptr = vp /\ q.val_size = v
      /\ q.attr = a
  BY DEF Placed, EntityInit
<1>4. /\ o \in Slots /\ o \in Nat /\ frp \in Nat /\ frp <= SECTION_SIZE
      /\ HEAD_SIZE <= o
  <2>1. o \in Nat /\ frp \in Nat
    BY LooseTypes
  <2>2. o \in Slots /\ frp <= SECTION_SIZE
    BY DEF Loose, HeadOK
  <2> HIDE DEF o
  <2> QED BY <2>1, <2>2, SizeAssumption DEF Slots
<1>5. p.key \in Seq(Byte) /\ p.val \in Seq(Byte)
  BY PayloadAssumption
<1> HIDE DEF t, q, o, frp
<1>6. sect_head_read(t, kp, k) = p.key
  <2>1. ASSUME NEW i \in 1..k
        PROVE  t.rec[kp + i - 1] = p.key[i]
    <3> DEFINE b == kp + i - 1
    <3>1. /\ b \in Addr /\ ~(vp <= b /\ b < kp) /\ kp <= b /\ b < frp
          /\ b - kp + 1 = i
      <4> HIDE DEF k, v
      <4> QED BY <1>1, <1>4, SizeAssumption DEF Addr
    <3> HIDE DEF b, kp, vp
    <3> QED BY <1>2, <3>1 DEF b
  <2>2. sect_head_read(t, kp, k) = [i \in 1..k |-> t.rec[kp + i - 1]]
    BY DEF sect_head_read
  <2>3. p.key = [i \in 1..k |-> p.key[i]]
    BY <1>5
  <2> HIDE DEF kp, k
  <2> QED BY <2>1, <2>2, <2>3
<1>7. sect_head_read(t, vp, v) = p.val
  <2>1. ASSUME NEW i \in 1..v
        PROVE  t.rec[vp + i - 1] = p.val[i]
    <3> DEFINE b == vp + i - 1
    <3>1. /\ b \in Addr /\ vp <= b /\ b < kp /\ b - vp + 1 = i
      <4> HIDE DEF k, v
      <4> QED BY <1>1, <1>4, SizeAssumption DEF Addr
    <3> HIDE DEF b, kp, vp
    <3> QED BY <1>2, <3>1 DEF b
  <2>2. sect_head_read(t, vp, v) = [i \in 1..v |-> t.rec[vp + i - 1]]
    BY DEF sect_head_read
  <2>3. p.val = [i \in 1..v |-> p.val[i]]
    BY <1>5
  <2> HIDE DEF vp, v
  <2> QED BY <2>1, <2>2, <2>3
<1>8. /\ DOMAIN t.itm = DOMAIN s.itm \cup {o} /\ t.itm[o] = q
      /\ \A x \in DOMAIN s.itm : x # o /\ t.itm[x] = s.itm[x]
  BY <1>1
<1>9. sect_ext_read(t, o) = [key |-> p.key, val |-> p.val, attr |-> a]
  <2> HIDE DEF k, v, kp, vp
  <2> QED BY <1>3, <1>6, <1>7, <1>8, ReadLive
<1>10. ASSUME NEW x \in DOMAIN s.itm
       PROVE  sect_ext_read(t, x) = sect_ext_read(s, x)
  <2>1. ASSUME NEW b \in Addr, RecStart(s.itm[x]) <= b, b < RecEnd(s.itm[x])
        PROVE  t.rec[b] = s.rec[b]
    <3>1. b \in Nat
      BY SizeAssumption DEF Addr
    <3>2. /\ RecStart(s.itm[x]) \in Nat /\ entity_rec_sz(s.itm[x]) \in Nat
          /\ RecEnd(s.itm[x]) = RecStart(s.itm[x]) + entity_rec_sz(s.itm[x])
      BY LiveRecord
    <3>3. x \in Owners(s)
      BY <2>1, <3>1, <3>2 DEF Owners
    <3>4. frp <= RecStart(s.itm[x])
      BY <3>3, OwnerFacts DEF frp
    <3>5. ~(b < frp) /\ ~(b < kp)
      <4> HIDE DEF k
      <4> QED BY <1>1, <1>4, <2>1, <3>1, <3>2, <3>4
    <3> HIDE DEF kp, vp
    <3> QED BY <1>2, <3>5
  <2>2. /\ sect_head_read(t, s.itm[x].key_ptr, s.itm[x].key_size)
             = sect_head_read(s, s.itm[x].key_ptr, s.itm[x].key_size)
        /\ sect_head_read(t, s.itm[x].val_ptr, s.itm[x].val_size)
             = sect_head_read(s, s.itm[x].val_ptr, s.itm[x].val_size)
    BY <2>1, SameBytes
  <2>3. x \in DOMAIN t.itm /\ t.itm[x] = s.itm[x]
    BY <1>8
  <2> QED BY <2>2, <2>3, ReadLive
<1>11. Content(t) = [x \in DOMAIN s.itm \cup {o} |->
                      IF x = o THEN [key |-> p.key, val |-> p.val, attr |-> a]
                      ELSE Content(s)[x]]
  <2> DEFINE r == [key |-> p.key, val |-> p.val, attr |-> a]
  <2>1. Content(t) = [x \in DOMAIN s.itm \cup {o} |-> sect_ext_read(t, x)]
    BY <1>8 DEF Content
  <2>2. \A x \in DOMAIN s.itm : Content(s)[x] = sect_ext_read(s, x)
    BY ContentOf
  <2>3. sect_ext_read(t, o) = r /\ \A x \in DOMAIN s.itm : x # o
    BY <1>8, <1>9
  <2>4. \A x \in DOMAIN s.itm : sect_ext_read(t, x) = Content(s)[x]
    BY <1>10, <2>2
  <2> HIDE DEF r
  <2>5. Content(t) = [x \in DOMAIN s.itm \cup {o} |->
                        IF x = o THEN r ELSE Content(s)[x]]
    BY <2>1, <2>3, <2>4
  <2> QED BY <2>5 DEF r
<1> QED BY <1>1, <1>4, <1>11 DEF Added, o, t

\* A delete removes the record at its slot, if any, and changes no other.
LEMMA DeleteRefines ==
    ASSUME NEW s, SectInv(s), NEW o \in Slots
    PROVE  Content(sect_ext_delete(s, o))
             = [x \in DOMAIN s.itm \ {o} |-> Content(s)[x]]
<1> DEFINE t == sect_ext_delete(s, o)
           d == sect_ext_rd_itm(s, o)
<1>0. Loose(s)
  BY DEF SectInv
<1>1. t.itm = [x \in DOMAIN s.itm \ {o} |-> s.itm[x]]
  BY DeleteInv
<1>2. \A b \in Addr : t.rec[b] =
         IF RecStart(d) <= b /\ b < RecEnd(d) THEN 0 ELSE s.rec[b]
  BY DeleteInv
<1>3. /\ entity_rec_sz(d) \in Nat /\ RecStart(d) \in Nat
      /\ RecEnd(d) = RecStart(d) + entity_rec_sz(d)
      /\ o \in DOMAIN s.itm => d = s.itm[o]
      /\ o \notin DOMAIN s.itm => entity_rec_sz(d) = 0
  BY <1>0, DeletedEntity
<1> HIDE DEF t, d
<1>4. /\ DOMAIN t.itm = DOMAIN s.itm \ {o}
      /\ \A x \in DOMAIN s.itm \ {o} : t.itm[x] = s.itm[x]
  BY <1>1
<1>5. ASSUME NEW x \in DOMAIN s.itm \ {o}
      PROVE  sect_ext_read(t, x) = sect_ext_read(s, x)
  <2>1. ASSUME NEW b \in Addr, RecStart(s.itm[x]) <= b, b < RecEnd(s.itm[x])
        PROVE  t.rec[b] = s.rec[b]
    <3>1. b \in Nat
      BY SizeAssumption DEF Addr
    <3>2. /\ RecStart(s.itm[x]) \in Nat /\ entity_rec_sz(s.itm[x]) \in Nat
          /\ RecEnd(s.itm[x]) = RecStart(s.itm[x]) + entity_rec_sz(s.itm[x])
      BY <1>0, LiveRecord
    <3>3. x \in Owners(s)
      BY <2>1, <3>1, <3>2 DEF Owners
    <3>4. ~(RecStart(d) <= b /\ b < RecEnd(d))
      <4>1. CASE entity_rec_sz(d) = 0
        BY <1>3, <3>1, <4>1
      <4>2. CASE entity_rec_sz(d) # 0
        <5>1. o \in Owners(s) /\ d = s.itm[o]
          BY <1>3, <4>2 DEF Owners
        <5>2. x \in Nat /\ o \in Nat
          BY <1>0, <3>3, <5>1, OwnerFacts
        <5>3. x < o \/ o < x
          BY <5>2
        <5>4. \/ RecEnd(d) <= RecStart(s.itm[x])
              \/ RecEnd(s.itm[x]) <= RecStart(d)
          BY <1>0, <3>3, <5>1, <5>3 DEF Loose, RecordsOrdered
        <5> QED BY <1>3, <2>1, <3>1, <3>2, <5>4
      <4> QED BY <4>1, <4>2
    <3> QED BY <1>2, <3>4
  <2>2. /\ sect_head_read(t, s.itm[x].key_ptr, s.itm[x].key_size)
             = sect_head_read(s, s.itm[x].key_ptr, s.itm[x].key_size)
        /\ sect_head_read(t, s.itm[x].val_ptr, s.itm[x].val_size)
             = sect_head_read(s, s.itm[x].val_ptr, s.itm[x].val_size)
    BY <1>0, <2>1, SameBytes
  <2>3. x \in DOMAIN t.itm /\ t.itm[x] = s.itm[x]
    BY <1>4
  <2> QED BY <2>2, <2>3, ReadLive
<1>6. Content(t) = [x \in DOMAIN s.itm \ {o} |-> Content(s)[x]]
  <2>1. Content(t) = [x \in DOMAIN s.itm \ {o} |-> sect_ext_read(t, x)]
    BY <1>4 DEF Content
  <2>2. \A x \in DOMAIN s.itm : Content(s)[x] = sect_ext_read(s, x)
    BY ContentOf
  <2> QED BY <1>5, <2>1, <2>2
<1> QED BY <1>6 DEF t

\* A rewrite of an entity's links changes the attributes of its record.
LEMMA RelinkRefines ==
    ASSUME NEW s, SectInv(s), NEW o \in DOMAIN s.itm, NEW a \in Attrs
    PROVE  Content(sect_ext_wrt_itm(s, o, [s.itm[o] EXCEPT !.attr = a]))
             = [Content(s) EXCEPT ![o].attr = a]
<1> DEFINE e == s.itm[o]
           q == [e EXCEPT !.attr = a]
           t == sect_ext_wrt_itm(s, o, q)
<1>0. Loose(s)
  BY DEF SectInv
<1>1. /\ DOMAIN t.itm = DOMAIN s.itm /\ t.itm[o] = q
      /\ \A x \in DOMAIN s.itm : x # o => t.itm[x] = s.itm[x]
      /\ t.rec = s.rec
  BY RelinkInv
<1>2. e \in Entities
  BY <1>0, LooseTypes
<1>3. /\ q.key_ptr = e.key_ptr /\ q.key_size = e.key_size
      /\ q.val_ptr = e.val_ptr /\ q.val_size = e.val_size /\ q.attr = a
  BY <1>2 DEF Entities
<1> HIDE DEF t, q
<1>4. ASSUME NEW x, NEW y
      PROVE  sect_head_read(t, x, y) = sect_head_read(s, x, y)
  BY <1>1 DEF sect_head_read
<1>5. ASSUME NEW x \in DOMAIN s.itm, x # o
      PROVE  sect_ext_read(t, x) = sect_ext_read(s, x)
  BY <1>1, <1>4, <1>5, ReadLive
<1>6. sect_ext_read(t, o) = [sect_ext_read(s, o) EXCEPT !.attr = a]
  <2> DEFINE K == sect_head_read(s, e.key_ptr, e.key_size)
             V == sect_head_read(s, e.val_ptr, e.val_size)
  <2>1. sect_ext_read(s, o) = [key |-> K, val |-> V, attr |-> e.attr]
    BY ReadLive
  <2>2. sect_ext_read(t, o) = [key |-> K, val |-> V, attr |-> a]
    BY <1>1, <1>3, <1>4, ReadLive
  <2> HIDE DEF K, V
  <2> QED BY <2>1, <2>2
<1>7. Content(t) = [Content(s) EXCEPT ![o].attr = a]
  BY <1>1, <1>5, <1>6, ContentOf
<1> QED BY <1>7 DEF t, q

-----------------------------------------------------------------------------

\* A step of the section is a step of the store or leaves the store alone.
LEMMA StepRefines ==
    ASSUME NoZeroHead, SectInv(sect), [Next]_sect
    PROVE  [Store!Next]_(Content(sect))
<1>0. Loose(sect)
  BY DEF SectInv
<1>1. CASE UNCHANGED sect
  BY <1>1 DEF Content, sect_ext_read, sect_ext_rd_itm, sect_head_read
<1>2. ASSUME NEW p \in Payloads, WriteFails(p)
      PROVE  UNCHANGED sect
  BY <1>2 DEF WriteFails
<1>3. ASSUME NEW p \in Payloads, NEW a \in Attrs, Write(p, a)
      PROVE  Store!Next
  <2> DEFINE o == sect.head.lst_itm_ptr
             r == [key |-> p.key, val |-> p.val, attr |-> a]
  <2>1. /\ o \in Slots /\ o \notin DOMAIN sect.itm
        /\ Content(sect') = [x \in DOMAIN sect.itm \cup {o} |->
                               IF x = o THEN r ELSE Content(sect)[x]]
    <3>1. CanWrite(sect, p) /\ sect' = sect_ext_write(sect, p, EntityInit(p, a))
      BY <1>3 DEF Write
    <3>2. Added(sect, p, a)
      BY <1>0, <3>1, WriteRefines
    <3> QED BY <3>1, <3>2 DEF Added
  <2>2. r \in StoredRecords
    BY DEF StoredRecords
  <2>3. DOMAIN Content(sect) = DOMAIN sect.itm
    BY ContentOf
  <2> HIDE DEF o, r
  <2>4. Store!Put(o, r)
    BY <2>1, <2>3 DEF Store!Put
  <2> QED BY <2>1, <2>2, <2>4 DEF Store!Next
<1>4. ASSUME NEW o \in Slots, Delete(o)
      PROVE  Store!Next \/ Content(sect)' = Content(sect)
  <2>1. Content(sect') = [x \in DOMAIN sect.itm \ {o} |-> Content(sect)[x]]
    BY <1>4, DeleteRefines DEF Delete
  <2>2. /\ DOMAIN Content(sect) = DOMAIN sect.itm
        /\ Content(sect) = [x \in DOMAIN sect.itm |-> sect_ext_read(sect, x)]
    BY ContentOf
  <2>3. CASE o \in DOMAIN sect.itm
    <3>1. Store!Remove(o)
      BY <2>1, <2>2, <2>3 DEF Store!Remove
    <3> QED BY <3>1 DEF Store!Next
  <2>4. CASE o \notin DOMAIN sect.itm
    <3>1. Content(sect') = Content(sect)
      BY <2>1, <2>2, <2>4
    <3> QED BY <3>1
  <2> QED BY <2>3, <2>4
<1>5. ASSUME NEW o \in Slots, Read(o)
      PROVE  UNCHANGED sect
  BY <1>5, SyncSame DEF Read
<1>6. ASSUME NEW o \in Slots, NEW a \in Attrs, Relink(o, a)
      PROVE  Store!Next
  <2>1. /\ o \in DOMAIN sect.itm
        /\ Content(sect') = [Content(sect) EXCEPT ![o].attr = a]
    BY <1>6, RelinkRefines DEF Relink
  <2>2. DOMAIN Content(sect) = DOMAIN sect.itm
    BY ContentOf
  <2>3. Store!Relink(o, a)
    BY <2>1, <2>2 DEF Store!Relink
  <2> QED BY <2>3 DEF Store!Next
<1> QED BY <1>1, <1>2, <1>3, <1>4, <1>5, <1>6 DEF Next

\* A section of entities implements the record store: whatever sequence of
\* calls file.c makes, a record reads back as written until it is deleted.
THEOREM SectionImplementsStore ==
    ASSUME NoZeroHead
    PROVE  Spec => ImplementsStore
<1>1. Init => Store!Init
  BY InitRefines DEF Init, Store!Init
<1>2. SectInv(sect) /\ [Next]_sect => [Store!Next]_(Content(sect))
  BY StepRefines
<1>3. Spec => []SectInv(sect)
  BY Invariant
<1> QED BY <1>1, <1>2, <1>3, PTL DEF Spec, ImplementsStore, Store!Spec
=============================================================================
