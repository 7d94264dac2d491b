--------------------------- MODULE ThreadsProofs ----------------------------
(***************************************************************************)
(* Proofs about Threads with one thread: the statements of sect_ext_write, *)
(* sect_ext_read and sect_ext_delete add up to the operators of module     *)
(* Extents, for every section size below WORD and every payload set in     *)
(* which no record begins with a zero byte.                                *)
(*                                                                         *)
(* The argument.  Exec says what one statement does from beginning to end, *)
(* Runs what the statements that are still to do make of the state.  No    *)
(* step of the thread changes what the rest of its call will have made     *)
(* (StepKeeps), so it is enough to run each call once, symbolically, from  *)
(* a section that is well formed (WriteMakes, ReadMakes, DeleteMakes).     *)
(***************************************************************************)
EXTENDS Threads, SectExtRefines, SequenceTheorems

-----------------------------------------------------------------------------
(* What a statement does.                                                  *)

\* What the rest of a call depends on: the header h, the position p, the cells
\* and the locals l.  The position matters between a seek and the access only.
Conf(h, p, cells, l) ==
    [head |-> h, disk |-> cells, reg |-> l.reg, phase |-> l.phase,
     dest |-> IF l.phase = "io" THEN p ELSE l.dest, soff |-> l.soff,
     buf  |-> l.buf, ent |-> l.ent, key |-> l.key, val |-> l.val]

\* A load, a store, the note of a pointer and the note of the slot.
LoadC(c, f) ==
    [head |-> c.head, disk |-> c.disk, reg |-> c.head[f], phase |-> c.phase,
     dest |-> c.dest, soff |-> c.soff, buf |-> c.buf, ent |-> c.ent,
     key |-> c.key, val |-> c.val]
StoreC(c, f, n) ==
    [head |-> [c.head EXCEPT ![f] = (c.reg + n) % WORD], disk |-> c.disk,
     reg |-> 0, phase |-> c.phase, dest |-> c.dest, soff |-> c.soff,
     buf |-> c.buf, ent |-> c.ent, key |-> c.key, val |-> c.val]
NoteC(c, f) ==
    [head |-> c.head, disk |-> c.disk, reg |-> c.reg, phase |-> c.phase,
     dest |-> c.dest, soff |-> c.soff, buf |-> c.buf,
     ent |-> IF f = "key" THEN [c.ent EXCEPT !.key_ptr = c.head.fst_rec_ptr]
             ELSE [c.ent EXCEPT !.val_ptr = c.head.fst_rec_ptr],
     key |-> c.key, val |-> c.val]
SaveC(c) ==
    [head |-> c.head, disk |-> c.disk, reg |-> c.reg, phase |-> c.phase,
     dest |-> c.dest, soff |-> c.head.lst_itm_ptr, buf |-> c.buf,
     ent |-> c.ent, key |-> c.key, val |-> c.val]

\* An access of kind io to what: its place, whether it fails, and what it
\* makes of c, from whatever phase it is in.
Place(st, c) == IF c.phase = "none" THEN Dest(c.head, c, st[2]) ELSE c.dest
Misses(st, c) ==
    \/ ~(Place(st, c) >= 0)
    \/ st[3] = "fread" /\ Place(st, c) + Size(c, st[4]) > SECTION_SIZE
Skips(st, c) == c.phase = "none" /\ Size(c, st[4]) = 0

\* The access is over, without effect or with it.
Over(c) == [head |-> c.head, disk |-> c.disk, reg |-> c.reg, phase |-> "none",
            dest |-> 0, soff |-> c.soff, buf |-> c.buf, ent |-> c.ent,
            key |-> c.key, val |-> c.val]

Accessed(st, c) ==
    LET data == Get(c.disk, Place(st, c), Size(c, st[4]))
        rd   == st[3] = "fread"
    IN  [head |-> c.head,
         disk |-> IF rd THEN c.disk
                  ELSE Put(c.disk, Place(st, c), Data(c.head, c, st[4])),
         reg  |-> c.reg, phase |-> "none", dest |-> 0, soff |-> c.soff,
         buf  |-> IF rd /\ st[4] \in {"slot", "chr"} THEN data ELSE c.buf,
         ent  |-> IF rd /\ st[4] = "ent" THEN CellsEntity(data) ELSE c.ent,
         key  |-> IF rd /\ st[4] = "key" THEN data ELSE c.key,
         val  |-> IF rd /\ st[4] = "val" THEN data ELSE c.val]

\* The whole access.
AtC(st, c) == IF Skips(st, c) THEN c
              ELSE IF c.phase = "back" \/ Misses(st, c) THEN Over(c)
              ELSE Accessed(st, c)

\* Only the reads of the compressing loops may fail.
AtOk(st, c) ==
    /\ \/ st[3] = "fwrite"
       \/ st[3] = "fread" /\ st[4] \in {"ent", "key", "val", "slot", "chr"}
    /\ c.phase \in {"none", "ftell", "fseek", "io", "back"}
    /\ c.phase = "io" => c.dest >= 0
    /\ \/ Skips(st, c) \/ c.phase = "back" \/ st[4] \in {"slot", "chr"}
       \/ ~Misses(st, c)

\* sect_head_sync, a shift of a border, and the shifts at the beginning of
\* sect_ext_delete.
SyncStep == <<"at", "sect", "fwrite", "head">>
ShiftC(c, ptr, free, by) ==
    AtC(SyncStep, StoreC(LoadC(StoreC(LoadC(c, "free_space"),
                                      "free_space", free), ptr), ptr, by))
BorderC(c) ==
    LET n == entity_rec_sz(c.ent)
    IN  IF c.soff + ITM_SIZE = c.head.lst_itm_ptr
        THEN ShiftC(ShiftC(c, "lst_itm_ptr", -(-ITM_SIZE), -ITM_SIZE),
                    "fst_rec_ptr", n, n)
        ELSE c

\* The loops of sect_head_cmprs_lip and sect_head_cmprs_frp, to their end.
LipStops(c) ==
    {x \in Slots : /\ x <= c.head.lst_itm_ptr
                   /\ \/ x = HEAD_SIZE
                      \/ Get(c.disk, x - ITM_SIZE, ITM_SIZE) # Zeros(ITM_SIZE)}
FrpStops(c) ==
    {x \in c.head.fst_rec_ptr..SECTION_SIZE :
        x = SECTION_SIZE \/ c.disk[x] # 0}
Closed(c, h) ==
    [head |-> h, disk |-> c.disk, reg |-> c.reg, phase |-> c.phase,
     dest |-> c.dest, soff |-> c.soff, buf |-> <<>>, ent |-> c.ent,
     key |-> c.key, val |-> c.val]
LipC(c) == Closed(c, LipHead(c.head, Max(LipStops(c))))
FrpC(c) == Closed(c, FrpHead(c.head, Min(FrpStops(c))))

\* A header whose three counters agree, and a thread between two statements.
Coherent(h) ==
    /\ h = Head3(h.fst_rec_ptr - h.lst_itm_ptr, h.lst_itm_ptr, h.fst_rec_ptr)
    /\ h.lst_itm_ptr \in Slots /\ h.fst_rec_ptr \in Nat
    /\ h.lst_itm_ptr <= h.fst_rec_ptr /\ h.fst_rec_ptr <= SECTION_SIZE
Between(c) == c.reg = 0 /\ c.phase = "none" /\ c.dest = 0

\* The loop has read what its test looks at.
LipOk(c) == /\ Coherent(c.head) /\ Between(c)
            /\ c.head.lst_itm_ptr # HEAD_SIZE =>
                  c.buf = Get(c.disk, c.head.lst_itm_ptr - ITM_SIZE, ITM_SIZE)
FrpOk(c) == /\ Coherent(c.head) /\ Between(c)
            /\ c.head.fst_rec_ptr # SECTION_SIZE =>
                  c.buf = Get(c.disk, c.head.fst_rec_ptr, 1)

\* What the statement st makes of c.
Exec(st, c) ==
    IF st[1] = "check" THEN c
    ELSE IF st[1] = "save_addr" THEN SaveC(c)
    ELSE IF st[1] = "load" THEN LoadC(c, st[2])
    ELSE IF st[1] = "store" THEN StoreC(c, st[2], st[3])
    ELSE IF st[1] = "note" THEN NoteC(c, st[2])
    ELSE IF st[1] = "at" THEN AtC(st, c)
    ELSE IF st[1] = "border" THEN BorderC(c)
    ELSE IF st[1] = "cmprs_lip" THEN LipC(c)
    ELSE FrpC(c)

\* The statement is one that may be met in c.
Ok(st, c) ==
    \/ /\ st[1] = "check"
       /\ c.head.free_space >= ITM_SIZE + entity_rec_sz(c.ent)
    \/ st[1] \in {"save_addr", "load", "store", "note"}
    \/ st[1] = "at" /\ AtOk(st, c)
    \/ st[1] = "border" /\ Between(c)
    \/ st[1] = "cmprs_lip" /\ LipOk(c)
    \/ st[1] = "cmprs_frp" /\ FrpOk(c)

-----------------------------------------------------------------------------
(* What a sequence of statements does.                                     *)

\* cs is the run of todo from c to d.
IsRun(cs, todo, c, d) ==
    /\ cs[0] = c /\ cs[Len(todo)] = d
    /\ \A i \in 1..Len(todo) : /\ Ok(todo[i], cs[i - 1])
                               /\ cs[i] = Exec(todo[i], cs[i - 1])

\* todo is a sequence whose statements, one after the other, make d of c.
IsSeq(q) == \E S : q \in Seq(S)

Runs(todo, c, d) == IsSeq(todo) /\ \E cs : IsRun(cs, todo, c, d)

\* Nothing to do, nothing done.
LEMMA RunsNil == ASSUME NEW c PROVE Runs(<<>>, c, c)
<1> DEFINE cs == [i \in 0..0 |-> c]
<1>1. IsRun(cs, <<>>, c, c)
  BY DEF IsRun
<1>2. <<>> \in Seq({})
  OBVIOUS
<1> QED BY <1>1, <1>2 DEF Runs, IsSeq

\* With nothing to do, the state is the final one.
LEMMA RunsEnd == ASSUME NEW c, NEW d, Runs(<<>>, c, d) PROVE c = d
BY DEF Runs, IsRun

\* One statement.
LEMMA RunsOne ==
    ASSUME NEW st, NEW c, Ok(st, c)
    PROVE  Runs(<<st>>, c, Exec(st, c))
<1> DEFINE cs == [i \in 0..1 |-> IF i = 0 THEN c ELSE Exec(st, c)]
<1>1. cs[0] = c /\ cs[1] = Exec(st, c)
  OBVIOUS
<1> HIDE DEF cs
<1>2. Len(<<st>>) = 1 /\ <<st>>[1] = st /\ <<st>> \in Seq({st})
  OBVIOUS
<1>3. ASSUME NEW i \in 1..1
      PROVE  /\ Ok(<<st>>[i], cs[i - 1])
             /\ cs[i] = Exec(<<st>>[i], cs[i - 1])
  <2>1. i = 1 /\ i - 1 = 0
    OBVIOUS
  <2> QED BY <1>1, <1>2, <2>1
<1>4. IsRun(cs, <<st>>, c, Exec(st, c))
  BY <1>1, <1>2, <1>3 DEF IsRun
<1> QED BY <1>2, <1>4 DEF Runs, IsSeq

\* Two sequences are sequences over one set.
LEMMA SeqsAlike ==
    ASSUME NEW a, NEW b, IsSeq(a), IsSeq(b)
    PROVE  \E S : a \in Seq(S) /\ b \in Seq(S)
<1>1. PICK S : a \in Seq(S)
  BY DEF IsSeq
<1>2. PICK T : b \in Seq(T)
  BY DEF IsSeq
<1>3. a \in Seq(S \cup T) /\ b \in Seq(S \cup T)
  BY <1>1, <1>2
<1> QED BY <1>3

\* One sequence after the other.
LEMMA RunsConcat ==
    ASSUME NEW a, NEW b, NEW c, NEW m, NEW d, Runs(a, c, m), Runs(b, m, d)
    PROVE  Runs(a \o b, c, d)
<1>1. PICK cs : IsRun(cs, a, c, m)
  BY DEF Runs
<1>2. PICK ds : IsRun(ds, b, m, d)
  BY DEF Runs
<1>3. PICK S : a \in Seq(S) /\ b \in Seq(S)
  BY SeqsAlike DEF Runs
<1> DEFINE n  == Len(a)
           k  == Len(b)
           es == [i \in 0..(n + k) |-> IF i <= n THEN cs[i] ELSE ds[i - n]]
           ab == a \o b
<1>4. /\ n \in Nat /\ k \in Nat /\ ab \in Seq(S) /\ Len(ab) = n + k
  BY <1>3
<1>5. \A i \in 1..(n + k) : ab[i] = IF i <= n THEN a[i] ELSE b[i - n]
  BY <1>3, <1>4
<1>6. \A i \in 0..(n + k) : es[i] = IF i <= n THEN cs[i] ELSE ds[i - n]
  OBVIOUS
<1>7. /\ cs[0] = c /\ cs[n] = m
      /\ \A i \in 1..n : Ok(a[i], cs[i - 1]) /\ cs[i] = Exec(a[i], cs[i - 1])
  BY <1>1 DEF IsRun
<1>8. /\ ds[0] = m /\ ds[k] = d
      /\ \A i \in 1..k : Ok(b[i], ds[i - 1]) /\ ds[i] = Exec(b[i], ds[i - 1])
  BY <1>2 DEF IsRun
<1> HIDE DEF n, k, es, ab
<1>9. es[0] = c
  BY <1>4, <1>6, <1>7
<1>10. es[n + k] = d
  <2>1. CASE k = 0
    <3>1. es[n + k] = cs[n]
      BY <1>4, <1>6, <2>1
    <3> QED BY <1>7, <1>8, <2>1, <3>1
  <2>2. CASE k # 0
    <3>1. es[n + k] = ds[k]
      BY <1>4, <1>6, <2>2
    <3> QED BY <1>8, <3>1
  <2> QED BY <2>1, <2>2
<1>11. ASSUME NEW i \in 1..(n + k)
       PROVE  Ok(ab[i], es[i - 1]) /\ es[i] = Exec(ab[i], es[i - 1])
  <2>1. CASE i <= n
    <3>1. /\ ab[i] = a[i] /\ es[i] = cs[i] /\ es[i - 1] = cs[i - 1]
          /\ i \in 1..n
      BY <1>4, <1>5, <1>6, <2>1
    <3> QED BY <1>7, <3>1
  <2>2. CASE i > n
    <3> DEFINE j == i - n
    <3>1. /\ j \in 1..k /\ ab[i] = b[j] /\ es[i] = ds[j]
      BY <1>4, <1>5, <1>6, <2>2
    <3>2. es[i - 1] = ds[j - 1]
      <4>1. CASE j = 1
        <5>1. i - 1 = n /\ j - 1 = 0
          BY <1>4, <4>1
        <5>2. es[n] = cs[n]
          BY <1>4, <1>6
        <5> QED BY <1>7, <1>8, <5>1, <5>2
      <4>2. CASE j # 1
        <5>1. i - 1 \in 0..(n + k) /\ ~(i - 1 <= n) /\ (i - 1) - n = j - 1
          BY <1>4, <2>2, <4>2
        <5> QED BY <1>6, <5>1
      <4> QED BY <4>1, <4>2
    <3> HIDE DEF j
    <3> QED BY <1>8, <3>1, <3>2
  <2> QED BY <1>4, <2>1, <2>2
<1>12. IsRun(es, ab, c, d)
  BY <1>4, <1>9, <1>10, <1>11 DEF IsRun
<1> QED BY <1>4, <1>12 DEF Runs, IsSeq, ab

\* The first statement, and the others.
LEMMA RunsFirst ==
    ASSUME NEW todo, NEW c, NEW d, Runs(todo, c, d), todo # <<>>
    PROVE  /\ Ok(Head(todo), c)
           /\ Runs(Tail(todo), Exec(Head(todo), c), d)
<1>1. PICK cs : IsRun(cs, todo, c, d)
  BY DEF Runs
<1>2. PICK S : todo \in Seq(S)
  BY DEF Runs, IsSeq
<1> DEFINE n  == Len(todo)
           tl == Tail(todo)
           es == [i \in 0..(n - 1) |-> cs[i + 1]]
<1>3. /\ n \in Nat /\ n # 0 /\ tl \in Seq(S) /\ Len(tl) = n - 1
      /\ \A i \in 1..(n - 1) : tl[i] = todo[i + 1]
      /\ Head(todo) = todo[1]
  BY <1>2
<1>4. /\ cs[0] = c /\ cs[n] = d
      /\ \A i \in 1..n : Ok(todo[i], cs[i - 1]) /\ cs[i] = Exec(todo[i], cs[i - 1])
  BY <1>1 DEF IsRun
<1>5. \A i \in 0..(n - 1) : es[i] = cs[i + 1]
  OBVIOUS
<1> HIDE DEF n, tl, es
<1>6. Ok(todo[1], c) /\ cs[1] = Exec(todo[1], c)
  <2>1. 1 \in 1..n /\ 1 - 1 = 0
    BY <1>3
  <2> QED BY <1>4, <2>1
<1>7. es[0] = cs[1] /\ es[n - 1] = d
  <2>1. 0 \in 0..(n - 1) /\ n - 1 \in 0..(n - 1) /\ (n - 1) + 1 = n /\ 0 + 1 = 1
    BY <1>3
  <2> QED BY <1>4, <1>5, <2>1
<1>8. ASSUME NEW i \in 1..(n - 1)
      PROVE  Ok(tl[i], es[i - 1]) /\ es[i] = Exec(tl[i], es[i - 1])
  <2>1. /\ i + 1 \in 1..n /\ i \in 0..(n - 1) /\ i - 1 \in 0..(n - 1)
        /\ (i + 1) - 1 = i /\ (i - 1) + 1 = i
    BY <1>3
  <2>2. /\ tl[i] = todo[i + 1] /\ es[i] = cs[i + 1] /\ es[i - 1] = cs[i]
    BY <1>3, <1>5, <2>1
  <2> QED BY <1>4, <2>1, <2>2
<1>9. IsRun(es, tl, cs[1], d)
  BY <1>3, <1>7, <1>8 DEF IsRun
<1>10. Runs(tl, cs[1], d)
  BY <1>3, <1>9 DEF Runs, IsSeq
<1> QED BY <1>3, <1>6, <1>10 DEF tl

\* The first statement from another state, with the same outcome.
LEMMA RunsAgain ==
    ASSUME NEW todo, NEW c, NEW d, Runs(todo, c, d), todo # <<>>,
           NEW e, Ok(Head(todo), e), Exec(Head(todo), e) = Exec(Head(todo), c)
    PROVE  Runs(todo, e, d)
<1> DEFINE st == Head(todo)
<1>1. Runs(Tail(todo), Exec(st, c), d) /\ IsSeq(todo)
  BY RunsFirst DEF Runs
<1>2. Runs(<<st>>, e, Exec(st, e))
  BY <1>1, RunsOne
<1>3. todo = <<st>> \o Tail(todo)
  BY <1>1 DEF IsSeq
<1> HIDE DEF st
<1>4. Runs(<<st>> \o Tail(todo), e, d)
  BY <1>1, <1>2, RunsConcat DEF st
<1> QED BY <1>3, <1>4

-----------------------------------------------------------------------------
(* No step changes what the rest of the call will have made.               *)

\* The locals of a thread have the fields of Idle.
IsLocals(l) ==
    DOMAIN l = {"call", "todo", "soff", "reg", "phase", "dest", "prev_ptr",
                "buf", "ent", "key", "val"}

\* A thread with locals l is in a call that will end in d.
Going(h, p, cells, l, d) ==
    IsLocals(l) /\ Runs(l.todo, Conf(h, p, cells, l), d)

\* The step has done the first statement.
LEMMA Advance ==
    ASSUME NEW h, NEW p, NEW cells, NEW l, NEW d, Going(h, p, cells, l, d),
           l.todo # <<>>, NEW h2, NEW p2, NEW cells2, NEW l2, IsLocals(l2),
           l2.todo = Tail(l.todo),
           Conf(h2, p2, cells2, l2) = Exec(Head(l.todo), Conf(h, p, cells, l))
    PROVE  Going(h2, p2, cells2, l2, d)
BY RunsFirst DEF Going

\* The step is inside the first statement.
LEMMA Stay ==
    ASSUME NEW h, NEW p, NEW cells, NEW l, NEW d, Going(h, p, cells, l, d),
           l.todo # <<>>, NEW h2, NEW p2, NEW cells2, NEW l2, IsLocals(l2),
           l2.todo = l.todo,
           Ok(Head(l.todo), Conf(h2, p2, cells2, l2)),
           Exec(Head(l.todo), Conf(h2, p2, cells2, l2))
             = Exec(Head(l.todo), Conf(h, p, cells, l))
    PROVE  Going(h2, p2, cells2, l2, d)
BY RunsAgain DEF Going

\* Thread t is in a call that will end in d, and the step keeps it so.
Keeps(t, d) ==
    /\ t \in DOMAIN th' /\ th'[t].call = th[t].call
    /\ Going(head', pos', disk', th'[t], d)

\* A state from another whose locals are in the same phase of an access.
LEMMA ConfLocals ==
    ASSUME NEW h, NEW p, NEW cells, NEW l, NEW l2, l2.phase = l.phase,
           l2.dest = l.dest, NEW c, c = Conf(h, p, cells, l)
    PROVE  /\ c.head = h /\ c.disk = cells /\ c.reg = l.reg /\ c.soff = l.soff
           /\ c.buf = l.buf /\ c.ent = l.ent /\ c.key = l.key /\ c.val = l.val
           /\ Conf(h, p, cells, l2)
                = [head |-> h, disk |-> cells, reg |-> l2.reg,
                   phase |-> c.phase, dest |-> c.dest, soff |-> l2.soff,
                   buf |-> l2.buf, ent |-> l2.ent, key |-> l2.key,
                   val |-> l2.val]
<1>1. c.phase = l.phase /\ c.dest = IF l.phase = "io" THEN p ELSE l.dest
  BY DEF Conf
<1>2. /\ c.head = h /\ c.disk = cells /\ c.reg = l.reg /\ c.soff = l.soff
      /\ c.buf = l.buf /\ c.ent = l.ent /\ c.key = l.key /\ c.val = l.val
  BY DEF Conf
<1>3. c.dest = IF l2.phase = "io" THEN p ELSE l2.dest
  BY <1>1
<1> QED BY <1>1, <1>2, <1>3 DEF Conf

\* A load is done in one step.
LEMMA LoadKeeps ==
    ASSUME NEW t \in DOMAIN th, NEW d, Going(head, pos, disk, th[t], d),
           LoadField(t)
    PROVE  Keeps(t, d)
<1> DEFINE l  == th[t]
           st == Head(l.todo)
           l2 == [[l EXCEPT !.reg = head[st[2]]] EXCEPT !.todo = Tail(l.todo)]
<1>1. /\ l.todo # <<>> /\ st[1] = "load" /\ UNCHANGED <<head, pos, disk>>
      /\ th' = [th EXCEPT ![t] = l2]
  BY DEF LoadField, Doing, GoesOn, Goes, Arg, Going, IsLocals, shared
<1>2. IsLocals(l)
  BY DEF Going
<1>3. Exec(st, Conf(head, pos, disk, l)) = LoadC(Conf(head, pos, disk, l), st[2])
  BY <1>1 DEF Exec
<1> HIDE DEF st
<1>4. IsLocals(l2) /\ l2.todo = Tail(l.todo) /\ l2.call = l.call
  BY <1>2 DEF IsLocals
<1>5. Conf(head, pos, disk, l2) = LoadC(Conf(head, pos, disk, l), st[2])
  <2> DEFINE c == Conf(head, pos, disk, l)
  <2> HIDE DEF st
  <2>1. /\ l2.phase = l.phase /\ l2.dest = l.dest /\ l2.reg = head[st[2]]
        /\ l2.soff = l.soff /\ l2.buf = l.buf /\ l2.ent = l.ent
        /\ l2.key = l.key /\ l2.val = l.val
    BY <1>2 DEF IsLocals
  <2> HIDE DEF l2, l, c
  <2>2. /\ c.head = head /\ c.disk = disk /\ c.reg = l.reg /\ c.soff = l.soff
        /\ c.buf = l.buf /\ c.ent = l.ent /\ c.key = l.key /\ c.val = l.val
        /\ Conf(head, pos, disk, l2)
             = [head |-> head, disk |-> disk, reg |-> l2.reg,
                phase |-> c.phase, dest |-> c.dest, soff |-> l2.soff,
                buf |-> l2.buf, ent |-> l2.ent, key |-> l2.key,
                val |-> l2.val]
    BY <2>1, ConfLocals DEF c
  <2>3. Conf(head, pos, disk, l2) = LoadC(c, st[2])
    BY <2>1, <2>2 DEF LoadC
  <2> QED BY <2>3 DEF c
<1> HIDE DEF l2
<1>6. Going(head, pos, disk, l2, d)
  BY <1>1, <1>3, <1>4, <1>5, Advance DEF st
<1> QED BY <1>1, <1>4, <1>6 DEF Keeps

\* A store is done in one step.
LEMMA StoreKeeps ==
    ASSUME NEW t \in DOMAIN th, NEW d, Going(head, pos, disk, th[t], d),
           StoreField(t)
    PROVE  Keeps(t, d)
<1> DEFINE l  == th[t]
           st == Head(l.todo)
           h2 == [head EXCEPT ![st[2]] = (l.reg + st[3]) % WORD]
           l2 == [[l EXCEPT !.reg = 0] EXCEPT !.todo = Tail(l.todo)]
<1>1. /\ l.todo # <<>> /\ st[1] = "store" /\ UNCHANGED <<pos, disk>>
      /\ head' = h2 /\ th' = [th EXCEPT ![t] = l2]
  BY DEF StoreField, Doing, GoesOn, Goes, Arg, Going, IsLocals
<1>2. IsLocals(l)
  BY DEF Going
<1>3. Exec(st, Conf(head, pos, disk, l))
        = StoreC(Conf(head, pos, disk, l), st[2], st[3])
  BY <1>1 DEF Exec
<1> HIDE DEF st
<1>4. IsLocals(l2) /\ l2.todo = Tail(l.todo) /\ l2.call = l.call
  BY <1>2 DEF IsLocals
<1>5. Conf(h2, pos, disk, l2) = StoreC(Conf(head, pos, disk, l), st[2], st[3])
  BY <1>2 DEF IsLocals, Conf, StoreC
<1> HIDE DEF l2, h2
<1>6. Going(h2, pos, disk, l2, d)
  BY <1>1, <1>3, <1>4, <1>5, Advance DEF st
<1> QED BY <1>1, <1>4, <1>6 DEF Keeps

\* So is the note of a pointer in the entity.
LEMMA NoteKeeps ==
    ASSUME NEW t \in DOMAIN th, NEW d, Going(head, pos, disk, th[t], d),
           Note(t)
    PROVE  Keeps(t, d)
<1> DEFINE l  == th[t]
           st == Head(l.todo)
           e2 == IF st[2] = "key"
                 THEN [l.ent EXCEPT !.key_ptr = head.fst_rec_ptr]
                 ELSE [l.ent EXCEPT !.val_ptr = head.fst_rec_ptr]
           l2 == [[l EXCEPT !.ent = e2] EXCEPT !.todo = Tail(l.todo)]
<1>1. /\ l.todo # <<>> /\ st[1] = "note" /\ UNCHANGED <<head, pos, disk>>
      /\ th' = [th EXCEPT ![t] = l2]
  BY DEF Note, Doing, GoesOn, Goes, Arg, Going, IsLocals, shared
<1>2. IsLocals(l)
  BY DEF Going
<1>3. Exec(st, Conf(head, pos, disk, l)) = NoteC(Conf(head, pos, disk, l), st[2])
  BY <1>1 DEF Exec
<1>5. Conf(head, pos, disk, l2) = NoteC(Conf(head, pos, disk, l), st[2])
  <2> DEFINE c == Conf(head, pos, disk, l)
  <2> HIDE DEF st, e2
  <2>1. /\ l2.phase = l.phase /\ l2.dest = l.dest /\ l2.reg = l.reg
        /\ l2.soff = l.soff /\ l2.buf = l.buf /\ l2.ent = e2
        /\ l2.key = l.key /\ l2.val = l.val
    BY <1>2 DEF IsLocals
  <2> HIDE DEF l2, l, c
  <2>2. /\ c.head = head /\ c.disk = disk /\ c.reg = l.reg /\ c.soff = l.soff
        /\ c.buf = l.buf /\ c.ent = l.ent /\ c.key = l.key /\ c.val = l.val
        /\ Conf(head, pos, disk, l2)
             = [head |-> head, disk |-> disk, reg |-> l2.reg,
                phase |-> c.phase, dest |-> c.dest, soff |-> l2.soff,
                buf |-> l2.buf, ent |-> l2.ent, key |-> l2.key,
                val |-> l2.val]
    BY <2>1, ConfLocals DEF c
  <2>3. Conf(head, pos, disk, l2) = NoteC(c, st[2])
    BY <2>1, <2>2 DEF NoteC, e2
  <2> QED BY <2>3 DEF c
<1> HIDE DEF st, e2
<1>4. IsLocals(l2) /\ l2.todo = Tail(l.todo) /\ l2.call = l.call
  BY <1>2 DEF IsLocals
<1> HIDE DEF l2
<1>6. Going(head, pos, disk, l2, d)
  BY <1>1, <1>3, <1>4, <1>5, Advance DEF st
<1> QED BY <1>1, <1>4, <1>6 DEF Keeps

\* So is the note of the slot.
LEMMA SaveKeeps ==
    ASSUME NEW t \in DOMAIN th, NEW d, Going(head, pos, disk, th[t], d),
           SaveAddr(t)
    PROVE  Keeps(t, d)
<1> DEFINE l  == th[t]
           st == Head(l.todo)
           l2 == [[l EXCEPT !.soff = head.lst_itm_ptr] EXCEPT !.todo = Tail(l.todo)]
<1>1. /\ l.todo # <<>> /\ st[1] = "save_addr" /\ UNCHANGED <<head, pos, disk>>
      /\ th' = [th EXCEPT ![t] = l2]
  BY DEF SaveAddr, Doing, GoesOn, Goes, Arg, Going, IsLocals, shared
<1>2. IsLocals(l)
  BY DEF Going
<1>3. Exec(st, Conf(head, pos, disk, l)) = SaveC(Conf(head, pos, disk, l))
  BY <1>1 DEF Exec
<1>4. IsLocals(l2) /\ l2.todo = Tail(l.todo) /\ l2.call = l.call
  BY <1>2 DEF IsLocals
<1>5. Conf(head, pos, disk, l2) = SaveC(Conf(head, pos, disk, l))
  <2> DEFINE c == Conf(head, pos, disk, l)
  <2> HIDE DEF st
  <2>1. /\ l2.phase = l.phase /\ l2.dest = l.dest /\ l2.reg = l.reg
        /\ l2.soff = head.lst_itm_ptr /\ l2.buf = l.buf /\ l2.ent = l.ent
        /\ l2.key = l.key /\ l2.val = l.val
    BY <1>2 DEF IsLocals
  <2> HIDE DEF l2, l, c
  <2>2. /\ c.head = head /\ c.disk = disk /\ c.reg = l.reg /\ c.soff = l.soff
        /\ c.buf = l.buf /\ c.ent = l.ent /\ c.key = l.key /\ c.val = l.val
        /\ Conf(head, pos, disk, l2)
             = [head |-> head, disk |-> disk, reg |-> l2.reg,
                phase |-> c.phase, dest |-> c.dest, soff |-> l2.soff,
                buf |-> l2.buf, ent |-> l2.ent, key |-> l2.key,
                val |-> l2.val]
    BY <2>1, ConfLocals DEF c
  <2>3. Conf(head, pos, disk, l2) = SaveC(c)
    BY <2>1, <2>2 DEF SaveC
  <2> QED BY <2>3 DEF c
<1> HIDE DEF l2
<1>6. Going(head, pos, disk, l2, d)
  BY <1>1, <1>3, <1>4, <1>5, Advance
<1> QED BY <1>1, <1>4, <1>6 DEF Keeps

\* Two states that differ in the progress of an access only.
Alike(c, e) ==
    /\ e.head = c.head /\ e.disk = c.disk /\ e.reg = c.reg /\ e.soff = c.soff
    /\ e.buf = c.buf /\ e.ent = c.ent /\ e.key = c.key /\ e.val = c.val

\* The access does the same from both, if it is to the same place.
LEMMA SameAccess ==
    ASSUME NEW st, NEW c, NEW e, Alike(c, e), Place(st, e) = Place(st, c),
           ~Skips(st, c), ~Skips(st, e), c.phase # "back", e.phase # "back"
    PROVE  AtC(st, e) = AtC(st, c) /\ (Misses(st, e) <=> Misses(st, c))
<1>1. /\ Size(e, st[4]) = Size(c, st[4])
      /\ Data(e.head, e, st[4]) = Data(c.head, c, st[4])
  BY DEF Size, Data, Alike
<1>2. Misses(st, e) <=> Misses(st, c)
  BY <1>1 DEF Misses
<1>3. Over(e) = Over(c) /\ Accessed(st, e) = Accessed(st, c)
  BY <1>1 DEF Over, Accessed, Alike
<1> QED BY <1>2, <1>3 DEF AtC

\* The first statement is an access, and it is met in a state it allows.
LEMMA AtFirst ==
    ASSUME NEW h, NEW p, NEW cells, NEW l, NEW d, Going(h, p, cells, l, d),
           l.todo # <<>>, Head(l.todo)[1] = "at"
    PROVE  LET st == Head(l.todo)
               c  == Conf(h, p, cells, l)
           IN  AtOk(st, c) /\ \A e : Exec(st, e) = AtC(st, e)
                                   /\ (AtOk(st, e) => Ok(st, e))
<1>1. Ok(Head(l.todo), Conf(h, p, cells, l))
  BY RunsFirst DEF Going
<1> QED BY <1>1 DEF Ok, Exec

\* Evaluating the arguments of an access is inside it, unless there is
\* nothing to access.
LEMMA AccessKeeps ==
    ASSUME NEW t \in DOMAIN th, NEW d, Going(head, pos, disk, th[t], d),
           Access(t)
    PROVE  Keeps(t, d)
<1> DEFINE l  == th[t]
           st == Head(l.todo)
           c  == Conf(head, pos, disk, l)
<1>1. /\ l.todo # <<>> /\ st[1] = "at" /\ l.phase = "none"
      /\ UNCHANGED <<head, pos, disk>>
      /\ IF Size(l, st[4]) = 0
         THEN th' = [th EXCEPT ![t] = [l EXCEPT !.todo = Tail(l.todo)]]
         ELSE th' = [th EXCEPT ![t].phase = "ftell",
                               ![t].dest = Dest(head, l, st[2])]
  BY DEF Access, Within, Doing, GoesOn, Goes, Arg, Going, IsLocals, shared
<1>2. IsLocals(l)
  BY DEF Going
<1>3. AtOk(st, c) /\ \A e : Exec(st, e) = AtC(st, e) /\ (AtOk(st, e) => Ok(st, e))
  BY <1>1, AtFirst
<1>4. /\ c.phase = "none" /\ c.head = head /\ c.disk = disk
      /\ c.ent = l.ent /\ c.soff = l.soff
  BY <1>1 DEF Conf
<1>5. /\ Size(c, st[4]) = Size(l, st[4])
      /\ Dest(c.head, c, st[2]) = Dest(head, l, st[2])
  <2> HIDE DEF c, st, l
  <2> QED BY <1>4 DEF Size, Dest
<1>6. CASE Size(l, st[4]) = 0
  <2> DEFINE l2 == [l EXCEPT !.todo = Tail(l.todo)]
  <2>1. IsLocals(l2) /\ l2.todo = Tail(l.todo) /\ l2.call = l.call
    BY <1>2 DEF IsLocals
  <2>2. Conf(head, pos, disk, l2) = c
    BY <1>2 DEF IsLocals, Conf
  <2>3. Exec(st, c) = c
    <3> HIDE DEF c, st
    <3> QED BY <1>3, <1>4, <1>5, <1>6 DEF AtC, Skips
  <2>4. th' = [th EXCEPT ![t] = l2]
    BY <1>1, <1>6
  <2> HIDE DEF l2
  <2>5. Going(head, pos, disk, l2, d)
    BY <1>1, <2>1, <2>2, <2>3, Advance
  <2> QED BY <1>1, <2>1, <2>4, <2>5 DEF Keeps
<1>7. CASE Size(l, st[4]) # 0
  <2> DEFINE dst == Dest(head, l, st[2])
             l2  == [l EXCEPT !.phase = "ftell", !.dest = dst]
             c2  == Conf(head, pos, disk, l2)
  <2>1. th' = [th EXCEPT ![t] = l2]
    BY <1>1, <1>7
  <2> HIDE DEF dst
  <2>2. IsLocals(l2) /\ l2.todo = l.todo /\ l2.call = l.call
    BY <1>2 DEF IsLocals
  <2>3. c2.phase = "ftell" /\ c2.dest = dst /\ Alike(c, c2)
    BY <1>2 DEF IsLocals, Conf, Alike
  <2> HIDE DEF l2, c2, c, st
  <2>4. Place(st, c2) = Place(st, c)
    BY <1>4, <1>5, <2>3 DEF Place, dst
  <2>5. ~Skips(st, c) /\ ~Skips(st, c2)
    BY <1>5, <1>7, <2>3 DEF Skips
  <2>6. AtC(st, c2) = AtC(st, c) /\ (Misses(st, c2) <=> Misses(st, c))
    BY <1>4, <2>3, <2>4, <2>5, SameAccess
  <2>7. AtOk(st, c2)
    BY <1>3, <1>4, <2>3, <2>5, <2>6 DEF AtOk
  <2>8. Going(head, pos, disk, l2, d)
    BY <1>1, <1>3, <2>2, <2>6, <2>7, Stay DEF st, c, c2
  <2> QED BY <1>1, <2>1, <2>2, <2>8 DEF Keeps
<1> QED BY <1>6, <1>7

\* Asking for the position is inside the access.
LEMMA FTellKeeps ==
    ASSUME NEW t \in DOMAIN th, NEW d, Going(head, pos, disk, th[t], d),
           FTell(t)
    PROVE  Keeps(t, d)
<1> DEFINE l  == th[t]
           st == Head(l.todo)
           c  == Conf(head, pos, disk, l)
           l2 == [l EXCEPT !.phase = "fseek", !.prev_ptr = pos]
           c2 == Conf(head, pos, disk, l2)
<1>1. /\ l.todo # <<>> /\ st[1] = "at" /\ l.phase = "ftell"
      /\ UNCHANGED <<head, pos, disk>> /\ th' = [th EXCEPT ![t] = l2]
  BY DEF FTell, Within, Doing, shared
<1>2. IsLocals(l)
  BY DEF Going
<1>3. AtOk(st, c) /\ \A e : Exec(st, e) = AtC(st, e) /\ (AtOk(st, e) => Ok(st, e))
  BY <1>1, AtFirst
<1>4. IsLocals(l2) /\ l2.todo = l.todo /\ l2.call = l.call
  BY <1>2 DEF IsLocals
<1>5. c.phase = "ftell" /\ c2.phase = "fseek" /\ c2.dest = c.dest /\ Alike(c, c2)
  BY <1>1, <1>2 DEF IsLocals, Conf, Alike
<1> HIDE DEF l2, c2, c, st
<1>6. Place(st, c2) = Place(st, c) /\ ~Skips(st, c) /\ ~Skips(st, c2)
  BY <1>5 DEF Place, Skips
<1>7. AtC(st, c2) = AtC(st, c) /\ (Misses(st, c2) <=> Misses(st, c))
  BY <1>5, <1>6, SameAccess
<1>8. AtOk(st, c2)
  BY <1>3, <1>5, <1>6, <1>7 DEF AtOk
<1>9. Going(head, pos, disk, l2, d)
  BY <1>1, <1>3, <1>4, <1>7, <1>8, Stay DEF st, c, c2
<1> QED BY <1>1, <1>4, <1>9 DEF Keeps

\* An access that fails in a compressing loop is over.
LEMMA FailureKeeps ==
    ASSUME NEW t \in DOMAIN th, NEW d, Going(head, pos, disk, th[t], d),
           th[t].todo # <<>>, Head(th[t].todo)[1] = "at",
           NEW ph, ph # "none", ph # "back", th[t].phase = ph,
           Misses(Head(th[t].todo), Conf(head, pos, disk, th[t])),
           IoFails(t), UNCHANGED <<head, pos, disk>>
    PROVE  Keeps(t, d)
<1> DEFINE l  == th[t]
           st == Head(l.todo)
           c  == Conf(head, pos, disk, l)
           l2 == [Done(l) EXCEPT !.todo = Tail(l.todo)]
<1>1. AtOk(st, c) /\ \A e : Exec(st, e) = AtC(st, e) /\ (AtOk(st, e) => Ok(st, e))
  BY AtFirst
<1>2. IsLocals(l)
  BY DEF Going
<1>3. c.phase = ph
  BY DEF Conf
<1>4. st[4] \in {"slot", "chr"} /\ Exec(st, c) = Over(c)
  <2> HIDE DEF c, st
  <2>1. Misses(st, c)
    BY DEF c, st
  <2>2. ~Skips(st, c)
    BY <1>3 DEF Skips
  <2> QED BY <1>1, <1>3, <2>1, <2>2 DEF AtOk, AtC
<1>5. th' = [th EXCEPT ![t] = l2]
  BY <1>2, <1>4 DEF IoFails, GoesOn, Goes, Arg, Done, IsLocals
<1>6. IsLocals(l2) /\ l2.todo = Tail(l.todo) /\ l2.call = l.call
  BY <1>2 DEF IsLocals, Done
<1>7. Conf(head, pos, disk, l2) = Over(c)
  BY <1>2 DEF IsLocals, Done, Conf, Over
<1> HIDE DEF l2
<1>8. Going(head, pos, disk, l2, d)
  BY <1>4, <1>6, <1>7, Advance
<1> QED BY <1>5, <1>6, <1>8 DEF Keeps

\* So is the seek.
LEMMA FSeekKeeps ==
    ASSUME NEW t \in DOMAIN th, NEW d, Going(head, pos, disk, th[t], d),
           FSeek(t)
    PROVE  Keeps(t, d)
<1> DEFINE l  == th[t]
           st == Head(l.todo)
           c  == Conf(head, pos, disk, l)
           l2 == [l EXCEPT !.phase = "io"]
           c2 == Conf(head, l.dest, disk, l2)
<1>1. /\ l.todo # <<>> /\ st[1] = "at" /\ l.phase = "fseek"
      /\ UNCHANGED <<head, disk>>
      /\ IF l.dest >= 0 THEN pos' = l.dest /\ th' = [th EXCEPT ![t] = l2]
         ELSE IoFails(t) /\ pos' = pos
  BY DEF FSeek, Within, Doing
<1>2. IsLocals(l)
  BY DEF Going
<1>3. AtOk(st, c) /\ \A e : Exec(st, e) = AtC(st, e) /\ (AtOk(st, e) => Ok(st, e))
  BY <1>1, AtFirst
<1>4. c.phase = "fseek" /\ c.dest = l.dest
  BY <1>1 DEF Conf
<1>5. CASE l.dest >= 0
  <2>1. IsLocals(l2) /\ l2.todo = l.todo /\ l2.call = l.call
    BY <1>2 DEF IsLocals
  <2>2. c2.phase = "io" /\ c2.dest = l.dest /\ Alike(c, c2)
    BY <1>1, <1>2 DEF IsLocals, Conf, Alike
  <2>3. th' = [th EXCEPT ![t] = l2] /\ pos' = l.dest
    BY <1>1, <1>5
  <2> HIDE DEF l2, c2, c, st
  <2>4. Place(st, c2) = Place(st, c) /\ ~Skips(st, c) /\ ~Skips(st, c2)
    BY <1>4, <2>2 DEF Place, Skips
  <2>5. AtC(st, c2) = AtC(st, c) /\ (Misses(st, c2) <=> Misses(st, c))
    BY <1>4, <2>2, <2>4, SameAccess
  <2>6. AtOk(st, c2)
    BY <1>3, <1>4, <1>5, <2>2, <2>4, <2>5 DEF AtOk
  <2>7. Going(head, l.dest, disk, l2, d)
    BY <1>1, <1>3, <2>1, <2>5, <2>6, Stay DEF st, c, c2
  <2> QED BY <1>1, <2>1, <2>3, <2>7 DEF Keeps
<1>6. CASE ~(l.dest >= 0)
  <2>1. Misses(st, c)
    <3>1. Place(st, c) = l.dest
      BY <1>4 DEF Place
    <3> QED BY <1>6, <3>1 DEF Misses
  <2> QED BY <1>1, <1>6, <2>1, FailureKeeps
<1> QED BY <1>5, <1>6

\* A write changes the cells and leaves the seek back to do.
LEMMA FWriteKeeps ==
    ASSUME NEW t \in DOMAIN th, NEW d, Going(head, pos, disk, th[t], d),
           FWrite(t)
    PROVE  Keeps(t, d)
<1> DEFINE l  == th[t]
           st == Head(l.todo)
           c  == Conf(head, pos, disk, l)
           D  == Put(disk, pos, Data(head, l, st[4]))
           q  == pos + Len(Data(head, l, st[4]))
           l2 == [l EXCEPT !.phase = "back"]
           c2 == Conf(head, q, D, l2)
<1>1. /\ l.todo # <<>> /\ st[1] = "at" /\ l.phase = "io" /\ st[3] = "fwrite"
      /\ head' = head /\ disk' = D /\ pos' = q /\ th' = [th EXCEPT ![t] = l2]
  BY DEF FWrite, Within, Doing, Arg
<1>2. IsLocals(l)
  BY DEF Going
<1>3. AtOk(st, c) /\ \A e : Exec(st, e) = AtC(st, e) /\ (AtOk(st, e) => Ok(st, e))
  BY <1>1, AtFirst
<1>4. IsLocals(l2) /\ l2.todo = l.todo /\ l2.call = l.call
  BY <1>2 DEF IsLocals
<1>5. /\ c.phase = "io" /\ c.dest = pos /\ c.head = head /\ c.disk = disk
      /\ c.ent = l.ent /\ c.key = l.key /\ c.val = l.val
  BY <1>1 DEF Conf
<1>6. Data(c.head, c, st[4]) = Data(head, l, st[4])
  <2> HIDE DEF c, st, l
  <2> QED BY <1>5 DEF Data, Size
<1> HIDE DEF q
<1>7. /\ c2.phase = "back" /\ c2.head = c.head /\ c2.disk = D
      /\ c2.reg = c.reg /\ c2.soff = c.soff /\ c2.buf = c.buf
      /\ c2.ent = c.ent /\ c2.key = c.key /\ c2.val = c.val
  <2> HIDE DEF D
  <2> QED BY <1>2 DEF IsLocals, Conf
<1> HIDE DEF l2, c2, c, st
<1>8. Place(st, c) = pos /\ ~Misses(st, c) /\ ~Skips(st, c)
  BY <1>1, <1>3, <1>5 DEF Place, Misses, Skips, AtOk
<1>9. AtC(st, c) = Accessed(st, c)
  BY <1>5, <1>8 DEF AtC
<1>10. AtC(st, c2) = Over(c2)
  BY <1>7 DEF AtC, Skips
<1>11. D = Put(c.disk, Place(st, c), Data(c.head, c, st[4]))
  BY <1>5, <1>6, <1>8
<1> HIDE DEF D
<1>12. Over(c2) = Accessed(st, c)
  BY <1>1, <1>7, <1>11 DEF Over, Accessed
<1>13. AtOk(st, c2)
  BY <1>1, <1>7 DEF AtOk
<1>14. Going(head, q, D, l2, d)
  BY <1>1, <1>3, <1>4, <1>9, <1>10, <1>12, <1>13, Stay DEF st, c, c2
<1> QED BY <1>1, <1>4, <1>14 DEF Keeps

\* A read changes a local and leaves the seek back to do, or it fails.
LEMMA FReadKeeps ==
    ASSUME NEW t \in DOMAIN th, NEW d, Going(head, pos, disk, th[t], d),
           FRead(t)
    PROVE  Keeps(t, d)
<1> DEFINE l  == th[t]
           st == Head(l.todo)
           c  == Conf(head, pos, disk, l)
           n  == Size(l, st[4])
           data == Get(disk, pos, n)
           q  == pos + n
           lb == [l EXCEPT !.phase = "back"]
           l2 == CASE st[4] = "ent" -> [lb EXCEPT !.ent = CellsEntity(data)]
                   [] st[4] = "key" -> [lb EXCEPT !.key = data]
                   [] st[4] = "val" -> [lb EXCEPT !.val = data]
                   [] st[4] \in {"slot", "chr"} -> [lb EXCEPT !.buf = data]
           c2 == Conf(head, q, disk, l2)
<1>1. /\ l.todo # <<>> /\ st[1] = "at" /\ l.phase = "io" /\ st[3] = "fread"
      /\ head' = head /\ disk' = disk
      /\ IF q > SECTION_SIZE THEN IoFails(t) /\ pos' = pos
         ELSE pos' = q /\ th' = [th EXCEPT ![t] = l2]
  BY DEF FRead, Within, Doing, Arg
<1>2. IsLocals(l)
  BY DEF Going
<1>3. AtOk(st, c) /\ \A e : Exec(st, e) = AtC(st, e) /\ (AtOk(st, e) => Ok(st, e))
  BY <1>1, AtFirst
<1>4. c.phase = "io" /\ c.dest = pos /\ c.disk = disk /\ c.ent = l.ent
  BY <1>1 DEF Conf
<1>5. Size(c, st[4]) = n
  <2> HIDE DEF c, st, l
  <2> QED BY <1>4 DEF Size, n
<1>6. Place(st, c) = pos /\ ~Skips(st, c) /\ pos >= 0
  <2> HIDE DEF c, st
  <2> QED BY <1>3, <1>4 DEF Place, Skips, AtOk
<1>7. CASE q > SECTION_SIZE
  <2>1. Misses(st, c)
    <3> HIDE DEF c, st, n
    <3> QED BY <1>1, <1>5, <1>6, <1>7 DEF Misses
  <2> QED BY <1>1, <1>7, <2>1, FailureKeeps
<1>8. CASE ~(q > SECTION_SIZE) /\ st[4] \in {"ent", "key", "val", "slot", "chr"}
  <2>1. ~Misses(st, c) /\ AtC(st, c) = Accessed(st, c)
    <3> HIDE DEF c, st, n
    <3> QED BY <1>4, <1>5, <1>6, <1>8 DEF Misses, AtC
  <2>2. data = Get(c.disk, Place(st, c), Size(c, st[4]))
    BY <1>4, <1>5, <1>6
  <2> HIDE DEF data, q, n, st
  <2>3. IsLocals(lb) /\ lb.todo = l.todo /\ lb.call = l.call /\ lb.phase = "back"
        /\ lb.reg = l.reg /\ lb.soff = l.soff /\ lb.buf = l.buf
        /\ lb.ent = l.ent /\ lb.key = l.key /\ lb.val = l.val
    BY <1>2 DEF IsLocals
  <2> HIDE DEF lb
  <2>4. /\ IsLocals(l2) /\ l2.todo = lb.todo /\ l2.call = lb.call
        /\ l2.phase = lb.phase /\ l2.reg = lb.reg /\ l2.soff = lb.soff
        /\ l2.buf = IF st[4] \in {"slot", "chr"} THEN data ELSE lb.buf
        /\ l2.ent = IF st[4] = "ent" THEN CellsEntity(data) ELSE lb.ent
        /\ l2.key = IF st[4] = "key" THEN data ELSE lb.key
        /\ l2.val = IF st[4] = "val" THEN data ELSE lb.val
    BY <1>8, <2>3 DEF IsLocals
  <2> HIDE DEF l2
  <2>5. /\ c2.phase = "back" /\ c2.head = c.head /\ c2.disk = c.disk
        /\ c2.reg = c.reg /\ c2.soff = c.soff
        /\ c2.buf = IF st[4] \in {"slot", "chr"} THEN data ELSE c.buf
        /\ c2.ent = IF st[4] = "ent" THEN CellsEntity(data) ELSE c.ent
        /\ c2.key = IF st[4] = "key" THEN data ELSE c.key
        /\ c2.val = IF st[4] = "val" THEN data ELSE c.val
    BY <2>3, <2>4 DEF Conf
  <2>6. th' = [th EXCEPT ![t] = l2] /\ pos' = q
    BY <1>1, <1>8
  <2>7. st[3] = "fread" /\ l.todo # <<>>
    BY <1>1
  <2> HIDE DEF c2, c
  <2>8. AtC(st, c2) = Over(c2)
    BY <2>5 DEF AtC, Skips
  <2>9. Over(c2) = Accessed(st, c)
    BY <2>2, <2>5, <2>7 DEF Over, Accessed
  <2>10. AtOk(st, c2)
    BY <1>8, <2>5, <2>7 DEF AtOk
  <2>11. Going(head, q, disk, l2, d)
    BY <1>3, <2>1, <2>3, <2>4, <2>7, <2>8, <2>9, <2>10, Stay DEF st, c, c2
  <2> QED BY <1>1, <2>3, <2>4, <2>6, <2>11 DEF Keeps
<1>9. st[4] \in {"ent", "key", "val", "slot", "chr"}
  <2> HIDE DEF c, st
  <2> QED BY <1>1, <1>3 DEF AtOk
<1> QED BY <1>7, <1>8, <1>9

\* The seek back ends the access.
LEMMA BackKeeps ==
    ASSUME NEW t \in DOMAIN th, NEW d, Going(head, pos, disk, th[t], d),
           Back(t)
    PROVE  Keeps(t, d)
<1> DEFINE l  == th[t]
           st == Head(l.todo)
           c  == Conf(head, pos, disk, l)
           l2 == [Done(l) EXCEPT !.todo = Tail(l.todo)]
<1>1. /\ l.todo # <<>> /\ st[1] = "at" /\ l.phase = "back"
      /\ head' = head /\ disk' = disk /\ pos' = l.prev_ptr
      /\ th' = [th EXCEPT ![t] = l2]
  BY DEF Back, Within, Doing, GoesOn, Goes, Done, Going, IsLocals
<1>2. IsLocals(l)
  BY DEF Going
<1>3. Exec(st, c) = AtC(st, c)
  BY <1>1, AtFirst
<1>4. c.phase = "back"
  BY <1>1 DEF Conf
<1>5. AtC(st, c) = Over(c)
  <2> HIDE DEF c, st
  <2> QED BY <1>4 DEF AtC, Skips
<1>6. IsLocals(l2) /\ l2.todo = Tail(l.todo) /\ l2.call = l.call
  BY <1>2 DEF IsLocals, Done
<1>7. Conf(head, l.prev_ptr, disk, l2) = Over(c)
  BY <1>2 DEF IsLocals, Done, Conf, Over
<1> HIDE DEF l2
<1>8. Going(head, l.prev_ptr, disk, l2, d)
  BY <1>1, <1>3, <1>5, <1>6, <1>7, Advance
<1> QED BY <1>1, <1>6, <1>8 DEF Keeps

-----------------------------------------------------------------------------
(* The statements that stand for others.                                   *)

\* Short sequences are equal if their elements are.
LEMMA SameTuple ==
    ASSUME NEW q, NEW r, IsSeq(q), IsSeq(r), NEW n \in 1..6,
           Len(q) = n, Len(r) = n, q[1] = r[1],
           n >= 2 => q[2] = r[2], n >= 3 => q[3] = r[3], n >= 4 => q[4] = r[4],
           n >= 5 => q[5] = r[5], n >= 6 => q[6] = r[6]
    PROVE  q = r
<1>1. PICK S : q \in Seq(S) /\ r \in Seq(S)
  BY SeqsAlike
<1>2. ASSUME NEW i \in 1..n PROVE q[i] = r[i]
  <2>1. i = 1 \/ i = 2 \/ i = 3 \/ i = 4 \/ i = 5 \/ i = 6
    OBVIOUS
  <2> QED BY <2>1
<1> QED BY <1>1, <1>2, SeqEqual

\* A tuple of 2 elements as a sequence that grew by one.
LEMMA Tuple2 ==
    ASSUME NEW a1, NEW a2
    PROVE  <<a1>> \o <<a2>> = <<a1, a2>>
<1> DEFINE q == <<a1>> \o <<a2>>
           r == <<a1, a2>>
           S == {a1, a2}
<1>1. q \in Seq(S) /\ r \in Seq(S)
  OBVIOUS
<1>2. Len(q) = 2 /\ Len(r) = 2
  OBVIOUS
<1>3. q[1] = r[1] /\ q[2] = r[2]
  OBVIOUS
<1> HIDE DEF q, r, S
<1>4. 2 \in 1..6 /\ IsSeq(q) /\ IsSeq(r)
  BY <1>1 DEF IsSeq
<1>5. q = r
  BY <1>2, <1>3, <1>4, SameTuple
<1> QED BY <1>5 DEF q, r

\* A tuple of 3 elements as a sequence that grew by one.
LEMMA Tuple3 ==
    ASSUME NEW a1, NEW a2, NEW a3
    PROVE  <<a1, a2>> \o <<a3>> = <<a1, a2, a3>>
<1> DEFINE q == <<a1, a2>> \o <<a3>>
           r == <<a1, a2, a3>>
           S == {a1, a2, a3}
<1>1. q \in Seq(S) /\ r \in Seq(S)
  OBVIOUS
<1>2. Len(q) = 3 /\ Len(r) = 3
  OBVIOUS
<1>3. q[1] = r[1] /\ q[2] = r[2] /\ q[3] = r[3]
  OBVIOUS
<1> HIDE DEF q, r, S
<1>4. 3 \in 1..6 /\ IsSeq(q) /\ IsSeq(r)
  BY <1>1 DEF IsSeq
<1>5. q = r
  BY <1>2, <1>3, <1>4, SameTuple
<1> QED BY <1>5 DEF q, r

\* A tuple of 4 elements as a sequence that grew by one.
LEMMA Tuple4 ==
    ASSUME NEW a1, NEW a2, NEW a3, NEW a4
    PROVE  <<a1, a2, a3>> \o <<a4>> = <<a1, a2, a3, a4>>
<1> DEFINE q == <<a1, a2, a3>> \o <<a4>>
           r == <<a1, a2, a3, a4>>
           S == {a1, a2, a3, a4}
<1>1. q \in Seq(S) /\ r \in Seq(S)
  OBVIOUS
<1>2. Len(q) = 4 /\ Len(r) = 4
  OBVIOUS
<1>3. q[1] = r[1] /\ q[2] = r[2] /\ q[3] = r[3] /\ q[4] = r[4]
  OBVIOUS
<1> HIDE DEF q, r, S
<1>4. 4 \in 1..6 /\ IsSeq(q) /\ IsSeq(r)
  BY <1>1 DEF IsSeq
<1>5. q = r
  BY <1>2, <1>3, <1>4, SameTuple
<1> QED BY <1>5 DEF q, r

\* A tuple of 6 elements as one of 4 and one of 2.
LEMMA Tuple42 ==
    ASSUME NEW a1, NEW a2, NEW a3, NEW a4, NEW a5, NEW a6
    PROVE  <<a1, a2, a3, a4>> \o <<a5, a6>> = <<a1, a2, a3, a4, a5, a6>>
<1> DEFINE q == <<a1, a2, a3, a4>> \o <<a5, a6>>
           r == <<a1, a2, a3, a4, a5, a6>>
           S == {a1, a2, a3, a4, a5, a6}
<1>1. q \in Seq(S) /\ r \in Seq(S)
  OBVIOUS
<1>2. Len(q) = 6 /\ Len(r) = 6
  OBVIOUS
<1>3. q[1] = r[1] /\ q[2] = r[2] /\ q[3] = r[3] /\ q[4] = r[4] /\ q[5] = r[5] /\ q[6] = r[6]
  OBVIOUS
<1> HIDE DEF q, r, S
<1>4. 6 \in 1..6 /\ IsSeq(q) /\ IsSeq(r)
  BY <1>1 DEF IsSeq
<1>5. q = r
  BY <1>2, <1>3, <1>4, SameTuple
<1> QED BY <1>5 DEF q, r

\* Two fields of the header are changed by two loads and two stores.
AddC(c, f, n, g, m) == StoreC(LoadC(StoreC(LoadC(c, f), f, n), g), g, m)

\* The four statements run, and make AddC.
LEMMA AddRuns ==
    ASSUME NEW c, NEW f, NEW n, NEW g, NEW m
    PROVE  Runs(<< <<"load", f>>, <<"store", f, n>>,
                   <<"load", g>>, <<"store", g, m>> >>, c, AddC(c, f, n, g, m))
<1> DEFINE a1 == <<"load", f>>
           a2 == <<"store", f, n>>
           a3 == <<"load", g>>
           a4 == <<"store", g, m>>
           c1 == LoadC(c, f)
           c2 == StoreC(c1, f, n)
           c3 == LoadC(c2, g)
           c4 == StoreC(c3, g, m)
<1>2. \A e : Ok(a1, e) /\ Ok(a2, e) /\ Ok(a3, e) /\ Ok(a4, e)
  BY DEF Ok
<1>3. \A e : /\ Exec(a1, e) = LoadC(e, f) /\ Exec(a2, e) = StoreC(e, f, n)
             /\ Exec(a3, e) = LoadC(e, g) /\ Exec(a4, e) = StoreC(e, g, m)
  BY DEF Exec
<1> HIDE DEF a1, a2, a3, a4
<1>4. Runs(<<a1>>, c, c1)
  BY <1>2, <1>3, RunsOne
<1>5. Runs(<<a2>>, c1, c2)
  BY <1>2, <1>3, RunsOne
<1>6. Runs(<<a3>>, c2, c3)
  BY <1>2, <1>3, RunsOne
<1>7. Runs(<<a4>>, c3, c4)
  BY <1>2, <1>3, RunsOne
<1>8. c4 = AddC(c, f, n, g, m)
  BY DEF AddC
<1> HIDE DEF c1, c2, c3, c4
<1>9. Runs(<<a1>> \o <<a2>>, c, c2)
  BY <1>4, <1>5, RunsConcat
<1>10. Runs((<<a1>> \o <<a2>>) \o <<a3>>, c, c3)
  BY <1>6, <1>9, RunsConcat
<1>11. Runs(((<<a1>> \o <<a2>>) \o <<a3>>) \o <<a4>>, c, c4)
  BY <1>7, <1>10, RunsConcat
<1>12. ((<<a1>> \o <<a2>>) \o <<a3>>) \o <<a4>> = <<a1, a2, a3, a4>>
  <2>1. <<a1>> \o <<a2>> = <<a1, a2>>
    BY Tuple2
  <2>2. <<a1, a2>> \o <<a3>> = <<a1, a2, a3>>
    BY Tuple3
  <2>3. <<a1, a2, a3>> \o <<a4>> = <<a1, a2, a3, a4>>
    BY Tuple4
  <2> QED BY Zenon, <2>1, <2>2, <2>3
<1>13. Runs(<<a1, a2, a3, a4>>, c, c4)
  BY <1>11, <1>12
<1> QED BY <1>8, <1>13 DEF a1, a2, a3, a4

\* They are no part of an access.
LEMMA AddPhase ==
    ASSUME NEW c, NEW f, NEW n, NEW g, NEW m
    PROVE  AddC(c, f, n, g, m).phase = c.phase
<1>1. \A e, x : LoadC(e, x).phase = e.phase
  BY DEF LoadC
<1>2. \A e, x, y : StoreC(e, x, y).phase = e.phase
  BY DEF StoreC
<1> QED BY <1>1, <1>2 DEF AddC

\* A sync is one statement, and it never fails.
LEMMA SyncRuns ==
    ASSUME NEW c, c.phase = "none"
    PROVE  /\ Runs(sect_head_sync_Steps, c, AtC(SyncStep, c))
           /\ AtC(SyncStep, c) = Accessed(SyncStep, c)
           /\ Place(SyncStep, c) = 0
<1>1. SyncStep[1] = "at" /\ SyncStep[2] = "sect"
      /\ SyncStep[3] = "fwrite" /\ SyncStep[4] = "head"
  BY DEF SyncStep
<1>2. Size(c, "head") = HEAD_SIZE /\ Dest(c.head, c, "sect") = 0
  BY DEF Size, Dest
<1>3. Place(SyncStep, c) = 0 /\ ~Skips(SyncStep, c) /\ ~Misses(SyncStep, c)
  BY <1>1, <1>2, SizeAssumption DEF Place, Skips, Misses
<1>4. AtOk(SyncStep, c) /\ AtC(SyncStep, c) = Accessed(SyncStep, c)
  BY <1>1, <1>3 DEF AtOk, AtC
<1>5. Ok(SyncStep, c) /\ Exec(SyncStep, c) = AtC(SyncStep, c)
  BY <1>1, <1>4 DEF Ok, Exec
<1>6. sect_head_sync_Steps = <<SyncStep>>
  BY DEF sect_head_sync_Steps, SyncStep
<1> QED BY <1>1, <1>3, <1>4, <1>5, <1>6, RunsOne

\* A shift of a border, with the sync at its end.
LEMMA ShiftRuns ==
    ASSUME NEW c, c.phase = "none", NEW ptr, NEW free, NEW by
    PROVE  Runs(Shift(ptr, free, by), c, ShiftC(c, ptr, free, by))
<1> DEFINE e == AddC(c, "free_space", free, ptr, by)
<1>1. e.phase = "none"
  BY AddPhase
<1>2. Runs(<< <<"load", "free_space">>, <<"store", "free_space", free>>,
              <<"load", ptr>>, <<"store", ptr, by>> >>, c, e)
  BY AddRuns
<1>3. ShiftC(c, ptr, free, by) = AtC(SyncStep, e)
  BY DEF ShiftC, AddC
<1> HIDE DEF e
<1>4. Runs(sect_head_sync_Steps, e, AtC(SyncStep, e))
  BY <1>1, SyncRuns
<1> QED BY <1>2, <1>3, <1>4, RunsConcat DEF Shift

\* sect_ext_delete at the border: its shifts, or nothing.
LEMMA BorderKeeps ==
    ASSUME NEW t \in DOMAIN th, NEW d, Going(head, pos, disk, th[t], d),
           Border(t)
    PROVE  Keeps(t, d)
<1> DEFINE l  == th[t]
           st == Head(l.todo)
           tl == Tail(l.todo)
           c  == Conf(head, pos, disk, l)
           n  == entity_rec_sz(l.ent)
           up == sect_head_shift_lip_Steps(-ITM_SIZE) \o sect_head_shift_frp_Steps(n)
           more == IF l.soff + ITM_SIZE = head.lst_itm_ptr THEN up ELSE <<>>
           l2 == [l EXCEPT !.todo = more \o tl]
<1>1. /\ l.todo # <<>> /\ st[1] = "border"
      /\ head' = head /\ disk' = disk /\ pos' = pos
      /\ th' = [th EXCEPT ![t] = l2]
  BY DEF Border, Doing, Goes, shared
<1>2. IsLocals(l)
  BY DEF Going
<1>3. Ok(st, c) /\ Runs(tl, Exec(st, c), d)
  BY <1>1, RunsFirst DEF Going
<1>4. /\ Between(c) /\ Exec(st, c) = BorderC(c)
      /\ c.soff = l.soff /\ c.head = head /\ c.ent = l.ent
  <2>1. c.soff = l.soff /\ c.head = head /\ c.ent = l.ent
    BY DEF Conf
  <2> HIDE DEF c, st
  <2> QED BY <1>1, <1>3, <2>1 DEF Ok, Exec
<1>5. IsLocals(l2) /\ l2.todo = more \o tl /\ l2.call = l.call
  <2> HIDE DEF more, tl
  <2> QED BY <1>2 DEF IsLocals
<1>6. Conf(head, pos, disk, l2) = c
  <2> HIDE DEF more, tl
  <2> QED BY <1>2 DEF IsLocals, Conf
<1> HIDE DEF c, n, st, tl
<1>7. Runs(more, c, BorderC(c))
  <2>1. CASE l.soff + ITM_SIZE = head.lst_itm_ptr
    <3> DEFINE e == ShiftC(c, "lst_itm_ptr", -(-ITM_SIZE), -ITM_SIZE)
    <3>2. Runs(sect_head_shift_lip_Steps(-ITM_SIZE), c, e)
      BY <1>4, ShiftRuns DEF Between, sect_head_shift_lip_Steps
    <3>3. e.phase = "none"
      <4> DEFINE b == AddC(c, "free_space", -(-ITM_SIZE), "lst_itm_ptr", -ITM_SIZE)
      <4>1. b.phase = c.phase /\ e = AtC(SyncStep, b)
        BY AddPhase DEF AddC, ShiftC
      <4> HIDE DEF b
      <4>2. AtC(SyncStep, b) = Accessed(SyncStep, b)
        BY <1>4, <4>1, SyncRuns DEF Between
      <4> QED BY <4>1, <4>2 DEF Accessed
    <3> HIDE DEF e
    <3>4. Runs(sect_head_shift_frp_Steps(n), e, ShiftC(e, "fst_rec_ptr", n, n))
      BY <1>4, <3>3, ShiftRuns DEF sect_head_shift_frp_Steps
    <3>5. BorderC(c) = ShiftC(e, "fst_rec_ptr", n, n)
      BY <1>4, <2>1 DEF BorderC, e, n
    <3> QED BY <2>1, <3>2, <3>4, <3>5, RunsConcat
  <2>2. CASE l.soff + ITM_SIZE # head.lst_itm_ptr
    <3>1. BorderC(c) = c
      BY <1>4, <2>2 DEF BorderC
    <3> QED BY <2>2, <3>1, RunsNil
  <2> QED BY <2>1, <2>2
<1> HIDE DEF more
<1>8. Runs(more \o tl, c, d)
  BY <1>3, <1>4, <1>7, RunsConcat
<1> HIDE DEF l2
<1>9. Going(head, pos, disk, l2, d)
  BY <1>5, <1>6, <1>8 DEF Going
<1> QED BY <1>1, <1>5, <1>9 DEF Keeps

\* The header of c is h, and no register is in use.
WithHead(c, h) ==
    [head |-> h, disk |-> c.disk, reg |-> 0, phase |-> c.phase,
     dest |-> c.dest, soff |-> c.soff, buf |-> c.buf, ent |-> c.ent,
     key |-> c.key, val |-> c.val]

\* A header, and a store to each of its fields.
LEMMA HeadStores ==
    ASSUME NEW fs, NEW lip, NEW frp, NEW x
    PROVE  /\ Head3(fs, lip, frp)["free_space"] = fs
           /\ Head3(fs, lip, frp)["lst_itm_ptr"] = lip
           /\ Head3(fs, lip, frp)["fst_rec_ptr"] = frp
           /\ [Head3(fs, lip, frp) EXCEPT !["free_space"] = x] = Head3(x, lip, frp)
           /\ [Head3(fs, lip, frp) EXCEPT !["lst_itm_ptr"] = x] = Head3(fs, x, frp)
           /\ [Head3(fs, lip, frp) EXCEPT !["fst_rec_ptr"] = x] = Head3(fs, lip, x)
<1>1. [Head3(fs, lip, frp) EXCEPT !["free_space"] = x] = Head3(x, lip, frp)
  BY DEF Head3
<1>2. [Head3(fs, lip, frp) EXCEPT !["lst_itm_ptr"] = x] = Head3(fs, x, frp)
  BY DEF Head3
<1>3. [Head3(fs, lip, frp) EXCEPT !["fst_rec_ptr"] = x] = Head3(fs, lip, x)
  BY DEF Head3
<1> QED BY <1>1, <1>2, <1>3 DEF Head3

\* A load and a store change one field.
LEMMA AddOne ==
    ASSUME NEW c, NEW f, NEW k, NEW x, x = (c.head[f] + k) % WORD
    PROVE  StoreC(LoadC(c, f), f, k) = WithHead(c, [c.head EXCEPT ![f] = x])
<1> DEFINE e == LoadC(c, f)
<1>1. /\ e.head = c.head /\ e.disk = c.disk /\ e.reg = c.head[f]
      /\ e.phase = c.phase /\ e.dest = c.dest /\ e.soff = c.soff
      /\ e.buf = c.buf /\ e.ent = c.ent /\ e.key = c.key /\ e.val = c.val
  BY DEF LoadC
<1> HIDE DEF e
<1>2. StoreC(e, f, k) = WithHead(c, [c.head EXCEPT ![f] = x])
  BY <1>1 DEF StoreC, WithHead
<1> QED BY <1>2 DEF e

\* Each field in turn.
LEMMA AddField ==
    ASSUME NEW c, NEW fs, NEW lip, NEW frp, c.head = Head3(fs, lip, frp),
           NEW k, NEW x
    PROVE  /\ x = (fs + k) % WORD => StoreC(LoadC(c, "free_space"), "free_space", k)
                                      = WithHead(c, Head3(x, lip, frp))
           /\ x = (lip + k) % WORD => StoreC(LoadC(c, "lst_itm_ptr"), "lst_itm_ptr", k)
                                      = WithHead(c, Head3(fs, x, frp))
           /\ x = (frp + k) % WORD => StoreC(LoadC(c, "fst_rec_ptr"), "fst_rec_ptr", k)
                                      = WithHead(c, Head3(fs, lip, x))
<1>1. ASSUME x = (fs + k) % WORD
      PROVE  StoreC(LoadC(c, "free_space"), "free_space", k) = WithHead(c, Head3(x, lip, frp))
  <2>1. c.head["free_space"] = fs /\ [c.head EXCEPT !["free_space"] = x] = Head3(x, lip, frp)
    BY HeadStores
  <2>2. x = (c.head["free_space"] + k) % WORD
    BY <1>1, <2>1
  <2>3. StoreC(LoadC(c, "free_space"), "free_space", k)
          = WithHead(c, [c.head EXCEPT !["free_space"] = x])
    BY <2>2, AddOne
  <2> QED BY <2>1, <2>3
<1>2. ASSUME x = (lip + k) % WORD
      PROVE  StoreC(LoadC(c, "lst_itm_ptr"), "lst_itm_ptr", k) = WithHead(c, Head3(fs, x, frp))
  <2>1. c.head["lst_itm_ptr"] = lip /\ [c.head EXCEPT !["lst_itm_ptr"] = x] = Head3(fs, x, frp)
    BY HeadStores
  <2>2. x = (c.head["lst_itm_ptr"] + k) % WORD
    BY <1>2, <2>1
  <2>3. StoreC(LoadC(c, "lst_itm_ptr"), "lst_itm_ptr", k)
          = WithHead(c, [c.head EXCEPT !["lst_itm_ptr"] = x])
    BY <2>2, AddOne
  <2> QED BY <2>1, <2>3
<1>3. ASSUME x = (frp + k) % WORD
      PROVE  StoreC(LoadC(c, "fst_rec_ptr"), "fst_rec_ptr", k) = WithHead(c, Head3(fs, lip, x))
  <2>1. c.head["fst_rec_ptr"] = frp /\ [c.head EXCEPT !["fst_rec_ptr"] = x] = Head3(fs, lip, x)
    BY HeadStores
  <2>2. x = (c.head["fst_rec_ptr"] + k) % WORD
    BY <1>3, <2>1
  <2>3. StoreC(LoadC(c, "fst_rec_ptr"), "fst_rec_ptr", k)
          = WithHead(c, [c.head EXCEPT !["fst_rec_ptr"] = x])
    BY <2>2, AddOne
  <2> QED BY <2>1, <2>3
<1> QED BY <1>1, <1>2, <1>3

\* Two loads and two stores change a border and free_space.
LEMMA AddOp ==
    ASSUME NEW c, NEW fs, NEW lip, NEW frp, c.head = Head3(fs, lip, frp),
           NEW n, NEW m
    PROVE  /\ AddC(c, "lst_itm_ptr", n, "free_space", m)
                = WithHead(c, Head3((fs + m) % WORD, (lip + n) % WORD, frp))
           /\ AddC(c, "free_space", m, "lst_itm_ptr", n)
                = WithHead(c, Head3((fs + m) % WORD, (lip + n) % WORD, frp))
           /\ AddC(c, "fst_rec_ptr", n, "free_space", m)
                = WithHead(c, Head3((fs + m) % WORD, lip, (frp + n) % WORD))
           /\ AddC(c, "free_space", m, "fst_rec_ptr", n)
                = WithHead(c, Head3((fs + m) % WORD, lip, (frp + n) % WORD))
<1> DEFINE x == (fs + m) % WORD
           y == (lip + n) % WORD
           z == (frp + n) % WORD
<1>1. \A h, g : WithHead(c, h).head = h /\ WithHead(WithHead(c, h), g) = WithHead(c, g)
  BY DEF WithHead
<1>2. x = (fs + m) % WORD /\ y = (lip + n) % WORD /\ z = (frp + n) % WORD
  OBVIOUS
<1> HIDE DEF x, y, z
<1>3. AddC(c, "lst_itm_ptr", n, "free_space", m) = WithHead(c, Head3(x, y, frp))
  <2> DEFINE e == WithHead(c, Head3(fs, y, frp))
  <2>1. StoreC(LoadC(c, "lst_itm_ptr"), "lst_itm_ptr", n) = e
    BY <1>2, AddField
  <2>2. e.head = Head3(fs, y, frp) /\ \A g : WithHead(e, g) = WithHead(c, g)
    BY <1>1
  <2> HIDE DEF e
  <2>3. StoreC(LoadC(e, "free_space"), "free_space", m) = WithHead(e, Head3(x, y, frp))
    BY <1>2, <2>2, AddField
  <2> QED BY <2>1, <2>2, <2>3 DEF AddC
<1>4. AddC(c, "free_space", m, "lst_itm_ptr", n) = WithHead(c, Head3(x, y, frp))
  <2> DEFINE e == WithHead(c, Head3(x, lip, frp))
  <2>1. StoreC(LoadC(c, "free_space"), "free_space", m) = e
    BY <1>2, AddField
  <2>2. e.head = Head3(x, lip, frp) /\ \A g : WithHead(e, g) = WithHead(c, g)
    BY <1>1
  <2> HIDE DEF e
  <2>3. StoreC(LoadC(e, "lst_itm_ptr"), "lst_itm_ptr", n) = WithHead(e, Head3(x, y, frp))
    BY <1>2, <2>2, AddField
  <2> QED BY <2>1, <2>2, <2>3 DEF AddC
<1>5. AddC(c, "fst_rec_ptr", n, "free_space", m) = WithHead(c, Head3(x, lip, z))
  <2> DEFINE e == WithHead(c, Head3(fs, lip, z))
  <2>1. StoreC(LoadC(c, "fst_rec_ptr"), "fst_rec_ptr", n) = e
    BY <1>2, AddField
  <2>2. e.head = Head3(fs, lip, z) /\ \A g : WithHead(e, g) = WithHead(c, g)
    BY <1>1
  <2> HIDE DEF e
  <2>3. StoreC(LoadC(e, "free_space"), "free_space", m) = WithHead(e, Head3(x, lip, z))
    BY <1>2, <2>2, AddField
  <2> QED BY <2>1, <2>2, <2>3 DEF AddC
<1>6. AddC(c, "free_space", m, "fst_rec_ptr", n) = WithHead(c, Head3(x, lip, z))
  <2> DEFINE e == WithHead(c, Head3(x, lip, frp))
  <2>1. StoreC(LoadC(c, "free_space"), "free_space", m) = e
    BY <1>2, AddField
  <2>2. e.head = Head3(x, lip, frp) /\ \A g : WithHead(e, g) = WithHead(c, g)
    BY <1>1
  <2> HIDE DEF e
  <2>3. StoreC(LoadC(e, "fst_rec_ptr"), "fst_rec_ptr", n) = WithHead(e, Head3(x, lip, z))
    BY <1>2, <2>2, AddField
  <2> QED BY <2>1, <2>2, <2>3 DEF AddC
<1> QED BY <1>2, <1>3, <1>4, <1>5, <1>6

\* A number that fits into a field is not changed by storing it.
LEMMA Fits == ASSUME NEW x \in Int, 0 <= x, x <= SECTION_SIZE PROVE x % WORD = x
BY SizeAssumption, CellAssumption DEF WORD

\* The reads that the tests of the two compressing loops look at.
SlotStep == <<"at", "lip_itm", "fread", "slot">>
ChrStep == <<"at", "frp", "fread", "chr">>

\* The states c and e differ in the buffer only.
OnlyBuf(c, e) ==
    /\ e.head = c.head /\ e.disk = c.disk /\ e.reg = c.reg
    /\ e.phase = c.phase /\ e.dest = c.dest /\ e.soff = c.soff
    /\ e.ent = c.ent /\ e.key = c.key /\ e.val = c.val

\* A coherent header, as numbers.
LEMMA CoherentNums ==
    ASSUME NEW h, Coherent(h)
    PROVE  /\ h.lst_itm_ptr \in Slots /\ h.lst_itm_ptr \in Nat
           /\ HEAD_SIZE <= h.lst_itm_ptr /\ h.lst_itm_ptr <= h.fst_rec_ptr
           /\ h.fst_rec_ptr \in Nat /\ h.fst_rec_ptr <= SECTION_SIZE
           /\ h.free_space = h.fst_rec_ptr - h.lst_itm_ptr
           /\ h.lst_itm_ptr # HEAD_SIZE => HEAD_SIZE + ITM_SIZE <= h.lst_itm_ptr
<1>1. h.lst_itm_ptr \in Slots /\ h.fst_rec_ptr \in Nat
      /\ h.lst_itm_ptr <= h.fst_rec_ptr /\ h.fst_rec_ptr <= SECTION_SIZE
  BY DEF Coherent
<1>2. h.lst_itm_ptr \in Nat /\ HEAD_SIZE <= h.lst_itm_ptr
  BY <1>1, SizeAssumption DEF Slots
<1>3. h.free_space = h.fst_rec_ptr - h.lst_itm_ptr
  BY DEF Coherent, Head3
<1>4. h.lst_itm_ptr # HEAD_SIZE => HEAD_SIZE + ITM_SIZE <= h.lst_itm_ptr
  BY <1>1, <1>2, SlotFirst, SlotSpacing, SizeAssumption
<1> QED BY <1>1, <1>2, <1>3, <1>4

\* The read before a test of sect_head_cmprs_lip changes the buffer only.
LEMMA SlotRead ==
    ASSUME NEW c, Coherent(c.head), Between(c)
    PROVE  /\ Ok(SlotStep, c) /\ LipOk(Exec(SlotStep, c))
           /\ OnlyBuf(c, Exec(SlotStep, c))
<1> DEFINE st  == SlotStep
           lip == c.head.lst_itm_ptr
           e   == AtC(st, c)
<1>1. st[1] = "at" /\ st[2] = "lip_itm" /\ st[3] = "fread" /\ st[4] = "slot"
  BY DEF SlotStep
<1>2. Size(c, "slot") = ITM_SIZE /\ Dest(c.head, c, "lip_itm") = lip - ITM_SIZE
  BY DEF Size, Dest
<1>3. c.phase = "none" /\ c.dest = 0
  BY DEF Between
<1>4. /\ lip \in Nat /\ lip <= SECTION_SIZE /\ SECTION_SIZE \in Nat
      /\ HEAD_SIZE = 3 /\ ITM_SIZE = 6
      /\ lip # HEAD_SIZE => HEAD_SIZE + ITM_SIZE <= lip
  BY CoherentNums, SizeAssumption, CellAssumption
<1> HIDE DEF st, lip
<1>5. Ok(st, c) /\ Exec(st, c) = e
  BY <1>1, <1>3 DEF Ok, AtOk, Exec
<1>6. ~Skips(st, c) /\ Place(st, c) = lip - ITM_SIZE
  BY <1>1, <1>2, <1>3, <1>4 DEF Skips, Place
<1>7. Misses(st, c) <=> lip = HEAD_SIZE
  <2>1. Misses(st, c) <=> \/ ~(lip - ITM_SIZE >= 0)
                          \/ (lip - ITM_SIZE) + ITM_SIZE > SECTION_SIZE
    BY <1>1, <1>2, <1>6 DEF Misses
  <2> QED BY <1>4, <2>1
<1>8. CASE lip = HEAD_SIZE
  <2>1. e = Over(c)
    BY <1>3, <1>6, <1>7, <1>8 DEF AtC
  <2>2. OnlyBuf(c, e)
    BY <1>3, <2>1 DEF Over, OnlyBuf
  <2>3. LipOk(e)
    BY <1>8, <2>2 DEF OnlyBuf, LipOk, Between, lip
  <2> QED BY <1>5, <2>2, <2>3 DEF st
<1>9. CASE lip # HEAD_SIZE
  <2>1. e = Accessed(st, c)
    BY <1>3, <1>6, <1>7, <1>9 DEF AtC
  <2>2. OnlyBuf(c, e) /\ e.buf = Get(c.disk, lip - ITM_SIZE, ITM_SIZE)
    BY <1>1, <1>2, <1>3, <1>6, <2>1 DEF Accessed, OnlyBuf
  <2>3. LipOk(e)
    BY <2>2 DEF OnlyBuf, LipOk, Between, lip
  <2> QED BY <1>5, <2>2, <2>3 DEF st
<1> QED BY <1>8, <1>9

\* The read before a test of sect_head_cmprs_frp changes the buffer only.
LEMMA ChrRead ==
    ASSUME NEW c, Coherent(c.head), Between(c)
    PROVE  /\ Ok(ChrStep, c) /\ FrpOk(Exec(ChrStep, c))
           /\ OnlyBuf(c, Exec(ChrStep, c))
<1> DEFINE st  == ChrStep
           frp == c.head.fst_rec_ptr
           e   == AtC(st, c)
<1>1. st[1] = "at" /\ st[2] = "frp" /\ st[3] = "fread" /\ st[4] = "chr"
  BY DEF ChrStep
<1>2. Size(c, "chr") = 1 /\ Dest(c.head, c, "frp") = frp
  BY DEF Size, Dest
<1>3. c.phase = "none" /\ c.dest = 0
  BY DEF Between
<1>4. frp \in Nat /\ frp <= SECTION_SIZE /\ SECTION_SIZE \in Nat
  BY CoherentNums, SizeAssumption
<1> HIDE DEF st, frp
<1>5. Ok(st, c) /\ Exec(st, c) = e
  BY <1>1, <1>3 DEF Ok, AtOk, Exec
<1>6. ~Skips(st, c) /\ Place(st, c) = frp
  BY <1>1, <1>2, <1>3, <1>4 DEF Skips, Place
<1>7. Misses(st, c) <=> frp = SECTION_SIZE
  <2>1. Misses(st, c) <=> ~(frp >= 0) \/ frp + 1 > SECTION_SIZE
    BY <1>1, <1>2, <1>6 DEF Misses
  <2> QED BY <1>4, <2>1
<1>8. CASE frp = SECTION_SIZE
  <2>1. e = Over(c)
    BY <1>3, <1>6, <1>7, <1>8 DEF AtC
  <2>2. OnlyBuf(c, e)
    BY <1>3, <2>1 DEF Over, OnlyBuf
  <2>3. FrpOk(e)
    BY <1>8, <2>2 DEF OnlyBuf, FrpOk, Between, frp
  <2> QED BY <1>5, <2>2, <2>3 DEF st
<1>9. CASE frp # SECTION_SIZE
  <2>1. e = Accessed(st, c)
    BY <1>3, <1>6, <1>7, <1>9 DEF AtC
  <2>2. OnlyBuf(c, e) /\ e.buf = Get(c.disk, frp, 1)
    BY <1>1, <1>2, <1>3, <1>6, <2>1 DEF Accessed, OnlyBuf
  <2>3. FrpOk(e)
    BY <2>2 DEF OnlyBuf, FrpOk, Between, frp
  <2> QED BY <1>5, <2>2, <2>3 DEF st
<1> QED BY <1>8, <1>9

\* The slot before a slot.
LEMMA SlotPrev ==
    ASSUME NEW o \in Slots, o # HEAD_SIZE
    PROVE  o - ITM_SIZE \in Slots
<1>1. PICK k \in 0..SECTION_SIZE : o = HEAD_SIZE + k * ITM_SIZE
  BY DEF Slots
<1>2. k # 0
  BY <1>1, SizeAssumption
<1>3. k - 1 \in 0..SECTION_SIZE /\ o - ITM_SIZE = HEAD_SIZE + (k - 1) * ITM_SIZE
  BY <1>1, <1>2, CellAssumption, SizeAssumption
<1>4. o - ITM_SIZE \in HEAD_SIZE..SECTION_SIZE
  BY <1>2, <1>3, CellAssumption, SizeAssumption DEF Slots
<1> QED BY <1>3, <1>4 DEF Slots

\* A header from two borders.
HeadAt(lip, frp) == Head3(frp - lip, lip, frp)

\* Borders that do not cross make a coherent header.
LEMMA CoherentAt ==
    ASSUME NEW lip \in Slots, NEW frp \in Nat, lip <= frp, frp <= SECTION_SIZE
    PROVE  /\ Coherent(HeadAt(lip, frp))
           /\ HeadAt(lip, frp).lst_itm_ptr = lip
           /\ HeadAt(lip, frp).fst_rec_ptr = frp
           /\ HeadAt(lip, frp).free_space = frp - lip
BY DEF Coherent, HeadAt, Head3

\* One round of sect_head_cmprs_lip leaves the outcome of the loop as it is.
LEMMA LipTurn ==
    ASSUME NEW c, LipOk(c), c.head.lst_itm_ptr # HEAD_SIZE,
           c.buf = Zeros(ITM_SIZE), NEW a,
           a = AddC(c, "lst_itm_ptr", -ITM_SIZE, "free_space", ITM_SIZE)
    PROVE  /\ Ok(SlotStep, a) /\ LipOk(Exec(SlotStep, a))
           /\ LipC(Exec(SlotStep, a)) = LipC(c)
<1> DEFINE lip == c.head.lst_itm_ptr
           frp == c.head.fst_rec_ptr
           low == lip - ITM_SIZE
           e   == Exec(SlotStep, a)
<1>1. /\ lip \in Slots /\ lip \in Nat /\ lip <= frp /\ HEAD_SIZE + ITM_SIZE <= lip
      /\ frp \in Nat /\ frp <= SECTION_SIZE /\ c.head = HeadAt(lip, frp)
      /\ Between(c) /\ SECTION_SIZE \in Nat /\ HEAD_SIZE = 3 /\ ITM_SIZE = 6
  BY CoherentNums, SizeAssumption, CellAssumption DEF LipOk, Coherent, HeadAt
<1>2. low \in Slots
  BY <1>1, SlotPrev
<1>3. a = WithHead(c, HeadAt(low, frp))
  <2>1. /\ (frp - lip) + ITM_SIZE = frp - low /\ lip + (-ITM_SIZE) = low
        /\ 0 <= low /\ low <= SECTION_SIZE /\ low \in Int
        /\ 0 <= frp - low /\ frp - low <= SECTION_SIZE /\ frp - low \in Int
    BY <1>1
  <2>2. (frp - low) % WORD = frp - low /\ low % WORD = low
    BY <2>1, Fits
  <2>3. a = WithHead(c, Head3(((frp - lip) + ITM_SIZE) % WORD,
                              (lip + (-ITM_SIZE)) % WORD, frp))
    BY <1>1, AddOp DEF HeadAt
  <2> QED BY <2>1, <2>2, <2>3 DEF HeadAt
<1> HIDE DEF low
<1>4. /\ a.head = HeadAt(low, frp) /\ a.disk = c.disk /\ Between(a)
      /\ a.soff = c.soff /\ a.ent = c.ent /\ a.key = c.key /\ a.val = c.val
  BY <1>1, <1>3 DEF WithHead, Between
<1>5. low <= frp /\ low = lip - ITM_SIZE
  BY <1>1 DEF low
<1>6. /\ Coherent(a.head) /\ a.head.lst_itm_ptr = low
      /\ a.head.fst_rec_ptr = frp /\ a.head.free_space = frp - low
  BY <1>1, <1>2, <1>4, <1>5, CoherentAt
<1>7. Ok(SlotStep, a) /\ LipOk(e) /\ OnlyBuf(a, e)
  BY <1>4, <1>6, SlotRead
<1> HIDE DEF e
<1>8. LipStops(e) = LipStops(c)
  <2> DEFINE full(x) == Get(c.disk, x - ITM_SIZE, ITM_SIZE) # Zeros(ITM_SIZE)
  <2>1. ~full(lip) /\ lip # HEAD_SIZE
    BY DEF LipOk
  <2>2. e.disk = c.disk /\ e.head.lst_itm_ptr = low
    BY <1>4, <1>6, <1>7 DEF OnlyBuf
  <2>3. /\ LipStops(e) = {x \in Slots : x <= low /\ (x = HEAD_SIZE \/ full(x))}
        /\ LipStops(c) = {x \in Slots : x <= lip /\ (x = HEAD_SIZE \/ full(x))}
    BY <2>2 DEF LipStops
  <2> HIDE DEF full
  <2>4. ASSUME NEW x \in Slots, x # lip PROVE x <= low <=> x <= lip
    <3>1. x \in Nat /\ (x < lip => x + ITM_SIZE <= lip)
      BY <1>1, SlotSpacing, SizeAssumption DEF Slots
    <3> QED BY <1>1, <1>5, <2>4, <3>1
  <2>5. ~(lip <= low)
    BY <1>1, <1>5
  <2> HIDE DEF lip
  <2> QED BY <2>1, <2>3, <2>4, <2>5
<1>9. ASSUME NEW m \in Int PROVE LipHead(e.head, m) = LipHead(c.head, m)
  <2>1. e.head = HeadAt(low, frp)
    BY <1>4, <1>7 DEF OnlyBuf
  <2>2. LipHead(e.head, m) = Head3((frp - low) + (low - m), m, frp)
    BY <1>4, <1>6, <2>1 DEF LipHead
  <2>3. LipHead(c.head, m) = Head3((frp - lip) + (lip - m), m, frp)
    BY <1>1, CoherentNums DEF LipHead, LipOk
  <2>4. (frp - low) + (low - m) = (frp - lip) + (lip - m)
    BY <1>1, <1>5
  <2> QED BY <2>2, <2>3, <2>4
<1>10. Max(LipStops(c)) \in Int
  <2> DEFINE S == LipStops(c)
  <2>1. S \subseteq 0..SECTION_SIZE
    BY SizeAssumption DEF LipStops, Slots
  <2>2. HEAD_SIZE \in S
    BY <1>1, SlotFirst DEF LipStops
  <2> HIDE DEF S
  <2>3. Max(S) \in S
    BY <2>1, <2>2, MaxOfNat, SizeAssumption
  <2> QED BY <2>1, <2>3 DEF S
<1>11. \A h : Closed(e, h) = Closed(c, h)
  <2>1. /\ e.disk = c.disk /\ e.reg = c.reg /\ e.phase = c.phase
        /\ e.dest = c.dest /\ e.soff = c.soff /\ e.ent = c.ent
        /\ e.key = c.key /\ e.val = c.val
    BY <1>1, <1>4, <1>7 DEF OnlyBuf, Between
  <2> QED BY <2>1 DEF Closed
<1>12. LipC(e) = LipC(c)
  BY <1>8, <1>9, <1>10, <1>11 DEF LipC
<1> QED BY <1>7, <1>12 DEF e

\* sect_head_cmprs_lip stops where it is.
LEMMA LipEnd ==
    ASSUME NEW c, LipOk(c),
           c.head.lst_itm_ptr = HEAD_SIZE \/ c.buf # Zeros(ITM_SIZE)
    PROVE  LipC(c) = Closed(c, c.head)
<1> DEFINE lip == c.head.lst_itm_ptr
           frp == c.head.fst_rec_ptr
           S   == LipStops(c)
<1>1. /\ lip \in Slots /\ lip \in Nat /\ frp \in Nat
      /\ c.head = Head3(frp - lip, lip, frp)
      /\ c.head.free_space = frp - lip
  BY CoherentNums DEF LipOk, Coherent
<1>2. lip \in S
  BY <1>1 DEF LipStops, LipOk
<1>3. S \subseteq 0..SECTION_SIZE /\ \A x \in S : x <= lip
  BY SizeAssumption DEF LipStops, Slots
<1> HIDE DEF S
<1>4. Max(S) \in S /\ \A x \in S : Max(S) >= x
  BY <1>2, <1>3, MaxOfNat, SizeAssumption
<1>5. Max(S) = lip
  <2> DEFINE m == Max(S)
  <2>1. m \in S /\ m >= lip
    BY <1>2, <1>4
  <2> HIDE DEF m, lip
  <2>2. m \in Nat /\ m <= lip
    BY <1>3, <2>1, SizeAssumption
  <2>3. m = lip
    BY <1>1, <2>1, <2>2
  <2> QED BY <2>3 DEF m
<1>6. (frp - lip) + (lip - lip) = frp - lip
  BY <1>1
<1>7. LipHead(c.head, lip) = c.head
  BY <1>1, <1>6 DEF LipHead
<1> QED BY <1>5, <1>7 DEF LipC, S

\* One round of sect_head_cmprs_frp leaves the outcome of the loop as it is.
LEMMA FrpTurn ==
    ASSUME NEW c, FrpOk(c), c.head.fst_rec_ptr # SECTION_SIZE,
           c.buf = Zeros(1), NEW a,
           a = AddC(c, "fst_rec_ptr", 1, "free_space", 1)
    PROVE  /\ Ok(ChrStep, a) /\ FrpOk(Exec(ChrStep, a))
           /\ FrpC(Exec(ChrStep, a)) = FrpC(c)
<1> DEFINE lip == c.head.lst_itm_ptr
           frp == c.head.fst_rec_ptr
           top == frp + 1
           e   == Exec(ChrStep, a)
<1>1. /\ lip \in Slots /\ lip \in Nat /\ lip <= frp /\ HEAD_SIZE <= lip
      /\ frp \in Nat /\ frp < SECTION_SIZE /\ c.head = HeadAt(lip, frp)
      /\ Between(c) /\ SECTION_SIZE \in Nat /\ HEAD_SIZE = 3
  BY CoherentNums, SizeAssumption, CellAssumption DEF FrpOk, Coherent, HeadAt
<1>2. a = WithHead(c, HeadAt(lip, top))
  <2>1. /\ (frp - lip) + 1 = top - lip
        /\ 0 <= top /\ top <= SECTION_SIZE /\ top \in Int
        /\ 0 <= top - lip /\ top - lip <= SECTION_SIZE /\ top - lip \in Int
    BY <1>1
  <2>2. (top - lip) % WORD = top - lip /\ top % WORD = top
    BY <2>1, Fits
  <2>3. a = WithHead(c, Head3(((frp - lip) + 1) % WORD, lip, (frp + 1) % WORD))
    BY <1>1, AddOp DEF HeadAt
  <2> QED BY <2>1, <2>2, <2>3 DEF HeadAt
<1>3. top \in Nat /\ lip <= top /\ top <= SECTION_SIZE /\ top = frp + 1
  BY <1>1
<1> HIDE DEF top
<1>4. /\ a.head = HeadAt(lip, top) /\ a.disk = c.disk /\ Between(a)
      /\ a.soff = c.soff /\ a.ent = c.ent /\ a.key = c.key /\ a.val = c.val
  BY <1>1, <1>2 DEF WithHead, Between
<1>6. /\ Coherent(a.head) /\ a.head.lst_itm_ptr = lip
      /\ a.head.fst_rec_ptr = top /\ a.head.free_space = top - lip
  BY <1>1, <1>3, <1>4, CoherentAt
<1>7. Ok(ChrStep, a) /\ FrpOk(e) /\ OnlyBuf(a, e)
  BY <1>4, <1>6, ChrRead
<1> HIDE DEF e
<1>8. FrpStops(e) = FrpStops(c)
  <2>1. c.disk[frp] = 0 /\ frp # SECTION_SIZE
    <3>1. c.buf[1] = c.disk[frp + 1 - 1] /\ c.buf[1] = 0
      BY DEF FrpOk, Get, Zeros
    <3>2. frp + 1 - 1 = frp
      BY <1>1
    <3> HIDE DEF frp
    <3> QED BY <3>1, <3>2 DEF frp
  <2>2. e.disk = c.disk /\ e.head.fst_rec_ptr = top
    BY <1>4, <1>6, <1>7 DEF OnlyBuf
  <2>3. /\ FrpStops(e) = {x \in top..SECTION_SIZE : x = SECTION_SIZE \/ c.disk[x] # 0}
        /\ FrpStops(c) = {x \in frp..SECTION_SIZE : x = SECTION_SIZE \/ c.disk[x] # 0}
    BY <2>2 DEF FrpStops
  <2>4. \A x \in frp..SECTION_SIZE : x = frp \/ x \in top..SECTION_SIZE
    BY <1>1, <1>3
  <2>5. \A x \in top..SECTION_SIZE : x \in frp..SECTION_SIZE
    BY <1>1, <1>3
  <2> HIDE DEF frp
  <2> QED BY <2>1, <2>3, <2>4, <2>5
<1>9. ASSUME NEW m \in Int PROVE FrpHead(e.head, m) = FrpHead(c.head, m)
  <2>1. e.head = HeadAt(lip, top)
    BY <1>4, <1>7 DEF OnlyBuf
  <2>2. FrpHead(e.head, m) = Head3((top - lip) + (m - top), lip, m)
    BY <1>4, <1>6, <2>1 DEF FrpHead
  <2>3. FrpHead(c.head, m) = Head3((frp - lip) + (m - frp), lip, m)
    BY <1>1, CoherentNums DEF FrpHead, FrpOk
  <2>4. (top - lip) + (m - top) = (frp - lip) + (m - frp)
    BY <1>1, <1>3
  <2> QED BY <2>2, <2>3, <2>4
<1>10. Min(FrpStops(c)) \in Int
  <2> DEFINE S == FrpStops(c)
  <2>1. S \subseteq Nat
    BY <1>1 DEF FrpStops
  <2>2. SECTION_SIZE \in S
    BY <1>1 DEF FrpStops
  <2> HIDE DEF S
  <2>3. Min(S) \in S
    BY <2>1, <2>2, MinOfNat
  <2> QED BY <2>1, <2>3 DEF S
<1>11. \A h : Closed(e, h) = Closed(c, h)
  <2>1. /\ e.disk = c.disk /\ e.reg = c.reg /\ e.phase = c.phase
        /\ e.dest = c.dest /\ e.soff = c.soff /\ e.ent = c.ent
        /\ e.key = c.key /\ e.val = c.val
    BY <1>1, <1>4, <1>7 DEF OnlyBuf, Between
  <2> QED BY <2>1 DEF Closed
<1>12. FrpC(e) = FrpC(c)
  BY <1>8, <1>9, <1>10, <1>11 DEF FrpC
<1> QED BY <1>7, <1>12 DEF e

\* sect_head_cmprs_frp stops where it is.
LEMMA FrpEnd ==
    ASSUME NEW c, FrpOk(c),
           c.head.fst_rec_ptr = SECTION_SIZE \/ c.buf # Zeros(1)
    PROVE  FrpC(c) = Closed(c, c.head)
<1> DEFINE lip == c.head.lst_itm_ptr
           frp == c.head.fst_rec_ptr
           S   == FrpStops(c)
<1>1. /\ lip \in Nat /\ frp \in Nat /\ frp <= SECTION_SIZE
      /\ c.head = Head3(frp - lip, lip, frp)
      /\ c.head.free_space = frp - lip /\ SECTION_SIZE \in Nat
  BY CoherentNums, SizeAssumption DEF FrpOk, Coherent
<1>2. frp \in S
  <2>1. frp \in frp..SECTION_SIZE
    BY <1>1
  <2>2. CASE frp # SECTION_SIZE
    <3>1. c.disk[frp] # 0
      <4>1. SUFFICES ASSUME c.disk[frp] = 0 PROVE FALSE
        OBVIOUS
      <4>2. c.buf = Get(c.disk, frp, 1) /\ c.buf # Zeros(1)
        BY <2>2 DEF FrpOk
      <4>3. \A i \in 1..1 : frp + i - 1 = frp
        BY <1>1
      <4> HIDE DEF frp
      <4>4. Get(c.disk, frp, 1) = Zeros(1)
        BY <4>1, <4>3 DEF Get, Zeros
      <4> QED BY <4>2, <4>4
    <3> QED BY <2>1, <3>1 DEF FrpStops
  <2> QED BY <2>1, <2>2 DEF FrpStops
<1>3. S \subseteq Nat /\ \A x \in S : frp <= x
  BY <1>1 DEF FrpStops
<1> HIDE DEF S
<1>4. Min(S) \in S /\ \A x \in S : Min(S) <= x
  BY <1>2, <1>3, MinOfNat
<1>5. Min(S) = frp
  <2> DEFINE m == Min(S)
  <2>1. m \in S /\ m <= frp
    BY <1>2, <1>4
  <2> HIDE DEF m, frp
  <2>2. m \in Nat /\ frp <= m
    BY <1>3, <2>1
  <2>3. m = frp
    BY <1>1, <2>1, <2>2
  <2> QED BY <2>3 DEF m
<1>6. (frp - lip) + (frp - frp) = frp - lip
  BY <1>1
<1>7. FrpHead(c.head, frp) = c.head
  BY <1>1, <1>6 DEF FrpHead
<1> QED BY <1>5, <1>7 DEF FrpC, S

\* A round of a loop in front of the loop.
LEMMA LoopRuns ==
    ASSUME NEW todo, NEW c, NEW d, Runs(todo, c, d), todo # <<>>,
           NEW adds, NEW a, Runs(adds, c, a), NEW st, Ok(st, a),
           Ok(Head(todo), Exec(st, a)),
           Exec(Head(todo), Exec(st, a)) = Exec(Head(todo), c)
    PROVE  Runs((adds \o <<st>>) \o todo, c, d)
<1>1. Runs(<<st>>, a, Exec(st, a))
  BY RunsOne
<1>2. Runs(todo, Exec(st, a), d)
  BY RunsAgain
<1>3. Runs(adds \o <<st>>, c, Exec(st, a))
  BY <1>1, RunsConcat
<1> QED BY <1>2, <1>3, RunsConcat

\* sect_head_cmprs_lip: one more round, or the end.
LEMMA CmprsLipKeeps ==
    ASSUME NEW t \in DOMAIN th, NEW d, Going(head, pos, disk, th[t], d),
           CmprsLip(t)
    PROVE  Keeps(t, d)
<1> DEFINE l  == th[t]
           st == Head(l.todo)
           c  == Conf(head, pos, disk, l)
           on == head.lst_itm_ptr # HEAD_SIZE /\ l.buf = Zeros(ITM_SIZE)
           adds == Regain("lst_itm_ptr", -ITM_SIZE, ITM_SIZE)
           more == (adds \o << SlotStep >>) \o l.todo
           l1 == [l EXCEPT !.todo = more]
           l2 == [[l EXCEPT !.buf = <<>>] EXCEPT !.todo = Tail(l.todo)]
<1>1. /\ l.todo # <<>> /\ st[1] = "cmprs_lip"
      /\ head' = head /\ disk' = disk /\ pos' = pos
  BY DEF CmprsLip, Doing, shared
<1>2. IsLocals(l)
  BY DEF Going
<1>3. (on => th' = [th EXCEPT ![t] = l1]) /\ (~on => th' = [th EXCEPT ![t] = l2])
  BY <1>2 DEF CmprsLip, Goes, GoesOn, IsLocals, SlotStep
<1>4. Ok(st, c) /\ Runs(l.todo, c, d)
  BY <1>1, RunsFirst DEF Going
<1>5. c.head = head /\ c.buf = l.buf
  BY DEF Conf
<1>6. /\ \A e : Exec(st, e) = LipC(e)
      /\ \A e : LipOk(e) => Ok(st, e)
      /\ LipOk(c)
  <2> HIDE DEF c, st
  <2> QED BY <1>1, <1>4 DEF Exec, Ok
<1>7. CASE on
  <2> DEFINE a == AddC(c, "lst_itm_ptr", -ITM_SIZE, "free_space", ITM_SIZE)
  <2>1. Runs(adds, c, a)
    BY AddRuns DEF Regain
  <2>2. /\ Ok(SlotStep, a) /\ LipOk(Exec(SlotStep, a))
        /\ LipC(Exec(SlotStep, a)) = LipC(c)
    <3> HIDE DEF c
    <3> QED BY <1>5, <1>6, <1>7, LipTurn
  <2> HIDE DEF a, adds, c, st
  <2>3. Runs(more, c, d)
    BY <1>1, <1>4, <1>6, <2>1, <2>2, LoopRuns DEF st
  <2> HIDE DEF more
  <2>4. IsLocals(l1) /\ l1.todo = more /\ l1.call = l.call
    BY <1>2 DEF IsLocals
  <2>5. Conf(head, pos, disk, l1) = c
    BY <1>2 DEF IsLocals, Conf, c
  <2> HIDE DEF l1
  <2>6. Going(head, pos, disk, l1, d)
    BY <2>3, <2>4, <2>5 DEF Going
  <2> QED BY <1>1, <1>3, <1>7, <2>4, <2>6 DEF Keeps
<1>8. CASE ~on
  <2>1. LipC(c) = Closed(c, c.head)
    <3> HIDE DEF c
    <3> QED BY <1>5, <1>6, <1>8, LipEnd
  <2>2. IsLocals(l2) /\ l2.todo = Tail(l.todo) /\ l2.call = l.call
    BY <1>2 DEF IsLocals
  <2>3. Conf(head, pos, disk, l2) = Closed(c, c.head)
    BY <1>2 DEF IsLocals, Conf, Closed
  <2> HIDE DEF l2
  <2>4. Going(head, pos, disk, l2, d)
    BY <1>1, <1>6, <2>1, <2>2, <2>3, Advance
  <2> QED BY <1>1, <1>3, <1>8, <2>2, <2>4 DEF Keeps
<1> QED BY <1>7, <1>8

\* sect_head_cmprs_frp: one more round, or the end.
LEMMA CmprsFrpKeeps ==
    ASSUME NEW t \in DOMAIN th, NEW d, Going(head, pos, disk, th[t], d),
           CmprsFrp(t)
    PROVE  Keeps(t, d)
<1> DEFINE l  == th[t]
           st == Head(l.todo)
           c  == Conf(head, pos, disk, l)
           on == head.fst_rec_ptr # SECTION_SIZE /\ l.buf = Zeros(1)
           adds == Regain("fst_rec_ptr", 1, 1)
           more == (adds \o << ChrStep >>) \o l.todo
           l1 == [l EXCEPT !.todo = more]
           l2 == [[l EXCEPT !.buf = <<>>] EXCEPT !.todo = Tail(l.todo)]
<1>1. /\ l.todo # <<>> /\ st[1] = "cmprs_frp"
      /\ head' = head /\ disk' = disk /\ pos' = pos
  BY DEF CmprsFrp, Doing, shared
<1>2. IsLocals(l)
  BY DEF Going
<1>3. (on => th' = [th EXCEPT ![t] = l1]) /\ (~on => th' = [th EXCEPT ![t] = l2])
  BY <1>2 DEF CmprsFrp, Goes, GoesOn, IsLocals, ChrStep
<1>4. Ok(st, c) /\ Runs(l.todo, c, d)
  BY <1>1, RunsFirst DEF Going
<1>5. c.head = head /\ c.buf = l.buf
  BY DEF Conf
<1>6. /\ \A e : Exec(st, e) = FrpC(e)
      /\ \A e : FrpOk(e) => Ok(st, e)
      /\ FrpOk(c)
  <2> HIDE DEF c, st
  <2> QED BY <1>1, <1>4 DEF Exec, Ok
<1>7. CASE on
  <2> DEFINE a == AddC(c, "fst_rec_ptr", 1, "free_space", 1)
  <2>1. Runs(adds, c, a)
    BY AddRuns DEF Regain
  <2>2. /\ Ok(ChrStep, a) /\ FrpOk(Exec(ChrStep, a))
        /\ FrpC(Exec(ChrStep, a)) = FrpC(c)
    <3> HIDE DEF c
    <3> QED BY <1>5, <1>6, <1>7, FrpTurn
  <2> HIDE DEF a, adds, c, st
  <2>3. Runs(more, c, d)
    BY <1>1, <1>4, <1>6, <2>1, <2>2, LoopRuns DEF st
  <2> HIDE DEF more
  <2>4. IsLocals(l1) /\ l1.todo = more /\ l1.call = l.call
    BY <1>2 DEF IsLocals
  <2>5. Conf(head, pos, disk, l1) = c
    BY <1>2 DEF IsLocals, Conf, c
  <2> HIDE DEF l1
  <2>6. Going(head, pos, disk, l1, d)
    BY <2>3, <2>4, <2>5 DEF Going
  <2> QED BY <1>1, <1>3, <1>7, <2>4, <2>6 DEF Keeps
<1>8. CASE ~on
  <2>1. FrpC(c) = Closed(c, c.head)
    <3> HIDE DEF c
    <3> QED BY <1>5, <1>6, <1>8, FrpEnd
  <2>2. IsLocals(l2) /\ l2.todo = Tail(l.todo) /\ l2.call = l.call
    BY <1>2 DEF IsLocals
  <2>3. Conf(head, pos, disk, l2) = Closed(c, c.head)
    BY <1>2 DEF IsLocals, Conf, Closed
  <2> HIDE DEF l2
  <2>4. Going(head, pos, disk, l2, d)
    BY <1>1, <1>6, <2>1, <2>2, <2>3, Advance
  <2> QED BY <1>1, <1>3, <1>8, <2>2, <2>4 DEF Keeps
<1> QED BY <1>7, <1>8

\* The look for room, when there is room.
LEMMA CheckKeeps ==
    ASSUME NEW t \in DOMAIN th, NEW d, Going(head, pos, disk, th[t], d),
           Check(t)
    PROVE  Keeps(t, d)
<1> DEFINE l  == th[t]
           st == Head(l.todo)
           c  == Conf(head, pos, disk, l)
           l2 == [l EXCEPT !.todo = Tail(l.todo)]
<1>1. l.todo # <<>> /\ st[1] = "check" /\ UNCHANGED <<head, pos, disk>>
  BY DEF Check, Doing, shared
<1>2. IsLocals(l)
  BY DEF Going
<1>3. Ok(st, c)
  BY <1>1, RunsFirst DEF Going
<1>4. Exec(st, c) = c /\ c.head.free_space >= ITM_SIZE + entity_rec_sz(c.ent)
  <2> HIDE DEF st, c
  <2> QED BY <1>1, <1>3 DEF Exec, Ok
<1>5. c.head = head /\ c.ent = l.ent
  BY DEF Conf
<1>6. th' = [th EXCEPT ![t] = l2]
  BY <1>4, <1>5 DEF Check, GoesOn, Goes
<1>7. IsLocals(l2) /\ l2.todo = Tail(l.todo) /\ l2.call = l.call
  BY <1>2 DEF IsLocals
<1>8. Conf(head, pos, disk, l2) = c
  BY <1>2 DEF IsLocals, Conf
<1> HIDE DEF l2
<1>9. Going(head, pos, disk, l2, d)
  BY <1>1, <1>4, <1>7, <1>8, Advance
<1> QED BY <1>1, <1>6, <1>7, <1>9 DEF Keeps

\* No step of a call that is under way changes what the call will have made.
LEMMA StepKeeps ==
    ASSUME NEW t \in DOMAIN th, NEW d, Going(head, pos, disk, th[t], d),
           ThreadStep(t), ~Return(t)
    PROVE  Keeps(t, d) /\ UNCHANGED <<nodes, sect>>
<1>1. CASE Check(t)
  BY <1>1, CheckKeeps DEF Check
<1>2. CASE SaveAddr(t)
  BY <1>2, SaveKeeps DEF SaveAddr
<1>3. CASE LoadField(t)
  BY <1>3, LoadKeeps DEF LoadField
<1>4. CASE StoreField(t)
  BY <1>4, StoreKeeps DEF StoreField
<1>5. CASE Note(t)
  BY <1>5, NoteKeeps DEF Note
<1>6. CASE Access(t)
  BY <1>6, AccessKeeps DEF Access
<1>7. CASE FTell(t)
  BY <1>7, FTellKeeps DEF FTell
<1>8. CASE FSeek(t)
  BY <1>8, FSeekKeeps DEF FSeek
<1>9. CASE FWrite(t)
  BY <1>9, FWriteKeeps DEF FWrite
<1>10. CASE FRead(t)
  BY <1>10, FReadKeeps DEF FRead
<1>11. CASE Back(t)
  BY <1>11, BackKeeps DEF Back
<1>12. CASE Border(t)
  BY <1>12, BorderKeeps DEF Border
<1>13. CASE CmprsLip(t)
  BY <1>13, CmprsLipKeeps DEF CmprsLip
<1>14. CASE CmprsFrp(t)
  BY <1>14, CmprsFrpKeeps DEF CmprsFrp
<1> QED BY <1>1, <1>2, <1>3, <1>4, <1>5, <1>6, <1>7, <1>8, <1>9, <1>10,
           <1>11, <1>12, <1>13, <1>14 DEF ThreadStep

-----------------------------------------------------------------------------
(* The cells of a section.                                                 *)

\* The cell is none of an item's.
NoItem(itm, a) == \A o \in DOMAIN itm : a < o \/ o + ITM_SIZE <= a

\* D are the cells of a section with header k on disk, items and bytes.
Holds(D, k, itm, rec) ==
    /\ D[0] = k.free_space /\ D[1] = k.lst_itm_ptr /\ D[2] = k.fst_rec_ptr
    /\ \A o \in DOMAIN itm : \A i \in 1..ITM_SIZE :
          D[o + i - 1] = EntityCells(itm[o])[i]
    /\ \A a \in Addr : NoItem(itm, a) => D[a] = rec[a]

\* E are the cells D with data at offset at.
Changed(E, D, at, data) ==
    \A a \in Nat : a < SECTION_SIZE =>
        /\ at <= a /\ a < at + Len(data) => E[a] = data[a - at + 1]
        /\ a < at \/ at + Len(data) <= a => E[a] = D[a]

\* The cells after a write.
LEMMA PutAt ==
    ASSUME NEW D, NEW at \in Nat, NEW data, Len(data) \in Nat
    PROVE  Changed(Put(D, at, data), D, at, data)
<1> DEFINE E == Put(D, at, data)
<1>1. ASSUME NEW a \in Nat, a < SECTION_SIZE
      PROVE  /\ at <= a /\ a < at + Len(data) => E[a] = data[a - at + 1]
             /\ a < at \/ at + Len(data) <= a => E[a] = D[a]
  <2>1. a \in Cells
    BY <1>1, SizeAssumption DEF Cells
  <2>2. E[a] = IF a \in at..(at + Len(data) - 1) THEN data[a - at + 1] ELSE D[a]
    BY <2>1 DEF Put
  <2>3. a \in at..(at + Len(data) - 1) <=> at <= a /\ a < at + Len(data)
    OBVIOUS
  <2> HIDE DEF E
  <2> QED BY <2>2, <2>3
<1> HIDE DEF E
<1>2. Changed(E, D, at, data)
  BY <1>1 DEF Changed
<1> QED BY <1>2 DEF E

\* An item lies behind the header and inside the section.
Items(itm) == \A o \in DOMAIN itm : o \in Slots /\ o + ITM_SIZE <= SECTION_SIZE

\* The cells of an item and of the header.
LEMMA ItemCells ==
    ASSUME NEW o \in Slots, o + ITM_SIZE <= SECTION_SIZE, NEW i \in 1..ITM_SIZE
    PROVE  /\ o + i - 1 \in Nat /\ o + i - 1 \in Addr /\ o + i - 1 < SECTION_SIZE
           /\ o \in Nat /\ HEAD_SIZE <= o /\ o <= o + i - 1
           /\ o + i - 1 < o + ITM_SIZE
BY SizeAssumption DEF Slots, Addr

\* A sync changes the header on disk and nothing else.
LEMMA HoldsSync ==
    ASSUME NEW D, NEW k, NEW itm, NEW rec, Holds(D, k, itm, rec), Items(itm),
           NEW h
    PROVE  Holds(Put(D, 0, HeadCells(h)), h, itm, rec)
<1> DEFINE data == HeadCells(h)
           E    == Put(D, 0, data)
<1>1. Len(data) = 3 /\ data[1] = h.free_space /\ data[2] = h.lst_itm_ptr
      /\ data[3] = h.fst_rec_ptr
  BY DEF HeadCells
<1>2. SECTION_SIZE \in Nat /\ 3 <= SECTION_SIZE /\ HEAD_SIZE = 3
  BY SizeAssumption, CellAssumption
<1> HIDE DEF data
<1>c. Changed(E, D, 0, data)
  BY <1>1, PutAt
<1>3. ASSUME NEW a \in Nat, a < SECTION_SIZE
      PROVE  (a < 3 => E[a] = data[a + 1]) /\ (3 <= a => E[a] = D[a])
  <2> HIDE DEF E
  <2>1. /\ 0 <= a /\ a < 0 + Len(data) => E[a] = data[a - 0 + 1]
        /\ a < 0 \/ 0 + Len(data) <= a => E[a] = D[a]
    BY <1>3, <1>c DEF Changed
  <2>2. CASE a < 3
    <3> DEFINE j == a - 0 + 1
    <3>1. j = a + 1 /\ 0 <= a /\ a < 0 + Len(data)
      BY <1>1, <2>2
    <3>2. E[a] = data[j]
      BY <2>1, <3>1
    <3> HIDE DEF j
    <3> QED BY <2>2, <3>1, <3>2
  <2>3. CASE 3 <= a
    BY <1>1, <2>1, <2>3
  <2> QED BY <2>2, <2>3
<1> HIDE DEF E
<1>4. E[0] = h.free_space /\ E[1] = h.lst_itm_ptr /\ E[2] = h.fst_rec_ptr
  <2>1. E[0] = data[0 + 1] /\ E[1] = data[1 + 1] /\ E[2] = data[2 + 1]
    BY <1>2, <1>3
  <2> QED BY <1>1, <2>1
<1>5. ASSUME NEW o \in DOMAIN itm, NEW i \in 1..ITM_SIZE
      PROVE  E[o + i - 1] = EntityCells(itm[o])[i]
  <2>1. o \in Slots /\ o + ITM_SIZE <= SECTION_SIZE
    BY DEF Items
  <2> DEFINE a == o + i - 1
  <2>2. a \in Nat /\ a < SECTION_SIZE /\ 3 <= a
    BY <1>2, <2>1, ItemCells
  <2>3. D[a] = EntityCells(itm[o])[i]
    BY DEF Holds
  <2> HIDE DEF a
  <2>4. E[a] = D[a]
    BY <1>3, <2>2
  <2> QED BY <2>3, <2>4 DEF a
<1>6. ASSUME NEW a \in Addr, NoItem(itm, a) PROVE E[a] = rec[a]
  <2>1. a \in Nat /\ a < SECTION_SIZE /\ 3 <= a
    BY <1>2 DEF Addr
  <2>2. D[a] = rec[a]
    BY <1>6 DEF Holds
  <2> QED BY <1>3, <2>1, <2>2
<1>7. Holds(E, h, itm, rec)
  BY <1>4, <1>5, <1>6 DEF Holds
<1> QED BY <1>7 DEF E, data

\* Bytes written behind the items are bytes of the record area.
LEMMA HoldsBytes ==
    ASSUME NEW D, NEW k, NEW itm, NEW rec, Holds(D, k, itm, rec), Items(itm),
           DOMAIN rec = Addr, NEW at \in Nat, NEW data, Len(data) \in Nat,
           HEAD_SIZE <= at, at + Len(data) <= SECTION_SIZE,
           \A o \in DOMAIN itm : o + ITM_SIZE <= at
    PROVE  Holds(Put(D, at, data), k, itm, Overwrite(rec, at, data))
<1> DEFINE E == Put(D, at, data)
           R == Overwrite(rec, at, data)
           n == Len(data)
<1>1. SECTION_SIZE \in Nat /\ HEAD_SIZE = 3 /\ ITM_SIZE = 6 /\ HEAD_SIZE <= SECTION_SIZE
  BY SizeAssumption, CellAssumption
<1>2. ASSUME NEW a \in Nat, a < SECTION_SIZE
      PROVE  /\ at <= a /\ a < at + n => E[a] = data[a - at + 1]
             /\ a < at \/ at + n <= a => E[a] = D[a]
  <2>1. Changed(E, D, at, data)
    BY PutAt
  <2> HIDE DEF E
  <2> QED BY <1>2, <2>1 DEF Changed
<1>3. \A a \in Addr : R[a] = IF a >= at /\ a < at + n THEN data[a - at + 1] ELSE rec[a]
  BY DEF Overwrite
<1> HIDE DEF E, R, n
<1>4. E[0] = D[0] /\ E[1] = D[1] /\ E[2] = D[2]
  <2>1. /\ 0 < at /\ 1 < at /\ 2 < at
        /\ 0 < SECTION_SIZE /\ 1 < SECTION_SIZE /\ 2 < SECTION_SIZE
    BY <1>1
  <2> QED BY <1>2, <2>1
<1>5. ASSUME NEW o \in DOMAIN itm, NEW i \in 1..ITM_SIZE
      PROVE  E[o + i - 1] = EntityCells(itm[o])[i]
  <2>1. o \in Slots /\ o + ITM_SIZE <= SECTION_SIZE /\ o + ITM_SIZE <= at
    BY DEF Items
  <2> DEFINE a == o + i - 1
  <2>2. a \in Nat /\ a < SECTION_SIZE /\ a < o + ITM_SIZE /\ o \in Nat
    BY <2>1, ItemCells
  <2>3. D[a] = EntityCells(itm[o])[i]
    BY DEF Holds
  <2> HIDE DEF a
  <2>4. a < at
    BY <1>1, <2>1, <2>2
  <2>5. E[a] = D[a]
    BY <1>2, <2>2, <2>4
  <2> QED BY <2>3, <2>5 DEF a
<1>6. ASSUME NEW a \in Addr, NoItem(itm, a) PROVE E[a] = R[a]
  <2>1. a \in Nat /\ a < SECTION_SIZE
    BY <1>1 DEF Addr
  <2>2. D[a] = rec[a]
    BY <1>6 DEF Holds
  <2>3. n \in Nat
    BY DEF n
  <2>4. CASE at <= a /\ a < at + n
    BY <1>2, <1>3, <2>1, <2>3, <2>4
  <2>5. CASE a < at \/ at + n <= a
    BY <1>2, <1>3, <2>1, <2>2, <2>3, <2>5
  <2> QED BY <2>1, <2>3, <2>4, <2>5
<1>7. Holds(E, k, itm, R)
  BY <1>4, <1>5, <1>6 DEF Holds
<1> QED BY <1>7 DEF E, R

\* The items with one more, and with one less.
WithItem(itm, o, e) ==
    [x \in DOMAIN itm \cup {o} |-> IF x = o THEN e ELSE itm[x]]
Without(itm, o) == [x \in DOMAIN itm \ {o} |-> itm[x]]

\* The cells of two slots are apart.
LEMMA SlotsApart ==
    ASSUME NEW x \in Slots, NEW y \in Slots, x # y
    PROVE  /\ x \in Nat /\ y \in Nat
           /\ x + ITM_SIZE <= y \/ y + ITM_SIZE <= x
<1>1. x \in Nat /\ y \in Nat
  BY SizeAssumption DEF Slots
<1>2. x < y \/ y < x
  BY <1>1
<1> QED BY <1>1, <1>2, SlotSpacing

\* Six cells written into a slot: what is left alone.
SlotChanged(E, D, o, data) ==
    /\ \A i \in 1..ITM_SIZE : E[o + i - 1] = data[i]
    /\ \A a \in Nat : a < SECTION_SIZE /\ (a < o \/ o + ITM_SIZE <= a)
          => E[a] = D[a]
    /\ \A x \in Slots : \A i \in 1..ITM_SIZE :
          x # o /\ x + ITM_SIZE <= SECTION_SIZE
            => E[x + i - 1] = D[x + i - 1]

\* A slot after a write to it.
LEMMA PutSlot ==
    ASSUME NEW D, NEW o \in Slots, o + ITM_SIZE <= SECTION_SIZE,
           NEW data, Len(data) = ITM_SIZE
    PROVE  SlotChanged(Put(D, o, data), D, o, data)
<1> DEFINE E == Put(D, o, data)
<1>1. /\ o \in Nat /\ SECTION_SIZE \in Nat /\ ITM_SIZE \in Nat
  BY SizeAssumption DEF Slots
<1>2. ASSUME NEW a \in Nat, a < SECTION_SIZE
      PROVE  /\ o <= a /\ a < o + ITM_SIZE => E[a] = data[a - o + 1]
             /\ a < o \/ o + ITM_SIZE <= a => E[a] = D[a]
  <2>1. Changed(E, D, o, data)
    BY <1>1, PutAt
  <2> HIDE DEF E
  <2> QED BY <1>2, <2>1 DEF Changed
<1> HIDE DEF E
<1>3. ASSUME NEW i \in 1..ITM_SIZE PROVE E[o + i - 1] = data[i]
  <2> DEFINE a == o + i - 1
  <2>1. a \in Nat /\ a < SECTION_SIZE /\ o <= a /\ a < o + ITM_SIZE
        /\ a - o + 1 = i
    BY <1>1
  <2> HIDE DEF a
  <2>2. E[a] = data[i]
    BY <1>2, <2>1
  <2> QED BY <2>2 DEF a
<1>4. ASSUME NEW x \in Slots, NEW i \in 1..ITM_SIZE, x # o,
             x + ITM_SIZE <= SECTION_SIZE
      PROVE  E[x + i - 1] = D[x + i - 1]
  <2> DEFINE a == x + i - 1
  <2>1. x \in Nat /\ (x + ITM_SIZE <= o \/ o + ITM_SIZE <= x)
    BY <1>4, SlotsApart
  <2>2. a \in Nat /\ a < SECTION_SIZE /\ (a < o \/ o + ITM_SIZE <= a)
    BY <1>1, <1>4, <2>1
  <2> HIDE DEF a
  <2>3. E[a] = D[a]
    BY <1>2, <2>2
  <2> QED BY <2>3 DEF a
<1>5. SlotChanged(E, D, o, data)
  BY <1>2, <1>3, <1>4 DEF SlotChanged
<1> QED BY <1>5 DEF E

\* An entity written into a free slot is an item.
LEMMA HoldsItem ==
    ASSUME NEW D, NEW k, NEW itm, NEW rec, Holds(D, k, itm, rec), Items(itm),
           NEW o \in Slots, o + ITM_SIZE <= SECTION_SIZE, o \notin DOMAIN itm,
           NEW e
    PROVE  /\ Holds(Put(D, o, EntityCells(e)), k, WithItem(itm, o, e), rec)
           /\ Items(WithItem(itm, o, e))
<1> DEFINE data == EntityCells(e)
           E    == Put(D, o, data)
           it   == WithItem(itm, o, e)
<1>1. Len(data) = ITM_SIZE
  BY CellAssumption DEF EntityCells
<1> HIDE DEF data
<1>2. /\ \A i \in 1..ITM_SIZE : E[o + i - 1] = data[i]
      /\ \A a \in Nat : a < SECTION_SIZE /\ (a < o \/ o + ITM_SIZE <= a)
            => E[a] = D[a]
      /\ \A x \in Slots : \A i \in 1..ITM_SIZE :
            x # o /\ x + ITM_SIZE <= SECTION_SIZE
              => E[x + i - 1] = D[x + i - 1]
  <2>1. SlotChanged(E, D, o, data)
    BY <1>1, PutSlot
  <2> HIDE DEF E
  <2> QED BY <2>1 DEF SlotChanged
<1>3. DOMAIN it = DOMAIN itm \cup {o} /\ it[o] = e
      /\ \A x \in DOMAIN itm : it[x] = itm[x]
  BY DEF WithItem
<1>4. SECTION_SIZE \in Nat /\ HEAD_SIZE = 3 /\ o \in Nat /\ HEAD_SIZE <= o
      /\ ITM_SIZE = 6
  BY SizeAssumption, CellAssumption DEF Slots
<1> HIDE DEF E, it
<1>5. Items(it)
  BY <1>3 DEF Items
<1>6. E[0] = D[0] /\ E[1] = D[1] /\ E[2] = D[2]
  <2>1. /\ 0 < o /\ 1 < o /\ 2 < o
        /\ 0 < SECTION_SIZE /\ 1 < SECTION_SIZE /\ 2 < SECTION_SIZE
    BY <1>4
  <2> QED BY <1>2, <2>1
<1>7. ASSUME NEW x \in DOMAIN it, NEW i \in 1..ITM_SIZE
      PROVE  E[x + i - 1] = EntityCells(it[x])[i]
  <2>1. CASE x = o
    BY <1>2, <1>3, <2>1 DEF data
  <2>2. CASE x # o
    <3>1. x \in DOMAIN itm /\ x \in Slots /\ x + ITM_SIZE <= SECTION_SIZE
      BY <1>3, <2>2 DEF Items
    <3>2. D[x + i - 1] = EntityCells(itm[x])[i]
      BY <3>1 DEF Holds
    <3> QED BY <1>2, <1>3, <2>2, <3>1, <3>2
  <2> QED BY <2>1, <2>2
<1>8. ASSUME NEW a \in Addr, NoItem(it, a) PROVE E[a] = rec[a]
  <2>1. a \in Nat /\ a < SECTION_SIZE
    BY <1>4 DEF Addr
  <2>2. NoItem(itm, a) /\ (a < o \/ o + ITM_SIZE <= a)
    BY <1>3, <1>8 DEF NoItem
  <2>3. D[a] = rec[a]
    BY <2>2 DEF Holds
  <2> QED BY <1>2, <2>1, <2>2, <2>3
<1>9. Holds(E, k, it, rec)
  BY <1>6, <1>7, <1>8 DEF Holds
<1> QED BY <1>5, <1>9 DEF E, it, data

\* Zeros written over an item free its slot, if it has no record bytes.
LEMMA HoldsClear ==
    ASSUME NEW D, NEW k, NEW itm, NEW rec, Holds(D, k, itm, rec), Items(itm),
           NEW o \in DOMAIN itm,
           \A i \in 1..ITM_SIZE : rec[o + i - 1] = 0
    PROVE  /\ Holds(Put(D, o, Zeros(ITM_SIZE)), k, Without(itm, o), rec)
           /\ Items(Without(itm, o))
<1> DEFINE data == Zeros(ITM_SIZE)
           E    == Put(D, o, data)
           it   == Without(itm, o)
<1>1. Len(data) = ITM_SIZE /\ \A i \in 1..ITM_SIZE : data[i] = 0
  <2>1. \A i \in 1..ITM_SIZE : data[i] = 0
    BY DEF Zeros
  <2>2. data \in Seq({0}) /\ DOMAIN data = 1..ITM_SIZE /\ ITM_SIZE \in Nat
    BY SizeAssumption DEF Zeros
  <2> HIDE DEF data
  <2>3. Len(data) = ITM_SIZE
    BY <2>2
  <2> QED BY <2>1, <2>3
<1> HIDE DEF data
<1>2. o \in Slots /\ o + ITM_SIZE <= SECTION_SIZE
  BY DEF Items
<1>3. /\ \A i \in 1..ITM_SIZE : E[o + i - 1] = data[i]
      /\ \A a \in Nat : a < SECTION_SIZE /\ (a < o \/ o + ITM_SIZE <= a)
            => E[a] = D[a]
      /\ \A x \in Slots : \A i \in 1..ITM_SIZE :
            x # o /\ x + ITM_SIZE <= SECTION_SIZE
              => E[x + i - 1] = D[x + i - 1]
  <2>1. SlotChanged(E, D, o, data)
    BY <1>1, <1>2, PutSlot
  <2> HIDE DEF E
  <2> QED BY <2>1 DEF SlotChanged
<1>4. DOMAIN it = DOMAIN itm \ {o} /\ \A x \in DOMAIN it : it[x] = itm[x]
  BY DEF Without
<1>5. SECTION_SIZE \in Nat /\ HEAD_SIZE = 3 /\ o \in Nat /\ HEAD_SIZE <= o
      /\ ITM_SIZE = 6
  BY <1>2, SizeAssumption, CellAssumption DEF Slots
<1> HIDE DEF E, it
<1>6. Items(it)
  BY <1>4 DEF Items
<1>7. E[0] = D[0] /\ E[1] = D[1] /\ E[2] = D[2]
  <2>1. /\ 0 < o /\ 1 < o /\ 2 < o
        /\ 0 < SECTION_SIZE /\ 1 < SECTION_SIZE /\ 2 < SECTION_SIZE
    BY <1>2, <1>5
  <2> QED BY <1>3, <2>1
<1>8. ASSUME NEW x \in DOMAIN it, NEW i \in 1..ITM_SIZE
      PROVE  E[x + i - 1] = EntityCells(it[x])[i]
  <2>1. x \in DOMAIN itm /\ x # o /\ x \in Slots /\ x + ITM_SIZE <= SECTION_SIZE
    BY <1>4 DEF Items
  <2>2. D[x + i - 1] = EntityCells(itm[x])[i]
    BY <2>1 DEF Holds
  <2> QED BY <1>3, <1>4, <2>1, <2>2
<1>9. ASSUME NEW a \in Addr, NoItem(it, a) PROVE E[a] = rec[a]
  <2>1. a \in Nat /\ a < SECTION_SIZE
    BY <1>5 DEF Addr
  <2>2. CASE a < o \/ o + ITM_SIZE <= a
    <3>1. NoItem(itm, a)
      BY <1>4, <1>9, <2>2 DEF NoItem
    <3>2. D[a] = rec[a]
      BY <3>1 DEF Holds
    <3> QED BY <1>3, <2>1, <2>2, <3>2
  <2>3. CASE ~(a < o \/ o + ITM_SIZE <= a)
    <3> DEFINE i == a - o + 1
    <3>1. i \in 1..ITM_SIZE /\ o + i - 1 = a
      BY <1>5, <2>1, <2>3
    <3> HIDE DEF i
    <3>2. E[o + i - 1] = 0 /\ rec[o + i - 1] = 0
      BY <1>1, <1>3, <3>1
    <3> QED BY <3>1, <3>2
  <2> QED BY <2>2, <2>3
<1>10. Holds(E, k, it, rec)
  BY <1>7, <1>8, <1>9 DEF Holds
<1> QED BY <1>6, <1>10 DEF E, it, data

\* The cells of an item are read as its entity.
LEMMA SlotEntity ==
    ASSUME NEW D, NEW k, NEW itm, NEW rec, Holds(D, k, itm, rec),
           NEW o \in DOMAIN itm, itm[o] \in Entities
    PROVE  CellsEntity(Get(D, o, ITM_SIZE)) = itm[o]
<1> DEFINE e == itm[o]
           g == Get(D, o, ITM_SIZE)
<1>1. ASSUME NEW i \in 1..ITM_SIZE PROVE g[i] = EntityCells(e)[i]
  BY DEF Holds, Get
<1>2. /\ EntityCells(e)[1] = e.key_ptr /\ EntityCells(e)[2] = e.key_size
      /\ EntityCells(e)[3] = e.val_ptr /\ EntityCells(e)[4] = e.val_size
      /\ EntityCells(e)[5] = e.init_rec_sz /\ EntityCells(e)[6] = e.attr
  BY DEF EntityCells
<1>3. /\ 1 \in 1..ITM_SIZE /\ 2 \in 1..ITM_SIZE /\ 3 \in 1..ITM_SIZE
      /\ 4 \in 1..ITM_SIZE /\ 5 \in 1..ITM_SIZE /\ 6 \in 1..ITM_SIZE
  BY CellAssumption
<1> HIDE DEF g, e
<1>4. /\ g[1] = e.key_ptr /\ g[2] = e.key_size /\ g[3] = e.val_ptr
      /\ g[4] = e.val_size /\ g[5] = e.init_rec_sz /\ g[6] = e.attr
  BY <1>1, <1>2, <1>3
<1>5. e = [key_ptr |-> e.key_ptr, key_size |-> e.key_size,
           val_ptr |-> e.val_ptr, val_size |-> e.val_size,
           init_rec_sz |-> e.init_rec_sz, attr |-> e.attr]
  BY DEF Entities, e
<1>6. CellsEntity(g) = e
  BY <1>4, <1>5 DEF CellsEntity
<1> QED BY <1>6 DEF g, e

\* A slot is taken for free if and only if it is free: its entity has been
\* given a place in the section, which is not 0.
LEMMA SlotEmpty ==
    ASSUME NEW D, NEW k, NEW itm, NEW rec, Holds(D, k, itm, rec), Items(itm),
           NEW o \in Slots, o + ITM_SIZE <= SECTION_SIZE,
           \A i \in 1..ITM_SIZE : rec[o + i - 1] = 0,
           o \in DOMAIN itm => itm[o].val_ptr # 0
    PROVE  Get(D, o, ITM_SIZE) # Zeros(ITM_SIZE) <=> o \in DOMAIN itm
<1>1. CASE o \in DOMAIN itm
  <2>1. 3 \in 1..ITM_SIZE
    BY CellAssumption
  <2>2. Get(D, o, ITM_SIZE)[3] = D[o + 3 - 1] /\ Zeros(ITM_SIZE)[3] = 0
    BY <2>1 DEF Get, Zeros
  <2>3. D[o + 3 - 1] = EntityCells(itm[o])[3]
    BY <1>1, <2>1 DEF Holds
  <2>4. EntityCells(itm[o])[3] = itm[o].val_ptr
    BY DEF EntityCells
  <2>5. Get(D, o, ITM_SIZE)[3] # Zeros(ITM_SIZE)[3]
    BY <1>1, <2>2, <2>3, <2>4
  <2>6. Get(D, o, ITM_SIZE) # Zeros(ITM_SIZE)
    BY <2>5
  <2> QED BY <1>1, <2>6
<1>2. CASE o \notin DOMAIN itm
  <2>1. ASSUME NEW i \in 1..ITM_SIZE PROVE D[o + i - 1] = 0
    <3> DEFINE a == o + i - 1
    <3>1. /\ a \in Addr /\ a \in Nat /\ o <= a /\ a < o + ITM_SIZE /\ o \in Nat
          /\ ITM_SIZE \in Nat
      BY ItemCells, SizeAssumption
    <3>2. NoItem(itm, a)
      <4>1. ASSUME NEW x \in DOMAIN itm PROVE a < x \/ x + ITM_SIZE <= a
        <5>1. x \in Slots /\ x # o
          BY <1>2 DEF Items
        <5>2. x \in Nat /\ (x + ITM_SIZE <= o \/ o + ITM_SIZE <= x)
          BY <5>1, SlotsApart
        <5> HIDE DEF a
        <5> QED BY <3>1, <5>2
      <4> HIDE DEF a
      <4> QED BY <4>1 DEF NoItem
    <3>3. D[a] = rec[a]
      <4> HIDE DEF a
      <4> QED BY <3>1, <3>2 DEF Holds
    <3> QED BY <3>3
  <2>2. Get(D, o, ITM_SIZE) = Zeros(ITM_SIZE)
    BY <2>1 DEF Get, Zeros
  <2> QED BY <1>2, <2>2
<1> QED BY <1>1, <1>2

\* Every entity has been given a place.
PlacedAll(itm) == \A o \in DOMAIN itm : itm[o].val_ptr # 0

\* The section's bytes below fst_rec_ptr are free and zero, and its items lie
\* inside the section.
LEMMA LooseCells ==
    ASSUME NEW s, Loose(s)
    PROVE  /\ Items(s.itm) /\ DOMAIN s.rec = Addr /\ Coherent(s.head)
           /\ s.disk = s.head
           /\ \A o \in DOMAIN s.itm : o + ITM_SIZE <= s.head.lst_itm_ptr
           /\ \A a \in Addr : a < s.head.fst_rec_ptr => s.rec[a] = 0
           /\ \A o \in Slots : o + ITM_SIZE <= s.head.lst_itm_ptr =>
                 \A i \in 1..ITM_SIZE : s.rec[o + i - 1] = 0
<1> DEFINE lip == s.head.lst_itm_ptr
           frp == s.head.fst_rec_ptr
<1>1. /\ lip \in Nat /\ frp \in Nat /\ s.rec \in [Addr -> Byte]
      /\ s.head \in Heads /\ s.disk = s.head
  BY LooseTypes
<1>2. /\ lip \in Slots /\ lip <= frp /\ frp <= SECTION_SIZE
      /\ s.head.free_space = frp - lip
  BY DEF Loose, HeadOK
<1>3. Coherent(s.head)
  <2>1. s.head = Head3(s.head.free_space, lip, frp)
    BY <1>1 DEF Heads, Head3
  <2> QED BY <1>1, <1>2, <2>1 DEF Coherent
<1>4. \A o \in DOMAIN s.itm : o + ITM_SIZE <= lip /\ o \in Slots /\ o \in Nat
  BY LooseTypes DEF Loose, FrontiersOK
<1>5. Items(s.itm)
  <2> HIDE DEF lip, frp
  <2> QED BY <1>1, <1>2, <1>4, SizeAssumption DEF Items
<1>6. ASSUME NEW a \in Addr, a < frp PROVE s.rec[a] = 0
  <2>1. SUFFICES ASSUME s.rec[a] # 0 PROVE FALSE
    OBVIOUS
  <2>2. PICK o \in Owners(s) : RecStart(s.itm[o]) <= a
    BY <2>1 DEF Loose, ZeroIsFree
  <2>3. frp <= RecStart(s.itm[o]) /\ RecStart(s.itm[o]) \in Nat
    BY OwnerFacts
  <2>4. a \in Nat
    BY SizeAssumption DEF Addr
  <2> HIDE DEF frp
  <2> QED BY <1>1, <1>6, <2>2, <2>3, <2>4
<1>7. ASSUME NEW o \in Slots, o + ITM_SIZE <= lip, NEW i \in 1..ITM_SIZE
      PROVE  s.rec[o + i - 1] = 0
  <2> HIDE DEF lip, frp
  <2>1. o \in Nat /\ o + ITM_SIZE <= SECTION_SIZE
    BY <1>1, <1>2, <1>7, SizeAssumption DEF Slots
  <2> DEFINE a == o + i - 1
  <2>2. a \in Addr /\ a \in Nat /\ a < o + ITM_SIZE
    BY <2>1, ItemCells
  <2> HIDE DEF a
  <2>3. a < frp
    BY <1>1, <1>2, <1>7, <2>1, <2>2, SizeAssumption
  <2>4. s.rec[a] = 0
    BY <1>6, <2>2, <2>3
  <2> QED BY <2>4 DEF a
<1>8. DOMAIN s.rec = Addr
  BY <1>1
<1> QED BY <1>1, <1>3, <1>4, <1>5, <1>6, <1>7, <1>8

\* The cells that hold a well-formed section are that section.
LEMMA HoldsSection ==
    ASSUME SectInv(sect), PlacedAll(sect.itm), head = sect.head,
           Holds(disk, sect.disk, sect.itm, sect.rec)
    PROVE  Section = sect
<1> DEFINE lip == head.lst_itm_ptr
           frp == head.fst_rec_ptr
           Q   == {q \in sect_ext_load([head |-> head]) :
                     Get(disk, q, ITM_SIZE) # Zeros(ITM_SIZE)}
           it  == [o \in Q |-> CellsEntity(Get(disk, o, ITM_SIZE))]
           rc  == [a \in Addr |-> IF a < frp THEN 0 ELSE disk[a]]
           dk  == CellsHead([i \in 1..3 |-> disk[i - 1]])
<1>0. Loose(sect)
  BY DEF SectInv
<1>1. /\ Items(sect.itm) /\ Coherent(head) /\ sect.disk = head
      /\ \A o \in DOMAIN sect.itm : o + ITM_SIZE <= lip
      /\ \A a \in Addr : a < frp => sect.rec[a] = 0
      /\ \A o \in Slots : o + ITM_SIZE <= lip =>
            \A i \in 1..ITM_SIZE : sect.rec[o + i - 1] = 0
  BY <1>0, LooseCells
<1>2. /\ lip \in Slots /\ lip \in Nat /\ lip <= frp /\ frp \in Nat
      /\ frp <= SECTION_SIZE
  BY <1>1, CoherentNums
<1>3. /\ sect = Sect(sect.head, sect.disk, sect.itm, sect.rec)
      /\ sect.itm = [x \in DOMAIN sect.itm |-> sect.itm[x]]
      /\ sect.rec \in [Addr -> Byte]
      /\ \A o \in DOMAIN sect.itm : sect.itm[o] \in Entities
      /\ sect.head \in Heads
  BY <1>0, LooseTypes
<1>4. dk = sect.disk
  <2> DEFINE f == [i \in 1..3 |-> disk[i - 1]]
  <2>1. f[1] = disk[0] /\ f[2] = disk[1] /\ f[3] = disk[2]
    OBVIOUS
  <2>2. disk[0] = head.free_space /\ disk[1] = lip /\ disk[2] = frp
    BY <1>1 DEF Holds
  <2> HIDE DEF f
  <2>3. head = Head3(head.free_space, lip, frp)
    BY <1>3 DEF Heads, Head3
  <2>4. CellsHead(f) = Head3(head.free_space, lip, frp)
    BY <2>1, <2>2 DEF CellsHead
  <2> QED BY <1>1, <2>3, <2>4 DEF f
<1>5. Q = DOMAIN sect.itm
  <2>1. Q = {q \in Slots : q < lip /\ Get(disk, q, ITM_SIZE) # Zeros(ITM_SIZE)}
    BY DEF sect_ext_load
  <2> HIDE DEF Q, lip, frp
  <2>2. ASSUME NEW q \in Slots, q < lip
        PROVE  Get(disk, q, ITM_SIZE) # Zeros(ITM_SIZE) <=> q \in DOMAIN sect.itm
    <3>1. q \in Nat /\ q + ITM_SIZE <= lip
      <4>1. q \in Nat
        BY SizeAssumption DEF Slots
      <4> QED BY <1>2, <2>2, <4>1, SlotSpacing
    <3>2. q + ITM_SIZE <= SECTION_SIZE
      BY <1>2, <3>1, SizeAssumption
    <3>3. \A i \in 1..ITM_SIZE : sect.rec[q + i - 1] = 0
      BY <1>1, <3>1
    <3> QED BY <1>1, <3>2, <3>3, SlotEmpty DEF PlacedAll
  <2>3. \A q \in DOMAIN sect.itm : q \in Slots /\ q < lip
    <3>1. ASSUME NEW q \in DOMAIN sect.itm PROVE q \in Slots /\ q < lip
      <4>1. q \in Slots /\ q + ITM_SIZE <= lip
        BY <1>1 DEF Items
      <4>2. q \in Nat
        BY <4>1, SizeAssumption DEF Slots
      <4> QED BY <1>2, <4>1, <4>2, SizeAssumption
    <3> QED BY <3>1
  <2> QED BY <2>1, <2>2, <2>3
<1>6. it = sect.itm
  <2>1. ASSUME NEW o \in DOMAIN sect.itm
        PROVE  CellsEntity(Get(disk, o, ITM_SIZE)) = sect.itm[o]
    BY <1>3, SlotEntity
  <2> HIDE DEF Q
  <2> QED BY <1>3, <1>5, <2>1
<1>7. rc = sect.rec
  <2> HIDE DEF lip, frp
  <2>1. ASSUME NEW a \in Addr, ~(a < frp) PROVE disk[a] = sect.rec[a]
    <3>1. a \in Nat
      BY SizeAssumption DEF Addr
    <3>2. NoItem(sect.itm, a)
      <4>1. ASSUME NEW o \in DOMAIN sect.itm PROVE o + ITM_SIZE <= a
        <5>1. o \in Nat /\ o + ITM_SIZE <= lip
          BY <1>1, SizeAssumption DEF Items, Slots
        <5> QED BY <1>2, <2>1, <3>1, <5>1, SizeAssumption
      <4> QED BY <4>1 DEF NoItem
    <3> QED BY <3>2 DEF Holds
  <2>2. \A a \in Addr : (IF a < frp THEN 0 ELSE disk[a]) = sect.rec[a]
    BY <1>1, <2>1
  <2>3. sect.rec = [a \in Addr |-> sect.rec[a]]
    BY <1>3
  <2> QED BY <2>2, <2>3
<1>8. Section = Sect(head, dk, it, rc)
  BY DEF Section, Sect
<1> HIDE DEF dk, it, rc
<1> QED BY <1>3, <1>4, <1>6, <1>7, <1>8

-----------------------------------------------------------------------------
(* What each statement makes of a section.                                 *)

\* A thread between two statements: the header is h, the cells hold a section
\* with header k on disk, and these are the locals of the call.
State(c, h, k, itm, rec, soff, ent, key, val) ==
    /\ c.head = h /\ Holds(c.disk, k, itm, rec) /\ Between(c)
    /\ c.soff = soff /\ c.ent = ent /\ c.key = key /\ c.val = val

\* Running todo from c leads to such a state.
Makes(todo, c, h, k, itm, rec, soff, ent, key, val) ==
    \E e : Runs(todo, c, e) /\ State(e, h, k, itm, rec, soff, ent, key, val)

\* A write of some bytes.
LEMMA AtWrite ==
    ASSUME NEW st, NEW c, st[1] = "at", st[3] = "fwrite", c.phase = "none",
           Size(c, st[4]) # 0, Dest(c.head, c, st[2]) >= 0
    PROVE  LET e == Exec(st, c)
           IN  /\ Ok(st, c) /\ e.head = c.head /\ e.reg = c.reg
               /\ e.phase = "none" /\ e.dest = 0 /\ e.soff = c.soff
               /\ e.ent = c.ent /\ e.key = c.key /\ e.val = c.val
               /\ e.disk = Put(c.disk, Dest(c.head, c, st[2]),
                               Data(c.head, c, st[4]))
<1>1. Place(st, c) = Dest(c.head, c, st[2]) /\ ~Skips(st, c) /\ ~Misses(st, c)
  BY DEF Place, Skips, Misses
<1>2. Ok(st, c) /\ Exec(st, c) = AtC(st, c)
  BY <1>1 DEF Ok, AtOk, Exec
<1>3. AtC(st, c) = Accessed(st, c)
  BY <1>1 DEF AtC
<1> DEFINE e == Accessed(st, c)
<1>4. /\ e.head = c.head /\ e.reg = c.reg
      /\ e.phase = "none" /\ e.dest = 0 /\ e.soff = c.soff
      /\ e.ent = c.ent /\ e.key = c.key /\ e.val = c.val
      /\ e.disk = Put(c.disk, Place(st, c), Data(c.head, c, st[4]))
  BY DEF Accessed
<1> QED BY <1>1, <1>2, <1>3, <1>4

\* A read of some bytes.
LEMMA AtRead ==
    ASSUME NEW st, NEW c, st[1] = "at", st[3] = "fread", c.phase = "none",
           st[4] \in {"ent", "key", "val"}, Size(c, st[4]) # 0,
           Dest(c.head, c, st[2]) >= 0,
           ~(Dest(c.head, c, st[2]) + Size(c, st[4]) > SECTION_SIZE)
    PROVE  LET e == Exec(st, c)
               g == Get(c.disk, Dest(c.head, c, st[2]), Size(c, st[4]))
           IN  /\ Ok(st, c) /\ e.head = c.head /\ e.reg = c.reg
               /\ e.phase = "none" /\ e.dest = 0 /\ e.soff = c.soff
               /\ e.disk = c.disk
               /\ e.ent = IF st[4] = "ent" THEN CellsEntity(g) ELSE c.ent
               /\ e.key = IF st[4] = "key" THEN g ELSE c.key
               /\ e.val = IF st[4] = "val" THEN g ELSE c.val
<1>1. Place(st, c) = Dest(c.head, c, st[2]) /\ ~Skips(st, c) /\ ~Misses(st, c)
  BY DEF Place, Skips, Misses
<1>2. Ok(st, c) /\ Exec(st, c) = AtC(st, c)
  BY <1>1 DEF Ok, AtOk, Exec
<1>3. AtC(st, c) = Accessed(st, c)
  BY <1>1 DEF AtC
<1> DEFINE e == Accessed(st, c)
           g == Get(c.disk, Place(st, c), Size(c, st[4]))
<1>4. /\ e.head = c.head /\ e.reg = c.reg
      /\ e.phase = "none" /\ e.dest = 0 /\ e.soff = c.soff
      /\ e.disk = c.disk
      /\ e.ent = IF st[4] = "ent" THEN CellsEntity(g) ELSE c.ent
      /\ e.key = IF st[4] = "key" THEN g ELSE c.key
      /\ e.val = IF st[4] = "val" THEN g ELSE c.val
  BY DEF Accessed
<1> QED BY <1>1, <1>2, <1>3, <1>4

\* An access to no bytes does nothing.
LEMMA AtSkip ==
    ASSUME NEW st, NEW c, st[1] = "at", c.phase = "none", Size(c, st[4]) = 0,
           \/ st[3] = "fwrite"
           \/ st[3] = "fread" /\ st[4] \in {"ent", "key", "val", "slot", "chr"}
    PROVE  Ok(st, c) /\ Exec(st, c) = c
<1>1. Skips(st, c)
  BY DEF Skips
<1> QED BY <1>1 DEF Ok, AtOk, Exec, AtC

\* A sync.
LEMMA SyncMakes ==
    ASSUME NEW c, NEW h, NEW k, NEW itm, NEW rec, NEW soff, NEW ent, NEW key,
           NEW val, State(c, h, k, itm, rec, soff, ent, key, val), Items(itm)
    PROVE  Makes(sect_head_sync_Steps, c, h, h, itm, rec, soff, ent, key, val)
<1> DEFINE e == AtC(SyncStep, c)
<1>1. c.phase = "none" /\ c.reg = 0 /\ c.head = h
  BY DEF State, Between
<1>2. /\ Runs(sect_head_sync_Steps, c, e) /\ e = Accessed(SyncStep, c)
      /\ Place(SyncStep, c) = 0
  BY <1>1, SyncRuns
<1>3. SyncStep[3] = "fwrite" /\ SyncStep[4] = "head"
  BY DEF SyncStep
<1>4. Data(h, c, "head") = HeadCells(h)
  BY DEF Data
<1> HIDE DEF e
<1>5. /\ e.head = h /\ e.reg = 0 /\ e.phase = "none" /\ e.dest = 0
      /\ e.soff = c.soff /\ e.ent = c.ent /\ e.key = c.key /\ e.val = c.val
      /\ e.disk = Put(c.disk, 0, HeadCells(h))
  BY <1>1, <1>2, <1>3, <1>4 DEF Accessed
<1>6. Holds(e.disk, h, itm, rec)
  BY <1>5, HoldsSync DEF State
<1>7. State(e, h, h, itm, rec, soff, ent, key, val)
  BY <1>5, <1>6 DEF State, Between
<1> QED BY <1>2, <1>7 DEF Makes

\* The loads and stores of a shift, and its sync.
LEMMA ShiftMakes ==
    ASSUME NEW c, NEW h, NEW k, NEW itm, NEW rec, NEW soff, NEW ent, NEW key,
           NEW val, State(c, h, k, itm, rec, soff, ent, key, val), Items(itm),
           NEW ptr, NEW free, NEW by, NEW g,
           AddC(c, "free_space", free, ptr, by) = WithHead(c, g)
    PROVE  Makes(Shift(ptr, free, by), c, g, g, itm, rec, soff, ent, key, val)
<1> DEFINE b == WithHead(c, g)
           steps == << <<"load", "free_space">>, <<"store", "free_space", free>>,
                       <<"load", ptr>>, <<"store", ptr, by>> >>
<1>1. Runs(steps, c, b)
  BY AddRuns
<1>2. State(b, g, k, itm, rec, soff, ent, key, val)
  BY DEF WithHead, State, Between
<1> HIDE DEF b
<1>3. PICK e : /\ Runs(sect_head_sync_Steps, b, e)
               /\ State(e, g, g, itm, rec, soff, ent, key, val)
  BY <1>2, SyncMakes DEF Makes
<1> HIDE DEF steps
<1>4. Runs(steps \o sect_head_sync_Steps, c, e)
  BY <1>1, <1>3, RunsConcat
<1>5. Shift(ptr, free, by) = steps \o sect_head_sync_Steps
  BY DEF Shift, steps
<1> QED BY <1>3, <1>4, <1>5 DEF Makes

\* sect_head_shift_frp, as long as the borders do not cross.
LEMMA ShiftFrpMakes ==
    ASSUME NEW c, NEW lip \in Nat, NEW frp \in Nat, NEW k, NEW itm, NEW rec,
           NEW soff, NEW ent, NEW key, NEW val, frp <= SECTION_SIZE,
           State(c, HeadAt(lip, frp), k, itm, rec, soff, ent, key, val),
           Items(itm), NEW by \in Int, NEW to, to = frp + by, lip <= to,
           to <= SECTION_SIZE
    PROVE  Makes(sect_head_shift_frp_Steps(by), c, HeadAt(lip, to),
                 HeadAt(lip, to), itm, rec, soff, ent, key, val)
<1>1. /\ to \in Int /\ (frp - lip) + by = to - lip /\ frp + by = to
      /\ 0 <= to /\ to <= SECTION_SIZE /\ to - lip \in Int
      /\ 0 <= to - lip /\ to - lip <= SECTION_SIZE
  BY SizeAssumption
<1>2. to % WORD = to /\ (to - lip) % WORD = to - lip
  BY <1>1, Fits
<1>3. c.head = Head3(frp - lip, lip, frp)
  BY DEF State, HeadAt
<1>4. AddC(c, "free_space", by, "fst_rec_ptr", by)
        = WithHead(c, Head3(((frp - lip) + by) % WORD, lip, (frp + by) % WORD))
  BY <1>3, AddOp
<1>5. AddC(c, "free_space", by, "fst_rec_ptr", by) = WithHead(c, HeadAt(lip, to))
  BY <1>1, <1>2, <1>4 DEF HeadAt
<1> QED BY <1>5, ShiftMakes DEF sect_head_shift_frp_Steps

\* sect_head_shift_lip, as long as the borders do not cross.
LEMMA ShiftLipMakes ==
    ASSUME NEW c, NEW lip \in Nat, NEW frp \in Nat, NEW k, NEW itm, NEW rec,
           NEW soff, NEW ent, NEW key, NEW val, frp <= SECTION_SIZE,
           State(c, HeadAt(lip, frp), k, itm, rec, soff, ent, key, val),
           Items(itm), NEW by \in Int, NEW to, to = lip + by, 0 <= to,
           to <= frp
    PROVE  Makes(sect_head_shift_lip_Steps(by), c, HeadAt(to, frp),
                 HeadAt(to, frp), itm, rec, soff, ent, key, val)
<1>1. /\ to \in Int /\ (frp - lip) + (-by) = frp - to /\ lip + by = to
      /\ 0 <= to /\ to <= SECTION_SIZE /\ frp - to \in Int
      /\ 0 <= frp - to /\ frp - to <= SECTION_SIZE
  BY SizeAssumption
<1>2. to % WORD = to /\ (frp - to) % WORD = frp - to
  BY <1>1, Fits
<1>3. c.head = Head3(frp - lip, lip, frp)
  BY DEF State, HeadAt
<1>4. AddC(c, "free_space", -by, "lst_itm_ptr", by)
        = WithHead(c, Head3(((frp - lip) + (-by)) % WORD, (lip + by) % WORD, frp))
  BY <1>3, AddOp
<1>5. AddC(c, "free_space", -by, "lst_itm_ptr", by) = WithHead(c, HeadAt(to, frp))
  BY <1>1, <1>2, <1>4 DEF HeadAt
<1> QED BY <1>5, ShiftMakes DEF sect_head_shift_lip_Steps

\* Two statements, and three.
LEMMA RunsTwo ==
    ASSUME NEW a1, NEW a2, NEW c, Ok(a1, c), Ok(a2, Exec(a1, c))
    PROVE  Runs(<<a1, a2>>, c, Exec(a2, Exec(a1, c)))
<1>1. Runs(<<a1>>, c, Exec(a1, c)) /\ Runs(<<a2>>, Exec(a1, c), Exec(a2, Exec(a1, c)))
  BY RunsOne
<1>2. Runs(<<a1>> \o <<a2>>, c, Exec(a2, Exec(a1, c)))
  BY <1>1, RunsConcat
<1>3. <<a1>> \o <<a2>> = <<a1, a2>>
  BY Tuple2
<1> QED BY <1>2, <1>3

\* Three statements.
LEMMA RunsThree ==
    ASSUME NEW a1, NEW a2, NEW a3, NEW c, Ok(a1, c), Ok(a2, Exec(a1, c)),
           Ok(a3, Exec(a2, Exec(a1, c)))
    PROVE  Runs(<<a1, a2, a3>>, c, Exec(a3, Exec(a2, Exec(a1, c))))
<1> DEFINE m == Exec(a2, Exec(a1, c))
<1>1. Runs(<<a1, a2>>, c, m) /\ Runs(<<a3>>, m, Exec(a3, m))
  BY RunsOne, RunsTwo
<1> HIDE DEF m
<1>2. Runs(<<a1, a2>> \o <<a3>>, c, Exec(a3, m))
  BY <1>1, RunsConcat
<1>3. <<a1, a2>> \o <<a3>> = <<a1, a2, a3>>
  BY Tuple3
<1> QED BY <1>2, <1>3 DEF m

\* n bytes at offset at lie behind the items and inside the section.
Behind(itm, at, n) ==
    /\ at \in Nat /\ HEAD_SIZE <= at /\ at + n <= SECTION_SIZE
    /\ \A o \in DOMAIN itm : o + ITM_SIZE <= at

\* A write of record bytes.
LEMMA BytesMake ==
    ASSUME NEW st, NEW c, NEW h, NEW k, NEW itm, NEW rec, NEW soff, NEW ent,
           NEW key, NEW val, State(c, h, k, itm, rec, soff, ent, key, val),
           Items(itm), rec = [a \in Addr |-> rec[a]], NEW at \in Int, NEW data,
           Len(data) \in Nat, st[1] = "at", st[3] = "fwrite",
           Size(c, st[4]) = Len(data), Data(h, c, st[4]) = data,
           Dest(h, c, st[2]) = at,
           Len(data) # 0 => Behind(itm, at, Len(data))
    PROVE  /\ Ok(st, c)
           /\ State(Exec(st, c), h, k, itm, Overwrite(rec, at, data),
                    soff, ent, key, val)
<1>1. /\ c.phase = "none" /\ c.reg = 0 /\ c.head = h /\ Between(c)
      /\ Holds(c.disk, k, itm, rec) /\ c.soff = soff /\ c.ent = ent
      /\ c.key = key /\ c.val = val
  BY DEF State, Between
<1>2. CASE Len(data) = 0
  <2>1. Ok(st, c) /\ Exec(st, c) = c
    BY <1>1, <1>2, AtSkip
  <2>2. Overwrite(rec, at, data) = rec
    <3>1. DOMAIN rec = Addr
      OBVIOUS
    <3>2. \A a \in Addr : ~(a >= at /\ a < at + Len(data))
      BY <1>2, SizeAssumption DEF Addr
    <3> QED BY <3>1, <3>2 DEF Overwrite
  <2> QED BY <1>1, <2>1, <2>2 DEF State
<1>3. CASE Len(data) # 0
  <2> DEFINE e == Exec(st, c)
  <2>1. /\ at \in Nat /\ HEAD_SIZE <= at /\ at + Len(data) <= SECTION_SIZE
        /\ \A o \in DOMAIN itm : o + ITM_SIZE <= at
    BY <1>3 DEF Behind
  <2>2. at >= 0 /\ DOMAIN rec = Addr
    BY <2>1
  <2>3. /\ Ok(st, c) /\ e.head = h /\ e.reg = 0
        /\ e.phase = "none" /\ e.dest = 0 /\ e.soff = c.soff
        /\ e.ent = c.ent /\ e.key = c.key /\ e.val = c.val
        /\ e.disk = Put(c.disk, at, data)
    BY <1>1, <1>3, <2>2, AtWrite
  <2> HIDE DEF e
  <2>4. Holds(e.disk, k, itm, Overwrite(rec, at, data))
    BY <1>1, <2>1, <2>2, <2>3, HoldsBytes
  <2>5. State(e, h, k, itm, Overwrite(rec, at, data), soff, ent, key, val)
    BY <1>1, <2>3, <2>4 DEF State, Between
  <2> QED BY <2>3, <2>5 DEF e
<1> QED BY <1>2, <1>3

\* The write of an entity into the slot at lst_itm_ptr.
LEMMA EntityMakes ==
    ASSUME NEW c, NEW h, NEW k, NEW itm, NEW rec, NEW soff, NEW ent,
           NEW key, NEW val, State(c, h, k, itm, rec, soff, ent, key, val),
           Items(itm), h.lst_itm_ptr \in Slots, h.lst_itm_ptr \notin DOMAIN itm,
           h.lst_itm_ptr + ITM_SIZE <= SECTION_SIZE,
           NEW st, st = <<"at", "lip", "fwrite", "ent">>
    PROVE  /\ Ok(st, c) /\ Items(WithItem(itm, h.lst_itm_ptr, ent))
           /\ State(Exec(st, c), h, k, WithItem(itm, h.lst_itm_ptr, ent), rec,
                    soff, ent, key, val)
<1> DEFINE e == Exec(st, c)
           o == h.lst_itm_ptr
<1>1. /\ c.phase = "none" /\ c.reg = 0 /\ c.head = h
      /\ Holds(c.disk, k, itm, rec) /\ c.soff = soff /\ c.ent = ent
      /\ c.key = key /\ c.val = val
  BY DEF State, Between
<1>2. st[1] = "at" /\ st[2] = "lip" /\ st[3] = "fwrite" /\ st[4] = "ent"
  OBVIOUS
<1>3. /\ Size(c, "ent") = ITM_SIZE /\ Dest(h, c, "lip") = o
      /\ Data(h, c, "ent") = EntityCells(c.ent)
  BY DEF Size, Dest, Data
<1>4. o >= 0 /\ ITM_SIZE # 0
  <2> HIDE DEF o
  <2>1. o \in Slots
    BY DEF o
  <2> QED BY <2>1, SizeAssumption DEF Slots
<1>5. /\ Ok(st, c) /\ e.head = h /\ e.reg = 0
      /\ e.phase = "none" /\ e.dest = 0 /\ e.soff = c.soff
      /\ e.ent = c.ent /\ e.key = c.key /\ e.val = c.val
      /\ e.disk = Put(c.disk, o, EntityCells(c.ent))
  <2> HIDE DEF o
  <2> QED BY <1>1, <1>2, <1>3, <1>4, AtWrite
<1> HIDE DEF e
<1>6. /\ Holds(e.disk, k, WithItem(itm, o, ent), rec)
      /\ Items(WithItem(itm, o, ent))
  BY <1>1, <1>5, HoldsItem
<1>7. State(e, h, k, WithItem(itm, o, ent), rec, soff, ent, key, val)
  BY <1>1, <1>5, <1>6 DEF State, Between
<1> QED BY <1>5, <1>6, <1>7 DEF e

\* The place of a record is noted in the entity.
LEMMA NoteMakes ==
    ASSUME NEW c, NEW h, NEW k, NEW itm, NEW rec, NEW soff, NEW ent,
           NEW key, NEW val, State(c, h, k, itm, rec, soff, ent, key, val),
           NEW f, NEW st, st = <<"note", f>>
    PROVE  /\ Ok(st, c)
           /\ State(Exec(st, c), h, k, itm, rec, soff,
                    IF f = "key" THEN [ent EXCEPT !.key_ptr = h.fst_rec_ptr]
                    ELSE [ent EXCEPT !.val_ptr = h.fst_rec_ptr], key, val)
<1>1. st[1] = "note" /\ st[2] = f
  OBVIOUS
<1>2. Ok(st, c) /\ Exec(st, c) = NoteC(c, f)
  BY <1>1 DEF Ok, Exec
<1>3. State(NoteC(c, f), h, k, itm, rec, soff,
            IF f = "key" THEN [ent EXCEPT !.key_ptr = h.fst_rec_ptr]
            ELSE [ent EXCEPT !.val_ptr = h.fst_rec_ptr], key, val)
  BY DEF NoteC, State, Between
<1> QED BY <1>2, <1>3

-----------------------------------------------------------------------------
(* The calls, from their first statement to their last.                    *)

\* The section c holds with its call's arguments and buffers.
HoldsSect(c, s, soff, ent, key, val) ==
    State(c, s.head, s.disk, s.itm, s.rec, soff, ent, key, val)

\* What the call of sect_ext_write ends with: the section that the operator
\* makes, the slot and the entity in the locals, and the node's bytes.
WriteDone(s, p, a, d) ==
    LET w == sect_ext_write(s, p, EntityInit(p, a))
        o == s.head.lst_itm_ptr
    IN  HoldsSect(d, w, o, w.itm[o], p.key, p.val)

\* An entity by its fields.
Ent6(kp, k, vp, v, n, a) ==
    [key_ptr |-> kp, key_size |-> k, val_ptr |-> vp, val_size |-> v,
     init_rec_sz |-> n, attr |-> a]

\* sect_ext_write adds up.
LEMMA WriteMakes ==
    ASSUME NEW s, Loose(s), NEW p \in Payloads, NEW a \in Attrs, CanWrite(s, p),
           NEW c, NEW soff,
           HoldsSect(c, s, soff, EntityInit(p, a), p.key, p.val)
    PROVE  \E d : Runs(WriteSteps(p), c, d) /\ WriteDone(s, p, a, d)
<1> DEFINE h   == s.head
           lip == h.lst_itm_ptr
           frp == h.fst_rec_ptr
           k   == Len(p.key)
           v   == Len(p.val)
           kp  == frp - k
           vp  == kp - v
           to  == lip + ITM_SIZE
           e0  == EntityInit(p, a)
           e1  == [e0 EXCEPT !.key_ptr = kp]
           e2  == [e1 EXCEPT !.val_ptr = vp]
           r1  == Overwrite(s.rec, kp, p.key)
           r2  == Overwrite(r1, vp, p.val)
           it  == WithItem(s.itm, lip, e2)
           w   == sect_ext_write(s, p, e0)
           key == p.key
           val == p.val
<1>1. /\ key \in Seq(Byte) /\ val \in Seq(Byte) /\ k \in Nat /\ v \in Nat
  BY PayloadAssumption
<1>2. /\ Items(s.itm) /\ Coherent(h) /\ s.disk = h
      /\ \A o \in DOMAIN s.itm : o + ITM_SIZE <= lip
  BY LooseCells
<1>3. /\ lip \in Slots /\ lip \in Nat /\ HEAD_SIZE <= lip /\ lip <= frp
      /\ frp \in Nat /\ frp <= SECTION_SIZE /\ h.free_space = frp - lip
  BY <1>2, CoherentNums
<1>4. h = HeadAt(lip, frp)
  BY <1>2 DEF Coherent, HeadAt
<1>5. /\ to <= vp /\ vp \in Nat /\ kp \in Nat /\ kp <= SECTION_SIZE
      /\ vp <= SECTION_SIZE /\ lip <= kp /\ lip <= vp /\ to \in Nat
      /\ kp = frp + (-k) /\ vp = kp + (-v) /\ to = lip + ITM_SIZE
      /\ kp + k <= SECTION_SIZE /\ vp + v <= SECTION_SIZE
      /\ HEAD_SIZE <= kp /\ HEAD_SIZE <= vp /\ to <= SECTION_SIZE
      /\ -k \in Int /\ -v \in Int /\ ITM_SIZE \in Nat
  <2>1. h.free_space >= ITM_SIZE + k + v
    BY DEF CanWrite
  <2> HIDE DEF h, lip, frp, k, v
  <2> QED BY <1>1, <1>3, <2>1, SizeAssumption
<1>6. /\ e0.key_size = k /\ e0.val_size = v /\ e1.key_size = k /\ e1.val_size = v
      /\ e2.key_size = k /\ e2.val_size = v /\ e2 = Placed(e0, kp, vp)
      /\ entity_rec_sz(e0) = k + v
  <2> DEFINE n == k + v
  <2>1. e0 = Ent6(0, k, 0, v, n, a)
    BY DEF EntityInit, Ent6
  <2> HIDE DEF k, v, kp, vp, n, e0, e1, e2
  <2>k. e1 = [e0 EXCEPT !.key_ptr = kp]
    BY DEF e1
  <2>v. e2 = [e1 EXCEPT !.val_ptr = vp]
    BY DEF e2
  <2>2. e1 = Ent6(kp, k, 0, v, n, a)
    BY <2>1, <2>k DEF Ent6
  <2>3. e2 = Ent6(kp, k, vp, v, n, a)
    BY <2>2, <2>v DEF Ent6
  <2> QED BY <2>1, <2>2, <2>3 DEF Ent6, Placed, entity_rec_sz, n
<1>7. /\ s.rec \in [Addr -> Byte] /\ s = Sect(h, s.disk, s.itm, s.rec)
      /\ h \in Heads
  BY LooseTypes
<1>8. /\ s.rec = [b \in Addr |-> s.rec[b]] /\ r1 = [b \in Addr |-> r1[b]]
      /\ r2 = [b \in Addr |-> r2[b]]
  BY <1>7 DEF Overwrite
<1>9. /\ w.head = HeadAt(to, vp) /\ w.disk = HeadAt(to, vp)
      /\ w.itm = it /\ w.rec = r2
  <2>1. w = Written(h, s.itm, s.rec, p, e0)
    <3> HIDE DEF h, e0
    <3> QED BY <1>1, <1>7, WriteOp
  <2>2. Written(h, s.itm, s.rec, p, e0)
          = Sect(Head3(h.free_space - k - v - ITM_SIZE, to, vp),
                 Head3(h.free_space - k - v - ITM_SIZE, to, vp),
                 WithItem(s.itm, lip, Placed(e0, kp, vp)), r2)
    BY DEF Written, WithItem
  <2>3. h.free_space - k - v - ITM_SIZE = vp - to
    <3> HIDE DEF h, lip, frp, k, v
    <3> QED BY <1>1, <1>3, <1>5
  <2>4. w = Sect(HeadAt(to, vp), HeadAt(to, vp), it, r2)
    BY <1>6, <2>1, <2>2, <2>3 DEF HeadAt
  <2> HIDE DEF w, it, r2, to, vp
  <2> QED BY <2>4, Fields
<1>10. lip \notin DOMAIN s.itm
  <2> HIDE DEF lip
  <2> QED BY <1>2, <1>3, SizeAssumption
<1>11. /\ HeadAt(lip, kp).fst_rec_ptr = kp /\ HeadAt(lip, vp).fst_rec_ptr = vp
       /\ HeadAt(lip, vp).lst_itm_ptr = lip
  BY DEF HeadAt, Head3
<1>12. it[lip] = e2
  BY DEF WithItem
<1>13. State(c, h, h, s.itm, s.rec, soff, e0, key, val)
  BY <1>2 DEF HoldsSect
<1> HIDE DEF h, lip, frp, k, v, kp, vp, to, e0, e1, e2, r1, r2, it, w
\* check, save_addr
<1>14. PICK c1 : /\ Runs(<< <<"check">>, <<"save_addr">> >>, c, c1)
                 /\ State(c1, h, h, s.itm, s.rec, lip, e0, key, val)
  <2> DEFINE a1 == <<"check">>
             a2 == <<"save_addr">>
             x  == SaveC(c)
  <2>1. a1[1] = "check" /\ a2[1] = "save_addr"
    OBVIOUS
  <2> HIDE DEF a1, a2
  <2>2. c.head = h /\ c.ent = e0
    BY <1>13 DEF State
  <2>3. h.free_space >= ITM_SIZE + entity_rec_sz(e0)
    <3>1. frp - lip >= ITM_SIZE + (k + v)
      BY <1>1, <1>3, <1>5
    <3> QED BY <1>3, <1>6, <3>1
  <2>4. Ok(a1, c) /\ Exec(a1, c) = c
    BY <2>1, <2>2, <2>3 DEF Ok, Exec
  <2>5. Ok(a2, c) /\ Exec(a2, c) = x
    BY <2>1 DEF Ok, Exec
  <2>6. State(x, h, h, s.itm, s.rec, lip, e0, key, val)
    BY <1>13 DEF SaveC, State, Between, lip
  <2> HIDE DEF x
  <2>7. Runs(<<a1, a2>>, c, x)
    BY <2>4, <2>5, RunsTwo
  <2> QED BY <2>6, <2>7 DEF a1, a2
\* the key
<1>15. PICK c2 : /\ Runs(sect_head_shift_frp_Steps(-k), c1, c2)
                 /\ State(c2, HeadAt(lip, kp), HeadAt(lip, kp), s.itm, s.rec,
                          lip, e0, key, val)
  <2>1. State(c1, HeadAt(lip, frp), h, s.itm, s.rec, lip, e0, key, val)
    BY <1>4, <1>14
  <2>2. Makes(sect_head_shift_frp_Steps(-k), c1, HeadAt(lip, kp), HeadAt(lip, kp),
              s.itm, s.rec, lip, e0, key, val)
    BY <1>2, <1>3, <1>5, <2>1, ShiftFrpMakes
  <2> QED BY <2>2 DEF Makes
<1>16. PICK c3 : /\ Runs(<< <<"at", "frp", "fwrite", "key">>, <<"note", "key">> >>,
                         c2, c3)
                 /\ State(c3, HeadAt(lip, kp), HeadAt(lip, kp), s.itm, r1,
                          lip, e1, key, val)
  <2> DEFINE a1 == <<"at", "frp", "fwrite", "key">>
             a2 == <<"note", "key">>
             g  == HeadAt(lip, kp)
             x  == Exec(a1, c2)
             y  == Exec(a2, x)
  <2>1. a1[1] = "at" /\ a1[2] = "frp" /\ a1[3] = "fwrite" /\ a1[4] = "key"
    OBVIOUS
  <2>2. c2.ent = e0 /\ c2.key = key
    BY <1>15 DEF State
  <2>3. /\ Size(c2, "key") = Len(key) /\ Data(g, c2, "key") = key
        /\ Dest(g, c2, "frp") = kp
    BY <1>6, <1>11, <2>2 DEF Size, Data, Dest, k
  <2>4. Behind(s.itm, kp, Len(key))
    <3>1. \A o \in DOMAIN s.itm : o + ITM_SIZE <= kp
      BY <1>2, <1>3, <1>5, SizeAssumption DEF Items, Slots
    <3> QED BY <1>5, <3>1 DEF Behind, k
  <2> HIDE DEF a1
  <2>5. Ok(a1, c2) /\ State(x, g, g, s.itm, r1, lip, e0, key, val)
    <3> HIDE DEF g, x
    <3>1. State(c2, g, g, s.itm, s.rec, lip, e0, key, val)
      BY <1>15 DEF g
    <3>2. /\ Size(c2, a1[4]) = Len(key) /\ Data(g, c2, a1[4]) = key
          /\ Dest(g, c2, a1[2]) = kp /\ a1[1] = "at" /\ a1[3] = "fwrite"
      BY <2>1, <2>3
    <3>3. Items(s.itm) /\ s.rec = [b \in Addr |-> s.rec[b]] /\ kp \in Int /\ Len(key) \in Nat
      BY <1>1, <1>2, <1>5, <1>8 DEF k
    <3> HIDE DEF key
    <3>4. Ok(a1, c2) /\ State(Exec(a1, c2), g, g, s.itm, Overwrite(s.rec, kp, key),
                             lip, e0, key, val)
      BY <2>4, <3>1, <3>2, <3>3, BytesMake
    <3> QED BY <3>4 DEF r1, x, key
  <2>6. Ok(a2, x) /\ State(y, g, g, s.itm, r1, lip, e1, key, val)
    <3> HIDE DEF x
    <3>1. g.fst_rec_ptr = kp
      BY <1>11
    <3> HIDE DEF g
    <3>2. Ok(a2, x) /\ State(y, g, g, s.itm, r1, lip,
              IF "key" = "key" THEN [e0 EXCEPT !.key_ptr = g.fst_rec_ptr]
              ELSE [e0 EXCEPT !.val_ptr = g.fst_rec_ptr], key, val)
      BY <2>5, NoteMakes
    <3> QED BY <3>1, <3>2 DEF e1
  <2> HIDE DEF a2, x, y, g
  <2>7. Runs(<<a1, a2>>, c2, y)
    BY <2>5, <2>6, RunsTwo DEF x, y
  <2> QED BY <2>6, <2>7 DEF a1, a2, g
\* the value
<1>17. PICK c4 : /\ Runs(sect_head_shift_frp_Steps(-v), c3, c4)
                 /\ State(c4, HeadAt(lip, vp), HeadAt(lip, vp), s.itm, r1,
                          lip, e1, key, val)
  BY <1>2, <1>3, <1>5, <1>16, ShiftFrpMakes DEF Makes
<1>18. PICK c5 : /\ Runs(<< <<"at", "frp", "fwrite", "val">>, <<"note", "val">>,
                            <<"at", "lip", "fwrite", "ent">> >>, c4, c5)
                 /\ State(c5, HeadAt(lip, vp), HeadAt(lip, vp), it, r2,
                          lip, e2, key, val)
                 /\ Items(it)
  <2> DEFINE a1 == <<"at", "frp", "fwrite", "val">>
             a2 == <<"note", "val">>
             a3 == <<"at", "lip", "fwrite", "ent">>
             g  == HeadAt(lip, vp)
             x  == Exec(a1, c4)
             y  == Exec(a2, x)
             z  == Exec(a3, y)
  <2>1. a1[1] = "at" /\ a1[2] = "frp" /\ a1[3] = "fwrite" /\ a1[4] = "val"
    OBVIOUS
  <2>2. c4.ent = e1 /\ c4.val = val
    BY <1>17 DEF State
  <2>3. /\ Size(c4, "val") = Len(val) /\ Data(g, c4, "val") = val
        /\ Dest(g, c4, "frp") = vp
    BY <1>6, <1>11, <2>2 DEF Size, Data, Dest, v
  <2>4. Behind(s.itm, vp, Len(val))
    <3>1. \A o \in DOMAIN s.itm : o + ITM_SIZE <= vp
      BY <1>2, <1>3, <1>5, SizeAssumption DEF Items, Slots
    <3> QED BY <1>5, <3>1 DEF Behind, v
  <2> HIDE DEF a1
  <2>5. Ok(a1, c4) /\ State(x, g, g, s.itm, r2, lip, e1, key, val)
    <3> HIDE DEF g, x
    <3>1. State(c4, g, g, s.itm, r1, lip, e1, key, val)
      BY <1>17 DEF g
    <3>2. /\ Size(c4, a1[4]) = Len(val) /\ Data(g, c4, a1[4]) = val
          /\ Dest(g, c4, a1[2]) = vp /\ a1[1] = "at" /\ a1[3] = "fwrite"
      BY <2>1, <2>3
    <3>3. Items(s.itm) /\ r1 = [b \in Addr |-> r1[b]] /\ vp \in Int /\ Len(val) \in Nat
      BY <1>1, <1>2, <1>5, <1>8 DEF v
    <3> HIDE DEF val
    <3>4. Ok(a1, c4) /\ State(Exec(a1, c4), g, g, s.itm, Overwrite(r1, vp, val),
                             lip, e1, key, val)
      BY <2>4, <3>1, <3>2, <3>3, BytesMake
    <3> QED BY <3>4 DEF r2, x, val
  <2>g. g.fst_rec_ptr = vp /\ g.lst_itm_ptr = lip
    BY <1>11
  <2>6. Ok(a2, x) /\ State(y, g, g, s.itm, r2, lip, e2, key, val)
    <3> HIDE DEF x, g
    <3>2. Ok(a2, x) /\ State(y, g, g, s.itm, r2, lip,
              IF "val" = "key" THEN [e1 EXCEPT !.key_ptr = g.fst_rec_ptr]
              ELSE [e1 EXCEPT !.val_ptr = g.fst_rec_ptr], key, val)
      BY <2>5, NoteMakes
    <3>3. "val" # "key"
      OBVIOUS
    <3> QED BY <2>g, <3>2, <3>3 DEF e2
  <2>7. /\ Ok(a3, y) /\ State(z, g, g, it, r2, lip, e2, key, val)
        /\ Items(it)
    <3> HIDE DEF y, g
    <3>1. /\ g.lst_itm_ptr \in Slots /\ g.lst_itm_ptr \notin DOMAIN s.itm
          /\ g.lst_itm_ptr + ITM_SIZE <= SECTION_SIZE
      BY <1>3, <1>5, <1>10, <2>g
    <3>2. /\ Ok(a3, y) /\ Items(WithItem(s.itm, g.lst_itm_ptr, e2))
          /\ State(z, g, g, WithItem(s.itm, g.lst_itm_ptr, e2), r2, lip, e2,
                   key, val)
      BY <1>2, <2>6, <3>1, EntityMakes
    <3> QED BY <2>g, <3>2 DEF it
  <2> HIDE DEF a2, a3, x, y, z, g
  <2>8. Runs(<<a1, a2, a3>>, c4, z)
    BY <2>5, <2>6, <2>7, RunsThree DEF x, y, z
  <2> QED BY <2>7, <2>8 DEF a1, a2, a3, g
\* the border of the items
<1>19. PICK c6 : /\ Runs(sect_head_shift_lip_Steps(ITM_SIZE), c5, c6)
                 /\ State(c6, HeadAt(to, vp), HeadAt(to, vp), it, r2,
                          lip, e2, key, val)
  <2>1. 0 <= to /\ ITM_SIZE \in Int
    BY <1>5
  <2> QED BY <1>3, <1>5, <1>18, <2>1, ShiftLipMakes DEF Makes
<1>20. PICK d : /\ Runs(sect_head_sync_Steps, c6, d)
                /\ State(d, HeadAt(to, vp), HeadAt(to, vp), it, r2,
                         lip, e2, key, val)
  BY <1>18, <1>19, SyncMakes DEF Makes
<1>21. Runs(WriteSteps(p), c, d)
  <2> DEFINE t1 == << <<"check">>, <<"save_addr">> >>
             t2 == sect_head_shift_frp_Steps(-k)
             t3 == << <<"at", "frp", "fwrite", "key">>, <<"note", "key">> >>
             t4 == sect_head_shift_frp_Steps(-v)
             t5 == << <<"at", "frp", "fwrite", "val">>, <<"note", "val">>,
                      <<"at", "lip", "fwrite", "ent">> >>
             t6 == sect_head_shift_lip_Steps(ITM_SIZE)
             t7 == sect_head_sync_Steps
  <2>0. WriteSteps(p) = (((((t1 \o t2) \o t3) \o t4) \o t5) \o t6) \o t7
    BY DEF WriteSteps, k, v
  <2> HIDE DEF t1, t2, t3, t4, t5, t6, t7
  <2>1. Runs(t1 \o t2, c, c2)
    BY <1>14, <1>15, RunsConcat DEF t1, t2
  <2>2. Runs((t1 \o t2) \o t3, c, c3)
    BY <1>16, <2>1, RunsConcat DEF t3
  <2>3. Runs(((t1 \o t2) \o t3) \o t4, c, c4)
    BY <1>17, <2>2, RunsConcat DEF t4
  <2>4. Runs((((t1 \o t2) \o t3) \o t4) \o t5, c, c5)
    BY <1>18, <2>3, RunsConcat DEF t5
  <2>5. Runs(((((t1 \o t2) \o t3) \o t4) \o t5) \o t6, c, c6)
    BY <1>19, <2>4, RunsConcat DEF t6
  <2>6. Runs((((((t1 \o t2) \o t3) \o t4) \o t5) \o t6) \o t7, c, d)
    BY <1>20, <2>5, RunsConcat DEF t7
  <2> QED BY <2>0, <2>6
<1>22. HoldsSect(d, w, lip, w.itm[lip], key, val)
  BY <1>9, <1>12, <1>20 DEF HoldsSect
<1>23. WriteDone(s, p, a, d)
  BY <1>22 DEF WriteDone, w, lip, h, e0
<1> QED BY <1>21, <1>23

\* The key or the value of an entity: n bytes from at on.
Part(e, at, n) == \/ at = e.key_ptr /\ n = e.key_size
                  \/ at = e.val_ptr /\ n = e.val_size

\* The bytes of a live record are read back from the file.
LEMMA RecordGet ==
    ASSUME NEW s, Loose(s), NEW o \in DOMAIN s.itm, NEW D, NEW k,
           Holds(D, k, s.itm, s.rec), NEW at, NEW n, n # 0,
           Part(s.itm[o], at, n)
    PROVE  /\ Get(D, at, n) = sect_head_read(s, at, n)
           /\ at >= 0 /\ ~(at + n > SECTION_SIZE)
<1> DEFINE e == s.itm[o]
           frp == s.head.fst_rec_ptr
<1>1. /\ e.key_ptr \in Nat /\ e.key_size \in Nat
      /\ e.val_ptr \in Nat /\ e.val_size \in Nat
  BY LooseTypes
<1>2. at \in Nat /\ n \in Nat /\ n > 0
  BY <1>1 DEF Part
<1>3. o \in Owners(s)
  <2>1. e.key_size + e.val_size # 0
    BY <1>1, <1>2 DEF Part
  <2> QED BY <2>1 DEF Owners, entity_rec_sz
<1>4. RecStart(e) \in Nat /\ frp <= RecStart(e)
  BY <1>3, OwnerFacts
<1>5. /\ frp \in Nat /\ s.head.lst_itm_ptr \in Nat /\ s.head.lst_itm_ptr <= frp
      /\ \A x \in DOMAIN s.itm : /\ x \in Nat
                                 /\ x + ITM_SIZE <= s.head.lst_itm_ptr
  <2>1. Coherent(s.head) /\ Items(s.itm)
        /\ \A x \in DOMAIN s.itm : x + ITM_SIZE <= s.head.lst_itm_ptr
    BY LooseCells
  <2>2. \A x \in DOMAIN s.itm : x \in Nat
    BY LooseTypes
  <2> QED BY <2>1, <2>2, CoherentNums
<1>6. ASSUME NEW i \in 1..n
      PROVE  at + i - 1 \in Addr /\ D[at + i - 1] = s.rec[at + i - 1]
  <2> DEFINE b == at + i - 1
  <2>1. i \in Nat /\ i > 0 /\ i <= n
    BY <1>2
  <2>2. \/ i <= s.itm[o].key_size /\ b = s.itm[o].key_ptr + i - 1
        \/ i <= s.itm[o].val_size /\ b = s.itm[o].val_ptr + i - 1
    BY <2>1 DEF Part
  <2>3. b \in Nat
    BY <1>2, <2>1
  <2> HIDE DEF b
  <2>4. b \in Addr /\ RecStart(e) <= b
    BY <2>1, <2>2, RecordBytes
  <2> HIDE DEF frp, e
  <2>5. NoItem(s.itm, b)
    <3>1. ASSUME NEW x \in DOMAIN s.itm PROVE x + ITM_SIZE <= b
      BY <1>4, <1>5, <2>3, <2>4, SizeAssumption
    <3> QED BY <3>1 DEF NoItem
  <2>6. D[b] = s.rec[b]
    BY <2>4, <2>5 DEF Holds
  <2> QED BY <2>4, <2>6 DEF b
<1>7. at + n <= SECTION_SIZE
  <2>1. n \in 1..n
    BY <1>2
  <2>2. at + n - 1 \in Addr
    BY <1>6, <2>1
  <2> QED BY <1>2, <2>2, SizeAssumption DEF Addr
<1>8. Get(D, at, n) = sect_head_read(s, at, n)
  BY <1>6 DEF Get, sect_head_read
<1> QED BY <1>2, <1>7, <1>8, SizeAssumption

\* sect_ext_rd_itm of a live slot.
LEMMA EntityRead ==
    ASSUME NEW s, Loose(s), NEW o \in DOMAIN s.itm, NEW c, NEW ent, NEW key,
           NEW val, HoldsSect(c, s, o, ent, key, val),
           NEW st, st = <<"at", "soff", "fread", "ent">>
    PROVE  Ok(st, c) /\ HoldsSect(Exec(st, c), s, o, s.itm[o], key, val)
<1> DEFINE e == Exec(st, c)
<1>1. /\ c.phase = "none" /\ c.reg = 0 /\ c.head = s.head
      /\ Holds(c.disk, s.disk, s.itm, s.rec) /\ c.soff = o
      /\ c.key = key /\ c.val = val
  BY DEF HoldsSect, State, Between
<1>2. st[1] = "at" /\ st[2] = "soff" /\ st[3] = "fread" /\ st[4] = "ent"
  OBVIOUS
<1>3. Size(c, "ent") = ITM_SIZE /\ Dest(c.head, c, "soff") = o
  BY <1>1 DEF Size, Dest
<1>4. o \in Slots /\ o + ITM_SIZE <= SECTION_SIZE /\ s.itm[o] \in Entities
  <2>1. Items(s.itm)
    BY LooseCells
  <2>2. s.itm[o] \in Entities
    BY LooseTypes
  <2> QED BY <2>1, <2>2 DEF Items
<1>5. o >= 0 /\ ~(o + ITM_SIZE > SECTION_SIZE) /\ ITM_SIZE # 0
  BY <1>4, SizeAssumption DEF Slots
<1>6. /\ Ok(st, c) /\ e.head = c.head /\ e.reg = c.reg
      /\ e.phase = "none" /\ e.dest = 0 /\ e.soff = c.soff
      /\ e.disk = c.disk
      /\ e.ent = CellsEntity(Get(c.disk, o, ITM_SIZE))
      /\ e.key = c.key /\ e.val = c.val
  BY <1>1, <1>2, <1>3, <1>5, AtRead
<1> HIDE DEF e
<1>7. e.ent = s.itm[o]
  BY <1>1, <1>4, <1>6, SlotEntity
<1>8. HoldsSect(e, s, o, s.itm[o], key, val)
  BY <1>1, <1>6, <1>7 DEF HoldsSect, State, Between
<1> QED BY <1>6, <1>8 DEF e

\* The two reads of the record, which do nothing for an empty part.
LEMMA BytesRead ==
    ASSUME NEW s, Loose(s), NEW o \in DOMAIN s.itm, NEW c, NEW key, NEW val,
           HoldsSect(c, s, o, s.itm[o], key, val),
           NEW f \in {"key", "val"}, NEW st, st = <<"at", f, "fread", f>>,
           f = "key" => key = <<>>, f = "val" => val = <<>>
    PROVE  LET e == s.itm[o] IN
           /\ Ok(st, c)
           /\ HoldsSect(Exec(st, c), s, o, e,
                 IF f = "key" THEN sect_head_read(s, e.key_ptr, e.key_size) ELSE key,
                 IF f = "val" THEN sect_head_read(s, e.val_ptr, e.val_size) ELSE val)
<1> DEFINE e  == Exec(st, c)
           x  == s.itm[o]
           at == IF f = "key" THEN x.key_ptr ELSE x.val_ptr
           n  == IF f = "key" THEN x.key_size ELSE x.val_size
           r  == sect_head_read(s, at, n)
           k2 == IF f = "key" THEN r ELSE key
           v2 == IF f = "val" THEN r ELSE val
<1>1. /\ c.phase = "none" /\ c.reg = 0 /\ c.dest = 0 /\ c.head = s.head
      /\ Holds(c.disk, s.disk, s.itm, s.rec) /\ c.soff = o
      /\ c.key = key /\ c.val = val /\ c.ent = x
  BY DEF HoldsSect, State, Between
<1>2. st[1] = "at" /\ st[2] = f /\ st[3] = "fread" /\ st[4] = f
  OBVIOUS
<1>3. Size(c, f) = n /\ Dest(c.head, c, f) = at
  <2>1. CASE f = "key"
    BY <1>1, <2>1 DEF Size, Dest
  <2>2. CASE f = "val"
    BY <1>1, <2>2 DEF Size, Dest
  <2> QED BY <2>1, <2>2
<1>4. Part(s.itm[o], at, n)
  BY DEF Part
<1> HIDE DEF at, n
<1>5. CASE n = 0
  <2>1. Ok(st, c) /\ e = c
    BY <1>1, <1>2, <1>3, <1>5, AtSkip
  <2>2. r = <<>>
    <3>1. 1..n = {}
      BY <1>5
    <3> QED BY <3>1 DEF sect_head_read
  <2>3. k2 = key /\ v2 = val
    BY <2>2
  <2>4. HoldsSect(e, s, o, x, k2, v2)
    BY <2>1, <2>3
  <2> QED BY <2>1, <2>4 DEF at, n
<1>6. CASE n # 0
  <2>d. Holds(c.disk, s.disk, s.itm, s.rec)
    BY <1>1
  <2>r. /\ Get(c.disk, at, n) = sect_head_read(s, at, n)
        /\ at >= 0 /\ ~(at + n > SECTION_SIZE)
    <3> HIDE DEF x
    <3> QED BY <1>4, <1>6, <2>d, RecordGet
  <2>1. Get(c.disk, at, n) = r /\ at >= 0 /\ ~(at + n > SECTION_SIZE)
    BY <2>r
  <2>2. f \in {"ent", "key", "val"} /\ f # "ent"
    OBVIOUS
  <2>3. /\ Ok(st, c) /\ e.head = c.head /\ e.reg = c.reg
        /\ e.phase = "none" /\ e.dest = 0 /\ e.soff = c.soff
        /\ e.disk = c.disk /\ e.ent = c.ent
        /\ e.key = IF f = "key" THEN Get(c.disk, at, n) ELSE c.key
        /\ e.val = IF f = "val" THEN Get(c.disk, at, n) ELSE c.val
    BY <1>1, <1>2, <1>3, <1>6, <2>1, <2>2, AtRead
  <2> HIDE DEF e, r
  <2>4. e.key = k2 /\ e.val = v2
    BY <1>1, <2>1, <2>3
  <2>5. HoldsSect(e, s, o, x, k2, v2)
    BY <1>1, <2>3, <2>4 DEF HoldsSect, State, Between
  <2> QED BY <2>3, <2>5 DEF at, n, e, r
<1> QED BY <1>5, <1>6

\* What the call of sect_ext_read ends with: the section as it was, and the
\* node of the slot.
ReadDone(s, o, d) ==
    /\ HoldsSect(d, s, o, s.itm[o], d.key, d.val)
    /\ Node(d) = Content(s)[o]

\* sect_ext_read adds up.
LEMMA ReadMakes ==
    ASSUME NEW s, Loose(s), NEW o \in DOMAIN s.itm, NEW c, NEW ent,
           HoldsSect(c, s, o, ent, <<>>, <<>>)
    PROVE  \E d : Runs(ReadSteps, c, d) /\ ReadDone(s, o, d)
<1> DEFINE x  == s.itm[o]
           a1 == <<"at", "soff", "fread", "ent">>
           a2 == <<"at", "key", "fread", "key">>
           a3 == <<"at", "val", "fread", "val">>
           c1 == Exec(a1, c)
           c2 == Exec(a2, c1)
           c3 == Exec(a3, c2)
           kr == sect_head_read(s, x.key_ptr, x.key_size)
           vr == sect_head_read(s, x.val_ptr, x.val_size)
<1>1. Ok(a1, c) /\ HoldsSect(c1, s, o, x, <<>>, <<>>)
  <2> HIDE DEF c1, x
  <2> QED BY EntityRead DEF c1, x
<1> HIDE DEF c1
<1>2. Ok(a2, c1) /\ HoldsSect(c2, s, o, x, kr, <<>>)
  <2> DEFINE f == "key"
  <2>1. f \in {"key", "val"} /\ f = "key" /\ f # "val"
    OBVIOUS
  <2>2. a2 = <<"at", f, "fread", f>>
    OBVIOUS
  <2> HIDE DEF f, a2
  <2>3. /\ Ok(a2, c1)
        /\ HoldsSect(Exec(a2, c1), s, o, x,
              IF f = "key" THEN sect_head_read(s, x.key_ptr, x.key_size) ELSE <<>>,
              IF f = "val" THEN sect_head_read(s, x.val_ptr, x.val_size) ELSE <<>>)
    BY <1>1, <2>1, <2>2, BytesRead
  <2> QED BY <2>1, <2>3
<1> HIDE DEF c2
<1>3. Ok(a3, c2) /\ HoldsSect(c3, s, o, x, kr, vr)
  <2> DEFINE f == "val"
  <2>1. f \in {"key", "val"} /\ f = "val" /\ f # "key"
    OBVIOUS
  <2>2. a3 = <<"at", f, "fread", f>>
    OBVIOUS
  <2> HIDE DEF f, a3, kr
  <2>3. /\ Ok(a3, c2)
        /\ HoldsSect(Exec(a3, c2), s, o, x,
              IF f = "key" THEN sect_head_read(s, x.key_ptr, x.key_size) ELSE kr,
              IF f = "val" THEN sect_head_read(s, x.val_ptr, x.val_size) ELSE <<>>)
    BY <1>2, <2>1, <2>2, BytesRead
  <2> QED BY <2>1, <2>3
<1> HIDE DEF c3
<1>4. Runs(<<a1, a2, a3>>, c, c3)
  <2> HIDE DEF a1, a2, a3
  <2> QED BY <1>1, <1>2, <1>3, RunsThree DEF c1, c2, c3
<1>5. Items(s.itm) /\ s.disk = s.head
  BY LooseCells
<1> HIDE DEF kr, vr, x
<1>6. PICK d : /\ Runs(sect_head_sync_Steps, c3, d)
               /\ State(d, s.head, s.head, s.itm, s.rec, o, x, kr, vr)
  <2>1. State(c3, s.head, s.head, s.itm, s.rec, o, x, kr, vr)
    BY <1>3, <1>5 DEF HoldsSect
  <2>2. Makes(sect_head_sync_Steps, c3, s.head, s.head, s.itm, s.rec, o, x, kr, vr)
    BY <1>5, <2>1, SyncMakes
  <2> QED BY <2>2 DEF Makes
<1>7. Runs(ReadSteps, c, d)
  <2> DEFINE t1 == <<a1, a2, a3>>
  <2>1. ReadSteps = t1 \o sect_head_sync_Steps
    BY DEF ReadSteps
  <2>2. Runs(t1, c, c3)
    BY <1>4
  <2> HIDE DEF t1
  <2>3. Runs(t1 \o sect_head_sync_Steps, c, d)
    BY <1>6, <2>2, RunsConcat
  <2> QED BY <2>1, <2>3
<1>8. d.key = kr /\ d.val = vr /\ d.ent = x
  BY <1>6 DEF State
<1>9. HoldsSect(d, s, o, x, d.key, d.val)
  BY <1>5, <1>6, <1>8 DEF HoldsSect
<1>10. Node(d) = Content(s)[o]
  <2>1. Content(s)[o] = sect_ext_read(s, o)
    BY ContentOf
  <2>2. sect_ext_read(s, o) = [key |-> kr, val |-> vr, attr |-> x.attr]
    BY ReadLive DEF kr, vr, x
  <2> QED BY <1>8, <2>1, <2>2 DEF Node
<1>11. ReadDone(s, o, d)
  BY <1>9, <1>10 DEF ReadDone, x
<1> QED BY <1>7, <1>11

\* Statements come to one outcome only.
LEMMA RunsSame ==
    ASSUME NEW todo, NEW c, NEW d, NEW e, Runs(todo, c, d), Runs(todo, c, e)
    PROVE  d = e
<1>1. PICK cs : IsRun(cs, todo, c, d)
  BY DEF Runs
<1>2. PICK es : IsRun(es, todo, c, e)
  BY DEF Runs
<1> DEFINE n == Len(todo)
           S == {i \in Nat : i <= n => cs[i] = es[i]}
<1>3. n \in Nat
  BY DEF Runs, IsSeq
<1>4. /\ cs[0] = c /\ cs[n] = d /\ es[0] = c /\ es[n] = e
      /\ \A i \in 1..n : cs[i] = Exec(todo[i], cs[i - 1])
      /\ \A i \in 1..n : es[i] = Exec(todo[i], es[i - 1])
  BY <1>1, <1>2 DEF IsRun
<1> HIDE DEF n
<1>5. 0 \in S
  BY <1>4
<1>6. ASSUME NEW i \in Nat, i \in S PROVE i + 1 \in S
  <2>1. CASE i + 1 <= n
    <3>1. i + 1 \in 1..n /\ (i + 1) - 1 = i /\ i <= n
      BY <1>3, <2>1
    <3>2. cs[i] = es[i]
      BY <1>6, <3>1
    <3>3. cs[i + 1] = Exec(todo[i + 1], cs[i]) /\ es[i + 1] = Exec(todo[i + 1], es[i])
      BY <1>4, <3>1
    <3> QED BY <3>2, <3>3
  <2>2. CASE ~(i + 1 <= n)
    BY <2>2
  <2> QED BY <2>1, <2>2
<1> HIDE DEF S
<1>7. n \in S
  BY <1>3, <1>5, <1>6, NatInduct
<1> QED BY <1>3, <1>4, <1>7 DEF S

\* The borders of an entity at the end of the items move over it and over its
\* record; they stay for another one.
LEMMA BorderMakes ==
    ASSUME NEW s, Loose(s), NEW o \in DOMAIN s.itm, NEW c, NEW key, NEW val,
           HoldsSect(c, s, o, s.itm[o], key, val), NEW st, st = <<"border">>
    PROVE  /\ Ok(st, c)
           /\ State(Exec(st, c), MidHead(s, o), MidHead(s, o), s.itm, s.rec,
                    o, s.itm[o], key, val)
<1> DEFINE x   == s.itm[o]
           h   == s.head
           lip == h.lst_itm_ptr
           frp == h.fst_rec_ptr
           n   == entity_rec_sz(x)
           g   == MidHead(s, o)
<1>1. st[1] = "border"
  OBVIOUS
<1>2. Between(c) /\ c.phase = "none" /\ c.head = h /\ c.soff = o /\ c.ent = x
  BY DEF HoldsSect, State, Between
<1>3. Ok(st, c) /\ Exec(st, c) = BorderC(c)
  BY <1>1, <1>2 DEF Ok, Exec
<1>4. Items(s.itm) /\ Coherent(h) /\ s.disk = h
  BY LooseCells
<1>5. /\ lip \in Nat /\ HEAD_SIZE <= lip /\ lip <= frp
      /\ frp \in Nat /\ frp <= SECTION_SIZE /\ h.free_space = frp - lip
      /\ h = HeadAt(lip, frp)
  BY <1>4, CoherentNums DEF Coherent, HeadAt
<1>6. o \in Nat /\ HEAD_SIZE <= o /\ n \in Nat
  <2>1. o \in Slots /\ n \in Nat
    BY LooseTypes
  <2> QED BY <2>1, SizeAssumption DEF Slots
<1>7. frp + n <= SECTION_SIZE
  <2>1. CASE n = 0
    BY <1>5, <2>1
  <2>2. CASE n # 0
    <3>1. o \in Owners(s)
      BY <2>2 DEF Owners
    <3>2. /\ RecStart(x) \in Nat /\ frp <= RecStart(x) /\ RecEnd(x) <= SECTION_SIZE
      BY <3>1, OwnerFacts
    <3>3. RecEnd(x) = RecStart(x) + n
      BY LiveRecord
    <3> HIDE DEF frp, x, n
    <3> QED BY <1>5, <1>6, <3>2, <3>3, SizeAssumption
  <2> QED BY <2>1, <2>2
<1>8. sect_ext_rd_itm(s, o) = x
  BY DEF sect_ext_rd_itm
<1>9. State(c, HeadAt(lip, frp), h, s.itm, s.rec, o, x, key, val)
  BY <1>4, <1>5 DEF HoldsSect
<1>10. CASE o + ITM_SIZE = lip
  <2> DEFINE to == lip - ITM_SIZE
             ft == frp + n
             e  == ShiftC(c, "lst_itm_ptr", -(-ITM_SIZE), -ITM_SIZE)
             f  == ShiftC(e, "fst_rec_ptr", n, n)
  <2>1. g = HeadAt(to, ft)
    <3>1. g = Head3(h.free_space + ITM_SIZE + n, to, ft)
      BY <1>8, <1>10 DEF MidHead
    <3>2. h.free_space + ITM_SIZE + n = ft - to
      <4> HIDE DEF h, lip, frp, n
      <4> QED BY <1>5, <1>6, SizeAssumption
    <3> QED BY <3>1, <3>2 DEF HeadAt
  <2>2. BorderC(c) = f
    BY <1>2, <1>10 DEF BorderC
  <2>3. /\ to = lip + (-ITM_SIZE) /\ 0 <= to /\ to <= frp /\ to \in Nat
        /\ -ITM_SIZE \in Int /\ ft = frp + n /\ to <= ft /\ ft <= SECTION_SIZE
        /\ n \in Int
    <3> HIDE DEF lip, frp, n
    <3> QED BY <1>5, <1>6, <1>7, <1>10, SizeAssumption
  <2> HIDE DEF h, lip, frp, to, ft, g, n, x
  <2>4. State(e, HeadAt(to, frp), HeadAt(to, frp), s.itm, s.rec, o, x, key, val)
    <3> HIDE DEF e
    <3>1. PICK d : /\ Runs(sect_head_shift_lip_Steps(-ITM_SIZE), c, d)
                   /\ State(d, HeadAt(to, frp), HeadAt(to, frp), s.itm, s.rec,
                            o, x, key, val)
      BY <1>4, <1>5, <1>9, <2>3, ShiftLipMakes DEF Makes
    <3>2. Runs(sect_head_shift_lip_Steps(-ITM_SIZE), c, e)
      BY <1>2, ShiftRuns DEF sect_head_shift_lip_Steps, e
    <3>3. d = e
      BY <3>1, <3>2, RunsSame
    <3> QED BY <3>1, <3>3
  <2> HIDE DEF e
  <2>5. State(f, HeadAt(to, ft), HeadAt(to, ft), s.itm, s.rec, o, x, key, val)
    <3> HIDE DEF f
    <3>1. PICK d : /\ Runs(sect_head_shift_frp_Steps(n), e, d)
                   /\ State(d, HeadAt(to, ft), HeadAt(to, ft), s.itm, s.rec,
                            o, x, key, val)
      BY <1>4, <1>5, <2>3, <2>4, ShiftFrpMakes DEF Makes
    <3>2. e.phase = "none"
      BY <2>4 DEF State, Between
    <3>3. Runs(sect_head_shift_frp_Steps(n), e, f)
      BY <3>2, ShiftRuns DEF sect_head_shift_frp_Steps, f
    <3>4. d = f
      BY <3>1, <3>3, RunsSame
    <3> QED BY <3>1, <3>4
  <2> HIDE DEF f
  <2>6. State(Exec(st, c), g, g, s.itm, s.rec, o, x, key, val)
    BY <1>3, <2>1, <2>2, <2>5
  <2> QED BY <1>3, <2>6 DEF g, x
<1>11. CASE o + ITM_SIZE # lip
  <2>1. BorderC(c) = c
    BY <1>2, <1>11 DEF BorderC
  <2>2. g = h
    BY <1>11 DEF MidHead
  <2>3. State(c, h, h, s.itm, s.rec, o, x, key, val)
    BY <1>4 DEF HoldsSect
  <2> QED BY <1>3, <2>1, <2>2, <2>3
<1> QED BY <1>10, <1>11

\* The record is zeroed.
LEMMA ZeroRecMakes ==
    ASSUME NEW s, Loose(s), NEW o \in DOMAIN s.itm, NEW c, NEW g, NEW key, NEW val,
           State(c, g, g, s.itm, s.rec, o, s.itm[o], key, val),
           NEW st, st = <<"at", "rec", "fwrite", "zero_rec">>
    PROVE  /\ Ok(st, c)
           /\ State(Exec(st, c), g, g, s.itm, MidRec(s, o), o, s.itm[o], key, val)
<1> DEFINE x    == s.itm[o]
           n    == entity_rec_sz(x)
           at   == RecStart(x)
           data == Zeros(n)
<1>1. st[1] = "at" /\ st[2] = "rec" /\ st[3] = "fwrite" /\ st[4] = "zero_rec"
  OBVIOUS
<1>2. c.ent = x
  BY DEF State
<1>3. /\ Size(c, "zero_rec") = n /\ Dest(g, c, "rec") = at
      /\ Data(g, c, "zero_rec") = data
  BY <1>2 DEF Size, Dest, Data, RecStart
<1>4. at \in Nat /\ n \in Nat /\ RecEnd(x) = at + n
  BY LiveRecord
<1>5. Items(s.itm) /\ DOMAIN s.rec = Addr
  BY LooseCells
<1>6. s.rec = [a \in Addr |-> s.rec[a]]
  BY LooseTypes
<1> HIDE DEF x, n, at
<1>7. Len(data) = n /\ \A i \in 1..n : data[i] = 0
  BY <1>4 DEF Zeros
<1>8. n # 0 => Behind(s.itm, at, n)
  <2> SUFFICES ASSUME n # 0 PROVE Behind(s.itm, at, n)
    OBVIOUS
  <2>1. o \in Owners(s)
    BY DEF Owners, n, x
  <2>2. /\ s.head.fst_rec_ptr <= at /\ RecEnd(x) <= SECTION_SIZE
    BY <2>1, OwnerFacts DEF at, x
  <2>3. /\ s.head.lst_itm_ptr \in Nat /\ s.head.fst_rec_ptr \in Nat
        /\ HEAD_SIZE <= s.head.lst_itm_ptr
        /\ s.head.lst_itm_ptr <= s.head.fst_rec_ptr
    BY LooseCells, CoherentNums
  <2>4. \A y \in DOMAIN s.itm : y \in Nat /\ y + ITM_SIZE <= s.head.lst_itm_ptr
    <3>1. \A y \in DOMAIN s.itm : y \in Nat
      BY LooseTypes
    <3>2. \A y \in DOMAIN s.itm : y + ITM_SIZE <= s.head.lst_itm_ptr
      BY LooseCells
    <3> QED BY <3>1, <3>2
  <2>5. ASSUME NEW y \in DOMAIN s.itm PROVE y + ITM_SIZE <= at
    BY <1>4, <2>2, <2>3, <2>4, SizeAssumption
  <2>6. HEAD_SIZE <= at /\ at + n <= SECTION_SIZE
    BY <1>4, <2>2, <2>3, SizeAssumption
  <2> QED BY <1>4, <2>5, <2>6 DEF Behind
<1>9. Overwrite(s.rec, at, data) = MidRec(s, o)
  <2>1. sect_ext_rd_itm(s, o) = x
    BY DEF sect_ext_rd_itm, x
  <2>2. MidRec(s, o) = [b \in Addr |-> IF at <= b /\ b < at + n THEN 0 ELSE s.rec[b]]
    BY <1>4, <2>1 DEF MidRec, at
  <2>3. ASSUME NEW b \in Addr, b >= at, b < at + n PROVE data[b - at + 1] = 0
    <3>1. b \in Int
      BY SizeAssumption DEF Addr
    <3>2. b - at + 1 \in 1..n
      BY <1>4, <2>3, <3>1
    <3> QED BY <1>7, <3>2
  <2> HIDE DEF data
  <2>4. Overwrite(s.rec, at, data)
          = [b \in Addr |-> IF b >= at /\ b < at + n THEN data[b - at + 1] ELSE s.rec[b]]
    BY <1>5, <1>7 DEF Overwrite
  <2>5. \A b \in Addr : b \in Int /\ (b >= at <=> at <= b)
    BY <1>4, SizeAssumption DEF Addr
  <2>6. \A b \in Addr : (IF b >= at /\ b < at + n THEN data[b - at + 1] ELSE s.rec[b])
                        = (IF at <= b /\ b < at + n THEN 0 ELSE s.rec[b])
    BY <2>3, <2>5
  <2> QED BY <2>2, <2>4, <2>6
<1> HIDE DEF data
<1>10. /\ Size(c, st[4]) = Len(data) /\ Dest(g, c, st[2]) = at
       /\ Data(g, c, st[4]) = data
  BY <1>1, <1>3, <1>7
<1>11. at \in Int /\ Len(data) \in Nat /\ (Len(data) # 0 => Behind(s.itm, at, Len(data)))
  BY <1>4, <1>7, <1>8
<1>12. /\ Ok(st, c)
       /\ State(Exec(st, c), g, g, s.itm, Overwrite(s.rec, at, data), o, s.itm[o],
                key, val)
  BY <1>1, <1>5, <1>6, <1>10, <1>11, BytesMake
<1> QED BY <1>9, <1>12

\* The slot of the entity is zeroed.
LEMMA ZeroEntMakes ==
    ASSUME NEW s, Loose(s), NEW o \in DOMAIN s.itm, NEW c, NEW key, NEW val,
           State(c, MidHead(s, o), MidHead(s, o), s.itm, MidRec(s, o), o, s.itm[o],
                 key, val),
           NEW st, st = <<"at", "soff", "fwrite", "zero_ent">>
    PROVE  /\ Ok(st, c)
           /\ HoldsSect(Exec(st, c), Mid(s, o), o, s.itm[o], key, val)
<1> DEFINE e == Exec(st, c)
           g == MidHead(s, o)
           r == MidRec(s, o)
<1>1. /\ c.phase = "none" /\ c.reg = 0 /\ c.head = g /\ c.soff = o
      /\ Holds(c.disk, g, s.itm, r) /\ c.ent = s.itm[o] /\ c.key = key /\ c.val = val
  BY DEF State, Between
<1>2. st[1] = "at" /\ st[2] = "soff" /\ st[3] = "fwrite" /\ st[4] = "zero_ent"
  OBVIOUS
<1>3. /\ Size(c, "zero_ent") = ITM_SIZE /\ Dest(c.head, c, "soff") = o
      /\ Data(c.head, c, "zero_ent") = Zeros(ITM_SIZE)
  BY <1>1 DEF Size, Dest, Data
<1>4. Items(s.itm)
  BY LooseCells
<1>5. o \in Slots /\ o + ITM_SIZE <= SECTION_SIZE
  BY <1>4 DEF Items
<1>6. o >= 0 /\ ITM_SIZE # 0
  BY <1>5, SizeAssumption DEF Slots
<1>7. /\ Ok(st, c) /\ e.head = c.head /\ e.reg = c.reg
      /\ e.phase = "none" /\ e.dest = 0 /\ e.soff = c.soff
      /\ e.ent = c.ent /\ e.key = c.key /\ e.val = c.val
      /\ e.disk = Put(c.disk, o, Zeros(ITM_SIZE))
  BY <1>1, <1>2, <1>3, <1>6, AtWrite
<1> HIDE DEF e, g
<1>8. ASSUME NEW i \in 1..ITM_SIZE PROVE r[o + i - 1] = 0
  <2>1. o + i - 1 \in Addr
    BY <1>5, ItemCells
  <2>2. o + ITM_SIZE <= s.head.lst_itm_ptr
    BY LooseCells
  <2>3. s.rec[o + i - 1] = 0
    BY <1>5, <2>2, LooseCells
  <2> QED BY <2>1, <2>3 DEF MidRec
<1> HIDE DEF r
<1>9. Holds(e.disk, g, Without(s.itm, o), r)
  BY <1>1, <1>4, <1>7, <1>8, HoldsClear
<1>10. /\ Mid(s, o).head = g /\ Mid(s, o).disk = g
       /\ Mid(s, o).itm = Without(s.itm, o) /\ Mid(s, o).rec = r
  BY Fields DEF Mid, Without, g, r
<1>11. HoldsSect(e, Mid(s, o), o, s.itm[o], key, val)
  BY <1>1, <1>7, <1>9, <1>10 DEF HoldsSect, State, Between
<1> QED BY <1>7, <1>11 DEF e

\* The two loops of sect_ext_delete, with the reads before and the sync behind
\* them.
LipSteps == <<SlotStep, <<"cmprs_lip">> >>
FrpSteps == <<ChrStep, <<"cmprs_frp">> >>

\* sect_head_cmprs_lip adds up, but for its sync.
LEMMA LipMakes ==
    ASSUME NEW m, Loose(m), PlacedAll(m.itm), NEW c, NEW soff, NEW ent, NEW key,
           NEW val, HoldsSect(c, m, soff, ent, key, val),
           NEW l, l = Max(CmprsLipStops(m))
    PROVE  Makes(LipSteps, c, LipHead(m.head, l), m.disk, m.itm, m.rec,
                 soff, ent, key, val)
<1> DEFINE a2 == <<"cmprs_lip">>
           b  == Exec(SlotStep, c)
           e  == Exec(a2, b)
<1>1. /\ Between(c) /\ c.head = m.head /\ Holds(c.disk, m.disk, m.itm, m.rec)
      /\ c.soff = soff /\ c.ent = ent /\ c.key = key /\ c.val = val
  BY DEF HoldsSect, State
<1>2. /\ Items(m.itm) /\ Coherent(m.head)
      /\ \A o \in Slots : o + ITM_SIZE <= m.head.lst_itm_ptr =>
            \A i \in 1..ITM_SIZE : m.rec[o + i - 1] = 0
  BY LooseCells
<1>3. Ok(SlotStep, c) /\ LipOk(b) /\ OnlyBuf(c, b)
  BY <1>1, <1>2, SlotRead
<1>4. a2[1] = "cmprs_lip"
  OBVIOUS
<1>5. Ok(a2, b) /\ e = LipC(b)
  <2> HIDE DEF b
  <2> QED BY <1>3, <1>4 DEF Ok, Exec
<1> HIDE DEF a2, b, e
<1>6. LipStops(b) = CmprsLipStops(m)
  <2>1. b.head = m.head /\ b.disk = c.disk
    BY <1>1, <1>3 DEF OnlyBuf
  <2>2. ASSUME NEW x \in Slots, x <= m.head.lst_itm_ptr, x # HEAD_SIZE
        PROVE  Get(c.disk, x - ITM_SIZE, ITM_SIZE) # Zeros(ITM_SIZE)
                 <=> x - ITM_SIZE \in DOMAIN m.itm
    <3> DEFINE y == x - ITM_SIZE
    <3>1. y \in Slots
      BY <2>2, SlotPrev
    <3>2. y + ITM_SIZE = x /\ x <= SECTION_SIZE
      BY SizeAssumption DEF Slots
    <3> HIDE DEF y
    <3>3. y + ITM_SIZE <= m.head.lst_itm_ptr /\ y + ITM_SIZE <= SECTION_SIZE
      BY <2>2, <3>2
    <3>4. \A i \in 1..ITM_SIZE : m.rec[y + i - 1] = 0
      BY <1>2, <3>1, <3>3
    <3>5. y \in DOMAIN m.itm => m.itm[y].val_ptr # 0
      BY DEF PlacedAll
    <3>6. Get(c.disk, y, ITM_SIZE) # Zeros(ITM_SIZE) <=> y \in DOMAIN m.itm
      BY <1>1, <1>2, <3>1, <3>3, <3>4, <3>5, SlotEmpty
    <3> QED BY <3>6 DEF y
  <2> QED BY <2>1, <2>2 DEF LipStops, CmprsLipStops
<1>7. e = Closed(b, LipHead(m.head, l))
  <2>1. b.head = m.head
    BY <1>1, <1>3 DEF OnlyBuf
  <2> QED BY <1>5, <1>6, <2>1 DEF LipC
<1>8. State(e, LipHead(m.head, l), m.disk, m.itm, m.rec, soff, ent, key, val)
  BY <1>1, <1>3, <1>7 DEF Closed, OnlyBuf, State, Between
<1>9. Runs(<<SlotStep, a2>>, c, e)
  BY <1>3, <1>5, RunsTwo DEF b, e
<1> QED BY <1>8, <1>9 DEF Makes, LipSteps, a2

\* sect_head_cmprs_frp adds up, but for its sync.
LEMMA FrpMakes ==
    ASSUME NEW g, NEW itm, NEW rec, Coherent(g), DOMAIN rec = Addr,
           \A o \in DOMAIN itm : o \in Nat /\ o + ITM_SIZE <= g.fst_rec_ptr,
           NEW c, NEW soff, NEW ent, NEW key, NEW val,
           State(c, g, g, itm, rec, soff, ent, key, val),
           NEW f, f = Min(CmprsFrpStops(Sect(g, g, itm, rec)))
    PROVE  Makes(FrpSteps, c, FrpHead(g, f), g, itm, rec, soff, ent, key, val)
<1> DEFINE a2 == <<"cmprs_frp">>
           b  == Exec(ChrStep, c)
           e  == Exec(a2, b)
           m  == Sect(g, g, itm, rec)
<1>1. /\ Between(c) /\ c.head = g /\ Holds(c.disk, g, itm, rec)
      /\ c.soff = soff /\ c.ent = ent /\ c.key = key /\ c.val = val
  BY DEF State
<1>2. Ok(ChrStep, c) /\ FrpOk(b) /\ OnlyBuf(c, b)
  BY <1>1, ChrRead
<1>3. a2[1] = "cmprs_frp"
  OBVIOUS
<1>4. Ok(a2, b) /\ e = FrpC(b)
  <2> HIDE DEF b
  <2> QED BY <1>2, <1>3 DEF Ok, Exec
<1> HIDE DEF a2, b, e
<1>5. FrpStops(b) = CmprsFrpStops(m)
  <2>1. b.head = g /\ b.disk = c.disk
    BY <1>1, <1>2 DEF OnlyBuf
  <2>2. m.head = g /\ m.rec = rec
    BY Fields
  <2>3. g.fst_rec_ptr \in Nat /\ HEAD_SIZE <= g.fst_rec_ptr
    <3>1. /\ g.lst_itm_ptr \in Nat /\ HEAD_SIZE <= g.lst_itm_ptr
          /\ g.lst_itm_ptr <= g.fst_rec_ptr /\ g.fst_rec_ptr \in Nat
      BY CoherentNums
    <3> QED BY <3>1, SizeAssumption
  <2>4. ASSUME NEW x \in g.fst_rec_ptr..SECTION_SIZE, x # SECTION_SIZE
        PROVE  c.disk[x] = rec[x]
    <3>1. x \in Addr /\ x \in Nat /\ g.fst_rec_ptr <= x
      BY <2>3, <2>4, SizeAssumption DEF Addr
    <3>2. NoItem(itm, x)
      <4>1. ASSUME NEW o \in DOMAIN itm PROVE o + ITM_SIZE <= x
        <5>1. o \in Nat /\ o + ITM_SIZE <= g.fst_rec_ptr
          OBVIOUS
        <5> QED BY <2>3, <3>1, <5>1, SizeAssumption
      <4> QED BY <4>1 DEF NoItem
    <3> QED BY <1>1, <3>1, <3>2 DEF Holds
  <2> HIDE DEF m
  <2> QED BY <2>1, <2>2, <2>4 DEF FrpStops, CmprsFrpStops
<1>6. e = Closed(b, FrpHead(g, f))
  <2>1. b.head = g
    BY <1>1, <1>2 DEF OnlyBuf
  <2> QED BY <1>4, <1>5, <2>1 DEF FrpC
<1>7. State(e, FrpHead(g, f), g, itm, rec, soff, ent, key, val)
  BY <1>1, <1>2, <1>6 DEF Closed, OnlyBuf, State, Between
<1>8. Runs(<<ChrStep, a2>>, c, e)
  BY <1>2, <1>4, RunsTwo DEF b, e
<1> QED BY <1>7, <1>8 DEF Makes, FrpSteps, a2

\* The end of sect_ext_delete behind the statements first: both loops and
\* their syncs.
ThenCompress(first) ==
    ((((first \o LipSteps) \o sect_head_sync_Steps) \o FrpSteps)
     \o sect_head_sync_Steps) \o sect_head_sync_Steps

\* It adds up to Compress.
LEMMA CompressMakes ==
    ASSUME NEW m, Loose(m), PlacedAll(m.itm), NEW c, NEW soff, NEW ent, NEW key,
           NEW val, HoldsSect(c, m, soff, ent, key, val),
           NEW first, NEW b, Runs(first, b, c)
    PROVE  \E d : /\ Runs(ThenCompress(first), b, d)
                  /\ HoldsSect(d, Compress(m), soff, ent, key, val)
<1> DEFINE h   == m.head
           l   == Max(CmprsLipStops(m))
           g   == LipHead(h, l)
           m1  == Sect(g, g, m.itm, m.rec)
           f   == Min(CmprsFrpStops(m1))
           z   == FrpHead(g, f)
           itm == m.itm
           rec == m.rec
<1>1. /\ m = Sect(h, m.disk, itm, rec)
      /\ \A o \in DOMAIN itm : o \in Slots /\ o \in Nat
  BY LooseTypes
<1>2. /\ Items(itm) /\ Coherent(h) /\ DOMAIN rec = Addr
      /\ \A o \in DOMAIN itm : o + ITM_SIZE <= h.lst_itm_ptr
  BY LooseCells
<1>3. /\ h.lst_itm_ptr \in Slots /\ h.lst_itm_ptr \in Nat
      /\ h.lst_itm_ptr <= h.fst_rec_ptr /\ h.fst_rec_ptr \in Nat
      /\ h.fst_rec_ptr <= SECTION_SIZE
      /\ h.free_space = h.fst_rec_ptr - h.lst_itm_ptr
  BY <1>2, CoherentNums
<1>4. l \in Slots /\ l <= h.lst_itm_ptr
  BY <1>3, CmprsLipStop
<1> HIDE DEF l
<1>5. l \in Nat /\ l <= h.fst_rec_ptr
      /\ h.free_space + (h.lst_itm_ptr - l) = h.fst_rec_ptr - l
  <2>1. l \in Nat
    BY <1>4, SizeAssumption DEF Slots
  <2> HIDE DEF h
  <2> QED BY <1>3, <1>4, <2>1
<1>6. g = HeadAt(l, h.fst_rec_ptr)
  BY <1>5 DEF LipHead, HeadAt
<1>7. Coherent(g) /\ g.fst_rec_ptr = h.fst_rec_ptr
  <2> HIDE DEF g
  <2> QED BY <1>3, <1>4, <1>5, <1>6, CoherentAt
<1> HIDE DEF g, f, z, h
<1>8. \A o \in DOMAIN itm : o \in Nat /\ o + ITM_SIZE <= g.fst_rec_ptr
  BY <1>1, <1>2, <1>3, <1>7, SizeAssumption
<1> HIDE DEF itm, rec, m1
<1>9. Compress(m) = Sect(z, z, itm, rec)
  <2>1. sect_head_cmprs_lip(m) = m1
    BY <1>1, CmprsLipOp DEF l, g, m1, itm, rec, h
  <2>2. ~(g.fst_rec_ptr > SECTION_SIZE)
    BY <1>3, <1>7, SizeAssumption
  <2>3. sect_head_cmprs_frp(m1) = Sect(z, z, itm, rec)
    BY <2>2, CmprsFrpOp DEF f, z, m1, itm, rec
  <2> QED BY <2>1, <2>3, SyncOp DEF Compress
<1>10. PICK c1 : /\ Runs(LipSteps, c, c1)
                 /\ State(c1, g, m.disk, itm, rec, soff, ent, key, val)
  BY LipMakes DEF Makes, l, g, itm, rec, h
<1>11. PICK c2 : /\ Runs(sect_head_sync_Steps, c1, c2)
                 /\ State(c2, g, g, itm, rec, soff, ent, key, val)
  BY <1>2, <1>10, SyncMakes DEF Makes
<1>12. PICK c3 : /\ Runs(FrpSteps, c2, c3)
                 /\ State(c3, z, g, itm, rec, soff, ent, key, val)
  BY <1>2, <1>7, <1>8, <1>11, FrpMakes DEF Makes, f, z, m1, itm, rec
<1>13. PICK c4 : /\ Runs(sect_head_sync_Steps, c3, c4)
                 /\ State(c4, z, z, itm, rec, soff, ent, key, val)
  BY <1>2, <1>12, SyncMakes DEF Makes
<1>14. PICK d : /\ Runs(sect_head_sync_Steps, c4, d)
                /\ State(d, z, z, itm, rec, soff, ent, key, val)
  BY <1>2, <1>13, SyncMakes DEF Makes
<1>15. HoldsSect(d, Compress(m), soff, ent, key, val)
  BY <1>9, <1>14, Fields DEF HoldsSect
<1>16. Runs(ThenCompress(first), b, d)
  <2> DEFINE t1 == first \o LipSteps
             t2 == t1 \o sect_head_sync_Steps
             t3 == t2 \o FrpSteps
             t4 == t3 \o sect_head_sync_Steps
  <2>1. Runs(t1, b, c1)
    BY <1>10, RunsConcat
  <2> HIDE DEF t1
  <2>2. Runs(t2, b, c2)
    BY <1>11, <2>1, RunsConcat
  <2> HIDE DEF t2
  <2>3. Runs(t3, b, c3)
    BY <1>12, <2>2, RunsConcat
  <2> HIDE DEF t3
  <2>4. Runs(t4, b, c4)
    BY <1>13, <2>3, RunsConcat
  <2> HIDE DEF t4
  <2>5. Runs(t4 \o sect_head_sync_Steps, b, d)
    BY <1>14, <2>4, RunsConcat
  <2> QED BY <2>5 DEF ThenCompress, t1, t2, t3, t4
<1> QED BY <1>15, <1>16

\* What the call of sect_ext_delete ends with.
DeleteDone(s, o, d) == HoldsSect(d, sect_ext_delete(s, o), o, s.itm[o], <<>>, <<>>)

\* sect_ext_delete adds up.
LEMMA DeleteMakes ==
    ASSUME NEW s, SectInv(s), PlacedAll(s.itm), NEW o \in DOMAIN s.itm, NEW c,
           NEW ent, HoldsSect(c, s, o, ent, <<>>, <<>>)
    PROVE  \E d : Runs(DeleteSteps, c, d) /\ DeleteDone(s, o, d)
<1> DEFINE x  == s.itm[o]
           m  == Mid(s, o)
           a1 == <<"at", "soff", "fread", "ent">>
           a2 == <<"border">>
           a3 == <<"at", "rec", "fwrite", "zero_rec">>
           a4 == <<"at", "soff", "fwrite", "zero_ent">>
           c1 == Exec(a1, c)
           c2 == Exec(a2, c1)
           c3 == Exec(a3, c2)
           c4 == Exec(a4, c3)
           first == <<a1, a2, a3, a4>>
<1>1. Loose(s) /\ o \in Slots /\ o \in Nat
  BY LooseTypes DEF SectInv
<1>2. Loose(m) /\ sect_ext_delete(s, o) = Compress(m)
  BY <1>1, MidInv, DeleteOp
<1>3. PlacedAll(m.itm)
  <2>1. m.itm = [y \in DOMAIN s.itm \ {o} |-> s.itm[y]]
    BY Fields DEF Mid
  <2> HIDE DEF m
  <2> QED BY <2>1 DEF PlacedAll
<1> HIDE DEF m
<1>4. Ok(a1, c) /\ HoldsSect(c1, s, o, x, <<>>, <<>>)
  <2> HIDE DEF c1
  <2> QED BY <1>1, EntityRead DEF c1
<1> HIDE DEF c1
<1>5. /\ Ok(a2, c1)
      /\ State(c2, MidHead(s, o), MidHead(s, o), s.itm, s.rec, o, x, <<>>, <<>>)
  <2> HIDE DEF c2
  <2> QED BY <1>1, <1>4, BorderMakes DEF c2
<1> HIDE DEF c2
<1>6. /\ Ok(a3, c2)
      /\ State(c3, MidHead(s, o), MidHead(s, o), s.itm, MidRec(s, o), o, x,
               <<>>, <<>>)
  <2> HIDE DEF c3
  <2> QED BY <1>1, <1>5, ZeroRecMakes DEF c3
<1> HIDE DEF c3
<1>7. Ok(a4, c3) /\ HoldsSect(c4, m, o, x, <<>>, <<>>)
  <2> HIDE DEF c4
  <2> QED BY <1>1, <1>6, ZeroEntMakes DEF c4, m
<1> HIDE DEF c4
<1>8. Runs(first, c, c4)
  <2> HIDE DEF a1, a2, a3, a4
  <2>1. Runs(<<a1, a2, a3>>, c, c3)
    BY <1>4, <1>5, <1>6, RunsThree DEF c1, c2, c3
  <2>2. Runs(<<a4>>, c3, c4)
    BY <1>7, RunsOne DEF c4
  <2>3. Runs(<<a1, a2, a3>> \o <<a4>>, c, c4)
    BY <2>1, <2>2, RunsConcat
  <2> QED BY <2>3, Tuple4
<1>9. DeleteSteps = ThenCompress(first)
  <2> DEFINE lead == <<a1, a2, a3, a4, SlotStep, <<"cmprs_lip">> >>
  <2>1. first \o LipSteps = lead
    <3> DEFINE b == <<"cmprs_lip">>
    <3> HIDE DEF a1, a2, a3, a4, b
    <3> QED BY Tuple42 DEF LipSteps, b
  <2>2. DeleteSteps = (((lead \o sect_head_sync_Steps) \o FrpSteps)
                       \o sect_head_sync_Steps) \o sect_head_sync_Steps
    BY DEF DeleteSteps, FrpSteps, SlotStep, ChrStep
  <2> HIDE DEF lead, first
  <2> QED BY <2>1, <2>2 DEF ThenCompress
<1> HIDE DEF first, x
<1>10. PICK d : /\ Runs(ThenCompress(first), c, d)
                /\ HoldsSect(d, Compress(m), o, x, <<>>, <<>>)
  BY <1>2, <1>3, <1>7, <1>8, CompressMakes
<1>11. DeleteDone(s, o, d)
  BY <1>2, <1>10 DEF DeleteDone, x
<1> QED BY <1>9, <1>10, <1>11

-----------------------------------------------------------------------------
(* The inductive invariant, over the values of the variables: h, p, D are  *)
(* head, pos and disk, l the locals of the thread, nd is nodes, s is sect. *)

\* The header and the file are the section s.
AtRest(h, D, s) == h = s.head /\ Holds(D, s.disk, s.itm, s.rec)

\* sect_ext_write is about to find no room.
NoRoom(l, s) ==
    /\ l.call = "write" /\ l.todo # <<>> /\ Head(l.todo)[1] = "check"
    /\ ~(s.head.free_space >= ITM_SIZE + entity_rec_sz(l.ent))

\* The statements left of a call lead to d; what d is for each call.
Ends(call, nd, s, d) ==
    \/ /\ call = "write" /\ nd = Content(s)
       /\ \E p \in Payloads, a \in Attrs : CanWrite(s, p) /\ WriteDone(s, p, a, d)
    \/ /\ call = "read" /\ nd = Content(s)
       /\ d.soff \in DOMAIN s.itm /\ ReadDone(s, d.soff, d)
    \/ /\ call = "delete" /\ nd = Content(sect_ext_delete(s, d.soff))
       /\ d.soff \in DOMAIN s.itm /\ DeleteDone(s, d.soff, d)

\* Between the calls, and while a write that will fail has not looked yet, the
\* header and the file are the section; in a call, the statements that are left
\* make them what the call has to make them.
OnCourse(h, p, D, l, nd, s) ==
    /\ IsLocals(l) /\ SectInv(s) /\ PlacedAll(s.itm)
    /\ \/ (l = Idle \/ NoRoom(l, s)) /\ AtRest(h, D, s) /\ nd = Content(s)
       \/ \E d : Going(h, p, D, l, d) /\ Ends(l.call, nd, s, d)

\* The inductive invariant of the one thread t.
ThreadInv(t) == t \in DOMAIN th /\ OnCourse(head, pos, disk, th[t], nodes, sect)

\* The statements of sect_ext_write begin with its test.
LEMMA WriteStarts ==
    ASSUME NEW p
    PROVE  WriteSteps(p) # <<>> /\ Head(WriteSteps(p))[1] = "check"
<1> DEFINE First(q) == IsSeq(q) /\ q # <<>> /\ Head(q)[1] = "check"
<1>1. ASSUME NEW q, NEW r, First(q), IsSeq(r) PROVE First(q \o r)
  <2>1. PICK S : q \in Seq(S) /\ r \in Seq(S)
    BY <1>1, SeqsAlike
  <2>2. q \o r \in Seq(S) /\ q \o r # <<>> /\ Head(q \o r) = Head(q)
    BY <1>1, <2>1
  <2> QED BY <1>1, <2>2 DEF IsSeq
<1>2. ASSUME NEW ptr, NEW free, NEW by PROVE IsSeq(Shift(ptr, free, by))
  <2> DEFINE c == [phase |-> "none"]
  <2>1. c.phase = "none"
    OBVIOUS
  <2> HIDE DEF c
  <2>2. Runs(Shift(ptr, free, by), c, ShiftC(c, ptr, free, by))
    BY <2>1, ShiftRuns
  <2> QED BY <2>2 DEF Runs
<1>3. /\ IsSeq(sect_head_shift_frp_Steps(-Len(p.key)))
      /\ IsSeq(sect_head_shift_frp_Steps(-Len(p.val)))
      /\ IsSeq(sect_head_shift_lip_Steps(ITM_SIZE))
  BY <1>2 DEF sect_head_shift_frp_Steps, sect_head_shift_lip_Steps
<1> DEFINE t1 == << <<"check">>, <<"save_addr">> >>
           t2 == sect_head_shift_frp_Steps(-Len(p.key))
           t3 == << <<"at", "frp", "fwrite", "key">>, <<"note", "key">> >>
           t4 == sect_head_shift_frp_Steps(-Len(p.val))
           t5 == << <<"at", "frp", "fwrite", "val">>, <<"note", "val">>,
                    <<"at", "lip", "fwrite", "ent">> >>
           t6 == sect_head_shift_lip_Steps(ITM_SIZE)
           t7 == sect_head_sync_Steps
<1>4. WriteSteps(p) = (((((t1 \o t2) \o t3) \o t4) \o t5) \o t6) \o t7
  BY DEF WriteSteps
<1>5. IsSeq(t3) /\ IsSeq(t5) /\ IsSeq(t7)
  <2>1. ASSUME NEW a1, NEW a2, NEW a3
        PROVE  /\ <<a1>> \in Seq({a1}) /\ <<a1, a2>> \in Seq({a1, a2})
               /\ <<a1, a2, a3>> \in Seq({a1, a2, a3})
    OBVIOUS
  <2> QED BY <2>1 DEF IsSeq, sect_head_sync_Steps
<1>6. First(t1)
  <2> DEFINE a1 == <<"check">>
             a2 == <<"save_addr">>
  <2>1. a1[1] = "check" /\ t1 = <<a1, a2>>
    OBVIOUS
  <2> HIDE DEF a1, a2, t1
  <2>2. <<a1, a2>> \in Seq({a1, a2}) /\ <<a1, a2>> # <<>> /\ Head(<<a1, a2>>) = a1
    OBVIOUS
  <2> QED BY <2>1, <2>2 DEF IsSeq
<1> HIDE DEF t1, t2, t3, t4, t5, t6, t7, First
<1>7. First(((t1 \o t2) \o t3) \o t4)
  BY <1>1, <1>3, <1>5, <1>6 DEF t2, t4
<1>8. First(WriteSteps(p))
  BY <1>1, <1>3, <1>4, <1>5, <1>7 DEF t6
<1> QED BY <1>8 DEF First

\* What a thread sees of the section when it enters a call.
LEMMA CallStarts ==
    ASSUME NEW h, NEW p, NEW D, NEW s, AtRest(h, D, s), NEW l,
           l.phase = "none", l.reg = 0, l.dest = 0
    PROVE  HoldsSect(Conf(h, p, D, l), s, l.soff, l.ent, l.key, l.val)
BY DEF Conf, AtRest, HoldsSect, State, Between

\* The fields of Idle.
LEMMA IdleFields ==
    /\ IsLocals(Idle) /\ Idle.call = "none" /\ Idle.todo = <<>>
    /\ Idle.phase = "none" /\ Idle.reg = 0 /\ Idle.dest = 0
    /\ Idle.key = <<>> /\ Idle.val = <<>>
BY DEF Idle, IsLocals

\* A handler calls sect_ext_write.
LEMMA CallWriteInv ==
    ASSUME NEW t, ThreadInv(t), NEW p \in Payloads, NEW a \in Attrs,
           CallWrite(t, p, a)
    PROVE  ThreadInv(t)'
<1> DEFINE l == [Idle EXCEPT !.call = "write", !.todo = WriteSteps(p),
                         !.key = p.key, !.val = p.val, !.ent = EntityInit(p, a)]
<1>1. /\ t \in DOMAIN th /\ IsLocals(th[t]) /\ SectInv(sect) /\ PlacedAll(sect.itm)
  BY DEF ThreadInv, OnCourse
<1>2. /\ th[t].call = "none" /\ UNCHANGED <<head, pos, disk, nodes, sect>>
      /\ th' = [th EXCEPT ![t] = [Idle EXCEPT
                !.call = "write", !.todo = WriteSteps(p), !.key = p.key,
                !.val = p.val, !.ent = EntityInit(p, a)]]
  BY DEF CallWrite, shared
<1>3. AtRest(head, disk, sect) /\ nodes = Content(sect)
  <2>1. ~NoRoom(th[t], sect) /\ \A d : ~Ends(th[t].call, nodes, sect, d)
    BY <1>2 DEF NoRoom, Ends
  <2> QED BY <2>1 DEF ThreadInv, OnCourse
<1>4. t \in DOMAIN th' /\ th'[t] = l
  <2>1. th' = [th EXCEPT ![t] = l]
    BY <1>2
  <2> HIDE DEF l
  <2> QED BY <1>1, <2>1
<1>5. /\ IsLocals(l) /\ l.phase = "none" /\ l.reg = 0 /\ l.dest = 0
      /\ l.call = "write" /\ l.todo = WriteSteps(p) /\ l.ent = EntityInit(p, a)
      /\ l.key = p.key /\ l.val = p.val
  BY IdleFields DEF IsLocals
<1> HIDE DEF l
<1>6. HoldsSect(Conf(head, pos, disk, l), sect, l.soff, l.ent, l.key, l.val)
  BY <1>3, <1>5, CallStarts
<1>7. OnCourse(head, pos, disk, l, nodes, sect)
  <2>1. CASE CanWrite(sect, p)
    <3>1. Loose(sect)
      BY <1>1 DEF SectInv
    <3>2. HoldsSect(Conf(head, pos, disk, l), sect, l.soff, EntityInit(p, a),
                    p.key, p.val)
      BY <1>5, <1>6
    <3>3. PICK d : /\ Runs(WriteSteps(p), Conf(head, pos, disk, l), d)
                   /\ WriteDone(sect, p, a, d)
      BY <2>1, <3>1, <3>2, WriteMakes
    <3>4. Going(head, pos, disk, l, d)
      BY <1>5, <3>3 DEF Going
    <3>5. Ends(l.call, nodes, sect, d)
      BY <1>3, <1>5, <2>1, <3>3 DEF Ends
    <3> QED BY <1>1, <1>5, <3>4, <3>5 DEF OnCourse
  <2>2. CASE ~CanWrite(sect, p)
    <3>1. ~(sect.head.free_space >= ITM_SIZE + entity_rec_sz(l.ent))
      <4>1. entity_rec_sz(l.ent) = Len(p.key) + Len(p.val)
        BY <1>5 DEF entity_rec_sz, EntityInit
      <4>2. Len(p.key) \in Nat /\ Len(p.val) \in Nat
        BY PayloadAssumption
      <4>3. ASSUME NEW k \in Nat, NEW v \in Nat
            PROVE  ITM_SIZE + (k + v) = ITM_SIZE + k + v
        BY SizeAssumption
      <4> QED BY <2>2, <4>1, <4>2, <4>3 DEF CanWrite
    <3>2. NoRoom(l, sect)
      BY <1>5, <3>1, WriteStarts DEF NoRoom
    <3> QED BY <1>1, <1>3, <1>5, <3>2 DEF OnCourse
  <2> QED BY <2>1, <2>2
<1>8. head' = head /\ pos' = pos /\ disk' = disk /\ nodes' = nodes /\ sect' = sect
  BY <1>2
<1>9. OnCourse(head', pos', disk', th'[t], nodes', sect')
  BY <1>4, <1>7, <1>8
<1> QED BY <1>4, <1>9 DEF ThreadInv

\* A handler calls sect_ext_read.
LEMMA CallReadInv ==
    ASSUME NEW t, ThreadInv(t), NEW o \in DOMAIN nodes, CallRead(t, o)
    PROVE  ThreadInv(t)'
<1> DEFINE l == [Idle EXCEPT !.call = "read", !.todo = ReadSteps, !.soff = o]
<1>1. /\ t \in DOMAIN th /\ IsLocals(th[t]) /\ SectInv(sect) /\ PlacedAll(sect.itm)
  BY DEF ThreadInv, OnCourse
<1>2. /\ th[t].call = "none" /\ UNCHANGED <<head, pos, disk, nodes, sect>>
      /\ th' = [th EXCEPT ![t] = [Idle EXCEPT
                !.call = "read", !.todo = ReadSteps, !.soff = o]]
  BY DEF CallRead, shared
<1>3. AtRest(head, disk, sect) /\ nodes = Content(sect)
  <2>1. ~NoRoom(th[t], sect) /\ \A d : ~Ends(th[t].call, nodes, sect, d)
    BY <1>2 DEF NoRoom, Ends
  <2> QED BY <2>1 DEF ThreadInv, OnCourse
<1>4. t \in DOMAIN th' /\ th'[t] = l
  <2>1. th' = [th EXCEPT ![t] = l]
    BY <1>2
  <2> HIDE DEF l
  <2> QED BY <1>1, <2>1
<1>5. /\ IsLocals(l) /\ l.phase = "none" /\ l.reg = 0 /\ l.dest = 0
      /\ l.call = "read" /\ l.todo = ReadSteps /\ l.soff = o
      /\ l.key = <<>> /\ l.val = <<>>
  BY IdleFields DEF IsLocals
<1> HIDE DEF l
<1>6. HoldsSect(Conf(head, pos, disk, l), sect, o, l.ent, <<>>, <<>>)
  BY <1>3, <1>5, CallStarts
<1>7. o \in DOMAIN sect.itm /\ Loose(sect)
  BY <1>1, <1>3, ContentOf DEF SectInv
<1>8. PICK d : /\ Runs(ReadSteps, Conf(head, pos, disk, l), d)
               /\ ReadDone(sect, o, d)
  BY <1>6, <1>7, ReadMakes
<1>9. OnCourse(head, pos, disk, l, nodes, sect)
  <2>1. d.soff = o
    BY <1>8 DEF ReadDone, HoldsSect, State
  <2>2. Going(head, pos, disk, l, d)
    BY <1>5, <1>8 DEF Going
  <2>3. Ends(l.call, nodes, sect, d)
    BY <1>3, <1>5, <1>7, <1>8, <2>1 DEF Ends
  <2> QED BY <1>1, <1>5, <2>2, <2>3 DEF OnCourse
<1>10. head' = head /\ pos' = pos /\ disk' = disk /\ nodes' = nodes /\ sect' = sect
  BY <1>2
<1>11. OnCourse(head', pos', disk', th'[t], nodes', sect')
  BY <1>4, <1>9, <1>10
<1> QED BY <1>4, <1>11 DEF ThreadInv

\* A handler calls sect_ext_delete.
LEMMA CallDeleteInv ==
    ASSUME NEW t, ThreadInv(t), NEW o \in DOMAIN nodes, CallDelete(t, o)
    PROVE  ThreadInv(t)'
<1> DEFINE l == [Idle EXCEPT !.call = "delete", !.todo = DeleteSteps, !.soff = o]
<1>1. /\ t \in DOMAIN th /\ IsLocals(th[t]) /\ SectInv(sect) /\ PlacedAll(sect.itm)
  BY DEF ThreadInv, OnCourse
<1>2. /\ th[t].call = "none" /\ UNCHANGED <<head, pos, disk, sect>>
      /\ th' = [th EXCEPT ![t] = [Idle EXCEPT
                !.call = "delete", !.todo = DeleteSteps, !.soff = o]]
      /\ nodes' = Restrict(nodes, DOMAIN nodes \ {o})
  BY DEF CallDelete, shared
<1>3. AtRest(head, disk, sect) /\ nodes = Content(sect)
  <2>1. ~NoRoom(th[t], sect) /\ \A d : ~Ends(th[t].call, nodes, sect, d)
    BY <1>2 DEF NoRoom, Ends
  <2> QED BY <2>1 DEF ThreadInv, OnCourse
<1>4. t \in DOMAIN th' /\ th'[t] = l
  <2>1. th' = [th EXCEPT ![t] = l]
    BY <1>2
  <2> HIDE DEF l
  <2> QED BY <1>1, <2>1
<1>5. /\ IsLocals(l) /\ l.phase = "none" /\ l.reg = 0 /\ l.dest = 0
      /\ l.call = "delete" /\ l.todo = DeleteSteps /\ l.soff = o
      /\ l.key = <<>> /\ l.val = <<>>
  BY IdleFields DEF IsLocals
<1> HIDE DEF l
<1>6. HoldsSect(Conf(head, pos, disk, l), sect, o, l.ent, <<>>, <<>>)
  BY <1>3, <1>5, CallStarts
<1>7. o \in DOMAIN sect.itm /\ Loose(sect) /\ DOMAIN nodes = DOMAIN sect.itm
  BY <1>1, <1>3, ContentOf DEF SectInv
<1>8. PICK d : /\ Runs(DeleteSteps, Conf(head, pos, disk, l), d)
               /\ DeleteDone(sect, o, d)
  BY <1>1, <1>6, <1>7, DeleteMakes
<1>9. nodes' = Content(sect_ext_delete(sect, o))
  <2>1. o \in Slots
    BY <1>7, LooseTypes
  <2>2. Content(sect_ext_delete(sect, o))
          = [x \in DOMAIN sect.itm \ {o} |-> Content(sect)[x]]
    BY <1>1, <2>1, DeleteRefines
  <2> QED BY <1>2, <1>3, <1>7, <2>2 DEF Restrict
<1>10. OnCourse(head, pos, disk, l, nodes', sect)
  <2>1. d.soff = o
    BY <1>8 DEF DeleteDone, HoldsSect, State
  <2>2. Going(head, pos, disk, l, d)
    BY <1>5, <1>8 DEF Going
  <2>3. Ends(l.call, nodes', sect, d)
    BY <1>5, <1>7, <1>8, <1>9, <2>1 DEF Ends
  <2> QED BY <1>1, <1>5, <2>2, <2>3 DEF OnCourse
<1>11. head' = head /\ pos' = pos /\ disk' = disk /\ sect' = sect
  BY <1>2
<1>12. OnCourse(head', pos', disk', th'[t], nodes', sect')
  BY <1>4, <1>10, <1>11
<1> QED BY <1>4, <1>12 DEF ThreadInv

\* A statement that is not the return.
LEMMA StatementInv ==
    ASSUME NEW t, ThreadInv(t), ThreadStep(t), ~Return(t)
    PROVE  ThreadInv(t)'
<1> DEFINE l == th[t]
<1>1. /\ t \in DOMAIN th /\ IsLocals(l) /\ SectInv(sect) /\ PlacedAll(sect.itm)
  BY DEF ThreadInv, OnCourse
<1>2. CASE l = Idle
  <2>1. l.todo = <<>>
    BY <1>2, IdleFields
  <2> QED BY <2>1 DEF ThreadStep, Check, SaveAddr, LoadField, StoreField, Note,
             Access, FTell, FSeek, FWrite, FRead, Back, Border, CmprsLip,
             CmprsFrp, Within, Doing
<1>3. CASE NoRoom(l, sect) /\ AtRest(head, disk, sect) /\ nodes = Content(sect)
  <2>1. /\ l.todo # <<>> /\ Head(l.todo)[1] = "check" /\ head = sect.head
        /\ ~(head.free_space >= ITM_SIZE + entity_rec_sz(l.ent))
    BY <1>3 DEF NoRoom, AtRest
  <2>2. Check(t)
    BY <2>1 DEF ThreadStep, SaveAddr, LoadField, StoreField, Note,
          Access, FTell, FSeek, FWrite, FRead, Back, Border, CmprsLip,
          CmprsFrp, Within, Doing
  <2>3. /\ th' = [th EXCEPT ![t] = Idle]
        /\ UNCHANGED <<head, pos, disk, nodes, sect>>
    BY <2>1, <2>2 DEF Check, Fails, shared
  <2>4. /\ head' = head /\ pos' = pos /\ disk' = disk /\ nodes' = nodes
        /\ sect' = sect /\ t \in DOMAIN th' /\ th'[t] = Idle
    BY <1>1, <2>3
  <2>5. OnCourse(head, pos, disk, Idle, nodes, sect)
    BY <1>1, <1>3, IdleFields DEF OnCourse
  <2> QED BY <2>4, <2>5 DEF ThreadInv
<1>4. CASE \E d : Going(head, pos, disk, l, d) /\ Ends(l.call, nodes, sect, d)
  <2>1. PICK d : Going(head, pos, disk, l, d) /\ Ends(l.call, nodes, sect, d)
    BY <1>4
  <2>2. Keeps(t, d) /\ nodes' = nodes /\ sect' = sect
    BY <1>1, <2>1, StepKeeps
  <2>3. /\ t \in DOMAIN th' /\ th'[t].call = l.call
        /\ Going(head', pos', disk', th'[t], d)
    BY <2>2 DEF Keeps
  <2>4. IsLocals(th'[t])
    BY <2>3 DEF Going
  <2>5. OnCourse(head', pos', disk', th'[t], nodes', sect')
    BY <1>1, <2>1, <2>2, <2>3, <2>4 DEF OnCourse
  <2> QED BY <2>3, <2>5 DEF ThreadInv
<1> QED BY <1>2, <1>3, <1>4 DEF ThreadInv, OnCourse

\* The entity that sect_ext_write has placed is placed there again by the
\* operator; the slot it reports is a new one.
LEMMA WriteAgain ==
    ASSUME NEW s, Loose(s), NEW p \in Payloads, NEW a \in Attrs, CanWrite(s, p)
    PROVE  LET w == sect_ext_write(s, p, EntityInit(p, a))
               o == s.head.lst_itm_ptr
           IN  /\ sect_ext_write(s, [key |-> p.key, val |-> p.val], w.itm[o]) = w
               /\ o \in DOMAIN w.itm /\ w.itm[o].attr = a
               /\ PlacedAll(s.itm) => PlacedAll(w.itm)
<1> DEFINE w  == sect_ext_write(s, p, EntityInit(p, a))
           o  == s.head.lst_itm_ptr
           kp == s.head.fst_rec_ptr - Len(p.key)
           vp == kp - Len(p.val)
           e0 == EntityInit(p, a)
           e  == Placed(e0, kp, vp)
<1>1. /\ o + ITM_SIZE <= vp /\ Len(p.key) \in Nat /\ Len(p.val) \in Nat
      /\ w.itm = [x \in DOMAIN s.itm \cup {o} |-> IF x = o THEN e ELSE s.itm[x]]
  BY WriteFacts DEF WriteEffect
<1>2. o \in DOMAIN w.itm /\ w.itm[o] = e /\ \A x \in DOMAIN s.itm : x # o => w.itm[x] = s.itm[x]
  <2> HIDE DEF w, e, o
  <2> QED BY <1>1
<1>3. e.attr = a /\ e.val_ptr = vp
  BY DEF Placed, EntityInit
<1>4. vp # 0
  <2>1. o \in Nat /\ s.head.fst_rec_ptr \in Nat
    BY LooseTypes
  <2>2. vp \in Int
    <3> HIDE DEF o
    <3> QED BY <1>1, <2>1
  <2> HIDE DEF vp, o
  <2> QED BY <1>1, <2>1, <2>2, SizeAssumption
<1>5. [key |-> p.key, val |-> p.val] = p
  BY PayloadAssumption
<1>6. /\ s = Sect(s.head, s.disk, s.itm, s.rec) /\ s.head \in Heads
  BY LooseTypes
<1>7. Placed(e, kp, vp) = e
  <2> HIDE DEF kp, vp, e0
  <2> QED BY DEF Placed
<1>8. sect_ext_write(s, p, e) = w
  <2>1. sect_ext_write(s, p, e0) = Written(s.head, s.itm, s.rec, p, e0)
    <3> HIDE DEF e0
    <3> QED BY <1>1, <1>6, WriteOp
  <2>2. sect_ext_write(s, p, e) = Written(s.head, s.itm, s.rec, p, e)
    <3> HIDE DEF e
    <3> QED BY <1>1, <1>6, WriteOp
  <2>3. Written(s.head, s.itm, s.rec, p, e0) = Written(s.head, s.itm, s.rec, p, e)
    <3>1. Placed(e0, kp, vp) = Placed(e, kp, vp)
      BY <1>7
    <3> HIDE DEF e, e0
    <3> QED BY <3>1 DEF Written
  <2> QED BY <2>1, <2>2, <2>3
<1>9. PlacedAll(s.itm) => PlacedAll(w.itm)
  <2> HIDE DEF w, o, vp, e
  <2>1. DOMAIN w.itm = DOMAIN s.itm \cup {o}
    BY <1>1
  <2> QED BY <1>2, <1>3, <1>4, <2>1 DEF PlacedAll
<1> HIDE DEF e, w, o
<1>10. /\ sect_ext_write(s, [key |-> p.key, val |-> p.val], w.itm[o]) = w
  BY <1>2, <1>5, <1>8
<1>11. w.itm[o].attr = a
  BY <1>2, <1>3
<1> QED BY <1>2, <1>9, <1>10, <1>11 DEF w, o

\* Behind its last statement, what a call has made is what it had to make.
LEMMA Finished ==
    ASSUME NEW h, NEW p, NEW D, NEW l, NEW nd, NEW s,
           OnCourse(h, p, D, l, nd, s), l.call # "none", l.todo = <<>>
    PROVE  \E d : /\ Ends(l.call, nd, s, d) /\ d.head = h /\ d.disk = D
                  /\ d.soff = l.soff /\ d.ent = l.ent /\ d.key = l.key
                  /\ d.val = l.val
<1>1. ~(l = Idle \/ NoRoom(l, s))
  BY IdleFields DEF NoRoom
<1>2. PICK d : Going(h, p, D, l, d) /\ Ends(l.call, nd, s, d)
  BY <1>1 DEF OnCourse
<1>3. d = Conf(h, p, D, l)
  BY <1>2, RunsEnd DEF Going
<1>4. /\ d.head = h /\ d.disk = D /\ d.soff = l.soff /\ d.ent = l.ent
      /\ d.key = l.key /\ d.val = l.val
  BY <1>3 DEF Conf
<1> QED BY <1>2, <1>4

\* The return of a call.
LEMMA ReturnInv ==
    ASSUME NEW t, ThreadInv(t), Return(t), NoZeroHead
    PROVE  ThreadInv(t)'
<1> DEFINE l == th[t]
           s == sect
<1>1. /\ t \in DOMAIN th /\ SectInv(s) /\ PlacedAll(s.itm) /\ Loose(s)
      /\ OnCourse(head, pos, disk, l, nodes, s)
  BY DEF ThreadInv, OnCourse, SectInv
<1>2. /\ l.call # "none" /\ l.todo = <<>> /\ th' = [th EXCEPT ![t] = Idle]
      /\ head' = head /\ pos' = pos /\ disk' = disk
  BY DEF Return, Returns, shared
<1>3. t \in DOMAIN th' /\ th'[t] = Idle
  BY <1>1, <1>2
<1>4. PICK d : /\ Ends(l.call, nodes, s, d) /\ d.head = head /\ d.disk = disk
               /\ d.soff = l.soff /\ d.ent = l.ent /\ d.key = l.key
               /\ d.val = l.val
  BY <1>1, <1>2, Finished
<1>5. SUFFICES /\ SectInv(sect') /\ PlacedAll((sect').itm)
               /\ AtRest(head, disk, sect') /\ nodes' = Content(sect')
  BY <1>2, <1>3, IdleFields DEF ThreadInv, OnCourse
<1>6. CASE l.call = "write"
  <2>1. PICK p \in Payloads, a \in Attrs : CanWrite(s, p) /\ WriteDone(s, p, a, d)
    BY <1>4, <1>6 DEF Ends
  <2>2. nodes = Content(s)
    BY <1>4, <1>6 DEF Ends
  <2> DEFINE w == sect_ext_write(s, p, EntityInit(p, a))
             o == s.head.lst_itm_ptr
  <2>3. /\ nodes' = [x \in DOMAIN nodes \cup {l.soff} |->
                       IF x = l.soff THEN Node(l) ELSE nodes[x]]
        /\ sect' = sect_ext_write(s, [key |-> l.key, val |-> l.val], l.ent)
    BY <1>6 DEF Return
  <2>4. HoldsSect(d, w, o, w.itm[o], p.key, p.val)
    BY <2>1 DEF WriteDone
  <2>5. SectInv(w)
    BY <1>1, <2>1, WriteInv
  <2>6. /\ sect_ext_write(s, [key |-> p.key, val |-> p.val], w.itm[o]) = w
        /\ w.itm[o].attr = a /\ PlacedAll(w.itm)
    BY <1>1, <2>1, WriteAgain
  <2>7. /\ DOMAIN Content(s) = DOMAIN s.itm
        /\ Content(w) = [x \in DOMAIN s.itm \cup {o} |->
                IF x = o THEN [key |-> p.key, val |-> p.val, attr |-> a]
                ELSE Content(s)[x]]
    <3>1. Added(s, p, a)
      BY <1>1, <2>1, WriteRefines
    <3>2. DOMAIN Content(s) = DOMAIN s.itm
      BY ContentOf
    <3> QED BY <3>1, <3>2 DEF Added
  <2> HIDE DEF w, o, l
  <2>8. /\ AtRest(head, disk, w) /\ l.soff = o /\ l.ent = w.itm[o]
        /\ l.key = p.key /\ l.val = p.val
    BY <1>4, <2>4 DEF HoldsSect, State, AtRest
  <2>9. sect' = w
    BY <2>3, <2>6, <2>8
  <2>10. Node(l) = [key |-> p.key, val |-> p.val, attr |-> a]
    BY <2>6, <2>8 DEF Node
  <2>11. nodes' = Content(w)
    BY <2>2, <2>3, <2>7, <2>8, <2>10
  <2> QED BY <2>5, <2>6, <2>8, <2>9, <2>11
<1>7. CASE l.call = "read"
  <2>1. nodes = Content(s) /\ ReadDone(s, d.soff, d)
    BY <1>4, <1>7 DEF Ends
  <2>2. nodes' = nodes /\ sect' = s
    BY <1>7 DEF Return
  <2>3. AtRest(head, disk, s)
    BY <1>4, <2>1 DEF ReadDone, HoldsSect, State, AtRest
  <2> QED BY <1>1, <2>1, <2>2, <2>3
<1>8. CASE l.call = "delete"
  <2> DEFINE o == d.soff
             w == sect_ext_delete(s, o)
  <2>1. nodes = Content(w) /\ o \in DOMAIN s.itm /\ DeleteDone(s, o, d)
    BY <1>4, <1>8 DEF Ends
  <2>2. nodes' = nodes /\ sect' = w
    BY <1>4, <1>8 DEF Return
  <2>3. AtRest(head, disk, w)
    BY <1>4, <2>1 DEF DeleteDone, HoldsSect, State, AtRest
  <2>4. o \in Slots
    BY <1>1, <2>1, LooseTypes
  <2>5. SectInv(w) /\ w.itm = [x \in DOMAIN s.itm \ {o} |-> s.itm[x]]
    BY <1>1, <2>4, DeleteInv
  <2>6. PlacedAll(w.itm)
    <3> HIDE DEF w, o
    <3> QED BY <1>1, <2>5 DEF PlacedAll
  <2> QED BY <2>1, <2>2, <2>3, <2>5, <2>6
<1>9. l.call \in {"write", "read", "delete"}
  BY <1>4 DEF Ends
<1> QED BY <1>6, <1>7, <1>8, <1>9

\* Any step of the one thread.
LEMMA ThreadsNextInv ==
    ASSUME NEW t, Threads = {t}, NoZeroHead, ThreadInv(t), [ThreadsNext]_vars
    PROVE  ThreadInv(t)'
<1>1. CASE UNCHANGED vars
  <2>1. /\ head' = head /\ pos' = pos /\ disk' = disk /\ th' = th
        /\ nodes' = nodes /\ sect' = sect
    BY <1>1 DEF vars
  <2> QED BY <2>1 DEF ThreadInv
<1>2. CASE \E p \in Payloads, a \in Attrs : CallWrite(t, p, a)
  BY <1>2, CallWriteInv
<1>3. CASE \E o \in DOMAIN nodes : CallRead(t, o) \/ CallDelete(t, o)
  BY <1>3, CallReadInv, CallDeleteInv
<1>4. CASE ThreadStep(t)
  BY <1>4, StatementInv, ReturnInv
<1> QED BY <1>1, <1>2, <1>3, <1>4 DEF ThreadsNext

\* The new section is at rest.
LEMMA ThreadsInitInv ==
    ASSUME NEW t, Threads = {t}, ThreadsInit
    PROVE  ThreadInv(t)
<1> DEFINE s == sect_head_ctor
<1>1. t \in DOMAIN th /\ th[t] = Idle /\ sect = s /\ head = s.head
  BY DEF ThreadsInit
<1>2. SectInv(s) /\ s.itm = [o \in {} |-> 0] /\ s.disk = s.head
      /\ s.rec = [a \in Addr |-> 0]
  BY CtorInv DEF sect_head_ctor
<1>3. PlacedAll(s.itm)
  BY <1>2 DEF PlacedAll
<1>4. nodes = Content(s)
  BY InitRefines DEF ThreadsInit
<1>5. Holds(disk, s.disk, s.itm, s.rec)
  <2>1. \A c \in Cells : disk[c] = IF c < HEAD_SIZE THEN HeadCells(head)[c + 1] ELSE 0
    BY DEF ThreadsInit
  <2>2. 0 \in Cells /\ 1 \in Cells /\ 2 \in Cells /\ HEAD_SIZE = 3
    BY SizeAssumption, CellAssumption DEF Cells
  <2>3. /\ disk[0] = HeadCells(head)[1] /\ disk[1] = HeadCells(head)[2]
        /\ disk[2] = HeadCells(head)[3]
    BY <2>1, <2>2
  <2>4. /\ disk[0] = head.free_space /\ disk[1] = head.lst_itm_ptr
        /\ disk[2] = head.fst_rec_ptr
    BY <2>3 DEF HeadCells
  <2>5. ASSUME NEW a \in Addr PROVE disk[a] = 0
    <3>1. a \in Cells /\ ~(a < HEAD_SIZE)
      BY <2>2, SizeAssumption DEF Addr, Cells
    <3> QED BY <2>1, <3>1
  <2> HIDE DEF s
  <2> QED BY <1>1, <1>2, <2>4, <2>5 DEF Holds
<1> HIDE DEF s
<1>6. AtRest(head, disk, s)
  BY <1>1, <1>5 DEF AtRest
<1>7. OnCourse(head, pos, disk, Idle, nodes, s)
  BY <1>2, <1>3, <1>4, <1>6, IdleFields DEF OnCourse
<1> QED BY <1>1, <1>7 DEF ThreadInv

-----------------------------------------------------------------------------
(* The theorems.  One thread calls, and no record begins with a zero byte. *)

\* With one thread, the invariant holds throughout.
THEOREM ThreadInvariant ==
    ASSUME NEW t, Threads = {t}, NoZeroHead
    PROVE  ThreadsSpec => []ThreadInv(t)
<1>1. ThreadsInit => ThreadInv(t)
  BY ThreadsInitInv
<1>2. ThreadInv(t) /\ [ThreadsNext]_vars => ThreadInv(t)'
  BY ThreadsNextInv
<1> QED BY <1>1, <1>2, PTL DEF ThreadsSpec

\* Statement by statement, the calls of one thread make the header and the
\* bytes of the file what the operators of module Extents say: whenever no call
\* is running, sect_ext_write, sect_ext_read and sect_ext_delete have added up,
\* for every section size, payload and order of calls.
THEOREM OneThreadCallsAddUp ==
    ASSUME NEW t, Threads = {t}, NoZeroHead
    PROVE  ThreadsSpec => []CallsAddUp
<1>1. ThreadInv(t) => CallsAddUp
  <2> SUFFICES ASSUME ThreadInv(t), Quiet PROVE Section = sect
    BY DEF CallsAddUp
  <2>1. th[t].call = "none"
    BY DEF Quiet
  <2>2. \A d : ~Ends(th[t].call, nodes, sect, d)
    BY <2>1 DEF Ends
  <2>3. SectInv(sect) /\ PlacedAll(sect.itm) /\ AtRest(head, disk, sect)
    BY <2>2 DEF ThreadInv, OnCourse
  <2> QED BY <2>3, HoldsSection DEF AtRest
<1> QED BY <1>1, ThreadInvariant, PTL

\* sect_ext_read of one thread returns the node whose sect_ext_write returned
\* OK at that slot, read from the bytes of the file.
THEOREM OneThreadReadsBack ==
    ASSUME NEW t, Threads = {t}, NoZeroHead
    PROVE  ThreadsSpec => []ReadsBack
<1>1. ThreadInv(t) => ReadsBack
  <2> SUFFICES ASSUME ThreadInv(t), Returns(t), th[t].call = "read"
               PROVE  Node(th[t]) = nodes[th[t].soff]
    BY DEF ReadsBack
  <2> DEFINE l == th[t]
  <2>1. l.call # "none" /\ l.todo = <<>>
    BY DEF Returns
  <2>2. PICK d : /\ Ends(l.call, nodes, sect, d) /\ d.soff = l.soff
                 /\ d.ent = l.ent /\ d.key = l.key /\ d.val = l.val
    BY <2>1, Finished DEF ThreadInv
  <2>3. nodes = Content(sect) /\ ReadDone(sect, d.soff, d)
    BY <2>2 DEF Ends
  <2>4. Node(d) = nodes[d.soff]
    BY <2>3 DEF ReadDone
  <2> QED BY <2>2, <2>4 DEF Node
<1> QED BY <1>1, ThreadInvariant, PTL

\* When sect_ext_write of one thread returns OK, the cells of the slot that it
\* reports hold the entity of its node.
THEOREM OneThreadSaveAddr ==
    ASSUME NEW t, Threads = {t}, NoZeroHead
    PROVE  ThreadsSpec => []EntityAtSaveAddr
<1>1. ThreadInv(t) => EntityAtSaveAddr
  <2> SUFFICES ASSUME ThreadInv(t), Returns(t), th[t].call = "write",
                      NEW i \in 1..ITM_SIZE
               PROVE  disk[th[t].soff + i - 1] = EntityCells(th[t].ent)[i]
    BY DEF EntityAtSaveAddr
  <2> DEFINE l == th[t]
  <2>1. l.call # "none" /\ l.todo = <<>>
    BY DEF Returns
  <2>2. PICK d : /\ Ends(l.call, nodes, sect, d) /\ d.disk = disk
                 /\ d.soff = l.soff /\ d.ent = l.ent
    BY <2>1, Finished DEF ThreadInv
  <2>3. PICK p \in Payloads, a \in Attrs :
            CanWrite(sect, p) /\ WriteDone(sect, p, a, d)
    BY <2>2 DEF Ends
  <2> DEFINE w == sect_ext_write(sect, p, EntityInit(p, a))
             o == sect.head.lst_itm_ptr
  <2>4. HoldsSect(d, w, o, w.itm[o], p.key, p.val)
    BY <2>3 DEF WriteDone
  <2>5. o \in DOMAIN w.itm
    <3>1. Loose(sect)
      BY DEF ThreadInv, OnCourse, SectInv
    <3> QED BY <2>3, <3>1, WriteAgain
  <2> HIDE DEF w, o, l
  <2>6. /\ l.soff = o /\ l.ent = w.itm[o]
        /\ Holds(disk, w.disk, w.itm, w.rec)
    BY <2>2, <2>4 DEF HoldsSect, State
  <2>7. disk[o + i - 1] = EntityCells(w.itm[o])[i]
    BY <2>5, <2>6 DEF Holds
  <2> QED BY <2>6, <2>7 DEF l
<1> QED BY <1>1, ThreadInvariant, PTL
=============================================================================
