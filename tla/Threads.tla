------------------------------ MODULE Threads -------------------------------
(***************************************************************************)
(* The calls of module SectExt as the handlers of the gRPC server make     *)
(* them on one section, statement by statement. The server runs every      *)
(* request on a thread of its own; the header of a section, the position   *)
(* of the FILE and the bytes of the file are shared and no lock guards     *)
(* them. A step is one access to them: a load or a store of a header       *)
(* field, or one call of stdio (which locks the FILE for that call only).  *)
(*                                                                         *)
(* A cell of the file holds one byte of a record or one field of the       *)
(* structures Sect_head_entity and Entity.  Offsets count from the         *)
(* beginning of the section.                                               *)
(***************************************************************************)
EXTENDS SectExt

CONSTANTS Threads,
          Calls             \* pairs of a thread and a call it makes

WORD == 256                 \* the fields are unsigned and wrap around

\* free_space, lst_itm_ptr, fst_rec_ptr; the six fields of an entity.  An
\* offset in a section fits into a field.
ASSUME CellAssumption == /\ HEAD_SIZE = 3 /\ ITM_SIZE = 6
                         /\ Attrs \subseteq Byte /\ SECTION_SIZE < WORD

VARIABLES
    head,                   \* the header in memory
    pos,                    \* the position of the FILE
    disk,                   \* the cells of the section in the file
    th,                     \* what each thread is doing, and its locals
    nodes                   \* slot -> the node whose write returned OK there
\* sect is the section that the calls should have made.  It and nodes are
\* there for the properties; no call looks at them.

shared == <<head, pos, disk>>
vars == <<head, pos, disk, th, nodes, sect>>

Cells == 0..(SECTION_SIZE - 1)

HeadCells(h) == <<h.free_space, h.lst_itm_ptr, h.fst_rec_ptr>>
CellsHead(c) == Head3(c[1], c[2], c[3])
EntityCells(e) == <<e.key_ptr, e.key_size, e.val_ptr, e.val_size,
                    e.init_rec_sz, e.attr>>
CellsEntity(c) == [key_ptr |-> c[1], key_size |-> c[2], val_ptr |-> c[3],
                   val_size |-> c[4], init_rec_sz |-> c[5], attr |-> c[6]]
Zeros(n) == [i \in 1..n |-> 0]

\* n cells read, and cells written; those behind the section belong to the
\* next one and are not kept.
Get(cells, at, n) == [i \in 1..n |-> cells[at + i - 1]]
Put(cells, at, data) ==
    [c \in Cells |-> IF c \in at..(at + Len(data) - 1)
                     THEN data[c - at + 1] ELSE cells[c]]

\* The section that head and disk are, as module Extents knows it.
Section ==
    [head |-> head, disk |-> CellsHead([i \in 1..3 |-> disk[i - 1]]),
     itm  |-> [o \in {q \in sect_ext_load([head |-> head]) :
                         Get(disk, q, ITM_SIZE) # Zeros(ITM_SIZE)} |->
                 CellsEntity(Get(disk, o, ITM_SIZE))],
     rec  |-> [a \in Addr |-> IF a < head.fst_rec_ptr THEN 0 ELSE disk[a]]]

-----------------------------------------------------------------------------
(* A call is a sequence of statements that the thread works off; a call in *)
(* it is replaced by the statements of its body.                           *)

Idle == [call |-> "none", todo |-> <<>>, soff |-> 0, reg |-> 0,
         phase |-> "none", dest |-> 0, prev_ptr |-> 0, buf |-> <<>>,
         ent |-> ZeroEntity, key |-> <<>>, val |-> <<>>]

sect_head_sync_Steps == << <<"at", "sect", "fwrite", "head">> >>

\* sect_head_shift_lip and sect_head_shift_frp.
Shift(ptr, free, by) ==
    << <<"load", "free_space">>, <<"store", "free_space", free>>,
       <<"load", ptr>>, <<"store", ptr, by>> >> \o sect_head_sync_Steps
sect_head_shift_lip_Steps(by) == Shift("lst_itm_ptr", -by, by)
sect_head_shift_frp_Steps(by) == Shift("fst_rec_ptr", by, by)

\* Mutant: the slot is noted when the entity is in it and lst_itm_ptr moved.
WriteSteps_AddrLast(p) ==
    << <<"check">> >>
    \o sect_head_shift_frp_Steps(-Len(p.key))
    \o << <<"at", "frp", "fwrite", "key">>, <<"note", "key">> >>
    \o sect_head_shift_frp_Steps(-Len(p.val))
    \o << <<"at", "frp", "fwrite", "val">>, <<"note", "val">>,
          <<"at", "lip", "fwrite", "ent">> >>
    \o sect_head_shift_lip_Steps(ITM_SIZE)
    \o sect_head_sync_Steps \o << <<"save_addr">> >>

\* sect_ext_write.
WriteSteps(p) ==
    << <<"check">>, <<"save_addr">> >>
    \o sect_head_shift_frp_Steps(-Len(p.key))
    \o << <<"at", "frp", "fwrite", "key">>, <<"note", "key">> >>
    \o sect_head_shift_frp_Steps(-Len(p.val))
    \o << <<"at", "frp", "fwrite", "val">>, <<"note", "val">>,
          <<"at", "lip", "fwrite", "ent">> >>
    \o sect_head_shift_lip_Steps(ITM_SIZE)
    \o sect_head_sync_Steps

\* Mutant: the value is read from where the key is.
ReadSteps_ValAtKey ==
    << <<"at", "soff", "fread", "ent">>, <<"at", "key", "fread", "key">>,
       <<"at", "key", "fread", "val">> >> \o sect_head_sync_Steps

\* sect_ext_read.  An object has no value: its val_size is 0.
ReadSteps ==
    << <<"at", "soff", "fread", "ent">>, <<"at", "key", "fread", "key">>,
       <<"at", "val", "fread", "val">> >> \o sect_head_sync_Steps

\* sect_ext_delete, and the loops of sect_head_cmprs_lip and _frp.
DeleteSteps ==
    << <<"at", "soff", "fread", "ent">>, <<"border">>,
       <<"at", "rec", "fwrite", "zero_rec">>,
       <<"at", "soff", "fwrite", "zero_ent">>,
       <<"at", "lip_itm", "fread", "slot">>, <<"cmprs_lip">> >>
    \o sect_head_sync_Steps
    \o << <<"at", "frp", "fread", "chr">>, <<"cmprs_frp">> >>
    \o sect_head_sync_Steps \o sect_head_sync_Steps

-----------------------------------------------------------------------------

\* sect_ext_ctor.
ThreadsInit ==
    /\ head = sect_head_ctor.head
    /\ pos = 0
    /\ disk = [c \in Cells |-> IF c < HEAD_SIZE THEN HeadCells(head)[c + 1] ELSE 0]
    /\ th = [t \in Threads |-> Idle]
    /\ nodes = [o \in {} |-> ZeroEntity]
    /\ sect = sect_head_ctor

\* A handler calls into the section; it may be asked for any node that was
\* stored, and nobody is asked for one that a thread is deleting.
CallWrite(t, p, a) ==
    /\ <<t, "write">> \in Calls /\ th[t].call = "none"
    /\ th' = [th EXCEPT ![t] = [Idle EXCEPT
                !.call = "write", !.todo = WriteSteps(p), !.key = p.key,
                !.val = p.val, !.ent = EntityInit(p, a)]]
    /\ UNCHANGED <<shared, nodes, sect>>

CallRead(t, o) ==
    /\ <<t, "read">> \in Calls /\ th[t].call = "none"
    /\ th' = [th EXCEPT ![t] = [Idle EXCEPT
                !.call = "read", !.todo = ReadSteps, !.soff = o]]
    /\ UNCHANGED <<shared, nodes, sect>>

CallDelete(t, o) ==
    /\ <<t, "delete">> \in Calls /\ th[t].call = "none"
    /\ th' = [th EXCEPT ![t] = [Idle EXCEPT
                !.call = "delete", !.todo = DeleteSteps, !.soff = o]]
    /\ nodes' = Restrict(nodes, DOMAIN nodes \ {o})
    /\ UNCHANGED <<shared, sect>>

-----------------------------------------------------------------------------

Doing(t, what) == th[t].todo # <<>> /\ Head(th[t].todo)[1] = what
Arg(t, i) == Head(th[t].todo)[i]

\* What a thread does next, with the locals l; and a call that fails.
Goes(t, l, todo) == th' = [th EXCEPT ![t] = [l EXCEPT !.todo = todo]]
GoesOn(t, l) == Goes(t, l, Tail(l.todo))
Fails(t) == th' = [th EXCEPT ![t] = Idle]

\* sect_ext_write looks for room, and then notes the slot.
Check(t) ==
    /\ Doing(t, "check")
    /\ IF head.free_space >= ITM_SIZE + entity_rec_sz(th[t].ent)
       THEN GoesOn(t, th[t]) ELSE Fails(t)
    /\ UNCHANGED <<shared, nodes, sect>>

SaveAddr(t) ==
    /\ Doing(t, "save_addr")
    /\ GoesOn(t, [th[t] EXCEPT !.soff = head.lst_itm_ptr])
    /\ UNCHANGED <<shared, nodes, sect>>

\* "field += by" is a load and a store.
LoadField(t) ==
    /\ Doing(t, "load")
    /\ GoesOn(t, [th[t] EXCEPT !.reg = head[Arg(t, 2)]])
    /\ UNCHANGED <<shared, nodes, sect>>

StoreField(t) ==
    /\ Doing(t, "store")
    /\ head' = [head EXCEPT ![Arg(t, 2)] = (th[t].reg + Arg(t, 3)) % WORD]
    /\ GoesOn(t, [th[t] EXCEPT !.reg = 0])
    /\ UNCHANGED <<pos, disk, nodes, sect>>

\* ent->key_ptr = section->header.fst_rec_ptr, and val_ptr.
Note(t) ==
    /\ Doing(t, "note")
    /\ GoesOn(t, [th[t] EXCEPT !.ent =
           IF Arg(t, 2) = "key" THEN [@ EXCEPT !.key_ptr = head.fst_rec_ptr]
           ELSE [@ EXCEPT !.val_ptr = head.fst_rec_ptr]])
    /\ UNCHANGED <<shared, nodes, sect>>

\* The arguments of sect_head_read and sect_head_write: where, and how much.
Dest(h, l, where) ==
    CASE where = "sect"    -> 0
      [] where = "lip"     -> h.lst_itm_ptr
      [] where = "lip_itm" -> h.lst_itm_ptr - ITM_SIZE
      [] where = "frp"     -> h.fst_rec_ptr
      [] where = "soff"    -> l.soff
      [] where = "key"     -> l.ent.key_ptr
      [] where = "val"     -> l.ent.val_ptr
      [] where = "rec"     -> l.ent.key_ptr - l.ent.val_size

Size(l, what) ==
    CASE what = "head"     -> HEAD_SIZE
      [] what = "key"      -> l.ent.key_size
      [] what = "val"      -> l.ent.val_size
      [] what = "zero_rec" -> entity_rec_sz(l.ent)
      [] what = "chr"      -> 1
      [] what \in {"ent", "zero_ent", "slot"} -> ITM_SIZE

\* The bytes that fwrite takes from memory.
Data(h, l, what) ==
    CASE what = "head" -> HeadCells(h)
      [] what = "key"  -> l.key
      [] what = "val"  -> l.val
      [] what = "ent"  -> EntityCells(l.ent)
      [] what \in {"zero_rec", "zero_ent"} -> Zeros(Size(l, what))

Within(t, phase) == Doing(t, "at") /\ th[t].phase = phase

\* sect_head_read and sect_head_write do nothing for 0 bytes.  Their SAVE_FILP
\* is ftell, fseek, the access and a second fseek: the phases of the access.
Access(t) ==
    /\ Within(t, "none")
    /\ IF Size(th[t], Arg(t, 4)) = 0 THEN GoesOn(t, th[t])
       ELSE th' = [th EXCEPT ![t].phase = "ftell",
                             ![t].dest = Dest(head, th[t], Arg(t, 2))]
    /\ UNCHANGED <<shared, nodes, sect>>

\* The access is over.
Done(l) == [l EXCEPT !.phase = "none", !.dest = 0, !.prev_ptr = 0]

FTell(t) ==
    /\ Within(t, "ftell")
    /\ th' = [th EXCEPT ![t].phase = "fseek", ![t].prev_ptr = pos]
    /\ UNCHANGED <<shared, nodes, sect>>

\* The loops of cmprs take no notice of a read that fails; elsewhere the
\* call ends.  Nobody sets the position back.
IoFails(t) ==
    IF Arg(t, 4) \in {"slot", "chr"} THEN GoesOn(t, Done(th[t])) ELSE Fails(t)

\* A seek before the beginning of the file fails.
FSeek(t) ==
    /\ Within(t, "fseek")
    /\ IF th[t].dest >= 0
       THEN pos' = th[t].dest /\ th' = [th EXCEPT ![t].phase = "io"]
       ELSE IoFails(t) /\ UNCHANGED pos
    /\ UNCHANGED <<head, disk, nodes, sect>>

FWrite(t) ==
    /\ Within(t, "io") /\ Arg(t, 3) = "fwrite"
    /\ LET data == Data(head, th[t], Arg(t, 4))
       IN  disk' = Put(disk, pos, data) /\ pos' = pos + Len(data)
    /\ th' = [th EXCEPT ![t].phase = "back"]
    /\ UNCHANGED <<head, nodes, sect>>

\* A read behind the end of the file fails.
FRead(t) ==
    /\ Within(t, "io") /\ Arg(t, 3) = "fread"
    /\ LET what == Arg(t, 4)
           n    == Size(th[t], what)
           data == Get(disk, pos, n)
           l    == [th[t] EXCEPT !.phase = "back"]
       IN  IF pos + n > SECTION_SIZE THEN IoFails(t) /\ UNCHANGED pos
           ELSE /\ pos' = pos + n
                /\ th' = [th EXCEPT ![t] =
                     CASE what = "ent" -> [l EXCEPT !.ent = CellsEntity(data)]
                       [] what = "key" -> [l EXCEPT !.key = data]
                       [] what = "val" -> [l EXCEPT !.val = data]
                       [] what \in {"slot", "chr"} -> [l EXCEPT !.buf = data]]
    /\ UNCHANGED <<head, disk, nodes, sect>>

Back(t) ==
    /\ Within(t, "back")
    /\ pos' = th[t].prev_ptr
    /\ GoesOn(t, Done(th[t]))
    /\ UNCHANGED <<head, disk, nodes, sect>>

\* sect_ext_delete moves the borders if the entity lies at them.
Border(t) ==
    /\ Doing(t, "border")
    /\ Goes(t, th[t],
            (IF th[t].soff + ITM_SIZE = head.lst_itm_ptr
             THEN sect_head_shift_lip_Steps(-ITM_SIZE)
                  \o sect_head_shift_frp_Steps(entity_rec_sz(th[t].ent))
             ELSE <<>>) \o Tail(th[t].todo))
    /\ UNCHANGED <<shared, nodes, sect>>

\* Adds by to a pointer of the header and to free_space.
Regain(ptr, by, free) ==
    << <<"load", ptr>>, <<"store", ptr, by>>,
       <<"load", "free_space">>, <<"store", "free_space", free>> >>

\* The loops of sect_head_cmprs_lip and sect_head_cmprs_frp: one more round,
\* with the read that the next test looks at, or the end.
\* Mutant: the loop over the items ends after one round.
CmprsLip_Once(t) ==
    /\ Doing(t, "cmprs_lip")
    /\ Goes(t, [th[t] EXCEPT !.buf = <<>>],
            (IF head.lst_itm_ptr # HEAD_SIZE /\ th[t].buf = Zeros(ITM_SIZE)
             THEN Regain("lst_itm_ptr", -ITM_SIZE, ITM_SIZE)
             ELSE <<>>) \o Tail(th[t].todo))
    /\ UNCHANGED <<shared, nodes, sect>>

\* Mutant: the slot is given back but the border stays.
CmprsLip_KeepsLip(t) ==
    /\ Doing(t, "cmprs_lip")
    /\ IF head.lst_itm_ptr # HEAD_SIZE /\ th[t].buf = Zeros(ITM_SIZE)
       THEN Goes(t, th[t], << <<"at", "lip_itm", "fread", "slot">> >>
                           \o th[t].todo)
       ELSE GoesOn(t, [th[t] EXCEPT !.buf = <<>>])
    /\ UNCHANGED <<shared, nodes, sect>>

CmprsLip(t) ==
    /\ Doing(t, "cmprs_lip")
    /\ IF head.lst_itm_ptr # HEAD_SIZE /\ th[t].buf = Zeros(ITM_SIZE)
       THEN Goes(t, th[t], Regain("lst_itm_ptr", -ITM_SIZE, ITM_SIZE)
                \o << <<"at", "lip_itm", "fread", "slot">> >> \o th[t].todo)
       ELSE GoesOn(t, [th[t] EXCEPT !.buf = <<>>])
    /\ UNCHANGED <<shared, nodes, sect>>

CmprsFrp(t) ==
    /\ Doing(t, "cmprs_frp")
    /\ IF head.fst_rec_ptr # SECTION_SIZE /\ th[t].buf = Zeros(1)
       THEN Goes(t, th[t], Regain("fst_rec_ptr", 1, 1)
                \o << <<"at", "frp", "fread", "chr">> >> \o th[t].todo)
       ELSE GoesOn(t, [th[t] EXCEPT !.buf = <<>>])
    /\ UNCHANGED <<shared, nodes, sect>>

Returns(t) == th[t].call # "none" /\ th[t].todo = <<>>

Node(l) == [key |-> l.key, val |-> l.val, attr |-> l.ent.attr]

Return(t) ==
    /\ Returns(t)
    /\ LET l == th[t]
       IN  CASE l.call = "write" ->
                  /\ nodes' = [o \in DOMAIN nodes \cup {l.soff} |->
                                 IF o = l.soff THEN Node(l) ELSE nodes[o]]
                  /\ sect' = sect_ext_write(sect, [key |-> l.key, val |-> l.val],
                                            l.ent)
             [] l.call = "delete" -> /\ sect' = sect_ext_delete(sect, l.soff)
                                     /\ UNCHANGED nodes
             [] l.call = "read"   -> UNCHANGED <<nodes, sect>>
    /\ th' = [th EXCEPT ![t] = Idle]
    /\ UNCHANGED shared

ThreadStep(t) ==
    \/ Check(t) \/ SaveAddr(t) \/ LoadField(t) \/ StoreField(t) \/ Note(t)
    \/ Access(t) \/ FTell(t) \/ FSeek(t) \/ FWrite(t) \/ FRead(t) \/ Back(t)
    \/ Border(t) \/ CmprsLip(t) \/ CmprsFrp(t)
    \/ Return(t)

ThreadsNext ==
    \E t \in Threads :
        \/ \E p \in Payloads, a \in Attrs : CallWrite(t, p, a)
        \/ \E o \in DOMAIN nodes : CallRead(t, o) \/ CallDelete(t, o)
        \/ ThreadStep(t)

\* Threads are scheduled, and no step waits for another thread.
ThreadsSpec ==
    ThreadsInit /\ [][ThreadsNext]_vars /\ \A t \in Threads : WF_vars(ThreadStep(t))

-----------------------------------------------------------------------------

Quiet == \A t \in Threads : th[t].call = "none"

\* When no call is running, the header and the bytes of the file are the
\* section that the operators of module Extents make of the same calls: the
\* statements of sect_ext_write, sect_ext_read and sect_ext_delete, and the
\* loops of sect_head_cmprs_lip and sect_head_cmprs_frp, add up to them.
CallsAddUp == Quiet => Section = sect

\* sect_ext_read returns the key, the value and the attributes of the node
\* whose sect_ext_write returned OK at that slot.
ReadsBack ==
    \A t \in Threads :
        Returns(t) /\ th[t].call = "read" /\ th[t].soff \in DOMAIN nodes
            => Node(th[t]) = nodes[th[t].soff]

\* When sect_ext_write returns OK, the entity of its node lies in the slot
\* that it reports, which the links of other nodes will point to.
EntityAtSaveAddr ==
    \A t \in Threads :
        Returns(t) /\ th[t].call = "write" =>
            \A i \in 1..ITM_SIZE :
                disk[th[t].soff + i - 1] = EntityCells(th[t].ent)[i]

\* Every call comes to its end: the compressing loops of sect_ext_delete too,
\* whose bounds other steps of the call have set.
CallsReturn == \A t \in Threads : th[t].call # "none" ~> th[t].call = "none"
=============================================================================
