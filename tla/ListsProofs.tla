---------------------------- MODULE ListsProofs -----------------------------
(***************************************************************************)
(* The lists of utils/list.h keep their fields, their chain and their      *)
(* nodes consistent, for any number of nodes and values.                   *)
(***************************************************************************)
EXTENDS Lists, TLAPS

\* What an addition relies on: the link of a node that calloc made is NULL.
Fresh == ent # NULL => next[ent] = NULL

Inv == TypeOK /\ ListIntact /\ MemoryExact /\ Fresh

USE ListAssumption

\* What a sequence looks like without its first element.
LEMMA TailFacts ==
    ASSUME NEW s \in Seq(Nodes), s # <<>>
    PROVE  /\ Tail(s) \in Seq(Nodes)
           /\ Len(Tail(s)) = Len(s) - 1
           /\ \A i \in 1..Len(s) - 1 : Tail(s)[i] = s[i + 1]
           /\ Len(s) \in Nat \ {0}
           /\ DOMAIN s = 1..Len(s) /\ DOMAIN Tail(s) = 1..Len(s) - 1
OBVIOUS

LEMMA EmptyFacts ==
    ASSUME NEW s \in Seq(Nodes)
    PROVE  s = <<>> <=> Len(s) = 0
OBVIOUS

\* What a sequence looks like with one more element.
LEMMA AppendFacts ==
    ASSUME NEW s \in Seq(Nodes), NEW e \in Nodes
    PROVE  /\ Append(s, e) \in Seq(Nodes)
           /\ Len(Append(s, e)) = Len(s) + 1
           /\ \A i \in 1..Len(s) : Append(s, e)[i] = s[i]
           /\ Append(s, e)[Len(s) + 1] = e
           /\ DOMAIN s = 1..Len(s) /\ DOMAIN Append(s, e) = 1..Len(s) + 1
           /\ Len(s) \in Nat
OBVIOUS

\* What a sequence looks like without the element at position i.
LEMMA WithoutFacts ==
    ASSUME NEW s \in Seq(Nodes), NEW i \in 1..Len(s)
    PROVE  /\ Without(s, i) \in Seq(Nodes)
           /\ Len(Without(s, i)) = Len(s) - 1
           /\ DOMAIN Without(s, i) = 1..Len(s) - 1
           /\ \A j \in 1..Len(s) - 1 :
                 Without(s, i)[j] = IF j < i THEN s[j] ELSE s[j + 1]
<1>1. Len(s) \in Nat /\ Len(s) - 1 \in Nat
  OBVIOUS
<1>2. \A j \in 1..Len(s) - 1 : s[j] \in Nodes /\ s[j + 1] \in Nodes
  OBVIOUS
<1> QED BY <1>1, <1>2 DEF Without

LEMMA InitInv == Init => Inv
BY DEF Init, Inv, Fresh, TypeOK, ListIntact, Chained, MemoryExact, Pointers

-----------------------------------------------------------------------------
(* Adding at the tail: list_add and the end of list_add_lk_set.            *)

LEMMA LinkKeeps ==
    ASSUME Inv, ent # NULL, call # "dtor", Link,
           list' = Append(list, ent), ent' = NULL, call' = "none",
           cur' \in Pointers,
           UNCHANGED <<val, heap, dropped>>
    PROVE  Inv'
<1> USE DEF Inv
<1>1. ent \in Nodes /\ list \in Seq(Nodes)
  BY DEF TypeOK, Pointers
<1>2. \A i \in DOMAIN list : list[i] # ent /\ list[i] \in Nodes
  BY <1>1 DEF MemoryExact
<1>3. /\ DOMAIN list = 1..Len(list) /\ Len(list) \in Nat
      /\ DOMAIN list' = 1..Len(list) + 1 /\ Len(list') = Len(list) + 1
      /\ \A i \in 1..Len(list) : list'[i] = list[i]
      /\ list'[Len(list) + 1] = ent /\ list' \in Seq(Nodes)
  BY <1>1, AppendFacts
<1>4. list = <<>> <=> Len(list) = 0
  BY <1>1
<1>5. next[ent] = NULL
  BY DEF Fresh
<1>6. Chained'
  BY <1>1, <1>2, <1>3, <1>4, <1>5 DEF Link, ListIntact, Chained, TypeOK
<1> QED
  BY <1>1, <1>2, <1>3, <1>4, <1>6 DEF Link, ListIntact, MemoryExact, Fresh, TypeOK, Pointers

-----------------------------------------------------------------------------
(* Taking the first node off: list_del_fst, iter_next and list_dtor.       *)

\* What is left of the chain behind its first node.
LEMMA Behind ==
    ASSUME Inv, head # NULL, list' = Tail(list), UNCHANGED next,
           head' = next[head]
    PROVE  /\ list \in Seq(Nodes) /\ list # <<>> /\ list' \in Seq(Nodes)
           /\ Len(list) \in Nat \ {0} /\ Len(list') = Len(list) - 1
           /\ DOMAIN list = 1..Len(list) /\ DOMAIN list' = 1..Len(list')
           /\ \A i \in DOMAIN list' : list'[i] = list[i + 1]
           /\ (list' = <<>>) <=> (Len(list) = 1)
           /\ {list[i] : i \in DOMAIN list} = {list'[i] : i \in DOMAIN list'} \cup {head}
           /\ \A i \in DOMAIN list' : list'[i] # head
           /\ Chained'
<1> USE DEF Inv
<1>1. list \in Seq(Nodes) /\ list # <<>> /\ head = list[1]
  BY DEF TypeOK, ListIntact, Chained
<1>2. /\ list' \in Seq(Nodes) /\ Len(list) \in Nat \ {0}
      /\ Len(list') = Len(list) - 1
      /\ DOMAIN list = 1..Len(list) /\ DOMAIN list' = 1..Len(list')
      /\ \A i \in DOMAIN list' : list'[i] = list[i + 1]
  BY <1>1, TailFacts
<1>3. (list' = <<>>) <=> (Len(list) = 1)
  <2>1. (list' = <<>>) <=> (Len(list') = 0)
    <3>1. list' \in Seq(Nodes)
      BY <1>2
    <3> HIDE DEF Inv
    <3> QED BY ONLY <3>1, EmptyFacts
  <2> QED BY <1>2, <2>1
<1>4. \A i \in DOMAIN list' : list'[i] # head
  BY <1>1, <1>2 DEF ListIntact, Chained
<1>5. {list[i] : i \in DOMAIN list} = {list'[i] : i \in DOMAIN list'} \cup {head}
  <2>1. \A i \in DOMAIN list : i = 1 \/ (i - 1 \in DOMAIN list' /\ list[i] = list'[i - 1])
    BY <1>2
  <2>2. \A i \in DOMAIN list' : i + 1 \in DOMAIN list
    BY <1>2
  <2> QED BY <1>1, <1>2, <2>1, <2>2
<1>6. Chained'
  <2>1. \A i \in DOMAIN list' :
           i + 1 \in DOMAIN list /\ (i = Len(list') <=> i + 1 = Len(list))
    BY <1>2
  <2>2. head' = IF list' = <<>> THEN NULL ELSE list'[1]
    <3>1. 1 \in DOMAIN list
      BY <1>2
    <3>2. next[list[1]] = IF 1 = Len(list) THEN NULL ELSE list[1 + 1]
      BY <3>1 DEF ListIntact, Chained
    <3>3. head' = IF 1 = Len(list) THEN NULL ELSE list[1 + 1]
      BY <1>1, <3>2
    <3>4. Len(list) # 1 => list'[1] = list[1 + 1]
      <4> SUFFICES ASSUME Len(list) # 1 PROVE list'[1] = list[1 + 1]
        OBVIOUS
      <4>1. 1 \in DOMAIN list'
        BY <1>2
      <4> QED BY <1>2, <4>1
    <3> HIDE DEF Inv
    <3> QED BY ONLY <1>3, <3>3, <3>4
  <2>3. \A i \in DOMAIN list' :
           next'[list'[i]] = IF i = Len(list') THEN NULL ELSE list'[i + 1]
    BY <1>2, <2>1 DEF ListIntact, Chained
  <2>4. \A i, j \in DOMAIN list' : list'[i] = list'[j] => i = j
    BY <1>2, <2>1 DEF ListIntact, Chained
  <2> QED BY <2>2, <2>3, <2>4 DEF Chained
<1> QED BY <1>1, <1>2, <1>3, <1>4, <1>5, <1>6

\* list_del_fst and iter_next: with one node left, next[head] is NULL.
LEMMA FirstOff ==
    ASSUME Inv, call = "none", count > 0,
           IF count > 1 THEN head' = next[head] /\ UNCHANGED tail
           ELSE head' = NULL /\ tail' = NULL,
           count' = count - 1, list' = Tail(list),
           \/ heap' = heap \ {head} /\ dropped' = dropped
           \/ heap' = heap /\ dropped' = dropped \cup {head},
           UNCHANGED <<next, val, call, cur, ent>>
    PROVE  Inv'
<1> USE DEF Inv
<1>1. count = Len(list) /\ list \in Seq(Nodes) /\ Len(list) \in Nat
  BY DEF ListIntact, TypeOK
<1>2. /\ list # <<>> /\ head = list[1] /\ 1 \in DOMAIN list /\ head \in Nodes
      /\ head # NULL
      /\ tail = list[Len(list)]
  BY <1>1 DEF ListIntact, Chained
<1>3. head' = next[head]
  BY <1>1, <1>2 DEF ListIntact, Chained
<1> HIDE DEF Inv
<1>4. /\ list' \in Seq(Nodes) /\ Len(list') = Len(list) - 1
      /\ DOMAIN list = 1..Len(list) /\ DOMAIN list' = 1..Len(list')
      /\ \A i \in DOMAIN list' : list'[i] = list[i + 1]
      /\ (list' = <<>>) <=> (Len(list) = 1)
      /\ {list[i] : i \in DOMAIN list} = {list'[i] : i \in DOMAIN list'} \cup {head}
      /\ \A i \in DOMAIN list' : list'[i] # head
      /\ Chained'
  BY <1>2, <1>3, Behind
<1> USE DEF Inv
<1>5. ListIntact'
  BY <1>1, <1>2, <1>4 DEF ListIntact
<1>6. \A i \in DOMAIN list' : i + 1 \in DOMAIN list
  BY <1>1, <1>4
<1>7. head \notin dropped /\ head # ent
  BY <1>2 DEF MemoryExact
<1>8. MemoryExact'
  <2>1. heap' = {list'[i] : i \in DOMAIN list'} \cup dropped' \cup ({ent'} \ {NULL})
    <3> DEFINE L == {list[i] : i \in DOMAIN list}
               M == {list'[i] : i \in DOMAIN list'}
    <3>1. L = M \cup {head} /\ head \notin M
      BY <1>4
    <3>2. heap = L \cup dropped \cup ({ent} \ {NULL})
      BY DEF MemoryExact
    <3> HIDE DEF L, M
    <3>3. heap' = M \cup dropped' \cup ({ent'} \ {NULL})
      BY <3>1, <3>2, <1>7
    <3> QED BY <3>3 DEF M
  <2>2. \A i \in DOMAIN list' : list'[i] \notin dropped' /\ list'[i] # ent'
    BY <1>4, <1>6 DEF MemoryExact
  <2>3. ent' \notin dropped'
    BY <1>7 DEF MemoryExact
  <2> QED BY <2>1, <2>2, <2>3 DEF MemoryExact
<1>9. TypeOK'
  BY <1>1, <1>2, <1>3, <1>4 DEF TypeOK, Pointers
<1> QED BY <1>5, <1>8, <1>9 DEF Fresh

LEMMA DtorFreesKeeps ==
    ASSUME Inv, DtorFrees
    PROVE  Inv'
<1>1. /\ list \in Seq(Nodes) /\ list # <<>> /\ list' \in Seq(Nodes)
      /\ DOMAIN list = 1..Len(list) /\ DOMAIN list' = 1..Len(list')
      /\ Len(list) \in Nat \ {0} /\ Len(list') = Len(list) - 1
      /\ \A i \in DOMAIN list' : list'[i] = list[i + 1]
      /\ {list[i] : i \in DOMAIN list} = {list'[i] : i \in DOMAIN list'} \cup {head}
      /\ \A i \in DOMAIN list' : list'[i] # head
      /\ Chained'
  BY Behind DEF DtorFrees
<1> USE DEF Inv, DtorFrees
<1>2. head = list[1] /\ 1 \in DOMAIN list /\ head \in Nodes
  BY <1>1 DEF ListIntact, Chained
<1>3. \A i \in DOMAIN list' : i + 1 \in DOMAIN list
  BY <1>1
<1>4. head \notin dropped /\ head # ent
  BY <1>2 DEF MemoryExact
<1>5. MemoryExact'
  <2>1. heap' = {list'[i] : i \in DOMAIN list'} \cup dropped' \cup ({ent'} \ {NULL})
    <3> DEFINE L == {list[i] : i \in DOMAIN list}
               M == {list'[i] : i \in DOMAIN list'}
    <3>1. L = M \cup {head} /\ head \notin M
      BY <1>1
    <3>2. heap = L \cup dropped \cup ({ent} \ {NULL})
      BY DEF MemoryExact
    <3> HIDE DEF L, M
    <3>3. heap' = M \cup dropped' \cup ({ent'} \ {NULL})
      BY <3>1, <3>2, <1>4
    <3> QED BY <3>3 DEF M
  <2>2. \A i \in DOMAIN list' : list'[i] \notin dropped' /\ list'[i] # ent'
    BY <1>1, <1>3 DEF MemoryExact
  <2> QED BY <2>1, <2>2 DEF MemoryExact
<1>6. TypeOK'
  BY <1>1, <1>2 DEF TypeOK
<1> QED BY <1>1, <1>5, <1>6 DEF ListIntact, Fresh

-----------------------------------------------------------------------------
(* Deleting in the middle.                                                 *)

LEMMA DelNxtKeeps ==
    ASSUME Inv, NEW k \in DOMAIN list, list_del_nxt(k)
    PROVE  Inv'
<1> USE DEF Inv, list_del_nxt
<1> DEFINE nxt == next[list[k]]
<1>1. list \in Seq(Nodes) /\ DOMAIN list = 1..Len(list) /\ Len(list) \in Nat
  BY DEF TypeOK
<1>2. /\ k + 1 \in 1..Len(list) /\ nxt = list[k + 1] /\ nxt \in Nodes
      /\ list[k] \in Nodes /\ list[k] # nxt
  BY <1>1 DEF ListIntact, Chained
<1>3. /\ list' \in Seq(Nodes) /\ Len(list') = Len(list) - 1
      /\ DOMAIN list' = 1..Len(list) - 1
      /\ \A j \in DOMAIN list' :
            list'[j] = IF j < k + 1 THEN list[j] ELSE list[j + 1]
  BY <1>1, <1>2, WithoutFacts
<1>4. \A i, j \in DOMAIN list : list[i] = list[j] => i = j
  BY DEF ListIntact, Chained
<1>5. next[nxt] = IF k + 1 = Len(list) THEN NULL ELSE list[k + 2]
  BY <1>1, <1>2 DEF ListIntact, Chained
<1>6. \A i \in DOMAIN list : i # k => next'[list[i]] = next[list[i]]
  BY <1>4 DEF TypeOK
<1>7. next'[list[k]] = next[nxt]
  BY <1>2 DEF TypeOK
<1>8. Chained'
  <2>1. head' = IF list' = <<>> THEN NULL ELSE list'[1]
    <3>1. list # <<>> /\ list' # <<>> /\ list'[1] = list[1]
      BY <1>1, <1>2, <1>3, EmptyFacts
    <3> QED BY <3>1 DEF ListIntact, Chained
  <2>2. \A i \in DOMAIN list' :
           next'[list'[i]] = IF i = Len(list') THEN NULL ELSE list'[i + 1]
    <3> TAKE i \in DOMAIN list'
    <3>1. CASE i < k
      <4>1. /\ i \in DOMAIN list /\ i # k /\ list'[i] = list[i]
            /\ i # Len(list) /\ i # Len(list') /\ list'[i + 1] = list[i + 1]
        BY <3>1, <1>1, <1>2, <1>3
      <4>2. next[list[i]] = list[i + 1]
        BY <4>1 DEF ListIntact, Chained
      <4>3. next'[list[i]] = next[list[i]]
        BY <4>1, <1>6
      <4> HIDE DEF Inv, list_del_nxt
      <4> QED BY ONLY <4>1, <4>2, <4>3
    <3>2. CASE i = k
      BY <3>2, <1>1, <1>2, <1>3, <1>5, <1>7
    <3>3. CASE i > k
      <4>1. i + 1 \in DOMAIN list /\ i + 1 # k /\ list'[i] = list[i + 1]
        BY <3>3, <1>1, <1>2, <1>3
      <4>2. next'[list'[i]] = IF i + 1 = Len(list) THEN NULL ELSE list[(i + 1) + 1]
        BY <4>1, <1>6 DEF ListIntact, Chained
      <4>3. i # Len(list') => i + 1 \in DOMAIN list' /\ list'[i + 1] = list[(i + 1) + 1]
        BY <3>3, <1>1, <1>2, <1>3
      <4> QED BY <4>2, <4>3, <1>1, <1>2, <1>3
    <3> QED BY <3>1, <3>2, <3>3, <1>1, <1>2, <1>3
  <2>3. \A i, j \in DOMAIN list' : list'[i] = list'[j] => i = j
    <3> DEFINE At(i) == IF i < k + 1 THEN i ELSE i + 1
    <3>1. \A i \in DOMAIN list' : At(i) \in DOMAIN list /\ list'[i] = list[At(i)]
      BY <1>1, <1>2, <1>3
    <3>2. \A i, j \in DOMAIN list' : At(i) = At(j) => i = j
      BY <1>1, <1>2, <1>3
    <3> HIDE DEF At
    <3> QED BY <3>1, <3>2, <1>4
  <2> QED BY <2>1, <2>2, <2>3 DEF Chained
<1>9. ListIntact'
  <2>1. tail = list[Len(list)] /\ count = Len(list)
    BY <1>1, <1>2, EmptyFacts DEF ListIntact
  <2>2. tail = nxt <=> k + 1 = Len(list)
    BY <2>1, <1>1, <1>2, <1>4
  <2>3. tail' = list'[Len(list')] /\ list' # <<>>
    BY <2>1, <2>2, <1>1, <1>2, <1>3, EmptyFacts
  <2> QED BY <1>8, <1>3, <2>1, <2>3 DEF ListIntact
<1>10. MemoryExact'
  <2> DEFINE L == {list[i] : i \in DOMAIN list}
             M == {list'[i] : i \in DOMAIN list'}
  <2>1. L = M \cup {nxt} /\ nxt \notin M
    <3>1. \A i \in DOMAIN list :
             \/ i = k + 1
             \/ i \in DOMAIN list' /\ list'[i] = list[i]
             \/ i - 1 \in DOMAIN list' /\ list'[i - 1] = list[i]
      <4> TAKE i \in DOMAIN list
      <4>1. CASE i < k + 1
        BY <4>1, <1>1, <1>2, <1>3
      <4>2. CASE i > k + 1
        <5>1. i - 1 \in DOMAIN list' /\ ~(i - 1 < k + 1) /\ (i - 1) + 1 = i
          BY <4>2, <1>1, <1>2, <1>3
        <5> QED BY <5>1, <1>3
      <4> QED BY <4>1, <4>2, <1>1, <1>2
    <3>2. \A i \in DOMAIN list' : i \in DOMAIN list /\ i + 1 \in DOMAIN list
      BY <1>1, <1>3
    <3>3. \A i \in DOMAIN list' : list'[i] # nxt /\ list'[i] \in L
      BY <1>1, <1>2, <1>3, <1>4, <3>2
    <3> QED BY <3>1, <3>3, <1>2, <1>1
  <2>2. heap = L \cup dropped \cup ({ent} \ {NULL}) /\ nxt \notin dropped /\ nxt # ent
    BY <1>1, <1>2 DEF MemoryExact
  <2>3. \A x \in L : x \notin dropped /\ x # ent
    BY DEF MemoryExact
  <2>4. \A i \in DOMAIN list' : list'[i] \in L
    BY <2>1
  <2> HIDE DEF L, M, nxt
  <2>5. heap' = M \cup dropped' \cup ({ent'} \ {NULL})
    BY <2>1, <2>2 DEF nxt
  <2>6. \A i \in DOMAIN list' : list'[i] \notin dropped' /\ list'[i] # ent'
    BY <2>3, <2>4
  <2> QED BY <2>5, <2>6 DEF M, MemoryExact
<1>11. TypeOK'
  BY <1>1, <1>2, <1>3, <1>9 DEF TypeOK, Pointers, ListIntact
<1>12. Fresh'
  <2>1. ent # NULL => list[k] # ent
    BY DEF MemoryExact
  <2> QED BY <2>1, <1>2 DEF Fresh, TypeOK, Pointers
<1> QED BY <1>9, <1>10, <1>11, <1>12

-----------------------------------------------------------------------------

LEMMA NextInv == Inv /\ [Next]_vars => Inv'
<1> SUFFICES ASSUME Inv, [Next]_vars PROVE Inv'
  OBVIOUS
<1>1. ASSUME NEW n \in Nodes, NEW v \in Values, Alloc(n, v) PROVE Inv'
  <2> USE <1>1 DEF Inv, Alloc
  <2>1. \A i \in DOMAIN list : list[i] # n /\ list[i] \in Nodes
    BY DEF MemoryExact, TypeOK
  <2>2. n \notin dropped /\ n # NULL
    BY DEF MemoryExact
  <2>3. TypeOK'
    BY DEF TypeOK, Pointers
  <2>4. ListIntact'
    BY <2>1 DEF ListIntact, Chained, TypeOK
  <2>5. MemoryExact'
    BY <2>1, <2>2 DEF MemoryExact
  <2> QED BY <2>3, <2>4, <2>5 DEF Fresh, TypeOK
<1>2. CASE list_add
  BY <1>2, LinkKeeps DEF list_add, Inv, TypeOK
<1>3. CASE SearchBegins
  <2> USE <1>3 DEF SearchBegins, Inv
  <2>1. cur' \in {list[i] : i \in DOMAIN list} \cup {NULL} /\ cur' \in Pointers
    BY EmptyFacts DEF ListIntact, Chained, TypeOK
  <2> QED BY <2>1 DEF ListIntact, Chained, MemoryExact, TypeOK, Fresh
<1>4. CASE SearchGoesOn
  <2> USE <1>4 DEF SearchGoesOn, Inv
  <2>1. PICK i \in DOMAIN list : cur = list[i]
    BY DEF MemoryExact
  <2>2. cur' \in {list[j] : j \in DOMAIN list} \cup {NULL} /\ cur' \in Pointers
    <3>1. i = Len(list) \/ i + 1 \in DOMAIN list
      BY <2>1 DEF TypeOK
    <3> QED BY <2>1, <3>1 DEF ListIntact, Chained, TypeOK, Pointers
  <2> QED BY <2>2 DEF ListIntact, Chained, MemoryExact, TypeOK, Fresh
<1>5. CASE SearchFinds
  <2> USE <1>5 DEF SearchFinds, Inv
  <2>1. MemoryExact'
    <3> DEFINE L == {list[i] : i \in DOMAIN list}
    <3>1. heap = L \cup dropped \cup ({ent} \ {NULL}) /\ ent \notin L /\ ent \notin dropped
      BY DEF MemoryExact
    <3>2. \A i \in DOMAIN list : list[i] # NULL
      BY DEF TypeOK
    <3>3. NULL \notin dropped
      BY DEF TypeOK
    <3> HIDE DEF L
    <3>4. heap' = L \cup dropped \cup ({ent'} \ {NULL})
      BY <3>1
    <3> QED BY <3>2, <3>3, <3>4 DEF MemoryExact, L
  <2> QED BY <2>1 DEF ListIntact, Chained, TypeOK, Fresh, Pointers
<1>6. CASE SearchEnds
  BY <1>6, LinkKeeps DEF SearchEnds, Inv, MemoryExact, TypeOK
<1>7. CASE list_del_fst
  BY <1>7, FirstOff DEF list_del_fst
<1>8. ASSUME NEW i \in DOMAIN list, list_del_nxt(i) PROVE Inv'
  BY <1>8, DelNxtKeeps
<1>9. CASE iter_next
  BY <1>9, FirstOff DEF iter_next
<1>10. CASE DtorBegins
  BY <1>10 DEF DtorBegins, Inv, ListIntact, Chained, MemoryExact, TypeOK, Fresh
<1>11. CASE DtorFrees
  BY <1>11, DtorFreesKeeps
<1>12. CASE DtorEnds
  <2> USE <1>12 DEF DtorEnds, Inv
  <2>1. list = <<>> /\ Len(list) = 0
    BY EmptyFacts DEF ListIntact, Chained, TypeOK
  <2> QED BY <2>1 DEF ListIntact, Chained, MemoryExact, TypeOK, Fresh, Pointers
<1>13. CASE UNCHANGED vars
  BY <1>13 DEF vars, Inv, ListIntact, Chained, MemoryExact, TypeOK, Fresh
<1> QED
  BY <1>1, <1>2, <1>3, <1>4, <1>5, <1>6, <1>7, <1>8, <1>9, <1>10, <1>11, <1>12,
     <1>13 DEF Next, Search, Dtor

LEMMA Invariance == Spec => []Inv
BY InitInv, NextInv, PTL DEF Spec

\* Every call leaves links to nodes or NULL, also those of calloc'ed nodes that
\* list_add and list_add_lk_set link in, and a caller holds one node at most.
THEOREM ListTypeCorrect == Spec => []TypeOK
<1>1. Inv => TypeOK
  BY DEF Inv
<1> QED BY <1>1, Invariance, PTL

\* For any number of nodes, head, tail, count and the links of a list describe
\* what its callers put in and took out, whatever mix of list_add,
\* list_add_lk_set, list_del_fst, list_del_nxt and iter_next they call.
THEOREM ListStaysIntact == Spec => []ListIntact
<1>1. Inv => ListIntact
  BY DEF Inv
<1> QED BY <1>1, Invariance, PTL

\* None of these calls reaches or frees a node twice, and what they take out of
\* a list they free; only iter_next leaves nodes behind.
THEOREM MemoryStaysExact == Spec => []MemoryExact
<1>1. Inv => MemoryExact
  BY DEF Inv
<1> QED BY <1>1, Invariance, PTL
=============================================================================
