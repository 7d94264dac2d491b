------------------------------- MODULE Lists --------------------------------
(***************************************************************************)
(* The linked lists of utils/list.h: head, tail and count over nodes that  *)
(* link to the next, as LIST_DEFINE makes them for sections, rows, types,  *)
(* attributes and paths, with the row that iter_next takes off by hand.    *)
(* One list, and the nodes that calloc and free pass to it.  The loops of  *)
(* list_dtor and list_add_lk_set are taken pass by pass.                   *)
(***************************************************************************)
EXTENDS Naturals, Sequences

CONSTANTS Nodes, NULL,
          Values            \* what CMP_FUNC compares

ASSUME ListAssumption == NULL \notin Nodes /\ Values # {}

VARIABLES
    next, val,              \* the fields of a node
    heap,                   \* the nodes that are allocated
    head, tail, count,      \* the list
    call,                   \* the loop that is running: none, search or dtor
    cur,                    \* where the search is
    ent,                    \* a node in the hands of the caller, or NULL
    list,                   \* the nodes a caller expects in the list, in order
    dropped                 \* nodes that iter_next left without freeing them
\* list and dropped are there for the properties; no call looks at them.

vars == <<next, val, heap, head, tail, count, call, cur, ent, list, dropped>>

Pointers == Nodes \cup {NULL}

-----------------------------------------------------------------------------

\* list_new; the nodes do not exist yet.
Init == /\ next = [n \in Nodes |-> NULL]
        /\ val \in [Nodes -> Values]
        /\ heap = {}
        /\ head = NULL /\ tail = NULL /\ count = 0
        /\ call = "none" /\ cur = NULL /\ ent = NULL
        /\ list = <<>> /\ dropped = {}

\* Mutant: my_malloc, which leaves the field next as it finds it.
Alloc_Malloc(n, v) ==
    /\ call = "none" /\ ent = NULL
    /\ n \notin heap
    /\ heap' = heap \cup {n}
    /\ next' = [next EXCEPT ![n] = "garbage"]
    /\ val' = [val EXCEPT ![n] = v]
    /\ ent' = n
    /\ UNCHANGED <<head, tail, count, call, cur, list, dropped>>

\* my_calloc by the caller, who sets the value.
Alloc(n, v) ==
    /\ call = "none" /\ ent = NULL
    /\ n \notin heap
    /\ heap' = heap \cup {n}
    /\ next' = [next EXCEPT ![n] = NULL]
    /\ val' = [val EXCEPT ![n] = v]
    /\ ent' = n
    /\ UNCHANGED <<head, tail, count, call, cur, list, dropped>>

\* ent becomes the last node.
Link ==
    /\ IF head = NULL THEN head' = ent /\ UNCHANGED next
       ELSE next' = [next EXCEPT ![tail] = ent] /\ UNCHANGED head
    /\ tail' = ent
    /\ count' = count + 1

list_add ==
    /\ call = "none" /\ ent # NULL
    /\ Link
    /\ list' = Append(list, ent)
    /\ ent' = NULL
    /\ UNCHANGED <<val, heap, call, cur, dropped>>

\* list_add_lk_set: the search, which starts at NULL in an empty list, ...
SearchBegins ==
    /\ call = "none" /\ ent # NULL
    /\ call' = "search" /\ cur' = head
    /\ UNCHANGED <<next, val, heap, head, tail, count, ent, list, dropped>>

\* Mutant: the search does not move on.
SearchGoesOn_Stays ==
    /\ call = "search" /\ cur # NULL
    /\ val[cur] # val[ent]
    /\ UNCHANGED vars

SearchGoesOn ==
    /\ call = "search" /\ cur # NULL
    /\ val[cur] # val[ent]
    /\ cur' = next[cur]
    /\ UNCHANGED <<next, val, heap, head, tail, count, call, ent, list, dropped>>

\* ... which finds an equal node (the caller frees its own), ...
SearchFinds ==
    /\ call = "search" /\ cur # NULL
    /\ val[cur] = val[ent]
    /\ call' = "none" /\ cur' = NULL
    /\ heap' = heap \ {ent} /\ ent' = NULL
    /\ UNCHANGED <<next, val, head, tail, count, list, dropped>>

\* ... or the end, where the node is added.
SearchEnds ==
    /\ call = "search" /\ cur = NULL
    /\ Link
    /\ list' = Append(list, ent)
    /\ call' = "none" /\ ent' = NULL
    /\ UNCHANGED <<val, heap, cur, dropped>>

list_del_fst ==
    /\ call = "none"
    /\ count > 0
    /\ heap' = heap \ {head}
    /\ IF count > 1 THEN head' = next[head] /\ UNCHANGED tail
       ELSE head' = NULL /\ tail' = NULL
    /\ count' = count - 1
    /\ list' = Tail(list)
    /\ UNCHANGED <<next, val, call, cur, ent, dropped>>

\* list without the node at position i.
Without(s, i) == [j \in 1..Len(s) - 1 |-> IF j < i THEN s[j] ELSE s[j + 1]]

\* Mutant: tail stays on the node that is freed.
list_del_nxt_KeepsTail(i) ==
    /\ call = "none"
    /\ i \in DOMAIN list
    /\ LET nxt == next[list[i]]
       IN  /\ nxt # NULL
           /\ next' = [next EXCEPT ![list[i]] = next[nxt]]
           /\ heap' = heap \ {nxt}
    /\ count' = count - 1
    /\ list' = Without(list, i + 1)
    /\ UNCHANGED <<val, head, tail, call, cur, ent, dropped>>

\* The node after the one at position i of the list; nothing happens behind
\* the last one.
list_del_nxt(i) ==
    /\ call = "none"
    /\ i \in DOMAIN list
    /\ LET nxt == next[list[i]]
       IN  /\ nxt # NULL
           /\ tail' = IF tail = nxt THEN list[i] ELSE tail
           /\ next' = [next EXCEPT ![list[i]] = next[nxt]]
           /\ heap' = heap \ {nxt}
    /\ count' = count - 1
    /\ list' = Without(list, i + 1)
    /\ UNCHANGED <<val, head, call, cur, ent, dropped>>

\* iter_next takes the first row off cur_col and does not free it.
iter_next ==
    /\ call = "none"
    /\ count > 0
    /\ IF count > 1 THEN head' = next[head] /\ UNCHANGED tail
       ELSE head' = NULL /\ tail' = NULL
    /\ count' = count - 1
    /\ list' = Tail(list)
    /\ dropped' = dropped \cup {head}
    /\ UNCHANGED <<next, val, heap, call, cur, ent>>

\* list_dtor: node by node, ...
DtorBegins ==
    /\ call = "none" /\ ent = NULL
    /\ call' = "dtor"
    /\ UNCHANGED <<next, val, heap, head, tail, count, cur, ent, list, dropped>>

\* Mutant: the node is left behind, not freed.
DtorFrees_OnlyMoves ==
    /\ call = "dtor" /\ head # NULL
    /\ head' = next[head]
    /\ list' = Tail(list)
    /\ UNCHANGED <<next, val, heap, tail, count, call, cur, ent, dropped>>

DtorFrees ==
    /\ call = "dtor" /\ head # NULL
    /\ heap' = heap \ {head}
    /\ head' = next[head]
    /\ list' = Tail(list)
    /\ UNCHANGED <<next, val, tail, count, call, cur, ent, dropped>>

\* ... then the list itself; list_new makes the next one.
DtorEnds ==
    /\ call = "dtor" /\ head = NULL
    /\ call' = "none" /\ tail' = NULL /\ count' = 0
    /\ UNCHANGED <<next, val, heap, head, cur, ent, list, dropped>>

Search == SearchGoesOn \/ SearchFinds \/ SearchEnds
Dtor   == DtorFrees \/ DtorEnds

Next == \/ \E n \in Nodes, v \in Values : Alloc(n, v)
        \/ list_add \/ SearchBegins \/ Search
        \/ list_del_fst
        \/ \E i \in DOMAIN list : list_del_nxt(i)
        \/ iter_next
        \/ DtorBegins \/ Dtor

\* A loop that has begun runs on: nothing in it waits.
Spec == Init /\ [][Next]_vars /\ WF_vars(Search) /\ WF_vars(Dtor)

-----------------------------------------------------------------------------
(* Properties.                                                             *)

\* Type invariant: every pointer that list.h follows is a node or NULL.
TypeOK ==
    /\ next \in [Nodes -> Pointers] /\ val \in [Nodes -> Values]
    /\ heap \in SUBSET Nodes /\ dropped \in SUBSET Nodes
    /\ head \in Pointers /\ tail \in Pointers /\ cur \in Pointers
    /\ ent \in Pointers
    /\ count \in Nat
    /\ call \in {"none", "search", "dtor"}
    /\ list \in Seq(Nodes)

\* From head, next leads through exactly the nodes of the list to NULL.
Chained ==
    /\ head = IF list = <<>> THEN NULL ELSE list[1]
    /\ \A i \in DOMAIN list :
          next[list[i]] = IF i = Len(list) THEN NULL ELSE list[i + 1]
    /\ \A i, j \in DOMAIN list : list[i] = list[j] => i = j

\* The three fields and the chain describe the list the callers expect, over
\* any mix of additions at the tail, deletions at the head and in the middle
\* and rows taken off by hand: tail is the last node, so the next addition is
\* not lost, and count, by which file.c and iter.c test for rows, is right.
ListIntact ==
    /\ Chained
    /\ call # "dtor" => /\ tail = IF list = <<>> THEN NULL ELSE list[Len(list)]
                        /\ count = Len(list)

\* No call reaches a freed node or frees one twice, and what a deletion takes
\* out is freed: the nodes allocated are those in the list, the one in the
\* caller's hands, and those that iter_next leaves behind, and the search
\* stands on a node of the list.
MemoryExact ==
    /\ heap = {list[i] : i \in DOMAIN list} \cup dropped \cup ({ent} \ {NULL})
    /\ \A i \in DOMAIN list : list[i] \notin dropped /\ list[i] # ent
    /\ ent \notin dropped
    /\ call = "search" => /\ ent # NULL
                          /\ cur \in {list[i] : i \in DOMAIN list} \cup {NULL}

\* The search and the destruction come to their end, which they know only by
\* a NULL link.
CallsReturn == call # "none" ~> call = "none"
=============================================================================
