---------------------------- MODULE RecordStore -----------------------------
(***************************************************************************)
(* What a section of entities promises its callers: a table from slot      *)
(* addresses to records, in which a record stays what it was written to be *)
(* until it is deleted, whatever happens to the others.                    *)
(***************************************************************************)
CONSTANTS Addresses,    \* slot offsets
          Records,      \* [key, val, attr]
          Attributes

VARIABLE store

Init == store = [a \in {} |-> 0]

\* A record is stored at an address that holds none.
Put(a, r) == /\ a \notin DOMAIN store
             /\ store' = [x \in DOMAIN store \cup {a} |->
                            IF x = a THEN r ELSE store[x]]

Remove(a) == /\ a \in DOMAIN store
             /\ store' = [x \in DOMAIN store \ {a} |-> store[x]]

\* The attributes of a stored record change; its key and value do not.
Relink(a, t) == /\ a \in DOMAIN store
                /\ store' = [store EXCEPT ![a].attr = t]

Next == \E a \in Addresses :
           \/ \E r \in Records : Put(a, r)
           \/ Remove(a)
           \/ \E t \in Attributes : Relink(a, t)

Spec == Init /\ [][Next]_store
=============================================================================
