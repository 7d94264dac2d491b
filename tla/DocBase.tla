------------------------------ MODULE DocBase -------------------------------
(***************************************************************************)
(* What the data base promises a client whose queries select whole         *)
(* documents: a collection of typed documents, inserted, deleted and       *)
(* replaced by query.  A request that fails because a node is larger than  *)
(* a section may leave the root of the document behind, without fields.    *)
(***************************************************************************)
EXTENDS FiniteSets

CONSTANTS Documents,        \* JSON trees
          TypeNames,
          Queries,
          Matches(_, _)     \* does a stored document satisfy a query

VARIABLE docs               \* address -> [json, type]

Init == docs = [a \in {} |-> 0]

\* Below, old and new stand for docs before and after a command.

Selected(old, q) == {a \in DOMAIN old : Matches(old[a], q)}

\* new is old without the documents A, plus documents at other addresses.
Keeps(old, new, A) ==
    \A a \in DOMAIN old \ A : a \in DOMAIN new /\ new[a] = old[a]
Added(old, new, A) == DOMAIN new \ (DOMAIN old \ A)

Bare(d) == [d EXCEPT !.son = <<>>]

Insert(old, new, d, t) ==
    /\ Keeps(old, new, {})
    /\ \E a \in Added(old, new, {}) : /\ Added(old, new, {}) = {a}
                                      /\ new[a].type = t
                                      /\ new[a].json \in {d, Bare(d)}

Delete(old, new, q) ==
    new = [a \in DOMAIN old \ Selected(old, q) |-> old[a]]

\* Every selected document is replaced by d and keeps its type; when d turns
\* out to be too large, only the root of the first replacement is left.
Update(old, new, q, d) ==
    \E A \in SUBSET Selected(old, q) :
        LET N == Added(old, new, A)
        IN  /\ Keeps(old, new, A)
            /\ \A t \in TypeNames :
                  Cardinality({a \in A : old[a].type = t})
                    = Cardinality({a \in N : new[a].type = t})
            /\ \/ A = Selected(old, q) /\ \A a \in N : new[a].json = d
               \/ Cardinality(A) = 1 /\ \A a \in N : new[a].json = Bare(d)

Next == \E old \in {docs}, new \in {docs'} :
           \/ \E d \in Documents, t \in TypeNames : Insert(old, new, d, t)
           \/ \E q \in Queries : \/ Delete(old, new, q)
                                 \/ \E d \in Documents : Update(old, new, q, d)

Spec == Init /\ [][Next]_docs
=============================================================================
