----------------------------- MODULE UserTypes ------------------------------
(***************************************************************************)
(* Types that are deleted while documents of them are stored               *)
(* (user_delete_type, file_delete_type).  A document points to the slot of *)
(* its type in a section of types; the slot is freed, and taken by types   *)
(* and attributes that are added later.                                    *)
(***************************************************************************)
EXTENDS User

\* The documents that UPDATEs write: such that only the root satisfies a query,
\* since an UPDATE by a document with two matching nodes need not end.
CONSTANT NewDocuments

VARIABLES
    born,       \* address -> the type name a document was inserted with
    gone        \* the names of types that were deleted
\* born and gone are there for the properties.

tvars == <<file, docs, failed, born, gone>>

TypesInit == Init /\ born = [x \in {} |-> <<>>] /\ gone = {}

NewType(t) == AddType(t) /\ UNCHANGED <<born, gone>>

InsertDoc(json, name) ==
    /\ Insert(json, name)
    /\ born' = [x \in DOMAIN born \cup (DOMAIN docs' \ DOMAIN docs) |->
                   IF x \in DOMAIN born THEN born[x] ELSE name]
    /\ UNCHANGED gone

\* What an UPDATE or DELETE leaves alone keeps its place in born; of the rows
\* an UPDATE writes nothing is remembered.
Untouched == {x \in DOMAIN born \cap DOMAIN docs' : docs'[x] = docs[x]}

DeleteDocs(query) ==
    /\ Delete(query, FALSE)
    /\ born' = Restrict(born, Untouched)
    /\ UNCHANGED gone

UpdateDocs(query, json) ==
    /\ Update(query, json, FALSE)
    /\ born' = Restrict(born, Untouched)
    /\ UNCHANGED gone

user_delete_type(name) ==
    /\ Command(file_delete_type(file, name))
    /\ gone' = IF file_find_type(file, name) = <<>> THEN gone
               ELSE gone \cup {name}
    /\ UNCHANGED born

TypesNext == \/ \E t \in TypeDefs : NewType(t)
             \/ \E d \in Documents, n \in TypeNames : InsertDoc(d, n)
             \/ \E q \in Queries : \/ DeleteDocs(q)
                                  \/ \E d \in NewDocuments : UpdateDocs(q, d)
             \/ \E n \in TypeNames : user_delete_type(n)

TypesSpec == TypesInit /\ [][TypesNext]_tvars

-----------------------------------------------------------------------------
(* Properties.                                                             *)

\* user_read_type: what the file says of a name, <<>> for FAILED.
user_read_type(name) ==
    LET found == file_find_type(file, name)
    IN  IF found = <<>> THEN <<>> ELSE file_read_type(file, Head(found))

\* Documents of a type that was never deleted keep it, with its attributes,
\* while types around theirs are deleted and their slots are taken again by
\* other types and attributes (file_delete_type leaves type_ptr alone).
TypesStay ==
    \A x \in DOMAIN born : born[x] \notin gone /\ file.harm = {} =>
        /\ docs[x].type = born[x]
        /\ file_read_type(file, Attr(file, x).type_ptr) = user_read_type(born[x])
        /\ user_read_type(born[x])[1] \in TypeDefs

\* A document that json_is_apply_type let in has the fields that its type
\* requires, until an UPDATE changes the document, which is not checked.
FieldsStay ==
    \A x \in DOMAIN born : born[x] \notin gone /\ ~failed /\ file.harm = {} =>
        \A t \in {y \in TypeDefs : y.name = born[x]} :
            \A k \in DOMAIN t.attrs : \E j \in ToSet(docs[x].json.son) :
                j.key = t.attrs[k].name /\ j.type = t.attrs[k].type


-----------------------------------------------------------------------------
\* The first step of the comment on sect_ext_delete, "read the entity that is
\* to be deleted": what UPDATE and DELETE delete are entities.
StaleRowsKeepOff == file.harm = {}
=============================================================================
