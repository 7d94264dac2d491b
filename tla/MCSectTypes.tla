---------------------------- MODULE MCSectTypes -----------------------------
(* Small instances of SectTypes for TLC.                                   *)
EXTENDS SectTypes

ASSUME NamesNotZero

\* Types with no, one and two attributes; the driver defines types without
\* attributes, also one with an empty name when the request names none.
MCTypeDefs ==
    {[name |-> <<7>>, attrs |-> <<>>],
     [name |-> <<>>,  attrs |-> <<>>],
     [name |-> <<8>>, attrs |-> <<[name |-> <<5>>, type |-> 0]>>],
     [name |-> <<9>>, attrs |-> <<[name |-> <<4>>, type |-> 2],
                                  [name |-> <<6>>, type |-> 4]>>]}
MCTypeNames == {<<>>, <<7>>, <<8>>, <<9>>}
=============================================================================
