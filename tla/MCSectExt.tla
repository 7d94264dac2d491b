----------------------------- MODULE MCSectExt ------------------------------
(* Small instances of SectExt for TLC.                                     *)
EXTENDS SectExt, TLC

\* The record of a client's root object is empty (no key, no value); the
\* others have one, two and three bytes, a zero byte inside one of them.
MCPayloads == {[key |-> <<>>,  val |-> <<>>],
               [key |-> <<7>>, val |-> <<>>],
               [key |-> <<8>>, val |-> <<9>>],
               [key |-> <<6>>, val |-> <<5, 0>>]}

\* An int32 256, a FALSE or a float 50.5 starts with a zero byte.
MCZeroPayloads == {[key |-> <<7>>, val |-> <<1>>],
                   [key |-> <<8>>, val |-> <<0>>]}
=============================================================================
