---------------------------- MODULE MCSectUpdate ----------------------------
(* Small instances of SectUpdate for TLC.                                  *)
EXTENDS SectUpdate, TLC

\* Records of no, one and two bytes: every update of one by another
\* grows it, shrinks it or keeps its size.
MCPayloads == {[key |-> <<>>,  val |-> <<>>],
               [key |-> <<7>>, val |-> <<>>],
               [key |-> <<8>>, val |-> <<9>>]}
=============================================================================
