------------------------------ MODULE MCLists -------------------------------
(* A small instance of Lists for TLC.                                      *)
EXTENDS Lists
=============================================================================
