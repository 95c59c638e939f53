------------------------------- MODULE Optional -------------------------------
(* The absence of a value: NULL of SQL, null and undefined of the code.      *)

CONSTANT None
=============================================================================
