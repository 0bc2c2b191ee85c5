------------------------------ MODULE MCModelSync ------------------------------
(* ModelSync on the small tables that TLC explores.                         *)
EXTENDS ModelSync
=============================================================================
