----------------------------- MODULE MCFactMemory -----------------------------
(* FactMemory on the small tables that TLC explores.                        *)
EXTENDS FactMemory
=============================================================================
