------------------------------ MODULE MCSessions --------------------------------
(* Sessions for TLC: the connections are alike.                              *)
EXTENDS Sessions, TLC

Symmetry == Permutations(Conns)
=============================================================================
