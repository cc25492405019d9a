------------------------------ MODULE MCSessions ------------------------------
(* Small instances of Sessions for TLC.                                     *)
EXTENDS Sessions, TLC

CONSTANTS b1, b2, t1, t2

Symmetry == Permutations(Tabs)
==============================================================================
