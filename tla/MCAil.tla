------------------------------- MODULE MCAil -------------------------------
(* Small instances of XfsAil. *)
EXTENDS XfsAil

CONSTANTS i1, i2, i3, t1, t2, t3, w1, core, data

Symmetry == Permutations(Items) \cup Permutations(Txs) \cup Permutations(Fields)
=============================================================================
