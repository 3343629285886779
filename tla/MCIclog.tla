------------------------------ MODULE MCIclog ------------------------------
(* Small instances of XfsIclog. *)
EXTENDS XfsIclog, TLC

CONSTANTS t1, t2, t3, f1, c1, c2

\* t1's data does not fit into what a half-used iclog has left
MCDataLen == [t \in Txs |-> IF t = t1 THEN 2 ELSE 1]

\* a transaction that alone fills the whole ring before it writes its commit record
MCLongLen == [t \in Txs |-> N * Cap]
Symmetry == Permutations(Cpus)
=============================================================================
