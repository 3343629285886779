----------------------------- MODULE MCAilBoth -----------------------------
(* Two small instances of XfsAil in one run: three items with a walker, as  *)
(* the constants say, and one item with two fields that is relogged and     *)
(* flushed while the filesystem may be shut down.                           *)
EXTENDS XfsAil

CONSTANTS i0, i1, i2, i3, t1, t2, t3, w1, core, data, whole

VARIABLE which

One == INSTANCE XfsAil WITH Items <- {i0}, Fields <- {core, data}, Travs <- {}, MayShutdown <- TRUE,
                            MaxTarget <- 2, MaxRec <- 2, StuckMax <- 0

Symmetry == Permutations(Items) \cup Permutations(Txs) \cup Permutations({core, data})

BothInit == \/ which = "walk" /\ Init
            \/ which = "one" /\ One!Init
BothNext == /\ UNCHANGED which
            /\ \/ which = "walk" /\ Next
               \/ which = "one" /\ One!Next
BothSpec == BothInit /\ [][BothNext]_<<which, vars>>
=============================================================================
