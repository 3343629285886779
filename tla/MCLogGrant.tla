----------------------------- MODULE MCLogGrant -----------------------------
(* A small instance of XfsLogGrant: three tickets that cannot all hold space *)
(* at once, of which ta and tb roll.                                         *)
EXTENDS XfsLogGrant

CONSTANTS ta, tb, tc

MCLiveUnit == [t \in Tickets |-> IF t = tc THEN 3 ELSE 2]
MCLiveOcnt == [t \in Tickets |-> 1]
MCPerm == Tickets \ {tc}
=============================================================================
