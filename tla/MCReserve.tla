----------------------------- MODULE MCReserve -----------------------------
(* What is reserved is given in the end: small instances of XfsLogGrant, as *)
(* the constants say, and of XfsSbCounters. A behaviour is one of component  *)
(* `which', the other stays in an initial state.                             *)
EXTENDS XfsLogGrant

CONSTANTS ta, tb, tc

VARIABLES which, sb, count, enabled, online, slock, pool, sth, hot, used, bug, sops

sbVars == <<sb, count, enabled, online, slock, pool, sth, hot, used, bug, sops>>

\* three tickets that cannot all hold space at once
MCUnit == [t \in Tickets |-> IF t = tc THEN 3 ELSE 2]
MCOcnt == [t \in Tickets |-> 1]
MCPerm == Tickets \ {tc}

\* two cpus, one of which may come late or go while the counter is enabled
Cpu == INSTANCE XfsSbCounters WITH
  Cpus <- 1 .. 2, Threads <- 1 .. 2, Blocks <- 14, Aside <- 1, Reenable <- 3, Takes <- {<<2, FALSE>>, <<5, TRUE>>},
  Resblks <- 2, Requests <- {}, HotUnplug <- {TRUE}, MaxOps <- 2,
  cnt <- count, lock <- slock, th <- sth, ops <- sops
BothInit ==
  /\ which \in {"grant", "sb"}
  /\ Init /\ Cpu!SbInit
  /\ which # "sb" => online = 1 .. 2
BothNext ==
  /\ UNCHANGED which
  /\ \/ which = "grant" /\ Next /\ UNCHANGED sbVars
     \/ which = "sb" /\ Cpu!SbNext /\ UNCHANGED vars

\* Fairness of XfsLogGrant and SbFair of XfsSbCounters, each for its own behaviours
BothFairness ==
  /\ \A t \in Tickets :
       /\ WF_vars(which = "grant" /\ pc[t] \notin {"idle", "held"} /\ Thread(t))
       /\ SF_vars(which = "grant" /\ UngrantLogSpace(t))
  /\ WF_vars(/\ which = "grant"
             /\ \/ \E l \in Lsns : Pos(l) <= head /\ (SyncLog(l) \/ AilAdvance(l))
                \/ \E l \in movers : MoveTail(l))
  /\ \A t \in {1, 2} : WF_sbVars(which = "sb" /\ (Cpu!InModify(t) \/ Cpu!Done(t)))
BothSpec == BothInit /\ [][BothNext]_<<which, vars, sbVars>> /\ BothFairness

\* A change of a counter returns, also when its cpu has too few blocks and the others
\* have enough between them (xfs_icsb_modify_counters).
CallsReturn == Cpu!CallsReturn
=============================================================================
