---------------------------- MODULE XfsLogOrder ----------------------------
(***************************************************************************)
(* What the log promises the transaction layer, without iclogs: a commit   *)
(* callback attached to a log record runs once, only when that record and  *)
(* all records before it are on disk, and after all callbacks of earlier   *)
(* records.  Records reach the disk in any order.  Nothing is promised     *)
(* once the log has failed.                                                *)
(***************************************************************************)
EXTENDS Integers

CONSTANT Txs

VARIABLES disk,    \* records on disk
          reg,     \* the record each transaction's callback is attached to, or 0
          done,    \* the transactions whose callbacks reported success
          failed   \* the log is dead

vars == <<disk, reg, done, failed>>

Init == /\ disk = {} /\ reg = [t \in Txs |-> 0] /\ done = {} /\ failed = FALSE

Attach(t, l) == /\ ~failed /\ reg[t] = 0 /\ l \notin disk /\ l > 0
                /\ reg' = [reg EXCEPT ![t] = l]
                /\ UNCHANGED <<disk, done, failed>>

Write(l) == /\ ~failed /\ l \notin disk
            /\ disk' = disk \cup {l}
            /\ UNCHANGED <<reg, done, failed>>

Complete(t) == /\ ~failed /\ reg[t] > 0 /\ t \notin done
               /\ 1 .. reg[t] \subseteq disk
               /\ \A u \in Txs : reg[u] \in 1 .. reg[t] - 1 => u \in done
               /\ done' = done \cup {t}
               /\ UNCHANGED <<disk, reg, failed>>

Fail == failed' = TRUE /\ UNCHANGED <<disk, reg, done>>

Dead == failed /\ failed'

Next == \/ \E t \in Txs : Attach(t, reg'[t]) \/ Complete(t)
        \/ \E l \in disk' : Write(l)
        \/ Fail \/ Dead

Spec == Init /\ [][Next]_vars
=============================================================================
