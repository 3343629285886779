----------------------------- MODULE XfsLogTail -----------------------------
(***************************************************************************)
(* The tail of the log: how xlog_assign_tail_lsn, xfs_log_move_tail, the   *)
(* commit callbacks and the AIL together decide which lsn is stamped into  *)
(* a log record as the place where recovery starts, and whether recovery   *)
(* then finds every change that is not in its place on disk yet.           *)
(*                                                                         *)
(* The iclogs are reduced to what XfsIclog shows of them: records are      *)
(* stamped by the last one to release them, reach the disk in any order,   *)
(* and their callbacks run in order.  The AIL is reduced to the lsn of     *)
(* each item on it (XfsAil).  LSNs are record numbers.                     *)
(***************************************************************************)
EXTENDS Integers, FiniteSets

CONSTANTS
  Txs,        \* transactions, each of which logs one item
  Items,      \* log items
  Old,        \* the item on the AIL to begin with
  MaxRec,     \* bound: the last record that may be written
  Bufs,       \* l_iclog_bufs: the records that can be under way at once
  MaySpan,    \* whether a transaction may begin in one record and end in another
  MayDrain,   \* whether the AIL may run empty
  CB          \* the thread that runs the callbacks

Recs == 1 .. MaxRec
None == -1
Movers == Items \cup {CB}      \* who calls xfs_log_move_tail: CB, or a flush's end

ASSUME TailAssumption ==
  /\ Old \in Items /\ CB \notin Items
  /\ MaxRec \in Nat \ {0, 1}
  /\ Bufs \in Nat \ {0}
  /\ MaySpan \in BOOLEAN /\ MayDrain \in BOOLEAN

VARIABLES
  filling,   \* the record being filled
  it,        \* the item a transaction logs, once it has begun to commit
  start,     \* t_lsn: the record the transaction begins in, 0 before
  commit,    \* the record its commit record is in, 0 before
  called,    \* the transactions whose callback has inserted their item
  inPlace,   \* the transactions whose changes have been flushed
  li,        \* li_lsn, 0 for an item that is not on the AIL
  rec,       \* how far each record is
  got,       \* what xlog_assign_tail_lsn has read from the AIL for it
  hdr,       \* h_tail_lsn
  lock,      \* the record whose release holds l_icloglock, or 0
  cb,        \* how far the callback thread is with record syncLsn + 1
  syncLsn,   \* l_last_sync_lsn
  tailLsn,   \* l_tail_lsn
  mt         \* the argument of a pending xfs_log_move_tail

txv  == <<it, start, commit>>
recv == <<rec, got, hdr, lock>>
tailVars == <<filling, txv, called, inPlace, li, recv, cb, syncLsn, tailLsn, mt>>

\* A mounted filesystem: record 1 is on disk, its item on the AIL.
TailInit ==
  /\ filling = 2 /\ called = {} /\ inPlace = {}
  /\ it = [t \in Txs |-> Old] /\ start = [t \in Txs |-> 0]
  /\ commit = [t \in Txs |-> 0]
  /\ li = [i \in Items |-> IF i = Old THEN 1 ELSE 0]
  /\ rec = [n \in Recs |-> IF n = 1 THEN "disk" ELSE "open"]
  /\ got = [n \in Recs |-> 0] /\ hdr = [n \in Recs |-> 1]
  /\ lock = 0 /\ cb = "idle" /\ syncLsn = 1 /\ tailLsn = 1
  /\ mt = [m \in Movers |-> None]

Ail == {i \in Items : li[i] # 0}
IsMin(l, v) == \/ v = 0 /\ \A i \in Items : l[i] = 0
               \/ \E i \in Items : v = l[i] /\ l[i] # 0 /\ \A j \in Items : l[j] # 0 => v <= l[j]

----------------------------------------------------------------------------
(* Transactions and records *)

Busy(i) == \E t \in Txs \ called : start[t] # 0 /\ it[t] = i

\* xfs_trans_commit writes the item: it is locked, so nobody else is logging it
Begin(t, i) ==
  /\ start[t] = 0 /\ rec[filling] = "open"
  /\ \A u \in Txs : start[u] # 0 /\ it[u] = i => commit[u] # 0
  /\ start' = [start EXCEPT ![t] = filling]
  /\ it' = [it EXCEPT ![t] = i]
  /\ commit' = [commit EXCEPT ![t] = IF MaySpan THEN 0 ELSE filling]
  /\ UNCHANGED <<filling, called, inPlace, li, recv, cb, syncLsn, tailLsn, mt>>

\* the commit record, into the record that is current by now
CommitRecord(t) ==
  /\ start[t] # 0 /\ commit[t] = 0 /\ rec[filling] = "open"
  /\ commit' = [commit EXCEPT ![t] = filling]
  /\ UNCHANGED <<filling, it, start, called, inPlace, li, recv, cb, syncLsn, tailLsn, mt>>

\* xlog_state_switch_iclogs: the record is closed, the next one begun if an iclog
\* is free
Switch ==
  /\ rec[filling] = "open" /\ filling + 1 \in Recs
  /\ filling - syncLsn < Bufs
  /\ \E t \in Txs : filling \in {start[t], commit[t]}
  /\ rec' = [rec EXCEPT ![filling] = "closed"]
  /\ filling' = filling + 1
  /\ UNCHANGED <<txv, called, inPlace, li, got, hdr, lock, cb, syncLsn, tailLsn, mt>>

\* xlog_state_release_iclog holds l_icloglock while xlog_assign_tail_lsn reads
\* the AIL's first lsn under xa_lock,
ReadAil(n) ==
  /\ rec[n] = "closed" /\ lock = 0
  /\ lock' = n
  /\ \E v \in {li[i] : i \in Items} \cup {0} :
       IsMin(li, v) /\ got' = [got EXCEPT ![n] = v]
  /\ rec' = [rec EXCEPT ![n] = "read"]
  /\ UNCHANGED <<filling, txv, called, inPlace, li, hdr, cb, syncLsn, tailLsn, mt>>

MutAssignTailLsn(n) ==
  /\ rec[n] = "read"
  /\ tailLsn' = syncLsn
  /\ rec' = [rec EXCEPT ![n] = "assigned"]
  /\ UNCHANGED <<filling, txv, called, inPlace, li, got, hdr, lock, cb, syncLsn, mt>>

\* sets l_tail_lsn under l_grant_lock,
AssignTailLsn(n) ==
  /\ rec[n] = "read"
  /\ tailLsn' = IF got[n] # 0 THEN got[n] ELSE syncLsn
  /\ rec' = [rec EXCEPT ![n] = "assigned"]
  /\ UNCHANGED <<filling, txv, called, inPlace, li, got, hdr, lock, cb, syncLsn, mt>>

\* and then copies l_tail_lsn into the record.
Stamp(n) ==
  /\ rec[n] = "assigned"
  /\ hdr' = [hdr EXCEPT ![n] = tailLsn]
  /\ rec' = [rec EXCEPT ![n] = "syncing"]
  /\ lock' = 0
  /\ UNCHANGED <<filling, txv, called, inPlace, li, got, cb, syncLsn, tailLsn, mt>>

Written(n) ==
  /\ rec[n] = "syncing"
  /\ rec' = [rec EXCEPT ![n] = "disk"]
  /\ UNCHANGED <<filling, txv, called, inPlace, li, got, hdr, lock, cb, syncLsn, tailLsn, mt>>

----------------------------------------------------------------------------
(* Callbacks and flushes *)

MutCbStart ==
  /\ cb = "idle" /\ lock = 0 /\ mt[CB] = None
  /\ syncLsn + 1 \in Recs /\ rec[syncLsn + 1] \in {"syncing", "disk"}
  /\ \A t \in Txs : commit[t] \in 1 .. syncLsn => t \in called
  /\ cb' = "callback"
  /\ UNCHANGED <<filling, txv, called, inPlace, li, recv, syncLsn, tailLsn, mt>>

\* xlog_state_do_callback: under l_icloglock the next record in order becomes
\* CALLBACK, once those of the one before have all run ...
CbStart ==
  /\ cb = "idle" /\ lock = 0 /\ mt[CB] = None
  /\ syncLsn + 1 \in Recs /\ rec[syncLsn + 1] = "disk"
  /\ \A t \in Txs : commit[t] \in 1 .. syncLsn => t \in called
  /\ cb' = "callback"
  /\ UNCHANGED <<filling, txv, called, inPlace, li, recv, syncLsn, tailLsn, mt>>

\* ... and l_last_sync_lsn follows under l_grant_lock.
CbLastSync ==
  /\ cb = "callback"
  /\ syncLsn' = syncLsn + 1
  /\ cb' = "idle"
  /\ UNCHANGED <<filling, txv, called, inPlace, li, recv, tailLsn, mt>>

\* A callback puts its item into the AIL at the transaction's first lsn, or moves
\* it up there (xfs_trans_ail_update).  xfs_log_move_tail is called, later, if the
\* AIL was empty or the item was its first.
Called(t) ==
  LET i == it[t]
      moved == start[t] > li[i]
  IN
  /\ cb = "idle" /\ mt[CB] = None
  /\ commit[t] = syncLsn /\ start[t] # 0 /\ t \notin called
  /\ called' = called \cup {t}
  /\ li' = IF moved THEN [li EXCEPT ![i] = start[t]] ELSE li
  /\ IF moved /\ (Ail = {} \/ (li[i] # 0 /\ IsMin(li, li[i])))
       THEN \E v \in {li'[j] : j \in Items} :
              v # 0 /\ IsMin(li', v) /\ mt' = [mt EXCEPT ![CB] = v]
       ELSE UNCHANGED mt
  /\ UNCHANGED <<filling, txv, inPlace, recv, cb, syncLsn, tailLsn>>

\* The item, unpinned, has been flushed: it leaves the AIL (xfs_trans_ail_delete),
\* and if it was the first xfs_log_move_tail is called, later.
Flushed(i) ==
  /\ li[i] # 0 /\ ~Busy(i) /\ mt[i] = None
  /\ MayDrain \/ Ail # {i}
  /\ li' = [li EXCEPT ![i] = 0]
  /\ inPlace' = inPlace \cup {t \in called : it[t] = i}
  /\ IF IsMin(li, li[i])
       THEN \E v \in {li'[j] : j \in Items} \cup {0} :
              IsMin(li', v) /\ mt' = [mt EXCEPT ![i] = v]
       ELSE UNCHANGED mt
  /\ UNCHANGED <<filling, txv, called, recv, cb, syncLsn, tailLsn>>

MutMoveTailEmpty(m) ==
  /\ mt[m] = 0 /\ lock = 0
  /\ mt' = [mt EXCEPT ![m] = filling]
  /\ UNCHANGED <<filling, txv, called, inPlace, li, recv, cb, syncLsn, tailLsn>>

\* xfs_log_move_tail(0) reads l_last_sync_lsn under l_icloglock,
MoveTailEmpty(m) ==
  /\ mt[m] = 0 /\ lock = 0
  /\ mt' = [mt EXCEPT ![m] = syncLsn]
  /\ UNCHANGED <<filling, txv, called, inPlace, li, recv, cb, syncLsn, tailLsn>>

\* and sets l_tail_lsn under l_grant_lock.
MoveTailLsn(m) ==
  /\ mt[m] > 0
  /\ tailLsn' = mt[m]
  /\ mt' = [mt EXCEPT ![m] = None]
  /\ UNCHANGED <<filling, txv, called, inPlace, li, recv, cb, syncLsn>>

TailNext ==
  \/ \E t \in Txs : CommitRecord(t) \/ Called(t) \/ \E i \in Items : Begin(t, i)
  \/ Switch \/ CbStart \/ CbLastSync
  \/ \E n \in Recs : ReadAil(n) \/ AssignTailLsn(n) \/ Stamp(n) \/ Written(n)
  \/ \E i \in Items : Flushed(i)
  \/ \E m \in Movers : MoveTailEmpty(m) \/ MoveTailLsn(m)

TailSpec == TailInit /\ [][TailNext]_tailVars

----------------------------------------------------------------------------
(* Properties *)

\* Every variable has the shape its C declaration gives it.
TailTypeOK ==
  /\ filling \in Recs /\ syncLsn \in Recs /\ tailLsn \in Nat
  /\ it \in [Txs -> Items] /\ start \in [Txs -> Nat] /\ commit \in [Txs -> Nat]
  /\ called \subseteq Txs /\ inPlace \subseteq Txs
  /\ li \in [Items -> Nat]
  /\ rec \in [Recs -> {"open", "closed", "read", "assigned", "syncing", "disk"}]
  /\ got \in [Recs -> Nat] /\ hdr \in [Recs -> Nat] /\ lock \in Nat
  /\ cb \in {"idle", "callback"} /\ mt \in [Movers -> Nat \cup {None}]

Durable(n) == \A k \in Recs : k <= n => rec[k] = "disk"

\* The tail, in memory and in every record, is a record that is on disk with all
\* those before it: recovery finds what it is sent to look for.
TailIsOnDisk ==
  /\ Durable(tailLsn)
  /\ \A n \in Recs : Durable(hdr[n])

\* h_tail_lsn is the "lsn of 1st LR w/ buffers not committed" (xfs_log_priv.h):
\* if the system crashes now, with record n the last one recovery can reach, then
\* every transaction that has committed by n and is not in its place on disk is
\* replayed: it, or a later one on the same item, lies wholly between the tail
\* stamped into n and n.
RecoveryFindsAll ==
  \A n \in Recs : Durable(n) /\ (n + 1 \in Recs => rec[n + 1] # "disk") =>
    \A t \in Txs \ inPlace : commit[t] \in 1 .. n =>
      \E u \in Txs : /\ it[u] = it[t]
                     /\ commit[t] <= commit[u] /\ commit[u] <= n
                     /\ hdr[n] <= start[u]

\* l_tail_lsn is the "lsn of 1st LR with unflushed buffers" (xfs_log_priv.h): the
\* space behind it is given to new transactions, so it may be old but never lies
\* beyond an item that has still to be flushed.
TailNotPastTheAil == \A i \in Ail : tailLsn <= li[i]
=============================================================================
