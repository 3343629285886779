------------------------------- MODULE XfsAil -------------------------------
(***************************************************************************)
(* The active item list (fs/xfs/xfs_trans_ail.c), the life of the inode    *)
(* log items on it (xfs_inode_item.c, xfs_iflush in xfs_inode.c,           *)
(* xfs_trans_chunk_committed in xfs_trans.c) and the thread that pushes it *)
(* (xfsaild in linux-2.6/xfs_super.c).                                     *)
(*                                                                         *)
(* An item is changed under its lock, logged and pinned, inserted into the *)
(* AIL when its log record is on disk, unpinned, flushed, and taken off    *)
(* the AIL when the flush is done unless it has been logged again.  The    *)
(* contents of an item are the numbers of times its fields were changed.   *)
(* One step is one critical section under xa_lock or one item operation    *)
(* outside it.  LSNs are log record numbers.  The xfs_log_move_tail call   *)
(* that follows an update or a delete is modelled in XfsLogTail.           *)
(***************************************************************************)
EXTENDS Integers, Sequences, FiniteSets, SequencesExt

CONSTANTS
  Items,      \* inode log items
  Fields,     \* parts of an inode that are logged separately (ilf_fields bits)
  Txs,        \* transactions; each changes one item and commits once
  Travs,      \* threads that walk the AIL with a cursor of their own
  Push,       \* xfsaild, and its cursor embedded in struct xfs_ail
  MayShutdown,\* whether the filesystem may be shut down
  MaxRec,     \* bound: the records closed other than by the pusher's force
  MaxTarget,  \* bound: the highest push target asked for
  StuckMax,   \* how many items the pusher skips before it backs off (100)
  NULL, Invalid

Cursors == Travs \cup {Push}

ASSUME AilAssumption ==
  /\ NULL \notin Items \cup Txs \cup {Push}
  /\ Invalid \notin Items \cup {NULL}
  /\ Push \notin Txs \cup Travs
  /\ MaxRec \in Nat /\ MaxTarget \in Nat /\ StuckMax \in Nat
  /\ MayShutdown \in BOOLEAN

VARIABLES
  \* the log and the AIL
  curr,      \* the record the log is filling
  ail,       \* xa_ail
  li,        \* li_lsn of each item, 0 when it is not in the AIL
  cursor,    \* xa_cursors: the item each linked cursor will return next
  target,    \* xa_target
  shut,      \* XFS_FORCED_SHUTDOWN
  \* inode items
  lock,      \* who holds the inode lock
  pin,       \* i_pincount
  flushing,  \* i_flush is taken
  flushLsn,  \* ili_flush_lsn
  fields,    \* ilf_fields
  last,      \* ili_last_fields
  val,       \* the in-core inode
  sent,      \* the inode as written to its buffer by the flush under way
  disk,      \* the inode on disk
  \* transactions
  tx,        \* what a transaction has logged, and how far it is
  \* xfsaild and the other walkers
  last_lsn,  \* *last_lsn, kept between pushes
  aild,      \* the locals of xfsaild_push
  walk       \* what a walker has seen and what it has to see

logv == <<curr, target, shut>>
list == <<ail, li>>
item == <<lock, pin, flushing, flushLsn, fields, last, val, sent, disk>>
vars == <<logv, list, cursor, item, tx, last_lsn, aild, walk>>

Values == [Fields -> Nat]
NoTx == [pc |-> "idle", item |-> NULL, mod |-> {}, lsn |-> 0, clsn |-> 0, set |-> {},
         val |-> [f \in Fields |-> 0]]
NoPush == [pc |-> "idle", lip |-> NULL, lsn |-> 0, target |-> 0, pushed |-> 0,
           result |-> NULL, stuck |-> 0, count |-> 0, flush_log |-> FALSE]
NoWalk == [pc |-> "idle", seen |-> {}, must |-> {}]

Init ==
  /\ curr = 1 /\ ail = <<>> /\ li = [i \in Items |-> 0] /\ target = 0 /\ shut = FALSE
  /\ cursor = [c \in Cursors |-> NULL]
  /\ lock = [i \in Items |-> NULL] /\ pin = [i \in Items |-> 0]
  /\ flushing = [i \in Items |-> FALSE] /\ flushLsn = [i \in Items |-> 0]
  /\ fields = [i \in Items |-> {}] /\ last = [i \in Items |-> {}]
  /\ val = [i \in Items |-> [f \in Fields |-> 0]]
  /\ sent = val /\ disk = val
  /\ tx = [t \in Txs |-> NoTx]
  /\ last_lsn = 0 /\ aild = NoPush
  /\ walk = [w \in Travs |-> NoWalk]

----------------------------------------------------------------------------
(* The list *)

AilMin(s) == IF s = <<>> THEN NULL ELSE Head(s)

\* where an item of the list is (its li_ail links)
Place(s, i) == CHOOSE k \in DOMAIN s : s[k] = i

\* xfs_ail_next
AilNext(s, i) == IF Place(s, i) = Len(s) THEN NULL ELSE s[Place(s, i) + 1]

\* xfs_ail_delete
Unlink(s, i) == RemoveAt(s, Place(s, i))

\* xfs_ail_insert: behind the last item whose lsn is not larger
AilInsert(s, l, i, n) ==
  LET below == {j \in DOMAIN s : l[s[j]] <= n}
  IN InsertAt(s, Max(below \cup {0}) + 1, i)

\* xfs_trans_ail_cursor_clear
CursorClear(i) ==
  cursor' = [c \in Cursors |-> IF cursor[c] = i THEN Invalid ELSE cursor[c]]

\* xfs_trans_ail_update
AilUpdate(i, n) ==
  /\ IF li[i] # 0 THEN CursorClear(i) ELSE UNCHANGED cursor
  /\ li' = [li EXCEPT ![i] = n]
  /\ ail' = AilInsert(IF li[i] # 0 THEN Unlink(ail, i) ELSE ail, li, i, n)
  /\ UNCHANGED walk

\* xfs_trans_ail_delete of an item that is in the AIL
AilDelete(i) ==
  /\ CursorClear(i)
  /\ li' = [li EXCEPT ![i] = 0]
  /\ ail' = Unlink(ail, i)
  /\ walk' = [w \in Travs |-> [walk[w] EXCEPT !.must = @ \ {i}]]

\* xfs_trans_ail_cursor_first: the first item from lsn n on
AilFirst(n) ==
  LET from == {k \in DOMAIN ail : li[ail[k]] >= n}
  IN IF from = {} THEN NULL ELSE ail[Min(from)]

\* xfs_trans_ail_cursor_set
CursorSet(c, i) ==
  cursor' = [cursor EXCEPT ![c] = IF i = NULL THEN @ ELSE AilNext(ail, i)]

MutCursorItem(c) == IF cursor[c] = Invalid THEN NULL ELSE cursor[c]

\* the item xfs_trans_ail_cursor_next returns: an invalid cursor starts over
CursorItem(c) == IF cursor[c] = Invalid THEN AilMin(ail) ELSE cursor[c]

----------------------------------------------------------------------------
(* Transactions *)

MutRelogged(i, F) == fields[i] \cup F

\* what is to be logged: the fields changed, and those being flushed once more
Relogged(i, F) == fields[i] \cup F \cup last[i]

\* xfs_trans_ijoin and xfs_trans_log_inode: with the inode locked, change the
\* fields F and mark them for logging
LogInode(t, i, F) ==
  /\ tx[t].pc = "idle" /\ lock[i] = NULL
  /\ lock' = [lock EXCEPT ![i] = t]
  /\ val' = [val EXCEPT ![i] = [f \in Fields |-> @[f] + IF f \in F THEN 1 ELSE 0]]
  /\ fields' = [fields EXCEPT ![i] = Relogged(i, F)]
  /\ tx' = [tx EXCEPT ![t] = [NoTx EXCEPT !.pc = "held", !.item = i, !.mod = F]]
  /\ UNCHANGED <<logv, list, cursor, pin, flushing, flushLsn, last, sent, disk,
                 last_lsn, aild, walk>>

\* xfs_trans_commit: format and pin the item and write it to the log ...
Commit(t) ==
  LET i == tx[t].item IN
  /\ tx[t].pc = "held"
  /\ tx' = [tx EXCEPT ![t].pc = "writing", ![t].lsn = curr, ![t].set = fields[i],
                      ![t].val = val[i]]
  /\ pin' = [pin EXCEPT ![i] = @ + 1]
  /\ UNCHANGED <<logv, list, cursor, lock, flushing, flushLsn, fields, last, val, sent,
                 disk, last_lsn, aild, walk>>

\* ... then the commit record, perhaps records later, and unlock the item
CommitRecord(t) ==
  /\ tx[t].pc = "writing"
  /\ tx' = [tx EXCEPT ![t].pc = "logged", ![t].clsn = curr]
  /\ lock' = [lock EXCEPT ![tx[t].item] = NULL]
  /\ UNCHANGED <<logv, list, cursor, pin, flushing, flushLsn, fields, last, val, sent,
                 disk, last_lsn, aild, walk>>

\* xfs_force_shutdown
Shutdown ==
  /\ MayShutdown /\ ~shut
  /\ shut' = TRUE
  /\ UNCHANGED <<curr, target, list, cursor, item, tx, last_lsn, aild, walk>>

\* The current record, if anything is in it, is closed and written.
Logging == \E t \in Txs : curr \in {tx[t].lsn, tx[t].clsn}

CloseRecord ==
  /\ Logging /\ curr <= MaxRec
  /\ curr' = curr + 1
  /\ UNCHANGED <<target, shut, list, cursor, item, tx, last_lsn, aild, walk>>

MutMovesUp(t) == tx[t].lsn # li[tx[t].item]

\* XFS_LSN_CMP(item_lsn, lip->li_lsn) > 0
MovesUp(t) == tx[t].lsn > li[tx[t].item]

\* xfs_trans_chunk_committed, called in the order of the commit records when they
\* are on disk (XfsLogOrder), but in any order and by several threads once the log
\* is dead: move the item up in the AIL, never back ...
Committed(t) ==
  /\ tx[t].pc = "logged"
  /\ \/ shut
     \/ /\ tx[t].clsn < curr
        /\ \A u \in Txs : /\ tx[u].pc # "committed"
                          /\ tx[u].pc = "logged" => tx[u].clsn >= tx[t].clsn
  /\ IF MovesUp(t) THEN AilUpdate(tx[t].item, tx[t].lsn)
                   ELSE UNCHANGED <<list, cursor, walk>>
  /\ tx' = [tx EXCEPT ![t].pc = "committed"]
  /\ UNCHANGED <<logv, item, last_lsn, aild>>

\* ... and only then unpin it.
Unpin(t) ==
  /\ tx[t].pc = "committed"
  /\ pin' = [pin EXCEPT ![tx[t].item] = @ - 1]
  /\ tx' = [tx EXCEPT ![t].pc = "done"]
  /\ UNCHANGED <<logv, list, cursor, lock, flushing, flushLsn, fields, last, val,
                 sent, disk, last_lsn, aild, walk>>

----------------------------------------------------------------------------
(* Flushing *)

\* xfs_iflush, xfs_iflush_int: with the inode locked, its flush lock taken and
\* nobody pinning it, hand it to its buffer
Iflush(i) ==
  /\ flushing' = [flushing EXCEPT ![i] = TRUE]
  /\ flushLsn' = [flushLsn EXCEPT ![i] = li[i]]
  /\ last' = [last EXCEPT ![i] = fields[i]]
  /\ fields' = [fields EXCEPT ![i] = {}]
  /\ sent' = [sent EXCEPT ![i] = val[i]]

MutSyncInode(i) ==
  /\ lock[i] = NULL /\ ~flushing[i] /\ fields[i] # {} /\ ~shut
  /\ Iflush(i)
  /\ UNCHANGED <<logv, list, cursor, lock, pin, val, disk, tx, last_lsn, aild, walk>>

\* somebody else flushes a dirty inode (sync, reclaim, a flush of its cluster)
SyncInode(i) ==
  /\ lock[i] = NULL /\ ~flushing[i] /\ pin[i] = 0 /\ fields[i] # {} /\ ~shut
  /\ Iflush(i)
  /\ UNCHANGED <<logv, list, cursor, lock, pin, val, disk, tx, last_lsn, aild, walk>>

\* iip->ili_item.li_lsn == iip->ili_flush_lsn, for an item in the AIL
FlushedAsIs(i) == li[i] # 0 /\ li[i] = flushLsn[i]

\* xfs_iflush_done: off the AIL, unless it was logged again in the meantime
IflushDone(i) ==
  /\ flushing[i] /\ ~(aild.pc = "push" /\ aild.lip = i /\ aild.result = "SUCCESS")
  /\ \/ disk' = [disk EXCEPT ![i] = sent[i]]
     \/ shut /\ UNCHANGED disk        \* the write was not issued or failed
  /\ IF FlushedAsIs(i)
       THEN AilDelete(i) ELSE UNCHANGED <<list, cursor, walk>>
  /\ last' = [last EXCEPT ![i] = {}]
  /\ flushing' = [flushing EXCEPT ![i] = FALSE]
  /\ flushLsn' = [flushLsn EXCEPT ![i] = 0]
  /\ UNCHANGED <<logv, lock, pin, fields, val, sent, tx, last_lsn, aild>>

----------------------------------------------------------------------------
(* xfs_trans_ail_push, xfsaild_push *)

\* a reservation that does not fit asks for the tail to be moved to lsn n
AilPush(n) ==
  /\ ail # <<>> /\ ~shut /\ n > target /\ n < curr /\ n <= MaxTarget
  /\ target' = n
  /\ UNCHANGED <<curr, shut, list, cursor, item, tx, last_lsn, aild, walk>>

\* go on where the last push ended, or return at once: what the early return
\* assigns is its copy, not *last_lsn
PushFirst ==
  LET i == AilFirst(last_lsn) IN
  /\ aild.pc = "idle"
  /\ IF i = NULL \/ shut
       THEN UNCHANGED <<cursor, aild>>
       ELSE /\ cursor' = [cursor EXCEPT ![Push] = AilNext(ail, i)]
            /\ aild' = [NoPush EXCEPT
                          !.pc = IF li[i] < target THEN "try" ELSE "end",
                          !.lip = i, !.lsn = li[i], !.target = target,
                          !.pushed = last_lsn]
  /\ UNCHANGED <<logv, list, item, tx, last_lsn, walk>>

\* xfs_inode_item_trylock
Trylock(i) ==
  CASE pin[i] > 0 -> "PINNED"
    [] pin[i] = 0 /\ lock[i] # NULL -> "LOCKED"
    [] pin[i] = 0 /\ lock[i] = NULL /\ flushing[i] -> "PUSHBUF"
    [] OTHER -> "SUCCESS"

\* try to lock the item at hand, under xa_lock, and let xa_lock go
PushTry ==
  LET i == aild.lip
      r == Trylock(i)
  IN
  /\ aild.pc = "try"
  /\ lock' = [lock EXCEPT ![i] = IF r \in {"SUCCESS", "PUSHBUF"} THEN Push ELSE @]
  /\ flushing' = [flushing EXCEPT ![i] = @ \/ r = "SUCCESS"]
  /\ aild' = [aild EXCEPT !.pc = IF r \in {"SUCCESS", "PUSHBUF"} THEN "push" ELSE "next",
                          !.result = r]
  /\ UNCHANGED <<logv, list, cursor, pin, flushLsn, fields, last, val, sent, disk,
                 tx, last_lsn, walk>>

\* xfs_inode_item_push; xfs_inode_item_pushbuf only hurries on a flush that is
\* under way.  xfs_iflush gives a clean inode up, and on shutdown any inode.
PushItem ==
  LET i == aild.lip
      mine == aild.result = "SUCCESS"
      go == mine /\ fields[i] # {} /\ ~shut
  IN
  /\ aild.pc = "push"
  /\ \/ go /\ Iflush(i)
     \/ /\ ~go
        /\ flushing' = [flushing EXCEPT ![i] = @ /\ ~mine]
        /\ fields' = [fields EXCEPT ![i] = IF mine THEN {} ELSE @]
        /\ UNCHANGED <<flushLsn, last, sent>>
  /\ lock' = [lock EXCEPT ![i] = NULL]
  /\ aild' = [aild EXCEPT !.pc = "next"]
  /\ UNCHANGED <<logv, list, cursor, pin, val, disk, tx, last_lsn, walk>>

\* xa_lock again: account for the item, and on to the next one
PushNext ==
  LET r == aild.result
      stuck == aild.stuck + IF r \in {"PINNED", "LOCKED"} THEN 1 ELSE 0
      i == CursorItem(Push)
      a == [aild EXCEPT !.count = IF shut THEN @ ELSE @ + 1, !.stuck = stuck, !.result = NULL,
                        !.flush_log = @ \/ r = "PINNED",
                        !.pushed = IF r = "PINNED" THEN @ ELSE aild.lsn]
  IN
  /\ aild.pc = "next"
  /\ IF shut \/ stuck > StuckMax \/ i = NULL
       THEN aild' = [a EXCEPT !.pc = "end"] /\ UNCHANGED cursor
       ELSE /\ CursorSet(Push, i)
            /\ aild' = [a EXCEPT !.lip = i, !.lsn = li[i],
                                 !.pc = IF li[i] < aild.target THEN "try" ELSE "end"]
  /\ UNCHANGED <<logv, list, item, tx, last_lsn, walk>>

\* the end of a push: force the log if something was pinned, remember the place
PushEnd ==
  /\ aild.pc = "end"
  /\ cursor' = [cursor EXCEPT ![Push] = NULL]
  /\ curr' = IF aild.flush_log /\ Logging THEN curr + 1 ELSE curr
  /\ last_lsn' = IF aild.count > 0 /\ aild.lsn >= aild.target THEN 0 ELSE aild.pushed
  /\ aild' = NoPush
  /\ UNCHANGED <<target, shut, list, item, tx, walk>>

----------------------------------------------------------------------------
(* A walk over the AIL with a cursor of its own, as in log recovery. *)

WalkReturns(w, i) ==
  walk' = [walk EXCEPT ![w].seen = IF i = NULL THEN @ ELSE @ \cup {i},
                       ![w].pc = IF i = NULL THEN "end" ELSE "walking"]

WalkFirst(w) ==
  /\ walk[w].pc = "idle"
  /\ cursor' = [cursor EXCEPT ![w] = IF ail = <<>> THEN NULL
                                     ELSE AilNext(ail, Head(ail))]
  /\ walk' = [walk EXCEPT ![w] = [pc |-> IF ail = <<>> THEN "end" ELSE "walking",
                                  seen |-> ToSet(ail) \cap {AilMin(ail)},
                                  must |-> ToSet(ail)]]
  /\ UNCHANGED <<logv, list, item, tx, last_lsn, aild>>

WalkNext(w) ==
  /\ walk[w].pc = "walking"
  /\ CursorSet(w, CursorItem(w))
  /\ WalkReturns(w, CursorItem(w))
  /\ UNCHANGED <<logv, list, item, tx, last_lsn, aild>>

\* xfs_trans_ail_cursor_done
WalkDone(w) ==
  /\ walk[w].pc = "end"
  /\ cursor' = [cursor EXCEPT ![w] = NULL]
  /\ walk' = [walk EXCEPT ![w] = [NoWalk EXCEPT !.pc = "done"]]
  /\ UNCHANGED <<logv, list, item, tx, last_lsn, aild>>

----------------------------------------------------------------------------
Aild == PushFirst \/ PushTry \/ PushItem \/ PushNext \/ PushEnd

Next ==
  \/ \E t \in Txs, i \in Items : \E F \in SUBSET Fields \ {{}} : LogInode(t, i, F)
  \/ \E t \in Txs : Commit(t) \/ CommitRecord(t) \/ Committed(t) \/ Unpin(t)
  \/ CloseRecord \/ Shutdown
  \/ \E i \in Items : SyncInode(i) \/ IflushDone(i)
  \/ \E n \in 1 .. curr : AilPush(n)
  \/ Aild
  \/ \E w \in Travs : WalkFirst(w) \/ WalkNext(w) \/ WalkDone(w)

Spec == Init /\ [][Next]_vars

----------------------------------------------------------------------------
(* Properties *)

InAil == ToSet(ail)

\* Every variable has the shape its C declaration gives it, the AIL holds each
\* item once, and an item has an lsn exactly when it is on the AIL.
TypeOK ==
  /\ curr \in Nat /\ target \in Nat /\ last_lsn \in Nat /\ shut \in BOOLEAN
  /\ ail \in Seq(Items) /\ IsInjective(ail)
  /\ li \in [Items -> Nat] /\ InAil = {i \in Items : li[i] # 0}
  /\ cursor \in [Cursors -> Items \cup {NULL, Invalid}]
  /\ lock \in [Items -> Txs \cup {Push, NULL}] /\ pin \in [Items -> Nat]
  /\ flushing \in [Items -> BOOLEAN] /\ flushLsn \in [Items -> Nat]
  /\ fields \in [Items -> SUBSET Fields] /\ last \in [Items -> SUBSET Fields]

\* xfs_ail_check: the AIL is sorted by lsn, so that its first item is its oldest
\* and names the tail of the log.
AilSorted == \A j, k \in DOMAIN ail : j < k => li[ail[j]] <= li[ail[k]]

\* No cursor, of the pusher or of a walker, is left pointing to an item that has
\* been taken off the AIL and may have been freed (xfs_trans_ail_cursor_clear).
CursorsAreLive == \A c \in DOMAIN cursor : cursor[c] \in InAil \cup {NULL, Invalid}

\* A walk that comes to its end has returned every item that was on the AIL from
\* its beginning on, wherever updates have moved it and whatever was deleted.
WalkMissesNothing ==
  \A w \in DOMAIN walk : walk[w].pc = "end" => walk[w].must \subseteq walk[w].seen

\* A walk returns every item that stayed on the AIL, and its cursor never points to an
\* item that has left (xfs_trans_ail_cursor_next, xfs_trans_ail_cursor_clear).
WalkIsComplete == CursorsAreLive /\ WalkMissesNothing

\* "Items can never move backwards in the AIL", and the list stays sorted
\* (xfs_trans_chunk_committed, xfs_ail_check).
OldestIsFirst == [][AilSorted' /\ \A i \in DOMAIN li : li[i] # 0 /\ li'[i] # 0 => li'[i] >= li[i]]_vars

\* The log can always repair the inode: a change whose record is on disk and
\* whose callback has run is in the inode on disk, or its item is on the AIL and
\* a committed record from the item's lsn on carries a value at least as new.
\* This is why xfs_trans_log_inode logs the fields being flushed again.
AilCoversLog ==
  ~shut =>
  \A t \in Txs : tx[t].pc \in {"committed", "done"} =>
    \A f \in tx[t].set :
      LET i == tx[t].item
          Covers(u) == /\ tx[u].item = i /\ f \in tx[u].set /\ tx[u].val[f] >= tx[t].val[f]
                       /\ tx[u].pc \in {"committed", "done"} /\ tx[u].lsn >= li[i]
      IN disk[i][f] >= tx[t].val[f] \/ (i \in InAil /\ \E u \in Txs : Covers(u))

\* Write-ahead: a change reaches the inode's buffer, and so the disk, only after
\* its log record is on disk (the pin count).
WriteAhead ==
  ~shut =>
  \A t \in Txs : tx[t].pc \in {"held", "writing", "logged"} =>
    \A f \in tx[t].mod :
      LET i == tx[t].item
          v == IF tx[t].pc = "held" THEN val[i][f] ELSE tx[t].val[f]
      IN disk[i][f] < v /\ (flushing[i] => sent[i][f] < v)

----------------------------------------------------------------------------
\* The pusher runs (its sleeps are bounded), I/O completes, a transaction that has
\* locked an inode commits, callbacks run.  Nothing makes a new transaction start,
\* closes a record or flushes an inode on its own.
Fairness ==
  /\ WF_vars(Aild)
  /\ \A i \in Items : WF_vars(IflushDone(i))
  /\ \A t \in Txs : WF_vars(Commit(t) \/ CommitRecord(t) \/ Committed(t) \/ Unpin(t))
FairSpec == Spec /\ Fairness

\* "We'd like not to stop until we've at least tried to push on everything in the
\* AIL with an LSN less than the given threshold" (xfsaild_push): an item below
\* the target does not stay where it is for ever.
PushReachesTarget ==
  \A i \in Items : []<>(shut \/ li[i] = 0 \/ li[i] >= target)
=============================================================================
