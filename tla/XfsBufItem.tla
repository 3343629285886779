----------------------------- MODULE XfsBufItem -----------------------------
(***************************************************************************)
(* A metadata buffer and its log item (fs/xfs/xfs_buf_item.c,              *)
(* xfs_trans_buf.c, the commit, abort and callback paths of xfs_trans.c    *)
(* and xfs_trans_item.c, the hold count, lock, pin count and delayed write *)
(* queue of linux-2.6/xfs_buf.c): transactions get, log, hold, invalidate  *)
(* and release one buffer while xfsaild and xfsbufd write it, inodes are   *)
(* flushed into it and the log reaches the disk behind them.               *)
(*                                                                         *)
(* The buffer has two parts. In a buffer of inodes they are the images of  *)
(* new inodes and the di_next_unlinked fields, which is all that recovery  *)
(* takes from a record with XFS_BLI_INODE_BUF. A transaction is one record *)
(* of the log, its lsn the place in the log. Busy extents are respected: a *)
(* freed block is used again only when its transaction is on disk.         *)
(***************************************************************************)
EXTENDS Integers, Sequences, FiniteSets

CONSTANTS
  Txs,          \* 1 .. n, begun in this order
  Kinds,        \* the uses of the block: "inode" (a cluster of inodes), "other"
  Starts,       \* what has happened before: "unlogged", "logged"
  MaxErrors,    \* bound: failed writes
  Shutdowns     \* when the filesystem may be shut down: "early", "late" (a write waits for the log)

VARIABLES
  kind,
  buf,          \* the xfs_buf; hold 0 when there is none
  bli,          \* its xfs_buf_log_item, if there
  tx,           \* transactions and their item descriptors
  core, disk,   \* who wrote each part last: in the buffer, in place
  log, synced,  \* records, and how many are on disk
  use,          \* what the block is used for, and the lsn that freed it
  io,           \* a write: "none", "strategy", "unpin" (waiting), "flight"
  push, bufd,   \* xfsaild and xfsbufd between the pin count and the lock
  shut,         \* 0, or the tail recovery starts from once the filesystem is shut down
  errors,
  oops          \* an item was used after it had been freed

bufVars == <<kind, buf, bli, tx, core, disk, log, synced, use, io, push, bufd, shut, errors, oops>>

Down == shut # 0
Parts == {"image", "next"}
User == -1
NoBuf == [hold |-> 0, lock |-> "free", pin |-> 0, delwri |-> FALSE, queued |-> FALSE, stale |-> FALSE, done |-> FALSE,
          iodone |-> FALSE, ino |-> FALSE]
NoItem == [there |-> FALSE, ref |-> 0, flags |-> {}, fmt |-> {}, map |-> {}, lsn |-> 0, recur |-> 0]
NoTx == [pc |-> "idle", alloc |-> FALSE, dirty |-> FALSE, stale |-> FALSE, held |-> FALSE, lsn |-> 0, freed |-> FALSE]

----------------------------------------------------------------------------
(* linux-2.6/xfs_buf.c, on s = [buf, bli] *)

S == [buf |-> buf, bli |-> bli]
Install(s) == buf' = s.buf /\ bli' = s.bli

BufRele(s) == IF s.buf.hold = 1 THEN [s EXCEPT !.buf = NoBuf] ELSE [s EXCEPT !.buf.hold = @ - 1]

\* a buffer that is to be written later is queued when it is unlocked
BufUnlock(s) ==
  IF s.buf.delwri /\ ~s.buf.queued
  THEN [s EXCEPT !.buf.lock = "free", !.buf.queued = TRUE, !.buf.hold = @ + 1]
  ELSE [s EXCEPT !.buf.lock = "free"]
BufRelse(s) == BufRele(BufUnlock(s))

DelwriDequeue(s) ==
  LET d == [s EXCEPT !.buf.delwri = FALSE, !.buf.queued = FALSE]
  IN IF s.buf.delwri /\ s.buf.queued THEN BufRele(d) ELSE d

\* with the lock: a stale buffer has no contents, and is read again if they are wanted
BufFound(s) == IF s.buf.stale THEN [s EXCEPT !.buf.stale = FALSE, !.buf.done = FALSE, !.buf.delwri = FALSE] ELSE s
BufRead(s) == [s EXCEPT !.buf.done = TRUE]
CoreRead(s) == IF s.buf.done THEN core ELSE disk

----------------------------------------------------------------------------
(* xfs_buf_item.c *)

ItemRelse(s) == BufRele([s EXCEPT !.bli = NoItem, !.buf.iodone = @ /\ s.buf.ino])

\* xfs_buf_do_callbacks: xfs_buf_iodone, xfs_iflush_done or xfs_istale_done
DoCallbacks(s) ==
  LET t == [s EXCEPT !.buf.ino = FALSE, !.buf.iodone = FALSE]
  IN IF s.bli.there THEN BufRele([t EXCEPT !.bli = NoItem]) ELSE t

\* xfs_buf_item_unpin, after the reference and the pin have been dropped for the last time
UnpinStale(s) ==
  BufRelse(IF "STALE_INODE" \in s.bli.flags THEN DoCallbacks(s) ELSE ItemRelse(s))

MutItemUnlock(s, aborted) ==
  LET r == IF "LOGGED" \in s.bli.flags THEN [s EXCEPT !.bli.flags = @ \ {"LOGGED"}] ELSE [s EXCEPT !.bli.ref = @ - 1]
      f == IF s.bli.map = {} THEN ItemRelse(r) ELSE [r EXCEPT !.bli.flags = @ \ {"HOLD"}]
  IN IF "HOLD" \in s.bli.flags THEN f ELSE BufRelse(f)
\* xfs_buf_item_unlock: a stale buffer stays locked until it is unpinned; the reference of a
\* transaction that logged the buffer is dropped by xfs_buf_item_unpin
ItemUnlock(s, aborted) ==
  LET u == [s EXCEPT !.bli.flags = IF "STALE" \in @ THEN @ \ {"LOGGED"} ELSE @]
      r == IF "LOGGED" \in u.bli.flags THEN [u EXCEPT !.bli.flags = @ \ {"LOGGED"}] ELSE [u EXCEPT !.bli.ref = @ - 1]
      f == IF u.bli.map = {} THEN ItemRelse(r) ELSE [r EXCEPT !.bli.flags = @ \ {"HOLD"}]
  IN IF "STALE" \in s.bli.flags /\ ~aborted THEN u
     ELSE IF "HOLD" \in s.bli.flags THEN f ELSE BufRelse(f)

MutItemCommitted(i, lsn) == lsn
\* images of new inodes stay where they were logged first: a later record has not got them
ItemCommitted(i, lsn) == IF "INODE_ALLOC" \in i.flags /\ i.lsn # 0 THEN i.lsn ELSE lsn

Logged(i) == IF "STALE" \in i.flags THEN {} ELSE IF "INODE_BUF" \in i.fmt THEN i.map \cap {"next"} ELSE i.map

----------------------------------------------------------------------------
(* xfs_trans_buf.c *)

To(t, pc) == tx' = [tx EXCEPT ![t].pc = pc]
Begun(t) == tx[t].pc = "idle" /\ \A u \in Txs : u < t => tx[u].pc # "idle"
FreeToUse == use.state = "free" /\ synced >= use.lsn
\* found through its parent, which the allocating transaction keeps locked
Visible == use.state = "meta" /\ \A t \in Txs : tx[t].alloc => tx[t].pc \notin {"wait", "in"}

\* _xfs_buf_find: a hold, then the wait for the lock; a new buffer comes locked
Find(t) ==
  /\ Begun(t) /\ (Visible \/ FreeToUse)
  /\ use' = [use EXCEPT !.state = "meta"]
  /\ tx' = [tx EXCEPT ![t].alloc = FreeToUse, ![t].pc = "wait"]
  /\ buf' = [buf EXCEPT !.hold = @ + 1]
  /\ UNCHANGED <<kind, bli, core, disk, log, synced, io, push, bufd, shut, errors, oops>>

\* xfs_buf_item_init and the transaction's reference
Joined(s) ==
  IF s.bli.there THEN [s EXCEPT !.bli.ref = @ + 1, !.bli.recur = 0]
  ELSE [s EXCEPT !.buf.hold = @ + 1, !.bli.there = TRUE, !.bli.ref = 1]

\* xfs_trans_get_buf for a block just allocated, xfs_trans_read_buf for another
GetBuf(t) ==
  LET s == BufFound([S EXCEPT !.buf.lock = "tx"])
  IN /\ tx[t].pc = "wait" /\ buf.lock = "free"
     /\ core' = IF tx[t].alloc THEN core ELSE CoreRead(s)
     /\ \/ /\ ~Down \/ tx[t].alloc
           /\ Install(Joined(IF tx[t].alloc THEN s ELSE BufRead(s)))
           /\ To(t, "in")
        \/ /\ Down /\ ~tx[t].alloc               \* shutdown_abort
           /\ Install(BufRelse(BufRead(s)))
           /\ To(t, "done")
     /\ UNCHANGED <<kind, disk, log, synced, use, io, push, bufd, shut, errors, oops>>

\* found in the transaction already
GetAgain(t) ==
  /\ tx[t].pc = "in" /\ bli.recur = 0
  /\ bli' = [bli EXCEPT !.recur = 1]
  /\ UNCHANGED <<kind, buf, tx, core, disk, log, synced, use, io, push, bufd, shut, errors, oops>>

Brelse(t) ==
  /\ tx[t].pc = "in" /\ ~tx[t].alloc
  /\ \/ /\ bli.recur > 0
        /\ bli' = [bli EXCEPT !.recur = @ - 1]
        /\ UNCHANGED <<buf, tx>>
     \/ /\ bli.recur = 0 /\ ~tx[t].dirty /\ "STALE" \notin bli.flags
        /\ LET s == [S EXCEPT !.bli.flags = @ \ {"HOLD"}, !.bli.ref = @ - 1]
           IN Install(BufRelse(IF "DIRTY" \in bli.flags THEN s ELSE ItemRelse(s)))
        /\ To(t, "done")
  /\ UNCHANGED <<kind, core, disk, log, synced, use, io, push, bufd, shut, errors, oops>>

Bhold(t) ==
  /\ tx[t].pc = "in" /\ "STALE" \notin bli.flags /\ "HOLD" \notin bli.flags
  /\ bli' = [bli EXCEPT !.flags = @ \cup {"HOLD"}]
  /\ UNCHANGED <<kind, buf, tx, core, disk, log, synced, use, io, push, bufd, shut, errors, oops>>
BholdRelease(t) ==
  /\ tx[t].pc = "in" /\ "HOLD" \in bli.flags
  /\ bli' = [bli EXCEPT !.flags = @ \ {"HOLD"}]
  /\ UNCHANGED <<kind, buf, tx, core, disk, log, synced, use, io, push, bufd, shut, errors, oops>>

\* the thread of u, which kept the buffer, joins it to its next transaction or lets it go
Bjoin(t) ==
  /\ Begun(t)
  /\ \E u \in Txs : /\ tx[u].held
                    /\ tx' = [tx EXCEPT ![u].held = FALSE, ![t].pc = "in"]
  /\ Install(Joined(S))
  /\ UNCHANGED <<kind, core, disk, log, synced, use, io, push, bufd, shut, errors, oops>>
Relse(u) ==
  /\ tx[u].held
  /\ tx' = [tx EXCEPT ![u].held = FALSE]
  /\ Install(BufRelse(S))
  /\ UNCHANGED <<kind, core, disk, log, synced, use, io, push, bufd, shut, errors, oops>>

\* new inodes and new blocks are logged whole, the unlinked list by its own field
Ranges(t) == IF tx[t].alloc \/ "STALE" \in bli.flags THEN {Parts}
             ELSE IF kind = "inode" THEN {{"next"}} ELSE {{"image"}, {"next"}}
LogBuf(t) ==
  /\ tx[t].pc = "in"
  /\ "STALE" \in bli.flags => kind = "other"
  /\ \E r \in Ranges(t) :
       /\ core' = [p \in Parts |-> IF p \in r THEN t ELSE core[p]]
       /\ bli' = [bli EXCEPT
            !.flags = (@ \ {"STALE"}) \cup {"LOGGED", "DIRTY"} \cup (IF kind = "inode" /\ r = Parts THEN {"INODE_ALLOC"} ELSE {}),
            !.fmt = (@ \ {"CANCEL"}) \cup (IF kind = "inode" /\ r # Parts THEN {"INODE_BUF"} ELSE {}),
            !.map = @ \cup r]
  /\ buf' = [buf EXCEPT !.delwri = TRUE, !.done = TRUE, !.iodone = TRUE, !.stale = FALSE]
  /\ tx' = [tx EXCEPT ![t].dirty = TRUE, ![t].stale = FALSE]
  /\ use' = [use EXCEPT !.state = "meta"]
  /\ UNCHANGED <<kind, disk, log, synced, io, push, bufd, shut, errors, oops>>

\* the block is freed: xfs_trans_binval, with xfs_trans_stale_inode_buf when inodes are attached
Binval(t) ==
  /\ tx[t].pc = "in" /\ ~tx[t].alloc /\ "STALE" \notin bli.flags /\ "HOLD" \notin bli.flags
  /\ \A u \in Txs : tx[u].pc # "wait"
  /\ LET s == DelwriDequeue(S)
     IN Install([s EXCEPT !.buf.stale = TRUE,
          !.bli.flags = (@ \ {"LOGGED", "DIRTY"}) \cup {"STALE"} \cup (IF buf.ino THEN {"STALE_INODE"} ELSE {}),
          !.bli.fmt = {"CANCEL"}, !.bli.map = {}])
  /\ tx' = [tx EXCEPT ![t].dirty = TRUE, ![t].stale = TRUE]
  /\ use' = [use EXCEPT !.state = "freeing"]
  /\ UNCHANGED <<kind, core, disk, log, synced, io, push, bufd, shut, errors, oops>>

----------------------------------------------------------------------------
(* xfs_trans.c and xfs_trans_item.c *)

\* nothing to log, or cancelled
Clean(t) ==
  /\ tx[t].pc = "in" /\ ~tx[t].dirty /\ ~tx[t].alloc
  /\ Install(ItemUnlock(S, FALSE))
  /\ tx' = [tx EXCEPT ![t].pc = "done", ![t].held = "HOLD" \in bli.flags]
  /\ UNCHANGED <<kind, core, disk, log, synced, use, io, push, bufd, shut, errors, oops>>

\* the item is pinned and formatted, and written to the log
Commit(t) ==
  /\ tx[t].pc = "in" /\ tx[t].dirty /\ ~Down
  /\ buf' = [buf EXCEPT !.pin = @ + 1]
  /\ log' = Append(log, [parts |-> Logged(bli), val |-> core, cancel |-> "STALE" \in bli.flags])
  /\ tx' = [tx EXCEPT ![t].pc = "logged", ![t].lsn = Len(log) + 1]
  /\ use' = IF tx[t].stale THEN [state |-> "free", lsn |-> Len(log) + 1] ELSE use
  /\ UNCHANGED <<kind, bli, core, disk, synced, io, push, bufd, shut, errors, oops>>

UnlockItems(t) ==
  /\ tx[t].pc = "logged"
  /\ Install(ItemUnlock(S, FALSE))
  /\ tx' = [tx EXCEPT ![t].pc = "committed", ![t].held = "HOLD" \in bli.flags]
  /\ UNCHANGED <<kind, core, disk, log, synced, use, io, push, bufd, shut, errors, oops>>

\* a dirty transaction cancelled, or committed after a shutdown: xfs_trans_free_items with XFS_TRANS_ABORT
Abort(t) ==
  /\ Down /\ tx[t].pc = "in" /\ tx[t].dirty
  /\ Install(ItemUnlock(S, TRUE))
  /\ tx' = [tx EXCEPT ![t].pc = "done", ![t].held = "HOLD" \in bli.flags]
  /\ UNCHANGED <<kind, core, disk, log, synced, use, io, push, bufd, shut, errors, oops>>

\* the log write failed: xfs_trans_uncommit, xfs_buf_item_unpin_remove
Uncommit(t) ==
  LET last == bli.ref = 1
      s == [S EXCEPT !.bli.ref = @ - 1, !.buf.pin = @ - 1]
      gone == last /\ "STALE" \in bli.flags
      u == IF gone /\ tx[t].stale THEN UnpinStale(s) ELSE s
  IN /\ Down /\ tx[t].pc = "logged" /\ tx[t].lsn > synced
     /\ Install(IF gone THEN u ELSE ItemUnlock(u, TRUE))
     /\ tx' = [tx EXCEPT ![t].pc = "done", ![t].held = "HOLD" \in bli.flags]
     /\ UNCHANGED <<kind, core, disk, log, synced, use, io, push, bufd, shut, errors, oops>>

\* xfs_trans_committed, in the order of the log while it is written (XfsIclog)
Turn(t) ==
  \/ tx[t].lsn <= synced /\ \A u \in Txs : tx[u].lsn \in 1 .. tx[t].lsn - 1 => tx[u].pc = "done"
  \/ Down
CbAil(t) ==
  LET lsn == ItemCommitted(bli, tx[t].lsn)
  IN /\ tx[t].pc = "committed" /\ Turn(t)
     /\ IF bli.there
        THEN /\ bli' = [bli EXCEPT !.lsn = IF lsn > @ THEN lsn ELSE @]
             /\ To(t, "ail") /\ UNCHANGED oops
        ELSE oops' = TRUE /\ To(t, "done") /\ UNCHANGED bli
     /\ UNCHANGED <<kind, buf, core, disk, log, synced, use, io, push, bufd, shut, errors>>
CbDrop(t) ==
  /\ tx[t].pc = "ail"
  /\ bli' = [bli EXCEPT !.ref = @ - 1]
  /\ tx' = [tx EXCEPT ![t].pc = "drop", ![t].freed = bli.ref = 1]
  /\ UNCHANGED <<kind, buf, core, disk, log, synced, use, io, push, bufd, shut, errors, oops>>
CbUnpin(t) ==
  LET s == [S EXCEPT !.buf.pin = @ - 1]
  IN /\ tx[t].pc = "drop"
     /\ Install(IF tx[t].freed /\ tx[t].stale THEN UnpinStale(s) ELSE s)
     /\ To(t, "done")
     /\ UNCHANGED <<kind, core, disk, log, synced, use, io, push, bufd, shut, errors, oops>>

----------------------------------------------------------------------------
(* Writing the buffer *)

\* xfs_buf_item_trylock looks at the pin count first, then tries the lock
PushCheck ==
  /\ push = "idle" /\ bli.lsn # 0 /\ buf.pin = 0
  /\ push' = "unpinned"
  /\ UNCHANGED <<kind, buf, bli, tx, core, disk, log, synced, use, io, bufd, shut, errors, oops>>
PushLock ==
  /\ push = "unpinned"
  /\ IF buf.lock = "free" /\ bli.lsn # 0
     THEN buf' = [buf EXCEPT !.lock = "push", !.hold = @ + 1] /\ push' = "locked"
     ELSE push' = "idle" /\ UNCHANGED buf
  /\ UNCHANGED <<kind, bli, tx, core, disk, log, synced, use, io, bufd, shut, errors, oops>>
\* xfs_buf_item_push
Push ==
  /\ push = "locked" /\ push' = "idle"
  /\ IF buf.delwri
     THEN /\ Install([DelwriDequeue(S) EXCEPT !.buf.lock = "io"])
          /\ io' = "strategy"
     ELSE Install(BufRelse(S)) /\ UNCHANGED io
  /\ UNCHANGED <<kind, tx, core, disk, log, synced, use, bufd, shut, errors, oops>>

\* xfs_buf_delwri_split; the write takes over the hold of the queue
BufdCheck ==
  /\ bufd = "idle" /\ buf.queued /\ buf.pin = 0
  /\ bufd' = "unpinned"
  /\ UNCHANGED <<kind, buf, bli, tx, core, disk, log, synced, use, io, push, shut, errors, oops>>
BufdLock ==
  /\ bufd = "unpinned" /\ bufd' = "idle"
  /\ IF buf.lock = "free" /\ buf.queued
     THEN /\ buf' = [buf EXCEPT !.lock = "io", !.delwri = FALSE, !.queued = FALSE]
          /\ io' = "strategy"
     ELSE UNCHANGED <<buf, io>>
  /\ UNCHANGED <<kind, bli, tx, core, disk, log, synced, use, push, shut, errors, oops>>

\* xfs_buf_iodone_callbacks after a shutdown, also through xfs_bioerror
SuperStale(s) == LET d == DelwriDequeue(s) IN [d EXCEPT !.buf.stale = TRUE, !.buf.done = TRUE]
\* xfs_bdstrat_cb
Strategy ==
  /\ io = "strategy"
  /\ \/ ~Down /\ io' = "unpin" /\ UNCHANGED <<buf, bli>>
     \/ Down /\ io' = "none" /\ Install(BufRelse(DoCallbacks(SuperStale(S))))
  /\ UNCHANGED <<kind, tx, core, disk, log, synced, use, push, bufd, shut, errors, oops>>
\* xfs_buf_iorequest waits until nobody pins the buffer
Submit ==
  /\ io = "unpin" /\ buf.pin = 0
  /\ io' = "flight"
  /\ UNCHANGED <<kind, buf, bli, tx, core, disk, log, synced, use, push, bufd, shut, errors, oops>>
WriteDone ==
  /\ io = "flight" /\ io' = "none"
  /\ disk' = core
  /\ Install(BufRelse(IF buf.iodone THEN DoCallbacks(S) ELSE S))
  /\ UNCHANGED <<kind, tx, core, log, synced, use, push, bufd, shut, errors, oops>>
\* an asynchronous write that failed is queued again
WriteError ==
  /\ io = "flight" /\ io' = "none" /\ errors < MaxErrors
  /\ errors' = errors + 1
  /\ Install(BufRelse(IF Down THEN DoCallbacks(SuperStale(S))
                      ELSE IF buf.iodone /\ ~buf.stale THEN [S EXCEPT !.buf.delwri = TRUE, !.buf.done = TRUE] ELSE S))
  /\ UNCHANGED <<kind, tx, core, disk, log, synced, use, push, bufd, shut, oops>>

\* xfs_iflush: an inode is copied into the buffer, its item attached (xfs_buf_attach_iodone), and
\* the buffer is left to xfsbufd (xfs_bdwrite)
InodeFlush ==
  LET g == BufFound([S EXCEPT !.buf.lock = "tx", !.buf.hold = @ + 1])
      a == [BufRead(g) EXCEPT !.buf.ino = TRUE, !.buf.iodone = TRUE, !.buf.delwri = TRUE]
      q == IF a.buf.queued THEN BufRele(a) ELSE [a EXCEPT !.buf.queued = TRUE]
  IN /\ kind = "inode" /\ Visible /\ ~buf.ino /\ buf.lock = "free" /\ ~Down
     /\ core' = CoreRead(g)
     /\ Install(BufUnlock(q))
     /\ UNCHANGED <<kind, tx, disk, log, synced, use, io, push, bufd, shut, errors, oops>>

----------------------------------------------------------------------------
SyncLog ==
  /\ ~Down /\ \E n \in synced + 1 .. Len(log) : synced' = n
  /\ UNCHANGED <<kind, buf, bli, tx, core, disk, log, use, io, push, bufd, shut, errors, oops>>
\* the block in a file, written directly
UserWrite ==
  /\ FreeToUse
  /\ use' = [use EXCEPT !.state = "user"]
  /\ disk' = [p \in Parts |-> User]
  /\ UNCHANGED <<kind, buf, bli, tx, core, log, synced, io, push, bufd, shut, errors, oops>>
\* where recovery starts: the first record in the AIL or still to be put there
RecoveryTail == LET behind == {l \in 1 .. Len(log) : \E t \in Txs : tx[t].lsn = l /\ tx[t].pc \in {"logged", "committed"}}
                      \cup (IF bli.lsn # 0 THEN {bli.lsn} ELSE {}) \cup {Len(log) + 1}
        IN CHOOSE l \in behind : \A m \in behind : l <= m
Shutdown ==
  /\ ~Down /\ (IF io = "unpin" THEN "late" ELSE "early") \in Shutdowns
  /\ shut' = RecoveryTail
  /\ UNCHANGED <<kind, buf, bli, tx, core, disk, log, synced, use, io, push, bufd, errors, oops>>

\* a block nobody has logged, or one that a transaction before these has just allocated: its
\* record is on disk, its item in the AIL, the buffer waits for xfsbufd
Unlogged ==
  /\ buf = NoBuf /\ bli = NoItem /\ log = <<>> /\ synced = 0
  /\ disk = [p \in Parts |-> 0]
  /\ use \in [state : {"meta", "free"}, lsn : {0}]
LoggedBefore ==
  /\ buf = [NoBuf EXCEPT !.hold = 2, !.delwri = TRUE, !.queued = TRUE, !.done = TRUE, !.iodone = TRUE]
  /\ bli = [NoItem EXCEPT !.there = TRUE, !.map = Parts, !.lsn = 1,
                         !.flags = {"DIRTY"} \cup (IF kind = "inode" THEN {"INODE_ALLOC"} ELSE {})]
  /\ log = <<[parts |-> Parts, val |-> [p \in Parts |-> 0], cancel |-> FALSE]>> /\ synced = 1
  /\ disk = [p \in Parts |-> User]
  /\ use = [state |-> "meta", lsn |-> 0]
BufInit ==
  /\ kind \in Kinds
  /\ \/ "unlogged" \in Starts /\ Unlogged
     \/ "logged" \in Starts /\ LoggedBefore
  /\ tx = [t \in Txs |-> NoTx]
  /\ core = [p \in Parts |-> 0]
  /\ io = "none" /\ push = "idle" /\ bufd = "idle" /\ shut = 0 /\ errors = 0 /\ oops = FALSE

Trans(t) ==
  \/ Find(t) \/ GetBuf(t) \/ GetAgain(t) \/ Brelse(t) \/ Bhold(t) \/ BholdRelease(t) \/ Bjoin(t) \/ Relse(t)
  \/ LogBuf(t) \/ Binval(t) \/ Clean(t) \/ Commit(t) \/ UnlockItems(t) \/ Abort(t) \/ Uncommit(t)
  \/ CbAil(t) \/ CbDrop(t) \/ CbUnpin(t)
BufNext ==
  \/ \E t \in Txs : Trans(t)
  \/ PushCheck \/ PushLock \/ Push \/ BufdCheck \/ BufdLock
  \/ Strategy \/ Submit \/ WriteDone \/ WriteError \/ InodeFlush
  \/ SyncLog \/ UserWrite \/ Shutdown
BufSpec == BufInit /\ [][BufNext]_bufVars

----------------------------------------------------------------------------
CountOf(P(_)) == Cardinality({t \in Txs : P(t)})
One(b) == IF b THEN 1 ELSE 0
Refers(t) == tx[t].pc \in {"in", "logged", "committed", "ail"}
Pins(t) == tx[t].pc \in {"logged", "committed", "ail", "drop"}

\* The log item lives as long as a transaction or the AIL needs it and the buffer as long as
\* somebody holds it: references, pins and holds are dropped once each, whoever comes last.
BufferIsCounted ==
  ~Down =>
    /\ ~oops
    /\ bli.ref = CountOf(Refers) /\ buf.pin = CountOf(Pins)
    /\ bli.there <=> bli.ref > 0 \/ bli.lsn # 0
    /\ buf.hold = One(bli.there) + One(buf.queued) + One(buf.lock # "free") + CountOf(LAMBDA t : tx[t].pc = "wait")
    /\ push = "locked" => bli.there

\* What keeps the tail of the log, or an inode's flush lock, is going to be written: a buffer with
\* an item in the AIL or with inodes attached that nobody has locked is queued for xfsbufd and
\* marked for xfsaild's push.
BufferIsQueued == (bli.lsn # 0 \/ buf.ino) /\ buf.lock = "free" /\ ~Down => buf.delwri /\ buf.queued

\* Both (xfs_buf_item_unpin, xfs_buf_item_unlock, xfs_buf_unlock): the buffer and its item live
\* exactly as long as they are needed, and what holds the log's tail is queued for writing.
BufferIsKept == BufferIsCounted /\ BufferIsQueued

OnDisk == 1 .. synced
Cancels == {l \in OnDisk : log[l].cancel}
Latest(L, p) == LET ls == {l \in L : p \in log[l].parts} IN {l \in ls : \A m \in ls : m <= l}
Uncancelled(L) == {l \in L : \A c \in Cancels : c < l}
Recovered(p) == LET l == Latest(Uncancelled({l \in OnDisk : l >= IF Down THEN shut ELSE RecoveryTail}), p)
                IN IF l = {} THEN disk[p] ELSE log[CHOOSE m \in l : TRUE].val[p]

\* After a crash now, recovery leaves in the block what the transactions on disk say, and no
\* change of one that is not; the old contents never come back over those of a new owner.
BlockIsRecoverable ==
  \A p \in Parts :
    LET l == Latest(Uncancelled(OnDisk), p)
    IN IF l # {} THEN Recovered(p) = log[CHOOSE m \in l : TRUE].val[p]
       ELSE IF use.state = "user" THEN Recovered(p) = User
       ELSE Cancels = {} => Recovered(p) = 0

\* "All xfs metadata buffers ... get this attached as their b_bdstrat callback function. This is so
\* that we can catch a buffer after prematurely unpinning it to forcibly shutdown the filesystem."
\* (linux-2.6/xfs_lrw.c:850): nothing is written in place that is not in the log on disk.
WrittenIsLogged == \A p \in Parts : disk[p] \in Txs => tx[disk[p]].lsn \in 1 .. synced
=============================================================================
