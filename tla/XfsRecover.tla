----------------------------- MODULE XfsRecover -----------------------------
(***************************************************************************)
(* Log recovery (fs/xfs/xfs_log_recover.c): the two passes over the log,   *)
(* cancelled buffers, inodes newer on disk than in the log, quotaoff, and  *)
(* extent-free intents, for every log that transactions, in-place writes   *)
(* and the movement of the tail can leave behind, with a crash at any      *)
(* moment, of the recovery too.                                            *)
(*                                                                         *)
(* The disk is four buffers: A holds the free extents of an AG, B a block  *)
(* of metadata, I a cluster of inodes of which one is in use, Q a dquot.   *)
(* B and I can be freed and used again, for metadata or for file data,     *)
(* which is not logged.  The log is the sequence of log operations written *)
(* so far; `onDisk' of them are on disk and `tail' is the first one        *)
(* recovery reads.  XfsLogHead models how it finds both.                   *)
(***************************************************************************)
EXTENDS Integers, Sequences, FiniteSets, FiniteSetsExt, SequencesExt

CONSTANTS
  MaxTrans,    \* bound on the transactions
  MaxOpen,     \* bound on the transactions being written to the log at a time
  Workloads,   \* sets of kinds of transactions run together
  MaxTouch,    \* bound on the changes to the inode that are not logged
  MaxCrashes,  \* bound on the crashes
  MaxFlush     \* DI_MAX_FLUSH

VARIABLES
  disk,        \* content of each buffer on disk
  core,        \* content in memory while the file system is up
  log,         \* log operations: transaction, kind and item
  onDisk, tail,
  open,        \* transactions in the log without their commit record
  fs,          \* up, down, replay or finish; workload; bounds; extents with an EFI but no EFD
  clean,       \* for each buffer, length of the log when it was last written in place
  rec,         \* recovery: position, open transactions, cancel table, buffers, EFIs in the AIL
  before       \* the disk at the last crash

recVars == <<disk, core, log, onDisk, tail, open, fs, clean, rec, before>>

MetaBufs == {"A", "B", "I", "Q"}
Freeable == {"B", "I"}
None == [kind |-> "none"]
Content(kind, v) == [kind |-> kind, v |-> v, fi |-> 0]

Item(type, blk, val) == [type |-> type, blk |-> blk, val |-> val, cancel |-> FALSE]
Cancel(blk) == [type |-> "buf", blk |-> blk, val |-> None, cancel |-> TRUE]

NoRec == [pos |-> 0, open |-> <<>>, cancel |-> [b \in MetaBufs |-> 0], quotaoff |-> FALSE,
          bufs |-> [b \in MetaBufs |-> None], efis |-> {}, ok |-> TRUE]

RecInit ==
  /\ disk = [A |-> Content("meta", {}), B |-> Content("meta", 0), I |-> Content("inode", 0), Q |-> Content("dquot", 0)]
  /\ core = disk /\ log = <<>> /\ onDisk = 0 /\ tail = 1 /\ open = {} /\ before = disk
  /\ \E kinds \in Workloads : fs = [mode |-> "up", kinds |-> kinds, trans |-> 0, touch |-> 0, crashes |-> 0, efi |-> {}, freed |-> [b \in Freeable |-> 0], qoff |-> FALSE]
  /\ clean = [b \in MetaBufs |-> 0] /\ rec = NoRec

----------------------------------------------------------------------------
(* The file system at work *)

Locked == UNION {{t.items[i].blk : i \in DOMAIN t.items} : t \in open}

\* the items each kind of transaction logs, in the order of its item list
TransItems(kind, b) ==
  LET new == fs.trans + 1
      agf(s) == Item("buf", "A", Content("meta", s))
  IN IF kind = "modify" THEN <<Item("buf", b, Content("meta", new))>>
     ELSE IF kind = "inode" THEN <<Item("inode", "I", [core["I"] EXCEPT !.v = @ + 1])>>
     ELSE IF kind = "dquot" THEN <<Item("dquot", "Q", Content("dquot", new))>>
     ELSE IF kind = "quotaoff" THEN <<Item("quotaoff", "Q", None)>>
     ELSE IF kind = "free"
     THEN (IF b = "I" THEN <<Item("inode", b, [core[b] EXCEPT !.v = @ + 1])>> ELSE <<>>) \o <<Cancel(b), Item("efi", b, None)>>
     ELSE IF kind = "freed" THEN <<agf(core["A"].v \cup {b}), Item("efd", b, None)>>
     ELSE IF kind = "meta" THEN <<agf(core["A"].v \ {b}), Item("buf", b, Content("meta", new))>>
     ELSE <<agf(core["A"].v \ {b})>>

May(kind, b) ==
  LET inUse == core[b].kind \in {"meta", "inode"} /\ b \notin core["A"].v \cup fs.efi
  IN IF kind = "modify" THEN b = "B" /\ core[b].kind = "meta" /\ inUse
     ELSE IF kind = "inode" THEN b = "I" /\ core[b].kind = "inode" /\ inUse
     ELSE IF kind \in {"dquot", "quotaoff"} THEN b = "Q" /\ ~fs.qoff
     ELSE IF kind = "free" THEN b \in Freeable /\ inUse
     ELSE IF kind = "freed" THEN b \in fs.efi
     ELSE b \in core["A"].v /\ fs.freed[b] <= onDisk  \* xfs_alloc_search_busy

Op(tid, op, item) == [tid |-> tid, op |-> op, item |-> item]
NoItem == Item("none", "A", None)

\* xlog_write of the start record and the items; the items stay locked
Begin(kind, b) ==
  /\ fs.mode = "up" /\ kind \in fs.kinds /\ fs.trans < MaxTrans /\ Cardinality(open) < MaxOpen /\ May(kind, b)
  /\ \E items \in {TransItems(kind, b)}, tid \in {fs.trans + 1} :
       /\ {items[i].blk : i \in DOMAIN items} \cap Locked = {}
       /\ open' = open \cup {[tid |-> tid, kind |-> kind, blk |-> b, items |-> items]}
       /\ log' = Append(log, Op(tid, "start", NoItem)) \o [i \in DOMAIN items |-> Op(tid, "item", items[i])]
  /\ fs' = [fs EXCEPT !.trans = @ + 1]
  /\ UNCHANGED <<disk, core, onDisk, tail, clean, rec, before>>

\* what a committed transaction leaves in memory
Applied(c, items) ==
  [b \in MetaBufs |->
     LET mine == {i \in DOMAIN items : items[i].blk = b /\ items[i].type \in {"buf", "inode", "dquot"} /\ ~items[i].cancel}
     IN IF mine = {} THEN c[b] ELSE items[Max(mine)].val]

\* the commit record; it carries the kind for the properties
Commit(t) ==
  /\ fs.mode = "up"
  /\ log' = Append(log, Op(t.tid, "commit", Item(t.kind, t.blk, None)))
  /\ open' = open \ {t}
  /\ core' = [Applied(core, t.items) EXCEPT
       ![t.blk] = IF t.kind \in {"free", "freed"} THEN Content("free", 0)
                  ELSE IF t.kind = "data" THEN Content("data", t.tid) ELSE @]
  /\ fs' = [fs EXCEPT !.efi = IF t.kind = "free" THEN @ \cup {t.blk} ELSE @ \ (IF t.kind = "freed" THEN {t.blk} ELSE {}),
                      !.freed = IF t.kind = "freed" THEN [@ EXCEPT ![t.blk] = Len(log) + 1] ELSE @,
                      !.qoff = @ \/ t.kind = "quotaoff"]
  /\ UNCHANGED <<disk, onDisk, tail, clean, rec, before>>

LogWritten ==
  /\ fs.mode \in {"up", "finish"} /\ onDisk < Len(log)
  /\ onDisk' = Len(log)
  /\ UNCHANGED <<disk, core, log, tail, open, fs, clean, rec, before>>

\* positions of the commit records up to n of the transactions that log buffer b
CommitsOf(b, n) ==
  {p \in 1 .. n : log[p].op = "commit"
                  /\ \E q \in 1 .. p : log[q].tid = log[p].tid /\ log[q].op = "item" /\ log[q].item.blk = b
                                       /\ log[q].item.type \in {"buf", "inode", "dquot"}}
StartOf(p) == CHOOSE q \in 1 .. p : log[q].tid = log[p].tid /\ log[q].op = "start"
Pinned(b) == CommitsOf(b, Len(log)) # CommitsOf(b, onDisk)

\* a buffer is written in place once its changes are in the log on disk
WriteBack(b) ==
  /\ fs.mode = "up" /\ b \notin Locked /\ ~Pinned(b) /\ core[b].kind # "free"
  /\ core[b].kind = "inode" => core[b].v # disk[b].v
  /\ core[b].kind # "inode" => core[b] # disk[b]
  /\ IF core[b].kind = "inode"
     THEN /\ disk' = [disk EXCEPT ![b] = [core[b] EXCEPT !.fi = @ + 1]]
          /\ core' = [core EXCEPT ![b].fi = (@ + 1) % MaxFlush]
     ELSE disk' = [disk EXCEPT ![b] = core[b]] /\ UNCHANGED core
  /\ clean' = [clean EXCEPT ![b] = Len(log)]
  /\ UNCHANGED <<log, onDisk, tail, open, fs, rec, before>>

\* a change of the inode that only its flush makes permanent
TouchInode ==
  /\ fs.mode = "up" /\ core["I"].kind = "inode" /\ "I" \notin Locked \cup core["A"].v /\ fs.touch < MaxTouch
  /\ core' = [core EXCEPT !["I"].v = @ + 1]
  /\ fs' = [fs EXCEPT !.touch = @ + 1]
  /\ UNCHANGED <<disk, log, onDisk, tail, open, clean, rec, before>>

\* the last change of b that is on disk in the log
LastItem(b, n) ==
  LET p == Max(CommitsOf(b, n))
      qs == {q \in 1 .. p : log[q].tid = log[p].tid /\ log[q].op = "item" /\ log[q].item.blk = b
                            /\ log[q].item.type \in {"buf", "inode", "dquot"}}
  IN log[Max(qs)].item

\* the tail stays at or before the start of every transaction with an item in
\* the AIL or on its way there
MoveTail ==
  LET dirty == {b \in MetaBufs : CommitsOf(b, onDisk) # {} /\ Max(CommitsOf(b, onDisk)) > clean[b] /\ ~LastItem(b, onDisk).cancel}
      intents == {q \in 1 .. onDisk : log[q].op = "item" /\ log[q].item.type = "efi"
                    /\ ~\E d \in q .. onDisk : log[d].op = "item" /\ log[d].item.type = "efd" /\ log[d].item.blk = log[q].item.blk
                          /\ \E c \in d .. onDisk : log[c].op = "commit" /\ log[c].tid = log[d].tid}
      unfinished == {q \in 1 .. Len(log) : log[q].op = "start" /\ ~\E c \in q .. onDisk : log[c].op = "commit" /\ log[c].tid = log[q].tid}
      least == Min({StartOf(Max(CommitsOf(b, onDisk))) : b \in dirty} \cup {StartOf(q) : q \in intents} \cup unfinished \cup {onDisk + 1})
  IN /\ fs.mode = "up" /\ tail < least
     /\ tail' = least
     /\ UNCHANGED <<disk, core, log, onDisk, open, fs, clean, rec, before>>

Crash ==
  /\ fs.mode \in {"up", "replay", "finish"} /\ fs.crashes < MaxCrashes
  /\ fs' = [fs EXCEPT !.mode = "down", !.crashes = @ + 1]
  /\ onDisk' \in onDisk .. Len(log) /\ log' = SubSeq(log, 1, onDisk')
  /\ open' = {} /\ rec' = NoRec /\ before' = disk
  /\ UNCHANGED <<disk, core, tail, clean>>

----------------------------------------------------------------------------
(* The passes *)

\* buffers that are not cancelled go first, each before those already there
ReorderTrans(items) ==
  LET isBuf(i) == i.type = "buf" /\ ~i.cancel
  IN Reverse(SelectSeq(items, isBuf)) \o SelectSeq(items, LAMBDA i : ~isBuf(i))

BufRead(r, b) == IF r.bufs[b] # None THEN r.bufs[b] ELSE disk[b]
Bdwrite(r, b, c) == [r EXCEPT !.bufs[b] = c]

DoBufferPass1(r, i) == IF i.cancel THEN [r EXCEPT !.cancel[i.blk] = @ + 1] ELSE r

MutDoBufferPass2(r, i) ==
  IF i.cancel THEN [r EXCEPT !.cancel[i.blk] = @ - 1] ELSE Bdwrite(r, i.blk, i.val)

DoBufferPass2(r, i) ==
  IF r.cancel[i.blk] > 0 THEN [r EXCEPT !.cancel[i.blk] = IF i.cancel THEN @ - 1 ELSE @]
  ELSE IF i.cancel THEN [r EXCEPT !.ok = FALSE]
  ELSE Bdwrite(r, i.blk, i.val)

Newer(d, l) == l.fi < d.fi /\ ~(d.fi = MaxFlush /\ l.fi < MaxFlush \div 2)
DoInodeTrans(r, i) ==
  IF r.cancel[i.blk] > 0 THEN r
  ELSE IF BufRead(r, i.blk).kind # "inode" THEN [r EXCEPT !.ok = FALSE]
  ELSE IF Newer(BufRead(r, i.blk), i.val) THEN r
  ELSE Bdwrite(r, i.blk, [i.val EXCEPT !.fi = 0])

DoDquotTrans(r, i) ==
  IF r.quotaoff THEN r
  ELSE IF BufRead(r, i.blk).kind # "dquot" THEN [r EXCEPT !.ok = FALSE]
  ELSE Bdwrite(r, i.blk, i.val)

DoEfiTrans(r, i) == [r EXCEPT !.efis = @ \cup {i.blk}]
DoEfdTrans(r, i) == [r EXCEPT !.efis = @ \ {i.blk}]
DoQuotaoffTrans(r, i) == [r EXCEPT !.quotaoff = TRUE]

DoItem(r, i) ==
  IF fs.mode = "down"
  THEN IF i.type = "buf" THEN DoBufferPass1(r, i) ELSE IF i.type = "quotaoff" THEN DoQuotaoffTrans(r, i) ELSE r
  ELSE IF i.type = "buf" THEN DoBufferPass2(r, i)
  ELSE IF i.type = "inode" THEN DoInodeTrans(r, i)
  ELSE IF i.type = "dquot" THEN DoDquotTrans(r, i)
  ELSE IF i.type = "efi" THEN DoEfiTrans(r, i)
  ELSE IF i.type = "efd" THEN DoEfdTrans(r, i)
  ELSE r

DoTrans(r, items) == FoldLeft(DoItem, r, ReorderTrans(items))

\* one log operation; those of a transaction that began before the tail are passed over
ProcessData(r, p) ==
  LET o == log[p]
      known == \E k \in DOMAIN r.open : r.open[k].tid = o.tid
      k == CHOOSE j \in DOMAIN r.open : r.open[j].tid = o.tid
      next == [r EXCEPT !.pos = p + 1]
  IN IF ~known THEN (IF o.op = "start" THEN [next EXCEPT !.open = Append(@, [tid |-> o.tid, items |-> <<>>])] ELSE next)
     ELSE IF o.op = "item" THEN [next EXCEPT !.open[k].items = Append(@, o.item)]
     ELSE IF o.op = "commit" THEN DoTrans([next EXCEPT !.open = RemoveAt(@, k)], r.open[k].items)
     ELSE [next EXCEPT !.ok = FALSE]

\* the first pass changes nothing but the tables
Pass1 ==
  /\ fs.mode = "down"
  /\ rec' = [FoldLeft(ProcessData, NoRec, [k \in 1 .. onDisk - tail + 1 |-> tail + k - 1]) EXCEPT !.pos = tail, !.open = <<>>]
  /\ fs' = [fs EXCEPT !.mode = "replay"]
  /\ UNCHANGED <<disk, core, log, onDisk, tail, open, clean, before>>

\* the second replays a transaction at its commit record
Pass2 ==
  /\ fs.mode = "replay" /\ rec.ok /\ rec.pos <= onDisk
  /\ \E last \in {Min({onDisk} \cup {p \in rec.pos .. onDisk : log[p].op = "commit"})} :
       rec' = FoldLeft(ProcessData, rec, [k \in 1 .. last - rec.pos + 1 |-> rec.pos + k - 1])
  /\ UNCHANGED <<disk, core, log, onDisk, tail, open, fs, clean, before>>

\* xfsbufd may write a buffer of the recovery at any time
BufdWrite(b) ==
  /\ fs.mode = "replay" /\ rec.bufs[b] # None /\ disk[b] # rec.bufs[b]
  /\ disk' = [disk EXCEPT ![b] = rec.bufs[b]]
  /\ UNCHANGED <<core, log, onDisk, tail, open, fs, clean, rec, before>>

Replayed == [b \in MetaBufs |-> BufRead(rec, b)]

\* xlog_do_recover after both passes: all buffers are written
DoRecover ==
  /\ fs.mode = "replay" /\ rec.ok /\ rec.pos > onDisk
  /\ disk' = Replayed /\ core' = Replayed
  /\ clean' = [b \in MetaBufs |-> Len(log)]
  /\ fs' = [fs EXCEPT !.mode = "finish", !.efi = rec.efis, !.freed = [b \in Freeable |-> 0]]
  /\ UNCHANGED <<log, onDisk, tail, open, rec, before>>

\* a transaction of its own for each intent left over, with its done record
ProcessEfi(b) ==
  /\ fs.mode = "finish" /\ b \in fs.efi
  /\ log' = log \o <<Op(fs.trans + 1, "start", NoItem),
                     Op(fs.trans + 1, "item", Item("buf", "A", Content("meta", core["A"].v \cup {b}))),
                     Op(fs.trans + 1, "item", Item("efd", b, None)),
                     Op(fs.trans + 1, "commit", Item("freed", b, None))>>
  /\ core' = [core EXCEPT !["A"].v = @ \cup {b}, ![b] = Content("free", 0)]
  /\ fs' = [fs EXCEPT !.efi = @ \ {b}, !.trans = @ + 1, !.freed[b] = Len(log) + 4]
  /\ UNCHANGED <<disk, onDisk, tail, open, clean, rec, before>>

\* the log is forced before the unlinked inodes are processed
RecoverFinish ==
  /\ fs.mode = "finish" /\ fs.efi = {}
  /\ onDisk' = Len(log)
  /\ fs' = [fs EXCEPT !.mode = "up"]
  /\ rec' = NoRec
  /\ UNCHANGED <<disk, core, log, tail, open, clean, before>>

RecNext ==
  \/ \E kind \in {"modify", "inode", "dquot", "quotaoff", "free", "freed", "meta", "data"}, b \in MetaBufs : Begin(kind, b)
  \/ \E t \in open : Commit(t)
  \/ \E b \in MetaBufs : WriteBack(b) \/ BufdWrite(b) \/ ProcessEfi(b)
  \/ LogWritten \/ TouchInode \/ MoveTail \/ Crash \/ Pass1 \/ Pass2 \/ DoRecover \/ RecoverFinish

RecSpec == RecInit /\ [][RecNext]_recVars

----------------------------------------------------------------------------
\* What recovery must make of a buffer: what the last transaction that is whole in
\* the log left in it; a buffer freed since is as the crash left it, be it free or
\* data; an inode is never taken back to before its last log record, and in the first
\* recovery it keeps what was flushed since; a dquot is left alone if quotas were
\* turned off.
Wanted(b, c) ==
  LET at == CommitsOf(b, onDisk)
      i == LastItem(b, onDisk)
  IN IF at = {} THEN c = before[b]
     ELSE IF i.cancel THEN c = before[b]
     ELSE IF i.type = "inode"
     THEN c.kind = "inode" /\ c.v \in {i.val.v, before[b].v} /\ c.v >= i.val.v /\ (fs.crashes = 1 => c.v >= before[b].v)
     ELSE IF i.type = "dquot" THEN c = i.val \/ \E p \in 1 .. onDisk : log[p].op = "commit" /\ log[p].item.type = "quotaoff"
     ELSE c = i.val

\* After both passes every buffer is as its last committed change left it, however
\* often recovery was interrupted, and no check of recovery has failed; stale
\* metadata never lands on a block that was freed and used again
\* (xlog_recover_do_trans, xlog_check_buffer_cancelled).
ReplayIsExact ==
  /\ rec.ok
  /\ fs.mode = "finish" /\ fs.trans <= MaxTrans /\ rec.pos = onDisk + 1 => \A b \in MetaBufs : Wanted(b, disk[b])

\* ``Skip replay when the on disk inode is newer than the log one'': an inode flushed
\* after it was last logged keeps what was flushed (xlog_recover_do_inode_trans).
FlushedInodeIsKept ==
  fs.mode = "finish" /\ CommitsOf("I", onDisk) # {} /\ LastItem("I", onDisk).type = "inode" /\ before["I"].kind = "inode"
    => disk["I"].v >= before["I"].v

\* what the last committed transaction about extent b did to it
LastUse(b) ==
  LET at == {p \in DOMAIN log : log[p].op = "commit" /\ log[p].item.blk = b /\ log[p].item.type \in {"free", "freed", "meta", "data"}}
  IN IF at = {} THEN "meta" ELSE log[Max(at)].item.type

\* An extent is in the free-space btrees or has a pending intent exactly if the last
\* transaction about it that is in the log freed it, never both, and mount leaves
\* no intent pending (xlog_recover_process_efis, xlog_recover_do_efd_trans).
IntentsAreCarriedOut ==
  fs.mode \in {"up", "finish"} /\ open = {} =>
    /\ fs.efi \cap core["A"].v = {}
    /\ \A b \in Freeable : (b \in core["A"].v \cup fs.efi) <=> LastUse(b) \in {"free", "freed"}
=============================================================================
