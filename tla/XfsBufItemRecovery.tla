------------------------- MODULE XfsBufItemRecovery -------------------------
(***************************************************************************)
(* Whatever moment the filesystem stops at, recovery gives a metadata      *)
(* block the contents the transactions on disk say it has, and never gives *)
(* a freed block its old contents back (xfs_trans_binval,                  *)
(* xfs_buf_item_committed, xfs_buf_item_unpin, and the buffers replayed by *)
(* xlog_recover_do_buffer_trans).                                          *)
(*                                                                         *)
(* BlockIsRecoverable speaks of the log on disk, the block in place and    *)
(* the tail only. The parts below say what has to be true of the rest for  *)
(* it to stay so: which records are still to be put in the AIL (LogOK),    *)
(* that what is not in place is in the log from the AIL's item or such a   *)
(* record on, that a record leaves out only what was in place when it was  *)
(* made, and so does the item (CoverOK), that the images of new inodes     *)
(* stay where they were logged first (AllocOK), that the buffer has what   *)
(* log and transactions say (CoreOK), and that nobody has a freed block    *)
(* until it is allocated again (UseOK). BufCorrect of XfsBufItemProofs     *)
(* goes with them.                                                         *)
(*                                                                         *)
(* After a shutdown none of this holds: transactions let go of the item    *)
(* unwritten. Then the log and the tail no longer change, and DownOK is    *)
(* all that is needed: what is before the tail is in place, and a write    *)
(* still in flight has what the log has.                                   *)
(***************************************************************************)
EXTENDS XfsBufItemProofs, WellFoundedInduction

\* l is the last record of L up to n that has part p, with no cancellation after it
IsLast(L, n, p, l) ==
  /\ l \in 1 .. n /\ p \in L[l].parts /\ ~L[l].cancel
  /\ \A m \in l + 1 .. n : p \notin L[m].parts /\ ~L[m].cancel
\* no record of L up to n has part p, and none is a cancellation
Silent(L, n, p) == \A m \in 1 .. n : p \notin L[m].parts /\ ~L[m].cancel

\* what d has for p is what the records of L up to n say
Agrees(L, n, d, p) ==
  /\ \A l \in 1 .. n : IsLast(L, n, p, l) => d[p] = L[l].val[p]
  /\ Silent(L, n, p) => d[p] = 0

\* committed, and not yet in the AIL
Pending(t) == tx[t].pc \in {"logged", "committed"}
\* t has logged changes that are in core only
Changes(t) == tx[t].pc = "in" /\ tx[t].dirty
Changing == \E t \in Txs : Changes(t)
\* t wants the buffer, or keeps it
Active(t) == tx[t].pc \in {"wait", "in"} \/ tx[t].held
\* t has the buffer, with contents
Uses(t) == tx[t].held \/ (tx[t].pc = "in" /\ (tx[t].dirty \/ ~tx[t].alloc))
\* t has allocated the block, and not logged it
Fresh(t) == tx[t].alloc /\ (tx[t].pc = "wait" \/ (tx[t].pc = "in" /\ ~tx[t].dirty))
NotInUse == use.state \in {"free", "user"}

\* records and transactions
LogOK ==
  /\ synced \in 0 .. Len(log)
  /\ \A l \in synced + 1 .. Len(log) : \E t \in Txs : tx[t].lsn = l /\ Pending(t)
  /\ \A t, u \in Txs : tx[t].lsn # 0 /\ tx[t].lsn = tx[u].lsn => t = u
  /\ bli.lsn <= Len(log) /\ \A t \in Txs : Pending(t) => bli.lsn < tx[t].lsn
  /\ \A t \in Txs : tx[t].lsn # 0 => (log[tx[t].lsn].cancel <=> tx[t].stale)
  /\ \A t \in Txs : Staler(t) /\ tx[t].pc # "in" => tx[t].lsn = Len(log)
  /\ \A m \in 1 .. Len(log) : log[m].cancel => log[m].parts = {}

\* the AIL, or a transaction on its way to it, holds the tail for what is not in place
TailOK == \A p \in Parts, l \in 1 .. synced : IsLast(log, synced, p, l) =>
  \/ disk[p] = log[l].val[p]
  \/ bli.lsn # 0 /\ bli.lsn <= l
  \/ \E t \in Txs : Pending(t) /\ tx[t].lsn <= l
\* what a record leaves out was in place when it was made
LeftOutOK == \A t \in Txs, p \in Parts, l \in 1 .. Len(log) :
  Pending(t) /\ p \notin log[tx[t].lsn].parts /\ IsLast(log, tx[t].lsn, p, l)
             /\ (\A m \in tx[t].lsn + 1 .. synced : ~log[m].cancel)
  => disk[p] = log[l].val[p] \/ "INODE_ALLOC" \in bli.flags
\* what the item has not got is in place
ItemOK == \A p \in Parts, l \in 1 .. Len(log) :
  IsLast(log, Len(log), p, l) /\ p \notin Logged(bli) /\ "STALE" \notin bli.flags
  => disk[p] = log[l].val[p] \/ "INODE_ALLOC" \in bli.flags
CoverOK == TailOK /\ LeftOutOK /\ ItemOK

\* images of new inodes are in the first record after the allocation
ImageOK ==
  "INODE_ALLOC" \in bli.flags /\ bli.lsn = 0 =>
    \/ \E t \in Txs : /\ Changes(t) /\ ~tx[t].stale /\ tx[t].alloc /\ Logged(bli) = Parts
                      /\ \A u \in Txs : ~Pending(u)
    \/ \E t \in Txs : /\ Pending(t) /\ log[tx[t].lsn].parts = Parts
                      /\ \A u \in Txs : Pending(u) => tx[t].lsn <= tx[u].lsn
FormatOK ==
  /\ "INODE_BUF" \in bli.fmt => kind = "inode"
  /\ kind = "inode" /\ "image" \in bli.map => "INODE_ALLOC" \in bli.flags
  /\ \A t \in Txs : Changes(t) /\ ~tx[t].stale /\ kind = "inode" =>
       IF tx[t].alloc THEN "INODE_ALLOC" \in bli.flags /\ "INODE_BUF" \notin bli.fmt ELSE "INODE_BUF" \in bli.fmt
\* nobody else gets at a block that has just been allocated
FreshOK == \A t \in Txs :
  /\ tx[t].pc = "idle" => ~tx[t].alloc
  /\ Fresh(t) =>
       /\ use.state = "meta" /\ (\A u \in Txs \ {t} : ~Active(u)) /\ ~buf.delwri /\ io = "none"
       /\ \/ "STALE" \in bli.flags
          \/ /\ bli.map = {} /\ bli.flags \subseteq {"HOLD"} /\ bli.fmt = {} /\ bli.lsn = 0
             /\ \A u \in Txs \ {t} : ~Live(u)
AllocOK == ImageOK /\ FormatOK /\ FreshOK

\* the buffer has what the records and the running transaction say
CoreOK ==
  /\ ~buf.done => bli.lsn = 0 /\ \A t \in Txs : ~Pending(t)
  /\ buf.delwri \/ io # "none" \/ (\E t \in Txs : Uses(t)) => buf.done
  /\ buf.done => \A p \in Parts :
       ~Changing \/ (p \notin Logged(bli) /\ "STALE" \notin bli.flags) => Agrees(log, Len(log), core, p)

\* a block that has been freed
Use == [state : {"meta", "freeing", "free", "user"}, lsn : Nat]
UseOK ==
  /\ use \in Use
  /\ NotInUse =>
       /\ use.lsn = Len(log) /\ (use.lsn = 0 \/ log[use.lsn].cancel)
       /\ \A t \in Txs : ~Active(t)
       /\ "STALE" \in bli.flags \/ (bli = NoItem /\ ~buf.ino)
       /\ ~buf.delwri /\ io = "none"
  /\ use.state = "user" => synced = Len(log) /\ \A p \in Parts : disk[p] = User
  /\ \A t \in Txs : tx[t].stale /\ tx[t].pc = "in" => use.state = "freeing" /\ \A u \in Txs : tx[u].pc # "wait"
  /\ use.state = "freeing" => \E t \in Txs : tx[t].stale /\ tx[t].pc = "in"
  /\ \A p \in Parts : Silent(log, synced, p) /\ use.state # "user" => disk[p] = 0

Recoverable == LogOK /\ CoverOK /\ AllocOK /\ CoreOK /\ UseOK

\* once the filesystem is down
Holds(d) == \A p \in Parts :
  /\ \A l \in 1 .. synced : IsLast(log, synced, p, l) => l >= shut \/ d[p] = log[l].val[p]
  /\ Silent(log, synced, p) /\ use.state # "user" => d[p] = 0
DownOK ==
  /\ buf \in Buffer /\ bli \in Item /\ tx \in [Txs -> Tx]
  /\ synced \in Nat /\ synced <= Len(log) /\ shut > 0 /\ Holds(disk)
  /\ io # "unpin" /\ use \in Use
  /\ NotInUse =>
       /\ io # "flight" /\ "HOLD" \notin bli.flags /\ \A t \in Txs : ~Active(t)
       /\ synced >= use.lsn => \A p \in Parts : \A l \in 1 .. synced : ~IsLast(log, synced, p, l)
  /\ use.state = "user" => \A p \in Parts : disk[p] = User
  /\ io = "flight" => /\ Holds(core) /\ buf.lock = "io" /\ push # "locked"
                      /\ \A t \in Txs : ~Live(t) /\ ~tx[t].held
----------------------------------------------------------------------------
\* Steps that change neither the data nor what is known of it.
TxCalmAt(t) ==
  /\ tx'[t].lsn = tx[t].lsn /\ tx'[t].stale = tx[t].stale /\ tx'[t].alloc = tx[t].alloc
  /\ (Pending(t)' <=> Pending(t)) /\ (Changes(t)' <=> Changes(t)) /\ (Fresh(t)' => Fresh(t))
  /\ tx'[t].pc \in {"idle", "wait"} => tx'[t].pc = tx[t].pc
  /\ tx'[t].pc = "in" /\ tx[t].stale => tx[t].pc = "in"
  /\ tx[t].pc = "in" /\ tx[t].stale => tx'[t].pc = "in"
  /\ Staler(t)' /\ tx'[t].pc # "in" => Staler(t) /\ tx[t].pc # "in"
  /\ Live(t)' => Live(t) \/ \E u \in Txs : tx[u].held
  /\ Active(t)' => Active(t) \/ (\E u \in Txs : tx[u].held) \/ "LOGGED" \in bli.flags
  /\ Uses(t)' => \E u \in Txs : Uses(u) \/ Pending(u)
TxCalm == \A t \in Txs : TxCalmAt(t)
ItemCalm ==
  /\ bli'.lsn = bli.lsn /\ Logged(bli') = Logged(bli) /\ ("STALE" \in bli'.flags <=> "STALE" \in bli.flags)
  /\ ("INODE_ALLOC" \in bli'.flags <=> "INODE_ALLOC" \in bli.flags) /\ bli'.flags \subseteq bli.flags \cup {"HOLD"}
  /\ (bli'.map = bli.map /\ bli'.fmt = bli.fmt) \/ bli' = NoItem
  /\ bli = NoItem => bli' = NoItem \/ \E t \in Txs : tx[t].held
BufCalm ==
  /\ buf'.done => buf.done \/ io = "flight"
  /\ ~buf'.done => ~buf.done \/ (bli' = NoItem /\ buf'.lock = "free" /\ ~buf'.delwri /\ \A t \in Txs : ~Pending(t))
  /\ buf'.delwri \/ io' # "none" => buf.delwri \/ io # "none"
  /\ buf'.ino => buf.ino
CalmDid == TxCalm /\ ItemCalm /\ BufCalm /\ UNCHANGED <<kind, core, disk, log, synced, use>>

LEMMA RecoverTyped ==
  ASSUME BufCorrect
  PROVE  /\ buf \in Buffer /\ bli \in Item /\ tx \in [Txs -> Tx] /\ log \in Seq(Record) /\ Len(log) \in Nat
         /\ core \in [Parts -> Value] /\ disk \in [Parts -> Value]
         /\ TxOK /\ LockOK /\ FlagsOK /\ StaleOK /\ CountOK /\ OrderOK /\ QueueOK
         /\ \A t \in Txs : tx[t] \in Tx /\ tx[t].lsn \in Nat
BY DEF BufCorrect, TypeOK, Rest, Tx

\* a block that is not in use, or has just been allocated, is left alone
LEMMA NobodyHolds ==
  ASSUME BufCorrect, Recoverable
  PROVE  /\ NotInUse => (\A t \in Txs : ~tx[t].held) /\ "LOGGED" \notin bli.flags
         /\ \A t \in Txs : Fresh(t) => (\A u \in Txs : ~tx[u].held) /\ "LOGGED" \notin bli.flags
<1>1. TxOK /\ StaleOK /\ FlagsOK /\ FreshOK /\ UseOK
  BY RecoverTyped DEF Recoverable, AllocOK
<1>2. "LOGGED" \in bli.flags => "STALE" \notin bli.flags
  BY <1>1 DEF StaleOK, FlagsOK
<1>3. NotInUse => (\A t \in Txs : ~tx[t].held) /\ "LOGGED" \notin bli.flags
  BY <1>1, <1>2 DEF UseOK, Active, NoItem
<1>4. ASSUME NEW t \in Txs, Fresh(t) PROVE (\A u \in Txs : ~tx[u].held) /\ "LOGGED" \notin bli.flags
  BY <1>1, <1>2, <1>4 DEF FreshOK, Fresh, Active, TxOK
<1> QED BY <1>3, <1>4

LEMMA OneCalm == ASSUME NEW t \in Txs, Only(t), TxCalmAt(t) PROVE TxCalm
<1>1. ASSUME NEW u \in Txs \ {t} PROVE TxCalmAt(u)
  <2>1. tx'[u] = tx[u]
    BY DEF Only
  <2> QED BY <2>1 DEF TxCalmAt, Pending, Changes, Fresh, Staler, Live, Active, Uses
<1> QED BY <1>1 DEF TxCalm

LEMMA CalmKeeps ==
  ASSUME BufCorrect, BufCorrect', Recoverable, CalmDid
  PROVE  Recoverable'
<1>0. /\ LogOK /\ TailOK /\ LeftOutOK /\ ItemOK /\ ImageOK /\ FormatOK /\ FreshOK /\ CoreOK /\ UseOK
      /\ TxCalm /\ ItemCalm /\ BufCalm /\ UNCHANGED <<kind, core, disk, log, synced, use>>
  BY DEF Recoverable, CoverOK, AllocOK, CalmDid
<1>1. /\ bli \in Item /\ tx \in [Txs -> Tx] /\ TxOK /\ LockOK /\ FlagsOK /\ StaleOK
      /\ \A t \in Txs : tx[t] \in Tx /\ tx[t].lsn \in Nat
  BY RecoverTyped
<1>2. TxOK' /\ LockOK' /\ FlagsOK' /\ CountOK'
  BY DEF BufCorrect, Rest
<1>3. LogOK'
  BY <1>0 DEF LogOK, TxCalm, TxCalmAt, ItemCalm
<1>4. TailOK'
  BY <1>0 DEF TailOK, TxCalm, TxCalmAt, ItemCalm
<1>5. LeftOutOK'
  BY <1>0 DEF LeftOutOK, TxCalm, TxCalmAt, ItemCalm
<1>6. ItemOK'
  BY <1>0 DEF ItemOK, TxCalm, TxCalmAt, ItemCalm
<1>7. ImageOK'
  BY <1>0 DEF ImageOK, TxCalm, TxCalmAt, ItemCalm
<1>8. FormatOK'
  <2>1. ASSUME NEW t \in Txs, Changes(t)', ~tx'[t].stale PROVE bli' # NoItem
    BY <1>2, <2>1 DEF Changes, FlagsOK, NoItem
  <2> QED BY <1>0, <2>1 DEF FormatOK, TxCalm, TxCalmAt, ItemCalm, NoItem
<1>9. FreshOK'
  BY <1>0, NobodyHolds DEF FreshOK, TxCalm, TxCalmAt, ItemCalm, BufCalm, NoItem
<1>10. CoreOK'
  <2>1. ~buf'.done => bli'.lsn = 0 /\ \A t \in Txs : ~Pending(t)'
    BY <1>0 DEF CoreOK, TxCalm, TxCalmAt, ItemCalm, BufCalm, NoItem
  <2>2. buf'.delwri \/ io' # "none" \/ (\E t \in Txs : Uses(t)') => buf'.done
    <3>1. CASE buf.done
      <4>1. SUFFICES ASSUME ~buf'.done PROVE ~buf'.delwri /\ io' = "none" /\ \A t \in Txs : ~Uses(t)'
        OBVIOUS
      <4>2. ~buf'.delwri /\ buf'.lock = "free"
        BY <1>0, <3>1, <4>1 DEF BufCalm
      <4> QED BY <1>2, <4>2 DEF LockOK, Owner, Uses
    <3>2. CASE ~buf.done
      BY <1>0, <3>2 DEF CoreOK, TxCalm, TxCalmAt, BufCalm
    <3> QED BY <3>1, <3>2
  <2>3. buf'.done => buf.done
    BY <1>0 DEF CoreOK, BufCalm
  <2>4. Changing' => Changing
    BY <1>0 DEF Changing, TxCalm, TxCalmAt
  <2>5. Changing => Changing'
    BY <1>0 DEF Changing, TxCalm, TxCalmAt
  <2> QED BY <1>0, <2>1, <2>2, <2>3, <2>4, <2>5 DEF CoreOK, ItemCalm
<1>11. UseOK'
  BY <1>0, NobodyHolds DEF UseOK, NotInUse, TxCalm, TxCalmAt, ItemCalm, BufCalm, NoItem
<1> QED BY <1>3, <1>4, <1>5, <1>6, <1>7, <1>8, <1>9, <1>10, <1>11 DEF Recoverable, CoverOK, AllocOK
----------------------------------------------------------------------------
\* What the functions on a buffer do to its log item, whatever holds there are.
LEMMA RawRele == ASSUME NEW s \in Both PROVE BufRele(s) \in Both /\ BufRele(s).bli = s.bli
<1>1. s.buf \in Buffer /\ s.bli \in Item /\ s.buf.hold - 1 \in Int
  BY DEF Both, Buffer
<1>2. NoBuf \in Buffer
  BY DEF NoBuf, Buffer
<1>3. [s EXCEPT !.buf = NoBuf] \in Both /\ [s EXCEPT !.buf = NoBuf].bli = s.bli
  BY <1>1, <1>2 DEF Both
<1>4. [s EXCEPT !.buf.hold = @ - 1] \in Both /\ [s EXCEPT !.buf.hold = @ - 1].bli = s.bli
  <2>1. [s.buf EXCEPT !.hold = s.buf.hold - 1] \in Buffer
    BY <1>1 DEF Buffer
  <2>2. [s EXCEPT !.buf.hold = @ - 1] = [s EXCEPT !.buf = [s.buf EXCEPT !.hold = s.buf.hold - 1]]
    BY <1>1 DEF Both
  <2> QED BY <1>1, <2>1, <2>2 DEF Both
<1> QED BY <1>3, <1>4 DEF BufRele

LEMMA RawUnlock == ASSUME NEW s \in Both PROVE BufUnlock(s) \in Both /\ BufUnlock(s).bli = s.bli
<1>1. s.buf \in Buffer /\ s.bli \in Item /\ s.buf.hold + 1 \in Int
  BY DEF Both, Buffer
<1> DEFINE a == [s.buf EXCEPT !.lock = "free", !.queued = TRUE, !.hold = s.buf.hold + 1]
           b == [s.buf EXCEPT !.lock = "free"]
<1>2. a \in Buffer /\ b \in Buffer
  BY <1>1 DEF Buffer
<1>3. /\ [s EXCEPT !.buf.lock = "free", !.buf.queued = TRUE, !.buf.hold = @ + 1] = [s EXCEPT !.buf = a]
      /\ [s EXCEPT !.buf.lock = "free"] = [s EXCEPT !.buf = b]
  BY <1>1 DEF Both, Buffer
<1> HIDE DEF a, b
<1>4. [s EXCEPT !.buf = a] \in Both /\ [s EXCEPT !.buf = a].bli = s.bli
  BY <1>1, <1>2 DEF Both
<1>5. [s EXCEPT !.buf = b] \in Both /\ [s EXCEPT !.buf = b].bli = s.bli
  BY <1>1, <1>2 DEF Both
<1> QED BY <1>3, <1>4, <1>5 DEF BufUnlock

LEMMA RawRelse == ASSUME NEW s \in Both PROVE BufRelse(s) \in Both /\ BufRelse(s).bli = s.bli
BY RawRele, RawUnlock DEF BufRelse

LEMMA RawDequeue == ASSUME NEW s \in Both PROVE DelwriDequeue(s) \in Both /\ DelwriDequeue(s).bli = s.bli
<1> DEFINE b == [s.buf EXCEPT !.delwri = FALSE, !.queued = FALSE]
           d == [s EXCEPT !.buf = b]
<1>1. s.buf \in Buffer /\ s.bli \in Item
  BY DEF Both
<1>2. b \in Buffer
  BY <1>1 DEF Buffer
<1>3. [s EXCEPT !.buf.delwri = FALSE, !.buf.queued = FALSE] = d
  BY <1>1 DEF Both, Buffer
<1> HIDE DEF b
<1>4. d \in Both /\ d.bli = s.bli
  BY <1>1, <1>2 DEF Both
<1> HIDE DEF d
<1> QED BY <1>3, <1>4, RawRele DEF DelwriDequeue

LEMMA RawItemRelse == ASSUME NEW s \in Both PROVE ItemRelse(s) \in Both /\ ItemRelse(s).bli = NoItem
<1> DEFINE b == [s.buf EXCEPT !.iodone = s.buf.iodone /\ s.buf.ino]
           d == [s EXCEPT !.bli = NoItem, !.buf = b]
<1>1. s.buf \in Buffer /\ s.bli \in Item /\ NoItem \in Item
  BY DEF Both, NoItem, Item
<1>2. b \in Buffer
  <2>1. PICK x : x = (s.buf.iodone /\ s.buf.ino)
    OBVIOUS
  <2>2. x \in BOOLEAN
    BY <1>1, <2>1 DEF Buffer
  <2>3. b = [s.buf EXCEPT !.iodone = x]
    BY <2>1
  <2> QED BY <1>1, <2>2, <2>3 DEF Buffer
<1>3. [s EXCEPT !.bli = NoItem, !.buf.iodone = @ /\ s.buf.ino] = d
  BY <1>1 DEF Both, Buffer
<1> HIDE DEF b
<1>4. d \in Both /\ d.bli = NoItem
  BY <1>1, <1>2 DEF Both
<1> HIDE DEF d
<1> QED BY <1>3, <1>4, RawRele DEF ItemRelse

LEMMA RawCallbacks ==
  ASSUME NEW s \in Both
  PROVE  DoCallbacks(s) \in Both /\ DoCallbacks(s).bli \in {NoItem, s.bli}
<1> DEFINE b == [s.buf EXCEPT !.ino = FALSE, !.iodone = FALSE]
           t == [s EXCEPT !.buf = b]
<1>1. s.buf \in Buffer /\ s.bli \in Item /\ NoItem \in Item
  BY DEF Both, NoItem, Item
<1>2. b \in Buffer
  BY <1>1 DEF Buffer
<1>3. [s EXCEPT !.buf.ino = FALSE, !.buf.iodone = FALSE] = t
  BY <1>1 DEF Both, Buffer
<1> HIDE DEF b
<1>4. t \in Both /\ t.bli = s.bli /\ [t EXCEPT !.bli = NoItem] \in Both /\ [t EXCEPT !.bli = NoItem].bli = NoItem
  BY <1>1, <1>2 DEF Both
<1> HIDE DEF t
<1> QED BY <1>3, <1>4, RawRele DEF DoCallbacks
----------------------------------------------------------------------------
\* Which steps those are.
LEMMA SameTx == ASSUME UNCHANGED <<tx, bli>> PROVE TxCalm
BY DEF TxCalm, TxCalmAt, Pending, Changes, Fresh, Staler, Live, Active, Uses
LEMMA SameItem == ASSUME UNCHANGED bli PROVE ItemCalm
BY DEF ItemCalm

\* xfsaild and xfsbufd on their way to the lock, and a write on its way to the disk
LEMMA IoCalm ==
  ASSUME BufCorrect, ~Down, PushCheck \/ BufdCheck \/ Strategy \/ Submit
  PROVE  CalmDid
<1>1. UNCHANGED <<kind, buf, bli, tx, core, disk, log, synced, use>> /\ (io' # "none" => io # "none")
  BY DEF PushCheck, BufdCheck, Strategy, Submit
<1> QED BY <1>1, SameTx, SameItem DEF CalmDid, BufCalm

LEMMA PushLockCalm == ASSUME BufCorrect, PushLock PROVE CalmDid
<1>1. UNCHANGED <<kind, bli, tx, core, disk, log, synced, use, io>>
  BY DEF PushLock
<1>2. buf \in Buffer
  BY RecoverTyped
<1>3. buf'.done = buf.done /\ buf'.delwri = buf.delwri /\ buf'.ino = buf.ino
  BY <1>2 DEF PushLock, Buffer
<1> QED BY <1>1, <1>3, SameTx, SameItem DEF CalmDid, BufCalm

LEMMA PushCalm == ASSUME BufCorrect, Push PROVE CalmDid
<1>1. PushDid
  BY PushDoes
<1>2. UNCHANGED <<kind, bli, tx, core, disk, log, synced, use>>
  BY <1>1 DEF Push, PushDid
<1>3. buf \in Buffer /\ LockOK /\ FlagsOK /\ StaleOK /\ QueueOK /\ CountOK
  BY RecoverTyped
<1>4. buf.lock = "push" /\ bli.lsn # 0
  BY <1>1, <1>3 DEF PushDid, LockOK
<1>5. "STALE" \notin bli.flags
  BY <1>4, NobodyOwns
<1>6. buf.delwri
  BY <1>3, <1>4, <1>5 DEF CountOK, FlagsOK, QueueOK
<1>7. buf'.done = buf.done /\ buf'.ino = buf.ino
  BY <1>1, <1>3 DEF PushDid, Buffer
<1> QED BY <1>2, <1>6, <1>7, SameTx, SameItem DEF CalmDid, BufCalm

LEMMA BufdLockCalm == ASSUME BufCorrect, BufdLock PROVE CalmDid
<1>1. UNCHANGED <<kind, bli, tx, core, disk, log, synced, use>>
  BY DEF BufdLock
<1>2. buf \in Buffer /\ QueueOK
  BY RecoverTyped
<1>3. buf'.done = buf.done /\ buf'.ino = buf.ino /\ (buf'.delwri => buf.delwri) /\ (io' # "none" => io # "none" \/ buf.queued)
  BY <1>2 DEF BufdLock, Buffer
<1> QED BY <1>1, <1>2, <1>3, SameTx, SameItem DEF CalmDid, BufCalm, QueueOK

LEMMA RelsedDone ==
  ASSUME NEW b \in Buffer, buf' \in Buffer, Relsed(b)
  PROVE  /\ buf'.lock = "free" /\ buf'.delwri = b.delwri /\ (buf'.ino => b.ino)
         /\ buf'.done = b.done \/ (~buf'.done /\ ~bli'.there /\ ~buf'.delwri)
<1>1. buf'.lock = "free" /\ buf'.delwri = b.delwri /\ (buf'.ino => b.ino)
  BY RelsedFields
<1>2. CASE buf' = [b EXCEPT !.lock = "free", !.queued = b.delwri, !.hold = buf'.hold]
  <2>1. buf'.done = b.done
    BY <1>2 DEF Buffer
  <2> QED BY <1>1, <2>1
<1>3. CASE buf' = NoBuf /\ ~bli'.there /\ ~b.delwri
  <2>1. ~buf'.done /\ ~buf'.delwri
    BY <1>3 DEF NoBuf
  <2> QED BY <1>1, <1>3, <2>1
<1> QED BY <1>2, <1>3 DEF Relsed

LEMMA WriteErrorCalm == ASSUME BufCorrect, Recoverable, ~Down, WriteError PROVE CalmDid
<1>1. buf \in Buffer /\ S \in Both /\ S.bli = bli
  BY Typed
<1>2. bli' = bli
  <2> DEFINE e == [S EXCEPT !.buf.delwri = TRUE, !.buf.done = TRUE]
  <2>1. e \in Both /\ e.bli = bli
    <3>1. [buf EXCEPT !.delwri = TRUE, !.done = TRUE] \in Buffer
      BY <1>1 DEF Buffer
    <3>2. e = [S EXCEPT !.buf = [buf EXCEPT !.delwri = TRUE, !.done = TRUE]]
      BY DEF S
    <3> QED BY <1>1, <3>1, <3>2 DEF Both
  <2> HIDE DEF e
  <2>2. Install(BufRelse(e)) \/ Install(BufRelse(S))
    BY DEF WriteError, e
  <2> QED BY <1>1, <2>1, <2>2, RawRelse DEF Install
<1>3. WriteDid
  BY WriteDoes
<1>4. UNCHANGED <<kind, tx, core, disk, log, synced, use>> /\ io = "flight" /\ io' = "none"
  BY <1>3 DEF WriteError, WriteDid
<1>5. buf' \in Buffer
  BY <1>3, KeptTyped DEF WriteDid
<1>6. PICK b \in Buffer : Relsed(b) /\ (b.ino => buf.ino) /\ (buf.done => b.done)
  <2> DEFINE d == [buf EXCEPT !.iodone = FALSE, !.ino = FALSE]
             e == [buf EXCEPT !.delwri = TRUE, !.done = TRUE]
  <2>1. d \in Buffer /\ (d.ino => buf.ino) /\ (buf.done => d.done)
    BY <1>1 DEF Buffer
  <2>2. e \in Buffer /\ (e.ino => buf.ino) /\ (buf.done => e.done)
    BY <1>1 DEF Buffer
  <2>3. Relsed(d) \/ Relsed(buf) \/ Relsed(e)
    BY <1>3 DEF WriteDid
  <2> HIDE DEF d, e
  <2> QED BY <1>1, <2>1, <2>2, <2>3
<1>7. /\ buf'.lock = "free" /\ (buf'.ino => buf.ino)
      /\ (buf.done => buf'.done) \/ (~buf'.done /\ ~bli'.there /\ ~buf'.delwri)
  BY <1>5, <1>6, RelsedDone
<1>8. ~bli.there => bli = NoItem /\ \A t \in Txs : ~Pending(t)
  BY RecoverTyped, NoItemNoPin DEF FlagsOK, Pending, RefPcs
<1>9. BufCalm
  BY <1>2, <1>4, <1>6, <1>7, <1>8 DEF BufCalm
<1> QED BY <1>2, <1>4, <1>9, SameTx, SameItem DEF CalmDid
----------------------------------------------------------------------------
\* a transaction marks the item, or lets go of it
LEMMA MarkCalm ==
  ASSUME BufCorrect, NEW t \in Txs, GetAgain(t) \/ Bhold(t) \/ BholdRelease(t) \/ (Brelse(t) /\ UNCHANGED tx)
  PROVE  CalmDid
<1>1. MarkDid(t)
  BY MarkDoes
<1>2. UNCHANGED <<kind, buf, tx, core, disk, log, synced, use, io>>
  BY <1>1 DEF MarkDid, Quiet, GetAgain, Bhold, BholdRelease, Brelse
<1>3. bli \in Item /\ bli' \in Item
  BY <1>1, RecoverTyped, KeptTyped DEF MarkDid
<1>4. bli'.lsn = bli.lsn /\ bli'.map = bli.map /\ bli'.fmt = bli.fmt /\ bli'.there = bli.there
  BY <1>1, <1>3 DEF MarkDid, Item
<1>5. bli'.flags \ {"HOLD"} = bli.flags \ {"HOLD"}
  BY <1>1 DEF MarkDid
<1>6. bli.there
  BY <1>1, HasItem DEF MarkDid, RefPcs
<1>7. ItemCalm
  BY <1>4, <1>5, <1>6 DEF ItemCalm, Logged, NoItem
<1>8. TxCalm
  BY <1>2 DEF TxCalm, TxCalmAt, Pending, Changes, Fresh, Staler, Live, Active, Uses
<1> QED BY <1>2, <1>7, <1>8 DEF CalmDid, BufCalm

LEMMA DropCalm ==
  ASSUME BufCorrect, Recoverable, NEW t \in Txs, (Brelse(t) /\ ~UNCHANGED tx) \/ Clean(t)
  PROVE  CalmDid
<1>1. DropDid(t)
  BY BrelseDoes, CleanDoes
<1>2. UNCHANGED <<kind, core, disk, log, synced, use, io>> /\ ~tx[t].alloc
  BY <1>1 DEF DropDid, Quiet, Brelse, Clean
<1>3. /\ buf \in Buffer /\ bli \in Item /\ tx \in [Txs -> Tx] /\ tx[t] \in Tx /\ buf' \in Buffer /\ bli' \in Item
      /\ TxOK /\ FlagsOK /\ ImageOK
  BY <1>1, RecoverTyped, KeptTyped DEF DropDid, Recoverable, AllocOK
<1>4. /\ tx[t].pc = "in" /\ tx'[t].pc = "done" /\ ~tx[t].dirty /\ tx'[t].lsn = tx[t].lsn /\ tx'[t].stale = tx[t].stale
      /\ tx'[t].alloc = tx[t].alloc /\ tx'[t].dirty = tx[t].dirty
  BY <1>1, <1>3 DEF DropDid, Tx
<1>5. TxCalm
  <2>1. ~tx[t].stale
    BY <1>3, <1>4 DEF TxOK
  <2>2. TxCalmAt(t)
    BY <1>2, <1>4, <2>1 DEF TxCalmAt, Pending, Changes, Fresh, Staler, Live, Active, Uses
  <2> QED BY <1>1, <2>2, OneCalm DEF DropDid
<1>6. bli.there /\ "STALE" \notin bli.flags
  BY <1>1, <1>4, HasItem DEF DropDid, RefPcs
<1>7. ASSUME bli.map = {} PROVE bli.lsn = 0 /\ (\A u \in Txs : ~Pending(u)) /\ "INODE_ALLOC" \notin bli.flags
  <2>1. bli.lsn = 0 /\ \A u \in Txs : ~Pending(u)
    BY <1>3, <1>6, <1>7 DEF FlagsOK, Pending, RefPcs
  <2>2. \A u \in Txs : ~Changes(u)
    BY <1>4, InOwns DEF Changes
  <2> QED BY <1>3, <2>1, <2>2 DEF ImageOK
<1>8. bli' = NoItem => bli.map = {}
  <2>1. SUFFICES ASSUME bli.map # {} PROVE bli'.there
    BY DEF NoItem
  <2>2. bli' = [bli EXCEPT !.flags = @ \ {"HOLD"}, !.ref = @ - 1]
    BY <1>1, <2>1 DEF DropDid
  <2> QED BY <1>3, <1>6, <2>2 DEF Item
<1>9. ItemCalm
  <2>1. CASE bli.map = {} /\ bli' = NoItem
    BY <1>6, <1>7, <2>1 DEF ItemCalm, Logged, NoItem
  <2>2. CASE bli' = [bli EXCEPT !.flags = @ \ {"HOLD"}, !.ref = @ - 1]
    <3>1. bli'.lsn = bli.lsn /\ bli'.map = bli.map /\ bli'.fmt = bli.fmt /\ bli'.flags = bli.flags \ {"HOLD"}
      BY <1>3, <2>2 DEF Item
    <3> QED BY <1>6, <3>1 DEF ItemCalm, Logged, NoItem
  <2> QED BY <1>1, <2>1, <2>2 DEF DropDid
<1>10. BufCalm
  <2> DEFINE b == [buf EXCEPT !.iodone = buf.iodone /\ buf.ino]
  <2>1. b \in Buffer /\ b.ino = buf.ino /\ b.done = buf.done /\ b.delwri = buf.delwri
    <3>1. PICK x : x = (buf.iodone /\ buf.ino)
      OBVIOUS
    <3>2. x \in BOOLEAN /\ b = [buf EXCEPT !.iodone = x]
      BY <1>3, <3>1 DEF Buffer
    <3> QED BY <1>3, <3>2 DEF Buffer
  <2>2. \/ Relsed(b) /\ bli' = NoItem
        \/ buf' = [b EXCEPT !.hold = buf'.hold]
        \/ Relsed(buf) /\ bli' # NoItem /\ bli'.there
        \/ UNCHANGED buf
    <3>1. CASE bli.map = {} /\ bli' = NoItem
      <4>1. Relsed(b) \/ buf' = [buf EXCEPT !.iodone = buf.iodone /\ buf.ino, !.hold = buf'.hold]
        BY <1>1, <1>3, <3>1 DEF DropDid
      <4>2. [buf EXCEPT !.iodone = buf.iodone /\ buf.ino, !.hold = buf'.hold] = [b EXCEPT !.hold = buf'.hold]
        BY <1>3 DEF Buffer
      <4> QED BY <3>1, <4>1, <4>2
    <3>2. CASE bli.map # {} /\ bli' = [bli EXCEPT !.flags = @ \ {"HOLD"}, !.ref = @ - 1]
      <4>1. Relsed(buf) \/ UNCHANGED buf
        BY <1>1, <3>2 DEF DropDid
      <4>2. bli'.there
        BY <1>3, <1>6, <3>2 DEF Item
      <4> QED BY <4>1, <4>2 DEF NoItem
    <3> QED BY <1>1, <3>1, <3>2 DEF DropDid
  <2> HIDE DEF b
  <2>3. CASE Relsed(b) /\ bli' = NoItem
    BY <1>2, <1>3, <1>7, <1>8, <2>1, <2>3, RelsedDone DEF BufCalm
  <2>4. CASE buf' = [b EXCEPT !.hold = buf'.hold]
    <3>1. buf'.done = buf.done /\ buf'.delwri = buf.delwri /\ buf'.ino = buf.ino
      BY <2>1, <2>4 DEF Buffer
    <3> QED BY <1>2, <3>1 DEF BufCalm
  <2>5. CASE Relsed(buf) /\ bli'.there
    BY <1>2, <1>3, <2>5, RelsedDone DEF BufCalm
  <2>6. CASE UNCHANGED buf
    BY <1>2, <2>6 DEF BufCalm
  <2> QED BY <2>2, <2>3, <2>4, <2>5, <2>6
<1> QED BY <1>2, <1>5, <1>9, <1>10 DEF CalmDid

LEMMA BjoinCalm == ASSUME BufCorrect, Recoverable, NEW t \in Txs, Bjoin(t) PROVE CalmDid
<1>1. PICK u \in Txs : BjoinDid(t, u)
  BY BjoinDoes
<1>2. UNCHANGED <<kind, core, disk, log, synced, use, io>>
  BY DEF Bjoin
<1>3. /\ buf \in Buffer /\ bli \in Item /\ tx \in [Txs -> Tx] /\ tx[t] \in Tx /\ tx[u] \in Tx
      /\ TxOK /\ FlagsOK /\ FreshOK
  BY RecoverTyped DEF Recoverable, AllocOK
<1>4. /\ tx[u].held /\ tx[t].pc = "idle" /\ u # t /\ \A w \in Txs \ {t, u} : tx'[w] = tx[w]
  BY <1>1 DEF BjoinDid
<1>5. /\ tx'[t].pc = "in" /\ tx'[t].dirty = tx[t].dirty /\ tx'[t].lsn = tx[t].lsn /\ tx'[t].stale = tx[t].stale
      /\ tx'[t].alloc = tx[t].alloc /\ tx'[t].held = tx[t].held
  BY <1>1, <1>3 DEF BjoinDid, Tx
<1>6. /\ tx'[u].pc = tx[u].pc /\ tx'[u].dirty = tx[u].dirty /\ tx'[u].lsn = tx[u].lsn /\ tx'[u].stale = tx[u].stale
      /\ tx'[u].alloc = tx[u].alloc /\ ~tx'[u].held
  BY <1>1, <1>3 DEF BjoinDid, Tx
<1>7. TxCalm
  <2>0. ~tx[t].alloc
    BY <1>3, <1>4 DEF FreshOK
  <2>1. TxCalmAt(t)
    BY <1>3, <1>4, <1>5, <2>0 DEF TxOK, TxCalmAt, Pending, Changes, Fresh, Staler, Live, Active, Uses
  <2>2. TxCalmAt(u)
    BY <1>6 DEF TxCalmAt, Pending, Changes, Fresh, Staler, Live, Active, Uses
  <2>3. ASSUME NEW w \in Txs \ {t, u} PROVE TxCalmAt(w)
    <3>1. tx'[w] = tx[w]
      BY <1>4
    <3> QED BY <3>1 DEF TxCalmAt, Pending, Changes, Fresh, Staler, Live, Active, Uses
  <2> QED BY <2>1, <2>2, <2>3 DEF TxCalm
<1>8. /\ bli'.lsn = bli.lsn /\ bli'.map = bli.map /\ bli'.fmt = bli.fmt /\ bli'.flags = bli.flags
  BY <1>1, <1>3 DEF BjoinDid, Joins, Item
<1>9. ItemCalm
  BY <1>4, <1>8 DEF ItemCalm, Logged
<1>10. buf'.done = buf.done /\ buf'.delwri = buf.delwri /\ buf'.ino = buf.ino
  BY <1>1, <1>3 DEF BjoinDid, Buffer
<1> QED BY <1>2, <1>7, <1>9, <1>10 DEF CalmDid, BufCalm

LEMMA RelseCalm == ASSUME BufCorrect, NEW u \in Txs, Relse(u) PROVE CalmDid
<1>1. RelseDid(u)
  BY RelseTxDoes
<1>2. UNCHANGED <<kind, bli, core, disk, log, synced, use, io>>
  BY <1>1 DEF RelseDid, Relse
<1>3. buf \in Buffer /\ buf' \in Buffer /\ tx[u] \in Tx /\ FlagsOK /\ TxOK
  BY <1>1, RecoverTyped, KeptTyped DEF RelseDid
<1>4. /\ tx'[u].pc = tx[u].pc /\ tx'[u].dirty = tx[u].dirty /\ tx'[u].lsn = tx[u].lsn /\ tx'[u].stale = tx[u].stale
      /\ tx'[u].alloc = tx[u].alloc /\ ~tx'[u].held
  BY <1>1, <1>3 DEF RelseDid, Tx
<1>5. TxCalmAt(u)
  BY <1>4 DEF TxCalmAt, Pending, Changes, Fresh, Staler, Live, Active, Uses
<1>6. TxCalm
  BY <1>1, <1>5, OneCalm DEF RelseDid
<1>7. ~bli.there => bli = NoItem /\ \A t \in Txs : ~Pending(t)
  BY <1>3, NoItemNoPin DEF FlagsOK, Pending, RefPcs
<1>8. BufCalm
  BY <1>1, <1>2, <1>3, <1>7, RelsedDone DEF RelseDid, BufCalm
<1> QED BY <1>2, <1>6, <1>8, SameItem DEF CalmDid

LEMMA UnlockItemsCalm == ASSUME BufCorrect, NEW t \in Txs, UnlockItems(t) PROVE CalmDid
<1>1. UnlockItemsDid(t)
  BY UnlockItemsDoes
<1>2. UNCHANGED <<kind, core, disk, log, synced, use, io>>
  BY DEF UnlockItems
<1>3. buf \in Buffer /\ bli \in Item /\ buf' \in Buffer /\ tx[t] \in Tx /\ TxOK /\ FlagsOK
  BY <1>1, RecoverTyped, KeptTyped DEF UnlockItemsDid
<1>4. /\ tx[t].pc = "logged" /\ tx'[t].pc = "committed" /\ tx'[t].dirty = tx[t].dirty /\ tx'[t].lsn = tx[t].lsn
      /\ tx'[t].stale = tx[t].stale /\ tx'[t].alloc = tx[t].alloc
  BY <1>1, <1>3 DEF UnlockItemsDid, Tx
<1>5. bli.there
  BY <1>4, HasItem DEF RefPcs
<1>6. TxCalm
  <2>1. tx'[t].held => "LOGGED" \in bli.flags
    BY <1>1 DEF UnlockItemsDid
  <2>2. TxCalmAt(t)
    BY <1>4, <2>1 DEF TxCalmAt, Pending, Changes, Fresh, Staler, Live, Active, Uses
  <2> QED BY <1>1, <2>2, OneCalm DEF UnlockItemsDid
<1>7. CASE UNCHANGED <<buf, bli>>
  BY <1>2, <1>6, <1>7, SameItem DEF CalmDid, BufCalm
<1>8. CASE bli' = [bli EXCEPT !.flags = @ \ {"LOGGED", "HOLD"}] /\ (UNCHANGED buf \/ Relsed(buf))
  <2>1. /\ bli'.lsn = bli.lsn /\ bli'.map = bli.map /\ bli'.fmt = bli.fmt /\ bli'.there
        /\ bli'.flags = bli.flags \ {"LOGGED", "HOLD"}
    BY <1>3, <1>5, <1>8 DEF Item
  <2>2. ItemCalm
    BY <1>5, <2>1 DEF ItemCalm, Logged, NoItem
  <2>3. BufCalm
    BY <1>2, <1>3, <1>8, <2>1, RelsedDone DEF BufCalm
  <2> QED BY <1>2, <1>6, <2>2, <2>3 DEF CalmDid
<1> QED BY <1>1, <1>7, <1>8 DEF UnlockItemsDid

LEMMA CbDropCalm == ASSUME BufCorrect, NEW t \in Txs, CbDrop(t) PROVE CalmDid
<1>1. CbDropDid(t)
  BY CbDropDoes
<1>2. UNCHANGED <<kind, buf, core, disk, log, synced, use, io>>
  BY DEF CbDrop
<1>3. buf \in Buffer /\ bli \in Item /\ tx[t] \in Tx
  BY RecoverTyped
<1>4. /\ tx[t].pc = "ail" /\ tx'[t].pc = "drop" /\ tx'[t].dirty = tx[t].dirty /\ tx'[t].lsn = tx[t].lsn
      /\ tx'[t].stale = tx[t].stale /\ tx'[t].alloc = tx[t].alloc /\ tx'[t].held = tx[t].held
  BY <1>1, <1>3 DEF CbDropDid, Tx
<1>5. TxCalmAt(t)
  BY <1>4 DEF TxCalmAt, Pending, Changes, Fresh, Staler, Live, Active, Uses
<1>6. TxCalm
  BY <1>1, <1>5, OneCalm DEF CbDropDid
<1>7. /\ bli'.lsn = bli.lsn /\ bli'.map = bli.map /\ bli'.fmt = bli.fmt /\ bli'.flags = bli.flags
  BY <1>1, <1>3 DEF CbDropDid, Item
<1>8. bli # NoItem
  BY <1>4, HasItem DEF RefPcs, NoItem
<1>9. ItemCalm
  BY <1>7, <1>8 DEF ItemCalm, Logged
<1> QED BY <1>2, <1>6, <1>9 DEF CalmDid, BufCalm

LEMMA CbUnpinCalm == ASSUME BufCorrect, NEW t \in Txs, CbUnpin(t), ~tx[t].stale PROVE CalmDid
<1>1. CbUnpinDid(t)
  BY CbUnpinDoes
<1>2. UNCHANGED <<kind, bli, core, disk, log, synced, use, io>> /\ buf' = [buf EXCEPT !.pin = @ - 1]
  BY <1>1 DEF CbUnpinDid, CbUnpin
<1>3. buf \in Buffer /\ tx[t] \in Tx
  BY RecoverTyped
<1>4. /\ tx[t].pc = "drop" /\ tx'[t].pc = "done" /\ tx'[t].dirty = tx[t].dirty /\ tx'[t].lsn = tx[t].lsn
      /\ tx'[t].stale = tx[t].stale /\ tx'[t].alloc = tx[t].alloc /\ tx'[t].held = tx[t].held
  BY <1>1, <1>3 DEF CbUnpinDid, Tx
<1>5. TxCalmAt(t)
  BY <1>4 DEF TxCalmAt, Pending, Changes, Fresh, Staler, Live, Active, Uses
<1>6. TxCalm
  BY <1>1, <1>5, OneCalm DEF CbUnpinDid
<1>7. buf'.done = buf.done /\ buf'.delwri = buf.delwri /\ buf'.ino = buf.ino
  BY <1>2, <1>3 DEF Buffer
<1> QED BY <1>2, <1>6, <1>7, SameItem DEF CalmDid, BufCalm
----------------------------------------------------------------------------
\* The other steps of a live filesystem.
LEMMA RecoverableParts ==
  ASSUME BufCorrect, Recoverable
  PROVE  /\ LogOK /\ TailOK /\ LeftOutOK /\ ItemOK /\ ImageOK /\ FormatOK /\ FreshOK /\ CoreOK /\ UseOK
         /\ buf \in Buffer /\ bli \in Item /\ tx \in [Txs -> Tx] /\ log \in Seq(Record) /\ Len(log) \in Nat
         /\ TxOK /\ LockOK /\ FlagsOK /\ StaleOK /\ synced \in Nat /\ synced <= Len(log) /\ bli.lsn \in Nat
         /\ \A t \in Txs : tx[t] \in Tx /\ tx[t].lsn \in Nat
BY RecoverTyped DEF Recoverable, CoverOK, AllocOK, LogOK, Item

\* a block that has been allocated is visible to nobody else
LEMMA FindRecovers == ASSUME BufCorrect, Recoverable, NEW t \in Txs, Find(t) PROVE Recoverable'
<1>0. /\ LogOK /\ TailOK /\ LeftOutOK /\ ItemOK /\ ImageOK /\ FormatOK /\ FreshOK /\ CoreOK /\ UseOK
      /\ buf \in Buffer /\ bli \in Item /\ tx \in [Txs -> Tx] /\ tx[t] \in Tx /\ TxOK
  BY RecoverableParts
<1>1. FindDid(t)
  BY FindDoes
<1>2. /\ UNCHANGED <<kind, bli, core, disk, log, synced, io>> /\ tx'[t].alloc = FreeToUse /\ (Visible \/ FreeToUse)
  BY <1>0 DEF Find
<1>3. use' \in Use /\ use'.state = "meta"
  BY <1>0 DEF Find, UseOK, Use
<1>4. /\ tx[t].pc = "idle" /\ tx'[t].pc = "wait" /\ tx'[t].lsn = tx[t].lsn /\ tx'[t].stale = tx[t].stale
      /\ tx'[t].dirty = tx[t].dirty /\ tx'[t].held = tx[t].held
  BY <1>0, <1>1 DEF FindDid, Tx
<1>5. buf'.done = buf.done /\ buf'.delwri = buf.delwri /\ buf'.ino = buf.ino
  BY <1>0, <1>1 DEF FindDid, Buffer
<1>6. \A u \in Txs \ {t} : tx'[u] = tx[u]
  BY <1>1 DEF FindDid, Only
<1>7. \A u \in Txs : /\ tx'[u].lsn = tx[u].lsn /\ tx'[u].stale = tx[u].stale /\ (Pending(u)' <=> Pending(u))
                     /\ (Changes(u)' <=> Changes(u)) /\ (Staler(u)' <=> Staler(u)) /\ (Uses(u)' <=> Uses(u))
                     /\ (tx'[u].pc = "in" <=> tx[u].pc = "in") /\ (tx'[u].pc = "idle" => tx[u].pc = "idle")
                     /\ (u # t => tx'[u].alloc = tx[u].alloc)
  BY <1>4, <1>6 DEF Pending, Changes, Staler, Live, Uses
<1>8. LogOK' /\ TailOK' /\ LeftOutOK' /\ ItemOK'
  BY <1>0, <1>2, <1>7 DEF LogOK, TailOK, LeftOutOK, ItemOK
<1>9. ImageOK' /\ FormatOK'
  BY <1>0, <1>2, <1>4, <1>6, <1>7 DEF ImageOK, FormatOK, Changes
<1>10. FreshOK'
  <2>1. ASSUME NEW u \in Txs \ {t} PROVE ~Fresh(u)'
    BY <1>0, <1>2, <1>6, <2>1 DEF Visible, FreeToUse, FreshOK, Fresh
  <2>2. ASSUME Fresh(t)'
        PROVE  /\ \A u \in Txs \ {t} : ~Active(u)'
               /\ ~buf'.delwri /\ io' = "none"
               /\ \/ "STALE" \in bli'.flags
                  \/ /\ bli'.map = {} /\ bli'.flags \subseteq {"HOLD"} /\ bli'.fmt = {} /\ bli'.lsn = 0
                     /\ \A u \in Txs \ {t} : ~Live(u)'
    <3>1. use.state = "free"
      BY <1>2, <2>2 DEF Fresh, FreeToUse
    <3>2. /\ \A u \in Txs : ~Active(u)
          /\ "STALE" \in bli.flags \/ bli = NoItem
          /\ ~buf.delwri /\ io = "none"
      BY <1>0, <3>1 DEF UseOK, NotInUse
    <3>3. bli = NoItem => \A u \in Txs : ~Live(u)
      BY NoItemNoPin DEF Live, RefPcs, PinPcs, NoItem
    <3>4. \A u \in Txs \ {t} : ~Active(u)' /\ (bli = NoItem => ~Live(u)')
      BY <1>6, <3>2, <3>3 DEF Active, Live
    <3> QED BY <1>2, <1>5, <3>2, <3>4 DEF NoItem
  <2>3. \A u \in Txs : tx'[u].pc = "idle" => ~tx'[u].alloc
    BY <1>0, <1>4, <1>6 DEF FreshOK
  <2> QED BY <1>3, <2>1, <2>2, <2>3 DEF FreshOK
<1>11. CoreOK'
  BY <1>0, <1>2, <1>5, <1>7 DEF CoreOK, Changing
<1>12. UseOK'
  <2>1. use.state \in {"meta", "free"}
    BY <1>2 DEF Visible, FreeToUse
  <2>2. ASSUME NEW u \in Txs, tx[u].stale, tx[u].pc = "in" PROVE FALSE
    BY <1>0, <2>1, <2>2 DEF UseOK
  <2> QED BY <1>0, <1>2, <1>3, <1>7, <2>1, <2>2 DEF UseOK, NotInUse
<1> QED BY <1>8, <1>9, <1>10, <1>11, <1>12 DEF Recoverable, CoverOK, AllocOK

\* what reaches the disk is in the AIL or on its way to it
LEMMA SyncRecovers == ASSUME BufCorrect, Recoverable, SyncLog PROVE Recoverable'
<1>0. /\ LogOK /\ TailOK /\ LeftOutOK /\ ItemOK /\ ImageOK /\ FormatOK /\ FreshOK /\ CoreOK /\ UseOK
      /\ Len(log) \in Nat /\ synced \in Nat /\ synced <= Len(log) /\ \A t \in Txs : tx[t].lsn \in Nat
  BY RecoverableParts
<1>1. UNCHANGED <<kind, buf, bli, tx, core, disk, log, use, io>>
  BY DEF SyncLog
<1>2. PICK n \in synced + 1 .. Len(log) : synced' = n
  BY DEF SyncLog
<1>3. LogOK'
  BY <1>0, <1>1, <1>2 DEF LogOK, Pending, Staler, Live
<1>4. TailOK'
  <2> SUFFICES ASSUME NEW p \in Parts, NEW l \in 1 .. n, IsLast(log, n, p, l)
               PROVE  \/ disk[p] = log[l].val[p]
                      \/ bli.lsn # 0 /\ bli.lsn <= l
                      \/ \E t \in Txs : Pending(t) /\ tx[t].lsn <= l
    BY <1>1, <1>2 DEF TailOK, Pending
  <2>1. CASE l <= synced
    <3>1. IsLast(log, synced, p, l)
      BY <1>0, <1>2, <2>1 DEF IsLast
    <3> QED BY <1>0, <2>1, <3>1 DEF TailOK
  <2>2. CASE l > synced
    <3>1. l \in synced + 1 .. Len(log)
      BY <1>0, <1>2, <2>2
    <3> QED BY <1>0, <3>1 DEF LogOK
  <2> QED BY <1>0, <2>1, <2>2
<1>5. LeftOutOK'
  <2>1. ASSUME NEW i, \A m \in i + 1 .. n : ~log[m].cancel PROVE \A m \in i + 1 .. synced : ~log[m].cancel
    BY <1>0, <1>2, <2>1
  <2> QED BY <1>0, <1>1, <1>2, <2>1 DEF LeftOutOK, Pending
<1>6. ItemOK' /\ ImageOK' /\ FormatOK' /\ FreshOK'
  BY <1>0, <1>1 DEF ItemOK, ImageOK, FormatOK, FreshOK, Pending, Changes, Fresh, Live, Active
<1>7. CoreOK'
  BY <1>0, <1>1 DEF CoreOK, Changing, Changes, Pending, Uses
<1>8. UseOK'
  <2>1. \A p \in Parts : Silent(log, n, p) => Silent(log, synced, p)
    BY <1>0, <1>2 DEF Silent
  <2>2. use.state # "user"
    BY <1>0, <1>2 DEF UseOK
  <2> QED BY <1>0, <1>1, <1>2, <2>1, <2>2 DEF UseOK, NotInUse, Active
<1> QED BY <1>3, <1>4, <1>5, <1>6, <1>7, <1>8 DEF Recoverable, CoverOK, AllocOK

\* a block that has been freed belongs to another owner when its cancellation is on disk
LEMMA NoneIsLast ==
  ASSUME BufCorrect, Recoverable, NotInUse
  PROVE  /\ \A p \in Parts, l \in 1 .. Len(log) : ~IsLast(log, Len(log), p, l)
         /\ \A t \in Txs, p \in Parts, l \in 1 .. Len(log) :
              IsLast(log, tx[t].lsn, p, l) => \E m \in tx[t].lsn + 1 .. Len(log) : log[m].cancel
<1>0. UseOK /\ TxOK /\ Len(log) \in Nat /\ \A t \in Txs : tx[t].lsn \in Nat
  BY RecoverableParts
<1>1. use.lsn = Len(log) /\ (Len(log) = 0 \/ log[Len(log)].cancel)
  BY <1>0 DEF UseOK
<1>2. ASSUME NEW p \in Parts, NEW l \in 1 .. Len(log) PROVE ~IsLast(log, Len(log), p, l)
  BY <1>0, <1>1 DEF IsLast
<1>3. ASSUME NEW t \in Txs, NEW p \in Parts, NEW l \in 1 .. Len(log), IsLast(log, tx[t].lsn, p, l)
      PROVE  \E m \in tx[t].lsn + 1 .. Len(log) : log[m].cancel
  <2>1. tx[t].lsn <= Len(log)
    BY <1>0 DEF TxOK
  <2>2. tx[t].lsn # Len(log)
    BY <1>2, <1>3
  <2> QED BY <1>0, <1>1, <2>1, <2>2
<1> QED BY <1>2, <1>3

LEMMA UserRecovers == ASSUME BufCorrect, Recoverable, UserWrite PROVE Recoverable'
<1>0. /\ LogOK /\ TailOK /\ LeftOutOK /\ ItemOK /\ ImageOK /\ FormatOK /\ FreshOK /\ CoreOK /\ UseOK
      /\ Len(log) \in Nat /\ synced \in Nat /\ synced <= Len(log) /\ \A t \in Txs : tx[t].lsn \in Nat
  BY RecoverableParts
<1>1. UNCHANGED <<kind, buf, bli, tx, core, log, synced, io>> /\ disk' = [p \in Parts |-> User] /\ use.state = "free"
  BY DEF UserWrite, FreeToUse
<1>2. use' \in Use /\ use'.state = "user" /\ use'.lsn = use.lsn
  BY <1>0 DEF UserWrite, UseOK, Use
<1>3. synced = Len(log)
  BY <1>0, <1>1 DEF UserWrite, FreeToUse, UseOK, NotInUse
<1>4. /\ \A p \in Parts, l \in 1 .. Len(log) : ~IsLast(log, Len(log), p, l)
      /\ \A t \in Txs, p \in Parts, l \in 1 .. Len(log) :
           IsLast(log, tx[t].lsn, p, l) => \E m \in tx[t].lsn + 1 .. Len(log) : log[m].cancel
  BY <1>1, NoneIsLast DEF NotInUse
<1>5. LogOK' /\ ImageOK' /\ FormatOK'
  BY <1>0, <1>1 DEF LogOK, ImageOK, FormatOK, Pending, Staler, Live, Changes
<1>6. TailOK'
  BY <1>1, <1>3, <1>4 DEF TailOK
<1>7. LeftOutOK'
  BY <1>1, <1>3, <1>4 DEF LeftOutOK
<1>8. ItemOK'
  BY <1>1, <1>4 DEF ItemOK
<1>9. FreshOK'
  <2>1. \A t \in Txs : ~Fresh(t)
    BY <1>0, <1>1 DEF FreshOK
  <2> QED BY <1>0, <1>1, <2>1 DEF FreshOK, Fresh
<1>10. CoreOK'
  BY <1>0, <1>1 DEF CoreOK, Changing, Changes, Pending, Uses
<1>11. UseOK'
  BY <1>0, <1>1, <1>2, <1>3 DEF UseOK, NotInUse, Active
<1> QED BY <1>5, <1>6, <1>7, <1>8, <1>9, <1>10, <1>11 DEF Recoverable, CoverOK, AllocOK

----------------------------------------------------------------------------
\* a buffer nobody has locked is as the records say, read from the disk or not
LEMMA NoneIsPending ==
  ASSUME BufCorrect, Recoverable, bli.lsn = 0, \A t \in Txs : ~Pending(t)
  PROVE  synced = Len(log) /\ \A p \in Parts : use.state # "user" => Agrees(log, Len(log), disk, p)
<1>0. LogOK /\ TailOK /\ UseOK /\ Len(log) \in Nat /\ synced \in Nat /\ synced <= Len(log)
  BY RecoverableParts
<1>1. synced = Len(log)
  <2>1. SUFFICES ASSUME synced < Len(log) PROVE FALSE
    BY <1>0
  <2>2. Len(log) \in synced + 1 .. Len(log)
    BY <1>0, <2>1
  <2> QED BY <1>0, <2>2 DEF LogOK
<1>2. \A p \in Parts, l \in 1 .. Len(log) : IsLast(log, Len(log), p, l) => disk[p] = log[l].val[p]
  BY <1>0, <1>1 DEF TailOK
<1>3. \A p \in Parts : Silent(log, Len(log), p) /\ use.state # "user" => disk[p] = 0
  BY <1>0, <1>1 DEF UseOK
<1> QED BY <1>1, <1>2, <1>3 DEF Agrees

LEMMA ReadIsCurrent ==
  ASSUME BufCorrect, Recoverable, buf.lock = "free", use.state # "user"
  PROVE  \A p \in Parts : Agrees(log, Len(log), IF buf.stale \/ ~buf.done THEN disk ELSE core, p)
<1>0. CoreOK /\ FlagsOK /\ StaleOK
  BY RecoverableParts
<1>1. ~Changing /\ "STALE" \notin bli.flags
  BY NobodyOwns DEF Changing, Changes
<1>2. CASE buf.done /\ ~buf.stale
  BY <1>0, <1>1, <1>2 DEF CoreOK
<1>3. CASE ~buf.done
  <2>1. bli.lsn = 0 /\ \A t \in Txs : ~Pending(t)
    BY <1>0, <1>3 DEF CoreOK
  <2> QED BY <1>3, <2>1, NoneIsPending
<1>4. CASE buf.stale
  <2>1. ~bli.there
    BY <1>0, <1>1, <1>4 DEF StaleOK
  <2>2. bli.lsn = 0 /\ \A t \in Txs : ~Pending(t)
    BY <1>0, <2>1, NoItemNoPin DEF FlagsOK, NoItem, Pending, RefPcs
  <2> QED BY <1>4, <2>2, NoneIsPending
<1> QED BY <1>2, <1>3, <1>4

\* xfs_trans_get_buf and xfs_trans_read_buf
LEMMA GetBufRecovers == ASSUME BufCorrect, Recoverable, ~Down, NEW t \in Txs, GetBuf(t) PROVE Recoverable'
<1>0. /\ LogOK /\ TailOK /\ LeftOutOK /\ ItemOK /\ ImageOK /\ FormatOK /\ FreshOK /\ CoreOK /\ UseOK
      /\ buf \in Buffer /\ bli \in Item /\ tx \in [Txs -> Tx] /\ tx[t] \in Tx /\ TxOK /\ FlagsOK /\ StaleOK
  BY RecoverableParts
<1>1. GetBufDid(t)
  BY GetBufDoes
<1>2. UNCHANGED <<kind, disk, log, synced, use, io>>
  BY DEF GetBuf
<1>3. /\ tx[t].pc = "wait" /\ tx'[t].pc = "in" /\ tx'[t].lsn = tx[t].lsn /\ tx'[t].stale = tx[t].stale
      /\ tx'[t].dirty = tx[t].dirty /\ tx'[t].held = tx[t].held /\ tx'[t].alloc = tx[t].alloc /\ buf.lock = "free"
  BY <1>0, <1>1 DEF GetBufDid, Tx
<1>4. /\ buf' \in Buffer /\ buf'.delwri = buf.delwri /\ buf'.ino = buf.ino
  <2>1. buf' \in Buffer
    BY <1>1, KeptTyped DEF GetBufDid
  <2> QED BY <1>0, <1>1, <2>1 DEF GetBufDid, Buffer
<1>5. /\ bli'.lsn = bli.lsn /\ bli'.map = bli.map /\ bli'.fmt = bli.fmt /\ bli'.flags = bli.flags
  BY <1>0, <1>1 DEF GetBufDid, Joins, Item
<1>6. \A u \in Txs \ {t} : tx'[u] = tx[u]
  BY <1>1 DEF GetBufDid, Only
<1>7. /\ \A u \in Txs : tx[u].pc \notin {"in", "logged"} /\ ~tx[u].held /\ ~Staler(u)
      /\ {"STALE", "LOGGED"} \cap bli.flags = {}
  BY <1>3, NobodyOwns
<1>8. ~tx[t].stale /\ ~tx[t].dirty
  BY <1>0, <1>3 DEF TxOK
<1>9. \A u \in Txs : /\ tx'[u].lsn = tx[u].lsn /\ tx'[u].stale = tx[u].stale /\ (Pending(u)' <=> Pending(u))
                     /\ ~Changes(u)' /\ ~Changes(u) /\ ~Staler(u)'
                     /\ tx'[u].alloc = tx[u].alloc /\ (Fresh(u)' => Fresh(u)) /\ (Active(u)' => Active(u))
                     /\ (tx'[u].pc \in {"idle", "wait"} => tx'[u].pc = tx[u].pc)
                     /\ ~(tx'[u].stale /\ tx'[u].pc = "in") /\ (u # t => (Live(u)' <=> Live(u)))
  BY <1>3, <1>6, <1>7, <1>8 DEF Pending, Changes, Staler, Live, Fresh, Active
<1>10. LogOK' /\ TailOK' /\ LeftOutOK'
  BY <1>0, <1>2, <1>5, <1>9 DEF LogOK, TailOK, LeftOutOK
<1>11. Logged(bli') = Logged(bli)
  BY <1>5 DEF Logged
<1>12. ItemOK' /\ ImageOK' /\ FormatOK'
  BY <1>0, <1>2, <1>5, <1>9, <1>11 DEF ItemOK, ImageOK, FormatOK
<1>13. FreshOK'
  <2>1. \A u \in Txs \ {t} : ~Fresh(u)
    BY <1>0, <1>3 DEF FreshOK, Active
  <2> QED BY <1>0, <1>2, <1>4, <1>5, <1>9, <2>1 DEF FreshOK
<1>14. UseOK'
  <2>1. ~NotInUse
    BY <1>0, <1>3 DEF UseOK, Active
  <2> QED BY <1>0, <1>2, <1>7, <1>9, <2>1 DEF UseOK, NotInUse
<1>15. ~Changing'
  BY <1>9 DEF Changing
<1>16. CASE tx[t].alloc
  <2>1. core' = core /\ (buf'.done => buf.done)
    <3>1. core' = core /\ buf' = (Joined(BufFound([S EXCEPT !.buf.lock = "tx"]))).buf
      BY <1>16 DEF GetBuf, Install
    <3> QED BY <1>0, <1>3, <3>1 DEF Joined, BufFound, S, Buffer
  <2>2. Fresh(t)
    BY <1>3, <1>16 DEF Fresh
  <2>3. ~buf.delwri /\ io = "none" /\ bli.lsn = 0 /\ \A u \in Txs \ {t} : ~Live(u)
    BY <1>0, <1>7, <2>2 DEF FreshOK
  <2>4. \A u \in Txs : ~Pending(u)' /\ ~Uses(u)'
    <3>1. ~Pending(t)' /\ ~Uses(t)'
      BY <1>3, <1>7, <1>8, <1>16 DEF Pending, Uses
    <3>2. \A u \in Txs \ {t} : ~Pending(u)' /\ ~Uses(u)'
      BY <1>6, <1>7, <2>3 DEF Pending, Uses, Live
    <3> QED BY <3>1, <3>2
  <2>5. \A p \in Parts : buf.done => Agrees(log, Len(log), core, p)
    BY <1>0, <1>9 DEF CoreOK, Changing
  <2>6. CoreOK'
    BY <1>2, <1>4, <1>5, <2>1, <2>3, <2>4, <2>5 DEF CoreOK
  <2> QED BY <1>10, <1>12, <1>13, <1>14, <2>6 DEF Recoverable, CoverOK, AllocOK
<1>17. CASE ~tx[t].alloc
  <2>1. core' = (IF buf.stale \/ ~buf.done THEN disk ELSE core) /\ buf'.done
    <3> DEFINE s == BufFound([S EXCEPT !.buf.lock = "tx"])
    <3>1. core' = CoreRead(s) /\ buf' = (Joined(BufRead(s))).buf
      BY <1>17 DEF GetBuf, Install
    <3>2. s.buf.done = (IF buf.stale THEN FALSE ELSE buf.done)
      BY <1>0 DEF BufFound, S, Buffer
    <3>3. (Joined(BufRead(s))).buf.done
      BY <1>0 DEF Joined, BufRead, BufFound, S, Buffer
    <3> HIDE DEF s
    <3> QED BY <3>1, <3>2, <3>3 DEF CoreRead
  <2>2. use.state # "user"
    BY <1>0, <1>3 DEF UseOK, NotInUse, Active
  <2>3. \A p \in Parts : Agrees(log, Len(log), core', p)
    BY <1>3, <2>1, <2>2, ReadIsCurrent
  <2>4. CoreOK'
    BY <1>2, <2>1, <2>3 DEF CoreOK
  <2> QED BY <1>10, <1>12, <1>13, <1>14, <2>4 DEF Recoverable, CoverOK, AllocOK
<1> QED BY <1>16, <1>17

\* xfs_iflush
LEMMA FlushRecovers == ASSUME BufCorrect, Recoverable, InodeFlush PROVE Recoverable'
<1>0. /\ LogOK /\ TailOK /\ LeftOutOK /\ ItemOK /\ ImageOK /\ FormatOK /\ FreshOK /\ CoreOK /\ UseOK
      /\ buf \in Buffer /\ bli \in Item
  BY RecoverableParts
<1>1. InodeFlushDid
  BY InodeFlushDoes
<1>2. UNCHANGED <<kind, bli, tx, disk, log, synced, use, io>> /\ Visible
  BY <1>1 DEF InodeFlush, InodeFlushDid
<1>3. buf.lock = "free" /\ buf'.done /\ use.state = "meta"
  BY <1>0, <1>1, <1>2 DEF InodeFlushDid, Buffer, Visible
<1>4. core' = (IF buf.stale \/ ~buf.done THEN disk ELSE core)
  <2> DEFINE g == BufFound([S EXCEPT !.buf.lock = "tx", !.buf.hold = @ + 1])
  <2>1. core' = CoreRead(g)
    BY DEF InodeFlush
  <2>2. g.buf.done = (IF buf.stale THEN FALSE ELSE buf.done)
    BY <1>0 DEF BufFound, S, Buffer
  <2> HIDE DEF g
  <2> QED BY <2>1, <2>2 DEF CoreRead
<1>5. \A p \in Parts : Agrees(log, Len(log), core', p)
  BY <1>3, <1>4, ReadIsCurrent
<1>6. LogOK' /\ TailOK' /\ LeftOutOK' /\ ItemOK'
  BY <1>0, <1>2 DEF LogOK, TailOK, LeftOutOK, ItemOK, Pending, Staler, Live
<1>7. ImageOK' /\ FormatOK'
  BY <1>0, <1>2 DEF ImageOK, FormatOK, Pending, Changes
<1>8. FreshOK'
  <2>1. \A t \in Txs : ~Fresh(t)
    BY <1>2 DEF Fresh, Visible
  <2> QED BY <1>0, <1>2, <2>1 DEF FreshOK, Fresh
<1>9. CoreOK'
  BY <1>2, <1>3, <1>5 DEF CoreOK
<1>10. UseOK'
  BY <1>0, <1>2, <1>3 DEF UseOK, NotInUse
<1> QED BY <1>6, <1>7, <1>8, <1>9, <1>10 DEF Recoverable, CoverOK, AllocOK

----------------------------------------------------------------------------
\* what the item will log of the parts r that have just been logged
LEMMA LogBufLogs ==
  ASSUME BufCorrect, Recoverable, NEW t \in Txs, LogBuf(t)
  PROVE  \E r \in SUBSET Parts :
           /\ core' = [p \in Parts |-> IF p \in r THEN t ELSE core[p]]
           /\ bli'.map = bli.map \cup r /\ bli'.lsn = bli.lsn
           /\ bli'.flags = (bli.flags \ {"STALE"}) \cup {"LOGGED", "DIRTY"}
                             \cup (IF kind = "inode" /\ r = Parts THEN {"INODE_ALLOC"} ELSE {})
           /\ bli'.fmt = (bli.fmt \ {"CANCEL"}) \cup (IF kind = "inode" /\ r # Parts THEN {"INODE_BUF"} ELSE {})
           /\ "STALE" \in bli.flags => kind = "other"
           /\ IF tx[t].alloc \/ "STALE" \in bli.flags THEN r = Parts
              ELSE IF kind = "inode" THEN r = {"next"} ELSE r # Parts
<1>0. bli \in Item
  BY RecoverableParts
<1>1. PICK r \in Ranges(t) :
        /\ core' = [p \in Parts |-> IF p \in r THEN t ELSE core[p]]
        /\ bli' = [bli EXCEPT
             !.flags = (@ \ {"STALE"}) \cup {"LOGGED", "DIRTY"} \cup (IF kind = "inode" /\ r = Parts THEN {"INODE_ALLOC"} ELSE {}),
             !.fmt = (@ \ {"CANCEL"}) \cup (IF kind = "inode" /\ r # Parts THEN {"INODE_BUF"} ELSE {}),
             !.map = @ \cup r]
  BY DEF LogBuf
<1>2. r \in SUBSET Parts /\ IF tx[t].alloc \/ "STALE" \in bli.flags THEN r = Parts
                            ELSE IF kind = "inode" THEN r = {"next"} ELSE r # Parts
  BY <1>1 DEF Ranges, Parts
<1>3. /\ bli'.map = bli.map \cup r /\ bli'.lsn = bli.lsn
      /\ bli'.flags = (bli.flags \ {"STALE"}) \cup {"LOGGED", "DIRTY"}
                        \cup (IF kind = "inode" /\ r = Parts THEN {"INODE_ALLOC"} ELSE {})
      /\ bli'.fmt = (bli.fmt \ {"CANCEL"}) \cup (IF kind = "inode" /\ r # Parts THEN {"INODE_BUF"} ELSE {})
  BY <1>0, <1>1 DEF Item
<1> QED BY <1>1, <1>2, <1>3 DEF LogBuf

\* xfs_trans_log_buf
LEMMA LogBufRecovers == ASSUME BufCorrect, Recoverable, NEW t \in Txs, LogBuf(t) PROVE Recoverable'
<1>0. /\ LogOK /\ TailOK /\ LeftOutOK /\ ItemOK /\ ImageOK /\ FormatOK /\ FreshOK /\ CoreOK /\ UseOK
      /\ buf \in Buffer /\ bli \in Item /\ tx \in [Txs -> Tx] /\ tx[t] \in Tx /\ TxOK /\ StaleOK
  BY RecoverableParts
<1>1. LogBufDid(t)
  BY LogBufDoes
<1>2. PICK r \in SUBSET Parts :
           /\ core' = [p \in Parts |-> IF p \in r THEN t ELSE core[p]]
           /\ bli'.map = bli.map \cup r /\ bli'.lsn = bli.lsn
           /\ bli'.flags = (bli.flags \ {"STALE"}) \cup {"LOGGED", "DIRTY"}
                             \cup (IF kind = "inode" /\ r = Parts THEN {"INODE_ALLOC"} ELSE {})
           /\ bli'.fmt = (bli.fmt \ {"CANCEL"}) \cup (IF kind = "inode" /\ r # Parts THEN {"INODE_BUF"} ELSE {})
           /\ "STALE" \in bli.flags => kind = "other"
           /\ IF tx[t].alloc \/ "STALE" \in bli.flags THEN r = Parts
              ELSE IF kind = "inode" THEN r = {"next"} ELSE r # Parts
  BY LogBufLogs
<1>3. UNCHANGED <<kind, disk, log, synced, io>> /\ tx[t].pc = "in"
  BY DEF LogBuf
<1>4. /\ tx'[t].pc = "in" /\ tx'[t].dirty /\ ~tx'[t].stale /\ tx'[t].lsn = tx[t].lsn /\ tx'[t].held = tx[t].held
      /\ tx'[t].alloc = tx[t].alloc
  BY <1>0, <1>1, <1>3 DEF LogBufDid, Tx
<1>5. \A u \in Txs \ {t} : tx'[u] = tx[u]
  BY <1>1 DEF LogBufDid, Only
<1>6. buf'.done
  BY <1>0, <1>1 DEF LogBufDid, Buffer
<1>7. use' \in Use /\ use'.state = "meta"
  BY <1>0 DEF LogBuf, UseOK, Use
<1>8. /\ \A u \in Txs \ {t} : tx[u].pc \notin {"in", "logged"} /\ ~tx[u].held /\ ~Staler(u)
      /\ "STALE" \in bli.flags => Staler(t)
  BY <1>3, InOwns
<1>9. \A u \in Txs : /\ tx'[u].lsn = tx[u].lsn /\ (Pending(u)' <=> Pending(u)) /\ (Changes(u)' <=> u = t)
                     /\ (tx'[u].pc # "in" => (Staler(u)' <=> Staler(u)))
                     /\ tx'[u].alloc = tx[u].alloc /\ tx'[u].pc = tx[u].pc
                     /\ (tx'[u].stale <=> tx[u].stale /\ u # t)
  BY <1>3, <1>4, <1>5, <1>8 DEF Pending, Changes, Staler, Live
<1>10. LogOK'
  <2>1. tx[t].lsn = 0
    BY <1>0, <1>3 DEF TxOK
  <2> QED BY <1>0, <1>2, <1>3, <1>5, <1>9, <2>1 DEF LogOK
<1>11. TailOK' /\ LeftOutOK'
  BY <1>0, <1>2, <1>3, <1>9 DEF TailOK, LeftOutOK
<1>12. "STALE" \notin bli'.flags /\ bli.map \in SUBSET Parts
  BY <1>0, <1>2 DEF Item
<1>13. /\ "INODE_BUF" \in bli.fmt => kind = "inode"
       /\ kind = "inode" /\ "image" \in bli.map => "INODE_ALLOC" \in bli.flags
       /\ Changes(t) /\ ~tx[t].stale /\ kind = "inode" =>
            IF tx[t].alloc THEN "INODE_ALLOC" \in bli.flags /\ "INODE_BUF" \notin bli.fmt ELSE "INODE_BUF" \in bli.fmt
  BY <1>0 DEF FormatOK
<1>14. kind = "inode" /\ tx[t].stale => FALSE
  BY <1>0, <1>2, <1>3 DEF StaleOK, Staler, Live
<1>15. ASSUME tx[t].alloc, kind = "inode", ~tx[t].dirty
       PROVE  bli.map = {} /\ bli.flags \subseteq {"HOLD"} /\ bli.fmt = {} /\ \A u \in Txs : ~Pending(u)
  <2>1. Fresh(t) /\ "STALE" \notin bli.flags
    BY <1>2, <1>3, <1>15 DEF Fresh
  <2>2. bli.map = {} /\ bli.flags \subseteq {"HOLD"} /\ bli.fmt = {} /\ \A u \in Txs \ {t} : ~Live(u)
    BY <1>0, <2>1 DEF FreshOK
  <2> QED BY <1>3, <2>2 DEF Live, Pending
<1>16. r = Parts => Logged(bli') = Parts
  <2>1. SUFFICES ASSUME r = Parts PROVE "INODE_BUF" \notin bli'.fmt
    BY <1>2, <1>12 DEF Logged
  <2>2. CASE kind # "inode"
    BY <1>2, <1>13, <2>1, <2>2
  <2>3. CASE kind = "inode"
    <3>1. tx[t].alloc
      BY <1>2, <2>1, <2>3 DEF Parts
    <3> QED BY <1>2, <1>3, <1>13, <1>14, <1>15, <2>1, <2>3, <3>1 DEF Changes
  <2> QED BY <2>2, <2>3
<1>17. FormatOK'
  <2>1. "INODE_BUF" \in bli'.fmt => kind = "inode"
    BY <1>2, <1>13
  <2>2. kind = "inode" /\ "image" \in bli'.map => "INODE_ALLOC" \in bli'.flags
    BY <1>2, <1>13 DEF Parts
  <2>3. kind = "inode" => IF tx[t].alloc THEN "INODE_ALLOC" \in bli'.flags /\ "INODE_BUF" \notin bli'.fmt
                          ELSE "INODE_BUF" \in bli'.fmt
    <3>1. CASE tx[t].alloc /\ kind = "inode"
      <4>1. r = Parts /\ "INODE_BUF" \notin bli.fmt
        BY <1>2, <1>3, <1>13, <1>14, <1>15, <3>1 DEF Changes
      <4> QED BY <1>2, <3>1, <4>1
    <3>2. CASE ~tx[t].alloc /\ kind = "inode"
      BY <1>2, <3>2 DEF Parts
    <3> QED BY <3>1, <3>2
  <2> QED BY <1>3, <1>9, <2>1, <2>2, <2>3 DEF FormatOK
<1>18. ItemOK'
  <2> SUFFICES ASSUME NEW p \in Parts, NEW l \in 1 .. Len(log), IsLast(log, Len(log), p, l), p \notin Logged(bli')
               PROVE  disk[p] = log[l].val[p] \/ "INODE_ALLOC" \in bli'.flags
    BY <1>3 DEF ItemOK
  <2>1. r # Parts /\ "STALE" \notin bli.flags
    BY <1>2, <1>16
  <2>2. CASE kind # "inode"
    <3>1. p \notin Logged(bli)
      BY <1>2, <1>12, <1>13, <2>1, <2>2 DEF Logged
    <3>2. "INODE_ALLOC" \in bli.flags => "INODE_ALLOC" \in bli'.flags
      BY <1>2
    <3> QED BY <1>0, <2>1, <3>1, <3>2 DEF ItemOK
  <2>3. CASE kind = "inode"
    <3>1. r = {"next"} /\ "next" \in Logged(bli')
      BY <1>2, <1>12, <2>1, <2>3 DEF Logged, Parts
    <3>2. p = "image"
      BY <3>1 DEF Parts
    <3>3. p \notin Logged(bli) \/ "INODE_ALLOC" \in bli.flags
      BY <1>13, <2>1, <2>3, <3>2 DEF Logged
    <3>4. "INODE_ALLOC" \in bli.flags => "INODE_ALLOC" \in bli'.flags
      BY <1>2
    <3> QED BY <1>0, <2>1, <3>3, <3>4 DEF ItemOK
  <2> QED BY <2>2, <2>3
<1>19. ImageOK'
  <2> SUFFICES ASSUME "INODE_ALLOC" \in bli'.flags, bli'.lsn = 0
               PROVE  \/ tx[t].alloc /\ Logged(bli') = Parts /\ \A u \in Txs : ~Pending(u)
                      \/ \E u \in Txs : /\ Pending(u) /\ log[tx[u].lsn].parts = Parts
                                        /\ \A v \in Txs : Pending(v) => tx[u].lsn <= tx[v].lsn
    BY <1>3, <1>4, <1>9 DEF ImageOK
  <2>1. CASE "INODE_ALLOC" \in bli.flags
    <3>1. ASSUME NEW u \in Txs, Changes(u), tx[u].alloc PROVE tx[t].alloc /\ Logged(bli') = Parts
      BY <1>2, <1>8, <1>16, <3>1 DEF Changes
    <3> QED BY <1>0, <1>2, <2>1, <3>1 DEF ImageOK
  <2>2. CASE "INODE_ALLOC" \notin bli.flags
    <3>1. kind = "inode" /\ r = Parts
      BY <1>2, <2>2
    <3>2. tx[t].alloc
      BY <1>2, <3>1 DEF Parts
    <3>3. ~tx[t].dirty
      BY <1>3, <1>13, <1>14, <2>2, <3>1, <3>2 DEF Changes
    <3> QED BY <1>15, <1>16, <3>1, <3>2, <3>3
  <2> QED BY <2>1, <2>2
<1>20. FreshOK'
  <2>1. \A u \in Txs : ~Fresh(u)'
    BY <1>0, <1>3, <1>4, <1>5 DEF FreshOK, Fresh, Active
  <2> QED BY <1>0, <1>9, <2>1 DEF FreshOK
<1>21. CoreOK'
  <2>1. SUFFICES ASSUME NEW p \in Parts, p \notin Logged(bli') PROVE Agrees(log, Len(log), core', p)
    BY <1>3, <1>6, <1>9 DEF CoreOK, Changing
  <2>2. r # Parts /\ "STALE" \notin bli.flags /\ ~tx[t].alloc
    BY <1>2, <1>16, <2>1
  <2>3. buf.done
    BY <1>0, <1>3, <2>2 DEF CoreOK, Uses
  <2>4. p \notin r /\ (Changing => p \notin Logged(bli))
    <3>1. \A u \in Txs : Changes(u) => u = t
      BY <1>8 DEF Changes
    <3>2. CASE kind # "inode"
      BY <1>2, <1>12, <1>13, <2>1, <2>2, <3>2 DEF Logged
    <3>3. CASE kind = "inode"
      <4>1. r = {"next"} /\ p = "image"
        BY <1>2, <1>12, <2>1, <2>2, <3>3 DEF Logged, Parts
      <4>2. Changing => "INODE_BUF" \in bli.fmt
        BY <1>13, <1>14, <2>2, <3>1, <3>3 DEF Changing
      <4> QED BY <2>2, <4>1, <4>2 DEF Logged
    <3> QED BY <3>2, <3>3
  <2>5. Agrees(log, Len(log), core, p)
    BY <1>0, <2>2, <2>3, <2>4 DEF CoreOK
  <2>6. core'[p] = core[p]
    BY <1>2, <2>4
  <2> QED BY <2>5, <2>6 DEF Agrees
<1>22. UseOK'
  <2>1. use.state # "user"
    BY <1>0, <1>3 DEF UseOK, NotInUse, Active
  <2>2. \A u \in Txs : ~(tx'[u].stale /\ tx'[u].pc = "in")
    BY <1>4, <1>5, <1>8
  <2> QED BY <1>0, <1>3, <1>7, <2>1, <2>2 DEF UseOK, NotInUse
<1> QED BY <1>10, <1>11, <1>17, <1>18, <1>19, <1>20, <1>21, <1>22 DEF Recoverable, CoverOK, AllocOK

\* xfs_trans_binval
LEMMA BinvalRecovers == ASSUME BufCorrect, Recoverable, NEW t \in Txs, Binval(t) PROVE Recoverable'
<1>0. /\ LogOK /\ TailOK /\ LeftOutOK /\ ItemOK /\ ImageOK /\ FormatOK /\ FreshOK /\ CoreOK /\ UseOK
      /\ buf \in Buffer /\ bli \in Item /\ tx \in [Txs -> Tx] /\ tx[t] \in Tx /\ TxOK /\ StaleOK
  BY RecoverableParts
<1>1. BinvalDid(t)
  BY BinvalDoes
<1>2. UNCHANGED <<kind, core, disk, log, synced, io>> /\ tx[t].pc = "in" /\ ~tx[t].alloc /\ \A u \in Txs : tx[u].pc # "wait"
  BY DEF Binval
<1>3. /\ tx'[t].pc = "in" /\ tx'[t].dirty /\ tx'[t].stale /\ tx'[t].lsn = tx[t].lsn /\ tx'[t].held = tx[t].held
      /\ tx'[t].alloc = tx[t].alloc
  BY <1>0, <1>1, <1>2 DEF BinvalDid, Tx
<1>4. \A u \in Txs \ {t} : tx'[u] = tx[u]
  BY <1>1 DEF BinvalDid, Only
<1>5. buf'.done = buf.done /\ ~buf'.delwri
  BY <1>0, <1>1 DEF BinvalDid, Buffer
<1>6. bli'.lsn = bli.lsn /\ "STALE" \in bli'.flags /\ bli'.map = {}
  BY <1>0, <1>1 DEF BinvalDid, Item
<1>7. /\ "INODE_ALLOC" \in bli'.flags <=> "INODE_ALLOC" \in bli.flags
      /\ bli'.fmt = {"CANCEL"}
  <2> DEFINE s == DelwriDequeue(S)
             F == (bli.flags \ {"LOGGED", "DIRTY"}) \cup {"STALE"} \cup (IF buf.ino THEN {"STALE_INODE"} ELSE {})
  <2>1. s \in Both /\ s.bli = bli
    BY RawDequeue, Typed
  <2>2. bli' = [bli EXCEPT !.flags = F, !.fmt = {"CANCEL"}, !.map = {}]
    <3>1. bli' = ([s EXCEPT !.buf.stale = TRUE,
          !.bli.flags = (@ \ {"LOGGED", "DIRTY"}) \cup {"STALE"} \cup (IF buf.ino THEN {"STALE_INODE"} ELSE {}),
          !.bli.fmt = {"CANCEL"}, !.bli.map = {}]).bli
      BY DEF Binval, Install
    <3> HIDE DEF s
    <3> QED BY <1>0, <2>1, <3>1 DEF Both, Item
  <2>3. bli'.flags = F /\ bli'.fmt = {"CANCEL"}
    <3> HIDE DEF F
    <3> QED BY <1>0, <2>2 DEF Item
  <2> QED BY <2>3
<1>8. use' \in Use /\ use'.state = "freeing"
  BY <1>0 DEF Binval, UseOK, Use
<1>9. \A u \in Txs \ {t} : tx[u].pc \notin {"in", "logged"} /\ ~tx[u].held /\ ~Staler(u)
  BY <1>2, InOwns
<1>10. \A u \in Txs : /\ tx'[u].lsn = tx[u].lsn /\ (Pending(u)' <=> Pending(u)) /\ (Changes(u)' <=> u = t)
                     /\ (tx'[u].pc # "in" => (Staler(u)' <=> Staler(u)))
                     /\ tx'[u].alloc = tx[u].alloc /\ tx'[u].pc = tx[u].pc
                     /\ (u # t => (tx'[u].stale <=> tx[u].stale))
  BY <1>2, <1>3, <1>4, <1>9 DEF Pending, Changes, Staler, Live
<1>11. LogOK'
  <2>1. tx[t].lsn = 0
    BY <1>0, <1>2 DEF TxOK
  <2> QED BY <1>0, <1>2, <1>6, <1>10, <2>1 DEF LogOK
<1>12. TailOK' /\ LeftOutOK'
  BY <1>0, <1>2, <1>6, <1>7, <1>10 DEF TailOK, LeftOutOK
<1>13. ItemOK'
  BY <1>6 DEF ItemOK
<1>14. ImageOK'
  <2>1. \A u \in Txs : Changes(u) => ~tx[u].alloc
    BY <1>2, <1>9 DEF Changes
  <2> QED BY <1>0, <1>2, <1>6, <1>7, <1>10, <2>1 DEF ImageOK
<1>15. FormatOK'
  BY <1>0, <1>2, <1>3, <1>6, <1>7, <1>10 DEF FormatOK
<1>16. FreshOK'
  <2>1. \A u \in Txs : ~Fresh(u)'
    BY <1>2, <1>3, <1>4, <1>9 DEF Fresh
  <2> QED BY <1>0, <1>10, <2>1 DEF FreshOK
<1>17. CoreOK'
  <2>1. buf.done
    BY <1>0, <1>2 DEF CoreOK, Uses
  <2> QED BY <1>5, <1>6, <1>10, <2>1 DEF CoreOK, Changing
<1>18. UseOK'
  <2>1. use.state # "user"
    BY <1>0, <1>2 DEF UseOK, NotInUse, Active
  <2>2. \A u \in Txs : tx'[u].pc # "wait"
    BY <1>2, <1>10
  <2> QED BY <1>0, <1>2, <1>3, <1>8, <2>1, <2>2 DEF UseOK, NotInUse
<1> QED BY <1>11, <1>12, <1>13, <1>14, <1>15, <1>16, <1>17, <1>18 DEF Recoverable, CoverOK, AllocOK

----------------------------------------------------------------------------
\* A record more at the end of the log.
LEMMA RecordAdded ==
  ASSUME NEW L \in Seq(Record), NEW e
  PROVE  /\ Len(Append(L, e)) = Len(L) + 1 /\ Append(L, e)[Len(L) + 1] = e
         /\ \A l \in 1 .. Len(L) : Append(L, e)[l] = L[l]
         /\ \A n \in 0 .. Len(L) : \A p, l : IsLast(Append(L, e), n, p, l) <=> IsLast(L, n, p, l)
         /\ \A n \in 0 .. Len(L) : \A p : Silent(Append(L, e), n, p) <=> Silent(L, n, p)
         /\ \A p \in Parts, l \in 1 .. Len(L) + 1 : IsLast(Append(L, e), Len(L) + 1, p, l) =>
              /\ ~e.cancel
              /\ IF p \in e.parts THEN l = Len(L) + 1 ELSE l \in 1 .. Len(L) /\ IsLast(L, Len(L), p, l)
         /\ \A p \in Parts : Silent(Append(L, e), Len(L) + 1, p) => p \notin e.parts /\ ~e.cancel /\ Silent(L, Len(L), p)
<1> DEFINE A == Append(L, e)
           N1 == Len(L) + 1
<1>1. /\ Len(A) = N1 /\ A[N1] = e /\ Len(L) \in Nat /\ \A l \in 1 .. Len(L) : A[l] = L[l]
  OBVIOUS
<1> HIDE DEF A
<1>2. \A n \in 0 .. Len(L) : \A p, l : IsLast(A, n, p, l) <=> IsLast(L, n, p, l)
  <2> TAKE n \in 0 .. Len(L)
  <2> TAKE p, l
  <2>1. \A m \in 1 .. n : A[m] = L[m] /\ m \in 1 .. Len(L)
    BY <1>1
  <2>2. CASE l \in 1 .. n
    <3>1. \A m \in l + 1 .. n : m \in 1 .. n
      BY <1>1, <2>2
    <3> QED BY <2>1, <2>2, <3>1 DEF IsLast
  <2>3. CASE l \notin 1 .. n
    BY <2>3 DEF IsLast
  <2> QED BY <2>2, <2>3
<1>3. \A n \in 0 .. Len(L) : \A p : Silent(A, n, p) <=> Silent(L, n, p)
  <2> TAKE n \in 0 .. Len(L)
  <2>1. \A m \in 1 .. n : A[m] = L[m]
    BY <1>1
  <2> QED BY <2>1 DEF Silent
<1>4. ASSUME NEW p \in Parts, NEW l \in 1 .. N1, IsLast(A, N1, p, l)
      PROVE  ~e.cancel /\ IF p \in e.parts THEN l = N1 ELSE l \in 1 .. Len(L) /\ IsLast(L, Len(L), p, l)
  <2>1. CASE l = N1
    BY <1>1, <1>4, <2>1 DEF IsLast
  <2>2. CASE l # N1
    <3>1. l \in 1 .. Len(L) /\ N1 \in l + 1 .. N1
      BY <1>1, <2>2
    <3>2. ~e.cancel /\ p \notin e.parts
      BY <1>1, <1>4, <3>1 DEF IsLast
    <3>3. IsLast(L, Len(L), p, l)
      <4>1. p \in L[l].parts /\ ~L[l].cancel
        BY <1>1, <1>4, <3>1 DEF IsLast
      <4>2. ASSUME NEW m \in l + 1 .. Len(L) PROVE p \notin L[m].parts /\ ~L[m].cancel
        <5>1. m \in l + 1 .. N1 /\ A[m] = L[m]
          BY <1>1, <3>1
        <5> QED BY <1>4, <5>1 DEF IsLast
      <4> QED BY <3>1, <4>1, <4>2 DEF IsLast
    <3> QED BY <3>1, <3>2, <3>3
  <2> QED BY <2>1, <2>2
<1>5. ASSUME NEW p \in Parts, Silent(A, N1, p) PROVE p \notin e.parts /\ ~e.cancel /\ Silent(L, Len(L), p)
  <2>1. \A m \in 1 .. Len(L) : m \in 1 .. N1 /\ A[m] = L[m]
    BY <1>1
  <2>2. N1 \in 1 .. N1
    BY <1>1
  <2> QED BY <1>1, <1>5, <2>1, <2>2 DEF Silent
<1> QED BY <1>1, <1>2, <1>3, <1>4, <1>5 DEF A

\* xfs_trans_commit
LEMMA CommitRecovers == ASSUME BufCorrect, Recoverable, NEW t \in Txs, Commit(t) PROVE Recoverable'
<1> DEFINE n == Len(log) + 1
           e == [parts |-> Logged(bli), val |-> core, cancel |-> "STALE" \in bli.flags]
<1>0. /\ LogOK /\ TailOK /\ LeftOutOK /\ ItemOK /\ ImageOK /\ FormatOK /\ FreshOK /\ CoreOK /\ UseOK
      /\ buf \in Buffer /\ bli \in Item /\ tx \in [Txs -> Tx] /\ tx[t] \in Tx /\ TxOK /\ StaleOK
      /\ log \in Seq(Record) /\ Len(log) \in Nat /\ synced \in Nat /\ synced <= Len(log) /\ bli.lsn \in Nat
      /\ \A u \in Txs : tx[u].lsn \in Nat
  BY RecoverableParts
<1>1. CommitDid(t)
  BY CommitDoes
<1>2. /\ UNCHANGED <<kind, bli, core, disk, synced, io>> /\ tx[t].pc = "in" /\ tx[t].dirty
      /\ log' = Append(log, e) /\ use' = IF tx[t].stale THEN [state |-> "free", lsn |-> n] ELSE use
  BY DEF Commit
<1>3. /\ Len(log') = n /\ log'[n] = e /\ \A l \in 1 .. Len(log) : log'[l] = log[l]
      /\ \A i \in 0 .. Len(log) : \A p, l : IsLast(log', i, p, l) <=> IsLast(log, i, p, l)
      /\ \A i \in 0 .. Len(log) : \A p : Silent(log', i, p) <=> Silent(log, i, p)
      /\ \A p \in Parts, l \in 1 .. n : IsLast(log', n, p, l) =>
           /\ ~e.cancel
           /\ IF p \in e.parts THEN l = n ELSE l \in 1 .. Len(log) /\ IsLast(log, Len(log), p, l)
      /\ \A p \in Parts : Silent(log', n, p) => p \notin e.parts /\ ~e.cancel /\ Silent(log, Len(log), p)
  <2> HIDE DEF e
  <2> QED BY <1>0, <1>2, RecordAdded
<1>4. e.parts = Logged(bli) /\ e.val = core /\ (e.cancel <=> "STALE" \in bli.flags)
  OBVIOUS
<1> HIDE DEF e
<1>5. /\ tx'[t].pc = "logged" /\ tx'[t].dirty = tx[t].dirty /\ tx'[t].stale = tx[t].stale /\ tx'[t].lsn = n
      /\ tx'[t].held = tx[t].held /\ tx'[t].alloc = tx[t].alloc
  BY <1>0, <1>1 DEF CommitDid, Tx
<1>6. \A u \in Txs \ {t} : tx'[u] = tx[u]
  BY <1>1 DEF CommitDid, Only
<1>7. buf'.done = buf.done /\ buf'.delwri = buf.delwri /\ buf'.ino = buf.ino
  BY <1>0, <1>1 DEF CommitDid, Buffer
<1>8. /\ \A u \in Txs \ {t} : tx[u].pc \notin {"in", "logged"} /\ ~tx[u].held /\ ~Staler(u)
      /\ io = "none" /\ ("STALE" \in bli.flags => Staler(t))
  BY <1>2, InOwns
<1>9. ~tx[t].held /\ tx[t].lsn = 0 /\ \A u \in Txs : tx[u].lsn <= Len(log)
  BY <1>0, <1>2 DEF TxOK
<1>10. e.cancel <=> tx[t].stale
  BY <1>0, <1>2, <1>4, <1>8 DEF StaleOK, Staler, Live
<1>11. \A u \in Txs : /\ (Pending(u)' <=> Pending(u) \/ u = t) /\ ~Changes(u)' /\ (u # t => tx'[u].lsn = tx[u].lsn)
                      /\ tx'[u].pc # "in" /\ tx'[u].stale = tx[u].stale /\ tx'[u].alloc = tx[u].alloc
                      /\ (tx'[u].pc = "idle" => tx[u].pc = "idle") /\ (Staler(u)' => u = t) /\ ~Uses(u)'
  BY <1>2, <1>5, <1>6, <1>8, <1>9 DEF Pending, Changes, Staler, Live, Uses
<1>12. ~Pending(t) /\ Changes(t)
  BY <1>2 DEF Pending, Changes
<1>13. buf.done
  BY <1>0, <1>2 DEF CoreOK, Uses
<1>14. LogOK'
  <2>1. synced \in 0 .. n /\ bli.lsn <= n /\ \A u \in Txs : Pending(u)' => bli.lsn < tx'[u].lsn
    BY <1>0, <1>5, <1>9, <1>11 DEF LogOK
  <2>2. ASSUME NEW l \in synced + 1 .. n PROVE \E u \in Txs : tx'[u].lsn = l /\ Pending(u)'
    <3>1. CASE l = n
      BY <1>5, <1>11, <3>1
    <3>2. CASE l # n
      <4>1. l \in synced + 1 .. Len(log)
        BY <1>0, <2>2, <3>2
      <4>2. PICK u \in Txs : tx[u].lsn = l /\ Pending(u)
        BY <1>0, <4>1 DEF LogOK
      <4> QED BY <1>11, <1>12, <4>2
    <3> QED BY <3>1, <3>2
  <2>3. \A u, v \in Txs : tx'[u].lsn # 0 /\ tx'[u].lsn = tx'[v].lsn => u = v
    <3>1. \A u \in Txs : u # t => tx'[u].lsn = tx[u].lsn /\ tx[u].lsn # n
      BY <1>0, <1>9, <1>11
    <3> QED BY <1>0, <1>5, <3>1 DEF LogOK
  <2>4. ASSUME NEW u \in Txs, tx'[u].lsn # 0 PROVE log'[tx'[u].lsn].cancel <=> tx'[u].stale
    <3>1. CASE u = t
      BY <1>3, <1>5, <1>10, <3>1
    <3>2. CASE u # t
      <4>1. tx'[u].lsn = tx[u].lsn /\ tx[u].lsn \in 1 .. Len(log)
        BY <1>0, <1>9, <1>11, <2>4, <3>2
      <4> QED BY <1>0, <1>3, <1>11, <4>1 DEF LogOK
    <3> QED BY <3>1, <3>2
  <2>5. \A u \in Txs : Staler(u)' => tx'[u].lsn = n
    BY <1>5, <1>11
  <2>6. \A m \in 1 .. n : log'[m].cancel => log'[m].parts = {}
    <3>1. e.cancel => e.parts = {}
      BY <1>4 DEF Logged
    <3>2. \A m \in 1 .. n : m = n \/ m \in 1 .. Len(log)
      BY <1>0
    <3> QED BY <1>0, <1>3, <3>1, <3>2 DEF LogOK
  <2> QED BY <1>2, <1>3, <2>1, <2>2, <2>3, <2>4, <2>5, <2>6 DEF LogOK
<1>15. TailOK'
  <2> SUFFICES ASSUME NEW p \in Parts, NEW l \in 1 .. synced, IsLast(log', synced, p, l)
               PROVE  \/ disk[p] = log'[l].val[p]
                      \/ bli.lsn # 0 /\ bli.lsn <= l
                      \/ \E u \in Txs : Pending(u)' /\ tx'[u].lsn <= l
    BY <1>2 DEF TailOK
  <2>1. IsLast(log, synced, p, l) /\ log'[l] = log[l]
    BY <1>0, <1>3
  <2>2. \A u \in Txs : Pending(u) => Pending(u)' /\ tx'[u].lsn = tx[u].lsn
    BY <1>11, <1>12
  <2> QED BY <1>0, <2>1, <2>2 DEF TailOK
<1>16. ItemOK'
  <2> SUFFICES ASSUME NEW p \in Parts, NEW l \in 1 .. n, IsLast(log', n, p, l), p \notin Logged(bli), "STALE" \notin bli.flags
               PROVE  disk[p] = log'[l].val[p] \/ "INODE_ALLOC" \in bli.flags
    BY <1>2, <1>3 DEF ItemOK
  <2>1. l \in 1 .. Len(log) /\ IsLast(log, Len(log), p, l)
    BY <1>3, <1>4
  <2> QED BY <1>0, <1>3, <2>1 DEF ItemOK
<1>17. LeftOutOK'
  <2> SUFFICES ASSUME NEW u \in Txs, NEW p \in Parts, NEW l \in 1 .. n, Pending(u)', p \notin log'[tx'[u].lsn].parts,
                      IsLast(log', tx'[u].lsn, p, l), \A m \in tx'[u].lsn + 1 .. synced : ~log'[m].cancel
               PROVE  disk[p] = log'[l].val[p] \/ "INODE_ALLOC" \in bli.flags
    BY <1>2, <1>3 DEF LeftOutOK
  <2>1. CASE u = t
    <3>1. l \in 1 .. Len(log) /\ IsLast(log, Len(log), p, l) /\ p \notin Logged(bli) /\ "STALE" \notin bli.flags
      BY <1>3, <1>4, <1>5, <2>1
    <3> QED BY <1>0, <1>3, <3>1 DEF ItemOK
  <2>2. CASE u # t
    <3>1. Pending(u) /\ tx'[u].lsn = tx[u].lsn /\ tx[u].lsn \in 0 .. Len(log)
      BY <1>0, <1>9, <1>11, <2>2
    <3>2. IsLast(log, tx[u].lsn, p, l)
      BY <1>3, <3>1
    <3>3. l \in 1 .. tx[u].lsn
      BY <3>2 DEF IsLast
    <3>4. l \in 1 .. Len(log) /\ tx[u].lsn \in 1 .. Len(log)
      BY <1>0, <3>1, <3>3
    <3>5. \A m \in tx[u].lsn + 1 .. synced : m \in 1 .. Len(log)
      BY <1>0, <3>1
    <3> QED BY <1>0, <1>3, <3>1, <3>2, <3>4, <3>5 DEF LeftOutOK
  <2> QED BY <2>1, <2>2
<1>18. ImageOK'
  <2> SUFFICES ASSUME "INODE_ALLOC" \in bli.flags, bli.lsn = 0
               PROVE  \E u \in Txs : /\ Pending(u)' /\ log'[tx'[u].lsn].parts = Parts
                                     /\ \A v \in Txs : Pending(v)' => tx'[u].lsn <= tx'[v].lsn
    BY <1>2 DEF ImageOK
  <2>1. CASE \E u \in Txs : /\ Changes(u) /\ ~tx[u].stale /\ tx[u].alloc /\ Logged(bli) = Parts
                            /\ \A v \in Txs : ~Pending(v)
    <3>1. \A v \in Txs : Pending(v)' => v = t
      BY <1>11, <2>1
    <3> QED BY <1>0, <1>3, <1>4, <1>5, <1>11, <2>1, <3>1
  <2>2. ASSUME NEW u \in Txs, Pending(u), log[tx[u].lsn].parts = Parts, \A v \in Txs : Pending(v) => tx[u].lsn <= tx[v].lsn
        PROVE  /\ Pending(u)' /\ log'[tx'[u].lsn].parts = Parts
               /\ \A v \in Txs : Pending(v)' => tx'[u].lsn <= tx'[v].lsn
    <3>1. tx'[u].lsn = tx[u].lsn /\ tx[u].lsn <= Len(log) /\ tx[u].lsn > 0
      BY <1>0, <1>9, <1>11, <1>12, <2>2 DEF LogOK
    <3>2. \A v \in Txs : Pending(v)' => tx'[u].lsn <= tx'[v].lsn
      <4> SUFFICES ASSUME NEW v \in Txs, Pending(v)' PROVE tx'[u].lsn <= tx'[v].lsn
        OBVIOUS
      <4>1. CASE v = t
        BY <1>0, <1>5, <3>1, <4>1
      <4>2. CASE v # t
        BY <1>11, <2>2, <3>1, <4>2
      <4> QED BY <4>1, <4>2
    <3>3. tx[u].lsn \in 1 .. Len(log)
      BY <1>0, <3>1
    <3> QED BY <1>3, <1>11, <2>2, <3>1, <3>2, <3>3
  <2> QED BY <1>0, <2>1, <2>2 DEF ImageOK
<1>19. FormatOK'
  BY <1>0, <1>2, <1>11 DEF FormatOK
<1>20. FreshOK'
  <2>1. \A u \in Txs : ~Fresh(u)'
    <3>1. ~Fresh(t)'
      BY <1>5 DEF Fresh
    <3>2. ASSUME NEW u \in Txs \ {t} PROVE ~Fresh(u)'
      <4>1. Active(t)
        BY <1>2 DEF Active
      <4>2. ~Fresh(u)
        BY <1>0, <4>1 DEF FreshOK
      <4> QED BY <1>6, <4>2 DEF Fresh
    <3> QED BY <3>1, <3>2
  <2> QED BY <1>0, <1>11, <2>1 DEF FreshOK
<1>21. CoreOK'
  <2> SUFFICES ASSUME NEW p \in Parts PROVE Agrees(log', n, core, p)
    BY <1>2, <1>3, <1>7, <1>13 DEF CoreOK
  <2>1. ASSUME p \notin Logged(bli), "STALE" \notin bli.flags PROVE Agrees(log, Len(log), core, p)
    BY <1>0, <1>13, <2>1 DEF CoreOK
  <2>2. ASSUME NEW l \in 1 .. n, IsLast(log', n, p, l) PROVE core[p] = log'[l].val[p]
    <3>1. CASE p \in Logged(bli)
      BY <1>3, <1>4, <2>2, <3>1
    <3>2. CASE p \notin Logged(bli)
      <4>1. l \in 1 .. Len(log) /\ IsLast(log, Len(log), p, l) /\ "STALE" \notin bli.flags
        BY <1>3, <1>4, <2>2, <3>2
      <4> QED BY <1>3, <2>1, <3>2, <4>1 DEF Agrees
    <3> QED BY <3>1, <3>2
  <2>3. ASSUME Silent(log', n, p) PROVE core[p] = 0
    BY <1>3, <1>4, <2>1, <2>3 DEF Agrees
  <2> QED BY <2>2, <2>3 DEF Agrees
<1>22. UseOK'
  <2>1. \A u \in Txs : ~(tx'[u].stale /\ tx'[u].pc = "in")
    BY <1>11
  <2>2. ~NotInUse
    BY <1>0, <1>2 DEF UseOK, Active
  <2>3. \A p \in Parts : Silent(log', synced, p) => Silent(log, synced, p)
    BY <1>0, <1>3
  <2>4. CASE tx[t].stale
    <3>1. use' = [state |-> "free", lsn |-> n]
      BY <1>2, <2>4
    <3>2. use' \in Use /\ use'.state = "free" /\ use'.lsn = n
      BY <1>0, <3>1 DEF Use
    <3>3. \A u \in Txs : ~Active(u)'
      <4>1. \A u \in Txs : tx[u].pc # "wait"
        BY <1>0, <1>2, <2>4 DEF UseOK
      <4> QED BY <1>5, <1>6, <1>8, <1>9, <4>1 DEF Active
    <3>4. "STALE" \in bli.flags /\ ~buf.delwri
      BY <1>0, <1>4, <1>10, <2>4 DEF StaleOK
    <3>5. \A p \in Parts : Silent(log', synced, p) => disk[p] = 0
      BY <1>0, <2>2, <2>3 DEF UseOK, NotInUse
    <3> QED BY <1>2, <1>3, <1>7, <1>8, <1>10, <2>1, <2>4, <3>2, <3>3, <3>4, <3>5 DEF UseOK, NotInUse
  <2>5. CASE ~tx[t].stale
    <3>1. use.state # "freeing"
      BY <1>0, <1>8, <2>5 DEF UseOK
    <3> QED BY <1>0, <1>2, <2>1, <2>2, <2>3, <2>5, <3>1 DEF UseOK, NotInUse
  <2> QED BY <2>4, <2>5
<1> QED BY <1>14, <1>15, <1>16, <1>17, <1>18, <1>19, <1>20, <1>21, <1>22 DEF Recoverable, CoverOK, AllocOK

\* xfs_trans_committed: the item is put in the AIL, or moved forward
LEMMA CbAilRecovers == ASSUME BufCorrect, Recoverable, ~Down, NEW t \in Txs, CbAil(t) PROVE Recoverable'
<1>0. /\ LogOK /\ TailOK /\ LeftOutOK /\ ItemOK /\ ImageOK /\ FormatOK /\ FreshOK /\ CoreOK /\ UseOK
      /\ buf \in Buffer /\ bli \in Item /\ tx \in [Txs -> Tx] /\ tx[t] \in Tx /\ TxOK /\ StaleOK
      /\ Len(log) \in Nat /\ synced \in Nat /\ synced <= Len(log) /\ bli.lsn \in Nat
      /\ \A u \in Txs : tx[u].lsn \in Nat
  BY RecoverableParts
<1>1. CbAilDid(t)
  BY CbAilDoes
<1>2. /\ UNCHANGED <<kind, buf, core, disk, log, synced, use, io>> /\ tx[t].pc = "committed" /\ tx[t].lsn <= synced
  BY DEF CbAil, Turn
<1>3. /\ tx'[t].pc = "ail" /\ tx'[t].dirty = tx[t].dirty /\ tx'[t].stale = tx[t].stale /\ tx'[t].lsn = tx[t].lsn
      /\ tx'[t].held = tx[t].held /\ tx'[t].alloc = tx[t].alloc
  BY <1>0, <1>1 DEF CbAilDid, Tx
<1>4. \A u \in Txs \ {t} : tx'[u] = tx[u]
  BY <1>1 DEF CbAilDid, Only
<1>5. Pending(t) /\ bli.lsn < tx[t].lsn /\ bli.there
  BY <1>0, <1>1, <1>2 DEF Pending, LogOK, CbAilDid
<1>6. /\ bli'.lsn = (IF "INODE_ALLOC" \in bli.flags /\ bli.lsn # 0 THEN bli.lsn ELSE tx[t].lsn)
      /\ bli'.flags = bli.flags /\ bli'.fmt = bli.fmt /\ bli'.map = bli.map
  BY <1>0, <1>5 DEF CbAil, ItemCommitted, Item
<1>7. \A u \in Txs : u # t /\ Pending(u) => tx[t].lsn < tx[u].lsn
  <2> SUFFICES ASSUME NEW u \in Txs, u # t, Pending(u) PROVE tx[t].lsn < tx[u].lsn
    OBVIOUS
  <2>1. tx[u].lsn > 0 /\ tx[t].lsn # tx[u].lsn
    BY <1>0, <1>5 DEF LogOK, TxOK, Pending, PinPcs
  <2>2. tx[u].lsn \notin 1 .. tx[t].lsn - 1
    BY <1>1 DEF CbAilDid, Pending
  <2> QED BY <1>0, <2>1, <2>2
<1>8. \A u \in Txs : /\ tx'[u].lsn = tx[u].lsn /\ (Pending(u)' <=> Pending(u) /\ u # t) /\ (Changes(u)' <=> Changes(u))
                     /\ (tx'[u].pc # "in" <=> tx[u].pc # "in") /\ (Staler(u)' <=> Staler(u)) /\ (Live(u)' <=> Live(u))
                     /\ tx'[u].alloc = tx[u].alloc /\ (Fresh(u)' <=> Fresh(u)) /\ (Active(u)' <=> Active(u))
                     /\ (tx'[u].pc = "idle" => tx[u].pc = "idle") /\ (tx'[u].pc = "wait" => tx[u].pc = "wait")
                     /\ tx'[u].stale = tx[u].stale /\ (Uses(u)' <=> Uses(u))
  BY <1>2, <1>3, <1>4 DEF Pending, Changes, Staler, Live, Fresh, Active, Uses
<1>9. Logged(bli') = Logged(bli) /\ bli'.lsn # 0 /\ bli'.lsn <= tx[t].lsn
  BY <1>0, <1>5, <1>6 DEF Logged
<1>10. LogOK'
  <2>1. \A u \in Txs : Pending(u)' => bli'.lsn < tx[u].lsn
    BY <1>0, <1>6, <1>7, <1>8, <1>9
  <2>2. ASSUME NEW l \in synced + 1 .. Len(log) PROVE \E u \in Txs : tx[u].lsn = l /\ Pending(u)'
    <3>1. PICK u \in Txs : tx[u].lsn = l /\ Pending(u)
      BY <1>0 DEF LogOK
    <3>2. u # t
      BY <1>0, <1>2, <3>1
    <3> QED BY <1>8, <3>1, <3>2
  <2>3. bli'.lsn <= Len(log)
    <3>1. tx[t].lsn <= Len(log) /\ bli.lsn <= Len(log)
      BY <1>0, <1>2 DEF LogOK
    <3> QED BY <1>6, <3>1
  <2> QED BY <1>0, <1>2, <1>8, <2>1, <2>2, <2>3 DEF LogOK
<1>11. TailOK'
  <2> SUFFICES ASSUME NEW p \in Parts, NEW l \in 1 .. synced, IsLast(log, synced, p, l), disk[p] # log[l].val[p]
               PROVE  bli'.lsn <= l \/ \E u \in Txs : Pending(u)' /\ tx[u].lsn <= l
    BY <1>2, <1>8, <1>9 DEF TailOK
  <2>1. (bli.lsn # 0 /\ bli.lsn <= l) \/ \E u \in Txs : Pending(u) /\ tx[u].lsn <= l
    BY <1>0 DEF TailOK
  <2>2. CASE tx[t].lsn <= l
    <3>1. bli'.lsn \in Nat
      BY <1>0, <1>6
    <3> QED BY <1>0, <1>9, <2>2, <3>1
  <2>3. CASE tx[t].lsn > l
    <3>1. bli.lsn # 0 /\ bli.lsn <= l
      BY <1>0, <1>7, <2>1, <2>3
    <3>2. l \in 1 .. Len(log) /\ tx[t].lsn \in l + 1 .. synced
      BY <1>0, <1>2, <2>3
    <3>3. p \notin log[tx[t].lsn].parts /\ IsLast(log, tx[t].lsn, p, l) /\ \A m \in tx[t].lsn + 1 .. synced : ~log[m].cancel
      BY <1>0, <3>2 DEF IsLast
    <3>4. "INODE_ALLOC" \in bli.flags
      BY <1>0, <1>5, <3>2, <3>3 DEF LeftOutOK
    <3> QED BY <1>6, <3>1, <3>4
  <2> QED BY <1>0, <2>2, <2>3
<1>12. LeftOutOK' /\ ItemOK'
  BY <1>0, <1>2, <1>6, <1>8, <1>9 DEF LeftOutOK, ItemOK
<1>13. ImageOK' /\ FormatOK'
  BY <1>0, <1>2, <1>6, <1>8, <1>9 DEF ImageOK, FormatOK
<1>14. FreshOK'
  <2>1. \A u \in Txs : Fresh(u) => "STALE" \in bli.flags
    <3> SUFFICES ASSUME NEW u \in Txs, Fresh(u), "STALE" \notin bli.flags PROVE FALSE
      OBVIOUS
    <3>1. \A v \in Txs \ {u} : ~Live(v)
      BY <1>0 DEF FreshOK
    <3> QED BY <1>2, <3>1 DEF Live, Fresh
  <2> QED BY <1>0, <1>2, <1>6, <1>8, <2>1 DEF FreshOK
<1>15. CoreOK'
  <2>1. buf.done
    BY <1>0, <1>5 DEF CoreOK
  <2> QED BY <1>0, <1>2, <1>6, <1>8, <1>9, <2>1 DEF CoreOK, Changing
<1>16. UseOK'
  <2>1. bli # NoItem
    BY <1>5 DEF NoItem
  <2> QED BY <1>0, <1>2, <1>6, <1>8, <2>1 DEF UseOK, NotInUse
<1> QED BY <1>10, <1>11, <1>12, <1>13, <1>14, <1>15, <1>16 DEF Recoverable, CoverOK, AllocOK

\* xfs_buf_item_unpin of a stale buffer: its cancellation is the last record
LEMMA UnpinRecovers == ASSUME BufCorrect, Recoverable, NEW t \in Txs, CbUnpin(t), tx[t].stale PROVE Recoverable'
<1>0. /\ LogOK /\ TailOK /\ LeftOutOK /\ ItemOK /\ ImageOK /\ FormatOK /\ FreshOK /\ CoreOK /\ UseOK
      /\ buf \in Buffer /\ bli \in Item /\ tx \in [Txs -> Tx] /\ tx[t] \in Tx /\ TxOK /\ StaleOK
      /\ Len(log) \in Nat /\ synced \in Nat /\ synced <= Len(log)
      /\ \A u \in Txs : tx[u].lsn \in Nat
  BY RecoverableParts
<1>1. CbUnpinDid(t)
  BY CbUnpinDoes
<1>2. UNCHANGED <<kind, core, disk, log, synced, use, io>> /\ tx[t].pc = "drop"
  BY DEF CbUnpin
<1>3. /\ tx'[t].pc = "done" /\ tx'[t].dirty = tx[t].dirty /\ tx'[t].stale = tx[t].stale /\ tx'[t].lsn = tx[t].lsn
      /\ tx'[t].held = tx[t].held /\ tx'[t].alloc = tx[t].alloc
  BY <1>0, <1>1 DEF CbUnpinDid, Tx
<1>4. \A u \in Txs \ {t} : tx'[u] = tx[u]
  BY <1>1 DEF CbUnpinDid, Only
<1>5. /\ \A u \in Txs \ {t} : tx[u].pc \notin {"in", "logged", "committed", "ail", "drop"} /\ ~tx[u].held
      /\ ~tx[t].held /\ io = "none" /\ "STALE" \in bli.flags
  <2>1. Staler(t)
    BY <1>2 DEF Staler, Live
  <2>2. \A u \in Txs \ {t} : tx[u].pc \notin RefPcs \cup PinPcs
    BY <1>2, StalerIsLast
  <2>3. ~tx[t].held /\ "STALE" \in bli.flags
    BY <1>0, <2>1 DEF TxOK, StaleOK
  <2> QED BY <2>1, <2>2, <2>3, InOwns DEF RefPcs, PinPcs
<1>6. tx[t].lsn = Len(log) /\ log[Len(log)].cancel /\ Len(log) > 0 /\ synced = Len(log)
  <2>1. tx[t].lsn = Len(log) /\ tx[t].lsn > 0
    BY <1>0, <1>2 DEF LogOK, Staler, Live, TxOK, PinPcs
  <2>2. log[Len(log)].cancel
    BY <1>0, <2>1 DEF LogOK
  <2>3. ASSUME synced < Len(log) PROVE FALSE
    <3>1. Len(log) \in synced + 1 .. Len(log)
      BY <1>0, <2>3
    <3>2. PICK u \in Txs : tx[u].lsn = Len(log) /\ Pending(u)
      BY <1>0, <3>1 DEF LogOK
    <3>3. u = t
      BY <1>0, <2>1, <3>2 DEF LogOK
    <3> QED BY <1>2, <3>2, <3>3 DEF Pending
  <2> QED BY <1>0, <2>1, <2>2, <2>3
<1>7. /\ \A p \in Parts, l \in 1 .. Len(log) : ~IsLast(log, Len(log), p, l)
      /\ \A p \in Parts : ~Silent(log, Len(log), p)
  BY <1>0, <1>6 DEF IsLast, Silent
<1>8. bli' = NoItem /\ bli'.lsn = 0 /\ bli'.flags = {} /\ bli'.map = {} /\ bli'.fmt = {}
  BY <1>1, <1>0, <1>5 DEF CbUnpinDid, NoItem, Item
<1>9. ~buf'.delwri /\ ~buf'.ino /\ buf' \in Buffer
  <2> DEFINE b == [buf EXCEPT !.pin = @ - 1, !.iodone = FALSE, !.ino = FALSE]
  <2>1. b \in Buffer /\ b.ino = FALSE /\ b.delwri = buf.delwri
    <3>1. buf.pin - 1 \in Int
      BY <1>0 DEF Buffer
    <3>2. PICK n \in Int : n = buf.pin - 1
      BY <3>1
    <3>3. [buf EXCEPT !.pin = n, !.iodone = FALSE, !.ino = FALSE] \in Buffer
      BY <1>0 DEF Buffer
    <3>4. b = [buf EXCEPT !.pin = n, !.iodone = FALSE, !.ino = FALSE]
      BY <3>2
    <3> QED BY <1>0, <3>3, <3>4 DEF Buffer
  <2>2. Relsed(b)
    BY <1>0, <1>1, <1>5 DEF CbUnpinDid
  <2>3. buf' \in Buffer
    BY <1>1, KeptTyped DEF CbUnpinDid
  <2>4. ~buf.delwri
    BY <1>0, <1>5 DEF StaleOK
  <2> HIDE DEF b
  <2> QED BY <2>1, <2>2, <2>3, <2>4, RelsedFields
<1> DEFINE After(u) == /\ tx'[u].lsn = tx[u].lsn /\ ~Pending(u)' /\ ~Changes(u)' /\ tx'[u].pc # "in" /\ ~Staler(u)'
                    /\ ~Live(u)' /\ tx'[u].alloc = tx[u].alloc /\ (Fresh(u)' => Fresh(u)) /\ (Active(u)' <=> Active(u))
                    /\ (tx'[u].pc = "idle" => tx[u].pc = "idle") /\ tx'[u].stale = tx[u].stale /\ ~Uses(u)'
<1>10. \A u \in Txs : After(u)
  <2>1. After(t)
    BY <1>2, <1>3, <1>5 DEF Pending, Changes, Staler, Live, Fresh, Active, Uses
  <2>2. ASSUME NEW u \in Txs \ {t} PROVE After(u)
    BY <1>4, <1>5, <2>2 DEF Pending, Changes, Staler, Live, Fresh, Active, Uses
  <2> QED BY <2>1, <2>2
<1>11. LogOK'
  BY <1>0, <1>2, <1>6, <1>8, <1>10 DEF LogOK
<1>12. TailOK' /\ LeftOutOK' /\ ItemOK'
  BY <1>2, <1>6, <1>7, <1>10 DEF TailOK, LeftOutOK, ItemOK
<1>13. ImageOK' /\ FormatOK'
  BY <1>8, <1>10 DEF ImageOK, FormatOK
<1>14. FreshOK'
  BY <1>0, <1>2, <1>8, <1>9, <1>10 DEF FreshOK
<1>15. CoreOK'
  BY <1>2, <1>5, <1>7, <1>8, <1>9, <1>10 DEF CoreOK, Agrees
<1>16. UseOK'
  <2>1. use.state # "freeing"
    BY <1>0, <1>2, <1>5 DEF UseOK
  <2> QED BY <1>0, <1>2, <1>5, <1>8, <1>9, <1>10, <2>1 DEF UseOK, NotInUse
<1> QED BY <1>11, <1>12, <1>13, <1>14, <1>15, <1>16 DEF Recoverable, CoverOK, AllocOK

----------------------------------------------------------------------------
\* nobody pins a buffer that is being written, so what is written is on disk in the log
LEMMA FlightIsCurrent ==
  ASSUME BufCorrect, Recoverable, io = "flight"
  PROVE  /\ synced = Len(log) /\ (\A p \in Parts : Agrees(log, Len(log), core, p)) /\ buf.lock = "io" /\ push # "locked"
         /\ buf.done /\ ~NotInUse /\ \A t \in Txs : ~Live(t) /\ ~tx[t].held
<1>0. /\ LogOK /\ CoreOK /\ UseOK /\ LockOK /\ Len(log) \in Nat /\ synced \in Nat /\ synced <= Len(log)
  BY RecoverableParts
<1>1. buf.lock = "io" /\ push # "locked" /\ \A t \in Txs : tx[t].pc \notin PinPcs
  BY <1>0 DEF LockOK
<1>2. \A t \in Txs : ~Live(t) /\ ~tx[t].held
  BY <1>1, NobodyOwns DEF Live, PinPcs
<1>3. ~Changing /\ \A t \in Txs : ~Pending(t)
  BY <1>2 DEF Live, Changing, Changes, Pending
<1>4. synced = Len(log)
  <2>1. SUFFICES ASSUME synced < Len(log) PROVE FALSE
    BY <1>0
  <2>2. Len(log) \in synced + 1 .. Len(log)
    BY <1>0, <2>1
  <2> QED BY <1>0, <1>3, <2>2 DEF LogOK
<1>5. buf.done /\ \A p \in Parts : Agrees(log, Len(log), core, p)
  BY <1>0, <1>3 DEF CoreOK
<1>6. ~NotInUse
  BY <1>0 DEF UseOK
<1> QED BY <1>1, <1>2, <1>4, <1>5, <1>6

LEMMA WriteRecovers == ASSUME BufCorrect, Recoverable, ~Down, WriteDone PROVE Recoverable'
<1>0. /\ LogOK /\ ImageOK /\ FormatOK /\ FreshOK /\ CoreOK /\ UseOK
      /\ buf \in Buffer /\ bli \in Item /\ FlagsOK /\ Len(log) \in Nat
  BY RecoverableParts
<1>1. WriteDid
  BY WriteDoes
<1>2. UNCHANGED <<kind, tx, core, log, synced, use>> /\ disk' = core /\ io = "flight" /\ io' = "none"
  BY DEF WriteDone
<1>3. /\ synced = Len(log) /\ (\A p \in Parts : Agrees(log, Len(log), core, p))
      /\ buf.done /\ ~NotInUse /\ \A t \in Txs : ~Live(t) /\ ~tx[t].held
  BY <1>2, FlightIsCurrent
<1>4. bli' = NoItem \/ bli' = bli
  BY <1>1 DEF WriteDid
<1>5. \A t \in Txs : /\ ~Pending(t) /\ ~Changes(t) /\ ~Uses(t) /\ ~Staler(t) /\ ~Pending(t)' /\ ~Changes(t)' /\ ~Uses(t)'
                     /\ ~Staler(t)' /\ tx[t].pc # "in"
  BY <1>2, <1>3 DEF Pending, Changes, Uses, Staler, Live
<1>6. \A t \in Txs : ~Fresh(t) /\ ~Fresh(t)'
  BY <1>0, <1>2 DEF FreshOK, Fresh
<1>7. LogOK'
  BY <1>0, <1>2, <1>4, <1>5 DEF LogOK, NoItem
<1>8. TailOK' /\ LeftOutOK' /\ ItemOK'
  BY <1>2, <1>3, <1>5 DEF TailOK, LeftOutOK, ItemOK, Agrees
<1>9. ImageOK' /\ FormatOK'
  <2>1. CASE bli' = NoItem
    BY <1>5, <2>1 DEF ImageOK, FormatOK, NoItem
  <2>2. CASE bli' = bli
    BY <1>0, <1>2, <1>5, <2>2 DEF ImageOK, FormatOK
  <2> QED BY <1>4, <2>1, <2>2
<1>10. FreshOK'
  BY <1>0, <1>2, <1>6 DEF FreshOK
<1>11. CoreOK'
  <2>1. ~buf'.done => ~bli'.there /\ ~buf'.delwri
    <3>0. buf' \in Buffer
      BY <1>1, KeptTyped DEF WriteDid
    <3>1. PICK b \in Buffer : Relsed(b) /\ (buf.done => b.done)
      <4> DEFINE d == [buf EXCEPT !.iodone = FALSE, !.ino = FALSE]
                 f == [buf EXCEPT !.delwri = TRUE, !.done = TRUE]
      <4>1. d \in Buffer /\ (buf.done => d.done)
        BY <1>0 DEF Buffer
      <4>2. f \in Buffer /\ (buf.done => f.done)
        BY <1>0 DEF Buffer
      <4>3. Relsed(d) \/ Relsed(buf) \/ Relsed(f)
        BY <1>1 DEF WriteDid
      <4> HIDE DEF d, f
      <4> QED BY <1>0, <4>1, <4>2, <4>3
    <3> QED BY <1>3, <3>0, <3>1, RelsedDone
  <2>2. ~bli'.there => bli'.lsn = 0
    BY <1>0, <1>4 DEF FlagsOK, NoItem
  <2> QED BY <1>2, <1>3, <1>5, <2>1, <2>2 DEF CoreOK
<1>12. UseOK'
  BY <1>0, <1>2, <1>3, <1>5 DEF UseOK, NotInUse, Agrees
<1> QED BY <1>7, <1>8, <1>9, <1>10, <1>11, <1>12 DEF Recoverable, CoverOK, AllocOK

----------------------------------------------------------------------------
\* A shutdown.
LEMMA LeastExists ==
  ASSUME NEW B \in SUBSET Nat, B # {}
  PROVE  \E l \in B : \A m \in B : l <= m
<1> DEFINE R == OpToRel(<, Nat)
<1>1. IsWellFoundedOn(R, Nat)
  BY NatLessThanWellFounded
<1>2. R = {ss \in Nat \X Nat : ss[1] < ss[2]}
  BY Zenon DEF OpToRel
<1>3. PICK l \in B : \A m \in B : <<m, l>> \notin R
  <2> HIDE DEF R
  <2> QED BY <1>1, WFMin
<1>4. \A m \in B : l <= m
  <2> SUFFICES ASSUME NEW m \in B, m < l PROVE FALSE
    OBVIOUS
  <2>1. <<m, l>> \in R
    BY <1>2
  <2> QED BY <1>3, <2>1
<1> QED BY <1>4

LEMMA MostExists ==
  ASSUME NEW n \in Nat, NEW B \in SUBSET (1 .. n), B # {}
  PROVE  \E l \in B : \A m \in B : m <= l
<1> DEFINE C == {n - l : l \in B}
<1>1. C \in SUBSET Nat /\ C # {}
  <2>1. \A l \in B : n - l \in Nat
    OBVIOUS
  <2> QED BY <2>1
<1>2. PICK i \in C : \A j \in C : i <= j
  <2> HIDE DEF C
  <2> QED BY <1>1, LeastExists
<1>3. PICK l \in B : i = n - l
  OBVIOUS
<1>4. \A m \in B : n - m \in C
  OBVIOUS
<1> HIDE DEF C
<1>5. ASSUME NEW m \in B PROVE m <= l
  <2>1. i <= n - m
    BY <1>2, <1>4
  <2> QED BY <1>3, <2>1
<1> QED BY <1>5

\* recovery starts no later than at the first record in the AIL or still to be put there
LEMMA TailIsFirst ==
  ASSUME BufCorrect
  PROVE  /\ RecoveryTail \in Nat \ {0}
         /\ \A t \in Txs : Pending(t) => RecoveryTail <= tx[t].lsn
         /\ bli.lsn # 0 => RecoveryTail <= bli.lsn
<1> DEFINE behind == {l \in 1 .. Len(log) : \E t \in Txs : tx[t].lsn = l /\ tx[t].pc \in {"logged", "committed"}}
                       \cup (IF bli.lsn # 0 THEN {bli.lsn} ELSE {}) \cup {Len(log) + 1}
<1>0. TxOK /\ Len(log) \in Nat /\ bli.lsn \in Nat /\ \A t \in Txs : tx[t].lsn \in Nat
  BY RecoverTyped DEF Item
<1>1. behind \in SUBSET (Nat \ {0}) /\ behind # {}
  BY <1>0
<1>2. RecoveryTail = CHOOSE l \in behind : \A m \in behind : l <= m
  BY DEF RecoveryTail
<1>3. \A t \in Txs : Pending(t) => tx[t].lsn \in behind
  <2> SUFFICES ASSUME NEW t \in Txs, Pending(t) PROVE tx[t].lsn \in 1 .. Len(log)
    BY DEF Pending
  <2> QED BY <1>0 DEF TxOK, Pending, PinPcs
<1>4. bli.lsn # 0 => bli.lsn \in behind
  OBVIOUS
<1> HIDE DEF behind
<1>5. \E l \in behind : \A m \in behind : l <= m
  BY <1>1, LeastExists
<1>6. RecoveryTail \in behind /\ \A m \in behind : RecoveryTail <= m
  BY <1>2, <1>5
<1> QED BY <1>1, <1>3, <1>4, <1>6

LEMMA ShutdownRecovers ==
  ASSUME BufCorrect, Recoverable, "late" \notin Shutdowns, Shutdown
  PROVE  Down' /\ DownOK'
<1>0. /\ TailOK /\ UseOK /\ StaleOK
      /\ buf \in Buffer /\ bli \in Item /\ tx \in [Txs -> Tx] /\ Len(log) \in Nat /\ synced \in Nat /\ synced <= Len(log)
      /\ bli.lsn \in Nat /\ \A t \in Txs : tx[t].lsn \in Nat
  BY RecoverableParts
<1>1. UNCHANGED <<buf, bli, tx, core, disk, log, synced, use, io, push>> /\ shut' = RecoveryTail /\ io # "unpin"
  BY DEF Shutdown
<1>2. /\ shut' \in Nat /\ shut' > 0
      /\ \A t \in Txs : Pending(t) => shut' <= tx[t].lsn
      /\ bli.lsn # 0 => shut' <= bli.lsn
  BY <1>1, TailIsFirst
<1>3. Holds(disk)'
  <2>1. ASSUME NEW p \in Parts, NEW l \in 1 .. synced, IsLast(log, synced, p, l)
        PROVE  l >= shut' \/ disk[p] = log[l].val[p]
    <3>1. \/ disk[p] = log[l].val[p]
          \/ bli.lsn # 0 /\ bli.lsn <= l
          \/ \E t \in Txs : Pending(t) /\ tx[t].lsn <= l
      BY <1>0, <2>1 DEF TailOK
    <3> QED BY <1>0, <1>2, <3>1
  <2>2. ASSUME NEW p \in Parts, Silent(log, synced, p), use.state # "user" PROVE disk[p] = 0
    BY <1>0, <2>2 DEF UseOK
  <2> QED BY <1>1, <2>1, <2>2 DEF Holds
<1>4. ASSUME io = "flight" PROVE Holds(core)' /\ buf.lock = "io" /\ push # "locked" /\ \A t \in Txs : ~Live(t) /\ ~tx[t].held
  BY <1>1, <1>4, FlightIsCurrent DEF Holds, Agrees
<1>5. ASSUME NotInUse
      PROVE  /\ io # "flight" /\ "HOLD" \notin bli.flags /\ \A t \in Txs : ~Active(t)
             /\ synced >= use.lsn => \A p \in Parts : \A l \in 1 .. synced : ~IsLast(log, synced, p, l)
  <2>1. io # "flight" /\ "HOLD" \notin bli.flags /\ \A t \in Txs : ~Active(t)
    BY <1>0, <1>5 DEF UseOK, StaleOK, NoItem
  <2>2. synced >= use.lsn => synced = Len(log)
    BY <1>0, <1>5 DEF UseOK
  <2>3. \A p \in Parts : \A l \in 1 .. Len(log) : ~IsLast(log, Len(log), p, l)
    BY <1>5, NoneIsLast
  <2> QED BY <2>1, <2>2, <2>3
<1>6. use \in Use /\ (use.state = "user" => \A p \in Parts : disk[p] = User)
  BY <1>0 DEF UseOK
<1>7. Down'
  BY <1>2 DEF Down
<1> QED BY <1>0, <1>1, <1>2, <1>3, <1>4, <1>5, <1>6, <1>7 DEF DownOK, NotInUse, Active, Live

----------------------------------------------------------------------------
\* A block nobody has logged, and one that has just been allocated.
LEMMA StartsRecoverable == ASSUME IsFiniteSet(Txs), BufInit PROVE Recoverable
<1>0. /\ \A t \in Txs : tx[t] = NoTx
      /\ core = [p \in Parts |-> 0] /\ io = "none"
      /\ Unlogged \/ LoggedBefore
  BY DEF BufInit
<1>1. \A t \in Txs : /\ tx[t].pc = "idle" /\ tx[t].lsn = 0 /\ ~tx[t].stale /\ ~tx[t].alloc
                     /\ ~Pending(t) /\ ~Changes(t) /\ ~Active(t) /\ ~Uses(t) /\ ~Fresh(t) /\ ~Staler(t) /\ ~Live(t)
  BY <1>0 DEF NoTx, Pending, Changes, Active, Uses, Fresh, Staler, Live
<1>2. CASE Unlogged
  <2>1. /\ buf = NoBuf /\ bli = NoItem /\ log = <<>> /\ synced = 0 /\ disk = [p \in Parts |-> 0]
        /\ use \in Use /\ use.lsn = 0 /\ use.state \in {"meta", "free"}
    BY <1>2 DEF Unlogged, Use
  <2>2. Len(log) = 0
    BY <2>1
  <2>3. LogOK
    BY <1>1, <2>1, <2>2 DEF LogOK, NoItem
  <2>4. CoverOK
    BY <1>1, <2>1, <2>2 DEF CoverOK, TailOK, LeftOutOK, ItemOK
  <2>5. AllocOK
    BY <1>1, <2>1 DEF AllocOK, ImageOK, FormatOK, FreshOK, NoItem
  <2>6. CoreOK
    BY <1>0, <1>1, <2>1 DEF CoreOK, NoBuf, NoItem
  <2>7. UseOK
    BY <1>0, <1>1, <2>1, <2>2 DEF UseOK, NotInUse, NoBuf
  <2> QED BY <2>3, <2>4, <2>5, <2>6, <2>7 DEF Recoverable
<1>3. CASE LoggedBefore
  <2> DEFINE e == [parts |-> Parts, val |-> [p \in Parts |-> 0], cancel |-> FALSE]
  <2>1. /\ buf = [NoBuf EXCEPT !.hold = 2, !.delwri = TRUE, !.queued = TRUE, !.done = TRUE, !.iodone = TRUE]
        /\ bli = [NoItem EXCEPT !.there = TRUE, !.map = Parts, !.lsn = 1,
                         !.flags = {"DIRTY"} \cup (IF kind = "inode" THEN {"INODE_ALLOC"} ELSE {})]
        /\ log = <<e>> /\ synced = 1
        /\ use = [state |-> "meta", lsn |-> 0]
    BY <1>3 DEF LoggedBefore
  <2>2. buf.done = TRUE /\ buf.delwri = TRUE
    BY <2>1 DEF NoBuf
  <2>3. PICK f : f = {"DIRTY"} \cup (IF kind = "inode" THEN {"INODE_ALLOC"} ELSE {})
    OBVIOUS
  <2>4. bli.lsn = 1 /\ bli.map = Parts /\ bli.flags = f /\ bli.fmt = {}
    BY <2>1, <2>3 DEF NoItem
  <2>5. /\ Len(log) = 1 /\ log[1] = e
    BY <2>1
  <2>6. e.parts = Parts /\ e.cancel = FALSE /\ \A p \in Parts : e.val[p] = 0
    OBVIOUS
  <2> HIDE DEF e
  <2>7. /\ \A p \in Parts, l \in 1 .. 1 : log[l].val[p] = 0 /\ p \in log[l].parts /\ ~log[l].cancel
        /\ \A p \in Parts : ~Silent(log, 1, p)
    BY <2>5, <2>6 DEF Silent
  <2>8. LogOK
    BY <1>1, <2>1, <2>4, <2>5, <2>6 DEF LogOK
  <2>9. CoverOK
    <3>1. TailOK
      BY <2>1, <2>4 DEF TailOK
    <3>2. LeftOutOK
      BY <1>1 DEF LeftOutOK
    <3>3. ItemOK
      BY <2>3, <2>4 DEF ItemOK, Logged
    <3> QED BY <3>1, <3>2, <3>3 DEF CoverOK
  <2>10. AllocOK
    BY <1>1, <2>3, <2>4 DEF AllocOK, ImageOK, FormatOK, FreshOK
  <2>11. CoreOK
    BY <1>0, <1>1, <2>2, <2>4, <2>5, <2>7 DEF CoreOK, Agrees, Changing
  <2>12. UseOK
    <3>1. use \in Use /\ use.state = "meta"
      BY <2>1 DEF Use
    <3> QED BY <1>1, <2>1, <2>7, <3>1 DEF UseOK, NotInUse
  <2> QED BY <2>8, <2>9, <2>10, <2>11, <2>12 DEF Recoverable
<1> QED BY <1>0, <1>2, <1>3

\* Each step of a live filesystem.
LEMMA StepRecovers ==
  ASSUME BufCorrect, Recoverable, ~Down, BufNext, ~Down'
  PROVE  Recoverable'
<1>1. BufCorrect'
  BY StepKeeps DEF Down
<1>2. ASSUME CalmDid PROVE Recoverable'
  BY <1>1, <1>2, CalmKeeps
<1>3. ASSUME NEW t \in Txs, Trans(t) PROVE Recoverable'
  <2>1. CASE Find(t) \/ GetBuf(t)
    BY <2>1, FindRecovers, GetBufRecovers
  <2>2. CASE GetAgain(t) \/ Bhold(t) \/ BholdRelease(t) \/ Brelse(t)
    BY <1>2, <2>2, MarkCalm, DropCalm
  <2>3. CASE Bjoin(t) \/ Relse(t)
    BY <1>2, <2>3, BjoinCalm, RelseCalm
  <2>4. CASE LogBuf(t) \/ Binval(t)
    BY <2>4, LogBufRecovers, BinvalRecovers
  <2>5. CASE Clean(t) \/ UnlockItems(t)
    BY <1>2, <2>5, DropCalm, UnlockItemsCalm
  <2>6. CASE Commit(t) \/ CbAil(t)
    BY <2>6, CommitRecovers, CbAilRecovers
  <2>7. CASE Abort(t) \/ Uncommit(t)
    BY <2>7 DEF Abort, Uncommit
  <2>8. CASE CbDrop(t) \/ CbUnpin(t)
    BY <1>2, <2>8, CbDropCalm, CbUnpinCalm, UnpinRecovers
  <2> QED BY <1>3, <2>1, <2>2, <2>3, <2>4, <2>5, <2>6, <2>7, <2>8 DEF Trans
<1>4. CASE PushCheck \/ BufdCheck \/ Strategy \/ Submit
  BY <1>2, <1>4, IoCalm
<1>5. CASE PushLock \/ Push \/ BufdLock
  BY <1>2, <1>5, PushLockCalm, PushCalm, BufdLockCalm
<1>6. CASE WriteDone \/ WriteError
  BY <1>2, <1>6, WriteRecovers, WriteErrorCalm
<1>7. CASE InodeFlush \/ SyncLog \/ UserWrite
  BY <1>7, FlushRecovers, SyncRecovers, UserRecovers
<1>8. CASE Shutdown
  <2>1. shut' = 0
    BY DEF Down
  <2> QED BY <1>8, <2>1, TailIsFirst DEF Shutdown
<1> QED BY <1>3, <1>4, <1>5, <1>6, <1>7, <1>8 DEF BufNext

----------------------------------------------------------------------------
\* Once the filesystem is down.
LEMMA RawFields ==
  ASSUME NEW s \in Both, NEW b \in Buffer, NEW i \in Item
  PROVE  /\ [s EXCEPT !.buf = b] \in Both /\ [s EXCEPT !.buf = b].bli = s.bli /\ [s EXCEPT !.buf = b].buf = b
         /\ [s EXCEPT !.bli = i] \in Both /\ [s EXCEPT !.bli = i].bli = i /\ [s EXCEPT !.bli = i].buf = s.buf
BY DEF Both

LEMMA RawFound ==
  ASSUME NEW s \in Both
  PROVE  BufFound(s) \in Both /\ BufFound(s).bli = s.bli /\ BufRead(s) \in Both /\ BufRead(s).bli = s.bli
<1>1. s.buf \in Buffer
  BY DEF Both
<1> DEFINE a == [s.buf EXCEPT !.stale = FALSE, !.done = FALSE, !.delwri = FALSE]
           b == [s.buf EXCEPT !.done = TRUE]
<1>2. a \in Buffer /\ b \in Buffer
  BY <1>1 DEF Buffer
<1>3. /\ [s EXCEPT !.buf.stale = FALSE, !.buf.done = FALSE, !.buf.delwri = FALSE] = [s EXCEPT !.buf = a]
      /\ [s EXCEPT !.buf.done = TRUE] = [s EXCEPT !.buf = b]
  BY <1>1 DEF Both, Buffer
<1> HIDE DEF a, b
<1>4. s.bli \in Item
  BY DEF Both
<1>5. [s EXCEPT !.buf = a] \in Both /\ [s EXCEPT !.buf = a].bli = s.bli
  BY <1>2, <1>4, RawFields
<1>6. [s EXCEPT !.buf = b] \in Both /\ [s EXCEPT !.buf = b].bli = s.bli
  BY <1>2, <1>4, RawFields
<1> QED BY <1>3, <1>5, <1>6 DEF BufFound, BufRead

LEMMA RawStale == ASSUME NEW s \in Both PROVE SuperStale(s) \in Both /\ SuperStale(s).bli = s.bli
<1> DEFINE d == DelwriDequeue(s)
           b == [d.buf EXCEPT !.stale = TRUE, !.done = TRUE]
<1>1. d \in Both /\ d.bli = s.bli
  BY RawDequeue
<1>2. SuperStale(s) = [d EXCEPT !.buf.stale = TRUE, !.buf.done = TRUE]
  BY DEF SuperStale
<1> HIDE DEF d
<1>3. d.buf \in Buffer /\ d.bli \in Item
  BY <1>1 DEF Both
<1>4. b \in Buffer
  BY <1>3 DEF Buffer
<1>5. [d EXCEPT !.buf.stale = TRUE, !.buf.done = TRUE] = [d EXCEPT !.buf = b]
  BY <1>1, <1>3 DEF Both, Buffer
<1> HIDE DEF b
<1>6. [d EXCEPT !.buf = b] \in Both /\ [d EXCEPT !.buf = b].bli = d.bli
  BY <1>1, <1>3, <1>4, RawFields
<1> QED BY <1>1, <1>2, <1>5, <1>6

LEMMA RawJoined == ASSUME NEW s \in Both PROVE Joined(s) \in Both
<1>1. /\ s.buf \in Buffer /\ s.bli \in Item /\ 0 \in Int /\ 1 \in Int
      /\ s.bli.ref + 1 \in Int /\ s.buf.hold + 1 \in Int
  BY DEF Both, Buffer, Item
<1> DEFINE i == [s.bli EXCEPT !.ref = s.bli.ref + 1, !.recur = 0]
           j == [s.bli EXCEPT !.there = TRUE, !.ref = 1]
           b == [s.buf EXCEPT !.hold = s.buf.hold + 1]
<1>2. i \in Item /\ j \in Item
  BY <1>1 DEF Item
<1>3. b \in Buffer
  BY <1>1 DEF Buffer
<1>4. [s EXCEPT !.bli.ref = @ + 1, !.bli.recur = 0] = [s EXCEPT !.bli = i]
  BY <1>1 DEF Both, Item
<1>5. [s EXCEPT !.buf.hold = @ + 1, !.bli.there = TRUE, !.bli.ref = 1] = [s EXCEPT !.buf = b, !.bli = j]
  BY <1>1 DEF Both, Item, Buffer
<1> HIDE DEF i, j, b
<1>6. [s EXCEPT !.bli = i] \in Both
  BY <1>2 DEF Both
<1>7. [s EXCEPT !.buf = b, !.bli = j] \in Both
  BY <1>2, <1>3 DEF Both
<1> QED BY <1>4, <1>5, <1>6, <1>7 DEF Joined

LEMMA RawUnpinStale == ASSUME NEW s \in Both PROVE UnpinStale(s) \in Both /\ UnpinStale(s).bli.flags \subseteq s.bli.flags
<1> DEFINE d == IF "STALE_INODE" \in s.bli.flags THEN DoCallbacks(s) ELSE ItemRelse(s)
<1>1. d \in Both /\ d.bli \in {NoItem, s.bli}
  BY RawCallbacks, RawItemRelse
<1>2. UnpinStale(s) = BufRelse(d)
  BY DEF UnpinStale
<1> HIDE DEF d
<1> QED BY <1>1, <1>2, RawRelse DEF NoItem

LEMMA RawFlags ==
  ASSUME NEW s \in Both, NEW A
  PROVE  /\ [s EXCEPT !.bli.flags = @ \ A] \in Both /\ [s EXCEPT !.bli.flags = @ \ A].bli.flags = s.bli.flags \ A
         /\ [s EXCEPT !.bli.flags = @ \ A].bli.map = s.bli.map
<1> DEFINE i == [s.bli EXCEPT !.flags = s.bli.flags \ A]
<1>1. s.bli \in Item /\ s.buf \in Buffer
  BY DEF Both
<1>2. i \in Item /\ i.flags = s.bli.flags \ A /\ i.map = s.bli.map
  BY <1>1 DEF Item
<1>3. [s EXCEPT !.bli.flags = @ \ A] = [s EXCEPT !.bli = i]
  BY <1>1 DEF Both, Item
<1> HIDE DEF i
<1>4. [s EXCEPT !.bli = i] \in Both /\ [s EXCEPT !.bli = i].bli = i
  BY <1>1, <1>2, RawFields
<1>5. [s EXCEPT !.bli.flags = @ \ A] \in Both /\ [s EXCEPT !.bli.flags = @ \ A].bli = i
  BY <1>3, <1>4
<1> QED BY <1>2, <1>5

LEMMA RawRef ==
  ASSUME NEW s \in Both
  PROVE  [s EXCEPT !.bli.ref = @ - 1] \in Both /\ [s EXCEPT !.bli.ref = @ - 1].bli.flags = s.bli.flags
<1> DEFINE i == [s.bli EXCEPT !.ref = s.bli.ref - 1]
<1>1. s.bli \in Item /\ s.buf \in Buffer /\ s.bli.ref - 1 \in Int
  BY DEF Both, Item
<1>2. i \in Item /\ i.flags = s.bli.flags
  BY <1>1 DEF Item
<1>3. [s EXCEPT !.bli.ref = @ - 1] = [s EXCEPT !.bli = i]
  BY <1>1 DEF Both, Item
<1> HIDE DEF i
<1>4. [s EXCEPT !.bli = i] \in Both /\ [s EXCEPT !.bli = i].bli = i
  BY <1>1, <1>2, RawFields
<1> QED BY <1>2, <1>3, <1>4

LEMMA RawItemUnlock ==
  ASSUME NEW s \in Both, NEW a \in BOOLEAN
  PROVE  ItemUnlock(s, a) \in Both /\ ItemUnlock(s, a).bli.flags \subseteq s.bli.flags
<1> DEFINE u == [s EXCEPT !.bli.flags = IF "STALE" \in @ THEN @ \ {"LOGGED"} ELSE @]
           r == IF "LOGGED" \in u.bli.flags THEN [u EXCEPT !.bli.flags = @ \ {"LOGGED"}] ELSE [u EXCEPT !.bli.ref = @ - 1]
           f == IF u.bli.map = {} THEN ItemRelse(r) ELSE [r EXCEPT !.bli.flags = @ \ {"HOLD"}]
<1>1. ItemUnlock(s, a) = IF "STALE" \in s.bli.flags /\ ~a THEN u ELSE IF "HOLD" \in s.bli.flags THEN f ELSE BufRelse(f)
  BY DEF ItemUnlock
<1>2. u \in Both /\ u.bli.flags \subseteq s.bli.flags
  <2>1. CASE "STALE" \in s.bli.flags
    <3>1. u = [s EXCEPT !.bli.flags = @ \ {"LOGGED"}]
      BY <2>1
    <3> HIDE DEF u
    <3> QED BY <3>1, RawFlags
  <2>2. CASE "STALE" \notin s.bli.flags
    <3>1. u = [s EXCEPT !.bli.flags = @ \ {}]
      BY <2>2
    <3> HIDE DEF u
    <3> QED BY <3>1, RawFlags
  <2> QED BY <2>1, <2>2
<1> HIDE DEF u
<1>3. r \in Both /\ r.bli.flags \subseteq s.bli.flags
  <2>1. /\ [u EXCEPT !.bli.flags = @ \ {"LOGGED"}] \in Both
        /\ [u EXCEPT !.bli.flags = @ \ {"LOGGED"}].bli.flags \subseteq u.bli.flags
    <3>1. [u EXCEPT !.bli.flags = @ \ {"LOGGED"}].bli.flags = u.bli.flags \ {"LOGGED"}
      BY <1>2, RawFlags
    <3> QED BY <1>2, <3>1, RawFlags
  <2>2. [u EXCEPT !.bli.ref = @ - 1] \in Both /\ [u EXCEPT !.bli.ref = @ - 1].bli.flags = u.bli.flags
    BY <1>2, RawRef
  <2> QED BY <1>2, <2>1, <2>2
<1> HIDE DEF r
<1>4. f \in Both /\ f.bli.flags \subseteq s.bli.flags
  <2>1. [r EXCEPT !.bli.flags = @ \ {"HOLD"}] \in Both
    BY <1>3, RawFlags
  <2>2. [r EXCEPT !.bli.flags = @ \ {"HOLD"}].bli.flags = r.bli.flags \ {"HOLD"}
    BY <1>3, RawFlags
  <2>3. ItemRelse(r) \in Both /\ ItemRelse(r).bli = NoItem
    BY <1>3, RawItemRelse
  <2> QED BY <1>3, <2>1, <2>2, <2>3 DEF NoItem
<1> HIDE DEF f
<1>5. BufRelse(f) \in Both /\ BufRelse(f).bli = f.bli
  BY <1>4, RawRelse
<1> QED BY <1>1, <1>2, <1>4, <1>5

----------------------------------------------------------------------------
\* What a step does to a filesystem that is down, but for the owner of a freed block.
DownDid ==
  /\ buf' \in Buffer /\ bli' \in Item /\ tx' \in [Txs -> Tx]
  /\ UNCHANGED <<log, synced, shut>> /\ use' \in Use /\ use'.lsn = use.lsn
  /\ (NotInUse' => NotInUse) /\ (use'.state = "user" <=> use.state = "user")
  /\ NotInUse' => "HOLD" \notin bli'.flags /\ \A t \in Txs : ~Active(t)'
  /\ io' # "unpin"
  /\ io' = "flight" => /\ io = "flight" /\ UNCHANGED core /\ buf'.lock = "io" /\ push' # "locked"
                       /\ \A t \in Txs : ~Live(t)' /\ ~tx'[t].held
  /\ disk' = disk \/ (io = "flight" /\ disk' = core)

LEMMA DownDidKeeps == ASSUME DownOK, DownDid PROVE DownOK'
<1>1. /\ buf' \in Buffer /\ bli' \in Item /\ tx' \in [Txs -> Tx]
      /\ synced' \in Nat /\ synced' <= Len(log)' /\ shut' > 0 /\ io' # "unpin" /\ use' \in Use
  BY DEF DownOK, DownDid
<1>2. Holds(disk)'
  BY DEF DownOK, DownDid, Holds
<1>3. NotInUse' => /\ io' # "flight" /\ "HOLD" \notin bli'.flags /\ \A t \in Txs : ~Active(t)'
                   /\ synced' >= use'.lsn => \A p \in Parts : \A l \in 1 .. synced' : ~IsLast(log', synced', p, l)
  BY DEF DownOK, DownDid
<1>4. use'.state = "user" => \A p \in Parts : disk'[p] = User
  BY DEF DownOK, DownDid, NotInUse
<1>5. io' = "flight" => /\ Holds(core)' /\ buf'.lock = "io" /\ push' # "locked"
                        /\ \A t \in Txs : ~Live(t)' /\ ~tx'[t].held
  BY DEF DownOK, DownDid, Holds
<1> QED BY <1>1, <1>2, <1>3, <1>4, <1>5 DEF DownOK

LEMMA DownTyped ==
  ASSUME DownOK
  PROVE  S \in Both /\ S.buf = buf /\ S.bli = bli /\ tx \in [Txs -> Tx] /\ \A t \in Txs : tx[t] \in Tx
BY DEF DownOK, S, Both

LEMMA Installed ==
  ASSUME NEW s \in Both, Install(s)
  PROVE  buf' \in Buffer /\ bli' \in Item /\ bli' = s.bli
BY DEF Install, Both

\* a transaction that has the buffer, or waits for it
LEMMA UserDown ==
  ASSUME DownOK, NEW t \in Txs, Active(t), Live(t) \/ tx[t].held \/ buf.lock # "io",
         buf' \in Buffer, bli' \in Item, tx' \in [Txs -> Tx], UNCHANGED <<log, synced, shut, disk, io>>,
         UNCHANGED use \/ (use' \in Use /\ use'.lsn = use.lsn /\ use'.state \in {"meta", "freeing"})
  PROVE  DownDid
<1>1. ~NotInUse /\ io # "flight" /\ io # "unpin" /\ use \in Use
  BY DEF DownOK
<1> QED BY <1>1 DEF DownDid, NotInUse

LEMMA UserDownDid ==
  ASSUME DownOK, Down, NEW t \in Txs,
         GetBuf(t) \/ GetAgain(t) \/ Brelse(t) \/ Bhold(t) \/ BholdRelease(t) \/ Bjoin(t) \/ Relse(t)
           \/ LogBuf(t) \/ Binval(t) \/ Clean(t) \/ Abort(t)
  PROVE  DownDid
<1>0. /\ S \in Both /\ S.buf = buf /\ S.bli = bli /\ tx \in [Txs -> Tx] /\ tx[t] \in Tx
      /\ buf \in Buffer /\ bli \in Item /\ use \in Use
  BY DownTyped DEF DownOK
<1>1. \A pc \in {"in", "done"} : To(t, pc) => tx' \in [Txs -> Tx]
  BY <1>0 DEF To, Tx
<1>2. CASE GetBuf(t)
  <2> DEFINE l == [S EXCEPT !.buf.lock = "tx"]
             s == BufFound(l)
             r == IF tx[t].alloc THEN s ELSE BufRead(s)
  <2>1. l \in Both
    <3>1. [buf EXCEPT !.lock = "tx"] \in Buffer
      BY <1>0 DEF Buffer
    <3>2. l = [S EXCEPT !.buf = [buf EXCEPT !.lock = "tx"]]
      BY <1>0 DEF Both
    <3> QED BY <1>0, <3>1, <3>2, RawFields
  <2> HIDE DEF l
  <2>2. s \in Both
    BY <2>1, RawFound
  <2> HIDE DEF s
  <2>3. r \in Both /\ BufRead(s) \in Both
    BY <2>2, RawFound
  <2>4. /\ tx[t].pc = "wait" /\ buf.lock = "free"
        /\ \/ Install(Joined(r)) /\ To(t, "in")
           \/ Install(BufRelse(BufRead(s))) /\ To(t, "done")
        /\ UNCHANGED <<log, synced, shut, disk, io, use>>
    BY <1>2 DEF GetBuf, s, l
  <2> HIDE DEF r
  <2>5. Joined(r) \in Both
    BY <2>3, RawJoined
  <2>6. BufRelse(BufRead(s)) \in Both
    BY <2>3, RawRelse
  <2>7. tx' \in [Txs -> Tx] /\ buf' \in Buffer /\ bli' \in Item
    BY <1>1, <2>4, <2>5, <2>6, Installed
  <2> QED BY <2>4, <2>7, UserDown DEF Active
<1>3. CASE GetAgain(t) \/ Bhold(t) \/ BholdRelease(t)
  <2>1. tx[t].pc = "in" /\ UNCHANGED <<buf, tx, log, synced, shut, disk, io, use>>
    BY <1>3 DEF GetAgain, Bhold, BholdRelease
  <2>2. bli' \in Item
    <3>1. 1 \in Int /\ bli.flags \cup {"HOLD"} \in SUBSET Flags /\ bli.flags \ {"HOLD"} \in SUBSET Flags
      BY <1>0 DEF Item, Flags
    <3> QED BY <1>0, <1>3, <3>1 DEF GetAgain, Bhold, BholdRelease, Item
  <2> QED BY <1>0, <2>1, <2>2, UserDown DEF Active, Live
<1>4. CASE Brelse(t)
  <2>1. tx[t].pc = "in" /\ UNCHANGED <<log, synced, shut, disk, io, use>>
    BY <1>4 DEF Brelse
  <2>2. CASE UNCHANGED <<buf, tx>> /\ bli' = [bli EXCEPT !.recur = @ - 1]
    <3>1. bli.recur - 1 \in Int
      BY <1>0 DEF Item
    <3>2. bli' \in Item
      BY <1>0, <2>2, <3>1 DEF Item
    <3> QED BY <1>0, <2>1, <2>2, <3>2, UserDown DEF Active, Live
  <2>3. CASE ~(UNCHANGED <<buf, tx>> /\ bli' = [bli EXCEPT !.recur = @ - 1])
    <3> DEFINE s == [S EXCEPT !.bli.flags = @ \ {"HOLD"}, !.bli.ref = @ - 1]
               r == IF "DIRTY" \in bli.flags THEN s ELSE ItemRelse(s)
    <3>1. Install(BufRelse(r)) /\ To(t, "done")
      BY <1>4, <2>3 DEF Brelse
    <3>2. s \in Both
      <4>1. bli.ref - 1 \in Int /\ bli.flags \ {"HOLD"} \in SUBSET Flags
        BY <1>0 DEF Item
      <4>2. [bli EXCEPT !.flags = @ \ {"HOLD"}, !.ref = @ - 1] \in Item
        BY <1>0, <4>1 DEF Item
      <4>3. s = [S EXCEPT !.bli = [bli EXCEPT !.flags = @ \ {"HOLD"}, !.ref = @ - 1]]
        BY <1>0 DEF Both, Item
      <4>4. PICK i \in Item : i = [bli EXCEPT !.flags = @ \ {"HOLD"}, !.ref = @ - 1]
        BY <4>2
      <4>5. [S EXCEPT !.bli = i] \in Both
        BY <1>0, RawFields
      <4> QED BY <4>3, <4>4, <4>5
    <3> HIDE DEF s
    <3>3. r \in Both
      BY <3>2, RawItemRelse
    <3> HIDE DEF r
    <3>4. BufRelse(r) \in Both
      BY <3>3, RawRelse
    <3>5. buf' \in Buffer /\ bli' \in Item
      BY <3>1, <3>4, Installed
    <3> QED BY <1>1, <2>1, <3>1, <3>5, UserDown DEF Active, Live
  <2> QED BY <2>2, <2>3
<1>5. CASE Bjoin(t)
  <2>1. PICK u \in Txs : tx[u].held /\ tx' = [tx EXCEPT ![u].held = FALSE, ![t].pc = "in"]
    BY <1>5 DEF Bjoin
  <2>2. tx' \in [Txs -> Tx]
    <3> DEFINE y == [tx EXCEPT ![u].held = FALSE]
    <3>1. y \in [Txs -> Tx]
      BY <1>0 DEF Tx
    <3>2. tx' = [y EXCEPT ![t].pc = "in"]
      BY <2>1
    <3> HIDE DEF y
    <3> QED BY <3>1, <3>2 DEF Tx
  <2>3. Joined(S) \in Both /\ Install(Joined(S)) /\ UNCHANGED <<log, synced, shut, disk, io, use>>
    BY <1>0, <1>5, RawJoined DEF Bjoin
  <2>4. buf' \in Buffer /\ bli' \in Item
    BY <2>3, Installed
  <2> QED BY <2>1, <2>2, <2>3, <2>4, UserDown DEF Active
<1>6. CASE Relse(t)
  <2>1. tx[t].held /\ tx' \in [Txs -> Tx] /\ UNCHANGED <<log, synced, shut, disk, io, use>> /\ Install(BufRelse(S))
    BY <1>0, <1>6 DEF Relse, Tx
  <2>2. BufRelse(S) \in Both
    BY <1>0, RawRelse
  <2>3. buf' \in Buffer /\ bli' \in Item
    BY <2>1, <2>2, Installed
  <2> QED BY <2>1, <2>3, UserDown DEF Active
<1>7. CASE LogBuf(t)
  <2>1. tx[t].pc = "in" /\ UNCHANGED <<log, synced, shut, disk, io>>
    BY <1>7 DEF LogBuf
  <2>2. use' \in Use /\ use'.lsn = use.lsn /\ use'.state = "meta"
    BY <1>0, <1>7 DEF LogBuf, Use
  <2>3. buf' \in Buffer /\ tx' \in [Txs -> Tx]
    <3>1. buf' \in Buffer
      BY <1>0, <1>7 DEF LogBuf, Buffer
    <3>2. tx' \in [Txs -> Tx]
      BY <1>0, <1>7 DEF LogBuf, Tx
    <3> QED BY <3>1, <3>2
  <2>4. bli' \in Item
    <3>1. PICK r \in Ranges(t) :
            bli' = [bli EXCEPT
              !.flags = (@ \ {"STALE"}) \cup {"LOGGED", "DIRTY"} \cup (IF kind = "inode" /\ r = Parts THEN {"INODE_ALLOC"} ELSE {}),
              !.fmt = (@ \ {"CANCEL"}) \cup (IF kind = "inode" /\ r # Parts THEN {"INODE_BUF"} ELSE {}),
              !.map = @ \cup r]
      BY <1>7 DEF LogBuf
    <3>2. r \in SUBSET Parts
      BY <3>1 DEF Ranges, Parts
    <3>3. PICK F \in SUBSET Flags, M \in SUBSET {"INODE_BUF", "CANCEL"} : bli' = [bli EXCEPT !.flags = F, !.fmt = M, !.map = @ \cup r]
      <4>1. (bli.flags \ {"STALE"}) \cup {"LOGGED", "DIRTY"} \cup (IF kind = "inode" /\ r = Parts THEN {"INODE_ALLOC"} ELSE {}) \in SUBSET Flags
        BY <1>0 DEF Item, Flags
      <4>2. (bli.fmt \ {"CANCEL"}) \cup (IF kind = "inode" /\ r # Parts THEN {"INODE_BUF"} ELSE {}) \in SUBSET {"INODE_BUF", "CANCEL"}
        BY <1>0 DEF Item
      <4> QED BY <3>1, <4>1, <4>2
    <3>4. bli.map \cup r \in SUBSET Parts
      BY <1>0, <3>2 DEF Item
    <3> QED BY <1>0, <3>3, <3>4 DEF Item
  <2> QED BY <2>1, <2>2, <2>3, <2>4, UserDown DEF Active, Live
<1>8. CASE Binval(t)
  <2> DEFINE s == DelwriDequeue(S)
             F == (s.bli.flags \ {"LOGGED", "DIRTY"}) \cup {"STALE"} \cup (IF buf.ino THEN {"STALE_INODE"} ELSE {})
  <2>1. tx[t].pc = "in" /\ UNCHANGED <<log, synced, shut, disk, io>>
    BY <1>8 DEF Binval
  <2>2. use' \in Use /\ use'.lsn = use.lsn /\ use'.state = "freeing"
    BY <1>0, <1>8 DEF Binval, Use
  <2>3. tx' \in [Txs -> Tx]
    BY <1>0, <1>8 DEF Binval, Tx
  <2>4. s \in Both
    BY <1>0, RawDequeue
  <2>5. buf' = [s.buf EXCEPT !.stale = TRUE] /\ bli' = [s.bli EXCEPT !.flags = F, !.fmt = {"CANCEL"}, !.map = {}]
    BY <1>8, <2>4 DEF Binval, Install, Both
  <2> HIDE DEF s
  <2>6. F \in SUBSET Flags /\ s.buf \in Buffer /\ s.bli \in Item
    BY <2>4 DEF Both, Item, Flags
  <2> HIDE DEF F
  <2>7. buf' \in Buffer /\ bli' \in Item
    <3>1. buf' \in Buffer
      BY <2>5, <2>6 DEF Buffer
    <3>2. bli' \in Item
      BY <2>5, <2>6 DEF Item
    <3> QED BY <3>1, <3>2
  <2> QED BY <2>1, <2>2, <2>3, <2>7, UserDown DEF Active, Live
<1>9. CASE Clean(t) \/ Abort(t)
  <2>1. PICK a \in BOOLEAN : Install(ItemUnlock(S, a))
    BY <1>9 DEF Clean, Abort
  <2>2. /\ tx[t].pc = "in" /\ UNCHANGED <<log, synced, shut, disk, io, use>>
        /\ tx' = [tx EXCEPT ![t].pc = "done", ![t].held = "HOLD" \in bli.flags]
    BY <1>9 DEF Clean, Abort
  <2>3. ItemUnlock(S, a) \in Both
    BY <1>0, RawItemUnlock
  <2>4. buf' \in Buffer /\ bli' \in Item
    BY <2>1, <2>3, Installed
  <2>5. tx' \in [Txs -> Tx]
    <3>1. PICK h : h = ("HOLD" \in bli.flags)
      OBVIOUS
    <3>2. h \in BOOLEAN
      BY <3>1
    <3>3. tx' = [tx EXCEPT ![t].pc = "done", ![t].held = h]
      BY <2>2, <3>1
    <3> QED BY <1>0, <3>2, <3>3 DEF Tx
  <2> QED BY <2>2, <2>4, <2>5, UserDown DEF Active, Live
<1> QED BY <1>2, <1>3, <1>4, <1>5, <1>6, <1>7, <1>8, <1>9

\* the end of a transaction, and xfs_trans_committed
LEMMA EndDown ==
  ASSUME DownOK, NEW t \in Txs, Live(t), NEW s \in Both, Install(s), s.bli.flags \subseteq bli.flags,
         NEW h \in BOOLEAN, h => tx[t].held \/ "HOLD" \in bli.flags, NEW pc \in {"committed", "ail", "drop", "done"},
         NEW f \in BOOLEAN,
         tx' = [tx EXCEPT ![t].pc = pc, ![t].held = h, ![t].freed = f],
         UNCHANGED <<log, synced, shut, disk, io, use>>
  PROVE  DownDid
<1>0. tx \in [Txs -> Tx] /\ tx[t] \in Tx /\ use \in Use /\ io # "unpin" /\ io # "flight"
  BY DownTyped DEF DownOK
<1>1. buf' \in Buffer /\ bli' \in Item /\ bli' = s.bli
  BY Installed
<1>2. tx' \in [Txs -> Tx] /\ tx'[t].pc = pc /\ tx'[t].held = h /\ \A u \in Txs \ {t} : tx'[u] = tx[u]
  BY <1>0 DEF Tx
<1>3. ASSUME NotInUse PROVE "HOLD" \notin bli'.flags /\ \A u \in Txs : ~Active(u)'
  <2>1. "HOLD" \notin bli.flags /\ \A u \in Txs : ~Active(u)
    BY <1>3 DEF DownOK
  <2>2. ~Active(t)'
    BY <1>2, <2>1 DEF Active
  <2>3. \A u \in Txs \ {t} : ~Active(u)'
    BY <1>2, <2>1 DEF Active
  <2> QED BY <1>1, <2>1, <2>2, <2>3
<1> QED BY <1>0, <1>1, <1>2, <1>3 DEF DownDid, NotInUse

LEMMA EndDownDid ==
  ASSUME DownOK, Down, NEW t \in Txs, UnlockItems(t) \/ Uncommit(t) \/ CbAil(t) \/ CbDrop(t) \/ CbUnpin(t)
  PROVE  DownDid
<1>0. /\ S \in Both /\ S.buf = buf /\ S.bli = bli /\ tx \in [Txs -> Tx] /\ tx[t] \in Tx
      /\ buf \in Buffer /\ bli \in Item
  BY DownTyped DEF DownOK
<1>1. PICK h : h = ("HOLD" \in bli.flags)
  OBVIOUS
<1>2. PICK e \in BOOLEAN, f \in BOOLEAN : e = tx[t].held /\ f = tx[t].freed
  BY <1>0 DEF Tx
<1>10. h \in BOOLEAN /\ (h => tx[t].held \/ "HOLD" \in bli.flags) /\ (e => tx[t].held \/ "HOLD" \in bli.flags)
  BY <1>1, <1>2
<1>3. ASSUME NEW pc, tx' = [tx EXCEPT ![t].pc = pc, ![t].held = h]
      PROVE  tx' = [tx EXCEPT ![t].pc = pc, ![t].held = h, ![t].freed = f]
  BY <1>0, <1>2, <1>3 DEF Tx
<1>4. ASSUME NEW pc, tx' = [tx EXCEPT ![t].pc = pc]
      PROVE  tx' = [tx EXCEPT ![t].pc = pc, ![t].held = e, ![t].freed = f]
  BY <1>0, <1>2, <1>4 DEF Tx
<1>5. CASE UnlockItems(t)
  <2>1. /\ Live(t) /\ Install(ItemUnlock(S, FALSE)) /\ UNCHANGED <<log, synced, shut, disk, io, use>>
        /\ tx' = [tx EXCEPT ![t].pc = "committed", ![t].held = h]
    BY <1>1, <1>5 DEF UnlockItems, Live
  <2>2. PICK s \in Both : s = ItemUnlock(S, FALSE) /\ s.bli.flags \subseteq bli.flags
    BY <1>0, RawItemUnlock
  <2>3. tx' = [tx EXCEPT ![t].pc = "committed", ![t].held = h, ![t].freed = f] /\ Install(s)
    BY <1>3, <2>1, <2>2
  <2> QED BY <1>2, <1>10, <2>1, <2>2, <2>3, EndDown
<1>6. CASE Uncommit(t)
  <2> DEFINE last == bli.ref = 1
             s == [S EXCEPT !.bli.ref = @ - 1, !.buf.pin = @ - 1]
             gone == last /\ "STALE" \in bli.flags
             u == IF gone /\ tx[t].stale THEN UnpinStale(s) ELSE s
             r == IF gone THEN u ELSE ItemUnlock(u, TRUE)
  <2>1. /\ Live(t) /\ Install(r) /\ UNCHANGED <<log, synced, shut, disk, io, use>>
        /\ tx' = [tx EXCEPT ![t].pc = "done", ![t].held = h]
    BY <1>1, <1>6 DEF Uncommit, Live
  <2>2. s \in Both /\ s.bli.flags = bli.flags
    <3> DEFINE i == [bli EXCEPT !.ref = bli.ref - 1]
               b == [buf EXCEPT !.pin = buf.pin - 1]
    <3>1. bli.ref - 1 \in Int /\ buf.pin - 1 \in Int
      BY <1>0 DEF Item, Buffer
    <3>2. i \in Item /\ i.flags = bli.flags
      BY <1>0, <3>1 DEF Item
    <3>3. b \in Buffer
      BY <1>0, <3>1 DEF Buffer
    <3>4. s = [S EXCEPT !.bli = i, !.buf = b]
      BY <1>0 DEF Both, Item, Buffer
    <3> HIDE DEF i, b
    <3> QED BY <1>0, <3>2, <3>3, <3>4 DEF Both
  <2> HIDE DEF s
  <2>3. u \in Both /\ u.bli.flags \subseteq bli.flags
    BY <2>2, RawUnpinStale
  <2> HIDE DEF u
  <2>4. ItemUnlock(u, TRUE) \in Both /\ ItemUnlock(u, TRUE).bli.flags \subseteq u.bli.flags
    BY <2>3, RawItemUnlock
  <2>5. r \in Both /\ r.bli.flags \subseteq bli.flags
    BY <2>3, <2>4
  <2> HIDE DEF r
  <2>6. PICK q \in Both : q = r /\ q.bli.flags \subseteq bli.flags
    BY <2>5
  <2>7. tx' = [tx EXCEPT ![t].pc = "done", ![t].held = h, ![t].freed = f] /\ Install(q)
    BY <1>3, <2>1, <2>6
  <2> QED BY <1>2, <1>10, <2>1, <2>6, <2>7, EndDown
<1>7. CASE CbAil(t)
  <2>1. /\ Live(t) /\ UNCHANGED <<buf, log, synced, shut, disk, io, use>>
        /\ To(t, "ail") \/ (To(t, "done") /\ UNCHANGED bli)
    BY <1>7 DEF CbAil, Live
  <2>2. bli' \in Item /\ bli'.flags = bli.flags
    <3>1. CASE UNCHANGED bli
      BY <1>0, <3>1
    <3>2. CASE bli.there
      <4>1. tx[t].lsn \in Nat /\ bli.lsn \in Nat
        BY <1>0 DEF Tx, Item
      <4>2. PICK n \in Nat : bli' = [bli EXCEPT !.lsn = n]
        BY <1>7, <3>2, <4>1 DEF CbAil, ItemCommitted
      <4> QED BY <1>0, <4>2 DEF Item
    <3> QED BY <1>7, <3>1, <3>2 DEF CbAil
  <2>3. PICK s \in Both : s.buf = buf' /\ s.bli = bli'
    <3>1. [buf |-> buf', bli |-> bli'] \in Both
      BY <1>0, <2>1, <2>2 DEF Both
    <3> QED BY <3>1
  <2>4. Install(s) /\ s.bli.flags \subseteq bli.flags
    BY <2>2, <2>3 DEF Install
  <2>5. PICK pc \in {"ail", "done"} : tx' = [tx EXCEPT ![t].pc = pc]
    BY <2>1 DEF To
  <2>6. tx' = [tx EXCEPT ![t].pc = pc, ![t].held = e, ![t].freed = f]
    BY <1>4, <2>5
  <2>7. pc \in {"committed", "ail", "drop", "done"}
    OBVIOUS
  <2> QED BY <1>2, <1>10, <2>1, <2>4, <2>6, <2>7, EndDown
<1>8. CASE CbDrop(t)
  <2>1. Live(t) /\ UNCHANGED <<buf, log, synced, shut, disk, io, use>>
    BY <1>8 DEF CbDrop, Live
  <2>2. bli' \in Item /\ bli'.flags = bli.flags
    <3>1. bli.ref - 1 \in Int
      BY <1>0 DEF Item
    <3> QED BY <1>0, <1>8, <3>1 DEF CbDrop, Item
  <2>3. PICK s \in Both : s.buf = buf' /\ s.bli = bli'
    <3>1. [buf |-> buf', bli |-> bli'] \in Both
      BY <1>0, <2>1, <2>2 DEF Both
    <3> QED BY <3>1
  <2>4. Install(s) /\ s.bli.flags \subseteq bli.flags
    BY <2>2, <2>3 DEF Install
  <2>5. PICK g : g = (bli.ref = 1)
    OBVIOUS
  <2>6. g \in BOOLEAN
    BY <2>5
  <2>7. tx' = [tx EXCEPT ![t].pc = "drop", ![t].freed = g]
    BY <1>8, <2>5 DEF CbDrop
  <2>8. tx' = [tx EXCEPT ![t].pc = "drop", ![t].held = e, ![t].freed = g]
    BY <1>0, <1>2, <2>7 DEF Tx
  <2> QED BY <1>10, <2>1, <2>4, <2>6, <2>8, EndDown
<1>9. CASE CbUnpin(t)
  <2> DEFINE s == [S EXCEPT !.buf.pin = @ - 1]
             r == IF tx[t].freed /\ tx[t].stale THEN UnpinStale(s) ELSE s
  <2>1. /\ Live(t) /\ Install(r) /\ UNCHANGED <<log, synced, shut, disk, io, use>>
        /\ tx' = [tx EXCEPT ![t].pc = "done"]
    BY <1>9 DEF CbUnpin, Live, To
  <2>2. s \in Both /\ s.bli.flags = bli.flags
    <3> DEFINE b == [buf EXCEPT !.pin = buf.pin - 1]
    <3>1. buf.pin - 1 \in Int
      BY <1>0 DEF Buffer
    <3>2. b \in Buffer
      BY <1>0, <3>1 DEF Buffer
    <3>3. s = [S EXCEPT !.buf = b]
      BY <1>0 DEF Both, Buffer
    <3> HIDE DEF b
    <3>4. [S EXCEPT !.buf = b] \in Both /\ [S EXCEPT !.buf = b].bli = S.bli
      BY <1>0, <3>2, RawFields
    <3> QED BY <1>0, <3>3, <3>4
  <2> HIDE DEF s
  <2>3. r \in Both /\ r.bli.flags \subseteq bli.flags
    BY <2>2, RawUnpinStale
  <2> HIDE DEF r
  <2>4. PICK q \in Both : q = r /\ q.bli.flags \subseteq bli.flags
    BY <2>3
  <2>5. tx' = [tx EXCEPT ![t].pc = "done", ![t].held = e, ![t].freed = f] /\ Install(q)
    BY <1>4, <2>1, <2>4
  <2> QED BY <1>2, <1>10, <2>1, <2>4, <2>5, EndDown
<1> QED BY <1>5, <1>6, <1>7, <1>8, <1>9

\* xfsaild, xfsbufd and writes
LEMMA WriterDownDid ==
  ASSUME DownOK, Down,
         PushCheck \/ PushLock \/ Push \/ BufdCheck \/ BufdLock \/ Strategy \/ Submit \/ WriteDone \/ WriteError
  PROVE  DownDid
<1>0. /\ S \in Both /\ S.buf = buf /\ S.bli = bli /\ buf \in Buffer /\ bli \in Item
      /\ tx \in [Txs -> Tx] /\ use \in Use /\ io # "unpin"
      /\ NotInUse => io # "flight" /\ "HOLD" \notin bli.flags /\ \A t \in Txs : ~Active(t)
      /\ io = "flight" => buf.lock = "io" /\ push # "locked" /\ \A t \in Txs : ~Live(t) /\ ~tx[t].held
  BY DownTyped DEF DownOK
<1>1. UNCHANGED <<tx, core, log, synced, shut, use>>
  BY DEF PushCheck, PushLock, Push, BufdCheck, BufdLock, Strategy, Submit, WriteDone, WriteError
<1>2. SUFFICES ASSUME TRUE
               PROVE  /\ buf' \in Buffer /\ bli' \in {bli, NoItem} /\ io' # "unpin"
                      /\ io' = "flight" => io = "flight" /\ UNCHANGED buf /\ push' # "locked"
                      /\ disk' = disk \/ (io = "flight" /\ disk' = core)
  <2>1. bli' \in {bli, NoItem} => bli' \in Item /\ bli'.flags \subseteq bli.flags
    <3>1. NoItem \in Item /\ NoItem.flags = {}
      BY DEF NoItem, Item
    <3> QED BY <1>0, <3>1
  <2>2. NotInUse' <=> NotInUse
    BY <1>1 DEF NotInUse
  <2>3. \A t \in Txs : (Active(t)' <=> Active(t)) /\ (Live(t)' <=> Live(t)) /\ tx'[t].held = tx[t].held
    BY <1>1 DEF Active, Live
  <2> QED BY <1>0, <1>1, <1>2, <2>1, <2>2, <2>3 DEF DownDid
<1>3. CASE PushCheck \/ BufdCheck
  BY <1>0, <1>3 DEF PushCheck, BufdCheck
<1>4. CASE PushLock
  <2>1. buf.hold + 1 \in Int
    BY <1>0 DEF Buffer
  <2>2. [buf EXCEPT !.lock = "push", !.hold = @ + 1] \in Buffer
    BY <1>0, <2>1 DEF Buffer
  <2> QED BY <1>0, <1>4, <2>2 DEF PushLock
<1>5. CASE Push
  <2> DEFINE s == DelwriDequeue(S)
             r == [s EXCEPT !.buf.lock = "io"]
  <2>1. s \in Both /\ s.bli = bli
    BY <1>0, RawDequeue
  <2>2. BufRelse(S) \in Both /\ BufRelse(S).bli = bli
    BY <1>0, RawRelse
  <2>3. /\ push = "locked" /\ push' = "idle" /\ disk' = disk
        /\ (Install(r) /\ io' = "strategy") \/ (Install(BufRelse(S)) /\ UNCHANGED io)
    BY <1>5 DEF Push
  <2> HIDE DEF s
  <2>4. r \in Both /\ r.bli = bli
    <3> DEFINE b == [s.buf EXCEPT !.lock = "io"]
    <3>1. s.buf \in Buffer
      BY <2>1 DEF Both
    <3>2. b \in Buffer
      BY <3>1 DEF Buffer
    <3>3. r = [s EXCEPT !.buf = b]
      BY <2>1 DEF Both
    <3> HIDE DEF b
    <3>4. s.bli \in Item
      BY <2>1 DEF Both
    <3>5. [s EXCEPT !.buf = b] \in Both /\ [s EXCEPT !.buf = b].bli = s.bli
      BY <2>1, <3>2, <3>4, RawFields
    <3> QED BY <2>1, <3>3, <3>5
  <2> HIDE DEF r
  <2>5. buf' \in Buffer /\ bli' = bli
    BY <2>2, <2>3, <2>4, Installed
  <2> QED BY <1>0, <2>3, <2>5
<1>6. CASE BufdLock
  <2>1. [buf EXCEPT !.lock = "io", !.delwri = FALSE, !.queued = FALSE] \in Buffer
    BY <1>0 DEF Buffer
  <2> QED BY <1>0, <1>6, <2>1 DEF BufdLock
<1>7. CASE Strategy
  <2> DEFINE d == SuperStale(S)
             c == DoCallbacks(d)
  <2>1. io = "strategy" /\ io' = "none" /\ Install(BufRelse(c)) /\ disk' = disk
    BY <1>7 DEF Strategy
  <2>2. d \in Both /\ d.bli = bli
    BY <1>0, RawStale
  <2> HIDE DEF d
  <2>3. c \in Both /\ c.bli \in {NoItem, bli}
    BY <2>2, RawCallbacks
  <2> HIDE DEF c
  <2>4. BufRelse(c) \in Both /\ BufRelse(c).bli = c.bli
    BY <2>3, RawRelse
  <2>5. buf' \in Buffer /\ bli' = c.bli
    BY <2>1, <2>4, Installed
  <2> QED BY <2>1, <2>3, <2>5
<1>8. CASE Submit
  BY <1>0, <1>8 DEF Submit
<1>9. CASE WriteDone
  <2> DEFINE c == IF buf.iodone THEN DoCallbacks(S) ELSE S
  <2>1. io = "flight" /\ io' = "none" /\ Install(BufRelse(c)) /\ disk' = core
    BY <1>9 DEF WriteDone
  <2>2. c \in Both /\ c.bli \in {NoItem, bli}
    BY <1>0, RawCallbacks
  <2> HIDE DEF c
  <2>3. BufRelse(c) \in Both /\ BufRelse(c).bli = c.bli
    BY <2>2, RawRelse
  <2>4. buf' \in Buffer /\ bli' = c.bli
    BY <2>1, <2>3, Installed
  <2> QED BY <2>1, <2>2, <2>4
<1>10. CASE WriteError
  <2> DEFINE d == SuperStale(S)
             c == DoCallbacks(d)
  <2>1. io = "flight" /\ io' = "none" /\ Install(BufRelse(c)) /\ disk' = disk
    BY <1>10 DEF WriteError
  <2>2. d \in Both /\ d.bli = bli
    BY <1>0, RawStale
  <2> HIDE DEF d
  <2>3. c \in Both /\ c.bli \in {NoItem, bli}
    BY <2>2, RawCallbacks
  <2> HIDE DEF c
  <2>4. BufRelse(c) \in Both /\ BufRelse(c).bli = c.bli
    BY <2>3, RawRelse
  <2>5. buf' \in Buffer /\ bli' = c.bli
    BY <2>1, <2>4, Installed
  <2> QED BY <2>1, <2>3, <2>5
<1> QED BY <1>3, <1>4, <1>5, <1>6, <1>7, <1>8, <1>9, <1>10

LEMMA FindDownDid == ASSUME DownOK, NEW t \in Txs, Find(t) PROVE DownDid
<1>0. buf \in Buffer /\ bli \in Item /\ tx \in [Txs -> Tx] /\ tx[t] \in Tx /\ use \in Use /\ io # "unpin"
  BY DownTyped DEF DownOK
<1>1. UNCHANGED <<bli, core, disk, log, synced, io, push, shut>> /\ use.state \in {"meta", "free"}
  BY DEF Find, Visible, FreeToUse
<1>2. use' \in Use /\ use'.lsn = use.lsn /\ use'.state = "meta"
  BY <1>0 DEF Find, Use
<1>3. buf' \in Buffer /\ buf'.lock = buf.lock
  <2>1. buf.hold + 1 \in Int
    BY <1>0 DEF Buffer
  <2> QED BY <1>0, <2>1 DEF Find, Buffer
<1>4. PICK a : a = FreeToUse
  OBVIOUS
<1>5. a \in BOOLEAN /\ tx' = [tx EXCEPT ![t].alloc = a, ![t].pc = "wait"]
  BY <1>4 DEF Find, FreeToUse
<1>6. tx' \in [Txs -> Tx] /\ tx'[t].pc = "wait" /\ tx'[t].held = tx[t].held /\ \A u \in Txs \ {t} : tx'[u] = tx[u]
  BY <1>0, <1>5 DEF Tx
<1>7. ASSUME io = "flight" PROVE buf.lock = "io" /\ push # "locked" /\ \A u \in Txs : ~Live(u)' /\ ~tx'[u].held
  <2>1. buf.lock = "io" /\ push # "locked" /\ \A u \in Txs : ~Live(u) /\ ~tx[u].held
    BY <1>7 DEF DownOK
  <2> QED BY <1>6, <2>1 DEF Live
<1> QED BY <1>0, <1>1, <1>2, <1>3, <1>6, <1>7 DEF DownDid, NotInUse

\* the block in a file, written when its cancellation is on disk
LEMMA UserDownWrites == ASSUME DownOK, UserWrite PROVE DownOK'
<1>1. /\ UNCHANGED <<buf, bli, tx, core, log, synced, io, push, shut>> /\ disk' = [p \in Parts |-> User]
      /\ use.state = "free" /\ synced >= use.lsn /\ use \in Use
  BY DEF UserWrite, FreeToUse, DownOK
<1>2. use' \in Use /\ use'.state = "user" /\ use'.lsn = use.lsn
  BY <1>1 DEF UserWrite, Use
<1>3. /\ buf \in Buffer /\ bli \in Item /\ tx \in [Txs -> Tx] /\ synced \in Nat /\ synced <= Len(log) /\ shut > 0
      /\ io # "unpin" /\ io # "flight" /\ "HOLD" \notin bli.flags /\ (\A t \in Txs : ~Active(t))
      /\ \A p \in Parts : \A l \in 1 .. synced : ~IsLast(log, synced, p, l)
  BY <1>1 DEF DownOK, NotInUse
<1> QED BY <1>1, <1>2, <1>3 DEF DownOK, Holds, NotInUse, Active

LEMMA DownKeeps == ASSUME DownOK, Down, BufNext PROVE DownOK' /\ Down' /\ UNCHANGED <<log, shut>>
<1>1. ASSUME DownDid PROVE DownOK' /\ Down' /\ UNCHANGED <<log, shut>>
  <2>1. UNCHANGED <<log, shut>>
    BY <1>1 DEF DownDid
  <2> QED BY <1>1, <2>1, DownDidKeeps DEF Down
<1>2. ASSUME NEW t \in Txs, Trans(t) PROVE DownDid
  <2>1. ~Commit(t)
    BY DEF Commit
  <2> QED BY <1>2, <2>1, FindDownDid, UserDownDid, EndDownDid DEF Trans
<1>3. ~InodeFlush /\ ~SyncLog /\ ~Shutdown
  BY DEF InodeFlush, SyncLog, Shutdown
<1>4. UserWrite => DownOK' /\ Down' /\ UNCHANGED <<log, shut>>
  BY UserDownWrites DEF UserWrite, Down
<1> QED BY <1>1, <1>2, <1>3, <1>4, WriterDownDid DEF BufNext

----------------------------------------------------------------------------
\* What recovery finds, when what is not in place is at its tail or after it.
LEMMA Found ==
  ASSUME Len(log) \in Nat, synced \in Nat, synced <= Len(log), NEW tail,
         tail = IF Down THEN shut ELSE RecoveryTail, tail \in Nat,
         \A p \in Parts : /\ \A l \in 1 .. synced : IsLast(log, synced, p, l) => l >= tail \/ disk[p] = log[l].val[p]
                          /\ Silent(log, synced, p) /\ use.state # "user" => disk[p] = 0
                          /\ use.state = "user" => disk[p] = User
  PROVE  BlockIsRecoverable
<1> SUFFICES ASSUME NEW p \in Parts
             PROVE  LET l == Latest(Uncancelled(OnDisk), p)
                    IN IF l # {} THEN Recovered(p) = log[CHOOSE m \in l : TRUE].val[p]
                       ELSE IF use.state = "user" THEN Recovered(p) = User
                       ELSE Cancels = {} => Recovered(p) = 0
  BY DEF BlockIsRecoverable
<1> DEFINE A == Latest(Uncancelled(OnDisk), p)
           T == {l \in OnDisk : l >= tail}
           B == Latest(Uncancelled(T), p)
<1>1. Recovered(p) = IF B = {} THEN disk[p] ELSE log[CHOOSE m \in B : TRUE].val[p]
  BY DEF Recovered
<1>2. \A l \in A : /\ l \in 1 .. synced /\ p \in log[l].parts
                   /\ \A c \in 1 .. synced : log[c].cancel => c < l
                   /\ \A m \in 1 .. synced : p \in log[m].parts /\ (\A c \in 1 .. synced : log[c].cancel => c < m) => m <= l
  BY DEF Latest, Uncancelled, OnDisk, Cancels
<1>3. \A l \in B : /\ l \in 1 .. synced /\ l >= tail /\ p \in log[l].parts
                   /\ \A c \in 1 .. synced : log[c].cancel => c < l
                   /\ \A m \in 1 .. synced : m >= tail /\ p \in log[m].parts /\ (\A c \in 1 .. synced : log[c].cancel => c < m)
                                               => m <= l
  BY DEF Latest, Uncancelled, OnDisk, Cancels
<1>4. \A l \in A : l >= tail => l \in B
  BY <1>2 DEF Latest, Uncancelled, OnDisk, Cancels
<1>5. ASSUME A # {}
      PROVE  \E m : A = {m} /\ m \in 1 .. synced /\ IsLast(log, synced, p, m)
  <2>1. PICK m : m \in A
    BY <1>5
  <2>2. \A l \in A : l = m
    <3>1. \A l \in A : l <= m /\ m <= l /\ l \in Nat /\ m \in Nat
      BY <1>2, <2>1
    <3> QED BY <3>1
  <2>3. /\ m \in 1 .. synced /\ p \in log[m].parts
        /\ \A c \in 1 .. synced : log[c].cancel => c < m
        /\ \A l \in 1 .. synced : p \in log[l].parts /\ (\A c \in 1 .. synced : log[c].cancel => c < l) => l <= m
    BY <1>2, <2>1
  <2>4. ~log[m].cancel
    BY <2>3
  <2>5. ASSUME NEW l \in m + 1 .. synced PROVE p \notin log[l].parts /\ ~log[l].cancel
    <3>1. l \in 1 .. synced /\ l > m
      BY <2>3
    <3>2. ~log[l].cancel
      BY <2>3, <3>1
    <3>3. \A c \in 1 .. synced : log[c].cancel => c < l
      BY <2>3, <3>1
    <3> QED BY <2>3, <3>1, <3>2, <3>3
  <2>6. IsLast(log, synced, p, m)
    BY <2>3, <2>4, <2>5 DEF IsLast
  <2> QED BY <2>1, <2>2, <2>3, <2>6
\* without a cancellation, and with a record of the part, there is a last one
<1>6. ASSUME A = {} PROVE Cancels = {} => Silent(log, synced, p)
  <2> SUFFICES ASSUME Cancels = {}, NEW m \in 1 .. synced, p \in log[m].parts PROVE FALSE
    BY DEF Silent, Cancels, OnDisk
  <2> DEFINE P == {l \in 1 .. synced : p \in log[l].parts}
  <2>1. P \in SUBSET (1 .. synced) /\ P # {}
    OBVIOUS
  <2>2. \A l : l \in P <=> l \in 1 .. synced /\ p \in log[l].parts
    OBVIOUS
  <2> HIDE DEF P
  <2>3. PICK l \in P : \A k \in P : k <= l
    BY <2>1, MostExists
  <2>4. l \in A
    BY <2>2, <2>3 DEF Latest, Uncancelled, OnDisk, Cancels
  <2> QED BY <1>6, <2>4
<1>7. CASE A # {}
  <2>1. PICK m : A = {m} /\ m \in 1 .. synced /\ IsLast(log, synced, p, m)
    BY <1>5, <1>7
  <2>2. (CHOOSE l \in A : TRUE) = m
    BY <2>1
  <2>3. CASE m >= tail
    <3>1. m \in B
      BY <1>4, <2>1, <2>3
    <3>2. \A l \in B : l = m
      <4>1. \A l \in B : l <= m /\ m <= l /\ l \in Nat /\ m \in Nat
        BY <1>2, <1>3, <2>1, <3>1
      <4> QED BY <4>1
    <3>3. B = {m}
      BY <3>1, <3>2
    <3>4. Recovered(p) = log[CHOOSE l \in B : TRUE].val[p] /\ (CHOOSE l \in B : TRUE) = m
      BY <1>1, <3>3
    <3> QED BY <1>7, <2>2, <3>4
  <2>4. CASE ~(m >= tail)
    <3>1. disk[p] = log[m].val[p]
      BY <2>1, <2>4
    <3>2. \A l \in B : FALSE
      <4> SUFFICES ASSUME NEW l \in B PROVE FALSE
        OBVIOUS
      <4>1. l <= m /\ l >= tail /\ l \in Nat /\ m \in Nat
        BY <1>2, <1>3, <2>1
      <4> QED BY <2>4, <4>1
    <3>3. Recovered(p) = disk[p]
      BY <1>1, <3>2
    <3>4. Recovered(p) = log[CHOOSE l \in A : TRUE].val[p]
      BY <2>2, <3>1, <3>3
    <3> QED BY <1>7, <3>4
  <2> QED BY <2>3, <2>4
<1>8. CASE A = {}
  <2>1. B = {}
    <3> SUFFICES ASSUME NEW l \in B PROVE FALSE
      OBVIOUS
    <3> DEFINE P == {m \in 1 .. synced : p \in log[m].parts /\ \A c \in 1 .. synced : log[c].cancel => c < m}
    <3>1. P \in SUBSET (1 .. synced) /\ l \in P
      BY <1>3
    <3>2. \A k : k \in P <=> k \in 1 .. synced /\ p \in log[k].parts /\ \A c \in 1 .. synced : log[c].cancel => c < k
      OBVIOUS
    <3> HIDE DEF P
    <3>3. PICK m \in P : \A k \in P : k <= m
      BY <3>1, MostExists
    <3>4. m \in A
      BY <3>2, <3>3 DEF Latest, Uncancelled, OnDisk, Cancels
    <3> QED BY <1>8, <3>4
  <2>2. Recovered(p) = disk[p]
    BY <1>1, <2>1
  <2>3. Cancels = {} => Silent(log, synced, p)
    BY <1>6, <1>8
  <2>4. /\ use.state = "user" => Recovered(p) = User
        /\ use.state # "user" /\ Cancels = {} => Recovered(p) = 0
    BY <2>2, <2>3
  <2> QED BY <1>8, <2>4
<1> QED BY <1>7, <1>8

RecoveryHolds == IF Down THEN DownOK ELSE BufCorrect /\ Recoverable

LEMMA HoldsRecovers == ASSUME RecoveryHolds, Len(log) \in Nat, shut \in Nat PROVE BlockIsRecoverable
<1>1. CASE Down
  <2>1. DownOK
    BY <1>1 DEF RecoveryHolds
  <2>2. PICK tail \in Nat : tail = shut
    OBVIOUS
  <2> QED BY <1>1, <2>1, <2>2, Found DEF DownOK, Holds
<1>2. CASE ~Down
  <2>0. BufCorrect /\ Recoverable
    BY <1>2 DEF RecoveryHolds
  <2>1. TailOK /\ UseOK /\ bli.lsn \in Nat /\ synced \in Nat /\ synced <= Len(log) /\ \A t \in Txs : tx[t].lsn \in Nat
    BY <2>0, RecoverableParts
  <2>2. /\ RecoveryTail \in Nat
        /\ \A t \in Txs : Pending(t) => RecoveryTail <= tx[t].lsn
        /\ bli.lsn # 0 => RecoveryTail <= bli.lsn
    BY <2>0, TailIsFirst
  <2>3. PICK tail \in Nat : tail = RecoveryTail
    BY <2>2
  <2>4. \A p \in Parts, l \in 1 .. synced : IsLast(log, synced, p, l) => l >= tail \/ disk[p] = log[l].val[p]
    <3> SUFFICES ASSUME NEW p \in Parts, NEW l \in 1 .. synced, IsLast(log, synced, p, l), disk[p] # log[l].val[p]
                 PROVE  l >= tail
      OBVIOUS
    <3>1. (bli.lsn # 0 /\ bli.lsn <= l) \/ \E t \in Txs : Pending(t) /\ tx[t].lsn <= l
      BY <2>1 DEF TailOK
    <3> QED BY <2>1, <2>2, <2>3, <3>1
  <2>5. \A p \in Parts : /\ Silent(log, synced, p) /\ use.state # "user" => disk[p] = 0
                         /\ use.state = "user" => disk[p] = User
    BY <2>1 DEF UseOK
  <2>6. tail = IF Down THEN shut ELSE RecoveryTail
    BY <1>2, <2>3
  <2> QED BY <2>1, <2>4, <2>5, <2>6, Found
<1> QED BY <1>1, <1>2

----------------------------------------------------------------------------
\* After a crash or a shutdown at any time, recovery leaves in the block what the transactions on
\* disk say, and the old contents never come back over those of a new owner, whatever has been
\* logged, cancelled and allocated again since. The filesystem is not shut down while a write
\* waits for the log: such a write reaches the disk although the log does not.
THEOREM BlockIsRecovered ==
  ASSUME IsFiniteSet(Txs), "late" \notin Shutdowns
  PROVE  BufSpec => []BlockIsRecoverable
<1> DEFINE I == RecoveryHolds /\ log \in Seq(Record) /\ shut \in Nat
<1>1. BufInit => I
  <2> SUFFICES ASSUME BufInit PROVE I
    OBVIOUS
  <2>1. BufCorrect /\ Recoverable
    BY StartsCorrect, StartsRecoverable
  <2>2. ~Down
    BY DEF BufInit, Down
  <2> QED BY <2>1, <2>2 DEF RecoveryHolds, BufCorrect, TypeOK
<1>2. I /\ [BufNext]_bufVars => I'
  <2> SUFFICES ASSUME I, [BufNext]_bufVars PROVE I'
    OBVIOUS
  <2>1. CASE UNCHANGED bufVars
    <3>1. UNCHANGED <<kind, buf, bli, tx, core, disk, log, synced, use, io, push, bufd, shut, errors, oops>>
      BY <2>1 DEF bufVars
    <3>2. ASSUME DownOK PROVE DownOK'
      <4>1. DownDid
        BY <3>1, <3>2 DEF DownDid, DownOK, NotInUse, Active, Live
      <4> QED BY <3>2, <4>1, DownDidKeeps
    <3>3. ASSUME BufCorrect, Recoverable PROVE BufCorrect' /\ Recoverable'
      <4>1. BufCorrect'
        BY <3>1, <3>3 DEF BufCorrect, TypeOK, Rest, CountOK, LockOK, TxOK, OrderOK, FlagsOK, StaleOK, QueueOK,
           Balance, S, N, Owner, Staler, Live
      <4>2. TxCalm /\ ItemCalm
        BY <3>1, SameTx, SameItem
      <4>3. BufCalm
        BY <3>1 DEF BufCalm
      <4>4. CalmDid
        BY <3>1, <4>2, <4>3 DEF CalmDid
      <4> QED BY <3>3, <4>1, <4>4, CalmKeeps
    <3>4. CASE Down
      BY <3>1, <3>2, <3>4 DEF RecoveryHolds, Down
    <3>5. CASE ~Down
      BY <3>1, <3>3, <3>5 DEF RecoveryHolds, Down
    <3> QED BY <3>4, <3>5
  <2>2. CASE BufNext /\ Down
    <3>1. DownOK' /\ Down' /\ UNCHANGED <<log, shut>>
      BY <2>2, DownKeeps DEF RecoveryHolds
    <3> QED BY <3>1 DEF RecoveryHolds
  <2>3. CASE BufNext /\ ~Down
    <3>0. BufCorrect /\ Recoverable
      BY <2>3 DEF RecoveryHolds
    <3>1. log' \in Seq(Record)
      BY <2>3, <3>0, DataTyped DEF BufCorrect
    <3>2. CASE ~Down'
      <4>1. BufCorrect' /\ Recoverable'
        BY <2>3, <3>0, <3>2, StepKeeps, StepRecovers DEF Down
      <4> QED BY <3>1, <3>2, <4>1 DEF RecoveryHolds, Down
    <3>3. CASE Down'
      <4>1. Shutdown
        BY <2>3, <3>3 DEF Down, BufNext, Trans, Find, GetBuf, GetAgain, Brelse, Bhold, BholdRelease, Bjoin,
           Relse, LogBuf,
           Binval, Clean, Commit, UnlockItems, Abort, Uncommit, CbAil, CbDrop, CbUnpin, PushCheck, PushLock, Push,
           BufdCheck, BufdLock, Strategy, Submit, WriteDone, WriteError, InodeFlush, SyncLog, UserWrite
      <4>2. DownOK'
        BY <3>0, <4>1, ShutdownRecovers
      <4>3. shut' \in Nat
        BY <3>0, <4>1, TailIsFirst DEF Shutdown
      <4> QED BY <3>1, <3>3, <4>2, <4>3 DEF RecoveryHolds
    <3> QED BY <3>2, <3>3
  <2> QED BY <2>1, <2>2, <2>3
<1>3. I => BlockIsRecoverable
  BY HoldsRecovers
<1> QED BY <1>1, <1>2, <1>3, PTL DEF BufSpec
=============================================================================
