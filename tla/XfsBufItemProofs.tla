-------------------------- MODULE XfsBufItemProofs --------------------------
(***************************************************************************)
(* Until the filesystem is shut down, transactions, the AIL, xfsaild,      *)
(* xfsbufd and inode flushes agree on a metadata buffer and its log item   *)
(* (fs/xfs/xfs_buf_item.c, xfs_trans_buf.c, linux-2.6/xfs_buf.c), for any  *)
(* finite number of transactions.                                          *)
(*                                                                         *)
(* BufferIsKept is not inductive. That the last reference can be dropped   *)
(* only by the right one needs to know who has the buffer locked (LockOK), *)
(* what a transaction has done to it (TxOK, FlagsOK), that a transaction   *)
(* which freed the block is the last in the log and the last to let go     *)
(* (OrderOK, StaleOK), and that what is logged or has inodes attached is   *)
(* on the delayed write queue or on its way to the disk (QueueOK).         *)
(*                                                                         *)
(* First what the functions on a buffer do (...Does), then what each       *)
(* action does by them (...Did), and that it keeps the parts (...Keeps).   *)
(***************************************************************************)
EXTENDS XfsBufItem, FiniteSetTheorems, TLAPS

Buffer == [hold : Int, lock : {"free", "tx", "push", "io"}, pin : Int, delwri : BOOLEAN, queued : BOOLEAN,
           stale : BOOLEAN, done : BOOLEAN, iodone : BOOLEAN, ino : BOOLEAN]
Flags == {"LOGGED", "DIRTY", "STALE", "STALE_INODE", "HOLD", "INODE_ALLOC"}
Item == [there : BOOLEAN, ref : Int, flags : SUBSET Flags, fmt : SUBSET {"INODE_BUF", "CANCEL"},
         map : SUBSET Parts, lsn : Nat, recur : Int]
Tx == [pc : {"idle", "wait", "in", "logged", "committed", "ail", "drop", "done"}, alloc : BOOLEAN,
       dirty : BOOLEAN, stale : BOOLEAN, held : BOOLEAN, lsn : Nat, freed : BOOLEAN]
Both == [buf : Buffer, bli : Item]

Value == Txs \cup {0, User}
Record == [parts : SUBSET Parts, val : [Parts -> Value], cancel : BOOLEAN]

TypeOK == /\ buf \in Buffer /\ bli \in Item /\ tx \in [Txs -> Tx] /\ shut \in Nat /\ IsFiniteSet(Txs)
          /\ core \in [Parts -> Value] /\ disk \in [Parts -> Value] /\ log \in Seq(Record)

Live(t) == tx[t].pc \in {"in", "logged", "committed", "ail", "drop"}
Staler(t) == tx[t].stale /\ Live(t)
Owner(t) == tx[t].pc \in {"in", "logged"} \/ tx[t].held \/ Staler(t)

\* the holds of s, with n more
Balance(s, n) == s.buf.hold = One(s.bli.there) + One(s.buf.queued) + One(s.buf.lock # "free") + n

LEMMA OneIs == ASSUME NEW b \in BOOLEAN PROVE One(b) \in Nat /\ (One(b) = 0 <=> ~b) /\ (One(b) = 1 <=> b)
BY DEF One

\* xfs_buf_rele
LEMMA ReleDoes ==
  ASSUME NEW s \in Both, NEW n \in Nat, Balance(s, n + 1)
  PROVE  /\ BufRele(s) \in Both /\ BufRele(s).bli = s.bli /\ Balance(BufRele(s), n)
         /\ \/ BufRele(s).buf = [s.buf EXCEPT !.hold = s.buf.hold - 1]
            \/ BufRele(s).buf = NoBuf /\ n = 0 /\ ~s.bli.there /\ ~s.buf.queued /\ s.buf.lock = "free"
<1> DEFINE r == BufRele(s)
<1>1. s.buf \in Buffer /\ s.bli \in Item /\ s.buf.hold \in Int
  BY DEF Both, Buffer
<1>2. /\ One(s.bli.there) \in Nat /\ (One(s.bli.there) = 0 <=> ~s.bli.there)
      /\ One(s.buf.queued) \in Nat /\ (One(s.buf.queued) = 0 <=> ~s.buf.queued)
      /\ One(s.buf.lock # "free") \in Nat /\ (One(s.buf.lock # "free") = 0 <=> s.buf.lock = "free")
  BY DEF One
<1>3. CASE s.buf.hold = 1
  <2>1. n = 0 /\ ~s.bli.there /\ ~s.buf.queued /\ s.buf.lock = "free"
    BY <1>1, <1>2, <1>3 DEF Balance
  <2>2. r = [s EXCEPT !.buf = NoBuf]
    BY <1>3 DEF BufRele
  <2>3. NoBuf \in Buffer
    BY DEF NoBuf, Buffer
  <2>4. r \in Both /\ r.bli = s.bli /\ r.buf = NoBuf
    BY <1>1, <2>2, <2>3 DEF Both
  <2>5. Balance(r, n)
    BY <2>1, <2>4 DEF Balance, One, NoBuf
  <2> QED BY <2>1, <2>4, <2>5
<1>4. CASE s.buf.hold # 1
  <2>1. r = [s EXCEPT !.buf.hold = @ - 1]
    BY <1>4 DEF BufRele
  <2>2. s.buf.hold - 1 \in Int
    BY <1>1
  <2>3. r.bli = s.bli /\ r.buf = [s.buf EXCEPT !.hold = s.buf.hold - 1] /\ r \in Both
    BY <1>1, <2>1, <2>2 DEF Both, Buffer
  <2>4. Balance(r, n)
    BY <1>1, <1>2, <2>3 DEF Balance, Buffer
  <2> QED BY <2>3, <2>4
<1> QED BY <1>3, <1>4

\* xfs_buf_unlock
LEMMA UnlockDoes ==
  ASSUME NEW s \in Both, NEW n \in Nat, Balance(s, n), s.buf.lock # "free", s.buf.queued => s.buf.delwri
  PROVE  /\ BufUnlock(s) \in Both /\ BufUnlock(s).bli = s.bli /\ Balance(BufUnlock(s), n + 1)
         /\ BufUnlock(s).buf = [s.buf EXCEPT !.lock = "free", !.queued = s.buf.delwri,
                                             !.hold = BufUnlock(s).buf.hold]
<1> DEFINE r == BufUnlock(s)
<1>1. s.buf \in Buffer /\ s.bli \in Item /\ s.buf.hold \in Int /\ s.buf.delwri \in BOOLEAN /\ s.buf.queued \in BOOLEAN
  BY DEF Both, Buffer
<1>2. One(s.buf.lock # "free") = 1 /\ One(FALSE) = 0 /\ One(TRUE) = 1 /\ One(s.bli.there) \in Int
      /\ One(s.buf.queued) \in Int
  BY DEF One
<1>3. CASE s.buf.delwri /\ ~s.buf.queued
  <2>1. r = [s EXCEPT !.buf.lock = "free", !.buf.queued = TRUE, !.buf.hold = @ + 1]
    BY <1>3 DEF BufUnlock
  <2>2. s.buf.hold + 1 \in Int /\ s.buf.delwri = TRUE /\ s.buf.queued = FALSE
    BY <1>1, <1>3
  <2>3. r.bli = s.bli /\ r.buf = [s.buf EXCEPT !.lock = "free", !.queued = TRUE, !.hold = s.buf.hold + 1]
    BY <1>1, <2>1 DEF Both, Buffer
  <2>4. r \in Both
    <3>1. [s.buf EXCEPT !.lock = "free", !.queued = TRUE, !.hold = s.buf.hold + 1] \in Buffer
      BY <1>1, <2>2 DEF Buffer
    <3>2. r = [s EXCEPT !.buf = r.buf]
      BY <2>1 DEF Both
    <3> QED BY <1>1, <2>3, <3>1, <3>2 DEF Both
  <2>5. r.buf.hold = s.buf.hold + 1 /\ r.buf.lock = "free" /\ r.buf.queued = TRUE
    BY <1>1, <2>3 DEF Buffer
  <2>6. Balance(r, n + 1)
    BY <1>1, <1>2, <2>2, <2>3, <2>5 DEF Balance, One
  <2> QED BY <2>2, <2>3, <2>4, <2>5, <2>6
<1>4. CASE ~(s.buf.delwri /\ ~s.buf.queued)
  <2>1. r = [s EXCEPT !.buf.lock = "free"]
    BY <1>4 DEF BufUnlock
  <2>2. s.buf.queued = s.buf.delwri
    BY <1>1, <1>4
  <2>3. r.bli = s.bli /\ r.buf = [s.buf EXCEPT !.lock = "free"] /\ r \in Both
    BY <1>1, <2>1 DEF Both, Buffer
  <2>4. r.buf.hold = s.buf.hold /\ r.buf.lock = "free" /\ r.buf.queued = s.buf.queued
    BY <1>1, <2>3 DEF Buffer
  <2>5. r.buf = [s.buf EXCEPT !.lock = "free", !.queued = s.buf.delwri, !.hold = r.buf.hold]
    BY <1>1, <2>2, <2>3, <2>4 DEF Buffer
  <2>6. Balance(r, n + 1)
    BY <1>1, <1>2, <2>3, <2>4 DEF Balance, One
  <2> QED BY <2>3, <2>5, <2>6
<1> QED BY <1>3, <1>4

\* xfs_buf_relse
LEMMA RelseDoes ==
  ASSUME NEW s \in Both, NEW n \in Nat, Balance(s, n), s.buf.lock # "free", s.buf.queued => s.buf.delwri
  PROVE  /\ BufRelse(s) \in Both /\ BufRelse(s).bli = s.bli /\ Balance(BufRelse(s), n)
         /\ \/ BufRelse(s).buf = [s.buf EXCEPT !.lock = "free", !.queued = s.buf.delwri,
                                               !.hold = BufRelse(s).buf.hold]
            \/ BufRelse(s).buf = NoBuf /\ n = 0 /\ ~s.bli.there /\ ~s.buf.delwri
<1> DEFINE u == BufUnlock(s)
           r == BufRelse(s)
<1>1. /\ u \in Both /\ u.bli = s.bli /\ Balance(u, n + 1)
      /\ u.buf = [s.buf EXCEPT !.lock = "free", !.queued = s.buf.delwri, !.hold = u.buf.hold]
  BY UnlockDoes
<1>2. r = BufRele(u)
  BY DEF BufRelse
<1>3. s.buf \in Buffer /\ u.buf \in Buffer
  BY <1>1 DEF Both
<1> HIDE DEF u, r
<1>4. /\ r \in Both /\ r.bli = u.bli /\ Balance(r, n)
      /\ \/ r.buf = [u.buf EXCEPT !.hold = u.buf.hold - 1]
         \/ r.buf = NoBuf /\ n = 0 /\ ~u.bli.there /\ ~u.buf.queued /\ u.buf.lock = "free"
  BY <1>1, <1>2, ReleDoes
<1>5. u.buf.queued = s.buf.delwri
  BY <1>1, <1>3 DEF Buffer
<1>6. ASSUME r.buf = [u.buf EXCEPT !.hold = u.buf.hold - 1]
      PROVE  r.buf = [s.buf EXCEPT !.lock = "free", !.queued = s.buf.delwri, !.hold = r.buf.hold]
  BY <1>1, <1>3, <1>6 DEF Buffer
<1> QED BY <1>1, <1>4, <1>5, <1>6 DEF r

\* xfs_buf_rele of a locked buffer never frees it
LEMMA LockedReleDoes ==
  ASSUME NEW s \in Both, NEW n \in Nat, Balance(s, n + 1), s.buf.lock # "free"
  PROVE  /\ BufRele(s) \in Both /\ BufRele(s).bli = s.bli /\ Balance(BufRele(s), n)
         /\ BufRele(s).buf = [s.buf EXCEPT !.hold = s.buf.hold - 1]
BY ReleDoes

\* the buffer is taken off the delayed write queue
LEMMA DequeueDoes ==
  ASSUME NEW s \in Both, NEW n \in Nat, Balance(s, n), s.buf.lock # "free", s.buf.queued => s.buf.delwri
  PROVE  /\ DelwriDequeue(s) \in Both /\ DelwriDequeue(s).bli = s.bli /\ Balance(DelwriDequeue(s), n)
         /\ DelwriDequeue(s).buf = [s.buf EXCEPT !.delwri = FALSE, !.queued = FALSE,
                                                 !.hold = DelwriDequeue(s).buf.hold]
<1> DEFINE d == [s EXCEPT !.buf.delwri = FALSE, !.buf.queued = FALSE]
           r == DelwriDequeue(s)
<1>1. s.buf \in Buffer /\ s.bli \in Item /\ s.buf.hold \in Int
  BY DEF Both, Buffer
<1>2. One(s.buf.lock # "free") = 1 /\ One(FALSE) = 0 /\ One(TRUE) = 1 /\ One(s.bli.there) \in Int
  BY DEF One
<1>3. d.bli = s.bli /\ d.buf = [s.buf EXCEPT !.delwri = FALSE, !.queued = FALSE]
  BY <1>1 DEF Both, Buffer
<1>4. d \in Both
  <2>1. [s.buf EXCEPT !.delwri = FALSE, !.queued = FALSE] \in Buffer
    BY <1>1 DEF Buffer
  <2>2. d = [s EXCEPT !.buf = d.buf]
    BY DEF Both
  <2> QED BY <1>1, <1>3, <2>1, <2>2 DEF Both
<1>0. DelwriDequeue(s) = IF s.buf.delwri /\ s.buf.queued THEN BufRele(d) ELSE d
  BY DEF DelwriDequeue
<1> HIDE DEF d
<1>5. d.buf.lock = s.buf.lock /\ d.buf.hold = s.buf.hold /\ d.buf.queued = FALSE
  BY <1>1, <1>3 DEF Buffer
<1>6. CASE s.buf.queued
  <2>1. r = BufRele(d)
    BY <1>0, <1>6
  <2>2. Balance(d, n + 1)
    BY <1>1, <1>2, <1>3, <1>5, <1>6 DEF Balance, One
  <2>3. BufRele(d) \in Both /\ BufRele(d).bli = d.bli /\ Balance(BufRele(d), n)
        /\ BufRele(d).buf = [d.buf EXCEPT !.hold = d.buf.hold - 1]
    BY <1>4, <1>5, <2>2, LockedReleDoes
  <2>4. r.buf = [s.buf EXCEPT !.delwri = FALSE, !.queued = FALSE, !.hold = r.buf.hold]
    <3>1. d.buf \in Buffer
      BY <1>4 DEF Both
    <3> QED BY <1>1, <1>3, <2>1, <2>3, <3>1 DEF Buffer
  <2> QED BY <1>3, <2>1, <2>3, <2>4
<1>7. CASE ~s.buf.queued
  <2>1. r = d
    BY <1>0, <1>7
  <2>2. Balance(d, n)
    BY <1>1, <1>2, <1>3, <1>5, <1>7 DEF Balance, One
  <2>3. d.buf = [s.buf EXCEPT !.delwri = FALSE, !.queued = FALSE, !.hold = d.buf.hold]
    BY <1>1, <1>3 DEF Buffer
  <2> QED BY <1>3, <1>4, <2>1, <2>2, <2>3
<1> QED BY <1>6, <1>7

\* xfs_buf_item_relse
LEMMA ItemRelseDoes ==
  ASSUME NEW s \in Both, NEW n \in Nat, Balance(s, n), s.buf.lock # "free", s.bli.there
  PROVE  /\ ItemRelse(s) \in Both /\ ItemRelse(s).bli = NoItem /\ Balance(ItemRelse(s), n)
         /\ ItemRelse(s).buf = [s.buf EXCEPT !.iodone = @ /\ s.buf.ino, !.hold = s.buf.hold - 1]
<1> DEFINE d == [s EXCEPT !.bli = NoItem, !.buf.iodone = @ /\ s.buf.ino]
           b == s.buf.iodone /\ s.buf.ino
<1>1. s.buf \in Buffer /\ s.bli \in Item /\ s.buf.hold \in Int /\ NoItem \in Item /\ b \in BOOLEAN
  BY DEF Both, Buffer, NoItem, Item
<1>2. One(s.buf.lock # "free") = 1 /\ One(s.bli.there) = 1 /\ One(FALSE) = 0 /\ One(s.buf.queued) \in Int
  BY DEF One
<1>3. d.bli = NoItem /\ d.buf = [s.buf EXCEPT !.iodone = b]
  BY <1>1 DEF Both, Buffer
<1>4. d \in Both
  <2>1. [s.buf EXCEPT !.iodone = b] \in Buffer
    <3> HIDE DEF b
    <3> QED BY <1>1 DEF Buffer
  <2>2. d = [s EXCEPT !.buf = d.buf, !.bli = NoItem]
    BY DEF Both
  <2> QED BY <1>1, <1>3, <2>1, <2>2 DEF Both
<1> HIDE DEF b
<1>5. d.buf.lock = s.buf.lock /\ d.buf.hold = s.buf.hold /\ d.buf.queued = s.buf.queued
  BY <1>1, <1>3 DEF Buffer
<1>6. Balance(d, n + 1)
  BY <1>1, <1>2, <1>3, <1>5 DEF Balance, NoItem, One
<1>7. ItemRelse(s) = BufRele(d)
  BY DEF ItemRelse
<1> HIDE DEF d
<1>8. BufRele(d) \in Both /\ BufRele(d).bli = d.bli /\ Balance(BufRele(d), n)
      /\ BufRele(d).buf = [d.buf EXCEPT !.hold = d.buf.hold - 1]
  BY <1>4, <1>5, <1>6, LockedReleDoes
<1>9. [d.buf EXCEPT !.hold = d.buf.hold - 1] = [s.buf EXCEPT !.iodone = b, !.hold = s.buf.hold - 1]
  BY <1>1, <1>3 DEF Buffer
<1> QED BY <1>3, <1>7, <1>8, <1>9 DEF b

\* xfs_buf_do_callbacks
LEMMA CallbacksDo ==
  ASSUME NEW s \in Both, NEW n \in Nat, Balance(s, n), s.buf.lock # "free", s.bli.there \/ s.bli = NoItem
  PROVE  /\ DoCallbacks(s) \in Both /\ DoCallbacks(s).bli = NoItem /\ Balance(DoCallbacks(s), n)
         /\ DoCallbacks(s).buf = [s.buf EXCEPT !.iodone = FALSE, !.ino = FALSE, !.hold = DoCallbacks(s).buf.hold]
<1> DEFINE t == [s EXCEPT !.buf.ino = FALSE, !.buf.iodone = FALSE]
           r == DoCallbacks(s)
<1>1. s.buf \in Buffer /\ s.bli \in Item /\ s.buf.hold \in Int /\ NoItem \in Item
  BY DEF Both, Buffer, NoItem, Item
<1>2. One(s.buf.lock # "free") = 1 /\ One(TRUE) = 1 /\ One(FALSE) = 0 /\ One(s.buf.queued) \in Int
  BY DEF One
<1>3. t.bli = s.bli /\ t.buf = [s.buf EXCEPT !.iodone = FALSE, !.ino = FALSE]
  BY <1>1 DEF Both, Buffer
<1>4. t \in Both
  <2>1. [s.buf EXCEPT !.iodone = FALSE, !.ino = FALSE] \in Buffer
    BY <1>1 DEF Buffer
  <2>2. t = [s EXCEPT !.buf = t.buf]
    BY <1>1, <1>3 DEF Both, Buffer
  <2> QED BY <1>1, <1>3, <2>1, <2>2 DEF Both
<1>0. r = IF s.bli.there THEN BufRele([t EXCEPT !.bli = NoItem]) ELSE t
  BY DEF DoCallbacks
<1> HIDE DEF t
<1>5. t.buf.lock = s.buf.lock /\ t.buf.hold = s.buf.hold /\ t.buf.queued = s.buf.queued
  BY <1>1, <1>3 DEF Buffer
<1>6. CASE s.bli.there
  <2> DEFINE d == [t EXCEPT !.bli = NoItem]
  <2>1. r = BufRele(d)
    BY <1>0, <1>6
  <2>2. d \in Both /\ d.buf = t.buf /\ d.bli = NoItem
    BY <1>1, <1>4 DEF Both
  <2>3. Balance(d, n + 1)
    BY <1>1, <1>2, <1>5, <1>6, <2>2 DEF Balance, NoItem, One
  <2> HIDE DEF d
  <2>4. BufRele(d) \in Both /\ BufRele(d).bli = d.bli /\ Balance(BufRele(d), n)
        /\ BufRele(d).buf = [d.buf EXCEPT !.hold = d.buf.hold - 1]
    BY <1>5, <2>2, <2>3, LockedReleDoes
  <2>5. r.buf = [s.buf EXCEPT !.iodone = FALSE, !.ino = FALSE, !.hold = r.buf.hold]
    <3>1. t.buf \in Buffer
      BY <1>4 DEF Both
    <3> QED BY <1>1, <1>3, <2>1, <2>2, <2>4, <3>1 DEF Buffer
  <2> QED BY <2>1, <2>2, <2>4, <2>5
<1>7. CASE ~s.bli.there
  <2>1. r = t
    BY <1>0, <1>7
  <2>2. Balance(t, n)
    BY <1>1, <1>3, <1>5 DEF Balance
  <2>3. t.buf = [s.buf EXCEPT !.iodone = FALSE, !.ino = FALSE, !.hold = t.buf.hold]
    BY <1>1, <1>3 DEF Buffer
  <2> QED BY <1>3, <1>4, <1>7, <2>1, <2>2, <2>3
<1> QED BY <1>6, <1>7

----------------------------------------------------------------------------
\* The transactions with a reference to the item, those that pin the buffer, and how many there are.
RefPcs == {"in", "logged", "committed", "ail"}
PinPcs == {"logged", "committed", "ail", "drop"}
N(A) == Cardinality({t \in Txs : tx[t].pc \in A})

LEMMA NumberIsNat == ASSUME IsFiniteSet(Txs) PROVE \A A : N(A) \in Nat
BY FS_Subset, FS_CardinalityType DEF N

\* a number changes with the one transaction that moves
LEMMA Moves ==
  ASSUME IsFiniteSet(Txs), NEW A, NEW t \in Txs, \A u \in Txs \ {t} : tx'[u].pc = tx[u].pc
  PROVE  N(A)' = N(A) - One(tx[t].pc \in A) + One(tx'[t].pc \in A)
<1> DEFINE R == {u \in Txs \ {t} : tx[u].pc \in A}
           H == {u \in Txs : tx[u].pc \in A}
<1>1. IsFiniteSet(R) /\ t \notin R
  BY FS_Subset
<1>2. H = IF tx[t].pc \in A THEN R \cup {t} ELSE R
  OBVIOUS
<1>3. H' = IF tx'[t].pc \in A THEN R \cup {t} ELSE R
  OBVIOUS
<1>4. Cardinality(R) \in Nat /\ Cardinality(R \cup {t}) = Cardinality(R) + 1
  BY <1>1, FS_AddElement, FS_CardinalityType
<1> HIDE DEF R, H
<1>5. N(A) = Cardinality(R) + One(tx[t].pc \in A)
  <2>1. N(A) = Cardinality(H)
    BY DEF N, H
  <2>2. CASE tx[t].pc \in A
    BY <1>2, <1>4, <2>1, <2>2 DEF One
  <2>3. CASE tx[t].pc \notin A
    <3>1. H = R /\ One(tx[t].pc \in A) = 0
      BY <1>2, <2>3 DEF One
    <3> QED BY <1>4, <2>1, <3>1
  <2> QED BY <2>2, <2>3
<1>6. N(A)' = Cardinality(R) + One(tx'[t].pc \in A)
  <2>1. N(A)' = Cardinality(H')
    BY DEF N, H
  <2>2. CASE tx'[t].pc \in A
    <3>1. H' = R \cup {t} /\ One(tx'[t].pc \in A) = 1
      BY <1>3, <2>2 DEF One
    <3> QED BY <1>4, <2>1, <3>1
  <2>3. CASE tx'[t].pc \notin A
    <3>1. H' = R /\ One(tx'[t].pc \in A) = 0
      BY <1>3, <2>3 DEF One
    <3> QED BY <1>4, <2>1, <3>1
  <2> QED BY <2>2, <2>3
<1>7. One(tx[t].pc \in A) \in Int /\ One(tx'[t].pc \in A) \in Int
  BY DEF One
<1> QED BY <1>4, <1>5, <1>6, <1>7

LEMMA NoneLeft == ASSUME IsFiniteSet(Txs), NEW A, N(A) = 0 PROVE \A t \in Txs : tx[t].pc \notin A
<1> DEFINE H == {t \in Txs : tx[t].pc \in A}
<1>1. IsFiniteSet(H)
  BY FS_Subset
<1>2. H = {}
  BY <1>1, FS_EmptySet DEF N
<1> QED BY <1>2

LEMMA SomeLeft == ASSUME IsFiniteSet(Txs), NEW A, NEW t \in Txs, tx[t].pc \in A PROVE N(A) > 0
<1> DEFINE H == {u \in Txs : tx[u].pc \in A}
<1>1. IsFiniteSet(H) /\ t \in H
  BY FS_Subset
<1>2. Cardinality(H) # 0 /\ Cardinality(H) \in Nat
  BY <1>1, FS_EmptySet, FS_CardinalityType
<1> QED BY <1>2 DEF N

LEMMA NumberIsOne ==
  ASSUME IsFiniteSet(Txs), NEW A, NEW t \in Txs, tx[t].pc \in A, \A u \in Txs \ {t} : tx[u].pc \notin A
  PROVE N(A) = 1
<1>1. {u \in Txs : tx[u].pc \in A} = {t}
  OBVIOUS
<1> QED BY <1>1, FS_Singleton DEF N

----------------------------------------------------------------------------
\* The parts of the invariant. References, pins and holds are counted;
CountOK ==
  /\ ~oops /\ bli.ref = N(RefPcs) /\ buf.pin = N(PinPcs)
  /\ bli.there <=> bli.ref > 0 \/ bli.lsn # 0
  /\ Balance(S, N({"wait"}))
\* whoever owns the buffer has it locked, and nobody pins it while it is being written;
LockOK ==
  /\ \A t \in Txs : Owner(t) => buf.lock = "tx"
  /\ \A t, u \in Txs : Owner(t) /\ Owner(u) => t = u
  /\ push = "locked" => buf.lock = "push" /\ bli.lsn # 0
  /\ io # "none" => buf.lock = "io"
  /\ io = "flight" => \A t \in Txs : tx[t].pc \notin PinPcs
\* what a transaction's place in the code says of it;
TxOK == \A t \in Txs :
  /\ tx[t].held => tx[t].pc \in {"committed", "ail", "drop", "done"} /\ ~tx[t].stale
  /\ tx[t].pc \in {"idle", "wait"} => ~tx[t].stale /\ ~tx[t].dirty
  /\ tx[t].pc \in {"idle", "wait", "in"} => tx[t].lsn = 0
  /\ tx[t].pc \in PinPcs => tx[t].lsn > 0
  /\ tx[t].lsn <= Len(log)
  /\ tx[t].stale => tx[t].dirty
  /\ tx[t].pc = "logged" => tx[t].dirty
\* callbacks run in the order of the log, and after a transaction that freed the block there is no other;
OrderOK == \A t \in Txs :
  /\ tx[t].pc \in {"ail", "drop"} =>
       bli.lsn # 0 /\ \A u \in Txs : tx[u].lsn \in 1 .. tx[t].lsn - 1 => tx[u].pc = "done"
  /\ Staler(t) /\ tx[t].pc # "in" => \A u \in Txs \ {t} : tx[u].lsn < tx[t].lsn
  /\ tx[t].pc = "drop" /\ tx[t].stale => tx[t].freed
\* the item's flags and what it has logged agree with the transactions that are not in the AIL yet;
FlagsOK ==
  /\ ~bli.there => bli = NoItem
  /\ "DIRTY" \in bli.flags <=> bli.map # {}
  /\ "LOGGED" \in bli.flags =>
       bli.map # {} /\ \E t \in Txs : tx[t].pc \in {"in", "logged"} /\ tx[t].dirty /\ ~tx[t].stale
  /\ \A t \in Txs : tx[t].pc \in {"in", "logged"} /\ tx[t].dirty /\ ~tx[t].stale => "LOGGED" \in bli.flags
  /\ bli.there /\ bli.map = {} /\ "STALE" \notin bli.flags =>
       bli.lsn = 0 /\ \A t \in Txs : tx[t].pc \in RefPcs => tx[t].pc = "in"
  /\ bli.map # {} =>
       bli.lsn # 0 \/ \E t \in Txs : tx[t].pc \in {"in", "logged", "committed"} /\ tx[t].dirty /\ ~tx[t].stale
\* a block is stale from when it is freed until the transaction that freed it lets go;
StaleOK ==
  /\ "STALE" \in bli.flags => /\ \E t \in Txs : Staler(t)
                              /\ buf.stale /\ ~buf.delwri /\ ~buf.queued /\ "HOLD" \notin bli.flags /\ bli.map = {}
                              /\ buf.ino => "STALE_INODE" \in bli.flags
  /\ \A t \in Txs : Staler(t) => "STALE" \in bli.flags
  /\ buf.stale /\ "STALE" \notin bli.flags =>
       buf.lock = "free" /\ ~bli.there /\ ~buf.ino /\ ~buf.delwri /\ ~buf.queued
\* what is to be written is on the queue of xfsbufd, or has been taken off by whoever has the lock.
QueueOK ==
  /\ buf.queued => buf.delwri
  /\ buf.ino => kind = "inode"
  /\ (bli.map # {} \/ buf.ino) /\ "STALE" \notin bli.flags =>
       /\ buf.iodone /\ (buf.lock # "io" => buf.delwri) /\ (buf.lock = "free" => buf.queued)

Rest == CountOK /\ LockOK /\ TxOK /\ OrderOK /\ FlagsOK /\ StaleOK /\ QueueOK
BufCorrect == TypeOK /\ Rest

----------------------------------------------------------------------------
\* What the actions do to the buffer, the item and the transactions.
Kept == S' \in Both /\ Balance(S', N({"wait"})')
Only(t) == tx' \in [Txs -> Tx] /\ \A u \in Txs \ {t} : tx'[u] = tx[u]
Quiet == UNCHANGED <<kind, log, io, push, oops, shut>>

\* after b the buffer is unlocked, and gone if nobody holds it
Relsed(b) == \/ buf' = [b EXCEPT !.lock = "free", !.queued = b.delwri, !.hold = buf'.hold]
             \/ buf' = NoBuf /\ ~bli'.there /\ ~b.delwri

Joins == bli' = IF bli.there THEN [bli EXCEPT !.ref = @ + 1, !.recur = 0] ELSE [bli EXCEPT !.there = TRUE, !.ref = 1]

LEMMA RelsedDoes ==
  ASSUME NEW n \in Nat, NEW s \in Both, Balance(s, n), s.buf.lock # "free", s.buf.queued => s.buf.delwri,
         Install(BufRelse(s))
  PROVE  S' \in Both /\ Balance(S', n) /\ bli' = s.bli /\ Relsed(s.buf)
<1> DEFINE r == BufRelse(s)
<1>2. /\ r \in Both /\ r.bli = s.bli /\ Balance(r, n)
      /\ \/ r.buf = [s.buf EXCEPT !.lock = "free", !.queued = s.buf.delwri, !.hold = r.buf.hold]
         \/ r.buf = NoBuf /\ n = 0 /\ ~s.bli.there /\ ~s.buf.delwri
  BY RelseDoes
<1>3. buf' = r.buf /\ bli' = r.bli
  BY DEF Install
<1> HIDE DEF r
<1>4. S' = r
  BY <1>2, <1>3 DEF S, Both
<1> QED BY <1>2, <1>3, <1>4 DEF Relsed

LEMMA JoinDoes ==
  ASSUME NEW n \in Nat, NEW s \in Both, Balance(s, n), s.bli = bli, Install(Joined(s)), FlagsOK
  PROVE  S' \in Both /\ Balance(S', n) /\ Joins /\ buf' = [s.buf EXCEPT !.hold = buf'.hold]
<1> DEFINE r == Joined(s)
<1>1. n \in Nat /\ s.buf \in Buffer /\ s.bli \in Item /\ s.buf.hold \in Int
  BY DEF Both, Buffer
<1>2. One(TRUE) = 1 /\ One(FALSE) = 0 /\ One(s.buf.queued) \in Int /\ One(s.buf.lock # "free") \in Int
  BY DEF One
<1>3. CASE bli.there
  <2>1. r = [s EXCEPT !.bli.ref = @ + 1, !.bli.recur = 0]
    BY <1>3 DEF Joined
  <2>2. bli.ref + 1 \in Int /\ 0 \in Int
    BY <1>1 DEF Item
  <2>3. [bli EXCEPT !.ref = @ + 1, !.recur = 0] \in Item
    BY <1>1, <2>2 DEF Item
  <2>4. r.bli = [bli EXCEPT !.ref = @ + 1, !.recur = 0] /\ r.buf = s.buf
    BY <1>1, <2>1 DEF Both, Item
  <2>5. r \in Both
    <3>1. r = [buf |-> r.buf, bli |-> r.bli]
      BY <2>1 DEF Both
    <3> QED BY <1>1, <2>3, <2>4, <3>1 DEF Both
  <2>6. r.bli.there = s.bli.there
    BY <1>1, <2>4 DEF Item
  <2>7. Balance(r, n)
    BY <2>4, <2>6 DEF Balance
  <2>8. buf' = r.buf /\ bli' = r.bli
    BY DEF Install
  <2>9. S' = r
    <3> HIDE DEF r
    <3> QED BY <2>5, <2>8 DEF S, Both
  <2>10. buf' = [s.buf EXCEPT !.hold = buf'.hold]
    BY <1>1, <2>4, <2>8 DEF Buffer
  <2> QED BY <1>3, <2>4, <2>5, <2>7, <2>8, <2>9, <2>10 DEF Joins
<1>4. CASE ~bli.there
  <2>1. r = [s EXCEPT !.buf.hold = @ + 1, !.bli.there = TRUE, !.bli.ref = 1]
    BY <1>4 DEF Joined
  <2>2. 1 \in Int /\ s.buf.hold + 1 \in Int
    BY <1>1
  <2>3. [bli EXCEPT !.there = TRUE, !.ref = 1] \in Item /\ [s.buf EXCEPT !.hold = s.buf.hold + 1] \in Buffer
    BY <1>1, <2>2 DEF Item, Buffer
  <2>4. r.bli = [bli EXCEPT !.there = TRUE, !.ref = 1] /\ r.buf = [s.buf EXCEPT !.hold = s.buf.hold + 1]
    BY <1>1, <2>1 DEF Both, Item
  <2>5. r \in Both
    <3>1. r = [buf |-> r.buf, bli |-> r.bli]
      BY <2>1 DEF Both
    <3> QED BY <1>1, <2>3, <2>4, <3>1 DEF Both
  <2>6. r.bli.there = TRUE /\ r.buf.hold = s.buf.hold + 1 /\ r.buf.queued = s.buf.queued /\ r.buf.lock = s.buf.lock
    BY <1>1, <2>4 DEF Item, Buffer
  <2>7. Balance(r, n)
    <3>1. s.bli.there = FALSE
      BY <1>1, <1>4 DEF Item
    <3> HIDE DEF r
    <3>2. One(s.bli.there) = 0 /\ One(r.bli.there) = 1
      BY <2>6, <3>1 DEF One
    <3>3. One(r.buf.queued) = One(s.buf.queued) /\ One(r.buf.lock # "free") = One(s.buf.lock # "free")
      BY <2>6
    <3>4. s.buf.hold = 0 + One(s.buf.queued) + One(s.buf.lock # "free") + n
      BY <3>2 DEF Balance
    <3>5. s.buf.hold + 1 = 1 + One(s.buf.queued) + One(s.buf.lock # "free") + n
      BY <1>1, <1>2, <3>4
    <3> QED BY <2>6, <3>2, <3>3, <3>5 DEF Balance
  <2>8. buf' = r.buf /\ bli' = r.bli
    BY DEF Install
  <2>9. S' = r
    <3> HIDE DEF r
    <3> QED BY <2>5, <2>8 DEF S, Both
  <2>10. buf' = [s.buf EXCEPT !.hold = buf'.hold]
    BY <1>1, <2>4, <2>8 DEF Buffer
  <2> QED BY <1>4, <2>4, <2>5, <2>7, <2>8, <2>9, <2>10 DEF Joins
<1> QED BY <1>3, <1>4

LEMMA WaitStays ==
  ASSUME \A u \in Txs : tx'[u].pc = "wait" <=> tx[u].pc = "wait"
  PROVE  N({"wait"})' = N({"wait"})
<1>1. {u \in Txs : tx'[u].pc \in {"wait"}} = {u \in Txs : tx[u].pc \in {"wait"}}
  OBVIOUS
<1> QED BY <1>1 DEF N

\* a transaction that has joined the buffer has it to itself
LEMMA InOwns ==
  ASSUME BufCorrect, NEW t \in Txs, tx[t].pc \in {"in", "logged"} \/ tx[t].held \/ Staler(t)
  PROVE  /\ buf.lock = "tx" /\ io = "none" /\ push # "locked"
         /\ \A u \in Txs \ {t} : tx[u].pc \notin {"in", "logged"} /\ ~tx[u].held /\ ~Staler(u)
         /\ "STALE" \in bli.flags => Staler(t)
BY DEF BufCorrect, Rest, LockOK, StaleOK, Owner

LEMMA NobodyOwns ==
  ASSUME BufCorrect, buf.lock # "tx"
  PROVE  /\ \A u \in Txs : tx[u].pc \notin {"in", "logged"} /\ ~tx[u].held /\ ~Staler(u)
         /\ {"STALE", "LOGGED"} \cap bli.flags = {}
BY DEF BufCorrect, Rest, LockOK, StaleOK, FlagsOK, Owner

LEMMA SIsBoth == ASSUME TypeOK PROVE S \in Both /\ S.buf = buf /\ S.bli = bli
BY DEF TypeOK, S, Both

GetBufDid(t) ==
  /\ Kept /\ Quiet /\ Only(t) /\ Joins /\ tx[t].pc = "wait" /\ buf.lock = "free"
  /\ tx'[t] = [tx[t] EXCEPT !.pc = "in"]
  /\ buf' = [buf EXCEPT !.lock = "tx", !.stale = FALSE, !.done = buf'.done, !.hold = buf'.hold]
LEMMA GetBufDoes ==
  ASSUME BufCorrect, NEW t \in Txs, GetBuf(t), ~Down
  PROVE  GetBufDid(t)
<1> DEFINE s == BufFound([S EXCEPT !.buf.lock = "tx"])
           g == IF tx[t].alloc THEN s ELSE BufRead(s)
           n == N({"wait"})
<1>1. tx[t].pc = "wait" /\ buf.lock = "free" /\ To(t, "in") /\ Install(Joined(g))
  BY DEF GetBuf
<1>0. TypeOK /\ CountOK /\ FlagsOK /\ StaleOK
  BY DEF BufCorrect, Rest
<1>2. buf \in Buffer /\ bli \in Item /\ buf.hold \in Int /\ n \in Nat
  BY <1>0, NumberIsNat DEF TypeOK, Buffer
<1> HIDE DEF n
<1>3. /\ s.bli = bli
      /\ s.buf = IF buf.stale THEN [buf EXCEPT !.lock = "tx", !.stale = FALSE, !.done = FALSE, !.delwri = FALSE]
                 ELSE [buf EXCEPT !.lock = "tx"]
      /\ s = [buf |-> s.buf, bli |-> bli]
  BY <1>2 DEF BufFound, S, Buffer
<1>4. s.buf \in Buffer
  <2>1. CASE buf.stale
    BY <1>2, <1>3, <2>1 DEF Buffer
  <2>2. CASE ~buf.stale
    BY <1>2, <1>3, <2>2 DEF Buffer
  <2> QED BY <2>1, <2>2
<1>5. g.bli = bli /\ g = [buf |-> g.buf, bli |-> bli] /\ g.buf = IF tx[t].alloc THEN s.buf ELSE [s.buf EXCEPT !.done = TRUE]
  <2> HIDE DEF s
  <2> QED BY <1>2, <1>3, <1>4 DEF BufRead, Buffer
<1>6. g.buf \in Buffer
  <2> HIDE DEF s
  <2>1. CASE tx[t].alloc
    BY <1>4, <1>5, <2>1
  <2>2. CASE ~tx[t].alloc
    BY <1>4, <1>5, <2>2 DEF Buffer
  <2> QED BY <2>1, <2>2
<1> HIDE DEF g, s
<1>7. /\ g.buf.hold = buf.hold /\ g.buf.queued = buf.queued /\ g.buf.lock = "tx" /\ g.buf.stale = FALSE
      /\ g.buf.pin = buf.pin /\ g.buf.iodone = buf.iodone /\ g.buf.ino = buf.ino
      /\ buf.stale => g.buf.delwri = FALSE
      /\ ~buf.stale => g.buf.delwri = buf.delwri
  <2> USE DEF Buffer
  <2>1. /\ s.buf.hold = buf.hold /\ s.buf.queued = buf.queued /\ s.buf.lock = "tx" /\ s.buf.stale = FALSE
        /\ s.buf.pin = buf.pin /\ s.buf.iodone = buf.iodone /\ s.buf.ino = buf.ino
        /\ buf.stale => s.buf.delwri = FALSE
        /\ ~buf.stale => s.buf.delwri = buf.delwri
    <3>1. CASE buf.stale
      BY <1>2, <1>3, <3>1
    <3>2. CASE ~buf.stale
      BY <1>2, <1>3, <3>2
    <3> QED BY <3>1, <3>2
  <2>2. CASE tx[t].alloc
    BY <1>5, <2>1, <2>2
  <2>3. CASE ~tx[t].alloc
    BY <1>4, <1>5, <2>1, <2>3
  <2> QED BY <2>2, <2>3
<1>8. buf.stale => ~buf.delwri
  BY <1>0, <1>1, NobodyOwns DEF StaleOK
<1>9. g.buf = [buf EXCEPT !.lock = "tx", !.stale = FALSE, !.done = g.buf.done]
  <2>1. g.buf.delwri = buf.delwri
    BY <1>2, <1>7, <1>8 DEF Buffer
  <2> QED BY <1>2, <1>6, <1>7, <2>1 DEF Buffer
<1>10. tx' \in [Txs -> Tx] /\ tx'[t] = [tx[t] EXCEPT !.pc = "in"] /\ \A u \in Txs \ {t} : tx'[u] = tx[u]
  BY <1>0, <1>1 DEF To, TypeOK, Tx
<1>11. N({"wait"})' = n - 1
  <2>1. tx'[t].pc = "in"
    BY <1>0, <1>10 DEF TypeOK, Tx
  <2>2. N({"wait"})' = N({"wait"}) - One(tx[t].pc \in {"wait"}) + One(tx'[t].pc \in {"wait"})
    BY <1>0, <1>10, Moves DEF TypeOK
  <2>3. One(tx[t].pc \in {"wait"}) = 1 /\ One(tx'[t].pc \in {"wait"}) = 0
    BY <1>1, <2>1 DEF One
  <2> QED BY <1>2, <2>2, <2>3 DEF n
<1>12. n - 1 \in Nat
  <2>1. N({"wait"}) > 0
    BY <1>0, <1>1, SomeLeft DEF TypeOK
  <2> QED BY <1>2, <2>1 DEF n
<1>13. g \in Both /\ g.bli = bli
  BY <1>0, <1>5, <1>6 DEF Both, TypeOK
<1>14. Balance(g, n - 1)
  <2>1. One(buf.lock # "free") = 0 /\ One(g.buf.lock # "free") = 1 /\ One(bli.there) \in Int /\ One(buf.queued) \in Int
    BY <1>1, <1>7 DEF One
  <2>2. buf.hold = One(bli.there) + One(buf.queued) + 0 + n
    BY <1>0, <2>1 DEF CountOK, Balance, S, n
  <2>3. One(g.bli.there) = One(bli.there) /\ One(g.buf.queued) = One(buf.queued) /\ g.buf.hold = buf.hold
    BY <1>7, <1>13
  <2> QED BY <1>2, <2>1, <2>2, <2>3 DEF Balance
<1>15. S' \in Both /\ Balance(S', n - 1) /\ Joins /\ buf' = [g.buf EXCEPT !.hold = buf'.hold]
  BY <1>0, <1>1, <1>12, <1>13, <1>14, JoinDoes
<1>16. buf' = [buf EXCEPT !.lock = "tx", !.stale = FALSE, !.done = buf'.done, !.hold = buf'.hold]
  BY <1>2, <1>6, <1>9, <1>15 DEF Buffer
<1>17. Quiet
  BY DEF GetBuf, Quiet
<1> QED BY <1>1, <1>10, <1>11, <1>15, <1>16, <1>17 DEF GetBufDid, Kept, Only

LEMMA KeptAsIs ==
  ASSUME CountOK, buf' \in Buffer, bli' \in Item, buf'.hold = buf.hold, buf'.queued = buf.queued,
         buf'.lock = "free" <=> buf.lock = "free", bli'.there = bli.there, N({"wait"})' = N({"wait"})
  PROVE  Kept
<1>1. S' \in Both
  BY DEF S, Both
<1>2. One(buf'.lock # "free") = One(buf.lock # "free")
  BY DEF One
<1>3. Balance(S, N({"wait"}))
  BY DEF CountOK
<1>4. Balance(S', N({"wait"})')
  BY <1>2, <1>3 DEF Balance, S
<1> QED BY <1>1, <1>4 DEF Kept

LEMMA Typed ==
  ASSUME BufCorrect
  PROVE  /\ buf \in Buffer /\ bli \in Item /\ tx \in [Txs -> Tx] /\ IsFiniteSet(Txs) /\ buf.hold \in Int
         /\ S \in Both /\ S.buf = buf /\ S.bli = bli /\ N({"wait"}) \in Nat /\ Balance(S, N({"wait"}))
         /\ Len(log) \in Nat /\ shut \in Nat
BY SIsBoth, NumberIsNat DEF BufCorrect, Rest, TypeOK, CountOK, Buffer

FindDid(t) ==
  /\ Kept /\ Quiet /\ Only(t) /\ tx[t].pc = "idle" /\ UNCHANGED bli
  /\ tx'[t] = [tx[t] EXCEPT !.pc = "wait", !.alloc = tx'[t].alloc]
  /\ buf' = [buf EXCEPT !.hold = buf'.hold]
LEMMA FindDoes == ASSUME BufCorrect, NEW t \in Txs, Find(t) PROVE FindDid(t)
<1>0. /\ buf \in Buffer /\ bli \in Item /\ tx \in [Txs -> Tx] /\ IsFiniteSet(Txs) /\ buf.hold \in Int
      /\ N({"wait"}) \in Nat /\ Balance(S, N({"wait"}))
  BY Typed
<1>1. PICK a \in BOOLEAN : tx' = [tx EXCEPT ![t].alloc = a, ![t].pc = "wait"]
  BY DEF Find, FreeToUse
<1>2. tx[t].pc = "idle" /\ bli' = bli /\ Quiet /\ buf' = [buf EXCEPT !.hold = @ + 1]
  BY DEF Find, Quiet, Begun
<1>3. tx'[t] = [tx[t] EXCEPT !.pc = "wait", !.alloc = a] /\ \A u \in Txs \ {t} : tx'[u] = tx[u]
  BY <1>0, <1>1 DEF Tx
<1>4. tx' \in [Txs -> Tx] /\ tx'[t].alloc = a /\ tx'[t].pc = "wait"
  <2>1. [tx[t] EXCEPT !.pc = "wait", !.alloc = a] \in Tx
    BY <1>0 DEF Tx
  <2>2. tx' = [tx EXCEPT ![t] = [tx[t] EXCEPT !.pc = "wait", !.alloc = a]]
    BY <1>0, <1>1
  <2>3. tx[t] \in Tx
    BY <1>0
  <2>4. tx' \in [Txs -> Tx]
    BY <1>0, <2>1, <2>2
  <2> QED BY <1>3, <2>3, <2>4 DEF Tx
<1>5. N({"wait"})' = N({"wait"}) + 1
  <2>1. N({"wait"})' = N({"wait"}) - One(tx[t].pc \in {"wait"}) + One(tx'[t].pc \in {"wait"})
    BY <1>0, <1>3, Moves
  <2>2. One(tx[t].pc \in {"wait"}) = 0 /\ One(tx'[t].pc \in {"wait"}) = 1
    BY <1>2, <1>4 DEF One
  <2> QED BY <1>0, <2>1, <2>2
<1>6. buf.hold + 1 \in Int
  BY <1>0
<1>7. buf' \in Buffer /\ buf'.hold = buf.hold + 1 /\ buf'.queued = buf.queued /\ buf'.lock = buf.lock
  BY <1>0, <1>2, <1>6 DEF Buffer
<1>8. Balance(S', N({"wait"})')
  <2>1. buf.hold = One(bli.there) + One(buf.queued) + One(buf.lock # "free") + N({"wait"})
    BY <1>0 DEF Balance, S
  <2>2. One(bli.there) \in Int /\ One(buf.queued) \in Int /\ One(buf.lock # "free") \in Int
    BY DEF One
  <2>3. buf'.hold = One(bli'.there) + One(buf'.queued) + One(buf'.lock # "free") + N({"wait"})'
    BY <1>0, <1>2, <1>5, <1>7, <2>1, <2>2
  <2> QED BY <2>3 DEF Balance, S
<1>9. S' \in Both
  BY <1>0, <1>2, <1>7 DEF S, Both
<1>10. buf' = [buf EXCEPT !.hold = buf'.hold]
  BY <1>2, <1>7
<1> QED BY <1>2, <1>3, <1>4, <1>8, <1>9, <1>10 DEF FindDid, Kept, Only

MarkDid(t) ==
  /\ Kept /\ Quiet /\ tx[t].pc = "in" /\ UNCHANGED <<buf, tx>>
  /\ bli' = [bli EXCEPT !.recur = bli'.recur, !.flags = bli'.flags]
  /\ bli'.flags \ {"HOLD"} = bli.flags \ {"HOLD"} /\ ("STALE" \in bli.flags => "HOLD" \notin bli'.flags)
LEMMA MarkDoes ==
  ASSUME BufCorrect, NEW t \in Txs,
         GetAgain(t) \/ Bhold(t) \/ BholdRelease(t) \/ (Brelse(t) /\ UNCHANGED tx)
  PROVE  MarkDid(t)
<1>0. /\ buf \in Buffer /\ bli \in Item /\ tx \in [Txs -> Tx] /\ IsFiniteSet(Txs) /\ CountOK /\ StaleOK
  BY Typed DEF BufCorrect, Rest
<1>1. Quiet /\ tx[t].pc = "in" /\ UNCHANGED <<buf, tx>>
  <2>1. CASE GetAgain(t) \/ Bhold(t) \/ BholdRelease(t)
    BY <2>1 DEF GetAgain, Bhold, BholdRelease, Quiet
  <2>2. CASE Brelse(t) /\ UNCHANGED tx
    <3>1. tx'[t].pc = "in"
      BY <2>2 DEF Brelse
    <3>2. ~To(t, "done")
      BY <1>0, <3>1 DEF To, Tx
    <3> QED BY <2>2, <3>2 DEF Brelse, Quiet
  <2> QED BY <2>1, <2>2
<1>2. PICK r \in Int, f \in SUBSET Flags :
        /\ bli' = [bli EXCEPT !.recur = r, !.flags = f]
        /\ f \ {"HOLD"} = bli.flags \ {"HOLD"} /\ ("STALE" \in bli.flags => "HOLD" \notin f)
  <2>0. bli.recur \in Int /\ bli.recur - 1 \in Int /\ 1 \in Int /\ bli.flags \in SUBSET Flags
        /\ bli.flags \ {"HOLD"} \in SUBSET Flags /\ bli.flags \cup {"HOLD"} \in SUBSET Flags
        /\ ("STALE" \in bli.flags => "HOLD" \notin bli.flags)
    BY <1>0 DEF Item, Flags, StaleOK
  <2>1. CASE GetAgain(t)
    <3>1. bli' = [bli EXCEPT !.recur = 1]
      BY <2>1 DEF GetAgain
    <3>2. bli' = [bli EXCEPT !.recur = 1, !.flags = bli.flags]
      BY <1>0, <3>1 DEF Item
    <3> QED BY <2>0, <3>2
  <2>2. CASE Bhold(t)
    <3>1. bli' = [bli EXCEPT !.flags = bli.flags \cup {"HOLD"}] /\ "STALE" \notin bli.flags
      BY <2>2 DEF Bhold
    <3>2. bli' = [bli EXCEPT !.recur = bli.recur, !.flags = bli.flags \cup {"HOLD"}]
      BY <1>0, <3>1 DEF Item
    <3> QED BY <2>0, <3>1, <3>2
  <2>3. CASE BholdRelease(t)
    <3>1. bli' = [bli EXCEPT !.flags = bli.flags \ {"HOLD"}]
      BY <2>3 DEF BholdRelease
    <3>2. bli' = [bli EXCEPT !.recur = bli.recur, !.flags = bli.flags \ {"HOLD"}]
      BY <1>0, <3>1 DEF Item
    <3> QED BY <2>0, <3>2
  <2>4. CASE Brelse(t) /\ UNCHANGED tx
    <3>0. tx'[t].pc = "in" /\ ~To(t, "done")
      BY <1>0, <1>1 DEF To, Tx
    <3>1. bli' = [bli EXCEPT !.recur = bli.recur - 1]
      BY <2>4, <3>0 DEF Brelse
    <3>2. bli' = [bli EXCEPT !.recur = bli.recur - 1, !.flags = bli.flags]
      BY <1>0, <3>1 DEF Item
    <3> QED BY <2>0, <3>2
  <2> QED BY <2>1, <2>2, <2>3, <2>4
<1>3. bli' \in Item /\ bli'.recur = r /\ bli'.flags = f /\ bli'.there = bli.there
  BY <1>0, <1>2 DEF Item
<1>4. Kept
  <2>1. N({"wait"})' = N({"wait"})
    BY <1>1 DEF N
  <2> QED BY <1>0, <1>1, <1>3, <2>1, KeptAsIs
<1> QED BY <1>1, <1>2, <1>3, <1>4 DEF MarkDid

LEMMA OnlyOne ==
  ASSUME tx \in [Txs -> Tx], NEW t \in Txs, NEW x \in Tx, tx' = [tx EXCEPT ![t] = x]
  PROVE  Only(t) /\ tx'[t] = x
BY DEF Only

\* nothing waits or stops waiting
LEMMA WaitKept ==
  ASSUME NEW t \in Txs, Only(t), tx[t].pc # "wait", tx'[t].pc # "wait"
  PROVE  N({"wait"})' = N({"wait"})
<1>1. \A u \in Txs : tx'[u].pc = "wait" <=> tx[u].pc = "wait"
  BY DEF Only
<1> QED BY <1>1, WaitStays

DropDid(t) ==
  /\ Kept /\ Quiet /\ Only(t) /\ tx[t].pc = "in" /\ ~tx[t].dirty
  /\ {"STALE", "LOGGED"} \cap bli.flags = {}
  /\ tx'[t] = [tx[t] EXCEPT !.pc = "done", !.held = tx'[t].held]
  /\ \/ /\ bli.map = {} /\ bli' = NoItem
        /\ \/ ~tx'[t].held /\ Relsed([buf EXCEPT !.iodone = @ /\ buf.ino])
           \/ tx'[t].held /\ buf' = [buf EXCEPT !.iodone = @ /\ buf.ino, !.hold = buf'.hold]
     \/ /\ bli.map # {} /\ bli' = [bli EXCEPT !.flags = @ \ {"HOLD"}, !.ref = @ - 1]
        /\ \/ ~tx'[t].held /\ Relsed(buf)
           \/ tx'[t].held /\ UNCHANGED buf

\* a transaction that has logged nothing drops the item: r without the reference
LEMMA Letting ==
  ASSUME BufCorrect, NEW t \in Txs, tx[t].pc = "in", NEW h \in BOOLEAN, N({"wait"})' = N({"wait"}),
         NEW s, s = [S EXCEPT !.bli = [bli EXCEPT !.flags = @ \ {"HOLD"}, !.ref = @ - 1]],
         NEW r, r \in Both, r.buf = buf, r.bli.there = bli.there,
         IF bli.map = {} THEN Install(IF h THEN ItemRelse(r) ELSE BufRelse(ItemRelse(r)))
         ELSE Install(IF h THEN s ELSE BufRelse(s))
  PROVE  /\ Kept
         /\ \/ /\ bli.map = {} /\ bli' = NoItem
               /\ \/ ~h /\ Relsed([buf EXCEPT !.iodone = @ /\ buf.ino])
                  \/ h /\ buf' = [buf EXCEPT !.iodone = @ /\ buf.ino, !.hold = buf'.hold]
            \/ /\ bli.map # {} /\ bli' = [bli EXCEPT !.flags = @ \ {"HOLD"}, !.ref = @ - 1]
               /\ \/ ~h /\ Relsed(buf)
                  \/ h /\ UNCHANGED buf
<1> DEFINE n == N({"wait"})
           i == [bli EXCEPT !.flags = @ \ {"HOLD"}, !.ref = @ - 1]
           c == ItemRelse(r)
           b == buf.iodone /\ buf.ino
<1>0. /\ buf \in Buffer /\ bli \in Item /\ tx \in [Txs -> Tx] /\ IsFiniteSet(Txs) /\ buf.hold \in Int
      /\ S \in Both /\ S.buf = buf /\ S.bli = bli /\ n \in Nat /\ Balance(S, n)
  BY Typed
<1>1. buf.lock = "tx" /\ (buf.queued => buf.delwri)
  BY InOwns DEF BufCorrect, Rest, QueueOK
<1>2. bli.there
  <2>1. t \in {u \in Txs : tx[u].pc \in RefPcs} /\ CountOK
    BY DEF RefPcs, BufCorrect, Rest
  <2>2. N(RefPcs) > 0
    BY <1>0, <2>1, SomeLeft
  <2> QED BY <2>1, <2>2 DEF CountOK
<1>3. i \in Item /\ i.there = bli.there
  <2>1. bli.ref - 1 \in Int /\ bli.flags \ {"HOLD"} \in SUBSET Flags
    BY <1>0 DEF Item
  <2> QED BY <1>0, <2>1 DEF Item
<1>4. s \in Both /\ s.buf = buf /\ s.bli = i
  BY <1>0, <1>3 DEF Both
<1>5. Balance(s, n) /\ Balance(r, n)
  BY <1>0, <1>3, <1>4 DEF Balance
<1> HIDE DEF n, i
<1>6. CASE bli.map = {} 
  <2>1. /\ c \in Both /\ c.bli = NoItem /\ Balance(c, n)
        /\ c.buf = [buf EXCEPT !.iodone = b, !.hold = buf.hold - 1]
    BY <1>0, <1>1, <1>2, <1>5, ItemRelseDoes
  <2> HIDE DEF c
  <2>2. CASE h
    <3>1. buf' = c.buf /\ bli' = NoItem
      BY <1>6, <2>1, <2>2 DEF Install, c
    <3>2. S' = c
      BY <2>1, <3>1 DEF S, Both
    <3>3. buf' = [buf EXCEPT !.iodone = b, !.hold = buf'.hold]
      BY <1>0, <2>1, <3>1 DEF Buffer
    <3> QED BY <1>6, <2>1, <2>2, <3>1, <3>2, <3>3 DEF Kept, n
  <2>3. CASE ~h
    <3> DEFINE d == [buf EXCEPT !.iodone = b]
    <3>1. c.buf.lock # "free" /\ (c.buf.queued => c.buf.delwri) /\ Install(BufRelse(c))
      BY <1>0, <1>1, <1>6, <2>1, <2>3 DEF Buffer, c
    <3>2. S' \in Both /\ Balance(S', n) /\ bli' = NoItem /\ Relsed(c.buf)
      BY <1>0, <2>1, <3>1, RelsedDoes
    <3>3. Relsed(d)
      <4>1. d.delwri = c.buf.delwri
        BY <1>0, <2>1 DEF Buffer
      <4>2. ASSUME NEW x PROVE [c.buf EXCEPT !.lock = "free", !.queued = c.buf.delwri, !.hold = x]
                             = [d EXCEPT !.lock = "free", !.queued = d.delwri, !.hold = x]
        <5> HIDE DEF b
        <5> QED BY <1>0, <2>1, <4>1 DEF Buffer
      <4> HIDE DEF d
      <4> QED BY <3>2, <4>1, <4>2 DEF Relsed
    <3> QED BY <1>6, <2>3, <3>2, <3>3 DEF Kept, n
  <2> QED BY <2>2, <2>3
<1>7. CASE bli.map # {}
  <2>2. CASE h
    <3>1. buf' = buf /\ bli' = i
      BY <1>4, <1>7, <2>2 DEF Install
    <3>2. S' = s
      BY <1>4, <3>1 DEF S, Both
    <3> QED BY <1>4, <1>5, <1>7, <2>2, <3>1, <3>2 DEF Kept, n, i
  <2>3. CASE ~h
    <3>1. Install(BufRelse(s)) /\ s.buf.lock # "free" /\ (s.buf.queued => s.buf.delwri)
      BY <1>1, <1>4, <1>7, <2>3
    <3>2. S' \in Both /\ Balance(S', n) /\ bli' = i /\ Relsed(buf)
      BY <1>0, <1>4, <1>5, <3>1, RelsedDoes
    <3> QED BY <1>7, <2>3, <3>2 DEF Kept, n, i
  <2> QED BY <2>2, <2>3
<1> QED BY <1>6, <1>7

\* xfs_buf_item_unlock, step by step
UnlockSteps(s, u, r, f) ==
  /\ u = [s EXCEPT !.bli.flags = IF "STALE" \in @ THEN @ \ {"LOGGED"} ELSE @]
  /\ r = IF "LOGGED" \in u.bli.flags THEN [u EXCEPT !.bli.flags = @ \ {"LOGGED"}] ELSE [u EXCEPT !.bli.ref = @ - 1]
  /\ f = IF u.bli.map = {} THEN ItemRelse(r) ELSE [r EXCEPT !.bli.flags = @ \ {"HOLD"}]
LEMMA ItemUnlockIs ==
  ASSUME NEW s, NEW u, NEW r, NEW f, UnlockSteps(s, u, r, f)
  PROVE  ItemUnlock(s, FALSE) = IF "STALE" \in s.bli.flags THEN u
                                ELSE IF "HOLD" \in s.bli.flags THEN f ELSE BufRelse(f)
BY DEF ItemUnlock, UnlockSteps

LEMMA BrelseDoes == ASSUME BufCorrect, NEW t \in Txs, Brelse(t), ~UNCHANGED tx PROVE DropDid(t)
<1> DEFINE i == [bli EXCEPT !.flags = @ \ {"HOLD"}, !.ref = @ - 1]
           s == [S EXCEPT !.bli = i]
<1>0. /\ buf \in Buffer /\ bli \in Item /\ tx \in [Txs -> Tx] /\ S \in Both /\ S.buf = buf /\ S.bli = bli
      /\ FlagsOK /\ StaleOK /\ TxOK
  BY Typed DEF BufCorrect, Rest
<1>1. /\ tx[t].pc = "in" /\ ~tx[t].dirty /\ "STALE" \notin bli.flags /\ To(t, "done") /\ Quiet
      /\ Install(BufRelse(IF "DIRTY" \in bli.flags THEN [S EXCEPT !.bli.flags = @ \ {"HOLD"}, !.bli.ref = @ - 1]
                          ELSE ItemRelse([S EXCEPT !.bli.flags = @ \ {"HOLD"}, !.bli.ref = @ - 1])))
  BY DEF Brelse, Quiet
<1>2. s = [S EXCEPT !.bli.flags = @ \ {"HOLD"}, !.bli.ref = @ - 1]
  BY <1>0 DEF Both, Item
<1>3. i \in Item /\ i.there = bli.there
  <2>1. bli.ref - 1 \in Int /\ bli.flags \ {"HOLD"} \in SUBSET Flags
    BY <1>0 DEF Item
  <2> QED BY <1>0, <2>1 DEF Item
<1>4. s \in Both /\ s.buf = buf /\ s.bli = i
  BY <1>0, <1>3 DEF Both
<1>5. Only(t) /\ tx'[t] = [tx[t] EXCEPT !.pc = "done"]
  <2>1. [tx[t] EXCEPT !.pc = "done"] \in Tx
    BY <1>0 DEF Tx
  <2>2. tx' = [tx EXCEPT ![t] = [tx[t] EXCEPT !.pc = "done"]]
    BY <1>1 DEF To
  <2> QED BY <1>0, <2>1, <2>2, OnlyOne
<1>6. tx'[t].pc = "done" /\ tx'[t].held = FALSE /\ tx'[t] = [tx[t] EXCEPT !.pc = "done", !.held = tx'[t].held]
  BY <1>0, <1>1, <1>5 DEF Tx, TxOK
<1>7. N({"wait"})' = N({"wait"})
  BY <1>1, <1>5, <1>6, WaitKept
<1>8. "LOGGED" \notin bli.flags
  BY <1>0, <1>1, InOwns DEF FlagsOK
<1>9. IF bli.map = {} THEN Install(BufRelse(ItemRelse(s))) ELSE Install(BufRelse(s))
  BY <1>0, <1>1, <1>2 DEF FlagsOK
<1> HIDE DEF i
<1>10. /\ Kept
       /\ \/ bli.map = {} /\ bli' = NoItem /\ Relsed([buf EXCEPT !.iodone = @ /\ buf.ino])
          \/ bli.map # {} /\ bli' = i /\ Relsed(buf)
  <2>1. PICK v : v = s
    OBVIOUS
  <2>2. v = [S EXCEPT !.bli = [bli EXCEPT !.flags = @ \ {"HOLD"}, !.ref = @ - 1]]
    BY <2>1 DEF i
  <2>3. v \in Both /\ v.buf = buf /\ v.bli.there = bli.there
    BY <1>3, <1>4, <2>1
  <2>4. IF bli.map = {} THEN Install(BufRelse(ItemRelse(v))) ELSE Install(BufRelse(v))
    BY <1>9, <2>1
  <2>5. IF bli.map = {} THEN Install(IF FALSE THEN ItemRelse(v) ELSE BufRelse(ItemRelse(v)))
        ELSE Install(IF FALSE THEN v ELSE BufRelse(v))
    BY <2>4
  <2> QED BY <1>1, <1>7, <2>2, <2>3, <2>5, Letting DEF i
<1> QED BY <1>1, <1>5, <1>6, <1>8, <1>10 DEF DropDid, i

LEMMA CleanDoes == ASSUME BufCorrect, NEW t \in Txs, Clean(t) PROVE DropDid(t)
<1> DEFINE i == [bli EXCEPT !.flags = @ \ {"HOLD"}, !.ref = @ - 1]
           s == [S EXCEPT !.bli = i]
           r == [S EXCEPT !.bli = [bli EXCEPT !.ref = @ - 1]]
           h == "HOLD" \in bli.flags
<1>0. /\ buf \in Buffer /\ bli \in Item /\ tx \in [Txs -> Tx] /\ S \in Both /\ S.buf = buf /\ S.bli = bli
      /\ FlagsOK /\ StaleOK /\ TxOK
  BY Typed DEF BufCorrect, Rest
<1>1. /\ tx[t].pc = "in" /\ ~tx[t].dirty /\ tx' = [tx EXCEPT ![t].pc = "done", ![t].held = h] /\ Quiet
      /\ Install(ItemUnlock(S, FALSE))
  BY DEF Clean, Quiet
<1>2. "STALE" \notin bli.flags /\ "LOGGED" \notin bli.flags
  <2>1. "STALE" \notin bli.flags
    BY <1>0, <1>1, InOwns DEF TxOK, Staler
  <2>2. "LOGGED" \notin bli.flags
    BY <1>0, <1>1, InOwns DEF FlagsOK
  <2> QED BY <2>1, <2>2
<1>3. r.buf = buf /\ r.bli.there = bli.there /\ r \in Both /\ s \in Both
  <2>1. bli.ref - 1 \in Int /\ bli.flags \ {"HOLD"} \in SUBSET Flags
    BY <1>0 DEF Item
  <2>2. [bli EXCEPT !.ref = @ - 1] \in Item /\ i \in Item
    BY <1>0, <2>1 DEF Item
  <2> QED BY <1>0, <2>2 DEF Both, Item
<1>4. ItemUnlock(S, FALSE) = LET f == IF bli.map = {} THEN ItemRelse(r) ELSE s
                             IN IF h THEN f ELSE BufRelse(f)
  <2>1. [S EXCEPT !.bli.flags = IF "STALE" \in @ THEN @ \ {"LOGGED"} ELSE @] = S
    BY <1>0, <1>2 DEF Both, Item
  <2>2. [S EXCEPT !.bli.ref = @ - 1] = r
    BY <1>0 DEF Both, Item
  <2>3. [r EXCEPT !.bli.flags = @ \ {"HOLD"}] = s
    BY <1>0 DEF Both, Item
  <2>4. "STALE" \notin S.bli.flags /\ "LOGGED" \notin S.bli.flags
    BY <1>0, <1>2
  <2> HIDE DEF r, s, h
  <2>5. PICK f : f = IF bli.map = {} THEN ItemRelse(r) ELSE s
    OBVIOUS
  <2>6. PICK v : v = S
    OBVIOUS
  <2>7. v = [v EXCEPT !.bli.flags = IF "STALE" \in @ THEN @ \ {"LOGGED"} ELSE @]
    BY <2>1, <2>6
  <2>8. PICK q : q = r
    OBVIOUS
  <2>9. q = IF "LOGGED" \in v.bli.flags THEN [v EXCEPT !.bli.flags = @ \ {"LOGGED"}] ELSE [v EXCEPT !.bli.ref = @ - 1]
    <3>1. q = [v EXCEPT !.bli.ref = @ - 1]
      BY <2>2, <2>6, <2>8
    <3> QED BY <2>4, <2>6, <3>1
  <2>10. f = IF v.bli.map = {} THEN ItemRelse(q) ELSE [q EXCEPT !.bli.flags = @ \ {"HOLD"}]
    <3>1. PICK x : x = [q EXCEPT !.bli.flags = @ \ {"HOLD"}]
      OBVIOUS
    <3>2. x = s
      BY <2>3, <2>8, <3>1
    <3>3. f = IF v.bli.map = {} THEN ItemRelse(q) ELSE x
      BY <1>0, <2>5, <2>6, <2>8, <3>2
    <3> QED BY <3>1, <3>3
  <2>11. UnlockSteps(v, v, q, f)
    BY <2>7, <2>9, <2>10 DEF UnlockSteps
  <2>12. ItemUnlock(v, FALSE) = IF "STALE" \in v.bli.flags THEN v
                                ELSE IF "HOLD" \in v.bli.flags THEN f ELSE BufRelse(f)
    BY <2>11, ItemUnlockIs
  <2> QED BY <1>0, <2>4, <2>5, <2>6, <2>12 DEF h
<1>5. Only(t) /\ tx'[t] = [tx[t] EXCEPT !.pc = "done", !.held = h]
  <2>0. h \in BOOLEAN
    OBVIOUS
  <2> HIDE DEF h
  <2>1. [tx[t] EXCEPT !.pc = "done", !.held = h] \in Tx
    BY <1>0, <2>0 DEF Tx
  <2>2. tx' = [tx EXCEPT ![t] = [tx[t] EXCEPT !.pc = "done", !.held = h]]
    BY <1>0, <1>1
  <2> QED BY <1>0, <2>1, <2>2, OnlyOne
<1>6. tx'[t].pc = "done" /\ tx'[t].held = h
  <2> HIDE DEF h
  <2> QED BY <1>0, <1>5 DEF Tx
<1>7. N({"wait"})' = N({"wait"})
  BY <1>1, <1>5, <1>6, WaitKept
<1>8. IF bli.map = {} THEN Install(IF h THEN ItemRelse(r) ELSE BufRelse(ItemRelse(r)))
      ELSE Install(IF h THEN s ELSE BufRelse(s))
  <2> HIDE DEF r, s, h
  <2> QED BY <1>1, <1>4
<1>9. h \in BOOLEAN /\ s = [S EXCEPT !.bli = [bli EXCEPT !.flags = @ \ {"HOLD"}, !.ref = @ - 1]]
  OBVIOUS
<1> HIDE DEF s, r, h
<1>10. /\ Kept
       /\ \/ /\ bli.map = {} /\ bli' = NoItem
             /\ \/ ~h /\ Relsed([buf EXCEPT !.iodone = @ /\ buf.ino])
                \/ h /\ buf' = [buf EXCEPT !.iodone = @ /\ buf.ino, !.hold = buf'.hold]
          \/ /\ bli.map # {} /\ bli' = i
             /\ \/ ~h /\ Relsed(buf)
                \/ h /\ UNCHANGED buf
  BY <1>1, <1>3, <1>7, <1>8, <1>9, Letting
<1> QED BY <1>1, <1>2, <1>5, <1>6, <1>10 DEF DropDid

BjoinDid(t, u) ==
  /\ Kept /\ Quiet /\ Joins /\ tx[u].held /\ tx[t].pc = "idle" /\ u # t
  /\ tx' \in [Txs -> Tx] /\ \A w \in Txs \ {t, u} : tx'[w] = tx[w]
  /\ tx'[t] = [tx[t] EXCEPT !.pc = "in"] /\ tx'[u] = [tx[u] EXCEPT !.held = FALSE]
  /\ buf' = [buf EXCEPT !.hold = buf'.hold]
LEMMA BjoinDoes == ASSUME BufCorrect, NEW t \in Txs, Bjoin(t) PROVE \E u \in Txs : BjoinDid(t, u)
<1>0. /\ buf \in Buffer /\ bli \in Item /\ tx \in [Txs -> Tx] /\ S \in Both /\ S.buf = buf /\ S.bli = bli
      /\ FlagsOK /\ TxOK /\ N({"wait"}) \in Nat /\ Balance(S, N({"wait"}))
  BY Typed DEF BufCorrect, Rest
<1>1. PICK u \in Txs : tx[u].held /\ tx' = [tx EXCEPT ![u].held = FALSE, ![t].pc = "in"]
  BY DEF Bjoin
<1>2. tx[t].pc = "idle" /\ Quiet /\ Install(Joined(S)) /\ u # t
  BY <1>0, <1>1 DEF Bjoin, Quiet, Begun, TxOK
<1>3. /\ tx'[t] = [tx[t] EXCEPT !.pc = "in"] /\ tx'[u] = [tx[u] EXCEPT !.held = FALSE]
      /\ \A w \in Txs \ {t, u} : tx'[w] = tx[w]
  BY <1>0, <1>1, <1>2
<1>4. tx' \in [Txs -> Tx]
  <2>1. [tx[t] EXCEPT !.pc = "in"] \in Tx /\ [tx[u] EXCEPT !.held = FALSE] \in Tx
    BY <1>0 DEF Tx
  <2>2. DOMAIN tx' = Txs /\ tx' = [w \in Txs |-> tx'[w]]
    BY <1>0, <1>1
  <2>3. \A w \in Txs : tx'[w] \in Tx
    BY <1>0, <1>3, <2>1
  <2> QED BY <2>2, <2>3
<1>5. N({"wait"})' = N({"wait"})
  <2>1. tx'[t].pc = "in" /\ tx'[u].pc = tx[u].pc /\ tx[u].pc # "wait"
    <3>1. tx[t] \in Tx /\ tx[u] \in Tx
      BY <1>0
    <3>2. tx[u].pc \in {"committed", "ail", "drop", "done"}
      BY <1>0, <1>1 DEF TxOK
    <3> QED BY <1>3, <3>1, <3>2 DEF Tx
  <2>2. \A w \in Txs : tx'[w].pc = "wait" <=> tx[w].pc = "wait"
    BY <1>2, <1>3, <2>1
  <2> QED BY <2>2, WaitStays
<1>6. S' \in Both /\ Balance(S', N({"wait"})) /\ Joins /\ buf' = [buf EXCEPT !.hold = buf'.hold]
  BY <1>0, <1>2, JoinDoes
<1> QED BY <1>1, <1>2, <1>3, <1>4, <1>5, <1>6 DEF BjoinDid, Kept

RelseDid(u) ==
  /\ Kept /\ Quiet /\ Only(u) /\ tx[u].held /\ UNCHANGED bli /\ Relsed(buf)
  /\ tx'[u] = [tx[u] EXCEPT !.held = FALSE]
LEMMA RelseTxDoes == ASSUME BufCorrect, NEW u \in Txs, Relse(u) PROVE RelseDid(u)
<1>0. /\ buf \in Buffer /\ bli \in Item /\ tx \in [Txs -> Tx] /\ S \in Both /\ S.buf = buf /\ S.bli = bli
      /\ QueueOK /\ TxOK /\ N({"wait"}) \in Nat /\ Balance(S, N({"wait"}))
  BY Typed DEF BufCorrect, Rest
<1>1. tx[u].held /\ tx' = [tx EXCEPT ![u].held = FALSE] /\ Install(BufRelse(S)) /\ Quiet
  BY DEF Relse, Quiet
<1>2. Only(u) /\ tx'[u] = [tx[u] EXCEPT !.held = FALSE]
  <2>1. [tx[u] EXCEPT !.held = FALSE] \in Tx
    BY <1>0 DEF Tx
  <2>2. tx' = [tx EXCEPT ![u] = [tx[u] EXCEPT !.held = FALSE]]
    BY <1>1
  <2> QED BY <1>0, <2>1, <2>2, OnlyOne
<1>3. N({"wait"})' = N({"wait"})
  <2>1. tx[u].pc # "wait" /\ tx'[u].pc # "wait"
    BY <1>0, <1>1, <1>2 DEF Tx, TxOK
  <2> QED BY <1>2, <2>1, WaitKept
<1>4. S' \in Both /\ Balance(S', N({"wait"})) /\ bli' = bli /\ Relsed(buf)
  <2>1. buf.lock = "tx" /\ (buf.queued => buf.delwri)
    BY <1>0, <1>1, InOwns DEF QueueOK
  <2> QED BY <1>0, <1>1, <2>1, RelsedDoes
<1> QED BY <1>1, <1>2, <1>3, <1>4 DEF RelseDid, Kept

LogBufDid(t) ==
  /\ Kept /\ Quiet /\ Only(t) /\ tx[t].pc = "in"
  /\ tx'[t] = [tx[t] EXCEPT !.dirty = TRUE, !.stale = FALSE]
  /\ buf' = [buf EXCEPT !.delwri = TRUE, !.done = TRUE, !.iodone = TRUE, !.stale = FALSE]
  /\ bli' = [bli EXCEPT !.flags = bli'.flags, !.fmt = bli'.fmt, !.map = bli'.map]
  /\ bli'.map # {} /\ {"LOGGED", "DIRTY"} \subseteq bli'.flags /\ "STALE" \notin bli'.flags
LEMMA LogBufDoes == ASSUME BufCorrect, NEW t \in Txs, LogBuf(t) PROVE LogBufDid(t)
<1>0. /\ buf \in Buffer /\ bli \in Item /\ tx \in [Txs -> Tx] /\ CountOK
  BY Typed DEF BufCorrect, Rest
<1>1. PICK r \in Ranges(t) : 
        bli' = [bli EXCEPT
            !.flags = (@ \ {"STALE"}) \cup {"LOGGED", "DIRTY"} \cup (IF kind = "inode" /\ r = Parts THEN {"INODE_ALLOC"} ELSE {}),
            !.fmt = (@ \ {"CANCEL"}) \cup (IF kind = "inode" /\ r # Parts THEN {"INODE_BUF"} ELSE {}),
            !.map = @ \cup r]
  BY DEF LogBuf
<1>2. /\ tx[t].pc = "in" /\ Quiet /\ tx' = [tx EXCEPT ![t].dirty = TRUE, ![t].stale = FALSE]
      /\ buf' = [buf EXCEPT !.delwri = TRUE, !.done = TRUE, !.iodone = TRUE, !.stale = FALSE]
  BY DEF LogBuf, Quiet
<1>3. r \subseteq Parts /\ r # {}
  BY DEF Ranges, Parts
<1>4. PICK f, m, p : /\ f = (bli.flags \ {"STALE"}) \cup {"LOGGED", "DIRTY"} \cup (IF kind = "inode" /\ r = Parts THEN {"INODE_ALLOC"} ELSE {})
                     /\ m = (bli.fmt \ {"CANCEL"}) \cup (IF kind = "inode" /\ r # Parts THEN {"INODE_BUF"} ELSE {})
                     /\ p = bli.map \cup r
  OBVIOUS
<1>5. f \in SUBSET Flags /\ m \in SUBSET {"INODE_BUF", "CANCEL"} /\ p \in SUBSET Parts
  <2>1. bli.flags \in SUBSET Flags /\ bli.fmt \in SUBSET {"INODE_BUF", "CANCEL"} /\ bli.map \in SUBSET Parts
    BY <1>0 DEF Item
  <2>2. f \in SUBSET Flags
    BY <1>4, <2>1 DEF Flags
  <2>3. m \in SUBSET {"INODE_BUF", "CANCEL"}
    BY <1>4, <2>1
  <2>4. p \in SUBSET Parts
    BY <1>3, <1>4, <2>1
  <2> QED BY <2>2, <2>3, <2>4
<1>6. bli' = [bli EXCEPT !.flags = f, !.fmt = m, !.map = p]
  BY <1>1, <1>4
<1>7. bli' \in Item /\ bli'.flags = f /\ bli'.fmt = m /\ bli'.map = p /\ bli'.there = bli.there
  BY <1>0, <1>5, <1>6 DEF Item
<1>8. p # {} /\ {"LOGGED", "DIRTY"} \subseteq f /\ "STALE" \notin f
  <2>1. p # {}
    BY <1>3, <1>4
  <2>2. {"LOGGED", "DIRTY"} \subseteq f
    BY <1>4
  <2>3. "STALE" \notin f
    BY <1>4
  <2> QED BY <2>1, <2>2, <2>3
<1>9. Only(t) /\ tx'[t] = [tx[t] EXCEPT !.dirty = TRUE, !.stale = FALSE]
  <2>1. [tx[t] EXCEPT !.dirty = TRUE, !.stale = FALSE] \in Tx
    BY <1>0 DEF Tx
  <2>2. tx' = [tx EXCEPT ![t] = [tx[t] EXCEPT !.dirty = TRUE, !.stale = FALSE]]
    BY <1>0, <1>2
  <2> QED BY <1>0, <2>1, <2>2, OnlyOne
<1>10. tx'[t].pc = "in"
  BY <1>0, <1>2, <1>9 DEF Tx
<1>11. Kept
  <2>1. N({"wait"})' = N({"wait"})
    BY <1>2, <1>9, <1>10, WaitKept
  <2>2. buf' \in Buffer /\ buf'.hold = buf.hold /\ buf'.queued = buf.queued /\ buf'.lock = buf.lock
    BY <1>0, <1>2 DEF Buffer
  <2> QED BY <1>0, <1>7, <2>1, <2>2, KeptAsIs
<1> QED BY <1>2, <1>6, <1>7, <1>8, <1>9, <1>11 DEF LogBufDid

BinvalDid(t) ==
  /\ Kept /\ Quiet /\ Only(t) /\ tx[t].pc = "in" /\ {"STALE", "HOLD"} \cap bli.flags = {}
  /\ tx'[t] = [tx[t] EXCEPT !.dirty = TRUE, !.stale = TRUE]
  /\ buf' = [buf EXCEPT !.delwri = FALSE, !.queued = FALSE, !.stale = TRUE, !.hold = buf'.hold]
  /\ bli' = [bli EXCEPT !.flags = bli'.flags, !.fmt = bli'.fmt, !.map = {}]
  /\ {"LOGGED", "DIRTY", "HOLD"} \cap bli'.flags = {} /\ "STALE" \in bli'.flags
  /\ buf.ino => "STALE_INODE" \in bli'.flags
LEMMA BinvalDoes == ASSUME BufCorrect, NEW t \in Txs, Binval(t) PROVE BinvalDid(t)
<1> DEFINE s == DelwriDequeue(S)
           n == N({"wait"})
<1>0. /\ buf \in Buffer /\ bli \in Item /\ tx \in [Txs -> Tx] /\ S \in Both /\ S.buf = buf /\ S.bli = bli
      /\ QueueOK /\ n \in Nat /\ Balance(S, n)
  BY Typed DEF BufCorrect, Rest
<1>1. /\ tx[t].pc = "in" /\ Quiet /\ tx' = [tx EXCEPT ![t].dirty = TRUE, ![t].stale = TRUE]
      /\ "STALE" \notin bli.flags /\ "HOLD" \notin bli.flags
      /\ Install([s EXCEPT !.buf.stale = TRUE,
          !.bli.flags = (@ \ {"LOGGED", "DIRTY"}) \cup {"STALE"} \cup (IF buf.ino THEN {"STALE_INODE"} ELSE {}),
          !.bli.fmt = {"CANCEL"}, !.bli.map = {}])
  BY DEF Binval, Quiet
<1>2. buf.lock = "tx" /\ (buf.queued => buf.delwri)
  BY <1>0, <1>1, InOwns DEF QueueOK
<1>3. /\ s \in Both /\ s.bli = bli /\ Balance(s, n)
      /\ s.buf = [buf EXCEPT !.delwri = FALSE, !.queued = FALSE, !.hold = s.buf.hold]
  BY <1>0, <1>2, DequeueDoes
<1>4. PICK v : v = s
  OBVIOUS
<1> HIDE DEF s, n
<1>5. PICK f : f = (bli.flags \ {"LOGGED", "DIRTY"}) \cup {"STALE"} \cup (IF buf.ino THEN {"STALE_INODE"} ELSE {})
  OBVIOUS
<1>6. f \in SUBSET Flags /\ {"CANCEL"} \in SUBSET {"INODE_BUF", "CANCEL"} /\ {} \in SUBSET Parts
  <2>1. bli.flags \in SUBSET Flags
    BY <1>0 DEF Item
  <2> QED BY <1>5, <2>1 DEF Flags
<1>7. {"LOGGED", "DIRTY", "HOLD"} \cap f = {} /\ "STALE" \in f /\ (buf.ino => "STALE_INODE" \in f)
  BY <1>1, <1>5
<1>8. /\ buf' = [v.buf EXCEPT !.stale = TRUE]
      /\ bli' = [v.bli EXCEPT !.flags = f, !.fmt = {"CANCEL"}, !.map = {}]
  <2>1. Install([v EXCEPT !.buf.stale = TRUE, !.bli.flags = f, !.bli.fmt = {"CANCEL"}, !.bli.map = {}])
    BY <1>1, <1>3, <1>4, <1>5
  <2> QED BY <1>3, <1>4, <2>1 DEF Install, Both, Item
<1>9. bli' \in Item /\ bli'.flags = f /\ bli'.fmt = {"CANCEL"} /\ bli'.map = {} /\ bli'.there = bli.there
      /\ bli' = [bli EXCEPT !.flags = f, !.fmt = {"CANCEL"}, !.map = {}]
  BY <1>0, <1>3, <1>4, <1>6, <1>8 DEF Item
<1>10. v.buf \in Buffer /\ v.buf.lock = buf.lock
  <2>1. v.buf \in Buffer
    BY <1>3, <1>4 DEF Both
  <2> QED BY <1>0, <1>3, <1>4, <2>1 DEF Buffer
<1>11. buf' = [buf EXCEPT !.delwri = FALSE, !.queued = FALSE, !.stale = TRUE, !.hold = buf'.hold]
       /\ buf' \in Buffer /\ buf'.hold = v.buf.hold /\ buf'.queued = v.buf.queued /\ buf'.lock = v.buf.lock
  BY <1>0, <1>3, <1>4, <1>8, <1>10 DEF Buffer
<1>12. Only(t) /\ tx'[t] = [tx[t] EXCEPT !.dirty = TRUE, !.stale = TRUE]
  <2>1. [tx[t] EXCEPT !.dirty = TRUE, !.stale = TRUE] \in Tx
    BY <1>0 DEF Tx
  <2>2. tx' = [tx EXCEPT ![t] = [tx[t] EXCEPT !.dirty = TRUE, !.stale = TRUE]]
    BY <1>0, <1>1
  <2> QED BY <1>0, <2>1, <2>2, OnlyOne
<1>13. Kept
  <2>1. tx'[t].pc = "in"
    BY <1>0, <1>1, <1>12 DEF Tx
  <2>2. N({"wait"})' = n
    BY <1>1, <1>12, <2>1, WaitKept DEF n
  <2>3. S' \in Both
    BY <1>9, <1>11 DEF S, Both
  <2>4. Balance(S', n)
    <3>1. Balance(v, n) /\ v.bli.there = bli'.there
      BY <1>3, <1>4, <1>9
    <3> QED BY <1>11, <3>1 DEF Balance, S
  <2> QED BY <2>2, <2>3, <2>4 DEF Kept
<1> QED BY <1>1, <1>7, <1>9, <1>11, <1>12, <1>13 DEF BinvalDid

CommitDid(t) ==
  /\ Kept /\ UNCHANGED <<kind, bli, io, push, oops, shut>> /\ Only(t) /\ tx[t].pc = "in" /\ tx[t].dirty
  /\ Len(log') = Len(log) + 1
  /\ tx'[t] = [tx[t] EXCEPT !.pc = "logged", !.lsn = Len(log) + 1]
  /\ buf' = [buf EXCEPT !.pin = @ + 1]
LEMMA CommitDoes == ASSUME BufCorrect, NEW t \in Txs, Commit(t) PROVE CommitDid(t)
<1>0. /\ buf \in Buffer /\ bli \in Item /\ tx \in [Txs -> Tx] /\ CountOK /\ log \in Seq(Record) /\ core \in [Parts -> Value]
  BY Typed DEF BufCorrect, Rest, TypeOK
<1>1. /\ tx[t].pc = "in" /\ tx[t].dirty /\ UNCHANGED <<kind, bli, io, push, oops, shut>>
      /\ tx' = [tx EXCEPT ![t].pc = "logged", ![t].lsn = Len(log) + 1] /\ buf' = [buf EXCEPT !.pin = @ + 1]
      /\ log' = Append(log, [parts |-> Logged(bli), val |-> core, cancel |-> "STALE" \in bli.flags])
  BY DEF Commit
<1>2. PICK x : x = Len(log) + 1
  OBVIOUS
<1>3. x \in Nat
  BY <1>0, <1>2
<1>4. Len(log') = Len(log) + 1
  <2>0. ("STALE" \in bli.flags) \in BOOLEAN
    OBVIOUS
  <2>1. PICK b \in BOOLEAN : b = ("STALE" \in bli.flags)
    BY <2>0
  <2>2. Logged(bli) \in SUBSET Parts
    BY <1>0 DEF Logged, Item
  <2>3. [parts |-> Logged(bli), val |-> core, cancel |-> b] \in Record
    BY <1>0, <2>2 DEF Record
  <2> QED BY <1>0, <1>1, <2>1, <2>3
<1>5. Only(t) /\ tx'[t] = [tx[t] EXCEPT !.pc = "logged", !.lsn = x]
  <2>1. [tx[t] EXCEPT !.pc = "logged", !.lsn = x] \in Tx
    BY <1>0, <1>3 DEF Tx
  <2>2. tx' = [tx EXCEPT ![t] = [tx[t] EXCEPT !.pc = "logged", !.lsn = x]]
    BY <1>0, <1>1, <1>2
  <2> QED BY <1>0, <2>1, <2>2, OnlyOne
<1>6. buf.pin + 1 \in Int
  BY <1>0 DEF Buffer
<1>7. buf' \in Buffer /\ buf'.hold = buf.hold /\ buf'.queued = buf.queued /\ buf'.lock = buf.lock
  BY <1>0, <1>1, <1>6 DEF Buffer
<1>8. Kept
  <2>1. tx'[t].pc = "logged"
    BY <1>0, <1>5 DEF Tx
  <2>2. N({"wait"})' = N({"wait"})
    BY <1>1, <1>5, <2>1, WaitKept
  <2> QED BY <1>0, <1>1, <1>7, <2>2, KeptAsIs
<1> QED BY <1>1, <1>2, <1>4, <1>5, <1>8 DEF CommitDid

UnlockItemsDid(t) ==
  /\ Kept /\ Quiet /\ Only(t) /\ tx[t].pc = "logged"
  /\ tx'[t] = [tx[t] EXCEPT !.pc = "committed", !.held = tx'[t].held]
  /\ \/ tx[t].stale /\ ~tx'[t].held /\ UNCHANGED <<buf, bli>>
     \/ /\ ~tx[t].stale /\ "LOGGED" \in bli.flags /\ "STALE" \notin bli.flags
        /\ bli' = [bli EXCEPT !.flags = @ \ {"LOGGED", "HOLD"}]
        /\ \/ tx'[t].held /\ UNCHANGED buf
           \/ ~tx'[t].held /\ Relsed(buf)
LEMMA UnlockItemsDoes == ASSUME BufCorrect, NEW t \in Txs, UnlockItems(t) PROVE UnlockItemsDid(t)
<1> DEFINE h == "HOLD" \in bli.flags
           i == [bli EXCEPT !.flags = @ \ {"LOGGED", "HOLD"}]
           n == N({"wait"})
<1>0. /\ buf \in Buffer /\ bli \in Item /\ tx \in [Txs -> Tx] /\ S \in Both /\ S.buf = buf /\ S.bli = bli
      /\ QueueOK /\ n \in Nat /\ Balance(S, n) /\ FlagsOK /\ StaleOK /\ TxOK /\ CountOK
  BY Typed DEF BufCorrect, Rest
<1>1. /\ tx[t].pc = "logged" /\ Quiet /\ tx' = [tx EXCEPT ![t].pc = "committed", ![t].held = h]
      /\ Install(ItemUnlock(S, FALSE))
  BY DEF UnlockItems, Quiet
<1>2. buf.lock = "tx" /\ (buf.queued => buf.delwri) /\ tx[t].dirty
  BY <1>0, <1>1, InOwns DEF QueueOK, TxOK
<1>3. "STALE" \in bli.flags <=> tx[t].stale
  BY <1>0, <1>1, InOwns DEF StaleOK, Staler, Live
<1>4. PICK v : v = S
  OBVIOUS
<1>5. Only(t) /\ tx'[t] = [tx[t] EXCEPT !.pc = "committed", !.held = h]
  <2>0. h \in BOOLEAN
    OBVIOUS
  <2> HIDE DEF h
  <2>1. [tx[t] EXCEPT !.pc = "committed", !.held = h] \in Tx
    BY <1>0, <2>0 DEF Tx
  <2>2. tx' = [tx EXCEPT ![t] = [tx[t] EXCEPT !.pc = "committed", !.held = h]]
    BY <1>0, <1>1
  <2> QED BY <1>0, <2>1, <2>2, OnlyOne
<1>6. tx'[t].pc = "committed" /\ tx'[t].held = h
  <2> HIDE DEF h
  <2> QED BY <1>0, <1>5 DEF Tx
<1>7. N({"wait"})' = n
  BY <1>1, <1>5, <1>6, WaitKept
<1>8. CASE tx[t].stale
  <2>1. "STALE" \in bli.flags /\ ~h /\ "LOGGED" \notin bli.flags
    BY <1>0, <1>3, <1>8 DEF StaleOK, FlagsOK
  <2>2. [v EXCEPT !.bli.flags = IF "STALE" \in @ THEN @ \ {"LOGGED"} ELSE @] = v
    <3>1. bli.flags \ {"LOGGED"} = bli.flags
      BY <1>0, <2>1 DEF Item
    <3> QED BY <1>0, <1>4, <2>1, <3>1 DEF Both, Item
  <2>3. PICK r : r = IF "LOGGED" \in v.bli.flags THEN [v EXCEPT !.bli.flags = @ \ {"LOGGED"}] ELSE [v EXCEPT !.bli.ref = @ - 1]
    OBVIOUS
  <2>4. PICK f : f = IF v.bli.map = {} THEN ItemRelse(r) ELSE [r EXCEPT !.bli.flags = @ \ {"HOLD"}]
    OBVIOUS
  <2>5. UnlockSteps(v, v, r, f)
    BY <2>2, <2>3, <2>4 DEF UnlockSteps
  <2>6. ItemUnlock(v, FALSE) = v
    BY <1>0, <1>4, <2>1, <2>5, ItemUnlockIs
  <2>7. UNCHANGED <<buf, bli>>
    BY <1>0, <1>1, <1>4, <2>6 DEF Install
  <2>8. Kept
    BY <1>0, <1>7, <2>7, KeptAsIs
  <2> QED BY <1>1, <1>5, <1>6, <1>8, <2>1, <2>7, <2>8 DEF UnlockItemsDid
<1>9. CASE ~tx[t].stale
  <2>1. "STALE" \notin bli.flags /\ "LOGGED" \in bli.flags /\ bli.map # {}
    BY <1>0, <1>1, <1>2, <1>3, <1>9 DEF FlagsOK
  <2>2. i \in Item /\ i.there = bli.there
    <3>1. bli.flags \ {"LOGGED", "HOLD"} \in SUBSET Flags
      BY <1>0 DEF Item
    <3> QED BY <1>0, <3>1 DEF Item
  <2>3. [v EXCEPT !.bli.flags = IF "STALE" \in @ THEN @ \ {"LOGGED"} ELSE @] = v
    BY <1>0, <1>4, <2>1 DEF Both, Item
  <2>4. PICK r : r = [v EXCEPT !.bli.flags = @ \ {"LOGGED"}]
    OBVIOUS
  <2>5. PICK f : f = [r EXCEPT !.bli.flags = @ \ {"HOLD"}]
    OBVIOUS
  <2>6. UnlockSteps(v, v, r, f)
    BY <1>0, <1>4, <2>1, <2>3, <2>4, <2>5 DEF UnlockSteps
  <2>7. ItemUnlock(v, FALSE) = IF h THEN f ELSE BufRelse(f)
    BY <1>0, <1>4, <2>1, <2>6, ItemUnlockIs
  <2>8. f.buf = buf /\ f.bli = i /\ f \in Both
    <3>1. r.buf = buf /\ r.bli = [bli EXCEPT !.flags = @ \ {"LOGGED"}] /\ r \in Both
      <4>1. bli.flags \ {"LOGGED"} \in SUBSET Flags
        BY <1>0 DEF Item
      <4>2. [bli EXCEPT !.flags = @ \ {"LOGGED"}] \in Item
        BY <1>0, <4>1 DEF Item
      <4>3. r = [v EXCEPT !.bli = [bli EXCEPT !.flags = @ \ {"LOGGED"}]]
        BY <1>0, <1>4, <2>4
      <4> QED BY <1>0, <1>4, <4>2, <4>3 DEF Both
    <3>2. f = [r EXCEPT !.bli = i]
      <4>1. (bli.flags \ {"LOGGED"}) \ {"HOLD"} = bli.flags \ {"LOGGED", "HOLD"}
        OBVIOUS
      <4>2. [r.bli EXCEPT !.flags = @ \ {"HOLD"}] = i
        BY <1>0, <3>1, <4>1 DEF Item
      <4>3. f = [r EXCEPT !.bli = [r.bli EXCEPT !.flags = @ \ {"HOLD"}]]
        BY <2>5, <3>1 DEF Both
      <4> QED BY <4>2, <4>3
    <3> HIDE DEF i
    <3> QED BY <2>2, <3>1, <3>2 DEF Both
  <2>9. Balance(f, n)
    BY <1>0, <2>2, <2>8 DEF Balance
  <2> HIDE DEF i, h, n
  <2>10. CASE h
    <3>1. buf' = buf /\ bli' = i
      BY <1>1, <1>4, <2>7, <2>8, <2>10 DEF Install
    <3>2. Kept
      BY <1>0, <1>7, <2>2, <3>1, KeptAsIs DEF n
    <3> QED BY <1>1, <1>5, <1>6, <1>9, <2>1, <2>10, <3>1, <3>2 DEF UnlockItemsDid, i
  <2>11. CASE ~h
    <3>1. Install(BufRelse(f)) /\ f.buf.lock # "free" /\ (f.buf.queued => f.buf.delwri)
      BY <1>1, <1>2, <1>4, <2>7, <2>8, <2>11
    <3>2. S' \in Both /\ Balance(S', n) /\ bli' = i /\ Relsed(buf)
      BY <1>0, <2>8, <2>9, <3>1, RelsedDoes
    <3>3. Kept
      BY <1>7, <3>2 DEF Kept, n
    <3> QED BY <1>1, <1>5, <1>6, <1>9, <2>1, <2>11, <3>2, <3>3 DEF UnlockItemsDid, i
  <2> QED BY <2>10, <2>11
<1> QED BY <1>8, <1>9

CbAilDid(t) ==
  /\ Kept /\ Quiet /\ Only(t) /\ tx[t].pc = "committed" /\ bli.there /\ UNCHANGED buf
  /\ tx'[t] = [tx[t] EXCEPT !.pc = "ail"]
  /\ bli' = [bli EXCEPT !.lsn = bli'.lsn] /\ bli'.lsn >= bli.lsn /\ bli'.lsn > 0
  /\ \A u \in Txs : tx[u].lsn \in 1 .. tx[t].lsn - 1 => tx[u].pc = "done"
LEMMA CbAilDoes == ASSUME BufCorrect, ~Down, NEW t \in Txs, CbAil(t) PROVE CbAilDid(t)
<1>0. /\ buf \in Buffer /\ bli \in Item /\ tx \in [Txs -> Tx] /\ CountOK /\ TxOK /\ IsFiniteSet(Txs)
  BY Typed DEF BufCorrect, Rest
<1> DEFINE l == ItemCommitted(bli, tx[t].lsn)
<1>1. /\ tx[t].pc = "committed" /\ Turn(t)
      /\ IF bli.there
         THEN bli' = [bli EXCEPT !.lsn = IF l > @ THEN l ELSE @] /\ To(t, "ail") /\ UNCHANGED oops
         ELSE oops' = TRUE /\ To(t, "done") /\ UNCHANGED bli
      /\ UNCHANGED <<kind, buf, log, io, push, shut>>
  BY DEF CbAil
<1>2. bli.there
  <2>1. N(RefPcs) > 0
    BY <1>0, <1>1, SomeLeft DEF RefPcs
  <2> QED BY <1>0, <2>1 DEF CountOK
<1>3. l \in Nat /\ l > 0 /\ bli.lsn \in Nat
  <2>1. tx[t].lsn \in Nat /\ tx[t].lsn > 0 /\ bli.lsn \in Nat
    BY <1>0, <1>1 DEF TxOK, PinPcs, Tx, Item
  <2> QED BY <2>1 DEF ItemCommitted
<1> HIDE DEF l
<1>4. PICK x \in Nat : bli' = [bli EXCEPT !.lsn = x] /\ x >= bli.lsn /\ x > 0
  BY <1>1, <1>2, <1>3
<1>5. bli' \in Item /\ bli'.lsn = x /\ bli'.there = bli.there
  BY <1>0, <1>4 DEF Item
<1>6. Only(t) /\ tx'[t] = [tx[t] EXCEPT !.pc = "ail"]
  <2>1. [tx[t] EXCEPT !.pc = "ail"] \in Tx
    BY <1>0 DEF Tx
  <2>2. tx' = [tx EXCEPT ![t] = [tx[t] EXCEPT !.pc = "ail"]]
    BY <1>1, <1>2 DEF To
  <2> QED BY <1>0, <2>1, <2>2, OnlyOne
<1>7. Kept
  <2>1. tx'[t].pc = "ail"
    BY <1>0, <1>6 DEF Tx
  <2>2. N({"wait"})' = N({"wait"})
    BY <1>1, <1>6, <2>1, WaitKept
  <2> QED BY <1>0, <1>1, <1>5, <2>2, KeptAsIs
<1>8. \A u \in Txs : tx[u].lsn \in 1 .. tx[t].lsn - 1 => tx[u].pc = "done"
  BY <1>1 DEF Turn
<1> QED BY <1>1, <1>2, <1>4, <1>5, <1>6, <1>7, <1>8 DEF CbAilDid, Quiet

CbDropDid(t) ==
  /\ Kept /\ Quiet /\ Only(t) /\ tx[t].pc = "ail" /\ UNCHANGED buf
  /\ tx'[t] = [tx[t] EXCEPT !.pc = "drop", !.freed = bli.ref = 1]
  /\ bli' = [bli EXCEPT !.ref = @ - 1]
LEMMA CbDropDoes == ASSUME BufCorrect, NEW t \in Txs, CbDrop(t) PROVE CbDropDid(t)
<1>0. /\ buf \in Buffer /\ bli \in Item /\ tx \in [Txs -> Tx] /\ CountOK
  BY Typed DEF BufCorrect, Rest
<1>1. /\ tx[t].pc = "ail" /\ Quiet /\ UNCHANGED buf /\ bli' = [bli EXCEPT !.ref = @ - 1]
      /\ tx' = [tx EXCEPT ![t].pc = "drop", ![t].freed = bli.ref = 1]
  BY DEF CbDrop, Quiet
<1>2. PICK b \in BOOLEAN : b = (bli.ref = 1)
  OBVIOUS
<1>3. Only(t) /\ tx'[t] = [tx[t] EXCEPT !.pc = "drop", !.freed = b]
  <2>1. [tx[t] EXCEPT !.pc = "drop", !.freed = b] \in Tx
    BY <1>0 DEF Tx
  <2>2. tx' = [tx EXCEPT ![t] = [tx[t] EXCEPT !.pc = "drop", !.freed = b]]
    BY <1>0, <1>1, <1>2
  <2> QED BY <1>0, <2>1, <2>2, OnlyOne
<1>4. bli.ref - 1 \in Int
  BY <1>0 DEF Item
<1>5. bli' \in Item /\ bli'.there = bli.there
  BY <1>0, <1>1, <1>4 DEF Item
<1>6. Kept
  <2>1. tx'[t].pc = "drop"
    BY <1>0, <1>3 DEF Tx
  <2>2. N({"wait"})' = N({"wait"})
    BY <1>1, <1>3, <2>1, WaitKept
  <2> QED BY <1>0, <1>1, <1>5, <2>2, KeptAsIs
<1> QED BY <1>1, <1>2, <1>3, <1>6 DEF CbDropDid

\* the transaction that frees the block is the last that has logged the buffer
LEMMA StalerIsLast ==
  ASSUME BufCorrect, NEW t \in Txs, tx[t].pc \in {"ail", "drop"}, tx[t].stale
  PROVE  \A u \in Txs \ {t} : tx[u].pc \notin RefPcs \cup PinPcs
<1>0. tx \in [Txs -> Tx] /\ OrderOK /\ TxOK
  BY Typed DEF BufCorrect, Rest
<1>1. Staler(t)
  BY DEF Staler, Live
<1>2. \A u \in Txs \ {t} : tx[u].pc # "in" /\ tx[u].lsn < tx[t].lsn
  BY <1>0, <1>1, InOwns DEF OrderOK
<1>3. \A u \in Txs : tx[u].lsn \in 1 .. tx[t].lsn - 1 => tx[u].pc = "done"
  BY <1>0 DEF OrderOK
<1>4. SUFFICES ASSUME NEW u \in Txs \ {t}, tx[u].pc \in PinPcs PROVE FALSE
  BY <1>2 DEF RefPcs, PinPcs
<1>5. tx[u].lsn \in Nat /\ tx[t].lsn \in Nat /\ tx[u].lsn > 0
  BY <1>0, <1>4 DEF Tx, TxOK
<1>6. tx[u].lsn \in 1 .. tx[t].lsn - 1
  BY <1>2, <1>5
<1> QED BY <1>3, <1>4, <1>6 DEF PinPcs

CbUnpinDid(t) ==
  /\ Kept /\ Quiet /\ Only(t) /\ tx[t].pc = "drop"
  /\ tx'[t] = [tx[t] EXCEPT !.pc = "done"]
  /\ \/ /\ tx[t].stale /\ bli' = NoItem
        /\ Relsed([buf EXCEPT !.pin = @ - 1, !.iodone = FALSE, !.ino = FALSE])
     \/ ~tx[t].stale /\ UNCHANGED bli /\ buf' = [buf EXCEPT !.pin = @ - 1]
LEMMA CbUnpinDoes == ASSUME BufCorrect, NEW t \in Txs, CbUnpin(t) PROVE CbUnpinDid(t)
<1> DEFINE n == N({"wait"})
           b == [buf EXCEPT !.pin = @ - 1]
           d == [buf EXCEPT !.pin = @ - 1, !.iodone = FALSE, !.ino = FALSE]
<1>0. /\ buf \in Buffer /\ bli \in Item /\ tx \in [Txs -> Tx] /\ S \in Both /\ S.buf = buf /\ S.bli = bli
      /\ n \in Nat /\ Balance(S, n) /\ CountOK /\ OrderOK /\ StaleOK /\ FlagsOK
  BY Typed DEF BufCorrect, Rest
<1>1. /\ tx[t].pc = "drop" /\ Quiet /\ To(t, "done")
      /\ Install(IF tx[t].freed /\ tx[t].stale THEN UnpinStale([S EXCEPT !.buf.pin = @ - 1]) ELSE [S EXCEPT !.buf.pin = @ - 1])
  BY DEF CbUnpin, Quiet
<1>2. PICK s : s = [S EXCEPT !.buf.pin = @ - 1]
  OBVIOUS
<1>3. buf.pin - 1 \in Int
  BY <1>0 DEF Buffer
<1>4. b \in Buffer /\ b.hold = buf.hold /\ b.queued = buf.queued /\ b.lock = buf.lock
  BY <1>0, <1>3 DEF Buffer
<1>5. s \in Both /\ s.buf = b /\ s.bli = bli
  <2>1. s = [S EXCEPT !.buf = b]
    BY <1>0, <1>2
  <2> HIDE DEF b
  <2> QED BY <1>0, <1>4, <2>1 DEF Both
<1>6. Only(t) /\ tx'[t] = [tx[t] EXCEPT !.pc = "done"]
  <2>1. [tx[t] EXCEPT !.pc = "done"] \in Tx
    BY <1>0 DEF Tx
  <2>2. tx' = [tx EXCEPT ![t] = [tx[t] EXCEPT !.pc = "done"]]
    BY <1>1 DEF To
  <2> QED BY <1>0, <2>1, <2>2, OnlyOne
<1>7. N({"wait"})' = n
  <2>1. tx'[t].pc = "done"
    BY <1>0, <1>6 DEF Tx
  <2> QED BY <1>1, <1>6, <2>1, WaitKept
<1>8. Balance(s, n)
  BY <1>0, <1>4, <1>5 DEF Balance
<1>9. CASE ~tx[t].stale
  <2>1. buf' = b /\ bli' = bli
    BY <1>1, <1>2, <1>5, <1>9 DEF Install
  <2>2. Kept
    <3> HIDE DEF b
    <3> QED BY <1>0, <1>4, <1>7, <2>1, KeptAsIs
  <2> QED BY <1>1, <1>6, <1>9, <2>1, <2>2 DEF CbUnpinDid
<1>10. CASE tx[t].stale
  <2>1. /\ "STALE" \in bli.flags /\ buf.stale /\ ~buf.delwri /\ ~buf.queued /\ (buf.ino => "STALE_INODE" \in bli.flags)
        /\ buf.lock = "tx" /\ tx[t].freed /\ bli.there
    <3>1. Staler(t)
      BY <1>1, <1>10 DEF Staler, Live
    <3>2. bli.lsn # 0 /\ tx[t].freed
      BY <1>0, <1>1, <1>10 DEF OrderOK
    <3> QED BY <1>0, <3>1, <3>2, InOwns DEF StaleOK, CountOK
  <2>2. PICK u : u = IF "STALE_INODE" \in s.bli.flags THEN DoCallbacks(s) ELSE ItemRelse(s)
    OBVIOUS
  <2>3. Install(BufRelse(u))
    BY <1>1, <1>2, <1>10, <2>1, <2>2 DEF UnpinStale
  <2>4. s.buf.lock # "free" /\ s.bli.there
    BY <1>4, <1>5, <2>1
  <2>5. u \in Both /\ u.bli = NoItem /\ Balance(u, n) /\ u.buf = [d EXCEPT !.hold = u.buf.hold]
    <3>1. CASE "STALE_INODE" \in s.bli.flags
      <4>1. /\ u \in Both /\ u.bli = NoItem
            /\ Balance(u, n) /\ u.buf = [s.buf EXCEPT !.iodone = FALSE, !.ino = FALSE, !.hold = u.buf.hold]
        BY <1>0, <1>5, <1>8, <2>2, <2>4, <3>1, CallbacksDo
      <4> QED BY <1>0, <1>4, <1>5, <4>1 DEF Buffer
    <3>2. CASE "STALE_INODE" \notin s.bli.flags
      <4>1. /\ u \in Both /\ u.bli = NoItem /\ Balance(u, n)
            /\ u.buf = [s.buf EXCEPT !.iodone = @ /\ s.buf.ino, !.hold = s.buf.hold - 1]
        BY <1>0, <1>5, <1>8, <2>2, <2>4, <3>2, ItemRelseDoes
      <4>2. s.buf.ino = FALSE
        BY <1>0, <1>5, <2>1, <3>2 DEF Buffer
      <4>3. (s.buf.iodone /\ s.buf.ino) = FALSE
        BY <4>2
      <4>4. u.buf = [s.buf EXCEPT !.iodone = FALSE, !.hold = s.buf.hold - 1]
        BY <4>1, <4>3
      <4>5. u.buf.hold = s.buf.hold - 1
        BY <1>4, <1>5, <4>4 DEF Buffer
      <4>6. buf.ino = FALSE
        BY <1>0, <1>5, <4>2 DEF Buffer
      <4>7. s.buf = [buf EXCEPT !.pin = @ - 1, !.ino = FALSE]
        BY <1>0, <1>5, <4>6 DEF Buffer
      <4>8. u.buf = [d EXCEPT !.hold = u.buf.hold]
        <5>1. [s.buf EXCEPT !.iodone = FALSE, !.hold = u.buf.hold] = [d EXCEPT !.hold = u.buf.hold]
          BY <1>0, <4>7 DEF Buffer
        <5> QED BY <4>4, <4>5, <5>1
      <4> QED BY <4>1, <4>8
    <3> QED BY <3>1, <3>2
  <2>6. d \in Buffer /\ d.delwri = FALSE /\ d.queued = FALSE /\ d.lock = "tx"
    BY <1>0, <1>3, <2>1 DEF Buffer
  <2> HIDE DEF d
  <2>7. u.buf.lock = "tx" /\ u.buf.queued = FALSE /\ u.buf.delwri = FALSE
    BY <2>5, <2>6 DEF Buffer
  <2>8. S' \in Both /\ Balance(S', n) /\ bli' = NoItem /\ Relsed(u.buf)
    BY <1>0, <2>3, <2>5, <2>7, RelsedDoes
  <2>9. Relsed(d)
    <3>1. u.buf \in Buffer
      BY <2>5 DEF Both
    <3>2. ASSUME NEW x PROVE [u.buf EXCEPT !.lock = "free", !.queued = u.buf.delwri, !.hold = x]
                           = [d EXCEPT !.lock = "free", !.queued = d.delwri, !.hold = x]
      BY <2>5, <2>6, <2>7, <3>1 DEF Buffer
    <3> QED BY <2>6, <2>7, <2>8, <3>2 DEF Relsed
  <2>10. Kept
    BY <1>7, <2>8 DEF Kept
  <2> QED BY <1>1, <1>6, <1>10, <2>8, <2>9, <2>10 DEF CbUnpinDid, d
<1> QED BY <1>9, <1>10

FrameDid == UNCHANGED <<kind, buf, bli, tx, log, oops, shut>> /\ Kept
IoDid ==
  /\ FrameDid
  /\ \/ io' = io /\ (push' = "locked" => push = "locked")
     \/ io # "none" /\ io' = "unpin" /\ push' = push
     \/ io # "none" /\ io' = "flight" /\ push' = push /\ buf.pin = 0
LEMMA IoDoes ==
  ASSUME BufCorrect, PushCheck \/ BufdCheck \/ SyncLog \/ UserWrite \/ (Strategy /\ ~Down) \/ Submit
  PROVE  IoDid
<1>0. buf \in Buffer /\ bli \in Item /\ CountOK
  BY Typed DEF BufCorrect, Rest
<1>1. UNCHANGED <<kind, buf, bli, tx, log, oops, shut>>
  BY DEF PushCheck, BufdCheck, SyncLog, UserWrite, Strategy, Submit
<1>2. N({"wait"})' = N({"wait"})
  BY <1>1 DEF N
<1>3. Kept
  BY <1>0, <1>1, <1>2, KeptAsIs
<1>4. \/ io' = io /\ (push' = "locked" => push = "locked")
      \/ io # "none" /\ io' = "unpin" /\ push' = push
      \/ io # "none" /\ io' = "flight" /\ push' = push /\ buf.pin = 0
  BY DEF PushCheck, BufdCheck, SyncLog, UserWrite, Strategy, Submit
<1> QED BY <1>1, <1>3, <1>4 DEF IoDid, FrameDid

PushLockDid ==
  /\ Kept /\ UNCHANGED <<kind, bli, tx, log, io, oops, shut>>
  /\ \/ UNCHANGED buf /\ push' = "idle"
     \/ /\ push' = "locked" /\ buf.lock = "free" /\ bli.lsn # 0
        /\ buf' = [buf EXCEPT !.lock = "push", !.hold = buf'.hold]
LEMMA PushLockDoes == ASSUME BufCorrect, PushLock PROVE PushLockDid
<1>0. /\ buf \in Buffer /\ bli \in Item /\ CountOK /\ buf.hold \in Int /\ N({"wait"}) \in Nat /\ Balance(S, N({"wait"}))
  BY Typed DEF BufCorrect, Rest
<1>1. UNCHANGED <<kind, bli, tx, log, io, oops, shut>>
  BY DEF PushLock
<1>2. N({"wait"})' = N({"wait"})
  BY <1>1 DEF N
<1>3. CASE buf.lock = "free" /\ bli.lsn # 0
  <2>1. buf' = [buf EXCEPT !.lock = "push", !.hold = @ + 1] /\ push' = "locked"
    BY <1>3 DEF PushLock
  <2>2. buf.hold + 1 \in Int
    BY <1>0
  <2>3. buf' \in Buffer /\ buf'.hold = buf.hold + 1 /\ buf'.queued = buf.queued /\ buf'.lock = "push"
        /\ buf' = [buf EXCEPT !.lock = "push", !.hold = buf'.hold]
    BY <1>0, <2>1, <2>2 DEF Buffer
  <2>4. S' \in Both
    BY <1>0, <1>1, <2>3 DEF S, Both
  <2>5. Balance(S', N({"wait"})')
    <3>1. One(buf.lock # "free") = 0 /\ One(buf'.lock # "free") = 1 /\ One(bli.there) \in Int /\ One(buf.queued) \in Int
      BY <1>3, <2>3 DEF One
    <3>2. buf.hold = One(bli.there) + One(buf.queued) + 0 + N({"wait"})
      BY <1>0, <3>1 DEF Balance, S
    <3>3. buf'.hold = One(bli'.there) + One(buf'.queued) + 1 + N({"wait"})'
      BY <1>0, <1>1, <1>2, <2>3, <3>1, <3>2
    <3> QED BY <3>1, <3>3 DEF Balance, S
  <2> QED BY <1>1, <1>3, <2>1, <2>3, <2>4, <2>5 DEF PushLockDid, Kept
<1>4. CASE ~(buf.lock = "free" /\ bli.lsn # 0)
  <2>1. UNCHANGED buf /\ push' = "idle"
    BY <1>4 DEF PushLock
  <2>2. Kept
    BY <1>0, <1>1, <1>2, <2>1, KeptAsIs
  <2> QED BY <1>1, <2>1, <2>2 DEF PushLockDid
<1> QED BY <1>3, <1>4

PushDid ==
  /\ Kept /\ UNCHANGED <<kind, bli, tx, log, oops, shut>> /\ push' = "idle" /\ push = "locked" /\ io' = "strategy"
  /\ buf' = [buf EXCEPT !.delwri = FALSE, !.queued = FALSE, !.lock = "io", !.hold = buf'.hold]
LEMMA PushDoes == ASSUME BufCorrect, Push PROVE PushDid
<1> DEFINE n == N({"wait"})
           s == DelwriDequeue(S)
<1>0. /\ buf \in Buffer /\ bli \in Item /\ S \in Both /\ S.buf = buf /\ S.bli = bli /\ n \in Nat /\ Balance(S, n)
      /\ LockOK /\ QueueOK /\ FlagsOK /\ CountOK
  BY Typed DEF BufCorrect, Rest
<1>1. push = "locked" /\ push' = "idle" /\ UNCHANGED <<kind, tx, log, oops, shut>>
  BY DEF Push
<1>2. buf.lock = "push" /\ bli.lsn # 0
  BY <1>0, <1>1 DEF LockOK
<1>3. buf.delwri /\ buf.lock # "free" /\ (buf.queued => buf.delwri)
  <2>1. "STALE" \notin bli.flags
    BY <1>2, NobodyOwns
  <2>2. bli.there /\ bli.map # {}
    BY <1>0, <1>2, <2>1 DEF CountOK, FlagsOK
  <2> QED BY <1>0, <1>2, <2>1, <2>2 DEF QueueOK
<1>4. /\ s \in Both /\ s.bli = bli /\ Balance(s, n)
      /\ s.buf = [buf EXCEPT !.delwri = FALSE, !.queued = FALSE, !.hold = s.buf.hold]
  BY <1>0, <1>3, DequeueDoes
<1>5. Install([s EXCEPT !.buf.lock = "io"]) /\ io' = "strategy"
  BY <1>3 DEF Push
<1>6. PICK v : v = s
  OBVIOUS
<1> HIDE DEF s, n
<1>7. v.buf \in Buffer /\ v \in Both
  BY <1>4, <1>6 DEF Both
<1>8. buf' = [v.buf EXCEPT !.lock = "io"] /\ bli' = v.bli
  BY <1>5, <1>6, <1>7 DEF Install, Both
<1>9. /\ buf' \in Buffer /\ buf'.hold = v.buf.hold /\ buf'.queued = v.buf.queued /\ buf'.lock = "io"
      /\ v.buf.lock = buf.lock
  BY <1>0, <1>4, <1>6, <1>7, <1>8 DEF Buffer
<1>10. buf' = [buf EXCEPT !.delwri = FALSE, !.queued = FALSE, !.lock = "io", !.hold = buf'.hold]
  BY <1>0, <1>4, <1>6, <1>7, <1>8, <1>9 DEF Buffer
<1>11. S' \in Both
  BY <1>0, <1>4, <1>6, <1>8, <1>9 DEF S, Both
<1>12. Balance(S', n)
  <2>1. One(v.buf.lock # "free") = One(buf'.lock # "free")
    BY <1>3, <1>9 DEF One
  <2> QED BY <1>4, <1>6, <1>8, <1>9, <2>1 DEF Balance, S
<1>13. N({"wait"})' = n
  BY <1>1 DEF N, n
<1> QED BY <1>1, <1>4, <1>5, <1>6, <1>8, <1>10, <1>11, <1>12, <1>13 DEF PushDid, Kept

BufdLockDid ==
  /\ Kept /\ UNCHANGED <<kind, bli, tx, log, oops, push, shut>>
  /\ \/ UNCHANGED <<buf, io>>
     \/ /\ buf.lock = "free" /\ buf.queued /\ io' = "strategy"
        /\ buf' = [buf EXCEPT !.lock = "io", !.delwri = FALSE, !.queued = FALSE]
LEMMA BufdLockDoes == ASSUME BufCorrect, BufdLock PROVE BufdLockDid
<1>0. /\ buf \in Buffer /\ bli \in Item /\ CountOK /\ buf.hold \in Int /\ N({"wait"}) \in Nat /\ Balance(S, N({"wait"}))
  BY Typed DEF BufCorrect, Rest
<1>1. UNCHANGED <<kind, bli, tx, log, oops, push, shut>>
  BY DEF BufdLock
<1>2. N({"wait"})' = N({"wait"})
  BY <1>1 DEF N
<1>3. CASE buf.lock = "free" /\ buf.queued
  <2>1. buf' = [buf EXCEPT !.lock = "io", !.delwri = FALSE, !.queued = FALSE] /\ io' = "strategy"
    BY <1>3 DEF BufdLock
  <2>3. buf' \in Buffer /\ buf'.hold = buf.hold /\ buf'.queued = FALSE /\ buf'.lock = "io"
    BY <1>0, <2>1 DEF Buffer
  <2>4. S' \in Both
    BY <1>0, <1>1, <2>3 DEF S, Both
  <2>5. Balance(S', N({"wait"})')
    <3>1. One(buf.lock # "free") = 0 /\ One(buf'.lock # "free") = 1 /\ One(bli.there) \in Int /\ One(buf.queued) = 1
          /\ One(buf'.queued) = 0
      BY <1>3, <2>3 DEF One
    <3>2. buf.hold = One(bli.there) + 1 + 0 + N({"wait"})
      BY <1>0, <3>1 DEF Balance, S
    <3>3. buf'.hold = One(bli'.there) + 0 + 1 + N({"wait"})'
      BY <1>0, <1>1, <1>2, <2>3, <3>1, <3>2
    <3> QED BY <3>1, <3>3 DEF Balance, S
  <2> QED BY <1>1, <1>3, <2>1, <2>3, <2>4, <2>5 DEF BufdLockDid, Kept
<1>4. CASE ~(buf.lock = "free" /\ buf.queued)
  <2>1. UNCHANGED <<buf, io>>
    BY <1>4 DEF BufdLock
  <2>2. Kept
    BY <1>0, <1>1, <1>2, <2>1, KeptAsIs
  <2> QED BY <1>1, <2>1, <2>2 DEF BufdLockDid
<1> QED BY <1>3, <1>4

WriteDid ==
  /\ Kept /\ UNCHANGED <<kind, tx, log, oops, push, shut>> /\ io = "flight" /\ io' = "none"
  /\ \/ buf.iodone /\ bli' = NoItem /\ Relsed([buf EXCEPT !.iodone = FALSE, !.ino = FALSE])
     \/ ~buf.iodone /\ UNCHANGED bli /\ Relsed(buf)
     \/ buf.iodone /\ UNCHANGED bli /\ Relsed([buf EXCEPT !.delwri = TRUE, !.done = TRUE])
LEMMA WriteDoes == ASSUME BufCorrect, ~Down, WriteDone \/ WriteError PROVE WriteDid
<1> DEFINE n == N({"wait"})
           d == [buf EXCEPT !.iodone = FALSE, !.ino = FALSE]
           e == [buf EXCEPT !.delwri = TRUE, !.done = TRUE]
<1>0. /\ buf \in Buffer /\ bli \in Item /\ S \in Both /\ S.buf = buf /\ S.bli = bli /\ n \in Nat /\ Balance(S, n)
      /\ LockOK /\ QueueOK /\ FlagsOK /\ StaleOK /\ CountOK
  BY Typed DEF BufCorrect, Rest
<1>1. io = "flight" /\ io' = "none" /\ UNCHANGED <<kind, tx, log, oops, push, shut>>
  BY DEF WriteDone, WriteError
<1>2. buf.lock = "io" /\ (buf.queued => buf.delwri) /\ "STALE" \notin bli.flags /\ ~buf.stale
  BY <1>0, <1>1, NobodyOwns DEF LockOK, QueueOK, StaleOK
<1>3. N({"wait"})' = n
  BY <1>1 DEF N
<1>4. CASE WriteDone /\ buf.iodone
  <2>1. PICK u : u = DoCallbacks(S)
    OBVIOUS
  <2>2. Install(BufRelse(u))
    BY <1>4, <2>1 DEF WriteDone
  <2>3. /\ u \in Both /\ u.bli = NoItem
        /\ Balance(u, n) /\ u.buf = [buf EXCEPT !.iodone = FALSE, !.ino = FALSE, !.hold = u.buf.hold]
    <3>1. bli.there \/ bli = NoItem
      BY <1>0 DEF FlagsOK
    <3> QED BY <1>0, <1>2, <2>1, <3>1, CallbacksDo
  <2>4. u.buf \in Buffer
    BY <2>3 DEF Both
  <2>5. u.buf.lock # "free" /\ (u.buf.queued => u.buf.delwri) /\ u.buf.delwri = d.delwri
    BY <1>0, <1>2, <2>3, <2>4 DEF Buffer
  <2>6. S' \in Both /\ Balance(S', n) /\ bli' = NoItem /\ Relsed(u.buf)
    BY <1>0, <2>2, <2>3, <2>5, RelsedDoes
  <2>7. Relsed(d)
    <3>2. ASSUME NEW x PROVE [u.buf EXCEPT !.lock = "free", !.queued = u.buf.delwri, !.hold = x]
                           = [d EXCEPT !.lock = "free", !.queued = d.delwri, !.hold = x]
      BY <1>0, <2>3, <2>4, <2>5 DEF Buffer
    <3> HIDE DEF d
    <3> QED BY <2>5, <2>6, <3>2 DEF Relsed
  <2> QED BY <1>1, <1>3, <1>4, <2>6, <2>7 DEF WriteDid, Kept
<1>5. CASE ~buf.iodone
  <2>1. Install(BufRelse(S))
    BY <1>5 DEF WriteDone, WriteError
  <2>2. S' \in Both /\ Balance(S', n) /\ bli' = bli /\ Relsed(buf)
    BY <1>0, <1>2, <2>1, RelsedDoes
  <2> QED BY <1>1, <1>3, <1>5, <2>2 DEF WriteDid, Kept
<1>6. CASE WriteError /\ buf.iodone
  <2>1. PICK u : u = [S EXCEPT !.buf.delwri = TRUE, !.buf.done = TRUE]
    OBVIOUS
  <2>2. Install(BufRelse(u))
    BY <1>2, <1>6, <2>1 DEF WriteError
  <2>3. e \in Buffer /\ e.lock = "io" /\ e.delwri = TRUE /\ e.hold = buf.hold /\ e.queued = buf.queued
    BY <1>0, <1>2 DEF Buffer
  <2>4. u = [S EXCEPT !.buf = e]
    BY <1>0, <2>1
  <2> HIDE DEF e
  <2>5. u \in Both /\ u.buf = e /\ u.bli = bli
    BY <1>0, <2>3, <2>4 DEF Both
  <2>6. Balance(u, n)
    BY <1>0, <1>2, <2>3, <2>5 DEF Balance
  <2>7. S' \in Both /\ Balance(S', n) /\ bli' = bli /\ Relsed(e)
    BY <1>0, <2>2, <2>3, <2>5, <2>6, RelsedDoes
  <2> QED BY <1>1, <1>3, <1>6, <2>7 DEF WriteDid, Kept, e
<1> QED BY <1>4, <1>5, <1>6

InodeFlushDid ==
  /\ Kept /\ UNCHANGED <<kind, bli, tx, log, io, oops, push, shut>>
  /\ buf.lock = "free" /\ kind = "inode" /\ ~buf.ino
  /\ buf' = [buf EXCEPT !.stale = FALSE, !.done = TRUE, !.ino = TRUE, !.iodone = TRUE, !.delwri = TRUE,
                        !.queued = TRUE, !.hold = buf'.hold]
LEMMA InodeFlushDoes == ASSUME BufCorrect, InodeFlush PROVE InodeFlushDid
<1> DEFINE n == N({"wait"})
           g == BufFound([S EXCEPT !.buf.lock = "tx", !.buf.hold = @ + 1])
           a == [BufRead(g) EXCEPT !.buf.ino = TRUE, !.buf.iodone = TRUE, !.buf.delwri = TRUE]
           q == IF a.buf.queued THEN BufRele(a) ELSE [a EXCEPT !.buf.queued = TRUE]
           e == [buf EXCEPT !.lock = "tx", !.stale = FALSE, !.done = TRUE, !.ino = TRUE, !.iodone = TRUE,
                            !.delwri = TRUE, !.hold = @ + 1]
<1>0. /\ buf \in Buffer /\ bli \in Item /\ S \in Both /\ S.buf = buf /\ S.bli = bli /\ n \in Nat /\ Balance(S, n)
      /\ buf.hold \in Int
  BY Typed DEF BufCorrect, Rest
<1>1. /\ buf.lock = "free" /\ kind = "inode" /\ ~buf.ino /\ UNCHANGED <<kind, tx, log, io, oops, push, shut>>
      /\ Install(BufUnlock(q))
  BY DEF InodeFlush
<1>2. N({"wait"})' = n
  BY <1>1 DEF N
<1> HIDE DEF n
<1>3. buf.hold + 1 \in Int
  BY <1>0
<1>4. e \in Buffer /\ e.hold = buf.hold + 1 /\ e.queued = buf.queued /\ e.lock = "tx" /\ e.delwri = TRUE
  BY <1>0, <1>3 DEF Buffer
<1>5. a \in Both /\ a.buf = e /\ a.bli = bli
  <2>1. PICK s : s = [S EXCEPT !.buf.lock = "tx", !.buf.hold = @ + 1]
    OBVIOUS
  <2>2. s.buf = [buf EXCEPT !.lock = "tx", !.hold = @ + 1] /\ s.bli = bli /\ s = [buf |-> s.buf, bli |-> bli]
    BY <1>0, <2>1 DEF Both
  <2>3. PICK v : v = BufFound(s)
    OBVIOUS
  <2>4. v.bli = bli /\ v = [buf |-> v.buf, bli |-> bli]
        /\ v.buf = IF s.buf.stale THEN [s.buf EXCEPT !.stale = FALSE, !.done = FALSE, !.delwri = FALSE] ELSE s.buf
    BY <2>2, <2>3 DEF BufFound
  <2>5. s.buf \in Buffer /\ v.buf \in Buffer
    <3>1. s.buf \in Buffer
      BY <1>0, <1>3, <2>2 DEF Buffer
    <3>2. CASE s.buf.stale
      BY <2>4, <3>1, <3>2 DEF Buffer
    <3>3. CASE ~s.buf.stale
      BY <2>4, <3>1, <3>3
    <3> QED BY <3>1, <3>2, <3>3
  <2>6. a = [BufRead(v) EXCEPT !.buf.ino = TRUE, !.buf.iodone = TRUE, !.buf.delwri = TRUE]
    BY <2>1, <2>3
  <2> HIDE DEF a
  <2>7. a.bli = bli /\ a = [buf |-> a.buf, bli |-> bli]
        /\ a.buf = [v.buf EXCEPT !.done = TRUE, !.ino = TRUE, !.iodone = TRUE, !.delwri = TRUE]
    BY <2>4, <2>5, <2>6 DEF BufRead, Buffer
  <2>8. a.buf = e
    <3>1. v.buf.stale = FALSE
      <4>1. CASE s.buf.stale
        BY <2>4, <2>5, <4>1 DEF Buffer
      <4>2. CASE ~s.buf.stale
        BY <2>4, <2>5, <4>2 DEF Buffer
      <4> QED BY <4>1, <4>2
    <3>2. [v.buf EXCEPT !.done = TRUE, !.delwri = TRUE] = [s.buf EXCEPT !.stale = FALSE, !.done = TRUE, !.delwri = TRUE]
      <4>1. CASE s.buf.stale
        BY <2>4, <2>5, <4>1 DEF Buffer
      <4>2. CASE ~s.buf.stale
        BY <2>4, <2>5, <3>1, <4>2 DEF Buffer
      <4> QED BY <4>1, <4>2
    <3>3. a.buf = [[v.buf EXCEPT !.done = TRUE, !.delwri = TRUE] EXCEPT !.ino = TRUE, !.iodone = TRUE]
      BY <2>5, <2>7 DEF Buffer
    <3>4. a.buf = [s.buf EXCEPT !.stale = FALSE, !.done = TRUE, !.ino = TRUE, !.iodone = TRUE, !.delwri = TRUE]
      BY <2>5, <3>2, <3>3 DEF Buffer
    <3> QED BY <1>0, <2>2, <2>5, <3>4 DEF Buffer
  <2> HIDE DEF e
  <2> QED BY <1>0, <1>4, <2>7, <2>8 DEF Both
<1> HIDE DEF e
<1>6. PICK c : c = a
  OBVIOUS
<1> HIDE DEF a
<1>7. /\ One(bli.there) \in Nat /\ One(TRUE) = 1 /\ One(FALSE) = 0
      /\ buf.queued => c.buf.hold = One(bli.there) + 2 + n
      /\ ~buf.queued => c.buf.hold = One(bli.there) + 1 + n
  <2>1. One(buf.lock # "free") = 0 /\ One(bli.there) \in Nat /\ One(TRUE) = 1 /\ One(FALSE) = 0
    BY <1>1 DEF One
  <2>2. buf.hold = One(bli.there) + One(buf.queued) + 0 + n
    BY <1>0, <2>1 DEF Balance
  <2>3. (buf.queued => One(buf.queued) = 1) /\ (~buf.queued => One(buf.queued) = 0)
    BY DEF One
  <2>4. c.buf.hold = buf.hold + 1
    BY <1>4, <1>5, <1>6
  <2>5. ASSUME buf.queued PROVE c.buf.hold = One(bli.there) + 2 + n
    <3>1. One(buf.queued) = 1
      BY <2>3, <2>5
    <3> QED BY <1>0, <2>1, <2>2, <2>4, <3>1
  <2>6. ASSUME ~buf.queued PROVE c.buf.hold = One(bli.there) + 1 + n
    <3>1. One(buf.queued) = 0
      BY <2>3, <2>6
    <3> QED BY <1>0, <2>1, <2>2, <2>4, <3>1
  <2> QED BY <2>1, <2>5, <2>6
<1>8. PICK w : w = q
  OBVIOUS
<1>9. w = IF c.buf.queued THEN BufRele(c) ELSE [c EXCEPT !.buf.queued = TRUE]
  BY <1>6, <1>8
<1>10. PICK x \in Int : x = One(bli.there) + 1 + n
  BY <1>0, <1>7
<1>11. w.bli = bli /\ w = [buf |-> w.buf, bli |-> bli] /\ w.buf = [c.buf EXCEPT !.queued = TRUE, !.hold = x]
  <2>1. CASE buf.queued
    <3>1. c.buf.queued = TRUE /\ c.buf.hold # 1 /\ c.buf.hold - 1 = x /\ c.buf \in Buffer /\ c.bli = bli /\ c \in Both
      <4>1. c.buf \in Buffer /\ c.bli = bli /\ c \in Both /\ c.buf.queued = buf.queued /\ buf.queued \in BOOLEAN
        BY <1>0, <1>4, <1>5, <1>6 DEF Buffer
      <4>2. c.buf.hold # 1 /\ c.buf.hold - 1 = x
        BY <1>0, <1>7, <1>10, <2>1
      <4> QED BY <2>1, <4>1, <4>2
    <3>2. w = [c EXCEPT !.buf.hold = @ - 1]
      BY <1>9, <3>1 DEF BufRele
    <3>3. w = [c EXCEPT !.buf = [c.buf EXCEPT !.hold = x]]
      BY <3>1, <3>2
    <3>4. [c.buf EXCEPT !.hold = x] = [c.buf EXCEPT !.queued = TRUE, !.hold = x]
      BY <3>1 DEF Buffer
    <3> QED BY <3>1, <3>3, <3>4 DEF Both
  <2>2. CASE ~buf.queued
    <3>1. ~c.buf.queued /\ c.buf.hold = x /\ c.buf \in Buffer /\ c.bli = bli /\ c \in Both
      BY <1>0, <1>4, <1>5, <1>6, <1>7, <1>10, <2>2 DEF Both
    <3>2. w = [c EXCEPT !.buf = [c.buf EXCEPT !.queued = TRUE]]
      BY <1>9, <3>1
    <3>3. [c.buf EXCEPT !.queued = TRUE] = [c.buf EXCEPT !.queued = TRUE, !.hold = x]
      BY <3>1 DEF Buffer
    <3> QED BY <3>1, <3>2, <3>3 DEF Both
  <2> QED BY <2>1, <2>2
<1>12. /\ w.buf \in Buffer /\ w.buf.delwri = TRUE /\ w.buf.queued = TRUE
  BY <1>4, <1>5, <1>6, <1>10, <1>11 DEF Buffer
<1>13. BufUnlock(w) = [w EXCEPT !.buf.lock = "free"]
  BY <1>12 DEF BufUnlock
<1>14. Install(BufUnlock(w))
  BY <1>1, <1>8
<1>15. buf' = [w.buf EXCEPT !.lock = "free"] /\ bli' = bli
  <2>1. w \in Both
    BY <1>0, <1>11, <1>12 DEF Both
  <2> QED BY <1>11, <1>13, <1>14, <2>1 DEF Install, Both
<1>16. buf' \in Buffer /\ buf'.hold = x /\ buf'.queued = TRUE /\ buf'.lock = "free"
  BY <1>4, <1>5, <1>6, <1>10, <1>11, <1>12, <1>15 DEF Buffer
<1>17. buf' = [buf EXCEPT !.stale = FALSE, !.done = TRUE, !.ino = TRUE, !.iodone = TRUE, !.delwri = TRUE,
                          !.queued = TRUE, !.hold = buf'.hold]
  <2>1. c.buf = e
    BY <1>5, <1>6
  <2>2. buf' = [e EXCEPT !.queued = TRUE, !.hold = x, !.lock = "free"]
    BY <1>4, <1>11, <1>12, <1>15, <2>1 DEF Buffer
  <2> QED BY <1>0, <1>1, <1>16, <2>2 DEF e, Buffer
<1>18. Kept
  <2>1. S' \in Both
    BY <1>0, <1>15, <1>16 DEF S, Both
  <2>2. Balance(S', n)
    <3>1. One(buf'.queued) = 1 /\ One(buf'.lock # "free") = 0
      BY <1>16 DEF One
    <3>2. buf'.hold = One(bli'.there) + One(buf'.queued) + One(buf'.lock # "free") + n
      BY <1>0, <1>7, <1>10, <1>15, <1>16, <3>1
    <3> QED BY <3>2 DEF Balance, S
  <2> QED BY <1>2, <2>1, <2>2 DEF Kept
<1> QED BY <1>1, <1>15, <1>17, <1>18 DEF InodeFlushDid

----------------------------------------------------------------------------
\* Each step keeps the invariant.
LEMMA NoneIn == ASSUME NEW A, \A t \in Txs : tx[t].pc \notin A PROVE N(A) = 0
<1>1. {t \in Txs : tx[t].pc \in A} = {}
  OBVIOUS
<1> QED BY <1>1, FS_EmptySet DEF N

LEMMA SomeIn ==
  ASSUME IsFiniteSet(Txs), NEW A, NEW u \in Txs, tx'[u].pc \in A PROVE N(A)' > 0
<1> DEFINE H == {w \in Txs : tx[w].pc \in A}
<1>1. IsFiniteSet(H') /\ u \in H'
  BY FS_Subset
<1>2. Cardinality(H') # 0 /\ Cardinality(H') \in Nat
  BY <1>1, FS_EmptySet, FS_CardinalityType
<1> QED BY <1>2 DEF N

\* what is known of a reachable state, and of the buffer and the item after a step
LEMMA KeptParts ==
  ASSUME BufCorrect, Kept
  PROVE  /\ buf \in Buffer /\ bli \in Item /\ tx \in [Txs -> Tx] /\ IsFiniteSet(Txs)
         /\ CountOK /\ LockOK /\ TxOK /\ OrderOK /\ FlagsOK /\ StaleOK /\ QueueOK
         /\ buf' \in Buffer /\ bli' \in Item /\ Balance(S', N({"wait"})') /\ Len(log) \in Nat
         /\ N(RefPcs) \in Nat /\ N(PinPcs) \in Nat
<1>1. buf' \in Buffer /\ bli' \in Item
  BY DEF Kept, S, Both
<1> QED BY <1>1, Typed, NumberIsNat DEF BufCorrect, Rest, Kept

LEMMA Numbers ==
  ASSUME IsFiniteSet(Txs), NEW t \in Txs, Only(t)
  PROVE  /\ N(RefPcs)' = N(RefPcs) - One(tx[t].pc \in RefPcs) + One(tx'[t].pc \in RefPcs)
         /\ N(PinPcs)' = N(PinPcs) - One(tx[t].pc \in PinPcs) + One(tx'[t].pc \in PinPcs)
BY Moves DEF Only

LEMMA SameNumbers == ASSUME UNCHANGED tx PROVE N(RefPcs)' = N(RefPcs) /\ N(PinPcs)' = N(PinPcs)
BY DEF N

LEMMA RelsedFields ==
  ASSUME NEW b \in Buffer, buf' \in Buffer, Relsed(b)
  PROVE  /\ buf'.lock = "free" /\ buf'.queued = b.delwri /\ buf'.delwri = b.delwri
         /\ buf'.stale => b.stale
         /\ buf'.ino => b.ino /\ buf'.iodone = b.iodone
         /\ bli'.there => buf'.pin = b.pin /\ buf'.stale = b.stale /\ buf'.iodone = b.iodone /\ buf'.ino = b.ino
         /\ buf'.pin = b.pin \/ (buf'.pin = 0 /\ ~bli'.there)
<1>1. CASE buf' = [b EXCEPT !.lock = "free", !.queued = b.delwri, !.hold = buf'.hold]
  BY <1>1 DEF Buffer
<1>2. CASE buf' = NoBuf /\ ~bli'.there /\ ~b.delwri
  <2>1. b.delwri = FALSE
    BY <1>2 DEF Buffer
  <2> QED BY <1>2, <2>1 DEF NoBuf
<1> QED BY <1>1, <1>2 DEF Relsed

LEMMA HasItem == ASSUME BufCorrect, NEW t \in Txs, tx[t].pc \in RefPcs PROVE bli.there
<1>1. CountOK /\ N(RefPcs) > 0
  BY Typed, SomeLeft DEF BufCorrect, Rest
<1> QED BY <1>1 DEF CountOK

\* an item whose buffer is dirty is still wanted, so a buffer that nobody holds is not pinned
LEMMA NoItemNoPin ==
  ASSUME BufCorrect, ~bli.there
  PROVE  \A t \in Txs : tx[t].pc \notin RefPcs \cup PinPcs
<1>1. \A t \in Txs : tx[t].pc \notin RefPcs
  BY HasItem
<1>2. bli.lsn = 0 /\ OrderOK
  BY DEF BufCorrect, Rest, FlagsOK, NoItem
<1> QED BY <1>1, <1>2 DEF OrderOK, RefPcs, PinPcs

LEMMA FindKeeps == ASSUME BufCorrect, NEW t \in Txs, FindDid(t) PROVE Rest'
<1>0. /\ buf \in Buffer /\ bli \in Item /\ tx \in [Txs -> Tx] /\ buf' \in Buffer /\ bli' \in Item
      /\ CountOK /\ LockOK /\ TxOK /\ OrderOK /\ FlagsOK /\ StaleOK /\ QueueOK
      /\ IsFiniteSet(Txs) /\ Len(log) \in Nat /\ N(RefPcs) \in Nat /\ N(PinPcs) \in Nat /\ Balance(S', N({"wait"})')
  BY KeptParts DEF FindDid
<1>1. /\ tx' \in [Txs -> Tx] /\ tx'[t] \in Tx /\ tx[t] \in Tx /\ \A u \in Txs \ {t} : tx'[u] = tx[u]
  BY <1>0 DEF FindDid, Only
<1>2. /\ tx[t].pc = "idle" /\ tx'[t].pc = "wait" /\ tx'[t].dirty = tx[t].dirty /\ tx'[t].stale = tx[t].stale
      /\ tx'[t].held = tx[t].held /\ tx'[t].lsn = tx[t].lsn /\ tx'[t].freed = tx[t].freed
  BY <1>0, <1>1 DEF FindDid, Tx
<1>3. /\ buf'.lock = buf.lock /\ buf'.pin = buf.pin /\ buf'.delwri = buf.delwri /\ buf'.queued = buf.queued
      /\ buf'.stale = buf.stale /\ buf'.iodone = buf.iodone /\ buf'.ino = buf.ino
  BY <1>0 DEF FindDid, Buffer
<1>4. bli' = bli /\ kind' = kind /\ io' = io /\ push' = push /\ oops' = oops /\ Len(log') = Len(log)
  BY <1>0 DEF FindDid, Quiet
<1>5. CountOK'
  <2>1. N(RefPcs)' = N(RefPcs) /\ N(PinPcs)' = N(PinPcs)
    <3>1. One(tx[t].pc \in RefPcs) = 0 /\ One(tx'[t].pc \in RefPcs) = 0
          /\ One(tx[t].pc \in PinPcs) = 0 /\ One(tx'[t].pc \in PinPcs) = 0
      BY <1>2 DEF One, RefPcs, PinPcs
    <3>2. Only(t)
      BY <1>1 DEF Only
    <3> QED BY <1>0, <3>1, <3>2, Numbers
  <2>2. bli'.ref = N(RefPcs)'
    BY <1>0, <1>4, <2>1 DEF CountOK
  <2>3. buf'.pin = N(PinPcs)'
    BY <1>0, <1>3, <2>1 DEF CountOK
  <2>4. bli'.there <=> bli'.ref > 0 \/ bli'.lsn # 0
    BY <1>0, <1>4 DEF CountOK
  <2>5. ~oops'
    BY <1>0, <1>4 DEF CountOK
  <2> QED BY <1>0, <2>2, <2>3, <2>4, <2>5 DEF CountOK
<1>6. LockOK'
  BY <1>0, <1>1, <1>2, <1>3, <1>4 DEF LockOK, Owner, Staler, Live, PinPcs
<1>7. TxOK'
  BY <1>0, <1>1, <1>2, <1>4 DEF TxOK, PinPcs
<1>8. OrderOK'
  BY <1>0, <1>1, <1>2, <1>4 DEF OrderOK, Staler, Live
<1>9. FlagsOK'
  BY <1>0, <1>1, <1>2, <1>4 DEF FlagsOK, RefPcs
<1>10. StaleOK'
  BY <1>0, <1>1, <1>2, <1>3, <1>4 DEF StaleOK, Staler, Live
<1>11. QueueOK'
  BY <1>0, <1>3, <1>4 DEF QueueOK
<1> QED BY <1>5, <1>6, <1>7, <1>8, <1>9, <1>10, <1>11 DEF Rest

LEMMA GetBufKeeps == ASSUME BufCorrect, NEW t \in Txs, GetBufDid(t) PROVE Rest'
<1>0. /\ buf \in Buffer /\ bli \in Item /\ tx \in [Txs -> Tx] /\ buf' \in Buffer /\ bli' \in Item
      /\ CountOK /\ LockOK /\ TxOK /\ OrderOK /\ FlagsOK /\ StaleOK /\ QueueOK
      /\ IsFiniteSet(Txs) /\ Len(log) \in Nat /\ N(RefPcs) \in Nat /\ N(PinPcs) \in Nat /\ Balance(S', N({"wait"})')
  BY KeptParts DEF GetBufDid
<1>1. /\ tx' \in [Txs -> Tx] /\ tx'[t] \in Tx /\ tx[t] \in Tx /\ \A u \in Txs \ {t} : tx'[u] = tx[u]
  BY <1>0 DEF GetBufDid, Only
<1>2. /\ tx[t].pc = "wait" /\ tx'[t].pc = "in" /\ tx'[t].alloc = tx[t].alloc /\ tx'[t].dirty = tx[t].dirty
      /\ tx'[t].stale = tx[t].stale /\ tx'[t].held = tx[t].held /\ tx'[t].lsn = tx[t].lsn /\ tx'[t].freed = tx[t].freed
  BY <1>0, <1>1 DEF GetBufDid, Tx
<1>3. /\ buf'.lock = "tx" /\ buf'.pin = buf.pin /\ buf'.delwri = buf.delwri /\ buf'.queued = buf.queued
      /\ buf'.stale = FALSE /\ buf'.iodone = buf.iodone /\ buf'.ino = buf.ino /\ buf.lock = "free"
  BY <1>0, <1>1, <1>2 DEF GetBufDid, Buffer
<1>4. /\ bli'.there = TRUE /\ bli'.ref = bli.ref + 1 /\ bli'.flags = bli.flags /\ bli'.map = bli.map /\ bli'.lsn = bli.lsn
  BY <1>0 DEF GetBufDid, Joins, NoItem, FlagsOK
<1>5. kind' = kind /\ io' = io /\ push' = push /\ oops' = oops /\ Len(log') = Len(log)
  BY <1>0 DEF GetBufDid, Quiet
<1>6. CountOK'
  <2>1. N(RefPcs)' = N(RefPcs) + 1 /\ N(PinPcs)' = N(PinPcs)
    <3>1. One(tx[t].pc \in RefPcs) = 0 /\ One(tx'[t].pc \in RefPcs) = 1
          /\ One(tx[t].pc \in PinPcs) = 0 /\ One(tx'[t].pc \in PinPcs) = 0
      BY <1>2 DEF One, RefPcs, PinPcs
    <3>2. Only(t)
      BY <1>1 DEF Only
    <3> QED BY <1>0, <3>1, <3>2, Numbers
  <2>2. bli'.ref = N(RefPcs)'
    BY <1>0, <1>4, <2>1 DEF CountOK
  <2>3. buf'.pin = N(PinPcs)'
    BY <1>0, <1>3, <2>1 DEF CountOK
  <2>4. bli'.there <=> bli'.ref > 0 \/ bli'.lsn # 0
    BY <1>0, <1>4, <2>1, <2>2
  <2>5. ~oops'
    BY <1>0, <1>5 DEF CountOK
  <2> QED BY <1>0, <2>2, <2>3, <2>4, <2>5 DEF CountOK
<1>7. LockOK'
  BY <1>0, <1>1, <1>3, <1>5 DEF LockOK, Owner, Staler, Live
<1>8. TxOK'
  BY <1>0, <1>1, <1>2, <1>5 DEF TxOK, PinPcs
<1>9. OrderOK'
  BY <1>0, <1>1, <1>2, <1>4 DEF OrderOK, Staler, Live
<1>10. FlagsOK'
  <2>1. (~bli.there => bli = NoItem)'
    BY <1>4
  <2>2. ("DIRTY" \in bli.flags <=> bli.map # {})'
    BY <1>0, <1>4 DEF FlagsOK
  <2>3. ("LOGGED" \in bli.flags =>
          bli.map # {} /\ \E w \in Txs : tx[w].pc \in {"in", "logged"} /\ tx[w].dirty /\ ~tx[w].stale)'
    BY <1>0, <1>1, <1>2, <1>4 DEF FlagsOK
  <2>4. (\A w \in Txs : tx[w].pc \in {"in", "logged"} /\ tx[w].dirty /\ ~tx[w].stale => "LOGGED" \in bli.flags)'
    <3> SUFFICES ASSUME NEW w \in Txs, (tx[w].pc \in {"in", "logged"} /\ tx[w].dirty /\ ~tx[w].stale)'
                 PROVE ("LOGGED" \in bli.flags)'
      OBVIOUS
    <3>1. w # t
      BY <1>0, <1>2 DEF TxOK
    <3>2. tx'[w] = tx[w]
      BY <1>1, <3>1
    <3> QED BY <1>0, <1>1, <1>4, <3>1 DEF FlagsOK
  <2>5. (bli.there /\ bli.map = {} /\ "STALE" \notin bli.flags =>
          bli.lsn = 0 /\ \A w \in Txs : tx[w].pc \in RefPcs => tx[w].pc = "in")'
    <3>1. CASE bli.there
      BY <3>1, <1>0, <1>1, <1>2, <1>4 DEF FlagsOK
    <3>2. CASE ~bli.there
      <4>1. bli.lsn = 0 /\ \A w \in Txs : tx[w].pc \notin RefPcs
        BY <1>0, <3>2, HasItem DEF FlagsOK, NoItem
      <4> QED BY <4>1, <1>1, <1>2, <1>4
    <3> QED BY <3>1, <3>2
  <2>6. (bli.map # {} =>
          bli.lsn # 0 \/ \E w \in Txs : tx[w].pc \in {"in", "logged", "committed"} /\ tx[w].dirty /\ ~tx[w].stale)'
    BY <1>0, <1>1, <1>2, <1>4 DEF FlagsOK
  <2> QED BY <2>1, <2>2, <2>3, <2>4, <2>5, <2>6 DEF FlagsOK
<1>11. StaleOK'
  <2>1. ("STALE" \in bli.flags => \E w \in Txs : Staler(w))'
    BY <1>0, <1>1, <1>2, <1>4 DEF StaleOK, Staler, Live
  <2>2. ("STALE" \in bli.flags => buf.stale /\ ~buf.delwri /\ ~buf.queued /\ "HOLD" \notin bli.flags /\ bli.map = {})'
    BY <1>3, <1>4, NobodyOwns
  <2>3. ("STALE" \in bli.flags /\ buf.ino => "STALE_INODE" \in bli.flags)'
    BY <1>0, <1>3, <1>4 DEF StaleOK
  <2>4. (\A w \in Txs : Staler(w) => "STALE" \in bli.flags)'
    <3> SUFFICES ASSUME NEW w \in Txs, (Staler(w))' PROVE ("STALE" \in bli.flags)'
      OBVIOUS
    <3>1. w # t
      BY <1>0, <1>2 DEF TxOK, Staler
    <3>2. tx'[w] = tx[w]
      BY <1>1, <3>1
    <3> QED BY <1>0, <1>1, <1>4, <3>1 DEF StaleOK, Staler, Live
  <2>5. (buf.stale /\ "STALE" \notin bli.flags =>
          buf.lock = "free" /\ ~bli.there /\ ~buf.ino /\ ~buf.delwri /\ ~buf.queued)'
    BY <1>3
  <2> QED BY <2>1, <2>2, <2>3, <2>4, <2>5 DEF StaleOK
<1>12. QueueOK'
  BY <1>0, <1>3, <1>4, <1>5 DEF QueueOK
<1> QED BY <1>6, <1>7, <1>8, <1>9, <1>10, <1>11, <1>12 DEF Rest

LEMMA MarkKeeps == ASSUME BufCorrect, NEW t \in Txs, MarkDid(t) PROVE Rest'
<1>0. /\ buf \in Buffer /\ bli \in Item /\ tx \in [Txs -> Tx] /\ buf' \in Buffer /\ bli' \in Item
      /\ CountOK /\ LockOK /\ TxOK /\ OrderOK /\ FlagsOK /\ StaleOK /\ QueueOK
      /\ IsFiniteSet(Txs) /\ Len(log) \in Nat /\ N(RefPcs) \in Nat /\ N(PinPcs) \in Nat /\ Balance(S', N({"wait"})')
  BY KeptParts DEF MarkDid
<1>1. tx' = tx /\ tx[t].pc = "in"
  BY DEF MarkDid
<1>2. \A u \in Txs : tx'[u] = tx[u]
  BY <1>1
<1>3. buf' = buf /\ kind' = kind /\ io' = io /\ push' = push /\ oops' = oops /\ Len(log') = Len(log)
  BY <1>0 DEF MarkDid, Quiet
<1>4. bli'.there = bli.there /\ bli'.ref = bli.ref /\ bli'.map = bli.map /\ bli'.lsn = bli.lsn /\ bli.there
  BY <1>0, <1>1, <1>2, HasItem DEF MarkDid, Item, RefPcs
<1>5. \A f : f # "HOLD" => (f \in bli'.flags <=> f \in bli.flags)
  BY <1>0 DEF MarkDid
<1>6. "STALE" \in bli.flags => "HOLD" \notin bli'.flags
  BY <1>0 DEF MarkDid
<1>7. CountOK'
  <2>1. N(RefPcs)' = N(RefPcs) /\ N(PinPcs)' = N(PinPcs)
    BY <1>1, SameNumbers
  <2>2. bli'.ref = N(RefPcs)'
    BY <1>0, <1>4, <2>1 DEF CountOK
  <2>3. buf'.pin = N(PinPcs)'
    BY <1>0, <1>3, <2>1 DEF CountOK
  <2>4. bli'.there <=> bli'.ref > 0 \/ bli'.lsn # 0
    BY <1>0, <1>4 DEF CountOK
  <2>5. ~oops'
    BY <1>0, <1>3 DEF CountOK
  <2> QED BY <1>0, <2>2, <2>3, <2>4, <2>5 DEF CountOK
<1>8. LockOK'
  BY <1>0, <1>1, <1>3 DEF LockOK, Owner, Staler, Live
<1>9. TxOK'
  BY <1>0, <1>1, <1>3 DEF TxOK
<1>10. OrderOK'
  BY <1>0, <1>1, <1>4 DEF OrderOK, Staler, Live
<1>11. FlagsOK'
  BY <1>0, <1>1, <1>4, <1>5 DEF FlagsOK
<1>12. StaleOK'
  BY <1>0, <1>1, <1>3, <1>4, <1>5, <1>6 DEF StaleOK, Staler, Live
<1>13. QueueOK'
  BY <1>0, <1>3, <1>4, <1>5 DEF QueueOK
<1> QED BY <1>7, <1>8, <1>9, <1>10, <1>11, <1>12, <1>13 DEF Rest

LEMMA DropKeeps == ASSUME BufCorrect, NEW t \in Txs, DropDid(t) PROVE Rest'
<1>0. /\ buf \in Buffer /\ bli \in Item /\ tx \in [Txs -> Tx] /\ buf' \in Buffer /\ bli' \in Item
      /\ CountOK /\ LockOK /\ TxOK /\ OrderOK /\ FlagsOK /\ StaleOK /\ QueueOK
      /\ IsFiniteSet(Txs) /\ Len(log) \in Nat /\ N(RefPcs) \in Nat /\ N(PinPcs) \in Nat /\ Balance(S', N({"wait"})')
  BY KeptParts DEF DropDid
<1>1. /\ tx' \in [Txs -> Tx] /\ tx'[t] \in Tx /\ tx[t] \in Tx /\ \A u \in Txs \ {t} : tx'[u] = tx[u]
  BY <1>0 DEF DropDid, Only
<1>2. /\ tx[t].pc = "in" /\ tx'[t].pc = "done" /\ tx'[t].alloc = tx[t].alloc /\ tx'[t].dirty = tx[t].dirty
      /\ tx'[t].stale = tx[t].stale /\ tx'[t].lsn = tx[t].lsn /\ tx'[t].freed = tx[t].freed
  BY <1>0, <1>1 DEF DropDid, Tx
<1>3. kind' = kind /\ io' = io /\ push' = push /\ oops' = oops /\ Len(log') = Len(log)
  BY <1>0 DEF DropDid, Quiet
<1>4. bli.there
  BY <1>2, HasItem DEF RefPcs
<1>5. /\ bli'.map = bli.map /\ bli'.lsn = bli.lsn /\ (bli.map # {} => bli'.there /\ bli'.ref = bli.ref - 1)
      /\ (bli.map = {} => bli' = NoItem /\ ~bli'.there /\ bli'.ref = 0)
      /\ "STALE" \notin bli'.flags /\ "LOGGED" \notin bli'.flags /\ ("DIRTY" \in bli'.flags <=> "DIRTY" \in bli.flags)
      /\ "STALE" \notin bli.flags /\ "LOGGED" \notin bli.flags
  <2>0. "STALE" \notin bli.flags /\ "LOGGED" \notin bli.flags
    BY DEF DropDid
  <2>1. CASE bli.map = {} /\ bli' = NoItem
    <3>1. bli.lsn = 0 /\ "DIRTY" \notin bli.flags
      BY <1>0, <1>4, <2>0, <2>1 DEF FlagsOK
    <3>2. bli'.map = {} /\ bli'.lsn = 0 /\ bli'.there = FALSE /\ bli'.ref = 0 /\ bli'.flags = {}
      BY <2>1 DEF NoItem
    <3> QED BY <2>0, <2>1, <3>1, <3>2
  <2>2. CASE bli.map # {} /\ bli' = [bli EXCEPT !.flags = @ \ {"HOLD"}, !.ref = @ - 1]
    <3>1. bli'.map = bli.map /\ bli'.lsn = bli.lsn /\ bli'.there = bli.there /\ bli'.ref = bli.ref - 1
          /\ bli'.flags = bli.flags \ {"HOLD"}
      BY <1>0, <2>2 DEF Item
    <3> QED BY <1>4, <2>0, <2>2, <3>1
  <2> QED BY <2>1, <2>2 DEF DropDid
<1>6. ~tx[t].dirty
  BY <1>0 DEF DropDid
<1>7. /\ buf'.lock = IF tx'[t].held THEN buf.lock ELSE "free"
      /\ buf'.delwri = buf.delwri /\ (tx'[t].held => buf'.queued = buf.queued) /\ (~tx'[t].held => buf'.queued = buf.delwri)
      /\ (buf'.stale => buf.stale) /\ (buf'.ino => buf.ino /\ buf'.iodone = buf.iodone)
      /\ (bli.map # {} => buf'.iodone = buf.iodone /\ buf'.ino = buf.ino)
      /\ buf'.pin = buf.pin \/ (buf'.pin = 0 /\ bli.map = {})
  <2> DEFINE b == [buf EXCEPT !.iodone = @ /\ buf.ino]
  <2>0. b \in Buffer /\ b.lock = buf.lock /\ b.delwri = buf.delwri /\ b.queued = buf.queued /\ b.stale = buf.stale
        /\ b.ino = buf.ino /\ (b.ino => b.iodone = buf.iodone) /\ b.pin = buf.pin
    <3>1. PICK x \in BOOLEAN : x = (buf.iodone /\ buf.ino)
      OBVIOUS
    <3>2. b = [buf EXCEPT !.iodone = x]
      BY <3>1
    <3>3. b \in Buffer /\ b.iodone = x
      BY <1>0, <3>2 DEF Buffer
    <3>4. /\ b.ino = buf.ino /\ b.lock = buf.lock /\ b.delwri = buf.delwri
          /\ b.queued = buf.queued /\ b.stale = buf.stale /\ b.pin = buf.pin
      BY <1>0, <3>2 DEF Buffer
    <3>5. buf.ino => x = buf.iodone
      BY <1>0, <3>1 DEF Buffer
    <3> QED BY <3>3, <3>4, <3>5
  <2> HIDE DEF b
  <2>1. CASE bli.map = {} /\ ~tx'[t].held
    <3>1. Relsed(b)
      BY <2>1 DEF DropDid, b
    <3> QED BY <1>0, <2>0, <2>1, <3>1, RelsedFields
  <2>2. CASE bli.map = {} /\ tx'[t].held
    <3>1. buf' = [b EXCEPT !.hold = buf'.hold]
      BY <1>0, <2>2 DEF DropDid, b, Buffer
    <3> QED BY <1>0, <2>0, <2>2, <3>1 DEF Buffer
  <2>3. CASE bli.map # {} /\ ~tx'[t].held
    <3>1. Relsed(buf) /\ bli'.there
      BY <1>5, <2>3 DEF DropDid
    <3> QED BY <1>0, <2>3, <3>1, RelsedFields
  <2>4. CASE bli.map # {} /\ tx'[t].held
    BY <2>4 DEF DropDid
  <2> QED BY <2>1, <2>2, <2>3, <2>4
<1>8. CountOK'
  <2>1. N(RefPcs)' = N(RefPcs) - 1 /\ N(PinPcs)' = N(PinPcs)
    <3>1. One(tx[t].pc \in RefPcs) = 1 /\ One(tx'[t].pc \in RefPcs) = 0
          /\ One(tx[t].pc \in PinPcs) = 0 /\ One(tx'[t].pc \in PinPcs) = 0
      BY <1>2 DEF One, RefPcs, PinPcs
    <3>2. Only(t)
      BY <1>1 DEF Only
    <3> QED BY <1>0, <3>1, <3>2, Numbers
  <2>2. bli'.ref = N(RefPcs)'
    <3>1. CASE bli.map # {}
      BY <3>1, <1>0, <1>5, <2>1 DEF CountOK
    <3>2. CASE bli.map = {}
      <4>1. \A w \in Txs \ {t} : tx[w].pc \notin RefPcs
        BY <3>2, <1>0, <1>2, <1>4, <1>5, InOwns DEF FlagsOK
      <4>2. tx[t].pc \in RefPcs
        BY <1>2 DEF RefPcs
      <4>3. N(RefPcs) = 1
        BY <1>0, <4>1, <4>2, NumberIsOne
      <4> QED BY <4>3, <3>2, <1>5, <2>1
    <3> QED BY <3>1, <3>2
  <2>3. buf'.pin = N(PinPcs)'
    <3>1. CASE buf'.pin = buf.pin
      BY <3>1, <1>0, <2>1 DEF CountOK
    <3>2. CASE buf'.pin = 0 /\ bli.map = {}
      <4>1. bli.lsn = 0 /\ \A w \in Txs : tx[w].pc \in RefPcs => tx[w].pc = "in"
        BY <3>2, <1>0, <1>4, <1>5 DEF FlagsOK
      <4>2. \A w \in Txs : tx[w].pc \notin PinPcs
        BY <1>0, <4>1 DEF OrderOK, RefPcs, PinPcs
      <4>3. N(PinPcs) = 0
        BY <4>2, NoneIn
      <4> QED BY <4>3, <3>2, <2>1
    <3> QED BY <3>1, <3>2, <1>7
  <2>4. bli'.there <=> bli'.ref > 0 \/ bli'.lsn # 0
    <3>1. CASE bli.map = {}
      <4>1. bli.lsn = 0
        BY <3>1, <1>0, <1>4, <1>5 DEF FlagsOK
      <4> QED BY <4>1, <3>1, <1>5
    <3>2. CASE bli.map # {} /\ bli.lsn # 0
      BY <3>2, <1>5
    <3>3. CASE bli.map # {} /\ bli.lsn = 0
      <4>1. PICK w \in Txs : tx[w].pc \in {"in", "logged", "committed"} /\ tx[w].dirty
        BY <3>3, <1>0 DEF FlagsOK
      <4>2. tx'[w] = tx[w]
        BY <4>1, <1>1, <1>6
      <4>3. N(RefPcs)' > 0
        BY <4>1, <4>2, <1>0, SomeIn DEF RefPcs
      <4> QED BY <4>3, <2>2, <3>3, <1>5
    <3> QED BY <3>1, <3>2, <3>3
  <2>5. ~oops'
    BY <1>0, <1>3 DEF CountOK
  <2> QED BY <1>0, <2>2, <2>3, <2>4, <2>5 DEF CountOK
<1>9. LockOK'
  BY <1>0, <1>1, <1>2, <1>3, <1>7 DEF LockOK, Owner, Staler, Live
<1>10. TxOK'
  BY <1>0, <1>1, <1>2, <1>3, <1>6 DEF TxOK, PinPcs
<1>11. OrderOK'
  BY <1>0, <1>1, <1>2, <1>5 DEF OrderOK, Staler, Live
<1>12. FlagsOK'
  BY <1>0, <1>1, <1>2, <1>5 DEF FlagsOK
<1>13. StaleOK'
  BY <1>0, <1>1, <1>2, <1>4, <1>5, <1>7 DEF StaleOK, Staler, Live
<1>14. QueueOK'
  <2>1. (buf.queued => buf.delwri)'
    BY <1>0, <1>1, <1>2, <1>3, <1>4, <1>5, <1>6, <1>7 DEF QueueOK
  <2>2. (buf.ino => kind = "inode")'
    BY <1>0, <1>3, <1>7 DEF QueueOK
  <2>3. ((bli.map # {} \/ buf.ino) /\ "STALE" \notin bli.flags =>
          buf.iodone /\ (buf.lock # "io" => buf.delwri) /\ (buf.lock = "free" => buf.queued))'
    <3> SUFFICES ASSUME (bli'.map # {} \/ buf'.ino), "STALE" \notin bli'.flags
                 PROVE  buf'.iodone /\ (buf'.lock # "io" => buf'.delwri) /\ (buf'.lock = "free" => buf'.queued)
      OBVIOUS
    <3>1. buf.lock = "tx" /\ "STALE" \notin bli.flags
      BY <1>0, <1>2, <1>5 DEF LockOK, Owner
    <3>2. buf.iodone /\ buf.delwri
      BY <1>0, <1>5, <1>7, <3>1 DEF QueueOK
    <3>3. buf'.iodone /\ buf'.delwri
      BY <1>0, <1>1, <1>2, <1>3, <1>4, <1>5, <1>6, <1>7, <3>2
    <3>4. buf'.lock = "free" => buf'.queued
      BY <1>0, <1>1, <1>2, <1>3, <1>4, <1>5, <1>6, <1>7, <3>1, <3>2
    <3> QED BY <3>3, <3>4
  <2> QED BY <2>1, <2>2, <2>3 DEF QueueOK
<1> QED BY <1>8, <1>9, <1>10, <1>11, <1>12, <1>13, <1>14 DEF Rest

LEMMA RelseKeeps == ASSUME BufCorrect, NEW t \in Txs, RelseDid(t) PROVE Rest'
<1>0. /\ buf \in Buffer /\ bli \in Item /\ tx \in [Txs -> Tx] /\ buf' \in Buffer /\ bli' \in Item
      /\ CountOK /\ LockOK /\ TxOK /\ OrderOK /\ FlagsOK /\ StaleOK /\ QueueOK
      /\ IsFiniteSet(Txs) /\ Len(log) \in Nat /\ N(RefPcs) \in Nat /\ N(PinPcs) \in Nat /\ Balance(S', N({"wait"})')
  BY KeptParts DEF RelseDid
<1>1. /\ tx' \in [Txs -> Tx] /\ tx'[t] \in Tx /\ tx[t] \in Tx /\ \A u \in Txs \ {t} : tx'[u] = tx[u]
  BY <1>0 DEF RelseDid, Only
<1>2. /\ tx'[t].pc = tx[t].pc /\ tx'[t].alloc = tx[t].alloc /\ tx'[t].dirty = tx[t].dirty /\ tx'[t].stale = tx[t].stale
      /\ tx'[t].held = FALSE /\ tx'[t].lsn = tx[t].lsn /\ tx'[t].freed = tx[t].freed
  BY <1>0, <1>1 DEF RelseDid, Tx
<1>3. kind' = kind /\ io' = io /\ push' = push /\ oops' = oops /\ Len(log') = Len(log)
  BY <1>0 DEF RelseDid, Quiet
<1>4. bli' = bli /\ tx[t].held
  BY <1>0 DEF RelseDid
<1>5. /\ buf'.lock = "free" /\ buf'.queued = buf.delwri /\ buf'.delwri = buf.delwri
      /\ buf'.stale => buf.stale
      /\ buf'.ino => buf.ino /\ buf'.iodone = buf.iodone
      /\ bli'.there => buf'.pin = buf.pin /\ buf'.stale = buf.stale /\ buf'.iodone = buf.iodone /\ buf'.ino = buf.ino
      /\ buf'.pin = buf.pin \/ (buf'.pin = 0 /\ ~bli'.there)
  BY <1>0, RelsedFields DEF RelseDid
<1>6. CountOK'
  <2>1. N(RefPcs)' = N(RefPcs) /\ N(PinPcs)' = N(PinPcs)
    <3>1. /\ {w \in Txs : tx'[w].pc \in RefPcs} = {w \in Txs : tx[w].pc \in RefPcs}
          /\ {w \in Txs : tx'[w].pc \in PinPcs} = {w \in Txs : tx[w].pc \in PinPcs}
      BY <1>1, <1>2
    <3> QED BY <3>1 DEF N
  <2>2. bli'.ref = N(RefPcs)'
    BY <1>0, <1>4, <2>1 DEF CountOK
  <2>3. buf'.pin = N(PinPcs)'
    <3>1. CASE buf'.pin = buf.pin
      BY <3>1, <1>0, <2>1 DEF CountOK
    <3>2. CASE buf'.pin = 0 /\ ~bli'.there
      <4>1. ~bli.there
        BY <3>2, <1>4
      <4>2. N(PinPcs) = 0
        BY <4>1, NoItemNoPin, NoneIn
      <4> QED BY <4>2, <3>2, <2>1
    <3> QED BY <3>1, <3>2, <1>5
  <2>4. bli'.there <=> bli'.ref > 0 \/ bli'.lsn # 0
    BY <1>0, <1>4 DEF CountOK
  <2>5. ~oops'
    BY <1>0, <1>3 DEF CountOK
  <2> QED BY <1>0, <2>2, <2>3, <2>4, <2>5 DEF CountOK
<1>7. LockOK'
  <2>1. (\A w \in Txs : Owner(w) => buf.lock = "tx")'
    <3> SUFFICES ASSUME NEW w \in Txs PROVE ~Owner(w)'
      OBVIOUS
    <3>1. CASE w = t
      BY <1>0, <1>2, <1>4, <3>1 DEF TxOK, Owner, Staler
    <3>2. CASE w # t
      BY <1>1, <1>4, <3>2, InOwns DEF Owner, Staler, Live
    <3> QED BY <3>1, <3>2
  <2>2. (\A v, w \in Txs : Owner(v) /\ Owner(w) => v = w)'
    BY <1>0, <1>1, <1>2 DEF LockOK, Owner, Staler, Live
  <2>3. (push = "locked" => buf.lock = "push" /\ bli.lsn # 0)'
    BY <1>0, <1>3, <1>4 DEF LockOK, Owner
  <2>4. (io # "none" => buf.lock = "io")'
    BY <1>0, <1>3, <1>4 DEF LockOK, Owner
  <2>5. (io = "flight" => \A w \in Txs : tx[w].pc \notin PinPcs)'
    BY <1>0, <1>1, <1>2, <1>3 DEF LockOK
  <2> QED BY <2>1, <2>2, <2>3, <2>4, <2>5 DEF LockOK
<1>8. TxOK'
  BY <1>0, <1>1, <1>2, <1>3 DEF TxOK
<1>9. OrderOK'
  BY <1>0, <1>1, <1>2, <1>4 DEF OrderOK, Staler, Live
<1>10. FlagsOK'
  BY <1>0, <1>1, <1>2, <1>4 DEF FlagsOK
<1>11. StaleOK'
  <2>1. ("STALE" \in bli.flags => \E w \in Txs : Staler(w))'
    BY <1>0, <1>1, <1>2, <1>4 DEF StaleOK, Staler, Live
  <2>2. ("STALE" \in bli.flags => buf.stale /\ ~buf.delwri /\ ~buf.queued /\ "HOLD" \notin bli.flags /\ bli.map = {})'
    <3>1. "STALE" \notin bli.flags
      BY <1>0, <1>4, InOwns DEF TxOK, Staler
    <3> QED BY <3>1, <1>4
  <2>3. ("STALE" \in bli.flags /\ buf.ino => "STALE_INODE" \in bli.flags)'
    BY <1>0, <1>4, <1>5 DEF StaleOK
  <2>4. (\A w \in Txs : Staler(w) => "STALE" \in bli.flags)'
    BY <1>0, <1>1, <1>2, <1>4 DEF StaleOK, Staler, Live
  <2>5. (buf.stale /\ "STALE" \notin bli.flags =>
          buf.lock = "free" /\ ~bli.there /\ ~buf.ino /\ ~buf.delwri /\ ~buf.queued)'
    BY <1>0, <1>4, <1>5 DEF StaleOK
  <2> QED BY <2>1, <2>2, <2>3, <2>4, <2>5 DEF StaleOK
<1>12. QueueOK'
  <2>1. (buf.queued => buf.delwri)'
    BY <1>5
  <2>2. (buf.ino => kind = "inode")'
    BY <1>0, <1>3, <1>5 DEF QueueOK
  <2>3. ((bli.map # {} \/ buf.ino) /\ "STALE" \notin bli.flags =>
          buf.iodone /\ (buf.lock # "io" => buf.delwri) /\ (buf.lock = "free" => buf.queued))'
    <3> SUFFICES ASSUME (bli'.map # {} \/ buf'.ino), "STALE" \notin bli'.flags
                 PROVE  buf'.iodone /\ (buf'.lock # "io" => buf'.delwri) /\ (buf'.lock = "free" => buf'.queued)
      OBVIOUS
    <3>1. buf.lock = "tx" /\ "STALE" \notin bli.flags
      BY <1>4, InOwns
    <3>2. buf.iodone /\ buf.delwri
      BY <1>0, <1>4, <1>5, <3>1 DEF QueueOK
    <3>3. buf'.iodone /\ buf'.delwri
      <4>1. bli'.there \/ buf'.ino
        BY <1>0, <1>4 DEF FlagsOK, NoItem
      <4>2. buf'.iodone
        BY <1>4, <1>5, <3>2, <4>1
      <4> QED BY <1>5, <3>2, <4>2
    <3>4. buf'.lock = "free" => buf'.queued
      BY <1>5, <3>2
    <3> QED BY <3>3, <3>4
  <2> QED BY <2>1, <2>2, <2>3 DEF QueueOK
<1> QED BY <1>6, <1>7, <1>8, <1>9, <1>10, <1>11, <1>12 DEF Rest

LEMMA LogBufKeeps == ASSUME BufCorrect, NEW t \in Txs, LogBufDid(t) PROVE Rest'
<1>0. /\ buf \in Buffer /\ bli \in Item /\ tx \in [Txs -> Tx] /\ buf' \in Buffer /\ bli' \in Item
      /\ CountOK /\ LockOK /\ TxOK /\ OrderOK /\ FlagsOK /\ StaleOK /\ QueueOK
      /\ IsFiniteSet(Txs) /\ Len(log) \in Nat /\ N(RefPcs) \in Nat /\ N(PinPcs) \in Nat /\ Balance(S', N({"wait"})')
  BY KeptParts DEF LogBufDid
<1>1. /\ tx' \in [Txs -> Tx] /\ tx'[t] \in Tx /\ tx[t] \in Tx /\ \A u \in Txs \ {t} : tx'[u] = tx[u]
  BY <1>0 DEF LogBufDid, Only
<1>2. /\ tx[t].pc = "in" /\ tx'[t].pc = "in" /\ tx'[t].alloc = tx[t].alloc /\ tx'[t].dirty = TRUE
      /\ tx'[t].stale = FALSE /\ tx'[t].held = tx[t].held /\ tx'[t].lsn = tx[t].lsn /\ tx'[t].freed = tx[t].freed
  BY <1>0, <1>1 DEF LogBufDid, Tx
<1>3. kind' = kind /\ io' = io /\ push' = push /\ oops' = oops /\ Len(log') = Len(log)
  BY <1>0 DEF LogBufDid, Quiet
<1>4. /\ buf'.lock = buf.lock /\ buf'.pin = buf.pin /\ buf'.delwri = TRUE /\ buf'.queued = buf.queued
      /\ buf'.stale = FALSE /\ buf'.iodone = TRUE /\ buf'.ino = buf.ino
  BY <1>0 DEF LogBufDid
<1>5. bli'.there = bli.there /\ bli'.ref = bli.ref /\ bli'.lsn = bli.lsn /\ bli.there
  BY <1>0, <1>1, <1>2, HasItem DEF LogBufDid, Item, RefPcs
<1>6. bli'.map # {} /\ "LOGGED" \in bli'.flags /\ "DIRTY" \in bli'.flags /\ "STALE" \notin bli'.flags
  BY <1>0 DEF LogBufDid
<1>7. CountOK'
  <2>1. N(RefPcs)' = N(RefPcs) /\ N(PinPcs)' = N(PinPcs)
    <3>1. One(tx[t].pc \in RefPcs) = 1 /\ One(tx'[t].pc \in RefPcs) = 1
          /\ One(tx[t].pc \in PinPcs) = 0 /\ One(tx'[t].pc \in PinPcs) = 0
      BY <1>2 DEF One, RefPcs, PinPcs
    <3>2. Only(t)
      BY <1>1 DEF Only
    <3> QED BY <1>0, <3>1, <3>2, Numbers
  <2>2. bli'.ref = N(RefPcs)'
    BY <1>0, <1>5, <2>1 DEF CountOK
  <2>3. buf'.pin = N(PinPcs)'
    BY <1>0, <1>4, <2>1 DEF CountOK
  <2>4. bli'.there <=> bli'.ref > 0 \/ bli'.lsn # 0
    BY <1>0, <1>5 DEF CountOK
  <2>5. ~oops'
    BY <1>0, <1>3 DEF CountOK
  <2> QED BY <1>0, <2>2, <2>3, <2>4, <2>5 DEF CountOK
<1>8. LockOK'
  BY <1>0, <1>1, <1>2, <1>3, <1>4 DEF LockOK, Owner, Staler, Live
<1>9. TxOK'
  BY <1>0, <1>1, <1>2, <1>3 DEF TxOK
<1>10. OrderOK'
  BY <1>0, <1>1, <1>2, <1>5 DEF OrderOK, Staler, Live
<1>11. FlagsOK'
  BY <1>2, <1>5, <1>6 DEF FlagsOK
<1>12. StaleOK'
  <2>1. ("STALE" \in bli.flags => \E w \in Txs : Staler(w))'
    BY <1>6
  <2>2. ("STALE" \in bli.flags => buf.stale /\ ~buf.delwri /\ ~buf.queued /\ "HOLD" \notin bli.flags /\ bli.map = {})'
    BY <1>6
  <2>3. ("STALE" \in bli.flags /\ buf.ino => "STALE_INODE" \in bli.flags)'
    BY <1>6
  <2>4. (\A w \in Txs : Staler(w) => "STALE" \in bli.flags)'
    <3> SUFFICES ASSUME NEW w \in Txs PROVE ~Staler(w)'
      OBVIOUS
    <3>1. CASE w = t
      BY <1>2, <3>1 DEF Staler
    <3>2. CASE w # t
      BY <1>1, <1>2, InOwns DEF Staler, Live
    <3> QED BY <3>1, <3>2
  <2>5. (buf.stale /\ "STALE" \notin bli.flags =>
          buf.lock = "free" /\ ~bli.there /\ ~buf.ino /\ ~buf.delwri /\ ~buf.queued)'
    BY <1>4
  <2> QED BY <2>1, <2>2, <2>3, <2>4, <2>5 DEF StaleOK
<1>13. QueueOK'
  <2>1. (buf.queued => buf.delwri)'
    BY <1>4
  <2>2. (buf.ino => kind = "inode")'
    BY <1>0, <1>3, <1>4 DEF QueueOK
  <2>3. ((bli.map # {} \/ buf.ino) /\ "STALE" \notin bli.flags =>
          buf.iodone /\ (buf.lock # "io" => buf.delwri) /\ (buf.lock = "free" => buf.queued))'
    <3>1. buf.lock = "tx"
      BY <1>2, InOwns
    <3> QED BY <1>4, <3>1
  <2> QED BY <2>1, <2>2, <2>3 DEF QueueOK
<1> QED BY <1>7, <1>8, <1>9, <1>10, <1>11, <1>12, <1>13 DEF Rest

LEMMA BinvalKeeps == ASSUME BufCorrect, NEW t \in Txs, BinvalDid(t) PROVE Rest'
<1>0. /\ buf \in Buffer /\ bli \in Item /\ tx \in [Txs -> Tx] /\ buf' \in Buffer /\ bli' \in Item
      /\ CountOK /\ LockOK /\ TxOK /\ OrderOK /\ FlagsOK /\ StaleOK /\ QueueOK
      /\ IsFiniteSet(Txs) /\ Len(log) \in Nat /\ N(RefPcs) \in Nat /\ N(PinPcs) \in Nat /\ Balance(S', N({"wait"})')
  BY KeptParts DEF BinvalDid
<1>1. /\ tx' \in [Txs -> Tx] /\ tx'[t] \in Tx /\ tx[t] \in Tx /\ \A u \in Txs \ {t} : tx'[u] = tx[u]
  BY <1>0 DEF BinvalDid, Only
<1>2. /\ tx[t].pc = "in" /\ tx'[t].pc = "in" /\ tx'[t].alloc = tx[t].alloc /\ tx'[t].dirty = TRUE
      /\ tx'[t].stale = TRUE /\ tx'[t].held = tx[t].held /\ tx'[t].lsn = tx[t].lsn /\ tx'[t].freed = tx[t].freed
  BY <1>0, <1>1 DEF BinvalDid, Tx
<1>3. kind' = kind /\ io' = io /\ push' = push /\ oops' = oops /\ Len(log') = Len(log)
  BY <1>0 DEF BinvalDid, Quiet
<1>4. /\ buf'.lock = buf.lock /\ buf'.pin = buf.pin /\ buf'.delwri = FALSE /\ buf'.queued = FALSE
      /\ buf'.stale = TRUE /\ buf'.iodone = buf.iodone /\ buf'.ino = buf.ino
  BY <1>0, <1>1, <1>2 DEF BinvalDid, Buffer
<1>5. bli'.there = bli.there /\ bli'.ref = bli.ref /\ bli'.map = {} /\ bli'.lsn = bli.lsn /\ bli.there
  BY <1>0, <1>1, <1>2, HasItem DEF BinvalDid, Item, RefPcs
<1>6. /\ "LOGGED" \notin bli'.flags /\ "DIRTY" \notin bli'.flags /\ "HOLD" \notin bli'.flags /\ "STALE" \in bli'.flags
      /\ "STALE" \notin bli.flags /\ (buf.ino => "STALE_INODE" \in bli'.flags)
  BY <1>0 DEF BinvalDid
<1>7. CountOK'
  <2>1. N(RefPcs)' = N(RefPcs) /\ N(PinPcs)' = N(PinPcs)
    <3>1. One(tx[t].pc \in RefPcs) = 1 /\ One(tx'[t].pc \in RefPcs) = 1
          /\ One(tx[t].pc \in PinPcs) = 0 /\ One(tx'[t].pc \in PinPcs) = 0
      BY <1>2 DEF One, RefPcs, PinPcs
    <3>2. Only(t)
      BY <1>1 DEF Only
    <3> QED BY <1>0, <3>1, <3>2, Numbers
  <2>2. bli'.ref = N(RefPcs)'
    BY <1>0, <1>5, <2>1 DEF CountOK
  <2>3. buf'.pin = N(PinPcs)'
    BY <1>0, <1>4, <2>1 DEF CountOK
  <2>4. bli'.there <=> bli'.ref > 0 \/ bli'.lsn # 0
    BY <1>0, <1>5 DEF CountOK
  <2>5. ~oops'
    BY <1>0, <1>3 DEF CountOK
  <2> QED BY <1>0, <2>2, <2>3, <2>4, <2>5 DEF CountOK
<1>8. LockOK'
  BY <1>0, <1>1, <1>2, <1>3, <1>4 DEF LockOK, Owner, Staler, Live
<1>9. TxOK'
  BY <1>0, <1>1, <1>2, <1>3 DEF TxOK
<1>10. OrderOK'
  BY <1>0, <1>1, <1>2, <1>5 DEF OrderOK, Staler, Live
<1>11. FlagsOK'
  <2>1. (~bli.there => bli = NoItem)'
    BY <1>5
  <2>2. ("DIRTY" \in bli.flags <=> bli.map # {})'
    BY <1>5, <1>6
  <2>3. ("LOGGED" \in bli.flags =>
          bli.map # {} /\ \E w \in Txs : tx[w].pc \in {"in", "logged"} /\ tx[w].dirty /\ ~tx[w].stale)'
    BY <1>6
  <2>4. (\A w \in Txs : tx[w].pc \in {"in", "logged"} /\ tx[w].dirty /\ ~tx[w].stale => "LOGGED" \in bli.flags)'
    <3> SUFFICES ASSUME NEW w \in Txs, (tx[w].pc \in {"in", "logged"} /\ tx[w].dirty /\ ~tx[w].stale)'
                 PROVE ("LOGGED" \in bli.flags)'
      OBVIOUS
    <3>1. w # t
      BY <1>2
    <3>2. tx'[w] = tx[w]
      BY <1>1, <3>1
    <3>3. FALSE
      BY <1>2, <3>2, InOwns
    <3> QED BY <3>3
  <2>5. (bli.there /\ bli.map = {} /\ "STALE" \notin bli.flags =>
          bli.lsn = 0 /\ \A w \in Txs : tx[w].pc \in RefPcs => tx[w].pc = "in")'
    BY <1>6
  <2>6. (bli.map # {} =>
          bli.lsn # 0 \/ \E w \in Txs : tx[w].pc \in {"in", "logged", "committed"} /\ tx[w].dirty /\ ~tx[w].stale)'
    BY <1>5
  <2> QED BY <2>1, <2>2, <2>3, <2>4, <2>5, <2>6 DEF FlagsOK
<1>12. StaleOK'
  BY <1>2, <1>4, <1>5, <1>6 DEF StaleOK, Staler, Live
<1>13. QueueOK'
  BY <1>0, <1>3, <1>4, <1>6 DEF QueueOK
<1> QED BY <1>7, <1>8, <1>9, <1>10, <1>11, <1>12, <1>13 DEF Rest

LEMMA CommitKeeps == ASSUME BufCorrect, NEW t \in Txs, CommitDid(t) PROVE Rest'
<1>0. /\ buf \in Buffer /\ bli \in Item /\ tx \in [Txs -> Tx] /\ buf' \in Buffer /\ bli' \in Item
      /\ CountOK /\ LockOK /\ TxOK /\ OrderOK /\ FlagsOK /\ StaleOK /\ QueueOK
      /\ IsFiniteSet(Txs) /\ Len(log) \in Nat /\ N(RefPcs) \in Nat /\ N(PinPcs) \in Nat /\ Balance(S', N({"wait"})')
  BY KeptParts DEF CommitDid
<1>1. /\ tx' \in [Txs -> Tx] /\ tx'[t] \in Tx /\ tx[t] \in Tx /\ \A u \in Txs \ {t} : tx'[u] = tx[u]
  BY <1>0 DEF CommitDid, Only
<1>2. /\ tx[t].pc = "in" /\ tx'[t].pc = "logged" /\ tx'[t].alloc = tx[t].alloc /\ tx'[t].dirty = tx[t].dirty
      /\ tx'[t].stale = tx[t].stale /\ tx'[t].held = tx[t].held /\ tx'[t].lsn = Len(log) + 1 /\ tx'[t].freed = tx[t].freed
  BY <1>0, <1>1 DEF CommitDid, Tx
<1>3. kind' = kind /\ io' = io /\ push' = push /\ oops' = oops /\ bli' = bli /\ Len(log') = Len(log) + 1 /\ tx[t].dirty
  BY <1>0 DEF CommitDid
<1>4. /\ buf'.lock = buf.lock /\ buf'.pin = buf.pin + 1 /\ buf'.delwri = buf.delwri /\ buf'.queued = buf.queued
      /\ buf'.stale = buf.stale /\ buf'.iodone = buf.iodone /\ buf'.ino = buf.ino
  BY <1>0 DEF CommitDid
<1>5. CountOK'
  <2>1. N(RefPcs)' = N(RefPcs) /\ N(PinPcs)' = N(PinPcs) + 1
    <3>1. One(tx[t].pc \in RefPcs) = 1 /\ One(tx'[t].pc \in RefPcs) = 1
          /\ One(tx[t].pc \in PinPcs) = 0 /\ One(tx'[t].pc \in PinPcs) = 1
      BY <1>2 DEF One, RefPcs, PinPcs
    <3>2. Only(t)
      BY <1>1 DEF Only
    <3> QED BY <1>0, <3>1, <3>2, Numbers
  <2>2. bli'.ref = N(RefPcs)'
    BY <1>0, <1>3, <2>1 DEF CountOK
  <2>3. buf'.pin = N(PinPcs)'
    BY <1>0, <1>4, <2>1 DEF CountOK
  <2>4. bli'.there <=> bli'.ref > 0 \/ bli'.lsn # 0
    BY <1>0, <1>3 DEF CountOK
  <2>5. ~oops'
    BY <1>0, <1>3 DEF CountOK
  <2> QED BY <1>0, <2>2, <2>3, <2>4, <2>5 DEF CountOK
<1>6. LockOK'
  BY <1>0, <1>1, <1>2, <1>3, <1>4 DEF LockOK, Owner, Staler, Live
<1>7. TxOK'
  <2>1. (\A w \in Txs : tx[w].held => tx[w].pc \in {"committed", "ail", "drop", "done"} /\ ~tx[w].stale)'
    BY <1>0, <1>1, <1>2 DEF TxOK
  <2>2. (\A w \in Txs : tx[w].pc \in {"idle", "wait"} => ~tx[w].stale /\ ~tx[w].dirty)'
    BY <1>0, <1>1, <1>2 DEF TxOK
  <2>3. (\A w \in Txs : tx[w].pc \in {"idle", "wait", "in"} => tx[w].lsn = 0)'
    BY <1>0, <1>1, <1>2 DEF TxOK
  <2>4. (\A w \in Txs : tx[w].pc \in PinPcs => tx[w].lsn > 0)'
    BY <1>0, <1>1, <1>2 DEF TxOK
  <2>5. (\A w \in Txs : tx[w].lsn <= Len(log))'
    <3> SUFFICES ASSUME NEW w \in Txs PROVE tx'[w].lsn <= Len(log')
      OBVIOUS
    <3>1. CASE w = t
      BY <1>2, <1>3, <3>1
    <3>2. CASE w # t
      <4>1. tx'[w] = tx[w] /\ tx[w].lsn \in Nat /\ tx[w].lsn <= Len(log)
        BY <1>0, <1>1, <3>2 DEF TxOK, Tx
      <4> QED BY <4>1, <1>0, <1>3
    <3> QED BY <3>1, <3>2
  <2>6. (\A w \in Txs : (tx[w].stale => tx[w].dirty) /\ (tx[w].pc = "logged" => tx[w].dirty))'
    BY <1>0, <1>1, <1>2, <1>3, <1>4 DEF TxOK, PinPcs
  <2> QED BY <2>1, <2>2, <2>3, <2>4, <2>5, <2>6 DEF TxOK
<1>8. OrderOK'
  <2>1. (\A w \in Txs : tx[w].pc \in {"ail", "drop"} =>
          bli.lsn # 0 /\ \A v \in Txs : tx[v].lsn \in 1 .. tx[w].lsn - 1 => tx[v].pc = "done")'
    <3> SUFFICES ASSUME NEW w \in Txs, tx'[w].pc \in {"ail", "drop"}
                 PROVE  bli'.lsn # 0 /\ \A v \in Txs : tx'[v].lsn \in 1 .. tx'[w].lsn - 1 => tx'[v].pc = "done"
      OBVIOUS
    <3>1. w # t /\ tx'[w] = tx[w]
      BY <1>1, <1>2
    <3>2. bli'.lsn # 0
      BY <1>0, <1>3, <3>1 DEF OrderOK
    <3>3. ASSUME NEW v \in Txs, tx'[v].lsn \in 1 .. tx'[w].lsn - 1 PROVE tx'[v].pc = "done"
      <4>1. tx[w].lsn \in Nat /\ tx[w].lsn <= Len(log)
        BY <1>0 DEF TxOK, Tx
      <4>2. CASE v = t
        BY <1>2, <3>1, <3>3, <4>1, <4>2
      <4>3. CASE v # t
        <5>1. tx'[v] = tx[v]
          BY <1>1, <4>3
        <5> QED BY <1>0, <3>1, <3>3, <5>1 DEF OrderOK
      <4> QED BY <4>2, <4>3
    <3> QED BY <3>2, <3>3
  <2>2. (\A w \in Txs : Staler(w) /\ tx[w].pc # "in" => \A v \in Txs \ {w} : tx[v].lsn < tx[w].lsn)'
    <3> SUFFICES ASSUME NEW w \in Txs, Staler(w)', tx'[w].pc # "in", NEW v \in Txs \ {w}
                 PROVE  tx'[v].lsn < tx'[w].lsn
      OBVIOUS
    <3>1. w = t
      <4>1. w # t => Staler(w)
        BY <1>1 DEF Staler, Live
      <4> QED BY <4>1, <1>2, InOwns
    <3>2. tx'[v] = tx[v] /\ tx[v].lsn \in Nat /\ tx[v].lsn <= Len(log)
      BY <1>0, <1>1, <3>1 DEF TxOK, Tx
    <3> QED BY <1>0, <1>2, <3>1, <3>2
  <2>3. (\A w \in Txs : tx[w].pc = "drop" /\ tx[w].stale => tx[w].freed)'
    BY <1>0, <1>1, <1>2 DEF OrderOK
  <2> QED BY <2>1, <2>2, <2>3 DEF OrderOK
<1>9. FlagsOK'
  <2>1. (~bli.there => bli = NoItem)'
    BY <1>0, <1>3 DEF FlagsOK
  <2>2. ("DIRTY" \in bli.flags <=> bli.map # {})'
    BY <1>0, <1>3 DEF FlagsOK
  <2>3. ("LOGGED" \in bli.flags =>
          bli.map # {} /\ \E w \in Txs : tx[w].pc \in {"in", "logged"} /\ tx[w].dirty /\ ~tx[w].stale)'
    BY <1>0, <1>1, <1>2, <1>3, <1>4 DEF FlagsOK, RefPcs, NoItem
  <2>4. (\A w \in Txs : tx[w].pc \in {"in", "logged"} /\ tx[w].dirty /\ ~tx[w].stale => "LOGGED" \in bli.flags)'
    BY <1>0, <1>1, <1>2, <1>3 DEF FlagsOK
  <2>5. (bli.there /\ bli.map = {} /\ "STALE" \notin bli.flags =>
          bli.lsn = 0 /\ \A w \in Txs : tx[w].pc \in RefPcs => tx[w].pc = "in")'
    <3>1. CASE tx[t].stale
      <4>1. Staler(t)
        BY <1>2, <3>1 DEF Staler, Live
      <4> QED BY <1>0, <1>3, <4>1 DEF StaleOK
    <3>2. CASE ~tx[t].stale
      <4>1. bli.map # {}
        BY <1>0, <1>2, <1>3, <3>2 DEF FlagsOK
      <4> QED BY <4>1, <1>3
    <3> QED BY <3>1, <3>2
  <2>6. (bli.map # {} =>
          bli.lsn # 0 \/ \E w \in Txs : tx[w].pc \in {"in", "logged", "committed"} /\ tx[w].dirty /\ ~tx[w].stale)'
    BY <1>0, <1>1, <1>2, <1>3, <1>4 DEF FlagsOK, RefPcs, NoItem
  <2> QED BY <2>1, <2>2, <2>3, <2>4, <2>5, <2>6 DEF FlagsOK
<1>10. StaleOK'
  BY <1>0, <1>1, <1>2, <1>3, <1>4 DEF StaleOK, Staler, Live
<1>11. QueueOK'
  BY <1>0, <1>3, <1>4 DEF QueueOK
<1> QED BY <1>5, <1>6, <1>7, <1>8, <1>9, <1>10, <1>11 DEF Rest

LEMMA UnlockItemsKeeps == ASSUME BufCorrect, NEW t \in Txs, UnlockItemsDid(t) PROVE Rest'
<1>0. /\ buf \in Buffer /\ bli \in Item /\ tx \in [Txs -> Tx] /\ buf' \in Buffer /\ bli' \in Item
      /\ CountOK /\ LockOK /\ TxOK /\ OrderOK /\ FlagsOK /\ StaleOK /\ QueueOK
      /\ IsFiniteSet(Txs) /\ Len(log) \in Nat /\ N(RefPcs) \in Nat /\ N(PinPcs) \in Nat /\ Balance(S', N({"wait"})')
  BY KeptParts DEF UnlockItemsDid
<1>1. /\ tx' \in [Txs -> Tx] /\ tx'[t] \in Tx /\ tx[t] \in Tx /\ \A u \in Txs \ {t} : tx'[u] = tx[u]
  BY <1>0 DEF UnlockItemsDid, Only
<1>2. /\ tx[t].pc = "logged" /\ tx'[t].pc = "committed" /\ tx'[t].alloc = tx[t].alloc /\ tx'[t].dirty = tx[t].dirty
      /\ tx'[t].stale = tx[t].stale /\ tx'[t].lsn = tx[t].lsn /\ tx'[t].freed = tx[t].freed
  BY <1>0, <1>1 DEF UnlockItemsDid, Tx
<1>3. kind' = kind /\ io' = io /\ push' = push /\ oops' = oops /\ Len(log') = Len(log)
  BY <1>0 DEF UnlockItemsDid, Quiet
<1>4. bli.there
  BY <1>2, HasItem DEF RefPcs
<1>5. bli'.there = bli.there /\ bli'.ref = bli.ref /\ bli'.map = bli.map /\ bli'.lsn = bli.lsn
  BY <1>0 DEF UnlockItemsDid, Item
<1>6. /\ ("STALE" \in bli'.flags <=> "STALE" \in bli.flags) /\ ("DIRTY" \in bli'.flags <=> "DIRTY" \in bli.flags)
      /\ ("STALE_INODE" \in bli'.flags <=> "STALE_INODE" \in bli.flags) /\ ("HOLD" \in bli'.flags => "HOLD" \in bli.flags)
      /\ (~tx[t].stale => "LOGGED" \notin bli'.flags /\ "STALE" \notin bli.flags /\ "LOGGED" \in bli.flags) /\ (tx[t].stale => bli' = bli)
  BY <1>0 DEF UnlockItemsDid, Item
<1>7. /\ buf'.delwri = buf.delwri /\ buf'.pin = buf.pin /\ buf'.stale = buf.stale /\ buf'.iodone = buf.iodone /\ buf'.ino = buf.ino
      /\ \/ buf' = buf /\ (tx[t].stale \/ tx'[t].held) /\ (tx[t].stale => ~tx'[t].held)
         \/ buf'.lock = "free" /\ buf'.queued = buf.delwri /\ ~tx[t].stale /\ ~tx'[t].held
  <2>1. CASE UNCHANGED buf
    BY <2>1, <1>0, RelsedFields DEF UnlockItemsDid
  <2>2. CASE Relsed(buf)
    <3>1. bli'.there
      BY <1>4, <1>5
    <3> QED BY <1>0, <3>1, RelsedFields DEF UnlockItemsDid
  <2> QED BY <2>1, <2>2 DEF UnlockItemsDid
<1>8. CountOK'
  <2>1. N(RefPcs)' = N(RefPcs) /\ N(PinPcs)' = N(PinPcs)
    <3>1. One(tx[t].pc \in RefPcs) = 1 /\ One(tx'[t].pc \in RefPcs) = 1
          /\ One(tx[t].pc \in PinPcs) = 1 /\ One(tx'[t].pc \in PinPcs) = 1
      BY <1>2 DEF One, RefPcs, PinPcs
    <3>2. Only(t)
      BY <1>1 DEF Only
    <3> QED BY <1>0, <3>1, <3>2, Numbers
  <2>2. bli'.ref = N(RefPcs)'
    BY <1>0, <1>5, <2>1 DEF CountOK
  <2>3. buf'.pin = N(PinPcs)'
    BY <1>0, <1>7, <2>1 DEF CountOK
  <2>4. bli'.there <=> bli'.ref > 0 \/ bli'.lsn # 0
    BY <1>0, <1>5 DEF CountOK
  <2>5. ~oops'
    BY <1>0, <1>3 DEF CountOK
  <2> QED BY <1>0, <2>2, <2>3, <2>4, <2>5 DEF CountOK
<1>9. LockOK'
  BY <1>0, <1>1, <1>2, <1>3, <1>7 DEF LockOK, Owner, Staler, Live
<1>10. TxOK'
  BY <1>0, <1>1, <1>2, <1>3, <1>7 DEF TxOK, PinPcs
<1>11. OrderOK'
  BY <1>0, <1>1, <1>2, <1>5 DEF OrderOK, Staler, Live
<1>12. FlagsOK'
  <2>1. (~bli.there => bli = NoItem)'
    BY <1>4, <1>5
  <2>2. ("DIRTY" \in bli.flags <=> bli.map # {})'
    BY <1>0, <1>5, <1>6 DEF FlagsOK
  <2>3. ("LOGGED" \in bli.flags =>
          bli.map # {} /\ \E w \in Txs : tx[w].pc \in {"in", "logged"} /\ tx[w].dirty /\ ~tx[w].stale)'
    BY <1>0, <1>1, <1>6 DEF FlagsOK
  <2>4. (\A w \in Txs : tx[w].pc \in {"in", "logged"} /\ tx[w].dirty /\ ~tx[w].stale => "LOGGED" \in bli.flags)'
    <3> SUFFICES ASSUME NEW w \in Txs, (tx[w].pc \in {"in", "logged"} /\ tx[w].dirty /\ ~tx[w].stale)'
                 PROVE ("LOGGED" \in bli.flags)'
      OBVIOUS
    <3>1. w # t
      BY <1>2
    <3>2. tx'[w] = tx[w]
      BY <1>1, <3>1
    <3>3. FALSE
      BY <1>2, <3>2, InOwns
    <3> QED BY <3>3
  <2>5. (bli.there /\ bli.map = {} /\ "STALE" \notin bli.flags =>
          bli.lsn = 0 /\ \A w \in Txs : tx[w].pc \in RefPcs => tx[w].pc = "in")'
    BY <1>0, <1>2, <1>5, <1>6 DEF FlagsOK, RefPcs
  <2>6. (bli.map # {} =>
          bli.lsn # 0 \/ \E w \in Txs : tx[w].pc \in {"in", "logged", "committed"} /\ tx[w].dirty /\ ~tx[w].stale)'
    BY <1>0, <1>1, <1>2, <1>5 DEF FlagsOK
  <2> QED BY <2>1, <2>2, <2>3, <2>4, <2>5, <2>6 DEF FlagsOK
<1>13. StaleOK'
  BY <1>0, <1>1, <1>2, <1>4, <1>6, <1>7 DEF StaleOK, Staler, Live
<1>14. QueueOK'
  <2>1. (buf.queued => buf.delwri)'
    BY <1>0, <1>1, <1>2, <1>3, <1>4, <1>5, <1>6, <1>7 DEF QueueOK
  <2>2. (buf.ino => kind = "inode")'
    BY <1>0, <1>3, <1>7 DEF QueueOK
  <2>3. ((bli.map # {} \/ buf.ino) /\ "STALE" \notin bli.flags =>
          buf.iodone /\ (buf.lock # "io" => buf.delwri) /\ (buf.lock = "free" => buf.queued))'
    <3> SUFFICES ASSUME (bli'.map # {} \/ buf'.ino), "STALE" \notin bli'.flags
                 PROVE  buf'.iodone /\ (buf'.lock # "io" => buf'.delwri) /\ (buf'.lock = "free" => buf'.queued)
      OBVIOUS
    <3>1. buf.lock = "tx" /\ "STALE" \notin bli.flags
      BY <1>2, <1>6, InOwns
    <3>2. buf.iodone /\ buf.delwri
      BY <1>0, <1>5, <1>7, <3>1 DEF QueueOK
    <3>3. buf'.iodone /\ buf'.delwri
      BY <1>7, <3>2
    <3>4. buf'.lock = "free" => buf'.queued
      BY <1>0, <1>1, <1>2, <1>3, <1>4, <1>5, <1>6, <1>7, <3>1, <3>2
    <3> QED BY <3>3, <3>4
  <2> QED BY <2>1, <2>2, <2>3 DEF QueueOK
<1> QED BY <1>8, <1>9, <1>10, <1>11, <1>12, <1>13, <1>14 DEF Rest

LEMMA CbAilKeeps == ASSUME BufCorrect, NEW t \in Txs, CbAilDid(t) PROVE Rest'
<1>0. /\ buf \in Buffer /\ bli \in Item /\ tx \in [Txs -> Tx] /\ buf' \in Buffer /\ bli' \in Item
      /\ CountOK /\ LockOK /\ TxOK /\ OrderOK /\ FlagsOK /\ StaleOK /\ QueueOK
      /\ IsFiniteSet(Txs) /\ Len(log) \in Nat /\ N(RefPcs) \in Nat /\ N(PinPcs) \in Nat /\ Balance(S', N({"wait"})')
  BY KeptParts DEF CbAilDid
<1>1. /\ tx' \in [Txs -> Tx] /\ tx'[t] \in Tx /\ tx[t] \in Tx /\ \A u \in Txs \ {t} : tx'[u] = tx[u]
  BY <1>0 DEF CbAilDid, Only
<1>2. /\ tx[t].pc = "committed" /\ tx'[t].pc = "ail" /\ tx'[t].alloc = tx[t].alloc /\ tx'[t].dirty = tx[t].dirty
      /\ tx'[t].stale = tx[t].stale /\ tx'[t].held = tx[t].held /\ tx'[t].lsn = tx[t].lsn /\ tx'[t].freed = tx[t].freed
  BY <1>0, <1>1 DEF CbAilDid, Tx
<1>3. kind' = kind /\ io' = io /\ push' = push /\ oops' = oops /\ Len(log') = Len(log)
  BY <1>0 DEF CbAilDid, Quiet
<1>4. buf' = buf /\ bli.there /\ bli'.lsn >= bli.lsn /\ bli'.lsn # 0
  BY <1>0 DEF CbAilDid
<1>5. bli'.there = bli.there /\ bli'.ref = bli.ref /\ bli'.flags = bli.flags /\ bli'.map = bli.map
  BY <1>0, <1>1, <1>2 DEF CbAilDid, Item
<1>6. \A u \in Txs : tx[u].lsn \in 1 .. tx[t].lsn - 1 => tx[u].pc = "done"
  BY <1>0 DEF CbAilDid
<1>7. CountOK'
  <2>1. N(RefPcs)' = N(RefPcs) /\ N(PinPcs)' = N(PinPcs)
    <3>1. One(tx[t].pc \in RefPcs) = 1 /\ One(tx'[t].pc \in RefPcs) = 1
          /\ One(tx[t].pc \in PinPcs) = 1 /\ One(tx'[t].pc \in PinPcs) = 1
      BY <1>2 DEF One, RefPcs, PinPcs
    <3>2. Only(t)
      BY <1>1 DEF Only
    <3> QED BY <1>0, <3>1, <3>2, Numbers
  <2>2. bli'.ref = N(RefPcs)'
    BY <1>0, <1>5, <2>1 DEF CountOK
  <2>3. buf'.pin = N(PinPcs)'
    BY <1>0, <1>4, <2>1 DEF CountOK
  <2>4. bli'.there <=> bli'.ref > 0 \/ bli'.lsn # 0
    BY <1>4, <1>5
  <2>5. ~oops'
    BY <1>0, <1>3 DEF CountOK
  <2> QED BY <1>0, <2>2, <2>3, <2>4, <2>5 DEF CountOK
<1>8. LockOK'
  BY <1>0, <1>1, <1>2, <1>3, <1>4 DEF LockOK, Owner, Staler, Live, PinPcs
<1>9. TxOK'
  BY <1>0, <1>1, <1>2, <1>3 DEF TxOK, PinPcs
<1>10. OrderOK'
  BY <1>0, <1>1, <1>2, <1>4, <1>6 DEF OrderOK, Staler, Live
<1>11. FlagsOK'
  BY <1>0, <1>1, <1>2, <1>4, <1>5 DEF FlagsOK, RefPcs
<1>12. StaleOK'
  BY <1>0, <1>1, <1>2, <1>4, <1>5 DEF StaleOK, Staler, Live
<1>13. QueueOK'
  BY <1>0, <1>3, <1>4, <1>5 DEF QueueOK
<1> QED BY <1>7, <1>8, <1>9, <1>10, <1>11, <1>12, <1>13 DEF Rest

LEMMA CbDropKeeps == ASSUME BufCorrect, NEW t \in Txs, CbDropDid(t) PROVE Rest'
<1>0. /\ buf \in Buffer /\ bli \in Item /\ tx \in [Txs -> Tx] /\ buf' \in Buffer /\ bli' \in Item
      /\ CountOK /\ LockOK /\ TxOK /\ OrderOK /\ FlagsOK /\ StaleOK /\ QueueOK
      /\ IsFiniteSet(Txs) /\ Len(log) \in Nat /\ N(RefPcs) \in Nat /\ N(PinPcs) \in Nat /\ Balance(S', N({"wait"})')
  BY KeptParts DEF CbDropDid
<1>1. /\ tx' \in [Txs -> Tx] /\ tx'[t] \in Tx /\ tx[t] \in Tx /\ \A u \in Txs \ {t} : tx'[u] = tx[u]
  BY <1>0 DEF CbDropDid, Only
<1>2. /\ tx[t].pc = "ail" /\ tx'[t].pc = "drop" /\ tx'[t].alloc = tx[t].alloc /\ tx'[t].dirty = tx[t].dirty
      /\ tx'[t].stale = tx[t].stale /\ tx'[t].held = tx[t].held /\ tx'[t].lsn = tx[t].lsn /\ tx'[t].freed = (bli.ref = 1)
  BY <1>0, <1>1 DEF CbDropDid, Tx
<1>3. kind' = kind /\ io' = io /\ push' = push /\ oops' = oops /\ Len(log') = Len(log)
  BY <1>0 DEF CbDropDid, Quiet
<1>4. buf' = buf
  BY <1>0 DEF CbDropDid
<1>5. /\ bli'.there = bli.there /\ bli'.ref = bli.ref - 1 /\ bli'.flags = bli.flags
      /\ bli'.map = bli.map /\ bli'.lsn = bli.lsn /\ bli.there
  BY HasItem DEF CbDropDid, RefPcs
<1>6. CountOK'
  <2>1. N(RefPcs)' = N(RefPcs) - 1 /\ N(PinPcs)' = N(PinPcs)
    <3>1. One(tx[t].pc \in RefPcs) = 1 /\ One(tx'[t].pc \in RefPcs) = 0
          /\ One(tx[t].pc \in PinPcs) = 1 /\ One(tx'[t].pc \in PinPcs) = 1
      BY <1>2 DEF One, RefPcs, PinPcs
    <3>2. Only(t)
      BY <1>1 DEF Only
    <3> QED BY <1>0, <3>1, <3>2, Numbers
  <2>2. bli'.ref = N(RefPcs)'
    BY <1>0, <1>5, <2>1 DEF CountOK
  <2>3. buf'.pin = N(PinPcs)'
    BY <1>0, <1>4, <2>1 DEF CountOK
  <2>4. bli'.there <=> bli'.ref > 0 \/ bli'.lsn # 0
    BY <1>0, <1>2, <1>5 DEF OrderOK
  <2>5. ~oops'
    BY <1>0, <1>3 DEF CountOK
  <2> QED BY <1>0, <2>2, <2>3, <2>4, <2>5 DEF CountOK
<1>7. LockOK'
  BY <1>0, <1>1, <1>2, <1>3, <1>4, <1>5 DEF LockOK, Owner, Staler, Live, PinPcs
<1>8. TxOK'
  BY <1>0, <1>1, <1>2, <1>3 DEF TxOK, PinPcs
<1>9. OrderOK'
  <2>1. (\A w \in Txs : tx[w].pc \in {"ail", "drop"} =>
          bli.lsn # 0 /\ \A v \in Txs : tx[v].lsn \in 1 .. tx[w].lsn - 1 => tx[v].pc = "done")'
    BY <1>0, <1>1, <1>2, <1>5 DEF OrderOK
  <2>2. (\A w \in Txs : Staler(w) /\ tx[w].pc # "in" => \A v \in Txs \ {w} : tx[v].lsn < tx[w].lsn)'
    BY <1>0, <1>1, <1>2 DEF OrderOK, Staler, Live
  <2>3. (\A w \in Txs : tx[w].pc = "drop" /\ tx[w].stale => tx[w].freed)'
    <3> SUFFICES ASSUME NEW w \in Txs, tx'[w].pc = "drop", tx'[w].stale PROVE tx'[w].freed
      OBVIOUS
    <3>1. CASE w = t
      <4>1. tx[t].stale
        BY <1>2, <3>1
      <4>2. \A u \in Txs \ {t} : tx[u].pc \notin RefPcs
        BY <4>1, <1>2, StalerIsLast
      <4>3. tx[t].pc \in RefPcs
        BY <1>2 DEF RefPcs
      <4>4. N(RefPcs) = 1
        BY <1>0, <4>2, <4>3, NumberIsOne
      <4>5. bli.ref = 1
        BY <1>0, <4>4 DEF CountOK
      <4> QED BY <1>2, <3>1, <4>5
    <3>2. CASE w # t
      <4>1. tx'[w] = tx[w]
        BY <1>1, <3>2
      <4> QED BY <1>0, <4>1 DEF OrderOK
    <3> QED BY <3>1, <3>2
  <2> QED BY <2>1, <2>2, <2>3 DEF OrderOK
<1>10. FlagsOK'
  BY <1>0, <1>1, <1>2, <1>5 DEF FlagsOK, RefPcs
<1>11. StaleOK'
  BY <1>0, <1>1, <1>2, <1>4, <1>5 DEF StaleOK, Staler, Live
<1>12. QueueOK'
  BY <1>0, <1>3, <1>4, <1>5 DEF QueueOK
<1> QED BY <1>6, <1>7, <1>8, <1>9, <1>10, <1>11, <1>12 DEF Rest

LEMMA CbUnpinKeeps == ASSUME BufCorrect, NEW t \in Txs, CbUnpinDid(t) PROVE Rest'
<1>0. /\ buf \in Buffer /\ bli \in Item /\ tx \in [Txs -> Tx] /\ buf' \in Buffer /\ bli' \in Item
      /\ CountOK /\ LockOK /\ TxOK /\ OrderOK /\ FlagsOK /\ StaleOK /\ QueueOK
      /\ IsFiniteSet(Txs) /\ Len(log) \in Nat /\ N(RefPcs) \in Nat /\ N(PinPcs) \in Nat /\ Balance(S', N({"wait"})')
  BY KeptParts DEF CbUnpinDid
<1>1. /\ tx' \in [Txs -> Tx] /\ tx'[t] \in Tx /\ tx[t] \in Tx /\ \A u \in Txs \ {t} : tx'[u] = tx[u]
  BY <1>0 DEF CbUnpinDid, Only
<1>2. /\ tx[t].pc = "drop" /\ tx'[t].pc = "done" /\ tx'[t].alloc = tx[t].alloc /\ tx'[t].dirty = tx[t].dirty
      /\ tx'[t].stale = tx[t].stale /\ tx'[t].held = tx[t].held /\ tx'[t].lsn = tx[t].lsn /\ tx'[t].freed = tx[t].freed
  BY <1>0, <1>1 DEF CbUnpinDid, Tx
<1>3. kind' = kind /\ io' = io /\ push' = push /\ oops' = oops /\ Len(log') = Len(log)
  BY <1>0 DEF CbUnpinDid, Quiet
<1>4. bli.there
  BY <1>0, <1>2 DEF OrderOK, CountOK
<1>5. tx[t].stale => \A w \in Txs \ {t} : tx[w].pc \notin RefPcs \cup PinPcs
  BY <1>2, StalerIsLast
<1>6. tx[t].stale => bli' = NoItem /\ bli'.there = FALSE /\ bli'.ref = 0 /\ bli'.flags = {} /\ bli'.map = {} /\ bli'.lsn = 0
  BY <1>0 DEF CbUnpinDid, NoItem
<1>7. ~tx[t].stale => bli' = bli
  BY <1>0 DEF CbUnpinDid
<1>8. /\ (~tx[t].stale => /\ buf'.pin = buf.pin - 1 /\ buf'.lock = buf.lock /\ buf'.delwri = buf.delwri /\ buf'.queued = buf.queued
                              /\ buf'.stale = buf.stale /\ buf'.iodone = buf.iodone /\ buf'.ino = buf.ino)
      /\ (tx[t].stale => /\ buf'.pin = buf.pin - 1 \/ buf'.pin = 0
                         /\ buf'.lock = "free" /\ buf'.queued = buf.delwri /\ buf'.delwri = buf.delwri /\ ~buf'.ino)
  <2>1. ASSUME ~tx[t].stale
        PROVE  /\ buf'.pin = buf.pin - 1 /\ buf'.lock = buf.lock /\ buf'.delwri = buf.delwri /\ buf'.queued = buf.queued
               /\ buf'.stale = buf.stale /\ buf'.iodone = buf.iodone /\ buf'.ino = buf.ino
    <3>1. buf' = [buf EXCEPT !.pin = @ - 1]
      BY <2>1 DEF CbUnpinDid
    <3> QED BY <1>0, <3>1 DEF Buffer
  <2>2. ASSUME tx[t].stale
        PROVE  /\ buf'.pin = buf.pin - 1 \/ buf'.pin = 0
               /\ buf'.lock = "free" /\ buf'.queued = buf.delwri /\ buf'.delwri = buf.delwri /\ ~buf'.ino
    <3> DEFINE d == [buf EXCEPT !.pin = @ - 1, !.iodone = FALSE, !.ino = FALSE]
    <3>1. Relsed(d)
      BY <2>2 DEF CbUnpinDid
    <3>2. buf.pin - 1 \in Int
      BY <1>0 DEF Buffer
    <3>3. d \in Buffer /\ d.pin = buf.pin - 1 /\ d.delwri = buf.delwri /\ d.ino = FALSE
      BY <1>0, <3>2 DEF Buffer
    <3> HIDE DEF d
    <3>4. buf'.lock = "free" /\ buf'.queued = d.delwri /\ buf'.delwri = d.delwri /\ (buf'.ino => d.ino) /\ (buf'.pin = d.pin \/ buf'.pin = 0)
      BY <1>0, <3>1, <3>3, RelsedFields
    <3> QED BY <3>3, <3>4
  <2> QED BY <2>1, <2>2
<1>9. CountOK'
  <2>1. N(RefPcs)' = N(RefPcs) /\ N(PinPcs)' = N(PinPcs) - 1
    <3>1. One(tx[t].pc \in RefPcs) = 0 /\ One(tx'[t].pc \in RefPcs) = 0
          /\ One(tx[t].pc \in PinPcs) = 1 /\ One(tx'[t].pc \in PinPcs) = 0
      BY <1>2 DEF One, RefPcs, PinPcs
    <3>2. Only(t)
      BY <1>1 DEF Only
    <3> QED BY <1>0, <3>1, <3>2, Numbers
  <2>2. bli'.ref = N(RefPcs)'
    <3>1. CASE tx[t].stale
      <4>1. \A w \in Txs : tx[w].pc \notin RefPcs
        BY <1>2, <1>5, <3>1 DEF RefPcs
      <4>2. N(RefPcs) = 0
        BY <4>1, NoneIn
      <4> QED BY <4>2, <3>1, <1>6, <2>1
    <3>2. CASE ~tx[t].stale
      BY <1>0, <1>7, <3>2, <2>1 DEF CountOK
    <3> QED BY <3>1, <3>2
  <2>3. buf'.pin = N(PinPcs)'
    <3>1. CASE tx[t].stale
      <4>1. tx[t].pc \in PinPcs
        BY <1>2 DEF PinPcs
      <4>2. \A w \in Txs \ {t} : tx[w].pc \notin PinPcs
        BY <1>5, <3>1
      <4>3. N(PinPcs) = 1
        BY <1>0, <4>1, <4>2, NumberIsOne
      <4>4. buf.pin = 1
        BY <1>0, <4>3 DEF CountOK
      <4>5. buf'.pin = 0
        BY <1>8, <4>4
      <4> QED BY <4>3, <4>5, <2>1
    <3>2. CASE ~tx[t].stale
      BY <1>0, <1>8, <3>2, <2>1 DEF CountOK
    <3> QED BY <3>1, <3>2
  <2>4. bli'.there <=> bli'.ref > 0 \/ bli'.lsn # 0
    BY <1>0, <1>6, <1>7 DEF CountOK
  <2>5. ~oops'
    BY <1>0, <1>3 DEF CountOK
  <2> QED BY <1>0, <2>2, <2>3, <2>4, <2>5 DEF CountOK
<1>10. LockOK'
  <2>1. (\A w \in Txs : Owner(w) => buf.lock = "tx")'
    <3> SUFFICES ASSUME NEW w \in Txs, Owner(w)' PROVE buf'.lock = "tx"
      OBVIOUS
    <3>1. Owner(w)
      BY <1>1, <1>2 DEF Owner, Staler, Live
    <3>2. CASE tx[t].stale
      <4>1. Staler(t)
        BY <1>2, <3>2 DEF Staler, Live
      <4>2. w = t
        BY <1>0, <3>1, <4>1 DEF LockOK, Owner
      <4>3. ~tx[t].held
        BY <1>0, <3>2 DEF TxOK
      <4>4. ~Owner(t)'
        BY <1>2, <4>3 DEF Owner, Staler, Live
      <4> QED BY <4>2, <4>4
    <3>3. CASE ~tx[t].stale
      BY <1>0, <1>8, <3>1, <3>3 DEF LockOK
    <3> QED BY <3>2, <3>3
  <2>2. (\A v, w \in Txs : Owner(v) /\ Owner(w) => v = w)'
    BY <1>0, <1>1, <1>2 DEF LockOK, Owner, Staler, Live
  <2>3. (push = "locked" => buf.lock = "push" /\ bli.lsn # 0)'
    BY <1>0, <1>2, <1>3, <1>7, <1>8 DEF LockOK, Owner, Staler, Live
  <2>4. (io # "none" => buf.lock = "io")'
    BY <1>0, <1>2, <1>3, <1>8 DEF LockOK, Owner, Staler, Live
  <2>5. (io = "flight" => \A w \in Txs : tx[w].pc \notin PinPcs)'
    BY <1>0, <1>2, <1>3 DEF LockOK, PinPcs
  <2> QED BY <2>1, <2>2, <2>3, <2>4, <2>5 DEF LockOK
<1>11. TxOK'
  BY <1>0, <1>1, <1>2, <1>3 DEF TxOK, PinPcs
<1>12. OrderOK'
  <2>1. (\A w \in Txs : tx[w].pc \in {"ail", "drop"} =>
          bli.lsn # 0 /\ \A v \in Txs : tx[v].lsn \in 1 .. tx[w].lsn - 1 => tx[v].pc = "done")'
    <3> SUFFICES ASSUME NEW w \in Txs, tx'[w].pc \in {"ail", "drop"}
                 PROVE  bli'.lsn # 0 /\ \A v \in Txs : tx'[v].lsn \in 1 .. tx'[w].lsn - 1 => tx'[v].pc = "done"
      OBVIOUS
    <3>1. w # t /\ tx'[w] = tx[w] /\ ~tx[t].stale
      BY <1>1, <1>2, <1>5 DEF PinPcs
    <3>2. bli'.lsn # 0
      BY <1>0, <1>7, <3>1 DEF OrderOK
    <3>3. ASSUME NEW v \in Txs, tx'[v].lsn \in 1 .. tx'[w].lsn - 1 PROVE tx'[v].pc = "done"
      <4>1. CASE v = t
        BY <1>2, <4>1
      <4>2. CASE v # t
        <5>1. tx'[v] = tx[v]
          BY <1>1, <4>2
        <5> QED BY <1>0, <3>1, <3>3, <5>1 DEF OrderOK
      <4> QED BY <4>1, <4>2
    <3> QED BY <3>2, <3>3
  <2>2. (\A w \in Txs : Staler(w) /\ tx[w].pc # "in" => \A v \in Txs \ {w} : tx[v].lsn < tx[w].lsn)'
    BY <1>0, <1>1, <1>2 DEF OrderOK, Staler, Live
  <2>3. (\A w \in Txs : tx[w].pc = "drop" /\ tx[w].stale => tx[w].freed)'
    BY <1>0, <1>1, <1>2 DEF OrderOK
  <2> QED BY <2>1, <2>2, <2>3 DEF OrderOK
<1>13. FlagsOK'
  BY <1>0, <1>1, <1>2, <1>5, <1>6, <1>7 DEF FlagsOK, RefPcs
<1>14. StaleOK'
  <2>1. ("STALE" \in bli.flags => \E w \in Txs : Staler(w))'
    BY <1>0, <1>1, <1>6, <1>7 DEF StaleOK, Staler, Live
  <2>2. ("STALE" \in bli.flags => buf.stale /\ ~buf.delwri /\ ~buf.queued /\ "HOLD" \notin bli.flags /\ bli.map = {})'
    BY <1>0, <1>6, <1>7, <1>8 DEF StaleOK
  <2>3. ("STALE" \in bli.flags /\ buf.ino => "STALE_INODE" \in bli.flags)'
    BY <1>0, <1>1, <1>2, <1>3, <1>4, <1>5, <1>6, <1>7, <1>8 DEF StaleOK, Staler, Live
  <2>4. (\A w \in Txs : Staler(w) => "STALE" \in bli.flags)'
    <3> SUFFICES ASSUME NEW w \in Txs, Staler(w)' PROVE "STALE" \in bli'.flags
      OBVIOUS
    <3>1. w # t /\ Staler(w)
      BY <1>1, <1>2 DEF Staler, Live
    <3>2. CASE tx[t].stale
      <4>1. Staler(t)
        BY <1>2, <3>2 DEF Staler, Live
      <4> QED BY <3>1, <4>1, InOwns
    <3>3. CASE ~tx[t].stale
      BY <1>0, <1>7, <3>1, <3>3 DEF StaleOK
    <3> QED BY <3>2, <3>3
  <2>5. (buf.stale /\ "STALE" \notin bli.flags =>
          buf.lock = "free" /\ ~bli.there /\ ~buf.ino /\ ~buf.delwri /\ ~buf.queued)'
    BY <1>0, <1>1, <1>2, <1>3, <1>4, <1>5, <1>6, <1>7, <1>8 DEF StaleOK, Staler, Live
  <2> QED BY <2>1, <2>2, <2>3, <2>4, <2>5 DEF StaleOK
<1>15. QueueOK'
  BY <1>0, <1>3, <1>6, <1>7, <1>8 DEF QueueOK
<1> QED BY <1>9, <1>10, <1>11, <1>12, <1>13, <1>14, <1>15 DEF Rest

LEMMA BjoinKeeps == ASSUME BufCorrect, NEW t \in Txs, NEW u \in Txs, BjoinDid(t, u) PROVE Rest'
<1>0. /\ buf \in Buffer /\ bli \in Item /\ tx \in [Txs -> Tx] /\ buf' \in Buffer /\ bli' \in Item
      /\ CountOK /\ LockOK /\ TxOK /\ OrderOK /\ FlagsOK /\ StaleOK /\ QueueOK
      /\ IsFiniteSet(Txs) /\ Len(log) \in Nat /\ N(RefPcs) \in Nat /\ N(PinPcs) \in Nat /\ Balance(S', N({"wait"})')
  BY KeptParts DEF BjoinDid
<1>1. /\ tx' \in [Txs -> Tx] /\ tx'[t] \in Tx /\ tx[t] \in Tx /\ tx'[u] \in Tx /\ tx[u] \in Tx /\ t # u
      /\ \A w \in Txs \ {t, u} : tx'[w] = tx[w]
  BY <1>0 DEF BjoinDid
<1>2. /\ tx[t].pc = "idle" /\ tx'[t].pc = "in" /\ tx'[t].dirty = tx[t].dirty /\ tx'[t].stale = tx[t].stale
      /\ tx'[t].held = tx[t].held /\ tx'[t].lsn = tx[t].lsn /\ tx'[t].freed = tx[t].freed
      /\ tx[u].held /\ tx'[u].held = FALSE /\ tx'[u].pc = tx[u].pc /\ tx'[u].dirty = tx[u].dirty
      /\ tx'[u].stale = tx[u].stale /\ tx'[u].lsn = tx[u].lsn /\ tx'[u].freed = tx[u].freed
  BY <1>0, <1>1 DEF BjoinDid, Tx
<1>3. /\ buf'.lock = buf.lock /\ buf'.pin = buf.pin /\ buf'.delwri = buf.delwri /\ buf'.queued = buf.queued
      /\ buf'.stale = buf.stale /\ buf'.iodone = buf.iodone /\ buf'.ino = buf.ino
  BY <1>0 DEF BjoinDid, Buffer
<1>4. /\ bli'.there = TRUE /\ bli'.ref = bli.ref + 1 /\ bli'.flags = bli.flags /\ bli'.map = bli.map /\ bli'.lsn = bli.lsn
  BY <1>0 DEF BjoinDid, Joins, NoItem, FlagsOK
<1>5. kind' = kind /\ io' = io /\ push' = push /\ oops' = oops /\ Len(log') = Len(log)
  BY <1>0 DEF BjoinDid, Quiet
<1>6. buf.lock = "tx"
  BY <1>0, <1>2 DEF LockOK, Owner
<1>7. CountOK'
  <2>1. N(RefPcs)' = N(RefPcs) + 1 /\ N(PinPcs)' = N(PinPcs)
    <3>1. \A w \in Txs \ {t} : tx'[w].pc = tx[w].pc
      BY <1>1, <1>2
    <3>2. One(tx[t].pc \in RefPcs) = 0 /\ One(tx'[t].pc \in RefPcs) = 1
          /\ One(tx[t].pc \in PinPcs) = 0 /\ One(tx'[t].pc \in PinPcs) = 0
      BY <1>2 DEF One, RefPcs, PinPcs
    <3> QED BY <1>0, <3>1, <3>2, Moves
  <2>2. bli'.ref = N(RefPcs)'
    BY <1>0, <1>4, <2>1 DEF CountOK
  <2>3. buf'.pin = N(PinPcs)'
    BY <1>0, <1>3, <2>1 DEF CountOK
  <2>4. bli'.there <=> bli'.ref > 0 \/ bli'.lsn # 0
    BY <1>0, <1>4, <2>1, <2>2
  <2>5. ~oops'
    BY <1>0, <1>5 DEF CountOK
  <2> QED BY <1>0, <2>2, <2>3, <2>4, <2>5 DEF CountOK
<1>8. LockOK'
  <2>1. (\A w \in Txs : Owner(w) => buf.lock = "tx")'
    BY <1>3, <1>6
  <2>2. (\A v, w \in Txs : Owner(v) /\ Owner(w) => v = w)'
    <3>1. ASSUME NEW w \in Txs, Owner(w)' PROVE w = t
      <4>1. CASE w = u
        BY <1>0, <1>2, <3>1, <4>1 DEF TxOK, Owner, Staler
      <4>2. CASE w \notin {t, u}
        <5>1. Owner(w)
          BY <1>1, <3>1, <4>2 DEF Owner, Staler, Live
        <5> QED BY <1>0, <1>2, <4>2, <5>1 DEF LockOK, Owner
      <4> QED BY <4>1, <4>2
    <3> QED BY <3>1
  <2>3. (push = "locked" => buf.lock = "push" /\ bli.lsn # 0)'
    BY <1>0, <1>3, <1>4, <1>5 DEF LockOK
  <2>4. (io # "none" => buf.lock = "io")'
    BY <1>0, <1>3, <1>5 DEF LockOK
  <2>5. (io = "flight" => \A w \in Txs : tx[w].pc \notin PinPcs)'
    BY <1>0, <1>5, <1>6 DEF LockOK
  <2> QED BY <2>1, <2>2, <2>3, <2>4, <2>5 DEF LockOK
<1>9. TxOK'
  BY <1>0, <1>1, <1>2, <1>5 DEF TxOK, PinPcs
<1>10. OrderOK'
  BY <1>0, <1>1, <1>2, <1>4 DEF OrderOK, Staler, Live
<1>11. FlagsOK'
  <2>1. (~bli.there => bli = NoItem)'
    BY <1>4
  <2>2. ("DIRTY" \in bli.flags <=> bli.map # {})'
    BY <1>0, <1>4 DEF FlagsOK
  <2>3. ("LOGGED" \in bli.flags =>
          bli.map # {} /\ \E w \in Txs : tx[w].pc \in {"in", "logged"} /\ tx[w].dirty /\ ~tx[w].stale)'
    BY <1>0, <1>1, <1>2, <1>4 DEF FlagsOK
  <2>4. (\A w \in Txs : tx[w].pc \in {"in", "logged"} /\ tx[w].dirty /\ ~tx[w].stale => "LOGGED" \in bli.flags)'
    <3> SUFFICES ASSUME NEW w \in Txs, (tx[w].pc \in {"in", "logged"} /\ tx[w].dirty /\ ~tx[w].stale)'
                 PROVE ("LOGGED" \in bli.flags)'
      OBVIOUS
    <3>1. w # t
      BY <1>0, <1>2 DEF TxOK
    <3>2. tx'[w].pc = tx[w].pc /\ tx'[w].dirty = tx[w].dirty /\ tx'[w].stale = tx[w].stale
      BY <1>1, <1>2, <3>1
    <3> QED BY <1>0, <1>1, <1>2, <1>4, <3>1 DEF FlagsOK
  <2>5. (bli.there /\ bli.map = {} /\ "STALE" \notin bli.flags =>
          bli.lsn = 0 /\ \A w \in Txs : tx[w].pc \in RefPcs => tx[w].pc = "in")'
    <3>1. CASE bli.there
      <4>1. \A w \in Txs : w = t \/ tx'[w].pc = tx[w].pc
        BY <1>1, <1>2
      <4> QED BY <3>1, <4>1, <1>0, <1>2, <1>4 DEF FlagsOK
    <3>2. CASE ~bli.there
      <4>1. bli.lsn = 0 /\ \A w \in Txs : tx[w].pc \notin RefPcs
        BY <1>0, <3>2, HasItem DEF FlagsOK, NoItem
      <4>2. \A w \in Txs : w = t \/ tx'[w].pc = tx[w].pc
        BY <1>1, <1>2
      <4> QED BY <4>1, <4>2, <1>2, <1>4
    <3> QED BY <3>1, <3>2
  <2>6. (bli.map # {} =>
          bli.lsn # 0 \/ \E w \in Txs : tx[w].pc \in {"in", "logged", "committed"} /\ tx[w].dirty /\ ~tx[w].stale)'
    BY <1>0, <1>1, <1>2, <1>4 DEF FlagsOK
  <2> QED BY <2>1, <2>2, <2>3, <2>4, <2>5, <2>6 DEF FlagsOK
<1>12. StaleOK'
  <2>1. ("STALE" \in bli.flags => \E w \in Txs : Staler(w))'
    BY <1>0, <1>1, <1>2, <1>4 DEF StaleOK, Staler, Live
  <2>2. ("STALE" \in bli.flags => buf.stale /\ ~buf.delwri /\ ~buf.queued /\ "HOLD" \notin bli.flags /\ bli.map = {})'
    BY <1>0, <1>3, <1>4 DEF StaleOK
  <2>3. ("STALE" \in bli.flags /\ buf.ino => "STALE_INODE" \in bli.flags)'
    BY <1>0, <1>3, <1>4 DEF StaleOK
  <2>4. (\A w \in Txs : Staler(w) => "STALE" \in bli.flags)'
    <3> SUFFICES ASSUME NEW w \in Txs, (Staler(w))' PROVE ("STALE" \in bli.flags)'
      OBVIOUS
    <3>1. w # t
      BY <1>0, <1>2 DEF TxOK, Staler
    <3>2. tx'[w].pc = tx[w].pc /\ tx'[w].dirty = tx[w].dirty /\ tx'[w].stale = tx[w].stale
      BY <1>1, <1>2, <3>1
    <3> QED BY <1>0, <1>1, <1>2, <1>4, <3>1 DEF StaleOK, Staler, Live
  <2>5. (buf.stale /\ "STALE" \notin bli.flags =>
          buf.lock = "free" /\ ~bli.there /\ ~buf.ino /\ ~buf.delwri /\ ~buf.queued)'
    BY <1>0, <1>3, <1>4, <1>6 DEF StaleOK
  <2> QED BY <2>1, <2>2, <2>3, <2>4, <2>5 DEF StaleOK
<1>13. QueueOK'
  BY <1>0, <1>3, <1>4, <1>5 DEF QueueOK
<1> QED BY <1>7, <1>8, <1>9, <1>10, <1>11, <1>12, <1>13 DEF Rest

LEMMA IoKeeps == ASSUME BufCorrect, IoDid PROVE Rest'
<1>0. /\ buf \in Buffer /\ bli \in Item /\ tx \in [Txs -> Tx] /\ buf' \in Buffer /\ bli' \in Item
      /\ CountOK /\ LockOK /\ TxOK /\ OrderOK /\ FlagsOK /\ StaleOK /\ QueueOK
      /\ IsFiniteSet(Txs) /\ Len(log) \in Nat /\ N(RefPcs) \in Nat /\ N(PinPcs) \in Nat /\ Balance(S', N({"wait"})')
  BY KeptParts DEF FrameDid, IoDid
<1>1. tx' = tx
  BY DEF FrameDid, IoDid
<1>2. \A u \in Txs : tx'[u] = tx[u]
  BY <1>1
<1>3. buf' = buf /\ bli' = bli /\ kind' = kind /\ oops' = oops /\ Len(log') = Len(log)
  BY <1>0 DEF FrameDid, IoDid
<1>4. /\ (io' # "none" => io # "none") /\ (push' = "locked" => push = "locked") /\ (io' = "flight" => io = "flight" \/ buf.pin = 0)
  BY <1>0 DEF IoDid
<1>5. CountOK'
  <2>1. N(RefPcs)' = N(RefPcs) /\ N(PinPcs)' = N(PinPcs)
    BY <1>1, SameNumbers
  <2>2. bli'.ref = N(RefPcs)'
    BY <1>0, <1>3, <2>1 DEF CountOK
  <2>3. buf'.pin = N(PinPcs)'
    BY <1>0, <1>3, <2>1 DEF CountOK
  <2>4. bli'.there <=> bli'.ref > 0 \/ bli'.lsn # 0
    BY <1>0, <1>3 DEF CountOK
  <2>5. ~oops'
    BY <1>0, <1>3 DEF CountOK
  <2> QED BY <1>0, <2>2, <2>3, <2>4, <2>5 DEF CountOK
<1>6. LockOK'
  <2>1. (\A w \in Txs : Owner(w) => buf.lock = "tx")'
    BY <1>0, <1>1, <1>3 DEF LockOK, Owner, Staler, Live
  <2>2. (\A v, w \in Txs : Owner(v) /\ Owner(w) => v = w)'
    BY <1>0, <1>1 DEF LockOK, Owner, Staler, Live
  <2>3. (push = "locked" => buf.lock = "push" /\ bli.lsn # 0)'
    BY <1>0, <1>3, <1>4 DEF LockOK
  <2>4. (io # "none" => buf.lock = "io")'
    BY <1>0, <1>3, <1>4 DEF LockOK
  <2>5. (io = "flight" => \A w \in Txs : tx[w].pc \notin PinPcs)'
    <3>1. CASE io = "flight"
      BY <1>0, <1>1, <3>1 DEF LockOK
    <3>2. CASE buf.pin = 0
      <4>1. N(PinPcs) = 0
        BY <1>0, <3>2 DEF CountOK
      <4>2. \A w \in Txs : tx[w].pc \notin PinPcs
        BY <1>0, <4>1, NoneLeft
      <4> QED BY <1>2, <4>2
    <3> QED BY <1>4, <3>1, <3>2
  <2> QED BY <2>1, <2>2, <2>3, <2>4, <2>5 DEF LockOK
<1>7. TxOK'
  BY <1>0, <1>1, <1>3 DEF TxOK
<1>8. OrderOK'
  BY <1>0, <1>1, <1>3 DEF OrderOK, Staler, Live
<1>9. FlagsOK'
  BY <1>0, <1>1, <1>3 DEF FlagsOK
<1>10. StaleOK'
  BY <1>0, <1>1, <1>3 DEF StaleOK, Staler, Live
<1>11. QueueOK'
  BY <1>0, <1>3 DEF QueueOK
<1> QED BY <1>5, <1>6, <1>7, <1>8, <1>9, <1>10, <1>11 DEF Rest

LEMMA PushLockKeeps == ASSUME BufCorrect, PushLockDid PROVE Rest'
<1>0. /\ buf \in Buffer /\ bli \in Item /\ tx \in [Txs -> Tx] /\ buf' \in Buffer /\ bli' \in Item
      /\ CountOK /\ LockOK /\ TxOK /\ OrderOK /\ FlagsOK /\ StaleOK /\ QueueOK
      /\ IsFiniteSet(Txs) /\ Len(log) \in Nat /\ N(RefPcs) \in Nat /\ N(PinPcs) \in Nat /\ Balance(S', N({"wait"})')
  BY KeptParts DEF PushLockDid
<1>1. tx' = tx
  BY DEF PushLockDid
<1>2. \A u \in Txs : tx'[u] = tx[u]
  BY <1>1
<1>3. bli' = bli /\ kind' = kind /\ oops' = oops /\ io' = io /\ Len(log') = Len(log)
  BY <1>0 DEF PushLockDid
<1>4. /\ buf'.pin = buf.pin /\ buf'.delwri = buf.delwri /\ buf'.queued = buf.queued
      /\ buf'.stale = buf.stale /\ buf'.iodone = buf.iodone /\ buf'.ino = buf.ino
  BY <1>0, <1>1, <1>2 DEF PushLockDid, Buffer
<1>5. \/ buf' = buf /\ push' = "idle"
      \/ buf.lock = "free" /\ buf'.lock = "push" /\ push' = "locked" /\ bli.lsn # 0
  BY <1>0, <1>1, <1>2 DEF PushLockDid, Buffer
<1>6. CountOK'
  <2>1. N(RefPcs)' = N(RefPcs) /\ N(PinPcs)' = N(PinPcs)
    BY <1>1, SameNumbers
  <2>2. bli'.ref = N(RefPcs)'
    BY <1>0, <1>3, <2>1 DEF CountOK
  <2>3. buf'.pin = N(PinPcs)'
    BY <1>0, <1>4, <2>1 DEF CountOK
  <2>4. bli'.there <=> bli'.ref > 0 \/ bli'.lsn # 0
    BY <1>0, <1>3 DEF CountOK
  <2>5. ~oops'
    BY <1>0, <1>3 DEF CountOK
  <2> QED BY <1>0, <2>2, <2>3, <2>4, <2>5 DEF CountOK
<1>7. LockOK'
  BY <1>0, <1>1, <1>3, <1>5 DEF LockOK, Owner, Staler, Live
<1>8. TxOK'
  BY <1>0, <1>1, <1>3 DEF TxOK
<1>9. OrderOK'
  BY <1>0, <1>1, <1>3 DEF OrderOK, Staler, Live
<1>10. FlagsOK'
  BY <1>0, <1>1, <1>3 DEF FlagsOK
<1>11. StaleOK'
  <2>1. ("STALE" \in bli.flags => \E w \in Txs : Staler(w))'
    BY <1>0, <1>1, <1>3 DEF StaleOK, Staler, Live
  <2>2. ("STALE" \in bli.flags => buf.stale /\ ~buf.delwri /\ ~buf.queued /\ "HOLD" \notin bli.flags /\ bli.map = {})'
    BY <1>0, <1>3, <1>4 DEF StaleOK
  <2>3. ("STALE" \in bli.flags /\ buf.ino => "STALE_INODE" \in bli.flags)'
    BY <1>0, <1>3, <1>4 DEF StaleOK
  <2>4. (\A w \in Txs : Staler(w) => "STALE" \in bli.flags)'
    BY <1>0, <1>1, <1>3 DEF StaleOK, Staler, Live
  <2>5. (buf.stale /\ "STALE" \notin bli.flags =>
          buf.lock = "free" /\ ~bli.there /\ ~buf.ino /\ ~buf.delwri /\ ~buf.queued)'
    <3> SUFFICES ASSUME buf'.stale, "STALE" \notin bli'.flags
                 PROVE  buf'.lock = "free" /\ ~bli'.there /\ ~buf'.ino /\ ~buf'.delwri /\ ~buf'.queued
      OBVIOUS
    <3>1. buf.lock = "free" /\ ~bli.there /\ ~buf.ino /\ ~buf.delwri /\ ~buf.queued
      BY <1>0, <1>3, <1>4 DEF StaleOK
    <3>2. bli.lsn = 0
      BY <1>0, <3>1 DEF FlagsOK, NoItem
    <3> QED BY <1>3, <1>5, <3>1, <3>2
  <2> QED BY <2>1, <2>2, <2>3, <2>4, <2>5 DEF StaleOK
<1>12. QueueOK'
  BY <1>0, <1>3, <1>4, <1>5 DEF QueueOK
<1> QED BY <1>6, <1>7, <1>8, <1>9, <1>10, <1>11, <1>12 DEF Rest

LEMMA PushKeeps == ASSUME BufCorrect, PushDid PROVE Rest'
<1>0. /\ buf \in Buffer /\ bli \in Item /\ tx \in [Txs -> Tx] /\ buf' \in Buffer /\ bli' \in Item
      /\ CountOK /\ LockOK /\ TxOK /\ OrderOK /\ FlagsOK /\ StaleOK /\ QueueOK
      /\ IsFiniteSet(Txs) /\ Len(log) \in Nat /\ N(RefPcs) \in Nat /\ N(PinPcs) \in Nat /\ Balance(S', N({"wait"})')
  BY KeptParts DEF PushDid
<1>1. tx' = tx
  BY DEF PushDid
<1>2. \A u \in Txs : tx'[u] = tx[u]
  BY <1>1
<1>3. /\ bli' = bli /\ kind' = kind /\ oops' = oops /\ io' = "strategy"
      /\ push' = "idle" /\ push = "locked" /\ Len(log') = Len(log)
  BY <1>0 DEF PushDid
<1>4. /\ buf'.lock = "io" /\ buf'.pin = buf.pin /\ buf'.delwri = FALSE /\ buf'.queued = FALSE
      /\ buf'.stale = buf.stale /\ buf'.iodone = buf.iodone /\ buf'.ino = buf.ino
  BY <1>0, <1>1, <1>2 DEF PushDid, Buffer
<1>5. buf.lock = "push"
  BY <1>0 DEF PushDid, LockOK
<1>6. "STALE" \notin bli.flags /\ ~buf.stale
  <2>1. "STALE" \notin bli.flags
    BY <1>5, NobodyOwns
  <2> QED BY <1>0, <1>5, <2>1 DEF StaleOK
<1>7. CountOK'
  <2>1. N(RefPcs)' = N(RefPcs) /\ N(PinPcs)' = N(PinPcs)
    BY <1>1, SameNumbers
  <2>2. bli'.ref = N(RefPcs)'
    BY <1>0, <1>3, <2>1 DEF CountOK
  <2>3. buf'.pin = N(PinPcs)'
    BY <1>0, <1>4, <2>1 DEF CountOK
  <2>4. bli'.there <=> bli'.ref > 0 \/ bli'.lsn # 0
    BY <1>0, <1>3 DEF CountOK
  <2>5. ~oops'
    BY <1>0, <1>3 DEF CountOK
  <2> QED BY <1>0, <2>2, <2>3, <2>4, <2>5 DEF CountOK
<1>8. LockOK'
  BY <1>0, <1>1, <1>3, <1>4 DEF LockOK, Owner, Staler, Live
<1>9. TxOK'
  BY <1>0, <1>1, <1>3 DEF TxOK
<1>10. OrderOK'
  BY <1>0, <1>1, <1>3 DEF OrderOK, Staler, Live
<1>11. FlagsOK'
  BY <1>0, <1>1, <1>3 DEF FlagsOK
<1>12. StaleOK'
  BY <1>0, <1>1, <1>3, <1>4, <1>5 DEF StaleOK, Staler, Live
<1>13. QueueOK'
  BY <1>0, <1>3, <1>4 DEF QueueOK
<1> QED BY <1>7, <1>8, <1>9, <1>10, <1>11, <1>12, <1>13 DEF Rest

LEMMA BufdLockKeeps == ASSUME BufCorrect, BufdLockDid PROVE Rest'
<1>0. /\ buf \in Buffer /\ bli \in Item /\ tx \in [Txs -> Tx] /\ buf' \in Buffer /\ bli' \in Item
      /\ CountOK /\ LockOK /\ TxOK /\ OrderOK /\ FlagsOK /\ StaleOK /\ QueueOK
      /\ IsFiniteSet(Txs) /\ Len(log) \in Nat /\ N(RefPcs) \in Nat /\ N(PinPcs) \in Nat /\ Balance(S', N({"wait"})')
  BY KeptParts DEF BufdLockDid
<1>1. tx' = tx
  BY DEF BufdLockDid
<1>2. \A u \in Txs : tx'[u] = tx[u]
  BY <1>1
<1>3. bli' = bli /\ kind' = kind /\ oops' = oops /\ push' = push /\ Len(log') = Len(log)
  BY <1>0 DEF BufdLockDid
<1>4. \/ buf' = buf /\ io' = io
      \/ /\ buf.lock = "free" /\ buf.queued /\ io' = "strategy"
         /\ buf'.lock = "io" /\ buf'.pin = buf.pin /\ buf'.delwri = FALSE /\ buf'.queued = FALSE
         /\ buf'.stale = buf.stale /\ buf'.iodone = buf.iodone /\ buf'.ino = buf.ino
  BY <1>0, <1>1, <1>2 DEF BufdLockDid, Buffer
<1>5. CountOK'
  <2>1. N(RefPcs)' = N(RefPcs) /\ N(PinPcs)' = N(PinPcs)
    BY <1>1, SameNumbers
  <2>2. bli'.ref = N(RefPcs)'
    BY <1>0, <1>3, <2>1 DEF CountOK
  <2>3. buf'.pin = N(PinPcs)'
    BY <1>0, <1>4, <2>1 DEF CountOK
  <2>4. bli'.there <=> bli'.ref > 0 \/ bli'.lsn # 0
    BY <1>0, <1>3 DEF CountOK
  <2>5. ~oops'
    BY <1>0, <1>3 DEF CountOK
  <2> QED BY <1>0, <2>2, <2>3, <2>4, <2>5 DEF CountOK
<1>6. LockOK'
  BY <1>0, <1>1, <1>3, <1>4 DEF LockOK, Owner, Staler, Live
<1>7. TxOK'
  BY <1>0, <1>1, <1>3 DEF TxOK
<1>8. OrderOK'
  BY <1>0, <1>1, <1>3 DEF OrderOK, Staler, Live
<1>9. FlagsOK'
  BY <1>0, <1>1, <1>3 DEF FlagsOK
<1>10. StaleOK'
  BY <1>0, <1>1, <1>3, <1>4 DEF StaleOK, Staler, Live
<1>11. QueueOK'
  BY <1>0, <1>3, <1>4 DEF QueueOK
<1> QED BY <1>5, <1>6, <1>7, <1>8, <1>9, <1>10, <1>11 DEF Rest

LEMMA WriteKeeps == ASSUME BufCorrect, WriteDid PROVE Rest'
<1>0. /\ buf \in Buffer /\ bli \in Item /\ tx \in [Txs -> Tx] /\ buf' \in Buffer /\ bli' \in Item
      /\ CountOK /\ LockOK /\ TxOK /\ OrderOK /\ FlagsOK /\ StaleOK /\ QueueOK
      /\ IsFiniteSet(Txs) /\ Len(log) \in Nat /\ N(RefPcs) \in Nat /\ N(PinPcs) \in Nat /\ Balance(S', N({"wait"})')
  BY KeptParts DEF WriteDid
<1>1. tx' = tx
  BY DEF WriteDid
<1>2. \A u \in Txs : tx'[u] = tx[u]
  BY <1>1
<1>3. /\ kind' = kind /\ oops' = oops /\ io = "flight" /\ io' = "none" /\ push' = push /\ Len(log') = Len(log)
  BY <1>0 DEF WriteDid
<1>4. buf.lock = "io" /\ \A t \in Txs : tx[t].pc \notin PinPcs
  BY <1>0 DEF WriteDid, LockOK
<1>5. "STALE" \notin bli.flags /\ ~buf.stale /\ \A t \in Txs : tx[t].pc \notin RefPcs /\ ~Staler(t) /\ ~tx[t].held
  <2>1. "STALE" \notin bli.flags /\ \A t \in Txs : tx[t].pc \notin {"in", "logged"} /\ ~Staler(t) /\ ~tx[t].held
    BY <1>4, NobodyOwns
  <2>2. ~buf.stale
    BY <1>0, <1>4, <2>1 DEF StaleOK
  <2> QED BY <1>4, <2>1, <2>2 DEF RefPcs, PinPcs
<1>6. /\ buf'.lock = "free" /\ buf'.queued = buf'.delwri /\ ~buf'.stale /\ (buf'.ino => buf.ino)
      /\ buf'.pin = buf.pin \/ buf'.pin = 0
      /\ \/ /\ bli' = NoItem /\ ~bli'.there /\ bli'.ref = 0 /\ bli'.flags = {} /\ bli'.map = {} /\ bli'.lsn = 0 /\ ~buf'.ino
         \/ bli' = bli /\ bli.map = {} /\ ~buf.ino
         \/ bli' = bli /\ buf'.delwri /\ buf'.queued /\ buf.iodone /\ (buf'.ino \/ bli.there => buf'.iodone)
  <2>0. ~buf.iodone => bli.map = {} /\ ~buf.ino
    BY <1>0, <1>5 DEF QueueOK
  <2>1. CASE buf.iodone /\ bli' = NoItem /\ Relsed([buf EXCEPT !.iodone = FALSE, !.ino = FALSE])
    <3> DEFINE d == [buf EXCEPT !.iodone = FALSE, !.ino = FALSE]
    <3>1. d \in Buffer /\ d.ino = FALSE /\ d.pin = buf.pin /\ d.stale = buf.stale
      BY <1>0 DEF Buffer
    <3> HIDE DEF d
    <3>2. Relsed(d)
      BY <2>1 DEF d
    <3>3. /\ buf'.lock = "free" /\ buf'.queued = d.delwri /\ buf'.delwri = d.delwri /\ (buf'.stale => d.stale)
          /\ (buf'.ino => d.ino) /\ (buf'.pin = d.pin \/ buf'.pin = 0)
      BY <1>0, <3>1, <3>2, RelsedFields
    <3> QED BY <1>5, <2>1, <3>1, <3>3 DEF NoItem
  <2>2. CASE ~buf.iodone /\ bli' = bli /\ Relsed(buf)
    <3>1. /\ buf'.lock = "free" /\ buf'.queued = buf.delwri /\ buf'.delwri = buf.delwri /\ (buf'.stale => buf.stale)
          /\ (buf'.ino => buf.ino) /\ (buf'.pin = buf.pin \/ buf'.pin = 0)
      BY <1>0, <2>2, RelsedFields
    <3> QED BY <1>5, <2>0, <2>2, <3>1
  <2>3. CASE buf.iodone /\ bli' = bli /\ Relsed([buf EXCEPT !.delwri = TRUE, !.done = TRUE])
    <3> DEFINE d == [buf EXCEPT !.delwri = TRUE, !.done = TRUE]
    <3>1. /\ d \in Buffer /\ d.ino = buf.ino /\ d.pin = buf.pin
          /\ d.stale = buf.stale /\ d.delwri = TRUE /\ d.iodone = buf.iodone
      BY <1>0 DEF Buffer
    <3> HIDE DEF d
    <3>2. Relsed(d)
      BY <2>3 DEF d
    <3>3. /\ buf'.lock = "free" /\ buf'.queued = d.delwri /\ buf'.delwri = d.delwri /\ (buf'.stale => d.stale)
          /\ (buf'.ino => d.ino /\ buf'.iodone = d.iodone) /\ (buf'.pin = d.pin \/ buf'.pin = 0)
          /\ (bli'.there => buf'.iodone = d.iodone)
      BY <1>0, <3>1, <3>2, RelsedFields
    <3> QED BY <1>5, <2>3, <3>1, <3>3
  <2> QED BY <2>1, <2>2, <2>3 DEF WriteDid
<1>7. CountOK'
  <2>1. N(RefPcs)' = N(RefPcs) /\ N(PinPcs)' = N(PinPcs)
    BY <1>1, SameNumbers
  <2>2. bli'.ref = N(RefPcs)'
    <3>1. N(RefPcs) = 0
      BY <1>5, NoneIn
    <3>2. bli.ref = 0
      BY <1>0, <3>1 DEF CountOK
    <3> QED BY <1>6, <2>1, <3>1, <3>2
  <2>3. buf'.pin = N(PinPcs)'
    <3>1. N(PinPcs) = 0
      BY <1>4, NoneIn
    <3>2. buf.pin = 0
      BY <1>0, <3>1 DEF CountOK
    <3> QED BY <1>6, <2>1, <3>1, <3>2
  <2>4. bli'.there <=> bli'.ref > 0 \/ bli'.lsn # 0
    BY <1>0, <1>6 DEF CountOK
  <2>5. ~oops'
    BY <1>0, <1>3 DEF CountOK
  <2> QED BY <1>0, <2>2, <2>3, <2>4, <2>5 DEF CountOK
<1>8. LockOK'
  BY <1>0, <1>1, <1>3 DEF LockOK, Owner, Staler, Live
<1>9. TxOK'
  BY <1>0, <1>1, <1>3 DEF TxOK
<1>10. OrderOK'
  <2>1. (\A w \in Txs : tx[w].pc \in {"ail", "drop"} =>
          bli.lsn # 0 /\ \A v \in Txs : tx[v].lsn \in 1 .. tx[w].lsn - 1 => tx[v].pc = "done")'
    BY <1>2, <1>4 DEF PinPcs
  <2>2. (\A w \in Txs : Staler(w) /\ tx[w].pc # "in" => \A v \in Txs \ {w} : tx[v].lsn < tx[w].lsn)'
    BY <1>1, <1>5 DEF Staler, Live
  <2>3. (\A w \in Txs : tx[w].pc = "drop" /\ tx[w].stale => tx[w].freed)'
    BY <1>0, <1>1 DEF OrderOK
  <2> QED BY <2>1, <2>2, <2>3 DEF OrderOK
<1>11. FlagsOK'
  BY <1>0, <1>1, <1>5, <1>6 DEF FlagsOK, RefPcs
<1>12. StaleOK'
  BY <1>1, <1>5, <1>6 DEF StaleOK, Staler, Live
<1>13. QueueOK'
  <2>1. (buf.queued => buf.delwri)'
    BY <1>6
  <2>2. (buf.ino => kind = "inode")'
    BY <1>0, <1>3, <1>6 DEF QueueOK
  <2>3. ((bli.map # {} \/ buf.ino) /\ "STALE" \notin bli.flags =>
          buf.iodone /\ (buf.lock # "io" => buf.delwri) /\ (buf.lock = "free" => buf.queued))'
    <3> SUFFICES ASSUME bli'.map # {} \/ buf'.ino
                 PROVE  buf'.iodone /\ buf'.delwri /\ buf'.queued
      OBVIOUS
    <3>1. bli' = bli /\ buf'.delwri /\ buf'.queued /\ buf.iodone /\ (buf'.ino \/ bli.there => buf'.iodone)
      BY <1>6
    <3>2. bli.map # {} => bli.there
      BY <1>0 DEF FlagsOK, NoItem
    <3> QED BY <3>1, <3>2
  <2> QED BY <2>1, <2>2, <2>3 DEF QueueOK
<1> QED BY <1>7, <1>8, <1>9, <1>10, <1>11, <1>12, <1>13 DEF Rest

LEMMA InodeFlushKeeps == ASSUME BufCorrect, InodeFlushDid PROVE Rest'
<1>0. /\ buf \in Buffer /\ bli \in Item /\ tx \in [Txs -> Tx] /\ buf' \in Buffer /\ bli' \in Item
      /\ CountOK /\ LockOK /\ TxOK /\ OrderOK /\ FlagsOK /\ StaleOK /\ QueueOK
      /\ IsFiniteSet(Txs) /\ Len(log) \in Nat /\ N(RefPcs) \in Nat /\ N(PinPcs) \in Nat /\ Balance(S', N({"wait"})')
  BY KeptParts DEF InodeFlushDid
<1>1. tx' = tx
  BY DEF InodeFlushDid
<1>2. \A u \in Txs : tx'[u] = tx[u]
  BY <1>1
<1>3. /\ bli' = bli /\ kind' = kind /\ oops' = oops /\ push' = push /\ io' = io /\ Len(log') = Len(log) /\ kind = "inode"
  BY <1>0 DEF InodeFlushDid
<1>4. /\ buf'.lock = buf.lock /\ buf'.pin = buf.pin /\ buf'.delwri = TRUE /\ buf'.queued = TRUE
      /\ buf'.stale = FALSE /\ buf'.iodone = TRUE /\ buf'.ino = TRUE /\ buf.lock = "free"
  BY <1>0, <1>1, <1>2 DEF InodeFlushDid, Buffer
<1>5. "STALE" \notin bli.flags
  BY NobodyOwns DEF InodeFlushDid
<1>6. CountOK'
  <2>1. N(RefPcs)' = N(RefPcs) /\ N(PinPcs)' = N(PinPcs)
    BY <1>1, SameNumbers
  <2>2. bli'.ref = N(RefPcs)'
    BY <1>0, <1>3, <2>1 DEF CountOK
  <2>3. buf'.pin = N(PinPcs)'
    BY <1>0, <1>4, <2>1 DEF CountOK
  <2>4. bli'.there <=> bli'.ref > 0 \/ bli'.lsn # 0
    BY <1>0, <1>3 DEF CountOK
  <2>5. ~oops'
    BY <1>0, <1>3 DEF CountOK
  <2> QED BY <1>0, <2>2, <2>3, <2>4, <2>5 DEF CountOK
<1>7. LockOK'
  BY <1>0, <1>1, <1>3, <1>4 DEF LockOK, Owner, Staler, Live
<1>8. TxOK'
  BY <1>0, <1>1, <1>3 DEF TxOK
<1>9. OrderOK'
  BY <1>0, <1>1, <1>3 DEF OrderOK, Staler, Live
<1>10. FlagsOK'
  BY <1>0, <1>1, <1>3 DEF FlagsOK
<1>11. StaleOK'
  BY <1>0, <1>1, <1>3, <1>4, <1>5 DEF StaleOK, Staler, Live
<1>12. QueueOK'
  BY <1>3, <1>4 DEF QueueOK
<1> QED BY <1>6, <1>7, <1>8, <1>9, <1>10, <1>11, <1>12 DEF Rest

----------------------------------------------------------------------------
LEMMA KeptTyped == ASSUME Kept PROVE buf' \in Buffer /\ bli' \in Item
BY DEF Kept, S, Both

\* who wrote the parts last, and what the records say
LEMMA DataTyped ==
  ASSUME TypeOK, BufNext
  PROVE  core' \in [Parts -> Value] /\ disk' \in [Parts -> Value] /\ log' \in Seq(Record)
<1>0. core \in [Parts -> Value] /\ disk \in [Parts -> Value] /\ log \in Seq(Record) /\ bli \in Item
  BY DEF TypeOK
<1>1. core' \in [Parts -> Value]
  <2>1. \A s : CoreRead(s) \in [Parts -> Value]
    BY <1>0 DEF CoreRead
  <2>2. ASSUME NEW t \in Txs, GetBuf(t) PROVE core' \in [Parts -> Value]
    BY <1>0, <2>1, <2>2 DEF GetBuf
  <2>3. ASSUME NEW t \in Txs, LogBuf(t) PROVE core' \in [Parts -> Value]
    <3>1. PICK r \in Ranges(t) : core' = [p \in Parts |-> IF p \in r THEN t ELSE core[p]]
      BY <2>3 DEF LogBuf
    <3> QED BY <1>0, <3>1 DEF Value
  <2>4. ASSUME InodeFlush PROVE core' \in [Parts -> Value]
    BY <2>1, <2>4 DEF InodeFlush
  <2>5. \/ UNCHANGED core \/ InodeFlush \/ \E t \in Txs : GetBuf(t) \/ LogBuf(t)
    BY DEF BufNext, Trans, Find, GetAgain, Brelse, Bhold, BholdRelease, Bjoin, Relse, Binval, Clean, Commit,
           UnlockItems, Abort, Uncommit, CbAil, CbDrop, CbUnpin, PushCheck, PushLock, Push, BufdCheck, BufdLock,
           Strategy, Submit, WriteDone, WriteError, SyncLog, UserWrite, Shutdown
  <2> QED BY <1>0, <2>2, <2>3, <2>4, <2>5
<1>2. disk' \in [Parts -> Value]
  <2>1. \/ UNCHANGED disk \/ disk' = core \/ disk' = [p \in Parts |-> User]
    BY DEF BufNext, Trans, Find, GetBuf, GetAgain, Brelse, Bhold, BholdRelease, Bjoin, Relse, LogBuf, Binval, Clean,
           Commit, UnlockItems, Abort, Uncommit, CbAil, CbDrop, CbUnpin, PushCheck, PushLock, Push, BufdCheck, BufdLock,
           Strategy, Submit, WriteDone, WriteError, InodeFlush, SyncLog, UserWrite, Shutdown
  <2>2. [p \in Parts |-> User] \in [Parts -> Value]
    BY DEF Value
  <2> QED BY <1>0, <2>1, <2>2
<1>3. log' \in Seq(Record)
  <2>1. \/ UNCHANGED log
        \/ log' = Append(log, [parts |-> Logged(bli), val |-> core, cancel |-> "STALE" \in bli.flags])
    BY DEF BufNext, Trans, Find, GetBuf, GetAgain, Brelse, Bhold, BholdRelease, Bjoin, Relse, LogBuf, Binval, Clean,
           Commit, UnlockItems, Abort, Uncommit, CbAil, CbDrop, CbUnpin, PushCheck, PushLock, Push, BufdCheck, BufdLock,
           Strategy, Submit, WriteDone, WriteError, InodeFlush, SyncLog, UserWrite, Shutdown
  <2>2. Logged(bli) \in SUBSET Parts /\ ("STALE" \in bli.flags) \in BOOLEAN
    BY <1>0 DEF Logged, Item
  <2>3. [parts |-> Logged(bli), val |-> core, cancel |-> "STALE" \in bli.flags] \in Record
    BY <1>0, <2>2, Zenon DEF Record
  <2> QED BY <1>0, <2>1, <2>3
<1> QED BY <1>1, <1>2, <1>3

\* Each step of a live filesystem keeps the invariant.
LEMMA StepKeeps ==
  ASSUME BufCorrect, ~Down, BufNext, shut' = 0
  PROVE  BufCorrect'
<1>0. TypeOK /\ tx \in [Txs -> Tx] /\ IsFiniteSet(Txs)
  BY DEF BufCorrect, TypeOK
<1>1. core' \in [Parts -> Value] /\ disk' \in [Parts -> Value] /\ log' \in Seq(Record)
  BY <1>0, DataTyped
<1>2. SUFFICES buf' \in Buffer /\ bli' \in Item /\ tx' \in [Txs -> Tx] /\ Rest'
  BY <1>0, <1>1 DEF BufCorrect, TypeOK
<1>3. ASSUME NEW t \in Txs, DropDid(t) PROVE buf' \in Buffer /\ bli' \in Item /\ tx' \in [Txs -> Tx] /\ Rest'
  BY <1>3, DropKeeps, KeptTyped DEF DropDid, Only
<1>4. ASSUME NEW t \in Txs, MarkDid(t) PROVE buf' \in Buffer /\ bli' \in Item /\ tx' \in [Txs -> Tx] /\ Rest'
  BY <1>0, <1>4, MarkKeeps, KeptTyped DEF MarkDid
<1>5. ASSUME IoDid PROVE buf' \in Buffer /\ bli' \in Item /\ tx' \in [Txs -> Tx] /\ Rest'
  BY <1>0, <1>5, IoKeeps, KeptTyped DEF IoDid, FrameDid
<1>6. ASSUME WriteDid PROVE buf' \in Buffer /\ bli' \in Item /\ tx' \in [Txs -> Tx] /\ Rest'
  BY <1>0, <1>6, WriteKeeps, KeptTyped DEF WriteDid
<1>7. ASSUME NEW t \in Txs, Trans(t) PROVE buf' \in Buffer /\ bli' \in Item /\ tx' \in [Txs -> Tx] /\ Rest'
  <2>1. CASE Find(t)
    <3>1. FindDid(t)
      BY <2>1, FindDoes
    <3> QED BY <3>1, FindKeeps, KeptTyped DEF FindDid, Only
  <2>2. CASE GetBuf(t)
    <3>1. GetBufDid(t)
      BY <2>2, GetBufDoes
    <3> QED BY <3>1, GetBufKeeps, KeptTyped DEF GetBufDid, Only
  <2>3. CASE GetAgain(t) \/ Bhold(t) \/ BholdRelease(t)
    BY <1>4, <2>3, MarkDoes
  <2>4. CASE Brelse(t)
    BY <1>3, <1>4, <2>4, MarkDoes, BrelseDoes
  <2>5. CASE Bjoin(t)
    <3>1. PICK u \in Txs : BjoinDid(t, u)
      BY <2>5, BjoinDoes
    <3> QED BY <3>1, BjoinKeeps, KeptTyped DEF BjoinDid
  <2>6. CASE Relse(t)
    <3>1. RelseDid(t)
      BY <2>6, RelseTxDoes
    <3> QED BY <3>1, RelseKeeps, KeptTyped DEF RelseDid, Only
  <2>7. CASE LogBuf(t)
    <3>1. LogBufDid(t)
      BY <2>7, LogBufDoes
    <3> QED BY <3>1, LogBufKeeps, KeptTyped DEF LogBufDid, Only
  <2>8. CASE Binval(t)
    <3>1. BinvalDid(t)
      BY <2>8, BinvalDoes
    <3> QED BY <3>1, BinvalKeeps, KeptTyped DEF BinvalDid, Only
  <2>9. CASE Clean(t)
    BY <1>3, <2>9, CleanDoes
  <2>10. CASE Commit(t)
    <3>1. CommitDid(t)
      BY <2>10, CommitDoes
    <3> QED BY <3>1, CommitKeeps, KeptTyped DEF CommitDid, Only
  <2>11. CASE UnlockItems(t)
    <3>1. UnlockItemsDid(t)
      BY <2>11, UnlockItemsDoes
    <3> QED BY <3>1, UnlockItemsKeeps, KeptTyped DEF UnlockItemsDid, Only
  <2>12. CASE Abort(t) \/ Uncommit(t)
    BY <2>12 DEF Abort, Uncommit
  <2>13. CASE CbAil(t)
    <3>1. CbAilDid(t)
      BY <2>13, CbAilDoes
    <3> QED BY <3>1, CbAilKeeps, KeptTyped DEF CbAilDid, Only
  <2>14. CASE CbDrop(t)
    <3>1. CbDropDid(t)
      BY <2>14, CbDropDoes
    <3> QED BY <3>1, CbDropKeeps, KeptTyped DEF CbDropDid, Only
  <2>15. CASE CbUnpin(t)
    <3>1. CbUnpinDid(t)
      BY <2>15, CbUnpinDoes
    <3> QED BY <3>1, CbUnpinKeeps, KeptTyped DEF CbUnpinDid, Only
  <2> QED BY <1>7, <2>1, <2>2, <2>3, <2>4, <2>5, <2>6, <2>7, <2>8, <2>9, <2>10, <2>11, <2>12, <2>13, <2>14, <2>15
          DEF Trans
<1>8. CASE PushCheck \/ BufdCheck \/ SyncLog \/ UserWrite \/ Strategy \/ Submit
  BY <1>5, <1>8, IoDoes
<1>9. CASE PushLock
  <2>1. PushLockDid
    BY <1>9, PushLockDoes
  <2> QED BY <1>0, <2>1, PushLockKeeps, KeptTyped DEF PushLockDid
<1>10. CASE Push
  <2>1. PushDid
    BY <1>10, PushDoes
  <2> QED BY <1>0, <2>1, PushKeeps, KeptTyped DEF PushDid
<1>11. CASE BufdLock
  <2>1. BufdLockDid
    BY <1>11, BufdLockDoes
  <2> QED BY <1>0, <2>1, BufdLockKeeps, KeptTyped DEF BufdLockDid
<1>12. CASE WriteDone \/ WriteError
  BY <1>6, <1>12, WriteDoes
<1>13. CASE InodeFlush
  <2>1. InodeFlushDid
    BY <1>13, InodeFlushDoes
  <2> QED BY <1>0, <2>1, InodeFlushKeeps, KeptTyped DEF InodeFlushDid
<1>14. CASE Shutdown
  <2>1. UNCHANGED <<kind, buf, bli, tx, log, io, push, oops>>
    BY <1>14 DEF Shutdown
  <2> QED BY <2>1 DEF BufCorrect, TypeOK, Rest, CountOK, LockOK, TxOK, OrderOK, FlagsOK, StaleOK, QueueOK,
      Balance, S, N,
             Owner, Staler, Live
<1> QED BY <1>7, <1>8, <1>9, <1>10, <1>11, <1>12, <1>13, <1>14 DEF BufNext

\* A filesystem that has been shut down stays so.
LEMMA DownStays == ASSUME [BufNext]_bufVars, ~Down' PROVE ~Down
BY DEF Down, bufVars, BufNext, Trans, Find, GetBuf, GetAgain, Brelse, Bhold, BholdRelease, Bjoin, Relse, LogBuf,
   Binval,
       Clean, Commit, UnlockItems, Abort, Uncommit, CbAil, CbDrop, CbUnpin, PushCheck, PushLock, Push, BufdCheck,
       BufdLock, Strategy, Submit, WriteDone, WriteError, InodeFlush, SyncLog, UserWrite, Shutdown

LEMMA StartsCorrect == ASSUME IsFiniteSet(Txs), BufInit PROVE BufCorrect
<1>0. /\ tx = [t \in Txs |-> NoTx] /\ core = [p \in Parts |-> 0] /\ io = "none" /\ push = "idle" /\ shut = 0 /\ oops = FALSE
      /\ Unlogged \/ LoggedBefore
  BY DEF BufInit
<1>1. tx \in [Txs -> Tx] /\ \A t \in Txs : tx[t] = NoTx
  BY <1>0 DEF Tx, NoTx
<1>2. \A A : "idle" \notin A => N(A) = 0
  BY <1>1, NoneIn DEF NoTx
<1>3. N(RefPcs) = 0 /\ N(PinPcs) = 0 /\ N({"wait"}) = 0
  BY <1>2 DEF RefPcs, PinPcs
<1>4. core \in [Parts -> Value] /\ [p \in Parts |-> 0] \in [Parts -> Value] /\ [p \in Parts |-> User] \in [Parts -> Value]
  BY <1>0 DEF Value
<1>5. TxOK
  BY <1>1 DEF TxOK, NoTx, PinPcs
<1>6. \A t \in Txs : ~Owner(t) /\ ~Staler(t) /\ ~Live(t) /\ tx[t].pc = "idle"
  BY <1>1 DEF Owner, Staler, Live, NoTx
<1>7. LockOK
  BY <1>0, <1>6 DEF LockOK
<1>8. OrderOK
  BY <1>6 DEF OrderOK
<1>9. CASE Unlogged
  <2>1. buf = NoBuf /\ bli = NoItem /\ log = <<>> /\ disk = [p \in Parts |-> 0]
    BY <1>9 DEF Unlogged
  <2>2. buf \in Buffer /\ bli \in Item
    BY <2>1 DEF NoBuf, NoItem, Buffer, Item
  <2>3. TypeOK
    BY <1>0, <1>1, <1>4, <2>1, <2>2 DEF TypeOK
  <2>4. CountOK
    BY <1>0, <1>3, <2>1 DEF CountOK, Balance, S, One, NoBuf, NoItem
  <2>5. FlagsOK
    BY <1>6, <2>1 DEF FlagsOK, NoItem
  <2>6. StaleOK /\ QueueOK
    BY <1>6, <2>1 DEF StaleOK, QueueOK, NoItem, NoBuf
  <2> QED BY <1>5, <1>7, <1>8, <2>3, <2>4, <2>5, <2>6 DEF BufCorrect, Rest
<1>10. CASE LoggedBefore
  <2>1. /\ buf = [NoBuf EXCEPT !.hold = 2, !.delwri = TRUE, !.queued = TRUE, !.done = TRUE, !.iodone = TRUE]
        /\ bli = [NoItem EXCEPT !.there = TRUE, !.map = Parts, !.lsn = 1,
                         !.flags = {"DIRTY"} \cup (IF kind = "inode" THEN {"INODE_ALLOC"} ELSE {})]
        /\ log = <<[parts |-> Parts, val |-> [p \in Parts |-> 0], cancel |-> FALSE]>>
        /\ disk = [p \in Parts |-> User]
    BY <1>10 DEF LoggedBefore
  <2>2. PICK f \in SUBSET Flags : /\ "DIRTY" \in f /\ "STALE" \notin f /\ "LOGGED" \notin f
                                  /\ bli = [NoItem EXCEPT !.there = TRUE, !.map = Parts, !.lsn = 1, !.flags = f]
    BY <2>1 DEF Flags
  <2>3. /\ bli \in Item /\ bli.there = TRUE /\ bli.map = Parts /\ bli.lsn = 1 /\ bli.flags = f /\ bli.ref = 0
    <3>1. bli = [there |-> TRUE, ref |-> 0, flags |-> f, fmt |-> {}, map |-> Parts, lsn |-> 1, recur |-> 0]
      BY <2>2 DEF NoItem
    <3> QED BY <3>1 DEF Item
  <2>4. /\ buf \in Buffer /\ buf.hold = 2 /\ buf.lock = "free" /\ buf.pin = 0 /\ buf.delwri = TRUE /\ buf.queued = TRUE
        /\ buf.stale = FALSE /\ buf.iodone = TRUE /\ buf.ino = FALSE
    <3>1. buf = [hold |-> 2, lock |-> "free", pin |-> 0, delwri |-> TRUE, queued |-> TRUE, stale |-> FALSE,
                 done |-> TRUE, iodone |-> TRUE, ino |-> FALSE]
      BY <2>1 DEF NoBuf
    <3> QED BY <3>1 DEF Buffer
  <2>5. log \in Seq(Record)
    <3>1. [parts |-> Parts, val |-> [p \in Parts |-> 0], cancel |-> FALSE] \in Record
      BY <1>4 DEF Record
    <3> QED BY <2>1, <3>1
  <2>6. TypeOK
    BY <1>0, <1>1, <1>4, <2>1, <2>3, <2>4, <2>5 DEF TypeOK
  <2>7. Parts # {}
    BY DEF Parts
  <2>8. CountOK
    BY <1>0, <1>3, <2>3, <2>4 DEF CountOK, Balance, S, One
  <2>9. FlagsOK
    BY <1>6, <2>2, <2>3, <2>7 DEF FlagsOK
  <2>10. StaleOK /\ QueueOK
    BY <1>6, <2>2, <2>3, <2>4 DEF StaleOK, QueueOK
  <2> QED BY <1>5, <1>7, <1>8, <2>6, <2>8, <2>9, <2>10 DEF BufCorrect, Rest
<1> QED BY <1>0, <1>9, <1>10

----------------------------------------------------------------------------
\* Until a shutdown the transactions, the AIL, the delayed write queue and whoever has the buffer
\* locked agree on it and on its log item, whatever number of transactions use them in whatever
\* order, with xfsaild, xfsbufd, failed writes and inode flushes in between.
BufferAgrees == ~Down => BufCorrect
THEOREM BufferIsAgreedOn == ASSUME IsFiniteSet(Txs) PROVE BufSpec => []BufferAgrees
<1>1. BufInit => BufferAgrees
  BY StartsCorrect DEF BufferAgrees
<1>2. BufferAgrees /\ [BufNext]_bufVars => BufferAgrees'
  <2> SUFFICES ASSUME BufferAgrees, [BufNext]_bufVars, ~Down' PROVE BufCorrect'
    BY DEF BufferAgrees
  <2>1. ~Down /\ BufCorrect
    BY DownStays DEF BufferAgrees
  <2>2. CASE BufNext
    <3>1. shut' = 0
      BY DEF Down
    <3> QED BY <2>1, <2>2, <3>1, StepKeeps
  <2>3. CASE UNCHANGED bufVars
    BY <2>1, <2>3 DEF bufVars, BufCorrect, TypeOK, Rest, CountOK, LockOK, TxOK, OrderOK, FlagsOK, StaleOK, QueueOK,
       Balance, S, N, Owner, Staler, Live
  <2> QED BY <2>2, <2>3
<1> QED BY <1>1, <1>2, PTL DEF BufSpec

\* References, pins and holds are dropped once each by whoever comes last, the item lives as long
\* as a transaction or the AIL needs it, and what keeps the tail of the log or an inode's flush
\* lock is on the queue of xfsbufd as soon as nobody has it locked.
THEOREM NoBufferIsLost == ASSUME IsFiniteSet(Txs) PROVE BufSpec => []BufferIsKept
<1>1. BufferAgrees => BufferIsKept
  <2> SUFFICES ASSUME BufCorrect, ~Down PROVE BufferIsKept
    BY DEF BufferAgrees, BufferIsKept, BufferIsCounted, BufferIsQueued
  <2>1. buf \in Buffer /\ bli \in Item /\ CountOK /\ LockOK /\ FlagsOK /\ StaleOK /\ QueueOK
    BY Typed DEF BufCorrect, Rest
  <2>2. CountOf(Refers) = N(RefPcs) /\ CountOf(Pins) = N(PinPcs)
    BY DEF CountOf, Refers, Pins, N, RefPcs, PinPcs
  <2>3. CountOf(LAMBDA t : tx[t].pc = "wait") = N({"wait"})
    <3>1. {t \in Txs : tx[t].pc = "wait"} = {t \in Txs : tx[t].pc \in {"wait"}}
      OBVIOUS
    <3> QED BY <3>1 DEF CountOf, N
  <2>4. buf.hold = One(bli.there) + One(buf.queued) + One(buf.lock # "free") + CountOf(LAMBDA t : tx[t].pc = "wait")
    BY <2>1, <2>3 DEF CountOK, Balance, S
  <2>5. push = "locked" => bli.there
    BY <2>1 DEF CountOK, LockOK
  <2>6. BufferIsCounted
    BY <2>1, <2>2, <2>4, <2>5 DEF BufferIsCounted, CountOK
  <2>7. BufferIsQueued
    <3> SUFFICES ASSUME bli.lsn # 0 \/ buf.ino, buf.lock = "free" PROVE buf.delwri /\ buf.queued
      BY DEF BufferIsQueued
    <3>1. "STALE" \notin bli.flags
      BY NobodyOwns
    <3>2. bli.lsn # 0 => bli.map # {}
      BY <2>1, <3>1 DEF CountOK, FlagsOK
    <3> QED BY <2>1, <3>1, <3>2 DEF QueueOK
  <2> QED BY <2>6, <2>7 DEF BufferIsKept
<1> QED BY <1>1, BufferIsAgreedOn, PTL
=============================================================================
