------------------------------ MODULE XfsBtree ------------------------------
(***************************************************************************)
(* The generic btree (xfs_btree.c) under the free-space, inode and extent  *)
(* trees.  A tree is a set of blocks linked to their siblings, with the    *)
(* root either in a block the AG header names or in the inode itself       *)
(* (XFS_BTREE_ROOT_IN_INODE); a cursor holds a block and an index at every *)
(* level.  A record is its key.  Block contents, logging and readahead are *)
(* left out; every handler works on the whole tree at once, as its caller  *)
(* holds the AG header or the inode locked.                                *)
(***************************************************************************)
EXTENDS Integers, Sequences, FiniteSets, FiniteSetsExt, SequencesExt

CONSTANTS
  Blocks,    \* the disk blocks a tree may use, numbered from 1
  LeafMax,   \* get_maxrecs of a leaf
  NodeMax,   \* get_maxrecs of an interior block
  RootMax,   \* get_dmaxrecs of a root in the inode
  Levels,    \* bound: the height a tree may reach
  MaxKeys    \* bound: the records in a tree

VARIABLES
  tree,      \* the tree on disk and in the inode
  content    \* the keys the callers have put in and not taken out

btreeVars == <<tree, content>>

NullBlock == -1  \* NULLAGBLOCK, NULLDFSBNO
Iroot == 0     \* the block in the inode
NoBlock == [level |-> NullBlock, recs |-> <<>>, left |-> NullBlock, right |-> NullBlock]
NoCursor == [nlevels |-> 0, bufs |-> <<>>, ptrs |-> <<>>]

MaxRecs(level) == IF level = 0 THEN LeafMax ELSE NodeMax
MinRecs(level) == MaxRecs(level) \div 2

Rec(k, p) == [k |-> k, p |-> p]
TakenAt(s, i) == SubSeq(s, 1, i - 1) \o SubSeq(s, i + 1, Len(s))
PutAt(s, i, r) == SubSeq(s, 1, i - 1) \o <<r>> \o SubSeq(s, i, Len(s))

\* bufs[level + 1] and ptrs[level + 1] are bc_bufs[level] and bc_ptrs[level]
InRoot(t, c, level) == t.iroot /\ level = c.nlevels - 1
BlockNo(t, c, level) == IF InRoot(t, c, level) THEN Iroot ELSE c.bufs[level + 1]
Block(t, c, level) == t.b[BlockNo(t, c, level)]
Ptr(c, level) == c.ptrs[level + 1]
NumRecs(t, c, level) == Len(Block(t, c, level).recs)
SetPtr(c, level, n) == [c EXCEPT !.ptrs[level + 1] = n]
SetBuf(c, level, bno) == [c EXCEPT !.bufs[level + 1] = bno]

InitCursor(t) == [nlevels |-> t.nlevels, bufs |-> [l \in 1 .. Levels |-> NullBlock],
                  ptrs |-> [l \in 1 .. Levels |-> 0]]

\* alloc_block and free_block of the tree's operations
AllocBlock(t) == Min({bno \in Blocks : t.b[bno] = NoBlock})
FreeBlock(t, bno) == [t EXCEPT !.b[bno] = NoBlock]

\* agf_longest follows the last record of the by-size tree
IsLastrec(t, bno) == t.b[bno].level = 0 /\ t.b[bno].right = NullBlock
LastrecIns(t, bno, k) == IF IsLastrec(t, bno) /\ k > t.last THEN [t EXCEPT !.last = k] ELSE t
LastrecUpd(t, bno, ptr, k) ==
  IF IsLastrec(t, bno) /\ ptr = Len(t.b[bno].recs) THEN [t EXCEPT !.last = k] ELSE t
LastrecDel(t, bno, ptr) ==
  LET recs == t.b[bno].recs
  IN IF ~IsLastrec(t, bno) \/ ptr <= Len(recs) THEN t
     ELSE [t EXCEPT !.last = IF recs = <<>> THEN 0 ELSE recs[Len(recs)].k]

----------------------------------------------------------------------------
(* Moving a cursor *)

RECURSIVE Descend(_, _, _, _, _)
Descend(t, c, from, level, atEnd) ==
  IF from = level THEN c
  ELSE LET bno == Block(t, c, from).recs[Ptr(c, from)].p
           ptr == IF atEnd THEN Len(t.b[bno].recs) ELSE 1
       IN Descend(t, SetPtr(SetBuf(c, from - 1, bno), from - 1, ptr), from - 1, level, atEnd)

\* up from level, the first level whose entry has a neighbour on that side
Above(c, level, room) == Min({l \in level + 1 .. c.nlevels - 1 : l \in room} \cup {c.nlevels})

MoveUp(t, c, level, up, step) ==
  IF up = c.nlevels THEN [c |-> c, stat |-> 0]
  ELSE [c |-> Descend(t, SetPtr(c, up, Ptr(c, up) + step), up, level, step < 0), stat |-> 1]

Increment(t, c, level) ==
  IF Ptr(c, level) + 1 <= NumRecs(t, c, level) \/ Block(t, c, level).right = NullBlock
    THEN [c |-> SetPtr(c, level, Ptr(c, level) + 1),
          stat |-> IF Ptr(c, level) + 1 <= NumRecs(t, c, level) THEN 1 ELSE 0]
    ELSE MoveUp(t, c, level, Above(c, level, {l \in 0 .. c.nlevels - 1 : Ptr(c, l) < NumRecs(t, c, l)}), 1)

Decrement(t, c, level) ==
  IF Ptr(c, level) > 1 \/ Block(t, c, level).left = NullBlock
    THEN [c |-> SetPtr(c, level, Ptr(c, level) - 1), stat |-> IF Ptr(c, level) > 1 THEN 1 ELSE 0]
    ELSE MoveUp(t, c, level, Above(c, level, {l \in 0 .. c.nlevels - 1 : Ptr(c, l) > 1}), -1)

Lastrec(t, c, level) == SetPtr(c, level, NumRecs(t, c, level))
Firstrec(c, level) == SetPtr(c, level, 1)
DecCursor(t, c, level) == IF level > 0 THEN Decrement(t, c, level).c ELSE c

\* the index probed last and how its key compares with k
Probe(recs, k) ==
  LET RECURSIVE Halve(_, _, _)
      Halve(low, high, last) ==
        IF low > high THEN last
        ELSE LET n == (low + high) \div 2
                 diff == recs[n].k - k
             IN CASE diff < 0 -> Halve(n + 1, high, [n |-> n, diff |-> diff])
                  [] diff > 0 -> Halve(low, n - 1, [n |-> n, diff |-> diff])
                  [] OTHER -> [n |-> n, diff |-> 0]
  IN Halve(1, Len(recs), [n |-> 0, diff |-> 1])

\* From the root to the leaf; once a key is equal the first entry is taken.
RECURSIVE Walk(_, _, _, _, _, _)
WalkOn(t, c, level, bno, p, k) ==
  IF level = 0 THEN [c |-> SetBuf(c, 0, bno), p |-> p]
  ELSE LET n == IF p.diff > 0 /\ p.n > 1 THEN p.n - 1 ELSE p.n
       IN Walk(t, SetPtr(SetBuf(c, level, bno), level, n), level - 1, t.b[bno].recs[n].p, p.diff, k)
Walk(t, c, level, bno, diff, k) ==
  WalkOn(t, c, level, bno, IF diff = 0 THEN [n |-> 1, diff |-> 0] ELSE Probe(t.b[bno].recs, k), k)

\* c stands on the leaf, p is the last probe of it; the direction decides
Settle(t, c, p, dir, keyno, n) ==
  CASE n = 0 -> [c |-> SetPtr(c, 0, IF dir # "LE" THEN 1 ELSE 0), stat |-> 0]
    [] n # 0 /\ dir = "GE" /\ keyno > n /\ Block(t, c, 0).right # NullBlock ->
         Increment(t, SetPtr(c, 0, keyno), 0)
    [] OTHER -> [c |-> SetPtr(c, 0, keyno),
                 stat |-> IF keyno \in 1 .. n /\ (dir # "EQ" \/ p.diff = 0) THEN 1 ELSE 0]

LookupAt(t, w, dir) ==
  Settle(t, w.c, w.p, dir,
         CASE dir # "LE" /\ w.p.diff < 0 -> w.p.n + 1
           [] dir = "LE" /\ w.p.diff > 0 -> w.p.n - 1
           [] OTHER -> w.p.n,
         NumRecs(t, w.c, 0))

Lookup(t, dir, k) == LookupAt(t, Walk(t, InitCursor(t), t.nlevels - 1, t.root, 1, k), dir)

GetRec(t, c) ==
  IF Ptr(c, 0) \in 1 .. NumRecs(t, c, 0) THEN Block(t, c, 0).recs[Ptr(c, 0)].k ELSE NullBlock

----------------------------------------------------------------------------
(* Changing keys, moving entries between neighbours *)

RECURSIVE UpdKey(_, _, _, _)
UpdKey(t, c, k, level) ==
  IF level >= c.nlevels THEN t
  ELSE LET t1 == [t EXCEPT !.b[BlockNo(t, c, level)].recs[Ptr(c, level)].k = k]
       IN IF Ptr(c, level) = 1 THEN UpdKey(t1, c, k, level + 1) ELSE t1

Update(t, c, k) ==
  LET bno == BlockNo(t, c, 0)
      t1  == LastrecUpd([t EXCEPT !.b[bno].recs[Ptr(c, 0)].k = k], bno, Ptr(c, 0), k)
  IN IF Ptr(c, 0) = 1 THEN UpdKey(t1, c, k, 1) ELSE t1

Unshifted(t, c) == [t |-> t, c |-> c, stat |-> 0]

\* the first entry of block r goes to the end of block l, its left neighbour
MovedLeft(t, l, r) ==
  [t EXCEPT !.b[l].recs = Append(@, t.b[r].recs[1]), !.b[r].recs = Tail(@)]

ShiftLeft(t, c, level, l, r) ==
  IF \/ InRoot(t, c, level) \/ l = NullBlock \/ Ptr(c, level) <= 1
     \/ Len(t.b[l].recs) = MaxRecs(level)
    THEN Unshifted(t, c)
    ELSE [t |-> UpdKey(MovedLeft(t, l, r), c, t.b[r].recs[2].k, level + 1),
          c |-> SetPtr(c, level, Ptr(c, level) - 1), stat |-> 1]

Lshift(t, c, level) ==
  ShiftLeft(t, c, level, Block(t, c, level).left, BlockNo(t, c, level))

\* the last entry of block l goes to the front of block r, its right neighbour
MovedRight(t, l, r, n) ==
  [t EXCEPT !.b[r].recs = <<t.b[l].recs[n]>> \o @, !.b[l].recs = SubSeq(@, 1, n - 1)]

ShiftRight(t, c, level, l, r, n) ==
  IF \/ InRoot(t, c, level) \/ r = NullBlock \/ Ptr(c, level) >= n
     \/ Len(t.b[r].recs) = MaxRecs(level)
    THEN Unshifted(t, c)
    ELSE [t |-> UpdKey(MovedRight(t, l, r, n), Increment(t, Lastrec(t, c, level), level).c,
                       t.b[l].recs[n].k, level + 1),
          c |-> c, stat |-> 1]

Rshift(t, c, level) ==
  ShiftRight(t, c, level, BlockNo(t, c, level), Block(t, c, level).right, NumRecs(t, c, level))

----------------------------------------------------------------------------
(* Insertion *)

\* The upper half goes to a new right neighbour; a second cursor, for the level
\* above, stands at the entry after the one of the block that was split.
SplitAt(t, c, level, l, r, recs, lrecs) ==
  LET rr == t.b[l].right
      c1 == IF Ptr(c, level) > lrecs + 1
              THEN SetPtr(SetBuf(c, level, r), level, Ptr(c, level) - lrecs) ELSE c
  IN [t |-> [t EXCEPT !.b = [bno \in DOMAIN @ |->
               CASE bno = r -> [level |-> level, left |-> l, right |-> rr,
                                recs |-> SubSeq(recs, lrecs + 1, Len(recs))]
                 [] bno = l -> [@[l] EXCEPT !.recs = SubSeq(recs, 1, lrecs), !.right = r]
                 [] bno = rr -> [@[rr] EXCEPT !.left = r]
                 [] OTHER -> @[bno]]],
      c |-> c1, nptr |-> r, nkey |-> recs[lrecs + 1].k,
      ncur |-> IF level + 1 < c.nlevels THEN SetPtr(c1, level + 1, Ptr(c, level + 1) + 1)
               ELSE NoCursor]

\* how many entries stay: half, the odd one where the new entry will not go
SplitPoint(n, ptr) == n - n \div 2 - (IF n % 2 = 1 /\ ptr <= n \div 2 + 1 THEN 1 ELSE 0)

Split(t, c, level) ==
  SplitAt(t, c, level, BlockNo(t, c, level), AllocBlock(t), Block(t, c, level).recs,
          SplitPoint(NumRecs(t, c, level), Ptr(c, level)))

\* The inode's root is full: its entries move to a block, the only child.
NewIroot(t, c) ==
  LET n == AllocBlock(t)
      level == c.nlevels - 1
      root == t.b[Iroot]
      t1 == [t EXCEPT !.b[n] = root,
                      !.b[Iroot] = [root EXCEPT !.level = @ + 1, !.recs = <<Rec(root.recs[1].k, n)>>],
                      !.nlevels = @ + 1]
  IN [t |-> t1, c |-> SetBuf(SetPtr([c EXCEPT !.nlevels = @ + 1], level + 1, 1), level, n)]

NewRootOver(t, c, n, l, r, nptr) ==
  [t |-> [t EXCEPT !.b[n] = [level |-> c.nlevels, left |-> NullBlock, right |-> NullBlock,
                             recs |-> <<Rec(t.b[l].recs[1].k, l), Rec(t.b[r].recs[1].k, r)>>],
                   !.root = n, !.nlevels = @ + 1],
   c |-> SetPtr(SetBuf([c EXCEPT !.nlevels = @ + 1], c.nlevels, n), c.nlevels, nptr)]

NewRoot(t, c) ==
  LET bno == BlockNo(t, c, c.nlevels - 1)
  IN IF t.b[bno].right # NullBlock THEN NewRootOver(t, c, AllocBlock(t), bno, t.b[bno].right, 1)
     ELSE NewRootOver(t, c, AllocBlock(t), t.b[bno].left, bno, 2)

\* Room for one more entry: in the inode, from a neighbour, or by a split.
Unfull(t, c, optr) ==
  [t |-> t, c |-> c, optr |-> optr, nptr |-> NullBlock, nkey |-> NullBlock, ncur |-> NoCursor]

UnfullIroot(t, c, level, ir) ==
  IF NumRecs(t, c, level) < RootMax THEN Unfull(t, c, Ptr(c, level))
  ELSE Unfull(ir.t, ir.c, Ptr(c, level))

UnfullBlock(optr, level, rs, ls, sp) ==
  CASE rs.stat = 1 -> Unfull(rs.t, rs.c, optr)
    [] rs.stat = 0 /\ ls.stat = 1 -> Unfull(ls.t, ls.c, Ptr(ls.c, level))
    [] OTHER -> [Unfull(sp.t, sp.c, optr) EXCEPT !.nptr = sp.nptr, !.nkey = sp.nkey, !.ncur = sp.ncur]

MakeBlockUnfull(t, c, level) ==
  IF InRoot(t, c, level) THEN UnfullIroot(t, c, level, NewIroot(t, c))
  ELSE UnfullBlock(Ptr(c, level), level, Rshift(t, c, level), Lshift(t, c, level), Split(t, c, level))

PutRec(u, level, p, k) ==
  LET t1 == [u.t EXCEPT !.b[BlockNo(u.t, u.c, level)].recs = PutAt(@, Ptr(u.c, level), Rec(k, p))]
  IN [u EXCEPT !.t = LastrecIns(IF u.optr = 1 THEN UpdKey(t1, u.c, k, level + 1) ELSE t1,
                                BlockNo(u.t, u.c, level), k)]

WithRoot(r) == Unfull(r.t, r.c, 0)

Insrec(t, c, level, p, k) ==
  IF ~t.iroot /\ level >= c.nlevels THEN WithRoot(NewRoot(t, c))
  ELSE PutRec(IF InRoot(t, c, level) \/ NumRecs(t, c, level) = MaxRecs(level)
                THEN MakeBlockUnfull(t, c, level) ELSE Unfull(t, c, Ptr(c, level)),
              level, p, k)

\* Level by level while a split asks for an entry one level up; pcur is the cursor
\* of that level, which is cur itself until a split has made another.
RECURSIVE InsertUp(_, _, _, _, _, _)
Inserted(r, cur, own, level) ==
  LET cur1 == IF own THEN r.c
              ELSE IF r.ncur # NoCursor \/ r.nptr = NullBlock THEN [cur EXCEPT !.nlevels = r.c.nlevels]
              ELSE cur
  IN IF r.nptr = NullBlock THEN [t |-> r.t, c |-> cur1]
     ELSE InsertUp(r.t, cur1,
                   IF r.ncur # NoCursor THEN r.ncur ELSE IF own THEN NoCursor ELSE r.c,
                   level + 1, r.nptr, r.nkey)
InsertUp(t, cur, pcur, level, p, k) ==
  Inserted(Insrec(t, IF pcur = NoCursor THEN cur ELSE pcur, level, p, k), cur,
           pcur = NoCursor, level)

Insert(t, c, k) == InsertUp(t, c, NoCursor, 0, NullBlock, k)

----------------------------------------------------------------------------
(* Deletion *)

\* The inode's root takes over the entries of its only child if they fit.
KillIroot(t, c) ==
  LET level == c.nlevels - 1
      child == BlockNo(t, c, level - 1)
  IN IF level = 1 \/ Len(t.b[Iroot].recs) # 1 \/ Len(t.b[child].recs) > RootMax
       THEN [t |-> t, c |-> c]
       ELSE [t |-> FreeBlock([t EXCEPT !.b[Iroot].recs = t.b[child].recs,
                                       !.b[Iroot].level = @ - 1, !.nlevels = @ - 1], child),
             c |-> SetBuf([c EXCEPT !.nlevels = @ - 1], level - 1, NullBlock)]

KillRoot(t, c, level) ==
  LET bno == c.bufs[level + 1]
  IN [t |-> FreeBlock([t EXCEPT !.root = t.b[bno].recs[1].p, !.nlevels = @ - 1], bno),
      c |-> SetBuf([c EXCEPT !.nlevels = @ - 1], level, NullBlock)]

Stepped(r, level) == [t |-> r.t, c |-> DecCursor(r.t, r.c, level), stat |-> 1]
Killed(r) == [t |-> r.t, c |-> r.c, stat |-> 1]

DelrecRoot(t, c, level) ==
  CASE t.iroot -> Stepped(KillIroot(t, c), level)
    [] ~t.iroot /\ level > 0 /\ NumRecs(t, c, level) = 1 -> Killed(KillRoot(t, c, level))
    [] OTHER -> Stepped([t |-> t, c |-> c], level)

\* One entry from the right or the left neighbour, if it can spare one.
TakeRight(t, c, level, tcur, ls) ==
  IF NumRecs(t, tcur, level) - 1 >= MinRecs(level) /\ ls.stat = 1
    THEN Stepped([t |-> ls.t, c |-> c], level) ELSE Unshifted(t, c)
LshiftAt(t, c, level, tcur) == TakeRight(t, c, level, tcur, Lshift(t, tcur, level))
FromRight(t, c, level) ==
  IF Block(t, c, level).right = NullBlock THEN Unshifted(t, c)
  ELSE LshiftAt(t, c, level, Lastrec(t, Increment(t, Lastrec(t, c, level), level).c, level))

TakeLeft(t, c, level, tcur, rs) ==
  IF NumRecs(t, tcur, level) - 1 >= MinRecs(level) /\ rs.stat = 1
    THEN [t |-> rs.t, c |-> IF level = 0 THEN SetPtr(c, 0, Ptr(c, 0) + 1) ELSE c, stat |-> 1]
    ELSE Unshifted(t, c)
RshiftAt(t, c, level, tcur) == TakeLeft(t, c, level, tcur, Rshift(t, tcur, level))
FromLeft(t, c, level) ==
  IF Block(t, c, level).left = NullBlock THEN Unshifted(t, c)
  ELSE RshiftAt(t, c, level, Firstrec(Decrement(t, Firstrec(c, level), level).c, level))

\* The block and a neighbour become one; the entry for the right one is to be
\* deleted one level up (stat 2), where the cursor must stand on it.
Joined(t, l, r) ==
  [t EXCEPT !.b = [bno \in DOMAIN @ |->
     CASE bno = l -> [@[l] EXCEPT !.recs = @ \o t.b[r].recs, !.right = t.b[r].right]
       [] bno = r -> NoBlock
       [] bno = t.b[r].right -> [@[bno] EXCEPT !.left = l]
       [] OTHER -> @[bno]]]

Join(t, c, level, l, r) ==
  LET c1 == IF c.bufs[level + 1] = r
              THEN SetPtr(SetBuf(c, level, l), level, Ptr(c, level) + Len(t.b[l].recs))
              ELSE Increment(t, c, level + 1).c
  IN [t |-> Joined(t, l, r), c |-> IF level > 0 THEN SetPtr(c1, level, Ptr(c1, level) - 1) ELSE c1,
      stat |-> 2]

JoinEither(t, c, level, l, bno, r, n) ==
  CASE l # NullBlock /\ Len(t.b[l].recs) + n <= MaxRecs(level) -> Join(t, c, level, l, bno)
    [] ~(l # NullBlock /\ Len(t.b[l].recs) + n <= MaxRecs(level))
         /\ r # NullBlock /\ Len(t.b[r].recs) + n <= MaxRecs(level) -> Join(t, c, level, bno, r)
    [] OTHER -> Stepped([t |-> t, c |-> c], level)

Rebalance(t, c, level, b, fr, fl) ==
  CASE t.iroot /\ b.left = NullBlock /\ b.right = NullBlock /\ level = c.nlevels - 2 ->
         Stepped(KillIroot(t, c), level)
    [] fr.stat = 1 -> fr
    [] fr.stat = 0 /\ fl.stat = 1 -> fl
    [] OTHER -> JoinEither(t, c, level, b.left, BlockNo(t, c, level), b.right, Len(b.recs))

DelrecRest(t, c, level) ==
  IF NumRecs(t, c, level) >= MinRecs(level) THEN Stepped([t |-> t, c |-> c], level)
  ELSE Rebalance(t, c, level, Block(t, c, level), FromRight(t, c, level), FromLeft(t, c, level))

\* the new first key of a block, for the entries above it
NewFirst(t, c, level, ptr) ==
  IF ptr = 1 /\ NumRecs(t, c, level) > 0
    THEN UpdKey(t, c, Block(t, c, level).recs[1].k, level + 1) ELSE t

TakeRec(t, bno, ptr) == LastrecDel([t EXCEPT !.b[bno].recs = TakenAt(@, ptr)], bno, ptr)

Delrec(t, c, level) ==
  IF Ptr(c, level) \notin 1 .. NumRecs(t, c, level) THEN Unshifted(t, c)
  ELSE IF level = c.nlevels - 1
    THEN DelrecRoot(TakeRec(t, BlockNo(t, c, level), Ptr(c, level)), c, level)
    ELSE DelrecRest(NewFirst(TakeRec(t, BlockNo(t, c, level), Ptr(c, level)), c, level, Ptr(c, level)),
                    c, level)

RECURSIVE DeleteUp(_, _, _)
Deleted(d, level) ==
  LET zero == {l \in 1 .. d.c.nlevels - 1 : Ptr(d.c, l) = 0}
  IN CASE d.stat = 2 -> DeleteUp(d.t, d.c, level + 1)
       [] d.stat = 0 /\ zero # {} -> [t |-> d.t, c |-> Decrement(d.t, d.c, Min(zero)).c]
       [] OTHER -> [t |-> d.t, c |-> d.c]
DeleteUp(t, c, level) == Deleted(Delrec(t, c, level), level)

Delete(t, c) == DeleteUp(t, c, 0)

----------------------------------------------------------------------------
(* The callers: a lookup, then an insertion, a deletion or an update *)

NoBlocks == [b \in Blocks \cup {Iroot} |-> NoBlock]
Leaf(recs) == [level |-> 0, recs |-> recs, left |-> NullBlock, right |-> NullBlock]

\* mkfs: an empty leaf as the root.  xfs_bmap_extents_to_btree: a root in the inode
\* over one leaf with the extents there were.
BtreeInit ==
  \/ /\ content = {}
     /\ tree = [b |-> [NoBlocks EXCEPT ![1] = Leaf(<<>>)], root |-> 1, nlevels |-> 1,
                iroot |-> FALSE, last |-> 0]
  \/ /\ content = {2, 4}
     /\ tree = [b |-> [NoBlocks EXCEPT ![1] = Leaf(<<Rec(2, NullBlock), Rec(4, NullBlock)>>),
                                       ![Iroot] = [Leaf(<<Rec(2, 1)>>) EXCEPT !.level = 1]],
                root |-> Iroot, nlevels |-> 2, iroot |-> TRUE, last |-> 4]

RECURSIVE InOrder(_, _)
InOrder(t, bno) ==
  LET recs == t.b[bno].recs
  IN IF t.b[bno].level = 0 THEN [i \in 1 .. Len(recs) |-> recs[i].k]
     ELSE FlattenSeq([i \in 1 .. Len(recs) |-> InOrder(t, recs[i].p)])

\* blocks of a level from left to right by the parents' pointers
RECURSIVE Row(_, _)
Row(t, level) ==
  IF level = t.nlevels - 1 THEN <<t.root>>
  ELSE FlattenSeq(LET up == Row(t, level + 1) IN
         [i \in 1 .. Len(up) |-> [j \in 1 .. Len(t.b[up[i]].recs) |-> t.b[up[i]].recs[j].p]])

\* Only the order of the keys matters, and which block is which does not: before an
\* operation the keys are renamed to the first even numbers, and the blocks to the
\* first block numbers row by row, so that equal trees are one state.
Renamed(t, walk, order) ==
  LET key == [k \in {walk[i] : i \in 1 .. Len(walk)} |-> 2 * (CHOOSE i \in 1 .. Len(walk) : walk[i] = k)]
      no  == [b \in {order[i] : i \in 1 .. Len(order)} \cup {NullBlock, Iroot} |->
                IF b \in {NullBlock, Iroot} THEN b ELSE CHOOSE i \in 1 .. Len(order) : order[i] = b]
      Block2(b) == [b EXCEPT !.left = no[@], !.right = no[@],
                    !.recs = [i \in 1 .. Len(@) |-> Rec(key[@[i].k], no[@[i].p])]]
  IN [t EXCEPT !.root = no[@], !.last = IF @ = 0 THEN 0 ELSE key[@],
               !.b = [n \in DOMAIN @ |-> IF n = Iroot THEN Block2(@[Iroot])
                                         ELSE IF n \in 1 .. Len(order) THEN Block2(@[order[n]])
                                         ELSE NoBlock]]
Canon(t) ==
  Renamed(t, InOrder(t, t.root),
          SelectSeq(FlattenSeq([l \in 1 .. t.nlevels |-> Row(t, l - 1)]), LAMBDA b : b # Iroot))

Evens == {2 * i : i \in 1 .. Cardinality(content)}

InsertKey(k) ==
  /\ Cardinality(content) < MaxKeys
  /\ content' = Evens \cup {k}
  /\ \E t \in {Canon(tree)} : \E f \in {Lookup(t, "EQ", k)} :
       f.stat = 0 /\ tree' = Insert(t, f.c, k).t

\* A fork goes back to an extent list before its tree has fewer than two records
\* (xfs_bmap_btree_to_extents).
DeleteKey(k) ==
  /\ tree.iroot => Cardinality(content) > 2
  /\ content' = Evens \ {k}
  /\ \E t \in {Canon(tree)} : \E f \in {Lookup(t, "EQ", k)} :
       f.stat = 1 /\ tree' = Delete(t, f.c).t

\* the record changes, its place among the others does not
UpdateKey(k, new) ==
  /\ content' = (Evens \ {k}) \cup {new}
  /\ \E t \in {Canon(tree)} : \E f \in {Lookup(t, "EQ", k)} :
       f.stat = 1 /\ tree' = Update(t, f.c, new)

BtreeNext ==
  \/ \E i \in 0 .. Cardinality(content) : InsertKey(2 * i + 1)
  \/ \E k \in Evens : DeleteKey(k) \/ UpdateKey(k, k - 1) \/ UpdateKey(k, k + 1)

BtreeSpec == BtreeInit /\ [][BtreeNext]_btreeVars

----------------------------------------------------------------------------
(* Properties *)

Used == {b \in Blocks \cup {Iroot} : tree.b[b] # NoBlock}

\* After any sequence of insertions, deletions and updates an in-order walk gives
\* exactly the keys the callers stored; every level is linked left to right in the
\* order of the parents' pointers, a parent's key is its child's first, no block is
\* lost, over-full or, but for the root, under-full, the last record is known, and a
\* lookup in any direction finds what a search of the sorted keys would.
BtreeIsExact ==
  LET walk == InOrder(tree, tree.root)
      rows == [l \in 0 .. tree.nlevels - 1 |-> Row(tree, l)]
  IN /\ \A i \in 1 .. Len(walk) - 1 : walk[i] < walk[i + 1]
     /\ {walk[i] : i \in 1 .. Len(walk)} = content
     /\ tree.last = (IF content = {} THEN 0 ELSE Max(content))
     /\ Used = UNION {{rows[l][i] : i \in 1 .. Len(rows[l])} : l \in 0 .. tree.nlevels - 1}
     /\ \A l \in 0 .. tree.nlevels - 1 : \A i \in 1 .. Len(rows[l]) :
          LET b == tree.b[rows[l][i]]
          IN /\ b.level = l
             /\ b.left = (IF i > 1 THEN rows[l][i - 1] ELSE NullBlock)
             /\ b.right = (IF i < Len(rows[l]) THEN rows[l][i + 1] ELSE NullBlock)
             /\ Len(b.recs) <= (IF rows[l][i] = Iroot THEN RootMax ELSE MaxRecs(l))
             /\ l < tree.nlevels - 1 /\ ~(tree.iroot /\ Len(rows[l]) = 1)
                  => Len(b.recs) >= MinRecs(l)
             /\ l > 0 => \A j \in 1 .. Len(b.recs) : b.recs[j].k = tree.b[b.recs[j].p].recs[1].k
     /\ \A k \in 1 .. 2 * Cardinality(content) + 2 :
          LET Found(dir) == LET f == Lookup(tree, dir, k)
                            IN IF f.stat = 1 THEN GetRec(tree, f.c) ELSE NullBlock
              le == {j \in content : j <= k}
              ge == {j \in content : j >= k}
          IN /\ Found("EQ") = (IF k \in content THEN k ELSE NullBlock)
             /\ Found("LE") = (IF le = {} THEN NullBlock ELSE Max(le))
             /\ Found("GE") = (IF ge = {} THEN NullBlock ELSE Min(ge))

PathIsValid(t, c) ==
  /\ c.nlevels = t.nlevels /\ BlockNo(t, c, c.nlevels - 1) = t.root
  /\ \A l \in 1 .. c.nlevels - 1 :
       /\ Ptr(c, l) \in 1 .. NumRecs(t, c, l)
       /\ Block(t, c, l).recs[Ptr(c, l)].p = BlockNo(t, c, l - 1)

\* "The cursor refers to the place where the record was (could be inserted) when
\* the operation returns" (xfs_btree_delete), whichever record of whichever tree is
\* deleted: one step back is the record before the deleted one, as xfs_bmap.c takes
\* it to be, and on every level the cursor stands on the entry that leads to its
\* block.
CursorKeepsItsPlace ==
  \A k \in {j \in content : tree.iroot => Cardinality(content) > 2} :
    \E r \in {Delete(tree, Lookup(tree, "EQ", k).c)} :
      LET below == {j \in content : j < k}
          d == Decrement(r.t, r.c, 0)
      IN /\ PathIsValid(r.t, r.c)
         /\ IF below = {} THEN d.stat = 0 ELSE d.stat = 1 /\ GetRec(r.t, d.c) = Max(below)
=============================================================================
