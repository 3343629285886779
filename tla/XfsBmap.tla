------------------------------- MODULE XfsBmap -------------------------------
(***************************************************************************)
(* The mapping of a file's blocks (xfs_bmap.c): the in-core extent list    *)
(* of the data fork, the records of its btree once it has one, delayed     *)
(* allocations with the indirect blocks reserved for them, and the counts  *)
(* that go with them.  Every operation runs under the inode lock in one    *)
(* transaction.  The btree is one leaf of records and a cursor in it       *)
(* (XfsBtree models the rest); the allocator grants any free run           *)
(* (XfsAlloc).  Realtime files, quota and the attribute fork are left out. *)
(***************************************************************************)
EXTENDS Integers, Sequences, FiniteSets, FiniteSetsExt, SequencesExt

CONSTANTS
  MaxOff,     \* bound: file offsets are 0 .. MaxOff - 1
  NBlocks,    \* bound: the blocks of the file system, from 1
  MaxExtLen,  \* MAXEXTLEN
  ExtMax,     \* if_ext_max, the extents that fit in the inode
  DMaxRecs,   \* m_bmap_dmxr, records in a btree block
  MaxLevels   \* XFS_BM_MAXLEVELS

VARIABLES
  inode,      \* the fork: extents, btree records, format and counts
  sb,         \* sb_fdblocks in core, and the blocks that are free on disk
  file        \* what was asked for: offset to a hole, a delayed or a real block

bmapVars == <<inode, sb, file>>

\* NULLSTARTBLOCK(k) holds the k indirect blocks reserved
NullStart(k) == -1 - k
IsNull(b) == b < 0
StartBlockVal(b) == -1 - b

Ext(off, bno, len, st) == [off |-> off, bno |-> bno, len |-> len, st |-> st]
EndOff(e) == e.off + e.len
Real(exts) == SelectSeq(exts, LAMBDA e : ~IsNull(e.bno))
MinOf(a, b) == IF a < b THEN a ELSE b

\* the worst case of indirect blocks for len blocks, level by level
WorstIndlen(len) ==
  LET RECURSIVE Up(_, _, _)
      Up(level, n, rval) ==
        IF level = MaxLevels THEN rval
        ELSE LET m == (n + DMaxRecs - 1) \div DMaxRecs
             IN IF m = 1 THEN rval + 1 + MaxLevels - level - 1 ELSE Up(level + 1, m, rval + m)
  IN Up(0, len, 0)

\* the first extent that ends after bno
SearchExtents(exts, bno) ==
  Min({i \in 1 .. Len(exts) : EndOff(exts[i]) > bno} \cup {Len(exts) + 1})

----------------------------------------------------------------------------
(* A cursor in the btree, and the calls the cases below make on it *)

LookupEq(e, want) == [op |-> "eq", e |-> e, want |-> want]
Del == [op |-> "del"]
Dec == [op |-> "dec"]
Inc == [op |-> "inc"]
Upd(e) == [op |-> "upd", e |-> e]
Ins(e) == [op |-> "ins", e |-> e]

\* XFS_WANT_CORRUPTED_GOTO leaves c.ok FALSE
BmbtOp(c, o) ==
  LET n == Len(c.recs)
      here == c.ptr \in 1 .. n
      at == 1 + Cardinality({i \in 1 .. n : c.recs[i].off < o.e.off})
  IN CASE o.op = "eq" -> [c EXCEPT !.ptr = at,
                            !.ok = c.ok /\ o.want = (at <= n /\ c.recs[MinOf(at, n)].off = o.e.off)]
       [] o.op = "del" -> IF here THEN [c EXCEPT !.recs = RemoveAt(c.recs, c.ptr)] ELSE [c EXCEPT !.ok = FALSE]
       [] o.op = "dec" -> [c EXCEPT !.ptr = c.ptr - 1, !.ok = c.ok /\ c.ptr > 1]
       [] o.op = "inc" -> [c EXCEPT !.ptr = c.ptr + 1]
       [] o.op = "upd" -> IF here THEN [c EXCEPT !.recs[c.ptr] = o.e] ELSE [c EXCEPT !.ok = FALSE]
       [] o.op = "ins" -> IF c.ptr \in 1 .. n + 1 THEN [c EXCEPT !.recs = InsertAt(c.recs, c.ptr, o.e)]
                          ELSE [c EXCEPT !.ok = FALSE]

BmbtOps(f, ops) ==
  IF f.fmt # "btree" THEN f
  ELSE LET c == FoldLeft(BmbtOp, [recs |-> f.bt, ptr |-> 0, ok |-> f.ok], ops)
       IN [f EXCEPT !.bt = c.recs, !.ok = c.ok]

\* k extents from index at give way to "by"; if_lastex and di_nextents follow
Change(at, k, by, last, next, ops) ==
  [at |-> at, k |-> k, by |-> by, last |-> last, next |-> next, ops |-> ops]
Apply(f, c) ==
  BmbtOps([f EXCEPT !.exts = SubSeq(f.exts, 1, c.at - 1) \o c.by \o SubSeq(f.exts, c.at + c.k, Len(f.exts)),
                    !.lastex = c.last, !.nextents = f.nextents + c.next], c.ops)

----------------------------------------------------------------------------
(* Between the extents in the inode and a btree *)

\* s is the pair of inode and superblock an operation works on
ExtentsToBtree(s, wasdel) ==
  LET b == Max(s.sb.free)
  IN [s EXCEPT !.f.fmt = "btree", !.f.bt = Real(s.f.exts), !.f.leaf = b, !.f.nblocks = s.f.nblocks + 1,
               !.sb.free = s.sb.free \ {b}, !.allocated = s.allocated + 1,
               !.sb.fdblocks = IF wasdel THEN @ ELSE @ - 1]

BtreeToExtents(s) ==
  [s EXCEPT !.f.fmt = "extents", !.f.bt = <<>>, !.f.leaf = 0, !.f.nblocks = s.f.nblocks - 1,
            !.sb.free = s.sb.free \cup {s.f.leaf}, !.sb.fdblocks = @ + 1]

NeedsBtree(f) == f.fmt = "extents" /\ f.nextents > ExtMax
ToBtree(s, wasdel) == IF NeedsBtree(s.f) THEN ExtentsToBtree(s, wasdel) ELSE s
ToExtents(s) == IF s.f.fmt = "btree" /\ s.f.nextents <= ExtMax THEN BtreeToExtents(s) ELSE s

----------------------------------------------------------------------------
(* xfs_bmap_add_extent: which neighbours does the new extent join? *)

Follows(a, b) == /\ ~IsNull(a.bno) /\ ~IsNull(b.bno)
                 /\ EndOff(a) = b.off /\ a.bno + a.len = b.bno /\ a.st = b.st /\ a.len + b.len <= MaxExtLen
DelayFollows(a, b) == IsNull(a.bno) /\ IsNull(b.bno) /\ EndOff(a) = b.off /\ a.len + b.len <= MaxExtLen
Room(a, b, c) == a.len + b.len + c.len <= MaxExtLen
Longer(e, n) == [e EXCEPT !.len = e.len + n]

MutDelayReal(f, idx, new) ==
  LET PREV == f.exts[idx]
      LEFT == f.exts[idx - 1]
  IN IF PREV.off = new.off /\ EndOff(PREV) = EndOff(new) /\ idx > 1 /\ Follows(LEFT, new)
       THEN Change(idx - 1, 2, <<Longer(LEFT, PREV.len)>>, idx - 1, 0,
                   <<LookupEq(PREV, FALSE), Upd(Longer(LEFT, PREV.len))>>)
       ELSE Change(idx, 1, <<new>> \o (IF EndOff(PREV) = EndOff(new) THEN <<>>
                     ELSE <<[PREV EXCEPT !.off = EndOff(new), !.len = EndOff(PREV) - EndOff(new)]>>), idx, 1,
                   <<LookupEq(new, FALSE), Ins(new)>>)

\* new replaces all or part of the delayed extent at idx
DelayReal(f, idx, new) ==
  LET PREV == f.exts[idx]
      LEFT == f.exts[idx - 1]
      RIGHT == f.exts[idx + 1]
      rest == [PREV EXCEPT !.off = EndOff(new), !.len = EndOff(PREV) - EndOff(new)]
      head == [PREV EXCEPT !.len = new.off - PREV.off]
      LF == PREV.off = new.off
      RF == EndOff(PREV) = EndOff(new)
      LC == idx > 1 /\ Follows(LEFT, new)
      RC == idx < Len(f.exts) /\ Follows(new, RIGHT) /\ (~(LC /\ LF /\ RF) \/ Room(LEFT, new, RIGHT))
      all == Longer(LEFT, PREV.len + RIGHT.len)
      joined == Longer(LEFT, PREV.len)
      ahead == Ext(PREV.off, new.bno, PREV.len + RIGHT.len, PREV.st)
  IN CASE LF /\ RF /\ LC /\ RC -> Change(idx - 1, 3, <<all>>, idx - 1, -1, <<LookupEq(RIGHT, TRUE), Del, Dec, Upd(all)>>)
       [] LF /\ RF /\ LC /\ ~RC -> Change(idx - 1, 2, <<joined>>, idx - 1, 0, <<LookupEq(LEFT, TRUE), Upd(joined)>>)
       [] LF /\ RF /\ ~LC /\ RC -> Change(idx, 2, <<ahead>>, idx, 0, <<LookupEq(RIGHT, TRUE), Upd(ahead)>>)
       [] LF /\ RF /\ ~LC /\ ~RC -> Change(idx, 1, <<[PREV EXCEPT !.bno = new.bno]>>, idx, 1,
                                          <<LookupEq(new, FALSE), Ins([new EXCEPT !.st = "norm"])>>)
       [] LF /\ ~RF /\ LC -> Change(idx - 1, 2, <<Longer(LEFT, new.len), rest>>, idx - 1, 0,
                                    <<LookupEq(LEFT, TRUE), Upd(Longer(LEFT, new.len))>>)
       [] LF /\ ~RF /\ ~LC -> Change(idx, 1, <<new, rest>>, idx, 1,
                                     <<LookupEq(new, FALSE), Ins([new EXCEPT !.st = "norm"])>>)
       [] ~LF /\ RF /\ RC ->
            LET r == Ext(new.off, new.bno, new.len + RIGHT.len, RIGHT.st)
            IN Change(idx, 2, <<head, r>>, idx + 1, 0, <<LookupEq(RIGHT, TRUE), Upd(r)>>)
       [] ~LF /\ RF /\ ~RC -> Change(idx, 1, <<head, new>>, idx + 1, 1,
                                     <<LookupEq(new, FALSE), Ins([new EXCEPT !.st = "norm"])>>)
       [] OTHER -> Change(idx, 1, <<head, new, rest>>, idx + 1, 1,
                          <<LookupEq(new, FALSE), Ins([new EXCEPT !.st = "norm"])>>)

\* the two halves give up one block in turn until avail covers what is asked
RECURSIVE Shave(_, _, _, _, _)
Shave(t1, t2, diff, avail, first) ==
  IF diff <= avail THEN [t1 |-> t1, t2 |-> t2]
  ELSE IF first /\ t1 > 0 THEN Shave(t1 - 1, t2, diff - 1, avail, FALSE)
  ELSE IF ~first /\ t2 > 0 THEN Shave(t1, t2 - 1, diff - 1, avail, TRUE)
  ELSE Shave(t1, t2, diff, avail, ~first)

\* the reservation that stays with what is still delayed
DelayRest(s, idx, new, PREV) ==
  LET LF == PREV.off = new.off
      RF == EndOff(PREV) = EndOff(new)
      old == StartBlockVal(PREV.bno)
      left == PREV.len - new.len
      at == s.f.lastex + (IF LF THEN 1 ELSE -1)
      keep == MinOf(WorstIndlen(left), old - s.allocated)
      t1 == WorstIndlen(new.off - PREV.off)
      t2 == WorstIndlen(EndOff(PREV) - EndOff(new))
      diff == t1 + t2 - old - s.allocated
      sh == Shave(t1, t2, diff, s.sb.fdblocks, TRUE)
  IN CASE LF /\ RF -> [s |-> s, dnew |-> 0]
       [] LF # RF -> [s |-> [s EXCEPT !.f.exts[at].bno = NullStart(keep)], dnew |-> keep]
       [] OTHER -> [s |-> [s EXCEPT !.f.exts[at].bno = NullStart(sh.t1), !.f.exts[at + 2].bno = NullStart(sh.t2),
                                    !.sb.fdblocks = IF diff > 0 THEN @ - (diff - (t1 + t2 - sh.t1 - sh.t2)) ELSE @],
                    dnew |-> sh.t1 + sh.t2]

\* new is the extent at idx, or its first or last part, or its middle, with the other state
UnwrittenWhole(idx, PREV, LEFT, RIGHT, new, LC, RC) ==
  LET all == Longer(LEFT, PREV.len + RIGHT.len)
      joined == Longer(LEFT, PREV.len)
      ahead == [PREV EXCEPT !.len = PREV.len + RIGHT.len, !.st = new.st]
  IN CASE LC /\ RC -> Change(idx - 1, 3, <<all>>, idx - 1, -2, <<LookupEq(RIGHT, TRUE), Del, Dec, Del, Dec, Upd(all)>>)
       [] LC /\ ~RC -> Change(idx - 1, 2, <<joined>>, idx - 1, -1, <<LookupEq(PREV, TRUE), Del, Dec, Upd(joined)>>)
       [] ~LC /\ RC -> Change(idx, 2, <<ahead>>, idx, -1,
                              <<LookupEq(RIGHT, TRUE), Del, Dec, Upd([new EXCEPT !.len = ahead.len])>>)
       [] OTHER -> Change(idx, 1, <<[PREV EXCEPT !.st = new.st]>>, idx, 0, <<LookupEq(new, TRUE), Upd(new)>>)

UnwrittenFirst(idx, PREV, LEFT, new, rest, LC) ==
  IF LC THEN Change(idx - 1, 2, <<Longer(LEFT, new.len), rest>>, idx - 1, 0,
                    <<LookupEq(PREV, TRUE), Upd(rest), Dec, Upd(Longer(LEFT, new.len))>>)
  ELSE Change(idx, 1, <<new, rest>>, idx, 1, <<LookupEq(PREV, TRUE), Upd(rest), Ins(new)>>)

UnwrittenLast(idx, PREV, RIGHT, new, head, RC) ==
  LET r == Ext(new.off, new.bno, new.len + RIGHT.len, new.st)
  IN IF RC THEN Change(idx, 2, <<head, r>>, idx + 1, 0, <<LookupEq(PREV, TRUE), Upd(head), Inc, Upd(r)>>)
     ELSE Change(idx, 1, <<head, new>>, idx + 1, 1,
                 <<LookupEq(PREV, TRUE), Upd(head), LookupEq(new, FALSE), Ins([new EXCEPT !.st = "norm"])>>)

UnwrittenMiddle(idx, PREV, new, head, rest) ==
  Change(idx, 1, <<head, new, rest>>, idx + 1, 2,
         <<LookupEq(PREV, TRUE), Upd(rest), Ins(head), LookupEq(new, FALSE), Ins(new)>>)

UnwrittenReal(f, idx, new) ==
  LET PREV == f.exts[idx]
      LEFT == f.exts[idx - 1]
      RIGHT == f.exts[idx + 1]
      rest == [PREV EXCEPT !.off = EndOff(new), !.bno = new.bno + new.len, !.len = EndOff(PREV) - EndOff(new)]
      head == [PREV EXCEPT !.len = new.off - PREV.off]
      LF == PREV.off = new.off
      RF == EndOff(PREV) = EndOff(new)
      LC == idx > 1 /\ Follows(LEFT, new)
      RC == idx < Len(f.exts) /\ Follows(new, RIGHT) /\ (~(LC /\ LF /\ RF) \/ Room(LEFT, new, RIGHT))
  IN CASE LF /\ RF -> UnwrittenWhole(idx, PREV, LEFT, RIGHT, new, LC, RC)
       [] LF /\ ~RF -> UnwrittenFirst(idx, PREV, LEFT, new, rest, LC)
       [] ~LF /\ RF -> UnwrittenLast(idx, PREV, RIGHT, new, head, RC)
       [] OTHER -> UnwrittenMiddle(idx, PREV, new, head, rest)

\* a delayed extent in the hole before idx; joining needs fewer indirect blocks
HoleDelay(s, idx, new) ==
  LET exts == s.f.exts
      left == exts[idx - 1]
      right == exts[idx]
      LC == idx > 1 /\ DelayFollows(left, new)
      RC == idx <= Len(exts) /\ DelayFollows(new, right) /\ (~LC \/ Room(left, new, right))
      len == new.len + (IF LC THEN left.len ELSE 0) + (IF RC THEN right.len ELSE 0)
      old == StartBlockVal(new.bno) + (IF LC THEN StartBlockVal(left.bno) ELSE 0)
                                    + (IF RC THEN StartBlockVal(right.bno) ELSE 0)
      e == IF LC \/ RC THEN Ext(IF LC THEN left.off ELSE new.off, NullStart(WorstIndlen(len)), len, new.st) ELSE new
      at == IF LC THEN idx - 1 ELSE idx
  IN [s EXCEPT !.f = Apply(s.f, Change(at, (IF LC THEN 1 ELSE 0) + (IF RC THEN 1 ELSE 0), <<e>>, at, 0, <<>>)),
               !.sb.fdblocks = @ + old - StartBlockVal(e.bno)]

\* a real extent in the hole before idx
HoleReal(f, idx, new) ==
  LET left == f.exts[idx - 1]
      right == f.exts[idx]
      LC == idx > 1 /\ Follows(left, new)
      RC == idx <= Len(f.exts) /\ Follows(new, right) /\ (~LC \/ Room(left, new, right))
      all == Longer(left, new.len + right.len)
      ahead == Ext(new.off, new.bno, new.len + right.len, right.st)
  IN CASE LC /\ RC -> Change(idx - 1, 2, <<all>>, idx - 1, -1, <<LookupEq(right, TRUE), Del, Dec, Upd(all)>>)
       [] LC /\ ~RC -> Change(idx - 1, 1, <<Longer(left, new.len)>>, idx - 1, 0,
                              <<LookupEq(left, TRUE), Upd(Longer(left, new.len))>>)
       [] ~LC /\ RC -> Change(idx, 1, <<ahead>>, idx, 0, <<LookupEq(right, TRUE), Upd(ahead)>>)
       [] OTHER -> Change(idx, 0, <<new>>, idx, 1, <<LookupEq(new, FALSE), Ins(new)>>)

GiveBack(r, old) ==
  LET n == r.dnew + r.s.allocated
  IN [r.s EXCEPT !.sb.fdblocks = IF n < old THEN @ + old - n ELSE @, !.allocated = 0]

AddDelayReal(s, idx, new) ==
  LET PREV == s.f.exts[idx]
      s1 == [s EXCEPT !.f = Apply(s.f, DelayReal(s.f, idx, new))]
  IN GiveBack(DelayRest(ToBtree(s1, TRUE), idx, new, PREV), StartBlockVal(PREV.bno))

AddExtent(s, idx, new) ==
  LET n == Len(s.f.exts)
      overlaps == idx <= n /\ EndOff(new) > s.f.exts[idx].off
      Plain(c) == [ToBtree([s EXCEPT !.f = Apply(s.f, c)], FALSE) EXCEPT !.allocated = 0]
  IN CASE n = 0 -> Plain(Change(1, 0, <<new>>, 1, IF IsNull(new.bno) THEN 0 ELSE 1, <<>>))
       [] n > 0 /\ IsNull(new.bno) -> HoleDelay(s, idx, new)
       [] n > 0 /\ ~IsNull(new.bno) /\ ~overlaps -> Plain(HoleReal(s.f, idx, new))
       [] n > 0 /\ ~IsNull(new.bno) /\ overlaps /\ IsNull(s.f.exts[idx].bno) -> AddDelayReal(s, idx, new)
       [] OTHER -> Plain(UnwrittenReal(s.f, idx, new))

----------------------------------------------------------------------------
(* xfs_bmapi *)

Start == [f |-> inode, sb |-> sb, allocated |-> 0]

\* The delayed write: every hole up to end is reserved, as far as there is space.
RECURSIVE Reserve(_, _, _, _)
ReserveHole(s, bno, end, idx, alen, ind) ==
  IF s.sb.fdblocks < alen + ind THEN s
  ELSE LET t == AddExtent([s EXCEPT !.sb.fdblocks = @ - alen - ind, !.f.delayed = @ + alen], idx,
                          Ext(bno, NullStart(ind), alen, "norm"))
       IN Reserve(t, EndOff(t.f.exts[t.f.lastex]), end, t.f.lastex + 1)
Reserve(s, bno, end, idx) ==
  LET exts == s.f.exts
      eof == idx > Len(exts)
      alen == MinOf(MinOf(end - bno, MaxExtLen), IF eof THEN MaxExtLen ELSE exts[idx].off - bno)
  IN IF bno >= end THEN s
     ELSE IF eof \/ exts[idx].off > bno THEN ReserveHole(s, bno, end, idx, alen, WorstIndlen(alen))
     ELSE Reserve(s, EndOff(exts[idx]), end, idx + 1)

\* one mapping (nmap = 1): what the allocator is asked for at bno
Wanted(f, bno, end, idx) ==
  IF idx > Len(f.exts) \/ f.exts[idx].off > bno
    THEN [off |-> bno, wasdel |-> FALSE,
          len |-> MinOf(MinOf(end - bno, MaxExtLen), IF idx > Len(f.exts) THEN MaxExtLen ELSE f.exts[idx].off - bno)]
    ELSE [off |-> f.exts[idx].off, wasdel |-> TRUE, len |-> f.exts[idx].len]
MinLeft(f) == IF f.fmt = "btree" THEN 2 ELSE 1

\* the allocator's answer, n blocks from b, becomes part of the file
Mapped(s, idx, w, b, n, prealloc) ==
  ToExtents(AddExtent([s EXCEPT !.sb.free = @ \ (b .. b + n - 1), !.f.nblocks = @ + n,
                                !.f.delayed = IF w.wasdel THEN @ - n ELSE @,
                                !.sb.fdblocks = IF w.wasdel THEN @ ELSE @ - n],
                      idx, Ext(w.off, b, n, IF prealloc /\ ~w.wasdel THEN "unw" ELSE "norm")))

\* a write over an unwritten extent: the part asked for becomes written
Converted(s, idx, bno, end) ==
  LET got == s.f.exts[idx]
  IN ToExtents(AddExtent(s, idx, Ext(bno, got.bno + bno - got.off, MinOf(end, EndOff(got)) - bno, "norm")))

----------------------------------------------------------------------------
(* xfs_bunmapi and xfs_bmap_del_extent *)

\* del is all or part of the extent at idx
DelReal(f, idx, got, del) ==
  LET rest == [got EXCEPT !.off = EndOff(del), !.bno = del.bno + del.len, !.len = EndOff(got) - EndOff(del)]
      head == [got EXCEPT !.len = del.off - got.off]
      LF == got.off = del.off
      RF == EndOff(got) = EndOff(del)
  IN CASE LF /\ RF -> Change(idx, 1, <<>>, idx, -1, <<LookupEq(got, TRUE), Del>>)
       [] LF /\ ~RF -> Change(idx, 1, <<rest>>, idx, 0, <<LookupEq(got, TRUE), Upd(rest)>>)
       [] ~LF /\ RF -> Change(idx, 1, <<head>>, idx, 0, <<LookupEq(got, TRUE), Upd(head)>>)
       [] OTHER -> Change(idx, 1, <<head, rest>>, idx + 1, 1, <<LookupEq(got, TRUE), Upd(head), Inc, Ins(rest)>>)

DelDelay(f, idx, got, del) ==
  LET old == StartBlockVal(got.bno)
      n == got.len - del.len
      keep == MinOf(WorstIndlen(n), old)
      head == Ext(got.off, NullStart(keep), del.off - got.off, got.st)
      rest == Ext(EndOff(del), NullStart(keep), EndOff(got) - EndOff(del), got.st)
      t1 == WorstIndlen(head.len)
      t2 == WorstIndlen(rest.len)
      sh == Shave(t1, t2, t1 + t2, old, TRUE)
      LF == got.off = del.off
      RF == EndOff(got) = EndOff(del)
  IN CASE LF /\ RF -> [c |-> Change(idx, 1, <<>>, idx, 0, <<>>), new |-> 0]
       [] LF /\ ~RF -> [c |-> Change(idx, 1, <<rest>>, idx, 0, <<>>), new |-> keep]
       [] ~LF /\ RF -> [c |-> Change(idx, 1, <<head>>, idx, 0, <<>>), new |-> keep]
       [] OTHER -> [c |-> Change(idx, 1, <<[head EXCEPT !.bno = NullStart(sh.t1)], [rest EXCEPT !.bno = NullStart(sh.t2)]>>,
                                 idx + 1, 0, <<>>), new |-> sh.t1 + sh.t2]

DelExtent(s, idx, got, del) ==
  IF IsNull(got.bno)
    THEN LET d == DelDelay(s.f, idx, got, del)
         IN [s EXCEPT !.f = [Apply(s.f, d.c) EXCEPT !.delayed = @ - del.len],
                      !.sb.fdblocks = @ + del.len + StartBlockVal(got.bno) - d.new]
    ELSE [s EXCEPT !.f = [Apply(s.f, DelReal(s.f, idx, got, del)) EXCEPT !.nblocks = @ - del.len],
                   !.sb.free = @ \cup (del.bno .. del.bno + del.len - 1), !.sb.fdblocks = @ + del.len]

\* the part of got between start and bno
Part(got, start, bno) ==
  LET off == IF got.off < start THEN start ELSE got.off
  IN Ext(off, IF IsNull(got.bno) THEN got.bno ELSE got.bno + off - got.off,
         MinOf(EndOff(got), bno + 1) - off, got.st)

\* no block to turn the list into a btree with
NoRoom(f, got, del, res) ==
  /\ ~IsNull(got.bno) /\ ~res /\ f.fmt = "extents" /\ f.nextents >= ExtMax
  /\ del.off > got.off /\ EndOff(del) < EndOff(got)

\* from the end of the range to its start, nexts extents at most
RECURSIVE Unmap(_, _, _, _, _, _)
UnmapOne(s, start, bno, idx, nexts, res, del) ==
  IF NoRoom(s.f, s.f.exts[idx], del, res) THEN [s |-> s, bno |-> bno, err |-> TRUE]
  ELSE LET t == DelExtent(s, idx, s.f.exts[idx], del)
           at == t.f.lastex
           back == at > t.f.nextents \/ t.f.exts[MinOf(at, Len(t.f.exts))].off > del.off - 1
       IN Unmap(t, start, del.off - 1, IF back /\ del.off > start THEN at - 1 ELSE at, nexts - 1, res)
Unmap(s, start, bno, idx, nexts, res) ==
  LET at == IF idx >= 1 /\ s.f.exts[MinOf(idx, Len(s.f.exts))].off > bno THEN idx - 1 ELSE idx
      last == MinOf(bno, EndOff(s.f.exts[at]) - 1)
  IN IF nexts = 0 \/ bno < start THEN [s |-> s, bno |-> bno, err |-> FALSE]
     ELSE IF idx < 1 \/ at < 1 THEN [s |-> s, bno |-> start - 1, err |-> FALSE]
     ELSE IF last < start THEN [s |-> s, bno |-> last, err |-> FALSE]
     ELSE UnmapOne(s, start, last, at, nexts, res, Part(s.f.exts[at], start, last))

Bunmapi(s, start, end, nexts, res) ==
  LET idx == SearchExtents(s.f.exts, end - 1)
      eof == idx > Len(s.f.exts)
      r == Unmap(s, start, IF eof THEN EndOff(Last(s.f.exts)) - 1 ELSE end - 1, IF eof THEN idx - 1 ELSE idx, nexts, res)
  IN IF s.f.exts = <<>> THEN [s |-> s, bno |-> start - 1, err |-> FALSE]
     ELSE IF r.err THEN r
     ELSE [r EXCEPT !.s = IF NeedsBtree(r.s.f) THEN ToBtree(r.s, FALSE) ELSE ToExtents(r.s)]

----------------------------------------------------------------------------
(* Questions about a fork *)

FirstUnused(exts, len, lowest) ==
  LET RECURSIVE At(_, _)
      At(i, max) == IF i > Len(exts) \/ (exts[i].off >= lowest + len /\ exts[i].off - max >= len) THEN max
                    ELSE At(i + 1, Max({EndOff(exts[i]), lowest}))
  IN At(1, lowest)
LastBefore(exts, last) ==
  LET idx == SearchExtents(exts, last - 1)
  IN IF idx <= Len(exts) /\ exts[idx].off <= last - 1 THEN last
     ELSE IF idx = 1 THEN 0 ELSE EndOff(exts[idx - 1])
LastOffset(exts) == IF exts = <<>> THEN 0 ELSE EndOff(Last(exts))
BmapEof(exts, endoff) == exts = <<>> \/ endoff >= EndOff(Last(exts))

----------------------------------------------------------------------------
Offsets == 0 .. MaxOff - 1
Contents(b, st) == [b |-> b, st |-> st]
Hole == Contents(0, "hole")
Delay == Contents(0, "delay")

BmapInit ==
  /\ inode = [exts |-> <<>>, bt |-> <<>>, fmt |-> "extents", leaf |-> 0, nextents |-> 0, nblocks |-> 0,
              delayed |-> 0, lastex |-> 1, ok |-> TRUE]
  /\ sb = [fdblocks |-> NBlocks, free |-> 1 .. NBlocks]
  /\ file = [o \in Offsets |-> Hole]

Finish(s) == inode' = [s.f EXCEPT !.lastex = 1] /\ sb' = s.sb

\* the first offset of the range that no extent covers any more
Cut(f, off, end) == Min({o \in off .. end - 1 : \A i \in 1 .. Len(f.exts) : ~(f.exts[i].off <= o /\ o < EndOff(f.exts[i]))} \cup {end})

WriteDelay(off, end) ==
  \E s \in {Reserve(Start, off, end, SearchExtents(inode.exts, off))} :
    /\ Finish(s)
    /\ file' = [o \in Offsets |-> IF o \in off .. Cut(s.f, off, end) - 1 /\ file[o] = Hole THEN Delay ELSE file[o]]

Allocate(off, end, prealloc) ==
  LET idx == SearchExtents(inode.exts, off)
      w == Wanted(inode, off, end, idx)
  IN /\ idx <= Len(inode.exts) /\ inode.exts[idx].off <= off => IsNull(inode.exts[idx].bno)
     /\ \E b \in 1 .. NBlocks, n \in 1 .. w.len :
          /\ b .. b + n - 1 \subseteq sb.free
          /\ Cardinality(sb.free) - n >= MinLeft(inode)
          /\ ~w.wasdel => sb.fdblocks > n
          /\ Finish(Mapped(Start, idx, w, b, n, prealloc))
          /\ file' = [o \in Offsets |-> IF o \in w.off .. w.off + n - 1
                        THEN Contents(b + o - w.off, IF prealloc /\ ~w.wasdel THEN "unw" ELSE "norm") ELSE file[o]]

Convert(off, end) ==
  LET idx == SearchExtents(inode.exts, off)
      upto == MinOf(end, EndOff(inode.exts[idx]))
  IN /\ idx <= Len(inode.exts) /\ inode.exts[idx].off <= off /\ inode.exts[idx].st = "unw"
     /\ sb.fdblocks > 0
     /\ Finish(Converted(Start, idx, off, end))
     /\ file' = [o \in Offsets |-> IF o \in off .. upto - 1 THEN Contents(file[o].b, "norm") ELSE file[o]]

\* XFS_ITRUNC_MAX_EXTENTS extents in one transaction
Truncate(off, end) ==
  \E res \in {FALSE, sb.fdblocks > 0} : \E r \in {Bunmapi(Start, off, end, 2, res)} :
    /\ Finish(r.s)
    /\ file' = [o \in Offsets |-> IF ~r.err /\ o \in off .. end - 1 /\ o > r.bno THEN Hole ELSE file[o]]

BmapNext ==
  \E off \in Offsets : \E end \in off + 1 .. MaxOff :
    \/ WriteDelay(off, end)
    \/ \E prealloc \in BOOLEAN : Allocate(off, end, prealloc)
    \/ Convert(off, end)
    \/ Truncate(off, end)

BmapSpec == BmapInit /\ [][BmapNext]_bmapVars

----------------------------------------------------------------------------
Covers(e, o) == e.off <= o /\ o < EndOff(e)
Holds(o) ==
  LET is == {i \in 1 .. Len(inode.exts) : Covers(inode.exts[i], o)}
  IN IF is = {} THEN Hole
     ELSE LET e == inode.exts[Min(is)]
          IN IF IsNull(e.bno) THEN Delay ELSE Contents(e.bno + o - e.off, e.st)

QueriesAgree ==
  LET used == {o \in Offsets : file[o] # Hole}
  IN /\ LastOffset(inode.exts) = Max({o + 1 : o \in used} \cup {0})
     /\ \A o \in Offsets : LastBefore(inode.exts, o + 1) = Max({u + 1 : u \in {v \in used : v <= o}} \cup {0})
     /\ \A low \in Offsets, len \in 1 .. MaxOff :
          FirstUnused(inode.exts, len, low) = Min({o \in low .. low + MaxOff : (o .. o + len - 1) \cap used = {}})
     /\ \A o \in Offsets : BmapEof(inode.exts, o) = (\A u \in used : u < o)

(* However writes, preallocation, conversion and truncation split and join
   extents, the extent list holds each block of the file once and maps it as
   it was last asked for, the btree holds exactly the real extents of the
   list at the places the cursor was moved to, and the questions the callers
   ask of the list are answered from what it maps. *)
MappingIsExact ==
  /\ inode.ok
  /\ \A i \in 1 .. Len(inode.exts) : inode.exts[i].len \in 1 .. MaxExtLen
  /\ \A i \in 1 .. Len(inode.exts) - 1 : EndOff(inode.exts[i]) <= inode.exts[i + 1].off
  /\ \A o \in Offsets : Holds(o) = file[o]
  /\ inode.nextents = Len(Real(inode.exts))
  /\ (inode.fmt = "btree") = (inode.nextents > ExtMax)
  /\ inode.fmt = "btree" => inode.bt = Real(inode.exts)
  /\ QueriesAgree

(* The in-core count of free blocks is what is free on disk less the blocks
   promised to delayed extents and the indirect blocks reserved for them,
   and no reservation is negative, after any sequence of reservation,
   conversion, joining and removal. *)
DelayedSpaceIsAccounted ==
  LET delayed == {i \in 1 .. Len(inode.exts) : IsNull(inode.exts[i].bno)}
      Total(Op(_)) == MapThenSumSet(LAMBDA i : Op(inode.exts[i]), delayed)
  IN /\ inode.delayed = Total(LAMBDA e : e.len)
     /\ sb.fdblocks = Cardinality(sb.free) - inode.delayed - Total(LAMBDA e : StartBlockVal(e.bno))
     /\ sb.fdblocks >= 0
     /\ inode.nblocks = NBlocks - Cardinality(sb.free)
=============================================================================
