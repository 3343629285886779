------------------------------ MODULE XfsAlloc ------------------------------
(***************************************************************************)
(* The free-space allocator (fs/xfs/xfs_alloc.c): two btrees over the free *)
(* extents of each allocation group, by block and by size, the AGFL from   *)
(* which those btrees take their own blocks, the three searches for an     *)
(* extent, and the walk over the groups with its locking rule.             *)
(*                                                                         *)
(* A btree is the set of its records, <<block, length>>, with the blocks   *)
(* it uses besides its first leaf; XfsBtree models its inside.  An action  *)
(* is one call of xfs_alloc_vextent or xfs_free_extent from any state of   *)
(* the free space; the in-core copies pagf_* equal the AGF while nobody    *)
(* holds its lock and are not modelled.                                    *)
(***************************************************************************)
EXTENDS Integers, Sequences, FiniteSets, FiniteSetsExt, SequencesExt

CONSTANTS
  AgCount,     \* sb_agcount
  DataBlocks,  \* bound: blocks 0 .. DataBlocks - 1 of a group may be free to begin with
  LeafRecs,    \* records in a leaf
  MaxLevels,   \* m_ag_maxlevels
  AgflSize,    \* XFS_AGFL_SIZE
  OtherFree,   \* bound: what may be free in the groups but the first to begin with
  FlCounts,    \* bound: the lengths the AGFL may have to begin with
  Requests,    \* the allocations asked for
  Ops          \* bound: the calls one transaction makes

VARIABLES
  ags,         \* AGF, AGFL and btrees of each group
  used,        \* <<group, block>> the callers own
  trans,       \* the AGFs this transaction holds, the group of its first block, m_agfrotor,
               \* and <<held, wanted>> for each wait for an AGF while it held others
  op           \* the last request, its outcome, and how many there were

allocVars == <<ags, used, trans, op>>

NullBno == -1
AgSize == DataBlocks + AgflSize + 4     \* sb_agblocks
LeastOf(a, b) == IF a < b THEN a ELSE b
AbsDiff(a, b) == IF a < b THEN b - a ELSE a - b
RoundUp(b, align) == ((b + align - 1) \div align) * align
End(e) == e[1] + e[2]

ByBno(recs) == SetToSortSeq(recs, LAMBDA x, y : x[1] < y[1])
ByCnt(recs) == SetToSortSeq(recs, LAMBDA x, y : x[2] < y[2] \/ (x[2] = y[2] /\ x[1] < y[1]))

\* XFS_WANT_CORRUPTED_RETURN
Want(ag, cond) == [ag EXCEPT !.ok = @ /\ cond]

----------------------------------------------------------------------------
(* The AGFL, a ring of AgflSize blocks *)

GetFreelist(ag) ==
  [ag |-> IF ag.flcount = 0 THEN ag ELSE [ag EXCEPT !.flfirst = (@ + 1) % AgflSize, !.flcount = @ - 1],
   bno |-> IF ag.flcount = 0 THEN NullBno ELSE ag.agfl[ag.flfirst]]

PutFreelist(ag, bno) ==
  LET last == (ag.fllast + 1) % AgflSize
  IN [ag EXCEPT !.fllast = last, !.flcount = @ + 1, !.agfl = [@ EXCEPT ![last] = bno]]

OnFreelist(ag) == [i \in 0 .. ag.flcount - 1 |-> ag.agfl[(ag.flfirst + i) % AgflSize]]

----------------------------------------------------------------------------
(* The btrees.  A leaf more is a block more, and so is the root over the    *)
(* second leaf.                                                             *)

Leaves(blks) == IF blks = <<>> THEN 1 ELSE Len(blks)
Levels(ag, t) == IF ag[t].blks = <<>> THEN 1 ELSE 2
MinFreelist(ag) == LeastOf(Levels(ag, "bno") + 1, MaxLevels) + LeastOf(Levels(ag, "cnt") + 1, MaxLevels)

Linked(g, t) == IF g.bno = NullBno THEN Want(g.ag, FALSE) ELSE [g.ag EXCEPT ![t].blks = Append(@, g.bno)]
AllocBlock(ag, t) == Linked(GetFreelist(ag), t)
FreeBlock(ag, t) == PutFreelist([ag EXCEPT ![t].blks = Front(@)], Last(ag[t].blks))

LastrecInserted(ag, t, e) == IF t = "cnt" /\ e[2] > ag.longest THEN [ag EXCEPT !.longest = e[2]] ELSE ag
LastrecDeleted(ag, t, e) ==
  IF t = "cnt" /\ (ag[t].recs = {} \/ \A x \in ag[t].recs : x[2] < e[2] \/ (x[2] = e[2] /\ x[1] < e[1]))
  THEN [ag EXCEPT !.longest = Max({x[2] : x \in ag[t].recs} \cup {0})] ELSE ag

Again(ag, t, twice) == IF twice THEN AllocBlock(ag, t) ELSE ag
Grown(ag, t) ==
  IF Cardinality(ag[t].recs) <= LeafRecs * Leaves(ag[t].blks) THEN ag
  ELSE Again(AllocBlock(ag, t), t, ag[t].blks = <<>>)
Shrunk(ag, t) ==
  IF ag[t].blks = <<>> \/ Cardinality(ag[t].recs) > LeafRecs * (Leaves(ag[t].blks) - 1) THEN ag
  ELSE IF Len(ag[t].blks) = 2 THEN FreeBlock(FreeBlock(ag, t), t) ELSE FreeBlock(ag, t)

InsertRec(ag, t, e, cond) ==
  IF cond THEN Grown(LastrecInserted(Want([ag EXCEPT ![t].recs = @ \cup {e}], e \notin ag[t].recs), t, e), t) ELSE ag
DeleteRec(ag, t, e) == Shrunk(LastrecDeleted(Want([ag EXCEPT ![t].recs = @ \ {e}], e \in ag[t].recs), t, e), t)
UpdateRec(ag, t, e, f) == Want([ag EXCEPT ![t].recs = (@ \ {e}) \cup {f}], e \in ag[t].recs)

----------------------------------------------------------------------------
(* What of an extent to take *)

ComputeAligned(e, args) ==
  IF args.alignment > 1 /\ e[2] >= args.minlen
  THEN LET b == RoundUp(e[1], args.alignment)
       IN <<b, IF b - e[1] >= e[2] THEN 0 ELSE e[2] - (b - e[1])>>
  ELSE e

\* where in the free extent e the wanted extent goes, nearest to want
ComputeNew(want, wantlen, align, e) ==
  LET end == End(e)
      up == RoundUp(want, align)
      down == up - align
      fromEnd == RoundUp(end - wantlen, align)
      Fits(b) == LeastOf(wantlen, end - b)
  IN IF e[1] >= want
     THEN IF RoundUp(e[1], align) >= end THEN NullBno ELSE RoundUp(e[1], align)
     ELSE IF end >= want + wantlen
     THEN IF align = 1 THEN want
          ELSE IF up >= end THEN (IF down < e[1] THEN NullBno ELSE down)
          ELSE IF down < e[1] THEN up
          ELSE IF Fits(up) < Fits(down) \/ (Fits(up) = Fits(down) /\ AbsDiff(up, want) > AbsDiff(down, want)) THEN down
          ELSE up
     ELSE IF align = 1 THEN end - wantlen
     ELSE IF fromEnd > end - wantlen /\ fromEnd - align >= e[1] THEN fromEnd - align
     ELSE IF fromEnd >= end THEN NullBno ELSE fromEnd

Diff(new, want) == IF new = NullBno THEN 0 ELSE AbsDiff(new, want)

\* args->len after xfs_alloc_fix_len
FixLen(args, len) ==
  LET k == len % args.prod
      new == IF k > args.mod THEN len - k - args.mod ELSE len - args.prod - (args.mod - k)
  IN IF \/ args.prod <= 1 \/ len < args.mod \/ len = args.maxlen
        \/ args.mod = 0 /\ len < args.prod
        \/ k = args.mod \/ new < args.minlen
     THEN len ELSE new

\* args->len after xfs_alloc_fix_minleft, 0 if too little would be left
FixMinleft(ag, args, len) ==
  LET diff == ag.freeblks + ag.flcount - len - args.minleft
  IN IF args.minleft = 0 \/ diff >= 0 THEN len
     ELSE IF len + diff >= args.minlen THEN len + diff ELSE 0

\* the record of the by-block tree shrinks in place, or goes
Shorten(ag, f, g, stays) == IF stays THEN UpdateRec(ag, "bno", f, g) ELSE DeleteRec(ag, "bno", f)

MutFixupTrees(ag, f, r) ==
  LET left == <<f[1], r[1] - f[1]>>
      right == <<End(r), End(f) - End(r)>>
      one == IF left[2] > 0 THEN left ELSE right
      n1 == left[2] > 0 \/ right[2] > 0
  IN Shorten(InsertRec(DeleteRec(ag, "cnt", f), "cnt", one, n1), f, one, n1)

FixupTrees(ag, f, r) ==
  LET left == <<f[1], r[1] - f[1]>>
      right == <<End(r), End(f) - End(r)>>
      one == IF left[2] > 0 THEN left ELSE right
      n1 == left[2] > 0 \/ right[2] > 0
      n2 == left[2] > 0 /\ right[2] > 0
  IN InsertRec(Shorten(InsertRec(InsertRec(DeleteRec(ag, "cnt", f), "cnt", one, n1), "cnt", right, n2), f, one, n1),
               "bno", right, n2)

None(ag) == [ag |-> ag, bno |-> NullBno, len |-> 0, fl |-> FALSE]
Taken(ag, f, bno, len) ==
  IF len = 0 THEN None(ag)
  ELSE [ag |-> FixupTrees(ag, f, <<bno, len>>), bno |-> bno, len |-> len, fl |-> FALSE]

----------------------------------------------------------------------------
(* The searches.  args.agbno is the block wanted, args.last how many records *)
(* the last leaf of the by-size tree holds when there is more than one leaf. *)

Exact(ag, args) ==
  LET below == {e \in ag.bno.recs : e[1] <= args.agbno}
      f == CHOOSE e \in below : \A x \in below : x[1] <= e[1]
      len == LeastOf(End(f), args.agbno + args.maxlen) - args.agbno
  IN IF below = {} THEN None(ag)
     ELSE IF End(f) < args.agbno + args.minlen THEN None(ag)
     ELSE Taken(ag, f, args.agbno, FixMinleft(ag, args, FixLen(args, len)))

\* no extent is long enough: the longest there is, or a block of the AGFL
Small(ag, args, s) ==
  IF s = <<>> /\ args.minlen = 1 /\ args.alignment = 1 /\ ~args.isfl /\ ag.flcount > args.minleft THEN GetFreelist(ag)
  ELSE [ag |-> ag, bno |-> NullBno]
FromSmall(g) == IF g.bno # NullBno THEN [ag |-> g.ag, bno |-> g.bno, len |-> 1, fl |-> TRUE] ELSE None(g.ag)

FirstGe(s, len) == IF \E i \in DOMAIN s : s[i][2] >= len THEN Min({i \in DOMAIN s : s[i][2] >= len}) ELSE 0

\* the extents from the i-th of the by-size tree down, while a better one may come
BestBelow(s, i, args) ==
  LET Usable(e) == LeastOf(args.maxlen, ComputeAligned(e, args)[2])
      Step(j, best) == LET e == s[j] IN
        IF e[2] < Usable(best) \/ Usable(best) = args.maxlen THEN best
        ELSE IF Usable(e) > Usable(best) THEN e ELSE best
  IN FoldRight(Step, [j \in 1 .. i - 1 |-> j], s[i])

SizeFrom(ag, args, f, r) ==
  IF r[2] < args.minlen THEN None(ag)
  ELSE Taken(ag, f, r[1], FixMinleft(ag, args, FixLen(args, LeastOf(args.maxlen, r[2]))))
SizeBest(ag, args, f) == SizeFrom(ag, args, f, ComputeAligned(f, args))

SizeOf(ag, args, s, i) ==
  IF i = 0 /\ (s = <<>> \/ Last(s)[2] < args.minlen) THEN FromSmall(Small(ag, args, s))
  ELSE SizeBest(ag, args, BestBelow(s, IF i = 0 THEN Len(s) ELSE i, args))
Size(ag, args) ==
  LET s == ByCnt(ag.cnt.recs) IN SizeOf(ag, args, s, FirstGe(s, args.maxlen + args.alignment - 1))

\* the last leaf of the by-size tree, tried from its i-th record on
NearInLeaf(ag, args, s, i) ==
  LET Step(b, e) ==
        LET a == ComputeAligned(e, args)
            len == FixLen(args, LeastOf(a[2], args.maxlen))
            new == ComputeNew(args.agbno, len, args.alignment, e)
        IN IF \/ b.len >= args.maxlen /\ b.diff = 0
              \/ a[2] < args.minlen \/ len < b.len \/ new = NullBno
              \/ len = b.len /\ Diff(new, args.agbno) >= b.diff
           THEN b ELSE [len |-> len, diff |-> Diff(new, args.agbno), new |-> new, ext |-> e]
  IN FoldLeft(Step, [len |-> 0, diff |-> 0, new |-> NullBno, ext |-> <<0, 0>>], SubSeq(s, i, Len(s)))

Long(e, args) == ComputeAligned(e, args)[2] >= args.minlen

\* outwards from the wanted block until the left or the right extent will do
RECURSIVE Outwards(_, _, _, _)
Outwards(s, lt, gt, args) ==
  IF lt > 0 /\ Long(s[lt], args) THEN [lt |-> lt, gt |-> gt, side |-> "lt"]
  ELSE IF gt \in DOMAIN s /\ Long(s[gt], args) THEN [lt |-> lt - 1, gt |-> gt, side |-> "gt"]
  ELSE IF lt <= 1 /\ gt >= Len(s) THEN [lt |-> 0, gt |-> Len(s) + 1, side |-> "none"]
  ELSE Outwards(s, lt - 1, gt + 1, args)

NearLen(e, args) == FixLen(args, LeastOf(ComputeAligned(e, args)[2], args.maxlen))
NearDiff(e, args) == Diff(ComputeNew(args.agbno, NearLen(e, args), args.alignment, e), args.agbno)

\* the extents of the other side that may be nearer: all up to the bound
RightRival(s, gt, args, ltdiff) ==
  LET in == {g \in gt .. Len(s) : \A h \in gt .. g : ComputeAligned(s[h], args)[1] < args.agbno + ltdiff}
      fit == {g \in in : Long(s[g], args)}
  IN IF fit # {} /\ NearDiff(s[Min(fit)], args) < ltdiff THEN Min(fit) ELSE 0
\* agbno - gtdiff is unsigned: below zero it is past every block
LeftRival(s, lt, args, gtdiff) ==
  LET in == {l \in 1 .. lt : gtdiff <= args.agbno
                             /\ \A h \in l .. lt : ComputeAligned(s[h], args)[1] > args.agbno - gtdiff}
      fit == {l \in in : Long(s[l], args)}
  IN IF fit # {} /\ NearDiff(s[Max(fit)], args) < gtdiff THEN Max(fit) ELSE 0

\* the index of the extent to take from, 0 for none
Nearest(s, o, args) ==
  IF o.side = "none" THEN 0
  ELSE IF o.side = "lt"
  THEN LET d == NearDiff(s[o.lt], args)
           g == RightRival(s, o.gt, args, d)
       IN IF d > 0 /\ g > 0 THEN g ELSE o.lt
  ELSE LET d == NearDiff(s[o.gt], args)
           l == LeftRival(s, o.lt, args, d)
       IN IF d > 0 /\ l > 0 THEN l ELSE o.gt

NearTake(ag, args, e, len) == Taken(ag, e, ComputeNew(args.agbno, len, args.alignment, e), len)
NearAt(ag, args, s, i) ==
  IF i = 0 THEN None(ag) ELSE NearTake(ag, args, s[i], FixMinleft(ag, args, NearLen(s[i], args)))
NearAround(ag, args, s) ==
  LET lt == Cardinality({e \in ag.bno.recs : e[1] <= args.agbno})
  IN NearAt(ag, args, s, Nearest(s, Outwards(s, lt, lt + 1, args), args))

NearBest(ag, args, b) ==
  IF b.len > 0 THEN Taken(ag, b.ext, b.new, FixMinleft(ag, args, b.len)) ELSE NearAround(ag, args, ByBno(ag.bno.recs))

\* ge is the first record long enough, leaf the first in the last leaf
NearFrom(ag, args, s, ge, leaf) ==
  LET long == {j \in leaf .. Len(s) : s[j][2] >= args.minlen}
      from == IF ge > 0 /\ args.alignment = 1 THEN ge ELSE IF long = {} THEN Len(s) + 1 ELSE Min(long)
  IN IF ge = 0 /\ (s = <<>> \/ Last(s)[2] < args.minlen) THEN FromSmall(Small(ag, args, s))
     ELSE NearBest(ag, args, NearInLeaf(ag, args, s, IF ge \in 1 .. leaf - 1 THEN Len(s) + 1 ELSE from))

Near(ag, args) ==
  LET s == ByCnt(ag.cnt.recs)
  IN NearFrom(ag, args, s, FirstGe(s, args.maxlen), IF ag.cnt.blks = <<>> THEN 1 ELSE Len(s) - args.last + 1)

Counted(r) == IF r.bno # NullBno /\ ~r.fl THEN [r EXCEPT !.ag.freeblks = @ - r.len] ELSE r
AgVextent(ag, args) ==
  Counted(IF args.type = "THIS_AG" THEN Size(ag, args)
          ELSE IF args.type = "NEAR_BNO" THEN Near(ag, args) ELSE Exact(ag, args))

----------------------------------------------------------------------------
(* Freeing, and keeping the AGFL at the length the btrees may need *)

\* the by-block tree takes the new extent, joined with its neighbours lt and gt
MergeBno(ag, lt, gt, new) ==
  LET l == CHOOSE e \in lt : TRUE
      g == CHOOSE e \in gt : TRUE
  IN IF lt # {} /\ gt # {} THEN UpdateRec(DeleteRec(ag, "bno", g), "bno", l, new)
     ELSE IF lt # {} THEN UpdateRec(ag, "bno", l, new)
     ELSE IF gt # {} THEN UpdateRec(ag, "bno", g, new) ELSE InsertRec(ag, "bno", new, TRUE)

Uncount(ag, es) == IF es = {} THEN ag ELSE DeleteRec(ag, "cnt", CHOOSE e \in es : TRUE)

Recount(ag, new, len) == [InsertRec(ag, "cnt", new, TRUE) EXCEPT !.freeblks = @ + len]

FreeAgExtent(ag, bno, len) ==
  LET lt == {e \in ag.bno.recs : End(e) = bno}
      gt == {e \in ag.bno.recs : e[1] = bno + len}
      new == <<Min({e[1] : e \in lt} \cup {bno}), len + SumSet({e[2] : e \in lt}) + SumSet({e[2] : e \in gt})>>
      apart == \A e \in ag.bno.recs : End(e) <= bno \/ bno + len <= e[1]
  IN Recount(MergeBno(Uncount(Uncount(Want(ag, apart), lt), gt), lt, gt, new), new, len)

RECURSIVE Trim(_, _)
FreeOne(g) == FreeAgExtent(g.ag, g.bno, 1)
Trim(ag, need) == IF ag.flcount <= need THEN ag ELSE Trim(FreeOne(GetFreelist(ag)), need)

RECURSIVE PutAll(_, _, _)
PutAll(ag, bno, len) == IF len = 0 THEN ag ELSE PutAll(PutFreelist(ag, bno), bno + 1, len - 1)

FillArgs(ag, need) ==
  [type |-> "THIS_AG", agbno |-> 0, minlen |-> 1, maxlen |-> need - ag.flcount, alignment |-> 1, mod |-> 0, prod |-> 1,
   minleft |-> 0, isfl |-> TRUE]

\* got is false if the free space ran out before the list was as long as needed
RECURSIVE Fill(_, _, _)
Filled(r, need, freeing) ==
  IF r.bno = NullBno THEN [ag |-> r.ag, got |-> freeing] ELSE Fill(PutAll(r.ag, r.bno, r.len), need, freeing)
Fill(ag, need, freeing) ==
  IF ag.flcount >= need THEN [ag |-> ag, got |-> TRUE] ELSE Filled(AgVextent(ag, FillArgs(ag, need)), need, freeing)

Enough(ag, args) ==
  LET need == MinFreelist(ag)
      delta == IF need > ag.flcount THEN need - ag.flcount ELSE 0
      longest == IF ag.longest > delta THEN ag.longest - delta ELSE IF ag.flcount > 0 \/ ag.longest > 0 THEN 1 ELSE 0
  IN /\ args.minlen + args.alignment + args.slop - 1 <= longest
     /\ ag.freeblks + ag.flcount - need - args.total >= args.minleft

\* state is what happened to the AGF: untouched, dirty but without enough, or ready
Fixed(ag, f) == [ag |-> f.ag, state |-> IF f.got THEN "ready" ELSE IF f.ag = ag THEN "none" ELSE "dirty"]
FixFreelist(ag, args, try, freeing, locked) ==
  IF (~freeing /\ ~Enough(ag, args)) \/ (try /\ locked) THEN [ag |-> ag, state |-> "none"]
  ELSE Fixed(ag, Fill(Trim(ag, MinFreelist(ag)), MinFreelist(ag), freeing))

----------------------------------------------------------------------------
(* The walk over the groups *)

Groups == 0 .. AgCount - 1
Failed(w) == [w EXCEPT !.bno = NullBno, !.done = TRUE]

\* one group: w is the walk so far, others the groups whose AGF is held by others
Found(w, r) == [w EXCEPT !.ags[w.agno] = r.ag, !.held = @ \cup {w.agno}, !.bno = r.bno, !.len = r.len, !.fl = r.fl, !.done = TRUE]
Tried(w, args, f) ==
  IF f.state = "ready" THEN Found(w, AgVextent(f.ag, [args EXCEPT !.type = w.type, !.agbno = w.agbno]))
  ELSE IF f.state = "dirty" THEN [w EXCEPT !.ags[w.agno] = f.ag, !.held = @ \cup {w.agno}] ELSE w
TryGroup(w, args, others) ==
  LET least == [args EXCEPT !.minleft = IF w.nomin THEN 0 ELSE @]
      waits == ~w.try /\ w.agno \notin w.held /\ Enough(w.ags[w.agno], least)
  IN Tried([w EXCEPT !.waited = IF waits THEN @ \cup {<<h, w.agno>> : h \in w.held} ELSE @], args,
           FixFreelist(w.ags[w.agno], least, w.try, FALSE, w.agno \in others))

NextGroup(w, args, sagno, first) ==
  LET next == IF w.agno + 1 < AgCount THEN w.agno + 1 ELSE IF first # NullBno THEN sagno ELSE 0
      type == IF w.agno = sagno /\ args.type = "START_BNO" THEN "THIS_AG" ELSE w.type
  IN IF next # sagno THEN [w EXCEPT !.agno = next, !.type = type]
     ELSE IF w.nomin THEN Failed(w)
     ELSE IF ~w.try THEN [w EXCEPT !.agno = next, !.type = type, !.nomin = TRUE]
     ELSE [w EXCEPT !.agno = next, !.try = FALSE, !.agbno = args.agbno,
                    !.type = IF args.type = "START_BNO" THEN "NEAR_BNO" ELSE type]

\* a group that is given (sagno is NullBno), or one after the other
RECURSIVE Walk(_, _, _, _, _)
WalkOn(w, args, sagno, first, others) ==
  IF w.done \/ sagno = NullBno THEN w ELSE Walk(NextGroup(w, args, sagno, first), args, sagno, first, others)
Walk(w, args, sagno, first, others) ==
  IF w.done THEN w ELSE WalkOn(TryGroup(w, args, others), args, sagno, first, others)

Start(args, agno, try) ==
  [ags |-> ags, agno |-> agno, held |-> trans.held, agbno |-> args.agbno, try |-> try, nomin |-> FALSE, waited |-> {},
   type |-> IF args.type = "START_BNO" THEN "NEAR_BNO" ELSE IF args.type \in {"START_AG", "FIRST_AG", "ANY_AG"} THEN "THIS_AG" ELSE args.type,
   bno |-> NullBno, len |-> 0, fl |-> FALSE, done |-> FALSE]

\* minleft does not count for a group that is given, only for the search in it
Vextent(args, first, others) ==
  LET given == args.type \in {"THIS_AG", "NEAR_BNO", "THIS_BNO"}
      agno == IF args.type = "ANY_AG" THEN trans.rotor ELSE args.agno
  IN Walk([Start(args, agno, ~given /\ args.type # "FIRST_AG") EXCEPT !.nomin = given], args,
          IF given THEN NullBno ELSE IF args.type = "FIRST_AG" THEN 0 ELSE agno, first, others)

----------------------------------------------------------------------------
(* Any free space a group may have *)

RunStarts(free) == {b \in free : b - 1 \notin free}
RunLen(free, b) == Min({n \in 1 .. AgSize : b + n \notin free})
Recs(free) == {<<b, RunLen(free, b)>> : b \in RunStarts(free)}
TreeBlks(recs, at) == IF Cardinality(recs) <= LeafRecs THEN <<>> ELSE <<at, at + 1>>

Ag(free, n, first) ==
  LET recs == Recs(free)
  IN [bno |-> [recs |-> recs, blks |-> TreeBlks(recs, DataBlocks + AgflSize)],
      cnt |-> [recs |-> recs, blks |-> TreeBlks(recs, DataBlocks + AgflSize + 2)],
      agfl |-> [i \in 0 .. AgflSize - 1 |-> DataBlocks + ((i - first) % AgflSize)],
      flfirst |-> first, fllast |-> (first + n - 1) % AgflSize, flcount |-> n,
      freeblks |-> Cardinality(free), longest |-> Max({e[2] : e \in recs} \cup {0}), ok |-> TRUE]

FreeBlocks(ag) == UNION {e[1] .. End(e) - 1 : e \in ag.bno.recs}
FlBlocks(ag) == {OnFreelist(ag)[i] : i \in 0 .. ag.flcount - 1}
Owned(ag) == FreeBlocks(ag) \cup FlBlocks(ag) \cup ToSet(ag.bno.blks) \cup ToSet(ag.cnt.blks)

NoArgs == [type |-> "THIS_AG", agno |-> 0, agbno |-> 0, minlen |-> 1, maxlen |-> 1, alignment |-> 1, mod |-> 0, prod |-> 1,
           minleft |-> 0, slop |-> 0, total |-> 0, isfl |-> FALSE, last |-> 1]

AllocInit ==
  /\ \E f \in SUBSET (0 .. DataBlocks - 1), o \in OtherFree, n \in FlCounts, first \in {0, AgflSize - 1} :
       ags = [a \in Groups |-> IF a = 0 THEN Ag(f, n, first) ELSE Ag(o, n, 0)]
  /\ used = UNION {{<<a, b>> : b \in (0 .. AgSize - 1) \ Owned(ags[a])} : a \in Groups}
  /\ trans = [held |-> {}, first |-> NullBno, rotor |-> 0, waited |-> {}]
  /\ op = [n |-> 0, args |-> NoArgs, bno |-> NullBno, len |-> 0, fl |-> FALSE]

\* xfs_bmap_btalloc and xfs_bmbt_alloc_block: after the first block only in its
\* group and above; from the first group on once a request with minleft failed
Asks(args) ==
  /\ trans.first # NullBno => args.type \in {"START_BNO", "NEAR_BNO"} /\ args.agno = trans.first /\ args.minleft = 0
  /\ (args.type = "FIRST_AG") = (op.n > 0 /\ trans.first = NullBno)
  /\ args.type = "FIRST_AG" => op.args.minleft > 0

Alloc(args, others) ==
  /\ op.n < Ops /\ Asks(args)
  /\ \E w \in {Vextent(args, trans.first, others \ trans.held)} :
       /\ ags' = w.ags
       /\ used' = used \cup {<<w.agno, b>> : b \in w.bno .. w.bno + w.len - 1}
       /\ trans' = [held |-> w.held, first |-> IF w.bno = NullBno THEN trans.first ELSE w.agno, waited |-> trans.waited \cup w.waited,
                    rotor |-> IF args.type = "ANY_AG" THEN (w.agno + 1) % AgCount ELSE trans.rotor]
       /\ op' = [n |-> op.n + 1, args |-> args, bno |-> w.bno, len |-> w.len, fl |-> w.fl]

\* a transaction of its own
FreeExtent(a, bno, len) ==
  /\ op.n < Ops /\ trans.held = {}
  /\ \A b \in bno .. bno + len - 1 : <<a, b>> \in used
  /\ \E f \in {FixFreelist(ags[a], NoArgs, FALSE, TRUE, FALSE)} :
       ags' = [ags EXCEPT ![a] = FreeAgExtent(f.ag, bno, len)]
  /\ used' = used \ {<<a, b>> : b \in bno .. bno + len - 1}
  /\ op' = [op EXCEPT !.n = @ + 1, !.bno = NullBno]
  /\ UNCHANGED trans

AllocNext ==
  \/ \E args \in Requests, others \in SUBSET Groups : Alloc(args, others)
  \/ \E bno \in 0 .. AgSize - 1, len \in 1 .. 2 : FreeExtent(0, bno, len)

AllocSpec == AllocInit /\ [][AllocNext]_allocVars

----------------------------------------------------------------------------
\* Every block of a group is free, on the AGFL, in one of the two btrees or owned
\* by a caller, and only one of these; both btrees hold the same free extents,
\* joined where they touch; the AGF counts them right and no check for corruption
\* has failed (xfs_alloc_fixup_trees, xfs_free_ag_extent, xfs_alloc_fix_freelist).
FreeSpaceIsExact ==
  \A a \in Groups :
    LET ag == ags[a]
        mine == {u[2] : u \in {v \in used : v[1] = a}}
    IN /\ ag.ok /\ ag.bno.recs = ag.cnt.recs
       /\ \A e, f \in ag.bno.recs : e # f => End(e) < f[1] \/ End(f) < e[1]
       /\ ag.freeblks = Cardinality(FreeBlocks(ag))
       /\ ag.longest = Max({e[2] : e \in ag.bno.recs} \cup {0})
       /\ ag.flcount \in 0 .. AgflSize
       /\ Owned(ag) \cup mine = 0 .. AgSize - 1
       /\ ag.freeblks + ag.flcount + Len(ag.bno.blks) + Len(ag.cnt.blks) + Cardinality(mine) = AgSize

\* What is allocated is as long as asked for, aligned and where it was asked for,
\* and leaves minleft blocks in its group (xfs_alloc_vextent).
AllocationIsAsAsked ==
  op.bno # NullBno =>
    LET args == op.args
        ag == ags[trans.first]
    IN /\ op.len \in args.minlen .. args.maxlen
       /\ ~op.fl => op.bno % args.alignment = 0
       /\ args.type = "THIS_BNO" => op.bno = args.agbno
       /\ ag.freeblks + ag.flcount + Len(ag.bno.blks) + Len(ag.cnt.blks) >= args.minleft

\* "Otherwise, we may end up with out-of-order locking of AGF, which might cause
\* deadlock": a transaction that holds an AGF waits for no lower one.
AgfsLockedInOrder == \A w \in trans.waited : w[1] < w[2]

\* "len should be k * prod + mod for some k.  If len is too small it is returned
\* unchanged.  If len hits maxlen it is left alone."  (xfs_alloc_fix_len)
LengthIsModProd ==
  LET args == op.args
  IN op.bno # NullBno /\ ~op.fl /\ args.minleft = 0 =>
       \/ op.len = args.maxlen \/ op.len % args.prod = args.mod
       \/ op.len < args.minlen + args.prod
=============================================================================
